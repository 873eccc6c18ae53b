------------------------------ MODULE EventBus ------------------------------
(***************************************************************************)
(* createEventBus of packages/core/src/event-bus.ts: per event a Map from   *)
(* subscriber keys (client ids and symbols) to handlers, and publish, which *)
(* calls the handlers while it iterates over the live Map.  The bus is      *)
(* synchronous: the only interleaving is what a handler does while publish  *)
(* calls it, and it may subscribe and unsubscribe anyone.                   *)
(*                                                                          *)
(* A JavaScript Map iterates in insertion order and visits entries added    *)
(* during the iteration; setting an existing key keeps its place.  So an    *)
(* entry is the number of its insertion, its place.                         *)
(***************************************************************************)
EXTENDS Naturals, FiniteSetsExt

CONSTANTS
    Event,
    Key,       \* subscribers: client ids and the symbols of internal ones
    MaxPlaces  \* bound: insertions into the Maps in all

ASSUME BusAssumption == MaxPlaces \in Nat /\ "none" \notin Event

VARIABLES
    place,     \* listeners.get(event).get(key): its place, 0 without entry
    places,    \* insertions so far
    current,   \* the event being published, or "none"
    cursor,    \* place of the entry publish visited last
    due,       \* history: subscribed when publish began, and ever since
    visits     \* history: visits of each key by this publish

vars == <<place, places, current, cursor, due, visits>>

Init ==
    /\ place = [e \in Event |-> [k \in Key |-> 0]]
    /\ places = 0
    /\ current = "none"
    /\ cursor = 0
    /\ due = {}
    /\ visits = [k \in Key |-> 0]

Subscribers(e) == {k \in Key : place[e][k] # 0}

-----------------------------------------------------------------------------
(* subscribe replaces the handler of a key that has an entry already.       *)
Subscribe(e, k) ==
    /\ places < MaxPlaces
    /\ IF place[e][k] # 0
       THEN UNCHANGED <<place, places>>
       ELSE /\ places' = places + 1
            /\ place' = [place EXCEPT ![e][k] = places + 1]
    /\ UNCHANGED <<current, cursor, due, visits>>

(* The function returned by subscribe deletes whatever entry the key has.   *)
Unsubscribe(e, k) ==
    /\ place[e][k] # 0
    /\ place' = [place EXCEPT ![e][k] = 0]
    /\ due' = IF e = current THEN due \ {k} ELSE due
    /\ UNCHANGED <<places, current, cursor, visits>>

UnsubscribeAll(k) ==
    /\ \E e \in Event : place[e][k] # 0
    /\ place' = [e \in Event |-> [place[e] EXCEPT ![k] = 0]]
    /\ due' = due \ {k}
    /\ UNCHANGED <<places, current, cursor, visits>>

-----------------------------------------------------------------------------
Publish(e) ==
    /\ current = "none" /\ Subscribers(e) # {}
    /\ current' = e
    /\ cursor' = 0
    /\ due' = Subscribers(e)
    /\ visits' = [k \in Key |-> 0]
    /\ UNCHANGED <<place, places>>

Ahead == {k \in Key : current # "none" /\ place[current][k] > cursor}
IsNext(k) == k \in Ahead /\ \A j \in Ahead : place[current][k] <= place[current][j]

\* Mutant: publish is not isolated from a handler that throws.
VisitNotIsolated(k, throws) ==
    /\ IsNext(k)
    /\ cursor' = place[current][k]
    /\ visits' = [visits EXCEPT ![k] = @ + 1]
    /\ current' = IF throws THEN "none" ELSE current
    /\ UNCHANGED <<place, places, due>>

(* Filter and handler of the next entry run; what they throw is logged.     *)
Visit(k, throws) ==
    /\ IsNext(k)
    /\ cursor' = place[current][k]
    /\ visits' = [visits EXCEPT ![k] = @ + 1]
    /\ UNCHANGED <<place, places, current, due>>

PublishReturns ==
    /\ current # "none" /\ Ahead = {}
    /\ current' = "none"
    /\ UNCHANGED <<place, places, cursor, due, visits>>

Next ==
    \/ \E e \in Event : Publish(e)
    \/ \E e \in Event, k \in Key : Subscribe(e, k) \/ Unsubscribe(e, k)
    \/ \E k \in Key : UnsubscribeAll(k)
    \/ \E k \in Key, throws \in BOOLEAN : Visit(k, throws)
    \/ PublishReturns

Spec == Init /\ [][Next]_vars

-----------------------------------------------------------------------------
(* Types; two entries of a Map never share a place.                         *)
TypeOK ==
    /\ place \in [Event -> [Key -> 0 .. places]]
    /\ places \in 0 .. MaxPlaces
    /\ current \in Event \union {"none"}
    /\ cursor \in 0 .. places
    /\ due \subseteq Key
    /\ visits \in [Key -> Nat]
    /\ \A e, f \in Event, j, k \in Key :
           place[e][j] = place[f][k] /\ place[e][j] # 0 => e = f /\ j = k

(* publish returns only when every subscriber that was there when it began, *)
(* and has not been unsubscribed since, has been visited exactly once,      *)
(* whichever handlers threw and whatever the handlers subscribed,           *)
(* re-subscribed or unsubscribed meanwhile.                                 *)
EveryoneServedOnce ==
    [][current # "none" /\ current' = "none" => \A k \in due : visits[k] = 1]_vars
=============================================================================
