--------------------------- MODULE EventBusProofs ---------------------------
(***************************************************************************)
(* publish serves everyone, for any number of subscribers, events and       *)
(* insertions.  The argument is the exact record of a publish under way,    *)
(* DueAgree: of the subscribers that are due, those visited are the ones    *)
(* whose place the iteration has passed.  Places are unique and new ones    *)
(* are greater than the cursor (both in TypeOK), so a visit passes one      *)
(* entry and no more, and whatever a handler inserts lies ahead.            *)
(* Over Redis the order of what is heard is an invariant too (RedisInv).    *)
(***************************************************************************)
EXTENDS RedisEventBus, FilterProofs, TLAPS

DueAgree ==
    current # "none" =>
        \A k \in due : /\ place[current][k] # 0
                       /\ visits[k] = IF place[current][k] <= cursor THEN 1 ELSE 0

IInv == TypeOK /\ DueAgree

(* Nobody is subscribed and nothing is published at first.                  *)
LEMMA InitIInv == Init => IInv
BY BusAssumption DEF Init, IInv, TypeOK, DueAgree

(* Subscriptions made by handlers, or between publishes.                    *)
LEMMA SubscribeKeepsIInv ==
    ASSUME IInv, NEW e \in Event, NEW k \in Key, Subscribe(e, k)
    PROVE  IInv'
<1> USE BusAssumption DEF IInv, TypeOK
<1>1. CASE place[e][k] # 0
    BY <1>1 DEF Subscribe, DueAgree
<1>2. CASE place[e][k] = 0
  <2>1. /\ places' = places + 1 /\ places' \in 0 .. MaxPlaces
        /\ place' = [place EXCEPT ![e][k] = places + 1]
        /\ UNCHANGED <<current, cursor, due, visits>>
    BY <1>2 DEF Subscribe
  <2>2. place' \in [Event -> [Key -> 0 .. places']]
    BY <2>1
  <2>3. \A f \in Event, j \in Key :
           place'[f][j] = IF f = e /\ j = k THEN places + 1 ELSE place[f][j]
    BY <2>1
  <2>4. ASSUME NEW f \in Event, NEW g \in Event, NEW i \in Key, NEW j \in Key,
               place'[f][i] = place'[g][j], place'[f][i] # 0
        PROVE  f = g /\ i = j
    BY <2>3, <2>4
  <2>5. TypeOK'
    BY <2>1, <2>2, <2>4
  <2>6. DueAgree'
    BY <1>2, <2>1, <2>3 DEF DueAgree
  <2> QED BY <2>5, <2>6
<1> QED BY <1>1, <1>2

(* Subscriptions that end, one by one or all of a client's.                 *)
LEMMA UnsubscribeKeepsIInv ==
    ASSUME IInv, NEW k \in Key, UnsubscribeAll(k) \/ \E e \in Event : Unsubscribe(e, k)
    PROVE  IInv'
<1> USE DEF IInv, TypeOK
<1>1. ASSUME NEW e \in Event, Unsubscribe(e, k) PROVE IInv'
  <2>1. place' \in [Event -> [Key -> 0 .. places]]
    BY <1>1 DEF Unsubscribe
  <2>2. \A f \in Event, j \in Key :
           place'[f][j] = IF f = e /\ j = k THEN 0 ELSE place[f][j]
    BY <1>1 DEF Unsubscribe
  <2>3. TypeOK'
    BY <1>1, <2>1, <2>2 DEF Unsubscribe
  <2>4. DueAgree'
    BY <1>1, <2>2 DEF Unsubscribe, DueAgree
  <2> QED BY <2>3, <2>4
<1>2. CASE UnsubscribeAll(k)
  <2>1. place' \in [Event -> [Key -> 0 .. places]]
    BY <1>2 DEF UnsubscribeAll
  <2>2. \A f \in Event, j \in Key : place'[f][j] = IF j = k THEN 0 ELSE place[f][j]
    BY <1>2 DEF UnsubscribeAll
  <2>3. TypeOK'
    BY <1>2, <2>1, <2>2 DEF UnsubscribeAll
  <2>4. DueAgree'
    BY <1>2, <2>2 DEF UnsubscribeAll, DueAgree
  <2> QED BY <2>3, <2>4
<1> QED BY <1>1, <1>2

(* The iteration of publish passes one entry: the next one.                 *)
LEMMA VisitKeepsIInv ==
    ASSUME IInv, NEW k \in Key, NEW throws \in BOOLEAN, Visit(k, throws)
    PROVE  IInv'
<1> USE DEF IInv, TypeOK
<1>1. /\ current \in Event /\ place[current][k] > cursor
      /\ \A j \in Key : place[current][j] > cursor => place[current][k] <= place[current][j]
    BY DEF Visit, IsNext, Ahead
<1>2. /\ cursor' = place[current][k] /\ cursor' \in 0 .. places
      /\ visits' = [visits EXCEPT ![k] = @ + 1]
      /\ UNCHANGED <<place, places, current, due>>
    BY <1>1 DEF Visit
<1>3. /\ place \in [Event -> [Key -> 0 .. places]] /\ places \in Nat /\ due \subseteq Key
      /\ visits \in [Key -> Nat] /\ cursor \in Nat
    BY BusAssumption
<1>4. visits' \in [Key -> Nat]
    BY <1>2, <1>3
<1>5. TypeOK'
    BY <1>2, <1>4
<1>6. ASSUME NEW j \in due
      PROVE  place[current][j] # 0 /\ visits'[j] = IF place[current][j] <= cursor' THEN 1 ELSE 0
  <2>1. /\ j \in Key /\ place[current][j] \in Nat /\ place[current][k] \in Nat
        /\ place[current][j] # 0
        /\ visits[j] = IF place[current][j] <= cursor THEN 1 ELSE 0
    BY <1>1, <1>3, <1>6, BusAssumption DEF DueAgree
  <2>2. CASE j = k
    <3>1. visits[k] = 0 /\ ~ (place[current][k] <= cursor)
      BY <1>1, <1>3, <2>1, <2>2
    <3> QED BY <1>2, <1>3, <2>1, <2>2, <3>1
  <2>3. CASE j # k
    <3>1. place[current][j] # place[current][k]
      BY <1>1, <2>1, <2>3
    <3>2. place[current][j] <= cursor' <=> place[current][j] <= cursor
      BY <1>1, <1>2, <1>3, <2>1, <3>1
    <3> QED BY <1>2, <1>3, <2>1, <2>3, <3>2
  <2> QED BY <2>2, <2>3
<1> QED BY <1>2, <1>5, <1>6 DEF DueAgree

(* No step of publish or of a handler breaks the invariant.                 *)
LEMMA NextIInv == IInv /\ [Next]_vars => IInv'
<1> SUFFICES ASSUME IInv, [Next]_vars PROVE IInv'
    OBVIOUS
<1>1. ASSUME NEW e \in Event, Publish(e) PROVE IInv'
    BY <1>1 DEF Publish, Subscribers, IInv, TypeOK, DueAgree
<1>2. CASE PublishReturns
    BY <1>2 DEF PublishReturns, IInv, TypeOK, DueAgree
<1>3. CASE UNCHANGED vars
    BY <1>3 DEF vars, IInv, TypeOK, DueAgree
<1> QED
    BY <1>1, <1>2, <1>3, SubscribeKeepsIInv, UnsubscribeKeepsIInv, VisitKeepsIInv DEF Next

(* The inductive invariant holds in every reachable state.                  *)
THEOREM Invariant == Spec => []IInv
<1>1. QED BY InitIInv, NextIInv, PTL DEF Spec

(* Every variable keeps its type, and no two entries share a place.         *)
THEOREM TypeCorrect == Spec => []TypeOK
<1>1. QED BY Invariant, PTL DEF IInv

(* publish returns only when everyone who is due was visited exactly once.  *)
THEOREM EveryoneIsServed == Spec => EveryoneServedOnce
<1> DEFINE Served == current # "none" /\ current' = "none" => \A k \in due : visits[k] = 1
<1>1. IInv /\ [Next]_vars => [Served]_vars
  <2> SUFFICES ASSUME IInv, Next, current # "none", current' = "none"
               PROVE  \A k \in due : visits[k] = 1
    OBVIOUS
  <2>1. PublishReturns
    BY BusAssumption DEF Next, Publish, Subscribe, Unsubscribe, UnsubscribeAll, Visit
  <2> QED BY <2>1 DEF PublishReturns, Ahead, IInv, TypeOK, DueAgree
<1>2. QED BY <1>1, Invariant, PTL DEF Spec, EveryoneServedOnce

(* The channel carries events and foreign messages only, and nothing when   *)
(* there is no subscription.                                                *)
WireTypes ==
    /\ outbox \in Seq(Event) /\ heard \in Seq(Event)
    /\ channel \in Seq(Event \union {Foreign}) /\ log \in Seq(Event \union {Foreign})
    /\ link # "subscribed" => channel = <<>>

RedisInv == WireTypes /\ UniformOrder

(* What waits in a sequence is its head and the rest.                       *)
LEMMA HeadFirst ==
    ASSUME NEW T, NEW s \in Seq(T), s # <<>>
    PROVE  s = <<Head(s)>> \o Tail(s) /\ Head(s) \in T /\ Tail(s) \in Seq(T)
<1>1. /\ Head(s) \in T /\ Tail(s) \in Seq(T) /\ Len(s) \in Nat /\ Len(s) > 0
      /\ Len(Tail(s)) = Len(s) - 1 /\ s[1] = Head(s)
      /\ \A i \in 1 .. Len(s) - 1 : Tail(s)[i] = s[i + 1]
    BY HeadTailProperties
<1> DEFINE r == <<Head(s)>> \o Tail(s)
<1>2. <<Head(s)>> \in Seq(T) /\ Len(<<Head(s)>>) = 1 /\ <<Head(s)>>[1] = Head(s)
    BY <1>1
<1>3. /\ r \in Seq(T) /\ Len(r) = Len(s)
      /\ \A i \in 1 .. Len(s) : r[i] = IF i <= 1 THEN Head(s) ELSE Tail(s)[i - 1]
    BY <1>1, <1>2, ConcatProperties
<1>4. \A i \in 1 .. Len(s) : r[i] = s[i]
    BY <1>1, <1>3
<1>5. r = s
    BY <1>3, <1>4, SeqEqual
<1> QED BY <1>1, <1>5

(* The events among the messages that the broker appends or OnMessage takes. *)
LEMMA EventsAppend ==
    ASSUME NEW s \in Seq(Event \union {Foreign}), NEW m \in Event \union {Foreign}
    PROVE  /\ Events(s) \in Seq(Event)
           /\ Events(Append(s, m)) = IF m = Foreign THEN Events(s) ELSE Append(Events(s), m)
<1> DEFINE T == Event \union {Foreign}
<1>1. /\ Only(s, Event) \in Seq(T) /\ ToSet(Only(s, Event)) = ToSet(s) \cap Event
    BY OnlyType
<1>2. Only(s, Event) \in Seq(Event)
  <2>1. /\ Len(Only(s, Event)) \in Nat
        /\ \A i \in 1 .. Len(Only(s, Event)) : Only(s, Event)[i] \in ToSet(Only(s, Event))
        /\ Only(s, Event) = [i \in 1 .. Len(Only(s, Event)) |-> Only(s, Event)[i]]
    BY <1>1 DEF ToSet
  <2>2. \A i \in 1 .. Len(Only(s, Event)) : Only(s, Event)[i] \in Event
    BY <1>1, <2>1
  <2> QED BY <2>1, <2>2
<1>3. Only(Append(s, m), Event)
          = IF m \in Event THEN Append(Only(s, Event), m) ELSE Only(s, Event)
    BY OnlyAppend
<1> QED BY <1>2, <1>3, RedisAssumption DEF Events

LEMMA EventsHead ==
    ASSUME NEW s \in Seq(Event \union {Foreign}), s # <<>>
    PROVE  Events(s) = IF Head(s) = Foreign THEN Events(Tail(s))
                       ELSE <<Head(s)>> \o Events(Tail(s))
<1> DEFINE T == Event \union {Foreign}
           h == <<Head(s)>>
<1>1. s = h \o Tail(s) /\ Head(s) \in T /\ Tail(s) \in Seq(T) /\ h \in Seq(T)
    BY HeadFirst
<1>2. Only(s, Event) = Only(h, Event) \o Only(Tail(s), Event)
  <2> DEFINE r == Tail(s)
             joined == h \o r
  <2>1. h \in Seq(T) /\ r \in Seq(T) /\ s = joined
    BY <1>1
  <2>2. Only(joined, Event) = Only(h, Event) \o Only(r, Event)
    <3> HIDE DEF h, r
    <3> QED BY <2>1, OnlyConcat
  <2> HIDE DEF joined
  <2> QED BY <2>1, <2>2
<1>3. Only(h, Event) = IF Head(s) = Foreign THEN <<>> ELSE h
  <2>1. Append(<<>>, Head(s)) = h /\ <<>> \in Seq(T)
    OBVIOUS
  <2>2. Only(Append(<<>>, Head(s)), Event)
            = IF Head(s) \in Event THEN Append(Only(<<>>, Event), Head(s)) ELSE Only(<<>>, Event)
    <3> DEFINE e == <<>>
               x == Head(s)
    <3>1. e \in Seq(T) /\ x \in T
      BY <1>1
    <3> HIDE DEF T, h, e, x
    <3>2. Only(Append(e, x), Event) =
              IF x \in Event THEN Append(Only(e, Event), x) ELSE Only(e, Event)
      BY <3>1, OnlyAppend
    <3> QED BY <3>2 DEF e, x
  <2>3. Only(<<>>, Event) = <<>>
    BY OnlyEmpty
  <2> QED BY <1>1, <2>1, <2>2, <2>3, RedisAssumption
<1>4. Only(Tail(s), Event) \in Seq(T)
    BY <1>1, OnlyType
<1>5. <<>> \o Only(Tail(s), Event) = Only(Tail(s), Event)
    BY <1>4, ConcatEmptySeq
<1> QED BY <1>2, <1>3, <1>5 DEF Events

LEMMA RedisBegins == RedisInit => RedisInv
<1>1. RedisInit => WireTypes /\ link # "subscribed"
    BY DEF RedisInit, WireTypes
<1> QED BY <1>1 DEF RedisInv, UniformOrder

(* The broker takes a message: whatever its connection, the instance agrees. *)
LEMMA BroadcastKeepsOrder ==
    ASSUME RedisInv, NEW m \in Event \union {Foreign}, Broadcast(m), outbox' \in Seq(Event)
    PROVE  RedisInv'
<1> DEFINE T == Event \union {Foreign}
<1>1. /\ heard \in Seq(Event) /\ channel \in Seq(T) /\ log \in Seq(T)
      /\ link' = link /\ heard' = heard /\ log' = Append(log, m)
    BY DEF RedisInv, WireTypes, Broadcast
<1>2. log' \in Seq(T) /\ Append(channel, m) \in Seq(T)
    BY <1>1
<1>3. CASE link # "subscribed"
    BY <1>1, <1>2, <1>3 DEF RedisInv, WireTypes, UniformOrder, Broadcast
<1>4. CASE link = "subscribed"
  <2>1. channel' = Append(channel, m) /\ heard \o Events(channel) = Events(log)
    BY <1>4 DEF Broadcast, RedisInv, UniformOrder
  <2>2. CASE m = Foreign
    <3>1. Events(channel') = Events(channel) /\ Events(log') = Events(log)
      BY <1>1, <2>1, <2>2, EventsAppend
    <3> QED BY <1>1, <1>2, <1>4, <2>1, <3>1 DEF RedisInv, WireTypes, UniformOrder
  <2>3. CASE m # Foreign
    <3>1. /\ Events(channel') = Append(Events(channel), m) /\ Events(channel) \in Seq(Event)
          /\ Events(log') = Append(Events(log), m) /\ m \in Event
      BY <1>1, <2>1, <2>3, EventsAppend
    <3>2. heard \o Append(Events(channel), m) = Append(heard \o Events(channel), m)
      BY <1>1, <3>1, AppendConcat
    <3>3. heard' \o Events(channel') = Events(log')
      BY <1>1, <2>1, <3>1, <3>2
    <3> QED BY <1>1, <1>2, <1>4, <2>1, <3>3 DEF RedisInv, WireTypes, UniformOrder
  <2> QED BY <2>2, <2>3
<1> QED BY <1>3, <1>4

(* OnMessage moves the head of the channel to the end of what was heard.    *)
LEMMA OnMessageKeepsOrder == ASSUME RedisInv, OnMessage PROVE RedisInv'
<1> DEFINE T == Event \union {Foreign}
           m == Head(channel)
<1>1. /\ outbox \in Seq(Event) /\ heard \in Seq(Event) /\ channel \in Seq(T) /\ log \in Seq(T)
      /\ channel # <<>> /\ channel' = Tail(channel)
      /\ link' = link /\ outbox' = outbox /\ log' = log /\ link = "subscribed"
      /\ heard \o Events(channel) = Events(log)
    BY DEF RedisInv, WireTypes, UniformOrder, OnMessage
<1>2. m \in T /\ Tail(channel) \in Seq(T)
    BY <1>1
<1>3. CASE m = Foreign
  <2>1. heard' = heard /\ Events(channel') = Events(channel)
    BY <1>1, <1>3, EventsHead DEF OnMessage
  <2> QED BY <1>1, <1>2, <2>1 DEF RedisInv, WireTypes, UniformOrder
<1>4. CASE m # Foreign
  <2>1. heard' = Append(heard, m) /\ m \in Event
    BY <1>2, <1>4 DEF OnMessage
  <2>2. Events(channel) = <<m>> \o Events(Tail(channel)) /\ Events(Tail(channel)) \in Seq(Event)
    <3>1. Events(Tail(channel)) \in Seq(Event)
      BY <1>2, EventsAppend
    <3> QED BY <1>1, <1>4, <3>1, EventsHead
  <2>3. heard' = heard \o <<m>> /\ heard' \in Seq(Event) /\ <<m>> \in Seq(Event)
    BY <1>1, <2>1
  <2>4. (heard \o <<m>>) \o Events(Tail(channel)) = heard \o (<<m>> \o Events(Tail(channel)))
    <3> DEFINE rest == Events(Tail(channel))
               first == <<m>>
    <3>1. heard \in Seq(Event) /\ first \in Seq(Event) /\ rest \in Seq(Event)
      BY <1>1, <2>2, <2>3
    <3> HIDE DEF rest, first
    <3>2. (heard \o first) \o rest = heard \o (first \o rest)
      BY <3>1, ConcatAssociative
    <3> QED BY <3>2 DEF rest, first
  <2>5. heard' \o Events(channel') = Events(log')
    BY <1>1, <2>2, <2>3, <2>4
  <2> QED BY <1>1, <1>2, <2>3, <2>5 DEF RedisInv, WireTypes, UniformOrder
<1> QED BY <1>3, <1>4

(* Every step of the instance, the broker and the others keeps the order.   *)
LEMMA RedisGoes == RedisInv /\ [RedisNext]_<<vars, redisVars>> => RedisInv'
<1> SUFFICES ASSUME RedisInv, [RedisNext]_<<vars, redisVars>> PROVE RedisInv'
    OBVIOUS
<1>1. outbox \in Seq(Event)
    BY DEF RedisInv, WireTypes
<1>2. CASE LocalStep \/ UNCHANGED <<vars, redisVars>>
    BY <1>2 DEF LocalStep, redisVars, RedisInv, WireTypes, UniformOrder
<1>3. CASE Subscribed
  <2>1. /\ link # "subscribed" /\ link' = "subscribed" /\ channel = <<>>
             /\ UNCHANGED <<channel, outbox>>
        /\ log' = <<>> /\ heard' = <<>>
    BY <1>3 DEF Subscribed, RedisInv, WireTypes
  <2>2. Events(<<>>) = <<>> /\ <<>> \o <<>> = <<>>
    BY OnlyEmpty DEF Events
  <2>3. heard' \o Events(channel') = Events(log')
    <3>1. channel' = <<>> /\ heard' = <<>> /\ log' = <<>>
      BY <2>1
    <3>2. Events(channel') = <<>> /\ Events(log') = <<>>
      BY <2>2, <3>1
    <3> QED BY <2>2, <3>1, <3>2
  <2> QED BY <1>1, <2>1, <2>3 DEF RedisInv, WireTypes, UniformOrder
<1>4. CASE SubscribeFails \/ ConnectionLost
  <2>1. /\ link' # "subscribed" /\ outbox' = outbox /\ heard' = heard /\ log' = log
        /\ channel' = <<>> \/ (link # "subscribed" /\ channel' = channel)
    BY <1>4 DEF SubscribeFails, ConnectionLost
  <2>2. channel' = <<>>
    BY <2>1 DEF RedisInv, WireTypes
  <2>3. WireTypes'
    BY <2>1, <2>2 DEF RedisInv, WireTypes
  <2> QED BY <2>1, <2>3 DEF RedisInv, UniformOrder
<1>5. ASSUME NEW e \in Event, Send(e) PROVE RedisInv'
    BY <1>5 DEF Send, RedisInv, WireTypes, UniformOrder
<1>6. CASE PublishFails
    BY <1>6 DEF PublishFails, RedisInv, WireTypes, UniformOrder
<1>7. CASE BrokerTakes
  <2>1. Head(outbox) \in Event /\ Tail(outbox) \in Seq(Event)
    BY <1>1, <1>7 DEF BrokerTakes
  <2> QED BY <1>7, <2>1, BroadcastKeepsOrder DEF BrokerTakes
<1>8. ASSUME NEW m \in Event \union {Foreign}, OthersPublish(m) PROVE RedisInv'
    BY <1>1, <1>8, BroadcastKeepsOrder DEF OthersPublish
<1> QED BY <1>2, <1>3, <1>4, <1>5, <1>6, <1>7, <1>8, OnMessageKeepsOrder DEF RedisNext

(* Whatever is lost before the broker, and among foreign messages: what a   *)
(* subscribed instance has heard and is still to hear is what the broker    *)
(* took since the subscription, in that order.                              *)
THEOREM OrderIsUniform == RedisSpec => []UniformOrder
<1>1. RedisSpec => []RedisInv
    BY RedisBegins, RedisGoes, PTL DEF RedisSpec
<1> QED BY <1>1, PTL DEF RedisInv

LEMMA WireTypesHold == RedisSpec => []WireTypes
<1>1. RedisSpec => []RedisInv
    BY RedisBegins, RedisGoes, PTL DEF RedisSpec
<1> QED BY <1>1, PTL DEF RedisInv

(* Whichever bus an application is given, its local bus is EventBus: what   *)
(* the channel brings begins a publish only when none is running.           *)
THEOREM BusImplemented == RedisSpec => Spec
<1>1. RedisInit => Init
    BY DEF RedisInit
<1>2. ASSUME WireTypes, [RedisNext]_<<vars, redisVars>> PROVE [Next]_vars
  <2>1. CASE LocalStep
    BY <2>1 DEF LocalStep, Next
  <2>2. CASE OnMessage
    <3>1. Head(channel) \in Event \union {Foreign}
      BY <1>2, <2>2 DEF OnMessage, WireTypes
    <3> QED BY <2>2, <3>1 DEF OnMessage, Next
  <2>3. CASE Subscribed \/ SubscribeFails \/ ConnectionLost \/ PublishFails
    BY <2>3 DEF Subscribed, SubscribeFails, ConnectionLost, PublishFails
  <2>4. CASE (\E e \in Event : Send(e)) \/ BrokerTakes
             \/ \E m \in Event \union {Foreign} : OthersPublish(m)
    BY <2>4 DEF Send, BrokerTakes, OthersPublish, Broadcast
  <2> QED BY <1>2, <2>1, <2>2, <2>3, <2>4 DEF RedisNext
<1> QED BY <1>1, <1>2, WireTypesHold, PTL DEF RedisSpec, Spec

(* So a bus over Redis serves its subscribers as the one in memory does.    *)
THEOREM RedisServesEveryone == RedisSpec => EveryoneServedOnce
<1>1. QED BY BusImplemented, EveryoneIsServed, PTL
=============================================================================
