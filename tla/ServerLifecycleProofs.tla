----------------------- MODULE ServerLifecycleProofs ------------------------
(***************************************************************************)
(* The safety of start and stop for any number of transports, connections   *)
(* and starts.  Exchanges and the two loops hardly interact, so the         *)
(* inductive invariant IInv has two halves: of an exchange, that its timer  *)
(* is armed only while its invocation is awaited (TimerMeansInvoking) and   *)
(* its connection only open while its transport is there (OpenMeansServed); *)
(* and of the transports, that those ahead of start are down (AheadIsDown)  *)
(* and, when no stop raced a start, where each stands relative to the       *)
(* positions of the two loops (InStep).                                     *)
(***************************************************************************)
EXTENDS ServerLifecycle, TLAPS

TimerMeansInvoking == \A c \in Conn : timer[c] => stage[c] = "invoking"

(* A connection is open only as long as the transport it goes to is there.  *)
OpenMeansServed == \A c \in Conn : socket[c] = "open" =>
                       server[to[c]] \in {"up", "draining", "orphan"}

(* Transports that start has not come to yet are down.                      *)
AheadIsDown == \A t \in Transport : mounting # 0 /\ mounting < t => server[t] = "down"

InStep ==
    /\ unmounting # 0 => mounting = 0
    /\ \A t \in Transport :
          /\ server[t] \notin {"abandoned", "orphan"}
          /\ server[t] = "binding" <=> mounting = t
          /\ server[t] = "draining" => unmounting = t
          /\ t < unmounting => server[t] = "down"
          /\ server[t] = "failed" => \A u \in Transport : t < u => server[u] = "down"
    /\ ~running => mounting = 0 /\ \A t \in Transport : server[t] = "down"

IInv == /\ TypeOK /\ AbortMeans504 /\ TimerMeansInvoking /\ OpenMeansServed
        /\ AheadIsDown
        /\ ~raced => InStep

(* Nothing has been mounted yet.                                            *)
LEMMA InitIInv == ServerInit => IInv
<1> SUFFICES ASSUME ServerInit PROVE IInv
    OBVIOUS
<1> USE HttpAssumption DEF ServerInit, Init
<1>1. AbortMeans504 /\ TimerMeansInvoking /\ OpenMeansServed /\ AheadIsDown /\ InStep
    BY DEF AbortMeans504, TimerMeansInvoking, OpenMeansServed, AheadIsDown, InStep, Transport
<1>2. mounting \in 0 .. N /\ unmounting \in 0 .. N /\ starts \in 0 .. MaxStarts
    BY StartsAssumption
<1>3. /\ running \in BOOLEAN /\ raced \in BOOLEAN /\ stopped \in {"none", "ok", "rejected"}
      /\ timer \in [Conn -> BOOLEAN] /\ aborted \in [Conn -> BOOLEAN] /\ timed \in BOOLEAN
      /\ socket \in [Conn -> {"none", "open", "closed"}] /\ to \in [Conn -> Transport]
      /\ stage \in [Conn -> {"idle", "reading", "invoking"}]
      /\ reply \in [Conn -> {"none", "awaited", "data", "error", "504"}]
      /\ server \in [Transport -> {"down", "binding", "up", "failed", "draining",
                                   "abandoned", "orphan"}]
    OBVIOUS
<1>4. /\ replies \in [Conn -> 0 .. 1]
      /\ \A c \in Conn : /\ InFlight(c) <=> reply[c] = "awaited"
                         /\ reply[c] \in {"data", "error", "504"} <=> replies[c] = 1
    BY DEF InFlight
<1>5. TypeOK
    BY <1>2, <1>3, <1>4 DEF TypeOK
<1> QED BY <1>1, <1>5 DEF IInv

(* Steps of an exchange leave the loops and the transports alone.           *)
LEMMA ExchangeKeepsIInv ==
    ASSUME IInv, UNCHANGED calls, NEW c \in Conn, Exchange(c)
    PROVE  IInv'
<1> USE DEF IInv, calls
<1>1. CASE Connect(c)
    BY <1>1 DEF Connect, exchange, TypeOK, InFlight, Listens, AbortMeans504,
                TimerMeansInvoking, OpenMeansServed, AheadIsDown, InStep
<1>2. CASE Disconnect(c)
    BY <1>2 DEF Disconnect, Disconnected, exchange, TypeOK, InFlight, AbortMeans504,
                TimerMeansInvoking, OpenMeansServed, AheadIsDown, InStep
<1>3. CASE TimesOut(c)
    BY <1>3 DEF TimesOut, Answer, TypeOK, InFlight, AbortMeans504,
                TimerMeansInvoking, OpenMeansServed, AheadIsDown, InStep
<1>4. ASSUME NEW what \in {"unrouted", "bare", "body"}, Arrive(c, what) PROVE IInv'
  <2>1. CASE what = "unrouted"
    BY <1>4, <2>1 DEF Arrive, TypeOK, InFlight, AbortMeans504,
                      TimerMeansInvoking, OpenMeansServed, AheadIsDown, InStep
  <2>2. CASE what # "unrouted"
    BY <1>4, <2>2 DEF Arrive, TypeOK, InFlight, AbortMeans504,
                      TimerMeansInvoking, OpenMeansServed, AheadIsDown, InStep
  <2> QED BY <2>1, <2>2
<1>5. ASSUME NEW usable \in BOOLEAN, ReadBody(c, usable) PROVE IInv'
    BY <1>5 DEF ReadBody, Answer, TypeOK, InFlight, AbortMeans504,
                TimerMeansInvoking, OpenMeansServed, AheadIsDown, InStep
<1>6. ASSUME NEW outcome \in {"ok", "error", "rejected"}, Settles(c, outcome) PROVE IInv'
    BY <1>6 DEF Settles, Answer, TypeOK, InFlight, AbortMeans504,
                TimerMeansInvoking, OpenMeansServed, AheadIsDown, InStep
<1> QED BY <1>1, <1>2, <1>3, <1>4, <1>5, <1>6 DEF Exchange

(* Closing connections opens none.                                          *)
LEMMA DrainKeepsIInv ==
    ASSUME IInv, UNCHANGED calls, NEW t \in Transport, DrainEnds(t)
    PROVE  IInv'
BY DEF IInv, calls, DrainEnds, Disconnected, Open, exchange, TypeOK, InFlight, AbortMeans504,
       TimerMeansInvoking, OpenMeansServed, AheadIsDown, InStep

(* The types of the loops and of the transports, and of the rest.           *)
LoopTypes ==
    /\ server \in [Transport -> {"down", "binding", "up", "failed", "draining",
                                 "abandoned", "orphan"}]
    /\ mounting \in 0 .. N /\ unmounting \in 0 .. N /\ starts \in 0 .. MaxStarts
LoopFlags == running \in BOOLEAN /\ raced \in BOOLEAN /\ stopped \in {"none", "ok", "rejected"}

(* A step of a loop that leaves the exchanges alone keeps their types.      *)
LEMMA LoopStepTypes ==
    ASSUME TypeOK, UNCHANGED <<to, socket, exchange>>, LoopTypes', LoopFlags'
    PROVE  TypeOK'
BY DEF TypeOK, exchange, InFlight, LoopTypes, LoopFlags

(* A step of start or stop leaves the exchanges alone and moves at most two *)
(* transports, those its loop is at.                                        *)
LEMMA StartKeepsIInv ==
    ASSUME IInv, Start \/ \E t \in Transport : MountResolves(t) \/ MountRejects(t)
    PROVE  IInv'
<1> USE HttpAssumption, StartsAssumption DEF IInv
<1>1. CASE Start
  <2> USE <1>1 DEF Start, Mount, exchange
  <2>1. TypeOK'
    <3>1. LoopTypes'
      BY DEF TypeOK, LoopTypes, Transport
    <3>2. LoopFlags'
      BY DEF TypeOK, LoopFlags
    <3> QED BY <3>1, <3>2, LoopStepTypes
  <2>2. AbortMeans504' /\ TimerMeansInvoking'
    BY DEF AbortMeans504, TimerMeansInvoking
  <2>3. OpenMeansServed'
    BY DEF OpenMeansServed, TypeOK, AheadIsDown, InStep, Transport
  <2>4. AheadIsDown'
    BY DEF AheadIsDown, InStep, TypeOK, Transport
  <2>5. ~raced' => InStep'
    BY DEF InStep, AheadIsDown, TypeOK, Transport
  <2> QED BY <2>1, <2>2, <2>3, <2>4, <2>5
<1>2. ASSUME NEW t \in Transport, MountResolves(t) PROVE IInv'
  <2> USE <1>2 DEF MountResolves, Bound, exchange
  <2>1. TypeOK'
    <3>1. LoopTypes'
      <4>1. t \in 1 .. N /\ N \in Nat
        BY DEF Transport
      <4>2. mounting' \in 0 .. N
        BY <4>1
      <4> QED BY <4>1, <4>2, ZenonT(60) DEF TypeOK, LoopTypes, Transport
    <3>2. LoopFlags'
      BY DEF TypeOK, LoopFlags
    <3> QED BY <3>1, <3>2, LoopStepTypes
  <2>2. AbortMeans504' /\ TimerMeansInvoking'
    BY DEF AbortMeans504, TimerMeansInvoking
  <2>3. OpenMeansServed'
    BY DEF OpenMeansServed, TypeOK, AheadIsDown, InStep, Transport
  <2>4. AheadIsDown'
    BY DEF AheadIsDown, InStep, TypeOK, Transport
  <2>5. ~raced' => InStep'
    BY DEF InStep, AheadIsDown, TypeOK, Transport
  <2> QED BY <2>1, <2>2, <2>3, <2>4, <2>5
<1>3. ASSUME NEW t \in Transport, MountRejects(t) PROVE IInv'
    BY <1>3 DEF MountRejects, BindFails, exchange, TypeOK, InFlight, AbortMeans504,
                TimerMeansInvoking, OpenMeansServed, AheadIsDown, InStep, Transport
<1> QED BY <1>1, <1>2, <1>3

LEMMA StopKeepsIInv ==
    ASSUME IInv,
           Stop \/ \E t \in Transport : \/ StopUnmounts(t) \/ StopUnmounted(t)
                                        \/ StopSkips(t) \/ StopRejects(t)
    PROVE  IInv'
<1> USE HttpAssumption DEF IInv
<1>1. CASE Stop
    BY <1>1 DEF Stop, vars, exchange, TypeOK, InFlight, AbortMeans504,
                TimerMeansInvoking, OpenMeansServed, AheadIsDown, InStep, Transport
<1>2. ASSUME NEW t \in Transport, StopUnmounts(t) PROVE IInv'
    BY <1>2 DEF StopUnmounts, Unmount, Disconnected, Open, exchange, calls, TypeOK, InFlight,
                AbortMeans504, TimerMeansInvoking, OpenMeansServed, AheadIsDown, InStep, Transport
<1>3. ASSUME NEW t \in Transport, StopUnmounted(t) PROVE IInv'
  <2> USE <1>3 DEF StopUnmounted, Closed, Open, StopsAfter, exchange
  <2>1. TypeOK'
    <3>1. LoopTypes'
      BY DEF TypeOK, LoopTypes, Transport
    <3>2. LoopFlags'
      BY DEF TypeOK, LoopFlags
    <3> QED BY <3>1, <3>2, LoopStepTypes
  <2>2. AbortMeans504' /\ TimerMeansInvoking'
    BY DEF AbortMeans504, TimerMeansInvoking
  <2>3. OpenMeansServed'
    BY DEF OpenMeansServed, TypeOK, AheadIsDown, InStep, Transport
  <2>4. AheadIsDown'
    BY DEF AheadIsDown, InStep, TypeOK, Transport
  <2>5. ~raced' => InStep'
    BY DEF InStep, AheadIsDown, TypeOK, Transport
  <2> QED BY <2>1, <2>2, <2>3, <2>4, <2>5
<1>4. ASSUME NEW t \in Transport, StopSkips(t) PROVE IInv'
  <2> USE <1>4 DEF StopSkips, StopsAfter, vars, exchange
  <2>1. TypeOK'
    <3>1. LoopTypes'
      BY DEF TypeOK, LoopTypes, Transport
    <3>2. LoopFlags'
      BY DEF TypeOK, LoopFlags
    <3> QED BY <3>1, <3>2, LoopStepTypes
  <2>2. AbortMeans504' /\ TimerMeansInvoking'
    BY DEF AbortMeans504, TimerMeansInvoking
  <2>3. OpenMeansServed'
    BY DEF OpenMeansServed, TypeOK, AheadIsDown, InStep, Transport
  <2>4. AheadIsDown'
    BY DEF AheadIsDown, InStep, TypeOK, Transport
  <2>5. ~raced' => InStep'
    BY DEF InStep, AheadIsDown, TypeOK, Transport
  <2> QED BY <2>1, <2>2, <2>3, <2>4, <2>5
<1>5. ASSUME NEW t \in Transport, StopRejects(t) PROVE IInv'
  <2> USE <1>5 DEF StopRejects, UnmountRejects, exchange
  <2>1. TypeOK'
    <3>1. LoopTypes'
      BY DEF TypeOK, LoopTypes, Transport
    <3>2. LoopFlags'
      BY DEF TypeOK, LoopFlags
    <3> QED BY <3>1, <3>2, LoopStepTypes
  <2>2. AbortMeans504' /\ TimerMeansInvoking'
    BY DEF AbortMeans504, TimerMeansInvoking
  <2>3. OpenMeansServed'
    BY DEF OpenMeansServed, TypeOK, AheadIsDown, InStep, Transport
  <2>4. AheadIsDown'
    BY DEF AheadIsDown, InStep, TypeOK, Transport
  <2>5. ~raced' => InStep'
    BY DEF InStep, AheadIsDown, TypeOK, Transport
  <2> QED BY <2>1, <2>2, <2>3, <2>4, <2>5
<1> QED BY <1>1, <1>2, <1>3, <1>4, <1>5

(* No step breaks the invariant.                                            *)
LEMMA NextIInv == IInv /\ [Next]_serverVars => IInv'
<1>1. ASSUME IInv, UNCHANGED serverVars PROVE IInv'
    BY <1>1 DEF serverVars, vars, calls, exchange, IInv, TypeOK, InFlight, AbortMeans504,
                TimerMeansInvoking, OpenMeansServed, AheadIsDown, InStep
<1> QED BY <1>1, ExchangeKeepsIInv, DrainKeepsIInv, StartKeepsIInv, StopKeepsIInv
        DEF Next, Requests

(* The inductive invariant holds in every reachable state.                  *)
THEOREM Invariant == Spec => []IInv
<1>1. QED BY InitIInv, NextIInv, PTL DEF Spec

(* Every exchange is answered at most once.                                 *)
THEOREM TypeCorrect == Spec => []TypeOK
<1>1. QED BY Invariant, PTL DEF IInv

(* A signal is aborted exactly when its caller was told 504.                *)
THEOREM AbortsAre504s == Spec => []AbortMeans504
<1>1. QED BY Invariant, PTL DEF IInv

(* A stop that did not race the start leaves nothing up, even if it rejects. *)
THEOREM StopsTakeDown == Spec => []StoppedIsDown
<1>1. IInv => StoppedIsDown
    BY DEF IInv, TypeOK, InStep, OpenMeansServed, StoppedIsDown
<1>2. QED BY <1>1, Invariant, PTL

(* The server cuts an exchange in flight only when the drain window ends.   *)
THEOREM DrainsSpareInFlight == Spec => DrainSparesInFlight
<1> DEFINE Spared == \A c \in Conn : socket[c] = "open" /\ socket'[c] = "closed" /\ InFlight(c)
                         => Disconnect(c) \/ DrainEnds(to[c])
<1>1. TypeOK /\ [Next]_serverVars => [Spared]_serverVars
  <2> SUFFICES ASSUME TypeOK, Next, NEW c \in Conn,
                      socket[c] = "open", socket'[c] = "closed", InFlight(c)
               PROVE  Disconnect(c) \/ DrainEnds(to[c])
    OBVIOUS
  <2>1. ASSUME NEW d \in Conn, Exchange(d) PROVE Disconnect(c)
    BY <2>1 DEF Exchange, Connect, TimesOut, Disconnect, Arrive, ReadBody, Settles,
                Disconnected, TypeOK
  <2>2. ASSUME NEW t \in Transport, DrainEnds(t) PROVE DrainEnds(to[c])
    BY <2>2 DEF DrainEnds, Disconnected, Open, TypeOK
  <2>3. ASSUME NEW t \in Transport, StopUnmounts(t) PROVE FALSE
    BY <2>3 DEF StopUnmounts, Unmount, Disconnected, Open, TypeOK
  <2> QED BY <2>1, <2>2, <2>3
          DEF Next, Requests, Start, Stop, MountResolves, MountRejects, StopUnmounted,
              StopSkips, StopRejects, vars
<1>2. QED BY <1>1, TypeCorrect, PTL DEF Spec, DrainSparesInFlight
=============================================================================
