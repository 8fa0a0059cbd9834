------------------------- MODULE FlowTrackerProofs -------------------------
(* Proofs about the gate between discovery and dispatch, for every set of  *)
(* flows and workers, every threshold and all backoff times.               *)
EXTENDS FlowTracker, UnitSumsTheorems

ProcState == [kind : {"inFlight", "cooldown", "poisoned"}, left : Nat, attempts : Nat]

(***************************************************************************)
(* The bounded map                                                         *)
(***************************************************************************)

(* The map orders the flows it holds by insertion and keeps its capacity. *)
MapOK ==
  /\ IsFiniteSet(Known)
  /\ Cardinality(Known) <= maxEntries
  /\ older \subseteq Known \X Known
  /\ \A f \in Known : <<f, f>> \notin older
  /\ \A f, g \in Known : f # g => (<<f, g>> \in older <=> <<g, f>> \notin older)
  /\ \A f, g, h \in Known : <<f, g>> \in older /\ <<g, h>> \in older => <<f, h>> \in older

LEMMA OldestIsKnown ==
  ASSUME MapOK, Known # {}
  PROVE  Oldest \in Known
<1>1. \E f \in Known : \A g \in Known : <<g, f>> \notin older
  <2>. HIDE DEF Known
  <2>. QED  BY LeastOfOrder DEF MapOK
<1>. HIDE DEF Known
<1>. QED  BY <1>1 DEF Oldest

(* BoundedMap.set: what is known afterwards. *)
LEMMA KnownAfterSet ==
  ASSUME NEW f \in Flow, NEW value, value # None, Set(f, value)
  PROVE  LET evicted == IF ~Tracked(f) /\ Cardinality(Known) >= maxEntries THEN {Oldest} ELSE {}
         IN  Known' = (Known \ evicted) \cup {f}
BY DEF Set, Known, Tracked

LEMMA MapSet ==
  ASSUME MapOK, NEW f \in Flow, NEW value, value # None, Set(f, value)
  PROVE  MapOK'
<1> DEFINE full == Cardinality(Known) >= maxEntries
           kept == Known \ (IF ~Tracked(f) /\ full THEN {Oldest} ELSE {})
<1>1. Known' = kept \cup {f}
  BY KnownAfterSet
<1>2. maxEntries \in Nat \ {0} /\ Cardinality(Known) \in Nat
  BY TrackerAssumption, FS_CardinalityType DEF MapOK
<1>3. CASE Tracked(f)
  <2>1. Known' = Known /\ older' = older
    BY <1>1, <1>3 DEF Set, Known
  <2>. QED  BY <2>1 DEF MapOK
<1>4. CASE ~Tracked(f)
  <2>1. f \notin Known /\ kept \subseteq Known
    BY <1>4 DEF Known
  <2>2. IsFiniteSet(kept) /\ Cardinality(kept) \in Nat /\ Cardinality(kept) < maxEntries
    <3>1. CASE full
      <4>1. Known # {}
        BY <1>2, <3>1, FS_EmptySet
      <4>2. Oldest \in Known
        BY <4>1, OldestIsKnown
      <4>3. kept = Known \ {Oldest}
        BY <1>4, <3>1
      <4>4. IsFiniteSet(kept) /\ Cardinality(kept) = Cardinality(Known) - 1
        <5>. HIDE DEF Known, Oldest
        <5>. QED  BY <4>2, <4>3, FS_RemoveElement DEF MapOK
      <4>. QED  BY <1>2, <4>4, FS_CardinalityType DEF MapOK
    <3>2. CASE ~full
      BY <1>2, <3>2 DEF MapOK
    <3>. QED  BY <3>1, <3>2
  <2>3. older' = Among(kept) \cup (kept \X {f})
    BY <1>4 DEF Set
  <2> HIDE DEF kept
  <2>4. IsFiniteSet(Known') /\ Cardinality(Known') <= maxEntries
    <3>1. IsFiniteSet(kept \cup {f}) /\ Cardinality(kept \cup {f}) = Cardinality(kept) + 1
      BY <2>1, <2>2, FS_AddElement
    <3>. QED  BY <1>1, <1>2, <2>2, <3>1
  <2>5. \A g, h : <<g, h>> \in older' <=>
          \/ g \in kept /\ h \in kept /\ <<g, h>> \in older
          \/ g \in kept /\ h = f
    BY <2>3 DEF Among
  <2>6. older' \subseteq Known' \X Known'
    BY <1>1, <2>3 DEF Among, MapOK
  <2> HIDE DEF Known
  <2>7. /\ \A g \in Known' : <<g, g>> \notin older'
        /\ \A g, h \in Known' : g # h => (<<g, h>> \in older' <=> <<h, g>> \notin older')
        /\ \A g, h, k \in Known' :
             <<g, h>> \in older' /\ <<h, k>> \in older' => <<g, k>> \in older'
    BY <1>1, <2>1, <2>5 DEF MapOK
  <2>. QED  BY <2>4, <2>6, <2>7 DEF MapOK
<1>. QED  BY <1>3, <1>4

LEMMA MapDelete ==
  ASSUME MapOK, NEW flows, Delete(flows)
  PROVE  MapOK'
<1>1. Known' = Known \ flows
  BY DEF Delete, Known, Tracked
<1>2. \A g, h : <<g, h>> \in older' <=>
         <<g, h>> \in older /\ g \in Known \ flows /\ h \in Known \ flows
  BY DEF Delete, Among
<1>3. older' \subseteq Known' \X Known'
  BY <1>1 DEF Delete, Among, MapOK
<1> HIDE DEF Known
<1>4. IsFiniteSet(Known') /\ Cardinality(Known') <= maxEntries
  <2>1. /\ IsFiniteSet(Known') /\ Cardinality(Known') <= Cardinality(Known)
    BY <1>1, FS_Subset DEF MapOK
  <2>. QED  BY <2>1, FS_CardinalityType, TrackerAssumption DEF MapOK
<1>5. /\ \A g \in Known' : <<g, g>> \notin older'
      /\ \A g, h \in Known' : g # h => (<<g, h>> \in older' <=> <<h, g>> \notin older')
      /\ \A g, h, k \in Known' :
           <<g, h>> \in older' /\ <<h, k>> \in older' => <<g, k>> \in older'
  BY <1>1, <1>2 DEF MapOK
<1>. QED  BY <1>3, <1>4, <1>5 DEF MapOK

LEMMA MapSame ==
  ASSUME MapOK, Known' = Known, older' = older
  PROVE  MapOK'
BY DEF MapOK

(***************************************************************************)
(* The tracker and the scan                                                *)
(***************************************************************************)

(* What holds whether or not the map evicts. *)
GateInv ==
  /\ MapOK
  /\ state \in [Flow -> {None} \cup ProcState]
  /\ list \in Seq(Flow)
  /\ queue \in Seq(Flow)
  /\ worker \in [Worker -> Flow \cup {None}]
  /\ status \in [Flow -> {"Pending", "Received", "Swapped", "Closed"}]
  /\ fails \in [Flow -> Nat]
  /\ ~scanning => list = <<>> /\ queue = <<>> /\ Idle

LEMMA BackoffBounds ==
  ASSUME NEW n \in Nat \ {0}
  PROVE  Backoff(n) \in Nat /\ Backoff(n) <= COOLDOWN_MAX
<1>1. 2 ^ (n - 1) \in Nat
  BY PowerOfTwo
<1>2. COOLDOWN_BASE * 2 ^ (n - 1) \in Nat /\ COOLDOWN_MAX \in Nat
  BY <1>1, TrackerAssumption
<1>. QED  BY <1>2 DEF Backoff

(* What recordError writes. *)
LEMMA FailedState ==
  ASSUME NEW s \in {None} \cup ProcState
  PROVE  LET n == PriorAttempts(s) + 1
         IN  /\ n \in Nat \ {0}
             /\ Failed(s) = IF n >= POISON_THRESHOLD
                            THEN [kind |-> "poisoned", left |-> 0, attempts |-> n]
                            ELSE [kind |-> "cooldown", left |-> Backoff(n), attempts |-> n]
             /\ Failed(s) \in ProcState
             /\ Failed(s) # None
<1> DEFINE n == PriorAttempts(s) + 1
<1>1. n \in Nat \ {0}
  BY DEF PriorAttempts, ProcState
<1>2. Failed(s) = IF n >= POISON_THRESHOLD
                  THEN [kind |-> "poisoned", left |-> 0, attempts |-> n]
                  ELSE [kind |-> "cooldown", left |-> Backoff(n), attempts |-> n]
  BY DEF Failed, PriorAttempts
<1>3. Backoff(n) \in Nat
  BY <1>1, BackoffBounds
<1> HIDE DEF n
<1>4. Failed(s) \in ProcState
  BY <1>1, <1>2, <1>3 DEF ProcState
<1>. QED  BY <1>1, <1>2, <1>4, TrackerAssumption DEF ProcState, n

LEMMA InFlightState ==
  ASSUME NEW s \in {None} \cup ProcState
  PROVE  /\ InFlight(PriorAttempts(s)) \in ProcState
         /\ InFlight(PriorAttempts(s)) # None
         /\ PriorAttempts(s) \in Nat
<1>1. PriorAttempts(s) \in Nat
  BY DEF PriorAttempts, ProcState
<1>2. InFlight(PriorAttempts(s)) \in ProcState
  BY <1>1, TrackerAssumption DEF InFlight, ProcState
<1>. QED  BY <1>1, <1>2, TrackerAssumption DEF ProcState

LEMMA GateInit == Init => GateInv
<1> SUFFICES ASSUME Init  PROVE GateInv
  OBVIOUS
<1>1. Known = {}
  BY DEF Init, Known, Tracked
<1>2. MapOK
  BY <1>1, FS_EmptySet, TrackerAssumption DEF MapOK, Init
<1>. QED  BY <1>2 DEF Init, GateInv, Idle

LEMMA GateBegin ==
  ASSUME GateInv, BeginIfReady
  PROVE  GateInv'
<1> DEFINE f == Head(list)
<1>1. f \in Flow /\ list' \in Seq(Flow)
  BY DEF GateInv, BeginIfReady
<1>2. CASE Ready(state[f]) /\ Set(f, InFlight(PriorAttempts(state[f]))) /\ queue' = Append(queue, f)
  <2>1. state[f] \in {None} \cup ProcState
    BY <1>1 DEF GateInv
  <2>2. /\ InFlight(PriorAttempts(state[f])) \in ProcState
        /\ InFlight(PriorAttempts(state[f])) # None
    BY <2>1, InFlightState
  <2>3. MapOK'
    BY <1>1, <1>2, <2>2, MapSet DEF GateInv
  <2>4. state' \in [Flow -> {None} \cup ProcState]
    BY <1>2, <2>2 DEF Set, GateInv
  <2>5. queue' \in Seq(Flow)
    BY <1>1, <1>2 DEF GateInv
  <2>6. scanning' = scanning /\ scanning
    BY DEF BeginIfReady, GateInv
  <2>. QED  BY <1>1, <2>3, <2>4, <2>5, <2>6 DEF BeginIfReady, GateInv
<1>3. CASE UNCHANGED <<older, state, queue>>
  <2>1. Known' = Known
    BY <1>3 DEF Known, Tracked
  <2>2. MapOK'
    BY <1>3, <2>1, MapSame DEF GateInv
  <2>3. scanning' = scanning /\ scanning
    BY DEF BeginIfReady, GateInv
  <2>. QED  BY <1>1, <1>3, <2>2, <2>3 DEF BeginIfReady, GateInv
<1>. QED  BY <1>2, <1>3 DEF BeginIfReady

LEMMA GateFinish ==
  ASSUME GateInv, NEW w \in Worker, Finish(w)
  PROVE  GateInv'
<1> DEFINE f == worker[w]
<1>1. worker[w] # None /\ f \in Flow /\ scanning /\ scanning' = scanning
  BY DEF Finish, Advanced, Noop, Failure, Throw, GateInv, Idle
<1>2. /\ list' = list /\ queue' = queue
      /\ worker' \in [Worker -> Flow \cup {None}]
      /\ status' \in [Flow -> {"Pending", "Received", "Swapped", "Closed"}]
  <2>1. CASE Advanced(w)
    <3>1. status' \in [Flow -> {"Pending", "Received", "Swapped", "Closed"}]
      <4>1. status[f] \in {"Pending", "Received", "Swapped"}
        BY <1>1, <2>1 DEF Advanced, GateInv, Open
      <4>2. NextStatus[status[f]] \in {"Received", "Swapped", "Closed"}
        BY <4>1 DEF NextStatus
      <4>. QED  BY <1>1, <2>1, <4>2 DEF Advanced, GateInv
    <3>. QED  BY <2>1, <3>1 DEF Advanced, Done, GateInv
  <2>2. CASE Noop(w) \/ Failure(w) \/ Throw(w)
    BY <2>2 DEF Noop, Failure, Throw, Done, GateInv
  <2>. QED  BY <2>1, <2>2 DEF Finish
<1>3. MapOK' /\ state' \in [Flow -> {None} \cup ProcState] /\ fails' \in [Flow -> Nat]
  <2>1. CASE RecordSuccess(f)
    BY <1>1, <2>1, MapDelete DEF RecordSuccess, Delete, GateInv
  <2>2. CASE RecordError(f)
    <3>1. state[f] \in {None} \cup ProcState
      BY <1>1 DEF GateInv
    <3>2. Failed(state[f]) \in ProcState /\ Failed(state[f]) # None
      BY <3>1, FailedState
    <3>3. MapOK'
      BY <1>1, <2>2, <3>2, MapSet DEF RecordError, GateInv
    <3>4. state' \in [Flow -> {None} \cup ProcState]
      BY <2>2, <3>2 DEF RecordError, Set, GateInv
    <3>5. fails' \in [Flow -> Nat]
      BY <1>1, <2>2 DEF RecordError, GateInv
    <3>. QED  BY <3>3, <3>4, <3>5
  <2>3. CASE UNCHANGED <<older, state, fails>>
    <3>1. Known' = Known
      BY <2>3 DEF Known, Tracked
    <3>. QED  BY <2>3, <3>1, MapSame DEF GateInv
  <2>. QED  BY <2>1, <2>2, <2>3 DEF Finish, Advanced, Noop, Failure, Throw
<1>. QED  BY <1>1, <1>2, <1>3 DEF GateInv

LEMMA GateNext == GateInv /\ [Next]_vars => GateInv'
<1> SUFFICES ASSUME GateInv, [Next]_vars  PROVE GateInv'
  OBVIOUS
<1>1. ASSUME NEW l \in Listings, StartScan(l)  PROVE GateInv'
  <2>1. l \in Seq(Flow)
    BY <1>1 DEF Listings, Open
  <2>2. MapOK'
    BY <1>1, MapSame DEF StartScan, GateInv, Known, Tracked
  <2>. QED  BY <1>1, <2>1, <2>2 DEF StartScan, GateInv
<1>2. CASE BeginIfReady
  BY <1>2, GateBegin
<1>3. ASSUME NEW w \in Worker, Take(w)  PROVE GateInv'
  <2>1. MapOK'
    BY <1>3, MapSame DEF Take, GateInv, Known, Tracked
  <2>2. Head(queue) \in Flow /\ queue' \in Seq(Flow)
    BY <1>3 DEF Take, GateInv
  <2>3. worker' \in [Worker -> Flow \cup {None}]
    BY <1>3, <2>2 DEF Take, GateInv
  <2>4. scanning /\ scanning'
    BY <1>3 DEF Take, GateInv
  <2>. QED  BY <1>3, <2>1, <2>2, <2>3, <2>4 DEF Take, GateInv
<1>4. ASSUME NEW w \in Worker, Finish(w)  PROVE GateInv'
  BY <1>4, GateFinish
<1>5. CASE EndScan
  <2>1. MapOK'
    BY <1>5, MapSame DEF EndScan, GateInv, Known, Tracked
  <2>. QED  BY <1>5, <2>1 DEF EndScan, GateInv, Idle
<1>6. CASE ClearBackoff
  <2>1. MapOK'
    BY <1>6, MapDelete DEF ClearBackoff, GateInv
  <2>2. state' \in [Flow -> {None} \cup ProcState] /\ fails' \in [Flow -> Nat]
    BY <1>6 DEF ClearBackoff, Delete, GateInv
  <2>. QED  BY <1>6, <2>1, <2>2 DEF ClearBackoff, GateInv, Idle
<1>7. CASE Restart
  <2>1. Known' = {}
    BY <1>7 DEF Restart, Known, Tracked
  <2>2. MapOK'
    BY <1>7, <2>1, FS_EmptySet, TrackerAssumption DEF MapOK, Restart
  <2>. QED  BY <1>7, <2>2 DEF Restart, GateInv, Idle
<1>8. CASE Tick
  <2>1. ASSUME NEW f \in Flow
        PROVE  state'[f] \in {None} \cup ProcState /\ (state'[f] = None <=> state[f] = None)
    <3>1. CASE Tracked(f) /\ state[f].left > 0
      <4>1. state[f] \in ProcState
        BY <3>1 DEF GateInv, Tracked
      <4>2. state'[f] = [state[f] EXCEPT !.left = @ - 1]
        BY <1>8, <3>1 DEF Tick
      <4>3. state'[f] \in ProcState
        BY <3>1, <4>1, <4>2 DEF ProcState
      <4>. QED  BY <3>1, <4>3, TrackerAssumption DEF ProcState, Tracked
    <3>2. CASE ~(Tracked(f) /\ state[f].left > 0)
      BY <1>8, <3>2 DEF Tick, GateInv
    <3>. QED  BY <3>1, <3>2
  <2>2. Known' = Known
    BY <2>1 DEF Known, Tracked
  <2>3. MapOK'
    BY <1>8, <2>2, MapSame DEF Tick, GateInv
  <2>4. state' \in [Flow -> {None} \cup ProcState]
    BY <1>8, <2>1 DEF Tick
  <2>. QED  BY <1>8, <2>3, <2>4 DEF Tick, GateInv, Idle
<1>9. CASE UNCHANGED vars
  <2>1. MapOK'
    BY <1>9, MapSame DEF vars, GateInv, Known, Tracked
  <2>. QED  BY <1>9, <2>1 DEF vars, GateInv, Idle
<1>. QED
  BY <1>1, <1>2, <1>3, <1>4, <1>5, <1>6, <1>7, <1>8, <1>9 DEF Next

(* However many flows there are, the tracker never holds more of them than *)
(* the map's capacity, evictions included (BoundedMap.set).                *)
THEOREM TrackerStaysBounded == Spec => [](Cardinality(Known) <= maxEntries)
<1>1. GateInv => Cardinality(Known) <= maxEntries
  BY DEF GateInv, MapOK
<1>. QED  BY <1>1, GateInit, GateNext, PTL DEF Spec

(***************************************************************************)
(* Dispatch, while no flow is evicted                                      *)
(***************************************************************************)

(* The hypothesis of what follows: the map has room for all flows, so that *)
(* FIFO eviction (at 10 000 entries) never makes a flow in flight or in    *)
(* quarantine look idle.                                                   *)
RoomForAll == IsFiniteSet(Flow) /\ Cardinality(Flow) <= maxEntries

LEMMA SetKeepsOthers ==
  ASSUME RoomForAll, GateInv, NEW f \in Flow, NEW value, Set(f, value)
  PROVE  state' = [state EXCEPT ![f] = value]
<1>1. ~(~Tracked(f) /\ Cardinality(Known) >= maxEntries)
  <2>1. SUFFICES ASSUME ~Tracked(f)  PROVE Cardinality(Known) < maxEntries
    BY FS_CardinalityType, TrackerAssumption DEF GateInv, MapOK
  <2>2. Known \in SUBSET Flow /\ f \in Flow \ Known
    BY <2>1 DEF Known
  <2>. HIDE DEF Known
  <2>3. /\ IsFiniteSet(Known)
        /\ Cardinality(Known) <= Cardinality(Flow)
        /\ Cardinality(Flow) = Cardinality(Known) => Flow = Known
    BY <2>2, FS_Subset DEF RoomForAll
  <2>4. Cardinality(Known) # Cardinality(Flow)
    BY <2>2, <2>3
  <2>. QED  BY <2>3, <2>4, FS_CardinalityType, TrackerAssumption DEF RoomForAll
<1>. QED  BY <1>1 DEF Set, GateInv

(* The states the tracker writes below the threshold. *)
TrackerState ==
  {None} \cup [kind : {"inFlight"}, left : 0 .. IN_FLIGHT_TIMEOUT,
               attempts : 0 .. POISON_THRESHOLD - 1]
         \cup [kind : {"cooldown"}, left : 0 .. COOLDOWN_MAX,
               attempts : 1 .. POISON_THRESHOLD - 1]
         \cup [kind : {"poisoned"}, left : {0}, attempts : {POISON_THRESHOLD}]

Dispatched(f) == Tracked(f) /\ state[f].kind = "inFlight"

(* The inductive invariant: a flow with a task is in flight and has one    *)
(* task; while the listing is put to the gate no worker runs and no time   *)
(* has passed since a queued flow was admitted; and the tracker counts the *)
(* failures.                                                               *)
DispatchInv ==
  /\ state \in [Flow -> TrackerState]
  /\ \A i \in DOMAIN queue : Dispatched(queue[i])
  /\ \A w \in Worker : worker[w] # None => Dispatched(worker[w])
  /\ \A i, j \in DOMAIN queue : queue[i] = queue[j] => i = j
  /\ \A v, w \in Worker : worker[v] # None /\ worker[v] = worker[w] => v = w
  /\ \A i \in DOMAIN queue, w \in Worker : queue[i] # worker[w]
  /\ list # <<>> => /\ Idle
                    /\ \A i \in DOMAIN queue : state[queue[i]].left = IN_FLIGHT_TIMEOUT
  /\ \A f \in Flow : fails[f] = PriorAttempts(state[f])

LEMMA DispatchInit == Init => DispatchInv
<1> SUFFICES ASSUME Init  PROVE DispatchInv
  OBVIOUS
<1>1. DOMAIN queue = {}
  BY DEF Init
<1>. QED  BY <1>1 DEF Init, DispatchInv, TrackerState, PriorAttempts, Idle

(* beginIfReady admits no flow that has a task. *)
LEMMA DispatchBegin ==
  ASSUME RoomForAll, GateInv, GateInv', DispatchInv, BeginIfReady
  PROVE  DispatchInv'
<1> DEFINE f == Head(list)
<1>1. /\ f \in Flow /\ list # <<>> /\ queue \in Seq(Flow)
      /\ worker' = worker /\ fails' = fails /\ Idle
  BY DEF BeginIfReady, GateInv, DispatchInv
<1>2. CASE /\ Ready(state[f])
           /\ Set(f, InFlight(PriorAttempts(state[f])))
           /\ queue' = Append(queue, f)
  <2>1. state' = [state EXCEPT ![f] = InFlight(PriorAttempts(state[f]))]
    BY <1>1, <1>2, SetKeepsOthers
  <2>2. state[f] \in TrackerState
    BY <1>1 DEF DispatchInv
  <2>3. /\ PriorAttempts(state[f]) \in 0 .. POISON_THRESHOLD - 1
        /\ state[f] # None => state[f].left = 0
    BY <1>2, <2>2, TrackerAssumption DEF Ready, PriorAttempts, TrackerState
  <2>4. /\ state'[f] \in TrackerState /\ state'[f] # None /\ state'[f].kind = "inFlight"
        /\ state'[f].left = IN_FLIGHT_TIMEOUT
        /\ state'[f].attempts = PriorAttempts(state[f])
    <3>1. state'[f] = InFlight(PriorAttempts(state[f]))
      BY <1>1, <2>1 DEF GateInv
    <3>2. state'[f] # None
      BY <1>1, <3>1, InFlightState DEF GateInv
    <3>3. state'[f] \in TrackerState
      BY <2>3, <3>1, TrackerAssumption DEF TrackerState, InFlight
    <3>. QED  BY <3>1, <3>2, <3>3 DEF InFlight
  <2>5. \A g \in Flow : g # f => state'[g] = state[g]
    BY <2>1 DEF GateInv
  <2>6. /\ DOMAIN queue = 1 .. Len(queue) /\ Len(queue) \in Nat
        /\ DOMAIN queue' = 1 .. Len(queue) + 1
        /\ \A i \in 1 .. Len(queue) : queue'[i] = queue[i] /\ queue[i] \in Flow
        /\ queue'[Len(queue) + 1] = f
    BY <1>1, <1>2
  <2>7. \A i \in DOMAIN queue : queue[i] # f
    <3>1. SUFFICES ASSUME NEW i \in DOMAIN queue, queue[i] = f  PROVE FALSE
      OBVIOUS
    <3>2. Dispatched(f) /\ state[f].left = IN_FLIGHT_TIMEOUT
      BY <1>1, <3>1 DEF DispatchInv
    <3>. QED  BY <2>3, <3>2, TrackerAssumption DEF Dispatched, Tracked
  <2>8. \A i \in DOMAIN queue' : /\ Dispatched(queue[i])' 
                                 /\ state'[queue'[i]].left = IN_FLIGHT_TIMEOUT
    <3>1. SUFFICES ASSUME NEW i \in DOMAIN queue'
                   PROVE  Dispatched(queue[i])' /\ state'[queue'[i]].left = IN_FLIGHT_TIMEOUT
      OBVIOUS
    <3>2. CASE i = Len(queue) + 1
      BY <2>4, <2>6, <3>2 DEF Dispatched, Tracked
    <3>3. CASE i # Len(queue) + 1
      <4>1. i \in DOMAIN queue /\ queue'[i] = queue[i] /\ queue[i] \in Flow /\ queue[i] # f
        BY <2>6, <2>7, <3>3
      <4>2. state'[queue'[i]] = state[queue[i]]
        BY <2>5, <4>1
      <4>. QED  BY <1>1, <4>1, <4>2 DEF DispatchInv, Dispatched, Tracked
    <3>. QED  BY <3>2, <3>3
  <2>9. \A i, j \in DOMAIN queue' : queue'[i] = queue'[j] => i = j
    BY <2>6, <2>7 DEF DispatchInv
  <2>10. state' \in [Flow -> TrackerState]
    BY <2>1, <2>4, <2>5 DEF DispatchInv
  <2>11. Idle' /\ \A w \in Worker : worker'[w] = None
    BY <1>1 DEF Idle
  <2>12. \A i \in DOMAIN queue', w \in Worker : queue'[i] # worker'[w]
    <3>1. \A i \in DOMAIN queue' : queue'[i] \in Flow
      BY <1>1, <2>6
    <3>. QED  BY <2>11, <3>1, TrackerAssumption
  <2>13. \A g \in Flow : fails'[g] = PriorAttempts(state'[g])
    <3>1. fails'[f] = PriorAttempts(state'[f])
      BY <1>1, <2>4 DEF DispatchInv, PriorAttempts
    <3>. QED  BY <1>1, <2>5, <3>1 DEF DispatchInv
  <2>. QED  BY <2>8, <2>9, <2>10, <2>11, <2>12, <2>13 DEF DispatchInv
<1>3. CASE UNCHANGED <<older, state, queue>>
  BY <1>1, <1>3 DEF DispatchInv, Dispatched, Tracked, Idle
<1>. QED  BY <1>2, <1>3 DEF BeginIfReady

(* A worker takes the first of the queue. *)
LEMMA DispatchTake ==
  ASSUME GateInv, DispatchInv, NEW w \in Worker, Take(w)
  PROVE  DispatchInv'
<1>1. /\ queue \in Seq(Flow) /\ queue # <<>> /\ worker[w] = None
      /\ queue' = Tail(queue) /\ worker' = [worker EXCEPT ![w] = Head(queue)]
      /\ list' = <<>> /\ state' = state /\ fails' = fails
  BY DEF Take, GateInv
<1>2. /\ Len(queue) \in Nat \ {0} /\ DOMAIN queue = 1 .. Len(queue)
      /\ Head(queue) = queue[1]
      /\ DOMAIN queue' = 1 .. Len(queue) - 1
      /\ \A i \in 1 .. Len(queue) - 1 : queue'[i] = queue[i + 1]
  BY <1>1
<1>3. \A i \in DOMAIN queue' : i + 1 \in DOMAIN queue /\ i + 1 # 1 /\ queue'[i] = queue[i + 1]
  BY <1>2
<1>4. 1 \in DOMAIN queue
  BY <1>2
<1>5. /\ worker'[w] = queue[1]
      /\ \A v \in Worker : v # w => worker'[v] = worker[v]
  BY <1>1, <1>2 DEF GateInv
<1>6. \A i \in DOMAIN queue' : Dispatched(queue[i])'
  BY <1>1, <1>3 DEF DispatchInv, Dispatched, Tracked
<1>7. \A v \in Worker : worker'[v] # None => Dispatched(worker[v])'
  BY <1>1, <1>4, <1>5 DEF DispatchInv, Dispatched, Tracked
<1>8. \A i, j \in DOMAIN queue' : queue'[i] = queue'[j] => i = j
  <2>1. \A i, j \in DOMAIN queue' : i \in Int /\ j \in Int
    BY <1>2
  <2>2. \A i, j \in DOMAIN queue' : queue'[i] = queue'[j] => i + 1 = j + 1
    BY <1>3 DEF DispatchInv
  <2>. QED  BY <2>1, <2>2
<1>9. \A u, v \in Worker : worker'[u] # None /\ worker'[u] = worker'[v] => u = v
  BY <1>4, <1>5 DEF DispatchInv
<1>10. \A i \in DOMAIN queue', v \in Worker : queue'[i] # worker'[v]
  BY <1>3, <1>4, <1>5 DEF DispatchInv
<1>. QED
  BY <1>1, <1>6, <1>7, <1>8, <1>9, <1>10 DEF DispatchInv

(* The end of a task: its flow is no other task's, so whatever is recorded *)
(* of it leaves the other tasks in flight.                                 *)
LEMMA DispatchDone ==
  ASSUME GateInv, DispatchInv, NEW w \in Worker, worker[w] # None, Done(w),
         list' = list, queue' = queue,
         \A g \in Flow : g # worker[w] => state'[g] = state[g] /\ fails'[g] = fails[g],
         state' \in [Flow -> TrackerState],
         fails'[worker[w]] = PriorAttempts(state'[worker[w]])
  PROVE  DispatchInv'
<1> DEFINE f == worker[w]
<1>1. f \in Flow /\ list = <<>>
  BY DEF GateInv, DispatchInv, Idle
<1>2. worker'[w] = None /\ \A v \in Worker : v # w => worker'[v] = worker[v]
  BY DEF Done, GateInv
<1>3. \A i \in DOMAIN queue : queue[i] \in Flow /\ queue[i] # f
  BY DEF GateInv, DispatchInv
<1>4. \A i \in DOMAIN queue' : Dispatched(queue[i])'
  BY <1>3 DEF DispatchInv, Dispatched, Tracked
<1>5. \A v \in Worker : worker'[v] # None => Dispatched(worker[v])'
  <2>1. SUFFICES ASSUME NEW v \in Worker, worker'[v] # None  PROVE Dispatched(worker[v])'
    OBVIOUS
  <2>2. v # w /\ worker'[v] = worker[v] /\ worker[v] # f /\ worker[v] \in Flow
    BY <1>2, <2>1 DEF DispatchInv, GateInv
  <2>. QED  BY <2>1, <2>2 DEF DispatchInv, Dispatched, Tracked
<1>6. \A u, v \in Worker : worker'[u] # None /\ worker'[u] = worker'[v] => u = v
  BY <1>2 DEF DispatchInv
<1>7. \A i \in DOMAIN queue', v \in Worker : queue'[i] # worker'[v]
  BY <1>2, <1>3, TrackerAssumption DEF DispatchInv
<1>8. \A g \in Flow : fails'[g] = PriorAttempts(state'[g])
  <2>. HIDE DEF PriorAttempts
  <2>. QED  BY DEF DispatchInv
<1>. QED
  BY <1>1, <1>4, <1>5, <1>6, <1>7, <1>8 DEF DispatchInv

LEMMA DispatchFinish ==
  ASSUME RoomForAll, GateInv, GateInv', DispatchInv, NEW w \in Worker, Finish(w)
  PROVE  DispatchInv'
<1> DEFINE f == worker[w]
<1>1. /\ worker[w] # None /\ f \in Flow /\ list' = list /\ queue' = queue
  BY DEF Finish, Advanced, Noop, Failure, Throw, GateInv
<1>2. CASE RecordSuccess(f) /\ Done(w)
  <2>1. \A g \in Flow : g # f => state'[g] = state[g] /\ fails'[g] = fails[g]
    BY <1>2 DEF RecordSuccess, Delete, GateInv
  <2>2. state'[f] = None /\ fails'[f] = 0
    BY <1>1, <1>2 DEF RecordSuccess, Delete, GateInv
  <2>3. state' \in [Flow -> TrackerState]
    BY <1>2 DEF RecordSuccess, Delete, DispatchInv, TrackerState
  <2>4. fails'[f] = PriorAttempts(state'[f])
    BY <2>2 DEF PriorAttempts
  <2>. QED  BY <1>1, <1>2, <2>1, <2>3, <2>4, DispatchDone
<1>3. CASE RecordError(f) /\ Done(w)
  <2>1. state' = [state EXCEPT ![f] = Failed(state[f])]
    BY <1>1, <1>3, SetKeepsOthers DEF RecordError
  <2>2. state[f] \in TrackerState /\ state[f] # None /\ state[f].kind = "inFlight"
    BY <1>1 DEF DispatchInv, Dispatched, Tracked
  <2>3. PriorAttempts(state[f]) \in 0 .. POISON_THRESHOLD - 1
    BY <2>2, TrackerAssumption DEF TrackerState, PriorAttempts
  <2> DEFINE n == PriorAttempts(state[f]) + 1
  <2>4. n \in 1 .. POISON_THRESHOLD /\ Backoff(n) \in 0 .. COOLDOWN_MAX
    BY <2>3, BackoffBounds, TrackerAssumption
  <2>5. /\ Failed(state[f]) = IF n >= POISON_THRESHOLD
                              THEN [kind |-> "poisoned", left |-> 0, attempts |-> n]
                              ELSE [kind |-> "cooldown", left |-> Backoff(n), attempts |-> n]
        /\ Failed(state[f]) # None
    <3>1. state[f] \in {None} \cup ProcState
      BY <1>1 DEF GateInv
    <3>. QED  BY <3>1, FailedState
  <2> HIDE DEF n
  <2>6. Failed(state[f]) \in TrackerState /\ Failed(state[f]).attempts = n
    BY <2>4, <2>5, TrackerAssumption DEF TrackerState
  <2>7. /\ state' \in [Flow -> TrackerState]
        /\ state'[f] = Failed(state[f])
        /\ \A g \in Flow : g # f => state'[g] = state[g]
    BY <1>1, <2>1, <2>6 DEF DispatchInv
  <2>8. /\ fails'[f] = fails[f] + 1
        /\ \A g \in Flow : g # f => fails'[g] = fails[g]
    BY <1>1, <1>3 DEF RecordError, GateInv
  <2>9. fails'[f] = PriorAttempts(state'[f])
    <3>1. PriorAttempts(state'[f]) = n
      BY <2>5, <2>6, <2>7 DEF PriorAttempts
    <3>2. fails[f] = PriorAttempts(state[f])
      BY <1>1 DEF DispatchInv
    <3>. QED  BY <2>8, <3>1, <3>2 DEF n
  <2>. QED  BY <1>1, <1>3, <2>7, <2>8, <2>9, DispatchDone
<1>4. CASE UNCHANGED <<state, fails>> /\ Done(w)
  <2>1. /\ \A g \in Flow : g # f => state'[g] = state[g] /\ fails'[g] = fails[g]
        /\ state' \in [Flow -> TrackerState]
        /\ fails'[f] = PriorAttempts(state'[f])
    BY <1>1, <1>4 DEF DispatchInv
  <2>. QED  BY <1>1, <1>4, <2>1, DispatchDone
<1>5. CASE UNCHANGED <<state, fails, worker>>
  BY <1>1, <1>5 DEF DispatchInv, Dispatched, Tracked, Idle
<1>. QED
  BY <1>2, <1>3, <1>4, <1>5 DEF Finish, Advanced, Noop, Failure, Throw

(* SIGUSR1 and the clock leave a flow that has a task in flight. *)
LEMMA DispatchElsewhere ==
  ASSUME GateInv, DispatchInv, list = <<>>, list' = list, queue' = queue, worker' = worker,
         state' \in [Flow -> TrackerState],
         \A g \in Flow : Dispatched(g) => Dispatched(g)',
         \A g \in Flow : fails'[g] = PriorAttempts(state'[g])
  PROVE  DispatchInv'
<1>1. \A i \in DOMAIN queue' : Dispatched(queue[i])'
  BY DEF GateInv, DispatchInv
<1>2. \A v \in Worker : worker'[v] # None => Dispatched(worker[v])'
  BY DEF GateInv, DispatchInv
<1>. QED  BY <1>1, <1>2 DEF DispatchInv

LEMMA DispatchNext ==
  ASSUME RoomForAll, GateInv, GateInv', DispatchInv, [Next]_vars
  PROVE  DispatchInv'
<1>1. ASSUME NEW l \in Listings, StartScan(l)  PROVE DispatchInv'
  <2>1. queue = <<>> /\ queue' = queue /\ Idle /\ worker' = worker /\ DOMAIN queue = {}
    BY <1>1 DEF StartScan, GateInv
  <2>2. state' = state /\ fails' = fails /\ Idle'
    BY <1>1, <2>1 DEF StartScan, Idle
  <2>. QED  BY <2>1, <2>2 DEF DispatchInv, Dispatched, Tracked, Idle
<1>2. CASE BeginIfReady
  BY <1>2, DispatchBegin
<1>3. ASSUME NEW w \in Worker, Take(w)  PROVE DispatchInv'
  BY <1>3, DispatchTake
<1>4. ASSUME NEW w \in Worker, Finish(w)  PROVE DispatchInv'
  BY <1>4, DispatchFinish
<1>5. CASE EndScan \/ UNCHANGED vars
  BY <1>5 DEF EndScan, vars, DispatchInv, Dispatched, Tracked, Idle
<1>6. CASE ClearBackoff
  <2> DEFINE cleared == { f \in Flow : BackingOff(f) }
  <2>1. /\ list = <<>> /\ list' = list /\ queue' = queue /\ worker' = worker
        /\ state' = [f \in Flow |-> IF f \in cleared THEN None ELSE state[f]]
        /\ fails' = [f \in Flow |-> IF f \in cleared THEN 0 ELSE fails[f]]
    BY <1>6 DEF ClearBackoff, Delete
  <2>2. state' \in [Flow -> TrackerState]
    BY <2>1 DEF DispatchInv, TrackerState
  <2>3. \A g \in Flow : Dispatched(g) => Dispatched(g)'
    BY <2>1 DEF Dispatched, BackingOff, Tracked
  <2>4. \A g \in Flow : fails'[g] = PriorAttempts(state'[g])
    BY <2>1 DEF DispatchInv, PriorAttempts
  <2>. QED  BY <2>1, <2>2, <2>3, <2>4, DispatchElsewhere
<1>7. CASE Restart
  <2>1. /\ state' = [f \in Flow |-> None] /\ fails' = [f \in Flow |-> 0]
        /\ list' = <<>> /\ queue' = <<>> /\ worker' = [w \in Worker |-> None]
        /\ DOMAIN queue' = {}
    BY <1>7 DEF Restart
  <2>. QED  BY <2>1 DEF DispatchInv, TrackerState, PriorAttempts
<1>8. CASE Tick
  <2>1. ASSUME NEW f \in Flow
        PROVE  /\ state'[f] \in TrackerState
               /\ Dispatched(f) => Dispatched(f)'
               /\ PriorAttempts(state'[f]) = PriorAttempts(state[f])
    <3>1. CASE Tracked(f) /\ state[f].left > 0
      <4>1. state[f] \in TrackerState \ {None} /\ state[f] \in ProcState
        BY <3>1 DEF DispatchInv, GateInv, Tracked
      <4>2. state'[f] = [state[f] EXCEPT !.left = @ - 1]
        BY <1>8, <3>1 DEF Tick
      <4>3. state'[f] \in TrackerState
        BY <3>1, <4>1, <4>2, TrackerAssumption DEF TrackerState
      <4>4. /\ state'[f].kind = state[f].kind /\ state'[f].attempts = state[f].attempts
            /\ state'[f] \in ProcState
        BY <3>1, <4>1, <4>2 DEF ProcState
      <4>5. state'[f] # None
        BY <4>4, TrackerAssumption DEF ProcState
      <4>. QED  BY <3>1, <4>3, <4>4, <4>5 DEF Dispatched, Tracked, PriorAttempts
    <3>2. CASE ~(Tracked(f) /\ state[f].left > 0)
      <4>1. state'[f] = state[f]
        BY <1>8, <3>2 DEF Tick
      <4>. QED  BY <4>1 DEF DispatchInv, Dispatched, Tracked
    <3>. QED  BY <3>1, <3>2
  <2>2. /\ list = <<>> /\ list' = list /\ queue' = queue /\ worker' = worker /\ fails' = fails
        /\ state' \in [Flow -> TrackerState]
    BY <1>8, <2>1 DEF Tick
  <2>3. \A g \in Flow : fails'[g] = PriorAttempts(state'[g])
    BY <2>1, <2>2 DEF DispatchInv
  <2>. QED  BY <2>1, <2>2, <2>3, DispatchElsewhere
<1>. QED
  BY <1>1, <1>2, <1>3, <1>4, <1>5, <1>6, <1>7, <1>8 DEF Next

LEMMA DispatchAlways ==
  ASSUME RoomForAll
  PROVE  Spec => []GateInv /\ []DispatchInv
<1>1. GateInv /\ GateInv' /\ DispatchInv /\ [Next]_vars => DispatchInv'
  BY DispatchNext
<1>. QED  BY <1>1, GateInit, GateNext, DispatchInit, PTL DEF Spec

(* The tracker and the scan stay well formed. *)
THEOREM TrackerTypeCorrect == RoomForAll => (Spec => []TypeOK)
<1>1. GateInv /\ DispatchInv => TypeOK
  BY DEF GateInv, MapOK, DispatchInv, TypeOK, TrackerState
<1>2. ASSUME RoomForAll  PROVE Spec => []TypeOK
  BY <1>1, <1>2, DispatchAlways, PTL
<1>. QED  BY <1>2

(* No flow ever has two tasks, whatever a listing repeats, however long a  *)
(* dispatch takes and whenever backoffs are cleared.                       *)
THEOREM NeverDispatchedTwice == RoomForAll => (Spec => []NoDoubleDispatch)
<1>1. GateInv /\ DispatchInv => NoDoubleDispatch
  <2>1. SUFFICES ASSUME GateInv, DispatchInv, NEW f \in Flow  PROVE Tasks(f) <= 1
    BY DEF NoDoubleDispatch
  <2> DEFINE Q == { i \in DOMAIN queue : queue[i] = f }
             W == { w \in Worker : worker[w] = f }
  <2>2. Q = {} \/ \E i : Q = {i}
    <3>1. \A i, j \in Q : i = j
      BY <2>1 DEF DispatchInv
    <3>. HIDE DEF Q
    <3>. QED  BY <3>1
  <2>3. W = {} \/ \E w : W = {w}
    BY <2>1, TrackerAssumption DEF DispatchInv
  <2>4. Q = {} \/ W = {}
    BY <2>1 DEF DispatchInv
  <2> HIDE DEF Q, W
  <2>5. Cardinality(Q) \in {0, 1} /\ Cardinality(W) \in {0, 1}
    BY <2>2, <2>3, FS_EmptySet, FS_Singleton
  <2>6. Cardinality(Q) = 0 \/ Cardinality(W) = 0
    BY <2>4, FS_EmptySet
  <2>7. Cardinality(Q) + Cardinality(W) <= 1
    BY <2>5, <2>6
  <2>. QED  BY <2>7 DEF Tasks, Q, W
<1>2. ASSUME RoomForAll  PROVE Spec => []NoDoubleDispatch
  BY <1>1, <1>2, DispatchAlways, PTL
<1>. QED  BY <1>2

(* A flow is quarantined exactly when POISON_THRESHOLD dispatches of it    *)
(* failed since its last clean slate: neither an in-flight timeout nor a   *)
(* signal loses or invents a failure.                                      *)
THEOREM QuarantineIsExact == RoomForAll => (Spec => []QuarantineExact)
<1>1. GateInv /\ DispatchInv => QuarantineExact
  <2>1. SUFFICES ASSUME GateInv, DispatchInv, NEW f \in Flow
                 PROVE  Poisoned(f) <=> fails[f] >= POISON_THRESHOLD
    BY DEF QuarantineExact
  <2>2. state[f] \in TrackerState /\ fails[f] = PriorAttempts(state[f])
    BY <2>1 DEF DispatchInv
  <2>. QED  BY <2>2, TrackerAssumption DEF TrackerState, PriorAttempts, Poisoned, Tracked
<1>2. ASSUME RoomForAll  PROVE Spec => []QuarantineExact
  BY <1>1, <1>2, DispatchAlways, PTL
<1>. QED  BY <1>2

=============================================================================
