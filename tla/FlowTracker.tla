----------------------------- MODULE FlowTracker -----------------------------
(***************************************************************************)
(* What the cranker is doing about each flow: the FlowStateTracker that    *)
(* admits flows to dispatch, the scan that consults it for every flow it   *)
(* lists, and the bounded pool of workers that drives the admitted ones.   *)
(*                                                                         *)
(* A deadline of the tracker (`startedAt` plus the in-flight timeout, or   *)
(* `until`) is kept as the time that is left to it. The progress another   *)
(* cranker makes on a flow shows as a `noop` of this one. The clock does   *)
(* not move during the admission loop, which has no await in it.           *)
(***************************************************************************)
EXTENDS Integers, Sequences, FiniteSets

CONSTANTS
  Flow,               \* the flows discovery may list
  Worker,             \* maxConcurrentAdvances workers
  POISON_THRESHOLD,
  COOLDOWN_BASE,
  COOLDOWN_MAX,
  IN_FLIGHT_TIMEOUT,
  maxEntries,         \* capacity of the tracker's BoundedMap
  None,
  MaxListing,         \* bound: flows in a listing, repetitions included
  MaxClears,          \* bound: SIGUSR1 signals
  MaxRestarts         \* bound: restarts of the process

ASSUME TrackerAssumption ==
  /\ POISON_THRESHOLD \in Nat \ {0}
  /\ COOLDOWN_BASE \in Nat \ {0} /\ COOLDOWN_MAX \in Nat \ {0}
  /\ IN_FLIGHT_TIMEOUT \in Nat \ {0}
  /\ maxEntries \in Nat \ {0}
  /\ None \notin Flow
  /\ None \notin [kind : {"inFlight", "cooldown", "poisoned"}, left : Nat, attempts : Nat]
  /\ MaxListing \in Nat /\ MaxClears \in Nat /\ MaxRestarts \in Nat

VARIABLES
  older,     \* insertion order of the tracker's map: the pairs <<earlier, later>>
  state,     \* FlowProcState of each flow, None when idle
  scanning,  \* a scan is under way
  list,      \* listed flows that the scan has not put to the tracker yet
  queue,     \* admitted flows no worker has picked up
  worker,    \* the flow each worker drives
  status,    \* status of each flow on chain
  fails,     \* history: failed dispatches since the flow last got a clean slate
  clears, restarts

vars == <<older, state, scanning, list, queue, worker, status, fails, clears, restarts>>

InFlight(attempts) == [kind |-> "inFlight", left |-> IN_FLIGHT_TIMEOUT, attempts |-> attempts]
Idle == \A w \in Worker : worker[w] = None

Init ==
  /\ older = {}
  /\ state = [f \in Flow |-> None]
  /\ scanning = FALSE
  /\ list = <<>>
  /\ queue = <<>>
  /\ worker = [w \in Worker |-> None]
  /\ status = [f \in Flow |-> "Pending"]
  /\ fails = [f \in Flow |-> 0]
  /\ clears = 0
  /\ restarts = 0

-----------------------------------------------------------------------------
(* BoundedMap: insertion-ordered, the oldest key makes room for a new one. *)

Tracked(f) == state[f] # None
Known == { f \in Flow : Tracked(f) }
Oldest == CHOOSE f \in Known : \A g \in Known : <<g, f>> \notin older

Among(flows) == { e \in older : e[1] \in flows /\ e[2] \in flows }

Set(f, value) ==
  LET evicted == IF ~Tracked(f) /\ Cardinality(Known) >= maxEntries THEN {Oldest} ELSE {}
      kept == Known \ evicted
  IN  /\ older' = IF Tracked(f) THEN older ELSE Among(kept) \cup (kept \X {f})
      /\ state' = [g \in Flow |-> IF g = f THEN value
                                  ELSE IF g \in evicted THEN None ELSE state[g]]

Delete(flows) ==
  /\ older' = Among(Known \ flows)
  /\ state' = [f \in Flow |-> IF f \in flows THEN None ELSE state[f]]

-----------------------------------------------------------------------------
(* FlowStateTracker *)

InFlightIgnored(s) == s # None => s.kind # "poisoned" /\ (s.kind = "inFlight" \/ s.left = 0)   \* mutation
NeverStale(s) == s # None => s.kind = "cooldown" /\ s.left = 0   \* mutation: no in-flight timeout
Ready(s) == s # None => s.kind # "poisoned" /\ s.left = 0

StaleForgets(s) == IF s = None \/ s.kind = "inFlight" THEN 0 ELSE s.attempts   \* mutation
PriorAttempts(s) == IF s = None THEN 0 ELSE s.attempts

Backoff(attempts) ==
  LET wait == COOLDOWN_BASE * 2 ^ (attempts - 1)
  IN  IF wait < COOLDOWN_MAX THEN wait ELSE COOLDOWN_MAX

NoThreshold(s) ==   \* mutation: backs off for ever
  [kind |-> "cooldown", left |-> Backoff(PriorAttempts(s) + 1), attempts |-> PriorAttempts(s) + 1]
Failed(s) ==
  LET attempts == IF s = None THEN 1 ELSE s.attempts + 1
  IN  IF attempts >= POISON_THRESHOLD
      THEN [kind |-> "poisoned", left |-> 0, attempts |-> attempts]
      ELSE [kind |-> "cooldown", left |-> Backoff(attempts), attempts |-> attempts]

RecordSuccess(f) ==
  /\ Delete({f})
  /\ fails' = [fails EXCEPT ![f] = 0]

RecordError(f) ==
  /\ Set(f, Failed(state[f]))
  /\ fails' = [fails EXCEPT ![f] = @ + 1]

BackingOff(f) == state[f] # None /\ state[f].kind \in {"cooldown", "poisoned"}

(* SIGUSR1 *)
ClearBackoff ==
  LET cleared == { f \in Flow : BackingOff(f) }
  IN  /\ list = <<>>
      /\ clears < MaxClears
      /\ Delete(cleared)
      /\ fails' = [f \in Flow |-> IF f \in cleared THEN 0 ELSE fails[f]]
      /\ clears' = clears + 1
      /\ UNCHANGED <<scanning, list, queue, worker, status, restarts>>

-----------------------------------------------------------------------------
(* scanAndAdvance *)

Open == { f \in Flow : status[f] # "Closed" }

(* Flows in a status the cranker drives; a page that shifts while it is    *)
(* read repeats one.                                                       *)
Listings == UNION { [1 .. n -> Open] : n \in 0 .. MaxListing }

StartScan(l) ==
  /\ ~scanning
  /\ scanning' = TRUE
  /\ list' = l
  /\ UNCHANGED <<older, state, queue, worker, status, fails, clears, restarts>>

(* The gate, put to the next flow of the listing. *)
BeginIfReady ==
  /\ list # <<>>
  /\ list' = Tail(list)
  /\ LET f == Head(list)
     IN  \/ /\ Ready(state[f])
            /\ Set(f, InFlight(PriorAttempts(state[f])))
            /\ queue' = Append(queue, f)
         \/ /\ ~Ready(state[f])
            /\ UNCHANGED <<older, state, queue>>
  /\ UNCHANGED <<scanning, worker, status, fails, clears, restarts>>

(* runBounded *)
Take(w) ==
  /\ list = <<>> /\ queue # <<>>
  /\ worker[w] = None
  /\ worker' = [worker EXCEPT ![w] = Head(queue)]
  /\ queue' = Tail(queue)
  /\ UNCHANGED <<older, state, scanning, list, status, fails, clears, restarts>>

NextStatus == [Pending |-> "Received", Received |-> "Swapped", Swapped |-> "Closed"]

Done(w) == worker' = [worker EXCEPT ![w] = None]

(* A leg lands: the task goes on to the next leg, or ends with the flow. *)
Advanced(w) ==
  LET f == worker[w]
  IN  /\ f # None /\ f \in Open
      /\ status' = [status EXCEPT ![f] = NextStatus[@]]
      /\ IF status'[f] = "Closed" THEN RecordSuccess(f) /\ Done(w)
                                  ELSE UNCHANGED <<older, state, fails, worker>>
      /\ UNCHANGED <<scanning, list, queue, clears, restarts>>

(* The last leg tried had nothing to do. *)
Noop(w) ==
  /\ worker[w] # None
  /\ RecordSuccess(worker[w])
  /\ Done(w)
  /\ UNCHANGED <<scanning, list, queue, status, clears, restarts>>

Failure(w) ==
  /\ worker[w] # None
  /\ RecordError(worker[w])
  /\ Done(w)
  /\ UNCHANGED <<scanning, list, queue, status, clears, restarts>>

(* An advance function breaks its contract: nothing is recorded. *)
Throw(w) ==
  /\ worker[w] # None
  /\ Done(w)
  /\ UNCHANGED <<older, state, scanning, list, queue, status, fails, clears, restarts>>

Finish(w) == Advanced(w) \/ Noop(w) \/ Failure(w) \/ Throw(w)

EndScan ==
  /\ scanning
  /\ list = <<>> /\ queue = <<>> /\ Idle
  /\ scanning' = FALSE
  /\ UNCHANGED <<older, state, list, queue, worker, status, fails, clears, restarts>>

(* The process ends, wherever it was, and is started again. *)
Restart ==
  /\ restarts < MaxRestarts
  /\ older' = {}
  /\ state' = [f \in Flow |-> None]
  /\ scanning' = FALSE
  /\ list' = <<>>
  /\ queue' = <<>>
  /\ worker' = [w \in Worker |-> None]
  /\ fails' = [f \in Flow |-> 0]
  /\ restarts' = restarts + 1
  /\ UNCHANGED <<status, clears>>

Tick ==
  /\ list = <<>>
  /\ \E f \in Flow : Tracked(f) /\ state[f].left > 0
  /\ state' = [f \in Flow |-> IF Tracked(f) /\ state[f].left > 0
                              THEN [state[f] EXCEPT !.left = @ - 1] ELSE state[f]]
  /\ UNCHANGED <<older, scanning, list, queue, worker, status, fails, clears, restarts>>

Next ==
  \/ \E l \in Listings : StartScan(l)
  \/ BeginIfReady
  \/ \E w \in Worker : Take(w)
  \/ \E w \in Worker : Finish(w)
  \/ EndScan
  \/ ClearBackoff
  \/ Restart
  \/ Tick

Spec == Init /\ [][Next]_vars

(* A listing with every open flow in it keeps coming (the backstop scan),  *)
(* the event loop serves every step that stays possible, an advance        *)
(* function returns (its calls are under timeouts), and time passes.       *)
ListsAll == \E l \in Listings : StartScan(l) /\ \A f \in Open : \E i \in DOMAIN l : l[i] = f

FairSpec ==
  /\ Spec
  /\ SF_vars(ListsAll) /\ SF_vars(Tick)
  /\ WF_vars(BeginIfReady) /\ WF_vars(EndScan)
  /\ \A w \in Worker : WF_vars(Take(w)) /\ WF_vars(Finish(w))

-----------------------------------------------------------------------------
(* Properties *)

Poisoned(f) == Tracked(f) /\ state[f].kind = "poisoned"

Tasks(f) == Cardinality({ i \in DOMAIN queue : queue[i] = f })
              + Cardinality({ w \in Worker : worker[w] = f })

(* The state of the tracker and of the scan: the map stays within its      *)
(* capacity and orders the flows it holds, and a flow backs off only below *)
(* the threshold (FlowStateTracker, BoundedMap.set).                       *)
TypeOK ==
  /\ state \in [Flow -> {None} \cup [kind : {"inFlight"}, left : 0 .. IN_FLIGHT_TIMEOUT,
                                     attempts : 0 .. POISON_THRESHOLD - 1]
                        \cup [kind : {"cooldown"}, left : 0 .. COOLDOWN_MAX,
                              attempts : 1 .. POISON_THRESHOLD - 1]
                        \cup [kind : {"poisoned"}, left : {0}, attempts : {POISON_THRESHOLD}]]
  /\ Cardinality(Known) <= maxEntries
  /\ older \subseteq Known \X Known
  /\ \A f, g \in Known : f # g => (<<f, g>> \in older <=> <<g, f>> \notin older)
  /\ worker \in [Worker -> Flow \cup {None}]
  /\ status \in [Flow -> {"Pending", "Received", "Swapped", "Closed"}]
  /\ scanning \/ (list = <<>> /\ queue = <<>> /\ Idle)

(* A flow has at most one task, queued or running, even when its listing   *)
(* repeats it, when its dispatch outlives the in-flight timeout and when   *)
(* its backoff is cleared meanwhile (beginIfReady in scanAndAdvance).      *)
NoDoubleDispatch == \A f \in Flow : Tasks(f) <= 1

(* A flow is quarantined exactly when POISON_THRESHOLD of its dispatches   *)
(* failed with no success, no operator's clearing and no restart between:  *)
(* neither a cooldown, nor a task that threw and went stale, nor a signal  *)
(* while it is in flight loses or invents a failure (recordError).         *)
QuarantineExact == \A f \in Flow : Poisoned(f) <=> fails[f] >= POISON_THRESHOLD

(* No flow is dropped: as long as it is open and not quarantined, it is    *)
(* dispatched again and again, also after a task of it threw without       *)
(* recording an outcome (the in-flight timeout of beginIfReady).           *)
KeepsDispatching ==
  \A f \in Flow : []<>(Tasks(f) > 0 \/ status[f] = "Closed" \/ Poisoned(f))
=============================================================================
