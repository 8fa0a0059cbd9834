------------------------------- MODULE Daemon -------------------------------
(***************************************************************************)
(* The cranker's main loop: scans of several independent legs, the sleep   *)
(* between them that a WakeFlag may cut short, backoff after a scan that   *)
(* failed outright, the watchdog that ends a process whose heartbeat is    *)
(* stale, and shutdown: the loop gives up its scan at a deadline, the      *)
(* process goes when nothing of that scan is left, and whoever asked it to *)
(* stop kills it when its grace period is over.                            *)
(*                                                                         *)
(* Time is counted in units of the instance's choice and moves by Tick     *)
(* only when no timer and no settled promise is due: the event loop serves *)
(* those at once.                                                          *)
(***************************************************************************)
EXTENDS Integers, FiniteSets

CONSTANTS
  BridgeLeg,         \* bridge targets that were built
  Budget,            \* longest a leg takes when none of its calls hangs
  intervalMs,
  maxBackoffMs,
  heartbeatStaleMs,
  watchdogIntervalMs,
  shutdownDeadlineMs,
  stopGraceMs,       \* from SIGTERM to SIGKILL
  JitterDiv,         \* jitter() moves a sleep by up to a JitterDiv-th of it, either way
  MayHang,           \* a call without a timeout may never return
  None,
  MaxErrors,         \* bound: failed scans in a row that are counted
  MaxSignals         \* bound: signals to the WakeFlag

Leg == {"flow", "refund"} \cup BridgeLeg

ASSUME DaemonAssumption ==
  /\ None \notin Nat /\ None \notin {"shutdown", "killed", "sigkilled", "watchdog"}
  /\ IsFiniteSet(BridgeLeg) /\ Budget \in [Leg -> Nat]
  /\ intervalMs \in Nat \ {0} /\ maxBackoffMs \in Nat \ {0}
  /\ heartbeatStaleMs \in Nat /\ watchdogIntervalMs \in Nat /\ shutdownDeadlineMs \in Nat
  /\ stopGraceMs \in Nat
  /\ JitterDiv \in Nat \ {0}
  /\ MayHang \in BOOLEAN /\ MaxSignals \in Nat
  /\ MaxErrors \in Nat \ {0} /\ intervalMs * 2 ^ MaxErrors >= maxBackoffMs

VARIABLES
  pc,        \* "scan", "sleep", "returned" from runDaemon, or "exited"
  exit,      \* why the process ended
  leg,       \* outcome of each leg of the scan
  took,      \* time since the scan started
  hung,      \* legs stuck in a call that does not return
  errors,    \* consecutiveErrors
  nap,       \* what is left of the sleep
  age,       \* age of the heartbeat
  flagged,   \* WakeFlag.flagged
  armed,     \* WakeFlag.resolveCurrent is set
  woken,     \* the promise this sleep got from wait() has resolved
  aborted,   \* time since the shutdown signal, None before it
  owed,      \* history: the flag was signalled since the last scan began
  signals    \* history: how often it was signalled

flag == <<flagged, armed, woken>>
vars == <<pc, exit, leg, took, hung, errors, nap, age, flag, aborted, owed, signals>>

Pending == [l \in Leg |-> "running"]

Init ==
  /\ pc = "scan"
  /\ exit = None
  /\ leg = Pending
  /\ took = 0
  /\ hung = {}
  /\ errors = 0
  /\ nap = 0
  /\ age = 0
  /\ flagged = FALSE
  /\ armed = FALSE
  /\ woken = FALSE
  /\ aborted = None
  /\ owed = FALSE
  /\ signals = 0

-----------------------------------------------------------------------------
(* WakeFlag *)

HandOver ==   \* mutation: a pending wait takes the signal, and the flag stays down
  /\ flagged' = (flagged \/ ~armed)
  /\ woken' = (woken \/ (armed /\ pc = "sleep"))
  /\ armed' = FALSE
  /\ owed' = TRUE
  /\ signals' = signals + 1
Signal ==
  /\ flagged' = TRUE
  /\ woken' = (woken \/ (armed /\ pc = "sleep"))
  /\ armed' = FALSE
  /\ owed' = TRUE
  /\ signals' = signals + 1

(* wait(): takes the flag, or leaves a resolver for the next signal. *)
Wait ==
  /\ flagged' = FALSE
  /\ woken' = flagged
  /\ armed' = (armed \/ ~flagged)

-----------------------------------------------------------------------------
(* A scan: runScanIteration *)

Settled == \A l \in Leg : leg[l] # "running"

(* A leg resolves, with progress or without, or rejects, be it after its   *)
(* scan was abandoned.                                                     *)
Settle(l, outcome, progress) ==
  /\ pc \in {"scan", "returned"}
  /\ leg[l] = "running" /\ l \notin hung
  /\ leg' = [leg EXCEPT ![l] = outcome]
  /\ \/ /\ progress /\ outcome = "ok" /\ l # "refund"
        /\ signals < MaxSignals
        /\ Signal
     \/ ~progress /\ UNCHANGED <<flag, owed, signals>>
  /\ UNCHANGED <<pc, exit, took, hung, errors, nap, age, aborted>>

Hang(l) ==
  /\ MayHang
  /\ pc \in {"scan", "returned"}
  /\ leg[l] = "running" /\ l \notin hung
  /\ hung' = hung \cup {l}
  /\ UNCHANGED <<pc, exit, leg, took, errors, nap, age, flag, aborted, owed, signals>>

(* Refund is left out of the total-outage signal. *)
AllFailed == \A l \in Leg \ {"refund"} : leg[l] = "error"

-----------------------------------------------------------------------------
(* The loop: runDaemon *)

Delta(delay) == delay \div JitterDiv
Jittered(delay) == { delay - Delta(delay), delay, delay + Delta(delay) }

Uncapped(k) == intervalMs * 2 ^ k   \* mutation
Backoff(k) ==
  LET delay == intervalMs * 2 ^ k
  IN  IF delay < maxBackoffMs THEN delay ELSE maxBackoffMs

NoDeadline == FALSE   \* mutation: the scan is not raced against the deadline
DeadlineOver == aborted # None /\ aborted >= shutdownDeadlineMs

(* The race of the scan against the shutdown deadline is over. *)
ScanOver == pc = "scan" /\ (Settled \/ DeadlineOver)

Exit(why) ==
  /\ pc' = "exited"
  /\ exit' = why
  /\ UNCHANGED <<leg, took, hung, errors, nap, age, flag, aborted, owed, signals>>

Unstamped ==   \* mutation: a success does not stamp the heartbeat
  /\ UNCHANGED age
  /\ errors' = 0
  /\ nap' \in Jittered(intervalMs)
Succeeded ==
  /\ age' = 0
  /\ errors' = 0
  /\ nap' \in Jittered(intervalMs)

Failed ==
  /\ errors' = IF errors < MaxErrors THEN errors + 1 ELSE errors
  /\ nap' \in Jittered(Backoff(errors'))
  /\ UNCHANGED age

EndScan ==
  /\ ScanOver
  /\ aborted = None
  /\ \/ ~AllFailed /\ Succeeded
     \/ AllFailed /\ Failed
  /\ pc' = "sleep"
  /\ Wait
  /\ took' = 0
  /\ UNCHANGED <<exit, leg, hung, aborted, owed, signals>>

(* runDaemon returns, with the watchdog cleared and perhaps a scan         *)
(* abandoned; main flushes the checkpoint and closes the metrics server.   *)
Shutdown ==
  /\ ScanOver \/ pc = "sleep"
  /\ aborted # None
  /\ pc' = "returned"
  /\ UNCHANGED <<exit, leg, took, hung, errors, nap, age, flag, aborted, owed, signals>>

(* Nothing calls process.exit: the process goes when no call or timer of a *)
(* leg keeps the event loop alive.                                         *)
Drained ==
  /\ pc = "returned"
  /\ Settled
  /\ Exit("shutdown")

SleepOver == pc = "sleep" /\ aborted = None /\ (woken \/ nap = 0)

Wake ==
  /\ SleepOver
  /\ pc' = "scan"
  /\ leg' = Pending
  /\ nap' = 0
  /\ owed' = FALSE
  /\ UNCHANGED <<exit, took, hung, errors, age, flag, aborted, signals>>

-----------------------------------------------------------------------------
(* Signals, timers *)

(* SIGUSR1 *)
Retry ==
  /\ pc # "exited"
  /\ signals < MaxSignals
  /\ Signal
  /\ UNCHANGED <<pc, exit, leg, took, hung, errors, nap, age, aborted>>

(* SIGTERM or SIGINT; a second one has the default effect. *)
Abort ==
  /\ pc # "exited"
  /\ \/ /\ aborted = None
        /\ aborted' = 0
        /\ UNCHANGED <<pc, exit, leg, took, hung, errors, nap, age, flag, owed, signals>>
     \/ aborted # None /\ Exit("killed")

(* The grace period that docker stop leaves the process. *)
GraceOver == aborted # None /\ aborted >= stopGraceMs

Kill ==
  /\ pc # "exited"
  /\ GraceOver
  /\ Exit("sigkilled")

NoWatchdog == FALSE   \* mutation: a stale heartbeat is only reported
Stale == age > heartbeatStaleMs

Watchdog ==
  /\ pc \in {"scan", "sleep"}
  /\ Stale
  /\ Exit("watchdog")

(* The watchdog looks once per watchdogIntervalMs. *)
WatchdogDue == pc \in {"scan", "sleep"} /\ age > heartbeatStaleMs + watchdogIntervalMs

(* A leg settles within its budget unless one of its calls hangs. *)
Overdue(l) == leg[l] = "running" /\ l \notin hung /\ took >= Budget[l]

Tick ==
  /\ pc # "exited"
  /\ ~ScanOver /\ ~SleepOver /\ ~(pc = "sleep" /\ aborted # None) /\ ~WatchdogDue /\ ~GraceOver
  /\ pc = "returned" => ~Settled
  /\ ~\E l \in Leg : Overdue(l)
  /\ age' = IF pc = "returned" THEN age ELSE age + 1
  /\ nap' = IF pc = "sleep" THEN nap - 1 ELSE nap
  /\ took' = IF pc = "sleep" THEN took ELSE took + 1
  /\ aborted' = IF aborted = None THEN None ELSE aborted + 1
  /\ UNCHANGED <<pc, exit, leg, hung, errors, flag, owed, signals>>

Next ==
  \/ \E l \in Leg, outcome \in {"ok", "error"}, progress \in BOOLEAN : Settle(l, outcome, progress)
  \/ \E l \in Leg : Hang(l)
  \/ EndScan
  \/ Shutdown
  \/ Drained
  \/ Wake
  \/ Retry
  \/ Abort
  \/ Kill
  \/ Watchdog
  \/ Tick

Spec == Init /\ [][Next]_vars

(* Time passes, timers fire, and a leg that does not hang settles. *)
FairSpec ==
  /\ Spec
  /\ WF_vars(Tick) /\ WF_vars(EndScan) /\ WF_vars(Wake) /\ WF_vars(Watchdog)
  /\ WF_vars(Shutdown) /\ WF_vars(Drained) /\ WF_vars(Kill)
  /\ \A l \in Leg : WF_vars(\E outcome \in {"ok", "error"} : Settle(l, outcome, FALSE))

-----------------------------------------------------------------------------
(* Properties *)

(* The state of the loop; the heartbeat of a live process is never older   *)
(* than the watchdog allows (runDaemon).                                   *)
TypeOK ==
  /\ pc \in {"scan", "sleep", "returned", "exited"}
  /\ exit \in {None, "shutdown", "killed", "sigkilled", "watchdog"} /\ (exit = None <=> pc # "exited")
  /\ leg \in [Leg -> {"running", "ok", "error"}] /\ hung \in SUBSET Leg
  /\ errors \in 0 .. MaxErrors
  /\ nap \in Nat /\ (nap <= intervalMs + Delta(intervalMs) \/ nap <= maxBackoffMs + Delta(maxBackoffMs))
  /\ took \in Nat
  /\ age \in 0 .. heartbeatStaleMs + watchdogIntervalMs + 1
  /\ flagged \in BOOLEAN /\ armed \in BOOLEAN /\ woken \in BOOLEAN /\ owed \in BOOLEAN
  /\ aborted \in Nat \cup {None}
  /\ signals \in 0 .. MaxSignals

(* A signal given at any point since the last scan began, while it runs or *)
(* while the daemon sleeps, ends the sleep: it is not lost to a resolver   *)
(* that an earlier sleep left behind when its timer won (WakeFlag).        *)
NoLostWake == pc = "sleep" /\ owed => woken

(* Once the process is told to stop, the LOOP is left within the shutdown  *)
(* deadline whatever the scan in flight is doing, so that main's last      *)
(* flush of the checkpoint is reached (waitForShutdownDeadline). It says   *)
(* nothing of when the process goes.                                       *)
ShutdownBounded ==
  pc \in {"scan", "sleep"} /\ aborted # None => aborted <= shutdownDeadlineMs

(* The process is gone before its grace period is over: "a stuck RPC can't *)
(* out-wait Docker's SIGTERM grace window" (runDaemon).                    *)
GoneWithinGrace == exit # "sigkilled"

(* The watchdog ends only a process whose last scan failed outright or     *)
(* hangs: a loop whose scans succeed within their own timeouts is left     *)
(* alone (HEARTBEAT_STALE_MS, "Must be >> SCAN_INTERVAL_MS + worst-case    *)
(* scan duration").                                                        *)
WatchdogSparesHealthyLoop == exit = "watchdog" => errors > 0 \/ hung # {}

(* No scan holds the loop for ever, not even one that hangs: it settles,   *)
(* is abandoned at shutdown, or the watchdog ends the process.             *)
ScanEnds == pc = "scan" ~> pc # "scan"
=============================================================================
