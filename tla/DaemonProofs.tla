---------------------------- MODULE DaemonProofs ----------------------------
(***************************************************************************)
(* What the main loop keeps for every configuration: no wake-up is lost,   *)
(* the loop is left within the shutdown deadline, and a watchdog whose     *)
(* allowance covers a sleep and a scan leaves a loop alone whose scans     *)
(* succeed.                                                                *)
(***************************************************************************)
EXTENDS Daemon, UnitSumsTheorems

(***************************************************************************)
(* Wake-ups                                                                *)
(***************************************************************************)

(* A signal shows in the flag until the next wait, which hands it to the   *)
(* sleep; a sleep that has not been woken has its resolver in place.       *)
WakeInv ==
  /\ flagged \in BOOLEAN /\ armed \in BOOLEAN /\ woken \in BOOLEAN /\ owed \in BOOLEAN
  /\ pc = "scan" => (owed => flagged)
  /\ pc = "sleep" => (woken \/ armed) /\ (owed => woken)

LEMMA WakeInvStep ==
  ASSUME WakeInv, [Next]_vars
  PROVE  WakeInv'
<1>1. ASSUME NEW l \in Leg, NEW outcome \in {"ok", "error"}, NEW progress \in BOOLEAN,
             Settle(l, outcome, progress)
      PROVE  WakeInv'
  <2>1. CASE Signal
    BY <1>1, <2>1 DEF WakeInv, Settle, Signal
  <2>2. CASE UNCHANGED <<flag, owed, signals>>
    BY <1>1, <2>2 DEF WakeInv, Settle, flag
  <2>. QED  BY <1>1, <2>1, <2>2 DEF Settle
<1>2. ASSUME NEW l \in Leg, Hang(l)  PROVE WakeInv'
  BY <1>2 DEF WakeInv, Hang, flag
<1>3. CASE EndScan
  BY <1>3 DEF WakeInv, EndScan, ScanOver, Wait
<1>4. CASE Shutdown
  BY <1>4 DEF WakeInv, Shutdown, flag
<1>5. CASE Wake
  BY <1>5 DEF WakeInv, Wake, flag
<1>6. CASE Retry
  BY <1>6 DEF WakeInv, Retry, Signal
<1>7. CASE Abort
  BY <1>7 DEF WakeInv, Abort, Exit, flag
<1>8. CASE Watchdog
  BY <1>8 DEF WakeInv, Watchdog, Exit, flag
<1>9. CASE Tick
  BY <1>9 DEF WakeInv, Tick, flag
<1>10. CASE Drained \/ Kill
  BY <1>10 DEF WakeInv, Drained, Kill, Exit, flag
<1>11. CASE UNCHANGED vars
  BY <1>11 DEF WakeInv, vars, flag
<1>. QED
  BY <1>1, <1>2, <1>3, <1>4, <1>5, <1>6, <1>7, <1>8, <1>9, <1>10, <1>11 DEF Next

(* A signal given while a scan runs or while the daemon sleeps always ends *)
(* the sleep, whatever an earlier sleep left behind (WakeFlag, runDaemon). *)
THEOREM NoSignalIsLost == Spec => []NoLostWake
<1>1. Init => WakeInv
  BY DEF Init, WakeInv
<1>2. WakeInv /\ [Next]_vars => WakeInv'
  BY WakeInvStep
<1>3. WakeInv => NoLostWake
  BY DEF WakeInv, NoLostWake
<1>. QED  BY <1>1, <1>2, <1>3, PTL DEF Spec

(***************************************************************************)
(* Shutdown                                                                *)
(***************************************************************************)

(* Time cannot pass a deadline that ends the scan. *)
ShutdownInv ==
  /\ pc \in {"scan", "sleep", "returned", "exited"}
  /\ aborted \in Nat \cup {None}
  /\ ShutdownBounded

LEMMA ShutdownInvTick ==
  ASSUME ShutdownInv, Tick
  PROVE  ShutdownInv'
<1>1. CASE aborted = None
  BY <1>1 DEF Tick, ShutdownInv, ShutdownBounded
<1>2. CASE aborted # None
  <2>1. /\ aborted \in Nat /\ aborted' = aborted + 1 /\ aborted' \in Nat
        /\ pc \in {"scan", "returned"} /\ pc' = pc /\ ~ScanOver
    BY <1>2 DEF Tick, ShutdownInv
  <2>2. pc = "scan" => ~(aborted >= shutdownDeadlineMs)
    BY <1>2, <2>1 DEF ScanOver, DeadlineOver
  <2>. QED  BY <2>1, <2>2, DaemonAssumption DEF ShutdownInv, ShutdownBounded
<1>. QED  BY <1>1, <1>2

LEMMA ShutdownInvStep ==
  ASSUME ShutdownInv, [Next]_vars
  PROVE  ShutdownInv'
<1>1. ASSUME NEW l \in Leg, NEW outcome \in {"ok", "error"}, NEW progress \in BOOLEAN,
             Settle(l, outcome, progress)
      PROVE  ShutdownInv'
  BY <1>1 DEF ShutdownInv, ShutdownBounded, Settle
<1>2. ASSUME NEW l \in Leg, Hang(l)  PROVE ShutdownInv'
  BY <1>2 DEF ShutdownInv, ShutdownBounded, Hang
<1>3. CASE EndScan
  BY <1>3 DEF ShutdownInv, ShutdownBounded, EndScan
<1>4. CASE Shutdown
  BY <1>4 DEF ShutdownInv, ShutdownBounded, Shutdown
<1>5. CASE Wake
  BY <1>5 DEF ShutdownInv, ShutdownBounded, Wake, SleepOver
<1>6. CASE Retry
  BY <1>6 DEF ShutdownInv, ShutdownBounded, Retry
<1>7. CASE Abort
  <2>1. CASE aborted = None /\ aborted' = 0 /\ pc' = pc
    BY <2>1, DaemonAssumption DEF ShutdownInv, ShutdownBounded
  <2>2. CASE Exit("killed")
    BY <2>2 DEF ShutdownInv, ShutdownBounded, Exit
  <2>. QED  BY <1>7, <2>1, <2>2 DEF Abort
<1>8. CASE Watchdog
  BY <1>8 DEF ShutdownInv, ShutdownBounded, Watchdog, Exit
<1>9. CASE Tick
  BY <1>9, ShutdownInvTick
<1>10. CASE Drained \/ Kill
  BY <1>10 DEF ShutdownInv, ShutdownBounded, Drained, Kill, Exit
<1>11. CASE UNCHANGED vars
  BY <1>11 DEF ShutdownInv, ShutdownBounded, vars
<1>. QED
  BY <1>1, <1>2, <1>3, <1>4, <1>5, <1>6, <1>7, <1>8, <1>9, <1>10, <1>11 DEF Next

(* A process that was told to stop leaves its loop within the shutdown     *)
(* deadline, even when its scan never settles (waitForShutdownDeadline).   *)
THEOREM ShutdownIsBounded == Spec => []ShutdownBounded
<1>1. Init => ShutdownInv
  BY DaemonAssumption DEF Init, ShutdownInv, ShutdownBounded
<1>2. ShutdownInv /\ [Next]_vars => ShutdownInv'
  BY ShutdownInvStep
<1>3. ShutdownInv => ShutdownBounded
  BY DEF ShutdownInv
<1>. QED  BY <1>1, <1>2, <1>3, PTL DEF Spec

(***************************************************************************)
(* The watchdog                                                            *)
(***************************************************************************)

LongestSleep == intervalMs + Delta(intervalMs)

(* The heartbeat's allowance covers a sleep and the longest leg of a scan. *)
AllowanceFits == \A l \in Leg : LongestSleep + Budget[l] <= heartbeatStaleMs

(* As long as scans succeed, the heartbeat is no older than the sleep      *)
(* before this scan and the scan itself, which has a leg within budget.    *)
HeartbeatInv ==
  /\ pc \in {"scan", "sleep", "returned", "exited"}
  /\ errors \in Nat /\ age \in Nat /\ took \in Nat
  /\ pc = "sleep" => took = 0
  /\ hung = {} => \E l \in Leg : took <= Budget[l]
  /\ pc = "sleep" /\ errors = 0 => nap \in Nat /\ age + nap <= LongestSleep
  /\ pc = "scan" /\ errors = 0 => age <= LongestSleep + took
  /\ exit = "watchdog" => pc = "exited"
  /\ WatchdogSparesHealthyLoop

LEMMA SleepLength ==
  /\ LongestSleep \in Nat
  /\ \A n \in Jittered(intervalMs) : n \in Nat /\ n <= LongestSleep
<1>1. intervalMs \in Nat /\ JitterDiv \in Nat \ {0}
  BY DaemonAssumption
<1>2. ASSUME NEW i \in Nat, NEW j \in Nat \ {0}
      PROVE  i \div j \in Nat /\ i \div j <= i
  <2>1. PICK q \in Int : q = i \div j
    OBVIOUS
  <2>2. q * j <= i /\ i < q * j + j
    BY <1>2, <2>1, SMT
  <2>3. q >= 0
    BY <1>2, <2>2, SMT
  <2>4. q <= q * j
    BY <1>2, <2>3, SMT
  <2>. QED  BY <1>2, <2>1, <2>2, <2>3, <2>4, SMT
<1>3. Delta(intervalMs) \in Nat /\ Delta(intervalMs) <= intervalMs
  BY <1>1, <1>2 DEF Delta
<1>. QED  BY <1>1, <1>3 DEF LongestSleep, Jittered

(* A leg that has not settled is within its budget when time passes. *)
LEMMA TimeIsWithinBudget ==
  ASSUME Tick, pc \in {"scan", "returned"}, hung = {}, took \in Nat
  PROVE  \E l \in Leg : took + 1 <= Budget[l]
<1>1. PICK l \in Leg : leg[l] = "running"
  BY DEF Tick, ScanOver, Settled
<1>2. ~(took >= Budget[l])
  BY <1>1 DEF Tick, Overdue
<1>3. Budget[l] \in Nat
  BY <1>1, DaemonAssumption
<1>. QED  BY <1>1, <1>2, <1>3

LEMMA HeartbeatInvTick ==
  ASSUME HeartbeatInv, Tick
  PROVE  HeartbeatInv'
<1>1. /\ pc' = pc /\ errors' = errors /\ hung' = hung /\ exit' = exit
      /\ age' \in Nat /\ took' \in Nat
      /\ pc # "returned" => age' = age + 1
      /\ pc # "sleep" => took' = took + 1
      /\ pc = "sleep" => took' = took /\ nap' = nap - 1
  BY DEF Tick, HeartbeatInv
<1>2. WatchdogSparesHealthyLoop'
  BY <1>1 DEF HeartbeatInv, WatchdogSparesHealthyLoop
<1>3. hung' = {} => \E l \in Leg : took' <= Budget[l]
  <2>1. CASE pc # "sleep" /\ hung = {}
    <3>0. pc \in {"scan", "returned"}
      BY <2>1 DEF Tick, HeartbeatInv
    <3>1. \E l \in Leg : took + 1 <= Budget[l]
      BY <2>1, <3>0, TimeIsWithinBudget DEF HeartbeatInv
    <3>. QED  BY <1>1, <2>1, <3>1
  <2>2. CASE pc = "sleep" \/ hung # {}
    BY <1>1, <2>2 DEF HeartbeatInv
  <2>. QED  BY <2>1, <2>2
<1>4. CASE pc = "scan"
  BY <1>1, <1>2, <1>3, <1>4, SleepLength DEF HeartbeatInv
<1>5. CASE pc = "sleep"
  <2>1. nap # 0
    BY <1>5 DEF Tick, SleepOver
  <2>. QED  BY <1>1, <1>2, <1>3, <1>5, <2>1, SleepLength DEF HeartbeatInv
<1>6. CASE pc = "returned"
  BY <1>1, <1>2, <1>3, <1>6 DEF HeartbeatInv
<1>. QED  BY <1>4, <1>5, <1>6 DEF Tick, HeartbeatInv

LEMMA HeartbeatInvEndScan ==
  ASSUME HeartbeatInv, EndScan
  PROVE  HeartbeatInv'
<1>1. pc' = "sleep" /\ took' = 0 /\ hung' = hung /\ exit' = exit
  BY DEF EndScan
<1>2. \E l \in Leg : took' <= Budget[l]
  <2>1. "flow" \in Leg
    BY DEF Leg
  <2>2. Budget["flow"] \in Nat
    BY <2>1, DaemonAssumption
  <2>. QED  BY <1>1, <2>1, <2>2
<1>3. exit' # "watchdog" /\ WatchdogSparesHealthyLoop'
  BY <1>1 DEF HeartbeatInv, WatchdogSparesHealthyLoop, EndScan, ScanOver
<1>4. CASE Succeeded
  <2>1. age' = 0 /\ errors' = 0 /\ nap' \in Nat /\ nap' <= LongestSleep
    BY <1>4, SleepLength DEF Succeeded
  <2>2. 0 \in Nat /\ \A n \in Nat : 0 + n = n
    OBVIOUS
  <2>. QED  BY <1>1, <1>2, <1>3, <2>1, <2>2 DEF HeartbeatInv
<1>5. CASE Failed
  <2>1. errors' \in Nat /\ errors' # 0 /\ age' = age
    BY <1>5, DaemonAssumption DEF Failed, HeartbeatInv
  <2>. QED  BY <1>1, <1>2, <1>3, <2>1 DEF HeartbeatInv
<1>. QED  BY <1>4, <1>5 DEF EndScan

LEMMA HeartbeatInvStep ==
  ASSUME AllowanceFits, HeartbeatInv, [Next]_vars
  PROVE  HeartbeatInv'
<1>1. ASSUME NEW l \in Leg, NEW outcome \in {"ok", "error"}, NEW progress \in BOOLEAN,
             Settle(l, outcome, progress)
      PROVE  HeartbeatInv'
  BY <1>1 DEF HeartbeatInv, WatchdogSparesHealthyLoop, Settle
<1>2. ASSUME NEW l \in Leg, Hang(l)  PROVE HeartbeatInv'
  BY <1>2 DEF HeartbeatInv, WatchdogSparesHealthyLoop, Hang
<1>3. CASE EndScan
  BY <1>3, HeartbeatInvEndScan
<1>4. CASE Shutdown
  BY <1>4 DEF HeartbeatInv, WatchdogSparesHealthyLoop, Shutdown, ScanOver
<1>5. CASE Wake
  <2>1. pc = "sleep" /\ pc' = "scan" /\ UNCHANGED <<exit, took, hung, errors, age>>
    BY <1>5 DEF Wake, SleepOver
  <2>2. errors = 0 => age <= LongestSleep + took
    BY <2>1, SleepLength DEF HeartbeatInv
  <2>. QED  BY <2>1, <2>2 DEF HeartbeatInv, WatchdogSparesHealthyLoop
<1>6. CASE Retry
  BY <1>6 DEF HeartbeatInv, WatchdogSparesHealthyLoop, Retry
<1>7. CASE Abort
  BY <1>7 DEF HeartbeatInv, WatchdogSparesHealthyLoop, Abort, Exit
<1>8. CASE Watchdog
  <2>1. age > heartbeatStaleMs /\ pc \in {"scan", "sleep"}
    BY <1>8 DEF Watchdog, Stale, HeartbeatInv
  <2>2. errors > 0 \/ hung # {}
    <3>1. SUFFICES ASSUME errors = 0, hung = {}  PROVE FALSE
      BY DEF HeartbeatInv
    <3>2. PICK l \in Leg : took <= Budget[l]
      BY <3>1 DEF HeartbeatInv
    <3>3. Budget[l] \in Nat /\ LongestSleep + Budget[l] <= heartbeatStaleMs /\ heartbeatStaleMs \in Nat
      BY <3>2, DaemonAssumption DEF AllowanceFits
    <3>4. age <= LongestSleep + took
      BY <2>1, <3>1, SleepLength DEF HeartbeatInv
    <3>. QED  BY <2>1, <3>2, <3>3, <3>4, SleepLength DEF HeartbeatInv
  <2>. QED  BY <1>8, <2>2 DEF HeartbeatInv, WatchdogSparesHealthyLoop, Watchdog, Exit
<1>9. CASE Tick
  BY <1>9, HeartbeatInvTick
<1>10. CASE Drained \/ Kill
  BY <1>10 DEF HeartbeatInv, WatchdogSparesHealthyLoop, Drained, Kill, Exit
<1>11. CASE UNCHANGED vars
  BY <1>11 DEF HeartbeatInv, WatchdogSparesHealthyLoop, vars
<1>. QED
  BY <1>1, <1>2, <1>3, <1>4, <1>5, <1>6, <1>7, <1>8, <1>9, <1>10, <1>11 DEF Next

(* When HEARTBEAT_STALE_MS covers the longest sleep of the success path    *)
(* and the longest leg of a scan, the watchdog never ends a loop whose     *)
(* last scan succeeded and in whose present scan nothing hangs.            *)
THEOREM HealthyLoopIsSpared ==
  ASSUME AllowanceFits
  PROVE  Spec => []WatchdogSparesHealthyLoop
<1>1. Init => HeartbeatInv
  <2>1. "flow" \in Leg /\ Budget \in [Leg -> Nat] /\ None # "watchdog"
    BY DaemonAssumption DEF Leg
  <2>2. Budget["flow"] \in Nat /\ 0 <= Budget["flow"]
    BY <2>1
  <2>. QED  BY <2>1, <2>2, SleepLength DEF Init, HeartbeatInv, WatchdogSparesHealthyLoop
<1>2. HeartbeatInv /\ [Next]_vars => HeartbeatInv'
  BY AllowanceFits, HeartbeatInvStep
<1>3. HeartbeatInv => WatchdogSparesHealthyLoop
  BY DEF HeartbeatInv
<1>. QED  BY <1>1, <1>2, <1>3, PTL DEF Spec
(***************************************************************************)
(* Type correctness                                                        *)
(***************************************************************************)

(* Division rounds down and is monotone. *)
LEMMA DivisionBounds ==
  ASSUME NEW a \in Nat, NEW b \in Nat, a <= b, NEW j \in Nat \ {0}
  PROVE  a \div j \in Nat /\ a \div j <= a /\ a \div j <= b \div j
<1>1. PICK p \in Int, q \in Int : p = a \div j /\ q = b \div j
  OBVIOUS
<1>2. p * j <= a /\ a < p * j + j /\ q * j <= b /\ b < q * j + j
  BY <1>1
<1>3. p >= 0
  BY <1>2
<1>4. p <= p * j
  BY <1>3
<1>5. p <= q
  <2>1. SUFFICES ASSUME q + 1 <= p  PROVE FALSE
    OBVIOUS
  <2>2. (q + 1) * j <= p * j
    BY <2>1
  <2>3. (q + 1) * j = q * j + j
    OBVIOUS
  <2>. QED  BY <1>2, <2>2, <2>3
<1>. QED  BY <1>1, <1>2, <1>3, <1>4, <1>5

(* A jittered sleep of at most `longest` is natural and at most `longest`  *)
(* with its own jitter.                                                    *)
LEMMA JitterBounds ==
  ASSUME NEW delay \in Nat, NEW longest \in Nat, delay <= longest, NEW n \in Jittered(delay)
  PROVE  n \in Nat /\ n <= longest + Delta(longest)
<1>1. /\ delay \div JitterDiv \in Nat /\ delay \div JitterDiv <= delay
      /\ delay \div JitterDiv <= longest \div JitterDiv
      /\ longest \div JitterDiv \in Nat
  BY DaemonAssumption, DivisionBounds
<1>. HIDE DEF Delta
<1>2. Delta(delay) \in Nat /\ Delta(delay) <= delay /\ Delta(delay) <= Delta(longest) /\ Delta(longest) \in Nat
  BY <1>1 DEF Delta
<1>. QED  BY <1>2 DEF Jittered

LEMMA BackoffBounds ==
  ASSUME NEW k \in Nat
  PROVE  Backoff(k) \in Nat /\ Backoff(k) <= maxBackoffMs
<1>1. 2 ^ k \in Nat
  BY PowerOfTwo
<1>2. intervalMs * 2 ^ k \in Nat /\ maxBackoffMs \in Nat
  BY <1>1, DaemonAssumption
<1>. QED  BY <1>2 DEF Backoff

LEMMA LoopExit ==
  ASSUME TypeOK, pc # "exited", NEW why \in {"shutdown", "killed", "sigkilled", "watchdog"}, Exit(why)
  PROVE  TypeOK'
BY DaemonAssumption DEF TypeOK, Exit, flag

LEMMA LoopSignal ==
  ASSUME TypeOK, signals < MaxSignals, Signal
  PROVE  /\ flagged' \in BOOLEAN /\ armed' \in BOOLEAN /\ woken' \in BOOLEAN /\ owed' \in BOOLEAN
         /\ signals' \in 0 .. MaxSignals
<1>1. signals' \in 0 .. MaxSignals
  BY DaemonAssumption DEF TypeOK, Signal
<1>2. flagged' \in BOOLEAN /\ armed' \in BOOLEAN /\ woken' \in BOOLEAN /\ owed' \in BOOLEAN
  BY DEF TypeOK, Signal
<1>. QED  BY <1>1, <1>2

LEMMA LoopEndScan ==
  ASSUME TypeOK, EndScan
  PROVE  TypeOK'
<1>1. /\ errors' \in 0 .. MaxErrors
      /\ age' \in 0 .. heartbeatStaleMs + watchdogIntervalMs + 1
      /\ nap' \in Nat
      /\ nap' <= intervalMs + Delta(intervalMs) \/ nap' <= maxBackoffMs + Delta(maxBackoffMs)
  <2>1. CASE Succeeded
    <3>1. nap' \in Nat /\ nap' <= intervalMs + Delta(intervalMs)
      BY <2>1, DaemonAssumption, JitterBounds DEF Succeeded
    <3>. QED  BY <2>1, <3>1, DaemonAssumption DEF Succeeded
  <2>2. CASE Failed
    <3>1. errors' \in 0 .. MaxErrors /\ errors' \in Nat
      BY <2>2, DaemonAssumption DEF Failed, TypeOK
    <3>2. Backoff(errors') \in Nat /\ Backoff(errors') <= maxBackoffMs /\ maxBackoffMs \in Nat
      BY <3>1, BackoffBounds, DaemonAssumption
    <3>3. nap' \in Jittered(Backoff(errors'))
      BY <2>2 DEF Failed
    <3>4. nap' \in Nat /\ nap' <= maxBackoffMs + Delta(maxBackoffMs)
      BY <3>2, <3>3, JitterBounds
    <3>. QED  BY <2>2, <3>1, <3>4 DEF Failed, TypeOK
  <2>. QED  BY <2>1, <2>2 DEF EndScan
<1>2. flagged' \in BOOLEAN /\ armed' \in BOOLEAN /\ woken' \in BOOLEAN
  BY DEF EndScan, Wait, TypeOK
<1>3. /\ leg' \in [Leg -> {"running", "ok", "error"}] /\ hung' \in SUBSET Leg /\ took' = 0
      /\ pc = "scan" /\ pc' = "sleep" /\ exit' = exit
      /\ aborted' = aborted /\ owed' = owed /\ signals' = signals
  BY DEF EndScan, ScanOver, TypeOK
<1>. QED  BY <1>1, <1>2, <1>3 DEF TypeOK

LEMMA LoopTick ==
  ASSUME TypeOK, Tick
  PROVE  TypeOK'
<1>1. age' \in 0 .. heartbeatStaleMs + watchdogIntervalMs + 1
  BY DaemonAssumption DEF Tick, WatchdogDue, TypeOK
<1>2. /\ nap' \in Nat
      /\ nap' <= intervalMs + Delta(intervalMs) \/ nap' <= maxBackoffMs + Delta(maxBackoffMs)
  <2>1. CASE pc = "sleep"
    <3>1. nap # 0 /\ nap' = nap - 1 /\ nap \in Nat
      BY <2>1 DEF Tick, SleepOver, TypeOK
    <3>2. /\ intervalMs + Delta(intervalMs) \in Int
          /\ maxBackoffMs + Delta(maxBackoffMs) \in Int
      BY DaemonAssumption DEF Delta
    <3>. QED  BY <3>1, <3>2 DEF TypeOK
  <2>2. CASE pc # "sleep"
    BY <2>2 DEF Tick, TypeOK
  <2>. QED  BY <2>1, <2>2
<1>3. took' \in Nat /\ aborted' \in Nat \cup {None}
  BY DEF Tick, TypeOK
<1>4. UNCHANGED <<pc, exit, leg, hung, errors, flagged, armed, woken, owed, signals>>
  BY DEF Tick, flag
<1>. QED  BY <1>1, <1>2, <1>3, <1>4 DEF TypeOK

LEMMA LoopNext == TypeOK /\ [Next]_vars => TypeOK'
<1> SUFFICES ASSUME TypeOK, [Next]_vars  PROVE TypeOK'
  OBVIOUS
<1>1. ASSUME NEW l \in Leg, NEW outcome \in {"ok", "error"}, NEW progress \in BOOLEAN,
             Settle(l, outcome, progress)
      PROVE  TypeOK'
  <2>1. leg' \in [Leg -> {"running", "ok", "error"}]
    BY <1>1 DEF Settle, TypeOK
  <2>2. /\ flagged' \in BOOLEAN /\ armed' \in BOOLEAN /\ woken' \in BOOLEAN /\ owed' \in BOOLEAN
        /\ signals' \in 0 .. MaxSignals
    <3>1. CASE signals < MaxSignals /\ Signal
      BY <3>1, LoopSignal
    <3>2. CASE UNCHANGED <<flag, owed, signals>>
      BY <3>2 DEF flag, TypeOK
    <3>. QED  BY <1>1, <3>1, <3>2 DEF Settle
  <2>3. UNCHANGED <<pc, exit, took, hung, errors, nap, age, aborted>>
    BY <1>1 DEF Settle
  <2>. QED  BY <2>1, <2>2, <2>3 DEF TypeOK
<1>2. ASSUME NEW l \in Leg, Hang(l)  PROVE TypeOK'
  BY <1>2 DEF TypeOK, Hang, flag
<1>3. CASE EndScan
  BY <1>3, LoopEndScan
<1>4. CASE Shutdown
  <2>1. pc # "exited" /\ pc' = "returned"
    BY <1>4 DEF Shutdown, ScanOver
  <2>2. UNCHANGED <<exit, leg, took, hung, errors, nap, age, flagged, armed, woken, aborted, owed, signals>>
    BY <1>4 DEF Shutdown, flag
  <2>. QED  BY <2>1, <2>2 DEF TypeOK
<1>5. CASE Wake
  <2>1. nap' = 0 /\ owed' = FALSE /\ pc = "sleep" /\ pc' = "scan"
    BY <1>5 DEF Wake, SleepOver
  <2>2. 0 <= intervalMs + Delta(intervalMs)
    <3>1. Delta(intervalMs) \in Nat
      BY DaemonAssumption, DivisionBounds DEF Delta
    <3>. QED  BY <3>1, DaemonAssumption
  <2>3. UNCHANGED <<exit, took, hung, errors, age, flagged, armed, woken, aborted, signals>>
    BY <1>5 DEF Wake, flag
  <2>4. leg' \in [Leg -> {"running", "ok", "error"}]
    BY <1>5 DEF Wake, Pending
  <2>. QED  BY <2>1, <2>2, <2>3, <2>4 DEF TypeOK
<1>6. CASE Retry
  <2>1. /\ flagged' \in BOOLEAN /\ armed' \in BOOLEAN /\ woken' \in BOOLEAN /\ owed' \in BOOLEAN
        /\ signals' \in 0 .. MaxSignals
    BY <1>6, LoopSignal DEF Retry
  <2>. QED  BY <1>6, <2>1 DEF Retry, TypeOK
<1>7. CASE Abort
  <2>1. CASE aborted = None /\ aborted' = 0 /\
             UNCHANGED <<pc, exit, leg, took, hung, errors, nap, age, flag, owed, signals>>
    BY <2>1 DEF TypeOK, flag
  <2>2. CASE pc # "exited" /\ Exit("killed")
    BY <2>2, LoopExit
  <2>. QED  BY <1>7, <2>1, <2>2 DEF Abort
<1>8. CASE Watchdog
  BY <1>8, LoopExit DEF Watchdog
<1>9. CASE Tick
  BY <1>9, LoopTick
<1>10. CASE Drained \/ Kill
  BY <1>10, LoopExit DEF Drained, Kill
<1>11. CASE UNCHANGED vars
  BY <1>11 DEF vars, flag, TypeOK
<1>. QED
  BY <1>1, <1>2, <1>3, <1>4, <1>5, <1>6, <1>7, <1>8, <1>9, <1>10, <1>11 DEF Next

(* The loop's state stays well formed: a sleep is never longer than the    *)
(* interval or the capped backoff with its jitter, however many scans      *)
(* failed in a row, and the heartbeat of a live process is never older     *)
(* than the watchdog allows.                                               *)
THEOREM LoopTypeCorrect == Spec => []TypeOK
<1>1. Init => TypeOK
  <2>1. SUFFICES ASSUME Init  PROVE TypeOK
    OBVIOUS
  <2>2. 0 <= intervalMs + Delta(intervalMs) /\ 0 \in 0 .. heartbeatStaleMs + watchdogIntervalMs + 1
    <3>1. Delta(intervalMs) \in Nat
      BY DaemonAssumption, DivisionBounds DEF Delta
    <3>. QED  BY <3>1, DaemonAssumption
  <2>3. 0 \in 0 .. MaxErrors /\ 0 \in 0 .. MaxSignals
    BY DaemonAssumption
  <2>. QED  BY <2>1, <2>2, <2>3 DEF Init, TypeOK, Pending
<1>. QED  BY <1>1, LoopNext, PTL DEF Spec

=============================================================================
