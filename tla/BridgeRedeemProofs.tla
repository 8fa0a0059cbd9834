------------------------ MODULE BridgeRedeemProofs ------------------------
(* Proofs about the bridge leg for any number of VAAs and recipients, any  *)
(* page size and page limit, and any number and mix of faults.             *)
EXTENDS BridgeRedeem, TLAPS

(* recordSeen takes the larger of the watermark and the sequence. *)
LEMMA RecordSeenOne ==
  ASSUME NEW wm \in Nat, NEW s \in Nat
  PROVE  RecordSeen(wm, {s}) = IF s <= wm THEN wm ELSE s
<1>1. \E m \in {s} \cup {wm} : \A t \in {s} \cup {wm} : t <= m
  OBVIOUS
<1>. QED  BY <1>1 DEF RecordSeen

LEMMA RecordedType ==
  ASSUME TypeOK, NEW s \in Seq, NEW result
  PROVE  Recorded(result, s) \in 0 .. LastSeq
<1>1. watermark \in 0 .. LastSeq /\ s \in 1 .. LastSeq /\ LastSeq \in Nat
  BY BridgeAssumption DEF TypeOK, Seq
<1>2. RecordSeen(watermark, {s}) \in 0 .. LastSeq
  BY <1>1, RecordSeenOne
<1>. QED  BY <1>1, <1>2 DEF Recorded

ScanRecord ==
  [phase : {"idle", "paging", "prefetch", "redeeming"}, floor : 0 .. LastSeq,
   page : 0 .. MaxPages + 1, vaas : SUBSET Job]

LEMMA JobVaa ==
  ASSUME NEW j \in Job
  PROVE  vaa(j) \in Seq
BY DEF Job, vaa

LEMMA FreshTypes ==
  /\ NoScan \in ScanRecord /\ NoScan.phase = "idle"
  /\ [NoScan EXCEPT !.phase = "redeeming"] \in ScanRecord
  /\ [NoScan EXCEPT !.phase = "redeeming"].phase = "redeeming"
  /\ NoInfo \in [Job -> ItemState \cup {None}]
  /\ NoTask \in [Job -> {"none"}]
<1>1. 0 \in 0 .. LastSeq /\ 0 \in 0 .. MaxPages + 1
  BY BridgeAssumption
<1>. QED  BY <1>1 DEF NoScan, NoInfo, NoTask, ScanRecord

LEMMA FaultCount ==
  ASSUME TypeOK, (\E kind : Fault(kind)) \/ UNCHANGED faults
  PROVE  faults' \in 0 .. MaxFaults
<1>1. faults \in Nat /\ MaxFaults \in Nat /\ faults <= MaxFaults
  BY BridgeAssumption DEF TypeOK
<1>2. CASE UNCHANGED faults
  BY <1>1, <1>2
<1>3. CASE \E kind : Fault(kind)
  <2>1. faults < MaxFaults /\ faults' = faults + 1
    BY <1>3 DEF Fault
  <2>. QED  BY <1>1, <2>1
<1>. QED  BY <1>2, <1>3

TaskStep == {"none", "queued", "plan", "probe"} \cup TxStep

(* What the filters of the plan let through. *)
Acceptable(s) == Recipient[s] # "foreign"

(* A redeem past its plan, or a transaction of it still under way. *)
Committed(s) ==
  \/ \E j \in Job : vaa(j) = s /\ task[j] \in {"probe"} \cup TxStep
  \/ \E step \in TxStep : <<step, s>> \in late

(* The inductive invariant: paging stops at the page limit, and whoever is *)
(* past the filters of the plan is meant for this chain and its target is  *)
(* wired. That a target is wired is read once, at startup, and governance  *)
(* does not unregister it.                                                 *)
LegInv ==
  /\ TypeOK
  /\ scan.phase = "paging" => scan.page <= MaxPages
  /\ \A s \in Seq : Committed(s) => governed /\ Acceptable(s)

LEMMA LegInit == Init => LegInv
<1> SUFFICES ASSUME Init  PROVE LegInv
  OBVIOUS
<1>1. TypeOK
  <2>1. /\ target \in {"skipped", "unready", "ready"} /\ (target = "ready" => governed)
        /\ governed \in BOOLEAN
    BY DEF Init, ConfigReady
  <2>2. item \in [Seq -> ItemState] /\ watermark \in 0 .. LastSeq /\ faults \in 0 .. MaxFaults
    BY BridgeAssumption DEF Init, ItemState
  <2>. QED  BY <2>1, <2>2, FreshTypes DEF Init, TypeOK, ScanRecord
<1>2. \A s \in Seq : ~Committed(s)
  BY DEF Init, Committed, NoTask, TxStep
<1>. QED  BY <1>1, <1>2 DEF LegInv, Init, NoScan

(* What a plan commits to passed the filters. *)
LEMMA PlanFilters ==
  ASSUME LegInv, NEW s \in Seq, NEW seen, NEW early
  PROVE  /\ PlanOf(s, seen, early) \in {"noop", "error", "probe", "release"}
         /\ PlanOf(s, seen, early) \in {"probe", "release"} => governed /\ Acceptable(s)
<1>1. PlanOf(s, seen, early) \in {"noop", "error", "probe", "release"}
  BY DEF PlanOf
<1>2. CASE ~Actionable(s)
  BY <1>2 DEF PlanOf
<1>3. CASE Actionable(s)
  BY <1>1, <1>3 DEF Actionable, Acceptable, LegInv, TypeOK
<1>. QED  BY <1>1, <1>2, <1>3

(* What an end or a step of job j does to the jobs. *)
LEMMA FinishTypes ==
  ASSUME TypeOK, NEW j \in Job, NEW result, Finish(j, result)
  PROVE  /\ task' \in [Job -> TaskStep] /\ info' \in [Job -> ItemState \cup {None}]
         /\ watermark' \in 0 .. LastSeq /\ failed' \subseteq Seq
         /\ task'[j] = "none" /\ \A i \in Job : i # j => task'[i] = task[i]
BY RecordedType, JobVaa DEF Finish, TypeOK, TaskStep

LEMMA GotoTypes ==
  ASSUME TypeOK, NEW j \in Job, NEW step \in TaskStep, Goto(j, step)
  PROVE  /\ task' \in [Job -> TaskStep] /\ info' \in [Job -> ItemState \cup {None}]
         /\ watermark' \in 0 .. LastSeq /\ failed' \subseteq Seq
         /\ task'[j] = step /\ \A i \in Job : i # j => task'[i] = task[i]
BY DEF Goto, TypeOK, TaskStep

(* What a transaction of s that lands does to the chain. *)
LEMMA LandsTypes ==
  ASSUME TypeOK, NEW s \in Seq,
         CreateAta(s) \/ PostVaa(s) \/ Redeem(s) \/ Release(s) \/ UNCHANGED chain
  PROVE  item' \in [Seq -> ItemState] /\ ata' \subseteq Seq /\ posted' \subseteq Seq
<1>1. CASE CreateAta(s) \/ PostVaa(s) \/ UNCHANGED chain
  BY <1>1 DEF CreateAta, PostVaa, chain, TypeOK
<1>2. CASE Redeem(s)
  BY <1>2 DEF Redeem, TypeOK, ItemState
<1>3. CASE Release(s)
  BY <1>3 DEF Release, TypeOK, ItemState
<1>. QED  BY <1>1, <1>2, <1>3

(* A step of job j: it ends, or goes on past the filters. *)
LEMMA LegTask ==
  ASSUME LegInv, NEW j \in Job,
         task' \in [Job -> TaskStep], info' \in [Job -> ItemState \cup {None}],
         watermark' \in 0 .. LastSeq, failed' \subseteq Seq,
         \A i \in Job : i # j => task'[i] = task[i],
         task'[j] = "none" \/ (governed /\ Acceptable(vaa(j))),
         item' \in [Seq -> ItemState], ata' \subseteq Seq, posted' \subseteq Seq,
         faults' \in 0 .. MaxFaults,
         late' = late \/ (governed /\ Acceptable(vaa(j)) /\ \E step \in TxStep : late' = late \cup {<<step, vaa(j)>>}),
         UNCHANGED <<visible, governed, target, scan, aborted>>
  PROVE  LegInv'
<1>0. vaa(j) \in Seq
  BY JobVaa
<1>1. late' \subseteq TxStep \X Seq
  BY <1>0 DEF LegInv, TypeOK
<1>2. TypeOK'
  BY <1>1 DEF LegInv, TypeOK, TaskStep
<1>3. ASSUME NEW t \in Seq, Committed(t)'  PROVE governed' /\ Acceptable(t)
  <2>1. CASE t = vaa(j)
    <3>1. CASE governed /\ Acceptable(vaa(j))
      BY <2>1, <3>1
    <3>2. CASE ~(governed /\ Acceptable(vaa(j)))
      <4>1. task'[j] = "none" /\ late' = late
        BY <3>2
      <4>2. Committed(vaa(j))
        BY <1>3, <2>1, <4>1 DEF Committed, TxStep
      <4>. QED  BY <1>0, <3>2, <4>2 DEF LegInv
    <3>. QED  BY <3>1, <3>2
  <2>2. CASE t # vaa(j)
    <3>1. Committed(t)
      BY <1>3, <2>2 DEF Committed
    <3>. QED  BY <3>1 DEF LegInv
  <2>. QED  BY <2>1, <2>2
<1>. QED  BY <1>2, <1>3 DEF LegInv, Acceptable

LEMMA LegPlan ==
  ASSUME LegInv, NEW j \in Job, Plan(j)
  PROVE  LegInv'
<1>1. PICK seen, early : Planned(j, seen, early)
  BY DEF Plan
<1>2. /\ item' = item /\ ata' = ata /\ posted' = posted /\ late' = late
      /\ UNCHANGED <<visible, governed, target, scan, aborted>>
      /\ (\E kind : Fault(kind)) \/ UNCHANGED faults
  BY DEF Plan
<1>a. faults' \in 0 .. MaxFaults
  BY <1>2, FaultCount DEF LegInv
<1> DEFINE plan == PlanOf(vaa(j), seen, early)
<1>3. /\ plan \in {"noop", "error", "probe", "release"}
      /\ plan \in {"probe", "release"} => governed /\ Acceptable(vaa(j))
  BY PlanFilters, JobVaa
<1> HIDE DEF plan
<1>4. CASE plan \in {"noop", "error"}
  <2>1. Finish(j, plan)
    BY <1>1, <1>4 DEF Planned, plan
  <2>. QED  BY <1>2, <1>a, <2>1, FinishTypes, LegTask DEF LegInv, TypeOK
<1>5. CASE plan \in {"probe", "release"}
  <2>1. Goto(j, plan) /\ plan \in TaskStep
    BY <1>1, <1>5 DEF Planned, plan, TaskStep, TxStep
  <2>. QED  BY <1>2, <1>a, <1>3, <1>5, <2>1, GotoTypes, LegTask DEF LegInv, TypeOK
<1>. QED  BY <1>3, <1>4, <1>5

(* The steps after the plan. *)
LEMMA LegStep ==
  ASSUME LegInv, NEW j \in Job,
         \/ Probe(j) \/ EnsureRecipientAta(j) \/ SubmitPost(j) \/ SubmitRedeem(j)
         \/ SubmitRelease(j) \/ Aborts(j) \/ Timeout(j)
  PROVE  LegInv'
<1>1. task[j] \in {"probe"} \cup TxStep
  BY DEF Probe, EnsureRecipientAta, SubmitPost, SubmitRedeem, SubmitRelease, Aborts, Timeout, TxStep
<1>2. governed /\ Acceptable(vaa(j))
  BY <1>1, JobVaa DEF LegInv, Committed
<1>3. (\E result : Finish(j, result)) \/ (\E step \in TaskStep : Goto(j, step))
  <2>1. CASE Probe(j)
    BY <2>1 DEF Probe, TaskStep, TxStep
  <2>2. CASE EnsureRecipientAta(j) \/ SubmitPost(j)
    BY <2>2 DEF EnsureRecipientAta, SubmitPost, TaskStep, TxStep
  <2>3. CASE SubmitRedeem(j) \/ SubmitRelease(j) \/ Aborts(j) \/ Timeout(j)
    BY <2>3 DEF SubmitRedeem, SubmitRelease, Aborts, Timeout
  <2>. QED  BY <2>1, <2>2, <2>3
<1>4. /\ task' \in [Job -> TaskStep] /\ info' \in [Job -> ItemState \cup {None}]
      /\ watermark' \in 0 .. LastSeq /\ failed' \subseteq Seq
      /\ \A i \in Job : i # j => task'[i] = task[i]
  BY <1>3, FinishTypes, GotoTypes DEF LegInv
<1>5. CreateAta(vaa(j)) \/ PostVaa(vaa(j)) \/ Redeem(vaa(j)) \/ Release(vaa(j)) \/ UNCHANGED chain
  BY DEF Probe, EnsureRecipientAta, SubmitPost, SubmitRedeem, SubmitRelease, Aborts, Timeout, chain
<1>6. item' \in [Seq -> ItemState] /\ ata' \subseteq Seq /\ posted' \subseteq Seq
  BY <1>5, LandsTypes, JobVaa DEF LegInv
<1>7. faults' \in 0 .. MaxFaults /\ UNCHANGED <<visible, governed, target, scan, aborted>>
  BY BridgeAssumption DEF Probe, EnsureRecipientAta, SubmitPost, SubmitRedeem, SubmitRelease,
       Aborts, Timeout, Fault, LegInv, TypeOK
<1>8. late' = late \/ \E step \in TxStep : late' = late \cup {<<step, vaa(j)>>}
  BY DEF Probe, EnsureRecipientAta, SubmitPost, SubmitRedeem, SubmitRelease, Aborts, Timeout
<1>. QED  BY <1>2, <1>4, <1>6, <1>7, <1>8, LegTask

LEMMA PageType ==
  ASSUME TypeOK, NEW k
  PROVE  PageOf(visible, k) \subseteq Seq
BY DEF PageOf, TypeOK

(* The scan's own steps leave the tasks past their plan alone. *)
LEMMA LegScans ==
  ASSUME LegInv, Scans \/ FetchFails
  PROVE  LegInv'
<1>1. CASE StartScan
  <2>1. PagingFloor(watermark) \in 0 .. LastSeq
    BY BridgeAssumption, WatermarksAssumption DEF PagingFloor, LegInv, TypeOK
  <2>2. scan' = [phase |-> "paging", floor |-> PagingFloor(watermark), page |-> 0, vaas |-> {}]
    BY <1>1 DEF StartScan, NoScan
  <2>3. scan'.phase = "paging" => scan'.page <= MaxPages
    BY <2>2, BridgeAssumption
  <2>4. TypeOK'
    BY <1>1, <2>1, <2>2, BridgeAssumption DEF StartScan, LegInv, TypeOK
  <2>. QED  BY <1>1, <2>3, <2>4 DEF StartScan, LegInv, Committed, Acceptable
<1>2. CASE FetchPage
  <2>1. PageOf(visible, scan.page) \subseteq Seq
    BY PageType DEF LegInv
  <2>2. scan.page \in 0 .. MaxPages /\ MaxPages \in Nat
    BY <1>2, BridgeAssumption DEF FetchPage, LegInv, TypeOK
  <2>3. /\ scan' \in [phase : {"idle", "paging", "prefetch", "redeeming"}, floor : 0 .. LastSeq,
                      page : 0 .. MaxPages + 1, vaas : SUBSET Job]
        /\ scan'.phase = "paging" => scan'.page <= MaxPages
    <3> DEFINE page == PageOf(visible, scan.page)
               end == scan.page >= MaxPages \/ aborted \/ IsPageBelowFloor(scan.floor, page)
               vaas == IF scan.page >= MaxPages \/ aborted THEN scan.vaas
                       ELSE scan.vaas \cup ({scan.page} \X page)
    <3>1. /\ scan \in ScanRecord /\ scan.phase = "paging"
          /\ scan' = [scan EXCEPT !.phase = IF end THEN "prefetch" ELSE @, !.page = @ + 1,
                                  !.vaas = IF scan.page >= MaxPages \/ aborted THEN @
                                           ELSE @ \cup ({scan.page} \X page)]
      BY <1>2 DEF FetchPage, LegInv, TypeOK, ScanRecord
    <3>2. vaas \in SUBSET Job /\ (end \/ scan.page < MaxPages)
      BY <2>1, <2>2, <3>1 DEF ScanRecord, Job
    <3> HIDE DEF page, end
    <3>3. /\ scan'.phase = (IF end THEN "prefetch" ELSE "paging") /\ scan'.page = scan.page + 1
          /\ scan'.vaas = vaas /\ scan'.floor = scan.floor
          /\ scan' = [phase |-> scan'.phase, floor |-> scan'.floor, page |-> scan'.page, vaas |-> scan'.vaas]
      BY <3>1 DEF ScanRecord
    <3> HIDE DEF vaas
    <3>4. scan.page + 1 \in 0 .. MaxPages + 1 /\ scan.floor \in 0 .. LastSeq
      BY <2>2, <3>1 DEF ScanRecord
    <3>5. scan'.phase \in {"idle", "paging", "prefetch", "redeeming"}
      BY <3>3
    <3>6. scan'.phase = "paging" => scan'.page <= MaxPages
      BY <2>2, <3>2, <3>3
    <3>. QED  BY <3>2, <3>3, <3>4, <3>5, <3>6
  <2>4. TypeOK'
    BY <1>2, <2>3 DEF FetchPage, LegInv, TypeOK
  <2>. QED  BY <1>2, <2>3, <2>4 DEF FetchPage, LegInv, Committed, Acceptable
<1>3. CASE FetchFails
  <2>1. /\ scan' \in [phase : {"idle", "paging", "prefetch", "redeeming"}, floor : 0 .. LastSeq,
                      page : 0 .. MaxPages + 1, vaas : SUBSET Job]
        /\ scan'.phase = "prefetch"
    BY <1>3 DEF FetchFails, LegInv, TypeOK
  <2>a. faults' \in 0 .. MaxFaults
    BY <1>3, FaultCount DEF FetchFails, LegInv
  <2>2. TypeOK'
    BY <1>3, <2>1, <2>a DEF FetchFails, LegInv, TypeOK
  <2>. QED  BY <1>3, <2>1, <2>2 DEF FetchFails, LegInv, Committed, Acceptable
<1>4. CASE Prefetch
  <2>1. /\ scan' \in ScanRecord /\ scan'.phase = "redeeming"
        /\ task' = [j \in Job |-> IF j \in scan.vaas THEN "queued" ELSE "none"]
    BY <1>4, FreshTypes DEF Prefetch
  <2>a. info' \in [Job -> ItemState \cup {None}]
    BY <1>4, FreshTypes, JobVaa DEF Prefetch, LegInv, TypeOK
  <2>b. faults' \in 0 .. MaxFaults
    BY <1>4, FaultCount DEF Prefetch, LegInv
  <2>2. TypeOK'
    BY <1>4, <2>1, <2>a, <2>b DEF Prefetch, LegInv, TypeOK, ScanRecord
  <2>3. \A s \in Seq : Committed(s)' => Committed(s)
    BY <1>4, <2>1 DEF Prefetch, Committed, TxStep
  <2>. QED  BY <1>4, <2>1, <2>2, <2>3 DEF Prefetch, LegInv, Acceptable
<1>5. ASSUME NEW j \in Job, Take(j)  PROVE LegInv'
  <2>1. TypeOK'
    BY <1>5 DEF Take, LegInv, TypeOK
  <2>2. \A t \in Seq : Committed(t)' => Committed(t)
    BY <1>5 DEF Take, Committed, TxStep, LegInv, TypeOK
  <2>. QED  BY <1>5, <2>1, <2>2 DEF Take, LegInv, Acceptable
<1>6. CASE EndScan
  <2>1. TypeOK'
    BY <1>6, FreshTypes DEF EndScan, LegInv, TypeOK, ScanRecord
  <2>2. \A t \in Seq : Committed(t)' => Committed(t)
    BY <1>6 DEF EndScan, NoTask, Committed, TxStep
  <2>. QED  BY <1>6, <2>1, <2>2 DEF EndScan, NoScan, LegInv, Acceptable
<1>. QED  BY <1>1, <1>2, <1>3, <1>4, <1>5, <1>6 DEF Scans

(* The other actors: the chain moves, nothing is committed. *)
LEMMA LegOthers ==
  ASSUME LegInv,
         \/ \E s \in Seq : Index(s) \/ OtherRelayer(s) \/ Elapse(s)
         \/ \E s \in Seq, step \in TxStep : Late(step, s)
         \/ Govern \/ Abort
  PROVE  LegInv'
<1>1. ASSUME NEW s \in Seq, Index(s)  PROVE LegInv'
  BY <1>1 DEF Index, LegInv, TypeOK, Committed, Acceptable
<1>2. ASSUME NEW s \in Seq, OtherRelayer(s) \/ Elapse(s)  PROVE LegInv'
  <2>1. item' \in [Seq -> ItemState] /\ ata' \subseteq Seq /\ posted' \subseteq Seq
    <3>1. CASE OtherRelayer(s) /\ Release(s)
      BY <3>1, LandsTypes DEF LegInv
    <3>2. CASE OtherRelayer(s) /\ ~Release(s)
      BY <3>2 DEF OtherRelayer, LegInv, TypeOK, ItemState
    <3>3. CASE Elapse(s)
      BY <3>3 DEF Elapse, LegInv, TypeOK, ItemState
    <3>. QED  BY <1>2, <3>1, <3>2, <3>3
  <2>2. TypeOK'
    BY <1>2, <2>1 DEF OtherRelayer, Elapse, LegInv, TypeOK
  <2>3. UNCHANGED <<governed, scan, task, late>>
    BY <1>2 DEF OtherRelayer, Elapse
  <2>. QED  BY <2>2, <2>3 DEF LegInv, Committed, Acceptable
<1>3. ASSUME NEW s \in Seq, NEW step \in TxStep, Late(step, s)  PROVE LegInv'
  <2>1. CreateAta(s) \/ PostVaa(s) \/ Redeem(s) \/ Release(s) \/ UNCHANGED chain
    BY <1>3 DEF Late, Lands, TxStep
  <2>2. item' \in [Seq -> ItemState] /\ ata' \subseteq Seq /\ posted' \subseteq Seq
    BY <2>1, LandsTypes DEF LegInv
  <2>3. TypeOK'
    BY <1>3, <2>2 DEF Late, LegInv, TypeOK
  <2>. QED  BY <1>3, <2>3 DEF Late, LegInv, Committed, Acceptable
<1>4. CASE Govern
  <2>1. TypeOK'
    BY <1>4 DEF Govern, LegInv, TypeOK
  <2>. QED  BY <1>4, <2>1 DEF Govern, LegInv, Committed, Acceptable
<1>5. CASE Abort
  <2>1. faults' \in 0 .. MaxFaults
    BY <1>5, FaultCount DEF Abort, LegInv
  <2>2. TypeOK'
    BY <1>5, <2>1 DEF Abort, LegInv, TypeOK
  <2>. QED  BY <1>5, <2>2 DEF Abort, LegInv, Committed, Acceptable
<1>. QED  BY <1>1, <1>2, <1>3, <1>4, <1>5

(* The next process: what was under way stays committed. *)
LEMMA LegReborn ==
  ASSUME LegInv, Restart \/ Crash \/ ProbeFails
  PROVE  LegInv'
<1>1. /\ target' \in {"skipped", "unready", "ready"}
      /\ target' = "ready" => governed
      /\ faults' \in 0 .. MaxFaults
      /\ Reborn
  <2>1. CASE Restart
    BY <2>1 DEF Restart, ConfigReady, LegInv, TypeOK
  <2>2. CASE Crash
    BY <2>2, BridgeAssumption DEF Crash, Fault, ConfigReady, LegInv, TypeOK
  <2>3. CASE ProbeFails
    BY <2>3, BridgeAssumption DEF ProbeFails, Fault, LegInv, TypeOK
  <2>. QED  BY <2>1, <2>2, <2>3
<1>2. watermark' \in 0 .. LastSeq
  BY <1>1, BridgeAssumption DEF Reborn, LegInv, TypeOK
<1>3. TypeOK'
  <2>1. late' \subseteq TxStep \X Seq
    BY <1>1, JobVaa DEF Reborn, LegInv, TypeOK
  <2>2. task' \in [Job -> TaskStep]
    BY <1>1, FreshTypes DEF Reborn, TaskStep
  <2>. QED  BY <1>1, <1>2, <2>1, <2>2, FreshTypes DEF Reborn, LegInv, TypeOK, ScanRecord, TaskStep
<1>4. \A s \in Seq : Committed(s)' => Committed(s)
  BY <1>1 DEF Reborn, NoTask, Committed, TxStep
<1>. QED  BY <1>1, <1>3, <1>4 DEF Reborn, NoScan, LegInv, Acceptable

LEMMA LegNext == LegInv /\ [Next]_vars => LegInv'
<1> SUFFICES ASSUME LegInv, [Next]_vars  PROVE LegInv'
  OBVIOUS
<1>1. CASE UNCHANGED vars
  BY <1>1 DEF vars, LegInv, TypeOK, Committed, Acceptable
<1>. QED
  BY <1>1, LegPlan, LegStep, LegScans, LegOthers, LegReborn DEF Next, Step

(* The leg's state stays well formed: paging ends at the page limit, the   *)
(* watermark is one of the sequences and only a wired target is ready.     *)
THEOREM BridgeTypeCorrect == Spec => []TypeOK
<1>1. LegInv => TypeOK
  BY DEF LegInv
<1>. QED  BY <1>1, LegInit, LegNext, PTL DEF Spec

(* No transaction for another chain, or for a manager that does not know   *)
(* the source chain yet, is submitted or on its way, whatever the batch    *)
(* read missed, whichever transaction timed out and whenever the process   *)
(* stopped (the filters of planBridgeRedeem).                              *)
THEOREM NothingDoomedIsSent == Spec => []NoDoomedTx
<1>1. LegInv => NoDoomedTx
  BY DEF LegInv, Committed, NoDoomedTx, UnderWay, Acceptable
<1>. QED  BY <1>1, LegInit, LegNext, PTL DEF Spec

=============================================================================
