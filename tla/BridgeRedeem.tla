---------------------------- MODULE BridgeRedeem ----------------------------
(***************************************************************************)
(* The cranker's bridge leg of one target: VAAs that the relayer's `send`  *)
(* and `refund` emit on Solana are paged out of Wormholescan and redeemed  *)
(* on FOGO, where NTT releases the tokens to the wallet.                   *)
(*                                                                         *)
(* A scan harvests its pages, reads all inbox items in one batch and then  *)
(* plans and submits VAA by VAA with bounded concurrency. Between a read   *)
(* and the transaction it leads to, the generic relayer may redeem or      *)
(* release the same VAA, a rate-limit delay may run out, a transaction may *)
(* time out and still land later, and the process may stop or die between  *)
(* the transactions of one redeem. What it did not finish is only found    *)
(* again through the watermark's paging window: this leg has no backstop.  *)
(* A submitted VAA wakes the daemon (Signal of module Daemon).             *)
(***************************************************************************)
EXTENDS Watermarks

CONSTANTS
  LastSeq,              \* bound: VAAs the emitter publishes
  MaxPages,             \* wormholescanMaxPages
  maxConcurrentRedeems,
  Recipient,            \* what each VAA is addressed to
  Disorder,             \* how far behind the newest VAA a late one may be indexed
  None,
  FaultKinds,           \* what may go wrong in this instance
  MaxFaults             \* bound: how often something goes wrong

Seq == 1 .. LastSeq

(* A job is a VAA on the page it was harvested from. Pages are harvested   *)
(* one after the other and never compared: when a new VAA shifts the list  *)
(* meanwhile, one VAA makes two jobs of the scan.                          *)
Job == (0 .. MaxPages - 1) \X Seq
vaa(j) == j[2]

ASSUME BridgeAssumption ==
  /\ LastSeq \in Nat /\ MaxPages \in Nat /\ maxConcurrentRedeems \in Nat \ {0}
  /\ Disorder \in Nat /\ MaxFaults \in Nat
  /\ Recipient \in [Seq -> {"wallet", "offcurve", "foreign"}]
  /\ FaultKinds \subseteq {"probe", "fetch", "read", "skew", "timeout", "abort", "crash"}

(* The NTT inbox item of a VAA on the destination chain. *)
ItemState == {"absent", "gated", "due", "released"}

(* The transactions a task submits, by the step that waits for them. *)
TxStep == {"ata", "post", "redeem", "release"}

VARIABLES
  visible,   \* VAAs Wormholescan lists
  watermark, \* highest sequence recorded
  governed,  \* peer, transceiver and rate limit are registered on FOGO
  target,    \* what the startup probe made of the target
  item,      \* NTT inbox item of each VAA
  ata,       \* VAAs whose recipient has a token account
  posted,    \* VAAs posted to the Wormhole core bridge
  scan,      \* the running scan
  info,      \* its prefetched inbox items, by job
  task,      \* where each job is
  failed,    \* history: VAAs whose last redeem ended in an error
  late,      \* transactions whose sender has stopped waiting
  aborted,   \* abortSignal.aborted
  faults     \* faults so far

chain == <<item, ata, posted>>
vars == <<visible, watermark, governed, target, item, ata, posted, scan, info, task, failed, late, aborted, faults>>

NoScan == [phase |-> "idle", floor |-> 0, page |-> 0, vaas |-> {}]
NoTask == [j \in Job |-> "none"]
NoInfo == [j \in Job |-> None]

Fault(kind) ==
  /\ kind \in FaultKinds
  /\ faults < MaxFaults
  /\ faults' = faults + 1

(* buildSolana{Onyc,Usdc}ToFogoTarget: the config account has to be there  *)
(* (or the target is skipped for the life of the process); configReady     *)
(* says whether governance has wired the source chain, and is not probed   *)
(* again.                                                                  *)
ProbeIgnored(wired) == "ready"   \* mutation: missing accounts do not matter
ConfigReady(wired) == IF wired THEN "ready" ELSE "unready"

Init ==
  /\ visible = {}
  /\ watermark = 0
  /\ governed \in BOOLEAN
  /\ target = ConfigReady(governed)
  /\ item = [s \in Seq |-> "absent"]
  /\ ata = {}
  /\ posted = {}
  /\ scan = NoScan
  /\ info = NoInfo
  /\ task = NoTask
  /\ failed = {}
  /\ late = {}
  /\ aborted = FALSE
  /\ faults = 0

-----------------------------------------------------------------------------
(* FOGO (external): what a transaction does when it lands. A failed one    *)
(* changes nothing.                                                        *)

CreateAta(s) == ata' = ata \cup {s} /\ UNCHANGED <<item, posted>>

PostVaa(s) == posted' = posted \cup {s} /\ UNCHANGED <<item, ata>>

(* receive_message, redeem and release in one transaction. The release     *)
(* needs the token account, and does nothing while the rate limit delays   *)
(* it.                                                                     *)
RedeemOk(s) == governed /\ item[s] = "absent" /\ s \in posted /\ s \in ata
Redeem(s) ==
  /\ RedeemOk(s)
  /\ \E after \in {"gated", "released"} : item' = [item EXCEPT ![s] = after]
  /\ UNCHANGED <<ata, posted>>

(* The release-only transaction creates the token account itself.          *)
ReleaseOk(s) == item[s] \in {"gated", "due"}
Release(s) ==
  /\ ReleaseOk(s)
  /\ item' = [item EXCEPT ![s] = IF @ = "due" THEN "released" ELSE @]
  /\ ata' = ata \cup {s}
  /\ UNCHANGED posted

Lands(step, s) ==
  CASE step = "ata"     -> CreateAta(s)
    [] step = "post"    -> PostVaa(s)
    [] step = "redeem"  -> Redeem(s)
    [] step = "release" -> Release(s)

(* Others: Wormholescan indexes, the generic relayer redeems and releases, *)
(* delays run out, governance registers the source chain.                  *)
Index(s) ==
  /\ s \notin visible
  /\ \A t \in visible : t <= s + Disorder
  /\ visible' = visible \cup {s}
  /\ UNCHANGED <<watermark, governed, target, item, ata, posted, scan, info, task, failed, late, aborted, faults>>

OtherRelayer(s) ==
  /\ Recipient[s] # "foreign"
  /\ governed
  /\ \/ /\ item[s] = "absent"
        /\ \E after \in {"gated", "due"} : item' = [item EXCEPT ![s] = after]
        /\ posted' = posted \cup {s}
        /\ UNCHANGED ata
     \/ item[s] = "due" /\ Release(s)
  /\ UNCHANGED <<visible, watermark, governed, target, scan, info, task, failed, late, aborted, faults>>

Elapse(s) ==
  /\ item[s] = "gated"
  /\ item' = [item EXCEPT ![s] = "due"]
  /\ UNCHANGED <<visible, watermark, governed, target, ata, posted, scan, info, task, failed, late, aborted, faults>>

Govern ==
  /\ ~governed
  /\ governed' = TRUE
  /\ UNCHANGED <<visible, watermark, target, item, ata, posted, scan, info, task, failed, late, aborted, faults>>

(* A transaction whose sender gave up lands after all, or expires. Another *)
(* of the same kind may still be on its way.                               *)
Late(step, s) ==
  /\ <<step, s>> \in late
  /\ late' \in {late, late \ {<<step, s>>}}
  /\ Lands(step, s) \/ UNCHANGED chain
  /\ UNCHANGED <<visible, watermark, governed, target, scan, info, task, failed, aborted, faults>>

-----------------------------------------------------------------------------
(* The scan: harvest, batch read, bounded workers. *)

StartScan ==
  /\ scan.phase = "idle"
  /\ target # "skipped"
  /\ ~aborted
  /\ scan' = [NoScan EXCEPT !.phase = "paging", !.floor = PagingFloor(watermark)]
  /\ UNCHANGED <<visible, watermark, governed, target, item, ata, posted, info, task, failed, late, aborted, faults>>

(* harvestVaaPages: until a page is empty or below the floor, the page     *)
(* limit, or the abort signal.                                             *)
FetchPage ==
  LET page == PageOf(visible, scan.page)
      end == scan.page >= MaxPages \/ aborted \/ IsPageBelowFloor(scan.floor, page)
  IN  /\ scan.phase = "paging"
      /\ scan' = [scan EXCEPT !.phase = IF end THEN "prefetch" ELSE @, !.page = @ + 1,
                              !.vaas = IF scan.page >= MaxPages \/ aborted THEN @
                                       ELSE @ \cup ({scan.page} \X page)]
      /\ UNCHANGED <<visible, watermark, governed, target, item, ata, posted, info, task, failed, late, aborted, faults>>

FetchFails ==
  /\ scan.phase = "paging"
  /\ Fault("fetch")
  /\ scan' = [scan EXCEPT !.phase = "prefetch"]
  /\ UNCHANGED <<visible, watermark, governed, target, item, ata, posted, info, task, failed, late, aborted>>

(* One batch read of all inbox items; when it fails every VAA is left to   *)
(* its own read. The VAAs are then queued for the workers.                 *)
Prefetch ==
  /\ scan.phase = "prefetch"
  /\ \/ info' = [j \in Job |-> IF j \in scan.vaas THEN item[vaa(j)] ELSE None] /\ UNCHANGED faults
     \/ Fault("read") /\ info' = NoInfo
  /\ scan' = [NoScan EXCEPT !.phase = "redeeming"]
  /\ task' = [j \in Job |-> IF j \in scan.vaas THEN "queued" ELSE "none"]
  /\ UNCHANGED <<visible, watermark, governed, target, item, ata, posted, failed, late, aborted>>

Queued == { j \in Job : task[j] = "queued" }
Running == { j \in Job : task[j] \notin {"none", "queued"} }

(* runBounded: workers take the jobs in the order of the pages, and on a   *)
(* page the newest first.                                                  *)
Before(i, j) == i[1] < j[1] \/ (i[1] = j[1] /\ vaa(i) >= vaa(j))
Take(j) ==
  /\ j \in Queued /\ \A i \in Queued : Before(j, i)
  /\ Cardinality(Running) < maxConcurrentRedeems
  /\ ~aborted
  /\ task' = [task EXCEPT ![j] = "plan"]
  /\ UNCHANGED <<visible, watermark, governed, target, item, ata, posted, scan, info, failed, late, aborted, faults>>

EndScan ==
  /\ scan.phase = "redeeming"
  /\ Running = {}
  /\ Queued = {} \/ aborted
  /\ scan' = NoScan
  /\ task' = NoTask
  /\ UNCHANGED <<visible, watermark, governed, target, item, ata, posted, info, failed, late, aborted, faults>>

(* A task ends: everything but an error is recorded as seen. *)
Recorded(result, s) == IF result = "error" THEN watermark ELSE RecordSeen(watermark, {s})

Finish(j, result) ==
  /\ task' = [task EXCEPT ![j] = "none"]
  /\ info' = [info EXCEPT ![j] = None]
  /\ watermark' = Recorded(result, vaa(j))
  /\ failed' = IF result = "error" THEN failed \cup {vaa(j)} ELSE failed \ {vaa(j)}

Goto(j, step) ==
  /\ task' = [task EXCEPT ![j] = step]
  /\ info' = [info EXCEPT ![j] = None]
  /\ UNCHANGED <<watermark, failed>>

-----------------------------------------------------------------------------
(* planBridgeRedeem *)

(* The filters: a wired manager and a VAA addressed to this chain. *)
ForThisChain(s) == Recipient[s] # "foreign"   \* mutation: configReady is not looked at
Actionable(s) == target = "ready" /\ Recipient[s] # "foreign"

(* The plan for an inbox item that was read as `seen`. A delay is compared *)
(* with the local clock (early: it runs ahead of the chain's). The         *)
(* recipient's token account is derived for on-curve wallets only, which   *)
(* throws for any other, before either transaction is built.               *)
GatedForgotten(s, seen, early) ==   \* mutation: a delayed release is left for good
  IF ~Actionable(s) \/ seen \in {"released", "gated", "due"} THEN "noop"
  ELSE IF Recipient[s] = "offcurve" THEN "error" ELSE "probe"
PlanOf(s, seen, early) ==
  IF ~Actionable(s) \/ seen = "released" THEN "noop"
  ELSE IF seen = "gated" /\ item[s] = "gated" /\ ~early THEN "noop"
  ELSE IF Recipient[s] = "offcurve" THEN "error"
  ELSE IF seen = "absent" THEN "probe" ELSE "release"

Planned(j, seen, early) ==
  LET plan == PlanOf(vaa(j), seen, early)
  IN  IF plan \in {"noop", "error"} THEN Finish(j, plan) ELSE Goto(j, plan)

(* With the prefetched item, however old, or with a read of its own; a     *)
(* failed read counts as a missing item.                                   *)
Plan(j) ==
  LET seen == IF info[j] = None THEN item[vaa(j)] ELSE info[j]
  IN  /\ task[j] = "plan"
      /\ \/ Planned(j, seen, FALSE) /\ UNCHANGED faults
         \/ info[j] = None /\ Fault("read") /\ Planned(j, "absent", FALSE)
         \/ seen = "gated" /\ Fault("skew") /\ Planned(j, seen, TRUE)
      /\ UNCHANGED <<visible, governed, target, item, ata, posted, scan, late, aborted>>

(* executeSdkBundledRedeem *)

(* getIsExecuted; a failed probe is passed over. *)
Probe(j) ==
  /\ task[j] = "probe"
  /\ \/ item[vaa(j)] = "released" /\ Finish(j, "noop") /\ UNCHANGED faults
     \/ item[vaa(j)] # "released" /\ Goto(j, "ata") /\ UNCHANGED faults
     \/ item[vaa(j)] = "released" /\ Fault("read") /\ Goto(j, "ata")
  /\ UNCHANGED <<visible, governed, target, item, ata, posted, scan, late, aborted>>

EnsureRecipientAta(j) ==
  /\ task[j] = "ata"
  /\ CreateAta(vaa(j))
  /\ Goto(j, "post")
  /\ UNCHANGED <<visible, governed, target, scan, late, aborted, faults>>

(* The SDK's generator yields the transactions that are still missing; the *)
(* abort signal is looked at before each is sent.                          *)
Aborts(j) ==
  /\ task[j] \in {"post", "redeem"}
  /\ aborted
  /\ Finish(j, "noop")
  /\ UNCHANGED <<visible, governed, target, item, ata, posted, scan, late, aborted, faults>>

SubmitPost(j) ==
  /\ task[j] = "post"
  /\ vaa(j) \in posted \/ ~aborted
  /\ PostVaa(vaa(j))
  /\ Goto(j, "redeem")
  /\ UNCHANGED <<visible, governed, target, scan, late, aborted, faults>>

SubmitRedeem(j) ==
  /\ task[j] = "redeem"
  /\ ~aborted
  /\ \/ Redeem(vaa(j)) /\ Finish(j, "submitted")
     \/ ~RedeemOk(vaa(j)) /\ UNCHANGED chain /\ Finish(j, "error")
  /\ UNCHANGED <<visible, governed, target, scan, late, aborted, faults>>

(* executeBridgePlan of a release-only plan *)
SubmitRelease(j) ==
  /\ task[j] = "release"
  /\ \/ Release(vaa(j)) /\ Finish(j, "submitted")
     \/ ~ReleaseOk(vaa(j)) /\ UNCHANGED chain /\ Finish(j, "error")
  /\ UNCHANGED <<visible, governed, target, scan, late, aborted, faults>>

(* withTimeout, or a failed submission: an error either way; the           *)
(* transaction may be on its way.                                          *)
Timeout(j) ==
  /\ task[j] \in TxStep
  /\ Fault("timeout")
  /\ late' = late \cup {<<task[j], vaa(j)>>}
  /\ Finish(j, "error")
  /\ UNCHANGED <<visible, governed, target, item, ata, posted, scan, aborted>>

-----------------------------------------------------------------------------
(* Shutdown and crash. *)

Abort ==
  /\ ~aborted
  /\ Fault("abort")
  /\ aborted' = TRUE
  /\ UNCHANGED <<visible, watermark, governed, target, item, ata, posted, scan, info, task, failed, late>>

(* The next process: it probes the target anew and has the watermark of    *)
(* some earlier checkpoint (or none). What was sent is still on its way.   *)
Reborn ==
  /\ watermark' \in 0 .. watermark
  /\ scan' = NoScan
  /\ info' = NoInfo
  /\ task' = NoTask
  /\ late' = late \cup { <<task[j], vaa(j)>> : j \in { i \in Job : task[i] \in TxStep } }
  /\ aborted' = FALSE
  /\ UNCHANGED <<visible, governed, item, ata, posted, failed>>

Restart ==
  /\ aborted
  /\ target' = ConfigReady(governed)
  /\ UNCHANGED faults
  /\ Reborn

Crash ==
  /\ Fault("crash")
  /\ target' = ConfigReady(governed)
  /\ Reborn

(* The probe of the next process throws: a failed read, or no config.      *)
ProbeFails ==
  /\ Fault("probe")
  /\ target' = "skipped"
  /\ Reborn

-----------------------------------------------------------------------------
Step(j) ==
  \/ Plan(j) \/ Probe(j)
  \/ EnsureRecipientAta(j) \/ SubmitPost(j) \/ SubmitRedeem(j) \/ SubmitRelease(j)
  \/ Aborts(j)

Scans == StartScan \/ FetchPage \/ Prefetch \/ EndScan \/ \E j \in Job : Take(j)

Next ==
  \/ Scans
  \/ \E j \in Job : Step(j) \/ Timeout(j)
  \/ \E s \in Seq : Index(s) \/ OtherRelayer(s) \/ Elapse(s)
  \/ \E s \in Seq, step \in TxStep : Late(step, s)
  \/ Govern
  \/ FetchFails
  \/ Abort
  \/ Restart
  \/ Crash
  \/ ProbeFails

Spec == Init /\ [][Next]_vars

(* The daemon loops, promises settle, delays run out and a stopped process *)
(* is started again. Nothing is assumed of the generic relayer, of         *)
(* Wormholescan, of governance or of faults.                               *)
Fairness ==
  /\ WF_vars(Scans)
  /\ WF_vars(Restart)
  /\ WF_vars(\E j \in Job : Step(j))
  /\ \A s \in Seq : WF_vars(Elapse(s))

FairSpec == Spec /\ Fairness

-----------------------------------------------------------------------------
(* Properties *)

TypeOK ==
  /\ visible \subseteq Seq /\ ata \subseteq Seq /\ posted \subseteq Seq /\ failed \subseteq Seq
  /\ watermark \in 0 .. LastSeq
  /\ governed \in BOOLEAN /\ aborted \in BOOLEAN
  /\ target \in {"skipped", "unready", "ready"} /\ (target = "ready" => governed)
  /\ item \in [Seq -> ItemState]
  /\ scan \in [phase : {"idle", "paging", "prefetch", "redeeming"}, floor : 0 .. LastSeq,
               page : 0 .. MaxPages + 1, vaas : SUBSET Job]
  /\ info \in [Job -> ItemState \cup {None}]
  /\ task \in [Job -> {"none", "queued", "plan", "probe"} \cup TxStep]
  /\ late \subseteq TxStep \X Seq
  /\ faults \in 0 .. MaxFaults

(* The scans of a wired target list the VAA. *)
InReach(s) == s \in visible /\ s > PagingFloor(watermark) /\ target = "ready"

(* However its redeem was cut short (a stale batch read, a lost race, a    *)
(* delayed release, a second job for it in the same scan, a transaction    *)
(* that timed out and landed or not, an abort or a crash between two       *)
(* transactions), a VAA for a wallet that stays in reach of the scans is   *)
(* released in the end.                                                    *)
RedeemedInTheEnd ==
  \A s \in Seq : Recipient[s] = "wallet" => (<>[]InReach(s) => <>(item[s] = "released"))

(* A transaction for s is being submitted or is still under way. *)
UnderWay(s) ==
  \/ \E j \in Job : vaa(j) = s /\ task[j] \in TxStep
  \/ \E step \in TxStep : <<step, s>> \in late

(* No transaction is ever submitted, or still under way, for a VAA that    *)
(* the manager on FOGO cannot accept whatever its inbox item: one for      *)
(* another chain, or before governance has registered the source chain     *)
(* (the filters of planBridgeRedeem and the probe at startup).             *)
NoDoomedTx == \A s \in Seq : UnderWay(s) => governed /\ Recipient[s] # "foreign"

(* The claim of bridge/scan.ts that "permanently broken VAAs end up as     *)
(* `noop` once the planner can prove they're unactionable": a VAA whose    *)
(* recipient the planner cannot derive a token account for, and that stays *)
(* in reach of the scans, stops failing them.                              *)
BrokenEndAsNoop ==
  \A s \in Seq : Recipient[s] = "offcurve" => (<>[]InReach(s) => <>[](s \notin failed))

(* The claim of bridge/scan.ts that an error leaves the floor untouched:   *)
(* between two scans, every VAA whose redeem failed and that is still not  *)
(* released is in the paging window of the next scan.                      *)
ErrorsRetried ==
  scan.phase = "idle" =>
    { s \in failed : item[s] # "released" } \subseteq WindowOf(visible, watermark, MaxPages)

=============================================================================
