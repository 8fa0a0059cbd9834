----------------------------- MODULE Enumerator -----------------------------
(***************************************************************************)
(* The cranker's discovery of work: how the VAAs of one emitter (each      *)
(* emitter has its own watermark key and its own pages) are paged out of   *)
(* Wormholescan and handed to the dispatcher.                              *)
(*                                                                         *)
(* A scan pages newest first. An incremental scan stops once a page lies   *)
(* at or below the watermark less a slack, and moves the watermark up to   *)
(* the newest VAA it resolved; a backstop scan ignores the watermark. The  *)
(* index fills in while scans run and out of order, reads fail, the        *)
(* enumeration is raced against a timer and keeps running when the timer   *)
(* wins, and the process restarts from the last checkpoint.                *)
(***************************************************************************)
EXTENDS Watermarks

CONSTANTS
  LastSeq,         \* bound: VAAs the emitter publishes
  MaxPages,        \* wormholescanMaxPages
  BackstopPages,   \* wormholescanBackstopMaxPages
  BackstopOn,      \* backstopIntervalMs > 0
  Disorder,        \* how far behind the newest VAA a late one may be indexed
  MaxScans,        \* bound: enumerations alive at once, abandoned ones included
  None,
  FaultKinds,      \* what may go wrong in this instance
  MaxFaults        \* bound: how often something goes wrong

ASSUME EnumeratorAssumption ==
  /\ LastSeq \in Nat /\ MaxPages \in Nat /\ BackstopPages \in Nat
  /\ Disorder \in Nat /\ MaxFaults \in Nat
  /\ BackstopOn \in BOOLEAN
  /\ MaxScans \in Nat /\ None \notin 1 .. MaxScans
  /\ FaultKinds \subseteq {"fetch", "blip", "timeout", "dispatch", "restart"}

Seq == 1 .. LastSeq
ScanId == 1 .. MaxScans

VARIABLES
  visible,    \* VAAs Wormholescan lists
  watermark,  \* highest sequence recorded, 0 when there is no entry
  saved,      \* watermark of the checkpoint file
  scans,      \* enumerations that are running
  current,    \* the one the daemon waits for, if any
  due,        \* backstopIntervalMs has passed since the last backstop tick
  dispatched, \* VAAs whose flow has been driven
  faults      \* faults so far

vars == <<visible, watermark, saved, scans, current, due, dispatched, faults>>

Idle == [phase |-> "idle", backstop |-> FALSE, floor |-> 0, page |-> 0, items |-> {}, out |-> {}]

Init ==
  /\ visible = {}
  /\ watermark = 0
  /\ saved = 0
  /\ scans = [i \in ScanId |-> Idle]
  /\ current = None
  /\ due = BackstopOn
  /\ dispatched = {}
  /\ faults = 0

-----------------------------------------------------------------------------
(* Wormholescan (external): newest first, in pages. *)

Page(k) == PageOf(visible, k)

(* A VAA is indexed, at most Disorder places late. *)
Index(s) ==
  /\ s \notin visible
  /\ \A t \in visible : t <= s + Disorder
  /\ visible' = visible \cup {s}
  /\ UNCHANGED <<watermark, saved, scans, current, due, dispatched, faults>>

-----------------------------------------------------------------------------
(* Scanning *)

BypassIgnored(backstop) == PagingFloor(watermark)   \* mutation: backstops keep the floor
ScanFloor(backstop) == IF backstop THEN 0 ELSE PagingFloor(watermark)

PagesOf(scan) == IF scan.backstop THEN BackstopPages ELSE MaxPages

Fault(kind) ==
  /\ kind \in FaultKinds
  /\ faults < MaxFaults
  /\ faults' = faults + 1

(* A tick of the daemon: a backstop when one is due, else incremental. *)
StartScan(i) ==
  /\ current = None
  /\ scans[i].phase = "idle" /\ \A j \in 1 .. i - 1 : scans[j].phase # "idle"
  /\ current' = i
  /\ scans' = [scans EXCEPT ![i] = [Idle EXCEPT !.phase = "paging", !.backstop = due,
                                                !.floor = ScanFloor(due)]]
  /\ due' = FALSE
  /\ UNCHANGED <<visible, watermark, saved, dispatched, faults>>

BackstopDue ==
  /\ BackstopOn
  /\ ~due
  /\ due' = TRUE
  /\ UNCHANGED <<visible, watermark, saved, scans, current, dispatched, faults>>

(* The harvest ends: what was found goes to the dispatcher, unless the     *)
(* daemon has stopped waiting, in which case nobody reads it.              *)
Harvested(i, scan) ==
  IF i = current THEN [scan EXCEPT !.phase = "dispatching", !.items = {}] ELSE Idle

(* listVaasByEmitter answers; an empty page ends the harvest. *)
FetchPage(i) ==
  LET scan == scans[i]
  IN  /\ scan.phase = "paging"
      /\ scans' = [scans EXCEPT ![i] =
           IF scan.page >= PagesOf(scan) \/ Page(scan.page) = {}
           THEN Harvested(i, scan)
           ELSE [scan EXCEPT !.phase = "resolving", !.items = Page(scan.page)]]
      /\ UNCHANGED <<visible, watermark, saved, current, due, dispatched, faults>>

(* listVaasByEmitter fails: the page counts as empty. *)
FetchFails(i) ==
  /\ scans[i].phase = "paging"
  /\ Fault("fetch")
  /\ scans' = [scans EXCEPT ![i] = Harvested(i, @)]
  /\ UNCHANGED <<visible, watermark, saved, current, due, dispatched>>

(* The page's VAAs have all been read, some of them (failed) with a        *)
(* transient error. The others are recorded; those whose flow reads as     *)
(* closed have no dispatch. An abandoned enumeration's list has no reader. *)
Resolve(i, failed) ==
  LET scan == scans[i]
      ok == scan.items \ failed
      next == [scan EXCEPT !.phase = "paging", !.page = @ + 1, !.items = {},
                           !.out = IF i = current THEN @ \cup (ok \ dispatched) ELSE {}]
  IN  /\ scan.phase = "resolving"
      /\ watermark' = IF scan.backstop THEN watermark ELSE RecordSeen(watermark, ok)
      /\ scans' = [scans EXCEPT ![i] =
           IF IsPageBelowFloor(scan.floor, scan.items) THEN Harvested(i, next) ELSE next]
      /\ UNCHANGED <<visible, saved, current, due, dispatched>>

ResolveClean(i) == Resolve(i, {}) /\ UNCHANGED faults
ResolveBlip(i) == Fault("blip") /\ \E s \in scans[i].items : Resolve(i, {s})

(* withTimeout: the scan is abandoned, its enumeration is not. *)
Timeout ==
  /\ current # None
  /\ scans[current].phase \in {"paging", "resolving"}
  /\ Fault("timeout")
  /\ scans' = [scans EXCEPT ![current].out = {}]
  /\ current' = None
  /\ UNCHANGED <<visible, watermark, saved, due, dispatched>>

(* One flow is driven, or fails and is left for a later scan. *)
Dispatch(s) ==
  /\ current # None
  /\ scans[current].phase = "dispatching"
  /\ s \in scans[current].out
  /\ scans' = [scans EXCEPT ![current].out = @ \ {s}]
  /\ \/ dispatched' = dispatched \cup {s} /\ UNCHANGED faults
     \/ Fault("dispatch") /\ UNCHANGED dispatched
  /\ UNCHANGED <<visible, watermark, saved, current, due>>

EndScan ==
  /\ current # None
  /\ scans[current].phase = "dispatching"
  /\ scans[current].out = {}
  /\ scans' = [scans EXCEPT ![current] = Idle]
  /\ current' = None
  /\ UNCHANGED <<visible, watermark, saved, due, dispatched, faults>>

-----------------------------------------------------------------------------
(* Checkpoints: saveCheckpoint is an atomic rename, on a timer. *)

Save ==
  /\ saved # watermark
  /\ saved' = watermark
  /\ UNCHANGED <<visible, watermark, scans, current, due, dispatched, faults>>

(* The process dies and starts again; a lost file is an empty store. *)
Restart ==
  /\ Fault("restart")
  /\ saved' \in {saved, 0}
  /\ watermark' = saved'
  /\ scans' = [i \in ScanId |-> Idle]
  /\ current' = None
  /\ due' = BackstopOn
  /\ UNCHANGED <<visible, dispatched>>

-----------------------------------------------------------------------------
Dispatches == \E s \in Seq : Dispatch(s)
Starts == \E i \in ScanId : StartScan(i)

Next ==
  \/ \E s \in Seq : Index(s)
  \/ \E i \in ScanId : FetchPage(i) \/ FetchFails(i) \/ ResolveClean(i) \/ ResolveBlip(i)
  \/ Starts
  \/ Dispatches
  \/ EndScan
  \/ Timeout
  \/ BackstopDue
  \/ Save
  \/ Restart

Spec == Init /\ [][Next]_vars

(* The daemon loops, promises settle and the backstop interval elapses.    *)
(* Nothing is assumed of faults, of checkpoints or of the index.           *)
Fairness ==
  /\ WF_vars(Starts)
  /\ WF_vars(Dispatches) /\ WF_vars(EndScan)
  /\ WF_vars(BackstopDue)
  /\ \A i \in ScanId : WF_vars(FetchPage(i)) /\ WF_vars(ResolveClean(i))

FairSpec == Spec /\ Fairness

-----------------------------------------------------------------------------
(* Properties *)

TypeOK ==
  /\ visible \subseteq Seq /\ dispatched \subseteq visible
  /\ watermark \in 0 .. LastSeq /\ saved \in 0 .. watermark
  /\ scans \in [ScanId -> [phase : {"idle", "paging", "resolving", "dispatching"},
                           backstop : BOOLEAN, floor : 0 .. LastSeq, page : 0 .. LastSeq + 1,
                           items : SUBSET Seq, out : SUBSET Seq]]
  /\ current \in ScanId \cup {None}
  /\ due \in BOOLEAN
  /\ faults \in 0 .. MaxFaults

(* The VAAs an incremental scan that starts now would read. *)
Window == WindowOf(visible, watermark, MaxPages)

(* As long as nothing has failed, between two scans every listed VAA that  *)
(* is not driven yet is in the next incremental scan's paging window,      *)
(* however late it was indexed and wherever the pages were shifted         *)
(* (pagingFloor's slack).                                                  *)
NextScanRetries == faults = 0 /\ current = None => visible \ dispatched \subseteq Window

(* Every listed VAA is driven in the end.                                  *)
EveryVaaDispatched == \A s \in Seq : s \in visible ~> s \in dispatched

=============================================================================
