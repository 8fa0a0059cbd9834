-------------------------- MODULE EnumeratorProofs --------------------------
(* Proofs about the discovery of work, for every page size, page budget,   *)
(* slack and history of the index.                                         *)
EXTENDS Enumerator, UnitSumsTheorems

(***************************************************************************)
(* Ranks and pages                                                         *)
(***************************************************************************)

(* How many listed VAAs are newer than s. *)
RankOf(listed, s) == Cardinality({ t \in listed : t > s })

LEMMA SeqType == \A s \in Seq : s \in Nat /\ s >= 1 /\ s \in 0 .. LastSeq
BY EnumeratorAssumption DEF Seq

LEMMA Newer ==
  ASSUME NEW V \in SUBSET Seq, NEW s
  PROVE  /\ IsFiniteSet({ t \in V : t > s })
         /\ RankOf(V, s) \in Nat
         /\ RankOf(V, s) <= LastSeq
<1>1. 1 \in Int /\ LastSeq \in Int /\ LastSeq \in Nat
  BY EnumeratorAssumption
<1>2. IsFiniteSet(Seq) /\ Cardinality(Seq) = LastSeq
  BY <1>1, FS_Interval DEF Seq
<1>3. { t \in V : t > s } \in SUBSET Seq
  OBVIOUS
<1>4. /\ IsFiniteSet({ t \in V : t > s })
      /\ Cardinality({ t \in V : t > s }) <= Cardinality(Seq)
  BY <1>2, <1>3, FS_Subset, Zenon
<1>5. Cardinality({ t \in V : t > s }) \in Nat
  BY <1>4, FS_CardinalityType, Zenon
<1>. QED  BY <1>2, <1>4, <1>5 DEF RankOf

(* Ranks fall along the sequence numbers, and rise as VAAs are indexed. *)
LEMMA RankOrder ==
  ASSUME NEW V \in SUBSET Seq, NEW W \in SUBSET Seq, V \subseteq W,
         NEW s \in Nat, NEW t \in Nat, s <= t
  PROVE  RankOf(V, t) <= RankOf(W, s)
<1>1. { u \in V : u > t } \in SUBSET { u \in W : u > s }
  <2>1. \A u \in V : u \in Nat /\ u \in W
    BY SeqType
  <2>2. \A u \in V : u > t => u > s
    BY <2>1
  <2>. QED  BY <2>1, <2>2
<1>2. IsFiniteSet({ u \in W : u > s })
  BY Newer
<1>3. Cardinality({ u \in V : u > t }) <= Cardinality({ u \in W : u > s })
  BY <1>1, <1>2, FS_Subset, Zenon
<1>. QED  BY <1>3 DEF RankOf

(* There is no gap: where a VAA is listed beyond a page, the page is full. *)
LEMMA PageBefore ==
  ASSUME NEW V \in SUBSET Seq, NEW s \in V, NEW k \in Nat, RankOf(V, s) >= k * PageSize
  PROVE  PageOf(V, k) # {}
<1> DEFINE A == { t \in V : RankOf(V, t) >= k * PageSize }
<1>0. /\ PageSize \in Nat \ {0} /\ LastSeq \in Nat /\ k * PageSize \in Nat
      /\ (k + 1) * PageSize = k * PageSize + PageSize
  BY EnumeratorAssumption, WatermarksAssumption
<1>1. A \in SUBSET (0 .. LastSeq) /\ A # {}
  <2>1. s \in A
    OBVIOUS
  <2>2. A \subseteq V
    OBVIOUS
  <2>3. V \subseteq 0 .. LastSeq
    BY SeqType
  <2>. HIDE DEF A
  <2>. QED  BY <2>1, <2>2, <2>3
<1>2. PICK t \in A : \A u \in A : u <= t
  <2>. HIDE DEF A
  <2>. QED  BY <1>0, <1>1, LargestNumber
<1>3. t \in V /\ t \in Nat /\ RankOf(V, t) \in Nat /\ RankOf(V, t) >= k * PageSize
  BY Newer, SeqType
<1>4. RankOf(V, t) < (k + 1) * PageSize
  <2>1. SUFFICES ASSUME RankOf(V, t) >= k * PageSize + 1  PROVE FALSE
    BY <1>0, <1>3
  <2> DEFINE U == { u \in V : u > t }
  <2>2. IsFiniteSet(U) /\ Cardinality(U) = RankOf(V, t)
    BY Newer DEF RankOf
  <2>3. U \in SUBSET (0 .. LastSeq)
    BY SeqType
  <2>4. U # {}
    <3>1. Cardinality(U) # 0
      BY <1>0, <1>3, <2>1, <2>2
    <3>. QED  BY <3>1, FS_EmptySet
  <2>5. PICK u \in U : \A v \in U : u <= v
    <3>. HIDE DEF U
    <3>. QED  BY <1>0, <2>3, <2>4, SmallestNumber
  <2>6. { v \in V : v > u } = U \ {u}
    <3>1. \A v \in V : v \in Nat
      BY SeqType
    <3>2. u \in Nat /\ u > t
      BY <2>5, <3>1
    <3>3. \A v \in V : v > u <=> v > t /\ v # u
      BY <1>3, <2>5, <3>1, <3>2
    <3>. QED  BY <3>3
  <2>7. RankOf(V, u) = RankOf(V, t) - 1
    <3>. HIDE DEF U
    <3>1. Cardinality(U \ {u}) = Cardinality(U) - 1
      BY <2>2, <2>5, FS_RemoveElement
    <3>. QED  BY <2>2, <2>6, <3>1 DEF RankOf
  <2>8. u \in V /\ u > t
    BY <2>5
  <2>9. u \in A
    BY <1>0, <1>3, <2>1, <2>7, <2>8
  <2>. QED  BY <1>2, <1>3, <2>8, <2>9, SeqType
<1>. QED  BY <1>3, <1>4 DEF PageOf, RankOf

(* What is on a page, by rank. *)
LEMMA OnPage ==
  ASSUME NEW V \in SUBSET Seq, NEW k \in Nat
  PROVE  /\ PageOf(V, k) \subseteq V
         /\ \A s \in V : s \in PageOf(V, k) <=>
              k * PageSize <= RankOf(V, s) /\ RankOf(V, s) < (k + 1) * PageSize
BY DEF PageOf, RankOf

(* A page at hand has a number the sequence numbers bound. *)
LEMMA PageNumber ==
  ASSUME NEW V \in SUBSET Seq, NEW k \in Nat, PageOf(V, k) # {}
  PROVE  k <= LastSeq
<1>1. PICK s \in V : k * PageSize <= RankOf(V, s)
  BY OnPage
<1>2. RankOf(V, s) \in Nat /\ RankOf(V, s) <= LastSeq
  BY Newer
<1>3. PageSize \in Nat \ {0} /\ LastSeq \in Nat
  BY EnumeratorAssumption, WatermarksAssumption
<1>4. k <= k * PageSize
  BY <1>3
<1>. QED  BY <1>1, <1>2, <1>3, <1>4

(* The newest of the recorded sequences and the watermark. *)
LEMMA Recorded ==
  ASSUME NEW wm \in 0 .. LastSeq, NEW S \in SUBSET Seq
  PROVE  /\ RecordSeen(wm, S) \in 0 .. LastSeq
         /\ RecordSeen(wm, S) \in S \cup {wm}
         /\ wm <= RecordSeen(wm, S)
<1>1. LastSeq \in Nat
  BY EnumeratorAssumption
<1>2. S \cup {wm} \in SUBSET (0 .. LastSeq) /\ S \cup {wm} # {}
  BY DEF Seq
<1>3. \E m \in S \cup {wm} : \A s \in S \cup {wm} : s <= m
  BY <1>1, <1>2, LargestNumber
<1>4. /\ RecordSeen(wm, S) \in S \cup {wm}
      /\ \A s \in S \cup {wm} : s <= RecordSeen(wm, S)
  BY <1>3 DEF RecordSeen
<1>. QED  BY <1>2, <1>4

(***************************************************************************)
(* Types                                                                   *)
(***************************************************************************)

ScanRecord ==
  [phase : {"idle", "paging", "resolving", "dispatching"},
   backstop : BOOLEAN, floor : 0 .. LastSeq, page : 0 .. LastSeq + 1,
   items : SUBSET Seq, out : SUBSET Seq]

(* The strengthening: a scan, abandoned or not, only holds VAAs that are   *)
(* listed, and has a page at hand only where there is one.                 *)
ScanOK(scan) ==
  /\ scan \in ScanRecord
  /\ scan.items \subseteq visible /\ scan.out \subseteq visible
  /\ scan.phase = "resolving" => scan.page <= LastSeq

TypeInv ==
  /\ TypeOK
  /\ \A i \in ScanId : ScanOK(scans[i])

LEMMA IdleOK == ScanOK(Idle) /\ Idle.phase = "idle"
<1>1. 0 \in 0 .. LastSeq /\ 0 \in 0 .. LastSeq + 1
  BY EnumeratorAssumption
<1>. QED  BY <1>1 DEF Idle, ScanOK, ScanRecord

LEMMA HarvestedOK ==
  ASSUME NEW i, NEW scan, ScanOK(scan)
  PROVE  ScanOK(Harvested(i, scan))
<1>1. CASE i = current
  BY <1>1 DEF Harvested, ScanOK, ScanRecord
<1>2. CASE i # current
  BY <1>2, IdleOK DEF Harvested
<1>. QED  BY <1>1, <1>2

(* One scan moves on; the others, and the VAAs that are listed, stay. *)
LEMMA ScansOK ==
  ASSUME TypeInv, NEW i \in ScanId, NEW scan, ScanOK(scan),
         scans' = [scans EXCEPT ![i] = scan], visible' = visible
  PROVE  /\ scans' \in [ScanId -> ScanRecord]
         /\ \A j \in ScanId : ScanOK(scans[j])'
<1>1. scans \in [ScanId -> ScanRecord] /\ scan \in ScanRecord
  BY DEF TypeInv, TypeOK, ScanRecord, ScanOK
<1>2. scans'[i] = scan /\ \A j \in ScanId : j # i => scans'[j] = scans[j]
  BY <1>1
<1>. QED  BY <1>1, <1>2 DEF TypeInv, ScanOK

LEMMA FaultCounted ==
  ASSUME faults \in 0 .. MaxFaults, NEW kind, Fault(kind)
  PROVE  faults' \in 0 .. MaxFaults
BY EnumeratorAssumption DEF Fault

LEMMA TypeInvInit == Init => TypeInv
<1> SUFFICES ASSUME Init  PROVE TypeInv
  OBVIOUS
<1>1. scans \in [ScanId -> ScanRecord] /\ \A i \in ScanId : ScanOK(scans[i])
  BY IdleOK DEF Init, ScanOK
<1>. QED  BY <1>1, EnumeratorAssumption DEF Init, TypeInv, TypeOK, ScanRecord

LEMMA TypeStart ==
  ASSUME TypeInv, NEW i \in ScanId, StartScan(i)
  PROVE  TypeInv'
<1> DEFINE scan == [Idle EXCEPT !.phase = "paging", !.backstop = due, !.floor = ScanFloor(due)]
<1>1. ScanFloor(due) \in 0 .. LastSeq
  BY EnumeratorAssumption, WatermarksAssumption DEF TypeInv, TypeOK, ScanFloor, PagingFloor
<1>2. ScanOK(scan)
  BY <1>1, IdleOK DEF TypeInv, TypeOK, ScanOK, ScanRecord, Idle
<1> HIDE DEF scan
<1>3. scans' = [scans EXCEPT ![i] = scan] /\ visible' = visible
  BY DEF StartScan, scan
<1>4. scans' \in [ScanId -> ScanRecord] /\ \A j \in ScanId : ScanOK(scans[j])'
  BY <1>2, <1>3, ScansOK
<1>. QED  BY <1>4 DEF StartScan, TypeInv, TypeOK, ScanRecord

LEMMA TypeFetch ==
  ASSUME TypeInv, NEW i \in ScanId, FetchPage(i) \/ FetchFails(i)
  PROVE  TypeInv'
<1>1. ScanOK(scans[i]) /\ ScanOK(Harvested(i, scans[i]))
  BY HarvestedOK DEF TypeInv
<1>2. scans[i].page \in Nat /\ visible \in SUBSET Seq
  BY <1>1 DEF ScanOK, ScanRecord, TypeInv, TypeOK
<1>3. Page(scans[i].page) # {} =>
        ScanOK([scans[i] EXCEPT !.phase = "resolving", !.items = Page(scans[i].page)])
  <2>1. Page(scans[i].page) \subseteq visible
    BY <1>2, OnPage DEF Page
  <2>2. Page(scans[i].page) # {} => scans[i].page <= LastSeq
    BY <1>2, PageNumber DEF Page
  <2>. QED  BY <1>1, <1>2, <2>1, <2>2 DEF ScanOK, ScanRecord
<1>4. CASE FetchPage(i)
  <2>1. PICK scan : ScanOK(scan) /\ scans' = [scans EXCEPT ![i] = scan]
    BY <1>1, <1>3, <1>4, Zenon DEF FetchPage
  <2>2. visible' = visible
    BY <1>4 DEF FetchPage
  <2>3. scans' \in [ScanId -> ScanRecord] /\ \A j \in ScanId : ScanOK(scans[j])'
    BY <2>1, <2>2, ScansOK
  <2>. QED  BY <1>4, <2>3 DEF FetchPage, TypeInv, TypeOK, ScanRecord
<1>5. CASE FetchFails(i)
  <2>1. scans' = [scans EXCEPT ![i] = Harvested(i, scans[i])] /\ visible' = visible
    BY <1>5 DEF FetchFails
  <2>2. scans' \in [ScanId -> ScanRecord] /\ \A j \in ScanId : ScanOK(scans[j])'
    BY <1>1, <2>1, ScansOK
  <2>3. faults' \in 0 .. MaxFaults
    BY <1>5, FaultCounted DEF FetchFails, TypeInv, TypeOK
  <2>. QED  BY <1>5, <2>2, <2>3 DEF FetchFails, TypeInv, TypeOK, ScanRecord
<1>. QED  BY <1>4, <1>5

(* What a page that was read leaves to the rest of the scan. *)
NextPage(i, failed) ==
  [scans[i] EXCEPT !.phase = "paging", !.page = @ + 1, !.items = {},
                   !.out = IF i = current THEN @ \cup ((scans[i].items \ failed) \ dispatched)
                                          ELSE {}]

LEMMA TypeResolve ==
  ASSUME TypeInv, NEW i \in ScanId, NEW failed, Resolve(i, failed), faults' \in 0 .. MaxFaults
  PROVE  TypeInv'
<1>1. ScanOK(scans[i]) /\ scans[i].phase = "resolving"
  BY DEF TypeInv, Resolve
<1>2. scans[i].page + 1 \in 0 .. LastSeq + 1
  BY <1>1, EnumeratorAssumption DEF ScanOK, ScanRecord
<1>3. ScanOK(NextPage(i, failed))
  BY <1>1, <1>2 DEF ScanOK, ScanRecord, NextPage
<1>4. ScanOK(Harvested(i, NextPage(i, failed)))
  BY <1>3, HarvestedOK
<1>5. PICK scan : ScanOK(scan) /\ scans' = [scans EXCEPT ![i] = scan]
  BY <1>3, <1>4, Zenon DEF Resolve, NextPage
<1>6. visible' = visible
  BY DEF Resolve
<1>7. scans' \in [ScanId -> ScanRecord] /\ \A j \in ScanId : ScanOK(scans[j])'
  BY <1>5, <1>6, ScansOK
<1>8. watermark' \in 0 .. LastSeq /\ watermark <= watermark'
  <2>1. watermark \in 0 .. LastSeq /\ scans[i].items \ failed \in SUBSET Seq
    BY <1>1 DEF TypeInv, TypeOK, ScanOK, ScanRecord
  <2>. QED  BY <2>1, Recorded DEF Resolve
<1>9. saved' \in 0 .. watermark'
  BY <1>8 DEF Resolve, TypeInv, TypeOK
<1>. QED  BY <1>7, <1>8, <1>9 DEF Resolve, TypeInv, TypeOK, ScanRecord

LEMMA TypeCurrent ==
  ASSUME TypeInv, current # None, Timeout \/ EndScan \/ (\E s \in Seq : Dispatch(s))
  PROVE  TypeInv'
<1>1. current \in ScanId /\ ScanOK(scans[current])
  BY DEF TypeInv, TypeOK
<1>2. ASSUME NEW out \in SUBSET scans[current].out
      PROVE  ScanOK([scans[current] EXCEPT !.out = out])
  BY <1>1 DEF ScanOK, ScanRecord
<1>3. \E scan : ScanOK(scan) /\ scans' = [scans EXCEPT ![current] = scan]
  <2>1. CASE Timeout
    <3>1. {} \in SUBSET scans[current].out
      OBVIOUS
    <3>2. scans' = [scans EXCEPT ![current] = [scans[current] EXCEPT !.out = {}]]
      BY <2>1 DEF Timeout
    <3>. QED  BY <1>2, <3>1, <3>2
  <2>2. CASE EndScan
    BY <2>2, IdleOK DEF EndScan
  <2>3. ASSUME NEW s \in Seq, Dispatch(s)
        PROVE  \E scan : ScanOK(scan) /\ scans' = [scans EXCEPT ![current] = scan]
    <3>1. scans[current].out \ {s} \in SUBSET scans[current].out
      OBVIOUS
    <3>2. scans' = [scans EXCEPT ![current] = [scans[current] EXCEPT !.out = scans[current].out \ {s}]]
      BY <2>3 DEF Dispatch
    <3>. QED  BY <1>2, <3>1, <3>2
  <2>. QED  BY <2>1, <2>2, <2>3
<1>4. visible' = visible
  BY DEF Timeout, EndScan, Dispatch
<1>5. scans' \in [ScanId -> ScanRecord] /\ \A j \in ScanId : ScanOK(scans[j])'
  BY <1>1, <1>3, <1>4, ScansOK
<1>6. CASE Timeout
  <2>1. faults' \in 0 .. MaxFaults
    BY <1>6, FaultCounted DEF Timeout, TypeInv, TypeOK
  <2>. QED  BY <1>5, <1>6, <2>1 DEF Timeout, TypeInv, TypeOK, ScanRecord
<1>7. CASE EndScan
  BY <1>5, <1>7 DEF EndScan, TypeInv, TypeOK, ScanRecord
<1>8. ASSUME NEW s \in Seq, Dispatch(s)  PROVE TypeInv'
  <2>1. faults' \in 0 .. MaxFaults
    BY <1>8, FaultCounted DEF Dispatch, TypeInv, TypeOK
  <2>2. dispatched' \subseteq visible
    BY <1>1, <1>8 DEF Dispatch, ScanOK, TypeInv, TypeOK
  <2>. QED  BY <1>5, <1>8, <2>1, <2>2 DEF Dispatch, TypeInv, TypeOK, ScanRecord
<1>. QED  BY <1>6, <1>7, <1>8

LEMMA TypeRestart ==
  ASSUME TypeInv, Restart
  PROVE  TypeInv'
<1>1. scans' \in [ScanId -> ScanRecord] /\ \A i \in ScanId : ScanOK(scans[i])'
  BY IdleOK DEF Restart, ScanOK
<1>2. faults' \in 0 .. MaxFaults
  BY FaultCounted DEF Restart, TypeInv, TypeOK
<1>3. watermark' \in 0 .. LastSeq /\ saved' \in 0 .. watermark'
  BY EnumeratorAssumption DEF Restart, TypeInv, TypeOK
<1>. QED
  BY <1>1, <1>2, <1>3, EnumeratorAssumption DEF Restart, TypeInv, TypeOK, ScanRecord

LEMMA TypeInvNext == TypeInv /\ [Next]_vars => TypeInv'
<1> SUFFICES ASSUME TypeInv, [Next]_vars  PROVE TypeInv'
  OBVIOUS
<1>1. ASSUME NEW s \in Seq, Index(s)  PROVE TypeInv'
  BY <1>1 DEF Index, TypeInv, TypeOK, ScanOK
<1>2. ASSUME NEW i \in ScanId, ResolveClean(i) \/ ResolveBlip(i)  PROVE TypeInv'
  <2>1. faults' \in 0 .. MaxFaults
    BY <1>2, FaultCounted DEF ResolveClean, ResolveBlip, TypeInv, TypeOK
  <2>. QED  BY <1>2, <2>1, TypeResolve DEF ResolveClean, ResolveBlip
<1>3. CASE BackstopDue
  BY <1>3 DEF BackstopDue, TypeInv, TypeOK, ScanOK
<1>4. CASE Save
  BY <1>4 DEF Save, TypeInv, TypeOK, ScanOK
<1>5. CASE UNCHANGED vars
  BY <1>5 DEF vars, TypeInv, TypeOK, ScanOK
<1>6. CASE Dispatches \/ EndScan \/ Timeout
  <2>1. current # None
    BY <1>6 DEF Dispatches, Dispatch, EndScan, Timeout
  <2>. QED  BY <1>6, <2>1, TypeCurrent DEF Dispatches
<1>. QED
  BY <1>1, <1>2, <1>3, <1>4, <1>5, <1>6, TypeStart, TypeFetch, TypeRestart DEF Next, Starts

(* Watermark, checkpoint, pages and lists keep their types through every   *)
(* failed read, abandoned scan and restart: a checkpoint is never ahead of *)
(* the watermark, a scan never pages beyond what is listed, and only       *)
(* listed VAAs are driven (enumerate.ts, watermarks.ts, checkpoint.ts).    *)
THEOREM DiscoveryTypeCorrect == Spec => []TypeOK
<1>1. TypeInv => TypeOK
  BY DEF TypeInv
<1>. QED  BY <1>1, TypeInvInit, TypeInvNext, PTL DEF Spec

(***************************************************************************)
(* The paging window                                                       *)
(***************************************************************************)

Pending == visible \ dispatched

(* A VAA is near the watermark: not below the floor of the next scan. *)
Near(s) == watermark <= s + BACKFILL_COUNT

(* How an incremental scan accounts for a VAA that is not driven yet: it   *)
(* has it, it is still to reach its page, or it leaves it to the next      *)
(* scan, whose floor will not exclude it.                                  *)
Accounted(scan, s) ==
  /\ scan.phase = "paging" =>
       s \in scan.out \/ Near(s) \/ RankOf(visible, s) >= scan.page * PageSize
  /\ scan.phase = "resolving" =>
       \/ s \in scan.out \/ s \in scan.items
       \/ Near(s) /\ \A t \in scan.items : t <= s + BACKFILL_COUNT
       \/ /\ RankOf(visible, s) >= (scan.page + 1) * PageSize
          /\ \E t \in scan.items : s < t
  /\ scan.phase = "dispatching" => s \in scan.out \/ Near(s)

Tracks(scan) ==
  /\ scan.phase # "idle"
  /\ scan.floor = 0 \/ scan.floor + BACKFILL_COUNT <= watermark
  /\ \A s \in Pending : /\ scan.floor <= s
                        /\ scan.backstop => Near(s)
                        /\ ~scan.backstop => Accounted(scan, s)

ScanInv ==
  /\ watermark = 0 \/ watermark \in visible
  /\ \A i \in ScanId : i = current \/ scans[i].phase = "idle"
  /\ current = None => \A s \in Pending : Near(s)
  /\ current # None => Tracks(scans[current])

(* The page budget covers what is listed above the floor: of the next      *)
(* incremental scan, and of the one that is running.                       *)
Budget(floor) == Cardinality({ t \in visible : t > floor }) < MaxPages * PageSize

BudgetCovers ==
  /\ Budget(PagingFloor(watermark))
  /\ \A i \in ScanId :
       scans[i].phase # "idle" /\ ~scans[i].backstop => Budget(scans[i].floor)

LEMMA NoFault ==
  ASSUME TypeInv, faults' = 0, NEW kind
  PROVE  ~Fault(kind)
BY DEF Fault, TypeInv, TypeOK

LEMMA FaultsAreCounted ==
  ASSUME TypeInv, [Next]_vars, faults' = 0
  PROVE  faults = 0
BY NoFault DEF Next, Index, FetchPage, FetchFails, ResolveClean, ResolveBlip, Starts, StartScan,
               Dispatches, Dispatch, EndScan, Timeout, BackstopDue, Save, Restart, vars

LEMMA Numbers ==
  ASSUME TypeInv
  PROVE  /\ watermark \in Nat /\ BACKFILL_COUNT \in Nat /\ Disorder \in Nat
         /\ PageSize \in Nat \ {0} /\ MaxPages \in Nat
         /\ visible \in SUBSET Seq /\ Pending \subseteq visible
         /\ \A s \in visible : s \in Nat /\ RankOf(visible, s) \in Nat
         /\ \A i \in ScanId : /\ scans[i].floor \in Nat /\ scans[i].page \in Nat
                             /\ scans[i].items \subseteq visible
                             /\ scans[i].out \subseteq visible
<1>1. visible \in SUBSET Seq /\ watermark \in Nat
  BY EnumeratorAssumption DEF TypeInv, TypeOK
<1>2. \A s \in visible : s \in Nat /\ RankOf(visible, s) \in Nat
  BY <1>1, SeqType, Newer
<1>3. \A i \in ScanId : /\ scans[i].floor \in Nat /\ scans[i].page \in Nat
                       /\ scans[i].items \subseteq visible /\ scans[i].out \subseteq visible
  BY EnumeratorAssumption DEF TypeInv, ScanOK, ScanRecord
<1>. QED  BY <1>1, <1>2, <1>3, EnumeratorAssumption, WatermarksAssumption DEF Pending

LEMMA ScanInvInit == Init => ScanInv
<1> SUFFICES ASSUME Init  PROVE ScanInv
  OBVIOUS
<1>1. \A i \in ScanId : scans[i].phase = "idle"
  BY IdleOK DEF Init
<1>. QED  BY <1>1 DEF Init, ScanInv, Pending

(* A VAA is indexed: the rule that bounds its delay puts it near the       *)
(* watermark and near every VAA that is listed.                            *)
LEMMA ScanIndex ==
  ASSUME Disorder <= BACKFILL_COUNT, TypeInv, TypeInv', ScanInv, NEW s \in Seq, Index(s)
  PROVE  ScanInv'
<1>0. s \in Nat
  BY SeqType
<1>1. \A t \in visible : t <= s + BACKFILL_COUNT
  BY <1>0, Numbers DEF Index
<1>2. watermark <= s + BACKFILL_COUNT
  BY <1>0, <1>1, Numbers DEF ScanInv
<1>3. \A u \in visible : RankOf(visible, u) <= RankOf(visible', u)
  <2>1. visible \in SUBSET Seq /\ visible' \in SUBSET Seq /\ visible \subseteq visible'
    BY Numbers DEF Index
  <2>2. \A u \in visible : u \in Nat /\ u <= u
    BY Numbers
  <2>. QED  BY <2>1, <2>2, RankOrder
<1>4. /\ watermark' = watermark /\ scans' = scans /\ current' = current
      /\ visible' = visible \cup {s} /\ Pending' \subseteq Pending \cup {s}
      /\ s \in visible' /\ RankOf(visible', s) \in Nat
  BY Numbers, Newer, SeqType DEF Index, TypeInv, TypeOK, Pending
<1>5. CASE current = None
  BY <1>2, <1>4, <1>5 DEF ScanInv, Near
<1>6. CASE current # None
  <2> DEFINE scan == scans[current]
  <2>1. /\ current \in ScanId /\ scan.items \subseteq visible
        /\ scan.floor \in Nat /\ scan.page \in Nat
    BY <1>6, Numbers DEF TypeInv, TypeOK
  <2>2. Tracks(scan) /\ scan' = scan
    BY <1>4, <1>6 DEF ScanInv
  <2> HIDE DEF scan
  <2>3. scan.floor <= s /\ Near(s) /\ \A t \in scan.items : t <= s + BACKFILL_COUNT
    BY <1>0, <1>1, <1>2, <2>1, <2>2, Numbers DEF Tracks, Near
  <2>4. ASSUME NEW u \in Pending', u # s
        PROVE  /\ scan.floor <= u
               /\ scan.backstop => Near(u)'
               /\ ~scan.backstop => Accounted(scan, u)'
    <3>1. u \in Pending /\ u \in visible
      BY <1>4, <2>4, Numbers
    <3>2. /\ RankOf(visible, u) \in Nat /\ RankOf(visible', u) \in Nat
          /\ RankOf(visible, u) <= RankOf(visible', u)
      BY <1>3, <1>4, <3>1, Newer, Numbers DEF TypeInv, TypeOK
    <3>3. /\ scan.floor <= u
          /\ scan.backstop => Near(u)
          /\ ~scan.backstop => Accounted(scan, u)
      BY <2>2, <3>1 DEF Tracks
    <3>4. scan.page * PageSize \in Nat /\ (scan.page + 1) * PageSize \in Nat
      BY <2>1, Numbers
    <3>5. Near(u)' <=> Near(u)
      BY <1>4 DEF Near
    <3>6. Accounted(scan, u) => Accounted(scan, u)'
      BY <2>2, <3>2, <3>4, <3>5 DEF Accounted
    <3>. QED  BY <3>3, <3>5, <3>6
  <2>5. Near(s)' /\ Accounted(scan, s)'
    BY <1>4, <2>2, <2>3 DEF Near, Accounted
  <2>6. Tracks(scan)'
    BY <1>4, <2>2, <2>3, <2>4, <2>5 DEF Tracks
  <2>. QED  BY <1>4, <1>6, <2>6 DEF ScanInv, scan
<1>. QED  BY <1>5, <1>6

(* A scan starts: what the last one left is at or above its floor. *)
LEMMA ScanStarts ==
  ASSUME TypeInv, TypeInv', ScanInv, NEW i \in ScanId, StartScan(i)
  PROVE  ScanInv'
<1> DEFINE scan == [Idle EXCEPT !.phase = "paging", !.backstop = due, !.floor = ScanFloor(due)]
<1>1. /\ scans' = [scans EXCEPT ![i] = scan] /\ current' = i
      /\ visible' = visible /\ watermark' = watermark /\ dispatched' = dispatched
  BY DEF StartScan
<1>2. /\ scan.phase = "paging" /\ scan.backstop = due /\ scan.floor = ScanFloor(due)
      /\ scan.page = 0
  BY DEF Idle
<1>3. current = None /\ i # None
  BY EnumeratorAssumption DEF StartScan, ScanId
<1>4. scans'[i] = scan /\ \A j \in ScanId : j # i => scans'[j].phase = "idle"
  BY <1>1, <1>3, EnumeratorAssumption DEF ScanInv, TypeInv, TypeOK, ScanId
<1> HIDE DEF scan
<1>5. ASSUME NEW s \in Pending
      PROVE  scan.floor <= s /\ Near(s) /\ Accounted(scan, s)
  <2>1. s \in Nat /\ RankOf(visible, s) \in Nat /\ Near(s)
    BY <1>3, Numbers DEF ScanInv
  <2>2. scan.floor <= s
    BY <1>2, <2>1, Numbers DEF ScanFloor, PagingFloor, Near
  <2>. QED  BY <1>2, <2>1, <2>2 DEF Accounted
<1>6. scan.floor = 0 \/ scan.floor + BACKFILL_COUNT <= watermark
  BY <1>2, Numbers DEF ScanFloor, PagingFloor
<1>7. Tracks(scan)
  BY <1>2, <1>5, <1>6 DEF Tracks
<1>8. Tracks(scans[current])'
  BY <1>1, <1>4, <1>7 DEF Tracks, Accounted, Near, Pending
<1>. QED  BY <1>1, <1>3, <1>4, <1>8 DEF ScanInv

(* A page arrives, or the harvest ends. It never ends with a VAA still to  *)
(* be reached: an empty page has nothing behind it, and the budget covers  *)
(* everything above the floor.                                             *)
LEMMA FetchKeepsTrack ==
  ASSUME TypeInv, ScanInv, BudgetCovers, NEW i \in ScanId, i = current, FetchPage(i)
  PROVE  Tracks(scans'[i])
<1> DEFINE scan == scans[i]
<1>1. /\ scan.floor \in Nat /\ scan.page \in Nat /\ scan.items \subseteq visible
      /\ scan \in ScanRecord /\ scans \in [ScanId -> ScanRecord]
  BY Numbers DEF TypeInv, TypeOK, ScanOK, ScanRecord
<1>2. scan.phase = "paging" /\ Tracks(scan)
  BY EnumeratorAssumption DEF FetchPage, ScanInv, ScanId
<1>3. scan.page * PageSize \in Nat /\ (scan.page + 1) * PageSize \in Nat
      /\ MaxPages * PageSize \in Nat
  BY <1>1, Numbers
<1>4. CASE scan.page >= PagesOf(scan) \/ Page(scan.page) = {}
  <2>1. scans'[i] = [scan EXCEPT !.phase = "dispatching", !.items = {}]
    BY <1>1, <1>4 DEF FetchPage, Harvested
  <2>2. /\ scans'[i].phase = "dispatching" /\ scans'[i].floor = scan.floor
        /\ scans'[i].backstop = scan.backstop /\ scans'[i].out = scan.out
    BY <1>1, <2>1 DEF ScanRecord
  <2>3. ASSUME NEW s \in Pending, ~scan.backstop  PROVE s \in scan.out \/ Near(s)
    <3>1. SUFFICES ASSUME RankOf(visible, s) >= scan.page * PageSize  PROVE FALSE
      BY <1>2, <2>3 DEF Tracks, Accounted
    <3>2. s \in visible /\ s \in Nat /\ scan.floor <= s /\ RankOf(visible, s) \in Nat
      BY <1>2, Numbers DEF Tracks
    <3>3. CASE scan.page >= PagesOf(scan)
      <4>1. scan.page >= MaxPages
        BY <2>3, <3>3 DEF PagesOf
      <4>2. RankOf(visible, scan.floor) < MaxPages * PageSize
        BY <1>2, <2>3 DEF BudgetCovers, Budget, RankOf
      <4>3. RankOf(visible, s) <= RankOf(visible, scan.floor)
        BY <1>1, <3>2, Numbers, RankOrder
      <4>4. RankOf(visible, scan.floor) \in Nat
        BY Numbers, Newer
      <4>5. scan.page * PageSize >= MaxPages * PageSize
        <5>1. PICK k \in Nat : k = scan.page
          BY <1>1
        <5>. QED  BY <4>1, <5>1, Numbers
      <4>. QED  BY <1>3, <3>1, <3>2, <4>2, <4>3, <4>4, <4>5
    <3>4. CASE Page(scan.page) = {}
      BY <1>1, <3>1, <3>2, <3>4, Numbers, PageBefore DEF Page
    <3>. QED  BY <1>4, <3>3, <3>4
  <2>. QED  BY <1>2, <2>2, <2>3 DEF Tracks, Accounted
<1>5. CASE ~(scan.page >= PagesOf(scan) \/ Page(scan.page) = {})
  <2>1. scans'[i] = [scan EXCEPT !.phase = "resolving", !.items = Page(scan.page)]
    BY <1>1, <1>5 DEF FetchPage
  <2>2. /\ scans'[i].phase = "resolving" /\ scans'[i].floor = scan.floor
        /\ scans'[i].backstop = scan.backstop /\ scans'[i].out = scan.out
        /\ scans'[i].page = scan.page /\ scans'[i].items = Page(scan.page)
    BY <1>1, <2>1 DEF ScanRecord
  <2>3. /\ Page(scan.page) \subseteq visible
        /\ \A t \in visible : t \in Page(scan.page) <=>
             /\ scan.page * PageSize <= RankOf(visible, t)
             /\ RankOf(visible, t) < (scan.page + 1) * PageSize
    BY <1>1, Numbers, OnPage DEF Page
  <2>4. ASSUME NEW s \in Pending, ~scan.backstop  PROVE Accounted(scans'[i], s)
    <3>1. s \in visible /\ s \in Nat /\ RankOf(visible, s) \in Nat
      BY Numbers
    <3>2. \/ s \in scan.out
          \/ Near(s) /\ RankOf(visible, s) < scan.page * PageSize
          \/ RankOf(visible, s) >= scan.page * PageSize
      BY <1>2, <1>3, <2>4, <3>1 DEF Tracks, Accounted
    <3>3. ASSUME NEW t \in Page(scan.page)
          PROVE  /\ RankOf(visible, t) < RankOf(visible, s) => s < t
                 /\ RankOf(visible, s) < RankOf(visible, t) => t < s
      <4>1. t \in visible /\ t \in Nat /\ RankOf(visible, t) \in Nat
        BY <2>3, Numbers
      <4>2. s <= t => RankOf(visible, t) <= RankOf(visible, s)
        BY <3>1, <4>1, Numbers, RankOrder
      <4>3. t <= s => RankOf(visible, s) <= RankOf(visible, t)
        BY <3>1, <4>1, Numbers, RankOrder
      <4>. QED  BY <3>1, <4>1, <4>2, <4>3
    <3>4. CASE s \in scan.out \/ s \in Page(scan.page)
      BY <2>2, <3>4 DEF Accounted
    <3>5. CASE Near(s) /\ RankOf(visible, s) < scan.page * PageSize
      <4>1. \A t \in Page(scan.page) : t <= s + BACKFILL_COUNT
        <5>1. ASSUME NEW t \in Page(scan.page)  PROVE t \in Nat /\ t < s
          <6>1. t \in Nat /\ RankOf(visible, t) \in Nat /\ RankOf(visible, t) >= scan.page * PageSize
            BY <2>3, Numbers
          <6>2. RankOf(visible, s) < RankOf(visible, t)
            BY <1>3, <3>1, <3>5, <6>1
          <6>. QED  BY <3>3, <6>1, <6>2
        <5>. QED  BY <3>1, <5>1, Numbers
      <4>. QED  BY <2>2, <3>5, <4>1 DEF Accounted
    <3>6. CASE RankOf(visible, s) >= scan.page * PageSize /\ s \notin Page(scan.page)
      <4>1. RankOf(visible, s) >= (scan.page + 1) * PageSize
        BY <1>3, <2>3, <3>1, <3>6
      <4>2. PICK t \in Page(scan.page) : TRUE
        BY <1>5
      <4>3. s < t
        <5>1. RankOf(visible, t) \in Nat /\ RankOf(visible, t) < (scan.page + 1) * PageSize
          BY <2>3, Numbers
        <5>2. RankOf(visible, t) < RankOf(visible, s)
          BY <1>3, <3>1, <4>1, <5>1
        <5>. QED  BY <3>3, <5>2
      <4>. QED  BY <2>2, <4>1, <4>2, <4>3 DEF Accounted
    <3>. QED  BY <3>2, <3>4, <3>5, <3>6
  <2>. QED  BY <1>2, <2>2, <2>4 DEF Tracks
<1>. QED  BY <1>4, <1>5

(* A page has been read. A page below the floor ends the harvest, but no   *)
(* VAA that is still to be reached lies behind it: it is not below.        *)
LEMMA ResolveKeepsTrack ==
  ASSUME TypeInv, ScanInv, NEW i \in ScanId, i = current, ResolveClean(i)
  PROVE  /\ Tracks(scans[i])'
         /\ watermark' = watermark \/ watermark' \in visible
<1> DEFINE scan == scans[i]
           next == NextPage(i, {})
<1>1. /\ scan.floor \in Nat /\ scan.page \in Nat /\ scan.items \subseteq visible
      /\ scan \in ScanRecord /\ scans \in [ScanId -> ScanRecord]
  BY Numbers DEF TypeInv, TypeOK, ScanOK, ScanRecord
<1>2. scan.phase = "resolving" /\ Tracks(scan)
  BY EnumeratorAssumption DEF ResolveClean, Resolve, ScanInv, ScanId
<1>3. visible' = visible /\ dispatched' = dispatched /\ Pending' = Pending
  BY DEF ResolveClean, Resolve, Pending
<1>4. /\ watermark' \in Nat /\ watermark <= watermark'
      /\ scan.backstop => watermark' = watermark
      /\ watermark' \in scan.items \cup {watermark}
  <2>1. watermark \in 0 .. LastSeq /\ scan.items \ {} \in SUBSET Seq /\ scan.items \ {} = scan.items
    BY <1>1 DEF TypeInv, TypeOK, ScanRecord
  <2>2. watermark' = IF scan.backstop THEN watermark ELSE RecordSeen(watermark, scan.items \ {})
    BY DEF ResolveClean, Resolve
  <2>. QED  BY <2>1, <2>2, Recorded, EnumeratorAssumption
<1>5. /\ next.phase = "paging" /\ next.page = scan.page + 1 /\ next.floor = scan.floor
      /\ next.backstop = scan.backstop
      /\ next.out = scan.out \cup (scan.items \ dispatched)
      /\ next = [phase |-> "paging", backstop |-> next.backstop, floor |-> next.floor,
                 page |-> next.page, items |-> {}, out |-> next.out]
  <2>1. (scan.items \ {}) \ dispatched = scan.items \ dispatched
    OBVIOUS
  <2> DEFINE out == scan.out \cup (scan.items \ dispatched)
  <2>2. next = [scan EXCEPT !.phase = "paging", !.page = scan.page + 1, !.items = {}, !.out = out]
    BY <2>1, Zenon DEF NextPage
  <2>3. next = [phase |-> "paging", backstop |-> scan.backstop, floor |-> scan.floor,
                page |-> scan.page + 1, items |-> {}, out |-> out]
    <3>. HIDE DEF next, out
    <3>. QED  BY <1>1, <2>2 DEF ScanRecord
  <2>. HIDE DEF next
  <2>. QED  BY <2>3
<1>6. scans'[i] = IF IsPageBelowFloor(scan.floor, scan.items) THEN Harvested(i, next) ELSE next
  BY <1>1 DEF ResolveClean, Resolve, NextPage
<1> HIDE DEF next
<1>7. /\ scans'[i].floor = scan.floor /\ scans'[i].backstop = scan.backstop
      /\ scans'[i].out = scan.out \cup (scan.items \ dispatched)
      /\ \/ /\ IsPageBelowFloor(scan.floor, scan.items)
            /\ scans'[i].phase = "dispatching"
         \/ /\ ~IsPageBelowFloor(scan.floor, scan.items)
            /\ scans'[i].phase = "paging" /\ scans'[i].page = scan.page + 1
  BY <1>5, <1>6 DEF Harvested
<1>8. ASSUME NEW s \in Pending, ~scan.backstop  PROVE Accounted(scans[i], s)'
  <2>1. s \in visible /\ s \notin dispatched /\ s \in Nat /\ scan.floor <= s
    BY <1>2, Numbers DEF Pending, Tracks
  <2>2. Accounted(scan, s)
    BY <1>2, <1>8 DEF Tracks
  <2>3. CASE s \in scan.out \/ s \in scan.items
    BY <1>7, <2>1, <2>3 DEF Accounted
  <2>4. CASE Near(s) /\ \A t \in scan.items : t <= s + BACKFILL_COUNT
    <3>1. Near(s)'
      BY <1>4, <2>4 DEF Near
    <3>. QED  BY <1>7, <3>1 DEF Accounted
  <2>5. CASE /\ RankOf(visible, s) >= (scan.page + 1) * PageSize
             /\ \E t \in scan.items : s < t
    <3>1. PICK t \in scan.items : s < t /\ t \in Nat
      BY <1>1, <2>5, Numbers
    <3>2. ~IsPageBelowFloor(scan.floor, scan.items)
      BY <1>1, <2>1, <3>1 DEF IsPageBelowFloor
    <3>. QED  BY <1>3, <1>7, <2>5, <3>2 DEF Accounted
  <2>. QED  BY <1>2, <2>2, <2>3, <2>4, <2>5 DEF Accounted
<1>9. ASSUME NEW s \in Pending, scan.backstop  PROVE Near(s)'
  BY <1>2, <1>4, <1>9 DEF Tracks, Near
<1>10. /\ scans'[i].phase # "idle"
       /\ scans'[i].floor = 0 \/ scans'[i].floor + BACKFILL_COUNT <= watermark'
       /\ \A s \in Pending : scans'[i].floor <= s
  BY <1>1, <1>2, <1>4, <1>7, Numbers DEF Tracks
<1>. QED  BY <1>1, <1>3, <1>4, <1>7, <1>8, <1>9, <1>10 DEF Tracks

(* A VAA is driven, and with the last one the scan ends. *)
LEMMA ScanDrives ==
  ASSUME faults' = 0, TypeInv, ScanInv, Dispatches \/ EndScan
  PROVE  ScanInv'
<1>1. /\ current # None /\ current \in ScanId /\ scans[current].phase = "dispatching"
      /\ scans \in [ScanId -> ScanRecord] /\ Tracks(scans[current])
      /\ visible' = visible /\ watermark' = watermark
  BY DEF Dispatches, Dispatch, EndScan, TypeInv, TypeOK, ScanRecord, ScanInv
<1>2. ASSUME NEW s \in Seq, Dispatch(s)  PROVE ScanInv'
  <2>1. dispatched' = dispatched \cup {s} /\ current' = current
    BY <1>2, NoFault DEF Dispatch
  <2>2. /\ scans'[current] = [scans[current] EXCEPT !.out = @ \ {s}]
        /\ \A j \in ScanId : j # current => scans'[j] = scans[j]
    BY <1>1, <1>2 DEF Dispatch
  <2>3. /\ scans'[current].phase = "dispatching"
        /\ scans'[current].floor = scans[current].floor
        /\ scans'[current].backstop = scans[current].backstop
        /\ scans'[current].out = scans[current].out \ {s}
    BY <1>1, <2>2 DEF ScanRecord
  <2>4. \A u \in Pending' : u \in Pending /\ u # s
    BY <1>1, <2>1 DEF Pending
  <2>5. ASSUME NEW u \in Pending'
        PROVE  /\ scans'[current].floor <= u
               /\ scans'[current].backstop => Near(u)'
               /\ ~scans'[current].backstop => Accounted(scans[current], u)'
    BY <1>1, <2>1, <2>3, <2>4 DEF Tracks, Accounted, Near
  <2>6. Tracks(scans[current])'
    BY <1>1, <2>1, <2>3, <2>5 DEF Tracks
  <2>. QED  BY <1>1, <2>1, <2>2, <2>6 DEF ScanInv
<1>3. CASE EndScan
  <2>1. /\ current' = None /\ dispatched' = dispatched /\ scans[current].out = {}
        /\ scans' = [scans EXCEPT ![current] = Idle]
    BY <1>3 DEF EndScan
  <2>2. \A j \in ScanId : scans'[j].phase = "idle"
    BY <1>1, <2>1, IdleOK DEF ScanInv
  <2>3. \A s \in Pending : Near(s)
    BY <1>1, <2>1 DEF Tracks, Accounted
  <2>4. \A s \in Pending' : Near(s)'
    BY <1>1, <2>1, <2>3 DEF Pending, Near
  <2>. QED  BY <1>1, <2>1, <2>2, <2>4 DEF ScanInv
<1>. QED  BY <1>2, <1>3 DEF Dispatches

LEMMA ScanInvNext ==
  ASSUME faults' = 0, Disorder <= BACKFILL_COUNT, TypeInv, TypeInv', ScanInv, BudgetCovers,
         [Next]_vars
  PROVE  ScanInv'
<1>1. ASSUME NEW i \in ScanId, FetchPage(i)  PROVE ScanInv'
  <2>1. i = current /\ i # None
    BY <1>1, EnumeratorAssumption DEF FetchPage, ScanInv, ScanId
  <2>2. /\ visible' = visible /\ watermark' = watermark /\ dispatched' = dispatched
        /\ current' = current
        /\ \A j \in ScanId : j # i => scans'[j] = scans[j]
    BY <1>1 DEF FetchPage, TypeInv, TypeOK
  <2>3. Tracks(scans'[i])
    BY <1>1, <2>1, FetchKeepsTrack
  <2>4. Tracks(scans[current])'
    BY <2>1, <2>2, <2>3 DEF Tracks, Accounted, Near, Pending
  <2>. QED  BY <2>1, <2>2, <2>4 DEF ScanInv
<1>2. ASSUME NEW i \in ScanId, ResolveClean(i)  PROVE ScanInv'
  <2>1. i = current /\ i # None
    BY <1>2, EnumeratorAssumption DEF ResolveClean, Resolve, ScanInv, ScanId
  <2>2. /\ visible' = visible /\ current' = current
        /\ \A j \in ScanId : j # i => scans'[j] = scans[j]
    BY <1>2 DEF ResolveClean, Resolve, TypeInv, TypeOK
  <2>3. Tracks(scans[i])' /\ (watermark' = watermark \/ watermark' \in visible)
    BY <1>2, <2>1, ResolveKeepsTrack
  <2>4. Tracks(scans[current])'
    BY <2>1, <2>2, <2>3
  <2>. QED  BY <2>1, <2>2, <2>3, <2>4 DEF ScanInv
<1>3. ASSUME NEW i, FetchFails(i) \/ ResolveBlip(i) \/ Timeout \/ Restart  PROVE FALSE
  BY <1>3, NoFault DEF FetchFails, ResolveBlip, Timeout, Restart
<1>4. CASE BackstopDue \/ Save \/ UNCHANGED vars
  BY <1>4 DEF BackstopDue, Save, vars, ScanInv, Tracks, Accounted, Near, Pending
<1>. QED
  BY <1>1, <1>2, <1>3, <1>4, ScanIndex, ScanStarts, ScanDrives DEF Next, Starts

(* The window of the next incremental scan reaches every VAA near the      *)
(* watermark: the pages before it hold newer ones.                         *)
LEMMA NearInWindow ==
  ASSUME TypeInv, BudgetCovers, NEW s \in visible, Near(s)
  PROVE  s \in Window
<1> DEFINE P == PageSize
           r == RankOf(visible, s)
           k == r \div P
           floor == PagingFloor(watermark)
<1>1. s \in Nat /\ r \in Nat /\ P \in Nat \ {0} /\ floor \in Nat /\ floor <= s
  BY Numbers DEF PagingFloor, Near
<1> HIDE DEF r, P
<1>2. k \in Nat /\ k * P <= r /\ r < (k + 1) * P
  BY <1>1
<1> HIDE DEF k
<1>3. s \in PageOf(visible, k)
  BY <1>2, Numbers, OnPage DEF r, P
<1>4. k \in 0 .. MaxPages - 1
  <2>1. r < MaxPages * P
    <3>1. r <= RankOf(visible, floor) /\ RankOf(visible, floor) \in Nat
      BY <1>1, Numbers, RankOrder, Newer DEF r
    <3>2. RankOf(visible, floor) < MaxPages * PageSize
      BY DEF BudgetCovers, Budget, RankOf
    <3>3. MaxPages * PageSize \in Nat
      BY Numbers
    <3>. QED  BY <1>1, <3>1, <3>2, <3>3 DEF P
  <2>2. k * P < MaxPages * P
    <3>1. k * P \in Nat /\ MaxPages * P \in Nat
      BY <1>1, <1>2, Numbers
    <3>. QED  BY <1>1, <1>2, <2>1, <3>1
  <2>3. k < MaxPages
    BY <1>1, <1>2, <2>2, Numbers
  <2>. QED  BY <1>2, <2>3, Numbers
<1>5. ASSUME NEW j \in 0 .. k - 1  PROVE ~IsPageBelowFloor(floor, PageOf(visible, j))
  <2>1. j \in Nat /\ (j + 1) * P <= k * P
    <3>1. j \in Nat /\ j + 1 <= k
      BY <1>2
    <3>. QED  BY <1>1, <1>2, <3>1
  <2>2. j * P \in Nat /\ (j + 1) * P \in Nat /\ j * P <= (j + 1) * P /\ k * P \in Nat
    BY <1>1, <1>2, <2>1
  <2>3. RankOf(visible, s) >= j * PageSize
    BY <1>1, <1>2, <2>1, <2>2 DEF r, P
  <2>4. PICK t \in PageOf(visible, j) : TRUE
    BY <2>1, <2>3, Numbers, PageBefore
  <2>5. /\ t \in visible /\ t \in Nat /\ RankOf(visible, t) \in Nat
        /\ RankOf(visible, t) < (j + 1) * PageSize
    BY <2>1, <2>4, Numbers, OnPage
  <2>6. RankOf(visible, t) < r
    BY <1>1, <1>2, <2>1, <2>2, <2>5 DEF P
  <2>7. s < t
    <3>1. t <= s => RankOf(visible, s) <= RankOf(visible, t)
      BY <1>1, <2>5, Numbers, RankOrder
    <3>. QED  BY <1>1, <2>5, <2>6, <3>1 DEF r
  <2>. HIDE DEF floor
  <2>. QED  BY <1>1, <2>4, <2>5, <2>7 DEF IsPageBelowFloor
<1>6. s \in UNION { PageOf(visible, n) : n \in { n \in 0 .. MaxPages - 1 :
          \A j \in 0 .. n - 1 : ~IsPageBelowFloor(floor, PageOf(visible, j)) } }
  <2>. HIDE DEF floor
  <2>. QED  BY <1>3, <1>4, <1>5
<1>. QED  BY <1>6 DEF Window, WindowOf

(* The slack of pagingFloor is enough. Until something fails, as long as   *)
(* VAAs are indexed at most BACKFILL_COUNT places late and the page budget *)
(* covers what is listed above the floor, a VAA that no scan has driven is *)
(* in the next incremental scan's window: whatever was indexed while a     *)
(* scan was between two pages or between reading and recording one         *)
(* (wormholescan-pages.ts, watermarks.ts, enumerate.ts).                   *)
THEOREM SlackCoversDisorder ==
  ASSUME Disorder <= BACKFILL_COUNT
  PROVE  Spec /\ []BudgetCovers => []NextScanRetries
<1> DEFINE Sound == faults = 0 => ScanInv
<1>1. Init => Sound
  BY ScanInvInit
<1>2. TypeInv /\ TypeInv' /\ Sound /\ BudgetCovers /\ [Next]_vars => Sound'
  BY FaultsAreCounted, ScanInvNext
<1>3. TypeInv /\ Sound /\ BudgetCovers => NextScanRetries
  <2> SUFFICES ASSUME TypeInv, ScanInv, BudgetCovers, current = None, NEW s \in Pending
               PROVE  s \in Window
    BY DEF NextScanRetries, Pending
  <2>1. s \in visible /\ Near(s)
    BY Numbers DEF ScanInv
  <2>. QED  BY <2>1, NearInWindow
<1> HIDE DEF Sound
<1>. QED  BY <1>1, <1>2, <1>3, TypeInvInit, TypeInvNext, PTL DEF Spec

=============================================================================
