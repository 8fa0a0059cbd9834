----------------------------- MODULE Watermarks -----------------------------
(***************************************************************************)
(* How far a scan pages back: the watermark of one emitter, the floor it   *)
(* gives with a slack for VAAs that are indexed late, and the pages that a *)
(* scan reads above that floor. Shared by the discovery of flows           *)
(* (Enumerator) and by the bridge scans (BridgeRedeem).                    *)
(***************************************************************************)
EXTENDS Integers, FiniteSets

CONSTANTS
  PageSize,        \* wormholescanPageSize
  BACKFILL_COUNT

ASSUME WatermarksAssumption == PageSize \in Nat \ {0} /\ BACKFILL_COUNT \in Nat

(* Wormholescan (external): the listed sequences, newest first, in pages. *)
PageOf(listed, k) ==
  { s \in listed : LET rank == Cardinality({ t \in listed : t > s })
                   IN  k * PageSize <= rank /\ rank < (k + 1) * PageSize }

NoSlack(wm) == wm   \* mutation: late VAAs are not allowed for
PagingFloor(wm) == IF wm > BACKFILL_COUNT THEN wm - BACKFILL_COUNT ELSE 0

IsPageBelowFloor(floor, page) ==
  \/ page = {}
  \/ floor # 0 /\ \A s \in page : s <= floor

(* recordSeen of each of the sequences *)
RecordLast(wm, seqs) ==   \* mutation: an older page lowers the watermark
  IF seqs = {} THEN wm ELSE CHOOSE m \in seqs : \A s \in seqs : m <= s
RecordSeen(wm, seqs) ==
  CHOOSE m \in seqs \cup {wm} : \A s \in seqs \cup {wm} : s <= m

(* What an undisturbed scan of at most `pages` pages would read now. *)
WindowOf(listed, wm, pages) ==
  UNION { PageOf(listed, k) : k \in { n \in 0 .. pages - 1 :
            \A j \in 0 .. n - 1 : ~IsPageBelowFloor(PagingFloor(wm), PageOf(listed, j)) } }

=============================================================================
