--------------------------- MODULE CrankerProofs ---------------------------
(* Proofs about the cranker for every set of messages, every price history *)
(* and any number of faults.                                               *)
EXTENDS Cranker, RelayerProofs

(***************************************************************************)
(* The cranker's transactions are the relayer's instructions               *)
(***************************************************************************)

(* What the proofs need of the process-local state. *)
LocalOK ==
  /\ sent \subseteq Message
  /\ task \in [Scan \X Message ->
                 [at : Reading \cup TxStep \cup {"idle", "probe"},
                  cand : InboxAuthority \cup {None}]]
  /\ late \subseteq Transaction

LEMMA MessageType ==
  ASSUME NEW m \in Message
  PROVE  /\ PairOf(m) \in Pair
         /\ DirectionOf(m) \in Direction
         /\ Transfer[m].token = RecvToken(PairOf(m), DirectionOf(m))
<1>1. Transfer[m].token \in Pair \X {"base", "asset"}
  BY TransferType DEF Token, Side
<1>. QED  BY <1>1 DEF PairOf, DirectionOf, Direction, RecvToken

LEMMA ReceiveTxIsReceive ==
  ASSUME NEW m \in Message, NEW cand, ReceiveTx(m, cand)
  PROVE  Receive(m)
<1>1. cand = Transfer[m].to
  BY DEF ReceiveTx, ReceiveCode
<1>2. PairOf(m) \in Pair /\ DirectionOf(m) \in Direction
  BY MessageType
<1>. QED  BY <1>1, <1>2 DEF ReceiveTx, Receive

(* An open flow is still the one its message opened: of its leg, and until *)
(* the swap with its amount and floor.                                     *)
FlowOfMessage ==
  \A m \in Message : IsOpen(m) =>
    /\ flow[m].direction = DirectionOf(m)
    /\ flow[m].status = "Received" =>
         flow[m].amount = Transfer[m].amount /\ flow[m].min_swap_out = Transfer[m].to[2]

LEMMA SwapTxIsSwap ==
  ASSUME TypeOK, FlowOfMessage, slot \in Slot,
         NEW m \in Message, NEW out \in SwapOutputs(m), SwapTx(m, out)
  PROVE  IsOpen(m) /\ Swaps(m)
<1> DEFINE f == flow[m]
           passed == { RecvToken(f.pair, f.direction), SendToken(f.pair, f.direction) }
           consumed == f.amount - FeeIn(f)
<1>1. IsOpen(m) /\ f.status = "Received" /\ Swap(m, passed, consumed, out)
  BY DEF SwapTx, Swap
<1>2. f \in FlowRecord /\ f.amount = Transfer[m].amount /\ f.direction = DirectionOf(m)
  BY <1>1 DEF TypeOK, IsOpen, FlowOfMessage
<1>3. out \in RouterOutputs
  <2>1. CASE DirectionOf(m) = "Deposit"
    <3>1. Transfer[m].token[2] = "base"
      BY <2>1 DEF DirectionOf
    <3>2. out = depositExpectedOut(Transfer[m].amount, VenuePrice[slot])
      BY <1>2, <2>1 DEF SwapOutputs, VenueOut
    <3>. QED  BY <3>1, <3>2, VenueAssumption
  <2>2. CASE DirectionOf(m) # "Deposit"
    BY <2>2 DEF SwapOutputs
  <2>. QED  BY <2>1, <2>2
<1>4. RecvToken(f.pair, f.direction) \in Token /\ SendToken(f.pair, f.direction) \in Token
  BY <1>2, TokenOfLeg DEF FlowRecord
<1>5. passed \in SUBSET Token
  BY <1>4
<1>6. FeeIn(f) \in Nat /\ FeeIn(f) <= f.amount /\ f.amount \in Nat
  <2>1. 0 \in Nat
    OBVIOUS
  <2>. QED  BY <1>2, <2>1, SwapFees DEF FlowRecord
<1>7. consumed \in 0 .. ata[RecvToken(f.pair, f.direction)]
  <2>1. ata[RecvToken(f.pair, f.direction)] \in Nat
    BY <1>4 DEF TypeOK
  <2>2. ata[RecvToken(f.pair, f.direction)] - FeeIn(f) >= consumed
    BY <1>1 DEF Swap
  <2>. HIDE DEF f
  <2>. QED  BY <1>6, <2>1, <2>2
<1>8. SwapAccountsAllowed(f, passed)
  BY DEF SwapAccountsAllowed
<1>. QED  BY <1>1, <1>3, <1>5, <1>7, <1>8 DEF Swaps

(* The steps of the daemon, of its late transactions and of everybody else *)
(* change the chain by an instruction of the relayer, NTT or time only.    *)
LEMMA StepIsRelayerStep ==
  ASSUME TypeOK, FlowOfMessage, slot \in Slot, LocalOK,
         NEW k \in Scan \X sent, Step(k)
  PROVE  [Next]_vars
<1>1. k[2] \in Message
  BY DEF LocalOK
<1>2. CASE UNCHANGED vars
  BY <1>2
<1>3. CASE SubmitReceive(k)
  BY <1>1, <1>3, ReceiveTxIsReceive DEF SubmitReceive, Next
<1>4. CASE SubmitSwap(k)
  <2>1. CASE \E out \in SwapOutputs(k[2]) : SwapTx(k[2], out)
    BY <1>1, <2>1, SwapTxIsSwap DEF Next
  <2>. QED  BY <1>4, <2>1 DEF SubmitSwap
<1>5. CASE SubmitSend(k)
  BY <1>1, <1>5 DEF SubmitSend, SendTx, Next
<1>6. CASE SubmitRefund(k)
  BY <1>1, <1>6 DEF SubmitRefund, RefundTx, Next
<1>. QED
  BY <1>2, <1>3, <1>4, <1>5, <1>6
     DEF Step, PeekInbox, PeekAta, Recover, Preflight, Probe, SubmitPost, PlanSwap, PlanSend,
         PlanRefund

LEMMA LandsIsRelayerStep ==
  ASSUME TypeOK, FlowOfMessage, slot \in Slot, NEW t \in Transaction, Lands(t)
  PROVE  [Next]_vars
<1>1. t.m \in Message
  BY DEF Transaction
<1>. QED
  BY <1>1, ReceiveTxIsReceive, SwapTxIsSwap DEF Lands, SendTx, RefundTx, Next

LEMMA OthersAreRelayerSteps ==
  ASSUME TypeOK, FlowOfMessage, slot \in Slot,
         NEW m \in Message, OtherRelayer(m) \/ OtherCranker(m)
  PROVE  [Next]_vars
BY ReceiveTxIsReceive, SwapTxIsSwap DEF OtherRelayer, OtherCranker, SendTx, RefundTx, Next

LEMMA CrankStepIsRelayerStep ==
  ASSUME TypeOK, FlowOfMessage, slot \in Slot, LocalOK, [CrankNext]_crankVars
  PROVE  [Next]_vars
<1>1. ASSUME NEW k \in Scan \X sent, Enumerate(k) \/ ReadFails(k) \/ Timeout(k)
      PROVE  UNCHANGED vars
  BY <1>1 DEF Enumerate, ReadFails, Timeout
<1>2. ASSUME NEW t \in late, Late(t)  PROVE [Next]_vars
  <2>1. t \in Transaction
    BY DEF LocalOK
  <2>. QED  BY <1>2, <2>1, LandsIsRelayerStep DEF Late
<1>3. ASSUME NEW m \in sent, OtherRelayer(m) \/ OtherCranker(m) \/ Sibling(m)
      PROVE  [Next]_vars
  <2>1. m \in Message
    BY DEF LocalOK
  <2>. QED  BY <1>3, <2>1, OthersAreRelayerSteps DEF Sibling
<1>4. CASE Crash \/ NextTick
  BY <1>4 DEF Crash, NextTick
<1>5. CASE SlotPasses
  BY <1>5 DEF SlotPasses, Next
<1>6. CASE UNCHANGED crankVars
  BY <1>6 DEF crankVars
<1>. QED
  BY <1>1, <1>2, <1>3, <1>4, <1>5, <1>6, StepIsRelayerStep DEF CrankNext

LEMMA FlowOfMessageNext ==
  ASSUME TypeOK, FlowOfMessage, [Next]_vars
  PROVE  FlowOfMessage'
<1>1. CASE flow' = flow
  BY <1>1 DEF FlowOfMessage, IsOpen
<1>2. ASSUME NEW m \in Message, Receive(m)  PROVE FlowOfMessage'
  <2>1. PICK p \in Pair, d \in Direction, a \in { Transfer[n].to : n \in Message } :
          \E balance : ReceivePins(m, p, d, a[2]) /\ OpenFlow(m, p, d, a[1], a[2], balance)
    BY <1>2 DEF Receive, ReceiveRedeem, ReceiveDelayed, ReceiveSkip
  <2>2. /\ flow'[m].direction = d /\ flow'[m].amount = Transfer[m].amount
        /\ flow'[m].min_swap_out = Transfer[m].to[2]
        /\ \A y \in Message : y # m => flow'[y] = flow[y]
    BY <2>1 DEF OpenFlow, RecipientBound, TypeOK
  <2>3. d = DirectionOf(m)
    BY <2>1 DEF ReceivePins, RecvToken, DirectionOf, Direction
  <2>. QED  BY <2>2, <2>3 DEF FlowOfMessage, IsOpen
<1>3. ASSUME NEW m \in Message, IsOpen(m), Swaps(m)  PROVE FlowOfMessage'
  <2>1. PICK passed, consumed, out : Swap(m, passed, consumed, out)
    BY <1>3 DEF Swaps
  <2>2. flow[m] \in FlowRecord
    BY <1>3 DEF TypeOK, IsOpen
  <2>3. /\ flow'[m].direction = flow[m].direction /\ flow'[m].status = "Swapped"
        /\ \A y \in Message : y # m => flow'[y] = flow[y]
    BY <2>1, <2>2 DEF Swap, TypeOK, FlowRecord
  <2>. QED  BY <1>3, <2>3 DEF FlowOfMessage, IsOpen
<1>4. ASSUME NEW m \in Message, Send(m) \/ Refund(m)  PROVE FlowOfMessage'
  <2>1. flow' = [flow EXCEPT ![m] = NoFlow]
    BY <1>4 DEF Send, Refund, BridgeBack
  <2>2. \A y \in Message : IsOpen(y)' => IsOpen(y) /\ flow'[y] = flow[y]
    BY <2>1 DEF IsOpen, TypeOK
  <2>. QED  BY <2>2 DEF FlowOfMessage
<1>5. ASSUME NEW m \in Message, NttRedeem(m) \/ NttRelease(m)  PROVE flow' = flow
  BY <1>5 DEF NttRedeem, NttRelease
<1>6. ASSUME NEW p \in Pair, SetFees(p)  PROVE flow' = flow
  BY <1>6 DEF SetFees
<1>7. ASSUME NEW t \in Token, Gift(t)  PROVE flow' = flow
  BY <1>7 DEF Gift
<1>8. CASE Tick \/ UNCHANGED vars
  BY <1>1, <1>8 DEF Tick, vars
<1>. QED
  BY <1>1, <1>2, <1>3, <1>4, <1>5, <1>6, <1>7, <1>8 DEF Next

LEMMA SlotNext ==
  ASSUME slot \in Slot, [Next]_vars
  PROVE  slot' \in Slot
<1>1. CASE Tick
  BY <1>1, RelayerAssumption DEF Tick, Slot
<1>2. ASSUME NEW m \in Message, Receive(m)  PROVE slot' = slot
  BY <1>2 DEF Receive, ReceiveRedeem, ReceiveDelayed, ReceiveSkip, OpenFlow
<1>3. ASSUME NEW m \in Message, Swaps(m)  PROVE slot' = slot
  BY <1>3 DEF Swaps, Swap
<1>4. ASSUME NEW m \in Message, NttRedeem(m) \/ NttRelease(m) \/ Send(m) \/ Refund(m)
      PROVE  slot' = slot
  BY <1>4 DEF NttRedeem, NttRelease, Send, Refund, BridgeBack
<1>5. ASSUME NEW p, SetFees(p) \/ Gift(p)  PROVE slot' = slot
  BY <1>5 DEF SetFees, Gift
<1>. QED  BY <1>1, <1>2, <1>3, <1>4, <1>5 DEF Next, vars

(***************************************************************************)
(* What the cranker remembers                                              *)
(***************************************************************************)

LEMMA LegType ==
  ASSUME NEW s, NEW m, NEW status
  PROVE  Leg(s, m, status) \in {"idle", "receive", "swap", "send", "refund"}
BY DEF Leg

(* From the match with the recipient to the transaction, a task carries    *)
(* the message's own inbox.                                                *)
Carries ==
  \A k \in Scan \X Message :
    task[k].at \in {"preflight", "probe", "post", "submitReceive"}
      => task[k].cand = Transfer[k[2]].to

(* How a step may change a task. *)
TaskMoves(k) ==
  \/ task' = task
  \/ task' = [task EXCEPT ![k] = IdleTask]
  \/ \E leg \in {"idle", "receive", "swap", "send", "refund", "peekInbox", "peekAta",
                 "submitSwap", "submitSend", "submitRefund"} :
       task' = [task EXCEPT ![k] = [at |-> leg, cand |-> None]]
  \/ task' = [task EXCEPT ![k] = [at |-> "preflight", cand |-> Transfer[k[2]].to]]
  \/ /\ task[k].at \in {"preflight", "probe", "post"}
     /\ \E next \in {"probe", "post", "submitReceive"} :
          task' = [task EXCEPT ![k] = [at |-> next, cand |-> task[k].cand]]

LEMMA StepMovesTask ==
  ASSUME LocalOK, NEW k \in Scan \X sent,
         Enumerate(k) \/ Step(k) \/ ReadFails(k) \/ Timeout(k)
  PROVE  TaskMoves(k)
<1>1. CASE Enumerate(k) \/ PeekInbox(k) \/ PeekAta(k)
  BY <1>1, LegType DEF Enumerate, PeekInbox, PeekAta, Dispatch, Goto, TaskMoves
<1>2. CASE Recover(k)
  BY <1>2 DEF Recover, Matched, Finish, Goto, TaskMoves
<1>3. CASE Preflight(k) \/ Probe(k) \/ SubmitPost(k)
  BY <1>3 DEF Preflight, Probe, SubmitPost, Finish, Goto, TaskMoves
<1>4. CASE SubmitReceive(k)
  BY <1>4, LegType DEF SubmitReceive, Finish, Goto, TaskMoves
<1>5. CASE PlanSwap(k) \/ PlanSend(k) \/ PlanRefund(k)
  BY <1>5 DEF PlanSwap, PlanSend, PlanRefund, Finish, Goto, TaskMoves
<1>6. CASE SubmitSwap(k)
  BY <1>6, LegType DEF SubmitSwap, Finish, Goto, TaskMoves
<1>7. CASE SubmitSend(k) \/ SubmitRefund(k)
  BY <1>7 DEF SubmitSend, SubmitRefund, Finish, TaskMoves
<1>8. CASE ReadFails(k)
  BY <1>8, LegType DEF ReadFails, PeekFailed, Dispatch, Finish, Goto, TaskMoves
<1>9. CASE Timeout(k)
  BY <1>9 DEF Timeout, Finish, TaskMoves
<1>. QED
  BY <1>1, <1>2, <1>3, <1>4, <1>5, <1>6, <1>7, <1>8, <1>9 DEF Step

LEMMA TaskMoveKeeps ==
  ASSUME LocalOK, Carries, NEW k \in Scan \X Message, TaskMoves(k)
  PROVE  /\ task' \in [Scan \X Message ->
                         [at : Reading \cup TxStep \cup {"idle", "probe"},
                          cand : InboxAuthority \cup {None}]]
         /\ Carries'
<1> DEFINE Task == [at : Reading \cup TxStep \cup {"idle", "probe"},
                    cand : InboxAuthority \cup {None}]
           Kept(t) == t \in Task /\ (t.at \in {"preflight", "probe", "post", "submitReceive"}
                                       => t.cand = Transfer[k[2]].to)
<1>1. Transfer[k[2]].to \in InboxAuthority
  BY TransferType
<1>2. task \in [Scan \X Message -> Task] /\ task[k] \in Task
  BY DEF LocalOK
<1>3. task' = task \/ \E t : Kept(t) /\ task' = [task EXCEPT ![k] = t]
  <2>1. Kept(IdleTask)
    BY DEF IdleTask
  <2>2. \A leg \in {"idle", "receive", "swap", "send", "refund", "peekInbox", "peekAta",
                    "submitSwap", "submitSend", "submitRefund"} :
          Kept([at |-> leg, cand |-> None])
    BY DEF Reading, TxStep
  <2>3. Kept([at |-> "preflight", cand |-> Transfer[k[2]].to])
    BY <1>1 DEF Reading
  <2>4. task[k].at \in {"preflight", "probe", "post"} =>
          \A next \in {"probe", "post", "submitReceive"} :
            Kept([at |-> next, cand |-> task[k].cand])
    BY <1>1 DEF Carries, TxStep
  <2>. HIDE DEF Kept
  <2>. QED  BY <2>1, <2>2, <2>3, <2>4 DEF TaskMoves
<1>4. CASE task' = task
  BY <1>2, <1>4 DEF Carries
<1>5. ASSUME NEW t, Kept(t), task' = [task EXCEPT ![k] = t]
      PROVE  task' \in [Scan \X Message -> Task] /\ Carries'
  BY <1>2, <1>5 DEF Carries
<1>. QED  BY <1>3, <1>4, <1>5

(* What holds of the cranker and of the chain it works on. *)
CrankInv ==
  /\ LocalOK
  /\ Carries
  /\ TypeOK
  /\ FlowOfMessage
  /\ slot \in Slot

LEMMA CrankInvInit ==
  ASSUME CrankInit
  PROVE  CrankInv
<1>1. TypeOK
  BY TypeInit DEF CrankInit
<1>2. task = [k \in Scan \X Message |-> [at |-> "idle", cand |-> None]]
  BY DEF CrankInit, IdleTask
<1>3. LocalOK /\ Carries
  BY <1>2, CrankerAssumption DEF CrankInit, LocalOK, Carries
<1>4. FlowOfMessage
  BY DEF CrankInit, Init, FlowOfMessage, IsOpen
<1>5. slot \in Slot
  BY RelayerAssumption DEF CrankInit, Init, Slot
<1>. QED  BY <1>1, <1>3, <1>4, <1>5 DEF CrankInv

LEMMA LocalNext ==
  ASSUME LocalOK, Carries, [CrankNext]_crankVars
  PROVE  LocalOK' /\ Carries'
<1>1. ASSUME NEW k \in Scan \X sent, Enumerate(k) \/ Step(k) \/ ReadFails(k) \/ Timeout(k)
      PROVE  LocalOK' /\ Carries'
  <2>1. k \in Scan \X Message /\ TaskMoves(k)
    BY <1>1, StepMovesTask DEF LocalOK
  <2>2. sent' = sent
    BY <1>1 DEF Enumerate, Step, ReadFails, Timeout, PeekInbox, PeekAta, Recover, Preflight,
                Probe, SubmitPost, SubmitReceive, PlanSwap, SubmitSwap, PlanSend, SubmitSend,
                PlanRefund, SubmitRefund
  <2>3. CASE Timeout(k)
    <3>1. [at |-> task[k].at, m |-> k[2], cand |-> task[k].cand] \in Transaction
      BY <2>1, <2>3 DEF Timeout, LocalOK, Transaction
    <3>2. late' \subseteq Transaction
      BY <2>3, <3>1 DEF Timeout, LocalOK
    <3>. QED  BY <2>1, <2>2, <3>2, TaskMoveKeeps DEF LocalOK
  <2>4. CASE ~Timeout(k)
    <3>1. late' = late
      BY <1>1, <2>4 DEF Enumerate, Step, ReadFails, PeekInbox, PeekAta, Recover, Preflight,
                  Probe, SubmitPost, SubmitReceive, PlanSwap, SubmitSwap, PlanSend, SubmitSend,
                  PlanRefund, SubmitRefund
    <3>. QED  BY <2>1, <2>2, <3>1, TaskMoveKeeps DEF LocalOK
  <2>. QED  BY <2>3, <2>4
<1>2. CASE Crash
  <2>1. task' = [k \in Scan \X Message |-> [at |-> "idle", cand |-> None]]
    BY <1>2 DEF Crash, IdleTask
  <2>2. \A k \in Scan \X Message : task[k].at \in TxStep =>
          [at |-> task[k].at, m |-> k[2], cand |-> task[k].cand] \in Transaction
    BY DEF LocalOK, Transaction
  <2>3. late' \subseteq Transaction /\ sent' = sent
    BY <1>2, <2>2 DEF Crash, LocalOK
  <2>. QED  BY <2>1, <2>3 DEF LocalOK, Carries
<1>3. ASSUME NEW t \in late, Late(t)  PROVE LocalOK' /\ Carries'
  BY <1>3 DEF Late, LocalOK, Carries
<1>4. ASSUME NEW m, OtherRelayer(m) \/ OtherCranker(m) \/ Sibling(m)
      PROVE  LocalOK' /\ Carries'
  BY <1>4 DEF OtherRelayer, OtherCranker, Sibling, local, LocalOK, Carries
<1>5. CASE SlotPasses \/ NextTick \/ UNCHANGED crankVars
  BY <1>5 DEF SlotPasses, NextTick, crankVars, local, LocalOK, Carries
<1>. QED  BY <1>1, <1>2, <1>3, <1>4, <1>5 DEF CrankNext

LEMMA CrankInvNext ==
  ASSUME CrankInv, [CrankNext]_crankVars
  PROVE  CrankInv' /\ [Next]_vars
<1>1. [Next]_vars
  BY CrankStepIsRelayerStep DEF CrankInv
<1>2. TypeOK' /\ FlowOfMessage' /\ slot' \in Slot
  BY <1>1, TypeNext, FlowOfMessageNext, SlotNext DEF CrankInv
<1>. QED  BY <1>1, <1>2, LocalNext DEF CrankInv

(* The cranker's deployment is one of the relayer program's: with its      *)
(* stale reads, late transactions, crashes and the relayers beside it, the *)
(* chain sees nothing but the relayer's instructions (client.ts). So what  *)
(* is proved of the relayer holds here.                                    *)
THEOREM CrankDrivesRelayer == CrankSpec => Spec
<1>1. CrankInit => CrankInv /\ Init
  BY CrankInvInit DEF CrankInit
<1>2. CrankInv /\ [CrankNext]_crankVars => CrankInv' /\ [Next]_vars
  BY CrankInvNext
<1>. QED  BY <1>1, <1>2, PTL DEF CrankSpec, Spec

(* Whatever a cranker, its late transactions and others do at once, the    *)
(* custody accounts hold exactly the open flows, and a flow settles for    *)
(* its wallet above the signed floor.                                      *)
THEOREM CrankKeepsCustody == CrankSpec => [](CustodyExact /\ SettlesAboveFloor)
BY CrankDrivesRelayer, CustodyIsExact, FloorIsRespected, PTL

(* So does the abstract specification of the relayer: driven by crankers,  *)
(* every message is still an escrow of its own (module FlowEscrow).        *)
THEOREM CrankKeepsEscrows == CrankSpec => Escrow!Spec
BY CrankDrivesRelayer, EscrowIsImplemented, PTL

(* And what is settled stays settled, and an open flow covered, whatever   *)
(* crankers retry.                                                         *)
THEOREM CrankSettlesOnce ==
  ASSUME OneMessagePerInbox
  PROVE  CrankSpec => [][\A m \in Message : Settled(m) => Settled(m)']_vars /\ []NeverStranded
BY CrankDrivesRelayer, SettlementIsFinal, FlowsAreCovered, PTL

(* No transaction of `receive` is sent with another wallet or floor than   *)
(* the message's own, although they are recovered from a transaction that  *)
(* may have bridged several messages and cached under it (receive.ts).     *)
THEOREM RecipientsAlwaysMatch == CrankSpec => []RecipientsMatch
<1>1. CrankInit => CrankInv
  BY CrankInvInit
<1>2. CrankInv /\ [CrankNext]_crankVars => CrankInv'
  BY CrankInvNext
<1>3. CrankInv => RecipientsMatch
  BY DEF CrankInv, Carries, RecipientsMatch
<1>. QED  BY <1>1, <1>2, <1>3, PTL DEF CrankSpec

(***************************************************************************)
(* Types of the process-local state                                        *)
(***************************************************************************)

(* The refund scan has no tasks but its own legs, and only messages under  *)
(* way have a task, a transaction in flight or an entry in a cache.        *)
RefundTask == {"idle", "peekInbox", "peekAta", "refund", "submitRefund"}

Scoped ==
  /\ <<sent, refundIntervalMs>> \in Scenarios
  /\ \A m \in Message : task[<<"refund", m>>].at \in RefundTask
  /\ \A k \in Scan \X Message : task[k].at # "idle" => k[2] \in sent
  /\ \A t \in late : t.m \in sent
  /\ posted \subseteq sent

Cached ==
  /\ sweep \in Sweeps
  /\ terminal \in [Enumerator -> SUBSET sent]
  /\ wallets \in [{ Source[m] : m \in Message } -> InboxAuthority \cup {None}]
  /\ attempts \in [Message -> Nat]
  /\ faults \in 0 .. MaxFaults

LEMMA FaultCounts ==
  ASSUME faults \in 0 .. MaxFaults, NEW kind, Fault(kind)
  PROVE  faults' \in 0 .. MaxFaults
BY CrankerAssumption DEF Fault

(* Where a step of a task leaves it. *)
LEMMA RefundStays ==
  ASSUME LocalOK, Scoped, NEW k \in Scan \X sent, k[1] = "refund",
         Enumerate(k) \/ Step(k) \/ ReadFails(k) \/ Timeout(k)
  PROVE  \E at \in RefundTask : task' = [task EXCEPT ![k] = [at |-> at, cand |-> None]]
<1>0. task[k].at \in RefundTask
  BY DEF Scoped, LocalOK
<1>1. \A status : Leg(k[1], k[2], status) \in {"refund", "idle"}
  BY DEF Leg
<1>2. CASE Enumerate(k) \/ PeekInbox(k) \/ PeekAta(k)
  <2>1. \/ task' = [task EXCEPT ![k] = IdleTask]
        \/ \E leg \in {"refund", "idle", "peekInbox", "peekAta"} :
             task' = [task EXCEPT ![k] = [at |-> leg, cand |-> None]]
    BY <1>1, <1>2 DEF Enumerate, PeekInbox, PeekAta, Dispatch, Goto
  <2>. QED  BY <2>1 DEF IdleTask, RefundTask
<1>3. CASE PlanRefund(k) \/ SubmitRefund(k) \/ Timeout(k)
  BY <1>3 DEF PlanRefund, SubmitRefund, Timeout, Finish, Goto, IdleTask, RefundTask
<1>4. CASE ReadFails(k)
  <2>1. \/ task' = [task EXCEPT ![k] = IdleTask]
        \/ \E leg \in {"refund", "idle"} : task' = [task EXCEPT ![k] = [at |-> leg, cand |-> None]]
    BY <1>0, <1>1, <1>4 DEF ReadFails, PeekFailed, Dispatch, Finish, Goto, RefundTask
  <2>. QED  BY <2>1 DEF IdleTask, RefundTask
<1>. QED
  BY <1>0, <1>2, <1>3, <1>4
     DEF Step, Recover, Preflight, Probe, SubmitPost, SubmitReceive, PlanSwap, SubmitSwap,
         PlanSend, SubmitSend, RefundTask

(* What a step of a task leaves alone. *)
LEMMA StepFrame ==
  ASSUME LocalOK, NEW k \in Scan \X sent,
         Enumerate(k) \/ Step(k) \/ ReadFails(k) \/ Timeout(k)
  PROVE  /\ sent' = sent /\ refundIntervalMs' = refundIntervalMs /\ sweep' = sweep
         /\ \A j \in Scan \X Message : j # k => task'[j] = task[j]
         /\ late' = late \/ late' = late \cup {[at |-> task[k].at, m |-> k[2], cand |-> task[k].cand]}
         /\ posted' = posted \/ posted' = posted \cup {k[2]}
         /\ terminal' = terminal \/ terminal' = [terminal EXCEPT ![ListedBy(k[1])] = @ \cup {k[2]}]
         /\ \/ wallets' = wallets
            \/ wallets' = [wallets EXCEPT ![Source[k[2]]] = Transfer[k[2]].to]
<1>1. TaskMoves(k)
  BY StepMovesTask
<1>2. \A j \in Scan \X Message : j # k => task'[j] = task[j]
  BY <1>1 DEF TaskMoves, LocalOK
<1>3. CASE Enumerate(k) \/ PeekInbox(k) \/ PeekAta(k)
  BY <1>2, <1>3 DEF Enumerate, PeekInbox, PeekAta
<1>4. CASE Recover(k)
  BY <1>2, <1>4 DEF Recover, Matched
<1>5. CASE Preflight(k) \/ Probe(k) \/ SubmitPost(k)
  BY <1>2, <1>5 DEF Preflight, Probe, SubmitPost, PostMessage
<1>6. CASE SubmitReceive(k) \/ SubmitSwap(k) \/ SubmitSend(k) \/ SubmitRefund(k)
  BY <1>2, <1>6 DEF SubmitReceive, SubmitSwap, SubmitSend, SubmitRefund
<1>7. CASE PlanSwap(k) \/ PlanSend(k) \/ PlanRefund(k)
  BY <1>2, <1>7 DEF PlanSwap, PlanSend, PlanRefund
<1>8. CASE ReadFails(k)
  BY <1>2, <1>8 DEF ReadFails, PeekFailed
<1>9. CASE Timeout(k)
  BY <1>2, <1>9 DEF Timeout
<1>. QED
  BY <1>3, <1>4, <1>5, <1>6, <1>7, <1>8, <1>9 DEF Step

(* A step of a task counts at most one error and at most one fault. *)
LEMMA StepCounts ==
  ASSUME LocalOK, Cached, NEW k \in Scan \X sent,
         Enumerate(k) \/ Step(k) \/ ReadFails(k) \/ Timeout(k)
  PROVE  /\ attempts' \in [Message -> Nat]
         /\ faults' \in 0 .. MaxFaults
<1>1. attempts \in [Message -> Nat] /\ faults \in 0 .. MaxFaults /\ k[2] \in Message
  BY DEF Cached, LocalOK
<1>2. ASSUME NEW result, Finish(k, result)  PROVE attempts' \in [Message -> Nat]
  BY <1>1, <1>2 DEF Finish
<1>3. CASE Enumerate(k) \/ PeekInbox(k) \/ PeekAta(k) \/ Probe(k) \/ SubmitPost(k)
  BY <1>1, <1>3 DEF Enumerate, PeekInbox, PeekAta, Probe, SubmitPost
<1>4. CASE Recover(k) \/ Preflight(k) \/ PlanSwap(k) \/ PlanSend(k) \/ PlanRefund(k)
  BY <1>1, <1>2, <1>4 DEF Recover, Preflight, PlanSwap, PlanSend, PlanRefund
<1>5. CASE SubmitReceive(k)
  BY <1>1, <1>2, <1>5, FaultCounts DEF SubmitReceive
<1>6. CASE SubmitSwap(k) \/ SubmitSend(k) \/ SubmitRefund(k)
  BY <1>1, <1>2, <1>6 DEF SubmitSwap, SubmitSend, SubmitRefund
<1>7. CASE ReadFails(k)
  BY <1>1, <1>2, <1>7, FaultCounts DEF ReadFails, PeekFailed
<1>8. CASE Timeout(k)
  BY <1>1, <1>2, <1>8, FaultCounts DEF Timeout
<1>. QED
  BY <1>3, <1>4, <1>5, <1>6, <1>7, <1>8 DEF Step

LEMMA ScopedStep ==
  ASSUME LocalOK, Scoped, Cached, NEW k \in Scan \X sent,
         Enumerate(k) \/ Step(k) \/ ReadFails(k) \/ Timeout(k)
  PROVE  Scoped' /\ Cached'
<1>1. k \in Scan \X Message /\ k[1] \in Scan /\ k[2] \in sent /\ k[2] \in Message
      /\ k = <<k[1], k[2]>>
  BY DEF LocalOK
<1>2. /\ sent' = sent /\ refundIntervalMs' = refundIntervalMs /\ sweep' = sweep
      /\ \A j \in Scan \X Message : j # k => task'[j] = task[j]
  BY StepFrame
<1>3. ASSUME NEW m \in Message  PROVE task'[<<"refund", m>>].at \in RefundTask
  <2>1. <<"refund", m>> \in Scan \X Message
    BY DEF Scan
  <2>2. CASE <<"refund", m>> = k
    <3>1. PICK at \in RefundTask : task' = [task EXCEPT ![k] = [at |-> at, cand |-> None]]
      BY <2>2, RefundStays
    <3>. QED  BY <1>1, <2>2, <3>1 DEF LocalOK
  <2>. QED  BY <1>2, <2>1, <2>2 DEF Scoped
<1>4. \A j \in Scan \X Message : task'[j].at # "idle" => j[2] \in sent'
  BY <1>1, <1>2 DEF Scoped
<1>5. \A t \in late' : t.m \in sent'
  BY <1>1, <1>2, StepFrame DEF Scoped
<1>6. posted' \subseteq sent'
  BY <1>1, <1>2, StepFrame DEF Scoped
<1>7. terminal' \in [Enumerator -> SUBSET sent']
  <2>1. terminal \in [Enumerator -> SUBSET sent] /\ terminal[ListedBy(k[1])] \cup {k[2]} \in SUBSET sent
    <3>1. ListedBy(k[1]) \in Enumerator
      BY DEF ListedBy, Cached, Sweeps, Enumerator
    <3>. QED  BY <1>1, <3>1 DEF Cached
  <2>2. terminal' = terminal \/ terminal' = [terminal EXCEPT ![ListedBy(k[1])] = @ \cup {k[2]}]
    BY StepFrame
  <2>3. terminal' \in [Enumerator -> SUBSET sent]
    BY <1>1, <2>1, <2>2
  <2>. QED  BY <1>2, <2>3
<1>8. wallets' \in [{ Source[m] : m \in Message } -> InboxAuthority \cup {None}]
  <2>1. Transfer[k[2]].to \in InboxAuthority
    BY <1>1, TransferType
  <2>2. \/ wallets' = wallets
        \/ wallets' = [wallets EXCEPT ![Source[k[2]]] = Transfer[k[2]].to]
    BY StepFrame
  <2>. QED  BY <2>1, <2>2 DEF Cached
<1>9. Scoped'
  BY <1>2, <1>3, <1>4, <1>5, <1>6 DEF Scoped
<1>. QED  BY <1>2, <1>7, <1>8, <1>9, StepCounts DEF Cached

LEMMA ScopedCrash ==
  ASSUME LocalOK, Scoped, Cached, Crash
  PROVE  Scoped' /\ Cached'
<1>1. task' = [k \in Scan \X Message |-> [at |-> "idle", cand |-> None]]
  BY DEF Crash, IdleTask
<1>2. \A m \in Message : task'[<<"refund", m>>].at = "idle"
  BY <1>1 DEF Scan
<1>3. \A t \in late' : t.m \in sent'
  <2>1. \A k \in Scan \X Message : task[k].at \in TxStep => k[2] \in sent
    BY DEF Scoped, TxStep
  <2>2. ASSUME NEW t \in late'  PROVE t.m \in sent
    <3>1. CASE t \in late
      BY <3>1 DEF Scoped
    <3>2. CASE t \notin late
      <4>1. PICK k \in Scan \X Message :
              /\ task[k].at \in TxStep
              /\ t = [at |-> task[k].at, m |-> k[2], cand |-> task[k].cand]
        BY <3>2 DEF Crash
      <4>. QED  BY <2>1, <4>1
    <3>. QED  BY <3>1, <3>2
  <2>. QED  BY <2>2 DEF Crash
<1>4. Scoped'
  BY <1>1, <1>2, <1>3 DEF Scoped, Crash, RefundTask
<1>5. faults' \in 0 .. MaxFaults
  BY FaultCounts DEF Crash, Cached
<1>6. /\ sweep' \in Sweeps
      /\ terminal' \in [Enumerator -> SUBSET sent']
      /\ attempts' \in [Message -> Nat]
  BY DEF Crash, FirstSweep, Sweeps
<1>7. wallets' \in [{ Source[m] : m \in Message } -> InboxAuthority \cup {None}]
  BY DEF Crash, Cached
<1>. QED  BY <1>4, <1>5, <1>6, <1>7 DEF Cached

(* The inbox a candidate derives is one of the deployment's. *)
LEMMA CandidateType ==
  ASSUME NEW m \in Message, NEW cand \in Candidates(Source[m])
  PROVE  cand \in InboxAuthority
<1>1. BridgeTx[Source[m]] \in [wallets : SUBSET Wallet, floors : SUBSET Floor]
  BY CrankerAssumption
<1>2. BridgeTx[Source[m]].wallets \subseteq Wallet /\ BridgeTx[Source[m]].floors \subseteq Floor
  BY <1>1
<1>. QED  BY <1>2 DEF Candidates, SourceOwners, StatedFloors, InboxAuthority

LEMMA ScopedOthers ==
  ASSUME LocalOK, Scoped, Cached
  PROVE  /\ \A t \in late : Late(t) => Scoped' /\ Cached'
         /\ \A m \in sent : OtherRelayer(m) \/ OtherCranker(m) \/ Sibling(m) => Scoped' /\ Cached'
         /\ SlotPasses \/ NextTick \/ UNCHANGED crankVars => Scoped' /\ Cached'
<1>1. ASSUME NEW t \in late, Late(t)  PROVE Scoped' /\ Cached'
  <2>1. posted' = posted \/ posted' = posted \cup {t.m}
    BY <1>1 DEF Late, Lands, PostMessage
  <2>2. posted' \subseteq sent /\ late' \subseteq late
    BY <1>1, <2>1 DEF Scoped, Late
  <2>. QED  BY <1>1, <2>2 DEF Late, Scoped, Cached
<1>2. ASSUME NEW m \in sent, OtherRelayer(m) \/ OtherCranker(m)  PROVE Scoped' /\ Cached'
  <2>1. posted' = posted \/ posted' = posted \cup {m}
    BY <1>2 DEF OtherRelayer, OtherCranker
  <2>2. posted' \subseteq sent
    BY <2>1 DEF Scoped
  <2>. QED  BY <1>2, <2>2 DEF OtherRelayer, OtherCranker, local, Scoped, Cached
<1>3. ASSUME NEW m \in sent, Sibling(m)  PROVE Scoped' /\ Cached'
  <2>1. m \in Message
    BY DEF LocalOK
  <2>2. PICK cand \in Candidates(Source[m]) : wallets' = [wallets EXCEPT ![Source[m]] = cand]
    BY <1>3 DEF Sibling
  <2>3. cand \in InboxAuthority
    BY <2>1, CandidateType
  <2>4. wallets' \in [{ Source[n] : n \in Message } -> InboxAuthority \cup {None}]
    BY <2>2, <2>3 DEF Cached
  <2>. QED  BY <1>3, <2>4 DEF Sibling, Scoped, Cached
<1>4. CASE SlotPasses \/ NextTick \/ UNCHANGED crankVars
  BY <1>4 DEF SlotPasses, NextTick, crankVars, local, Scoped, Cached
<1>. QED  BY <1>1, <1>2, <1>3, <1>4

LEMMA ScopedNext ==
  ASSUME LocalOK, Scoped, Cached, [CrankNext]_crankVars
  PROVE  Scoped' /\ Cached'
BY ScopedStep, ScopedCrash, ScopedOthers DEF CrankNext

LEMMA ScopedInit ==
  ASSUME CrankInit
  PROVE  Scoped /\ Cached
<1>1. task = [k \in Scan \X Message |-> [at |-> "idle", cand |-> None]]
  BY DEF CrankInit, IdleTask
<1>2. \A m \in Message : task[<<"refund", m>>].at = "idle"
  BY <1>1 DEF Scan
<1>3. <<sent, refundIntervalMs>> \in Scenarios
  <2>1. PICK s \in Scenarios : sent = s[1] /\ refundIntervalMs = s[2]
    BY DEF CrankInit
  <2>2. s \in (SUBSET Message) \X Nat
    BY CrankerAssumption
  <2>3. s = <<s[1], s[2]>>
    BY <2>2
  <2>. QED  BY <2>1, <2>3
<1>4. Scoped
  BY <1>1, <1>2, <1>3 DEF CrankInit, Scoped, RefundTask
<1>5. Cached
  BY CrankerAssumption DEF CrankInit, Cached, FirstSweep, Sweeps
<1>. QED  BY <1>4, <1>5

(* The caches, tasks and counters of the process keep their types through  *)
(* every race, timeout and crash: in particular the refund scan never runs *)
(* a leg of the advance scan, the caches never name a message that is not  *)
(* under way, and no transaction, however late, creates the transceiver    *)
(* message of one that is not (index.ts, receive.ts).                      *)
THEOREM CrankTypeCorrect == CrankSpec => []CrankTypeOK
<1> DEFINE I == CrankInv /\ Scoped /\ Cached
<1>1. CrankInit => I
  BY CrankInvInit, ScopedInit
<1>2. I /\ [CrankNext]_crankVars => I'
  BY CrankInvNext, ScopedNext DEF CrankInv
<1>3. I => CrankTypeOK
  BY DEF CrankInv, LocalOK, Scoped, Cached, CrankTypeOK, RefundTask
<1>. QED  BY <1>1, <1>2, <1>3, PTL DEF CrankSpec

(***************************************************************************)
(* Flows written off                                                       *)
(***************************************************************************)

(* The balance of an inbox is only looked at once its item was seen        *)
(* released, which it then stays.                                          *)
SeenReleased ==
  \A k \in Scan \X Message : task[k].at = "peekAta" => inbox[k[2]] = "released"

LEMMA ChainAdvances ==
  ASSUME TypeOK, [Next]_vars
  PROVE  \A m \in Message :
           /\ opened'[m] >= opened[m]
           /\ inbox[m] = "released" => inbox'[m] = "released"
<1>0. \A m \in Message : opened[m] \in Nat
  BY DEF TypeOK
<1>1. CASE UNCHANGED <<inbox, opened>>
  BY <1>0, <1>1
<1>2. ASSUME NEW m \in Message, NttRedeem(m) \/ NttRelease(m)
      PROVE  opened' = opened /\ \A y \in Message : inbox[y] = "released" => inbox'[y] = "released"
  BY <1>2 DEF NttRedeem, NttRelease, TypeOK
<1>3. ASSUME NEW m \in Message, Receive(m)
      PROVE  \A y \in Message :
               /\ opened'[y] >= opened[y]
               /\ inbox[y] = "released" => inbox'[y] = "released"
  <2>1. /\ opened' = [opened EXCEPT ![m] = @ + 1]
        /\ \/ inbox[m] = "absent" /\ \E i : inbox' = [inbox EXCEPT ![m] = i]
           \/ inbox' = inbox
    BY <1>3, ReceiveDraws
  <2>. QED  BY <1>0, <2>1 DEF TypeOK
<1>4. ASSUME NEW m \in Message, Swaps(m) \/ Send(m) \/ Refund(m)
      PROVE  UNCHANGED <<inbox, opened>>
  BY <1>4 DEF Swaps, Swap, Send, Refund, BridgeBack
<1>5. ASSUME NEW x, SetFees(x) \/ Gift(x)  PROVE UNCHANGED <<inbox, opened>>
  BY <1>5 DEF SetFees, Gift
<1>6. CASE Tick \/ UNCHANGED vars
  BY <1>1, <1>6 DEF Tick, vars
<1>. QED
  BY <1>0, <1>1, <1>2, <1>3, <1>4, <1>5, <1>6 DEF Next

(* Only classifyMissingFlow writes a flow off, and only on its second read. *)
LEMMA WriteOff ==
  ASSUME LocalOK, NEW k \in Scan \X sent,
         Enumerate(k) \/ Step(k) \/ ReadFails(k) \/ Timeout(k)
  PROVE  /\ task'[k].at = "peekAta" => inbox[k[2]] = "released" /\ inbox' = inbox
         /\ \/ terminal' = terminal
            \/ /\ task[k].at = "peekAta" /\ ~(Balance(k[2]) >= Transfer[k[2]].amount)
               /\ terminal' = [terminal EXCEPT ![ListedBy(k[1])] = @ \cup {k[2]}]
               /\ opened' = opened
<1>0. k \in Scan \X Message
  BY DEF LocalOK
<1>1. ASSUME NEW at, at # "peekAta", NEW cand, Goto(k, at, cand)  PROVE task'[k].at # "peekAta"
  BY <1>0, <1>1 DEF Goto, LocalOK
<1>2. ASSUME NEW result, Finish(k, result)  PROVE task'[k].at # "peekAta"
  BY <1>0, <1>2 DEF Finish, IdleTask, LocalOK
<1>3. \A s, m, status : Leg(s, m, status) # "peekAta"
  BY LegType
<1>4. CASE Enumerate(k)
  BY <1>1, <1>3, <1>4 DEF Enumerate, Dispatch
<1>5. CASE PeekInbox(k)
  BY <1>1, <1>3, <1>5 DEF PeekInbox, Dispatch, vars
<1>6. CASE PeekAta(k)
  <2>1. CASE Balance(k[2]) >= Transfer[k[2]].amount
    BY <1>1, <1>3, <1>6, <2>1 DEF PeekAta, Dispatch
  <2>2. CASE ~(Balance(k[2]) >= Transfer[k[2]].amount)
    BY <1>0, <1>6, <2>2 DEF PeekAta, IdleTask, LocalOK, vars
  <2>. QED  BY <2>1, <2>2
<1>7. CASE Recover(k) \/ Preflight(k) \/ Probe(k) \/ SubmitPost(k)
  BY <1>1, <1>2, <1>7 DEF Recover, Preflight, Probe, SubmitPost
<1>8. CASE SubmitReceive(k) \/ SubmitSwap(k) \/ SubmitSend(k) \/ SubmitRefund(k)
  BY <1>1, <1>2, <1>3, <1>8 DEF SubmitReceive, SubmitSwap, SubmitSend, SubmitRefund
<1>9. CASE PlanSwap(k) \/ PlanSend(k) \/ PlanRefund(k)
  BY <1>1, <1>2, <1>9 DEF PlanSwap, PlanSend, PlanRefund
<1>10. CASE ReadFails(k)
  BY <1>1, <1>2, <1>3, <1>10 DEF ReadFails, PeekFailed, Dispatch
<1>11. CASE Timeout(k)
  BY <1>2, <1>11 DEF Timeout
<1>. QED
  BY <1>4, <1>5, <1>6, <1>7, <1>8, <1>9, <1>10, <1>11 DEF Step

LEMMA AbandonNext ==
  ASSUME CrankInv, Cached, InboxOfOne, SeenReleased, NeverAbandonsPending,
         [CrankNext]_crankVars
  PROVE  SeenReleased' /\ NeverAbandonsPending'
<1>1. \A m \in Message : /\ opened[m] \in Nat /\ opened'[m] \in Nat /\ opened'[m] >= opened[m]
                         /\ inbox[m] = "released" => inbox'[m] = "released"
  <2>1. [Next]_vars /\ TypeOK /\ TypeOK'
    BY CrankInvNext DEF CrankInv
  <2>. QED  BY <2>1, ChainAdvances DEF TypeOK
<1>2. LocalOK /\ sent \subseteq Message /\ terminal \in [Enumerator -> SUBSET sent]
  BY DEF CrankInv, LocalOK, Cached
<1>3. CASE task' = task /\ terminal' = terminal
  BY <1>1, <1>2, <1>3 DEF SeenReleased, NeverAbandonsPending
<1>4. ASSUME NEW k \in Scan \X sent, Enumerate(k) \/ Step(k) \/ ReadFails(k) \/ Timeout(k)
      PROVE  SeenReleased' /\ NeverAbandonsPending'
  <2>1. SeenReleased'
    <3>1. \A j \in Scan \X Message : j # k => task'[j] = task[j]
      BY <1>2, <1>4, StepFrame
    <3>2. task'[k].at = "peekAta" => inbox'[k[2]] = "released"
      BY <1>2, <1>4, WriteOff
    <3>. QED  BY <1>1, <3>1, <3>2 DEF SeenReleased
  <2>2. CASE terminal' = terminal
    BY <1>1, <1>2, <2>1, <2>2 DEF NeverAbandonsPending
  <2>3. CASE terminal' # terminal
    <3>1. /\ task[k].at = "peekAta" /\ ~(Balance(k[2]) >= Transfer[k[2]].amount)
          /\ terminal' = [terminal EXCEPT ![ListedBy(k[1])] = @ \cup {k[2]}]
      BY <1>2, <1>4, <2>3, WriteOff
    <3>2. k[2] \in Message /\ k \in Scan \X Message
      BY <1>2
    <3>3. inbox[k[2]] = "released" /\ Transfer[k[2]].amount \in Nat
      BY <3>1, <3>2, TransferType DEF SeenReleased
    <3>4. opened[k[2]] >= 1
      BY <3>1, <3>2, <3>3 DEF InboxOfOne, Holds, Balance
    <3>5. ASSUME NEW s \in Enumerator, NEW m \in terminal'[s]  PROVE opened'[m] >= 1
      <4>1. m \in terminal[s] \/ m = k[2]
        BY <1>2, <3>1, <3>2
      <4>2. m \in Message
        BY <1>2, <3>2, <4>1
      <4>3. opened[m] >= 1
        BY <3>4, <4>1 DEF NeverAbandonsPending
      <4>. QED  BY <1>1, <4>2, <4>3
    <3>. QED  BY <2>1, <3>5 DEF NeverAbandonsPending
  <2>. QED  BY <2>2, <2>3
<1>5. CASE Crash
  <2>1. \A k \in Scan \X Message : task'[k].at = "idle"
    BY <1>5 DEF Crash, IdleTask
  <2>2. \A s \in Enumerator : terminal'[s] = {}
    BY <1>5 DEF Crash
  <2>. QED  BY <2>1, <2>2 DEF SeenReleased, NeverAbandonsPending
<1>6. ASSUME NEW t, Late(t)  PROVE task' = task /\ terminal' = terminal
  BY <1>6 DEF Late
<1>7. ASSUME NEW m, OtherRelayer(m) \/ OtherCranker(m) \/ Sibling(m)
      PROVE  task' = task /\ terminal' = terminal
  BY <1>7 DEF OtherRelayer, OtherCranker, Sibling, local
<1>8. CASE SlotPasses \/ NextTick \/ UNCHANGED crankVars
  BY <1>3, <1>8 DEF SlotPasses, NextTick, crankVars, local
<1>. QED
  BY <1>3, <1>4, <1>5, <1>6, <1>7, <1>8 DEF CrankNext

(* Where no two messages share an inbox account, classifyMissingFlow never *)
(* takes a flow that was never opened for one that is over: whoever        *)
(* redeems, releases, receives or sweeps between its two reads, and        *)
(* whatever crashes or fails meanwhile (enumerate.ts).                     *)
THEOREM PendingNeverAbandoned ==
  ASSUME OneMessagePerInbox
  PROVE  CrankSpec => []NeverAbandonsPending
<1> DEFINE I == /\ CrankInv /\ Scoped /\ Cached
                /\ InboxOfOne /\ SeenReleased /\ NeverAbandonsPending
<1>1. CrankInit => I
  <2> SUFFICES ASSUME CrankInit  PROVE I
    OBVIOUS
  <2>1. CrankInv /\ Scoped /\ Cached /\ InboxOfOne
    BY CrankInvInit, ScopedInit, InboxOfOneInit DEF CrankInit
  <2>2. SeenReleased /\ NeverAbandonsPending
    BY DEF CrankInit, IdleTask, SeenReleased, NeverAbandonsPending
  <2>. QED  BY <2>1, <2>2
<1>2. I /\ [CrankNext]_crankVars => I'
  BY CrankInvNext, ScopedNext, InboxOfOneNext, AbandonNext DEF CrankInv
<1>. QED  BY <1>1, <1>2, PTL DEF CrankSpec

(***************************************************************************)
(* The signed floor at OnRe                                                *)
(***************************************************************************)

LEMMA TimesMonotone ==
  ASSUME NEW x \in Nat, NEW y \in Nat, NEW z \in Nat, x <= y
  PROVE  x * z <= y * z
OBVIOUS

LEMMA Quotient ==
  ASSUME NEW n \in Nat, NEW d \in Nat \ {0}
  PROVE  n \div d \in Nat /\ (n \div d) * d <= n
OBVIOUS

LEMMA QuotientIsLargest ==
  ASSUME NEW n \in Nat, NEW d \in Nat \ {0}, NEW q \in Nat, q * d <= n
  PROVE  q <= n \div d
OBVIOUS

(* A tolerance of k - r parts in k on the quotient of one price covers a   *)
(* second price that is higher by no more than that, in spite of the three *)
(* roundings.                                                              *)
LEMMA ToleranceCovers ==
  ASSUME NEW n \in Nat, NEW u \in Nat \ {0}, NEW p \in Nat \ {0}, NEW q \in Nat \ {0},
         NEW k \in Nat \ {0}, NEW r \in Nat, q * r <= p * k
  PROVE  ((n \div (p * u)) * r) \div k <= n \div (q * u)
<1>1. /\ p * u \in Nat \ {0} /\ q * u \in Nat \ {0}
      /\ q * r \in Nat /\ p * k \in Nat
  OBVIOUS
<1>2. PICK g \in Nat : g = n \div (p * u) /\ g * (p * u) <= n
  BY <1>1, Quotient
<1>3. PICK f \in Nat : f = (g * r) \div k /\ f * k <= g * r
  <2>1. g * r \in Nat
    OBVIOUS
  <2>. QED  BY <2>1, Quotient
<1>4. (f * k) * q <= (g * r) * q
  BY <1>3, TimesMonotone
<1>5. (q * r) * g <= (p * k) * g
  BY <1>1, TimesMonotone
<1>6. /\ (g * r) * q = (q * r) * g
      /\ (f * k) * q = (f * q) * k
      /\ (p * k) * g = (g * p) * k
  OBVIOUS
<1>7. PICK a \in Nat, b \in Nat : a = f * q /\ b = g * p
  OBVIOUS
<1>8. a * k <= b * k
  <2>1. PICK x \in Nat : x = (g * r) * q
    OBVIOUS
  <2>. QED  BY <1>4, <1>5, <1>6, <1>7, <2>1
<1>9. a <= b
  BY <1>8
<1>10. a * u <= b * u
  BY <1>9, TimesMonotone
<1>11. f * (q * u) = a * u /\ g * (p * u) = b * u
  BY <1>7
<1>12. f * (q * u) <= n
  BY <1>2, <1>10, <1>11
<1>13. f <= n \div (q * u)
  BY <1>1, <1>12, QuotientIsLargest
<1>. QED  BY <1>2, <1>3, <1>13

(* Every deposit states a floor of at most computeMinSwapOut for its       *)
(* amount, OnRe's price in the slot it was signed and the tolerance.       *)
FloorsAsSigned ==
  \A m \in Message : DirectionOf(m) = "Deposit" =>
    Transfer[m].to[2] <=
      computeMinSwapOut("Deposit", Transfer[m].amount, VenuePrice[SignedAt], slippageBps, 0)

(* A deposit signed at OnRe's price can be swapped at OnRe as long as the  *)
(* price has not risen by more than the tolerance: the roundings of        *)
(* calculator.ts never cost it its floor, for any amounts, prices and      *)
(* decimals.                                                               *)
THEOREM FloorStaysReachable ==
  ASSUME FloorsAsSigned
  PROVE  CrankSpec => []FloorReachable
<1>1. CrankInit => CrankInv
  BY CrankInvInit
<1>2. CrankInv /\ [CrankNext]_crankVars => CrankInv'
  BY CrankInvNext
<1>3. CrankInv => FloorReachable
  <2> SUFFICES ASSUME CrankInv, NEW m \in Message, IsOpen(m), flow[m].status = "Received",
                      DirectionOf(m) = "Deposit",
                      VenuePrice[slot] * (BPS - slippageBps) <= VenuePrice[SignedAt] * BPS
               PROVE  VenueOut(m) >= flow[m].min_swap_out
    BY DEF FloorReachable
  <2> DEFINE n == Transfer[m].amount * AssetUnit * PriceDenominator
             p == VenuePrice[SignedAt]
             q == VenuePrice[slot]
             r == 10000 - slippageBps
             signed == ((n \div (p * BaseUnit)) * r) \div 10000
  <2>1. p \in Nat \ {0} /\ q \in Nat \ {0}
    <3>1. slot \in Slot /\ SignedAt \in Slot
      BY RelayerAssumption, CrankerAssumption DEF CrankInv, Slot
    <3>. QED  BY <3>1, VenueAssumption
  <2>2. n \in Nat /\ BaseUnit \in Nat \ {0} /\ r \in Nat
    <3>1. Transfer[m].amount \in Nat
      BY TransferType
    <3>2. AssetUnit \in Nat /\ PriceDenominator \in Nat /\ BaseUnit \in Nat \ {0}
      BY PricingAssumption
    <3>3. r \in Nat
      <4>1. slippageBps \in 0 .. BPS
        BY CrankerAssumption
      <4>. QED  BY <4>1 DEF BPS
    <3>. QED  BY <3>1, <3>2, <3>3
  <2>3. flow[m].amount = Transfer[m].amount /\ flow[m].min_swap_out = Transfer[m].to[2]
    BY DEF CrankInv, FlowOfMessage
  <2>4. Transfer[m].to[2] <= signed
    BY DEF FloorsAsSigned, computeMinSwapOut, depositExpectedOut, BPS_DENOMINATOR
  <2>5. VenueOut(m) = n \div (q * BaseUnit)
    BY <2>3 DEF VenueOut, depositExpectedOut
  <2>6. Transfer[m].to[2] \in Nat
    BY TransferType DEF InboxAuthority, Floor
  <2>7. q * r <= p * 10000
    BY DEF BPS
  <2> HIDE DEF n, p, q, r
  <2>8. signed <= n \div (q * BaseUnit)
    BY <2>1, <2>2, <2>7, ToleranceCovers
  <2>9. n \div (q * BaseUnit) \in Nat /\ signed \in Nat
    <3>1. q * BaseUnit \in Nat \ {0} /\ p * BaseUnit \in Nat \ {0}
      BY <2>1, <2>2
    <3>2. n \div (q * BaseUnit) \in Nat /\ n \div (p * BaseUnit) \in Nat
      BY <2>2, <3>1, Quotient
    <3>3. (n \div (p * BaseUnit)) * r \in Nat
      BY <2>2, <3>2
    <3>. QED  BY <3>2, <3>3, Quotient
  <2> HIDE DEF signed
  <2>. QED  BY <2>3, <2>4, <2>5, <2>6, <2>8, <2>9
<1>. QED  BY <1>1, <1>2, <1>3, PTL DEF CrankSpec

(***************************************************************************)
(* Errors in a row of a deposit                                            *)
(***************************************************************************)

(* The SDK's mirror of OnRe's price is exact. *)
MirrorsOnre == \A s \in Slot : SpotPrice(Offer, nowUnix(s)) = VenuePrice[s]

(* OnRe's price, the value of a share, does not fall. *)
PricesRise == \A s, t \in Slot : s <= t => VenuePrice[s] <= VenuePrice[t]

(* A message that no intent program sent is not addressed to an inbox that *)
(* its FOGO transaction names.                                             *)
OursAreIntents ==
  \A m \in Message : Transfer[m].to \in Candidates(Source[m]) => Transfer[m].intent

Advance(m) == <<"advance", m>>

(* At OnRe's price of the moment the deposit misses its floor. *)
TooDear(m) ==
  /\ IsOpen(m) /\ flow[m].status = "Received"
  /\ depositExpectedOut(Transfer[m].amount, VenuePrice[slot]) < Transfer[m].to[2]

(* What others and time can do to a deposit to make a transaction of ours  *)
(* fail, each of which happens once: redeem its message, open its flow,    *)
(* and close it or let it become too dear.                                 *)
Count(b) == IF b THEN 1 ELSE 0
Setbacks(m) ==
  Count(inbox[m] # "absent") + Count(opened[m] >= 1) + Count(Settled(m) \/ TooDear(m))

(* The transaction the advance scan is about to submit would fail, and not *)
(* as a lost race.                                                         *)
Doomed(m) ==
  LET at == task[Advance(m)].at
  IN  \/ /\ at \in {"probe", "post", "submitReceive"}
         /\ inbox[m] = "delayed" \/ IsOpen(m)
      \/ at = "submitSwap" /\ (~IsOpen(m) \/ TooDear(m))
      \/ at = "submitSend" /\ ~(IsOpen(m) /\ flow[m].status = "Swapped")

(* The errors of a deposit, the one to come included, are accounted for by *)
(* faults and setbacks.                                                    *)
ErrorsExplained ==
  \A m \in Message : DirectionOf(m) = "Deposit" =>
    attempts[m] + Count(Doomed(m)) <= faults + Setbacks(m)

(* The advance scan has no task of the refund scan, and a task past the    *)
(* recovery, like the wallet cache, has an inbox its transaction names.    *)
Derived ==
  /\ \A m \in Message :
       /\ task[Advance(m)].at \notin {"refund", "submitRefund"}
       /\ task[Advance(m)].at \in {"preflight", "probe", "post", "submitReceive"}
            => Transfer[m].to \in Candidates(Source[m])
       /\ wallets[Source[m]] \in Candidates(Source[m]) \cup {None}

(* A higher price never buys more. *)
LEMMA DearerBuysLess ==
  ASSUME NEW n \in Nat, NEW u \in Nat \ {0}, NEW p \in Nat \ {0}, NEW q \in Nat \ {0}, p <= q
  PROVE  n \div (q * u) <= n \div (p * u)
<1>1. p * u \in Nat \ {0} /\ q * u \in Nat \ {0} /\ p * u <= q * u
  BY TimesMonotone
<1>2. PICK x \in Nat \ {0}, y \in Nat \ {0} : x = p * u /\ y = q * u /\ x <= y
  BY <1>1
<1>3. PICK g \in Nat : g = n \div y /\ g * y <= n
  BY <1>2, Quotient
<1>4. g * x \in Nat /\ g * y \in Nat /\ g * x <= g * y
  BY <1>2
<1>5. g * x <= n
  BY <1>3, <1>4
<1>6. g <= n \div x
  BY <1>2, <1>5, QuotientIsLargest
<1>. QED  BY <1>2, <1>3, <1>6

LEMMA DearStaysDear ==
  ASSUME PricesRise, NEW m \in Message, NEW s \in Slot, NEW t \in Slot, s <= t
  PROVE  depositExpectedOut(Transfer[m].amount, VenuePrice[t])
           <= depositExpectedOut(Transfer[m].amount, VenuePrice[s])
<1> DEFINE n == Transfer[m].amount * AssetUnit * PriceDenominator
<1>1. Transfer[m].amount \in Nat
  BY TransferType
<1>2. n \in Nat /\ BaseUnit \in Nat \ {0}
  BY <1>1, PricingAssumption
<1>3. VenuePrice[s] \in Nat \ {0} /\ VenuePrice[t] \in Nat \ {0} /\ VenuePrice[s] <= VenuePrice[t]
  BY VenueAssumption DEF PricesRise
<1> HIDE DEF n
<1>4. n \div (VenuePrice[t] * BaseUnit) <= n \div (VenuePrice[s] * BaseUnit)
  BY <1>2, <1>3, DearerBuysLess
<1>. QED  BY <1>4 DEF n, depositExpectedOut

(* What a step of the deployment may do to the chain: the transactions of  *)
(* crankers, NTT and time.                                                 *)
ChainMove ==
  \/ \E m \in Message : \/ \E cand : ReceiveTx(m, cand)
                        \/ \E out \in SwapOutputs(m) : SwapTx(m, out)
                        \/ SendTx(m) \/ RefundTx(m)
                        \/ NttRedeem(m) \/ NttRelease(m)
  \/ Tick
  \/ UNCHANGED vars

LEMMA CrankMovesChain ==
  ASSUME LocalOK, [CrankNext]_crankVars
  PROVE  ChainMove
<1>1. ASSUME NEW k \in Scan \X sent, Enumerate(k) \/ ReadFails(k) \/ Timeout(k)
      PROVE  UNCHANGED vars
  BY <1>1 DEF Enumerate, ReadFails, Timeout
<1>2. ASSUME NEW k \in Scan \X sent, Step(k)  PROVE ChainMove
  <2>1. k[2] \in Message
    BY DEF LocalOK
  <2>2. CASE SubmitReceive(k) \/ SubmitSend(k) \/ SubmitRefund(k)
    BY <2>1, <2>2 DEF SubmitReceive, SubmitSend, SubmitRefund, ChainMove
  <2>3. CASE SubmitSwap(k)
    <3>1. CASE \E out \in SwapOutputs(k[2]) : SwapTx(k[2], out)
      BY <2>1, <3>1 DEF ChainMove
    <3>. QED  BY <2>3, <3>1 DEF SubmitSwap, ChainMove
  <2>. QED
    BY <1>2, <2>2, <2>3
       DEF Step, PeekInbox, PeekAta, Recover, Preflight, Probe, SubmitPost, PlanSwap, PlanSend,
           PlanRefund, ChainMove
<1>3. ASSUME NEW t \in late, Late(t)  PROVE ChainMove
  <2>1. t.m \in Message
    BY DEF LocalOK, Transaction
  <2>. QED  BY <1>3, <2>1 DEF Late, Lands, ChainMove
<1>4. ASSUME NEW m \in sent, OtherRelayer(m) \/ OtherCranker(m) \/ Sibling(m)
      PROVE  ChainMove
  <2>1. m \in Message
    BY DEF LocalOK
  <2>. QED  BY <1>4, <2>1 DEF OtherRelayer, OtherCranker, Sibling, ChainMove
<1>5. CASE Crash \/ SlotPasses \/ NextTick \/ UNCHANGED crankVars
  BY <1>5 DEF Crash, SlotPasses, NextTick, crankVars, ChainMove
<1>. QED
  BY <1>1, <1>2, <1>3, <1>4, <1>5 DEF CrankNext, ChainMove

(* The life of a deposit's flow: opened, swapped unless it is too dear,    *)
(* closed.                                                                 *)
LEMMA FlowMoves ==
  ASSUME TypeOK, FlowOfMessage, slot \in Slot, ChainMove,
         NEW m \in Message, DirectionOf(m) = "Deposit"
  PROVE  \/ flow'[m] = flow[m] /\ (slot' = slot \/ slot' = slot + 1)
         \/ ~IsOpen(m) /\ slot' = slot /\ opened'[m] = opened[m] + 1
         \/ /\ IsOpen(m) /\ flow[m].status = "Received" /\ ~TooDear(m)
            /\ flow'[m].status = "Swapped" /\ slot' = slot
         \/ IsOpen(m) /\ ~IsOpen(m)' /\ slot' = slot
<1>1. ASSUME NEW n \in Message, NEW cand, ReceiveTx(n, cand)
      PROVE  /\ slot' = slot /\ ~IsOpen(n)
             /\ opened' = [opened EXCEPT ![n] = @ + 1]
             /\ \A y \in Message : y # n => flow'[y] = flow[y]
  BY <1>1 DEF ReceiveTx, ReceiveCode, ReceiveRedeem, ReceiveSkip, OpenFlow, TypeOK
<1>2. ASSUME NEW n \in Message, NEW out \in SwapOutputs(n), SwapTx(n, out)
      PROVE  /\ slot' = slot /\ IsOpen(n) /\ flow[n].status = "Received"
             /\ flow'[n].status = "Swapped"
             /\ ~(out < flow[n].min_swap_out)
             /\ \A y \in Message : y # n => flow'[y] = flow[y]
  <2>1. IsOpen(n) /\ flow[n].status = "Received" /\ ~(out < flow[n].min_swap_out)
    BY <1>2 DEF SwapTx, SwapCode
  <2>2. flow[n] \in FlowRecord
    BY <2>1 DEF TypeOK, IsOpen
  <2>3. slot' = slot /\ \E x : flow' = [flow EXCEPT ![n] = [flow[n] EXCEPT !.amount = x, !.status = "Swapped"]]
    BY <1>2 DEF SwapTx, Swap
  <2>4. flow'[n].status = "Swapped" /\ \A y \in Message : y # n => flow'[y] = flow[y]
    BY <2>2, <2>3 DEF TypeOK, FlowRecord
  <2>. QED  BY <2>1, <2>3, <2>4
<1>3. ASSUME NEW n \in Message, SendTx(n) \/ RefundTx(n)
      PROVE  slot' = slot /\ IsOpen(n) /\ flow' = [flow EXCEPT ![n] = NoFlow]
  BY <1>3 DEF SendTx, RefundTx, Send, Refund, BridgeBack
<1>4. ASSUME NEW n \in Message, NttRedeem(n) \/ NttRelease(n)
      PROVE  UNCHANGED <<flow, slot>>
  BY <1>4 DEF NttRedeem, NttRelease
<1>5. CASE Tick \/ UNCHANGED vars
  BY <1>5 DEF Tick, vars
<1>6. ASSUME NEW cand, ReceiveTx(m, cand)  PROVE ~IsOpen(m) /\ slot' = slot /\ opened'[m] = opened[m] + 1
  BY <1>1, <1>6 DEF TypeOK
<1>7. ASSUME NEW out \in SwapOutputs(m), SwapTx(m, out)  PROVE ~TooDear(m)
  <2>1. IsOpen(m) /\ flow[m].status = "Received" /\ ~(out < flow[m].min_swap_out)
    BY <1>2, <1>7
  <2>2. flow[m].amount = Transfer[m].amount /\ flow[m].min_swap_out = Transfer[m].to[2]
    BY <2>1 DEF FlowOfMessage
  <2>3. out = depositExpectedOut(Transfer[m].amount, VenuePrice[slot])
    BY <2>2 DEF SwapOutputs, VenueOut
  <2>. QED  BY <2>1, <2>2, <2>3 DEF TooDear
<1>8. ASSUME NEW n \in Message, SendTx(n) \/ RefundTx(n)
      PROVE  /\ slot' = slot
             /\ flow'[m] = flow[m] \/ (IsOpen(m) /\ ~IsOpen(m)')
  BY <1>3, <1>8 DEF TypeOK, IsOpen
<1>9. ASSUME NEW n \in Message, n # m,
             (\E cand : ReceiveTx(n, cand)) \/ (\E out \in SwapOutputs(n) : SwapTx(n, out))
      PROVE  flow'[m] = flow[m] /\ slot' = slot
  BY <1>1, <1>2, <1>9
<1>. QED  BY <1>2, <1>4, <1>5, <1>6, <1>7, <1>8, <1>9 DEF ChainMove

(* An open flow was opened. *)
WasOpened == \A m \in Message : IsOpen(m) => opened[m] >= 1

LEMMA WasOpenedNext ==
  ASSUME TypeOK, WasOpened, [Next]_vars
  PROVE  WasOpened'
<1>0. \A m \in Message : opened[m] \in Nat
  BY DEF TypeOK
<1>1. CASE UNCHANGED <<flow, opened>>
  BY <1>1 DEF WasOpened, IsOpen
<1>2. ASSUME NEW m \in Message, Receive(m)  PROVE WasOpened'
  <2>1. /\ opened' = [opened EXCEPT ![m] = @ + 1]
        /\ \A y \in Message : y # m => flow'[y] = flow[y]
    BY <1>2 DEF Receive, ReceiveRedeem, ReceiveDelayed, ReceiveSkip, OpenFlow, TypeOK
  <2>. QED  BY <1>0, <2>1 DEF WasOpened, IsOpen, TypeOK
<1>3. ASSUME NEW m \in Message, (IsOpen(m) /\ Swaps(m)) \/ Send(m) \/ Refund(m)  PROVE WasOpened'
  <2>1. IsOpen(m) /\ opened' = opened /\ \A y \in Message : y # m => flow'[y] = flow[y]
    BY <1>3 DEF Swaps, Swap, Send, Refund, BridgeBack, TypeOK
  <2>. QED  BY <2>1 DEF WasOpened, IsOpen
<1>4. ASSUME NEW m \in Message, NttRedeem(m) \/ NttRelease(m)  PROVE UNCHANGED <<flow, opened>>
  BY <1>4 DEF NttRedeem, NttRelease
<1>5. ASSUME NEW x, SetFees(x) \/ Gift(x)  PROVE UNCHANGED <<flow, opened>>
  BY <1>5 DEF SetFees, Gift
<1>6. CASE Tick \/ UNCHANGED vars
  BY <1>1, <1>6 DEF Tick, vars
<1>. QED  BY <1>1, <1>2, <1>3, <1>4, <1>5, <1>6 DEF Next

(* An inbox item is redeemed once, and not unredeemed. *)
LEMMA RedeemedOnce ==
  ASSUME TypeOK, ChainMove, NEW m \in Message
  PROVE  /\ inbox[m] # "absent" => inbox'[m] # "absent"
         /\ inbox'[m] = "delayed" => inbox[m] \in {"absent", "delayed"}
<1>1. inbox[m] \in {"absent", "delayed", "released"}
  BY DEF TypeOK
<1>2. ASSUME NEW n \in Message, NEW cand, ReceiveTx(n, cand)
      PROVE  inbox' = inbox \/ inbox' = [inbox EXCEPT ![n] = "released"]
  BY <1>2 DEF ReceiveTx, ReceiveRedeem, ReceiveSkip
<1>3. ASSUME NEW n \in Message, NttRedeem(n) \/ NttRelease(n)
      PROVE  \/ inbox[n] = "absent" /\ inbox' = [inbox EXCEPT ![n] = "delayed"]
             \/ inbox' = [inbox EXCEPT ![n] = "released"]
  BY <1>3 DEF NttRedeem, NttRelease
<1>4. ASSUME NEW n \in Message,
             SendTx(n) \/ RefundTx(n) \/ \E out \in SwapOutputs(n) : SwapTx(n, out)
      PROVE  inbox' = inbox
  BY <1>4 DEF SendTx, RefundTx, SwapTx, Send, Refund, BridgeBack, Swap
<1>5. CASE Tick \/ UNCHANGED vars
  BY <1>1, <1>5 DEF Tick, vars
<1>6. CASE inbox' = inbox
  BY <1>1, <1>6
<1>7. ASSUME NEW n \in Message, inbox' = [inbox EXCEPT ![n] = "released"]
      PROVE  /\ inbox[m] # "absent" => inbox'[m] # "absent"
             /\ inbox'[m] = "delayed" => inbox[m] \in {"absent", "delayed"}
  BY <1>1, <1>7 DEF TypeOK
<1>8. ASSUME NEW n \in Message, inbox[n] = "absent", inbox' = [inbox EXCEPT ![n] = "delayed"]
      PROVE  /\ inbox[m] # "absent" => inbox'[m] # "absent"
             /\ inbox'[m] = "delayed" => inbox[m] \in {"absent", "delayed"}
  BY <1>1, <1>8 DEF TypeOK
<1>. QED  BY <1>2, <1>3, <1>4, <1>5, <1>6, <1>7, <1>8 DEF ChainMove

(* Setbacks last: the flow of a message that has its inbox to itself is    *)
(* opened and closed once, and what is too dear stays so.                  *)
LEMMA SetbacksLast ==
  ASSUME OneMessagePerInbox, PricesRise, CrankInv, InboxOfOne, WasOpened,
         [CrankNext]_crankVars, NEW m \in Message, DirectionOf(m) = "Deposit"
  PROVE  /\ inbox[m] # "absent" => inbox'[m] # "absent"
         /\ inbox'[m] = "delayed" => inbox[m] \in {"absent", "delayed"}
         /\ opened[m] >= 1 => opened'[m] >= 1
         /\ ~IsOpen(m) /\ IsOpen(m)' => ~(opened[m] >= 1) /\ opened'[m] >= 1
         /\ IsOpen(m) /\ ~IsOpen(m)' => Settled(m)'
         /\ Settled(m) => Settled(m)'
         /\ TooDear(m) => TooDear(m)' \/ Settled(m)'
         /\ IsOpen(m) /\ flow[m].status = "Swapped" /\ IsOpen(m)' => flow'[m].status = "Swapped"
<1>1. /\ [Next]_vars /\ TypeOK /\ TypeOK' /\ FlowOfMessage /\ LocalOK
      /\ slot \in Slot /\ slot' \in Slot /\ ChainMove
  BY CrankInvNext, CrankMovesChain DEF CrankInv
<1>2. InboxOfOne' /\ WasOpened'
  BY <1>1, InboxOfOneNext, WasOpenedNext
<1>3. opened[m] \in Nat /\ opened'[m] \in Nat /\ opened'[m] >= opened[m]
  BY <1>1, ChainAdvances DEF TypeOK
<1>4. opened[m] <= 1 /\ opened'[m] <= 1
  BY <1>2 DEF InboxOfOne
<1>5. (IsOpen(m) => opened[m] >= 1) /\ (IsOpen(m)' => opened'[m] >= 1)
  BY <1>2 DEF WasOpened
<1>6. \/ flow'[m] = flow[m] /\ (slot' = slot \/ slot' = slot + 1)
      \/ ~IsOpen(m) /\ slot' = slot /\ opened'[m] = opened[m] + 1
      \/ /\ IsOpen(m) /\ flow[m].status = "Received" /\ ~TooDear(m)
         /\ flow'[m].status = "Swapped" /\ slot' = slot
      \/ IsOpen(m) /\ ~IsOpen(m)' /\ slot' = slot
  BY <1>1, FlowMoves
<1>7. opened[m] >= 1 => opened'[m] >= 1
  BY <1>3
<1>8. IsOpen(m) /\ ~IsOpen(m)' => Settled(m)'
  BY <1>5, <1>7 DEF Settled
<1>9. ~IsOpen(m) /\ IsOpen(m)' => ~(opened[m] >= 1) /\ opened'[m] >= 1
  <2>1. ~IsOpen(m) /\ IsOpen(m)' => opened'[m] = opened[m] + 1
    BY <1>6 DEF IsOpen
  <2>. QED  BY <1>3, <1>4, <1>5, <2>1
<1>10. Settled(m) => Settled(m)'
  BY <1>7, <1>9 DEF Settled
<1>11. TooDear(m) => TooDear(m)' \/ Settled(m)'
  <2> SUFFICES ASSUME TooDear(m), IsOpen(m)'  PROVE TooDear(m)'
    BY <1>8 DEF TooDear
  <2> DEFINE Out(s) == depositExpectedOut(Transfer[m].amount, VenuePrice[s])
  <2>1. IsOpen(m) /\ flow[m].status = "Received" /\ Out(slot) < Transfer[m].to[2]
    BY DEF TooDear
  <2>2. flow'[m] = flow[m] /\ (slot' = slot \/ slot' = slot + 1)
    BY <1>6, <2>1
  <2>3. Out(slot') <= Out(slot)
    <3>1. slot <= slot'
      BY <1>1, <2>2 DEF TypeOK
    <3>. QED  BY <1>1, <3>1, DearStaysDear
  <2>4. Out(slot) \in Nat /\ Out(slot') \in Nat /\ Transfer[m].to[2] \in Nat
    <3>1. Transfer[m].token[2] = "base"
      BY DEF DirectionOf
    <3>2. Out(slot) \in RouterOutputs /\ Out(slot') \in RouterOutputs
      BY <1>1, <3>1, VenueAssumption
    <3>3. Transfer[m].to[2] \in Nat
      BY TransferType DEF InboxAuthority, Floor
    <3>. QED  BY <3>2, <3>3, RelayerAssumption
  <2> HIDE DEF Out
  <2>5. Out(slot') < Transfer[m].to[2]
    BY <2>1, <2>3, <2>4
  <2>. QED  BY <2>1, <2>2, <2>5 DEF TooDear, Out
<1>12. IsOpen(m) /\ flow[m].status = "Swapped" /\ IsOpen(m)' => flow'[m].status = "Swapped"
  BY <1>6
<1>. QED  BY <1>1, <1>7, <1>8, <1>9, <1>10, <1>11, <1>12, RedeemedOnce

(* A step of somebody else, that leaves the deposit's task alone, dooms    *)
(* its transaction only by a setback.                                      *)
LEMMA SetbackPerDoom ==
  ASSUME OneMessagePerInbox, PricesRise, CrankInv, InboxOfOne, WasOpened,
         [CrankNext]_crankVars, NEW m \in Message, DirectionOf(m) = "Deposit"
  PROVE  /\ Setbacks(m) \in 0 .. 3 /\ Setbacks(m)' \in 0 .. 3
         /\ Setbacks(m)' >= Setbacks(m)
         /\ task'[Advance(m)] = task[Advance(m)] =>
              Setbacks(m)' + Count(Doomed(m)) >= Setbacks(m) + Count(Doomed(m)')
<1> DEFINE a == Count(inbox[m] # "absent")
           b == Count(opened[m] >= 1)
           c == Count(Settled(m) \/ TooDear(m))
<1>1. /\ a \in {0, 1} /\ b \in {0, 1} /\ c \in {0, 1}
      /\ a' \in {0, 1} /\ b' \in {0, 1} /\ c' \in {0, 1}
      /\ Count(Doomed(m)) \in {0, 1} /\ Count(Doomed(m)') \in {0, 1}
  BY DEF Count
<1>2. a' >= a /\ b' >= b /\ c' >= c
  <2>1. inbox[m] # "absent" => inbox'[m] # "absent"
    BY SetbacksLast
  <2>2. opened[m] >= 1 => opened'[m] >= 1
    BY SetbacksLast
  <2>3. Settled(m) \/ TooDear(m) => Settled(m)' \/ TooDear(m)'
    BY SetbacksLast
  <2>. QED  BY <2>1, <2>2, <2>3 DEF Count
<1>3. Setbacks(m) = a + b + c /\ Setbacks(m)' = a' + b' + c'
  BY DEF Setbacks
<1>4. ASSUME task'[Advance(m)] = task[Advance(m)], ~Doomed(m), Doomed(m)'
      PROVE  a' > a \/ b' > b \/ c' > c
  <2> DEFINE at == task[Advance(m)].at
  <2>1. CASE at \in {"probe", "post", "submitReceive"}
    <3>1. inbox[m] # "delayed" /\ ~IsOpen(m) /\ (inbox'[m] = "delayed" \/ IsOpen(m)')
      BY <1>4, <2>1 DEF Doomed
    <3>2. CASE inbox'[m] = "delayed"
      <4>1. inbox[m] = "absent"
        BY <3>1, <3>2, SetbacksLast
      <4>. QED  BY <3>2, <4>1 DEF Count
    <3>3. CASE IsOpen(m)'
      <4>1. ~(opened[m] >= 1) /\ opened'[m] >= 1
        BY <3>1, <3>3, SetbacksLast
      <4>. QED  BY <4>1 DEF Count
    <3>. QED  BY <3>1, <3>2, <3>3
  <2>2. CASE at = "submitSwap"
    <3>1. IsOpen(m) /\ ~TooDear(m) /\ (~IsOpen(m)' \/ TooDear(m)')
      BY <1>4, <2>2 DEF Doomed
    <3>2. ~Settled(m) /\ (Settled(m)' \/ TooDear(m)')
      BY <3>1, SetbacksLast DEF Settled
    <3>. QED  BY <3>1, <3>2 DEF Count
  <2>3. CASE at = "submitSend"
    <3>1. IsOpen(m) /\ flow[m].status = "Swapped" /\ ~(IsOpen(m)' /\ flow'[m].status = "Swapped")
      BY <1>4, <2>3 DEF Doomed, IsOpen
    <3>2. ~Settled(m) /\ ~TooDear(m) /\ Settled(m)'
      BY <3>1, SetbacksLast DEF Settled, TooDear
    <3>. QED  BY <3>2 DEF Count
  <2>. QED  BY <1>4, <2>1, <2>2, <2>3 DEF Doomed
<1>5. task'[Advance(m)] = task[Advance(m)] =>
        Count(Doomed(m)) >= Count(Doomed(m)') \/ a' > a \/ b' > b \/ c' > c
  <2>1. (~Doomed(m) /\ Doomed(m)') \/ Count(Doomed(m)) >= Count(Doomed(m)')
    BY DEF Count
  <2>. QED  BY <1>4, <2>1
<1>6. PICK x \in {0, 1}, y \in {0, 1}, z \in {0, 1}, d \in {0, 1},
           x1 \in {0, 1}, y1 \in {0, 1}, z1 \in {0, 1}, d1 \in {0, 1} :
        /\ x = a /\ y = b /\ z = c /\ d = Count(Doomed(m))
        /\ x1 = a' /\ y1 = b' /\ z1 = c' /\ d1 = Count(Doomed(m)')
  BY <1>1
<1>7. /\ Setbacks(m) = x + y + z /\ Setbacks(m)' = x1 + y1 + z1
      /\ x1 >= x /\ y1 >= y /\ z1 >= z
      /\ task'[Advance(m)] = task[Advance(m)] => d >= d1 \/ x1 > x \/ y1 > y \/ z1 > z
  BY <1>2, <1>3, <1>5, <1>6
<1> HIDE DEF a, b, c
<1>8. task'[Advance(m)] = task[Advance(m)] => (x1 + y1 + z1) + d >= (x + y + z) + d1
  BY <1>7
<1>9. x + y + z \in 0 .. 3 /\ x1 + y1 + z1 \in 0 .. 3 /\ x1 + y1 + z1 >= x + y + z
  BY <1>7
<1>10. /\ Setbacks(m) \in 0 .. 3 /\ Setbacks(m)' \in 0 .. 3
       /\ Setbacks(m)' >= Setbacks(m)
  BY <1>7, <1>9
<1>11. task'[Advance(m)] = task[Advance(m)] =>
         Setbacks(m)' + Count(Doomed(m)) >= Setbacks(m) + Count(Doomed(m)')
  BY <1>6, <1>7, <1>8
<1>. QED  BY <1>10, <1>11

(* Where a step leaves the task it belongs to. *)
LEMMA GotoAt ==
  ASSUME LocalOK, NEW k \in Scan \X Message, NEW at, NEW cand, Goto(k, at, cand)
  PROVE  task'[k].at = at
BY DEF Goto, LocalOK

LEMMA FinishAt ==
  ASSUME LocalOK, Cached, NEW k \in Scan \X Message, NEW result, Finish(k, result)
  PROVE  /\ task'[k].at = "idle"
         /\ k[1] = "advance" =>
              attempts'[k[2]] = IF result = "error" THEN attempts[k[2]] + 1 ELSE 0
<1>1. task'[k].at = "idle"
  BY DEF Finish, IdleTask, LocalOK
<1>2. k[1] = "advance" =>
        attempts'[k[2]] = IF result = "error" THEN attempts[k[2]] + 1 ELSE 0
  BY DEF Finish, Cached
<1>. QED  BY <1>1, <1>2

(* What recovers the wallet of a message finds it in the message's own     *)
(* transaction, whether or not it comes from the cache.                    *)
LEMMA MatchedIsCandidate ==
  ASSUME Derived, NEW m \in Message, Matched(m) # {}
  PROVE  Transfer[m].to \in Candidates(Source[m])
<1>1. Transfer[m].to # None
  BY TransferType, CrankerAssumption
<1>2. wallets[Source[m]] \in Candidates(Source[m]) \cup {None}
  BY DEF Derived
<1>. QED  BY <1>1, <1>2 DEF Matched

LEMMA DerivedStep ==
  ASSUME LocalOK, Cached, Derived, NEW k \in Scan \X sent,
         Enumerate(k) \/ Step(k) \/ ReadFails(k) \/ Timeout(k)
  PROVE  /\ k[1] = "advance" =>
              /\ task'[k].at \notin {"refund", "submitRefund"}
              /\ task'[k].at \in {"preflight", "probe", "post", "submitReceive"}
                   => Transfer[k[2]].to \in Candidates(Source[k[2]])
         /\ \/ wallets' = wallets
            \/ /\ wallets' = [wallets EXCEPT ![Source[k[2]]] = Transfer[k[2]].to]
               /\ Transfer[k[2]].to \in Candidates(Source[k[2]])
<1>0. k \in Scan \X Message /\ k[2] \in Message /\ k = <<k[1], k[2]>>
  BY DEF LocalOK
<1> DEFINE Fine == /\ task'[k].at \notin {"refund", "submitRefund"}
                   /\ task'[k].at \in {"preflight", "probe", "post", "submitReceive"}
                        => Transfer[k[2]].to \in Candidates(Source[k[2]])
<1>1. \A at, cand : Goto(k, at, cand) => task'[k].at = at
  BY <1>0, GotoAt
<1>2. \A result : Finish(k, result) => task'[k].at = "idle"
  BY <1>0, FinishAt
<1>3. k[1] = "advance" => \A status : Leg(k[1], k[2], status) \in {"idle", "receive", "swap", "send"}
  BY DEF Leg
<1>4. \A m, status : Leg("advance", m, status) \in {"idle", "receive", "swap", "send"}
  BY DEF Leg
<1>5. k[1] = "advance" =>
        /\ task[k].at \notin {"refund", "submitRefund"}
        /\ task[k].at \in {"preflight", "probe", "post", "submitReceive"}
             => Transfer[k[2]].to \in Candidates(Source[k[2]])
  BY <1>0 DEF Derived, Advance
<1>6. CASE Enumerate(k) \/ PeekInbox(k)
  BY <1>1, <1>3, <1>6 DEF Enumerate, PeekInbox, Dispatch
<1>7. CASE PeekAta(k)
  <2>1. task' = [task EXCEPT ![k] = IdleTask] => task'[k].at = "idle"
    BY <1>0 DEF IdleTask, LocalOK
  <2>. QED  BY <1>1, <1>3, <1>7, <2>1 DEF PeekAta, Dispatch
<1>8. CASE Recover(k)
  <2>1. CASE Matched(k[2]) = {}
    BY <1>2, <1>8, <2>1 DEF Recover
  <2>2. CASE Matched(k[2]) # {}
    <3>1. Transfer[k[2]].to \in Candidates(Source[k[2]])
      BY <1>0, <2>2, MatchedIsCandidate
    <3>2. wallets' = [wallets EXCEPT ![Source[k[2]]] = Transfer[k[2]].to]
      BY <1>8, <2>2 DEF Recover, Matched
    <3>3. task'[k].at \in {"idle", "preflight"}
      BY <1>1, <1>2, <1>8 DEF Recover
    <3>. QED  BY <3>1, <3>2, <3>3
  <2>. QED  BY <2>1, <2>2
<1>9. CASE Preflight(k) \/ Probe(k) \/ SubmitPost(k)
  BY <1>1, <1>2, <1>5, <1>9 DEF Preflight, Probe, SubmitPost
<1>10. CASE SubmitReceive(k) \/ SubmitSwap(k)
  BY <1>1, <1>2, <1>4, <1>10 DEF SubmitReceive, SubmitSwap
<1>11. CASE PlanSwap(k) \/ PlanSend(k) \/ SubmitSend(k)
  BY <1>1, <1>2, <1>11 DEF PlanSwap, PlanSend, SubmitSend
<1>12. CASE PlanRefund(k) \/ SubmitRefund(k)
  BY <1>2, <1>5, <1>12 DEF PlanRefund, SubmitRefund
<1>13. CASE ReadFails(k)
  BY <1>1, <1>2, <1>3, <1>5, <1>13 DEF ReadFails, PeekFailed, Dispatch
<1>14. CASE Timeout(k)
  BY <1>2, <1>14 DEF Timeout
<1>. QED
  BY <1>6, <1>7, <1>8, <1>9, <1>10, <1>11, <1>12, <1>13, <1>14 DEF Step

LEMMA DerivedNext ==
  ASSUME LocalOK, Cached, Derived, [CrankNext]_crankVars
  PROVE  Derived'
<1>0. \A m \in Message : Advance(m) \in Scan \X Message /\ Advance(m)[1] = "advance" /\ Advance(m)[2] = m
  BY DEF Advance, Scan
<1>1. CASE UNCHANGED <<task, wallets>>
  BY <1>1 DEF Derived
<1>2. ASSUME NEW k \in Scan \X sent, Enumerate(k) \/ Step(k) \/ ReadFails(k) \/ Timeout(k)
      PROVE  Derived'
  <2>1. \A j \in Scan \X Message : j # k => task'[j] = task[j]
    BY <1>2, StepFrame
  <2>2. ASSUME NEW m \in Message
        PROVE  /\ task'[Advance(m)].at \notin {"refund", "submitRefund"}
               /\ task'[Advance(m)].at \in {"preflight", "probe", "post", "submitReceive"}
                    => Transfer[m].to \in Candidates(Source[m])
    <3>1. CASE Advance(m) = k
      BY <1>0, <1>2, <3>1, DerivedStep
    <3>2. CASE Advance(m) # k
      BY <1>0, <2>1, <3>2 DEF Derived
    <3>. QED  BY <3>1, <3>2
  <2>3. ASSUME NEW m \in Message
        PROVE  wallets'[Source[m]] \in Candidates(Source[m]) \cup {None}
    <3>1. wallets[Source[m]] \in Candidates(Source[m]) \cup {None}
      BY DEF Derived
    <3>2. \/ wallets' = wallets
          \/ \E c \in Candidates(Source[k[2]]) : wallets' = [wallets EXCEPT ![Source[k[2]]] = c]
      BY <1>2, DerivedStep
    <3>. QED  BY <3>1, <3>2 DEF Cached
  <2>. QED  BY <2>2, <2>3 DEF Derived
<1>3. CASE Crash
  <2>1. \A m \in Message : task'[Advance(m)].at = "idle"
    BY <1>0, <1>3 DEF Crash, IdleTask
  <2>2. \A m \in Message : wallets'[Source[m]] = None
    BY <1>3 DEF Crash, Cached
  <2>. QED  BY <2>1, <2>2 DEF Derived
<1>4. ASSUME NEW m \in sent, Sibling(m)  PROVE Derived'
  <2>1. PICK c \in Candidates(Source[m]) : wallets' = [wallets EXCEPT ![Source[m]] = c]
    BY <1>4 DEF Sibling
  <2>2. \A n \in Message : wallets'[Source[n]] \in Candidates(Source[n]) \cup {None}
    BY <2>1 DEF Derived, Cached
  <2>. QED  BY <1>4, <2>2 DEF Sibling, Derived
<1>5. ASSUME NEW t, Late(t)  PROVE UNCHANGED <<task, wallets>>
  BY <1>5 DEF Late
<1>6. ASSUME NEW m, OtherRelayer(m) \/ OtherCranker(m)  PROVE UNCHANGED <<task, wallets>>
  BY <1>6 DEF OtherRelayer, OtherCranker, local
<1>7. CASE SlotPasses \/ NextTick \/ UNCHANGED crankVars
  BY <1>1, <1>7 DEF SlotPasses, NextTick, crankVars, local
<1>. QED
  BY <1>1, <1>2, <1>3, <1>4, <1>5, <1>6, <1>7 DEF CrankNext

(* What a step of a deposit's own task does to its count: an error, or a   *)
(* transaction newly doomed, costs a fault, unless the transaction was     *)
(* doomed before.                                                          *)
Excused(m) == Doomed(m) \/ faults' = faults + 1

Outcome(m) ==
  /\ faults' \in {faults, faults + 1}
  /\ \/ ~Doomed(m)' /\ attempts'[m] \in {0, attempts[m]}
     \/ ~Doomed(m)' /\ attempts'[m] = attempts[m] + 1 /\ Excused(m)
     \/ attempts'[m] = attempts[m] /\ Excused(m)

(* The steps from which the transaction is a `receive`. *)
SubmitsReceive == {"probe", "post", "submitReceive"}

(* An inbox that is not yet redeemed, or holds its amount, has no flow. *)
LEMMA InboxStillFull ==
  ASSUME TypeOK, InboxOfOne, WasOpened, NEW m \in Message,
         inbox[m] = "absent" \/ ~(Balance(m) < Transfer[m].amount)
  PROVE  inbox[m] # "delayed" /\ ~IsOpen(m)
<1>1. Transfer[m].amount \in Nat /\ Transfer[m].amount > 0 /\ Holds(m) = Balance(m)
      /\ opened[m] \in Nat
  BY TransferType DEF Holds, Balance, TypeOK
<1>2. opened[m] = 0 /\ inbox[m] # "delayed"
  BY <1>1 DEF InboxOfOne
<1>. QED  BY <1>2 DEF WasOpened

(* `receive` and what leads to it. *)
LEMMA ReceiveOutcome ==
  ASSUME OursAreIntents, CrankInv, Cached, InboxOfOne, WasOpened, Derived,
         NEW m \in Message, DirectionOf(m) = "Deposit",
         \/ Recover(Advance(m)) \/ Preflight(Advance(m)) \/ Probe(Advance(m))
         \/ SubmitPost(Advance(m)) \/ SubmitReceive(Advance(m))
  PROVE  Outcome(m)
<1> DEFINE k == Advance(m)
           to == Transfer[m].to
<1>0. /\ k \in Scan \X Message /\ k[1] = "advance" /\ k[2] = m
      /\ LocalOK /\ Carries /\ TypeOK
  BY DEF Advance, Scan, CrankInv
<1>1. \A at, cand : Goto(k, at, cand) => task'[k].at = at
  BY <1>0, GotoAt
<1>2. ASSUME NEW result, Finish(k, result)
      PROVE  task'[k].at = "idle" /\ attempts'[m] = IF result = "error" THEN attempts[m] + 1 ELSE 0
  BY <1>0, <1>2, FinishAt
<1>3. task'[k].at \notin SubmitsReceive \cup {"submitSwap", "submitSend"} => ~Doomed(m)'
  BY DEF Doomed, SubmitsReceive
<1>4. task[k].at \in {"preflight", "probe", "post", "submitReceive"} => task[k].cand = to /\ Transfer[m].intent
  BY <1>0 DEF Carries, Derived, OursAreIntents
<1> HIDE DEF k
<1>5. CASE Recover(k)
  <2>1. \/ Finish(k, "noop")
        \/ (\E cand : Goto(k, "preflight", cand)) /\ attempts' = attempts
    BY <1>5 DEF Recover
  <2>2. task'[k].at \in {"idle", "preflight"} /\ attempts'[m] \in {0, attempts[m]}
    BY <1>1, <1>2, <2>1
  <2>. QED  BY <1>3, <1>5, <2>2 DEF Recover, Outcome, SubmitsReceive
<1>6. CASE Preflight(k)
  <2>1. task[k].cand = to
    BY <1>4, <1>6 DEF Preflight
  <2>2. CASE PreflightOf(m, task[k].cand) = "ok"
    <3>1. inbox[m] # "delayed" /\ ~IsOpen(m)
      BY <1>0, <2>2, InboxStillFull DEF PreflightOf
    <3>2. task'[k].at = "probe" /\ attempts' = attempts /\ UNCHANGED vars
      BY <1>0, <1>1, <1>6, <2>2 DEF Preflight
    <3>3. ~Doomed(m)'
      BY <3>1, <3>2 DEF Doomed, k, vars, IsOpen
    <3>. QED  BY <1>6, <3>2, <3>3 DEF Preflight, Outcome
  <2>3. CASE PreflightOf(m, task[k].cand) # "ok"
    <3>1. PreflightOf(m, task[k].cand) = "noop"
      BY <2>1, <2>3 DEF PreflightOf
    <3>2. Finish(k, "noop")
      BY <1>0, <1>6, <3>1 DEF Preflight
    <3>. QED  BY <1>2, <1>3, <1>6, <3>2 DEF Preflight, Outcome, SubmitsReceive
  <2>. QED  BY <2>2, <2>3
<1>7. CASE Probe(k) \/ SubmitPost(k)
  <2>1. task[k].at \in SubmitsReceive /\ task'[k].at \in SubmitsReceive
    BY <1>1, <1>7 DEF Probe, SubmitPost, SubmitsReceive
  <2>2. UNCHANGED <<inbox, flow, attempts, faults>>
    BY <1>7 DEF Probe, SubmitPost, vars
  <2>3. Doomed(m)' => Doomed(m)
    BY <2>1, <2>2 DEF Doomed, SubmitsReceive, k, IsOpen
  <2>. QED  BY <2>2, <2>3 DEF Outcome, Excused
<1>8. CASE SubmitReceive(k)
  <2>1. CASE ReceiveTx(m, task[k].cand) /\ Goto(k, Leg("advance", m, "Received"), None)
             /\ UNCHANGED <<attempts, faults>>
    <3>1. task'[k].at \notin SubmitsReceive \cup {"submitSwap", "submitSend"}
      BY <1>1, <2>1, LegType DEF SubmitsReceive
    <3>. QED  BY <1>3, <2>1, <3>1 DEF Outcome
  <2>2. CASE ReceiveCode(m, task[k].cand) # "ok" /\ Finish(k, ResultOf(ReceiveCode(m, task[k].cand)))
             /\ UNCHANGED <<vars, faults>>
    <3>1. task[k].cand = to /\ Transfer[m].intent /\ task[k].at = "submitReceive"
      BY <1>4, <1>8 DEF SubmitReceive
    <3>2. Doomed(m) \/ ReceiveCode(m, task[k].cand) = "6022"
      BY <2>2, <3>1 DEF ReceiveCode, Doomed, k
    <3>3. task'[k].at = "idle" /\ ((attempts'[m] = attempts[m] + 1 /\ Doomed(m)) \/ attempts'[m] = 0)
      BY <1>2, <2>2, <3>2 DEF ResultOf, RACE_TABLE
    <3>. QED  BY <1>3, <2>2, <3>3 DEF Outcome, Excused, SubmitsReceive
  <2>3. CASE Fault("limit") /\ Finish(k, ResultOf("6022"))
    <3>1. task'[k].at = "idle" /\ attempts'[m] = 0 /\ faults' = faults + 1
      BY <1>2, <2>3 DEF ResultOf, RACE_TABLE, Fault
    <3>. QED  BY <1>3, <3>1 DEF Outcome, SubmitsReceive
  <2>. QED  BY <1>0, <1>8, <2>1, <2>2, <2>3 DEF SubmitReceive
<1>. QED  BY <1>5, <1>6, <1>7, <1>8 DEF k

(* `swap` and `send`. *)
LEMMA SwapSendOutcome ==
  ASSUME MirrorsOnre, CrankInv, Cached, NEW m \in Message, DirectionOf(m) = "Deposit",
         \/ PlanSwap(Advance(m)) \/ SubmitSwap(Advance(m))
         \/ PlanSend(Advance(m)) \/ SubmitSend(Advance(m))
  PROVE  Outcome(m)
<1> DEFINE k == Advance(m)
<1>0. /\ k \in Scan \X Message /\ k[1] = "advance" /\ k[2] = m
      /\ LocalOK /\ TypeOK /\ FlowOfMessage /\ slot \in Slot
  BY DEF Advance, Scan, CrankInv
<1>1. \A at, cand : Goto(k, at, cand) => task'[k].at = at
  BY <1>0, GotoAt
<1>2. ASSUME NEW result, Finish(k, result)
      PROVE  task'[k].at = "idle" /\ attempts'[m] = IF result = "error" THEN attempts[m] + 1 ELSE 0
  BY <1>0, <1>2, FinishAt
<1>3. task'[k].at \notin SubmitsReceive \cup {"submitSwap", "submitSend"} => ~Doomed(m)'
  BY DEF Doomed, SubmitsReceive
<1>4. IsOpen(m) /\ flow[m].status = "Received" =>
        flow[m].amount = Transfer[m].amount /\ flow[m].min_swap_out = Transfer[m].to[2]
  BY <1>0 DEF FlowOfMessage
<1> HIDE DEF k
<1>5. ASSUME Finish(k, "noop"), faults' = faults  PROVE Outcome(m)
  <2>1. task'[k].at = "idle" /\ attempts'[m] = 0
    BY <1>2, <1>5
  <2>. QED  BY <1>3, <1>5, <2>1 DEF Outcome, SubmitsReceive
<1>6. CASE PlanSwap(k)
  <2>0. faults' = faults /\ UNCHANGED vars
    BY <1>6 DEF PlanSwap
  <2>1. CASE Finish(k, "noop")
    BY <1>5, <2>0, <2>1
  <2>2. CASE ~Finish(k, "noop")
    <3>1. PICK out \in Quotes(m) :
            /\ IsOpen(m) /\ flow[m].status = "Received"
            /\ ~(out < flow[m].min_swap_out)
            /\ Goto(k, "submitSwap", None) /\ attempts' = attempts
      BY <1>0, <1>6, <2>2 DEF PlanSwap
    <3>2. out = depositExpectedOut(Transfer[m].amount, VenuePrice[slot])
      BY <1>0, <1>4, <3>1 DEF Quotes, MirrorsOnre
    <3>3. IsOpen(m) /\ ~TooDear(m) /\ task'[k].at = "submitSwap"
      BY <1>1, <1>4, <3>1, <3>2 DEF TooDear
    <3>4. ~Doomed(m)'
      BY <2>0, <3>3 DEF Doomed, TooDear, k, vars, IsOpen
    <3>. QED  BY <2>0, <3>1, <3>4 DEF Outcome
  <2>. QED  BY <2>1, <2>2
<1>7. CASE SubmitSwap(k)
  <2>0. faults' = faults /\ task[k].at = "submitSwap"
    BY <1>7 DEF SubmitSwap
  <2>1. CASE ~IsOpen(m)
    <3>1. Finish(k, "error")
      BY <1>0, <1>7, <2>1 DEF SubmitSwap, ResultOf, RACE_TABLE
    <3>2. task'[k].at = "idle" /\ attempts'[m] = attempts[m] + 1
      BY <1>2, <3>1
    <3>3. Doomed(m)
      BY <2>0, <2>1 DEF Doomed, k
    <3>. QED  BY <1>3, <2>0, <3>2, <3>3 DEF Outcome, Excused, SubmitsReceive
  <2>2. CASE IsOpen(m)
    <3>1. PICK out \in SwapOutputs(m) :
            \/ /\ SwapTx(m, out) /\ attempts' = attempts
               /\ Goto(k, Leg("advance", m, "Swapped"), None)
            \/ SwapCode(m, out) # "ok" /\ Finish(k, ResultOf(SwapCode(m, out)))
      BY <1>0, <1>7, <2>2 DEF SubmitSwap
    <3>2. CASE attempts' = attempts /\ Goto(k, Leg("advance", m, "Swapped"), None)
      <4>1. task'[k].at \notin SubmitsReceive \cup {"submitSwap", "submitSend"}
        BY <1>1, <3>2, LegType DEF SubmitsReceive
      <4>. QED  BY <1>3, <2>0, <3>2, <4>1 DEF Outcome
    <3>3. CASE SwapCode(m, out) # "ok" /\ Finish(k, ResultOf(SwapCode(m, out)))
      <4>1. CASE flow[m].status # "Received"
        <5>1. Finish(k, "noop")
          BY <2>2, <3>3, <4>1 DEF SwapCode, ResultOf, RACE_TABLE
        <5>. QED  BY <1>5, <2>0, <5>1
      <4>2. CASE flow[m].status = "Received"
        <5>1. out < flow[m].min_swap_out /\ Finish(k, "error")
          BY <2>2, <3>3, <4>2 DEF SwapCode, ResultOf, RACE_TABLE
        <5>2. TooDear(m)
          BY <1>4, <2>2, <4>2, <5>1 DEF SwapOutputs, VenueOut, TooDear
        <5>3. Doomed(m)
          BY <2>0, <5>2 DEF Doomed, k
        <5>4. task'[k].at = "idle" /\ attempts'[m] = attempts[m] + 1
          BY <1>2, <5>1
        <5>. QED  BY <1>3, <2>0, <5>3, <5>4 DEF Outcome, Excused, SubmitsReceive
      <4>. QED  BY <4>1, <4>2
    <3>. QED  BY <3>1, <3>2, <3>3
  <2>. QED  BY <2>1, <2>2
<1>8. CASE PlanSend(k)
  <2>0. faults' = faults /\ UNCHANGED vars
    BY <1>8 DEF PlanSend
  <2>1. CASE Finish(k, "noop")
    BY <1>5, <2>0, <2>1
  <2>2. CASE ~Finish(k, "noop")
    <3>1. /\ IsOpen(m) /\ flow[m].status = "Swapped"
          /\ task'[k].at = "submitSend" /\ attempts' = attempts
      BY <1>0, <1>1, <1>8, <2>2 DEF PlanSend
    <3>2. ~Doomed(m)'
      BY <2>0, <3>1 DEF Doomed, k, vars, IsOpen
    <3>. QED  BY <2>0, <3>1, <3>2 DEF Outcome
  <2>. QED  BY <2>1, <2>2
<1>9. CASE SubmitSend(k)
  <2>0. faults' = faults /\ task[k].at = "submitSend"
    BY <1>9 DEF SubmitSend
  <2>1. PICK result : Finish(k, result) /\ (result = "advanced" \/ SendCode(m) # "ok")
    BY <1>0, <1>9 DEF SubmitSend
  <2>2. result = "advanced" \/ Doomed(m)
    BY <2>0, <2>1 DEF SendCode, Doomed, k
  <2>3. task'[k].at = "idle" /\ (attempts'[m] = 0 \/ (attempts'[m] = attempts[m] + 1 /\ Doomed(m)))
    BY <1>2, <2>1, <2>2
  <2>. QED  BY <1>3, <2>0, <2>3 DEF Outcome, Excused, SubmitsReceive
<1>. QED  BY <1>6, <1>7, <1>8, <1>9 DEF k

(* Every step of a deposit's task in the advance scan. *)
LEMMA StepOutcome ==
  ASSUME MirrorsOnre, OursAreIntents, CrankInv, Cached, InboxOfOne, WasOpened, Derived,
         NEW m \in Message, DirectionOf(m) = "Deposit",
         \/ Enumerate(Advance(m)) \/ Step(Advance(m))
         \/ ReadFails(Advance(m)) \/ Timeout(Advance(m))
  PROVE  Outcome(m)
<1> DEFINE k == Advance(m)
<1>0. /\ k \in Scan \X Message /\ k[1] = "advance" /\ k[2] = m /\ LocalOK
      /\ task[k].at \notin {"refund", "submitRefund"}
  BY DEF Advance, Scan, CrankInv, Derived
<1>1. \A at, cand : Goto(k, at, cand) => task'[k].at = at
  BY <1>0, GotoAt
<1>2. ASSUME NEW result, Finish(k, result)
      PROVE  task'[k].at = "idle" /\ attempts'[m] = IF result = "error" THEN attempts[m] + 1 ELSE 0
  BY <1>0, <1>2, FinishAt
<1>3. task'[k].at \notin SubmitsReceive \cup {"submitSwap", "submitSend"} => ~Doomed(m)'
  BY DEF Doomed, SubmitsReceive
<1>4. \A s, n, status : Leg(s, n, status) \in {"idle", "receive", "swap", "send", "refund"}
  BY LegType
<1> HIDE DEF k
<1>5. CASE Enumerate(k) \/ PeekInbox(k) \/ PeekAta(k)
  <2>1. task' = [task EXCEPT ![k] = IdleTask] => task'[k].at = "idle"
    BY <1>0 DEF IdleTask, LocalOK
  <2>2. task'[k].at \in {"idle", "receive", "swap", "send", "refund", "peekInbox", "peekAta"}
    BY <1>1, <1>4, <1>5, <2>1 DEF Enumerate, PeekInbox, PeekAta, Dispatch
  <2>3. UNCHANGED <<attempts, faults>>
    BY <1>5 DEF Enumerate, PeekInbox, PeekAta
  <2>. QED  BY <1>3, <2>2, <2>3 DEF Outcome, SubmitsReceive
<1>6. CASE ReadFails(k)
  <2>1. faults' = faults + 1
    BY <1>6 DEF ReadFails, Fault
  <2>2. \/ attempts' = attempts
        \/ \E result : Finish(k, result)
    BY <1>6 DEF ReadFails, PeekFailed
  <2>3. \/ attempts'[m] = attempts[m]
        \/ task'[k].at = "idle" /\ attempts'[m] \in {0, attempts[m] + 1}
    BY <1>2, <2>2
  <2>. QED  BY <1>3, <2>1, <2>3 DEF Outcome, Excused, SubmitsReceive
<1>7. CASE Timeout(k)
  <2>1. faults' = faults + 1 /\ task'[k].at = "idle" /\ attempts'[m] = attempts[m] + 1
    BY <1>2, <1>7 DEF Timeout, Fault
  <2>. QED  BY <1>3, <2>1 DEF Outcome, Excused, SubmitsReceive
<1>8. CASE PlanRefund(k) \/ SubmitRefund(k)
  BY <1>0, <1>8 DEF PlanRefund, SubmitRefund
<1>9. CASE Recover(k) \/ Preflight(k) \/ Probe(k) \/ SubmitPost(k) \/ SubmitReceive(k)
  BY <1>9, ReceiveOutcome DEF k
<1>10. CASE PlanSwap(k) \/ SubmitSwap(k) \/ PlanSend(k) \/ SubmitSend(k)
  BY <1>10, SwapSendOutcome DEF k
<1>. QED  BY <1>5, <1>6, <1>7, <1>8, <1>9, <1>10 DEF Step, k

(* What the other steps leave of a deposit's count. *)
LEMMA OthersSpare ==
  ASSUME CrankInv, Cached, [CrankNext]_crankVars, NEW m \in Message
  PROVE  \/ \/ Enumerate(Advance(m)) \/ Step(Advance(m))
            \/ ReadFails(Advance(m)) \/ Timeout(Advance(m))
         \/ attempts'[m] = 0 /\ task'[Advance(m)].at = "idle" /\ faults' = faults + 1
         \/ /\ attempts'[m] = attempts[m] /\ faults' \in {faults, faults + 1}
            /\ task'[Advance(m)] = task[Advance(m)]
<1>0. Advance(m) \in Scan \X Message /\ LocalOK
  BY DEF Advance, Scan, CrankInv
<1>1. CASE UNCHANGED <<task, attempts, faults>>
  BY <1>1
<1>2. ASSUME NEW k \in Scan \X sent, k # Advance(m),
             Enumerate(k) \/ Step(k) \/ ReadFails(k) \/ Timeout(k)
      PROVE  /\ attempts'[m] = attempts[m] /\ faults' \in {faults, faults + 1}
             /\ task'[Advance(m)] = task[Advance(m)]
  <2>1. task'[Advance(m)] = task[Advance(m)]
    BY <1>0, <1>2, StepFrame
  <2>2. \/ attempts' = attempts
        \/ \E result : Finish(k, result)
    BY <1>2 DEF Enumerate, Step, ReadFails, PeekFailed, Timeout, PeekInbox, PeekAta, Recover,
                Preflight, Probe, SubmitPost, SubmitReceive, PlanSwap, SubmitSwap, PlanSend,
                SubmitSend, PlanRefund, SubmitRefund
  <2>3. \A result : Finish(k, result) => attempts'[m] = attempts[m]
    <3>1. k[1] \in {"advance", "refund"} /\ k = <<k[1], k[2]>>
      BY DEF Scan
    <3>2. k[1] = "refund" \/ k[2] # m
      BY <1>2, <3>1 DEF Advance
    <3>. QED  BY <3>2 DEF Finish, Cached
  <2>4. faults' \in {faults, faults + 1}
    BY <1>2 DEF Enumerate, Step, ReadFails, Timeout, PeekInbox, PeekAta, Recover,
                Preflight, Probe, SubmitPost, SubmitReceive, PlanSwap, SubmitSwap, PlanSend,
                SubmitSend, PlanRefund, SubmitRefund, Fault
  <2>. QED  BY <2>1, <2>2, <2>3, <2>4
<1>3. CASE Crash
  <2>1. task'[Advance(m)].at = "idle"
    BY <1>0, <1>3 DEF Crash, IdleTask
  <2>. QED  BY <1>3, <2>1 DEF Crash, Fault
<1>4. ASSUME NEW t, Late(t)  PROVE UNCHANGED <<task, attempts, faults>>
  BY <1>4 DEF Late
<1>5. ASSUME NEW n, OtherRelayer(n) \/ OtherCranker(n) \/ Sibling(n)
      PROVE  UNCHANGED <<task, attempts, faults>>
  BY <1>5 DEF OtherRelayer, OtherCranker, Sibling, local
<1>6. CASE SlotPasses \/ NextTick \/ UNCHANGED crankVars
  BY <1>1, <1>6 DEF SlotPasses, NextTick, crankVars, local
<1>. QED
  BY <1>1, <1>2, <1>3, <1>4, <1>5, <1>6 DEF CrankNext

LEMMA ErrorsExplainedNext ==
  ASSUME OneMessagePerInbox, MirrorsOnre, PricesRise, OursAreIntents,
         CrankInv, Scoped, Cached, InboxOfOne, WasOpened, Derived, ErrorsExplained,
         [CrankNext]_crankVars
  PROVE  ErrorsExplained'
<1> SUFFICES ASSUME NEW m \in Message, DirectionOf(m) = "Deposit"
             PROVE  attempts'[m] + Count(Doomed(m)') <= faults' + Setbacks(m)'
  BY DEF ErrorsExplained, DirectionOf
<1>1. PICK s \in 0 .. 3, s1 \in 0 .. 3 :
        /\ s = Setbacks(m) /\ s1 = Setbacks(m)' /\ s1 >= s
        /\ task'[Advance(m)] = task[Advance(m)] => s1 + Count(Doomed(m)) >= s + Count(Doomed(m)')
  BY SetbackPerDoom
<1>2. PICK d \in {0, 1}, d1 \in {0, 1} :
        /\ d = Count(Doomed(m)) /\ d1 = Count(Doomed(m)')
        /\ (Doomed(m) <=> d = 1) /\ (Doomed(m)' <=> d1 = 1)
  BY DEF Count
<1>3. PICK a \in Nat, f \in Nat : a = attempts[m] /\ f = faults
  BY DEF Cached
<1>4. a + d <= f + s
  BY <1>1, <1>2, <1>3 DEF ErrorsExplained
<1>5. CASE Outcome(m)
  <2>1. /\ faults' \in {f, f + 1}
        /\ \/ d1 = 0 /\ attempts'[m] \in {0, a}
           \/ d1 = 0 /\ attempts'[m] = a + 1 /\ (d = 1 \/ faults' = f + 1)
           \/ attempts'[m] = a /\ (d = 1 \/ faults' = f + 1)
    BY <1>2, <1>3, <1>5 DEF Outcome, Excused
  <2>2. attempts'[m] + d1 <= faults' + s1
    BY <1>1, <1>4, <2>1
  <2>. QED  BY <1>1, <1>2, <2>2
<1>6. CASE attempts'[m] = 0 /\ task'[Advance(m)].at = "idle" /\ faults' = faults + 1
  <2>1. d1 = 0
    BY <1>2, <1>6 DEF Doomed
  <2>2. attempts'[m] + d1 <= faults' + s1
    BY <1>3, <1>6, <2>1
  <2>. QED  BY <1>1, <1>2, <2>2
<1>7. CASE /\ attempts'[m] = attempts[m] /\ faults' \in {faults, faults + 1}
           /\ task'[Advance(m)] = task[Advance(m)]
  <2>1. s1 + d >= s + d1
    BY <1>1, <1>2, <1>7
  <2>2. attempts'[m] + d1 <= faults' + s1
    BY <1>3, <1>4, <1>7, <2>1
  <2>. QED  BY <1>1, <1>2, <2>2
<1>. QED  BY <1>5, <1>6, <1>7, OthersSpare, StepOutcome

(* The errors in a row of a deposit exceed the faults so far by no more    *)
(* than the three setbacks, each of which happens to it once.              *)
ErrorsBounded ==
  \A m \in Message : DirectionOf(m) = "Deposit" => attempts[m] <= faults + 3

(* However other relayers and crankers act around our reads, and however   *)
(* often a flow is retried, the advance scan counts at most three errors   *)
(* of a deposit in a row beyond the faults there were (receive.ts, swap.ts, *)
(* send.ts, race-classifier.ts): a redeem by somebody else, a flow that    *)
(* somebody else opened, and one that was closed or has become too dear    *)
(* under our swap or send. A race that can recur is told apart by its      *)
(* error code or noticed before the transaction. Of OnRe this takes that   *)
(* its price does not fall and that the SDK's mirror reads it; of the      *)
(* messages that none shares an inbox account with another, and that one   *)
(* which no intent program sent is not addressed to an inbox that its      *)
(* transaction names.                                                      *)
THEOREM ErrorsAreBounded ==
  ASSUME OneMessagePerInbox, MirrorsOnre, PricesRise, OursAreIntents
  PROVE  CrankSpec => [](ErrorsBounded /\ faults \in 0 .. MaxFaults)
<1> DEFINE I == /\ CrankInv /\ Scoped /\ Cached /\ InboxOfOne
                /\ WasOpened /\ Derived /\ ErrorsExplained
<1>1. CrankInit => I
  <2> SUFFICES ASSUME CrankInit  PROVE I
    OBVIOUS
  <2>1. CrankInv /\ Scoped /\ Cached /\ InboxOfOne
    BY CrankInvInit, ScopedInit, InboxOfOneInit DEF CrankInit
  <2>2. \A m \in Message : ~IsOpen(m)
    BY DEF CrankInit, Init, IsOpen
  <2>3. \A m \in Message : task[Advance(m)].at = "idle"
    BY DEF CrankInit, IdleTask, Advance, Scan
  <2>4. WasOpened /\ Derived
    BY <2>2, <2>3 DEF CrankInit, WasOpened, Derived
  <2>5. ASSUME NEW m \in Message
        PROVE  attempts[m] + Count(Doomed(m)) <= faults + Setbacks(m)
    <3>1. Count(Doomed(m)) = 0
      BY <2>3 DEF Doomed, Count
    <3>2. Setbacks(m) = 0
      BY <2>2 DEF CrankInit, Init, Setbacks, Count, Settled, TooDear
    <3>. QED  BY <3>1, <3>2 DEF CrankInit
  <2>. QED  BY <2>1, <2>4, <2>5 DEF ErrorsExplained
<1>2. I /\ [CrankNext]_crankVars => I'
  BY CrankInvNext, ScopedNext, InboxOfOneNext, WasOpenedNext, DerivedNext, ErrorsExplainedNext
     DEF CrankInv
<1>3. I => ErrorsBounded /\ faults \in 0 .. MaxFaults
  <2> SUFFICES ASSUME I, NEW m \in Message, DirectionOf(m) = "Deposit"
               PROVE  attempts[m] <= faults + 3
    BY DEF ErrorsBounded, Cached
  <2>1. Setbacks(m) \in 0 .. 3 /\ Count(Doomed(m)) \in {0, 1}
    BY DEF Setbacks, Count
  <2>2. attempts[m] \in Nat /\ faults \in 0 .. MaxFaults
    BY DEF Cached
  <2>3. attempts[m] + Count(Doomed(m)) <= faults + Setbacks(m)
    BY DEF ErrorsExplained
  <2>. QED  BY <2>1, <2>2, <2>3, CrankerAssumption
<1>. QED  BY <1>1, <1>2, <1>3, PTL DEF CrankSpec

(* So no deposit is ever quarantined while the threshold exceeds the       *)
(* number of faults by more than three: with the code's eight, it takes    *)
(* five faults (flow-state.ts).                                            *)
THEOREM DepositsAreSpared ==
  ASSUME OneMessagePerInbox, MirrorsOnre, PricesRise, OursAreIntents,
         POISON_THRESHOLD > MaxFaults + 3
  PROVE  CrankSpec => []DepositsNeverQuarantined
<1>1. ErrorsBounded /\ faults \in 0 .. MaxFaults /\ CrankTypeOK => DepositsNeverQuarantined
  BY CrankerAssumption DEF ErrorsBounded, DepositsNeverQuarantined, CrankTypeOK
<1>. QED  BY <1>1, ErrorsAreBounded, CrankTypeCorrect, PTL

=============================================================================
