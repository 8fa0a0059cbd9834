------------------------------ MODULE Cranker ------------------------------
(***************************************************************************)
(* One cranker driving flows through the relayer program, beside generic   *)
(* NTT relayers and other crankers that do the same.                       *)
(*                                                                         *)
(* Two scans run side by side: `advance` dispatches a flow by the status   *)
(* it was listed with (receive, swap, send, chained in one task while each *)
(* leg advances), `refund`, if it is turned on, picks up the listed flows  *)
(* that are Received. The advance scan of a tick lists flows with one of   *)
(* two enumerators, the incremental one or, if it is turned on and due,    *)
(* the backstop; each of the three has a terminalCache of its own.         *)
(* Every read is a step of its own, so that whatever it found may be stale *)
(* when the transaction it led to is submitted. A transaction that fails   *)
(* is told apart by its error code: a lost race counts as a noop, any      *)
(* other as an error, and POISON_THRESHOLD errors in a row quarantine the  *)
(* flow (module FlowTracker has the backoff between them, module           *)
(* Enumerator which VAAs a scan lists).                                    *)
(*                                                                         *)
(* The deployment is taken to be configured: peers, transceivers and the   *)
(* lookup table exist (a missing one makes every leg a noop).              *)
(***************************************************************************)
EXTENDS Relayer, Pricing

CONSTANTS
  Scenarios,        \* which messages are under way, and REFUND_INTERVAL_MS
  Source,           \* the FOGO transaction that emitted each message
  BridgeTx,         \* what each of those states: source-account owners and floors
  Offer,            \* OnRe's offer account
  VenuePrice,       \* OnRe's own price in each slot
  SignedAt,         \* the slot at which the floors were signed
  slippageBps,      \* the tolerance they were signed with
  BACKSTOP_INTERVAL_MS, \* 0: no backstop sweeps
  POISON_THRESHOLD,
  maxConcurrentAdvances,
  None,
  FaultKinds,       \* what may go wrong in this instance
  MaxFaults         \* bound: how often something goes wrong

Scan == {"advance", "refund"}
Enumerator == {"incremental", "backstop", "refund"}
Reading == {"peekInbox", "peekAta", "receive", "preflight", "swap", "send", "refund"}
TxStep == {"post", "submitReceive", "submitSwap", "submitSend", "submitRefund"}

ASSUME CrankerAssumption ==
  /\ Scenarios \subseteq (SUBSET Message) \X Nat
  /\ \A m \in Message : BridgeTx[Source[m]] \in [wallets : SUBSET Wallet, floors : SUBSET Floor]
  /\ FaultKinds \subseteq {"read", "limit", "timeout", "crash"}
  /\ POISON_THRESHOLD \in Nat \ {0} /\ maxConcurrentAdvances \in Nat \ {0}
  /\ BACKSTOP_INTERVAL_MS \in Nat
  /\ MaxFaults \in Nat /\ slippageBps \in 0 .. BPS /\ SignedAt \in 0 .. LastReceiveSlot
  /\ None \notin InboxAuthority

Slot == 0 .. LastReceiveSlot + REFUND_TIMEOUT_SLOTS

(* OnRe quotes a price in every slot, and is one of the venues a swap may  *)
(* be routed to.                                                           *)
ASSUME VenueAssumption ==
  \A s \in Slot :
    /\ VenuePrice[s] \in Nat \ {0}
    /\ \A m \in Message : Transfer[m].token[2] = "base" =>
         depositExpectedOut(Transfer[m].amount, VenuePrice[s]) \in RouterOutputs

VARIABLES
  sent,     \* the messages under way
  refundIntervalMs, \* as the process was configured; 0: no refund sweeps
  posted,   \* messages whose transceiver message account exists
  task,     \* what each scan does about each message
  sweep,    \* the enumerator of the advance scan's current tick
  terminal, \* terminalCache of each enumerator
  wallets,  \* userWalletCache, by FOGO transaction
  attempts, \* errors in a row of each flow
  late,     \* transactions whose sender has stopped waiting
  faults    \* faults so far

local == <<task, sweep, terminal, wallets, attempts, late, faults>>
crankVars == <<vars, sent, refundIntervalMs, posted, local>>

IdleTask == [at |-> "idle", cand |-> None]
Transaction == [at : TxStep, m : Message, cand : InboxAuthority \cup {None}]

DirectionOf(m) == IF Transfer[m].token[2] = "base" THEN "Deposit" ELSE "Withdraw"
PairOf(m) == Transfer[m].token[1]
Balance(m) == parked[<<Transfer[m].to, Transfer[m].token>>]

(* The enumerators that were built; a backstop is due on the first tick. *)
Sweeps == {"incremental"} \cup (IF BACKSTOP_INTERVAL_MS > 0 THEN {"backstop"} ELSE {})
FirstSweep == IF BACKSTOP_INTERVAL_MS > 0 THEN "backstop" ELSE "incremental"

(* The enumerator a scan lists with. *)
ListedBy(s) == IF s = "refund" THEN "refund" ELSE sweep

Fault(kind) ==
  /\ kind \in FaultKinds
  /\ faults < MaxFaults
  /\ faults' = faults + 1

CrankInit ==
  /\ Init
  /\ \E s \in Scenarios : sent = s[1] /\ refundIntervalMs = s[2]
  /\ posted = {}
  /\ task = [k \in Scan \X Message |-> IdleTask]
  /\ sweep = FirstSweep
  /\ terminal = [e \in Enumerator |-> {}]
  /\ wallets = [x \in { Source[m] : m \in Message } |-> None]
  /\ attempts = [m \in Message |-> 0]
  /\ late = {}
  /\ faults = 0

-----------------------------------------------------------------------------
(* What a transaction finds when it executes. "6004" is                    *)
(* FlowStatusMismatch, "6008" NTT's TransferCannotBeRedeemed, "6022"       *)
(* InsufficientInboxBalance.                                               *)

(* RelayerClient.receive *)
ReceiveCode(m, cand) ==
  IF IsOpen(m) THEN "in use"
  ELSE IF inbox[m] = "delayed" THEN "6008"
  ELSE IF cand # Transfer[m].to \/ ~Transfer[m].intent THEN "invalid"
  ELSE IF inbox[m] = "released" /\ Balance(m) < Transfer[m].amount THEN "6022"
  ELSE "ok"
ReceiveTx(m, cand) ==
  /\ ReceiveCode(m, cand) = "ok"
  /\ \/ ReceiveRedeem(m, PairOf(m), DirectionOf(m), cand[1], cand[2])
     \/ ReceiveSkip(m, PairOf(m), DirectionOf(m), cand[1], cand[2])

(* RelayerClient.swap: a deposit goes through OnRe at OnRe's price of the  *)
(* moment, a withdrawal through the route it was quoted.                   *)
VenueOut(m) == depositExpectedOut(flow[m].amount, VenuePrice[slot])
SwapOutputs(m) == IF DirectionOf(m) = "Deposit" THEN {VenueOut(m)} ELSE RouterOutputs
SwapCode(m, out) ==
  IF ~IsOpen(m) THEN "closed"
  ELSE IF flow[m].status # "Received" THEN "6004"
  ELSE IF out < flow[m].min_swap_out THEN "below floor"
  ELSE "ok"
SwapTx(m, out) ==
  LET f == flow[m]
  IN  /\ SwapCode(m, out) = "ok"
      /\ Swap(m, { RecvToken(f.pair, f.direction), SendToken(f.pair, f.direction) },
              f.amount - FeeIn(f), out)

(* RelayerClient.send, RelayerClient.refund *)
SendCode(m) ==
  IF ~IsOpen(m) THEN "closed"
  ELSE IF flow[m].status # "Swapped" THEN "6004" ELSE "ok"
SendTx(m) == SendCode(m) = "ok" /\ Send(m)

RefundCode(m) ==
  IF ~IsOpen(m) THEN "closed"
  ELSE IF flow[m].status # "Received" THEN "6004" ELSE "ok"
RefundTx(m) == RefundCode(m) = "ok" /\ Refund(m)

(* isLostRace: what an error code makes of the attempt. *)
RACE_TABLE == {"6004", "6022"}
EmptyTable(code) == "error"   \* mutation: no error counts as a lost race
ResultOf(code) == IF code \in RACE_TABLE THEN "noop" ELSE "error"

(* `.rpc()` attaches the code to the error; an error of                    *)
(* `provider.sendAndConfirm` (send, refund, the swap of a withdrawal) need *)
(* not carry it.                                                           *)
Uncoded(code) == {ResultOf(code), "error"}

-----------------------------------------------------------------------------
(* The end of a task, and the start of one. *)

Goto(k, at, cand) == task' = [task EXCEPT ![k] = [at |-> at, cand |-> cand]]

(* recordError, recordSuccess: the advance scan keeps count, the refund    *)
(* scan only logs.                                                         *)
Finish(k, result) ==
  /\ task' = [task EXCEPT ![k] = IdleTask]
  /\ attempts' = IF k[1] = "refund" THEN attempts
                 ELSE [attempts EXCEPT ![k[2]] = IF result = "error" THEN @ + 1 ELSE 0]

(* pickAdvanceForStatus behind the per-flow gate; scanAndRefund's filter.  *)
AnyStatus(s, m, status) ==   \* mutation: both scans dispatch alike
  CASE status = "Pending"  -> "receive"
    [] status = "Received" -> "swap"
    [] status = "Swapped"  -> "send"
NoSend(s, m, status) ==   \* mutation: a swapped flow has no handler
  IF s = "refund" THEN IF status = "Received" THEN "refund" ELSE "idle"
  ELSE IF status = "Pending" /\ attempts[m] < POISON_THRESHOLD THEN "receive"
  ELSE IF status = "Received" THEN "swap" ELSE "idle"
Leg(s, m, status) ==
  IF s = "refund" THEN IF status = "Received" THEN "refund" ELSE "idle"
  ELSE IF attempts[m] >= POISON_THRESHOLD THEN "idle"
  ELSE CASE status = "Pending"  -> "receive"
         [] status = "Received" -> "swap"
         [] status = "Swapped"  -> "send"
         [] OTHER -> "idle"
Dispatch(k, status) == Goto(k, Leg(k[1], k[2], status), None)

Busy(s) == { m \in Message : task[<<s, m>>].at # "idle" }

(* A tick starts when the scan of the last one is over. Which of them find *)
(* the backstop due is up to the clock.                                    *)
NextTick ==
  /\ Busy("advance") = {}
  /\ sweep' \in Sweeps
  /\ UNCHANGED <<vars, sent, refundIntervalMs, posted, task, terminal, wallets, attempts, late, faults>>

(* scanWormholescanVaa: the flow is looked up unless it is known to be     *)
(* over. (A lookup that fails leaves the message for the next scan.)       *)
Enumerate(k) ==
  LET m == k[2]
  IN  /\ m \in sent
      /\ task[k].at = "idle"
      /\ Cardinality(Busy(k[1])) < maxConcurrentAdvances
      /\ k[1] = "refund" => refundIntervalMs > 0
      /\ m \notin terminal[ListedBy(k[1])]
      /\ IF IsOpen(m) THEN Dispatch(k, flow[m].status) ELSE Goto(k, "peekInbox", None)
      /\ UNCHANGED <<vars, sent, refundIntervalMs, posted, sweep, terminal, wallets, attempts, late, faults>>

(* classifyMissingFlow: a missing flow is over when its inbox item is      *)
(* released and the released tokens are gone; two reads, one after the     *)
(* other.                                                                  *)
PeekInbox(k) ==
  /\ task[k].at = "peekInbox"
  /\ IF inbox[k[2]] = "released" THEN Goto(k, "peekAta", None) ELSE Dispatch(k, "Pending")
  /\ UNCHANGED <<vars, sent, refundIntervalMs, posted, sweep, terminal, wallets, attempts, late, faults>>

PeekAta(k) ==
  /\ task[k].at = "peekAta"
  /\ IF Balance(k[2]) >= Transfer[k[2]].amount
     THEN Dispatch(k, "Pending") /\ UNCHANGED terminal
     ELSE /\ task' = [task EXCEPT ![k] = IdleTask]
          /\ terminal' = [terminal EXCEPT ![ListedBy(k[1])] = @ \cup {k[2]}]
  /\ UNCHANGED <<vars, sent, refundIntervalMs, posted, sweep, wallets, attempts, late, faults>>

(* A read that fails. Either peek leaves the flow Pending, the preflight   *)
(* of `receive` may be passed over; elsewhere it ends the task: as a noop  *)
(* where the code takes a failed read for a missing account, else as an    *)
(* error.                                                                  *)
ClosedOnFailure(k) ==   \* mutation: an unreadable balance counts as swept
  /\ task' = [task EXCEPT ![k] = IdleTask]
  /\ terminal' = IF task[k].at = "peekAta"
                 THEN [terminal EXCEPT ![ListedBy(k[1])] = @ \cup {k[2]}] ELSE terminal
  /\ UNCHANGED attempts
PeekFailed(k) == Dispatch(k, "Pending") /\ UNCHANGED <<terminal, attempts>>

ReadFails(k) ==
  /\ task[k].at \in Reading
  /\ Fault("read")
  /\ \/ task[k].at \in {"peekInbox", "peekAta"} /\ PeekFailed(k)
     \/ /\ task[k].at = "preflight" /\ DirectionOf(k[2]) = "Deposit"
        /\ Goto(k, "probe", task[k].cand) /\ UNCHANGED <<terminal, attempts>>
     \/ /\ task[k].at \notin {"peekInbox", "peekAta"}
        /\ \E result \in {"noop", "error"} : Finish(k, result)
        /\ UNCHANGED terminal
  /\ UNCHANGED <<vars, sent, refundIntervalMs, posted, sweep, wallets, late>>

-----------------------------------------------------------------------------
(* receive *)

(* recoverWalletAndMinOutCandidates: every owner of a source account times *)
(* every floor the transaction's memo and signed messages state.           *)
SourceOwners(x) == BridgeTx[x].wallets
StatedFloors(x) == BridgeTx[x].floors
Candidates(x) == SourceOwners(x) \X StatedFloors(x)

(* The candidate whose inbox is the message's recipient, the cached one    *)
(* first.                                                                  *)
CachedAnyway(m) ==   \* mutation: the cache is keyed by transaction and not compared
  IF wallets[Source[m]] # None THEN {wallets[Source[m]]}
  ELSE Candidates(Source[m]) \cap {Transfer[m].to}
Matched(m) ==
  (Candidates(Source[m]) \cup {wallets[Source[m]]}) \cap {Transfer[m].to}

(* A message no candidate derives is not ours; an existing flow means      *)
(* somebody was first.                                                     *)
Recover(k) ==
  LET m == k[2]
  IN  /\ task[k].at = "receive"
      /\ \/ /\ Matched(m) = {}
            /\ Finish(k, "noop")
            /\ UNCHANGED wallets
         \/ \E cand \in Matched(m) :
              /\ wallets' = [wallets EXCEPT ![Source[m]] = cand]
              /\ \/ IsOpen(m) /\ Finish(k, "noop")
                 \/ ~IsOpen(m) /\ Goto(k, "preflight", cand) /\ UNCHANGED attempts
      /\ UNCHANGED <<vars, sent, refundIntervalMs, posted, sweep, terminal, late, faults>>

(* Another message of the same transaction is handled by this process.     *)
Sibling(m) ==
  /\ m \in sent
  /\ \E cand \in Candidates(Source[m]) : wallets' = [wallets EXCEPT ![Source[m]] = cand]
  /\ UNCHANGED <<vars, sent, refundIntervalMs, posted, sweep, task, terminal, attempts, late, faults>>

(* A deposit that is redeemed but whose inbox does not hold the amount     *)
(* cannot be received now; one whose candidate is not the recipient never. *)
(* A withdrawal is not checked.                                            *)
PreflightOf(m, cand) ==
  IF DirectionOf(m) = "Withdraw" THEN "ok"
  ELSE IF inbox[m] # "absent" /\ Balance(m) < Transfer[m].amount THEN "noop"
  ELSE IF cand # Transfer[m].to THEN "error" ELSE "ok"
Preflight(k) ==
  LET result == PreflightOf(k[2], task[k].cand)
  IN  /\ task[k].at = "preflight"
      /\ \/ result = "ok" /\ Goto(k, "probe", task[k].cand) /\ UNCHANGED attempts
         \/ result # "ok" /\ Finish(k, result)
      /\ UNCHANGED <<vars, sent, refundIntervalMs, posted, sweep, terminal, wallets, late, faults>>

(* prepareTransceiverMessage: probe for the account, else post the VAA's   *)
(* signatures and the message; to find it created meanwhile is as good     *)
(* (transceiverMessageAlreadyExists). A probe that fails only costs the    *)
(* post.                                                                   *)
Probe(k) ==
  /\ task[k].at = "probe"
  /\ Goto(k, IF k[2] \in posted THEN "submitReceive" ELSE "post", task[k].cand)
  /\ UNCHANGED <<vars, sent, refundIntervalMs, posted, sweep, terminal, wallets, attempts, late, faults>>

CreatedMeanwhile(m) == m \in posted
PostMessage(m) == posted' = posted \cup {m}

SubmitPost(k) ==
  /\ task[k].at = "post"
  /\ \/ ~CreatedMeanwhile(k[2]) /\ PostMessage(k[2])
     \/ CreatedMeanwhile(k[2]) /\ UNCHANGED posted
  /\ Goto(k, "submitReceive", task[k].cand)
  /\ UNCHANGED <<vars, sent, refundIntervalMs, sweep, terminal, wallets, attempts, late, faults>>

(* NTT's inbound rate limit may delay the release inside the transaction,  *)
(* which then fails for the balance and leaves nothing behind.             *)
SubmitReceive(k) ==
  LET m == k[2]
      code == ReceiveCode(m, task[k].cand)
  IN  /\ task[k].at = "submitReceive"
      /\ \/ /\ ReceiveTx(m, task[k].cand)
            /\ Goto(k, Leg("advance", m, "Received"), None)
            /\ UNCHANGED <<attempts, faults>>
         \/ /\ code # "ok"
            /\ Finish(k, ResultOf(code))
            /\ UNCHANGED <<vars, faults>>
         \/ /\ code = "ok" /\ inbox[m] = "absent"
            /\ Fault("limit")
            /\ Finish(k, ResultOf("6022"))
            /\ UNCHANGED vars
      /\ UNCHANGED <<sent, refundIntervalMs, posted, sweep, terminal, wallets, late>>

-----------------------------------------------------------------------------
(* swap, send, refund: read the flow again, check, submit. *)

nowUnix(s) == s + 1   \* one unit of OnRe's time per slot

(* The output the cranker expects: of a deposit from the SDK's mirror of   *)
(* OnRe's price, of a withdrawal from a quoted route.                      *)
Quotes(m) ==
  IF DirectionOf(m) = "Deposit"
  THEN {depositExpectedOut(flow[m].amount, SpotPrice(Offer, nowUnix(slot)))} ELSE RouterOutputs

PlanSwap(k) ==
  LET m == k[2]
  IN  /\ task[k].at = "swap"
      /\ \/ ~(IsOpen(m) /\ flow[m].status = "Received") /\ Finish(k, "noop")
         \/ /\ IsOpen(m) /\ flow[m].status = "Received"
            /\ \E out \in Quotes(m) :
                 IF out < flow[m].min_swap_out THEN Finish(k, "noop")
                 ELSE Goto(k, "submitSwap", None) /\ UNCHANGED attempts
      /\ UNCHANGED <<vars, sent, refundIntervalMs, posted, sweep, terminal, wallets, late, faults>>

SubmitSwap(k) ==
  LET m == k[2]
  IN  /\ task[k].at = "submitSwap"
      /\ \/ /\ ~IsOpen(m)
            /\ Finish(k, ResultOf("closed")) /\ UNCHANGED vars
         \/ \E out \in IF IsOpen(m) THEN SwapOutputs(m) ELSE {} :
              LET code == SwapCode(m, out)
              IN  \/ SwapTx(m, out) /\ Goto(k, Leg("advance", m, "Swapped"), None) /\ UNCHANGED attempts
                  \/ /\ code # "ok" /\ UNCHANGED vars
                     /\ \E result \in IF DirectionOf(m) = "Deposit" THEN {ResultOf(code)} ELSE Uncoded(code) :
                          Finish(k, result)
      /\ UNCHANGED <<sent, refundIntervalMs, posted, sweep, terminal, wallets, late, faults>>

PlanSend(k) ==
  LET m == k[2]
  IN  /\ task[k].at = "send"
      /\ \/ IsOpen(m) /\ flow[m].status = "Swapped" /\ Goto(k, "submitSend", None) /\ UNCHANGED attempts
         \/ ~(IsOpen(m) /\ flow[m].status = "Swapped") /\ Finish(k, "noop")
      /\ UNCHANGED <<vars, sent, refundIntervalMs, posted, sweep, terminal, wallets, late, faults>>

SubmitSend(k) ==
  LET code == SendCode(k[2])
  IN  /\ task[k].at = "submitSend"
      /\ \/ SendTx(k[2]) /\ Finish(k, "advanced")
         \/ code # "ok" /\ UNCHANGED vars /\ \E result \in Uncoded(code) : Finish(k, result)
      /\ UNCHANGED <<sent, refundIntervalMs, posted, sweep, terminal, wallets, late, faults>>

refundDue(receivedSlot, currentSlot) == currentSlot >= receivedSlot + REFUND_TIMEOUT_SLOTS

Refundable(m) ==
  IsOpen(m) /\ flow[m].status = "Received" /\ refundDue(flow[m].received_slot, slot)

PlanRefund(k) ==
  /\ task[k].at = "refund"
  /\ \/ Refundable(k[2]) /\ Goto(k, "submitRefund", None) /\ UNCHANGED attempts
     \/ ~Refundable(k[2]) /\ Finish(k, "noop")
  /\ UNCHANGED <<vars, sent, refundIntervalMs, posted, sweep, terminal, wallets, late, faults>>

SubmitRefund(k) ==
  LET code == RefundCode(k[2])
  IN  /\ task[k].at = "submitRefund"
      /\ \/ RefundTx(k[2]) /\ Finish(k, "advanced")
         \/ code # "ok" /\ UNCHANGED vars /\ \E result \in Uncoded(code) : Finish(k, result)
      /\ UNCHANGED <<sent, refundIntervalMs, posted, sweep, terminal, wallets, late, faults>>

-----------------------------------------------------------------------------
(* withTimeout, and a confirmation that does not come: an error; the       *)
(* transaction may be on its way.                                          *)
Timeout(k) ==
  /\ task[k].at \in TxStep
  /\ Fault("timeout")
  /\ late' = late \cup {[at |-> task[k].at, m |-> k[2], cand |-> task[k].cand]}
  /\ Finish(k, "error")
  /\ UNCHANGED <<vars, sent, refundIntervalMs, posted, sweep, terminal, wallets>>

Lands(t) ==
  \/ t.at = "post" /\ PostMessage(t.m) /\ UNCHANGED vars
  \/ t.at = "submitReceive" /\ ReceiveTx(t.m, t.cand) /\ UNCHANGED posted
  \/ t.at = "submitSwap" /\ IsOpen(t.m) /\ (\E out \in SwapOutputs(t.m) : SwapTx(t.m, out)) /\ UNCHANGED posted
  \/ t.at = "submitSend" /\ SendTx(t.m) /\ UNCHANGED posted
  \/ t.at = "submitRefund" /\ RefundTx(t.m) /\ UNCHANGED posted

Late(t) ==
  /\ t \in late
  /\ late' = late \ {t}
  /\ Lands(t) \/ UNCHANGED <<vars, posted>>
  /\ UNCHANGED <<sent, refundIntervalMs, sweep, task, terminal, wallets, attempts, faults>>

(* The process dies and is started again: its caches are empty, what it    *)
(* had sent is still on its way.                                           *)
Crash ==
  /\ Fault("crash")
  /\ task' = [k \in Scan \X Message |-> IdleTask]
  /\ sweep' = FirstSweep
  /\ terminal' = [e \in Enumerator |-> {}]
  /\ wallets' = [x \in DOMAIN wallets |-> None]
  /\ attempts' = [m \in Message |-> 0]
  /\ late' = late \cup { [at |-> task[k].at, m |-> k[2], cand |-> task[k].cand] :
                           k \in { j \in Scan \X Message : task[j].at \in TxStep } }
  /\ UNCHANGED <<vars, sent, refundIntervalMs, posted>>

(* Others: generic NTT relayers, other crankers, and time (bound: a slot   *)
(* after LastReceiveSlot only once nothing is left to receive).            *)
OtherRelayer(m) ==
  /\ m \in sent
  /\ \/ NttRedeem(m) /\ posted' = posted \cup {m}
     \/ NttRelease(m) /\ UNCHANGED posted
  /\ UNCHANGED <<sent, refundIntervalMs, local>>

OtherCranker(m) ==
  /\ m \in sent
  /\ \/ ReceiveTx(m, Transfer[m].to) /\ posted' = posted \cup {m}
     \/ /\ \/ IsOpen(m) /\ \E out \in SwapOutputs(m) : SwapTx(m, out)
           \/ SendTx(m)
           \/ RefundTx(m)
        /\ UNCHANGED posted
  /\ UNCHANGED <<sent, refundIntervalMs, local>>

AwaitsReceive(m) == m \in sent /\ Transfer[m].intent /\ opened[m] = 0
SlotPasses ==
  /\ slot < LastReceiveSlot \/ \A m \in Message : ~AwaitsReceive(m)
  /\ Tick
  /\ UNCHANGED <<sent, refundIntervalMs, posted, local>>

Step(k) ==
  /\ task[k].at # "idle"
  /\ \/ PeekInbox(k) \/ PeekAta(k)
     \/ Recover(k) \/ Preflight(k) \/ Probe(k) \/ SubmitPost(k) \/ SubmitReceive(k)
     \/ PlanSwap(k) \/ SubmitSwap(k)
     \/ PlanSend(k) \/ SubmitSend(k)
     \/ PlanRefund(k) \/ SubmitRefund(k)

CrankNext ==
  \/ NextTick
  \/ \E k \in Scan \X sent : Enumerate(k) \/ Step(k) \/ ReadFails(k) \/ Timeout(k)
  \/ \E t \in late : Late(t)
  \/ \E m \in sent : OtherRelayer(m) \/ OtherCranker(m) \/ Sibling(m)
  \/ Crash
  \/ SlotPasses

CrankSpec == CrankInit /\ [][CrankNext]_crankVars

(* Promises settle; slots pass and NTT's delays run out (somebody          *)
(* releases). The backstop and the refund sweep, where they are turned on, *)
(* come round again and list every flow in their pages. Of the incremental *)
(* enumerator nothing is assumed: it need not list a flow that is below    *)
(* its watermark. Nor is anything assumed of other crankers, or of one     *)
(* message before another.                                                 *)
CrankFairness ==
  /\ WF_crankVars(SlotPasses)
  /\ SF_crankVars(NextTick /\ sweep' = "backstop")
  /\ \A s \in Scan :
       /\ WF_crankVars(\E m \in Message : Step(<<s, m>>))
       /\ SF_crankVars(ListedBy(s) # "incremental" /\ \E m \in Message : Enumerate(<<s, m>>))
  /\ WF_crankVars(\E m \in Message : NttRelease(m) /\ OtherRelayer(m))

CrankFairSpec == CrankSpec /\ CrankFairness

-----------------------------------------------------------------------------
(* Properties *)

CrankTypeOK ==
  /\ TypeOK
  /\ <<sent, refundIntervalMs>> \in Scenarios /\ posted \subseteq sent
  /\ task \in [Scan \X Message ->
                 [at : Reading \cup TxStep \cup {"idle", "probe"},
                  cand : InboxAuthority \cup {None}]]
  /\ \A m \in Message : task[<<"refund", m>>].at
                          \in {"idle", "peekInbox", "peekAta", "refund", "submitRefund"}
  /\ sweep \in Sweeps
  /\ terminal \in [Enumerator -> SUBSET sent]
  /\ wallets \in [{ Source[m] : m \in Message } -> InboxAuthority \cup {None}]
  /\ attempts \in [Message -> Nat]
  /\ late \subseteq Transaction
  /\ faults \in 0 .. MaxFaults

(* No enumerator ever writes off a flow that was never opened: whatever    *)
(* the reads of classifyMissingFlow return, and whoever redeems or sweeps  *)
(* in between them, only a message that has had its flow is cached as      *)
(* over.                                                                   *)
NeverAbandonsPending ==
  \A e \in Enumerator : \A m \in terminal[e] : opened[m] >= 1

(* Races with other relayers and crankers, and as many faults as the       *)
(* instance has, never quarantine a deposit.                               *)
DepositsNeverQuarantined ==
  \A m \in Message : DirectionOf(m) = "Deposit" => attempts[m] < POISON_THRESHOLD

(* A transaction of ours is never sent with a wallet and floor that do not *)
(* derive its message's recipient, although the cache they come from is    *)
(* keyed by the transaction that emitted it.                               *)
RecipientsMatch ==
  \A m \in Message, s \in Scan :
    task[<<s, m>>].at \in {"post", "submitReceive"} => task[<<s, m>>].cand = Transfer[m].to

(* The deposit a wallet signed for clears its floor at OnRe as long as     *)
(* OnRe's price has risen by no more than the signed tolerance since.      *)
FloorReachable ==
  \A m \in Message :
    IsOpen(m) /\ flow[m].status = "Received" /\ DirectionOf(m) = "Deposit"
      /\ VenuePrice[slot] * (BPS - slippageBps) <= VenuePrice[SignedAt] * BPS
    => VenueOut(m) >= flow[m].min_swap_out

(* A sweep takes the open flow of a message for over: the flow was opened  *)
(* between its reads of classifyMissingFlow.                               *)
WrittenOff(m) == IsOpen(m) /\ (m \in terminal["backstop"] \/ m \in terminal["refund"])

(* The flow waits for a price that meets its floor. *)
BelowFloor(m) ==
  /\ IsOpen(m) /\ flow[m].status = "Received"
  /\ \E out \in Quotes(m) : out < flow[m].min_swap_out

(* With the backstop on, every intent of a wallet is settled in the end,   *)
(* by a send or a refund, unless its flow was opened under a sweep's reads *)
(* and written off, or it is quarantined, or refund sweeps are turned off, *)
(* as they are by default, and the price does not meet its floor.          *)
SettledInTheEnd ==
  \A m \in { n \in Message : Transfer[n].intent } :
    m \in sent =>
      <>[](\/ opened[m] >= 1 /\ ~IsOpen(m)
           \/ WrittenOff(m)
           \/ attempts[m] >= POISON_THRESHOLD
           \/ refundIntervalMs = 0 /\ BelowFloor(m))

(* The claim of enumerate.ts that a redundant `receive` is a known race:   *)
(* without a fault, no flow is ever quarantined.                           *)
RacesNeverQuarantine == \A m \in Message : attempts[m] < POISON_THRESHOLD

=============================================================================
