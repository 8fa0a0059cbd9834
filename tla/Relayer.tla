------------------------------ MODULE Relayer ------------------------------
(***************************************************************************)
(* The relayer program: the Solana side of a deposit or a withdrawal.      *)
(*                                                                         *)
(* An inbound NTT transfer (a Message, one NTT inbox item each) is         *)
(* addressed to an inbox PDA derived from a wallet and the floor that      *)
(* wallet signed. `receive` sweeps the message's amount out of that        *)
(* inbox's token account into the relayer's custody account of the token   *)
(* and opens a Flow; `swap` converts it through an arbitrary router;       *)
(* `send` bridges the output back and closes the Flow; `refund` bridges    *)
(* the untouched input back once the flow is old enough. All flows of all  *)
(* pairs share the custody accounts of one signing PDA. Every instruction  *)
(* is permissionless and atomic (a failed one changes nothing), so each is *)
(* one action, and actions interleave freely.                              *)
(***************************************************************************)
EXTENDS UnitSums

CONSTANTS
  Message,       \* inbound NTT transfers
  Pair,          \* initialised token pairs
  Wallet,        \* FOGO wallets
  Transfer,      \* what each message carries, a function on Message
  NoFlow,        \* "the flow account does not exist"
  FeeChoices,    \* fee settings governance uses for each pair (bps)
  RouterOutputs, \* outputs a swap route may return
  TrimUnit,      \* 10^(decimals - 8) of each token, 1 for 8 decimals or fewer
  REFUND_TIMEOUT_SLOTS,
  MAX_FEE_BPS,
  LastReceiveSlot, \* bound: no receive after this slot
  MaxGift          \* bound: unsolicited tokens per custody account

Direction == {"Deposit", "Withdraw"}
Side == {"base", "asset"}
Token == Pair \X Side
BPS == 10000

(* applyNttTrim: NTT carries 8 decimals at most, so an amount loses what   *)
(* is below 10^(decimals - 8), the factor.                                 *)
applyNttTrim(amount, factor) == (amount \div factor) * factor

(* The inbox PDA of a wallet and the floor it signed, and its token account. *)
Floor == Nat \ {0}
InboxAuthority == Wallet \X Floor
InboxAccount == { <<Transfer[m].to, Transfer[m].token>> : m \in Message }

(* The live fee of each leg of a pair. *)
FeeSetting == [deposit : 0 .. MAX_FEE_BPS, withdraw : 0 .. MAX_FEE_BPS]

(* An inbound amount was trimmed by the NTT manager that sent it. *)
ASSUME RelayerAssumption ==
  /\ IsFiniteSet(Message)
  /\ TrimUnit \in [Token -> Nat \ {0}]
  /\ Transfer \in [Message -> [token : Token, to : InboxAuthority,
                               amount : Nat \ {0}, intent : BOOLEAN]]
  /\ \A m \in Message :
       applyNttTrim(Transfer[m].amount, TrimUnit[Transfer[m].token]) = Transfer[m].amount
  /\ REFUND_TIMEOUT_SLOTS \in Nat \ {0}
  /\ MAX_FEE_BPS \in 0 .. BPS - 1
  /\ \A p \in Pair : FeeChoices[p] # {} /\ FeeChoices[p] \subseteq FeeSetting
  /\ RouterOutputs \subseteq Nat
  /\ LastReceiveSlot \in Nat
  /\ MaxGift \in [Token -> Nat]

FlowRecord ==
  [pair : Pair, direction : Direction, status : {"Received", "Swapped"},
   recipient : Wallet, min_swap_out : Floor, amount : Nat, received_slot : Nat]

(* A closed account is no flow, and no escrow of the abstract view below. *)
ASSUME NoFlowAssumption ==
  /\ NoFlow \notin FlowRecord
  /\ NoFlow \notin [phase : {"held", "converted"}, token : Token, amount : Nat]

VARIABLES
  inbox,    \* NTT inbox item of each message: absent, delayed or released
  parked,   \* balance of each user-inbox token account
  ata,      \* balance of each custody account of the relayer authority
  feeVault, \* balance of each pair's fee vault
  fees,     \* live deposit and withdraw fee of each pair
  flow,     \* flow account of each message
  slot,     \* Clock::slot
  gifts,    \* history: unsolicited tokens sent to a custody account
  dust,     \* history: what the trim of outbound transfers left in custody
  opened,   \* history: how often a message has opened a flow
  drawn,    \* history: what the flows of a wallet and floor have drawn
  paid      \* history: what has been bridged back to each wallet

vars ==
  <<inbox, parked, ata, feeVault, fees, flow, slot, gifts, dust, opened, drawn, paid>>

IsOpen(m) == flow[m] # NoFlow

(* receive_ntt_program, send_ntt_program: the token a leg moves. *)
RecvToken(p, d) == <<p, IF d = "Deposit" THEN "base" ELSE "asset">>
SendToken(p, d) == <<p, IF d = "Deposit" THEN "asset" ELSE "base">>

(* The custody account a flow's amount is held in. *)
HeldIn(f) ==
  IF f.status = "Received" THEN RecvToken(f.pair, f.direction)
                           ELSE SendToken(f.pair, f.direction)

(* apply_fee_bps *)
FeeOf(gross, bps) == (gross * bps) \div BPS

Init ==
  /\ inbox = [m \in Message |-> "absent"]
  /\ parked = [k \in InboxAccount |-> 0]
  /\ ata = [t \in Token |-> 0]
  /\ feeVault = [p \in Pair |-> 0]
  /\ fees \in [Pair -> UNION { FeeChoices[p] : p \in Pair }]
  /\ \A p \in Pair : fees[p] \in FeeChoices[p]
  /\ flow = [m \in Message |-> NoFlow]
  /\ slot = 0
  /\ gifts = [t \in Token |-> 0]
  /\ dust = [t \in Token |-> 0]
  /\ opened = [m \in Message |-> 0]
  /\ drawn = [k \in InboxAccount |-> 0]
  /\ paid = [k \in Wallet \X Token |-> 0]

-----------------------------------------------------------------------------
(* The NTT manager, driven by anyone (the generic NTT relayer for one).    *)

(* `redeem`: the item leaves `absent` and waits for its release. *)
NttRedeem(m) ==
  /\ inbox[m] = "absent"
  /\ inbox' = [inbox EXCEPT ![m] = "delayed"]
  /\ UNCHANGED <<parked, ata, feeVault, fees, flow, slot, gifts, dust, opened, drawn, paid>>

(* `release_inbound_unlock`, once no rate-limit delay is left: the tokens  *)
(* land in the token account of the recipient the message names.           *)
NttRelease(m) ==
  /\ inbox[m] = "delayed"
  /\ inbox' = [inbox EXCEPT ![m] = "released"]
  /\ parked' = [parked EXCEPT ![<<Transfer[m].to, Transfer[m].token>>] = @ + Transfer[m].amount]
  /\ UNCHANGED <<ata, feeVault, fees, flow, slot, gifts, dust, opened, drawn, paid>>

-----------------------------------------------------------------------------
(* `receive` *)

(* The pins every path of `receive` checks before any CPI: a positive      *)
(* floor, the manager and the mint that the direction selects, a sender on *)
(* the pair's intent allowlist, and the `init` of the flow account.        *)
ReceivePins(m, p, d, floor) ==
  /\ floor > 0
  /\ Transfer[m].token = RecvToken(p, d)
  /\ Transfer[m].intent
  /\ flow[m] = NoFlow
  /\ slot <= LastReceiveSlot

(* The recipient recorded in the inbox item is the inbox PDA of (w, floor). *)
RecipientUnbound(m, w, floor) == TRUE   \* mutation: the check is dropped
RecipientBound(m, w, floor) == <<w, floor>> = Transfer[m].to

(* The inbox's token account covers the recorded amount. *)
InboxCoversSome(balance, amount) == balance > 0   \* mutation: any balance will do
InboxCovers(balance, amount) == balance >= amount

(* The tail of `receive`: re-read the inbox item, bind its recipient,      *)
(* require the balance, sweep exactly the recorded amount, write the flow. *)
(* `balance` is the token account's balance after the NTT CPIs, if any.    *)
OpenFlow(m, p, d, w, floor, balance) ==
  LET account == <<<<w, floor>>, RecvToken(p, d)>>
      amount == Transfer[m].amount
  IN  /\ RecipientBound(m, w, floor)
      /\ amount > 0
      /\ InboxCovers(balance, amount)
      /\ parked' = [parked EXCEPT ![account] = balance - amount]
      /\ ata' = [ata EXCEPT ![RecvToken(p, d)] = @ + amount]
      /\ flow' = [flow EXCEPT ![m] =
                    [pair |-> p, direction |-> d, status |-> "Received",
                     recipient |-> w, min_swap_out |-> floor,
                     amount |-> amount, received_slot |-> slot]]
      /\ opened' = [opened EXCEPT ![m] = @ + 1]
      /\ drawn' = [drawn EXCEPT ![<<Transfer[m].to, Transfer[m].token>>] = @ + amount]
      /\ UNCHANGED <<feeVault, fees, slot, gifts, dust, paid>>

(* `receive` is the first to redeem the message and the release is not     *)
(* delayed. NTT itself pins the credited account to the message's          *)
(* recipient.                                                              *)
ReceiveRedeem(m, p, d, w, floor) ==
  LET account == <<<<w, floor>>, RecvToken(p, d)>>
  IN  /\ inbox[m] = "absent"
      /\ ReceivePins(m, p, d, floor)
      /\ account = <<Transfer[m].to, Transfer[m].token>>
      /\ inbox' = [inbox EXCEPT ![m] = "released"]
      /\ OpenFlow(m, p, d, w, floor, parked[account] + Transfer[m].amount)

(* As above, but NTT's inbound rate limit delays the release: the release  *)
(* CPI (revert_on_delay = false) does nothing, and `receive` still goes    *)
(* through when tokens of another message cover the amount.                *)
ReceiveDelayed(m, p, d, w, floor) ==
  LET account == <<<<w, floor>>, RecvToken(p, d)>>
  IN  /\ inbox[m] = "absent"
      /\ ReceivePins(m, p, d, floor)
      /\ account = <<Transfer[m].to, Transfer[m].token>>
      /\ inbox' = [inbox EXCEPT ![m] = "delayed"]
      /\ OpenFlow(m, p, d, w, floor, parked[account])

(* The skip path: the item is already released, no CPI runs. An item that  *)
(* is redeemed but not released has no path: NTT aborts a second redeem.   *)
ReceiveSkip(m, p, d, w, floor) ==
  LET account == <<<<w, floor>>, RecvToken(p, d)>>
  IN  /\ inbox[m] = "released"
      /\ ReceivePins(m, p, d, floor)
      /\ account \in InboxAccount
      /\ UNCHANGED inbox
      /\ OpenFlow(m, p, d, w, floor, parked[account])

Receive(m) ==
  \E p \in Pair, d \in Direction, a \in { Transfer[n].to : n \in Message } :
    \/ ReceiveRedeem(m, p, d, a[1], a[2])
    \/ ReceiveDelayed(m, p, d, a[1], a[2])
    \/ ReceiveSkip(m, p, d, a[1], a[2])

-----------------------------------------------------------------------------
(* `swap` *)

(* No account the relayer authority owns reaches the router except the     *)
(* pair's own two custody accounts.                                        *)
AnySwapAccounts(f, passed) == TRUE   \* mutation: the owner scan is dropped
SwapAccountsAllowed(f, passed) ==
  passed \subseteq { RecvToken(f.pair, f.direction), SendToken(f.pair, f.direction) }

(* The router took exactly the delegated input, no more and no less. *)
InputAtLeast(consumed, swapIn) == consumed >= swapIn  \* mutation: over-consumption passes
InputConsumed(consumed, swapIn) == consumed = swapIn

(* The custody account's gain covers the floor the user signed. *)
FloorIgnored(f, out) == TRUE   \* mutation: the floor is not compared
FloorMet(f, out) == out >= f.min_swap_out

(* The fee is in the asset token: on the input of a withdrawal (skimmed    *)
(* before the swap), on the output of a deposit (skimmed after it).        *)
FeeIn(f) == IF f.direction = "Withdraw" THEN FeeOf(f.amount, fees[f.pair].withdraw) ELSE 0
FeeOut(f, out) == IF f.direction = "Deposit" THEN FeeOf(out, fees[f.pair].deposit) ELSE 0

(* The router is any program: it draws `consumed` from the input account,  *)
(* pays `out` into the output account and, as it holds the authority's     *)
(* signature, may empty any other account it was passed.                   *)
Swap(m, passed, consumed, out) ==
  LET f == flow[m]
      tin == RecvToken(f.pair, f.direction)
      tout == SendToken(f.pair, f.direction)
      swapIn == f.amount - FeeIn(f)
      net == out - FeeOut(f, out)
  IN  /\ IsOpen(m)
      /\ f.status = "Received"
      /\ SwapAccountsAllowed(f, passed)
      /\ f.amount > 0
      /\ swapIn > 0
      /\ ata[tin] - FeeIn(f) >= swapIn
      /\ InputConsumed(consumed, swapIn)
      /\ FloorMet(f, out)
      /\ net > 0
      /\ ata' = [t \in Token |->
                   IF t = tin THEN ata[t] - FeeIn(f) - consumed
                   ELSE IF t = tout THEN ata[t] + net
                   ELSE IF t \in passed THEN 0 ELSE ata[t]]
      /\ feeVault' = [feeVault EXCEPT ![f.pair] = @ + FeeIn(f) + FeeOut(f, out)]
      /\ flow' = [flow EXCEPT ![m] = [f EXCEPT !.amount = net, !.status = "Swapped"]]
      /\ UNCHANGED <<inbox, parked, fees, slot, gifts, dust, opened, drawn, paid>>

-----------------------------------------------------------------------------
(* `send` and `refund` *)

(* Approve, NTT transfer_lock (which trims the amount, and fails if the    *)
(* custody account is short) and release_wormhole_outbound to the flow's   *)
(* recipient. The flow is closed for its whole amount: what was trimmed    *)
(* stays in the custody account. NTT sends an amount trimmed to zero too.  *)
BridgeBack(m) ==
  LET f == flow[m]
      t == HeldIn(f)
      sent == applyNttTrim(f.amount, TrimUnit[t])
  IN  /\ f.amount > 0
      /\ ata[t] >= sent
      /\ ata' = [ata EXCEPT ![t] = @ - sent]
      /\ paid' = [paid EXCEPT ![<<f.recipient, t>>] = @ + sent]
      /\ dust' = [dust EXCEPT ![t] = @ + (f.amount - sent)]
      /\ flow' = [flow EXCEPT ![m] = NoFlow]
      /\ UNCHANGED <<inbox, parked, feeVault, fees, slot, gifts, opened, drawn>>

Send(m) ==
  /\ IsOpen(m)
  /\ flow[m].status = "Swapped"
  /\ BridgeBack(m)

RefundReady(f) == slot >= f.received_slot + REFUND_TIMEOUT_SLOTS

Refund(m) ==
  /\ IsOpen(m)
  /\ flow[m].status = "Received"
  /\ RefundReady(flow[m])
  /\ BridgeBack(m)

-----------------------------------------------------------------------------
(* The environment: governance moves a pair's live fees (module            *)
(* PairConfig has the rules), time passes, tokens arrive unasked.          *)

SetFees(p) ==
  /\ \E setting \in FeeChoices[p] : fees' = [fees EXCEPT ![p] = setting]
  /\ UNCHANGED <<inbox, parked, ata, feeVault, flow, slot, gifts, dust, opened, drawn, paid>>

Tick ==
  /\ slot < LastReceiveSlot + REFUND_TIMEOUT_SLOTS
  /\ slot' = slot + 1
  /\ UNCHANGED <<inbox, parked, ata, feeVault, fees, flow, gifts, dust, opened, drawn, paid>>

Gift(t) ==
  /\ gifts[t] < MaxGift[t]
  /\ gifts' = [gifts EXCEPT ![t] = @ + 1]
  /\ ata' = [ata EXCEPT ![t] = @ + 1]
  /\ UNCHANGED <<inbox, parked, feeVault, fees, flow, slot, dust, opened, drawn, paid>>

(* The accounts and the status are those that Swap requires; to have them  *)
(* here spares TLC the other choices of the router.                        *)
Swaps(m) ==
  \E passed \in SUBSET Token, out \in RouterOutputs :
    /\ flow[m].status = "Received"
    /\ SwapAccountsAllowed(flow[m], passed)
    /\ \E consumed \in 0 .. ata[RecvToken(flow[m].pair, flow[m].direction)] :
         Swap(m, passed, consumed, out)

Next ==
  \/ \E m \in Message :
       \/ NttRedeem(m)
       \/ NttRelease(m)
       \/ Receive(m)
       \/ IsOpen(m) /\ Swaps(m)
       \/ Send(m)
       \/ Refund(m)
  \/ \E p \in Pair : SetFees(p)
  \/ \E t \in Token : Gift(t)
  \/ Tick

Spec == Init /\ [][Next]_vars

(* Slots advance, and some cranker keeps submitting the permissionless     *)
(* closing instructions of an open flow; NTT's outbound capacity refills.  *)
Fairness ==
  /\ WF_vars(Tick)
  /\ \A m \in Message : WF_vars(Send(m)) /\ WF_vars(Refund(m))

FairSpec == Spec /\ Fairness

-----------------------------------------------------------------------------
(* Properties *)

TypeOK ==
  /\ inbox \in [Message -> {"absent", "delayed", "released"}]
  /\ parked \in [InboxAccount -> Nat]
  /\ ata \in [Token -> Nat]
  /\ feeVault \in [Pair -> Nat]
  /\ fees \in [Pair -> FeeSetting]
  /\ flow \in [Message -> FlowRecord \cup {NoFlow}]
  /\ slot \in Nat
  /\ gifts \in [Token -> Nat]
  /\ dust \in [Token -> Nat]
  /\ opened \in [Message -> Nat]
  /\ drawn \in [InboxAccount -> Nat]
  /\ paid \in [Wallet \X Token -> Nat]

(* What each of the flows fl holds in a custody account. *)
Owed(fl, t) ==
  [m \in Message |-> IF fl[m] # NoFlow /\ HeldIn(fl[m]) = t THEN fl[m].amount ELSE 0]

(* Custody is exact: each shared account of the relayer authority holds    *)
(* the amounts of the open flows that are in that token, plus what was     *)
(* sent to it unasked and what NTT trimmed from closed flows. So no swap,  *)
(* whatever its router does, reaches what belongs to another flow or to    *)
(* another pair, nor the dust of the flows before it, and a fee is never   *)
(* taken from anybody else's amount.                                       *)
CustodyExact ==
  \A t \in Token : ata[t] = gifts[t] + dust[t] + SumOf(Owed(flow, t))

(* What NTT has released to an inbox account for each message. *)
Released(items, k) ==
  [m \in Message |->
     IF items[m] = "released" /\ <<Transfer[m].to, Transfer[m].token>> = k
     THEN Transfer[m].amount ELSE 0]

(* The flows opened for messages to an inbox draw exactly on what was      *)
(* bridged to that inbox: nothing bridged to one wallet, or under one      *)
(* floor, ever funds a flow of another, on the redeem path, the delayed    *)
(* path or the skip path.                                                  *)
InboxAccounted ==
  \A k \in InboxAccount : parked[k] + drawn[k] = SumOf(Released(inbox, k))

(* A flow pays the wallet that the bridged message was addressed to, and   *)
(* what is held for it after the swap is no worse than the floor signed in *)
(* that address less the capped fee (the floor itself for a withdrawal,    *)
(* whose fee is taken first), whichever fee changes and routers came in    *)
(* between. NTT's trim of what is then sent comes on top.                  *)
SettlesAboveFloor ==
  \A m \in Message : IsOpen(m) =>
    LET f == flow[m]
        signed == Transfer[m].to[2]
    IN  /\ f.recipient = Transfer[m].to[1]
        /\ f.status = "Swapped" => f.amount * BPS >= signed * (BPS - MAX_FEE_BPS)
        /\ f.status = "Swapped" /\ f.direction = "Withdraw" => f.amount >= signed

(* A flow that is received is closed, by `send` or by `refund`, and its    *)
(* tokens leave for its wallet (but for the dust): neither a router, nor   *)
(* another flow, nor a fee change leaves it in custody for good.           *)
FlowsDrain == \A m \in Message : IsOpen(m) ~> ~IsOpen(m)

(* No open flow is stranded: it has something to pay out, and the shared   *)
(* account it is held in covers it, so that the transfer_lock of its       *)
(* `send` or `refund` never fails for want of tokens, whatever the routers *)
(* and the fees of other flows took before.                                *)
NeverStranded ==
  \A m \in Message : IsOpen(m) =>
    flow[m].amount > 0 /\ ata[HeldIn(flow[m])] >= flow[m].amount

(* The relayer implements one escrow per message (module FlowEscrow). *)
OtherSide(t) == <<t[1], IF t[2] = "base" THEN "asset" ELSE "base">>

Orders ==
  [m \in Message |->
     [recipient |-> Transfer[m].to[1], floor |-> Transfer[m].to[2],
      token |-> Transfer[m].token, other |-> OtherSide(Transfer[m].token),
      amount |-> Transfer[m].amount]]

EscrowView ==
  [m \in Message |->
     IF IsOpen(m)
     THEN [phase |-> IF flow[m].status = "Received" THEN "held" ELSE "converted",
           token |-> HeldIn(flow[m]), amount |-> flow[m].amount]
     ELSE NoFlow]

Escrow == INSTANCE FlowEscrow WITH
  Order <- Orders, NoEscrow <- NoFlow, escrow <- EscrowView

(* Every step of the shared-custody program is a step of, or invisible to, *)
(* the per-message escrows, and no escrow stays open.                      *)
ImplementsEscrow == Escrow!FairSpec

(* The claim of README.md and of the cranker's terminal cache that a flow  *)
(* is one-shot: a message opens at most one flow.                          *)
OneShot == \A m \in Message : opened[m] <= 1

=============================================================================
