----------------------------- MODULE FlowEscrow -----------------------------
(***************************************************************************)
(* What the relayer promises each user, as if every inbound message had an *)
(* escrow of its own: the message's amount is held, converted to the       *)
(* pair's other token at no worse than the signed floor less the capped    *)
(* fee, and paid to the wallet the message names but for what the bridge   *)
(* cannot carry, or returned unconverted and whole. Shared custody         *)
(* accounts, inboxes, routers and timeouts do not appear.                  *)
(***************************************************************************)
EXTENDS Integers

CONSTANTS Message, Wallet, Token,
          Order,      \* [Message -> recipient, token, other, amount, floor]
          NoEscrow, BPS, MAX_FEE_BPS,
          TrimUnit    \* what a transfer of each token is a multiple of

VARIABLES escrow, paid

vars == <<escrow, paid>>

Init ==
  /\ escrow = [m \in Message |-> NoEscrow]
  /\ paid = [k \in Wallet \X Token |-> 0]

Open(m) ==
  /\ escrow[m] = NoEscrow
  /\ escrow' = [escrow EXCEPT ![m] =
       [phase |-> "held", token |-> Order[m].token, amount |-> Order[m].amount]]
  /\ UNCHANGED paid

(* The least a conversion may leave in escrow, in units of 1/BPS. *)
ConvertedEnough(m, amount) ==
  /\ amount > 0
  /\ amount * BPS >= Order[m].floor * (BPS - MAX_FEE_BPS)

Convert(m) ==
  /\ escrow[m] # NoEscrow
  /\ escrow[m].phase = "held"
  /\ escrow'[m] \in [phase : {"converted"}, token : {Order[m].other}, amount : Nat]
  /\ ConvertedEnough(m, escrow'[m].amount)
  /\ escrow' = [escrow EXCEPT ![m] = escrow'[m]]
  /\ UNCHANGED paid

(* The escrow goes to the wallet: whole if it was not converted (a refund), *)
(* and otherwise all but less than one unit of the transfer.                *)
Close(m) ==
  /\ escrow[m] # NoEscrow
  /\ escrow' = [escrow EXCEPT ![m] = NoEscrow]
  /\ \E n \in 0 .. escrow[m].amount :
       /\ escrow[m].amount - n < TrimUnit[escrow[m].token]
       /\ escrow[m].phase = "held" => n = escrow[m].amount
       /\ paid' = [paid EXCEPT ![<<Order[m].recipient, escrow[m].token>>] = @ + n]

Next == \E m \in Message : Open(m) \/ Convert(m) \/ Close(m)

Spec == Init /\ [][Next]_vars

(* Every escrow that is opened is closed. *)
FairSpec == Spec /\ \A m \in Message : WF_vars(Close(m))

=============================================================================
