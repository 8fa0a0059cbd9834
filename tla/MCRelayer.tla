----------------------------- MODULE MCRelayer -----------------------------
(* Small instances of Relayer for TLC. *)
EXTENDS Relayer, TLC

CONSTANTS m1, m2, m3, m4, p1, p2, alice, bob

Inbound(t, w, floor, n, intended) ==
  [token |-> t, to |-> <<w, floor>>, amount |-> n, intent |-> intended]

(* Two deposits of one wallet under one floor share an inbox account;      *)
(* another wallet's, that no intent program sent, has its own in the same  *)
(* token; a withdrawal uses the second pair.                               *)
TwoPairs ==
  m1 :> Inbound(<<p1, "base">>, alice, 10, 10, TRUE)
  @@ m2 :> Inbound(<<p1, "base">>, alice, 10, 20, TRUE)
  @@ m3 :> Inbound(<<p2, "asset">>, bob, 10, 10, TRUE)
  @@ m4 :> Inbound(<<p1, "base">>, bob, 10, 10, FALSE)

(* The asset has more decimals than NTT carries, the base token has not. *)
AssetDust == [t \in Token |-> IF t[2] = "asset" THEN 5 ELSE 1]

(* Two intents of one wallet that differ in amount only. *)
OneInbox ==
  m1 :> Inbound(<<p1, "base">>, alice, 10, 10, TRUE)
  @@ m2 :> Inbound(<<p1, "base">>, alice, 10, 20, TRUE)

(* Governance moves the deposit fee of the first pair between nothing and  *)
(* a tenth; the withdrawals of the second pay a tenth.                     *)
Fee(deposit, withdraw) == [deposit |-> deposit, withdraw |-> withdraw]
MovingFees == [p \in Pair |-> { Fee(d, 1000) : d \in IF p = p1 THEN {0, 1000} ELSE {1000} }]
NoFees == [p \in Pair |-> { Fee(0, 0) }]

(* Tokens arrive unasked in the account the deposits of the first pair are *)
(* swapped into, or nowhere.                                               *)
OneGift == [t \in Token |-> IF t = <<p1, "asset">> THEN 1 ELSE 0]
NoGifts == [t \in Token |-> 0]

=============================================================================
