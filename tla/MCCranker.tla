----------------------------- MODULE MCCranker -----------------------------
(* Small instances of Cranker for TLC. *)
EXTENDS Cranker, TLC

CONSTANTS dep, wdr, alien, x1, x2, p1, alice, bob

(* OnRe's price is 11, then 12, then jumps as the next vector starts. The  *)
(* first slot of the account is unused.                                    *)
Vector(start, price) ==
  [start_time |-> start, base_time |-> start, base_price |-> price,
   apr |-> 1, price_fix_duration |-> 1]
Vectors == << Vector(0, 0), Vector(1, 10), Vector(3, 20) >>
OnrePrice == 0 :> 11 @@ 1 :> 12 @@ 2 :> 22

(* The floor a wallet signs for an amount in slot 0, at a tolerance of a   *)
(* tenth.                                                                  *)
Tolerance == 1000
SignedFloor(direction, amount) ==
  computeMinSwapOut(direction, amount, SpotPrice(Vectors, nowUnix(0)), Tolerance, 0)

(* The base token has no more decimals than NTT carries, the asset one     *)
(* more.                                                                   *)
NttUnits == [t \in Token |-> IF t[2] = "base" THEN 1 ELSE 10]

Inbound(side, w, n, intended) ==
  LET amount == applyNttTrim(n, NttUnits[<<p1, side>>])
      direction == IF side = "base" THEN "Deposit" ELSE "Withdraw"
  IN  [token |-> <<p1, side>>, to |-> <<w, SignedFloor(direction, amount)>>,
       amount |-> amount, intent |-> intended]

(* A deposit, a withdrawal, a transfer no intent program sent. One         *)
(* transaction bridged the first two.                                      *)
Inbounds ==
  dep :> Inbound("base", alice, 132, TRUE)
  @@ wdr :> Inbound("asset", alice, 124, TRUE)
  @@ alien :> Inbound("base", bob, 132, FALSE)
Sources == dep :> x1 @@ wdr :> x1 @@ alien :> x2

BridgeTxs ==
  x1 :> [wallets |-> {alice}, floors |-> {SignedFloor("Deposit", 132), SignedFloor("Withdraw", 120)}]
  @@ x2 :> [wallets |-> {}, floors |-> {}]

Sent == [m \in Message |-> Inbounds[m]]

(* One message at a time, with refund sweeps and without (the default).    *)
OneAtATime == { <<{dep}, 0>>, <<{dep}, 1>>, <<{wdr}, 0>>, <<{alien}, 1>> }
OneWithdrawal == { <<{wdr}, 1>> }

(* No fees, and no tokens arrive unasked. *)
NoFees == [p \in Pair |-> {[deposit |-> 0, withdraw |-> 0]}]
NoGifts == [t \in Token |-> 0]

=============================================================================
