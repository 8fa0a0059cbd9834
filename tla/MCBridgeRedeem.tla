--------------------------- MODULE MCBridgeRedeem ---------------------------
(* Small instances of BridgeRedeem for TLC. *)
EXTENDS BridgeRedeem, TLC

(* One of ours, an older one for a program-owned address and a newer one   *)
(* for another chain.                                                      *)
Mixed == 1 :> "offcurve" @@ 2 :> "wallet" @@ 3 :> "foreign"

(* One of ours and two newer ones for another chain. *)
TwoChains == 1 :> "wallet" @@ 2 :> "foreign" @@ 3 :> "foreign"

(* One for a program-owned address, and a newer one of ours. *)
ProgramOwned == 1 :> "offcurve" @@ 2 :> "wallet"

=============================================================================
