---------------------------- MODULE MCPairConfig ----------------------------
(* Small instances of PairConfig for TLC. *)
EXTENDS PairConfig, TLC

CONSTANTS k1, k2, usdc, onyc, third

(* Keys are interchangeable, and so are mints. *)
Interchangeable == Permutations(Key) \cup Permutations(Mint)

=============================================================================
