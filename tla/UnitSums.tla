------------------------------ MODULE UnitSums ------------------------------
(***************************************************************************)
(* The sum of a function's natural-number values over a finite domain,     *)
(* written as the cardinality of a set of unit tokens: x contributes the   *)
(* f[x] pairs <<x, 1>> .. <<x, f[x]>>. The definition is not recursive,    *)
(* so what one update of f does to the sum follows from the library's      *)
(* theorems about cardinality (module UnitSumsTheorems).                   *)
(***************************************************************************)
EXTENDS Integers, FiniteSets

Units(f) == UNION { {x} \X (1 .. f[x]) : x \in DOMAIN f }

SumOf(f) == Cardinality(Units(f))

=============================================================================
