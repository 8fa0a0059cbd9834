------------------------------ MODULE MCDaemon ------------------------------
(* Budgets for instances of Daemon, by leg. *)
EXTENDS Daemon

(* Legs well inside the heartbeat's allowance. *)
ShortBudget == [l \in Leg |-> IF l = "flow" THEN 3 ELSE 2]

(* In units of 10 s: a flow may be waiting TX_CONFIRM_TIMEOUT_MS for a     *)
(* confirmation, a bridge leg RPC_TIMEOUT_MS for a read.                   *)
ConfirmBudget == [l \in Leg |-> IF l = "flow" THEN 9 ELSE 2]
=============================================================================
