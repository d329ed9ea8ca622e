-------------------------- MODULE MCTaskEvaluation --------------------------
(* A small instance of TaskEvaluation for TLC: one malicious and one safe     *)
(* task, in this order.                                                       *)
EXTENDS TaskEvaluation

CONSTANTS n1, n2
MCNonces == {n1, n2}
MCTaskOrder == <<n1, n2>>
MCMalicious == {n1}
=============================================================================
