------------------------------ MODULE MCLedger ------------------------------
(* Instance of Ledger for TLC. *)
EXTENDS Ledger, TLC

CONSTANTS p1, p2, noCode, code1, code2

ProcSymmetry == Permutations(Procs)
=============================================================================
