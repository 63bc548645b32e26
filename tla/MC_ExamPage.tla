---------------------------- MODULE MC_ExamPage ----------------------------
(***************************************************************************)
(* Small instances of ExamPage for TLC: one question with two options.     *)
(***************************************************************************)
EXTENDS ExamPage, TLC

CONSTANTS q1, A, B, r1, r2

KeyA == [q \in Question |-> A]
NoSheets == {}

Symmetric == Permutations(Request)
=============================================================================
