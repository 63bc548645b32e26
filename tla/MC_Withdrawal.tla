--------------------------- MODULE MC_Withdrawal ---------------------------
(***************************************************************************)
(* A small instance of Withdrawal for TLC: one student, two withdrawals,   *)
(* one admin and one status job.                                           *)
(***************************************************************************)
EXTENDS Withdrawal

CONSTANTS w1, w2, s1

OneOwner == [w \in Wd |-> s1]
Amounts == [w \in Wd |-> IF w = w1 THEN 1 ELSE 2]
Credit3 == [s \in Student |-> 3]
=============================================================================
