---------------------------- MODULE MC_Purchase ----------------------------
(***************************************************************************)
(* Small instances of Purchase for TLC: two grants, of one and two months. *)
(***************************************************************************)
EXTENDS Purchase

CONSTANTS p1, p2, g1

MonthsOf == [g \in Grant |-> IF g = p1 THEN 2 ELSE 1]
=============================================================================
