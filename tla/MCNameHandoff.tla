------------------------------ MODULE MCNameHandoff ------------------------------
(***************************************************************************)
(* A small instance of the handoff for TLC.                                *)
(***************************************************************************)
EXTENDS NameHandoff, TLC

CONSTANTS p1, p2, p3, l1, l2, l3, k1, k2

\* p3 differs from the others
Interchangeable == Permutations({p1, p2}) \cup Permutations(Logins) \cup Permutations(Keys)
=============================================================================
