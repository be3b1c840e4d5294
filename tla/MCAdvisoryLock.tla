----------------------------- MODULE MCAdvisoryLock -----------------------------
(***************************************************************************)
(* Small instances of the advisory locks for TLC.                          *)
(***************************************************************************)
EXTENDS AdvisoryLock, TLC

Interchangeable ==
    Permutations(Instances) \cup Permutations(Ops) \cup Permutations(Keys)
        \cup Permutations(Sessions)
=============================================================================
