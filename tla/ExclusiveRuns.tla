----------------------------- MODULE ExclusiveRuns -----------------------------
(***************************************************************************)
(* What an advisory lock promises the operations that take it, without     *)
(* sessions, pools and processes: a key that is taken admits nobody, it    *)
(* stays taken while its operation runs, and it may stay so for a while    *)
(* after that (until the unlock, or until the server misses the session).  *)
(* AdvisoryLock implements it.                                             *)
(***************************************************************************)
CONSTANTS Keys, Ops

VARIABLES
    running,  \* the operations that run under each key
    taken,    \* the keys that admit nobody
    broken    \* a connection was lost or a pool closed: nothing is promised any more

Init ==
    /\ running = [k \in Keys |-> {}]
    /\ taken = {}
    /\ broken = FALSE

Admit(o, k) ==
    /\ k \notin taken
    /\ taken' = taken \cup {k}
    /\ running' = [running EXCEPT ![k] = @ \cup {o}]

\* operations return, or end with their process; their keys are still taken
End(S) ==
    /\ running' = [k \in Keys |-> running[k] \ S]
    /\ UNCHANGED taken

\* keys under which nobody runs are given back
Free(K) ==
    /\ \A k \in K : running[k] = {}
    /\ taken' = taken \ K
    /\ UNCHANGED running

Break ==
    /\ broken'
    /\ running' \in [Keys -> SUBSET Ops] /\ taken' \in SUBSET Keys

Next ==
    \/ /\ ~broken /\ ~broken'
       /\ \/ \E o \in Ops, k \in Keys : Admit(o, k)
          \/ \E S \in SUBSET Ops : End(S)
          \/ \E K \in SUBSET Keys : Free(K)
    \/ Break

Spec == Init /\ [][Next]_<<running, taken, broken>>
=============================================================================
