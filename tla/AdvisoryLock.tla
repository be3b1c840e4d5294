------------------------------ MODULE AdvisoryLock ------------------------------
(***************************************************************************)
(* PostgreSQL advisory locks taken through a database/sql pool: the        *)
(* backup and restore locks of pgpb/backup_lock.go and, with LocalMutex    *)
(* FALSE, the cron jobs of pgpb/cron.go.                                   *)
(*                                                                         *)
(* A lock belongs to the session that took it, and every statement runs on *)
(* whichever session the pool hands out.  The pool is database/sql's; it   *)
(* is modelled as far as sessions are opened, kept and closed.             *)
(***************************************************************************)
EXTENDS Naturals, FiniteSets

CONSTANTS
    Instances,    \* processes
    Ops,          \* names for operations under way
    Keys,         \* what hashJobID returns: "pgpb_backup", "pgpb_restore", the jobs
    Sessions,     \* names for database sessions
    Nothing,      \* no process, no key, no session
    MaxOpen,      \* SetMaxOpenConns
    MaxIdle,      \* SetMaxIdleConns
    LocalMutex,   \* does PocketBase admit one operation per process at a time
    Disruptions,  \* "break": a connection is lost; "terminate": a process shuts down
    MaxFaults     \* bound on them

ASSUME LockAssumption ==
    /\ Nothing \notin Instances \cup Keys \cup Sessions
    /\ MaxOpen \in Nat \ {0} /\ MaxIdle \in Nat \ {0}
    /\ LocalMutex \in BOOLEAN
    /\ Disruptions \subseteq {"break", "terminate"}
    /\ MaxFaults \in Nat

VARIABLES
    pc,       \* how far each operation is
    home,     \* the process that runs it
    key,      \* the lock it needs
    conn,     \* the session its statement has checked out
    idle,     \* the idle sessions in the pool of each process
    orphans,  \* sessions whose process or connection is gone, which the server still keeps
    held,     \* how often each session holds each lock
    closed,   \* the processes that have closed their pool and are about to exit
    faults    \* disruptions that happened

opVars == <<pc, home, key>>
vars == <<opVars, conn, idle, orphans, held, closed, faults>>

TypeOK ==
    /\ pc \in [Ops -> {"idle", "begun", "trying", "running", "ending", "unlocking"}]
    /\ home \in [Ops -> Instances \cup {Nothing}]
    /\ key \in [Ops -> Keys \cup {Nothing}]
    /\ conn \in [Ops -> Sessions \cup {Nothing}]
    /\ idle \in [Instances -> SUBSET Sessions]
    /\ orphans \subseteq Sessions
    /\ held \in [Sessions -> [Keys -> Nat]]
    /\ closed \subseteq Instances
    /\ faults \in Nat

NoLocks == [k \in Keys |-> 0]

Init ==
    /\ pc = [o \in Ops |-> "idle"]
    /\ home = [o \in Ops |-> Nothing]
    /\ key = [o \in Ops |-> Nothing]
    /\ conn = [o \in Ops |-> Nothing]
    /\ idle = [i \in Instances |-> {}]
    /\ orphans = {}
    /\ held = [s \in Sessions |-> NoLocks]
    /\ closed = {}
    /\ faults = 0

Fault(kind) == kind \in Disruptions /\ faults < MaxFaults /\ faults' = faults + 1

Active(o) == pc[o] # "idle"

\* the sessions process i is using
InUse(i) == {conn[o] : o \in {p \in Ops : home[p] = i /\ conn[p] # Nothing}}

\* names of sessions that are not open
Unused == Sessions \ (orphans \cup UNION {idle[i] \cup InUse(i) : i \in Instances})

-----------------------------------------------------------------------------
(* The pool.                                                               *)

\* DB.conn: an idle session if there is one, else a new one within MaxOpen
CheckOut(o) ==
    LET i == home[o] IN
    /\ pc[o] \in {"begun", "ending"} /\ i \notin closed
    /\ \E s \in Sessions :
         /\ \/ s \in idle[i]
            \/ idle[i] = {} /\ Cardinality(InUse(i)) < MaxOpen /\ s \in Unused
         /\ conn' = [conn EXCEPT ![o] = s]
         /\ idle' = [idle EXCEPT ![i] = @ \ {s}]
    /\ pc' = [pc EXCEPT ![o] = IF @ = "begun" THEN "trying" ELSE "unlocking"]
    /\ UNCHANGED <<home, key, orphans, held, closed, faults>>

\* mutant: SetMaxIdleConns(0)
Kept_Never(i) == FALSE

\* DB.putConn: a session that comes back is kept, or closed if enough are idle
Kept(i) == i \notin closed /\ Cardinality(idle[i]) < MaxIdle

\* the statement of o is over and has left the locks as in table; closing a
\* session drops its locks
Return(o, table) ==
    LET s == conn[o] i == home[o] IN
    /\ conn' = [conn EXCEPT ![o] = Nothing]
    /\ IF Kept(i)
       THEN idle' = [idle EXCEPT ![i] = @ \cup {s}] /\ held' = table
       ELSE UNCHANGED idle /\ held' = [table EXCEPT ![s] = NoLocks]

-----------------------------------------------------------------------------
(* An operation: a backup, a restore, a cron job.                          *)

\* The hook or the job starts.  PocketBase admits one backup or restore per
\* process; the jobs of cron.go may overlap, with themselves too
Begin(o, i, k) ==
    /\ pc[o] = "idle" /\ i \notin closed
    /\ LocalMutex => \A p \in Ops : Active(p) => home[p] # i
    /\ pc' = [pc EXCEPT ![o] = "begun"]
    /\ home' = [home EXCEPT ![o] = i]
    /\ key' = [key EXCEPT ![o] = k]
    /\ UNCHANGED <<conn, idle, orphans, held, closed, faults>>

\* mutant: pg_try_advisory_lock_shared
Granted_Shared(s, k) == held[s][k] \in Nat

\* pg_try_advisory_lock: no other session holds the lock; the same one may
Granted(s, k) == \A t \in Sessions \ {s} : held[t][k] = 0

Locked(s, k) == IF Granted(s, k) THEN [held EXCEPT ![s][k] = @ + 1] ELSE held

\* tryAcquire; a refused operation returns
TryLock(o) ==
    /\ pc[o] = "trying"
    /\ pc' = [pc EXCEPT ![o] = IF Granted(conn[o], key[o]) THEN "running" ELSE "idle"]
    /\ Return(o, Locked(conn[o], key[o]))
    /\ UNCHANGED <<home, key, orphans, closed, faults>>

\* mutant: no deferred release
Finish_NoRelease(o) ==
    /\ pc[o] = "running"
    /\ pc' = [pc EXCEPT ![o] = "idle"]
    /\ UNCHANGED <<home, key, conn, idle, orphans, held, closed, faults>>

\* e.Next() or fn() returns: the deferred release begins
Finish(o) ==
    /\ pc[o] = "running"
    /\ pc' = [pc EXCEPT ![o] = "ending"]
    /\ UNCHANGED <<home, key, conn, idle, orphans, held, closed, faults>>

\* mutant: the lock's count is taken down whoever holds it
Unlocked_Blind(s, k) == [held EXCEPT ![s][k] = @ - 1]

\* pg_advisory_unlock: a warning only if this session does not hold the lock
Unlocked(s, k) == IF held[s][k] > 0 THEN [held EXCEPT ![s][k] = @ - 1] ELSE held

\* release
Unlock(o) ==
    /\ pc[o] = "unlocking"
    /\ pc' = [pc EXCEPT ![o] = "idle"]
    /\ Return(o, Unlocked(conn[o], key[o]))
    /\ UNCHANGED <<home, key, orphans, closed, faults>>

-----------------------------------------------------------------------------
(* Lost connections: the server keeps the session, and its locks, until it *)
(* notices.                                                                *)

\* an idle connection is lost; the pool replaces it when it is needed
LoseIdle(i) ==
    /\ Fault("break")
    /\ \E s \in idle[i] :
         /\ idle' = [idle EXCEPT ![i] = @ \ {s}]
         /\ orphans' = orphans \cup {s}
    /\ UNCHANGED <<opVars, conn, held, closed>>

\* the connection of a running statement is lost, before the statement has run or
\* with its answer: tryAcquire refuses the operation, release only logs it
StatementFails(o) ==
    /\ conn[o] # Nothing /\ Fault("break")
    /\ \/ UNCHANGED held
       \/ pc[o] = "trying" /\ held' = Locked(conn[o], key[o])
       \/ pc[o] = "unlocking" /\ held' = Unlocked(conn[o], key[o])
    /\ pc' = [pc EXCEPT ![o] = "idle"]
    /\ conn' = [conn EXCEPT ![o] = Nothing]
    /\ orphans' = orphans \cup {conn[o]}
    /\ UNCHANGED <<home, key, idle, closed>>

-----------------------------------------------------------------------------
(* The end of a process.                                                   *)

\* the terminate hook closes the pool; what is running still runs
Terminate(i) ==
    /\ i \notin closed /\ Fault("terminate")
    /\ closed' = closed \cup {i}
    /\ idle' = [idle EXCEPT ![i] = {}]
    /\ held' = [s \in Sessions |-> IF s \in idle[i] THEN NoLocks ELSE held[s]]
    /\ UNCHANGED <<opVars, conn, orphans>>

\* sql: database is closed
PoolClosed(o) ==
    /\ pc[o] \in {"begun", "ending"} /\ home[o] \in closed
    /\ pc' = [pc EXCEPT ![o] = "idle"]
    /\ UNCHANGED <<home, key, conn, idle, orphans, held, closed, faults>>

\* The process exits or crashes and another takes its place; the server has not
\* noticed yet that its sessions are gone
Exit(i) ==
    /\ i \in closed \/ idle[i] # {} \/ \E o \in Ops : Active(o) /\ home[o] = i
    /\ pc' = [o \in Ops |-> IF home[o] = i THEN "idle" ELSE pc[o]]
    /\ conn' = [o \in Ops |-> IF home[o] = i THEN Nothing ELSE conn[o]]
    /\ idle' = [idle EXCEPT ![i] = {}]
    /\ orphans' = orphans \cup idle[i] \cup InUse(i)
    /\ closed' = closed \ {i}
    /\ UNCHANGED <<home, key, held, faults>>

\* ... and now it has
Reap(s) ==
    /\ s \in orphans
    /\ orphans' = orphans \ {s}
    /\ held' = [held EXCEPT ![s] = NoLocks]
    /\ UNCHANGED <<opVars, conn, idle, closed, faults>>

-----------------------------------------------------------------------------
Operation(o) ==
    \/ \E i \in Instances, k \in Keys : Begin(o, i, k)
    \/ CheckOut(o) \/ TryLock(o) \/ Finish(o) \/ Unlock(o)
    \/ StatementFails(o) \/ PoolClosed(o)

Next ==
    \/ \E o \in Ops : Operation(o)
    \/ \E i \in Instances : LoseIdle(i) \/ Terminate(i) \/ Exit(i)
    \/ \E s \in Sessions : Reap(s)

Spec == Init /\ [][Next]_vars

-----------------------------------------------------------------------------
(* Properties.                                                             *)

\* Of two operations that need the same lock at most one runs, whichever
\* processes they are on and whichever crashed before, as long as no connection
\* is lost under them and no process closes its pool before it exits
OneRunPerKey ==
    faults = 0 =>
        \A o, p \in Ops :
            pc[o] = "running" /\ pc[p] = "running" /\ key[o] = key[p] => o = p

\* When an operation has returned no session of its pool holds its lock: every lock
\* belongs to an operation under way, or to a session that has lost its process or its
\* connection and goes when the server notices.  Crashes, lost connections and closed
\* pools cannot leave a lock in a pool.
ReleasedOnReturn ==
    \A i \in Instances, k \in Keys :
        (\E s \in idle[i] : held[s][k] > 0)
            => \E o \in Ops : Active(o) /\ home[o] = i /\ key[o] = k

\* the operations that run under each key, and the keys some session holds
Running == [k \in Keys |-> {o \in Ops : pc[o] = "running" /\ key[o] = k}]
Taken == {k \in Keys : \E s \in Sessions : held[s][k] > 0}

Runs == INSTANCE ExclusiveRuns WITH running <- Running, taken <- Taken, broken <- faults > 0

\* Sessions that are pooled, closed, lost with their process and reaped by the server
\* implement the plain lock of ExclusiveRuns: no step hands out a key that is taken, or
\* gives one back while its operation runs (tryAcquire, release, the pool of NewWithPostgres).
LocksAreExclusive == Runs!Spec
=============================================================================
