-------------------------- MODULE AdvisoryLock_proofs --------------------------
(***************************************************************************)
(* Proofs about the advisory locks of backups and restores, where          *)
(* PocketBase admits one operation per process: each pool then has at most *)
(* one session at a time, and the lock stays with it from tryAcquire to    *)
(* release.                                                                *)
(***************************************************************************)
EXTENDS AdvisoryLock, FiniteSetTheorems, TLAPS

-----------------------------------------------------------------------------
(* The inductive invariant.                                                *)

\* an operation has a session exactly while a statement of its own runs
StatementInv ==
    /\ \A o \in Ops : conn[o] # Nothing <=> pc[o] \in {"trying", "unlocking"}
    /\ \A o \in Ops : Active(o) => home[o] \in Instances /\ key[o] \in Keys

SerialInv == \A o, p \in Ops : Active(o) /\ Active(p) /\ home[o] = home[p] => o = p

\* every session has one place
PoolInv ==
    /\ \A i \in Instances : \A s, t \in idle[i] : s = t
    /\ \A i, j \in Instances : idle[i] \cap idle[j] # {} => i = j
    /\ \A i \in Instances : idle[i] \cap orphans = {}
    /\ \A o \in Ops : conn[o] # Nothing => idle[home[o]] = {} /\ conn[o] \notin orphans
    /\ \A o \in Ops, i \in Instances : conn[o] \notin idle[i]
    /\ \A o, p \in Ops : conn[o] = conn[p] /\ conn[o] # Nothing => o = p
    /\ \A i \in closed : idle[i] = {}

\* session s is open
Open(s) ==
    s \in orphans \/ (\E i \in Instances : s \in idle[i]) \/ (\E o \in Ops : conn[o] = s)

Holding == {"running", "ending"}

\* who holds which locks
LockInv ==
    /\ \A s \in Sessions : ~Open(s) => \A k \in Keys : held[s][k] = 0
    /\ \A s, t \in Sessions, k \in Keys : held[s][k] > 0 /\ held[t][k] > 0 => s = t
    /\ \A i \in Instances : \A s \in idle[i], k \in Keys : held[s][k] > 0 =>
         /\ held[s][k] = 1
         /\ \E o \in Ops : pc[o] \in Holding /\ home[o] = i /\ key[o] = k
    /\ \A o \in Ops, k \in Keys : conn[o] # Nothing /\ held[conn[o]][k] > 0 =>
         /\ held[conn[o]][k] = 1
         /\ pc[o] = "unlocking" /\ key[o] = k

\* undisturbed, a running operation's lock is in the pool of its process
RunInv ==
    faults = 0 =>
        /\ closed = {}
        /\ \A o \in Ops : pc[o] = "running" =>
             \E s \in idle[home[o]] : held[s][key[o]] > 0

Inv == TypeOK /\ StatementInv /\ SerialInv /\ PoolInv /\ LockInv /\ RunInv

-----------------------------------------------------------------------------
\* A session nobody has opened yet is not open
LEMMA UnusedClosed ==
    ASSUME TypeOK, StatementInv, NEW s \in Unused
    PROVE  s \in Sessions /\ ~Open(s)
<1>1. s \in Sessions /\ s \notin orphans /\ \A i \in Instances : s \notin idle[i] \cup InUse(i)
  BY DEF Unused
<1>2. ASSUME NEW o \in Ops, conn[o] = s PROVE FALSE
  <2>1. conn[o] # Nothing
    BY <1>1, <1>2, LockAssumption
  <2>2. home[o] \in Instances
    BY <2>1 DEF StatementInv, Active
  <2>3. s \in InUse(home[o])
    BY <1>2, <2>1 DEF InUse
  <2> QED BY <1>1, <2>2, <2>3
<1> QED BY <1>1, <1>2 DEF Open

\* the pool has room for the session that comes back, unless it is closed
LEMMA RoomForOne ==
    ASSUME NEW i \in Instances, idle[i] = {}
    PROVE  Kept(i) <=> i \notin closed
<1>1. Cardinality(idle[i]) = 0
  BY FS_EmptySet
<1> QED BY <1>1, LockAssumption DEF Kept

\* The invariant holds when the processes start
LEMMA InvInit == Init => Inv
BY LockAssumption DEF Init, Inv, TypeOK, StatementInv, SerialInv, PoolInv, LockInv, RunInv,
   Active, Open, NoLocks, Holding

\* Every step keeps the types
LEMMA TypeStep ==
    ASSUME TypeOK, StatementInv, [Next]_vars
    PROVE  TypeOK'
<1> USE LockAssumption DEF TypeOK
<1>0. NoLocks \in [Keys -> Nat]
  BY DEF NoLocks
<1>1. ASSUME NEW o \in Ops, NEW table \in [Sessions -> [Keys -> Nat]], conn[o] # Nothing,
             home[o] \in Instances, Return(o, table)
      PROVE  /\ conn' \in [Ops -> Sessions \cup {Nothing}]
             /\ idle' \in [Instances -> SUBSET Sessions]
             /\ held' \in [Sessions -> [Keys -> Nat]]
  BY <1>0, <1>1 DEF Return
<1>2. ASSUME NEW o \in Ops, Operation(o) PROVE TypeOK'
  <2>1. ASSUME NEW i \in Instances, NEW k \in Keys, Begin(o, i, k) PROVE TypeOK'
    BY <2>1 DEF Begin
  <2>2. CASE CheckOut(o)
    <3>1. PICK s \in Sessions : /\ conn' = [conn EXCEPT ![o] = s]
                                /\ idle' = [idle EXCEPT ![home[o]] = @ \ {s}]
      BY <2>2 DEF CheckOut
    <3>2. home[o] \in Instances
      BY <2>2 DEF CheckOut, StatementInv, Active
    <3>3. pc' \in [Ops -> {"idle", "begun", "trying", "running", "ending", "unlocking"}]
      BY <2>2 DEF CheckOut
    <3> QED BY <2>2, <3>1, <3>2, <3>3 DEF CheckOut
  <2>3. CASE TryLock(o)
    <3>1. conn[o] \in Sessions /\ home[o] \in Instances /\ key[o] \in Keys
      BY <2>3 DEF TryLock, StatementInv, Active
    <3>2. Locked(conn[o], key[o]) \in [Sessions -> [Keys -> Nat]]
      BY <3>1 DEF Locked
    <3> QED BY <1>1, <2>3, <3>1, <3>2 DEF TryLock
  <2>4. CASE Finish(o)
    BY <2>4 DEF Finish
  <2>5. CASE Unlock(o)
    <3>1. conn[o] \in Sessions /\ home[o] \in Instances /\ key[o] \in Keys
      BY <2>5 DEF Unlock, StatementInv, Active
    <3>2. Unlocked(conn[o], key[o]) \in [Sessions -> [Keys -> Nat]]
      BY <3>1 DEF Unlocked
    <3> QED BY <1>1, <2>5, <3>1, <3>2 DEF Unlock
  <2>6. CASE StatementFails(o)
    <3>1. conn[o] \in Sessions /\ (pc[o] \in {"trying", "unlocking"} => key[o] \in Keys)
      BY <2>6 DEF StatementFails, StatementInv, Active
    <3>2. held' \in [Sessions -> [Keys -> Nat]]
      <4>1. CASE UNCHANGED held
        BY <4>1
      <4>2. CASE pc[o] = "trying" /\ held' = Locked(conn[o], key[o])
        BY <3>1, <4>2 DEF Locked
      <4>3. CASE pc[o] = "unlocking" /\ held' = Unlocked(conn[o], key[o])
        BY <3>1, <4>3 DEF Unlocked
      <4> QED BY <2>6, <4>1, <4>2, <4>3 DEF StatementFails
    <3> QED BY <2>6, <3>1, <3>2 DEF StatementFails, Fault
  <2>7. CASE PoolClosed(o)
    BY <2>7 DEF PoolClosed
  <2> QED BY <1>2, <2>1, <2>2, <2>3, <2>4, <2>5, <2>6, <2>7 DEF Operation
<1>3. ASSUME NEW i \in Instances, LoseIdle(i) PROVE TypeOK'
  BY <1>0, <1>3 DEF LoseIdle, Fault, opVars
<1>4. ASSUME NEW i \in Instances, Terminate(i) PROVE TypeOK'
  BY <1>0, <1>4 DEF Terminate, Fault, opVars
<1>5. ASSUME NEW i \in Instances, Exit(i) PROVE TypeOK'
  <2>1. InUse(i) \subseteq Sessions
    BY DEF InUse
  <2> QED BY <1>5, <2>1 DEF Exit
<1>6. ASSUME NEW s \in Sessions, Reap(s) PROVE TypeOK'
  BY <1>0, <1>6 DEF Reap, opVars
<1>7. CASE UNCHANGED vars
  BY <1>7 DEF vars, opVars
<1> QED BY <1>2, <1>3, <1>4, <1>5, <1>6, <1>7 DEF Next

-----------------------------------------------------------------------------
(* One lemma per action.                                                   *)

\* An operation that begins holds nothing yet
LEMMA BeginStep ==
    ASSUME LocalMutex, Inv, NEW o \in Ops, NEW i \in Instances, NEW k \in Keys, Begin(o, i, k)
    PROVE  StatementInv' /\ SerialInv' /\ PoolInv' /\ LockInv' /\ RunInv'
<1> USE LockAssumption DEF Inv, TypeOK, Begin, Active
<1>1. StatementInv'
  BY DEF StatementInv
<1>2. SerialInv'
  BY DEF SerialInv
<1>3. conn[o] = Nothing
  BY DEF StatementInv
<1>4. PoolInv'
  BY <1>3 DEF PoolInv
<1>5. LockInv'
  <2>1. \A p \in Ops : pc[p] \in Holding => pc'[p] = pc[p] /\ home'[p] = home[p] /\ key'[p] = key[p]
    BY DEF Holding
  <2>2. \A p \in Ops : conn[p] # Nothing => pc'[p] = pc[p] /\ key'[p] = key[p]
    BY <1>3
  <2>3. \A s \in Sessions : Open(s)' <=> Open(s)
    BY DEF Open
  <2>4. UNCHANGED <<conn, idle, held>>
    OBVIOUS
  <2>5. ASSUME NEW j \in Instances, NEW s \in idle[j], NEW l \in Keys, held[s][l] > 0
        PROVE  held[s][l] = 1 /\ \E p \in Ops : pc'[p] \in Holding /\ home'[p] = j /\ key'[p] = l
    <3>1. PICK p \in Ops : pc[p] \in Holding /\ home[p] = j /\ key[p] = l
      BY <2>5 DEF LockInv
    <3> QED BY <2>1, <2>5, <3>1 DEF LockInv
  <2> QED BY <2>2, <2>3, <2>4, <2>5 DEF LockInv
<1>6. RunInv'
  BY DEF RunInv
<1> QED BY <1>1, <1>2, <1>4, <1>5, <1>6

\* An operation gets a connection that nobody else has, idle or new, up to the limit of the pool
LEMMA CheckOutStep ==
    ASSUME LocalMutex, Inv, NEW o \in Ops, CheckOut(o)
    PROVE  StatementInv' /\ SerialInv' /\ PoolInv' /\ LockInv' /\ RunInv'
<1> USE LockAssumption DEF Inv
<1> DEFINE i == home[o]
<1>1. PICK s \in Sessions :
        /\ \/ s \in idle[i]
           \/ idle[i] = {} /\ s \in Unused
        /\ conn' = [conn EXCEPT ![o] = s]
        /\ idle' = [idle EXCEPT ![i] = @ \ {s}]
  BY DEF CheckOut
<1>2. /\ pc[o] \in {"begun", "ending"} /\ i \notin closed
      /\ pc' = [pc EXCEPT ![o] = IF @ = "begun" THEN "trying" ELSE "unlocking"]
      /\ UNCHANGED <<home, key, orphans, held, closed, faults>>
  BY DEF CheckOut
<1>3. i \in Instances /\ key[o] \in Keys /\ conn[o] = Nothing /\ s # Nothing
  BY <1>2 DEF StatementInv, Active
<1>4. s \in idle[i] \/ ~Open(s)
  BY <1>1, UnusedClosed
<1>5. s \notin orphans /\ (\A p \in Ops : conn[p] # s)
      /\ (\A j \in Instances : s \in idle[j] => j = i)
  BY <1>3, <1>4 DEF Open, PoolInv, TypeOK
<1>6. idle'[i] = {} /\ (\A j \in Instances : j # i => idle'[j] = idle[j])
  BY <1>1, <1>3 DEF PoolInv, TypeOK
<1>7. conn'[o] = s /\ (\A p \in Ops : p # o => conn'[p] = conn[p])
  BY <1>1 DEF TypeOK
<1>8. pc'[o] = (IF pc[o] = "begun" THEN "trying" ELSE "unlocking")
      /\ (\A p \in Ops : p # o => pc'[p] = pc[p])
  BY <1>2 DEF TypeOK
<1>9. StatementInv'
  BY <1>2, <1>3, <1>7, <1>8 DEF StatementInv, Active
<1>10. SerialInv'
  BY <1>2, <1>3, <1>8 DEF SerialInv, Active
<1>11. PoolInv'
  <2>1. \A j \in Instances : idle'[j] \subseteq idle[j]
    BY <1>6, <1>3
  <2>2. \A p \in Ops : p # o /\ conn'[p] # Nothing => conn'[p] = conn[p] /\ conn[p] # s
    BY <1>5, <1>7
  <2>3. \A j \in Instances : s \notin idle'[j]
    BY <1>5, <1>6
  <2>4. \A p \in Ops : conn'[p] # Nothing => idle'[home[p]] = {} /\ conn'[p] \notin orphans
    <3>1. ASSUME NEW p \in Ops, p # o, conn[p] # Nothing PROVE idle'[home[p]] = {}
      BY <1>6, <2>1, <3>1 DEF PoolInv, StatementInv, Active
    <3> QED BY <1>5, <1>6, <1>7, <2>2, <3>1 DEF PoolInv
  <2>5. \A p \in Ops, j \in Instances : conn'[p] \notin idle'[j]
    BY <1>7, <2>1, <2>3 DEF PoolInv
  <2>6. \A p, q \in Ops : conn'[p] = conn'[q] /\ conn'[p] # Nothing => p = q
    BY <1>5, <1>7 DEF PoolInv
  <2>7. UNCHANGED <<home, orphans, closed>>
    BY <1>2
  <2>8. \A j \in closed : idle'[j] = {}
    BY <2>1 DEF PoolInv, TypeOK
  <2> QED BY <2>1, <2>4, <2>5, <2>6, <2>7, <2>8 DEF PoolInv
<1>12. LockInv'
  <2>1. ASSUME NEW k \in Keys, held[s][k] > 0
        PROVE  held[s][k] = 1 /\ pc'[o] = "unlocking" /\ key[o] = k
    <3>1. s \in idle[i]
      BY <1>4, <2>1 DEF LockInv
    <3>2. PICK p \in Ops : pc[p] \in Holding /\ home[p] = i /\ key[p] = k
      BY <1>3, <2>1, <3>1 DEF LockInv
    <3>3. p = o
      BY <1>2, <3>2 DEF SerialInv, Active, Holding
    <3> QED BY <1>2, <1>3, <1>8, <2>1, <3>1, <3>2, <3>3 DEF LockInv, Holding
  <2>2. ASSUME NEW j \in Instances, NEW t \in idle'[j], NEW k \in Keys, held[t][k] > 0
        PROVE  /\ held[t][k] = 1
               /\ \E p \in Ops : pc'[p] \in Holding /\ home[p] = j /\ key[p] = k
    <3>1. j # i /\ t \in idle[j]
      BY <1>6, <2>2
    <3>2. held[t][k] = 1
      BY <2>2, <3>1 DEF LockInv
    <3>3. PICK p \in Ops : pc[p] \in Holding /\ home[p] = j /\ key[p] = k
      BY <2>2, <3>1 DEF LockInv
    <3>4. pc'[p] = pc[p]
      BY <1>8, <3>1, <3>3
    <3> QED BY <3>2, <3>3, <3>4
  <2>3. ASSUME NEW t \in Sessions, ~Open(t)' PROVE ~Open(t) \/ t = s
    BY <1>2, <1>6, <1>7, <2>3, <1>1, <1>3 DEF Open, TypeOK
  <2>4. \A t \in Sessions : ~Open(t)' => \A k \in Keys : held[t][k] = 0
    BY <2>3, <1>7 DEF LockInv, Open
  <2>5. ASSUME NEW p \in Ops, NEW k \in Keys, conn'[p] # Nothing, held[conn'[p]][k] > 0
        PROVE  held[conn'[p]][k] = 1 /\ pc'[p] = "unlocking" /\ key[p] = k
    BY <1>7, <1>8, <2>1, <2>5 DEF LockInv
  <2> QED BY <1>2, <2>2, <2>4, <2>5 DEF LockInv
<1>13. RunInv'
  <2>1. ASSUME faults = 0, NEW p \in Ops, pc'[p] = "running"
        PROVE  \E t \in idle'[home[p]] : held[t][key[p]] > 0
    <3>1. p # o /\ pc[p] = "running"
      BY <1>2, <1>8, <2>1
    <3>2. home[p] # i /\ home[p] \in Instances
      BY <1>2, <3>1 DEF SerialInv, StatementInv, Active
    <3> QED BY <1>6, <2>1, <3>1, <3>2 DEF RunInv
  <2> QED BY <1>2, <2>1 DEF RunInv
<1> QED BY <1>9, <1>10, <1>11, <1>12, <1>13

\* a statement is over: its session goes back to the empty pool, or is closed
LEMMA ReturnEffect ==
    ASSUME Inv, NEW o \in Ops, conn[o] # Nothing,
           NEW table \in [Sessions -> [Keys -> Nat]], Return(o, table),
           UNCHANGED <<home, orphans, closed>>
    PROVE  /\ home[o] \in Instances /\ key[o] \in Keys /\ conn[o] \in Sessions
           /\ idle[home[o]] = {}
           /\ conn'[o] = Nothing /\ \A p \in Ops : p # o => conn'[p] = conn[p]
           /\ \A j \in Instances : j # home[o] => idle'[j] = idle[j]
           /\ \/ /\ home[o] \notin closed
                 /\ idle'[home[o]] = {conn[o]} /\ held' = table
              \/ /\ home[o] \in closed
                 /\ idle' = idle /\ held' = [table EXCEPT ![conn[o]] = NoLocks]
           /\ PoolInv'
<1> USE LockAssumption DEF Inv
<1> DEFINE i == home[o]
           s == conn[o]
<1>1. i \in Instances /\ key[o] \in Keys /\ s \in Sessions
  BY DEF StatementInv, Active, TypeOK
<1>2. idle[i] = {}
  BY DEF PoolInv
<1>3. Kept(i) <=> i \notin closed
  BY <1>1, <1>2, RoomForOne
<1>4. conn'[o] = Nothing /\ \A p \in Ops : p # o => conn'[p] = conn[p]
  BY DEF Return, TypeOK
<1>5. \/ i \notin closed /\ idle' = [idle EXCEPT ![i] = @ \cup {s}] /\ held' = table
      \/ i \in closed /\ idle' = idle /\ held' = [table EXCEPT ![s] = NoLocks]
  BY <1>3 DEF Return
<1>6. \A j \in Instances : j # i => idle'[j] = idle[j]
  BY <1>5 DEF TypeOK
<1>7. i \notin closed => idle'[i] = {s}
  BY <1>1, <1>2, <1>5 DEF TypeOK
<1>8. PoolInv'
  <2>1. \A j \in Instances : idle'[j] = idle[j] \/ (j = i /\ idle'[j] = {s})
    BY <1>5, <1>6, <1>7
  <2>2. s \notin orphans /\ \A j \in Instances : s \notin idle[j]
    BY DEF PoolInv
  <2>3. \A j \in Instances : \A t, u \in idle'[j] : t = u
    BY <2>1 DEF PoolInv
  <2>4. \A j, k \in Instances : idle'[j] \cap idle'[k] # {} => j = k
    BY <2>1, <2>2 DEF PoolInv
  <2>5. \A j \in Instances : idle'[j] \cap orphans = {}
    BY <2>1, <2>2 DEF PoolInv
  <2>6. \A p \in Ops : conn'[p] # Nothing => p # o /\ conn'[p] = conn[p] /\ conn[p] # s
    BY <1>4 DEF PoolInv
  <2>7. \A p \in Ops : conn'[p] # Nothing => idle'[home[p]] = {} /\ conn'[p] \notin orphans
    <3>1. ASSUME NEW p \in Ops, conn'[p] # Nothing
          PROVE  home[p] # i /\ home[p] \in Instances
      BY <2>6, <3>1 DEF StatementInv, SerialInv, Active
    <3> QED BY <1>6, <2>6, <3>1 DEF PoolInv
  <2>8. \A p \in Ops, j \in Instances : conn'[p] \notin idle'[j]
    <3>1. Nothing \notin Sessions /\ \A j \in Instances : idle'[j] \subseteq Sessions
      BY <1>1, <2>1 DEF TypeOK
    <3> QED BY <2>1, <2>6, <3>1 DEF PoolInv
  <2>9. \A p, q \in Ops : conn'[p] = conn'[q] /\ conn'[p] # Nothing => p = q
    BY <2>6 DEF PoolInv
  <2>10. \A j \in closed : idle'[j] = {}
    BY <1>1, <1>5, <1>6 DEF PoolInv, TypeOK
  <2> QED BY <2>3, <2>4, <2>5, <2>7, <2>8, <2>9, <2>10 DEF PoolInv
<1> QED BY <1>1, <1>2, <1>4, <1>5, <1>6, <1>7, <1>8

\* pg_try_advisory_lock gives a key only to a session of an operation, if no other has it
LEMMA TryLockStep ==
    ASSUME LocalMutex, Inv, NEW o \in Ops, TryLock(o)
    PROVE  StatementInv' /\ SerialInv' /\ PoolInv' /\ LockInv' /\ RunInv'
<1> USE LockAssumption DEF Inv
<1> DEFINE i == home[o]
           s == conn[o]
           k == key[o]
           table == Locked(s, k)
<1>1. /\ pc[o] = "trying" /\ Return(o, table)
      /\ pc' = [pc EXCEPT ![o] = IF Granted(s, k) THEN "running" ELSE "idle"]
      /\ UNCHANGED <<home, key, orphans, closed, faults>>
  BY DEF TryLock
<1>2. s # Nothing /\ s \in Sessions /\ i \in Instances /\ k \in Keys
  BY <1>1 DEF StatementInv, Active, TypeOK
<1>3. table \in [Sessions -> [Keys -> Nat]]
  BY <1>2 DEF TypeOK, Locked
<1>4. \A l \in Keys : held[s][l] = 0
  BY <1>1, <1>2 DEF LockInv, TypeOK
<1> HIDE DEF table
<1>5. /\ idle[i] = {}
      /\ conn'[o] = Nothing /\ (\A p \in Ops : p # o => conn'[p] = conn[p])
      /\ (\A j \in Instances : j # i => idle'[j] = idle[j])
      /\ \/ i \notin closed /\ idle'[i] = {s} /\ held' = table
         \/ i \in closed /\ idle' = idle /\ held' = [table EXCEPT ![s] = NoLocks]
      /\ PoolInv'
  BY <1>1, <1>2, <1>3, ReturnEffect
<1>6. pc'[o] = (IF Granted(s, k) THEN "running" ELSE "idle")
      /\ \A p \in Ops : p # o => pc'[p] = pc[p]
  BY <1>1 DEF TypeOK
<1>7. \A t \in Sessions, l \in Keys :
        table[t][l] = IF t = s /\ l = k /\ Granted(s, k) THEN 1 ELSE held[t][l]
  BY <1>2, <1>4 DEF table, Locked, TypeOK
<1>8. \A t \in Sessions, l \in Keys :
        held'[t][l] = IF t = s /\ l = k /\ Granted(s, k) /\ i \notin closed THEN 1 ELSE held[t][l]
  BY <1>2, <1>3, <1>4, <1>5, <1>7 DEF NoLocks
<1>9. StatementInv'
  BY <1>1, <1>2, <1>5, <1>6 DEF StatementInv, Active
<1>10. SerialInv'
  BY <1>1, <1>6 DEF SerialInv, Active
<1>11. LockInv'
  <2>1. ASSUME NEW t \in Sessions, ~Open(t)' PROVE \A l \in Keys : held'[t][l] = 0
    <3>1. t = s \/ ~Open(t)
      BY <1>1, <1>2, <1>5, <2>1 DEF Open
    <3>2. CASE t = s
      <4>1. i \in closed
        BY <1>2, <1>5, <2>1, <3>2 DEF Open
      <4> QED BY <1>4, <1>8, <3>2, <4>1
    <3>3. CASE t # s /\ ~Open(t)
      BY <1>8, <3>3 DEF LockInv
    <3> QED BY <3>1, <3>2, <3>3
  <2>2. ASSUME NEW t \in Sessions, NEW u \in Sessions, NEW l \in Keys,
               held'[t][l] > 0, held'[u][l] > 0
        PROVE  t = u
    BY <1>8, <2>2 DEF LockInv, Granted, TypeOK
  <2>3. ASSUME NEW j \in Instances, NEW t \in idle'[j], NEW l \in Keys, held'[t][l] > 0
        PROVE  held'[t][l] = 1 /\ \E p \in Ops : pc'[p] \in Holding /\ home'[p] = j /\ key'[p] = l
    <3>1. CASE j = i
      <4>1. t = s /\ i \notin closed
        BY <1>5, <2>3, <3>1
      <4>2. l = k /\ Granted(s, k)
        BY <1>2, <1>4, <1>8, <2>3, <4>1
      <4> QED BY <1>1, <1>2, <1>6, <1>8, <3>1, <4>1, <4>2 DEF Holding
    <3>2. CASE j # i
      <4>1. t \in idle[j] /\ t # s /\ t \in Sessions
        BY <1>2, <1>5, <2>3, <3>2 DEF PoolInv, TypeOK
      <4>2. held'[t][l] = held[t][l]
        BY <1>8, <4>1
      <4>3. PICK p \in Ops : pc[p] \in Holding /\ home[p] = j /\ key[p] = l
        BY <2>3, <4>1, <4>2 DEF LockInv
      <4>4. pc'[p] = pc[p]
        BY <1>1, <1>6, <4>3 DEF Holding
      <4> QED BY <1>1, <2>3, <4>1, <4>2, <4>3, <4>4 DEF LockInv
    <3> QED BY <3>1, <3>2
  <2>4. ASSUME NEW p \in Ops, NEW l \in Keys, conn'[p] # Nothing, held'[conn'[p]][l] > 0
        PROVE  held'[conn'[p]][l] = 1 /\ pc'[p] = "unlocking" /\ key'[p] = l
    <3>1. p # o /\ conn'[p] = conn[p] /\ conn[p] # s /\ conn[p] \in Sessions
      BY <1>2, <1>5, <2>4 DEF PoolInv, TypeOK
    <3> QED BY <1>1, <1>6, <1>8, <2>4, <3>1 DEF LockInv
  <2> QED BY <2>1, <2>2, <2>3, <2>4 DEF LockInv
<1>12. RunInv'
  <2>1. ASSUME faults = 0, NEW p \in Ops, pc'[p] = "running"
        PROVE  \E t \in idle'[home[p]] : held'[t][key[p]] > 0
    <3>1. CASE p = o
      <4>1. i \notin closed
        BY <2>1 DEF RunInv
      <4> QED BY <1>2, <1>5, <1>6, <1>8, <2>1, <3>1, <4>1
    <3>2. CASE p # o
      <4>1. pc[p] = "running" /\ home[p] # i /\ home[p] \in Instances /\ key[p] \in Keys
        BY <1>1, <1>6, <2>1, <3>2 DEF SerialInv, StatementInv, Active
      <4>2. PICK t \in idle[home[p]] : held[t][key[p]] > 0
        BY <2>1, <4>1 DEF RunInv
      <4>3. t \in idle'[home[p]] /\ t # s /\ t \in Sessions
        BY <1>2, <1>5, <4>1, <4>2 DEF PoolInv, TypeOK
      <4> QED BY <1>8, <4>1, <4>2, <4>3
    <3> QED BY <3>1, <3>2
  <2> QED BY <1>1, <2>1 DEF RunInv
<1> QED BY <1>5, <1>9, <1>10, <1>11, <1>12

\* pg_advisory_unlock frees the key of the session that asks
LEMMA UnlockStep ==
    ASSUME LocalMutex, Inv, NEW o \in Ops, Unlock(o)
    PROVE  StatementInv' /\ SerialInv' /\ PoolInv' /\ LockInv' /\ RunInv'
<1> USE LockAssumption DEF Inv
<1> DEFINE i == home[o]
           s == conn[o]
           k == key[o]
           table == Unlocked(s, k)
<1>1. /\ pc[o] = "unlocking" /\ Return(o, table)
      /\ pc' = [pc EXCEPT ![o] = "idle"]
      /\ UNCHANGED <<home, key, orphans, closed, faults>>
  BY DEF Unlock
<1>2. s # Nothing /\ s \in Sessions /\ i \in Instances /\ k \in Keys
  BY <1>1 DEF StatementInv, Active, TypeOK
<1>3. table \in [Sessions -> [Keys -> Nat]]
  BY <1>2 DEF TypeOK, Unlocked
<1>4. \A l \in Keys : held[s][l] \in Nat /\ (held[s][l] > 0 => l = k /\ held[s][l] = 1)
  BY <1>1, <1>2 DEF LockInv, TypeOK
<1>5. \A t \in Sessions, l \in Keys : table[t][l] = IF t = s THEN 0 ELSE held[t][l]
  BY <1>2, <1>4 DEF Unlocked, TypeOK
<1> HIDE DEF table
<1>6. /\ idle[i] = {}
      /\ conn'[o] = Nothing /\ (\A p \in Ops : p # o => conn'[p] = conn[p])
      /\ (\A j \in Instances : j # i => idle'[j] = idle[j])
      /\ \/ i \notin closed /\ idle'[i] = {s} /\ held' = table
         \/ i \in closed /\ idle' = idle /\ held' = [table EXCEPT ![s] = NoLocks]
      /\ PoolInv'
  BY <1>1, <1>2, <1>3, ReturnEffect
<1>7. \A t \in Sessions, l \in Keys : held'[t][l] = IF t = s THEN 0 ELSE held[t][l]
  BY <1>2, <1>3, <1>5, <1>6 DEF NoLocks
<1>8. pc'[o] = "idle" /\ \A p \in Ops : p # o => pc'[p] = pc[p]
  BY <1>1 DEF TypeOK
<1>9. StatementInv'
  BY <1>1, <1>6, <1>8 DEF StatementInv, Active
<1>10. SerialInv'
  BY <1>1, <1>8 DEF SerialInv, Active
<1>11. LockInv'
  <2>1. ASSUME NEW t \in Sessions, ~Open(t)' PROVE \A l \in Keys : held'[t][l] = 0
    <3>1. t = s \/ ~Open(t)
      BY <1>1, <1>2, <1>6, <2>1 DEF Open
    <3> QED BY <1>7, <3>1 DEF LockInv
  <2>2. ASSUME NEW t \in Sessions, NEW u \in Sessions, NEW l \in Keys,
               held'[t][l] > 0, held'[u][l] > 0
        PROVE  t = u
    BY <1>7, <2>2 DEF LockInv
  <2>3. ASSUME NEW j \in Instances, NEW t \in idle'[j], NEW l \in Keys, held'[t][l] > 0
        PROVE  held'[t][l] = 1 /\ \E p \in Ops : pc'[p] \in Holding /\ home'[p] = j /\ key'[p] = l
    <3>1. t # s /\ j # i /\ t \in idle[j] /\ t \in Sessions
      BY <1>2, <1>6, <1>7, <2>3 DEF TypeOK
    <3>2. held'[t][l] = held[t][l]
      BY <1>7, <3>1
    <3>3. PICK p \in Ops : pc[p] \in Holding /\ home[p] = j /\ key[p] = l
      BY <2>3, <3>1, <3>2 DEF LockInv
    <3>4. pc'[p] = pc[p]
      BY <1>1, <1>8, <3>3 DEF Holding
    <3> QED BY <1>1, <2>3, <3>1, <3>2, <3>3, <3>4 DEF LockInv
  <2>4. ASSUME NEW p \in Ops, NEW l \in Keys, conn'[p] # Nothing, held'[conn'[p]][l] > 0
        PROVE  held'[conn'[p]][l] = 1 /\ pc'[p] = "unlocking" /\ key'[p] = l
    <3>1. p # o /\ conn'[p] = conn[p] /\ conn[p] # s /\ conn[p] \in Sessions
      BY <1>2, <1>6, <2>4 DEF PoolInv, TypeOK
    <3> QED BY <1>1, <1>7, <1>8, <2>4, <3>1 DEF LockInv
  <2> QED BY <2>1, <2>2, <2>3, <2>4 DEF LockInv
<1>12. RunInv'
  <2>1. ASSUME faults = 0, NEW p \in Ops, pc'[p] = "running"
        PROVE  \E t \in idle'[home[p]] : held'[t][key[p]] > 0
    <3>1. p # o /\ pc[p] = "running" /\ home[p] # i /\ home[p] \in Instances /\ key[p] \in Keys
      BY <1>1, <1>8, <2>1 DEF SerialInv, StatementInv, Active
    <3>2. PICK t \in idle[home[p]] : held[t][key[p]] > 0
      BY <2>1, <3>1 DEF RunInv
    <3>3. t \in idle'[home[p]] /\ t # s /\ t \in Sessions
      BY <1>2, <1>6, <3>1, <3>2 DEF PoolInv, TypeOK
    <3> QED BY <1>7, <3>1, <3>2, <3>3
  <2> QED BY <1>1, <2>1 DEF RunInv
<1> QED BY <1>6, <1>9, <1>10, <1>11, <1>12

\* An operation that is over begins to release, its lock still held
LEMMA FinishStep ==
    ASSUME LocalMutex, Inv, NEW o \in Ops, Finish(o)
    PROVE  StatementInv' /\ SerialInv' /\ PoolInv' /\ LockInv' /\ RunInv'
<1> USE DEF Inv
<1>1. pc[o] = "running" /\ UNCHANGED <<home, key, conn, idle, orphans, held, closed, faults>>
  BY DEF Finish
<1>2. pc'[o] = "ending" /\ \A p \in Ops : p # o => pc'[p] = pc[p]
  BY DEF Finish, TypeOK
<1>3. StatementInv' /\ SerialInv' /\ PoolInv'
  BY <1>1, <1>2 DEF StatementInv, SerialInv, PoolInv, Active
<1>4. LockInv'
  <2>1. \A p \in Ops : pc[p] \in Holding => pc'[p] \in Holding
    BY <1>2 DEF Holding
  <2>2. \A t \in Sessions : Open(t)' <=> Open(t)
    BY <1>1 DEF Open
  <2>3. \A p \in Ops : pc[p] = "unlocking" => pc'[p] = "unlocking"
    BY <1>1, <1>2
  <2> QED BY <1>1, <2>1, <2>2, <2>3 DEF LockInv
<1>5. RunInv'
  BY <1>1, <1>2 DEF RunInv
<1> QED BY <1>3, <1>4, <1>5

\* the pool that refuses the statement is empty, so no lock was the operation's
LEMMA PoolClosedStep ==
    ASSUME LocalMutex, Inv, NEW o \in Ops, PoolClosed(o)
    PROVE  StatementInv' /\ SerialInv' /\ PoolInv' /\ LockInv' /\ RunInv'
<1> USE DEF Inv
<1>1. /\ pc[o] \in {"begun", "ending"} /\ home[o] \in closed
      /\ UNCHANGED <<home, key, conn, idle, orphans, held, closed, faults>>
  BY DEF PoolClosed
<1>2. pc'[o] = "idle" /\ \A p \in Ops : p # o => pc'[p] = pc[p]
  BY DEF PoolClosed, TypeOK
<1>3. StatementInv' /\ SerialInv' /\ PoolInv'
  BY <1>1, <1>2 DEF StatementInv, SerialInv, PoolInv, Active
<1>4. LockInv'
  <2>1. \A t \in Sessions : Open(t)' <=> Open(t)
    BY <1>1 DEF Open
  <2>2. ASSUME NEW j \in Instances, NEW t \in idle[j], NEW l \in Keys, held[t][l] > 0
        PROVE  held[t][l] = 1 /\ \E p \in Ops : pc'[p] \in Holding /\ home[p] = j /\ key[p] = l
    <3>1. PICK p \in Ops : pc[p] \in Holding /\ home[p] = j /\ key[p] = l
      BY <2>2 DEF LockInv
    <3>2. p # o
      BY <1>1, <2>2, <3>1 DEF PoolInv
    <3> QED BY <1>2, <2>2, <3>1, <3>2 DEF LockInv
  <2>3. \A p \in Ops : pc[p] = "unlocking" => pc'[p] = "unlocking"
    BY <1>1, <1>2
  <2> QED BY <1>1, <2>1, <2>2, <2>3 DEF LockInv
<1>5. RunInv'
  BY <1>1, <1>2 DEF RunInv
<1> QED BY <1>3, <1>4, <1>5

\* The session of a statement whose connection is lost keeps its locks as an orphan, the
\* one too that the statement may have taken
LEMMA StatementFailsStep ==
    ASSUME LocalMutex, Inv, NEW o \in Ops, StatementFails(o)
    PROVE  StatementInv' /\ SerialInv' /\ PoolInv' /\ LockInv' /\ RunInv'
<1> USE LockAssumption DEF Inv
<1> DEFINE s == conn[o]
<1>1. /\ s # Nothing /\ faults' = faults + 1
      /\ conn' = [conn EXCEPT ![o] = Nothing] /\ orphans' = orphans \cup {s}
      /\ UNCHANGED <<home, key, idle, closed>>
  BY DEF StatementFails, Fault
<1>2. pc'[o] = "idle" /\ \A p \in Ops : p # o => pc'[p] = pc[p]
  BY DEF StatementFails, TypeOK
<1>3. s \in Sessions /\ pc[o] \in {"trying", "unlocking"} /\ key[o] \in Keys
  BY <1>1 DEF TypeOK, StatementInv, Active
<1>4. conn'[o] = Nothing /\ \A p \in Ops : p # o => conn'[p] = conn[p]
  BY <1>1 DEF TypeOK
<1>5. /\ \A t \in Sessions \ {s}, l \in Keys : held'[t][l] = held[t][l]
      /\ \A l \in Keys : held'[s][l] > 0 =>
            held[s][l] > 0 \/ \A t \in Sessions \ {s} : held[t][l] = 0
  <2>1. held \in [Sessions -> [Keys -> Nat]]
    BY DEF TypeOK
  <2>2. CASE UNCHANGED held
    BY <2>2
  <2>3. CASE held' = Locked(s, key[o])
    BY <1>3, <2>1, <2>3 DEF Locked, Granted
  <2>4. CASE held' = Unlocked(s, key[o])
    BY <1>3, <2>1, <2>4 DEF Unlocked
  <2> QED BY <2>2, <2>3, <2>4 DEF StatementFails
<1>6. StatementInv' /\ SerialInv'
  BY <1>1, <1>2, <1>4 DEF StatementInv, SerialInv, Active
<1>7. PoolInv'
  <2>1. \A i \in Instances : s \notin idle[i]
    BY <1>1 DEF PoolInv
  <2>2. \A p \in Ops : p # o /\ conn[p] # Nothing => conn[p] # s
    BY <1>1 DEF PoolInv
  <2>3. \A p \in Ops : conn'[p] # Nothing => p # o /\ conn'[p] = conn[p]
    BY <1>4
  <2>4. \A i \in Instances : idle[i] \cap orphans' = {}
    BY <1>1, <2>1 DEF PoolInv
  <2>5. \A p \in Ops : conn'[p] # Nothing => idle[home[p]] = {} /\ conn'[p] \notin orphans'
    BY <1>1, <2>2, <2>3 DEF PoolInv
  <2>6. \A p \in Ops, i \in Instances : conn'[p] \notin idle[i]
    BY <1>4 DEF PoolInv, TypeOK
  <2>7. \A p, q \in Ops : conn'[p] = conn'[q] /\ conn'[p] # Nothing => p = q
    BY <2>3 DEF PoolInv
  <2> QED BY <1>1, <2>4, <2>5, <2>6, <2>7 DEF PoolInv
<1>8. LockInv'
  <2>1. ASSUME NEW t \in Sessions, ~Open(t)' PROVE \A l \in Keys : held'[t][l] = 0
    <3>1. t # s /\ ~Open(t)
      BY <1>1, <1>4, <2>1 DEF Open
    <3> QED BY <1>5, <3>1 DEF LockInv
  <2>2. ASSUME NEW t \in Sessions, NEW u \in Sessions, NEW l \in Keys,
               held'[t][l] > 0, held'[u][l] > 0
        PROVE  t = u
    <3>1. CASE t # s /\ u # s
      BY <1>5, <2>2, <3>1 DEF LockInv
    <3>2. CASE t = s /\ u # s
      BY <1>5, <2>2, <3>2 DEF LockInv
    <3>3. CASE t # s /\ u = s
      BY <1>5, <2>2, <3>3 DEF LockInv
    <3> QED BY <3>1, <3>2, <3>3
  <2>3. ASSUME NEW j \in Instances, NEW t \in idle'[j], NEW l \in Keys, held'[t][l] > 0
        PROVE  held'[t][l] = 1 /\ \E p \in Ops : pc'[p] \in Holding /\ home'[p] = j /\ key'[p] = l
    <3>1. t \in idle[j] /\ t \in Sessions /\ t # s
      BY <1>1, <2>3 DEF TypeOK, PoolInv
    <3>2. held'[t][l] = held[t][l]
      BY <1>5, <3>1
    <3>3. PICK p \in Ops : pc[p] \in Holding /\ home[p] = j /\ key[p] = l
      BY <2>3, <3>1, <3>2 DEF LockInv
    <3>4. pc'[p] = pc[p]
      BY <1>2, <1>3, <3>3 DEF Holding
    <3> QED BY <1>1, <2>3, <3>1, <3>2, <3>3, <3>4 DEF LockInv
  <2>4. ASSUME NEW p \in Ops, NEW l \in Keys, conn'[p] # Nothing, held'[conn'[p]][l] > 0
        PROVE  held'[conn'[p]][l] = 1 /\ pc'[p] = "unlocking" /\ key'[p] = l
    <3>1. p # o /\ conn'[p] = conn[p] /\ conn[p] # s /\ conn[p] \in Sessions
      BY <1>1, <1>4, <2>4 DEF PoolInv, TypeOK
    <3> QED BY <1>1, <1>2, <1>5, <2>4, <3>1 DEF LockInv
  <2> QED BY <2>1, <2>2, <2>3, <2>4 DEF LockInv
<1>9. RunInv'
  BY <1>1 DEF RunInv, TypeOK
<1> QED BY <1>6, <1>7, <1>8, <1>9

\* An idle connection that is lost leaves its session, with its locks, to the server
LEMMA LoseIdleStep ==
    ASSUME LocalMutex, Inv, NEW i \in Instances, LoseIdle(i)
    PROVE  StatementInv' /\ SerialInv' /\ PoolInv' /\ LockInv' /\ RunInv'
<1> USE LockAssumption DEF Inv
<1>1. PICK s \in idle[i] : /\ idle' = [idle EXCEPT ![i] = @ \ {s}]
                           /\ orphans' = orphans \cup {s}
  BY DEF LoseIdle
<1>2. faults' = faults + 1 /\ UNCHANGED <<pc, home, key, conn, held, closed>>
  BY DEF LoseIdle, Fault, opVars
<1>3. /\ s \in Sessions /\ \A o \in Ops : conn[o] # s
      /\ \A j \in Instances : s \in idle[j] => j = i
  BY DEF TypeOK, PoolInv
<1>4. \A j \in Instances : idle'[j] \subseteq idle[j] /\ idle[j] \subseteq idle'[j] \cup {s}
      /\ s \notin idle'[j]
  BY <1>1, <1>3 DEF TypeOK
<1>5. StatementInv' /\ SerialInv'
  BY <1>2 DEF StatementInv, SerialInv, Active
<1>6. PoolInv'
  <2>1. \A o \in Ops : conn[o] # Nothing => idle'[home[o]] = {} /\ conn[o] \notin orphans'
    BY <1>1, <1>3, <1>4 DEF PoolInv, StatementInv, Active
  <2>2. \A j \in closed : idle'[j] = {}
    BY <1>4 DEF PoolInv, TypeOK
  <2>3. \A j \in Instances : idle'[j] \cap orphans' = {}
    BY <1>1, <1>4 DEF PoolInv
  <2> QED BY <1>2, <1>4, <2>1, <2>2, <2>3 DEF PoolInv
<1>7. LockInv'
  <2>1. ASSUME NEW t \in Sessions, ~Open(t)' PROVE \A l \in Keys : held'[t][l] = 0
    <3>1. ~Open(t)
      BY <1>1, <1>2, <1>4, <2>1 DEF Open
    <3> QED BY <1>2, <3>1 DEF LockInv
  <2>2. \A j \in Instances : \A t \in idle'[j] : t \in idle[j]
    BY <1>4
  <2> QED BY <1>2, <2>1, <2>2 DEF LockInv
<1>8. RunInv'
  BY <1>2 DEF RunInv, TypeOK
<1> QED BY <1>5, <1>6, <1>7, <1>8

\* A process that terminates closes its pool and every session of it
LEMMA TerminateStep ==
    ASSUME LocalMutex, Inv, NEW i \in Instances, Terminate(i)
    PROVE  StatementInv' /\ SerialInv' /\ PoolInv' /\ LockInv' /\ RunInv'
<1> USE LockAssumption DEF Inv
<1>1. /\ faults' = faults + 1 /\ closed' = closed \cup {i}
      /\ idle' = [idle EXCEPT ![i] = {}]
      /\ held' = [s \in Sessions |-> IF s \in idle[i] THEN NoLocks ELSE held[s]]
      /\ UNCHANGED <<pc, home, key, conn, orphans>>
  BY DEF Terminate, Fault, opVars
<1>2. idle'[i] = {} /\ \A j \in Instances : j # i => idle'[j] = idle[j]
  BY <1>1 DEF TypeOK
<1>3. \A t \in Sessions, l \in Keys : held'[t][l] = IF t \in idle[i] THEN 0 ELSE held[t][l]
  BY <1>1 DEF NoLocks
<1>4. StatementInv' /\ SerialInv'
  BY <1>1 DEF StatementInv, SerialInv, Active
<1>5. PoolInv'
  <2>1. \A j \in Instances : idle'[j] \subseteq idle[j]
    BY <1>2
  <2>2. \A o \in Ops : conn[o] # Nothing => idle'[home[o]] = {}
    BY <2>1 DEF PoolInv, StatementInv, Active
  <2>3. \A j \in closed' : idle'[j] = {}
    BY <1>1, <1>2 DEF PoolInv, TypeOK
  <2> QED BY <1>1, <2>1, <2>2, <2>3 DEF PoolInv
<1>6. LockInv'
  <2>1. ASSUME NEW t \in Sessions, ~Open(t)' PROVE \A l \in Keys : held'[t][l] = 0
    <3>1. t \in idle[i] \/ ~Open(t)
      BY <1>1, <1>2, <2>1 DEF Open
    <3> QED BY <1>3, <3>1 DEF LockInv
  <2>2. ASSUME NEW t \in Sessions, NEW u \in Sessions, NEW l \in Keys,
               held'[t][l] > 0, held'[u][l] > 0
        PROVE  t = u
    BY <1>3, <2>2 DEF LockInv
  <2>3. ASSUME NEW j \in Instances, NEW t \in idle'[j], NEW l \in Keys, held'[t][l] > 0
        PROVE  held'[t][l] = 1 /\ \E p \in Ops : pc'[p] \in Holding /\ home'[p] = j /\ key'[p] = l
    <3>1. t \in idle[j] /\ t \in Sessions
      BY <1>2, <2>3 DEF TypeOK
    <3>2. held'[t][l] = held[t][l]
      BY <1>3, <2>3, <3>1
    <3> QED BY <1>1, <2>3, <3>1, <3>2 DEF LockInv
  <2>4. ASSUME NEW p \in Ops, NEW l \in Keys, conn'[p] # Nothing, held'[conn'[p]][l] > 0
        PROVE  held'[conn'[p]][l] = 1 /\ pc'[p] = "unlocking" /\ key'[p] = l
    <3>1. conn'[p] = conn[p] /\ conn[p] \in Sessions /\ conn[p] \notin idle[i]
      BY <1>1, <2>4 DEF PoolInv, TypeOK
    <3> QED BY <1>1, <1>3, <2>4, <3>1 DEF LockInv
  <2> QED BY <2>1, <2>2, <2>3, <2>4 DEF LockInv
<1>7. RunInv'
  BY <1>1 DEF RunInv, TypeOK
<1> QED BY <1>4, <1>5, <1>6, <1>7

\* the sessions of the process become orphans and keep their locks
LEMMA ExitStep ==
    ASSUME LocalMutex, Inv, NEW i \in Instances, Exit(i)
    PROVE  StatementInv' /\ SerialInv' /\ PoolInv' /\ LockInv' /\ RunInv'
<1> USE LockAssumption DEF Inv
<1>1. /\ idle' = [idle EXCEPT ![i] = {}]
      /\ orphans' = orphans \cup idle[i] \cup InUse(i)
      /\ closed' = closed \ {i} /\ UNCHANGED <<home, key, held, faults>>
  BY DEF Exit
<1>2. \A o \in Ops : /\ pc'[o] = IF home[o] = i THEN "idle" ELSE pc[o]
                     /\ conn'[o] = IF home[o] = i THEN Nothing ELSE conn[o]
  BY DEF Exit
<1>3. idle'[i] = {} /\ \A j \in Instances : j # i => idle'[j] = idle[j]
  BY <1>1 DEF TypeOK
<1>4. \A s \in InUse(i) : \E o \in Ops : home[o] = i /\ conn[o] = s /\ conn[o] # Nothing
  BY DEF InUse
<1>5. StatementInv' /\ SerialInv'
  BY <1>1, <1>2 DEF StatementInv, SerialInv, Active
<1>6. PoolInv'
  <2>1. \A j \in Instances : idle'[j] \subseteq idle[j]
    BY <1>3
  <2>2. ASSUME NEW j \in Instances, NEW s \in idle'[j] PROVE s \notin orphans'
    <3>1. j # i /\ s \in idle[j]
      BY <1>3, <2>2
    <3>2. s \notin orphans /\ s \notin idle[i]
      BY <3>1 DEF PoolInv
    <3>3. s \notin InUse(i)
      BY <1>4, <3>1 DEF PoolInv
    <3> QED BY <1>1, <3>2, <3>3
  <2>3. ASSUME NEW p \in Ops, conn'[p] # Nothing
        PROVE  /\ home[p] # i /\ conn'[p] = conn[p] /\ pc'[p] = pc[p]
               /\ idle'[home[p]] = {} /\ conn[p] \notin orphans'
    <3>1. home[p] # i /\ conn'[p] = conn[p] /\ pc'[p] = pc[p]
      BY <1>2, <2>3
    <3>2. idle[home[p]] = {} /\ conn[p] \notin orphans /\ home[p] \in Instances
      BY <2>3, <3>1 DEF PoolInv, StatementInv, Active
    <3>3. conn[p] \notin idle[i]
      BY DEF PoolInv
    <3>4. conn[p] \notin InUse(i)
      BY <1>4, <2>3, <3>1 DEF PoolInv
    <3> QED BY <1>1, <1>3, <3>1, <3>2, <3>3, <3>4
  <2>4. \A p \in Ops, j \in Instances : conn'[p] \notin idle'[j]
    <3>1. Nothing \notin UNION {idle[j] : j \in Instances}
      BY DEF TypeOK
    <3> QED BY <1>2, <2>1, <3>1 DEF PoolInv
  <2>5. \A o, p \in Ops : conn'[o] = conn'[p] /\ conn'[o] # Nothing => o = p
    BY <2>3 DEF PoolInv
  <2>6. \A j \in closed' : idle'[j] = {}
    BY <1>1, <1>3 DEF PoolInv, TypeOK
  <2>7. \A j \in Instances : \A s, t \in idle'[j] : s = t
    BY <2>1 DEF PoolInv
  <2>8. \A j, k \in Instances : idle'[j] \cap idle'[k] # {} => j = k
    BY <2>1 DEF PoolInv
  <2>9. \A j \in Instances : idle'[j] \cap orphans' = {}
    BY <2>2
  <2>10. \A p \in Ops : conn'[p] # Nothing => idle'[home'[p]] = {} /\ conn'[p] \notin orphans'
    BY <1>1, <2>3
  <2> QED BY <2>4, <2>5, <2>6, <2>7, <2>8, <2>9, <2>10 DEF PoolInv
<1>7. LockInv'
  <2>1. ASSUME NEW t \in Sessions, Open(t) PROVE Open(t)'
    <3>1. CASE t \in orphans \/ \E j \in Instances : t \in idle[j]
      BY <1>1, <1>3, <3>1 DEF Open
    <3>2. CASE \E p \in Ops : conn[p] = t
      <4>1. PICK p \in Ops : conn[p] = t
        BY <3>2
      <4>2. CASE home[p] = i
        <5>1. t \in InUse(i)
          BY <4>1, <4>2 DEF InUse
        <5> QED BY <1>1, <5>1 DEF Open
      <4>3. CASE home[p] # i
        BY <1>2, <4>1, <4>3 DEF Open
      <4> QED BY <4>2, <4>3
    <3> QED BY <2>1, <3>1, <3>2 DEF Open
  <2>2. ASSUME NEW j \in Instances, NEW t \in idle'[j], NEW l \in Keys, held[t][l] > 0
        PROVE  held[t][l] = 1 /\ \E p \in Ops : pc'[p] \in Holding /\ home[p] = j /\ key[p] = l
    <3>1. j # i /\ t \in idle[j]
      BY <1>3, <2>2
    <3>2. PICK p \in Ops : pc[p] \in Holding /\ home[p] = j /\ key[p] = l
      BY <2>2, <3>1 DEF LockInv
    <3>3. pc'[p] = pc[p]
      BY <1>2, <3>1, <3>2
    <3> QED BY <2>2, <3>1, <3>2, <3>3 DEF LockInv
  <2>3. ASSUME NEW p \in Ops, NEW l \in Keys, conn'[p] # Nothing, held[conn'[p]][l] > 0
        PROVE  held[conn'[p]][l] = 1 /\ pc'[p] = "unlocking" /\ key[p] = l
    <3>1. conn'[p] = conn[p] /\ pc'[p] = pc[p]
      BY <1>2, <2>3
    <3> QED BY <2>3, <3>1 DEF LockInv
  <2> QED BY <1>1, <2>1, <2>2, <2>3 DEF LockInv
<1>8. RunInv'
  <2>1. ASSUME faults = 0, NEW p \in Ops, pc'[p] = "running"
        PROVE  \E t \in idle'[home[p]] : held[t][key[p]] > 0
    <3>1. home[p] # i /\ pc[p] = "running"
      BY <1>2, <2>1
    <3>2. home[p] \in Instances
      BY <3>1 DEF StatementInv, Active
    <3> QED BY <1>3, <2>1, <3>1, <3>2 DEF RunInv
  <2> QED BY <1>1, <2>1 DEF RunInv
<1> QED BY <1>5, <1>6, <1>7, <1>8

\* The server ends a session that nobody is connected to, and its locks with it
LEMMA ReapStep ==
    ASSUME LocalMutex, Inv, NEW s \in Sessions, Reap(s)
    PROVE  StatementInv' /\ SerialInv' /\ PoolInv' /\ LockInv' /\ RunInv'
<1> USE LockAssumption DEF Inv
<1>1. /\ s \in orphans /\ orphans' = orphans \ {s} /\ held' = [held EXCEPT ![s] = NoLocks]
      /\ UNCHANGED <<pc, home, key, conn, idle, closed, faults>>
  BY DEF Reap, opVars
<1>2. \A t \in Sessions, l \in Keys : held'[t][l] = IF t = s THEN 0 ELSE held[t][l]
  BY <1>1 DEF NoLocks, TypeOK
<1>3. (\A j \in Instances : s \notin idle[j]) /\ \A p \in Ops : conn[p] # s
  BY <1>1 DEF PoolInv
<1>4. StatementInv' /\ SerialInv' /\ PoolInv'
  BY <1>1 DEF StatementInv, SerialInv, PoolInv, Active
<1>5. \A j \in Instances : \A t \in idle[j], l \in Keys : held'[t][l] = held[t][l]
  BY <1>2, <1>3 DEF TypeOK
<1>6. LockInv'
  <2>1. ASSUME NEW t \in Sessions, ~Open(t)' PROVE \A l \in Keys : held'[t][l] = 0
    <3>1. t = s \/ ~Open(t)
      BY <1>1, <2>1 DEF Open
    <3> QED BY <1>2, <3>1 DEF LockInv
  <2>2. ASSUME NEW t \in Sessions, NEW u \in Sessions, NEW l \in Keys,
               held'[t][l] > 0, held'[u][l] > 0
        PROVE  t = u
    BY <1>2, <2>2 DEF LockInv
  <2>3. ASSUME NEW j \in Instances, NEW t \in idle'[j], NEW l \in Keys, held'[t][l] > 0
        PROVE  held'[t][l] = 1 /\ \E p \in Ops : pc'[p] \in Holding /\ home'[p] = j /\ key'[p] = l
    BY <1>1, <1>5, <2>3 DEF LockInv
  <2>4. ASSUME NEW p \in Ops, NEW l \in Keys, conn'[p] # Nothing, held'[conn'[p]][l] > 0
        PROVE  held'[conn'[p]][l] = 1 /\ pc'[p] = "unlocking" /\ key'[p] = l
    <3>1. conn'[p] = conn[p] /\ conn[p] \in Sessions /\ conn[p] # s
      BY <1>1, <1>3, <2>4 DEF TypeOK
    <3> QED BY <1>1, <1>2, <2>4, <3>1 DEF LockInv
  <2> QED BY <2>1, <2>2, <2>3, <2>4 DEF LockInv
<1>7. RunInv'
  <2>1. ASSUME faults = 0, NEW p \in Ops, pc[p] = "running"
        PROVE  \E t \in idle[home[p]] : held'[t][key[p]] > 0
    <3>1. home[p] \in Instances /\ key[p] \in Keys
      BY <2>1 DEF StatementInv, Active
    <3> QED BY <1>5, <2>1, <3>1 DEF RunInv
  <2> QED BY <1>1, <2>1 DEF RunInv
<1> QED BY <1>4, <1>6, <1>7

\* An operation waits for one statement at a time, whatever happens
LEMMA StatementStep ==
    ASSUME TypeOK, StatementInv, [Next]_vars
    PROVE  StatementInv'
<1> USE LockAssumption DEF TypeOK, StatementInv, Active
<1>1. ASSUME NEW o \in Ops, Operation(o) PROVE StatementInv'
  <2>1. ASSUME NEW i \in Instances, NEW k \in Keys, Begin(o, i, k) PROVE StatementInv'
    BY <2>1 DEF Begin
  <2>2. CASE CheckOut(o)
    BY <2>2 DEF CheckOut
  <2>3. CASE TryLock(o)
    BY <2>3 DEF TryLock, Return
  <2>4. CASE Finish(o)
    BY <2>4 DEF Finish
  <2>5. CASE Unlock(o)
    BY <2>5 DEF Unlock, Return
  <2>6. CASE StatementFails(o)
    BY <2>6 DEF StatementFails
  <2>7. CASE PoolClosed(o)
    BY <2>7 DEF PoolClosed
  <2> QED BY <1>1, <2>1, <2>2, <2>3, <2>4, <2>5, <2>6, <2>7 DEF Operation
<1>2. ASSUME NEW i \in Instances, LoseIdle(i) \/ Terminate(i) \/ Exit(i) PROVE StatementInv'
  BY <1>2 DEF LoseIdle, Terminate, Exit, opVars
<1>3. ASSUME NEW s \in Sessions, Reap(s) PROVE StatementInv'
  BY <1>3 DEF Reap, opVars
<1>4. CASE UNCHANGED vars
  BY <1>4 DEF vars, opVars
<1> QED BY <1>1, <1>2, <1>3, <1>4 DEF Next

\* Every step keeps the invariant
LEMMA InvStep ==
    ASSUME LocalMutex, Inv, [Next]_vars
    PROVE  Inv'
<1>1. TypeOK'
  BY TypeStep DEF Inv
<1>2. StatementInv' /\ SerialInv' /\ PoolInv' /\ LockInv' /\ RunInv'
  <2>1. ASSUME NEW o \in Ops, NEW i \in Instances, NEW k \in Keys, Begin(o, i, k)
        PROVE  StatementInv' /\ SerialInv' /\ PoolInv' /\ LockInv' /\ RunInv'
    BY <2>1, BeginStep
  <2>2. ASSUME NEW o \in Ops, CheckOut(o)
        PROVE  StatementInv' /\ SerialInv' /\ PoolInv' /\ LockInv' /\ RunInv'
    BY <2>2, CheckOutStep
  <2>3. ASSUME NEW o \in Ops, TryLock(o)
        PROVE  StatementInv' /\ SerialInv' /\ PoolInv' /\ LockInv' /\ RunInv'
    BY <2>3, TryLockStep
  <2>4. ASSUME NEW o \in Ops, Finish(o)
        PROVE  StatementInv' /\ SerialInv' /\ PoolInv' /\ LockInv' /\ RunInv'
    BY <2>4, FinishStep
  <2>5. ASSUME NEW o \in Ops, Unlock(o)
        PROVE  StatementInv' /\ SerialInv' /\ PoolInv' /\ LockInv' /\ RunInv'
    BY <2>5, UnlockStep
  <2>6. ASSUME NEW o \in Ops, StatementFails(o)
        PROVE  StatementInv' /\ SerialInv' /\ PoolInv' /\ LockInv' /\ RunInv'
    BY <2>6, StatementFailsStep
  <2>7. ASSUME NEW o \in Ops, PoolClosed(o)
        PROVE  StatementInv' /\ SerialInv' /\ PoolInv' /\ LockInv' /\ RunInv'
    BY <2>7, PoolClosedStep
  <2>8. ASSUME NEW i \in Instances, LoseIdle(i) \/ Terminate(i) \/ Exit(i)
        PROVE  StatementInv' /\ SerialInv' /\ PoolInv' /\ LockInv' /\ RunInv'
    BY <2>8, LoseIdleStep, TerminateStep, ExitStep
  <2>9. ASSUME NEW s \in Sessions, Reap(s)
        PROVE  StatementInv' /\ SerialInv' /\ PoolInv' /\ LockInv' /\ RunInv'
    BY <2>9, ReapStep
  <2>10. CASE UNCHANGED vars
    BY <2>10 DEF vars, opVars, Inv, StatementInv, SerialInv, PoolInv, LockInv, RunInv, Active, Open
  <2> QED BY <2>1, <2>2, <2>3, <2>4, <2>5, <2>6, <2>7, <2>8, <2>9, <2>10 DEF Next, Operation
<1> QED BY <1>1, <1>2 DEF Inv

-----------------------------------------------------------------------------
(* The theorems.                                                           *)

\* Every reachable state has the type the variables are declared with, jobs
\* that overlap included: in particular no unlock takes a count below zero
THEOREM TypeCorrect == Spec => []TypeOK
<1>1. Init => TypeOK /\ StatementInv
  BY InvInit DEF Inv
<1>2. TypeOK /\ StatementInv /\ [Next]_vars => (TypeOK /\ StatementInv)'
  BY TypeStep, StatementStep
<1> QED BY <1>1, <1>2, PTL DEF Spec

\* For every number of processes and sessions and every pool size: two backups
\* (or two restores) never run at the same time, unless a connection was lost
\* under one or a process closed its pool while it ran
THEOREM AtMostOneRun == LocalMutex => (Spec => []OneRunPerKey)
<1> SUFFICES ASSUME LocalMutex PROVE Spec => []OneRunPerKey
  OBVIOUS
<1>1. Inv /\ [Next]_vars => Inv'
  BY InvStep
<1>2. ASSUME Inv PROVE OneRunPerKey
  <2>1. SUFFICES ASSUME faults = 0, NEW o \in Ops, NEW p \in Ops,
                        pc[o] = "running", pc[p] = "running", key[o] = key[p]
                 PROVE  o = p
    BY DEF OneRunPerKey
  <2>2. /\ home[o] \in Instances /\ home[p] \in Instances /\ key[o] \in Keys
        /\ Active(o) /\ Active(p)
    BY <1>2, <2>1 DEF Inv, StatementInv, Active
  <2>3. PICK s \in idle[home[o]] : held[s][key[o]] > 0
    BY <1>2, <2>1 DEF Inv, RunInv
  <2>4. PICK t \in idle[home[p]] : held[t][key[o]] > 0
    BY <1>2, <2>1 DEF Inv, RunInv
  <2>5. s \in Sessions /\ t \in Sessions
    BY <1>2, <2>2, <2>3, <2>4 DEF Inv, TypeOK
  <2>6. s = t
    BY <1>2, <2>2, <2>3, <2>4, <2>5 DEF Inv, LockInv
  <2>7. home[o] = home[p]
    BY <1>2, <2>2, <2>3, <2>4, <2>6 DEF Inv, PoolInv
  <2> QED BY <1>2, <2>2, <2>7 DEF Inv, SerialInv
<1> QED BY InvInit, <1>1, <1>2, PTL DEF Spec

\* A backup or restore that returns leaves no lock in the pool of its process,
\* whatever connections were lost and whichever processes were stopped
THEOREM NoLockLeftBehind == LocalMutex => (Spec => []ReleasedOnReturn)
<1> SUFFICES ASSUME LocalMutex PROVE Spec => []ReleasedOnReturn
  OBVIOUS
<1>1. Inv /\ [Next]_vars => Inv'
  BY InvStep
<1>2. Inv => ReleasedOnReturn
  BY DEF Inv, LockInv, ReleasedOnReturn, Holding, Active
<1> QED BY InvInit, <1>1, <1>2, PTL DEF Spec
-----------------------------------------------------------------------------
(* The refinement.                                                         *)

\* undisturbed, the lock of a running operation is held by an idle session
LEMMA RunnersHold ==
    ASSUME Inv, faults = 0, NEW k \in Keys, NEW o \in Running[k]
    PROVE  /\ o \in Ops /\ pc[o] = "running" /\ key[o] = k
           /\ \E i \in Instances : \E s \in idle[i] : s \in Sessions /\ held[s][k] > 0
<1>1. o \in Ops /\ pc[o] = "running" /\ key[o] = k
  BY DEF Running
<1>2. home[o] \in Instances
  BY <1>1 DEF Inv, StatementInv, Active
<1>3. PICK s \in idle[home[o]] : held[s][k] > 0
  BY <1>1 DEF Inv, RunInv
<1>4. s \in Sessions
  BY <1>2, <1>3 DEF Inv, TypeOK
<1> QED BY <1>1, <1>2, <1>3, <1>4

\* steps in which no operation begins or ends to run, and no lock changes hands
LEMMA Stutters ==
    ASSUME UNCHANGED held,
           \A p \in Ops : pc[p] = "running" \/ pc'[p] = "running" => pc'[p] = pc[p] /\ key'[p] = key[p]
    PROVE  UNCHANGED <<Running, Taken>>
<1>1. \A k \in Keys : {p \in Ops : pc'[p] = "running" /\ key'[p] = k}
                    = {p \in Ops : pc[p] = "running" /\ key[p] = k}
  OBVIOUS
<1>2. Running' = Running
  BY <1>1 DEF Running
<1> QED BY <1>2 DEF Taken

\* A lock that is taken admits one run to the abstract specification, or nothing happens there
LEMMA TryLockAdmits ==
    ASSUME Inv, faults = 0, NEW o \in Ops, TryLock(o)
    PROVE  Runs!Admit(o, key[o]) \/ UNCHANGED <<Running, Taken>>
<1> USE LockAssumption
<1> DEFINE s == conn[o]
           k == key[o]
           table == Locked(s, k)
<1>1. /\ pc[o] = "trying" /\ Return(o, table)
      /\ pc' = [pc EXCEPT ![o] = IF Granted(s, k) THEN "running" ELSE "idle"]
      /\ UNCHANGED <<home, key, orphans, closed, faults>>
  BY DEF TryLock
<1>2. conn[o] # Nothing /\ home[o] \in Instances /\ k \in Keys /\ s \in Sessions
  BY <1>1 DEF Inv, StatementInv, Active, TypeOK
<1>3. table \in [Sessions -> [Keys -> Nat]]
  BY <1>2 DEF Inv, TypeOK, Locked
<1>4. closed = {}
  BY DEF Inv, RunInv
<1>5. held' = table
  BY <1>1, <1>2, <1>3, <1>4, ReturnEffect
<1>6. \A p \in Ops : pc'[p] = IF p = o THEN (IF Granted(s, k) THEN "running" ELSE "idle") ELSE pc[p]
  BY <1>1 DEF Inv, TypeOK
<1>7. CASE Granted(s, k)
  <2>1. held[s][k] = 0
    BY <1>1, <1>2 DEF Inv, LockInv, TypeOK
  <2>2. k \notin Taken
    BY <1>7, <2>1, <1>2 DEF Granted, Taken
  <2>3. \A t \in Sessions, l \in Keys :
          held'[t][l] = IF t = s /\ l = k THEN 1 ELSE held[t][l]
    BY <1>2, <1>5, <1>7, <2>1 DEF Inv, TypeOK, Locked
  <2>4. Taken' = Taken \cup {k}
    BY <1>2, <2>3 DEF Taken
  <2>5. \A l \in Keys : Running'[l] = IF l = k THEN Running[l] \cup {o} ELSE Running[l]
    <3>1. ASSUME NEW l \in Keys
          PROVE  {p \in Ops : pc'[p] = "running" /\ key'[p] = l}
                 = IF l = k THEN {p \in Ops : pc[p] = "running" /\ key[p] = l} \cup {o}
                   ELSE {p \in Ops : pc[p] = "running" /\ key[p] = l}
      BY <1>1, <1>6, <1>7
    <3> QED BY <3>1 DEF Running
  <2>6. Running' = [Running EXCEPT ![k] = @ \cup {o}]
    BY <1>2, <2>5 DEF Running
  <2> QED BY <2>2, <2>4, <2>6 DEF Runs!Admit
<1>8. CASE ~Granted(s, k)
  BY <1>1, <1>5, <1>6, <1>8, Stutters DEF Locked
<1> QED BY <1>7, <1>8

\* Unlocking frees one key of the abstract specification, or nothing happens there
LEMMA UnlockFrees ==
    ASSUME Inv, faults = 0, NEW o \in Ops, Unlock(o)
    PROVE  Runs!Free({key[o]}) \/ UNCHANGED <<Running, Taken>>
<1> USE LockAssumption
<1> DEFINE s == conn[o]
           k == key[o]
           table == Unlocked(s, k)
<1>1. /\ pc[o] = "unlocking" /\ Return(o, table) /\ pc' = [pc EXCEPT ![o] = "idle"]
      /\ UNCHANGED <<home, key, orphans, closed, faults>>
  BY DEF Unlock
<1>2. conn[o] # Nothing /\ home[o] \in Instances /\ k \in Keys /\ s \in Sessions
  BY <1>1 DEF Inv, StatementInv, Active, TypeOK
<1>3. table \in [Sessions -> [Keys -> Nat]]
  BY <1>2 DEF Inv, TypeOK, Unlocked
<1>4. closed = {}
  BY DEF Inv, RunInv
<1>5. held' = table
  BY <1>1, <1>2, <1>3, <1>4, ReturnEffect
<1>6. \A p \in Ops : pc'[p] = IF p = o THEN "idle" ELSE pc[p]
  BY <1>1 DEF Inv, TypeOK
<1>7. CASE held[s][k] > 0
  <2>1. held[s][k] = 1
    BY <1>2, <1>7 DEF Inv, LockInv
  <2>2. \A t \in Sessions, l \in Keys :
          held'[t][l] = IF t = s /\ l = k THEN 0 ELSE held[t][l]
    BY <1>2, <1>5, <1>7, <2>1 DEF Inv, TypeOK, Unlocked
  <2>3. \A t \in Sessions : held[t][k] > 0 => t = s
    BY <1>2, <1>7 DEF Inv, LockInv
  <2>4. Taken' = Taken \ {k}
    BY <1>2, <2>2, <2>3 DEF Taken
  <2>5. Running[k] = {}
    <3>1. ASSUME NEW p \in Running[k] PROVE FALSE
      <4>1. PICK i \in Instances : \E t \in idle[i] : t \in Sessions /\ held[t][k] > 0
        BY <1>2, <3>1, RunnersHold
      <4> QED BY <2>3, <4>1 DEF Inv, PoolInv
    <3> QED BY <3>1
  <2>6. Running' = Running
    <3>1. \A l \in Keys : {p \in Ops : pc'[p] = "running" /\ key'[p] = l}
                        = {p \in Ops : pc[p] = "running" /\ key[p] = l}
      BY <1>1, <1>6
    <3> QED BY <3>1 DEF Running
  <2> QED BY <2>4, <2>5, <2>6 DEF Runs!Free
<1>8. CASE ~(held[s][k] > 0)
  BY <1>1, <1>5, <1>6, <1>8, Stutters DEF Unlocked
<1> QED BY <1>7, <1>8

\* Operations that leave the running ones end their runs in the abstract specification
LEMMA EndsRun ==
    ASSUME NEW S \in SUBSET Ops, UNCHANGED <<held, key>>,
           \A p \in Ops : pc'[p] = "running" <=> pc[p] = "running" /\ p \notin S
    PROVE  Runs!End(S)
<1>1. \A k \in Keys : {p \in Ops : pc'[p] = "running" /\ key'[p] = k}
                    = {p \in Ops : pc[p] = "running" /\ key[p] = k} \ S
  OBVIOUS
<1>2. Running' = [k \in Keys |-> Running[k] \ S]
  BY <1>1 DEF Running
<1> QED BY <1>2 DEF Runs!End, Taken

\* Ending a session frees the keys it holds in the abstract specification
LEMMA ReapFrees ==
    ASSUME Inv, faults = 0, NEW s \in Sessions, Reap(s)
    PROVE  \E K \in SUBSET Keys : Runs!Free(K)
<1> DEFINE K == {k \in Keys : held[s][k] > 0}
<1>1. /\ s \in orphans /\ held' = [held EXCEPT ![s] = NoLocks]
      /\ UNCHANGED <<pc, home, key>>
  BY DEF Reap, opVars
<1>2. \A t \in Sessions, l \in Keys : held'[t][l] = IF t = s THEN 0 ELSE held[t][l]
  BY <1>1 DEF NoLocks, Inv, TypeOK
<1>3. \A t \in Sessions, l \in K : held[t][l] > 0 => t = s
  BY DEF Inv, LockInv
<1>4. Taken' = Taken \ K
  BY <1>2, <1>3 DEF Taken
<1>5. ASSUME NEW k \in K PROVE Running[k] = {}
  <2>1. ASSUME NEW p \in Running[k] PROVE FALSE
    <3>1. PICK i \in Instances : \E t \in idle[i] : t \in Sessions /\ held[t][k] > 0
      BY <2>1, RunnersHold
    <3> QED BY <1>1, <1>3, <3>1 DEF Inv, PoolInv
  <2> QED BY <2>1
<1>6. Running' = Running
  BY <1>1 DEF Running
<1>7. Runs!Free(K)
  BY <1>4, <1>5, <1>6 DEF Runs!Free
<1> QED BY <1>7

\* Undisturbed, a step of the sessions and processes is one of the plain lock or none
LEMMA QuietStep ==
    ASSUME LocalMutex, Inv, [Next]_vars, faults = 0, faults' = 0
    PROVE  \/ \E o \in Ops, k \in Keys : Runs!Admit(o, k)
           \/ \E S \in SUBSET Ops : Runs!End(S)
           \/ \E K \in SUBSET Keys : Runs!Free(K)
           \/ UNCHANGED <<Running, Taken>>
<1> DEFINE Goal == \/ \E o \in Ops, k \in Keys : Runs!Admit(o, k)
                   \/ \E S \in SUBSET Ops : Runs!End(S)
                   \/ \E K \in SUBSET Keys : Runs!Free(K)
                   \/ UNCHANGED <<Running, Taken>>
<1>1. ASSUME NEW o \in Ops, Operation(o) PROVE Goal
  <2>1. Active(o) => key[o] \in Keys
    BY DEF Inv, StatementInv
  <2>2. ASSUME NEW i \in Instances, NEW k \in Keys, Begin(o, i, k) PROVE Goal
    <3>1. \A p \in Ops : pc[p] = "running" \/ pc'[p] = "running" =>
                           pc'[p] = pc[p] /\ key'[p] = key[p]
      BY <2>2 DEF Begin, Inv, TypeOK
    <3> QED BY <2>2, <3>1, Stutters DEF Begin
  <2>3. CASE CheckOut(o)
    <3>1. \A p \in Ops : pc[p] = "running" \/ pc'[p] = "running" =>
                           pc'[p] = pc[p] /\ key'[p] = key[p]
      BY <2>3 DEF CheckOut, Inv, TypeOK
    <3> QED BY <2>3, <3>1, Stutters DEF CheckOut
  <2>4. CASE TryLock(o)
    <3>1. key[o] \in Keys
      BY <2>1, <2>4 DEF TryLock, Active
    <3> QED BY <2>4, <3>1, TryLockAdmits
  <2>5. CASE Finish(o)
    <3>1. \A p \in Ops : pc'[p] = "running" <=> pc[p] = "running" /\ p \notin {o}
      BY <2>5 DEF Finish, Inv, TypeOK
    <3>2. Runs!End({o})
      BY <2>5, <3>1, EndsRun DEF Finish
    <3> QED BY <3>2
  <2>6. CASE Unlock(o)
    <3>1. key[o] \in Keys
      BY <2>1, <2>6 DEF Unlock, Active
    <3> QED BY <2>6, <3>1, UnlockFrees
  <2>7. CASE StatementFails(o)
    BY <2>7 DEF StatementFails, Fault
  <2>8. CASE PoolClosed(o)
    BY <2>8 DEF PoolClosed, Inv, RunInv
  <2> QED BY <1>1, <2>2, <2>3, <2>4, <2>5, <2>6, <2>7, <2>8 DEF Operation
<1>2. ASSUME NEW i \in Instances, LoseIdle(i) \/ Terminate(i) PROVE Goal
  BY <1>2 DEF LoseIdle, Terminate, Fault
<1>3. ASSUME NEW i \in Instances, Exit(i) PROVE Goal
  <2> DEFINE S == {o \in Ops : home[o] = i}
  <2>1. \A p \in Ops : pc'[p] = "running" <=> pc[p] = "running" /\ p \notin S
    BY <1>3 DEF Exit
  <2>2. Runs!End(S)
    BY <1>3, <2>1, EndsRun DEF Exit
  <2> QED BY <2>2
<1>4. ASSUME NEW s \in Sessions, Reap(s) PROVE Goal
  BY <1>4, ReapFrees
<1>5. CASE UNCHANGED vars
  BY <1>5 DEF vars, opVars, Running, Taken
<1> QED BY <1>1, <1>2, <1>3, <1>4, <1>5 DEF Next

\* A step counts one fault at most
LEMMA FaultsCount ==
    ASSUME [Next]_vars
    PROVE  faults' = faults \/ faults' = faults + 1
<1>1. ASSUME NEW o \in Ops, Operation(o) PROVE faults' = faults \/ faults' = faults + 1
  BY <1>1 DEF Operation, Begin, CheckOut, TryLock, Finish, Unlock, StatementFails, PoolClosed, Fault
<1>2. ASSUME NEW i \in Instances, LoseIdle(i) \/ Terminate(i) \/ Exit(i)
      PROVE  faults' = faults \/ faults' = faults + 1
  BY <1>2 DEF LoseIdle, Terminate, Exit, Fault
<1>3. ASSUME NEW s \in Sessions, Reap(s) PROVE faults' = faults \/ faults' = faults + 1
  BY <1>3 DEF Reap
<1> QED BY <1>1, <1>2, <1>3 DEF Next, vars

\* For every number of processes, operations and sessions the advisory locks of a
\* pool implement the plain lock: up to the first lost connection or closed pool no
\* key is given away twice or taken back from an operation that runs
THEOREM LocksImplementRuns == LocalMutex => (Spec => LocksAreExclusive)
<1> SUFFICES ASSUME LocalMutex PROVE Spec => LocksAreExclusive
  OBVIOUS
<1>1. Inv /\ [Next]_vars => Inv'
  BY InvStep
<1>2. Init => Runs!Init
  BY DEF Init, Runs!Init, Running, Taken, NoLocks
<1>3. ASSUME Inv, Inv', [Next]_vars PROVE [Runs!Next]_<<Running, Taken, faults > 0>>
  <2>1. faults \in Nat /\ faults' \in Nat /\ (faults' = 0 => faults = 0)
    BY <1>3, FaultsCount DEF Inv, TypeOK
  <2>2. CASE faults' > 0
    <3>1. Running' \in [Keys -> SUBSET Ops] /\ Taken' \in SUBSET Keys
      BY DEF Running, Taken
    <3> QED BY <2>2, <3>1 DEF Runs!Next, Runs!Break
  <2>3. CASE faults = 0 /\ faults' = 0
    BY <1>3, <2>3, QuietStep DEF Runs!Next
  <2> QED BY <2>1, <2>2, <2>3
<1> QED BY InvInit, <1>1, <1>2, <1>3, PTL DEF Spec, LocksAreExclusive, Runs!Spec
=============================================================================
