------------------------ MODULE HeartbeatLease_proofs ------------------------
(***************************************************************************)
(* TLAPS proofs that the cleanup spares every running process and sweeps   *)
(* every lease that has run out in time, for all times that satisfy        *)
(* TTLCoversARound and any number of processes.                            *)
(***************************************************************************)
EXTENDS HeartbeatLease, TLAPS

Reliable == Instances \ Unreliable

\* what is left of the TTL when a round took as long as it may
Reserve == TTL - Interval - Jitter - Delay

\* A process that has not started has no lease; a running one has a lease that
\* covers the rest of its round, and of its sleep
LeaseCovers(i) ==
    /\ pc[i] = "off" => i \notin registered
    /\ pc[i] \in {"cleanup", "rest"} =>
         now >= wake[i] /\ (i \in registered => validUntil[i] >= now + TTL - Delay + slack[i])
    /\ pc[i] = "renew" /\ i \in registered =>
         /\ validUntil[i] >= wake[i] + slack[i] + Reserve
         /\ now >= wake[i] => validUntil[i] >= now + slack[i] + Reserve

LeaseInv == TypeOK /\ \A i \in Reliable : LeaseCovers(i)

\* The clock leaves the reserve untouched
LEMMA TickCovers ==
    ASSUME LeaseInv, Tick
    PROVE  LeaseInv'
<1> USE TimingAssumption, TTLCoversARound
<1>1. TypeOK'
  <2>1. slack' \in [Instances -> 0..Delay]
    BY DEF LeaseInv, TypeOK, Tick
  <2> QED BY <2>1 DEF LeaseInv, TypeOK, Tick
<1>2. ASSUME NEW i \in Reliable PROVE LeaseCovers(i)'
  <2>1. i \in Instances /\ LeaseCovers(i) /\ slack[i] \in 0..Delay /\ wake[i] \in Nat
        /\ validUntil[i] \in Nat /\ now \in Nat
    BY DEF LeaseInv, Reliable, TypeOK
  <2>2. now' = now + 1 /\ UNCHANGED <<pc, wake, registered, validUntil>>
        /\ slack'[i] = IF Awake(i) THEN slack[i] - 1 ELSE slack[i]
    BY <2>1 DEF Tick
  <2>3. CASE pc[i] \in {"cleanup", "rest"}
    <3>1. Awake(i)
      BY <2>1, <2>3 DEF Awake, Running, LeaseCovers
    <3> QED BY <2>1, <2>2, <2>3, <3>1 DEF LeaseCovers
  <2>4. CASE pc[i] = "renew"
    <3>1. CASE now >= wake[i]
      <4>1. Awake(i)
        BY <2>4, <3>1 DEF Awake, Running
      <4> QED BY <2>1, <2>2, <2>4, <3>1, <4>1 DEF LeaseCovers, Reserve
    <3>2. CASE ~(now >= wake[i])
      <4>1. ~Awake(i)
        BY <3>2 DEF Awake
      <4> QED BY <2>1, <2>2, <2>4, <3>2, <4>1 DEF LeaseCovers, Reserve
    <3> QED BY <3>1, <3>2
  <2>5. CASE pc[i] \notin {"cleanup", "rest", "renew"}
    BY <2>1, <2>2, <2>5 DEF LeaseCovers
  <2> QED BY <2>3, <2>4, <2>5
<1> QED BY <1>1, <1>2 DEF LeaseInv

\* So does every step of a process
LEMMA StepCovers ==
    ASSUME LeaseInv, NEW i \in Instances,
           Start(i) \/ Renew(i) \/ RenewFails(i) \/ Cleanup(i) \/ Sleep(i) \/ Die(i)
    PROVE  LeaseInv'
<1> USE TimingAssumption, TTLCoversARound DEF LeaseInv, TypeOK, Pc, Reliable
<1>1. CASE Start(i)
  BY <1>1 DEF Start, LeaseCovers
<1>2. CASE Renew(i)
  <2>1. TypeOK'
    BY <1>2 DEF Renew, Renewal
  <2>2. ASSUME NEW j \in Reliable PROVE LeaseCovers(j)'
    <3>1. CASE j = i
      BY <1>2, <3>1 DEF Renew, Renewal, Awake, LeaseCovers
    <3>2. CASE j # i
      BY <1>2, <3>2 DEF Renew, LeaseCovers
    <3> QED BY <3>1, <3>2
  <2> QED BY <2>1, <2>2
<1>3. CASE RenewFails(i)
  BY <1>3 DEF RenewFails, LeaseCovers
<1>4. CASE Cleanup(i)
  BY <1>4 DEF Cleanup, LeaseCovers
<1>5. CASE Sleep(i)
  <2>1. PICK j \in 0..Jitter : wake' = [wake EXCEPT ![i] = now + Interval + j]
    BY <1>5 DEF Sleep
  <2>2. TypeOK'
    BY <1>5, <2>1 DEF Sleep
  <2>3. ASSUME NEW k \in Reliable PROVE LeaseCovers(k)'
    <3>1. CASE k = i
      BY <1>5, <2>1, <3>1 DEF Sleep, LeaseCovers, Reserve
    <3>2. CASE k # i
      BY <1>5, <2>1, <3>2 DEF Sleep, LeaseCovers
    <3> QED BY <3>1, <3>2
  <2> QED BY <2>2, <2>3
<1>6. CASE Die(i)
  BY <1>6 DEF Die, LeaseCovers
<1> QED BY <1>1, <1>2, <1>3, <1>4, <1>5, <1>6

\* The lease of a process whose renewals succeed reaches beyond its next one: the inductive invariant
THEOREM LeaseInvariant == Spec => []LeaseInv
<1>1. Init => LeaseInv
  BY TimingAssumption DEF Init, LeaseInv, LeaseCovers, TypeOK, Pc, Reliable
<1>2. LeaseInv /\ [Next]_vars => LeaseInv'
  <2> SUFFICES ASSUME LeaseInv, [Next]_vars PROVE LeaseInv'
    OBVIOUS
  <2>1. CASE Next
    BY <2>1, TickCovers, StepCovers DEF Next
  <2>2. CASE UNCHANGED vars
    BY <2>2 DEF vars, LeaseInv, LeaseCovers, TypeOK, Reserve
  <2> QED BY <2>1, <2>2
<1> QED BY <1>1, <1>2, PTL DEF Spec

\* No cleanup, whoever runs it and whenever it falls, takes the lease of a
\* process that runs and whose renewals succeed
THEOREM RunningProcessesKeepTheirLease == Spec => LiveLeasesStay
<1> USE TimingAssumption, TTLCoversARound
<1> DEFINE A == \A i \in registered \ Unreliable : Running(i) => i \in registered'
<1>1. LeaseInv /\ [Next]_vars => [A]_vars
  <2> SUFFICES ASSUME LeaseInv, Next, NEW i \in registered \ Unreliable, Running(i)
               PROVE  i \in registered'
    BY DEF A
  <2>1. i \in Reliable /\ i \in Instances /\ LeaseCovers(i)
    BY DEF LeaseInv, TypeOK, Reliable
  <2>2. ASSUME NEW j \in Instances, Cleanup(j) PROVE i \in registered'
    <3>1. validUntil[i] >= now
      BY <2>1 DEF LeaseCovers, Running, LeaseInv, TypeOK, Reserve
    <3>2. i \notin Expired(j)
      BY <2>1, <3>1 DEF Expired, LeaseInv, TypeOK
    <3> QED BY <2>2, <3>2 DEF Cleanup
  <2>3. CASE registered \subseteq registered'
    BY <2>3
  <2> QED BY <2>2, <2>3 DEF Next, Start, Renew, RenewFails, Sleep, Die, Tick
<1> QED BY <1>1, LeaseInvariant, PTL DEF Spec, LiveLeasesStay

-----------------------------------------------------------------------------
(***************************************************************************)
(* Leases that have run out.                                               *)
(***************************************************************************)

\* Every variable keeps its type
THEOREM TypeCorrect == Spec => []TypeOK
BY LeaseInvariant, PTL DEF LeaseInv

\* what a process may take, awake, for a step, after what came before it
Pause == Interval + Jitter

\* The last round of i fell no earlier than t, as far as its step, its time
\* to wake and its slack can tell
RoundSince(i, t) ==
    /\ pc[i] = "renew" => now + slack[i] <= t + Pause + Delay /\ wake[i] + slack[i] <= t + Pause + Delay
    /\ pc[i] = "cleanup" => now + slack[i] <= t + Pause + 2 * Delay
    /\ pc[i] = "rest" => now + slack[i] <= t + Delay

\* No process sleeps for longer than a pause
Wakes(i) == pc[i] = "renew" => wake[i] <= now + Pause

\* A lease has been renewed since the last round of i, or i has had none
SweptSince(i) ==
    \A d \in registered : RoundSince(i, validUntil[d]) \/ RoundSince(i, since[i])

SweepInv == LeaseInv /\ \A i \in Reliable : Wakes(i) /\ SweptSince(i)

\* A lease that is renewed now is younger than every round
LEMMA RenewedNow ==
    ASSUME TypeOK, NEW i \in Instances, Wakes(i)
    PROVE  RoundSince(i, now + TTL)
BY TimingAssumption DEF TypeOK, Wakes, RoundSince, Pause

\* Time passes only within the slack of a process that is awake, which its last round allows
LEMMA TickSweeps ==
    ASSUME SweepInv, Tick
    PROVE  SweepInv'
<1> USE TimingAssumption
<1> SUFFICES ASSUME NEW i \in Reliable PROVE Wakes(i)' /\ SweptSince(i)'
  BY TickCovers DEF SweepInv
<1>1. i \in Instances /\ slack[i] \in 0..Delay /\ wake[i] \in Nat /\ now \in Nat /\ since[i] \in Nat
      /\ Wakes(i) /\ SweptSince(i) /\ LeaseCovers(i) /\ \A d \in registered : validUntil[d] \in Nat
  BY DEF SweepInv, LeaseInv, Reliable, TypeOK
<1>2. now' = now + 1 /\ UNCHANGED <<pc, wake, registered, validUntil, since>>
      /\ slack'[i] = IF Awake(i) THEN slack[i] - 1 ELSE slack[i]
  BY <1>1 DEF Tick
<1>3. ASSUME NEW t \in Nat, RoundSince(i, t) PROVE RoundSince(i, t)'
  <2>1. CASE Awake(i)
    BY <1>1, <1>2, <1>3, <2>1 DEF RoundSince, Pause
  <2>2. CASE ~Awake(i) /\ pc[i] = "renew"
    <3>1. now + 1 <= wake[i]
      BY <1>1, <2>2 DEF Awake, Running
    <3> QED BY <1>1, <1>2, <1>3, <2>2, <3>1 DEF RoundSince, Pause
  <2>3. CASE ~Running(i)
    BY <1>2, <2>3 DEF RoundSince, Running
  <2>4. pc[i] \in {"cleanup", "rest"} => Awake(i)
    BY <1>1 DEF LeaseCovers, Awake, Running
  <2> QED BY <2>1, <2>2, <2>3, <2>4 DEF Running
<1>4. Wakes(i)'
  BY <1>1, <1>2 DEF Wakes, Pause
<1> QED BY <1>1, <1>2, <1>3, <1>4 DEF SweptSince

\* A process' own steps leave no lease behind that its last round should have swept
LEMMA StepSweeps ==
    ASSUME SweepInv, NEW i \in Instances,
           Start(i) \/ Renew(i) \/ RenewFails(i) \/ Cleanup(i) \/ Sleep(i) \/ Die(i)
    PROVE  SweepInv'
<1> USE TimingAssumption
<1> SUFFICES ASSUME NEW k \in Reliable PROVE Wakes(k)' /\ SweptSince(k)'
  BY StepCovers DEF SweepInv
<1>0. TypeOK /\ k \in Instances /\ k \notin Unreliable /\ slack[k] \in 0..Delay /\ wake[k] \in Nat
      /\ now \in Nat /\ since[k] \in Nat
      /\ Wakes(k) /\ SweptSince(k) /\ \A d \in registered : validUntil[d] \in Nat
  BY DEF SweepInv, LeaseInv, Reliable, TypeOK
<1>1. CASE Start(i)
  <2>1. CASE k = i
    <3>1. Wakes(k)' /\ RoundSince(k, since[k])'
      BY <1>0, <1>1, <2>1 DEF Start, Wakes, RoundSince, Pause, TypeOK
    <3> QED BY <3>1 DEF SweptSince
  <2>2. CASE k # i
    BY <1>0, <1>1, <2>2 DEF Start, Wakes, SweptSince, RoundSince, TypeOK
  <2> QED BY <2>1, <2>2
<1>2. CASE Renew(i)
  <2>1. Wakes(k)'
    BY <1>0, <1>2 DEF Renew, Wakes, TypeOK
  <2>2. ASSUME NEW t \in Nat, RoundSince(k, t) PROVE RoundSince(k, t)'
    BY <1>0, <1>2, <2>2 DEF Renew, RoundSince, Pause, TypeOK
  <2>3. RoundSince(k, now + TTL)'
    <3>1. RoundSince(k, now + TTL) /\ now + TTL \in Nat
      BY <1>0, RenewedNow
    <3> QED BY <1>2, <3>1, <2>2 DEF Renew
  <2>4. ASSUME NEW d \in registered' PROVE RoundSince(k, validUntil[d])' \/ RoundSince(k, since[k])'
    <3>1. d \in Instances /\ (d = i \/ d \in registered)
      BY <1>0, <1>2 DEF Renew, TypeOK
    <3>2. CASE d = i
      <4>1. validUntil'[d] = now + TTL
        BY <1>0, <1>2, <3>1, <3>2 DEF Renew, Renewal, TypeOK
      <4> QED BY <2>3, <4>1, <1>2 DEF Renew, RoundSince
    <3>3. CASE d # i
      <4>1. validUntil'[d] = validUntil[d] /\ since'[k] = since[k] /\ d \in registered
        BY <1>0, <1>2, <3>1, <3>3 DEF Renew, TypeOK
      <4>2. RoundSince(k, validUntil[d]) \/ RoundSince(k, since[k])
        BY <1>0, <4>1 DEF SweptSince
      <4> QED BY <1>0, <2>2, <4>1, <4>2 DEF RoundSince
    <3> QED BY <3>1, <3>2, <3>3
  <2> QED BY <2>1, <2>4 DEF SweptSince
<1>3. CASE RenewFails(i)
  BY <1>0, <1>3 DEF RenewFails, Wakes, SweptSince, RoundSince, TypeOK
<1>4. CASE Cleanup(i)
  <2>1. Wakes(k)' /\ registered' \subseteq registered /\ UNCHANGED <<now, wake, slack, validUntil, since>>
    BY <1>0, <1>4 DEF Cleanup, Wakes, TypeOK
  <2>2. CASE k = i
    <3>1. pc'[k] = "rest" /\ \A d \in registered' : validUntil[d] >= now
      BY <1>0, <1>4, <2>2 DEF Cleanup, Expired, TypeOK
    <3> QED BY <1>0, <2>1, <3>1 DEF SweptSince, RoundSince
  <2>3. CASE k # i
    <3>1. pc'[k] = pc[k]
      BY <1>4, <2>3 DEF Cleanup, TypeOK
    <3> QED BY <1>0, <2>1, <3>1 DEF SweptSince, RoundSince
  <2> QED BY <2>2, <2>3
<1>5. CASE Sleep(i)
  <2>1. PICK j \in 0..Jitter : wake' = [wake EXCEPT ![i] = now + Interval + j]
    BY <1>5 DEF Sleep
  <2>2. CASE k = i
    <3>1. pc[k] = "rest" /\ pc'[k] = "renew" /\ wake'[k] = now + Interval + j
          /\ UNCHANGED <<now, slack, registered, validUntil, since>>
      BY <1>0, <1>5, <2>1, <2>2 DEF Sleep, TypeOK
    <3>2. ASSUME NEW t \in Nat, RoundSince(k, t) PROVE RoundSince(k, t)'
      BY <1>0, <3>1, <3>2 DEF RoundSince, Pause
    <3>3. Wakes(k)'
      BY <1>0, <3>1 DEF Wakes, Pause
    <3> QED BY <1>0, <3>1, <3>2, <3>3 DEF SweptSince
  <2>3. CASE k # i
    BY <1>0, <1>5, <2>1, <2>3 DEF Sleep, Wakes, SweptSince, RoundSince, TypeOK
  <2> QED BY <2>2, <2>3
<1>6. CASE Die(i)
  BY <1>0, <1>6 DEF Die, Wakes, SweptSince, RoundSince, TypeOK
<1> QED BY <1>1, <1>2, <1>3, <1>4, <1>5, <1>6

\* While one process keeps its heartbeat going, no lease stays for more than a round
\* after it has run out
THEOREM ExpiredLeasesAreSwept == Spec => []ExpiredSoonSwept
<1>1. Init => SweepInv
  BY TimingAssumption DEF Init, SweepInv, LeaseInv, LeaseCovers, TypeOK, Pc, Reliable, Wakes, SweptSince
<1>2. SweepInv /\ [Next]_vars => SweepInv'
  <2>1. CASE UNCHANGED vars
    BY <2>1 DEF vars, SweepInv, LeaseInv, LeaseCovers, TypeOK, Reserve, Wakes, SweptSince, RoundSince
  <2> QED BY <2>1, TickSweeps, StepSweeps DEF Next
<1>3. SweepInv => ExpiredSoonSwept
  <2> SUFFICES ASSUME SweepInv, NEW i \in Reliable, NEW d \in registered, Running(i)
               PROVE  ~(/\ now > validUntil[d] + Interval + Jitter + 2 * Delay
                        /\ now > since[i] + Interval + Jitter + 2 * Delay)
    BY DEF ExpiredSoonSwept, Reliable
  <2>1. i \in Instances /\ now \in Nat /\ slack[i] \in 0..Delay /\ validUntil[d] \in Nat /\ since[i] \in Nat
    BY DEF SweepInv, LeaseInv, TypeOK, Reliable
  <2>2. RoundSince(i, validUntil[d]) \/ RoundSince(i, since[i])
    BY DEF SweepInv, SweptSince
  <2> QED BY <2>1, <2>2, TimingAssumption DEF RoundSince, Running, Pause
<1> QED BY <1>1, <1>2, <1>3, PTL DEF Spec
=============================================================================
