---------------------------- MODULE HeartbeatLease ----------------------------
(***************************************************************************)
(* The timing of the heartbeat: heartbeatLoop renews the lease of its      *)
(* process, deletes the leases that have expired, and sleeps               *)
(* heartbeatInterval plus a random jitter.  All times are read from the    *)
(* database's clock (NOW()).  RealtimeBridge abstracts this module to a    *)
(* lease that expires only if its process stalls or is dead.               *)
(***************************************************************************)
EXTENDS Integers

CONSTANTS
    Instances,   \* processes
    Interval,    \* heartbeatInterval
    Jitter,      \* the largest jitter
    TTL,         \* heartbeatTTL
    Delay,       \* time a process may spend, awake, from one renewal to the next
    Unreliable,  \* processes whose renewal may fail
    MaxTime      \* bound on the clock

ASSUME TimingAssumption ==
    /\ Interval \in Nat /\ Jitter \in Nat /\ TTL \in Nat /\ Delay \in Nat
    /\ MaxTime \in Nat
    /\ Unreliable \subseteq Instances

\* The leases outlive a round that is as slow as it may be
ASSUME TTLCoversARound == Interval + Jitter + Delay <= TTL

VARIABLES
    now,         \* NOW()
    pc,          \* the step of each heartbeat loop
    wake,        \* when its time.After fires
    slack,       \* how long it may still be awake before it must have renewed
    registered,  \* the processes with a row in _realtime_channels
    validUntil,  \* valid_until of that row
    since        \* when each process started

vars == <<now, pc, wake, slack, registered, validUntil, since>>

Pc == {"off", "renew", "cleanup", "rest", "dead"}

TypeOK ==
    /\ now \in Nat
    /\ pc \in [Instances -> Pc]
    /\ wake \in [Instances -> Nat]
    /\ slack \in [Instances -> 0..Delay]
    /\ registered \subseteq Instances
    /\ validUntil \in [Instances -> Nat]
    /\ since \in [Instances -> Nat]

Init ==
    /\ now = 0
    /\ pc = [i \in Instances |-> "off"]
    /\ wake = [i \in Instances |-> 0]
    /\ slack = [i \in Instances |-> Delay]
    /\ registered = {}
    /\ validUntil = [i \in Instances |-> 0]
    /\ since = [i \in Instances |-> 0]

Running(i) == pc[i] \in {"renew", "cleanup", "rest"}
Awake(i) == Running(i) /\ now >= wake[i]

\* the serve hook starts the loop
Start(i) ==
    /\ pc[i] = "off"
    /\ pc' = [pc EXCEPT ![i] = "renew"]
    /\ wake' = [wake EXCEPT ![i] = now]
    /\ since' = [since EXCEPT ![i] = now]
    /\ UNCHANGED <<now, slack, registered, validUntil>>

\* heartbeat, first statement: valid_until = NOW() + heartbeatTTL
\* mutants: the old valid_until is kept on conflict; it is not set
Renewal_DoNothing(i) == IF i \in registered THEN validUntil[i] ELSE now + TTL
Renewal_Unset(i) == -1
Renewal(i) == now + TTL

Renew(i) ==
    /\ pc[i] = "renew" /\ Awake(i)
    /\ pc' = [pc EXCEPT ![i] = "cleanup"]
    /\ slack' = [slack EXCEPT ![i] = Delay]
    /\ registered' = registered \cup {i}
    /\ validUntil' = [validUntil EXCEPT ![i] = Renewal(i)]
    /\ UNCHANGED <<now, wake, since>>

\* ... which fails: heartbeat returns, and the loop sleeps all the same
RenewFails(i) ==
    /\ i \in Unreliable /\ pc[i] = "renew" /\ Awake(i)
    /\ pc' = [pc EXCEPT ![i] = "rest"]
    /\ slack' = [slack EXCEPT ![i] = Delay]
    /\ UNCHANGED <<now, wake, registered, validUntil, since>>

\* heartbeat, second statement: DELETE ... WHERE valid_until < NOW()
\* mutant: only the process' own lease
Expired_Own(i) == {j \in registered \cap {i} : validUntil[j] < now}
Expired(i) == {j \in registered : validUntil[j] < now}

Cleanup(i) ==
    /\ pc[i] = "cleanup"
    /\ pc' = [pc EXCEPT ![i] = "rest"]
    /\ registered' = registered \ Expired(i)
    /\ UNCHANGED <<now, wake, slack, validUntil, since>>

\* heartbeatLoop: time.After(heartbeatInterval + jitter)
Sleep(i) ==
    /\ pc[i] = "rest"
    /\ pc' = [pc EXCEPT ![i] = "renew"]
    /\ \E j \in 0..Jitter : wake' = [wake EXCEPT ![i] = now + Interval + j]
    /\ UNCHANGED <<now, slack, registered, validUntil, since>>

\* crash or termination: the row stays
Die(i) ==
    /\ Running(i)
    /\ pc' = [pc EXCEPT ![i] = "dead"]
    /\ UNCHANGED <<now, wake, slack, registered, validUntil, since>>

\* Time passes; a process that is awake uses up its slack, and no process is
\* slower than its slack allows
Tick ==
    /\ now < MaxTime
    /\ \A i \in Instances : Awake(i) => slack[i] > 0
    /\ now' = now + 1
    /\ slack' = [i \in Instances |-> IF Awake(i) THEN slack[i] - 1 ELSE slack[i]]
    /\ UNCHANGED <<pc, wake, registered, validUntil, since>>

Next ==
    \/ \E i \in Instances :
         Start(i) \/ Renew(i) \/ RenewFails(i) \/ Cleanup(i) \/ Sleep(i) \/ Die(i)
    \/ Tick

Spec == Init /\ [][Next]_vars

-----------------------------------------------------------------------------
(* Properties.                                                             *)

\* The cleanup of one process never takes the lease of another that is running
\* and whose renewals succeed, however the rounds of the two fall
LiveLeasesStay ==
    [][\A i \in registered \ Unreliable : Running(i) => i \in registered']_vars

\* While one process keeps its heartbeat going, a lease that has run out is gone
\* after at most one more round of it: a dead process does not linger
ExpiredSoonSwept ==
    \A i \in Instances \ Unreliable, d \in registered :
        LET late(t) == now > t + Interval + Jitter + 2 * Delay IN
        Running(i) => ~(late(validUntil[d]) /\ late(since[i]))
=============================================================================
