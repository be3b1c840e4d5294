---------------------------- MODULE OfflineHistory ----------------------------
(***************************************************************************)
(* The bridge with a history of the channel_offline broadcasts, to say     *)
(* what the processes remember of a dead channel after one.                *)
(***************************************************************************)
EXTENDS RealtimeBridge

VARIABLE declared   \* <<ch, i>>: process i broadcast that the dead channel ch is offline

HInit == Init /\ declared = {}

\* process i broadcasts that the dead channel ch is offline
Declares(i, ch) ==
    phase[ch] = "dead" /\ NotifyOffline(i) /\ ch \in offline[i] \ offline'[i]

HNext ==
    /\ Next
    /\ declared' = declared \cup {p \in Instances \X Instances : Declares(p[2], p[1])}

HSpec == HInit /\ [][HNext]_<<vars, declared>>

HFairSpec == HSpec /\ Fairness

\* process i has handled the broadcasts that reached it
CaughtUp(i) == inbox[i] = <<>>

\* Once a dead channel has been broadcast offline, every other process that has
\* caught up holds none of its remote clients, and none comes back: a late
\* subscription_upsert of the dead process cannot follow the broadcast.  The
\* broadcast itself may be lost with the connection of a listener.
BystandersForget ==
    "break" \notin faults =>
        \A d, k \in Instances : <<d, k>> \in declared =>
            \A i \in Instances \ {k} :
                CaughtUp(i) => \A e \in remotes[i] : e.chan # d
=============================================================================
