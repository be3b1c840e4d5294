---------------------------- MODULE RequestHistory ----------------------------
(***************************************************************************)
(* The bridge with a history of the races among the requests of a client   *)
(* and the end of its connection, to say exactly which of them leave the   *)
(* database and the other processes with something else than what the      *)
(* client has subscribed to.                                               *)
(***************************************************************************)
EXTENDS RealtimeBridge

VARIABLES
    outdated,   \* clients one of whose requests was overtaken after its snapshot
    cutOff      \* clients whose connection ended before one of their upserts

history == <<outdated, cutOff>>
rvars == <<vars, history>>

RInit == Init /\ outdated = {} /\ cutOff = {}

\* a request broadcasts a snapshot that another request has made obsolete
Outdated(r) ==
    /\ req[r].pc \in {"snapped", "recorded", "stored", "marshalled"}
    /\ req[r].subs # subs[req[r].client]

\* a request is yet to store the row of a client that is being discarded
CutOff(r) ==
    req[r].pc \in {"applied", "snapped", "recorded"} /\ conn[req[r].client] # "open"

Watch ==
    /\ outdated' = outdated \cup {c \in Clients : \E r \in Requests : Outdated(r)' /\ req'[r].client = c}
    /\ cutOff' = cutOff \cup {c \in Clients : \E r \in Requests : CutOff(r)' /\ req'[r].client = c}

RNext == Next /\ Watch

RSpec == RInit /\ [][RNext]_rvars

-----------------------------------------------------------------------------
\* However its requests overlap, once they are over a connected client's row holds its
\* subscriptions, if none of them was overtaken between its snapshot and its NOTIFY and
\* no statement failed: an upsert that comes later never undoes a newer one otherwise.
RowIsCurrent ==
    "fail" \notin faults =>
        \A row \in rows : LET c == row.client IN
            conn[c] = "open" /\ Settled(c) /\ c \notin outdated => row.subs = subs[c]

\* A process keeps one remote client per notification it received; once it has
\* handled them all and the client's requests are over, the last one carries
\* the client's subscriptions: upserts are not overtaken on the way, if none was
\* lost with a connection or by a failed statement, or overtaken before it was sent.
NewestRemoteIsCurrent ==
    faults \cap {"break", "fail"} = {} =>
        \A i \in Instances : \A e \in remotes[i] :
            LET c == e.client IN
            /\ inbox[i] = <<>> /\ conn[c] = "open" /\ Settled(c) /\ c \notin outdated
            /\ \A f \in remotes[i] : f.client = c => f.id <= e.id
            => e.subs = subs[c]

\* A connection that has ended leaves no row behind while its process lives, whatever
\* stalls, breaks and dies, unless a statement failed or the connection ended under a
\* request that had not stored its row yet: nothing else brings a row back.
ClosedLeavesNoRow ==
    "fail" \notin faults =>
        \A row \in rows : LET c == row.client IN
            conn[c] = "closed" /\ Settled(c) => phase[home[c]] = "dead" \/ c \in cutOff

=============================================================================
