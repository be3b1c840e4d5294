----------------------------- MODULE BridgeDelivery -----------------------------
(***************************************************************************)
(* The bridge with the messages it is there for: an event that one process *)
(* broadcasts to its broker reaches the clients of the others through      *)
(* their remote clients and the direct channels.                           *)
(*                                                                         *)
(* Sources: Send of pgpb/bridged_client.go, SendViaBridge and              *)
(* listenDirectChannel of pgpb/bridge.go, handleDirectMessage and          *)
(* bindBridge of pgpb/pgpb.go.  An event is a number.                      *)
(***************************************************************************)
EXTENDS RequestHistory

CONSTANTS
    Signed,      \* clients that send a token with their requests
    MaxEvents    \* bound on the events

ASSUME DeliveryAssumption == Signed \subseteq Clients /\ MaxEvents \in Nat

VARIABLES
    direct,   \* is the direct channel of each process listened to
    queue,    \* notifications delivered to that session, not yet handled
    sends,    \* goroutines that are about to send to a remote client
    events,   \* events so far
    got,      \* how often each client got each event
    told      \* history, <<i, c>>: process i was sent a subscription_upsert of c

deliveryVars == <<direct, queue, sends, events, got, told>>
dvars == <<rvars, deliveryVars>>

DInit ==
    /\ RInit /\ told = {}
    /\ direct = [i \in Instances |-> FALSE] /\ queue = [i \in Instances |-> <<>>]
    /\ sends = {} /\ events = 0
    /\ got = [c \in Clients |-> [n \in 1..MaxEvents |-> 0]]

\* mutant: the hook does not wait for directReady
MayServe_Shared(i) == TRUE
\* the hook waits for directReady too
MayServe(i) == direct[i]

\* beside a step of the bridge: a process that ends takes its session and goroutines with it
Beside ==
    /\ direct' = [i \in Instances |-> direct[i] /\ phase'[i] # "dead"]
    /\ queue' = [i \in Instances |-> IF phase'[i] = "dead" THEN <<>> ELSE queue[i]]
    /\ sends' = {s \in sends : phase'[s.from] # "dead"}
    /\ told' = told \cup {p \in Instances \X Clients : listening[p[1]] /\
                 \E r \in Requests : NotifyUpsert(r) /\ req[r].client = p[2]}
    /\ UNCHANGED <<events, got>>

BridgeStep ==
    /\ RNext /\ Beside
    /\ \A i \in Instances : phase[i] = "starting" /\ phase'[i] = "serving" => MayServe(i)

ListenDirect(i) ==
    /\ Alive(i) /\ ~direct[i]
    /\ direct' = [direct EXCEPT ![i] = TRUE]
    /\ UNCHANGED <<rvars, queue, sends, events, got, told>>

BreakDirect(i) ==
    /\ direct[i] /\ Fault("break")
    /\ direct' = [direct EXCEPT ![i] = FALSE]
    /\ queue' = [queue EXCEPT ![i] = <<>>]
    /\ UNCHANGED <<phase, dbVars, listenVars, heartVars, brokerVars, clientVars, req,
                   history, sends, events, got, told>>

\* a client gets an event, if anybody still reads its channel
Receives(c, n) == IF conn[c] = "open" THEN [got EXCEPT ![c][n] = @ + 1] ELSE got

\* PocketBase checks the collection's rule for the record of the event with the auth of
\* the broker's client: everybody may see the record, or not without a token
Rules == {"public", "signed"}
MaySee(rule, auth) == rule = "signed" => auth # Nobody

\* PocketBase keeps the auth of a subscribe request in the client of its process
AuthOf(c) == IF c \in Signed THEN c ELSE Nobody

\* the clients of the broker that are subscribed, and that the rule allows, are sent
\* the event, each in a goroutine of its own; the broker files one remote client per
\* notification, so that a client may be there several times
Publish(i, t, rule) ==
    LET n == events + 1
        Mine == {c \in local[i] : t \in subs[c] /\ MaySee(rule, AuthOf(c))}
        Others == {e \in remotes[i] : t \in e.subs /\ MaySee(rule, e.auth)}
    IN
    /\ phase[i] = "serving" /\ n <= MaxEvents
    /\ events' = n
    /\ got' = [c \in Clients |-> IF c \in Mine THEN Receives(c, n)[c] ELSE got[c]]
    /\ sends' = sends \cup
         {[from |-> i, to |-> e.chan, client |-> e.client, id |-> e.id, event |-> n] : e \in Others}
    /\ UNCHANGED <<rvars, direct, queue, told>>

\* mutant: the shared channel's session is looked at
SendViaBridge_Anywhere(s) ==
    /\ s \in sends
    /\ sends' = sends \ {s}
    /\ queue' = [i \in Instances |-> IF direct[i] THEN Append(queue[i], s) ELSE queue[i]]
    /\ UNCHANGED <<rvars, direct, events, got, told>>
\* SendViaBridge: NOTIFY on the direct channel is lost if nobody listens there
SendViaBridge(s) ==
    /\ s \in sends
    /\ sends' = sends \ {s}
    /\ queue' = IF direct[s.to] THEN [queue EXCEPT ![s.to] = Append(@, s)] ELSE queue
    /\ UNCHANGED <<rvars, direct, events, got, told>>

\* the payload exceeds maxNotifyPayload, or the statement fails; Send only logs it
SendFails(s) ==
    /\ s \in sends /\ Fault("fail")
    /\ sends' = sends \ {s}
    /\ UNCHANGED <<phase, dbVars, listenVars, heartVars, brokerVars, clientVars, req,
                   history, direct, queue, events, got, told>>

\* handleDirectMessage: only a client of this process gets it.  A client whose
\* connection is ending does not read any more, and the listener waits in Send ...
HandleDirect(i) ==
    /\ queue[i] # <<>>
    /\ LET m == Head(queue[i]) IN
         /\ conn[m.client] \notin {"rowless", "announced"}
         /\ got' = IF m.client \in local[i] THEN Receives(m.client, m.event) ELSE got
    /\ queue' = [queue EXCEPT ![i] = Tail(@)]
    /\ UNCHANGED <<rvars, direct, sends, events, told>>

\* ... until the Discard closes the channel under it: the send panics, in a goroutine
\* that recovers nothing, and the process ends.  A Send that begins after the Discard
\* finds the client discarded or gone (Disconnected, then HandleDirect).
SendPanics(i) ==
    /\ queue[i] # <<>>
    /\ LET c == Head(queue[i]).client IN c \in local[i] /\ conn[c] = "announced"
    /\ Stop(i) /\ Watch /\ Beside

DNext ==
    \/ BridgeStep
    \/ \E i \in Instances : ListenDirect(i) \/ BreakDirect(i) \/ HandleDirect(i) \/ SendPanics(i)
    \/ \E i \in Instances, t \in Topics, rule \in Rules : Publish(i, t, rule)
    \/ \E s \in sends : SendViaBridge(s) \/ SendFails(s)

DSpec == DInit /\ [][DNext]_dvars

-----------------------------------------------------------------------------
\* the places of an event for a client in a queue
Waiting(s, c, n) == {k \in 1..Len(s) : s[k].client = c /\ s[k].event = n}

InQueue(c, n) == UNION {{i} \X Waiting(queue[i], c, n) : i \in Instances}

\* the copies of an event on their way to a client, and those it has got
Copies(c, n) ==
    got[c][n] + Cardinality({s \in sends : s.client = c /\ s.event = n}) + Cardinality(InQueue(c, n))

\* the requests of a client that have been announced
Notices(c) == Cardinality({r \in Requests : req[r].client = c /\ req[r].pc = "done"})

\* A client gets an event no more often than it has changed its subscriptions, once
\* if it did so once: no copy is sent round, and what two processes know of a client
\* does not add up (Send, handleDirectMessage, handleSharedMessage).
NoMoreCopiesThanNotices ==
    \A c \in Clients, n \in 1..MaxEvents :
        Copies(c, n) <= 1 \/ Copies(c, n) <= Notices(c)

AllRun(p) == \A i \in Instances : p[i] # "dead"

\* As long as nothing fails and no process ends, no copy is lost on the way to a client
\* that stays: whoever can be sent to listens, and the channel a remote client names is
\* the one where the client is found.
NoCopyIsLost ==
    [][\A c \in Clients, n \in 1..MaxEvents :
         faults' = {} /\ conn'[c] = "open" /\ AllRun(phase')
         => Copies(c, n)' >= Copies(c, n)]_dvars

\* the broker of the process has the client and lets it see the event: the process serves
\* the client, or was told of it while it listened and the record is open to guests
Serves(i, c, rule) ==
    \/ home[c] = i /\ MaySee(rule, AuthOf(c))
    \/ <<i, c>> \in told /\ rule = "public"

\* An event on a topic is sent to a connected client that subscribes to it, wherever the
\* client is, if the process that publishes it was once told of the client and has handled
\* what it was told: no later notification, delete or sweep has taken the client away, and
\* what the broker filed is what the client last asked for.  The rule of the collection is
\* checked with the client's auth in its own process, and for a guest in every other one.
SubscribersAreReached ==
    [][\A i \in Instances, t \in Topics, rule \in Rules : Publish(i, t, rule) =>
         \A c \in Clients, n \in 1..MaxEvents :
            (/\ n = events + 1 /\ faults = {} /\ inbox[i] = <<>> /\ AllRun(phase)
             /\ conn[c] = "open" /\ Settled(c) /\ c \notin outdated
             /\ t \in subs[c] /\ Serves(i, c, rule))
            => Copies(c, n)' >= 1]_dvars

=============================================================================
