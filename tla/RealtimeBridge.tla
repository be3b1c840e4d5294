---------------------------- MODULE RealtimeBridge ----------------------------
(***************************************************************************)
(* The multi-instance realtime bridge of pgpb: every PocketBase process    *)
(* keeps a lease in _realtime_channels, stores the subscriptions of its    *)
(* SSE clients in _realtime_clients, and tells the other processes with    *)
(* NOTIFY on one shared channel.  The others keep a remote client per      *)
(* notification in their subscriptions broker.                             *)
(*                                                                         *)
(* Sources: pgpb/bridge.go, pgpb/bridged_client.go, and bindBridge and     *)
(* handleSharedMessage of pgpb/pgpb.go.  An element of Instances is one    *)
(* incarnation of a process, named by the channel id it generates: a       *)
(* process that restarts comes back as another element.                    *)
(***************************************************************************)
EXTENDS Naturals, Sequences, FiniteSets

CONSTANTS
    Instances,   \* channel ids (process incarnations)
    Clients,     \* SSE client ids; an id is used for one connection
    Topics,      \* subscription keys
    Requests,    \* POST /api/realtime requests that change subscriptions
    Nobody,      \* no instance, no client
    MayStop,     \* the incarnations that may crash or be terminated
    Faults,      \* which environment faults may happen, a subset of FaultKinds
    MaxFaults,   \* bound: how many kinds of them may meet in a behaviour
    Recurring,   \* may a kind of fault happen more than once
    MaxInFlight, \* bound: how many requests of a client may be under way at a time
    Beating      \* bound: the incarnations whose heartbeat gets to run; the others are
                 \* observed before their first one

\* stall: a live process is too slow to renew its lease before it expires;
\* break: the connection of a shared listener is lost;
\* fail:  a statement of BroadcastChanges or BroadcastGoOffline, or the NOTIFY that
\*        declares a channel offline, returns an error
FaultKinds == {"stall", "break", "fail"}

ASSUME BridgeAssumption ==
    /\ MayStop \subseteq Instances /\ Beating \subseteq Instances
    /\ Faults \subseteq FaultKinds
    /\ MaxFaults \in Nat /\ Recurring \in BOOLEAN /\ MaxInFlight \in Nat
    /\ Nobody \notin Instances \cup Clients
    /\ Clients \cap Nat = {}

VARIABLES
    phase,      \* the life cycle of each process
    lease,      \* _realtime_channels: no row, valid_until ahead, or passed
    rows,       \* _realtime_clients
    listening,  \* is the shared channel listened to
    inbox,      \* notifications delivered to the session, not yet handled
    heartbeat,  \* the statement heartbeat() comes to next
    offline,    \* heartbeat(): offlineChannels left to notify
    local,      \* the broker of each process: its own clients
    remotes,    \* the broker of each process: its remote clients
    made,       \* ids drawn by NewRemoteBridgedClient in each process
    conn,       \* how far each SSE connection is
    home,       \* the process that serves it
    subs,       \* the subscriptions of the local client
    recSubs,    \* its record.Subscriptions
    req,        \* how far each subscription request is
    faults      \* the kinds of faults that happened

dbVars == <<lease, rows>>
listenVars == <<listening, inbox>>
heartVars == <<heartbeat, offline>>
brokerVars == <<local, remotes, made>>
clientVars == <<conn, home, subs, recSubs>>
vars == <<phase, dbVars, listenVars, heartVars, brokerVars, clientVars, req, faults>>

\* whose auth a record or a client of the broker carries; Nobody is a guest
Auth == Clients \cup {Nobody}

Record == [client : Clients, chan : Instances, subs : SUBSET Topics, auth : Auth, by : Instances]

\* what the shared channel carries; collection and settings messages are in CacheInvalidation
Message ==
    [type : {"subscription_upsert"}, sender : Instances, rec : Record]
      \cup [type : {"subscription_delete"}, sender : Instances, client : Clients]
      \cup [type : {"channel_offline"}, sender : Instances, chan : Instances]

\* A remote BridgedClient: id is what its fresh inner client draws and what the
\* broker files it under, auth what the inner client holds; the rest is its
\* record, subs also its subscriptions.
Remote == [id : Nat, client : Clients, chan : Instances, subs : SUBSET Topics, auth : Auth]

RequestPc == {"idle", "applied", "snapped", "recorded", "stored", "marshalled", "done"}

TypeOK ==
    /\ phase \in [Instances -> {"off", "starting", "serving", "dead"}]
    /\ lease \in [Instances -> {"none", "fresh", "stale"}]
    /\ rows \subseteq Record
    /\ listening \in [Instances -> BOOLEAN]
    /\ inbox \in [Instances -> Seq(Message)]
    /\ heartbeat \in [Instances -> {"renew", "cleanup"}]
    /\ offline \in [Instances -> SUBSET Instances]
    /\ local \in [Instances -> SUBSET Clients]
    /\ remotes \in [Instances -> SUBSET Remote]
    /\ made \in [Instances -> Nat]
    /\ conn \in [Clients -> {"new", "open", "rowless", "announced", "closed"}]
    /\ home \in [Clients -> Instances \cup {Nobody}]
    /\ subs \in [Clients -> SUBSET Topics]
    /\ recSubs \in [Clients -> SUBSET Topics]
    /\ req \in [Requests -> [pc : RequestPc, client : Clients \cup {Nobody},
                             subs : SUBSET Topics]]
    /\ faults \subseteq FaultKinds

Init ==
    /\ phase = [i \in Instances |-> "off"]
    /\ lease = [i \in Instances |-> "none"]
    /\ rows = {}
    /\ listening = [i \in Instances |-> FALSE]
    /\ inbox = [i \in Instances |-> <<>>]
    /\ heartbeat = [i \in Instances |-> "renew"]
    /\ offline = [i \in Instances |-> {}]
    /\ local = [i \in Instances |-> {}]
    /\ remotes = [i \in Instances |-> {}]
    /\ made = [i \in Instances |-> 0]
    /\ conn = [c \in Clients |-> "new"]
    /\ home = [c \in Clients |-> Nobody]
    /\ subs = [c \in Clients |-> {}]
    /\ recSubs = [c \in Clients |-> {}]
    /\ req = [r \in Requests |-> [pc |-> "idle", client |-> Nobody, subs |-> {}]]
    /\ faults = {}

Alive(i) == phase[i] \in {"starting", "serving"}

Fault(kind) ==
    /\ kind \in Faults /\ (kind \in faults => Recurring)
    /\ faults' = faults \cup {kind}
    /\ Cardinality(faults') <= MaxFaults

\* pg_notify on the shared channel reaches every session that listens, the sender's too
NotifyShared(m) ==
    inbox' = [i \in Instances |-> IF listening[i] THEN Append(inbox[i], m) ELSE inbox[i]]

-----------------------------------------------------------------------------
(* Life cycle of a process.                                                *)

\* the serve hook creates the tables and starts the goroutines
Start(i) ==
    /\ phase[i] = "off"
    /\ phase' = [phase EXCEPT ![i] = "starting"]
    /\ UNCHANGED <<dbVars, listenVars, heartVars, brokerVars, clientVars, req, faults>>

\* listenOnce: connect and LISTEN, the first time or after a lost connection
Listen(i) ==
    /\ Alive(i) /\ ~listening[i]
    /\ listening' = [listening EXCEPT ![i] = TRUE]
    /\ UNCHANGED <<phase, dbVars, inbox, heartVars, brokerVars, clientVars, req, faults>>

\* sharedReady is closed by the first LISTEN: the hook goes on to serve
Serve(i) ==
    /\ phase[i] = "starting" /\ listening[i]
    /\ phase' = [phase EXCEPT ![i] = "serving"]
    /\ UNCHANGED <<dbVars, listenVars, heartVars, brokerVars, clientVars, req, faults>>

\* WaitForNotification fails: what the session had not delivered is lost
BreakListener(i) ==
    /\ Alive(i) /\ listening[i] /\ Fault("break")
    /\ listening' = [listening EXCEPT ![i] = FALSE]
    /\ inbox' = [inbox EXCEPT ![i] = <<>>]
    /\ UNCHANGED <<phase, dbVars, heartVars, brokerVars, clientVars, req>>

\* Crash or termination: the terminate hook only cancels the goroutines and
\* closes the bridge pool, so the lease and the rows stay behind either way
Stop(i) ==
    /\ Alive(i)
    /\ phase' = [phase EXCEPT ![i] = "dead"]
    /\ listening' = [listening EXCEPT ![i] = FALSE]
    /\ inbox' = [inbox EXCEPT ![i] = <<>>]
    /\ offline' = [offline EXCEPT ![i] = {}]
    /\ local' = [local EXCEPT ![i] = {}]
    /\ remotes' = [remotes EXCEPT ![i] = {}]
    /\ conn' = [c \in Clients |-> IF home[c] = i THEN "closed" ELSE conn[c]]
    /\ req' = [r \in Requests |->
                 IF req[r].client # Nobody /\ home[req[r].client] = i
                 THEN [req[r] EXCEPT !.pc = "done"] ELSE req[r]]
    /\ UNCHANGED <<dbVars, heartbeat, made, home, subs, recSubs, faults>>

-----------------------------------------------------------------------------
(* Heartbeat and leases.                                                   *)

\* heartbeatTTL passes without a renewal; for a live process that is a stall
ExpireLease(i) ==
    /\ lease[i] = "fresh"
    /\ IF Alive(i) THEN Fault("stall") ELSE UNCHANGED faults
    /\ lease' = [lease EXCEPT ![i] = "stale"]
    /\ UNCHANGED <<phase, rows, listenVars, heartVars, brokerVars, clientVars, req>>

\* heartbeat, first statement: upsert the channel with a new valid_until; the
\* loop comes round when the previous round has notified everything
RenewLease(i) ==
    /\ i \in Beating /\ Alive(i) /\ heartbeat[i] = "renew" /\ offline[i] = {}
    /\ lease' = [lease EXCEPT ![i] = "fresh"]
    /\ heartbeat' = [heartbeat EXCEPT ![i] = "cleanup"]
    /\ UNCHANGED <<phase, rows, listenVars, offline, brokerVars, clientVars, req, faults>>

StaleChannels == {ch \in Instances : lease[ch] = "stale"}

\* mutants: sweep whatever has no valid lease; sweep the channels only
StaleRows_Unleased == {row \in rows : lease[row.chan] # "fresh"}
StaleRows_None == {}
StaleRows == {row \in rows : row.chan \in StaleChannels}

\* heartbeat, second statement: one DELETE takes the stale channels and their
\* clients; only a channel that had clients is returned
DeleteStale(i) ==
    /\ Alive(i) /\ heartbeat[i] = "cleanup"
    /\ lease' = [ch \in Instances |-> IF ch \in StaleChannels THEN "none" ELSE lease[ch]]
    /\ rows' = rows \ StaleRows
    /\ offline' = [offline EXCEPT ![i] = {row.chan : row \in StaleRows}]
    /\ heartbeat' = [heartbeat EXCEPT ![i] = "renew"]
    /\ UNCHANGED <<phase, listenVars, brokerVars, clientVars, req, faults>>

\* heartbeat, the loop over offlineChannels, in map order ...
NotifyOffline(i) ==
    /\ Alive(i)
    /\ \E ch \in offline[i] :
         /\ NotifyShared([type |-> "channel_offline", sender |-> i, chan |-> ch])
         /\ offline' = [offline EXCEPT ![i] = @ \ {ch}]
    /\ UNCHANGED <<phase, dbVars, listening, heartbeat, brokerVars, clientVars, req, faults>>

\* ... which discards the error of notifyShared: the rows are gone, nobody is told,
\* and no later cleanup finds the channel again
NotifyOfflineFails(i) ==
    /\ Alive(i) /\ Fault("fail")
    /\ \E ch \in offline[i] : offline' = [offline EXCEPT ![i] = @ \ {ch}]
    /\ UNCHANGED <<phase, dbVars, listenVars, heartbeat, brokerVars, clientVars, req>>

-----------------------------------------------------------------------------
(* A local client: connect, subscribe, disconnect.  Nothing serializes its *)
(* requests, or a request and the end of its connection.                   *)

InFlight(r) == req[r].pc \notin {"idle", "done"}

\* connect hook: NewBridgedClient wraps the client, realtimeConnect registers it
Connect(c, i) ==
    /\ conn[c] = "new" /\ phase[i] = "serving"
    /\ conn' = [conn EXCEPT ![c] = "open"]
    /\ home' = [home EXCEPT ![c] = i]
    /\ local' = [local EXCEPT ![i] = @ \cup {c}]
    /\ UNCHANGED <<phase, dbVars, listenVars, heartVars, remotes, made, subs, recSubs,
                   req, faults>>

\* subscribe hook, e.Next(): the client is found in the broker and its
\* subscriptions are replaced
Subscribe(r, c, S) ==
    /\ req[r].pc = "idle" /\ home[c] # Nobody /\ c \in local[home[c]]
    /\ Cardinality({q \in Requests : InFlight(q) /\ req[q].client = c}) < MaxInFlight
    /\ req' = [req EXCEPT ![r] = [pc |-> "applied", client |-> c, subs |-> {}]]
    /\ subs' = [subs EXCEPT ![c] = S]
    /\ UNCHANGED <<phase, dbVars, listenVars, heartVars, brokerVars, conn, home, recSubs,
                   faults>>

\* BroadcastChanges: subKeys is copied from the client's subscriptions
Snapshot(r) ==
    /\ req[r].pc = "applied"
    /\ req' = [req EXCEPT ![r].pc = "snapped", ![r].subs = subs[req[r].client]]
    /\ UNCHANGED <<phase, dbVars, listenVars, heartVars, brokerVars, clientVars, faults>>

\* BroadcastChanges: the record of the client, shared by its requests, is assigned
AssignRecord(r) ==
    /\ req[r].pc = "snapped"
    /\ req' = [req EXCEPT ![r].pc = "recorded"]
    /\ recSubs' = [recSubs EXCEPT ![req[r].client] = req[r].subs]
    /\ UNCHANGED <<phase, dbVars, listenVars, heartVars, brokerVars, conn, home, subs, faults>>

\* mutant: UpdatedByChannel is not set
ClientRecord_Unsigned(c, S) ==
    [client |-> c, chan |-> home[c], subs |-> S, auth |-> Nobody, by |-> Nobody]
\* neither NewBridgedClient nor BroadcastChanges fills the auth refs of the record
ClientRecord(c, S) ==
    [client |-> c, chan |-> home[c], subs |-> S, auth |-> Nobody, by |-> home[c]]

\* mutant: ON CONFLICT DO NOTHING
StoreRow_Insert(rec) ==
    IF \E row \in rows : row.client = rec.client THEN rows ELSE rows \cup {rec}
StoreRow(rec) == {row \in rows : row.client # rec.client} \cup {rec}

\* BroadcastChanges: the row is inserted or updated.  The statement's arguments
\* are read from the record without a lock: before another request assigned it, or after.
UpsertRow(r) ==
    LET c == req[r].client IN
    /\ req[r].pc = "recorded"
    /\ req' = [req EXCEPT ![r].pc = "stored"]
    /\ \E S \in {req[r].subs, recSubs[c]} : rows' = StoreRow(ClientRecord(c, S))
    /\ UNCHANGED <<phase, lease, listenVars, heartVars, brokerVars, clientVars, faults>>

\* BroadcastChanges: the record, as it is by now, is marshalled ...
Marshal(r) ==
    /\ req[r].pc = "stored"
    /\ req' = [req EXCEPT ![r].pc = "marshalled", ![r].subs = recSubs[req[r].client]]
    /\ UNCHANGED <<phase, dbVars, listenVars, heartVars, brokerVars, clientVars, faults>>

\* ... and sent to the other processes
NotifyUpsert(r) ==
    LET c == req[r].client IN
    /\ req[r].pc = "marshalled"
    /\ req' = [req EXCEPT ![r].pc = "done"]
    /\ NotifyShared([type |-> "subscription_upsert", sender |-> home[c],
                     rec |-> ClientRecord(c, req[r].subs)])
    /\ UNCHANGED <<phase, dbVars, listening, heartVars, brokerVars, clientVars, faults>>

\* BroadcastChanges returns an error (the request's context is cancelled, the
\* payload exceeds maxNotifyPayload); the hook only logs it
BroadcastFails(r) ==
    /\ req[r].pc \in {"recorded", "marshalled"} /\ Fault("fail")
    /\ req' = [req EXCEPT ![r].pc = "done"]
    /\ UNCHANGED <<phase, dbVars, listenVars, heartVars, brokerVars, clientVars>>

\* mutant: the client is announced gone, its row kept
RowsWithout_Kept(c) == rows
RowsWithout(c) == {row \in rows : row.client # c}

\* The SSE request ends: Broker.Unregister calls Discard, whose
\* BroadcastGoOffline deletes the row ...
DeleteRow(c) ==
    /\ conn[c] = "open"
    /\ conn' = [conn EXCEPT ![c] = "rowless"]
    /\ rows' = RowsWithout(c)
    /\ UNCHANGED <<phase, lease, listenVars, heartVars, brokerVars, home, subs, recSubs, req,
                   faults>>

\* ... tells the other processes ...
NotifyDelete(c) ==
    /\ conn[c] = "rowless"
    /\ conn' = [conn EXCEPT ![c] = "announced"]
    /\ NotifyShared([type |-> "subscription_delete", sender |-> home[c], client |-> c])
    /\ UNCHANGED <<phase, dbVars, listening, heartVars, brokerVars, home, subs, recSubs, req,
                   faults>>

\* ... or fails at either statement, which Discard only logs ...
GoOfflineFails(c) ==
    /\ conn[c] \in {"open", "rowless"} /\ Fault("fail")
    /\ conn' = [conn EXCEPT ![c] = "announced"]
    /\ UNCHANGED <<phase, dbVars, listenVars, heartVars, brokerVars, home, subs, recSubs, req>>

\* ... and the broker drops the client
Disconnected(c) ==
    /\ conn[c] = "announced"
    /\ conn' = [conn EXCEPT ![c] = "closed"]
    /\ local' = [local EXCEPT ![home[c]] = @ \ {c}]
    /\ UNCHANGED <<phase, dbVars, listenVars, heartVars, remotes, made, home, subs, recSubs,
                   req, faults>>

-----------------------------------------------------------------------------
(* The shared listener: handleSharedMessage, one notification at a time.   *)

\* NewRemoteBridgedClient: the inner client draws its own id and has no auth; the
\* rest comes from the record
NewRemote(id, rec) ==
    [id |-> id, client |-> rec.client, chan |-> rec.chan, subs |-> rec.subs, auth |-> Nobody]

\* mutants: the remote client gets this process' own channel, as a local one
\* does; a record of a client that is known already is dropped; only a known client is updated
HandleUpsert_OwnChannel(i, rec) ==
    /\ remotes' = [remotes EXCEPT ![i] = @ \cup {NewRemote(made[i], [rec EXCEPT !.chan = i])}]
    /\ made' = [made EXCEPT ![i] = @ + 1]
    /\ UNCHANGED local
HandleUpsert_Once(i, rec) ==
    IF \E e \in remotes[i] : e.client = rec.client
    THEN UNCHANGED brokerVars
    ELSE /\ remotes' = [remotes EXCEPT ![i] = @ \cup {NewRemote(made[i], rec)}]
         /\ made' = [made EXCEPT ![i] = @ + 1]
         /\ UNCHANGED local

HandleUpsert_Known(i, rec) ==
    /\ remotes' = [remotes EXCEPT ![i] =
                    {IF e.client = rec.client THEN NewRemote(e.id, rec) ELSE e : e \in @}]
    /\ UNCHANGED <<local, made>>

\* subscription_upsert: the broker is searched for rec.client
HandleUpsert(i, rec) ==
    LET Known == {e \in remotes[i] : e.id = rec.client} IN
    IF rec.by = i \/ rec.client \in local[i]
    THEN UNCHANGED brokerVars
    ELSE /\ UNCHANGED local
         /\ IF Known # {}
            THEN /\ remotes' = [remotes EXCEPT ![i] =
                      (@ \ Known) \cup {NewRemote(e.id, rec) : e \in Known}]
                 /\ UNCHANGED made
            ELSE /\ remotes' = [remotes EXCEPT ![i] = @ \cup {NewRemote(made[i], rec)}]
                 /\ made' = [made EXCEPT ![i] = @ + 1]

\* subscription_delete: Unregister whatever is filed under the client's id
HandleDelete(i, c) ==
    /\ local' = [local EXCEPT ![i] = @ \ {c}]
    /\ remotes' = [remotes EXCEPT ![i] = {e \in @ : e.id # c}]
    /\ UNCHANGED made

\* mutants: local clients of the channel go too; the broker's id is compared
HandleOffline_Everybody(i, ch) ==
    /\ remotes' = [remotes EXCEPT ![i] = {e \in @ : e.chan # ch}]
    /\ local' = [local EXCEPT ![i] = {c \in @ : home[c] # ch}]
    /\ UNCHANGED made
HandleOffline_ById(i, ch) ==
    /\ remotes' = [remotes EXCEPT ![i] = {e \in @ : e.id # ch}]
    /\ UNCHANGED <<local, made>>

\* channel_offline: Unregister every remote client of the channel
HandleOffline(i, ch) ==
    /\ remotes' = [remotes EXCEPT ![i] = {e \in @ : e.chan # ch}]
    /\ UNCHANGED <<local, made>>

\* listenSharedChannel: the notification at the head, unless this process sent it
HandleShared(i) ==
    /\ inbox[i] # <<>>
    /\ inbox' = [inbox EXCEPT ![i] = Tail(@)]
    /\ LET m == Head(inbox[i]) IN
         \/ m.sender = i /\ UNCHANGED brokerVars
         \/ m.sender # i /\ m.type = "subscription_upsert" /\ HandleUpsert(i, m.rec)
         \/ m.sender # i /\ m.type = "subscription_delete" /\ HandleDelete(i, m.client)
         \/ m.sender # i /\ m.type = "channel_offline" /\ HandleOffline(i, m.chan)
    /\ UNCHANGED <<phase, dbVars, listening, heartVars, clientVars, req, faults>>

-----------------------------------------------------------------------------
Process(i) ==
    \/ Start(i) \/ Listen(i) \/ Serve(i) \/ BreakListener(i) \/ HandleShared(i)
    \/ RenewLease(i) \/ ExpireLease(i)
    \/ DeleteStale(i) \/ NotifyOffline(i) \/ NotifyOfflineFails(i)

Connection(c) ==
    \/ \E i \in Instances : Connect(c, i)
    \/ DeleteRow(c) \/ NotifyDelete(c) \/ GoOfflineFails(c) \/ Disconnected(c)

Request(r) ==
    \/ \E c \in Clients, S \in SUBSET Topics : Subscribe(r, c, S)
    \/ Snapshot(r) \/ AssignRecord(r) \/ UpsertRow(r)
    \/ Marshal(r) \/ NotifyUpsert(r) \/ BroadcastFails(r)

Next ==
    \/ \E i \in Instances : Process(i)
    \/ \E i \in MayStop : Stop(i)
    \/ \E c \in Clients : Connection(c)
    \/ \E r \in Requests : Request(r)

Spec == Init /\ [][Next]_vars

\* One goroutine each.  At most one disjunct of a goroutine is enabled at a time.
Listener(i) == Listen(i) \/ HandleShared(i)
Heart(i) == RenewLease(i) \/ DeleteStale(i) \/ NotifyOffline(i)
Broadcast(r) ==
    Snapshot(r) \/ AssignRecord(r) \/ UpsertRow(r) \/ Marshal(r) \/ NotifyUpsert(r)
GoOffline(c) == NotifyDelete(c) \/ Disconnected(c)

\* The goroutines of a live process keep running, a lease that nobody renews
\* expires, and the steps a request or a disconnect has begun go on.
\* Nothing obliges a process to start or stop or a client to come or go.
Fairness ==
    /\ \A i \in Instances :
         /\ WF_vars(Listener(i)) /\ WF_vars(Heart(i)) /\ WF_vars(Serve(i))
         /\ WF_vars(~Alive(i) /\ ExpireLease(i))
    /\ \A c \in Clients : WF_vars(GoOffline(c))
    /\ \A r \in Requests : WF_vars(Broadcast(r))

FairSpec == Spec /\ Fairness

-----------------------------------------------------------------------------
(* Properties.                                                             *)

\* A remote client always names the process that serves the client, and that
\* is another process: Send routes its messages to record.ChannelID, and a
\* wrong or own channel would lose them or send them round in circles.
RemotesPointHome ==
    \A i \in Instances : \A e \in remotes[i] : e.chan = home[e.client] /\ e.chan # i

\* Whatever the other processes broadcast (that this process is offline, that a
\* client is gone), a client stays in the broker of its process until its own
\* connection ends: nobody else's notification unregisters a local client.
OwnClientsStay ==
    \A c \in Clients : conn[c] \in {"open", "rowless", "announced"} => c \in local[home[c]]

\* The row of a client that is still connected is deleted only by a cleanup
\* that finds the lease of its process expired, never one that merely lacks a
\* lease (the first heartbeat is not awaited) or holds a valid one.
ConnectedRowsOutliveCleanups ==
    [][\A row \in rows :
          LET c == row.client IN
          conn[c] = "open" /\ lease[row.chan] # "stale" /\ ~(\E s \in rows' : s.client = c)
             => conn'[c] = "rowless"]_vars

Settled(c) == \A r \in Requests : req[r].client = c => ~InFlight(r)

\* The brokers of all processes know the subscriptions of a connected client: once its
\* request is over and a serving process has handled its notifications, that process
\* holds a remote client for it
SubscriptionsAreEverywhere ==
    \A c \in Clients, i \in Instances :
        (/\ conn[c] = "open" /\ subs[c] # {} /\ Settled(c) /\ phase[home[c]] = "serving"
         /\ phase[i] = "serving" /\ inbox[i] = <<>> /\ i # home[c])
        => \E e \in remotes[i] : e.client = c

\* The rows of a dead process that had a lease are swept once another process
\* keeps its heartbeat going
DeadRowsSwept ==
    \A d \in MayStop :
        (phase[d] = "dead" /\ lease[d] # "none" /\ \E i \in Beating \ MayStop : Alive(i))
            ~> (\A row \in rows : row.chan # d)

=============================================================================
