------------------------ MODULE RealtimeBridge_proofs ------------------------
(***************************************************************************)
(* TLAPS proofs about the realtime bridge and the three modules that       *)
(* extend it, for any number of processes, clients, topics, requests and   *)
(* events, with every fault and interleaving allowed unless a theorem says *)
(* otherwise: the rows and remote clients of the bridge itself, what the   *)
(* races of requests leave in them (RequestHistory), the bystanders of a   *)
(* sweep, who forget the dead channel (OfflineHistory), and what becomes of*)
(* the copies of an event (BridgeDelivery).                                *)
(***************************************************************************)
EXTENDS OfflineHistory, BridgeDelivery, FiniteSetTheorems, TLAPS

USE DEF dbVars, listenVars, heartVars, brokerVars, clientVars

\* A step of the bridge in which any process may end, whatever MayStop says: what holds
\* across these is needed where a process ends of itself (BridgeDelivery)
Life(i) == Process(i) \/ Stop(i)
Step ==
    \/ \E i \in Instances : Life(i)
    \/ \E c \in Clients : Connection(c)
    \/ \E r \in Requests : Request(r)

LEMMA NextIsStep == [Next]_vars => [Step]_vars
BY BridgeAssumption DEF Next, Step, Life

\* What the type of a message says about its fields
LEMMA MessageFields ==
    ASSUME NEW m \in Message
    PROVE  /\ m.sender \in Instances
           /\ m.type = "subscription_upsert" => m.rec \in Record
           /\ m.type = "subscription_delete" => m.client \in Clients
           /\ m.type = "channel_offline" => m.chan \in Instances
BY DEF Message

\* A notification leaves every inbox a sequence of messages
LEMMA NotifyType ==
    ASSUME TypeOK, NEW m \in Message, NotifyShared(m)
    PROVE  inbox' \in [Instances -> Seq(Message)]
BY DEF TypeOK, NotifyShared

\* A request whose broadcast has begun is a request of some client
ReqInv == \A r \in Requests :
    req[r].pc # "idle" => req[r].client \in Clients /\ home[req[r].client] \in Instances

\* A client has a process from its connection on
HomeInv == \A c \in Clients : conn[c] # "new" => home[c] \in Instances

TypeInv == TypeOK /\ ReqInv /\ HomeInv
-----------------------------------------------------------------------------
\* A fault is of a known kind
LEMMA FaultType ==
    ASSUME TypeOK, NEW kind, Fault(kind)
    PROVE  faults' \subseteq FaultKinds
BY BridgeAssumption DEF TypeOK, Fault

\* The steps of a process keep the types
LEMMA ProcessType ==
    ASSUME TypeInv, NEW i \in Instances, Life(i)
    PROVE  TypeInv'
<1> USE DEF TypeInv, ReqInv, HomeInv
<1>1. CASE Start(i) \/ Listen(i) \/ Serve(i)
  <2>1. CASE Start(i)
    BY <2>1 DEF TypeOK, Start
  <2>2. CASE Listen(i)
    BY <2>2 DEF TypeOK, Listen
  <2>3. CASE Serve(i)
    BY <2>3 DEF TypeOK, Serve
  <2> QED BY <1>1, <2>1, <2>2, <2>3
<1>2. CASE BreakListener(i)
  BY <1>2, FaultType DEF TypeOK, BreakListener
<1>3. CASE Stop(i)
  <2>1. req' \in [Requests -> [pc : RequestPc, client : Clients \cup {Nobody}, subs : SUBSET Topics]]
    <3> SUFFICES ASSUME NEW r \in Requests
                 PROVE  req'[r] \in [pc : RequestPc, client : Clients \cup {Nobody}, subs : SUBSET Topics]
      BY <1>3 DEF Stop
    <3>1. req[r] \in [pc : RequestPc, client : Clients \cup {Nobody}, subs : SUBSET Topics]
      BY DEF TypeOK
    <3>2. req'[r] = req[r] \/ req'[r] = [req[r] EXCEPT !.pc = "done"]
      BY <1>3 DEF Stop
    <3> QED BY <3>1, <3>2 DEF RequestPc
  <2>2. inbox' \in [Instances -> Seq(Message)]
    BY <1>3 DEF TypeOK, Stop
  <2>3. ReqInv'
    BY <1>3 DEF TypeOK, Stop
  <2>4. HomeInv'
    BY <1>3 DEF TypeOK, Stop
  <2> QED BY <1>3, <2>1, <2>2, <2>3, <2>4 DEF TypeOK, Stop
<1>4. CASE RenewLease(i)
  BY <1>4 DEF TypeOK, RenewLease
<1>8. CASE ExpireLease(i)
  <2>1. faults' \subseteq FaultKinds
    BY <1>8, FaultType DEF TypeOK, ExpireLease
  <2> QED BY <1>8, <2>1 DEF TypeOK, ExpireLease
<1>5. CASE DeleteStale(i)
  BY <1>5 DEF TypeOK, DeleteStale, StaleRows, Record
<1>6. CASE NotifyOffline(i)
  BY <1>6, NotifyType DEF TypeOK, NotifyOffline, Message
<1>9. CASE NotifyOfflineFails(i)
  BY <1>9, FaultType DEF TypeOK, NotifyOfflineFails
<1>7. CASE HandleShared(i)
  <2> DEFINE m == Head(inbox[i])
  <2>1. m \in Message /\ inbox' \in [Instances -> Seq(Message)]
    BY <1>7 DEF TypeOK, HandleShared
  <2>2. local' \in [Instances -> SUBSET Clients] /\ remotes' \in [Instances -> SUBSET Remote]
        /\ made' \in [Instances -> Nat]
    <3>1. CASE UNCHANGED brokerVars
      BY <3>1 DEF TypeOK
    <3>2. CASE m.type = "subscription_upsert" /\ HandleUpsert(i, m.rec)
      <4>1. m.rec \in Record
        BY <2>1, <3>2, MessageFields
      <4>2. \A n \in Nat : NewRemote(n, m.rec) \in Remote
        BY <4>1 DEF NewRemote, Remote, Record, Auth
      <4>3. \A e \in remotes[i] : e.id \in Nat
        BY DEF TypeOK, Remote
      <4> DEFINE Known == {e \in remotes[i] : e.id = m.rec.client}
                 replaced == (remotes[i] \ Known) \cup {NewRemote(e.id, m.rec) : e \in Known}
                 added == remotes[i] \cup {NewRemote(made[i], m.rec)}
      <4>4. replaced \in SUBSET Remote /\ added \in SUBSET Remote
        BY <4>2, <4>3 DEF TypeOK
      <4>5. \/ UNCHANGED brokerVars
            \/ UNCHANGED <<local, made>> /\ remotes' = [remotes EXCEPT ![i] = replaced]
            \/ /\ UNCHANGED local
               /\ remotes' = [remotes EXCEPT ![i] = added]
               /\ made' = [made EXCEPT ![i] = @ + 1]
        BY <3>2 DEF HandleUpsert
      <4>6. made[i] + 1 \in Nat
        BY DEF TypeOK
      <4> HIDE DEF m, replaced, added
      <4>7. CASE UNCHANGED <<local, made>> /\ remotes' = [remotes EXCEPT ![i] = replaced]
        BY <4>4, <4>7 DEF TypeOK
      <4>8. CASE /\ UNCHANGED local
                 /\ remotes' = [remotes EXCEPT ![i] = added]
                 /\ made' = [made EXCEPT ![i] = @ + 1]
        BY <4>4, <4>6, <4>8 DEF TypeOK
      <4> QED BY <3>1, <4>5, <4>7, <4>8
    <3>3. CASE m.type = "subscription_delete" /\ HandleDelete(i, m.client)
      BY <3>3 DEF TypeOK, HandleDelete
    <3>4. CASE m.type = "channel_offline" /\ HandleOffline(i, m.chan)
      BY <3>4 DEF TypeOK, HandleOffline
    <3> QED BY <1>7, <3>1, <3>2, <3>3, <3>4 DEF HandleShared
  <2> QED BY <1>7, <2>1, <2>2 DEF TypeOK, HandleShared
<1> QED BY <1>1, <1>2, <1>3, <1>4, <1>5, <1>6, <1>7, <1>8, <1>9 DEF Life, Process

\* The steps of a connection keep the types
LEMMA ConnectionType ==
    ASSUME TypeInv, NEW c \in Clients, Connection(c)
    PROVE  TypeInv'
<1> USE DEF TypeInv, ReqInv, HomeInv
<1>1. ASSUME NEW i \in Instances, Connect(c, i) PROVE TypeInv'
  BY <1>1 DEF TypeOK, Connect
<1>2. CASE DeleteRow(c)
  BY <1>2 DEF TypeOK, DeleteRow, RowsWithout
<1>3. CASE NotifyDelete(c)
  <2>1. home[c] \in Instances
    BY <1>3 DEF NotifyDelete
  <2>2. inbox' \in [Instances -> Seq(Message)]
    BY <1>3, <2>1, NotifyType DEF NotifyDelete, Message
  <2> QED BY <1>3, <2>2 DEF TypeOK, NotifyDelete
<1>4. CASE GoOfflineFails(c)
  BY <1>4, FaultType DEF TypeOK, GoOfflineFails
<1>5. CASE Disconnected(c)
  BY <1>5 DEF TypeOK, Disconnected
<1> QED BY <1>1, <1>2, <1>3, <1>4, <1>5 DEF Connection

RequestState == [pc : RequestPc, client : Clients \cup {Nobody}, subs : SUBSET Topics]

\* A step of a request that has begun leaves every request well-typed
LEMMA RequestStep ==
    ASSUME TypeInv, NEW r \in Requests, req[r].pc # "idle", UNCHANGED <<conn, home>>,
           NEW x \in RequestState, x.client = req[r].client, req' = [req EXCEPT ![r] = x]
    PROVE  req' \in [Requests -> RequestState] /\ ReqInv' /\ HomeInv'
BY DEF TypeInv, TypeOK, ReqInv, HomeInv, RequestState

\* What BroadcastChanges stores and sends about a client is a record
LEMMA ClientRecordType ==
    ASSUME NEW c \in Clients, home[c] \in Instances, NEW S \in SUBSET Topics
    PROVE  ClientRecord(c, S) \in Record
BY DEF ClientRecord, Record, Auth

\* The steps of a request keep the types
LEMMA RequestType ==
    ASSUME TypeInv, NEW r \in Requests, Request(r)
    PROVE  TypeInv'
<1> USE DEF TypeInv, ReqInv, HomeInv
<1>1. ASSUME NEW c \in Clients, NEW S \in SUBSET Topics, Subscribe(r, c, S) PROVE TypeInv'
  <2>1. home[c] \in Instances
    BY <1>1 DEF TypeOK, Subscribe
  <2> QED BY <1>1, <2>1 DEF TypeOK, Subscribe, RequestPc
<1> DEFINE after(pc) == [req[r] EXCEPT !.pc = pc]
<1>2. ASSUME req[r].pc # "idle"
      PROVE  /\ req[r].client \in Clients /\ home[req[r].client] \in Instances
             /\ req[r] \in RequestState /\ req[r].subs \in SUBSET Topics
             /\ \A pc \in RequestPc : after(pc) \in RequestState /\ after(pc).client = req[r].client
  <2>1. req[r] \in RequestState
    BY DEF TypeOK, RequestState
  <2>2. \A pc \in RequestPc : after(pc) \in RequestState /\ after(pc).client = req[r].client
    BY <2>1 DEF RequestState
  <2>3. req[r].subs \in SUBSET Topics
    BY <2>1 DEF RequestState
  <2> QED BY <1>2, <2>1, <2>2, <2>3
<1>3. CASE Snapshot(r)
  <2> DEFINE x == [req[r] EXCEPT !.pc = "snapped", !.subs = subs[req[r].client]]
  <2>1. x \in RequestState /\ x.client = req[r].client /\ req' = [req EXCEPT ![r] = x]
    <3>1. subs[req[r].client] \in SUBSET Topics /\ "snapped" \in RequestPc
      BY <1>2, <1>3 DEF TypeOK, Snapshot, RequestPc
    <3>2. x \in RequestState /\ x.client = req[r].client
      BY <1>2, <1>3, <3>1 DEF Snapshot, RequestState
    <3> QED BY <1>3, <3>2 DEF Snapshot
  <2> HIDE DEF x
  <2>2. req' \in [Requests -> RequestState] /\ ReqInv' /\ HomeInv'
    BY <1>3, <2>1, RequestStep DEF Snapshot
  <2> QED BY <1>3, <2>2 DEF TypeOK, Snapshot, RequestState
<1>4. CASE AssignRecord(r)
  <2>1. req' \in [Requests -> RequestState] /\ ReqInv' /\ HomeInv'
    BY <1>2, <1>4, RequestStep DEF AssignRecord, RequestPc
  <2> QED BY <1>2, <1>4, <2>1 DEF TypeOK, AssignRecord, RequestState
<1>5. CASE UpsertRow(r)
  <2>1. req' \in [Requests -> RequestState] /\ ReqInv' /\ HomeInv'
    BY <1>2, <1>5, RequestStep DEF UpsertRow, RequestPc
  <2>2. \A S \in {req[r].subs, recSubs[req[r].client]} : ClientRecord(req[r].client, S) \in Record
    BY <1>2, <1>5, ClientRecordType DEF TypeOK, UpsertRow, StoreRow
  <2>3. rows' \subseteq Record
    BY <1>5, <2>2 DEF TypeOK, UpsertRow, StoreRow
  <2> QED BY <1>5, <2>1, <2>3 DEF TypeOK, UpsertRow, RequestState
<1>8. CASE Marshal(r)
  <2> DEFINE x == [req[r] EXCEPT !.pc = "marshalled", !.subs = recSubs[req[r].client]]
  <2>1. x \in RequestState /\ x.client = req[r].client /\ req' = [req EXCEPT ![r] = x]
    <3>1. recSubs[req[r].client] \in SUBSET Topics /\ "marshalled" \in RequestPc
      BY <1>2, <1>8 DEF TypeOK, Marshal, RequestPc
    <3>2. x \in RequestState /\ x.client = req[r].client
      BY <1>2, <1>8, <3>1 DEF Marshal, RequestState
    <3> QED BY <1>8, <3>2 DEF Marshal
  <2> HIDE DEF x
  <2>2. req' \in [Requests -> RequestState] /\ ReqInv' /\ HomeInv'
    BY <1>8, <2>1, RequestStep DEF Marshal
  <2> QED BY <1>8, <2>2 DEF TypeOK, Marshal, RequestState
<1>6. CASE NotifyUpsert(r)
  <2>1. req' \in [Requests -> RequestState] /\ ReqInv' /\ HomeInv'
    BY <1>2, <1>6, RequestStep DEF NotifyUpsert, RequestPc
  <2>2. ClientRecord(req[r].client, req[r].subs) \in Record
    BY <1>2, <1>6, ClientRecordType DEF TypeOK, NotifyUpsert
  <2>3. inbox' \in [Instances -> Seq(Message)]
    BY <1>2, <1>6, <2>2, NotifyType DEF NotifyUpsert, Message
  <2> QED BY <1>6, <2>1, <2>3 DEF TypeOK, NotifyUpsert, RequestState
<1>7. CASE BroadcastFails(r)
  <2>1. req' \in [Requests -> RequestState] /\ ReqInv' /\ HomeInv'
    BY <1>2, <1>7, RequestStep DEF BroadcastFails, RequestPc
  <2>2. faults' \subseteq FaultKinds
    BY <1>7, FaultType DEF TypeOK, BroadcastFails
  <2> QED BY <1>7, <2>1, <2>2 DEF TypeOK, BroadcastFails, RequestState
<1> QED BY <1>1, <1>3, <1>4, <1>5, <1>6, <1>7, <1>8 DEF Request

\* Every step keeps the types
LEMMA TypeStep ==
    ASSUME TypeInv, [Step]_vars
    PROVE  TypeInv'
<1>1. CASE Step
  BY <1>1, ProcessType, ConnectionType, RequestType DEF Step
<1>2. CASE UNCHANGED vars
  BY <1>2 DEF TypeInv, TypeOK, ReqInv, HomeInv, vars
<1> QED BY <1>1, <1>2

\* Every variable keeps its type
THEOREM TypeCorrect == Spec => []TypeOK
<1>1. Init => TypeInv
  BY BridgeAssumption DEF Init, TypeInv, TypeOK, ReqInv, HomeInv, RequestPc
<1>2. TypeInv /\ [Next]_vars => TypeInv'
  BY TypeStep, NextIsStep
<1>3. TypeInv => TypeOK
  BY DEF TypeInv
<1> QED BY <1>1, <1>2, <1>3, PTL DEF Spec

-----------------------------------------------------------------------------
(***************************************************************************)
(* Who may speak about a client: only the process that serves it.          *)
(***************************************************************************)

\* A client that never connected has no process
NewHome == \A c \in Clients : conn[c] = "new" => home[c] = Nobody

\* Only the process of a client, by the table h, sends its record or its farewell
SentFromHome(h, m) ==
    /\ m.type = "subscription_upsert" =>
         m.rec.chan = m.sender /\ m.rec.by = m.sender /\ h[m.rec.client] = m.sender
    /\ m.type = "subscription_delete" => h[m.client] = m.sender

MessagesFromHome ==
    \A i \in Instances : \A k \in 1..Len(inbox[i]) : SentFromHome(home, inbox[i][k])

BridgeInv == TypeInv /\ NewHome /\ MessagesFromHome /\ RemotesPointHome /\ OwnClientsStay

\* The process of a client never changes
LEMMA HomeIsStable ==
    ASSUME TypeInv, NewHome, [Step]_vars
    PROVE  NewHome' /\ \A c \in Clients : home[c] \in Instances => home'[c] = home[c]
<1> USE BridgeAssumption DEF NewHome, TypeInv
<1>1. ASSUME NEW c \in Clients, NEW i \in Instances, Connect(c, i)
      PROVE  NewHome' /\ \A d \in Clients : home[d] \in Instances => home'[d] = home[d]
  BY <1>1 DEF Connect, TypeOK
<1>2. ASSUME NEW i \in Instances, Life(i) PROVE home' = home /\ NewHome'
  <2>1. CASE Stop(i)
    BY <2>1 DEF Stop, TypeOK
  <2>2. CASE ~Stop(i)
    BY <1>2, <2>2 DEF Life, Process, Start, Listen, Serve, BreakListener, RenewLease, DeleteStale,
       NotifyOffline, NotifyOfflineFails, ExpireLease, HandleShared
  <2> QED BY <2>1, <2>2
<1>3. ASSUME NEW c \in Clients, DeleteRow(c) \/ NotifyDelete(c) \/ GoOfflineFails(c) \/ Disconnected(c)
      PROVE  home' = home /\ NewHome'
  BY <1>3 DEF DeleteRow, NotifyDelete, GoOfflineFails, Disconnected, TypeOK
<1>4. ASSUME NEW r \in Requests, Request(r) PROVE home' = home /\ NewHome'
  BY <1>4 DEF Request, Subscribe, Snapshot, AssignRecord, UpsertRow, Marshal, NotifyUpsert, BroadcastFails
<1>5. CASE UNCHANGED vars
  BY <1>5 DEF vars
<1> QED BY <1>1, <1>2, <1>3, <1>4, <1>5 DEF Step, Connection

HomeStable == \A c \in Clients : home[c] \in Instances => home'[c] = home[c]

\* A message stays true to its sender
LEMMA MessageIsStable ==
    ASSUME HomeStable
    PROVE  \A m \in Message : SentFromHome(home, m) => SentFromHome(home', m)
BY MessageFields DEF SentFromHome, Record, HomeStable

\* A step that sends one message true to its sender, or none, or handles or
\* loses some, keeps the inboxes so
LEMMA InboxStep ==
    ASSUME TypeInv, MessagesFromHome, HomeStable,
           \/ UNCHANGED inbox
           \/ \E m \in Message : SentFromHome(home, m) /\ NotifyShared(m)
           \/ \E i \in Instances : inbox' = [inbox EXCEPT ![i] = <<>>]
           \/ \E i \in Instances : inbox[i] # <<>> /\ inbox' = [inbox EXCEPT ![i] = Tail(@)]
    PROVE  MessagesFromHome'
<1> USE DEF TypeInv
<1>1. \A i \in Instances : \A k \in 1..Len(inbox[i]) :
         inbox[i][k] \in Message /\ SentFromHome(home, inbox[i][k])
  BY DEF TypeOK, MessagesFromHome
<1> SUFFICES ASSUME NEW i \in Instances, NEW k \in 1..Len(inbox'[i])
             PROVE  SentFromHome(home', inbox'[i][k])
  BY DEF MessagesFromHome
<1>2. inbox'[i][k] \in Message /\ SentFromHome(home, inbox'[i][k])
  <2>1. inbox[i] \in Seq(Message)
    BY DEF TypeOK
  <2>2. CASE UNCHANGED inbox
    BY <1>1, <2>2
  <2>3. ASSUME NEW m \in Message, SentFromHome(home, m), NotifyShared(m)
        PROVE  inbox'[i][k] \in Message /\ SentFromHome(home, inbox'[i][k])
    <3>1. inbox'[i] = inbox[i] \/ inbox'[i] = Append(inbox[i], m)
      BY <2>3 DEF NotifyShared
    <3>2. inbox'[i][k] = m \/ (k \in 1..Len(inbox[i]) /\ inbox'[i][k] = inbox[i][k])
      BY <2>1, <3>1
    <3> QED BY <1>1, <2>3, <3>2
  <2>4. ASSUME NEW j \in Instances, inbox' = [inbox EXCEPT ![j] = <<>>]
        PROVE  inbox'[i][k] \in Message /\ SentFromHome(home, inbox'[i][k])
    <3>1. inbox'[i] = <<>> \/ inbox'[i] = inbox[i]
      BY <2>4 DEF TypeOK
    <3> QED BY <1>1, <3>1
  <2>5. ASSUME NEW j \in Instances, inbox[j] # <<>>, inbox' = [inbox EXCEPT ![j] = Tail(@)]
        PROVE  inbox'[i][k] \in Message /\ SentFromHome(home, inbox'[i][k])
    <3>1. CASE i = j
      <4>1. inbox'[i] = Tail(inbox[i]) /\ inbox[i] # <<>>
        BY <2>5, <3>1 DEF TypeOK
      <4>2. k + 1 \in 1..Len(inbox[i]) /\ inbox'[i][k] = inbox[i][k + 1]
        BY <2>1, <4>1
      <4> QED BY <1>1, <4>2
    <3>2. CASE i # j
      BY <1>1, <2>5, <3>2 DEF TypeOK
    <3> QED BY <3>1, <3>2
  <2> QED BY <2>2, <2>3, <2>4, <2>5
<1> QED BY <1>2, MessageIsStable

\* Every action does one of these to the inboxes
LEMMA MessagesKept ==
    ASSUME TypeInv, MessagesFromHome, HomeStable, [Step]_vars
    PROVE  MessagesFromHome'
<1> USE DEF TypeInv
<1>1. ASSUME NEW i \in Instances, Life(i) PROVE MessagesFromHome'
  <2>1. CASE NotifyOffline(i)
    <3>1. \E m \in Message : SentFromHome(home, m) /\ NotifyShared(m)
      BY <2>1 DEF NotifyOffline, Message, SentFromHome, TypeOK
    <3> QED BY <3>1, InboxStep
  <2>2. CASE BreakListener(i) \/ Stop(i)
    BY <2>2, InboxStep DEF BreakListener, Stop
  <2>3. CASE HandleShared(i)
    BY <2>3, InboxStep DEF HandleShared
  <2>4. CASE ~(NotifyOffline(i) \/ BreakListener(i) \/ Stop(i) \/ HandleShared(i))
    BY <1>1, <2>4, InboxStep DEF Life, Process, NotifyOfflineFails, Start, Listen, Serve, RenewLease, DeleteStale, ExpireLease
  <2> QED BY <2>1, <2>2, <2>3, <2>4
<1>2. ASSUME NEW c \in Clients, Connection(c) PROVE MessagesFromHome'
  <2>1. CASE NotifyDelete(c)
    <3> DEFINE m == [type |-> "subscription_delete", sender |-> home[c], client |-> c]
    <3>1. m \in Message /\ SentFromHome(home, m) /\ NotifyShared(m)
      BY <2>1 DEF NotifyDelete, Message, SentFromHome, HomeInv
    <3> QED BY <3>1, InboxStep
  <2>2. CASE ~NotifyDelete(c)
    BY <1>2, <2>2, InboxStep DEF Connection, Connect, DeleteRow, GoOfflineFails, Disconnected
  <2> QED BY <2>1, <2>2
<1>3. ASSUME NEW r \in Requests, Request(r) PROVE MessagesFromHome'
  <2>1. CASE NotifyUpsert(r)
    <3> DEFINE c == req[r].client
               m == [type |-> "subscription_upsert", sender |-> home[c],
                     rec |-> ClientRecord(c, req[r].subs)]
    <3>1. c \in Clients /\ home[c] \in Instances /\ req[r].subs \in SUBSET Topics
      BY <2>1 DEF NotifyUpsert, ReqInv, TypeOK
    <3>2. ClientRecord(c, req[r].subs) \in Record
      BY <3>1, ClientRecordType
    <3>3. m \in Message
      BY <3>1, <3>2 DEF Message
    <3>4. SentFromHome(home, m)
      BY DEF SentFromHome, ClientRecord
    <3>5. NotifyShared(m)
      BY <2>1 DEF NotifyUpsert
    <3> QED BY <3>3, <3>4, <3>5, InboxStep
  <2>2. CASE ~NotifyUpsert(r)
    BY <1>3, <2>2, InboxStep DEF Request, Subscribe, Snapshot, AssignRecord, UpsertRow, Marshal, BroadcastFails
  <2> QED BY <2>1, <2>2
<1>4. CASE UNCHANGED vars
  BY <1>4, InboxStep DEF vars
<1> QED BY <1>1, <1>2, <1>3, <1>4 DEF Step

-----------------------------------------------------------------------------
\* The shared listener registers remote clients of other processes only, under
\* the process their record names
LEMMA RemotesKept ==
    ASSUME BridgeInv, HomeStable, [Step]_vars
    PROVE  RemotesPointHome'
<1> USE DEF BridgeInv, TypeInv
<1>1. \A i \in Instances : \A e \in remotes[i] : home[e.client] \in Instances /\ e.client \in Clients
  BY DEF TypeOK, Remote, RemotesPointHome
<1>2. ASSUME \A j \in Instances : remotes'[j] \subseteq remotes[j]
      PROVE  RemotesPointHome'
  BY <1>1, <1>2 DEF RemotesPointHome, HomeStable
<1>3. ASSUME NEW i \in Instances, HandleShared(i) PROVE RemotesPointHome'
  <2> DEFINE m == Head(inbox[i])
  <2>1. m \in Message /\ SentFromHome(home, m)
    <3>1. inbox[i] \in Seq(Message) /\ inbox[i] # <<>>
      BY <1>3 DEF HandleShared, TypeOK
    <3>2. m = inbox[i][1] /\ 1 \in 1..Len(inbox[i])
      BY <3>1
    <3> QED BY <3>1, <3>2 DEF MessagesFromHome
  <2>2. CASE UNCHANGED brokerVars
    BY <1>2, <2>2
  <2>3. CASE m.sender # i /\ m.type = "subscription_upsert" /\ HandleUpsert(i, m.rec)
    <3> DEFINE Known == {e \in remotes[i] : e.id = m.rec.client}
               fresh == {NewRemote(e.id, m.rec) : e \in Known} \cup {NewRemote(made[i], m.rec)}
    <3>1. m.rec \in Record /\ m.rec.chan # i /\ home[m.rec.client] = m.rec.chan
      BY <2>1, <2>3, MessageFields DEF SentFromHome
    <3>2. \A e \in fresh : e.chan # i /\ home[e.client] = e.chan /\ e.client \in Clients
                           /\ e.chan \in Instances
      BY <3>1 DEF NewRemote, Record
    <3>3. remotes' = remotes \/ \E new \in SUBSET (remotes[i] \cup fresh) :
                                   remotes' = [remotes EXCEPT ![i] = new]
      <4>1. CASE UNCHANGED brokerVars
        BY <4>1
      <4>2. CASE remotes' = [remotes EXCEPT ![i] = (@ \ Known) \cup {NewRemote(e.id, m.rec) : e \in Known}]
        BY <4>2
      <4>3. CASE remotes' = [remotes EXCEPT ![i] = @ \cup {NewRemote(made[i], m.rec)}]
        BY <4>3
      <4> HIDE DEF m
      <4> QED BY <2>3, <4>1, <4>2, <4>3 DEF HandleUpsert
    <3> HIDE DEF m, fresh
    <3>4. \A j \in Instances : \A e \in remotes'[j] :
             e.chan # j /\ home[e.client] = e.chan /\ home[e.client] \in Instances /\ e.client \in Clients
      <4> SUFFICES ASSUME NEW j \in Instances PROVE
               \A e \in remotes'[j] : e.chan # j /\ home[e.client] = e.chan
                                         /\ home[e.client] \in Instances /\ e.client \in Clients
        OBVIOUS
      <4>1. \A e \in remotes[j] : e.chan # j /\ home[e.client] = e.chan
                                  /\ home[e.client] \in Instances /\ e.client \in Clients
        BY <1>1 DEF TypeOK, RemotesPointHome
      <4>2. remotes'[j] \subseteq remotes[j] \/ (j = i /\ remotes'[j] \subseteq remotes[j] \cup fresh)
        BY <3>3 DEF TypeOK
      <4> QED BY <3>2, <4>1, <4>2
    <3> QED BY <3>4 DEF RemotesPointHome, HomeStable
  <2>4. CASE HandleDelete(i, m.client) \/ HandleOffline(i, m.chan)
    <3> HIDE DEF m
    <3>1. \A P \in SUBSET remotes[i] : remotes' = [remotes EXCEPT ![i] = P]
            => \A j \in Instances : remotes'[j] \subseteq remotes[j]
      BY DEF TypeOK
    <3>2. \E P \in SUBSET remotes[i] : remotes' = [remotes EXCEPT ![i] = P]
      BY <2>4 DEF HandleDelete, HandleOffline
    <3> QED BY <1>2, <3>1, <3>2
  <2> HIDE DEF m
  <2> QED BY <1>3, <2>2, <2>3, <2>4 DEF HandleShared, m
<1>4. ASSUME NEW i \in Instances, Life(i) PROVE RemotesPointHome'
  <2>1. CASE HandleShared(i)
    BY <1>3, <2>1
  <2>2. CASE ~HandleShared(i)
    <3>1. remotes' = remotes \/ remotes' = [remotes EXCEPT ![i] = {}]
      BY <1>4, <2>2 DEF Life, Process, Start, Listen, Serve, BreakListener, Stop, RenewLease,
         DeleteStale, NotifyOffline, NotifyOfflineFails, ExpireLease
    <3> QED BY <1>2, <3>1 DEF TypeOK
  <2> QED BY <2>1, <2>2
<1>5. ASSUME NEW c \in Clients, Connection(c) PROVE remotes' = remotes
  BY <1>5 DEF Connection, Connect, DeleteRow, NotifyDelete, GoOfflineFails, Disconnected
<1>6. ASSUME NEW r \in Requests, Request(r) PROVE remotes' = remotes
  BY <1>6 DEF Request, Subscribe, Snapshot, AssignRecord, UpsertRow, Marshal, NotifyUpsert, BroadcastFails
<1>7. CASE remotes' = remotes
  BY <1>1, <1>7 DEF RemotesPointHome, HomeStable
<1> QED BY <1>4, <1>5, <1>6, <1>7 DEF Step, vars

\* Only its own disconnect or the end of its process takes a local client out
\* of the broker
LEMMA OwnClientsKept ==
    ASSUME BridgeInv, [Step]_vars
    PROVE  OwnClientsStay'
<1> USE DEF BridgeInv, TypeInv
<1>1. ASSUME NEW i \in Instances, HandleShared(i) PROVE OwnClientsStay'
  <2> DEFINE m == Head(inbox[i])
  <2>1. m \in Message /\ SentFromHome(home, m)
    <3>1. inbox[i] \in Seq(Message) /\ inbox[i] # <<>>
      BY <1>1 DEF HandleShared, TypeOK
    <3>2. m = inbox[i][1] /\ 1 \in 1..Len(inbox[i])
      BY <3>1
    <3> QED BY <3>1, <3>2 DEF MessagesFromHome
  <2>2. CASE m.sender # i /\ m.type = "subscription_delete" /\ HandleDelete(i, m.client)
    <3>1. home[m.client] # i
      BY <2>1, <2>2 DEF SentFromHome
    <3> QED BY <1>1, <2>2, <3>1 DEF HandleShared, HandleDelete, OwnClientsStay, TypeOK
  <2>3. CASE local' = local
    BY <1>1, <2>3 DEF HandleShared, OwnClientsStay
  <2> HIDE DEF m
  <2> QED BY <1>1, <2>2, <2>3 DEF HandleShared, HandleUpsert, HandleOffline, m
<1>2. ASSUME NEW i \in Instances, Life(i) PROVE OwnClientsStay'
  <2>1. CASE HandleShared(i)
    BY <1>1, <2>1
  <2>2. CASE Stop(i)
    BY <2>2 DEF Stop, OwnClientsStay, TypeOK, HomeInv
  <2>3. CASE ~(HandleShared(i) \/ Stop(i))
    BY <1>2, <2>3 DEF Life, Process, Start, Listen, Serve, BreakListener, RenewLease,
       DeleteStale, NotifyOffline, NotifyOfflineFails, ExpireLease, OwnClientsStay
  <2> QED BY <2>1, <2>2, <2>3
<1>3. ASSUME NEW c \in Clients, Connection(c) PROVE OwnClientsStay'
  <2>1. ASSUME NEW i \in Instances, Connect(c, i) PROVE OwnClientsStay'
    <3>1. \A j \in Instances : local[j] \subseteq local'[j]
      BY <2>1 DEF Connect, TypeOK
    <3>2. c \in local'[i] /\ home'[c] = i /\ \A d \in Clients \ {c} : conn'[d] = conn[d] /\ home'[d] = home[d]
      BY <2>1 DEF Connect, TypeOK
    <3> QED BY <3>1, <3>2 DEF OwnClientsStay, HomeInv
  <2>2. CASE DeleteRow(c) \/ NotifyDelete(c) \/ GoOfflineFails(c)
    BY <2>2 DEF DeleteRow, NotifyDelete, GoOfflineFails, OwnClientsStay, TypeOK
  <2>3. CASE Disconnected(c)
    BY <2>3 DEF Disconnected, OwnClientsStay, TypeOK, HomeInv
  <2> QED BY <1>3, <2>1, <2>2, <2>3 DEF Connection
<1>4. ASSUME NEW r \in Requests, Request(r) PROVE OwnClientsStay'
  BY <1>4 DEF Request, Subscribe, Snapshot, AssignRecord, UpsertRow, Marshal, NotifyUpsert,
     BroadcastFails, OwnClientsStay
<1>5. CASE UNCHANGED vars
  BY <1>5 DEF vars, OwnClientsStay
<1> QED BY <1>2, <1>3, <1>4, <1>5 DEF Step

\* The invariant holds before any process starts
LEMMA BridgeInit == Init => BridgeInv
BY BridgeAssumption DEF Init, BridgeInv, TypeInv, TypeOK, ReqInv, HomeInv, RequestPc, NewHome,
   MessagesFromHome, RemotesPointHome, OwnClientsStay

\* Every step keeps the invariant
LEMMA BridgeKept ==
    ASSUME BridgeInv, [Step]_vars
    PROVE  BridgeInv'
<1>1. TypeInv'
  BY TypeStep DEF BridgeInv
<1>2. NewHome' /\ HomeStable
  BY HomeIsStable DEF BridgeInv, HomeStable
<1>3. MessagesFromHome'
  BY <1>2, MessagesKept DEF BridgeInv
<1>4. RemotesPointHome' /\ OwnClientsStay'
  BY <1>2, RemotesKept, OwnClientsKept
<1> QED BY <1>1, <1>2, <1>3, <1>4 DEF BridgeInv

\* The inductive invariant behind the two theorems that follow
THEOREM BridgeInvariant == Spec => []BridgeInv
<1>1. BridgeInv /\ [Next]_vars => BridgeInv'
  BY BridgeKept, NextIsStep
<1> QED BY <1>1, BridgeInit, PTL DEF Spec

\* A remote client names the process that serves the client, never the one that
\* holds it: BridgedClient.Send has somewhere to send to
THEOREM RemotesAreRoutable == Spec => []RemotesPointHome
BY BridgeInvariant, PTL DEF BridgeInv

\* No broadcast of another process, not even that this process is offline,
\* takes a local client out of the broker
THEOREM LocalClientsSurvive == Spec => []OwnClientsStay
BY BridgeInvariant, PTL DEF BridgeInv

-----------------------------------------------------------------------------
(***************************************************************************)
(* Rows.                                                                   *)
(***************************************************************************)

\* A cleanup takes the row of a connected client only when the lease of its
\* process has expired
THEOREM CleanupsSpareConnectedRows == Spec => ConnectedRowsOutliveCleanups
<1> DEFINE A == \A row \in rows :
      LET c == row.client IN
      conn[c] = "open" /\ lease[row.chan] # "stale" /\ ~(\E s \in rows' : s.client = c)
         => conn'[c] = "rowless"
<1>1. TypeInv /\ [Next]_vars => [A]_vars
  <2> SUFFICES ASSUME TypeInv, Next, NEW row \in rows, conn[row.client] = "open",
                      lease[row.chan] # "stale", ~(\E s \in rows' : s.client = row.client)
               PROVE  conn'[row.client] = "rowless"
    BY DEF A
  <2>1. row \notin rows' /\ row.client \in Clients /\ row.chan \in Instances
    BY DEF TypeInv, TypeOK, Record
  <2>2. ASSUME NEW i \in Instances, Life(i) PROVE FALSE
    <3>1. CASE DeleteStale(i)
      BY <2>1, <3>1 DEF DeleteStale, StaleRows, StaleChannels
    <3>2. CASE rows' = rows
      BY <2>1, <3>2
    <3> QED BY <2>2, <3>1, <3>2 DEF Life, Process, Start, Listen, Serve, BreakListener, Stop,
               RenewLease, NotifyOffline, NotifyOfflineFails, ExpireLease, HandleShared
  <2>3. ASSUME NEW c \in Clients, Connection(c) PROVE conn'[row.client] = "rowless"
    <3>1. CASE DeleteRow(c)
      BY <2>1, <3>1 DEF DeleteRow, RowsWithout, TypeInv, TypeOK
    <3>2. CASE rows' = rows
      BY <2>1, <3>2
    <3> QED BY <2>3, <3>1, <3>2 DEF Connection, Connect, NotifyDelete, GoOfflineFails, Disconnected
  <2>4. ASSUME NEW r \in Requests, Request(r) PROVE FALSE
    <3>1. CASE UpsertRow(r)
      <4>1. \E S : ClientRecord(req[r].client, S) \in rows' /\ (row.client # req[r].client => row \in rows')
        BY <3>1 DEF UpsertRow, StoreRow, ClientRecord
      <4> QED BY <2>1, <4>1 DEF ClientRecord
    <3>2. CASE rows' = rows
      BY <2>1, <3>2
    <3> QED BY <2>4, <3>1, <3>2 DEF Request, Subscribe, Snapshot, AssignRecord, Marshal, NotifyUpsert, BroadcastFails
  <2> QED BY <2>2, <2>3, <2>4, BridgeAssumption DEF Next, Life
<1>2. TypeInv /\ [Next]_vars => TypeInv'
  BY TypeStep, NextIsStep
<1>3. Init => TypeInv
  BY BridgeAssumption DEF Init, TypeInv, TypeOK, ReqInv, HomeInv, RequestPc
<1> QED BY <1>1, <1>2, <1>3, PTL DEF Spec, ConnectedRowsOutliveCleanups

\* A fault that happened is not forgotten
LEMMA FaultsStay ==
    ASSUME [Step]_vars
    PROVE  faults \subseteq faults'
<1>1. ASSUME NEW i \in Instances, Life(i) PROVE faults \subseteq faults'
  BY <1>1 DEF Life, Process, Start, Listen, Serve, BreakListener, Stop, RenewLease, DeleteStale,
     NotifyOffline, NotifyOfflineFails, ExpireLease, HandleShared, Fault
<1>2. ASSUME NEW c \in Clients, Connection(c) PROVE faults \subseteq faults'
  BY <1>2 DEF Connection, Connect, DeleteRow, NotifyDelete, GoOfflineFails, Disconnected, Fault
<1>3. ASSUME NEW r \in Requests, Request(r) PROVE faults \subseteq faults'
  BY <1>3 DEF Request, Subscribe, Snapshot, AssignRecord, UpsertRow, Marshal, NotifyUpsert,
     BroadcastFails, Fault
<1> QED BY <1>1, <1>2, <1>3 DEF Step, vars

\* Whoever has an outdated request, or one that is cut off, is remembered for it
WatchInv ==
    \A r \in Requests :
        /\ Outdated(r) => req[r].client \in outdated
        /\ CutOff(r) => req[r].client \in cutOff

Remembers == outdated \subseteq outdated' /\ cutOff \subseteq cutOff'

\* The history says so after every step, and forgets nobody
LEMMA Watching ==
    ASSUME TypeInv', WatchInv, Watch \/ UNCHANGED <<req, subs, conn, history>>
    PROVE  WatchInv' /\ Remembers
<1>1. CASE Watch
  <2>1. \A r \in Requests : Outdated(r)' \/ CutOff(r)' => req'[r].client \in Clients
    BY DEF TypeInv, ReqInv, Outdated, CutOff
  <2> QED BY <1>1, <2>1 DEF Watch, WatchInv, Remembers
<1>2. CASE UNCHANGED <<req, subs, conn, history>>
  BY <1>2 DEF WatchInv, Outdated, CutOff, Remembers, history
<1> QED BY <1>1, <1>2

\* A row belongs to a connected client, to a dead process, or to a client that was cut
\* off, up to the first statement that fails
OwnedInv ==
    /\ \A row \in rows : home[row.client] \in Instances
    /\ "fail" \notin faults =>
         \A row \in rows : LET c == row.client IN
            conn[c] = "open" \/ phase[home[c]] = "dead" \/ c \in cutOff

\* Every step keeps the rows with their owners
LEMMA OwnedStep ==
    ASSUME TypeInv, NewHome, WatchInv, OwnedInv, Remembers, [Step]_vars
    PROVE  OwnedInv'
<1> USE DEF TypeInv, OwnedInv, Remembers
<1>1. HomeStable /\ TypeInv'
  BY HomeIsStable, TypeStep DEF HomeStable
<1>2. (\A row \in rows : row.client \in Clients) /\ faults \subseteq faults'
  BY FaultsStay DEF TypeOK, Record
<1>3. ASSUME NEW i \in Instances, Life(i) PROVE OwnedInv'
  <2>1. CASE Stop(i)
    <3>1. \A c \in Clients : conn'[c] = IF home[c] = i THEN "closed" ELSE conn[c]
      BY <2>1 DEF Stop
    <3>2. home' = home /\ rows' = rows /\ phase' = [phase EXCEPT ![i] = "dead"]
      BY <2>1 DEF Stop
    <3> QED BY <1>2, <3>1, <3>2 DEF TypeOK
  <2>2. CASE ~Stop(i)
    <3>1. UNCHANGED <<conn, home>> /\ rows' \subseteq rows
      BY <1>3, <2>2 DEF Life, Process, Start, Listen, Serve, BreakListener, RenewLease, DeleteStale,
         NotifyOffline, NotifyOfflineFails, ExpireLease, HandleShared
    <3>2. \A j \in Instances : phase[j] = "dead" => phase'[j] = "dead"
      BY <1>3, <2>2 DEF Life, Process, Start, Listen, Serve, BreakListener, RenewLease, DeleteStale,
         NotifyOffline, NotifyOfflineFails, ExpireLease, HandleShared, TypeOK, Alive
    <3> QED BY <1>2, <3>1, <3>2
  <2> QED BY <2>1, <2>2
<1>4. ASSUME NEW c \in Clients, Connection(c) PROVE OwnedInv'
  <2>1. phase' = phase
    BY <1>4 DEF Connection, Connect, DeleteRow, NotifyDelete, GoOfflineFails, Disconnected
  <2>2. \A d \in Clients \ {c} : conn'[d] = conn[d] /\ home'[d] = home[d]
    BY <1>4 DEF Connection, Connect, DeleteRow, NotifyDelete, GoOfflineFails, Disconnected, TypeOK
  <2>3. CASE DeleteRow(c)
    <3>1. rows' = {row \in rows : row.client # c} /\ home' = home
      BY <2>3 DEF DeleteRow, RowsWithout
    <3> QED BY <1>2, <2>1, <2>2, <3>1
  <2>4. CASE GoOfflineFails(c)
    <3>1. UNCHANGED <<rows, home>> /\ "fail" \in faults'
      BY <2>4 DEF GoOfflineFails, Fault
    <3> QED BY <3>1
  <2>5. CASE ~DeleteRow(c) /\ ~GoOfflineFails(c)
    <3>1. rows' = rows /\ conn[c] # "open"
      BY <1>4, <2>5 DEF Connection, Connect, NotifyDelete, Disconnected
    <3> QED BY <1>1, <1>2, <2>1, <2>2, <3>1 DEF HomeStable
  <2> QED BY <2>3, <2>4, <2>5
<1>5. ASSUME NEW r \in Requests, Request(r) PROVE OwnedInv'
  <2>1. UNCHANGED <<phase, conn, home>>
    BY <1>5 DEF Request, Subscribe, Snapshot, AssignRecord, UpsertRow, Marshal, NotifyUpsert, BroadcastFails
  <2>2. CASE UpsertRow(r)
    <3>1. \A row \in rows' : row \in rows \/ row.client = req[r].client
      BY <2>2 DEF UpsertRow, StoreRow, ClientRecord
    <3>2. conn[req[r].client] = "open" \/ req[r].client \in cutOff
      BY <2>2 DEF UpsertRow, WatchInv, CutOff
    <3>3. home[req[r].client] \in Instances
      BY <2>2 DEF UpsertRow, ReqInv
    <3> QED BY <1>2, <2>1, <3>1, <3>2, <3>3
  <2>3. CASE rows' = rows
    BY <1>2, <2>1, <2>3
  <2> QED BY <1>5, <2>2, <2>3 DEF Request, Subscribe, Snapshot, AssignRecord, Marshal, NotifyUpsert, BroadcastFails
<1>6. CASE UNCHANGED vars
  BY <1>6 DEF vars
<1> QED BY <1>3, <1>4, <1>5, <1>6 DEF Step

\* Whatever requests overlap, an ended connection leaves no row behind unless its process
\* died, a statement failed, or it ended under a request that had not stored its row
THEOREM NoRowAfterClose == RSpec => []ClosedLeavesNoRow
<1> DEFINE I == TypeInv /\ NewHome /\ WatchInv /\ OwnedInv
<1>1. RInit => I
  BY BridgeAssumption DEF RInit, Init, TypeInv, TypeOK, ReqInv, HomeInv, RequestPc, NewHome, WatchInv,
     Outdated, CutOff, OwnedInv
<1>2. I /\ [RNext]_rvars => I'
  <2> SUFFICES ASSUME I, [RNext]_rvars PROVE I'
    OBVIOUS
  <2>1. [Step]_vars /\ (Watch \/ UNCHANGED <<req, subs, conn, history>>)
    BY NextIsStep DEF RNext, rvars, vars
  <2>2. TypeInv' /\ NewHome'
    BY <2>1, TypeStep, HomeIsStable
  <2>3. WatchInv' /\ Remembers
    BY <2>1, <2>2, Watching
  <2> QED BY <2>1, <2>2, <2>3, OwnedStep
<1>3. I => ClosedLeavesNoRow
  BY DEF OwnedInv, ClosedLeavesNoRow
<1> QED BY <1>1, <1>2, <1>3, PTL DEF RSpec

-----------------------------------------------------------------------------
(***************************************************************************)
(* What a client has subscribed to, as long as none of its requests is     *)
(* overtaken between its snapshot and its NOTIFY.                          *)
(***************************************************************************)

\* The record of a client that a request has assigned is what the client has subscribed to
FlightInv ==
    \A r \in Requests : LET c == req[r].client IN
        c \notin outdated /\ req[r].pc \in {"recorded", "stored"} => recSubs[c] = subs[c]

\* No request is about to store the row of the client
Stored(c) == \A r \in Requests : req[r].client = c => req[r].pc \notin {"applied", "snapped", "recorded"}

\* Then the row is what the client has subscribed to, up to the first statement that fails
RowInv ==
    "fail" \notin faults =>
        \A row \in rows : LET c == row.client IN
            conn[c] = "open" /\ c \notin outdated /\ Stored(c) => row.subs = subs[c]

CurrentInv == BridgeInv /\ WatchInv /\ OwnedInv /\ FlightInv /\ RowInv

\* A step of a request concerns that request
LEMMA RequestEffect ==
    ASSUME TypeInv, NEW r \in Requests, Request(r)
    PROVE  /\ \A q \in Requests \ {r} : req'[q] = req[q]
           /\ \/ \E c \in Clients, S \in SUBSET Topics : Subscribe(r, c, S)
              \/ /\ InFlight(r) /\ req'[r].client = req[r].client /\ req[r].client \in Clients
                 /\ subs' = subs
<1>1. CASE \E c \in Clients, S \in SUBSET Topics : Subscribe(r, c, S)
  BY <1>1 DEF Subscribe, TypeInv, TypeOK
<1>2. CASE \/ Snapshot(r) \/ AssignRecord(r) \/ UpsertRow(r)
           \/ Marshal(r) \/ NotifyUpsert(r) \/ BroadcastFails(r)
  <2>1. req[r].pc \in {"applied", "snapped", "recorded", "stored", "marshalled"} /\ subs' = subs
    BY <1>2 DEF Snapshot, AssignRecord, UpsertRow, Marshal, NotifyUpsert, BroadcastFails
  <2>2. InFlight(r) /\ req[r].client \in Clients
    BY <2>1 DEF InFlight, TypeInv, ReqInv
  <2>3. req'[r].client = req[r].client /\ \A q \in Requests \ {r} : req'[q] = req[q]
    BY <1>2 DEF Snapshot, AssignRecord, UpsertRow, Marshal, NotifyUpsert, BroadcastFails, TypeInv, TypeOK
  <2> QED BY <2>1, <2>2, <2>3
<1> QED BY <1>1, <1>2 DEF Request

\* Processes and connections leave requests, subscriptions and rows as they are, or end them
LEMMA QuietStep ==
    ASSUME TypeInv, FlightInv, RowInv, Remembers, UNCHANGED <<subs, recSubs>>, rows' \subseteq rows,
           faults \subseteq faults',
           \A r \in Requests : req'[r].client = req[r].client /\ req'[r].pc \in {req[r].pc, "done"},
           \A row \in rows' : conn'[row.client] = "open" =>
                conn[row.client] = "open" /\ (Stored(row.client)' => Stored(row.client))
    PROVE  FlightInv' /\ RowInv'
<1>1. FlightInv'
  <2> SUFFICES ASSUME NEW r \in Requests, req'[r].client \notin outdated', req'[r].pc \in {"recorded", "stored"}
               PROVE  recSubs'[req'[r].client] = subs'[req'[r].client]
    BY DEF FlightInv
  <2>1. req'[r].client = req[r].client /\ req'[r].pc = req[r].pc
    OBVIOUS
  <2> QED BY <2>1 DEF FlightInv, Remembers
<1>2. RowInv'
  BY DEF RowInv, Remembers
<1> QED BY <1>1, <1>2

\* Every step keeps the records and the rows of the clients that were not overtaken
LEMMA FlightStep ==
    ASSUME TypeInv, NewHome, OwnedInv, WatchInv, WatchInv', Remembers, FlightInv, RowInv, [Step]_vars
    PROVE  FlightInv' /\ RowInv'
<1> USE DEF TypeInv
<1>0. faults \subseteq faults' /\ \A row \in rows : row.client \in Clients
  BY FaultsStay DEF TypeOK, Record
<1>1. ASSUME NEW i \in Instances, Life(i) PROVE FlightInv' /\ RowInv'
  <2>1. CASE Stop(i)
    <3>1. UNCHANGED <<subs, recSubs, rows, home>>
          /\ \A c \in Clients : conn'[c] = IF home[c] = i THEN "closed" ELSE conn[c]
      BY <2>1 DEF Stop
    <3>2. \A r \in Requests :
             req'[r] = IF req[r].client # Nobody /\ home[req[r].client] = i
                       THEN [req[r] EXCEPT !.pc = "done"] ELSE req[r]
      BY <2>1 DEF Stop
    <3>3. ASSUME NEW r \in Requests
          PROVE  /\ req'[r].client = req[r].client /\ req'[r].pc \in {req[r].pc, "done"}
                 /\ home[req[r].client] # i => req'[r] = req[r]
      <4>1. req[r] \in [pc : RequestPc, client : Clients \cup {Nobody}, subs : SUBSET Topics]
        BY DEF TypeOK
      <4> QED BY <3>2, <4>1
    <3>4. ASSUME NEW row \in rows', conn'[row.client] = "open"
          PROVE  conn[row.client] = "open" /\ (Stored(row.client)' => Stored(row.client))
      <4>1. row.client \in Clients /\ home[row.client] # i
        BY <1>0, <3>1, <3>4
      <4>2. \A r \in Requests : req[r].client = row.client => req'[r] = req[r]
        BY <3>3, <4>1
      <4> QED BY <3>1, <3>4, <4>1, <4>2 DEF Stored
    <3> HIDE DEF TypeInv
    <3> QED BY <1>0, <3>1, <3>3, <3>4, QuietStep
  <2>2. CASE ~Stop(i)
    <3>1. UNCHANGED <<conn, req, subs, recSubs>> /\ rows' \subseteq rows
      BY <1>1, <2>2 DEF Life, Process, Start, Listen, Serve, BreakListener, RenewLease, DeleteStale,
         NotifyOffline, NotifyOfflineFails, ExpireLease, HandleShared
    <3>2. \A c : Stored(c)' => Stored(c)
      BY <3>1 DEF Stored
    <3> QED BY <1>0, <3>1, <3>2, QuietStep
  <2> QED BY <2>1, <2>2
<1>2. ASSUME NEW c \in Clients, Connection(c) PROVE FlightInv' /\ RowInv'
  <2>1. /\ UNCHANGED <<req, subs, recSubs>> /\ rows' \subseteq rows
        /\ \A d \in Clients \ {c} : conn'[d] = conn[d]
        /\ conn'[c] = "open" => conn[c] = "new"
    BY <1>2 DEF Connection, Connect, DeleteRow, RowsWithout, NotifyDelete, GoOfflineFails, Disconnected, TypeOK
  <2>2. \A d : Stored(d)' => Stored(d)
    BY <2>1 DEF Stored
  <2>3. \A row \in rows : row.client = c => conn[c] # "new"
    BY BridgeAssumption DEF OwnedInv, NewHome
  <2>4. \A row \in rows' : conn'[row.client] = "open" => conn[row.client] = "open"
    BY <1>0, <2>1, <2>3
  <2> QED BY <1>0, <2>1, <2>2, <2>4, QuietStep
<1>3. ASSUME NEW r \in Requests, Request(r) PROVE FlightInv' /\ RowInv'
  <2> DEFINE c == req[r].client
  <2>0. \A q \in Requests \ {r} : req'[q] = req[q]
    BY <1>3, RequestEffect
  <2>1. ASSUME NEW d \in Clients, NEW S \in SUBSET Topics, Subscribe(r, d, S)
        PROVE  FlightInv' /\ RowInv'
    <3>1. /\ req'[r].pc = "applied" /\ req'[r].client = d /\ req[r].pc = "idle"
          /\ UNCHANGED <<rows, recSubs, conn, faults>>
          /\ \A e \in Clients \ {d} : subs'[e] = subs[e]
      BY <2>1 DEF Subscribe, TypeOK
    <3>2. FlightInv'
      <4> SUFFICES ASSUME NEW q \in Requests, req'[q].client \notin outdated', req'[q].pc \in {"recorded", "stored"}
                   PROVE  recSubs'[req'[q].client] = subs'[req'[q].client]
        BY DEF FlightInv
      <4>1. q # r /\ req'[q] = req[q]
        BY <2>0, <3>1
      <4>2. recSubs[req[q].client] = subs[req[q].client] /\ req[q].client \in Clients
        BY <4>1 DEF FlightInv, Remembers, ReqInv
      <4>3. CASE req[q].client # d
        BY <3>1, <4>1, <4>2, <4>3
      <4>4. CASE req[q].client = d
        <5>1. ~Outdated(q) /\ ~Outdated(q)'
          BY <4>1 DEF WatchInv, Remembers
        <5>2. req[q].subs = subs[d] /\ req[q].subs = subs'[d]
          BY <4>1, <4>4, <5>1 DEF Outdated
        <5> QED BY <3>1, <4>1, <4>2, <4>4, <5>2
      <4> QED BY <4>3, <4>4
    <3>3. RowInv'
      <4>1. ~Stored(d)'
        BY <3>1 DEF Stored
      <4>2. ASSUME NEW e \in Clients \ {d}, Stored(e)' PROVE Stored(e)
        BY <2>0, <3>1, <4>2 DEF Stored
      <4> QED BY <1>0, <3>1, <4>1, <4>2 DEF RowInv, Remembers
    <3> QED BY <3>2, <3>3
  <2>2. CASE ~ \E d \in Clients, S \in SUBSET Topics : Subscribe(r, d, S)
    <3>1. InFlight(r) /\ req'[r].client = c /\ c \in Clients /\ subs' = subs
      BY <1>3, <2>2, RequestEffect
    <3>2. \A q \in Requests : req'[q].client = req[q].client
      BY <2>0, <3>1
    <3>3. ASSUME c \notin outdated
          PROVE  req[r].pc \in {"snapped", "recorded"} => req[r].subs = subs[c]
      BY <3>3 DEF WatchInv, Outdated
    <3>4. /\ conn' = conn
          /\ \A e \in Clients \ {c} : recSubs'[e] = recSubs[e]
          /\ \A row \in rows' : row \in rows \/ row.client = c
          /\ recSubs'[c] = recSubs[c] \/ (recSubs'[c] = req[r].subs /\ req[r].pc = "snapped")
          /\ req'[r].pc \in {"recorded", "stored"} =>
                req[r].pc \in {"recorded", "stored"} \/ (recSubs'[c] = req[r].subs /\ req[r].pc = "snapped")
      BY <1>3, <2>2, <3>1 DEF Request, Snapshot, AssignRecord, UpsertRow, Marshal, NotifyUpsert, BroadcastFails,
         TypeOK, StoreRow, ClientRecord
    <3>5. FlightInv'
      <4> SUFFICES ASSUME NEW q \in Requests, req'[q].client \notin outdated', req'[q].pc \in {"recorded", "stored"}
                   PROVE  recSubs'[req'[q].client] = subs[req'[q].client]
        BY <3>1 DEF FlightInv
      <4>0. req[q].client \notin outdated /\ (q # r => req'[q] = req[q])
        BY <2>0, <3>2 DEF Remembers
      <4>1. CASE req[q].client # c
        <5>1. req'[q] = req[q] /\ recSubs[req[q].client] = subs[req[q].client] /\ req[q].client \in Clients
          BY <4>0, <4>1 DEF FlightInv, ReqInv
        <5> QED BY <3>4, <4>1, <5>1
      <4>2. CASE req[q].client = c
        <5>1. CASE recSubs'[c] = req[r].subs /\ req[r].pc = "snapped"
          BY <3>2, <3>3, <4>0, <4>2, <5>1
        <5>2. CASE ~(recSubs'[c] = req[r].subs /\ req[r].pc = "snapped")
          <6>1. req[q].pc \in {"recorded", "stored"}
            BY <3>4, <4>0, <5>2
          <6> QED BY <3>2, <3>4, <4>0, <4>2, <5>2, <6>1 DEF FlightInv
        <5> QED BY <5>1, <5>2
      <4> QED BY <4>1, <4>2
    <3>6. RowInv'
      <4> SUFFICES ASSUME "fail" \notin faults', NEW row \in rows', conn'[row.client] = "open",
                          row.client \notin outdated', Stored(row.client)'
                   PROVE  row.subs = subs'[row.client]
        BY DEF RowInv
      <4>0. row.client \notin outdated /\ "fail" \notin faults
        BY <1>0 DEF Remembers
      <4>1. CASE row.client # c
        <5>1. Stored(row.client)
          BY <2>0, <3>2, <4>1 DEF Stored
        <5> QED BY <3>1, <3>4, <4>0, <4>1, <5>1 DEF RowInv
      <4>2. CASE row.client = c /\ UpsertRow(r)
        <5>1. recSubs[c] = subs[c] /\ req[r].subs = subs[c]
          BY <3>3, <4>0, <4>2 DEF UpsertRow, FlightInv
        <5>2. PICK S \in {req[r].subs, recSubs[c]} : rows' = StoreRow(ClientRecord(c, S))
          BY <4>2 DEF UpsertRow
        <5>3. row.subs = S
          BY <4>2, <5>2 DEF StoreRow, ClientRecord
        <5> QED BY <3>1, <4>2, <5>1, <5>2, <5>3
      <4>3. CASE row.client = c /\ ~UpsertRow(r)
        <5>1. rows' = rows /\ req'[r].pc \notin {"applied", "snapped", "recorded"}
          BY <1>3, <2>2, <3>1, <4>3 DEF Request, Snapshot, AssignRecord, Marshal, NotifyUpsert, BroadcastFails, Stored
        <5>2. req[r].pc \in {"stored", "marshalled"}
          BY <1>3, <2>2, <4>3, <5>1 DEF Request, Snapshot, AssignRecord, Marshal, NotifyUpsert, BroadcastFails, Fault, TypeOK
        <5>3. Stored(c)
          BY <2>0, <3>2, <4>3, <5>2 DEF Stored
        <5> QED BY <3>1, <3>4, <4>0, <4>3, <5>1, <5>3 DEF RowInv
      <4> QED BY <4>1, <4>2, <4>3
    <3> QED BY <3>5, <3>6
  <2> QED BY <2>1, <2>2
<1>4. CASE UNCHANGED vars
  <2>1. UNCHANGED <<req, conn, subs, recSubs, rows>>
    BY <1>4 DEF vars
  <2>2. \A d : Stored(d)' => Stored(d)
    BY <2>1 DEF Stored
  <2> QED BY <1>0, <2>1, <2>2, QuietStep
<1> QED BY <1>1, <1>2, <1>3, <1>4 DEF Step

\* The invariants of the clients' requests together
LEMMA CurrentInit == RInit => CurrentInv
BY BridgeInit DEF RInit, Init, CurrentInv, WatchInv, Outdated, CutOff, OwnedInv, FlightInv, RowInv

\* Every step, with its history, keeps them
LEMMA CurrentKept ==
    ASSUME CurrentInv, [Step]_vars, Watch \/ UNCHANGED <<req, subs, conn, history>>
    PROVE  CurrentInv' /\ Remembers
<1>1. BridgeInv' /\ TypeInv'
  BY BridgeKept DEF CurrentInv, BridgeInv
<1>2. WatchInv' /\ Remembers
  BY <1>1, Watching DEF CurrentInv
<1>3. OwnedInv'
  BY <1>2, OwnedStep DEF CurrentInv, BridgeInv
<1>4. FlightInv' /\ RowInv'
  BY <1>2, FlightStep DEF CurrentInv, BridgeInv
<1> QED BY <1>1, <1>2, <1>3, <1>4 DEF CurrentInv

\* A step of the bridge with its history is a step and a watch, or a stutter
LEMMA HistoryBelow ==
    ASSUME [RNext]_rvars
    PROVE  [Step]_vars /\ (Watch \/ UNCHANGED <<req, subs, conn, history>>)
BY NextIsStep DEF RNext, rvars, vars

\* The invariants hold in every state
LEMMA CurrentInvariant == RSpec => []CurrentInv
<1>1. CurrentInv /\ [RNext]_rvars => CurrentInv'
  BY CurrentKept, HistoryBelow
<1> QED BY <1>1, CurrentInit, PTL DEF RSpec

\* However the requests of a client overlap, its row holds its subscriptions whenever they
\* are over, if none was overtaken after its snapshot and none failed: no lease, cleanup
\* or crash of another process interferes
THEOREM RowsAreCurrent == RSpec => []RowIsCurrent
<1>1. ASSUME NEW c, Settled(c) PROVE Stored(c)
  BY <1>1 DEF Settled, Stored, InFlight
<1>2. CurrentInv => RowIsCurrent
  BY <1>1 DEF CurrentInv, RowInv, RowIsCurrent
<1> QED BY <1>2, CurrentInvariant, PTL

-----------------------------------------------------------------------------
(***************************************************************************)
(* What the other processes know about a client.                           *)
(***************************************************************************)

\* The places of the upserts of a client in an inbox; the last one carries S
Upserts(s, c) == {k \in 1..Len(s) : s[k].type = "subscription_upsert" /\ s[k].rec.client = c}
LastCarries(s, c, S) ==
    \A k \in Upserts(s, c) : (\A j \in Upserts(s, c) : j <= k) => s[k].rec.subs = S

\* Appending to an inbox
LEMMA AppendUpserts ==
    ASSUME NEW s \in Seq(Message), NEW m \in Message, NEW c, NEW S
    PROVE  /\ ~(m.type = "subscription_upsert" /\ m.rec.client = c) =>
                /\ Upserts(Append(s, m), c) = Upserts(s, c)
                /\ LastCarries(s, c, S) => LastCarries(Append(s, m), c, S)
           /\ m.type = "subscription_upsert" /\ m.rec.client = c /\ m.rec.subs = S =>
                /\ Upserts(Append(s, m), c) # {}
                /\ LastCarries(Append(s, m), c, S)
<1> DEFINE t == Append(s, m)
<1>1. Len(t) = Len(s) + 1 /\ Len(s) \in Nat /\ t[Len(s) + 1] = m /\ \A k \in 1..Len(s) : t[k] = s[k]
  OBVIOUS
<1> HIDE DEF t
<1>2. \A k \in 1..Len(t) : k \in 1..Len(s) \/ k = Len(s) + 1
  BY <1>1
<1>3. CASE ~(m.type = "subscription_upsert" /\ m.rec.client = c)
  <2>1. Upserts(t, c) = Upserts(s, c)
    BY <1>1, <1>2, <1>3 DEF Upserts
  <2>2. \A k \in Upserts(s, c) : t[k] = s[k]
    BY <1>1 DEF Upserts
  <2> QED BY <1>3, <2>1, <2>2 DEF LastCarries, t
<1>4. CASE m.type = "subscription_upsert" /\ m.rec.client = c
  <2>1. Len(s) + 1 \in Upserts(t, c)
    BY <1>1, <1>4 DEF Upserts
  <2>2. ASSUME NEW k \in Upserts(t, c), \A j \in Upserts(t, c) : j <= k PROVE t[k] = m
    <3>1. k \in 1..Len(t) /\ Len(s) + 1 <= k
      BY <2>1, <2>2 DEF Upserts
    <3> QED BY <1>1, <1>2, <3>1
  <2> QED BY <1>4, <2>1, <2>2 DEF LastCarries, t
<1> QED BY <1>3, <1>4

\* Handling the head of an inbox
LEMMA TailUpserts ==
    ASSUME NEW s \in Seq(Message), s # <<>>, NEW c, NEW S, LastCarries(s, c, S)
    PROVE  /\ LastCarries(Tail(s), c, S)
           /\ Upserts(Tail(s), c) = {} =>
                \/ Upserts(s, c) = {}
                \/ Head(s).type = "subscription_upsert" /\ Head(s).rec.client = c /\ Head(s).rec.subs = S
<1> DEFINE t == Tail(s)
<1>1. Len(t) = Len(s) - 1 /\ Len(s) \in Nat \ {0} /\ Head(s) = s[1] /\ \A k \in 1..Len(t) : t[k] = s[k + 1]
  OBVIOUS
<1> HIDE DEF t
<1>2. \A k \in Upserts(t, c) : k + 1 \in Upserts(s, c) /\ k \in Nat
  BY <1>1 DEF Upserts
<1>3. \A k \in Upserts(s, c) : k = 1 \/ (k - 1 \in Upserts(t, c) /\ k \in Nat)
  <2> SUFFICES ASSUME NEW k \in Upserts(s, c), k # 1 PROVE k - 1 \in Upserts(t, c) /\ k \in Nat
    OBVIOUS
  <2>1. k \in 1..Len(s) /\ k - 1 \in 1..Len(t)
    BY <1>1 DEF Upserts
  <2>2. t[k - 1] = s[k - 1 + 1] /\ k - 1 + 1 = k
    BY <1>1, <2>1
  <2>3. t[k - 1] = s[k]
    BY <2>2
  <2> QED BY <2>1, <2>3 DEF Upserts
<1>4. LastCarries(t, c, S)
  <2> SUFFICES ASSUME NEW k \in Upserts(t, c), \A j \in Upserts(t, c) : j <= k PROVE t[k].rec.subs = S
    BY DEF LastCarries
  <2>1. k + 1 \in Upserts(s, c) /\ k \in Nat /\ k \in 1..Len(t)
    BY <1>2 DEF Upserts
  <2>2. \A j \in Upserts(s, c) : j <= k + 1
    BY <1>3, <2>1
  <2> QED BY <1>1, <2>1, <2>2 DEF LastCarries
<1>5. ASSUME Upserts(t, c) = {}, Upserts(s, c) # {}
      PROVE  Head(s).type = "subscription_upsert" /\ Head(s).rec.client = c /\ Head(s).rec.subs = S
  <2>1. 1 \in Upserts(s, c) /\ \A j \in Upserts(s, c) : j <= 1
    BY <1>3, <1>5
  <2> QED BY <1>1, <2>1 DEF LastCarries, Upserts
<1> QED BY <1>4, <1>5 DEF t

\* A broker holds local clients of its process only, files remote clients under ids it has
\* drawn, and holds none before its process listens
BrokerInv ==
    /\ \A i \in Instances : \A c \in local[i] : home[c] = i
    /\ \A i \in Instances : \A e \in remotes[i] : e.id < made[i]
    /\ \A i \in Instances : ~listening[i] => inbox[i] = <<>>
    /\ "break" \notin faults => \A i \in Instances : ~listening[i] => remotes[i] = {}

\* The last upsert of a client under way to a process, or else its newest remote client
\* there, carries the client's subscriptions
Carried(i, c) ==
    /\ LastCarries(inbox[i], c, subs[c])
    /\ Upserts(inbox[i], c) = {} =>
         \A e \in remotes[i] :
            e.client = c /\ (\A f \in remotes[i] : f.client = c => f.id <= e.id) => e.subs = subs[c]

NewestInv ==
    faults \cap {"break", "fail"} = {} =>
        \A i \in Instances, c \in Clients \ outdated : conn[c] = "open" /\ Settled(c) => Carried(i, c)

\* What handling a notification leaves of a broker
LEMMA HandleEffect ==
    ASSUME BridgeInv, BrokerInv, NEW i \in Instances, HandleShared(i)
    PROVE  LET m == Head(inbox[i]) IN
           /\ inbox[i] \in Seq(Message) /\ inbox[i] # <<>> /\ inbox' = [inbox EXCEPT ![i] = Tail(@)]
           /\ m \in Message /\ SentFromHome(home, m) /\ UNCHANGED <<home, conn, subs, req, faults, listening>>
           /\ \A j \in Instances \ {i} : remotes'[j] = remotes[j] /\ made'[j] = made[j]
           /\ \A j \in Instances : local'[j] \subseteq local[j]
           /\ \/ remotes'[i] = remotes[i] /\ made'[i] = made[i]
                 /\ (m.type = "subscription_upsert" => m.sender = i)
              \/ \E ch : remotes'[i] = {e \in remotes[i] : e.chan # ch} /\ made'[i] = made[i]
                        /\ m.type = "channel_offline"
              \/ /\ m.type = "subscription_upsert" /\ m.sender # i
                 /\ remotes'[i] = remotes[i] \cup {NewRemote(made[i], m.rec)} /\ made'[i] = made[i] + 1
<1> DEFINE m == Head(inbox[i])
<1>0. TypeOK
  BY DEF BridgeInv, TypeInv
<1>1. inbox[i] \in Seq(Message) /\ inbox[i] # <<>> /\ inbox' = [inbox EXCEPT ![i] = Tail(@)]
      /\ UNCHANGED <<home, conn, subs, req, faults, listening>>
  BY <1>0 DEF HandleShared, TypeOK
<1>2. m \in Message /\ SentFromHome(home, m)
  <2>1. m = inbox[i][1] /\ 1 \in 1..Len(inbox[i])
    BY <1>1
  <2> QED BY <1>1, <2>1 DEF BridgeInv, MessagesFromHome
<1>3. \A e \in remotes[i] : e.id \notin Clients
  BY <1>0, BridgeAssumption DEF TypeOK, Remote
<1> DEFINE Effect ==
        /\ \A j \in Instances \ {i} : remotes'[j] = remotes[j] /\ made'[j] = made[j]
        /\ \A j \in Instances : local'[j] \subseteq local[j]
        /\ \/ remotes'[i] = remotes[i] /\ made'[i] = made[i]
              /\ (m.type = "subscription_upsert" => m.sender = i)
           \/ \E ch : remotes'[i] = {e \in remotes[i] : e.chan # ch} /\ made'[i] = made[i]
                     /\ m.type = "channel_offline"
           \/ /\ m.type = "subscription_upsert" /\ m.sender # i
              /\ remotes'[i] = remotes[i] \cup {NewRemote(made[i], m.rec)} /\ made'[i] = made[i] + 1
<1>4. ASSUME m.sender = i /\ UNCHANGED brokerVars PROVE Effect
  BY <1>4
<1>5. ASSUME m.sender # i /\ m.type = "subscription_upsert" /\ HandleUpsert(i, m.rec) PROVE Effect
  <2>1. m.rec \in Record /\ m.rec.by # i /\ home[m.rec.client] # i
    BY <1>2, <1>5, MessageFields DEF SentFromHome
  <2>2. m.rec.client \in Clients /\ m.rec.client \notin local[i]
    BY <2>1 DEF Record, BrokerInv
  <2>3. {e \in remotes[i] : e.id = m.rec.client} = {}
    BY <1>3, <2>2
  <2>4. /\ UNCHANGED local
        /\ remotes' = [remotes EXCEPT ![i] = @ \cup {NewRemote(made[i], m.rec)}]
        /\ made' = [made EXCEPT ![i] = @ + 1]
    BY <1>5, <2>1, <2>2, <2>3 DEF HandleUpsert
  <2> HIDE DEF m
  <2> QED BY <1>0, <1>5, <2>4 DEF TypeOK
<1>6. ASSUME m.sender # i /\ m.type = "subscription_delete" /\ HandleDelete(i, m.client) PROVE Effect
  <2>1. m.client \in Clients
    BY <1>2, <1>6, MessageFields
  <2>2. {e \in remotes[i] : e.id # m.client} = remotes[i]
    BY <1>3, <2>1
  <2> HIDE DEF m
  <2> QED BY <1>0, <1>6, <2>2 DEF TypeOK, HandleDelete
<1>7. ASSUME m.sender # i /\ m.type = "channel_offline" /\ HandleOffline(i, m.chan) PROVE Effect
  <2> HIDE DEF m
  <2>1. remotes'[i] = {e \in remotes[i] : e.chan # m.chan} /\ UNCHANGED <<local, made>>
        /\ \A j \in Instances \ {i} : remotes'[j] = remotes[j]
    BY <1>0, <1>7 DEF TypeOK, HandleOffline
  <2> QED BY <1>7, <2>1
<1>8. Effect
  BY <1>4, <1>5, <1>6, <1>7 DEF HandleShared
<1> QED BY <1>1, <1>2, <1>8

\* Every step keeps the brokers in order
LEMMA BrokerStep ==
    ASSUME BridgeInv, BrokerInv, [Step]_vars
    PROVE  BrokerInv'
<1> USE DEF BridgeInv, TypeInv
<1>0. HomeStable /\ faults \subseteq faults' /\ \A i \in Instances : \A c \in local[i] : c \in Clients
  BY HomeIsStable, FaultsStay DEF HomeStable, TypeOK
<1>1. ASSUME NEW i \in Instances, HandleShared(i) PROVE BrokerInv'
  <2> DEFINE m == Head(inbox[i])
  <2>1. made[i] \in Nat /\ listening[i] /\ inbox[i] # <<>>
    BY <1>1 DEF TypeOK, BrokerInv, HandleShared
  <2>2. \A e \in remotes'[i] : e.id < made'[i]
    <3>1. \A e \in remotes[i] : e.id < made[i] /\ e.id \in Nat
      BY DEF BrokerInv, TypeOK, Remote
    <3>2. NewRemote(made[i], m.rec).id = made[i]
      BY DEF NewRemote
    <3> HIDE DEF BridgeInv
    <3> QED BY <1>1, <2>1, <3>1, <3>2, HandleEffect
  <2>3. /\ UNCHANGED <<home, faults, listening>> /\ inbox' = [inbox EXCEPT ![i] = Tail(@)]
        /\ \A j \in Instances \ {i} : remotes'[j] = remotes[j] /\ made'[j] = made[j]
        /\ \A j \in Instances : local'[j] \subseteq local[j]
    <3> HIDE DEF BridgeInv
    <3> QED BY <1>1, HandleEffect
  <2> QED BY <2>1, <2>2, <2>3 DEF BrokerInv, TypeOK
<1>2. ASSUME NEW i \in Instances, Life(i) PROVE BrokerInv'
  <2>1. CASE HandleShared(i)
    BY <1>1, <2>1
  <2>2. CASE Stop(i)
    BY <2>2 DEF Stop, BrokerInv, TypeOK
  <2>3. CASE BreakListener(i)
    BY <2>3 DEF BreakListener, Fault, BrokerInv, TypeOK
  <2>4. CASE NotifyOffline(i)
    BY <2>4 DEF NotifyOffline, NotifyShared, BrokerInv
  <2>5. CASE Listen(i)
    BY <2>5 DEF Listen, BrokerInv, TypeOK
  <2>6. CASE UNCHANGED <<local, remotes, made, listening, inbox, home>>
    BY <1>0, <2>6 DEF BrokerInv
  <2> QED BY <1>2, <2>1, <2>2, <2>3, <2>4, <2>5, <2>6 DEF Life, Process, NotifyOfflineFails, Start, Serve, RenewLease, DeleteStale, ExpireLease
<1>3. ASSUME NEW c \in Clients, Connection(c) PROVE BrokerInv'
  <2>1. ASSUME NEW i \in Instances, Connect(c, i) PROVE BrokerInv'
    <3>1. \A j \in Instances : \A d \in local'[j] : home'[d] = j
      <4>1. \A j \in Instances : c \notin local[j]
        BY <2>1, BridgeAssumption DEF Connect, BrokerInv, NewHome
      <4>2. /\ \A j \in Instances \ {i} : local'[j] = local[j]
            /\ local'[i] = local[i] \cup {c}
            /\ home'[c] = i /\ \A d \in Clients \ {c} : home'[d] = home[d]
        BY <2>1 DEF Connect, TypeOK
      <4> QED BY <1>0, <4>1, <4>2 DEF BrokerInv
    <3> QED BY <2>1, <3>1 DEF Connect, BrokerInv
  <2>2. CASE DeleteRow(c) \/ GoOfflineFails(c)
    BY <1>0, <2>2 DEF DeleteRow, GoOfflineFails, BrokerInv
  <2>3. CASE NotifyDelete(c)
    BY <2>3 DEF NotifyDelete, NotifyShared, BrokerInv
  <2>4. CASE Disconnected(c)
    BY <2>4 DEF Disconnected, BrokerInv, TypeOK
  <2> QED BY <1>3, <2>1, <2>2, <2>3, <2>4 DEF Connection
<1>4. ASSUME NEW r \in Requests, Request(r) PROVE BrokerInv'
  <2>1. CASE NotifyUpsert(r)
    BY <2>1 DEF NotifyUpsert, NotifyShared, BrokerInv
  <2>2. CASE ~NotifyUpsert(r)
    BY <1>0, <1>4, <2>2 DEF Request, Subscribe, Snapshot, AssignRecord, UpsertRow, Marshal, BroadcastFails, BrokerInv
  <2> QED BY <2>1, <2>2
<1>5. CASE UNCHANGED vars
  BY <1>5 DEF vars, BrokerInv
<1> QED BY <1>2, <1>3, <1>4, <1>5 DEF Step

\* A listener that handles a notification knows as much of a client as before
LEMMA HandleCarries ==
    ASSUME BridgeInv, BrokerInv, NEW i \in Instances, HandleShared(i), NEW c \in Clients, Carried(i, c)
    PROVE  Carried(i, c)'
<1> DEFINE m == Head(inbox[i])
           s == inbox[i]
<1>0. TypeOK /\ RemotesPointHome /\ made[i] \in Nat
  BY DEF BridgeInv, TypeInv, TypeOK
<1>1. s \in Seq(Message) /\ s # <<>> /\ inbox'[i] = Tail(s) /\ subs' = subs
      /\ m \in Message /\ SentFromHome(home, m)
  BY <1>0, HandleEffect DEF TypeOK
<1>2. \/ remotes'[i] = remotes[i] /\ (m.type = "subscription_upsert" => m.sender = i)
      \/ \E ch : remotes'[i] = {e \in remotes[i] : e.chan # ch} /\ m.type = "channel_offline"
      \/ /\ m.type = "subscription_upsert" /\ m.sender # i
         /\ remotes'[i] = remotes[i] \cup {NewRemote(made[i], m.rec)}
  BY HandleEffect
<1>3. \A e \in remotes[i] : e.chan = home[e.client] /\ e.chan # i /\ e.id < made[i] /\ e.id \in Nat
  BY <1>0 DEF RemotesPointHome, BrokerInv, TypeOK, Remote
<1>4. /\ LastCarries(Tail(s), c, subs[c])
      /\ Upserts(Tail(s), c) = {} =>
           \/ Upserts(s, c) = {}
           \/ m.type = "subscription_upsert" /\ m.rec.client = c /\ m.rec.subs = subs[c]
  BY <1>1, TailUpserts DEF Carried
<1> DEFINE new == NewRemote(made[i], m.rec)
<1>5. new.id = made[i] /\ new.client = m.rec.client /\ new.subs = m.rec.subs
  BY DEF NewRemote
<1>6. ASSUME Upserts(Tail(s), c) = {}, NEW e \in remotes'[i], e.client = c,
             \A f \in remotes'[i] : f.client = c => f.id <= e.id
      PROVE  e.subs = subs[c]
  <2>1. CASE m.type = "subscription_upsert" /\ m.rec.client = c /\ m.rec.subs = subs[c]
    <3>1. m.sender # i
      <4>1. CASE remotes'[i] = remotes[i]
        BY <1>1, <1>3, <1>6, <2>1, <4>1 DEF SentFromHome
      <4>2. CASE remotes'[i] # remotes[i]
        BY <1>2, <2>1, <4>2
      <4> QED BY <4>1, <4>2
    <3>2. remotes'[i] = remotes[i] \cup {new}
      BY <1>2, <2>1, <3>1
    <3> HIDE DEF new
    <3>3. made[i] <= e.id
      BY <1>5, <1>6, <2>1, <3>2
    <3>4. e = new
      BY <1>0, <1>3, <1>6, <3>2, <3>3
    <3> QED BY <1>5, <2>1, <3>4
  <2>2. CASE Upserts(s, c) = {}
    <3>1. ~(m.type = "subscription_upsert" /\ m.rec.client = c)
      <4>1. 1 \in 1..Len(s) /\ s[1] = m
        BY <1>1
      <4> QED BY <2>2, <4>1 DEF Upserts
    <3> HIDE DEF new, m, s
    <3>2. e \in remotes[i] /\ \A f \in remotes[i] : f.client = c => f \in remotes'[i]
      <4>1. CASE remotes'[i] = remotes[i]
        BY <1>6, <4>1
      <4>2. ASSUME NEW ch, remotes'[i] = {f \in remotes[i] : f.chan # ch}
            PROVE  e \in remotes[i] /\ \A f \in remotes[i] : f.client = c => f \in remotes'[i]
        BY <1>3, <1>6, <4>2
      <4>3. CASE m.type = "subscription_upsert" /\ remotes'[i] = remotes[i] \cup {new}
        BY <1>5, <1>6, <3>1, <4>3
      <4> QED BY <1>2, <4>1, <4>2, <4>3 DEF new
    <3>3. \A f \in remotes[i] : f.client = c => f.id <= e.id
      BY <1>6, <3>2
    <3> QED BY <1>6, <2>2, <3>2, <3>3 DEF Carried, s
  <2> QED BY <1>4, <1>6, <2>1, <2>2
<1> HIDE DEF m, new
<1> QED BY <1>1, <1>4, <1>6 DEF Carried

\* When a client is connected and its requests are over, it was so before, unless it has
\* just connected or has just sent its record
LEMMA SettledBefore ==
    ASSUME BridgeInv, WatchInv, [Step]_vars, faults' \cap {"break", "fail"} = {},
           NEW c \in Clients \ outdated, conn'[c] = "open", Settled(c)'
    PROVE  \/ /\ conn[c] = "open" /\ Settled(c) /\ subs'[c] = subs[c]
              /\ \A r \in Requests : NotifyUpsert(r) => req[r].client # c
           \/ \E i \in Instances : Connect(c, i)
           \/ \E r \in Requests : NotifyUpsert(r) /\ req[r].client = c /\ subs'[c] = req[r].subs
<1> USE DEF BridgeInv, TypeInv
<1>0. Settled(c) => \A r \in Requests : NotifyUpsert(r) => req[r].client # c
  BY DEF Settled, InFlight, NotifyUpsert
<1>1. ASSUME NEW i \in Instances, Life(i) PROVE conn[c] = "open" /\ Settled(c) /\ subs'[c] = subs[c]
  <2>1. CASE Stop(i)
    <3>1. conn'[c] = IF home[c] = i THEN "closed" ELSE conn[c]
      BY <2>1 DEF Stop
    <3>2. home[c] # i /\ conn[c] = "open" /\ subs' = subs
      BY <2>1, <3>1 DEF Stop
    <3>3. ASSUME NEW r \in Requests, req[r].client = c PROVE req'[r] = req[r]
      BY <2>1, <3>2, <3>3 DEF Stop
    <3> QED BY <3>2, <3>3 DEF Settled, InFlight
  <2>2. CASE ~Stop(i)
    <3>1. UNCHANGED <<conn, req, subs>>
      BY <1>1, <2>2 DEF Life, Process, Start, Listen, Serve, BreakListener, RenewLease, DeleteStale,
         NotifyOffline, NotifyOfflineFails, ExpireLease, HandleShared
    <3> QED BY <3>1 DEF Settled, InFlight
  <2> QED BY <2>1, <2>2
<1>2. ASSUME NEW d \in Clients, Connection(d)
      PROVE  \/ conn[c] = "open" /\ Settled(c) /\ subs'[c] = subs[c]
             \/ \E i \in Instances : Connect(c, i)
  <2>1. CASE \E i \in Instances : Connect(d, i)
    <3>1. CASE d = c
      BY <2>1, <3>1
    <3>2. CASE d # c
      <4>1. conn'[c] = conn[c] /\ UNCHANGED <<req, subs>>
        BY <2>1, <3>2 DEF Connect, TypeOK
      <4> QED BY <4>1 DEF Settled, InFlight
    <3> QED BY <3>1, <3>2
  <2>2. CASE DeleteRow(d) \/ NotifyDelete(d) \/ GoOfflineFails(d) \/ Disconnected(d)
    BY <2>2 DEF DeleteRow, NotifyDelete, GoOfflineFails, Disconnected, TypeOK, Settled, InFlight
  <2> QED BY <1>2, <2>1, <2>2 DEF Connection
<1>3. ASSUME NEW r \in Requests, Request(r)
      PROVE  \/ conn[c] = "open" /\ Settled(c) /\ subs'[c] = subs[c]
             \/ NotifyUpsert(r) /\ req[r].client = c /\ subs'[c] = req[r].subs
  <2>0. conn' = conn
    BY <1>3 DEF Request, Subscribe, Snapshot, AssignRecord, UpsertRow, Marshal, NotifyUpsert, BroadcastFails
  <2>1. ASSUME NEW d \in Clients, NEW S \in SUBSET Topics, Subscribe(r, d, S)
        PROVE  conn[c] = "open" /\ Settled(c) /\ subs'[c] = subs[c]
    <3>1. req'[r] = [pc |-> "applied", client |-> d, subs |-> {}] /\ req[r].pc = "idle"
          /\ subs' = [subs EXCEPT ![d] = S]
      BY <2>1 DEF Subscribe, TypeOK
    <3>2. d # c
      BY <3>1 DEF Settled, InFlight
    <3>3. Settled(c)
      BY <2>1, <3>1, RequestEffect, <1>3 DEF Settled, InFlight
    <3> QED BY <2>0, <3>1, <3>2, <3>3 DEF TypeOK
  <2>2. CASE ~ \E d \in Clients, S \in SUBSET Topics : Subscribe(r, d, S)
    <3>1. InFlight(r) /\ req'[r].client = req[r].client /\ subs' = subs
          /\ \A q \in Requests \ {r} : req'[q] = req[q]
      BY <1>3, <2>2, RequestEffect
    <3>2. CASE req[r].client # c
      BY <2>0, <3>1, <3>2 DEF Settled, InFlight
    <3>3. CASE req[r].client = c
      <4>1. req'[r].pc \in {"idle", "done"}
        BY <3>1, <3>3 DEF Settled, InFlight
      <4>2. NotifyUpsert(r)
        <5>1. ~BroadcastFails(r)
          BY DEF BroadcastFails, Fault
        <5> QED BY <1>3, <2>2, <4>1, <5>1 DEF Request, Snapshot, AssignRecord, UpsertRow, Marshal, TypeOK
      <4>3. req[r].subs = subs[c]
        BY <3>3, <4>2 DEF NotifyUpsert, WatchInv, Outdated
      <4> QED BY <3>1, <3>3, <4>2, <4>3
    <3> QED BY <3>2, <3>3
  <2> QED BY <2>1, <2>2
<1>4. ASSUME UNCHANGED vars PROVE conn[c] = "open" /\ Settled(c) /\ subs'[c] = subs[c]
  BY <1>4 DEF vars, Settled, InFlight
<1> HIDE DEF BridgeInv, TypeInv
<1>5. CASE conn[c] = "open" /\ Settled(c) /\ subs'[c] = subs[c]
  BY <1>0, <1>5
<1>6. CASE Step
  BY <1>1, <1>2, <1>3, <1>5, <1>6 DEF Step
<1> QED BY <1>0, <1>4, <1>6

\* A step that sends the broker of i nothing about c
LEMMA CarriedKept ==
    ASSUME TypeInv, NEW i \in Instances, NEW c \in Clients, Carried(i, c),
           subs'[c] = subs[c], remotes'[i] = remotes[i],
           \/ inbox'[i] = inbox[i]
           \/ \E m \in Message : /\ inbox'[i] = Append(inbox[i], m)
                                /\ ~(m.type = "subscription_upsert" /\ m.rec.client = c)
    PROVE  Carried(i, c)'
<1>1. inbox[i] \in Seq(Message)
  BY DEF TypeInv, TypeOK
<1>2. LastCarries(inbox'[i], c, subs[c]) /\ Upserts(inbox'[i], c) = Upserts(inbox[i], c)
  BY <1>1, AppendUpserts DEF Carried
<1> QED BY <1>2 DEF Carried

\* Every step keeps the last upsert, or else the newest remote client, up to date
LEMMA NewestStep ==
    ASSUME BridgeInv, BrokerInv, WatchInv, Remembers, NewestInv, [Step]_vars
    PROVE  NewestInv'
<1> SUFFICES ASSUME faults' \cap {"break", "fail"} = {}, NEW i \in Instances, NEW c \in Clients \ outdated,
                    conn'[c] = "open", Settled(c)'
             PROVE  Carried(i, c)'
  BY DEF NewestInv, Remembers
<1>0. TypeInv /\ TypeOK /\ HomeInv /\ faults \cap {"break", "fail"} = {}
  BY FaultsStay DEF BridgeInv, TypeInv
<1>1. ASSUME NEW j \in Instances, Connect(c, j) PROVE Carried(i, c)'
  <2>1. home[c] = Nobody /\ UNCHANGED <<inbox, remotes>> /\ Nobody \notin Instances
    BY <1>1, BridgeAssumption DEF Connect, BridgeInv, NewHome
  <2>2. Upserts(inbox[i], c) = {}
    <3> SUFFICES ASSUME NEW k \in Upserts(inbox[i], c) PROVE FALSE
      OBVIOUS
    <3>1. k \in 1..Len(inbox[i]) /\ inbox[i][k].type = "subscription_upsert" /\ inbox[i][k].rec.client = c
      BY DEF Upserts
    <3>2. SentFromHome(home, inbox[i][k])
      BY <3>1 DEF BridgeInv, MessagesFromHome
    <3>3. inbox[i][k] \in Message
      BY <1>0, <3>1 DEF TypeOK
    <3>4. inbox[i][k].sender = Nobody
      BY <2>1, <3>1, <3>2 DEF SentFromHome
    <3> QED BY <2>1, <3>3, <3>4, MessageFields
  <2>3. \A e \in remotes[i] : e.client # c
    <3>1. \A e \in remotes[i] : e.chan = home[e.client] /\ e.chan \in Instances
      BY <1>0 DEF BridgeInv, RemotesPointHome, TypeOK, Remote
    <3> QED BY <2>1, <3>1
  <2>4. Upserts(inbox'[i], c) = {} /\ remotes'[i] = remotes[i]
    BY <2>1, <2>2
  <2> QED BY <2>3, <2>4 DEF Carried, LastCarries
<1>2. ASSUME NEW r \in Requests, NotifyUpsert(r), req[r].client = c, subs'[c] = req[r].subs PROVE Carried(i, c)'
  <2> DEFINE m == [type |-> "subscription_upsert", sender |-> home[c], rec |-> ClientRecord(c, req[r].subs)]
  <2>1. NotifyShared(m) /\ remotes' = remotes
    BY <1>2 DEF NotifyUpsert
  <2>2. m \in Message
    <3>1. home[c] \in Instances /\ req[r].subs \in SUBSET Topics
      BY <1>0, <1>2 DEF NotifyUpsert, TypeInv, ReqInv, TypeOK
    <3> QED BY <3>1, ClientRecordType DEF Message
  <2>3. m.type = "subscription_upsert" /\ m.rec.client = c /\ m.rec.subs = subs'[c]
    BY <1>2 DEF ClientRecord
  <2> HIDE DEF m
  <2>4. CASE listening[i]
    <3>1. inbox[i] \in Seq(Message) /\ inbox'[i] = Append(inbox[i], m)
      BY <1>0, <2>1, <2>4 DEF NotifyShared, TypeOK
    <3>2. Upserts(inbox'[i], c) # {} /\ LastCarries(inbox'[i], c, subs'[c])
      <4>1. PICK S, s : S = subs'[c] /\ s = inbox[i]
        OBVIOUS
      <4>2. s \in Seq(Message) /\ m.rec.subs = S
        BY <2>3, <3>1, <4>1
      <4>3. Upserts(Append(s, m), c) # {} /\ LastCarries(Append(s, m), c, S)
        BY <2>2, <2>3, <4>2, AppendUpserts
      <4> QED BY <3>1, <4>1, <4>3
    <3> QED BY <3>2 DEF Carried
  <2>5. CASE ~listening[i]
    <3>1. inbox'[i] = <<>> /\ remotes'[i] = {}
      BY <1>0, <2>1, <2>5 DEF NotifyShared, BrokerInv
    <3>2. Upserts(inbox'[i], c) = {}
      BY <3>1 DEF Upserts
    <3> QED BY <3>1, <3>2 DEF Carried, LastCarries
  <2> QED BY <2>4, <2>5
<1>3. ASSUME conn[c] = "open", Settled(c), subs'[c] = subs[c],
             \A r \in Requests : NotifyUpsert(r) => req[r].client # c
      PROVE  Carried(i, c)'
  <2>0. Carried(i, c)
    BY <1>0, <1>3 DEF NewestInv
  <2>1. CASE inbox'[i] = inbox[i] /\ remotes'[i] = remotes[i]
    BY <1>0, <1>3, <2>0, <2>1, CarriedKept
  <2>2. ASSUME NEW m \in Message, NotifyShared(m), remotes' = remotes,
               ~(m.type = "subscription_upsert" /\ m.rec.client = c)
        PROVE  Carried(i, c)'
    <3>1. inbox'[i] = inbox[i] \/ inbox'[i] = Append(inbox[i], m)
      BY <2>2 DEF NotifyShared
    <3> QED BY <1>0, <1>3, <2>0, <2>2, <3>1, CarriedKept
  <2>3. ASSUME NEW j \in Instances, Life(j) PROVE Carried(i, c)'
    <3>1. CASE HandleShared(j) /\ j = i
      BY <2>0, <3>1, HandleCarries
    <3>2. CASE HandleShared(j) /\ j # i
      <4>1. inbox' = [inbox EXCEPT ![j] = Tail(@)] /\ remotes'[i] = remotes[i]
        BY <3>2, HandleEffect
      <4> QED BY <1>0, <2>1, <3>2, <4>1 DEF TypeOK
    <3>3. CASE NotifyOffline(j)
      <4>1. PICK ch \in Instances : NotifyShared([type |-> "channel_offline", sender |-> j, chan |-> ch])
        BY <1>0, <3>3 DEF NotifyOffline, TypeOK
      <4>2. [type |-> "channel_offline", sender |-> j, chan |-> ch] \in Message /\ remotes' = remotes
        BY <3>3 DEF Message, NotifyOffline
      <4> QED BY <2>2, <4>1, <4>2
    <3>4. CASE Stop(j) /\ j = i
      <4>1. inbox'[i] = <<>> /\ remotes'[i] = {}
        BY <1>0, <3>4 DEF Stop, TypeOK
      <4>2. Upserts(inbox'[i], c) = {}
        BY <4>1 DEF Upserts
      <4> QED BY <4>1, <4>2 DEF Carried, LastCarries
    <3>5. CASE Stop(j) /\ j # i
      BY <1>0, <2>1, <3>5 DEF Stop, TypeOK
    <3>6. ~BreakListener(j)
      BY DEF BreakListener, Fault
    <3>7. CASE UNCHANGED <<inbox, remotes>>
      BY <2>1, <3>7
    <3> QED BY <2>3, <3>1, <3>2, <3>3, <3>4, <3>5, <3>6, <3>7 DEF Life, Process, NotifyOfflineFails, Start, Listen, Serve, RenewLease,
               DeleteStale, ExpireLease
  <2>4. ASSUME NEW d \in Clients, Connection(d) PROVE Carried(i, c)'
    <3>1. CASE NotifyDelete(d)
      <4> DEFINE m == [type |-> "subscription_delete", sender |-> home[d], client |-> d]
      <4>1. NotifyShared(m) /\ remotes' = remotes /\ m.type # "subscription_upsert"
        BY <3>1 DEF NotifyDelete
      <4>2. m \in Message
        BY <1>0, <3>1 DEF NotifyDelete, HomeInv, Message
      <4> HIDE DEF m
      <4> QED BY <2>2, <4>1, <4>2
    <3>2. CASE ~NotifyDelete(d)
      BY <2>1, <2>4, <3>2 DEF Connection, Connect, DeleteRow, GoOfflineFails, Disconnected
    <3> QED BY <3>1, <3>2
  <2>5. ASSUME NEW r \in Requests, Request(r) PROVE Carried(i, c)'
    <3>1. CASE NotifyUpsert(r)
      <4> DEFINE d == req[r].client
                 m == [type |-> "subscription_upsert", sender |-> home[d], rec |-> ClientRecord(d, req[r].subs)]
      <4>1. NotifyShared(m) /\ remotes' = remotes /\ m.rec.client # c
        BY <1>3, <3>1 DEF NotifyUpsert, ClientRecord
      <4>2. m \in Message
        <5>1. d \in Clients /\ home[d] \in Instances /\ req[r].subs \in SUBSET Topics
          BY <1>0, <3>1 DEF NotifyUpsert, TypeInv, ReqInv, TypeOK
        <5> QED BY <5>1, ClientRecordType DEF Message
      <4> HIDE DEF m
      <4> QED BY <2>2, <4>1, <4>2
    <3>2. CASE ~NotifyUpsert(r)
      BY <2>1, <2>5, <3>2 DEF Request, Subscribe, Snapshot, AssignRecord, UpsertRow, Marshal, BroadcastFails
    <3> QED BY <3>1, <3>2
  <2>6. CASE UNCHANGED vars
    BY <2>1, <2>6 DEF vars
  <2> QED BY <2>3, <2>4, <2>5, <2>6 DEF Step
<1> QED BY <1>1, <1>2, <1>3, SettledBefore

\* However the requests of a client overlap, the newest remote client of every process that
\* has handled its notifications carries the client's subscriptions once they are over, if
\* none was overtaken after its snapshot, up to the first lost connection of a listener or
\* failed statement: crashes, leases and cleanups overtake no upsert
THEOREM RemotesCatchUp == RSpec => []NewestRemoteIsCurrent
<1>1. RInit => BrokerInv /\ NewestInv
  BY DEF RInit, Init, BrokerInv, NewestInv
<1>2. CurrentInv /\ BrokerInv /\ NewestInv /\ [RNext]_rvars => (BrokerInv /\ NewestInv)'
  BY HistoryBelow, CurrentKept, BrokerStep, NewestStep DEF CurrentInv
<1>3. CurrentInv /\ NewestInv => NewestRemoteIsCurrent
  <2> SUFFICES ASSUME TypeOK, NewestInv, faults \cap {"break", "fail"} = {}, NEW i \in Instances, NEW e \in remotes[i],
                      inbox[i] = <<>>, conn[e.client] = "open", Settled(e.client), e.client \notin outdated,
                      \A f \in remotes[i] : f.client = e.client => f.id <= e.id
               PROVE  e.subs = subs[e.client]
    BY DEF NewestRemoteIsCurrent, CurrentInv, BridgeInv, TypeInv
  <2>1. e.client \in Clients
    BY DEF TypeOK, Remote
  <2>2. Carried(i, e.client) /\ Upserts(inbox[i], e.client) = {}
    BY <2>1 DEF NewestInv, Upserts
  <2> QED BY <2>2 DEF Carried
<1> QED BY <1>1, <1>2, <1>3, CurrentInvariant, PTL DEF RSpec

-----------------------------------------------------------------------------
(***************************************************************************)
(* OfflineHistory: what an inbox may still say about a dead channel.       *)
(***************************************************************************)

\* A message that would bring back a remote client of channel d, and k's word that d is gone
Speaks(m, d) == m.type = "subscription_upsert" /\ m.rec.chan = d
Farewell(m, d, k) == m.type = "channel_offline" /\ m.sender = k /\ m.chan = d

\* An inbox without the former, and one with the latter after every one of the former
Quiet(s, d) == \A q \in 1..Len(s) : ~Speaks(s[q], d)
Leaves(s, d, k) ==
    \E p \in 1..Len(s) : Farewell(s[p], d, k) /\ \A q \in 1..Len(s) : p < q => ~Speaks(s[q], d)

\* A message that is no upsert of d changes neither
LEMMA AppendQuiet ==
    ASSUME NEW s \in Seq(Message), NEW m \in Message, NEW d, NEW k, ~Speaks(m, d)
    PROVE  /\ Quiet(s, d) => Quiet(Append(s, m), d)
           /\ Leaves(s, d, k) => Leaves(Append(s, m), d, k)
<1> DEFINE t == Append(s, m)
<1>1. Len(t) = Len(s) + 1 /\ Len(s) \in Nat /\ t[Len(s) + 1] = m /\ \A q \in 1..Len(s) : t[q] = s[q]
  OBVIOUS
<1> HIDE DEF t
<1>2. \A q \in 1..Len(t) : q \in 1..Len(s) \/ q = Len(s) + 1
  BY <1>1
<1>3. Quiet(s, d) => Quiet(t, d)
  BY <1>1, <1>2 DEF Quiet
<1>4. ASSUME Leaves(s, d, k) PROVE Leaves(t, d, k)
  <2>1. PICK p \in 1..Len(s) : Farewell(s[p], d, k) /\ \A q \in 1..Len(s) : p < q => ~Speaks(s[q], d)
    BY <1>4 DEF Leaves
  <2>2. p \in 1..Len(t) /\ t[p] = s[p]
    BY <1>1
  <2>3. \A q \in 1..Len(t) : p < q => ~Speaks(t[q], d)
    BY <1>1, <1>2, <2>1
  <2> QED BY <2>1, <2>2, <2>3 DEF Leaves
<1> QED BY <1>3, <1>4 DEF t

\* A farewell at the end comes after everything
LEMMA AppendFarewell ==
    ASSUME NEW s \in Seq(Message), NEW m \in Message, NEW d, NEW k, Farewell(m, d, k)
    PROVE  Leaves(Append(s, m), d, k)
<1> DEFINE t == Append(s, m)
<1>1. Len(t) = Len(s) + 1 /\ Len(s) \in Nat /\ t[Len(s) + 1] = m
  OBVIOUS
<1> HIDE DEF t
<1>2. Len(t) \in 1..Len(t) /\ t[Len(t)] = m /\ \A q \in 1..Len(t) : ~(Len(t) < q)
  BY <1>1
<1>3. Leaves(t, d, k)
  BY <1>2 DEF Leaves
<1> QED BY <1>3 DEF t

\* Handling the head leaves the rest as it was, unless the head was the farewell
LEMMA TailQuiet ==
    ASSUME NEW s \in Seq(Message), s # <<>>, NEW d, NEW k
    PROVE  /\ Quiet(s, d) => Quiet(Tail(s), d) /\ ~Speaks(Head(s), d)
           /\ Leaves(s, d, k) =>
                Leaves(Tail(s), d, k) \/ (Farewell(Head(s), d, k) /\ Quiet(Tail(s), d))
<1> DEFINE t == Tail(s)
           h == Head(s)
<1>1. Len(t) = Len(s) - 1 /\ Len(s) \in Nat \ {0} /\ h = s[1] /\ \A q \in 1..Len(t) : t[q] = s[q + 1]
  OBVIOUS
<1> HIDE DEF t, h
<1>2. ASSUME Quiet(s, d) PROVE Quiet(t, d) /\ ~Speaks(h, d)
  <2>1. 1 \in 1..Len(s) /\ \A q \in 1..Len(t) : q + 1 \in 1..Len(s)
    BY <1>1
  <2> QED BY <1>1, <1>2, <2>1 DEF Quiet
<1>3. ASSUME Leaves(s, d, k) PROVE Leaves(t, d, k) \/ (Farewell(h, d, k) /\ Quiet(t, d))
  <2>1. PICK p \in 1..Len(s) : Farewell(s[p], d, k) /\ \A q \in 1..Len(s) : p < q => ~Speaks(s[q], d)
    BY <1>3 DEF Leaves
  <2>2. \A q \in 1..Len(t) : q + 1 \in 1..Len(s) /\ q \in Nat
    BY <1>1
  <2>3. CASE p = 1
    <3>1. \A q \in 1..Len(t) : ~Speaks(t[q], d)
      BY <1>1, <2>1, <2>2, <2>3
    <3> QED BY <1>1, <2>1, <2>3, <3>1 DEF Quiet
  <2>4. CASE p # 1
    <3>1. p - 1 \in 1..Len(t) /\ p - 1 + 1 = p
      BY <1>1, <2>4
    <3>2. t[p - 1] = s[p]
      BY <1>1, <3>1
    <3>3. \A q \in 1..Len(t) : p - 1 < q => ~Speaks(t[q], d)
      BY <1>1, <2>1, <2>2
    <3>4. PICK n \in 1..Len(t) : n = p - 1
      BY <3>1
    <3> QED BY <2>1, <3>2, <3>3, <3>4 DEF Leaves
  <2> QED BY <2>3, <2>4
<1> QED BY <1>2, <1>3 DEF t, h

-----------------------------------------------------------------------------
\* A dead process serves no client and no request
DeadInv ==
    /\ \A i \in Instances : phase[i] = "dead" => local[i] = {}
    /\ \A r \in Requests : InFlight(r) => phase[home[req[r].client]] # "dead"

\* What is said of a dead channel is over, or will be once the broadcast is handled
Forgotten(i, d) == Quiet(inbox[i], d) /\ \A e \in remotes[i] : e.chan # d

ForgetInv ==
    "break" \notin faults =>
        \A d, k \in Instances : <<d, k>> \in declared =>
            \A i \in Instances \ {k} : Leaves(inbox[i], d, k) \/ Forgotten(i, d)

DeclaredDead == \A d, k \in Instances : <<d, k>> \in declared => phase[d] = "dead"

HistoryInv == BridgeInv /\ BrokerInv /\ DeadInv /\ DeclaredDead /\ ForgetInv

\* The dead stay dead
LEMMA DeadStay ==
    ASSUME TypeInv, [Step]_vars
    PROVE  \A i \in Instances : phase[i] = "dead" => phase'[i] = "dead"
<1> USE DEF TypeInv, TypeOK
<1>1. ASSUME NEW i \in Instances, Life(i)
      PROVE  \A j \in Instances : phase[j] = "dead" => phase'[j] = "dead"
  BY <1>1 DEF Life, Process, Start, Listen, Serve, BreakListener, Stop, RenewLease, DeleteStale,
     NotifyOffline, NotifyOfflineFails, ExpireLease, HandleShared, Alive
<1>2. ASSUME NEW c \in Clients, Connection(c) PROVE phase' = phase
  BY <1>2 DEF Connection, Connect, DeleteRow, NotifyDelete, GoOfflineFails, Disconnected
<1>3. ASSUME NEW r \in Requests, Request(r) PROVE phase' = phase
  BY <1>3 DEF Request, Subscribe, Snapshot, AssignRecord, UpsertRow, Marshal, NotifyUpsert, BroadcastFails
<1> QED BY <1>1, <1>2, <1>3 DEF Step, vars

\* The processes keep DeadInv
LEMMA ProcessKeepsDead ==
    ASSUME BridgeInv, BrokerInv, DeadInv, NEW i \in Instances, Life(i)
    PROVE  DeadInv'
<1> USE DEF DeadInv, InFlight
<1>0. TypeOK /\ ReqInv
  BY DEF BridgeInv, TypeInv
<1>1. CASE HandleShared(i)
  <2>1. UNCHANGED <<phase, home, req>>
    BY <1>1 DEF HandleShared
  <2>2. \A j \in Instances : local'[j] \subseteq local[j]
    BY <1>1, HandleEffect
  <2> QED BY <2>1, <2>2
<1>2. CASE Stop(i)
  <2>1. \A r \in Requests : /\ req'[r].client = req[r].client
                            /\ req'[r].pc = req[r].pc \/ req'[r].pc = "done"
                            /\ req[r].client # Nobody /\ home[req[r].client] = i => req'[r].pc = "done"
    BY <1>0, <1>2 DEF Stop, TypeOK, RequestPc
  <2>2. home' = home /\ local' = [local EXCEPT ![i] = {}] /\ phase' = [phase EXCEPT ![i] = "dead"]
    BY <1>2 DEF Stop
  <2>3. ASSUME NEW r \in Requests, InFlight(r)' PROVE phase'[home'[req'[r].client]] # "dead"
    <3>1. InFlight(r) /\ home[req[r].client] # i
      BY <1>0, <2>1, <2>3, BridgeAssumption DEF ReqInv
    <3>2. home[req[r].client] \in Instances /\ phase[home[req[r].client]] # "dead"
      BY <1>0, <3>1 DEF ReqInv
    <3> QED BY <1>0, <2>1, <2>2, <3>1, <3>2 DEF TypeOK
  <2> QED BY <1>0, <2>2, <2>3 DEF TypeOK
<1>3. CASE Start(i) \/ Serve(i)
  <2>1. UNCHANGED <<home, req, local>>
        /\ \A j \in Instances : phase'[j] = "dead" => phase[j] = "dead"
    BY <1>0, <1>3 DEF Start, Serve, TypeOK
  <2>2. \A r \in Requests : InFlight(r) => home[req[r].client] \in Instances
    BY <1>0 DEF ReqInv
  <2> QED BY <2>1, <2>2
<1>4. CASE UNCHANGED <<phase, home, req, local>>
  BY <1>4
<1> QED BY <1>1, <1>2, <1>3, <1>4 DEF Life, Process, Listen, BreakListener, RenewLease, DeleteStale,
       NotifyOffline, NotifyOfflineFails, ExpireLease

\* So do the clients and their requests
LEMMA DeadStep ==
    ASSUME BridgeInv, BrokerInv, DeadInv, [Step]_vars
    PROVE  DeadInv'
<1> USE DEF DeadInv, InFlight
<1>0. TypeOK /\ ReqInv /\ NewHome
  BY DEF BridgeInv, TypeInv
<1>1. ASSUME NEW c \in Clients, Connection(c) PROVE DeadInv'
  <2>1. UNCHANGED <<phase, req>>
    BY <1>1 DEF Connection, Connect, DeleteRow, NotifyDelete, GoOfflineFails, Disconnected
  <2>2. \A j \in Instances : phase[j] = "dead" => local'[j] \subseteq local[j]
    <3>1. CASE \E i \in Instances : Connect(c, i)
      BY <1>0, <3>1 DEF Connect, TypeOK
    <3>2. CASE DeleteRow(c) \/ NotifyDelete(c) \/ GoOfflineFails(c) \/ Disconnected(c)
      BY <1>0, <3>2 DEF DeleteRow, NotifyDelete, GoOfflineFails, Disconnected, TypeOK
    <3> QED BY <1>1, <3>1, <3>2 DEF Connection
  <2>3. \A r \in Requests : InFlight(r) => home'[req[r].client] = home[req[r].client]
    <3>1. HomeStable
      BY <1>1, HomeIsStable DEF HomeStable, BridgeInv, Step
    <3> QED BY <1>0, <3>1 DEF HomeStable, ReqInv
  <2> QED BY <2>1, <2>2, <2>3
<1>2. ASSUME NEW r \in Requests, Request(r) PROVE DeadInv'
  <2>1. UNCHANGED <<phase, home, local>>
    BY <1>2 DEF Request, Subscribe, Snapshot, AssignRecord, UpsertRow, Marshal, NotifyUpsert, BroadcastFails
  <2>2. \A q \in Requests \ {r} : req'[q] = req[q]
    BY <1>2, RequestEffect DEF BridgeInv
  <2>3. phase[home[req'[r].client]] # "dead"
    <3>1. CASE \E c \in Clients, S \in SUBSET Topics : Subscribe(r, c, S)
      <4>1. PICK c \in Clients, S \in SUBSET Topics : Subscribe(r, c, S)
        BY <3>1
      <4>2. req'[r].client = c /\ home[c] \in Instances /\ local[home[c]] # {}
        BY <1>0, <4>1 DEF Subscribe, TypeOK
      <4> QED BY <4>2
    <3>2. CASE ~ \E c \in Clients, S \in SUBSET Topics : Subscribe(r, c, S)
      <4>1. InFlight(r) /\ req'[r].client = req[r].client
        BY <1>2, <3>2, RequestEffect DEF BridgeInv
      <4> QED BY <4>1
    <3> QED BY <3>1, <3>2
  <2> QED BY <2>1, <2>2, <2>3
<1>3. CASE UNCHANGED vars
  BY <1>3 DEF vars
<1> QED BY <1>1, <1>2, <1>3, ProcessKeepsDead DEF Step

-----------------------------------------------------------------------------
\* A listener that handles a notification learns nothing of a dead channel again
LEMMA HandleForgets ==
    ASSUME BridgeInv, BrokerInv, NEW i \in Instances, HandleShared(i),
           NEW d \in Instances, NEW k \in Instances, i # k,
           Leaves(inbox[i], d, k) \/ Forgotten(i, d)
    PROVE  Leaves(inbox'[i], d, k) \/ Forgotten(i, d)'
<1> DEFINE m == Head(inbox[i])
<1>0. TypeOK
  BY DEF BridgeInv, TypeInv
<1>1. inbox[i] \in Seq(Message) /\ inbox[i] # <<>> /\ inbox'[i] = Tail(inbox[i])
  BY <1>0 DEF HandleShared, TypeOK
<1>2. \/ remotes'[i] = remotes[i]
      \/ \E ch : remotes'[i] = {e \in remotes[i] : e.chan # ch}
      \/ /\ m.type = "subscription_upsert"
         /\ remotes'[i] = remotes[i] \cup {NewRemote(made[i], m.rec)}
  <2>1. \/ remotes'[i] = remotes[i] /\ made'[i] = made[i]
           /\ (m.type = "subscription_upsert" => m.sender = i)
        \/ \E ch : remotes'[i] = {e \in remotes[i] : e.chan # ch} /\ made'[i] = made[i]
                  /\ m.type = "channel_offline"
        \/ /\ m.type = "subscription_upsert" /\ m.sender # i
           /\ remotes'[i] = remotes[i] \cup {NewRemote(made[i], m.rec)} /\ made'[i] = made[i] + 1
    BY HandleEffect, Zenon
  <2> QED BY <2>1
<1>3. CASE Leaves(inbox[i], d, k)
  <2>1. Leaves(inbox'[i], d, k) \/ (Farewell(m, d, k) /\ Quiet(inbox'[i], d))
    BY <1>1, <1>3, TailQuiet
  <2>2. ASSUME Farewell(m, d, k) PROVE \A e \in remotes'[i] : e.chan # d
    <3>1. m.sender # i /\ m.type = "channel_offline" /\ m.chan = d
      BY <2>2 DEF Farewell
    <3>2. HandleOffline(i, d)
      BY <3>1 DEF HandleShared
    <3> QED BY <1>0, <3>2 DEF HandleOffline, TypeOK
  <2> QED BY <2>1, <2>2 DEF Forgotten
<1>4. CASE Forgotten(i, d)
  <2>1. Quiet(inbox'[i], d) /\ ~Speaks(m, d) /\ \A e \in remotes[i] : e.chan # d
    BY <1>1, <1>4, TailQuiet DEF Forgotten
  <2>2. NewRemote(made[i], m.rec).chan = m.rec.chan
    BY DEF NewRemote
  <2>3. \A e \in remotes'[i] : e.chan # d
    BY <1>2, <2>1, <2>2 DEF Speaks
  <2> QED BY <2>1, <2>3 DEF Forgotten
<1> QED BY <1>3, <1>4

\* Nobody speaks for a dead process any more
LEMMA SentByTheLiving ==
    ASSUME BridgeInv, DeadInv, [Step]_vars, NEW d \in Instances, phase[d] = "dead",
           NEW i \in Instances
    PROVE  \/ UNCHANGED <<inbox[i], remotes[i]>>
           \/ \E m \in Message : ~Speaks(m, d) /\ inbox'[i] = Append(inbox[i], m)
                                 /\ remotes'[i] = remotes[i]
           \/ inbox'[i] = <<>> /\ remotes'[i] = {}
           \/ HandleShared(i)
           \/ "break" \in faults'
<1>0. TypeOK /\ ReqInv
  BY DEF BridgeInv, TypeInv
<1> DEFINE Sends(m) == m \in Message /\ ~Speaks(m, d) /\ NotifyShared(m) /\ remotes' = remotes
           Goal == \/ UNCHANGED <<inbox[i], remotes[i]>>
                   \/ \E m \in Message : ~Speaks(m, d) /\ inbox'[i] = Append(inbox[i], m)
                                         /\ remotes'[i] = remotes[i]
                   \/ inbox'[i] = <<>> /\ remotes'[i] = {}
                   \/ HandleShared(i)
                   \/ "break" \in faults'
<1>1. ASSUME NEW m, Sends(m) PROVE Goal
  <2>1. inbox'[i] = inbox[i] \/ inbox'[i] = Append(inbox[i], m)
    BY <1>1 DEF NotifyShared
  <2> QED BY <1>1, <2>1
<1>2. ASSUME NEW j \in Instances, Life(j) PROVE Goal
  <2>1. CASE NotifyOffline(j)
    <3>1. PICK ch \in Instances : NotifyShared([type |-> "channel_offline", sender |-> j, chan |-> ch])
      BY <1>0, <2>1 DEF NotifyOffline, TypeOK
    <3>2. PICK m : m = [type |-> "channel_offline", sender |-> j, chan |-> ch]
      OBVIOUS
    <3>3. m \in Message /\ ~Speaks(m, d)
      BY <3>2 DEF Message, Speaks
    <3>4. Sends(m)
      BY <2>1, <3>1, <3>2, <3>3 DEF NotifyOffline
    <3> QED BY <1>1, <3>4
  <2>2. CASE Stop(j)
    BY <1>0, <2>2 DEF Stop, TypeOK
  <2>3. CASE BreakListener(j)
    BY <2>3 DEF BreakListener, Fault
  <2>4. CASE HandleShared(j)
    <3>1. i = j \/ UNCHANGED <<inbox[i], remotes[i]>>
      BY <1>0, <2>4 DEF HandleShared, HandleUpsert, HandleDelete, HandleOffline, TypeOK
    <3> QED BY <2>4, <3>1
  <2>5. CASE UNCHANGED <<inbox, remotes>>
    BY <2>5
  <2> QED BY <1>2, <2>1, <2>2, <2>3, <2>4, <2>5 DEF Life, Process, NotifyOfflineFails, Start, Listen, Serve, RenewLease,
         DeleteStale, ExpireLease
<1>3. ASSUME NEW c \in Clients, Connection(c) PROVE Goal
  <2>1. CASE NotifyDelete(c)
    <3>1. home[c] \in Instances
      BY <2>1 DEF NotifyDelete, BridgeInv, TypeInv, HomeInv
    <3>2. PICK m : m = [type |-> "subscription_delete", sender |-> home[c], client |-> c]
      OBVIOUS
    <3>3. m \in Message /\ ~Speaks(m, d)
      BY <3>1, <3>2 DEF Message, Speaks
    <3>4. Sends(m)
      BY <2>1, <3>2, <3>3 DEF NotifyDelete
    <3> QED BY <1>1, <3>4
  <2>2. CASE UNCHANGED <<inbox, remotes>>
    BY <2>2
  <2> QED BY <1>3, <2>1, <2>2 DEF Connection, Connect, DeleteRow, GoOfflineFails, Disconnected
<1>4. ASSUME NEW r \in Requests, Request(r) PROVE Goal
  <2>1. CASE NotifyUpsert(r)
    <3> DEFINE c == req[r].client
    <3>1. c \in Clients /\ home[c] \in Instances /\ home[c] # d /\ req[r].subs \in SUBSET Topics
      BY <1>0, <2>1 DEF NotifyUpsert, ReqInv, DeadInv, InFlight, TypeOK
    <3>2. PICK m : m = [type |-> "subscription_upsert", sender |-> home[c],
                        rec |-> ClientRecord(c, req[r].subs)]
      OBVIOUS
    <3>3. ClientRecord(c, req[r].subs) \in Record /\ ClientRecord(c, req[r].subs).chan = home[c]
      BY <3>1, ClientRecordType DEF ClientRecord
    <3>4. m \in Message /\ ~Speaks(m, d)
      BY <3>1, <3>2, <3>3 DEF Message, Speaks
    <3>5. Sends(m)
      BY <2>1, <3>2, <3>4 DEF NotifyUpsert
    <3> QED BY <1>1, <3>5
  <2>2. CASE UNCHANGED <<inbox, remotes>>
    BY <2>2
  <2> QED BY <1>4, <2>1, <2>2 DEF Request, Subscribe, Snapshot, AssignRecord, UpsertRow, Marshal, BroadcastFails
<1>5. CASE UNCHANGED vars
  BY <1>5 DEF vars
<1> QED BY <1>2, <1>3, <1>4, <1>5 DEF Step

\* What a bystander is to forget, or has forgotten, stays so
LEMMA ForgettingLasts ==
    ASSUME BridgeInv, BrokerInv, DeadInv, [Step]_vars, "break" \notin faults',
           NEW d \in Instances, phase[d] = "dead", NEW k \in Instances, NEW i \in Instances, i # k,
           Leaves(inbox[i], d, k) \/ Forgotten(i, d)
    PROVE  Leaves(inbox'[i], d, k) \/ Forgotten(i, d)'
<1>0. inbox[i] \in Seq(Message)
  BY DEF BridgeInv, TypeInv, TypeOK
<1>1. CASE UNCHANGED <<inbox[i], remotes[i]>>
  BY <1>1 DEF Forgotten
<1>2. ASSUME NEW m \in Message, ~Speaks(m, d), inbox'[i] = Append(inbox[i], m), remotes'[i] = remotes[i]
      PROVE  Leaves(inbox'[i], d, k) \/ Forgotten(i, d)'
  BY <1>0, <1>2, AppendQuiet DEF Forgotten
<1>3. CASE inbox'[i] = <<>> /\ remotes'[i] = {}
  BY <1>3 DEF Forgotten, Quiet
<1>4. CASE HandleShared(i)
  BY <1>4, HandleForgets
<1> QED BY <1>1, <1>2, <1>3, <1>4, SentByTheLiving

\* A broadcast reaches every bystander that listens; one that does not listen has
\* nothing to forget
LEMMA Declaring ==
    ASSUME BridgeInv, BrokerInv, "break" \notin faults,
           NEW d \in Instances, NEW k \in Instances, Declares(k, d), NEW i \in Instances, i # k
    PROVE  Leaves(inbox'[i], d, k) \/ Forgotten(i, d)'
<1>0. TypeOK
  BY DEF BridgeInv, TypeInv
<1>1. NotifyOffline(k)
  BY DEF Declares
<1>2. PICK ch \in offline[k] : /\ NotifyShared([type |-> "channel_offline", sender |-> k, chan |-> ch])
                               /\ offline' = [offline EXCEPT ![k] = @ \ {ch}]
  BY <1>1 DEF NotifyOffline
<1>3. ch = d
  BY <1>0, <1>2 DEF Declares, TypeOK
<1>4. PICK m : m = [type |-> "channel_offline", sender |-> k, chan |-> d]
  OBVIOUS
<1>5. m \in Message /\ Farewell(m, d, k)
  BY <1>4 DEF Message, Farewell
<1>6. remotes' = remotes /\ inbox'[i] = IF listening[i] THEN Append(inbox[i], m) ELSE inbox[i]
  BY <1>1, <1>2, <1>3, <1>4 DEF NotifyOffline, NotifyShared
<1>7. CASE listening[i]
  <2>1. inbox[i] \in Seq(Message)
    BY <1>0 DEF TypeOK
  <2> QED BY <1>5, <1>6, <1>7, <2>1, AppendFarewell
<1>8. CASE ~listening[i]
  BY <1>6, <1>8 DEF BrokerInv, Forgotten, Quiet
<1> QED BY <1>7, <1>8

\* The history invariant is inductive
LEMMA HistoryStep ==
    ASSUME HistoryInv, [HNext]_<<vars, declared>>
    PROVE  HistoryInv'
<1> USE DEF HistoryInv
<1>1. [Step]_vars
  BY NextIsStep DEF HNext
<1>2. BridgeInv' /\ BrokerInv' /\ DeadInv'
  BY <1>1, BridgeKept, BrokerStep, DeadStep
<1>3. faults \subseteq faults' /\ \A i \in Instances : phase[i] = "dead" => phase'[i] = "dead"
  BY <1>1, FaultsStay, DeadStay DEF BridgeInv
<1>4. \A d, k \in Instances :
         <<d, k>> \in declared' => <<d, k>> \in declared \/ Declares(k, d)
  BY DEF HNext
<1>5. \A d, k \in Instances : <<d, k>> \in declared' => phase[d] = "dead"
  BY <1>4 DEF DeclaredDead, Declares
<1>6. ForgetInv'
  <2> SUFFICES ASSUME "break" \notin faults', NEW d \in Instances, NEW k \in Instances,
                      <<d, k>> \in declared', NEW i \in Instances, i # k
               PROVE  Leaves(inbox'[i], d, k) \/ Forgotten(i, d)'
    BY DEF ForgetInv
  <2>1. CASE <<d, k>> \in declared
    <3>1. phase[d] = "dead" /\ (Leaves(inbox[i], d, k) \/ Forgotten(i, d))
      BY <1>3, <1>5, <2>1 DEF ForgetInv
    <3> QED BY <1>1, <3>1, ForgettingLasts
  <2>2. CASE Declares(k, d)
    BY <1>3, <2>2, Declaring
  <2> QED BY <1>4, <2>1, <2>2
<1> QED BY <1>2, <1>3, <1>5, <1>6 DEF DeclaredDead

\* Once a process has broadcast that a dead channel is offline, every other process
\* that has handled its notifications holds no remote client of that channel, and
\* gets none, unless the connection of a shared listener was lost
THEOREM OthersForgetTheDead == HSpec => []BystandersForget
<1>1. HInit => HistoryInv
  <2> SUFFICES ASSUME HInit PROVE HistoryInv
    OBVIOUS
  <2>1. Init /\ declared = {}
    BY DEF HInit
  <2>2. BridgeInv
    BY <2>1, BridgeInit
  <2>3. BrokerInv /\ DeadInv
    BY <2>1 DEF Init, BrokerInv, DeadInv, InFlight
  <2> QED BY <2>1, <2>2, <2>3 DEF HistoryInv, ForgetInv, DeclaredDead
<1>2. HistoryInv /\ [HNext]_<<vars, declared>> => HistoryInv'
  BY HistoryStep
<1>3. HistoryInv => BystandersForget
  <2> SUFFICES ASSUME HistoryInv, "break" \notin faults, NEW d \in Instances, NEW k \in Instances,
                      <<d, k>> \in declared, NEW i \in Instances \ {k}, inbox[i] = <<>>
               PROVE  \A e \in remotes[i] : e.chan # d
    BY DEF BystandersForget, CaughtUp
  <2>1. Leaves(inbox[i], d, k) \/ Forgotten(i, d)
    BY DEF HistoryInv, ForgetInv
  <2>2. ~Leaves(inbox[i], d, k)
    BY DEF Leaves
  <2> QED BY <2>1, <2>2 DEF Forgotten
<1> QED BY <1>1, <1>2, <1>3, PTL DEF HSpec

-----------------------------------------------------------------------------
(***************************************************************************)
(* Counting places in a sequence.                                          *)
(***************************************************************************)

\* The places of a sequence that hold an element of M
At(s, M) == {k \in 1..Len(s) : s[k] \in M}

\* A sequence has finitely many places
LEMMA AtCount ==
    ASSUME NEW T, NEW s \in Seq(T), NEW M
    PROVE  IsFiniteSet(At(s, M)) /\ Cardinality(At(s, M)) \in Nat
<1>1. 1 \in Int /\ Len(s) \in Int
  OBVIOUS
<1>2. IsFiniteSet(1..Len(s))
  BY <1>1, FS_Interval
<1>3. At(s, M) \in SUBSET (1..Len(s))
  BY DEF At
<1> QED BY <1>2, <1>3, FS_Subset, FS_CardinalityType

\* An element at the end adds its place
LEMMA AtAppend ==
    ASSUME NEW T, NEW s \in Seq(T), NEW m \in T, NEW M
    PROVE  /\ IsFiniteSet(At(s, M)) /\ Cardinality(At(s, M)) \in Nat
           /\ Cardinality(At(Append(s, m), M)) = Cardinality(At(s, M)) + (IF m \in M THEN 1 ELSE 0)
<1> DEFINE t == Append(s, m)
           n == Len(s) + 1
<1>1. Len(t) = n /\ Len(s) \in Nat /\ t[n] = m /\ \A k \in 1..Len(s) : t[k] = s[k]
  OBVIOUS
<1> HIDE DEF t
<1>2. IsFiniteSet(1..Len(s)) /\ At(s, M) \in SUBSET (1..Len(s))
  BY <1>1, FS_Interval DEF At
<1>3. IsFiniteSet(At(s, M)) /\ Cardinality(At(s, M)) \in Nat
  BY <1>2, FS_Subset, FS_CardinalityType
<1>4. n \notin At(s, M) /\ \A k \in 1..n : k \in 1..Len(s) \/ k = n
  BY <1>1 DEF At
<1>5. CASE m \in M
  <2>1. At(t, M) = At(s, M) \cup {n}
    BY <1>1, <1>4, <1>5 DEF At
  <2> QED BY <1>3, <1>4, <1>5, <2>1, FS_AddElement DEF t
<1>6. CASE m \notin M
  <2>1. At(t, M) = At(s, M)
    BY <1>1, <1>4, <1>6 DEF At
  <2> QED BY <1>3, <1>6, <2>1 DEF t
<1> QED BY <1>3, <1>5, <1>6

\* Without its head a sequence has one place less if the head is in M
LEMMA AtTail ==
    ASSUME NEW T, NEW s \in Seq(T), s # <<>>, NEW M
    PROVE  /\ IsFiniteSet(At(s, M)) /\ Cardinality(At(s, M)) \in Nat
           /\ IsFiniteSet(At(Tail(s), M)) /\ Cardinality(At(Tail(s), M)) \in Nat
           /\ Cardinality(At(s, M)) = Cardinality(At(Tail(s), M)) + (IF Head(s) \in M THEN 1 ELSE 0)
<1> DEFINE t == Tail(s)
           h == Head(s)
<1>1. Len(t) = Len(s) - 1 /\ Len(s) \in Nat \ {0} /\ h = s[1] /\ \A k \in 1..Len(t) : t[k] = s[k + 1]
  OBVIOUS
<1> HIDE DEF t, h
<1>2. /\ IsFiniteSet(1..Len(s)) /\ At(s, M) \in SUBSET (1..Len(s))
      /\ IsFiniteSet(1..Len(t)) /\ At(t, M) \in SUBSET (1..Len(t))
  <2>1. 1 \in Int /\ Len(s) \in Int /\ Len(t) \in Int
    BY <1>1
  <2>2. IsFiniteSet(1..Len(s))
    BY <2>1, FS_Interval
  <2>3. IsFiniteSet(1..Len(t))
    BY <2>1, FS_Interval
  <2> QED BY <2>2, <2>3 DEF At
<1>3. /\ IsFiniteSet(At(s, M)) /\ Cardinality(At(s, M)) \in Nat
      /\ IsFiniteSet(At(t, M)) /\ Cardinality(At(t, M)) \in Nat
  BY <1>2, FS_Subset, FS_CardinalityType
<1> DEFINE S == At(s, M) \ {1}
           f == [k \in At(t, M) |-> k + 1]
<1>4. \A k \in At(t, M) : k \in Nat /\ k + 1 \in S
  BY <1>1 DEF At
<1>5. \A k \in S : k - 1 \in At(t, M) /\ k - 1 + 1 = k
  <2> SUFFICES ASSUME NEW k \in S PROVE k - 1 \in At(t, M) /\ k - 1 + 1 = k
    OBVIOUS
  <2>1. k \in 1..Len(s) /\ k # 1 /\ s[k] \in M
    BY DEF At
  <2>2. k - 1 \in 1..Len(t) /\ k - 1 + 1 = k
    BY <1>1, <2>1
  <2>3. t[k - 1] = s[k]
    BY <1>1, <2>2
  <2> QED BY <2>1, <2>2, <2>3 DEF At
<1>6. f \in Bijection(At(t, M), S)
  <2>1. f \in [At(t, M) -> S]
    BY <1>4
  <2>2. \A j, k \in At(t, M) : f[j] = f[k] => j = k
    BY <1>4
  <2>3. \A k \in S : \E j \in At(t, M) : f[j] = k
    BY <1>5
  <2> QED BY <2>1, <2>2, <2>3 DEF Bijection, Injection, Surjection, IsInjective
<1>7. Cardinality(S) = Cardinality(At(t, M))
  BY <1>3, <1>6, FS_Bijection DEF ExistsBijection
<1>8. Cardinality(S) = IF 1 \in At(s, M) THEN Cardinality(At(s, M)) - 1 ELSE Cardinality(At(s, M))
  BY <1>3, FS_RemoveElement
<1>9. 1 \in At(s, M) <=> h \in M
  BY <1>1 DEF At
<1> HIDE DEF S
<1> QED BY <1>3, <1>7, <1>8, <1>9 DEF t, h

-----------------------------------------------------------------------------
(***************************************************************************)
(* The copies of an event that wait in the queues.                         *)
(***************************************************************************)

Send == [from : Instances, to : Instances, client : Clients, id : Nat, event : 1..MaxEvents]

\* the copies of event n for client c
CopyOf(c, n) == {m \in Send : m.client = c /\ m.event = n}

\* InQueue for any queues
Spread(q, c, n) == UNION {{i} \X Waiting(q[i], c, n) : i \in Instances}

\* the messages for a client are in one queue only
OnlyAt(q, c, h) ==
    /\ q \in [Instances -> Seq(Send)] /\ h \in Instances
    /\ \A i \in Instances : \A k \in 1..Len(q[i]) : q[i][k].client = c => i = h

\* one message more, or one less, in one of the queues
Longer(p, q, i, m) ==
    /\ p \in [Instances -> Seq(Send)] /\ i \in Instances /\ m \in Send
    /\ p[i] = Append(q[i], m) /\ \A j \in Instances \ {i} : p[j] = q[j]
Shorter(p, q, i) ==
    /\ p \in [Instances -> Seq(Send)] /\ i \in Instances /\ q[i] # <<>>
    /\ p[i] = Tail(q[i]) /\ \A j \in Instances \ {i} : p[j] = q[j]

\* The places of an event for a client are those of its copies
LEMMA WaitingAt ==
    ASSUME NEW s \in Seq(Send), NEW c, NEW n
    PROVE  Waiting(s, c, n) = At(s, CopyOf(c, n))
<1>1. \A k \in 1..Len(s) : s[k] \in Send
  OBVIOUS
<1> QED BY <1>1 DEF Waiting, At, CopyOf

\* The copies of an event for a client are counted in the queue of its process
LEMMA QueueCount ==
    ASSUME NEW q, NEW c, NEW n, NEW h, OnlyAt(q, c, h)
    PROVE  /\ IsFiniteSet(Spread(q, c, n))
           /\ Cardinality(Spread(q, c, n)) = Cardinality(At(q[h], CopyOf(c, n)))
           /\ Cardinality(Spread(q, c, n)) \in Nat
<1> DEFINE W == At(q[h], CopyOf(c, n))
           f == [k \in W |-> <<h, k>>]
<1>0. q \in [Instances -> Seq(Send)] /\ h \in Instances
  BY DEF OnlyAt
<1>1. q[h] \in Seq(Send) /\ W = Waiting(q[h], c, n)
  BY <1>0, WaitingAt
<1>2. \A i \in Instances : i # h => Waiting(q[i], c, n) = {}
  BY DEF OnlyAt, Waiting
<1>3. Spread(q, c, n) = {h} \X W
  BY <1>0, <1>1, <1>2 DEF Spread
<1>4. IsFiniteSet(W)
  <2>1. IsFiniteSet(1..Len(q[h])) /\ W \in SUBSET (1..Len(q[h]))
    BY <1>1, FS_Interval DEF At
  <2> QED BY <2>1, FS_Subset
<1> HIDE DEF W
<1>5. f \in Bijection(W, {h} \X W)
  BY DEF Bijection, Injection, Surjection, IsInjective
<1>6. IsFiniteSet({h} \X W) /\ Cardinality({h} \X W) = Cardinality(W)
  BY <1>4, <1>5, FS_Bijection DEF ExistsBijection
<1> QED BY <1>3, <1>4, <1>6, FS_CardinalityType DEF W

\* Sending to the process of a client adds a copy
LEMMA QueueGrows ==
    ASSUME NEW q, NEW c, NEW n, NEW h, OnlyAt(q, c, h),
           NEW i, NEW m, m.client = c => i = h, NEW p, Longer(p, q, i, m)
    PROVE  Cardinality(Spread(p, c, n)) =
                Cardinality(Spread(q, c, n)) + (IF m \in CopyOf(c, n) THEN 1 ELSE 0)
<1>1. /\ p \in [Instances -> Seq(Send)] /\ q \in [Instances -> Seq(Send)] /\ h \in Instances
      /\ i \in Instances /\ q[h] \in Seq(Send) /\ q[i] \in Seq(Send)
  BY DEF OnlyAt, Longer
<1>9. \A j \in Instances \ {i} : p[j] = q[j]
  BY DEF Longer
<1>2. OnlyAt(p, c, h)
  <2> SUFFICES ASSUME NEW j \in Instances, NEW k \in 1..Len(p[j]), p[j][k].client = c PROVE j = h
    BY <1>1 DEF OnlyAt
  <2>1. CASE j # i
    BY <1>9, <2>1 DEF OnlyAt
  <2>2. CASE j = i
    <3>1. p[i] = Append(q[i], m)
      BY DEF Longer
    <3>2. p[i][k] = m \/ (k \in 1..Len(q[i]) /\ p[i][k] = q[i][k])
      BY <1>1, <2>2, <3>1
    <3> QED BY <2>2, <3>2 DEF OnlyAt
  <2> QED BY <2>1, <2>2
<1>3. Cardinality(At(p[h], CopyOf(c, n))) =
        Cardinality(At(q[h], CopyOf(c, n))) + (IF m \in CopyOf(c, n) THEN 1 ELSE 0)
  <2>1. CASE i = h
    <3>1. p[h] = Append(q[h], m)
      BY <2>1 DEF Longer
    <3> QED BY <1>1, <3>1, AtAppend
  <2>2. CASE i # h
    <3>1. p[h] = q[h] /\ m \notin CopyOf(c, n)
      BY <1>1, <1>9, <2>2 DEF CopyOf
    <3>2. Cardinality(At(q[h], CopyOf(c, n))) \in Nat
      BY QueueCount
    <3> QED BY <3>1, <3>2
  <2> QED BY <2>1, <2>2
<1>4. /\ Cardinality(Spread(p, c, n)) = Cardinality(At(p[h], CopyOf(c, n)))
      /\ Cardinality(Spread(p, c, n)) \in Nat
  BY <1>2, QueueCount
<1>5. Cardinality(Spread(q, c, n)) = Cardinality(At(q[h], CopyOf(c, n)))
  BY QueueCount
<1> QED BY <1>1, <1>2, <1>3, <1>4, <1>5

\* Handling a message takes its copy away
LEMMA QueueShrinks ==
    ASSUME NEW q, NEW c, NEW n, NEW h, OnlyAt(q, c, h), NEW i, NEW p, Shorter(p, q, i)
    PROVE  /\ Cardinality(Spread(p, c, n)) \in Nat
           /\ Cardinality(Spread(q, c, n)) =
                Cardinality(Spread(p, c, n)) + (IF Head(q[i]) \in CopyOf(c, n) THEN 1 ELSE 0)
<1>1. /\ p \in [Instances -> Seq(Send)] /\ q \in [Instances -> Seq(Send)] /\ h \in Instances
      /\ i \in Instances /\ q[h] \in Seq(Send) /\ q[i] \in Seq(Send)
  BY DEF OnlyAt, Shorter
<1>9. \A j \in Instances \ {i} : p[j] = q[j]
  BY DEF Shorter
<1>2. OnlyAt(p, c, h)
  <2> SUFFICES ASSUME NEW j \in Instances, NEW k \in 1..Len(p[j]), p[j][k].client = c PROVE j = h
    BY <1>1 DEF OnlyAt
  <2>1. CASE j # i
    BY <1>9, <2>1 DEF OnlyAt
  <2>2. CASE j = i
    <3>1. p[i] = Tail(q[i])
      BY DEF Shorter
    <3>2. k + 1 \in 1..Len(q[i]) /\ p[i][k] = q[i][k + 1]
      BY <1>1, <2>2, <3>1
    <3> QED BY <2>2, <3>2 DEF OnlyAt
  <2> QED BY <2>1, <2>2
<1>3. Cardinality(At(q[h], CopyOf(c, n))) =
        Cardinality(At(p[h], CopyOf(c, n))) + (IF Head(q[i]) \in CopyOf(c, n) THEN 1 ELSE 0)
  <2>1. CASE i = h
    <3>1. p[h] = Tail(q[h]) /\ q[h] # <<>>
      BY <2>1 DEF Shorter
    <3> QED BY <1>1, <2>1, <3>1, AtTail
  <2>2. CASE i # h
    <3>1. p[h] = q[h]
      BY <1>1, <1>9, <2>2
    <3>2. Head(q[i]) \notin CopyOf(c, n)
      <4>1. 1 \in 1..Len(q[i]) /\ Head(q[i]) = q[i][1]
        BY <1>1 DEF Shorter
      <4> QED BY <1>1, <2>2, <4>1 DEF OnlyAt, CopyOf
    <3>3. Cardinality(At(q[h], CopyOf(c, n))) \in Nat
      BY QueueCount
    <3> QED BY <3>1, <3>2, <3>3
  <2> QED BY <2>1, <2>2
<1>4. /\ Cardinality(Spread(p, c, n)) = Cardinality(At(p[h], CopyOf(c, n)))
      /\ Cardinality(Spread(p, c, n)) \in Nat
  BY <1>2, QueueCount
<1>5. Cardinality(Spread(q, c, n)) = Cardinality(At(q[h], CopyOf(c, n)))
  BY QueueCount
<1> QED BY <1>1, <1>2, <1>3, <1>4, <1>5

\* A process that ends takes the copies in its queue away
LEMMA QueueLoses ==
    ASSUME NEW q, NEW c, NEW n, IsFiniteSet(Spread(q, c, n)),
           NEW p, \A i \in Instances : p[i] \in {q[i], <<>>}
    PROVE  /\ IsFiniteSet(Spread(p, c, n)) /\ Cardinality(Spread(p, c, n)) \in Nat
           /\ Cardinality(Spread(p, c, n)) <= Cardinality(Spread(q, c, n))
<1>1. \A i \in Instances : Waiting(p[i], c, n) \subseteq Waiting(q[i], c, n)
  BY DEF Waiting
<1>2. Spread(p, c, n) \in SUBSET Spread(q, c, n)
  BY <1>1 DEF Spread
<1> QED BY <1>2, FS_Subset, FS_CardinalityType

-----------------------------------------------------------------------------
(***************************************************************************)
(* The bridge under the deliveries.                                        *)
(***************************************************************************)

\* A fault of a direct channel or of Send is a fault and nothing else to the bridge
FaultOnly ==
    /\ UNCHANGED <<phase, dbVars, listenVars, heartVars, brokerVars, clientVars, req, history>>
    /\ faults \subseteq faults' /\ faults' \subseteq FaultKinds

\* A step of the bridge, or a stutter, that its history knows of
Watched == [Step]_vars /\ (Watch \/ UNCHANGED <<req, subs, conn, history>>)

\* Below the deliveries there is a step of the bridge, a stutter, or a fault and nothing else
LEMMA BridgeBelow ==
    ASSUME TypeOK, [DNext]_dvars
    PROVE  Watched \/ FaultOnly
<1>1. CASE BridgeStep
  BY <1>1, HistoryBelow DEF BridgeStep, Watched
<1>2. ASSUME NEW i \in Instances, SendPanics(i) PROVE Watched
  BY <1>2 DEF SendPanics, Watched, Step, Life
<1>3. ASSUME UNCHANGED rvars PROVE Watched
  BY <1>3 DEF rvars, vars, history, Watched
<1>4. ASSUME NEW i \in Instances, BreakDirect(i) PROVE FaultOnly
  <2>1. faults \subseteq faults' /\ faults' \subseteq FaultKinds
    BY <1>4, FaultType DEF BreakDirect, Fault
  <2> QED BY <1>4, <2>1 DEF BreakDirect, FaultOnly, history
<1>5. ASSUME NEW s \in sends, SendFails(s) PROVE FaultOnly
  <2>1. faults \subseteq faults' /\ faults' \subseteq FaultKinds
    BY <1>5, FaultType DEF SendFails, Fault
  <2> QED BY <1>5, <2>1 DEF SendFails, FaultOnly, history
<1>6. ASSUME NEW i \in Instances, ListenDirect(i) \/ HandleDirect(i) PROVE UNCHANGED rvars
  BY <1>6 DEF ListenDirect, HandleDirect
<1>7. ASSUME NEW i \in Instances, NEW t \in Topics, NEW rule \in Rules, Publish(i, t, rule)
      PROVE  UNCHANGED rvars
  BY <1>7 DEF Publish
<1>8. ASSUME NEW s \in sends, SendViaBridge(s) PROVE UNCHANGED rvars
  BY <1>8 DEF SendViaBridge
<1>9. CASE UNCHANGED dvars
  BY <1>3, <1>9 DEF dvars
<1> QED BY <1>1, <1>2, <1>3, <1>4, <1>5, <1>6, <1>7, <1>8, <1>9 DEF DNext

\* What is inductive for the bridge is so under the deliveries
LEMMA BridgeStillKept ==
    ASSUME BridgeInv, BrokerInv, [DNext]_dvars
    PROVE  BridgeInv' /\ BrokerInv' /\ HomeStable
<1>1. CASE Watched
  BY <1>1, BridgeKept, BrokerStep, HomeIsStable DEF BridgeInv, HomeStable, Watched
<1>2. CASE FaultOnly
  BY <1>2 DEF FaultOnly, BridgeInv, BrokerInv, TypeInv, TypeOK, ReqInv, HomeInv, NewHome,
     MessagesFromHome, RemotesPointHome, OwnClientsStay, HomeStable
<1>3. TypeOK
  BY DEF BridgeInv, TypeInv
<1> QED BY <1>1, <1>2, <1>3, BridgeBelow

\* What a step does to the inbox and the remote clients of a process
LEMMA InboxEffect ==
    ASSUME BridgeInv, [Step]_vars, NEW i \in Instances
    PROVE  \/ UNCHANGED <<inbox[i], remotes[i]>>
           \/ /\ remotes'[i] = remotes[i]
              /\ \E m \in Message :
                   /\ inbox'[i] = Append(inbox[i], m)
                   /\ m.type = "subscription_upsert" =>
                        \E r \in Requests : /\ NotifyUpsert(r)
                                            /\ m.rec = ClientRecord(req[r].client, req[r].subs)
                   /\ m.type = "channel_offline" => \E j \in Instances : offline[j] # {}
           \/ inbox'[i] = <<>> /\ remotes'[i] = {} /\ phase'[i] = "dead"
           \/ inbox'[i] = <<>> /\ remotes'[i] = remotes[i] /\ "break" \in faults'
           \/ HandleShared(i)
<1>0. TypeOK /\ ReqInv
  BY DEF BridgeInv, TypeInv
<1> DEFINE Said(m) ==
             /\ m.type = "subscription_upsert" =>
                  \E r \in Requests : /\ NotifyUpsert(r)
                                      /\ m.rec = ClientRecord(req[r].client, req[r].subs)
             /\ m.type = "channel_offline" => \E j \in Instances : offline[j] # {}
           Sends(m) == m \in Message /\ Said(m) /\ NotifyShared(m) /\ remotes' = remotes
           Goal == \/ UNCHANGED <<inbox[i], remotes[i]>>
                   \/ /\ remotes'[i] = remotes[i]
                      /\ \E m \in Message : inbox'[i] = Append(inbox[i], m) /\ Said(m)
                   \/ inbox'[i] = <<>> /\ remotes'[i] = {} /\ phase'[i] = "dead"
                   \/ inbox'[i] = <<>> /\ remotes'[i] = remotes[i] /\ "break" \in faults'
                   \/ HandleShared(i)
<1>1. ASSUME NEW m, Sends(m) PROVE Goal
  <2>1. inbox'[i] = inbox[i] \/ inbox'[i] = Append(inbox[i], m)
    BY <1>1 DEF NotifyShared
  <2> QED BY <1>1, <2>1
<1>2. ASSUME NEW j \in Instances, Life(j) PROVE Goal
  <2>1. CASE NotifyOffline(j)
    <3>1. PICK ch \in Instances : NotifyShared([type |-> "channel_offline", sender |-> j, chan |-> ch])
      BY <1>0, <2>1 DEF NotifyOffline, TypeOK
    <3>2. PICK m : m = [type |-> "channel_offline", sender |-> j, chan |-> ch]
      OBVIOUS
    <3>3. m \in Message /\ Said(m)
      BY <2>1, <3>2 DEF Message, NotifyOffline
    <3>4. Sends(m)
      BY <2>1, <3>1, <3>2, <3>3 DEF NotifyOffline
    <3> QED BY <1>1, <3>4
  <2>2. CASE Stop(j)
    BY <1>0, <2>2 DEF Stop, TypeOK
  <2>3. CASE BreakListener(j)
    BY <1>0, <2>3 DEF BreakListener, Fault, TypeOK
  <2>4. CASE HandleShared(j)
    <3>1. i = j \/ UNCHANGED <<inbox[i], remotes[i]>>
      BY <1>0, <2>4 DEF HandleShared, HandleUpsert, HandleDelete, HandleOffline, TypeOK
    <3> QED BY <2>4, <3>1
  <2>5. CASE UNCHANGED <<inbox, remotes>>
    BY <2>5
  <2> QED BY <1>2, <2>1, <2>2, <2>3, <2>4, <2>5 DEF Life, Process, NotifyOfflineFails, Start, Listen, Serve, RenewLease,
         DeleteStale, ExpireLease
<1>3. ASSUME NEW c \in Clients, Connection(c) PROVE Goal
  <2>1. CASE NotifyDelete(c)
    <3>1. home[c] \in Instances
      BY <2>1 DEF NotifyDelete, BridgeInv, TypeInv, HomeInv
    <3>2. PICK m : m = [type |-> "subscription_delete", sender |-> home[c], client |-> c]
      OBVIOUS
    <3>3. m \in Message /\ Said(m)
      BY <3>1, <3>2 DEF Message
    <3>4. Sends(m)
      BY <2>1, <3>2, <3>3 DEF NotifyDelete
    <3> QED BY <1>1, <3>4
  <2>2. CASE UNCHANGED <<inbox, remotes>>
    BY <2>2
  <2> QED BY <1>3, <2>1, <2>2 DEF Connection, Connect, DeleteRow, GoOfflineFails, Disconnected
<1>4. ASSUME NEW r \in Requests, Request(r) PROVE Goal
  <2>1. CASE NotifyUpsert(r)
    <3> DEFINE c == req[r].client
    <3>1. c \in Clients /\ home[c] \in Instances /\ req[r].subs \in SUBSET Topics
      BY <1>0, <2>1 DEF NotifyUpsert, ReqInv, TypeOK
    <3>2. PICK m : m = [type |-> "subscription_upsert", sender |-> home[c],
                        rec |-> ClientRecord(c, req[r].subs)]
      OBVIOUS
    <3>3. m \in Message
      BY <3>1, <3>2, ClientRecordType DEF Message
    <3>4. Said(m)
      BY <2>1, <3>2
    <3>5. Sends(m)
      BY <2>1, <3>2, <3>3, <3>4 DEF NotifyUpsert
    <3> QED BY <1>1, <3>5
  <2>2. CASE UNCHANGED <<inbox, remotes>>
    BY <2>2
  <2> QED BY <1>4, <2>1, <2>2 DEF Request, Subscribe, Snapshot, AssignRecord, UpsertRow, Marshal, BroadcastFails
<1>5. CASE UNCHANGED vars
  BY <1>5 DEF vars
<1> QED BY <1>2, <1>3, <1>4, <1>5 DEF Step

-----------------------------------------------------------------------------
(***************************************************************************)
(* How many remote clients a broker files for a client.                    *)
(***************************************************************************)

Files(R, c) == {e \in R : e.client = c}
UpsertsOf(c) == {m \in Message : m.type = "subscription_upsert" /\ m.rec.client = c}

\* the requests that some client has sent, and those of c that are over
Begun == {r \in Requests : req[r].client \in Clients}
Over(c) == {r \in Requests : req[r].client = c /\ req[r].pc = "done"}

\* Sets that grow by one element at a time
FiniteInv == IsFiniteSet(Begun) /\ \A i \in Instances : IsFiniteSet(remotes[i])

\* A broker has a remote client, or is about to, for at most each request that is over
KnownInv ==
    \A i \in Instances, c \in Clients :
        Cardinality(Files(remotes[i], c)) + Cardinality(At(inbox[i], UpsertsOf(c))) <= Notices(c)

\* If a broker has remote clients for a client, it filed one of them last
LastFiled ==
    \A i \in Instances, c \in Clients : Files(remotes[i], c) # {} =>
        \E e \in Files(remotes[i], c) : \A f \in Files(remotes[i], c) : f.id <= e.id

\* At most one request begins with a step, and none that is over begins again
LEMMA RequestsEffect ==
    ASSUME BridgeInv, [Step]_vars
    PROVE  /\ \E r : Begun' \subseteq Begun \cup {r}
           /\ \A c \in Clients : Over(c) \subseteq Over(c)' /\ Over(c)' \subseteq Begun'
           /\ \A r \in Requests, c \in Clients :
                NotifyUpsert(r) /\ req[r].client = c => r \notin Over(c) /\ r \in Over(c)'
<1>0. TypeInv /\ TypeOK /\ ReqInv
  BY DEF BridgeInv, TypeInv
<1>1. \A c \in Clients : Over(c)' \subseteq Begun'
  BY DEF Over, Begun
<1>2. \A r \in Requests, c \in Clients :
         NotifyUpsert(r) /\ req[r].client = c => r \notin Over(c) /\ r \in Over(c)'
  BY <1>0 DEF NotifyUpsert, Over, TypeOK
<1>3. CASE \A r \in Requests : req'[r].client = req[r].client /\ (req[r].pc = "done" => req'[r].pc = "done")
  BY <1>1, <1>2, <1>3 DEF Begun, Over
<1>4. ASSUME NEW i \in Instances, Life(i)
      PROVE  \A r \in Requests : req'[r].client = req[r].client /\ (req[r].pc = "done" => req'[r].pc = "done")
  <2>1. CASE Stop(i)
    BY <1>0, <2>1 DEF Stop, TypeOK
  <2>2. CASE ~Stop(i)
    BY <1>4, <2>2 DEF Life, Process, Start, Listen, Serve, BreakListener, RenewLease, DeleteStale,
       NotifyOffline, NotifyOfflineFails, ExpireLease, HandleShared
  <2> QED BY <2>1, <2>2
<1>5. ASSUME NEW c \in Clients, Connection(c) PROVE req' = req
  BY <1>5 DEF Connection, Connect, DeleteRow, NotifyDelete, GoOfflineFails, Disconnected
<1>6. ASSUME NEW r \in Requests, Request(r)
      PROVE  /\ Begun' \subseteq Begun \cup {r}
             /\ \A c \in Clients : Over(c) \subseteq Over(c)'
  <2>1. \A q \in Requests \ {r} : req'[q] = req[q]
    BY <1>0, <1>6, RequestEffect
  <2>2. req[r].pc # "done"
    BY <1>6 DEF Request, Subscribe, Snapshot, AssignRecord, UpsertRow, Marshal, NotifyUpsert, BroadcastFails
  <2> QED BY <2>1, <2>2 DEF Begun, Over
<1>7. CASE UNCHANGED vars
  BY <1>3, <1>7 DEF vars
<1> QED BY <1>1, <1>2, <1>3, <1>4, <1>5, <1>6, <1>7 DEF Step

\* Requests begin one at a time and remote clients are filed one at a time
LEMMA FiniteKept ==
    ASSUME BridgeInv, BrokerInv, FiniteInv, [Step]_vars
    PROVE  FiniteInv'
<1>1. IsFiniteSet(Begun')
  <2>1. PICK r : Begun' \subseteq Begun \cup {r}
    BY RequestsEffect
  <2>2. IsFiniteSet(Begun \cup {r})
    BY FS_AddElement DEF FiniteInv
  <2> QED BY <2>1, <2>2, FS_Subset
<1>2. ASSUME NEW i \in Instances PROVE IsFiniteSet(remotes'[i])
  <2>1. IsFiniteSet(remotes[i])
    BY DEF FiniteInv
  <2>2. CASE remotes'[i] \in {remotes[i], {}}
    BY <2>1, <2>2, FS_EmptySet
  <2>3. CASE HandleShared(i)
    <3>1. \/ remotes'[i] \subseteq remotes[i]
          \/ \E e : remotes'[i] = remotes[i] \cup {e}
      BY <2>3, HandleEffect
    <3>2. CASE remotes'[i] \subseteq remotes[i]
      BY <2>1, <3>2, FS_Subset
    <3>3. ASSUME NEW e, remotes'[i] = remotes[i] \cup {e} PROVE IsFiniteSet(remotes'[i])
      BY <2>1, <3>3, FS_AddElement
    <3> QED BY <3>1, <3>2, <3>3
  <2> QED BY <2>2, <2>3, InboxEffect
<1> QED BY <1>1, <1>2 DEF FiniteInv


\* Notices only grow, by the request whose upsert is sent at least
LEMMA NoticesGrow ==
    ASSUME BridgeInv, FiniteInv, FiniteInv', [Step]_vars, NEW c \in Clients
    PROVE  /\ Notices(c) \in Nat /\ Notices(c)' \in Nat /\ Notices(c) <= Notices(c)'
           /\ \A r \in Requests : NotifyUpsert(r) /\ req[r].client = c => Notices(c) + 1 <= Notices(c)'
<1>1. Over(c) \subseteq Begun /\ Over(c)' \subseteq Begun' /\ Over(c) \subseteq Over(c)'
  BY RequestsEffect DEF Over, Begun
<1>2. IsFiniteSet(Over(c)) /\ IsFiniteSet(Over(c)')
  BY <1>1, FS_Subset DEF FiniteInv
<1>3. Notices(c) = Cardinality(Over(c)) /\ Notices(c)' = Cardinality(Over(c)')
  BY DEF Notices, Over
<1>4. Cardinality(Over(c)) \in Nat /\ Cardinality(Over(c)') \in Nat
  BY <1>2, FS_CardinalityType
<1>5. Cardinality(Over(c)) <= Cardinality(Over(c)')
  BY <1>1, <1>2, FS_Subset
<1>6. ASSUME NEW r \in Requests, NotifyUpsert(r), req[r].client = c
      PROVE  Cardinality(Over(c)) + 1 <= Cardinality(Over(c)')
  <2>1. r \notin Over(c) /\ Over(c) \cup {r} \subseteq Over(c)'
    BY <1>1, <1>6, RequestsEffect
  <2>2. Cardinality(Over(c) \cup {r}) = Cardinality(Over(c)) + 1
    BY <1>2, <2>1, FS_AddElement
  <2>3. Cardinality(Over(c) \cup {r}) <= Cardinality(Over(c)')
    BY <1>2, <2>1, FS_Subset
  <2> QED BY <2>2, <2>3
<1> QED BY <1>3, <1>4, <1>5, <1>6

\* Fewer remote clients are no more remote clients of one client, one more is at most one more
LEMMA FilesCount ==
    ASSUME NEW R, IsFiniteSet(R), NEW c
    PROVE  /\ IsFiniteSet(Files(R, c)) /\ Cardinality(Files(R, c)) \in Nat
           /\ \A S : S \subseteq R => /\ Cardinality(Files(S, c)) \in Nat
                                      /\ Cardinality(Files(S, c)) <= Cardinality(Files(R, c))
           /\ \A e : /\ Cardinality(Files(R \cup {e}, c)) \in Nat
                     /\ Cardinality(Files(R \cup {e}, c))
                          <= Cardinality(Files(R, c)) + (IF e.client = c THEN 1 ELSE 0)
<1>1. IsFiniteSet(Files(R, c)) /\ Cardinality(Files(R, c)) \in Nat
  <2>1. Files(R, c) \in SUBSET R
    BY DEF Files
  <2> QED BY <2>1, FS_Subset, FS_CardinalityType
<1>2. ASSUME NEW S, S \subseteq R
      PROVE  Cardinality(Files(S, c)) \in Nat /\ Cardinality(Files(S, c)) <= Cardinality(Files(R, c))
  <2>1. Files(S, c) \in SUBSET Files(R, c)
    BY <1>2 DEF Files
  <2>2. IsFiniteSet(Files(S, c)) /\ Cardinality(Files(S, c)) <= Cardinality(Files(R, c))
    BY <1>1, <2>1, FS_Subset
  <2> QED BY <2>2, FS_CardinalityType
<1>3. ASSUME NEW e
      PROVE  /\ Cardinality(Files(R \cup {e}, c)) \in Nat
             /\ Cardinality(Files(R \cup {e}, c))
                  <= Cardinality(Files(R, c)) + (IF e.client = c THEN 1 ELSE 0)
  <2>1. CASE e.client = c
    <3>1. Files(R \cup {e}, c) = Files(R, c) \cup {e}
      BY <2>1 DEF Files
    <3>2. IsFiniteSet(Files(R, c) \cup {e})
      BY <1>1, FS_AddElement
    <3>3. Cardinality(Files(R, c) \cup {e}) =
            IF e \in Files(R, c) THEN Cardinality(Files(R, c)) ELSE Cardinality(Files(R, c)) + 1
      BY <1>1, FS_AddElement
    <3> QED BY <1>1, <2>1, <3>1, <3>3
  <2>2. CASE e.client # c
    <3>1. Files(R \cup {e}, c) = Files(R, c)
      BY <2>2 DEF Files
    <3> QED BY <1>1, <2>2, <3>1
  <2> QED BY <2>1, <2>2
<1> QED BY <1>1, <1>2, <1>3

\* An upsert is counted when it is sent, while it waits, and as a remote client
LEMMA KnownKept ==
    ASSUME BridgeInv, BrokerInv, FiniteInv, KnownInv, [Step]_vars
    PROVE  KnownInv'
<1> SUFFICES ASSUME NEW i \in Instances, NEW c \in Clients
             PROVE  Cardinality(Files(remotes'[i], c)) + Cardinality(At(inbox'[i], UpsertsOf(c)))
                      <= Notices(c)'
  BY DEF KnownInv
<1> DEFINE F == Cardinality(Files(remotes[i], c))
           U == Cardinality(At(inbox[i], UpsertsOf(c)))
           G == Cardinality(Files(remotes'[i], c))
           V == Cardinality(At(inbox'[i], UpsertsOf(c)))
<1>1. IsFiniteSet(remotes[i]) /\ inbox[i] \in Seq(Message)
  BY DEF FiniteInv, BridgeInv, TypeInv, TypeOK
<1>2. F \in Nat /\ U \in Nat /\ F + U <= Notices(c)
  <2>1. U \in Nat
    <3>1. IsFiniteSet(1..Len(inbox[i])) /\ At(inbox[i], UpsertsOf(c)) \in SUBSET (1..Len(inbox[i]))
      BY <1>1, FS_Interval DEF At
    <3> QED BY <3>1, FS_Subset, FS_CardinalityType
  <2> QED BY <1>1, <2>1, FilesCount DEF KnownInv
<1>3. /\ Notices(c) \in Nat /\ Notices(c)' \in Nat /\ Notices(c) <= Notices(c)'
      /\ \A r \in Requests : NotifyUpsert(r) /\ req[r].client = c => Notices(c) + 1 <= Notices(c)'
  BY FiniteKept, NoticesGrow
<1>4. At(<<>>, UpsertsOf(c)) = {} /\ Cardinality({}) = 0
  BY FS_EmptySet DEF At
<1>5. CASE UNCHANGED <<inbox[i], remotes[i]>>
  BY <1>2, <1>3, <1>5
<1>6. ASSUME NEW m \in Message, inbox'[i] = Append(inbox[i], m), remotes'[i] = remotes[i],
             m.type = "subscription_upsert" =>
               \E r \in Requests : /\ NotifyUpsert(r)
                                   /\ m.rec = ClientRecord(req[r].client, req[r].subs)
      PROVE  G + V <= Notices(c)'
  <2>1. V = U + (IF m \in UpsertsOf(c) THEN 1 ELSE 0)
    BY <1>1, <1>6, AtAppend
  <2>2. m \in UpsertsOf(c) => Notices(c) + 1 <= Notices(c)'
    <3> SUFFICES ASSUME m \in UpsertsOf(c) PROVE Notices(c) + 1 <= Notices(c)'
      OBVIOUS
    <3>1. PICK r \in Requests : NotifyUpsert(r) /\ m.rec = ClientRecord(req[r].client, req[r].subs)
      BY <1>6 DEF UpsertsOf
    <3>2. req[r].client = c
      BY <3>1 DEF UpsertsOf, ClientRecord
    <3> QED BY <1>3, <3>1, <3>2
  <2>3. G = F
    BY <1>6
  <2> HIDE DEF F, G, U, V
  <2> QED BY <1>2, <1>3, <2>1, <2>2, <2>3
<1>7. ASSUME inbox'[i] = <<>> /\ remotes'[i] \in {remotes[i], {}} PROVE G + V <= Notices(c)'
  <2>1. V = 0
    BY <1>4, <1>7
  <2>2. G \in Nat /\ G <= F
    BY <1>1, <1>7, FilesCount
  <2> HIDE DEF F, G, U, V
  <2> QED BY <1>2, <1>3, <2>1, <2>2
<1>8. ASSUME HandleShared(i) PROVE G + V <= Notices(c)'
  <2> DEFINE m == Head(inbox[i])
  <2>1. inbox[i] # <<>> /\ inbox'[i] = Tail(inbox[i]) /\ m \in Message
    BY <1>1, <1>8, HandleEffect DEF BridgeInv, TypeInv, TypeOK
  <2>2. V \in Nat /\ U = V + (IF m \in UpsertsOf(c) THEN 1 ELSE 0)
    BY <1>1, <2>1, AtTail
  <2>3. G \in Nat /\ (G <= F \/ (m \in UpsertsOf(c) /\ G <= F + 1))
    <3>1. CASE remotes'[i] \subseteq remotes[i]
      BY <1>1, <3>1, FilesCount
    <3>2. CASE m.type = "subscription_upsert" /\ remotes'[i] = remotes[i] \cup {NewRemote(made[i], m.rec)}
      <4>1. PICK e : e = NewRemote(made[i], m.rec)
        OBVIOUS
      <4>2. e.client = c <=> m \in UpsertsOf(c)
        BY <2>1, <3>2, <4>1 DEF NewRemote, UpsertsOf
      <4>3. /\ Cardinality(Files(remotes[i] \cup {e}, c)) \in Nat
            /\ Cardinality(Files(remotes[i] \cup {e}, c)) <= F + (IF e.client = c THEN 1 ELSE 0)
        BY <1>1, FilesCount
      <4>4. G = Cardinality(Files(remotes[i] \cup {e}, c))
        BY <3>2, <4>1
      <4> HIDE DEF F, G, U, V, m
      <4> QED BY <1>2, <4>2, <4>3, <4>4
    <3>3. \/ remotes'[i] \subseteq remotes[i]
          \/ m.type = "subscription_upsert" /\ remotes'[i] = remotes[i] \cup {NewRemote(made[i], m.rec)}
      BY <1>8, HandleEffect
    <3> QED BY <3>1, <3>2, <3>3
  <2> HIDE DEF F, G, U, V, m
  <2> QED BY <1>2, <1>3, <2>2, <2>3
<1> QED BY <1>5, <1>6, <1>7, <1>8, InboxEffect

\* The remote client that is filed last has the highest id
LEMMA LastFiledKept ==
    ASSUME BridgeInv, BrokerInv, LastFiled, [Step]_vars
    PROVE  LastFiled'
<1> SUFFICES ASSUME NEW i \in Instances, NEW c \in Clients, Files(remotes'[i], c) # {}
             PROVE  \E e \in Files(remotes'[i], c) : \A f \in Files(remotes'[i], c) : f.id <= e.id
  BY DEF LastFiled
<1>1. CASE remotes'[i] = remotes[i]
  BY <1>1 DEF LastFiled
<1>2. CASE remotes'[i] = {}
  BY <1>2 DEF Files
<1>3. CASE HandleShared(i)
  <2> DEFINE m == Head(inbox[i])
             new == NewRemote(made[i], m.rec)
  <2>1. /\ made[i] \in Nat
        /\ \A e \in remotes[i] : e.chan = home[e.client] /\ e.id < made[i] /\ e.id \in Nat
    BY DEF BridgeInv, TypeInv, TypeOK, Remote, RemotesPointHome, BrokerInv
  <2>2. \/ remotes'[i] = remotes[i]
        \/ \E ch : remotes'[i] = {e \in remotes[i] : e.chan # ch}
        \/ remotes'[i] = remotes[i] \cup {new}
    BY <1>3, HandleEffect
  <2>3. ASSUME NEW ch, remotes'[i] = {e \in remotes[i] : e.chan # ch}
        PROVE  Files(remotes'[i], c) = Files(remotes[i], c)
    BY <2>1, <2>3 DEF Files
  <2>4. CASE remotes'[i] = remotes[i] \cup {new}
    <3>1. new.id = made[i]
      BY DEF NewRemote
    <3> HIDE DEF new
    <3>2. CASE new.client = c
      <4>1. new \in Files(remotes'[i], c)
        BY <2>4, <3>2 DEF Files
      <4>2. \A f \in Files(remotes'[i], c) : f.id <= new.id
        BY <2>1, <2>4, <3>1 DEF Files
      <4> QED BY <4>1, <4>2
    <3>3. CASE new.client # c
      <4>1. Files(remotes'[i], c) = Files(remotes[i], c)
        BY <2>4, <3>3 DEF Files
      <4> QED BY <4>1 DEF LastFiled
    <3> QED BY <3>2, <3>3
  <2> QED BY <1>1, <2>2, <2>3, <2>4 DEF LastFiled
<1> QED BY <1>1, <1>2, <1>3, InboxEffect

-----------------------------------------------------------------------------
(***************************************************************************)
(* Events on their way.                                                    *)
(***************************************************************************)

DTypeInv ==
    /\ direct \in [Instances -> BOOLEAN]
    /\ queue \in [Instances -> Seq(Send)]
    /\ sends \in SUBSET Send /\ IsFiniteSet(sends)
    /\ events \in 0..MaxEvents
    /\ got \in [Clients -> [1..MaxEvents -> Nat]]

\* A copy is on its way to the process of its client, and only if its event was published
RouteInv ==
    /\ \A s \in sends : s.to = home[s.client] /\ s.event <= events
    /\ \A i \in Instances : \A k \in 1..Len(queue[i]) :
         home[queue[i][k].client] = i /\ queue[i][k].event <= events
    /\ \A c \in Clients, n \in 1..MaxEvents : n > events => got[c][n] = 0

RoadInv == BridgeInv /\ BrokerInv /\ FiniteInv /\ DTypeInv /\ RouteInv

\* what Publish adds to sends
Copied(i, t, rule) ==
    {[from |-> i, to |-> e.chan, client |-> e.client, id |-> e.id, event |-> events + 1] :
       e \in {f \in remotes[i] : t \in f.subs /\ MaySee(rule, f.auth)}}

\* One copy of a new event for each remote client that is subscribed and may see it
LEMMA CopiedCount ==
    ASSUME RoadInv, NEW i \in Instances, NEW t \in Topics, NEW rule \in Rules, Publish(i, t, rule)
    PROVE  /\ Copied(i, t, rule) \in SUBSET Send /\ IsFiniteSet(Copied(i, t, rule))
           /\ \A s \in Copied(i, t, rule) : s.to = home[s.client] /\ s.event = events + 1
           /\ \A c \in Clients : LET C == {s \in Copied(i, t, rule) : s.client = c} IN
                /\ IsFiniteSet(C) /\ Cardinality(C) \in Nat
                /\ Cardinality(C) <= Cardinality(Files(remotes[i], c))
                /\ (\E e \in Files(remotes[i], c) : t \in e.subs /\ MaySee(rule, e.auth)) => C # {}
<1> DEFINE copy == [e \in Remote |-> [from |-> i, to |-> e.chan, client |-> e.client, id |-> e.id,
                                      event |-> events + 1]]
<1>1. /\ remotes[i] \subseteq Remote /\ IsFiniteSet(remotes[i])
      /\ \A e \in remotes[i] : e.chan = home[e.client]
  BY DEF RoadInv, FiniteInv, BridgeInv, TypeInv, TypeOK, RemotesPointHome
<1>2. events + 1 \in 1..MaxEvents
  BY DeliveryAssumption DEF RoadInv, DTypeInv, Publish
<1>3. Copied(i, t, rule) = {copy[e] : e \in {f \in remotes[i] : t \in f.subs /\ MaySee(rule, f.auth)}}
  BY <1>1 DEF Copied
<1>4. \A e \in Remote : /\ copy[e] \in Send /\ copy[e].client = e.client /\ copy[e].to = e.chan
                        /\ copy[e].event = events + 1
  BY <1>2 DEF Remote, Send
<1> HIDE DEF copy
<1>5. ASSUME NEW R \in SUBSET remotes[i]
      PROVE  IsFiniteSet({copy[e] : e \in R}) /\ Cardinality({copy[e] : e \in R}) <= Cardinality(R)
             /\ Cardinality({copy[e] : e \in R}) \in Nat
  <2> DEFINE f == [e \in R |-> copy[e]]
             T == {copy[e] : e \in R}
  <2>1. IsFiniteSet(R)
    BY <1>1, FS_Subset
  <2>2. f \in Surjection(R, T)
    BY DEF Surjection
  <2> HIDE DEF f, T
  <2>3. IsFiniteSet(T) /\ Cardinality(T) <= Cardinality(R)
    BY <2>1, <2>2, FS_Surjection
  <2> QED BY <2>3, FS_CardinalityType DEF T
<1>6. Copied(i, t, rule) \in SUBSET Send /\ IsFiniteSet(Copied(i, t, rule))
  <2>1. {f \in remotes[i] : t \in f.subs /\ MaySee(rule, f.auth)} \in SUBSET remotes[i]
    OBVIOUS
  <2>2. IsFiniteSet(Copied(i, t, rule))
    BY <1>3, <1>5, <2>1
  <2> QED BY <1>1, <1>3, <1>4, <2>2
<1>7. \A s \in Copied(i, t, rule) : s.to = home[s.client] /\ s.event = events + 1
  BY <1>1, <1>3, <1>4
<1>8. ASSUME NEW c \in Clients
      PROVE  LET C == {s \in Copied(i, t, rule) : s.client = c} IN
                /\ IsFiniteSet(C) /\ Cardinality(C) \in Nat
                /\ Cardinality(C) <= Cardinality(Files(remotes[i], c))
                /\ (\E e \in Files(remotes[i], c) : t \in e.subs /\ MaySee(rule, e.auth)) => C # {}
  <2> DEFINE R == {e \in Files(remotes[i], c) : t \in e.subs /\ MaySee(rule, e.auth)}
             C == {s \in Copied(i, t, rule) : s.client = c}
  <2>1. C = {copy[e] : e \in R}
    BY <1>1, <1>3, <1>4 DEF Files
  <2>2. R \in SUBSET remotes[i] /\ R \in SUBSET Files(remotes[i], c)
    BY DEF Files
  <2> HIDE DEF R, C
  <2>3. IsFiniteSet(C) /\ Cardinality(C) <= Cardinality(R) /\ Cardinality(C) \in Nat
    BY <1>5, <2>1, <2>2
  <2>4. IsFiniteSet(Files(remotes[i], c)) /\ Cardinality(Files(remotes[i], c)) \in Nat
    BY <1>1, FilesCount
  <2>5. IsFiniteSet(R) /\ Cardinality(R) <= Cardinality(Files(remotes[i], c))
    BY <2>2, <2>4, FS_Subset
  <2>6. Cardinality(R) \in Nat
    BY <2>5, FS_CardinalityType
  <2>7. Cardinality(C) <= Cardinality(Files(remotes[i], c))
    BY <2>3, <2>4, <2>5, <2>6
  <2>8. (\E e \in Files(remotes[i], c) : t \in e.subs /\ MaySee(rule, e.auth)) => C # {}
    BY <2>1 DEF R
  <2> QED BY <2>3, <2>7, <2>8 DEF C
<1> QED BY <1>6, <1>7, <1>8

\* A client's counter of an event counts once more
LEMMA Bump ==
    ASSUME NEW g \in [1..MaxEvents -> Nat], NEW n \in 1..MaxEvents,
           NEW h, h = [g EXCEPT ![n] = @ + 1]
    PROVE  h \in [1..MaxEvents -> Nat] /\ h[n] = g[n] + 1 /\ \A k \in 1..MaxEvents : k # n => h[k] = g[k]
<1>1. PICK D : D = 1..MaxEvents
  OBVIOUS
<1>2. g \in [D -> Nat] /\ n \in D
  BY <1>1
<1>3. h \in [D -> Nat] /\ h[n] = g[n] + 1 /\ \A k \in D : k # n => h[k] = g[k]
  BY <1>2
<1> QED BY <1>1, <1>3

\* A client gets an event once more
LEMMA OneMore ==
    ASSUME NEW g \in [Clients -> [1..MaxEvents -> Nat]], NEW c \in Clients, NEW n \in 1..MaxEvents,
           NEW h, h = [g EXCEPT ![c][n] = @ + 1]
    PROVE  /\ h \in [Clients -> [1..MaxEvents -> Nat]] /\ h[c][n] = g[c][n] + 1
           /\ \A d \in Clients, k \in 1..MaxEvents : d # c \/ k # n => h[d][k] = g[d][k]
<1>1. PICK r : r = [g[c] EXCEPT ![n] = @ + 1]
  OBVIOUS
<1>2. g[c] \in [1..MaxEvents -> Nat]
  OBVIOUS
<1>3. /\ r \in [1..MaxEvents -> Nat] /\ r[n] = g[c][n] + 1
      /\ \A k \in 1..MaxEvents : k # n => r[k] = g[c][k]
  BY <1>1, <1>2, Bump
<1>4. h = [g EXCEPT ![c] = r]
  BY <1>1
<1>5. h[c] = r /\ (\A d \in Clients \ {c} : h[d] = g[d]) /\ h \in [Clients -> [1..MaxEvents -> Nat]]
  BY <1>3, <1>4
<1> QED BY <1>3, <1>5

\* What a client receives counts for it alone
LEMMA ReceivesEffect ==
    ASSUME got \in [Clients -> [1..MaxEvents -> Nat]], NEW c \in Clients, NEW n \in 1..MaxEvents
    PROVE  /\ Receives(c, n) \in [Clients -> [1..MaxEvents -> Nat]]
           /\ \A d \in Clients, k \in 1..MaxEvents : Receives(c, n)[d][k] =
                IF conn[c] = "open" /\ d = c /\ k = n THEN got[d][k] + 1 ELSE got[d][k]
<1>1. PICK h : h = [got EXCEPT ![c][n] = @ + 1]
  OBVIOUS
<1>2. /\ h \in [Clients -> [1..MaxEvents -> Nat]] /\ h[c][n] = got[c][n] + 1
      /\ \A d \in Clients, k \in 1..MaxEvents : d # c \/ k # n => h[d][k] = got[d][k]
  BY <1>1, OneMore
<1>3. Receives(c, n) = IF conn[c] = "open" THEN h ELSE got
  BY <1>1 DEF Receives
<1>4. CASE conn[c] = "open"
  BY <1>2, <1>3, <1>4
<1>5. CASE conn[c] # "open"
  BY <1>3, <1>5
<1> QED BY <1>4, <1>5

\* The types of the deliveries
LEMMA DTypeKept ==
    ASSUME RoadInv, [DNext]_dvars
    PROVE  DTypeInv'
<1> USE DEF RoadInv, DTypeInv
<1>1. CASE Beside
  <2>1. sends' \in SUBSET sends
    BY <1>1 DEF Beside
  <2>2. IsFiniteSet(sends')
    BY <2>1, FS_Subset
  <2>3. queue' \in [Instances -> Seq(Send)]
    BY <1>1 DEF Beside
  <2>4. direct' \in [Instances -> BOOLEAN]
    <3>1. \A i \in Instances : (direct[i] /\ phase'[i] # "dead") \in BOOLEAN
      BY Zenon
    <3>2. direct' = [i \in Instances |-> direct[i] /\ phase'[i] # "dead"]
      BY <1>1 DEF Beside
    <3> QED BY <3>1, <3>2, Zenon
  <2> QED BY <1>1, <2>1, <2>2, <2>3, <2>4 DEF Beside
<1>2. ASSUME NEW i \in Instances, ListenDirect(i) \/ BreakDirect(i) PROVE DTypeInv'
  <2>1. direct' = [direct EXCEPT ![i] = TRUE] \/ direct' = [direct EXCEPT ![i] = FALSE]
    BY <1>2 DEF ListenDirect, BreakDirect
  <2>2. direct' \in [Instances -> BOOLEAN]
    BY <2>1
  <2>3. queue' = queue \/ queue' = [queue EXCEPT ![i] = <<>>]
    BY <1>2 DEF ListenDirect, BreakDirect
  <2>4. queue' \in [Instances -> Seq(Send)]
    <3>1. queue \in [Instances -> Seq(Send)] /\ <<>> \in Seq(Send)
      OBVIOUS
    <3> HIDE DEF RoadInv, DTypeInv
    <3> QED BY <2>3, <3>1
  <2> QED BY <1>2, <2>2, <2>4 DEF ListenDirect, BreakDirect
<1>3. ASSUME NEW i \in Instances, HandleDirect(i) PROVE DTypeInv'
  <2> DEFINE m == Head(queue[i])
  <2>1. queue[i] \in Seq(Send) /\ queue[i] # <<>> /\ queue' = [queue EXCEPT ![i] = Tail(@)]
    BY <1>3 DEF HandleDirect
  <2>2. m \in Send /\ queue' \in [Instances -> Seq(Send)]
    BY <2>1
  <2>3. got' \in [Clients -> [1..MaxEvents -> Nat]]
    <3>1. got' = got \/ got' = Receives(m.client, m.event)
      BY <1>3 DEF HandleDirect
    <3>2. m.client \in Clients /\ m.event \in 1..MaxEvents
      BY <2>2 DEF Send
    <3>3. got \in [Clients -> [1..MaxEvents -> Nat]]
      OBVIOUS
    <3> HIDE DEF m, RoadInv, DTypeInv
    <3>4. Receives(m.client, m.event) \in [Clients -> [1..MaxEvents -> Nat]]
      BY <3>2, <3>3, ReceivesEffect
    <3> QED BY <3>1, <3>3, <3>4
  <2> QED BY <1>3, <2>2, <2>3 DEF HandleDirect
<1>4. ASSUME NEW i \in Instances, NEW t \in Topics, NEW rule \in Rules, Publish(i, t, rule) PROVE DTypeInv'
  <2>1. sends' = sends \cup Copied(i, t, rule)
    BY <1>4 DEF Publish, Copied
  <2>2. sends' \in SUBSET Send /\ IsFiniteSet(sends')
    BY <1>4, <2>1, CopiedCount, FS_Union
  <2>3. events + 1 \in 1..MaxEvents
    BY <1>4, DeliveryAssumption DEF Publish
  <2>4. got' \in [Clients -> [1..MaxEvents -> Nat]]
    <3>1. \A c \in Clients : got'[c] = got[c] \/ got'[c] = Receives(c, events + 1)[c]
      BY <1>4 DEF Publish
    <3>2. got' = [c \in Clients |-> got'[c]]
      BY <1>4 DEF Publish
    <3>3. ASSUME NEW c \in Clients PROVE got'[c] \in [1..MaxEvents -> Nat]
      <4>1. Receives(c, events + 1) \in [Clients -> [1..MaxEvents -> Nat]]
        BY <2>3, ReceivesEffect
      <4> QED BY <3>1, <4>1
    <3> QED BY <3>2, <3>3
  <2> QED BY <1>4, <2>2, <2>3, <2>4 DEF Publish
<1>5. ASSUME NEW s \in sends, SendViaBridge(s) \/ SendFails(s) PROVE DTypeInv'
  <2>1. sends' = sends \ {s} /\ IsFiniteSet(sends \ {s})
    BY <1>5, FS_RemoveElement DEF SendViaBridge, SendFails
  <2>2. queue' \in [Instances -> Seq(Send)]
    <3>1. s \in Send /\ s.to \in Instances
      BY DEF Send
    <3>2. queue' = queue \/ queue' = [queue EXCEPT ![s.to] = Append(@, s)]
      BY <1>5 DEF SendViaBridge, SendFails
    <3>3. [queue EXCEPT ![s.to] = Append(@, s)] \in [Instances -> Seq(Send)]
      BY <3>1
    <3> QED BY <3>2, <3>3
  <2> QED BY <1>5, <2>1, <2>2 DEF SendViaBridge, SendFails
<1>6. CASE UNCHANGED dvars
  BY <1>6 DEF dvars, deliveryVars
<1> QED BY <1>1, <1>2, <1>3, <1>4, <1>5, <1>6 DEF DNext, BridgeStep, SendPanics

\* what is about to be sent was so before, or is on its way home; what waits in a queue
\* did so before, or was sent there; and a client has got no event that is yet to come
Sent == \A s \in sends' : s \in sends \/ (s.to = home[s.client] /\ s.event <= events')
Queued == \A i \in Instances : \A k \in 1..Len(queue'[i]) :
    \/ \E j \in 1..Len(queue[i]) : queue'[i][k] = queue[i][j]
    \/ queue'[i][k] \in sends /\ queue'[i][k].to = i
Unseen == \A c \in Clients, n \in 1..MaxEvents : n > events' => got'[c][n] = 0

\* Every way in which deliveries move keeps them on their way home
LEMMA RouteStep ==
    ASSUME DTypeInv, DTypeInv', RouteInv, HomeStable, events <= events', Sent, Queued, Unseen
    PROVE  RouteInv'
<1> USE DEF Sent, Queued, Unseen
<1>0. events \in Nat /\ events' \in Nat
  BY DEF DTypeInv
<1>1. \A s \in Send : s.event \in Nat /\ s.to \in Instances /\ s.client \in Clients
  BY DEF Send
<1>2. ASSUME NEW s \in sends' PROVE s.to = home'[s.client] /\ s.event <= events'
  <2>1. s \in Send
    BY DEF DTypeInv
  <2>2. s.to = home[s.client] /\ s.event <= events'
    BY <1>0, <1>1, <2>1 DEF RouteInv
  <2> QED BY <1>1, <2>1, <2>2 DEF HomeStable
<1>3. ASSUME NEW i \in Instances, NEW k \in 1..Len(queue'[i])
      PROVE  home'[queue'[i][k].client] = i /\ queue'[i][k].event <= events'
  <2>1. queue'[i][k] \in Send
    <3>1. queue'[i] \in Seq(Send)
      BY DEF DTypeInv
    <3> QED BY <3>1
  <2>2. home[queue'[i][k].client] = i /\ queue'[i][k].event <= events'
    <3>1. CASE \E j \in 1..Len(queue[i]) : queue'[i][k] = queue[i][j]
      BY <1>0, <1>1, <2>1, <3>1 DEF RouteInv
    <3>2. CASE queue'[i][k] \in sends /\ queue'[i][k].to = i
      BY <1>0, <1>1, <2>1, <3>2 DEF RouteInv
    <3> QED BY <3>1, <3>2
  <2> QED BY <1>1, <2>1, <2>2 DEF HomeStable
<1> QED BY <1>2, <1>3 DEF RouteInv

\* Copies stay on their way to the process of their client
LEMMA RouteKept ==
    ASSUME RoadInv, DTypeInv', HomeStable, [DNext]_dvars
    PROVE  RouteInv'
<1> USE DEF RoadInv
<1>00. DTypeInv /\ RouteInv
  OBVIOUS
<1>0. /\ queue \in [Instances -> Seq(Send)] /\ sends \subseteq Send /\ events \in Nat
      /\ got \in [Clients -> [1..MaxEvents -> Nat]]
  BY DEF DTypeInv
<1> USE DEF Sent, Queued, Unseen
<1>1. CASE Beside
  <2>1. events' = events /\ Sent /\ Unseen
    BY <1>1 DEF Beside, RouteInv
  <2>2. \A i \in Instances : queue'[i] \in {queue[i], <<>>}
    BY <1>1 DEF Beside
  <2>3. Queued
    BY <2>2
  <2> HIDE DEF Sent, Queued, Unseen, RoadInv
  <2> QED BY <1>00, <1>0, <2>1, <2>3, RouteStep
<1>2. ASSUME NEW i \in Instances, ListenDirect(i) \/ BreakDirect(i) PROVE RouteInv'
  <2>1. events' = events /\ Sent /\ Unseen
    BY <1>2 DEF ListenDirect, BreakDirect, RouteInv
  <2>2. \A j \in Instances : queue'[j] \in {queue[j], <<>>}
    BY <1>0, <1>2 DEF ListenDirect, BreakDirect
  <2>3. Queued
    BY <2>2
  <2> HIDE DEF Sent, Queued, Unseen, RoadInv
  <2> QED BY <1>00, <1>0, <2>1, <2>3, RouteStep
<1>3. ASSUME NEW i \in Instances, HandleDirect(i) PROVE RouteInv'
  <2>1. /\ queue[i] \in Seq(Send) /\ queue[i] # <<>> /\ queue' = [queue EXCEPT ![i] = Tail(@)]
        /\ events' = events /\ sends' = sends
    BY <1>0, <1>3 DEF HandleDirect
  <2>2. Queued
    <3>1. \A k \in 1..Len(Tail(queue[i])) : k + 1 \in 1..Len(queue[i]) /\ Tail(queue[i])[k] = queue[i][k + 1]
      BY <2>1
    <3>2. queue'[i] = Tail(queue[i]) /\ \A j \in Instances \ {i} : queue'[j] = queue[j]
      BY <1>0, <2>1
    <3>3. \A k \in 1..Len(queue'[i]) : \E q \in 1..Len(queue[i]) : queue'[i][k] = queue[i][q]
      BY <3>1, <3>2
    <3> QED BY <3>2, <3>3
  <2>3. Unseen
    <3> DEFINE m == Head(queue[i])
    <3>1. m \in Send /\ m.event <= events
      <4>1. 1 \in 1..Len(queue[i]) /\ m = queue[i][1] /\ m \in Send
        BY <2>1
      <4> QED BY <4>1 DEF RouteInv
    <3>2. got' = got \/ got' = Receives(m.client, m.event)
      BY <1>3 DEF HandleDirect
    <3>3. m.client \in Clients /\ m.event \in 1..MaxEvents
      BY <3>1 DEF Send
    <3> HIDE DEF m
    <3>4. \A c \in Clients, n \in 1..MaxEvents : n # m.event => got'[c][n] = got[c][n]
      <4>1. PICK d, k : d = m.client /\ k = m.event
        OBVIOUS
      <4>2. \A c \in Clients, n \in 1..MaxEvents : n # k => Receives(d, k)[c][n] = got[c][n]
        <5>1. d \in Clients /\ k \in 1..MaxEvents
          BY <3>3, <4>1
        <5>2. \A c \in Clients, n \in 1..MaxEvents : Receives(d, k)[c][n] =
                IF conn[d] = "open" /\ c = d /\ n = k THEN got[c][n] + 1 ELSE got[c][n]
          BY <1>0, <5>1, ReceivesEffect
        <5> QED BY <5>2
      <4> QED BY <3>2, <4>1, <4>2
    <3>5. \A n \in 1..MaxEvents : n > events => n # m.event
      BY <1>0, <3>1, <3>3
    <3> QED BY <2>1, <3>4, <3>5 DEF RouteInv
  <2>4. Sent
    BY <2>1
  <2> HIDE DEF Sent, Queued, Unseen, RoadInv
  <2> QED BY <1>00, <1>0, <2>1, <2>2, <2>3, <2>4, RouteStep
<1>4. ASSUME NEW i \in Instances, NEW t \in Topics, NEW rule \in Rules, Publish(i, t, rule) PROVE RouteInv'
  <2>1. events' = events + 1 /\ queue' = queue /\ sends' = sends \cup Copied(i, t, rule)
    BY <1>4 DEF Publish, Copied
  <2>2. \A s \in Copied(i, t, rule) : s.to = home[s.client] /\ s.event = events + 1
    BY <1>4, CopiedCount
  <2>3. Sent
    BY <1>0, <2>1, <2>2
  <2>4. Queued
    BY <2>1
  <2>5. Unseen
    <3>1. \A c \in Clients : got'[c] = got[c] \/ got'[c] = Receives(c, events + 1)[c]
      BY <1>4 DEF Publish
    <3>2. events + 1 \in 1..MaxEvents /\ \A n \in 1..MaxEvents : n > events + 1 => n # events + 1 /\ n > events
      BY <1>0, <1>4, DeliveryAssumption DEF Publish
    <3>3. \A c \in Clients, n \in 1..MaxEvents : n # events + 1 => Receives(c, events + 1)[c][n] = got[c][n]
      BY <1>0, <3>2, ReceivesEffect
    <3>4. \A c \in Clients, n \in 1..MaxEvents : n > events + 1 => got'[c][n] = got[c][n]
      BY <3>1, <3>2, <3>3
    <3> QED BY <2>1, <3>2, <3>4 DEF RouteInv
  <2> HIDE DEF Sent, Queued, Unseen, RoadInv
  <2> QED BY <1>00, <1>0, <2>1, <2>3, <2>4, <2>5, RouteStep
<1>5. ASSUME NEW s \in sends, SendViaBridge(s) \/ SendFails(s) PROVE RouteInv'
  <2>1. events' = events /\ sends' = sends \ {s} /\ got' = got
    BY <1>5 DEF SendViaBridge, SendFails
  <2>2. Queued
    <3>1. s \in Send /\ s.to \in Instances
      BY <1>0 DEF Send
    <3>2. queue' = queue \/ queue' = [queue EXCEPT ![s.to] = Append(@, s)]
      BY <1>5 DEF SendViaBridge, SendFails
    <3>3. CASE queue' = queue
      BY <3>3
    <3>4. CASE queue' = [queue EXCEPT ![s.to] = Append(@, s)]
      <4>1. queue'[s.to] = Append(queue[s.to], s) /\ \A j \in Instances \ {s.to} : queue'[j] = queue[j]
        BY <1>0, <3>1, <3>4
      <4>2. \A k \in 1..Len(Append(queue[s.to], s)) :
              \/ Append(queue[s.to], s)[k] = s
              \/ k \in 1..Len(queue[s.to]) /\ Append(queue[s.to], s)[k] = queue[s.to][k]
        BY <1>0, <3>1
      <4> QED BY <4>1, <4>2
    <3> QED BY <3>2, <3>3, <3>4
  <2>3. Sent /\ Unseen
    BY <2>1 DEF RouteInv
  <2> HIDE DEF Sent, Queued, Unseen, RoadInv
  <2> QED BY <1>00, <1>0, <2>1, <2>2, <2>3, RouteStep
<1>6. CASE UNCHANGED dvars
  BY <1>6 DEF dvars, rvars, deliveryVars, vars, RouteInv
<1> QED BY <1>1, <1>2, <1>3, <1>4, <1>5, <1>6 DEF DNext, BridgeStep, SendPanics

-----------------------------------------------------------------------------
(***************************************************************************)
(* How many copies of an event there are for a client.                     *)
(***************************************************************************)

\* the goroutines that are about to send a copy
Going(S, c, n) == {s \in S : s.client = c /\ s.event = n}

\* The copies of an event are those that a client got, those to be sent and those that wait
LEMMA CopiesType ==
    ASSUME RoadInv, NEW c \in Clients, NEW n \in 1..MaxEvents
    PROVE  /\ got[c][n] \in Nat
           /\ IsFiniteSet(Going(sends, c, n)) /\ Cardinality(Going(sends, c, n)) \in Nat
           /\ IsFiniteSet(Spread(queue, c, n)) /\ Cardinality(Spread(queue, c, n)) \in Nat
           /\ \A i \in Instances : \E h \in Instances :
                OnlyAt(queue, c, h) /\ (home[c] \in Instances => h = home[c])
<1>0. /\ queue \in [Instances -> Seq(Send)] /\ IsFiniteSet(sends)
      /\ got \in [Clients -> [1..MaxEvents -> Nat]]
  BY DEF RoadInv, DTypeInv
<1>1. got[c][n] \in Nat
  <2>1. got[c] \in [1..MaxEvents -> Nat]
    BY <1>0
  <2> QED BY <2>1
<1>2. IsFiniteSet(Going(sends, c, n)) /\ Cardinality(Going(sends, c, n)) \in Nat
  <2>1. Going(sends, c, n) \in SUBSET sends
    BY DEF Going
  <2> QED BY <1>0, <2>1, FS_Subset, FS_CardinalityType
<1>3. ASSUME NEW i \in Instances
      PROVE  \E h \in Instances : OnlyAt(queue, c, h) /\ (home[c] \in Instances => h = home[c])
  <2>0. \A j \in Instances : \A k \in 1..Len(queue[j]) : home[queue[j][k].client] = j
    BY DEF RoadInv, RouteInv
  <2>1. CASE home[c] \in Instances
    <3>1. OnlyAt(queue, c, home[c])
      BY <1>0, <2>0, <2>1 DEF OnlyAt
    <3> QED BY <2>1, <3>1
  <2>2. CASE home[c] \notin Instances
    <3>1. OnlyAt(queue, c, i)
      BY <1>0, <2>0, <2>2 DEF OnlyAt
    <3> QED BY <2>2, <3>1
  <2> QED BY <2>1, <2>2
<1>4. IsFiniteSet(Spread(queue, c, n)) /\ Cardinality(Spread(queue, c, n)) \in Nat
  <2>1. CASE Instances = {}
    <3>1. Spread(queue, c, n) = {}
      BY <2>1 DEF Spread
    <3> QED BY <3>1, FS_EmptySet
  <2>2. CASE \E i \in Instances : TRUE
    BY <1>0, <1>3, <2>2, QueueCount
  <2> QED BY <2>1, <2>2
<1> QED BY <1>1, <1>2, <1>3, <1>4

\* The sum that Copies is, before a step and after it
LEMMA CopiesSplit ==
    ASSUME NEW c, NEW n
    PROVE  /\ Copies(c, n) =
                got[c][n] + Cardinality(Going(sends, c, n)) + Cardinality(Spread(queue, c, n))
           /\ Copies(c, n)' =
                got'[c][n] + Cardinality(Going(sends', c, n)) + Cardinality(Spread(queue', c, n))
BY DEF Copies, Going, Spread, InQueue

\* The number of copies is a number, before a step and after it
CopiesInv == \A c \in Clients, n \in 1..MaxEvents : Copies(c, n) \in Nat

\* The number of copies is a number before a step ...
LEMMA CopiesCount == RoadInv => CopiesInv
BY CopiesType, CopiesSplit DEF CopiesInv

\* ... and after it
LEMMA CopiesCountNext == RoadInv' => CopiesInv'
BY CopiesCount, PTL

\* A step of the bridge loses the copies of the processes that end, and no other
LEMMA BridgeCopies ==
    ASSUME RoadInv, Beside, NEW c \in Clients, NEW n \in 1..MaxEvents
    PROVE  /\ Copies(c, n)' <= Copies(c, n)
           /\ AllRun(phase') => Copies(c, n)' = Copies(c, n)
<1>1. got' = got /\ \A i \in Instances : queue'[i] \in {queue[i], <<>>}
  BY DEF Beside
<1>2. Going(sends', c, n) \in SUBSET Going(sends, c, n)
  BY DEF Beside, Going
<1>3. /\ Cardinality(Going(sends', c, n)) \in Nat
      /\ Cardinality(Going(sends', c, n)) <= Cardinality(Going(sends, c, n))
  BY <1>2, CopiesType, FS_Subset, FS_CardinalityType
<1>4. /\ Cardinality(Spread(queue', c, n)) \in Nat
      /\ Cardinality(Spread(queue', c, n)) <= Cardinality(Spread(queue, c, n))
  BY <1>1, CopiesType, QueueLoses
<1>5. AllRun(phase') => sends' = sends /\ queue' = queue
  BY DEF Beside, AllRun, RoadInv, DTypeInv, Send
<1>6. Copies(c, n)' = got[c][n] + Cardinality(Going(sends', c, n)) + Cardinality(Spread(queue', c, n))
  BY <1>1, CopiesSplit
<1>7. Copies(c, n) = got[c][n] + Cardinality(Going(sends, c, n)) + Cardinality(Spread(queue, c, n))
  BY CopiesSplit
<1> QED BY <1>3, <1>4, <1>5, <1>6, <1>7, CopiesType

\* A goroutine that sends hands its copy to the queue of a process that listens
LEMMA SendCopies ==
    ASSUME RoadInv, NEW s \in sends, SendViaBridge(s) \/ SendFails(s),
           NEW c \in Clients, NEW n \in 1..MaxEvents
    PROVE  /\ Copies(c, n)' <= Copies(c, n)
           /\ SendViaBridge(s) /\ (s.client = c => direct[s.to]) => Copies(c, n)' = Copies(c, n)
<1> DEFINE G == Going(sends, c, n)
           in == s.client = c /\ s.event = n
<1>1. sends' = sends \ {s} /\ got' = got /\ s \in Send /\ s.to \in Instances /\ s.to = home[s.client]
  BY DEF SendViaBridge, SendFails, RoadInv, RouteInv, DTypeInv, Send
<1>2. Going(sends', c, n) = G \ {s} /\ (s \in G <=> in) /\ (s \in CopyOf(c, n) <=> in)
  BY <1>1 DEF Going, CopyOf
<1>3. Cardinality(G) = Cardinality(G \ {s}) + (IF in THEN 1 ELSE 0) /\ Cardinality(G \ {s}) \in Nat
  <2>1. IsFiniteSet(G) /\ Cardinality(G) \in Nat
    BY CopiesType
  <2> HIDE DEF G, in
  <2>2. /\ IsFiniteSet(G \ {s})
        /\ Cardinality(G \ {s}) = IF s \in G THEN Cardinality(G) - 1 ELSE Cardinality(G)
    BY <2>1, FS_RemoveElement
  <2>3. Cardinality(G \ {s}) \in Nat
    BY <2>2, FS_CardinalityType
  <2> QED BY <1>2, <2>1, <2>2, <2>3
<1>4. PICK h \in Instances : OnlyAt(queue, c, h) /\ (home[c] \in Instances => h = home[c])
  BY <1>1, CopiesType
<1>5. CASE queue' = queue
  <2>1. SendViaBridge(s) /\ direct[s.to] => FALSE
    <3> SUFFICES ASSUME SendViaBridge(s), direct[s.to] PROVE FALSE
      OBVIOUS
    <3>1. queue[s.to] \in Seq(Send) /\ queue'[s.to] = Append(queue[s.to], s)
      BY <1>1 DEF SendViaBridge, RoadInv, DTypeInv
    <3>2. Len(Append(queue[s.to], s)) = Len(queue[s.to]) + 1 /\ Len(queue[s.to]) \in Nat
      BY <3>1
    <3> QED BY <1>5, <3>1, <3>2
  <2> HIDE DEF G
  <2>2. ~in \/ ~(SendViaBridge(s) /\ (s.client = c => direct[s.to]))
    BY <2>1
  <2>3. Copies(c, n)' = got[c][n] + Cardinality(G \ {s}) + Cardinality(Spread(queue, c, n))
    BY <1>1, <1>2, <1>5, CopiesSplit
  <2>4. Copies(c, n) = got[c][n] + Cardinality(G) + Cardinality(Spread(queue, c, n))
    BY CopiesSplit DEF G
  <2> QED BY <1>3, <2>2, <2>3, <2>4, CopiesType
<1>6. CASE queue' = [queue EXCEPT ![s.to] = Append(@, s)]
  <2>1. queue \in [Instances -> Seq(Send)] /\ (s.client = c => s.to = h)
    BY <1>1, <1>4 DEF RoadInv, DTypeInv
  <2>2. Cardinality(Spread(queue', c, n)) =
          Cardinality(Spread(queue, c, n)) + (IF s \in CopyOf(c, n) THEN 1 ELSE 0)
    <3>1. PICK p : p = queue'
      OBVIOUS
    <3>2. p = [queue EXCEPT ![s.to] = Append(@, s)]
      BY <1>6, <3>1
    <3>3. Cardinality(Spread(p, c, n)) =
            Cardinality(Spread(queue, c, n)) + (IF s \in CopyOf(c, n) THEN 1 ELSE 0)
      <4>1. Longer(p, queue, s.to, s)
        BY <1>1, <2>1, <3>2 DEF Longer
      <4> QED BY <1>4, <2>1, <4>1, QueueGrows
    <3> QED BY <3>1, <3>3
  <2>3. Copies(c, n)' = got[c][n] + Cardinality(G \ {s}) + Cardinality(Spread(queue', c, n))
    BY <1>1, <1>2, CopiesSplit
  <2>4. Copies(c, n) = got[c][n] + Cardinality(G) + Cardinality(Spread(queue, c, n))
    BY CopiesSplit
  <2> HIDE DEF G
  <2> QED BY <1>2, <1>3, <2>2, <2>3, <2>4, CopiesType
<1>7. queue' = queue \/ queue' = [queue EXCEPT ![s.to] = Append(@, s)]
  BY DEF SendViaBridge, SendFails
<1> QED BY <1>5, <1>6, <1>7

\* A listener that handles a copy gives it to its client, if the client is connected
LEMMA HandleCopies ==
    ASSUME RoadInv, NEW i \in Instances, HandleDirect(i), NEW c \in Clients, NEW n \in 1..MaxEvents
    PROVE  /\ Copies(c, n)' <= Copies(c, n)
           /\ conn[c] = "open" => Copies(c, n)' = Copies(c, n)
<1> DEFINE m == Head(queue[i])
<1>1. /\ queue \in [Instances -> Seq(Send)] /\ queue[i] # <<>> /\ queue' = [queue EXCEPT ![i] = Tail(@)]
      /\ sends' = sends /\ got \in [Clients -> [1..MaxEvents -> Nat]]
  BY DEF HandleDirect, RoadInv, DTypeInv
<1>2. m \in Send /\ home[m.client] = i
  <2>1. 1 \in 1..Len(queue[i]) /\ m = queue[i][1] /\ m \in Send
    BY <1>1
  <2> QED BY <2>1 DEF RoadInv, RouteInv
<1>3. m.client \in Clients /\ m.event \in 1..MaxEvents
  BY <1>2 DEF Send
<1>4. PICK h \in Instances : OnlyAt(queue, c, h)
  BY CopiesType
<1>5. got' = IF m.client \in local[i] THEN Receives(m.client, m.event) ELSE got
  BY DEF HandleDirect
<1> HIDE DEF m
<1>6. /\ Cardinality(Spread(queue', c, n)) \in Nat
      /\ Cardinality(Spread(queue, c, n)) =
           Cardinality(Spread(queue', c, n)) + (IF m \in CopyOf(c, n) THEN 1 ELSE 0)
  <2>1. PICK p : p = queue'
    OBVIOUS
  <2>2. p = [queue EXCEPT ![i] = Tail(@)]
    BY <1>1, <2>1
  <2>3. /\ Cardinality(Spread(p, c, n)) \in Nat
        /\ Cardinality(Spread(queue, c, n)) =
             Cardinality(Spread(p, c, n)) + (IF Head(queue[i]) \in CopyOf(c, n) THEN 1 ELSE 0)
    <3>1. Shorter(p, queue, i)
      BY <1>1, <2>2 DEF Shorter
    <3> QED BY <1>4, <3>1, QueueShrinks
  <2> QED BY <2>1, <2>3 DEF m
<1>7. m \in CopyOf(c, n) <=> m.client = c /\ m.event = n
  BY <1>2 DEF CopyOf
<1>8. got'[c][n] = IF m.client \in local[i] /\ conn[m.client] = "open" /\ m.client = c /\ m.event = n
                   THEN got[c][n] + 1 ELSE got[c][n]
  <2>1. PICK d, k : d = m.client /\ k = m.event
    OBVIOUS
  <2>2. Receives(d, k)[c][n] = IF conn[d] = "open" /\ c = d /\ n = k THEN got[c][n] + 1 ELSE got[c][n]
    <3>1. d \in Clients /\ k \in 1..MaxEvents
      BY <1>3, <2>1
    <3> QED BY <1>1, <3>1, ReceivesEffect
  <2> QED BY <1>5, <2>1, <2>2
<1>9. conn[c] = "open" /\ m.client = c => m.client \in local[i]
  BY <1>2 DEF RoadInv, BridgeInv, OwnClientsStay
<1>10. /\ Copies(c, n)' = got'[c][n] + Cardinality(Going(sends, c, n)) + Cardinality(Spread(queue', c, n))
       /\ Copies(c, n) = got[c][n] + Cardinality(Going(sends, c, n)) + Cardinality(Spread(queue, c, n))
  BY <1>1, CopiesSplit
<1> QED BY <1>6, <1>7, <1>8, <1>9, <1>10, CopiesType

\* A new event has no copies; publishing it gives one to each local client and one to send
\* for each remote client
LEMMA PublishCopies ==
    ASSUME RoadInv, NEW i \in Instances, NEW t \in Topics, NEW rule \in Rules, Publish(i, t, rule),
           NEW c \in Clients, NEW n \in 1..MaxEvents
    PROVE  /\ n # events + 1 => Copies(c, n)' = Copies(c, n)
           /\ n = events + 1 => LET C == {s \in Copied(i, t, rule) : s.client = c} IN
                /\ Copies(c, n) = 0
                /\ Copies(c, n)' = Cardinality(C)
                     + (IF c \in local[i] /\ t \in subs[c] /\ MaySee(rule, AuthOf(c)) /\ conn[c] = "open"
                        THEN 1 ELSE 0)
<1>1. /\ events \in Nat /\ events + 1 \in 1..MaxEvents /\ got \in [Clients -> [1..MaxEvents -> Nat]]
      /\ sends' = sends \cup Copied(i, t, rule) /\ queue' = queue /\ sends \subseteq Send
      /\ got'[c] = IF c \in local[i] /\ t \in subs[c] /\ MaySee(rule, AuthOf(c))
                 THEN Receives(c, events + 1)[c] ELSE got[c]
  BY DeliveryAssumption DEF Publish, Copied, RoadInv, DTypeInv
<1>2. Receives(c, events + 1)[c][n] =
        IF conn[c] = "open" /\ n = events + 1 THEN got[c][n] + 1 ELSE got[c][n]
  BY <1>1, ReceivesEffect
<1>3. \A s \in Copied(i, t, rule) : s.event = events + 1
  BY CopiedCount
<1>4. CASE n # events + 1
  <2>1. Going(sends', c, n) = Going(sends, c, n)
    BY <1>1, <1>3, <1>4 DEF Going
  <2>2. got'[c][n] = got[c][n]
    BY <1>1, <1>2, <1>4
  <2>3. /\ Copies(c, n)' =
             got'[c][n] + Cardinality(Going(sends', c, n)) + Cardinality(Spread(queue', c, n))
        /\ Copies(c, n) =
             got[c][n] + Cardinality(Going(sends, c, n)) + Cardinality(Spread(queue, c, n))
    BY CopiesSplit
  <2>4. Copies(c, n)' = Copies(c, n)
    BY <1>1, <2>1, <2>2, <2>3
  <2> QED BY <1>4, <2>4
<1>5. CASE n = events + 1
  <2> DEFINE C == {s \in Copied(i, t, rule) : s.client = c}
  <2>1. n > events
    BY <1>1, <1>5
  <2>2. got[c][n] = 0 /\ Going(sends, c, n) = {}
    <3>1. \A s \in sends : s.event \in Nat /\ s.event <= events
      BY <1>1 DEF RoadInv, RouteInv, Send
    <3> QED BY <1>1, <2>1, <3>1 DEF RoadInv, RouteInv, Going
  <2>3. Spread(queue, c, n) = {}
    <3>1. \A j \in Instances : \A k \in 1..Len(queue[j]) : queue[j][k].event # n
      <4> TAKE j \in Instances
      <4> TAKE k \in 1..Len(queue[j])
      <4>1. queue[j] \in Seq(Send)
        BY DEF RoadInv, DTypeInv
      <4>2. queue[j][k] \in Send
        BY <4>1
      <4>3. queue[j][k].event \in Nat /\ queue[j][k].event <= events
        BY <4>2 DEF RoadInv, RouteInv, Send
      <4> QED BY <1>1, <2>1, <4>3
    <3> QED BY <3>1 DEF Spread, Waiting
  <2>4. Going(sends', c, n) = C
    BY <1>1, <1>3, <1>5, <2>2 DEF Going
  <2>5. Cardinality({}) = 0
    BY FS_EmptySet
  <2>6. got'[c][n] = IF c \in local[i] /\ t \in subs[c] /\ MaySee(rule, AuthOf(c)) /\ conn[c] = "open"
                    THEN 1 ELSE 0
    BY <1>1, <1>2, <1>5, <2>2
  <2>7. Cardinality(C) \in Nat
    BY CopiedCount
  <2>8. Copies(c, n) = 0
    <3>1. Copies(c, n) =
            got[c][n] + Cardinality(Going(sends, c, n)) + Cardinality(Spread(queue, c, n))
      BY CopiesSplit
    <3> QED BY <2>2, <2>3, <2>5, <3>1
  <2>9. Copies(c, n)' = got'[c][n] + Cardinality(C)
    <3>1. Copies(c, n)' = got'[c][n] + Cardinality(Going(sends', c, n)) + Cardinality(Spread(queue, c, n))
      BY <1>1, CopiesSplit
    <3> HIDE DEF C
    <3>2. got'[c][n] \in Nat
      BY <2>6
    <3> QED BY <2>3, <2>4, <2>5, <2>7, <3>1, <3>2
  <2> HIDE DEF C
  <2> QED BY <1>5, <2>6, <2>7, <2>8, <2>9 DEF C
<1> QED BY <1>4, <1>5

-----------------------------------------------------------------------------
(***************************************************************************)
(* The invariants of the deliveries together, and what they imply.         *)
(***************************************************************************)

DeliveryInv == RoadInv /\ KnownInv /\ LastFiled /\ NoMoreCopiesThanNotices

\* Nothing is under way when the processes start
LEMMA DeliveryInit == DInit => DeliveryInv
<1> SUFFICES ASSUME DInit PROVE DeliveryInv
  OBVIOUS
<1>1. Init
  BY DEF DInit, RInit
<1>2. BridgeInv
  BY <1>1, BridgeInit
<1>3. BrokerInv
  BY <1>1 DEF Init, BrokerInv
<1>4. FiniteInv
  <2>1. Begun = {} /\ \A i \in Instances : remotes[i] = {}
    BY <1>1, BridgeAssumption DEF Init, Begun
  <2> QED BY <2>1, FS_EmptySet DEF FiniteInv
<1>5. DTypeInv
  <2>1. IsFiniteSet(sends)
    BY FS_EmptySet DEF DInit
  <2>2. direct \in [Instances -> BOOLEAN] /\ queue \in [Instances -> Seq(Send)]
    <3>1. <<>> \in Seq(Send)
      OBVIOUS
    <3> QED BY <3>1 DEF DInit
  <2>3. got \in [Clients -> [1..MaxEvents -> Nat]] /\ events \in 0..MaxEvents /\ sends \subseteq Send
    BY DeliveryAssumption DEF DInit
  <2> QED BY <2>1, <2>2, <2>3 DEF DTypeInv
<1>6. RouteInv
  BY DEF DInit, RouteInv
<1>7. RoadInv
  BY <1>2, <1>3, <1>4, <1>5, <1>6 DEF RoadInv
<1>8. KnownInv
  <2> SUFFICES ASSUME NEW i \in Instances, NEW c \in Clients
               PROVE  Cardinality(Files(remotes[i], c)) + Cardinality(At(inbox[i], UpsertsOf(c))) <= Notices(c)
    BY DEF KnownInv
  <2>1. Files(remotes[i], c) = {} /\ At(inbox[i], UpsertsOf(c)) = {}
    BY <1>1 DEF Init, Files, At
  <2>2. {r \in Requests : req[r].client = c /\ req[r].pc = "done"} = {}
    BY <1>1 DEF Init
  <2>3. Cardinality({}) = 0 /\ 0 + 0 <= 0
    BY FS_EmptySet
  <2>4. Notices(c) = Cardinality({})
    BY <2>2, Zenon DEF Notices
  <2> QED BY <2>1, <2>3, <2>4
<1>9. LastFiled
  BY <1>1 DEF Init, LastFiled, Files
<1>10. NoMoreCopiesThanNotices
  <2> SUFFICES ASSUME NEW c \in Clients, NEW n \in 1..MaxEvents PROVE Copies(c, n) = 0
    BY DEF NoMoreCopiesThanNotices
  <2>1. got[c][n] = 0 /\ Going(sends, c, n) = {} /\ Spread(queue, c, n) = {}
    BY DEF DInit, Going, Spread, Waiting
  <2>2. Copies(c, n) = got[c][n] + Cardinality(Going(sends, c, n)) + Cardinality(Spread(queue, c, n))
    BY CopiesSplit
  <2> QED BY <2>1, <2>2, FS_EmptySet
<1> QED BY <1>7, <1>8, <1>9, <1>10 DEF DeliveryInv

\* The fault of a channel or of Send changes nothing the bridge's invariants are about
LEMMA FaultKeeps ==
    ASSUME FaultOnly, FiniteInv, KnownInv, LastFiled
    PROVE  FiniteInv' /\ KnownInv' /\ LastFiled' /\ \A c \in Clients : Notices(c)' = Notices(c)
BY DEF FaultOnly, FiniteInv, Begun, KnownInv, Notices, LastFiled

\* Notices only grow
LEMMA NoticesStay ==
    ASSUME RoadInv, [DNext]_dvars, NEW c \in Clients
    PROVE  Notices(c) \in Nat /\ Notices(c)' \in Nat /\ Notices(c) <= Notices(c)'
<1>1. TypeOK /\ BridgeInv /\ BrokerInv /\ FiniteInv
  BY DEF RoadInv, BridgeInv, TypeInv
<1>2. Notices(c) \in Nat
  <2>1. {r \in Requests : req[r].client = c /\ req[r].pc = "done"} \in SUBSET Begun
    BY DEF Begun
  <2> QED BY <1>1, <2>1, FS_Subset, FS_CardinalityType DEF FiniteInv, Notices
<1>3. CASE Watched
  BY <1>1, <1>3, FiniteKept, NoticesGrow DEF Watched
<1>4. CASE FaultOnly
  <2>1. Notices(c)' = Notices(c)
    BY <1>4 DEF FaultOnly, Notices
  <2> QED BY <1>2, <2>1
<1> QED BY <1>1, <1>3, <1>4, BridgeBelow

\* Every step keeps the types, the ways and the counts of remote clients
LEMMA RoadKept ==
    ASSUME RoadInv, KnownInv, LastFiled, [DNext]_dvars
    PROVE  RoadInv' /\ KnownInv' /\ LastFiled'
<1>1. TypeOK /\ BridgeInv /\ BrokerInv /\ FiniteInv
  BY DEF RoadInv, BridgeInv, TypeInv
<1>2. BridgeInv' /\ BrokerInv' /\ HomeStable
  BY <1>1, BridgeStillKept
<1>3. DTypeInv' /\ RouteInv'
  BY <1>2, DTypeKept, RouteKept
<1>4. FiniteInv' /\ KnownInv' /\ LastFiled'
  <2>1. CASE Watched
    BY <1>1, <2>1, FiniteKept, KnownKept, LastFiledKept DEF Watched
  <2>2. CASE FaultOnly
    BY <1>1, <2>2, FaultKeeps
  <2> QED BY <1>1, <2>1, <2>2, BridgeBelow
<1> QED BY <1>2, <1>3, <1>4 DEF RoadInv

\* Publishing sends a client one copy if it is a local client, and else one for each remote
\* client that was filed for it
LEMMA PublishBounds ==
    ASSUME DeliveryInv, NEW i \in Instances, NEW t \in Topics, NEW rule \in Rules, Publish(i, t, rule),
           NEW c \in Clients, NEW n \in 1..MaxEvents, n = events + 1
    PROVE  Copies(c, n)' <= 1 \/ Copies(c, n)' <= Notices(c)
<1> DEFINE C == {s \in Copied(i, t, rule) : s.client = c}
           one == IF c \in local[i] /\ t \in subs[c] /\ MaySee(rule, AuthOf(c)) /\ conn[c] = "open"
                  THEN 1 ELSE 0
           F == Files(remotes[i], c)
<1>0. RoadInv /\ KnownInv
  BY DEF DeliveryInv
<1>1. Copies(c, n)' = Cardinality(C) + one
  BY <1>0, PublishCopies
<1>2. Cardinality(C) \in Nat /\ Cardinality(C) <= Cardinality(F)
  BY <1>0, CopiedCount
<1>3. CASE c \in local[i]
  <2>1. F = {}
    BY <1>0, <1>3 DEF RoadInv, BrokerInv, BridgeInv, RemotesPointHome, Files
  <2>2. Cardinality(F) = 0
    BY <2>1, FS_EmptySet
  <2> HIDE DEF C, F
  <2> QED BY <1>1, <1>2, <2>2
<1>4. CASE c \notin local[i]
  <2>1. Cardinality(F) + Cardinality(At(inbox[i], UpsertsOf(c))) <= Notices(c)
    BY <1>0 DEF KnownInv
  <2>2. Cardinality(At(inbox[i], UpsertsOf(c))) \in Nat /\ Cardinality(F) \in Nat
    <3>1. inbox[i] \in Seq(Message) /\ IsFiniteSet(remotes[i])
      BY <1>0 DEF RoadInv, BridgeInv, TypeInv, TypeOK, FiniteInv
    <3> QED BY <3>1, AtCount, FilesCount
  <2>3. Notices(c) \in Nat
    <3>1. [DNext]_dvars
      BY DEF DNext
    <3> QED BY <1>0, <3>1, NoticesStay
  <2>4. one = 0
    BY <1>4
  <2> HIDE DEF C, F, one
  <2> QED BY <1>1, <1>2, <2>1, <2>2, <2>3, <2>4
<1> QED BY <1>3, <1>4

\* No step but a publication adds a copy
LEMMA CopiesKept ==
    ASSUME DeliveryInv, [DNext]_dvars
    PROVE  NoMoreCopiesThanNotices'
<1> SUFFICES ASSUME NEW c \in Clients, NEW n \in 1..MaxEvents
             PROVE  Copies(c, n)' <= 1 \/ Copies(c, n)' <= Notices(c)'
  BY DEF NoMoreCopiesThanNotices
<1>0. RoadInv /\ RoadInv'
  BY RoadKept DEF DeliveryInv
<1>1. Copies(c, n) \in Nat /\ Copies(c, n)' \in Nat
  BY <1>0, CopiesCount, CopiesCountNext DEF CopiesInv
<1>2. Notices(c) \in Nat /\ Notices(c)' \in Nat /\ Notices(c) <= Notices(c)'
  BY <1>0, NoticesStay
<1>3. Copies(c, n) <= 1 \/ Copies(c, n) <= Notices(c)
  BY DEF DeliveryInv, NoMoreCopiesThanNotices
<1>4. CASE Copies(c, n)' <= Copies(c, n)
  BY <1>1, <1>2, <1>3, <1>4
<1>5. CASE Beside
  BY <1>0, <1>4, <1>5, BridgeCopies
<1>6. ASSUME NEW i \in Instances, ListenDirect(i) \/ BreakDirect(i) \/ HandleDirect(i)
      PROVE  Copies(c, n)' <= Copies(c, n)
  <2>1. CASE HandleDirect(i)
    BY <1>0, <2>1, HandleCopies
  <2>2. CASE ListenDirect(i) \/ BreakDirect(i)
    <3>1. got' = got /\ sends' = sends /\ \A j \in Instances : queue'[j] \in {queue[j], <<>>}
      BY <1>0, <2>2 DEF ListenDirect, BreakDirect, RoadInv, DTypeInv
    <3>2. /\ Cardinality(Spread(queue', c, n)) \in Nat
          /\ Cardinality(Spread(queue', c, n)) <= Cardinality(Spread(queue, c, n))
      BY <1>0, <3>1, CopiesType, QueueLoses
    <3> QED BY <1>0, <3>1, <3>2, CopiesType, CopiesSplit
  <2> QED BY <1>6, <2>1, <2>2
<1>7. ASSUME NEW i \in Instances, NEW t \in Topics, NEW rule \in Rules, Publish(i, t, rule)
      PROVE  Copies(c, n)' <= 1 \/ Copies(c, n)' <= Notices(c)'
  <2>1. CASE n = events + 1
    BY <1>1, <1>2, <1>7, <2>1, PublishBounds
  <2>2. CASE n # events + 1
    <3>1. Copies(c, n)' = Copies(c, n)
      BY <1>0, <1>7, <2>2, PublishCopies
    <3> QED BY <1>1, <1>4, <3>1
  <2> QED BY <2>1, <2>2
<1>8. ASSUME NEW s \in sends, SendViaBridge(s) \/ SendFails(s)
      PROVE  Copies(c, n)' <= Copies(c, n)
  BY <1>0, <1>8, SendCopies
<1>9. CASE UNCHANGED dvars
  <2>1. Copies(c, n)' = Copies(c, n)
    BY <1>9, CopiesSplit DEF dvars, deliveryVars
  <2> QED BY <1>1, <1>4, <2>1
<1> QED BY <1>4, <1>5, <1>6, <1>7, <1>8, <1>9 DEF DNext, BridgeStep, SendPanics

\* The inductive invariant of the deliveries
THEOREM DeliveryInvariant == DSpec => []DeliveryInv
<1>1. DeliveryInv /\ [DNext]_dvars => DeliveryInv'
  BY RoadKept, CopiesKept DEF DeliveryInv
<1> QED BY DeliveryInit, <1>1, PTL DEF DSpec

\* However events, requests and connections interleave, whatever breaks and dies: a client gets
\* an event once, or no more often than its subscriptions have been announced
THEOREM CopiesAreBounded == DSpec => []NoMoreCopiesThanNotices
<1>1. DeliveryInv => NoMoreCopiesThanNotices
  BY DEF DeliveryInv
<1> QED BY DeliveryInvariant, <1>1, PTL

-----------------------------------------------------------------------------
(***************************************************************************)
(* No copy is lost on its way.                                             *)
(***************************************************************************)

\* Before anything fails, a client that is connected has a process that serves, and a process
\* that serves listens to its direct channel
HostInv == \A c \in Clients : conn[c] = "open" => phase[home[c]] = "serving"
DirectInv == faults = {} => \A i \in Instances : phase[i] = "serving" => direct[i]

\* A client is connected to a process that serves
LEMMA HostKept ==
    ASSUME BridgeInv, HostInv, [Step]_vars
    PROVE  HostInv'
<1>0. TypeOK /\ HomeInv /\ \A c \in Clients : conn[c] = "open" => home[c] \in Instances
  BY DEF BridgeInv, TypeInv, HomeInv
<1>1. ASSUME NEW i \in Instances, Life(i) PROVE HostInv'
  <2>1. CASE Stop(i)
    BY <1>0, <2>1 DEF Stop, HostInv, TypeOK
  <2>2. CASE UNCHANGED <<conn, home>> /\ \A j \in Instances : phase[j] = "serving" => phase'[j] = "serving"
    BY <1>0, <2>2 DEF HostInv
  <2>3. ~Stop(i) => UNCHANGED <<conn, home>> /\ \A j \in Instances : phase[j] = "serving" => phase'[j] = "serving"
    BY <1>0, <1>1 DEF Life, Process, Start, Listen, Serve, BreakListener, RenewLease, DeleteStale,
       NotifyOffline, NotifyOfflineFails, ExpireLease, HandleShared, TypeOK
  <2> QED BY <2>1, <2>2, <2>3
<1>2. ASSUME NEW c \in Clients, Connection(c) PROVE HostInv'
  <2>1. ASSUME NEW i \in Instances, Connect(c, i) PROVE HostInv'
    BY <1>0, <2>1 DEF Connect, HostInv, TypeOK
  <2>2. CASE UNCHANGED <<phase, home>> /\ \A d \in Clients : conn'[d] = "open" => conn[d] = "open"
    BY <2>2 DEF HostInv
  <2>3. DeleteRow(c) \/ NotifyDelete(c) \/ GoOfflineFails(c) \/ Disconnected(c)
          => UNCHANGED <<phase, home>> /\ \A d \in Clients : conn'[d] = "open" => conn[d] = "open"
    BY <1>0 DEF DeleteRow, NotifyDelete, GoOfflineFails, Disconnected, TypeOK
  <2> QED BY <1>2, <2>1, <2>2, <2>3 DEF Connection
<1>3. ASSUME NEW r \in Requests, Request(r) PROVE HostInv'
  BY <1>3 DEF Request, Subscribe, Snapshot, AssignRecord, UpsertRow, Marshal, NotifyUpsert, BroadcastFails, HostInv
<1>4. CASE UNCHANGED vars
  BY <1>4 DEF vars, HostInv
<1> QED BY <1>1, <1>2, <1>3, <1>4 DEF Step

\* A process that goes on to serve, or serves, did not skip a phase
LEMMA ServedBefore ==
    ASSUME TypeOK, [Step]_vars, NEW i \in Instances, phase'[i] = "serving"
    PROVE  phase[i] \in {"starting", "serving"}
<1>1. ASSUME NEW j \in Instances, Life(j) PROVE phase[i] \in {"starting", "serving"}
  BY <1>1 DEF Life, Process, Start, Listen, Serve, BreakListener, Stop, RenewLease, DeleteStale,
     NotifyOffline, NotifyOfflineFails, ExpireLease, HandleShared, TypeOK
<1>2. CASE phase' = phase
  BY <1>2
<1>3. ASSUME NEW c \in Clients, Connection(c) PROVE phase' = phase
  BY <1>3 DEF Connection, Connect, DeleteRow, NotifyDelete, GoOfflineFails, Disconnected
<1>4. ASSUME NEW r \in Requests, Request(r) PROVE phase' = phase
  BY <1>4 DEF Request, Subscribe, Snapshot, AssignRecord, UpsertRow, Marshal, NotifyUpsert, BroadcastFails
<1> QED BY <1>1, <1>2, <1>3, <1>4 DEF Step, vars

\* The hook waits for directReady, and only a fault ends a direct channel
LEMMA ServiceKept ==
    ASSUME RoadInv, HostInv, DirectInv, [DNext]_dvars
    PROVE  HostInv' /\ DirectInv'
<1>0. BridgeInv /\ TypeOK /\ direct \in [Instances -> BOOLEAN]
  BY DEF RoadInv, BridgeInv, TypeInv, DTypeInv
<1>1. HostInv'
  <2>1. CASE Watched
    BY <1>0, <2>1, HostKept DEF Watched
  <2>2. CASE FaultOnly
    BY <2>2 DEF FaultOnly, HostInv
  <2> QED BY <1>0, <2>1, <2>2, BridgeBelow
<1>2. faults' = {} => faults = {}
  <2>1. CASE Watched
    BY <2>1, FaultsStay DEF Watched
  <2>2. CASE FaultOnly
    BY <2>2 DEF FaultOnly
  <2> QED BY <1>0, <2>1, <2>2, BridgeBelow
<1>3. DirectInv'
  <2> SUFFICES ASSUME faults' = {}, NEW i \in Instances, phase'[i] = "serving" PROVE direct'[i]
    BY DEF DirectInv
  <2>0. faults = {}
    BY <1>2
  <2>1. CASE BridgeStep
    <3>1. [Step]_vars
      BY <2>1, HistoryBelow DEF BridgeStep
    <3>2. phase[i] \in {"starting", "serving"}
      BY <1>0, <3>1, ServedBefore
    <3>3. direct[i]
      BY <2>0, <2>1, <3>2 DEF BridgeStep, MayServe, DirectInv
    <3>4. direct'[i] = (direct[i] /\ phase'[i] # "dead")
      BY <2>1 DEF BridgeStep, Beside
    <3> QED BY <3>3, <3>4
  <2>2. CASE phase' = phase /\ direct' = direct
    BY <2>0, <2>2 DEF DirectInv
  <2>3. ASSUME NEW j \in Instances, ListenDirect(j) PROVE direct'[i]
    BY <1>0, <2>0, <2>3 DEF ListenDirect, DirectInv, rvars, vars
  <2>4. ASSUME NEW j \in Instances, BreakDirect(j) PROVE FALSE
    BY <2>4 DEF BreakDirect, Fault
  <2>5. ASSUME NEW j \in Instances, HandleDirect(j) PROVE phase' = phase /\ direct' = direct
    BY <2>5 DEF HandleDirect, rvars, vars
  <2>6. ASSUME NEW j \in Instances, NEW t \in Topics, NEW rule \in Rules, Publish(j, t, rule)
        PROVE  phase' = phase /\ direct' = direct
    BY <2>6 DEF Publish, rvars, vars
  <2>7. ASSUME NEW s \in sends, SendViaBridge(s) \/ SendFails(s) PROVE phase' = phase /\ direct' = direct
    BY <2>7 DEF SendViaBridge, SendFails, rvars, vars
  <2>8. CASE UNCHANGED dvars
    BY <2>2, <2>8 DEF dvars, deliveryVars, rvars, vars
  <2>9. ASSUME NEW j \in Instances, SendPanics(j) PROVE direct'[i]
    <3>1. phase' = [phase EXCEPT ![j] = "dead"] /\ direct'[i] = (direct[i] /\ phase'[i] # "dead")
      BY <2>9 DEF SendPanics, Stop, Beside
    <3>2. phase[i] = "serving"
      BY <1>0, <3>1 DEF TypeOK
    <3> QED BY <2>0, <3>1, <3>2 DEF DirectInv
  <2> QED BY <2>1, <2>2, <2>3, <2>4, <2>5, <2>6, <2>7, <2>8, <2>9 DEF DNext
<1> QED BY <1>1, <1>3

\* As long as nothing fails and no process ends, no copy is lost on the way to a client that
\* stays: whoever can be sent to listens, and the channel a remote client names is where the
\* client is found
THEOREM CopiesArrive == DSpec => NoCopyIsLost
<1> DEFINE Inv == DeliveryInv /\ HostInv /\ DirectInv
           Kept == \A c \in Clients, n \in 1..MaxEvents :
                     faults' = {} /\ conn'[c] = "open" /\ AllRun(phase') => Copies(c, n)' >= Copies(c, n)
<1>1. DInit => Inv
  <2>1. DInit => HostInv /\ DirectInv
    BY DEF DInit, RInit, Init, HostInv, DirectInv
  <2> QED BY <2>1, DeliveryInit
<1>2. Inv /\ [DNext]_dvars => Inv'
  BY RoadKept, CopiesKept, ServiceKept DEF DeliveryInv
<1>3. Inv /\ [DNext]_dvars => [Kept]_dvars
  <2> SUFFICES ASSUME Inv, DNext, NEW c \in Clients, NEW n \in 1..MaxEvents,
                      faults' = {}, conn'[c] = "open", AllRun(phase')
               PROVE  Copies(c, n)' >= Copies(c, n)
    OBVIOUS
  <2>0. RoadInv /\ HostInv /\ DirectInv
    BY DEF DeliveryInv
  <2> HIDE DEF Inv
  <2>1. Copies(c, n) \in Nat /\ TypeOK
    BY <2>0, CopiesCount DEF CopiesInv, RoadInv, BridgeInv, TypeInv
  <2>2. CASE Copies(c, n)' = Copies(c, n)
    BY <2>1, <2>2
  <2>3. CASE Beside
    BY <2>0, <2>2, <2>3, BridgeCopies
  <2>4. ASSUME NEW i \in Instances, ListenDirect(i) PROVE Copies(c, n)' = Copies(c, n)
    BY <2>4, CopiesSplit DEF ListenDirect
  <2>5. ASSUME NEW i \in Instances, BreakDirect(i) PROVE FALSE
    BY <2>5 DEF BreakDirect, Fault
  <2>6. ASSUME NEW i \in Instances, HandleDirect(i) PROVE Copies(c, n)' = Copies(c, n)
    <3>1. conn[c] = "open"
      BY <2>6 DEF HandleDirect, rvars, vars
    <3> QED BY <2>0, <2>6, <3>1, HandleCopies
  <2>7. ASSUME NEW i \in Instances, NEW t \in Topics, NEW rule \in Rules, Publish(i, t, rule) PROVE Copies(c, n)' >= Copies(c, n)
    <3>1. CASE n # events + 1
      BY <2>0, <2>2, <2>7, <3>1, PublishCopies
    <3>2. CASE n = events + 1
      <4> DEFINE C == {s \in Copied(i, t, rule) : s.client = c}
      <4>1. Cardinality(C) \in Nat
        BY <2>0, <2>7, CopiedCount
      <4>2. /\ Copies(c, n) = 0
            /\ Copies(c, n)' = Cardinality(C)
                 + (IF c \in local[i] /\ t \in subs[c] /\ MaySee(rule, AuthOf(c)) /\ conn[c] = "open"
                        THEN 1 ELSE 0)
        BY <2>0, <2>7, <3>2, PublishCopies
      <4> HIDE DEF C
      <4> QED BY <4>1, <4>2
    <3> QED BY <3>1, <3>2
  <2>8. ASSUME NEW s \in sends, SendViaBridge(s) PROVE Copies(c, n)' = Copies(c, n)
    <3>1. s.client = c => direct[s.to]
      <4>1. conn[c] = "open" /\ faults = {}
        BY <2>8 DEF SendViaBridge, rvars, vars
      <4>2. s \in Send /\ s.to \in Instances /\ s.to = home[s.client]
        BY <2>0 DEF RoadInv, RouteInv, DTypeInv, Send
      <4> QED BY <2>0, <4>1, <4>2 DEF HostInv, DirectInv
    <3> QED BY <2>0, <2>8, <3>1, SendCopies
  <2>9. ASSUME NEW s \in sends, SendFails(s) PROVE FALSE
    BY <2>9 DEF SendFails, Fault
  <2> QED BY <2>2, <2>3, <2>4, <2>5, <2>6, <2>7, <2>8, <2>9 DEF DNext, BridgeStep, SendPanics
<1>4. Inv /\ [DNext]_dvars => [\A c \in Clients, n \in 1..MaxEvents :
                     faults' = {} /\ conn'[c] = "open" /\ AllRun(phase') => Copies(c, n)' >= Copies(c, n)]_dvars
  BY <1>3
<1> HIDE DEF Inv, Kept
<1> QED BY <1>1, <1>2, <1>4, PTL DEF DSpec, NoCopyIsLost

-----------------------------------------------------------------------------
(***************************************************************************)
(* Every subscriber is sent an event.                                      *)
(***************************************************************************)

\* The requests' invariants and the order of the upserts hold under the deliveries
LEMMA CurrentStillKept ==
    ASSUME CurrentInv, BrokerInv, NewestInv, [DNext]_dvars
    PROVE  CurrentInv' /\ NewestInv'
<1>1. TypeOK /\ BridgeInv /\ WatchInv
  BY DEF CurrentInv, BridgeInv, TypeInv
<1>2. CASE Watched
  BY <1>1, <1>2, CurrentKept, NewestStep DEF Watched
<1>3. CASE FaultOnly
  <2>1. BridgeInv'
    BY <1>1, BridgeStillKept
  <2>2. WatchInv' /\ OwnedInv' /\ FlightInv' /\ RowInv'
    BY <1>3 DEF FaultOnly, history, CurrentInv, WatchInv, Outdated, CutOff, OwnedInv, FlightInv, RowInv, Stored
  <2>3. NewestInv'
    BY <1>3 DEF FaultOnly, history, NewestInv, Carried, LastCarries, Upserts, InFlight, Settled
  <2> QED BY <2>1, <2>2, <2>3 DEF CurrentInv
<1> QED BY <1>1, <1>2, <1>3, BridgeBelow

\* As long as nothing fails and every process runs, no lease expires, and no process is
\* said to be offline
CalmInv ==
    faults = {} /\ AllRun(phase) =>
        \A i \in Instances :
            /\ lease[i] # "stale" /\ (phase[i] = "off" => lease[i] = "none")
            /\ offline[i] = {}
            /\ \A k \in 1..Len(inbox[i]) : inbox[i][k].type # "channel_offline"

\* As long as that is so, who was told of a client is its process, or has a notification
\* of it to handle, or a remote client for it
HeardInv ==
    faults = {} /\ AllRun(phase) =>
        \A i \in Instances, c \in Clients : <<i, c>> \in told =>
            home[c] = i \/ Upserts(inbox[i], c) # {} \/ Files(remotes[i], c) # {}

\* told grows by those that are sent an upsert
Told ==
    \A i \in Instances, c \in Clients : <<i, c>> \in told' =>
        \/ <<i, c>> \in told
        \/ listening[i] /\ \E r \in Requests : NotifyUpsert(r) /\ req[r].client = c

\* Nothing failed and every process ran before a step if so after it
LEMMA CalmBefore ==
    ASSUME TypeInv, [Step]_vars, faults' = {}, AllRun(phase')
    PROVE  faults = {} /\ AllRun(phase)
BY FaultsStay, DeadStay DEF AllRun

\* Leases expire by a fault or in a process that ended
LEMMA CalmStep ==
    ASSUME BridgeInv, BrokerInv, CalmInv, [Step]_vars
    PROVE  CalmInv'
<1> SUFFICES ASSUME faults' = {}, AllRun(phase'), NEW i \in Instances
             PROVE  /\ lease'[i] # "stale" /\ (phase'[i] = "off" => lease'[i] = "none")
                    /\ offline'[i] = {}
                    /\ \A k \in 1..Len(inbox'[i]) : inbox'[i][k].type # "channel_offline"
  BY DEF CalmInv
<1>0. TypeInv /\ TypeOK /\ faults = {} /\ AllRun(phase)
  BY CalmBefore DEF BridgeInv, TypeInv
<1>1. \A j \in Instances : /\ lease[j] # "stale" /\ (phase[j] = "off" => lease[j] = "none")
                          /\ offline[j] = {}
                          /\ \A k \in 1..Len(inbox[j]) : inbox[j][k].type # "channel_offline"
  BY <1>0 DEF CalmInv
<1> DEFINE Goal == /\ lease'[i] # "stale" /\ (phase'[i] = "off" => lease'[i] = "none")
                   /\ offline'[i] = {}
<1>2. ASSUME lease' = lease, offline' = offline, phase'[i] = "off" => phase[i] = "off" PROVE Goal
  BY <1>1, <1>2
<1>3. ASSUME NEW j \in Instances, Life(j) PROVE Goal
  <2>1. CASE Start(j) \/ Listen(j) \/ Serve(j) \/ BreakListener(j) \/ HandleShared(j)
    BY <1>0, <1>2, <2>1 DEF Start, Listen, Serve, BreakListener, HandleShared, TypeOK
  <2>2. CASE RenewLease(j)
    BY <1>0, <1>1, <2>2 DEF RenewLease, Alive, TypeOK
  <2>3. CASE ExpireLease(j)
    <3>1. Alive(j)
      BY <1>0, <1>1, <2>3 DEF ExpireLease, Alive, AllRun, TypeOK
    <3> QED BY <2>3, <3>1 DEF ExpireLease, Fault
  <2>4. CASE DeleteStale(j)
    <3>1. StaleRows = {} /\ \A ch \in Instances : lease'[ch] = lease[ch]
      BY <1>0, <1>1, <2>4 DEF DeleteStale, StaleRows, StaleChannels
    <3> QED BY <1>0, <1>1, <2>4, <3>1 DEF DeleteStale, TypeOK
  <2>5. CASE NotifyOffline(j) \/ NotifyOfflineFails(j)
    BY <1>1, <2>5 DEF NotifyOffline, NotifyOfflineFails
  <2>6. CASE Stop(j)
    BY <1>0, <2>6 DEF Stop, AllRun, TypeOK
  <2> QED BY <1>3, <2>1, <2>2, <2>3, <2>4, <2>5, <2>6 DEF Life, Process
<1>4. ASSUME NEW c \in Clients, Connection(c) PROVE Goal
  BY <1>2, <1>4 DEF Connection, Connect, DeleteRow, NotifyDelete, GoOfflineFails, Disconnected
<1>5. ASSUME NEW r \in Requests, Request(r) PROVE Goal
  BY <1>2, <1>5 DEF Request, Subscribe, Snapshot, AssignRecord, UpsertRow, Marshal, NotifyUpsert, BroadcastFails
<1>6. ASSUME UNCHANGED vars PROVE Goal
  BY <1>2, <1>6 DEF vars
<1>7. Goal
  BY <1>3, <1>4, <1>5, <1>6 DEF Step
<1>8. \A k \in 1..Len(inbox'[i]) : inbox'[i][k].type # "channel_offline"
  <2>0. inbox[i] \in Seq(Message)
    BY <1>0 DEF TypeOK
  <2>1. CASE inbox'[i] = inbox[i]
    BY <1>1, <2>1
  <2>2. ASSUME NEW m \in Message, inbox'[i] = Append(inbox[i], m), m.type # "channel_offline"
        PROVE  \A k \in 1..Len(inbox'[i]) : inbox'[i][k].type # "channel_offline"
    <3>1. \A k \in 1..Len(Append(inbox[i], m)) :
            Append(inbox[i], m)[k] = m \/ (k \in 1..Len(inbox[i]) /\ Append(inbox[i], m)[k] = inbox[i][k])
      BY <2>0
    <3> QED BY <1>1, <2>2, <3>1
  <2>3. CASE inbox'[i] = <<>>
    BY <2>3
  <2>4. CASE HandleShared(i)
    <3>1. inbox[i] # <<>> /\ inbox'[i] = Tail(inbox[i])
      BY <1>0, <2>4 DEF HandleShared, TypeOK
    <3>2. \A k \in 1..Len(Tail(inbox[i])) : k + 1 \in 1..Len(inbox[i]) /\ Tail(inbox[i])[k] = inbox[i][k + 1]
      BY <2>0, <3>1
    <3> QED BY <1>1, <3>1, <3>2
  <2>5. ASSUME NEW m \in Message, m.type = "channel_offline" => \E j \in Instances : offline[j] # {}
        PROVE  m.type # "channel_offline"
    BY <1>1, <2>5
  <2> QED BY <2>1, <2>2, <2>3, <2>4, <2>5, InboxEffect
<1> QED BY <1>7, <1>8

\* Whoever handles a notification of a client files a remote client, or is its process
LEMMA HeardStep ==
    ASSUME BridgeInv, BrokerInv, CalmInv, HeardInv, Told, [Step]_vars
    PROVE  HeardInv'
<1> SUFFICES ASSUME faults' = {}, AllRun(phase'), NEW i \in Instances, NEW c \in Clients, <<i, c>> \in told',
                    home'[c] # i
             PROVE  Upserts(inbox'[i], c) # {} \/ Files(remotes'[i], c) # {}
  BY DEF HeardInv
<1>0. /\ TypeInv /\ TypeOK /\ faults = {} /\ AllRun(phase) /\ HomeStable
      /\ inbox[i] \in Seq(Message)
  BY CalmBefore, HomeIsStable DEF BridgeInv, TypeInv, TypeOK, HomeStable
<1>1. CASE <<i, c>> \notin told
  <2>1. PICK r \in Requests : NotifyUpsert(r) /\ req[r].client = c /\ listening[i]
    BY <1>1 DEF Told
  <2>2. PICK m : m = [type |-> "subscription_upsert", sender |-> home[c], rec |-> ClientRecord(c, req[r].subs)]
    OBVIOUS
  <2>3. inbox'[i] = Append(inbox[i], m)
    BY <2>1, <2>2 DEF NotifyUpsert, NotifyShared
  <2>4. m \in Message
    <3>1. home[c] \in Instances /\ req[r].subs \in SUBSET Topics
      BY <1>0, <2>1 DEF NotifyUpsert, TypeInv, ReqInv, TypeOK
    <3> QED BY <2>2, <3>1, ClientRecordType DEF Message
  <2>5. m.type = "subscription_upsert" /\ m.rec.client = c /\ m.rec.subs = req[r].subs
    BY <2>2 DEF ClientRecord
  <2>6. Upserts(Append(inbox[i], m), c) # {}
    BY <1>0, <2>4, <2>5, AppendUpserts
  <2> QED BY <2>3, <2>6
<1>2. CASE <<i, c>> \in told
  <2>1. Upserts(inbox[i], c) # {} \/ Files(remotes[i], c) # {}
    BY <1>0, <1>2 DEF HeardInv, HomeStable
  <2>2. CASE UNCHANGED <<inbox[i], remotes[i]>>
    BY <2>1, <2>2
  <2>3. ASSUME NEW m \in Message, inbox'[i] = Append(inbox[i], m), remotes'[i] = remotes[i]
        PROVE  Upserts(inbox'[i], c) # {} \/ Files(remotes'[i], c) # {}
    <3>1. Upserts(inbox[i], c) \subseteq Upserts(Append(inbox[i], m), c)
      <4>1. \A k \in 1..Len(inbox[i]) : k \in 1..Len(Append(inbox[i], m)) /\ Append(inbox[i], m)[k] = inbox[i][k]
        BY <1>0
      <4> QED BY <4>1 DEF Upserts
    <3> QED BY <2>1, <2>3, <3>1
  <2>4. phase'[i] # "dead" /\ ~("break" \in faults')
    BY DEF AllRun
  <2>5. CASE HandleShared(i)
    <3> DEFINE m == Head(inbox[i])
    <3>1. inbox[i] # <<>> /\ inbox'[i] = Tail(inbox[i]) /\ SentFromHome(home, m) /\ home' = home
          /\ made[i] \in Nat
      BY <1>0, <2>5, HandleEffect DEF TypeOK
    <3>2. m.type # "channel_offline"
      <4>1. 1 \in 1..Len(inbox[i]) /\ m = inbox[i][1]
        BY <1>0, <3>1
      <4> QED BY <1>0, <4>1 DEF CalmInv
    <3>3. \/ remotes'[i] = remotes[i] /\ (m.type = "subscription_upsert" => m.sender = i)
          \/ remotes'[i] = remotes[i] \cup {NewRemote(made[i], m.rec)}
      BY <2>5, <3>2, HandleEffect
    <3> HIDE DEF m
    <3>4. CASE Files(remotes[i], c) # {}
      BY <3>3, <3>4 DEF Files
    <3>5. CASE m.type = "subscription_upsert" /\ m.rec.client = c
      <4>1. m.sender # i
        BY <3>1, <3>5 DEF SentFromHome
      <4>2. NewRemote(made[i], m.rec) \in remotes'[i] /\ NewRemote(made[i], m.rec).client = c
        BY <3>3, <3>5, <4>1 DEF NewRemote
      <4> QED BY <4>2 DEF Files
    <3>6. CASE Upserts(inbox[i], c) # {} /\ ~(m.type = "subscription_upsert" /\ m.rec.client = c)
      <4>1. PICK k \in Upserts(inbox[i], c) : TRUE
        BY <3>6
      <4>2. k \in 1..Len(inbox[i]) /\ inbox[i][k].type = "subscription_upsert" /\ inbox[i][k].rec.client = c
        BY <4>1 DEF Upserts
      <4>3. m = inbox[i][1] /\ k # 1
        BY <1>0, <3>1, <3>6, <4>2 DEF m
      <4>4. PICK j : j = k - 1
        OBVIOUS
      <4>5. j \in 1..Len(Tail(inbox[i])) /\ Tail(inbox[i])[j] = inbox[i][k]
        BY <1>0, <3>1, <4>2, <4>3, <4>4
      <4>6. j \in Upserts(inbox'[i], c)
        BY <3>1, <4>2, <4>5 DEF Upserts
      <4> QED BY <4>6
    <3> QED BY <2>1, <3>4, <3>5, <3>6
  <2> QED BY <2>2, <2>3, <2>4, <2>5, InboxEffect
<1> QED BY <1>1, <1>2

\* What was filed last for a client is subscribed to what the client is
LEMMA NewestSubscribes ==
    ASSUME NewestInv, LastFiled, NEW i \in Instances, NEW c \in Clients, inbox[i] = <<>>,
           faults = {}, conn[c] = "open", Settled(c), c \notin outdated, Files(remotes[i], c) # {}
    PROVE  \E e \in Files(remotes[i], c) : e.subs = subs[c]
<1>1. PICK e \in Files(remotes[i], c) : \A f \in Files(remotes[i], c) : f.id <= e.id
  BY DEF LastFiled
<1>2. Carried(i, c)
  BY DEF NewestInv
<1>3. Upserts(inbox[i], c) = {}
  BY DEF Upserts
<1>4. e.subs = subs[c]
  BY <1>1, <1>2, <1>3 DEF Carried, Files
<1> QED BY <1>1, <1>4

\* told grows as said under the deliveries
LEMMA ToldGrows ==
    ASSUME [DNext]_dvars
    PROVE  Told
<1>1. CASE Beside
  BY <1>1 DEF Beside, Told
<1>2. CASE told' = told
  BY <1>2 DEF Told
<1> QED BY <1>1, <1>2 DEF DNext, BridgeStep, SendPanics, ListenDirect, BreakDirect, HandleDirect, Publish,
       SendViaBridge, SendFails, dvars, deliveryVars

\* Both hold under the deliveries
LEMMA HeardKept ==
    ASSUME BridgeInv, BrokerInv, CalmInv, HeardInv, [DNext]_dvars
    PROVE  CalmInv' /\ HeardInv'
<1>1. TypeOK /\ Told
  BY ToldGrows DEF BridgeInv, TypeInv
<1>2. CASE Watched
  BY <1>1, <1>2, CalmStep, HeardStep DEF Watched
<1>3. CASE FaultOnly
  <2>1. faults' = {} => faults = {}
    BY <1>3 DEF FaultOnly
  <2>2. CalmInv'
    BY <1>3, <2>1 DEF FaultOnly, CalmInv, AllRun
  <2>3. ASSUME NEW r \in Requests, NotifyUpsert(r) PROVE FALSE
    <3>1. req[r].pc = "marshalled" /\ req'[r].pc = "done"
      BY <1>1, <2>3 DEF NotifyUpsert, TypeOK
    <3> QED BY <1>3, <3>1 DEF FaultOnly
  <2>4. HeardInv'
    BY <1>1, <1>3, <2>1, <2>3 DEF FaultOnly, HeardInv, Told, AllRun, Upserts, Files
  <2> QED BY <2>2, <2>4
<1> QED BY <1>1, <1>2, <1>3, BridgeBelow

\* Whatever requests overlap, an event on a topic is sent to every connected client that
\* subscribes to it, wherever the client is, if the process that publishes it was once told
\* of the client, has handled what it was told, and the rule admits the client there
THEOREM SubscribersGetEvents == DSpec => SubscribersAreReached
<1> DEFINE Inv == DeliveryInv /\ CurrentInv /\ NewestInv /\ CalmInv /\ HeardInv
           Reached(i, t, rule, c, n) ==
             (/\ n = events + 1 /\ faults = {} /\ inbox[i] = <<>> /\ AllRun(phase)
              /\ conn[c] = "open" /\ Settled(c) /\ c \notin outdated
              /\ t \in subs[c] /\ Serves(i, c, rule))
             => Copies(c, n)' >= 1
<1>1. DInit => Inv
  <2>1. DInit => NewestInv
    BY DEF DInit, RInit, Init, NewestInv, Carried, LastCarries, Upserts
  <2>2. DInit => CurrentInv
    BY CurrentInit DEF DInit
  <2>3. DInit => CalmInv /\ HeardInv
    BY DEF DInit, RInit, Init, CalmInv, HeardInv
  <2> QED BY <2>1, <2>2, <2>3, DeliveryInit
<1>2. Inv /\ [DNext]_dvars => Inv'
  BY RoadKept, CopiesKept, CurrentStillKept, HeardKept DEF DeliveryInv, RoadInv
<1>3. Inv /\ [DNext]_dvars =>
        [\A i \in Instances, t \in Topics, rule \in Rules : Publish(i, t, rule) =>
           \A c \in Clients, n \in 1..MaxEvents : Reached(i, t, rule, c, n)]_dvars
  <2> SUFFICES ASSUME Inv, NEW i \in Instances, NEW t \in Topics, NEW rule \in Rules, Publish(i, t, rule),
                      NEW c \in Clients, NEW n \in 1..MaxEvents, n = events + 1, faults = {},
                      inbox[i] = <<>>, AllRun(phase), conn[c] = "open", Settled(c), c \notin outdated,
                      t \in subs[c], Serves(i, c, rule)
               PROVE  Copies(c, n)' >= 1
    OBVIOUS
  <2> DEFINE C == {s \in Copied(i, t, rule) : s.client = c}
  <2>0. RoadInv /\ LastFiled /\ NewestInv /\ HeardInv
    BY DEF DeliveryInv
  <2> HIDE DEF Inv
  <2>1. Copies(c, n)' = Cardinality(C)
          + (IF c \in local[i] /\ t \in subs[c] /\ MaySee(rule, AuthOf(c)) /\ conn[c] = "open"
                        THEN 1 ELSE 0)
    BY <2>0, PublishCopies
  <2>2. IsFiniteSet(C) /\ Cardinality(C) \in Nat
    BY <2>0, CopiedCount
  <2>3. CASE home[c] = i /\ MaySee(rule, AuthOf(c))
    <3>1. c \in local[i]
      BY <2>0, <2>3 DEF RoadInv, BridgeInv, OwnClientsStay
    <3> HIDE DEF C
    <3> QED BY <2>1, <2>2, <2>3, <3>1
  <2>4. CASE Files(remotes[i], c) # {} /\ rule = "public"
    <3>1. \E e \in Files(remotes[i], c) : t \in e.subs /\ MaySee(rule, e.auth)
      BY <2>0, <2>4, NewestSubscribes DEF MaySee
    <3>2. C # {}
      BY <2>0, <3>1, CopiedCount
    <3> HIDE DEF C
    <3>3. Cardinality(C) # 0
      BY <2>2, <3>2, FS_EmptySet
    <3> QED BY <2>1, <2>2, <3>3
  <2>5. CASE <<i, c>> \in told /\ rule = "public"
    <3>1. Upserts(inbox[i], c) = {} /\ MaySee(rule, AuthOf(c))
      BY <2>5 DEF Upserts, MaySee
    <3>2. home[c] = i \/ Files(remotes[i], c) # {}
      BY <2>0, <2>5, <3>1 DEF HeardInv
    <3> QED BY <2>3, <2>4, <2>5, <3>1, <3>2
  <2> QED BY <2>3, <2>5 DEF Serves
<1>4. Inv /\ [DNext]_dvars =>
        [\A i \in Instances, t \in Topics, rule \in Rules : Publish(i, t, rule) =>
           \A c \in Clients, n \in 1..MaxEvents :
             (/\ n = events + 1 /\ faults = {} /\ inbox[i] = <<>> /\ AllRun(phase)
              /\ conn[c] = "open" /\ Settled(c) /\ c \notin outdated
              /\ t \in subs[c] /\ Serves(i, c, rule))
             => Copies(c, n)' >= 1]_dvars
  BY <1>3
<1> HIDE DEF Inv, Reached
<1> QED BY <1>1, <1>2, <1>4, PTL DEF DSpec, SubscribersAreReached

================================================================================
