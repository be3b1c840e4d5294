----------------------- MODULE CacheInvalidation_proofs -----------------------
(***************************************************************************)
(* TLAPS proofs about the cache invalidation, for any number of processes, *)
(* writes and reloads.                                                     *)
(***************************************************************************)
EXTENDS CacheInvalidation, TLAPS

USE DEF listenVars, reloadVars, gapVars

\* the channel of the trigger
CI == "cache_invalidate"

\* The two channels are different, and their goroutines are not the request's
LEMMA ChannelNames ==
    /\ CI \in Channels /\ "pb_bridge_shared" \in Channels /\ CI # "pb_bridge_shared"
    /\ CI \in Goroutines /\ "request" \in Goroutines /\ CI # "request"
    /\ Channels \subseteq Goroutines
BY DEF CI, Channels, Goroutines

\* What NOTIFY does to the inbox of one channel of one process
LEMMA NotifyEffect ==
    ASSUME TypeOK, NEW ch \in Channels, NEW sender, Notify(ch, sender),
           NEW i \in Instances, NEW d \in Channels
    PROVE  inbox'[i][d] = IF listening[i][ch] /\ d = ch THEN Append(inbox[i][ch], sender)
                          ELSE inbox[i][d]
<1>1. inbox[i] \in [Channels -> Seq(Instances \cup {Trigger})]
  BY DEF TypeOK
<1>2. inbox'[i] = IF listening[i][ch]
                  THEN [inbox[i] EXCEPT ![ch] = Append(inbox[i][ch], sender)] ELSE inbox[i]
  BY DEF Notify
<1> QED BY <1>1, <1>2

\* Of the two channels, only a NOTIFY on cache_invalidate adds to its inbox
LEMMA CacheInbox ==
    ASSUME TypeOK, NEW sender, NEW i \in Instances
    PROVE  /\ Notify(CI, sender) =>
                inbox'[i][CI] = IF listening[i][CI] THEN Append(inbox[i][CI], sender)
                                ELSE inbox[i][CI]
           /\ Notify("pb_bridge_shared", sender) => inbox'[i][CI] = inbox[i][CI]
<1>1. ASSUME Notify(CI, sender)
      PROVE  inbox'[i][CI] = IF listening[i][CI] THEN Append(inbox[i][CI], sender)
                             ELSE inbox[i][CI]
  BY <1>1, ChannelNames, NotifyEffect
<1>2. ASSUME Notify("pb_bridge_shared", sender) PROVE inbox'[i][CI] = inbox[i][CI]
  BY <1>2, ChannelNames, NotifyEffect
<1> QED BY <1>1, <1>2

-----------------------------------------------------------------------------
\* Every step keeps the types
LEMMA TypeStep ==
    ASSUME TypeOK, [Next]_vars
    PROVE  TypeOK'
<1> USE DEF TypeOK
<1> DEFINE Inbox == [Instances -> [Channels -> Seq(Instances \cup {Trigger})]]
<1>1. ASSUME NEW ch \in Channels, NEW sender \in Instances \cup {Trigger}, Notify(ch, sender)
      PROVE  inbox' \in Inbox
  <2> SUFFICES ASSUME NEW i \in Instances
               PROVE  inbox'[i] \in [Channels -> Seq(Instances \cup {Trigger})]
    BY <1>1 DEF Notify
  <2>1. inbox[i] \in [Channels -> Seq(Instances \cup {Trigger})]
    OBVIOUS
  <2> QED BY <1>1, <2>1 DEF Notify
<1>2. ASSUME NEW by, Commit(by)
      PROVE  /\ db' \in Nat /\ inbox' \in Inbox /\ missed' \in [Instances -> BOOLEAN]
             /\ UNCHANGED <<trigger, phase, listening, copy, cache, seen, overlap, untended, faults>>
  BY <1>1, <1>2, ChannelNames DEF Commit, Announce, CI
<1>3. CASE WriteSql
  BY <1>2, <1>3 DEF WriteSql
<1>4. ASSUME NEW i \in Instances, Process(i) PROVE TypeOK'
  <2>1. CASE Bootstrap(i) \/ DropTrigger(i) \/ CreateTrigger(i) \/ TriggersFail(i) \/ Serve(i)
    <3>1. phase' \in [Instances -> {"off", "serving", "dead"} \cup Starting]
      BY <2>1 DEF Bootstrap, DropTrigger, CreateTrigger, TriggersFail, Serve, Starting
    <3> QED BY <2>1, <3>1 DEF Bootstrap, DropTrigger, CreateTrigger, TriggersFail, Serve
  <2>2. CASE Stop(i)
    <3>1. untended' \in BOOLEAN
      BY <2>2 DEF Stop
    <3> QED BY <2>2, <3>1 DEF Stop
  <2>3. CASE WriteApi(i)
    BY <1>2, <2>3 DEF WriteApi
  <2>4. CASE Broadcast(i)
    <3>1. inbox' \in Inbox
      BY <1>1, <2>4, ChannelNames DEF Broadcast
    <3> QED BY <2>4, <3>1 DEF Broadcast
  <2>5. ASSUME NEW ch \in Channels, Listen(i, ch) PROVE TypeOK'
    BY <2>5 DEF Listen
  <2>6. ASSUME NEW ch \in Channels, BreakListener(i, ch) PROVE TypeOK'
    <3>1. faults' \in Nat
      BY <2>6 DEF BreakListener, Fault
    <3> QED BY <2>6, <3>1 DEF BreakListener
  <2>7. ASSUME NEW ch \in Channels, TakeNotification(i, ch) PROVE TypeOK'
    <3>1. inbox' \in Inbox
      BY <2>7 DEF TakeNotification
    <3> QED BY <2>7, <3>1 DEF TakeNotification
  <2>8. ASSUME NEW g \in Goroutines, Query(i, g) PROVE TypeOK'
    <3>1. overlap' \in [Instances -> BOOLEAN]
      BY <2>8 DEF Query
    <3> QED BY <2>8, <3>1 DEF Query
  <2>9. ASSUME NEW g \in Goroutines, Store(i, g) PROVE TypeOK'
    BY <2>9 DEF Store, Over
  <2>10. ASSUME NEW g \in Goroutines, ReloadFails(i, g) PROVE TypeOK'
    <3>1. faults' \in Nat
      BY <2>10 DEF ReloadFails, Fault
    <3> QED BY <2>10, <3>1 DEF ReloadFails, Over
  <2> QED BY <1>4, <2>1, <2>2, <2>3, <2>4, <2>5, <2>6, <2>7, <2>8, <2>9, <2>10 DEF Process
<1>5. CASE UNCHANGED vars
  BY <1>5 DEF vars
<1> QED BY <1>3, <1>4, <1>5 DEF Next

\* The types hold when the processes start
LEMMA TypeInit == Init => TypeOK
<1>1. <<>> \in Seq(Instances \cup {Trigger})
  OBVIOUS
<1>2. Init => /\ inbox \in [Instances -> [Channels -> Seq(Instances \cup {Trigger})]]
              /\ listening \in [Instances -> [Channels -> BOOLEAN]]
              /\ step \in [Instances -> [Goroutines -> {"idle", "query", "store", "broadcast"}]]
              /\ copy \in [Instances -> [Goroutines -> Nat]]
  BY <1>1 DEF Init
<1>3. Init => /\ cache \in [Instances -> Nat] /\ seen \in [Instances -> Nat]
              /\ phase \in [Instances -> {"off", "serving", "dead"} \cup Starting]
              /\ db \in Nat /\ faults \in Nat
  BY DEF Init
<1>4. Init => /\ trigger \in BOOLEAN /\ untended \in BOOLEAN
              /\ overlap \in [Instances -> BOOLEAN] /\ missed \in [Instances -> BOOLEAN]
  BY DEF Init
<1> QED BY <1>2, <1>3, <1>4 DEF TypeOK

\* Every variable keeps its type
THEOREM TypeCorrect == Spec => []TypeOK
BY TypeInit, TypeStep, PTL DEF Spec

-----------------------------------------------------------------------------
\* The trigger is missing in the gap only
TriggerInv == trigger \/ Gap

\* Only the trigger notifies cache_invalidate
SenderInv == \A i \in Instances : \A k \in 1..Len(inbox[i][CI]) : inbox[i][CI][k] = Trigger

\* The processes that run
Alive(i) == phase[i] \in Starting \cup {"serving"}

\* What a process has not queried was not announced to it, or it is about to query
News(i) ==
    Alive(i) =>
        \/ seen[i] = db \/ missed[i]
        \/ inbox[i][CI] # <<>> \/ step[i][CI] = "query" \/ step[i]["request"] = "query"

\* That is so until something fails
NewsInv == faults = 0 => \A i \in Instances : News(i)

DeliveryInv == TypeOK /\ TriggerInv /\ SenderInv /\ NewsInv

\* A notification on the way names the process that sent it
LEMMA SenderStep ==
    ASSUME TypeOK, SenderInv, [Next]_vars
    PROVE  SenderInv'
<1> USE DEF TypeOK
<1>1. ASSUME NEW i \in Instances,
             inbox'[i][CI] \in {inbox[i][CI], <<>>, Append(inbox[i][CI], Trigger)}
               \/ (inbox[i][CI] # <<>> /\ inbox'[i][CI] = Tail(inbox[i][CI]))
      PROVE  \A k \in 1..Len(inbox'[i][CI]) : inbox'[i][CI][k] = Trigger
  <2>1. inbox[i][CI] \in Seq(Instances \cup {Trigger})
    BY ChannelNames
  <2>2. \A k \in 1..Len(inbox[i][CI]) : inbox[i][CI][k] = Trigger
    BY DEF SenderInv
  <2>3. CASE inbox'[i][CI] \in {inbox[i][CI], <<>>}
    BY <2>2, <2>3
  <2>4. CASE inbox'[i][CI] = Append(inbox[i][CI], Trigger)
    BY <2>1, <2>2, <2>4
  <2>5. CASE inbox[i][CI] # <<>> /\ inbox'[i][CI] = Tail(inbox[i][CI])
    BY <2>1, <2>2, <2>5
  <2> QED BY <1>1, <2>3, <2>4, <2>5
<1>2. ASSUME NEW i \in Instances
      PROVE  inbox'[i][CI] \in {inbox[i][CI], <<>>, Append(inbox[i][CI], Trigger)}
               \/ (inbox[i][CI] # <<>> /\ inbox'[i][CI] = Tail(inbox[i][CI]))
  <2>1. ASSUME NEW by, Commit(by)
        PROVE  inbox'[i][CI] \in {inbox[i][CI], Append(inbox[i][CI], Trigger)}
    <3>1. UNCHANGED inbox \/ Notify(CI, Trigger)
      BY <2>1 DEF Commit, CI
    <3> QED BY <3>1, CacheInbox
  <2>2. ASSUME NEW j \in Instances, Broadcast(j) PROVE inbox'[i][CI] = inbox[i][CI]
    <3>1. UNCHANGED inbox \/ Notify("pb_bridge_shared", j)
      BY <2>2 DEF Broadcast
    <3> QED BY <3>1, CacheInbox
  <2>3. ASSUME NEW j \in Instances, NEW ch \in Channels, BreakListener(j, ch)
        PROVE inbox'[i][CI] \in {inbox[i][CI], <<>>}
    BY <2>3, ChannelNames DEF BreakListener
  <2>4. ASSUME NEW j \in Instances, NEW ch \in Channels, TakeNotification(j, ch)
        PROVE inbox'[i][CI] = inbox[i][CI]
                \/ (inbox[i][CI] # <<>> /\ inbox'[i][CI] = Tail(inbox[i][CI]))
    BY <2>4, ChannelNames DEF TakeNotification
  <2>5. ASSUME NEW j \in Instances, Stop(j) PROVE inbox'[i][CI] \in {inbox[i][CI], <<>>}
    BY <2>5, ChannelNames DEF Stop
  <2>6. CASE UNCHANGED inbox
    BY <2>6
  <2>7. ASSUME NEW j \in Instances, Process(j)
        PROVE  \/ UNCHANGED inbox \/ Commit(j) \/ Broadcast(j) \/ Stop(j)
               \/ \E ch \in Channels : BreakListener(j, ch) \/ TakeNotification(j, ch)
    BY <2>7 DEF Process, Bootstrap, DropTrigger, CreateTrigger, TriggersFail, Serve, WriteApi,
       Listen, Query, Store, ReloadFails
  <2>8. CASE UNCHANGED vars
    BY <2>8 DEF vars
  <2> QED BY <2>1, <2>2, <2>3, <2>4, <2>5, <2>6, <2>7, <2>8 DEF Next, WriteSql
<1> QED BY <1>1, <1>2 DEF SenderInv

\* Whoever leaves the trigger missing leaves the gap open
LEMMA TriggerStep ==
    ASSUME TypeOK, TriggerInv, [Next]_vars
    PROVE  TriggerInv'
<1> USE DEF TypeOK, Starting, Gap
<1>1. CASE UNCHANGED <<phase, trigger, untended>>
  BY <1>1 DEF TriggerInv
<1>2. ASSUME NEW i \in Instances, Bootstrap(i) PROVE TriggerInv'
  BY <1>2 DEF TriggerInv, Bootstrap
<1>3. ASSUME NEW i \in Instances, DropTrigger(i) PROVE TriggerInv'
  BY <1>3 DEF TriggerInv, DropTrigger
<1>4. ASSUME NEW i \in Instances, CreateTrigger(i) \/ TriggersFail(i) PROVE TriggerInv'
  BY <1>4 DEF TriggerInv, CreateTrigger, TriggersFail
<1>5. ASSUME NEW i \in Instances, Serve(i) PROVE TriggerInv'
  BY <1>5 DEF TriggerInv, Serve
<1>6. ASSUME NEW i \in Instances, Stop(i) PROVE TriggerInv'
  BY <1>6 DEF TriggerInv, Stop
<1>7. ASSUME NEW i \in Instances, Process(i)
      PROVE  \/ UNCHANGED <<phase, trigger, untended>>
             \/ Bootstrap(i) \/ DropTrigger(i) \/ CreateTrigger(i) \/ TriggersFail(i)
             \/ Serve(i) \/ Stop(i)
  BY <1>7 DEF Process, WriteApi, Commit, Broadcast, Listen, BreakListener, TakeNotification,
     Query, Store, ReloadFails
<1> QED BY <1>1, <1>2, <1>3, <1>4, <1>5, <1>6, <1>7 DEF Next, WriteSql, Commit, vars

\* What has failed stays failed
LEMMA FaultsStay ==
    ASSUME TypeOK, [Next]_vars, faults' = 0
    PROVE  /\ faults = 0
           /\ \A i \in Instances, ch \in Channels : ~BreakListener(i, ch)
           /\ \A i \in Instances, g \in Goroutines : ~ReloadFails(i, g)
<1>1. faults \in Nat
  BY DEF TypeOK
<1>2. ASSUME NEW kind, Fault(kind) PROVE FALSE
  BY <1>1, <1>2 DEF Fault
<1>3. \A i \in Instances, ch \in Channels : ~BreakListener(i, ch)
  BY <1>2 DEF BreakListener
<1>4. \A i \in Instances, g \in Goroutines : ~ReloadFails(i, g)
  BY <1>2 DEF ReloadFails
<1>5. CASE UNCHANGED faults
  BY <1>3, <1>4, <1>5
<1>6. ASSUME NEW i \in Instances, Process(i) PROVE UNCHANGED faults
  BY <1>3, <1>4, <1>6 DEF Process, Bootstrap, DropTrigger, CreateTrigger, TriggersFail, Serve, Stop,
     WriteApi, Commit, Broadcast, Listen, TakeNotification, Query, Store
<1>7. WriteSql \/ UNCHANGED vars => UNCHANGED faults
  BY DEF WriteSql, Commit, vars
<1> QED BY <1>5, <1>6, <1>7 DEF Next

\* A commit reaches the inbox of every process that runs, unless it counts as missed
LEMMA CommitReaches ==
    ASSUME DeliveryInv, NEW by, Commit(by), NEW j \in Instances, j # by, Alive(j), ~missed'[j]
    PROVE  inbox'[j][CI] # <<>>
<1>1. TypeOK /\ TriggerInv
  BY DEF DeliveryInv
<1>2. listening[j][CI] /\ trigger
  BY <1>1 DEF Commit, Announce, TriggerInv, Alive, Starting, CI
<1>3. Notify(CI, Trigger)
  BY <1>2 DEF Commit, CI
<1>4. inbox'[j][CI] = Append(inbox[j][CI], Trigger) /\ inbox[j][CI] \in Seq(Instances \cup {Trigger})
  <2>1. inbox[j][CI] \in Seq(Instances \cup {Trigger})
    BY <1>1, ChannelNames DEF TypeOK
  <2> QED BY <1>1, <1>2, <1>3, <2>1, CacheInbox
<1> QED BY <1>4

\* What a process has not queried is announced to it, or about to be queried
LEMMA NewsStep ==
    ASSUME DeliveryInv, [Next]_vars
    PROVE  NewsInv'
<1> SUFFICES ASSUME faults' = 0, NEW j \in Instances PROVE News(j)'
  BY DEF NewsInv
<1> USE CacheAssumption, ChannelNames DEF DeliveryInv, TypeOK, News, Alive
<1>0. faults = 0 /\ News(j)
  BY FaultsStay DEF NewsInv
<1>1. CASE WriteSql
  <2>1. Commit(Sql) /\ j # Sql
    BY <1>1 DEF WriteSql
  <2>2. Alive(j) /\ ~missed'[j] => inbox'[j][CI] # <<>>
    BY <2>1, CommitReaches
  <2> QED BY <2>1, <2>2 DEF Commit
<1>2. ASSUME NEW i \in Instances, Process(i) PROVE News(j)'
  <2>1. CASE Bootstrap(i) \/ DropTrigger(i) \/ CreateTrigger(i) \/ TriggersFail(i) \/ Serve(i)
    BY <1>0, <2>1 DEF Bootstrap, DropTrigger, CreateTrigger, TriggersFail, Serve, Starting
  <2>2. CASE Stop(i)
    BY <1>0, <2>2 DEF Stop, Starting
  <2>3. CASE WriteApi(i)
    <3>1. CASE i = j
      BY <2>3, <3>1 DEF WriteApi
    <3>2. CASE i # j
      <4>1. step'[j] = step[j] /\ Commit(i)
        BY <2>3, <3>2 DEF WriteApi
      <4>2. SUFFICES ASSUME Alive(j), ~missed'[j]
                     PROVE  inbox'[j][CI] # <<>>
        BY <4>1 DEF Commit
      <4> QED BY <3>2, <4>1, <4>2, CommitReaches
    <3> QED BY <3>1, <3>2
  <2>4. CASE Broadcast(i)
    <3>1. step'[j][CI] = step[j][CI]
            /\ (step[j]["request"] = "query" => step'[j]["request"] = "query")
      BY <2>4 DEF Broadcast
    <3>2. inbox'[j][CI] = inbox[j][CI]
      <4>1. UNCHANGED inbox \/ Notify("pb_bridge_shared", i)
        BY <2>4 DEF Broadcast
      <4> QED BY <4>1, CacheInbox
    <3> QED BY <1>0, <2>4, <3>1, <3>2 DEF Broadcast
  <2>5. ASSUME NEW ch \in Channels, Listen(i, ch) PROVE News(j)'
    BY <1>0, <2>5 DEF Listen
  <2>6. ASSUME NEW ch \in Channels, BreakListener(i, ch) PROVE News(j)'
    BY <2>6, FaultsStay
  <2>7. ASSUME NEW ch \in Channels, TakeNotification(i, ch) PROVE News(j)'
    <3>0. step'[j]["request"] = step[j]["request"]
      <4>1. ch # "request"
        BY DEF Channels
      <4> QED BY <2>7, <4>1 DEF TakeNotification
    <3>1. CASE ch = CI /\ i = j
      <4>1. inbox[i][CI] \in Seq(Instances \cup {Trigger}) /\ inbox[i][CI] # <<>>
        BY <2>7, <3>1 DEF TakeNotification
      <4>2. Head(inbox[i][CI]) = Trigger
        <5>1. \A k \in 1..Len(inbox[i][CI]) : inbox[i][CI][k] = Trigger
          BY DEF SenderInv
        <5> QED BY ONLY <4>1, <5>1
      <4>3. step'[i][CI] = "query"
        BY <2>7, <3>1, <4>2 DEF TakeNotification
      <4> QED BY <3>1, <4>3
    <3>2. CASE ~(ch = CI /\ i = j)
      <4>1. step'[j][CI] = step[j][CI] /\ inbox'[j][CI] = inbox[j][CI]
        BY <2>7, <3>2 DEF TakeNotification
      <4> QED BY <1>0, <2>7, <3>0, <4>1 DEF TakeNotification
    <3> QED BY <3>1, <3>2
  <2>8. ASSUME NEW g \in Goroutines, Query(i, g) PROVE News(j)'
    <3>1. CASE i = j
      BY <2>8, <3>1 DEF Query
    <3>2. CASE i # j
      BY <1>0, <2>8, <3>2 DEF Query
    <3> QED BY <3>1, <3>2
  <2>9. ASSUME NEW g \in Goroutines, Store(i, g) PROVE News(j)'
    <3>1. \A h \in Goroutines : step[j][h] = "query" => step'[j][h] = "query"
      BY <2>9 DEF Store
    <3> QED BY <1>0, <2>9, <3>1 DEF Store
  <2>10. ASSUME NEW g \in Goroutines, ReloadFails(i, g) PROVE News(j)'
    BY <2>10, FaultsStay
  <2> QED BY <1>2, <2>1, <2>2, <2>3, <2>4, <2>5, <2>6, <2>7, <2>8, <2>9, <2>10 DEF Process
<1>3. CASE UNCHANGED vars
  BY <1>0, <1>3 DEF vars
<1> QED BY <1>1, <1>2, <1>3 DEF Next

\* The invariant of the deliveries holds when the processes start
LEMMA DeliveryInit == Init => DeliveryInv
<1>1. Init => TypeOK
  BY TypeInit
<1> QED BY <1>1, ChannelNames DEF Init, DeliveryInv, TriggerInv, Gap, SenderInv, NewsInv, News, Alive, Starting

\* Every step keeps the invariant of the deliveries
LEMMA DeliveryStep ==
    ASSUME DeliveryInv, [Next]_vars
    PROVE  DeliveryInv'
BY TypeStep, TriggerStep, SenderStep, NewsStep DEF DeliveryInv

\* Until a connection or a reload fails, a process that has settled has queried the
\* newest collections, unless it did not listen when they were written or the trigger was
\* being replaced (createCacheInvalidationTriggers, listenCacheInvalidation)
THEOREM InvalidationsArrive == Spec => []NoLostInvalidation
<1>1. Init => DeliveryInv
  BY DeliveryInit
<1>2. DeliveryInv /\ [Next]_vars => DeliveryInv'
  BY DeliveryStep
<1>3. DeliveryInv => NoLostInvalidation
  BY ChannelNames DEF DeliveryInv, NewsInv, News, Alive, NoLostInvalidation, Settled
<1> QED BY <1>1, <1>2, <1>3, PTL DEF Spec

-----------------------------------------------------------------------------
(***************************************************************************)
(* Which of two reloads stores last.                                       *)
(***************************************************************************)

\* No reload has a result in hand
NoneInHand(i) == \A g \in Goroutines : step[i][g] # "store"

\* The result of g is the only one in hand, and it is the newest
NewestInHand(i, g) ==
    /\ step[i][g] = "store" /\ copy[i][g] = seen[i]
    /\ \A h \in Goroutines \ {g} : step[i][h] # "store"

\* If the last query met no other result in hand, its own is stored or will be
LastStored(i) ==
    ~overlap[i] =>
        \/ NoneInHand(i) /\ cache[i] = seen[i]
        \/ \E g \in Goroutines : NewestInHand(i, g)

\* A process that has not started reloads nothing
OffQuiet(i) ==
    phase[i] = "off" =>
        /\ \A g \in Goroutines : step[i][g] = "idle"
        /\ \A ch \in Channels : ~listening[i][ch] /\ inbox[i][ch] = <<>>

StoreInv == TypeOK /\ \A i \in Instances : OffQuiet(i) /\ LastStored(i)

\* A NOTIFY leaves the inboxes of those who do not listen alone
LEMMA NotListening ==
    ASSUME TypeOK, NEW i \in Instances, NEW d \in Channels, ~listening[i][d],
           NEW ch \in Channels, NEW sender, Notify(ch, sender)
    PROVE  inbox'[i][d] = inbox[i][d]
BY NotifyEffect

\* Every step leaves the processes that have not started alone
LEMMA OffStep ==
    ASSUME StoreInv, [Next]_vars, NEW j \in Instances
    PROVE  OffQuiet(j)'
<1> USE ChannelNames DEF TypeOK
<1>t. TypeOK /\ OffQuiet(j)
  BY DEF StoreInv
<1> SUFFICES ASSUME phase'[j] = "off"
             PROVE  /\ \A g \in Goroutines : step'[j][g] = "idle"
                    /\ \A ch \in Channels : ~listening'[j][ch] /\ inbox'[j][ch] = <<>>
  BY DEF OffQuiet
<1>n. ASSUME NEW ch \in Channels, NEW sender, Notify(ch, sender) \/ UNCHANGED inbox,
             phase[j] = "off"
      PROVE  \A d \in Channels : inbox'[j][d] = <<>>
  <2>1. \A d \in Channels : ~listening[j][d] /\ inbox[j][d] = <<>>
    BY <1>t, <1>n DEF OffQuiet
  <2>2. ASSUME NEW d \in Channels PROVE inbox'[j][d] = inbox[j][d]
    BY <1>t, <1>n, <2>1, NotListening
  <2> QED BY <2>1, <2>2
<1>c. ASSUME NEW by, Commit(by) PROVE \A d \in Channels : inbox'[j][d] = <<>> /\ ~listening'[j][d]
  <2>1. phase[j] = "off" /\ listening' = listening
    BY <1>c DEF Commit
  <2>2. Notify(CI, Trigger) \/ UNCHANGED inbox
    BY <1>c DEF Commit, CI
  <2> QED BY <1>t, <1>n, <2>1, <2>2 DEF OffQuiet
<1>1. CASE WriteSql
  <2>1. step' = step /\ phase' = phase
    BY <1>1 DEF WriteSql, Commit
  <2> QED BY <1>t, <1>c, <1>1, <2>1 DEF WriteSql, OffQuiet
<1>2. ASSUME NEW i \in Instances, Process(i)
      PROVE  /\ \A g \in Goroutines : step'[j][g] = "idle"
             /\ \A ch \in Channels : ~listening'[j][ch] /\ inbox'[j][ch] = <<>>
  <2>1. CASE Bootstrap(i) \/ DropTrigger(i) \/ CreateTrigger(i) \/ TriggersFail(i) \/ Serve(i)
    BY <1>t, <2>1 DEF Bootstrap, DropTrigger, CreateTrigger, TriggersFail, Serve, OffQuiet, Starting
  <2>2. CASE Stop(i)
    BY <1>t, <2>2 DEF Stop, OffQuiet
  <2>3. CASE WriteApi(i)
    <3>1. phase' = phase /\ i # j /\ step'[j] = step[j]
      BY <2>3 DEF WriteApi, Commit
    <3> QED BY <1>t, <1>c, <2>3, <3>1 DEF WriteApi, OffQuiet
  <2>4. CASE Broadcast(i)
    <3>1. phase' = phase /\ listening' = listening /\ i # j /\ step'[j] = step[j]
      BY <1>t, <2>4 DEF Broadcast, OffQuiet
    <3>2. Notify("pb_bridge_shared", i) \/ UNCHANGED inbox
      BY <2>4 DEF Broadcast
    <3> QED BY <1>t, <1>n, <3>1, <3>2 DEF OffQuiet
  <2>5. ASSUME NEW ch \in Channels, Listen(i, ch) \/ BreakListener(i, ch)
        PROVE  /\ i # j /\ phase' = phase /\ step' = step
               /\ listening'[j] = listening[j] /\ inbox'[j] = inbox[j]
    <3>1. CASE Listen(i, ch)
      BY <3>1 DEF Listen
    <3>2. CASE BreakListener(i, ch)
      BY <3>2 DEF BreakListener
    <3> QED BY <2>5, <3>1, <3>2
  <2>6. ASSUME NEW ch \in Channels, TakeNotification(i, ch)
        PROVE  /\ i # j /\ phase' = phase /\ step'[j] = step[j]
               /\ listening' = listening /\ inbox'[j] = inbox[j]
    BY <1>t, <2>6 DEF TakeNotification, OffQuiet
  <2>7. ASSUME NEW g \in Goroutines, Query(i, g) \/ Store(i, g) \/ ReloadFails(i, g)
        PROVE  /\ i # j /\ phase' = phase /\ step'[j] = step[j]
               /\ listening' = listening /\ inbox' = inbox
    BY <1>t, <2>7 DEF Query, Store, ReloadFails, OffQuiet
  <2> QED BY <1>t, <1>2, <2>1, <2>2, <2>3, <2>4, <2>5, <2>6, <2>7 DEF Process, OffQuiet
<1>3. CASE UNCHANGED vars
  BY <1>t, <1>3 DEF vars, OffQuiet
<1> QED BY <1>1, <1>2, <1>3 DEF Next

\* A step that puts no result in hand, and stores none
LEMMA SameInHand ==
    ASSUME NEW j \in Instances, LastStored(j),
           UNCHANGED <<cache, seen, overlap, copy>>,
           \A g \in Goroutines : step'[j][g] = "store" <=> step[j][g] = "store"
    PROVE  LastStored(j)'
BY DEF LastStored, NoneInHand, NewestInHand

\* Every step keeps track of the last query
LEMMA StoreStep ==
    ASSUME StoreInv, [Next]_vars, NEW j \in Instances
    PROVE  LastStored(j)'
<1> USE ChannelNames DEF TypeOK
<1>t. TypeOK /\ OffQuiet(j) /\ LastStored(j)
  BY DEF StoreInv
<1>1. CASE WriteSql
  BY <1>t, <1>1, SameInHand DEF WriteSql, Commit
<1>2. ASSUME NEW i \in Instances, Process(i) PROVE LastStored(j)'
  <2>1. CASE Bootstrap(i)
    <3>1. CASE i = j
      <4>1. NoneInHand(j)' /\ cache'[j] = seen'[j]
        BY <1>t, <2>1, <3>1 DEF Bootstrap, OffQuiet, NoneInHand
      <4> QED BY <4>1 DEF LastStored
    <3>2. CASE i # j
      BY <1>t, <2>1, <3>2 DEF Bootstrap, LastStored, NoneInHand, NewestInHand
    <3> QED BY <3>1, <3>2
  <2>2. CASE DropTrigger(i) \/ CreateTrigger(i) \/ TriggersFail(i) \/ Serve(i)
    BY <1>t, <2>2, SameInHand DEF DropTrigger, CreateTrigger, TriggersFail, Serve
  <2>3. CASE Stop(i)
    <3>1. CASE i = j
      <4>1. NoneInHand(j)' /\ cache'[j] = seen'[j]
        BY <1>t, <2>3, <3>1 DEF Stop, NoneInHand
      <4> QED BY <4>1 DEF LastStored
    <3>2. CASE i # j
      BY <1>t, <2>3, <3>2 DEF Stop, LastStored, NoneInHand, NewestInHand
    <3> QED BY <3>1, <3>2
  <2>4. CASE WriteApi(i)
    BY <1>t, <2>4, SameInHand DEF WriteApi, Commit
  <2>5. CASE Broadcast(i)
    BY <1>t, <2>5, SameInHand DEF Broadcast
  <2>6. ASSUME NEW ch \in Channels, Listen(i, ch) \/ BreakListener(i, ch) PROVE LastStored(j)'
    BY <1>t, <2>6, SameInHand DEF Listen, BreakListener
  <2>7. ASSUME NEW ch \in Channels, TakeNotification(i, ch) PROVE LastStored(j)'
    BY <1>t, <2>7, SameInHand DEF TakeNotification
  <2>8. ASSUME NEW g \in Goroutines, Query(i, g) PROVE LastStored(j)'
    <3>1. CASE i = j
      <4>1. ASSUME ~overlap'[j] PROVE NewestInHand(j, g)'
        BY <1>t, <2>8, <3>1, <4>1 DEF Query, NewestInHand
      <4> QED BY <4>1 DEF LastStored
    <3>2. CASE i # j
      BY <1>t, <2>8, <3>2 DEF Query, LastStored, NoneInHand, NewestInHand
    <3> QED BY <3>1, <3>2
  <2>9. ASSUME NEW g \in Goroutines, Store(i, g) PROVE LastStored(j)'
    <3>1. CASE i = j
      <4> SUFFICES ASSUME ~overlap[j] PROVE NoneInHand(j)' /\ cache'[j] = seen'[j]
        BY <1>t, <2>9 DEF LastStored, Store
      <4>1. NewestInHand(j, g)
        BY <1>t, <2>9, <3>1 DEF LastStored, NoneInHand, NewestInHand, Store
      <4>2. cache'[j] = seen'[j]
        BY <1>t, <2>9, <3>1, <4>1 DEF Store, NewestInHand
      <4>3. NoneInHand(j)'
        BY <1>t, <2>9, <3>1, <4>1 DEF Store, NewestInHand, NoneInHand, Over
      <4> QED BY <4>2, <4>3
    <3>2. CASE i # j
      BY <1>t, <2>9, <3>2 DEF Store, LastStored, NoneInHand, NewestInHand
    <3> QED BY <3>1, <3>2
  <2>10. ASSUME NEW g \in Goroutines, ReloadFails(i, g) PROVE LastStored(j)'
    BY <1>t, <2>10, SameInHand DEF ReloadFails, Over
  <2> QED BY <1>2, <2>1, <2>2, <2>3, <2>4, <2>5, <2>6, <2>7, <2>8, <2>9, <2>10 DEF Process
<1>3. CASE UNCHANGED vars
  BY <1>t, <1>3, SameInHand DEF vars
<1> QED BY <1>1, <1>2, <1>3 DEF Next

\* Until something fails, a process that has settled also works with the collections it
\* has queried last, unless that query met another goroutine's result in hand; reloads of
\* listeners and requests mix freely (bindBridge, ReloadCachedCollections)
THEOREM TriggerKeepsCachesFresh == Spec => []FreshWhenSettled
<1>1. Init => DeliveryInv /\ StoreInv
  BY DeliveryInit DEF Init, DeliveryInv, StoreInv, OffQuiet, LastStored, NoneInHand
<1>2. DeliveryInv /\ StoreInv /\ [Next]_vars => DeliveryInv' /\ StoreInv'
  BY DeliveryStep, OffStep, StoreStep DEF StoreInv, DeliveryInv
<1>3. DeliveryInv /\ StoreInv => FreshWhenSettled
  <2> SUFFICES ASSUME DeliveryInv, StoreInv, faults = 0, NEW i \in Instances,
                      phase[i] = "serving", Settled(i), ~missed[i], ~overlap[i]
               PROVE  cache[i] = db
    BY DEF FreshWhenSettled
  <2>1. seen[i] = db
    BY ChannelNames DEF DeliveryInv, NewsInv, News, Alive, Settled
  <2>2. cache[i] = seen[i]
    BY DEF StoreInv, LastStored, NewestInHand, Settled
  <2> QED BY <2>1, <2>2
<1> QED BY <1>1, <1>2, <1>3, PTL DEF Spec
===============================================================================
