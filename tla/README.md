# pg-pocketbase: TLA+ models, checks and proofs

pg-pocketbase runs PocketBase on PostgreSQL. Its own logic is in `pgpb/`: what lets several
PocketBase processes share one database. This directory holds TLA+ models of that logic, the
TLC runs that check them on small instances, and theorems that TLAPS proves for every instance.
All paths below are relative to the repository; `PROJECT.json` maps every definition to the lines
it models.

Run a check with `tlc -config <run>.cfg <module>` (the table under "Runs" pairs them) and the
proofs with `tlapm <module>_proofs.tla`.

## 1. Inventory

### Components that keep state

| Component | Source | State | Operations |
|---|---|---|---|
| Realtime bridge | `pgpb/bridge.go`, `pgpb/bridged_client.go`, `bindBridge` and `handleSharedMessage` in `pgpb/pgpb.go` | tables `_realtime_channels` (a lease per process) and `_realtime_clients` (a row per SSE client); per process the subscriptions broker, local and remote clients, the LISTEN sessions | start, listen, reconnect, heartbeat (renew, clean up, announce), connect, subscribe, disconnect, handle a shared notification |
| Heartbeat timing | `heartbeat`, `heartbeatLoop` in `pgpb/bridge.go` | `valid_until` of each lease, the timers of the loops | renew, fail to renew, clean up, sleep |
| Cache invalidation | `createCacheInvalidationTriggers`, `listenCacheInvalidation`, `broadcastCollectionChanged`, hooks in `bindBridge` | `_collections`, the trigger on it, the collections cache of every process | bootstrap, (re)create the trigger, write, notify, broadcast, reload |
| Direct messages | `SendViaBridge`, `listenDirectChannel`, `handleDirectMessage` | the channel named after each process; the message queue of each local client | send for a remote client, deliver to a local one, drop what is too large |
| Backup and restore lock | `pgpb/backup_lock.go`, `bindBackupLock` | PostgreSQL advisory locks, the pool of lock sessions | try to acquire, run, release, close the pool |
| Cron lock | `pgpb/cron.go` | the same, over a pool its user passes | the same |
| Admin elevation | `pgpb/admin_elevation.go` | table `pgpb_admin_map`, `_superusers`, a token cache per process | look up, create, rotate the password, cache the token |
| Temporary key-value store | `pgpb/tempkv.go`, `_overlay/apis/oauth2_apple_name_postgres.go` | table `_pgpb_temp_kv` | set, get and delete, clean up |
| Connection and bootstrap | `pgpb/connect.go`, `pgpb/bootstrap.go`, `NewWithPostgres` | the databases and SQL functions on the server | connect, create the database, create the functions |
| S3 from the environment | `pgpb/s3config.go` | the settings in memory and in `_params` | apply at serve |

### Components without state of their own

* Search filters (`_overlay/tools/search/filter_postgres.go` and its SQLite twin): translate filter
  expressions to SQL. Correct if the PostgreSQL text selects what the SQLite text selects, NULL,
  empty strings and mixed types included.
* Rule parameters (`_overlay/apis/record_crud_postgres.go`): `sanitizeRuleParam` and
  `sanitizeRuleSelectExpr` convert a Go value and choose a cast. Correct if the pair agrees for every type.
* Overlays of `core`, `migrations` and `dbutils`: the same operation in the dialect of one database
  or the other.
* Patches (`patches/`): diffs against PocketBase sources that the repository does not contain.
* Error reporting (`pgpb/sentry.go`) and the example program (`examples/basic`).

### How they interact

`NewWithPostgres` connects both databases and registers hooks. At serve the hooks run by priority:
admin elevation (994), the key-value store (995), the backup lock (996), S3 from the environment if the program binds it (997), the bridge (998).
The bridge hook creates its tables and triggers, starts the
heartbeat and three listeners (shared channel, cache channel, direct channel), and lets the server
serve when the listeners have issued their first LISTEN; it does not wait for the first heartbeat.

Processes never call each other. They share the tables and three kinds of NOTIFY channels:

* `pb_bridge_shared`: `subscription_upsert`, `subscription_delete`, `channel_offline`,
  `collection_updated`, `settings_updated`, from any process to all, the sender included;
* `cache_invalidate`: from the trigger on `_collections` to all;
* one channel per process: direct messages for its clients.

Within a process, request goroutines, SSE goroutines, the heartbeat and the listeners run
concurrently and meet in the broker, in the `record` of a local client (no lock), and in the cache.

### What is hard, and what makes each component correct

* *Bridge.* A row is written first and announced after; requests of one client overlap each other and
  its disconnect; listeners lose their connection and with it notifications; a process dies without
  removing anything; a slow process is declared dead while it lives. Correct if every remote client
  names the process that serves the client, if nobody else's notification removes a local client, if
  rows and remote clients follow the subscriptions, if an ended connection leaves nothing behind, and
  if the rows and remote clients of a dead process go.
* *Heartbeat.* The rounds of the processes fall at arbitrary times, with a random jitter. Correct if
  cleanups spare the leases of running processes and take those of dead ones soon.
* *Cache.* The trigger is dropped and created by each process that starts; up to three goroutines
  reload one cache at the same time; reconnects lose notifications. Correct if no invalidation is
  lost and the cache of a process at rest is the newest.
* *Locks.* An advisory lock belongs to a session and each statement takes any session of the pool.
  Correct if two operations with one key never run together and no lock outlives its operation.
* *Direct messages.* Remote clients route by the channel of their record; messages above 7500 bytes
  are dropped; one listener serves all clients; the auth of a client stays in its process. Correct if a
  message reaches the client once, from whichever process it is sent, and only if the rule of the
  collection lets the client see it.
* *Admin elevation.* Two processes elevate one user at once; a rotation invalidates tokens that another
  process still serves from its cache. Correct if a user has one superuser and gets tokens that work.
* *Key-value store.* Get and Delete are two statements. Correct if a name is used at most once.
* *Startup.* Processes start on an empty server, or beside others that serve, and each drops and creates
  functions. Correct if all come up and none takes a function away for good.
* *Filters.* NULL, types and casts meet in each comparison, and again, negated, in a multi-match
  subquery. Correct if the PostgreSQL condition selects what the SQLite one does.

`PROJECT.json` lists these hazards one by one, each at its line and with the properties that cover it.

## 2. Modules

| Module | What it holds |
|---|---|
| `RealtimeBridge` | the bridge: life cycle, leases, local clients and their requests, shared notifications |
| `RequestHistory` | `RealtimeBridge` with a history of the races among a client's requests and its disconnect, and the properties that speak of them |
| `OfflineHistory` | `RealtimeBridge` with a history variable: which dead channels were broadcast offline |
| `BridgeDelivery` | `RequestHistory` composed with the direct channels: events on their way to the clients |
| `HeartbeatLease` | the heartbeat on a clock |
| `CacheInvalidation` | `_collections`, its trigger, and the caches |
| `AdvisoryLock` | locks of backups, restores and cron jobs over a pool of sessions |
| `ExclusiveRuns` | the abstract lock that `AdvisoryLock` implements |
| `AdminElevation` | users of the allowlist become superusers, in several processes at once |
| `NameHandoff` | the name from Apple's redirect, through the key-value store to the login |
| `Startup` | processes start side by side on one server |
| `Filters` | the SQL condition of a filter, in PostgreSQL and in SQLite |
| `MCRealtimeBridge`, `MCBridgeDelivery`, `MCHeartbeatLease`, `MCCacheInvalidation`, `MCAdvisoryLock`, `MCNameHandoff` | the instances TLC runs, with their symmetry |
| `RealtimeBridge_proofs`, `HeartbeatLease_proofs`, `CacheInvalidation_proofs`, `AdvisoryLock_proofs`, `AdminElevation_proofs`, `NameHandoff_proofs`, `Startup_proofs`, `Filters_proofs` | the theorems about the module each is named after; those about `RequestHistory`, `OfflineHistory` and `BridgeDelivery` are in `RealtimeBridge_proofs` |

Definitions whose name has a suffix after an underscore (`StaleRows_None`, `Finish_NoRelease`) are
mutants: what the code would do with a plausible bug. No specification uses them; each is there to
replace the definition it is named after, and then breaks the property `PROJECT.json` pairs it with.

### RealtimeBridge

An element of `Instances` is one incarnation of a process, named by its channel id; a process that
restarts is another element. An element of `Clients` is one SSE connection, of `Requests` one
`POST /api/realtime`.

| State | In the code |
|---|---|
| `phase` | off, `starting` (in the serve hook), `serving`, `dead` |
| `lease` | the row of `_realtime_channels`: `none`, `fresh` (`valid_until` ahead), `stale` (passed) |
| `rows` | `_realtime_clients` |
| `listening`, `inbox` | the session of the shared listener; what PostgreSQL has queued for it |
| `heartbeat`, `offline` | the next statement of `heartbeat`; the channels it still has to announce |
| `local`, `remotes` | the broker, split by `BridgedClient.IsRemote`; a remote client is filed under the id of its inner client, drawn from `made` |
| `conn`, `home`, `subs`, `recSubs` | the SSE connection, its process, the subscriptions of the client and of its `record` |
| `req` | the program counter of a subscription request and its local `subKeys` |

Actions follow the functions: `Start`, `Listen`, `Serve`, `BreakListener`, `Stop` are the serve
hook, `listenLoop` and the terminate hook; `RenewLease`, `DeleteStale`, `NotifyOffline` are the
statements of `heartbeat`, and `NotifyOfflineFails` is a NOTIFY whose error it discards; `Connect` is the connect hook; `Subscribe`, `Snapshot`, `AssignRecord`,
`UpsertRow`, `Marshal`, `NotifyUpsert` are the subscribe hook and the steps of `BroadcastChanges` between which
another goroutine can run; `DeleteRow`, `NotifyDelete`, `Disconnected` are `Discard` with
`BroadcastGoOffline`; `HandleShared` is the handler of the shared channel with its cases
`HandleUpsert`, `HandleDelete`, `HandleOffline`. `UpsertRow` reads the record without a lock, as the
code does, so that its value is the one before or after another request's assignment. Nothing serializes the
requests of a client, or a request and the end of its connection, and nothing in the model does:
`MaxInFlight` only bounds how many requests of a client TLC lets be under way at a time.

A record carries an `auth`, and so does a remote client, because both could: `auth_collection_ref` and
`auth_record_ref` are columns, but nothing fills them (`NewBridgedClient`), and nothing sets the auth of a
remote client (`NewRemoteBridgedClient`). It is always `Nobody`, a guest.

`RequestHistory` remembers in `outdated` whose request was overtaken by another after its snapshot and in
`cutOff` whose connection ended before a request had stored its row. These are the races that leave an
old row, or a row of a client that is gone; its properties say that nothing else does.

Abstracted: a subscription is a model value; timestamps and JSON are left out; `valid_until` is
"ahead" or "passed", and only a stall or a death lets it pass (`HeartbeatLease` justifies that).

### BridgeDelivery

`BridgeDelivery` extends the bridge: `BridgeStep` is any step of it, with what a dying process takes
along (`Beside`). `Publish` is a broadcast to the broker, whose loop is PocketBase's: a subscribed local client
gets the event, each subscribed remote client a goroutine in `sends`, if the rule of the collection lets the auth that
the broker's client carries see the record (`MaySee`): `Rules` are a public collection and one for signed-in
users, `Signed` the clients with a token. `SendViaBridge` is the NOTIFY,
which is lost if nobody listens on the channel (`direct`) or the statement fails (`SendFails`; a
message over `maxNotifyPayload` ends the same way). `HandleDirect` is `handleDirectMessage`. While a client
is being discarded nobody reads its channel and the listener waits in its `Send`; the Discard then closes the channel,
the send panics, and the process ends (`SendPanics`), unless the listener comes to the message only after the
Discard. A process serves once its direct channel is listened to as well (`MayServe`). The content of an event is its
number; `got` counts what a client has received, `told` remembers which processes were sent an upsert of a client.

### HeartbeatLease

Times are numbers of a clock, the database's. `wake` is when the `time.After` of a loop fires;
`slack` is how long the process may still be awake before it must have renewed, so that `Delay`
bounds the time statements and scheduling take in a round. The code's constants are 30 s, up to 5 s
of jitter, and a TTL of 40 s: rounds may take up to 5 s.

### CacheInvalidation

The content of `_collections` is the number of writes it has seen. A reload is a query and a store,
in one of three goroutines (`step`): the cache listener, the shared listener, the request that
wrote. `Notify` appends to the queue of every session that listens. `DropTrigger` and
`CreateTrigger` are two transactions; a statement of `createCacheInvalidationTriggers` that fails is only
logged, and the process serves without (`TriggersFail`). What `ReloadCachedCollections` does is PocketBase's and is
modelled as query-then-store. Writers are the processes, in a request, and `Sql`, whatever else writes to
`_collections`; they write at any time. Three history variables name the holes of the design: `missed`, a process
to which the last write was not announced, because it does not listen yet or because the trigger was down
(`Gap`: some start is between its DROP and its CREATE, or has ended or failed there, `untended`), and `overlap`, a process
whose last query met another goroutine's result in hand, so that the older one may be stored last.

### AdvisoryLock

`idle` and `conn` are the sessions of a pool, at rest and in use; `held` counts how often each
session holds each lock, as PostgreSQL does; `orphans` are sessions whose process or connection is gone but which
the server has not noticed: they keep their locks until `Reap`. A connection lost under a statement (`StatementFails`)
may have lost the answer only, so that the lock was taken or given back all the same. An operation goes through `Begin`, `CheckOut`, `TryLock`, `Finish`,
`CheckOut`, `Unlock`. `Return` is `putConn`: the session is kept, or closed with its locks if enough
are idle or the pool is closed. `LocalMutex` says that PocketBase admits one backup or restore per
process (its store key `activeBackup`); cron jobs have no such thing.

`ExclusiveRuns` says what an operation is promised: a taken key admits nobody, it stays taken while its
operation runs, and it may stay so for a while after. `AdvisoryLock!LocksAreExclusive` is its
specification under the mapping `running` <- the operations that run with each key, `taken` <- the keys
held by any session. A lost connection or a closed pool breaks the promise for good (`broken`), a crash
does not.

### AdminElevation

One user of the allowlist; a superuser is its id and the token key that its password carries. Each
statement of `elevateToSuperuser` and `createMappedSuperuser` is a step of a request: `Query` the
mapping, `Find` the superuser, `Rotate` its password, `Unmap` a stale mapping, `Create` (which fails on
the unique email), `Insert` the mapping, `Serve` and cache the token. `Visit` checks the cooldown cache
of its process. A crash loses the cache and the requests of a process, a statement may fail anywhere,
another superuser may delete this one. What the middleware lets through or forbids changes nothing and
is no action. `alone` remembers whether an elevation ran beside another or beside a token cached by
another process.

### NameHandoff

A name is the number of the redirect that stored it. `store` is the table `_pgpb_temp_kv` and, for the
processes that could not open it (`WithoutKV`), PocketBase's in-memory store with its timers.
`Redirect`, `Get` and `Delete` are statements of their own; `Tick` is a part of `appleNameTTL`. A row of the
table is read only before `expires_at`; in the in-memory store nobody looks at the time of a name
(`Readable`), and the timer that removes it fires when it is due or later (`Fire`).

### Startup

The start of a process as a sequence of statements: for each database `Ping`, `CreateDatabase`,
`DropShim`, `DefineShim` (`BootstrapFunctions`), then the connections of `PostgresDBConnect`, the
migrations, the tables of the bridge, and the listeners whose `onReady` the serve hook waits for. Each
statement commits by itself. Of the shims the overloads of `json_extract` stand for all: they alone are dropped first, one
by one, and then created one by one (`Overloads`, three in the code). A DROP of the overload that a view depends on fails, and
those before it stay dropped. Where two processes run one CREATE at the same time, or one a DROP and the other the
CREATE OR REPLACE of a function that is there (`Conflict`), the server may refuse all but one (`Wins`), and a process
whose statement fails exits (`Down`). `dropped` remembers what each process has dropped and not created since.

### Filters

A behaviour reads a filter `left op right` of any two operands the resolver can return: fields of every
type and NULL fallback, single or multi-match, JSON extractions, parameters, literals, macros, null.
`Condition` is the SQL condition that `filter_postgres.go` builds, evaluated as PostgreSQL does, with
three-valued logic, types and casts; `"E"` is a statement the server refuses. `LiteCondition` is
that of `filter_sqlite.go`, and `Selected` wraps either in the multi-match subquery. The dialects order values
each in its own way: jsonb puts texts before numbers (`Rank`), SQLite numbers before texts (`LiteRank`), and
texts follow the collation of the database, which `CREATE DATABASE` leaves to the template of the server (`Collation`),
or their bytes. No text looks like a number, so that the properties do not hang on SQLite's affinities.

## 3. Runs

| Run | Module | Checks | Instance |
|---|---|---|---|
| `bridge_leases` | MCRealtimeBridge | types; `OwnClientsStay`, `ConnectedRowsOutliveCleanups`, and under fairness `DeadRowsSwept` | 2 processes with heartbeats, one may stop, 1 client, 1 request, 1 fault (stall, lost connection or failed statement) |
| `bridge_offline` | OfflineHistory | `BystandersForget` | 3 processes, two of them with heartbeats and one of these may stop, 1 client, 1 request that may overlap the disconnect, 1 fault (stall or failed statement) |
| `delivery` | MCBridgeDelivery | `RemotesPointHome`, `RowIsCurrent`, `NewestRemoteIsCurrent`, `ClosedLeavesNoRow`, `NoMoreCopiesThanNotices`, `NoCopyIsLost`, `SubscribersAreReached` | 2 processes that may stop, before their first heartbeat, 1 client with a token, 2 requests that may overlap, 1 event, 1 fault (lost connection or failed statement) |
| `bridge_late_start` | MCRealtimeBridge | violates `SubscriptionsAreEverywhere` | 2 processes, 1 client, 1 request, no faults |
| `heartbeat_timing` | MCHeartbeatLease | types; `LiveLeasesStay`, `ExpiredSoonSwept` | 2 processes, one with failing renewals; interval 3, jitter 1, delay 1, TTL 5; clock to 13 |
| `cache` | MCCacheInvalidation | types; `NoLostInvalidation`, `FreshWhenSettled`, and under fairness `FaultsHeal` | 2 processes, one may stop, 2 writes at any time, by request of the other or directly, starts whose triggers fail, 1 fault (lost connection or failed reload) |
| `backup_lock` | MCAdvisoryLock | types; `OneRunPerKey`, `ReleasedOnReturn`, `LocksAreExclusive` (refinement) | 3 processes, 2 operations, 2 keys, 4 sessions, 2 disruptions |
| `cron_lock_leak` | MCAdvisoryLock | violates `ReleasedOnReturn` | the same without the local mutex and without disruptions |
| `elevation` | AdminElevation | types; `NotLockedOut`, `CachedTokensAreGood`, and under fairness `SuperusersGetMapped` | 2 processes, 3 requests, 4 visits, 1 fault |
| `handoff` | MCNameHandoff | types; `NamesWait`, `FetchedAgainOnlyInBetween`, `OnlyTheNewestIsFetched` | 3 processes, one without the table, 3 logins, 2 keys, 2 redirects, TTL 2, 1 fault |
| `startup` | Startup | types; `FunctionsComeBack`, and under fairness `EveryoneServesOrAView` | 2 processes, 3 overloads, 2 crashes, views allowed |
| `filters` | Filters | types; `SelectsAsSqlite`, `LikeIsNarrower`, `EqualOrUnequal`, `MirrorSelectsTheSame`, `EqualityIsAccepted` | every pair of operands and every operator; up to 2 values of a multi-match field; the collation of a language |

### The properties

* `RemotesPointHome`: a remote client names the process that serves the client, and that is not the
  process that holds it. `Send` routes by it.
* `OwnClientsStay`: a client stays in the broker of its process until its own connection ends,
  whatever notifications arrive, even that its process is offline.
* `ConnectedRowsOutliveCleanups`: only a cleanup that finds the lease *expired* deletes the row of a
  connected client; a missing lease (the first heartbeat is not awaited) does not.
* `RowIsCurrent`, `NewestRemoteIsCurrent`: when the requests of a client are over, however they overlapped, its
  row holds its subscriptions, unless a statement failed or a request was overtaken by another after its
  snapshot; and so does the newest remote client of a process that has handled its queue, unless a
  notification was lost.
* `ClosedLeavesNoRow`: an ended connection leaves no row while its process lives, unless a statement
  failed or the connection ended under a request that had not stored its row yet.
* `BystandersForget`: after `channel_offline` of a dead process, every process but the sender forgets
  its clients for good, unless a listener lost its connection, and the broadcast with it.
* `DeadRowsSwept`: the rows of a dead process that had a lease are deleted in the end.
* `NoMoreCopiesThanNotices`: a client gets an event at most once for each change of its
  subscriptions, once if there was one: copies are never sent round, and what two processes know of a
  client does not add up.
* `NoCopyIsLost`: up to the first fault, no copy of an event is lost on its way to a client that
  stays: whoever can be sent to already listens, and the channel a remote client names is
  the one where the client is found.
* `SubscribersAreReached`: before anything fails or ends, an event is sent to every settled subscriber that its publisher
  serves or was once told of, if the rule of the collection lets the client see it, with its auth in its own
  process and as a guest in every other one. That the other processes take it for a guest is what the
  code does (section 5).
* `LiveLeasesStay`, `ExpiredSoonSwept`: cleanups spare the leases of running processes whose renewals
  succeed, and an expired lease lasts at most one more round.
* `NoLostInvalidation`: up to the first lost connection or failed reload, a process at rest has queried the newest
  collections, whichever way they were written, unless the last write came before it listened or while the
  trigger was down. `FreshWhenSettled`: it also *works* with them, unless its last query met another goroutine's result
  in hand. `FaultsHeal`: after a lost connection or a failed
  reload the next notification repairs the cache.
* `OneRunPerKey`: two operations with one key never run at the same time, on one process or several,
  crashes included, unless a connection is lost under one or a pool is closed before its process ends.
* `ReleasedOnReturn`: no idle session holds a lock that no operation of its process is about to
  release; lost connections, crashes and closed pools included.
* `LocksAreExclusive`: sessions, pools and processes implement `ExclusiveRuns`. It says more than
  `OneRunPerKey`: a key is given away only when it is free, and given back only when nobody runs.
* `NotLockedOut`: up to the first fault, however elevations race, a superuser without a mapping is one
  whose mapping is being inserted. `SuperusersGetMapped`: and it is inserted in the end.
* `CachedTokensAreGood`: without a concurrent elevation or a deletion, a cached token works until the cooldown ends.
* `NamesWait`: a name nobody has fetched is readable in every process that shares the table until its
  time is over, if its key was used once. `FetchedAgainOnlyInBetween`: up to the first fault a name is
  fetched twice only if the second login reads it between the two statements of the first.
  `OnlyTheNewestIsFetched`: no login gets a name that a newer one has replaced, nor an expired one, but from the
  in-memory store of a process whose timer is late.
* `FunctionsComeBack`: once the system is migrated, an overload of `json_extract` is missing only if some process has
  dropped it and has its CREATE still before it, or has ended in between (a crash, a lost race, a view on a later
  overload) and not come back. No start that gets through leaves the others without.
* `EveryoneServesOrAView`: started again after each failure, all processes serve in the end, unless a
  view uses `json_extract`.
* `SelectsAsSqlite`: what PostgreSQL accepts selects a record if and only if SQLite's condition does,
  apart from booleans compared with other types, an ordering of texts with numbers or, in the collation of a
  language, of words that differ in case, JSON null, and the empty text beside NULL where two
  columns are compared (section 5). Each of these exceptions is needed: without it TLC finds a record that only one selects.
  `LikeIsNarrower`: `~` selects no more than with SQLite. `EqualOrUnequal`: exactly one of `=` and `!=`
  selects a record, NULLs included. `MirrorSelectsTheSame`: swapping the operands changes nothing.
  `EqualityIsAccepted`: no cast is missing between two columns, or between JSON and anything but a
  number from a macro.

### Bounds

Every unbounded quantity has a bound that a constant names: `MaxFaults`, `MaxWrites`, `MaxTime`,
`MaxEvents`, `MaxVisits`, `MaxStores`, `MaxMany`, `MaxInFlight`, `Beating`, and the sizes of `Instances`, `Clients`, `Requests`,
`Ops`, `Sessions`, `Processes`, `Logins`. They are small on purpose and each interesting case
needs no more. In the bridge `faults` is the set of the kinds of faults that have happened and
`MaxFaults` bounds how many kinds meet; with `Recurring` each kind may happen any number of times.

* Bridge. The races between a client's steps need two requests, or one and a disconnect (`delivery`); messages
  cross with two processes; `BystandersForget` needs a dead process, one that announces it and one that
  listens, hence three. One client suffices because rows, remote clients and handlers of different
  clients do not touch each other; what is proved is proved for any number. Topics are empty where a
  property does not speak of subscriptions. `Beating` are the processes whose heartbeat gets to run: `delivery` is about rows
  and remote clients and observes the processes before their first heartbeat, which the serve hook does not
  wait for; `bridge_leases` has the heartbeats and one request. Both at once, with two
  overlapping requests and failing statements, were checked by hand (1.4 million states). One event is enough for `delivery` because events do not interact: the
  second request makes a second remote client, the faults or the end of a process hit it at any point of its way.
* Heartbeat. The clock allows three rounds, enough for a lease to run out, its cleanup, and a renewal
  after it.
* Cache. Two writes let an older reload be stored after a newer one, let one fall into the gap of a start and the other
  repair it, and let a write repair what a fault has lost.
* Locks. Three processes and four sessions let a lock be orphaned by one process while two others want it.
* Elevation. Two requests race and a third, or a fourth visit, meets what they left behind.
* Handoff. One name replaces another, three logins fetch them in three processes, and with a TTL of
  two ticks a name is read, replaced and expires in either order.
* Startup. One process may lose a race to the other, at each overload, and again after it; the second crash leaves another one
  between its DROP and its CREATE. Three processes with two overloads and one crash were checked by hand.
* Filters. Two values of a multi-match field may disagree with each other; more add nothing, because the
  subquery asks only for one that refutes. Each type has two values and NULL, texts also the empty one
  and two that differ in case. The bytewise collation was checked by hand.

Symmetry is used in no run with a liveness property and only over sets whose elements no constant
sets apart.

Deadlock is not checked in the runs whose clients, requests, writes, names and time are finite, because the
system then rests (a filter has been read). It is checked for the locks.

### Fairness

Only the liveness properties need it. `DeadRowsSwept` and `FaultsHeal`: weak fairness of the steps of goroutines
that loop until the process ends (`listenLoop` reconnects, `heartbeatLoop` comes round, the handlers
return), of the remaining steps of a request or disconnect that has begun, and of the expiry of a
lease that nobody renews, which is time passing; one fairness condition per goroutine, whose steps exclude
each other. `SuperusersGetMapped`: weak fairness of the statements of a
request in progress. `EveryoneServesOrAView`: weak fairness of the steps of a start and of starting again, which
is what whoever runs the process does when it exits with an error. No fairness is assumed
for first starts of the bridge, stops, clients, visits, writes or faults.

## 4. Proofs

TLAPS checks the following for every value of the constants.

| Theorem | Statement | Assumes |
|---|---|---|
| `RealtimeBridge_proofs!TypeCorrect` | `Spec => []TypeOK` | |
| `RemotesAreRoutable` | `Spec => []RemotesPointHome` | |
| `LocalClientsSurvive` | `Spec => []OwnClientsStay` | |
| `CleanupsSpareConnectedRows` | `Spec => ConnectedRowsOutliveCleanups` | |
| `NoRowAfterClose` | `RSpec => []ClosedLeavesNoRow` | |
| `RowsAreCurrent` | `RSpec => []RowIsCurrent` | |
| `RemotesCatchUp` | `RSpec => []NewestRemoteIsCurrent` | |
| `OthersForgetTheDead` | `HSpec => []BystandersForget` | |
| `CopiesAreBounded` | `DSpec => []NoMoreCopiesThanNotices` | |
| `CopiesArrive` | `DSpec => NoCopyIsLost` | |
| `SubscribersGetEvents` | `DSpec => SubscribersAreReached` | |
| `HeartbeatLease_proofs!TypeCorrect` | `Spec => []TypeOK` | interval + jitter + delay <= TTL |
| `RunningProcessesKeepTheirLease` | `Spec => LiveLeasesStay` | the same |
| `ExpiredLeasesAreSwept` | `Spec => []ExpiredSoonSwept` | the same |
| `CacheInvalidation_proofs!TypeCorrect` | `Spec => []TypeOK` | |
| `InvalidationsArrive` | `Spec => []NoLostInvalidation` | |
| `TriggerKeepsCachesFresh` | `Spec => []FreshWhenSettled` | |
| `AdvisoryLock_proofs!TypeCorrect` | `Spec => []TypeOK` | |
| `AtMostOneRun` | `Spec => []OneRunPerKey` | one operation per process |
| `NoLockLeftBehind` | `Spec => []ReleasedOnReturn` | one operation per process |
| `LocksImplementRuns` | `Spec => LocksAreExclusive` | one operation per process |
| `AdminElevation_proofs!TypeCorrect` | `Spec => []TypeOK` | |
| `NobodyIsLockedOut` | `Spec => []NotLockedOut` | |
| `CacheIsGood` | `Spec => []CachedTokensAreGood` | |
| `NameHandoff_proofs!TypeCorrect` | `Spec => []TypeOK` | |
| `FetchedNamesAreNewest` | `Spec => OnlyTheNewestIsFetched` | |
| `FetchedOnce` | `Spec => FetchedAgainOnlyInBetween` | |
| `UnfetchedNamesWait` | `Spec => []NamesWait` | |
| `Startup_proofs!TypeCorrect` | `Spec => []TypeOK` | |
| `StartsDefineWhatTheyDrop` | `Spec => []FunctionsComeBack` | |
| `Filters_proofs!TypeCorrect` | `Spec => []TypeOK` | |
| `RecordsAreSelectedAlike` | `Spec => []SelectsAsSqlite` | |
| `LikeSelectsNoMore` | `Spec => []LikeIsNarrower` | |
| `NoRecordIsLost` | `Spec => []EqualOrUnequal` | |
| `MirrorsSelectTheSame` | `Spec => []MirrorSelectsTheSame` | |
| `ColumnsAreComparable` | `Spec => []EqualityIsAccepted` | |

The arguments:

* *Bridge.* `BridgeInv` adds to the two properties that every queued `subscription_upsert` was sent by
  the process it names and for a client of that process (`MessagesFromHome`), and that a client that
  has not connected has no home. Homes never change, so a message stays true while it waits; a remote
  client is then as good as the message it came from, and a local client is filed under an id
  that no other process sends a delete for. `RemotesPointHome` alone is not inductive: nothing would
  be known of the message about to be handled. All of it is proved for `Step`, in which any process may end,
  because in `BridgeDelivery` a process also ends of a panic.
* *Rows.* `CurrentInv`, for `NoRowAfterClose` and `RowsAreCurrent`. `WatchInv`: the history remembers whoever has a request that
  is outdated or cut off right now. `OwnedInv`: until a statement fails a row belongs to a connected client, to a
  dead process or to a client that was cut off. `FlightInv`: what a request that is not outdated has read and recorded is what
  the client has subscribed to, also when another one records beside it; so, in `RowInv`, is the row once no request is about to
  store one.
* *Remote clients.* `NewestInv` follows the subscriptions of a client at rest on their way to another
  process: the last upsert in its queue carries them, and if there is none, the remote client filed
  last does. `BrokerInv` says that ids only grow, so that the one filed last is the newest, and that no
  remote client is there before the process listens. A request that ends and is not outdated appends the newest
  subscriptions behind every older upsert, and one that was outdated puts its client among `outdated` for good; handling the head of a queue moves the claim to the broker.
* *Dead channels.* `ForgetInv`: after a broadcast the queue of a bystander either still has a
  `channel_offline` behind every upsert of the dead channel (`Leaves`), or it has no such upsert and the broker
  no such remote client (`Forgotten`). The dead send nothing more, and a sweep has announced the
  channels of the one before it (`DeadInv`).
* *Events.* `DeliveryInv` counts. `KnownInv`: the remote clients that a broker has for a client, with the upserts
  queued to it, are no more than the requests of the client that are over. `RouteInv`: a copy is on its way only
  to the process of its client, which holds no remote client for it; it is not sent again, and a
  process counts for itself or for its remote clients, not both. `NoCopyIsLost` adds that the process of a
  connected client serves (`HostInv`) and therefore listens (`DirectInv`); `SubscribersAreReached` that
  the newest remote client carries what the client asked for (`NewestInv`), and that there is one: who was told of
  a client has an upsert of it queued or a remote client for it (`HeardInv`), because as long as nothing fails or ends no
  lease expires and no channel is said to be offline (`CalmInv`), and `subscription_delete` names no remote client.
* *Heartbeat.* `LeaseCovers(i)`: from every point of the loop, the time until the next renewal at the
  latest (sleep left, plus slack left) ends before `valid_until`. At the renewal this is the assumption
  on the TTL, and each tick takes one from both sides. `SweepInv`, for `ExpiredSoonSwept`: each lease ends, or the
  loop began, no earlier than a pause and the delays so far before the present point of the round
  (`RoundSince`); a cleanup removes the leases that would break this when the round ends.
* *Cache.* `NewsInv`: a process that has not queried the newest version was not told (`missed`), or has a trigger
  notification queued or a reload about to query. It needs `TriggerInv`, that the trigger is missing in the gap of a start only,
  and `SenderInv`, that the cache channel carries no message a listener would skip as its own. It holds until the first
  connection or reload fails. `LastStored`, for `TriggerKeepsCachesFresh`: unless the last query met another result in hand, its own
  is stored, or the only one in hand and about to be.
* *Locks.* `PoolInv`: each session has one place, and a pool holds at most one session, because one
  operation per process has at most one statement under way. `LockInv`: a lock is held once, by one
  open session, idle in the pool of the process whose operation runs or ends, checked out
  by its unlock, or an orphan. `RunInv`: without disruptions the lock of a running operation is on the
  idle session of its process. Two running operations then hold one lock on one session, so they are
  on one process, so they are one.
* *Refinement.* `LocksImplementRuns` takes each action under that invariant: `TryLock` admits or
  changes nothing, `Unlock` and `Reap` free keys that no running operation can hold on another session,
  `Finish` and `Exit` end operations, a counted fault is `Break`, and the rest stutters.

* *Elevation.* `CountInv`, for the types: ids handed out and requests that may still get one are no more than
  the visits. `LockInv`: up to the first fault the map names the superuser, or names nobody while the one that
  created the superuser inserts it, and what each request has read of the map is still so. `AloneInv`:
  an elevation that runs alone finds no fresh token in a cache and holds the newest one when it fills it.
* *Hand-off.* `HandoffInv`: a row holds the newest name of its key, for what is left of its time; a
  timer is due when the time of its name ends, so that it cannot remove a younger one that is alone; a name without the table has
  its timer still to come (`LateInv`), so that one read past its time has a timer that is late; a login between its
  statements has fetched the name it holds. `OnceInv`: up to the first fault, a row whose name was
  fetched has a login about to delete it. `WaitInv` says of a row, for each name that is alone under its key and
  unfetched, that it holds it.
* *Startup.* `ShimsInv`: what a process has dropped and not created since is still before it (`Before`), and a function is
  missing only if some process has dropped it, or as long as nothing is migrated and everybody has it before them. A process
  passes a function only with its CREATE; a lost race or a crash sends it back to the start, where all are before it.
* *Filters.* What has to be known of the state is only that the filter is read in order; the rest is about
  the operators. `Twins`: a token becomes one field in both dialects, or constants of the same value
  (`TokenShape`). `Match`: each value of the operand gives a row, in the condition and in the subquery,
  that both dialects take alike for empty, for known not to be empty, and for without fallback. A cast
  is refused or leaves the value as it is, except one to text (`ApplyGives`, `JoinGives`,
  `OrderedGive`); so `ConditionAgrees` compares two conditions on one pair of values, and they agree on what is true
  or the statement is refused. Where a column takes part they agree on what is false too, which the subquery asks for,
  and only columns have many values: `SelectedAgrees` lifts this to any set of them. `LikeSelectsNoMore` takes the same
  way with "at most as true as" (`Below`) in place of agreement, `MirrorsSelectTheSame` with the operands
  swapped. `NoRecordIsLost` needs that `=` and `!=` meet the same casts, so that neither is refused
  alone (`Complement`, `KnownJoin`).

Left to TLC: the liveness properties (`DeadRowsSwept`, `FaultsHeal`, `SuperusersGetMapped`,
`EveryoneServesOrAView`), which are out of the prover's reach.

## 5. Where code and comments differ

With a run that shows it:

* `bridge_late_start`: the README promises that the bridge synchronizes "SSE client subscriptions across
  instances" (`README.md:57-58`), but nothing reads `_realtime_clients`. A process that starts, or
  listens again, after a client has subscribed holds no remote client for it, and its events never
  reach the client (`pgpb.go:273`).
* `cron_lock_leak`: the unlock of a cron job may run on another session than its lock (`cron.go:32`).

Met while modelling, in the bridge and the cache:

* The auth of a client is lost between processes: `auth_collection_ref` and `auth_record_ref` are stored and sent, but
  never filled (`bridged_client.go:29`), and `NewRemoteBridgedClient` would not set them on the remote client either
  (`bridged_client.go:37-49`). Another process checks the rules of a collection for a guest, so that a signed-in
  subscriber gets no event of a collection that is not public unless its own process publishes it.
* A client that stops reading blocks the direct listener in `Send`; its Discard closes the channel and the blocked send
  panics, in a goroutine that recovers nothing (`pgpb.go:519`).
* `heartbeat` discards the error of `notifyShared` (`bridge.go:144`): the rows are gone, nobody is told, and no later cleanup
  finds the channel again.
* A statement of `createCacheInvalidationTriggers` that fails after the DROP leaves every process without the trigger
  (`pgpb.go:265`, "non-fatal") until another one starts.
* `handleSharedMessage` means to update the remote client it has (`pgpb.go:461`), but files remote
  clients under a fresh id (`bridged_client.go:39`): each `subscription_upsert` adds one more and
  `subscription_delete` removes none. A client may get an event once for each, and go on getting events of
  topics it has left. `NewestRemoteIsCurrent` and `NoMoreCopiesThanNotices` say what remains true.
* A subscribe request in flight stores the row of a client that has just disconnected
  (`bridged_client.go:124`), and a request overtaken by another after its snapshot may store and announce what the client has
  left behind (`bridged_client.go:96`). `ClosedLeavesNoRow`, `RowIsCurrent` and `NewestRemoteIsCurrent` name these
  races and exclude nothing else.
* With two reloads at once the older query may be stored last, and no notification is left to correct
  it (`bridge.go:349`, `pgpb.go:299`); hence `overlap` in `FreshWhenSettled`.
* The process that sweeps a dead channel skips its own `channel_offline` (`bridge.go:242`) and keeps
  the remote clients of the dead process. `BystandersForget` therefore excludes the sender.
* A write between a process' bootstrap and its trigger or LISTEN, or during a reconnect, reaches that
  process only with the next one (`bridge.go:361`, `bridge.go:268`). `NoLostInvalidation` allows for these writes (`missed`)
  and ends with the first lost connection.
* The trigger on `_settings` is never created: PocketBase keeps settings in `_params`, the statement
  fails and the error is logged (`bridge.go:366`).

In the locks: backup and restore take different keys (`backup_lock.go:23-24`), so they exclude each
other only within a process.

In the elevation:

* Of two first elevations "the second one is a no-op" (`admin_elevation.go:244`), but it fails before
  that, on the unique email of the superuser, and the request with it.
* A crash or a failed INSERT between Save and the mapping, any error of `FindRecordById` (taken for a
  deleted superuser, `admin_elevation.go:201`), and two elevations that both meet a stale mapping after
  a deletion leave a superuser without a mapping. Every later elevation then fails on the unique email.
  That is why `NotLockedOut` ends with the first fault.
* The cooldown keeps a token from being invalidated by the user's own next request
  (`admin_elevation.go:21`), but only in its process: an elevation in another one rotates the key of the cached token.

In the key-value store: `TempKV.Cleanup` has no caller outside the tests, so expired entries stay in
the table; the timer of the in-memory variant removes whatever is under its key by then, a newer name
too, and until it fires an expired name is returned; the name is cut after 150 bytes, within a character if need be.

At the start: `json_extract` is dropped without CASCADE on each start (`bootstrap.go:81`), so that once
a view depends on an overload no process can start any more, and each attempt leaves the overloads before it dropped, though `pgpb.go:83` speaks of functions that are
created or reused. The comment at `bootstrap.go:85` says it returns text, the function returns jsonb.

In the filters, PostgreSQL against SQLite:

* `COALESCE(column, '')` is not translated for two columns: NULL and `''` are different there.
* `NullFallbackEnforced` is not passed on to the multi-match subquery (`filter_postgres.go:576-626`). It selects the
  same records all the same: `SelectsAsSqlite` makes no exception for it, because a column has no
  use for that fallback in either dialect.
* JSON null and SQL NULL are two things; SQLite's extraction makes them one.
* LIKE tells capital letters from small ones.
* jsonb orders texts before numbers, SQLite numbers before texts; that `to_jsonb('2026'::text) < to_jsonb(2026)` "returns false"
  (`filter_postgres.go:313`) is not so. Texts are ordered by the collation of the database, which `connect.go:106`
  does not set.
* The server refuses some statements that SQLite answers: a text column against a number literal, a
  boolean literal compared with `>` (against the comment at `filter_postgres.go:308`), a multi-match JSON
  field against a text parameter, JSON against a number from a macro or in an ordering against a text
  parameter, and an ordering of JSON against a number as soon as one row holds another value.
  `SelectsAsSqlite` speaks of the statements that are accepted, `EqualityIsAccepted` of those that must be.

## 6. Not modelled, and the plan

* S3 from the environment: read once when a process starts, into the settings in memory; no state of
  its own and no step beside another.
* Error reporting, the example program: I/O and wiring.
* Rule parameters (`record_crud_postgres.go`): one pure conversion from a Go value to a parameter and its
  cast, whose cases are its tests.
* The overlays of `core`, `migrations` and `dbutils` rephrase SQL; what they do is PostgreSQL's. The
  base of the patches is not in the repository.
* Of modelled components: `genChannelID` (collisions are taken as impossible), the `_settings` path of the
  cache (its trigger does not exist), what the function shims compute, the options of the pools, and
  in the filters token functions, dates, `AfterBuild` and nested groups.

Next: an abstract specification of event delivery, each client a bag of the events it is owed, with
`BridgeDelivery` as its implementation.
