--------------------------- MODULE CacheInvalidation ---------------------------
(***************************************************************************)
(* The collections cache of every process and what keeps it fresh: the     *)
(* trigger on _collections that notifies cache_invalidate, the             *)
(* collection_updated broadcast on the shared channel after an API         *)
(* request, and the two listener goroutines that reload the cache.         *)
(*                                                                         *)
(* Sources: pgpb/bridge.go and bindBridge and handleSharedMessage of       *)
(* pgpb/pgpb.go.  ReloadCachedCollections is PocketBase's: it queries the  *)
(* collections, then stores the result.  The content of _collections is    *)
(* the number of writes it has seen.                                       *)
(***************************************************************************)
EXTENDS Naturals, Sequences

CONSTANTS
    Instances,   \* processes
    Trigger,     \* the sender of a trigger's notification, no process
    Sql,         \* a writer that is no process: a migration, psql, another program
    Writers,     \* who writes: processes, in a collection request, and Sql
    MayStop,     \* the processes that may stop
    Faults,      \* "break": a listener loses its connection; "reload": a reload fails
    MaxFaults,   \* bound on the faults
    MaxWrites    \* bound on the writes

ASSUME CacheAssumption ==
    /\ Trigger \notin Instances /\ Sql \notin Instances
    /\ Writers \subseteq Instances \cup {Sql}
    /\ MayStop \subseteq Instances
    /\ Faults \subseteq {"break", "reload"}
    /\ MaxFaults \in Nat /\ MaxWrites \in Nat

VARIABLES
    db,         \* the version of _collections
    trigger,    \* is the trigger installed
    phase,      \* how far each process is
    listening,  \* per channel and process: the listener has a session
    inbox,      \* per channel and process: the senders of its notifications
    step,       \* per process and goroutine: how far its reload is
    copy,       \* per process and goroutine: the version its query returned
    cache,      \* per process: the version it works with
    seen,       \* per process (history): the newest version a reload queried
    overlap,    \* per process (history): its last query met another's result in hand
    untended,   \* (history) a start has ended without its CREATE TRIGGER, and none had one since
    missed,     \* per process (history): the last write was not announced to it, no reload since
    faults      \* faults that happened

listenVars == <<listening, inbox>>
reloadVars == <<step, copy, cache, seen, overlap>>
gapVars == <<untended, missed>>
vars == <<db, trigger, phase, listenVars, reloadVars, gapVars, faults>>

Channels == {"cache_invalidate", "pb_bridge_shared"}

\* a reload runs in one of the two listeners or in an API request
Goroutines == Channels \cup {"request"}

Starting == {"loaded", "dropped", "created"}

TypeOK ==
    /\ db \in Nat
    /\ trigger \in BOOLEAN
    /\ phase \in [Instances -> {"off", "serving", "dead"} \cup Starting]
    /\ listening \in [Instances -> [Channels -> BOOLEAN]]
    /\ inbox \in [Instances -> [Channels -> Seq(Instances \cup {Trigger})]]
    /\ step \in [Instances -> [Goroutines -> {"idle", "query", "store", "broadcast"}]]
    /\ copy \in [Instances -> [Goroutines -> Nat]]
    /\ cache \in [Instances -> Nat]
    /\ seen \in [Instances -> Nat]
    /\ overlap \in [Instances -> BOOLEAN]
    /\ untended \in BOOLEAN /\ missed \in [Instances -> BOOLEAN]
    /\ faults \in Nat

Init ==
    /\ db = 0
    /\ trigger = FALSE
    /\ phase = [i \in Instances |-> "off"]
    /\ listening = [i \in Instances |-> [ch \in Channels |-> FALSE]]
    /\ inbox = [i \in Instances |-> [ch \in Channels |-> <<>>]]
    /\ step = [i \in Instances |-> [g \in Goroutines |-> "idle"]]
    /\ copy = [i \in Instances |-> [g \in Goroutines |-> 0]]
    /\ cache = [i \in Instances |-> 0]
    /\ seen = [i \in Instances |-> 0]
    /\ overlap = [i \in Instances |-> FALSE]
    /\ untended = FALSE
    /\ missed = [i \in Instances |-> FALSE]
    /\ faults = 0

Fault(kind) == kind \in Faults /\ faults < MaxFaults /\ faults' = faults + 1

\* NOTIFY on ch: every session that listens gets it
Notify(ch, sender) ==
    inbox' = [i \in Instances |->
        IF listening[i][ch] THEN [inbox[i] EXCEPT ![ch] = Append(@, sender)] ELSE inbox[i]]

-----------------------------------------------------------------------------
(* Start of a process: bootstrap, triggers, listeners.                     *)

\* PocketBase's bootstrap loads the collections before the serve hook runs
Bootstrap(i) ==
    /\ phase[i] = "off"
    /\ phase' = [phase EXCEPT ![i] = "loaded"]
    /\ cache' = [cache EXCEPT ![i] = db]
    /\ seen' = [seen EXCEPT ![i] = db]
    /\ missed' = [missed EXCEPT ![i] = FALSE]
    /\ UNCHANGED <<db, trigger, listenVars, step, copy, overlap, untended, faults>>

\* createCacheInvalidationTriggers: each statement commits on its own
DropTrigger(i) ==
    /\ phase[i] = "loaded"
    /\ phase' = [phase EXCEPT ![i] = "dropped"]
    /\ trigger' = FALSE
    /\ UNCHANGED <<db, listenVars, reloadVars, gapVars, faults>>

\* CREATE TRIGGER; if another process was faster it is there all the same
CreateTrigger(i) ==
    /\ phase[i] = "dropped"
    /\ phase' = [phase EXCEPT ![i] = "created"]
    /\ trigger' = TRUE /\ untended' = FALSE
    /\ UNCHANGED <<db, listenVars, reloadVars, missed, faults>>

\* one of the statements fails, the function's too: that is logged, and the process goes
\* on to serve
TriggersFail(i) ==
    /\ phase[i] \in {"loaded", "dropped"}
    /\ phase' = [phase EXCEPT ![i] = "created"]
    /\ untended' = TRUE
    /\ UNCHANGED <<db, trigger, listenVars, reloadVars, missed, faults>>

\* listenOnce, the first time or after a lost connection
Listen(i, ch) ==
    /\ phase[i] \in {"created", "serving"} /\ ~listening[i][ch]
    /\ listening' = [listening EXCEPT ![i][ch] = TRUE]
    /\ UNCHANGED <<db, trigger, phase, inbox, reloadVars, gapVars, faults>>

\* the hook waits for the listeners
Serve(i) ==
    /\ phase[i] = "created" /\ \A ch \in Channels : listening[i][ch]
    /\ phase' = [phase EXCEPT ![i] = "serving"]
    /\ UNCHANGED <<db, trigger, listenVars, reloadVars, gapVars, faults>>

\* the connection is lost, and with it the notifications not yet delivered
BreakListener(i, ch) ==
    /\ phase[i] = "serving" /\ listening[i][ch] /\ Fault("break")
    /\ listening' = [listening EXCEPT ![i][ch] = FALSE]
    /\ inbox' = [inbox EXCEPT ![i][ch] = <<>>]
    /\ UNCHANGED <<db, trigger, phase, reloadVars, gapVars>>

\* the process ends, with all it has in memory
Stop(i) ==
    /\ i \in MayStop
    /\ phase[i] \in {"serving"} \cup Starting
    /\ phase' = [phase EXCEPT ![i] = "dead"]
    /\ untended' = (untended \/ phase[i] \in {"loaded", "dropped"})
    /\ listening' = [listening EXCEPT ![i] = [ch \in Channels |-> FALSE]]
    /\ inbox' = [inbox EXCEPT ![i] = [ch \in Channels |-> <<>>]]
    /\ step' = [step EXCEPT ![i] = [g \in Goroutines |-> "idle"]]
    /\ copy' = [copy EXCEPT ![i] = [g \in Goroutines |-> 0]]
    /\ cache' = [cache EXCEPT ![i] = 0]
    /\ seen' = [seen EXCEPT ![i] = 0]
    /\ overlap' = [overlap EXCEPT ![i] = FALSE]
    /\ missed' = [missed EXCEPT ![i] = FALSE]
    /\ UNCHANGED <<db, trigger, faults>>

-----------------------------------------------------------------------------
(* Writes.                                                                 *)

\* A start is between its DROP and its CREATE, or has ended before it, or none has come
\* to it yet
Gap ==
    \/ untended
    \/ \E i \in Instances : phase[i] = "dropped"
    \/ \A i \in Instances : phase[i] \in {"off", "loaded"}

\* the write of by is announced to all but those that do not listen yet, or to none in
\* the gap; by reloads without it
Announce(by) ==
    missed' = [i \in Instances |->
        /\ i # by /\ phase[i] \notin {"off", "dead"}
        /\ ~listening[i]["cache_invalidate"] \/ (~trigger /\ Gap)]

\* mutant: the trigger covers INSERT only (the first write)
Commit_NoUpdate(by) ==
    /\ db < MaxWrites /\ db' = db + 1
    /\ IF trigger /\ db = 0 THEN Notify("cache_invalidate", Trigger) ELSE UNCHANGED inbox
    /\ Announce(by)
    /\ UNCHANGED <<trigger, phase, listening, copy, cache, seen, overlap, untended, faults>>

\* A statement on _collections commits; the AFTER ... FOR EACH STATEMENT trigger
\* notifies with it
Commit(by) ==
    /\ db < MaxWrites /\ db' = db + 1
    /\ IF trigger THEN Notify("cache_invalidate", Trigger) ELSE UNCHANGED inbox
    /\ Announce(by)
    /\ UNCHANGED <<trigger, phase, listening, copy, cache, seen, overlap, untended, faults>>

\* a statement from outside the processes
WriteSql == Sql \in Writers /\ Commit(Sql) /\ UNCHANGED step

\* a collection request saves; PocketBase then reloads the cache of this process
WriteApi(i) ==
    /\ i \in Writers /\ phase[i] = "serving" /\ step[i]["request"] = "idle"
    /\ Commit(i)
    /\ step' = [step EXCEPT ![i]["request"] = "query"]

\* broadcastCollectionChanged, last in the request; an error is only logged
Broadcast(i) ==
    /\ step[i]["request"] = "broadcast"
    /\ step' = [step EXCEPT ![i]["request"] = "idle"]
    /\ Notify("pb_bridge_shared", i) \/ UNCHANGED inbox
    /\ UNCHANGED <<db, trigger, phase, listening, copy, cache, seen, overlap, gapVars, faults>>

-----------------------------------------------------------------------------
(* Reloads.                                                                *)

\* mutant: a listener that has reloaded once ignores what follows
TakeNotification_Debounced(i, ch) ==
    /\ inbox[i][ch] # <<>> /\ step[i][ch] = "idle"
    /\ inbox' = [inbox EXCEPT ![i][ch] = Tail(@)]
    /\ step' = [step EXCEPT ![i][ch] = IF cache[i] > 0 THEN "idle" ELSE "query"]
    /\ UNCHANGED <<db, trigger, phase, listening, copy, cache, seen, overlap, gapVars, faults>>

\* A listener takes a notification; on the shared channel it skips its own
TakeNotification(i, ch) ==
    /\ inbox[i][ch] # <<>> /\ step[i][ch] = "idle"
    /\ inbox' = [inbox EXCEPT ![i][ch] = Tail(@)]
    /\ step' = [step EXCEPT ![i][ch] = IF Head(inbox[i][ch]) = i THEN "idle" ELSE "query"]
    /\ UNCHANGED <<db, trigger, phase, listening, copy, cache, seen, overlap, gapVars, faults>>

\* mutant: the request is done with its reload
Over_Done(g) == IF g = "request" THEN "done" ELSE "idle"

\* a reload that is over leaves the request its broadcast
Over(g) == IF g = "request" THEN "broadcast" ELSE "idle"

\* ReloadCachedCollections: the query
Query(i, g) ==
    /\ step[i][g] = "query"
    /\ step' = [step EXCEPT ![i][g] = "store"]
    /\ copy' = [copy EXCEPT ![i][g] = db]
    /\ seen' = [seen EXCEPT ![i] = db]
    /\ missed' = [missed EXCEPT ![i] = FALSE]
    /\ overlap' = [overlap EXCEPT ![i] = \E h \in Goroutines : step[i][h] = "store"]
    /\ UNCHANGED <<db, trigger, phase, listenVars, cache, untended, faults>>

\* ReloadCachedCollections: the store
Store(i, g) ==
    /\ step[i][g] = "store"
    /\ step' = [step EXCEPT ![i][g] = Over(g)]
    /\ cache' = [cache EXCEPT ![i] = copy[i][g]]
    /\ copy' = [copy EXCEPT ![i][g] = 0]
    /\ UNCHANGED <<db, trigger, phase, listenVars, seen, overlap, gapVars, faults>>

\* mutant: the listener goroutine returns when a reload fails
ReloadFails_GivesUp(i, g) ==
    /\ step[i][g] = "query" /\ Fault("reload")
    /\ step' = [step EXCEPT ![i][g] = "gone"]
    /\ UNCHANGED <<db, trigger, phase, listenVars, copy, cache, seen, overlap, gapVars>>

\* the query returns an error; the handler logs it and keeps the cache it has
ReloadFails(i, g) ==
    /\ step[i][g] = "query" /\ Fault("reload")
    /\ step' = [step EXCEPT ![i][g] = Over(g)]
    /\ UNCHANGED <<db, trigger, phase, listenVars, copy, cache, seen, overlap, gapVars>>

-----------------------------------------------------------------------------
Process(i) ==
    \/ Bootstrap(i) \/ DropTrigger(i) \/ CreateTrigger(i) \/ TriggersFail(i)
    \/ Serve(i) \/ Stop(i)
    \/ WriteApi(i) \/ Broadcast(i)
    \/ \E ch \in Channels : Listen(i, ch) \/ BreakListener(i, ch) \/ TakeNotification(i, ch)
    \/ \E g \in Goroutines : Query(i, g) \/ Store(i, g) \/ ReloadFails(i, g)

Next == WriteSql \/ \E i \in Instances : Process(i)

Spec == Init /\ [][Next]_vars

\* goroutines run on; nobody has to write, start or stop
Fairness ==
    \A i \in Instances :
        /\ \A ch \in Channels : WF_vars(Listen(i, ch)) /\ WF_vars(TakeNotification(i, ch))
        /\ \A g \in Goroutines : WF_vars(Query(i, g)) /\ WF_vars(Store(i, g))
        /\ WF_vars(Broadcast(i))

FairSpec == Spec /\ Fairness

-----------------------------------------------------------------------------
(* Properties.                                                             *)

\* process i has handled every notification and finished every reload
Settled(i) ==
    /\ \A ch \in Channels : inbox[i][ch] = <<>> /\ listening[i][ch]
    /\ \A g \in Goroutines : step[i][g] = "idle"

\* As long as no connection is lost and no reload fails, an invalidation is lost in two
\* gaps only: for a process that does not listen yet, and between the DROP and the CREATE of
\* the trigger of a process that starts (or fails or ends there).  Otherwise, once a serving
\* process has settled, one of its reloads has queried the newest collections, whichever
\* path wrote them.
NoLostInvalidation ==
    faults = 0 =>
        \A i \in Instances :
            phase[i] = "serving" /\ Settled(i) => seen[i] = db \/ missed[i]

\* Then it also works with them, unless its last query was made while another goroutine
\* of it held an older result: the older of the two may be stored last.
FreshWhenSettled ==
    faults = 0 =>
        \A i \in Instances :
            phase[i] = "serving" /\ Settled(i) => cache[i] = db \/ missed[i] \/ overlap[i]

\* Faults heal: a cache left stale by a lost connection or a failed reload is
\* repaired by the next notification that reaches the process, because the
\* listener outlives both
FaultsHeal ==
    \A i \in Instances \ MayStop :
        (/\ phase[i] = "serving" /\ db = MaxWrites /\ faults = MaxFaults
         /\ inbox[i]["cache_invalidate"] # <<>>)
            ~> cache[i] = MaxWrites
=============================================================================
