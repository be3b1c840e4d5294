------------------------------ MODULE NameHandoff ------------------------------
(***************************************************************************)
(* The name that Apple posts to the OAuth2 redirect, kept for the request  *)
(* that completes the login, which may run in another process.             *)
(*                                                                         *)
(* Sources: pgpb/tempkv.go, _overlay/apis/oauth2_apple_name_postgres.go.   *)
(* A name is the number of the redirect that stored it.  Time passes in    *)
(* ticks of a part of appleNameTTL, and is the server's for the table as   *)
(* for the timers of a process, which may fire late.                       *)
(***************************************************************************)
EXTENDS Naturals, FiniteSets

CONSTANTS
    Processes, Logins,  \* the requests that fetch a name
    Keys,
    WithoutKV,   \* processes that could not open the database of the TempKV
    TTL,         \* appleNameTTL in ticks
    MaxStores,   \* bound on the redirects
    MaxFaults    \* bound on crashes and failed statements

ASSUME HandoffAssumption ==
    /\ WithoutKV \subseteq Processes /\ "table" \notin Processes
    /\ TTL \in Nat \ {0} /\ MaxStores \in Nat /\ MaxFaults \in Nat

VARIABLES
    store,   \* what is under each key in the table and in each process' app.Store()
    timers,  \* time.AfterFunc of the processes without a TempKV
    login,   \* each request: where it is, its process, its key and what it has read
    stores, faults,
    history  \* history: the key and the age of each name stored, how often it was fetched

vars == <<store, timers, login, stores, faults, history>>

Nothing == [name |-> 0, left |-> 0]
Places == Processes \cup {"table"}

\* mutant: every process keeps its own names
Place_Local(p) == p
\* getTempKV
Place(p) == IF p \in WithoutKV THEN p ELSE "table"

Init ==
    /\ store = [s \in Places |-> [k \in Keys |-> Nothing]]
    /\ timers = {}
    /\ login = [l \in Logins |-> [at |-> "start", proc |-> "none", key |-> "none", name |-> 0]]
    /\ stores = 0 /\ faults = 0
    /\ history = [n \in 1..MaxStores |-> [key |-> "none", proc |-> "none", age |-> 0, fetched |-> 0]]

-----------------------------------------------------------------------------
(* storeAppleRedirectName; Set replaces what is there, and so its time.    *)

Redirect(p, k) ==
    /\ stores < MaxStores
    /\ stores' = stores + 1
    /\ store' = [store EXCEPT ![Place(p)][k] = [name |-> stores', left |-> TTL]]
    /\ timers' = IF p \in WithoutKV THEN timers \cup {[proc |-> p, key |-> k, name |-> stores', left |-> TTL]}
                 ELSE timers
    /\ history' = [history EXCEPT ![stores'].key = k, ![stores'].proc = p]
    /\ UNCHANGED <<login, faults>>

-----------------------------------------------------------------------------
(* retrieveAppleRedirectName: Get and Delete are two statements, and in    *)
(* app.Store() two calls.                                                  *)

\* mutant: "expires_at" is not looked at
Readable_Always(p, row) == row.name # 0
\* a row of the table stays when it has expired, but it is not read; in app.Store()
\* nobody looks at the time of a name
Readable(p, row) == row.name # 0 /\ (p \in WithoutKV \/ row.left > 0)

Get(l, p, k) ==
    /\ login[l].at = "start"
    /\ LET row == store[Place(p)][k] IN
         IF Readable(p, row)
         THEN /\ login' = [login EXCEPT ![l] = [at |-> "delete", proc |-> p, key |-> k, name |-> row.name]]
              /\ history' = [history EXCEPT ![row.name].fetched = @ + 1]
         ELSE /\ login' = [login EXCEPT ![l] = [at |-> "done", proc |-> p, key |-> k, name |-> 0]]
              /\ UNCHANGED history
    /\ UNCHANGED <<store, timers, stores, faults>>

\* mutant: what was read is left in place
Delete_Nothing(l) ==
    /\ login[l].at = "delete"
    /\ login' = [login EXCEPT ![l].at = "done"]
    /\ UNCHANGED <<store, timers, stores, faults, history>>
\* whatever is under the key by now
Delete(l) ==
    /\ login[l].at = "delete"
    /\ store' = [store EXCEPT ![Place(login[l].proc)][login[l].key] = Nothing]
    /\ login' = [login EXCEPT ![l].at = "done"]
    /\ UNCHANGED <<timers, stores, faults, history>>

-----------------------------------------------------------------------------
(* Time.  A timer removes what is under its key, whoever stored it, some   *)
(* time after it is due.                                                   *)

Due == {t \in timers : t.left = 0}

Fire(t) ==
    /\ t \in Due
    /\ timers' = timers \ {t}
    /\ store' = [store EXCEPT ![t.proc][t.key] = Nothing]
    /\ UNCHANGED <<login, stores, faults, history>>

\* mutant: the time left is not held at zero
Older_Below(row) == [row EXCEPT !.left = @ - 1]
Older(row) == IF row.left = 0 THEN row ELSE [row EXCEPT !.left = @ - 1]

Tick ==
    /\ \E n \in 1..stores : history[n].age < TTL
    /\ store' = [s \in Places |-> [k \in Keys |-> Older(store[s][k])]]
    /\ timers' = {Older(t) : t \in timers}
    /\ history' = [n \in DOMAIN history |->
         IF n <= stores /\ history[n].age < TTL THEN [history[n] EXCEPT !.age = @ + 1] ELSE history[n]]
    /\ UNCHANGED <<login, stores, faults>>

-----------------------------------------------------------------------------
(* Faults.                                                                 *)

Fault == faults < MaxFaults /\ faults' = faults + 1

\* the error of Get reads like a missing name; nobody looks at that of Delete
StatementFails(l, p, k) ==
    /\ Fault
    /\ p \notin WithoutKV
    /\ \/ login[l].at = "start"
          /\ login' = [login EXCEPT ![l] = [at |-> "done", proc |-> p, key |-> k, name |-> 0]]
       \/ login[l].at = "delete" /\ login[l].proc = p /\ login[l].key = k
          /\ login' = [login EXCEPT ![l].at = "done"]
    /\ UNCHANGED <<store, timers, stores, history>>

\* a process ends, with its store and timers, and between the two statements of a login
Crash(p) ==
    /\ Fault
    /\ store' = [store EXCEPT ![p] = [k \in Keys |-> Nothing]]
    /\ timers' = {t \in timers : t.proc # p}
    /\ login' = [l \in Logins |-> IF login[l].proc = p /\ login[l].at = "delete"
                                  THEN [login[l] EXCEPT !.at = "done"] ELSE login[l]]
    /\ UNCHANGED <<stores, history>>

Next ==
    \/ \E p \in Processes, k \in Keys : Redirect(p, k)
    \/ \E l \in Logins, p \in Processes, k \in Keys : Get(l, p, k) \/ StatementFails(l, p, k)
    \/ \E l \in Logins : Delete(l)
    \/ \E t \in timers : Fire(t)
    \/ \E p \in Processes : Crash(p)
    \/ Tick

Spec == Init /\ [][Next]_vars

-----------------------------------------------------------------------------
Rows == [name : 0..MaxStores, left : 0..TTL]

TypeOK ==
    /\ store \in [Places -> [Keys -> Rows]]
    /\ timers \subseteq [proc : WithoutKV, key : Keys, name : 1..MaxStores, left : 0..TTL]
    /\ login \in [Logins -> [at : {"start", "delete", "done"}, proc : Processes \cup {"none"},
                             key : Keys \cup {"none"}, name : 0..MaxStores]]
    /\ stores \in 0..MaxStores /\ faults \in 0..MaxFaults
    /\ history \in [1..MaxStores -> [key : Keys \cup {"none"}, proc : Processes \cup {"none"},
                                     age : 0..TTL, fetched : Nat]]

\* do two processes hand names to each other
Share(p, q) == p = q \/ {p, q} \cap WithoutKV = {}

\* the names stored under a key for p
Stored(p, k) == {n \in 1..stores : history[n].key = k /\ Share(history[n].proc, p)}

\* the logins between the two statements, with a key of p
Between(p, k) ==
    {l \in Logins : login[l].at = "delete" /\ login[l].key = k /\ Share(login[l].proc, p)}

\* A name that nobody has fetched waits for its login in every process that shares
\* the table, until its time is over: whatever crashes, fails or is stored under
\* other keys, as long as the key is used once (Set, Get and Delete of other logins).
NamesWait ==
    \A p \in Processes, k \in Keys : \A n \in Stored(p, k) :
        (/\ Stored(p, k) = {n} /\ history[n].fetched = 0 /\ history[n].age < TTL
         /\ p \in WithoutKV => faults = 0)
        => store[Place(p)][k].name = n /\ Readable(p, store[Place(p)][k])

\* A name is fetched once, unless the delete was lost or a second login reads the key
\* between the two statements of the first: a step that fetches a name again is taken
\* beside such a login (retrieveAppleRedirectName).
FetchedAgainOnlyInBetween ==
    [][\A n \in 1..MaxStores :
         history[n].fetched > 0 /\ history'[n].fetched > history[n].fetched /\ faults = 0
         => Between(history[n].proc, history[n].key) # {}]_vars

\* No login gets a name that a newer redirect has replaced; nor one that is older than
\* its time, though nothing calls Cleanup and expired rows stay, unless it comes from a
\* process without the table whose timer is late.
OnlyTheNewestIsFetched ==
    [][\A l \in Logins :
         login[l].at = "start" /\ login'[l].name # 0 =>
            LET n == login'[l].name IN
              /\ history[n].age < TTL \/ \E t \in Due : t.proc = login'[l].proc /\ t.name = n
              /\ \A m \in Stored(login'[l].proc, login'[l].key) : m <= n]_vars

=============================================================================
