-------------------------------- MODULE Startup --------------------------------
(***************************************************************************)
(* Processes start on one PostgreSQL server: databases and function shims, *)
(* the migrations, and the hooks of OnServe.                               *)
(*                                                                         *)
(* Sources: pgpb/bootstrap.go, pgpb/connect.go, pgpb/pgpb.go.              *)
(* Of the shims only the overloads of json_extract are kept: the others    *)
(* are replaced in place, these are dropped first, one by one, and then    *)
(* created one by one.  Every statement commits by itself.                 *)
(* Where two processes run the same CREATE at the same time, or one drops  *)
(* the function that the other replaces, the server lets one through and   *)
(* may refuse the other ("tuple concurrently updated", a duplicate in a    *)
(* catalog).  A process that fails ends, and whoever runs it starts it     *)
(* again.                                                                  *)
(***************************************************************************)
EXTENDS Naturals, FiniteSets

CONSTANTS
    Processes,
    Overloads, \* how many functions json_extract there are, by the type of their argument
    Views,     \* may a view collection use json_extract
    MaxFaults  \* bound on crashes

ASSUME StartupAssumption == Overloads \in Nat \ {0} /\ Views \in BOOLEAN /\ MaxFaults \in Nat

VARIABLES
    at,        \* where each process is in its start
    ready,     \* the listeners of its bridge that have called onReady
    created,   \* the databases there are
    shims,     \* the overloads of json_extract there are: <<database, overload>>
    migrated,  \* have the initial migrations run
    view,      \* the overload that a view of the data database depends on, or 0
    faults,
    dropped    \* history: what each process has dropped and not created since

vars == <<at, ready, created, shims, migrated, view, faults, dropped>>

Databases == {"data", "aux"}
Listeners == {"shared", "direct", "cache"}

\* boot: BootstrapFunctions is at work on the database, and not yet DBConnect
\* n: the overload that a DROP or a CREATE is about
Step(step, db, boot) == [step |-> step, db |-> db, boot |-> boot, n |-> 1]
Down == Step("down", "data", TRUE)

Init ==
    /\ at = [p \in Processes |-> Down]
    /\ ready = [p \in Processes |-> {}]
    /\ created = {} /\ shims = {}
    /\ migrated = FALSE /\ view = 0 /\ faults = 0
    /\ dropped = [p \in Processes |-> {}]

Is(p, step) == at[p].step = step
GoTo(p, step) == at' = [at EXCEPT ![p].step = step]

\* the function that a DROP or a CREATE of p is about
Shim(p) == <<at[p].db, at[p].n>>

\* p and q run the same CREATE, or one drops the function that the other replaces: two
\* DROPs of it wait for each other, and the second finds it gone
Conflict(p, q) ==
    \/ at[q] = at[p] /\ ~Is(p, "drop")
    \/ /\ {at[p].step, at[q].step} = {"drop", "define"}
       /\ Shim(p) = Shim(q) /\ Shim(p) \in shims
Racing(p) == {q \in Processes \ {p} : Conflict(p, q)}

\* p goes on, and some that it conflicts with fail
Wins(p, next) ==
    \E losers \in SUBSET Racing(p) :
        at' = [q \in Processes |-> IF q = p THEN next ELSE IF q \in losers THEN Down ELSE at[q]]

-----------------------------------------------------------------------------
(* BootstrapFunctions and PostgresDBConnect.                               *)

Start(p) ==
    /\ Is(p, "down")
    /\ at' = [at EXCEPT ![p] = Step("ping", "data", TRUE)]
    /\ ready' = [ready EXCEPT ![p] = {}]
    /\ UNCHANGED <<created, shims, migrated, view, faults, dropped>>

\* the database is open: now the shims, or what comes after DBConnect
Opened(p) ==
    CASE at[p].boot -> Step("drop", at[p].db, TRUE)
      [] ~at[p].boot /\ at[p].db = "data" -> Step("ping", "aux", FALSE)
      [] OTHER -> Step("migrate", "data", FALSE)

\* its shims are done
Booted(p) == IF at[p].db = "data" THEN Step("ping", "aux", TRUE) ELSE Step("ping", "data", FALSE)

\* mutant: sql.Open is taken for a connection
Ping_Blind(p) ==
    /\ Is(p, "ping")
    /\ at' = [at EXCEPT ![p] = Opened(p)]
    /\ UNCHANGED <<ready, created, shims, migrated, view, faults, dropped>>
Ping(p) ==
    /\ Is(p, "ping")
    /\ IF at[p].db \in created THEN at' = [at EXCEPT ![p] = Opened(p)] ELSE GoTo(p, "create")
    /\ UNCHANGED <<ready, created, shims, migrated, view, faults, dropped>>

\* mutant: whoever finds the database created by another tries again
CreateDatabase_Again(p) ==
    /\ Is(p, "create")
    /\ at[p].db \notin created
    /\ created' = created \cup {at[p].db}
    /\ at' = [at EXCEPT ![p] = Opened(p)]
    /\ UNCHANGED <<ready, shims, migrated, view, faults, dropped>>
\* createDatabase: CREATE DATABASE fails if it exists by now, and with it the start
CreateDatabase(p) ==
    /\ Is(p, "create")
    /\ IF at[p].db \in created
       THEN at' = [at EXCEPT ![p] = Down] /\ UNCHANGED created
       ELSE created' = created \cup {at[p].db} /\ at' = [at EXCEPT ![p] = Opened(p)]
    /\ UNCHANGED <<ready, shims, migrated, view, faults, dropped>>

\* mutant: the drops stand at the end of the list
DropShim_Last(p) ==
    /\ Is(p, "drop")
    /\ shims' = shims \ {Shim(p)} /\ dropped' = [dropped EXCEPT ![p] = @ \cup {Shim(p)}]
    /\ at' = [at EXCEPT ![p] = IF @.n < Overloads THEN [@ EXCEPT !.n = @ + 1] ELSE Booted(p)]
    /\ UNCHANGED <<ready, created, migrated, view, faults>>
\* DROP FUNCTION IF EXISTS json_extract, which fails while a view depends on it: what
\* has been dropped before it stays dropped
DropShim(p) ==
    /\ Is(p, "drop")
    /\ IF at[p].db = "data" /\ at[p].n = view
       THEN at' = [at EXCEPT ![p] = Down] /\ UNCHANGED <<shims, dropped>>
       ELSE /\ Wins(p, IF at[p].n < Overloads THEN [at[p] EXCEPT !.n = @ + 1]
                       ELSE Step("define", at[p].db, TRUE))
            /\ shims' = shims \ {Shim(p)}
            /\ dropped' = [dropped EXCEPT ![p] = @ \cup {Shim(p)}]
    /\ UNCHANGED <<ready, created, migrated, view, faults>>

\* CREATE OR REPLACE FUNCTION json_extract
DefineShim(p) ==
    /\ Is(p, "define")
    /\ Wins(p, IF at[p].n < Overloads THEN [at[p] EXCEPT !.n = @ + 1] ELSE Booted(p))
    /\ shims' = shims \cup {Shim(p)}
    /\ dropped' = [dropped EXCEPT ![p] = @ \ {Shim(p)}]
    /\ UNCHANGED <<ready, created, migrated, view, faults>>

-----------------------------------------------------------------------------
(* The migrations, and bindBridge's OnServe hook.                          *)

\* the migrations create their tables without IF NOT EXISTS: of those who find none
\* applied one gets through
Migrate(p) ==
    /\ Is(p, "migrate")
    /\ IF migrated THEN GoTo(p, "tables") ELSE Wins(p, [at[p] EXCEPT !.step = "tables"])
    /\ migrated' = TRUE
    /\ UNCHANGED <<ready, created, shims, view, faults, dropped>>

\* createTables: IF NOT EXISTS too may fail beside another
CreateTables(p) ==
    /\ Is(p, "tables")
    /\ Wins(p, [at[p] EXCEPT !.step = "listen"])
    /\ UNCHANGED <<ready, created, shims, migrated, view, faults, dropped>>

Listen(p, l) ==
    /\ Is(p, "listen") /\ l \notin ready[p]
    /\ ready' = [ready EXCEPT ![p] = @ \cup {l}]
    /\ UNCHANGED <<at, created, shims, migrated, view, faults, dropped>>

Serve(p) ==
    /\ Is(p, "listen") /\ ready[p] = Listeners
    /\ GoTo(p, "serving")
    /\ UNCHANGED <<ready, created, shims, migrated, view, faults, dropped>>

-----------------------------------------------------------------------------
(* Meanwhile.                                                              *)

\* a view collection with json_extract in its query is saved
CreateView(p) ==
    /\ Views /\ view = 0
    /\ Is(p, "serving")
    /\ \E n \in 1..Overloads : <<"data", n>> \in shims /\ view' = n
    /\ UNCHANGED <<at, ready, created, shims, migrated, faults, dropped>>

Crash(p) ==
    /\ faults < MaxFaults /\ faults' = faults + 1
    /\ ~Is(p, "down") /\ at' = [at EXCEPT ![p] = Down]
    /\ ready' = [ready EXCEPT ![p] = {}]
    /\ UNCHANGED <<created, shims, migrated, view, dropped>>

Advance(p) ==
    \/ Start(p) \/ Ping(p) \/ CreateDatabase(p) \/ DropShim(p) \/ DefineShim(p)
    \/ Migrate(p) \/ CreateTables(p) \/ (\E l \in Listeners : Listen(p, l)) \/ Serve(p)

Next == \E p \in Processes : Advance(p) \/ CreateView(p) \/ Crash(p)

Spec == Init /\ [][Next]_vars

\* a process is started again, and none of its statements hangs
Fairness == \A p \in Processes : WF_vars(Advance(p))
FairSpec == Spec /\ Fairness

-----------------------------------------------------------------------------
Steps == {"down", "ping", "create", "drop", "define", "migrate", "tables", "listen", "serving"}

Functions == Databases \X (1..Overloads)

TypeOK ==
    /\ at \in [Processes -> [step : Steps, db : Databases, boot : BOOLEAN, n : 1..Overloads]]
    /\ ready \in [Processes -> SUBSET Listeners]
    /\ created \subseteq Databases /\ shims \subseteq created \X (1..Overloads)
    /\ migrated \in BOOLEAN /\ view \in 0..Overloads /\ faults \in 0..MaxFaults
    /\ dropped \in [Processes -> SUBSET Functions]

\* a process that is there has its CREATE of the function still before it in its present
\* start, or, if it has ended, in its next
Before(place, f) ==
    /\ place.boot
    /\ \/ place.db = f[1] /\ (place.step = "define" => place.n <= f[2])
       \/ place.db = "data" /\ f[1] = "aux"

\* Once the system is migrated a function json_extract is missing only if a process has
\* dropped it and not got to its CREATE: it is between the two, or has ended there, by a
\* crash, a race or a view on a later overload, and not come back.  No start that gets
\* through, whatever races it has won and whoever has ended beside it, leaves the others
\* without one (PostgresFunctionShims).
FunctionsComeBack ==
    migrated => \A f \in Functions \ shims : \E p \in Processes : f \in dropped[p] /\ Before(at[p], f)

\* Started again often enough, every process serves in the end, whatever races it has
\* lost and whoever has crashed beside it, unless a view uses json_extract.
EveryoneServesOrAView == (<>(view # 0)) \/ \A p \in Processes : <>[]Is(p, "serving")

=============================================================================
