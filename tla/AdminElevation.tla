----------------------------- MODULE AdminElevation -----------------------------
(***************************************************************************)
(* A user of the allowlist opens /_/ and becomes a superuser.  Source:     *)
(* pgpb/admin_elevation.go.                                                *)
(*                                                                         *)
(* One user: nothing is shared between two of them but the tables.  Each   *)
(* request runs the middleware in one process; its statements on the       *)
(* superusers and on pgpb_admin_map are steps of their own.  A superuser   *)
(* is its id and the token key that its tokens are signed with, which is   *)
(* renewed with the password.  All superusers of the user have the same    *)
(* email, and the collection has a unique index on it, so that there is at *)
(* most one at a time.  Requests that fall through (no token, the cookie,  *)
(* a superuser already) or are forbidden change nothing and are no action. *)
(***************************************************************************)
EXTENDS Naturals

CONSTANTS
    Processes, Requests,
    Faults,     \* a subset of {"crash", "delete", "statement"}
    MaxVisits,  \* bound on the requests made
    MaxFaults   \* bound on the faults

ASSUME ElevationAssumption ==
    /\ MaxVisits \in Nat /\ MaxFaults \in Nat
    /\ Faults \subseteq {"crash", "delete", "statement"}

VARIABLES
    superuser,  \* the record with the user's internal email
    map,        \* superuser_id in the user's row of pgpb_admin_map, 0 without a row
    made,       \* ids and token keys handed out so far
    cache,      \* each process' cachedElevation
    req,        \* each request: where it is, in which process, and what it holds
    visits, faults,
    alone       \* history: no elevation ran beside another, or beside a cached token
                \* of another process

vars == <<superuser, map, made, cache, req, visits, faults, alone>>

Nobody == [id |-> 0, key |-> 0]
Uncached == [token |-> Nobody, fresh |-> FALSE]
Idle(at) == [at |-> at, proc |-> "none", id |-> 0, token |-> Nobody]

Init ==
    /\ superuser = Nobody /\ map = 0 /\ made = 0
    /\ cache = [p \in Processes |-> Uncached]
    /\ req = [r \in Requests |-> Idle("start")]
    /\ visits = 0 /\ faults = 0 /\ alone = TRUE

Ended(r) == req[r].at \in {"start", "served", "failed", "gone"}
Valid(token) == token # Nobody /\ token = superuser

GoTo(r, at) == req' = [req EXCEPT ![r].at = at]

-----------------------------------------------------------------------------
(* handleElevation.                                                        *)

\* mutant: the cooldown is not checked
Visit_NoCooldown(r, p) ==
    /\ Ended(r) /\ visits < MaxVisits
    /\ visits' = visits + 1
    /\ req' = [req EXCEPT ![r] = [Idle("query") EXCEPT !.proc = p]]
    /\ alone' = (alone /\ (\A s \in Requests \ {r} : Ended(s))
                       /\ (\A q \in Processes \ {p} : ~cache[q].fresh))
    /\ UNCHANGED <<superuser, map, made, cache, faults>>

\* the request passes the middleware; within the cooldown the cached token is served
Visit(r, p) ==
    /\ Ended(r) /\ visits < MaxVisits
    /\ visits' = visits + 1
    /\ IF cache[p].fresh
       THEN /\ req' = [req EXCEPT ![r] = [Idle("served") EXCEPT !.token = cache[p].token]]
            /\ UNCHANGED alone
       ELSE /\ req' = [req EXCEPT ![r] = [Idle("query") EXCEPT !.proc = p]]
            /\ alone' = (alone /\ (\A s \in Requests \ {r} : Ended(s))
                               /\ (\A q \in Processes \ {p} : ~cache[q].fresh))
    /\ UNCHANGED <<superuser, map, made, cache, faults>>

\* mutant: expiresAt is forgotten
Serve_NoExpiry(r) ==
    /\ req[r].at = "serve"
    /\ cache' = [cache EXCEPT ![req[r].proc] = [token |-> req[r].token]]
    /\ req' = [req EXCEPT ![r] = [Idle("served") EXCEPT !.token = req[r].token]]
    /\ UNCHANGED <<superuser, map, made, visits, faults, alone>>

\* the new token is cached, and served
Serve(r) ==
    /\ req[r].at = "serve"
    /\ cache' = [cache EXCEPT ![req[r].proc] = [token |-> req[r].token, fresh |-> TRUE]]
    /\ req' = [req EXCEPT ![r] = [Idle("served") EXCEPT !.token = req[r].token]]
    /\ UNCHANGED <<superuser, map, made, visits, faults, alone>>

\* elevationCooldown has passed
CoolDown(p) ==
    /\ cache[p].fresh
    /\ cache' = [cache EXCEPT ![p] = Uncached]
    /\ UNCHANGED <<superuser, map, made, req, visits, faults, alone>>

-----------------------------------------------------------------------------
(* elevateToSuperuser and createMappedSuperuser.                           *)

Query(r) ==
    /\ req[r].at = "query"
    /\ req' = [req EXCEPT ![r].at = IF map = 0 THEN "create" ELSE "find", ![r].id = map]
    /\ UNCHANGED <<superuser, map, made, cache, visits, faults, alone>>

Find(r) ==
    /\ req[r].at = "find"
    /\ GoTo(r, IF superuser.id = req[r].id THEN "rotate" ELSE "unmap")
    /\ UNCHANGED <<superuser, map, made, cache, visits, faults, alone>>

\* the password is saved, and with it a new token key; the UPDATE of
\* last_elevated_at leaves what the row says alone.  If the record is gone by now
\* the save may fail or write nothing.
Rotate(r) ==
    /\ req[r].at = "rotate"
    /\ made' = made + 1
    /\ LET token == [id |-> req[r].id, key |-> made'] IN
         IF superuser.id = req[r].id
         THEN /\ superuser' = token
              /\ req' = [req EXCEPT ![r].at = "serve", ![r].token = token]
         ELSE /\ \/ GoTo(r, "failed")
                 \/ req' = [req EXCEPT ![r].at = "serve", ![r].token = token]
              /\ UNCHANGED superuser
    /\ UNCHANGED <<map, cache, visits, faults, alone>>

\* "Stale mapping - superuser was deleted."
Unmap(r) ==
    /\ req[r].at = "unmap"
    /\ map' = 0
    /\ GoTo(r, "create")
    /\ UNCHANGED <<superuser, made, cache, visits, faults, alone>>

\* mutant: no unique index
Create_Replaces(r) ==
    /\ req[r].at = "create"
    /\ made' = made + 1
    /\ superuser' = [id |-> made', key |-> made']
    /\ req' = [req EXCEPT ![r].at = "insert", ![r].token = superuser']
    /\ UNCHANGED <<map, cache, visits, faults, alone>>

\* the save of a second superuser of the user fails
Create(r) ==
    /\ req[r].at = "create"
    /\ IF superuser = Nobody
       THEN /\ made' = made + 1
            /\ superuser' = [id |-> made', key |-> made']
            /\ req' = [req EXCEPT ![r].at = "insert", ![r].token = superuser']
       ELSE /\ GoTo(r, "failed")
            /\ UNCHANGED <<made, superuser>>
    /\ UNCHANGED <<map, cache, visits, faults, alone>>

\* mutant: the mapping is forgotten
Insert_Nothing(r) ==
    /\ req[r].at = "insert"
    /\ GoTo(r, "serve")
    /\ UNCHANGED <<superuser, map, made, cache, visits, faults, alone>>

\* ON CONFLICT DO NOTHING, then the token
Insert(r) ==
    /\ req[r].at = "insert"
    /\ map' = IF map = 0 THEN req[r].token.id ELSE map
    /\ GoTo(r, "serve")
    /\ UNCHANGED <<superuser, made, cache, visits, faults, alone>>

-----------------------------------------------------------------------------
(* What goes wrong.                                                        *)

Fault(kind) == kind \in Faults /\ faults < MaxFaults /\ faults' = faults + 1

\* a statement fails: with the one of Unmap nobody looks, with others the request ends
StatementFails(r) ==
    /\ Fault("statement")
    /\ req[r].at \in {"query", "find", "rotate", "unmap", "create", "insert"}
    /\ GoTo(r, CASE req[r].at = "unmap" -> "create"
                 [] req[r].at = "find" -> "unmap"
                 [] OTHER -> "failed")
    /\ UNCHANGED <<superuser, map, made, cache, visits, alone>>

\* a process ends, with its cache and the requests it is working on
Crash(p) ==
    /\ Fault("crash")
    /\ cache' = [cache EXCEPT ![p] = Uncached]
    /\ req' = [r \in Requests |-> IF req[r].proc = p THEN Idle("gone") ELSE req[r]]
    /\ UNCHANGED <<superuser, map, made, visits, alone>>

\* another superuser deletes this one
Delete ==
    /\ Fault("delete")
    /\ superuser # Nobody /\ superuser' = Nobody
    /\ UNCHANGED <<map, made, cache, req, visits, alone>>

Elevate(r) ==
    Query(r) \/ Find(r) \/ Rotate(r) \/ Unmap(r) \/ Create(r) \/ Insert(r) \/ Serve(r)

Next ==
    \/ \E r \in Requests, p \in Processes : Visit(r, p)
    \/ \E r \in Requests : Elevate(r) \/ StatementFails(r)
    \/ \E p \in Processes : CoolDown(p) \/ Crash(p)
    \/ Delete

Spec == Init /\ [][Next]_vars /\ \A r \in Requests : WF_vars(Elevate(r))

-----------------------------------------------------------------------------
Stamps == 0..MaxVisits
Tokens == [id : Stamps, key : Stamps]

TypeOK ==
    /\ superuser \in Tokens /\ map \in Stamps /\ made \in Stamps
    /\ visits \in 0..MaxVisits /\ faults \in 0..MaxFaults /\ alone \in BOOLEAN
    /\ cache \in [Processes -> [token : Tokens, fresh : BOOLEAN]]
    /\ req \in [Requests ->
         [at : {"start", "query", "find", "rotate", "unmap", "create", "insert",
                "serve", "served", "failed", "gone"},
          proc : Processes \cup {"none"}, id : Stamps, token : Tokens]]

\* the map names the superuser there is
Mapped == map = superuser.id

\* As long as nothing fails, the user is never locked out: whatever requests race, a
\* superuser whom the map does not name is one whose mapping is being inserted
\* (a later elevation would try to create it again, and fail on the unique email).
NotLockedOut ==
    faults = 0 => \/ Mapped
                  \/ \E r \in Requests : req[r].at = "insert" /\ req[r].token.id = superuser.id

\* A cached token is good until the cooldown ends, unless an elevation ran beside
\* another or in a second process, or the superuser was deleted: those renew the
\* key behind the cache's back (handleElevation, elevationCooldown).
CachedTokensAreGood ==
    alone /\ faults = 0 => \A p \in Processes : cache[p].fresh => Valid(cache[p].token)

\* Without faults a superuser that has been created gets its mapping, after which
\* every elevation succeeds (createMappedSuperuser).
SuperusersGetMapped == superuser # Nobody ~> (Mapped \/ faults > 0)

=============================================================================
