------------------------ MODULE AdminElevation_proofs ------------------------
(***************************************************************************)
(* TLAPS proofs about admin elevation, for any processes, requests, visits *)
(* and faults.                                                             *)
(***************************************************************************)
EXTENDS AdminElevation, FiniteSetTheorems, TLAPS

Ats == {"start", "query", "find", "rotate", "unmap", "create", "insert",
        "serve", "served", "failed", "gone"}
Request == [at : Ats, proc : Processes \cup {"none"}, id : Stamps, token : Tokens]

\* The requests that may still hand out an id or a token key
Pending == {r \in Requests : req[r].at \in {"query", "find", "rotate", "unmap", "create"}}

\* Every visit hands out one at most
CountInv == IsFiniteSet(Pending) /\ made + Cardinality(Pending) <= visits

TypeInv == TypeOK /\ CountInv

\* As long as nothing fails, what a request has read about the mapping stays true
Undisturbed(r) ==
    /\ req[r].at # "unmap"
    /\ req[r].at \in {"find", "rotate"} => req[r].id = map /\ map # 0 /\ superuser.id = req[r].id
    /\ req[r].at = "insert" => req[r].token.id = superuser.id /\ superuser.id # 0

Inserting == \E r \in Requests : req[r].at = "insert" /\ req[r].token.id = superuser.id

LockInv ==
    /\ superuser.id = 0 => superuser = Nobody
    /\ Mapped \/ (map = 0 /\ Inserting)
    /\ \A r \in Requests : Undisturbed(r)

\* An elevation that runs alone holds the newest token, and every cached one is good
AloneInv ==
    /\ \A r, s \in Requests : ~Ended(r) /\ ~Ended(s) => r = s
    /\ \A r \in Requests, p \in Processes : ~Ended(r) => ~cache[p].fresh
    /\ \A r \in Requests : req[r].at \in {"insert", "serve"} => Valid(req[r].token)
    /\ \A p \in Processes : cache[p].fresh => Valid(cache[p].token)

ElevationInv ==
    /\ TypeInv
    /\ faults = 0 => LockInv
    /\ alone /\ faults = 0 => AloneInv

-----------------------------------------------------------------------------
\* What the types say of the state before a step
LEMMA TypeFacts ==
    ASSUME TypeOK
    PROVE  /\ req \in [Requests -> Request] /\ Nobody \in Tokens /\ 0 \in Stamps
           /\ made \in Nat /\ visits \in Nat /\ visits <= MaxVisits /\ MaxVisits \in Nat
           /\ faults \in Nat /\ map \in Nat /\ superuser.id \in Nat
           /\ Uncached \in [token : Tokens, fresh : BOOLEAN] /\ Uncached.fresh = FALSE
BY ElevationAssumption DEF TypeOK, Request, Ats, Nobody, Tokens, Stamps, Uncached

\* A request moves on, and may note an id or a token
LEMMA Moves ==
    ASSUME TypeOK, NEW r \in Requests, NEW at \in Ats, NEW id \in Stamps, NEW token \in Tokens,
           \/ GoTo(r, at) /\ id = req[r].id /\ token = req[r].token
           \/ req' = [req EXCEPT ![r].at = at, ![r].id = id] /\ token = req[r].token
           \/ req' = [req EXCEPT ![r].at = at, ![r].token = token] /\ id = req[r].id
    PROVE  /\ req' \in [Requests -> Request]
           /\ req'[r].at = at /\ req'[r].proc = req[r].proc
           /\ req'[r].id = id /\ req'[r].token = token
           /\ \A s \in Requests \ {r} : req'[s] = req[s]
<1>1. req \in [Requests -> Request] /\ req[r] \in Request
  BY TypeFacts
<1>2. ASSUME NEW y \in Request
      PROVE  LET w == [[y EXCEPT !.at = at] EXCEPT !.id = id] IN
             w \in Request /\ w.at = at /\ w.proc = y.proc /\ w.id = id /\ w.token = y.token
  BY DEF Request
<1>3. ASSUME NEW y \in Request
      PROVE  LET w == [[y EXCEPT !.at = at] EXCEPT !.token = token] IN
             w \in Request /\ w.at = at /\ w.proc = y.proc /\ w.id = y.id /\ w.token = token
  BY DEF Request
<1>4. ASSUME NEW y \in Request
      PROVE  LET w == [y EXCEPT !.at = at] IN
             w \in Request /\ w.at = at /\ w.proc = y.proc /\ w.id = y.id /\ w.token = y.token
  BY DEF Request
<1>5. \E w \in Request : /\ req' = [req EXCEPT ![r] = w]
                        /\ w.at = at /\ w.proc = req[r].proc /\ w.id = id /\ w.token = token
  <2>1. CASE GoTo(r, at) /\ id = req[r].id /\ token = req[r].token
    BY <1>1, <1>4, <2>1 DEF GoTo
  <2>2. CASE req' = [req EXCEPT ![r].at = at, ![r].id = id] /\ token = req[r].token
    <3>1. req' = [req EXCEPT ![r] = [[req[r] EXCEPT !.at = at] EXCEPT !.id = id]]
      BY <1>1, <2>2
    <3> QED BY <1>1, <1>2, <2>2, <3>1
  <2>3. CASE req' = [req EXCEPT ![r].at = at, ![r].token = token] /\ id = req[r].id
    <3>1. req' = [req EXCEPT ![r] = [[req[r] EXCEPT !.at = at] EXCEPT !.token = token]]
      BY <1>1, <2>3
    <3> QED BY <1>1, <1>3, <2>3, <3>1
  <2> QED BY <2>1, <2>2, <2>3
<1> QED BY <1>1, <1>5

\* A request moves on
LEMMA MovesTo ==
    ASSUME TypeOK, NEW r \in Requests, NEW at \in Ats, GoTo(r, at)
    PROVE  /\ req' \in [Requests -> Request]
           /\ req'[r].at = at /\ req'[r].proc = req[r].proc
           /\ req'[r].id = req[r].id /\ req'[r].token = req[r].token
           /\ \A s \in Requests \ {r} : req'[s] = req[s]
<1>1. req[r].id \in Stamps /\ req[r].token \in Tokens
  BY DEF TypeOK
<1>2. PICK id \in Stamps, token \in Tokens : id = req[r].id /\ token = req[r].token
  BY <1>1
<1> QED BY <1>2, Moves

\* ... and notes the id that the map names
LEMMA MovesWithId ==
    ASSUME TypeOK, NEW r \in Requests, NEW at \in Ats, NEW id \in Stamps,
           req' = [req EXCEPT ![r].at = at, ![r].id = id]
    PROVE  /\ req' \in [Requests -> Request]
           /\ req'[r].at = at /\ req'[r].proc = req[r].proc
           /\ req'[r].id = id /\ req'[r].token = req[r].token
           /\ \A s \in Requests \ {r} : req'[s] = req[s]
<1>1. PICK token \in Tokens : token = req[r].token
  BY DEF TypeOK
<1> QED BY <1>1, Moves

\* ... or the token that it has got
LEMMA MovesWithToken ==
    ASSUME TypeOK, NEW r \in Requests, NEW at \in Ats, NEW token \in Tokens,
           req' = [req EXCEPT ![r].at = at, ![r].token = token]
    PROVE  /\ req' \in [Requests -> Request]
           /\ req'[r].at = at /\ req'[r].proc = req[r].proc
           /\ req'[r].id = req[r].id /\ req'[r].token = token
           /\ \A s \in Requests \ {r} : req'[s] = req[s]
<1>1. PICK id \in Stamps : id = req[r].id
  BY DEF TypeOK
<1> QED BY <1>1, Moves

\* No request becomes pending without a visit
LEMMA CountKept ==
    ASSUME TypeInv, Pending' \subseteq Pending, made' = made, visits' = visits
    PROVE  CountInv'
<1>1. IsFiniteSet(Pending) /\ made + Cardinality(Pending) <= visits /\ made \in Nat /\ visits \in Nat
  BY TypeFacts DEF TypeInv, CountInv
<1>2. IsFiniteSet(Pending') /\ Cardinality(Pending') <= Cardinality(Pending)
  BY <1>1, FS_Subset
<1>3. Cardinality(Pending) \in Nat /\ Cardinality(Pending') \in Nat
  BY <1>1, <1>2, FS_CardinalityType
<1>4. made' + Cardinality(Pending') <= visits'
  BY <1>1, <1>2, <1>3
<1> QED BY <1>2, <1>4 DEF CountInv

\* A pending request leaves room for one more id or key, and takes it once
LEMMA CountUsed ==
    ASSUME TypeInv, NEW r \in Pending
    PROVE  /\ made + 1 \in Stamps /\ made + 1 \in Nat /\ made + 1 # 0
           /\ (Pending' \subseteq Pending \ {r} /\ made' = made + 1 /\ visits' = visits) => CountInv'
<1>1. IsFiniteSet(Pending) /\ made + Cardinality(Pending) <= visits /\ made \in Nat /\ visits \in Nat
      /\ visits <= MaxVisits /\ MaxVisits \in Nat
  BY TypeFacts DEF TypeInv, CountInv
<1>2. IsFiniteSet(Pending \ {r}) /\ Cardinality(Pending \ {r}) = Cardinality(Pending) - 1
  BY <1>1, FS_RemoveElement
<1>3. Cardinality(Pending) \in Nat /\ Cardinality(Pending \ {r}) \in Nat
  BY <1>1, <1>2, FS_CardinalityType
<1>4. made + 1 \in Stamps /\ made + 1 \in Nat /\ made + 1 # 0
  BY <1>1, <1>2, <1>3 DEF Stamps
<1>5. ASSUME Pending' \subseteq Pending \ {r}, made' = made + 1, visits' = visits PROVE CountInv'
  <2>1. IsFiniteSet(Pending') /\ Cardinality(Pending') <= Cardinality(Pending \ {r})
    BY <1>2, <1>5, FS_Subset
  <2>2. Cardinality(Pending') \in Nat
    BY <2>1, FS_CardinalityType
  <2>3. made' + Cardinality(Pending') <= visits'
    BY <1>1, <1>2, <1>3, <1>5, <2>1, <2>2
  <2> QED BY <2>1, <2>3 DEF CountInv
<1> QED BY <1>4, <1>5

\* A visit adds itself
LEMMA CountVisit ==
    ASSUME TypeInv, NEW r, Pending' \subseteq Pending \cup {r}, made' = made, visits' = visits + 1
    PROVE  CountInv'
<1>1. IsFiniteSet(Pending) /\ made + Cardinality(Pending) <= visits /\ made \in Nat /\ visits \in Nat
  BY TypeFacts DEF TypeInv, CountInv
<1>2. /\ IsFiniteSet(Pending \cup {r}) /\ Cardinality(Pending) \in Nat
      /\ Cardinality(Pending \cup {r}) <= Cardinality(Pending) + 1
  <2>1. IsFiniteSet(Pending \cup {r}) /\ Cardinality(Pending) \in Nat
    BY <1>1, FS_AddElement, FS_CardinalityType
  <2>2. Cardinality(Pending \cup {r}) = IF r \in Pending THEN Cardinality(Pending) ELSE Cardinality(Pending) + 1
    BY <1>1, FS_AddElement
  <2> QED BY <2>1, <2>2
<1>3. IsFiniteSet(Pending') /\ Cardinality(Pending') <= Cardinality(Pending \cup {r})
  BY <1>2, FS_Subset
<1>4. Cardinality(Pending') \in Nat /\ Cardinality(Pending \cup {r}) \in Nat
  BY <1>2, <1>3, FS_CardinalityType
<1>5. made' + Cardinality(Pending') <= visits'
  BY <1>1, <1>2, <1>3, <1>4
<1> QED BY <1>3, <1>5 DEF CountInv

-----------------------------------------------------------------------------
(***************************************************************************)
(* The steps.                                                              *)
(***************************************************************************)

\* A request reads, or gives up: it holds nothing that another one relies on
LEMMA OneMoves ==
    ASSUME ElevationInv, NEW r \in Requests,
           UNCHANGED <<superuser, map, made, cache, visits, alone>>,
           faults' \in 0..MaxFaults, faults' = 0 => faults = 0,
           req' \in [Requests -> Request], \A s \in Requests \ {r} : req'[s] = req[s],
           ~Ended(r), r \in Pending' => r \in Pending,
           req'[r].at \notin {"insert", "serve"}, faults' = 0 => req[r].at # "insert",
           faults = 0 => Undisturbed(r)'
    PROVE  ElevationInv'
<1>1. TypeInv'
  <2>1. TypeOK'
    BY DEF ElevationInv, TypeInv, TypeOK, Request, Ats
  <2>2. Pending' \subseteq Pending
    BY DEF Pending
  <2> QED BY <2>1, <2>2, CountKept DEF ElevationInv, TypeInv
<1>2. ASSUME faults' = 0 PROVE LockInv'
  <2>1. LockInv
    BY <1>2 DEF ElevationInv
  <2>2. Inserting => Inserting'
    BY <1>2 DEF Inserting
  <2>3. ASSUME NEW s \in Requests PROVE Undisturbed(s)'
    <3>1. CASE s = r
      BY <1>2, <3>1
    <3>2. CASE s # r
      BY <2>1, <3>2 DEF LockInv, Undisturbed
    <3> QED BY <3>1, <3>2
  <2> QED BY <2>1, <2>2, <2>3 DEF LockInv, Mapped
<1>3. ASSUME faults' = 0, alone' PROVE AloneInv'
  <2>1. AloneInv
    BY <1>3 DEF ElevationInv
  <2>2. \A s \in Requests : ~Ended(s)' => ~Ended(s)
    BY DEF Ended
  <2> QED BY <2>1, <2>2 DEF AloneInv, Valid
<1> QED BY <1>1, <1>2, <1>3 DEF ElevationInv

\* A visit is served a cached token or begins an elevation, which is alone if no other runs
LEMMA VisitKeeps ==
    ASSUME ElevationInv, NEW r \in Requests, NEW p \in Processes, Visit(r, p)
    PROVE  ElevationInv'
<1>0. TypeOK /\ TypeInv /\ Ended(r) /\ UNCHANGED <<superuser, map, made, cache, faults>> /\ visits' = visits + 1
      /\ visits < MaxVisits
  BY DEF Visit, ElevationInv, TypeInv
<1>1. PICK x \in Request :
         /\ req' = [req EXCEPT ![r] = x]
         /\ \/ cache[p].fresh /\ x.at = "served" /\ alone' = alone
            \/ ~cache[p].fresh /\ x.at = "query"
               /\ alone' = (alone /\ (\A s \in Requests \ {r} : Ended(s))
                                  /\ (\A q \in Processes \ {p} : ~cache[q].fresh))
  <2>1. cache[p].token \in Tokens /\ Nobody \in Tokens /\ 0 \in Stamps
    BY <1>0, TypeFacts DEF TypeOK
  <2> DEFINE a == [Idle("served") EXCEPT !.token = cache[p].token]
             b == [Idle("query") EXCEPT !.proc = p]
  <2>2. a \in Request /\ a.at = "served" /\ b \in Request /\ b.at = "query"
    BY <2>1 DEF Idle, Request, Ats
  <2>3. (cache[p].fresh /\ req' = [req EXCEPT ![r] = a] /\ alone' = alone)
        \/ (~cache[p].fresh /\ req' = [req EXCEPT ![r] = b]
               /\ alone' = (alone /\ (\A s \in Requests \ {r} : Ended(s))
                                  /\ (\A q \in Processes \ {p} : ~cache[q].fresh)))
    BY DEF Visit
  <2> HIDE DEF a, b
  <2> QED BY <2>2, <2>3
<1>2. req' \in [Requests -> Request] /\ req'[r] = x /\ \A s \in Requests \ {r} : req'[s] = req[s]
  BY <1>0, <1>1, TypeFacts
<1>3. TypeInv'
  <2>1. alone' \in BOOLEAN
    <3>1. alone \in BOOLEAN
      BY <1>0 DEF TypeOK
    <3> QED BY <1>1, <3>1
  <2>2. visits' \in 0..MaxVisits
    BY <1>0, TypeFacts
  <2>3. TypeOK'
    BY <1>0, <1>2, <2>1, <2>2 DEF TypeOK, Request, Ats, Stamps, Tokens
  <2>4. Pending' \subseteq Pending \cup {r}
    BY <1>2 DEF Pending
  <2> QED BY <1>0, <2>3, <2>4, CountVisit DEF TypeInv
<1>4. ASSUME faults' = 0 PROVE LockInv'
  <2>1. LockInv
    BY <1>0, <1>4 DEF ElevationInv
  <2>2. Inserting => Inserting'
    BY <1>0, <1>2 DEF Inserting, Ended
  <2>3. ASSUME NEW s \in Requests PROVE Undisturbed(s)'
    BY <1>0, <1>1, <1>2, <2>1 DEF LockInv, Undisturbed
  <2> QED BY <1>0, <2>1, <2>2, <2>3 DEF LockInv, Mapped
<1>5. ASSUME faults' = 0, alone' PROVE AloneInv'
  <2>1. AloneInv
    BY <1>0, <1>1, <1>5 DEF ElevationInv
  <2>2. CASE x.at = "served"
    <3>1. \A s \in Requests : ~Ended(s)' => ~Ended(s)
      BY <1>2, <2>2 DEF Ended
    <3>2. \A s \in Requests : req'[s].at \in {"insert", "serve"} => req'[s] = req[s]
      BY <1>2, <2>2
    <3> QED BY <1>0, <2>1, <3>1, <3>2 DEF AloneInv, Valid
  <2>3. CASE x.at = "query"
    <3>1. /\ \A s \in Requests \ {r} : Ended(s)
          /\ \A q \in Processes : ~cache[q].fresh
      BY <1>1, <1>5, <2>3
    <3>2. \A s \in Requests : ~Ended(s)' => s = r
      BY <1>2, <3>1 DEF Ended
    <3>3. \A s \in Requests : req'[s].at \notin {"insert", "serve"}
      BY <1>2, <2>3, <3>1 DEF Ended
    <3> QED BY <1>0, <3>1, <3>2, <3>3 DEF AloneInv
  <2> QED BY <1>1, <2>2, <2>3
<1> QED BY <1>3, <1>4, <1>5 DEF ElevationInv

\* An elevation that ran alone caches a token that is valid
LEMMA ServeKeeps ==
    ASSUME ElevationInv, NEW r \in Requests, Serve(r)
    PROVE  ElevationInv'
<1>0. TypeOK /\ TypeInv /\ req[r].at = "serve" /\ UNCHANGED <<superuser, map, made, visits, faults, alone>>
      /\ req[r] \in Request
  BY TypeFacts DEF Serve, ElevationInv, TypeInv
<1> DEFINE x == [Idle("served") EXCEPT !.token = req[r].token]
           c == [token |-> req[r].token, fresh |-> TRUE]
<1>1. x \in Request /\ x.at = "served"
  BY <1>0, TypeFacts DEF Idle, Request, Ats
<1>2. req' = [req EXCEPT ![r] = x]
  BY DEF Serve
<1>3. cache' = [cache EXCEPT ![req[r].proc] = c] /\ c \in [token : Tokens, fresh : BOOLEAN]
      /\ c.token = req[r].token
  BY <1>0 DEF Serve, Request
<1> HIDE DEF x, c
<1>4. req' \in [Requests -> Request] /\ req'[r] = x /\ \A s \in Requests \ {r} : req'[s] = req[s]
  BY <1>0, <1>1, <1>2, TypeFacts
<1>5. /\ cache' \in [Processes -> [token : Tokens, fresh : BOOLEAN]]
      /\ \A p \in Processes : cache'[p] = cache[p] \/ cache'[p] = c
  BY <1>0, <1>3 DEF TypeOK
<1>6. TypeInv'
  <2>1. TypeOK'
    BY <1>0, <1>4, <1>5 DEF TypeOK, Request, Ats, Stamps, Tokens
  <2>2. Pending' \subseteq Pending
    BY <1>1, <1>4 DEF Pending
  <2> QED BY <1>0, <2>1, <2>2, CountKept DEF TypeInv
<1>7. ASSUME faults' = 0 PROVE LockInv'
  <2>1. LockInv
    BY <1>0, <1>7 DEF ElevationInv
  <2>2. Inserting => Inserting'
    BY <1>0, <1>4 DEF Inserting
  <2>3. ASSUME NEW s \in Requests PROVE Undisturbed(s)'
    BY <1>0, <1>1, <1>4, <2>1 DEF LockInv, Undisturbed
  <2> QED BY <1>0, <2>1, <2>2, <2>3 DEF LockInv, Mapped
<1>8. ASSUME faults' = 0, alone' PROVE AloneInv'
  <2>1. AloneInv
    BY <1>0, <1>8 DEF ElevationInv
  <2>2. \A s \in Requests : Ended(s)'
    BY <1>0, <1>1, <1>4, <2>1 DEF AloneInv, Ended
  <2>3. \A s \in Requests : req'[s].at \notin {"insert", "serve"}
    BY <2>2 DEF Ended
  <2>4. Valid(req[r].token)
    BY <1>0, <2>1 DEF AloneInv
  <2>5. \A p \in Processes : cache'[p].fresh => Valid(cache'[p].token)
    BY <1>3, <1>5, <2>1, <2>4 DEF AloneInv
  <2> QED BY <1>0, <2>2, <2>3, <2>5 DEF AloneInv, Valid
<1> QED BY <1>6, <1>7, <1>8 DEF ElevationInv

\* A token whose cooldown is over is fresh no more
LEMMA CoolDownKeeps ==
    ASSUME ElevationInv, NEW p \in Processes, CoolDown(p)
    PROVE  ElevationInv'
<1>0. TypeOK /\ TypeInv /\ UNCHANGED <<superuser, map, made, req, visits, faults, alone>>
      /\ Uncached \in [token : Tokens, fresh : BOOLEAN] /\ Uncached.fresh = FALSE
  BY TypeFacts DEF CoolDown, ElevationInv, TypeInv
<1>1. /\ cache' \in [Processes -> [token : Tokens, fresh : BOOLEAN]]
      /\ \A q \in Processes : cache'[q].fresh => cache'[q] = cache[q]
  BY <1>0 DEF CoolDown, TypeOK
<1>2. TypeInv'
  BY <1>0, <1>1 DEF TypeInv, TypeOK, CountInv, Pending, Stamps, Tokens
<1>3. LockInv => LockInv'
  BY <1>0 DEF LockInv, Mapped, Inserting, Undisturbed
<1>4. AloneInv => AloneInv'
  BY <1>0, <1>1 DEF AloneInv, Ended, Valid
<1> QED BY <1>0, <1>2, <1>3, <1>4 DEF ElevationInv

\* A request finds out whether there is a mapping, and whom it names
LEMMA QueryKeeps ==
    ASSUME ElevationInv, NEW r \in Requests, Query(r)
    PROVE  ElevationInv'
<1>0. TypeOK /\ req[r].at = "query" /\ UNCHANGED <<superuser, map, made, cache, visits, faults, alone>>
      /\ faults \in 0..MaxFaults /\ map \in Stamps /\ req[r].token \in Tokens
  BY DEF Query, ElevationInv, TypeInv, TypeOK
<1>1. PICK at \in {"create", "find"} : at = IF map = 0 THEN "create" ELSE "find"
  OBVIOUS
<1>3. /\ req' \in [Requests -> Request] /\ req'[r].at = at /\ req'[r].id = map
      /\ \A s \in Requests \ {r} : req'[s] = req[s]
  <2>1. "create" \in Ats /\ "find" \in Ats
    BY DEF Ats
  <2>2. CASE map = 0
    <3>1. req' = [req EXCEPT ![r].at = "create", ![r].id = map]
      BY <2>2 DEF Query
    <3> QED BY <1>0, <1>1, <2>1, <2>2, <3>1, MovesWithId
  <2>3. CASE map # 0
    <3>1. req' = [req EXCEPT ![r].at = "find", ![r].id = map]
      BY <2>3 DEF Query
    <3> QED BY <1>0, <1>1, <2>1, <2>3, <3>1, MovesWithId
  <2> QED BY <2>2, <2>3
<1>4. ~Ended(r) /\ r \in Pending
  BY <1>0 DEF Ended, Pending
<1>5. faults = 0 => Undisturbed(r)'
  <2> SUFFICES ASSUME faults = 0 PROVE Undisturbed(r)'
    OBVIOUS
  <2>1. Mapped \/ map = 0
    BY DEF ElevationInv, LockInv
  <2> QED BY <1>0, <1>1, <1>3, <2>1 DEF Undisturbed, Mapped
<1> QED BY <1>0, <1>1, <1>3, <1>4, <1>5, OneMoves

\* A request finds the superuser whom the mapping names, as long as nothing failed
LEMMA FindKeeps ==
    ASSUME ElevationInv, NEW r \in Requests, Find(r)
    PROVE  ElevationInv'
<1>0. TypeOK /\ req[r].at = "find" /\ UNCHANGED <<superuser, map, made, cache, visits, faults, alone>>
      /\ faults \in 0..MaxFaults /\ req[r].id \in Stamps /\ req[r].token \in Tokens
  BY DEF Find, ElevationInv, TypeInv, TypeOK
<1>1. PICK at \in {"rotate", "unmap"} : at = IF superuser.id = req[r].id THEN "rotate" ELSE "unmap"
  OBVIOUS
<1>2. at \in Ats /\ GoTo(r, at)
  BY <1>1 DEF Ats, Find
<1>3. /\ req' \in [Requests -> Request] /\ req'[r].at = at /\ req'[r].id = req[r].id
      /\ \A s \in Requests \ {r} : req'[s] = req[s]
  BY <1>0, <1>2, MovesTo
<1>4. ~Ended(r) /\ r \in Pending
  BY <1>0 DEF Ended, Pending
<1>5. faults = 0 => Undisturbed(r)'
  <2> SUFFICES ASSUME faults = 0 PROVE Undisturbed(r)'
    OBVIOUS
  <2>1. Undisturbed(r)
    BY DEF ElevationInv, LockInv
  <2> QED BY <1>0, <1>1, <1>3, <2>1 DEF Undisturbed
<1> QED BY <1>0, <1>1, <1>3, <1>4, <1>5, OneMoves

\* A statement that fails is counted, which ends what the faultless invariants say
LEMMA StatementFailsKeeps ==
    ASSUME ElevationInv, NEW r \in Requests, StatementFails(r)
    PROVE  ElevationInv'
<1>0. TypeOK /\ UNCHANGED <<superuser, map, made, cache, visits, alone>>
      /\ req[r].at \in {"query", "find", "rotate", "unmap", "create", "insert"}
      /\ req[r].id \in Stamps /\ req[r].token \in Tokens
  BY DEF StatementFails, ElevationInv, TypeInv, TypeOK
<1>1. faults' \in 0..MaxFaults /\ faults' # 0
  BY <1>0, ElevationAssumption DEF StatementFails, Fault, TypeOK
<1>2. PICK at \in {"create", "unmap", "failed"} :
         GoTo(r, at) /\ (at \in {"create", "unmap"} => req[r].at \in {"unmap", "find"})
  BY <1>0 DEF StatementFails
<1>3. at \in Ats
  BY DEF Ats
<1>4. /\ req' \in [Requests -> Request] /\ req'[r].at = at
      /\ \A s \in Requests \ {r} : req'[s] = req[s]
  BY <1>0, <1>2, <1>3, MovesTo
<1>5. ~Ended(r) /\ (r \in Pending' => r \in Pending)
  BY <1>0, <1>2, <1>4 DEF Ended, Pending
<1>6. TypeInv'
  <2>1. TypeOK'
    BY <1>0, <1>1, <1>4 DEF TypeOK, Request, Ats, Stamps, Tokens
  <2>2. Pending' \subseteq Pending
    BY <1>4, <1>5 DEF Pending
  <2> QED BY <1>0, <2>1, <2>2, CountKept DEF TypeInv, ElevationInv
<1> QED BY <1>1, <1>6 DEF ElevationInv

\* The key is renewed: whoever holds a token of the superuser loses it, and alone nobody does
LEMMA RotateKeeps ==
    ASSUME ElevationInv, NEW r \in Requests, Rotate(r)
    PROVE  ElevationInv'
<1>0. TypeOK /\ TypeInv /\ req[r].at = "rotate" /\ UNCHANGED <<map, cache, visits, faults, alone>>
      /\ made' = made + 1 /\ req[r].id \in Stamps /\ req[r].token \in Tokens
  BY DEF Rotate, ElevationInv, TypeInv, TypeOK
<1>1. r \in Pending /\ ~Ended(r)
  BY <1>0 DEF Pending, Ended
<1> DEFINE token == [id |-> req[r].id, key |-> made + 1]
<1>2. token \in Tokens /\ token # Nobody /\ token.id = req[r].id /\ made + 1 \in Stamps
  BY <1>0, <1>1, CountUsed DEF Tokens, Nobody
<1>3. \/ superuser.id = req[r].id /\ superuser' = token
         /\ req' = [req EXCEPT ![r].at = "serve", ![r].token = token]
      \/ superuser.id # req[r].id /\ superuser' = superuser
         /\ (GoTo(r, "failed") \/ req' = [req EXCEPT ![r].at = "serve", ![r].token = token])
  BY <1>0 DEF Rotate
<1> HIDE DEF token
<1>4. PICK at \in {"serve", "failed"} :
         /\ req' \in [Requests -> Request] /\ req'[r].at = at /\ req'[r].id = req[r].id
         /\ at = "serve" => req'[r].token = token
         /\ superuser.id = req[r].id => at = "serve"
         /\ \A s \in Requests \ {r} : req'[s] = req[s]
  <2>1. "serve" \in Ats /\ "failed" \in Ats
    BY DEF Ats
  <2>2. CASE GoTo(r, "failed") /\ superuser.id # req[r].id
    BY <1>0, <2>1, <2>2, MovesTo
  <2>3. CASE req' = [req EXCEPT ![r].at = "serve", ![r].token = token]
    BY <1>0, <1>2, <2>1, <2>3, MovesWithToken
  <2> QED BY <1>3, <2>2, <2>3
<1>5. TypeInv'
  <2>1. TypeOK'
    BY <1>0, <1>2, <1>3, <1>4 DEF TypeOK, Request, Ats, Stamps, Tokens
  <2>2. Pending' \subseteq Pending \ {r}
    BY <1>4 DEF Pending
  <2> QED BY <1>0, <1>1, <2>1, <2>2, CountUsed DEF TypeInv
<1>6. ASSUME faults = 0
      PROVE  superuser.id = req[r].id /\ superuser' = token /\ superuser'.id = superuser.id
             /\ req'[r].at = "serve" /\ req'[r].token = token
  <2>1. Undisturbed(r)
    BY <1>6 DEF ElevationInv, LockInv
  <2>2. superuser.id = req[r].id
    BY <1>0, <2>1 DEF Undisturbed
  <2> QED BY <1>2, <1>3, <1>4, <2>2
<1>7. ASSUME faults' = 0 PROVE LockInv'
  <2>1. LockInv /\ superuser'.id = superuser.id /\ req'[r].at = "serve" /\ superuser.id = req[r].id /\ Undisturbed(r)
    BY <1>0, <1>6, <1>7 DEF ElevationInv, LockInv
  <2>2. superuser'.id # 0
    BY <1>0, <2>1 DEF Undisturbed
  <2>3. Inserting => Inserting'
    BY <1>0, <1>4, <2>1 DEF Inserting
  <2>4. ASSUME NEW s \in Requests PROVE Undisturbed(s)'
    BY <1>0, <1>4, <2>1 DEF LockInv, Undisturbed
  <2> QED BY <1>0, <2>1, <2>2, <2>3, <2>4 DEF LockInv, Mapped
<1>8. ASSUME faults' = 0, alone' PROVE AloneInv'
  <2>1. AloneInv /\ superuser' = token /\ req'[r].at = "serve" /\ req'[r].token = token
    BY <1>0, <1>6, <1>8 DEF ElevationInv
  <2>2. \A s \in Requests : ~Ended(s)' => s = r
    BY <1>1, <1>4, <2>1 DEF AloneInv, Ended
  <2>3. \A p \in Processes : ~cache'[p].fresh
    BY <1>0, <1>1, <2>1 DEF AloneInv
  <2>4. \A s \in Requests : req'[s].at \in {"insert", "serve"} => s = r
    BY <2>2 DEF Ended
  <2>5. Valid(req[r].token)'
    BY <1>2, <2>1 DEF Valid
  <2> QED BY <2>2, <2>3, <2>4, <2>5 DEF AloneInv, Valid
<1> QED BY <1>5, <1>7, <1>8 DEF ElevationInv

\* Without faults no mapping is stale
LEMMA UnmapKeeps ==
    ASSUME ElevationInv, NEW r \in Requests, Unmap(r)
    PROVE  ElevationInv'
<1>0. TypeOK /\ TypeInv /\ req[r].at = "unmap" /\ UNCHANGED <<superuser, made, cache, visits, faults, alone>>
      /\ map' = 0 /\ GoTo(r, "create") /\ "create" \in Ats /\ req[r].id \in Stamps /\ req[r].token \in Tokens
  BY DEF Unmap, ElevationInv, TypeInv, TypeOK, Ats
<1>1. /\ req' \in [Requests -> Request] /\ req'[r].at = "create"
      /\ \A s \in Requests \ {r} : req'[s] = req[s]
  BY <1>0, MovesTo
<1>2. TypeInv'
  <2>1. TypeOK'
    BY <1>0, <1>1, TypeFacts DEF TypeOK, Request, Ats, Stamps, Tokens
  <2>2. Pending' \subseteq Pending
    BY <1>0, <1>1 DEF Pending
  <2> QED BY <1>0, <2>1, <2>2, CountKept DEF TypeInv
<1>3. faults' # 0
  BY <1>0 DEF ElevationInv, LockInv, Undisturbed
<1> QED BY <1>2, <1>3 DEF ElevationInv

\* A superuser is created only if there is none, and then nobody holds anything of one
LEMMA CreateKeeps ==
    ASSUME ElevationInv, NEW r \in Requests, Create(r)
    PROVE  ElevationInv'
<1>0. TypeOK /\ TypeInv /\ req[r].at = "create" /\ UNCHANGED <<map, cache, visits, faults, alone>>
      /\ req[r].id \in Stamps /\ req[r].token \in Tokens /\ "failed" \in Ats /\ "insert" \in Ats
  BY DEF Create, ElevationInv, TypeInv, TypeOK, Ats
<1>1. r \in Pending /\ ~Ended(r)
  BY <1>0 DEF Pending, Ended
<1>2. CASE superuser # Nobody
  <2>1. GoTo(r, "failed") /\ UNCHANGED <<made, superuser>>
    BY <1>2 DEF Create
  <2>2. /\ req' \in [Requests -> Request] /\ req'[r].at = "failed"
        /\ \A s \in Requests \ {r} : req'[s] = req[s]
    BY <1>0, <2>1, MovesTo
  <2>3. Undisturbed(r)' /\ faults' \in 0..MaxFaults
    BY <1>0, <2>2 DEF Undisturbed, TypeOK
  <2> QED BY <1>0, <1>1, <2>1, <2>2, <2>3, OneMoves
<1>3. CASE superuser = Nobody
  <2> DEFINE token == [id |-> made + 1, key |-> made + 1]
  <2>1. token \in Tokens /\ token # Nobody /\ token.id # 0 /\ made + 1 \in Stamps
    BY <1>1, <1>0, CountUsed DEF Tokens, Nobody
  <2>2. superuser' = token /\ made' = made + 1 /\ req' = [req EXCEPT ![r].at = "insert", ![r].token = token]
    BY <1>3 DEF Create
  <2> HIDE DEF token
  <2>3. /\ req' \in [Requests -> Request] /\ req'[r].at = "insert" /\ req'[r].token = token
        /\ \A s \in Requests \ {r} : req'[s] = req[s]
    BY <1>0, <2>1, <2>2, MovesWithToken
  <2>4. TypeInv'
    <3>1. TypeOK'
      BY <1>0, <2>1, <2>2, <2>3 DEF TypeOK, Request, Ats, Stamps, Tokens
    <3>2. Pending' \subseteq Pending \ {r}
      BY <2>3 DEF Pending
    <3> QED BY <1>0, <1>1, <2>2, <3>1, <3>2, CountUsed DEF TypeInv
  <2>5. ASSUME faults' = 0 PROVE LockInv'
    <3>1. LockInv /\ superuser.id = 0
      BY <1>0, <1>3, <2>5 DEF ElevationInv, Nobody
    <3>2. map = 0
      BY <3>1 DEF LockInv, Mapped
    <3>3. ASSUME NEW s \in Requests PROVE Undisturbed(s)'
      <4>1. CASE s = r
        BY <2>1, <2>2, <2>3, <4>1 DEF Undisturbed
      <4>2. CASE s # r
        BY <1>0, <2>3, <3>1, <3>2, <4>2 DEF LockInv, Undisturbed
      <4> QED BY <4>1, <4>2
    <3>4. Inserting'
      BY <2>2, <2>3 DEF Inserting
    <3> QED BY <1>0, <2>1, <2>2, <3>2, <3>3, <3>4 DEF LockInv
  <2>6. ASSUME faults' = 0, alone' PROVE AloneInv'
    <3>1. AloneInv
      BY <1>0, <2>6 DEF ElevationInv
    <3>2. \A s \in Requests : ~Ended(s)' => s = r
      BY <1>1, <2>3, <3>1 DEF AloneInv, Ended
    <3>3. \A p \in Processes : ~cache'[p].fresh
      BY <1>0, <1>1, <3>1 DEF AloneInv
    <3>4. \A s \in Requests : req'[s].at \in {"insert", "serve"} => s = r
      BY <3>2 DEF Ended
    <3>5. Valid(req[r].token)'
      BY <2>1, <2>2, <2>3 DEF Valid
    <3> QED BY <3>2, <3>3, <3>4, <3>5 DEF AloneInv, Valid
  <2> QED BY <2>4, <2>5, <2>6 DEF ElevationInv
<1> QED BY <1>2, <1>3

\* The mapping that is inserted names the superuser
LEMMA InsertKeeps ==
    ASSUME ElevationInv, NEW r \in Requests, Insert(r)
    PROVE  ElevationInv'
<1>0. TypeOK /\ TypeInv /\ req[r].at = "insert" /\ UNCHANGED <<superuser, made, cache, visits, faults, alone>>
      /\ req[r].id \in Stamps /\ req[r].token \in Tokens /\ "serve" \in Ats
      /\ GoTo(r, "serve") /\ map' = IF map = 0 THEN req[r].token.id ELSE map
  BY DEF Insert, ElevationInv, TypeInv, TypeOK, Ats
<1>1. /\ req' \in [Requests -> Request] /\ req'[r].at = "serve" /\ req'[r].token = req[r].token
      /\ \A s \in Requests \ {r} : req'[s] = req[s]
  BY <1>0, MovesTo
<1>2. TypeInv'
  <2>1. map' \in Stamps
    BY <1>0 DEF TypeOK, Tokens
  <2>2. TypeOK'
    BY <1>0, <1>1, <2>1 DEF TypeOK, Request, Ats, Stamps, Tokens
  <2>3. Pending' \subseteq Pending
    BY <1>0, <1>1 DEF Pending
  <2> QED BY <1>0, <2>2, <2>3, CountKept DEF TypeInv
<1>3. ASSUME faults' = 0 PROVE LockInv'
  <2>1. LockInv /\ Undisturbed(r)
    BY <1>0, <1>3 DEF ElevationInv, LockInv
  <2>2. req[r].token.id = superuser.id /\ superuser.id # 0
    BY <1>0, <2>1 DEF Undisturbed
  <2>3. map' = superuser.id
    BY <1>0, <2>1, <2>2 DEF LockInv, Mapped
  <2>4. ASSUME NEW s \in Requests PROVE Undisturbed(s)'
    <3>1. CASE s = r
      BY <1>1, <3>1 DEF Undisturbed
    <3>2. CASE s # r
      BY <1>0, <1>1, <2>1, <3>2 DEF LockInv, Undisturbed
    <3> QED BY <3>1, <3>2
  <2> QED BY <1>0, <2>1, <2>3, <2>4 DEF LockInv, Mapped
<1>4. ASSUME faults' = 0, alone' PROVE AloneInv'
  <2>1. AloneInv
    BY <1>0, <1>4 DEF ElevationInv
  <2>2. \A s \in Requests : ~Ended(s)' => ~Ended(s)
    BY <1>0, <1>1 DEF Ended
  <2>3. \A s \in Requests : req'[s].at \in {"insert", "serve"} =>
           req[s].at \in {"insert", "serve"} /\ req'[s].token = req[s].token
    BY <1>0, <1>1
  <2> QED BY <1>0, <2>1, <2>2, <2>3 DEF AloneInv, Valid
<1> QED BY <1>2, <1>3, <1>4 DEF ElevationInv

\* A crash and a deletion are faults, after which only the types are promised
LEMMA CrashOrDeleteKeeps ==
    ASSUME ElevationInv, Delete \/ \E p \in Processes : Crash(p)
    PROVE  ElevationInv'
<1>0. TypeOK /\ TypeInv
  BY DEF ElevationInv, TypeInv
<1>1. faults' \in 0..MaxFaults /\ faults' # 0
  BY <1>0, ElevationAssumption DEF Delete, Crash, Fault, TypeOK
<1>2. CASE Delete
  <2>1. TypeOK'
    BY <1>0, <1>1, <1>2, TypeFacts DEF Delete, TypeOK, Stamps, Tokens
  <2>2. Pending' \subseteq Pending /\ UNCHANGED <<made, visits>>
    BY <1>2 DEF Pending, Delete
  <2> QED BY <1>0, <1>1, <2>1, <2>2, CountKept DEF TypeInv, ElevationInv
<1>3. ASSUME NEW p \in Processes, Crash(p) PROVE ElevationInv'
  <2>1. Idle("gone") \in Request /\ Idle("gone").at = "gone"
    BY <1>0, TypeFacts DEF Idle, Request, Ats
  <2>2. /\ req' \in [Requests -> Request]
        /\ \A s \in Requests : req'[s] = req[s] \/ req'[s].at = "gone"
    <3>1. req' = [r \in Requests |-> IF req[r].proc = p THEN Idle("gone") ELSE req[r]]
      BY <1>3 DEF Crash
    <3> QED BY <1>0, <2>1, <3>1, TypeFacts
  <2>3. cache' \in [Processes -> [token : Tokens, fresh : BOOLEAN]]
    BY <1>0, <1>3, TypeFacts DEF Crash, TypeOK
  <2>4. UNCHANGED <<superuser, map, made, visits, alone>>
    BY <1>3 DEF Crash
  <2>5. TypeOK'
    BY <1>0, <1>1, <2>2, <2>3, <2>4 DEF TypeOK, Request, Ats, Stamps, Tokens
  <2>6. Pending' \subseteq Pending
    BY <2>2 DEF Pending
  <2> QED BY <1>0, <1>1, <2>4, <2>5, <2>6, CountKept DEF TypeInv, ElevationInv
<1> QED BY <1>2, <1>3

\* Every step keeps the invariant
LEMMA ElevationStep ==
    ASSUME ElevationInv, [Next]_vars
    PROVE  ElevationInv'
<1>1. CASE UNCHANGED vars
  BY <1>1 DEF vars, ElevationInv, TypeInv, TypeOK, CountInv, Pending, LockInv, Mapped, Inserting,
     Undisturbed, AloneInv, Ended, Valid, Stamps, Tokens
<1>2. ASSUME NEW r \in Requests, Elevate(r) PROVE ElevationInv'
  BY <1>2, QueryKeeps, FindKeeps, RotateKeeps, UnmapKeeps, CreateKeeps, InsertKeeps, ServeKeeps DEF Elevate
<1> QED BY <1>1, <1>2, VisitKeeps, StatementFailsKeeps, CoolDownKeeps, CrashOrDeleteKeeps DEF Next

\* What the requests rely on holds from the start, and every step keeps it
THEOREM ElevationInvariant == Spec => []ElevationInv
<1>1. Init => ElevationInv
  <2> SUFFICES ASSUME Init PROVE ElevationInv
    OBVIOUS
  <2>1. Nobody \in Tokens /\ 0 \in Stamps /\ Nobody.id = 0 /\ MaxVisits \in Nat /\ MaxFaults \in Nat
    BY ElevationAssumption DEF Nobody, Tokens, Stamps
  <2>2. Uncached \in [token : Tokens, fresh : BOOLEAN] /\ Uncached.fresh = FALSE
    BY <2>1 DEF Uncached
  <2>3. Idle("start") \in Request /\ Idle("start").at = "start"
    BY <2>1 DEF Idle, Request, Ats
  <2>4. alone \in BOOLEAN
    BY Zenon DEF Init
  <2>5. TypeOK
    BY <2>1, <2>2, <2>3, <2>4 DEF Init, TypeOK, Request, Ats, Tokens, Stamps
  <2>6. Pending = {}
    BY <2>3 DEF Init, Pending
  <2>7. CountInv
    BY <2>1, <2>6, FS_EmptySet DEF Init, CountInv
  <2>8. LockInv
    BY <2>1, <2>3 DEF Init, LockInv, Mapped, Undisturbed
  <2>9. AloneInv
    BY <2>2, <2>3 DEF Init, AloneInv, Ended
  <2> QED BY <2>5, <2>7, <2>8, <2>9 DEF ElevationInv, TypeInv
<1> QED BY <1>1, ElevationStep, PTL DEF Spec

\* Every variable keeps its type: ids and keys never outnumber the visits
THEOREM TypeCorrect == Spec => []TypeOK
BY ElevationInvariant, PTL DEF ElevationInv, TypeInv

\* As long as nothing fails, no race of first elevations locks the user out
THEOREM NobodyIsLockedOut == Spec => []NotLockedOut
<1>1. ElevationInv => NotLockedOut
  BY DEF ElevationInv, LockInv, Inserting, NotLockedOut
<1> QED BY <1>1, ElevationInvariant, PTL

\* As long as no elevation runs beside another, what a process serves from its cache is good
THEOREM CacheIsGood == Spec => []CachedTokensAreGood
<1>1. ElevationInv => CachedTokensAreGood
  BY DEF ElevationInv, AloneInv, CachedTokensAreGood
<1> QED BY <1>1, ElevationInvariant, PTL

=============================================================================
