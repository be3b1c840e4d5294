------------------------- MODULE Startup_proofs -------------------------
(***************************************************************************)
(* TLAPS proof that processes which start beside others do not leave a     *)
(* database without a json_extract, for any number of processes.           *)
(***************************************************************************)
EXTENDS Startup, TLAPS

\* Where a process can be: the shims come first, in databases that exist
StepInv == \A p \in Processes :
    /\ at[p].step = "down" => at[p] = Down
    /\ at[p].step \in {"drop", "define"} => at[p].boot /\ at[p].db \in created
    /\ at[p].step \in {"migrate", "tables", "listen", "serving"} => ~at[p].boot

TypeInv == TypeOK /\ StepInv

\* What a process has dropped and not created since is still before it, and a function is
\* missing only if somebody has dropped it, or as long as everybody has it before them
ShimsInv ==
    /\ \A p \in Processes : \A f \in dropped[p] : Before(at[p], f)
    /\ \A f \in Functions \ shims :
        \/ \E p \in Processes : f \in dropped[p]
        \/ ~migrated /\ \A p \in Processes : Before(at[p], f)

-----------------------------------------------------------------------------
State == [step : Steps, db : Databases, boot : BOOLEAN, n : 1..Overloads]

\* Where a process is
LEMMA PresentState ==
    ASSUME TypeInv, NEW p \in Processes
    PROVE  /\ at[p] \in State
           /\ at[p].step \in Steps /\ at[p].db \in Databases /\ at[p].boot \in BOOLEAN
           /\ at[p].n \in 1..Overloads
           /\ at[p].step = "down" => at[p] = Down
           /\ at[p].step \in {"drop", "define"} => at[p].boot /\ at[p].db \in created
           /\ at[p].step \in {"migrate", "tables", "listen", "serving"} => ~at[p].boot
<1>1. at[p] \in State
  BY DEF TypeInv, TypeOK, State
<1> QED BY <1>1 DEF TypeInv, StepInv, State

\* A process that has ended has everything before it
LEMMA DownState ==
    /\ Down \in State /\ Down.step = "down" /\ Down.boot
    /\ \A f \in Functions : Before(Down, f)
<1>1. /\ Down \in State /\ Down.step = "down" /\ Down.boot /\ Down.db = "data"
  BY StartupAssumption DEF Down, Step, State, Steps, Databases
<1> QED BY <1>1 DEF Before, Functions, Databases

\* One process p goes to next, and some others go down
Moves(p, next) ==
    /\ at' \in [Processes -> State]
    /\ at'[p] = next
    /\ \A q \in Processes \ {p} : at'[q] = at[q] \/ at'[q] = Down

\* What Wins does
LEMMA WinsMoves ==
    ASSUME TypeInv, NEW p \in Processes, NEW next \in State, Wins(p, next)
    PROVE  Moves(p, next)
<1>1. PICK losers \in SUBSET Racing(p) :
        at' = [q \in Processes |-> IF q = p THEN next ELSE IF q \in losers THEN Down ELSE at[q]]
  BY DEF Wins
<1>2. at \in [Processes -> State]
  BY DEF TypeInv, TypeOK, State
<1> QED BY <1>1, <1>2, DownState DEF Moves

\* A single process that goes on is a case of it
LEMMA MovesAlone ==
    ASSUME TypeInv, NEW p \in Processes, NEW next \in State, at' = [at EXCEPT ![p] = next]
    PROVE  Moves(p, next)
BY DEF TypeInv, TypeOK, State, Moves

\* The places are sound after a move to a sound one
LEMMA MoveType ==
    ASSUME TypeInv, NEW p \in Processes, NEW next \in State, Moves(p, next),
           created \subseteq created',
           next.step = "down" => next = Down,
           next.step \in {"drop", "define"} => next.boot /\ next.db \in created',
           next.step \in {"migrate", "tables", "listen", "serving"} => ~next.boot
    PROVE  StepInv'
<1> SUFFICES ASSUME NEW q \in Processes, at'[q] # Down
             PROVE  /\ at'[q].step # "down"
                    /\ at'[q].step \in {"drop", "define"} => at'[q].boot /\ at'[q].db \in created'
                    /\ at'[q].step \in {"migrate", "tables", "listen", "serving"} => ~at'[q].boot
  BY DownState DEF StepInv
<1>1. CASE q = p
  BY <1>1 DEF Moves
<1>2. CASE q # p
  BY <1>2, PresentState DEF Moves
<1> QED BY <1>1, <1>2

\* A step that leaves the functions as they are keeps both invariants, if what p has
\* before it stays before it, and where it goes to is sound
LEMMA MoveKeeps ==
    ASSUME TypeInv, ShimsInv, NEW p \in Processes, NEW next \in State, Moves(p, next),
           created \subseteq created', created' \subseteq Databases,
           ready' \in [Processes -> SUBSET Listeners],
           shims' = shims, dropped' = dropped, view' \in 0..Overloads, faults' \in 0..MaxFaults,
           migrated' \in BOOLEAN, migrated' => migrated \/ ~at[p].boot,
           \A f \in Functions : Before(at[p], f) => Before(next, f),
           next.step = "down" => next = Down,
           next.step \in {"drop", "define"} => next.boot /\ next.db \in created',
           next.step \in {"migrate", "tables", "listen", "serving"} => ~next.boot
    PROVE  TypeInv' /\ ShimsInv'
<1>1. TypeOK'
  BY DEF TypeInv, TypeOK, Moves, State
<1>2. StepInv'
  BY MoveType
<1>3. ASSUME NEW q \in Processes, NEW f \in Functions, Before(at[q], f)
      PROVE  Before(at'[q], f)
  BY <1>3, DownState DEF Moves
<1>4. ASSUME NEW q \in Processes, NEW f \in dropped[q]
      PROVE  Before(at'[q], f)
  BY <1>3 DEF ShimsInv, TypeInv, TypeOK
<1>5. ASSUME NEW f \in Functions \ shims, ~ \E q \in Processes : f \in dropped[q]
      PROVE  ~migrated' /\ \A q \in Processes : Before(at'[q], f)
  <2>1. ~migrated /\ \A q \in Processes : Before(at[q], f)
    BY <1>5 DEF ShimsInv
  <2> QED BY <1>3, <2>1 DEF Before
<1>6. ShimsInv'
  BY <1>4, <1>5 DEF ShimsInv
<1> QED BY <1>1, <1>2, <1>6 DEF TypeInv

\* A DROP is before the CREATE in the same start, and one that fails ends it
LEMMA DropKeeps ==
    ASSUME TypeInv, ShimsInv, NEW p \in Processes, DropShim(p)
    PROVE  TypeInv' /\ ShimsInv'
<1> DEFINE next == IF at[p].n < Overloads THEN [at[p] EXCEPT !.n = @ + 1]
                   ELSE Step("define", at[p].db, TRUE)
<1>1. /\ at[p] \in State /\ at[p].step = "drop" /\ at[p].boot /\ at[p].db \in created
      /\ at[p].n \in 1..Overloads /\ at[p].db \in Databases
  BY PresentState DEF DropShim, Is
<1>2. UNCHANGED <<ready, created, migrated, view, faults>>
  BY DEF DropShim
<1>3. CASE at[p].db = "data" /\ at[p].n = view
  <2>1. Moves(p, Down) /\ UNCHANGED <<shims, dropped>>
    BY <1>3, DownState, MovesAlone DEF DropShim
  <2>2. view' \in 0..Overloads /\ faults' \in 0..MaxFaults /\ migrated' \in BOOLEAN
        /\ created' \subseteq Databases /\ ready' \in [Processes -> SUBSET Listeners]
    BY <1>2 DEF TypeInv, TypeOK
  <2> QED BY <1>2, <2>1, <2>2, DownState, MoveKeeps
<1>4. CASE ~(at[p].db = "data" /\ at[p].n = view)
  <2>1. /\ next \in State /\ next.boot /\ next.db = at[p].db
        /\ next.step = "drop" \/ (next.step = "define" /\ next.n = 1)
    BY <1>1, StartupAssumption DEF State, Step, Steps
  <2>2. /\ Wins(p, next) /\ shims' = shims \ {Shim(p)}
        /\ dropped' = [dropped EXCEPT ![p] = @ \cup {Shim(p)}]
    BY <1>4 DEF DropShim
  <2> HIDE DEF next
  <2>3. Moves(p, next)
    BY <2>1, <2>2, WinsMoves
  <2>4. Shim(p) \in Functions
    BY <1>1 DEF Shim, Functions
  <2>5. \A f \in Functions : Before(at[p], f) => Before(next, f)
    BY <1>1, <2>1 DEF Before, Functions
  <2>6. Before(next, Shim(p))
    BY <1>1, <2>1 DEF Before, Shim
  <2>7. TypeOK'
    BY <1>2, <2>2, <2>3, <2>4 DEF TypeInv, TypeOK, Moves, State
  <2>8. StepInv'
    BY <1>1, <1>2, <2>1, <2>3, MoveType
  <2>9. ASSUME NEW q \in Processes, NEW f \in Functions, Before(at[q], f)
         PROVE  Before(at'[q], f)
    BY <2>3, <2>5, <2>9, DownState DEF Moves
  <2>10. ASSUME NEW q \in Processes, NEW f \in dropped'[q]
         PROVE  Before(at'[q], f)
    <3>1. CASE f \in dropped[q]
      BY <2>9, <3>1 DEF ShimsInv, TypeInv, TypeOK
    <3>2. CASE f \notin dropped[q]
      BY <2>2, <2>3, <2>6, <3>2 DEF TypeInv, TypeOK, Moves
    <3> QED BY <3>1, <3>2
  <2>11. ASSUME NEW f \in Functions \ shims', ~ \E q \in Processes : f \in dropped'[q]
         PROVE  ~migrated' /\ \A q \in Processes : Before(at'[q], f)
    <3>1. f \notin shims /\ ~ \E q \in Processes : f \in dropped[q]
      BY <2>2, <2>11 DEF TypeInv, TypeOK
    <3> QED BY <1>2, <2>9, <3>1 DEF ShimsInv
  <2>12. ShimsInv'
    BY <2>10, <2>11 DEF ShimsInv
  <2> QED BY <2>7, <2>8, <2>12 DEF TypeInv
<1> QED BY <1>3, <1>4

\* After a CREATE its function is there, and the others are still before the process
LEMMA DefineKeeps ==
    ASSUME TypeInv, ShimsInv, NEW p \in Processes, DefineShim(p)
    PROVE  TypeInv' /\ ShimsInv'
<1> DEFINE next == IF at[p].n < Overloads THEN [at[p] EXCEPT !.n = @ + 1] ELSE Booted(p)
<1>1. /\ at[p] \in State /\ at[p].step = "define" /\ at[p].boot /\ at[p].db \in created
      /\ at[p].n \in 1..Overloads /\ at[p].db \in Databases
  BY PresentState DEF DefineShim, Is
<1>2. /\ UNCHANGED <<ready, created, migrated, view, faults>> /\ Wins(p, next)
      /\ shims' = shims \cup {Shim(p)} /\ dropped' = [dropped EXCEPT ![p] = @ \ {Shim(p)}]
  BY DEF DefineShim
<1>3. Shim(p) \in Functions
  BY <1>1 DEF Shim, Functions
<1>4. /\ next \in State
      /\ next.step = "ping" \/ (next.step = "define" /\ next.boot /\ next.db = at[p].db)
      /\ \A f \in Functions : Before(at[p], f) /\ f # Shim(p) => Before(next, f)
  <2>1. CASE at[p].n < Overloads
    <3>1. /\ next \in State /\ next.step = "define" /\ next.boot /\ next.db = at[p].db
          /\ next.n = at[p].n + 1
      BY <1>1, <2>1, StartupAssumption DEF State
    <3>2. \A f \in Functions : Before(at[p], f) /\ f # Shim(p) => Before(next, f)
      BY <1>1, <3>1 DEF Before, Functions, Shim
    <3> QED BY <3>1, <3>2
  <2>2. CASE ~(at[p].n < Overloads)
    <3>1. next = Booted(p) /\ at[p].n = Overloads
      BY <1>1, <2>2, StartupAssumption
    <3>2. /\ next \in State /\ next.step = "ping"
          /\ at[p].db = "data" => next.boot /\ next.db = "aux"
          /\ at[p].db = "aux" => ~next.boot
      BY <1>1, <3>1, StartupAssumption DEF Booted, Step, State, Steps, Databases
    <3>3. \A f \in Functions : Before(at[p], f) /\ f # Shim(p) => Before(next, f)
      BY <1>1, <3>1, <3>2, StartupAssumption DEF Before, Functions, Shim, Databases
    <3> QED BY <3>2, <3>3
  <2> QED BY <2>1, <2>2
<1> HIDE DEF next
<1>5. Moves(p, next)
  <2>1. Wins(p, next) /\ next \in State
    BY <1>2, <1>4
  <2> QED BY <2>1, WinsMoves
<1>6. TypeOK'
  <2>1. shims' \subseteq created' \X (1..Overloads)
    BY <1>1, <1>2 DEF TypeInv, TypeOK, Shim
  <2>2. dropped' \in [Processes -> SUBSET Functions]
    BY <1>2 DEF TypeInv, TypeOK
  <2> QED BY <1>2, <1>5, <2>1, <2>2 DEF TypeInv, TypeOK, Moves, State
<1>7. StepInv'
  BY <1>1, <1>2, <1>4, <1>5, MoveType
<1>8. ASSUME NEW q \in Processes, NEW f \in Functions, Before(at[q], f), f # Shim(p) \/ q # p
       PROVE  Before(at'[q], f)
  BY <1>4, <1>5, <1>8, DownState DEF Moves
<1>9. ASSUME NEW q \in Processes, NEW f \in dropped'[q]
       PROVE  Before(at'[q], f)
  <2>1. f \in dropped[q] /\ (f # Shim(p) \/ q # p) /\ f \in Functions
    BY <1>2 DEF TypeInv, TypeOK
  <2> QED BY <1>8, <2>1 DEF ShimsInv
<1>10. ASSUME NEW f \in Functions \ shims', ~ \E q \in Processes : f \in dropped'[q]
       PROVE  ~migrated' /\ \A q \in Processes : Before(at'[q], f)
  <2>1. f \notin shims /\ f # Shim(p) /\ ~ \E q \in Processes : f \in dropped[q]
    BY <1>2, <1>10 DEF TypeInv, TypeOK
  <2> QED BY <1>2, <1>8, <2>1 DEF ShimsInv
<1>11. ShimsInv'
  BY <1>9, <1>10 DEF ShimsInv
<1> QED BY <1>6, <1>7, <1>11 DEF TypeInv

\* A step of a start leaves every function there or before a process that has dropped it
LEMMA StepKeeps ==
    ASSUME TypeInv, ShimsInv, NEW p \in Processes, Advance(p) \/ CreateView(p) \/ Crash(p)
    PROVE  TypeInv' /\ ShimsInv'
<1> USE DEF Is
<1> DEFINE to(s) == [at[p] EXCEPT !.step = s]
<1>a. /\ at[p] \in State /\ at[p].step \in Steps /\ at[p].db \in Databases /\ at[p].boot \in BOOLEAN
      /\ at[p].n \in 1..Overloads
      /\ at[p].step \in {"migrate", "tables", "listen", "serving"} => ~at[p].boot
  BY PresentState
<1>b. faults \in 0..MaxFaults /\ migrated \in BOOLEAN /\ created \subseteq Databases
      /\ ready \in [Processes -> SUBSET Listeners] /\ view \in 0..Overloads
  BY DEF TypeInv, TypeOK
<1>c. \A s \in Steps : to(s) \in State /\ to(s).step = s /\ to(s).boot = at[p].boot /\ to(s).db = at[p].db
  BY <1>a DEF State
<1>d. \A f \in Functions : ~at[p].boot => ~Before(at[p], f)
  BY DEF Before
<1>e. /\ Opened(p) \in State
      /\ at[p].boot => Opened(p).step = "drop" /\ Opened(p).boot /\ Opened(p).db = at[p].db
      /\ ~at[p].boot => Opened(p).step \in {"ping", "migrate"} /\ ~Opened(p).boot
  BY <1>a, StartupAssumption DEF Opened, Step, State, Steps, Databases
<1>f. \A f \in Functions : Before(at[p], f) => Before(Opened(p), f)
  BY <1>e DEF Before
<1>g. \A s \in Steps \ {"define"} : \A f \in Functions : Before(at[p], f) => Before(to(s), f)
  BY <1>c DEF Before
<1> HIDE DEF to
<1>1. CASE Start(p)
  <2> DEFINE next == Step("ping", "data", TRUE)
  <2>1. next \in State /\ next.step = "ping" /\ next.boot /\ next.db = "data"
    BY StartupAssumption DEF State, Steps, Databases, Step
  <2>2. \A f \in Functions : Before(next, f)
    BY <2>1 DEF Before, Functions, Databases
  <2>3. UNCHANGED <<created, shims, migrated, view, faults, dropped>>
        /\ ready' \in [Processes -> SUBSET Listeners] /\ at' = [at EXCEPT ![p] = next]
    BY <1>b, <1>1 DEF Start
  <2> HIDE DEF next
  <2>4. Moves(p, next)
    BY <2>1, <2>3, MovesAlone
  <2> QED BY <1>b, <2>1, <2>2, <2>3, <2>4, MoveKeeps
<1>2. CASE Ping(p)
  <2>1. UNCHANGED <<ready, created, shims, migrated, view, faults, dropped>>
    BY <1>2 DEF Ping
  <2>2. CASE at[p].db \in created
    <3>1. Moves(p, Opened(p))
      BY <1>2, <1>e, <2>2, MovesAlone DEF Ping
    <3>2. Opened(p).step \in {"drop", "define"} => Opened(p).boot /\ Opened(p).db \in created'
      BY <1>a, <1>e, <2>1, <2>2
    <3>3. Opened(p).step \in {"migrate", "tables", "listen", "serving"} => ~Opened(p).boot
      BY <1>a, <1>e
    <3> QED BY <1>a, <1>b, <1>e, <1>f, <2>1, <3>1, <3>2, <3>3, MoveKeeps
  <2>3. CASE at[p].db \notin created
    <3>1. Moves(p, to("create")) /\ to("create") \in State
      BY <1>2, <1>c, <2>3, MovesAlone DEF Ping, GoTo, Steps, to
    <3>2. to("create").step = "create" /\ \A f \in Functions : Before(at[p], f) => Before(to("create"), f)
      BY <1>c, <1>g DEF Steps
    <3> QED BY <1>b, <2>1, <3>1, <3>2, MoveKeeps
  <2> QED BY <2>2, <2>3
<1>3. CASE CreateDatabase(p)
  <2>1. UNCHANGED <<ready, shims, migrated, view, faults, dropped>>
    BY <1>3 DEF CreateDatabase
  <2>2. CASE at[p].db \in created
    <3>1. Moves(p, Down) /\ created' = created
      BY <1>3, <2>2, DownState, MovesAlone DEF CreateDatabase
    <3> QED BY <1>b, <2>1, <3>1, DownState, MoveKeeps
  <2>3. CASE at[p].db \notin created
    <3>1. Moves(p, Opened(p)) /\ created' = created \cup {at[p].db}
      BY <1>3, <1>e, <2>3, MovesAlone DEF CreateDatabase
    <3>2. created \subseteq created' /\ created' \subseteq Databases
      BY <1>a, <1>b, <3>1
    <3>3. Opened(p).step \in {"drop", "define"} => Opened(p).boot /\ Opened(p).db \in created'
      BY <1>a, <1>e, <3>1
    <3>4. Opened(p).step \in {"migrate", "tables", "listen", "serving"} => ~Opened(p).boot
      BY <1>a, <1>e
    <3> QED BY <1>a, <1>b, <1>e, <1>f, <2>1, <3>1, <3>2, <3>3, <3>4, MoveKeeps
  <2> QED BY <2>2, <2>3
<1>4. CASE DropShim(p) \/ DefineShim(p)
  BY <1>4, DropKeeps, DefineKeeps
<1>5. CASE Migrate(p)
  <2>1. UNCHANGED <<ready, created, shims, view, faults, dropped>> /\ migrated' = TRUE /\ ~at[p].boot
    BY <1>5, <1>a DEF Migrate
  <2>2. to("tables") \in State /\ to("tables").step = "tables" /\ ~to("tables").boot
    BY <1>c, <2>1 DEF Steps
  <2>3. Moves(p, to("tables"))
    BY <1>5, <2>2, MovesAlone, WinsMoves DEF Migrate, GoTo, to
  <2> QED BY <1>b, <1>d, <2>1, <2>2, <2>3, MoveKeeps
<1>6. CASE CreateTables(p)
  <2>1. UNCHANGED <<ready, created, shims, migrated, view, faults, dropped>> /\ ~at[p].boot
    BY <1>6, <1>a DEF CreateTables
  <2>2. to("listen") \in State /\ to("listen").step = "listen" /\ ~to("listen").boot
    BY <1>c, <2>1 DEF Steps
  <2>3. Moves(p, to("listen"))
    BY <1>6, <2>2, WinsMoves DEF CreateTables, to
  <2> QED BY <1>b, <1>d, <2>1, <2>2, <2>3, MoveKeeps
<1>7. CASE Serve(p)
  <2>1. UNCHANGED <<ready, created, shims, migrated, view, faults, dropped>> /\ ~at[p].boot
    BY <1>7, <1>a DEF Serve
  <2>2. to("serving") \in State /\ to("serving").step = "serving" /\ ~to("serving").boot
    BY <1>c, <2>1 DEF Steps
  <2>3. Moves(p, to("serving"))
    BY <1>7, <2>2, MovesAlone DEF Serve, GoTo, to
  <2> QED BY <1>b, <1>d, <2>1, <2>2, <2>3, MoveKeeps
<1>8. CASE CreateView(p) \/ \E l \in Listeners : Listen(p, l)
  <2>1. UNCHANGED <<at, created, shims, migrated, faults, dropped>>
    BY <1>8 DEF CreateView, Listen
  <2>2. view' \in 0..Overloads
    <3>1. CASE CreateView(p)
      BY <3>1, StartupAssumption DEF CreateView
    <3>2. CASE \E l \in Listeners : Listen(p, l)
      BY <1>b, <3>2 DEF Listen
    <3> QED BY <1>8, <3>1, <3>2
  <2>3. ready' \in [Processes -> SUBSET Listeners]
    BY <1>b, <1>8 DEF CreateView, Listen
  <2> QED BY <1>b, <2>1, <2>2, <2>3 DEF TypeInv, TypeOK, StepInv, ShimsInv
<1>9. CASE Crash(p)
  <2>1. UNCHANGED <<created, shims, migrated, view, dropped>> /\ ready' \in [Processes -> SUBSET Listeners]
    BY <1>b, <1>9 DEF Crash
  <2>2. faults' \in 0..MaxFaults
    BY <1>b, <1>9, StartupAssumption DEF Crash
  <2>3. Moves(p, Down)
    BY <1>9, DownState, MovesAlone DEF Crash
  <2> QED BY <1>b, <2>1, <2>2, <2>3, DownState, MoveKeeps
<1> QED BY <1>1, <1>2, <1>3, <1>4, <1>5, <1>6, <1>7, <1>8, <1>9 DEF Advance

\* The inductive invariant of the starts
THEOREM ShimsInvariant == Spec => [](TypeInv /\ ShimsInv)
<1>1. Init => TypeInv /\ ShimsInv
  <2> SUFFICES ASSUME Init PROVE TypeInv /\ ShimsInv
    OBVIOUS
  <2>1. at \in [Processes -> State] /\ \A p \in Processes : at[p] = Down
    BY DownState DEF Init
  <2>2. migrated \in BOOLEAN /\ ~migrated
    BY Zenon DEF Init
  <2>3. faults \in 0..MaxFaults /\ view \in 0..Overloads
    BY StartupAssumption DEF Init
  <2>4. ready \in [Processes -> SUBSET Listeners] /\ dropped \in [Processes -> SUBSET Functions]
    BY DEF Init
  <2>5. created \subseteq Databases /\ shims \subseteq created \X (1..Overloads)
    BY DEF Init
  <2>6. TypeOK
    BY <2>1, <2>2, <2>3, <2>4, <2>5 DEF TypeOK, State
  <2>7. StepInv
    BY <2>1, DownState DEF StepInv
  <2>8. \A p \in Processes : dropped[p] = {}
    BY DEF Init
  <2> QED BY <2>1, <2>2, <2>6, <2>7, <2>8, DownState DEF TypeInv, ShimsInv
<1>2. TypeInv /\ ShimsInv /\ [Next]_vars => (TypeInv /\ ShimsInv)'
  <2>1. CASE UNCHANGED vars
    BY <2>1 DEF vars, TypeInv, TypeOK, StepInv, ShimsInv
  <2> QED BY <2>1, StepKeeps DEF Next
<1> QED BY <1>1, <1>2, PTL DEF Spec

\* Every variable keeps its type, and the shims are in databases that exist
THEOREM TypeCorrect == Spec => []TypeOK
BY ShimsInvariant, PTL DEF TypeInv

\* No start that gets through, whatever races it wins or loses and whoever ends beside
\* it, leaves the others without a function json_extract
THEOREM StartsDefineWhatTheyDrop == Spec => []FunctionsComeBack
<1>1. ShimsInv => FunctionsComeBack
  BY DEF ShimsInv, FunctionsComeBack
<1> QED BY <1>1, ShimsInvariant, PTL
=============================================================================
