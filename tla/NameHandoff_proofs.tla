------------------------ MODULE NameHandoff_proofs ------------------------
(***************************************************************************)
(* TLAPS proofs about the hand-off of Apple's names, for any processes,    *)
(* logins and keys, and any time a name is kept.                           *)
(***************************************************************************)
EXTENDS NameHandoff, TLAPS

\* The name n was stored under the key k of the place s
Holds(n, s, k) == n \in 1..stores /\ history[n].key = k /\ Place(history[n].proc) = s

\* A row holds the newest name of its key, for what is left of its time
RowOK(s, k) ==
    LET row == store[s][k] IN
    /\ row.name = 0 => row.left = 0
    /\ row.name # 0 =>
         /\ Holds(row.name, s, k)
         /\ row.left + history[row.name].age = TTL
         /\ \A m \in 1..stores : Holds(m, s, k) => m <= row.name

RowInv == \A s \in Places, k \in Keys : RowOK(s, k)

\* A timer was started with a name of its key, and fires when that one's time is over
TimerOK(t) == Holds(t.name, t.proc, t.key) /\ t.left + history[t.name].age = TTL
TimerInv == \A t \in timers : TimerOK(t)

\* The name in a process without the table has its timer still to come
LateInv == \A s \in WithoutKV, k \in Keys :
    store[s][k].name # 0 => \E t \in timers : t.proc = s /\ t.key = k /\ t.name = store[s][k].name

\* Between its two statements a login has a name that was stored under its key
LoginOK(l) ==
    /\ login[l].at = "start" => login[l].name = 0
    /\ login[l].at = "delete" =>
         /\ Holds(login[l].name, Place(login[l].proc), login[l].key)
         /\ history[login[l].name].fetched > 0
LoginInv == \A l \in Logins : LoginOK(l)

FutureInv == \A n \in 1..MaxStores : n > stores => history[n].age = 0 /\ history[n].fetched = 0

HandoffInv == TypeOK /\ RowInv /\ TimerInv /\ LoginInv /\ FutureInv

\* A name that is still there though it was fetched has its login about to delete it
Deleting(s, k) == \E l \in Logins :
    login[l].at = "delete" /\ login[l].key = k /\ Place(login[l].proc) = s
OnceInv ==
    faults = 0 => \A s \in Places, k \in Keys :
        (store[s][k].name # 0 /\ history[store[s][k].name].fetched > 0) => Deleting(s, k)

-----------------------------------------------------------------------------
\* Two processes have a place in common exactly if they hand names to each other
LEMMA SharedPlace ==
    ASSUME NEW p, NEW q
    PROVE  Share(p, q) <=> Place(p) = Place(q)
BY HandoffAssumption DEF Share, Place

\* The place where a process keeps names is one of the places
LEMMA PlaceType ==
    ASSUME NEW p \in Processes
    PROVE  Place(p) \in Places
BY DEF Place, Places

\* The names stored for a process are the ones of its place
LEMMA StoredHolds ==
    ASSUME NEW p, NEW k, NEW n
    PROVE  n \in Stored(p, k) <=> Holds(n, Place(p), k)
BY SharedPlace DEF Stored, Holds

\* What a row, a timer and a login are
LEMMA Fields ==
    ASSUME TypeOK
    PROVE  /\ stores \in Nat /\ stores <= MaxStores /\ TTL \in Nat /\ TTL > 0 /\ MaxStores \in Nat
           /\ \A s \in Places, k \in Keys : store[s][k].name \in 0..MaxStores /\ store[s][k].left \in 0..TTL
           /\ \A n \in 1..MaxStores : history[n].age \in 0..TTL /\ history[n].fetched \in Nat
           /\ \A t \in timers : /\ t.proc \in WithoutKV /\ t.key \in Keys
                                  /\ t.name \in 1..MaxStores /\ t.left \in 0..TTL
BY HandoffAssumption DEF TypeOK, Rows

\* A step that stores nothing new, and takes some names, timers or logins away
LEMMA RemovalKeeps ==
    ASSUME HandoffInv, UNCHANGED <<stores, history>>, timers' \subseteq timers,
           \A s \in Places, k \in Keys : store'[s][k] = store[s][k] \/ store'[s][k] = Nothing,
           \A l \in Logins : login'[l] = login[l] \/ (login'[l].at = "done"),
           store' \in [Places -> [Keys -> Rows]],
           login' \in [Logins -> [at : {"start", "delete", "done"}, proc : Processes \cup {"none"},
                                  key : Keys \cup {"none"}, name : 0..MaxStores]],
           faults' \in 0..MaxFaults
    PROVE  HandoffInv'
<1> USE DEF HandoffInv
<1>1. TypeOK'
  BY DEF TypeOK
<1>2. RowInv'
  BY DEF RowInv, RowOK, Holds, Nothing
<1>3. TimerInv' /\ FutureInv'
  BY DEF TimerInv, TimerOK, FutureInv, Holds
<1>4. LoginInv'
  BY DEF LoginInv, LoginOK, Holds
<1> QED BY <1>1, <1>2, <1>3, <1>4

\* A redirect stores a name that is newer than every other
LEMMA RedirectKeeps ==
    ASSUME HandoffInv, NEW p \in Processes, NEW k \in Keys, Redirect(p, k)
    PROVE  HandoffInv'
<1> USE HandoffAssumption DEF HandoffInv
<1>0. PICK n : n = stores + 1
  OBVIOUS
<1>1. n \in 1..MaxStores /\ stores' = n /\ stores \in Nat /\ TTL \in 0..TTL /\ Place(p) \in Places
  BY <1>0, Fields, PlaceType DEF Redirect
<1>2. [name |-> n, left |-> TTL] \in Rows
  BY <1>1 DEF Rows
<1>3. store' \in [Places -> [Keys -> Rows]]
      /\ store'[Place(p)][k] = [name |-> n, left |-> TTL]
      /\ \A s \in Places, j \in Keys : (s # Place(p) \/ j # k) => store'[s][j] = store[s][j]
  BY <1>1, <1>2 DEF Redirect, TypeOK
<1>4. \A t \in timers' : t \in timers \/ (p \in WithoutKV /\ t = [proc |-> p, key |-> k, name |-> n, left |-> TTL])
  BY <1>1 DEF Redirect
<1>5. /\ history' \in [1..MaxStores -> [key : Keys \cup {"none"}, proc : Processes \cup {"none"},
                                       age : 0..TTL, fetched : Nat]]
      /\ \A m \in 1..MaxStores : history'[m].age = history[m].age /\ history'[m].fetched = history[m].fetched
      /\ \A m \in 1..MaxStores : m # n => history'[m] = history[m]
      /\ history'[n].key = k /\ history'[n].proc = p
  <2>1. history' = [history EXCEPT ![n] = [history[n] EXCEPT !.key = k, !.proc = p]]
    BY <1>1 DEF Redirect, TypeOK
  <2>2. history[n] \in [key : Keys \cup {"none"}, proc : Processes \cup {"none"}, age : 0..TTL, fetched : Nat]
    BY <1>1 DEF TypeOK
  <2> QED BY <1>1, <2>1, <2>2 DEF TypeOK
<1>6. history[n].age = 0 /\ history[n].fetched = 0
  BY <1>0, <1>1 DEF FutureInv
<1>7. TypeOK'
  <2>1. timers' \subseteq [proc : WithoutKV, key : Keys, name : 1..MaxStores, left : 0..TTL]
    BY <1>1, <1>4 DEF TypeOK
  <2> QED BY <1>1, <1>3, <1>5, <2>1 DEF TypeOK, Redirect
<1>8. /\ \A m, s, j : m \in 1..stores => (Holds(m, s, j)' <=> Holds(m, s, j))
      /\ \A s, j : Holds(n, s, j)' <=> s = Place(p) /\ j = k
      /\ \A m, s, j : Holds(m, s, j)' => m = n \/ Holds(m, s, j)
  <2>1. ASSUME NEW m \in 1..stores PROVE m # n /\ m \in 1..stores' /\ history'[m] = history[m]
    BY <1>1, <1>5, <1>0, Fields
  <2>2. ASSUME NEW m \in 1..stores' PROVE m = n \/ m \in 1..stores
    BY <1>0, <1>1
  <2>3. n \in 1..stores'
    BY <1>1
  <2>4. ASSUME NEW m \in 1..stores, NEW s, NEW j PROVE Holds(m, s, j)' <=> Holds(m, s, j)
    BY <2>1 DEF Holds
  <2>5. ASSUME NEW s, NEW j PROVE Holds(n, s, j)' <=> s = Place(p) /\ j = k
    BY <1>5, <2>3 DEF Holds
  <2>6. ASSUME NEW m, NEW s, NEW j, Holds(m, s, j)' PROVE m = n \/ Holds(m, s, j)
    <3>1. m \in 1..stores'
      BY <2>6 DEF Holds
    <3> QED BY <2>2, <2>4, <2>6, <3>1
  <2> QED BY <2>4, <2>5, <2>6
<1>9. RowInv'
  <2> SUFFICES ASSUME NEW s \in Places, NEW j \in Keys PROVE RowOK(s, j)'
    BY DEF RowInv
  <2>1. CASE s = Place(p) /\ j = k
    BY <1>0, <1>1, <1>3, <1>5, <1>6, <1>8, <2>1 DEF RowOK, Holds
  <2>2. CASE ~(s = Place(p) /\ j = k)
    <3>1. RowOK(s, j) /\ store'[s][j] = store[s][j]
      BY <1>3, <2>2 DEF RowInv
    <3>2. store[s][j].name # 0 => store[s][j].name \in 1..MaxStores
      BY Fields
    <3>3. CASE store[s][j].name = 0
      BY <3>1, <3>3 DEF RowOK
    <3>4. ASSUME store[s][j].name # 0, NEW o, o = store[s][j].name
          PROVE  /\ Holds(o, s, j)' /\ history'[o].age = history[o].age
                 /\ \A m \in 1..stores' : Holds(m, s, j)' => m <= o
      <4>1. o \in 1..stores /\ Holds(o, s, j)
        BY <3>1, <3>4 DEF RowOK, Holds
      <4>2. Holds(o, s, j)' /\ history'[o].age = history[o].age
        BY <1>5, <1>8, <3>2, <3>4, <4>1
      <4>3. ASSUME NEW m \in 1..stores', Holds(m, s, j)' PROVE m <= o
        <5>1. m # n /\ Holds(m, s, j)
          BY <1>8, <2>2, <4>3
        <5> QED BY <3>1, <3>4, <5>1 DEF RowOK, Holds
      <4> QED BY <4>2, <4>3
    <3> QED BY <3>1, <3>3, <3>4 DEF RowOK
  <2> QED BY <2>1, <2>2
<1>10. TimerInv'
  <2> SUFFICES ASSUME NEW t \in timers' PROVE TimerOK(t)'
    BY DEF TimerInv
  <2>1. CASE t \in timers
    <3>1. PICK m \in 1..stores : m = t.name /\ Holds(m, t.proc, t.key) /\ t.left + history[m].age = TTL
      BY <2>1 DEF TimerInv, TimerOK, Holds
    <3>2. m \in 1..stores' /\ m \in 1..MaxStores
      BY <1>1, <1>0, Fields
    <3>3. Holds(m, t.proc, t.key)' /\ history'[m].age = history[m].age
      BY <1>5, <1>8, <3>1, <3>2
    <3> QED BY <3>1, <3>2, <3>3 DEF TimerOK
  <2>2. CASE p \in WithoutKV /\ t = [proc |-> p, key |-> k, name |-> n, left |-> TTL]
    <3>1. Holds(n, t.proc, t.key)' /\ n \in 1..stores'
      BY <1>0, <1>1, <1>8, <2>2 DEF Place
    <3>2. t.left + history'[n].age = TTL
      BY <1>1, <1>5, <1>6, <2>2, Fields
    <3>3. t.name = n
      BY <2>2
    <3> QED BY <3>1, <3>2, <3>3 DEF TimerOK
  <2> QED BY <1>4, <2>1, <2>2
<1>11. LoginInv'
  <2>1. login' = login
    BY DEF Redirect
  <2> SUFFICES ASSUME NEW l \in Logins PROVE LoginOK(l)'
    BY DEF LoginInv
  <2>2. LoginOK(l)
    BY DEF LoginInv
  <2>3. login[l].at = "delete" => login[l].name \in 1..stores /\ login[l].name \in 1..MaxStores
    BY <2>2, Fields DEF LoginOK, Holds
  <2> QED BY <1>5, <1>8, <2>1, <2>2, <2>3 DEF LoginOK
<1>12. FutureInv'
  BY <1>0, <1>1, <1>5, Fields DEF FutureInv
<1> QED BY <1>7, <1>9, <1>10, <1>11, <1>12

\* A login takes the newest name, or none
LEMMA GetKeeps ==
    ASSUME HandoffInv, NEW l \in Logins, NEW p \in Processes, NEW k \in Keys, Get(l, p, k)
    PROVE  HandoffInv'
<1> USE HandoffAssumption DEF HandoffInv
<1> DEFINE row == store[Place(p)][k]
<1>0. UNCHANGED <<store, timers, stores, faults>> /\ Place(p) \in Places
  BY PlaceType DEF Get
<1>1. CASE Readable(p, row)
  <2>1. row.name \in 0..MaxStores /\ row.name # 0
    BY <1>0, <1>1, Fields DEF Readable
  <2>2. row.name \in 1..stores /\ Holds(row.name, Place(p), k)
    BY <1>0, <2>1 DEF RowInv, RowOK, Holds
  <2>3. /\ login' = [login EXCEPT ![l] = [at |-> "delete", proc |-> p, key |-> k, name |-> row.name]]
        /\ history' = [history EXCEPT ![row.name] = [history[row.name] EXCEPT !.fetched = @ + 1]]
    BY <1>1, <2>2, Fields DEF Get, TypeOK
  <2> HIDE DEF row
  <2>4. row.name \in 1..MaxStores
    BY <2>1, <2>2, Fields
  <2>5. /\ history' \in [1..MaxStores -> [key : Keys \cup {"none"}, proc : Processes \cup {"none"},
                                         age : 0..TTL, fetched : Nat]]
        /\ \A m \in 1..MaxStores :
             /\ history'[m].age = history[m].age /\ history'[m].key = history[m].key
             /\ history'[m].proc = history[m].proc
             /\ history'[m].fetched = IF m = row.name THEN history[m].fetched + 1 ELSE history[m].fetched
    <3>1. history[row.name] \in [key : Keys \cup {"none"}, proc : Processes \cup {"none"},
                                 age : 0..TTL, fetched : Nat]
      BY <2>4 DEF TypeOK
    <3> DEFINE h == [history[row.name] EXCEPT !.fetched = @ + 1]
    <3>2. h \in [key : Keys \cup {"none"}, proc : Processes \cup {"none"}, age : 0..TTL, fetched : Nat]
          /\ h.age = history[row.name].age /\ h.key = history[row.name].key
          /\ h.proc = history[row.name].proc /\ h.fetched = history[row.name].fetched + 1
      BY <3>1
    <3>3. history' = [history EXCEPT ![row.name] = h]
      BY <2>3
    <3> HIDE DEF h
    <3> QED BY <2>4, <3>2, <3>3 DEF TypeOK
  <2>6. TypeOK'
    BY <1>0, <2>1, <2>3, <2>5 DEF TypeOK
  <2>7. \A m, s, j : Holds(m, s, j)' <=> Holds(m, s, j)
    BY <1>0, <2>5, Fields DEF Holds
  <2>8. RowInv'
    <3> SUFFICES ASSUME NEW s \in Places, NEW j \in Keys PROVE RowOK(s, j)'
      BY DEF RowInv
    <3>1. RowOK(s, j) /\ store'[s][j] = store[s][j]
      BY <1>0 DEF RowInv
    <3>2. store[s][j].name # 0 => store[s][j].name \in 1..MaxStores
      BY Fields
    <3>3. store'[s][j].name # 0 => history'[store'[s][j].name].age = history[store[s][j].name].age
      BY <2>5, <3>1, <3>2
    <3>4. CASE store[s][j].name = 0
      BY <3>1, <3>4 DEF RowOK
    <3>5. CASE store[s][j].name # 0
      <4>1. stores' = stores
        BY <1>0
      <4> QED BY <2>7, <3>1, <3>3, <3>5, <4>1 DEF RowOK
    <3> QED BY <3>4, <3>5
  <2>9. TimerInv'
    <3> SUFFICES ASSUME NEW t \in timers PROVE TimerOK(t)'
      BY <1>0 DEF TimerInv
    <3>1. PICK m \in 1..stores : m = t.name /\ Holds(m, t.proc, t.key) /\ t.left + history[m].age = TTL
      BY DEF TimerInv, TimerOK, Holds
    <3>2. m \in 1..MaxStores
      BY Fields
    <3>3. history'[m].age = history[m].age
      BY <2>5, <3>2
    <3> QED BY <1>0, <2>7, <3>1, <3>3 DEF TimerOK
  <2>10. LoginInv'
    <3> SUFFICES ASSUME NEW m \in Logins PROVE LoginOK(m)'
      BY DEF LoginInv
    <3>1. CASE m = l
      <4>1. login'[m] = [at |-> "delete", proc |-> p, key |-> k, name |-> row.name]
        BY <2>3, <3>1 DEF TypeOK
      <4>2. history'[row.name].fetched > 0
        <5>1. history[row.name].fetched \in Nat
          BY <2>4, Fields
        <5>2. history'[row.name].fetched = history[row.name].fetched + 1
          BY <2>4, <2>5
        <5> QED BY <5>1, <5>2
      <4> QED BY <2>2, <2>7, <4>1, <4>2 DEF LoginOK
    <3>2. CASE m # l
      <4>1. LoginOK(m) /\ login'[m] = login[m]
        BY <2>3, <3>2 DEF LoginInv, TypeOK
      <4>2. login[m].at = "delete" => login[m].name \in 1..MaxStores
        BY <4>1, Fields DEF LoginOK, Holds
      <4>3. ASSUME NEW n \in 1..MaxStores, history[n].fetched > 0 PROVE history'[n].fetched > 0
        <5>1. history[n].fetched \in Nat
          BY Fields
        <5>2. history'[n].fetched = IF n = row.name THEN history[n].fetched + 1 ELSE history[n].fetched
          BY <2>5
        <5> QED BY <4>3, <5>1, <5>2
      <4> QED BY <2>7, <4>1, <4>2, <4>3 DEF LoginOK
    <3> QED BY <3>1, <3>2
  <2>11. FutureInv'
    <3>1. \A m \in 1..MaxStores : m > stores => m # row.name
      BY <2>2, Fields
    <3> QED BY <1>0, <2>5, <3>1 DEF FutureInv
  <2> QED BY <2>6, <2>8, <2>9, <2>10, <2>11
<1>2. CASE ~Readable(p, row)
  <2>1. /\ login' = [login EXCEPT ![l] = [at |-> "done", proc |-> p, key |-> k, name |-> 0]]
        /\ UNCHANGED history
    BY <1>2 DEF Get
  <2>2. login' \in [Logins -> [at : {"start", "delete", "done"}, proc : Processes \cup {"none"},
                               key : Keys \cup {"none"}, name : 0..MaxStores]]
    BY <2>1 DEF TypeOK
  <2>3. \A m \in Logins : login'[m] = login[m] \/ login'[m].at = "done"
    BY <2>1 DEF TypeOK
  <2>4. store' \in [Places -> [Keys -> Rows]] /\ faults' \in 0..MaxFaults
    BY <1>0 DEF TypeOK
  <2> HIDE DEF HandoffInv
  <2> QED BY <1>0, <2>1, <2>2, <2>3, <2>4, RemovalKeeps
<1> QED BY <1>1, <1>2

\* Time passes for a row as for its name
LEMMA TickKeeps ==
    ASSUME HandoffInv, Tick
    PROVE  HandoffInv'
<1> USE HandoffAssumption DEF HandoffInv
<1>1. UNCHANGED <<login, stores, faults>> 
  BY DEF Tick
<1>2. \A s \in Places, k \in Keys : store'[s][k] = Older(store[s][k])
  BY DEF Tick
<1>3. DOMAIN history = 1..MaxStores
  BY DEF TypeOK
<1>4. \A n \in 1..MaxStores : history'[n] =
         IF n <= stores /\ history[n].age < TTL THEN [history[n] EXCEPT !.age = @ + 1] ELSE history[n]
  BY <1>3 DEF Tick
<1>5. \A n \in 1..MaxStores :
         history[n] \in [key : Keys \cup {"none"}, proc : Processes \cup {"none"}, age : 0..TTL, fetched : Nat]
  BY DEF TypeOK
<1>6. \A n \in 1..MaxStores :
         /\ history'[n] \in [key : Keys \cup {"none"}, proc : Processes \cup {"none"}, age : 0..TTL, fetched : Nat]
         /\ history'[n].key = history[n].key /\ history'[n].proc = history[n].proc
         /\ history'[n].fetched = history[n].fetched
         /\ history'[n].age = IF n <= stores /\ history[n].age < TTL THEN history[n].age + 1 ELSE history[n].age
  <2> SUFFICES ASSUME NEW n \in 1..MaxStores
      PROVE  /\ history'[n] \in [key : Keys \cup {"none"}, proc : Processes \cup {"none"}, age : 0..TTL, fetched : Nat]
             /\ history'[n].key = history[n].key /\ history'[n].proc = history[n].proc
             /\ history'[n].fetched = history[n].fetched
             /\ history'[n].age = IF n <= stores /\ history[n].age < TTL THEN history[n].age + 1 ELSE history[n].age
    OBVIOUS
  <2>1. CASE n <= stores /\ history[n].age < TTL
    <3>1. history'[n] = [history[n] EXCEPT !.age = @ + 1]
      BY <1>4, <2>1
    <3>2. history[n].age + 1 \in 0..TTL
      BY <2>1, Fields
    <3> QED BY <1>5, <2>1, <3>1, <3>2
  <2>2. CASE ~(n <= stores /\ history[n].age < TTL)
    BY <1>4, <1>5, <2>2
  <2> QED BY <2>1, <2>2
<1>7. \A s \in Places, k \in Keys :
         LET row == store[s][k] IN
         /\ Older(row) \in Rows /\ Older(row).name = row.name
         /\ Older(row).left = IF row.left = 0 THEN 0 ELSE row.left - 1
  <2> SUFFICES ASSUME NEW s \in Places, NEW k \in Keys
               PROVE  /\ Older(store[s][k]) \in Rows /\ Older(store[s][k]).name = store[s][k].name
                      /\ Older(store[s][k]).left = IF store[s][k].left = 0 THEN 0 ELSE store[s][k].left - 1
    OBVIOUS
  <2>1. store[s][k] \in Rows /\ TTL \in Nat
    BY Fields DEF TypeOK
  <2> QED BY <2>1 DEF Rows, Older
<1>8. \A t \in timers' : \E u \in timers : t.proc = u.proc /\ t.key = u.key /\ t.name = u.name
                                        /\ t.left = (IF u.left = 0 THEN 0 ELSE u.left - 1)
                                        /\ t \in [proc : WithoutKV, key : Keys, name : 1..MaxStores, left : 0..TTL]
  <2> SUFFICES ASSUME NEW u \in timers
               PROVE  LET t == Older(u) IN
                      /\ t.proc = u.proc /\ t.key = u.key /\ t.name = u.name
                      /\ t.left = (IF u.left = 0 THEN 0 ELSE u.left - 1)
                      /\ t \in [proc : WithoutKV, key : Keys, name : 1..MaxStores, left : 0..TTL]
    BY DEF Tick
  <2>1. u \in [proc : WithoutKV, key : Keys, name : 1..MaxStores, left : 0..TTL] /\ TTL \in Nat
    BY Fields DEF TypeOK
  <2> QED BY <2>1 DEF Older
<1>9. TypeOK'
  <2>1. store' \in [Places -> [Keys -> Rows]]
    BY <1>7 DEF Tick
  <2>2. history' \in [1..MaxStores -> [key : Keys \cup {"none"}, proc : Processes \cup {"none"},
                                       age : 0..TTL, fetched : Nat]]
    BY <1>3, <1>6 DEF Tick
  <2>3. timers' \subseteq [proc : WithoutKV, key : Keys, name : 1..MaxStores, left : 0..TTL]
    BY <1>8
  <2> QED BY <1>1, <2>1, <2>2, <2>3 DEF TypeOK
<1>10. \A n, s, k : Holds(n, s, k)' <=> Holds(n, s, k)
  <2> SUFFICES ASSUME NEW n \in 1..stores, NEW s, NEW k PROVE Holds(n, s, k)' <=> Holds(n, s, k)
    BY <1>1 DEF Holds
  <2>1. n \in 1..MaxStores
    BY Fields
  <2> QED BY <1>1, <1>6, <2>1 DEF Holds
<1>11. RowInv'
  <2> SUFFICES ASSUME NEW s \in Places, NEW k \in Keys PROVE RowOK(s, k)'
    BY DEF RowInv
  <2>1. RowOK(s, k) /\ store'[s][k].name = store[s][k].name
        /\ store'[s][k].left = IF store[s][k].left = 0 THEN 0 ELSE store[s][k].left - 1
    BY <1>2, <1>7 DEF RowInv
  <2>2. CASE store[s][k].name = 0
    BY <2>1, <2>2 DEF RowOK
  <2>3. ASSUME NEW n, n = store[s][k].name, n # 0
        PROVE  store'[s][k].left + history'[n].age = TTL
    <3>1. n \in 1..stores /\ store[s][k].left + history[n].age = TTL
      BY <2>1, <2>3 DEF RowOK, Holds
    <3>2. n \in 1..MaxStores /\ n <= stores /\ history[n].age \in Nat /\ store[s][k].left \in Nat
      BY <3>1, Fields
    <3> QED BY <1>6, <2>1, <3>1, <3>2, Fields
  <2> QED BY <1>1, <1>10, <2>1, <2>2, <2>3 DEF RowOK
<1>12. TimerInv'
  <2> SUFFICES ASSUME NEW t \in timers' PROVE TimerOK(t)'
    BY DEF TimerInv
  <2>1. PICK u \in timers : /\ t.proc = u.proc /\ t.key = u.key /\ t.name = u.name
                               /\ t.left = (IF u.left = 0 THEN 0 ELSE u.left - 1)
    BY <1>8
  <2>2. PICK n \in 1..stores : n = u.name /\ Holds(n, u.proc, u.key) /\ u.left + history[n].age = TTL
    BY DEF TimerInv, TimerOK, Holds
  <2>3. n \in 1..MaxStores /\ n <= stores /\ history[n].age \in Nat /\ u.left \in Nat
    BY <1>1, Fields
  <2>4. t.left + history'[n].age = TTL
    BY <1>6, <2>1, <2>2, <2>3, Fields
  <2> QED BY <1>1, <1>10, <2>1, <2>2, <2>4 DEF TimerOK
<1>13. LoginInv'
  <2> SUFFICES ASSUME NEW l \in Logins PROVE LoginOK(l)'
    BY DEF LoginInv
  <2>1. LoginOK(l)
    BY DEF LoginInv
  <2>2. login[l].at = "delete" => login[l].name \in 1..MaxStores
    BY <2>1, Fields DEF LoginOK, Holds
  <2> QED BY <1>1, <1>6, <1>10, <2>1, <2>2 DEF LoginOK
<1>14. FutureInv'
  BY <1>1, <1>6, Fields DEF FutureInv
<1> QED BY <1>9, <1>11, <1>12, <1>13, <1>14

\* A row is cleared
LEMMA Cleared ==
    ASSUME TypeOK, NEW s \in Places, NEW k \in Keys, store' = [store EXCEPT ![s][k] = Nothing]
    PROVE  /\ store' \in [Places -> [Keys -> Rows]]
           /\ store'[s][k] = Nothing
           /\ \A q \in Places, j \in Keys : (q # s \/ j # k) => store'[q][j] = store[q][j]
<1>1. Nothing \in Rows
  BY HandoffAssumption DEF Nothing, Rows
<1>2. store \in [Places -> [Keys -> Rows]]
  BY DEF TypeOK
<1> QED BY <1>1, <1>2

\* The steps that take away
LEMMA RemovalEffect ==
    ASSUME TypeOK,
           \/ \E l \in Logins : Delete(l)
           \/ \E t \in timers : Fire(t)
           \/ \E l \in Logins, p \in Processes, k \in Keys : StatementFails(l, p, k)
           \/ \E p \in Processes : Crash(p)
    PROVE  /\ UNCHANGED <<stores, history>> /\ timers' \subseteq timers
           /\ \A s \in Places, k \in Keys : store'[s][k] = store[s][k] \/ store'[s][k] = Nothing
           /\ \A l \in Logins : login'[l] = login[l] \/ (login'[l].at = "done")
           /\ \A l \in Logins : login[l].at = "start" => login'[l].name \in {0, login[l].name}
           /\ store' \in [Places -> [Keys -> Rows]]
           /\ login' \in [Logins -> [at : {"start", "delete", "done"}, proc : Processes \cup {"none"},
                                     key : Keys \cup {"none"}, name : 0..MaxStores]]
           /\ faults' \in 0..MaxFaults
<1> USE HandoffAssumption DEF TypeOK
<1>0. Nothing \in Rows
  BY DEF Nothing, Rows
<1> DEFINE State == [at : {"start", "delete", "done"}, proc : Processes \cup {"none"},
                     key : Keys \cup {"none"}, name : 0..MaxStores]
           done(l) == [login[l] EXCEPT !.at = "done"]
<1>00. \A l \in Logins : done(l) \in State /\ done(l).at = "done" /\ done(l).name = login[l].name
  <2> SUFFICES ASSUME NEW l \in Logins
               PROVE  done(l) \in State /\ done(l).at = "done" /\ done(l).name = login[l].name
    OBVIOUS
  <2>1. login[l] \in State
    OBVIOUS
  <2> QED BY ONLY <2>1
<1>1. ASSUME NEW l \in Logins, Delete(l)
      PROVE  /\ \A s \in Places, k \in Keys : store'[s][k] = store[s][k] \/ store'[s][k] = Nothing
             /\ store' \in [Places -> [Keys -> Rows]]
             /\ login' = [login EXCEPT ![l] = done(l)] /\ UNCHANGED <<timers, stores, history, faults>>
  <2> DEFINE s == Place(login[l].proc)
             k == login[l].key
  <2>1. store' = [store EXCEPT ![s][k] = Nothing] /\ login' = [login EXCEPT ![l] = done(l)]
        /\ UNCHANGED <<timers, stores, history, faults>>
    BY <1>1 DEF Delete
  <2>2. (s \in Places /\ k \in Keys) \/ store' = store
    <3>1. CASE s \in Places /\ k \notin Keys
      <4>1. \A q \in Places : store'[q] = store[q]
        BY <2>1, <3>1
      <4> QED BY <2>1, <4>1
    <3>2. CASE s \notin Places
      BY <2>1, <3>2
    <3> QED BY <3>1, <3>2
  <2> QED BY <2>1, <2>2, Cleared
<1>2. ASSUME NEW t \in timers, Fire(t)
      PROVE  /\ \A s \in Places, k \in Keys : store'[s][k] = store[s][k] \/ store'[s][k] = Nothing
             /\ store' \in [Places -> [Keys -> Rows]]
             /\ timers' \subseteq timers /\ UNCHANGED <<login, stores, history, faults>>
  <2>1. store' = [store EXCEPT ![t.proc][t.key] = Nothing] /\ timers' = timers \ {t}
        /\ UNCHANGED <<login, stores, history, faults>> /\ t.proc \in Places /\ t.key \in Keys
    BY <1>2, Fields DEF Fire, Places
  <2> QED BY <2>1, Cleared
<1>3. ASSUME NEW l \in Logins, NEW p \in Processes, NEW k \in Keys, StatementFails(l, p, k)
      PROVE  /\ UNCHANGED <<store, timers, stores, history>> /\ faults' \in 0..MaxFaults
             /\ \E x \in State : login' = [login EXCEPT ![l] = x] /\ x.at = "done" /\ x.name \in {0, login[l].name}
  <2>1. UNCHANGED <<store, timers, stores, history>> /\ faults' \in 0..MaxFaults
    BY <1>3 DEF StatementFails, Fault
  <2> DEFINE x == [at |-> "done", proc |-> p, key |-> k, name |-> 0]
  <2>2. x \in State /\ x.at = "done" /\ x.name = 0
    OBVIOUS
  <2>3. login' = [login EXCEPT ![l] = x] \/ login' = [login EXCEPT ![l] = done(l)]
    BY <1>3 DEF StatementFails
  <2> HIDE DEF State, x, done
  <2> QED BY <1>00, <2>1, <2>2, <2>3
<1>4. ASSUME NEW p \in Processes, Crash(p)
      PROVE  /\ \A s \in Places, k \in Keys : store'[s][k] = store[s][k] \/ store'[s][k] = Nothing
             /\ store' \in [Places -> [Keys -> Rows]] /\ timers' \subseteq timers
             /\ UNCHANGED <<stores, history>> /\ faults' \in 0..MaxFaults
             /\ login' \in [Logins -> State]
             /\ \A l \in Logins : login'[l] = login[l] \/ login'[l] = done(l)
  <2>1. store' = [store EXCEPT ![p] = [k \in Keys |-> Nothing]] /\ faults' \in 0..MaxFaults
        /\ timers' \subseteq timers /\ UNCHANGED <<stores, history>>
    BY <1>4 DEF Crash, Fault
  <2>2. \A l \in Logins : login'[l] = IF login[l].proc = p /\ login[l].at = "delete" THEN done(l) ELSE login[l]
    BY <1>4 DEF Crash
  <2>3. login' \in [Logins -> State]
    BY <1>00, <1>4 DEF Crash
  <2>4. store' \in [Places -> [Keys -> Rows]]
        /\ \A s \in Places, k \in Keys : store'[s][k] = store[s][k] \/ store'[s][k] = Nothing
    BY <1>0, <2>1
  <2> HIDE DEF State, done
  <2> QED BY <2>1, <2>2, <2>3, <2>4
<1> HIDE DEF done
<1>5. ASSUME NEW l \in Logins, Delete(l) PROVE login' \in [Logins -> State]
  BY <1>00, <1>1, <1>5
<1>6. ASSUME NEW l \in Logins, NEW p \in Processes, NEW k \in Keys, StatementFails(l, p, k)
      PROVE  login' \in [Logins -> State]
             /\ \A m \in Logins : login'[m] = login[m] \/ (login'[m].at = "done" /\ login'[m].name \in {0, login[m].name})
  <2>1. PICK x \in State :
           login' = [login EXCEPT ![l] = x] /\ x.at = "done" /\ x.name \in {0, login[l].name}
    BY <1>3, <1>6
  <2>2. login \in [Logins -> State]
    OBVIOUS
  <2> HIDE DEF State
  <2> QED BY ONLY <2>1, <2>2, <1>6
<1>7. ASSUME NEW l \in Logins, Delete(l)
      PROVE  \A m \in Logins : login'[m] = login[m] \/ login'[m] = done(m)
  BY <1>1, <1>7
<1> HIDE DEF State
<1>8. CASE \E l \in Logins : Delete(l)
  BY <1>00, <1>1, <1>5, <1>7, <1>8 DEF State
<1>9. CASE \E t \in timers : Fire(t)
  BY <1>2, <1>9
<1>10. CASE \E l \in Logins, p \in Processes, k \in Keys : StatementFails(l, p, k)
  BY <1>3, <1>6, <1>10 DEF State
<1>11. CASE \E p \in Processes : Crash(p)
  BY <1>00, <1>4, <1>11 DEF State
<1> QED BY <1>8, <1>9, <1>10, <1>11

\* Every step keeps the invariant
LEMMA HandoffStep ==
    ASSUME HandoffInv, [Next]_vars
    PROVE  HandoffInv'
<1>1. CASE UNCHANGED vars
  BY <1>1 DEF vars, HandoffInv, TypeOK, RowInv, RowOK, TimerInv, TimerOK, LoginInv, LoginOK,
     FutureInv, Holds
<1>2. CASE \/ \E l \in Logins : Delete(l)
           \/ \E t \in timers : Fire(t)
           \/ \E l \in Logins, p \in Processes, k \in Keys : StatementFails(l, p, k)
           \/ \E p \in Processes : Crash(p)
  <2>1. TypeOK
    BY DEF HandoffInv
  <2> QED BY <1>2, <2>1, RemovalEffect, RemovalKeeps
<1>3. CASE Tick
  BY <1>3, TickKeeps
<1>4. CASE \E p \in Processes, k \in Keys : Redirect(p, k)
  BY <1>4, RedirectKeeps
<1>5. CASE \E l \in Logins, p \in Processes, k \in Keys : Get(l, p, k)
  BY <1>5, GetKeeps
<1> QED BY <1>1, <1>2, <1>3, <1>4, <1>5 DEF Next

\* The inductive invariant behind the theorems that follow
THEOREM HandoffInvariant == Spec => []HandoffInv
<1>1. Init => HandoffInv
  <2> SUFFICES ASSUME Init PROVE HandoffInv
    OBVIOUS
  <2>1. Nothing \in Rows /\ Nothing.name = 0 /\ Nothing.left = 0
    BY HandoffAssumption DEF Nothing, Rows
  <2>2. TypeOK
    BY <2>1, HandoffAssumption DEF Init, TypeOK
  <2>3. RowInv
    BY <2>1 DEF Init, RowInv, RowOK
  <2>4. TimerInv /\ LoginInv
    BY DEF Init, TimerInv, LoginInv, LoginOK
  <2>5. FutureInv
    BY DEF Init, FutureInv
  <2> QED BY <2>2, <2>3, <2>4, <2>5 DEF HandoffInv
<1> QED BY <1>1, HandoffStep, PTL DEF Spec

\* Every variable keeps its type
THEOREM TypeCorrect == Spec => []TypeOK
BY HandoffInvariant, PTL DEF HandoffInv

\* A step of a login that gives it a name reads it
LEMMA NamedByGet ==
    ASSUME HandoffInv, [Next]_vars, NEW l \in Logins, login[l].at = "start", login'[l].name # 0
    PROVE  \E p \in Processes, k \in Keys : Get(l, p, k) /\ Readable(p, store[Place(p)][k])
<1>1. login[l].name = 0 /\ TypeOK
  BY DEF HandoffInv, LoginInv, LoginOK
<1>2. CASE \/ \E m \in Logins : Delete(m)
           \/ \E t \in timers : Fire(t)
           \/ \E m \in Logins, p \in Processes, k \in Keys : StatementFails(m, p, k)
           \/ \E p \in Processes : Crash(p)
  BY <1>1, <1>2, RemovalEffect
<1>3. CASE login' = login
  BY <1>1, <1>3
<1>4. ASSUME NEW m \in Logins, NEW p \in Processes, NEW k \in Keys, Get(m, p, k)
      PROVE  m = l /\ Readable(p, store[Place(p)][k])
  <2>1. m = l
    BY <1>1, <1>4 DEF Get, TypeOK
  <2>2. ~Readable(p, store[Place(p)][k]) => login'[l].name = 0
    BY <1>1, <1>4, <2>1 DEF Get, TypeOK
  <2> QED BY <2>1, <2>2
<1> QED BY <1>2, <1>3, <1>4 DEF Next, vars, Redirect, Tick

\* A name is only taken from a process without the table before its timer has fired
LEMMA LateStep ==
    ASSUME HandoffInv, LateInv, [Next]_vars
    PROVE  LateInv'
<1> SUFFICES ASSUME NEW s \in WithoutKV, NEW k \in Keys, store'[s][k].name # 0
             PROVE  \E t \in timers' : t.proc = s /\ t.key = k /\ t.name = store'[s][k].name
  BY DEF LateInv
<1> USE HandoffAssumption
<1>0. TypeOK /\ s \in Places /\ s # "table" /\ Nothing.name = 0 /\ s \in Processes
  BY DEF HandoffInv, Places, Nothing
<1>1. ASSUME store'[s][k] = store[s][k], timers \subseteq timers'
      PROVE  \E t \in timers' : t.proc = s /\ t.key = k /\ t.name = store'[s][k].name
  BY <1>1 DEF LateInv
<1>2. ASSUME NEW l \in Logins, Delete(l)
      PROVE  \E t \in timers' : t.proc = s /\ t.key = k /\ t.name = store'[s][k].name
  <2>1. store'[s][k] = store[s][k] \/ store'[s][k] = Nothing
    BY <1>0, <1>2, RemovalEffect
  <2> QED BY <1>0, <1>1, <1>2, <2>1 DEF Delete
<1>3. ASSUME NEW u \in timers, Fire(u)
      PROVE  \E t \in timers' : t.proc = s /\ t.key = k /\ t.name = store'[s][k].name
  <2>1. u.proc \in Places /\ u.key \in Keys /\ store' = [store EXCEPT ![u.proc][u.key] = Nothing]
        /\ timers' = timers \ {u}
    BY <1>0, <1>3, Fields DEF Fire, Places
  <2>2. ~(u.proc = s /\ u.key = k) /\ store'[s][k] = store[s][k]
    BY <1>0, <2>1, Cleared
  <2>3. PICK t \in timers : t.proc = s /\ t.key = k /\ t.name = store[s][k].name
    BY <2>2 DEF LateInv
  <2> QED BY <2>1, <2>2, <2>3
<1>4. ASSUME NEW p \in Processes, Crash(p)
      PROVE  \E t \in timers' : t.proc = s /\ t.key = k /\ t.name = store'[s][k].name
  <2>1. p # s /\ store'[s][k] = store[s][k]
    BY <1>0, <1>4 DEF Crash, TypeOK
  <2>2. PICK t \in timers : t.proc = s /\ t.key = k /\ t.name = store[s][k].name
    BY <2>1 DEF LateInv
  <2> QED BY <1>4, <2>1, <2>2 DEF Crash
<1>5. ASSUME NEW p \in Processes, NEW j \in Keys, Redirect(p, j)
      PROVE  \E t \in timers' : t.proc = s /\ t.key = k /\ t.name = store'[s][k].name
  <2>1. Place(p) \in Places /\ timers \subseteq timers'
        /\ store' = [store EXCEPT ![Place(p)][j] = [name |-> stores', left |-> TTL]]
    BY <1>5, PlaceType DEF Redirect
  <2>2. CASE s = Place(p) /\ k = j
    <3>1. p = s
      BY <1>0, <2>2 DEF Place
    <3>2. [proc |-> p, key |-> j, name |-> stores', left |-> TTL] \in timers'
      BY <1>5, <3>1 DEF Redirect
    <3>3. store'[s][k] = [name |-> stores', left |-> TTL]
      BY <1>0, <2>1, <2>2 DEF TypeOK
    <3> QED BY <2>2, <3>1, <3>2, <3>3
  <2>3. CASE ~(s = Place(p) /\ k = j)
    <3>1. store'[s][k] = store[s][k]
      BY <1>0, <2>1, <2>3 DEF TypeOK
    <3> QED BY <1>1, <2>1, <3>1
  <2> QED BY <2>2, <2>3
<1>6. CASE Tick
  <2>1. store[s][k] \in Rows /\ store'[s][k] = Older(store[s][k])
    BY <1>0, <1>6 DEF Tick, TypeOK
  <2>2. store'[s][k].name = store[s][k].name
    BY <2>1 DEF Older, Rows
  <2>3. PICK t \in timers : t.proc = s /\ t.key = k /\ t.name = store[s][k].name
    BY <2>2 DEF LateInv
  <2>4. t \in [proc : WithoutKV, key : Keys, name : 1..MaxStores, left : 0..TTL]
    BY <1>0, <2>3 DEF TypeOK
  <2>5. Older(t) \in timers' /\ Older(t).proc = t.proc /\ Older(t).key = t.key /\ Older(t).name = t.name
    BY <1>6, <2>3, <2>4 DEF Tick, Older
  <2> QED BY <2>2, <2>3, <2>5
<1>7. CASE UNCHANGED <<store, timers>>
  BY <1>1, <1>7
<1> QED BY <1>2, <1>3, <1>4, <1>5, <1>6, <1>7 DEF Next, vars, Get, StatementFails

\* At the start no process has a name
LEMMA LateInvariant == Spec => []LateInv
<1>1. Init => LateInv
  BY HandoffAssumption DEF Init, LateInv, Nothing, Places
<1> QED BY <1>1, LateStep, HandoffInvariant, PTL DEF Spec

\* No login gets a name that a newer redirect has replaced, nor one whose time is over,
\* unless the timer that is to remove it from a process without the table is late
THEOREM FetchedNamesAreNewest == Spec => OnlyTheNewestIsFetched
<1> DEFINE A == \A l \in Logins :
         login[l].at = "start" /\ login'[l].name # 0 =>
            LET n == login'[l].name IN
              /\ history[n].age < TTL \/ \E t \in Due : t.proc = login'[l].proc /\ t.name = n
              /\ \A m \in Stored(login'[l].proc, login'[l].key) : m <= n
<1>1. HandoffInv /\ LateInv /\ [Next]_vars => [A]_vars
  <2> SUFFICES ASSUME HandoffInv, LateInv, [Next]_vars, NEW l \in Logins, login[l].at = "start", login'[l].name # 0
               PROVE  LET n == login'[l].name IN
                      /\ history[n].age < TTL \/ \E t \in Due : t.proc = login'[l].proc /\ t.name = n
                      /\ \A m \in Stored(login'[l].proc, login'[l].key) : m <= n
    BY DEF A
  <2>1. PICK p \in Processes, k \in Keys : Get(l, p, k) /\ Readable(p, store[Place(p)][k])
    BY NamedByGet
  <2> DEFINE row == store[Place(p)][k]
  <2>2. login'[l] = [at |-> "delete", proc |-> p, key |-> k, name |-> row.name]
    BY <2>1 DEF Get, HandoffInv, TypeOK
  <2>3. RowOK(Place(p), k) /\ row.name # 0 /\ (p \in WithoutKV \/ row.left > 0)
    BY <2>1, PlaceType DEF HandoffInv, RowInv, Readable
  <2>4. row.name \in 1..MaxStores /\ row.left \in Nat /\ history[row.name].age \in Nat /\ TTL \in Nat
    BY <2>3, PlaceType, Fields DEF HandoffInv
  <2>5. Holds(row.name, Place(p), k) /\ row.left + history[row.name].age = TTL
        /\ \A m \in 1..stores : Holds(m, Place(p), k) => m <= row.name
    BY <2>3 DEF RowOK
  <2>6. CASE row.left > 0
    BY <2>2, <2>4, <2>5, <2>6, StoredHolds DEF Holds
  <2>7. CASE row.left = 0
    <3>1. p \in WithoutKV /\ Place(p) = p
      BY <2>3, <2>7 DEF Place
    <3>2. PICK t \in timers : t.proc = p /\ t.key = k /\ t.name = row.name
      BY <2>3, <3>1 DEF LateInv
    <3>3. t.left + history[row.name].age = TTL /\ t.left \in Nat
      BY <3>2, Fields DEF HandoffInv, TimerInv, TimerOK
    <3>4. t \in Due
      BY <2>4, <2>5, <2>7, <3>3 DEF Due
    <3> QED BY <2>2, <2>5, <3>2, <3>4, StoredHolds DEF Holds
  <2> QED BY <2>4, <2>6, <2>7
<1> QED BY <1>1, HandoffInvariant, LateInvariant, PTL DEF Spec, OnlyTheNewestIsFetched

-----------------------------------------------------------------------------
(***************************************************************************)
(* A name that has been fetched is there only beside its login.            *)
(***************************************************************************)

\* A step that takes away leaves the row of a fetched name to the login that deletes it
LEMMA OnceStep ==
    ASSUME HandoffInv, OnceInv, [Next]_vars
    PROVE  OnceInv'
<1> SUFFICES ASSUME faults' = 0, NEW s \in Places, NEW k \in Keys,
                    store'[s][k].name # 0, history'[store'[s][k].name].fetched > 0
             PROVE  Deleting(s, k)'
  BY DEF OnceInv
<1> USE HandoffAssumption
<1>0. TypeOK /\ faults \in Nat /\ Nothing.name = 0
  BY DEF HandoffInv, TypeOK, Nothing
<1>1. ASSUME faults = 0, store'[s][k] = store[s][k], history' = history,
             \A l \in Logins : login[l].at = "delete" => login'[l] = login[l]
      PROVE  Deleting(s, k)'
  BY <1>1 DEF OnceInv, Deleting
<1>2. ASSUME NEW l \in Logins, Delete(l) PROVE Deleting(s, k)'
  <2>1. store'[s][k] # Nothing /\ faults = 0 /\ history' = history
    BY <1>0, <1>2 DEF Delete
  <2>2. store'[s][k] = store[s][k]
    BY <1>0, <1>2, <2>1, RemovalEffect
  <2>3. PICK m \in Logins : login[m].at = "delete" /\ login[m].key = k /\ Place(login[m].proc) = s
    BY <2>1, <2>2 DEF OnceInv, Deleting
  <2>4. m # l
    <3> SUFFICES ASSUME m = l PROVE FALSE
      OBVIOUS
    <3>1. store' = [store EXCEPT ![s][k] = Nothing]
      BY <1>2, <2>3 DEF Delete
    <3> QED BY <1>0, <2>1, <3>1, Cleared
  <2> QED BY <1>2, <2>3, <2>4 DEF Delete, Deleting
<1>3. ASSUME NEW t \in timers, Fire(t) PROVE Deleting(s, k)'
  <2>1. store'[s][k] # Nothing /\ UNCHANGED <<faults, history, login>>
    BY <1>0, <1>3 DEF Fire
  <2>2. store'[s][k] = store[s][k]
    BY <1>0, <1>3, <2>1, RemovalEffect
  <2> QED BY <1>1, <2>1, <2>2
<1>4. ASSUME NEW p \in Processes, Crash(p) \/ \E l \in Logins, j \in Keys : StatementFails(l, p, j)
      PROVE  FALSE
  BY <1>0, <1>4 DEF Crash, StatementFails, Fault
<1>5. ASSUME NEW p \in Processes, NEW j \in Keys, Redirect(p, j) PROVE Deleting(s, k)'
  <2>1. PICK n : n = stores + 1
    OBVIOUS
  <2>2. n \in 1..MaxStores /\ history[n].fetched = 0 /\ Place(p) \in Places
        /\ store' = [store EXCEPT ![Place(p)][j] = [name |-> n, left |-> TTL]]
        /\ history' = [history EXCEPT ![n].key = j, ![n].proc = p]
        /\ login' = login /\ faults' = faults
    BY <1>5, <2>1, Fields, PlaceType DEF Redirect, HandoffInv, FutureInv
  <2>3. \A m \in 1..MaxStores : history'[m].fetched = history[m].fetched
    BY <1>0, <2>2 DEF TypeOK
  <2>4. CASE s = Place(p) /\ k = j
    <3>1. store'[s][k].name = n
      BY <1>0, <2>2, <2>4 DEF TypeOK
    <3>2. history'[store'[s][k].name].fetched = 0
      BY <2>2, <2>3, <3>1
    <3>3. history'[store'[s][k].name].fetched > 0
      OBVIOUS
    <3> QED BY <3>2, <3>3
  <2>5. CASE ~(s = Place(p) /\ k = j)
    <3>1. store'[s][k] = store[s][k]
      BY <1>0, <2>2, <2>5 DEF TypeOK
    <3>2. store[s][k].name \in 1..MaxStores
      BY <1>0, <3>1, Fields
    <3>3. history[store[s][k].name].fetched > 0
      BY <2>3, <3>1, <3>2
    <3>4. store[s][k].name # 0 /\ faults = 0
      BY <2>2, <3>1
    <3>5. Deleting(s, k)
      BY <3>3, <3>4 DEF OnceInv
    <3> QED BY <2>2, <3>5 DEF Deleting
  <2> QED BY <2>4, <2>5
<1>6. ASSUME NEW l \in Logins, NEW p \in Processes, NEW j \in Keys, Get(l, p, j) PROVE Deleting(s, k)'
  <2>0. UNCHANGED <<store, faults>> /\ store[s][k].name \in 1..MaxStores /\ login[l].at = "start"
    BY <1>0, <1>6, Fields DEF Get
  <2>1. CASE history' = history
    BY <1>1, <1>6, <2>0, <2>1 DEF Get, HandoffInv, TypeOK
  <2>2. ASSUME NEW n, n = store[Place(p)][j].name, Readable(p, store[Place(p)][j])
        PROVE  Deleting(s, k)'
    <3>1. /\ history' = [history EXCEPT ![n].fetched = @ + 1]
          /\ login' = [login EXCEPT ![l] = [at |-> "delete", proc |-> p, key |-> j, name |-> n]]
      BY <1>6, <2>2 DEF Get
    <3>5. /\ login'[l] = [at |-> "delete", proc |-> p, key |-> j, name |-> n]
          /\ \A m \in Logins : login[m].at = "delete" => login'[m] = login[m]
      BY <1>0, <2>0, <3>1 DEF TypeOK
    <3>2. RowOK(s, k) /\ RowOK(Place(p), j) /\ Place(p) \in Places
      BY PlaceType DEF HandoffInv, RowInv
    <3>3. CASE store[s][k].name = n
      <4>1. s = Place(p) /\ k = j
        BY <2>0, <2>2, <3>2, <3>3 DEF RowOK, Holds
      <4>2. login'[l].at = "delete" /\ login'[l].key = k /\ Place(login'[l].proc) = s
        BY <3>5, <4>1
      <4> QED BY <4>2 DEF Deleting
    <3>4. CASE store[s][k].name # n
      <4>1. history'[store[s][k].name] = history[store[s][k].name]
        BY <1>0, <2>0, <3>1, <3>4 DEF TypeOK
      <4>2. PICK m \in Logins : login[m].at = "delete" /\ login[m].key = k /\ Place(login[m].proc) = s
        BY <2>0, <4>1 DEF OnceInv, Deleting
      <4>3. login'[m] = login[m]
        BY <3>5, <4>2
      <4> QED BY <4>2, <4>3 DEF Deleting
    <3> QED BY <3>3, <3>4
  <2> QED BY <1>6, <2>1, <2>2 DEF Get
<1>7. CASE Tick
  <2>1. UNCHANGED <<login, faults>> /\ store'[s][k].name = store[s][k].name
    BY <1>0, <1>7 DEF Tick, Older, TypeOK, Rows
  <2>2. store[s][k].name \in 1..MaxStores
    BY <1>0, <2>1, Fields
  <2>3. history'[store[s][k].name].fetched = history[store[s][k].name].fetched
    BY <1>0, <1>7, <2>2 DEF Tick, TypeOK
  <2> QED BY <2>1, <2>3 DEF OnceInv, Deleting
<1>8. CASE UNCHANGED vars
  BY <1>8 DEF vars, OnceInv, Deleting
<1> QED BY <1>2, <1>3, <1>4, <1>5, <1>6, <1>7, <1>8 DEF Next

\* At the start nothing has been stored, so nothing has been fetched
LEMMA OnceInvariant == Spec => []OnceInv
<1>1. Init => OnceInv
  BY DEF Init, OnceInv, Nothing
<1> QED BY <1>1, OnceStep, HandoffInvariant, PTL DEF Spec

\* A name is fetched a second time only beside a login that is about to delete it
THEOREM FetchedOnce == Spec => FetchedAgainOnlyInBetween
<1> DEFINE A == \A n \in 1..MaxStores :
         history[n].fetched > 0 /\ history'[n].fetched > history[n].fetched /\ faults = 0
         => Between(history[n].proc, history[n].key) # {}
<1>1. HandoffInv /\ OnceInv /\ [Next]_vars => [A]_vars
  <2> SUFFICES ASSUME HandoffInv, OnceInv, [Next]_vars, NEW n \in 1..MaxStores, faults = 0,
                      history[n].fetched > 0, history'[n].fetched > history[n].fetched
               PROVE  Between(history[n].proc, history[n].key) # {}
    BY DEF A
  <2>0. TypeOK /\ history[n].fetched \in Nat
    BY Fields DEF HandoffInv
  <2>1. PICK l \in Logins, p \in Processes, k \in Keys : Get(l, p, k)
    <3>1. history'[n].fetched # history[n].fetched
      BY <2>0
    <3>2. CASE Tick
      BY <2>0, <3>1, <3>2 DEF Tick, TypeOK
    <3>3. ASSUME NEW p \in Processes, NEW k \in Keys, Redirect(p, k) PROVE FALSE
      BY <2>0, <3>1, <3>3 DEF Redirect, TypeOK
    <3> QED BY <3>1, <3>2, <3>3 DEF Next, vars, Delete, Fire, StatementFails, Crash
  <2>2. store[Place(p)][k].name = n
    <3>1. CASE history' = history
      BY <2>0, <3>1
    <3>2. ASSUME NEW m, m = store[Place(p)][k].name, m # n,
                 history' = [history EXCEPT ![m].fetched = @ + 1]
          PROVE  FALSE
      <4>1. history'[n] = history[n]
        BY <2>0, <3>2 DEF TypeOK
      <4> QED BY <2>0, <4>1
    <3> QED BY <2>1, <3>1, <3>2 DEF Get
  <2>3. RowOK(Place(p), k) /\ Place(p) \in Places
    BY PlaceType DEF HandoffInv, RowInv
  <2>4. n # 0 /\ Holds(n, Place(p), k)
    BY <2>2, <2>3 DEF RowOK
  <2>5. PICK m \in Logins : login[m].at = "delete" /\ login[m].key = k /\ Place(login[m].proc) = Place(p)
    BY <2>2, <2>3, <2>4 DEF OnceInv, Deleting
  <2>6. history[n].key = k /\ Share(login[m].proc, history[n].proc)
    BY <2>4, <2>5, SharedPlace DEF Holds
  <2> QED BY <2>5, <2>6 DEF Between
<1> QED BY <1>1, HandoffInvariant, OnceInvariant, PTL DEF Spec, FetchedAgainOnlyInBetween

-----------------------------------------------------------------------------
(***************************************************************************)
(* A name that nobody has fetched is still there.                          *)
(***************************************************************************)

\* The name n is the only one of its key, unfetched, in time, and in a place no crash has emptied
WaitsFor(n, s, k) ==
    /\ Holds(n, s, k) /\ \A m \in 1..stores : Holds(m, s, k) => m = n
    /\ history[n].fetched = 0 /\ history[n].age < TTL
    /\ s \in WithoutKV => faults = 0
WaitInv ==
    \A s \in Places, k \in Keys, n \in 1..MaxStores : WaitsFor(n, s, k) => store[s][k].name = n

\* What has been stored stays in its history, which counts upwards
LEMMA HistoryGrows ==
    ASSUME HandoffInv, [Next]_vars, NEW n \in 1..stores
    PROVE  /\ n \in 1..stores' /\ n \in 1..MaxStores
           /\ history'[n].key = history[n].key /\ history'[n].proc = history[n].proc
           /\ history'[n].fetched = 0 => history[n].fetched = 0
           /\ history'[n].age < TTL => history[n].age < TTL
           /\ stores' = stores \/ stores' = stores + 1
           /\ faults' = 0 => faults = 0
<1> USE HandoffAssumption
<1>0. TypeOK /\ n \in 1..MaxStores /\ stores \in Nat /\ n \in DOMAIN history
      /\ history[n] \in [key : Keys \cup {"none"}, proc : Processes \cup {"none"},
                         age : 0..TTL, fetched : Nat]
  BY Fields DEF HandoffInv, TypeOK
<1>1. CASE history' = history /\ stores' = stores /\ (faults' = faults \/ Fault)
  BY <1>0, <1>1 DEF Fault, TypeOK
<1>2. CASE Tick
  <2>1. history'[n] = [history[n] EXCEPT !.age = @ + 1] \/ history'[n] = history[n]
    BY <1>0, <1>2 DEF Tick
  <2>2. [history[n] EXCEPT !.age = @ + 1].age = history[n].age + 1
        /\ [history[n] EXCEPT !.age = @ + 1].key = history[n].key
        /\ [history[n] EXCEPT !.age = @ + 1].proc = history[n].proc
        /\ [history[n] EXCEPT !.age = @ + 1].fetched = history[n].fetched
    BY <1>0
  <2>3. history'[n].age = history[n].age \/ history'[n].age = history[n].age + 1
    BY <2>1, <2>2
  <2> QED BY <1>0, <1>2, <2>1, <2>2, <2>3 DEF Tick
<1>3. ASSUME NEW p \in Processes, NEW k \in Keys, Redirect(p, k)
      PROVE  history'[n] = history[n] /\ stores' = stores + 1 /\ faults' = faults
  BY <1>0, <1>3 DEF Redirect, TypeOK
<1>4. ASSUME NEW l \in Logins, NEW p \in Processes, NEW k \in Keys, Get(l, p, k)
      PROVE  /\ stores' = stores /\ faults' = faults
             /\ history'[n].key = history[n].key /\ history'[n].proc = history[n].proc
             /\ history'[n].age = history[n].age
             /\ history'[n].fetched = 0 => history[n].fetched = 0
  <2>1. CASE history' = history
    BY <1>4, <2>1 DEF Get
  <2>2. ASSUME NEW m, history' = [history EXCEPT ![m].fetched = @ + 1]
        PROVE  history'[n] = history[n] \/ history'[n] = [history[n] EXCEPT !.fetched = @ + 1]
    BY <1>0, <2>2
  <2>3. [history[n] EXCEPT !.fetched = @ + 1].fetched = history[n].fetched + 1
        /\ [history[n] EXCEPT !.fetched = @ + 1].key = history[n].key
        /\ [history[n] EXCEPT !.fetched = @ + 1].proc = history[n].proc
        /\ [history[n] EXCEPT !.fetched = @ + 1].age = history[n].age
        /\ history[n].fetched + 1 # 0
    BY <1>0
  <2>4. history' = history \/ \E m : history' = [history EXCEPT ![m].fetched = @ + 1]
    BY <1>4 DEF Get
  <2> QED BY <1>4, <2>2, <2>3, <2>4 DEF Get
<1>5. CASE \E p \in Processes, k \in Keys : Redirect(p, k)
  BY <1>0, <1>3, <1>5
<1>6. CASE \E l \in Logins, p \in Processes, k \in Keys : Get(l, p, k)
  BY <1>0, <1>4, <1>6
<1> QED BY <1>1, <1>2, <1>5, <1>6 DEF Next, vars, Delete, Fire, StatementFails, Crash

\* A step leaves a name where it waits
LEMMA WaitStep ==
    ASSUME HandoffInv, WaitInv, [Next]_vars
    PROVE  WaitInv'
<1> SUFFICES ASSUME NEW s \in Places, NEW k \in Keys, NEW n \in 1..MaxStores, WaitsFor(n, s, k)'
             PROVE  store'[s][k].name = n
  BY DEF WaitInv
<1> USE HandoffAssumption
<1>0. TypeOK /\ n \in 1..stores'
  BY DEF HandoffInv, WaitsFor, Holds
<1>1. CASE n \notin 1..stores
  <2>1. stores' # stores
    BY <1>0, <1>1
  <2>2. PICK p \in Processes, j \in Keys : Redirect(p, j)
    BY <2>1 DEF Next, vars, Get, Delete, Fire, StatementFails, Crash, Tick
  <2>3. n = stores + 1 /\ n = stores' /\ Place(p) \in Places
    BY <1>0, <1>1, <2>2, Fields, PlaceType DEF Redirect
  <2>4. history'[n].key = j /\ history'[n].proc = p
    <3>1. history' = [history EXCEPT ![n].key = j, ![n].proc = p]
      BY <2>2, <2>3 DEF Redirect
    <3>2. n \in DOMAIN history /\ history[n] \in [key : Keys \cup {"none"}, proc : Processes \cup {"none"},
                                                age : 0..TTL, fetched : Nat]
      BY <1>0 DEF TypeOK
    <3> QED BY <3>1, <3>2
  <2>5. s = Place(p) /\ k = j
    BY <2>4 DEF WaitsFor, Holds
  <2>6. store' = [store EXCEPT ![s][k] = [name |-> n, left |-> TTL]]
    BY <2>2, <2>3, <2>5 DEF Redirect
  <2> QED BY <1>0, <2>6 DEF TypeOK
<1>2. CASE n \in 1..stores
  <2>1. \A m \in 1..stores : \A q, j : m \in 1..stores' /\ (Holds(m, q, j)' <=> Holds(m, q, j))
    BY HistoryGrows DEF Holds
  <2>2. WaitsFor(n, s, k)
    BY <1>2, <2>1, HistoryGrows DEF WaitsFor
  <2>3. store[s][k].name = n
    BY <2>2 DEF WaitInv
  <2>4. CASE store'[s][k] = store[s][k]
    BY <2>3, <2>4
  <2>5. ASSUME NEW l \in Logins, Delete(l) PROVE store'[s][k] = store[s][k]
    <3>1. Holds(login[l].name, Place(login[l].proc), login[l].key) /\ history[login[l].name].fetched > 0
      BY <2>5 DEF Delete, HandoffInv, LoginInv, LoginOK
    <3>2. ~(Place(login[l].proc) = s /\ login[l].key = k)
      BY <2>2, <3>1 DEF WaitsFor, Holds
    <3> QED BY <1>0, <2>5, <3>2 DEF Delete, TypeOK
  <2>6. ASSUME NEW t \in timers, Fire(t) PROVE store'[s][k] = store[s][k]
    <3>1. PICK m \in 1..stores : Holds(m, t.proc, t.key) /\ t.left + history[m].age = TTL
      BY DEF HandoffInv, TimerInv, TimerOK, Holds
    <3>2. t.left = 0
      BY <2>6 DEF Fire, Due
    <3>3. history[m].age = TTL
      BY <1>0, <3>1, <3>2, Fields
    <3>4. ~(t.proc = s /\ t.key = k)
      <4> SUFFICES ASSUME t.proc = s /\ t.key = k PROVE FALSE
        OBVIOUS
      <4>1. m = n
        BY <2>2, <3>1 DEF WaitsFor
      <4> QED BY <1>0, <2>2, <3>3, <4>1, Fields DEF WaitsFor
    <3> QED BY <1>0, <2>6, <3>4 DEF Fire, TypeOK
  <2>7. ASSUME NEW p \in Processes, Crash(p) PROVE store'[s][k] = store[s][k]
    <3>1. faults' # 0
      BY <1>0, <2>7 DEF Crash, Fault, TypeOK
    <3>2. s \notin WithoutKV
      BY <3>1 DEF WaitsFor
    <3>3. s = "table"
      BY <2>2, <3>2 DEF WaitsFor, Holds, Place
    <3> QED BY <1>0, <2>7, <3>3 DEF Crash, TypeOK
  <2>8. ASSUME NEW p \in Processes, NEW j \in Keys, Redirect(p, j) PROVE store'[s][k] = store[s][k]
    <3>1. PICK o : o = stores + 1
      OBVIOUS
    <3>2. o \in 1..stores' /\ o # n /\ o \in 1..MaxStores
          /\ history' = [history EXCEPT ![o].key = j, ![o].proc = p]
          /\ store' = [store EXCEPT ![Place(p)][j] = [name |-> o, left |-> TTL]]
      BY <1>0, <1>2, <2>8, <3>1, Fields DEF Redirect
    <3>3. history'[o].key = j /\ history'[o].proc = p
      <4>1. o \in DOMAIN history /\ history[o] \in [key : Keys \cup {"none"}, proc : Processes \cup {"none"},
                                                  age : 0..TTL, fetched : Nat]
        BY <1>0, <3>2 DEF TypeOK
      <4> QED BY <3>2, <4>1
    <3>4. ~(Place(p) = s /\ j = k)
      BY <3>2, <3>3 DEF WaitsFor, Holds
    <3> QED BY <1>0, <3>2, <3>4 DEF TypeOK
  <2>9. CASE Tick
    <3>1. store[s][k] \in Rows /\ store'[s][k] = Older(store[s][k])
      BY <1>0, <2>9 DEF Tick, TypeOK
    <3> QED BY <2>3, <3>1 DEF Older, Rows
  <2> QED BY <2>3, <2>4, <2>5, <2>6, <2>7, <2>8, <2>9 DEF Next, vars, Get, StatementFails
<1> QED BY <1>1, <1>2

\* An unfetched name waits for its login until its time is over, whatever crashes or fails
THEOREM UnfetchedNamesWait == Spec => []NamesWait
<1>1. Init => WaitInv
  BY DEF Init, WaitInv, WaitsFor, Holds
<1>2. HandoffInv /\ WaitInv => NamesWait
  <2> SUFFICES ASSUME HandoffInv, WaitInv, NEW p \in Processes, NEW k \in Keys, NEW n \in Stored(p, k),
                      Stored(p, k) = {n}, history[n].fetched = 0, history[n].age < TTL,
                      p \in WithoutKV => faults = 0
               PROVE  store[Place(p)][k].name = n /\ Readable(p, store[Place(p)][k])
    BY DEF NamesWait
  <2>1. Holds(n, Place(p), k) /\ n \in 1..MaxStores /\ Place(p) \in Places
    BY StoredHolds, Fields, PlaceType DEF Holds, HandoffInv
  <2>2. \A m \in 1..stores : Holds(m, Place(p), k) => m = n
    BY StoredHolds
  <2>3. Place(p) \in WithoutKV => faults = 0
    BY HandoffAssumption DEF Place
  <2>4. store[Place(p)][k].name = n
    BY <2>1, <2>2, <2>3 DEF WaitInv, WaitsFor
  <2>5. store[Place(p)][k].left + history[n].age = TTL
    BY <2>1, <2>4 DEF HandoffInv, RowInv, RowOK
  <2> QED BY <2>1, <2>4, <2>5, Fields DEF Readable, HandoffInv
<1> QED BY <1>1, <1>2, WaitStep, HandoffInvariant, PTL DEF Spec

=============================================================================
