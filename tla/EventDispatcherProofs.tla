------------------------ MODULE EventDispatcherProofs ------------------------
(***************************************************************************)
(* For any number of registrations, services and blocks and any buffers: a *)
(* registration is held by one dispatcher, once, or is in one snapshot, or *)
(* its consumer has been told; no event is sent on a closed channel and    *)
(* none is closed twice; and the events of a registration come in the      *)
(* order of the blocks, each once.  One service that drops nothing sends   *)
(* exactly the events due.                                                 *)
(*                                                                         *)
(* None of this is inductive.  That a registration is not added a second   *)
(* time rests on its caller, who waits while the one event that registers  *)
(* it is in some queue; that a snapshot is not overwritten rests on the    *)
(* one event the mover waits for; and that a channel is open when a block  *)
(* is published to it rests on the dispatcher handling nothing else in the *)
(* meantime.  The order rests on the last block of who holds a             *)
(* registration, and on counting, while a block is published, the loops    *)
(* that have an event for it; that nothing is left out rests on there      *)
(* being no gap between the blocks in the queue of a dispatcher.           *)
(***************************************************************************)
EXTENDS EventDispatcher, FiniteSetTheorems, TLAPS

-----------------------------------------------------------------------------
(* The inductive invariant                                                 *)

ListKinds == {"block", "filtered"}
Lists == [block : Seq(Regs), filtered : Seq(Regs)]
Tables == [Keys -> Regs \cup {NoReg}]
Sending == [block : Blocks \cup {NoBlock}, loop : Nat, left : SUBSET Regs]
Moves == {"stop", "transfer", "stopAndTransfer"}
BeforeUse == {"out", "registering", "waiting"}

Types ==
    /\ state \in [Dispatchers -> {"initial", "started", "stopped"}]
    /\ queue \in [Dispatchers -> Seq(Events)]
    /\ list \in [Dispatchers -> Lists] /\ table \in [Dispatchers -> Tables]
    /\ sending \in [Dispatchers -> Sending]
    /\ caller \in [Regs -> BeforeUse \cup {"using", "unregistering", "done"}]
    /\ chanClosed \in [Regs -> BOOLEAN]
    /\ current \in Dispatchers /\ mover \in {"idle", "waiting", "moved"} \cup Moves
    /\ snapshot.list \in Lists /\ snapshot.table \in Tables
    /\ lost \subseteq Regs

\* The registrations are where their kinds and keys say, once.
Tidy(l, t) ==
    /\ \A k \in ListKinds : \A i, j \in 1..Len(l[k]) : l[k][i] = l[k][j] => i = j
    /\ \A k \in ListKinds : \A i \in 1..Len(l[k]) : Kind[l[k][i]] = k
    /\ \A key \in Keys : t[key] # NoReg => Kind[t[key]] \in {"cc", "tx"} /\ Key[t[key]] = key

AllTidy == (\A d \in Dispatchers : Tidy(list[d], table[d])) /\ Tidy(snapshot.list, snapshot.table)

Own(d) == Registered(list[d], table[d])
Snapped == Registered(snapshot.list, snapshot.table)

\* Nobody holds a registration that another one holds, that is not made yet, or
\* whose channel is closed.
Held ==
    /\ \A d, e \in Dispatchers : d # e => Own(d) \cap Own(e) = {}
    /\ \A d \in Dispatchers : Own(d) \cap Snapped = {}
    /\ \A r \in Regs : chanClosed[r] \/ caller[r] \in BeforeUse =>
          r \notin Snapped /\ \A d \in Dispatchers : r \notin Own(d)
    /\ \A r \in Regs : caller[r] \in BeforeUse => ~chanClosed[r]
    /\ \A r \in Regs : caller[r] = "using" =>
          (\E d \in Dispatchers : r \in Own(d)) \/ r \in Snapped \/ chanClosed[r] \/ r \in lost
    /\ \A d \in Dispatchers : sending[d].left \subseteq Own(d)

\* What is published is a block.
Publishing == \A d \in Dispatchers : sending[d] # Idle => sending[d].block \in Blocks

\* A call goes to a service.
Addressed ==
    /\ at \in [Regs -> 0..Services]
    /\ \A r \in Regs : caller[r] \in {"registering", "unregistering"} => at[r] \in Dispatchers

\* A caller waits for one event.
IsRegister(e, r) == e.type = "register" /\ e.reg = r

Awaiting ==
    \A r \in Regs, d \in Dispatchers : \A i \in 1..Len(queue[d]) : IsRegister(queue[d][i], r) =>
        /\ caller[r] = "waiting"
        /\ \A e \in Dispatchers : \A j \in 1..Len(queue[e]) : IsRegister(queue[e][j], r) => d = e /\ i = j

\* So does the mover.
IsAwaited(e) == e.type \in Moves /\ e.awaited

OneAnswer ==
    \A d \in Dispatchers : \A i \in 1..Len(queue[d]) : IsAwaited(queue[d][i]) =>
        /\ mover = "waiting" /\ d = current
        /\ \A j \in 1..Len(queue[d]) : IsAwaited(queue[d][j]) => i = j

\* A snapshot is taken at its request, and the services to come have nothing yet.
Moving ==
    /\ mover # "moved" => Snapped = {}
    /\ mover # "idle" => current < Services
    /\ \A d \in Dispatchers : d > current =>
          state[d] = "initial" /\ Own(d) = {} /\ sending[d] = Idle

IInv == Types /\ AllTidy /\ Held /\ Publishing /\ Addressed /\ Awaiting /\ OneAnswer /\ Moving /\ NoPanic

-----------------------------------------------------------------------------
(* Registrations held                                                      *)

Among(l, t, r) ==
    \/ \E k \in ListKinds : \E i \in 1..Len(l[k]) : l[k][i] = r
    \/ r # NoReg /\ \E key \in Keys : t[key] = r

\* Who is registered in a list and a table.
LEMMA RegisteredIs ==
    ASSUME NEW l \in Lists, NEW t \in Tables, NEW r
    PROVE  r \in Registered(l, t) <=> Among(l, t, r)
  <1>1. l.block \in Seq(Regs) /\ l.filtered \in Seq(Regs)
    BY DEF Lists
  <1>2. /\ Range(l.block) = {l.block[i] : i \in 1..Len(l.block)}
        /\ Range(l.filtered) = {l.filtered[i] : i \in 1..Len(l.filtered)}
    BY <1>1 DEF Range
  <1>3. QED
    BY <1>2 DEF Among, Registered, ListKinds

\* They are registrations.
LEMMA RegisteredAreRegs ==
    ASSUME NEW l \in Lists, NEW t \in Tables
    PROVE  Registered(l, t) \subseteq Regs
  <1>1. l.block \in Seq(Regs) /\ l.filtered \in Seq(Regs)
    BY DEF Lists
  <1>2. Range(l.block) \subseteq Regs /\ Range(l.filtered) \subseteq Regs
    BY <1>1 DEF Range
  <1>3. QED
    BY <1>2 DEF Registered, Tables

\* Lists and a table with nobody in them.
LEMMA NobodyRegistered ==
    /\ NoLists \in Lists /\ NoTable \in Tables
    /\ Registered(NoLists, NoTable) = {} /\ Tidy(NoLists, NoTable)
  <1>1. NoLists \in Lists /\ NoTable \in Tables
    BY DEF NoLists, Lists, NoTable, Tables
  <1>2. \A k \in ListKinds : NoLists[k] = <<>>
    BY DEF NoLists, ListKinds
  <1>3. \A key \in Keys : NoTable[key] = NoReg
    BY DEF NoTable
  <1>4. Tidy(NoLists, NoTable)
    BY <1>2, <1>3 DEF Tidy
  <1>5. \A r : r \notin Registered(NoLists, NoTable)
    BY <1>1, <1>2, <1>3, RegisteredIs DEF Among
  <1>6. QED
    BY <1>1, <1>4, <1>5

\* One of the lists is replaced.
LEMMA ListReplaced ==
    ASSUME NEW l \in Lists, NEW k \in ListKinds, NEW s \in Seq(Regs)
    PROVE  \E m \in Lists : /\ m = [l EXCEPT ![k] = s] /\ m[k] = s
                            /\ \A h \in ListKinds : h # k => m[h] = l[h]
  <1>1. PICK m : m = [l EXCEPT ![k] = s]
    OBVIOUS
  <1>2. m \in Lists /\ m[k] = s /\ \A h \in ListKinds : h # k => m[h] = l[h]
    <2>1. CASE k = "block"
      BY <1>1, <2>1 DEF Lists, ListKinds
    <2>2. CASE k = "filtered"
      BY <1>1, <2>2 DEF Lists, ListKinds
    <2>3. QED
      BY <2>1, <2>2 DEF ListKinds
  <1>3. QED
    BY <1>1, <1>2

\* A registration is appended to the list of its kind.
LEMMA AddToList ==
    ASSUME NEW l \in Lists, NEW t \in Tables, Tidy(l, t), NEW r \in Regs, r \notin Registered(l, t),
           NEW k \in ListKinds, Kind[r] = k, NEW m \in Lists,
           m[k] = Append(l[k], r), \A h \in ListKinds : h # k => m[h] = l[h]
    PROVE  Tidy(m, t) /\ Registered(m, t) = Registered(l, t) \cup {r}
  <1>1. \A h \in ListKinds : l[h] \in Seq(Regs)
    BY DEF Lists, ListKinds
  <1>2. /\ Len(l[k]) \in Nat /\ Len(m[k]) = Len(l[k]) + 1 /\ m[k][Len(l[k]) + 1] = r
        /\ \A i \in 1..Len(l[k]) : m[k][i] = l[k][i] /\ l[k][i] # r
    <2>1. \A i \in 1..Len(l[k]) : l[k][i] # r
      BY RegisteredIs DEF Among
    <2>2. QED
      BY <1>1, <2>1
  <1>3. Tidy(m, t)
    <2>1. \A i \in 1..Len(m[k]) : i \in 1..Len(l[k]) \/ i = Len(l[k]) + 1
      BY <1>2
    <2>2. \A i, j \in 1..Len(m[k]) : m[k][i] = m[k][j] => i = j
      BY <1>2, <2>1 DEF Tidy
    <2>3. \A i \in 1..Len(m[k]) : Kind[m[k][i]] = k
      BY <1>2, <2>1 DEF Tidy
    <2>4. ASSUME NEW h \in ListKinds
          PROVE  /\ \A i, j \in 1..Len(m[h]) : m[h][i] = m[h][j] => i = j
                 /\ \A i \in 1..Len(m[h]) : Kind[m[h][i]] = h
      <3>1. CASE h = k
        BY <2>2, <2>3, <3>1
      <3>2. CASE h # k
        BY <3>2 DEF Tidy
      <3>3. QED
        BY <3>1, <3>2
    <2>5. QED
      BY <2>4 DEF Tidy
  <1>4. ASSUME NEW q
        PROVE  q \in Registered(m, t) <=> q \in Registered(l, t) \/ q = r
    <2>1. \A i \in 1..Len(m[k]) : i \in 1..Len(l[k]) \/ i = Len(l[k]) + 1
      BY <1>2
    <2>2. (\E i \in 1..Len(m[k]) : m[k][i] = q) <=> (q = r \/ \E i \in 1..Len(l[k]) : l[k][i] = q)
      <3>1. Len(l[k]) + 1 \in 1..Len(m[k]) /\ \A i \in 1..Len(l[k]) : i \in 1..Len(m[k])
        BY <1>2
      <3>2. QED
        BY <1>2, <2>1, <3>1
    <2>3. (\E h \in ListKinds : \E i \in 1..Len(m[h]) : m[h][i] = q) <=>
             (q = r \/ \E h \in ListKinds : \E i \in 1..Len(l[h]) : l[h][i] = q)
      BY <2>2
    <2>4. q \in Registered(l, t) <=> Among(l, t, q)
      BY RegisteredIs
    <2>5. q \in Registered(m, t) <=> Among(m, t, q)
      BY RegisteredIs
    <2>6. QED
      BY <2>3, <2>4, <2>5 DEF Among
  <1>5. QED
    BY <1>3, <1>4

\* A registration is put into the table under its key.
LEMMA AddToTable ==
    ASSUME NEW l \in Lists, NEW t \in Tables, Tidy(l, t), NEW r \in Regs,
           Kind[r] \in {"cc", "tx"}, t[Key[r]] = NoReg, NEW u \in Tables,
           u[Key[r]] = r, \A key \in Keys : key # Key[r] => u[key] = t[key]
    PROVE  Tidy(l, u) /\ Registered(l, u) = Registered(l, t) \cup {r}
  <1>1. Key[r] \in Keys /\ r # NoReg
    BY KindAssumption, RegsAssumption
  <1>2. Tidy(l, u)
    BY DEF Tidy
  <1>3. ASSUME NEW q
        PROVE  q \in Registered(l, u) <=> q \in Registered(l, t) \/ q = r
    <2>1. (q # NoReg /\ \E key \in Keys : u[key] = q) <=>
             (q = r \/ (q # NoReg /\ \E key \in Keys : t[key] = q))
      BY <1>1
    <2>2. q \in Registered(l, t) <=> Among(l, t, q)
      BY RegisteredIs
    <2>3. q \in Registered(l, u) <=> Among(l, u, q)
      BY RegisteredIs
    <2>4. QED
      BY <2>1, <2>2, <2>3 DEF Among
  <1>4. QED
    BY <1>2, <1>3

\* The item is replaced by the first one, and the first one is dropped.
LEMMA WithoutItemIs ==
    ASSUME NEW s \in Seq(Regs), NEW i \in 1..Len(s)
    PROVE  /\ WithoutItem(s, i) \in Seq(Regs) /\ Len(WithoutItem(s, i)) = Len(s) - 1
           /\ \A j \in 1..(Len(s) - 1) : WithoutItem(s, i)[j] = IF j + 1 = i THEN s[1] ELSE s[j + 1]
  <1> DEFINE u == [s EXCEPT ![i] = s[1]]
  <1>1. u \in Seq(Regs) /\ Len(u) = Len(s) /\ \A j \in 1..Len(s) : u[j] = IF j = i THEN s[1] ELSE s[j]
    OBVIOUS
  <1>2. u # <<>> /\ WithoutItem(s, i) = Tail(u)
    BY <1>1 DEF WithoutItem
  <1> HIDE DEF u
  <1>3. /\ Tail(u) \in Seq(Regs) /\ Len(Tail(u)) = Len(s) - 1
        /\ \A j \in 1..(Len(s) - 1) : Tail(u)[j] = u[j + 1] /\ j + 1 \in 1..Len(s)
    BY <1>1, <1>2
  <1>4. QED
    BY <1>1, <1>2, <1>3

\* A registration is removed from the list it is in.
LEMMA RemoveFromList ==
    ASSUME NEW l \in Lists, NEW t \in Tables, Tidy(l, t), NEW k \in ListKinds,
           NEW i \in 1..Len(l[k]), NEW m \in Lists,
           m[k] = WithoutItem(l[k], i), \A h \in ListKinds : h # k => m[h] = l[h]
    PROVE  Tidy(m, t) /\ Registered(m, t) = Registered(l, t) \ {l[k][i]}
  <1>1. \A h \in ListKinds : l[h] \in Seq(Regs) /\ Len(l[h]) \in Nat
    BY DEF Lists, ListKinds
  <1>2. /\ m[k] \in Seq(Regs) /\ Len(m[k]) = Len(l[k]) - 1
        /\ \A j \in 1..(Len(l[k]) - 1) : m[k][j] = IF j + 1 = i THEN l[k][1] ELSE l[k][j + 1]
    BY <1>1, WithoutItemIs
  <1>3. \A x, y \in 1..Len(l[k]) : l[k][x] = l[k][y] => x = y
    BY DEF Tidy
  \* where the j-th item of the new list was in the old one
  <1> DEFINE old(j) == IF j + 1 = i THEN 1 ELSE j + 1
  <1>4. \A j \in 1..Len(m[k]) : old(j) \in 1..Len(l[k]) /\ m[k][j] = l[k][old(j)] /\ old(j) # i
    BY <1>1, <1>2
  <1>5. \A j, h \in 1..Len(m[k]) : old(j) = old(h) => j = h
    BY <1>1, <1>2
  <1>6. \A x \in 1..Len(l[k]) : x # i => \E j \in 1..Len(m[k]) : old(j) = x
    <2>1. SUFFICES ASSUME NEW x \in 1..Len(l[k]), x # i
                   PROVE  \E j \in 1..Len(m[k]) : old(j) = x
      OBVIOUS
    <2>2. CASE x = 1
      <3>1. i - 1 \in 1..Len(m[k]) /\ (i - 1) + 1 = i
        BY <1>1, <1>2, <2>1, <2>2
      <3>2. old(i - 1) = x
        BY <2>2, <3>1
      <3>3. QED
        BY <3>1, <3>2
    <2>3. CASE x # 1
      <3>1. x - 1 \in 1..Len(m[k]) /\ (x - 1) + 1 = x
        BY <1>1, <1>2, <2>1, <2>3
      <3>2. old(x - 1) = x
        BY <2>1, <3>1
      <3>3. QED
        BY <3>1, <3>2
    <2>4. QED
      BY <2>2, <2>3
  <1> HIDE DEF old
  <1>7. Tidy(m, t)
    <2>1. \A x, y \in 1..Len(m[k]) : m[k][x] = m[k][y] => x = y
      BY <1>3, <1>4, <1>5
    <2>2. \A x \in 1..Len(m[k]) : Kind[m[k][x]] = k
      BY <1>4 DEF Tidy
    <2>3. QED
      BY <2>1, <2>2 DEF Tidy
  <1>8. ASSUME NEW q
         PROVE  q \in Registered(m, t) <=> q \in Registered(l, t) /\ q # l[k][i]
    <2>1. (\E x \in 1..Len(m[k]) : m[k][x] = q) <=>
             ((\E x \in 1..Len(l[k]) : l[k][x] = q) /\ q # l[k][i])
      <3>1. ASSUME NEW x \in 1..Len(m[k]), m[k][x] = q
            PROVE  (\E y \in 1..Len(l[k]) : l[k][y] = q) /\ q # l[k][i]
        BY <1>3, <1>4, <3>1
      <3>2. ASSUME NEW y \in 1..Len(l[k]), l[k][y] = q, q # l[k][i]
            PROVE  \E x \in 1..Len(m[k]) : m[k][x] = q
        <4>1. PICK j \in 1..Len(m[k]) : old(j) = y
          BY <1>6, <3>2
        <4>2. QED
          BY <1>4, <3>2, <4>1
      <3>3. QED
        BY <3>1, <3>2
    <2>2. /\ \A h \in ListKinds : h # k => \A x \in 1..Len(l[h]) : l[h][x] # l[k][i]
          /\ \A key \in Keys : t[key] # NoReg => t[key] # l[k][i]
      BY DEF Tidy, ListKinds
    <2>3. q \in Registered(l, t) <=> Among(l, t, q)
      BY RegisteredIs
    <2>4. q \in Registered(m, t) <=> Among(m, t, q)
      BY RegisteredIs
    <2>5. (\E h \in ListKinds : \E x \in 1..Len(m[h]) : m[h][x] = q) <=>
             ((\E h \in ListKinds : \E x \in 1..Len(l[h]) : l[h][x] = q) /\ q # l[k][i])
      BY <2>1, <2>2
    <2>6. QED
      BY <2>2, <2>3, <2>4, <2>5 DEF Among
  <1>9. QED
    BY <1>7, <1>8

\* A registration is removed from the table.
LEMMA RemoveFromTable ==
    ASSUME NEW l \in Lists, NEW t \in Tables, Tidy(l, t), NEW key \in Keys, t[key] # NoReg,
           NEW u \in Tables, u[key] = NoReg, \A h \in Keys : h # key => u[h] = t[h]
    PROVE  Tidy(l, u) /\ Registered(l, u) = Registered(l, t) \ {t[key]}
  <1>1. Tidy(l, u)
    BY DEF Tidy
  <1>2. ASSUME NEW q
        PROVE  q \in Registered(l, u) <=> q \in Registered(l, t) /\ q # t[key]
    <2>1. \A h \in ListKinds : \A x \in 1..Len(l[h]) : l[h][x] # t[key]
      BY DEF Tidy, ListKinds
    <2>2. \A h \in Keys : t[h] # NoReg /\ t[h] = t[key] => h = key
      BY DEF Tidy
    <2>3. (q # NoReg /\ \E h \in Keys : u[h] = q) <=>
             (q # NoReg /\ (\E h \in Keys : t[h] = q) /\ q # t[key])
      BY <2>2
    <2>4. q \in Registered(l, t) <=> Among(l, t, q)
      BY RegisteredIs
    <2>5. q \in Registered(l, u) <=> Among(l, u, q)
      BY RegisteredIs
    <2>6. QED
      BY <2>1, <2>3, <2>4, <2>5 DEF Among
  <1>3. QED
    BY <1>1, <1>2
-----------------------------------------------------------------------------
(* Events                                                                  *)

\* What an event carries.
LEMMA EventFields ==
    ASSUME NEW e \in Events
    PROVE  /\ e.type \in {"register", "unregister"} => e.reg \in Regs
           /\ e.type = "block" => e.number \in Blocks
           /\ e.type \in Moves => e.awaited \in BOOLEAN
  BY DEF Events, Moves

\* What is an event.
LEMMA EventsSent ==
    /\ \A r \in Regs : /\ [type |-> "register", reg |-> r] \in Events
                       /\ [type |-> "unregister", reg |-> r] \in Events
    /\ \A b \in Blocks : [type |-> "block", number |-> b] \in Events
    /\ \A op \in Moves : [type |-> op, awaited |-> TRUE] \in Events
  BY DEF Events, Moves

\* Where the events of a queue come from when one is sent to it.
LEMMA Posted ==
    ASSUME Types, NEW d \in Dispatchers, NEW e \in Events, Post(d, e)
    PROVE  /\ queue' \in [Dispatchers -> Seq(Events)]
           /\ \A f \in Dispatchers : \A i \in 1..Len(queue'[f]) :
                 \/ i \in 1..Len(queue[f]) /\ queue'[f][i] = queue[f][i]
                 \/ f = d /\ i = Len(queue[d]) + 1 /\ queue'[f][i] = e
  <1>1. queue \in [Dispatchers -> Seq(Events)]
    BY DEF Types
  <1>2. queue' = [queue EXCEPT ![d] = Append(queue[d], e)]
    BY DEF Post
  <1>3. Append(queue[d], e) \in Seq(Events)
    BY <1>1
  <1>4. queue' \in [Dispatchers -> Seq(Events)]
    BY <1>1, <1>2, <1>3
  <1>5. queue'[d] = Append(queue[d], e) /\ \A f \in Dispatchers : f # d => queue'[f] = queue[f]
    BY <1>1, <1>2
  <1>6. \A i \in 1..Len(queue'[d]) :
            \/ i \in 1..Len(queue[d]) /\ queue'[d][i] = queue[d][i]
            \/ i = Len(queue[d]) + 1 /\ queue'[d][i] = e
    <2>1. queue[d] \in Seq(Events)
      BY <1>1
    <2>2. Len(queue[d]) \in Nat /\ Len(queue'[d]) = Len(queue[d]) + 1
      BY <1>5, <2>1
    <2>3. QED
      BY <1>5, <2>1, <2>2
  <1>7. QED
    BY <1>4, <1>5, <1>6

\* The items of a queue without its first one.
LEMMA TailItems ==
    ASSUME NEW s \in Seq(Events), s # <<>>
    PROVE  \A i \in 1..Len(Tail(s)) : i \in Nat /\ i + 1 \in 1..Len(s) /\ i + 1 # 1 /\ Tail(s)[i] = s[i + 1]
  <1>1. Len(s) \in Nat /\ Len(s) # 0 /\ Len(Tail(s)) = Len(s) - 1
    OBVIOUS
  <1>2. QED
    BY <1>1

\* Where they come from when the dispatcher takes the first one.
LEMMA Handled ==
    ASSUME Types, NEW d \in Dispatchers, NEW type, Handle(d, type)
    PROVE  /\ queue' \in [Dispatchers -> Seq(Events)]
           /\ 1 \in 1..Len(queue[d]) /\ queue[d][1] = Head(queue[d]) /\ Head(queue[d]) \in Events
           /\ Head(queue[d]).type = type /\ state[d] = "started" /\ sending[d] = Idle
           /\ \A f \in Dispatchers : f # d => queue'[f] = queue[f]
           /\ \A i \in 1..Len(queue'[d]) : i \in Nat /\ i + 1 \in 1..Len(queue[d]) /\ i + 1 # 1
                                           /\ queue'[d][i] = queue[d][i + 1]
  <1>1. queue \in [Dispatchers -> Seq(Events)]
    BY DEF Types
  <1>2. queue' = [queue EXCEPT ![d] = Tail(queue[d])] /\ queue[d] # <<>>
    BY DEF Handle
  <1>3. queue[d] \in Seq(Events)
    BY <1>1
  <1>4. Tail(queue[d]) \in Seq(Events) /\ Len(queue[d]) \in Nat /\ 1 \in 1..Len(queue[d])
    BY <1>2, <1>3
  <1>5. queue' \in [Dispatchers -> Seq(Events)]
    BY <1>1, <1>2, <1>4
  <1>6. queue'[d] = Tail(queue[d]) /\ \A f \in Dispatchers : f # d => queue'[f] = queue[f]
    BY <1>1, <1>2
  <1>7. \A i \in 1..Len(queue'[d]) : i \in Nat /\ i + 1 \in 1..Len(queue[d]) /\ i + 1 # 1
                                     /\ queue'[d][i] = queue[d][i + 1]
    BY <1>2, <1>3, <1>6, TailItems
  <1>8. queue[d][1] = Head(queue[d]) /\ Head(queue[d]) \in Events
    BY <1>2, <1>3, <1>4
  <1>9. QED
    BY <1>4, <1>5, <1>6, <1>7, <1>8 DEF Handle

\* The waiting callers after an event that registers nobody is sent.
LEMMA AwaitingPosted ==
    ASSUME Types, Awaiting, NEW d \in Dispatchers, NEW e \in Events, Post(d, e), e.type # "register",
           \A r \in Regs : caller[r] = "waiting" => caller'[r] = "waiting"
    PROVE  Awaiting'
  <1>1. \A f \in Dispatchers : \A i \in 1..Len(queue'[f]) :
           \/ i \in 1..Len(queue[f]) /\ queue'[f][i] = queue[f][i]
           \/ queue'[f][i] = e
    BY Posted
  <1>2. ASSUME NEW r \in Regs, NEW f \in Dispatchers, NEW i \in 1..Len(queue'[f]), IsRegister(queue'[f][i], r)
        PROVE  i \in 1..Len(queue[f]) /\ IsRegister(queue[f][i], r)
    BY <1>1, <1>2 DEF IsRegister
  <1>3. ASSUME NEW r \in Regs, NEW f \in Dispatchers, NEW i \in 1..Len(queue'[f]), IsRegister(queue'[f][i], r)
        PROVE  caller'[r] = "waiting"
    BY <1>2, <1>3 DEF Awaiting
  <1>4. ASSUME NEW r \in Regs, NEW f \in Dispatchers, NEW i \in 1..Len(queue'[f]), IsRegister(queue'[f][i], r),
               NEW g \in Dispatchers, NEW j \in 1..Len(queue'[g]), IsRegister(queue'[g][j], r)
        PROVE  f = g /\ i = j
    BY <1>2, <1>4 DEF Awaiting
  <1>5. QED
    BY <1>3, <1>4 DEF Awaiting, IsRegister

\* The waiting callers after the dispatcher has taken an event.
LEMMA AwaitingHandled ==
    ASSUME Types, Awaiting, NEW d \in Dispatchers, NEW type, Handle(d, type),
           \A r \in Regs : caller[r] = "waiting" => caller'[r] = "waiting" \/ IsRegister(Head(queue[d]), r)
    PROVE  Awaiting'
  <1> DEFINE old(f, i) == IF f = d THEN i + 1 ELSE i
  <1>1. /\ 1 \in 1..Len(queue[d]) /\ queue[d][1] = Head(queue[d])
        /\ \A f \in Dispatchers : f # d => queue'[f] = queue[f]
        /\ \A i \in 1..Len(queue'[d]) : i \in Nat /\ i + 1 \in 1..Len(queue[d]) /\ i + 1 # 1
                                        /\ queue'[d][i] = queue[d][i + 1]
    BY Handled
  <1>2. \A f \in Dispatchers : \A i \in 1..Len(queue'[f]) :
           old(f, i) \in 1..Len(queue[f]) /\ queue'[f][i] = queue[f][old(f, i)]
    BY <1>1
  <1>3. \A f \in Dispatchers : \A i, j \in 1..Len(queue'[f]) : old(f, i) = old(f, j) => i = j
    BY <1>1
  <1>4. \A i \in 1..Len(queue'[d]) : old(d, i) # 1
    BY <1>1
  <1> HIDE DEF old
  <1>5. ASSUME NEW r \in Regs, NEW f \in Dispatchers, NEW i \in 1..Len(queue'[f]), IsRegister(queue'[f][i], r)
        PROVE  caller'[r] = "waiting"
    <2>1. caller[r] = "waiting"
      BY <1>2, <1>5 DEF Awaiting
    <2>2. ~IsRegister(queue[d][1], r)
      BY <1>1, <1>2, <1>4, <1>5 DEF Awaiting
    <2>3. QED
      BY <1>1, <2>1, <2>2
  <1>6. ASSUME NEW r \in Regs, NEW f \in Dispatchers, NEW i \in 1..Len(queue'[f]), IsRegister(queue'[f][i], r),
               NEW g \in Dispatchers, NEW j \in 1..Len(queue'[g]), IsRegister(queue'[g][j], r)
        PROVE  f = g /\ i = j
    <2>1. f = g /\ old(f, i) = old(g, j)
      BY <1>2, <1>6 DEF Awaiting
    <2>2. QED
      BY <1>3, <2>1
  <1>7. QED
    BY <1>5, <1>6 DEF Awaiting, IsRegister
\* The mover after an event that it does not wait for is sent.
LEMMA AnswerPosted ==
    ASSUME Types, OneAnswer, NEW d \in Dispatchers, NEW e \in Events, Post(d, e), ~IsAwaited(e),
           UNCHANGED <<mover, current>>
    PROVE  OneAnswer'
  <1>1. \A f \in Dispatchers : \A i \in 1..Len(queue'[f]) :
           \/ i \in 1..Len(queue[f]) /\ queue'[f][i] = queue[f][i]
           \/ queue'[f][i] = e
    BY Posted
  <1>2. ASSUME NEW f \in Dispatchers, NEW i \in 1..Len(queue'[f]), IsAwaited(queue'[f][i])
        PROVE  i \in 1..Len(queue[f]) /\ IsAwaited(queue[f][i])
    BY <1>1, <1>2
  <1>3. ASSUME NEW f \in Dispatchers, NEW i \in 1..Len(queue'[f]), IsAwaited(queue'[f][i])
        PROVE  /\ mover' = "waiting" /\ f = current'
               /\ \A j \in 1..Len(queue'[f]) : IsAwaited(queue'[f][j]) => i = j
    BY <1>2, <1>3 DEF OneAnswer
  <1>4. QED
    BY <1>3 DEF OneAnswer, IsAwaited

\* The mover after the dispatcher has taken an event.
LEMMA AnswerHandled ==
    ASSUME Types, OneAnswer, NEW d \in Dispatchers, NEW type, Handle(d, type), UNCHANGED current,
           UNCHANGED mover \/ IsAwaited(Head(queue[d]))
    PROVE  OneAnswer' /\ (IsAwaited(Head(queue[d])) => mover = "waiting")
  <1> DEFINE old(f, i) == IF f = d THEN i + 1 ELSE i
  <1>1. /\ 1 \in 1..Len(queue[d]) /\ queue[d][1] = Head(queue[d])
        /\ \A f \in Dispatchers : f # d => queue'[f] = queue[f]
        /\ \A i \in 1..Len(queue'[d]) : i \in Nat /\ i + 1 \in 1..Len(queue[d]) /\ i + 1 # 1
                                        /\ queue'[d][i] = queue[d][i + 1]
    BY Handled
  <1>2. \A f \in Dispatchers : \A i \in 1..Len(queue'[f]) :
           old(f, i) \in 1..Len(queue[f]) /\ queue'[f][i] = queue[f][old(f, i)]
    BY <1>1
  <1>3. \A f \in Dispatchers : \A i, j \in 1..Len(queue'[f]) : old(f, i) = old(f, j) => i = j
    BY <1>1
  <1>4. \A i \in 1..Len(queue'[d]) : old(d, i) # 1
    BY <1>1
  <1> HIDE DEF old
  <1>5. ASSUME NEW f \in Dispatchers, NEW i \in 1..Len(queue'[f]), IsAwaited(queue'[f][i])
        PROVE  mover' = "waiting" /\ f = current'
    <2>1. mover = "waiting" /\ f = current
      BY <1>2, <1>5 DEF OneAnswer
    <2>2. ASSUME IsAwaited(queue[d][1])
          PROVE  FALSE
      <3>1. d = current
        BY <1>1, <2>2 DEF OneAnswer
      <3>2. old(f, i) = 1
        BY <1>1, <1>2, <1>5, <2>1, <2>2, <3>1 DEF OneAnswer
      <3>3. QED
        BY <1>4, <1>5, <2>1, <3>1, <3>2
    <2>3. QED
      BY <1>1, <2>1, <2>2
  <1>6. ASSUME NEW f \in Dispatchers, NEW i \in 1..Len(queue'[f]), IsAwaited(queue'[f][i]),
               NEW j \in 1..Len(queue'[f]), IsAwaited(queue'[f][j])
        PROVE  i = j
    <2>1. old(f, i) = old(f, j)
      BY <1>2, <1>6 DEF OneAnswer
    <2>2. QED
      BY <1>3, <2>1
  <1>7. OneAnswer'
    BY <1>5, <1>6 DEF OneAnswer, IsAwaited
  <1>8. IsAwaited(Head(queue[d])) => mover = "waiting"
    BY <1>1 DEF OneAnswer
  <1>9. QED
    BY <1>7, <1>8

-----------------------------------------------------------------------------
(* Who holds what after a step                                             *)

\* Nothing changes hands.
LEMMA SameHoldings ==
    ASSUME Types, AllTidy, UNCHANGED <<list, table, snapshot>>
    PROVE  /\ \A d \in Dispatchers : Own(d)' = Own(d)
           /\ Snapped' = Snapped /\ AllTidy'
  BY DEF Own, Snapped, AllTidy, Tidy, Registered

\* One dispatcher is given lists and a table.
LEMMA NewHoldings ==
    ASSUME Types, AllTidy, NEW d \in Dispatchers, NEW l \in Lists, NEW t \in Tables, Tidy(l, t),
           list' = [list EXCEPT ![d] = l], table' = [table EXCEPT ![d] = t]
    PROVE  /\ list' \in [Dispatchers -> Lists] /\ table' \in [Dispatchers -> Tables]
           /\ Own(d)' = Registered(l, t)
           /\ \A e \in Dispatchers : e # d => Own(e)' = Own(e)
           /\ \A e \in Dispatchers : Tidy(list[e], table[e])'
  <1>1. list \in [Dispatchers -> Lists] /\ table \in [Dispatchers -> Tables]
    BY DEF Types
  <1>2. list' \in [Dispatchers -> Lists] /\ table' \in [Dispatchers -> Tables]
    BY <1>1
  <1>3. list'[d] = l /\ table'[d] = t
    BY <1>1
  <1>4. \A e \in Dispatchers : e # d => list'[e] = list[e] /\ table'[e] = table[e]
    BY <1>1
  <1>5. Own(d)' = Registered(l, t) /\ Tidy(list[d], table[d])'
    BY <1>3 DEF Own, Registered, Tidy
  <1>6. ASSUME NEW e \in Dispatchers, e # d
        PROVE  Own(e)' = Own(e) /\ Tidy(list[e], table[e])'
    <2>1. list'[e] = list[e] /\ table'[e] = table[e] /\ Tidy(list[e], table[e])
      BY <1>4, <1>6 DEF AllTidy
    <2>2. QED
      BY <2>1 DEF Own, Registered, Tidy
  <1>7. QED
    BY <1>2, <1>5, <1>6

\* An item of a sequence.
LEMMA ItemOf ==
    ASSUME NEW S, NEW s \in Seq(S), NEW i \in 1..Len(s)
    PROVE  s[i] \in S
  OBVIOUS

\* A registration that an event is sent to is one the dispatcher holds.
LEMMA ReceiversOwned ==
    ASSUME Types, NEW d \in Dispatchers, NEW b \in Blocks, NEW n \in 1..Loops(b)
    PROVE  Receivers(d, b, n) \subseteq Own(d)
  <1>1. CASE n = 1
    BY <1>1 DEF Receivers, Own, Registered
  <1>2. CASE n = 2
    BY <1>2 DEF Receivers, Own, Registered
  <1>3. CASE n # 1 /\ n # 2
    <2>1. Txs[b] \in Seq([tx : Keys, valid : BOOLEAN, event : SUBSET Keys])
      BY TxsAssumption
    <2>2. Len(Txs[b]) \in Nat
      BY <2>1
    <2>3. PICK i \in 1..Len(Txs[b]) : i = (n - 1) \div 2
      BY <1>3, <2>2 DEF Loops
    <2>4. Txs[b][i] \in [tx : Keys, valid : BOOLEAN, event : SUBSET Keys]
      BY <2>1, ItemOf
    <2>5. PICK keys \in SUBSET Keys :
             keys = IF n % 2 = 1 THEN {Txs[b][i].tx} ELSE IF Txs[b][i].valid THEN Txs[b][i].event ELSE {}
      BY <2>4
    <2>6. Receivers(d, b, n) = {table[d][k] : k \in keys} \ {NoReg}
      BY <1>3, <2>3, <2>5 DEF Receivers
    <2>7. QED
      BY <2>5, <2>6 DEF Own, Registered
  <1>4. QED
    BY <1>1, <1>2, <1>3
-----------------------------------------------------------------------------
(* The steps of the consumers                                              *)

\* The invariant, when nothing changes hands, no channel is closed and only
\* callers and queues change.
LEMMA CallerStep ==
    ASSUME IInv, UNCHANGED <<state, list, table, sending, chanClosed, moverVars>>, ~panicked',
           queue' \in [Dispatchers -> Seq(Events)], Addressed', Awaiting', OneAnswer',
           caller' \in [Regs -> BeforeUse \cup {"using", "unregistering", "done"}],
           \A r \in Regs : /\ caller'[r] \in BeforeUse => caller[r] \in BeforeUse
                           /\ caller'[r] = "using" => caller[r] = "using"
    PROVE  IInv'
  <1>1. Types'
    BY DEF IInv, Types, moverVars
  <1>2. (\A d \in Dispatchers : Own(d)' = Own(d)) /\ Snapped' = Snapped /\ AllTidy'
    BY SameHoldings DEF IInv, moverVars
  <1>3. Held'
    BY <1>2 DEF IInv, Held, moverVars
  <1>4. Moving' /\ Publishing'
    BY <1>2 DEF IInv, Moving, Publishing, moverVars
  <1>5. QED
    BY <1>1, <1>2, <1>3, <1>4 DEF IInv, NoPanic

\* EventCh of a registration.
LEMMA RegisterStep ==
    ASSUME IInv, NEW r \in Regs, Register(r)
    PROVE  IInv'
  <1>1. caller \in [Regs -> BeforeUse \cup {"using", "unregistering", "done"}] /\ caller[r] = "out"
    BY DEF IInv, Types, Register
  <1>2. caller' = [caller EXCEPT ![r] = "registering"] /\ UNCHANGED <<queue, mover, current>>
    BY DEF Register, Goto, moverVars
  <1>3. caller' \in [Regs -> BeforeUse \cup {"using", "unregistering", "done"}]
    BY <1>1, <1>2 DEF BeforeUse
  <1>4. \A q \in Regs : /\ caller'[q] \in BeforeUse => caller[q] \in BeforeUse
                        /\ caller'[q] = "using" => caller[q] = "using"
                        /\ caller[q] = "waiting" => caller'[q] = "waiting"
    BY <1>1, <1>2 DEF BeforeUse
  <1>5. Awaiting' /\ OneAnswer'
    BY <1>2, <1>4 DEF IInv, Awaiting, OneAnswer, IsRegister, IsAwaited
  <1>6. queue' \in [Dispatchers -> Seq(Events)]
    BY <1>2 DEF IInv, Types
  <1>7. UNCHANGED <<state, list, table, sending, chanClosed, moverVars>> /\ ~panicked'
    BY DEF Register, dispVars, Alive
  <1>8. Addressed'
    BY <1>1, <1>2 DEF IInv, Types, Addressed, Register, Dispatchers
  <1>9. QED
    BY <1>3, <1>4, <1>5, <1>6, <1>7, <1>8, CallerStep

\* The event of a registration: no other one is anywhere.
LEMMA RegisterSendStep ==
    ASSUME IInv, NEW r \in Regs, RegisterSend(r)
    PROVE  IInv'
  <1>1. caller \in [Regs -> BeforeUse \cup {"using", "unregistering", "done"}] /\ caller[r] = "registering"
    BY DEF IInv, Types, RegisterSend
  <1>2. caller' = [caller EXCEPT ![r] = "waiting"] /\ UNCHANGED <<mover, current>>
    BY DEF RegisterSend, Goto, moverVars
  <1>3. caller' \in [Regs -> BeforeUse \cup {"using", "unregistering", "done"}]
    BY <1>1, <1>2 DEF BeforeUse
  <1>4. \A q \in Regs : /\ caller'[q] \in BeforeUse => caller[q] \in BeforeUse
                        /\ caller'[q] = "using" => caller[q] = "using"
                        /\ caller[q] = "waiting" => caller'[q] = "waiting"
    BY <1>1, <1>2 DEF BeforeUse
  <1>5. PICK d \in Dispatchers : d = at[r]
    BY <1>1 DEF IInv, Addressed
  <1>6. PICK e \in Events : e = [type |-> "register", reg |-> r]
    BY EventsSent
  <1>7. Post(d, e) /\ e.type = "register" /\ e.reg = r
    BY <1>5, <1>6 DEF RegisterSend
  <1>8. /\ queue' \in [Dispatchers -> Seq(Events)]
        /\ \A f \in Dispatchers : \A i \in 1..Len(queue'[f]) :
              \/ i \in 1..Len(queue[f]) /\ queue'[f][i] = queue[f][i]
              \/ f = d /\ i = Len(queue[d]) + 1 /\ queue'[f][i] = e
    BY <1>7, Posted DEF IInv
  <1>9. OneAnswer'
    BY <1>2, <1>7, AnswerPosted DEF IInv, IsAwaited, Moves
  <1>10. Awaiting'
    <2>1. \A f \in Dispatchers : \A i \in 1..Len(queue[f]) : ~IsRegister(queue[f][i], r)
      BY <1>1 DEF IInv, Awaiting
    <2>2. ASSUME NEW q \in Regs, NEW f \in Dispatchers, NEW i \in 1..Len(queue'[f]), IsRegister(queue'[f][i], q)
          PROVE  \/ q # r /\ i \in 1..Len(queue[f]) /\ IsRegister(queue[f][i], q)
                 \/ q = r /\ f = d /\ i = Len(queue[d]) + 1
      BY <1>7, <1>8, <2>1, <2>2 DEF IsRegister
    <2>3. ASSUME NEW q \in Regs, NEW f \in Dispatchers, NEW i \in 1..Len(queue'[f]), IsRegister(queue'[f][i], q)
          PROVE  caller'[q] = "waiting"
      BY <1>1, <1>2, <1>4, <2>2, <2>3 DEF IInv, Awaiting
    <2>4. ASSUME NEW q \in Regs, NEW f \in Dispatchers, NEW i \in 1..Len(queue'[f]), IsRegister(queue'[f][i], q),
                 NEW g \in Dispatchers, NEW j \in 1..Len(queue'[g]), IsRegister(queue'[g][j], q)
          PROVE  f = g /\ i = j
      <3>1. CASE q = r
        BY <2>2, <2>4, <3>1
      <3>2. CASE q # r
        <4>1. i \in 1..Len(queue[f]) /\ IsRegister(queue[f][i], q) /\ j \in 1..Len(queue[g]) /\ IsRegister(queue[g][j], q)
          BY <2>2, <2>4, <3>2
        <4>2. QED
          BY <4>1 DEF IInv, Awaiting
      <3>3. QED
        BY <3>1, <3>2
    <2>5. QED
      BY <2>3, <2>4 DEF Awaiting, IsRegister
  <1>11. UNCHANGED <<state, list, table, sending, chanClosed, moverVars>> /\ ~panicked'
    BY DEF RegisterSend, dispVars, Alive
  <1>12. Addressed'
    BY <1>1, <1>2, SizesAssumption DEF IInv, Addressed, RegisterSend
  <1>13. QED
    BY <1>3, <1>4, <1>8, <1>9, <1>10, <1>11, <1>12, CallerStep

\* EventCh of an Unregister.
LEMMA UnregisterStep ==
    ASSUME IInv, NEW r \in Regs, Unregister(r)
    PROVE  IInv'
  <1>1. caller \in [Regs -> BeforeUse \cup {"using", "unregistering", "done"}] /\ caller[r] = "using"
    BY DEF IInv, Types, Unregister
  <1>2. /\ caller' = [caller EXCEPT ![r] = "unregistering"] \/ caller' = [caller EXCEPT ![r] = "done"]
        /\ UNCHANGED <<queue, mover, current>>
    BY DEF Unregister, Goto, moverVars
  <1>3. caller' \in [Regs -> BeforeUse \cup {"using", "unregistering", "done"}]
    BY <1>1, <1>2
  <1>4. \A q \in Regs : /\ caller'[q] \in BeforeUse => caller[q] \in BeforeUse
                        /\ caller'[q] = "using" => caller[q] = "using"
                        /\ caller[q] = "waiting" => caller'[q] = "waiting"
    BY <1>1, <1>2 DEF BeforeUse
  <1>5. Awaiting' /\ OneAnswer'
    BY <1>2, <1>4 DEF IInv, Awaiting, OneAnswer, IsRegister, IsAwaited
  <1>6. queue' \in [Dispatchers -> Seq(Events)]
    BY <1>2 DEF IInv, Types
  <1>7. UNCHANGED <<state, list, table, sending, chanClosed, moverVars>> /\ ~panicked'
    BY DEF Unregister, dispVars, Alive
  <1>8. Addressed'
    <2>1. UNCHANGED at \/ at' = [at EXCEPT ![r] = current]
      BY DEF Unregister
    <2>2. caller'[r] = "unregistering" => at' = [at EXCEPT ![r] = current]
      BY <1>1 DEF Unregister, Goto
    <2>3. at \in [Regs -> 0..Services] /\ current \in 1..Services
      BY DEF IInv, Types, Addressed, Dispatchers
    <2>4. at' \in [Regs -> 0..Services]
      BY <2>1, <2>3
    <2>5. ASSUME NEW q \in Regs, caller'[q] \in {"registering", "unregistering"}
          PROVE  at'[q] \in Dispatchers
      <3>1. CASE q = r
        BY <1>1, <1>2, <2>2, <2>3, <2>5, <3>1 DEF Dispatchers
      <3>2. CASE q # r
        BY <1>1, <1>2, <2>1, <2>3, <2>5, <3>2 DEF IInv, Addressed
      <3>3. QED
        BY <3>1, <3>2
    <2>6. QED
      BY <2>4, <2>5 DEF Addressed
  <1>9. QED
    BY <1>3, <1>4, <1>5, <1>6, <1>7, <1>8, CallerStep

\* The event of an Unregister.
LEMMA UnregisterSendStep ==
    ASSUME IInv, NEW r \in Regs, UnregisterSend(r)
    PROVE  IInv'
  <1>1. caller \in [Regs -> BeforeUse \cup {"using", "unregistering", "done"}] /\ caller[r] = "unregistering"
    BY DEF IInv, Types, UnregisterSend
  <1>2. caller' = [caller EXCEPT ![r] = "done"] /\ UNCHANGED <<mover, current>>
    BY DEF UnregisterSend, Goto, moverVars
  <1>3. caller' \in [Regs -> BeforeUse \cup {"using", "unregistering", "done"}]
    BY <1>1, <1>2
  <1>4. \A q \in Regs : /\ caller'[q] \in BeforeUse => caller[q] \in BeforeUse
                        /\ caller'[q] = "using" => caller[q] = "using"
                        /\ caller[q] = "waiting" => caller'[q] = "waiting"
    BY <1>1, <1>2 DEF BeforeUse
  <1>5. PICK d \in Dispatchers : d = at[r]
    BY <1>1 DEF IInv, Addressed
  <1>6. PICK e \in Events : e = [type |-> "unregister", reg |-> r]
    BY EventsSent
  <1>7. Post(d, e) /\ e.type = "unregister"
    BY <1>5, <1>6 DEF UnregisterSend
  <1>8. queue' \in [Dispatchers -> Seq(Events)]
    BY <1>7, Posted DEF IInv
  <1>9. OneAnswer'
    BY <1>2, <1>7, AnswerPosted DEF IInv, IsAwaited, Moves
  <1>10. Awaiting'
    BY <1>4, <1>7, AwaitingPosted DEF IInv
  <1>11. UNCHANGED <<state, list, table, sending, chanClosed, moverVars>> /\ ~panicked'
    BY DEF UnregisterSend, dispVars, Alive
  <1>12. Addressed'
    BY <1>1, <1>2, SizesAssumption DEF IInv, Addressed, UnregisterSend
  <1>13. QED
    BY <1>3, <1>4, <1>8, <1>9, <1>10, <1>11, <1>12, CallerStep

\* A block is sent to a dispatcher.
LEMMA FeedStep ==
    ASSUME IInv, NEW d \in Dispatchers, NEW b \in Blocks, Feed(d, b)
    PROVE  IInv'
  <1>1. UNCHANGED <<caller, mover, current>>
    BY DEF Feed, regVars, moverVars
  <1>2. PICK e \in Events : e = [type |-> "block", number |-> b]
    BY EventsSent
  <1>3. Post(d, e) /\ e.type = "block"
    BY <1>2 DEF Feed
  <1>4. queue' \in [Dispatchers -> Seq(Events)]
    BY <1>3, Posted DEF IInv
  <1>5. OneAnswer'
    BY <1>1, <1>3, AnswerPosted DEF IInv, IsAwaited, Moves
  <1>6. Awaiting'
    BY <1>1, <1>3, AwaitingPosted DEF IInv
  <1>7. UNCHANGED <<state, list, table, sending, chanClosed, moverVars>> /\ ~panicked'
    BY DEF Feed, dispVars, regVars, Alive
  <1>8. caller' \in [Regs -> BeforeUse \cup {"using", "unregistering", "done"}]
    BY <1>1 DEF IInv, Types
  <1>9. Addressed'
    BY DEF IInv, Addressed, Feed, regVars
  <1>10. QED
    BY <1>1, <1>4, <1>5, <1>6, <1>7, <1>8, <1>9, CallerStep
-----------------------------------------------------------------------------
(* The steps of a dispatcher: blocks                                       *)

\* The invariant, when only the block that is published and queues change.
LEMMA SendingStep ==
    ASSUME IInv, UNCHANGED <<state, list, table, chanClosed, caller, at, moverVars>>, ~panicked',
           queue' \in [Dispatchers -> Seq(Events)], Awaiting', OneAnswer',
           NEW d \in Dispatchers, ~(d > current), NEW x \in Sending, x = Idle \/ x.block \in Blocks, x.left \subseteq Own(d),
           sending' = [sending EXCEPT ![d] = x]
    PROVE  IInv'
  <1>1. sending \in [Dispatchers -> Sending]
    BY DEF IInv, Types
  <1>2. sending' \in [Dispatchers -> Sending]
    BY <1>1
  <1>3. sending'[d] = x /\ \A e \in Dispatchers : e # d => sending'[e] = sending[e]
    BY <1>1
  <1>4. Types'
    BY <1>2 DEF IInv, Types, moverVars
  <1>5. (\A e \in Dispatchers : Own(e)' = Own(e)) /\ Snapped' = Snapped /\ AllTidy'
    BY SameHoldings DEF IInv, moverVars
  <1>6. \A e \in Dispatchers : sending'[e].left \subseteq Own(e)'
    BY <1>3, <1>5 DEF IInv, Held
  <1>7. Held'
    BY <1>5, <1>6 DEF IInv, Held, moverVars
  <1>8. Moving'
    BY <1>3, <1>5 DEF IInv, Moving, moverVars
  <1>9. Addressed' /\ Publishing'
    BY <1>3 DEF IInv, Addressed, Publishing
  <1>10. QED
    BY <1>4, <1>5, <1>7, <1>8, <1>9 DEF IInv, NoPanic

\* The dispatcher that is publishing, or running, is not one to come.
LEMMA NotToCome ==
    ASSUME IInv, NEW d \in Dispatchers, state[d] = "started" \/ sending[d] # Idle
    PROVE  ~(d > current)
  BY DEF IInv, Moving

\* A block is handled up to the publishing.
LEMMA HandleBlockStep ==
    ASSUME IInv, NEW d \in Dispatchers, HandleBlock(d)
    PROVE  IInv'
  <1>1. Handle(d, "block") /\ UNCHANGED <<caller, mover, current>>
    BY DEF HandleBlock, regVars, moverVars
  <1>2. queue' \in [Dispatchers -> Seq(Events)] /\ state[d] = "started" /\ Head(queue[d]).number \in Blocks
    BY <1>1, Handled, EventFields DEF IInv
  <1>3. Awaiting' /\ OneAnswer'
    BY <1>1, AwaitingHandled, AnswerHandled DEF IInv
  <1>4. sending \in [Dispatchers -> Sending]
    BY DEF IInv, Types
  <1>5. \E x \in Sending : (x = Idle \/ x.block \in Blocks) /\ x.left \subseteq Own(d) /\ sending' = [sending EXCEPT ![d] = x]
    <2>1. CASE UNCHANGED sending
      <3>1. sending' = [sending EXCEPT ![d] = sending[d]]
        BY <1>4, <2>1
      <3>2. QED
        BY <1>4, <3>1 DEF IInv, Held, Publishing
    <2>2. CASE sending' = [sending EXCEPT ![d] =
                IF infoOnly[d] THEN Idle ELSE [block |-> Head(queue[d]).number, loop |-> 0, left |-> {}]]
      <3>1. Idle \in Sending /\ Idle.left = {}
        BY DEF Sending, Idle
      <3>2. PICK x : x = [block |-> Head(queue[d]).number, loop |-> 0, left |-> {}]
        OBVIOUS
      <3>3. x \in Sending /\ x.block \in Blocks /\ x.left = {}
        BY <1>2, <3>2 DEF Sending
      <3>4. sending' = [sending EXCEPT ![d] = Idle] \/ sending' = [sending EXCEPT ![d] = x]
        BY <2>2, <3>2
      <3>5. QED
        BY <3>1, <3>3, <3>4
    <2>3. QED
      BY <2>1, <2>2 DEF HandleBlock
  <1>6. ~(d > current)
    BY <1>2, NotToCome
  <1>7. UNCHANGED <<state, list, table, chanClosed, caller, at, moverVars>> /\ ~panicked'
    BY DEF HandleBlock, regVars, Alive
  <1>8. QED
    BY <1>2, <1>3, <1>5, <1>6, <1>7, SendingStep

\* The queues stay as they are.
LEMMA SameQueues ==
    ASSUME IInv, UNCHANGED <<queue, caller, mover, current>>
    PROVE  queue' \in [Dispatchers -> Seq(Events)] /\ Awaiting' /\ OneAnswer'
  BY DEF IInv, Types, Awaiting, OneAnswer, IsRegister, IsAwaited

\* The next loop of the publishing.
LEMMA PublishNextStep ==
    ASSUME IInv, NEW d \in Dispatchers, PublishNext(d)
    PROVE  IInv'
  <1>1. sending \in [Dispatchers -> Sending] /\ sending[d] \in Sending /\ sending[d] # Idle
    BY DEF IInv, Types, PublishNext
  <1>2. UNCHANGED <<queue, state, list, table, chanClosed, caller, at, moverVars>> /\ ~panicked'
    BY DEF PublishNext, dispVars, regVars, Alive
  <1>3. queue' \in [Dispatchers -> Seq(Events)] /\ Awaiting' /\ OneAnswer'
    BY <1>2, SameQueues DEF moverVars
  <1>4. ~(d > current)
    BY <1>1, NotToCome
  <1>5. \E x \in Sending : (x = Idle \/ x.block \in Blocks) /\ x.left \subseteq Own(d) /\ sending' = [sending EXCEPT ![d] = x]
    <2>1. CASE sending' = [sending EXCEPT ![d] = Idle]
      <3>1. Idle \in Sending /\ Idle.left = {}
        BY DEF Sending, Idle
      <3>2. QED
        BY <2>1, <3>1
    <2>2. ASSUME NEW n \in (sending[d].loop + 1)..Loops(sending[d].block),
                 sending' = [sending EXCEPT ![d] = [block |-> sending[d].block, loop |-> n,
                                                   left |-> Receivers(d, sending[d].block, n)]]
          PROVE  \E x \in Sending : (x = Idle \/ x.block \in Blocks) /\ x.left \subseteq Own(d) /\ sending' = [sending EXCEPT ![d] = x]
      <3>1. sending[d].block \in Blocks /\ sending[d].loop \in Nat
        BY <1>1 DEF IInv, Publishing, Sending
      <3>2. Len(Txs[sending[d].block]) \in Nat
        BY <3>1, TxsAssumption
      <3>3. n \in 1..Loops(sending[d].block) /\ n \in Nat
        BY <3>1, <3>2 DEF Loops
      <3>4. PICK b \in Blocks : b = sending[d].block
        BY <3>1
      <3>5. Receivers(d, b, n) \subseteq Own(d)
        BY <3>3, <3>4, ReceiversOwned DEF IInv
      <3>6. Own(d) \subseteq Regs
        BY RegisteredAreRegs DEF Own, IInv, Types
      <3>7. PICK x : x = [block |-> b, loop |-> n, left |-> Receivers(d, b, n)]
        OBVIOUS
      <3>8. x \in Sending /\ x.block \in Blocks /\ x.left \subseteq Own(d)
        BY <3>3, <3>5, <3>6, <3>7 DEF Sending
      <3>9. QED
        BY <2>2, <3>4, <3>7, <3>8
    <2>3. QED
      BY <2>1, <2>2 DEF PublishNext
  <1>6. QED
    BY <1>2, <1>3, <1>4, <1>5, SendingStep

\* An event is sent, or dropped: the registration is the dispatcher's, so its
\* channel is open.
LEMMA PublishStep ==
    ASSUME IInv, NEW d \in Dispatchers, NEW r \in Regs, Publish(d, r) \/ GiveUp(d, r)
    PROVE  IInv'
  <1>1. sending \in [Dispatchers -> Sending] /\ sending[d] \in Sending
    BY DEF IInv, Types
  <1>2. r \in sending[d].left /\ sending' = [sending EXCEPT ![d].left = @ \ {r}]
    BY DEF Publish, GiveUp
  <1>3. r \in Own(d) /\ ~chanClosed[r] /\ sending[d].left \subseteq Own(d)
    BY <1>2 DEF IInv, Held
  <1>4. sending[d] # Idle
    BY <1>2 DEF Idle
  <1>5. UNCHANGED <<queue, state, list, table, chanClosed, caller, at, moverVars>>
    BY DEF Publish, GiveUp, dispVars, regVars
  <1>6. ~panicked'
    BY <1>3 DEF Publish, GiveUp, Alive
  <1>7. queue' \in [Dispatchers -> Seq(Events)] /\ Awaiting' /\ OneAnswer'
    BY <1>5, SameQueues DEF moverVars
  <1>8. ~(d > current)
    BY <1>4, NotToCome
  <1>9. PICK x : x = [sending[d] EXCEPT !.left = @ \ {r}]
    OBVIOUS
  <1>10. x \in Sending /\ x.block \in Blocks /\ x.left = sending[d].left \ {r}
    BY <1>1, <1>4, <1>9 DEF Sending, IInv, Publishing
  <1>11. sending' = [sending EXCEPT ![d] = x]
    BY <1>1, <1>2, <1>9
  <1>12. QED
    BY <1>3, <1>5, <1>6, <1>7, <1>8, <1>10, <1>11, SendingStep
-----------------------------------------------------------------------------
(* The steps of a dispatcher: registrations                                *)

\* What a dispatcher holds when it handles an event.
LEMMA DispatcherHolds ==
    ASSUME IInv, NEW d \in Dispatchers
    PROVE  /\ list \in [Dispatchers -> Lists] /\ table \in [Dispatchers -> Tables]
           /\ list[d] \in Lists /\ table[d] \in Tables /\ Tidy(list[d], table[d])
           /\ Own(d) = Registered(list[d], table[d]) /\ Own(d) \subseteq Regs
           /\ list = [list EXCEPT ![d] = list[d]] /\ table = [table EXCEPT ![d] = table[d]]
  <1>1. list \in [Dispatchers -> Lists] /\ table \in [Dispatchers -> Tables]
    BY DEF IInv, Types
  <1>2. list[d] \in Lists /\ table[d] \in Tables /\ Tidy(list[d], table[d])
    BY <1>1 DEF IInv, AllTidy
  <1>3. Own(d) = Registered(list[d], table[d]) /\ Own(d) \subseteq Regs
    BY <1>2, RegisteredAreRegs DEF Own
  <1>4. list = [list EXCEPT ![d] = list[d]] /\ table = [table EXCEPT ![d] = table[d]]
    BY <1>1
  <1>5. QED
    BY <1>1, <1>2, <1>3, <1>4

\* What HandleRegister does with the registration of the event.
Added(d, r) ==
    \/ /\ Kind[r] \in ListKinds /\ list' = [list EXCEPT ![d][Kind[r]] = Append(@, r)]
       /\ Goto(r, "using") /\ UNCHANGED table
    \/ /\ Kind[r] \in {"cc", "tx"} /\ table[d][Key[r]] = NoReg
       /\ table' = [table EXCEPT ![d][Key[r]] = r]
       /\ Goto(r, "using") /\ UNCHANGED list
    \/ Goto(r, "out") /\ UNCHANGED <<list, table>>

\* A registration is added, or refused because of its key.
LEMMA RegisterEffect ==
    ASSUME IInv, NEW d \in Dispatchers, NEW r \in Regs, r \notin Own(d), Added(d, r)
    PROVE  \E l \in Lists, t \in Tables :
              /\ Tidy(l, t) /\ list' = [list EXCEPT ![d] = l] /\ table' = [table EXCEPT ![d] = t]
              /\ \/ caller' = [caller EXCEPT ![r] = "using"] /\ Registered(l, t) = Own(d) \cup {r}
                 \/ caller' = [caller EXCEPT ![r] = "out"] /\ Registered(l, t) = Own(d)
  <1>1. /\ list \in [Dispatchers -> Lists] /\ table \in [Dispatchers -> Tables]
        /\ list[d] \in Lists /\ table[d] \in Tables /\ Tidy(list[d], table[d])
        /\ Own(d) = Registered(list[d], table[d])
        /\ list = [list EXCEPT ![d] = list[d]] /\ table = [table EXCEPT ![d] = table[d]]
    BY DispatcherHolds
  <1>2. CASE /\ Kind[r] \in ListKinds /\ list' = [list EXCEPT ![d][Kind[r]] = Append(@, r)]
             /\ caller' = [caller EXCEPT ![r] = "using"] /\ UNCHANGED table
    <2>1. PICK m \in Lists, t \in Tables : m = list[d] /\ t = table[d]
      BY <1>1
    <2>2. PICK k \in ListKinds : k = Kind[r]
      BY <1>2
    <2>3. m[k] \in Seq(Regs)
      BY DEF Lists, ListKinds
    <2>4. PICK s \in Seq(Regs) : s = Append(m[k], r)
      <3>1. Append(m[k], r) \in Seq(Regs)
        BY <2>3
      <3>2. QED
        BY <3>1, Zenon
    <2>5. PICK l \in Lists : /\ l = [m EXCEPT ![k] = s] /\ l[k] = s
                             /\ \A h \in ListKinds : h # k => l[h] = m[h]
      BY ListReplaced
    <2>6. Tidy(m, t) /\ Own(d) = Registered(m, t) /\ r \notin Registered(m, t)
      BY <1>1, <2>1
    <2>7. l[k] = Append(m[k], r) /\ \A h \in ListKinds : h # k => l[h] = m[h]
      BY <2>4, <2>5
    <2>8. Tidy(l, t) /\ Registered(l, t) = Own(d) \cup {r}
      BY <2>2, <2>6, <2>7, AddToList
    <2>9. list' = [list EXCEPT ![d] = l] /\ table' = [table EXCEPT ![d] = t]
      BY <1>1, <1>2, <2>1, <2>2, <2>4, <2>5
    <2>10. QED
      BY <1>2, <2>8, <2>9
  <1>3. CASE /\ Kind[r] \in {"cc", "tx"} /\ table[d][Key[r]] = NoReg
             /\ table' = [table EXCEPT ![d][Key[r]] = r]
             /\ caller' = [caller EXCEPT ![r] = "using"] /\ UNCHANGED list
    <2>1. PICK t : t = [table[d] EXCEPT ![Key[r]] = r]
      OBVIOUS
    <2>2. PICK l \in Lists : l = list[d]
      BY <1>1
    <2>3. t \in Tables /\ Tidy(l, t) /\ Registered(l, t) = Own(d) \cup {r}
      <3>1. PICK u \in Tables : u = table[d]
        BY <1>1
      <3>2. Tidy(l, u) /\ Own(d) = Registered(l, u) /\ u[Key[r]] = NoReg
        BY <1>1, <1>3, <2>2, <3>1
      <3>3. t \in Tables /\ t[Key[r]] = r /\ \A key \in Keys : key # Key[r] => t[key] = u[key]
        BY <2>1, <3>1, KindAssumption DEF Tables
      <3>4. QED
        BY <1>3, <3>2, <3>3, AddToTable
    <2>4. list' = [list EXCEPT ![d] = l] /\ table' = [table EXCEPT ![d] = t]
      BY <1>1, <1>3, <2>1, <2>2
    <2>5. QED
      BY <1>1, <1>3, <2>2, <2>3, <2>4
  <1>4. CASE caller' = [caller EXCEPT ![r] = "out"] /\ UNCHANGED <<list, table>>
    BY <1>1, <1>4
  <1>5. QED
    BY <1>2, <1>3, <1>4 DEF Added, Goto

\* A registration: its caller has waited for this event, so nobody holds it yet.
LEMMA HandleRegisterStep ==
    ASSUME IInv, NEW d \in Dispatchers, HandleRegister(d)
    PROVE  IInv'
  <1>1. Handle(d, "register") /\ UNCHANGED <<state, sending, chanClosed, moverVars>> /\ ~panicked'
    BY DEF HandleRegister, Alive
  <1>2. PICK r \in Regs : r = Head(queue[d]).reg
    BY <1>1, Handled, EventFields DEF IInv
  <1>3. queue' \in [Dispatchers -> Seq(Events)] /\ state[d] = "started" /\ sending[d] = Idle
    BY <1>1, Handled DEF IInv
  <1>4. caller[r] = "waiting"
    BY <1>1, <1>2, Handled DEF IInv, Awaiting, IsRegister
  <1>5. ~chanClosed[r] /\ r \notin Snapped /\ \A e \in Dispatchers : r \notin Own(e)
    BY <1>4 DEF IInv, Held, BeforeUse
  <1>6. Added(d, r)
    BY <1>2 DEF HandleRegister, Added, ListKinds
  <1>7. PICK l \in Lists, t \in Tables :
              /\ Tidy(l, t) /\ list' = [list EXCEPT ![d] = l] /\ table' = [table EXCEPT ![d] = t]
              /\ \/ caller' = [caller EXCEPT ![r] = "using"] /\ Registered(l, t) = Own(d) \cup {r}
                 \/ caller' = [caller EXCEPT ![r] = "out"] /\ Registered(l, t) = Own(d)
    BY <1>5, <1>6, RegisterEffect
  <1>8. /\ list' \in [Dispatchers -> Lists] /\ table' \in [Dispatchers -> Tables]
        /\ Own(d)' = Registered(l, t)
        /\ \A e \in Dispatchers : e # d => Own(e)' = Own(e)
        /\ \A e \in Dispatchers : Tidy(list[e], table[e])'
    BY <1>7, NewHoldings DEF IInv
  <1>9. Snapped' = Snapped /\ AllTidy'
    BY <1>1, <1>8 DEF IInv, AllTidy, Snapped, Tidy, Registered, moverVars
  <1>10. PICK c \in {"using", "out"} : caller' = [caller EXCEPT ![r] = c]
                                      /\ Own(d)' = IF c = "using" THEN Own(d) \cup {r} ELSE Own(d)
    BY <1>7, <1>8
  <1>11. caller \in [Regs -> BeforeUse \cup {"using", "unregistering", "done"}]
    BY DEF IInv, Types
  <1>12. caller'[r] = c /\ \A q \in Regs : q # r => caller'[q] = caller[q]
    BY <1>10, <1>11
  <1>13. Types'
    <2>1. caller' \in [Regs -> BeforeUse \cup {"using", "unregistering", "done"}]
      BY <1>10, <1>11 DEF BeforeUse
    <2>2. QED
      BY <1>1, <1>3, <1>8, <2>1 DEF IInv, Types, moverVars
  <1>14. Held'
    <2>1. \A e, f \in Dispatchers : e # f => Own(e)' \cap Own(f)' = {}
      BY <1>5, <1>8, <1>10 DEF IInv, Held
    <2>2. \A e \in Dispatchers : Own(e)' \cap Snapped' = {}
      BY <1>5, <1>8, <1>9, <1>10 DEF IInv, Held
    <2>3. ASSUME NEW q \in Regs, chanClosed[q]' \/ caller'[q] \in BeforeUse
          PROVE  q \notin Snapped' /\ \A e \in Dispatchers : q \notin Own(e)'
      <3>1. CASE q = r
        <4>1. c = "out"
          BY <1>1, <1>5, <1>12, <2>3, <3>1 DEF BeforeUse
        <4>2. QED
          BY <1>5, <1>8, <1>9, <1>10, <3>1, <4>1
      <3>2. CASE q # r
        <4>1. q \notin Snapped /\ \A e \in Dispatchers : q \notin Own(e)
          BY <1>1, <1>12, <2>3, <3>2 DEF IInv, Held
        <4>2. QED
          BY <1>8, <1>9, <1>10, <3>2, <4>1
      <3>3. QED
        BY <3>1, <3>2
    <2>4. \A q \in Regs : caller'[q] \in BeforeUse => ~chanClosed[q]'
      BY <1>1, <1>5, <1>12 DEF IInv, Held
    <2>5. ASSUME NEW q \in Regs, caller'[q] = "using"
          PROVE  (\E e \in Dispatchers : q \in Own(e)') \/ q \in Snapped' \/ chanClosed'[q] \/ q \in lost'
      <3>1. CASE q = r
        BY <1>10, <1>12, <2>5, <3>1
      <3>2. CASE q # r
        <4>1. (\E e \in Dispatchers : q \in Own(e)) \/ q \in Snapped \/ chanClosed[q] \/ q \in lost
          BY <1>12, <2>5, <3>2 DEF IInv, Held
        <4>2. \A e \in Dispatchers : Own(e) \subseteq Own(e)'
          BY <1>8, <1>10
        <4>3. QED
          BY <1>1, <1>9, <4>1, <4>2 DEF moverVars
      <3>3. QED
        BY <3>1, <3>2
    <2>6. \A e \in Dispatchers : sending'[e].left \subseteq Own(e)'
      BY <1>1, <1>8, <1>10 DEF IInv, Held
    <2>7. QED
      BY <2>1, <2>2, <2>3, <2>4, <2>5, <2>6 DEF Held
  <1>15. Awaiting' /\ OneAnswer'
    <2>1. \A q \in Regs : caller[q] = "waiting" => caller'[q] = "waiting" \/ IsRegister(Head(queue[d]), q)
      BY <1>1, <1>2, <1>12, Handled DEF IInv, IsRegister
    <2>2. QED
      BY <1>1, <2>1, AwaitingHandled, AnswerHandled DEF IInv, moverVars
  <1>16. Moving' /\ Publishing' /\ NoPanic'
    <2>1. ~(d > current)
      BY <1>3, NotToCome
    <2>2. QED
      BY <1>1, <1>8, <1>9, <2>1 DEF IInv, Moving, Publishing, NoPanic, moverVars
  <1>17. Addressed'
    <2>1. at' = [at EXCEPT ![r] = 0] /\ at \in [Regs -> 0..Services]
      BY <1>2 DEF HandleRegister, IInv, Addressed
    <2>2. at' \in [Regs -> 0..Services] /\ \A q \in Regs : q # r => at'[q] = at[q]
      BY <2>1, SizesAssumption
    <2>3. QED
      BY <1>12, <2>2 DEF IInv, Addressed
  <1>18. QED
    BY <1>9, <1>13, <1>14, <1>15, <1>16, <1>17 DEF IInv
\* Registrations go from a dispatcher and their channels are closed: they were
\* its own, so the channels were open and nobody else holds them.
LEMMA ClosingStep ==
    ASSUME IInv, NEW d \in Dispatchers, NEW type, Handle(d, type),
           NEW l \in Lists, NEW t \in Tables, Tidy(l, t),
           list' = [list EXCEPT ![d] = l], table' = [table EXCEPT ![d] = t],
           NEW R, R \subseteq Own(d), Registered(l, t) = Own(d) \ R, CloseChannels(R),
           state' \in [Dispatchers -> {"initial", "started", "stopped"}],
           \A e \in Dispatchers : e # d => state'[e] = state[e],
           UNCHANGED mover \/ (IsAwaited(Head(queue[d])) /\ mover' = "moved"),
           UNCHANGED <<sending, caller, at, current, snapshot, lost>>
    PROVE  IInv'
  <1>1. queue' \in [Dispatchers -> Seq(Events)] /\ state[d] = "started" /\ sending[d] = Idle
    BY Handled DEF IInv
  <1>2. /\ list' \in [Dispatchers -> Lists] /\ table' \in [Dispatchers -> Tables]
        /\ Own(d)' = Own(d) \ R
        /\ \A e \in Dispatchers : e # d => Own(e)' = Own(e)
        /\ \A e \in Dispatchers : Tidy(list[e], table[e])'
    BY NewHoldings DEF IInv
  <1>3. Snapped' = Snapped /\ AllTidy'
    BY <1>2 DEF IInv, AllTidy, Snapped, Tidy, Registered
  <1>4. Own(d) \subseteq Regs
    BY DispatcherHolds
  <1>5. \A q \in R : q \in Regs /\ ~chanClosed[q] /\ caller[q] \notin BeforeUse /\ q \notin Snapped
                     /\ \A e \in Dispatchers : e # d => q \notin Own(e)
    BY <1>4 DEF IInv, Held
  <1>6. chanClosed' \in [Regs -> BOOLEAN] /\ \A q \in Regs : chanClosed'[q] <=> chanClosed[q] \/ q \in R
    BY DEF CloseChannels, IInv, Types
  <1>7. NoPanic'
    <2>1. ~(\E q \in R : chanClosed[q])
      BY <1>5
    <2>2. QED
      BY <2>1 DEF CloseChannels, NoPanic
  <1>8. OneAnswer' /\ (IsAwaited(Head(queue[d])) => mover = "waiting")
    BY AnswerHandled DEF IInv
  <1>9. Awaiting'
    BY AwaitingHandled DEF IInv
  <1>10. Types'
    BY <1>1, <1>2, <1>6 DEF IInv, Types
  <1>11. Held'
    <2>1. \A e, f \in Dispatchers : e # f => Own(e)' \cap Own(f)' = {}
      BY <1>2 DEF IInv, Held
    <2>2. \A e \in Dispatchers : Own(e)' \cap Snapped' = {}
      BY <1>2, <1>3 DEF IInv, Held
    <2>3. ASSUME NEW q \in Regs, chanClosed'[q] \/ caller'[q] \in BeforeUse
          PROVE  q \notin Snapped' /\ \A e \in Dispatchers : q \notin Own(e)'
      <3>1. CASE q \in R
        BY <1>2, <1>3, <1>5, <3>1
      <3>2. CASE q \notin R
        <4>1. chanClosed[q] \/ caller[q] \in BeforeUse
          BY <1>6, <2>3, <3>2
        <4>2. q \notin Snapped /\ \A e \in Dispatchers : q \notin Own(e)
          BY <4>1 DEF IInv, Held
        <4>3. QED
          BY <1>2, <1>3, <4>2
      <3>3. QED
        BY <3>1, <3>2
    <2>4. \A q \in Regs : caller'[q] \in BeforeUse => ~chanClosed'[q]
      BY <1>5, <1>6 DEF IInv, Held
    <2>5. ASSUME NEW q \in Regs, caller'[q] = "using"
          PROVE  (\E e \in Dispatchers : q \in Own(e)') \/ q \in Snapped' \/ chanClosed'[q] \/ q \in lost'
      <3>1. CASE q \in R
        BY <1>6, <3>1
      <3>2. CASE q \notin R
        <4>1. (\E e \in Dispatchers : q \in Own(e)) \/ q \in Snapped \/ chanClosed[q] \/ q \in lost
          BY <2>5 DEF IInv, Held
        <4>2. \A e \in Dispatchers : q \in Own(e) => q \in Own(e)'
          BY <1>2, <3>2
        <4>3. QED
          BY <1>3, <1>6, <4>1, <4>2
      <3>3. QED
        BY <3>1, <3>2
    <2>6. \A e \in Dispatchers : sending'[e].left \subseteq Own(e)'
      <3>1. sending[d].left = {}
        BY <1>1 DEF Idle
      <3>2. QED
        BY <1>2, <3>1 DEF IInv, Held
    <2>7. QED
      BY <2>1, <2>2, <2>3, <2>4, <2>5, <2>6 DEF Held
  <1>12. Moving'
    <2>1. ~(d > current)
      BY <1>1, NotToCome
    <2>2. QED
      BY <1>2, <1>3, <1>8, <2>1 DEF IInv, Moving
  <1>13. Publishing' /\ Addressed'
    BY DEF IInv, Publishing, Addressed
  <1>14. QED
    BY <1>3, <1>7, <1>8, <1>9, <1>10, <1>11, <1>12, <1>13 DEF IInv

\* What HandleUnregister does for the registration of the event.
Dropped(d, r) ==
    \/ /\ Kind[r] \in ListKinds
       /\ \E i \in 1..Len(list[d][Kind[r]]) :
             /\ list[d][Kind[r]][i] = r
             /\ list' = [list EXCEPT ![d][Kind[r]] = WithoutItem(@, i)]
       /\ CloseChannels({r}) /\ UNCHANGED table
    \/ /\ table[d][Key[r]] # NoReg
       /\ table' = [table EXCEPT ![d][Key[r]] = NoReg]
       /\ CloseChannels({table[d][Key[r]]}) /\ UNCHANGED list
    \/ CloseChannels({}) /\ UNCHANGED <<list, table>>

\* A registration is removed, the one with its key is, or nobody.
LEMMA UnregisterEffect ==
    ASSUME IInv, NEW d \in Dispatchers, NEW r \in Regs, Dropped(d, r)
    PROVE  \E l \in Lists, t \in Tables, R \in SUBSET Own(d) :
              /\ Tidy(l, t) /\ list' = [list EXCEPT ![d] = l] /\ table' = [table EXCEPT ![d] = t]
              /\ Registered(l, t) = Own(d) \ R /\ CloseChannels(R)
  <1>1. /\ list \in [Dispatchers -> Lists] /\ table \in [Dispatchers -> Tables]
        /\ list[d] \in Lists /\ table[d] \in Tables /\ Tidy(list[d], table[d])
        /\ Own(d) = Registered(list[d], table[d])
        /\ list = [list EXCEPT ![d] = list[d]] /\ table = [table EXCEPT ![d] = table[d]]
    BY DispatcherHolds
  <1>2. CASE /\ Kind[r] \in ListKinds
             /\ \E i \in 1..Len(list[d][Kind[r]]) :
                   /\ list[d][Kind[r]][i] = r
                   /\ list' = [list EXCEPT ![d][Kind[r]] = WithoutItem(@, i)]
             /\ CloseChannels({r}) /\ UNCHANGED table
    <2>1. PICK m \in Lists, t \in Tables : m = list[d] /\ t = table[d]
      BY <1>1
    <2>2. PICK k \in ListKinds : k = Kind[r]
      BY <1>2
    <2>3. PICK i \in 1..Len(m[k]) : m[k][i] = r /\ list' = [list EXCEPT ![d][k] = WithoutItem(@, i)]
      BY <1>2, <2>1, <2>2
    <2>4. m[k] \in Seq(Regs)
      BY DEF Lists, ListKinds
    <2>5. PICK s \in Seq(Regs) : s = WithoutItem(m[k], i)
      BY <2>4, WithoutItemIs, Zenon
    <2>6. PICK l \in Lists : /\ l = [m EXCEPT ![k] = s] /\ l[k] = s
                             /\ \A h \in ListKinds : h # k => l[h] = m[h]
      BY ListReplaced
    <2>7. Tidy(m, t) /\ Own(d) = Registered(m, t)
      BY <1>1, <2>1
    <2>8. l[k] = WithoutItem(m[k], i) /\ \A h \in ListKinds : h # k => l[h] = m[h]
      BY <2>5, <2>6
    <2>9. Tidy(l, t) /\ Registered(l, t) = Own(d) \ {m[k][i]}
      BY <2>7, <2>8, RemoveFromList
    <2>10. list' = [list EXCEPT ![d] = l] /\ table' = [table EXCEPT ![d] = t]
      BY <1>1, <1>2, <2>1, <2>3, <2>5, <2>6
    <2>11. r \in Own(d)
      BY <2>3, <2>7, RegisteredIs DEF Among
    <2>12. QED
      BY <1>2, <2>3, <2>9, <2>10, <2>11
  <1>3. CASE /\ table[d][Key[r]] # NoReg
             /\ table' = [table EXCEPT ![d][Key[r]] = NoReg]
             /\ CloseChannels({table[d][Key[r]]}) /\ UNCHANGED list
    <2>1. PICK l \in Lists, u \in Tables : l = list[d] /\ u = table[d]
      BY <1>1
    <2>2. PICK key \in Keys : key = Key[r]
      BY KindAssumption
    <2>3. PICK t \in Tables : /\ t = [u EXCEPT ![key] = NoReg] /\ t[key] = NoReg
                              /\ \A h \in Keys : h # key => t[h] = u[h]
      <3>1. PICK t : t = [u EXCEPT ![key] = NoReg]
        OBVIOUS
      <3>2. t \in Tables /\ t[key] = NoReg /\ \A h \in Keys : h # key => t[h] = u[h]
        BY <3>1 DEF Tables
      <3>3. QED
        BY <3>1, <3>2
    <2>4. Tidy(l, u) /\ Own(d) = Registered(l, u) /\ u[key] # NoReg
      BY <1>1, <1>3, <2>1, <2>2
    <2>5. t[key] = NoReg /\ \A h \in Keys : h # key => t[h] = u[h]
      BY <2>3
    <2>6. Tidy(l, t) /\ Registered(l, t) = Own(d) \ {u[key]}
      BY <2>4, <2>5, RemoveFromTable
    <2>7. list' = [list EXCEPT ![d] = l] /\ table' = [table EXCEPT ![d] = t]
      BY <1>1, <1>3, <2>1, <2>2, <2>3
    <2>8. u[key] \in Own(d)
      BY <2>4, RegisteredIs DEF Among
    <2>9. CloseChannels({u[key]})
      BY <1>3, <2>1, <2>2
    <2>10. QED
      BY <2>6, <2>7, <2>8, <2>9
  <1>4. CASE CloseChannels({}) /\ UNCHANGED <<list, table>>
    <2>1. Own(d) = Own(d) \ {} /\ {} \in SUBSET Own(d)
      OBVIOUS
    <2>2. QED
      BY <1>1, <1>4, <2>1
  <1>5. QED
    BY <1>2, <1>3, <1>4 DEF Dropped

\* An Unregister.
LEMMA HandleUnregisterStep ==
    ASSUME IInv, NEW d \in Dispatchers, HandleUnregister(d)
    PROVE  IInv'
  <1>1. Handle(d, "unregister") /\ UNCHANGED <<state, sending, caller, at, moverVars>>
    BY DEF HandleUnregister
  <1>2. PICK r \in Regs : r = Head(queue[d]).reg
    BY <1>1, Handled, EventFields DEF IInv
  <1>3. Dropped(d, r)
    BY <1>2 DEF HandleUnregister, Dropped, ListKinds
  <1>4. PICK l \in Lists, t \in Tables, R \in SUBSET Own(d) :
              /\ Tidy(l, t) /\ list' = [list EXCEPT ![d] = l] /\ table' = [table EXCEPT ![d] = t]
              /\ Registered(l, t) = Own(d) \ R /\ CloseChannels(R)
    BY <1>3, UnregisterEffect
  <1>5. state' \in [Dispatchers -> {"initial", "started", "stopped"}]
    BY <1>1 DEF IInv, Types
  <1>6. QED
    BY <1>1, <1>4, <1>5, ClosingStep DEF moverVars

\* A stop.
LEMMA HandleStopStep ==
    ASSUME IInv, NEW d \in Dispatchers, HandleStop(d)
    PROVE  IInv'
  <1>1. Handle(d, "stop") /\ UNCHANGED <<sending, caller, at, current, snapshot, lost>>
    BY DEF HandleStop
  <1>2. /\ NoLists \in Lists /\ NoTable \in Tables
        /\ Registered(NoLists, NoTable) = {} /\ Tidy(NoLists, NoTable)
    BY NobodyRegistered
  <1>3. PICK l \in Lists, t \in Tables : l = NoLists /\ t = NoTable
    BY <1>2
  <1>4. PICK R \in SUBSET Own(d) : R = Own(d)
    OBVIOUS
  <1>5. /\ Tidy(l, t) /\ list' = [list EXCEPT ![d] = l] /\ table' = [table EXCEPT ![d] = t]
        /\ Registered(l, t) = Own(d) \ R
    BY <1>2, <1>3, <1>4 DEF HandleStop
  <1>6. CloseChannels(R)
    BY <1>4 DEF HandleStop, Own
  <1>7. state' \in [Dispatchers -> {"initial", "started", "stopped"}] /\ \A e \in Dispatchers : e # d => state'[e] = state[e]
    BY DEF HandleStop, IInv, Types
  <1>8. UNCHANGED mover \/ (IsAwaited(Head(queue[d])) /\ mover' = "moved")
    <2>1. Head(queue[d]).type \in Moves
      BY <1>1 DEF Handle, Moves
    <2>2. QED
      BY <2>1 DEF HandleStop, IsAwaited
  <1>9. QED
    BY <1>1, <1>5, <1>6, <1>7, <1>8, ClosingStep
\* A transfer: what the dispatcher holds goes to the snapshot the mover waits
\* for, which is empty, or nobody waits and it is lost.
LEMMA HandleTransferStep ==
    ASSUME IInv, NEW d \in Dispatchers, HandleTransfer(d)
    PROVE  IInv'
  <1>1. UNCHANGED <<sending, caller, at, chanClosed, current>> /\ ~panicked'
    BY DEF HandleTransfer, regVars, Alive
  <1>2. PICK type \in {"transfer", "stopAndTransfer"} : Handle(d, type)
    BY DEF HandleTransfer
  <1>3. /\ queue' \in [Dispatchers -> Seq(Events)] /\ state[d] = "started" /\ sending[d] = Idle
        /\ Head(queue[d]) \in Events /\ Head(queue[d]).type = type
    BY <1>2, Handled DEF IInv
  <1>4. Own(d) \subseteq Regs /\ list[d] \in Lists /\ table[d] \in Tables /\ Tidy(list[d], table[d])
        /\ Own(d) = Registered(list[d], table[d])
    BY DispatcherHolds
  <1>5. /\ list' \in [Dispatchers -> Lists] /\ table' \in [Dispatchers -> Tables]
        /\ Own(d)' = {}
        /\ \A e \in Dispatchers : e # d => Own(e)' = Own(e)
        /\ \A e \in Dispatchers : Tidy(list[e], table[e])'
    <2>1. /\ NoLists \in Lists /\ NoTable \in Tables
          /\ Registered(NoLists, NoTable) = {} /\ Tidy(NoLists, NoTable)
      BY NobodyRegistered
    <2>2. PICK l \in Lists, t \in Tables : l = NoLists /\ t = NoTable
      BY <2>1
    <2>3. list' = [list EXCEPT ![d] = l] /\ table' = [table EXCEPT ![d] = t] /\ Tidy(l, t) /\ Registered(l, t) = {}
      BY <2>1, <2>2 DEF HandleTransfer
    <2>4. QED
      BY <2>3, NewHoldings DEF IInv
  <1>6. state' \in [Dispatchers -> {"initial", "started", "stopped"}] /\ \A e \in Dispatchers : e # d => state'[e] = state[e]
    BY DEF HandleTransfer, IInv, Types
  <1>7. ~(d > current)
    BY <1>3, NotToCome
  <1>8. IsAwaited(Head(queue[d])) <=> Head(queue[d]).awaited
    BY <1>3 DEF IsAwaited, Moves
  <1>9. UNCHANGED mover \/ IsAwaited(Head(queue[d]))
    BY <1>8 DEF HandleTransfer
  <1>10. OneAnswer' /\ (IsAwaited(Head(queue[d])) => mover = "waiting")
    BY <1>1, <1>2, <1>9, AnswerHandled DEF IInv
  <1>11. Awaiting'
    BY <1>1, <1>2, AwaitingHandled DEF IInv
  <1>12. Publishing' /\ Addressed' /\ NoPanic'
    BY <1>1 DEF IInv, Publishing, Addressed, NoPanic
  <1>13. \A e \in Dispatchers : sending'[e].left \subseteq Own(e)'
    <2>1. sending[d].left = {}
      BY <1>3 DEF Idle
    <2>2. QED
      BY <1>1, <1>5, <2>1 DEF IInv, Held
  <1>14. \A e, f \in Dispatchers : e # f => Own(e)' \cap Own(f)' = {}
    BY <1>5 DEF IInv, Held
  <1>15. CASE Head(queue[d]).awaited
    <2>1. /\ snapshot' = [list |-> list[d], table |-> table[d], last |-> lastBlock[d]]
          /\ mover' = "moved" /\ UNCHANGED lost /\ mover = "waiting"
      BY <1>8, <1>10, <1>15 DEF HandleTransfer
    <2>2. snapshot'.list = list[d] /\ snapshot'.table = table[d]
      BY <2>1
    <2>3. Snapped' = Own(d) /\ Snapped = {}
      BY <2>1, <2>2 DEF Snapped, Own, Registered, IInv, Moving
    <2>4. AllTidy'
      BY <1>4, <1>5, <2>2 DEF AllTidy, Tidy
    <2>5. Types'
      BY <1>1, <1>3, <1>4, <1>5, <1>6, <2>1, <2>2 DEF IInv, Types
    <2>6. Held'
      <3>1. \A e \in Dispatchers : Own(e)' \cap Snapped' = {}
        BY <1>5, <2>3 DEF IInv, Held
      <3>2. \A q \in Regs : chanClosed'[q] \/ caller'[q] \in BeforeUse =>
               q \notin Snapped' /\ \A e \in Dispatchers : q \notin Own(e)'
        BY <1>1, <1>5, <2>3 DEF IInv, Held
      <3>3. \A q \in Regs : caller'[q] \in BeforeUse => ~chanClosed'[q]
        BY <1>1 DEF IInv, Held
      <3>4. ASSUME NEW q \in Regs, caller'[q] = "using"
            PROVE  (\E e \in Dispatchers : q \in Own(e)') \/ q \in Snapped' \/ chanClosed'[q] \/ q \in lost'
        <4>1. (\E e \in Dispatchers : q \in Own(e)) \/ chanClosed[q] \/ q \in lost
          BY <1>1, <2>3, <3>4 DEF IInv, Held
        <4>2. QED
          BY <1>1, <1>5, <2>1, <2>3, <4>1
      <3>5. QED
        BY <1>13, <1>14, <3>1, <3>2, <3>3, <3>4 DEF Held
    <2>7. Moving'
      BY <1>1, <1>5, <1>6, <1>7, <2>1 DEF IInv, Moving
    <2>8. QED
      BY <1>10, <1>11, <1>12, <2>4, <2>5, <2>6, <2>7 DEF IInv
  <1>16. CASE ~Head(queue[d]).awaited
    <2>1. lost' = lost \cup Own(d) /\ UNCHANGED <<snapshot, mover>>
      BY <1>16 DEF HandleTransfer, Own
    <2>2. Snapped' = Snapped /\ AllTidy'
      BY <1>5, <2>1 DEF Snapped, Registered, IInv, AllTidy, Tidy
    <2>3. Types'
      BY <1>1, <1>3, <1>4, <1>5, <1>6, <2>1 DEF IInv, Types
    <2>4. Held'
      <3>1. \A e \in Dispatchers : Own(e)' \cap Snapped' = {}
        BY <1>5, <2>2 DEF IInv, Held
      <3>2. \A q \in Regs : chanClosed'[q] \/ caller'[q] \in BeforeUse =>
               q \notin Snapped' /\ \A e \in Dispatchers : q \notin Own(e)'
        BY <1>1, <1>5, <2>2 DEF IInv, Held
      <3>3. \A q \in Regs : caller'[q] \in BeforeUse => ~chanClosed'[q]
        BY <1>1 DEF IInv, Held
      <3>4. ASSUME NEW q \in Regs, caller'[q] = "using"
            PROVE  (\E e \in Dispatchers : q \in Own(e)') \/ q \in Snapped' \/ chanClosed'[q] \/ q \in lost'
        <4>1. (\E e \in Dispatchers : q \in Own(e)) \/ q \in Snapped \/ chanClosed[q] \/ q \in lost
          BY <1>1, <3>4 DEF IInv, Held
        <4>2. QED
          BY <1>1, <1>5, <2>1, <2>2, <4>1
      <3>5. QED
        BY <1>13, <1>14, <3>1, <3>2, <3>3, <3>4 DEF Held
    <2>5. Moving'
      BY <1>1, <1>5, <1>6, <1>7, <2>1, <2>2 DEF IInv, Moving
    <2>6. QED
      BY <1>10, <1>11, <1>12, <2>2, <2>3, <2>4, <2>5 DEF IInv
  <1>17. QED
    BY <1>15, <1>16

-----------------------------------------------------------------------------
(* The steps of the mover                                                  *)

\* The invariant, when only the mover and queues change.
LEMMA MoverStep ==
    ASSUME IInv, UNCHANGED <<state, list, table, sending, caller, at, chanClosed, current, snapshot, lost>>, ~panicked',
           queue' \in [Dispatchers -> Seq(Events)], Awaiting', OneAnswer',
           mover' \in {"idle", "waiting", "moved"} \cup Moves, mover # "moved", mover' # "idle", current < Services
    PROVE  IInv'
  <1>1. Types'
    BY DEF IInv, Types
  <1>2. (\A d \in Dispatchers : Own(d)' = Own(d)) /\ Snapped' = Snapped /\ AllTidy'
    BY SameHoldings DEF IInv
  <1>3. Held'
    BY <1>2 DEF IInv, Held
  <1>4. Moving'
    BY <1>2 DEF IInv, Moving
  <1>5. Publishing' /\ Addressed'
    BY DEF IInv, Publishing, Addressed
  <1>6. QED
    BY <1>1, <1>2, <1>3, <1>4, <1>5 DEF IInv, NoPanic

\* A move begins.
LEMMA MoveStartStep ==
    ASSUME IInv, NEW op \in Moves, MoveStart(op)
    PROVE  IInv'
  <1>1. UNCHANGED <<queue, state, list, table, sending, caller, at, chanClosed, current, snapshot, lost>> /\ ~panicked'
    BY DEF MoveStart, dispVars, regVars, Alive
  <1>2. mover = "idle" /\ mover' = op /\ current < Services
    BY DEF MoveStart
  <1>3. \A d \in Dispatchers : \A i \in 1..Len(queue[d]) : ~IsAwaited(queue[d][i])
    BY <1>2 DEF IInv, OneAnswer
  <1>4. OneAnswer'
    BY <1>1, <1>3 DEF OneAnswer, IsAwaited
  <1>5. Awaiting'
    BY <1>1 DEF IInv, Awaiting, IsRegister
  <1>6. queue' \in [Dispatchers -> Seq(Events)]
    BY <1>1 DEF IInv, Types
  <1>7. mover' # "idle" /\ mover # "moved" /\ mover' \in {"idle", "waiting", "moved"} \cup Moves
    BY <1>2 DEF Moves
  <1>8. QED
    BY <1>1, <1>2, <1>4, <1>5, <1>6, <1>7, MoverStep

\* The event that the mover waits for: there is no other one.
LEMMA MoveSendStep ==
    ASSUME IInv, MoveSend
    PROVE  IInv'
  <1>1. UNCHANGED <<state, list, table, sending, caller, at, chanClosed, current, snapshot, lost>> /\ ~panicked'
    BY DEF MoveSend, dispVars, regVars, Alive
  <1>2. mover \in Moves /\ mover' = "waiting"
    BY DEF MoveSend, Moves
  <1>3. mover \notin {"idle", "waiting", "moved"} /\ current < Services
    BY <1>2 DEF Moves, IInv, Moving
  <1>4. PICK d \in Dispatchers : d = current
    BY DEF IInv, Types
  <1>5. PICK e \in Events : e = [type |-> mover, awaited |-> TRUE]
    BY <1>2, EventsSent
  <1>6. Post(d, e) /\ e.type # "register"
    BY <1>2, <1>4, <1>5 DEF MoveSend, Moves
  <1>7. Awaiting'
    BY <1>1, <1>6, AwaitingPosted DEF IInv
  <1>8. /\ queue' \in [Dispatchers -> Seq(Events)]
        /\ \A f \in Dispatchers : \A i \in 1..Len(queue'[f]) :
              \/ i \in 1..Len(queue[f]) /\ queue'[f][i] = queue[f][i]
              \/ f = d /\ i = Len(queue[d]) + 1 /\ queue'[f][i] = e
    BY <1>6, Posted DEF IInv
  <1>9. \A f \in Dispatchers : \A i \in 1..Len(queue[f]) : ~IsAwaited(queue[f][i])
    BY <1>3 DEF IInv, OneAnswer
  <1>10. ASSUME NEW f \in Dispatchers, NEW i \in 1..Len(queue'[f]), IsAwaited(queue'[f][i])
         PROVE  f = d /\ i = Len(queue[d]) + 1
    BY <1>8, <1>9, <1>10
  <1>11. OneAnswer'
    <2>1. ASSUME NEW f \in Dispatchers, NEW i \in 1..Len(queue'[f]), IsAwaited(queue'[f][i])
          PROVE  /\ mover' = "waiting" /\ f = current'
                 /\ \A j \in 1..Len(queue'[f]) : IsAwaited(queue'[f][j]) => i = j
      BY <1>1, <1>2, <1>4, <1>10, <2>1
    <2>2. QED
      BY <2>1 DEF OneAnswer, IsAwaited
  <1>12. QED
    BY <1>1, <1>2, <1>3, <1>7, <1>8, <1>11, MoverStep

\* The mover goes on without an answer: nobody waits for its event any more.
LEMMA MoveTimesOutStep ==
    ASSUME IInv, MoveTimesOut
    PROVE  IInv'
  <1>1. UNCHANGED <<state, list, table, sending, caller, at, chanClosed, current, snapshot, lost>> /\ ~panicked'
    BY DEF MoveTimesOut, dispVars, regVars, Alive
  <1>2. mover = "waiting" /\ mover' = "moved" /\ current < Services
    BY DEF MoveTimesOut, IInv, Moving
  <1>3. queue \in [Dispatchers -> Seq(Events)] /\ current \in Dispatchers
    BY DEF IInv, Types
  <1>4. PICK d \in Dispatchers : d = current
    BY <1>3
  <1>5. PICK q \in Seq(Events) : q = queue[d]
    BY <1>3
  <1> DEFINE late(e) == IF "awaited" \in DOMAIN e THEN [e EXCEPT !.awaited = FALSE] ELSE e
  <1>6. \A e \in Events : /\ late(e) \in Events /\ ~IsAwaited(late(e)) /\ late(e).type = e.type
                          /\ e.type = "register" => late(e).reg = e.reg
    <2>1. SUFFICES ASSUME NEW e \in Events
                   PROVE  /\ late(e) \in Events /\ ~IsAwaited(late(e)) /\ late(e).type = e.type
                          /\ e.type = "register" => late(e).reg = e.reg
      BY Zenon
    <2>2. CASE e \in [type : {"stop", "transfer", "stopAndTransfer"}, awaited : BOOLEAN]
      BY <2>2 DEF Events, IsAwaited
    <2>3. CASE e \in [type : {"register", "unregister"}, reg : Regs]
      BY <2>3 DEF Events, IsAwaited, Moves
    <2>4. CASE e \in [type : {"block"}, number : Blocks]
      BY <2>4 DEF Events, IsAwaited, Moves
    <2>5. QED
      BY <2>2, <2>3, <2>4 DEF Events
  <1>7. queue' = [queue EXCEPT ![d] = [i \in 1..Len(q) |-> late(q[i])]]
    BY <1>3, <1>4, <1>5 DEF MoveTimesOut
  <1> HIDE DEF late
  <1>8. PICK p : p = [i \in 1..Len(q) |-> late(q[i])]
    OBVIOUS
  <1>9. p \in Seq(Events) /\ Len(p) = Len(q) /\ \A i \in 1..Len(q) : q[i] \in Events /\ p[i] = late(q[i])
    BY <1>6, <1>8
  <1>10. queue' \in [Dispatchers -> Seq(Events)] /\ queue'[d] = p /\ \A f \in Dispatchers : f # d => queue'[f] = queue[f]
    BY <1>3, <1>7, <1>8, <1>9
  <1>11. OneAnswer'
    <2>1. ASSUME NEW f \in Dispatchers, NEW i \in 1..Len(queue'[f]), IsAwaited(queue'[f][i])
          PROVE  FALSE
      <3>1. CASE f = d
        BY <1>6, <1>9, <1>10, <2>1, <3>1
      <3>2. CASE f # d
        BY <1>4, <1>10, <2>1, <3>2 DEF IInv, OneAnswer
      <3>3. QED
        BY <3>1, <3>2
    <2>2. QED
      BY <2>1 DEF OneAnswer, IsAwaited
  <1>12. Awaiting'
    <2>1. ASSUME NEW r \in Regs, NEW f \in Dispatchers, NEW i \in 1..Len(queue'[f]), IsRegister(queue'[f][i], r)
          PROVE  i \in 1..Len(queue[f]) /\ IsRegister(queue[f][i], r)
      <3>1. CASE f = d
        <4>1. i \in 1..Len(q) /\ q[i] \in Events /\ IsRegister(late(q[i]), r)
          BY <1>9, <1>10, <2>1, <3>1
        <4>2. QED
          BY <1>5, <1>6, <3>1, <4>1 DEF IsRegister
      <3>2. CASE f # d
        BY <1>10, <2>1, <3>2
      <3>3. QED
        BY <3>1, <3>2
    <2>2. ASSUME NEW r \in Regs, NEW f \in Dispatchers, NEW i \in 1..Len(queue'[f]), IsRegister(queue'[f][i], r)
          PROVE  caller'[r] = "waiting"
      BY <1>1, <2>1, <2>2 DEF IInv, Awaiting
    <2>3. ASSUME NEW r \in Regs, NEW f \in Dispatchers, NEW i \in 1..Len(queue'[f]), IsRegister(queue'[f][i], r),
                 NEW g \in Dispatchers, NEW j \in 1..Len(queue'[g]), IsRegister(queue'[g][j], r)
          PROVE  f = g /\ i = j
      BY <2>1, <2>3 DEF IInv, Awaiting
    <2>4. QED
      BY <2>2, <2>3 DEF Awaiting, IsRegister
  <1>13. QED
    BY <1>1, <1>2, <1>10, <1>11, <1>12, MoverStep
\* The next service is given the snapshot: it held nothing before.
LEMMA StartStep ==
    ASSUME IInv, NEW b \in Blocks, Start(b)
    PROVE  IInv'
  <1>1. UNCHANGED <<queue, sending, caller, at, chanClosed, lost>> /\ ~panicked'
    BY DEF Start, regVars, Alive
  <1>2. mover = "moved" /\ mover' = "idle" /\ current' = current + 1 /\ snapshot' = NoSnapshot
    BY DEF Start
  <1>3. current \in 1..Services /\ current < Services
    BY <1>2 DEF IInv, Types, Dispatchers, Moving
  <1>4. PICK d \in Dispatchers : d = current + 1
    BY <1>3, SizesAssumption DEF Dispatchers
  <1>5. d > current /\ \A e \in Dispatchers : e > d => e > current /\ e # d
    BY <1>3, <1>4 DEF Dispatchers
  <1>6. PICK l \in Lists, t \in Tables : l = snapshot.list /\ t = snapshot.table
    BY DEF IInv, Types
  <1>7. /\ Tidy(l, t) /\ Registered(l, t) = Snapped
        /\ list' = [list EXCEPT ![d] = l] /\ table' = [table EXCEPT ![d] = t]
    BY <1>4, <1>6 DEF IInv, AllTidy, Snapped, Start
  <1>8. /\ list' \in [Dispatchers -> Lists] /\ table' \in [Dispatchers -> Tables]
        /\ Own(d)' = Snapped
        /\ \A e \in Dispatchers : e # d => Own(e)' = Own(e)
        /\ \A e \in Dispatchers : Tidy(list[e], table[e])'
    BY <1>7, NewHoldings DEF IInv
  <1>9. Own(d) = {} /\ sending[d] = Idle
    BY <1>5 DEF IInv, Moving
  <1>10. snapshot'.list = NoLists /\ snapshot'.table = NoTable
    BY <1>2 DEF NoSnapshot
  <1>11. Snapped' = {} /\ AllTidy' /\ snapshot'.list \in Lists /\ snapshot'.table \in Tables
    BY <1>8, <1>10, NobodyRegistered DEF Snapped, AllTidy
  <1>12. state' = [state EXCEPT ![d] = "started"]
    BY <1>4 DEF Start
  <1>13. Types'
    BY <1>1, <1>2, <1>4, <1>8, <1>11, <1>12 DEF IInv, Types
  <1>14. OneAnswer' /\ Awaiting'
    <2>1. \A e \in Dispatchers : \A i \in 1..Len(queue[e]) : ~IsAwaited(queue[e][i])
      BY <1>2 DEF IInv, OneAnswer
    <2>2. OneAnswer'
      BY <1>1, <2>1 DEF OneAnswer, IsAwaited
    <2>3. Awaiting'
      BY <1>1 DEF IInv, Awaiting, IsRegister
    <2>4. QED
      BY <2>2, <2>3
  <1>15. Held'
    <2>1. \A e, f \in Dispatchers : e # f => Own(e)' \cap Own(f)' = {}
      BY <1>8 DEF IInv, Held
    <2>2. \A q \in Regs : chanClosed'[q] \/ caller'[q] \in BeforeUse =>
             q \notin Snapped' /\ \A e \in Dispatchers : q \notin Own(e)'
      BY <1>1, <1>8, <1>11 DEF IInv, Held
    <2>3. \A q \in Regs : caller'[q] \in BeforeUse => ~chanClosed'[q]
      BY <1>1 DEF IInv, Held
    <2>4. ASSUME NEW q \in Regs, caller'[q] = "using"
          PROVE  (\E e \in Dispatchers : q \in Own(e)') \/ q \in Snapped' \/ chanClosed'[q] \/ q \in lost'
      <3>1. (\E e \in Dispatchers : q \in Own(e)) \/ q \in Snapped \/ chanClosed[q] \/ q \in lost
        BY <1>1, <2>4 DEF IInv, Held
      <3>2. QED
        BY <1>1, <1>8, <1>9, <3>1
    <2>5. \A e \in Dispatchers : sending'[e].left \subseteq Own(e)'
      BY <1>1, <1>8, <1>9 DEF IInv, Held, Idle
    <2>6. QED
      BY <1>11, <2>1, <2>2, <2>3, <2>4, <2>5 DEF Held
  <1>16. Moving'
    <2>1. \A e \in Dispatchers : e > current' => state'[e] = "initial" /\ Own(e)' = {} /\ sending'[e] = Idle
      <3>1. state \in [Dispatchers -> {"initial", "started", "stopped"}]
        BY DEF IInv, Types
      <3>2. ASSUME NEW e \in Dispatchers, e > current'
            PROVE  e > current /\ e # d
        BY <1>2, <1>4, <1>5, <3>2
      <3>3. QED
        BY <1>1, <1>8, <1>12, <3>1, <3>2 DEF IInv, Moving
    <2>2. QED
      BY <1>2, <1>11, <2>1 DEF Moving
  <1>17. Publishing' /\ Addressed' /\ NoPanic'
    BY <1>1 DEF IInv, Publishing, Addressed, NoPanic
  <1>18. QED
    BY <1>11, <1>13, <1>14, <1>15, <1>16, <1>17 DEF IInv

-----------------------------------------------------------------------------
(* The theorems                                                            *)

\* In the beginning nobody is registered and no event is on its way.
LEMMA InitInvariant == Init => IInv
  <1>1. SUFFICES ASSUME Init
                 PROVE  IInv
    OBVIOUS
  <1>2. 1 \in Dispatchers
    BY SizesAssumption DEF Dispatchers
  <1>3. /\ NoLists \in Lists /\ NoTable \in Tables
        /\ Registered(NoLists, NoTable) = {} /\ Tidy(NoLists, NoTable)
    BY NobodyRegistered
  <1>4. \A d \in Dispatchers : list[d] = NoLists /\ table[d] = NoTable
    BY <1>1 DEF Init
  <1>5. snapshot.list = NoLists /\ snapshot.table = NoTable
    BY <1>1 DEF Init, NoSnapshot
  <1>6. (\A d \in Dispatchers : Own(d) = {}) /\ Snapped = {} /\ AllTidy
    BY <1>3, <1>4, <1>5 DEF Own, Snapped, AllTidy
  <1>7. Idle \in Sending /\ Idle.left = {}
    BY DEF Idle, Sending
  <1>8. <<>> \in Seq(Events) /\ Len(<<>>) = 0
    OBVIOUS
  <1>9. Types
    BY <1>1, <1>2, <1>3, <1>5, <1>7, <1>8 DEF Init, Types, BeforeUse
  <1>10. Held
    BY <1>1, <1>6, <1>7 DEF Init, Held
  <1>11. \A d \in Dispatchers : Len(queue[d]) = 0
    BY <1>1, <1>8 DEF Init
  <1>12. Awaiting /\ OneAnswer
    BY <1>11 DEF Awaiting, OneAnswer
  <1>13. Moving
    BY <1>1, <1>6 DEF Init, Moving, Dispatchers
  <1>14. Publishing /\ Addressed /\ NoPanic
    BY <1>1, SizesAssumption DEF Init, Publishing, Addressed, NoPanic
  <1>15. QED
    BY <1>6, <1>9, <1>10, <1>12, <1>13, <1>14 DEF IInv

\* Every step keeps the invariant.
LEMMA StepInvariant == IInv /\ [Next]_vars => IInv'
  <1>1. SUFFICES ASSUME IInv, [Next]_vars
                 PROVE  IInv'
    OBVIOUS
  <1>2. ASSUME UNCHANGED <<state, queue, list, table, sending, chanClosed, caller, at, moverVars>>, ~panicked'
        PROVE  IInv'
    <2>1. queue' \in [Dispatchers -> Seq(Events)] /\ Awaiting' /\ OneAnswer'
      BY <1>1, <1>2, SameQueues DEF moverVars
    <2>2. Addressed' /\ caller' \in [Regs -> BeforeUse \cup {"using", "unregistering", "done"}]
      BY <1>1, <1>2 DEF IInv, Types, Addressed
    <2>3. QED
      BY <1>1, <1>2, <2>1, <2>2, CallerStep
  <1>3. CASE UNCHANGED vars
    BY <1>1, <1>2, <1>3 DEF vars, moverVars, IInv, NoPanic
  <1>4. ASSUME NEW r \in Regs, Consumer(r)
        PROVE  IInv'
    <2>1. CASE Read(r)
      BY <1>2, <2>1 DEF Read, dispVars, Alive
    <2>2. QED
      BY <1>1, <1>4, <2>1, RegisterStep, RegisterSendStep, UnregisterStep, UnregisterSendStep DEF Consumer
  <1>5. ASSUME NEW d \in Dispatchers, Dispatch(d)
        PROVE  IInv'
    BY <1>1, <1>5, HandleRegisterStep, HandleUnregisterStep, HandleBlockStep, PublishNextStep, PublishStep,
       HandleStopStep, HandleTransferStep DEF Dispatch
  <1>6. ASSUME NEW d \in Dispatchers, NEW b \in Blocks, Feed(d, b)
        PROVE  IInv'
    BY <1>1, <1>6, FeedStep
  <1>7. CASE Move
    BY <1>1, <1>7, MoveStartStep, MoveSendStep, MoveTimesOutStep, StartStep DEF Move, Moves
  <1>8. QED
    BY <1>1, <1>3, <1>4, <1>5, <1>6, <1>7 DEF Next

\* The inductive invariant holds of every behaviour.
THEOREM DispatcherInvariant == Spec => []IInv
  BY InitInvariant, StepInvariant, PTL DEF Spec

\* However Unregister, Stop and transfers to other services interleave with the
\* publishing of blocks, no event is sent on a closed channel and no channel is
\* closed a second time (close and the sends of the dispatcher would panic).
THEOREM NeverPanics == Spec => []NoPanic
  <1>1. IInv => NoPanic
    BY DEF IInv
  <1>2. QED
    BY <1>1, DispatcherInvariant, PTL


\* A set with at most one member.
LEMMA AtMostOne ==
    ASSUME NEW S, \A x, y \in S : x = y
    PROVE  Cardinality(S) \in Nat /\ Cardinality(S) <= 1 /\ (S = {} => Cardinality(S) = 0)
  <1>1. CASE S = {}
    BY <1>1, FS_EmptySet
  <1>2. CASE S # {}
    <2>1. PICK x \in S : S = {x}
      BY <1>2
    <2>2. QED
      BY <1>2, <2>1, FS_Singleton
  <1>3. QED
    BY <1>1, <1>2

\* A registration is one dispatcher's, once, or the snapshot's, with its channel
\* open, and a consumer that has not called Unregister is never forgotten by both
\* without being told, unless the mover gave up on the transfer it was in.
THEOREM RegistrationOwnedOnce == Spec => []OwnedOnce
  <1>1. IInv => OwnedOnce
    <2>1. SUFFICES ASSUME IInv, NEW r \in Regs
                   PROVE  /\ Cardinality(Owners(r)) + (IF InSnapshot(r) THEN 1 ELSE 0) <= 1
                          /\ chanClosed[r] => Owners(r) = {} /\ ~InSnapshot(r)
                          /\ \A d \in Dispatchers, k \in {"block", "filtered"} :
                                Cardinality({i \in 1..Len(list[d][k]) : list[d][k][i] = r}) <= 1
                          /\ Kept(r)
      BY DEF OwnedOnce
    <2>2. (\A d : d \in Owners(r) <=> d \in Dispatchers /\ r \in Own(d)) /\ (InSnapshot(r) <=> r \in Snapped)
      BY DEF Owners, InSnapshot, Own, Snapped
    <2>3. \A d, e \in Owners(r) : d = e
      BY <2>1, <2>2 DEF IInv, Held
    <2>4. InSnapshot(r) => Owners(r) = {}
      BY <2>1, <2>2 DEF IInv, Held
    <2>5. /\ Cardinality(Owners(r)) \in Nat /\ Cardinality(Owners(r)) <= 1
          /\ Owners(r) = {} => Cardinality(Owners(r)) = 0
      BY <2>3, AtMostOne
    <2>6. Cardinality(Owners(r)) + (IF InSnapshot(r) THEN 1 ELSE 0) <= 1
      BY <2>4, <2>5
    <2>7. chanClosed[r] => Owners(r) = {} /\ ~InSnapshot(r)
      BY <2>1, <2>2 DEF IInv, Held
    <2>8. ASSUME NEW d \in Dispatchers, NEW k \in {"block", "filtered"}
          PROVE  Cardinality({i \in 1..Len(list[d][k]) : list[d][k][i] = r}) <= 1
      <3>1. Tidy(list[d], table[d])
        BY <2>1 DEF IInv, AllTidy
      <3>2. \A i, j \in {i \in 1..Len(list[d][k]) : list[d][k][i] = r} : i = j
        BY <3>1 DEF Tidy, ListKinds
      <3>3. QED
        BY <3>2, AtMostOne
    <2>9. Kept(r)
      BY <2>1, <2>2 DEF IInv, Held, Kept
    <2>10. QED
      BY <2>6, <2>7, <2>8, <2>9
  <1>2. QED
    BY <1>1, DispatcherInvariant, PTL
-----------------------------------------------------------------------------
(* The order of the events                                                 *)

\* Loop n of block b has an event for a registration of the kind and key of r.
Wants(r, b, n) ==
    \/ Kind[r] = "block" /\ n = 1 /\ r \in Accepted[b]
    \/ Kind[r] = "filtered" /\ n = 2
    \/ Kind[r] = "tx" /\ \E i \in 1..Len(Txs[b]) : n = 2 * i + 1 /\ Txs[b][i].tx = Key[r]
    \/ Kind[r] = "cc" /\ \E i \in 1..Len(Txs[b]) :
          n = 2 * i + 2 /\ Txs[b][i].valid /\ Key[r] \in Txs[b][i].event

Wanted(r, b, n) == {m \in 1..n : Wants(r, b, m)}
Occurrences(s, b) == {i \in 1..Len(s) : s[i] = b}

Sorted(s) == \A i \in 1..(Len(s) - 1) : s[i] <= s[i + 1]

\* The blocks were handled by a dispatcher whose last block is x.  After a transfer
\* the first block is as good as none.
Known(s, x) == \A i \in 1..Len(s) : s[i] <= x \/ s[i] = 0

\* What r was sent of the block that d publishes: no event twice, and not the
\* one that is still to be sent.
SentSoFar(d, r) ==
    Cardinality(Occurrences(sent[r], sending[d].block)) + (IF r \in sending[d].left THEN 1 ELSE 0)
        <= Cardinality(Wanted(r, sending[d].block, sending[d].loop))

\* A dispatcher has handled the blocks that its registrations were sent.
HandledBy(d) ==
    /\ \A r \in Own(d) : Known(sent[r], lastBlock[d])
    /\ sending[d] # Idle =>
          /\ sending[d].block = lastBlock[d]
          /\ sending[d].block # 0 => \A r \in Own(d) : SentSoFar(d, r)

OTypes ==
    /\ sent \in [Regs -> Seq(Blocks)] /\ lastBlock \in [Dispatchers -> Blocks \cup {NoBlock}]
    /\ snapshot.last \in Blocks \cup {NoBlock}

Ordered(r) ==
    /\ Sorted(sent[r])
    /\ \A b \in Blocks \ {0} : Cardinality(Occurrences(sent[r], b)) <= Due(r, b)
    /\ caller[r] \in BeforeUse => sent[r] = <<>>

OInv ==
    /\ OTypes
    /\ \A r \in Regs : Ordered(r)
    /\ \A d \in Dispatchers : HandledBy(d)
    /\ \A r \in Snapped : Known(sent[r], snapshot.last)

\* The loops that have an event for a registration are finitely many, there are
\* none before the first, and a further one makes them more.
LEMMA WantedGrows ==
    ASSUME NEW r, NEW b, NEW n \in Nat, NEW m \in Nat, n <= m
    PROVE  /\ IsFiniteSet(Wanted(r, b, n)) /\ Cardinality(Wanted(r, b, n)) \in Nat
           /\ Cardinality(Wanted(r, b, m)) \in Nat
           /\ Cardinality(Wanted(r, b, n)) <= Cardinality(Wanted(r, b, m))
           /\ n < m /\ Wants(r, b, m) => Cardinality(Wanted(r, b, n)) + 1 <= Cardinality(Wanted(r, b, m))
  <1>1. IsFiniteSet(1..n) /\ IsFiniteSet(1..m)
    BY FS_Interval
  <1>2. Wanted(r, b, n) \subseteq 1..n /\ Wanted(r, b, m) \subseteq 1..m
    BY DEF Wanted
  <1>3. IsFiniteSet(Wanted(r, b, n)) /\ IsFiniteSet(Wanted(r, b, m))
    BY <1>1, <1>2, FS_Subset
  <1>4. Cardinality(Wanted(r, b, n)) \in Nat /\ Cardinality(Wanted(r, b, m)) \in Nat
    BY <1>3, FS_CardinalityType
  <1>5. Wanted(r, b, n) \subseteq Wanted(r, b, m)
    BY DEF Wanted
  <1>6. Cardinality(Wanted(r, b, n)) <= Cardinality(Wanted(r, b, m))
    BY <1>3, <1>5, FS_Subset
  <1>7. ASSUME n < m, Wants(r, b, m)
        PROVE  Cardinality(Wanted(r, b, n)) + 1 <= Cardinality(Wanted(r, b, m))
    <2>1. m \notin Wanted(r, b, n) /\ m \in Wanted(r, b, m)
      BY <1>7 DEF Wanted
    <2>2. Cardinality(Wanted(r, b, n) \cup {m}) = Cardinality(Wanted(r, b, n)) + 1
      BY <1>3, <2>1, FS_AddElement
    <2>3. Wanted(r, b, n) \cup {m} \subseteq Wanted(r, b, m)
      BY <1>5, <2>1
    <2>4. QED
      BY <1>3, <2>2, <2>3, FS_Subset
  <1>8. QED
    BY <1>3, <1>4, <1>6, <1>7

\* Before the first loop there are none.
LEMMA NoneWanted ==
    ASSUME NEW r, NEW b
    PROVE  Cardinality(Wanted(r, b, 0)) = 0
  <1>1. Wanted(r, b, 0) = {}
    BY DEF Wanted
  <1>2. QED
    BY <1>1, FS_EmptySet

\* There are as many as there are events due, or fewer: one for each
\* transaction, each in a loop of its own.
LEMMA WantedAreDue ==
    ASSUME NEW r \in Regs, NEW b \in Blocks, NEW n \in Nat
    PROVE  Due(r, b) \in Nat /\ Cardinality(Wanted(r, b, n)) <= Due(r, b)
  <1> DEFINE half == [m \in Wanted(r, b, n) |-> (m - 1) \div 2]
  <1>1. Txs[b] \in Seq([tx : Keys, valid : BOOLEAN, event : SUBSET Keys])
    BY TxsAssumption
  <1>2. Len(Txs[b]) \in Nat /\ IsFiniteSet(1..Len(Txs[b]))
    BY <1>1, FS_Interval
  <1>3. Kind[r] \in {"block", "filtered", "cc", "tx"}
    BY KindAssumption
  <1>4. CASE Kind[r] = "block"
    <2>1. Due(r, b) = IF r \in Accepted[b] THEN 1 ELSE 0
      BY <1>4 DEF Due
    <2>2. \A x, y \in Wanted(r, b, n) : x = y
      BY <1>4 DEF Wanted, Wants
    <2>3. r \notin Accepted[b] => Wanted(r, b, n) = {}
      BY <1>4 DEF Wanted, Wants
    <2>4. Cardinality(Wanted(r, b, n)) <= 1 /\ (Wanted(r, b, n) = {} => Cardinality(Wanted(r, b, n)) = 0)
      BY <2>2, AtMostOne
    <2>5. QED
      BY <2>1, <2>3, <2>4
  <1>5. CASE Kind[r] = "filtered"
    <2>1. Due(r, b) = 1
      BY <1>5 DEF Due
    <2>2. \A x, y \in Wanted(r, b, n) : x = y
      BY <1>5 DEF Wanted, Wants
    <2>3. QED
      BY <2>1, <2>2, AtMostOne
  <1>6. CASE Kind[r] = "tx"
    <2>1. PICK T : T = {i \in 1..Len(Txs[b]) : Txs[b][i].tx = Key[r]}
      OBVIOUS
    <2>2. T \subseteq 1..Len(Txs[b]) /\ Due(r, b) = Cardinality(T)
      BY <1>6, <2>1 DEF Due
    <2>3. IsFiniteSet(T) /\ Cardinality(T) \in Nat
      BY <1>2, <2>2, FS_Subset, FS_CardinalityType
    <2>4. \A m \in Wanted(r, b, n) : \E i \in T : m = 2 * i + 1
      BY <1>6, <2>1 DEF Wanted, Wants
    <2>5. \A m \in Wanted(r, b, n) : half[m] \in T /\ m = 2 * half[m] + 1
      <3>1. SUFFICES ASSUME NEW m \in Wanted(r, b, n)
                     PROVE  half[m] \in T /\ m = 2 * half[m] + 1
        OBVIOUS
      <3>2. PICK i \in T : m = 2 * i + 1
        BY <2>4
      <3>3. i \in Nat
        BY <1>2, <2>2
      <3>4. half[m] = i
        BY <3>2, <3>3
      <3>5. QED
        BY <3>2, <3>4
    <2>6. half \in Injection(Wanted(r, b, n), T)
      BY <2>5 DEF Injection, IsInjective
    <2>7. QED
      BY <2>2, <2>3, <2>6, FS_Injection
  <1>7. CASE Kind[r] = "cc"
    <2>1. PICK T : T = {i \in 1..Len(Txs[b]) : Txs[b][i].valid /\ Key[r] \in Txs[b][i].event}
      OBVIOUS
    <2>2. T \subseteq 1..Len(Txs[b]) /\ Due(r, b) = Cardinality(T)
      BY <1>7, <2>1 DEF Due
    <2>3. IsFiniteSet(T) /\ Cardinality(T) \in Nat
      BY <1>2, <2>2, FS_Subset, FS_CardinalityType
    <2>4. \A m \in Wanted(r, b, n) : \E i \in T : m = 2 * i + 2
      BY <1>7, <2>1 DEF Wanted, Wants
    <2>5. \A m \in Wanted(r, b, n) : half[m] \in T /\ m = 2 * half[m] + 2
      <3>1. SUFFICES ASSUME NEW m \in Wanted(r, b, n)
                     PROVE  half[m] \in T /\ m = 2 * half[m] + 2
        OBVIOUS
      <3>2. PICK i \in T : m = 2 * i + 2
        BY <2>4
      <3>3. i \in Nat
        BY <1>2, <2>2
      <3>4. half[m] = i
        BY <3>2, <3>3
      <3>5. QED
        BY <3>2, <3>4
    <2>6. half \in Injection(Wanted(r, b, n), T)
      BY <2>5 DEF Injection, IsInjective
    <2>7. QED
      BY <2>2, <2>3, <2>6, FS_Injection
  <1>8. QED
    BY <1>3, <1>4, <1>5, <1>6, <1>7

\* Who is sent an event has asked for it.
LEMMA ReceiversWant ==
    ASSUME Types, AllTidy, NEW d \in Dispatchers, NEW b \in Blocks, NEW n \in 1..Loops(b),
           NEW r \in Receivers(d, b, n)
    PROVE  Wants(r, b, n)
  <1>1. list[d] \in Lists /\ table[d] \in Tables /\ Tidy(list[d], table[d])
    BY DEF Types, AllTidy
  <1>2. list[d].block \in Seq(Regs) /\ list[d].filtered \in Seq(Regs)
    BY <1>1 DEF Lists
  <1>3. /\ \A q \in Range(list[d].block) : Kind[q] = "block"
        /\ \A q \in Range(list[d].filtered) : Kind[q] = "filtered"
    <2>1. /\ \A i \in 1..Len(list[d].block) : Kind[list[d].block[i]] = "block"
          /\ \A i \in 1..Len(list[d].filtered) : Kind[list[d].filtered[i]] = "filtered"
      BY <1>1 DEF Tidy, ListKinds
    <2>2. DOMAIN list[d].block = 1..Len(list[d].block) /\ DOMAIN list[d].filtered = 1..Len(list[d].filtered)
      BY <1>2
    <2>3. QED
      BY <2>1, <2>2 DEF Range
  <1>4. CASE n = 1
    BY <1>3, <1>4 DEF Receivers, Wants
  <1>5. CASE n = 2
    BY <1>3, <1>5 DEF Receivers, Wants
  <1>6. CASE n # 1 /\ n # 2
    <2>1. Txs[b] \in Seq([tx : Keys, valid : BOOLEAN, event : SUBSET Keys])
      BY TxsAssumption
    <2>2. Len(Txs[b]) \in Nat
      BY <2>1
    <2>3. PICK i \in 1..Len(Txs[b]) : i = (n - 1) \div 2
      BY <1>6, <2>2 DEF Loops
    <2>4. Txs[b][i] \in [tx : Keys, valid : BOOLEAN, event : SUBSET Keys]
      BY <2>1, ItemOf
    <2>5. \A k \in Keys : table[d][k] = r /\ r # NoReg =>
             r \in Regs /\ Kind[r] \in {"cc", "tx"} /\ Key[r] = k
      BY <1>1 DEF Tidy, Tables
    <2>6. CASE n % 2 = 1
      <3>1. r = table[d][Txs[b][i].tx] /\ r # NoReg
        BY <1>6, <2>3, <2>6 DEF Receivers
      <3>2. r \in Regs /\ Kind[r] \in {"cc", "tx"} /\ Key[r] = Txs[b][i].tx
        BY <2>4, <2>5, <3>1
      <3>3. Kind[r] = "tx"
        BY <2>3, <3>2, KeysAssumption
      <3>4. n = 2 * i + 1
        BY <2>3, <2>6
      <3>5. QED
        BY <3>2, <3>3, <3>4 DEF Wants
    <2>7. CASE n % 2 # 1
      <3>1. PICK k \in IF Txs[b][i].valid THEN Txs[b][i].event ELSE {} : r = table[d][k] /\ r # NoReg
        BY <1>6, <2>3, <2>7 DEF Receivers
      <3>2. Txs[b][i].valid /\ k \in Txs[b][i].event /\ k \in Keys
        BY <2>4, <3>1
      <3>3. r \in Regs /\ Kind[r] \in {"cc", "tx"} /\ Key[r] = k
        BY <2>5, <3>1, <3>2
      <3>4. Kind[r] = "cc"
        BY <2>3, <3>2, <3>3, KeysAssumption
      <3>5. n = 2 * i + 2
        BY <2>3, <2>7
      <3>6. QED
        BY <3>2, <3>3, <3>4, <3>5 DEF Wants
    <2>8. QED
      BY <2>6, <2>7
  <1>7. QED
    BY <1>4, <1>5, <1>6

\* One more block of a sequence.
LEMMA OneMore ==
    ASSUME NEW s \in Seq(Blocks), NEW b \in Blocks, NEW c \in Blocks
    PROVE  /\ Append(s, b) \in Seq(Blocks)
           /\ Cardinality(Occurrences(s, c)) \in Nat
           /\ Cardinality(Occurrences(Append(s, b), c)) =
                IF c = b THEN Cardinality(Occurrences(s, c)) + 1 ELSE Cardinality(Occurrences(s, c))
  <1>1. /\ Len(s) \in Nat /\ Append(s, b) \in Seq(Blocks) /\ Len(Append(s, b)) = Len(s) + 1
        /\ Append(s, b)[Len(s) + 1] = b /\ \A i \in 1..Len(s) : Append(s, b)[i] = s[i]
    OBVIOUS
  <1>2. IsFiniteSet(1..Len(s)) /\ Occurrences(s, c) \subseteq 1..Len(s)
    BY <1>1, FS_Interval DEF Occurrences
  <1>3. IsFiniteSet(Occurrences(s, c)) /\ Cardinality(Occurrences(s, c)) \in Nat
    BY <1>2, FS_Subset, FS_CardinalityType
  <1>4. Len(s) + 1 \notin Occurrences(s, c)
    BY <1>1 DEF Occurrences
  <1>5. \A i : i \in Occurrences(Append(s, b), c) <=> i \in Occurrences(s, c) \/ (i = Len(s) + 1 /\ c = b)
    <2>1. \A i : i \in 1..Len(Append(s, b)) <=> i \in 1..Len(s) \/ i = Len(s) + 1
      BY <1>1
    <2>2. QED
      BY <1>1, <2>1 DEF Occurrences
  <1>6. CASE c = b
    <2>1. Occurrences(Append(s, b), c) = Occurrences(s, c) \cup {Len(s) + 1}
      BY <1>5, <1>6
    <2>2. Cardinality(Occurrences(s, c) \cup {Len(s) + 1}) = Cardinality(Occurrences(s, c)) + 1
      BY <1>3, <1>4, FS_AddElement
    <2>3. QED
      BY <1>1, <1>3, <1>6, <2>1, <2>2
  <1>7. CASE c # b
    <2>1. Occurrences(Append(s, b), c) = Occurrences(s, c)
      BY <1>5, <1>7
    <2>2. QED
      BY <1>1, <1>3, <1>7, <2>1
  <1>8. QED
    BY <1>6, <1>7

\* A block at the end, that is not before any other.
LEMMA StaysSorted ==
    ASSUME NEW s \in Seq(Blocks), NEW b \in Blocks, Sorted(s), Known(s, b)
    PROVE  Sorted(Append(s, b)) /\ Known(Append(s, b), b)
  <1>1. /\ Len(s) \in Nat /\ Len(Append(s, b)) = Len(s) + 1
        /\ Append(s, b)[Len(s) + 1] = b /\ \A i \in 1..Len(s) : Append(s, b)[i] = s[i] /\ s[i] \in Blocks
    OBVIOUS
  <1>2. b \in Nat /\ Blocks \subseteq Nat
    BY BlocksAssumption DEF Blocks
  <1>3. \A i \in 1..Len(s) : s[i] <= b
    BY <1>1, <1>2 DEF Known
  <1>4. ASSUME NEW i \in 1..(Len(Append(s, b)) - 1)
        PROVE  Append(s, b)[i] <= Append(s, b)[i + 1]
    <2>1. CASE i = Len(s)
      BY <1>1, <1>3, <2>1
    <2>2. CASE i # Len(s)
      <3>1. i \in 1..Len(s) /\ i + 1 \in 1..Len(s) /\ i \in 1..(Len(s) - 1)
        BY <1>1, <2>2
      <3>2. QED
        BY <1>1, <3>1 DEF Sorted
    <2>3. QED
      BY <2>1, <2>2
  <1>5. ASSUME NEW i \in 1..Len(Append(s, b))
        PROVE  Append(s, b)[i] <= b
    <2>1. i \in 1..Len(s) \/ i = Len(s) + 1
      BY <1>1
    <2>2. QED
      BY <1>1, <1>2, <1>3, <2>1
  <1>6. QED
    BY <1>4, <1>5 DEF Sorted, Known
-----------------------------------------------------------------------------
(* The steps and the order                                                 *)

\* A dispatcher keeps its promise as long as it handles no block and sends
\* nothing, and is given no registration that was sent something.
LEMMA SameDispatcher ==
    ASSUME NEW d \in Dispatchers, HandledBy(d), lastBlock'[d] = lastBlock[d], sending'[d] = sending[d],
           \A r \in Own(d)' : (r \in Own(d) /\ sent'[r] = sent[r]) \/ (sending[d] = Idle /\ sent'[r] = <<>>)
    PROVE  HandledBy(d)'
  <1>1. \A r \in Own(d)' : Known(sent'[r], lastBlock'[d])
    <2>1. \A x : Known(<<>>, x)
      BY DEF Known
    <2>2. \A r \in Own(d) : Known(sent[r], lastBlock[d])
      BY DEF HandledBy
    <2>3. QED
      BY <2>1, <2>2
  <1>2. ASSUME sending'[d] # Idle
        PROVE  /\ sending'[d].block = lastBlock'[d]
               /\ sending'[d].block # 0 => \A r \in Own(d)' : SentSoFar(d, r)'
    <2>1. sending[d] # Idle /\ sending[d].block = lastBlock[d]
      BY <1>2 DEF HandledBy
    <2>2. ASSUME sending'[d].block # 0, NEW r \in Own(d)'
          PROVE  SentSoFar(d, r)'
      <3>1. r \in Own(d) /\ sent'[r] = sent[r]
        BY <2>1
      <3>2. SentSoFar(d, r)
        BY <2>1, <2>2, <3>1 DEF HandledBy
      <3>3. QED
        BY <3>1, <3>2 DEF SentSoFar, Occurrences, Wanted, Wants
    <2>3. QED
      BY <2>1, <2>2
  <1>3. QED
    BY <1>1, <1>2 DEF HandledBy, Known

\* What was sent to a registration stays in order as long as it is sent nothing.
LEMMA SameOrder ==
    ASSUME NEW r \in Regs, Ordered(r), sent'[r] = sent[r], caller'[r] \in BeforeUse => caller[r] \in BeforeUse
    PROVE  Ordered(r)'
  BY DEF Ordered, Sorted, Occurrences, Due

\* The order, when nothing is sent, no block is handled and nobody is given a
\* registration that was sent something.
LEMMA NothingSent ==
    ASSUME OInv, UNCHANGED <<sent, lastBlock, sending>>, snapshot'.last = snapshot.last,
           \A r \in Regs : caller'[r] \in BeforeUse => caller[r] \in BeforeUse,
           \A d \in Dispatchers : \A r \in Own(d)' : r \in Own(d) \/ (sending[d] = Idle /\ sent[r] = <<>>),
           Snapped' \subseteq Snapped
    PROVE  OInv'
  <1>1. OTypes'
    BY DEF OInv, OTypes
  <1>2. \A r \in Regs : Ordered(r)'
    BY SameOrder DEF OInv
  <1>3. \A d \in Dispatchers : HandledBy(d)'
    BY SameDispatcher DEF OInv
  <1>4. \A r \in Snapped' : Known(sent'[r], snapshot'.last)
    BY DEF OInv
  <1>5. QED
    BY <1>1, <1>2, <1>3, <1>4 DEF OInv, Known

\* The steps of the consumers, of the event server and of the mover.
LEMMA QuietOrder ==
    ASSUME IInv, OInv, UNCHANGED <<sent, lastBlock, sending, list, table, snapshot>>,
           \A r \in Regs : caller'[r] \in BeforeUse => caller[r] \in BeforeUse
    PROVE  OInv'
  <1>1. (\A d \in Dispatchers : Own(d)' = Own(d)) /\ Snapped' = Snapped
    BY SameHoldings DEF IInv
  <1>2. QED
    BY <1>1, NothingSent

\* A registration that is made was sent nothing yet.
LEMMA HandleRegisterOrder ==
    ASSUME IInv, OInv, NEW d \in Dispatchers, HandleRegister(d)
    PROVE  OInv'
  <1>1. Handle(d, "register") /\ UNCHANGED <<sent, lastBlock, sending, snapshot>>
    BY DEF HandleRegister, moverVars
  <1>2. PICK r \in Regs : r = Head(queue[d]).reg
    BY <1>1, Handled, EventFields DEF IInv
  <1>3. sending[d] = Idle
    BY <1>1, Handled DEF IInv
  <1>4. caller[r] = "waiting"
    BY <1>1, <1>2, Handled DEF IInv, Awaiting, IsRegister
  <1>5. sent[r] = <<>> /\ r \notin Own(d)
    BY <1>4 DEF OInv, Ordered, BeforeUse, IInv, Held
  <1>6. Added(d, r)
    BY <1>2 DEF HandleRegister, Added, ListKinds
  <1>7. PICK l \in Lists, t \in Tables :
              /\ Tidy(l, t) /\ list' = [list EXCEPT ![d] = l] /\ table' = [table EXCEPT ![d] = t]
              /\ \/ caller' = [caller EXCEPT ![r] = "using"] /\ Registered(l, t) = Own(d) \cup {r}
                 \/ caller' = [caller EXCEPT ![r] = "out"] /\ Registered(l, t) = Own(d)
    BY <1>5, <1>6, RegisterEffect
  <1>8. /\ Own(d)' = Registered(l, t)
        /\ \A e \in Dispatchers : e # d => Own(e)' = Own(e)
    BY <1>7, NewHoldings DEF IInv
  <1>9. \A q \in Regs : caller'[q] \in BeforeUse => caller[q] \in BeforeUse
    <2>1. caller \in [Regs -> BeforeUse \cup {"using", "unregistering", "done"}] /\ caller[r] \in BeforeUse
      BY <1>4 DEF IInv, Types, BeforeUse
    <2>2. QED
      BY <1>7, <2>1
  <1>10. \A e \in Dispatchers : \A q \in Own(e)' : q \in Own(e) \/ (sending[e] = Idle /\ sent[q] = <<>>)
    BY <1>3, <1>5, <1>7, <1>8
  <1>11. Snapped' = Snapped
    BY <1>1 DEF Snapped, Registered
  <1>12. QED
    BY <1>1, <1>9, <1>10, <1>11, NothingSent

\* An Unregister.
LEMMA HandleUnregisterOrder ==
    ASSUME IInv, OInv, NEW d \in Dispatchers, HandleUnregister(d)
    PROVE  OInv'
  <1>1. Handle(d, "unregister") /\ UNCHANGED <<sent, lastBlock, sending, caller, snapshot>>
    BY DEF HandleUnregister, moverVars
  <1>2. PICK r \in Regs : r = Head(queue[d]).reg
    BY <1>1, Handled, EventFields DEF IInv
  <1>3. Dropped(d, r)
    BY <1>2 DEF HandleUnregister, Dropped, ListKinds
  <1>4. PICK l \in Lists, t \in Tables, R \in SUBSET Own(d) :
              /\ Tidy(l, t) /\ list' = [list EXCEPT ![d] = l] /\ table' = [table EXCEPT ![d] = t]
              /\ Registered(l, t) = Own(d) \ R /\ CloseChannels(R)
    BY <1>3, UnregisterEffect
  <1>5. /\ Own(d)' = Registered(l, t)
        /\ \A e \in Dispatchers : e # d => Own(e)' = Own(e)
    BY <1>4, NewHoldings DEF IInv
  <1>6. \A e \in Dispatchers : \A q \in Own(e)' : q \in Own(e)
    BY <1>4, <1>5
  <1>7. Snapped' = Snapped
    BY <1>1 DEF Snapped, Registered
  <1>8. QED
    BY <1>1, <1>6, <1>7, NothingSent

\* A dispatcher gives everything away.
LEMMA HoldsNothing ==
    ASSUME IInv, NEW d \in Dispatchers,
           list' = [list EXCEPT ![d] = NoLists], table' = [table EXCEPT ![d] = NoTable]
    PROVE  Own(d)' = {} /\ \A e \in Dispatchers : e # d => Own(e)' = Own(e)
  <1>1. /\ NoLists \in Lists /\ NoTable \in Tables
        /\ Registered(NoLists, NoTable) = {} /\ Tidy(NoLists, NoTable)
    BY NobodyRegistered
  <1>2. PICK l \in Lists, t \in Tables : l = NoLists /\ t = NoTable
    BY <1>1
  <1>3. list' = [list EXCEPT ![d] = l] /\ table' = [table EXCEPT ![d] = t] /\ Tidy(l, t) /\ Registered(l, t) = {}
    BY <1>1, <1>2
  <1>4. QED
    BY <1>3, NewHoldings DEF IInv

\* A stop.
LEMMA HandleStopOrder ==
    ASSUME IInv, OInv, NEW d \in Dispatchers, HandleStop(d)
    PROVE  OInv'
  <1>1. UNCHANGED <<sent, lastBlock, sending, caller, snapshot>>
    BY DEF HandleStop
  <1>2. Own(d)' = {} /\ \A e \in Dispatchers : e # d => Own(e)' = Own(e)
    BY HoldsNothing DEF HandleStop
  <1>3. Snapped' = Snapped
    BY <1>1 DEF Snapped, Registered
  <1>4. QED
    BY <1>1, <1>2, <1>3, NothingSent

\* A transfer: the snapshot has the last block of the dispatcher.
LEMMA HandleTransferOrder ==
    ASSUME IInv, OInv, NEW d \in Dispatchers, HandleTransfer(d)
    PROVE  OInv'
  <1>1. UNCHANGED <<sent, lastBlock, sending, caller>>
    BY DEF HandleTransfer, regVars
  <1>2. Own(d)' = {} /\ \A e \in Dispatchers : e # d => Own(e)' = Own(e)
    BY HoldsNothing DEF HandleTransfer
  <1>3. CASE ~Head(queue[d]).awaited
    <2>1. UNCHANGED snapshot
      BY <1>3 DEF HandleTransfer
    <2>2. Snapped' = Snapped
      BY <2>1 DEF Snapped, Registered
    <2>3. QED
      BY <1>1, <1>2, <2>1, <2>2, NothingSent
  <1>4. CASE Head(queue[d]).awaited
    <2>1. snapshot' = [list |-> list[d], table |-> table[d], last |-> lastBlock[d]]
      BY <1>4 DEF HandleTransfer
    <2>2. snapshot'.list = list[d] /\ snapshot'.table = table[d] /\ snapshot'.last = lastBlock[d]
      BY <2>1
    <2>3. Snapped' = Own(d)
      BY <2>2 DEF Snapped, Own, Registered
    <2>4. OTypes'
      BY <1>1, <2>2 DEF OInv, OTypes
    <2>5. \A r \in Regs : Ordered(r)'
      BY <1>1, SameOrder DEF OInv
    <2>6. \A e \in Dispatchers : HandledBy(e)'
      BY <1>1, <1>2, SameDispatcher DEF OInv
    <2>7. \A r \in Snapped' : Known(sent'[r], snapshot'.last)
      BY <1>1, <2>2, <2>3 DEF OInv, HandledBy
    <2>8. QED
      BY <2>4, <2>5, <2>6, <2>7 DEF OInv, Known
  <1>5. QED
    BY <1>3, <1>4
\* After a later block, everything that was sent is of an earlier one.
LEMMA KnownLater ==
    ASSUME NEW s \in Seq(Blocks), NEW x \in Blocks \cup {NoBlock}, NEW b \in Blocks,
           x = NoBlock \/ b > x, Known(s, x)
    PROVE  /\ Known(s, b)
           /\ b # 0 => Cardinality(Occurrences(s, b)) = 0
  <1>1. Blocks \subseteq Nat /\ NoBlock = -1
    BY BlocksAssumption DEF Blocks, NoBlock
  <1>2. Len(s) \in Nat /\ \A i \in 1..Len(s) : s[i] \in Nat
    <2>1. Len(s) \in Nat
      OBVIOUS
    <2>2. \A i \in 1..Len(s) : s[i] \in Blocks
      OBVIOUS
    <2>3. \A i \in 1..Len(s) : s[i] \in Nat
      BY <1>1, <2>2, Zenon
    <2>4. QED
      BY <2>1, <2>3
  <1>3. Known(s, b)
    BY <1>1, <1>2 DEF Known
  <1>4. ASSUME b # 0
        PROVE  Occurrences(s, b) = {}
    <2>1. \A i \in 1..Len(s) : s[i] # b
      BY <1>1, <1>2, <1>4 DEF Known
    <2>2. QED
      BY <2>1 DEF Occurrences
  <1>5. QED
    BY <1>3, <1>4, FS_EmptySet

\* A block is handled up to the publishing: nobody was sent any of it, as it is
\* later than the last one.
LEMMA HandleBlockOrder ==
    ASSUME IInv, OInv, NEW d \in Dispatchers, HandleBlock(d)
    PROVE  OInv'
  <1>1. Handle(d, "block") /\ UNCHANGED <<sent, caller, list, table, snapshot>>
    BY DEF HandleBlock, regVars, moverVars
  <1>2. (\A e \in Dispatchers : Own(e)' = Own(e)) /\ Snapped' = Snapped
    BY <1>1, SameHoldings DEF IInv
  <1>3. PICK b \in Blocks : b = Head(queue[d]).number
    BY <1>1, Handled, EventFields DEF IInv
  <1>4. CASE UNCHANGED <<lastBlock, sending>>
    BY <1>1, <1>4, QuietOrder
  <1>5. CASE /\ lastBlock[d] = NoBlock \/ b > lastBlock[d]
             /\ lastBlock' = [lastBlock EXCEPT ![d] = b]
             /\ sending' = [sending EXCEPT ![d] =
                   IF infoOnly[d] THEN Idle ELSE [block |-> b, loop |-> 0, left |-> {}]]
    <2>1. /\ sent \in [Regs -> Seq(Blocks)] /\ lastBlock \in [Dispatchers -> Blocks \cup {NoBlock}]
          /\ sending \in [Dispatchers -> Sending] /\ Own(d) \subseteq Regs
      BY DispatcherHolds DEF OInv, OTypes, IInv, Types
    <2>2. /\ lastBlock' \in [Dispatchers -> Blocks \cup {NoBlock}] /\ lastBlock'[d] = b
          /\ \A e \in Dispatchers : e # d => lastBlock'[e] = lastBlock[e] /\ sending'[e] = sending[e]
          /\ sending'[d] = Idle \/ sending'[d] = [block |-> b, loop |-> 0, left |-> {}]
      BY <1>5, <2>1
    <2>3. OTypes'
      BY <1>1, <2>2 DEF OInv, OTypes
    <2>4. \A r \in Regs : Ordered(r)'
      BY <1>1, SameOrder DEF OInv
    <2>5. \A r \in Snapped' : Known(sent'[r], snapshot'.last)
      BY <1>1, <1>2 DEF OInv
    <2>6. ASSUME NEW e \in Dispatchers, e # d
          PROVE  HandledBy(e)'
      BY <1>1, <1>2, <2>2, <2>6, SameDispatcher DEF OInv
    <2>7. HandledBy(d)'
      <3>1. \A r \in Own(d) : /\ Known(sent[r], b)
                              /\ b # 0 => Cardinality(Occurrences(sent[r], b)) = 0
        <4>1. ASSUME NEW r \in Own(d)
              PROVE  Known(sent[r], b) /\ (b # 0 => Cardinality(Occurrences(sent[r], b)) = 0)
          <5>1. PICK s \in Seq(Blocks) : s = sent[r]
            BY <2>1
          <5>2. PICK x \in Blocks \cup {NoBlock} : x = lastBlock[d]
            BY <2>1
          <5>3. Known(s, x) /\ (x = NoBlock \/ b > x)
            BY <1>5, <5>1, <5>2 DEF OInv, HandledBy
          <5>4. Known(s, b) /\ (b # 0 => Cardinality(Occurrences(s, b)) = 0)
            BY <5>3, KnownLater
          <5>5. QED
            BY <5>1, <5>4
        <4>2. QED
          BY <4>1
      <3>2. \A r \in Own(d)' : Known(sent'[r], lastBlock'[d])
        BY <1>1, <1>2, <2>2, <3>1
      <3>3. ASSUME sending'[d] # Idle
            PROVE  /\ sending'[d].block = lastBlock'[d]
                   /\ sending'[d].block # 0 => \A r \in Own(d)' : SentSoFar(d, r)'
        <4>1. sending'[d].block = b /\ sending'[d].loop = 0 /\ sending'[d].left = {}
          BY <2>2, <3>3
        <4>2. ASSUME b # 0, NEW r \in Own(d)'
              PROVE  SentSoFar(d, r)'
          <5>1. Cardinality(Occurrences(sent[r], b)) = 0 /\ Cardinality(Wanted(r, b, 0)) = 0
            BY <1>2, <3>1, <4>2, NoneWanted
          <5>2. Cardinality(Occurrences(sent[r], b)) + 0 <= Cardinality(Wanted(r, b, 0))
            BY <5>1
          <5>3. QED
            BY <1>1, <4>1, <5>2 DEF SentSoFar, Occurrences
        <4>3. QED
          BY <2>2, <4>1, <4>2
      <3>4. QED
        BY <3>2, <3>3 DEF HandledBy, Known
    <2>8. QED
      BY <2>3, <2>4, <2>5, <2>6, <2>7 DEF OInv, Known
  <1>6. QED
    BY <1>3, <1>4, <1>5 DEF HandleBlock

\* Only the publishing of one dispatcher changes.
LEMMA SendingOrder ==
    ASSUME IInv, OInv, NEW d \in Dispatchers, NEW x, UNCHANGED <<sent, lastBlock, caller, list, table, snapshot>>,
           sending' = [sending EXCEPT ![d] = x],
           x # Idle => /\ x.block = lastBlock[d]
                       /\ x.block # 0 => \A r \in Own(d) :
                             Cardinality(Occurrences(sent[r], x.block)) + (IF r \in x.left THEN 1 ELSE 0)
                                 <= Cardinality(Wanted(r, x.block, x.loop))
    PROVE  OInv'
  <1>1. (\A e \in Dispatchers : Own(e)' = Own(e)) /\ Snapped' = Snapped
    BY SameHoldings DEF IInv
  <1>2. sending'[d] = x /\ \A e \in Dispatchers : e # d => sending'[e] = sending[e]
    BY DEF IInv, Types
  <1>3. OTypes'
    BY DEF OInv, OTypes
  <1>4. \A r \in Regs : Ordered(r)'
    BY SameOrder DEF OInv
  <1>5. \A r \in Snapped' : Known(sent'[r], snapshot'.last)
    BY <1>1 DEF OInv
  <1>6. ASSUME NEW e \in Dispatchers, e # d
        PROVE  HandledBy(e)'
    BY <1>1, <1>2, <1>6, SameDispatcher DEF OInv
  <1>7. HandledBy(d)'
    <2>1. \A r \in Own(d)' : Known(sent'[r], lastBlock'[d])
      BY <1>1 DEF OInv, HandledBy
    <2>2. ASSUME sending'[d] # Idle
          PROVE  /\ sending'[d].block = lastBlock'[d]
                 /\ sending'[d].block # 0 => \A r \in Own(d)' : SentSoFar(d, r)'
      <3>1. x # Idle /\ x.block = lastBlock[d]
        BY <1>2, <2>2
      <3>2. ASSUME x.block # 0, NEW r \in Own(d)'
            PROVE  SentSoFar(d, r)'
        <4>1. Cardinality(Occurrences(sent[r], x.block)) + (IF r \in x.left THEN 1 ELSE 0)
                 <= Cardinality(Wanted(r, x.block, x.loop))
          BY <1>1, <3>1, <3>2
        <4>2. QED
          BY <1>2, <4>1 DEF SentSoFar, Occurrences
      <3>3. QED
        BY <1>2, <3>1, <3>2
    <2>3. QED
      BY <2>1, <2>2 DEF HandledBy, Known
  <1>8. QED
    BY <1>3, <1>4, <1>5, <1>6, <1>7 DEF OInv, Known
\* The next loop: who is sent its event has asked for it, and was not counted.
LEMMA PublishNextOrder ==
    ASSUME IInv, OInv, NEW d \in Dispatchers, PublishNext(d)
    PROVE  OInv'
  <1>1. UNCHANGED <<sent, lastBlock, caller, list, table, snapshot>>
    BY DEF PublishNext, dispVars, regVars, moverVars
  <1>2. sending[d] \in Sending /\ sending[d] # Idle /\ sending[d].left = {}
    BY DEF IInv, Types, PublishNext
  <1>3. PICK b \in Blocks, k \in Nat : b = sending[d].block /\ k = sending[d].loop
    BY <1>2 DEF IInv, Publishing, Sending
  <1>4. b = lastBlock[d]
    BY <1>2, <1>3 DEF OInv, HandledBy
  <1>5. CASE sending' = [sending EXCEPT ![d] = Idle]
    BY <1>1, <1>5, SendingOrder
  <1>6. ASSUME NEW n \in (k + 1)..Loops(b),
               sending' = [sending EXCEPT ![d] = [block |-> b, loop |-> n, left |-> Receivers(d, b, n)]]
        PROVE  OInv'
    <2>1. Len(Txs[b]) \in Nat
      BY TxsAssumption
    <2>2. n \in 1..Loops(b) /\ n \in Nat /\ k < n
      BY <2>1 DEF Loops
    <2>3. ASSUME b # 0, NEW r \in Own(d)
          PROVE  Cardinality(Occurrences(sent[r], b)) + (IF r \in Receivers(d, b, n) THEN 1 ELSE 0)
                     <= Cardinality(Wanted(r, b, n))
      <3>1. PICK c \in Nat : c = Cardinality(Occurrences(sent[r], b))
        BY DispatcherHolds, OneMore DEF OInv, OTypes
      <3>2. c <= Cardinality(Wanted(r, b, k))
        <4>1. SentSoFar(d, r)
          BY <1>2, <1>3, <2>3 DEF OInv, HandledBy
        <4>2. c + 0 <= Cardinality(Wanted(r, b, k))
          BY <1>2, <1>3, <3>1, <4>1 DEF SentSoFar
        <4>3. QED
          BY <4>2
      <3>3. /\ Cardinality(Wanted(r, b, k)) \in Nat /\ Cardinality(Wanted(r, b, n)) \in Nat
            /\ Cardinality(Wanted(r, b, k)) <= Cardinality(Wanted(r, b, n))
            /\ Wants(r, b, n) => Cardinality(Wanted(r, b, k)) + 1 <= Cardinality(Wanted(r, b, n))
        BY <2>2, WantedGrows
      <3>4. r \in Receivers(d, b, n) => Wants(r, b, n)
        BY <2>2, ReceiversWant DEF IInv
      <3>5. c + (IF r \in Receivers(d, b, n) THEN 1 ELSE 0) <= Cardinality(Wanted(r, b, n))
        BY <3>2, <3>3, <3>4
      <3>6. QED
        BY <3>1, <3>5
    <2>4. PICK x : x = [block |-> b, loop |-> n, left |-> Receivers(d, b, n)]
      OBVIOUS
    <2>5. x.block = b /\ x.loop = n /\ x.left = Receivers(d, b, n)
      BY <2>4
    <2>6. sending' = [sending EXCEPT ![d] = x]
      BY <1>6, <2>4
    <2>7. x.block = lastBlock[d]
      BY <1>4, <2>5
    <2>8. x.block # 0 => \A r \in Own(d) :
             Cardinality(Occurrences(sent[r], x.block)) + (IF r \in x.left THEN 1 ELSE 0)
                 <= Cardinality(Wanted(r, x.block, x.loop))
      BY <2>3, <2>5
    <2>9. QED
      BY <1>1, <2>6, <2>7, <2>8, SendingOrder
  <1>7. QED
    BY <1>3, <1>5, <1>6 DEF PublishNext

\* A dropped event.
LEMMA GiveUpOrder ==
    ASSUME IInv, OInv, NEW d \in Dispatchers, NEW r \in Regs, GiveUp(d, r)
    PROVE  OInv'
  <1>1. UNCHANGED <<sent, lastBlock, caller, list, table, snapshot>>
    BY DEF GiveUp, dispVars, regVars, moverVars
  <1>2. sending \in [Dispatchers -> Sending] /\ sending[d] \in Sending /\ r \in sending[d].left
    BY DEF IInv, Types, GiveUp
  <1>3. sending[d] # Idle
    BY <1>2 DEF Idle
  <1>4. PICK b \in Blocks, n \in Nat : b = sending[d].block /\ n = sending[d].loop
    BY <1>2, <1>3 DEF IInv, Publishing, Sending
  <1>5. PICK x : x = [sending[d] EXCEPT !.left = @ \ {r}]
    OBVIOUS
  <1>6. x.block = b /\ x.loop = n /\ x.left = sending[d].left \ {r}
    BY <1>2, <1>4, <1>5 DEF Sending
  <1>7. sending' = [sending EXCEPT ![d] = x]
    BY <1>2, <1>5 DEF GiveUp
  <1>8. x.block = lastBlock[d]
    BY <1>3, <1>4, <1>6 DEF OInv, HandledBy
  <1>9. ASSUME b # 0, NEW q \in Own(d)
        PROVE  Cardinality(Occurrences(sent[q], b)) + (IF q \in x.left THEN 1 ELSE 0)
                   <= Cardinality(Wanted(q, b, n))
    <2>1. PICK c \in Nat : c = Cardinality(Occurrences(sent[q], b))
      BY DispatcherHolds, OneMore DEF OInv, OTypes
    <2>2. PICK w \in Nat : w = Cardinality(Wanted(q, b, n))
      BY WantedGrows
    <2>3. SentSoFar(d, q)
      BY <1>3, <1>4, <1>9 DEF OInv, HandledBy
    <2>4. c + (IF q \in sending[d].left THEN 1 ELSE 0) <= w
      BY <1>4, <2>1, <2>2, <2>3 DEF SentSoFar
    <2>5. c + (IF q \in x.left THEN 1 ELSE 0) <= w
      BY <1>6, <2>4
    <2>6. QED
      BY <2>1, <2>2, <2>5
  <1>10. x.block # 0 => \A q \in Own(d) :
            Cardinality(Occurrences(sent[q], x.block)) + (IF q \in x.left THEN 1 ELSE 0)
                <= Cardinality(Wanted(q, x.block, x.loop))
    BY <1>6, <1>9
  <1>11. QED
    BY <1>1, <1>7, <1>8, <1>10, SendingOrder
\* An event is sent: it is of the last block, and was counted as one to be sent.
LEMMA PublishOrder ==
    ASSUME IInv, OInv, NEW d \in Dispatchers, NEW r \in Regs, Publish(d, r)
    PROVE  OInv'
  <1>1. UNCHANGED <<lastBlock, caller, list, table, snapshot>>
    BY DEF Publish, dispVars, moverVars
  <1>2. (\A e \in Dispatchers : Own(e)' = Own(e)) /\ Snapped' = Snapped
    BY <1>1, SameHoldings DEF IInv
  <1>3. sending \in [Dispatchers -> Sending] /\ sending[d] \in Sending /\ r \in sending[d].left
    BY DEF IInv, Types, Publish
  <1>4. sending[d] # Idle
    BY <1>3 DEF Idle
  <1>5. PICK b \in Blocks, n \in Nat : b = sending[d].block /\ n = sending[d].loop
    BY <1>3, <1>4 DEF IInv, Publishing, Sending
  <1>6. r \in Own(d) /\ ~chanClosed[r] /\ caller[r] \notin BeforeUse
    BY <1>3 DEF IInv, Held
  <1>7. sent \in [Regs -> Seq(Blocks)] /\ sent' = [sent EXCEPT ![r] = Append(sent[r], b)]
    BY <1>5, <1>6 DEF OInv, OTypes, Publish
  <1>8. PICK s \in Seq(Blocks) : s = sent[r]
    BY <1>7
  <1>9. sent'[r] = Append(s, b) /\ \A q \in Regs : q # r => sent'[q] = sent[q]
    BY <1>7, <1>8
  <1>10. /\ \A e \in Dispatchers : e # d => sending'[e] = sending[e]
         /\ sending'[d].block = b /\ sending'[d].loop = n /\ sending'[d].left = sending[d].left \ {r}
    BY <1>3, <1>5 DEF Publish, Sending
  <1>11. b = lastBlock[d]
    BY <1>4, <1>5 DEF OInv, HandledBy
  <1>12. Append(s, b) \in Seq(Blocks) /\ \A c \in Blocks :
            /\ Cardinality(Occurrences(s, c)) \in Nat
            /\ Cardinality(Occurrences(Append(s, b), c)) =
                 IF c = b THEN Cardinality(Occurrences(s, c)) + 1 ELSE Cardinality(Occurrences(s, c))
    BY OneMore
  <1>13. Sorted(Append(s, b)) /\ Known(Append(s, b), b)
    <2>1. Sorted(s) /\ Known(s, b)
      BY <1>6, <1>8, <1>11 DEF OInv, Ordered, HandledBy
    <2>2. QED
      BY <2>1, StaysSorted
  <1>14. b # 0 => /\ Cardinality(Occurrences(s, b)) + 1 <= Cardinality(Wanted(r, b, n))
                  /\ Cardinality(Occurrences(Append(s, b), b)) <= Cardinality(Wanted(r, b, n))
    <2>1. b # 0 => SentSoFar(d, r)
      BY <1>4, <1>5, <1>6 DEF OInv, HandledBy
    <2>2. b # 0 => Cardinality(Occurrences(s, b)) + 1 <= Cardinality(Wanted(r, b, n))
      BY <1>3, <1>5, <1>8, <2>1 DEF SentSoFar
    <2>3. QED
      BY <1>12, <2>2
  <1>15. OTypes'
    BY <1>1, <1>7, <1>8, <1>12 DEF OInv, OTypes
  <1>16. ASSUME NEW q \in Regs
         PROVE  Ordered(q)'
    <2>1. CASE q # r
      BY <1>1, <1>9, <2>1, SameOrder DEF OInv
    <2>2. CASE q = r
      <3>1. ASSUME NEW c \in Blocks \ {0}
            PROVE  Cardinality(Occurrences(Append(s, b), c)) <= Due(r, c)
        <4>1. CASE c = b
          <5>1. Due(r, b) \in Nat /\ Cardinality(Wanted(r, b, n)) <= Due(r, b)
            BY WantedAreDue
          <5>2. Cardinality(Wanted(r, b, n)) \in Nat /\ Cardinality(Occurrences(Append(s, b), b)) \in Nat
            BY <1>12, WantedGrows
          <5>3. b # 0 /\ Cardinality(Occurrences(Append(s, b), b)) <= Cardinality(Wanted(r, b, n))
            BY <1>14, <3>1, <4>1
          <5>4. Cardinality(Occurrences(Append(s, b), b)) <= Due(r, b)
            BY <5>1, <5>2, <5>3
          <5>5. QED
            BY <4>1, <5>4
        <4>2. CASE c # b
          <5>1. Cardinality(Occurrences(Append(s, b), c)) = Cardinality(Occurrences(s, c))
            BY <1>12, <4>2
          <5>2. Cardinality(Occurrences(s, c)) <= Due(r, c)
            BY <1>8 DEF OInv, Ordered
          <5>3. QED
            BY <5>1, <5>2
        <4>3. QED
          BY <4>1, <4>2
      <3>2. Sorted(sent'[r]) /\ \A c \in Blocks \ {0} : Cardinality(Occurrences(sent'[r], c)) <= Due(r, c)
        BY <1>9, <1>13, <3>1
      <3>3. caller'[r] \notin BeforeUse
        BY <1>1, <1>6
      <3>4. QED
        BY <2>2, <3>2, <3>3 DEF Ordered, Sorted, Occurrences, Due
    <2>3. QED
      BY <2>1, <2>2
  <1>17. \A e \in Dispatchers : Own(e) \subseteq Regs /\ (e # d => r \notin Own(e))
    BY <1>6, DispatcherHolds DEF IInv, Held
  <1>18. Snapped \subseteq Regs /\ r \notin Snapped
    BY <1>6, RegisteredAreRegs DEF IInv, Types, Held, Snapped
  <1>19. \A q \in Snapped' : Known(sent'[q], snapshot'.last)
    BY <1>1, <1>2, <1>9, <1>18 DEF OInv
  <1>20. ASSUME NEW e \in Dispatchers, e # d
         PROVE  HandledBy(e)'
    BY <1>1, <1>2, <1>9, <1>10, <1>17, <1>20, SameDispatcher DEF OInv
  <1>21. HandledBy(d)'
    <2>1. ASSUME NEW q \in Own(d)'
          PROVE  Known(sent'[q], lastBlock'[d])
      <3>1. CASE q = r
        BY <1>1, <1>9, <1>11, <1>13, <3>1
      <3>2. CASE q # r
        BY <1>1, <1>2, <1>9, <1>17, <3>2 DEF OInv, HandledBy
      <3>3. QED
        BY <3>1, <3>2
    <2>2. ASSUME b # 0, NEW q \in Own(d)'
          PROVE  SentSoFar(d, q)'
      <3>1. CASE q = r
        <4>1. Cardinality(Occurrences(Append(s, b), b)) \in Nat
          BY <1>12
        <4>2. Cardinality(Occurrences(sent'[r], b)) + 0 <= Cardinality(Wanted(r, b, n))
          BY <1>9, <1>14, <2>2, <4>1
        <4>3. QED
          BY <1>10, <3>1, <4>2 DEF SentSoFar, Occurrences
      <3>2. CASE q # r
        <4>1. SentSoFar(d, q) /\ sent'[q] = sent[q]
          BY <1>2, <1>4, <1>5, <1>9, <1>17, <2>2, <3>2 DEF OInv, HandledBy
        <4>2. q \in sending[d].left \ {r} <=> q \in sending[d].left
          BY <3>2
        <4>3. QED
          BY <1>5, <1>10, <4>1, <4>2 DEF SentSoFar, Occurrences
      <3>3. QED
        BY <3>1, <3>2
    <2>3. QED
      BY <1>1, <1>10, <1>11, <2>1, <2>2 DEF HandledBy, Known
  <1>22. QED
    BY <1>15, <1>16, <1>19, <1>20, <1>21 DEF OInv, Known

\* The next service goes on after the last block of the snapshot: the first
\* block is as good as none.
LEMMA StartOrder ==
    ASSUME IInv, OInv, NEW b \in Blocks, Start(b)
    PROVE  OInv'
  <1>1. UNCHANGED <<sent, caller, sending>> /\ snapshot' = NoSnapshot /\ mover = "moved"
    BY DEF Start, regVars
  <1>2. current \in 1..Services /\ current < Services
    BY <1>1 DEF IInv, Types, Dispatchers, Moving
  <1>3. PICK d \in Dispatchers : d = current + 1
    BY <1>2, SizesAssumption DEF Dispatchers
  <1>4. d > current
    BY <1>2, <1>3
  <1>5. sending[d] = Idle
    BY <1>4 DEF IInv, Moving
  <1>6. PICK l \in Lists, t \in Tables : l = snapshot.list /\ t = snapshot.table
    BY DEF IInv, Types
  <1>7. /\ Tidy(l, t) /\ Registered(l, t) = Snapped
        /\ list' = [list EXCEPT ![d] = l] /\ table' = [table EXCEPT ![d] = t]
    BY <1>3, <1>6 DEF IInv, AllTidy, Snapped, Start
  <1>8. Own(d)' = Snapped /\ \A e \in Dispatchers : e # d => Own(e)' = Own(e)
    BY <1>7, NewHoldings DEF IInv
  <1>9. snapshot'.list = NoLists /\ snapshot'.table = NoTable /\ snapshot'.last = NoBlock
    BY <1>1 DEF NoSnapshot
  <1>10. Snapped' = {}
    BY <1>9, NobodyRegistered DEF Snapped
  <1>11. PICK x \in Blocks \cup {NoBlock} : x = IF snapshot.last = 0 THEN NoBlock ELSE snapshot.last
    BY DEF OInv, OTypes
  <1>12. lastBlock \in [Dispatchers -> Blocks \cup {NoBlock}] /\ lastBlock' = [lastBlock EXCEPT ![d] = x]
    BY <1>3, <1>11 DEF OInv, OTypes, Start
  <1>13. /\ lastBlock' \in [Dispatchers -> Blocks \cup {NoBlock}] /\ lastBlock'[d] = x
         /\ \A e \in Dispatchers : e # d => lastBlock'[e] = lastBlock[e]
    BY <1>12
  <1>14. OTypes'
    BY <1>1, <1>9, <1>13 DEF OInv, OTypes
  <1>15. \A r \in Regs : Ordered(r)'
    BY <1>1, SameOrder DEF OInv
  <1>16. ASSUME NEW e \in Dispatchers, e # d
         PROVE  HandledBy(e)'
    BY <1>1, <1>8, <1>13, <1>16, SameDispatcher DEF OInv
  <1>17. HandledBy(d)'
    <2>1. ASSUME NEW r \in Snapped
          PROVE  Known(sent[r], x)
      <3>1. r \in Regs /\ sent[r] \in Seq(Blocks)
        BY RegisteredAreRegs DEF IInv, Types, Snapped, OInv, OTypes
      <3>2. Blocks \subseteq Nat
        BY BlocksAssumption DEF Blocks
      <3>3. \A i \in 1..Len(sent[r]) : sent[r][i] \in Nat
        BY <3>1, <3>2, ItemOf
      <3>4. Known(sent[r], snapshot.last)
        BY DEF OInv
      <3>5. CASE snapshot.last = 0
        BY <3>3, <3>4, <3>5 DEF Known
      <3>6. CASE snapshot.last # 0
        BY <1>11, <3>4, <3>6
      <3>7. QED
        BY <3>5, <3>6
    <2>2. QED
      BY <1>1, <1>5, <1>8, <1>13, <2>1 DEF HandledBy, Known
  <1>18. QED
    BY <1>10, <1>14, <1>15, <1>16, <1>17 DEF OInv

\* In the beginning nothing was sent.
LEMMA InitOrder == Init => OInv
  <1>1. SUFFICES ASSUME Init
                 PROVE  OInv
    OBVIOUS
  <1>2. IInv
    BY <1>1, InitInvariant
  <1>3. sent = [r \in Regs |-> <<>>] /\ sending = [d \in Dispatchers |-> Idle] /\ snapshot.last = NoBlock
    BY <1>1 DEF Init, NoSnapshot
  <1>4. OTypes
    BY <1>1, <1>3 DEF Init, OTypes
  <1>5. \A x : Known(<<>>, x)
    BY DEF Known
  <1>6. ASSUME NEW r \in Regs
        PROVE  Ordered(r)
    <2>1. sent[r] = <<>> /\ Sorted(<<>>)
      BY <1>3 DEF Sorted
    <2>2. ASSUME NEW b \in Blocks
          PROVE  Cardinality(Occurrences(<<>>, b)) <= Due(r, b)
      <3>1. Occurrences(<<>>, b) = {}
        BY DEF Occurrences
      <3>2. Cardinality(Occurrences(<<>>, b)) = 0 /\ Due(r, b) \in Nat
        BY <3>1, FS_EmptySet, WantedAreDue
      <3>3. QED
        BY <3>2
    <2>3. QED
      BY <2>1, <2>2 DEF Ordered
  <1>7. ASSUME NEW d \in Dispatchers
        PROVE  HandledBy(d)
    BY <1>2, <1>3, <1>5, DispatcherHolds DEF HandledBy
  <1>8. \A r \in Snapped : Known(sent[r], snapshot.last)
    <2>1. Snapped \subseteq Regs
      BY <1>2, RegisteredAreRegs DEF IInv, Types, Snapped
    <2>2. QED
      BY <1>3, <1>5, <2>1
  <1>9. QED
    BY <1>4, <1>6, <1>7, <1>8 DEF OInv

\* Every step keeps the order.
LEMMA StepOrder == IInv /\ OInv /\ [Next]_vars => OInv'
  <1>1. SUFFICES ASSUME IInv, OInv, [Next]_vars
                 PROVE  OInv'
    OBVIOUS
  <1>2. caller \in [Regs -> BeforeUse \cup {"using", "unregistering", "done"}]
    BY <1>1 DEF IInv, Types
  <1>3. CASE UNCHANGED vars
    BY <1>1, <1>3, QuietOrder DEF vars
  <1>4. ASSUME NEW r \in Regs, Consumer(r)
        PROVE  OInv'
    <2>1. UNCHANGED <<sent, lastBlock, sending, list, table, snapshot>>
      BY <1>4 DEF Consumer, Register, RegisterSend, Read, Unregister, UnregisterSend, dispVars, moverVars
    <2>2. \A q \in Regs : caller'[q] \in BeforeUse => caller[q] \in BeforeUse
      BY <1>2, <1>4 DEF Consumer, Register, RegisterSend, Read, Unregister, UnregisterSend, Goto, BeforeUse
    <2>3. QED
      BY <1>1, <2>1, <2>2, QuietOrder
  <1>5. ASSUME NEW d \in Dispatchers, Dispatch(d)
        PROVE  OInv'
    BY <1>1, <1>5, HandleRegisterOrder, HandleUnregisterOrder, HandleBlockOrder, PublishNextOrder, PublishOrder,
       GiveUpOrder, HandleStopOrder, HandleTransferOrder DEF Dispatch
  <1>6. ASSUME NEW d \in Dispatchers, NEW b \in Blocks, Feed(d, b)
        PROVE  OInv'
    <2>1. UNCHANGED <<sent, lastBlock, sending, list, table, snapshot, caller>>
      BY <1>6 DEF Feed, dispVars, regVars, moverVars
    <2>2. QED
      BY <1>1, <2>1, QuietOrder
  <1>7. CASE Move
    <2>1. ASSUME NEW b \in Blocks, Start(b)
          PROVE  OInv'
      BY <1>1, <2>1, StartOrder
    <2>2. ASSUME (\E op \in Moves : MoveStart(op)) \/ MoveSend \/ MoveTimesOut
          PROVE  OInv'
      <3>1. UNCHANGED <<sent, lastBlock, sending, list, table, snapshot, caller>>
        BY <2>2 DEF MoveStart, MoveSend, MoveTimesOut, dispVars, regVars
      <3>2. QED
        BY <1>1, <3>1, QuietOrder
    <2>3. QED
      BY <1>7, <2>1, <2>2 DEF Move, Moves
  <1>8. QED
    BY <1>1, <1>3, <1>4, <1>5, <1>6, <1>7 DEF Next

\* A consumer is sent the events of the blocks in order and those of a block
\* once, or not at all: across blocks that the event server sends again, dropped
\* events, and transfers of the registration to any number of further services
\* (updateLastBlockNum and initialLastBlockNum of the dispatcher).
THEOREM EventsInOrder == Spec => []InOrder
  <1>1. OInv => InOrder
    BY DEF OInv, Ordered, Sorted, Occurrences, InOrder, Times
  <1>2. Init => IInv /\ OInv
    BY InitInvariant, InitOrder
  <1>3. (IInv /\ OInv) /\ [Next]_vars => (IInv /\ OInv)'
    BY StepInvariant, StepOrder
  <1>4. QED
    BY <1>1, <1>2, <1>3, PTL DEF Spec

-----------------------------------------------------------------------------
(* Exactly the events due, from one service                                *)

IsBlockEvent(e) == e.type = "block"

\* When the events of queue q before the i-th have been handled after block l, so
\* has the block before n, unless n is the first.
Reached(q, l, n, i) ==
    \/ n <= FirstBlock
    \/ n <= l + 1
    \/ \E j \in 1..Len(q) : j < i /\ IsBlockEvent(q[j]) /\ n <= q[j].number + 1

\* The blocks on their way to a dispatcher have no gap, and the block after f, the
\* last one the event server has sent, makes none.
Gapless(q, l, f) ==
    /\ \A i \in 1..Len(q) : IsBlockEvent(q[i]) => Reached(q, l, q[i].number, i)
    /\ Reached(q, l, f + 1, Len(q) + 1)

\* Registration r was sent, in s, what was due after block x and up to block l,
\* and of the block that is being published what the loops so far had for it.
Exact(r, s, x, l, p) ==
    /\ x <= l
    /\ \A b \in Blocks : b # p.block =>
          Cardinality(Occurrences(s, b)) = IF b > x /\ b <= l THEN Due(r, b) ELSE 0
    /\ p # Idle =>
          /\ x < p.block
          /\ Cardinality(Occurrences(s, p.block)) + (IF r \in p.left THEN 1 ELSE 0)
                = Cardinality(Wanted(r, p.block, p.loop))

ETypes ==
    /\ since \in [Regs -> Blocks \cup {NoBlock}] /\ feed \in [Dispatchers -> Int]
    /\ infoOnly = [d \in Dispatchers |-> FALSE]

EInv ==
    /\ ETypes
    /\ \A d \in Dispatchers : Gapless(queue[d], lastBlock[d], feed[d])
    /\ timeout = "infinite" =>
          \A d \in Dispatchers : \A r \in Own(d) : Exact(r, sent[r], since[r], lastBlock[d], sending[d])


\* A registration gets every event that it asked for, as long as its dispatcher
\* holds it.
LEMMA WantersReceive ==
    ASSUME Types, AllTidy, NEW d \in Dispatchers, NEW b \in Blocks, NEW n \in Nat,
           NEW r \in Own(d), Wants(r, b, n)
    PROVE  n \in 1..Loops(b) /\ r \in Receivers(d, b, n)
  <1>1. list[d] \in Lists /\ table[d] \in Tables /\ Tidy(list[d], table[d])
    BY DEF Types, AllTidy
  <1>2. list[d].block \in Seq(Regs) /\ list[d].filtered \in Seq(Regs)
    BY <1>1 DEF Lists
  <1>3. Among(list[d], table[d], r) /\ r \in Regs
    BY <1>1, RegisteredIs, RegisteredAreRegs DEF Own
  <1>4. /\ Kind[r] = "block" => r \in Range(list[d].block)
        /\ Kind[r] = "filtered" => r \in Range(list[d].filtered)
        /\ Kind[r] \in {"cc", "tx"} => table[d][Key[r]] = r /\ r # NoReg
    <2>1. CASE \E k \in ListKinds : \E i \in 1..Len(list[d][k]) : list[d][k][i] = r
      <3>1. PICK k \in ListKinds : \E i \in 1..Len(list[d][k]) : list[d][k][i] = r
        BY <2>1
      <3>2. Kind[r] = k
        BY <1>1, <3>1 DEF Tidy
      <3>3. CASE k = "block"
        BY <1>2, <3>1, <3>2, <3>3 DEF Range
      <3>4. CASE k = "filtered"
        BY <1>2, <3>1, <3>2, <3>4 DEF Range
      <3>5. QED
        BY <3>3, <3>4 DEF ListKinds
    <2>2. CASE r # NoReg /\ \E key \in Keys : table[d][key] = r
      <3>1. PICK key \in Keys : table[d][key] = r
        BY <2>2
      <3>2. Kind[r] \in {"cc", "tx"} /\ Key[r] = key
        BY <1>1, <2>2, <3>1 DEF Tidy
      <3>3. QED
        BY <2>2, <3>1, <3>2
    <2>3. QED
      BY <1>3, <2>1, <2>2 DEF Among
  <1>5. Txs[b] \in Seq([tx : Keys, valid : BOOLEAN, event : SUBSET Keys])
    BY TxsAssumption
  <1>6. Len(Txs[b]) \in Nat /\ Loops(b) = 2 + 2 * Len(Txs[b])
    BY <1>5 DEF Loops
  <1>7. CASE Kind[r] = "block"
    BY <1>4, <1>6, <1>7 DEF Wants, Receivers
  <1>8. CASE Kind[r] = "filtered"
    BY <1>4, <1>6, <1>8 DEF Wants, Receivers
  <1>9. CASE Kind[r] = "tx"
    <2>1. PICK i \in 1..Len(Txs[b]) : n = 2 * i + 1 /\ Txs[b][i].tx = Key[r]
      BY <1>9 DEF Wants
    <2>2. n \in 1..Loops(b) /\ n # 1 /\ n # 2 /\ (n - 1) \div 2 = i /\ n % 2 = 1
      BY <1>6, <2>1
    <2>3. Receivers(d, b, n) = {table[d][k] : k \in {Txs[b][i].tx}} \ {NoReg}
      BY <2>2 DEF Receivers
    <2>4. QED
      BY <1>4, <1>9, <2>1, <2>2, <2>3
  <1>10. CASE Kind[r] = "cc"
    <2>1. PICK i \in 1..Len(Txs[b]) : n = 2 * i + 2 /\ Txs[b][i].valid /\ Key[r] \in Txs[b][i].event
      BY <1>10 DEF Wants
    <2>2. n \in 1..Loops(b) /\ n # 1 /\ n # 2 /\ (n - 1) \div 2 = i /\ n % 2 # 1
      BY <1>6, <2>1
    <2>3. Receivers(d, b, n) = {table[d][k] : k \in Txs[b][i].event} \ {NoReg}
      BY <2>1, <2>2 DEF Receivers
    <2>4. QED
      BY <1>4, <1>10, <2>1, <2>2, <2>3
  <1>11. QED
    BY <1>3, <1>7, <1>8, <1>9, <1>10, KindAssumption

\* Loops that have nothing for a registration do not count.
LEMMA WantedSkips ==
    ASSUME NEW r, NEW b, NEW k \in Nat, NEW n \in Nat, k < n,
           \A m \in (k + 1)..(n - 1) : ~Wants(r, b, m)
    PROVE  Cardinality(Wanted(r, b, n)) = Cardinality(Wanted(r, b, k)) + (IF Wants(r, b, n) THEN 1 ELSE 0)
  <1>1. IsFiniteSet(Wanted(r, b, k)) /\ Cardinality(Wanted(r, b, k)) \in Nat
    BY WantedGrows
  <1>2. ASSUME NEW m
        PROVE  m \in Wanted(r, b, n) <=> m \in Wanted(r, b, k) \/ (m = n /\ Wants(r, b, n))
    <2>1. m \in 1..n <=> m \in 1..k \/ m \in (k + 1)..(n - 1) \/ m = n
      OBVIOUS
    <2>2. QED
      BY <2>1 DEF Wanted
  <1>3. n \notin Wanted(r, b, k)
    BY DEF Wanted
  <1>4. CASE Wants(r, b, n)
    <2>1. Wanted(r, b, n) = Wanted(r, b, k) \cup {n}
      BY <1>2, <1>4
    <2>2. Cardinality(Wanted(r, b, k) \cup {n}) = Cardinality(Wanted(r, b, k)) + 1
      BY <1>1, <1>3, FS_AddElement
    <2>3. QED
      BY <1>4, <2>1, <2>2
  <1>5. CASE ~Wants(r, b, n)
    <2>1. Wanted(r, b, n) = Wanted(r, b, k)
      BY <1>2, <1>5
    <2>2. QED
      BY <1>1, <1>5, <2>1
  <1>6. QED
    BY <1>4, <1>5

\* Over all the loops of a block they are as many as the events due.
LEMMA AllWanted ==
    ASSUME NEW r \in Regs, NEW b \in Blocks, NEW n \in Nat, Loops(b) <= n
    PROVE  Cardinality(Wanted(r, b, n)) = Due(r, b)
  <1>1. Due(r, b) \in Nat /\ Cardinality(Wanted(r, b, n)) <= Due(r, b)
    BY WantedAreDue
  <1>2. IsFiniteSet(Wanted(r, b, n)) /\ Cardinality(Wanted(r, b, n)) \in Nat
    BY WantedGrows
  <1>3. Txs[b] \in Seq([tx : Keys, valid : BOOLEAN, event : SUBSET Keys])
    BY TxsAssumption
  <1>4. Len(Txs[b]) \in Nat /\ 2 + 2 * Len(Txs[b]) <= n
    BY <1>3 DEF Loops
  <1>5. \A m : m \in Wanted(r, b, n) => Cardinality(Wanted(r, b, n)) # 0
    BY <1>2, FS_EmptySet
  <1>6. Kind[r] \in {"block", "filtered", "cc", "tx"}
    BY KindAssumption
  <1>7. CASE Kind[r] = "block"
    <2>1. Due(r, b) = IF r \in Accepted[b] THEN 1 ELSE 0
      BY <1>7 DEF Due
    <2>2. r \in Accepted[b] => 1 \in Wanted(r, b, n)
      BY <1>4, <1>7 DEF Wanted, Wants
    <2>3. QED
      BY <1>1, <1>2, <1>5, <2>1, <2>2
  <1>8. CASE Kind[r] = "filtered"
    <2>1. Due(r, b) = 1
      BY <1>8 DEF Due
    <2>2. 2 \in Wanted(r, b, n)
      BY <1>4, <1>8 DEF Wanted, Wants
    <2>3. QED
      BY <1>1, <1>2, <1>5, <2>1, <2>2
  <1>9. CASE Kind[r] = "tx"
    <2>1. PICK T : T = {i \in 1..Len(Txs[b]) : Txs[b][i].tx = Key[r]}
      OBVIOUS
    <2>2. Due(r, b) = Cardinality(T)
      BY <1>9, <2>1 DEF Due
    <2>3. PICK f : f = [i \in T |-> 2 * i + 1]
      OBVIOUS
    <2>4. \A i \in T : i \in Nat /\ f[i] = 2 * i + 1 /\ f[i] \in Wanted(r, b, n)
      <3>1. SUFFICES ASSUME NEW i \in T
                     PROVE  i \in Nat /\ f[i] = 2 * i + 1 /\ f[i] \in Wanted(r, b, n)
        OBVIOUS
      <3>2. i \in 1..Len(Txs[b]) /\ Txs[b][i].tx = Key[r]
        BY <2>1
      <3>3. i \in Nat /\ 2 * i + 1 \in 1..n
        BY <1>4, <3>2
      <3>4. Wants(r, b, 2 * i + 1)
        BY <1>9, <3>2 DEF Wants
      <3>5. QED
        BY <2>3, <3>3, <3>4 DEF Wanted
    <2>5. f \in Injection(T, Wanted(r, b, n))
      <3>1. f \in [T -> Wanted(r, b, n)]
        BY <2>3, <2>4
      <3>2. \A i, j \in T : f[i] = f[j] => i = j
        BY <2>4
      <3>3. QED
        BY <3>1, <3>2 DEF Injection, IsInjective
    <2>6. Cardinality(T) <= Cardinality(Wanted(r, b, n))
      BY <1>2, <2>5, FS_Injection
    <2>7. QED
      BY <1>1, <1>2, <2>2, <2>6
  <1>10. CASE Kind[r] = "cc"
    <2>1. PICK T : T = {i \in 1..Len(Txs[b]) : Txs[b][i].valid /\ Key[r] \in Txs[b][i].event}
      OBVIOUS
    <2>2. Due(r, b) = Cardinality(T)
      BY <1>10, <2>1 DEF Due
    <2>3. PICK f : f = [i \in T |-> 2 * i + 2]
      OBVIOUS
    <2>4. \A i \in T : i \in Nat /\ f[i] = 2 * i + 2 /\ f[i] \in Wanted(r, b, n)
      <3>1. SUFFICES ASSUME NEW i \in T
                     PROVE  i \in Nat /\ f[i] = 2 * i + 2 /\ f[i] \in Wanted(r, b, n)
        OBVIOUS
      <3>2. i \in 1..Len(Txs[b]) /\ Txs[b][i].valid /\ Key[r] \in Txs[b][i].event
        BY <2>1
      <3>3. i \in Nat /\ 2 * i + 2 \in 1..n
        BY <1>4, <3>2
      <3>4. PICK m \in 1..n : m = 2 * i + 2
        BY <3>3
      <3>5. Wants(r, b, m)
        BY <1>10, <3>2, <3>4 DEF Wants
      <3>6. m \in Wanted(r, b, n)
        BY <3>5 DEF Wanted
      <3>7. QED
        BY <2>3, <3>3, <3>4, <3>6
    <2>5. f \in Injection(T, Wanted(r, b, n))
      <3>1. f \in [T -> Wanted(r, b, n)]
        BY <2>3, <2>4
      <3>2. ASSUME NEW i \in T, NEW j \in T, f[i] = f[j]
            PROVE  i = j
        <4>1. i \in Nat /\ j \in Nat /\ 2 * i + 2 = 2 * j + 2
          BY <2>4, <3>2
        <4>2. QED
          BY <4>1
      <3>3. QED
        BY <3>1, <3>2 DEF Injection, IsInjective
    <2>6. Cardinality(T) <= Cardinality(Wanted(r, b, n))
      BY <1>2, <2>5, FS_Injection
    <2>7. QED
      BY <1>1, <1>2, <2>2, <2>6
  <1>11. QED
    BY <1>6, <1>7, <1>8, <1>9, <1>10

-----------------------------------------------------------------------------
(* The blocks in a queue                                                   *)

\* An event is put into a queue: a block is no later than the next one.
LEMMA GaplessPosted ==
    ASSUME NEW q \in Seq(Events), NEW e \in Events, NEW l \in Int, NEW f \in Int, NEW g \in Int,
           Gapless(q, l, f), g = f \/ (IsBlockEvent(e) /\ g = e.number),
           IsBlockEvent(e) => e.number <= f + 1
    PROVE  Gapless(Append(q, e), l, g)
  <1>1. PICK s \in Seq(Events) : s = Append(q, e)
    <2>1. Append(q, e) \in Seq(Events)
      OBVIOUS
    <2>2. QED
      BY <2>1
  <1>2. /\ Len(q) \in Nat /\ Len(s) = Len(q) + 1 /\ s[Len(q) + 1] = e
        /\ \A i \in 1..Len(q) : s[i] = q[i]
    BY <1>1
  <1>3. ASSUME NEW n \in Int, NEW i \in Int, NEW k \in Int, i <= k, Reached(q, l, n, i)
        PROVE  Reached(s, l, n, k)
    <2>1. CASE \E j \in 1..Len(q) : j < i /\ IsBlockEvent(q[j]) /\ n <= q[j].number + 1
      <3>1. PICK j \in 1..Len(q) : j < i /\ IsBlockEvent(q[j]) /\ n <= q[j].number + 1
        BY <2>1
      <3>2. j \in 1..Len(s) /\ j < k /\ s[j] = q[j]
        BY <1>2, <1>3, <3>1
      <3>3. QED
        BY <3>1, <3>2 DEF Reached
    <2>2. QED
      BY <1>3, <2>1 DEF Reached
  <1>4. \A i \in 1..Len(s) : IsBlockEvent(s[i]) => s[i].number \in Int
    BY <1>1, ItemOf, EventFields, BlocksAssumption DEF IsBlockEvent, Blocks
  <1>5. FirstBlock \in Int
    BY BlocksAssumption
  <1>6. ASSUME NEW n \in Int, n <= f + 1
        PROVE  Reached(s, l, n, Len(q) + 1)
    <2>1. Reached(s, l, f + 1, Len(q) + 1)
      BY <1>2, <1>3 DEF Gapless
    <2>2. CASE f + 1 <= FirstBlock \/ f + 1 <= l + 1
      BY <1>5, <1>6, <2>2 DEF Reached
    <2>3. CASE \E j \in 1..Len(s) : j < Len(q) + 1 /\ IsBlockEvent(s[j]) /\ f + 1 <= s[j].number + 1
      <3>1. PICK j \in 1..Len(s) : j < Len(q) + 1 /\ IsBlockEvent(s[j]) /\ f + 1 <= s[j].number + 1
        BY <2>3
      <3>2. n <= s[j].number + 1
        BY <1>4, <1>6, <3>1
      <3>3. QED
        BY <3>1, <3>2 DEF Reached
    <2>4. QED
      BY <2>1, <2>2, <2>3 DEF Reached
  <1>7. ASSUME NEW i \in 1..Len(s), IsBlockEvent(s[i])
        PROVE  Reached(s, l, s[i].number, i)
    <2>1. CASE i \in 1..Len(q)
      <3>1. Reached(q, l, q[i].number, i) /\ s[i] = q[i] /\ i \in Int /\ i <= i
        BY <1>2, <1>7, <2>1 DEF Gapless
      <3>2. QED
        BY <1>3, <1>4, <1>7, <3>1
    <2>2. CASE i = Len(q) + 1
      BY <1>2, <1>4, <1>6, <1>7, <2>2
    <2>3. QED
      BY <1>2, <2>1, <2>2
  <1>8. Reached(s, l, g + 1, Len(s) + 1)
    <2>1. CASE g = f
      <3>1. Reached(q, l, f + 1, Len(q) + 1)
        BY DEF Gapless
      <3>2. QED
        BY <1>2, <1>3, <2>1, <3>1
    <2>2. CASE IsBlockEvent(e) /\ g = e.number
      <3>1. Len(q) + 1 \in 1..Len(s) /\ Len(q) + 1 < Len(s) + 1 /\ g + 1 <= s[Len(q) + 1].number + 1
        BY <1>2, <2>2
      <3>2. QED
        BY <1>2, <2>2, <3>1 DEF Reached
    <2>3. QED
      BY <2>1, <2>2
  <1>9. QED
    BY <1>1, <1>7, <1>8 DEF Gapless

\* The first event is taken out of it, and a block has been handled.
LEMMA GaplessHandled ==
    ASSUME NEW q \in Seq(Events), q # <<>>, NEW l \in Int, NEW m \in Int, NEW f \in Int,
           Gapless(q, l, f), l <= m, IsBlockEvent(Head(q)) => Head(q).number <= m
    PROVE  Gapless(Tail(q), m, f)
  <1>1. PICK s \in Seq(Events) : s = Tail(q)
    <2>1. Tail(q) \in Seq(Events)
      OBVIOUS
    <2>2. QED
      BY <2>1
  <1>2. /\ Len(q) \in Nat \ {0} /\ Len(s) = Len(q) - 1 /\ q[1] = Head(q)
        /\ \A i \in 1..Len(s) : s[i] = q[i + 1]
    BY <1>1
  <1>3. \A i \in 1..Len(q) : IsBlockEvent(q[i]) => q[i].number \in Int
    BY ItemOf, EventFields, BlocksAssumption DEF IsBlockEvent, Blocks
  <1>4. ASSUME NEW n \in Int, NEW i \in Int, Reached(q, l, n, i + 1)
        PROVE  Reached(s, m, n, i)
    <2>1. CASE n <= FirstBlock \/ n <= l + 1
      BY <2>1 DEF Reached
    <2>2. CASE \E j \in 1..Len(q) : j < i + 1 /\ IsBlockEvent(q[j]) /\ n <= q[j].number + 1
      <3>1. PICK j \in 1..Len(q) : j < i + 1 /\ IsBlockEvent(q[j]) /\ n <= q[j].number + 1
        BY <2>2
      <3>2. CASE j = 1
        <4>1. n <= m + 1
          BY <1>2, <1>3, <3>1, <3>2
        <4>2. QED
          BY <4>1 DEF Reached
      <3>3. CASE j # 1
        <4>1. PICK h \in 1..Len(s) : j = h + 1
          <5>1. j - 1 \in 1..Len(s) /\ j = (j - 1) + 1
            BY <1>2, <3>3
          <5>2. QED
            BY <5>1
        <4>2. h < i /\ s[h] = q[j]
          BY <1>2, <3>1, <4>1
        <4>3. QED
          BY <3>1, <4>2 DEF Reached
      <3>4. QED
        BY <3>2, <3>3
    <2>3. QED
      BY <1>4, <2>1, <2>2 DEF Reached
  <1>5. ASSUME NEW i \in 1..Len(s), IsBlockEvent(s[i])
        PROVE  Reached(s, m, s[i].number, i)
    <2>1. i + 1 \in 1..Len(q) /\ s[i] = q[i + 1] /\ i \in Int
      BY <1>2
    <2>2. Reached(q, l, q[i + 1].number, i + 1) /\ q[i + 1].number \in Int
      BY <1>3, <1>5, <2>1 DEF Gapless
    <2>3. QED
      BY <1>4, <2>1, <2>2
  <1>6. Reached(s, m, f + 1, Len(s) + 1)
    <2>1. Reached(q, l, f + 1, (Len(s) + 1) + 1)
      BY <1>2 DEF Gapless
    <2>2. QED
      BY <1>2, <1>4, <2>1
  <1>7. QED
    BY <1>1, <1>5, <1>6 DEF Gapless

\* A block that comes first and is later than the last one is the next.
LEMMA NextBlock ==
    ASSUME NEW q \in Seq(Events), q # <<>>, IsBlockEvent(Head(q)), NEW l \in Blocks \cup {NoBlock}, NEW f,
           Gapless(q, l, f), l = NoBlock \/ Head(q).number > l
    PROVE  Head(q).number = IF l = NoBlock THEN FirstBlock ELSE l + 1
  <1>1. PICK b \in Blocks : b = Head(q).number
    BY EventFields DEF IsBlockEvent
  <1>2. Reached(q, l, b, 1)
    BY <1>1 DEF Gapless
  <1>3. b <= FirstBlock \/ b <= l + 1
    BY <1>2 DEF Reached
  <1>4. FirstBlock <= b /\ b \in Nat /\ FirstBlock \in Nat
    BY BlocksAssumption DEF Blocks
  <1>5. CASE l = NoBlock
    BY <1>1, <1>3, <1>4, <1>5 DEF NoBlock
  <1>6. CASE l # NoBlock
    <2>1. l \in Nat /\ FirstBlock <= l /\ b > l
      BY <1>1, <1>6, BlocksAssumption DEF Blocks
    <2>2. QED
      BY <1>1, <1>3, <1>4, <1>6, <2>1
  <1>7. QED
    BY <1>5, <1>6

-----------------------------------------------------------------------------
(* What a registration was sent                                            *)

\* A registration that has just been made.
LEMMA ExactNew ==
    ASSUME NEW r, NEW l \in Blocks \cup {NoBlock}
    PROVE  Exact(r, <<>>, l, l, Idle)
  <1>1. l \in Int
    BY BlocksAssumption DEF Blocks, NoBlock
  <1>2. ASSUME NEW b \in Blocks
        PROVE  Cardinality(Occurrences(<<>>, b)) = 0 /\ ~(b > l /\ b <= l)
    <2>1. Occurrences(<<>>, b) = {}
      BY DEF Occurrences
    <2>2. b \in Int
      BY BlocksAssumption DEF Blocks
    <2>3. Cardinality(Occurrences(<<>>, b)) = 0
      BY <2>1, FS_EmptySet
    <2>4. ~(b > l /\ b <= l)
      BY <1>1, <2>2
    <2>5. QED
      BY <2>3, <2>4
  <1>3. l <= l
    BY <1>1
  <1>4. QED
    BY <1>2, <1>3 DEF Exact

\* The next block is about to be published.
LEMMA ExactBlock ==
    ASSUME NEW r, NEW s, NEW x \in Blocks \cup {NoBlock}, NEW l \in Blocks \cup {NoBlock}, NEW b \in Blocks,
           Exact(r, s, x, l, Idle), b = IF l = NoBlock THEN FirstBlock ELSE l + 1
    PROVE  Exact(r, s, x, b, [block |-> b, loop |-> 0, left |-> {}])
  <1>1. l \in Int /\ x \in Int /\ x <= l /\ l < b
    BY BlocksAssumption DEF Blocks, NoBlock, Exact
  <1>2. ASSUME NEW c \in Blocks
        PROVE  /\ Cardinality(Occurrences(s, c)) = IF c > x /\ c <= l THEN Due(r, c) ELSE 0
               /\ c # b => (c <= b <=> c <= l)
               /\ ~(b <= l)
    <2>1. c # Idle.block
      BY BlocksAssumption DEF Idle, Blocks, NoBlock
    <2>2. c # b => (c <= b <=> c <= l)
      BY <1>1, BlocksAssumption DEF Blocks, NoBlock
    <2>3. QED
      BY <1>1, <2>1, <2>2 DEF Exact
  <1>3. Cardinality(Occurrences(s, b)) = 0 /\ Cardinality(Wanted(r, b, 0)) = 0
    BY <1>1, <1>2, NoneWanted
  <1>4. PICK p : p = [block |-> b, loop |-> 0, left |-> {}]
    OBVIOUS
  <1>5. p.block = b /\ p.loop = 0 /\ p.left = {}
    BY <1>4
  <1>6. x <= b /\ x < b
    BY <1>1
  <1>7. ASSUME NEW c \in Blocks, c # p.block
        PROVE  Cardinality(Occurrences(s, c)) = IF c > x /\ c <= b THEN Due(r, c) ELSE 0
    BY <1>2, <1>5, <1>7
  <1>8. Cardinality(Occurrences(s, p.block)) + (IF r \in p.left THEN 1 ELSE 0) = Cardinality(Wanted(r, p.block, p.loop))
    BY <1>3, <1>5
  <1>9. Exact(r, s, x, b, p)
    BY <1>5, <1>6, <1>7, <1>8 DEF Exact
  <1>10. QED
    BY <1>4, <1>9

\* The publishing goes on with loop n.
LEMMA ExactNext ==
    ASSUME NEW r, NEW s \in Seq(Blocks), NEW x, NEW l, NEW p \in Sending, p # Idle, p.left = {},
           NEW b \in Blocks, b = p.block, NEW k \in Nat, k = p.loop, NEW n \in Nat, k < n,
           Exact(r, s, x, l, p), NEW R, r \in R <=> Wants(r, b, n), \A m \in (k + 1)..(n - 1) : ~Wants(r, b, m)
    PROVE  Exact(r, s, x, l, [block |-> b, loop |-> n, left |-> R])
  <1>1. PICK o : o = [block |-> b, loop |-> n, left |-> R]
    OBVIOUS
  <1>2. o.block = b /\ o.loop = n /\ o.left = R
    BY <1>1
  <1>3. PICK c \in Nat : c = Cardinality(Occurrences(s, b))
    BY OneMore
  <1>4. PICK w \in Nat : w = Cardinality(Wanted(r, b, k))
    BY WantedGrows
  <1>5. c + 0 = w
    BY <1>3, <1>4 DEF Exact
  <1>6. Cardinality(Wanted(r, b, n)) = w + (IF Wants(r, b, n) THEN 1 ELSE 0)
    BY <1>4, WantedSkips
  <1>7. Cardinality(Occurrences(s, o.block)) + (IF r \in o.left THEN 1 ELSE 0) = Cardinality(Wanted(r, o.block, o.loop))
    BY <1>2, <1>3, <1>5, <1>6
  <1>8. Exact(r, s, x, l, o)
    BY <1>2, <1>7 DEF Exact
  <1>9. QED
    BY <1>1, <1>8

\* The publishing of block l is done.
LEMMA ExactEnd ==
    ASSUME NEW r \in Regs, NEW s \in Seq(Blocks), NEW x, NEW p \in Sending, p # Idle, p.left = {},
           NEW l \in Blocks, l = p.block, NEW k \in Nat, k = p.loop,
           Exact(r, s, x, l, p), \A m \in Nat : m > k => ~Wants(r, l, m)
    PROVE  Exact(r, s, x, l, Idle)
  <1>1. PICK n \in Nat : Loops(l) <= n /\ k < n
    <2>1. Len(Txs[l]) \in Nat
      BY TxsAssumption
    <2>2. Loops(l) + k + 1 \in Nat /\ Loops(l) <= Loops(l) + k + 1 /\ k < Loops(l) + k + 1
      BY <2>1 DEF Loops
    <2>3. QED
      BY <2>2
  <1>2. PICK c \in Nat : c = Cardinality(Occurrences(s, l))
    BY OneMore
  <1>3. PICK w \in Nat : w = Cardinality(Wanted(r, l, k))
    BY WantedGrows
  <1>4. c + 0 = w /\ x < l /\ x <= l
    BY <1>2, <1>3 DEF Exact
  <1>5. Due(r, l) = w
    <2>1. (\A m \in (k + 1)..(n - 1) : ~Wants(r, l, m)) /\ ~Wants(r, l, n)
      BY <1>1
    <2>2. Cardinality(Wanted(r, l, n)) = w
      BY <1>1, <1>3, <2>1, WantedSkips
    <2>3. QED
      BY <1>1, <2>2, AllWanted
  <1>6. l \in Int /\ l <= l
    BY BlocksAssumption DEF Blocks
  <1>7. ASSUME NEW b \in Blocks
        PROVE  Cardinality(Occurrences(s, b)) = IF b > x /\ b <= l THEN Due(r, b) ELSE 0
    <2>1. CASE b = l
      BY <1>2, <1>4, <1>5, <1>6, <2>1
    <2>2. CASE b # l
      BY <2>2 DEF Exact
    <2>3. QED
      BY <2>1, <2>2
  <1>8. QED
    BY <1>4, <1>7 DEF Exact

\* An event is sent, to r or to somebody else.
LEMMA ExactSent ==
    ASSUME NEW q \in Regs, NEW r \in Regs, NEW s \in Seq(Blocks), NEW x, NEW l, NEW p \in Sending, p # Idle, r \in p.left,
           NEW b \in Blocks, b = p.block, Exact(q, s, x, l, p),
           NEW o, o.block = b, o.loop = p.loop, o.left = p.left \ {r}
    PROVE  Exact(q, IF q = r THEN Append(s, b) ELSE s, x, l, o)
  <1>1. PICK c \in Nat : c = Cardinality(Occurrences(s, b))
    BY OneMore
  <1>2. PICK w \in Nat : w = Cardinality(Wanted(q, b, p.loop))
    BY WantedGrows DEF Sending
  <1>3. c + (IF q \in p.left THEN 1 ELSE 0) = w /\ x < b /\ x <= l
    BY <1>1, <1>2 DEF Exact
  <1>4. CASE q # r
    <2>1. q \in o.left <=> q \in p.left
      BY <1>4
    <2>2. QED
      BY <1>1, <1>2, <1>3, <1>4, <2>1 DEF Exact
  <1>5. CASE q = r
    <2>1. PICK t : t = Append(s, b)
      OBVIOUS
    <2>2. \A d \in Blocks : Cardinality(Occurrences(t, d)) =
             IF d = b THEN Cardinality(Occurrences(s, d)) + 1 ELSE Cardinality(Occurrences(s, d))
      BY <2>1, OneMore
    <2>3. Cardinality(Occurrences(t, o.block)) + (IF q \in o.left THEN 1 ELSE 0) = Cardinality(Wanted(q, o.block, o.loop))
      BY <1>1, <1>2, <1>3, <1>5, <2>2
    <2>4. \A d \in Blocks : d # o.block =>
             Cardinality(Occurrences(t, d)) = IF d > x /\ d <= l THEN Due(q, d) ELSE 0
      BY <2>2 DEF Exact
    <2>5. Exact(q, t, x, l, o)
      BY <1>3, <2>3, <2>4 DEF Exact
    <2>6. QED
      BY <1>5, <2>1, <2>5
  <1>6. QED
    BY <1>4, <1>5

-----------------------------------------------------------------------------
(* The steps and exactness                                                 *)

\* The event loops when an event is sent to one of them.
LEMMA GaplessSent ==
    ASSUME IInv, OInv, EInv, NEW d \in Dispatchers, NEW e \in Events, Post(d, e), ~IsBlockEvent(e),
           UNCHANGED <<lastBlock, feed>>
    PROVE  \A c \in Dispatchers : Gapless(queue'[c], lastBlock'[c], feed'[c])
  <1>1. queue \in [Dispatchers -> Seq(Events)] /\ queue' = [queue EXCEPT ![d] = Append(queue[d], e)]
    BY DEF IInv, Types, Post
  <1>2. lastBlock[d] \in Int /\ feed[d] \in Int
    BY BlocksAssumption DEF OInv, OTypes, EInv, ETypes, Blocks, NoBlock
  <1>3. PICK q \in Seq(Events) : q = queue[d]
    BY <1>1
  <1>4. Gapless(q, lastBlock[d], feed[d])
    BY <1>3 DEF EInv
  <1>5. Gapless(Append(q, e), lastBlock[d], feed[d])
    BY <1>2, <1>4, GaplessPosted
  <1>6. QED
    BY <1>1, <1>3, <1>5 DEF EInv

\* The event loops when one handles an event.
LEMMA GaplessTaken ==
    ASSUME IInv, OInv, EInv, NEW d \in Dispatchers, NEW type, Handle(d, type), UNCHANGED feed,
           NEW m \in Blocks \cup {NoBlock}, lastBlock[d] <= m, type = "block" => Head(queue[d]).number <= m,
           lastBlock' = [lastBlock EXCEPT ![d] = m]
    PROVE  \A c \in Dispatchers : Gapless(queue'[c], lastBlock'[c], feed'[c])
  <1>1. /\ queue \in [Dispatchers -> Seq(Events)] /\ queue' = [queue EXCEPT ![d] = Tail(queue[d])]
        /\ queue[d] # <<>> /\ Head(queue[d]).type = type
    BY DEF IInv, Types, Handle
  <1>2. lastBlock[d] \in Int /\ feed[d] \in Int /\ m \in Int
    BY BlocksAssumption DEF OInv, OTypes, EInv, ETypes, Blocks, NoBlock
  <1>3. PICK q \in Seq(Events) : q = queue[d]
    BY <1>1
  <1>4. Gapless(q, lastBlock[d], feed[d]) /\ q # <<>> /\ (IsBlockEvent(Head(q)) => Head(q).number <= m)
    BY <1>1, <1>3 DEF EInv, IsBlockEvent
  <1>5. Gapless(Tail(q), m, feed[d])
    BY <1>2, <1>4, GaplessHandled
  <1>6. lastBlock'[d] = m /\ \A c \in Dispatchers : c # d => lastBlock'[c] = lastBlock[c]
    BY DEF OInv, OTypes
  <1>7. queue'[d] = Tail(q) /\ \A c \in Dispatchers : c # d => queue'[c] = queue[c]
    BY <1>1, <1>3
  <1>8. QED
    BY <1>5, <1>6, <1>7 DEF EInv

\* An event that is not a block is handled.
LEMMA GaplessKept ==
    ASSUME IInv, OInv, EInv, NEW d \in Dispatchers, NEW type, Handle(d, type), type # "block",
           UNCHANGED <<feed, lastBlock>>
    PROVE  \A c \in Dispatchers : Gapless(queue'[c], lastBlock'[c], feed'[c])
  <1>1. lastBlock \in [Dispatchers -> Blocks \cup {NoBlock}]
    BY DEF OInv, OTypes
  <1>2. PICK m \in Blocks \cup {NoBlock} : m = lastBlock[d]
    BY <1>1
  <1>3. lastBlock[d] <= m
    BY <1>2, BlocksAssumption DEF Blocks, NoBlock
  <1>4. lastBlock' = [lastBlock EXCEPT ![d] = m]
    BY <1>1, <1>2
  <1>5. QED
    BY <1>3, <1>4, GaplessTaken

\* A step that sends nothing and handles no block: who is new was just made.
LEMMA ExactKept ==
    ASSUME EInv, UNCHANGED <<sent, lastBlock, sending, infoOnly, timeout>>, ETypes',
           \A c \in Dispatchers : Gapless(queue'[c], lastBlock'[c], feed'[c]),
           lastBlock \in [Dispatchers -> Blocks \cup {NoBlock}],
           \A c \in Dispatchers : \A r \in Own(c)' :
              \/ r \in Own(c) /\ since'[r] = since[r]
              \/ sending[c] = Idle /\ sent[r] = <<>> /\ since'[r] = lastBlock[c]
    PROVE  EInv'
  <1>1. ASSUME timeout = "infinite", NEW c \in Dispatchers, NEW r \in Own(c)'
        PROVE  Exact(r, sent[r], since'[r], lastBlock[c], sending[c])
    <2>1. CASE r \in Own(c) /\ since'[r] = since[r]
      BY <1>1, <2>1 DEF EInv
    <2>2. CASE sending[c] = Idle /\ sent[r] = <<>> /\ since'[r] = lastBlock[c]
      <3>1. PICK l \in Blocks \cup {NoBlock} : l = lastBlock[c]
        OBVIOUS
      <3>2. Exact(r, <<>>, l, l, Idle)
        BY ExactNew
      <3>3. QED
        BY <2>2, <3>1, <3>2
    <2>3. QED
      BY <1>1, <2>1, <2>2
  <1>2. timeout' = "infinite" => \A c \in Dispatchers : \A r \in Own(c)' :
           Exact(r, sent'[r], since'[r], lastBlock'[c], sending'[c])
    BY <1>1
  <1>3. QED
    BY <1>2 DEF EInv, Exact, Occurrences, Due, Wanted, Wants, Gapless, Reached, IsBlockEvent

\* The steps of the consumers and of the event server.
LEMMA QuietExact ==
    ASSUME IInv, OInv, EInv,
           UNCHANGED <<sent, since, lastBlock, sending, infoOnly, timeout, list, table, snapshot>>,
           feed' \in [Dispatchers -> Int],
           \A c \in Dispatchers : Gapless(queue'[c], lastBlock'[c], feed'[c])
    PROVE  EInv'
  <1>1. \A c \in Dispatchers : Own(c)' = Own(c)
    BY SameHoldings DEF IInv
  <1>2. ETypes' /\ lastBlock \in [Dispatchers -> Blocks \cup {NoBlock}]
    BY DEF EInv, ETypes, OInv, OTypes
  <1>3. QED
    BY <1>1, <1>2, ExactKept

\* A step of a consumer.
LEMMA ConsumerExact ==
    ASSUME IInv, OInv, EInv, NEW r \in Regs, Consumer(r)
    PROVE  EInv'
  <1>1. UNCHANGED <<sent, since, lastBlock, sending, infoOnly, timeout, list, table, snapshot, feed>>
    BY DEF Consumer, Register, RegisterSend, Read, Unregister, UnregisterSend, dispVars, moverVars, Alive, NotPanicked
  <1>2. feed' \in [Dispatchers -> Int]
    BY <1>1 DEF EInv, ETypes
  <1>3. CASE UNCHANGED queue
    <2>1. \A c \in Dispatchers : Gapless(queue'[c], lastBlock'[c], feed'[c])
      BY <1>1, <1>3 DEF EInv
    <2>2. QED
      BY <1>1, <1>2, <2>1, QuietExact
  <1>4. CASE RegisterSend(r) \/ UnregisterSend(r)
    <2>1. PICK d \in Dispatchers : d = at[r]
      BY <1>4 DEF RegisterSend, UnregisterSend, IInv, Addressed
    <2>2. PICK e \in Events : ~IsBlockEvent(e) /\ Post(d, e)
      <3>1. CASE RegisterSend(r)
        <4>1. PICK e \in Events : e = [type |-> "register", reg |-> r]
          BY EventsSent
        <4>2. ~IsBlockEvent(e) /\ Post(d, e)
          BY <2>1, <3>1, <4>1 DEF RegisterSend, IsBlockEvent
        <4>3. QED
          BY <4>2
      <3>2. CASE UnregisterSend(r)
        <4>1. PICK e \in Events : e = [type |-> "unregister", reg |-> r]
          BY EventsSent
        <4>2. ~IsBlockEvent(e) /\ Post(d, e)
          BY <2>1, <3>2, <4>1 DEF UnregisterSend, IsBlockEvent
        <4>3. QED
          BY <4>2
      <3>3. QED
        BY <1>4, <3>1, <3>2
    <2>3. \A c \in Dispatchers : Gapless(queue'[c], lastBlock'[c], feed'[c])
      BY <1>1, <2>2, GaplessSent
    <2>4. QED
      BY <1>1, <1>2, <2>3, QuietExact
  <1>5. QED
    BY <1>3, <1>4 DEF Consumer, Register, Read, Unregister

\* The event server sends a block.
LEMMA FeedExact ==
    ASSUME IInv, OInv, EInv, NEW d \in Dispatchers, NEW b \in Blocks, Feed(d, b)
    PROVE  EInv'
  <1>1. UNCHANGED <<sent, since, lastBlock, sending, infoOnly, timeout, list, table, snapshot>>
    BY DEF Feed, dispVars, regVars, moverVars, Alive, NotPanicked
  <1>2. PICK e \in Events : e = [type |-> "block", number |-> b]
    BY EventsSent
  <1>3. IsBlockEvent(e) /\ e.number = b
    BY <1>2 DEF IsBlockEvent
  <1>4. queue \in [Dispatchers -> Seq(Events)] /\ queue' = [queue EXCEPT ![d] = Append(queue[d], e)]
    BY <1>2 DEF IInv, Types, Feed, Post
  <1>5. feed \in [Dispatchers -> Int] /\ feed[d] \in Int /\ lastBlock[d] \in Int /\ b \in Int
    BY BlocksAssumption DEF OInv, OTypes, EInv, ETypes, Blocks, NoBlock
  <1>6. PICK g \in Int : g = IF b > feed[d] THEN b ELSE feed[d]
    BY <1>5
  <1>7. feed' = [feed EXCEPT ![d] = g] /\ b <= feed[d] + 1
    BY <1>6 DEF Feed
  <1>8. PICK q \in Seq(Events) : q = queue[d]
    BY <1>4
  <1>9. Gapless(q, lastBlock[d], feed[d]) /\ (g = feed[d] \/ g = e.number) /\ e.number <= feed[d] + 1
    BY <1>3, <1>6, <1>7, <1>8 DEF EInv
  <1>10. Gapless(Append(q, e), lastBlock[d], g)
    BY <1>3, <1>5, <1>9, GaplessPosted
  <1>11. feed' \in [Dispatchers -> Int] /\ feed'[d] = g /\ \A c \in Dispatchers : c # d => feed'[c] = feed[c]
    BY <1>5, <1>7
  <1>12. queue'[d] = Append(q, e) /\ \A c \in Dispatchers : c # d => queue'[c] = queue[c]
    BY <1>4, <1>8
  <1>13. \A c \in Dispatchers : Gapless(queue'[c], lastBlock'[c], feed'[c])
    BY <1>1, <1>10, <1>11, <1>12 DEF EInv
  <1>14. QED
    BY <1>1, <1>11, <1>13, QuietExact

\* Registrations go.
LEMMA ShrinkExact ==
    ASSUME IInv, OInv, EInv, NEW d \in Dispatchers, NEW type, Handle(d, type), type # "block",
           UNCHANGED <<sent, since, lastBlock, sending, infoOnly, timeout, feed>>,
           \A c \in Dispatchers : Own(c)' \subseteq Own(c)
    PROVE  EInv'
  <1>1. \A c \in Dispatchers : Gapless(queue'[c], lastBlock'[c], feed'[c])
    BY GaplessKept
  <1>2. ETypes' /\ lastBlock \in [Dispatchers -> Blocks \cup {NoBlock}]
    BY DEF EInv, ETypes, OInv, OTypes
  <1>3. QED
    BY <1>1, <1>2, ExactKept

\* An Unregister.
LEMMA HandleUnregisterExact ==
    ASSUME IInv, OInv, EInv, NEW d \in Dispatchers, HandleUnregister(d)
    PROVE  EInv'
  <1>1. Handle(d, "unregister") /\ UNCHANGED <<sent, since, lastBlock, sending, infoOnly, timeout, feed>>
    BY DEF HandleUnregister, CloseChannels, NotPanicked
  <1>2. PICK r \in Regs : r = Head(queue[d]).reg
    BY <1>1, Handled, EventFields DEF IInv
  <1>3. Dropped(d, r)
    BY <1>2 DEF HandleUnregister, Dropped, ListKinds
  <1>4. PICK l \in Lists, t \in Tables, R \in SUBSET Own(d) :
              /\ Tidy(l, t) /\ list' = [list EXCEPT ![d] = l] /\ table' = [table EXCEPT ![d] = t]
              /\ Registered(l, t) = Own(d) \ R /\ CloseChannels(R)
    BY <1>3, UnregisterEffect
  <1>5. /\ Own(d)' = Registered(l, t)
        /\ \A e \in Dispatchers : e # d => Own(e)' = Own(e)
    BY <1>4, NewHoldings DEF IInv
  <1>6. \A e \in Dispatchers : Own(e)' \subseteq Own(e)
    BY <1>4, <1>5
  <1>7. QED
    BY <1>1, <1>6, ShrinkExact

\* A stop, or a transfer.
LEMMA HandleStopExact ==
    ASSUME IInv, OInv, EInv, NEW d \in Dispatchers, HandleStop(d) \/ HandleTransfer(d)
    PROVE  EInv'
  <1>1. UNCHANGED <<sent, since, lastBlock, sending, infoOnly, timeout, feed>>
    BY DEF HandleStop, HandleTransfer, CloseChannels, NotPanicked, Alive, regVars
  <1>2. PICK type \in Moves : Handle(d, type)
    BY DEF HandleStop, HandleTransfer, Moves
  <1>3. Own(d)' = {} /\ \A e \in Dispatchers : e # d => Own(e)' = Own(e)
    BY HoldsNothing DEF HandleStop, HandleTransfer
  <1>4. QED
    BY <1>1, <1>2, <1>3, ShrinkExact DEF Moves

\* A registration is made: nothing is due yet.
LEMMA HandleRegisterExact ==
    ASSUME IInv, OInv, EInv, NEW d \in Dispatchers, HandleRegister(d)
    PROVE  EInv'
  <1>1. Handle(d, "register") /\ UNCHANGED <<sent, lastBlock, sending, infoOnly, timeout, feed>>
    BY DEF HandleRegister, Alive, NotPanicked
  <1>2. PICK r \in Regs : r = Head(queue[d]).reg
    BY <1>1, Handled, EventFields DEF IInv
  <1>3. sending[d] = Idle
    BY <1>1, Handled DEF IInv
  <1>4. caller[r] = "waiting"
    BY <1>1, <1>2, Handled DEF IInv, Awaiting, IsRegister
  <1>5. sent[r] = <<>> /\ \A e \in Dispatchers : r \notin Own(e)
    BY <1>4 DEF OInv, Ordered, BeforeUse, IInv, Held
  <1>6. Added(d, r)
    BY <1>2 DEF HandleRegister, Added, ListKinds
  <1>7. PICK l \in Lists, t \in Tables :
              /\ Tidy(l, t) /\ list' = [list EXCEPT ![d] = l] /\ table' = [table EXCEPT ![d] = t]
              /\ \/ caller' = [caller EXCEPT ![r] = "using"] /\ Registered(l, t) = Own(d) \cup {r}
                 \/ caller' = [caller EXCEPT ![r] = "out"] /\ Registered(l, t) = Own(d)
    BY <1>5, <1>6, RegisterEffect
  <1>8. /\ Own(d)' = Registered(l, t)
        /\ \A e \in Dispatchers : e # d => Own(e)' = Own(e)
    BY <1>7, NewHoldings DEF IInv
  <1>9. since \in [Regs -> Blocks \cup {NoBlock}] /\ lastBlock \in [Dispatchers -> Blocks \cup {NoBlock}]
    BY DEF EInv, ETypes, OInv, OTypes
  <1>10. \/ since' = [since EXCEPT ![r] = lastBlock[d]]
         \/ caller' = [caller EXCEPT ![r] = "out"] /\ UNCHANGED since
    BY <1>2 DEF HandleRegister, Goto
  <1>11. \A q \in Own(d)' : q \in Own(d) \/ (q = r /\ since'[r] = lastBlock[d])
    <2>1. caller \in [Regs -> BeforeUse \cup {"using", "unregistering", "done"}]
      BY DEF IInv, Types
    <2>2. [caller EXCEPT ![r] = "using"] # [caller EXCEPT ![r] = "out"]
      <3>1. [caller EXCEPT ![r] = "using"][r] = "using" /\ [caller EXCEPT ![r] = "out"][r] = "out"
        BY <2>1
      <3>2. QED
        BY <3>1
    <2>3. QED
      BY <1>7, <1>8, <1>9, <1>10, <2>2
  <1>12. \A q \in Regs : q # r => since'[q] = since[q]
    BY <1>9, <1>10
  <1>13. \A e \in Dispatchers : Own(e) \subseteq Regs
    BY DispatcherHolds
  <1>14. ETypes'
    BY <1>1, <1>9, <1>10 DEF EInv, ETypes
  <1>15. ASSUME NEW e \in Dispatchers, NEW q \in Own(e)'
         PROVE  \/ q \in Own(e) /\ since'[q] = since[q]
                \/ sending[e] = Idle /\ sent[q] = <<>> /\ since'[q] = lastBlock[e]
    BY <1>3, <1>5, <1>8, <1>11, <1>12, <1>13
  <1>16. \A c \in Dispatchers : Gapless(queue'[c], lastBlock'[c], feed'[c])
    BY <1>1, GaplessKept
  <1>17. QED
    BY <1>1, <1>9, <1>14, <1>15, <1>16, ExactKept

\* What has to be shown of a step of the publishing.
LEMMA ExactAgain ==
    ASSUME IInv, EInv, UNCHANGED <<since, timeout, list, table, snapshot>>, feed' = feed,
           infoOnly' = [c \in Dispatchers |-> FALSE],
           \A c \in Dispatchers : Gapless(queue'[c], lastBlock'[c], feed'[c]),
           timeout = "infinite" => \A c \in Dispatchers : \A r \in Own(c) :
              Exact(r, sent'[r], since[r], lastBlock'[c], sending'[c])
    PROVE  EInv'
  <1>1. \A c \in Dispatchers : Own(c)' = Own(c)
    BY SameHoldings DEF IInv
  <1>2. ETypes'
    BY DEF EInv, ETypes
  <1>3. timeout' = "infinite" => \A c \in Dispatchers : \A r \in Own(c)' :
           Exact(r, sent'[r], since'[r], lastBlock'[c], sending'[c])
    BY <1>1
  <1>4. QED
    BY <1>2, <1>3 DEF EInv, Exact, Occurrences, Due, Wanted, Wants, Gapless, Reached, IsBlockEvent

\* A block is handled up to the publishing: a later one than the last is the next.
LEMMA HandleBlockExact ==
    ASSUME IInv, OInv, EInv, NEW d \in Dispatchers, HandleBlock(d)
    PROVE  EInv'
  <1>1. Handle(d, "block") /\ UNCHANGED <<sent, since, timeout, list, table, snapshot>> /\ feed' = feed
    BY DEF HandleBlock, regVars, moverVars, Alive, NotPanicked
  <1>2. PICK b \in Blocks : b = Head(queue[d]).number
    BY <1>1, Handled, EventFields DEF IInv
  <1>3. /\ lastBlock \in [Dispatchers -> Blocks \cup {NoBlock}] /\ sending \in [Dispatchers -> Sending]
        /\ infoOnly = [c \in Dispatchers |-> FALSE]
        /\ since \in [Regs -> Blocks \cup {NoBlock}] /\ sent \in [Regs -> Seq(Blocks)]
    BY DEF OInv, OTypes, IInv, Types, EInv, ETypes
  <1>4. PICK l \in Blocks \cup {NoBlock} : l = lastBlock[d]
    BY <1>3
  <1>5. PICK q \in Seq(Events) : q = queue[d] /\ q # <<>> /\ IsBlockEvent(Head(q)) /\ Head(q).number = b
    BY <1>1, <1>2 DEF IInv, Types, Handle, IsBlockEvent
  <1>6. sending[d] = Idle
    BY <1>1, Handled DEF IInv
  <1>7. CASE lastBlock[d] # NoBlock /\ b <= lastBlock[d] /\ UNCHANGED <<lastBlock, infoOnly, sending>>
    <2>1. lastBlock[d] <= l /\ lastBlock' = [lastBlock EXCEPT ![d] = l]
      BY <1>3, <1>4, <1>7, BlocksAssumption DEF Blocks, NoBlock
    <2>2. \A c \in Dispatchers : Gapless(queue'[c], lastBlock'[c], feed'[c])
      BY <1>1, <1>2, <1>4, <1>7, <2>1, GaplessTaken
    <2>3. QED
      BY <1>1, <1>3, <1>7, <2>2, ExactAgain DEF EInv
  <1>8. CASE /\ lastBlock[d] = NoBlock \/ b > lastBlock[d]
             /\ lastBlock' = [lastBlock EXCEPT ![d] = b]
             /\ infoOnly' = [infoOnly EXCEPT ![d] = FALSE]
             /\ sending' = [sending EXCEPT ![d] =
                   IF infoOnly[d] THEN Idle ELSE [block |-> b, loop |-> 0, left |-> {}]]
    <2>1. lastBlock[d] <= b /\ b <= b
      BY <1>4, <1>8, BlocksAssumption DEF Blocks, NoBlock
    <2>2. \A c \in Dispatchers : Gapless(queue'[c], lastBlock'[c], feed'[c])
      BY <1>1, <1>2, <1>8, <2>1, GaplessTaken
    <2>3. infoOnly' = [c \in Dispatchers |-> FALSE]
      BY <1>3, <1>8
    <2>4. b = IF l = NoBlock THEN FirstBlock ELSE l + 1
      <3>1. Gapless(q, l, feed[d]) /\ (l = NoBlock \/ Head(q).number > l)
        BY <1>4, <1>5, <1>8 DEF EInv
      <3>2. QED
        BY <1>5, <3>1, NextBlock
    <2>5. PICK p : p = [block |-> b, loop |-> 0, left |-> {}]
      OBVIOUS
    <2>6. /\ lastBlock'[d] = b /\ sending'[d] = p
          /\ \A c \in Dispatchers : c # d => lastBlock'[c] = lastBlock[c] /\ sending'[c] = sending[c]
      BY <1>3, <1>8, <2>5
    <2>7. ASSUME timeout = "infinite", NEW c \in Dispatchers, NEW r \in Own(c)
          PROVE  Exact(r, sent[r], since[r], lastBlock'[c], sending'[c])
      <3>1. CASE c # d
        BY <2>6, <2>7, <3>1 DEF EInv
      <3>2. CASE c = d
        <4>1. PICK x \in Blocks \cup {NoBlock} : x = since[r]
          BY <1>3, DispatcherHolds
        <4>2. Exact(r, sent[r], x, l, Idle)
          BY <1>4, <1>6, <2>7, <3>2, <4>1 DEF EInv
        <4>3. Exact(r, sent[r], x, b, [block |-> b, loop |-> 0, left |-> {}])
          BY <2>4, <4>2, ExactBlock
        <4>4. QED
          BY <2>5, <2>6, <3>2, <4>1, <4>3
      <3>3. QED
        BY <3>1, <3>2
    <2>8. QED
      BY <1>1, <2>2, <2>3, <2>7, ExactAgain
  <1>9. QED
    BY <1>2, <1>7, <1>8 DEF HandleBlock

\* The next loop is the next one that a registration wants, if it is among its
\* receivers; at the end it has everything.
LEMMA PublishNextExact ==
    ASSUME IInv, OInv, EInv, NEW d \in Dispatchers, PublishNext(d)
    PROVE  EInv'
  <1>1. UNCHANGED <<queue, sent, since, lastBlock, infoOnly, timeout, list, table, snapshot>> /\ feed' = feed
    BY DEF PublishNext, dispVars, regVars, moverVars, Alive, NotPanicked
  <1>2. \A c \in Dispatchers : Gapless(queue'[c], lastBlock'[c], feed'[c])
    BY <1>1 DEF EInv
  <1>3. infoOnly' = [c \in Dispatchers |-> FALSE]
    BY <1>1 DEF EInv, ETypes
  <1>4. PICK p \in Sending : p = sending[d] /\ p # Idle /\ p.left = {}
    BY DEF IInv, Types, PublishNext
  <1>5. PICK b \in Blocks, k \in Nat : b = p.block /\ k = p.loop
    BY <1>4 DEF IInv, Publishing, Sending
  <1>6. b = lastBlock[d]
    BY <1>4, <1>5 DEF OInv, HandledBy
  <1>7. Len(Txs[b]) \in Nat /\ Loops(b) \in Nat
    BY TxsAssumption DEF Loops
  <1>8. sending \in [Dispatchers -> Sending] /\ sent \in [Regs -> Seq(Blocks)] /\ Own(d) \subseteq Regs
    BY DispatcherHolds DEF IInv, Types, OInv, OTypes
  <1>9. ASSUME NEW o, sending' = [sending EXCEPT ![d] = o],
               timeout = "infinite" => \A r \in Own(d) : Exact(r, sent[r], since[r], b, o)
        PROVE  EInv'
    <2>1. sending'[d] = o /\ \A c \in Dispatchers : c # d => sending'[c] = sending[c]
      BY <1>8, <1>9
    <2>2. ASSUME timeout = "infinite", NEW c \in Dispatchers, NEW r \in Own(c)
          PROVE  Exact(r, sent'[r], since[r], lastBlock'[c], sending'[c])
      <3>1. CASE c # d
        BY <1>1, <2>1, <2>2, <3>1 DEF EInv
      <3>2. CASE c = d
        BY <1>1, <1>6, <1>9, <2>1, <2>2, <3>2
      <3>3. QED
        BY <3>1, <3>2
    <2>3. QED
      BY <1>1, <1>2, <1>3, <2>2, ExactAgain
  <1>10. \A r \in Own(d) : timeout = "infinite" => Exact(r, sent[r], since[r], b, p)
    BY <1>4, <1>6 DEF EInv
  <1>11. \A m \in Nat, r \in Own(d) : Wants(r, b, m) => m \in 1..Loops(b) /\ r \in Receivers(d, b, m)
    BY WantersReceive DEF IInv
  <1>12. CASE /\ {n \in (k + 1)..Loops(b) : Receivers(d, b, n) # {}} = {}
              /\ sending' = [sending EXCEPT ![d] = Idle]
    <2>1. ASSUME NEW r \in Own(d), NEW m \in Nat, m > k
          PROVE  ~Wants(r, b, m)
      <3>1. m \in 1..Loops(b) => m \in (k + 1)..Loops(b)
        BY <1>7, <2>1
      <3>2. QED
        BY <1>11, <1>12, <2>1, <3>1
    <2>2. ASSUME timeout = "infinite", NEW r \in Own(d)
          PROVE  Exact(r, sent[r], since[r], b, Idle)
      <3>1. PICK s \in Seq(Blocks) : s = sent[r]
        BY <1>8
      <3>2. Exact(r, s, since[r], b, p) /\ \A m \in Nat : m > k => ~Wants(r, b, m)
        BY <1>10, <2>1, <2>2, <3>1
      <3>3. Exact(r, s, since[r], b, Idle)
        BY <1>4, <1>5, <1>8, <3>2, ExactEnd
      <3>4. QED
        BY <3>1, <3>3
    <2>3. QED
      BY <1>9, <1>12, <2>2
  <1>13. ASSUME NEW n \in (k + 1)..Loops(b),
                \A m \in {h \in (k + 1)..Loops(b) : Receivers(d, b, h) # {}} : n <= m,
                sending' = [sending EXCEPT ![d] = [block |-> b, loop |-> n, left |-> Receivers(d, b, n)]]
         PROVE  EInv'
    <2>1. n \in Nat /\ k < n /\ n \in 1..Loops(b)
      BY <1>7
    <2>2. ASSUME NEW r \in Own(d), NEW m \in (k + 1)..(n - 1)
          PROVE  ~Wants(r, b, m)
      <3>1. m \in Nat /\ m \in (k + 1)..Loops(b) /\ ~(n <= m)
        BY <1>7, <2>1
      <3>2. QED
        BY <1>11, <1>13, <3>1
    <2>3. ASSUME NEW r \in Own(d)
          PROVE  r \in Receivers(d, b, n) <=> Wants(r, b, n)
      BY <1>11, <2>1, ReceiversWant DEF IInv
    <2>4. ASSUME timeout = "infinite", NEW r \in Own(d)
          PROVE  Exact(r, sent[r], since[r], b, [block |-> b, loop |-> n, left |-> Receivers(d, b, n)])
      <3>1. PICK s \in Seq(Blocks) : s = sent[r]
        BY <1>8
      <3>2. PICK R : R = Receivers(d, b, n)
        OBVIOUS
      <3>3. Exact(r, s, since[r], b, p) /\ (r \in R <=> Wants(r, b, n)) /\ \A m \in (k + 1)..(n - 1) : ~Wants(r, b, m)
        BY <1>10, <2>2, <2>3, <2>4, <3>1, <3>2
      <3>4. Exact(r, s, since[r], b, [block |-> b, loop |-> n, left |-> R])
        BY <1>4, <1>5, <2>1, <3>3, ExactNext
      <3>5. QED
        BY <3>1, <3>2, <3>4
    <2>5. QED
      BY <1>9, <1>13, <2>4
  <1>14. QED
    BY <1>4, <1>5, <1>12, <1>13 DEF PublishNext

\* An event is sent, or dropped: never with an infinite timeout.
LEMMA PublishExact ==
    ASSUME IInv, OInv, EInv, NEW d \in Dispatchers, NEW r \in Regs, Publish(d, r) \/ GiveUp(d, r)
    PROVE  EInv'
  <1>1. UNCHANGED <<queue, since, lastBlock, infoOnly, timeout, list, table, snapshot>> /\ feed' = feed
    BY DEF Publish, GiveUp, dispVars, regVars, moverVars, Alive, NotPanicked
  <1>2. \A c \in Dispatchers : Gapless(queue'[c], lastBlock'[c], feed'[c])
    BY <1>1 DEF EInv
  <1>3. infoOnly' = [c \in Dispatchers |-> FALSE]
    BY <1>1 DEF EInv, ETypes
  <1>4. CASE timeout # "infinite"
    BY <1>1, <1>2, <1>3, <1>4, ExactAgain
  <1>5. CASE timeout = "infinite"
    <2>1. Publish(d, r)
      BY <1>5 DEF GiveUp
    <2>2. PICK p \in Sending : p = sending[d] /\ r \in p.left
      BY <2>1 DEF IInv, Types, Publish
    <2>3. p # Idle
      BY <2>2 DEF Idle
    <2>4. PICK b \in Blocks : b = p.block
      BY <2>2, <2>3 DEF IInv, Publishing
    <2>5. sending \in [Dispatchers -> Sending] /\ sent \in [Regs -> Seq(Blocks)]
      BY DEF IInv, Types, OInv, OTypes
    <2>6. r \in Own(d) /\ ~chanClosed[r]
      BY <2>2 DEF IInv, Held
    <2>7. sent' = [sent EXCEPT ![r] = Append(sent[r], b)]
      BY <2>1, <2>2, <2>4, <2>6 DEF Publish
    <2>8. PICK o : o = [p EXCEPT !.left = @ \ {r}]
      OBVIOUS
    <2>9. o.block = b /\ o.loop = p.loop /\ o.left = p.left \ {r}
      BY <2>4, <2>8 DEF Sending
    <2>10. sending'[d] = o /\ \A c \in Dispatchers : c # d => sending'[c] = sending[c]
      BY <2>1, <2>2, <2>5, <2>8 DEF Publish
    <2>11. \A c \in Dispatchers : Own(c) \subseteq Regs /\ (c # d => r \notin Own(c))
      BY <2>6, DispatcherHolds DEF IInv, Held
    <2>12. ASSUME NEW c \in Dispatchers, NEW q \in Own(c)
           PROVE  Exact(q, sent'[q], since[q], lastBlock'[c], sending'[c])
      <3>1. CASE c # d
        <4>1. sent'[q] = sent[q] /\ sending'[c] = sending[c] /\ lastBlock'[c] = lastBlock[c]
          BY <1>1, <2>5, <2>7, <2>10, <2>11, <3>1
        <4>2. QED
          BY <1>5, <4>1 DEF EInv
      <3>2. CASE c = d
        <4>1. PICK s \in Seq(Blocks) : s = sent[q]
          BY <2>5, <2>11
        <4>2. Exact(q, s, since[q], lastBlock[d], p) /\ q \in Regs
          BY <1>5, <2>2, <2>11, <3>2, <4>1 DEF EInv
        <4>3. Exact(q, IF q = r THEN Append(s, b) ELSE s, since[q], lastBlock[d], o)
          BY <2>2, <2>3, <2>4, <2>9, <4>2, ExactSent
        <4>4. sent'[q] = IF q = r THEN Append(s, b) ELSE s
          BY <2>5, <2>7, <4>1, <4>2
        <4>5. QED
          BY <1>1, <2>10, <3>2, <4>3, <4>4
      <3>3. QED
        BY <3>1, <3>2
    <2>13. QED
      BY <1>1, <1>2, <1>3, <2>12, ExactAgain
  <1>6. QED
    BY <1>4, <1>5

\* In the beginning nothing is due, and the event server sends the first block first.
LEMMA InitExact == ASSUME InfoOnlyOptions = {FALSE} PROVE Init => EInv
  <1>1. SUFFICES ASSUME Init
                 PROVE  EInv
    OBVIOUS
  <1>2. ETypes
    BY <1>1, BlocksAssumption DEF Init, ETypes
  <1>3. ASSUME NEW d \in Dispatchers
        PROVE  Gapless(queue[d], lastBlock[d], feed[d])
    <2>1. queue[d] = <<>> /\ feed[d] = FirstBlock - 1
      BY <1>1 DEF Init
    <2>2. feed[d] + 1 <= FirstBlock
      BY <2>1, BlocksAssumption
    <2>3. Len(queue[d]) = 0
      BY <2>1
    <2>4. QED
      BY <2>2, <2>3 DEF Gapless, Reached
  <1>4. ASSUME NEW d \in Dispatchers
        PROVE  Own(d) = {}
    BY <1>1, NobodyRegistered DEF Init, Own
  <1>5. QED
    BY <1>2, <1>3, <1>4 DEF EInv

\* Every step of a single service keeps it.
LEMMA StepExact == ASSUME Services = 1 PROVE IInv /\ OInv /\ EInv /\ [Next]_vars => EInv'
  <1>1. SUFFICES ASSUME IInv, OInv, EInv, [Next]_vars
                 PROVE  EInv'
    OBVIOUS
  <1>2. CASE UNCHANGED vars
    <2>1. UNCHANGED <<queue, sent, since, lastBlock, sending, infoOnly, timeout, list, table, snapshot, feed>>
      BY <1>2 DEF vars
    <2>2. /\ feed' \in [Dispatchers -> Int]
          /\ \A c \in Dispatchers : Gapless(queue'[c], lastBlock'[c], feed'[c])
      BY <1>1, <2>1 DEF EInv, ETypes
    <2>3. QED
      BY <1>1, <2>1, <2>2, QuietExact
  <1>3. CASE Move
    <2>1. current = 1 /\ mover = "idle" /\ ~(current < Services)
      BY <1>1 DEF IInv, Types, Moving, Dispatchers
    <2>2. QED
      BY <1>3, <2>1 DEF Move, MoveStart, MoveSend, MoveTimesOut, Start
  <1>4. ASSUME NEW d \in Dispatchers, Dispatch(d)
        PROVE  EInv'
    BY <1>1, <1>4, HandleRegisterExact, HandleUnregisterExact, HandleBlockExact, PublishNextExact, PublishExact,
       HandleStopExact DEF Dispatch
  <1>5. QED
    BY <1>1, <1>2, <1>3, <1>4, ConsumerExact, FeedExact DEF Next

\* One service that was asked to publish every block it receives, however slow its
\* consumers are: with the consumer timeout that "will block and guarantee the
\* event will be sent out", each of them was sent exactly the events of the blocks
\* handled since it registered, once, whatever other registrations came and went
\* and whatever blocks the event server repeated after a reconnect.
THEOREM OneServiceSendsExactly ==
    ASSUME Services = 1, InfoOnlyOptions = {FALSE}
    PROVE  Spec => []SentExactly
  <1>1. IInv /\ OInv /\ EInv => SentExactly
    <2>1. SUFFICES ASSUME IInv, OInv, EInv, timeout = "infinite", NEW r \in Regs
                   PROVE  /\ Kept(r)
                          /\ \A d \in Owners(r), b \in Blocks : b # sending[d].block =>
                                Times(r, b) = IF b > since[r] /\ b <= lastBlock[d] THEN Due(r, b) ELSE 0
      BY DEF SentExactly
    <2>2. Kept(r)
      BY <2>1 DEF IInv, Held, Kept, Owners, InSnapshot, Own, Snapped
    <2>3. ASSUME NEW d \in Owners(r), NEW b \in Blocks, b # sending[d].block
          PROVE  Times(r, b) = IF b > since[r] /\ b <= lastBlock[d] THEN Due(r, b) ELSE 0
      <3>1. d \in Dispatchers /\ r \in Own(d)
        BY DEF Owners, Own
      <3>2. Exact(r, sent[r], since[r], lastBlock[d], sending[d])
        BY <2>1, <3>1 DEF EInv
      <3>3. QED
        BY <2>3, <3>2 DEF Exact, Times, Occurrences
    <2>4. QED
      BY <2>2, <2>3
  <1>2. Init => IInv /\ OInv /\ EInv
    BY InitInvariant, InitOrder, InitExact
  <1>3. (IInv /\ OInv /\ EInv) /\ [Next]_vars => (IInv /\ OInv /\ EInv)'
    BY StepInvariant, StepOrder, StepExact
  <1>4. QED
    BY <1>1, <1>2, <1>3, PTL DEF Spec
=============================================================================
