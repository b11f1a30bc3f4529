----------------------- MODULE CachingConnectorProofs -----------------------
(***************************************************************************)
(* The safety properties of CachingConnector, for any number of threads,   *)
(* closers, targets and connections.                                       *)
(***************************************************************************)
EXTENDS CachingConnector, FiniteSetTheorems, TLAPS

\* The initial state has the types.
LEMMA InitType == Init => TypeOK
<1> SUFFICES ASSUME Init PROVE TypeOK
  OBVIOUS
<1>1. (CHOOSE t \in Targets : TRUE) \in Targets
  BY TargetsAssumption DEF TargetsAssumption
<1>2. target \in [Conn -> Targets]
  BY <1>1 DEF Init
<1>3. idle \in [Conn -> BOOLEAN] /\ state \in [Conn -> ConnStates]
  BY DEF Init, ConnStates
<1> QED
  BY <1>2, <1>3 DEF Init, TypeOK

\* A release never makes a counter negative.
LEMMA SetClosedType ==
    ASSUME open \in [Conn -> Nat], NEW c, SetClosed(c)
    PROVE  open' \in [Conn -> Nat]
<1>1. CASE c \in Conn
  <2>1. open[c] \in Nat
    BY <1>1
  <2>2. (IF open[c] > 0 THEN open[c] - 1 ELSE open[c]) \in Nat
    BY <2>1
  <2> QED
    BY <1>1, <2>2 DEF SetClosed
<1>2. CASE c \notin Conn
  BY <1>2 DEF SetClosed
<1> QED
  BY <1>1, <1>2

\* Starting a janitor keeps the counts of janitors.
LEMMA EnsureJanitorStartedType ==
    ASSUME looping \in Nat, leaving \in Nat, EnsureJanitorStarted
    PROVE  looping' \in Nat /\ leaving' \in Nat
  BY DEF EnsureJanitorStarted

\* Every step keeps the types.
LEMMA TypeStep ==
    ASSUME TypeOK, [Next]_vars
    PROVE  TypeOK'
<1> USE DEF connVars, janitorVars, threadVars, Alive, closed, TypeOK, ConnStates
<1>1. ASSUME NEW p \in Threads, NEW t \in Targets, DialCached(p, t)
      PROVE  TypeOK'
  <2>1. open' \in [Conn -> Nat]
    BY <1>1, NoConnAssumption DEF DialCached, Usable
  <2>2. pc' \in [Threads -> {"out", "opening", "opened", "failed", "using"}]
    BY <1>1, NoConnAssumption DEF DialCached, Usable
  <2>3. held' \in [Threads -> Conn \cup {NoConn}]
    BY <1>1, NoConnAssumption DEF DialCached, Usable
  <2> QED
    BY <1>1, <2>1, <2>2, <2>3 DEF DialCached, Usable
<1>2. ASSUME NEW p \in Threads, NEW t \in Targets, NEW c \in Conn, DialNew(p, t, c)
      PROVE  TypeOK'
  <2>1. conns' \in [Targets -> Conn \cup {NoConn}]
    BY <1>2 DEF DialNew, Usable, ShutdownConn, EnsureJanitorStarted
  <2>2. index' \in SUBSET Conn
    BY <1>2 DEF DialNew, Usable, ShutdownConn, EnsureJanitorStarted
  <2>3. target' \in [Conn -> Targets]
    BY <1>2 DEF DialNew, Usable, ShutdownConn, EnsureJanitorStarted
  <2>4. open' \in [Conn -> Nat]
    BY <1>2 DEF DialNew, Usable, ShutdownConn, EnsureJanitorStarted
  <2>5. state' \in [Conn -> ConnStates]
    BY <1>2 DEF DialNew, Usable, ShutdownConn, EnsureJanitorStarted
  <2>6. janitorDone' \in {"empty", "full", "nil"} /\ janitorClosed' \in {"empty", "full", "closed"}
    BY <1>2 DEF DialNew, Usable, ShutdownConn, EnsureJanitorStarted
  <2>7. looping' \in Nat /\ leaving' \in Nat
    BY <1>2 DEF DialNew, Usable, ShutdownConn, EnsureJanitorStarted
  <2>8. pc' \in [Threads -> {"out", "opening", "opened", "failed", "using"}]
    BY <1>2 DEF DialNew, Usable, ShutdownConn, EnsureJanitorStarted
  <2>9. held' \in [Threads -> Conn \cup {NoConn}]
    BY <1>2 DEF DialNew, Usable, ShutdownConn, EnsureJanitorStarted
  <2> QED
    BY <1>2, <2>1, <2>2, <2>3, <2>4, <2>5, <2>6, <2>7, <2>8, <2>9 DEF DialNew, Usable, ShutdownConn, EnsureJanitorStarted
<1>3. ASSUME NEW p \in Threads, NEW t \in Targets, DialError(p, t)
      PROVE  TypeOK'
  <2>1. conns' \in [Targets -> Conn \cup {NoConn}]
    BY <1>3 DEF DialError, Usable, ShutdownConn, EnsureJanitorStarted
  <2>2. index' \in SUBSET Conn
    BY <1>3 DEF DialError, Usable, ShutdownConn, EnsureJanitorStarted
  <2>3. janitorDone' \in {"empty", "full", "nil"} /\ janitorClosed' \in {"empty", "full", "closed"}
    BY <1>3 DEF DialError, Usable, ShutdownConn, EnsureJanitorStarted
  <2>4. looping' \in Nat /\ leaving' \in Nat
    BY <1>3 DEF DialError, Usable, ShutdownConn, EnsureJanitorStarted
  <2> QED
    BY <1>3, <2>1, <2>2, <2>3, <2>4 DEF DialError, Usable, ShutdownConn, EnsureJanitorStarted
<1>4. ASSUME NEW p \in Threads, WaitReady(p)
      PROVE  TypeOK'
  BY <1>4 DEF WaitReady
<1>5. ASSUME NEW p \in Threads, WaitFails(p)
      PROVE  TypeOK'
  BY <1>5 DEF WaitFails
<1>6. ASSUME NEW p \in Threads, OpenConn(p)
      PROVE  TypeOK'
  <2>1. pc' \in [Threads -> {"out", "opening", "opened", "failed", "using"}]
    BY <1>6 DEF OpenConn, EnsureJanitorStarted
  <2>2. janitorDone' \in {"empty", "full", "nil"} /\ janitorClosed' \in {"empty", "full", "closed"}
    BY <1>6 DEF OpenConn, EnsureJanitorStarted
  <2>3. looping' \in Nat /\ leaving' \in Nat
    BY <1>6 DEF OpenConn, EnsureJanitorStarted
  <2> QED
    BY <1>6, <2>1, <2>2, <2>3 DEF OpenConn, EnsureJanitorStarted
<1>7. ASSUME NEW p \in Threads, DialRemove(p)
      PROVE  TypeOK'
  <2>1. conns' \in [Targets -> Conn \cup {NoConn}]
    BY <1>7 DEF DialRemove, SetClosed, RemoveConns
  <2>2. index' \in SUBSET Conn
    BY <1>7 DEF DialRemove, SetClosed, RemoveConns
  <2>3. open' \in [Conn -> Nat]
    BY <1>7, SetClosedType DEF DialRemove
  <2>4. idle' \in [Conn -> BOOLEAN]
    BY <1>7 DEF DialRemove, SetClosed, RemoveConns
  <2>5. state' \in [Conn -> ConnStates]
    BY <1>7 DEF DialRemove, SetClosed, RemoveConns
  <2>6. pc' \in [Threads -> {"out", "opening", "opened", "failed", "using"}]
    BY <1>7 DEF DialRemove, SetClosed, RemoveConns
  <2>7. held' \in [Threads -> Conn \cup {NoConn}]
    BY <1>7 DEF DialRemove, SetClosed, RemoveConns
  <2> QED
    BY <1>7, <2>1, <2>2, <2>3, <2>4, <2>5, <2>6, <2>7 DEF DialRemove, SetClosed, RemoveConns
<1>8. ASSUME NEW p \in Threads, ReleaseConn(p)
      PROVE  TypeOK'
  <2>1. open' \in [Conn -> Nat]
    BY <1>8, SetClosedType DEF ReleaseConn
  <2>2. idle' \in [Conn -> BOOLEAN]
    BY <1>8 DEF ReleaseConn, SetClosed, EnsureJanitorStarted
  <2>3. state' \in [Conn -> ConnStates]
    BY <1>8 DEF ReleaseConn, SetClosed, EnsureJanitorStarted
  <2>4. janitorDone' \in {"empty", "full", "nil"} /\ janitorClosed' \in {"empty", "full", "closed"}
    BY <1>8 DEF ReleaseConn, SetClosed, EnsureJanitorStarted
  <2>5. looping' \in Nat /\ leaving' \in Nat
    BY <1>8, EnsureJanitorStartedType DEF ReleaseConn
  <2>6. pc' \in [Threads -> {"out", "opening", "opened", "failed", "using"}]
    BY <1>8 DEF ReleaseConn, SetClosed, EnsureJanitorStarted
  <2>7. held' \in [Threads -> Conn \cup {NoConn}]
    BY <1>8 DEF ReleaseConn, SetClosed, EnsureJanitorStarted
  <2> QED
    BY <1>8, <2>1, <2>2, <2>3, <2>4, <2>5, <2>6, <2>7 DEF ReleaseConn, SetClosed, EnsureJanitorStarted
<1>9. ASSUME NEW p \in Threads, UserCloses(p)
      PROVE  TypeOK'
  BY <1>9 DEF UserCloses
<1>10. ASSUME NEW k \in Closers, CloseStart(k)
      PROVE  TypeOK'
  BY <1>10 DEF CloseStart
<1>11. ASSUME NEW k \in Closers, CloseSelect(k)
      PROVE  TypeOK'
  BY <1>11 DEF CloseSelect
<1>12. ASSUME NEW k \in Closers, CloseSend(k)
      PROVE  TypeOK'
  BY <1>12 DEF CloseSend
<1>13. ASSUME NEW k \in Closers, CloseWait(k)
      PROVE  TypeOK'
  BY <1>13 DEF CloseWait
<1>14. ASSUME NEW k \in Closers, CloseFlush(k)
      PROVE  TypeOK'
  BY <1>14 DEF CloseFlush
<1>15. CASE JanitorSweep
  <2>1. conns' \in [Targets -> Conn \cup {NoConn}]
    BY <1>15 DEF JanitorSweep, RemoveConns, Swept
  <2>2. index' \in SUBSET Conn
    BY <1>15 DEF JanitorSweep, RemoveConns, Swept
  <2>3. state' \in [Conn -> ConnStates]
    BY <1>15 DEF JanitorSweep, RemoveConns, Swept
  <2>4. looping' \in Nat /\ leaving' \in Nat
    BY <1>15 DEF JanitorSweep, RemoveConns, Swept
  <2> QED
    BY <1>15, <2>1, <2>2, <2>3, <2>4 DEF JanitorSweep, RemoveConns, Swept
<1>16. CASE JanitorLeave
  BY <1>16 DEF JanitorLeave
<1>17. CASE JanitorStop
  <2>1. looping' \in Nat /\ leaving' \in Nat
    BY <1>17 DEF JanitorStop
  <2>2. janitorDone' \in {"empty", "full", "nil"} /\ janitorClosed' \in {"empty", "full", "closed"}
    BY <1>17 DEF JanitorStop
  <2> QED
    BY <1>17, <2>1, <2>2 DEF JanitorStop
<1>18. ASSUME NEW c \in Conn, IdleTimePasses(c)
      PROVE  TypeOK'
  BY <1>18 DEF IdleTimePasses
<1>19. ASSUME NEW c \in Conn, NEW s \in ConnStates, StateChange(c, s)
      PROVE  TypeOK'
  BY <1>19 DEF StateChange, Connectivity, ConnStates
<1>20. CASE UNCHANGED vars
  BY <1>20 DEF vars
<1> QED
  BY <1>1, <1>2, <1>3, <1>4, <1>5, <1>6, <1>7, <1>8, <1>9, <1>10, <1>11, <1>12, <1>13, <1>14, <1>15, <1>16, <1>17, <1>18, <1>19, <1>20
  DEF Next, Thread, Closer, Janitor, Environment

\* Connections are created before they are cached, and never cease to exist.
LEMMA FreshStep ==
    ASSUME TypeOK, Fresh, [Next]_vars
    PROVE  Fresh'
<1> USE DEF connVars, janitorVars, threadVars, Alive, closed, TypeOK, ConnStates, Fresh
<1>1. ASSUME NEW p \in Threads, NEW t \in Targets, DialCached(p, t)
      PROVE  Fresh'
  BY <1>1 DEF DialCached, Usable
<1>2. ASSUME NEW p \in Threads, NEW t \in Targets, NEW c \in Conn, DialNew(p, t, c)
      PROVE  Fresh'
  BY <1>2 DEF DialNew, Usable, ShutdownConn, EnsureJanitorStarted
<1>3. ASSUME NEW p \in Threads, NEW t \in Targets, DialError(p, t)
      PROVE  Fresh'
  BY <1>3 DEF DialError, Usable, ShutdownConn, EnsureJanitorStarted
<1>4. ASSUME NEW p \in Threads, WaitReady(p)
      PROVE  Fresh'
  BY <1>4 DEF WaitReady
<1>5. ASSUME NEW p \in Threads, WaitFails(p)
      PROVE  Fresh'
  BY <1>5 DEF WaitFails
<1>6. ASSUME NEW p \in Threads, OpenConn(p)
      PROVE  Fresh'
  BY <1>6 DEF OpenConn, EnsureJanitorStarted
<1>7. ASSUME NEW p \in Threads, DialRemove(p)
      PROVE  Fresh'
  BY <1>7 DEF DialRemove, SetClosed, RemoveConns
<1>8. ASSUME NEW p \in Threads, ReleaseConn(p)
      PROVE  Fresh'
  BY <1>8 DEF ReleaseConn, SetClosed, EnsureJanitorStarted
<1>9. ASSUME NEW p \in Threads, UserCloses(p)
      PROVE  Fresh'
  BY <1>9 DEF UserCloses
<1>10. ASSUME NEW k \in Closers, CloseStart(k)
      PROVE  Fresh'
  BY <1>10 DEF CloseStart
<1>11. ASSUME NEW k \in Closers, CloseSelect(k)
      PROVE  Fresh'
  BY <1>11 DEF CloseSelect
<1>12. ASSUME NEW k \in Closers, CloseSend(k)
      PROVE  Fresh'
  BY <1>12 DEF CloseSend
<1>13. ASSUME NEW k \in Closers, CloseWait(k)
      PROVE  Fresh'
  BY <1>13 DEF CloseWait
<1>14. ASSUME NEW k \in Closers, CloseFlush(k)
      PROVE  Fresh'
  BY <1>14 DEF CloseFlush
<1>15. CASE JanitorSweep
  BY <1>15 DEF JanitorSweep, RemoveConns, Swept
<1>16. CASE JanitorLeave
  BY <1>16 DEF JanitorLeave
<1>17. CASE JanitorStop
  BY <1>17 DEF JanitorStop
<1>18. ASSUME NEW c \in Conn, IdleTimePasses(c)
      PROVE  Fresh'
  BY <1>18 DEF IdleTimePasses
<1>19. ASSUME NEW c \in Conn, NEW s \in ConnStates, StateChange(c, s)
      PROVE  Fresh'
  BY <1>19 DEF StateChange, Connectivity, ConnStates
<1>20. CASE UNCHANGED vars
  BY <1>20 DEF vars
<1> QED
  BY <1>1, <1>2, <1>3, <1>4, <1>5, <1>6, <1>7, <1>8, <1>9, <1>10, <1>11, <1>12, <1>13, <1>14, <1>15, <1>16, <1>17, <1>18, <1>19, <1>20
  DEF Next, Thread, Closer, Janitor, Environment

\* A thread takes a connection when it dials and gives it back when it is done.
LEMMA HeldStep ==
    ASSUME TypeOK, HeldExists, CacheConsistent, Fresh, [Next]_vars
    PROVE  HeldExists'
<1> USE DEF connVars, janitorVars, threadVars, Alive, closed, TypeOK, ConnStates, HeldExists, CacheConsistent, Fresh
<1>1. ASSUME NEW p \in Threads, NEW t \in Targets, DialCached(p, t)
      PROVE  HeldExists'
  BY <1>1, NoConnAssumption DEF DialCached, Usable
<1>2. ASSUME NEW p \in Threads, NEW t \in Targets, NEW c \in Conn, DialNew(p, t, c)
      PROVE  HeldExists'
  BY <1>2, NoConnAssumption DEF DialNew, Usable, ShutdownConn, EnsureJanitorStarted
<1>3. ASSUME NEW p \in Threads, NEW t \in Targets, DialError(p, t)
      PROVE  HeldExists'
  BY <1>3, NoConnAssumption DEF DialError, Usable, ShutdownConn, EnsureJanitorStarted
<1>4. ASSUME NEW p \in Threads, WaitReady(p)
      PROVE  HeldExists'
  BY <1>4, NoConnAssumption DEF WaitReady
<1>5. ASSUME NEW p \in Threads, WaitFails(p)
      PROVE  HeldExists'
  BY <1>5, NoConnAssumption DEF WaitFails
<1>6. ASSUME NEW p \in Threads, OpenConn(p)
      PROVE  HeldExists'
  BY <1>6, NoConnAssumption DEF OpenConn, EnsureJanitorStarted
<1>7. ASSUME NEW p \in Threads, DialRemove(p)
      PROVE  HeldExists'
  BY <1>7, NoConnAssumption DEF DialRemove, SetClosed, RemoveConns
<1>8. ASSUME NEW p \in Threads, ReleaseConn(p)
      PROVE  HeldExists'
  <2>1. pc' = [pc EXCEPT ![p] = "out"] /\ held' = [held EXCEPT ![p] = NoConn]
    BY <1>8 DEF ReleaseConn
  <2>2. \A c \in Conn : state[c] # "none" => state'[c] # "none"
    BY <1>8 DEF ReleaseConn
  <2> QED
    BY <2>1, <2>2, NoConnAssumption
<1>9. ASSUME NEW p \in Threads, UserCloses(p)
      PROVE  HeldExists'
  BY <1>9, NoConnAssumption DEF UserCloses
<1>10. ASSUME NEW k \in Closers, CloseStart(k)
      PROVE  HeldExists'
  BY <1>10, NoConnAssumption DEF CloseStart
<1>11. ASSUME NEW k \in Closers, CloseSelect(k)
      PROVE  HeldExists'
  BY <1>11, NoConnAssumption DEF CloseSelect
<1>12. ASSUME NEW k \in Closers, CloseSend(k)
      PROVE  HeldExists'
  BY <1>12, NoConnAssumption DEF CloseSend
<1>13. ASSUME NEW k \in Closers, CloseWait(k)
      PROVE  HeldExists'
  BY <1>13, NoConnAssumption DEF CloseWait
<1>14. ASSUME NEW k \in Closers, CloseFlush(k)
      PROVE  HeldExists'
  BY <1>14, NoConnAssumption DEF CloseFlush
<1>15. CASE JanitorSweep
  BY <1>15, NoConnAssumption DEF JanitorSweep, RemoveConns, Swept
<1>16. CASE JanitorLeave
  BY <1>16, NoConnAssumption DEF JanitorLeave
<1>17. CASE JanitorStop
  BY <1>17, NoConnAssumption DEF JanitorStop
<1>18. ASSUME NEW c \in Conn, IdleTimePasses(c)
      PROVE  HeldExists'
  BY <1>18, NoConnAssumption DEF IdleTimePasses
<1>19. ASSUME NEW c \in Conn, NEW s \in ConnStates, StateChange(c, s)
      PROVE  HeldExists'
  BY <1>19, NoConnAssumption DEF StateChange, Connectivity, ConnStates
<1>20. CASE UNCHANGED vars
  BY <1>20 DEF vars
<1> QED
  BY <1>1, <1>2, <1>3, <1>4, <1>5, <1>6, <1>7, <1>8, <1>9, <1>10, <1>11, <1>12, <1>13, <1>14, <1>15, <1>16, <1>17, <1>18, <1>19, <1>20
  DEF Next, Thread, Closer, Janitor, Environment

\* What leaves the index is shut down, and Close shuts down what is in it.
LEMMA NoLeakStep ==
    ASSUME TypeOK, NoLeak, [Next]_vars
    PROVE  NoLeak'
<1> USE DEF connVars, janitorVars, threadVars, Alive, closed, TypeOK, ConnStates, NoLeak
<1>1. ASSUME NEW p \in Threads, NEW t \in Targets, DialCached(p, t)
      PROVE  NoLeak'
  BY <1>1, NoConnAssumption DEF DialCached, Usable
<1>2. ASSUME NEW p \in Threads, NEW t \in Targets, NEW c \in Conn, DialNew(p, t, c)
      PROVE  NoLeak'
  BY <1>2, NoConnAssumption DEF DialNew, Usable, ShutdownConn, EnsureJanitorStarted
<1>3. ASSUME NEW p \in Threads, NEW t \in Targets, DialError(p, t)
      PROVE  NoLeak'
  BY <1>3, NoConnAssumption DEF DialError, Usable, ShutdownConn, EnsureJanitorStarted
<1>4. ASSUME NEW p \in Threads, WaitReady(p)
      PROVE  NoLeak'
  BY <1>4, NoConnAssumption DEF WaitReady
<1>5. ASSUME NEW p \in Threads, WaitFails(p)
      PROVE  NoLeak'
  BY <1>5, NoConnAssumption DEF WaitFails
<1>6. ASSUME NEW p \in Threads, OpenConn(p)
      PROVE  NoLeak'
  BY <1>6, NoConnAssumption DEF OpenConn, EnsureJanitorStarted
<1>7. ASSUME NEW p \in Threads, DialRemove(p)
      PROVE  NoLeak'
  BY <1>7, NoConnAssumption DEF DialRemove, SetClosed, RemoveConns
<1>8. ASSUME NEW p \in Threads, ReleaseConn(p)
      PROVE  NoLeak'
  BY <1>8, NoConnAssumption DEF ReleaseConn, SetClosed, EnsureJanitorStarted
<1>9. ASSUME NEW p \in Threads, UserCloses(p)
      PROVE  NoLeak'
  BY <1>9, NoConnAssumption DEF UserCloses
<1>10. ASSUME NEW k \in Closers, CloseStart(k)
      PROVE  NoLeak'
  BY <1>10, NoConnAssumption DEF CloseStart
<1>11. ASSUME NEW k \in Closers, CloseSelect(k)
      PROVE  NoLeak'
  BY <1>11, NoConnAssumption DEF CloseSelect
<1>12. ASSUME NEW k \in Closers, CloseSend(k)
      PROVE  NoLeak'
  BY <1>12, NoConnAssumption DEF CloseSend
<1>13. ASSUME NEW k \in Closers, CloseWait(k)
      PROVE  NoLeak'
  BY <1>13, NoConnAssumption DEF CloseWait
<1>14. ASSUME NEW k \in Closers, CloseFlush(k)
      PROVE  NoLeak'
  BY <1>14, NoConnAssumption DEF CloseFlush
<1>15. CASE JanitorSweep
  BY <1>15, NoConnAssumption DEF JanitorSweep, RemoveConns, Swept
<1>16. CASE JanitorLeave
  BY <1>16, NoConnAssumption DEF JanitorLeave
<1>17. CASE JanitorStop
  BY <1>17, NoConnAssumption DEF JanitorStop
<1>18. ASSUME NEW c \in Conn, IdleTimePasses(c)
      PROVE  NoLeak'
  BY <1>18, NoConnAssumption DEF IdleTimePasses
<1>19. ASSUME NEW c \in Conn, NEW s \in ConnStates, StateChange(c, s)
      PROVE  NoLeak'
  BY <1>19, NoConnAssumption DEF StateChange, Connectivity, ConnStates
<1>20. CASE UNCHANGED vars
  BY <1>20 DEF vars
<1> QED
  BY <1>1, <1>2, <1>3, <1>4, <1>5, <1>6, <1>7, <1>8, <1>9, <1>10, <1>11, <1>12, <1>13, <1>14, <1>15, <1>16, <1>17, <1>18, <1>19, <1>20
  DEF Next, Thread, Closer, Janitor, Environment

\* The two maps agree: an entry leaves both, and a new one enters both.
LEMMA CacheStep ==
    ASSUME TypeOK, CacheConsistent, Fresh, [Next]_vars
    PROVE  CacheConsistent'
<1> USE DEF connVars, janitorVars, threadVars, Alive, closed, TypeOK, ConnStates, CacheConsistent, Fresh
<1>1. ASSUME NEW p \in Threads, NEW t \in Targets, DialCached(p, t)
      PROVE  CacheConsistent'
  BY <1>1, NoConnAssumption DEF DialCached, Usable
<1>2. ASSUME NEW p \in Threads, NEW t \in Targets, NEW c \in Conn, DialNew(p, t, c)
      PROVE  CacheConsistent'
  BY <1>2, NoConnAssumption DEF DialNew, Usable, ShutdownConn, EnsureJanitorStarted
<1>3. ASSUME NEW p \in Threads, NEW t \in Targets, DialError(p, t)
      PROVE  CacheConsistent'
  BY <1>3, NoConnAssumption DEF DialError, Usable, ShutdownConn, EnsureJanitorStarted
<1>4. ASSUME NEW p \in Threads, WaitReady(p)
      PROVE  CacheConsistent'
  BY <1>4, NoConnAssumption DEF WaitReady
<1>5. ASSUME NEW p \in Threads, WaitFails(p)
      PROVE  CacheConsistent'
  BY <1>5, NoConnAssumption DEF WaitFails
<1>6. ASSUME NEW p \in Threads, OpenConn(p)
      PROVE  CacheConsistent'
  BY <1>6, NoConnAssumption DEF OpenConn, EnsureJanitorStarted
<1>7. ASSUME NEW p \in Threads, DialRemove(p)
      PROVE  CacheConsistent'
  BY <1>7, NoConnAssumption DEF DialRemove, SetClosed, RemoveConns
<1>8. ASSUME NEW p \in Threads, ReleaseConn(p)
      PROVE  CacheConsistent'
  BY <1>8, NoConnAssumption DEF ReleaseConn, SetClosed, EnsureJanitorStarted
<1>9. ASSUME NEW p \in Threads, UserCloses(p)
      PROVE  CacheConsistent'
  BY <1>9, NoConnAssumption DEF UserCloses
<1>10. ASSUME NEW k \in Closers, CloseStart(k)
      PROVE  CacheConsistent'
  BY <1>10, NoConnAssumption DEF CloseStart
<1>11. ASSUME NEW k \in Closers, CloseSelect(k)
      PROVE  CacheConsistent'
  BY <1>11, NoConnAssumption DEF CloseSelect
<1>12. ASSUME NEW k \in Closers, CloseSend(k)
      PROVE  CacheConsistent'
  BY <1>12, NoConnAssumption DEF CloseSend
<1>13. ASSUME NEW k \in Closers, CloseWait(k)
      PROVE  CacheConsistent'
  BY <1>13, NoConnAssumption DEF CloseWait
<1>14. ASSUME NEW k \in Closers, CloseFlush(k)
      PROVE  CacheConsistent'
  BY <1>14, NoConnAssumption DEF CloseFlush
<1>15. CASE JanitorSweep
  BY <1>15, NoConnAssumption DEF JanitorSweep, RemoveConns, Swept
<1>16. CASE JanitorLeave
  BY <1>16, NoConnAssumption DEF JanitorLeave
<1>17. CASE JanitorStop
  BY <1>17, NoConnAssumption DEF JanitorStop
<1>18. ASSUME NEW c \in Conn, IdleTimePasses(c)
      PROVE  CacheConsistent'
  BY <1>18, NoConnAssumption DEF IdleTimePasses
<1>19. ASSUME NEW c \in Conn, NEW s \in ConnStates, StateChange(c, s)
      PROVE  CacheConsistent'
  BY <1>19, NoConnAssumption DEF StateChange, Connectivity, ConnStates
<1>20. CASE UNCHANGED vars
  BY <1>20 DEF vars
<1> QED
  BY <1>1, <1>2, <1>3, <1>4, <1>5, <1>6, <1>7, <1>8, <1>9, <1>10, <1>11, <1>12, <1>13, <1>14, <1>15, <1>16, <1>17, <1>18, <1>19, <1>20
  DEF Next, Thread, Closer, Janitor, Environment

\* The token is passed on, never doubled.
LEMMA TokenStep ==
    ASSUME TypeOK, OneToken, ChannelsClosed, [Next]_vars
    PROVE  (OneToken /\ ChannelsClosed)'
<1> USE DEF connVars, janitorVars, threadVars, Alive, closed, TypeOK, OneToken, ChannelsClosed
<1>1. ASSUME NEW p \in Threads, NEW t \in Targets, DialCached(p, t)
      PROVE  (OneToken /\ ChannelsClosed)'
  BY <1>1 DEF DialCached, Usable
<1>2. ASSUME NEW p \in Threads, NEW t \in Targets, NEW c \in Conn, DialNew(p, t, c)
      PROVE  (OneToken /\ ChannelsClosed)'
  BY <1>2 DEF DialNew, Usable, ShutdownConn, EnsureJanitorStarted
<1>3. ASSUME NEW p \in Threads, NEW t \in Targets, DialError(p, t)
      PROVE  (OneToken /\ ChannelsClosed)'
  BY <1>3 DEF DialError, Usable, ShutdownConn, EnsureJanitorStarted
<1>4. ASSUME NEW p \in Threads, WaitReady(p)
      PROVE  (OneToken /\ ChannelsClosed)'
  BY <1>4 DEF WaitReady
<1>5. ASSUME NEW p \in Threads, WaitFails(p)
      PROVE  (OneToken /\ ChannelsClosed)'
  BY <1>5 DEF WaitFails
<1>6. ASSUME NEW p \in Threads, OpenConn(p)
      PROVE  (OneToken /\ ChannelsClosed)'
  BY <1>6 DEF OpenConn, EnsureJanitorStarted
<1>7. ASSUME NEW p \in Threads, DialRemove(p)
      PROVE  (OneToken /\ ChannelsClosed)'
  BY <1>7 DEF DialRemove, SetClosed, RemoveConns
<1>8. ASSUME NEW p \in Threads, ReleaseConn(p)
      PROVE  (OneToken /\ ChannelsClosed)'
  <2>1. CASE UNCHANGED janitorVars
    BY <2>1
  <2>2. CASE EnsureJanitorStarted
    BY <2>2 DEF EnsureJanitorStarted
  <2> QED
    BY <1>8, <2>1, <2>2 DEF ReleaseConn
<1>9. ASSUME NEW p \in Threads, UserCloses(p)
      PROVE  (OneToken /\ ChannelsClosed)'
  BY <1>9 DEF UserCloses
<1>10. ASSUME NEW k \in Closers, CloseStart(k)
      PROVE  (OneToken /\ ChannelsClosed)'
  BY <1>10 DEF CloseStart
<1>11. ASSUME NEW k \in Closers, CloseSelect(k)
      PROVE  (OneToken /\ ChannelsClosed)'
  BY <1>11 DEF CloseSelect
<1>12. ASSUME NEW k \in Closers, CloseSend(k)
      PROVE  (OneToken /\ ChannelsClosed)'
  BY <1>12 DEF CloseSend
<1>13. ASSUME NEW k \in Closers, CloseWait(k)
      PROVE  (OneToken /\ ChannelsClosed)'
  BY <1>13 DEF CloseWait
<1>14. ASSUME NEW k \in Closers, CloseFlush(k)
      PROVE  (OneToken /\ ChannelsClosed)'
  BY <1>14 DEF CloseFlush
<1>15. CASE JanitorSweep
  BY <1>15 DEF JanitorSweep, RemoveConns, Swept
<1>16. CASE JanitorLeave
  BY <1>16 DEF JanitorLeave
<1>17. CASE JanitorStop
  BY <1>17 DEF JanitorStop
<1>18. ASSUME NEW c \in Conn, IdleTimePasses(c)
      PROVE  (OneToken /\ ChannelsClosed)'
  BY <1>18 DEF IdleTimePasses
<1>19. ASSUME NEW c \in Conn, NEW s \in ConnStates, StateChange(c, s)
      PROVE  (OneToken /\ ChannelsClosed)'
  BY <1>19 DEF StateChange, Connectivity, ConnStates
<1>20. CASE UNCHANGED vars
  BY <1>20 DEF vars
<1> QED
  BY <1>1, <1>2, <1>3, <1>4, <1>5, <1>6, <1>7, <1>8, <1>9, <1>10, <1>11, <1>12, <1>13, <1>14, <1>15, <1>16, <1>17, <1>18, <1>19, <1>20
  DEF Next, Thread, Closer, Janitor, Environment

-----------------------------------------------------------------------------
(* The reference count                                                     *)

\* There are finitely many holders, because there are finitely many threads.
LEMMA HoldersFinite == \A c : IsFiniteSet(Holders(c)) /\ Cardinality(Holders(c)) \in Nat
<1> SUFFICES ASSUME NEW c PROVE IsFiniteSet(Holders(c)) /\ Cardinality(Holders(c)) \in Nat
  OBVIOUS
<1>1. Holders(c) \subseteq Threads
  BY DEF Holders
<1>2. IsFiniteSet(Holders(c))
  BY <1>1, ThreadsAssumption, FS_Subset DEF ThreadsAssumption
<1> QED
  BY <1>2, FS_CardinalityType

\* A thread that takes a connection is one holder more.
LEMMA OneHolderMore ==
    ASSUME NEW p \in Threads, NEW c \in Conn, held \in [Threads -> Conn \cup {NoConn}],
           held[p] = NoConn, held' = [held EXCEPT ![p] = c]
    PROVE  /\ Cardinality(Holders(c)') = Cardinality(Holders(c)) + 1
           /\ \A d \in Conn : d # c => Holders(d)' = Holders(d)
<1>1. Holders(c)' = Holders(c) \cup {p} /\ p \notin Holders(c)
  BY NoConnAssumption DEF Holders, NoConnAssumption
<1>2. \A d \in Conn : d # c => Holders(d)' = Holders(d)
  BY NoConnAssumption DEF Holders, NoConnAssumption
<1> QED
  BY <1>1, <1>2, HoldersFinite, FS_AddElement

\* A thread that gives its connection back is one holder less.
LEMMA OneHolderLess ==
    ASSUME NEW p \in Threads, held \in [Threads -> Conn \cup {NoConn}],
           held[p] \in Conn, held' = [held EXCEPT ![p] = NoConn]
    PROVE  /\ Cardinality(Holders(held[p])) > 0
           /\ Cardinality({q \in Threads : held'[q] = held[p]}) = Cardinality(Holders(held[p])) - 1
           /\ \A d \in Conn : d # held[p] => Holders(d)' = Holders(d)
<1> DEFINE c == held[p]
<1> DEFINE after == {q \in Threads : held'[q] = c}
<1>1. after = Holders(c) \ {p} /\ p \in Holders(c)
  BY NoConnAssumption DEF Holders, NoConnAssumption
<1>2. \A d \in Conn : d # c => Holders(d)' = Holders(d)
  BY NoConnAssumption DEF Holders, NoConnAssumption
<1>3. IsFiniteSet(Holders(c)) /\ Cardinality(Holders(c)) \in Nat
  BY HoldersFinite
<1>4. Cardinality(after) = Cardinality(Holders(c)) - 1
  BY <1>1, <1>3, FS_RemoveElement
<1>5. Cardinality(Holders(c)) # 0
  BY <1>1, <1>3, FS_EmptySet
<1> QED
  BY <1>2, <1>3, <1>4, <1>5

\* Steps that neither take, give back nor cache a connection.
LEMMA RefCountFrame ==
    ASSUME RefCount, UNCHANGED <<held, open>>, index' \subseteq index, ~closed' => ~closed
    PROVE  RefCount'
<1>1. \A c : Holders(c)' = Holders(c)
  BY DEF Holders
<1> QED
  BY <1>1 DEF RefCount

\* Every step keeps the counters equal to the numbers of holders.
LEMMA RefCountStep ==
    ASSUME TypeOK, RefCount, HeldExists, Fresh, CacheConsistent, [Next]_vars
    PROVE  RefCount'
<1> USE DEF connVars, janitorVars, threadVars, Alive, closed, TypeOK
<1>1. ASSUME NEW p \in Threads, NEW t \in Targets, DialCached(p, t)
      PROVE  RefCount'
  <2>1. PICK c \in index : c = conns[t] /\ held[p] = NoConn
    BY <1>1, NoConnAssumption DEF DialCached, Usable, CacheConsistent, HeldExists
  <2>2. held' = [held EXCEPT ![p] = c] /\ open' = [open EXCEPT ![c] = @ + 1] /\ index' = index
    BY <1>1, <2>1 DEF DialCached
  <2>3. /\ Cardinality(Holders(c)') = Cardinality(Holders(c)) + 1
        /\ \A d \in Conn : d # c => Holders(d)' = Holders(d)
    BY <2>1, <2>2, OneHolderMore
  <2>4. ~closed /\ ~closed'
    BY <1>1 DEF DialCached
  <2> QED
    BY <2>1, <2>2, <2>3, <2>4 DEF RefCount
<1>2. ASSUME NEW p \in Threads, NEW t \in Targets, NEW c \in Conn, DialNew(p, t, c)
      PROVE  RefCount'
  <2>1. held[p] = NoConn /\ state[c] = "none" /\ ~closed
    BY <1>2 DEF DialNew, HeldExists
  <2>2. /\ held' = [held EXCEPT ![p] = c] /\ open' = [open EXCEPT ![c] = 1]
        /\ index' \subseteq index \cup {c}
    BY <1>2 DEF DialNew
  <2>3. Holders(c) = {}
    BY <2>1, NoConnAssumption DEF Holders, HeldExists, NoConnAssumption
  <2>4. Cardinality(Holders(c)) = 0
    BY <2>3, FS_EmptySet
  <2>5. /\ Cardinality(Holders(c)') = Cardinality(Holders(c)) + 1
        /\ \A d \in Conn : d # c => Holders(d)' = Holders(d)
    BY <2>1, <2>2, OneHolderMore
  <2> QED
    BY <2>1, <2>2, <2>4, <2>5 DEF RefCount
<1>3. ASSUME NEW p \in Threads, DialRemove(p)
      PROVE  RefCount'
  <2>1. held[p] \in Conn
    BY <1>3 DEF DialRemove, HeldExists
  <2>2. /\ held' = [held EXCEPT ![p] = NoConn] /\ index' = index \ {held[p]}
        /\ UNCHANGED janitorDone
    BY <1>3 DEF DialRemove, RemoveConns
  <2>3. \A d \in Conn : d # held[p] => open'[d] = open[d]
    BY <1>3 DEF DialRemove, SetClosed
  <2>4. \A d \in Conn : d # held[p] => Holders(d)' = Holders(d)
    BY <2>1, <2>2, OneHolderLess
  <2> QED
    BY <2>2, <2>3, <2>4 DEF RefCount
<1>4. ASSUME NEW p \in Threads, ReleaseConn(p)
      PROVE  RefCount'
  <2> DEFINE c == held[p]
  <2>1. c \in Conn
    BY <1>4 DEF ReleaseConn, HeldExists
  <2>2. held' = [held EXCEPT ![p] = NoConn] /\ index' = index
    BY <1>4 DEF ReleaseConn
  <2>3. /\ Cardinality(Holders(c)) > 0
        /\ Cardinality({q \in Threads : held'[q] = c}) = Cardinality(Holders(c)) - 1
        /\ \A d \in Conn : d # c => Holders(d)' = Holders(d)
    BY <2>1, <2>2, OneHolderLess
  <2>4. CASE closed
    BY <1>4, <2>4 DEF ReleaseConn, RefCount
  <2>5. CASE ~closed /\ c \notin index
    <3>1. UNCHANGED open
      BY <1>4, <2>5 DEF ReleaseConn
    <3> QED
      BY <2>2, <2>3, <2>5, <3>1 DEF RefCount
  <2>6. CASE ~closed /\ c \in index
    <3>1. SetClosed(c)
      BY <1>4, <2>6 DEF ReleaseConn
    <3>2. open[c] = Cardinality(Holders(c))
      BY <2>6 DEF RefCount
    <3>3. open'[c] = open[c] - 1 /\ \A d \in Conn : d # c => open'[d] = open[d]
      BY <2>1, <2>3, <3>1, <3>2 DEF SetClosed
    <3>4. SUFFICES ASSUME NEW d \in index PROVE open'[d] = Cardinality(Holders(d)')
      BY <2>2 DEF RefCount
    <3>5. CASE d = c
      <4>1. Holders(d)' = {q \in Threads : held'[q] = c}
        BY <3>5 DEF Holders
      <4> QED
        BY <2>3, <3>2, <3>3, <3>5, <4>1
    <3>6. CASE d # c
      BY <2>3, <2>6, <3>3, <3>6 DEF RefCount
    <3> QED
      BY <3>5, <3>6
  <2> QED
    BY <2>4, <2>5, <2>6
<1>5. ASSUME NEW p \in Threads, NEW t \in Targets, DialError(p, t)
      PROVE  RefCount'
  BY <1>5, RefCountFrame DEF DialError
<1>6. ASSUME NEW p \in Threads, WaitReady(p) \/ WaitFails(p) \/ OpenConn(p) \/ UserCloses(p)
      PROVE  RefCount'
  BY <1>6, RefCountFrame DEF WaitReady, WaitFails, OpenConn, UserCloses, EnsureJanitorStarted
<1>7. ASSUME NEW k \in Closers, Closer(k)
      PROVE  RefCount'
  BY <1>7, RefCountFrame DEF Closer, CloseStart, CloseSelect, CloseSend, CloseWait, CloseFlush
<1>8. CASE Janitor
  BY <1>8, RefCountFrame DEF Janitor, JanitorSweep, JanitorLeave, JanitorStop, RemoveConns
<1>9. CASE Environment
  BY <1>9, RefCountFrame DEF Environment, IdleTimePasses, StateChange
<1>10. CASE UNCHANGED vars
  BY <1>10, RefCountFrame DEF vars
<1> QED
  BY <1>1, <1>2, <1>3, <1>4, <1>5, <1>6, <1>7, <1>8, <1>9, <1>10 DEF Next, Thread

-----------------------------------------------------------------------------
(* The theorems                                                            *)

\* The initial state satisfies the inductive invariant.
LEMMA InitInvariant == Init => IInv
<1> SUFFICES ASSUME Init PROVE IInv
  OBVIOUS
<1>1. TypeOK
  BY InitType
<1>2. NoLeak /\ CacheConsistent /\ RefCount /\ Fresh
  BY DEF Init, NoLeak, CacheConsistent, RefCount, Fresh
<1>3. OneToken /\ ChannelsClosed
  BY DEF Init, OneToken, ChannelsClosed, closed
<1>4. HeldExists
  BY DEF Init, HeldExists
<1> QED
  BY <1>1, <1>2, <1>3, <1>4 DEF IInv

\* The inductive invariant holds in every reachable state.
THEOREM Invariant == Spec => []IInv
<1>1. IInv /\ [Next]_vars => IInv'
  <2> SUFFICES ASSUME IInv, [Next]_vars PROVE IInv'
    OBVIOUS
  <2>1. TypeOK'
    BY TypeStep DEF IInv
  <2>2. NoLeak' /\ CacheConsistent' /\ Fresh' /\ HeldExists'
    BY NoLeakStep, CacheStep, FreshStep, HeldStep DEF IInv
  <2>3. OneToken' /\ ChannelsClosed'
    BY TokenStep DEF IInv
  <2>4. RefCount'
    BY RefCountStep DEF IInv
  <2> QED
    BY <2>1, <2>2, <2>3, <2>4 DEF IInv
<1> QED
  BY InitInvariant, <1>1, PTL DEF Spec

\* The variables of the connector keep their types.
THEOREM TypeCorrect == Spec => []TypeOK
<1>1. IInv => TypeOK
  BY DEF IInv
<1> QED
  BY Invariant, <1>1, PTL

\* The open counter of a cached connection counts its users.
THEOREM RefCountCorrect == Spec => []RefCount
<1>1. IInv => RefCount
  BY DEF IInv
<1> QED
  BY Invariant, <1>1, PTL

\* Every live connection can be found by the janitor and by Close.
THEOREM NothingLeaks == Spec => []NoLeak
<1>1. IInv => NoLeak
  BY DEF IInv
<1> QED
  BY Invariant, <1>1, PTL

\* A name leads to a connection of the index that was dialled for it.
THEOREM CacheIsConsistent == Spec => []CacheConsistent
<1>1. IInv => CacheConsistent
  BY DEF IInv
<1> QED
  BY Invariant, <1>1, PTL

\* There is at most one janitor until the connector is closed.
THEOREM OneJanitor == Spec => []OneToken
<1>1. IInv => OneToken
  BY DEF IInv
<1> QED
  BY Invariant, <1>1, PTL

\* The janitor never closes a connection under its user: by RefCount a used
\* connection is not swept before Close, and by NoLeak none is alive after it.
THEOREM SweepIsSafe == Spec => SweepSparesUsed
<1> DEFINE Spares == JanitorSweep => \A p \in Threads :
          held[p] # NoConn /\ state[held[p]] # "shutdown" => state'[held[p]] # "shutdown"
<1>1. IInv /\ [Next]_vars => [Spares]_vars
  <2> SUFFICES ASSUME IInv, JanitorSweep, NEW p \in Threads,
                      held[p] # NoConn, state[held[p]] # "shutdown"
               PROVE  state'[held[p]] # "shutdown"
    OBVIOUS
  <2> DEFINE c == held[p]
  <2>1. c \in Conn /\ state[c] # "none"
    BY DEF IInv, TypeOK, HeldExists
  <2>2. c \in index /\ ~closed
    BY <2>1 DEF IInv, NoLeak
  <2>3. open[c] # 0
    <3>1. p \in Holders(c)
      BY DEF Holders
    <3>2. Cardinality(Holders(c)) # 0
      BY <3>1, HoldersFinite, FS_EmptySet
    <3> QED
      BY <2>2, <3>2 DEF IInv, RefCount
  <2>4. c \notin Swept
    BY <2>3 DEF Swept
  <2> QED
    BY <2>1, <2>4 DEF JanitorSweep, RemoveConns
<1> QED
  BY Invariant, <1>1, PTL DEF Spec, SweepSparesUsed

=============================================================================
