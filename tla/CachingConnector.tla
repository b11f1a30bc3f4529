-------------------------- MODULE CachingConnector --------------------------
(***************************************************************************)
(* The cache of gRPC connections of pkg/fab/comm/connector.go.             *)
(*                                                                         *)
(* A thread obtains the connection of a target with DialContext and gives  *)
(* it back with ReleaseConn; a janitor goroutine, started on demand,       *)
(* closes the connections nobody has used for idleTime and stops by itself *)
(* when the cache is empty; Close stops the janitor and flushes the cache. *)
(*                                                                         *)
(* Every section that holds cc.lock is one action.  What the code does     *)
(* outside the lock (waiting for the connection to become ready, starting  *)
(* the janitor at the end of openConn, the channel operations of Close and *)
(* of the janitor) are actions of their own.                               *)
(*                                                                         *)
(* A cachedConn and its *grpc.ClientConn are created together and never    *)
(* separated, so both are one member of Conn.  Time is abstracted to one   *)
(* bit per connection: has idleTime gone by since lastClose?               *)
(***************************************************************************)
EXTENDS Naturals, FiniteSets

CONSTANTS
    Threads,    \* goroutines that dial and release
    Closers,    \* goroutines that call Close
    Targets,    \* addresses dialled
    Conn,       \* connections that can be created (bounds the state space)
    NoConn      \* "no connection"

ASSUME NoConnAssumption == NoConn \notin Conn
ASSUME TargetsAssumption == Targets # {}
ASSUME ThreadsAssumption == IsFiniteSet(Threads)

VARIABLES
    conns,          \* cc.conns: target -> connection or NoConn
    index,          \* the keys of cc.index
    target,         \* cachedConn.target
    open,           \* cachedConn.open
    idle,           \* idleTime has passed since cachedConn.lastClose
    state,          \* connectivity state of the gRPC connection
    janitorDone,    \* channel of capacity 1, or nil once the connector is closed
    janitorClosed,  \* channel of capacity 1 that holds the janitor's token
    looping,        \* number of janitors at their select
    leaving,        \* number of janitors that saw an empty cache, before the send
    pc,             \* where each thread is in DialContext
    held,           \* the connection each thread works with
    closing,        \* where each closer is in Close
    panicked        \* a goroutine panicked: the process is gone

connVars == <<conns, index, target, open, idle, state>>
janitorVars == <<janitorDone, janitorClosed, looping, leaving>>
threadVars == <<pc, held>>
vars == <<conns, index, target, open, idle, state, janitorDone, janitorClosed,
          looping, leaving, pc, held, closing, panicked>>

ConnStates == {"none", "connecting", "ready", "transientFailure", "shutdown"}

TypeOK ==
    /\ conns \in [Targets -> Conn \cup {NoConn}]
    /\ index \in SUBSET Conn
    /\ target \in [Conn -> Targets]
    /\ open \in [Conn -> Nat]
    /\ idle \in [Conn -> BOOLEAN]
    /\ state \in [Conn -> ConnStates]
    /\ janitorDone \in {"empty", "full", "nil"}
    /\ janitorClosed \in {"empty", "full", "closed"}
    /\ looping \in Nat
    /\ leaving \in Nat
    /\ pc \in [Threads -> {"out", "opening", "opened", "failed", "using"}]
    /\ held \in [Threads -> Conn \cup {NoConn}]
    /\ closing \in [Closers -> {"out", "select", "send", "wait", "flush", "returned"}]
    /\ panicked \in BOOLEAN

\* NewCachingConnector: janitorClosed starts with a bootstrap token, so that
\* the first user of the cache starts the janitor.
Init ==
    /\ conns = [t \in Targets |-> NoConn]
    /\ index = {}
    /\ target = [c \in Conn |-> CHOOSE t \in Targets : TRUE]
    /\ open = [c \in Conn |-> 0]
    /\ idle = [c \in Conn |-> TRUE]
    /\ state = [c \in Conn |-> "none"]
    /\ janitorDone = "empty"
    /\ janitorClosed = "full"
    /\ looping = 0
    /\ leaving = 0
    /\ pc = [p \in Threads |-> "out"]
    /\ held = [p \in Threads |-> NoConn]
    /\ closing = [k \in Closers |-> "out"]
    /\ panicked = FALSE

closed == janitorDone = "nil"

\* A step that does not panic, of a process that has not panicked.
Alive == ~panicked /\ panicked' = FALSE

-----------------------------------------------------------------------------
(* Helpers the handlers share.                                             *)

\* ensureJanitorStarted takes the token if there is one.  A closed channel
\* yields a value at once, so it too starts a janitor.
EnsureJanitorStarted ==
    /\ looping' = IF janitorClosed = "empty" THEN looping ELSE looping + 1
    /\ janitorClosed' = IF janitorClosed = "full" THEN "empty" ELSE janitorClosed
    /\ UNCHANGED <<janitorDone, leaving>>

\* setClosed
SetClosed(c) ==
    /\ open' = [open EXCEPT ![c] = IF @ > 0 THEN @ - 1 ELSE @]
    /\ idle' = [idle EXCEPT ![c] = IF open[c] > 0 THEN FALSE ELSE @]

\* Slip: the entries go, the connection stays open.
RemoveConns_LeavesOpen(R) ==
    /\ index' = index \ R
    /\ conns' = [t \in Targets |-> IF \E c \in R : target[c] = t THEN NoConn ELSE conns[t]]
    /\ UNCHANGED state

\* removeConn, for every connection of a set.  The entry of conns goes by the
\* target's name, whichever connection it leads to by now.
RemoveConns(R) ==
    /\ index' = index \ R
    /\ conns' = [t \in Targets |-> IF \E c \in R : target[c] = t THEN NoConn ELSE conns[t]]
    /\ state' = [c \in Conn |-> IF c \in R THEN "shutdown" ELSE state[c]]

-----------------------------------------------------------------------------
(* DialContext                                                             *)

\* The cached connection of a target that loadConn would hand out.
Usable(t) == conns[t] # NoConn /\ state[conns[t]] # "shutdown"

\* shutdownConn: loadConn drops an entry that is already shut down.  Here and
\* in createConn the lock is held.
ShutdownConn(t) ==
    IF conns[t] = NoConn
    THEN UNCHANGED janitorVars
    ELSE EnsureJanitorStarted

\* createConn, cached connection: it counts as open before the lock is
\* released, so that the janitor does not sweep it.
DialCached(p, t) ==
    /\ pc[p] = "out" /\ ~closed /\ Usable(t)
    /\ pc' = [pc EXCEPT ![p] = "opening"]
    /\ held' = [held EXCEPT ![p] = conns[t]]
    /\ open' = [open EXCEPT ![conns[t]] = @ + 1]
    /\ UNCHANGED <<conns, index, target, idle, state, janitorVars, closing>>
    /\ Alive

\* createConn, new connection.
DialNew(p, t, c) ==
    /\ pc[p] = "out" /\ ~closed /\ ~Usable(t)
    /\ state[c] = "none"
    /\ pc' = [pc EXCEPT ![p] = "opening"]
    /\ held' = [held EXCEPT ![p] = c]
    /\ state' = [state EXCEPT ![c] = "connecting"]
    /\ target' = [target EXCEPT ![c] = t]
    /\ open' = [open EXCEPT ![c] = 1]
    /\ conns' = [conns EXCEPT ![t] = c]
    /\ index' = (index \ {conns[t]}) \cup {c}
    /\ ShutdownConn(t)
    /\ UNCHANGED <<idle, closing>>
    /\ Alive

\* createConn, grpc.DialContext fails: what shutdownConn did stays.
DialError(p, t) ==
    /\ pc[p] = "out" /\ ~closed /\ ~Usable(t)
    /\ conns' = [conns EXCEPT ![t] = NoConn]
    /\ index' = index \ {conns[t]}
    /\ ShutdownConn(t)
    /\ UNCHANGED <<target, open, idle, state, threadVars, closing>>
    /\ Alive

\* waitConn, called without the lock: the connection is ready.
WaitReady(p) ==
    /\ pc[p] = "opening" /\ state[held[p]] = "ready"
    /\ pc' = [pc EXCEPT ![p] = "opened"]
    /\ UNCHANGED <<connVars, janitorVars, held, closing>>
    /\ Alive

\* waitConn: transient failure, or the context ends before it is ready.
WaitFails(p) ==
    /\ pc[p] = "opening" /\ state[held[p]] # "ready"
    /\ pc' = [pc EXCEPT ![p] = "failed"]
    /\ UNCHANGED <<connVars, janitorVars, held, closing>>
    /\ Alive

\* The end of openConn, still without the lock.
OpenConn(p) ==
    /\ pc[p] = "opened"
    /\ pc' = [pc EXCEPT ![p] = "using"]
    /\ EnsureJanitorStarted
    /\ UNCHANGED <<connVars, held, closing>>
    /\ Alive

\* DialContext after openConn failed.
DialRemove(p) ==
    /\ pc[p] = "failed"
    /\ pc' = [pc EXCEPT ![p] = "out"]
    /\ held' = [held EXCEPT ![p] = NoConn]
    /\ SetClosed(held[p])
    /\ RemoveConns({held[p]})
    /\ UNCHANGED <<target, janitorVars, closing>>
    /\ Alive

-----------------------------------------------------------------------------
(* ReleaseConn                                                             *)

ReleaseConn(p) ==
    /\ pc[p] = "using"
    /\ pc' = [pc EXCEPT ![p] = "out"]
    /\ held' = [held EXCEPT ![p] = NoConn]
    /\ \/ /\ closed
          /\ state' = [state EXCEPT ![held[p]] = "shutdown"]
          /\ UNCHANGED <<open, idle, janitorVars>>
       \/ /\ ~closed /\ held[p] \notin index
          /\ UNCHANGED <<open, idle, state, janitorVars>>
       \/ /\ ~closed /\ held[p] \in index
          /\ SetClosed(held[p])
          /\ EnsureJanitorStarted
          /\ UNCHANGED state
    /\ UNCHANGED <<conns, index, target, closing>>
    /\ Alive

-----------------------------------------------------------------------------
(* The janitor                                                             *)

\* Slip: a long use counts as idleness.
Swept_IgnoresUse == {c \in index : idle[c] \/ state[c] = "shutdown"}

\* The entries sweepAndRemove removes.
Swept == {c \in index : \/ open[c] = 0 /\ idle[c]
                        \/ state[c] = "shutdown"}

\* One tick: sweep under the lock; an empty cache sends the janitor home.
JanitorSweep ==
    /\ looping > 0
    /\ RemoveConns(Swept)
    /\ IF index' = {}
       THEN looping' = looping - 1 /\ leaving' = leaving + 1
       ELSE UNCHANGED <<looping, leaving>>
    /\ UNCHANGED <<target, open, idle, janitorDone, janitorClosed, threadVars, closing>>
    /\ Alive

\* The janitor puts its token back after it has released the lock.  A send on
\* a closed channel panics, a full one blocks.
JanitorLeave ==
    /\ leaving > 0
    /\ janitorClosed # "full"
    /\ leaving' = leaving - 1
    /\ janitorClosed' = IF janitorClosed = "closed" THEN "closed" ELSE "full"
    /\ ~panicked /\ panicked' = (janitorClosed = "closed")
    /\ UNCHANGED <<connVars, janitorDone, looping, threadVars, closing>>

\* Slip: the janitor only looks at janitorDone once the cache is empty.
JanitorStop_WhenEmpty ==
    /\ looping > 0 /\ janitorDone = "full" /\ index = {}
    /\ looping' = looping - 1
    /\ janitorDone' = "empty"
    /\ UNCHANGED <<connVars, janitorClosed, leaving, threadVars, closing>>
    /\ Alive

\* The janitor is told to stop.  It takes its token along.
JanitorStop ==
    /\ looping > 0 /\ janitorDone = "full"
    /\ looping' = looping - 1
    /\ janitorDone' = "empty"
    /\ UNCHANGED <<connVars, janitorClosed, leaving, threadVars, closing>>
    /\ Alive

-----------------------------------------------------------------------------
(* Close                                                                   *)

CloseStart(k) ==
    /\ closing[k] = "out"
    /\ closing' = [closing EXCEPT ![k] = IF closed THEN "returned" ELSE "select"]
    /\ UNCHANGED <<connVars, janitorVars, threadVars>>
    /\ Alive

\* The select: the token is there (no janitor runs) or it is not.
CloseSelect(k) ==
    /\ closing[k] = "select"
    /\ closing' = [closing EXCEPT ![k] = IF janitorClosed = "empty" THEN "send" ELSE "flush"]
    /\ janitorClosed' = IF janitorClosed = "full" THEN "empty" ELSE janitorClosed
    /\ UNCHANGED <<connVars, janitorDone, looping, leaving, threadVars>>
    /\ Alive

\* janitorDone <- true.  A sender that another Close overtakes finds the
\* channel closed.
CloseSend(k) ==
    /\ closing[k] = "send" /\ janitorDone # "full"
    /\ closing' = [closing EXCEPT ![k] = "wait"]
    /\ janitorDone' = IF closed THEN "nil" ELSE "full"
    /\ ~panicked /\ panicked' = closed
    /\ UNCHANGED <<connVars, janitorClosed, looping, leaving, threadVars>>

\* waitgroup.Wait
CloseWait(k) ==
    /\ closing[k] = "wait" /\ looping + leaving = 0
    /\ closing' = [closing EXCEPT ![k] = "flush"]
    /\ UNCHANGED <<connVars, janitorVars, threadVars>>
    /\ Alive

\* The locked rest: flush (the entries stay in index), close both channels.
\* Closing a closed channel panics.
CloseFlush(k) ==
    /\ closing[k] = "flush"
    /\ closing' = [closing EXCEPT ![k] = "returned"]
    /\ state' = [c \in Conn |-> IF c \in index THEN "shutdown" ELSE state[c]]
    /\ janitorClosed' = "closed"
    /\ janitorDone' = "nil"
    /\ ~panicked /\ panicked' = (janitorClosed = "closed")
    /\ UNCHANGED <<conns, index, target, open, idle, looping, leaving, threadVars>>

-----------------------------------------------------------------------------
(* The environment: gRPC's connectivity state machine, the clock, and a    *)
(* user that closes the *grpc.ClientConn it was handed.                    *)

Connectivity == {<<"connecting", "ready">>, <<"connecting", "transientFailure">>,
                 <<"ready", "connecting">>, <<"ready", "transientFailure">>,
                 <<"transientFailure", "connecting">>}

StateChange(c, s) ==
    /\ <<state[c], s>> \in Connectivity
    /\ state' = [state EXCEPT ![c] = s]
    /\ UNCHANGED <<conns, index, target, open, idle, janitorVars, threadVars, closing>>
    /\ Alive

IdleTimePasses(c) ==
    /\ c \in index /\ ~idle[c]
    /\ idle' = [idle EXCEPT ![c] = TRUE]
    /\ UNCHANGED <<conns, index, target, open, state, janitorVars, threadVars, closing>>
    /\ Alive

UserCloses(p) ==
    /\ pc[p] = "using"
    /\ state' = [state EXCEPT ![held[p]] = "shutdown"]
    /\ UNCHANGED <<conns, index, target, open, idle, janitorVars, threadVars, closing>>
    /\ Alive

-----------------------------------------------------------------------------
Thread(p) ==
    \/ \E t \in Targets : \/ DialCached(p, t)
                          \/ \E c \in Conn : DialNew(p, t, c)
                          \/ DialError(p, t)
    \/ WaitReady(p)
    \/ WaitFails(p)
    \/ OpenConn(p)
    \/ DialRemove(p)
    \/ ReleaseConn(p)
    \/ UserCloses(p)

Closer(k) ==
    \/ CloseStart(k)
    \/ CloseSelect(k)
    \/ CloseSend(k)
    \/ CloseWait(k)
    \/ CloseFlush(k)

Janitor == JanitorSweep \/ JanitorLeave \/ JanitorStop

Environment == \E c \in Conn : IdleTimePasses(c) \/ \E s \in ConnStates : StateChange(c, s)

Next ==
    \/ \E p \in Threads : Thread(p)
    \/ \E k \in Closers : Closer(k)
    \/ Janitor
    \/ Environment

Spec == Init /\ [][Next]_vars

\* What runs without anybody calling: the goroutines inside DialContext and
\* Close, whose contexts end and whose locks are released, the janitor with its
\* ticker, and the clock.  Users need not dial, release or close, and a
\* connection need not become ready.
Fairness ==
    /\ \A p \in Threads : /\ WF_vars(WaitReady(p) \/ WaitFails(p))
                          /\ WF_vars(OpenConn(p))
                          /\ WF_vars(DialRemove(p))
    /\ \A k \in Closers : /\ WF_vars(CloseSelect(k))
                          /\ WF_vars(CloseSend(k))
                          /\ WF_vars(CloseWait(k))
                          /\ WF_vars(CloseFlush(k))
    /\ WF_vars(JanitorSweep)
    /\ WF_vars(JanitorLeave)
    /\ WF_vars(JanitorStop)
    /\ \A c \in Conn : WF_vars(IdleTimePasses(c))

FairSpec == Spec /\ Fairness

-----------------------------------------------------------------------------
(* Safety                                                                  *)

Holders(c) == {p \in Threads : held[p] = c}

\* The open counter of a cached connection is the number of callers between a
\* DialContext and its ReleaseConn, over every interleaving of dials that hit
\* the cache, failed dials, releases of connections that have left the cache
\* and sweeps (loadConn, createConn, setClosed).  An off-by-one either closes a
\* connection under its user or keeps it for ever.
RefCount == ~closed => \A c \in index : open[c] = Cardinality(Holders(c))

\* No connection is lost: one that is not shut down is in the index, where the
\* janitor and Close find it, and once Close has returned none is left
\* ("The Close method will flush all remaining open connections").
NoLeak == \A c \in Conn : state[c] \notin {"none", "shutdown"} => c \in index /\ ~closed

\* A name leads only to a connection of the index that was dialled for it, so
\* loadConn never hands out a connection that removeConn or shutdownConn dropped.
CacheConsistent ==
    \A t \in Targets : conns[t] # NoConn => conns[t] \in index /\ target[conns[t]] = t

\* Until Close, the janitor's token is in the channel, with the one janitor, or
\* with a Close: there is never a second janitor, and the one that leaves never
\* blocks on a full janitorClosed (ensureJanitorStarted, janitor, Close).
OneToken ==
    ~closed => looping + leaving + (IF janitorClosed = "full" THEN 1 ELSE 0) <= 1

\* The janitor never closes a connection somebody is opening or using
\* (loadConn: "Set connection open as soon as it is loaded to prevent the
\* janitor from sweeping it").
SweepSparesUsed ==
    [][JanitorSweep => \A p \in Threads :
          held[p] # NoConn /\ state[held[p]] # "shutdown" => state'[held[p]] # "shutdown"]_vars

-----------------------------------------------------------------------------
(* The inductive invariant                                                 *)

\* A connection enters the index only once it exists.
Fresh == \A c \in index : state[c] # "none"

\* A thread holds a connection exactly while it is inside DialContext or has
\* not released it, and that connection exists.
HeldExists ==
    \A p \in Threads : /\ held[p] = NoConn <=> pc[p] = "out"
                       /\ held[p] # NoConn => state[held[p]] # "none"

\* Both channels are closed together.
ChannelsClosed == janitorClosed = "closed" => closed

IInv ==
    /\ TypeOK
    /\ NoLeak /\ CacheConsistent /\ RefCount /\ OneToken
    /\ Fresh /\ HeldExists /\ ChannelsClosed

-----------------------------------------------------------------------------
(* Liveness                                                                *)

\* DialContext returns once its context has ended, whatever the other threads,
\* the janitor and Close do to the connection it waits for.
DialReturns == \A p \in Threads : pc[p] = "opening" ~> pc[p] \in {"using", "out"} \/ panicked

\* Close returns: its handshake with a janitor that may be sweeping, leaving or
\* being started again does not block (Close, janitor).
CloseReturns == \A k \in Closers : closing[k] = "select" ~> closing[k] = "returned"

\* Both together: nobody who calls the connector waits for ever.
CallsReturn == DialReturns /\ CloseReturns
=============================================================================
