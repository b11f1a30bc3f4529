----------------------------- MODULE EventClient -----------------------------
(***************************************************************************)
(* The deliver event client: pkg/fab/events/client (connecting, monitoring *)
(* the connection, reconnecting, closing), its dispatcher                  *)
(* pkg/fab/events/client/dispatcher on top of the event loop of            *)
(* pkg/fab/events/service, and the deliver client and connection of        *)
(* pkg/fab/events/deliverclient.                                           *)
(*                                                                         *)
(* One goroutine, the dispatcher, handles the events of a queue.  Around   *)
(* it run the goroutine that receives from each connection, the user's     *)
(* Connect, the reconnect goroutines, the connection monitor, the peer     *)
(* monitor and Close; they talk to the dispatcher through the queue and    *)
(* wait for its answer.  Handling one event is one action.                 *)
(*                                                                         *)
(* Blocks are their numbers, from 1; 0 stands for math.MaxUint64, "no      *)
(* block received yet".  Connections are numbered from 1; 0 is nil.        *)
(* Registrations are left out: a block is published to them as one step.   *)
(***************************************************************************)
EXTENDS Naturals, Sequences, FiniteSets

CONSTANTS
    Reconnectors,   \* reconnect goroutines that may be alive at the same time
    User,           \* the goroutine that calls Connect
    MaxConns,       \* bound on the connections opened
    MaxHeight,      \* bound on the height of the ledger
    QueueSize,      \* capacity of the dispatcher's event channel
    ConsumerBuffer, \* capacity of the connection event channel
    MaxAttempts,    \* maxReconnAttempts; 0: try until stopped
    ReconnOptions,  \* the values of the reconnect option that are tried
    SeekTypes,      \* "oldest": WithSeekType(Oldest) was given; "none": no seek type was
    PeerMonitors,   \* peer monitors that may be alive at the same time; none: peerMonitorPeriod is 0
    Closes          \* whether the user closes the client

ASSUME UserAssumption == User \notin Reconnectors
ASSUME PeerMonitorsAssumption == PeerMonitors \cap (Reconnectors \cup {User}) = {}
ASSUME BoundsAssumption == MaxConns \in Nat /\ MaxHeight \in Nat \ {0}
ASSUME BuffersAssumption == QueueSize \in Nat \ {0} /\ ConsumerBuffer \in Nat \ {0}
ASSUME OptionsAssumption == MaxAttempts \in Nat /\ ReconnOptions \cup {Closes} \subseteq BOOLEAN
ASSUME SeekTypesAssumption == SeekTypes \subseteq {"oldest", "none"}

VARIABLES
    \* the event server and the streams
    height,         \* ledger height of the peer
    opened,         \* number of connections opened
    open,           \* connections that are not Closed()
    cursor,         \* next block the server sends on a stream, 0: not asked yet
    recv,           \* where each Receive goroutine is
    inHand,         \* the event it is about to post
    \* the dispatcher
    queue,          \* the event channel
    running,        \* dispatcherStateStarted
    conn,           \* ed.connection
    connectedPeer,  \* ed.peer is set
    connReg,        \* ed.connectionRegistration and its channel
    lastBlock,      \* ed.lastBlockNum
    infoOnly,       \* ed.updateLastBlockInfoOnly
    published,      \* the blocks sent to the registrations
    \* the client
    connState,      \* c.connectionState
    stopped,        \* c.stopped
    seekFrom,       \* the seek the client will ask for: 0 newest, or a block
    reconn,         \* the reconnect option
    fromNewest,     \* history: a reconnect has asked for the newest block
    once,           \* c.registerOnce has fired
    connEvents,     \* the connection event channel of the monitor
    monitor,        \* where monitorConnection is
    monEvent,       \* the event it has in hand
    notifyClosed,   \* the subscriber's connEventCh is closed
    peerMon,        \* where each monitorPeer is
    monitorDone,    \* the monitors that ed.peerMonitorDone stops: one, or none
    cancelled,      \* the monitors whose done channel is closed
    pc,             \* where each goroutine is in connect
    attempts,       \* attempts made by each reconnect goroutine
    reply,          \* answers of the dispatcher
    closing,        \* where Close is
    panicked

serverVars == <<height, opened, open, cursor, recv, inHand>>
dispVars == <<running, conn, connectedPeer, connReg, lastBlock, infoOnly, published>>
clientVars == <<connState, stopped, seekFrom, fromNewest, once, notifyClosed>>
peerVars == <<peerMon, monitorDone, cancelled>>
monVars == <<monitor, monEvent, peerMon, monitorDone, cancelled>>
procVars == <<pc, attempts, closing>>
vars == <<height, opened, open, cursor, recv, inHand, queue, running, conn, connectedPeer, connReg,
          lastBlock, infoOnly, published, connState, stopped, seekFrom, fromNewest, once,
          connEvents, monitor, monEvent, notifyClosed, peerMon, monitorDone, cancelled, pc, attempts, reply,
          closing, reconn, panicked>>

Conns == 1..MaxConns
Blocks == 1..MaxHeight
Connectors == Reconnectors \cup {User}
Closer == "closer"
Nobody == "nobody"
Ended == MaxHeight + 2     \* the cursor of a stream the server has ended
Nothing == [type |-> "nothing"]
Callers == Connectors \cup PeerMonitors \cup {Closer}

ASSUME NamesAssumption == {Closer, Nobody} \cap (Connectors \cup PeerMonitors) = {}

\* Events of the queue; "by" is who waits for the answer.
Events ==
    [type : {"connect", "register", "disconnect", "stop", "stopAndTransfer"}, by : Callers \cup {Nobody}]
        \cup [type : {"seek"}, by : Callers \cup {Nobody}, from : 0..(MaxHeight + 1)]
        \cup {[type |-> "connected"]}
        \cup [type : {"disconnected", "status"}, fatal : BOOLEAN]
        \cup [type : {"block"}, number : Blocks]

ConnectionEvents == {"connected", "disconnected", "fatal"}

TypeOK ==
    /\ height \in Blocks /\ opened \in 0..MaxConns
    /\ open \subseteq Conns
    /\ cursor \in [Conns -> 0..Ended]
    /\ recv \in [Conns -> {"off", "recv", "post", "ended"}]
    /\ \A c \in Conns : recv[c] = "post" => inHand[c] \in Events
    /\ \A i \in 1..Len(queue) : queue[i] \in Events
    /\ Len(queue) <= QueueSize
    /\ running \in BOOLEAN /\ conn \in 0..MaxConns /\ connectedPeer \in BOOLEAN
    /\ connReg \in {"none", "open", "closed"}
    /\ lastBlock \in 0..MaxHeight /\ infoOnly \in BOOLEAN
    /\ published \in Seq(Blocks)
    /\ connState \in {"Disconnected", "Connecting", "Connected"}
    /\ stopped \in BOOLEAN /\ reconn \in BOOLEAN /\ once \in BOOLEAN /\ notifyClosed \in BOOLEAN
    /\ seekFrom \in 0..(MaxHeight + 1) /\ fromNewest \in BOOLEAN
    /\ connEvents \in Seq(ConnectionEvents)
    /\ monitor \in {"off", "on", "notify", "nilChannel", "ended"}
    /\ monEvent \in ConnectionEvents \cup {"none"}
    /\ peerMon \in [PeerMonitors -> {"off", "on", "wait", "notify"}]
    /\ monitorDone \subseteq PeerMonitors /\ cancelled \subseteq PeerMonitors
    /\ pc \in [Connectors -> {"idle", "delay", "start", "submit", "waitConnect", "once", "waitReg",
                              "seek", "waitSeek", "undo", "waitUndo", "connected", "announce", "failed"}]
    /\ attempts \in [Connectors -> 0..MaxAttempts]
    /\ reply \in [Callers -> {"none", "ok", "err"}]
    /\ closing \in {"no", "channel", "disconnect", "waitDisconnect", "stop", "waitStop", "final", "returned"}
    /\ panicked \in BOOLEAN

\* deliverclient.New: without a seek type the seek is Newest, and the first
\* block only tells the height.
Init ==
    /\ height = 1 /\ opened = 0 /\ open = {}
    /\ cursor = [c \in Conns |-> 0]
    /\ recv = [c \in Conns |-> "off"] /\ inHand = [c \in Conns |-> Nothing]
    /\ queue = <<>> /\ running = TRUE /\ conn = 0 /\ connectedPeer = FALSE /\ connReg = "none"
    /\ lastBlock = 0
    /\ published = <<>>
    /\ connState = "Disconnected" /\ stopped = FALSE /\ once = FALSE
    /\ reconn \in ReconnOptions /\ fromNewest = FALSE
    /\ \E type \in SeekTypes : /\ infoOnly = (type = "none")
                               /\ seekFrom = (IF type = "none" THEN 0 ELSE 1)
    /\ connEvents = <<>> /\ monitor = "off" /\ monEvent = "none"
    /\ notifyClosed = FALSE
    /\ peerMon = [m \in PeerMonitors |-> "off"] /\ monitorDone = {} /\ cancelled = {}
    /\ pc = [x \in Connectors |-> IF x = User THEN "start" ELSE "idle"]
    /\ attempts = [x \in Connectors |-> 0]
    /\ reply = [x \in Callers |-> "none"]
    /\ closing = "no" /\ panicked = FALSE

-----------------------------------------------------------------------------
(* Helpers                                                                 *)

\* Nothing happens after a panic, and reconnect is an option.
NotPanicked == ~panicked /\ UNCHANGED reconn

Alive == NotPanicked /\ panicked' = FALSE

\* Service.Submit: the event goes into the queue when there is room.
Submit(e) == running /\ Len(queue) < QueueSize /\ queue' = Append(queue, e)

\* Submit by a goroutine that will wait for the answer.
Ask(x, e) == Submit(e) /\ UNCHANGED reply

\* It has its answer, or has given up.
Received(x) == reply' = [reply EXCEPT ![x] = "none"]

\* The dispatcher answers, if somebody still waits.
Answer(e, r) == reply' = IF e.by = Nobody THEN reply ELSE [reply EXCEPT ![e.by] = r]

\* A goroutine that gives up waiting drops its answer channel.
Abandon(x) ==
    queue' = [i \in 1..Len(queue) |->
                 IF "by" \in DOMAIN queue[i] /\ queue[i].by = x
                 THEN [queue[i] EXCEPT !.by = Nobody] ELSE queue[i]]

\* A call of Close: only the first one gets past the compare-and-swap.
CallClose ==
    /\ stopped' = TRUE
    /\ closing' = IF stopped THEN closing ELSE "channel"

Goto(x, l) == pc' = [pc EXCEPT ![x] = l]

-----------------------------------------------------------------------------
(* connect, connectWithRetry and reconnect                                 *)

\* reconnect: the beforeReconnect handler, setSeekFromLastBlockReceived.
SetSeekFromLastBlockReceived(x) ==
    /\ pc[x] = "delay"
    /\ seekFrom' = IF lastBlock = 0 THEN 0 ELSE lastBlock + 1
    /\ fromNewest' = (fromNewest \/ lastBlock = 0)
    /\ Goto(x, "start")
    /\ UNCHANGED <<serverVars, queue, dispVars, connState, stopped, once, notifyClosed, connEvents,
                   monVars, attempts, reply, closing>>
    /\ Alive

\* A failed attempt.  Connect makes one; connectWithRetry sleeps and tries
\* again until the client is stopped or has no attempt left, and then closes.
Retry(x) ==
    \/ /\ x = User
       /\ Goto(x, "failed")
       /\ UNCHANGED <<attempts, stopped, closing>>
    \/ /\ x # User /\ ~stopped /\ (MaxAttempts = 0 \/ attempts[x] + 1 < MaxAttempts)
       /\ Goto(x, "start")
       /\ attempts' = [attempts EXCEPT ![x] = IF MaxAttempts = 0 THEN 0 ELSE @ + 1]
       /\ UNCHANGED <<stopped, closing>>
    \/ /\ x # User /\ (stopped \/ (MaxAttempts > 0 /\ attempts[x] + 1 >= MaxAttempts))
       /\ Goto(x, "idle")
       /\ attempts' = [attempts EXCEPT ![x] = 0]
       /\ CallClose

\* connect: the client must not be stopped, and must be disconnected.
ConnectStart(x) ==
    /\ pc[x] = "start"
    /\ \/ /\ ~stopped /\ connState = "Disconnected"
          /\ connState' = "Connecting"
          /\ Goto(x, "submit")
          /\ UNCHANGED <<attempts, stopped, closing>>
       \/ /\ stopped \/ connState # "Disconnected"
          /\ Retry(x)
          /\ UNCHANGED connState
    /\ UNCHANGED <<serverVars, queue, dispVars, seekFrom, fromNewest, once, notifyClosed, connEvents, monVars, reply>>
    /\ Alive

\* The ConnectEvent is submitted.  If that fails the state stays Connecting.
ConnectSubmit(x) ==
    /\ pc[x] = "submit"
    /\ \/ /\ Ask(x, [type |-> "connect", by |-> x])
          /\ Goto(x, "waitConnect")
          /\ UNCHANGED <<attempts, stopped, closing>>
       \/ /\ ~running
          /\ Retry(x)
          /\ UNCHANGED <<queue, reply>>
    /\ UNCHANGED <<serverVars, dispVars, connState, seekFrom, fromNewest, once, notifyClosed, connEvents, monVars>>
    /\ Alive

ConnectAnswered(x) ==
    /\ pc[x] = "waitConnect"
    /\ \/ /\ reply[x] = "ok"
          /\ Goto(x, "once")
          /\ UNCHANGED <<attempts, stopped, closing, connState>>
       \/ /\ reply[x] = "err"
          /\ connState' = "Disconnected"
          /\ Retry(x)
    /\ Received(x)
    /\ UNCHANGED <<serverVars, queue, dispVars, seekFrom, fromNewest, once, notifyClosed, connEvents, monVars>>
    /\ Alive

\* registerOnce: the monitor starts on the first connection.  When the
\* registration fails the code looks at the wrong error, and the monitor is
\* left on a nil channel.
RegisterOnce(x) ==
    /\ pc[x] = "once"
    /\ once' = TRUE
    /\ \/ /\ once
          /\ Goto(x, "seek")
          /\ UNCHANGED <<queue, reply, monitor>>
       \/ /\ ~once /\ ~stopped
          /\ Ask(x, [type |-> "register", by |-> x])
          /\ Goto(x, "waitReg")
          /\ UNCHANGED monitor
       \/ /\ ~once /\ (stopped \/ ~running)
          /\ monitor' = "nilChannel"
          /\ Goto(x, "seek")
          /\ UNCHANGED <<queue, reply>>
    /\ UNCHANGED <<serverVars, dispVars, connState, stopped, seekFrom, fromNewest, notifyClosed, connEvents,
                   monEvent, peerVars, attempts, closing>>
    /\ Alive

RegisterAnswered(x) ==
    /\ pc[x] = "waitReg" /\ reply[x] # "none"
    /\ monitor' = IF reply[x] = "ok" THEN "on" ELSE "nilChannel"
    /\ Goto(x, "seek")
    /\ Received(x)
    /\ UNCHANGED <<serverVars, queue, dispVars, clientVars, connEvents, monEvent, peerVars,
                   attempts, closing>>
    /\ Alive

\* The afterConnect handler, deliverclient.seek.
Seek(x) ==
    /\ pc[x] = "seek"
    /\ \/ /\ Ask(x, [type |-> "seek", by |-> x, from |-> seekFrom])
          /\ Goto(x, "waitSeek")
       \/ /\ ~running
          /\ Goto(x, "undo")
          /\ UNCHANGED <<queue, reply>>
    /\ UNCHANGED <<serverVars, dispVars, clientVars, connEvents, monVars, attempts, closing>>
    /\ Alive

\* The answer to the seek, or respTimeout.
SeekAnswered(x) ==
    /\ pc[x] = "waitSeek"
    /\ \/ /\ reply[x] # "none"
          /\ Goto(x, IF reply[x] = "ok" THEN "connected" ELSE "undo")
          /\ UNCHANGED queue
       \/ /\ reply[x] = "none"
          /\ Abandon(x)
          /\ Goto(x, "undo")
    /\ Received(x)
    /\ UNCHANGED <<serverVars, dispVars, clientVars, connEvents, monVars, attempts, closing>>
    /\ Alive

\* The handler failed: ask the dispatcher to disconnect.
Undo(x) ==
    /\ pc[x] = "undo"
    /\ \/ Ask(x, [type |-> "disconnect", by |-> x])
       \/ ~running /\ UNCHANGED <<queue, reply>>
    /\ Goto(x, "waitUndo")
    /\ UNCHANGED <<serverVars, dispVars, clientVars, connEvents, monVars, attempts, closing>>
    /\ Alive

\* The answer, or respTimeout, and the attempt has failed.
Undone(x) ==
    /\ pc[x] = "waitUndo"
    /\ \/ reply[x] # "none" /\ UNCHANGED queue
       \/ reply[x] = "none" /\ Abandon(x)
    /\ connState' = IF connState = "Connecting" THEN "Disconnected" ELSE connState
    /\ Retry(x)
    /\ Received(x)
    /\ UNCHANGED <<serverVars, dispVars, seekFrom, fromNewest, once, notifyClosed, connEvents, monVars>>
    /\ Alive

\* Slip: the state is stored, not compared and swapped.
SetConnected_Always(x) ==
    /\ pc[x] = "connected"
    /\ connState' = "Connected"
    /\ Goto(x, "announce")
    /\ UNCHANGED <<serverVars, queue, dispVars, stopped, seekFrom, fromNewest, once, notifyClosed, connEvents,
                   monVars, attempts, reply, closing>>
    /\ Alive

\* The state becomes Connected if it is still Connecting; nobody looks whether
\* it did.
SetConnected(x) ==
    /\ pc[x] = "connected"
    /\ connState' = IF connState = "Connecting" THEN "Connected" ELSE connState
    /\ Goto(x, "announce")
    /\ UNCHANGED <<serverVars, queue, dispVars, stopped, seekFrom, fromNewest, once, notifyClosed, connEvents,
                   monVars, attempts, reply, closing>>
    /\ Alive

\* The ConnectedEvent is submitted and connect returns.
Announce(x) ==
    /\ pc[x] = "announce"
    /\ \/ Submit([type |-> "connected"])
       \/ ~running /\ UNCHANGED queue
    /\ Goto(x, "idle")
    /\ attempts' = [attempts EXCEPT ![x] = 0]
    /\ UNCHANGED <<serverVars, dispVars, clientVars, connEvents, monVars, reply, closing>>
    /\ Alive

-----------------------------------------------------------------------------
(* The dispatcher: one event of the queue at a time                        *)

Handle(type) == running /\ queue # <<>> /\ Head(queue).type = type /\ queue' = Tail(queue)

\* Slip: a failure is logged and nobody is told.
HandleConnectEvent_SilentOnError ==
    /\ Handle("connect")
    /\ \/ conn # 0 /\ Answer(Head(queue), "ok")
       \/ conn = 0 /\ UNCHANGED reply
    /\ UNCHANGED <<serverVars, dispVars, clientVars, connEvents, monVars, procVars>>
    /\ Alive

\* HandleConnectEvent.  Finding a peer and opening a stream may fail.
HandleConnectEvent ==
    /\ Handle("connect")
    /\ LET e == Head(queue) IN
       \/ /\ conn # 0
          /\ Answer(e, "ok")
          /\ UNCHANGED <<conn, connectedPeer, opened, open, recv>>
       \/ /\ conn = 0
          /\ Answer(e, "err")
          /\ UNCHANGED <<conn, connectedPeer, opened, open, recv>>
       \/ /\ conn = 0 /\ opened < MaxConns
          /\ Answer(e, "ok")
          /\ opened' = opened + 1
          /\ conn' = opened + 1
          /\ connectedPeer' = TRUE
          /\ open' = open \cup {opened + 1}
          /\ recv' = [recv EXCEPT ![opened + 1] = "recv"]
    /\ UNCHANGED <<height, cursor, inHand, running, connReg, lastBlock, infoOnly,
                   published, clientVars, connEvents, monVars, procVars>>
    /\ Alive

\* HandleRegisterConnectionEvent
HandleRegisterConnectionEvent ==
    /\ Handle("register")
    /\ Answer(Head(queue), IF connReg = "open" THEN "err" ELSE "ok")
    /\ connReg' = "open"
    /\ UNCHANGED <<serverVars, running, conn, connectedPeer, lastBlock, infoOnly, published,
                   clientVars, connEvents, monVars, procVars>>
    /\ Alive

\* handleSeekEvent.  Without a connection nobody is answered; with one, Send
\* may fail.  The server starts at the block it is asked for, or at its newest;
\* a request that never ends keeps it from reading the next one of the stream.
HandleSeekEvent ==
    /\ Handle("seek")
    /\ LET e == Head(queue) IN
       \/ /\ conn = 0
          /\ UNCHANGED <<cursor, reply>>
       \/ /\ conn # 0
          /\ Answer(e, "ok")
          /\ cursor' = [cursor EXCEPT ![conn] = IF @ # 0 THEN @ ELSE IF e.from = 0 THEN height ELSE e.from]
       \/ /\ conn # 0
          /\ Answer(e, "err")
          /\ UNCHANGED cursor
    /\ UNCHANGED <<height, opened, open, recv, inHand, dispVars, clientVars,
                   connEvents, monVars, procVars>>
    /\ Alive

\* Slip: the connection is forgotten but not closed.
HandleDisconnectEvent_LeavesOpen ==
    /\ Handle("disconnect")
    /\ Answer(Head(queue), IF conn = 0 THEN "err" ELSE "ok")
    /\ conn' = 0
    /\ connectedPeer' = (conn = 0 /\ connectedPeer)
    /\ UNCHANGED <<serverVars, running, connReg, lastBlock, infoOnly,
                   published, clientVars, connEvents, monVars, procVars>>
    /\ Alive

\* Slip: no answer when there is no connection.
HandleDisconnectEvent_Silent ==
    /\ Handle("disconnect")
    /\ IF conn = 0 THEN UNCHANGED reply ELSE Answer(Head(queue), "ok")
    /\ open' = open \ {conn}
    /\ conn' = 0
    /\ connectedPeer' = (conn = 0 /\ connectedPeer)
    /\ UNCHANGED <<height, opened, cursor, recv, inHand, running, connReg, lastBlock,
                   infoOnly, published, clientVars, connEvents, monVars, procVars>>
    /\ Alive

\* HandleDisconnectEvent
HandleDisconnectEvent ==
    /\ Handle("disconnect")
    /\ Answer(Head(queue), IF conn = 0 THEN "err" ELSE "ok")
    /\ open' = open \ {conn}
    /\ conn' = 0
    /\ connectedPeer' = (conn = 0 /\ connectedPeer)
    /\ UNCHANGED <<height, opened, cursor, recv, inHand, running, connReg, lastBlock,
                   infoOnly, published, clientVars, connEvents, monVars, procVars>>
    /\ Alive

\* An event for the connection monitor is dropped when its buffer is full.
Tell(e) ==
    connEvents' = IF connReg = "open" /\ Len(connEvents) < ConsumerBuffer
                  THEN Append(connEvents, e) ELSE connEvents

\* The dispatcher closes the done channel of the peer monitor it knows.
StopPeerMonitor ==
    /\ cancelled' = cancelled \cup monitorDone
    /\ monitorDone' = {}
    /\ UNCHANGED peerMon

\* HandleConnectedEvent tells the monitor, and starts a peer monitor.  The done
\* channel of one that is still running is forgotten.
HandleConnectedEvent ==
    /\ Handle("connected")
    /\ Tell("connected")
    /\ \/ \E m \in PeerMonitors :
             /\ peerMon[m] = "off"
             /\ peerMon' = [peerMon EXCEPT ![m] = "on"]
             /\ monitorDone' = {m}
       \/ /\ \A m \in PeerMonitors : peerMon[m] # "off"
          /\ monitorDone' = {}
          /\ UNCHANGED peerMon
    /\ UNCHANGED <<serverVars, dispVars, clientVars, monitor, monEvent, cancelled, procVars, reply>>
    /\ Alive

\* HandleDisconnectedEvent: whatever connection there is gets closed, the
\* connection monitor is told and the peer monitor stops.  An error status of
\* the deliver server (handleDeliverResponseStatus) does the same after it has
\* disconnected, which also forgets the peer.
HandleDisconnectedEvent ==
    /\ Handle("disconnected") \/ Handle("status")
    /\ open' = open \ {conn}
    /\ conn' = 0
    /\ connectedPeer' = (connectedPeer /\ (conn = 0 \/ Head(queue).type = "disconnected"))
    /\ Tell(IF Head(queue).fatal THEN "fatal" ELSE "disconnected")
    /\ StopPeerMonitor
    /\ UNCHANGED <<height, opened, cursor, recv, inHand, running, connReg, lastBlock,
                   infoOnly, published, clientVars, monitor, monEvent, procVars, reply>>
    /\ Alive

\* Slip: the number of the block is not compared with the last one.
HandleBlock_NoCheck ==
    /\ Handle("block")
    /\ LET b == Head(queue).number IN
       /\ lastBlock' = b
       /\ infoOnly' = FALSE
       /\ published' = IF infoOnly THEN published ELSE Append(published, b)
    /\ UNCHANGED <<serverVars, running, conn, connectedPeer, connReg, clientVars, connEvents,
                   monVars, procVars, reply>>
    /\ Alive

\* HandleBlock and HandleFilteredBlock: updateLastBlockNum refuses a block
\* that is not newer; the first block may be for the height only.
HandleBlock ==
    /\ Handle("block")
    /\ LET b == Head(queue).number IN
       \/ /\ lastBlock = 0 \/ b > lastBlock
          /\ lastBlock' = b
          /\ infoOnly' = FALSE
          /\ published' = IF infoOnly THEN published ELSE Append(published, b)
       \/ /\ lastBlock # 0 /\ b <= lastBlock
          /\ UNCHANGED <<lastBlock, infoOnly, published>>
    /\ UNCHANGED <<serverVars, running, conn, connectedPeer, connReg, clientVars, connEvents,
                   monVars, procVars, reply>>
    /\ Alive

\* HandleStopEvent: the registrations' channels are closed, and so is the
\* connection monitor's.  The loop ends with the queue as it is.
HandleStopEvent ==
    /\ Handle("stop")
    /\ Answer(Head(queue), "ok")
    /\ running' = FALSE
    /\ connReg' = IF connReg = "open" THEN "closed" ELSE connReg
    /\ StopPeerMonitor
    /\ UNCHANGED <<serverVars, conn, connectedPeer, lastBlock, infoOnly, published, clientVars, connEvents,
                   monitor, monEvent, procVars>>
    /\ Alive

\* HandleStopAndTransferEvent, which the client's dispatcher does not override.
HandleStopAndTransferEvent ==
    /\ Handle("stopAndTransfer")
    /\ Answer(Head(queue), "ok")
    /\ running' = FALSE
    /\ UNCHANGED <<serverVars, conn, connectedPeer, connReg, lastBlock, infoOnly, published, clientVars,
                   connEvents, monVars, procVars>>
    /\ Alive

-----------------------------------------------------------------------------
(* DeliverConnection.Receive, and the server at the other end              *)

\* Recv returns: a block, an error status, after which the server ends the
\* stream, the end of the stream, of which nobody is told, or an error.  A
\* connection closed in the meantime ends the loop.
Receive(c) ==
    /\ recv[c] = "recv"
    /\ \/ /\ c \notin open
          /\ recv' = [recv EXCEPT ![c] = "ended"]
          /\ UNCHANGED <<inHand, cursor>>
       \/ /\ c \in open /\ cursor[c] \in 1..height
          /\ recv' = [recv EXCEPT ![c] = "post"]
          /\ inHand' = [inHand EXCEPT ![c] = [type |-> "block", number |-> cursor[c]]]
          /\ cursor' = [cursor EXCEPT ![c] = @ + 1]
       \/ /\ c \in open /\ cursor[c] \in 1..(MaxHeight + 1)
          /\ recv' = [recv EXCEPT ![c] = "post"]
          /\ \E f \in BOOLEAN : inHand' = [inHand EXCEPT ![c] = [type |-> "status", fatal |-> f]]
          /\ cursor' = [cursor EXCEPT ![c] = Ended]
       \/ /\ c \in open /\ cursor[c] = Ended
          /\ recv' = [recv EXCEPT ![c] = "ended"]
          /\ UNCHANGED <<inHand, cursor>>
       \/ /\ c \in open
          /\ recv' = [recv EXCEPT ![c] = "post"]
          /\ inHand' = [inHand EXCEPT ![c] = [type |-> "disconnected", fatal |-> FALSE]]
          /\ UNCHANGED cursor
    /\ UNCHANGED <<height, opened, open, queue, dispVars, clientVars, connEvents,
                   monVars, procVars, reply>>
    /\ Alive

\* eventch <- event, which blocks while the queue is full.
Post(c) ==
    /\ recv[c] = "post"
    /\ Len(queue) < QueueSize
    /\ queue' = Append(queue, inHand[c])
    /\ recv' = [recv EXCEPT ![c] = IF inHand[c].type = "disconnected" THEN "ended" ELSE "recv"]
    /\ inHand' = [inHand EXCEPT ![c] = Nothing]
    /\ UNCHANGED <<height, opened, open, cursor, dispVars, clientVars, connEvents,
                   monVars, procVars, reply>>
    /\ Alive

BlockCommits ==
    /\ height < MaxHeight
    /\ height' = height + 1
    /\ UNCHANGED <<opened, open, cursor, recv, inHand, queue, dispVars, clientVars,
                   connEvents, monVars, procVars, reply>>
    /\ Alive

-----------------------------------------------------------------------------
(* monitorConnection                                                       *)

MonitorReceive ==
    /\ monitor = "on"
    /\ \/ /\ connEvents # <<>>
          /\ monitor' = IF stopped THEN "ended" ELSE "notify"
          /\ monEvent' = Head(connEvents)
          /\ connEvents' = Tail(connEvents)
       \/ /\ connEvents = <<>> /\ connReg = "closed"
          /\ monitor' = "ended"
          /\ UNCHANGED <<monEvent, connEvents>>
    /\ UNCHANGED <<serverVars, queue, dispVars, clientVars, peerVars, procVars, reply>>
    /\ Alive

\* notifyConnectEventChan, then the reaction to the event.  The channel may
\* have been closed since the client was last seen not to be stopped.
MonitorReact ==
    /\ monitor = "notify"
    /\ NotPanicked /\ panicked' = notifyClosed
    /\ monEvent' = "none"
    /\ \/ /\ monEvent = "connected"
          /\ monitor' = "on"
          /\ UNCHANGED <<connState, stopped, closing, pc>>
       \/ /\ monEvent # "connected" /\ reconn /\ connState = "Connected"
          /\ connState' = "Disconnected"
          /\ \/ /\ monEvent = "fatal"
                /\ monitor' = "ended"
                /\ CallClose
                /\ UNCHANGED pc
             \/ /\ monEvent = "disconnected"
                /\ monitor' = "on"
                /\ \E x \in Reconnectors : pc[x] = "idle" /\ Goto(x, "delay")
                /\ UNCHANGED <<stopped, closing>>
       \/ /\ monEvent # "connected" /\ reconn /\ connState # "Connected"
          /\ connState' = "Disconnected"
          /\ monitor' = "on"
          /\ UNCHANGED <<stopped, closing, pc>>
       \/ /\ monEvent # "connected" /\ ~reconn
          /\ monitor' = "ended"
          /\ CallClose
          /\ UNCHANGED <<connState, pc>>
    /\ UNCHANGED <<serverVars, queue, dispVars, seekFrom, fromNewest, once, notifyClosed, connEvents, peerVars,
                   attempts, reply>>

-----------------------------------------------------------------------------
(* monitorPeer: the peer resolver decides to leave the connected peer      *)

PeerMonitorDisconnects(m) ==
    /\ peerMon[m] = "on" /\ connectedPeer
    /\ Ask(m, [type |-> "disconnect", by |-> m])
    /\ peerMon' = [peerMon EXCEPT ![m] = "wait"]
    /\ UNCHANGED <<serverVars, dispVars, clientVars, connEvents, monitor, monEvent, monitorDone,
                   cancelled, procVars>>
    /\ Alive

PeerMonitorAnswered(m) ==
    /\ peerMon[m] = "wait" /\ reply[m] # "none"
    /\ peerMon' = [peerMon EXCEPT ![m] = IF reply[m] = "ok" THEN "notify" ELSE "on"]
    /\ Received(m)
    /\ UNCHANGED <<serverVars, queue, dispVars, clientVars, connEvents, monitor, monEvent, monitorDone,
                   cancelled, procVars>>
    /\ Alive

\* The monitor has ended; nobody sees its done channel any more.
PeerMonitorEnds(m) ==
    /\ peerMon' = [peerMon EXCEPT ![m] = "off"]
    /\ monitorDone' = monitorDone \ {m}
    /\ cancelled' = cancelled \ {m}

PeerMonitorNotifies(m) ==
    /\ peerMon[m] = "notify"
    /\ Len(queue) < QueueSize
    /\ queue' = Append(queue, [type |-> "disconnected", fatal |-> FALSE])
    /\ PeerMonitorEnds(m)
    /\ UNCHANGED <<serverVars, dispVars, clientVars, connEvents, monitor, monEvent, procVars, reply>>
    /\ Alive

\* The done channel is closed; the ticker may still win once more before that is seen.
PeerMonitorStops(m) ==
    /\ peerMon[m] = "on" /\ m \in cancelled
    /\ PeerMonitorEnds(m)
    /\ UNCHANGED <<serverVars, queue, dispVars, clientVars, connEvents, monitor, monEvent, procVars, reply>>
    /\ Alive

-----------------------------------------------------------------------------
(* Close and TransferRegistrations(true)                                   *)

UserCloses ==
    /\ Closes /\ ~stopped
    /\ CallClose
    /\ UNCHANGED <<serverVars, queue, dispVars, connState, seekFrom, fromNewest, once, notifyClosed, connEvents,
                   monVars, pc, attempts, reply>>
    /\ Alive

\* closeConnectEventChan
CloseConnectEventChan ==
    /\ closing = "channel"
    /\ notifyClosed' = TRUE
    /\ closing' = "disconnect"
    /\ UNCHANGED <<serverVars, queue, dispVars, connState, stopped, seekFrom, fromNewest, once, connEvents,
                   monVars, pc, attempts, reply>>
    /\ Alive

CloseDisconnect ==
    /\ closing = "disconnect"
    /\ Ask(Closer, [type |-> "disconnect", by |-> Closer])
    /\ closing' = "waitDisconnect"
    /\ UNCHANGED <<serverVars, dispVars, clientVars, connEvents, monVars, pc, attempts>>
    /\ Alive

CloseDisconnected ==
    /\ closing = "waitDisconnect" /\ reply[Closer] # "none"
    /\ closing' = "stop"
    /\ Received(Closer)
    /\ UNCHANGED <<serverVars, queue, dispVars, clientVars, connEvents, monVars, pc, attempts>>
    /\ Alive

\* Service.Stop, or Service.StopAndTransfer.
CloseStop ==
    /\ closing = "stop"
    /\ \E t \in {"stop", "stopAndTransfer"} : Ask(Closer, [type |-> t, by |-> Closer])
    /\ closing' = "waitStop"
    /\ UNCHANGED <<serverVars, dispVars, clientVars, connEvents, monVars, pc, attempts>>
    /\ Alive

\* The answer, or stopTimeout.
CloseStopped ==
    /\ closing = "waitStop"
    /\ \/ reply[Closer] # "none" /\ UNCHANGED queue
       \/ reply[Closer] = "none" /\ Abandon(Closer)
    /\ closing' = "final"
    /\ Received(Closer)
    /\ UNCHANGED <<serverVars, dispVars, clientVars, connEvents, monVars, pc, attempts>>
    /\ Alive

CloseFinal ==
    /\ closing = "final"
    /\ connState' = "Disconnected"
    /\ closing' = "returned"
    /\ UNCHANGED <<serverVars, queue, dispVars, stopped, seekFrom, fromNewest, once, notifyClosed, connEvents,
                   monVars, pc, attempts, reply>>
    /\ Alive

-----------------------------------------------------------------------------
Connector(x) ==
    \/ SetSeekFromLastBlockReceived(x)
    \/ ConnectStart(x)
    \/ ConnectSubmit(x)
    \/ ConnectAnswered(x)
    \/ RegisterOnce(x)
    \/ RegisterAnswered(x)
    \/ Seek(x)
    \/ SeekAnswered(x)
    \/ Undo(x)
    \/ Undone(x)
    \/ SetConnected(x)
    \/ Announce(x)

Dispatcher ==
    \/ HandleConnectEvent
    \/ HandleRegisterConnectionEvent
    \/ HandleSeekEvent
    \/ HandleDisconnectEvent
    \/ HandleConnectedEvent
    \/ HandleDisconnectedEvent
    \/ HandleBlock
    \/ HandleStopEvent
    \/ HandleStopAndTransferEvent

Closing ==
    \/ CloseConnectEventChan
    \/ CloseDisconnect
    \/ CloseDisconnected
    \/ CloseStop
    \/ CloseStopped
    \/ CloseFinal

Monitor == MonitorReceive \/ MonitorReact

Next ==
    \/ \E x \in Connectors : Connector(x)
    \/ Dispatcher
    \/ \E c \in Conns : Receive(c) \/ Post(c)
    \/ BlockCommits
    \/ Monitor
    \/ \E m \in PeerMonitors : \/ PeerMonitorDisconnects(m)
                               \/ PeerMonitorAnswered(m)
                               \/ PeerMonitorNotifies(m)
                               \/ PeerMonitorStops(m)
    \/ UserCloses
    \/ Closing

Spec == Init /\ [][Next]_vars

\* Goroutines that can run do, and a full channel serves its blocked senders in
\* the order they came, so nobody is kept from sending for ever.  The ledger need
\* not grow, streams need neither deliver nor break, connecting need not succeed,
\* and the user need not do anything.
Fairness ==
    /\ \A x \in Connectors : SF_vars(Connector(x))
    /\ WF_vars(Dispatcher)
    /\ \A c \in Conns : SF_vars(Post(c))
    /\ WF_vars(Monitor)
    /\ \A m \in PeerMonitors :
          SF_vars(PeerMonitorAnswered(m) \/ PeerMonitorNotifies(m) \/ PeerMonitorStops(m))
    /\ SF_vars(Closing)

FairSpec == Spec /\ Fairness

-----------------------------------------------------------------------------
(* Safety                                                                  *)

Gap(i) == published[i + 1] > published[i] + 1

\* The registrations are sent no block twice and none out of order across
\* reconnects, with blocks of an old connection still in the queue when the new
\* one seeks; and none is left out, unless a reconnect found that no block had
\* been received yet and asked for the newest (setSeekFromLastBlockReceived,
\* updateLastBlockNum).
PublishedInOrder ==
    \A i \in 1..(Len(published) - 1) : published[i] < published[i + 1] /\ (Gap(i) => fromNewest)

\* Whatever connection is not the dispatcher's current one is closed: the
\* reconnects, forced disconnects and stale events never leave a second stream
\* behind (HandleConnectEvent, HandleDisconnectEvent, HandleDisconnectedEvent).
OneConnection == open \subseteq {conn}

\* An event that will tell the connection monitor that the connection is gone.
Loss(e) == e.type \in {"disconnected", "status"}
LossUnderWay ==
    \/ \E i \in 1..Len(queue) : Loss(queue[i])
    \/ \E c \in Conns : recv[c] = "post" /\ Loss(inHand[c])
    \/ \E i \in 1..Len(connEvents) : connEvents[i] # "connected"
    \/ monEvent \in {"disconnected", "fatal"}
    \/ \E m \in PeerMonitors : peerMon[m] = "notify" \/ (peerMon[m] = "wait" /\ reply[m] = "ok")

\* No connection is lost in silence: a client that takes itself to be connected
\* has a connection that somebody receives from, or word of its loss is on the
\* way to the connection monitor, which starts the reconnect (Receive,
\* HandleDisconnectedEvent, monitorPeer, monitorConnection).
NoSilentLoss ==
    connState = "Connected" /\ ~stopped /\ monitor = "on" =>
        (conn # 0 /\ recv[conn] # "ended") \/ LossUnderWay

-----------------------------------------------------------------------------
(* Liveness                                                                *)

\* An attempt to connect ends: the dispatcher answers, or the timeouts fire,
\* unless the client is being stopped.
ConnectReturns ==
    \A x \in Connectors : pc[x] = "submit" ~> pc[x] \in {"idle", "start", "failed"} \/ stopped

\* Close returns, whatever the dispatcher, the reconnects and the streams are
\* doing when it is called.
CloseReturns == closing = "channel" ~> closing = "returned" \/ panicked
==============================================================================
