--------------------------- MODULE EventDispatcher ---------------------------
(***************************************************************************)
(* Registrations and the publishing of blocks to them:                     *)
(* pkg/fab/events/service/service.go and the event loop of                 *)
(* pkg/fab/events/service/dispatcher.                                      *)
(*                                                                         *)
(* A registration stands for the goroutine that makes it too: it calls     *)
(* Register..., reads the channel it is given and calls Unregister.  Its   *)
(* calls go to the service that is current when it makes them.  A mover    *)
(* stops a service, or transfers its registrations, and starts the next    *)
(* one, as EventClientRef and TransferRegistrations do; services are       *)
(* numbered in the order they are started, each with its own dispatcher.   *)
(*                                                                         *)
(* A dispatcher handles an event in one step, except a block: sending it   *)
(* to one registration is a step, because a send may wait for the reader.  *)
(* Block numbers are Naturals; -1 stands for math.MaxUint64, "no block".   *)
(* A transaction carries at most one chaincode event.                      *)
(***************************************************************************)
EXTENDS Integers, Sequences, FiniteSets, Functions

CONSTANTS
    Regs,               \* registrations that can be made
    NoReg,              \* nil
    Kind,               \* Regs -> {"block", "filtered", "cc", "tx"}
    Keys,               \* transaction IDs, and chaincode ID with event filter
    Key,                \* the key of each "cc" and "tx" registration
    FirstBlock, LastBlock,
    Txs,                \* block -> sequence of [tx : Keys, valid : BOOLEAN, event : SUBSET Keys]
    Accepted,           \* block -> the block registrations whose filter accepts it
    Services,           \* how many event services there are, one after the other
    QueueSize,          \* capacity of the dispatcher's event channel
    BufferSize,         \* capacity of a registration's channel
    ConsumerTimeouts,   \* the timeouts tried: "none" is < 0, "infinite" 0, "finite" > 0
    InfoOnlyOptions     \* whether UpdateLastBlockInfoOnly was called: no seek type was given

Blocks == FirstBlock..LastBlock
NoBlock == -1

ASSUME RegsAssumption == IsFiniteSet(Regs) /\ NoReg \notin Regs
ASSUME KindAssumption == Kind \in [Regs -> {"block", "filtered", "cc", "tx"}] /\ Key \in [Regs -> Keys]
ASSUME BlocksAssumption == FirstBlock \in Nat /\ LastBlock \in Nat /\ InfoOnlyOptions \subseteq BOOLEAN
ASSUME TxsAssumption == Txs \in [Blocks -> Seq([tx : Keys, valid : BOOLEAN, event : SUBSET Keys])]
\* txRegistrations and ccRegistrations are two maps: a transaction ID is not the
\* key of a chaincode event.
ASSUME KeysAssumption ==
    \A r \in Regs :
        /\ Kind[r] = "cc" => \A q \in Regs : Kind[q] = "tx" => Key[q] # Key[r]
        /\ \A b \in Blocks : \A i \in 1..Len(Txs[b]) :
              /\ Kind[r] = "cc" => Key[r] # Txs[b][i].tx
              /\ Kind[r] = "tx" => Key[r] \notin Txs[b][i].event
ASSUME AcceptedAssumption == Accepted \in [Blocks -> SUBSET Regs]
ASSUME SizesAssumption == Services \in Nat \ {0} /\ QueueSize \in Nat \ {0} /\ BufferSize \in Nat \ {0}
ASSUME TimeoutsAssumption == ConsumerTimeouts \subseteq {"none", "infinite", "finite"}

VARIABLES
    \* the dispatchers
    state,      \* ed.state
    queue,      \* ed.eventch
    list,       \* ed.blockRegistrations and ed.filteredBlockRegistrations
    table,      \* ed.txRegistrations and ed.ccRegistrations, by key
    lastBlock,  \* ed.lastBlockNum
    infoOnly,   \* ed.updateLastBlockInfoOnly
    timeout,    \* ed.eventConsumerTimeout
    sending,    \* the block being published: [block, loop, left]
    feed,       \* the last block the event server has sent
    \* the registrations
    caller,     \* where the goroutine of each registration is
    at,         \* the service its call goes to, 0 if it makes none
    buffer,     \* number of events in its channel
    chanClosed, \* its channel is closed
    sent,       \* the blocks of the events sent to it
    since,      \* the last block when it was registered
    \* the mover
    current,    \* the service in use
    mover,      \* where the mover is
    snapshot,   \* the registrations it was given
    lost,       \* registrations in a snapshot nobody receives
    panicked

dispVars == <<list, table, lastBlock, infoOnly>>
regVars == <<caller, at, buffer, chanClosed, sent, since>>
moverVars == <<current, mover, snapshot, lost>>
vars == <<state, queue, list, table, lastBlock, infoOnly, sending, feed, caller, at,
          buffer, chanClosed, sent, since, current, mover, snapshot, lost, timeout, panicked>>

Dispatchers == 1..Services
Idle == [block |-> NoBlock, loop |-> 0, left |-> {}]
NoLists == [block |-> <<>>, filtered |-> <<>>]
NoTable == [k \in Keys |-> NoReg]
NoSnapshot == [list |-> NoLists, table |-> NoTable, last |-> NoBlock]

\* The registrations of a dispatcher, or of a snapshot.
Registered(l, t) == Range(l.block) \cup Range(l.filtered) \cup ({t[k] : k \in Keys} \ {NoReg})

Events ==
    [type : {"register", "unregister"}, reg : Regs]
        \cup [type : {"block"}, number : Blocks]
        \cup [type : {"stop", "transfer", "stopAndTransfer"}, awaited : BOOLEAN]

TypeOK ==
    /\ state \in [Dispatchers -> {"initial", "started", "stopped"}]
    /\ \A d \in Dispatchers :
          /\ queue[d] \in Seq(Events) /\ Len(queue[d]) <= QueueSize
          /\ list[d].block \in Seq(Regs) /\ list[d].filtered \in Seq(Regs)
          /\ table[d] \in [Keys -> Regs \cup {NoReg}]
          /\ sending[d] # Idle => sending[d].block \in Blocks /\ sending[d].left \subseteq Regs
          /\ lastBlock[d] \in Blocks \cup {NoBlock} /\ infoOnly[d] \in BOOLEAN
          /\ feed[d] \in (FirstBlock - 1)..LastBlock
    /\ caller \in [Regs -> {"out", "registering", "waiting", "using", "unregistering", "done"}]
    /\ at \in [Regs -> 0..Services]
    /\ buffer \in [Regs -> 0..BufferSize] /\ chanClosed \in [Regs -> BOOLEAN]
    /\ sent \in [Regs -> Seq(Blocks)] /\ since \in [Regs -> Blocks \cup {NoBlock}]
    /\ timeout \in ConsumerTimeouts
    /\ current \in Dispatchers /\ panicked \in BOOLEAN /\ lost \subseteq Regs
    /\ mover \in {"idle", "stop", "transfer", "stopAndTransfer", "waiting", "moved"}

Init ==
    /\ timeout \in ConsumerTimeouts
    /\ state = [d \in Dispatchers |-> IF d = 1 THEN "started" ELSE "initial"]
    /\ queue = [d \in Dispatchers |-> <<>>]
    /\ list = [d \in Dispatchers |-> NoLists]
    /\ table = [d \in Dispatchers |-> NoTable]
    /\ lastBlock = [d \in Dispatchers |-> NoBlock]
    /\ \E option \in InfoOnlyOptions : infoOnly = [d \in Dispatchers |-> option]
    /\ sending = [d \in Dispatchers |-> Idle]
    /\ feed = [d \in Dispatchers |-> FirstBlock - 1]
    /\ caller = [r \in Regs |-> "out"]
    /\ at = [r \in Regs |-> 0]
    /\ buffer = [r \in Regs |-> 0]
    /\ chanClosed = [r \in Regs |-> FALSE]
    /\ sent = [r \in Regs |-> <<>>]
    /\ since = [r \in Regs |-> NoBlock]
    /\ current = 1 /\ mover = "idle" /\ snapshot = NoSnapshot /\ lost = {}
    /\ panicked = FALSE

-----------------------------------------------------------------------------
(* Helpers                                                                 *)

\* Nothing happens after a panic, and the timeout is an option.
NotPanicked == ~panicked /\ UNCHANGED timeout

Alive == NotPanicked /\ panicked' = FALSE

\* eventch <- e, which blocks while the channel is full, whatever the state of
\* the dispatcher behind it is by now.
Post(d, e) ==
    /\ Len(queue[d]) < QueueSize
    /\ queue' = [queue EXCEPT ![d] = Append(@, e)]

\* The dispatcher takes the next event, once it is done with the last one.
Handle(d, type) ==
    /\ state[d] = "started" /\ sending[d] = Idle
    /\ queue[d] # <<>> /\ Head(queue[d]).type = type
    /\ queue' = [queue EXCEPT ![d] = Tail(@)]

Goto(r, l) == caller' = [caller EXCEPT ![r] = l]

\* The channels of a set of registrations are closed; closing one twice panics.
CloseChannels(R) ==
    /\ chanClosed' = [r \in Regs |-> chanClosed[r] \/ r \in R]
    /\ NotPanicked /\ panicked' = (\E r \in R : chanClosed[r])

-----------------------------------------------------------------------------
(* The goroutine of a registration                                         *)

\* RegisterBlockEvent, RegisterTxStatusEvent, ...: EventCh, which refuses when
\* the dispatcher is not started ...
Register(r) ==
    /\ caller[r] = "out" /\ state[current] = "started"
    /\ Goto(r, "registering")
    /\ at' = [at EXCEPT ![r] = current]
    /\ UNCHANGED <<state, queue, dispVars, sending, feed, buffer, chanClosed, sent, since, moverVars>>
    /\ Alive

\* ... and the event.  The caller then waits, for as long as it takes.
RegisterSend(r) ==
    /\ caller[r] = "registering"
    /\ Post(at[r], [type |-> "register", reg |-> r])
    /\ Goto(r, "waiting")
    /\ UNCHANGED <<state, dispVars, sending, feed, at, buffer, chanClosed, sent, since, moverVars>>
    /\ Alive

\* The consumer reads an event of its channel.
Read(r) ==
    /\ caller[r] = "using" /\ buffer[r] > 0
    /\ buffer' = [buffer EXCEPT ![r] = @ - 1]
    /\ UNCHANGED <<state, queue, dispVars, sending, feed, caller, at, chanClosed, sent, since, moverVars>>
    /\ Alive

\* Unregister: EventCh; a stopped dispatcher is logged and that is all.
Unregister(r) ==
    /\ caller[r] = "using"
    /\ \/ /\ state[current] = "started"
          /\ Goto(r, "unregistering")
          /\ at' = [at EXCEPT ![r] = current]
       \/ /\ state[current] # "started"
          /\ Goto(r, "done")
          /\ UNCHANGED at
    /\ UNCHANGED <<state, queue, dispVars, sending, feed, buffer, chanClosed, sent, since, moverVars>>
    /\ Alive

\* The event is sent; nobody waits for its effect.
UnregisterSend(r) ==
    /\ caller[r] = "unregistering"
    /\ Post(at[r], [type |-> "unregister", reg |-> r])
    /\ Goto(r, "done")
    /\ at' = [at EXCEPT ![r] = 0]
    /\ UNCHANGED <<state, dispVars, sending, feed, buffer, chanClosed, sent, since, moverVars>>
    /\ Alive

-----------------------------------------------------------------------------
(* The dispatcher: registrations                                           *)

\* handleRegisterBlockEvent, handleRegisterFilteredBlockEvent: append.
\* handleRegisterCCEvent, handleRegisterTxStatusEvent: unless the key is taken.
HandleRegister(d) ==
    /\ Handle(d, "register")
    /\ at' = [at EXCEPT ![Head(queue[d]).reg] = 0]
    /\ LET r == Head(queue[d]).reg
           k == Kind[r] IN
       \/ /\ k \in {"block", "filtered"}
          /\ list' = [list EXCEPT ![d][k] = Append(@, r)]
          /\ Goto(r, "using")
          /\ since' = [since EXCEPT ![r] = lastBlock[d]]
          /\ UNCHANGED table
       \/ /\ k \in {"cc", "tx"} /\ table[d][Key[r]] = NoReg
          /\ table' = [table EXCEPT ![d][Key[r]] = r]
          /\ Goto(r, "using")
          /\ since' = [since EXCEPT ![r] = lastBlock[d]]
          /\ UNCHANGED list
       \/ /\ k \in {"cc", "tx"} /\ table[d][Key[r]] # NoReg
          /\ Goto(r, "out")
          /\ UNCHANGED <<list, table, since>>
    /\ UNCHANGED <<state, lastBlock, infoOnly, sending, feed, buffer, chanClosed, sent, moverVars>>
    /\ Alive

\* "Move the 0'th item to i and then delete the 0'th item"
WithoutItem(s, i) == Tail([s EXCEPT ![i] = s[1]])

\* unregisterBlockEvents and unregisterFilteredBlockEvents look for the
\* registration; unregisterCCEvents and unregisterTXEvents for its key,
\* whoever has registered it by now.
HandleUnregister(d) ==
    /\ Handle(d, "unregister")
    /\ LET r == Head(queue[d]).reg
           k == Kind[r] IN
       \/ /\ k \in {"block", "filtered"}
          /\ \E i \in 1..Len(list[d][k]) :
                /\ list[d][k][i] = r
                /\ list' = [list EXCEPT ![d][k] = WithoutItem(@, i)]
          /\ CloseChannels({r})
          /\ UNCHANGED table
       \/ /\ k \in {"cc", "tx"} /\ table[d][Key[r]] # NoReg
          /\ table' = [table EXCEPT ![d][Key[r]] = NoReg]
          /\ CloseChannels({table[d][Key[r]]})
          /\ UNCHANGED list
       \/ /\ r \notin Range(list[d].block) \cup Range(list[d].filtered)
          /\ k \in {"cc", "tx"} => table[d][Key[r]] = NoReg
          /\ CloseChannels({})
          /\ UNCHANGED <<list, table>>
    /\ UNCHANGED <<state, lastBlock, infoOnly, sending, feed, caller, at, buffer, sent, since, moverVars>>

-----------------------------------------------------------------------------
(* The dispatcher: blocks                                                  *)

\* Slip: the number of the block is not compared with the last one.
HandleBlock_NoCheck(d) ==
    /\ Handle(d, "block")
    /\ lastBlock' = [lastBlock EXCEPT ![d] = Head(queue[d]).number]
    /\ infoOnly' = [infoOnly EXCEPT ![d] = FALSE]
    /\ sending' = [sending EXCEPT ![d] =
          IF infoOnly[d] THEN Idle ELSE [block |-> Head(queue[d]).number, loop |-> 0, left |-> {}]]
    /\ UNCHANGED <<state, list, table, feed, regVars, moverVars>>
    /\ Alive

\* HandleBlock, up to the publishing.
HandleBlock(d) ==
    /\ Handle(d, "block")
    /\ LET b == Head(queue[d]).number IN
       \/ /\ lastBlock[d] = NoBlock \/ b > lastBlock[d]
          /\ lastBlock' = [lastBlock EXCEPT ![d] = b]
          /\ infoOnly' = [infoOnly EXCEPT ![d] = FALSE]
          /\ sending' = [sending EXCEPT ![d] =
                IF infoOnly[d] THEN Idle ELSE [block |-> b, loop |-> 0, left |-> {}]]
       \/ /\ lastBlock[d] # NoBlock /\ b <= lastBlock[d]
          /\ UNCHANGED <<lastBlock, infoOnly, sending>>
    /\ UNCHANGED <<state, list, table, feed, regVars, moverVars>>
    /\ Alive

\* The loops of publishBlockEvents and publishFilteredBlockEvents over block b:
\* 1 the block registrations, 2 the filtered block registrations, and for
\* each transaction one for its status and one for its chaincode event.
Loops(b) == 2 + 2 * Len(Txs[b])

\* Slip: the events of invalid transactions are published too.
Receivers_OfInvalid(d, b, n) ==
    IF n = 1 THEN Range(list[d].block) \cap Accepted[b]
    ELSE IF n = 2 THEN Range(list[d].filtered)
    ELSE LET tx == Txs[b][(n - 1) \div 2]
             keys == IF n % 2 = 1 THEN {tx.tx} ELSE tx.event
         IN  {table[d][k] : k \in keys} \ {NoReg}

\* The registrations loop n sends an event to.  A chaincode event is sent only
\* if its transaction is valid.
Receivers(d, b, n) ==
    IF n = 1 THEN Range(list[d].block) \cap Accepted[b]
    ELSE IF n = 2 THEN Range(list[d].filtered)
    ELSE LET tx == Txs[b][(n - 1) \div 2]
             keys == IF n % 2 = 1 THEN {tx.tx} ELSE IF tx.valid THEN tx.event ELSE {}
         IN  {table[d][k] : k \in keys} \ {NoReg}

\* The next loop that sends anything, or the end of the block.
PublishNext(d) ==
    /\ sending[d] # Idle /\ sending[d].left = {}
    /\ LET b == sending[d].block
           todo == {n \in (sending[d].loop + 1)..Loops(b) : Receivers(d, b, n) # {}} IN
       \/ /\ todo = {}
          /\ sending' = [sending EXCEPT ![d] = Idle]
       \/ \E n \in todo :
             /\ \A m \in todo : n <= m
             /\ sending' = [sending EXCEPT ![d] = [block |-> b, loop |-> n, left |-> Receivers(d, b, n)]]
    /\ UNCHANGED <<state, queue, dispVars, feed, regVars, moverVars>>
    /\ Alive

\* The event goes into the registration's channel.
Publish(d, r) ==
    /\ r \in sending[d].left
    /\ sending' = [sending EXCEPT ![d].left = @ \ {r}]
    /\ \/ /\ ~chanClosed[r] /\ buffer[r] < BufferSize
          /\ buffer' = [buffer EXCEPT ![r] = @ + 1]
          /\ sent' = [sent EXCEPT ![r] = Append(@, sending[d].block)]
          /\ Alive
       \/ /\ chanClosed[r]
          /\ NotPanicked /\ panicked' = TRUE
          /\ UNCHANGED <<buffer, sent>>
    /\ UNCHANGED <<state, queue, dispVars, feed, caller, at, chanClosed, since, moverVars>>

\* Slip: only a negative timeout lets the dispatcher go on.
GiveUp_OnlyAtOnce(d, r) ==
    /\ r \in sending[d].left /\ timeout = "none"
    /\ ~chanClosed[r] /\ buffer[r] = BufferSize
    /\ sending' = [sending EXCEPT ![d].left = @ \ {r}]
    /\ UNCHANGED <<state, queue, dispVars, feed, regVars, moverVars>>
    /\ Alive

\* The channel is full: the event is dropped, at once or after a while.
GiveUp(d, r) ==
    /\ r \in sending[d].left /\ timeout # "infinite"
    /\ ~chanClosed[r] /\ buffer[r] = BufferSize
    /\ sending' = [sending EXCEPT ![d].left = @ \ {r}]
    /\ UNCHANGED <<state, queue, dispVars, feed, regVars, moverVars>>
    /\ Alive

\* The event server sends the next block, or one it has sent before a reconnect.
\* The goroutine that receives it has the channel, and asks nobody for the state.
\* A service that is neither in use nor has a registration is not looked at.
Feed(d, b) ==
    /\ state[d] # "initial" /\ b <= feed[d] + 1
    /\ d = current \/ Registered(list[d], table[d]) # {}
    /\ Post(d, [type |-> "block", number |-> b])
    /\ feed' = [feed EXCEPT ![d] = IF b > @ THEN b ELSE @]
    /\ UNCHANGED <<state, dispVars, sending, regVars, moverVars>>
    /\ Alive

-----------------------------------------------------------------------------
(* Stop, Transfer and StopAndTransfer, and the next service                *)

MoveStart(op) ==
    /\ mover = "idle" /\ state[current] = "started" /\ current < Services
    /\ mover' = op
    /\ UNCHANGED <<state, queue, dispVars, sending, feed, regVars, current, snapshot, lost>>
    /\ Alive

MoveSend ==
    /\ mover \in {"stop", "transfer", "stopAndTransfer"}
    /\ Post(current, [type |-> mover, awaited |-> TRUE])
    /\ mover' = "waiting"
    /\ UNCHANGED <<state, dispVars, sending, feed, regVars, current, snapshot, lost>>
    /\ Alive

\* stopTimeout: the mover goes on without the answer.
MoveTimesOut ==
    /\ mover = "waiting"
    /\ mover' = "moved"
    /\ queue' = [queue EXCEPT ![current] = [i \in 1..Len(@) |->
          IF "awaited" \in DOMAIN @[i] THEN [@[i] EXCEPT !.awaited = FALSE] ELSE @[i]]]
    /\ UNCHANGED <<state, dispVars, sending, feed, regVars, current, snapshot, lost>>
    /\ Alive

\* Slip: the dispatcher is stopped from outside, while it may be publishing.
HandleStop_WhilePublishing(d) ==
    /\ state[d] = "started" /\ queue[d] # <<>> /\ Head(queue[d]).type = "stop"
    /\ queue' = [queue EXCEPT ![d] = Tail(@)]
    /\ state' = [state EXCEPT ![d] = "stopped"]
    /\ CloseChannels(Registered(list[d], table[d]))
    /\ list' = [list EXCEPT ![d] = NoLists]
    /\ table' = [table EXCEPT ![d] = NoTable]
    /\ mover' = IF Head(queue[d]).awaited THEN "moved" ELSE mover
    /\ UNCHANGED <<lastBlock, infoOnly, sending, feed, caller, at, buffer, sent, since, current, snapshot, lost>>

\* HandleStopEvent: every registration goes and its channel is closed.
HandleStop(d) ==
    /\ Handle(d, "stop")
    /\ state' = [state EXCEPT ![d] = "stopped"]
    /\ CloseChannels(Registered(list[d], table[d]))
    /\ list' = [list EXCEPT ![d] = NoLists]
    /\ table' = [table EXCEPT ![d] = NoTable]
    /\ mover' = IF Head(queue[d]).awaited THEN "moved" ELSE mover
    /\ UNCHANGED <<lastBlock, infoOnly, sending, feed, caller, at, buffer, sent, since, current, snapshot, lost>>

\* Slip: the channels of transferred registrations are closed.
HandleTransfer_Closes(d) ==
    /\ Handle(d, "transfer") \/ Handle(d, "stopAndTransfer")
    /\ state' = IF Head(queue[d]).type = "transfer" THEN state ELSE [state EXCEPT ![d] = "stopped"]
    /\ IF Head(queue[d]).awaited
       THEN /\ snapshot' = [list |-> list[d], table |-> table[d], last |-> lastBlock[d]]
            /\ mover' = "moved"
            /\ UNCHANGED lost
       ELSE /\ lost' = lost \cup Registered(list[d], table[d])
            /\ UNCHANGED <<snapshot, mover>>
    /\ list' = [list EXCEPT ![d] = NoLists]
    /\ table' = [table EXCEPT ![d] = NoTable]
    /\ CloseChannels(Registered(list[d], table[d]))
    /\ UNCHANGED <<lastBlock, infoOnly, sending, feed, caller, at, buffer, sent, since, current>>

\* HandleTransferEvent and HandleStopAndTransferEvent: the registrations go
\* into a snapshot.  One that nobody waits for any more is lost.
HandleTransfer(d) ==
    /\ Handle(d, "transfer") \/ Handle(d, "stopAndTransfer")
    /\ state' = IF Head(queue[d]).type = "transfer" THEN state ELSE [state EXCEPT ![d] = "stopped"]
    /\ IF Head(queue[d]).awaited
       THEN /\ snapshot' = [list |-> list[d], table |-> table[d], last |-> lastBlock[d]]
            /\ mover' = "moved"
            /\ UNCHANGED lost
       ELSE /\ lost' = lost \cup Registered(list[d], table[d])
            /\ UNCHANGED <<snapshot, mover>>
    /\ list' = [list EXCEPT ![d] = NoLists]
    /\ table' = [table EXCEPT ![d] = NoTable]
    /\ UNCHANGED <<lastBlock, infoOnly, sending, feed, regVars, current>>
    /\ Alive

\* The mover starts the next service with its snapshot, if it has one: Start
\* and initRegistrations.  "If ed.initialLastBlockNum > 0" is also true of
\* math.MaxUint64, and false of block 0.  The event server is asked to send
\* from some block on.
Start(b) ==
    /\ mover = "moved"
    /\ mover' = "idle"
    /\ current' = current + 1
    /\ state' = [state EXCEPT ![current + 1] = "started"]
    /\ list' = [list EXCEPT ![current + 1] = snapshot.list]
    /\ table' = [table EXCEPT ![current + 1] = snapshot.table]
    /\ lastBlock' = [lastBlock EXCEPT ![current + 1] = IF snapshot.last = 0 THEN NoBlock ELSE snapshot.last]
    /\ feed' = [feed EXCEPT ![current + 1] = b - 1]
    /\ snapshot' = NoSnapshot
    /\ UNCHANGED <<queue, infoOnly, sending, regVars, lost>>
    /\ Alive

-----------------------------------------------------------------------------
Consumer(r) ==
    \/ Register(r)
    \/ RegisterSend(r)
    \/ Read(r)
    \/ Unregister(r)
    \/ UnregisterSend(r)

Dispatch(d) ==
    \/ HandleRegister(d)
    \/ HandleUnregister(d)
    \/ HandleBlock(d)
    \/ PublishNext(d)
    \/ \E r \in Regs : Publish(d, r) \/ GiveUp(d, r)
    \/ HandleStop(d)
    \/ HandleTransfer(d)

Move ==
    \/ \E op \in {"stop", "transfer", "stopAndTransfer"} : MoveStart(op)
    \/ MoveSend
    \/ MoveTimesOut
    \/ \E b \in Blocks : Start(b)

Next ==
    \/ \E r \in Regs : Consumer(r)
    \/ \E d \in Dispatchers : Dispatch(d) \/ \E b \in Blocks : Feed(d, b)
    \/ Move

Spec == Init /\ [][Next]_vars

\* The dispatchers run, consumers read what is in their channels as long as
\* they use them, and a channel serves its blocked senders in turn.  Nobody
\* has to register, unregister or move, and no block has to come.
Fairness ==
    /\ \A d \in Dispatchers : WF_vars(Dispatch(d))
    /\ \A r \in Regs : /\ WF_vars(Read(r))
                       /\ SF_vars(RegisterSend(r) \/ UnregisterSend(r))

FairSpec == Spec /\ Fairness

-----------------------------------------------------------------------------
(* Safety                                                                  *)

\* No event is sent on a closed channel and no channel is closed twice, over
\* every interleaving of Unregister, Stop and transfers to another service,
\* although two registrations may have used the same key one after the other.
NoPanic == ~panicked

Owners(r) == {d \in Dispatchers : r \in Registered(list[d], table[d])}
InSnapshot(r) == r \in Registered(snapshot.list, snapshot.table)

\* A consumer that has not called Unregister is in some table or in a snapshot,
\* or its channel is closed.
Kept(r) == caller[r] = "using" => Owners(r) # {} \/ InSnapshot(r) \/ chanClosed[r] \/ r \in lost

\* A registration belongs to one dispatcher, once, or to the snapshot, never to
\* both, and then its channel is open: a consumer either can still get events,
\* or is told by its closed channel that it cannot.
OwnedOnce ==
    \A r \in Regs :
        /\ Cardinality(Owners(r)) + (IF InSnapshot(r) THEN 1 ELSE 0) <= 1
        /\ chanClosed[r] => Owners(r) = {} /\ ~InSnapshot(r)
        /\ \A d \in Dispatchers, k \in {"block", "filtered"} :
              Cardinality({i \in 1..Len(list[d][k]) : list[d][k][i] = r}) <= 1
        /\ Kept(r)

\* How many events of block b registration r must get: one for each loop whose
\* subject it asked for.
Due(r, b) ==
    CASE Kind[r] = "block" -> IF r \in Accepted[b] THEN 1 ELSE 0
      [] Kind[r] = "filtered" -> 1
      [] Kind[r] = "tx" -> Cardinality({i \in 1..Len(Txs[b]) : Txs[b][i].tx = Key[r]})
      [] Kind[r] = "cc" -> Cardinality({i \in 1..Len(Txs[b]) : Txs[b][i].valid /\ Key[r] \in Txs[b][i].event})

Times(r, b) == Cardinality({i \in 1..Len(sent[r]) : sent[r][i] = b})

\* A consumer is sent the events of the blocks in order, and those of a block
\* once, across repeated blocks, dropped events and the transfer to another
\* service (updateLastBlockNum, initialLastBlockNum).  Block 0 may be sent again:
\* a snapshot taken after it looks like one without a last block.
InOrder ==
    \A r \in Regs :
        /\ \A i \in 1..(Len(sent[r]) - 1) : sent[r][i] <= sent[r][i + 1]
        /\ \A b \in Blocks \ {0} : Times(r, b) <= Due(r, b)

\* "If 0, if buffer full, will block and guarantee the event will be sent out":
\* with an infinite consumer timeout every registration was sent exactly the
\* events of the blocks handled since it was made, however slow its reader, and
\* whatever registrations came and went none was dropped with another ("Move the
\* 0'th item to i and then delete the 0'th item").
SentExactly ==
    timeout = "infinite" =>
        \A r \in Regs :
            /\ Kept(r)
            /\ \A d \in Owners(r), b \in Blocks : b # sending[d].block =>
                  Times(r, b) = IF b > since[r] /\ b <= lastBlock[d] THEN Due(r, b) ELSE 0

-----------------------------------------------------------------------------
(* Liveness                                                                *)

\* Unless the timeout is infinite a block is published to the end, although
\* readers are slow, have stopped reading or have unregistered (publishCCEvents),
\* and a call of Register or Unregister returns, or the dispatcher it went to is
\* stopped in the meantime.
CallsReturn ==
    /\ \A d \in Dispatchers : sending[d] # Idle /\ timeout # "infinite" ~> sending[d] = Idle
    /\ \A r \in Regs : at[r] # 0 /\ timeout # "infinite" ~> at[r] = 0 \/ state[at[r]] = "stopped"
==============================================================================
