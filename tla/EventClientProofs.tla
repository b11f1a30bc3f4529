-------------------------- MODULE EventClientProofs --------------------------
(***************************************************************************)
(* For any number of reconnect goroutines and peer monitors, any buffer    *)
(* sizes, any number of connections and blocks, and with or without a seek *)
(* type: the dispatcher never leaves a second stream open, and the blocks  *)
(* it sends to the registrations are in order and without a gap it was not *)
(* told to make.                                                           *)
(*                                                                         *)
(* The order of the blocks is decided by one comparison, but that none is  *)
(* left out is not: the streams of several connections feed one queue, and *)
(* a seek that was asked for before a block was handled starts a stream    *)
(* after it.  The inductive invariant therefore says of every block on its *)
(* way, in a stream, in the hand of a receiver or in the queue, that the   *)
(* one before it has been handled or is ahead of it.                       *)
(*                                                                         *)
(* And no connection is lost in silence, as long as the channel of         *)
(* connection events is not full of nothing but "connected".  That takes a *)
(* second invariant, of who connects, asks, answers and waits.             *)
(***************************************************************************)
EXTENDS EventClient, SequenceTheorems, TLAPS

IsBlock(e) == e.type = "block"
IsSeek(e) == e.type = "seek"

\* Where a connect has not asked for any block yet.
BeforeSeek == {"start", "submit", "waitConnect", "once", "waitReg", "seek"}

\* The receiver of a connection has a block in its hand.
Holds(c) == recv[c] = "post" /\ IsBlock(inHand[c])

\* No event of the first i - 1 in the queue is a block.
NoneBefore(i) == \A j \in 1..Len(queue) : j < i => ~IsBlock(queue[j])

\* Nobody has asked for a block, as far as the event server is concerned.
NothingSent ==
    /\ \A i \in 1..Len(queue) : ~IsBlock(queue[i])
    /\ \A c \in Conns : cursor[c] = 0 /\ ~Holds(c)

\* When the events before the i-th have been handled, the block before block n
\* has been too; or n will be the first block of all.
Reached(n, i) ==
    \/ n <= lastBlock + 1
    \/ \E j \in 1..Len(queue) : j < i /\ IsBlock(queue[j]) /\ n <= queue[j].number + 1
    \/ lastBlock = 0 /\ NoneBefore(i)

-----------------------------------------------------------------------------
(* The inductive invariant                                                 *)

Places == {"idle", "delay", "start", "submit", "waitConnect", "once", "waitReg",
           "seek", "waitSeek", "undo", "waitUndo", "connected", "announce", "failed"}

Types ==
    /\ queue \in Seq(Events)
    /\ height \in Blocks
    /\ cursor \in [Conns -> 0..Ended]
    /\ recv \in [Conns -> {"off", "recv", "post", "ended"}]
    /\ inHand \in [Conns -> Events \cup {Nothing}]
    /\ \A c \in Conns : recv[c] = "post" => inHand[c] \in Events /\ ~IsSeek(inHand[c])
    /\ open \subseteq Conns /\ conn \in 0..MaxConns /\ opened \in 0..MaxConns
    /\ \A c \in Conns : c > opened => recv[c] = "off"
    /\ pc[User] # "delay"
    /\ lastBlock \in 0..MaxHeight /\ infoOnly \in BOOLEAN
    /\ published \in Seq(Blocks)
    /\ seekFrom \in 0..(MaxHeight + 1) /\ fromNewest \in BOOLEAN
    /\ pc \in [Connectors -> Places]

\* The last block is the last one published, unless it only told the height.
LastPublished ==
    /\ lastBlock # 0 => ~infoOnly
    /\ published # <<>> => published[Len(published)] = lastBlock

\* Before the user's Connect has asked for blocks, nobody else connects.
UserFirst ==
    pc[User] \in BeforeSeek =>
        /\ lastBlock = 0 /\ connState # "Connected" /\ NothingSent
        /\ \A r \in Reconnectors : pc[r] = "idle"
        /\ \A i \in 1..Len(queue) : ~IsSeek(queue[i])

\* The streams start no later than after the last block.
SeeksInTime ==
    /\ seekFrom <= lastBlock + 1
    /\ \A r \in Reconnectors : pc[r] \notin {"idle", "delay"} => seekFrom # 0
    /\ \A i \in 1..Len(queue) :
          IsSeek(queue[i]) => queue[i].from <= lastBlock + 1 /\ (queue[i].from = 0 => lastBlock = 0)

\* Until a block is handled there is one stream: the one the user's Connect
\* asked for.
OneStream ==
    lastBlock = 0 =>
        /\ \A r \in Reconnectors : pc[r] \in {"idle", "delay"}
        /\ \A i \in 1..Len(queue) :
              IsSeek(queue[i]) => NothingSent /\ \A j \in 1..Len(queue) : IsSeek(queue[j]) => i = j
        /\ \A c, d \in Conns : cursor[c] # 0 /\ cursor[d] # 0 => c = d

\* Every block on its way comes after the block before it.
QueueInOrder == \A i \in 1..Len(queue) : IsBlock(queue[i]) => Reached(queue[i].number, i)

StreamInOrder(c) ==
    /\ Holds(c) => cursor[c] # 0 /\ Reached(inHand[c].number, Len(queue) + 1)
    /\ cursor[c] \in 1..(MaxHeight + 1) =>
          IF Holds(c) THEN cursor[c] <= inHand[c].number + 1
          ELSE Reached(cursor[c], Len(queue) + 1)

Consecutive == QueueInOrder /\ \A c \in Conns : StreamInOrder(c)

Flow == SeeksInTime /\ OneStream /\ Consecutive

IInv ==
    /\ Types
    /\ OneConnection
    /\ LastPublished
    /\ UserFirst
    /\ ~fromNewest => Flow
    /\ PublishedInOrder

-----------------------------------------------------------------------------
(* The queue                                                               *)

\* The two events are the same, but for who waits for the answer.
Like(e, f) ==
    /\ e.type = f.type
    /\ IsBlock(e) => e.number = f.number
    /\ IsSeek(e) => e.from = f.from

\* The queue has lost its first k events, which are no blocks, and has got no
\* block.
Carried(k) ==
    /\ k <= Len(queue) /\ Len(queue) <= Len(queue') + k
    /\ \A i \in 1..k : ~IsBlock(queue[i])
    /\ \A i \in 1..Len(queue') :
          IF i + k <= Len(queue) THEN Like(queue'[i], queue[i + k]) ELSE ~IsBlock(queue'[i])

\* It has got no seek either.
NoNewSeek(k) == \A i \in 1..Len(queue') : i + k > Len(queue) => ~IsSeek(queue'[i])

\* What the kinds of events hold.
LEMMA EventFields ==
    ASSUME NEW e \in Events
    PROVE  /\ IsBlock(e) => e.number \in Blocks
           /\ IsSeek(e) => e.from \in 0..(MaxHeight + 1)
  BY BoundsAssumption DEF Events, IsBlock, IsSeek

\* The events that the goroutines submit are events, and no blocks.
LEMMA CallerEvents ==
    ASSUME NEW x \in Callers, NEW t \in {"connect", "register", "disconnect", "stop", "stopAndTransfer"}
    PROVE  /\ [type |-> t, by |-> x] \in Events
           /\ ~IsBlock([type |-> t, by |-> x]) /\ ~IsSeek([type |-> t, by |-> x])
  BY DEF Events, IsBlock, IsSeek

\* So are those that the receivers and the monitors post.
LEMMA StreamEvents ==
    /\ [type |-> "connected"] \in Events
    /\ ~IsBlock([type |-> "connected"]) /\ ~IsSeek([type |-> "connected"])
    /\ \A f \in BOOLEAN, t \in {"disconnected", "status"} :
          /\ [type |-> t, fatal |-> f] \in Events
          /\ ~IsBlock([type |-> t, fatal |-> f]) /\ ~IsSeek([type |-> t, fatal |-> f])
    /\ \A n \in Blocks : [type |-> "block", number |-> n] \in Events
  BY DEF Events, IsBlock, IsSeek

\* A seek is an event.
LEMMA SeekEvents ==
    ASSUME NEW x \in Callers, NEW n \in 0..(MaxHeight + 1)
    PROVE  [type |-> "seek", by |-> x, from |-> n] \in Events
  BY DEF Events

\* An event without the one who waits for the answer is like it.
LEMMA AbandonedEvent ==
    ASSUME NEW e \in Events, "by" \in DOMAIN e
    PROVE  [e EXCEPT !.by = Nobody] \in Events /\ Like([e EXCEPT !.by = Nobody], e)
  <1>1. CASE e \in [type : {"connect", "register", "disconnect", "stop", "stopAndTransfer"},
                    by : Callers \cup {Nobody}]
    BY <1>1 DEF Events, Like, IsBlock, IsSeek
  <1>2. CASE e \in [type : {"seek"}, by : Callers \cup {Nobody}, from : 0..(MaxHeight + 1)]
    BY <1>2 DEF Events, Like, IsBlock, IsSeek
  <1>3. CASE e \in {[type |-> "connected"]}
    BY <1>3
  <1>4. CASE e \in [type : {"disconnected", "status"}, fatal : BOOLEAN]
    BY <1>4
  <1>5. CASE e \in [type : {"block"}, number : Blocks]
    BY <1>5
  <1>6. QED
    BY <1>1, <1>2, <1>3, <1>4, <1>5 DEF Events

\* Nothing happens to the queue.
LEMMA SameCarried ==
    ASSUME queue \in Seq(Events), queue' = queue
    PROVE  queue' \in Seq(Events) /\ Carried(0) /\ NoNewSeek(0)
  BY DEF Carried, NoNewSeek, Like

\* Submit of an event that is no block.
LEMMA AppendCarried ==
    ASSUME queue \in Seq(Events), NEW e \in Events, ~IsBlock(e),
           queue' = Append(queue, e)
    PROVE  queue' \in Seq(Events) /\ Carried(0) /\ (~IsSeek(e) => NoNewSeek(0))
  BY DEF Carried, NoNewSeek, Like

\* A goroutine gives up waiting.
LEMMA AbandonCarried ==
    ASSUME queue \in Seq(Events), NEW x, Abandon(x)
    PROVE  queue' \in Seq(Events) /\ Carried(0) /\ NoNewSeek(0)
  <1>1. \A i \in 1..Len(queue) : queue[i] \in Events
    OBVIOUS
  <1> DEFINE new(i) == IF "by" \in DOMAIN queue[i] /\ queue[i].by = x
                       THEN [queue[i] EXCEPT !.by = Nobody] ELSE queue[i]
  <1>2. \A i \in 1..Len(queue) : new(i) \in Events /\ Like(new(i), queue[i])
    BY <1>1, AbandonedEvent DEF Like
  <1>3. queue' = [i \in 1..Len(queue) |-> new(i)]
    BY DEF Abandon
  <1> HIDE DEF new
  <1>4. Len(queue) \in Nat
    OBVIOUS
  <1>5. queue' \in Seq(Events) /\ Len(queue') = Len(queue)
    BY <1>2, <1>3, <1>4
  <1>6. \A i \in 1..Len(queue) : Like(queue'[i], queue[i])
    BY <1>2, <1>3
  <1>7. QED
    BY <1>4, <1>5, <1>6 DEF Carried, NoNewSeek

\* The dispatcher takes an event that is no block.
LEMMA TailCarried ==
    ASSUME queue \in Seq(Events), queue # <<>>, queue' = Tail(queue), ~IsBlock(Head(queue))
    PROVE  queue' \in Seq(Events) /\ Carried(1) /\ NoNewSeek(1)
  BY DEF Carried, NoNewSeek, Like

\* What is reached when some events of no interest have gone or come.
LEMMA CarriedReached ==
    ASSUME Types, queue' \in Seq(Events), lastBlock' = lastBlock,
           NEW k \in {0, 1}, Carried(k), NEW n \in Nat
    PROVE  /\ \A i \in 1..Len(queue') : Reached(n, i + k) => Reached(n, i)'
           /\ Reached(n, Len(queue) + 1) => Reached(n, Len(queue) + 1)'
  <1> USE DEF Types
  <1>1. /\ Len(queue) \in Nat /\ Len(queue') \in Nat /\ lastBlock \in Nat
        /\ k <= Len(queue) /\ Len(queue) <= Len(queue') + k
    BY DEF Carried
  <1>2. ASSUME NEW i \in Nat, NoneBefore(i + k)
        PROVE  \A j \in 1..Len(queue') : j < i => ~IsBlock(queue'[j])
    <2>1. SUFFICES ASSUME NEW j \in 1..Len(queue'), j < i, IsBlock(queue'[j])
                   PROVE  FALSE
      OBVIOUS
    <2>2. j + k <= Len(queue) /\ Like(queue'[j], queue[j + k])
      BY <2>1, <1>1 DEF Carried
    <2>3. j + k \in 1..Len(queue) /\ j + k < i + k /\ IsBlock(queue[j + k])
      BY <2>1, <2>2, <1>1 DEF Like, IsBlock
    <2>4. QED
      BY <2>3, <1>2 DEF NoneBefore
  <1>3. ASSUME NEW j \in 1..Len(queue), IsBlock(queue[j])
        PROVE  /\ j - k \in 1..Len(queue') /\ IsBlock(queue'[j - k])
               /\ queue'[j - k].number = queue[j].number
    <2>1. j - k \in 1..Len(queue') /\ (j - k) + k = j
      <3>1. j \notin 1..k
        BY <1>3 DEF Carried
      <3>2. j \in Nat /\ k \in Nat /\ j > k /\ j <= Len(queue)
        BY <3>1, <1>1
      <3>3. QED
        BY <3>2, <1>1
    <2>2. PICK i \in 1..Len(queue') : i = j - k /\ i + k = j
      BY <2>1
    <2>3. Like(queue'[i], queue[j])
      BY <2>2, <1>1 DEF Carried
    <2>4. QED
      BY <2>2, <2>3, <1>3 DEF Like, IsBlock
  <1>4. ASSUME NEW i \in Nat, Reached(n, i + k)
        PROVE  Reached(n, i)'
    <2>1. CASE n <= lastBlock + 1
      BY <2>1 DEF Reached
    <2>2. CASE \E j \in 1..Len(queue) : j < i + k /\ IsBlock(queue[j]) /\ n <= queue[j].number + 1
      <3>1. PICK j \in 1..Len(queue) : j < i + k /\ IsBlock(queue[j]) /\ n <= queue[j].number + 1
        BY <2>2
      <3>2. j - k < i
        BY <3>1, <1>1
      <3>3. QED
        BY <3>1, <3>2, <1>3 DEF Reached
    <2>3. CASE lastBlock = 0 /\ NoneBefore(i + k)
      BY <2>3, <1>2 DEF Reached, NoneBefore
    <2>4. QED
      BY <1>4, <2>1, <2>2, <2>3 DEF Reached
  <1>5. Reached(n, Len(queue) + 1) => Reached(n, (Len(queue') + 1) + k)
    <2>1. \A j \in 1..Len(queue) : j < Len(queue) + 1 /\ j < (Len(queue') + 1) + k
      BY <1>1
    <2>2. QED
      BY <2>1 DEF Reached, NoneBefore
  <1>6. PICK l \in Nat : l = Len(queue') + 1
    BY <1>1
  <1>7. Reached(n, Len(queue) + 1) => Reached(n, l)'
    BY <1>4, <1>5, <1>6
  <1>8. Reached(n, l)' => Reached(n, Len(queue) + 1)'
    BY <1>6 DEF Reached, NoneBefore
  <1>9. QED
    BY <1>4, <1>7, <1>8

-----------------------------------------------------------------------------
(* Steps that move no block                                                *)

\* A stream delivers nothing, and may end.
StreamKept(c) ==
    /\ cursor'[c] = cursor[c] \/ (cursor[c] # 0 /\ cursor'[c] = Ended)
    /\ Holds(c)' <=> Holds(c)
    /\ Holds(c) => inHand'[c] = inHand[c] /\ cursor'[c] = cursor[c]

StreamsKept == lastBlock' = lastBlock /\ \A c \in Conns : StreamKept(c)

\* Nobody starts to connect but a reconnect goroutine that a Connected client
\* has lost its connection to, and the client gets Connected by a connect.
ConnectsKept ==
    /\ seekFrom' = seekFrom /\ fromNewest' = fromNewest
    /\ pc'[User] \in BeforeSeek => pc[User] \in BeforeSeek
    /\ \A r \in Reconnectors :
          /\ pc'[r] \notin {"idle", "delay"} => pc[r] \notin {"idle", "delay"}
          /\ pc[r] = "idle" /\ pc'[r] # "idle" => connState = "Connected"
    /\ connState' = "Connected" /\ connState # "Connected" =>
          \E x \in Connectors : pc[x] = "connected"

\* A step that moves no block keeps the blocks of the queue in order.
LEMMA CalmQueue ==
    ASSUME Types, queue' \in Seq(Events), QueueInOrder, NEW k \in {0, 1}, Carried(k),
           lastBlock' = lastBlock
    PROVE  QueueInOrder'
  <1>1. /\ Len(queue) \in Nat /\ Len(queue') \in Nat
        /\ \A i \in 1..Len(queue') : queue'[i] \in Events
    BY DEF Types
  <1>2. ASSUME NEW i \in 1..Len(queue'), IsBlock(queue'[i])
        PROVE  Reached(queue[i].number, i)'
    <2>1. PICK n : n = queue'[i].number
      OBVIOUS
    <2>2. n \in Nat
      BY <1>1, <1>2, <2>1, EventFields, BoundsAssumption DEF Blocks
    <2>3. i + k \in 1..Len(queue) /\ Like(queue'[i], queue[i + k])
      BY <1>1, <1>2 DEF Carried
    <2>4. Reached(n, i + k)
      BY <2>1, <2>3, <1>2 DEF QueueInOrder, Like, IsBlock
    <2>5. Reached(n, i)'
      BY <2>2, <2>4, CarriedReached
    <2>6. QED
      BY <2>1, <2>5 DEF Reached
  <1>3. QED
    BY <1>2 DEF QueueInOrder

\* It keeps a stream that delivers nothing in order, too.
LEMMA CalmStream ==
    ASSUME Types, Types', NEW c \in Conns, StreamInOrder(c), NEW k \in {0, 1}, Carried(k),
           lastBlock' = lastBlock, StreamKept(c)
    PROVE  StreamInOrder(c)'
  <1> USE DEF Types
  <1>0. Len(queue) \in Nat /\ Len(queue') \in Nat /\ cursor[c] \in Nat /\ cursor'[c] \in Nat
    BY BoundsAssumption DEF Ended
  <1>1. ASSUME Holds(c)'
        PROVE  /\ cursor'[c] # 0 /\ Reached(inHand[c].number, Len(queue) + 1)'
               /\ cursor'[c] \in 1..(MaxHeight + 1) => cursor'[c] <= inHand'[c].number + 1
    <2>1. Holds(c) /\ inHand'[c] = inHand[c] /\ cursor'[c] = cursor[c]
      BY <1>1 DEF StreamKept
    <2>2. PICK n : n = inHand[c].number
      OBVIOUS
    <2>3. n \in Nat
      BY <2>1, <2>2, EventFields, BoundsAssumption DEF Blocks, Holds
    <2>4. Reached(n, Len(queue) + 1)
      BY <2>1, <2>2 DEF StreamInOrder
    <2>5. Reached(n, Len(queue) + 1)'
      BY <2>3, <2>4, CarriedReached
    <2>6. QED
      BY <2>1, <2>2, <2>5 DEF StreamInOrder, Reached
  <1>2. ASSUME ~Holds(c)', cursor'[c] \in 1..(MaxHeight + 1)
        PROVE  Reached(cursor[c], Len(queue) + 1)'
    <2>1. ~Holds(c) /\ cursor'[c] = cursor[c]
      BY <1>2, BoundsAssumption DEF StreamKept, Ended
    <2>2. PICK n : n = cursor[c]
      OBVIOUS
    <2>3. Reached(n, Len(queue) + 1)
      BY <1>2, <2>1, <2>2 DEF StreamInOrder
    <2>4. Reached(n, Len(queue) + 1)'
      BY <1>0, <2>2, <2>3, CarriedReached
    <2>5. QED
      BY <2>1, <2>2, <2>4 DEF Reached
  <1>3. QED
    BY <1>1, <1>2 DEF StreamInOrder

\* A step that moves no block keeps the blocks in order.
LEMMA CalmConsecutive ==
    ASSUME Types, Types', Consecutive, NEW k \in {0, 1}, Carried(k), StreamsKept
    PROVE  Consecutive'
  <1>1. QueueInOrder'
    BY CalmQueue DEF Consecutive, StreamsKept, Types
  <1>2. \A c \in Conns : StreamInOrder(c)'
    BY CalmStream DEF Consecutive, StreamsKept
  <1>3. QED
    BY <1>1, <1>2 DEF Consecutive

\* If nothing had been sent, nothing has.
LEMMA CalmNothingSent ==
    ASSUME Types, Types', NothingSent, NEW k \in {0, 1}, Carried(k), StreamsKept
    PROVE  NothingSent'
  <1>1. Len(queue) \in Nat /\ Len(queue') \in Nat
    BY DEF Types
  <1>2. ASSUME NEW i \in 1..Len(queue')
        PROVE  ~IsBlock(queue'[i])
    <2>1. CASE i + k <= Len(queue)
      <3>1. i + k \in 1..Len(queue)
        BY <1>1, <2>1
      <3>2. QED
        BY <2>1, <3>1 DEF Carried, Like, IsBlock, NothingSent
    <2>2. CASE ~(i + k <= Len(queue))
      BY <2>2 DEF Carried
    <2>3. QED
      BY <2>1, <2>2
  <1>3. \A c \in Conns : cursor'[c] = 0 /\ ~Holds(c)'
    BY DEF StreamsKept, StreamKept, NothingSent
  <1>4. QED
    BY <1>2, <1>3 DEF NothingSent

\* The seeks in the queue are the ones that were there.
LEMMA CalmSeeks ==
    ASSUME Types, Types', NEW k \in {0, 1}, Carried(k), NoNewSeek(k),
           NEW i \in 1..Len(queue'), IsSeek(queue'[i])
    PROVE  i + k \in 1..Len(queue) /\ IsSeek(queue[i + k]) /\ queue'[i].from = queue[i + k].from
  <1>1. Len(queue) \in Nat /\ Len(queue') \in Nat
    BY DEF Types
  <1>2. QED
    BY <1>1 DEF Carried, NoNewSeek, Like, IsSeek

\* A step that moves no block and asks for none keeps the invariant of the flow
\* of blocks.
LEMMA CalmStep ==
    ASSUME Types, Types', UserFirst, ~fromNewest => Flow,
           NEW k \in {0, 1}, Carried(k), NoNewSeek(k), StreamsKept, ConnectsKept
    PROVE  UserFirst' /\ (~fromNewest' => Flow')
  <1>1. UserFirst'
    <2>1. SUFFICES ASSUME pc'[User] \in BeforeSeek
                   PROVE  /\ lastBlock' = 0 /\ connState' # "Connected" /\ NothingSent'
                          /\ \A r \in Reconnectors : pc'[r] = "idle"
                          /\ \A i \in 1..Len(queue') : ~IsSeek(queue'[i])
      BY DEF UserFirst
    <2>2. /\ pc[User] \in BeforeSeek
          /\ lastBlock = 0 /\ connState # "Connected" /\ NothingSent
          /\ \A r \in Reconnectors : pc[r] = "idle"
          /\ \A i \in 1..Len(queue) : ~IsSeek(queue[i])
      BY <2>1 DEF ConnectsKept, UserFirst
    <2>3. lastBlock' = 0 /\ NothingSent'
      BY <2>2, CalmNothingSent DEF StreamsKept
    <2>4. \A x \in Connectors : pc[x] # "connected"
      BY <2>2 DEF Connectors, BeforeSeek
    <2>5. connState' # "Connected" /\ \A r \in Reconnectors : pc'[r] = "idle"
      BY <2>2, <2>4 DEF ConnectsKept
    <2>6. \A i \in 1..Len(queue') : ~IsSeek(queue'[i])
      BY <2>2, CalmSeeks
    <2>7. QED
      BY <2>3, <2>5, <2>6
  <1>2. ASSUME Flow
        PROVE  Flow'
    <2>1. Consecutive'
      BY <1>2, CalmConsecutive DEF Flow
    <2>2. SeeksInTime'
      BY <1>2, CalmSeeks DEF Flow, SeeksInTime, StreamsKept, ConnectsKept
    <2>3. OneStream'
      <3>1. SUFFICES ASSUME lastBlock' = 0
                     PROVE  /\ \A r \in Reconnectors : pc'[r] \in {"idle", "delay"}
                            /\ \A i \in 1..Len(queue') :
                                  IsSeek(queue'[i]) =>
                                      /\ NothingSent'
                                      /\ \A j \in 1..Len(queue') : IsSeek(queue'[j]) => i = j
                            /\ \A c, d \in Conns : cursor'[c] # 0 /\ cursor'[d] # 0 => c = d
        BY DEF OneStream
      <3>2. lastBlock = 0 /\ OneStream
        BY <1>2, <3>1 DEF Flow, StreamsKept
      <3>3. \A r \in Reconnectors : pc'[r] \in {"idle", "delay"}
        BY <3>2 DEF OneStream, ConnectsKept
      <3>4. ASSUME NEW i \in 1..Len(queue'), IsSeek(queue'[i])
            PROVE  NothingSent' /\ \A j \in 1..Len(queue') : IsSeek(queue'[j]) => i = j
        <4>1. i + k \in 1..Len(queue) /\ IsSeek(queue[i + k])
          BY <3>4, CalmSeeks
        <4>2. NothingSent'
          BY <3>2, <4>1, CalmNothingSent DEF OneStream
        <4>3. ASSUME NEW j \in 1..Len(queue'), IsSeek(queue'[j])
              PROVE  i = j
          <5>1. j + k \in 1..Len(queue) /\ IsSeek(queue[j + k])
            BY <4>3, CalmSeeks
          <5>2. i + k = j + k
            BY <3>2, <4>1, <5>1 DEF OneStream
          <5>3. QED
            BY <5>2
        <4>4. QED
          BY <4>2, <4>3
      <3>5. \A c, d \in Conns : cursor'[c] # 0 /\ cursor'[d] # 0 => c = d
        BY <3>2 DEF OneStream, StreamsKept, StreamKept
      <3>6. QED
        BY <3>3, <3>4, <3>5
    <2>4. QED
      BY <2>1, <2>2, <2>3 DEF Flow
  <1>3. QED
    BY <1>1, <1>2 DEF ConnectsKept

\* A step that moves no block and asks for none keeps the invariant.
LEMMA CalmInvariant ==
    ASSUME IInv, Types', OneConnection', NEW k \in {0, 1}, Carried(k), NoNewSeek(k),
           StreamsKept, ConnectsKept, UNCHANGED <<infoOnly, published>>
    PROVE  IInv'
  <1>1. UserFirst' /\ (~fromNewest' => Flow')
    BY CalmStep DEF IInv
  <1>2. LastPublished'
    BY DEF IInv, LastPublished, StreamsKept
  <1>3. PublishedInOrder'
    BY DEF IInv, PublishedInOrder, Gap, ConnectsKept
  <1>4. QED
    BY <1>1, <1>2, <1>3 DEF IInv

-----------------------------------------------------------------------------
(* connect                                                                 *)

\* A goroutine in connect goes on, and the queue gets an event of no interest
\* or none.
LEMMA ConnectorMoves ==
    ASSUME IInv, NEW x \in Connectors, NEW l \in Places \ {"delay"}, Goto(x, l),
           UNCHANGED <<serverVars, dispVars, seekFrom, fromNewest>>,
           queue' \in Seq(Events), Carried(0), NoNewSeek(0),
           pc[x] \notin {"idle", "delay"},
           x = User /\ l \in BeforeSeek => pc[x] \in BeforeSeek,
           connState' = "Connected" => connState = "Connected" \/ pc[x] = "connected"
    PROVE  IInv'
  <1> USE DEF IInv, serverVars, dispVars
  <1>1. pc \in [Connectors -> Places] /\ User \in Connectors /\ Reconnectors \subseteq Connectors
    BY DEF Types, Connectors
  <1>2. Types'
    BY <1>1 DEF Types, Goto
  <1>3. OneConnection' /\ StreamsKept
    BY DEF OneConnection, StreamsKept, StreamKept, Holds
  <1>4. ConnectsKept
    BY <1>1 DEF ConnectsKept, Goto
  <1>5. QED
    BY <1>2, <1>3, <1>4, CalmInvariant

\* A failed attempt leads to a new one, or to none.
LEMMA RetryGoes ==
    ASSUME NEW x \in Connectors, Retry(x)
    PROVE  \E l \in Places \ {"delay"} : Goto(x, l) /\ (x = User => l \notin BeforeSeek)
  BY DEF Retry, Places, BeforeSeek

\* The steps of connect that do not seek.
LEMMA ConnectKeeps ==
    ASSUME IInv, NEW x \in Connectors,
           \/ ConnectStart(x) \/ ConnectSubmit(x) \/ ConnectAnswered(x)
           \/ RegisterOnce(x) \/ RegisterAnswered(x)
           \/ SeekAnswered(x) \/ Undo(x) \/ Undone(x) \/ SetConnected(x) \/ Announce(x)
    PROVE  IInv'
  <1>0. queue \in Seq(Events) /\ x \in Callers
    BY DEF IInv, Types, Callers
  <1>1. CASE ConnectStart(x)
    <2>1. \E l \in Places \ {"delay"} : Goto(x, l) /\ (x = User /\ l \in BeforeSeek => pc[x] \in BeforeSeek)
      BY <1>1, RetryGoes DEF ConnectStart, Places, BeforeSeek
    <2>2. connState' = "Connected" => connState = "Connected"
      BY <1>1 DEF ConnectStart
    <2>3. pc[x] = "start" /\ queue' = queue /\ UNCHANGED <<serverVars, dispVars, seekFrom, fromNewest>>
      BY <1>1 DEF ConnectStart
    <2>4. QED
      BY <1>0, <2>1, <2>2, <2>3, SameCarried, ConnectorMoves
  <1>2. CASE ConnectSubmit(x)
    <2>1. \E l \in Places \ {"delay"} : Goto(x, l) /\ (x = User /\ l \in BeforeSeek => pc[x] \in BeforeSeek)
      BY <1>2, RetryGoes DEF ConnectSubmit, Places, BeforeSeek
    <2>2. queue' \in Seq(Events) /\ Carried(0) /\ NoNewSeek(0)
      BY <1>0, <1>2, SameCarried, AppendCarried, CallerEvents DEF ConnectSubmit, Ask, Submit
    <2>3. pc[x] = "submit" /\ UNCHANGED <<connState, serverVars, dispVars, seekFrom, fromNewest>>
      BY <1>2 DEF ConnectSubmit
    <2>4. QED
      BY <2>1, <2>2, <2>3, ConnectorMoves
  <1>3. CASE ConnectAnswered(x)
    <2>1. \E l \in Places \ {"delay"} : Goto(x, l) /\ (x = User /\ l \in BeforeSeek => pc[x] \in BeforeSeek)
      BY <1>3, RetryGoes DEF ConnectAnswered, Places, BeforeSeek
    <2>2. connState' = "Connected" => connState = "Connected"
      BY <1>3 DEF ConnectAnswered
    <2>3. pc[x] = "waitConnect" /\ queue' = queue
          /\ UNCHANGED <<serverVars, dispVars, seekFrom, fromNewest>>
      BY <1>3 DEF ConnectAnswered
    <2>4. QED
      BY <1>0, <2>1, <2>2, <2>3, SameCarried, ConnectorMoves
  <1>4. CASE RegisterOnce(x)
    <2>1. \E l \in Places \ {"delay"} : Goto(x, l) /\ (x = User /\ l \in BeforeSeek => pc[x] \in BeforeSeek)
      BY <1>4 DEF RegisterOnce, Places, BeforeSeek
    <2>2. queue' \in Seq(Events) /\ Carried(0) /\ NoNewSeek(0)
      BY <1>0, <1>4, SameCarried, AppendCarried, CallerEvents DEF RegisterOnce, Ask, Submit
    <2>3. pc[x] = "once" /\ UNCHANGED <<connState, serverVars, dispVars, seekFrom, fromNewest>>
      BY <1>4 DEF RegisterOnce
    <2>4. QED
      BY <2>1, <2>2, <2>3, ConnectorMoves
  <1>5. CASE RegisterAnswered(x)
    <2>1. /\ Goto(x, "seek") /\ pc[x] = "waitReg" /\ queue' = queue
          /\ UNCHANGED <<connState, serverVars, dispVars, seekFrom, fromNewest>>
      BY <1>5 DEF RegisterAnswered, clientVars
    <2>2. "seek" \in Places \ {"delay"} /\ pc[x] \in BeforeSeek
      BY <2>1 DEF Places, BeforeSeek
    <2>3. QED
      BY <1>0, <2>1, <2>2, SameCarried, ConnectorMoves
  <1>6. CASE SeekAnswered(x)
    <2>1. \E l \in Places \ {"delay"} : Goto(x, l) /\ l \notin BeforeSeek
      BY <1>6 DEF SeekAnswered, Places, BeforeSeek
    <2>2. queue' \in Seq(Events) /\ Carried(0) /\ NoNewSeek(0)
      BY <1>0, <1>6, SameCarried, AbandonCarried DEF SeekAnswered
    <2>3. pc[x] = "waitSeek" /\ UNCHANGED <<connState, serverVars, dispVars, seekFrom, fromNewest>>
      BY <1>6 DEF SeekAnswered, clientVars
    <2>4. QED
      BY <2>1, <2>2, <2>3, ConnectorMoves
  <1>7. CASE Undo(x)
    <2>1. /\ Goto(x, "waitUndo") /\ pc[x] = "undo"
          /\ UNCHANGED <<connState, serverVars, dispVars, seekFrom, fromNewest>>
      BY <1>7 DEF Undo, clientVars
    <2>2. queue' \in Seq(Events) /\ Carried(0) /\ NoNewSeek(0)
      BY <1>0, <1>7, SameCarried, AppendCarried, CallerEvents DEF Undo, Ask, Submit
    <2>3. "waitUndo" \in Places \ ({"delay"} \cup BeforeSeek)
      BY DEF Places, BeforeSeek
    <2>4. QED
      BY <2>1, <2>2, <2>3, ConnectorMoves
  <1>8. CASE Undone(x)
    <2>1. \E l \in Places \ {"delay"} : Goto(x, l) /\ (x = User => l \notin BeforeSeek)
      BY <1>8, RetryGoes DEF Undone
    <2>2. queue' \in Seq(Events) /\ Carried(0) /\ NoNewSeek(0)
      BY <1>0, <1>8, SameCarried, AbandonCarried DEF Undone
    <2>3. /\ pc[x] = "waitUndo" /\ (connState' = "Connected" => connState = "Connected")
          /\ UNCHANGED <<serverVars, dispVars, seekFrom, fromNewest>>
      BY <1>8 DEF Undone
    <2>4. QED
      BY <2>1, <2>2, <2>3, ConnectorMoves
  <1>9. CASE SetConnected(x)
    <2>1. /\ Goto(x, "announce") /\ pc[x] = "connected" /\ queue' = queue
          /\ UNCHANGED <<serverVars, dispVars, seekFrom, fromNewest>>
      BY <1>9 DEF SetConnected
    <2>2. "announce" \in Places \ ({"delay"} \cup BeforeSeek)
      BY DEF Places, BeforeSeek
    <2>3. QED
      BY <1>0, <2>1, <2>2, SameCarried, ConnectorMoves
  <1>10. CASE Announce(x)
    <2>1. /\ Goto(x, "idle") /\ pc[x] = "announce"
          /\ UNCHANGED <<connState, serverVars, dispVars, seekFrom, fromNewest>>
      BY <1>10 DEF Announce, clientVars
    <2>2. queue' \in Seq(Events) /\ Carried(0) /\ NoNewSeek(0)
      BY <1>0, <1>10, SameCarried, AppendCarried, StreamEvents DEF Announce, Submit
    <2>3. "idle" \in Places \ ({"delay"} \cup BeforeSeek)
      BY DEF Places, BeforeSeek
    <2>4. QED
      BY <2>1, <2>2, <2>3, ConnectorMoves
  <1>11. QED
    BY <1>1, <1>2, <1>3, <1>4, <1>5, <1>6, <1>7, <1>8, <1>9, <1>10

-----------------------------------------------------------------------------
(* The monitors, Close and the ledger                                      *)

\* A step outside connect that leaves the streams and the dispatcher alone.
LEMMA BystanderMoves ==
    ASSUME IInv, UNCHANGED <<opened, open, cursor, recv, inHand, dispVars, seekFrom, fromNewest>>,
           height' \in Blocks, queue' \in Seq(Events), Carried(0), NoNewSeek(0),
           \/ pc' = pc
           \/ connState = "Connected" /\ \E r \in Reconnectors : pc[r] = "idle" /\ Goto(r, "delay"),
           connState' = "Connected" => connState = "Connected"
    PROVE  IInv'
  <1> USE DEF IInv, dispVars
  <1>1. /\ pc \in [Connectors -> Places] /\ User \in Connectors /\ Reconnectors \subseteq Connectors
        /\ User \notin Reconnectors
    BY UserAssumption DEF Types, Connectors
  <1>2. pc' \in [Connectors -> Places] /\ pc'[User] # "delay"
    BY <1>1 DEF Goto, Places, Types
  <1>3. Types'
    BY <1>2 DEF Types
  <1>4. OneConnection' /\ StreamsKept
    BY DEF OneConnection, StreamsKept, StreamKept, Holds
  <1>5. ConnectsKept
    BY <1>1 DEF ConnectsKept, Goto
  <1>6. QED
    BY <1>3, <1>4, <1>5, CalmInvariant

\* A block is committed on the ledger.
LEMMA BlockCommitsKeeps ==
    ASSUME IInv, BlockCommits
    PROVE  IInv'
  <1>1. queue \in Seq(Events) /\ height \in Blocks
    BY DEF IInv, Types
  <1>2. height' \in Blocks
    BY <1>1, BoundsAssumption DEF BlockCommits, Blocks
  <1>3. UNCHANGED <<opened, open, cursor, recv, inHand, dispVars, seekFrom, fromNewest, pc, queue, connState>>
    BY DEF BlockCommits, clientVars, procVars
  <1>4. QED
    BY <1>1, <1>2, <1>3, SameCarried, BystanderMoves

\* The connection monitor.
LEMMA MonitorKeeps ==
    ASSUME IInv, Monitor
    PROVE  IInv'
  <1>0. queue \in Seq(Events) /\ height \in Blocks
    BY DEF IInv, Types
  <1>1. CASE MonitorReceive
    <2>1. UNCHANGED <<serverVars, dispVars, seekFrom, fromNewest, pc, queue, connState>>
      BY <1>1 DEF MonitorReceive, clientVars, procVars
    <2>2. QED
      BY <1>0, <2>1, SameCarried, BystanderMoves DEF serverVars
  <1>2. CASE MonitorReact
    <2>1. UNCHANGED <<serverVars, dispVars, seekFrom, fromNewest, queue>>
      BY <1>2 DEF MonitorReact
    <2>2. \/ pc' = pc
          \/ connState = "Connected" /\ \E r \in Reconnectors : pc[r] = "idle" /\ Goto(r, "delay")
      BY <1>2 DEF MonitorReact
    <2>3. connState' = "Connected" => connState = "Connected"
      BY <1>2 DEF MonitorReact
    <2>4. QED
      BY <1>0, <2>1, <2>2, <2>3, SameCarried, BystanderMoves DEF serverVars
  <1>3. QED
    BY <1>1, <1>2 DEF Monitor

\* The peer monitors.
LEMMA PeerMonitorKeeps ==
    ASSUME IInv, NEW m \in PeerMonitors,
           \/ PeerMonitorDisconnects(m) \/ PeerMonitorAnswered(m)
           \/ PeerMonitorNotifies(m) \/ PeerMonitorStops(m)
    PROVE  IInv'
  <1>1. queue \in Seq(Events) /\ height \in Blocks /\ m \in Callers
    BY DEF IInv, Types, Callers
  <1>2. UNCHANGED <<serverVars, dispVars, seekFrom, fromNewest, pc, connState>>
    BY DEF PeerMonitorDisconnects, PeerMonitorAnswered, PeerMonitorNotifies, PeerMonitorStops,
           clientVars, procVars
  <1>3. queue' \in Seq(Events) /\ Carried(0) /\ NoNewSeek(0)
    <2>1. CASE PeerMonitorDisconnects(m)
      BY <1>1, <2>1, AppendCarried, CallerEvents DEF PeerMonitorDisconnects, Ask, Submit
    <2>2. CASE PeerMonitorNotifies(m)
      BY <1>1, <2>2, AppendCarried, StreamEvents DEF PeerMonitorNotifies
    <2>3. CASE PeerMonitorAnswered(m) \/ PeerMonitorStops(m)
      BY <1>1, <2>3, SameCarried DEF PeerMonitorAnswered, PeerMonitorStops
    <2>4. QED
      BY <2>1, <2>2, <2>3
  <1>4. QED
    BY <1>1, <1>2, <1>3, BystanderMoves DEF serverVars

\* Close and the call of it.
LEMMA ClosingKeeps ==
    ASSUME IInv, UserCloses \/ Closing
    PROVE  IInv'
  <1>1. queue \in Seq(Events) /\ height \in Blocks /\ Closer \in Callers
    BY DEF IInv, Types, Callers
  <1>2. /\ UNCHANGED <<serverVars, dispVars, seekFrom, fromNewest, pc>>
        /\ connState' = "Connected" => connState = "Connected"
    BY DEF UserCloses, Closing, CloseConnectEventChan, CloseDisconnect, CloseDisconnected, CloseStop,
           CloseStopped, CloseFinal, clientVars
  <1>3. queue' \in Seq(Events) /\ Carried(0) /\ NoNewSeek(0)
    <2>1. CASE CloseDisconnect
      BY <1>1, <2>1, AppendCarried, CallerEvents DEF CloseDisconnect, Ask, Submit
    <2>2. CASE CloseStop
      BY <1>1, <2>2, AppendCarried, CallerEvents DEF CloseStop, Ask, Submit
    <2>3. CASE CloseStopped
      BY <1>1, <2>3, SameCarried, AbandonCarried DEF CloseStopped
    <2>4. CASE UserCloses \/ CloseConnectEventChan \/ CloseDisconnected \/ CloseFinal
      BY <1>1, <2>4, SameCarried DEF UserCloses, CloseConnectEventChan, CloseDisconnected, CloseFinal
    <2>5. QED
      BY <2>1, <2>2, <2>3, <2>4 DEF Closing
  <1>4. QED
    BY <1>1, <1>2, <1>3, BystanderMoves DEF serverVars

-----------------------------------------------------------------------------
(* The dispatcher                                                          *)

\* The dispatcher handles an event that is neither a block nor a seek, and may
\* open a connection or close the one it has.
LEMMA DispatcherMoves ==
    ASSUME IInv, queue # <<>>, queue' = Tail(queue), Head(queue).type \notin {"block", "seek"},
           UNCHANGED <<height, cursor, inHand, lastBlock, infoOnly, published, seekFrom, fromNewest, pc,
                       connState>>,
           \/ UNCHANGED <<opened, recv, conn, open>>
           \/ UNCHANGED <<opened, recv>> /\ conn' = 0 /\ open' = open \ {conn}
           \/ /\ conn = 0 /\ opened < MaxConns /\ opened' = opened + 1 /\ conn' = opened + 1
              /\ open' = open \cup {opened + 1}
              /\ recv' = [recv EXCEPT ![opened + 1] = "recv"]
    PROVE  IInv'
  <1> USE DEF IInv
  <1>1. queue' \in Seq(Events) /\ Carried(1) /\ NoNewSeek(1)
    BY TailCarried DEF Types, IsBlock, IsSeek
  <1>2. OneConnection'
    <2>1. open \subseteq {conn} /\ 0 \notin open
      BY BoundsAssumption DEF OneConnection, Types, Conns
    <2>2. QED
      BY <2>1 DEF OneConnection
  <1>3. Types' /\ StreamsKept
    <2>1. CASE opened' = opened
      BY <1>1, <2>1, BoundsAssumption DEF Types, StreamsKept, StreamKept, Holds
    <2>2. CASE /\ opened < MaxConns /\ opened' = opened + 1 /\ conn' = opened + 1
               /\ recv' = [recv EXCEPT ![opened + 1] = "recv"]
      <3>1. opened + 1 \in Conns /\ recv[opened + 1] = "off"
        BY <2>2, BoundsAssumption DEF Types, Conns
      <3>2. recv' \in [Conns -> {"off", "recv", "post", "ended"}]
        BY <2>2 DEF Types
      <3>3. \A c \in Conns : c > opened + 1 => recv'[c] = "off"
        BY <2>2, BoundsAssumption DEF Types, Conns
      <3>4. \A c \in Conns : recv'[c] = "post" <=> recv[c] = "post"
        BY <2>2, <3>1 DEF Types
      <3>5. Types'
        BY <1>1, <2>2, <3>2, <3>3, <3>4, BoundsAssumption DEF Types
      <3>6. StreamsKept
        BY <3>4 DEF StreamsKept, StreamKept, Holds
      <3>7. QED
        BY <3>5, <3>6
    <2>3. QED
      BY <2>1, <2>2
  <1>4. ConnectsKept
    BY DEF ConnectsKept
  <1>5. QED
    BY <1>1, <1>2, <1>3, <1>4, CalmInvariant

\* The handlers of the events of the goroutines that connect and close, and of
\* the news of the connection.
LEMMA HandlersKeep ==
    ASSUME IInv,
           \/ HandleConnectEvent \/ HandleRegisterConnectionEvent \/ HandleDisconnectEvent
           \/ HandleConnectedEvent \/ HandleDisconnectedEvent
           \/ HandleStopEvent \/ HandleStopAndTransferEvent
    PROVE  IInv'
  <1> USE DEF Handle, serverVars, dispVars, clientVars, procVars
  <1>1. CASE HandleConnectEvent
    BY <1>1, DispatcherMoves DEF HandleConnectEvent
  <1>2. CASE HandleRegisterConnectionEvent
    BY <1>2, DispatcherMoves DEF HandleRegisterConnectionEvent
  <1>3. CASE HandleDisconnectEvent
    BY <1>3, DispatcherMoves DEF HandleDisconnectEvent
  <1>4. CASE HandleConnectedEvent
    BY <1>4, DispatcherMoves DEF HandleConnectedEvent
  <1>5. CASE HandleDisconnectedEvent
    BY <1>5, DispatcherMoves DEF HandleDisconnectedEvent
  <1>6. CASE HandleStopEvent
    BY <1>6, DispatcherMoves DEF HandleStopEvent
  <1>7. CASE HandleStopAndTransferEvent
    BY <1>7, DispatcherMoves DEF HandleStopAndTransferEvent
  <1>8. QED
    BY <1>1, <1>2, <1>3, <1>4, <1>5, <1>6, <1>7

-----------------------------------------------------------------------------
(* Asking for blocks                                                       *)

\* setSeekFromLastBlockReceived: the seek is for the block after the last one,
\* or for the newest and the client knows.
LEMMA SetSeekKeeps ==
    ASSUME IInv, NEW x \in Connectors, SetSeekFromLastBlockReceived(x)
    PROVE  IInv'
  <1> USE DEF IInv
  <1>0. /\ pc[x] = "delay" /\ pc' = [pc EXCEPT ![x] = "start"]
        /\ seekFrom' = (IF lastBlock = 0 THEN 0 ELSE lastBlock + 1)
        /\ fromNewest' = (fromNewest \/ lastBlock = 0)
        /\ UNCHANGED <<serverVars, queue, dispVars, connState>>
    BY DEF SetSeekFromLastBlockReceived, Goto
  <1> USE DEF serverVars, dispVars
  <1>1. x \in Reconnectors /\ x # User /\ User \in Connectors /\ Reconnectors \subseteq Connectors
    BY <1>0 DEF Types, Connectors
  <1>2. Types'
    <2>1. pc' \in [Connectors -> Places] /\ pc'[User] # "delay"
      BY <1>0, <1>1 DEF Types, Places
    <2>2. seekFrom' \in 0..(MaxHeight + 1) /\ fromNewest' \in BOOLEAN
      BY <1>0, BoundsAssumption DEF Types
    <2>3. QED
      BY <1>0, <2>1, <2>2 DEF Types
  <1>3. UserFirst'
    BY <1>0, <1>1 DEF UserFirst, Types
  <1>4. ASSUME ~fromNewest'
        PROVE  Flow'
    <2>1. Flow /\ lastBlock # 0 /\ seekFrom' = lastBlock + 1
      BY <1>0, <1>4
    <2>2. Consecutive'
      BY <1>0, <1>2, <2>1, SameCarried, CalmConsecutive
         DEF Flow, StreamsKept, StreamKept, Holds, Types
    <2>3. SeeksInTime'
      BY <1>0, <2>1 DEF Flow, SeeksInTime, Types
    <2>4. OneStream'
      BY <1>0, <2>1 DEF OneStream
    <2>5. QED
      BY <2>2, <2>3, <2>4 DEF Flow
  <1>5. OneConnection' /\ LastPublished' /\ PublishedInOrder'
    BY <1>0 DEF OneConnection, LastPublished, PublishedInOrder, Gap
  <1>6. QED
    BY <1>2, <1>3, <1>4, <1>5

\* The seek is submitted.
LEMMA SeekKeeps ==
    ASSUME IInv, NEW x \in Connectors, Seek(x)
    PROVE  IInv'
  <1> USE DEF IInv
  <1>0. /\ pc[x] = "seek" /\ x \in Callers /\ queue \in Seq(Events)
        /\ UNCHANGED <<serverVars, dispVars, connState, seekFrom, fromNewest>>
    BY DEF Seek, Types, Callers, clientVars
  <1>1. CASE queue' = queue /\ Goto(x, "undo")
    <2>1. "undo" \in Places \ ({"delay"} \cup BeforeSeek)
      BY DEF Places, BeforeSeek
    <2>2. QED
      BY <1>0, <1>1, <2>1, SameCarried, ConnectorMoves
  <1>2. CASE queue' = Append(queue, [type |-> "seek", by |-> x, from |-> seekFrom]) /\ Goto(x, "waitSeek")
    <2> DEFINE e == [type |-> "seek", by |-> x, from |-> seekFrom]
    <2>1. e \in Events /\ ~IsBlock(e) /\ IsSeek(e) /\ e.from = seekFrom
      BY <1>0, SeekEvents DEF Types, IsBlock, IsSeek
    <2>2. queue' = Append(queue, e)
      BY <1>2
    <2> HIDE DEF e
    <2>3. /\ queue' \in Seq(Events) /\ Carried(0) /\ Len(queue) \in Nat /\ Len(queue') = Len(queue) + 1
          /\ queue'[Len(queue) + 1] = e
          /\ \A i \in 1..Len(queue) : queue'[i] = queue[i]
      BY <1>0, <2>1, <2>2, AppendCarried
    <2>4. /\ pc \in [Connectors -> Places] /\ User \in Connectors /\ Reconnectors \subseteq Connectors
          /\ pc' = [pc EXCEPT ![x] = "waitSeek"] /\ (x # User => x \in Reconnectors)
      BY <1>2 DEF Types, Connectors, Goto
    <2>5. Types'
      BY <1>0, <2>3, <2>4 DEF Types, Places, serverVars, dispVars
    <2>6. StreamsKept
      BY <1>0 DEF StreamsKept, StreamKept, Holds, serverVars, dispVars
    <2>7. UserFirst'
      <3>1. CASE x = User
        BY <2>4, <3>1 DEF UserFirst, BeforeSeek
      <3>2. CASE x # User
        BY <1>0, <2>4, <3>2 DEF UserFirst
      <3>3. QED
        BY <3>1, <3>2
    <2>8. ASSUME ~fromNewest'
          PROVE  Flow'
      <3>1. Flow /\ lastBlock' = lastBlock /\ seekFrom' = seekFrom
        BY <1>0, <2>8 DEF dispVars
      <3>2. Consecutive'
        BY <2>3, <2>5, <2>6, <3>1, CalmConsecutive DEF Flow
      <3>3. seekFrom = 0 => lastBlock = 0
        <4>1. CASE x = User
          BY <1>0, <4>1 DEF UserFirst, BeforeSeek
        <4>2. CASE x # User
          BY <1>0, <2>4, <4>2, <3>1 DEF Flow, SeeksInTime
        <4>3. QED
          BY <4>1, <4>2
      <3>4. SeeksInTime'
        <4>1. \A r \in Reconnectors : pc'[r] \notin {"idle", "delay"} => pc[r] \notin {"idle", "delay"}
          BY <1>0, <2>4
        <4>2. ASSUME NEW i \in 1..Len(queue'), IsSeek(queue'[i])
              PROVE  queue'[i].from <= lastBlock + 1 /\ (queue'[i].from = 0 => lastBlock = 0)
          <5>1. CASE i \in 1..Len(queue)
            BY <2>3, <3>1, <4>2, <5>1 DEF Flow, SeeksInTime
          <5>2. CASE i = Len(queue) + 1
            BY <2>1, <2>3, <3>1, <3>3, <5>2 DEF Flow, SeeksInTime
          <5>3. QED
            BY <2>3, <5>1, <5>2
        <4>3. QED
          BY <3>1, <4>1, <4>2 DEF Flow, SeeksInTime
      <3>5. OneStream'
        <4>1. SUFFICES ASSUME lastBlock = 0
                       PROVE  OneStream'
          BY <3>1 DEF OneStream
        <4>2. x = User
          BY <1>0, <2>4, <3>1, <4>1 DEF Flow, OneStream
        <4>3. NothingSent /\ \A i \in 1..Len(queue) : ~IsSeek(queue[i])
          BY <1>0, <4>2 DEF UserFirst, BeforeSeek
        <4>4. NothingSent'
          BY <2>3, <2>5, <2>6, <4>3, CalmNothingSent
        <4>5. \A i \in 1..Len(queue') : IsSeek(queue'[i]) => i = Len(queue) + 1
          BY <2>3, <4>3
        <4>6. \A r \in Reconnectors : pc'[r] \in {"idle", "delay"}
          BY <2>4, <4>1, <4>2, <3>1, UserAssumption DEF Flow, OneStream
        <4>7. QED
          BY <4>4, <4>5, <4>6 DEF OneStream, NothingSent
      <3>6. QED
        BY <3>2, <3>4, <3>5 DEF Flow
    <2>9. OneConnection' /\ LastPublished' /\ PublishedInOrder'
      BY <1>0 DEF OneConnection, LastPublished, PublishedInOrder, Gap, serverVars, dispVars
    <2>10. QED
      BY <2>5, <2>7, <2>8, <2>9
  <1>3. QED
    BY <1>1, <1>2 DEF Seek, Ask, Submit

\* handleSeekEvent: the server starts a stream.
LEMMA HandleSeekKeeps ==
    ASSUME IInv, HandleSeekEvent
    PROVE  IInv'
  <1> USE DEF IInv
  <1>0. /\ queue # <<>> /\ queue' = Tail(queue) /\ queue \in Seq(Events)
        /\ IsSeek(Head(queue)) /\ ~IsBlock(Head(queue))
        /\ UNCHANGED <<height, opened, open, recv, inHand, dispVars, connState, seekFrom, fromNewest, pc>>
    BY DEF HandleSeekEvent, Handle, IsSeek, IsBlock, Types, clientVars, procVars
  <1>1. queue' \in Seq(Events) /\ Carried(1) /\ NoNewSeek(1)
    BY <1>0, TailCarried
  <1>2. PICK from : from = Head(queue).from
    OBVIOUS
  <1>3. /\ from \in 0..(MaxHeight + 1) /\ Head(queue) = queue[1] /\ 1 \in 1..Len(queue)
        /\ Len(queue) \in Nat
    <2>1. Head(queue) \in Events
      BY <1>0
    <2>2. QED
      BY <1>0, <1>2, <2>1, EventFields
  <1>4. OneConnection' /\ LastPublished' /\ PublishedInOrder'
    BY <1>0 DEF OneConnection, LastPublished, PublishedInOrder, Gap, dispVars
  <1>5. CASE cursor' = cursor
    <2>1. Types'
      BY <1>0, <1>1, <1>5 DEF Types, dispVars
    <2>2. StreamsKept /\ ConnectsKept
      BY <1>0, <1>5 DEF StreamsKept, StreamKept, Holds, ConnectsKept, dispVars
    <2>3. QED
      BY <1>0, <1>1, <1>4, <2>1, <2>2, CalmInvariant DEF dispVars
  <1>6. CASE /\ conn # 0 /\ cursor[conn] = 0
             /\ cursor' = [cursor EXCEPT ![conn] = IF from = 0 THEN height ELSE from]
    <2>1. PICK v : v = IF from = 0 THEN height ELSE from
      OBVIOUS
    <2>2. v \in 1..(MaxHeight + 1) /\ conn \in Conns
      BY <1>3, <1>6, <2>1, BoundsAssumption DEF Types, Blocks, Conns
    <2>3. /\ cursor' \in [Conns -> 0..Ended] /\ cursor'[conn] = v
          /\ \A c \in Conns : c # conn => cursor'[c] = cursor[c]
      <3>1. cursor' = [cursor EXCEPT ![conn] = v] /\ cursor \in [Conns -> 0..Ended]
        BY <1>6, <2>1 DEF Types
      <3>2. v \in 0..Ended
        BY <2>2, BoundsAssumption DEF Ended
      <3>3. QED
        BY <2>2, <3>1, <3>2
    <2>4. Types'
      BY <1>0, <1>1, <2>3 DEF Types, dispVars
    <2>5. UserFirst'
      BY <1>0, <1>3 DEF UserFirst
    <2>6. ASSUME ~fromNewest'
          PROVE  Flow'
      <3>1. Flow /\ UNCHANGED <<lastBlock, seekFrom, pc, inHand, recv, conn>>
        BY <1>0, <2>6 DEF dispVars
      <3>2. from <= lastBlock + 1 /\ (from = 0 => lastBlock = 0)
        BY <1>0, <1>2, <1>3, <3>1 DEF Flow, SeeksInTime
      <3>3. lastBlock = 0 => /\ NothingSent
                             /\ \A j \in 1..Len(queue) : IsSeek(queue[j]) => j = 1
        BY <1>0, <1>3, <3>1 DEF Flow, OneStream
      <3>4. ASSUME lastBlock = 0
            PROVE  \A i \in 1..Len(queue') : ~IsBlock(queue'[i]) /\ ~IsSeek(queue'[i])
        <4>1. \A i \in 1..Len(queue') : i + 1 \in 1..Len(queue) /\ i + 1 # 1 /\ queue'[i] = queue[i + 1]
          BY <1>0
        <4>2. QED
          BY <3>3, <3>4, <4>1 DEF NothingSent
      <3>5. SeeksInTime'
        BY <1>1, <2>4, <3>1, CalmSeeks DEF Flow, SeeksInTime
      <3>6. OneStream'
        <4>1. SUFFICES ASSUME lastBlock = 0
                       PROVE  OneStream'
          BY <3>1 DEF OneStream
        <4>2. \A c \in Conns : cursor'[c] # 0 => c = conn
          BY <2>3, <3>3, <4>1 DEF NothingSent
        <4>3. \A r \in Reconnectors : pc'[r] \in {"idle", "delay"}
          BY <3>1, <4>1 DEF Flow, OneStream
        <4>4. QED
          BY <3>4, <4>1, <4>2, <4>3 DEF OneStream
      <3>7. QueueInOrder'
        BY <1>1, <3>1, CalmQueue DEF Flow, Consecutive
      <3>8. ASSUME NEW c \in Conns
            PROVE  StreamInOrder(c)'
        <4>1. CASE c # conn
          BY <1>1, <2>3, <2>4, <3>1, <4>1, CalmStream DEF Flow, Consecutive, StreamKept, Holds
        <4>2. CASE c = conn
          <5>1. ~Holds(c) /\ ~Holds(c)'
            BY <1>6, <3>1, <4>2 DEF Flow, Consecutive, StreamInOrder, Holds
          <5>2. Reached(v, Len(queue) + 1)'
            <6>1. CASE from = 0
              BY <3>1, <3>2, <3>4, <6>1 DEF Reached, NoneBefore
            <6>2. CASE from # 0
              BY <2>1, <3>1, <3>2, <6>2 DEF Reached
            <6>3. QED
              BY <6>1, <6>2
          <5>3. Reached(cursor[c], Len(queue) + 1)'
            BY <2>3, <4>2, <5>2 DEF Reached
          <5>4. QED
            BY <5>1, <5>3 DEF StreamInOrder
        <4>3. QED
          BY <4>1, <4>2
      <3>9. QED
        BY <3>5, <3>6, <3>7, <3>8 DEF Flow, Consecutive
    <2>7. QED
      BY <1>4, <2>4, <2>5, <2>6
  <1>7. cursor' = cursor \/ /\ conn # 0 /\ cursor[conn] = 0
                            /\ cursor' = [cursor EXCEPT ![conn] = IF from = 0 THEN height ELSE from]
    <2>1. SUFFICES ASSUME conn # 0,
                          cursor' = [cursor EXCEPT ![conn] = IF @ # 0 THEN @ ELSE IF Head(queue).from = 0
                                                             THEN height ELSE Head(queue).from]
                   PROVE  cursor' = cursor \/ /\ conn # 0 /\ cursor[conn] = 0
                                              /\ cursor' = [cursor EXCEPT ![conn] =
                                                               IF from = 0 THEN height ELSE from]
      BY DEF HandleSeekEvent
    <2>2. cursor \in [Conns -> 0..Ended]
      BY DEF Types
    <2>3. CASE cursor[conn] = 0
      BY <1>2, <2>1, <2>3
    <2>4. CASE cursor[conn] # 0
      BY <2>1, <2>2, <2>4
    <2>5. QED
      BY <2>3, <2>4
  <1>8. QED
    BY <1>5, <1>6, <1>7

-----------------------------------------------------------------------------
(* Blocks                                                                  *)

\* A block that may follow one block may follow a later one.
LEMMA MayFollow ==
    ASSUME NEW m \in Nat, NEW n \in Nat, NEW b \in Nat, n <= m + 1, m <= b
    PROVE  n <= b + 1
  OBVIOUS

\* What is reached once the block at the head of the queue has been handled.
LEMMA HandledReached ==
    ASSUME Types, queue # <<>>, queue' = Tail(queue), IsBlock(Head(queue)),
           lastBlock' \in Nat, lastBlock <= lastBlock', Head(queue).number <= lastBlock',
           NEW n \in Nat, NEW i \in Nat \ {0}, Reached(n, i + 1)
    PROVE  Reached(n, i)'
  <1>1. /\ Len(queue) \in Nat /\ Len(queue') = Len(queue) - 1 /\ Head(queue) = queue[1]
        /\ 1 \in 1..Len(queue) /\ \A j \in 1..Len(queue') : queue'[j] = queue[j + 1]
        /\ lastBlock \in Nat /\ Head(queue).number \in Nat
    <2>1. Head(queue) \in Events
      BY DEF Types
    <2>2. Head(queue).number \in Nat
      BY <2>1, EventFields, BoundsAssumption DEF Blocks
    <2>3. QED
      BY <2>2, BoundsAssumption DEF Types
  <1>2. CASE n <= lastBlock + 1
    <2>1. n <= lastBlock' + 1
      BY <1>1, <1>2, MayFollow
    <2>2. QED
      BY <2>1 DEF Reached
  <1>3. CASE \E j \in 1..Len(queue) : j < i + 1 /\ IsBlock(queue[j]) /\ n <= queue[j].number + 1
    <2>1. PICK j \in 1..Len(queue) : j < i + 1 /\ IsBlock(queue[j]) /\ n <= queue[j].number + 1
      BY <1>3
    <2>2. CASE j = 1
      <3>1. n <= lastBlock' + 1
        BY <1>1, <2>1, <2>2, MayFollow
      <3>2. QED
        BY <3>1 DEF Reached
    <2>3. CASE j # 1
      <3>1. PICK h \in 1..Len(queue') : h + 1 = j
        <4>1. j - 1 \in 1..Len(queue') /\ (j - 1) + 1 = j
          BY <1>1, <2>3
        <4>2. QED
          BY <4>1
      <3>2. h < i /\ queue'[h] = queue[j]
        BY <1>1, <2>1, <3>1
      <3>3. QED
        BY <2>1, <3>1, <3>2 DEF Reached
    <2>4. QED
      BY <2>2, <2>3
  <1>4. ~NoneBefore(i + 1)
    <2>1. 1 < i + 1
      OBVIOUS
    <2>2. QED
      BY <1>1, <2>1 DEF NoneBefore
  <1>5. QED
    BY <1>2, <1>3, <1>4 DEF Reached

\* HandleBlock: a block that is newer than the last one is published.
LEMMA HandleBlockKeeps ==
    ASSUME IInv, HandleBlock
    PROVE  IInv'
  <1> USE DEF IInv
  <1>0. /\ queue # <<>> /\ queue' = Tail(queue) /\ queue \in Seq(Events) /\ IsBlock(Head(queue))
        /\ UNCHANGED <<serverVars, conn, connState, seekFrom, fromNewest, pc>>
    BY DEF HandleBlock, Handle, IsBlock, Types, clientVars, procVars
  <1>1. PICK b : b = Head(queue).number
    OBVIOUS
  <1>2. /\ b \in Blocks /\ Len(queue) \in Nat /\ 1 \in 1..Len(queue) /\ Head(queue) = queue[1]
        /\ queue' \in Seq(Events) /\ Len(queue') = Len(queue) - 1
        /\ \A i \in 1..Len(queue') : i + 1 \in 1..Len(queue) /\ queue'[i] = queue[i + 1]
    <2>1. Head(queue) \in Events
      BY <1>0
    <2>2. QED
      BY <1>0, <1>1, <2>1, EventFields
  <1>3. \/ /\ lastBlock = 0 \/ b > lastBlock
           /\ lastBlock' = b /\ infoOnly' = FALSE
           /\ published' = IF infoOnly THEN published ELSE Append(published, b)
        \/ /\ lastBlock # 0 /\ b <= lastBlock
           /\ UNCHANGED <<lastBlock, infoOnly, published>>
    BY <1>1 DEF HandleBlock
  <1>4. /\ lastBlock \in Nat /\ b \in Nat /\ lastBlock' \in 0..MaxHeight
        /\ lastBlock' # 0 /\ lastBlock <= lastBlock' /\ b <= lastBlock'
    <2>1. lastBlock \in 0..MaxHeight /\ b \in 1..MaxHeight
      BY <1>2 DEF Types, Blocks
    <2>2. QED
      BY <1>3, <2>1, BoundsAssumption
  <1>5. infoOnly' \in BOOLEAN /\ published' \in Seq(Blocks)
    <2>1. infoOnly \in BOOLEAN /\ published \in Seq(Blocks) /\ Append(published, b) \in Seq(Blocks)
      BY <1>2 DEF Types
    <2>2. infoOnly' = FALSE \/ infoOnly' = infoOnly
      BY <1>3
    <2>3. published' = published \/ published' = Append(published, b)
      BY <1>3
    <2>4. QED
      BY <2>1, <2>2, <2>3
  <1>6. Types'
    BY <1>0, <1>2, <1>4, <1>5 DEF Types, serverVars
  <1>7. OneConnection'
    BY <1>0 DEF OneConnection, serverVars
  <1>8. ~NothingSent
    BY <1>0, <1>2 DEF NothingSent
  <1>9. UserFirst'
    BY <1>0, <1>8 DEF UserFirst
  <1>10. ASSUME ~fromNewest'
         PROVE  Flow'
    <2>1. Flow
      BY <1>0, <1>10
    <2>2. SeeksInTime'
      <3>1. seekFrom' <= lastBlock' + 1
        <4>1. seekFrom \in Nat /\ seekFrom <= lastBlock + 1 /\ lastBlock' \in Nat
          BY <1>4, <2>1, BoundsAssumption DEF Flow, SeeksInTime, Types
        <4>2. QED
          BY <1>0, <1>4, <4>1, MayFollow
      <3>2. ASSUME NEW i \in 1..Len(queue'), IsSeek(queue'[i])
            PROVE  queue'[i].from <= lastBlock' + 1 /\ queue'[i].from # 0
        <4>1. PICK f : f = queue'[i].from
          OBVIOUS
        <4>2. f \in Nat
          BY <1>2, <3>2, <4>1, EventFields, BoundsAssumption
        <4>3. f <= lastBlock + 1 /\ (f = 0 => lastBlock = 0)
          BY <1>2, <2>1, <3>2, <4>1 DEF Flow, SeeksInTime
        <4>4. lastBlock # 0
          BY <1>2, <1>8, <2>1, <3>2 DEF Flow, OneStream
        <4>5. lastBlock' \in Nat
          BY <1>4, BoundsAssumption
        <4>6. QED
          BY <1>4, <4>1, <4>2, <4>3, <4>4, <4>5, MayFollow
      <3>3. QED
        BY <1>0, <2>1, <3>1, <3>2 DEF Flow, SeeksInTime
    <2>3. OneStream'
      BY <1>4 DEF OneStream
    <2>4. ASSUME NEW n \in Nat, NEW i \in Nat \ {0}, Reached(n, i + 1)
          PROVE  Reached(n, i)'
      BY <1>0, <1>1, <1>4, <2>4, HandledReached, BoundsAssumption
    <2>5. QueueInOrder'
      <3>1. SUFFICES ASSUME NEW i \in 1..Len(queue'), IsBlock(queue'[i])
                     PROVE  Reached(queue[i].number, i)'
        BY DEF QueueInOrder
      <3>2. PICK n : n = queue'[i].number
        OBVIOUS
      <3>3. n \in Nat /\ i \in Nat \ {0}
        BY <1>2, <3>1, <3>2, EventFields, BoundsAssumption DEF Blocks
      <3>4. Reached(n, i + 1)
        BY <1>2, <2>1, <3>1, <3>2 DEF Flow, Consecutive, QueueInOrder
      <3>5. Reached(n, i)'
        BY <2>4, <3>3, <3>4
      <3>6. QED
        BY <3>2, <3>5 DEF Reached
    <2>6. ASSUME NEW c \in Conns
          PROVE  StreamInOrder(c)'
      <3>1. StreamInOrder(c) /\ UNCHANGED <<cursor, recv, inHand>> /\ (Holds(c)' <=> Holds(c))
        BY <1>0, <2>1 DEF Flow, Consecutive, Holds, serverVars
      <3>2. PICK l \in Nat : l = Len(queue)
        BY <1>2
      <3>3. l # 0 /\ l = Len(queue') + 1
        BY <1>2, <3>2
      <3>4. ASSUME NEW n \in Nat, Reached(n, Len(queue) + 1)
            PROVE  Reached(n, Len(queue) + 1)'
        <4>1. Reached(n, l)'
          BY <2>4, <3>2, <3>3, <3>4
        <4>2. QED
          BY <3>3, <4>1 DEF Reached, NoneBefore
      <3>5. ASSUME Holds(c)
            PROVE  Reached(inHand[c].number, Len(queue) + 1)'
        <4>1. PICK n : n = inHand[c].number
          OBVIOUS
        <4>2. n \in Nat
          BY <3>5, <4>1, EventFields, BoundsAssumption DEF Blocks, Holds, Types
        <4>3. Reached(n, Len(queue) + 1)'
          BY <3>1, <3>4, <3>5, <4>1, <4>2 DEF StreamInOrder
        <4>4. QED
          BY <3>1, <4>1, <4>3 DEF Reached
      <3>6. ASSUME ~Holds(c), cursor[c] \in 1..(MaxHeight + 1)
            PROVE  Reached(cursor[c], Len(queue) + 1)'
        <4>1. PICK n \in Nat : n = cursor[c]
          BY <3>6, BoundsAssumption
        <4>2. Reached(n, Len(queue) + 1)'
          BY <3>1, <3>4, <3>6, <4>1 DEF StreamInOrder
        <4>3. QED
          BY <3>1, <4>1, <4>2 DEF Reached
      <3>7. QED
        BY <3>1, <3>5, <3>6 DEF StreamInOrder
    <2>7. QED
      BY <2>2, <2>3, <2>5, <2>6 DEF Flow, Consecutive
  <1>11. published # <<>> => lastBlock # 0 /\ Len(published) \in 1..Len(published)
    <2>1. SUFFICES ASSUME published # <<>>
                   PROVE  lastBlock # 0 /\ Len(published) \in 1..Len(published)
      OBVIOUS
    <2>2. Len(published) \in 1..Len(published) /\ published[Len(published)] \in Blocks
      BY <2>1 DEF Types
    <2>3. QED
      BY <2>1, <2>2, BoundsAssumption DEF LastPublished, Blocks
  <1>12. LastPublished'
    <2>1. CASE published' = published /\ lastBlock' = lastBlock /\ infoOnly' = infoOnly
      BY <2>1 DEF LastPublished
    <2>2. CASE infoOnly /\ published' = published /\ infoOnly' = FALSE
      BY <1>11, <2>2 DEF LastPublished
    <2>3. CASE published' = Append(published, b) /\ lastBlock' = b /\ infoOnly' = FALSE
      <3>1. published'[Len(published')] = b
        BY <1>2, <2>3 DEF Types
      <3>2. QED
        BY <2>3, <3>1 DEF LastPublished
    <2>4. QED
      BY <1>3, <2>1, <2>2, <2>3
  <1>13. PublishedInOrder'
    <2>1. CASE published' = published
      BY <1>0, <2>1 DEF PublishedInOrder, Gap
    <2>2. CASE published' = Append(published, b) /\ (lastBlock = 0 \/ b > lastBlock)
      <3>1. /\ Len(published) \in Nat /\ Len(published') = Len(published) + 1
            /\ published'[Len(published) + 1] = b
            /\ \A i \in 1..Len(published) : published'[i] = published[i]
        BY <1>2, <2>2 DEF Types
      <3>2. SUFFICES ASSUME NEW i \in 1..Len(published)
                     PROVE  /\ published'[i] < published'[i + 1]
                            /\ published'[i + 1] > published'[i] + 1 => fromNewest
        BY <1>0, <3>1 DEF PublishedInOrder, Gap
      <3>3. CASE i # Len(published)
        <4>1. i \in 1..(Len(published) - 1) /\ i + 1 \in 1..Len(published)
          BY <3>1, <3>3
        <4>2. QED
          BY <3>1, <4>1 DEF PublishedInOrder, Gap
      <3>4. CASE i = Len(published)
        <4>1. published'[i] = lastBlock /\ published'[i + 1] = b /\ lastBlock # 0 /\ b > lastBlock
          BY <1>11, <2>2, <3>1, <3>4 DEF LastPublished
        <4>2. ASSUME ~fromNewest
              PROVE  b <= lastBlock + 1
          <5>1. Reached(b, 1)
            BY <1>0, <1>1, <1>2, <4>2 DEF Flow, Consecutive, QueueInOrder
          <5>2. QED
            BY <4>1, <5>1 DEF Reached
        <4>3. QED
          BY <1>4, <4>1, <4>2
      <3>5. QED
        BY <3>3, <3>4
    <2>3. QED
      BY <1>3, <2>1, <2>2
  <1>14. QED
    BY <1>6, <1>7, <1>9, <1>10, <1>12, <1>13

\* A receiver changes where it is and what it has in its hand.
LEMMA ReceiverTypes ==
    ASSUME Types, NEW c \in Conns, recv[c] \in {"recv", "post"},
           NEW l \in {"recv", "post", "ended"}, recv' = [recv EXCEPT ![c] = l],
           inHand' \in [Conns -> Events \cup {Nothing}],
           \A d \in Conns : d # c => inHand'[d] = inHand[d],
           l = "post" => inHand'[c] \in Events /\ ~IsSeek(inHand'[c]),
           cursor' \in [Conns -> 0..Ended], queue' \in Seq(Events),
           UNCHANGED <<height, opened, open, dispVars, clientVars, pc>>
    PROVE  Types'
  <1>1. recv' \in [Conns -> {"off", "recv", "post", "ended"}]
    BY DEF Types
  <1>2. \A d \in Conns : recv'[d] = "post" => inHand'[d] \in Events /\ ~IsSeek(inHand'[d])
    BY DEF Types
  <1>3. \A d \in Conns : d > opened => recv'[d] = "off"
    BY DEF Types
  <1>4. QED
    BY <1>1, <1>2, <1>3 DEF Types, dispVars, clientVars

\* DeliverConnection.Receive.
LEMMA ReceiveKeeps ==
    ASSUME IInv, NEW c \in Conns, Receive(c)
    PROVE  IInv'
  <1> USE DEF IInv
  <1>0. /\ recv[c] = "recv" /\ queue' = queue /\ queue \in Seq(Events)
        /\ UNCHANGED <<height, opened, open, dispVars, clientVars, pc>>
    BY DEF Receive, Types, procVars
  <1>1. queue' \in Seq(Events) /\ Carried(0) /\ NoNewSeek(0)
    BY <1>0, SameCarried
  <1>2. /\ cursor \in [Conns -> 0..Ended] /\ inHand \in [Conns -> Events \cup {Nothing}]
        /\ recv \in [Conns -> {"off", "recv", "post", "ended"}]
    BY DEF Types
  <1>3. OneConnection' /\ LastPublished' /\ PublishedInOrder'
    BY <1>0 DEF OneConnection, LastPublished, PublishedInOrder, Gap, dispVars, clientVars
  <1>4. CASE /\ recv' = [recv EXCEPT ![c] = "ended"] /\ inHand' = inHand /\ cursor' = cursor
    <2>1. Types'
      BY <1>0, <1>1, <1>2, <1>4, ReceiverTypes
    <2>2. StreamsKept /\ ConnectsKept
      BY <1>0, <1>2, <1>4 DEF StreamsKept, StreamKept, Holds, ConnectsKept, dispVars, clientVars
    <2>3. QED
      BY <1>0, <1>1, <1>3, <2>1, <2>2, CalmInvariant DEF dispVars
  <1>5. ASSUME NEW e \in Events, ~IsBlock(e), ~IsSeek(e), recv' = [recv EXCEPT ![c] = "post"],
               inHand' = [inHand EXCEPT ![c] = e],
               cursor' = cursor \/ (cursor[c] # 0 /\ cursor' = [cursor EXCEPT ![c] = Ended])
        PROVE  IInv'
    <2>1. Ended \in 0..Ended
      BY BoundsAssumption DEF Ended
    <2>2. cursor' \in [Conns -> 0..Ended]
      BY <1>2, <1>5, <2>1
    <2>3. /\ inHand' \in [Conns -> Events \cup {Nothing}] /\ inHand'[c] = e
          /\ \A d \in Conns : d # c => inHand'[d] = inHand[d] /\ recv'[d] = recv[d]
      BY <1>2, <1>5
    <2>4. Types'
      BY <1>0, <1>1, <1>5, <2>2, <2>3, ReceiverTypes
    <2>5. ~Holds(c) /\ ~Holds(c)' /\ \A d \in Conns : d # c => (Holds(d)' <=> Holds(d))
      BY <1>0, <1>5, <2>3 DEF Holds
    <2>6. \A d \in Conns : cursor'[d] = cursor[d] \/ (d = c /\ cursor[d] # 0 /\ cursor'[d] = Ended)
      BY <1>2, <1>5
    <2>7. StreamsKept
      BY <1>0, <2>3, <2>5, <2>6 DEF StreamsKept, StreamKept, dispVars
    <2>8. ConnectsKept
      BY <1>0 DEF ConnectsKept, clientVars
    <2>9. QED
      BY <1>0, <1>1, <1>3, <2>4, <2>7, <2>8, CalmInvariant DEF dispVars
  <1>6. CASE /\ cursor[c] \in 1..height
             /\ recv' = [recv EXCEPT ![c] = "post"]
             /\ inHand' = [inHand EXCEPT ![c] = [type |-> "block", number |-> cursor[c]]]
             /\ cursor' = [cursor EXCEPT ![c] = @ + 1]
    <2>1. PICK n : n = cursor[c]
      OBVIOUS
    <2>2. n \in Blocks /\ n + 1 \in 0..Ended /\ n # 0 /\ n \in Nat /\ n \in 1..(MaxHeight + 1)
      BY <1>6, <2>1, BoundsAssumption DEF Types, Blocks, Ended
    <2>3. PICK e : e = [type |-> "block", number |-> n]
      OBVIOUS
    <2>4. e \in Events /\ e.number = n /\ IsBlock(e) /\ ~IsSeek(e)
      BY <2>2, <2>3, StreamEvents DEF IsBlock, IsSeek
    <2>5. /\ inHand' \in [Conns -> Events \cup {Nothing}] /\ inHand'[c] = e /\ recv'[c] = "post"
          /\ \A d \in Conns : d # c => inHand'[d] = inHand[d] /\ recv'[d] = recv[d]
      BY <1>2, <1>6, <2>1, <2>3, <2>4
    <2>6. /\ cursor' \in [Conns -> 0..Ended] /\ cursor'[c] = n + 1
          /\ \A d \in Conns : d # c => cursor'[d] = cursor[d]
      BY <1>2, <1>6, <2>1, <2>2
    <2>7. Types'
      BY <1>0, <1>1, <1>6, <2>4, <2>5, <2>6, ReceiverTypes
    <2>8. ~NothingSent /\ ~Holds(c) /\ Holds(c)' /\ \A d \in Conns : d # c => (Holds(d)' <=> Holds(d))
      BY <1>0, <2>1, <2>2, <2>4, <2>5 DEF Holds, NothingSent
    <2>9. UserFirst'
      BY <1>0, <2>8 DEF UserFirst, clientVars
    <2>10. ASSUME ~fromNewest'
           PROVE  Flow'
      <3>1. Flow /\ lastBlock' = lastBlock /\ seekFrom' = seekFrom /\ pc' = pc
        BY <1>0, <2>10 DEF clientVars, dispVars
      <3>2. SeeksInTime'
        BY <1>0, <3>1 DEF Flow, SeeksInTime
      <3>3. OneStream'
        <4>1. \A d \in Conns : cursor'[d] # 0 => cursor[d] # 0
          BY <2>1, <2>2, <2>6
        <4>2. QED
          BY <1>0, <2>8, <3>1, <4>1 DEF Flow, OneStream
      <3>4. QueueInOrder'
        BY <1>1, <3>1, CalmQueue DEF Flow, Consecutive
      <3>5. ASSUME NEW d \in Conns, d # c
            PROVE  StreamInOrder(d)'
        BY <1>1, <2>5, <2>6, <2>7, <2>8, <3>1, <3>5, CalmStream DEF Flow, Consecutive, StreamKept
      <3>6. StreamInOrder(c)'
        <4>1. Reached(n, Len(queue) + 1)
          BY <2>1, <2>2, <2>8, <3>1 DEF Flow, Consecutive, StreamInOrder
        <4>2. Reached(n, Len(queue) + 1)'
          BY <1>0, <3>1, <4>1 DEF Reached, NoneBefore
        <4>3. Reached(inHand[c].number, Len(queue) + 1)'
          BY <2>4, <2>5, <4>2 DEF Reached
        <4>4. cursor'[c] # 0 /\ cursor'[c] <= inHand'[c].number + 1
          BY <2>2, <2>4, <2>5, <2>6
        <4>5. QED
          BY <2>8, <4>3, <4>4 DEF StreamInOrder
      <3>7. QED
        BY <3>2, <3>3, <3>4, <3>5, <3>6 DEF Flow, Consecutive
    <2>11. QED
      BY <1>3, <2>7, <2>9, <2>10
  <1>7. CASE /\ cursor[c] \in 1..(MaxHeight + 1)
             /\ recv' = [recv EXCEPT ![c] = "post"]
             /\ \E f \in BOOLEAN : inHand' = [inHand EXCEPT ![c] = [type |-> "status", fatal |-> f]]
             /\ cursor' = [cursor EXCEPT ![c] = Ended]
    <2>1. PICK f \in BOOLEAN : inHand' = [inHand EXCEPT ![c] = [type |-> "status", fatal |-> f]]
      BY <1>7
    <2>2. cursor[c] # 0
      BY <1>7
    <2>3. QED
      BY <1>5, <1>7, <2>1, <2>2, StreamEvents
  <1>8. CASE /\ recv' = [recv EXCEPT ![c] = "post"] /\ cursor' = cursor
             /\ inHand' = [inHand EXCEPT ![c] = [type |-> "disconnected", fatal |-> FALSE]]
    BY <1>5, <1>8, StreamEvents
  <1>9. QED
    BY <1>4, <1>6, <1>7, <1>8 DEF Receive

\* What is reached when a block has joined the queue.
LEMMA PostedReached ==
    ASSUME Types, NEW e \in Events, IsBlock(e), queue' = Append(queue, e), lastBlock' = lastBlock,
           NEW n \in Nat
    PROVE  /\ \A i \in 1..(Len(queue) + 1) : Reached(n, i) => Reached(n, i)'
           /\ Reached(n, Len(queue) + 1) /\ (lastBlock = 0 => ~NoneBefore(Len(queue) + 1)) =>
                 Reached(n, Len(queue) + 1)'
           /\ n <= e.number + 1 => Reached(n, Len(queue) + 1)'
  <1>1. /\ Len(queue) \in Nat /\ Len(queue') = Len(queue) + 1 /\ queue'[Len(queue) + 1] = e
        /\ \A j \in 1..Len(queue) : queue'[j] = queue[j]
    BY DEF Types
  <1>2. ASSUME NEW i \in 1..(Len(queue) + 1), NoneBefore(i)
        PROVE  NoneBefore(i)'
    BY <1>1, <1>2 DEF NoneBefore
  <1>3. ASSUME NEW i \in 1..(Len(queue) + 1), Reached(n, i)
        PROVE  Reached(n, i)'
    <2>1. CASE n <= lastBlock + 1
      BY <2>1 DEF Reached
    <2>2. CASE \E j \in 1..Len(queue) : j < i /\ IsBlock(queue[j]) /\ n <= queue[j].number + 1
      <3>1. PICK j \in 1..Len(queue) : j < i /\ IsBlock(queue[j]) /\ n <= queue[j].number + 1
        BY <2>2
      <3>2. j \in 1..Len(queue') /\ queue'[j] = queue[j]
        BY <1>1, <3>1
      <3>3. QED
        BY <3>1, <3>2 DEF Reached
    <2>3. CASE lastBlock = 0 /\ NoneBefore(i)
      BY <1>2, <2>3 DEF Reached
    <2>4. QED
      BY <1>3, <2>1, <2>2, <2>3 DEF Reached
  <1>4. ASSUME Reached(n, Len(queue) + 1), lastBlock = 0 => ~NoneBefore(Len(queue) + 1)
        PROVE  Reached(n, Len(queue) + 1)'
    <2>1. CASE n <= lastBlock + 1
      BY <2>1 DEF Reached
    <2>2. CASE \E j \in 1..Len(queue) : /\ j < Len(queue) + 1 /\ IsBlock(queue[j])
                                         /\ n <= queue[j].number + 1
      <3>1. PICK j \in 1..Len(queue) : IsBlock(queue[j]) /\ n <= queue[j].number + 1
        BY <2>2
      <3>2. j \in 1..Len(queue') /\ queue'[j] = queue[j] /\ j < Len(queue') + 1
        BY <1>1, <3>1
      <3>3. QED
        BY <3>1, <3>2 DEF Reached
    <2>3. QED
      BY <1>4, <2>1, <2>2 DEF Reached
  <1>5. ASSUME n <= e.number + 1
        PROVE  Reached(n, Len(queue) + 1)'
    <2>1. PICK j : j = Len(queue) + 1
      OBVIOUS
    <2>2. j \in 1..Len(queue') /\ queue'[j] = e /\ j < Len(queue') + 1
      BY <1>1, <2>1
    <2>3. QED
      BY <1>5, <2>2 DEF Reached
  <1>6. QED
    BY <1>3, <1>4, <1>5

\* The receiver's event gets into the queue.
LEMMA PostKeeps ==
    ASSUME IInv, NEW c \in Conns, Post(c)
    PROVE  IInv'
  <1> USE DEF IInv
  <1>0. /\ recv[c] = "post" /\ queue' = Append(queue, inHand[c]) /\ queue \in Seq(Events)
        /\ UNCHANGED <<height, opened, open, cursor, dispVars, clientVars, pc>>
        /\ \E l \in {"recv", "ended"} : recv' = [recv EXCEPT ![c] = l]
        /\ inHand' = [inHand EXCEPT ![c] = Nothing]
    BY DEF Post, Types, procVars
  <1>1. PICK e : e = inHand[c]
    OBVIOUS
  <1>2. PICK l \in {"recv", "ended"} : recv' = [recv EXCEPT ![c] = l]
    BY <1>0
  <1>3. /\ e \in Events /\ queue' = Append(queue, e) /\ queue' \in Seq(Events)
        /\ cursor \in [Conns -> 0..Ended] /\ inHand \in [Conns -> Events \cup {Nothing}]
        /\ recv \in [Conns -> {"off", "recv", "post", "ended"}]
    BY <1>0, <1>1 DEF Types
  <1>4. /\ inHand' \in [Conns -> Events \cup {Nothing}]
        /\ recv'[c] = l
        /\ \A d \in Conns : d # c => inHand'[d] = inHand[d] /\ recv'[d] = recv[d]
    BY <1>0, <1>2, <1>3
  <1>5. Types'
    BY <1>0, <1>2, <1>3, <1>4, ReceiverTypes
  <1>6. ~Holds(c)' /\ \A d \in Conns : d # c => (Holds(d)' <=> Holds(d))
    BY <1>4 DEF Holds
  <1>7. OneConnection' /\ LastPublished' /\ PublishedInOrder'
    BY <1>0 DEF OneConnection, LastPublished, PublishedInOrder, Gap, dispVars, clientVars
  <1>8. CASE ~IsBlock(e) /\ ~IsSeek(e)
    <2>1. Carried(0) /\ NoNewSeek(0)
      BY <1>0, <1>3, <1>8, AppendCarried
    <2>2. StreamsKept
      BY <1>0, <1>1, <1>4, <1>6, <1>8 DEF StreamsKept, StreamKept, Holds, dispVars
    <2>3. ConnectsKept
      BY <1>0 DEF ConnectsKept, clientVars
    <2>4. QED
      BY <1>0, <1>5, <1>7, <2>1, <2>2, <2>3, CalmInvariant DEF dispVars
  <1>9. CASE IsBlock(e)
    <2>1. Holds(c) /\ ~NothingSent /\ e.number \in Nat
      BY <1>0, <1>1, <1>3, <1>9, EventFields, BoundsAssumption DEF Holds, NothingSent, Blocks
    <2>2. UserFirst'
      BY <1>0, <2>1 DEF UserFirst, clientVars
    <2>3. /\ Len(queue) \in Nat /\ Len(queue') = Len(queue) + 1 /\ queue'[Len(queue) + 1] = e
          /\ \A j \in 1..Len(queue) : queue'[j] = queue[j]
      BY <1>0, <1>3
    <2>4. \A i \in 1..Len(queue') : IsSeek(queue'[i]) => i \in 1..Len(queue) /\ queue'[i] = queue[i]
      BY <1>9, <2>3 DEF IsSeek, IsBlock
    <2>5. ASSUME ~fromNewest'
          PROVE  Flow'
      <3>1. Flow /\ UNCHANGED <<lastBlock, seekFrom, pc, cursor>>
        BY <1>0, <2>5 DEF clientVars, dispVars
      <3>2. SeeksInTime'
        BY <2>4, <3>1 DEF Flow, SeeksInTime
      <3>3. OneStream'
        BY <2>1, <2>4, <3>1 DEF Flow, OneStream
      <3>4. cursor[c] # 0
        BY <2>1, <3>1 DEF Flow, Consecutive, StreamInOrder
      <3>5. ASSUME NEW n \in Nat
            PROVE  /\ \A i \in 1..(Len(queue) + 1) : Reached(n, i) => Reached(n, i)'
                   /\ Reached(n, Len(queue) + 1) /\ (lastBlock = 0 => ~NoneBefore(Len(queue) + 1)) =>
                         Reached(n, Len(queue) + 1)'
                   /\ n <= e.number + 1 => Reached(n, Len(queue) + 1)'
        BY <1>3, <1>9, <3>1, <3>5, PostedReached
      <3>6. QueueInOrder'
        <4>1. SUFFICES ASSUME NEW i \in 1..Len(queue'), IsBlock(queue'[i])
                       PROVE  Reached(queue[i].number, i)'
          BY DEF QueueInOrder
        <4>2. PICK n : n = queue'[i].number
          OBVIOUS
        <4>3. n \in Nat
          BY <1>3, <4>1, <4>2, EventFields, BoundsAssumption DEF Blocks
        <4>4. Reached(n, i)
          <5>1. CASE i \in 1..Len(queue)
            BY <2>3, <3>1, <4>1, <4>2, <5>1 DEF Flow, Consecutive, QueueInOrder
          <5>2. CASE i = Len(queue) + 1
            BY <1>1, <2>1, <2>3, <3>1, <4>2, <5>2 DEF Flow, Consecutive, StreamInOrder
          <5>3. QED
            BY <2>3, <5>1, <5>2
        <4>5. Reached(n, i)'
          BY <2>3, <3>5, <4>3, <4>4
        <4>6. QED
          BY <4>2, <4>5 DEF Reached
      <3>7. ASSUME NEW d \in Conns, d # c
            PROVE  StreamInOrder(d)'
        <4>1. StreamInOrder(d) /\ (Holds(d)' <=> Holds(d)) /\ inHand'[d] = inHand[d]
          BY <1>4, <1>6, <3>1, <3>7 DEF Flow, Consecutive
        <4>2. cursor[d] # 0 => lastBlock # 0
          BY <3>1, <3>4, <3>7 DEF Flow, OneStream
        <4>3. ASSUME Holds(d)
              PROVE  cursor'[d] # 0 /\ Reached(inHand[d].number, Len(queue) + 1)'
          <5>1. PICK n : n = inHand[d].number
            OBVIOUS
          <5>2. n \in Nat
            BY <4>3, <5>1, EventFields, BoundsAssumption DEF Blocks, Holds, Types
          <5>3. cursor[d] # 0 /\ Reached(n, Len(queue) + 1)
            BY <4>1, <4>3, <5>1 DEF StreamInOrder
          <5>4. Reached(n, Len(queue) + 1)'
            BY <3>5, <4>2, <5>2, <5>3
          <5>5. QED
            BY <3>1, <4>1, <5>1, <5>3, <5>4 DEF Reached
        <4>4. ASSUME ~Holds(d), cursor[d] \in 1..(MaxHeight + 1)
              PROVE  Reached(cursor[d], Len(queue) + 1)'
          <5>1. PICK n \in Nat : n = cursor[d]
            BY <4>4, BoundsAssumption
          <5>2. Reached(n, Len(queue) + 1) /\ cursor[d] # 0
            BY <4>1, <4>4, <5>1 DEF StreamInOrder
          <5>3. Reached(n, Len(queue) + 1)'
            BY <3>5, <4>2, <5>2
          <5>4. QED
            BY <3>1, <5>1, <5>3 DEF Reached
        <4>5. QED
          BY <3>1, <4>1, <4>3, <4>4 DEF StreamInOrder
      <3>8. StreamInOrder(c)'
        <4>1. SUFFICES ASSUME cursor[c] \in 1..(MaxHeight + 1)
                       PROVE  Reached(cursor[c], Len(queue) + 1)'
          BY <1>6, <3>1 DEF StreamInOrder
        <4>2. PICK n \in Nat : n = cursor[c]
          BY <4>1, BoundsAssumption
        <4>3. n <= e.number + 1
          BY <1>1, <2>1, <3>1, <4>1, <4>2 DEF Flow, Consecutive, StreamInOrder
        <4>4. Reached(n, Len(queue) + 1)'
          BY <3>5, <4>3
        <4>5. QED
          BY <3>1, <4>2, <4>4 DEF Reached
      <3>9. QED
        BY <3>2, <3>3, <3>6, <3>7, <3>8 DEF Flow, Consecutive
    <2>6. QED
      BY <1>5, <1>7, <2>2, <2>5
  <1>10. ~IsSeek(e)
    BY <1>0, <1>1 DEF Types
  <1>11. QED
    BY <1>8, <1>9, <1>10

-----------------------------------------------------------------------------
(* The theorems                                                            *)

\* The invariant holds when the client is made.
LEMMA InitInvariant ==
    ASSUME Init
    PROVE  IInv
  <1>1. Types
    <2>1. /\ queue = <<>> /\ height = 1 /\ open = {} /\ conn = 0 /\ opened = 0 /\ lastBlock = 0
          /\ published = <<>> /\ fromNewest = FALSE
      BY DEF Init
    <2>2. cursor = [c \in Conns |-> 0] /\ recv = [c \in Conns |-> "off"] /\ inHand = [c \in Conns |-> Nothing]
      BY DEF Init
    <2>3. pc \in [Connectors -> Places] /\ pc[User] # "delay"
      BY DEF Init, Connectors, Places
    <2>4. infoOnly \in BOOLEAN /\ seekFrom \in 0..1
      BY DEF Init
    <2>5. queue \in Seq(Events) /\ published \in Seq(Blocks) /\ height \in Blocks
      BY <2>1, BoundsAssumption DEF Blocks
    <2>6. cursor \in [Conns -> 0..Ended] /\ \A c \in Conns : recv[c] # "post"
      BY <2>2, BoundsAssumption DEF Ended
    <2>7. seekFrom \in 0..(MaxHeight + 1)
      BY <2>4, BoundsAssumption
    <2>8. /\ recv \in [Conns -> {"off", "recv", "post", "ended"}] /\ \A c \in Conns : recv[c] = "off"
          /\ inHand \in [Conns -> Events \cup {Nothing}]
      BY <2>2
    <2>9. /\ open \subseteq Conns /\ conn \in 0..MaxConns /\ opened \in 0..MaxConns
          /\ lastBlock \in 0..MaxHeight
      BY <2>1, BoundsAssumption
    <2>10. fromNewest \in BOOLEAN
      BY <2>1
    <2>11. QED
      BY <2>3, <2>4, <2>5, <2>6, <2>7, <2>8, <2>9, <2>10 DEF Types
  <1>2. OneConnection /\ LastPublished /\ PublishedInOrder
    BY DEF Init, OneConnection, LastPublished, PublishedInOrder
  <1>3. NothingSent
    BY DEF Init, NothingSent, Holds
  <1>4. /\ lastBlock = 0 /\ connState = "Disconnected" /\ Len(queue) = 0 /\ seekFrom \in 0..1
        /\ \A r \in Reconnectors : pc[r] = "idle"
    BY UserAssumption DEF Init, Connectors
  <1>5. UserFirst
    BY <1>3, <1>4 DEF UserFirst
  <1>6. SeeksInTime
    BY <1>4 DEF SeeksInTime
  <1>7. OneStream
    BY <1>3, <1>4 DEF OneStream, NothingSent
  <1>8. Consecutive
    BY <1>3, <1>4 DEF Consecutive, QueueInOrder, StreamInOrder, NothingSent
  <1>9. QED
    BY <1>1, <1>2, <1>5, <1>6, <1>7, <1>8 DEF IInv, Flow

\* Every step keeps it.
LEMMA StepInvariant ==
    ASSUME IInv, [Next]_vars
    PROVE  IInv'
  <1>1. ASSUME NEW x \in Connectors, Connector(x)
        PROVE  IInv'
    BY <1>1, SetSeekKeeps, ConnectKeeps, SeekKeeps DEF Connector
  <1>2. CASE Dispatcher
    BY <1>2, HandlersKeep, HandleSeekKeeps, HandleBlockKeeps DEF Dispatcher
  <1>3. ASSUME NEW c \in Conns, Receive(c) \/ Post(c)
        PROVE  IInv'
    BY <1>3, ReceiveKeeps, PostKeeps
  <1>4. CASE BlockCommits \/ Monitor \/ UserCloses \/ Closing
    BY <1>4, BlockCommitsKeeps, MonitorKeeps, ClosingKeeps
  <1>5. ASSUME NEW m \in PeerMonitors,
               \/ PeerMonitorDisconnects(m) \/ PeerMonitorAnswered(m)
               \/ PeerMonitorNotifies(m) \/ PeerMonitorStops(m)
        PROVE  IInv'
    BY <1>5, PeerMonitorKeeps
  <1>6. CASE UNCHANGED vars
    <2>1. queue' = queue /\ queue \in Seq(Events) /\ height' \in Blocks
      BY <1>6 DEF vars, IInv, Types
    <2>2. QED
      BY <1>6, <2>1, SameCarried, BystanderMoves DEF vars, dispVars
  <1>7. QED
    BY <1>1, <1>2, <1>3, <1>4, <1>5, <1>6 DEF Next

(***************************************************************************)
(* The inductive invariant of the event client holds in every reachable    *)
(* state, for all values of the constants.                                 *)
(***************************************************************************)
THEOREM EventClientInvariant == Spec => []IInv
  <1>1. Init => IInv
    BY InitInvariant
  <1>2. IInv /\ [Next]_vars => IInv'
    BY StepInvariant
  <1>3. QED
    BY <1>1, <1>2, PTL DEF Spec

(***************************************************************************)
(* However often the client reconnects, is told to disconnect and handles  *)
(* stale news, no connection but the dispatcher's current one is open      *)
(* (HandleConnectEvent, HandleDisconnectEvent, HandleDisconnectedEvent).   *)
(***************************************************************************)
THEOREM NoSecondStream == Spec => []OneConnection
  <1>1. IInv => OneConnection
    BY DEF IInv
  <1>2. QED
    BY <1>1, EventClientInvariant, PTL

(***************************************************************************)
(* The blocks the registrations are sent are in order, none twice, and     *)
(* none is left out unless a reconnect that had received no block asked    *)
(* for the newest, whatever the streams of earlier connections still put   *)
(* into the queue (setSeekFromLastBlockReceived, updateLastBlockNum).      *)
(***************************************************************************)
THEOREM BlocksInOrder == Spec => []PublishedInOrder
  <1>1. IInv => PublishedInOrder
    BY DEF IInv
  <1>2. QED
    BY <1>1, EventClientInvariant, PTL

-----------------------------------------------------------------------------
(* No connection is lost in silence                                        *)

\* The events that ask for an answer, and the places where it is waited for.
Asking == {"connect", "register", "seek", "disconnect"}
Answering == {"waitConnect", "waitReg", "waitSeek", "waitUndo"}
\* Where a connect is under way: it has begun and the client is not connected yet.
Active(x) == pc[x] \notin {"idle", "announce", "failed"}
\* Its seek has been answered: the next it does is to call the client connected.
Sought(x) == pc[x] = "connected" \/ (pc[x] = "waitSeek" /\ reply[x] = "ok")
\* A disconnect of a failed connect, whether or not it still waits.
Undoes(e) == e.type = "disconnect" /\ e.by \notin PeerMonitors
\* Where a connect has, or has just given up, a connection of its own.
Connecting == {"once", "waitReg", "seek", "waitSeek", "connected", "undo"}

\* The goroutine is where the answer to such an event is waited for.
Waits(b, t) ==
    /\ t = "connect" => pc[b] = "waitConnect"
    /\ t = "register" => pc[b] = "waitReg"
    /\ t = "seek" => pc[b] = "waitSeek"
    /\ t = "disconnect" => pc[b] = "waitUndo"

\* What the types of the blocks leave open.
ClientTypes ==
    /\ reply \in [Callers -> {"none", "ok", "err"}]
    /\ peerMon \in [PeerMonitors -> {"off", "on", "wait", "notify"}]
    /\ connEvents \in Seq(ConnectionEvents)
    /\ monEvent \in ConnectionEvents \cup {"none"}
    /\ connState \in {"Disconnected", "Connecting", "Connected"}
    /\ stopped \in BOOLEAN
    /\ \A c \in Conns : recv[c] = "post" => inHand[c].type \in {"block", "status", "disconnected"}

\* One goroutine connects at a time, and none while the client is connected.
OneActive ==
    /\ \A x, y \in Connectors : Active(x) /\ Active(y) => x = y
    /\ \A x \in Connectors : Active(x) => connState # "Connected"

\* An answer that has not been received is waited for.
AnswersAwaited ==
    /\ \A x \in Connectors : reply[x] # "none" => pc[x] \in Answering
    /\ \A m \in PeerMonitors : reply[m] # "none" => peerMon[m] = "wait"

\* Who has an event in the queue waits for its answer, and has none yet.
AskersWait ==
    \A i \in 1..Len(queue) : queue[i].type \in Asking =>
        /\ queue[i].by \in Connectors => Waits(queue[i].by, queue[i].type)
        /\ queue[i].by \in PeerMonitors => peerMon[queue[i].by] = "wait" /\ queue[i].type = "disconnect"
        /\ queue[i].by # Nobody => reply[queue[i].by] = "none"
        /\ queue[i].by # Closer

\* Nobody has two events in the queue.
AskedOnce ==
    \A i, j \in 1..Len(queue) :
        /\ queue[i].type \in Asking /\ queue[j].type \in Asking
        /\ queue[i].by = queue[j].by /\ queue[i].by # Nobody
        => i = j

\* A disconnect of a failed connect is handled before any connection that is
\* made later: it cannot take away the connection of another attempt.
UndoneFirst ==
    \A i \in 1..Len(queue) : Undoes(queue[i]) =>
        /\ connState # "Connected"
        /\ \A x \in Connectors : /\ pc[x] \notin Connecting
                                 /\ pc[x] = "waitConnect" => reply[x] = "none"
        /\ \A j \in 1..Len(queue) : queue[j].type = "connect" => i < j

\* The dispatcher runs and is not told to stop, the connection monitor is
\* registered, and is started once.
Open ==
    /\ running /\ closing = "no"
    /\ \A i \in 1..Len(queue) :
          /\ queue[i].type \notin {"stop", "stopAndTransfer"}
          /\ queue[i].type = "connect" => queue[i].by # Nobody
    /\ monitor \in {"on", "notify"} => connReg = "open"
    /\ monitor # "notify" => monEvent = "none"
    /\ ~once => monitor = "off" /\ \A x \in Connectors : pc[x] # "waitReg"
    /\ \A x \in Connectors : pc[x] = "waitReg" => monitor = "off" /\ (reply[x] = "ok" => connReg = "open")

\* Word of a loss is in the queue.
LossQueued == \E i \in 1..Len(queue) : Loss(queue[i])

\* A stream that has ended has left word in the queue, or its receiver is
\* about to.
EndKnown ==
    /\ conn <= opened
    /\ \A c \in Conns : c > opened => cursor[c] = 0
    /\ conn # 0 =>
       /\ conn \in open
       /\ recv[conn] = "ended" => LossQueued
       /\ cursor[conn] = Ended => LossQueued \/ (recv[conn] = "post" /\ Loss(inHand[conn]))

\* The client takes itself to be connected, or is about to.
Relies == connState = "Connected" \/ (connState = "Connecting" /\ \E x \in Connectors : Sought(x))

\* When the connection is gone, word of it is on the way to the monitor.
LossHeard == monitor \in {"on", "notify"} /\ Relies => conn # 0 \/ LossUnderWay

\* The parts together.
Protocol ==
    /\ OneActive
    /\ AnswersAwaited /\ AskersWait /\ AskedOnce /\ UndoneFirst
    /\ Open
    /\ EndKnown /\ LossHeard

\* The invariant: a client that is not stopped keeps the protocol.
LossInv == ClientTypes /\ (~stopped => Protocol)

\* The channel of connection events is not full of nothing but "connected".  If
\* it were, the dispatcher would drop word of the next loss.
RoomForLoss ==
    Len(connEvents) < ConsumerBuffer \/ \E i \in 1..Len(connEvents) : connEvents[i] # "connected"

-----------------------------------------------------------------------------
(* The queue, by its places                                                *)

\* The queue has got an event.
Grown(e) ==
    /\ Len(queue) \in Nat /\ Len(queue') = Len(queue) + 1
    /\ queue'[Len(queue) + 1] = e
    /\ \A i \in 1..Len(queue) : queue'[i] = queue[i]

\* The dispatcher has taken the first event.
Taken ==
    /\ Len(queue) \in Nat \ {0} /\ Len(queue') = Len(queue) - 1
    /\ Head(queue) = queue[1] /\ Head(queue) \in Events
    /\ \A i \in 1..Len(queue') : i + 1 \in 1..Len(queue) /\ queue'[i] = queue[i + 1]

\* A goroutine has given up waiting: its events stay, without it.
Dropped(x) ==
    /\ Len(queue) \in Nat /\ Len(queue') = Len(queue)
    /\ \A i \in 1..Len(queue) :
          /\ queue'[i].type = queue[i].type
          /\ queue[i].type \in Asking =>
                queue'[i].by = IF queue[i].by = x THEN Nobody ELSE queue[i].by

\* A submit, place by place.
LEMMA AppendGrows ==
    ASSUME queue \in Seq(Events), NEW e, queue' = Append(queue, e)
    PROVE  Grown(e)
  BY DEF Grown

\* The dispatcher takes an event, place by place.
LEMMA HandleTakes ==
    ASSUME queue \in Seq(Events), NEW t, Handle(t)
    PROVE  Taken /\ queue[1].type = t /\ running
  BY DEF Taken, Handle

\* Whoever asks is named.
LEMMA AskingEvents ==
    ASSUME NEW e \in Events
    PROVE  e.type \in Asking \cup {"stop", "stopAndTransfer"} =>
               "by" \in DOMAIN e /\ e.by \in Callers \cup {Nobody}
  BY DEF Events, Asking

\* A goroutine that gives up, place by place.
LEMMA AbandonDrops ==
    ASSUME queue \in Seq(Events), NEW x, Abandon(x)
    PROVE  Dropped(x)
  <1>1. \A i \in 1..Len(queue) : queue[i] \in Events
    OBVIOUS
  <1> DEFINE new(i) == IF "by" \in DOMAIN queue[i] /\ queue[i].by = x
                       THEN [queue[i] EXCEPT !.by = Nobody] ELSE queue[i]
  <1>2. ASSUME NEW i \in 1..Len(queue)
        PROVE  /\ new(i).type = queue[i].type
               /\ queue[i].type \in Asking => new(i).by = IF queue[i].by = x THEN Nobody ELSE queue[i].by
    <2>1. CASE "by" \in DOMAIN queue[i] /\ queue[i].by = x
      <3>1. new(i) = [queue[i] EXCEPT !.by = Nobody]
        BY <2>1
      <3>2. new(i).type = queue[i].type
        BY <1>1, <3>1, <2>1, AbandonedEvent DEF Like
      <3>3. new(i).by = Nobody
        BY <3>1, <2>1
      <3>4. QED
        BY <2>1, <3>2, <3>3
    <2>2. CASE ~("by" \in DOMAIN queue[i] /\ queue[i].by = x)
      BY <1>1, <2>2, AskingEvents
    <2>3. QED
      BY <2>1, <2>2
  <1>3. queue' = [i \in 1..Len(queue) |-> new(i)]
    BY DEF Abandon
  <1> HIDE DEF new
  <1>4. Len(queue) \in Nat
    OBVIOUS
  <1>5. queue' \in Seq(Events) /\ Len(queue') = Len(queue)
    BY AbandonCarried, <1>3, <1>4
  <1>6. QED
    BY <1>2, <1>3, <1>4, <1>5 DEF Dropped

\* The goroutines have different names.
LEMMA NamesApart ==
    /\ Nobody \notin Callers \/ Nobody = Closer
    /\ Nobody \notin Connectors /\ Nobody \notin PeerMonitors /\ Closer # Nobody
    /\ Closer \notin Connectors /\ Closer \notin PeerMonitors
    /\ Connectors \cap PeerMonitors = {} /\ User \in Connectors
    /\ Connectors \subseteq Callers /\ PeerMonitors \subseteq Callers /\ Closer \in Callers
    /\ User \notin Reconnectors /\ Reconnectors \subseteq Connectors
  BY NamesAssumption, PeerMonitorsAssumption, UserAssumption DEF Callers, Connectors, Closer, Nobody

-----------------------------------------------------------------------------
(* Types                                                                   *)

\* An answer goes to a goroutine.
LEMMA AnswerTypes ==
    ASSUME queue \in Seq(Events), ClientTypes, NEW t, Handle(t), t \in Asking \cup {"stop", "stopAndTransfer"},
           NEW r \in {"ok", "err"}, Answer(Head(queue), r)
    PROVE  reply' \in [Callers -> {"none", "ok", "err"}]
  BY HandleTakes, AskingEvents DEF Taken, ClientTypes, Answer

\* Every step keeps the types.
LEMMA ClientTypesKept ==
    ASSUME IInv, ClientTypes, [Next]_vars
    PROVE  ClientTypes'
  <1> USE NamesApart
  <1>t. queue \in Seq(Events)
    BY DEF IInv, Types
  <1> DEFINE Hands == \A c \in Conns : recv[c] = "post" => inHand[c].type \in {"block", "status", "disconnected"}
  <1>h. Hands'
    <2> USE DEF IInv, Types, ClientTypes, serverVars
    <2>1. CASE HandleConnectEvent
      BY <2>1 DEF HandleConnectEvent
    <2>2. ASSUME NEW c \in Conns, Receive(c) PROVE Hands'
      BY <2>2 DEF Receive
    <2>3. ASSUME NEW c \in Conns, Post(c) PROVE Hands'
      BY <2>3 DEF Post
    <2>4. ASSUME NEW x \in Connectors, Connector(x) PROVE Hands'
      BY <2>4 DEF Connector, SetSeekFromLastBlockReceived, ConnectStart, ConnectSubmit, ConnectAnswered,
            RegisterOnce,
            RegisterAnswered, Seek, SeekAnswered, Undo, Undone, SetConnected, Announce
    <2>5. CASE Dispatcher /\ ~HandleConnectEvent
      BY <2>5 DEF Dispatcher, HandleRegisterConnectionEvent, HandleSeekEvent, HandleDisconnectEvent,
            HandleConnectedEvent, HandleDisconnectedEvent, HandleBlock, HandleStopEvent,
            HandleStopAndTransferEvent
    <2>6. CASE Monitor \/ UserCloses \/ Closing \/ BlockCommits \/ UNCHANGED vars
      BY <2>6 DEF Monitor, MonitorReceive, MonitorReact, UserCloses, Closing, CloseConnectEventChan,
            CloseDisconnect,
            CloseDisconnected, CloseStop, CloseStopped, CloseFinal, BlockCommits, vars
    <2>7. ASSUME NEW m \in PeerMonitors,
               \/ PeerMonitorDisconnects(m) \/ PeerMonitorAnswered(m)
               \/ PeerMonitorNotifies(m) \/ PeerMonitorStops(m)
          PROVE  Hands'
      BY <2>7 DEF PeerMonitorDisconnects, PeerMonitorAnswered, PeerMonitorNotifies, PeerMonitorStops
    <2>8. QED
      BY <2>1, <2>2, <2>3, <2>4, <2>5, <2>6, <2>7 DEF Next
  <1>1. ASSUME NEW x \in Connectors, Connector(x) PROVE ClientTypes'
    <2>1. reply' = reply \/ Received(x)
      BY <1>1 DEF Connector, SetSeekFromLastBlockReceived, ConnectStart, ConnectSubmit, ConnectAnswered,
            RegisterOnce,
            RegisterAnswered, Seek, SeekAnswered, Undo, Undone, SetConnected, Announce, Ask
    <2>2. reply' \in [Callers -> {"none", "ok", "err"}]
      BY <2>1 DEF Received, ClientTypes
    <2>3. /\ peerMon' = peerMon /\ connEvents' = connEvents /\ monEvent' = monEvent
          /\ connState' \in {connState, "Disconnected", "Connecting", "Connected"}
          /\ stopped' \in {stopped, TRUE}
      BY <1>1 DEF Connector, SetSeekFromLastBlockReceived, ConnectStart, ConnectSubmit, ConnectAnswered,
            RegisterOnce,
            RegisterAnswered, Seek, SeekAnswered, Undo, Undone, SetConnected, Announce, Ask, Retry, CallClose,
            monVars, peerVars, clientVars
    <2>4. QED
      BY <1>h, <2>2, <2>3 DEF ClientTypes
  <1>2. CASE Dispatcher
    <2>1. reply' \in [Callers -> {"none", "ok", "err"}]
      <3>1. CASE HandleConnectEvent
        BY <1>t, <3>1, AnswerTypes DEF HandleConnectEvent, Asking
      <3>2. CASE HandleRegisterConnectionEvent
        BY <1>t, <3>2, AnswerTypes DEF HandleRegisterConnectionEvent, Asking
      <3>3. CASE HandleSeekEvent
        BY <1>t, <3>3, AnswerTypes DEF HandleSeekEvent, Asking, ClientTypes
      <3>4. CASE HandleDisconnectEvent
        BY <1>t, <3>4, AnswerTypes DEF HandleDisconnectEvent, Asking
      <3>5. CASE HandleStopEvent
        BY <1>t, <3>5, AnswerTypes DEF HandleStopEvent
      <3>6. CASE HandleStopAndTransferEvent
        BY <1>t, <3>6, AnswerTypes DEF HandleStopAndTransferEvent
      <3>7. CASE HandleConnectedEvent \/ HandleDisconnectedEvent \/ HandleBlock
        BY <3>7 DEF ClientTypes, HandleConnectedEvent, HandleDisconnectedEvent, HandleBlock
      <3>8. QED
        BY <1>2, <3>1, <3>2, <3>3, <3>4, <3>5, <3>6, <3>7 DEF Dispatcher
    <2>2. monEvent' = monEvent /\ connState' = connState /\ stopped' = stopped
      BY <1>2 DEF Dispatcher, HandleConnectEvent, HandleRegisterConnectionEvent, HandleSeekEvent,
            HandleDisconnectEvent,
            HandleConnectedEvent, HandleDisconnectedEvent, HandleBlock, HandleStopEvent,
            HandleStopAndTransferEvent,
            monVars, clientVars
    <2>3. peerMon' = peerMon \/ \E m \in PeerMonitors : peerMon' = [peerMon EXCEPT ![m] = "on"]
      BY <1>2 DEF Dispatcher, HandleConnectEvent, HandleRegisterConnectionEvent, HandleSeekEvent,
            HandleDisconnectEvent,
            HandleConnectedEvent, HandleDisconnectedEvent, HandleBlock, HandleStopEvent,
            HandleStopAndTransferEvent,
            monVars, StopPeerMonitor
    <2>4. connEvents' = connEvents \/ \E e \in ConnectionEvents : connEvents' = Append(connEvents, e)
      BY <1>2 DEF Dispatcher, HandleConnectEvent, HandleRegisterConnectionEvent, HandleSeekEvent,
            HandleDisconnectEvent,
            HandleConnectedEvent, HandleDisconnectedEvent, HandleBlock, HandleStopEvent,
            HandleStopAndTransferEvent,
            Tell, ConnectionEvents
    <2>5. connEvents' \in Seq(ConnectionEvents)
      BY <2>4 DEF ClientTypes
    <2>6. peerMon' \in [PeerMonitors -> {"off", "on", "wait", "notify"}]
      BY <2>3 DEF ClientTypes
    <2>7. QED
      BY <1>h, <2>1, <2>2, <2>5, <2>6 DEF ClientTypes
  <1>3. CASE (\E c \in Conns : Receive(c) \/ Post(c)) \/ BlockCommits \/ UNCHANGED vars
    BY <1>h, <1>3 DEF ClientTypes, Receive, Post, BlockCommits, vars, clientVars, monVars
  <1>4. CASE Monitor
    <2>1. connEvents' \in Seq(ConnectionEvents) /\ monEvent' \in ConnectionEvents \cup {"none"}
      BY <1>4 DEF Monitor, MonitorReceive, MonitorReact, ClientTypes
    <2>2. /\ reply' = reply /\ peerMon' = peerMon
          /\ connState' \in {connState, "Disconnected"} /\ stopped' \in {stopped, TRUE}
      BY <1>4 DEF Monitor, MonitorReceive, MonitorReact, ClientTypes, clientVars, peerVars, CallClose
    <2>3. QED
      BY <1>h, <2>1, <2>2 DEF ClientTypes
  <1>5. ASSUME NEW m \in PeerMonitors,
               \/ PeerMonitorDisconnects(m) \/ PeerMonitorAnswered(m)
               \/ PeerMonitorNotifies(m) \/ PeerMonitorStops(m)
        PROVE  ClientTypes'
    <2>1. reply' = reply \/ Received(m)
      BY <1>5 DEF PeerMonitorDisconnects, PeerMonitorAnswered, PeerMonitorNotifies, PeerMonitorStops, Ask
    <2>2. \E v \in {"off", "on", "wait", "notify"} : peerMon' = [peerMon EXCEPT ![m] = v]
      BY <1>5 DEF PeerMonitorDisconnects, PeerMonitorAnswered, PeerMonitorNotifies, PeerMonitorStops,
            PeerMonitorEnds
    <2>3. connEvents' = connEvents /\ monEvent' = monEvent /\ connState' = connState /\ stopped' = stopped
      BY <1>5 DEF PeerMonitorDisconnects, PeerMonitorAnswered, PeerMonitorNotifies, PeerMonitorStops, clientVars
    <2>4. QED
      BY <1>h, <2>1, <2>2, <2>3 DEF ClientTypes, Received
  <1>6. CASE UserCloses \/ Closing
    <2>1. reply' = reply \/ Received(Closer)
      BY <1>6 DEF UserCloses, Closing, CloseConnectEventChan, CloseDisconnect, CloseDisconnected, CloseStop,
            CloseStopped,
            CloseFinal, Ask
    <2>2. /\ peerMon' = peerMon /\ connEvents' = connEvents /\ monEvent' = monEvent
          /\ connState' \in {connState, "Disconnected"} /\ stopped' \in {stopped, TRUE}
      BY <1>6 DEF UserCloses, Closing, CloseConnectEventChan, CloseDisconnect, CloseDisconnected, CloseStop,
            CloseStopped,
            CloseFinal, clientVars, monVars, CallClose
    <2>3. QED
      BY <1>h, <2>1, <2>2 DEF ClientTypes, Received
  <1>7. QED
    BY <1>1, <1>2, <1>3, <1>4, <1>5, <1>6 DEF Next

-----------------------------------------------------------------------------
(* Questions and answers                                                   *)

\* The dispatcher takes an event, and answers only who asked it.
OnlyAskerAnswered ==
    /\ Taken /\ pc' = pc /\ connState' = connState
    /\ \A z \in Callers : reply'[z] # reply[z] => z = queue[1].by /\ queue[1].type \in Asking
    /\ \A m \in PeerMonitors : peerMon[m] = "wait" => peerMon'[m] = "wait"

\* Taking an event and answering who asked keeps the questions in order.
LEMMA AnsweredKept ==
    ASSUME IInv, ClientTypes, Protocol, OnlyAskerAnswered
    PROVE  OneActive' /\ AnswersAwaited' /\ AskersWait' /\ AskedOnce' /\ UndoneFirst'
  <1> USE NamesApart
  <1>t. /\ queue \in Seq(Events) /\ pc' = pc /\ connState' = connState
        /\ Len(queue) \in Nat \ {0} /\ Len(queue') = Len(queue) - 1
        /\ \A i \in 1..Len(queue') : i + 1 \in 1..Len(queue) /\ queue'[i] = queue[i + 1] /\ i + 1 # 1
        /\ 1 \in 1..Len(queue)
    BY DEF IInv, Types, OnlyAskerAnswered, Taken
  <1>b. \A i \in 1..Len(queue) : queue[i].type \in Asking => queue[i].by \in Callers \cup {Nobody}
    BY <1>t, AskingEvents
  <1>1. OneActive'
    BY <1>t DEF OneActive, Active, Protocol
  <1>2. AnswersAwaited'
    <2>1. ASSUME NEW z \in Callers, reply'[z] # "none", z \in Connectors \/ z \in PeerMonitors
          PROVE  IF z \in Connectors THEN pc[z] \in Answering ELSE peerMon[z] = "wait"
      <3>1. CASE reply'[z] = reply[z]
        BY <2>1, <3>1 DEF Protocol, AnswersAwaited
      <3>2. CASE reply'[z] # reply[z]
        <4>1. z = queue[1].by /\ queue[1].type \in Asking
          BY <3>2 DEF OnlyAskerAnswered
        <4>2. QED
          BY <4>1, <2>1, <1>t DEF Protocol, AskersWait, Waits, Asking, Answering
      <3>3. QED
        BY <3>1, <3>2
    <2>2. QED
      BY <2>1, <1>t DEF AnswersAwaited, OnlyAskerAnswered
  <1>3. ASSUME NEW i \in 1..Len(queue'), queue'[i].type \in Asking, queue'[i].by # Nobody
        PROVE  reply'[queue'[i].by] = reply[queue'[i].by]
    <2>1. PICK j \in 1..Len(queue) : j # 1 /\ queue'[i] = queue[j]
      BY <1>t
    <2>2. queue[j].by \in Callers
      BY <2>1, <1>3, <1>b
    <2>3. ~(queue[1].by = queue[j].by /\ queue[1].type \in Asking)
      BY <2>1, <1>3, <1>t DEF Protocol, AskedOnce
    <2>4. QED
      BY <2>1, <2>2, <2>3 DEF OnlyAskerAnswered
  <1>4. AskersWait'
    <2>1. SUFFICES ASSUME NEW i \in 1..Len(queue'), queue'[i].type \in Asking
                   PROVE  /\ queue'[i].by \in Connectors => Waits(queue'[i].by, queue'[i].type)
                          /\ queue'[i].by \in PeerMonitors =>
                                peerMon'[queue'[i].by] = "wait" /\ queue'[i].type = "disconnect"
                          /\ queue'[i].by # Nobody => reply'[queue'[i].by] = "none"
                          /\ queue'[i].by # Closer
      BY <1>t DEF AskersWait, Waits
    <2>2. PICK j \in 1..Len(queue) : queue'[i] = queue[j]
      BY <1>t
    <2>3. /\ queue[j].by \in Connectors => Waits(queue[j].by, queue[j].type)
          /\ queue[j].by \in PeerMonitors => peerMon[queue[j].by] = "wait" /\ queue[j].type = "disconnect"
          /\ queue[j].by # Nobody => reply[queue[j].by] = "none"
          /\ queue[j].by # Closer
      BY <2>1, <2>2 DEF Protocol, AskersWait
    <2>4. QED
      BY <2>1, <2>2, <2>3, <1>3, <1>t DEF OnlyAskerAnswered, Waits
  <1>5. AskedOnce'
    <2>1. SUFFICES ASSUME NEW i \in 1..Len(queue'), NEW j \in 1..Len(queue'),
                          queue'[i].type \in Asking, queue'[j].type \in Asking,
                          queue'[i].by = queue'[j].by, queue'[i].by # Nobody
                   PROVE  i = j
      BY DEF AskedOnce
    <2>2. i + 1 = j + 1
      BY <2>1, <1>t DEF Protocol, AskedOnce
    <2>3. QED
      BY <2>2
  <1>6. UndoneFirst'
    <2>1. SUFFICES ASSUME NEW i \in 1..Len(queue'), Undoes(queue'[i])
                   PROVE  /\ connState # "Connected"
                          /\ \A x \in Connectors : /\ pc[x] \notin Connecting
                                                   /\ pc[x] = "waitConnect" => reply'[x] = "none"
                          /\ \A j \in 1..Len(queue') : queue'[j].type = "connect" => i < j
      BY <1>t DEF UndoneFirst, Undoes
    <2>2. i + 1 \in 1..Len(queue) /\ Undoes(queue[i + 1])
      BY <2>1, <1>t DEF Undoes
    <2>3. /\ connState # "Connected"
          /\ \A x \in Connectors : /\ pc[x] \notin Connecting
                                   /\ pc[x] = "waitConnect" => reply[x] = "none"
          /\ \A j \in 1..Len(queue) : queue[j].type = "connect" => i + 1 < j
      BY <2>2 DEF Protocol, UndoneFirst
    <2>4. queue[1].type # "connect"
      BY <2>3, <1>t
    <2>5. ASSUME NEW x \in Connectors, pc[x] = "waitConnect"
          PROVE  reply'[x] = reply[x]
      <3>1. ~(x = queue[1].by /\ queue[1].type \in Asking)
        BY <2>4, <2>5, <1>t DEF Protocol, AskersWait, Waits, Asking
      <3>2. QED
        BY <3>1 DEF OnlyAskerAnswered
    <2>6. \A j \in 1..Len(queue') : queue'[j].type = "connect" => i < j
      <3>1. ASSUME NEW j \in 1..Len(queue'), queue'[j].type = "connect"
            PROVE  i < j
        <4>1. i + 1 < j + 1
          BY <3>1, <2>3, <1>t
        <4>2. QED
          BY <4>1
      <3>2. QED
        BY <3>1
    <2>7. QED
      BY <2>3, <2>5, <2>6
  <1>7. QED
    BY <1>1, <1>2, <1>4, <1>5, <1>6

\* That is what the dispatcher does.
LEMMA DispatcherAnswers ==
    ASSUME IInv, ClientTypes, Protocol, Dispatcher
    PROVE  OnlyAskerAnswered
  <1> USE NamesApart
  <1>t. queue \in Seq(Events) /\ reply \in [Callers -> {"none", "ok", "err"}]
        /\ peerMon \in [PeerMonitors -> {"off", "on", "wait", "notify"}]
    BY DEF IInv, Types, ClientTypes
  <1>a. \A t : Handle(t) => Taken /\ queue[1].type = t /\ Head(queue) = queue[1]
    BY <1>t, HandleTakes DEF Taken
  <1>b. ASSUME NEW r, Answer(queue[1], r)
        PROVE  \A z \in Callers : reply'[z] # reply[z] => z = queue[1].by
    BY <1>b, <1>t DEF Answer
  <1> USE DEF OnlyAskerAnswered, procVars, clientVars, monVars, Asking
  <1>1. CASE HandleConnectEvent
    BY <1>1, <1>a, <1>b DEF HandleConnectEvent
  <1>2. CASE HandleRegisterConnectionEvent
    BY <1>2, <1>a, <1>b DEF HandleRegisterConnectionEvent
  <1>3. CASE HandleSeekEvent
    BY <1>3, <1>a, <1>b DEF HandleSeekEvent
  <1>4. CASE HandleDisconnectEvent
    BY <1>4, <1>a, <1>b DEF HandleDisconnectEvent
  <1>5. CASE HandleConnectedEvent
    BY <1>5, <1>a, <1>t DEF HandleConnectedEvent
  <1>6. CASE HandleDisconnectedEvent
    BY <1>6, <1>a DEF HandleDisconnectedEvent, StopPeerMonitor
  <1>7. CASE HandleBlock
    BY <1>7, <1>a DEF HandleBlock
  <1>8. CASE HandleStopEvent \/ HandleStopAndTransferEvent
    BY <1>8, <1>a DEF HandleStopEvent, HandleStopAndTransferEvent, Protocol, Open, Taken
  <1>9. QED
    BY <1>1, <1>2, <1>3, <1>4, <1>5, <1>6, <1>7, <1>8 DEF Dispatcher

\* A goroutine asks the dispatcher, and waits.
AskedBy(x, e) ==
    /\ Grown(e) /\ e.type \in Asking /\ e.by = x /\ reply' = reply
    /\ \A y \in Connectors \ {x} : pc'[y] = pc[y]
    /\ \A m \in PeerMonitors \ {x} : peerMon'[m] = peerMon[m]
    /\ x \in Connectors => /\ pc[x] \notin Answering /\ pc'[x] \in Answering
                           /\ e.type = "connect" => pc'[x] = "waitConnect"
                           /\ e.type = "register" => pc'[x] = "waitReg"
                           /\ e.type = "seek" => pc'[x] = "waitSeek"
                           /\ e.type = "disconnect" => pc'[x] = "waitUndo"
    /\ x \in PeerMonitors => peerMon[x] # "wait" /\ peerMon'[x] = "wait" /\ e.type = "disconnect"

\* A new question keeps them in order.
LEMMA AskedKept ==
    ASSUME IInv, ClientTypes, Protocol, NEW x \in Connectors \cup PeerMonitors, NEW e, AskedBy(x, e)
    PROVE  AnswersAwaited' /\ AskersWait' /\ AskedOnce'
  <1> USE NamesApart
  <1>t. /\ Len(queue) \in Nat /\ Len(queue') = Len(queue) + 1
        /\ queue'[Len(queue) + 1] = e
        /\ \A i \in 1..Len(queue) : queue'[i] = queue[i]
        /\ reply' = reply /\ e.type \in Asking /\ e.by = x
    BY DEF AskedBy, Grown
  <1>1. \A i \in 1..Len(queue) : queue[i].type \in Asking => queue[i].by # x
    BY DEF Protocol, AskersWait, Waits, AskedBy, Asking, Answering
  <1>2. reply[x] = "none"
    BY DEF Protocol, AnswersAwaited, AskedBy
  <1>3. AnswersAwaited'
    BY <1>2, <1>t DEF Protocol, AnswersAwaited, AskedBy
  <1>4. ASSUME NEW i \in 1..Len(queue), queue'[i].type \in Asking
        PROVE  /\ queue'[i].by \in Connectors =>
                     pc'[queue'[i].by] = pc[queue'[i].by] /\ Waits(queue'[i].by, queue'[i].type)
               /\ queue'[i].by \in PeerMonitors =>
                     peerMon'[queue'[i].by] = "wait" /\ queue'[i].type = "disconnect"
               /\ queue'[i].by # Nobody => reply'[queue'[i].by] = "none"
               /\ queue'[i].by # Closer
    BY <1>4, <1>1, <1>t DEF Protocol, AskersWait, AskedBy
  <1>5. AskersWait'
    <2>1. ASSUME NEW i \in 1..Len(queue'), queue'[i].type \in Asking, i # Len(queue) + 1
          PROVE  i \in 1..Len(queue)
      BY <2>1, <1>t
    <2>2. QED
      BY <2>1, <1>4, <1>2, <1>t DEF AskersWait, Waits, AskedBy
  <1>6. AskedOnce'
    <2>1. \A i \in 1..Len(queue') : i \in 1..Len(queue) \/ i = Len(queue) + 1
      BY <1>t
    <2>2. QED
      BY <2>1, <1>1, <1>t DEF Protocol, AskedOnce
  <1>7. QED
    BY <1>3, <1>5, <1>6

\* A goroutine has its answer, or gives up.
DoneWaiting(x) ==
    /\ reply' = [reply EXCEPT ![x] = "none"]
    /\ (queue' = queue /\ reply[x] # "none") \/ Dropped(x)
    /\ \A y \in Connectors \ {x} : pc'[y] = pc[y]
    /\ \A m \in PeerMonitors \ {x} : peerMon'[m] = peerMon[m]

\* So does the end of the wait.
LEMMA DoneWaitingKept ==
    ASSUME IInv, ClientTypes, Protocol, NEW x \in Connectors \cup PeerMonitors, DoneWaiting(x)
    PROVE  AnswersAwaited' /\ AskersWait' /\ AskedOnce'
  <1> USE NamesApart
  <1>t. reply \in [Callers -> {"none", "ok", "err"}] /\ Len(queue) \in Nat /\ Len(queue') = Len(queue)
    BY DEF ClientTypes, IInv, Types, DoneWaiting, Dropped
  <1>b. \A i \in 1..Len(queue) : queue[i].type \in Asking => queue[i].by \in Callers \cup {Nobody}
    BY AskingEvents DEF IInv, Types
  <1>1. ASSUME NEW i \in 1..Len(queue), queue'[i].type \in Asking
        PROVE  /\ queue'[i].type = queue[i].type
               /\ queue'[i].by # x
               /\ queue'[i].by = queue[i].by \/ queue'[i].by = Nobody
    BY <1>1 DEF DoneWaiting, Dropped, Protocol, AskersWait
  <1>2. AnswersAwaited'
    BY <1>t DEF Protocol, AnswersAwaited, DoneWaiting
  <1>3. AskersWait'
    <2>1. SUFFICES ASSUME NEW i \in 1..Len(queue'), queue'[i].type \in Asking
                   PROVE  /\ queue'[i].by \in Connectors =>
                                pc'[queue'[i].by] = pc[queue'[i].by] /\ Waits(queue'[i].by, queue'[i].type)
                          /\ queue'[i].by \in PeerMonitors =>
                                peerMon'[queue'[i].by] = "wait" /\ queue'[i].type = "disconnect"
                          /\ queue'[i].by # Nobody => reply'[queue'[i].by] = "none"
                          /\ queue'[i].by # Closer
      BY DEF AskersWait, Waits
    <2>2. /\ i \in 1..Len(queue) /\ queue'[i].type = queue[i].type
          /\ queue'[i].by # x
          /\ queue'[i].by = queue[i].by \/ queue'[i].by = Nobody
      BY <2>1, <1>1, <1>t
    <2>3. CASE queue'[i].by = Nobody
      BY <2>3
    <2>4. CASE queue'[i].by = queue[i].by /\ queue[i].by # Nobody
      <3>1. /\ queue[i].by \in Connectors => Waits(queue[i].by, queue[i].type)
            /\ queue[i].by \in PeerMonitors => peerMon[queue[i].by] = "wait" /\ queue[i].type = "disconnect"
            /\ queue[i].by # Nobody => reply[queue[i].by] = "none"
            /\ queue[i].by # Closer /\ queue[i].by \in Callers
        BY <2>1, <2>2, <2>4, <1>b DEF Protocol, AskersWait
      <3>2. QED
        BY <2>2, <2>4, <3>1, <1>t DEF DoneWaiting
    <2>5. QED
      BY <2>2, <2>3, <2>4
  <1>4. AskedOnce'
    BY <1>1, <1>t DEF Protocol, AskedOnce
  <1>5. QED
    BY <1>2, <1>3, <1>4

\* Nobody asks, and nobody is answered.
NothingAsked ==
    /\ reply' = reply
    /\ queue' = queue \/ \E e : Grown(e) /\ e.type \notin Asking
    /\ \A x \in Connectors : pc[x] \in Answering => pc'[x] = pc[x]
    /\ \A m \in PeerMonitors : peerMon[m] = "wait" => peerMon'[m] = "wait"

\* And so does what has nothing to do with them.
LEMMA NothingAskedKept ==
    ASSUME IInv, ClientTypes, Protocol, NothingAsked
    PROVE  AnswersAwaited' /\ AskersWait' /\ AskedOnce'
  <1> USE NamesApart
  <1>1. AnswersAwaited'
    BY DEF Protocol, AnswersAwaited, NothingAsked
  <1>2. \A i \in 1..Len(queue') : queue'[i].type \in Asking => i \in 1..Len(queue) /\ queue'[i] = queue[i]
    BY DEF NothingAsked, Grown
  <1>3. AskersWait'
    <2>1. ASSUME NEW x \in Connectors, NEW t \in Asking, Waits(x, t)
          PROVE  pc'[x] = pc[x]
      BY <2>1 DEF NothingAsked, Waits, Asking, Answering
    <2>2. ASSUME NEW i \in 1..Len(queue'), queue'[i].type \in Asking
          PROVE  /\ queue'[i].by \in Connectors =>
                       pc'[queue'[i].by] = pc[queue'[i].by] /\ Waits(queue'[i].by, queue'[i].type)
                 /\ queue'[i].by \in PeerMonitors =>
                       peerMon'[queue'[i].by] = "wait" /\ queue'[i].type = "disconnect"
                 /\ queue'[i].by # Nobody => reply'[queue'[i].by] = "none"
                 /\ queue'[i].by # Closer
      BY <2>1, <2>2, <1>2 DEF Protocol, AskersWait, NothingAsked
    <2>3. QED
      BY <2>2 DEF AskersWait, Waits
  <1>4. AskedOnce'
    BY <1>2 DEF Protocol, AskedOnce
  <1>5. QED
    BY <1>1, <1>3, <1>4

\* Every step is one of these.
LEMMA QuestionsKept ==
    ASSUME IInv, ClientTypes, Protocol, [Next]_vars
    PROVE  (AnswersAwaited' /\ AskersWait' /\ AskedOnce') \/ stopped'
  <1> USE NamesApart
  <1>t. /\ queue \in Seq(Events) /\ pc \in [Connectors -> Places] /\ running /\ closing = "no"
        /\ peerMon \in [PeerMonitors -> {"off", "on", "wait", "notify"}]
    BY DEF IInv, Types, ClientTypes, Protocol, Open
  <1>a. \A e : queue' = Append(queue, e) => Grown(e)
    BY <1>t, AppendGrows
  <1>b. \A x : Abandon(x) => Dropped(x)
    BY <1>t, AbandonDrops
  <1>1. ASSUME NEW x \in Connectors, Connector(x), ~stopped'
        PROVE  AnswersAwaited' /\ AskersWait' /\ AskedOnce'
    <2>p. peerMon' = peerMon
      BY <1>1 DEF Connector, SetSeekFromLastBlockReceived, ConnectStart, ConnectSubmit, ConnectAnswered,
            RegisterOnce,
            RegisterAnswered, Seek, SeekAnswered, Undo, Undone, SetConnected, Announce, monVars, peerVars
    <2>1. CASE ConnectSubmit(x)
      <3>1. AskedBy(x, [type |-> "connect", by |-> x])
        BY <2>1, <2>p, <1>t, <1>a DEF ConnectSubmit, Ask, Submit, Goto, AskedBy, Asking, Answering
      <3>2. QED
        BY <3>1, AskedKept
    <2>2. CASE RegisterOnce(x) /\ ~once
      <3>1. AskedBy(x, [type |-> "register", by |-> x]) \/ (reply' = reply /\ queue' = queue /\ Goto(x, "seek"))
        BY <2>2, <2>p, <1>t, <1>a DEF RegisterOnce, Ask, Submit, Goto, AskedBy, Asking, Answering
      <3>2. (reply' = reply /\ queue' = queue /\ Goto(x, "seek")) => NothingAsked
        BY <2>2, <2>p, <1>t DEF NothingAsked, RegisterOnce, Goto, Answering
      <3>3. QED
        BY <3>1, <3>2, AskedKept, NothingAskedKept
    <2>3. CASE Seek(x)
      <3>1. AskedBy(x, [type |-> "seek", by |-> x, from |-> seekFrom])
        BY <2>3, <2>p, <1>t, <1>a DEF Seek, Ask, Submit, Goto, AskedBy, Asking, Answering
      <3>2. QED
        BY <3>1, AskedKept
    <2>4. CASE Undo(x)
      <3>1. AskedBy(x, [type |-> "disconnect", by |-> x])
        BY <2>4, <2>p, <1>t, <1>a DEF Undo, Ask, Submit, Goto, AskedBy, Asking, Answering
      <3>2. QED
        BY <3>1, AskedKept
    <2>5. CASE ConnectAnswered(x) \/ RegisterAnswered(x) \/ SeekAnswered(x) \/ Undone(x)
      <3>1. \A y \in Connectors \ {x} : pc'[y] = pc[y]
        BY <2>5, <1>t DEF ConnectAnswered, RegisterAnswered, SeekAnswered, Undone, Retry, Goto
      <3>2. DoneWaiting(x)
        BY <2>5, <2>p, <3>1, <1>b DEF ConnectAnswered, RegisterAnswered, SeekAnswered, Undone, Received,
              DoneWaiting
      <3>3. QED
        BY <3>2, DoneWaitingKept
    <2>6. CASE \/ SetSeekFromLastBlockReceived(x) \/ ConnectStart(x) \/ SetConnected(x)
               \/ RegisterOnce(x) /\ once
      <3>1. reply' = reply /\ queue' = queue
        BY <2>6 DEF SetSeekFromLastBlockReceived, ConnectStart, SetConnected, RegisterOnce
      <3>2. pc[x] \notin Answering /\ \A y \in Connectors \ {x} : pc'[y] = pc[y]
        BY <2>6, <1>t DEF SetSeekFromLastBlockReceived, ConnectStart, SetConnected, RegisterOnce, Retry,
              Goto, Answering
      <3>3. QED
        BY <3>1, <3>2, <2>p, NothingAskedKept DEF NothingAsked
    <2>7. CASE Announce(x)
      <3>1. Grown([type |-> "connected"]) /\ reply' = reply
        BY <2>7, <1>a, <1>t DEF Announce, Submit
      <3>2. pc[x] \notin Answering /\ \A y \in Connectors \ {x} : pc'[y] = pc[y]
        BY <2>7, <1>t DEF Announce, Goto, Answering
      <3>3. NothingAsked
        BY <3>1, <3>2, <2>p DEF NothingAsked, Asking
      <3>4. QED
        BY <3>3, NothingAskedKept
    <2>8. QED
      BY <1>1, <2>1, <2>2, <2>3, <2>4, <2>5, <2>6, <2>7 DEF Connector
  <1>2. CASE Dispatcher
    BY <1>2, DispatcherAnswers, AnsweredKept
  <1>3. ASSUME NEW c \in Conns, Post(c)
        PROVE  AnswersAwaited' /\ AskersWait' /\ AskedOnce'
    <2>1. Grown(inHand[c]) /\ inHand[c].type \notin Asking
      BY <1>3, <1>a DEF Post, ClientTypes, Asking
    <2>2. QED
      BY <1>3, <2>1, NothingAskedKept DEF NothingAsked, Post, procVars, monVars
  <1>4. CASE (\E c \in Conns : Receive(c)) \/ BlockCommits \/ MonitorReceive \/ UNCHANGED vars
    BY <1>4, NothingAskedKept DEF NothingAsked, Receive, BlockCommits, MonitorReceive, vars, procVars,
          monVars, peerVars
  <1>5. CASE MonitorReact
    BY <1>5, <1>t, NothingAskedKept DEF NothingAsked, MonitorReact, peerVars, Goto, Answering, Connectors
  <1>6. ASSUME NEW m \in PeerMonitors, PeerMonitorDisconnects(m)
        PROVE  AnswersAwaited' /\ AskersWait' /\ AskedOnce'
    <2>1. AskedBy(m, [type |-> "disconnect", by |-> m])
      BY <1>6, <1>t, <1>a DEF PeerMonitorDisconnects, Ask, Submit, AskedBy, Asking, procVars
    <2>2. QED
      BY <2>1, AskedKept
  <1>7. ASSUME NEW m \in PeerMonitors, PeerMonitorAnswered(m)
        PROVE  AnswersAwaited' /\ AskersWait' /\ AskedOnce'
    <2>1. DoneWaiting(m)
      BY <1>7, <1>t DEF PeerMonitorAnswered, Received, DoneWaiting, procVars
    <2>2. QED
      BY <2>1, DoneWaitingKept
  <1>8. ASSUME NEW m \in PeerMonitors, PeerMonitorNotifies(m) \/ PeerMonitorStops(m)
        PROVE  AnswersAwaited' /\ AskersWait' /\ AskedOnce'
    <2>1. reply' = reply /\ pc' = pc /\ \A n \in PeerMonitors : peerMon[n] = "wait" => peerMon'[n] = "wait"
      BY <1>8, <1>t DEF PeerMonitorNotifies, PeerMonitorStops, PeerMonitorEnds, procVars
    <2>2. queue' = queue \/ Grown([type |-> "disconnected", fatal |-> FALSE])
      BY <1>8, <1>a DEF PeerMonitorNotifies, PeerMonitorStops
    <2>3. NothingAsked
      BY <2>1, <2>2 DEF NothingAsked, Asking
    <2>4. QED
      BY <2>3, NothingAskedKept
  <1>9. CASE UserCloses \/ Closing
    BY <1>9, <1>t DEF UserCloses, CallClose, Closing, CloseConnectEventChan, CloseDisconnect, CloseDisconnected,
          CloseStop, CloseStopped, CloseFinal
  <1>10. QED
    BY <1>1, <1>2, <1>3, <1>4, <1>5, <1>6, <1>7, <1>8, <1>9 DEF Next, Monitor

-----------------------------------------------------------------------------
(* One connect at a time                                                   *)

\* What the steps of a connect do to it, as long as the client is not stopped.
LEMMA ActiveMoves ==
    ASSUME IInv, ClientTypes, Protocol, NEW x \in Connectors, Connector(x), ~stopped'
    PROVE  /\ \A y \in Connectors \ {x} : pc'[y] = pc[y]
           /\ Active(x)' => Active(x)
           /\ connState' = "Connected" => connState = "Connected" \/ (pc[x] = "connected" /\ pc'[x] = "announce")
  <1> USE DEF Active, Goto, clientVars
  <1>t. pc \in [Connectors -> Places]
    BY DEF IInv, Types
  <1>1. CASE SetSeekFromLastBlockReceived(x)
    BY <1>1, <1>t DEF SetSeekFromLastBlockReceived
  <1>2. CASE ConnectStart(x)
    BY <1>2, <1>t DEF ConnectStart, Retry, CallClose
  <1>3. CASE ConnectSubmit(x)
    BY <1>3, <1>t DEF ConnectSubmit, Retry, CallClose
  <1>4. CASE ConnectAnswered(x)
    BY <1>4, <1>t DEF ConnectAnswered, Retry, CallClose
  <1>5. CASE RegisterOnce(x) \/ RegisterAnswered(x)
    BY <1>5, <1>t DEF RegisterOnce, RegisterAnswered
  <1>6. CASE Seek(x) \/ SeekAnswered(x)
    BY <1>6, <1>t DEF Seek, SeekAnswered
  <1>7. CASE Undo(x)
    BY <1>7, <1>t DEF Undo
  <1>8. CASE Undone(x)
    BY <1>8, <1>t DEF Undone, Retry, CallClose
  <1>9. CASE SetConnected(x)
    BY <1>9, <1>t DEF SetConnected
  <1>10. CASE Announce(x)
    BY <1>10, <1>t DEF Announce
  <1>11. QED
    BY <1>1, <1>2, <1>3, <1>4, <1>5, <1>6, <1>7, <1>8, <1>9, <1>10 DEF Connector

\* Only the monitor of a connected client starts a connect, and it
\* disconnects the client first.
LEMMA OneActiveKept ==
    ASSUME IInv, ClientTypes, Protocol, [Next]_vars, ~stopped'
    PROVE  OneActive'
  <1>t. pc \in [Connectors -> Places] /\ closing = "no"
    BY DEF IInv, Types, Protocol, Open
  <1>1. ASSUME NEW x \in Connectors, Connector(x)
        PROVE  OneActive'
    <2>1. /\ \A y \in Connectors \ {x} : pc'[y] = pc[y]
          /\ Active(x)' => Active(x)
          /\ connState' = "Connected" => connState = "Connected" \/ (pc[x] = "connected" /\ pc'[x] = "announce")
      BY <1>1, ActiveMoves
    <2>2. \A y \in Connectors : Active(y)' => Active(y)
      BY <2>1 DEF Active
    <2>3. CASE connState' = "Connected" /\ connState # "Connected"
      <3>1. Active(x) /\ ~Active(x)'
        BY <2>1, <2>3 DEF Active
      <3>2. QED
        BY <2>2, <3>1 DEF Protocol, OneActive
    <2>4. QED
      BY <2>2, <2>3 DEF Protocol, OneActive
  <1>2. CASE Dispatcher
    BY <1>2, DispatcherAnswers, AnsweredKept
  <1>3. CASE MonitorReact
    <2>1. CASE pc' = pc /\ connState' \in {connState, "Disconnected"}
      BY <2>1 DEF Protocol, OneActive, Active
    <2>2. CASE connState = "Connected" /\ connState' = "Disconnected" /\ \E x \in Reconnectors : Goto(x, "delay")
      BY <2>2, <1>t DEF Protocol, OneActive, Active, Goto, Connectors
    <2>3. QED
      BY <1>3, <2>1, <2>2 DEF MonitorReact
  <1>4. CASE (\E c \in Conns : Receive(c) \/ Post(c)) \/ BlockCommits \/ MonitorReceive \/ UNCHANGED vars
    BY <1>4 DEF Receive, Post, BlockCommits, MonitorReceive, vars, procVars, clientVars, Protocol, OneActive,
          Active
  <1>5. ASSUME NEW m \in PeerMonitors,
               \/ PeerMonitorDisconnects(m) \/ PeerMonitorAnswered(m)
               \/ PeerMonitorNotifies(m) \/ PeerMonitorStops(m)
        PROVE  OneActive'
    BY <1>5 DEF PeerMonitorDisconnects, PeerMonitorAnswered, PeerMonitorNotifies, PeerMonitorStops, procVars,
          clientVars, Protocol, OneActive, Active
  <1>6. CASE UserCloses \/ Closing
    BY <1>6, <1>t DEF UserCloses, CallClose, Closing, CloseConnectEventChan, CloseDisconnect, CloseDisconnected,
          CloseStop, CloseStopped, CloseFinal
  <1>7. QED
    BY <1>1, <1>2, <1>3, <1>4, <1>5, <1>6 DEF Next, Monitor

-----------------------------------------------------------------------------
(* The dispatcher runs, and the monitor is registered                      *)

\* Nothing but Close stops the dispatcher or takes the monitor off it.
LEMMA OpenKept ==
    ASSUME IInv, ClientTypes, Protocol, [Next]_vars, ~stopped'
    PROVE  Open'
  <1> USE NamesApart
  <1>t. /\ queue \in Seq(Events) /\ pc \in [Connectors -> Places] /\ running /\ closing = "no"
        /\ reply \in [Callers -> {"none", "ok", "err"}]
        /\ \A i \in 1..Len(queue) : /\ queue[i].type \notin {"stop", "stopAndTransfer"}
                                    /\ queue[i].type = "connect" => queue[i].by # Nobody
        /\ monitor \in {"on", "notify"} => connReg = "open"
        /\ monitor # "notify" => monEvent = "none"
        /\ ~once => monitor = "off" /\ \A x \in Connectors : pc[x] # "waitReg"
        /\ \A x \in Connectors : pc[x] = "waitReg" => monitor = "off" /\ (reply[x] = "ok" => connReg = "open")
    BY DEF IInv, Types, ClientTypes, Protocol, Open
  <1>a. \A e : queue' = Append(queue, e) => Grown(e)
    BY <1>t, AppendGrows
  <1>b. \A x : Abandon(x) => Dropped(x)
    BY <1>t, AbandonDrops
  <1> DEFINE NoStop == \A i \in 1..Len(queue) : /\ queue[i].type \notin {"stop", "stopAndTransfer"}
                                                /\ queue[i].type = "connect" => queue[i].by # Nobody
  <1>1. ASSUME NEW x \in Connectors, Connector(x)
        PROVE  Open'
    <2>1. running' /\ closing' = "no" /\ connReg' = connReg
      BY <1>1, <1>t DEF Connector, SetSeekFromLastBlockReceived, ConnectStart, ConnectSubmit, ConnectAnswered,
            RegisterOnce, RegisterAnswered, Seek, SeekAnswered, Undo, Undone, SetConnected, Announce, Ask,
            Submit,
            Retry, CallClose, dispVars
    <2>m. Active(x) => \A y \in Connectors \ {x} : pc[y] # "waitReg"
      BY DEF Protocol, OneActive, Active
    <2>2. NoStop'
      <3>1. CASE queue' = queue
        BY <1>t, <3>1
      <3>2. CASE \E e : Grown(e) /\ e.type \notin {"stop", "stopAndTransfer"} /\ (e.type = "connect" => e.by # Nobody)
        BY <1>t, <3>2 DEF Grown
      <3>3. CASE Abandon(x) /\ pc[x] \in {"waitSeek", "waitUndo"}
        <4>1. Dropped(x)
          BY <3>3, <1>b
        <4>2. \A i \in 1..Len(queue) : queue[i].type = "connect" => queue[i].by # x
          BY <3>3 DEF Protocol, AskersWait, Waits, Asking
        <4>3. QED
          BY <4>1, <4>2, <1>t DEF Dropped, Asking
      <3>4. QED
        BY <1>1, <1>a, <3>1, <3>2, <3>3 DEF Connector, SetSeekFromLastBlockReceived, ConnectStart,
              ConnectSubmit,
              ConnectAnswered, RegisterOnce, RegisterAnswered, Seek, SeekAnswered, Undo, Undone, SetConnected,
              Announce, Ask, Submit
    <2>3. /\ monitor' \in {"on", "notify"} => connReg = "open"
          /\ monitor' # "notify" => monEvent' = "none"
          /\ ~once' => monitor' = "off" /\ \A y \in Connectors : pc'[y] # "waitReg"
          /\ \A y \in Connectors : pc'[y] = "waitReg" => monitor' = "off"
      <3>1. CASE RegisterOnce(x)
        BY <3>1, <1>t, <2>m DEF RegisterOnce, Goto, Active
      <3>4. CASE RegisterAnswered(x)
        BY <3>4, <1>t, <2>m DEF RegisterAnswered, Goto, clientVars, Active
      <3>2. CASE ~(RegisterOnce(x) \/ RegisterAnswered(x))
        <4>1. monitor' = monitor /\ monEvent' = monEvent /\ once' = once
          BY <1>1, <3>2 DEF Connector, SetSeekFromLastBlockReceived, ConnectStart, ConnectSubmit,
                ConnectAnswered,
                Seek, SeekAnswered, Undo, Undone, SetConnected, Announce, monVars, clientVars
        <4>2. \A y \in Connectors : pc'[y] = "waitReg" => pc[y] = "waitReg"
          BY <1>1, <1>t, <3>2 DEF Connector, SetSeekFromLastBlockReceived, ConnectStart, ConnectSubmit,
                ConnectAnswered,
                Seek, SeekAnswered, Undo, Undone, SetConnected, Announce, Retry, Goto
        <4>3. QED
          BY <4>1, <4>2, <1>t
      <3>3. QED
        BY <3>1, <3>2, <3>4
    <2>4. \A y \in Connectors : pc'[y] = "waitReg" /\ reply'[y] = "ok" => pc[y] = "waitReg" /\ reply[y] = "ok"
      <3>1. /\ \A y \in Connectors \ {x} : pc'[y] = pc[y]
            /\ pc'[x] = "waitReg" => pc[x] = "once"
        BY <1>1, <1>t, ActiveMoves DEF Connector, SetSeekFromLastBlockReceived, ConnectStart, ConnectSubmit,
              ConnectAnswered,
              RegisterOnce, RegisterAnswered, Seek, SeekAnswered, Undo, Undone, SetConnected, Announce,
              Retry, CallClose, Goto
      <3>2. \A y \in Connectors : reply'[y] # "none" => reply'[y] = reply[y]
        BY <1>1, <1>t DEF Connector, SetSeekFromLastBlockReceived, ConnectStart, ConnectSubmit, ConnectAnswered,
              RegisterOnce, RegisterAnswered, Seek, SeekAnswered, Undo, Undone, SetConnected, Announce, Ask,
              Received
      <3>3. QED
        BY <3>1, <3>2 DEF Protocol, AnswersAwaited, Answering
    <2>5. QED
      BY <2>1, <2>2, <2>3, <2>4, <1>t DEF Open
  <1>2. CASE Dispatcher
    <2>1. OnlyAskerAnswered
      BY <1>2, DispatcherAnswers
    <2>2. NoStop'
      BY <2>1, <1>t DEF OnlyAskerAnswered, Taken
    <2>3. ~Handle("stop") /\ ~Handle("stopAndTransfer")
      BY <1>t, HandleTakes DEF Taken
    <2>4. running' /\ closing' = "no" /\ monitor' = monitor /\ monEvent' = monEvent /\ once' = once
          /\ (connReg = "open" => connReg' = "open")
      BY <1>2, <2>3, <1>t DEF Dispatcher, HandleConnectEvent, HandleRegisterConnectionEvent, HandleSeekEvent,
            HandleDisconnectEvent,
            HandleConnectedEvent, HandleDisconnectedEvent, HandleBlock, HandleStopEvent,
            HandleStopAndTransferEvent,
            dispVars, clientVars, monVars, procVars
    <2>5. ASSUME NEW x \in Connectors, pc'[x] = "waitReg", reply'[x] = "ok"
          PROVE  connReg' = "open"
      <3>1. pc[x] = "waitReg"
        BY <2>1, <2>5 DEF OnlyAskerAnswered
      <3>2. CASE reply[x] = "ok"
        BY <3>1, <3>2, <2>4, <1>t
      <3>3. CASE reply[x] # "ok"
        <4>1. x = queue[1].by /\ queue[1].type \in Asking /\ 1 \in 1..Len(queue)
          BY <3>3, <2>5, <2>1 DEF OnlyAskerAnswered, Taken
        <4>2. queue[1].type = "register"
          BY <4>1, <3>1 DEF Protocol, AskersWait, Waits, Asking
        <4>3. HandleRegisterConnectionEvent
          <5>1. \A t : Handle(t) => t = "register"
            BY <4>2, <1>t, HandleTakes
          <5>2. QED
            BY <1>2, <5>1 DEF Dispatcher, HandleConnectEvent, HandleSeekEvent, HandleDisconnectEvent,
                  HandleConnectedEvent, HandleDisconnectedEvent, HandleBlock, HandleStopEvent,
                  HandleStopAndTransferEvent
        <4>4. QED
          BY <4>3 DEF HandleRegisterConnectionEvent
      <3>4. QED
        BY <3>2, <3>3
    <2>6. QED
      BY <2>1, <2>2, <2>4, <2>5, <1>t DEF Open, OnlyAskerAnswered
  <1>3. CASE MonitorReceive \/ MonitorReact
    <2>1. /\ queue' = queue /\ reply' = reply /\ running' /\ closing' = "no" /\ connReg' = connReg /\ once' = once
          /\ monitor \in {"on", "notify"}
      BY <1>3, <1>t DEF MonitorReceive, MonitorReact, dispVars, clientVars, procVars, CallClose
    <2>2. \A x \in Connectors : pc'[x] = "waitReg" => pc[x] = "waitReg"
      BY <1>3, <1>t DEF MonitorReceive, MonitorReact, procVars, Goto
    <2>3. monitor' # "notify" => monEvent' = "none"
      BY <1>3, <1>t, ~stopped' DEF MonitorReceive, MonitorReact, clientVars
    <2>4. QED
      BY <2>1, <2>2, <2>3, <1>t DEF Open
  <1>4. ASSUME NEW c \in Conns, Receive(c) \/ Post(c)
        PROVE  Open'
    <2>1. queue' = queue \/ (Grown(inHand[c]) /\ inHand[c].type \in {"block", "status", "disconnected"})
      BY <1>4, <1>a DEF Receive, Post, ClientTypes
    <2>2. NoStop'
      BY <2>1, <1>t DEF Grown
    <2>3. QED
      BY <1>4, <2>2, <1>t DEF Receive, Post, dispVars, clientVars, procVars, monVars, Open
  <1>5. ASSUME NEW m \in PeerMonitors,
               \/ PeerMonitorDisconnects(m) \/ PeerMonitorAnswered(m)
               \/ PeerMonitorNotifies(m) \/ PeerMonitorStops(m)
        PROVE  Open'
    <2>1. PICK e : /\ e \in {[type |-> "disconnect", by |-> m], [type |-> "disconnected", fatal |-> FALSE]}
                   /\ queue' = queue \/ Grown(e)
      BY <1>5, <1>a DEF PeerMonitorDisconnects, PeerMonitorAnswered, PeerMonitorNotifies, PeerMonitorStops,
            Ask, Submit
    <2>2. NoStop'
      <3>1. e.type \in {"disconnect", "disconnected"}
        BY <2>1
      <3>2. QED
        BY <2>1, <3>1, <1>t DEF Grown
    <2>3. \A x \in Connectors : reply'[x] = reply[x]
      BY <1>5, <1>t DEF PeerMonitorDisconnects, PeerMonitorAnswered, PeerMonitorNotifies, PeerMonitorStops,
            Ask, Received
    <2>4. QED
      BY <1>5, <2>2, <2>3, <1>t DEF PeerMonitorDisconnects, PeerMonitorAnswered, PeerMonitorNotifies,
            PeerMonitorStops,
            Ask, Submit, dispVars, clientVars, procVars, Open
  <1>6. CASE BlockCommits \/ UNCHANGED vars
    BY <1>6, <1>t DEF BlockCommits, vars, dispVars, clientVars, procVars, monVars, Open
  <1>7. CASE UserCloses \/ Closing
    BY <1>7, <1>t DEF UserCloses, CallClose, Closing, CloseConnectEventChan, CloseDisconnect, CloseDisconnected,
          CloseStop, CloseStopped, CloseFinal
  <1>8. QED
    BY <1>1, <1>2, <1>3, <1>4, <1>5, <1>6, <1>7 DEF Next, Monitor

-----------------------------------------------------------------------------
(* What a failed connect undoes is its own connection                      *)

\* A disconnect of a failed connect is submitted when no connect is in the
\* queue, and the next one comes behind it.
LEMMA UndoneFirstKept ==
    ASSUME IInv, ClientTypes, Protocol, [Next]_vars, ~stopped'
    PROVE  UndoneFirst'
  <1> USE NamesApart
  <1>t. /\ queue \in Seq(Events) /\ pc \in [Connectors -> Places] /\ running /\ closing = "no"
        /\ reply \in [Callers -> {"none", "ok", "err"}]
    BY DEF IInv, Types, ClientTypes, Protocol, Open
  <1>a. \A e : queue' = Append(queue, e) => Grown(e)
    BY <1>t, AppendGrows
  <1>b. \A x : Abandon(x) => Dropped(x)
    BY <1>t, AbandonDrops
  <1>u. UndoneFirst
    BY DEF Protocol
  <1>1. ASSUME NEW x \in Connectors, Connector(x)
        PROVE  UndoneFirst'
    <2>o. /\ \A y \in Connectors \ {x} : pc'[y] = pc[y]
          /\ connState' = "Connected" => connState = "Connected" \/ pc[x] = "connected"
      BY <1>1, ActiveMoves
    <2>r. \A y \in Connectors : reply'[y] # "none" => reply'[y] = reply[y]
      BY <1>1, <1>t DEF Connector, SetSeekFromLastBlockReceived, ConnectStart, ConnectSubmit, ConnectAnswered,
            RegisterOnce, RegisterAnswered, Seek, SeekAnswered, Undo, Undone, SetConnected, Announce, Ask,
            Received
    <2>1. CASE SetSeekFromLastBlockReceived(x) \/ ConnectStart(x)
      BY <2>1, <1>u, <1>t, <2>o DEF SetSeekFromLastBlockReceived, ConnectStart, Retry, CallClose, Goto,
            UndoneFirst, Undoes, Connecting
    <2>2. CASE ConnectSubmit(x)
      <3>1. /\ Grown([type |-> "connect", by |-> x])
            /\ pc'[x] = "waitConnect" /\ connState' = connState /\ reply' = reply
        BY <2>2, <1>a, <1>t DEF ConnectSubmit, Ask, Submit, Goto
      <3>2. reply[x] = "none"
        BY <2>2 DEF ConnectSubmit, Protocol, AnswersAwaited, Answering
      <3>3. ASSUME NEW i \in 1..Len(queue'), Undoes(queue'[i])
            PROVE  i \in 1..Len(queue) /\ Undoes(queue[i])
        BY <3>1, <3>3 DEF Grown, Undoes
      <3>4. ASSUME NEW i \in 1..Len(queue), Undoes(queue[i]),
                   NEW j \in 1..Len(queue'), queue'[j].type = "connect"
            PROVE  i < j
        BY <3>1, <3>4, <1>u DEF Grown, UndoneFirst
      <3>5. QED
        BY <3>1, <3>2, <3>3, <3>4, <1>u, <2>o DEF UndoneFirst, Undoes, Connecting
    <2>3. CASE ConnectAnswered(x)
      BY <2>3, <1>u, <1>t, <2>o, <2>r DEF ConnectAnswered, Retry, CallClose, Goto, UndoneFirst, Undoes,
            Connecting
    <2>4. CASE pc[x] \in Connecting /\ ~Undo(x)
      <3>1. \A i \in 1..Len(queue) : ~Undoes(queue[i])
        BY <2>4, <1>u DEF UndoneFirst
      <3>2. CASE queue' = queue
        BY <3>1, <3>2 DEF UndoneFirst, Undoes
      <3>3. CASE \E e : Grown(e) /\ e.type # "disconnect"
        BY <3>1, <3>3 DEF UndoneFirst, Undoes, Grown
      <3>4. CASE Dropped(x)
        BY <3>1, <3>4 DEF UndoneFirst, Undoes, Dropped, Asking
      <3>5. QED
        BY <1>1, <2>4, <3>2, <3>3, <3>4, <1>a, <1>b DEF Connector, SetSeekFromLastBlockReceived,
              ConnectStart, ConnectSubmit,
              ConnectAnswered, RegisterOnce, RegisterAnswered, Seek, SeekAnswered, Undone, SetConnected,
              Announce,
              Ask, Submit, Connecting
    <2>5. CASE Undo(x)
      <3>1. /\ Grown([type |-> "disconnect", by |-> x])
            /\ pc'[x] = "waitUndo" /\ connState' = connState /\ reply' = reply
        BY <2>5, <1>a, <1>t DEF Undo, Ask, Submit, Goto, clientVars
      <3>2. connState # "Connected" /\ \A y \in Connectors \ {x} : ~Active(y)
        BY <2>5 DEF Undo, Protocol, OneActive, Active
      <3>3. \A j \in 1..Len(queue) : queue[j].type # "connect"
        <4>1. SUFFICES ASSUME NEW j \in 1..Len(queue), queue[j].type = "connect" PROVE FALSE
          OBVIOUS
        <4>2. queue[j].by \in Connectors
          <5>1. queue[j].by \in Callers
            BY <4>1, <1>t, AskingEvents DEF Protocol, Open, Asking
          <5>2. QED
            BY <4>1, <5>1 DEF Callers, Protocol, AskersWait, Asking
        <4>3. pc[queue[j].by] = "waitConnect"
          BY <4>1, <4>2 DEF Protocol, AskersWait, Waits, Asking
        <4>4. QED
          BY <2>5, <4>2, <4>3, <3>2 DEF Active, Undo
      <3>4. \A j \in 1..Len(queue') : queue'[j].type # "connect"
        BY <3>1, <3>3 DEF Grown
      <3>5. \A y \in Connectors : pc'[y] \notin Connecting /\ pc'[y] # "waitConnect"
        BY <3>1, <3>2, <2>o DEF Active, Connecting
      <3>6. QED
        BY <3>1, <3>2, <3>4, <3>5 DEF UndoneFirst
    <2>6. CASE Undone(x)
      <3>1. /\ pc'[x] \in {"start", "failed"} /\ (connState' = "Connected" => connState = "Connected")
        BY <2>6, <1>t DEF Undone, Retry, CallClose, Goto
      <3>2. /\ Len(queue') = Len(queue)
            /\ \A i \in 1..Len(queue) : queue'[i].type = queue[i].type
            /\ \A i \in 1..Len(queue) : Undoes(queue'[i]) => Undoes(queue[i])
        BY <2>6, <1>b DEF Undone, Dropped, Undoes, Asking
      <3>3. ASSUME NEW i \in 1..Len(queue'), Undoes(queue'[i])
            PROVE  /\ connState' # "Connected"
                   /\ \A y \in Connectors : /\ pc'[y] \notin Connecting
                                            /\ pc'[y] = "waitConnect" => reply'[y] = "none"
                   /\ \A j \in 1..Len(queue') : queue'[j].type = "connect" => i < j
        <4>1. i \in 1..Len(queue) /\ Undoes(queue[i])
          BY <3>2, <3>3
        <4>2. /\ connState # "Connected"
              /\ \A y \in Connectors : /\ pc[y] \notin Connecting
                                       /\ pc[y] = "waitConnect" => reply[y] = "none"
              /\ \A j \in 1..Len(queue) : queue[j].type = "connect" => i < j
          BY <4>1, <1>u DEF UndoneFirst
        <4>3. QED
          BY <4>2, <3>1, <3>2, <2>o, <2>r DEF Connecting
      <3>4. QED
        BY <3>3 DEF UndoneFirst, Undoes
    <2>7. CASE Announce(x)
      <3>1. Grown([type |-> "connected"]) /\ pc'[x] = "idle" /\ connState' = connState /\ reply' = reply
        BY <2>7, <1>a, <1>t DEF Announce, Submit, Goto, clientVars
      <3>2. \A i \in 1..Len(queue') : \/ i \in 1..Len(queue) /\ queue'[i] = queue[i]
                                      \/ queue'[i].type = "connected"
        BY <3>1 DEF Grown
      <3>3. QED
        BY <3>1, <3>2, <2>o, <1>u DEF UndoneFirst, Connecting, Undoes
    <2>8. QED
      BY <1>1, <2>1, <2>2, <2>3, <2>4, <2>5, <2>6, <2>7 DEF Connector, RegisterOnce, RegisterAnswered, Seek,
            SeekAnswered, SetConnected, Connecting
  <1>2. CASE Dispatcher
    BY <1>2, DispatcherAnswers, AnsweredKept
  <1>d. ASSUME queue' = queue \/ (\E e : Grown(e) /\ e.type # "connect" /\ ~Undoes(e)),
               \A x \in Connectors : reply'[x] = reply[x],
               pc' = pc, connState' = connState
        PROVE  UndoneFirst'
    <2>1. \A i \in 1..Len(queue') : \/ i \in 1..Len(queue) /\ queue'[i] = queue[i]
                                    \/ queue'[i].type # "connect" /\ ~Undoes(queue'[i])
      BY <1>d DEF Grown
    <2>2. QED
      BY <2>1, <1>d, <1>u DEF UndoneFirst, Undoes
  <1>3. CASE MonitorReact
    <2>1. queue' = queue /\ reply' = reply /\ connState' \in {connState, "Disconnected"}
      BY <1>3 DEF MonitorReact
    <2>2. \A x \in Connectors : pc'[x] \in {pc[x], "delay"}
      BY <1>3, <1>t DEF MonitorReact, Goto
    <2>3. QED
      BY <2>1, <2>2, <1>u DEF UndoneFirst, Undoes, Connecting
  <1>4. ASSUME NEW c \in Conns, Receive(c) \/ Post(c)
        PROVE  UndoneFirst'
    <2>1. queue' = queue \/ (Grown(inHand[c]) /\ inHand[c].type \in {"block", "status", "disconnected"})
      BY <1>4, <1>a DEF Receive, Post, ClientTypes
    <2>2. pc' = pc /\ connState' = connState /\ reply' = reply
      BY <1>4 DEF Receive, Post, procVars, clientVars
    <2>3. queue' = queue \/ (\E e : Grown(e) /\ e.type # "connect" /\ ~Undoes(e))
      BY <2>1 DEF Undoes
    <2>4. QED
      BY <2>2, <2>3, <1>d
  <1>5. ASSUME NEW m \in PeerMonitors,
               \/ PeerMonitorDisconnects(m) \/ PeerMonitorAnswered(m)
               \/ PeerMonitorNotifies(m) \/ PeerMonitorStops(m)
        PROVE  UndoneFirst'
    <2>1. PICK e : /\ e \in {[type |-> "disconnect", by |-> m], [type |-> "disconnected", fatal |-> FALSE]}
                   /\ queue' = queue \/ Grown(e)
      BY <1>5, <1>a DEF PeerMonitorDisconnects, PeerMonitorAnswered, PeerMonitorNotifies, PeerMonitorStops,
            Ask, Submit
    <2>2. e.type # "connect" /\ ~Undoes(e)
      BY <2>1 DEF Undoes
    <2>3. /\ pc' = pc /\ connState' = connState
          /\ \A x \in Connectors : reply'[x] = reply[x]
      BY <1>5, <1>t DEF PeerMonitorDisconnects, PeerMonitorAnswered, PeerMonitorNotifies, PeerMonitorStops, Ask,
            Received, procVars, clientVars
    <2>4. QED
      BY <2>1, <2>2, <2>3, <1>d
  <1>6. CASE BlockCommits \/ MonitorReceive \/ UNCHANGED vars
    BY <1>6, <1>d DEF BlockCommits, MonitorReceive, vars, procVars, clientVars
  <1>7. CASE UserCloses \/ Closing
    BY <1>7, <1>t DEF UserCloses, CallClose, Closing, CloseConnectEventChan, CloseDisconnect, CloseDisconnected,
          CloseStop, CloseStopped, CloseFinal
  <1>8. QED
    BY <1>1, <1>2, <1>3, <1>4, <1>5, <1>6, <1>7 DEF Next, Monitor

-----------------------------------------------------------------------------
(* The end of a stream is known                                            *)

\* A loss in the queue stays there until it is handled.
LEMMA LossStays ==
    ASSUME LossQueued,
           \/ queue' = queue
           \/ \E e : Grown(e)
           \/ \E x : Dropped(x)
           \/ Taken /\ ~Loss(queue[1])
    PROVE  LossQueued'
  <1>1. PICK i \in 1..Len(queue) : Loss(queue[i])
    BY DEF LossQueued
  <1>2. CASE queue' = queue
    BY <1>1, <1>2 DEF LossQueued, Loss
  <1>3. CASE \E e : Grown(e)
    BY <1>1, <1>3 DEF LossQueued, Loss, Grown
  <1>4. CASE \E x : Dropped(x)
    BY <1>1, <1>4 DEF LossQueued, Loss, Dropped
  <1>5. CASE Taken /\ ~Loss(queue[1])
    <2>1. i # 1 /\ i - 1 \in 1..Len(queue') /\ (i - 1) + 1 = i
      BY <1>1, <1>5 DEF Taken
    <2>2. queue'[i - 1] = queue[i]
      BY <2>1, <1>5 DEF Taken
    <2>3. QED
      BY <1>1, <2>1, <2>2 DEF LossQueued, Loss
  <1>6. QED
    BY <1>2, <1>3, <1>4, <1>5

\* What the steps of the others than the dispatcher do to the queue.
LEMMA QueueMoves ==
    ASSUME IInv, ClientTypes, Protocol, [Next]_vars, ~stopped'
    PROVE  Dispatcher \/ queue' = queue \/ (\E e : Grown(e)) \/ (\E x : Dropped(x))
  <1>t. queue \in Seq(Events) /\ closing = "no"
    BY DEF IInv, Types, Protocol, Open
  <1>a. \A e : queue' = Append(queue, e) => Grown(e)
    BY <1>t, AppendGrows
  <1>b. \A x : Abandon(x) => Dropped(x)
    BY <1>t, AbandonDrops
  <1>1. CASE \E x \in Connectors : Connector(x)
    BY <1>1, <1>a, <1>b DEF Connector, SetSeekFromLastBlockReceived, ConnectStart, ConnectSubmit,
          ConnectAnswered, RegisterOnce, RegisterAnswered, Seek, SeekAnswered, Undo, Undone, SetConnected,
          Announce, Ask, Submit
  <1>2. CASE \E c \in Conns : Receive(c) \/ Post(c)
    BY <1>2, <1>a DEF Receive, Post
  <1>3. CASE BlockCommits \/ Monitor \/ UNCHANGED vars
    BY <1>3 DEF BlockCommits, Monitor, MonitorReceive, MonitorReact, vars
  <1>4. CASE \E m \in PeerMonitors : \/ PeerMonitorDisconnects(m) \/ PeerMonitorAnswered(m)
                                     \/ PeerMonitorNotifies(m) \/ PeerMonitorStops(m)
    BY <1>4, <1>a DEF PeerMonitorDisconnects, PeerMonitorAnswered, PeerMonitorNotifies, PeerMonitorStops,
          Ask, Submit
  <1>5. CASE UserCloses \/ Closing
    BY <1>5, <1>t DEF UserCloses, CallClose, Closing, CloseConnectEventChan, CloseDisconnect, CloseDisconnected,
          CloseStop, CloseStopped, CloseFinal
  <1>6. QED
    BY <1>1, <1>2, <1>3, <1>4, <1>5 DEF Next

\* A receiver leaves word before it ends, unless the connection was closed.
LEMMA EndKnownKept ==
    ASSUME IInv, ClientTypes, Protocol, [Next]_vars, ~stopped'
    PROVE  EndKnown'
  <1> USE BoundsAssumption
  <1>t. /\ queue \in Seq(Events) /\ cursor \in [Conns -> 0..Ended] /\ inHand \in [Conns -> Events \cup {Nothing}]
        /\ recv \in [Conns -> {"off", "recv", "post", "ended"}] /\ height \in Blocks
        /\ open \subseteq Conns /\ conn \in 0..MaxConns /\ opened \in 0..MaxConns /\ closing = "no"
    BY DEF IInv, Types, Protocol, Open
  <1>e. EndKnown
    BY DEF Protocol
  <1>k. Dispatcher \/ (LossQueued => LossQueued')
    BY QueueMoves, LossStays
  <1>q. \A t : Handle(t) => Taken /\ queue[1].type = t /\ Head(queue) = queue[1]
    BY <1>t, HandleTakes DEF Taken
  <1>d. ASSUME UNCHANGED <<conn, opened, open, cursor, recv, inHand>>, LossQueued => LossQueued'
        PROVE  EndKnown'
    BY <1>d, <1>e DEF EndKnown, Loss
  <1>1. CASE Dispatcher
    <2>1. CASE HandleConnectEvent
      <3>1. LossQueued => LossQueued'
        BY <2>1, <1>q, LossStays DEF HandleConnectEvent, Loss
      <3>2. CASE UNCHANGED <<conn, opened, open, recv>>
        BY <2>1, <3>1, <3>2, <1>d DEF HandleConnectEvent
      <3>3. CASE /\ conn' = opened + 1 /\ opened' = opened + 1 /\ opened < MaxConns
                 /\ open' = open \cup {opened + 1} /\ recv' = [recv EXCEPT ![opened + 1] = "recv"]
        <4>1. opened + 1 \in Conns /\ cursor[opened + 1] = 0 /\ cursor' = cursor /\ inHand' = inHand
          BY <2>1, <3>3, <1>t, <1>e DEF HandleConnectEvent, EndKnown, Conns
        <4>2. recv'[opened + 1] = "recv" /\ 0 # Ended
          BY <3>3, <4>1, <1>t DEF Ended
        <4>3. QED
          BY <3>3, <4>1, <4>2, <1>t, <1>e DEF EndKnown
      <3>4. QED
        BY <2>1, <3>2, <3>3 DEF HandleConnectEvent
    <2>2. CASE HandleSeekEvent
      <3>1. LossQueued => LossQueued'
        BY <2>2, <1>q, LossStays DEF HandleSeekEvent, Loss
      <3>2. UNCHANGED <<conn, opened, open, recv, inHand>>
        BY <2>2 DEF HandleSeekEvent, dispVars
      <3>3. CASE cursor' = cursor
        BY <3>1, <3>2, <3>3, <1>d
      <3>4. CASE /\ conn # 0
                 /\ cursor' = [cursor EXCEPT ![conn] = IF @ # 0 THEN @
                                                       ELSE IF queue[1].from = 0 THEN height ELSE queue[1].from]
        <4>1. conn \in Conns /\ queue[1] \in Events /\ IsSeek(queue[1])
          BY <2>2, <3>4, <1>t, <1>q DEF HandleSeekEvent, Conns, Taken, IsSeek
        <4>2. queue[1].from \in 0..(MaxHeight + 1)
          BY <4>1, EventFields
        <4>3. /\ cursor'[conn] = Ended => cursor[conn] = Ended
              /\ \A c \in Conns : c > opened => cursor'[c] = cursor[c]
          BY <3>4, <4>1, <4>2, <1>t, <1>e DEF Ended, Blocks, EndKnown
        <4>4. QED
          BY <3>1, <3>2, <4>3, <1>e DEF EndKnown, Loss
      <3>5. QED
        BY <2>2, <3>3, <3>4, <1>q DEF HandleSeekEvent
    <2>3. CASE HandleDisconnectEvent \/ HandleDisconnectedEvent
      BY <2>3, <1>e, <1>t DEF HandleDisconnectEvent, HandleDisconnectedEvent, EndKnown
    <2>4. CASE HandleRegisterConnectionEvent \/ HandleConnectedEvent \/ HandleBlock
      <3>1. LossQueued => LossQueued'
        BY <2>4, <1>q, LossStays DEF HandleRegisterConnectionEvent, HandleConnectedEvent, HandleBlock, Loss
      <3>2. QED
        BY <2>4, <3>1, <1>d DEF HandleRegisterConnectionEvent, HandleConnectedEvent, HandleBlock, serverVars,
              dispVars
    <2>5. CASE HandleStopEvent \/ HandleStopAndTransferEvent
      BY <2>5, <1>q DEF HandleStopEvent, HandleStopAndTransferEvent, Protocol, Open, Taken
    <2>6. QED
      BY <1>1, <2>1, <2>2, <2>3, <2>4, <2>5 DEF Dispatcher
  <1>2. ASSUME NEW c \in Conns, Receive(c), LossQueued => LossQueued'
        PROVE  EndKnown'
    <2>1. conn' = conn /\ opened' = opened /\ open' = open /\ queue' = queue /\ recv[c] = "recv"
      BY <1>2 DEF Receive, dispVars
    <2>2. \A d \in Conns \ {c} : recv'[d] = recv[d] /\ inHand'[d] = inHand[d] /\ cursor'[d] = cursor[d]
      BY <1>2, <1>t DEF Receive
    <2>3. c <= opened
      BY <2>1, <1>t DEF IInv, Types, Conns
    <2>4. CASE conn # c
      BY <2>1, <2>2, <2>3, <2>4, <1>2, <1>t, <1>e DEF EndKnown, Conns
    <2>5. CASE conn = c
      <3>1. conn # 0 /\ c \in open
        BY <2>5, <1>e DEF EndKnown, Conns
      <3>2. CASE recv'[c] = "ended"
        <4>1. cursor[c] = Ended /\ cursor' = cursor
          BY <1>2, <3>1, <3>2, <1>t DEF Receive
        <4>2. LossQueued
          BY <4>1, <2>1, <2>5, <3>1, <1>e DEF EndKnown
        <4>3. QED
          BY <1>2, <2>1, <2>5, <3>1, <4>1, <4>2, <1>e DEF EndKnown
      <3>3. CASE recv'[c] = "post" /\ inHand'[c].type \in {"status", "disconnected"}
        <4>1. \A d \in Conns : d > opened => cursor'[d] = 0
          BY <2>2, <2>3, <1>t, <1>e DEF EndKnown, Conns
        <4>2. recv'[conn'] = "post" /\ inHand'[conn'].type \in {"disconnected", "status"}
          BY <2>1, <2>5, <3>3
        <4>3. QED
          BY <4>1, <4>2, <2>1, <2>5, <3>1, <1>e DEF EndKnown, Loss
      <3>4. CASE recv'[c] = "post" /\ cursor[c] \in 1..height /\ cursor' = [cursor EXCEPT ![c] = @ + 1]
        <4>1. cursor'[c] # Ended
          BY <3>4, <1>t DEF Ended, Blocks
        <4>2. QED
          BY <2>1, <2>2, <2>3, <2>5, <3>1, <3>4, <4>1, <1>t, <1>e DEF EndKnown, Conns
      <3>5. QED
        BY <1>2, <3>1, <3>2, <3>3, <3>4, <1>t DEF Receive
    <2>6. QED
      BY <2>4, <2>5
  <1>3. ASSUME NEW c \in Conns, Post(c), LossQueued => LossQueued'
        PROVE  EndKnown'
    <2>1. /\ conn' = conn /\ opened' = opened /\ open' = open /\ cursor' = cursor
          /\ recv[c] = "post" /\ recv'[c] = IF inHand[c].type = "disconnected" THEN "ended" ELSE "recv"
      BY <1>3, <1>t DEF Post, dispVars
    <2>2. \A d \in Conns \ {c} : recv'[d] = recv[d] /\ inHand'[d] = inHand[d]
      BY <1>3, <1>t DEF Post
    <2>3. Loss(inHand[c]) => LossQueued'
      <3>1. Grown(inHand[c])
        BY <1>3, <1>t, AppendGrows DEF Post
      <3>2. QED
        BY <3>1 DEF Grown, LossQueued, Loss
    <2>4. CASE conn # c
      BY <2>1, <2>2, <2>4, <1>3, <1>t, <1>e DEF EndKnown, Conns
    <2>5. CASE conn = c
      BY <2>1, <2>3, <2>5, <1>3, <1>e DEF EndKnown, Loss
    <2>6. QED
      BY <2>4, <2>5
  <1>4. ASSUME LossQueued => LossQueued', ~Dispatcher, \A c \in Conns : ~Receive(c) /\ ~Post(c)
        PROVE  EndKnown'
    <2>1. CASE \E x \in Connectors : Connector(x)
      BY <2>1, <1>4, <1>d DEF Connector, SetSeekFromLastBlockReceived, ConnectStart, ConnectSubmit,
            ConnectAnswered, RegisterOnce, RegisterAnswered, Seek, SeekAnswered, Undo, Undone, SetConnected,
            Announce, serverVars, dispVars
    <2>2. CASE BlockCommits \/ Monitor \/ UNCHANGED vars
      BY <2>2, <1>4, <1>d DEF BlockCommits, Monitor, MonitorReceive, MonitorReact, vars, serverVars, dispVars
    <2>3. CASE \E m \in PeerMonitors : \/ PeerMonitorDisconnects(m) \/ PeerMonitorAnswered(m)
                                       \/ PeerMonitorNotifies(m) \/ PeerMonitorStops(m)
      BY <2>3, <1>4, <1>d DEF PeerMonitorDisconnects, PeerMonitorAnswered, PeerMonitorNotifies,
            PeerMonitorStops,
            serverVars, dispVars
    <2>4. CASE UserCloses \/ Closing
      BY <2>4, <1>t DEF UserCloses, CallClose, Closing, CloseConnectEventChan, CloseDisconnect,
            CloseDisconnected,
            CloseStop, CloseStopped, CloseFinal
    <2>5. QED
      BY <1>4, <2>1, <2>2, <2>3, <2>4 DEF Next
  <1>5. QED
    BY <1>1, <1>2, <1>3, <1>4, <1>k

-----------------------------------------------------------------------------
(* A lost connection is heard of                                           *)

\* The places where word of a loss can be, but for the queue.
LossElsewhere ==
    \/ \E c \in Conns : recv[c] = "post" /\ Loss(inHand[c])
    \/ \E i \in 1..Len(connEvents) : connEvents[i] # "connected"
    \/ monEvent \in {"disconnected", "fatal"}
    \/ \E m \in PeerMonitors : peerMon[m] = "notify" \/ (peerMon[m] = "wait" /\ reply[m] = "ok")

\* Word of a loss is in the queue or elsewhere.
LEMMA UnderWay ==
    /\ LossUnderWay <=> LossQueued \/ LossElsewhere
    /\ LossUnderWay' <=> LossQueued' \/ LossElsewhere'
  BY DEF LossUnderWay, LossQueued, LossElsewhere

\* A connect calls the client connected only after the dispatcher has
\* answered its seek.
LEMMA HeardByConnector ==
    ASSUME IInv, ClientTypes, Protocol, NEW x \in Connectors, Connector(x), ~stopped',
           monitor' \in {"on", "notify"}, Relies'
    PROVE  monitor \in {"on", "notify"} /\ Relies
  <1> USE NamesApart
  <1>t. /\ pc \in [Connectors -> Places] /\ reply \in [Callers -> {"none", "ok", "err"}]
        /\ connState \in {"Disconnected", "Connecting", "Connected"}
    BY DEF IInv, Types, ClientTypes
  <1>1. /\ \A y \in Connectors \ {x} : pc'[y] = pc[y]
        /\ Active(x)' => Active(x)
        /\ connState' = "Connected" => connState = "Connected" \/ (pc[x] = "connected" /\ pc'[x] = "announce")
    BY ActiveMoves
  <1>2. \A y \in Connectors : reply'[y] # "none" => reply'[y] = reply[y]
    BY <1>t DEF Connector, SetSeekFromLastBlockReceived, ConnectStart, ConnectSubmit, ConnectAnswered,
          RegisterOnce, RegisterAnswered, Seek, SeekAnswered, Undo, Undone, SetConnected, Announce, Ask,
          Received
  <1>3. /\ pc'[x] = "connected" => pc[x] = "waitSeek" /\ reply[x] = "ok"
        /\ pc'[x] = "waitSeek" => pc[x] = "seek"
    BY <1>t DEF Connector, SetSeekFromLastBlockReceived, ConnectStart, ConnectSubmit, ConnectAnswered,
          RegisterOnce, RegisterAnswered, Seek, SeekAnswered, Undo, Undone, SetConnected, Announce, Retry, Goto
  <1>4. \A y \in Connectors : Sought(y)' => Sought(y)
    <2>1. reply[x] # "none" => pc[x] \in Answering
      BY DEF Protocol, AnswersAwaited
    <2>2. QED
      BY <1>1, <1>2, <1>3, <2>1 DEF Sought, Answering
  <1>5. connState' = "Connecting" => connState = "Connecting" \/ pc[x] = "start"
    BY DEF Connector, SetSeekFromLastBlockReceived, ConnectStart, ConnectSubmit, ConnectAnswered,
          RegisterOnce, RegisterAnswered, Seek, SeekAnswered, Undo, Undone, SetConnected, Announce, clientVars
  <1>6. connState' = "Connected" => connState = "Connected" \/ connState = "Connecting"
    BY <1>t DEF Connector, SetSeekFromLastBlockReceived, ConnectStart, ConnectSubmit, ConnectAnswered,
          RegisterOnce, RegisterAnswered, Seek, SeekAnswered, Undo, Undone, SetConnected, Announce, clientVars
  <1>7. monitor' = monitor \/ pc[x] = "waitReg" \/ monitor' = "nilChannel"
    BY DEF Connector, SetSeekFromLastBlockReceived, ConnectStart, ConnectSubmit, ConnectAnswered,
          RegisterOnce, RegisterAnswered, Seek, SeekAnswered, Undo, Undone, SetConnected, Announce, monVars
  <1>8. Active(x) => connState # "Connected" /\ \A y \in Connectors : Sought(y) => y = x
    BY DEF Protocol, OneActive, Active, Sought
  <1>9. Relies
    <2>1. CASE connState' = "Connected"
      <3>1. CASE connState = "Connected"
        BY <3>1 DEF Relies
      <3>2. CASE connState # "Connected"
        BY <2>1, <3>2, <1>1, <1>6 DEF Relies, Sought
      <3>3. QED
        BY <3>1, <3>2
    <2>2. CASE connState' = "Connecting" /\ \E y \in Connectors : Sought(y)'
      <3>1. PICK y \in Connectors : Sought(y)
        BY <2>2, <1>4
      <3>2. pc[x] # "start"
        BY <3>1, <1>8 DEF Active, Sought
      <3>3. QED
        BY <2>2, <3>1, <3>2, <1>5 DEF Relies
    <2>3. QED
      BY <2>1, <2>2 DEF Relies
  <1>10. pc[x] # "waitReg"
    <2>1. SUFFICES ASSUME pc[x] = "waitReg" PROVE FALSE
      OBVIOUS
    <2>2. Active(x) /\ ~Sought(x)
      BY <2>1 DEF Active, Sought
    <2>3. QED
      BY <2>2, <1>8, <1>9 DEF Relies
  <1>11. QED
    BY <1>7, <1>9, <1>10

\* The dispatcher passes on the word of a loss, and leaves it to the peer
\* monitor when that is who asked to disconnect.
LEMMA HeardByDispatcher ==
    ASSUME IInv, ClientTypes, Protocol, RoomForLoss, Dispatcher, LossHeard,
           monitor' \in {"on", "notify"}, Relies'
    PROVE  conn' # 0 \/ LossUnderWay'
  <1> USE NamesApart
  <1>t. /\ queue \in Seq(Events) /\ pc \in [Connectors -> Places] /\ reply \in [Callers -> {"none", "ok", "err"}]
        /\ peerMon \in [PeerMonitors -> {"off", "on", "wait", "notify"}] /\ connEvents \in Seq(ConnectionEvents)
        /\ conn \in 0..MaxConns /\ opened \in 0..MaxConns /\ recv \in [Conns -> {"off", "recv", "post", "ended"}]
    BY DEF IInv, Types, ClientTypes
  <1>q. \A t : Handle(t) => Taken /\ queue[1].type = t /\ Head(queue) = queue[1]
    BY <1>t, HandleTakes DEF Taken
  <1>o. OnlyAskerAnswered
    BY DispatcherAnswers
  <1>n. 1 \in 1..Len(queue)
    BY <1>o DEF OnlyAskerAnswered, Taken
  <1>r. \A z \in Callers : reply[z] # "none" => reply'[z] = reply[z]
    <2>1. ASSUME NEW z \in Callers, reply'[z] # reply[z] PROVE reply[z] = "none"
      <3>1. z = queue[1].by /\ queue[1].type \in Asking
        BY <2>1, <1>o DEF OnlyAskerAnswered
      <3>2. CASE z = Nobody
        BY <3>1, <3>2
      <3>3. CASE z # Nobody
        BY <3>1, <3>3, <1>n DEF Protocol, AskersWait
      <3>4. QED
        BY <3>2, <3>3
    <2>2. QED
      BY <2>1
  <1>m. monitor' = monitor /\ monEvent' = monEvent /\ connState' = connState /\ pc' = pc
    BY DEF Dispatcher, HandleConnectEvent, HandleRegisterConnectionEvent, HandleSeekEvent,
          HandleDisconnectEvent,
          HandleConnectedEvent, HandleDisconnectedEvent, HandleBlock, HandleStopEvent,
          HandleStopAndTransferEvent,
          monVars, clientVars, procVars
  <1>s. ASSUME queue[1].type # "seek" PROVE Relies
    <2>1. \A x \in Connectors : Sought(x)' => Sought(x)
      <3>1. ASSUME NEW x \in Connectors, pc[x] = "waitSeek", reply'[x] # reply[x] PROVE FALSE
        <4>1. x = queue[1].by /\ queue[1].type \in Asking
          BY <3>1, <1>o DEF OnlyAskerAnswered
        <4>2. QED
          BY <3>1, <4>1, <1>n, <1>s DEF Protocol, AskersWait, Waits, Asking
      <3>2. QED
        BY <3>1, <1>m DEF Sought
    <2>2. QED
      BY <2>1, <1>m DEF Relies
  <1>w. ASSUME ~Loss(queue[1]), LossUnderWay,
               recv' = recv \/ (\E c \in Conns : recv' = [recv EXCEPT ![c] = "recv"] /\ recv[c] # "post"),
               inHand' = inHand,
               \A i \in 1..Len(connEvents) : i \in 1..Len(connEvents') /\ connEvents'[i] = connEvents[i],
               \A m \in PeerMonitors : peerMon[m] # "off" => peerMon'[m] = peerMon[m]
        PROVE  LossUnderWay'
    <2>1. LossQueued => LossQueued'
      BY <1>w, <1>o, LossStays DEF OnlyAskerAnswered
    <2>2. LossElsewhere => LossElsewhere'
      <3>1. ASSUME NEW c \in Conns, recv[c] = "post", Loss(inHand[c])
            PROVE  recv'[c] = "post" /\ Loss(inHand'[c])
        BY <3>1, <1>w, <1>t DEF Loss
      <3>2. ASSUME NEW m \in PeerMonitors, peerMon[m] = "notify" \/ (peerMon[m] = "wait" /\ reply[m] = "ok")
            PROVE  peerMon'[m] = "notify" \/ (peerMon'[m] = "wait" /\ reply'[m] = "ok")
        BY <3>2, <1>w, <1>r
      <3>3. QED
        BY <3>1, <3>2, <1>w, <1>m DEF LossElsewhere, Loss
    <2>3. QED
      BY <1>w, <2>1, <2>2, UnderWay
  <1>1. CASE HandleConnectEvent
    <2>1. CASE conn' # 0
      BY <2>1
    <2>2. CASE conn' = 0
      <3>1. conn = 0 /\ recv' = recv /\ inHand' = inHand /\ connEvents' = connEvents /\ peerMon' = peerMon
        BY <1>1, <2>2, <1>t DEF HandleConnectEvent, monVars
      <3>2. LossUnderWay /\ queue[1].type = "connect"
        BY <1>1, <3>1, <1>q, <1>s, <1>m DEF HandleConnectEvent, LossHeard, Relies
      <3>3. QED
        BY <3>1, <3>2, <1>w DEF Loss
    <2>3. QED
      BY <2>1, <2>2
  <1>2. CASE HandleSeekEvent
    <2>1. CASE conn # 0
      BY <1>2, <2>1 DEF HandleSeekEvent, dispVars
    <2>2. CASE conn = 0
      <3>1. recv' = recv /\ inHand' = inHand /\ connEvents' = connEvents /\ peerMon' = peerMon /\ reply' = reply
        BY <1>2, <2>2 DEF HandleSeekEvent, monVars
      <3>2. Relies /\ queue[1].type = "seek"
        BY <1>2, <3>1, <1>m, <1>q DEF HandleSeekEvent, Relies, Sought
      <3>3. QED
        BY <2>2, <3>1, <3>2, <1>w, <1>m DEF LossHeard, Relies, Loss
    <2>3. QED
      BY <2>1, <2>2
  <1>3. CASE HandleDisconnectEvent
    <2>1. /\ queue[1].type = "disconnect" /\ Answer(queue[1], IF conn = 0 THEN "err" ELSE "ok")
          /\ recv' = recv /\ inHand' = inHand /\ connEvents' = connEvents /\ peerMon' = peerMon
      BY <1>3, <1>q DEF HandleDisconnectEvent, monVars
    <2>2. Relies
      BY <2>1, <1>s
    <2>3. queue[1].by \in PeerMonitors
      <3>1. SUFFICES ASSUME Undoes(queue[1]) PROVE FALSE
        BY <2>1 DEF Undoes
      <3>2. connState # "Connected" /\ \A x \in Connectors : pc[x] \notin Connecting
        BY <3>1, <1>n DEF Protocol, UndoneFirst
      <3>3. QED
        BY <3>2, <2>2 DEF Relies, Sought, Connecting
    <2>4. CASE conn # 0
      <3>1. reply'[queue[1].by] = "ok"
        BY <2>1, <2>3, <2>4, <1>t DEF Answer
      <3>2. peerMon[queue[1].by] = "wait"
        BY <2>1, <2>3, <1>n DEF Protocol, AskersWait, Asking
      <3>3. LossElsewhere'
        BY <2>1, <2>3, <3>1, <3>2 DEF LossElsewhere
      <3>4. QED
        BY <3>3, UnderWay
    <2>5. CASE conn = 0
      BY <2>1, <2>2, <2>5, <1>w, <1>m DEF LossHeard, Relies, Loss
    <2>6. QED
      BY <2>4, <2>5
  <1>4. CASE HandleDisconnectedEvent
    <2>1. connReg = "open"
      BY <1>m DEF Protocol, Open
    <2>2. PICK e \in {"disconnected", "fatal"} : Tell(e)
      BY <1>4 DEF HandleDisconnectedEvent
    <2>3. \E i \in 1..Len(connEvents') : connEvents'[i] # "connected"
      <3>1. CASE Len(connEvents) < ConsumerBuffer
        <4>1. connEvents' = Append(connEvents, e) /\ Len(connEvents) \in Nat
          BY <2>1, <2>2, <3>1, <1>t DEF Tell
        <4>2. Len(connEvents') = Len(connEvents) + 1 /\ connEvents'[Len(connEvents) + 1] = e
          BY <4>1, <1>t
        <4>3. QED
          BY <4>1, <4>2
      <3>2. CASE ~(Len(connEvents) < ConsumerBuffer)
        BY <2>2, <3>2 DEF Tell, RoomForLoss
      <3>3. QED
        BY <3>1, <3>2
    <2>4. QED
      BY <2>3, UnderWay DEF LossElsewhere
  <1>5. CASE HandleConnectedEvent
    <2>1. conn' = conn /\ recv' = recv /\ inHand' = inHand /\ queue[1].type = "connected"
      BY <1>5, <1>q DEF HandleConnectedEvent, dispVars, serverVars
    <2>2. \A i \in 1..Len(connEvents) : i \in 1..Len(connEvents') /\ connEvents'[i] = connEvents[i]
      BY <1>5, <1>t DEF HandleConnectedEvent, Tell
    <2>3. \A m \in PeerMonitors : peerMon[m] # "off" => peerMon'[m] = peerMon[m]
      BY <1>5, <1>t DEF HandleConnectedEvent
    <2>4. QED
      BY <2>1, <2>2, <2>3, <1>w, <1>s, <1>m DEF LossHeard, Relies, Loss
  <1>6. CASE HandleRegisterConnectionEvent \/ HandleBlock
    <2>1. /\ conn' = conn /\ recv' = recv /\ inHand' = inHand /\ connEvents' = connEvents /\ peerMon' = peerMon
          /\ queue[1].type \in {"register", "block"}
      BY <1>6, <1>q DEF HandleRegisterConnectionEvent, HandleBlock, serverVars, monVars
    <2>2. QED
      BY <2>1, <1>w, <1>s, <1>m DEF LossHeard, Relies, Loss
  <1>7. CASE HandleStopEvent \/ HandleStopAndTransferEvent
    BY <1>7, <1>q, <1>n DEF HandleStopEvent, HandleStopAndTransferEvent, Protocol, Open
  <1>8. QED
    BY <1>1, <1>2, <1>3, <1>4, <1>5, <1>6, <1>7 DEF Dispatcher

\* Receivers and monitors pass the word on.
LEMMA HeardByOthers ==
    ASSUME IInv, ClientTypes, Protocol, LossUnderWay, ~stopped, ~stopped',
           \/ \E c \in Conns : Receive(c) \/ Post(c)
           \/ BlockCommits \/ Monitor
           \/ \E m \in PeerMonitors : \/ PeerMonitorDisconnects(m) \/ PeerMonitorAnswered(m)
                                      \/ PeerMonitorNotifies(m) \/ PeerMonitorStops(m)
           \/ UNCHANGED vars,
           monitor' \in {"on", "notify"}, Relies'
    PROVE  LossUnderWay'
  <1> USE NamesApart
  <1>t. /\ queue \in Seq(Events) /\ reply \in [Callers -> {"none", "ok", "err"}]
        /\ peerMon \in [PeerMonitors -> {"off", "on", "wait", "notify"}] /\ connEvents \in Seq(ConnectionEvents)
        /\ recv \in [Conns -> {"off", "recv", "post", "ended"}] /\ inHand \in [Conns -> Events \cup {Nothing}]
    BY DEF IInv, Types, ClientTypes
  <1>a. \A e : queue' = Append(queue, e) => Grown(e)
    BY <1>t, AppendGrows
  <1>k. queue' = queue \/ (\E e : Grown(e)) => (LossQueued => LossQueued')
    BY LossStays
  <1>1. ASSUME NEW c \in Conns, Receive(c)
        PROVE  LossUnderWay'
    <2>1. /\ queue' = queue /\ connEvents' = connEvents /\ monEvent' = monEvent
          /\ peerMon' = peerMon /\ reply' = reply
          /\ recv[c] = "recv" /\ \A d \in Conns \ {c} : recv'[d] = recv[d] /\ inHand'[d] = inHand[d]
      BY <1>1, <1>t DEF Receive, monVars
    <2>2. LossElsewhere => LossElsewhere'
      BY <2>1 DEF LossElsewhere, Loss
    <2>3. QED
      BY <2>1, <2>2, <1>k, UnderWay
  <1>2. ASSUME NEW c \in Conns, Post(c)
        PROVE  LossUnderWay'
    <2>1. /\ Grown(inHand[c]) /\ connEvents' = connEvents /\ monEvent' = monEvent
          /\ peerMon' = peerMon /\ reply' = reply
          /\ \A d \in Conns \ {c} : recv'[d] = recv[d] /\ inHand'[d] = inHand[d]
      BY <1>2, <1>t, <1>a DEF Post, monVars
    <2>2. CASE Loss(inHand[c])
      <3>1. LossQueued'
        BY <2>1, <2>2 DEF Grown, LossQueued, Loss
      <3>2. QED
        BY <3>1, UnderWay
    <2>3. CASE ~Loss(inHand[c])
      <3>1. LossElsewhere => LossElsewhere'
        BY <2>1, <2>3 DEF LossElsewhere, Loss
      <3>2. QED
        BY <2>1, <3>1, <1>k, UnderWay
    <2>4. QED
      BY <2>2, <2>3
  <1>3. CASE BlockCommits \/ UNCHANGED vars
    BY <1>3 DEF BlockCommits, vars, monVars, LossUnderWay, Loss
  <1>4. CASE MonitorReceive
    <2>1. /\ queue' = queue /\ recv' = recv /\ inHand' = inHand /\ peerMon' = peerMon /\ reply' = reply
          /\ monEvent = "none"
      BY <1>4 DEF MonitorReceive, serverVars, peerVars, Protocol, Open
    <2>2. CASE connEvents = <<>>
      <3>1. monitor' = "ended"
        BY <1>4, <2>2 DEF MonitorReceive
      <3>2. QED
        BY <3>1
    <2>3. CASE connEvents # <<>>
      <3>1. monEvent' = connEvents[1] /\ connEvents' = Tail(connEvents) /\ connEvents[1] \in ConnectionEvents
        BY <1>4, <2>3, <1>t DEF MonitorReceive
      <3>2. ASSUME NEW i \in 1..Len(connEvents), connEvents[i] # "connected"
            PROVE  \/ monEvent' \in {"disconnected", "fatal"}
                   \/ \E j \in 1..Len(connEvents') : connEvents'[j] # "connected"
        <4>1. CASE i = 1
          BY <3>1, <3>2, <4>1 DEF ConnectionEvents
        <4>2. CASE i # 1
          <5>1. i - 1 \in 1..Len(connEvents') /\ connEvents'[i - 1] = connEvents[i]
            BY <3>1, <4>2, <1>t, <2>3
          <5>2. QED
            BY <5>1, <3>2
        <4>3. QED
          BY <4>1, <4>2
      <3>3. LossElsewhere => LossElsewhere'
        BY <2>1, <3>2 DEF LossElsewhere, Loss
      <3>4. QED
        BY <2>1, <3>3, <1>k, UnderWay
    <2>4. QED
      BY <2>2, <2>3
  <1>5. CASE MonitorReact
    <2>1. CASE monEvent = "connected"
      BY <1>5, <2>1 DEF MonitorReact, LossUnderWay, Loss, serverVars, peerVars
    <2>2. CASE monEvent # "connected"
      <3>1. monitor' = "ended" \/ connState' = "Disconnected"
        BY <1>5, <2>2 DEF MonitorReact
      <3>2. QED
        BY <3>1 DEF Relies
    <2>3. QED
      BY <2>1, <2>2
  <1>6. ASSUME NEW m \in PeerMonitors,
               \/ PeerMonitorDisconnects(m) \/ PeerMonitorAnswered(m)
               \/ PeerMonitorNotifies(m) \/ PeerMonitorStops(m)
        PROVE  LossUnderWay'
    <2>1. /\ recv' = recv /\ inHand' = inHand /\ connEvents' = connEvents /\ monEvent' = monEvent
          /\ \A n \in PeerMonitors \ {m} : peerMon'[n] = peerMon[n] /\ reply'[n] = reply[n]
      BY <1>6, <1>t DEF PeerMonitorDisconnects, PeerMonitorAnswered, PeerMonitorNotifies, PeerMonitorStops,
            PeerMonitorEnds, Ask, Received, serverVars
    <2>2. queue' = queue \/ (\E e : Grown(e))
      BY <1>6, <1>a DEF PeerMonitorDisconnects, PeerMonitorAnswered, PeerMonitorNotifies, PeerMonitorStops,
            Ask, Submit
    <2>3. CASE PeerMonitorNotifies(m)
      <3>1. PICK e : e = [type |-> "disconnected", fatal |-> FALSE] /\ Grown(e)
        BY <2>3, <1>a DEF PeerMonitorNotifies
      <3>2. LossQueued'
        BY <3>1 DEF Grown, LossQueued, Loss
      <3>3. QED
        BY <3>2, UnderWay
    <2>4. CASE ~PeerMonitorNotifies(m)
      <3>1. peerMon[m] = "notify" \/ (peerMon[m] = "wait" /\ reply[m] = "ok") => peerMon'[m] = "notify"
        BY <1>6, <2>4, <1>t DEF PeerMonitorDisconnects, PeerMonitorAnswered, PeerMonitorStops, PeerMonitorEnds
      <3>2. LossElsewhere => LossElsewhere'
        BY <2>1, <3>1 DEF LossElsewhere, Loss
      <3>3. QED
        BY <2>2, <3>2, <1>k, UnderWay
    <2>5. QED
      BY <2>3, <2>4
  <1>7. QED
    BY <1>1, <1>2, <1>3, <1>4, <1>5, <1>6 DEF Monitor

\* So no step loses it.
LEMMA LossHeardKept ==
    ASSUME IInv, ClientTypes, Protocol, RoomForLoss, [Next]_vars, ~stopped, ~stopped'
    PROVE  LossHeard'
  <1>t. closing = "no" /\ queue \in Seq(Events)
    BY DEF Protocol, Open, IInv, Types
  <1>1. SUFFICES ASSUME monitor' \in {"on", "notify"}, Relies'
                 PROVE  conn' # 0 \/ LossUnderWay'
    BY DEF LossHeard, Relies
  <1>h. LossHeard /\ (monitor \in {"on", "notify"} /\ Relies => conn # 0 \/ LossUnderWay)
    BY DEF Protocol, LossHeard, Relies
  <1>2. ASSUME NEW x \in Connectors, Connector(x)
        PROVE  conn' # 0 \/ LossUnderWay'
    <2>1. monitor \in {"on", "notify"} /\ Relies
      BY <1>1, <1>2, HeardByConnector
    <2>2. /\ conn' = conn /\ recv' = recv /\ inHand' = inHand /\ connEvents' = connEvents
          /\ monEvent' = monEvent /\ peerMon' = peerMon
      BY <1>2 DEF Connector, SetSeekFromLastBlockReceived, ConnectStart, ConnectSubmit, ConnectAnswered,
            RegisterOnce, RegisterAnswered, Seek, SeekAnswered, Undo, Undone, SetConnected, Announce,
            serverVars, dispVars, monVars, peerVars
    <2>3. \A m \in PeerMonitors : reply'[m] = reply[m]
      <3>1. reply' = reply \/ Received(x)
        BY <1>2 DEF Connector, SetSeekFromLastBlockReceived, ConnectStart, ConnectSubmit, ConnectAnswered,
              RegisterOnce, RegisterAnswered, Seek, SeekAnswered, Undo, Undone, SetConnected, Announce, Ask
      <3>2. QED
        BY <3>1, NamesApart DEF Received, ClientTypes
    <2>4. queue' = queue \/ (\E e : Grown(e)) \/ (\E y : Dropped(y))
      BY <1>2, <1>t, AppendGrows, AbandonDrops DEF Connector, SetSeekFromLastBlockReceived, ConnectStart,
            ConnectSubmit,
            ConnectAnswered, RegisterOnce, RegisterAnswered, Seek, SeekAnswered, Undo, Undone, SetConnected,
            Announce, Ask, Submit
    <2>5. LossUnderWay => LossUnderWay'
      <3>1. LossElsewhere => LossElsewhere'
        BY <2>2, <2>3 DEF LossElsewhere, Loss
      <3>2. QED
        BY <2>4, <3>1, LossStays, UnderWay
    <2>6. QED
      BY <2>1, <2>2, <2>5, <1>h
  <1>3. CASE Dispatcher
    BY <1>1, <1>3, <1>h, HeardByDispatcher
  <1>4. CASE \/ \E c \in Conns : Receive(c) \/ Post(c)
             \/ BlockCommits \/ Monitor
             \/ \E m \in PeerMonitors : \/ PeerMonitorDisconnects(m) \/ PeerMonitorAnswered(m)
                                        \/ PeerMonitorNotifies(m) \/ PeerMonitorStops(m)
             \/ UNCHANGED vars
    <2>1. conn' = conn
      BY <1>4 DEF Receive, Post, BlockCommits, Monitor, MonitorReceive, MonitorReact, PeerMonitorDisconnects,
            PeerMonitorAnswered, PeerMonitorNotifies, PeerMonitorStops, dispVars, vars
    <2>2. monitor \in {"on", "notify"} /\ Relies
      <3>1. monitor' \in {"on", "notify"} => monitor \in {"on", "notify"}
        BY <1>4 DEF Receive, Post, BlockCommits, Monitor, MonitorReceive, MonitorReact, PeerMonitorDisconnects,
              PeerMonitorAnswered, PeerMonitorNotifies, PeerMonitorStops, monVars, vars
      <3>2. /\ connState' \in {connState, "Disconnected"}
            /\ \A x \in Connectors : pc'[x] \in {pc[x], "delay"} /\ reply'[x] = reply[x]
        <4>1. /\ connState' \in {connState, "Disconnected"}
              /\ \A x \in Connectors : pc'[x] \in {pc[x], "delay"}
          BY <1>4 DEF Receive, Post, BlockCommits, Monitor, MonitorReceive, MonitorReact,
                PeerMonitorDisconnects,
                PeerMonitorAnswered, PeerMonitorNotifies, PeerMonitorStops, clientVars, procVars, vars, Goto,
                IInv, Types
        <4>2. reply' = reply \/ \E m \in PeerMonitors : Received(m)
          BY <1>4 DEF Receive, Post, BlockCommits, Monitor, MonitorReceive, MonitorReact,
                PeerMonitorDisconnects,
                PeerMonitorAnswered, PeerMonitorNotifies, PeerMonitorStops, vars, Ask
        <4>3. QED
          BY <4>1, <4>2, NamesApart DEF Received, ClientTypes
      <3>3. QED
        BY <1>1, <3>1, <3>2 DEF Relies, Sought
    <2>3. QED
      BY <1>1, <1>4, <1>h, <2>1, <2>2, HeardByOthers
  <1>5. CASE UserCloses \/ Closing
    BY <1>5, <1>t DEF UserCloses, CallClose, Closing, CloseConnectEventChan, CloseDisconnect, CloseDisconnected,
          CloseStop, CloseStopped, CloseFinal
  <1>6. QED
    BY <1>2, <1>3, <1>4, <1>5 DEF Next

-----------------------------------------------------------------------------
(* The theorem                                                             *)

\* A client that has been stopped stays so.
LEMMA StoppedForGood ==
    ASSUME [Next]_vars, stopped
    PROVE  stopped'
  <1>1. CASE \E x \in Connectors : Connector(x)
    BY <1>1 DEF Connector, SetSeekFromLastBlockReceived, ConnectStart, ConnectSubmit, ConnectAnswered,
          RegisterOnce,
          RegisterAnswered, Seek, SeekAnswered, Undo, Undone, SetConnected, Announce, Retry, CallClose,
          clientVars
  <1>2. CASE Dispatcher
    BY <1>2 DEF Dispatcher, HandleConnectEvent, HandleRegisterConnectionEvent, HandleSeekEvent,
          HandleDisconnectEvent,
          HandleConnectedEvent, HandleDisconnectedEvent, HandleBlock, HandleStopEvent,
          HandleStopAndTransferEvent,
          clientVars
  <1>3. CASE (\E c \in Conns : Receive(c) \/ Post(c)) \/ BlockCommits \/ Monitor \/ UNCHANGED vars
    BY <1>3 DEF Receive, Post, BlockCommits, Monitor, MonitorReceive, MonitorReact, CallClose, clientVars, vars
  <1>4. CASE \E m \in PeerMonitors : \/ PeerMonitorDisconnects(m) \/ PeerMonitorAnswered(m)
                                     \/ PeerMonitorNotifies(m) \/ PeerMonitorStops(m)
    BY <1>4 DEF PeerMonitorDisconnects, PeerMonitorAnswered, PeerMonitorNotifies, PeerMonitorStops, clientVars
  <1>5. CASE UserCloses \/ Closing
    BY <1>5 DEF UserCloses, CallClose, Closing, CloseConnectEventChan, CloseDisconnect, CloseDisconnected,
          CloseStop, CloseStopped, CloseFinal, clientVars
  <1>6. QED
    BY <1>1, <1>2, <1>3, <1>4, <1>5 DEF Next

\* The invariant holds when the client is made.
LEMMA InitLossInv ==
    ASSUME Init
    PROVE  LossInv
  <1> USE NamesApart, BoundsAssumption
  <1>1. ClientTypes
    <2>1. reply \in [Callers -> {"none", "ok", "err"}] /\ peerMon \in [PeerMonitors -> {"off", "on", "wait", "notify"}]
      BY DEF Init
    <2>2. connEvents \in Seq(ConnectionEvents) /\ monEvent = "none" /\ connState = "Disconnected" /\ stopped = FALSE
      BY DEF Init
    <2>3. \A c \in Conns : recv[c] = "off"
      BY DEF Init
    <2>4. QED
      BY <2>1, <2>2, <2>3 DEF ClientTypes
  <1>2. /\ Len(queue) = 0 /\ \A x \in Connectors : pc[x] \in {"start", "idle"} /\ reply[x] = "none"
        /\ \A m \in PeerMonitors : reply[m] = "none"
        /\ \A x \in Connectors : pc[x] = "start" <=> x = User
        /\ connState = "Disconnected" /\ running = TRUE /\ closing = "no" /\ monitor = "off" /\ monEvent = "none"
        /\ conn = 0 /\ opened = 0 /\ \A c \in Conns : cursor[c] = 0
    BY DEF Init
  <1>3. OneActive
    BY <1>2 DEF OneActive, Active
  <1>4. AnswersAwaited /\ AskersWait /\ AskedOnce /\ UndoneFirst
    BY <1>2 DEF AnswersAwaited, AskersWait, AskedOnce, UndoneFirst
  <1>5. Open /\ EndKnown /\ LossHeard
    BY <1>2 DEF Open, EndKnown, LossHeard
  <1>6. QED
    BY <1>1, <1>3, <1>4, <1>5 DEF LossInv, Protocol

\* Every step keeps it, as long as the channel of connection events has room.
LEMMA StepLossInv ==
    ASSUME IInv, LossInv, RoomForLoss, [Next]_vars
    PROVE  LossInv'
  <1>1. ClientTypes'
    BY ClientTypesKept DEF LossInv
  <1>2. ASSUME ~stopped'
        PROVE  Protocol'
    <2>1. ~stopped /\ ClientTypes /\ Protocol
      BY <1>2, StoppedForGood DEF LossInv
    <2>2. OneActive' /\ Open' /\ UndoneFirst' /\ EndKnown'
      BY <1>2, <2>1, OneActiveKept, OpenKept, UndoneFirstKept, EndKnownKept
    <2>3. AnswersAwaited' /\ AskersWait' /\ AskedOnce'
      BY <1>2, <2>1, QuestionsKept
    <2>4. LossHeard'
      BY <1>2, <2>1, LossHeardKept
    <2>5. QED
      BY <2>2, <2>3, <2>4 DEF Protocol
  <1>3. QED
    BY <1>1, <1>2 DEF LossInv

\* It is strong enough.
LEMMA LossTold ==
    ASSUME LossInv
    PROVE  NoSilentLoss
  <1>1. SUFFICES ASSUME connState = "Connected", ~stopped, monitor = "on"
                 PROVE  (conn # 0 /\ recv[conn] # "ended") \/ LossUnderWay
    BY DEF NoSilentLoss
  <1>2. EndKnown /\ LossHeard
    BY <1>1 DEF LossInv, Protocol
  <1>3. conn # 0 \/ LossUnderWay
    BY <1>1, <1>2 DEF LossHeard, Relies
  <1>4. conn # 0 /\ recv[conn] = "ended" => LossUnderWay
    BY <1>2, UnderWay DEF EndKnown
  <1>5. QED
    BY <1>3, <1>4

(***************************************************************************)
(* Unless a loss finds the channel of connection events full of nothing    *)
(* but "connected", and is dropped, a client that takes itself to be       *)
(* connected has a live connection or will be told that it has none: of no *)
(* order of failed and new connects, stale disconnects, ended streams and  *)
(* peer monitors comes a client that waits for events nobody sends         *)
(* (Receive, HandleDisconnectEvent, HandleDisconnectedEvent, monitorPeer,  *)
(* monitorConnection).                                                     *)
(***************************************************************************)
THEOREM LossesHeard == Spec /\ []RoomForLoss => []NoSilentLoss
  <1>1. Init => LossInv
    BY InitLossInv
  <1>2. IInv /\ LossInv /\ RoomForLoss /\ [Next]_vars => LossInv'
    BY StepLossInv
  <1>3. LossInv => NoSilentLoss
    BY LossTold
  <1>4. QED
    BY <1>1, <1>2, <1>3, EventClientInvariant, PTL DEF Spec
=============================================================================
