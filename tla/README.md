# A TLA+ verification of the Fabric SDK for Go

The Fabric SDK for Go (`pkg/`) is the client of a Hyperledger Fabric network: it
keeps connections to peers and orderers, finds out whom to ask, sends proposals,
collects endorsements, broadcasts transactions, waits for their commit, listens
to the blocks of a channel, administers channels and chaincodes, and enrols
identities. This project models it in TLA+, checks the models with TLC on
small instances, and proves the safety properties of nine state machines and two
refinements with TLAPS for instances of any size.

Contents: [1 the system](#1-the-system), [2 the modules](#2-the-modules),
[3 the runs](#3-the-runs),
[4 what a reader might not expect](#4-what-a-reader-of-the-code-might-not-expect),
[5 the proofs](#5-the-proofs), [6 what is left out](#6-what-is-not-modelled),
[7 the plan](#7-the-plan).

## 1. The system

### Inventory

| Component | State it keeps | Operations | Talks to | What is hard |
|---|---|---|---|---|
| Caching connector (`fab/comm/connector.go`) | two maps of connections, an open count each, janitor token and channels | DialContext, ReleaseConn, Close, janitor sweeps | every gRPC user; gRPC connectivity | dial, sweep and Close at the same time; a janitor that starts and leaves |
| gRPC connections, streams (`fab/comm`) | one connection, closed flag | NewConnection, Close | connector | releasing on every error path |
| Lazy reference (`util/concurrent/lazyref`) | value, last access, closed flag, running timer | Get, Close, expiry, refresh | initializer, finalizer callbacks | unlocked fast paths, timer racing Close |
| Lazy cache and futures (`util/concurrent/lazycache`, `futurevalue`) | concurrent map of futures | Get, Delete, DeleteAll, Close | initializer, Close of values | two Gets of a key, failing initializers, deletion meanwhile |
| Event client reference (`fabsdk/provider/chpvdr/eventserviceref.go`) | event client, closed flag, a lazy reference to it | get, Register..., Unregister, idle expiry, Close | lazy reference, event client | idle check, then close |
| Event client (`fab/events/client`) | connection state, stopped flag, dispatcher, monitors | Connect, reconnect, Close, TransferRegistrations | dispatcher through its queue | reconnects racing disconnects and Close |
| Deliver client (`fab/events/deliverclient`) | stream, seek position | seek, Receive | deliver server, dispatcher | blocks of an old stream after a reconnect |
| Event service and dispatcher (`fab/events/service`) | registrations, last block, event queue | Register..., Unregister, publish, Stop, Transfer | consumers through channels | slow consumers, transfers with timeouts |
| Peer resolvers (`fab/events/client/peerresolver`) | none, or the connected peer | Resolve, ShouldDisconnect | discovery, dispatcher | lag thresholds and unsigned block numbers at their boundary |
| Channel client, handlers, gateway transactions (`client/channel`, `gateway/transaction.go`) | one request with its response | Execute, Query, Submit, retries | selection, transactor, event service | the deadline against the handler goroutine, retries, a commit that is reported late or never |
| Retry, status, multi errors, greylist (`common/errors`, `client/common/discovery/greylist`) | attempts, grey entries with expiry | Required, Accept | channel client, resource management | which part of a failure is retried |
| Transactor, orderer, endorsers (`fab/channel`, `fab/txn`, `fab/orderer`, `fab/peer`) | none | proposals, broadcast, deliver | network | some answers of several, an orderer lost after it took the envelope |
| Discovery (`fab/discovery`, `client/common/discovery`, pinned `discovery/client`) | refreshed lists of peers | GetPeers, Send | peers, lazy references | answers matched to queries; peers that disagree |
| Selection, policies (`client/common/selection`, pinned `policydsl`) | policies, a round robin counter | GetEndorsersForChaincode | discovery, channel configuration | policy algebra, layouts, sorting by height |
| Channel configuration, ledger client (`fab/chconfig`, `fab/channel/ledger.go`, `client/ledger`) | cached references with refresh | Query..., targets and verification | peers, orderers | how many must agree, on what |
| Resource management (`client/resmgmt`, `fab/resource`) | none | join, install, instantiate, upgrade, the lifecycle, save a channel, queries | peers, orderers | one target of several failing, repeating what was half done |
| Configuration updates (`fab/resource/configtx.go`, pinned `configtxgen`, `configtxlator`) | none | the update between two configurations, creation and anchor transactions, genesis blocks | resource management | versions, deletions, nested groups |
| MSP client and identities (`client/msp`, `msp`, pinned CA client) | user store, key store | register, enroll, reenroll, revoke, identities, affiliations, signing identities | Fabric CA | lost answers, crashes between two stores, two enrolments at once |
| Membership (`fab/channel/membership`, pinned `fabric/msp`) | the MSPs of a channel | Validate, Verify, ContainsMSP, principals | channel configuration | chains, revocation, organisational units |
| Configuration (`fab/endpointconfig.go`, `msp/identityconfig.go`) | the networks made of the file | the peers, orderers, CAs and policies of a name | everything | entity matchers, defaults that inherit |
| PKCS11 sessions (`core/cryptosuite/common/pkcs11`, pinned `bccsp/pkcs11`) | pool of sessions, context, caches of key handles | GetSession, ReturnSession, recovery, key operations | token | tokens that lose sessions under several threads |
| Key store, wallets (pinned `bccsp/sw`, `gateway`) | files | store, get, list, remove | crypto suite, gateway | names and contents that overlap |
| Context cache, channel provider, SDK (`fabsdk`) | lazy caches of services | get, Close | lazy cache, all services | closing what is in use |
| Packages, logging, metrics, TLS pool, protocol buffers | data | | | the swap of the TLS pool |

`PROJECT.json` lists all of them under "components" with what is modelled of
each, and under "hazards" the places where this code can go wrong in a way that
a test would hardly reach.

### How the modelled parts interact

A **transaction** starts at the channel client. Its handlers ask **selection** for
endorsers, which works on the peers of **discovery** less those that the
**greylist** holds back, and on the policy or the layout of the chaincode; the
**transactor** sends the proposals, compares the endorsements, and broadcasts the
**envelope** to one orderer after the other; the handler waits for the status of
the transaction from the **event service**. **Retry** decides whether all of that
is done again with a new transaction ID. **Resource management** does the
same for installs, deployments and channels, and sends the **configuration
updates**. Answers of the **ledger** and of the **channel configuration** count
only if enough peers agree and, for some, if the **membership** service knows the
endorsers. Whom to dial, and which CA to ask, the **configuration** says; with
whose key to sign, the **identity manager**, on top of a **key store** or a
**PKCS11** token.

A registration for events goes through an **event client reference**, whose
**lazy reference** creates the **event client** on first use and closes it when
it has been idle. The event client asks the **dispatcher** (through its queue) to
open a stream, which the **caching connector** provides, to the peer that a
**peer resolver** chose; a goroutine receives from the stream and posts blocks and
losses of the connection to the same queue; the dispatcher publishes the blocks to
the registrations' channels and tells the connection monitor about losses, which
starts a reconnect. Services, references and contexts themselves are entries of
**lazy caches**.

### What makes each part correct

* Connector: a connection is closed once and only when nobody uses it, nothing
  leaks, one janitor at most; dials and Close return.
* Lazy reference: a value is finalized exactly once before it is replaced, and
  nothing runs after Close; idle values expire; Close returns.
* Lazy cache: the initializer of a stored future is run by one goroutine, errors
  are not cached, Gets return.
* Event client reference: there is at most one connected client and the
  reference knows it; an idle one is closed; Close closes it (the one promise of
  this list that the code breaks outright, section 3).
* Event client: one stream at a time; no loss goes unnoticed; blocks are
  published once and in order across reconnects; Connect and Close return.
* Dispatcher: a registration is in one place; no send on a closed channel;
  exactly the right events reach a consumer; publishing ends.
* Channel client: success is reported only for a valid transaction, a definite
  error only when none is valid, and no retry makes two of them valid, as far as an
  orderer that was lost in between lets anyone know; what is sent has the
  endorsements its policy asks for; the registration for the commit precedes the
  broadcast; every call ends.
* Resource management: success means that every target did what was asked; an
  administrator who repeats a call gets through, or is told why not.
* Identities: a caller signs with the certificate and the key of the user it
  named; what was enrolled stays usable, crashes included.
* PKCS11: a session is used by one thread until the token has to be recovered, key
  handles are of the context in use; getting one ends.
* Selection, discovery, resolvers: the peers asked satisfy the policy if any
  can, are known and accepted; an answer is read under the query it belongs to; an
  event client is sent where it may listen, and away only for a reason.
* Configuration, membership, ledger, envelopes, updates, stores: what is found is
  what was put there, defaults inherit as documented, enough of the right peers
  agree, and an update makes the configuration that was asked for.

## 2. The modules

An action is what the code does between two points where another goroutine can
interfere: one section under a lock, one channel operation, one call of a
callback, or the handling of one event. Payloads, errors and log messages are
abstracted; block numbers, queue capacities, counts and flags are kept. Operators
named `Definition_Slip`, directly before a definition, are plausible mistakes in
that definition; the properties are shown to catch them ("mutants").

### State machines

**CachingConnector** (`fab/comm/connector.go`). `conns` and `index` are the two
maps of the connector, `open` and `lastClose` the fields of a cached connection,
`janitor`, `janitorDone`, `janitorClosed` the janitor, its token and channel.
Threads dial (`DialCached`, `DialNew`, `WaitReady`, `OpenConn`, `WaitFails`,
`DialRemove`), use and release (`ReleaseConn`); Closers run Close step by step;
connections change their state as gRPC does, which is external. `Conn` bounds the
number of connections ever opened.

**LazyRef** (`util/concurrent/lazyref/lazyref.go`). `config` is chosen
initially: no expiry, after last access, after initialisation, or refreshing,
with or without a finalizer. Values are numbered. `GetStart`, `GetFast` and
`GetLocked` are the unlocked check, the unlocked read and the locked part of Get;
the timer goroutine is started, starts, waits in its select, finalizes, clears
and stops; Close notifies, waits and finalizes.

**EventClientRef** composes LazyRef with the event client: every action of the
lazy reference is taken together with what the reference's initializer or
finalizer does in it, and threads register and unregister with the service they
were given. The finalizer's question for the registrations, its answer and what it
does then are separate steps. A client that closes, or closes itself, has a StopEvent
in the queue of its dispatcher (`stopping`) until that is handled
(`DispatcherStops`). In between the client still takes questions, and nobody answers
them: a thread that registers there is `stranded`, and a finalizer that asks there
keeps the lock for ever (`Stuck`), since neither call has a timeout
(`client.go:114-120`, `service.go:243-262`).
**MCLazyRef** checks three uses in one run: `part` says whether a behaviour is that
of a bare reference, of one with an event client behind it, or of LazyCache.

**LazyCache** (`lazycache.go`, `futurevalue.go`). `m` is the sync.Map; a future is
unset, a value or an error. Sweepers run Delete, DeleteAll or Close. The range over
the map visits keys one at a time while Gets go on.

**EventClient** (`fab/events/client`, its dispatcher, `fab/events/deliverclient`,
and the event loop of `fab/events/service`). One dispatcher handles the queue;
around it run the user's Connect, reconnect goroutines, Receive goroutines, the
connection monitor, peer monitors and Close, each with its program counter, its
question in the queue and its answer. The deliver server is external: it commits
blocks, sends them from the position asked for, sends a status and ends the
stream, or breaks it. Deliberate simplifications: the check of Submit that the
dispatcher runs and the send are one step; the user makes one attempt to connect
(`maxConnAttempts` is 1 by default); whoever gave a channel for connection events
reads it; registrations are left to the next module. `fromNewest` is a history
variable.

**EventDispatcher** (`fab/events/service`, its dispatcher). Registrations of the
four kinds with their goroutines, one or more event services one after the other,
and a mover that stops a service or transfers its registrations to the next.
Sending an event to one registration is one step, because it may wait. What a
block holds is data given by constants; `MCEventDispatcher` gives the instances
used here. Not modelled: closing a snapshot, the event that asks for the number
of registrations (see EventClientRef), decoding, event name patterns.

**Transaction** (`client/channel` with its `invoke` package, `fab/channel`,
`fab/txn`, `fab/peer`, `fab/orderer`, the greylist, and Submit of the gateway) is
one call of the channel client. `pc` is the handler that the goroutine is in; each
attempt has a transaction of its own and the greylist lives across attempts.
A peer endorses, refuses, disagrees, or is unreachable; the proposal of a
chaincode that calls another is repeated with the endorsers of both. An orderer
answers, refuses, is down, or takes the envelope and is lost. The commit is a step
of the ledger (external); the event service registers the transaction, refuses, or
stops before it has answered; it delivers the status, or stops and closes the channel. The caller waits in its select for the goroutine or the
deadline. **Retry** has the errors and the decision to retry, and
**ExecuteContract** is the abstract specification: what the caller was told
against what became valid on the ledger. `Contract` in Transaction is the
refinement mapping.

**ResMgmt** (`client/resmgmt`, `fab/resource`): an administrator makes a request
and repeats it until it succeeds. A request is an operation with its options:
targets, a filter, retries, signers and so on; `pc` goes through the resolution of
targets, the check of what is installed, the proposals, the transaction, its
event, and the answer. Other administrators commit configurations meanwhile, and a
transaction that the orderer took for a call that gave up may be committed in a later
one (`earlier`). Peers refuse to endorse what is defined already (external; the
integration tests ask before they deploy, `test/integration/prepare.go:102`).

**Identity** (`client/msp`, `msp/caclient.go`, `fabcaadapter.go`, `getsigid.go`, the
user and key stores, the pinned client of Fabric CA). Goroutines make calls; each
question to the CA, each write to a store and the truncation before it are steps.
The CA is external: it knows users, their secrets and how often they may enrol, and
issues certificates. An answer may be lost, a request refused before it is sent, a
write may fail before or after it has touched the file, and the process may crash; the
stores survive.

**SessionPool** (`contextHandle.go`, the cache bridge of the `sdkpatch`, the key
operations of `bccsp/pkcs11`). The token numbers its sessions from 1 in every
context it is loaded in, and may lose sessions, the login or the slot. The read
lock, the writer that announces itself and the writer that holds it are modelled
as Go's RWMutex has them, because recursion and leaked read locks matter here.

### Algorithms

Code that keeps no state of its own is written as operators, with the promise it
makes beside it as an operator of its inputs. Where the code draws lots or takes
answers in the order of arrival an operator yields the set of the possible
outcomes. **MCAlgorithms** picks one algorithm ("topic") and one input of a small
domain in each behaviour and checks the promise.

| Module | Code | Promises |
|---|---|---|
| PeerGroups | `policydsl`, `dynamicselection`, `pgresolver` | a chosen group consists of accepted peers and satisfies the policies of all the chaincodes called; one is chosen whenever the accepted peers can satisfy them |
| Discovery | pinned `discovery/client`, `fab/discovery`, the discovery services | a reader gets from a response the descriptor of the chaincode it asks for; the peers of a channel or an org are those that a member reported |
| Selection | `fabricselection`, sorters, balancers, the rolling counter | a layout is filled with accepted peers, in the order the sorter promises, or the query fails for a reason that was given |
| PeerResolver | the four resolvers | from the reported members to the peer that is chosen: it belongs to the channel and is not barred as an event source; a peer is left only for one that has more or is preferred; with the settings named by `Steady` not right after it was chosen |
| EndpointConfig | `endpointconfig.go`, orderers of the transactor | policies are the channel's, its default's, or the SDK's; endpoints can be dialled and are not ignored ones |
| IdentityConfig | `identityconfig.go`, `getsigid.go`, embedded and file keys | the CA is the one that org and matchers lead to; a user's key belongs to its certificate |
| Membership | `membership.go`, pinned `fabric/msp` | an identity is accepted by a chain of unrevoked CAs of the MSP it names, not of another; who has a role is a valid member, except for admins that a 1.4.3 MSP with node OUs lists, who are only certified by it |
| LedgerQuery | `client/ledger`, `fab/channel/ledger.go`, `chconfig` | an answer was given by as many peers as asked for, which agree (`QueryConfigBlock`: by one); capabilities are read as they are, version numbers below ten |
| ConfigUpdate | `configtx.go`, `configtxgen/encoder`, `configtxlator/update` | the update between two configurations makes the second of the first, at any depth, and touches nothing else; creation and anchor transactions do what they say |
| Envelopes | `fab/txn`, `protoutil`, deliver of the orderer | what was endorsed is what is signed and sent; every part of an envelope or block is found where it was put |
| KeyStore | `bccsp/sw` | a key that is found has the SKI asked for and was stored; a key that was stored is found, unless its public key hides it |
| Wallet | `gateway` wallets | both stores know the labels put and not removed, and give the identity put last or none; the one in memory always gives it, the one in files if no longer one was there before |

`ConfigUpdate` and `PeerGroups` use RECURSIVE operators (nested groups, nested gates),
so they are for TLC alone.
The proofs about a module are in a module of their own, **CachingConnectorProofs**,
**LazyProofs** (LazyRef, EventClientRef and LazyCache), **EventClientProofs**,
**EventDispatcherProofs**, **TransactionProofs**, **ResMgmtProofs**, **IdentityProofs**
and **SessionPoolProofs**, see section 5. LazyProofs extends all three of its
subjects, so LazyCache has names of its own (`CacheSpec`, `CacheTypeOK`, `Getters`).

## 3. The runs

One run for each state machine and question, one for the algorithms, and one that
shows a promise broken (EventClientRef_close, expected to end in a violation). Deadlock
is not checked: every one of these systems may come to rest, when its call has
returned, or when the users have nothing to do and the bounds are used up.

| Run | Checks | Instance |
|---|---|---|
| CachingConnector | IInv, SweepSparesUsed, CallsReturn | 2 threads, 1 closer, 1 target, 2 connections |
| LazyRef (MCLazyRef) | IInv, NoOrphanClient, CloseReturns, IdleEnds, CacheSound, GetReturns | 2 threads, 2 closers, 2 values, 2 event clients; bare references of all configurations, the one with an event client, and the cache with 2 keys, 2 getters, 1 sweeper, 2 futures |
| EventClientRef_close | CloseCloses, violated | 1 thread, 1 closer, 1 value, 1 event client |
| EventClient_connection | OneConnection, NoSilentLoss, PublishedInOrder | 2 connections, 3 blocks, queue of 1, unlimited attempts, a peer monitor, from the oldest block |
| EventClient_live | ConnectReturns, CloseReturns | 1 connection, 1 block, 1 attempt, reconnect on and off, Close |
| EventDispatcher_transfer | NoPanic, OwnedOnce, InOrder | 2 registrations for one key (symmetric), blocks 0 and 1, 2 services, finite timeout, first block published or not |
| EventDispatcher_publish | SentExactly, CallsReturn | 2 block registrations and 1 for chaincode events, blocks 1 and 2, finite and infinite timeout |
| Transaction | WellEndorsed, NoCommitMissed, KeepsContract, CallEnds | 3 peers of 2 organisations, 2 orderers, a chaincode that may call another, 1 retry |
| ResMgmt | Truthful, ConfigFresh, Settles | 3 peers, 2 of the own MSP, 2 orderers, every operation with the options that change what it does, 4 faults, 3 configurations, 1 retry |
| Identity | SignsAsUser, EnrolledUsable, CallEnds | registrar and user, 2 goroutines, 1 CA, 3 calls, 1 lost answer, 1 crash, writes that fail |
| SessionPool | KeysCurrent, Exclusive, GetReturns | 2 threads with different operations, a pool of 1, 2 sessions, 2 contexts, 1 fault |
| Algorithms | EndorsersServe, PeersTrue, ConfigurationTrue, StoresTrue, MembersSound, LedgerAgreed, MessagesTrue, UpdatesExact | every input of the domains in MCAlgorithms |

What the properties say, beyond section 1. *IInv* of the connector and of the lazy
reference are the inductive invariants that section 5 proves; they contain the type
invariant and the named safety properties. *CacheSound* is the type invariant of
the lazy cache with InitOwned (one goroutine initialises a stored future),
ErrorLeaves and OneValuePerKey. *IdleEnds* is the expiry of a bare value and of an
idle event client. *NoSilentLoss*: a client that says it is connected has a stream,
or its loss is under way to the monitor. *OwnedOnce* and *SentExactly* also say that
a registration whose caller was told it succeeded is not forgotten.
*KeepsContract* is a refinement, `Contract!Spec` of ExecuteContract. *NoCommitMissed*
says that the registration for a transaction is early enough that its commit cannot
pass unseen. *CallEnds* of Transaction is about two ends, that of the caller, who
returns by the deadline, and that of the handler goroutine, which may be stranded in a
registration. *Settles* is the promise behind "repeat the call": what was half done is
completed, or was complete although refused, as joins, channel creations, deployments,
approvals and commits are for ever after; it also names the two ways in which the
call never comes back, a panic and a stranded registration. *Exclusive* says that a
session is held once, and that two threads with one session number are not both of
the present context. *EnrolledUsable* holds in spite of
crashes between the two stores because the key is stored before the certificate; it
speaks of calls since the process started, and of users whose certificate no later
call failed to write, for a write that is cut off leaves a file of the user store that
cannot be read.
*KeysCurrent* is about session numbers that a token gives out again after a reload.

*CloseCloses* is what the comment of `EventClientRef.Close` says, "Close immediately
closes the connection." (`eventserviceref.go:55`). TLC refutes it in a few steps: a user
registers, the reference expires, the finalizer finds the registration and keeps the
client, the lazy reference gives up its value all the same, and Close, which only closes
the lazy reference, finds no value to finalize.

Where a property makes an exception, its comment and the hazard it belongs to name it.
The exceptions are not there to make a run pass unseen: each is a state or an action of
the model, TLC reaches it, and it is listed in section 4.

Why the bounds suffice for the cases of interest; for the properties that section 5
proves they do not matter. *Connector:* two connections of
one target are what a stale name and a sweep of a used connection need. *LazyRef:* two values give an expiry
followed by a new initialisation, and two clients one replaced by the next, while two
closers and two readers are at work. *LazyCache:* two futures are what two Gets race
to store, or a key deleted and made again during a sweep. *EventClient:* with two connections every event of the first can arrive
during the second; three blocks show a repeated, a swapped and a skipped block; a
queue of one makes every send a place to wait. The buffer of connection events is 8
in the run that checks NoSilentLoss, more than the events that can occur: with a
buffer of 3 TLC finds that an event which starts a reconnect is dropped
(`dispatcher.go:182` logs that and goes on; the default is 100).
*EventDispatcher:* two registrations for one key are the ones that can disturb each
other; three registrations are what "Move the 0'th item to i" needs to lose one;
channels of one event are full at once. *Transaction:* two organisations and two
payloads let endorsers disagree, a policy be unsatisfied, and a called chaincode
bring in a peer that was not asked; with one retry every failure can be followed by
each; two orderers are one to lose and one to try next. *ResMgmt:* four faults fail
every target in turn and one again. *Identity:* three calls of two goroutines are
an enrolment, another one at the same time, and a signature. *SessionPool:* one
session for two threads makes every return and every recovery a contest; two
contexts are what a stale number needs.
*Algorithms:* domains have two or three of everything that is compared, with the
special values (zero, nil, the greatest number, what does not parse) in them.

Fairness. Go runs every goroutine that can run, so steps of goroutines are weakly
fair. Steps that wait for room in a channel are strongly fair: a Go channel serves
blocked senders in FIFO order, so a sender is not overtaken for ever. The timer's
select is strongly fair on closech: it is chosen at random among the ready cases.
A dispatcher handles what is in its queue, up to its StopEvent and no further, so
answers from one that stops are not assumed (LazyRef, Transaction, ResMgmt).
Go's RWMutex lets readers and writers in turns, so taking a lock is strongly fair
in SessionPool. Clocks advance (`TimePasses`, `IdleTimePasses`, `Deadline`),
contexts end. In ResMgmt the ordering service commits what it took, and the faults
are bounded: a client that nobody answers is not promised anything. In Identity the
CA answers or the connection breaks, which the code relies on as it sets no timeout.
Nothing else that the environment does is fair: no block has to be committed, no
stream has to break, connections need not become ready, users need not call
anything. Consumers are taken to read their channels as long as they are registered,
in EventDispatcher_publish only. In the LazyRef run a Close that was begun goes on.

## 4. What a reader of the code might not expect

While the models were built TLC, or the translation itself, showed behaviours that a
reader of the code, or of its comments, might not expect. The models have them, and
the properties above are stated around them, so that none is hidden by a guard.

Connections and events
* `connector.go:80,279`: Close while a dial waits for its connection; the dial then
  starts a janitor whose channels are closed, and its send panics. Two Closes at once
  close a channel twice. A connection released while the janitor leaves stays idle
  until the next dial; a failing dial can drop the name of a newer connection.
* `eventserviceref.go:63`: the idle timer fires while the client has registrations,
  so the client is kept but the lazy reference forgets its value; Close then runs no
  finalizer and the client stays connected (run EventClientRef_close). A reference can
  hand out a client that has stopped itself; a registration made during the idle check
  is closed with it.
* A dispatcher that stops leaves what is behind its StopEvent unanswered
  (`events/service/dispatcher/dispatcher.go:122-146`), while `CloseIfIdle`
  (`events/client/client.go:114-120`) and the Register calls
  (`events/service/service.go:165-262`) wait without a timeout. A client that closes
  itself while it is asked whether it is idle leaves the finalizer waiting under the lock
  of the lazy reference: Gets and Close of the reference hang. A transaction or a
  deployment that registers for its status then never ends; only the caller of the
  channel client returns, at its deadline.
* `client.go:391`: a connection that breaks while the client is still connecting sets
  the state to Disconnected; the connect reports success, and nobody reconnects.
* `deliverclient.go:139`: a reconnect that finds no block received asks for the newest
  although a block of the old stream is still under way; the blocks between the two
  are never delivered.
* A Get that overtakes Close leaves a value unfinalized; a value can expire just after
  it was read; a cache that is closed during an initialisation does not close the
  value. Close of an event client can leave a stream opened by a reconnect in flight,
  or panic on the subscriber's channel; an unregister by key can close another
  registration's channel; block 0 is published again after a transfer; with an
  infinite consumer timeout a consumer that unregisters while its channel is full
  blocks the dispatcher; a call to a dispatcher that stops may never return.

Transactions and administration
* A retry makes a new transaction, so an orderer that was lost after it took the
  envelope (`orderer.go:291-315`) can lead to two valid ones. A stream that ends
  without a status counts as success.
* The status channel closed by a stopping event service gives a nil event, which
  `txnhandler.go:211` and `resmgmt.go:863` dereference; `EndorsementHandler` does so
  with the proposal when its creation failed (`txnhandler.go:58`).
* Several failing endorsers greylist nobody, a wrapped multi error is retried or not
  as a whole, and a retry keeps the invocation chain found before.
* `JoinChannel` and `SaveChannel` repeated after a partial success, and a deployment,
  approval or commit repeated after its answer was lost, are refused for ever, as the
  client does not look whether they were done; `InstallCC` drops all responses when one peer fails; a default filter is not
  applied when the request has one; no targets at all is no error
  (`resmgmt.go:293`); `LastConfigFromOrderer` dereferences a nil block
  (`resource.go:155,166`); the lifecycle's install and queries pass no retry options.

Whom to ask
* AND of two principals of one organisation asks one peer; `ccpolicyprovider.go:75`
  looks a policy up under another key than it stores it; the round robin of
  `lbpolicyimpl.go:55` is unsynchronised and that of `rollingcounter.go:33` panics
  without a usable peer; two endpoints mapped to one URL put an endorser in twice;
  `localservice.go:93` and the discovery client (`client.go:482`) index what an answer
  may lack.
* `QueryConfigBlock` (`client/ledger/ledger.go:334-344`) uses a verifier that matches
  nothing, so its minimum of targets has no effect; queries of the channel
  configuration do not verify signatures (`responsevalidator.go:22`); block
  comparison looks at the data alone; capabilities of nested groups are kept under
  the last name (`chconfig.go:504-515`), and versions compare as strings, so that a
  channel of V1_10 is taken not to support V1_2 (`chconfig.go:121`); a number of two
  digits is outside what LedgerAgreed promises.

* The lag threshold of a channel's SelectionPolicy (`providers/fab/network.go:89-94`) is
  not handed to the sorter (`selectionfilter.go:52-61`), whose default of 5 is always
  used.
* A reconnect threshold of 0 is documented to turn the check off
  (`providers/fab/network.go:210-212`, `minblockheight/opts.go:54`); in the configuration
  it becomes the default of 10, and as an option of the client it is the strictest. An
  event client may be told to leave the peer it was just sent to, and so reconnect again
  and again: when it asks for old blocks (`minblockheight.go:66-72,117-126`), when its lag
  threshold is above its reconnect threshold, or when it prefers a peer of another org
  (`preferpeer.go:86`). `Steady` in PeerResolver lists the settings without this.
* A discovery request that was cancelled counts as one without an error
  (`fab/discovery/discovery.go:94-100`); its response is nil, and reading it panics.

Configuration, identities, keys
* `_default`'s lag threshold is not inherited (`endpointconfig.go:743`), and a
  `_default` with no discovery retries loses the SDK's (`:1020`); a channel that is
  mapped to an unknown name has a configuration and no peers (`:261,274`); an endpoint
  ignored by its name is found by its URL (`:1474`); default peers without a map panic
  (`:956,1093`).
* `identityconfig.go:522` writes into a map that CAs share; the user store writes
  non-atomically, so a failed write of a certificate loses the one before; a lost answer spends an enrolment; two calls may both enrol the
  registrar (`caclient.go:494-508`); the store keeps a revoked certificate; an embedded
  key without certificate may be paired with a stored one it does not belong to
  (`getsigid.go:127`).
* A root that is not self-signed panics (`mspimpl.go:813`); an admin that is
  listed keeps its role with node OUs although it was revoked:
  `mspimpl.go:659-661` says that admins were validated at setup, and `postSetupV142`
  (`mspimplsetup.go:664-671`) looks at their unit alone; two MSPs of one name
  override each other silently (`mspmgrimpl.go:61`).
* `CreateAnchorPeersUpdate` takes the version of Application to be 1
  (`configtx.go:152`); `CreateConfigUpdateEnvelope` and its reader disagree about the
  type (`resource/config.go:154`); `txn.New` does not compare response payloads,
  `CreateSignedTx` does.
* PKCS11: two early returns of `validateSession` keep the read lock
  (`contextHandle.go:503-517`), and CloseSession takes none (`:162`); after a reload a
  thread that holds on to an old session may use, and return, the number of another
  thread's new one; a failed login leaks its session;
  the cache of contexts ignores the pin (`:754`).
* A public key stored with the SKI of a private one hides it (`fileks.go:244-261`), and
  a shorter identity written over a longer one in a file wallet cannot be read
  (`filesystemwallet.go:48`).
* `certpool.go:58-101` (not modelled): Get clears the flag before it swaps the pool, so
  another Get may return a pool without certificates that were added before.

## 5. The proofs

Each theorem holds for every value of the constants that the named ASSUMEs of its
module allow: any sets of goroutines, targets, keys, peers, users, blocks and so on,
any buffers, and any value of the bounds that TLC needs. All are checked by TLAPS to
the last leaf. "Run" says that a run checks the same formula on a small instance.

| Module | Theorem | Statement | Run |
|---|---|---|---|
| CachingConnectorProofs | Invariant | `Spec => []IInv` | yes |
| | TypeCorrect, RefCountCorrect, NothingLeaks, CacheIsConsistent, OneJanitor | `Spec => []` TypeOK, RefCount, NoLeak, CacheConsistent, OneToken | in IInv |
| | SweepIsSafe | `Spec => SweepSparesUsed`, an action property | yes |
| LazyProofs | Invariant | `Spec => []IInv` | yes |
| | TypeCorrect, FinalizedAtMostOnce, NoValueIsLost, ClosedMeansQuiet | `Spec => []` TypeOK, FinalizedOnce, ExpiredIsFinalized, ClosedIsQuiet | in IInv |
| | NoLateStart | `Spec => NoStartAfterNotify`, an action property | |
| | ClientRefRefines | `ClientSpec => Spec`: EventClientRef implements LazyRef | |
| | ClientRefInvariant | `ClientSpec => []IInv` | yes |
| | ClientNeverOrphaned | `ClientSpec => []NoOrphanClient` | yes |
| | LazyCacheSound | `CacheSpec => []CacheSound` | yes |
| EventClientProofs | EventClientInvariant | `Spec => []IInv` | |
| | NoSecondStream | `Spec => []OneConnection` | yes |
| | BlocksInOrder | `Spec => []PublishedInOrder` | yes |
| | LossesHeard | `Spec /\ []RoomForLoss => []NoSilentLoss` | yes |
| EventDispatcherProofs | DispatcherInvariant | `Spec => []IInv` | |
| | NeverPanics | `Spec => []NoPanic` | yes |
| | RegistrationOwnedOnce | `Spec => []OwnedOnce` | yes |
| | EventsInOrder | `Spec => []InOrder` | yes |
| | OneServiceSendsExactly | `Spec => []SentExactly` if `Services = 1` and `InfoOnlyOptions = {FALSE}` | yes |
| TransactionProofs | EnvelopesWellEndorsed | `Spec => []WellEndorsed` | yes |
| | CommitsHeard | `Spec => []NoCommitMissed` | yes |
| | CallKeepsContract | `Spec => KeepsContract`: Transaction implements ExecuteContract | yes |
| ResMgmtProofs | AdminTruthful | `Spec => []Truthful` | yes |
| | ConfigIsFresh | `Spec => []ConfigFresh` | yes |
| IdentityProofs | SignsAsItself | `Spec => []SignsAsUser` | yes |
| | EnrolledCanSign | `Spec => []EnrolledUsable` | yes |
| SessionPoolProofs | KeysOfContext | `Spec => []KeysCurrent` | yes |
| | SessionsExclusive | `Spec => []Exclusive`: OneHolder and SharedIsStale | yes |

Every proof has the same shape: an inductive invariant `IInv` at the head of the
module, lemmas about the operators, one lemma or step for each action that shows
`IInv'`, and a temporal step that puts them together. TLC checked every `IInv` on the
instances of section 3 before it was proved. None of the properties is inductive;
what the invariants add, and why:

*CachingConnector.* `Fresh` (a connection not yet made is in no map and has no
users), `HeldExists` (a thread that dials or uses has a connection that was made)
and `ChannelsClosed` (only Close closes the janitor's channels). The open count is a
cardinality over the threads, which are therefore finite (`ThreadsAssumption`), and
its proof rests on lemmas about one more and one less element of a finite set.

*LazyRef.* `TimerRuns` (the running flag says whether a timer is past its start),
`OneCloser` (one Close gets past the check of the flag), `MadeFirst`,
`FinalizedLast` and `FinalizedFirst` (where a value that is still set may have been
finalized). EventClientRef needs none of its own: its steps are shown to be steps of
LazyRef, or to leave it alone, so all that is proved of the reference holds of the
one an event client lives behind.

*LazyCache.* `Owners` (an entry that is not set has one owner, who works on an entry
it stored itself), `Kept` (while nobody deletes, every entry that did not fail is
in the map) and `Room`: the bound on the futures is not reached with an entry
half made, which again counts goroutines (`GettersAssumption`).

*EventClient.* That the blocks are in order is one comparison in the code; that none
is left out is not, since the streams of several connections feed one queue, and a
seek asked for before a block was handled starts a stream after it. `Consecutive`
says of every block on its way, in a stream, in the hand of a receiver or in the
queue, that the block before it has been handled or is ahead of it; `SeeksInTime`
and `OneStream` say why a reconnect keeps that, `UserFirst` that nobody reconnects
before the user's Connect has asked for blocks. All of this holds until a reconnect
asks for the newest block (`fromNewest`, section 4).

That no connection is lost in silence needs the protocol between the goroutines and
the dispatcher, so there is a second invariant, `LossInv`, on top of the first; it is
about a client that is not stopped. One goroutine connects at a time, and none while
the client is connected (`OneActive`); a question in the queue is waited for, answers
go to who asked, and nobody asks twice (`AnswersAwaited`, `AskersWait`, `AskedOnce`).
A connect that gave up on its disconnect leaves it in the queue, where it could take
away the next connection; it is always handled before one is made (`UndoneFirst`). A
stream that ended has left word in the queue or its receiver holds it (`EndKnown`),
and when the connection is gone while the client is connected, or just about to be,
word of it is on its way (`LossHeard`). The names of the goroutines that connect
differ from those the model gives Close and "nobody" (`NamesAssumption`).

The theorem has one hypothesis, `RoomForLoss`: the channel of connection events is not
full of "connected" events and nothing else. It cannot do without: the dispatcher drops
an event for a full channel, and with `ConsumerBuffer = 1` TLC finds a client that is
told "connected", loses the connection before the monitor looks, and never hears of it.
A larger buffer only takes more events: each late loss of an earlier stream makes the
monitor reconnect, which finds the connection and tells "connected" again; TLC finds
the same with buffers of 2 and 3. What the theorem shows is that this drop, which the code logs, is the only way to lose a
connection in silence. In the run, with a buffer of 8, the hypothesis holds in every
state, so the run checks the conclusion itself. TLC checked `LossInv` on three
instances completely (559,853, 451,992 and 5,731,785 states).

*EventDispatcher.* A registration is not added twice because its caller waits for
the one register event there is (`Awaiting`); a snapshot is not overwritten because
the mover waits for one event (`OneAnswer`, `Moving`); a channel is open when an
event is sent to it because the dispatcher handles nothing else meanwhile (`Held`
with `Publishing`). `OInv` adds, for the order, that whoever holds a registration, a
dispatcher or the snapshot, has a last block that is not before any the registration
was sent (`Known`), and counts the loops of the block under way that have an event
for it against those it was sent (`SentSoFar`); an injection of loops into
transactions bounds that count by what is due. The proof needs what the code gets
from having two maps, that a transaction ID is never the key of a chaincode event
(`KeysAssumption`). `EInv` is for exactness: the blocks in the queue of a dispatcher
leave no gap after its last block, and the next one the event server sends makes
none (`Gapless`), so the block that is handled is the one after the last; and a
registration was sent what is due up to there, and of the block under way one event
for each loop so far that wants it (`Exact`). It is stated for one service that
publishes the first block too, and is not true otherwise: the next service may be
asked to start with a later block and publishes block 0 again (section 4), and
`UpdateLastBlockInfoOnly` leaves the first block out on purpose. TLC checked `EInv`
on the run's instance and on one of 2,914,778 states.

*Transaction.* `Control` (how far the call is), `Notified` (the registration is open
from before the broadcast until the handler ends, and its channel holds the first
code), `OwnOnly`, `NoneBehind` (a transaction that is not in doubt and ordered or
valid is the last one, and the call waits for it or gave up) and `Covered` (the
endorsements collected so far, with those asked for, are of every organisation that
one payload among them needs). `CallKeepsContract` shows that the initial states map
to initial states of ExecuteContract, and each step to one of its steps or a stutter.

*ResMgmt.* A result is reported at the end of a call and is about all of its steps,
while other administrators go on and the transaction of a call that gave up may still
be committed. `NoneSkipped` says at every step what the ones before achieved: as long
as there is no error, the targets that were asked have joined, or have the chaincode,
or are on the list of those that are to get it. `StatusTrue` says that a status that
waits and says "valid" is of this call's transaction, `Control` which request each step
belongs to, and `ConfigReads` that the number of the config block was read from a
newest block of the same call.

*Identity.* `Stored` (the store has certificates whose keys are kept, or what a
writer left unfinished or a failed write damaged), `Asking` (what a goroutine holds at each place of a call)
and `Enrolled` (whoever was told that a user is enrolled finds a certificate, if
only one that is just being replaced or was damaged by a failed write).

*SessionPool.* `Lifecycle` (who recovers the handle has the lock for writing) and
`Known` (every session in use or in the pool was given out by the token in this or
an earlier context), so that a new session differs from all of them although its
number may not. It follows that two goroutines with one number hold sessions of
different contexts, so at least one of them holds a session that a recovery has ended
(`SharedIsStale`); that they never share a number is not true (section 4).

Only model-checked:

* all liveness properties, since fairness and ENABLED are out of the prover's reach;
* the promises of the algorithms (run Algorithms: EndorsersServe, PeersTrue,
  ConfigurationTrue, StoresTrue, MembersSound, LedgerAgreed, MessagesTrue,
  UpdatesExact). They compare what a definition computes with a reference over every
  input, which needs induction over the inputs; and MCAlgorithms, which states them,
  instantiates PeerGroups and ConfigUpdate with their RECURSIVE operators;
* `NoSilentLoss` where `RoomForLoss` does not hold: there it is false;
* `CloseCloses`, which TLC refutes.

Every other invariant and every other safety property that a run checks is stated by a
theorem.

The type invariants of EventClient, EventClientRef, EventDispatcher and SessionPool
document their variables; no run lists them, and the proofs have weaker ones of
their own (`Types`) that say what they need.

## 6. What is not modelled

Cryptography, the wire formats of protocol buffers, packaging, logging and metrics are
data or I/O. The context cache and the channel provider only say which lazy caches
exist; the SDK object is construction and wiring; connections to the gateway pass
calls on. The TLS certificate pool is described in section 4. Of code pinned
from other repositories (`internal/`, `third_party/`) what the SDK calls is
modelled: discovery client, MSP, policies, configuration updates, envelopes, key
store, PKCS11, CA client; idemix, protocol buffers and helpers are not.
`ReloadPKCS11ContextHandle`, which finalizes a context that others may be using, is
not modelled, nor is the expiry of pauses between retries.

## 7. The plan

1. *Done:* the state machines and algorithms of section 2 and the theorems of
   section 5, among them the two refinements.
2. Context cache and channel provider as a composition of LazyCache and
   EventClientRef; connections on top of the connector, with the error paths that
   forget to release; the TLS certificate pool.
