----------------------------- MODULE LazyCache -----------------------------
(***************************************************************************)
(* The lazily initialising cache of                                        *)
(* pkg/util/concurrent/lazycache/lazycache.go, with the future values of   *)
(* pkg/util/concurrent/futurevalue/futurevalue.go it is made of.           *)
(*                                                                         *)
(* There is no lock around the cache: each operation on the sync.Map, each *)
(* read of a future's pointer and each call of the initializer or of a     *)
(* value's Close is an action.  A future is created locked and is set by   *)
(* the one thread whose LoadOrStore put it into the map; the others wait.  *)
(*                                                                         *)
(* Futures are numbered in the order they enter the map; 0 is "no entry".  *)
(* The values stored implement Close.                                      *)
(***************************************************************************)
EXTENDS Naturals, FiniteSets

CONSTANTS
    Keys,
    Getters,        \* goroutines that call Get
    Sweepers,       \* goroutines that call Delete, DeleteAll or Close, once each
    MaxFutures      \* bound on the number of entries made

ASSUME MaxFuturesAssumption == MaxFutures \in Nat

ASSUME GettersAssumption == IsFiniteSet(Getters)

VARIABLES
    m,          \* c.m: key -> future, 0 if there is none
    stored,     \* number of futures stored so far
    future,     \* the state of each future
    keyOf,      \* the key a future was stored for
    timesClosed,\* how often Close was called on a future's value
    cacheClosed,\* c.closed
    pc,         \* where each thread is in Get
    key,        \* the key it asks for
    mine,       \* the future it works with
    sweep,      \* where each sweeper is
    closesCache,\* this sweeper runs Close, not Delete or DeleteAll
    todo,       \* keys the sweeper has yet to visit
    found,      \* keys the sweeper found and will delete
    victim      \* the future it looked up for the key it is visiting

getVars == <<pc, key, mine>>
sweepVars == <<sweep, closesCache, todo, found, victim>>
cacheVars == <<m, stored, future, keyOf, timesClosed, cacheClosed, pc, key, mine,
               sweep, closesCache, todo, found, victim>>

Futures == 1..MaxFutures

CacheTypeOK ==
    /\ stored \in 0..MaxFutures
    /\ m \in [Keys -> 0..stored]
    /\ future \in [Futures -> {"unset", "value", "error"}]
    /\ keyOf \in [1..stored -> Keys]
    /\ timesClosed \in [Futures -> Nat]
    /\ cacheClosed \in BOOLEAN
    /\ pc \in [Getters -> {"out", "store", "init", "set", "remove", "wait"}]
    /\ key \in [Getters -> Keys]
    /\ mine \in [Getters -> 0..stored]
    /\ sweep \in [Sweepers -> {"out", "visit", "close", "delete", "returned"}]
    /\ closesCache \in [Sweepers -> BOOLEAN]
    /\ todo \in [Sweepers -> SUBSET Keys]
    /\ found \in [Sweepers -> SUBSET Keys]
    /\ victim \in [Sweepers -> 0..stored]

CacheInit ==
    /\ stored = 0
    /\ m = [k \in Keys |-> 0]
    /\ future = [f \in Futures |-> "unset"]
    /\ keyOf = [f \in {} |-> 0]
    /\ timesClosed = [f \in Futures |-> 0]
    /\ cacheClosed = FALSE
    /\ pc = [p \in Getters |-> "out"]
    /\ key \in [Getters -> Keys]
    /\ mine = [p \in Getters |-> 0]
    /\ sweep = [s \in Sweepers |-> "out"]
    /\ closesCache = [s \in Sweepers |-> FALSE]
    /\ todo = [s \in Sweepers |-> {}]
    /\ found = [s \in Sweepers |-> {}]
    /\ victim = [s \in Sweepers |-> 0]

-----------------------------------------------------------------------------
(* Get                                                                     *)

\* Load.  The bound on the number of entries is applied here, so that a Get
\* that was called can always finish.
GetLoad(p, k) ==
    /\ pc[p] = "out"
    /\ m[k] # 0 \/ stored + Cardinality({q \in Getters : pc[q] = "store"}) < MaxFutures
    /\ key' = [key EXCEPT ![p] = k]
    /\ mine' = [mine EXCEPT ![p] = m[k]]
    /\ pc' = [pc EXCEPT ![p] = IF m[k] # 0 THEN "wait" ELSE "store"]
    /\ UNCHANGED <<m, stored, future, keyOf, timesClosed, cacheClosed, sweepVars>>

\* LoadOrStore: another thread was faster, or the new future is in the map.
GetStore(p) ==
    /\ pc[p] = "store"
    /\ \/ /\ m[key[p]] # 0
          /\ mine' = [mine EXCEPT ![p] = m[key[p]]]
          /\ pc' = [pc EXCEPT ![p] = "wait"]
          /\ UNCHANGED <<m, stored, keyOf>>
       \/ /\ m[key[p]] = 0
          /\ stored' = stored + 1
          /\ m' = [m EXCEPT ![key[p]] = stored + 1]
          /\ keyOf' = [f \in 1..(stored + 1) |-> IF f = stored + 1 THEN key[p] ELSE keyOf[f]]
          /\ mine' = [mine EXCEPT ![p] = stored + 1]
          /\ pc' = [pc EXCEPT ![p] = "init"]
    /\ UNCHANGED <<future, timesClosed, cacheClosed, key, sweepVars>>

\* Slip: a future that cannot be initialised stays locked.
GetInit_ForgetsError(p) ==
    /\ pc[p] = "init"
    /\ pc' = [pc EXCEPT ![p] = IF cacheClosed THEN "remove" ELSE "set"]
    /\ UNCHANGED <<m, stored, future, keyOf, timesClosed, cacheClosed, key, mine, sweepVars>>

\* Initialize: the wrapped initializer looks at the closed flag first.
GetInit(p) ==
    /\ pc[p] = "init"
    /\ IF cacheClosed
       THEN /\ future' = [future EXCEPT ![mine[p]] = "error"]
            /\ pc' = [pc EXCEPT ![p] = "remove"]
       ELSE /\ pc' = [pc EXCEPT ![p] = "set"]
            /\ UNCHANGED future
    /\ UNCHANGED <<m, stored, keyOf, timesClosed, cacheClosed, key, mine, sweepVars>>

\* Slip: a failed entry is left in the cache.
GetSet_KeepsError(p) ==
    /\ pc[p] = "set"
    /\ \E r \in {"value", "error"} : future' = [future EXCEPT ![mine[p]] = r]
    /\ pc' = [pc EXCEPT ![p] = "out"]
    /\ UNCHANGED <<m, stored, keyOf, timesClosed, cacheClosed, key, mine, sweepVars>>

\* The initializer returns, the future is set and unlocked.
GetSet(p) ==
    /\ pc[p] = "set"
    /\ \E r \in {"value", "error"} :
          /\ future' = [future EXCEPT ![mine[p]] = r]
          /\ pc' = [pc EXCEPT ![p] = IF r = "value" THEN "out" ELSE "remove"]
    /\ UNCHANGED <<m, stored, keyOf, timesClosed, cacheClosed, key, mine, sweepVars>>

\* "Failed. Delete the key."  Whatever entry the key has by now.
GetRemove(p) ==
    /\ pc[p] = "remove"
    /\ m' = [m EXCEPT ![key[p]] = 0]
    /\ pc' = [pc EXCEPT ![p] = "out"]
    /\ UNCHANGED <<stored, future, keyOf, timesClosed, cacheClosed, key, mine, sweepVars>>

\* Value.Get of the entry of another thread: waits until it is set.
GetWait(p) ==
    /\ pc[p] = "wait" /\ future[mine[p]] # "unset"
    /\ pc' = [pc EXCEPT ![p] = "out"]
    /\ UNCHANGED <<m, stored, future, keyOf, timesClosed, cacheClosed, key, mine, sweepVars>>

-----------------------------------------------------------------------------
(* Delete, DeleteAll and Close: look an entry up, close its value, and     *)
(* delete the key.  DeleteAll visits all keys before it deletes any.       *)

SweepStart(s, K, close) ==
    /\ sweep[s] = "out"
    /\ closesCache' = [closesCache EXCEPT ![s] = close]
    /\ todo' = [todo EXCEPT ![s] = K]
    /\ sweep' = [sweep EXCEPT ![s] = "visit"]
    /\ UNCHANGED <<m, stored, future, keyOf, timesClosed, getVars, found, victim>>

Delete(s, k) == SweepStart(s, {k}, FALSE) /\ UNCHANGED cacheClosed

DeleteAll(s) == SweepStart(s, Keys, FALSE) /\ UNCHANGED cacheClosed

\* Close: compare-and-swap, then DeleteAll.
Close(s) == ~cacheClosed /\ cacheClosed' = TRUE /\ SweepStart(s, Keys, TRUE)

\* Load, or the next entry of Range.
SweepVisit(s, k) ==
    /\ sweep[s] = "visit" /\ k \in todo[s]
    /\ todo' = [todo EXCEPT ![s] = @ \ {k}]
    /\ \/ /\ m[k] # 0
          /\ victim' = [victim EXCEPT ![s] = m[k]]
          /\ found' = [found EXCEPT ![s] = @ \cup {k}]
          /\ sweep' = [sweep EXCEPT ![s] = "close"]
       \/ /\ m[k] = 0
          /\ UNCHANGED <<victim, found, sweep>>
    /\ UNCHANGED <<m, stored, future, keyOf, timesClosed, cacheClosed, getVars, closesCache>>

\* close: an entry that is not set is passed over.
SweepClose(s) ==
    /\ sweep[s] = "close"
    /\ timesClosed' = IF future[victim[s]] = "value"
                      THEN [timesClosed EXCEPT ![victim[s]] = @ + 1]
                      ELSE timesClosed
    /\ sweep' = [sweep EXCEPT ![s] = "visit"]
    /\ UNCHANGED <<m, stored, future, keyOf, cacheClosed, getVars, closesCache,
                   todo, found, victim>>

\* All keys are visited: delete the ones found, one by one.
SweepVisited(s) ==
    /\ sweep[s] = "visit" /\ todo[s] = {}
    /\ sweep' = [sweep EXCEPT ![s] = IF found[s] = {} THEN "returned" ELSE "delete"]
    /\ UNCHANGED <<m, stored, future, keyOf, timesClosed, cacheClosed, getVars, closesCache,
                   todo, found, victim>>

SweepDelete(s, k) ==
    /\ sweep[s] = "delete" /\ k \in found[s]
    /\ m' = [m EXCEPT ![k] = 0]
    /\ found' = [found EXCEPT ![s] = @ \ {k}]
    /\ sweep' = [sweep EXCEPT ![s] = IF found[s] = {k} THEN "returned" ELSE "delete"]
    /\ UNCHANGED <<stored, future, keyOf, timesClosed, cacheClosed, getVars, closesCache, todo, victim>>

-----------------------------------------------------------------------------
Get(p) ==
    \/ \E k \in Keys : GetLoad(p, k)
    \/ GetStore(p)
    \/ GetInit(p)
    \/ GetSet(p)
    \/ GetRemove(p)
    \/ GetWait(p)

Sweep(s) ==
    \/ \E k \in Keys : Delete(s, k) \/ SweepVisit(s, k) \/ SweepDelete(s, k)
    \/ DeleteAll(s)
    \/ Close(s)
    \/ SweepClose(s)
    \/ SweepVisited(s)

CacheNext == (\E p \in Getters : Get(p)) \/ (\E s \in Sweepers : Sweep(s))

CacheSpec == CacheInit /\ [][CacheNext]_cacheVars

\* A Get that was called goes on; initializers return.
CacheFairness ==
    \A p \in Getters : /\ WF_cacheVars(GetStore(p)) /\ WF_cacheVars(GetInit(p))
                       /\ WF_cacheVars(GetSet(p)) /\ WF_cacheVars(GetRemove(p))
                       /\ WF_cacheVars(GetWait(p))

CacheFairSpec == CacheSpec /\ CacheFairness

-----------------------------------------------------------------------------
(* Properties                                                              *)

\* Every future that is not set has exactly one thread about to set it, and it
\* is the one that stored it: the code's rule that Initialize is called once,
\* without which the waiters of futurevalue.Get would never wake.
InitOwned ==
    \A f \in 1..stored : future[f] = "unset" =>
        Cardinality({p \in Getters : pc[p] \in {"init", "set"} /\ mine[p] = f}) = 1

\* An entry whose initializer failed does not stay: the thread that stored it
\* is about to delete the key ("If the initializer returns an error then the
\* key is removed from the cache").
ErrorLeaves ==
    \A k \in Keys : m[k] # 0 /\ future[m[k]] = "error" =>
        \E p \in Getters : pc[p] = "remove" /\ mine[p] = m[k] /\ key[p] = k

\* As long as nobody deletes entries, a key has at most one value, whatever the
\* interleaving of the Gets and of initializers that fail.
OneValuePerKey ==
    (\A s \in Sweepers : sweep[s] = "out") =>
        \A f, g \in 1..stored :
            future[f] = "value" /\ future[g] = "value" /\ keyOf[f] = keyOf[g] => f = g

\* The cache is sound: its variables have their types, every future is set by
\* its one owner, failed entries leave, and a key has one value.
CacheSound == CacheTypeOK /\ InitOwned /\ ErrorLeaves /\ OneValuePerKey

\* A Get returns, also one that waits for an entry which is deleted, or whose
\* cache is closed, in the meantime.
GetReturns == \A p \in Getters : pc[p] # "out" ~> pc[p] = "out"
=============================================================================
