------------------------------ MODULE LazyRef ------------------------------
(***************************************************************************)
(* The lazily initialised, expiring reference of                           *)
(* pkg/util/concurrent/lazyref/lazyref.go.                                 *)
(*                                                                         *)
(* Get initialises the value on first use, under r.lock; a timer goroutine *)
(* resets (and finalizes) the value when it expires, or refreshes it;      *)
(* Close stops the timer and finalizes what is left.                       *)
(*                                                                         *)
(* A section under r.lock is one action, except that an expiry calls the   *)
(* finalizer and clears the pointer in two steps, because Get reads the    *)
(* pointer without the lock: the timer then holds the lock while it is at  *)
(* "resetting".  Values are numbered in the order they are made; 0 is nil. *)
(***************************************************************************)
EXTENDS Naturals

CONSTANTS
    Threads,    \* goroutines that call Get
    Closers,    \* goroutines that call Close
    MaxValues   \* bound on the number of values the initializer makes

ASSUME MaxValuesAssumption == MaxValues \in Nat

VARIABLES
    config,     \* the options of the reference: [expiry, finalizer]
    ref,        \* r.ref: the current value, 0 for nil
    made,       \* how many values the initializer has made
    finalized,  \* how often the finalizer was called on each value
    recent,     \* r.lastTimeAccessed lies less than the expiration time back
    closed,     \* r.closed
    running,    \* r.running
    closech,    \* r.closech, of capacity 1, holds a value
    starting,   \* number of goroutines at the start of checkTimeStarted
    timer,      \* where the running timer is
    getting,    \* where each thread is in Get
    closing     \* where each closer is in Close

vars == <<config, ref, made, finalized, recent, closed, running, closech,
          starting, timer, getting, closing>>

Values == 1..MaxValues
ExpiryTypes == {"Never", "LastAccessed", "LastInitialized", "Refreshing"}

TypeOK ==
    /\ config \in [expiry : ExpiryTypes, finalizer : BOOLEAN]
    /\ made \in 0..MaxValues
    /\ ref \in 0..made
    /\ finalized \in [Values -> Nat]
    /\ recent \in BOOLEAN /\ closed \in BOOLEAN /\ running \in BOOLEAN /\ closech \in BOOLEAN
    /\ starting \in Nat
    /\ timer \in {"off", "select", "expired", "resetting", "stopping"}
    /\ getting \in [Threads -> {"out", "open", "missed"}]
    /\ closing \in [Closers -> {"out", "notify", "wait", "finalize", "returned", "alreadyClosed"}]

\* NewWithData.  A reference with an initial delay starts its timer at once.
Init ==
    /\ config \in [expiry : ExpiryTypes, finalizer : BOOLEAN]
    /\ ref = 0 /\ made = 0
    /\ finalized = [v \in Values |-> 0]
    /\ closed = FALSE /\ running = FALSE /\ closech = FALSE
    /\ starting \in IF config.expiry = "Never" THEN {0} ELSE {0, 1}
    /\ recent = (starting = 1)
    /\ timer = "off"
    /\ getting = [p \in Threads |-> "out"]
    /\ closing = [k \in Closers |-> "out"]

isSet == ref # 0

\* r.lock is free: only an expiry keeps it from one step to the next.
Unlocked == timer # "resetting"

\* ensureTimerStarted, called by the initializer of an expiring reference.
EnsureTimerStarted ==
    starting' = IF config.expiry = "Never" \/ running THEN starting ELSE starting + 1

\* A successful call of the initializer, followed by set.
Initialize ==
    /\ made < MaxValues
    /\ made' = made + 1
    /\ ref' = made + 1
    /\ EnsureTimerStarted

\* The finalizer, if there is one, is called on the current value.
Finalize ==
    finalized' = IF config.finalizer THEN [finalized EXCEPT ![ref] = @ + 1] ELSE finalized

-----------------------------------------------------------------------------
(* Get                                                                     *)

\* The check of IsClosed.
GetStart(p) ==
    /\ getting[p] = "out" /\ ~closed
    /\ getting' = [getting EXCEPT ![p] = "open"]
    /\ UNCHANGED <<config, ref, made, finalized, recent, closed, running, closech, starting,
                   timer, closing>>

\* The attempt outside of the lock.
GetFast(p) ==
    /\ getting[p] = "open"
    /\ recent' = TRUE
    /\ getting' = [getting EXCEPT ![p] = IF isSet THEN "out" ELSE "missed"]
    /\ UNCHANGED <<config, ref, made, finalized, closed, running, closech, starting, timer, closing>>

\* The section under the lock: another thread was faster, or the initializer
\* runs and succeeds or fails.
GetLocked(p) ==
    /\ getting[p] = "missed" /\ Unlocked
    /\ getting' = [getting EXCEPT ![p] = "out"]
    /\ recent' = TRUE
    /\ \/ ~isSet /\ Initialize
       \/ UNCHANGED <<ref, made, starting>>
    /\ UNCHANGED <<config, finalized, closed, running, closech, timer, closing>>

-----------------------------------------------------------------------------
(* The timer: checkTimeStarted                                             *)

\* setTimerRunning.
TimerStart ==
    /\ starting > 0 /\ Unlocked
    /\ starting' = starting - 1
    /\ \/ ~running /\ ~closed /\ running' = TRUE /\ timer' = "select"
       \/ (running \/ closed) /\ UNCHANGED <<running, timer>>
    /\ UNCHANGED <<config, ref, made, finalized, recent, closed, closech, getting, closing>>

\* The time is up: does this expiry have to be handled?  The answer is used
\* later, under the lock.
TimerFires ==
    /\ timer = "select"
    /\ config.expiry = "Refreshing" \/ isSet
    /\ config.expiry = "LastAccessed" => ~recent
    /\ timer' = "expired"
    /\ UNCHANGED <<config, ref, made, finalized, recent, closed, running, closech, starting,
                   getting, closing>>

\* handleExpiration of a refreshing reference: refreshValue.
RefreshValue ==
    /\ timer = "expired" /\ config.expiry = "Refreshing"
    /\ timer' = "select"
    /\ \/ Initialize
       \/ UNCHANGED <<ref, made, starting>>
    /\ UNCHANGED <<config, finalized, recent, closed, running, closech, getting, closing>>

\* handleExpiration of the other references: resetValue calls the finalizer
\* (r.get touches lastTimeAccessed) ...
ResetValue ==
    /\ timer = "expired" /\ config.expiry # "Refreshing"
    /\ timer' = "resetting"
    /\ Finalize
    /\ recent' = (config.finalizer \/ recent)
    /\ UNCHANGED <<config, ref, made, closed, running, closech, starting, getting, closing>>

\* Slip: the pointer is left in place.
ClearValue_Keeps ==
    /\ timer = "resetting"
    /\ timer' = "select"
    /\ UNCHANGED <<config, ref, made, finalized, recent, closed, running, closech, starting,
                   getting, closing>>

\* ... and then clears the pointer.
ClearValue ==
    /\ timer = "resetting"
    /\ ref' = 0
    /\ timer' = "select"
    /\ UNCHANGED <<config, made, finalized, recent, closed, running, closech, starting,
                   getting, closing>>

\* The close event ends the loop ...
TimerClosed ==
    /\ timer = "select" /\ closech
    /\ closech' = FALSE
    /\ timer' = "stopping"
    /\ UNCHANGED <<config, ref, made, finalized, recent, closed, running, starting, getting, closing>>

\* ... and the deferred setTimerStopped runs.
TimerStopped ==
    /\ timer = "stopping"
    /\ timer' = "off"
    /\ running' = FALSE
    /\ UNCHANGED <<config, ref, made, finalized, recent, closed, closech, starting, getting, closing>>

\* The clock: the expiration time has gone by since the last access.
TimePasses ==
    /\ recent
    /\ recent' = FALSE
    /\ UNCHANGED <<config, ref, made, finalized, closed, running, closech, starting, timer,
                   getting, closing>>

-----------------------------------------------------------------------------
(* Close                                                                   *)

\* setClosed, by compare-and-swap.
CloseStart(k) ==
    /\ closing[k] = "out"
    /\ closing' = [closing EXCEPT ![k] = IF closed THEN "alreadyClosed" ELSE "notify"]
    /\ closed' = TRUE
    /\ UNCHANGED <<config, ref, made, finalized, recent, running, closech, starting, timer, getting>>

\* Slip: a timer that is handling an expiry is not told.
NotifyClosing_OnlyAtSelect(k) ==
    /\ closing[k] = "notify" /\ Unlocked
    /\ closing' = [closing EXCEPT ![k] = "wait"]
    /\ closech' = (timer = "select")
    /\ UNCHANGED <<config, ref, made, finalized, recent, closed, running, starting, timer, getting>>

\* notifyClosing
NotifyClosing(k) ==
    /\ closing[k] = "notify" /\ Unlocked
    /\ running => ~closech
    /\ closing' = [closing EXCEPT ![k] = "wait"]
    /\ closech' = (closech \/ running)
    /\ UNCHANGED <<config, ref, made, finalized, recent, closed, running, starting, timer, getting>>

\* r.wg.Wait: the counter is 1 exactly while a timer runs.
CloseWait(k) ==
    /\ closing[k] = "wait" /\ ~running
    /\ closing' = [closing EXCEPT ![k] = "finalize"]
    /\ UNCHANGED <<config, ref, made, finalized, recent, closed, running, closech, starting,
                   timer, getting>>

\* finalize, which leaves the pointer in place.
CloseFinalize(k) ==
    /\ closing[k] = "finalize" /\ Unlocked
    /\ closing' = [closing EXCEPT ![k] = "returned"]
    /\ IF isSet THEN Finalize ELSE UNCHANGED finalized
    /\ recent' = ((config.finalizer /\ isSet) \/ recent)
    /\ UNCHANGED <<config, ref, made, closed, running, closech, starting, timer, getting>>

-----------------------------------------------------------------------------
Timer ==
    \/ TimerStart
    \/ TimerFires
    \/ RefreshValue
    \/ ResetValue
    \/ ClearValue
    \/ TimerClosed
    \/ TimerStopped

Closer(k) ==
    \/ CloseStart(k)
    \/ NotifyClosing(k)
    \/ CloseWait(k)
    \/ CloseFinalize(k)

Next ==
    \/ \E p \in Threads : GetStart(p) \/ GetFast(p) \/ GetLocked(p)
    \/ \E k \in Closers : Closer(k)
    \/ Timer
    \/ TimePasses

Spec == Init /\ [][Next]_vars

\* The goroutines run; nobody has to call Get or Close.  The select of the
\* timer is strongly fair to the close event: a pending event is ready the
\* moment the select is entered, the next timeout is not.
Fairness ==
    /\ \A p \in Threads : WF_vars(GetFast(p)) /\ WF_vars(GetLocked(p))
    /\ \A k \in Closers : /\ WF_vars(NotifyClosing(k))
                          /\ WF_vars(CloseWait(k))
                          /\ WF_vars(CloseFinalize(k))
    /\ WF_vars(TimerStart) /\ WF_vars(TimerFires) /\ WF_vars(RefreshValue)
    /\ WF_vars(ResetValue) /\ WF_vars(ClearValue) /\ WF_vars(TimerStopped)
    /\ SF_vars(TimerClosed)
    /\ WF_vars(TimePasses)

FairSpec == Spec /\ Fairness

-----------------------------------------------------------------------------
(* Safety                                                                  *)

\* The finalizer is called at most once on a value, although the timer and
\* Close both call it and the pointer survives Close (resetValue, finalize).
\* The event client, closed by its reference's finalizer, relies on it.
FinalizedOnce == \A v \in Values : finalized[v] <= 1

\* A value that expired was finalized before it was replaced, so nothing it
\* owns is lost ("An optional Finalizer function may be provided to be invoked
\* whenever the Reference is closed or if it expires").  Refreshing references
\* are documented not to finalize the values they replace.
ExpiredIsFinalized ==
    config.finalizer /\ config.expiry # "Refreshing" =>
        \A v \in 1..made : v # ref => finalized[v] = 1

\* When Close has returned there is no timer any more: no refresh, no second
\* finalizer call and no goroutine outlives the reference, even one that was
\* being started (setTimerRunning) while Close was under way.
ClosedIsQuiet ==
    (\E k \in Closers : closing[k] \in {"finalize", "returned"}) => timer = "off" /\ ~running

\* wg.Add never races wg.Wait: no timer starts once Close has told the timer to
\* stop (setTimerRunning checks IsClosed under the lock notifyClosing takes).
NoStartAfterNotify ==
    [][~running /\ running' => \A k \in Closers : closing[k] \in {"out", "notify", "alreadyClosed"}]_vars

-----------------------------------------------------------------------------
(* The inductive invariant                                                 *)

\* The running flag tells whether there is a timer.
TimerRuns == running <=> timer # "off"

\* Whoever is in Close has set the closed flag, and only one of them goes on.
OneCloser ==
    /\ \A k \in Closers : closing[k] # "out" => closed
    /\ \A k, l \in Closers :
          closing[k] \notin {"out", "alreadyClosed"} /\ closing[l] \notin {"out", "alreadyClosed"} => k = l

\* Only values that were made are finalized.
MadeFirst == \A v \in Values : v > made => finalized[v] = 0

\* The current value is finalized when it is about to be cleared, or by a Close
\* that is over.
FinalizedLast ==
    isSet /\ finalized[ref] # 0 => timer = "resetting" \/ \E k \in Closers : closing[k] = "returned"

\* A value about to be cleared has been finalized.
FinalizedFirst == timer = "resetting" /\ config.finalizer /\ isSet => finalized[ref] = 1

IInv ==
    /\ TypeOK
    /\ FinalizedOnce /\ ExpiredIsFinalized /\ ClosedIsQuiet
    /\ TimerRuns /\ OneCloser /\ MadeFirst /\ FinalizedLast /\ FinalizedFirst
=============================================================================
