----------------------------- MODULE LazyProofs -----------------------------
(***************************************************************************)
(* The safety properties of LazyRef, for any number of threads, closers    *)
(* and values, and of the event client behind one (EventClientRef), whose  *)
(* steps are shown to be steps of the reference; and the soundness of      *)
(* LazyCache, the map that such references are kept in, for any keys, any  *)
(* finite number of goroutines that call Get and any number that delete    *)
(* entries or close the cache.                                             *)
(***************************************************************************)
EXTENDS EventClientRef, LazyCache, FiniteSetTheorems, TLAPS

\* A call of the finalizer is counted on one value, if there is one.
LEMMA FinalizeType ==
    ASSUME finalized \in [Values -> Nat], Finalize
    PROVE  finalized' \in [Values -> Nat]
<1>1. CASE ref \in Values
  BY <1>1 DEF Finalize
<1>2. CASE ref \notin Values
  BY <1>2 DEF Finalize
<1> QED
  BY <1>1, <1>2

\* Every step keeps the types.
LEMMA TypeStep ==
    ASSUME TypeOK, [Next]_vars
    PROVE  TypeOK'
<1> USE MaxValuesAssumption DEF MaxValuesAssumption, Values, isSet, TypeOK, ExpiryTypes
<1>1. ASSUME NEW p \in Threads, GetStart(p)
      PROVE  TypeOK'
  BY <1>1 DEF GetStart
<1>2. ASSUME NEW p \in Threads, GetFast(p)
      PROVE  TypeOK'
  BY <1>2 DEF GetFast
<1>3. ASSUME NEW p \in Threads, GetLocked(p)
      PROVE  TypeOK'
  BY <1>3 DEF GetLocked, Initialize, EnsureTimerStarted, Unlocked
<1>4. ASSUME NEW k \in Closers, CloseStart(k)
      PROVE  TypeOK'
  BY <1>4 DEF CloseStart
<1>5. ASSUME NEW k \in Closers, NotifyClosing(k)
      PROVE  TypeOK'
  BY <1>5 DEF NotifyClosing, Unlocked
<1>6. ASSUME NEW k \in Closers, CloseWait(k)
      PROVE  TypeOK'
  BY <1>6 DEF CloseWait
<1>7. ASSUME NEW k \in Closers, CloseFinalize(k)
      PROVE  TypeOK'
  BY <1>7 DEF CloseFinalize, Finalize, Unlocked
<1>8. CASE TimerStart
  <2>1. starting' \in Nat
    BY <1>8 DEF TimerStart
  <2> QED
    BY <1>8, <2>1 DEF TimerStart
<1>9. CASE TimerFires
  BY <1>9 DEF TimerFires
<1>10. CASE RefreshValue
  BY <1>10 DEF RefreshValue, Initialize, EnsureTimerStarted
<1>11. CASE ResetValue
  <2>1. finalized' \in [Values -> Nat]
    BY <1>11, FinalizeType DEF ResetValue
  <2>2. recent' \in BOOLEAN
    BY <1>11 DEF ResetValue
  <2> QED
    BY <1>11, <2>1, <2>2 DEF ResetValue
<1>12. CASE ClearValue
  BY <1>12 DEF ClearValue
<1>13. CASE TimerClosed
  BY <1>13 DEF TimerClosed
<1>14. CASE TimerStopped
  BY <1>14 DEF TimerStopped
<1>15. CASE TimePasses
  BY <1>15 DEF TimePasses
<1>16. CASE UNCHANGED vars
  BY <1>16 DEF vars
<1> QED
  BY <1>1, <1>2, <1>3, <1>4, <1>5, <1>6, <1>7, <1>8, <1>9, <1>10, <1>11, <1>12, <1>13, <1>14, <1>15, <1>16
  DEF Next, Timer, Closer

\* The flag follows the timer.
LEMMA TimerStep ==
    ASSUME TypeOK, TimerRuns, [Next]_vars
    PROVE  TimerRuns'
<1> USE MaxValuesAssumption DEF MaxValuesAssumption, Values, isSet, TypeOK, TimerRuns
<1>1. ASSUME NEW p \in Threads, GetStart(p)
      PROVE  TimerRuns'
  BY <1>1 DEF GetStart
<1>2. ASSUME NEW p \in Threads, GetFast(p)
      PROVE  TimerRuns'
  BY <1>2 DEF GetFast
<1>3. ASSUME NEW p \in Threads, GetLocked(p)
      PROVE  TimerRuns'
  BY <1>3 DEF GetLocked, Initialize, EnsureTimerStarted, Unlocked
<1>4. ASSUME NEW k \in Closers, CloseStart(k)
      PROVE  TimerRuns'
  BY <1>4 DEF CloseStart
<1>5. ASSUME NEW k \in Closers, NotifyClosing(k)
      PROVE  TimerRuns'
  BY <1>5 DEF NotifyClosing, Unlocked
<1>6. ASSUME NEW k \in Closers, CloseWait(k)
      PROVE  TimerRuns'
  BY <1>6 DEF CloseWait
<1>7. ASSUME NEW k \in Closers, CloseFinalize(k)
      PROVE  TimerRuns'
  BY <1>7 DEF CloseFinalize, Finalize, Unlocked
<1>8. CASE TimerStart
  BY <1>8 DEF TimerStart, Unlocked
<1>9. CASE TimerFires
  BY <1>9 DEF TimerFires
<1>10. CASE RefreshValue
  BY <1>10 DEF RefreshValue, Initialize, EnsureTimerStarted
<1>11. CASE ResetValue
  BY <1>11 DEF ResetValue, Finalize
<1>12. CASE ClearValue
  BY <1>12 DEF ClearValue
<1>13. CASE TimerClosed
  BY <1>13 DEF TimerClosed
<1>14. CASE TimerStopped
  BY <1>14 DEF TimerStopped
<1>15. CASE TimePasses
  BY <1>15 DEF TimePasses
<1>16. CASE UNCHANGED vars
  BY <1>16 DEF vars
<1> QED
  BY <1>1, <1>2, <1>3, <1>4, <1>5, <1>6, <1>7, <1>8, <1>9, <1>10, <1>11, <1>12, <1>13, <1>14, <1>15, <1>16
  DEF Next, Timer, Closer

\* The compare-and-swap on the closed flag lets one Close through.
LEMMA CloserStep ==
    ASSUME TypeOK, OneCloser, [Next]_vars
    PROVE  OneCloser'
<1> USE MaxValuesAssumption DEF MaxValuesAssumption, Values, isSet, TypeOK, OneCloser
<1>1. ASSUME NEW p \in Threads, GetStart(p)
      PROVE  OneCloser'
  BY <1>1 DEF GetStart
<1>2. ASSUME NEW p \in Threads, GetFast(p)
      PROVE  OneCloser'
  BY <1>2 DEF GetFast
<1>3. ASSUME NEW p \in Threads, GetLocked(p)
      PROVE  OneCloser'
  BY <1>3 DEF GetLocked, Initialize, EnsureTimerStarted, Unlocked
<1>4. ASSUME NEW k \in Closers, CloseStart(k)
      PROVE  OneCloser'
  BY <1>4 DEF CloseStart
<1>5. ASSUME NEW k \in Closers, NotifyClosing(k)
      PROVE  OneCloser'
  BY <1>5 DEF NotifyClosing, Unlocked
<1>6. ASSUME NEW k \in Closers, CloseWait(k)
      PROVE  OneCloser'
  BY <1>6 DEF CloseWait
<1>7. ASSUME NEW k \in Closers, CloseFinalize(k)
      PROVE  OneCloser'
  BY <1>7 DEF CloseFinalize, Finalize, Unlocked
<1>8. CASE TimerStart
  BY <1>8 DEF TimerStart, Unlocked
<1>9. CASE TimerFires
  BY <1>9 DEF TimerFires
<1>10. CASE RefreshValue
  BY <1>10 DEF RefreshValue, Initialize, EnsureTimerStarted
<1>11. CASE ResetValue
  BY <1>11 DEF ResetValue, Finalize
<1>12. CASE ClearValue
  BY <1>12 DEF ClearValue
<1>13. CASE TimerClosed
  BY <1>13 DEF TimerClosed
<1>14. CASE TimerStopped
  BY <1>14 DEF TimerStopped
<1>15. CASE TimePasses
  BY <1>15 DEF TimePasses
<1>16. CASE UNCHANGED vars
  BY <1>16 DEF vars
<1> QED
  BY <1>1, <1>2, <1>3, <1>4, <1>5, <1>6, <1>7, <1>8, <1>9, <1>10, <1>11, <1>12, <1>13, <1>14, <1>15, <1>16
  DEF Next, Timer, Closer

\* A Close that has waited for the timer is not overtaken by another timer.
LEMMA QuietStep ==
    ASSUME TypeOK, ClosedIsQuiet, TimerRuns, OneCloser, [Next]_vars
    PROVE  ClosedIsQuiet'
<1> USE MaxValuesAssumption DEF MaxValuesAssumption, Values, isSet, TypeOK, ClosedIsQuiet, TimerRuns, OneCloser
<1>1. ASSUME NEW p \in Threads, GetStart(p)
      PROVE  ClosedIsQuiet'
  BY <1>1 DEF GetStart
<1>2. ASSUME NEW p \in Threads, GetFast(p)
      PROVE  ClosedIsQuiet'
  BY <1>2 DEF GetFast
<1>3. ASSUME NEW p \in Threads, GetLocked(p)
      PROVE  ClosedIsQuiet'
  BY <1>3 DEF GetLocked, Initialize, EnsureTimerStarted, Unlocked
<1>4. ASSUME NEW k \in Closers, CloseStart(k)
      PROVE  ClosedIsQuiet'
  BY <1>4 DEF CloseStart
<1>5. ASSUME NEW k \in Closers, NotifyClosing(k)
      PROVE  ClosedIsQuiet'
  BY <1>5 DEF NotifyClosing, Unlocked
<1>6. ASSUME NEW k \in Closers, CloseWait(k)
      PROVE  ClosedIsQuiet'
  BY <1>6 DEF CloseWait
<1>7. ASSUME NEW k \in Closers, CloseFinalize(k)
      PROVE  ClosedIsQuiet'
  BY <1>7 DEF CloseFinalize, Finalize, Unlocked
<1>8. CASE TimerStart
  BY <1>8 DEF TimerStart, Unlocked
<1>9. CASE TimerFires
  BY <1>9 DEF TimerFires
<1>10. CASE RefreshValue
  BY <1>10 DEF RefreshValue, Initialize, EnsureTimerStarted
<1>11. CASE ResetValue
  BY <1>11 DEF ResetValue, Finalize
<1>12. CASE ClearValue
  BY <1>12 DEF ClearValue
<1>13. CASE TimerClosed
  BY <1>13 DEF TimerClosed
<1>14. CASE TimerStopped
  BY <1>14 DEF TimerStopped
<1>15. CASE TimePasses
  BY <1>15 DEF TimePasses
<1>16. CASE UNCHANGED vars
  BY <1>16 DEF vars
<1> QED
  BY <1>1, <1>2, <1>3, <1>4, <1>5, <1>6, <1>7, <1>8, <1>9, <1>10, <1>11, <1>12, <1>13, <1>14, <1>15, <1>16
  DEF Next, Timer, Closer

\* The timer and Close never finalize the same value.
LEMMA FinalizeStep ==
    ASSUME TypeOK, FinalizedOnce, MadeFirst, FinalizedLast, FinalizedFirst, ClosedIsQuiet, TimerRuns, OneCloser, [Next]_vars
    PROVE  (FinalizedOnce /\ MadeFirst /\ FinalizedLast /\ FinalizedFirst)'
<1> USE MaxValuesAssumption DEF MaxValuesAssumption, Values, isSet, TypeOK, FinalizedOnce, MadeFirst, FinalizedLast, FinalizedFirst, ClosedIsQuiet, TimerRuns, OneCloser
<1>1. ASSUME NEW p \in Threads, GetStart(p)
      PROVE  (FinalizedOnce /\ MadeFirst /\ FinalizedLast /\ FinalizedFirst)'
  BY <1>1 DEF GetStart
<1>2. ASSUME NEW p \in Threads, GetFast(p)
      PROVE  (FinalizedOnce /\ MadeFirst /\ FinalizedLast /\ FinalizedFirst)'
  BY <1>2 DEF GetFast
<1>3. ASSUME NEW p \in Threads, GetLocked(p)
      PROVE  (FinalizedOnce /\ MadeFirst /\ FinalizedLast /\ FinalizedFirst)'
  BY <1>3 DEF GetLocked, Initialize, EnsureTimerStarted, Unlocked
<1>4. ASSUME NEW k \in Closers, CloseStart(k)
      PROVE  (FinalizedOnce /\ MadeFirst /\ FinalizedLast /\ FinalizedFirst)'
  BY <1>4 DEF CloseStart
<1>5. ASSUME NEW k \in Closers, NotifyClosing(k)
      PROVE  (FinalizedOnce /\ MadeFirst /\ FinalizedLast /\ FinalizedFirst)'
  BY <1>5 DEF NotifyClosing, Unlocked
<1>6. ASSUME NEW k \in Closers, CloseWait(k)
      PROVE  (FinalizedOnce /\ MadeFirst /\ FinalizedLast /\ FinalizedFirst)'
  BY <1>6 DEF CloseWait
<1>7. ASSUME NEW k \in Closers, CloseFinalize(k)
      PROVE  (FinalizedOnce /\ MadeFirst /\ FinalizedLast /\ FinalizedFirst)'
  <2>1. timer = "off" /\ \A l \in Closers : closing[l] # "returned"
    BY <1>7 DEF CloseFinalize
  <2>2. CASE config.finalizer /\ isSet
    <3>1. ref \in Values /\ finalized[ref] = 0
      BY <2>1, <2>2
    <3>2. finalized' = [finalized EXCEPT ![ref] = 1] /\ UNCHANGED <<ref, made, timer, config>>
      BY <1>7, <2>2, <3>1 DEF CloseFinalize, Finalize
    <3>3. closing'[k] = "returned"
      BY <1>7 DEF CloseFinalize
    <3> QED
      BY <2>1, <3>1, <3>2, <3>3
  <2>3. CASE ~(config.finalizer /\ isSet)
    <3>1. UNCHANGED <<finalized, ref, made, timer, config>>
      BY <1>7, <2>3 DEF CloseFinalize, Finalize
    <3>2. \A l \in Closers : closing[l] = "returned" => closing'[l] = "returned"
      BY <1>7 DEF CloseFinalize
    <3> QED
      BY <3>1, <3>2
  <2> QED
    BY <2>2, <2>3
<1>8. CASE TimerStart
  BY <1>8 DEF TimerStart, Unlocked
<1>9. CASE TimerFires
  BY <1>9 DEF TimerFires
<1>10. CASE RefreshValue
  BY <1>10 DEF RefreshValue, Initialize, EnsureTimerStarted
<1>11. CASE ResetValue
  BY <1>11 DEF ResetValue, Finalize
<1>12. CASE ClearValue
  BY <1>12 DEF ClearValue
<1>13. CASE TimerClosed
  BY <1>13 DEF TimerClosed
<1>14. CASE TimerStopped
  BY <1>14 DEF TimerStopped
<1>15. CASE TimePasses
  BY <1>15 DEF TimePasses
<1>16. CASE UNCHANGED vars
  BY <1>16 DEF vars
<1> QED
  BY <1>1, <1>2, <1>3, <1>4, <1>5, <1>6, <1>7, <1>8, <1>9, <1>10, <1>11, <1>12, <1>13, <1>14, <1>15, <1>16
  DEF Next, Timer, Closer

\* A value is finalized before it is replaced.
LEMMA ExpiredStep ==
    ASSUME TypeOK, ExpiredIsFinalized, FinalizedOnce, FinalizedFirst, [Next]_vars
    PROVE  ExpiredIsFinalized'
<1> USE MaxValuesAssumption DEF MaxValuesAssumption, Values, isSet, TypeOK, ExpiredIsFinalized, FinalizedOnce, FinalizedFirst
<1>1. ASSUME NEW p \in Threads, GetStart(p)
      PROVE  ExpiredIsFinalized'
  BY <1>1 DEF GetStart
<1>2. ASSUME NEW p \in Threads, GetFast(p)
      PROVE  ExpiredIsFinalized'
  BY <1>2 DEF GetFast
<1>3. ASSUME NEW p \in Threads, GetLocked(p)
      PROVE  ExpiredIsFinalized'
  BY <1>3 DEF GetLocked, Initialize, EnsureTimerStarted, Unlocked
<1>4. ASSUME NEW k \in Closers, CloseStart(k)
      PROVE  ExpiredIsFinalized'
  BY <1>4 DEF CloseStart
<1>5. ASSUME NEW k \in Closers, NotifyClosing(k)
      PROVE  ExpiredIsFinalized'
  BY <1>5 DEF NotifyClosing, Unlocked
<1>6. ASSUME NEW k \in Closers, CloseWait(k)
      PROVE  ExpiredIsFinalized'
  BY <1>6 DEF CloseWait
<1>7. ASSUME NEW k \in Closers, CloseFinalize(k)
      PROVE  ExpiredIsFinalized'
  BY <1>7 DEF CloseFinalize, Finalize, Unlocked
<1>8. CASE TimerStart
  BY <1>8 DEF TimerStart, Unlocked
<1>9. CASE TimerFires
  BY <1>9 DEF TimerFires
<1>10. CASE RefreshValue
  BY <1>10 DEF RefreshValue, Initialize, EnsureTimerStarted
<1>11. CASE ResetValue
  BY <1>11 DEF ResetValue, Finalize
<1>12. CASE ClearValue
  BY <1>12 DEF ClearValue
<1>13. CASE TimerClosed
  BY <1>13 DEF TimerClosed
<1>14. CASE TimerStopped
  BY <1>14 DEF TimerStopped
<1>15. CASE TimePasses
  BY <1>15 DEF TimePasses
<1>16. CASE UNCHANGED vars
  BY <1>16 DEF vars
<1> QED
  BY <1>1, <1>2, <1>3, <1>4, <1>5, <1>6, <1>7, <1>8, <1>9, <1>10, <1>11, <1>12, <1>13, <1>14, <1>15, <1>16
  DEF Next, Timer, Closer

-----------------------------------------------------------------------------
(* The theorems                                                            *)

\* The initial states satisfy the inductive invariant.
LEMMA InitInvariant == Init => IInv
<1> SUFFICES ASSUME Init PROVE IInv
  OBVIOUS
<1> USE MaxValuesAssumption DEF MaxValuesAssumption, Init, Values, isSet
<1>1. TypeOK
  <2>1. starting \in Nat
    OBVIOUS
  <2>2. finalized \in [Values -> Nat]
    OBVIOUS
  <2>3. recent \in BOOLEAN /\ closed \in BOOLEAN /\ running \in BOOLEAN /\ closech \in BOOLEAN
    OBVIOUS
  <2>4. made \in 0..MaxValues /\ ref \in 0..made
    OBVIOUS
  <2>5. config \in [expiry : ExpiryTypes, finalizer : BOOLEAN]
    OBVIOUS
  <2>6. /\ timer \in {"off", "select", "expired", "resetting", "stopping"}
        /\ getting \in [Threads -> {"out", "open", "missed"}]
        /\ closing \in [Closers -> {"out", "notify", "wait", "finalize", "returned", "alreadyClosed"}]
    OBVIOUS
  <2> QED
    BY <2>1, <2>2, <2>3, <2>4, <2>5, <2>6, Zenon DEF TypeOK
<1>2. FinalizedOnce /\ ExpiredIsFinalized /\ MadeFirst /\ FinalizedLast /\ FinalizedFirst
  BY DEF FinalizedOnce, ExpiredIsFinalized, MadeFirst, FinalizedLast, FinalizedFirst
<1>3. ClosedIsQuiet /\ TimerRuns /\ OneCloser
  BY DEF ClosedIsQuiet, TimerRuns, OneCloser
<1> QED
  BY <1>1, <1>2, <1>3 DEF IInv

\* The inductive invariant holds in every reachable state.
THEOREM Invariant == Spec => []IInv
<1>1. IInv /\ [Next]_vars => IInv'
  <2> SUFFICES ASSUME IInv, [Next]_vars PROVE IInv'
    OBVIOUS
  <2>1. TypeOK' /\ TimerRuns' /\ OneCloser'
    BY TypeStep, TimerStep, CloserStep DEF IInv
  <2>2. ClosedIsQuiet'
    BY QuietStep DEF IInv
  <2>3. FinalizedOnce' /\ MadeFirst' /\ FinalizedLast' /\ FinalizedFirst'
    BY FinalizeStep DEF IInv
  <2>4. ExpiredIsFinalized'
    BY ExpiredStep DEF IInv
  <2> QED
    BY <2>1, <2>2, <2>3, <2>4 DEF IInv
<1> QED
  BY InitInvariant, <1>1, PTL DEF Spec

\* The variables of the reference keep their types.
THEOREM TypeCorrect == Spec => []TypeOK
<1>1. IInv => TypeOK
  BY DEF IInv
<1> QED
  BY Invariant, <1>1, PTL

\* The timer and Close between them finalize a value at most once.
THEOREM FinalizedAtMostOnce == Spec => []FinalizedOnce
<1>1. IInv => FinalizedOnce
  BY DEF IInv
<1> QED
  BY Invariant, <1>1, PTL

\* No value of an expiring reference is replaced before it was finalized.
THEOREM NoValueIsLost == Spec => []ExpiredIsFinalized
<1>1. IInv => ExpiredIsFinalized
  BY DEF IInv
<1> QED
  BY Invariant, <1>1, PTL

\* No timer outlives Close.
THEOREM ClosedMeansQuiet == Spec => []ClosedIsQuiet
<1>1. IInv => ClosedIsQuiet
  BY DEF IInv
<1> QED
  BY Invariant, <1>1, PTL

\* No timer starts after Close has told the timer to stop.
THEOREM NoLateStart == Spec => NoStartAfterNotify
<1>1. IInv /\ [Next]_vars =>
         [~running /\ running' => \A k \in Closers : closing[k] \in {"out", "notify", "alreadyClosed"}]_vars
  <2> SUFFICES ASSUME IInv, [Next]_vars, ~running, running'
               PROVE  \A k \in Closers : closing[k] \in {"out", "notify", "alreadyClosed"}
    OBVIOUS
  <2>1. TimerStart
    BY DEF IInv, TypeOK, Next, Timer, Closer, GetStart, GetFast, GetLocked, CloseStart, NotifyClosing,
           CloseWait, CloseFinalize, TimerFires, RefreshValue, ResetValue, ClearValue, TimerClosed,
           TimerStopped, TimePasses, vars
  <2>2. ~closed
    BY <2>1 DEF TimerStart
  <2> QED
    BY <2>2 DEF IInv, OneCloser
<1> QED
  BY Invariant, <1>1, PTL DEF Spec, NoStartAfterNotify

-----------------------------------------------------------------------------
(* The event client behind a reference                                     *)

\* EventClientRef uses its lazy reference as anybody may: whatever the event
\* client, its users and the finalizer do, the reference takes steps of LazyRef.
THEOREM ClientRefRefines == ClientSpec => Spec
<1>1. ClientInit => Init
  BY DEF ClientInit
<1>2. [ClientNext]_allVars => [Next]_vars
  <2> SUFFICES ASSUME [ClientNext]_allVars PROVE [Next]_vars
    OBVIOUS
  <2>1. ASSUME NEW p \in Threads, RefGetStart(p) \/ RefGetFast(p) \/ RefGetLocked(p) PROVE Next
    BY <2>1 DEF RefGetStart, RefGetFast, RefGetLocked, Next
  <2>2. ASSUME NEW p \in Threads, Register(p) \/ Unregister(p) PROVE UNCHANGED vars
    BY <2>2 DEF Register, Unregister
  <2>3. ASSUME NEW c \in Clients, ClientGivesUp(c) \/ DispatcherStops(c) PROVE UNCHANGED vars
    BY <2>3 DEF ClientGivesUp, DispatcherStops
  <2>4. ASSUME RefTimer \/ RefTimePasses \/ Finalizer PROVE Next
    BY <2>4 DEF RefTimer, RefTimePasses, Finalizer, Next, Timer
  <2>5. ASSUME FinalizerChecks \/ DispatcherAnswers \/ RefCloseStart \/ UNCHANGED allVars PROVE UNCHANGED vars
    BY <2>5 DEF FinalizerChecks, DispatcherAnswers, RefCloseStart, allVars
  <2>6. ASSUME NEW k \in Closers, RefClose(k) \/ RefCloseFinalize(k) PROVE Next
    BY <2>6 DEF RefClose, RefCloseFinalize, Next, Closer
  <2> QED
    BY <2>1, <2>2, <2>3, <2>4, <2>5, <2>6 DEF ClientNext
<1> QED
  BY <1>1, <1>2, PTL DEF ClientSpec, Spec

\* What was proved of the reference therefore holds of the one that the event
\* client lives behind.
THEOREM ClientRefInvariant == ClientSpec => []IInv
  BY ClientRefRefines, Invariant, PTL

\* The clients are numbered as they are created.
Numbered == created \in Nat /\ eventClient \in Nat /\ openClients \subseteq Nat \ {0}

\* No event client is orphaned: one that is connected is the one that the
\* reference has, so that it can be reused or closed, through every race of
\* users, expiry and Close.
THEOREM ClientNeverOrphaned == ClientSpec => []NoOrphanClient
<1> DEFINE Inv == Numbered /\ NoOrphanClient
<1>1. ClientInit => Inv
  BY DEF ClientInit, Numbered, NoOrphanClient
<1>2. Inv /\ [ClientNext]_allVars => Inv'
  <2> SUFFICES ASSUME Inv, [ClientNext]_allVars PROVE Inv'
    OBVIOUS
  <2> USE DEF Numbered, NoOrphanClient
  <2>1. ASSUME UNCHANGED <<created, eventClient, openClients>> PROVE Inv'
    BY <2>1
  <2>2. ASSUME NEW c, openClients' = openClients \ {c}, UNCHANGED <<created, eventClient>> PROVE Inv'
    BY <2>2
  <2>3. ASSUME NEW p \in Threads, RefGetLocked(p) PROVE Inv'
    <3>1. CASE Initializer
      <4>1. CASE eventClient # 0
        BY <2>1, <3>1, <4>1 DEF Initializer
      <4>2. CASE eventClient = 0
        <5>1. /\ created' = created + 1 /\ eventClient' = created + 1
              /\ openClients' = openClients \cup {created + 1}
          BY <3>1, <4>2 DEF Initializer
        <5>2. openClients = {}
          BY <4>2
        <5>3. created + 1 \in Nat \ {0}
          OBVIOUS
        <5> QED
          BY <5>1, <5>2, <5>3
      <4> QED
        BY <4>1, <4>2
    <3>2. CASE UNCHANGED <<eventClient, created, openClients>>
      BY <2>1, <3>2
    <3> QED
      BY <2>3, <3>1, <3>2 DEF RefGetLocked
  <2>4. ASSUME NEW p \in Threads, RefGetStart(p) \/ RefGetFast(p) \/ Register(p) \/ Unregister(p) PROVE Inv'
    BY <2>1, <2>4 DEF RefGetStart, RefGetFast, Register, Unregister, clientVars
  <2>5. ASSUME NEW c \in Clients, ClientGivesUp(c) \/ DispatcherStops(c) PROVE Inv'
    BY <2>1, <2>2, <2>5 DEF ClientGivesUp, CloseClient, DispatcherStops
  <2>6. ASSUME RefTimer \/ RefTimePasses \/ FinalizerChecks \/ DispatcherAnswers \/ RefCloseStart
               \/ UNCHANGED allVars
        PROVE  Inv'
    BY <2>1, <2>6 DEF RefTimer, RefTimePasses, FinalizerChecks, DispatcherAnswers, RefCloseStart, clientVars, allVars
  <2>7. ASSUME Finalizer PROVE Inv'
    BY <2>7 DEF Finalizer, CloseClient
  <2>8. ASSUME NEW k \in Closers, RefClose(k) PROVE Inv'
    BY <2>1, <2>8 DEF RefClose, clientVars
  <2>9. ASSUME NEW k \in Closers, RefCloseFinalize(k) PROVE Inv'
    BY <2>1, <2>2, <2>9 DEF RefCloseFinalize, CloseClient
  <2> QED
    BY <2>3, <2>4, <2>5, <2>6, <2>7, <2>8, <2>9 DEF ClientNext
<1>3. Inv => NoOrphanClient
  OBVIOUS
<1> QED
  BY <1>1, <1>2, <1>3, PTL DEF ClientSpec

-----------------------------------------------------------------------------
(* The lazy cache: the inductive invariant                                 *)

\* The threads that found no entry, each of which may make one.
Storing == {q \in Getters : pc[q] = "store"}

\* Everyone who may still make an entry finds room for it.
Room == stored + Cardinality(Storing) <= MaxFutures

\* The thread works on an entry it stored itself.
Owns(p) == pc[p] \in {"init", "set", "remove"}

\* Every entry is under its key, an entry that is not set has an owner that
\* sets it, an owner that is about to remove failed, and no two own one entry.
Owners ==
    /\ \A k \in Keys : m[k] # 0 => keyOf[m[k]] = k
    /\ \A f \in Futures : f > stored => future[f] = "unset"
    /\ \A p \in Getters : Owns(p) => mine[p] # 0 /\ keyOf[mine[p]] = key[p]
    /\ \A p \in Getters : pc[p] \in {"init", "set"} => future[mine[p]] = "unset"
    /\ \A p \in Getters : pc[p] = "remove" => future[mine[p]] = "error"
    /\ \A p, q \in Getters : Owns(p) /\ Owns(q) /\ mine[p] = mine[q] => p = q
    /\ \A f \in 1..stored : future[f] = "unset" =>
          \E p \in Getters : pc[p] \in {"init", "set"} /\ mine[p] = f

\* As long as nobody deletes entries, those that did not fail are in the map,
\* and a failed one is until its owner removes it.
Kept ==
    (\A s \in Sweepers : sweep[s] = "out") =>
        /\ \A f \in 1..stored : future[f] # "error" => m[keyOf[f]] = f
        /\ \A p \in Getters : pc[p] = "remove" => m[key[p]] = mine[p]

CacheInv == CacheTypeOK /\ Room /\ Owners /\ ErrorLeaves /\ Kept

-----------------------------------------------------------------------------
(* Types and room                                                          *)

\* The initial state satisfies the invariant.
LEMMA CacheInitInv == CacheInit => CacheInv
<1> SUFFICES ASSUME CacheInit PROVE CacheInv
  OBVIOUS
<1>1. CacheTypeOK
  <2>1. stored \in 0..MaxFutures /\ 1..stored = {}
    BY MaxFuturesAssumption DEF CacheInit
  <2>2. keyOf \in [1..stored -> Keys]
    BY <2>1 DEF CacheInit
  <2>3. m \in [Keys -> 0..stored] /\ mine \in [Getters -> 0..stored] /\ victim \in [Sweepers -> 0..stored]
    BY DEF CacheInit
  <2> QED
    BY <2>1, <2>2, <2>3 DEF CacheInit, CacheTypeOK
<1>2. Room
  <2>1. Storing = {}
    BY DEF CacheInit, Storing
  <2> QED
    BY <2>1, FS_EmptySet, MaxFuturesAssumption DEF CacheInit, Room
<1>3. Owners /\ ErrorLeaves /\ Kept
  BY DEF CacheInit, Owners, Owns, ErrorLeaves, Kept, Futures
<1> QED
  BY <1>1, <1>2, <1>3 DEF CacheInv

\* The number of threads that may make an entry.
LEMMA StoringCount ==
    /\ IsFiniteSet(Storing)
    /\ Cardinality(Storing) \in Nat
    /\ \A p \in Getters : pc[p] = "store" => Cardinality(Storing \ {p}) = Cardinality(Storing) - 1
    /\ \A p \in Getters : pc[p] = "store" => Cardinality(Storing) > 0
    /\ \A p \in Getters : pc[p] # "store" => Cardinality(Storing \cup {p}) = Cardinality(Storing) + 1
<1>1. IsFiniteSet(Storing)
  BY FS_Subset, GettersAssumption DEF Storing
<1>2. Cardinality(Storing) \in Nat
  BY <1>1, FS_CardinalityType
<1>3. ASSUME NEW p \in Getters, pc[p] = "store"
      PROVE  Cardinality(Storing \ {p}) = Cardinality(Storing) - 1 /\ Cardinality(Storing) > 0
  <2>1. p \in Storing
    BY <1>3 DEF Storing
  <2>2. Cardinality(Storing \ {p}) = Cardinality(Storing) - 1
    BY <1>1, <2>1, FS_RemoveElement
  <2>3. Cardinality(Storing \ {p}) \in Nat
    BY <1>1, FS_Subset, FS_CardinalityType
  <2> QED
    BY <1>2, <2>2, <2>3
<1>4. ASSUME NEW p \in Getters, pc[p] # "store"
      PROVE  Cardinality(Storing \cup {p}) = Cardinality(Storing) + 1
  <2>1. p \notin Storing
    BY <1>4 DEF Storing
  <2> QED
    BY <1>1, <2>1, FS_AddElement
<1> QED
  BY <1>1, <1>2, <1>3, <1>4

\* A new entry gets a number within the bound.
LEMMA RoomForOne ==
    ASSUME CacheTypeOK, Room, NEW p \in Getters, pc[p] = "store"
    PROVE  stored + 1 \in 1..MaxFutures
<1>1. Cardinality(Storing) \in Nat /\ Cardinality(Storing) > 0
  BY StoringCount
<1> QED
  BY <1>1, MaxFuturesAssumption DEF Room, CacheTypeOK

\* Every step of Get keeps the types.
LEMMA GetType ==
    ASSUME CacheTypeOK, Room, NEW p \in Getters, Get(p)
    PROVE  CacheTypeOK'
<1> USE DEF CacheTypeOK, sweepVars
<1>1. ASSUME NEW k \in Keys, GetLoad(p, k) PROVE CacheTypeOK'
  BY <1>1 DEF GetLoad
<1>2. ASSUME GetStore(p) PROVE CacheTypeOK'
  <2>1. CASE m[key[p]] # 0
    BY <1>2, <2>1 DEF GetStore
  <2>2. CASE m[key[p]] = 0
    <3>1. stored' = stored + 1 /\ stored' \in 0..MaxFutures
      BY <1>2, <2>2, RoomForOne DEF GetStore
    <3>2. m' \in [Keys -> 0..stored'] /\ mine' \in [Getters -> 0..stored'] /\ victim' \in [Sweepers -> 0..stored']
      <4>1. \A f \in 0..stored : f \in 0..stored'
        BY <3>1
      <4>2. stored + 1 \in 0..stored'
        BY <3>1
      <4>3. m' = [m EXCEPT ![key[p]] = stored + 1] /\ mine' = [mine EXCEPT ![p] = stored + 1]
            /\ victim' = victim
        BY <1>2, <2>2 DEF GetStore
      <4> QED
        BY <4>1, <4>2, <4>3
    <3>3. keyOf' \in [1..stored' -> Keys]
      <4>1. keyOf' = [f \in 1..(stored + 1) |-> IF f = stored + 1 THEN key[p] ELSE keyOf[f]]
        BY <1>2, <2>2 DEF GetStore
      <4>2. \A f \in 1..(stored + 1) : f # stored + 1 => f \in 1..stored
        BY <3>1
      <4>3. \A f \in 1..(stored + 1) : (IF f = stored + 1 THEN key[p] ELSE keyOf[f]) \in Keys
        BY <4>2
      <4> QED
        BY <3>1, <4>1, <4>3
    <3>4. pc' \in [Getters -> {"out", "store", "init", "set", "remove", "wait"}]
      BY <1>2, <2>2 DEF GetStore
    <3>5. UNCHANGED <<future, timesClosed, cacheClosed, key, sweep, closesCache, todo, found>>
      BY <1>2 DEF GetStore
    <3> QED
      BY <3>1, <3>2, <3>3, <3>4, <3>5
  <2> QED
    BY <2>1, <2>2
<1>3. ASSUME GetInit(p) PROVE CacheTypeOK'
  BY <1>3 DEF GetInit
<1>4. ASSUME GetSet(p) PROVE CacheTypeOK'
  BY <1>4 DEF GetSet
<1>5. ASSUME GetRemove(p) PROVE CacheTypeOK'
  BY <1>5 DEF GetRemove
<1>6. ASSUME GetWait(p) PROVE CacheTypeOK'
  BY <1>6 DEF GetWait
<1> QED
  BY <1>1, <1>2, <1>3, <1>4, <1>5, <1>6 DEF Get

\* Every step of Delete, DeleteAll and Close keeps the types.
LEMMA SweepType ==
    ASSUME CacheTypeOK, NEW s \in Sweepers, Sweep(s)
    PROVE  CacheTypeOK'
<1> USE DEF CacheTypeOK, getVars
<1>1. ASSUME NEW K \in SUBSET Keys, NEW close \in BOOLEAN, SweepStart(s, K, close),
             cacheClosed' \in BOOLEAN
      PROVE  CacheTypeOK'
  BY <1>1 DEF SweepStart
<1>2. ASSUME NEW k \in Keys, Delete(s, k) PROVE CacheTypeOK'
  BY <1>1, <1>2 DEF Delete
<1>3. ASSUME DeleteAll(s) PROVE CacheTypeOK'
  BY <1>1, <1>3 DEF DeleteAll
<1>4. ASSUME Close(s) PROVE CacheTypeOK'
  BY <1>1, <1>4 DEF Close
<1>5. ASSUME NEW k \in Keys, SweepVisit(s, k) PROVE CacheTypeOK'
  <2>1. todo' \in [Sweepers -> SUBSET Keys]
    BY <1>5 DEF SweepVisit
  <2>2. found' \in [Sweepers -> SUBSET Keys]
    <3>1. found[s] \cup {k} \in SUBSET Keys
      OBVIOUS
    <3>2. found' = found \/ found' = [found EXCEPT ![s] = found[s] \cup {k}]
      BY <1>5 DEF SweepVisit
    <3> QED
      BY <3>1, <3>2
  <2>3. victim' \in [Sweepers -> 0..stored]
    BY <1>5 DEF SweepVisit
  <2>4. sweep' \in [Sweepers -> {"out", "visit", "close", "delete", "returned"}]
    BY <1>5 DEF SweepVisit
  <2> QED
    BY <1>5, <2>1, <2>2, <2>3, <2>4 DEF SweepVisit
<1>6. ASSUME SweepClose(s) PROVE CacheTypeOK'
  <2>1. timesClosed' \in [Futures -> Nat]
    <3>1. \A f : [timesClosed EXCEPT ![f] = timesClosed[f] + 1] \in [Futures -> Nat]
      <4> TAKE f
      <4>1. CASE f \in Futures
        BY <4>1
      <4>2. CASE f \notin Futures
        BY <4>2
      <4> QED
        BY <4>1, <4>2
    <3> QED
      BY <1>6, <3>1 DEF SweepClose
  <2>2. sweep' \in [Sweepers -> {"out", "visit", "close", "delete", "returned"}]
    BY <1>6 DEF SweepClose
  <2> QED
    BY <1>6, <2>1, <2>2 DEF SweepClose
<1>7. ASSUME SweepVisited(s) PROVE CacheTypeOK'
  BY <1>7 DEF SweepVisited
<1>8. ASSUME NEW k \in Keys, SweepDelete(s, k) PROVE CacheTypeOK'
  BY <1>8 DEF SweepDelete
<1> QED
  BY <1>2, <1>3, <1>4, <1>5, <1>6, <1>7, <1>8 DEF Sweep

\* What a sweep leaves alone, and that it is not over before it has begun.
LEMMA SweepLeaves ==
    ASSUME CacheTypeOK, NEW s \in Sweepers, Sweep(s)
    PROVE  /\ UNCHANGED <<stored, future, keyOf, pc, key, mine>>
           /\ sweep'[s] # "out"
           /\ m' = m \/ \E k \in Keys : m' = [m EXCEPT ![k] = 0]
  BY DEF CacheTypeOK, getVars, Sweep, Delete, DeleteAll, Close, SweepStart, SweepVisit,
         SweepClose, SweepVisited, SweepDelete

\* Every step leaves room for the entries that may be made.
LEMMA RoomStep ==
    ASSUME CacheTypeOK, Room, [CacheNext]_cacheVars
    PROVE  Room'
<1> USE DEF CacheTypeOK, Room
<1>1. ASSUME UNCHANGED stored, Storing' = Storing
      PROVE  Room'
  BY <1>1
<1>2. ASSUME NEW p \in Getters, NEW k \in Keys, GetLoad(p, k) PROVE Room'
  <2>1. CASE m[k] # 0
    <3>1. Storing' = Storing
      BY <1>2, <2>1 DEF GetLoad, Storing
    <3> QED
      BY <1>1, <1>2, <3>1 DEF GetLoad
  <2>2. CASE m[k] = 0
    <3>1. Storing' = Storing \cup {p}
      BY <1>2, <2>2 DEF GetLoad, Storing
    <3>2. Cardinality(Storing') = Cardinality(Storing) + 1 /\ Cardinality(Storing) \in Nat
      BY <1>2, <3>1, StoringCount DEF GetLoad
    <3>3. stored + Cardinality(Storing) < MaxFutures
      BY <1>2, <2>2 DEF GetLoad, Storing
    <3> QED
      BY <1>2, <3>2, <3>3, MaxFuturesAssumption DEF GetLoad
  <2> QED
    BY <2>1, <2>2
<1>3. ASSUME NEW p \in Getters, GetStore(p) PROVE Room'
  <2>1. Storing' = Storing \ {p} /\ pc[p] = "store"
    BY <1>3 DEF GetStore, Storing
  <2>2. Cardinality(Storing') = Cardinality(Storing) - 1 /\ Cardinality(Storing) \in Nat
    BY <2>1, StoringCount
  <2>3. stored' \in {stored, stored + 1}
    BY <1>3 DEF GetStore
  <2> QED
    BY <2>2, <2>3, MaxFuturesAssumption
<1>4. ASSUME NEW p \in Getters, GetInit(p) \/ GetSet(p) \/ GetRemove(p) \/ GetWait(p) PROVE Room'
  <2>1. Storing' = Storing /\ stored' = stored
    BY <1>4 DEF GetInit, GetSet, GetRemove, GetWait, Storing
  <2> QED
    BY <1>1, <2>1
<1>5. ASSUME NEW s \in Sweepers, Sweep(s) PROVE Room'
  <2>1. Storing' = Storing /\ stored' = stored
    BY <1>5, SweepLeaves DEF Storing
  <2> QED
    BY <1>1, <2>1
<1>6. ASSUME UNCHANGED cacheVars PROVE Room'
  BY <1>1, <1>6 DEF cacheVars, Storing
<1> QED
  BY <1>2, <1>3, <1>4, <1>5, <1>6 DEF CacheNext, Get

-----------------------------------------------------------------------------
(* Owners                                                                  *)

\* Nobody deletes entries.
Undisturbed == \A s \in Sweepers : sweep[s] = "out"

\* A step of Get that neither stores, sets nor removes an entry.
LEMMA GetIdle ==
    ASSUME CacheTypeOK, Owners, ErrorLeaves, Kept, NEW p \in Getters, ~Owns(p), ~Owns(p)',
           UNCHANGED <<m, stored, future, keyOf, sweep>>,
           \A q \in Getters : q # p => pc'[q] = pc[q] /\ mine'[q] = mine[q] /\ key'[q] = key[q]
    PROVE  Owners' /\ ErrorLeaves' /\ Kept'
<1>1. Owners'
  <2>1. \A q \in Getters : Owns(q)' => Owns(q) /\ pc'[q] = pc[q] /\ mine'[q] = mine[q] /\ key'[q] = key[q]
    BY DEF Owns
  <2>2. \A q \in Getters : pc'[q] \in {"init", "set", "remove"} => Owns(q)'
    BY DEF Owns
  <2>3. \A f \in 1..stored : future[f] = "unset" =>
          \E q \in Getters : pc'[q] \in {"init", "set"} /\ mine'[q] = f
    BY DEF Owners, Owns
  <2> QED
    BY <2>1, <2>2, <2>3 DEF Owners
<1>2. ErrorLeaves'
  BY DEF ErrorLeaves, Owns
<1>3. Kept'
  BY DEF Kept, Owns
<1> QED
  BY <1>1, <1>2, <1>3

\* The entry that GetStore makes is its own, and the only one under its key.
LEMMA GetStoreKeeps ==
    ASSUME CacheTypeOK, Room, Owners, ErrorLeaves, Kept, NEW p \in Getters, GetStore(p)
    PROVE  Owners' /\ ErrorLeaves' /\ Kept'
<1> USE DEF CacheTypeOK, sweepVars
<1>1. CASE m[key[p]] # 0
  <2>1. ~Owns(p) /\ ~Owns(p)'
    BY <1>1 DEF GetStore, Owns
  <2>2. UNCHANGED <<m, stored, future, keyOf, sweep>> /\
        \A q \in Getters : q # p => pc'[q] = pc[q] /\ mine'[q] = mine[q] /\ key'[q] = key[q]
    BY <1>1 DEF GetStore
  <2> QED
    BY <2>1, <2>2, GetIdle
<1>2. CASE m[key[p]] = 0
  <2>1. /\ stored' = stored + 1 /\ stored' \in Futures /\ stored \in Nat
        /\ future[stored'] = "unset" /\ future' = future
    BY <1>2, RoomForOne DEF GetStore, Owners, Futures
  <2>2. /\ m' = [m EXCEPT ![key[p]] = stored'] /\ key' = key
        /\ pc' = [pc EXCEPT ![p] = "init"] /\ mine' = [mine EXCEPT ![p] = stored']
        /\ sweep' = sweep /\ pc[p] = "store"
    BY <1>2 DEF GetStore
  <2>3. keyOf'[stored'] = key[p] /\ \A f \in 1..stored : keyOf'[f] = keyOf[f] /\ f # stored'
    <3>1. keyOf' = [f \in 1..(stored + 1) |-> IF f = stored + 1 THEN key[p] ELSE keyOf[f]]
      BY <1>2 DEF GetStore
    <3> QED
      BY <2>1, <3>1
  <2>4. \A q \in Getters : q # p => pc'[q] = pc[q] /\ mine'[q] = mine[q] /\ mine[q] # stored'
    BY <2>1, <2>2
  <2>5. Owns(p)' /\ ~Owns(p) /\ pc'[p] = "init" /\ mine'[p] = stored' /\ key[p] \in Keys
        /\ (\A q \in Getters : q # p => (Owns(q)' <=> Owns(q)))
    BY <2>2, <2>4 DEF Owns
  <2>6. \A f \in 1..stored' : f = stored' \/ f \in 1..stored
    BY <2>1
  <2>7. Owners'
    <3>1. \A k \in Keys : m'[k] # 0 => keyOf'[m'[k]] = k
      <4> TAKE k \in Keys
      <4>1. CASE k = key[p]
        BY <2>2, <2>3, <4>1
      <4>2. CASE k # key[p]
        <5>1. m'[k] = m[k] /\ (m[k] # 0 => m[k] \in 1..stored)
          BY <2>2, <4>2
        <5> QED
          BY <2>3, <5>1 DEF Owners
      <4> QED
        BY <4>1, <4>2
    <3>2. \A f \in Futures : f > stored' => future'[f] = "unset"
      BY <2>1 DEF Owners, Futures
    <3>3. \A q \in Getters : Owns(q)' => mine'[q] # 0 /\ keyOf'[mine'[q]] = key'[q]
      <4> TAKE q \in Getters
      <4>1. CASE q = p
        BY <2>1, <2>2, <2>3, <2>5, <4>1
      <4>2. CASE q # p
        <5>1. mine[q] # 0 => mine[q] \in 1..stored
          OBVIOUS
        <5> QED
          BY <2>2, <2>3, <2>4, <2>5, <4>2, <5>1 DEF Owners
      <4> QED
        BY <4>1, <4>2
    <3>4. \A q \in Getters : pc'[q] \in {"init", "set"} => future'[mine'[q]] = "unset"
      BY <2>1, <2>4, <2>5 DEF Owners
    <3>5. \A q \in Getters : pc'[q] = "remove" => future'[mine'[q]] = "error"
      BY <2>1, <2>4, <2>5 DEF Owners
    <3>6. \A q, r \in Getters : Owns(q)' /\ Owns(r)' /\ mine'[q] = mine'[r] => q = r
      <4> SUFFICES ASSUME NEW q \in Getters, NEW r \in Getters, Owns(q)', Owns(r)', mine'[q] = mine'[r]
                   PROVE  q = r
        OBVIOUS
      <4>1. CASE q # p /\ r # p
        BY <2>4, <2>5, <4>1 DEF Owners
      <4> QED
        BY <2>4, <2>5, <4>1
    <3>7. \A f \in 1..stored' : future'[f] = "unset" =>
            \E q \in Getters : pc'[q] \in {"init", "set"} /\ mine'[q] = f
      <4> SUFFICES ASSUME NEW f \in 1..stored', future[f] = "unset"
                   PROVE  \E q \in Getters : pc'[q] \in {"init", "set"} /\ mine'[q] = f
        BY <2>1
      <4>1. CASE f = stored'
        BY <2>5, <4>1
      <4>2. CASE f \in 1..stored
        <5>1. PICK q \in Getters : pc[q] \in {"init", "set"} /\ mine[q] = f
          BY <4>2 DEF Owners
        <5> QED
          BY <2>2, <2>4, <5>1
      <4> QED
        BY <2>6, <4>1, <4>2
    <3> QED
      BY <3>1, <3>2, <3>3, <3>4, <3>5, <3>6, <3>7 DEF Owners
  <2>8. ErrorLeaves'
    <3> SUFFICES ASSUME NEW k \in Keys, m'[k] # 0, future'[m'[k]] = "error"
                 PROVE  \E q \in Getters : pc'[q] = "remove" /\ mine'[q] = m'[k] /\ key'[q] = k
      BY DEF ErrorLeaves
    <3>1. k # key[p] /\ m'[k] = m[k]
      BY <2>1, <2>2
    <3>2. PICK q \in Getters : pc[q] = "remove" /\ mine[q] = m[k] /\ key[q] = k
      BY <2>1, <3>1 DEF ErrorLeaves
    <3> QED
      BY <2>2, <2>4, <3>1, <3>2
  <2>9. Kept'
    <3> SUFFICES ASSUME Undisturbed'
                 PROVE  /\ \A f \in 1..stored' : future'[f] # "error" => m'[keyOf'[f]] = f
                        /\ \A q \in Getters : pc'[q] = "remove" => m'[key'[q]] = mine'[q]
      BY DEF Kept, Undisturbed
    <3>1. /\ \A f \in 1..stored : future[f] # "error" => m[keyOf[f]] = f
          /\ \A q \in Getters : pc[q] = "remove" => m[key[q]] = mine[q]
      BY <2>2 DEF Kept, Undisturbed
    <3>2. \A f \in 1..stored : future[f] # "error" => keyOf[f] # key[p] /\ keyOf[f] \in Keys
      BY <1>2, <3>1
    <3>3. \A f \in 1..stored' : future'[f] # "error" => m'[keyOf'[f]] = f
      <4> SUFFICES ASSUME NEW f \in 1..stored', future[f] # "error"
                   PROVE  m'[keyOf'[f]] = f
        BY <2>1
      <4>1. CASE f = stored'
        BY <2>2, <2>3, <2>5, <4>1
      <4>2. CASE f \in 1..stored
        BY <2>2, <2>3, <3>1, <3>2, <4>2
      <4> QED
        BY <2>6, <4>1, <4>2
    <3>4. \A q \in Getters : pc[q] = "remove" => mine[q] # 0
      BY DEF Owners, Owns
    <3>5. \A q \in Getters : pc'[q] = "remove" => m'[key'[q]] = mine'[q]
      BY <1>2, <2>2, <2>4, <2>5, <3>1, <3>4
    <3> QED
      BY <3>3, <3>5
  <2> QED
    BY <2>7, <2>8, <2>9
<1> QED
  BY <1>1, <1>2

\* An owner sets its entry, once, and stays to remove it if that failed.
LEMMA Settles ==
    ASSUME CacheTypeOK, Owners, ErrorLeaves, Kept, NEW p \in Getters, pc[p] \in {"init", "set"},
           NEW r \in {"value", "error"}, future' = [future EXCEPT ![mine[p]] = r],
           pc' = [pc EXCEPT ![p] = IF r = "value" THEN "out" ELSE "remove"],
           UNCHANGED <<m, stored, keyOf, key, mine, sweep>>
    PROVE  Owners' /\ ErrorLeaves' /\ Kept'
<1> USE DEF CacheTypeOK
<1>1. /\ Owns(p) /\ mine[p] # 0 /\ mine[p] \in Futures /\ future[mine[p]] = "unset"
      /\ future'[mine[p]] = r /\ keyOf[mine[p]] = key[p]
      /\ pc'[p] = IF r = "value" THEN "out" ELSE "remove"
  <2>1. Owns(p) /\ mine[p] # 0 /\ keyOf[mine[p]] = key[p] /\ future[mine[p]] = "unset"
    BY DEF Owns, Owners
  <2>2. mine[p] \in Futures
    BY <2>1, MaxFuturesAssumption DEF Futures
  <2> QED
    BY <2>1, <2>2
<1>2. \A q \in Getters : q # p => /\ pc'[q] = pc[q]
                                  /\ (Owns(q)' <=> Owns(q))
                                  /\ Owns(q) => mine[q] # mine[p] /\ future'[mine[q]] = future[mine[q]]
  <2> SUFFICES ASSUME NEW q \in Getters, q # p
               PROVE  /\ pc'[q] = pc[q]
                      /\ (Owns(q)' <=> Owns(q))
                      /\ Owns(q) => mine[q] # mine[p] /\ future'[mine[q]] = future[mine[q]]
    OBVIOUS
  <2>1. pc'[q] = pc[q] /\ (Owns(q)' <=> Owns(q))
    BY DEF Owns
  <2>2. Owns(q) => mine[q] # mine[p]
    BY <1>1 DEF Owners
  <2> QED
    BY <2>1, <2>2
<1>3. \A f \in Futures : f # mine[p] => future'[f] = future[f]
  OBVIOUS
<1>4. 1..stored \subseteq Futures
  BY MaxFuturesAssumption DEF Futures
<1>5. Owners'
  <2>1. \A f \in Futures : f > stored => future'[f] = "unset"
    BY <1>3 DEF Owners
  <2>2. \A q \in Getters : Owns(q)' => Owns(q)
    BY <1>1, <1>2
  <2>3. \A q \in Getters : pc'[q] \in {"init", "set"} => future'[mine[q]] = "unset"
    BY <1>1, <1>2 DEF Owners, Owns
  <2>4. \A q \in Getters : pc'[q] = "remove" => future'[mine[q]] = "error"
    BY <1>1, <1>2 DEF Owners, Owns
  <2>5. \A f \in 1..stored : future'[f] = "unset" =>
          \E q \in Getters : pc'[q] \in {"init", "set"} /\ mine[q] = f
    <3> SUFFICES ASSUME NEW f \in 1..stored, future'[f] = "unset"
                 PROVE  \E q \in Getters : pc'[q] \in {"init", "set"} /\ mine[q] = f
      OBVIOUS
    <3>1. f # mine[p] /\ future[f] = "unset"
      BY <1>1, <1>3, <1>4
    <3>2. PICK q \in Getters : pc[q] \in {"init", "set"} /\ mine[q] = f
      BY <3>1 DEF Owners
    <3> QED
      BY <1>2, <3>1, <3>2
  <2> QED
    BY <2>1, <2>2, <2>3, <2>4, <2>5 DEF Owners
<1>6. ErrorLeaves'
  <2> SUFFICES ASSUME NEW k \in Keys, m[k] # 0, future'[m[k]] = "error"
               PROVE  \E q \in Getters : pc'[q] = "remove" /\ mine[q] = m[k] /\ key[q] = k
    BY DEF ErrorLeaves
  <2>1. CASE m[k] = mine[p]
    <3>1. k = key[p]
      BY <1>1, <2>1 DEF Owners
    <3> QED
      BY <1>1, <2>1, <3>1
  <2>2. CASE m[k] # mine[p]
    <3>1. m[k] \in 1..stored
      OBVIOUS
    <3>2. future[m[k]] = "error"
      BY <1>3, <1>4, <2>2, <3>1
    <3>3. PICK q \in Getters : pc[q] = "remove" /\ mine[q] = m[k] /\ key[q] = k
      BY <3>2 DEF ErrorLeaves
    <3> QED
      BY <1>2, <2>2, <3>3
  <2> QED
    BY <2>1, <2>2
<1>7. Kept'
  <2> SUFFICES ASSUME Undisturbed'
               PROVE  /\ \A f \in 1..stored : future'[f] # "error" => m[keyOf[f]] = f
                      /\ \A q \in Getters : pc'[q] = "remove" => m[key[q]] = mine[q]
    BY DEF Kept, Undisturbed
  <2>1. /\ \A f \in 1..stored : future[f] # "error" => m[keyOf[f]] = f
        /\ \A q \in Getters : pc[q] = "remove" => m[key[q]] = mine[q]
    BY DEF Kept, Undisturbed
  <2>2. mine[p] \in 1..stored /\ m[key[p]] = mine[p]
    BY <1>1, <2>1
  <2>3. \A f \in 1..stored : future'[f] # "error" => m[keyOf[f]] = f
    BY <1>1, <1>3, <1>4, <2>1
  <2>4. \A q \in Getters : pc'[q] = "remove" => m[key[q]] = mine[q]
    BY <1>2, <2>1, <2>2
  <2> QED
    BY <2>3, <2>4
<1> QED
  BY <1>5, <1>6, <1>7

\* Whatever GetInit and GetSet do, the owner of an entry is its owner.
LEMMA GetSetKeeps ==
    ASSUME CacheTypeOK, Owners, ErrorLeaves, Kept, NEW p \in Getters, GetInit(p) \/ GetSet(p)
    PROVE  Owners' /\ ErrorLeaves' /\ Kept'
<1> USE DEF sweepVars
<1>1. CASE GetInit(p) /\ ~cacheClosed
  <2>1. /\ pc[p] = "init" /\ pc' = [pc EXCEPT ![p] = "set"]
        /\ UNCHANGED <<m, stored, future, keyOf, key, mine, sweep>>
    BY <1>1 DEF GetInit
  <2>2. \A q \in Getters : /\ Owns(q)' <=> Owns(q)
                           /\ pc'[q] \in {"init", "set"} <=> pc[q] \in {"init", "set"}
                           /\ pc'[q] = "remove" <=> pc[q] = "remove"
    BY <2>1 DEF Owns, CacheTypeOK
  <2> QED
    BY <2>1, <2>2 DEF Owners, ErrorLeaves, Kept
<1>2. CASE GetInit(p) /\ cacheClosed
  <2>1. /\ pc[p] = "init" /\ future' = [future EXCEPT ![mine[p]] = "error"]
        /\ pc' = [pc EXCEPT ![p] = IF "error" = "value" THEN "out" ELSE "remove"]
        /\ UNCHANGED <<m, stored, keyOf, key, mine, sweep>>
    BY <1>2 DEF GetInit
  <2> QED
    BY <2>1, Settles
<1>3. CASE GetSet(p)
  <2>1. PICK r \in {"value", "error"} :
          /\ future' = [future EXCEPT ![mine[p]] = r]
          /\ pc' = [pc EXCEPT ![p] = IF r = "value" THEN "out" ELSE "remove"]
    BY <1>3 DEF GetSet
  <2>2. pc[p] = "set" /\ UNCHANGED <<m, stored, keyOf, key, mine, sweep>>
    BY <1>3 DEF GetSet
  <2> QED
    BY <2>1, <2>2, Settles
<1> QED
  BY <1>1, <1>2, <1>3

\* The owner of a failed entry deletes the key: its own entry, as long as
\* nobody else deletes any.
LEMMA GetRemoveKeeps ==
    ASSUME CacheTypeOK, Owners, ErrorLeaves, Kept, NEW p \in Getters, GetRemove(p)
    PROVE  Owners' /\ ErrorLeaves' /\ Kept'
<1> USE DEF CacheTypeOK
<1>1. /\ pc[p] = "remove" /\ m' = [m EXCEPT ![key[p]] = 0] /\ pc' = [pc EXCEPT ![p] = "out"]
      /\ UNCHANGED <<stored, future, keyOf, key, mine, sweep>>
  BY DEF GetRemove, sweepVars
<1>2. \A q \in Getters : q # p => pc'[q] = pc[q]
  BY <1>1
<1>3. Owns(p) /\ pc'[p] = "out" /\ ~Owns(p)' /\ future[mine[p]] = "error" /\ mine[p] # 0
  BY <1>1 DEF Owns, Owners
<1>4. \A q \in Getters : Owns(q)' => Owns(q) /\ q # p
  BY <1>2, <1>3 DEF Owns
<1>5. Owners'
  <2>1. \A k \in Keys : m'[k] # 0 => keyOf[m'[k]] = k
    BY <1>1 DEF Owners
  <2>2. \A f \in 1..stored : future[f] = "unset" =>
          \E q \in Getters : pc'[q] \in {"init", "set"} /\ mine[q] = f
    BY <1>1, <1>2 DEF Owners
  <2>3. \A q \in Getters : pc'[q] \in {"init", "set", "remove"} => pc[q] = pc'[q]
    BY <1>2, <1>3
  <2> QED
    BY <1>1, <1>4, <2>1, <2>2, <2>3 DEF Owners
<1>6. ErrorLeaves'
  <2> SUFFICES ASSUME NEW k \in Keys, m'[k] # 0, future[m'[k]] = "error"
               PROVE  \E q \in Getters : pc'[q] = "remove" /\ mine[q] = m'[k] /\ key[q] = k
    BY <1>1 DEF ErrorLeaves
  <2>1. k # key[p] /\ m'[k] = m[k]
    BY <1>1
  <2>2. PICK q \in Getters : pc[q] = "remove" /\ mine[q] = m[k] /\ key[q] = k
    BY <2>1 DEF ErrorLeaves
  <2> QED
    BY <1>2, <2>1, <2>2
<1>7. Kept'
  <2> SUFFICES ASSUME Undisturbed'
               PROVE  /\ \A f \in 1..stored : future[f] # "error" => m'[keyOf[f]] = f
                      /\ \A q \in Getters : pc'[q] = "remove" => m'[key[q]] = mine[q]
    BY <1>1 DEF Kept, Undisturbed
  <2>1. /\ \A f \in 1..stored : future[f] # "error" => m[keyOf[f]] = f
        /\ \A q \in Getters : pc[q] = "remove" => m[key[q]] = mine[q]
    BY <1>1 DEF Kept, Undisturbed
  <2>2. m[key[p]] = mine[p]
    BY <1>1, <2>1
  <2>3. \A f \in 1..stored : future[f] # "error" => keyOf[f] # key[p] /\ keyOf[f] \in Keys
    BY <1>3, <2>1, <2>2
  <2>4. \A q \in Getters : q # p /\ pc[q] = "remove" => key[q] # key[p]
    BY <1>3, <2>1, <2>2 DEF Owners, Owns
  <2> QED
    BY <1>1, <1>2, <1>3, <2>1, <2>3, <2>4
<1> QED
  BY <1>5, <1>6, <1>7

\* A sweep only takes entries out of the map.
LEMMA SweepKeeps ==
    ASSUME CacheTypeOK, Owners, ErrorLeaves, Kept, NEW s \in Sweepers, Sweep(s)
    PROVE  Owners' /\ ErrorLeaves' /\ Kept'
<1>1. /\ UNCHANGED <<stored, future, keyOf, pc, key, mine>> /\ sweep'[s] # "out"
      /\ m' = m \/ \E k \in Keys : m' = [m EXCEPT ![k] = 0]
  BY SweepLeaves
<1>2. \A k \in Keys : m'[k] \in {0, m[k]}
  BY <1>1 DEF CacheTypeOK
<1>3. \A q \in Getters : Owns(q)' <=> Owns(q)
  BY <1>1 DEF Owns
<1>4. Owners'
  BY <1>1, <1>2, <1>3 DEF Owners
<1>5. ErrorLeaves'
  BY <1>1, <1>2 DEF ErrorLeaves
<1>6. Kept'
  BY <1>1 DEF Kept
<1> QED
  BY <1>4, <1>5, <1>6

-----------------------------------------------------------------------------
(* The theorems                                                            *)

\* Every step keeps the inductive invariant.
LEMMA CacheInvStep == CacheInv /\ [CacheNext]_cacheVars => CacheInv'
<1> SUFFICES ASSUME CacheInv, [CacheNext]_cacheVars PROVE CacheInv'
  OBVIOUS
<1> USE DEF CacheInv
<1>1. Room'
  BY RoomStep
<1>2. ASSUME NEW p \in Getters, Get(p) PROVE CacheInv'
  <2>1. CacheTypeOK'
    BY <1>2, GetType
  <2>2. ASSUME (\E k \in Keys : GetLoad(p, k)) \/ GetWait(p)
        PROVE  Owners' /\ ErrorLeaves' /\ Kept'
    <3>1. /\ ~Owns(p) /\ ~Owns(p)'
          /\ UNCHANGED <<m, stored, future, keyOf, sweep>>
          /\ \A q \in Getters : q # p => pc'[q] = pc[q] /\ mine'[q] = mine[q] /\ key'[q] = key[q]
      BY <2>2 DEF GetLoad, GetWait, Owns, CacheTypeOK, sweepVars
    <3> QED
      BY <3>1, GetIdle
  <2>3. Owners' /\ ErrorLeaves' /\ Kept'
    BY <1>2, <2>2, GetStoreKeeps, GetSetKeeps, GetRemoveKeeps DEF Get
  <2> QED
    BY <1>1, <2>1, <2>3
<1>3. ASSUME NEW s \in Sweepers, Sweep(s) PROVE CacheInv'
  BY <1>1, <1>3, SweepType, SweepKeeps
<1>4. ASSUME UNCHANGED cacheVars PROVE CacheInv'
  BY <1>1, <1>4 DEF cacheVars, CacheTypeOK, Owners, Owns, ErrorLeaves, Kept
<1> QED
  BY <1>2, <1>3, <1>4 DEF CacheNext

\* The inductive invariant holds in every state of the cache.
LEMMA CacheInvariant == CacheSpec => []CacheInv
  BY CacheInitInv, CacheInvStep, PTL DEF CacheSpec

\* The lazy cache is sound (lazycache.Get, Delete, DeleteAll and Close): every
\* future is set by the one goroutine that stored it, a failed entry leaves, and
\* without deletions a key has one value, in every interleaving of any number
\* of goroutines.
THEOREM LazyCacheSound == CacheSpec => []CacheSound
<1>1. CacheInv => CacheSound
  <2> SUFFICES ASSUME CacheInv PROVE CacheSound
    OBVIOUS
  <2> USE DEF CacheInv
  <2>1. InitOwned
    <3> SUFFICES ASSUME NEW f \in 1..stored, future[f] = "unset"
                 PROVE  Cardinality({p \in Getters : pc[p] \in {"init", "set"} /\ mine[p] = f}) = 1
      BY DEF InitOwned
    <3>1. PICK p \in Getters : pc[p] \in {"init", "set"} /\ mine[p] = f
      BY DEF Owners
    <3>2. {q \in Getters : pc[q] \in {"init", "set"} /\ mine[q] = f} = {p}
      BY <3>1 DEF Owners, Owns
    <3> QED
      BY <3>2, FS_Singleton
  <2>2. OneValuePerKey
    BY DEF Kept, OneValuePerKey
  <2> QED
    BY <2>1, <2>2 DEF CacheSound
<1> QED
  BY <1>1, CacheInvariant, PTL

=============================================================================
