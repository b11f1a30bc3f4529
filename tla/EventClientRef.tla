--------------------------- MODULE EventClientRef ---------------------------
(***************************************************************************)
(* EventClientRef of pkg/fabsdk/provider/chpvdr/eventserviceref.go: a      *)
(* channel's event client behind a lazy reference with idle expiry.        *)
(*                                                                         *)
(* The module composes LazyRef with the event client: every action of      *)
(* LazyRef is taken together with what the initializer or the finalizer of *)
(* EventClientRef does in it.  Event clients are numbered in the order     *)
(* they are created; 0 is nil.  A client is open from Connect until        *)
(* somebody closes it, the client itself included (a fatal error, or no    *)
(* reconnect attempts left).  Its dispatcher then has a StopEvent in its   *)
(* queue, and stops when it gets there: what was queued before is          *)
(* answered, what is queued after it is not, and its sender, who waits     *)
(* without a timeout, is stranded.                                         *)
(***************************************************************************)
EXTENDS LazyRef, FiniteSets

CONSTANT MaxClients     \* bound on the number of event clients created

ASSUME MaxClientsAssumption == MaxClients \in Nat

VARIABLES
    refClosed,      \* ref.closed
    eventClient,    \* ref.eventClient
    created,        \* how many event clients were created
    openClients,    \* the clients that are connected
    stopping,       \* the clients whose dispatcher has a StopEvent in its queue
    service,        \* the client the lazy reference's value is
    using,          \* the client a thread got from get, before it uses it
    registered,     \* the client on which a thread has a registration
    stranded,       \* the threads whose registration is never answered
    checked         \* what the finalizer in progress found out

clientVars == <<refClosed, eventClient, created, openClients, stopping, service, using, registered,
                stranded, checked>>
allVars == <<vars, clientVars>>

Clients == 1..MaxClients

ClientTypeOK ==
    /\ TypeOK
    /\ refClosed \in BOOLEAN
    /\ created \in 0..MaxClients
    /\ eventClient \in 0..created /\ service \in 0..created
    /\ openClients \subseteq 1..created /\ stopping \subseteq 1..created
    /\ using \in [Threads -> 0..created]
    /\ registered \in [Threads -> 0..created]
    /\ stranded \subseteq Threads
    /\ checked \in {"no", "asked", "idle", "busy", "force", "nil", "stranded"}

\* NewEventClientRef
ClientInit ==
    /\ Init
    /\ config = [expiry |-> "LastAccessed", finalizer |-> TRUE]
    /\ starting = 0
    /\ refClosed = FALSE
    /\ eventClient = 0 /\ created = 0 /\ service = 0
    /\ openClients = {} /\ stopping = {} /\ stranded = {}
    /\ using = [p \in Threads |-> 0]
    /\ registered = [p \in Threads |-> 0]
    /\ checked = "no"

\* The lazy reference's lock is free: a finalizer that has asked the client
\* for its registrations still holds it, for ever if it gets no answer.
LockFree == checked = "no"

Registrations(c) == {p \in Threads : registered[p] = c}

\* Close of the event client: it disconnects and queues a StopEvent, for whose
\* answer it waits no longer than stopTimeout.  Only the first Close does.
CloseClient(c) ==
    /\ openClients' = openClients \ {c}
    /\ stopping' = stopping \cup (openClients \cap {c})

\* HandleStopEvent: the registrations' channels are closed, and the dispatcher
\* takes nothing from its queue any more.
DispatcherStops(c) ==
    /\ c \in stopping
    /\ checked = "asked" => c # eventClient
    /\ stopping' = stopping \ {c}
    /\ registered' = [p \in Threads |-> IF registered[p] = c THEN 0 ELSE registered[p]]
    /\ UNCHANGED <<vars, refClosed, eventClient, created, openClients, service, using, stranded, checked>>

-----------------------------------------------------------------------------
(* get: both closed flags are checked, then the lazy reference is read.    *)

RefGetStart(p) ==
    /\ using[p] = 0 /\ p \notin stranded
    /\ GetStart(p)
    /\ UNCHANGED clientVars

RefGetFast(p) ==
    /\ GetFast(p)
    /\ using' = [using EXCEPT ![p] = IF isSet THEN service ELSE 0]
    /\ UNCHANGED <<refClosed, eventClient, created, openClients, stopping, service, registered,
                   stranded, checked>>

\* The initializer: the client that is still there, or a new one.
Initializer ==
    \/ /\ eventClient # 0
       /\ service' = eventClient
       /\ UNCHANGED <<eventClient, created, openClients>>
    \/ /\ eventClient = 0
       /\ created < MaxClients
       /\ created' = created + 1
       /\ eventClient' = created + 1
       /\ openClients' = openClients \cup {created + 1}
       /\ service' = created + 1

RefGetLocked(p) ==
    /\ LockFree
    /\ GetLocked(p)
    /\ \/ made' > made /\ Initializer
       \/ made' = made /\ UNCHANGED <<eventClient, created, openClients, service>>
    /\ using' = [using EXCEPT ![p] = IF ref' # 0 THEN service' ELSE 0]
    /\ UNCHANGED <<refClosed, stopping, registered, stranded, checked>>

-----------------------------------------------------------------------------
(* What a thread does with the service get returned.                       *)

\* RegisterBlockEvent, RegisterTxStatusEvent, ...: a stopped client refuses, one
\* that is about to stop never answers.
Register(p) ==
    /\ using[p] # 0 /\ registered[p] = 0
    /\ using' = [using EXCEPT ![p] = 0]
    /\ registered' = [registered EXCEPT ![p] = IF using[p] \in openClients THEN using[p] ELSE 0]
    /\ stranded' = IF using[p] \in stopping THEN stranded \cup {p} ELSE stranded
    /\ UNCHANGED <<vars, refClosed, eventClient, created, openClients, stopping, service, checked>>

\* Unregister goes to the client get returned, not to the one that registered.
Unregister(p) ==
    /\ using[p] # 0 /\ registered[p] # 0
    /\ using' = [using EXCEPT ![p] = 0]
    /\ registered' = [registered EXCEPT ![p] = IF @ = using[p] THEN 0 ELSE @]
    /\ UNCHANGED <<vars, refClosed, eventClient, created, openClients, stopping, service, stranded, checked>>

\* The client closes itself: a fatal disconnect, or no reconnect attempt left.
ClientGivesUp(c) ==
    /\ c \in openClients
    /\ CloseClient(c)
    /\ UNCHANGED <<vars, refClosed, eventClient, created, service, using, registered, stranded, checked>>

-----------------------------------------------------------------------------
(* The timer, with the finalizer of EventClientRef.                        *)

RefTimer ==
    /\ \/ LockFree /\ TimerStart
       \/ TimerFires
       \/ ClearValue
       \/ TimerClosed
       \/ TimerStopped
    /\ UNCHANGED clientVars

\* The finalizer decides.  CloseIfIdle queues the question how many
\* registrations there are and waits for the answer, without a timeout: a
\* client that has stopped refuses the question, one that is about to stop
\* takes it and never answers.
FinalizerChecks ==
    /\ timer = "expired" /\ checked = "no"
    /\ checked' = IF eventClient = 0 THEN "nil"
                  ELSE IF refClosed THEN "force"
                  ELSE IF eventClient \in openClients THEN "asked"
                  ELSE IF eventClient \in stopping THEN "stranded"
                  ELSE "busy"
    /\ UNCHANGED <<vars, refClosed, eventClient, created, openClients, stopping, service, using,
                   registered, stranded>>

\* handleRegistrationInfoEvent: the dispatcher answers.
DispatcherAnswers ==
    /\ checked = "asked"
    /\ checked' = IF Registrations(eventClient) = {} THEN "idle" ELSE "busy"
    /\ UNCHANGED <<vars, refClosed, eventClient, created, openClients, stopping, service, using,
                   registered, stranded>>

\* The finalizer knows what to do.
Decided == checked \in {"idle", "busy", "force", "nil"}

\* Slip: the client is forgotten although it was not closed.
Finalizer_AlwaysForgets ==
    /\ Decided
    /\ ResetValue
    /\ checked' = "no"
    /\ IF checked \in {"idle", "force"}
       THEN CloseClient(eventClient)
       ELSE UNCHANGED <<openClients, stopping>>
    /\ eventClient' = 0
    /\ UNCHANGED <<refClosed, created, service, using, registered, stranded>>

\* Slip: the answer to the question is not used.
Finalizer_NeverCloses ==
    /\ Decided
    /\ ResetValue
    /\ checked' = "no"
    /\ UNCHANGED <<refClosed, eventClient, created, openClients, stopping, service, using, registered,
                   stranded>>

\* The finalizer acts on its decision.
Finalizer ==
    /\ Decided
    /\ ResetValue
    /\ checked' = "no"
    /\ IF checked \in {"idle", "force"}
       THEN CloseClient(eventClient)
       ELSE UNCHANGED <<openClients, stopping>>
    /\ eventClient' = IF checked = "idle" THEN 0 ELSE eventClient
    /\ UNCHANGED <<refClosed, created, service, using, registered, stranded>>

\* The clock
RefTimePasses == TimePasses /\ UNCHANGED clientVars

-----------------------------------------------------------------------------
(* Close.  The flag makes every call after the first return at once.       *)

RefCloseStart ==
    /\ ~refClosed
    /\ refClosed' = TRUE
    /\ UNCHANGED <<vars, eventClient, created, openClients, stopping, service, using, registered,
                   stranded, checked>>

RefClose(k) ==
    /\ refClosed
    /\ \/ ~closed /\ CloseStart(k)
       \/ LockFree /\ NotifyClosing(k)
       \/ CloseWait(k)
    /\ UNCHANGED clientVars

\* The lazy reference's finalize: the finalizer runs only if a value is set,
\* and now closes the client whatever its registrations.
RefCloseFinalize(k) ==
    /\ CloseFinalize(k)
    /\ IF isSet /\ eventClient # 0
       THEN CloseClient(eventClient)
       ELSE UNCHANGED <<openClients, stopping>>
    /\ UNCHANGED <<refClosed, eventClient, created, service, using, registered, stranded, checked>>

-----------------------------------------------------------------------------
ClientNext ==
    \/ \E p \in Threads : \/ RefGetStart(p)
                          \/ RefGetFast(p)
                          \/ RefGetLocked(p)
                          \/ Register(p)
                          \/ Unregister(p)
    \/ \E c \in Clients : ClientGivesUp(c) \/ DispatcherStops(c)
    \/ RefTimer
    \/ FinalizerChecks
    \/ DispatcherAnswers
    \/ Finalizer
    \/ RefTimePasses
    \/ RefCloseStart
    \/ \E k \in Closers : RefClose(k) \/ RefCloseFinalize(k)

ClientSpec == ClientInit /\ [][ClientNext]_allVars

ClientFairness ==
    /\ \A p \in Threads : WF_allVars(RefGetFast(p)) /\ WF_allVars(RefGetLocked(p))
    /\ \A c \in Clients : WF_allVars(DispatcherStops(c))
    /\ \A k \in Closers : WF_allVars(RefClose(k)) /\ WF_allVars(RefCloseFinalize(k))
    /\ WF_allVars(RefTimer) /\ WF_allVars(FinalizerChecks)
    /\ WF_allVars(DispatcherAnswers) /\ WF_allVars(Finalizer)
    /\ WF_allVars(RefTimePasses)

FairClientSpec == ClientSpec /\ ClientFairness

-----------------------------------------------------------------------------
(* Properties                                                              *)

\* No event client is orphaned: one that is connected is the one the reference
\* knows, so it can still be reused or closed, and there is never a second one
\* (initializer, finalizer).
NoOrphanClient == openClients \subseteq {eventClient}

\* An idle client is closed: without registrations, and with nobody reading the
\* reference, the event client does not stay connected for ever
\* ("When the idle timeout has been reached then the event client is closed").
\* It speaks of a client that is idle while the timer waits: an Unregister that
\* falls between the finalizer's question and the reset is not noticed before
\* the next access.
IdleClientCloses ==
    timer = "select" /\ ref # 0 /\ openClients # {} /\ ~recent /\ (\A p \in Threads : registered[p] = 0)
        ~> \/ openClients = {} \/ refClosed
           \/ \E p \in Threads : registered[p] # 0 \/ getting[p] # "out" \/ using[p] # 0

\* "Close immediately closes the connection." (eventserviceref.go): when Close
\* returns, no event client is connected any more.
CloseCloses ==
    [][\A k \in Closers : closing[k] = "finalize" /\ closing'[k] = "returned" => openClients' = {}]_allVars

\* The finalizer waits under the lock for a client that was about to stop when it
\* was asked (CloseIfIdle), and that never answers.  It happens to no reference
\* but the event client's.
Stuck == checked = "stranded"

\* Close returns, wherever the timer is: about to start, handling an expiry, or
\* at its select; only the Close of an event client's reference whose finalizer
\* is stuck does not (notifyClosing waits for the lock).
CloseReturns ==
    (\E k \in Closers : closing[k] = "notify") ~> (\E k \in Closers : closing[k] = "returned") \/ Stuck

\* A value that nobody reads expires: a value once initialised has a timer, and
\* the timer does not get lost (ensureTimerStarted, checkTimeStarted), unless its
\* finalizer is stuck.
IdleExpires ==
    isSet /\ config.expiry \in {"LastAccessed", "LastInitialized"} /\ ~recent
        ~> ~isSet \/ recent \/ closed \/ Stuck

\* What nobody uses is given up: values expire, and idle clients are closed.
IdleEnds == IdleExpires /\ IdleClientCloses
=============================================================================
