----------------------------- MODULE MCLazyRef -----------------------------
(***************************************************************************)
(* The uses of a lazy reference in one run: a bare one, of any expiry and  *)
(* with or without a finalizer, the one an event client lives behind, and  *)
(* the cache that such references are kept in.                             *)
(***************************************************************************)
EXTENDS EventClientRef, LazyCache

VARIABLE part       \* the part that this behaviour is about

mcVars == <<allVars, cacheVars, part>>

\* A reference on its own, and the cache, have no event client.
NoClientInit ==
    /\ Init
    /\ refClosed = FALSE
    /\ eventClient = 0 /\ created = 0 /\ service = 0
    /\ openClients = {} /\ stopping = {} /\ stranded = {}
    /\ using = [p \in Threads |-> 0]
    /\ registered = [p \in Threads |-> 0]
    /\ checked = "no"

\* The keys of a cache that is not used do not matter.
NoCacheInit == CacheInit /\ \A p \in Getters : key[p] = CHOOSE k \in Keys : TRUE

MCInit ==
    \/ part = "reference" /\ NoClientInit /\ NoCacheInit
    \/ part = "client" /\ ClientInit /\ NoCacheInit
    \/ /\ part = "cache" /\ NoClientInit /\ CacheInit
       /\ config = [expiry |-> "Never", finalizer |-> FALSE]

Bare(A) == part = "reference" /\ A /\ UNCHANGED <<clientVars, cacheVars, part>>
Client(A) == part = "client" /\ A /\ UNCHANGED <<cacheVars, part>>
Cache(A) == part = "cache" /\ A /\ UNCHANGED <<allVars, part>>

MCNext == Bare(Next) \/ Client(ClientNext) \/ Cache(CacheNext)

\* The fairness of the three specifications.
MCFairness ==
    /\ \A p \in Threads : /\ WF_mcVars(Bare(GetFast(p)))
                          /\ WF_mcVars(Bare(GetLocked(p)))
                          /\ WF_mcVars(Client(RefGetFast(p)))
                          /\ WF_mcVars(Client(RefGetLocked(p)))
    /\ \A k \in Closers : /\ WF_mcVars(Bare(NotifyClosing(k)))
                          /\ WF_mcVars(Bare(CloseWait(k)))
                          /\ WF_mcVars(Bare(CloseFinalize(k)))
                          /\ WF_mcVars(Client(RefClose(k)))
                          /\ WF_mcVars(Client(RefCloseFinalize(k)))
    /\ WF_mcVars(Bare(TimerStart)) /\ WF_mcVars(Bare(TimerFires))
    /\ WF_mcVars(Bare(RefreshValue)) /\ WF_mcVars(Bare(ResetValue))
    /\ WF_mcVars(Bare(ClearValue)) /\ WF_mcVars(Bare(TimerStopped))
    /\ SF_mcVars(Bare(TimerClosed))
    /\ WF_mcVars(Bare(TimePasses))
    /\ \A c \in Clients : WF_mcVars(Client(DispatcherStops(c)))
    /\ WF_mcVars(Client(RefTimer)) /\ WF_mcVars(Client(FinalizerChecks))
    /\ WF_mcVars(Client(DispatcherAnswers)) /\ WF_mcVars(Client(Finalizer))
    /\ WF_mcVars(Client(RefTimePasses))
    /\ \A p \in Getters : /\ WF_mcVars(Cache(GetStore(p))) /\ WF_mcVars(Cache(GetInit(p)))
                          /\ WF_mcVars(Cache(GetSet(p))) /\ WF_mcVars(Cache(GetRemove(p)))
                          /\ WF_mcVars(Cache(GetWait(p)))

MCSpec == MCInit /\ [][MCNext]_mcVars /\ MCFairness
=============================================================================
