------------------------------ MODULE Selection ------------------------------
(***************************************************************************)
(* Selection of endorsers with Fabric's discovery (fabricselection): from  *)
(* the descriptor of a chaincode to the peers a proposal is sent to, with  *)
(* the sorters and balancers that order the peers of a group.              *)
(*                                                                         *)
(* Where the code draws lots an operator yields the set of its outcomes.   *)
(* A request is [config, reported, msps, accepts, policy]: the addresses   *)
(* of the configuration, what the discovery service was told, the orgs of  *)
(* the channel, the addresses that the caller accepts and the policy.      *)
(***************************************************************************)
EXTENDS Discovery, SequencesExt, Functions

Orders(s) == {[i \in DOMAIN s |-> s[p[i]]] : p \in
                      {f \in [DOMAIN s -> DOMAIN s] : Range(f) = DOMAIN s}}
Rotations(s) == {SubSeq(s, i + 1, Len(s)) \o SubSeq(s, 1, i) : i \in 0 .. Len(s) - 1}

\* The round robin balancer turns the list by the counter, which other calls
\* with lists of other lengths move as well: any turn may be next.
Balance(balancer, peers) == IF balancer = "random" THEN Orders(peers) ELSE Rotations(peers)

MaxBlockHeight(peers) == Max({0} \cup {peers[i].height : i \in DOMAIN peers})

Descending(peers) == {s \in Orders(peers) : \A i, j \in DOMAIN s : i < j => s[i].height >= s[j].height}

\* Sort of the block height sorter: those close to the highest first, in the
\* balancer's order, then the others by height.
SortByHeight(peers, lag, balancer) ==
  IF Len(peers) <= 1 THEN {peers}
  ELSE IF lag < 0 \/ MaxBlockHeight(peers) <= lag THEN Balance(balancer, peers)
  ELSE LET cutoff == MaxBlockHeight(peers) - lag
           preferred == SelectSeq(peers, LAMBDA p : p.height >= cutoff)
           other == SelectSeq(peers, LAMBDA p : p.height < cutoff)
       IN  {a \o b : a \in Balance(balancer, preferred), b \in Descending(other)}

\* The sorter that the channel's policy names.  It is made with the balancer of
\* the policy only: the lag threshold of the policy does not reach it.
DefaultBlockHeightLagThreshold == 5
SortPeers(peers, policy) ==
  IF policy.strategy = "balanced" THEN Balance(policy.balancer, peers)
  ELSE SortByHeight(peers, DefaultBlockHeightLagThreshold, policy.balancer)

----------------------------------------------------------------------------
(* The filter that is applied to the endorsers of a group                   *)

AsPeerValue(p, config) == AsPeer(p, config)
URLOf(p, config) == AsPeerValue(p, config).url
Known(req) == {p.url : p \in AsChannelPeers(req.reported, req.config, req.msps)}

SortByURL(peers) == SetToSortSeq(peers, LAMBDA a, b : a.url < b.url)

\* filterDiscovered and filterPeers: known to the discovery service, and
\* accepted by the caller.
FilterPeers(values, known, accepts) ==
  SelectSeq(values, LAMBDA v : v.url \in known /\ v.url \in accepts)

\* Filter: the orders in which the usable endorsers may come, as addresses.
SelectionFilter(endorsers, req) ==
  LET values == SortByURL({AsPeerValue(p, req.config) : p \in endorsers})
      usable == FilterPeers(values, Known(req), req.accepts)
  IN  {[i \in DOMAIN s |-> s[i].url] : s \in SortPeers(usable, req.policy)}

\* A group that is left with no endorser, with the balanced strategy and the
\* round robin balancer, asks the counter for one of none.
FilterPanics(endorsers, req) ==
  /\ req.policy.strategy = "balanced" /\ req.policy.balancer = "roundRobin"
  /\ \A p \in endorsers : URLOf(p, req.config) \notin Known(req) \cap req.accepts

----------------------------------------------------------------------------
(* Layouts                                                                  *)

\* selectPeersForLayout: the first of each group, as many as it asks for;
\* the layout is given up when a group has too few.
SelectPeersForLayout(desc, layout, req) ==
  {UNION {ToSet(SubSeq(pick[g], 1, layout[g])) : g \in DOMAIN layout} : pick \in
     {f \in [DOMAIN layout -> UNION {SelectionFilter(desc.groups[g], req) : g \in DOMAIN layout}] :
        \A g \in DOMAIN layout : f[g] \in SelectionFilter(desc.groups[g], req) /\ Len(f[g]) >= layout[g]}}

\* Endorsers: the layouts in a random order until one can be satisfied.
Endorsers(desc, req) == UNION {SelectPeersForLayout(desc, layout, req) : layout \in desc.layouts}

\* getEndorsers: the failure to satisfy any layout is transient, and retried
\* with the peers that the discovery service has by then.
IsTransient(error) == error \in {"failed constructing descriptor", "no endorsement combination"}

\* query: the first response that has a descriptor with a layout that can be
\* satisfied without any filter; else a transient error of the server is
\* reported alone, and otherwise all errors together.  A response that was
\* cancelled is read like one that came, and there is nothing to read.
QueryEndorsers(arrivals) ==
  LET good == {i \in DOMAIN arrivals : arrivals[i].kind \in {"descriptor", "canceled"}}
      transient == {i \in DOMAIN arrivals : arrivals[i].kind = "refused" /\ IsTransient(arrivals[i].error)}
  IN  IF good # {} THEN [kind |-> IF arrivals[Min(good)].kind = "canceled" THEN "panic" ELSE "descriptor", at |-> Min(good)]
      ELSE IF transient # {} THEN [kind |-> "retryable"] ELSE [kind |-> "error"]

\* GetEndorsersForChaincode: asPeers leaves out what cannot be created.
GetEndorsers(desc, req) ==
  LET found == Endorsers(desc, req)
      creatable == {URLOf(p, req.config) : p \in {q \in UNION Range(desc.groups) : Creatable(q)}}
  IN  IF found = {} THEN {[ok |-> FALSE, urls |-> {}]}
      ELSE {[ok |-> TRUE, urls |-> urls \cap creatable] : urls \in found}

----------------------------------------------------------------------------
(* What a selection promises                                                *)

\* Endorsers of a successful call satisfy a layout of the descriptor with
\* peers that are known, accepted and can be reached; and the call succeeds
\* whenever they can satisfy one.  Among the endorsers of a group none lags
\* behind one that was left out unless it is within five blocks of the highest:
\* the sorter's own threshold, whatever BlockHeightLagThreshold the channel's
\* SelectionPolicy has.
SelectsLayout(desc, req) ==
  LET usable == Known(req) \cap req.accepts
      members(g) == {URLOf(p, req.config) : p \in desc.groups[g]}
      serves(layout, urls) == \A g \in DOMAIN layout : Cardinality(members(g) \cap urls) >= layout[g]
      possible == \E layout \in desc.layouts : serves(layout, usable)
      height(u) == Max({p.height : p \in {q \in UNION Range(desc.groups) : URLOf(q, req.config) = u}})
      fresh(layout, urls) == \A g \in DOMAIN layout :
          LET ours == members(g) \cap usable
          IN  \A u \in ours \cap urls : \A v \in ours \ urls :
                height(v) > height(u) => height(u) + 5 >= Max({height(w) : w \in ours})
  IN  (\A g \in DOMAIN desc.groups : ~FilterPanics(desc.groups[g], req)) => \A res \in GetEndorsers(desc, req) :
        /\ res.ok = possible
        /\ res.urls \subseteq usable
        /\ res.ok => \E layout \in desc.layouts :
             /\ serves(layout, res.urls)
             /\ (Cardinality(DOMAIN layout) = 1 /\ req.policy.strategy = "blockHeight") => fresh(layout, res.urls)

\* The query for a descriptor fails for good only if no peer gave one and
\* none refused with an error that may pass.  Nothing is said of answers whose
\* error is the cancellation of the request: they are read without a response.
QueryFails(arrivals) ==
  (\A i \in DOMAIN arrivals : arrivals[i].kind # "canceled") =>
    (QueryEndorsers(arrivals).kind = "error" <=> \A i \in DOMAIN arrivals :
      \/ arrivals[i].kind = "unreachable"
      \/ arrivals[i].kind = "refused" /\ ~IsTransient(arrivals[i].error))
=============================================================================
