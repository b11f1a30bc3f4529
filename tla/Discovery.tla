------------------------------ MODULE Discovery ------------------------------
(***************************************************************************)
(* The discovery client of Fabric (discovery/client), the client that asks *)
(* several peers at once (pkg/fab/discovery) and the discovery services    *)
(* that the channel and the local context use.                             *)
(*                                                                         *)
(* A query is [type, channel, chains]; a request is a sequence of them.  A *)
(* result of the server is an error or a value of the type it answers.  A  *)
(* peer on the wire is [endpoint, msp, height, alive, state]: alive and    *)
(* state say whether the gossip messages are "ok", missing ("nil") or not  *)
(* what they should be ("bad").  Requests and answers are matched by keys. *)
(* Addresses are numbers, ordered as the strings are.                      *)
(***************************************************************************)
EXTENDS Integers, Sequences, FiniteSets, FiniteSetsExt

NoAddress == 0

ValidateInvocationChain(chain) == chain # << >> /\ \A i \in DOMAIN chain : chain[i] # ""

ValidateInterests(chains) ==
  chains # << >> /\ \A i \in DOMAIN chains : ValidateInvocationChain(chains[i])

\* The key of a query: its channel, and for a peers query its chain.
QueryKey(q) ==
  [type |-> q.type, k |-> IF q.type = "peers" THEN <<q.channel, q.chains>>
                          ELSE IF q.type = "local" THEN <<"", << >> >> ELSE <<q.channel>>]

\* queryMapping: the index of the last query with a key.
QueryMapping(req) ==
  [key \in {QueryKey(req[i]) : i \in DOMAIN req} |-> Max({i \in DOMAIN req : QueryKey(req[i]) = key})]

----------------------------------------------------------------------------
(* Reading the answer                                                       *)

ValidPeer(p, type) == p.alive = "ok" /\ (type = "local" \/ p.state = "ok")

\* peersForChannel: one malformed peer spoils the membership of all.
PeersForChannel(members, type) ==
  [ok |-> \A p \in members : ValidPeer(p, type), peers |-> members]

\* Every group of a layout has endorsers, and each of these is well formed.
CreateEndorsementDescriptor(desc) ==
  [ok |-> /\ \A layout \in desc.layouts : DOMAIN layout \subseteq DOMAIN desc.groups
          /\ \A g \in DOMAIN desc.groups : \A p \in desc.groups[g] : ValidPeer(p, "endorsers"),
   desc |-> desc]

\* Slip: the descriptors are taken in the order they come.
MapEndorsersOfChannel_AnyOrder(content, chains) ==
  CASE Len(content) < Len(chains) -> "error"
    [] \E i \in DOMAIN content : i <= Len(chains) /\ ~CreateEndorsementDescriptor(content[i]).ok -> "error"
    [] Len(content) > Len(chains) -> "panic"
    [] OTHER -> "ok"

\* mapEndorsersOfChannel: one descriptor for each chain, in the same order.
\* More descriptors than chains run past the chains.
MapEndorsersOfChannel(content, chains) ==
  CASE Len(content) < Len(chains) -> "error"
    [] \E i \in DOMAIN content : i <= Len(chains)
          /\ \/ content[i].chaincode # chains[i][1]
             \/ ~CreateEndorsementDescriptor(content[i]).ok -> "error"
    [] Len(content) > Len(chains) -> "panic"
    [] OTHER -> "ok"

\* An answer is of the type that was asked for, or an error of the server.
MapConfig(result) == IF result.type \in {"config", "error"} THEN "ok" ELSE "error"

MapPeerMembership(result, type) ==
  IF \/ result.type = "error"
     \/ result.type = "peers" /\ PeersForChannel(result.peers, type).ok THEN "ok" ELSE "error"

MapEndorsers(result, chains) ==
  CASE result.type = "error" -> "ok"
    [] result.type = "endorsers" -> MapEndorsersOfChannel(result.content, chains)
    [] OTHER -> "error"

\* computeResponse: each result has to be fit for the query that its key
\* maps to; what is not, or another number of results, fails the whole.
ComputeResponse(req, results) ==
  LET index == QueryMapping(req)
      mapped(q, result) == CASE q.type = "config" -> MapConfig(result)
                             [] q.type \in {"peers", "local"} -> MapPeerMembership(result, q.type)
                             [] q.type = "endorsers" -> MapEndorsers(result, q.chains)
      bad == {mapped(req[index[key]], results[index[key]]) : key \in DOMAIN index} \ {"ok"}
  IN  IF Len(results) # Len(req) THEN "error" ELSE IF bad = {} THEN "ok" ELSE CHOOSE b \in bad : TRUE

\* parsePeers and Config: what a reader finds under a key.
Lookup(req, results, key) ==
  IF key \in DOMAIN QueryMapping(req) THEN results[QueryMapping(req)[key]] ELSE [type |-> "notFound"]

\* Endorsers: first the error of the query, then the descriptor of a chain.
\* Each chain of the query has a key of its own.
EndorsersDescriptor(req, results, channel, chain) ==
  LET key == [type |-> "endorsers", k |-> <<channel>>]
      result == Lookup(req, results, key)
      chains == req[QueryMapping(req)[key]].chains
      at == {i \in DOMAIN chains : chains[i] = chain}
  IN  IF result.type # "endorsers" THEN [ok |-> FALSE]
      ELSE IF at = {} THEN [ok |-> FALSE] ELSE [ok |-> TRUE, desc |-> result.content[Max(at)]]

----------------------------------------------------------------------------
(* Asking several peers                                                     *)

\* PickRandomNPeerConfigs: all of them when n is none of 1 .. Len.
PickRandomN(peers, n) == IF n \in 1 .. Cardinality(peers) THEN kSubset(n, peers) ELSE {peers}

\* A response of one target, as it arrives: [err, response].  A target that
\* could not be asked has an error and no response; where the error says that the
\* context was cancelled, it is not passed on and there is no response either.
NoResponse == [type |-> "none"]
NotAsked == [err |-> TRUE, result |-> NoResponse]
Canceled == [err |-> FALSE, result |-> NoResponse]

\* asPeer: a peer that has no address cannot be created and is passed over.
AsPeer(p, config) ==
  [url |-> IF p.endpoint \in DOMAIN config THEN config[p.endpoint] ELSE p.endpoint,
   msp |-> p.msp, height |-> p.height]
Creatable(p) == p.endpoint # NoAddress

\* evaluate and asPeers of the channel service: the orgs of the channel only.
AsChannelPeers(members, config, msps) ==
  {AsPeer(p, config) : p \in {q \in members : Creatable(q) /\ q.msp \in msps}}

FilterLocalMSP(members, config, msp) ==
  {AsPeer(p, config) : p \in {q \in members : Creatable(q) /\ q.msp = msp}}

\* doQueryPeers of the channel service: the first response without an error
\* is taken, whatever comes after it; ForChannel of one that is not there panics.
QueryChannelPeers(arrivals, config, msps) ==
  LET stop == {i \in DOMAIN arrivals : ~arrivals[i].err /\ arrivals[i].result.type \in {"peers", "none"}}
      first == arrivals[Min(stop)].result
  IN  IF stop = {} THEN [ok |-> FALSE, peers |-> {}, panic |-> FALSE]
      ELSE IF first = NoResponse THEN [ok |-> FALSE, peers |-> {}, panic |-> TRUE]
      ELSE [ok |-> TRUE, peers |-> AsChannelPeers(first.peers, config, msps), panic |-> FALSE]

\* doQueryPeers of the local service: it does not look at the error of the
\* response, and calls ForLocal on a response that is not there.
QueryLocalPeers(arrivals, config, msp) ==
  LET stop == {i \in DOMAIN arrivals : arrivals[i].result.type \in {"peers", "none"}}
      first == arrivals[Min(stop)].result
  IN  IF stop = {} THEN [ok |-> FALSE, peers |-> {}, panic |-> FALSE]
      ELSE IF first = NoResponse THEN [ok |-> FALSE, peers |-> {}, panic |-> TRUE]
      ELSE [ok |-> TRUE, peers |-> FilterLocalMSP(first.peers, config, msp), panic |-> FALSE]

\* The local targets: the configured peers of the client's own MSP.
LocalTargets(networkPeers, msp) == {p \in networkPeers : p.msp = msp}

\* The static services: every configured peer, or an error when one of them
\* cannot be created or none is configured.
StaticPeers(channelPeers) ==
  IF channelPeers # {} /\ \A p \in channelPeers : Creatable(p)
  THEN [ok |-> TRUE, peers |-> channelPeers] ELSE [ok |-> FALSE, peers |-> {}]

StaticLocalPeers(networkPeers, msp) ==
  IF \A p \in networkPeers : Creatable(p)
  THEN [ok |-> TRUE, peers |-> LocalTargets(networkPeers, msp)] ELSE [ok |-> FALSE, peers |-> {}]

FilterTargets(peers, accepts) == peers \cap accepts

\* The peers that events may come from: those whose channel configuration
\* does not say otherwise, under the address they were discovered with.
EventEndpoints(peers, channelPeers, config) ==
  LET chPeer(url) == {c \in channelPeers : c.url = url}
      known == {p \in peers : chPeer(p.url) # {} \/ p.url \in DOMAIN config}
      configOf(p) == IF chPeer(p.url) # {} THEN p.url ELSE config[p.url]
  IN  {p \in known : \A c \in chPeer(configOf(p)) : c.eventSource}

----------------------------------------------------------------------------
(* What the reader of an answer may rely on                                 *)

\* From a response that was accepted a reader gets what it asks for: for every
\* chain of the last query for endorsers the descriptor of the chaincode that the
\* chain begins with, whatever else was asked and in whatever order, unless the
\* server refused; and a membership without a malformed peer.
ReadsWhatItAsked(req, results) ==
  ComputeResponse(req, results) = "ok" =>
    \A i \in DOMAIN req :
      LET q == req[i]
          result == Lookup(req, results, QueryKey(q))
          last == \A j \in DOMAIN req : j > i => QueryKey(req[j]) # QueryKey(q)
          descriptor(chain) == EndorsersDescriptor(req, results, q.channel, chain)
      IN  /\ q.type = "endorsers" /\ last /\ result.type # "error" =>
               \A chain \in {q.chains[n] : n \in DOMAIN q.chains} : descriptor(chain).ok /\ descriptor(chain).desc.chaincode = chain[1]
          /\ q.type \in {"peers", "local"} /\ result.type # "error" => \A p \in result.peers : ValidPeer(p, q.type)

\* Of responses that came: a channel's discovery service succeeds when one peer
\* of those asked gives a membership, and it names orgs of the channel only, each
\* peer as one of the answers has it.
ChannelPeersTrue(arrivals, config, msps) ==
  LET res == QueryChannelPeers(arrivals, config, msps)
  IN  (\A i \in DOMAIN arrivals : arrivals[i] # Canceled) =>
      /\ ~res.panic
      /\ res.ok <=> \E i \in DOMAIN arrivals : ~arrivals[i].err /\ arrivals[i].result.type = "peers"
      /\ \A p \in res.peers : p.msp \in msps /\ p.url # NoAddress
      /\ res.ok => \E i \in DOMAIN arrivals :
           /\ arrivals[i].result.type = "peers"
           /\ \A p \in arrivals[i].result.peers :
                p.msp \in msps /\ Creatable(p) => AsPeer(p, config) \in res.peers

\* The local service names peers of the client's own org only; and if all the
\* targets could be asked, it succeeds when one of them gives a membership.  One
\* that could not be asked, and answers first, makes it call a nil response.
LocalPeersTrue(arrivals, config, msp) ==
  LET res == QueryLocalPeers(arrivals, config, msp)
  IN  /\ \A p \in res.peers : p.msp = msp
      /\ (\A i \in DOMAIN arrivals : arrivals[i].result # NoResponse) =>
           ~res.panic /\ (res.ok <=> \E i \in DOMAIN arrivals : arrivals[i].result.type = "peers")
=============================================================================
