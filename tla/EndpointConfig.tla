---------------------------- MODULE EndpointConfig ----------------------------
(***************************************************************************)
(* The endpoint configuration (pkg/fab/endpointconfig.go): how the peers,  *)
(* orderers, organizations, channels and entity matchers of the file       *)
(* become the endpoints that the SDK dials, and how a transactor finds its *)
(* orderers among them.                                                    *)
(*                                                                         *)
(* e is what was unmarshalled: [peers, orderers : name -> [url, tls, opts],*)
(* orgs : name -> [msp, peers], channels : name -> [peers, orderers,       *)
(* policies], peerMatchers, ordererMatchers, channelMatchers, client,      *)
(* systemPool].  An address is [scheme, host, port]; a name has port 0.    *)
(* A matcher is [pattern, ignore, host, url, ssl], its pattern the hosts   *)
(* that the expression matches.  A number that is not set is 0.            *)
(***************************************************************************)
EXTENDS Integers, Sequences, FiniteSets, FiniteSetsExt, TLC

Default == "_default"
Name(h) == [scheme |-> "", host |-> h, port |-> 0]
NoURL == Name("")
DefaultPeerPort == 7051
DefaultOrdererPort == 7050

OrElse(v, d) == IF v = 0 THEN d ELSE v
Fill(own, dflt) == [i \in DOMAIN own |-> OrElse(own[i], dflt[i])]

----------------------------------------------------------------------------
(* Values                                                                   *)

\* Lookup: the first of the backends that has the key; 0 when none has it.
Lookup(backends, key) ==
  LET has == {i \in DOMAIN backends : key \in DOMAIN backends[i]}
  IN  IF has = {} THEN 0 ELSE backends[Min(has)][key]

DefaultTimeouts ==
  [peerConnection |-> 10, peerResponse |-> 180, greylistExpiry |-> 10, eventReg |-> 15,
   ordererConnection |-> 15, ordererResponse |-> 120, query |-> 180, execute |-> 180, resMgmt |-> 180,
   discoveryConnection |-> 15, discoveryResponse |-> 15, connectionIdle |-> 30, eventServiceIdle |-> 120,
   channelConfig |-> 90, channelMembership |-> 60, discovery |-> 5, selection |-> 5, sweep |-> 15]

Timeout(backends, type) ==
  IF type \in DOMAIN DefaultTimeouts THEN OrElse(Lookup(backends, type), DefaultTimeouts[type]) ELSE 0

NoRetry == [attempts |-> 0, initial |-> 0, max |-> 0, factor |-> 0, codes |-> 0]
DiscoveryRetry == [attempts |-> 6, initial |-> 500, max |-> 5000, factor |-> 175, codes |-> 1]
Random == 1
RoundRobin == 2
BlockHeightPriority == 1
PreferOrg == 1
ByThreshold == 1
LagThreshold == 5

\* The policies of a network without a default channel.
DefaultChannelPolicies ==
  [query |-> [targets |-> 2, responses |-> 1, retry |-> NoRetry],
   discovery |-> [targets |-> 2, responses |-> 1, retry |-> DiscoveryRetry],
   selection |-> [strategy |-> BlockHeightPriority, balancer |-> Random, lag |-> LagThreshold],
   event |-> [resolver |-> PreferOrg, mode |-> ByThreshold, balancer |-> Random, monitor |-> 0, period |-> 5,
              lag |-> LagThreshold, reconnect |-> 10]]

Targets(own, dflt, retry) ==
  [targets |-> OrElse(own.targets, dflt.targets), responses |-> OrElse(own.responses, dflt.responses), retry |-> retry]

\* loadDefaultChannelPolicies: what the default channel leaves open.  Of the
\* retry options only the codes of the discovery are filled in.
LoadDefaultChannelPolicies(e) ==
  LET p == IF Default \in DOMAIN e.channels THEN e.channels[Default].policies ELSE DefaultChannelPolicies
      d == DefaultChannelPolicies
  IN  [discovery |-> Targets(p.discovery, d.discovery, [p.discovery.retry EXCEPT !.codes = OrElse(@, 1)]),
       selection |-> Fill(p.selection, [d.selection EXCEPT !.balancer = RoundRobin]),
       query |-> Targets(p.query, d.query, p.query.retry),
       event |-> Fill(p.event, d.event)]

\* addMissingRetryOpts: the number of attempts is not filled in.
AddMissingRetryOpts(own, dflt) ==
  IF own = NoRetry THEN dflt ELSE [Fill(own, dflt) EXCEPT !.attempts = own.attempts]

AddMissingTargets(own, dflt) == Targets(own, dflt, AddMissingRetryOpts(own.retry, dflt.retry))

\* The lag of the selection comes from the constant, not from the default
\* channel.
AddMissingSelection(own, dflt) == Fill(own, [dflt EXCEPT !.lag = LagThreshold])

AddMissingEventService(own, dflt) == Fill(own, dflt)

AddMissingChannelPolicies(e, p) ==
  LET d == LoadDefaultChannelPolicies(e)
  IN  [discovery |-> AddMissingTargets(p.discovery, d.discovery),
       selection |-> AddMissingSelection(p.selection, d.selection),
       query |-> AddMissingTargets(p.query, d.query),
       event |-> AddMissingEventService(p.event, d.event)]

----------------------------------------------------------------------------
(* Matchers and endpoints                                                   *)

\* The first matcher whose expression matches decides; 0 is none.
FirstMatch(matchers, key) ==
  LET ms == {i \in DOMAIN matchers : key.host \in matchers[i].pattern} IN IF ms = {} THEN 0 ELSE Min(ms)

\* regexMatchAndReplace: "$" stands for what the expression matched.
RegexMatchAndReplace(repl, key) == IF repl.host = "$" THEN [repl EXCEPT !.host = key.host] ELSE repl

\* Slip: any matcher that matches may have the endpoint ignored.
ToBeIgnored_Any(matchers, name) ==
  \E i \in DOMAIN matchers : name \in matchers[i].pattern /\ matchers[i].ignore

\* isPeerToBeIgnored, isOrdererToBeIgnored.
ToBeIgnored(matchers, name) ==
  LET i == FirstMatch(matchers, Name(name)) IN i # 0 /\ matchers[i].ignore

DefaultOpts == [time |-> 0, timeout |-> 20, permit |-> FALSE, failFast |-> FALSE, insecure |-> FALSE]

\* loadDefaultPeer, loadDefaultOrderer: the URL of the default is not used.
\* Options are written into the map of the default, which is nil when the
\* default has none.
LoadDefault(entities) ==
  IF Default \in DOMAIN entities
  THEN [url |-> NoURL, tls |-> entities[Default].tls, opts |-> entities[Default].opts @@ DefaultOpts]
  ELSE [url |-> NoURL, tls |-> "none", opts |-> DefaultOpts]
LoadDefaultPanics(entities) == Default \in DOMAIN entities /\ entities[Default].opts = << >>

\* addMissingPeerConfigItems.
AddMissingItems(name, config, dflt, port) ==
  [url |-> IF config.url # NoURL THEN config.url ELSE [Name(name) EXCEPT !.port = port],
   tls |-> IF config.tls = "none" THEN dflt.tls ELSE config.tls,
   opts |-> config.opts @@ dflt.opts]

AddMissingOrdererItems(name, config, dflt) == AddMissingItems(name, config, dflt, DefaultOrdererPort)

Loaded(entities, matchers) == {n \in DOMAIN entities : n # Default /\ ~ToBeIgnored(matchers, n)}

LoadAllPeerConfigs(e) ==
  [n \in Loaded(e.peers, e.peerMatchers) |-> AddMissingItems(n, e.peers[n], LoadDefault(e.peers), DefaultPeerPort)]

LoadAllOrdererConfigs(e) ==
  [n \in Loaded(e.orderers, e.ordererMatchers) |-> AddMissingOrdererItems(n, e.orderers[n], LoadDefault(e.orderers))]

\* getMappedPeer, getMappedOrderer: a host that is not known maps to the
\* default.  The options are copied.
GetMapped(configs, dflt, host) == IF host \in DOMAIN configs THEN configs[host] ELSE dflt

\* matchPeer, matchOrderer with the matcher i.
Match(configs, dflt, m, key) ==
  LET mapped == GetMapped(configs, dflt, RegexMatchAndReplace(m.host, key).host)
      url == IF m.url # NoURL THEN RegexMatchAndReplace(m.url, key) ELSE mapped.url
      opts == IF m.ssl THEN [serverName |-> key.host] @@ mapped.opts ELSE mapped.opts
  IN  [url |-> IF url # NoURL THEN url ELSE IF key.port # 0 THEN key ELSE NoURL, tls |-> mapped.tls, opts |-> opts]

\* tryMatchingPeerConfig, tryMatchingOrdererConfig: the configurations that
\* may be found, which are several when URLs are not unique.
TryMatching(configs, byURL, dflt, matchers, key, searchByURL) ==
  LET i == FirstMatch(matchers, key)
      same == {c \in byURL : c.url = key}
  IN  CASE i # 0 /\ matchers[i].ignore -> {}
        [] i # 0 -> {Match(configs, dflt, matchers[i], key)}
        [] i = 0 /\ key.host \in DOMAIN configs /\ key.port = 0 -> {configs[key.host]}
        [] OTHER -> IF ~searchByURL THEN {}
                    ELSE IF same # {} THEN same
                    ELSE IF key.port # 0 THEN {[dflt EXCEPT !.url = key]} ELSE {}

RangeOf(f) == {f[x] : x \in DOMAIN f}

TryMatchingPeerConfig(e, key, searchByURL) ==
  LET configs == LoadAllPeerConfigs(e)
  IN  TryMatching(configs, RangeOf(configs), LoadDefault(e.peers), e.peerMatchers, key, searchByURL)

\* IsTLSEnabled, AttemptSecured and ToAddress of pkg/core/config/endpoint.
IsTLSEnabled(url) == url.scheme = "grpcs"
AttemptSecured(url, allowInsecure) == url.scheme = "grpcs" \/ (url.scheme = "" /\ ~allowInsecure)
ToAddress(url) == [url EXCEPT !.scheme = ""]

VerifyPeerConfig(e, p) == p.url # NoURL /\ (IsTLSEnabled(p.url) => p.tls # "none" \/ e.systemPool)

----------------------------------------------------------------------------
(* What the SDK asks for                                                    *)

\* loadPeerConfigsByOrg: peers that are not found or not valid are left out.
PeersConfig(e, org) ==
  UNION {{p \in TryMatchingPeerConfig(e, Name(n), FALSE) : VerifyPeerConfig(e, p)} : n \in e.orgs[org].peers}

NetworkPeers(e) == UNION {{[config |-> p, msp |-> e.orgs[o].msp] : p \in PeersConfig(e, o)} : o \in DOMAIN e.orgs}

\* peerMSPID: any of the orgs that list the peer, or list a peer that a
\* matcher maps to it, whichever comes last.
PeerMSPIDs(e, name) ==
  {e.orgs[o].msp : o \in {o \in DOMAIN e.orgs : \E n \in e.orgs[o].peers :
     \/ n = name
     \/ LET i == FirstMatch(e.peerMatchers, Name(n)) IN i # 0 /\ e.peerMatchers[i].host.host = name}}

\* loadChannelEndpointConfig: what a channel does not list it takes from the
\* default channel.
LoadChannel(e, ch) ==
  LET own == e.channels[ch]
      dflt == IF Default \in DOMAIN e.channels THEN e.channels[Default] ELSE [peers |-> << >>, orderers |-> {}]
      peers == IF own.peers = << >> THEN dflt.peers ELSE own.peers
      orderers == IF own.orderers = {} THEN dflt.orderers ELSE own.orderers
  IN  [peers |-> [n \in {n \in DOMAIN peers : ~ToBeIgnored(e.peerMatchers, n)} |-> peers[n]],
       orderers |-> {o \in orderers : ~ToBeIgnored(e.ordererMatchers, o)},
       policies |-> AddMissingChannelPolicies(e, own.policies)]

\* loadNetworkConfig, loadDefaultChannel: there is always a default channel.
DefaultChannel(e) ==
  IF Default \in DOMAIN e.channels THEN LoadChannel(e, Default)
  ELSE [peers |-> << >>, orderers |-> {}, policies |-> DefaultChannelPolicies]

\* mappedChannelName and ChannelConfig.
MappedChannelName(e, ch) ==
  IF ch \in DOMAIN e.channels THEN ch
  ELSE LET i == FirstMatch(e.channelMatchers, Name(ch)) IN IF i = 0 THEN Default ELSE e.channelMatchers[i].host.host

ChannelConfig(e, ch) ==
  LET c == MappedChannelName(e, ch)
  IN  IF c # Default /\ c \in DOMAIN e.channels THEN LoadChannel(e, c) ELSE DefaultChannel(e)

\* loadChannelPeers: a peer that is found has to be valid and of some org.
ChannelPeersOf(e, chConfig) ==
  UNION {{[name |-> n, config |-> p] : p \in TryMatchingPeerConfig(e, Name(n), FALSE)} : n \in DOMAIN chConfig.peers}

\* ChannelPeers of a channel that a matcher maps to an unknown one: none.
ChannelPeers(e, ch) ==
  LET c == MappedChannelName(e, ch)
      config == IF c = Default THEN DefaultChannel(e) ELSE LoadChannel(e, c)
  IN  IF c # Default /\ c \notin DOMAIN e.channels THEN {}
      ELSE UNION {{[name |-> p.name, config |-> p.config, msp |-> m, roles |-> config.peers[p.name]] :
                     m \in PeerMSPIDs(e, p.name)} : p \in ChannelPeersOf(e, config)}

\* loadOrdererConfigs: an orderer that will be dialled with TLS has to have
\* a certificate.
OrderersConfig(e) ==
  UNION {TryMatching(LoadAllOrdererConfigs(e), {}, LoadDefault(e.orderers), e.ordererMatchers, Name(n), FALSE)
           : n \in DOMAIN LoadAllOrdererConfigs(e)}
OrdererLoads(e, o) ==
  AttemptSecured(o.url, "insecure" \in DOMAIN o.opts /\ o.opts.insecure) => o.tls # "none" \/ e.systemPool

OrdererConfig(e, key, searchByURL) ==
  TryMatching(LoadAllOrdererConfigs(e), OrderersConfig(e), LoadDefault(e.orderers), e.ordererMatchers, key, searchByURL)
OrdererIgnored(e, key) == LET i == FirstMatch(e.ordererMatchers, key) IN i # 0 /\ e.ordererMatchers[i].ignore

\* loadChannelOrderers, for each of the channels.
ChannelOrderersLoad(e, chConfig) ==
  \A o \in chConfig.orderers : OrdererIgnored(e, Name(o)) \/ OrdererConfig(e, Name(o), FALSE) # {}

\* loadAllTLSConfig: the client's certificate needs its key, in the store or
\* in the configuration; every certificate that is named has to be readable.
TLSLoads(e) ==
  /\ e.client.cert # "unreadable"
  /\ e.client.cert = "ok" => e.client.key
  /\ \A t \in {e.peers[n].tls : n \in DOMAIN e.peers} \cup {e.orderers[n].tls : n \in DOMAIN e.orderers} : t # "unreadable"

\* The certificates that are parsed: those of the defaults and of the
\* endpoints that are not ignored.
CertsParse(entities, matchers) ==
  \A n \in (Loaded(entities, matchers) \cup {Default}) \cap DOMAIN entities : entities[n].tls # "malformed"

\* loadEndpointConfigEntities.  Its order matters to which error is reported.
Load(e) ==
  LET channels == {DefaultChannel(e)} \cup {LoadChannel(e, c) : c \in DOMAIN e.channels}
  IN  CASE ~TLSLoads(e) -> "error"
        [] TLSLoads(e) /\ (LoadDefaultPanics(e.orderers) \/ LoadDefaultPanics(e.peers)) -> "panic"
        [] OTHER ->
             IF /\ CertsParse(e.orderers, e.ordererMatchers) /\ CertsParse(e.peers, e.peerMatchers)
                /\ \A o \in OrderersConfig(e) : OrdererLoads(e, o)
                /\ \A c \in channels :
                     /\ \A p \in ChannelPeersOf(e, c) : VerifyPeerConfig(e, p.config) /\ PeerMSPIDs(e, p.name) # {}
                     /\ ChannelOrderersLoad(e, c)
             THEN "ok" ELSE "error"

\* The pool of the TLS certificates.
TLSCertPool(e) ==
  {c \in {p.config.tls : p \in NetworkPeers(e)} \cup {o.tls : o \in OrderersConfig(e)} : c # "none"}

----------------------------------------------------------------------------
(* The orderers of a transactor                                             *)

OrderersFromChannel(e, ch) == UNION {OrdererConfig(e, Name(o), TRUE) : o \in ChannelConfig(e, ch).orderers}

\* orderersFromChannelCfg: the orderers of the configuration, and without
\* any those of the channel's configuration block.
OrderersFromChannelCfg(e, ch, targets) ==
  LET byTarget(t) == {o \in OrderersConfig(e) : ToAddress(o.url) = t}
      found(t) == IF byTarget(t) # {} THEN byTarget(t) ELSE OrdererConfig(e, t, TRUE)
      of(t) == IF found(t) # {} THEN found(t)
               ELSE IF OrdererIgnored(e, t) THEN {} ELSE {[url |-> t, tls |-> "none", opts |-> << >>]}
  IN  IF OrderersFromChannel(e, ch) # {} THEN OrderersFromChannel(e, ch) ELSE UNION {of(t) : t \in targets}

\* The parameters of a connection; those of an endpoint that has no options
\* depend on who dials.
Params(config, failFast) ==
  LET opt(o, dflt) == IF o \in DOMAIN config.opts THEN config.opts[o] ELSE dflt
  IN  [failFast |-> opt("failFast", failFast), insecure |-> opt("insecure", FALSE), keepAlive |-> opt("time", 0),
       serverName |-> opt("serverName", "")]

FromPeerConfig(config) == Params(config, TRUE)
FromOrdererConfig(config) == Params(config, TRUE)
OptsFromPeerConfig(config) == Params(config, FALSE)

\* New of the orderer: TLS unless the address or the options exclude it.
NewOrderer(config) ==
  [address |-> ToAddress(config.url), secured |-> AttemptSecured(config.url, FromOrdererConfig(config).insecure)]

----------------------------------------------------------------------------
(* What they promise                                                        *)

\* An item that a channel does not set has the value of the default channel,
\* and an item that this does not set either the default of the SDK; but for
\* the lag of the selection and the attempts of a retry.
FirstSet(own, dflt, builtin) == OrElse(own, OrElse(dflt, builtin))
PoliciesInherit(e, ch) ==
  LET p == ChannelConfig(e, ch).policies
      own == e.channels[ch].policies
      dflt == IF Default \in DOMAIN e.channels THEN e.channels[Default].policies ELSE DefaultChannelPolicies
  IN  /\ \A i \in DOMAIN p.event : p.event[i] = FirstSet(own.event[i], dflt.event[i], DefaultChannelPolicies.event[i])
      /\ p.selection.strategy = FirstSet(own.selection.strategy, dflt.selection.strategy, BlockHeightPriority)
      /\ \A k \in {"query", "discovery"} :
           /\ p[k].targets = FirstSet(own[k].targets, dflt[k].targets, 2)
           /\ p[k].retry.initial = OrElse(own[k].retry.initial, dflt[k].retry.initial)

\* The endpoints that a configuration which loads hands out can be dialled,
\* and belong to an org with peers; a peer that a channel lists is missing
\* exactly when its first matcher says so or nothing is known of it.
EndpointsUsable(e, ch) ==
  Load(e) = "ok" =>
    /\ \A p \in NetworkPeers(e) \cup {[config |-> c.config, msp |-> c.msp] : c \in ChannelPeers(e, ch)} :
         /\ p.config.url # NoURL
         /\ p.config.url.scheme = "grpcs" => p.config.tls # "none" \/ e.systemPool
         /\ \E o \in DOMAIN e.orgs : e.orgs[o].msp = p.msp /\ e.orgs[o].peers # {}
    /\ ch \in DOMAIN e.channels /\ e.channels[ch].peers # << >> =>
         {p.name : p \in ChannelPeers(e, ch)} =
           {n \in DOMAIN e.channels[ch].peers :
              LET ms == {i \in DOMAIN e.peerMatchers : n \in e.peerMatchers[i].pattern}
              IN  IF ms = {} THEN n \in DOMAIN e.peers ELSE \E i \in ms : ~e.peerMatchers[i].ignore /\ \A j \in ms : i <= j}

\* A transactor sends to orderers whose name or address is not to be
\* ignored, with the certificate that is configured for the address.
OrderersTrue(e, ch, targets) ==
  Load(e) = "ok" =>
    \A o \in OrderersFromChannelCfg(e, ch, targets) :
      /\ \E k \in targets \cup {Name(n) : n \in DOMAIN e.orderers} : ~OrdererIgnored(e, k) /\ o \in OrdererConfig(e, k, TRUE)
      /\ NewOrderer(o).secured =>
           \/ o.tls # "none" \/ e.systemPool
           \/ \A n \in DOMAIN LoadAllOrdererConfigs(e) : ToAddress(LoadAllOrdererConfigs(e)[n].url) # NewOrderer(o).address
=============================================================================
