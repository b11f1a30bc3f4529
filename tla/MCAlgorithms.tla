---------------------------- MODULE MCAlgorithms ----------------------------
(***************************************************************************)
(* The algorithms that hold no state of their own, each over bounded       *)
(* inputs.  A behaviour picks an algorithm and an input, and Evaluate runs *)
(* it; the invariants hold its outcome against a reference definition.     *)
(***************************************************************************)
EXTENDS Integers, Sequences, FiniteSets, TLC

CONSTANTS
  None,   \* what is nil
  Bad     \* bytes that do not decode

PG == INSTANCE PeerGroups
DC == INSTANCE Discovery
SL == INSTANCE Selection
PR == INSTANCE PeerResolver
EC == INSTANCE EndpointConfig
IC == INSTANCE IdentityConfig
MS == INSTANCE Membership
CU == INSTANCE ConfigUpdate
LQ == INSTANCE LedgerQuery
EN == INSTANCE Envelopes
KS == INSTANCE KeyStore
WA == INSTANCE Wallet

VARIABLES
  topic,   \* the algorithm
  input,   \* what it is given
  done     \* it has been run

vars == <<topic, input, done>>

Orgs == {"o1", "o2", "o3"}

Exprs ==
  LET leaf(o) == PG!Principal(o, "member")
      leaves == {leaf(o) : o \in Orgs}
      pairs == {PG!Gate(g, n, <<a, b>>) : g \in {"And", "OutOf"}, n \in {0, 1, 2},
                                          a \in {leaf("o1"), leaf("o2")}, b \in leaves}
  IN  pairs \cup {PG!Gate(g, 2, <<a, b, leaf("o3")>>) : g \in {"And", "Or", "OutOf"},
                                                   a \in pairs, b \in {leaf("o1")} \cup pairs}

PeersOf(n) == {[url |-> <<o, i>>, msp |-> o] : o \in Orgs, i \in 1 .. n}

\* Peers on the wire, and results of the discovery server.
Wire(endpoint, msp, state) == [endpoint |-> endpoint, msp |-> msp, height |-> 1, alive |-> "ok", state |-> state]
Members == {{Wire(1, "o1", "ok"), Wire(2, "o3", "ok")}, {Wire(1, "o1", "ok"), Wire(0, "o2", "ok")},
            {Wire(1, "o1", "nil")}, {}}
Results == {[type |-> "error"], [type |-> "config"]} \cup {[type |-> "peers", peers |-> m] : m \in Members}
           \cup {[type |-> "endorsers", content |-> [i \in DOMAIN s |-> [chaincode |-> s[i], layouts |-> {}, groups |-> << >>]]] :
                    s \in {<<"cc1">>, <<"cc2">>, <<"cc1", "cc2">>, <<"cc2", "cc1">>}}
Queries == {[type |-> t, channel |-> c, chains |-> << >>] : t \in {"config", "peers", "local"}, c \in {"ch1", "ch2"}}
           \cup {[type |-> "endorsers", channel |-> "ch1", chains |-> cs] : cs \in {<< <<"cc1">> >>, << <<"cc2", "cc1">>, <<"cc1">> >>}}
Arrivals == {[err |-> FALSE, result |-> r] : r \in {s \in Results : s.type # "endorsers"}} \cup {DC!NotAsked, DC!Canceled}
Lists(s) == {<< >>} \cup {<<a>> : a \in s} \cup {<<a, b>> : a, b \in s} \cup {<<a, b, c>> : a, b, c \in s}

\* Descriptors with groups of up to three endorsers, one without an address.
Endorser(e, h) == [endpoint |-> e, msp |-> IF e = 4 THEN "o2" ELSE "o1", height |-> h]
Descriptors ==
  {[layouts |-> ls, groups |-> ("g1" :> {Endorser(1, h1), Endorser(2, h2), Endorser(3, 9)}
                                @@ "g2" :> {Endorser(4, 2), Endorser(3, 9), Endorser(0, 9)})] :
     h1, h2 \in {2, 6, 9},
     ls \in {{"g1" :> 2}, {"g1" :> 1}, {("g1" :> 2) @@ ("g2" :> 2)}, {("g1" :> 1) @@ ("g2" :> 1), "g1" :> 3}}}
Selections == [config : {<< >>, 2 :> 5}, reported : {{Endorser(e, 4) : e \in es} : es \in SUBSET (0 .. 4)},
               msps : {{"o1", "o2"}, {"o1"}}, accepts : {0 .. 5, {1, 3, 5}},
               policy : [strategy : {"blockHeight", "balanced"}, balancer : {"random", "roundRobin"}]]

Resolvers == [kind : {"balanced", "minBlockHeight", "preferOrg", "preferPeer"}, msp : {"o1"}, preferred : {{}, {"a"}, {"c"}},
              lag : {PR!BlockHeightLagThreshold(m, c, 5) : m \in {"latest", "byThreshold", ""}, c \in {-1, 0, 1}},
              reconnect : {0} \cup {PR!ReconnectThreshold(c, 3) : c \in {0, 1}},
              min : {0} \cup {PR!MinBlockHeightFrom(b) : b \in {0, 3}}]
Heights == {0, 1, 4, 6, 9}
SomeResolvers == [kind : {"balanced", "minBlockHeight", "preferOrg", "preferPeer"}, msp : {"o1"}, preferred : {{2}}, lag : {0, 5}, reconnect : {3}, min : {0, 4}]
Reported == {[Wire(1, "o1", "ok") EXCEPT !.height = 4], Wire(2, "o2", "ok"), [Wire(3, "o1", "ok") EXCEPT !.height = 9], Wire(4, "o3", "ok"), Wire(0, "o1", "ok")}

\* Configurations: two peers, two orderers, an org for each peer, a channel,
\* defaults, and up to two matchers of each kind.
Unset(r) == [k \in DOMAIN r |-> 0]
NoPolicies ==
  LET d == EC!DefaultChannelPolicies
  IN  [query |-> [targets |-> 0, responses |-> 0, retry |-> EC!NoRetry], event |-> Unset(d.event),
       discovery |-> [targets |-> 0, responses |-> 0, retry |-> EC!NoRetry], selection |-> Unset(d.selection)]
Policies ==
  {[NoPolicies EXCEPT !.event.lag = l, !.event.monitor = mo, !.event.resolver = l, !.selection.strategy = l, !.query.targets = t,
                      !.discovery.retry.attempts = t, !.discovery.retry.initial = l] : l \in {0, 2, 3}, mo \in {0, 1}, t \in {0, 4}}
Address(s, h) == [scheme |-> s, host |-> h, port |-> 7050]
Endpoint(u, t, o) == [url |-> u, tls |-> t, opts |-> o]
Matcher(p, i, h, u) == [pattern |-> p, ignore |-> i, host |-> EC!Name(h), url |-> u, ssl |-> h = "$"]
Matchers == {Matcher({"a"}, TRUE, "", EC!NoURL), Matcher({"a", "b"}, FALSE, "b", EC!NoURL),
             Matcher({"b"}, FALSE, "$", Address("grpc", "$")), Matcher({"a"}, FALSE, "z", EC!NoURL)}
MatcherLists == {<< >>} \cup {<<x>> : x \in Matchers} \cup {<<x, y>> : x, y \in Matchers}
Entities ==
  {("a" :> x) @@ ("b" :> y) @@ d :
     x \in {Endpoint(Address("grpc", "a"), "none", << >>), Endpoint(EC!NoURL, "none", << >>),
            Endpoint(Address("grpcs", "a"), "malformed", << >>)},
     y \in {Endpoint(Address("grpcs", "b"), t, << >>) : t \in {"none", "c2"}},
     d \in {<< >>, EC!Default :> Endpoint(Address("grpc", "x"), "none", [insecure |-> TRUE]),
            EC!Default :> Endpoint(Address("grpc", "x"), "c0", << >>)}}
Channel(ps, os, p) == [peers |-> [n \in ps |-> "all"], orderers |-> os, policies |-> p]
Config(peers, orderers, pm, om, chans) ==
  [peers |-> peers, orderers |-> orderers, channels |-> chans, peerMatchers |-> pm, ordererMatchers |-> om,
   channelMatchers |-> <<Matcher({"ch2"}, FALSE, "ch1", EC!NoURL), Matcher({"ch3"}, FALSE, "ch4", EC!NoURL)>>,
   orgs |-> [A |-> [msp |-> "A", peers |-> {"a"}], B |-> [msp |-> "B", peers |-> {"b"}]],
   client |-> [cert |-> "none", key |-> FALSE], systemPool |-> FALSE]
SomeEntities == ("a" :> Endpoint(Address("grpc", "a"), "none", << >>)) @@ ("b" :> Endpoint(Address("grpcs", "b"), "c2", << >>))
SomeChannels == {("ch1" :> Channel({"a"}, {"a", "b"}, NoPolicies)),
                 ("ch1" :> Channel({}, {}, NoPolicies)) @@ (EC!Default :> Channel({"a", "b"}, {"b"}, NoPolicies))}

\* Certificate authorities: two, with up to two matchers.
CA(u, sh, c, t) == [url |-> u, ssl |-> "h", shared |-> sh, certs |-> c, registrar |-> <<u, c>>, name |-> "", tls |-> t]
CAMatcher(p, i, h, u, s) == [pattern |-> p, ignore |-> i, host |-> h, url |-> u, ssl |-> s, valid |-> h # "("]
CAMatchers == {CAMatcher({"ca1"}, TRUE, "", "", ""), CAMatcher({"ca1", "ca2"}, FALSE, "ca2", "", "s1"), CAMatcher({"ca1"}, FALSE, "(", "", ""),
               CAMatcher({"ca2"}, FALSE, "ca1", "$", "$"), CAMatcher({"ca1"}, FALSE, "ca9", "", "")}
CAConfigs ==
  [cas : {("ca1" :> CA(u, sh, c, t)) @@ ("ca2" :> CA("https:2", TRUE, c2, "none")) :
            u \in {"", "https:1"}, sh \in BOOLEAN, c \in {"none", "pem", "bad"}, t \in {"none", "unreadable"}, c2 \in {"path", "none"}},
   matchers : {<< >>} \cup {<<x>> : x \in CAMatchers} \cup {<<x, y>> : x, y \in CAMatchers}, system : BOOLEAN, clientTLS : BOOLEAN,
   orgs : {[A |-> [cas |-> l, msp |-> "A"], B |-> [cas |-> <<"ca2">>, msp |-> "B"]] : l \in {<< >>, <<"ca1", "ca2">>}}, org : {"A"}]

\* Certificates: roots, intermediates, one of them certified twice, and leaves.
Cert(s, i, n, ca, ous) == [subject |-> s, issuer |-> i, serial |-> n, ca |-> ca, ski |-> TRUE, ous |-> ous, lowS |-> n # 8,
                           dates |-> IF n = 9 THEN "expired" ELSE "valid", parses |-> TRUE]
R1 == Cert("R1", "R1", 1, TRUE, {})
R2 == Cert("R2", "R2", 2, TRUE, {})
I1 == Cert("I1", "R1", 3, TRUE, {})
I1Twin == Cert("I1", "R2", 4, TRUE, {})
TR == [Cert("TR", "TR", 10, TRUE, {}) EXCEPT !.dates = "expired"]
I2 == Cert("I2", "I1", 5, TRUE, {})
Leaf(i, n, ous) == Cert("L", i, n, FALSE, ous)
Leaves == {Leaf("R1", 7, {"client"}), Leaf("I1", 7, {"client"}), Leaf("I1", 8, {"client", "sales"}), Leaf("I1", 9, {"client"}),
           Leaf("I1", 7, {"client", "peer"}), Leaf("I2", 7, {"admin"}), Leaf("I2", 6, {"orderer"}), Leaf("R2", 7, {}), Leaf("R2", 7, {"client"}), I1}
CRL(aki, n, signed) == [aki |-> aki, serial |-> n, signed |-> signed]
OU(name, c) == [ou |-> name, cert |-> c]
NodeOUs(enable, cert) == [enable |-> enable, role |-> [r \in {"client", "peer", "admin", "orderer"} |-> OU(r, cert)]]
MSPConfig(rs, is, crls, ad, nodes, ous, v) ==
  [name |-> "A", version |-> v, roots |-> rs, inters |-> is, crls |-> crls, admins |-> ad, signer |-> None, ous |-> ous,
   nodeOUs |-> nodes, tlsRoots |-> {TR}, tlsInters |-> {Cert("T1", "TR", 11, TRUE, {})}, hash |-> ""]
MSPConfigs(versions) ==
  {MSPConfig(rs, is, crls, ad, nodes, ous, v) : rs \in {{R1}, {R1, R2}, {I1}}, is \in {{}, {I1}, {I1, I2}, {I1, I1Twin}},
     crls \in {{}, {CRL("R1", 3, TRUE)}, {CRL("R1", 3, FALSE), CRL("I1", 7, TRUE)}, {CRL("I2", 7, TRUE)}, {CRL(None, 5, TRUE)}},
     ad \in {{}, {Leaf("I1", 7, {"client"})}, {Leaf("I2", 7, {"admin"})}},
     nodes \in {None, NodeOUs(TRUE, None), NodeOUs(TRUE, I1), NodeOUs(FALSE, None), [NodeOUs(TRUE, None) EXCEPT !.role["admin"] = None]},
     ous \in {{}, {OU("sales", I1)}}, v \in versions}

\* Another MSP of the channel.
OtherMSP == [MSPConfig({R2}, {}, {}, {}, NodeOUs(TRUE, None), {}, "1.4.3") EXCEPT !.name = "B"]

\* Peers of two organizations, and what each answers to one proposal.
LedgerPeers == {[name |-> "p1", msp |-> "A"], [name |-> "p2", msp |-> "A"], [name |-> "p3", msp |-> "B"]}
Told(k, signed, data, rest) == [sent |-> k # "lost", ok |-> k # "refused", parses |-> k # "garbled", signed |-> signed, data |-> data, rest |-> rest]
ToldWell == {Told("well", "member", d, r) : d \in {1, 2}, r \in {0, 1}}
ToldBadly == {Told(k, "member", 1, 0) : k \in {"lost", "refused", "garbled"}} \cup {Told("well", s, 2, 0) : s \in {"outsider", "forged"}}
LedgerRequests == [targets : {{}, {p \in LedgerPeers : p.name # "p1"}}, filter : {"default", "any", "B"}, min : {0, 2, 3}, max : {0, 2, 3}]
ConfigAnswers == {Told("well", "member", d, 0) : d \in {0, 1, 2}} \cup {Told(k, "member", 1, 0) : k \in {"lost", "garbled"}}
NoOpts == [targets |-> 0, responses |-> 0, retry |-> [attempts |-> 0, codes |-> {}]]

\* A tree of configuration groups, one of them named as another.  A name in a
\* value is a sequence of one, a capability that of its version.
ConfigValue(key, good, content) == [key |-> key, good |-> good, content |-> content]
V1_1 == <<1, 1>>
V1_2 == <<1, 2>>
V1_3 == <<1, 3>>
V1_4_2 == <<1, 4, 2>>
V1_4_3 == <<1, 4, 3>>
V1_10 == <<1, 10>>
V2_0 == <<2, 0>>
AnyCapability == << >>
CapabilitySets == {{}, {V1_1}, {V1_2, V2_0}, {V1_4_2}, {V1_10}, {AnyCapability}}
ConfigTree(org, root, app, ord, own, good) ==
  (<< >> :> {ConfigValue("Capabilities", TRUE, root), ConfigValue("OrdererAddresses", TRUE, {<<"o1">>})})
  @@ (<<"Application">> :> {ConfigValue("Capabilities", TRUE, app), ConfigValue("ACLs", good # "ACLs", {})})
  @@ (<<"Application", org>> :> {ConfigValue("MSP", good # "MSP", {<<org>>}), ConfigValue("AnchorPeers", good # "AnchorPeers", {<<"a1">>, <<"a2">>}),
                                 ConfigValue("Capabilities", TRUE, own)})
  @@ (<<"Orderer">> :> {ConfigValue("Capabilities", TRUE, ord), ConfigValue("MSP", TRUE, {<<"O">>})})

\* Groups with items and groups of their own, and profiles of channels.
ConfigItem(v, mod, c) == [version |-> v, mod |-> mod, content |-> c]
Grp(v, mod, is, gs) == [version |-> v, mod |-> mod, items |-> is, groups |-> gs]
ItemSets(v) == {<< >>, CU!Value("x") :> ConfigItem(v, "A", "1")}
               \cup {(CU!Value("x") :> ConfigItem(v, m, c)) @@ (CU!Policy("x") :> ConfigItem(0, "A", "1")) : m \in {"A", "B"}, c \in {"1", "2"}}
SubGroups(v) == {Grp(v, m, is, << >>) : m \in {"A", "B"}, is \in ItemSets(v)}
                \cup {Grp(0, "A", << >>, "h" :> Grp(v, "A", is, << >>)) : is \in ItemSets(v)}
GroupTrees(v) == {Grp(v, m, is, gs) : m \in {"A", "B"}, is \in {<< >>, CU!Value("x") :> ConfigItem(1, "A", "1")},
                    gs \in {<< >>} \cup {"g" :> g : g \in SubGroups(v)} \cup {("g" :> g) @@ ("k" :> Grp(3, "A", << >>, << >>)) : g \in SubGroups(v)}}
StandardPolicies == [n \in {"Admins", "Readers", "Writers"} |-> "meta"]
OrgProfile(n, foreign, msp, anchors) ==
  [name |-> n, foreign |-> foreign, msp |-> msp, policies |-> StandardPolicies, anchors |-> anchors, endpoints |-> ""]
ApplicationProfile(orgs, policies, caps) == [policies |-> policies, acls |-> "", capabilities |-> caps, orgs |-> orgs]
OrdererProfile(type, addresses) ==
  [policies |-> StandardPolicies @@ ("BlockValidation" :> "meta"), type |-> type, metadata |-> TRUE, addresses |-> addresses, capabilities |-> "V2_0",
   orgs |-> "O" :> OrgProfile("O", FALSE, "O", "")]
Profile(app, ord, cs, c, caps) ==
  [policies |-> StandardPolicies, application |-> app, orderer |-> ord, consortiums |-> cs, consortium |-> c, capabilities |-> caps]
ChannelOrgs == {"A" :> OrgProfile("A", f, "A", a) : f \in BOOLEAN, a \in {"", "a1"}}
               \cup {("A" :> OrgProfile("A", FALSE, m, "a1")) @@ ("B" :> OrgProfile("B", FALSE, "B", "")) : m \in {"A", "A2", ""}}
ChannelProfiles ==
  {Profile(ApplicationProfile(os, ps, caps), ord, None, c, "V2_0") :
     os \in ChannelOrgs, ps \in {StandardPolicies, StandardPolicies @@ ("Extra" :> "signature"), "Admins" :> "meta"}, caps \in {"", "V2_0"},
     ord \in {None} \cup {OrdererProfile(t, a) : t \in {"solo", "etcdraft", "?"}, a \in {"", "o1"}}, c \in {"", "C", "D"}}
SystemProfiles ==
  {Profile(None, OrdererProfile(t, "o1"), "C" :> os, "", "V2_0") :
     t \in {"solo", "kafka"},
     os \in {"A" :> OrgProfile("A", FALSE, "A", "")} \cup {("A" :> OrgProfile("A", f, "A", "")) @@ ("B" :> OrgProfile("B", FALSE, "B", "")) : f \in BOOLEAN}}

\* Answers of endorsers, messages with an update that two organizations
\* signed, one of them perhaps in another's name, and metadata of blocks.
Endorsed == [status : {200, 399, 400, 500}, results : {1, 2}, astray : BOOLEAN]
UpdateMessage(by) ==
  LET header(o) == [creator |-> o, nonce |-> "n3"]
      signature(o, s) == [header |-> header(o), signature |-> <<s, <<header(o), "update">> >>]
  IN  [update |-> "update", signatures |-> <<signature("A", "A"), signature("B", by)>>]
Recorded(n) == [lastConfig |-> n, consenter |-> "c"]
BlockMetadata(new, old, len) ==
  SubSeq(<<IF new THEN Recorded(4) ELSE None, IF old THEN Recorded(4) ELSE None, None, IF old THEN Recorded(4) ELSE None, Bad>>, 1, len)

\* Keys that are made, next to the files of others.
Block(form, pwd, type, ski) == [form |-> form, pwd |-> pwd, key |-> [type |-> type, ski |-> ski]]
Makes == [key : [type : {"sk", "pk"}, ski : {1, 2}] \cup {[type |-> "key", ski |-> 3]}, ephemeral : BOOLEAN]
Directories ==
  {x @@ y : x \in {<< >>, KS!Name(9, "sk") :> Block("pkcs8", 0, "sk", 1), KS!Name(9, "sk") :> Block("sec1", 3, "sk", 2),
                  KS!Name(9, "key") :> Bad, KS!Name(9, "sk") :> Block("pkcs1", 0, "rsa", 1)},
            y \in {<< >>, KS!Name(1, "bak") :> Bad, KS!Name(1, "bak") :> Block("pkix", 0, "pk", 1), KS!Name(2, "bak") :> Block("sec1", 2, "sk", 2)}}

WalletOps ==
  {[kind |-> "remove", label |-> l] : l \in {"a", "b"}}
    \cup {[kind |-> "put", label |-> l, id |-> i] : l \in {"a", "b"}, i \in {[name |-> n, type |-> "X.509", size |-> n] : n \in 1 .. 3}}

ShortSeqs(S, n) == UNION {[1 .. k -> S] : k \in 0 .. n}

Topics == {"keystore", "wallet", "genesis", "lifecycle", "tx", "envelope", "metadata", "deliver", "update", "creation", "anchors", "ledger",
           "chconfig", "groups", "accepts", "roles", "cas", "users", "peers", "orderers",
           "policies", "answer", "arrivals", "descriptor", "events", "selection", "resolver",
           "policy"}

\* What an algorithm is given.
Inputs(t) ==
  CASE t = "keystore" -> {[store |-> [dir |-> d, pwd |-> p, readOnly |-> r], makes |-> ms, ski |-> k] :
               d \in Directories, p \in {0, 2}, r \in BOOLEAN, ms \in ShortSeqs(Makes, 2), k \in {1, 2}}
    [] t = "wallet" -> [ops : ShortSeqs(WalletOps, 4), label : {"a", "b"}]
    [] t = "tx" -> {[opts |-> o, request |-> r, answers |-> a] :
               o \in [nonce : {None, "n0"}, creator : {None, "other"}],
               r \in [chaincode : {"", "cc"}, fcn : {"", "f"}, args : {<< >>, <<"x">>}, transient : {None, "secret"}],
               a \in {<< >>} \cup {<<x>> : x \in Endorsed} \cup {<<x, y>> : x, y \in Endorsed}}
    [] t = "envelope" -> [type : {"CONFIG", "CONFIG_UPDATE", "ORDERER_TRANSACTION", "MESSAGE"}, channel : {"", "ch"}, signer : {None, "me"},
                   msg : {UpdateMessage(o) : o \in {"A", "B"}},
                   damage : {"none", "payload", "header", "channel", "nochannel", "signature", "data"}]
    [] t = "genesis" -> [channel : {"", "ch"}, group : {"g", "h"}]
    [] t = "lifecycle" -> [channel : {"", "ch"}, cds : {None, "cds"}, type : {"install", "deploy", "upgrade"},
                           added : {<<"policy", "escc", "vscc">>, <<"policy", "escc", "vscc", "collections">>}]
    [] t = "metadata" -> {[new |-> n, old |-> o, len |-> l] : n, o \in BOOLEAN, l \in 0 .. 5}
    [] t = "deliver" -> [order : {<<1, 2>>, <<2, 1>>, <<1>>},
                  streams : [1 .. 2 -> [blocks : {<< >>, <<7>>, <<7, 8>>, <<6>>}, errs : 0 .. 2]]]
    [] t = "update" -> {[original |-> a, updated |-> b] : a \in GroupTrees(2), b \in GroupTrees(0)}
    [] t = "creation" -> {[conf |-> c, base |-> b] : c \in ChannelProfiles, b \in SystemProfiles}
    [] t = "anchors" -> {[conf |-> c, org |-> o] : c \in ChannelProfiles, o \in {"", "A", "B", "C"}}
    [] t = "ledger" -> {[client |-> LQ!New(f, "A"), req |-> r, answers |-> a] : f \in {"default", "any"}, r \in LedgerRequests,
                   a \in {("1" :> x) @@ ("2" :> y) @@ ("3" :> z) : x \in ToldWell \cup ToldBadly, y \in ToldWell \cup ToldBadly, z \in ToldWell}}
    [] t = "chconfig" -> {[given |-> g, policy |-> p, attempts |-> <<a, b>>] :
                     g \in {NoOpts, [NoOpts EXCEPT !.responses = 1], [targets |-> 2, responses |-> 2, retry |-> [attempts |-> 1, codes |-> {<<"EndorserClient", "ENDORSEMENT_MISMATCH">>}]]},
                     p \in [targets : {1, 2, 3}, responses : {1, 2}, retry : {[attempts |-> n, codes |-> {}] : n \in {0, 1}}],
                     a \in [{"1", "2"} -> ConfigAnswers], b \in [{"1", "2"} -> ConfigAnswers]}
    [] t = "groups" -> {[config |-> ConfigTree(org, r, a, o, w, g), group |-> n, capability |-> c] :
                   org \in {"A", "Orderer"}, r \in {{}, {V1_3}}, a \in CapabilitySets, o \in {{}, {V1_2}}, w \in {{}, {V1_4_3}},
                   g \in {"good", "MSP", "AnchorPeers", "ACLs"}, n \in {"", "Application", "Orderer", "A", "B"}, c \in {V1_1, V1_3, V1_4_2, V2_0, V1_10, AnyCapability}}
    [] t = "accepts" -> {[confs |-> {c, OtherMSP}, id |-> [msp |-> m, cert |-> l]] : c \in MSPConfigs({"1.4.3"}), m \in {"A", "B"}, l \in Leaves}
    [] t = "roles" -> {[conf |-> c, cert |-> l] : c \in MSPConfigs({"1.0", "1.1", "1.4.3"}), l \in Leaves}
    [] t = "cas" -> [config : CAConfigs, org : {"", "B"}, ca : {"", "ca1", "ca9"}]
    [] t = "users" -> [user : {0, 1}, embedded : [cert : {0, 1, 2}, key : {0, 2}], certStore : {0, 3}, keyStore : {0, 1, 3}, privSK : BOOLEAN, files : BOOLEAN,
                suite : SUBSET {1, 2, 3}]
    [] t = "peers" -> {[config |-> Config(ps, SomeEntities, pm, << >>, chs), channel |-> ch] :
                  ps \in Entities, pm \in MatcherLists, chs \in SomeChannels, ch \in {"ch1", "ch2", "ch3", "ch5"}}
    [] t = "orderers" -> {[config |-> Config(SomeEntities, os, << >>, om, chs), channel |-> ch, targets |-> ts] :
                     os \in Entities, om \in MatcherLists, chs \in SomeChannels, ch \in {"ch1", "ch5"},
                     ts \in SUBSET {Address("", "a"), Address("", "c")}}
    [] t = "policies" -> {[config |-> Config(SomeEntities, SomeEntities, << >>, << >>, ("ch1" :> Channel({}, {}, p)) @@ d)] :
                     p \in Policies, d \in {<< >>} \cup {EC!Default :> Channel({}, {}, q) : q \in Policies}}
    [] t = "answer" -> {[req |-> <<a, b>>, results |-> rs] : a, b \in Queries, rs \in {<<r, s>> : r, s \in Results}}
    [] t = "arrivals" -> {[arrivals |-> s] : s \in Lists(Arrivals)}
    [] t = "descriptor" -> {[arrivals |-> s] : s \in
                      Lists({[kind |-> "descriptor"], [kind |-> "unreachable"], [kind |-> "canceled"], [kind |-> "refused", error |-> "access denied"],
                             [kind |-> "refused", error |-> "no endorsement combination"]})}
    [] t = "events" -> [members : SUBSET Reported, r : SomeResolvers, last : {3, PR!MaxUint},
                 channelPeers : {{[url |-> u, eventSource |-> u \in src] : u \in us} : us \in SUBSET {2, 3, 5}, src \in SUBSET {2, 3, 5}},
                 config : {<< >>, 3 :> 3, (1 :> 5) @@ (5 :> 5), (1 :> 2) @@ (2 :> 2)}]
    [] t = "selection" -> {[desc |-> d, req |-> r] : d \in Descriptors, r \in Selections}
    [] t = "resolver" -> {[r |-> r, last |-> l, heights |-> h] : r \in Resolvers, l \in {0, 3, 8, PR!MaxUint},
                                                          h \in [{"a", "b", "c"} -> Heights]}
    [] t = "policy" -> {[exprs |-> <<e>>, accepts |-> a] : e \in Exprs, a \in SUBSET PeersOf(1)}
                \cup {[exprs |-> <<PG!Gate("Or", 1, <<PG!Principal("o1", "peer"), PG!Principal("o2", "peer")>>),
                                   PG!Gate("And", 1, <<PG!Principal(o, "peer"), PG!Principal("o3", "peer")>>)>>,
                       accepts |-> a] : o \in Orgs, a \in SUBSET PeersOf(2)}

Init ==
  /\ topic \in Topics
  /\ input \in Inputs(topic)
  /\ done = FALSE

Evaluate ==
  /\ ~done
  /\ done' = TRUE
  /\ UNCHANGED <<topic, input>>

Spec == Init /\ [][Evaluate]_vars

\* The peers that are chosen for a call satisfy the endorsement policies of
\* the chaincodes it invokes, or a layout that discovery gave, if those that may
\* be asked can; they are known, accepted and reachable, and none of those taken
\* from a single group is more than five blocks behind while a higher one was
\* left out.  Five is the sorter's default: the BlockHeightLagThreshold of the
\* channel's SelectionPolicy (fab/network.go:89-94) is not passed to it.
EndorsersServe ==
  /\ done /\ topic = "policy" => PG!ResolvesPolicy(input.exprs, PeersOf(2), input.accepts)
  /\ done /\ topic = "selection" => SL!SelectsLayout(input.desc, input.req)
  /\ done /\ topic = "descriptor" => SL!QueryFails(input.arrivals)

\* From a discovery response that was accepted a reader gets the descriptor of
\* the chaincode it asks for; the peers of a channel or of an org are those that
\* a member of it reported, of responses that came; the event client is sent to a
\* peer that was reported, belongs to the channel and is not barred as an event
\* source, if there is one; a peer is left only where another has more to give or
\* is preferred; and a client of new blocks, whose lag threshold is not above its
\* reconnect threshold and who prefers no peer of another org, is not sent away
\* from the peer it was just sent to.  With other settings it may be.
PeersTrue ==
  /\ done /\ topic = "answer" => DC!ReadsWhatItAsked(input.req, input.results)
  /\ done /\ topic = "arrivals" => /\ DC!ChannelPeersTrue(input.arrivals, 1 :> 9, {"o1", "o2"})
                                   /\ DC!LocalPeersTrue(input.arrivals, 1 :> 9, "o1")
  /\ done /\ topic = "events" =>
       PR!EventPeersAllowed(input.r, input.last, input.members, input.config, {"o1", "o2"}, input.channelPeers)
  /\ done /\ topic = "resolver" =>
       PR!ResolverSettles(input.r, input.last,
         {[url |-> u, msp |-> IF u = "c" THEN "o2" ELSE "o1", height |-> input.heights[u]] : u \in {"a", "b", "c"}})

\* A channel has the policies that it, its default channel or the SDK sets;
\* endpoints that are handed out can be dialled and are not to be ignored;
\* and the certificate authority that a client asks is the one its org and the
\* matchers lead to.
ConfigurationTrue ==
  /\ done /\ topic = "policies" => EC!PoliciesInherit(input.config, "ch1")
  /\ done /\ topic = "peers" => EC!EndpointsUsable(input.config, input.channel)
  /\ done /\ topic = "orderers" => EC!OrderersTrue(input.config, input.channel, input.targets)
  /\ done /\ topic = "cas" => IC!CAsTrue(input.config, input.org, input.ca)

\* Keys and identities are found where they were stored, and no others, and
\* the key of a user belongs to its certificate.  Of a file wallet in which an
\* identity was put over a longer one only the second is said: it gives no other
\* identity, but Get may fail.
StoresTrue ==
  /\ done /\ topic = "keystore" => KS!KeysFound(input.store, input.makes, input.ski)
  /\ done /\ topic = "wallet" => WA!WalletTrue(input.ops, input.label)
  /\ done /\ topic = "users" => IC!KeysMatch(input)

\* A channel accepts an identity for an MSP only by a chain of unrevoked CAs of
\* that MSP, not of another of the channel, and nobody has a role in an MSP whose
\* valid member it is not; save the admins that an MSP of version 1.4.3 lists
\* while it enforces node OUs, who must have been certified by the MSP, with the
\* unit of a client or an admin, but may have been revoked.
MembersSound ==
  /\ done /\ topic = "accepts" => MS!AcceptsSound(input.confs, input.id)
  /\ done /\ topic = "roles" => MS!RolesAreMembers(input.conf, input.cert)

\* What the ledger client and the channel configuration answer was told by as
\* many of the right peers as the caller wants, except for the config block of the
\* ledger client, which one verified peer of those chosen has told; and the
\* configuration is read as it is, for versions with numbers below ten.
LedgerAgreed ==
  LET by(a) == [p \in LedgerPeers |-> a[CASE p.name = "p1" -> "1" [] p.name = "p2" -> "2" [] OTHER -> "3"]]
      own == {p \in LedgerPeers : p.msp = "A"}
  IN  /\ done /\ topic = "ledger" => LQ!QueriesAgreed(input.client, input.req, LedgerPeers, by(input.answers))
      /\ done /\ topic = "chconfig" =>
           LQ!ConfigAgreed(LedgerPeers, "A", input.given, input.policy,
             [n \in DOMAIN input.attempts |-> [p \in own |-> input.attempts[n][IF p.name = "p1" THEN "1" ELSE "2"]]])
      /\ done /\ topic = "groups" => LQ!CapabilitiesTrue(input.config, input.group, input.capability) /\ LQ!ItemsTrue(input.config)

\* What is endorsed is what is committed, signed by whom it says, and every
\* part of an envelope or a block is found where it was put.
MessagesTrue ==
  /\ done /\ topic = "tx" => EN!TransactionTrue("me", input.opts, input.request, input.answers)
  /\ done /\ topic = "envelope" => EN!EnvelopeTrue(input.type, input.channel, input.signer, input.msg, input.damage)
  /\ done /\ topic = "genesis" => EN!GenesisTrue(input.channel, input.group)
  /\ done /\ topic = "lifecycle" => EN!LifecycleTrue(input.channel, input.cds, input.type, input.added)
  /\ done /\ topic = "metadata" =>
       EN!MetadataTrue([EN!NewBlock(5, None) EXCEPT !.metadata = BlockMetadata(input.new, input.old, input.len)],
                       IF (input.new /\ input.len > 0) \/ (input.old /\ input.len > 1) THEN 4 ELSE None,
                       IF (input.new /\ input.len > 0) \/ (input.old /\ input.len > 3) THEN "c" ELSE None)
  /\ done /\ topic = "deliver" => EN!PayloadSent(input.order, input.streams)

\* An update changes a configuration into the one that was asked for, and
\* the transactions made from profiles create and change channels as said.
UpdatesExact ==
  /\ done /\ topic = "update" => CU!UpdateExact(input.original, input.updated)
  /\ done /\ topic = "creation" => CU!CreationTrue(input.conf, input.base)
  /\ done /\ topic = "anchors" => CU!AnchorsTrue(input.conf, input.org)
=============================================================================
