---------------------------- MODULE LedgerQuery ----------------------------
(***************************************************************************)
(* What a channel's ledger and its configuration are asked: the ledger     *)
(* client (pkg/client/ledger), the queries below it (pkg/fab/channel), the *)
(* signature verifier and the channel configuration (pkg/fab/chconfig).    *)
(*                                                                         *)
(* A peer is [name, msp].  Its answer to a proposal is [sent, ok, signed,  *)
(* parses, data, rest]: whether one came at all, whether its status is     *)
(* 200, the state of its endorsement, whether its payload can be read, the *)
(* part of the payload that is compared, and the rest of it.  Responses    *)
(* are taken in the order of arrival, so a query has a set of outcomes; an *)
(* outcome is an answer or the error that replaces it.                     *)
(***************************************************************************)
EXTENDS Integers, Sequences, FiniteSets, SequencesExt, TLC

LOCAL INSTANCE Retry

Fails(e) == [err |-> e]
IsError(out) == "err" \in DOMAIN out

----------------------------------------------------------------------------
(* Requests to the system chaincodes                                        *)

\* The block queries that need an argument refuse an empty one.
Request(query, arg) ==
  CASE query \in {"info", "block", "byHash", "byTxID", "transaction"} -> [chaincode |-> "qscc", fcn |-> query, args |-> <<"channel", arg>>]
    [] query = "configBlock" -> [chaincode |-> "cscc", fcn |-> query, args |-> <<"channel">>]
    [] OTHER -> [chaincode |-> "lscc", fcn |-> query, args |-> <<arg>>]
Refused(query, arg) == query \in {"byHash", "byTxID"} /\ arg = ""

\* Signature.Verify: a success, endorsed by a valid member who signed it.
Verify(a) == a.signed = "member"

\* filterResponses: who answered with a status of 200 and, where there is
\* something to verify with, passed.
FilterResponses(targets, answers, verifies) ==
  {p \in targets : answers[p].sent /\ answers[p].ok /\ (verifies => Verify(answers[p]))}

\* The typed queries: the responses that can be read.
Responses(targets, answers) == {p \in FilterResponses(targets, answers, TRUE) : answers[p].parses}

----------------------------------------------------------------------------
(* The ledger client                                                        *)

\* New: without a filter of its own the client asks its own organization.
New(filter, msp) ==
  IF filter # "default" THEN [filter |-> filter] ELSE IF msp = "" THEN Fails("no msp") ELSE [filter |-> msp]

Accepts(filter, p) == filter \in {"any", p.msp}

PrepareRequestOpts(min, max) ==
  LET m == IF min = 0 THEN 1 ELSE min
      n == IF max = 0 THEN 1 ELSE max
  IN  [min |-> m, max |-> IF m > n THEN m ELSE n]

\* calculateTargets: the targets of the request as they are, or the peers
\* that were discovered and pass the filter of the request or the client.
Candidates(client, req, discovered) ==
  IF req.targets # {} THEN req.targets
  ELSE {p \in discovered : Accepts(IF req.filter # "default" THEN req.filter ELSE client.filter, p)}

CalculateTargets(client, req, discovered) ==
  LET opts == PrepareRequestOpts(req.min, req.max)
      all == Candidates(client, req, discovered)
  IN  IF all = {} \/ (req.targets # {} /\ req.filter # "default") \/ Cardinality(all) < opts.min THEN {}
      ELSE {s \in SUBSET all : Cardinality(s) = IF Cardinality(all) < opts.max THEN Cardinality(all) ELSE opts.max}

Answer(a) == [data |-> a.data, rest |-> a.rest]

\* QueryInfo: the first of the responses with the highest block.
QueryInfo(targets, answers, min) ==
  LET rs == Responses(targets, answers)
  IN  IF rs = {} \/ Cardinality(rs) < min THEN {Fails("too few")}
      ELSE {Answer(answers[p]) : p \in {q \in rs : \A r \in rs : answers[q].data >= answers[r].data}}

\* matchBlockData: the data of all blocks is equal, the rest is the first's.
MatchBlockData(targets, answers, min) ==
  LET rs == Responses(targets, answers)
  IN  IF rs = {} \/ Cardinality(rs) < min THEN {Fails("too few")}
      ELSE IF \E p, q \in rs : answers[p].data # answers[q].data THEN {Fails("no match")}
      ELSE {Answer(answers[p]) : p \in rs}

\* QueryTransaction: all of the payload is equal.
QueryTransaction(targets, answers, min) ==
  LET rs == Responses(targets, answers)
  IN  IF rs = {} \/ Cardinality(rs) < min THEN {Fails("too few")}
      ELSE IF \E p, q \in rs : Answer(answers[p]) # Answer(answers[q]) THEN {Fails("no match")}
      ELSE {Answer(answers[p]) : p \in rs}

\* TransactionProposalResponseVerifier.Match: enough responses, the first of
\* which is a block with one transaction, the others blocks with its data.
\* Its Verify accepts every response.
OK == Status("", "OK")
Mismatch == Status("EndorserClient", "ENDORSEMENT_MISMATCH")
NoTransaction == 0

\* Slip: the other blocks are not compared.
Match_First(rs, answers, min) ==
  IF min <= 0 \/ Cardinality(rs) < min THEN {Plain}
  ELSE {IF answers[f].parses /\ answers[f].data # NoTransaction THEN OK ELSE Plain : f \in rs}

Match(rs, answers, min) ==
  IF min <= 0 \/ Cardinality(rs) < min THEN {Plain}
  ELSE UNION {IF ~answers[f].parses \/ answers[f].data = NoTransaction THEN {Plain}
              ELSE LET found == {IF ~answers[p].parses THEN Plain ELSE IF answers[p].data # answers[f].data THEN Mismatch ELSE OK : p \in rs}
                   IN  IF found = {OK} THEN found ELSE found \ {OK} : f \in rs}

\* Ledger.QueryConfigBlock with the given verifier; the signature verifier
\* of the ledger client matches nothing.
QueryConfigBlock(targets, answers, signed, min) ==
  LET rs == FilterResponses(targets, answers, signed)
  IN  IF targets = {} \/ rs = {} THEN {Fails(Plain)}
      ELSE UNION {IF m # OK THEN {Fails(m)} ELSE {IF answers[p].parses THEN Answer(answers[p]) ELSE Fails(Plain) : p \in rs} :
                    m \in IF signed THEN {OK} ELSE Match(rs, answers, min)}

----------------------------------------------------------------------------
(* The channel configuration                                                *)

\* resolveOptsFromConfig: an option that is set stays, one that is not comes
\* from the policies of the channel; the codes are those of the
\* configuration unless all of the options were given.
ResolveOptsFromConfig(opts, policy) ==
  IF opts.targets # 0 /\ opts.responses # 0 /\ opts.retry.codes # {} THEN opts
  ELSE LET retry == IF opts.retry.codes # {} THEN opts.retry ELSE [policy.retry EXCEPT !.codes = ChannelConfigRetryableCodes]
       IN  [targets |-> IF opts.targets = 0 THEN policy.targets ELSE opts.targets,
            responses |-> IF opts.responses = 0 THEN policy.responses ELSE opts.responses,
            retry |-> [retry EXCEPT !.attempts = IF @ = 0 THEN 3 ELSE @]]

\* calculateTargetsFromConfig, randomMaxTargets: peers of the own
\* organization, as many as may be asked.
CalculateTargetsFromConfig(channelPeers, msp, max) ==
  LET own == {p \in channelPeers : p.msp = msp}
  IN  IF Cardinality(own) <= max THEN {own} ELSE {s \in SUBSET own : Cardinality(s) = max}

\* queryBlockFromPeers: the n-th attempt has the n-th answers, and there are
\* as many attempts as the deadline allows.
QueryBlockFromPeers(targets, attempts, opts) ==
  LET outs(n) == QueryConfigBlock(targets, attempts[n], FALSE, opts.responses)
      again(n) == {o \in outs(n) : IsError(o) /\ n < Len(attempts)
                                   /\ ResolveRetry(One(o.err), n - 1, opts.retry.attempts, opts.retry.codes)}
      from[n \in DOMAIN attempts] == (outs(n) \ again(n)) \cup (IF again(n) = {} THEN {} ELSE from[n + 1])
  IN  from[1]

\* A configuration is the function from the path of a group to the group, a
\* set of values [key, good, content].  The name of a group is the last
\* of its path, and a group belongs to the organization of that name.
GroupName(path) == IF path = << >> THEN "" ELSE path[Len(path)]

LoadConfigValue(config, key) ==
  UNION {{[name |-> GroupName(path), content |-> v.content] : v \in {w \in config[path] : w.key = key}} : path \in DOMAIN config}

\* The keys that are read; a value under another key is kept unread.
Keys == {"AnchorPeers", "MSP", "Capabilities", "OrdererAddresses"}

\* extractConfig, loadConfig: what the tree holds, wherever it is.  Two
\* groups of one name overwrite each other's capabilities.
LoadFails(config) == \E path \in DOMAIN config : \E v \in config[path] : v.key \in Keys /\ ~v.good

ExtractConfig(config) ==
  IF LoadFails(config) THEN {Fails("config")}
  ELSE {[anchors |-> UNION {{<<v.name, a>> : a \in v.content} : v \in LoadConfigValue(config, "AnchorPeers")},
         msps |-> {v.content : v \in LoadConfigValue(config, "MSP")},
         orderers |-> UNION {v.content : v \in LoadConfigValue(config, "OrdererAddresses")},
         capabilities |-> c] :
          c \in LET vs == LoadConfigValue(config, "Capabilities")
                IN  {f \in [{v.name : v \in vs} -> {v.content : v \in vs}] :
                       \A g \in DOMAIN f : [name |-> g, content |-> f[g]] \in vs}}

\* A capability that stands for a version, as V1_4_2 does, is the sequence of the
\* numbers of its name; any other is the empty one.  Versions are compared as the
\* strings they are: digit by digit, and the underscore comes after the digits.
IsVersionCapability(c) == c # << >>
Underscore == 10
Digits(n) == IF n < 10 THEN <<n>> ELSE <<n \div 10, n % 10>>
AsString(c) == FlattenSeq([i \in DOMAIN c |-> IF i = 1 THEN Digits(c[i]) ELSE <<Underscore>> \o Digits(c[i])])
After(s, t) ==
  \E i \in DOMAIN s :
    /\ i <= Len(t) + 1 /\ \A k \in 1 .. i - 1 : s[k] = t[k]
    /\ i <= Len(t) => s[i] > t[i]
Greater(c, d) == IsVersionCapability(c) /\ After(AsString(c), AsString(d))

HasCapability(cfg, group, c) ==
  /\ group \in DOMAIN cfg.capabilities
  /\ \/ c \in cfg.capabilities[group]
     \/ IsVersionCapability(c) /\ \E d \in cfg.capabilities[group] : Greater(d, c)

----------------------------------------------------------------------------
(* Properties                                                               *)

Agreed(targets, answers, out, min) ==
  \E s \in SUBSET targets :
     Cardinality(s) >= min /\ \A p \in s : answers[p].sent /\ answers[p].signed = "member" /\ answers[p].data = out.data

\* What the ledger client tells was told by as many peers as its caller
\* wants, each of them chosen, accepted by the filter and verified as a
\* member, and no verified answer disagrees: of the heights it is the
\* highest.  When all of the chosen peers answer well and alike, there is an
\* answer.  Of QueryConfigBlock less is true: its block was told by one of the
\* chosen peers, a verified member, and however many WithMinTargets wants, no
\* second one need answer or agree.
QueriesAgreed(client, req, discovered, answers) ==
  LET opts == PrepareRequestOpts(req.min, req.max)
      good(p) == answers[p].sent /\ answers[p].ok /\ answers[p].signed = "member" /\ answers[p].parses
  IN  \A t \in CalculateTargets(client, req, discovered) :
        /\ Cardinality(t) >= opts.min
        /\ req.targets = {} => \A p \in t : p \in discovered /\ (req.filter = "default" => Accepts(client.filter, p))
        /\ \A out \in MatchBlockData(t, answers, opts.min) \cup QueryTransaction(t, answers, opts.min) :
             IF IsError(out) THEN \E p, q \in t : ~good(p) \/ Answer(answers[p]) # Answer(answers[q])
             ELSE Agreed(t, answers, out, opts.min) /\ \A p \in t : good(p) => answers[p].data = out.data
        /\ \A out \in QueryInfo(t, answers, opts.min) :
             IF IsError(out) THEN \E p \in t : ~good(p)
             ELSE /\ \E p \in t : good(p) /\ out = Answer(answers[p])
                  /\ \A p \in t : good(p) => out.data >= answers[p].data
        /\ \A out \in QueryConfigBlock(t, answers, TRUE, opts.min) : ~IsError(out) => \E p \in t : good(p) /\ out = Answer(answers[p])

\* The configuration of a channel is that of as many peers of the own
\* organization as the channel's policy wants, and they all sent the same;
\* peers that agree at once are believed, and peers that agree late are
\* asked again while retries are left.
ConfigAgreed(channelPeers, msp, given, policy, attempts) ==
  LET opts == ResolveOptsFromConfig(given, policy)
      good(a) == a.sent /\ a.ok /\ a.parses /\ a.data # NoTransaction
  IN  \A t \in CalculateTargetsFromConfig(channelPeers, msp, opts.targets) :
        \A out \in QueryBlockFromPeers(t, attempts, opts) :
          IF IsError(out)
          THEN ~(Cardinality(t) >= opts.responses /\ \A p, q \in t : good(attempts[1][p]) /\ attempts[1][p].data = attempts[1][q].data)
          ELSE \E n \in DOMAIN attempts :
                 /\ \E s \in SUBSET t : Cardinality(s) >= opts.responses /\ \A p \in s : attempts[n][p].sent /\ attempts[n][p].data = out.data
                 /\ \A p \in t : attempts[n][p].sent /\ attempts[n][p].ok => attempts[n][p].data = out.data

\* A group is said to have a capability when a group of that name declares
\* it or a later version of Fabric, by the numbers of the versions, and a
\* group that shares its name with no other has all that it declares.  This is so
\* while the numbers have one digit: the code takes V1_10 for earlier than V1_2.
OneDigit(c) == \A i \in DOMAIN c : c[i] < 10
CapabilitiesTrue(config, group, c) ==
  LET paths == {p \in DOMAIN config : GroupName(p) = group}
      declared(p) == UNION {v.content : v \in {w \in config[p] : w.key = "Capabilities"}}
      later(d) == c # << >> /\ d # << >> /\ After(d, c)
      declares(p) == \E d \in declared(p) : d = c \/ later(d)
  IN  (\A d \in {c} \cup UNION {declared(p) : p \in paths} : OneDigit(d)) => \A cfg \in {x \in ExtractConfig(config) : ~IsError(x)} :
        /\ HasCapability(cfg, group, c) => \E p \in paths : declares(p)
        /\ Cardinality(paths) = 1 /\ (\A p \in paths : declares(p)) => HasCapability(cfg, group, c)

\* An anchor peer is told with the organization whose group names it, every
\* MSP of the tree is there, and a configuration that cannot be read in full
\* is not used.
ItemsTrue(config) ==
  \A cfg \in ExtractConfig(config) :
    IF IsError(cfg) THEN \E p \in DOMAIN config : \E v \in config[p] : ~v.good
    ELSE /\ \A x \in cfg.anchors : \E p \in DOMAIN config : GroupName(p) = x[1] /\ \E v \in config[p] : v.key = "AnchorPeers" /\ x[2] \in v.content
         /\ \A p \in DOMAIN config : \A v \in config[p] : v.key = "MSP" => v.content \in cfg.msps
=============================================================================
