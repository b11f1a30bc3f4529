---------------------------- MODULE ConfigUpdate ----------------------------
(***************************************************************************)
(* How a channel's configuration is made and changed: the difference of    *)
(* two configurations (configtxlator/update), the groups a profile is      *)
(* turned into (configtxgen/encoder) and the transactions made from them   *)
(* (pkg/fab/resource/configtx.go).                                         *)
(*                                                                         *)
(* A group is [version, mod, items, groups]; its items, keyed by kind and  *)
(* name, are the values and the policies [version, mod, content].  An      *)
(* update is a read set and a write set, both groups.  What an orderer     *)
(* does with one is modelled from the versions that the update carries.    *)
(***************************************************************************)
EXTENDS Integers, Sequences, FiniteSets, TLC

CONSTANT None

Item(mod, content) == [version |-> 0, mod |-> mod, content |-> content]
NewConfigGroup == [version |-> 0, mod |-> "", items |-> << >>, groups |-> << >>]
OnlyVersion(x) == IF "groups" \in DOMAIN x THEN [NewConfigGroup EXCEPT !.version = x.version] ELSE [Item("", "") EXCEPT !.version = x.version]

----------------------------------------------------------------------------
(* The difference of two configurations                                     *)

\* Slip: a changed item keeps its version.
ComputeItemsUpdate_SameVersion(original, updated) ==
  LET both == DOMAIN original \cap DOMAIN updated
      same == {k \in both : original[k].mod = updated[k].mod /\ original[k].content = updated[k].content}
  IN  [write |-> [k \in DOMAIN updated \ same |-> [updated[k] EXCEPT !.version = IF k \in both THEN original[k].version ELSE 0]],
       same |-> [k \in same |-> OnlyVersion(original[k])],
       members |-> DOMAIN original # DOMAIN updated]

\* computePoliciesMapUpdate, computeValuesMapUpdate: what changed has the
\* next version and what is new has version 0; what is the same is kept
\* aside, without its contents.
ComputeItemsUpdate(original, updated) ==
  LET both == DOMAIN original \cap DOMAIN updated
      same == {k \in both : original[k].mod = updated[k].mod /\ original[k].content = updated[k].content}
  IN  [write |-> [k \in DOMAIN updated \ same |-> [updated[k] EXCEPT !.version = IF k \in both THEN original[k].version + 1 ELSE 0]],
       same |-> [k \in same |-> OnlyVersion(original[k])],
       members |-> DOMAIN original # DOMAIN updated]

RECURSIVE ComputeGroupUpdate(_, _)

\* computeGroupsMapUpdate: a group that changed inside is in both sets, a
\* new group is in the write set with version 0.
ComputeGroupsMapUpdate(original, updated) ==
  LET both == DOMAIN original \cap DOMAIN updated
      new == DOMAIN updated \ DOMAIN original
      sub == [k \in both |-> ComputeGroupUpdate(original[k], updated[k])]
      changed == {k \in both : sub[k].changed}
      added(k) == LET w == ComputeGroupUpdate(NewConfigGroup, updated[k]).write
                  IN  [version |-> 0, mod |-> updated[k].mod, items |-> w.items, groups |-> w.groups]
  IN  [read |-> [k \in changed |-> sub[k].read],
       write |-> [k \in changed \cup new |-> IF k \in changed THEN sub[k].write ELSE added(k)],
       same |-> [k \in both \ changed |-> sub[k].read],
       members |-> DOMAIN original # DOMAIN updated]

\* computeGroupUpdate: the version of a group is raised when its members or
\* its policy of modification change, and all of its members are then named.
ComputeGroupUpdate(original, updated) ==
  LET items == ComputeItemsUpdate(original.items, updated.items)
      groups == ComputeGroupsMapUpdate(original.groups, updated.groups)
      Set(version, mod, is, gs) == [version |-> version, mod |-> mod, items |-> is, groups |-> gs]
  IN  IF ~(items.members \/ groups.members \/ original.mod # updated.mod)
      THEN IF DOMAIN items.write = {} /\ DOMAIN groups.read = {} /\ DOMAIN groups.write = {}
           THEN [read |-> OnlyVersion(original), write |-> OnlyVersion(original), changed |-> FALSE]
           ELSE [read |-> Set(original.version, "", << >>, groups.read),
                 write |-> Set(original.version, "", items.write, groups.write), changed |-> TRUE]
      ELSE [read |-> Set(original.version, "", items.same, groups.same @@ groups.read),
            write |-> Set(original.version + 1, updated.mod, items.same @@ items.write, groups.same @@ groups.write),
            changed |-> TRUE]

Compute(original, updated) ==
  LET u == ComputeGroupUpdate(original, updated)
  IN  IF u.changed THEN [read |-> u.read, write |-> u.write] ELSE None

----------------------------------------------------------------------------
(* Profiles                                                                 *)

Admins == "Admins"
OrdererAdmins == "/Channel/Orderer/Admins"
Value(name) == <<"Values", name>>
Policy(name) == <<"Policies", name>>

\* Whatever cannot be turned into a group is None, and so is all above it.
Assemble(mod, items, groups) ==
  IF items = None \/ (\E k \in DOMAIN groups : groups[k] = None) THEN None
  ELSE [version |-> 0, mod |-> mod, items |-> items, groups |-> groups]

\* AddPolicies, AddOrdererPolicies: the required policies are there, each of
\* a known type with a rule that parses.
AddPolicies(policies, required) ==
  IF policies = None THEN None
  ELSE IF ~(required \subseteq DOMAIN policies) \/ \E n \in DOMAIN policies : policies[n] \notin {"meta", "signature"} THEN None
  ELSE [k \in {Policy(n) : n \in DOMAIN policies} |-> Item(Admins, policies[k[2]])]
Standard == {"Admins", "Readers", "Writers"}

\* addValue, for every value that is set.
AddValues(items, values) ==
  IF items = None THEN None
  ELSE items @@ [k \in {Value(n) : n \in {m \in DOMAIN values : values[m] # ""}} |-> Item(Admins, values[k[2]])]

\* NewConsortiumOrgGroup, NewOrdererOrgGroup, NewApplicationOrgGroup: the
\* group of a foreign organization is empty.
NewOrgGroup(org, extra) ==
  IF org.foreign THEN Assemble(Admins, << >>, << >>)
  ELSE IF org.msp = "" THEN None
  ELSE Assemble(Admins, AddValues(AddPolicies(org.policies, Standard), ("MSP" :> org.msp) @@ extra), << >>)
NewConsortiumOrgGroup(org) == NewOrgGroup(org, << >>)
NewOrdererOrgGroup(org) == NewOrgGroup(org, "Endpoints" :> org.endpoints)
NewApplicationOrgGroup(org) == NewOrgGroup(org, "AnchorPeers" :> org.anchors)

NewOrdererGroup(conf) ==
  IF conf.type \notin {"solo", "kafka", "etcdraft"} \/ (conf.type = "etcdraft" /\ ~conf.metadata) THEN None
  ELSE Assemble(Admins, AddValues(AddPolicies(conf.policies, Standard \cup {"BlockValidation"}),
                           ("BatchSize" :> "size") @@ ("BatchTimeout" :> "timeout") @@ ("ChannelRestrictions" :> "max")
                           @@ ("Capabilities" :> conf.capabilities) @@ ("KafkaBrokers" :> IF conf.type = "kafka" THEN "brokers" ELSE "")
                           @@ ("ConsensusType" :> conf.type)),
                [n \in DOMAIN conf.orgs |-> NewOrdererOrgGroup(conf.orgs[n])])

NewApplicationGroup(conf) ==
  Assemble(Admins, AddValues(AddPolicies(conf.policies, Standard), ("ACLs" :> conf.acls) @@ ("Capabilities" :> conf.capabilities)),
           [n \in DOMAIN conf.orgs |-> NewApplicationOrgGroup(conf.orgs[n])])

\* NewConsortiumGroup, NewConsortiumsGroup: for the orderers' admins.
NewConsortiumGroup(orgs) ==
  Assemble(OrdererAdmins, Value("ChannelCreationPolicy") :> Item(OrdererAdmins, "any"), [n \in DOMAIN orgs |-> NewConsortiumOrgGroup(orgs[n])])
NewConsortiumsGroup(conf) ==
  Assemble(OrdererAdmins, Policy("Admins") :> Item(OrdererAdmins, "accept"), [c \in DOMAIN conf |-> NewConsortiumGroup(conf[c])])

\* NewChannelGroup: the addresses of the orderers belong to their admins.
NewChannelGroup(conf) ==
  LET values == AddValues(AddPolicies(conf.policies, Standard),
                  ("HashingAlgorithm" :> "sha256") @@ ("BlockDataHashingStructure" :> "width")
                  @@ ("Consortium" :> conf.consortium) @@ ("Capabilities" :> conf.capabilities))
      addresses == IF conf.orderer = None THEN "" ELSE conf.orderer.addresses
      items == IF values = None \/ addresses = "" THEN values
               ELSE values @@ (Value("OrdererAddresses") :> Item(OrdererAdmins, addresses))
  IN  Assemble(Admins, items,
        (IF conf.orderer = None THEN << >> ELSE "Orderer" :> NewOrdererGroup(conf.orderer))
        @@ (IF conf.application = None THEN << >> ELSE "Application" :> NewApplicationGroup(conf.application))
        @@ (IF conf.consortiums = None THEN << >> ELSE "Consortiums" :> NewConsortiumsGroup(conf.consortiums)))

\* HasSkippedForeignOrgs, NewBootstrapper, CreateGenesisBlock: a block made
\* of complete organizations only, with an orderer.
Orgs(conf) ==
  (IF conf.orderer = None THEN {} ELSE {conf.orderer.orgs[n] : n \in DOMAIN conf.orderer.orgs})
  \cup (IF conf.application = None THEN {} ELSE {conf.application.orgs[n] : n \in DOMAIN conf.application.orgs})
  \cup (IF conf.consortiums = None THEN {} ELSE UNION {{conf.consortiums[c][n] : n \in DOMAIN conf.consortiums[c]} : c \in DOMAIN conf.consortiums})
CreateGenesisBlock(conf) ==
  IF conf.orderer = None \/ \E o \in Orgs(conf) : o.foreign THEN None ELSE NewChannelGroup(conf)

----------------------------------------------------------------------------
(* Transactions                                                             *)

\* DefaultConfigTemplate: the channel itself, with an empty application.
DefaultConfigTemplate(conf) ==
  LET g == NewChannelGroup(conf)
  IN  IF g = None \/ conf.application = None THEN None ELSE [g EXCEPT !.groups["Application"].items = << >>]

\* ConfigTemplateFromGroup: the system channel, its consortiums replaced by
\* an application of the organizations of one of them.
ConfigTemplateFromGroup(conf, system) ==
  LET consortiums == IF system # None /\ "Consortiums" \in DOMAIN system.groups THEN system.groups["Consortiums"].groups ELSE << >>
      members == IF conf.consortium \in DOMAIN consortiums THEN consortiums[conf.consortium].groups ELSE << >>
      application == [NewConfigGroup EXCEPT !.items = Policy("Admins") :> Item("", ""),
                                            !.groups = [n \in DOMAIN conf.application.orgs |-> members[n]]]
  IN  IF conf.application = None \/ conf.consortium \notin DOMAIN consortiums THEN None
      ELSE IF ~(DOMAIN conf.application.orgs \subseteq DOMAIN members) THEN None
      ELSE [system EXCEPT !.groups = [k \in (DOMAIN @ \cup {"Application"}) \ {"Consortiums"} |-> IF k = "Application" THEN application ELSE @[k]],
                          !.items = (Value("Consortium") :> Item(Admins, conf.consortium)) @@ @]

\* NewChannelCreateConfigUpdate: the difference to the template, with the
\* consortium named in both sets.
NewChannelCreateConfigUpdate(conf, template) ==
  LET g == NewChannelGroup(conf)
      u == Compute(template, g)
  IN  IF template = None \/ conf.application = None \/ conf.consortium = "" THEN None
      ELSE IF g = None THEN None ELSE IF u = None THEN None
      ELSE [read |-> [u.read EXCEPT !.items = (Value("Consortium") :> Item("", "")) @@ @],
            write |-> [u.write EXCEPT !.items = (Value("Consortium") :> Item("", conf.consortium)) @@ @]]

\* CreateChannelCreateTx: with the profile of the system channel or without.
CreateChannelCreateTx(conf, base) ==
  IF base = None THEN NewChannelCreateConfigUpdate(conf, DefaultConfigTemplate(conf))
  ELSE NewChannelCreateConfigUpdate(conf, ConfigTemplateFromGroup(conf, NewChannelGroup(base)))

\* CreateAnchorPeersUpdate: the anchor peers of one organization, added to a
\* channel whose application has version 1.
CreateAnchorPeersUpdate(conf, org) ==
  LET g == [NewChannelGroup(conf) EXCEPT !.groups["Application"].version = 1]
      app == g.groups["Application"]
      anchors == Value("AnchorPeers")
  IN  IF org = "" \/ conf.application = None \/ NewChannelGroup(conf) = None THEN None
      ELSE IF org \notin DOMAIN app.groups THEN None
      ELSE IF anchors \notin DOMAIN app.groups[org].items THEN None
      ELSE Compute([g EXCEPT !.groups["Application"].groups[org].items = [k \in DOMAIN @ \ {anchors} |-> @[k]]], g)

----------------------------------------------------------------------------
(* What an orderer makes of an update                                       *)

RECURSIVE Flat(_, _)

\* A group as the function from paths to elements; an element of a group
\* names its members.
Flat(g, path) ==
  LET names == DOMAIN g.items \cup {<<"Groups", n>> : n \in DOMAIN g.groups}
      subs == [n \in DOMAIN g.groups |-> Flat(g.groups[n], Append(path, <<"Groups", n>>))]
      under == UNION {DOMAIN subs[n] : n \in DOMAIN subs}
  IN  (path :> [version |-> g.version, mod |-> g.mod, content |-> "", members |-> names])
      @@ [p \in {Append(path, k) : k \in DOMAIN g.items} |->
            LET i == g.items[p[Len(p)]] IN [version |-> i.version, mod |-> i.mod, content |-> i.content, members |-> {}]]
      @@ [p \in under |-> subs[p[Len(path) + 1][2]][p]]

Authorized(cur, u) ==
  LET read == Flat(u.read, << >>)
      write == Flat(u.write, << >>)
      delta == {p \in DOMAIN write : ~(p \in DOMAIN read /\ read[p].version = write[p].version)}
  IN  /\ \A p \in DOMAIN read : p \in DOMAIN cur /\ cur[p].version = read[p].version
      /\ \A p \in delta : write[p].version = IF p \in DOMAIN cur THEN cur[p].version + 1 ELSE 0

Apply(cur, u) ==
  LET read == Flat(u.read, << >>)
      write == Flat(u.write, << >>)
      delta == {p \in DOMAIN write : ~(p \in DOMAIN read /\ read[p].version = write[p].version)}
      all == [p \in DOMAIN cur \cup delta |-> IF p \in delta THEN write[p] ELSE cur[p]]
      named(p) == \A n \in 0 .. Len(p) - 1 : SubSeq(p, 1, n) \in DOMAIN all /\ p[n + 1] \in all[SubSeq(p, 1, n)].members
  IN  [p \in {q \in DOMAIN all : named(q)} |-> all[p]]

----------------------------------------------------------------------------
(* Properties                                                               *)

Contents(flat) == [p \in DOMAIN flat |-> [flat[p] EXCEPT !.version = 0]]

\* An orderer accepts the difference of its configuration and another and
\* has the other one then; what is the same keeps its version, what is not
\* has the next one.  Without a difference there is no update.
UpdateExact(original, updated) ==
  LET u == Compute(original, updated)
      cur == Flat(original, << >>)
      new == Flat(updated, << >>)
      got == Apply(cur, u)
  IN  IF u = None THEN Contents(cur) = Contents(new)
      ELSE /\ Authorized(cur, u)
           /\ Contents(got) = Contents(new)
           /\ \A p \in DOMAIN got : got[p].version = IF p \notin DOMAIN cur THEN 0
                                                     ELSE cur[p].version + (IF Contents(got)[p] = Contents(cur)[p] THEN 0 ELSE 1)

\* An orderer that has the profile of the system channel accepts what is
\* made from that profile, and the new channel is as its own profile says.
\* What is made without it is accepted where the consortium has the members
\* and the application starts without policies; it sets up the same members,
\* whose definition is the consortium's.
CreationTrue(conf, base) ==
  LET system == NewChannelGroup(base)
      template == ConfigTemplateFromGroup(conf, system)
      cur == Flat(template, << >>)
      full == CreateChannelCreateTx(conf, base)
      bare == CreateChannelCreateTx(conf, None)
      start == Flat([template EXCEPT !.groups["Application"].items = << >>], << >>)
      got == Apply(start, bare)
      application == << <<"Groups", "Application">> >>
  IN  /\ full # None =>
           /\ template # None /\ Authorized(cur, full)
           /\ Contents(Apply(cur, full)) = Contents(Flat(NewChannelGroup(conf), << >>))
      /\ bare # None /\ template # None =>
           /\ Authorized(start, bare)
           /\ got[application].members = Flat(NewChannelGroup(conf), << >>)[application].members
           /\ \A n \in DOMAIN conf.application.orgs : LET home == Append(application, <<"Groups", n>>) IN Contents(got)[home] = Contents(start)[home]
      /\ CreateGenesisBlock(base) # None => \A o \in Orgs(base) : o.msp # ""

\* The orderer of a channel that was made from a profile accepts the update
\* of an organization's anchor peers, which changes nothing else.
AnchorsTrue(conf, org) ==
  LET u == CreateAnchorPeersUpdate(conf, org)
      home == << <<"Groups", "Application">>, <<"Groups", org>> >>
      anchors == Value("AnchorPeers")
      bare == [conf EXCEPT !.application.orgs = [n \in DOMAIN @ |-> [@[n] EXCEPT !.anchors = ""]]]
      cur == Flat([NewChannelGroup(bare) EXCEPT !.groups["Application"].version = 1], << >>)
      got == Apply(cur, u)
  IN  u # None => /\ Authorized(cur, u)
                  /\ DOMAIN got = DOMAIN cur \cup {Append(home, anchors)}
                  /\ \A p \in DOMAIN cur \ {home} : got[p] = cur[p]
                  /\ got[Append(home, anchors)].content = conf.application.orgs[org].anchors
=============================================================================
