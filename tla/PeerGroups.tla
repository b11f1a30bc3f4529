----------------------------- MODULE PeerGroups -----------------------------
(***************************************************************************)
(* Endorsement policies, from the text an administrator writes to the set  *)
(* of peers a client asks (policydsl, dynamicselection, pgresolver).       *)
(*                                                                         *)
(* An expression is a principal [msp, role] or a gate with arguments.  A   *)
(* policy is a rule and the sequence of the principals that its leaves     *)
(* point into.  What the code keeps as lists of groups are sets here: the  *)
(* choice among them is random, and the code prunes duplicates itself.     *)
(***************************************************************************)
EXTENDS Integers, Sequences, SequencesExt, FiniteSetsExt, Functions

Principal(msp, role) == [kind |-> "principal", msp |-> msp, role |-> role]
Gate(gate, n, args) == [kind |-> "gate", gate |-> gate, n |-> n, args |-> args]

\* The threshold that the first evaluation writes into "outof".
Threshold(e) ==
  CASE e.gate = "And"   -> Len(e.args)
    [] e.gate = "Or"    -> 1
    [] e.gate = "OutOf" -> e.n

NOutOf(n, rules) == [type |-> "nOutOf", n |-> n, rules |-> rules]
SignedBy(index) == [type |-> "signedBy", index |-> index]

\* Slip: the principals of every gate are numbered from zero.
NumberPrincipal_FromZero(acc, arg) ==
  IF "kind" \in DOMAIN arg
  THEN [ids |-> Append(acc.ids, arg), rules |-> Append(acc.rules, SignedBy(Len(acc.rules)))]
  ELSE [acc EXCEPT !.rules = Append(@, arg)]

\* A principal is given the next number; a policy is taken as it is.
NumberPrincipal(acc, arg) ==
  IF "kind" \in DOMAIN arg
  THEN [ids |-> Append(acc.ids, arg), rules |-> Append(acc.rules, SignedBy(Len(acc.ids)))]
  ELSE [acc EXCEPT !.rules = Append(@, arg)]

\* secondPass: the arguments that are gates have been evaluated already, so
\* their principals come first; its own principals are numbered after them.
RECURSIVE SecondPass(_, _)
SecondPass(e, ids) ==
  LET evaluate(acc, arg) ==
        IF arg.kind = "gate"
        THEN LET sub == SecondPass(arg, acc.ids)
             IN  [ids |-> sub.ids, rules |-> Append(acc.rules, sub.rule)]
        ELSE [acc EXCEPT !.rules = Append(@, arg)]
      nested == FoldLeft(evaluate, [ids |-> ids, rules |-> << >>], e.args)
      own == FoldLeft(NumberPrincipal, [ids |-> nested.ids, rules |-> << >>], nested.rules)
  IN  [ids |-> own.ids, rule |-> NOutOf(Threshold(e), own.rules)]

\* A threshold of one more than there are arguments is let through.
RECURSIVE Parses(_)
Parses(e) ==
  /\ e.kind = "gate"
  /\ Len(e.args) > 0
  /\ Threshold(e) \in 0 .. Len(e.args) + 1
  /\ \A i \in DOMAIN e.args : e.args[i].kind = "gate" => Parses(e.args[i])

FromString(e) == SecondPass(e, << >>)

----------------------------------------------------------------------------
(* Compiling a policy to the groups of MSPs that satisfy it                 *)

AnyMSP == ""

\* One member of each of the given sets of sets, joined.
And(family) == {UNION Range(pick) : pick \in
                 {f \in [DOMAIN family -> UNION Range(family)] : \A i \in DOMAIN f : f[i] \in family[i]}}

\* getCombinations: the rules that are asked for, n of them at a time.
Nof(n, groups) == UNION {And(Restrict(groups, s)) : s \in kSubset(n, DOMAIN groups)}

\* An MSP is named by a role or by an organizational unit; a principal that
\* is one identity is refused.
NamesMSP(principal) == principal.role # "identity"

\* A threshold beyond the rules is refused when the groups are combined.
RECURSIVE Compiles(_, _)
Compiles(rule, ids) ==
  IF rule.type = "signedBy"
  THEN NamesMSP(ids[rule.index + 1])
  ELSE \/ rule.n = 0
       \/ /\ rule.n \in 1 .. Len(rule.rules)
          /\ \A i \in DOMAIN rule.rules : Compiles(rule.rules[i], ids)

RECURSIVE Reduce(_, _)
Reduce(rule, ids) ==
  CASE rule.type = "signedBy" -> {{ids[rule.index + 1].msp}}
    [] rule.type = "nOutOf" /\ rule.n = 0 -> {{AnyMSP}}
    [] OTHER -> Nof(rule.n, [i \in DOMAIN rule.rules |-> Reduce(rule.rules[i], ids)])

\* The policies of all the chaincodes of a call have to be satisfied.
CreatePGResolver(policies) ==
  Nof(Len(policies), [i \in DOMAIN policies |-> Reduce(policies[i].rule, policies[i].ids)])

----------------------------------------------------------------------------
(* Resolving groups of MSPs to groups of peers                              *)

RetrievePeers(msp, peers) == {p \in peers : msp = AnyMSP \/ p.msp = msp}

MustGetPeerGroups(group, peers) == And([msp \in group |-> {{p} : p \in RetrievePeers(msp, peers)}])

GetPeerGroups(groups, peers) == UNION {MustGetPeerGroups(g, peers) : g \in groups}

\* The random policy: any of the groups, or no peer when there is none.
Choose(peerGroups) == IF peerGroups = {} THEN {{}} ELSE peerGroups

\* The peers a call may be sent to: what the discovery service knows and the
\* caller's filter accepts, resolved to one group.
GetEndorsersForChaincode(policies, peers, accepts) ==
  Choose(GetPeerGroups(CreatePGResolver(policies), peers \cap accepts))

----------------------------------------------------------------------------
(* What a policy means                                                      *)

\* The orgs satisfy an expression: the reference that the parsed, compiled
\* and resolved forms are held against.
RECURSIVE Satisfies(_, _)
Satisfies(e, orgs) ==
  IF e.kind = "principal" THEN e.msp \in orgs
  ELSE Cardinality({i \in DOMAIN e.args : Satisfies(e.args[i], orgs)}) >= Threshold(e)

\* Whatever group of peers is chosen satisfies every policy; one is chosen
\* whenever the peers that may be asked satisfy them all; and every peer of
\* the group is one that may be asked.
ResolvesPolicy(exprs, peers, accepts) ==
  LET usable == peers \cap accepts
      orgs(ps) == {p.msp : p \in ps}
      holds(ps) == \A i \in DOMAIN exprs : Satisfies(exprs[i], orgs(ps))
      policies == [i \in DOMAIN exprs |-> FromString(exprs[i])]
  IN  (\A i \in DOMAIN exprs :
         Parses(exprs[i]) /\ Compiles(policies[i].rule, policies[i].ids))
      => \A chosen \in GetEndorsersForChaincode(policies, peers, accepts) :
           /\ chosen \subseteq usable
           /\ IF usable # {} /\ holds(usable) THEN chosen # {} /\ holds(chosen) ELSE chosen = {}
=============================================================================
