----------------------------- MODULE Membership -----------------------------
(***************************************************************************)
(* The membership service of a channel (pkg/fab/channel/membership) and    *)
(* the X.509 MSP of Fabric that it is built from (internal .../fabric/msp).*)
(*                                                                         *)
(* A certificate is [subject, issuer, serial, ca, ski, ous, lowS, dates,   *)
(* parses]; signatures are ECDSA, and lowS says that one is in its only    *)
(* canonical form.  An MSP configuration is [name, version, roots, inters, *)
(* admins, crls, signer, ous, nodeOUs, tlsRoots, tlsInters, hash]; None    *)
(* stands for what is nil.  A CRL is [aki, serial, signed].                *)
(***************************************************************************)
EXTENDS Integers, Sequences, FiniteSets, TLC

CONSTANT None

NoChain == << >>
Roles == {"client", "peer", "admin", "orderer"}

----------------------------------------------------------------------------
(* Chains                                                                   *)

SignedBy(c, d) == c.issuer = d.subject /\ d.ca
SelfSigned(c) == c.ca /\ c.issuer = c.subject

\* The verification of the x509 library: a root is a chain by itself.
Chains(roots, inters, c) ==
  IF c \in roots THEN {<<c>>}
  ELSE {<<c, r>> : r \in {x \in roots : SignedBy(c, x)}}
       \cup {<<c, i[1], i[2]>> : i \in {y \in inters \X roots : SignedBy(c, y[1]) /\ SignedBy(y[1], y[2]) /\ y[1] # c}}
       \cup {<<c, i[1], i[2], i[3]>> : i \in {y \in inters \X inters \X roots :
               SignedBy(c, y[1]) /\ SignedBy(y[1], y[2]) /\ SignedBy(y[2], y[3]) /\ y[1] # y[2] /\ c \notin {y[1], y[2]}}}

\* getUniqueValidationChain: the dates are not looked at here.
TheOnly(chains) == IF Cardinality(chains) = 1 THEN CHOOSE x \in chains : TRUE ELSE NoChain
GetUniqueValidationChain(roots, inters, c) == TheOnly(Chains(roots, inters, c))

\* sanitizeCert: a certificate in canonical form, which needs a chain.  One
\* that is a root and has another issuer makes it index past its chain.
SanitizePanics(msp, c) == c \in msp.roots /\ ~SelfSigned(c)
SanitizeCert(msp, c) ==
  IF SelfSigned(c) \/ GetUniqueValidationChain(msp.roots, msp.inters, c) # NoChain THEN [c EXCEPT !.lowS = TRUE] ELSE None

\* getValidationChain: the parent must be a leaf of the tree of the CAs.
WithLeaf(msp, chain, parent) == IF Len(chain) < 2 \/ chain[parent] \in msp.internal THEN NoChain ELSE chain
GetValidationChain(msp, c, isIntermediate) ==
  WithLeaf(msp, GetUniqueValidationChain(msp.roots, msp.inters, c), IF isIntermediate THEN 1 ELSE 2)

GetCertificationChain(msp, c) == IF c.ca THEN NoChain ELSE GetValidationChain(msp, c, FALSE)

\* The identifier of who certified: the chain from the parent on, hashed.
FromParent(chain) == IF chain = NoChain THEN None ELSE Tail(chain)
GetCertificationChainIdentifier(msp, c) == FromParent(GetCertificationChain(msp, c))

\* getCertifiersIdentifier: of a root, or of an intermediate of this MSP.
CertifierChain(msp, c) ==
  CASE c # None /\ c \in msp.roots -> <<c>>
    [] c # None /\ c \in msp.inters \ msp.roots -> GetValidationChain(msp, c, TRUE)
    [] OTHER -> NoChain
GetCertifiersIdentifier(msp, raw) ==
  IF raw.parses /\ CertifierChain(msp, SanitizeCert(msp, raw)) # NoChain THEN CertifierChain(msp, SanitizeCert(msp, raw)) ELSE None

----------------------------------------------------------------------------
(* Identities                                                               *)

\* deserializeIdentityInternal and newIdentity
NewIdentity(msp, raw) == IF raw.parses THEN SanitizeCert(msp, raw) ELSE None

GetOrganizationalUnits(msp, c) ==
  {[ou |-> u, certifiers |-> i] : u \in c.ous, i \in {GetCertificationChainIdentifier(msp, c)} \ {None}}

\* validateCertAgainstChain: a CRL counts when the parent has signed it.  A
\* parent without a key identifier is an error, and so is a CRL, whoever's it is,
\* that does not name the key of its authority.
ValidateCertAgainstChain(msp, c, chain) ==
  chain[2].ski /\ (\A crl \in msp.crls : crl.aki # None) /\ ~\E crl \in msp.crls : crl.aki = chain[2].subject /\ crl.serial = c.serial /\ crl.signed

\* The units that the MSP asks for; every identity needs one of them.
ValidateIdentityOUsV1(msp, c) ==
  msp.ouIdentifiers # {} => \E u \in GetOrganizationalUnits(msp, c) : <<u.ou, u.certifiers>> \in msp.ouIdentifiers

\* Among the units of an identity exactly one is that of a role, and is
\* certified as the role asks.  (Roles have different units.)
UnitOf(msp, role, u) == msp.nodeOUs[role] # None /\ msp.nodeOUs[role].ou = u.ou
OneRole(msp, c, roles) ==
  \E u \in GetOrganizationalUnits(msp, c) :
    /\ {v \in GetOrganizationalUnits(msp, c) : \E r \in roles : UnitOf(msp, r, v)} = {u}
    /\ \A r \in roles : UnitOf(msp, r, u) => msp.nodeOUs[r].certifiers \in {None, u.certifiers}
ValidateIdentityOUsV11(msp, c) == ValidateIdentityOUsV1(msp, c) /\ (msp.enforcement => OneRole(msp, c, {"client", "peer"}))
ValidateIdentityOUsV142(msp, c) == ValidateIdentityOUsV1(msp, c) /\ (msp.enforcement => OneRole(msp, c, Roles))

\* The version of the MSP says how units are validated.
ValidateOUs(msp, c) ==
  CASE msp.version = "1.0" -> ValidateIdentityOUsV1(msp, c)
    [] msp.version \in {"1.1", "1.3"} -> ValidateIdentityOUsV11(msp, c)
    [] msp.version = "1.4.3" -> ValidateIdentityOUsV142(msp, c)

\* validateIdentity
ValidateIdentity(msp, c) ==
  \E chain \in {GetCertificationChain(msp, c)} \ {NoChain} : ValidateCertAgainstChain(msp, c, chain) /\ ValidateOUs(msp, c)

\* Slip: CAs are not held against the revocation lists.
ValidateCAIdentity_NoCRL(msp, c) == c.ca /\ GetUniqueValidationChain(msp.roots, msp.inters, c) # NoChain

\* validateCAIdentity
ValidateCAIdentity(msp, c) ==
  c.ca /\ \E chain \in {GetUniqueValidationChain(msp.roots, msp.inters, c)} \ {NoChain} :
            Len(chain) > 1 => ValidateCertAgainstChain(msp, c, chain)

----------------------------------------------------------------------------
(* Setup                                                                    *)

\* setupCAs and finalizeSetupCAs: the CAs in canonical form, and those of
\* them that certify intermediates.
SetupCAs(conf) ==
  IF conf.roots = {} \/ (\E c \in conf.roots \cup conf.inters : ~c.parses \/ SanitizeCert(conf, c) = None) THEN None
  ELSE [roots |-> {SanitizeCert(conf, c) : c \in conf.roots}, inters |-> {SanitizeCert(conf, c) : c \in conf.inters}]
Above(chain) == {chain[k] : k \in 2 .. Len(chain)}
InternalNodes(cas) ==
  UNION {Above(GetUniqueValidationChain(cas.roots, cas.inters, c)) : c \in cas.inters}
FinalizeSetupCAs(msp) ==
  \A c \in msp.roots \cup msp.inters : c.ca /\ c.ski /\ ValidateCAIdentity(msp, c)

\* setupAdmins: an MSP of version 1.4.3 has an admin or a unit for admins.
SetupAdmins(conf, msp, nodes) ==
  /\ \A c \in conf.admins : NewIdentity(msp, c) # None
  /\ conf.version = "1.4.3" => conf.admins # {} \/ (nodes.enforcement /\ nodes.nodeOUs["admin"] # None)

\* setupNodeOUs, and setupNodeOUsV142: which may leave out roles.
NodeOU(msp, n) ==
  IF n = None THEN None
  ELSE [ou |-> n.ou, certifiers |-> IF n.cert = None THEN None ELSE GetCertifiersIdentifier(msp, n.cert)]
NodeOUFails(msp, n) == n # None /\ n.cert # None /\ GetCertifiersIdentifier(msp, n.cert) = None
NoNodeOUs == [r \in Roles |-> None]
Enforced(version) ==
  CASE version = "1.0" -> {}
    [] version \in {"1.1", "1.3"} -> {"client", "peer"}
    [] version = "1.4.3" -> Roles
SetupNodeOUs(conf, msp) ==
  IF conf.nodeOUs = None \/ Enforced(conf.version) = {} THEN [enforcement |-> FALSE, nodeOUs |-> NoNodeOUs]
  ELSE [enforcement |-> conf.nodeOUs.enable /\ \E r \in Enforced(conf.version) : conf.nodeOUs.role[r] # None,
        nodeOUs |-> [r \in Roles |-> IF r \in Enforced(conf.version) THEN NodeOU(msp, conf.nodeOUs.role[r]) ELSE None]]
SetupNodeOUsFails(conf, msp) ==
  conf.nodeOUs # None /\ \E r \in Enforced(conf.version) :
    NodeOUFails(msp, conf.nodeOUs.role[r]) \/ (conf.version # "1.4.3" /\ conf.nodeOUs.role[r] = None)

\* setupOUs, setupTLSCAs and setupSigningIdentity
SetupOUs(conf, msp) == \A o \in conf.ous : GetCertifiersIdentifier(msp, o.cert) # None
SetupTLSCAs(conf, msp) ==
  \A c \in conf.tlsRoots \cup conf.tlsInters :
    c.parses /\ c.ski /\ ValidateCAIdentity([roots |-> conf.tlsRoots, inters |-> conf.tlsInters, crls |-> msp.crls], c)
SetupSigningIdentity(conf, msp) ==
  conf.signer # None => /\ NewIdentity(msp, conf.signer.cert) # None
                        /\ conf.signer.key /\ conf.signer.cert.dates # "expired"

SetupCrypto(conf) == IF conf.hash = "" THEN "SHA2" ELSE conf.hash

\* preSetup: the MSP before its admins are validated, or None.  Only the
\* version makes the node OUs precede or follow the admins.
PreSetupV142(conf, msp) ==
  IF /\ FinalizeSetupCAs(msp)
     /\ SetupSigningIdentity(conf, msp) /\ SetupTLSCAs(conf, msp) /\ SetupOUs(conf, msp)
     /\ ~SetupNodeOUsFails(conf, msp) /\ SetupAdmins(conf, msp, SetupNodeOUs(conf, msp))
  THEN msp @@ SetupNodeOUs(conf, msp)
           @@ [ouIdentifiers |-> {<<o.ou, GetCertifiersIdentifier(msp, o.cert)>> : o \in conf.ous},
               admins |-> {NewIdentity(msp, c) : c \in conf.admins}, tls |-> conf.tlsRoots \cup conf.tlsInters]
  ELSE None
PreSetup(conf, cas) ==
  IF cas = None THEN None
  ELSE PreSetupV142(conf, [name |-> conf.name, version |-> conf.version, crls |-> conf.crls, hash |-> SetupCrypto(conf),
                           internal |-> InternalNodes(cas)] @@ cas)

HasOURole(msp, c, role) ==
  msp.enforcement /\ msp.nodeOUs[role] # None /\ \E u \in GetOrganizationalUnits(msp, c) : u.ou = msp.nodeOUs[role].ou

\* postSetup: every admin is an identity of the MSP; with units that are
\* enforced, a client, and from version 1.4.3 on a client or an admin.
PostSetupV1(msp) == \A c \in msp.admins : ValidateIdentity(msp, c)
PostSetupV11(msp) ==
  IF ~msp.enforcement THEN PostSetupV1(msp) ELSE \A c \in msp.admins : ValidateIdentity(msp, c) /\ HasOURole(msp, c, "client")
PostSetupV142(msp) ==
  IF ~msp.enforcement THEN PostSetupV1(msp) ELSE \A c \in msp.admins : HasOURole(msp, c, "client") \/ HasOURole(msp, c, "admin")

PostSetup(msp) ==
  CASE msp.version = "1.0" -> PostSetupV1(msp)
    [] msp.version \in {"1.1", "1.3"} -> PostSetupV11(msp)
    [] msp.version = "1.4.3" -> PostSetupV142(msp)

\* Setup: the MSP of a configuration, or None.
Checked(msp) == IF msp # None /\ PostSetup(msp) THEN msp ELSE None
Setup(conf) == Checked(PreSetup(conf, SetupCAs(conf)))

----------------------------------------------------------------------------
(* Principals: [type, msp, role, cert, ou]                                  *)

\* A combination is taken apart, one within another too, and may not be empty.
CollectPrincipals(p, version) ==
  CASE p.type # "combined" -> {p}
    [] p.type = "combined" /\ (version \in {"1.0", "1.1"} \/ p.of = {}) -> {}
    [] OTHER -> p.of

IsInAdmins(msp, c) == c \in msp.admins

SatisfiesPreV13(msp, c, p) ==
  CASE p.type = "role" ->
         p.msp = msp.name /\ (CASE p.role = "member" -> ValidateIdentity(msp, c)
                                [] p.role = "admin" -> IsInAdmins(msp, c)
                                [] p.role \in {"client", "peer"} -> ValidateIdentity(msp, c) /\ HasOURole(msp, c, p.role)
                                [] p.role = "orderer" -> FALSE)
    [] p.type = "identity" -> p.msp = msp.name /\ NewIdentity(msp, p.cert) = c /\ ValidateIdentity(msp, c)
    [] p.type = "ou" ->
         p.msp = msp.name /\ ValidateIdentity(msp, c) /\ [ou |-> p.ou, certifiers |-> p.certifiers] \in GetOrganizationalUnits(msp, c)
    [] OTHER -> FALSE
SatisfiesV13(msp, c, p) == IF p.type = "anonymity" THEN p.nominal ELSE SatisfiesPreV13(msp, c, p)
SatisfiesV142(msp, c, p) ==
  IF p.type = "role" /\ msp.enforcement /\ p.role \in {"admin", "orderer"}
  THEN /\ p.msp = msp.name
       /\ (p.role = "admin" /\ IsInAdmins(msp, c)) \/ (ValidateIdentity(msp, c) /\ HasOURole(msp, c, p.role))
  ELSE SatisfiesV13(msp, c, p)

SatisfiesPrincipal(msp, c, p) ==
  /\ CollectPrincipals(p, msp.version) # {}
  /\ \A q \in CollectPrincipals(p, msp.version) :
       CASE msp.version \in {"1.0", "1.1"} -> SatisfiesPreV13(msp, c, q)
         [] msp.version = "1.3" -> SatisfiesV13(msp, c, q)
         [] msp.version = "1.4.3" -> SatisfiesV142(msp, c, q)

----------------------------------------------------------------------------
(* The membership of a channel                                              *)

\* getFabricConfig and loadMSPs: all of them, as version 1.4.3.
LoadMSPs(confs) == {IF c.name = "" \/ c.roots = {} THEN None ELSE Setup([c EXCEPT !.version = "1.4.3"]) : c \in confs}

\* createMSPManager: their TLS certificates, other than expired ones, go to
\* the pool of the SDK.
Manager(msps) ==
  IF None \in msps THEN None
  ELSE [msps |-> msps, pool |-> {c \in UNION {m.tls : m \in msps} : c.dates = "valid"}]
CreateMSPManager(confs) == Manager(LoadMSPs(confs))

\* DeserializeIdentity of the manager: the MSP that the identity names.
MSPOf(mgr, name) == {m \in mgr.msps : m.name = name}

\* Validate: the dates of the certificate are looked at first.
Validate(mgr, id) ==
  id.cert.parses /\ id.cert.dates = "valid"
    /\ \E m \in MSPOf(mgr, id.msp) : NewIdentity(m, id.cert) # None /\ ValidateIdentity(m, NewIdentity(m, id.cert))

\* Verify: a signature of the key of the certificate, over a known hash.
Verify(mgr, id, signer) ==
  \E m \in MSPOf(mgr, id.msp) : m.hash \in {"SHA2", "SHA3"} /\ NewIdentity(m, id.cert) # None /\ signer = id.cert.serial

----------------------------------------------------------------------------
(* Properties                                                               *)

Role(msp, r) == [type |-> "role", msp |-> msp.name, role |-> r]
Revoked(msp, c, parent) == \E crl \in msp.crls : crl.signed /\ crl.aki = parent.subject /\ crl.serial = c.serial

SetupReturns(conf) == \A c \in conf.roots : ~SanitizePanics(conf, c)

\* An identity that a channel accepts hangs on a root of the MSP it names by
\* CAs none of which, nor itself, its issuer has revoked; it was not issued
\* by a CA that certifies CAs; and under node OUs it has one role, to which the
\* list of admins of the MSP may add that of an admin.
ChainSound(m, chain) ==
  /\ chain[Len(chain)] \in m.roots
  /\ \A k \in 1 .. Len(chain) - 1 : ~Revoked(m, chain[k], chain[k + 1])
  /\ ~\E i \in m.inters : SignedBy(i, chain[2]) /\ i # chain[2]
RolesOf(m, c) == {r \in Roles : SatisfiesPrincipal(m, c, Role(m, r))}
HoldsSound(mgr, id) ==
  mgr # None /\ Validate(mgr, id) =>
    \E m \in MSPOf(mgr, id.msp), c \in {[id.cert EXCEPT !.lowS = TRUE]} :
      /\ ChainSound(m, GetUniqueValidationChain(m.roots, m.inters, c))
      /\ m.enforcement => Cardinality(RolesOf(m, c) \ (IF IsInAdmins(m, c) THEN {"admin"} ELSE {})) <= 1
AcceptsSound(confs, id) ==
  (\A c \in confs : SetupReturns(c)) => HoldsSound(CreateMSPManager(confs), id)

\* Whoever satisfies a role of an MSP was certified by CAs of the MSP and is a
\* valid member of it; except that an admin whom the MSP lists, where version
\* 1.4.3 enforces node OUs, needs a certificate with the unit of a client or an
\* admin and is never validated: it stays one when revoked.
ListedUnchecked(m, c) == m.version = "1.4.3" /\ m.enforcement /\ IsInAdmins(m, c)
OnlyMembers(m, c) ==
  c # None /\ RolesOf(m, c) # {} =>
    /\ GetCertificationChain(m, c) # NoChain
    /\ IF ListedUnchecked(m, c) THEN HasOURole(m, c, "client") \/ HasOURole(m, c, "admin")
       ELSE SatisfiesPrincipal(m, c, Role(m, "member"))
MembersOnly(m, raw) == m # None => OnlyMembers(m, NewIdentity(m, raw))
RolesAreMembers(conf, c) == SetupReturns(conf) => MembersOnly(Setup(conf), c)
=============================================================================
