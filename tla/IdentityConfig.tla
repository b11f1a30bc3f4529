--------------------------- MODULE IdentityConfig ---------------------------
(***************************************************************************)
(* The configuration of certificate authorities (pkg/msp/identityconfig.go)*)
(* and what is made of it: the CA of a client, its HTTP client, and where  *)
(* the identity manager finds the certificate and the key of a user.       *)
(*                                                                         *)
(* A configuration is [cas, matchers, system, clientTLS, orgs, org].  A CA *)
(* is [url, ssl, shared, certs, registrar, name, tls]: shared says that it *)
(* has gRPC options, which a Go map is and therefore shared by all the     *)
(* CAs that are mapped to it; certs are "none", "pem", "path" or "bad".    *)
(***************************************************************************)
EXTENDS Integers, Sequences, FiniteSets, TLC, SequencesExt

NoCA == [id |-> ""]
Failed == [err |-> TRUE]

----------------------------------------------------------------------------
(* Loading                                                                  *)

\* compileMatchers: patterns are compiled in order; one that is none fails it.
CompileMatchers(cfg) == \A i \in DOMAIN cfg.matchers : cfg.matchers[i].valid

\* "$" stands for a substitution by what the pattern matched: the CA itself.
Substituted(s, id) == IF s = "$" THEN id ELSE s

\* findMatchingCAConfig: the CA that id is mapped to, with its own URL.
FindMatchingCAConfig(cfg, id, m) ==
  LET host == Substituted(m.host, id)
  IN  IF m.ignore \/ host \notin DOMAIN cfg.cas THEN [found |-> FALSE]
      ELSE [found |-> TRUE, host |-> host,
            url |-> IF m.url # "" THEN Substituted(m.url, id) ELSE cfg.cas[host].url, ssl |-> Substituted(m.ssl, id)]

\* tryMatchingCAConfig: the first matcher that matches decides.
TryMatchingCAConfig(cfg, id) ==
  LET matching == SelectSeq(cfg.matchers, LAMBDA m : id \in m.pattern)
  IN  IF matching # << >> THEN FindMatchingCAConfig(cfg, id, matching[1])
      ELSE [found |-> id \in DOMAIN cfg.cas, host |-> id, url |-> cfg.cas[id].url, ssl |-> ""]

\* The SSL override of a CA that is mapped to host.  Options of the host are
\* one map for all: the last that writes it, in the order of a Go map, wins.
Overrides(cfg, id) ==
  LET r == TryMatchingCAConfig(cfg, id)
      writers == {x \in DOMAIN cfg.cas : LET t == TryMatchingCAConfig(cfg, x) IN t.found /\ t.host = r.host /\ t.ssl # ""}
  IN  IF ~cfg.cas[r.host].shared THEN {r.ssl}
      ELSE IF writers = {} THEN {cfg.cas[r.host].ssl}
      ELSE {TryMatchingCAConfig(cfg, x).ssl : x \in writers}

\* getServerCerts: with the system's pool a CA needs none of its own.
GetServerCerts(cfg, ca) ==
  CASE ca.certs = "none" -> << >>
    [] ca.certs = "pem" -> <<"pem">>
    [] ca.certs = "path" -> <<"file1", "file2">>
    [] ca.certs = "bad" -> <<"malformed">>

\* getMSPCAConfig: the address defaults to the name of the CA and port 7054.
GetMSPCAConfig(cfg, id, ssl) ==
  LET r == TryMatchingCAConfig(cfg, id)
      ca == cfg.cas[r.host]
  IN  [id |-> r.host, url |-> IF r.url = "" THEN [default |-> r.host] ELSE [given |-> r.url], ssl |-> ssl,
       registrar |-> ca.registrar, name |-> ca.name, tls |-> ca.tls, serverCerts |-> GetServerCerts(cfg, ca)]

\* loadAllCAConfigs: each configured CA that is not ignored, for every order
\* in which the overrides are written.
LoadAllCAConfigs(cfg) ==
  LET known == {id \in DOMAIN cfg.cas : TryMatchingCAConfig(cfg, id).found}
      hosts == {TryMatchingCAConfig(cfg, id).host : id \in known}
      all == UNION {Overrides(cfg, id) : id \in known}
  IN  {[id \in known |-> GetMSPCAConfig(cfg, id, o[id])] :
         o \in {f \in [known -> all] : \A x, y \in known :
                  /\ f[x] \in Overrides(cfg, x)
                  /\ TryMatchingCAConfig(cfg, x).host = TryMatchingCAConfig(cfg, y).host
                       /\ cfg.cas[TryMatchingCAConfig(cfg, x).host].shared => f[x] = f[y]}}

\* The client's own TLS key and certificate, and those for the CAs: a file
\* that cannot be read fails the load.
LoadClientTLSConfig(cfg) == cfg.clientTLS
LoadCATLSConfig(cfg) == \A id \in DOMAIN cfg.cas : cfg.cas[id].tls # "unreadable"

\* appendCertsFromPEM: PEM data without a certificate is refused.
AppendCertsFromPEM(cert) == cert # "malformed"

\* loadTLSCertPool
LoadTLSCertPool(cfg, cas) ==
  \A id \in DOMAIN cas : /\ cas[id].serverCerts # << >> \/ cfg.system
                         /\ \A i \in DOMAIN cas[id].serverCerts : AppendCertsFromPEM(cas[id].serverCerts[i])

\* loadIdentityConfigEntities: the configurations of the CAs, or Failed.
LoadIdentityConfig(cfg) ==
  IF ~CompileMatchers(cfg) \/ ~LoadClientTLSConfig(cfg) \/ ~LoadCATLSConfig(cfg) THEN {Failed}
  ELSE {IF LoadTLSCertPool(cfg, cas) THEN cas ELSE Failed : cas \in LoadAllCAConfigs(cfg)}

----------------------------------------------------------------------------
(* Clients                                                                  *)

CAConfig(cas, id) == IF id \in DOMAIN cas THEN cas[id] ELSE NoCA

\* verifyOrgCA
VerifyOrgCA(org, id) == id = "" \/ \E i \in DOMAIN org.cas : org.cas[i] = id

\* New: the CA of an MSP client, from the options, else the first of its org.
New(cfg, cas, orgName, caID) ==
  LET name == IF orgName = "" THEN cfg.org ELSE orgName
      org == cfg.orgs[name]
      id == IF caID = "" /\ org.cas # << >> THEN org.cas[1] ELSE caID
  IN  IF name = "" \/ name \notin DOMAIN cfg.orgs THEN Failed
      ELSE IF id # "" /\ CAConfig(cas, id) = NoCA THEN Failed
      ELSE IF ~VerifyOrgCA(org, id) THEN Failed
      ELSE [org |-> name, ca |-> id, name |-> IF id = "" THEN "" ELSE cas[id].name]

\* NewCAClient: made for each call of the MSP client, with its org and CA.
NewCAClient(cfg, cas, orgName, caID) ==
  LET name == IF orgName = "" THEN cfg.org ELSE orgName
      org == cfg.orgs[name]
      id == IF caID = "" THEN org.cas[1] ELSE caID
  IN  IF name = "" \/ name \notin DOMAIN cfg.orgs THEN Failed
      ELSE IF org.cas = << >> THEN Failed
      ELSE IF CAConfig(cas, id) = NoCA THEN Failed
      ELSE [org |-> name, msp |-> org.msp, ca |-> id, name |-> cas[id].name, registrar |-> cas[id].registrar]

\* createFabricCAClient: the HTTP client, with TLS for an https address.
CreateFabricCAClient(cas, id) ==
  IF CAConfig(cas, id) = NoCA THEN Failed
  ELSE [name |-> cas[id].name, url |-> cas[id].url, serverName |-> cas[id].ssl, certs |-> cas[id].serverCerts,
        client |-> cas[id].tls]

\* Init of the CA client, and its HTTP client: a TLS key that does not parse fails it.
InitHTTPClient(c) == IF c = Failed \/ c.client = "malformed" THEN Failed ELSE [server |-> c.url, serverName |-> c.serverName]

----------------------------------------------------------------------------
(* The identity manager: [user, embedded, certStore, keyStore, suite]       *)
(*                                                                          *)
(* user is the certificate of the user store; embedded a pair of a          *)
(* certificate and a key; files says that the org has a crypto path, and    *)
(* certStore and keyStore what is under it; suite the keys of the crypto    *)
(* suite.  0 is none.                                                       *)

\* NewIdentityManager: without a crypto path there are no file stores.
NewIdentityManager(org) ==
  IF ~org.files /\ org.embedded = [cert |-> 0, key |-> 0] THEN Failed ELSE org

\* The file of a private key: priv_sk, if there is one, for whatever
\* certificate; else the one that is named after the key of the certificate.
PrivateKeyFile(m, cert) == IF m.privSK \/ m.keyStore = cert THEN m.keyStore ELSE 0

\* Without a crypto path there is no key store.
GetPrivateKeyFromKeyStore(m, cert) == IF m.files THEN PrivateKeyFile(m, cert) ELSE 0

\* getPrivateKeyFromCert: the key store of the org, then the crypto suite.
GetPrivateKeyFromCert(m, cert) ==
  IF GetPrivateKeyFromKeyStore(m, cert) # 0 THEN GetPrivateKeyFromKeyStore(m, cert)
  ELSE IF cert \in m.suite THEN cert ELSE 0

GetEmbeddedPrivateKey(m) == m.embedded.key

\* NewUser: the key of a stored certificate is one of the crypto suite.
NewUser(m, cert) == IF cert \in m.suite THEN [cert |-> cert, key |-> cert] ELSE Failed

NotFound == [notFound |-> TRUE]

\* getCertBytesFromCertStore
GetCertBytes(m) == IF m.embedded.cert # 0 THEN m.embedded.cert ELSE IF m.files THEN m.certStore ELSE 0

\* GetUser
FindUser(m) ==
  LET cert == GetCertBytes(m)
      key == IF GetEmbeddedPrivateKey(m) # 0 THEN GetEmbeddedPrivateKey(m) ELSE GetPrivateKeyFromCert(m, cert)
  IN  IF m.user # 0 THEN NewUser(m, m.user)
      ELSE IF cert = 0 THEN NotFound
      ELSE IF key = 0 THEN Failed
      ELSE [cert |-> cert, key |-> key]

----------------------------------------------------------------------------
(* Properties                                                               *)

\* The CA that a client ends up with is one of its org, is not one that is
\* to be ignored, answers under the address and with the registrar of the
\* CA it was mapped to, and is trusted by certificates or the system; the
\* CA client of a call is for the same CA as the client it is called on.
CAsTrue(cfg, orgName, caID) ==
  \A cas \in LoadIdentityConfig(cfg) \ {Failed} :
    LET c == New(cfg, cas, orgName, caID)
        http == CreateFabricCAClient(cas, c.ca)
    IN  c # Failed /\ c.ca # "" =>
          /\ \E i \in DOMAIN cfg.orgs[c.org].cas : cfg.orgs[c.org].cas[i] = c.ca
          /\ LET first == SelectSeq(cfg.matchers, LAMBDA m : c.ca \in m.pattern)
             IN  first # << >> => /\ ~first[1].ignore
                                  /\ cas[c.ca].id = Substituted(first[1].host, c.ca)
          /\ cas[c.ca].registrar = cfg.cas[cas[c.ca].id].registrar
          /\ http # Failed /\ (http.certs # << >> \/ cfg.system)
          /\ LET caClient == NewCAClient(cfg, cas, c.org, c.ca)
             IN  caClient # Failed /\ caClient.ca = c.ca /\ caClient.name = c.name

\* A user signs with the key of its certificate, unless a key was embedded
\* without its certificate or stands in a file that names no certificate.
KeysMatch(m) ==
  LET u == FindUser(m)
  IN  NewIdentityManager(m) # Failed =>
      /\ u \notin {Failed, NotFound} =>
           u.cert = u.key \/ (m.user = 0 /\ (m.embedded.key # 0 \/ m.privSK))
      /\ u = NotFound => m.user = 0 /\ m.embedded.cert = 0 /\ (m.files => m.certStore = 0)
=============================================================================
