------------------------------- MODULE KeyStore -------------------------------
(***************************************************************************)
(* The keys of the software crypto suite: the directory that the pinned    *)
(* bccsp/sw package keeps them in (fileks.go), their encoding (keys.go),   *)
(* and the operations that make keys (impl.go).                            *)
(*                                                                         *)
(* A key is [type, ski]: a private key "sk" and its public key "pk" share  *)
(* their SKI, "key" is an AES key.  A file is named [alias, suffix] and    *)
(* holds a PEM block [form, pwd, key] or Bad.  A password is known by its  *)
(* length, 0 for none: that is what Init keeps of it.                      *)
(***************************************************************************)
EXTENDS Naturals, FiniteSets, SequencesExt

CONSTANT Bad   \* bytes that are no PEM

Failed == [ok |-> FALSE]
Ok(k) == [ok |-> TRUE, key |-> k]

-----------------------------------------------------------------------------
(* Encoding                                                                *)

privateKeyToPEM(k, pwd) == [form |-> IF pwd = 0 THEN "pkcs8" ELSE "sec1", pwd |-> pwd, key |-> k]
publicKeyToPEM(k, pwd) == [form |-> "pkix", pwd |-> pwd, key |-> k]
aesToEncryptedPEM(k, pwd) == [form |-> "aes", pwd |-> pwd, key |-> k]

\* The block decodes, and the password opens it.
Opens(block, pwd) == block # Bad /\ (block.pwd = 0 \/ block.pwd = pwd)

\* PKCS#1, PKCS#8 and SEC 1 are tried; only the first may hold an RSA key.
derToPrivateKey(block) == IF block.form \in {"pkcs1", "pkcs8", "sec1"} THEN Ok(block.key) ELSE Failed

pemToPrivateKey(block, pwd) == IF Opens(block, pwd) THEN derToPrivateKey(block) ELSE Failed
pemToPublicKey(block, pwd) == IF Opens(block, pwd) /\ block.form = "pkix" THEN Ok(block.key) ELSE Failed
pemToAES(block, pwd) == IF Opens(block, pwd) THEN Ok([type |-> "key", ski |-> block.key.ski]) ELSE Failed

-----------------------------------------------------------------------------
(* The directory                                                           *)

Name(alias, suffix) == [alias |-> alias, suffix |-> suffix]

\* ioutil.ReadDir sorts: "<alias>.bak" < "<alias>_key" < "<alias>_pk" < "<alias>_sk".
SuffixOrder == <<"bak", "key", "pk", "sk">>
Rank(suffix) == CHOOSE i \in DOMAIN SuffixOrder : SuffixOrder[i] = suffix

\* StoreKey: under the SKI, and over what is there.
StoreKey(dir, pwd, readOnly, k) ==
  IF readOnly THEN [ok |-> FALSE, dir |-> dir]
  ELSE [ok |-> TRUE,
        dir |-> LET block == CASE k.type = "sk" -> privateKeyToPEM(k, pwd)
                               [] k.type = "pk" -> publicKeyToPEM(k, pwd)
                               [] OTHER -> aesToEncryptedPEM(k, pwd)
                IN  [n \in DOMAIN dir \cup {Name(k.ski, k.type)} |-> IF n = Name(k.ski, k.type) THEN block ELSE dir[n]]]

\* getSuffix: the first file whose name begins with the alias decides.
getSuffix(dir, alias) ==
  LET mine == {n.suffix : n \in {m \in DOMAIN dir : m.alias = alias}}
  IN  IF mine = {} THEN "" ELSE CHOOSE s \in mine : \A r \in mine : Rank(s) <= Rank(r)

\* Slip: the first private key is taken.
searchKeystoreForSKI_Any(dir, pwd, ski) ==
  LET found == {k \in {pemToPrivateKey(dir[n], pwd) : n \in DOMAIN dir} : k.ok}
  IN  IF found = {} THEN Failed ELSE CHOOSE k \in found : TRUE

\* searchKeystoreForSKI: the private key with the SKI, in whatever file.
searchKeystoreForSKI(dir, pwd, ski) ==
  LET found == {k \in {pemToPrivateKey(dir[n], pwd) : n \in DOMAIN dir} : k.ok /\ k.key = [type |-> "sk", ski |-> ski]}
  IN  IF found = {} THEN Failed ELSE CHOOSE k \in found : TRUE

\* loadPrivateKey, loadPublicKey and loadKey, and the type that is expected.
Load(dir, pwd, ski, suffix) ==
  LET block == dir[Name(ski, suffix)]
      loaded == CASE suffix = "sk" -> pemToPrivateKey(block, pwd)
                  [] suffix = "pk" -> pemToPublicKey(block, pwd)
                  [] OTHER -> pemToAES(block, pwd)
  IN  IF loaded.ok /\ loaded.key.type = suffix THEN loaded ELSE Failed

GetKey(dir, pwd, ski) ==
  LET suffix == getSuffix(dir, ski)
  IN  IF suffix \in {"key", "sk", "pk"} THEN Load(dir, pwd, ski, suffix) ELSE searchKeystoreForSKI(dir, pwd, ski)

-----------------------------------------------------------------------------
(* The crypto suite                                                        *)

\* KeyGen, KeyDeriv and KeyImport: a key that is not ephemeral is stored, or
\* there is no key.
MakeKey(store, k, ephemeral) ==
  LET stored == StoreKey(store.dir, store.pwd, store.readOnly, k)
  IN  IF ephemeral THEN [ok |-> TRUE, store |-> store]
      ELSE [ok |-> stored.ok, store |-> [store EXCEPT !.dir = stored.dir]]

MakeKeys(store, makes) == FoldLeft(LAMBDA s, x : MakeKey(s, x.key, x.ephemeral).store, store, makes)

-----------------------------------------------------------------------------
(* Properties                                                              *)

\* After any keys were made in a directory with files of others: the key that
\* is got for an SKI has that SKI and was made or put there; a key that was
\* made to last is got back, a private key unless its public key was stored
\* too, which comes first; and a file that only looks like a key of the SKI
\* hides nothing but public and AES keys.
KeysFound(store, makes, ski) ==
  LET after == MakeKeys(store, makes)
      got == GetKey(after.dir, after.pwd, ski)
      lasting == IF store.readOnly THEN {} ELSE {makes[i].key : i \in {j \in DOMAIN makes : ~makes[j].ephemeral}}
      foreign == {store.dir[n].key : n \in {m \in DOMAIN store.dir : store.dir[m] # Bad}}
      decoy == Name(ski, "bak") \in DOMAIN store.dir
      private == [type |-> "sk", ski |-> ski]
  IN  /\ got.ok => got.key.ski = ski /\ got.key \in lasting \cup foreign
      /\ \A k \in lasting : k.ski = ski /\ (~decoy \/ k = private) => got.ok
      /\ private \in lasting /\ (decoy \/ [type |-> "pk", ski |-> ski] \notin lasting) => got.key = private
=============================================================================
