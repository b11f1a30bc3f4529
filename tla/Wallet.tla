-------------------------------- MODULE Wallet --------------------------------
(***************************************************************************)
(* The wallet of pkg/gateway and its two stores: in memory and in files.   *)
(*                                                                         *)
(* An identity is [name, type, size], its size that of its JSON text.  A   *)
(* file holds [id, size]; where its size is not that of the identity, what *)
(* follows the identity is left from an earlier one.                       *)
(***************************************************************************)
EXTENDS Naturals, SequencesExt

Failed == [ok |-> FALSE]
Ok(id) == [ok |-> TRUE, id |-> id]

toJSON(id) == [id |-> id, size |-> id.size]

\* Text after the value is an error of json.Unmarshal, and only X.509
\* identities are known.
Parsed(content) == IF content.size = content.id.size /\ content.id.type = "X.509" THEN Ok(content.id) ELSE Failed

Without(storage, label) == [l \in DOMAIN storage \ {label} |-> storage[l]]
With(storage, label, content) == [l \in DOMAIN storage \cup {label} |-> IF l = label THEN content ELSE storage[l]]

-----------------------------------------------------------------------------
(* The store in memory                                                     *)

MemoryPut(storage, label, content) == With(storage, label, content)
MemoryGet(storage, label) == IF label \in DOMAIN storage THEN Parsed(storage[label]) ELSE Failed

-----------------------------------------------------------------------------
(* The store in files                                                      *)

\* Put: the file is written over from its beginning and not truncated.
FilePut(files, label, content) ==
  LET old == IF label \in DOMAIN files THEN files[label].size ELSE 0
  IN  With(files, label, [content EXCEPT !.size = IF old > @ THEN old ELSE @])

FileGet(files, label) == IF label \in DOMAIN files THEN Parsed(files[label]) ELSE Failed

-----------------------------------------------------------------------------
(* The wallet                                                              *)

\* Put and Remove, one after the other.  Exists and List tell the labels.
MemoryStep(storage, op) ==
  IF op.kind = "put" THEN MemoryPut(storage, op.label, toJSON(op.id)) ELSE Without(storage, op.label)
FileStep(files, op) ==
  IF op.kind = "put" THEN FilePut(files, op.label, toJSON(op.id)) ELSE Without(files, op.label)

InMemory(ops) == FoldLeft(MemoryStep, << >>, ops)
InFiles(ops) == FoldLeft(FileStep, << >>, ops)

-----------------------------------------------------------------------------
(* Properties                                                              *)

\* The operations on a label since it was removed last.
Since(ops, label) ==
  LET removed == {0} \cup {i \in DOMAIN ops : ops[i] = [kind |-> "remove", label |-> label]}
      last == CHOOSE i \in removed : \A j \in removed : j <= i
  IN  SelectSeq(SubSeq(ops, last + 1, Len(ops)), LAMBDA op : op.label = label)

\* Both stores know the labels that were put and not removed since.  The store in
\* memory gives the identity that was put last.  So does the one in files for an
\* identity that is at least as long as those put before it since the label was
\* removed; after a shorter one, over which Put leaves the end of the longer, it
\* is not promised, as Wallet.Get would have it, but no other identity is given.
WalletTrue(ops, label) ==
  LET since == Since(ops, label)
      known == since # << >>
      put == Last(since).id
      sizes == {since[i].id.size : i \in DOMAIN since}
      memory == InMemory(ops)
      files == InFiles(ops)
  IN  /\ (label \in DOMAIN memory <=> known) /\ (label \in DOMAIN files <=> known)
      /\ MemoryGet(memory, label) = IF known /\ put.type = "X.509" THEN Ok(put) ELSE Failed
      /\ known /\ put.type = "X.509" /\ (\A n \in sizes : n <= put.size) => FileGet(files, label) = Ok(put)
      /\ FileGet(files, label) \in {Failed} \cup (IF known THEN {Ok(put)} ELSE {})
=============================================================================
