------------------------------ MODULE Envelopes ------------------------------
(***************************************************************************)
(* The messages that proposals, transactions and configuration updates     *)
(* travel in: how pkg/fab/txn and the pinned protoutil package build them, *)
(* and how their parts are found again.                                    *)
(*                                                                         *)
(* A message is a record, and its encoding is the message: decoding gives  *)
(* it back.  Bytes that are nil decode to the empty message, Bad bytes do  *)
(* not decode.  A hash is the sequence of what was written to it, and a    *)
(* signature is the pair of its signer and of what was signed, which       *)
(* stands for hashes without collisions and signatures nobody can forge.   *)
(* A result is [ok, value]; one that failed has no value.                  *)
(***************************************************************************)
EXTENDS Integers, Sequences

CONSTANTS
  None,   \* nil
  Bad     \* bytes that do not decode

Failed == [ok |-> FALSE]
Ok(v) == [ok |-> TRUE, value |-> v]

Decoded(bytes, empty) == IF bytes = None THEN empty ELSE bytes

\* The messages with no field set.
NoHeader == [channel |-> None, signature |-> None]
NoChannelHeader == [type |-> "MESSAGE", txid |-> None, channel |-> "", chaincode |-> None, tls |-> None]
NoSignatureHeader == [creator |-> None, nonce |-> None]
NoPayload == [header |-> None, data |-> None]
NoProposalPayload == [input |-> None, transient |-> None]
NoActionPayload == [proposal |-> None, action |-> None]
NoResponsePayload == [hash |-> None, extension |-> None]

-----------------------------------------------------------------------------
(* Headers and transaction IDs                                             *)

ComputeTxID(nonce, creator) == <<nonce, creator>>

CheckTxID(txid, nonce, creator) == txid = ComputeTxID(nonce, creator)

\* The nonce and the creator are the caller's, or else a new nonce and the
\* identity of the context.  computeTxnID hashes both.
NewHeader(ctx, channelID, opts, fresh) ==
  LET nonce == IF opts.nonce = None THEN fresh ELSE opts.nonce
      creator == IF opts.creator = None THEN ctx ELSE opts.creator
  IN  [id |-> ComputeTxID(nonce, creator), creator |-> creator, nonce |-> nonce, channelID |-> channelID]

CreateChannelHeader(type, txh, chaincodeID, tls) ==
  [type |-> type, txid |-> txh.id, channel |-> txh.channelID, tls |-> tls,
   chaincode |-> IF chaincodeID = "" THEN None ELSE chaincodeID]

CreateSignatureHeader(txh) == [creator |-> txh.creator, nonce |-> txh.nonce]

CreatePayload(txh, channelHeader, data) ==
  [header |-> [channel |-> channelHeader, signature |-> CreateSignatureHeader(txh)], data |-> data]

SignPayload(ctx, payload) == [payload |-> payload, signature |-> <<ctx, payload>>]

MakeChannelHeader(type, channelID) == [NoChannelHeader EXCEPT !.type = type, !.channel = channelID]

NewSignatureHeader(signer, fresh) == [creator |-> signer, nonce |-> fresh]

\* An envelope for the orderer.  It has no transaction ID; without a signer it
\* has no creator and no signature either.
CreateSignedEnvelopeWithTLSBinding(type, channelID, signer, msg, tls, fresh) ==
  LET shdr == IF signer = None THEN NoSignatureHeader ELSE NewSignatureHeader(signer, fresh)
      payload == [header |-> [channel |-> [MakeChannelHeader(type, channelID) EXCEPT !.tls = tls], signature |-> shdr], data |-> msg]
  IN  [payload |-> payload, signature |-> IF signer = None THEN None ELSE <<signer, payload>>]

-----------------------------------------------------------------------------
(* Proposals                                                               *)

CreateChaincodeProposalWithTxIDNonceAndTransient(txid, channelID, cis, nonce, creator, transient) ==
  [header |-> [channel |-> [type |-> "ENDORSER_TRANSACTION", txid |-> txid, channel |-> channelID, chaincode |-> cis.chaincode, tls |-> None],
               signature |-> [creator |-> creator, nonce |-> nonce]],
   payload |-> [input |-> cis, transient |-> transient]]

\* Proposals of the pinned code make their own nonce, and an ID of it if they
\* are given none.
CreateChaincodeProposalWithTxIDAndTransient(channelID, cis, creator, txid, transient, fresh) ==
  CreateChaincodeProposalWithTxIDNonceAndTransient(
    IF txid = None THEN ComputeTxID(fresh, creator) ELSE txid, channelID, cis, fresh, creator, transient)

\* Proposals for the lifecycle system chaincode: its function, the channel of a
\* deploy or an upgrade, the package, and what such a proposal adds.
CreateProposalFromCDS(channelID, cds, creator, type, added, fresh) ==
  LET args == IF type = "install" THEN <<type, cds>> ELSE <<type, channelID, cds>> \o added
  IN  IF type # "install" /\ cds = None THEN Failed
      ELSE Ok(CreateChaincodeProposalWithTxIDAndTransient(channelID, [chaincode |-> "lscc", args |-> args], creator, None, None, fresh))

CreateChaincodeInvokeProposal(txh, request) ==
  IF request.chaincode = "" \/ request.fcn = "" THEN Failed
  ELSE Ok(CreateChaincodeProposalWithTxIDNonceAndTransient(
            txh.id, txh.channelID, [chaincode |-> request.chaincode, args |-> <<request.fcn>> \o request.args],
            txh.nonce, txh.creator, request.transient))

\* signProposal, GetSignedProposal.
SignProposal(ctx, proposal) == [bytes |-> proposal, signature |-> <<ctx, proposal>>]

InvokedChaincodeName(proposal) ==
  IF proposal = Bad THEN Failed
  ELSE IF proposal.payload = Bad THEN Failed
  ELSE LET cis == Decoded(proposal.payload, NoProposalPayload).input
       IN  IF cis \in {None, Bad} THEN Failed ELSE IF cis.chaincode = None THEN Failed ELSE Ok(cis.chaincode)

\* Slip: the transient data stay.
GetBytesProposalPayloadForTx_Transient(payload) == payload

\* What of a proposal's payload goes into the transaction.
GetBytesProposalPayloadForTx(payload) == [payload EXCEPT !.transient = None]

\* The hash the endorsers sign, of the proposal as they got it,
GetProposalHash1(header, payload) ==
  IF header.channel = None \/ header.signature = None \/ payload \in {None, Bad} THEN Failed
  ELSE Ok(<<header.channel, header.signature, GetBytesProposalPayloadForTx(payload)>>)

\* and the hash the committers compute, of the payload in the transaction.
GetProposalHash2(header, payload) ==
  IF header.channel = None \/ header.signature = None \/ payload = None THEN Failed
  ELSE Ok(<<header.channel, header.signature, payload>>)

GetBytesProposalResponsePayload(hash, response, results, ccid) ==
  [hash |-> hash, extension |-> [results |-> results, response |-> response, chaincode |-> ccid]]

\* An endorser's answer to a proposal, and its answer when the chaincode failed.
CreateProposalResponse(proposal, response, results, ccid, endorser) ==
  LET hash == GetProposalHash1(proposal.header, proposal.payload)
      payload == GetBytesProposalResponsePayload(hash.value, response, results, ccid)
  IN  IF ~hash.ok THEN Failed
      ELSE Ok([payload |-> payload, status |-> 200, endorsement |-> [endorser |-> endorser, signature |-> <<endorser, payload, endorser>>]])

CreateProposalResponseFailure(proposal, response, results, ccid) ==
  LET hash == GetProposalHash1(proposal.header, proposal.payload)
  IN  IF ~hash.ok THEN Failed
      ELSE Ok([payload |-> GetBytesProposalResponsePayload(hash.value, response, results, ccid), status |-> response, endorsement |-> None])

-----------------------------------------------------------------------------
(* Transactions                                                            *)

\* validateProposalResponses
Successful(responses) == \A i \in DOMAIN responses : responses[i].status \in 200 .. 399

EndorsedAction(proposal, responses) ==
  [header |-> proposal.header.signature,
   payload |-> [proposal |-> GetBytesProposalPayloadForTx(Decoded(proposal.payload, NoProposalPayload)),
                action |-> [payload |-> responses[1].payload,
                            endorsements |-> [i \in DOMAIN responses |-> responses[i].endorsement]]]]

\* The transaction of the SDK.  That the responses agree was checked before.
New(proposal, responses) ==
  IF Len(responses) = 0 THEN Failed
  ELSE IF proposal.header = Bad \/ proposal.payload = Bad \/ ~Successful(responses) THEN Failed
  ELSE Ok([transaction |-> <<EndorsedAction(proposal, responses)>>, proposal |-> proposal])

\* Send, as far as the envelope that is broadcast.
SendEnvelopeOf(ctx, tx) == SignPayload(ctx, [header |-> tx.proposal.header, data |-> tx.transaction])

\* The transaction of the pinned code: here the responses have to agree, and
\* the signer has to be the creator.
CreateSignedTx(proposal, signer, responses) ==
  IF Len(responses) = 0 THEN Failed
  ELSE IF proposal.header = Bad \/ proposal.payload = Bad THEN Failed
  ELSE IF signer # Decoded(proposal.header.signature, NoSignatureHeader).creator THEN Failed
  ELSE IF ~Successful(responses) \/ \E i \in DOMAIN responses : responses[i].payload # responses[1].payload THEN Failed
  ELSE Ok(SignPayload(signer, [header |-> proposal.header, data |-> <<EndorsedAction(proposal, responses)>>]))

-----------------------------------------------------------------------------
(* Finding the parts again                                                 *)

\* Steps that several of the readers share: the payload, and its channel header.
PayloadOf(env) ==
  IF env = Bad THEN Failed ELSE IF env.payload = Bad THEN Failed ELSE Ok(Decoded(env.payload, NoPayload))

\* The channel header; one that is nil is an empty one.
HeaderOf(env) ==
  LET payload == PayloadOf(env)
  IN  IF ~payload.ok THEN Failed
      ELSE IF payload.value.header = None THEN Failed
      ELSE IF payload.value.header.channel = Bad THEN Failed
      ELSE Ok(Decoded(payload.value.header.channel, NoChannelHeader))

\* The same for a caller that needs it to be there.
ChannelHeader(env) ==
  IF ~HeaderOf(env).ok THEN Failed ELSE IF env.payload.header.channel = None THEN Failed ELSE HeaderOf(env)

ChannelID(env) == IF ChannelHeader(env).ok THEN Ok(ChannelHeader(env).value.channel) ELSE Failed

UnmarshalEnvelopeOfType(env, type) ==
  LET chdr == HeaderOf(env)
  IN  IF ~chdr.ok THEN Failed
      ELSE IF chdr.value.type # type \/ env.payload.data = Bad THEN Failed ELSE Ok(env.payload.data)

EnvelopeToConfigUpdate(env) == UnmarshalEnvelopeOfType(env, "CONFIG_UPDATE")

\* The update in an envelope that a tool made, whatever its type.
ExtractChannelConfig(env) ==
  LET payload == PayloadOf(env)
  IN  IF ~payload.ok THEN Failed ELSE IF payload.value.data = Bad THEN Failed ELSE Ok(payload.value.data.update)

\* CreateConfigEnvelope and CreateConfigUpdateEnvelope both ask for a CONFIG.
CreateConfigEnvelope(env) == UnmarshalEnvelopeOfType(env, "CONFIG")

GetOrComputeTxIDFromEnvelope(env) ==
  LET chdr == HeaderOf(env)
      shdr == env.payload.header.signature
  IN  IF ~chdr.ok THEN Failed
      ELSE IF chdr.value.txid # None THEN Ok(chdr.value.txid)
      ELSE IF shdr = Bad THEN Failed
      ELSE Ok(ComputeTxID(Decoded(shdr, NoSignatureHeader).nonce, Decoded(shdr, NoSignatureHeader).creator))

\* Who says so, and what has to be verified for it.
EnvelopeAsSignedData(env) ==
  LET payload == PayloadOf(env)
  IN  IF env = None THEN Failed
      ELSE IF ~payload.ok THEN Failed
      ELSE IF payload.value.header = None THEN Failed
      ELSE IF payload.value.header.signature = Bad THEN Failed
      ELSE Ok([data |-> env.payload, identity |-> Decoded(payload.value.header.signature, NoSignatureHeader).creator, signature |-> env.signature])

\* What an organization signs of a configuration update is its own header and
\* the update.
ConfigUpdateEnvelopeAsSignedData(ce) ==
  IF ce = None THEN Failed
  ELSE IF \E i \in DOMAIN ce.signatures : ce.signatures[i].header = Bad THEN Failed
  ELSE Ok([i \in DOMAIN ce.signatures |-> [data |-> <<ce.signatures[i].header, ce.update>>,
                                           identity |-> Decoded(ce.signatures[i].header, NoSignatureHeader).creator,
                                           signature |-> ce.signatures[i].signature]])

GetPayloads(action) ==
  IF action.payload = Bad THEN Failed
  ELSE LET cc == Decoded(action.payload, NoActionPayload)
       IN  IF cc.action = None THEN Failed
           ELSE IF cc.action.payload \in {None, Bad} THEN Failed
           ELSE IF cc.action.payload.extension \in {None, Bad} THEN Failed
           ELSE Ok([payload |-> cc, action |-> cc.action.payload.extension])

\* GetActionFromEnvelope
GetActionFromEnvelopeMsg(env) ==
  LET payload == PayloadOf(env)
  IN  IF ~payload.ok THEN Failed
      ELSE IF payload.value.data \in {None, Bad} THEN Failed
      ELSE IF Len(payload.value.data) = 0 THEN Failed
      ELSE IF GetPayloads(payload.value.data[1]).ok THEN Ok(GetPayloads(payload.value.data[1]).value.action) ELSE Failed

-----------------------------------------------------------------------------
(* Blocks                                                                  *)

MetadataIndices == {"SIGNATURES", "LAST_CONFIG", "TRANSACTIONS_FILTER", "ORDERER", "COMMIT_HASH"}

\* Metadata are kept by the number of their index.
Index(name) ==
  CASE name = "SIGNATURES" -> 1 [] name = "LAST_CONFIG" -> 2 [] name = "TRANSACTIONS_FILTER" -> 3 [] name = "ORDERER" -> 4 [] OTHER -> 5

NewBlock(number, previous) ==
  [number |-> number, previous |-> previous, dataHash |-> None, data |-> << >>, metadata |-> [i \in 1 .. 5 |-> None]]

BlockHeaderHash(block) == <<block.number, block.previous, block.dataHash>>

\* Of all the transactions, one after the other.
BlockDataHash(data) == data

\* A block without metadata gets all of them, empty, and one of an older format
\* those that it lacks.
InitBlockMetadata(block) ==
  IF block.metadata = None THEN [block EXCEPT !.metadata = [i \in 1 .. 5 |-> None]]
  ELSE [block EXCEPT !.metadata = @ \o [i \in 1 .. (5 - Len(@)) |-> None]]

CopyBlockMetadata(src, dst) == InitBlockMetadata([dst EXCEPT !.metadata = src.metadata])

\* factory.Block: the configuration of a channel, signed by nobody.
GenesisBlock(channelID, group, fresh) ==
  LET shdr == [creator |-> None, nonce |-> fresh]
      payload == [header |-> [channel |-> [MakeChannelHeader("CONFIG", channelID) EXCEPT !.txid = ComputeTxID(fresh, None)], signature |-> shdr],
                  data |-> [config |-> group]]
      data == <<[payload |-> payload, signature |-> None]>>
      first == [lastConfig |-> 0, consenter |-> None]
  IN  [NewBlock(0, None) EXCEPT !.data = data, !.dataHash = BlockDataHash(data), !.metadata[1] = first, !.metadata[2] = first]

ExtractEnvelope(block, index) ==
  IF block.data = None THEN Failed
  ELSE IF index + 1 \notin DOMAIN block.data THEN Failed
  ELSE IF block.data[index + 1] = Bad THEN Failed ELSE Ok(block.data[index + 1])

IsConfigBlock(block) ==
  LET env == ExtractEnvelope(block, 0)
  IN  IF ~env.ok THEN FALSE
      ELSE IF ~HeaderOf(env.value).ok THEN FALSE
      ELSE HeaderOf(env.value).value.type \in {"CONFIG", "ORDERER_TRANSACTION"}

GetChannelIDFromBlock(block) ==
  IF block = None THEN Failed
  ELSE LET env == ExtractEnvelope(block, 0)
       IN  IF ~env.ok THEN Failed ELSE IF HeaderOf(env.value).ok THEN Ok(HeaderOf(env.value).value.channel) ELSE Failed

GetMetadataFromBlock(block, name) ==
  IF block.metadata = None THEN Failed
  ELSE IF Len(block.metadata) < Index(name) THEN Failed
  ELSE IF block.metadata[Index(name)] = Bad THEN Failed ELSE Ok(block.metadata[Index(name)])

\* Orderers keep what they have to say with the signatures, older ones under
\* an index of its own.
GetLastConfigIndexFromBlock(block) ==
  LET md == GetMetadataFromBlock(block, "SIGNATURES")
      last == GetMetadataFromBlock(block, "LAST_CONFIG")
  IN  IF ~md.ok THEN Failed
      ELSE IF md.value # None THEN Ok(md.value.lastConfig)
      ELSE IF ~last.ok THEN Failed ELSE IF last.value = None THEN Ok(0) ELSE Ok(last.value.lastConfig)

GetConsenterMetadataFromBlock(block) ==
  LET md == GetMetadataFromBlock(block, "SIGNATURES")
  IN  IF ~md.ok THEN Failed
      ELSE IF md.value # None THEN Ok(md.value.consenter)
      ELSE LET old == GetMetadataFromBlock(block, "ORDERER")
           IN  IF ~old.ok THEN Failed ELSE IF old.value = None THEN Ok(None) ELSE Ok(old.value.consenter)

-----------------------------------------------------------------------------
(* Asking orderers for a block                                             *)

\* The last block of the stream, and whether the stream told of an error: those
\* that came before the end and those that waited after it.
SendEnvelope(stream) ==
  [block |-> IF stream.blocks = << >> THEN None ELSE stream.blocks[Len(stream.blocks)], err |-> stream.errs > 0]

\* The orderers are asked in a random order until one makes no error.
SendPayload(order, streams) ==
  LET good == {i \in DOMAIN order : ~SendEnvelope(streams[order[i]]).err}
  IN  IF good = {} THEN Failed
      ELSE Ok(SendEnvelope(streams[order[CHOOSE i \in good : \A j \in good : i <= j]]).block)

-----------------------------------------------------------------------------
(* Properties                                                              *)

\* A committer accepts the envelope: one with the ID of its nonce and creator,
\* signed by its creator, whose action was endorsed, by everyone, for the
\* proposal the transaction carries, and without a trace of the transient data.
Committable(env) ==
  LET payload == env.payload
      action == payload.data[1]
      shdr == payload.header.signature
      signed == EnvelopeAsSignedData(env).value
  IN  /\ CheckTxID(GetOrComputeTxIDFromEnvelope(env).value, shdr.nonce, shdr.creator)
      /\ signed.signature = <<signed.identity, signed.data>>
      /\ action.header = shdr
      /\ action.payload.proposal.transient = None
      /\ Ok(action.payload.action.payload.hash) = GetProposalHash2(payload.header, action.payload.proposal)
      /\ \A i \in DOMAIN action.payload.action.endorsements :
           LET e == action.payload.action.endorsements[i]
           IN  e # None /\ e.signature = <<e.endorser, action.payload.action.payload, e.endorser>>

\* How endorsers answer: they endorse a result, each its own, unless the
\* chaincode's status is an error; some may have been asked something else.
Responses(proposal, other, answers) ==
  [i \in DOMAIN answers |->
     LET asked == IF answers[i].astray THEN other ELSE proposal
     IN  IF answers[i].status < 400
         THEN CreateProposalResponse(asked, answers[i].status, answers[i].results, "cc", <<"endorser", i>>).value
         ELSE CreateProposalResponseFailure(asked, answers[i].status, answers[i].results, "cc").value]

\* What becomes of a request.  Responses that fail make no transaction.  With
\* the creator's own context and responses to its proposal that agree, the
\* transaction of either builder is the same, a committer accepts it, and it
\* reads back the action that was endorsed; the pinned builder makes no other.
TransactionTrue(ctx, opts, request, answers) ==
  LET txh == NewHeader(ctx, "ch", opts, "n1")
      created == CreateChaincodeInvokeProposal(txh, request)
      proposal == created.value
      other == CreateChaincodeInvokeProposal(NewHeader(ctx, "ch2", opts, "n2"), request).value
      responses == Responses(proposal, other, answers)
      env == SendEnvelopeOf(ctx, New(proposal, responses).value)
      signed == CreateSignedTx(proposal, ctx, responses)
      failed == \E i \in DOMAIN answers : answers[i].status >= 400
      agreed == \A i, j \in DOMAIN responses : responses[i].payload = responses[j].payload
      astray == \E i \in DOMAIN answers : answers[i].astray
  IN  IF ~created.ok THEN request.chaincode = "" \/ request.fcn = ""
      ELSE /\ InvokedChaincodeName(SignProposal(ctx, proposal).bytes) = Ok(request.chaincode)
           /\ New(proposal, responses).ok = (answers # << >> /\ ~failed)
           /\ signed.ok => New(proposal, responses).ok /\ signed.value = env
           /\ signed.ok /\ ~astray => Committable(signed.value)
           /\ New(proposal, responses).ok =>
                /\ (Committable(env) = (agreed /\ ~astray /\ txh.creator = ctx))
                /\ GetActionFromEnvelopeMsg(env) = Ok(responses[1].payload.extension)
                /\ ChannelID(env) = Ok("ch") /\ ~EnvelopeToConfigUpdate(env).ok

\* An envelope is found to be what it was made as, for the channel and by the
\* signer it was made for, and nothing else; so is what is not well-formed.
EnvelopeTrue(type, channel, signer, msg, damage) ==
  LET made == CreateSignedEnvelopeWithTLSBinding(type, channel, signer, msg, None, "n1")
      env == CASE damage = "none" -> made
               [] damage = "payload" -> [made EXCEPT !.payload = Bad]
               [] damage = "header" -> [made EXCEPT !.payload.header = None]
               [] damage = "channel" -> [made EXCEPT !.payload.header.channel = Bad]
               [] damage = "nochannel" -> [made EXCEPT !.payload.header.channel = None]
               [] damage = "signature" -> [made EXCEPT !.payload.header.signature = Bad]
               [] OTHER -> [made EXCEPT !.payload.data = Bad]
      block == [NewBlock(3, None) EXCEPT !.data = <<env>>]
      whole == damage \in {"none", "signature", "data"}
  IN  /\ EnvelopeToConfigUpdate(env).ok = (type = "CONFIG_UPDATE" /\ damage \in {"none", "signature"})
      /\ CreateConfigEnvelope(env).ok = (type = "CONFIG" /\ damage \in {"none", "signature"})
      /\ EnvelopeToConfigUpdate(env).ok => EnvelopeToConfigUpdate(env).value = msg /\ ExtractChannelConfig(env) = Ok(msg.update)
      /\ GetChannelIDFromBlock(block) = CASE whole -> Ok(channel) [] damage = "nochannel" -> Ok("") [] OTHER -> Failed
      /\ ChannelID(env) = IF whole THEN Ok(channel) ELSE Failed
      /\ IsConfigBlock(block) = (whole /\ type \in {"CONFIG", "ORDERER_TRANSACTION"})
      /\ GetOrComputeTxIDFromEnvelope(env) = IF damage \in {"none", "data", "nochannel"}
                                             THEN Ok(ComputeTxID(IF signer = None THEN None ELSE "n1", signer)) ELSE Failed
      /\ EnvelopeAsSignedData(env).ok => EnvelopeAsSignedData(env).value.identity = signer
      /\ damage = "none" /\ signer # None =>
           LET s == EnvelopeAsSignedData(env).value IN s.signature = <<s.identity, s.data>>
      /\ ConfigUpdateEnvelopeAsSignedData(msg).ok =>
           \A i \in DOMAIN msg.signatures :
             LET s == ConfigUpdateEnvelopeAsSignedData(msg).value[i]
             IN  s.signature = <<s.identity, s.data>> <=> msg.signatures[i].signature[1] = msg.signatures[i].header.creator

\* The number of the last configuration block is the one the orderer wrote,
\* in either format, also after the metadata were copied to another block;
\* without it there is an error or, with empty metadata, the first block.
MetadataTrue(block, last, consenter) ==
  LET copied == CopyBlockMetadata(block, NewBlock(9, BlockHeaderHash(block)))
      read == GetLastConfigIndexFromBlock(block)
  IN  /\ IF last # None THEN read = Ok(last) ELSE ~read.ok \/ read = Ok(0)
      /\ LET told == GetConsenterMetadataFromBlock(block) IN IF consenter # None THEN told = Ok(consenter) ELSE ~told.ok \/ told = Ok(None)
      /\ read.ok => GetLastConfigIndexFromBlock(copied) = read
      /\ \A name \in MetadataIndices : GetMetadataFromBlock(copied, name).ok \/ block.metadata[Index(name)] = Bad
      /\ copied.previous = BlockHeaderHash(block)

\* A genesis block is the configuration block of its channel, its own last
\* one, and carries the configuration and the hash of it; two differ.
GenesisTrue(channel, group) ==
  LET block == GenesisBlock(channel, group, "n1")
      env == ExtractEnvelope(block, 0).value
  IN  /\ IsConfigBlock(block) /\ GetChannelIDFromBlock(block) = Ok(channel) /\ CreateConfigEnvelope(env) = Ok([config |-> group])
      /\ GetLastConfigIndexFromBlock(block) = Ok(block.number) /\ GetMetadataFromBlock(block, "LAST_CONFIG").value.lastConfig = block.number
      /\ block.dataHash = BlockDataHash(block.data) /\ EnvelopeAsSignedData(env).value.identity = None
      /\ BlockHeaderHash(block) # BlockHeaderHash(GenesisBlock(channel, group, "n2"))
      /\ BlockHeaderHash(block) # BlockHeaderHash(GenesisBlock(channel, "other", "n1"))

\* A proposal to the lifecycle chaincode is for it, has the ID of its nonce
\* and creator, and tells the package, and the channel if it concerns one.
LifecycleTrue(channel, cds, type, added) ==
  LET made == CreateProposalFromCDS(channel, cds, "me", type, added, "n1")
  IN  /\ made.ok = (type = "install" \/ cds # None)
      /\ made.ok => /\ InvokedChaincodeName(made.value) = Ok("lscc")
                    /\ CheckTxID(made.value.header.channel.txid, made.value.header.signature.nonce, "me")
                    /\ made.value.header.channel.channel = channel /\ made.value.payload.transient = None
                    /\ made.value.payload.input.args = (IF type = "install" THEN <<"install">> ELSE <<type, channel>>) \o <<cds>> \o
                                                       (IF type = "install" THEN << >> ELSE added)

\* A block comes from an orderer whose stream told of no error, and there is
\* an error if every orderer made one.
PayloadSent(order, streams) ==
  LET good == {o \in {order[i] : i \in DOMAIN order} : streams[o].errs = 0}
      sent == SendPayload(order, streams)
  IN  /\ sent.ok = (good # {})
      /\ sent.ok => \E o \in good : IF streams[o].blocks = << >> THEN sent.value = None
                                    ELSE sent.value = streams[o].blocks[Len(streams[o].blocks)]
=============================================================================
