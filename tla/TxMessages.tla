------------------------------ MODULE TxMessages ------------------------------
(***************************************************************************)
(* A raw transaction as a protobuf object (rawTxToProtobuf in              *)
(* proto/index.ts, rawTxFromProtobuf in proto/rawTx.ts, proto/decode.ts)   *)
(* and as the message the node gets (grpc/rawTx.ts).                       *)
(*                                                                         *)
(* A transaction is of version 1.  What may be null is a sequence of none  *)
(* or one; of a timelock range, min and max.                               *)
(***************************************************************************)
EXTENDS ProtoValues, ProtoWire

Types == INSTANCE ProtoCommon2

Rose == "rose"
Peer == "peer"
Older == "older peer"

(* hash/index.ts lockRootHash: a lock root is a lock or its digest.        *)
IsLock(root) == "lock" \in DOMAIN root
LockRootHash(root) == IF IsLock(root) THEN Text([i \in 1..5 |-> root.lock]) ELSE root

Mapped(values, Op(_)) == [i \in DOMAIN values |-> Op(values[i])]

-----------------------------------------------------------------------------
(* proto/index.ts rawTxToProtobuf.  A peer writes digests as belts, boxes  *)
(* every number, and has output sources and spends of version 0; an older  *)
(* one does not know the version of a proof.                               *)

DigestBy(by, digest) == IF by = Rose THEN digest ELSE DigestToProtobuf(digest)

NumberBy(by, n) == IF by = Rose THEN [itself |-> n] ELSE [value |-> n]

RangeBy(by, range) ==
  [min |-> Mapped(range.min, LAMBDA n : NumberBy(by, n)),
   max |-> Mapped(range.max, LAMBDA n : NumberBy(by, n))]

LockPrimitiveToPb(by, prim) ==
  CASE prim.tag = "pkh" ->
         [case |-> "Pkh", m |-> prim.m,
          hashes |-> Mapped(prim.hashes, LAMBDA d : DigestBy(by, d))]
    [] prim.tag = "tim" ->
         [case |-> "Tim", rel |-> RangeBy(by, prim.rel), abs |-> RangeBy(by, prim.abs)]
    [] prim.tag = "hax" ->
         [case |-> "Hax", hashes |-> Mapped(prim.preimages, LAMBDA d : DigestBy(by, d))]
    [] prim.tag = "brn" -> [case |-> "Burn"]

LockMerkleProofToPb(by, lmp) ==
  [spend_condition |-> Mapped(lmp.spend_condition, LAMBDA p : LockPrimitiveToPb(by, p)),
   axis |-> lmp.axis, root |-> DigestBy(by, lmp.root),
   path |-> Mapped(lmp.path, LAMBDA d : DigestBy(by, d)),
   lmp_version |-> IF lmp.full /\ by # Older THEN <<"full">> ELSE << >>]

PkhSignatureToPb(by, entry) ==
  [hash |-> DigestBy(by, entry.hash), pubkey |-> SchnorrPubkey(entry.pubkey),
   signature |-> SchnorrSignature(entry.signature)]

HaxMapToPb(by, entry) ==
  [hash |-> DigestBy(by, entry.hash), value |-> Jam(entry.noun)]

(* The reader looks for the source of an output one level further down.    *)
SeedToPb(by, seed) ==
  [output_source |->
     IF by = Rose THEN Mapped(seed.output_source, LAMBDA s : [itself |-> s])
     ELSE Mapped(seed.output_source, LAMBDA s : [source |-> s]),
   lock_root |-> DigestBy(by, LockRootHash(seed.lock_root)),
   note_data |-> NoteDataMessage(seed.note_data),
   gift |-> [value |-> seed.gift],
   parent_hash |-> DigestBy(by, seed.parent_hash)]

WitnessSpendToPb(by, spend) ==
  LET witness == spend.witness
  IN  [case |-> "Witness",
       lock_merkle_proof |-> LockMerkleProofToPb(by, witness.lock_merkle_proof),
       pkh_signature |->
         Mapped(witness.pkh_signature, LAMBDA e : PkhSignatureToPb(by, e)),
       hax |-> Mapped(witness.hax_map, LAMBDA e : HaxMapToPb(by, e)),
       seeds |-> Mapped(spend.seeds, LAMBDA s : SeedToPb(by, s)),
       fee |-> [value |-> spend.fee]]

LegacySpendToPb(by, spend) ==
  [case |-> "Legacy",
   signature |->
     Mapped(spend.signature, LAMBDA e : [schnorr_pubkey |-> SchnorrPubkey(e.pubkey),
                                         signature |-> SchnorrSignature(e.signature)]),
   seeds |-> Mapped(spend.seeds, LAMBDA s : SeedToPb(by, s)),
   fee |-> [value |-> spend.fee]]

(* null for a spend of version 0. *)
SpendToPb(by, spend) ==
  IF spend.tag = 1 THEN <<WitnessSpendToPb(by, spend)>>
  ELSE IF by = Rose THEN << >>
  ELSE <<LegacySpendToPb(by, spend)>>

RawTxToProtobuf(by, t) ==
  [id |-> DigestBy(by, t.id),
   spends |-> Mapped(t.spends, LAMBDA e : [name |-> e.name,
                                           spend |-> SpendToPb(by, e.spend)])]
-----------------------------------------------------------------------------
(* proto/rawTx.ts rawTxFromProtobuf and what it calls in proto/decode.ts.  *)

(* Only a boxed limit is seen. *)
LimitFromPb(limit) ==
  Mapped(SelectSeq(limit, LAMBDA n : "value" \in DOMAIN n), LAMBDA n : n.value)

RangeFromPb(range) == [min |-> LimitFromPb(range.min), max |-> LimitFromPb(range.max)]

LockPrimitiveFromProtobuf(pb) ==
  CASE pb.case = "Pkh" -> [tag |-> "pkh", m |-> pb.m, hashes |-> Mapped(pb.hashes, DigestField)]
    [] pb.case = "Tim" ->
         [tag |-> "tim", rel |-> RangeFromPb(pb.rel), abs |-> RangeFromPb(pb.abs)]
    [] pb.case = "Hax" -> [tag |-> "hax", preimages |-> Mapped(pb.hashes, DigestField)]
    [] pb.case = "Burn" -> [tag |-> "brn"]

LockMerkleProofFromPb(pb) ==
  [spend_condition |-> Mapped(pb.spend_condition, LockPrimitiveFromProtobuf),
   axis |-> pb.axis, root |-> DigestField(pb.root), path |-> Mapped(pb.path, DigestField),
   full |-> pb.lmp_version = <<"full">>]

PkhSignatureFromPb(pb) ==
  [hash |-> DigestField(pb.hash), pubkey |-> KeyOf(pb.pubkey),
   signature |-> SignatureOf(pb.signature)]

SourceFromPb(source) ==
  Mapped(SelectSeq(source, LAMBDA s : "source" \in DOMAIN s), LAMBDA s : s.source)

SeedFromPb(pb) ==
  [output_source |-> SourceFromPb(pb.output_source),
   lock_root |-> DigestField(pb.lock_root), note_data |-> NoteDataOf(pb.note_data),
   gift |-> pb.gift.value, parent_hash |-> DigestField(pb.parent_hash)]

WitnessFromPb(pb) ==
  [lock_merkle_proof |-> LockMerkleProofFromPb(pb.lock_merkle_proof),
   pkh_signature |-> Mapped(pb.pkh_signature, PkhSignatureFromPb),
   hax_map |-> Mapped(pb.hax, LAMBDA h : [hash |-> DigestField(h.hash), noun |-> Cue(h.value)])]

LegacySignatureFromPb(pb) ==
  Mapped(pb.signature, LAMBDA e : [pubkey |-> KeyOf(e.schnorr_pubkey),
                                   signature |-> SignatureOf(e.signature)])

SpendFromPb(pb) ==
  LET seeds == Mapped(pb.seeds, SeedFromPb)
  IN  IF pb.case = "Witness"
      THEN [tag |-> 1, witness |-> WitnessFromPb(pb), seeds |-> seeds, fee |-> pb.fee.value]
      ELSE [tag |-> 0, signature |-> LegacySignatureFromPb(pb), seeds |-> seeds,
            fee |-> pb.fee.value]

(* What makes rawTxFromProtobuf throw: a spend that is not there, a noun   *)
(* with an atom outside the field, a stub that is not at the root.         *)
NounsOf(pb) ==
  UNION {{Cue(e.blob[1]) : e \in Range(seed.note_data.entries)} : seed \in Range(pb.seeds)}
    \union (IF pb.case = "Witness" THEN {Cue(h.value) : h \in Range(pb.hax)} ELSE {})

IsBadStub(lmp) == lmp.lmp_version = << >> /\ lmp.axis # 1

Refuses(pb) ==
  \E entry \in Range(pb.spends) :
    \/ entry.spend = << >>
    \/ \E noun \in NounsOf(entry.spend[1]) : ~NounIsBased(noun)
    \/ entry.spend[1].case = "Witness" /\ IsBadStub(entry.spend[1].lock_merkle_proof)

RawTxFromProtobuf(pb) ==
  [id |-> DigestField(pb.id),
   spends |-> Mapped(pb.spends, LAMBDA e : [name |-> e.name,
                                            spend |-> SpendFromPb(e.spend[1])])]

-----------------------------------------------------------------------------
(* grpc/rawTx.ts rawTxV1ToGrpc: a message of ProtoCommon2.                 *)

DigestToGrpcHash(digest) == BeltsOf(digest.text)

NameToGrpcName(name) ==
  [first |-> <<DigestToGrpcHash(name.first)>>, last |-> <<DigestToGrpcHash(name.last)>>]

TimelockRange(range) ==
  [min |-> Mapped(range.min, LAMBDA n : [value |-> <<n>>]),
   max |-> Mapped(range.max, LAMBDA n : [value |-> <<n>>])]

LockPrimitiveToGrpc(prim) ==
  LET Primitive(name, value) == [primitive |-> <<[case |-> name, content |-> value]>>]
  IN  CASE prim.tag = "pkh" ->
             Primitive("pkh", [m |-> <<prim.m>>,
                               hashes |-> Mapped(prim.hashes, DigestToGrpcHash)])
        [] prim.tag = "tim" ->
             Primitive("tim", [rel |-> <<TimelockRange(prim.rel)>>,
                               abs |-> <<TimelockRange(prim.abs)>>])
        [] prim.tag = "hax" ->
             Primitive("hax", [hashes |-> Mapped(prim.preimages, DigestToGrpcHash)])
        [] prim.tag = "brn" -> Primitive("burn", [p \in {} |-> << >>])

FullVersion == 1819047270   \* the letters of "full" as a number

LockMerkleProofToGrpc(lmp) ==
  [spend_condition |->
     <<[primitives |-> Mapped(lmp.spend_condition, LockPrimitiveToGrpc)]>>,
   axis |-> <<IF lmp.full THEN lmp.axis ELSE 1>>,
   proof |-> <<[root |-> <<DigestToGrpcHash(lmp.root)>>,
                path |-> Mapped(lmp.path, DigestToGrpcHash)]>>,
   lmp_version |-> IF lmp.full THEN <<FullVersion>> ELSE << >>]

PkhSignatureToGrpc(entry) ==
  [hash |-> <<DigestToGrpcHash(entry.hash)>>, pubkey |-> <<SchnorrPubkey(entry.pubkey)>>,
   signature |-> <<SchnorrSignature(entry.signature)>>]

HaxPreimageToGrpc(entry) ==
  [hash |-> <<DigestToGrpcHash(entry.hash)>>, value |-> <<Jam(entry.noun)>>]

(* Mutant: does not say whether it is a coinbase. *)
SourceToGrpcHash(source) ==
  Mapped(SelectSeq(source, LAMBDA s : "hash" \in DOMAIN s),
         LAMBDA s : [hash |-> <<DigestToGrpcHash(s.hash)>>])

(* A source that names a parent has no place in the message. *)
SourceToGrpc(source) ==
  Mapped(SelectSeq(source, LAMBDA s : "hash" \in DOMAIN s),
         LAMBDA s : [hash |-> <<DigestToGrpcHash(s.hash)>>, coinbase |-> <<s.is_coinbase>>])

SeedToGrpc(seed) ==
  [output_source |-> SourceToGrpc(seed.output_source),
   lock_root |-> <<DigestToGrpcHash(LockRootHash(seed.lock_root))>>,
   note_data |-> <<NoteDataMessage(seed.note_data)>>, gift |-> Box(seed.gift),
   parent_hash |-> <<DigestToGrpcHash(seed.parent_hash)>>]

WitnessSpendToGrpc(spend) ==
  LET witness == spend.witness
  IN  [witness |->
         <<[lock_merkle_proof |-> <<LockMerkleProofToGrpc(witness.lock_merkle_proof)>>,
            pkh_signature |->
              <<[entries |-> Mapped(witness.pkh_signature, PkhSignatureToGrpc)]>>,
            hax |-> Mapped(witness.hax_map, HaxPreimageToGrpc)]>>,
       seeds |-> Mapped(spend.seeds, SeedToGrpc), fee |-> Box(spend.fee)]

(* Nothing for a spend of version 0. *)
SpendToGrpc(spend) ==
  IF spend.tag # 1 THEN << >>
  ELSE <<[spend_kind |-> <<[case |-> "witness", content |-> WitnessSpendToGrpc(spend)]>>]>>

RawTxV1ToGrpc(t) ==
  [version |-> Box(1), id |-> <<DigestToGrpcHash(t.id)>>,
   spends |-> Mapped(t.spends, LAMBDA e : [name |-> <<NameToGrpcName(e.name)>>,
                                           spend |-> SpendToGrpc(e.spend)])]

EncodeRawTransactionBytes(t) == Encode(Types!RawTransaction, RawTxV1ToGrpc(t))

-----------------------------------------------------------------------------
(* What the node makes of a message (outside this repository): the same    *)
(* terms as tx, with Nothing for a spend that is not there.                *)

Nothing == [tag |-> "nothing"]

HashAt(field) == DigestFromProtobuf(field[1])

RangeOf(range) ==
  [min |-> Mapped(range.min, LAMBDA n : n.value[1]),
   max |-> Mapped(range.max, LAMBDA n : n.value[1])]

PrimitiveOf(message) ==
  LET prim == message.primitive[1]
  IN  CASE prim.case = "pkh" -> [tag |-> "pkh", m |-> prim.content.m[1],
                                 hashes |-> Mapped(prim.content.hashes, DigestFromProtobuf)]
        [] prim.case = "tim" -> [tag |-> "tim", rel |-> RangeOf(prim.content.rel[1]),
                                 abs |-> RangeOf(prim.content.abs[1])]
        [] prim.case = "hax" ->
             [tag |-> "hax", preimages |-> Mapped(prim.content.hashes, DigestFromProtobuf)]
        [] prim.case = "burn" -> [tag |-> "brn"]

ProofOf(message) ==
  [spend_condition |-> Mapped(message.spend_condition[1].primitives, PrimitiveOf),
   axis |-> message.axis[1], root |-> HashAt(message.proof[1].root),
   path |-> Mapped(message.proof[1].path, DigestFromProtobuf),
   full |-> message.lmp_version = <<FullVersion>>]

SeedOf(message) ==
  [output_source |->
     Mapped(message.output_source,
            LAMBDA s : [hash |-> HashAt(s.hash), is_coinbase |-> s.coinbase[1]]),
   lock_root |-> HashAt(message.lock_root), note_data |-> NoteDataOf(message.note_data[1]),
   gift |-> message.gift[1].value[1], parent_hash |-> HashAt(message.parent_hash)]

SpendOf(message) ==
  LET spend == message.spend_kind[1].content
      witness == spend.witness[1]
  IN  [tag |-> 1,
       witness |->
         [lock_merkle_proof |-> ProofOf(witness.lock_merkle_proof[1]),
          pkh_signature |->
            Mapped(witness.pkh_signature[1].entries,
                   LAMBDA e : [hash |-> HashAt(e.hash), pubkey |-> KeyOf(e.pubkey[1]),
                               signature |-> SignatureOf(e.signature[1])]),
          hax_map |-> Mapped(witness.hax,
                             LAMBDA h : [hash |-> HashAt(h.hash), noun |-> Cue(h.value[1])])],
       seeds |-> Mapped(spend.seeds, SeedOf), fee |-> spend.fee[1].value[1]]

NodeReads(message) ==
  [id |-> HashAt(message.id),
   spends |->
     Mapped(message.spends,
            LAMBDA e : [name |-> [first |-> HashAt(e.name[1].first), last |-> HashAt(e.name[1].last)],
                        spend |-> IF e.spend = << >> THEN Nothing ELSE SpendOf(e.spend[1])])]

-----------------------------------------------------------------------------
(* A transaction with every part of it changed by an operator. *)
WithSpends(t, Op(_)) == [t EXCEPT !.spends = Mapped(@, LAMBDA e : [e EXCEPT !.spend = Op(@)])]
WithSeeds(spend, Op(_)) == [spend EXCEPT !.seeds = Mapped(@, Op)]
WithProof(spend, Op(_)) ==
  IF spend.tag = 0 THEN spend ELSE [spend EXCEPT !.witness.lock_merkle_proof = Op(@)]

(* What the node is to know of a transaction: no spend of version 0, lock  *)
(* roots by their hashes, no source that names a parent.                   *)
SeedSent(seed) ==
  [seed EXCEPT !.lock_root = LockRootHash(@),
               !.output_source = SelectSeq(@, LAMBDA s : "hash" \in DOMAIN s)]

AsSent(t) ==
  WithSpends(t, LAMBDA spend : IF spend.tag = 0 THEN Nothing ELSE WithSeeds(spend, SeedSent))
=============================================================================
