----------------------------- MODULE ProtoCommon2 -----------------------------
(***************************************************************************)
(* The messages of nockchain.common.v2: notes, transactions and their      *)
(* witnesses. One definition per message of the generated code             *)
(* (src/grpc/gen/nockchain/common/v2/blockchain.ts), the sequence of its   *)
(* fields in the order of their numbers, after the messages it is made of; *)
(* ProtoWire says what the functions generated for a message do with them. *)
(***************************************************************************)
EXTENDS ProtoFields

NoteDataEntry == <<Plain(1, "key", String), Plain(2, "blob", Bytes)>>

NoteData == <<Repeated(1, "entries", Message("common2", "NoteDataEntry"))>>

NoteV1 ==
  <<Optional(1, "version", Message("common1", "NoteVersion")),
    Optional(2, "origin_page", Message("common1", "BlockHeight")),
    Optional(3, "name", Message("common1", "Name")),
    Optional(4, "note_data", Message("common2", "NoteData")),
    Optional(5, "assets", Message("common1", "Nicks"))>>

Note ==
  <<Case("note_version", 1, "legacy", Message("common1", "Note")),
    Case("note_version", 2, "v1", Message("common2", "NoteV1"))>>

BalanceEntry ==
  <<Optional(1, "name", Message("common1", "Name")),
    Optional(2, "note", Message("common2", "Note"))>>

Balance ==
  <<Repeated(1, "notes", Message("common2", "BalanceEntry")),
    Optional(2, "height", Message("common1", "BlockHeight")),
    Optional(3, "block_id", Message("common1", "Hash")),
    Optional(4, "page", Message("common1", "PageResponse"))>>

Seed ==
  <<Optional(1, "output_source", Message("common1", "Source")),
    Optional(2, "lock_root", Message("common1", "Hash")),
    Optional(3, "note_data", Message("common2", "NoteData")),
    Optional(4, "gift", Message("common1", "Nicks")),
    Optional(5, "parent_hash", Message("common1", "Hash"))>>

LegacySpend ==
  <<Optional(1, "signature", Message("common1", "Signature")),
    Repeated(2, "seeds", Message("common2", "Seed")),
    Optional(3, "fee", Message("common1", "Nicks"))>>

PkhLock ==
  <<Plain(1, "m", Uint64), Repeated(2, "hashes", Message("common1", "Hash"))>>

LockTim ==
  <<Optional(1, "rel", Message("common1", "TimeLockRangeRelative")),
    Optional(2, "abs", Message("common1", "TimeLockRangeAbsolute"))>>

HaxLock == <<Repeated(1, "hashes", Message("common1", "Hash"))>>

BurnLock == << >>

LockPrimitive ==
  <<Case("primitive", 1, "pkh", Message("common2", "PkhLock")),
    Case("primitive", 2, "tim", Message("common2", "LockTim")),
    Case("primitive", 3, "hax", Message("common2", "HaxLock")),
    Case("primitive", 4, "burn", Message("common2", "BurnLock"))>>

SpendCondition == <<Repeated(1, "primitives", Message("common2", "LockPrimitive"))>>

MerkleProof ==
  <<Optional(1, "root", Message("common1", "Hash")),
    Repeated(2, "path", Message("common1", "Hash"))>>

LockMerkleProof ==
  <<Optional(1, "spend_condition", Message("common2", "SpendCondition")),
    Plain(2, "axis", Uint64),
    Optional(3, "proof", Message("common2", "MerkleProof")),
    Optional(4, "lmp_version", Uint64)>>

PkhSignatureEntry ==
  <<Optional(1, "hash", Message("common1", "Hash")),
    Optional(2, "pubkey", Message("common1", "SchnorrPubkey")),
    Optional(3, "signature", Message("common1", "SchnorrSignature"))>>

PkhSignature == <<Repeated(1, "entries", Message("common2", "PkhSignatureEntry"))>>

HaxPreimage ==
  <<Optional(1, "hash", Message("common1", "Hash")),
    Plain(2, "value", Bytes)>>

Witness ==
  <<Optional(1, "lock_merkle_proof", Message("common2", "LockMerkleProof")),
    Optional(2, "pkh_signature", Message("common2", "PkhSignature")),
    Repeated(3, "hax", Message("common2", "HaxPreimage"))>>

WitnessSpend ==
  <<Optional(1, "witness", Message("common2", "Witness")),
    Repeated(2, "seeds", Message("common2", "Seed")),
    Optional(3, "fee", Message("common1", "Nicks"))>>

Spend ==
  <<Case("spend_kind", 1, "legacy", Message("common2", "LegacySpend")),
    Case("spend_kind", 2, "witness", Message("common2", "WitnessSpend"))>>

SpendEntry ==
  <<Optional(1, "name", Message("common1", "Name")),
    Optional(2, "spend", Message("common2", "Spend"))>>

RawTransaction ==
  <<Optional(1, "version", Message("common1", "NoteVersion")),
    Optional(2, "id", Message("common1", "Hash")),
    Repeated(3, "spends", Message("common2", "SpendEntry"))>>

-----------------------------------------------------------------------------
Messages ==
  [NoteDataEntry |-> NoteDataEntry, NoteData |-> NoteData, NoteV1 |-> NoteV1,
   Note |-> Note, BalanceEntry |-> BalanceEntry, Balance |-> Balance,
   Seed |-> Seed, LegacySpend |-> LegacySpend, PkhLock |-> PkhLock,
   LockTim |-> LockTim, HaxLock |-> HaxLock, BurnLock |-> BurnLock,
   LockPrimitive |-> LockPrimitive, SpendCondition |-> SpendCondition,
   MerkleProof |-> MerkleProof, LockMerkleProof |-> LockMerkleProof,
   PkhSignatureEntry |-> PkhSignatureEntry, PkhSignature |-> PkhSignature,
   HaxPreimage |-> HaxPreimage, Witness |-> Witness,
   WitnessSpend |-> WitnessSpend, Spend |-> Spend, SpendEntry |-> SpendEntry,
   RawTransaction |-> RawTransaction]
=============================================================================
