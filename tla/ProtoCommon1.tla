----------------------------- MODULE ProtoCommon1 -----------------------------
(***************************************************************************)
(* The messages of nockchain.common.v1: values, pages, and the chain's     *)
(* types of version 0 and of all versions. One definition per message of   *)
(* the generated code (src/grpc/gen/nockchain/common/v1/primitives.ts,     *)
(* common/v1/pagination.ts, common/v1/blockchain.ts), the sequence of its  *)
(* fields in the order of their numbers, after the messages it is made of; *)
(* ProtoWire says what the functions generated for a message do with them. *)
(***************************************************************************)
EXTENDS ProtoFields

-----------------------------------------------------------------------------
(* primitives.ts                                                           *)

ErrorStatus ==
  <<Plain(1, "code", ErrorCode), Plain(2, "message", String),
    Optional(3, "details", String)>>

Acknowledged == << >>

WireTag ==
  <<Case("value", 1, "text", String), Case("value", 2, "number", Uint64)>>

Wire ==
  <<Plain(1, "source", String), Plain(2, "version", Uint64),
    Repeated(3, "tags", Message("common1", "WireTag"))>>

NoteVersion == <<Plain(1, "value", Uint32)>>

BlockHeight == <<Plain(1, "value", Uint64)>>

BlockHeightDelta == <<Plain(1, "value", Uint64)>>

Nicks == <<Plain(1, "value", Uint64)>>

Belt == <<Plain(1, "value", Uint64)>>

BeltFields ==
  <<Optional(1, "belt_1", Message("common1", "Belt")),
    Optional(2, "belt_2", Message("common1", "Belt")),
    Optional(3, "belt_3", Message("common1", "Belt")),
    Optional(4, "belt_4", Message("common1", "Belt")),
    Optional(5, "belt_5", Message("common1", "Belt")),
    Optional(6, "belt_6", Message("common1", "Belt")),
    Optional(7, "belt_7", Message("common1", "Belt")),
    Optional(8, "belt_8", Message("common1", "Belt"))>>

Belts(count) == SubSeq(BeltFields, 1, count)

EightBelt == Belts(8)

Hash == Belts(5)

Base58Hash == <<Plain(1, "hash", String)>>

Base58Pubkey == <<Plain(1, "key", String)>>

SixBelt == Belts(6)

CheetahPoint ==
  <<Optional(1, "x", Message("common1", "SixBelt")),
    Optional(2, "y", Message("common1", "SixBelt")), Plain(3, "inf", Bool)>>

SchnorrPubkey == <<Optional(1, "value", Message("common1", "CheetahPoint"))>>

-----------------------------------------------------------------------------
(* pagination.ts                                                           *)

PageRequest ==
  <<Plain(1, "client_page_items_limit", Uint32),
    Plain(2, "page_token", String), Plain(3, "max_bytes", Uint64)>>

PageResponse == <<Plain(1, "next_page_token", String)>>

-----------------------------------------------------------------------------
(* blockchain.ts                                                           *)

Name ==
  <<Optional(1, "first", Message("common1", "Hash")),
    Optional(2, "last", Message("common1", "Hash"))>>

TimeLockRangeAbsolute ==
  <<Optional(1, "min", Message("common1", "BlockHeight")),
    Optional(2, "max", Message("common1", "BlockHeight"))>>

TimeLockRangeRelative ==
  <<Optional(1, "min", Message("common1", "BlockHeightDelta")),
    Optional(2, "max", Message("common1", "BlockHeightDelta"))>>

TimeLockRangeAbsoluteAndRelative ==
  <<Optional(1, "absolute", Message("common1", "TimeLockRangeAbsolute")),
    Optional(2, "relative", Message("common1", "TimeLockRangeRelative"))>>

TimeLockRangeNeither == << >>

TimeLockIntent ==
  <<Case("value", 1, "absolute", Message("common1", "TimeLockRangeAbsolute")),
    Case("value", 2, "relative", Message("common1", "TimeLockRangeRelative")),
    Case("value", 3, "absolute_and_relative",
         Message("common1", "TimeLockRangeAbsoluteAndRelative")),
    Case("value", 4, "neither", Message("common1", "TimeLockRangeNeither"))>>

Lock ==
  <<Plain(1, "keys_required", Uint32),
    Repeated(2, "schnorr_pubkeys", Message("common1", "SchnorrPubkey"))>>

Source ==
  <<Optional(1, "hash", Message("common1", "Hash")),
    Plain(2, "coinbase", Bool)>>

Note ==
  <<Optional(1, "origin_page", Message("common1", "BlockHeight")),
    Optional(2, "timelock", Message("common1", "TimeLockIntent")),
    Optional(3, "name", Message("common1", "Name")),
    Optional(4, "lock", Message("common1", "Lock")),
    Optional(5, "source", Message("common1", "Source")),
    Optional(6, "assets", Message("common1", "Nicks")),
    Optional(7, "version", Message("common1", "NoteVersion"))>>

BalanceEntry ==
  <<Optional(1, "name", Message("common1", "Name")),
    Optional(2, "note", Message("common1", "Note"))>>

WalletBalanceData ==
  <<Repeated(1, "notes", Message("common1", "BalanceEntry")),
    Optional(2, "height", Message("common1", "BlockHeight")),
    Optional(3, "block_id", Message("common1", "Hash")),
    Optional(4, "page", Message("common1", "PageResponse"))>>

SchnorrSignature ==
  <<Optional(1, "chal", Message("common1", "EightBelt")),
    Optional(2, "sig", Message("common1", "EightBelt"))>>

SignatureEntry ==
  <<Optional(1, "schnorr_pubkey", Message("common1", "SchnorrPubkey")),
    Optional(2, "signature", Message("common1", "SchnorrSignature"))>>

Signature == <<Repeated(1, "entries", Message("common1", "SignatureEntry"))>>

OutputSource == <<Optional(1, "source", Message("common1", "Source"))>>

Seed ==
  <<Optional(1, "output_source", Message("common1", "OutputSource")),
    Optional(2, "recipient", Message("common1", "Lock")),
    Optional(3, "timelock_intent", Message("common1", "TimeLockIntent")),
    Optional(4, "gift", Message("common1", "Nicks")),
    Optional(5, "parent_hash", Message("common1", "Hash"))>>

Spend ==
  <<Optional(1, "signature", Message("common1", "Signature")),
    Repeated(2, "seeds", Message("common1", "Seed")),
    Optional(3, "miner_fee_nicks", Message("common1", "Nicks"))>>

Input ==
  <<Optional(1, "note", Message("common1", "Note")),
    Optional(2, "spend", Message("common1", "Spend"))>>

NamedInput ==
  <<Optional(1, "name", Message("common1", "Name")),
    Optional(2, "input", Message("common1", "Input"))>>

RawTransaction ==
  <<Repeated(1, "named_inputs", Message("common1", "NamedInput")),
    Optional(2, "timelock_range", Message("common1", "TimeLockRangeAbsolute")),
    Optional(3, "total_fees", Message("common1", "Nicks")),
    Optional(4, "id", Message("common1", "Hash"))>>

-----------------------------------------------------------------------------
Messages ==
  [ErrorStatus |-> ErrorStatus, Acknowledged |-> Acknowledged,
   WireTag |-> WireTag, Wire |-> Wire, NoteVersion |-> NoteVersion,
   BlockHeight |-> BlockHeight, BlockHeightDelta |-> BlockHeightDelta,
   Nicks |-> Nicks, Belt |-> Belt, EightBelt |-> EightBelt, Hash |-> Hash,
   Base58Hash |-> Base58Hash, Base58Pubkey |-> Base58Pubkey,
   SixBelt |-> SixBelt, CheetahPoint |-> CheetahPoint,
   SchnorrPubkey |-> SchnorrPubkey, PageRequest |-> PageRequest,
   PageResponse |-> PageResponse, Name |-> Name,
   TimeLockRangeAbsolute |-> TimeLockRangeAbsolute,
   TimeLockRangeRelative |-> TimeLockRangeRelative,
   TimeLockRangeAbsoluteAndRelative |-> TimeLockRangeAbsoluteAndRelative,
   TimeLockRangeNeither |-> TimeLockRangeNeither,
   TimeLockIntent |-> TimeLockIntent, Lock |-> Lock, Source |-> Source,
   Note |-> Note, BalanceEntry |-> BalanceEntry,
   WalletBalanceData |-> WalletBalanceData,
   SchnorrSignature |-> SchnorrSignature, SignatureEntry |-> SignatureEntry,
   Signature |-> Signature, OutputSource |-> OutputSource, Seed |-> Seed,
   Spend |-> Spend, Input |-> Input, NamedInput |-> NamedInput,
   RawTransaction |-> RawTransaction]
=============================================================================
