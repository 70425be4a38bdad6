------------------------------ MODULE MCEncodings ------------------------------
(***************************************************************************)
(* The encodings under every hash and id, side by side: the order of sets  *)
(* (ZTree), lock trees and their proofs (LockMerkle), the bit writer       *)
(* (BitWriter), jam and cue (JamCue), the protobuf messages                *)
(* (ProtoRoundTrip), the transaction in them (TxProto), memos and blobs    *)
(* (PackedNoteData), the arithmetic of belts (BeltCalls), and keys made of *)
(* them (Schnorr, Slip10).  They share no state; a behaviour is one of one *)
(* of them, chosen at the start, and the others rest.                      *)
(***************************************************************************)
EXTENDS Belt, Sequences, TLC

CONSTANTS old, new

VARIABLES
  running,
  mor, given, root,                                             \* ZTree
  sps, lock, index, proof,                                      \* LockMerkle
  buf, acc, nbits, bitLen,                                      \* BitWriter
  phase, noun, stack, backrefs, bits, wire, cursor, slots,      \* JamCue
  cueStack, backrefMap, result,
  messagePhase, messageType, message, messageWire, read,        \* ProtoRoundTrip
  origin, tx, txPhase, object, bytes, writers,                  \* TxProto
  data, asked, pushes,                                          \* PackedNoteData
  left, right, called, loop, answer,                            \* BeltCalls
  rootKey, key, publicKey, transcript, signature, step,         \* Schnorr
  hashed, hmac, childIndex, keys, children                      \* Slip10

treeVars == <<mor, given, root>>
lockVars == <<sps, lock, index, proof>>
writerVars == <<buf, acc, nbits, bitLen>>
jamVars == <<phase, noun, stack, backrefs, bits, wire, cursor, slots, cueStack,
             backrefMap, result>>
messageVars == <<messagePhase, messageType, message, messageWire, read>>
txVars == <<origin, tx, txPhase, object, bytes, writers>>
dataVars == <<data, asked, pushes>>
beltVars == <<left, right, called, loop, answer>>
schnorrVars == <<rootKey, key, publicKey, transcript, signature, step>>
slipVars == <<hashed, hmac, childIndex, keys, children>>

(* Four keys, every heap order of them, and every way in which up to five  *)
(* entries can come, with two interchangeable values to tell entries of    *)
(* one key apart.                                                          *)
Tree == INSTANCE ZTree WITH Keys <- 1..4, Values <- {old, new}, MaxEntries <- 5

MCSymmetry == Permutations({old, new})

(* Lists of every length up to one too many: conditions all different, all *)
(* the same, and alternating.                                              *)
MCLists ==
  UNION {{[i \in 1..n |-> <<"condition", i>>], [i \in 1..n |-> <<"condition", 0>>],
          [i \in 1..n |-> <<"condition", i % 2>>]} : n \in 0..17}

Lock == INSTANCE LockMerkle WITH Lists <- MCLists, Brn <- <<"brn", 0>>

(* Bytes whose halves differ, so that a carry shifted by the wrong amount  *)
(* shows, and room for a byte that starts and ends inside the buffer's.    *)
Writer == INSTANCE BitWriter WITH
  MaxBits <- 10, ByteValues <- {1, 165}, MaxBytes <- 2, Values <- {1, 2}, Counts <- 1..3

(* All nouns of up to four atoms: zero, one, an atom as long as the        *)
(* numbers of the first places (a reference to it may or may not be        *)
(* shorter), and one of 64 bits, past which places need a byte or more.    *)
MCAtom(b) == [tag |-> "atom", bits |-> b]
MCAtoms == {MCAtom(<< >>), MCAtom(<<1>>), MCAtom(<<1, 0, 1>>),
            MCAtom([i \in 1..64 |-> IF i \in {1, 64} THEN 1 ELSE 0])}
Pairs(heads, tails) ==
  {[tag |-> "cell", head |-> head, tail |-> tail] : head \in heads, tail \in tails}
Twos == Pairs(MCAtoms, MCAtoms)
Threes == Pairs(MCAtoms, Twos) \union Pairs(Twos, MCAtoms)
Fours ==
  Pairs(MCAtoms, Threes) \union Pairs(Threes, MCAtoms) \union Pairs(Twos, Twos)

Jam == INSTANCE JamCue WITH
  Nouns <- MCAtoms \union Twos \union Threes \union Fours, MaxLost <- 1

(* Every type of message: empty, full, and with each field alone; up to    *)
(* three units lost at the end.  Transactions of up to two spends, read    *)
(* twice; bytes of four bits, that four of them stay within TLC's          *)
(* integers.                                                               *)
Sample == INSTANCE ProtoSamples WITH ByteBase <- 16, Unbased <- 9

Message == INSTANCE ProtoRoundTrip WITH
  Samples <- Sample!Samples, MaxCut <- 3,
  phase <- messagePhase, wire <- messageWire

Tx == INSTANCE TxProto WITH
  ByteBase <- 16, Unbased <- 9, Transactions <- Sample!SampleTransactions, MaxTrips <- 2,
  phase <- txPhase

(* Texts around the limits of four bytes, with zeros, blanks (1) and marks *)
(* (2 2 1) at their ends; bytes of three values.  Another wallet writes    *)
(* the same with and without a zero after, and cut, spoilt or too long.    *)
MCTexts ==
  {[i \in 1..n |-> IF i = n THEN last ELSE 2] : n \in 1..6, last \in {0, 1}}
    \union {<<0, 0, 0, 0>>, <<0, 0, 0, 0, 0>>, <<1, 0, 1>>, <<2, 2, 1, 0>>, <<2, 2, 1>>, << >>,
            <<1, 2, 2, 1, 2, 2, 1, 0>>, <<0, 1, 2, 2, 1>>}

MCBelts == {<<0>>, <<1, 2>>, <<3, 80 + 81>>, <<4, 80>>, <<4, 0>>, <<5, 80, 0>>, <<5, 0, 0>>, <<8, 1, 2>>}
MCForeign ==
  MCBelts \union {Append(b, 0) : b \in MCBelts}
    \union {Append(b, 7) : b \in MCBelts} \union {b \o <<0, 0>> : b \in MCBelts}
    \union {<<7>>, <<99, 1>>, <<-1, 1>>, <<4, -1>>, <<4, 5, -1>>}

Data == INSTANCE PackedNoteData WITH
  ByteBase <- 3, Blanks <- {<<1>>, <<2, 2, 1>>}, Mark <- <<2, 2, 1>>, MaxMemo <- 5, MaxBlob <- 6,
  Texts <- MCTexts, Foreign <- MCForeign, MaxPushes <- 2

(* Every belt with those around the carries: half words, words and their   *)
(* ends, and the middle.                                                   *)
MCRights == {0, 1, 2, 7, 15, 16, 17, 31, 32, 120, 121, 224, 225, 226, 239, 240}

Calls == INSTANCE BeltCalls WITH Lefts <- Based, Rights <- MCRights, MaxExponent <- 32

(* The curve y^2 = x^3 + x + 6 over seven elements has eleven points, and  *)
(* scalars of four bits go past that.  Tweaks: zero, one whose bytes swap, *)
(* the negatives of two keys, the order and above.                         *)
MCGenerator == [x |-> 1, y |-> 1, inf |-> FALSE]

Keys == INSTANCE Schnorr WITH
  FieldPrime <- 7, Order <- 11, A_GEN <- MCGenerator, ByteBase <- 4, Bits <- 4, root <- rootKey,
  Tweaks <- {<<0, 0>>, <<1, 0>>, <<2, 1>>, <<3, 2>>, <<3, 3>>}

(* Hashes: zero, the order, and two that add up to it. *)
Wallets == INSTANCE Slip10 WITH
  FieldPrime <- 7, Order <- 11, A_GEN <- MCGenerator, ByteBase <- 4, Bits <- 4,
  Hashes <- [left : {0, 5, 6, 11}, chain : {<<1>>, <<2>>}],
  Indices <- {0, 1}, Hardened <- 1, MaxHashes <- 4, result <- hmac, index <- childIndex

-----------------------------------------------------------------------------
(* At rest. *)
TreeRests == mor = [k \in 1..4 |-> k] /\ given = << >> /\ root = Tree!Null
LockRests == sps = << >> /\ lock = Lock!None /\ index = 0 /\ proof = Lock!None
JamRests == noun = Jam!Zero /\ Jam!Init
MessageRests ==
  /\ messagePhase = "write" /\ messageType = <<"common1", "Belt">>
  /\ message = << >> /\ messageWire = << >> /\ read = Message!Failure
TxRests ==
  /\ origin = << >> /\ tx = << >> /\ txPhase = "native"
  /\ object = << >> /\ bytes = << >> /\ writers = << >>

DataRests == data = << >> /\ asked = << >> /\ pushes = 0
BeltRests ==
  left = 0 /\ right = 0 /\ called = "none" /\ loop = << >> /\ answer = 0
SchnorrRests ==
  /\ rootKey = << >> /\ key = << >> /\ publicKey = << >>
  /\ transcript = << >> /\ signature = << >> /\ step = "root"
SlipRests ==
  hashed = << >> /\ hmac = << >> /\ childIndex = 0 /\ keys = << >> /\ children = << >>

Init ==
  /\ running \in {"tree", "lock", "writer", "jam", "message", "tx", "data", "belt", "schnorr", "slip10"}
  /\ Writer!Init
  /\ IF running = "tree" THEN Tree!Init ELSE TreeRests
  /\ IF running = "lock" THEN Lock!Init ELSE LockRests
  /\ IF running = "jam" THEN Jam!Init ELSE JamRests
  /\ IF running = "message" THEN Message!Init ELSE MessageRests
  /\ IF running = "tx" THEN Tx!Init ELSE TxRests
  /\ IF running = "data" THEN Data!Init ELSE DataRests
  /\ IF running = "belt" THEN Calls!Init ELSE BeltRests
  /\ IF running = "schnorr" THEN Keys!Init ELSE SchnorrRests
  /\ IF running = "slip10" THEN Wallets!Init ELSE SlipRests

Next ==
  /\ UNCHANGED running
  /\ IF running = "tree" THEN Tree!Next ELSE UNCHANGED treeVars
  /\ IF running = "lock" THEN Lock!Next ELSE UNCHANGED lockVars
  /\ IF running = "writer" THEN Writer!Next ELSE UNCHANGED writerVars
  /\ IF running = "jam" THEN Jam!Next ELSE UNCHANGED jamVars
  /\ IF running = "message" THEN Message!Next ELSE UNCHANGED messageVars
  /\ IF running = "tx" THEN Tx!Next ELSE UNCHANGED txVars
  /\ IF running = "data" THEN Data!Next ELSE UNCHANGED dataVars
  /\ IF running = "belt" THEN Calls!Next ELSE UNCHANGED beltVars
  /\ IF running = "schnorr" THEN Keys!Next ELSE UNCHANGED schnorrVars
  /\ IF running = "slip10" THEN Wallets!Next ELSE UNCHANGED slipVars

Spec ==
  Init /\ [][Next]_<<running, treeVars, lockVars, writerVars, jamVars, messageVars, txVars,
                     dataVars, beltVars, schnorrVars, slipVars>>

-----------------------------------------------------------------------------
(* Properties: those of the modules, each where its module runs.           *)

(* Every part of every state has its type. *)
EncodingTypes ==
  /\ running = "tree" => Tree!TypeInvariant
  /\ running = "lock" => Lock!TypeInvariant
  /\ running = "writer" => Writer!TypeInvariant
  /\ running = "jam" => Jam!TypeInvariant
  /\ running = "message" => Message!TypeInvariant
  /\ running = "tx" => Tx!TypeInvariant
  /\ running = "data" => Data!TypeInvariant
  /\ running = "belt" => Calls!TypeInvariant
  /\ running = "schnorr" => Keys!TypeInvariant
  /\ running = "slip10" => Wallets!TypeInvariant

(* The tree over a set of keys does not depend on the order they came in   *)
(* (put and its rotations, core/zbase.ts).                                 *)
ShapeOfTheSet == running = "tree" => Tree!ShapeOfTheSet

(* The proof of each condition leads to the root of its lock (proveTree,   *)
(* core/merkle.ts).                                                        *)
ProofLeadsToRoot == running = "lock" => Lock!ProofLeadsToRoot

(* Every call of the writer appends and counts what it was given           *)
(* (noun/bitwriter.ts).                                                    *)
CallsAppend == running = "writer" => Writer!CallsAppend

(* cue reads from jam's bytes the noun jam was given (noun/jam.ts, cue.ts). *)
CueInvertsJam == running = "jam" => Jam!CueInvertsJam

(* A jam without its last byte is not read as the noun that was written.   *)
LossShows == running = "jam" => Jam!LossShows

(* What one peer writes, the other reads, whatever a newer writer puts     *)
(* among the fields (encode and decode of every message, src/grpc/gen).    *)
WireRoundTrip == running = "message" => Message!WireRoundTrip

(* A message that has lost its end is not read as the whole one (decode).  *)
CutShows == running = "message" => Message!CutShows

(* The JSON and partial forms of a message say what the message says       *)
(* (toJSON, fromJSON, fromPartial).                                        *)
FormsAgree == running = "message" => Message!FormsAgree

(* A transaction comes back from its protobuf object but for the parts     *)
(* that are known to be lost (rawTxToProtobuf, rawTxFromProtobuf).         *)
PbRoundTrip == running = "tx" => Tx!PbRoundTrip

(* The node reads the transaction that was sent (rawTxV1ToGrpc).           *)
NodeSeesTheTransaction == running = "tx" => Tx!NodeSeesTheTransaction

(* The memo and the blob of an output read as what was pushed last         *)
(* (noteDataPushMemo, noteDataPushBlob, decodeNoteDataPackedUtf8).         *)
PushedIsRead == running = "data" => Data!PushedIsRead

(* Part of a packed text is not read as a text (decodeLenPrefixedBlob).    *)
NoPartIsRead == running = "data" => Data!NoPartIsRead

(* Belts are added, multiplied and inverted modulo the prime, into based   *)
(* belts (core/belt.ts).                                                   *)
ArithmeticModuloPrime == running = "belt" => Calls!ArithmeticModuloPrime

(* Who has the public key derives the child of who has the private one,    *)
(* and accepts what it signs (deriveChild of crypto/slip10.ts,             *)
(* privateKey.ts and publicKey.ts, signDigest and verify).                 *)
KeysAgree ==
  /\ running = "schnorr" => Keys!SignatureVerifies
  /\ running = "slip10" => Wallets!WatchSeesWallet
=============================================================================
