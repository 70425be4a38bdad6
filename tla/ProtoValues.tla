------------------------------ MODULE ProtoValues ------------------------------
(***************************************************************************)
(* The values that notes and transactions are made of, in the program and  *)
(* in a protobuf message: digests (proto/digest.ts), jammed nouns, keys    *)
(* and signatures (proto/index.ts, proto/rawTx.ts, grpc/rawTx.ts,          *)
(* grpc/convert.ts).                                                       *)
(*                                                                         *)
(* A message is what ProtoWire reads and writes: a function from           *)
(* properties to sequences of values.  A base58 text is the sequence of    *)
(* the numbers it stands for: five of a digest, twelve of a key.           *)
(***************************************************************************)
EXTENDS Integers, Sequences

CONSTANTS
  ByteBase,   \* a byte is one of 0..ByteBase - 1: 256 in the code
  Unbased     \* a noun with an atom outside the field

Text(numbers) == [text |-> numbers]
IsTextForm(value) == "text" \in DOMAIN value

Box(value) == <<[value |-> <<value>>]>>

BeltNames ==
  <<"belt_1", "belt_2", "belt_3", "belt_4", "belt_5", "belt_6", "belt_7", "belt_8">>

(* Hash, SixBelt and EightBelt: a boxed number under each name. *)
BeltsOf(numbers) ==
  [name \in {BeltNames[i] : i \in DOMAIN numbers} |->
     Box(numbers[CHOOSE i \in DOMAIN numbers : BeltNames[i] = name])]

NumbersOf(belts, count) ==
  [i \in 1..count |-> belts[BeltNames[i]][1].value[1]]

HasBelts(hash) == \A i \in 1..5 : hash[BeltNames[i]] # << >>

-----------------------------------------------------------------------------
DigestToProtobuf(digest) == BeltsOf(digest.text)

DigestFromProtobuf(hash) == Text(NumbersOf(hash, 5))

(* Where a digest is expected, its text will do as well. *)
DigestField(value) ==
  IF IsTextForm(value) THEN value ELSE DigestFromProtobuf(value)

(* A noun as bytes and back; JamCue has the two algorithms. *)
Jam(noun) == <<noun, 1>>
Cue(bytes) == bytes[1]
NounIsBased(noun) == noun # Unbased

(* A key without its flag `inf', which base58 does not have. *)
PointFromBase58(key) ==
  [x |-> SubSeq(key.text, 1, 6), y |-> SubSeq(key.text, 7, 12), inf |-> 0]
PointToBase58(point) == Text(point.x \o point.y)

(* Four bytes to a number, the lowest first; and back. *)
BeltsFromLeBytes(bytes) ==
  [i \in 1..8 |-> bytes[4 * i - 3] + ByteBase * bytes[4 * i - 2]
                    + ByteBase ^ 2 * bytes[4 * i - 1] + ByteBase ^ 3 * bytes[4 * i]]

(* Mutant: the bytes of a number in the order they are read by people.     *)
BeltsToBeBytes(belts) ==
  [k \in 1..32 |->
     (belts[(k + 3) \div 4] \div ByteBase ^ (3 - ((k - 1) % 4))) % ByteBase]

BeltsToLeBytes(belts) ==
  [k \in 1..32 |->
     (belts[(k + 3) \div 4] \div ByteBase ^ ((k - 1) % 4)) % ByteBase]

SchnorrPubkey(key) ==
  LET point == PointFromBase58(key)
  IN  [value |-> <<[x |-> <<BeltsOf(point.x)>>, y |-> <<BeltsOf(point.y)>>,
                    inf |-> <<point.inf>>]>>]

KeyOf(pubkey) ==
  LET point == pubkey.value[1]
  IN  PointToBase58([x |-> NumbersOf(point.x[1], 6), y |-> NumbersOf(point.y[1], 6),
                     inf |-> point.inf[1]])

SchnorrSignature(signature) ==
  [chal |-> <<BeltsOf(BeltsFromLeBytes(signature.c))>>,
   sig |-> <<BeltsOf(BeltsFromLeBytes(signature.s))>>]

SignatureOf(schnorr) ==
  [c |-> BeltsToLeBytes(NumbersOf(schnorr.chal[1], 8)),
   s |-> BeltsToLeBytes(NumbersOf(schnorr.sig[1], 8))]

NoteDataMessage(data) ==
  [entries |-> [i \in DOMAIN data |->
                  [key |-> <<data[i].key>>, blob |-> <<Jam(data[i].noun)>>]]]

NoteDataOf(message) ==
  [i \in DOMAIN message.entries |->
     [key |-> message.entries[i].key[1], noun |-> Cue(message.entries[i].blob[1])]]
=============================================================================
