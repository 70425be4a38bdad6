---------------------------- MODULE PackedNoteData ----------------------------
(***************************************************************************)
(* Memos and blobs in the note data of an output (hash/noteData.ts): a     *)
(* text as its length and its bytes, four to a belt, in a list; and the    *)
(* reader, which takes what other wallets write: the belts with or without *)
(* a zero after them.                                                      *)
(*                                                                         *)
(* A text is its UTF-8 bytes.  A noun is what a list of atoms shows to the *)
(* reader: the heads and the last tail; TooMuch stands for a cell, or an   *)
(* atom of more than 64 bits, in their place.                              *)
(***************************************************************************)
EXTENDS Integers, Sequences, FiniteSets, SequencesExt

CONSTANTS
  ByteBase,   \* a byte is one of 0..ByteBase - 1: 256 in the code
  Blanks,     \* texts that trim takes away: blanks and the byte order mark
  Mark,       \* the byte order mark
  MaxMemo,    \* bytes of a memo, at most: 2048 in the code
  MaxBlob,    \* and of a blob: 256 * 1024
  Texts,      \* what callers ask to push
  Foreign,    \* nouns that other wallets may have put under a key
  MaxPushes   \* bound on the number of pushes

VARIABLES
  data,       \* note data: a sequence of keys and nouns
  asked,      \* the last text pushed under each key
  pushes

vars == <<data, asked, pushes>>

TooMuch == -1
Null == [null |-> TRUE]   \* what a reader returns that finds no text
Throws == [throws |-> TRUE]
Bytes(bytes) == [bytes |-> bytes]

CeilDiv4(n) == (n + 3) \div 4
SmallerOf(a, b) == IF a < b THEN a ELSE b

-----------------------------------------------------------------------------
ByteOr0(bytes, k) == IF k <= Len(bytes) THEN bytes[k] ELSE 0

EncodeBlobBelts(bytes) ==
  <<Len(bytes)>> \o
  [i \in 1..CeilDiv4(Len(bytes)) |->
     LET Byte(j) == ByteOr0(bytes, 4 * (i - 1) + j)
     IN  Byte(1) + ByteBase * Byte(2) + ByteBase ^ 2 * Byte(3) + ByteBase ^ 3 * Byte(4)]

VecToNoun(belts) == Append(belts, 0)

PackedBlobNoun(bytes) == VecToNoun(EncodeBlobBelts(bytes))

(* Mutant: the zeros at the end of the belts are never part of them. *)
RECURSIVE NormalizeWithoutZeros(_)
NormalizeWithoutZeros(belts) ==
  IF Len(belts) > 1 /\ Last(belts) = 0 THEN NormalizeWithoutZeros(Front(belts))
  ELSE IF belts[1] > MaxBlob \/ Len(belts) > 1 + CeilDiv4(belts[1]) THEN << >> ELSE belts

(* Mutant: belts may be missing. *)
NormalizeAtMost(belts) ==
  LET expected == 1 + CeilDiv4(belts[1])
  IN  CASE belts[1] > MaxBlob -> << >>
        [] belts[1] <= MaxBlob /\ Len(belts) <= expected -> belts
        [] belts[1] <= MaxBlob /\ Len(belts) = expected + 1 /\ Last(belts) = 0 -> Front(belts)
        [] OTHER -> << >>

(* The belts of the text, or none. *)
NormalizePackedBlobBelts(belts) ==
  LET expected == 1 + CeilDiv4(belts[1])
  IN  CASE belts[1] > MaxBlob -> << >>
        [] belts[1] <= MaxBlob /\ Len(belts) = expected -> belts
        [] belts[1] <= MaxBlob /\ Len(belts) = expected + 1 /\ Last(belts) = 0 -> Front(belts)
        [] OTHER -> << >>

(* A limb has four bytes, whatever is above them. *)
DecodeLenPrefixedBlob(belts) ==
  LET normalized == NormalizePackedBlobBelts(belts)
      Byte(k) == (normalized[2 + (k - 1) \div 4] \div ByteBase ^ ((k - 1) % 4)) % ByteBase
  IN  IF normalized = << >> THEN Null
      ELSE Bytes([k \in 1..SmallerOf(normalized[1], 4 * (Len(normalized) - 1)) |-> Byte(k)])

(* TextDecoder leaves a mark at the start out. *)
Decoded(bytes) ==
  IF Len(bytes) >= Len(Mark) /\ SubSeq(bytes, 1, Len(Mark)) = Mark
  THEN SubSeq(bytes, Len(Mark) + 1, Len(bytes)) ELSE bytes

DecodeNoteDataPackedUtf8(noun) ==
  LET blob == DecodeLenPrefixedBlob(noun)
  IN  IF \E i \in DOMAIN noun : noun[i] = TooMuch THEN Throws
      ELSE IF blob = Null THEN Null ELSE Bytes(Decoded(blob.bytes))

-----------------------------------------------------------------------------
PushEntry(entries, key, noun) ==
  Append(SelectSeq(entries, LAMBDA e : e.key # key), [key |-> key, noun |-> noun])

RECURSIVE Trimmed(_)
Trimmed(text) ==
  LET n == Len(text)
      starts == {b \in Blanks : Len(b) <= n /\ SubSeq(text, 1, Len(b)) = b}
      ends == {b \in Blanks : Len(b) <= n /\ SubSeq(text, n + 1 - Len(b), n) = b}
  IN  IF starts # {} THEN Trimmed(SubSeq(text, 1 + Len(CHOOSE b \in starts : TRUE), n))
      ELSE IF ends # {} THEN Trimmed(SubSeq(text, 1, n - Len(CHOOSE b \in ends : TRUE)))
      ELSE text

Keys == {"lock", "memo", "blob"}

(* Note data begin empty, or as another wallet left them. *)
Init ==
  /\ \/ data = << >>
     \/ \E key \in {"memo", "blob"}, noun \in Foreign : data = <<[key |-> key, noun |-> noun]>>
  /\ asked = [key \in Keys |-> << >>] /\ pushes = 0

Pushed(key, text, noun) ==
  /\ pushes < MaxPushes /\ pushes' = pushes + 1
  /\ data' = PushEntry(data, key, noun)
  /\ asked' = [asked EXCEPT ![key] = <<text>>]

(* An empty memo, or a long one, throws. *)
NoteDataPushMemo(text) ==
  /\ Len(text) \in 1..MaxMemo
  /\ Pushed("memo", text, PackedBlobNoun(text))

(* A blank blob changes nothing; a long one throws. *)
NoteDataPushBlob(text) ==
  /\ Len(Trimmed(text)) \in 1..MaxBlob
  /\ Pushed("blob", text, PackedBlobNoun(Trimmed(text)))

(* The lock of the output, a noun that is no text. *)
NoteDataPushLock == Pushed("lock", << >>, <<0, TooMuch>>)

Next ==
  \/ \E text \in Texts : NoteDataPushMemo(text) \/ NoteDataPushBlob(text)
  \/ NoteDataPushLock

Spec == Init /\ [][Next]_vars

-----------------------------------------------------------------------------
EntriesOf(key) == {i \in DOMAIN data : data[i].key = key}

TypeInvariant ==
  /\ \A key \in Keys : asked[key] # << >> => Cardinality(EntriesOf(key)) = 1
  /\ pushes \in 0..MaxPushes

TextOf(key) == IF key = "blob" THEN Trimmed(asked[key][1]) ELSE asked[key][1]

(* Whatever was there before and was pushed since, each key has one entry, *)
(* and it reads as the text pushed last; but for a byte order mark before  *)
(* a memo (noteDataPushMemo, noteDataPushBlob, decodeNoteDataPackedUtf8).  *)
PushedIsRead ==
  \A key \in {"memo", "blob"} :
    asked[key] # << >> =>
      \E i \in DOMAIN data :
        /\ EntriesOf(key) = {i}
        /\ DecodeNoteDataPackedUtf8(data[i].noun) = Bytes(Decoded(TextOf(key)))

(* What another wallet wrote is read as the text of its length, or not at  *)
(* all; and nothing that lacks a belt but the zero after them is           *)
(* (decodeLenPrefixedBlob).                                                *)
NoPartIsRead ==
  \A i \in DOMAIN data :
    LET noun == data[i].noun
        text == DecodeNoteDataPackedUtf8(noun)
    IN  /\ "bytes" \in DOMAIN text => Len(text.bytes) \in {noun[1], noun[1] - Len(Mark)}
        /\ \A part \in Prefixes(noun) \ {<< >>, noun} :
             LET read == DecodeNoteDataPackedUtf8(part)
             IN  "bytes" \in DOMAIN read /\ "bytes" \in DOMAIN text =>
                   read = text /\ part = Front(noun) /\ Last(noun) = 0
=============================================================================
