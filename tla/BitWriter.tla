------------------------------- MODULE BitWriter -------------------------------
(***************************************************************************)
(* The bit writer under jam (src/noun/bitwriter.ts): whole bytes in buf,   *)
(* the last nbits bits in acc, bits going in from the low end.  Zeros and  *)
(* whole bytes are written without going bit by bit, over a byte that is   *)
(* half full, and bitLen, the offset jam takes its back references from,   *)
(* is counted apart from the buffer.                                       *)
(*                                                                         *)
(* acc is a number of the code's 32 bits; none of its shifts reaches them. *)
(***************************************************************************)
EXTENDS Integers, Sequences, SequencesExt, Bitwise

CONSTANTS MaxBits,     \* bound on the bits written
          ByteValues,  \* bytes of atoms
          MaxBytes,    \* bound on an atom's bytes
          Values,      \* numbers for writeBitsFromValue
          Counts       \* and how many of their bits

VARIABLES buf, acc, nbits, bitLen

vars == <<buf, acc, nbits, bitLen>>

Byte == 0..255

(* Atoms as bytes, and their number of bits. *)
Atoms ==
  UNION {{[bytes |-> bytes, total |-> 8 * n - spare] :
            bytes \in [1..n -> ByteValues], spare \in 0..7} : n \in 1..MaxBytes}

BitOf(n, i) == (n \div 2^i) % 2
BitsOf(n, count) == [i \in 1..count |-> BitOf(n, i - 1)]

(* A writer as a record, so that a method may call another.                *)
Writer == [buf |-> buf, acc |-> acc, nbits |-> nbits, bitLen |-> bitLen]

Becomes(w) ==
  /\ w.bitLen <= MaxBits
  /\ buf' = w.buf /\ acc' = w.acc /\ nbits' = w.nbits /\ bitLen' = w.bitLen

FlushAcc(w) ==
  IF w.nbits = 0 THEN w
  ELSE [w EXCEPT !.buf = Append(@, w.acc & 255), !.acc = 0, !.nbits = 0]

WithBit(w, bit) ==
  LET put == [w EXCEPT !.acc = IF bit = 1 THEN @ | 2^w.nbits ELSE @,
                       !.nbits = @ + 1, !.bitLen = @ + 1]
  IN  IF put.nbits = 8 THEN FlushAcc(put) ELSE put

WithBits(w, bs) == FoldLeft(WithBit, w, bs)

(* The remaining zeros, from a byte boundary on. *)
ZerosAligned(w, count) ==
  [w EXCEPT !.buf = @ \o [i \in 1..count \div 8 |-> 0],
            !.nbits = count % 8, !.acc = 0, !.bitLen = @ + count]

WithZeros(w, count) ==
  LET space == 8 - w.nbits
      low == w.acc & (2^w.nbits - 1)
  IN  IF w.nbits = 0 THEN ZerosAligned(w, count)
      ELSE IF count < space
      THEN [w EXCEPT !.acc = low, !.nbits = @ + count, !.bitLen = @ + count]
      ELSE ZerosAligned(FlushAcc([w EXCEPT !.acc = low, !.nbits = 8, !.bitLen = @ + space]),
                        count - space)

(* A whole byte over a byte that is half full: the high bits are carried.  *)
(* (a mutant first: shifted by as much as the low ones) *)
WithByteMisshifted(w, byte) ==
  [w EXCEPT !.buf = Append(@, (w.acc | (byte * 2^w.nbits)) & 255),
            !.acc = byte \div 2^w.nbits, !.bitLen = @ + 8]

WithByte(w, byte) ==
  [w EXCEPT !.buf = Append(@, (w.acc | (byte * 2^w.nbits)) & 255),
            !.acc = byte \div 2^(8 - w.nbits), !.bitLen = @ + 8]

(* The bytes of an atom hold total bits; those of a last, partial byte are *)
(* written one by one.                                                     *)
WithLeBytes(w, bytes, total) ==
  LET full == total \div 8
      whole == FoldLeft(WithByte, w, SubSeq(bytes, 1, full))
      last == IF full < Len(bytes) THEN bytes[full + 1] ELSE 0
  IN  WithBits(whole, BitsOf(last, total % 8))

IntoVec == FlushAcc(Writer).buf

-----------------------------------------------------------------------------
Init == buf = << >> /\ acc = 0 /\ nbits = 0 /\ bitLen = 0

WriteBit(bit) == Becomes(WithBit(Writer, bit))

WriteZeros(count) == Becomes(WithZeros(Writer, count))

WriteBitsFromValue(value, count) == Becomes(WithBits(Writer, BitsOf(value, count)))

WriteBitsFromLeBytes(bytes, total) == Becomes(WithLeBytes(Writer, bytes, total))

Next ==
  \/ \E bit \in {0, 1} : WriteBit(bit)
  \/ \E count \in 1..MaxBits : WriteZeros(count)
  \/ \E value \in Values, count \in Counts : WriteBitsFromValue(value, count)
  \/ \E atom \in Atoms : WriteBitsFromLeBytes(atom.bytes, atom.total)

Spec == Init /\ [][Next]_vars

-----------------------------------------------------------------------------
(* Properties.                                                             *)

TypeInvariant ==
  /\ buf \in Seq(Byte)
  /\ acc \in Byte
  /\ nbits \in 0..7
  /\ bitLen \in 0..MaxBits

BitsOfBytes(bytes) == FlattenSeq([i \in DOMAIN bytes |-> BitsOf(bytes[i], 8)])
BitsIn(w) == BitsOfBytes(w.buf) \o BitsOf(w.acc, w.nbits)
Bits == BitsIn(Writer)

(* CallsAppend: whatever is in the half-full byte, each call leaves the    *)
(* bits before it as they were and appends what it was given: a bit, count *)
(* zeros, the low bits of a value, the first total bits of an atom's       *)
(* bytes.  A shortcut over whole bytes writes what bit by bit would, and   *)
(* counts as much: jam takes the length for the offset of the next noun.   *)
(* intoVec pads with zeros to whole bytes.                                 *)
CallsAppend ==
  LET before == Bits
      Appends(w, more) ==
        LET after == BitsIn(w)
        IN  /\ after = before \o more
            /\ w.bitLen = Len(after)
            /\ BitsOfBytes(FlushAcc(w).buf) = after \o [i \in 1..(8 - w.nbits) % 8 |-> 0]
  IN  /\ \A bit \in {0, 1} : Appends(WithBit(Writer, bit), <<bit>>)
      /\ \A count \in 1..MaxBits :
           Appends(WithZeros(Writer, count), [i \in 1..count |-> 0])
      /\ \A value \in Values, count \in Counts :
           Appends(WithBits(Writer, BitsOf(value, count)), BitsOf(value, count))
      /\ \A atom \in Atoms :
           Appends(WithLeBytes(Writer, atom.bytes, atom.total),
                   SubSeq(BitsOfBytes(atom.bytes), 1, atom.total))
=============================================================================
