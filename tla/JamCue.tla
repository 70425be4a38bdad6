-------------------------------- MODULE JamCue --------------------------------
(***************************************************************************)
(* A noun written with jam and read back with cue (src/noun/jam.ts,        *)
(* cue.ts), one round of their loops at a time.  Both run over a stack of  *)
(* their own, in the same order, and each keeps a table of the places it   *)
(* has been at: jam to write a noun it meets again as a reference to its   *)
(* place, cue to resolve one.  What is written travels as whole bytes, as  *)
(* note data and preimages do, and may lose its last ones on the way.      *)
(*                                                                         *)
(* An atom is the sequence of its bits from the lowest, without zeros on   *)
(* top; the bits written are one sequence, which BitWriter shows of its    *)
(* calls.  jam's table is found by weight and mug, then compared noun by   *)
(* noun: two nouns share an entry when they are equal.                     *)
(***************************************************************************)
EXTENDS Integers, Sequences, SequencesExt, FiniteSetsExt, TLC

CONSTANTS Nouns,    \* nouns to write, with the nouns they are made of
          MaxLost   \* bound on the bytes lost

VARIABLES
  phase,      \* "jam", "cue" or "done"
  noun,       \* jam's argument
  stack,      \* its stack, the top first
  backrefs,   \* its table, in order of entry
  bits,       \* its writer
  wire,       \* the bits of the bytes cue is called with
  cursor,     \* its reader
  slots,      \* the trees in its slots; the first is the root's
  cueStack,   \* its stack, the top first
  backrefMap, \* its table
  result      \* what it returns

jamVars == <<noun, stack, backrefs, bits>>
cueVars == <<cursor, slots, cueStack, backrefMap, result>>
vars == <<phase, jamVars, wire, cueVars>>

Atom(b) == [tag |-> "atom", bits |-> b]
Cell(head, tail) == [tag |-> "cell", head |-> head, tail |-> tail]

Null == [tag |-> "null"]             \* cue returns null
Overflow == [tag |-> "overflow"]     \* and throws a RangeError

Zero == Atom(<< >>)

Met0(n) == IF n = 0 THEN 0 ELSE CHOOSE k \in 1..20 : 2^(k - 1) <= n /\ n < 2^k
LowBits(n, count) == [i \in 1..count |-> (n \div 2^(i - 1)) % 2]
Value(bs) ==
  LET from[i \in 1..Len(bs) + 1] == IF i > Len(bs) THEN 0 ELSE bs[i] + 2 * from[i + 1]
  IN  from[1]
Zeros(count) == [i \in 1..count |-> 0]
Trimmed(bs) == SubSeq(bs, 1, Max({0} \union {i \in DOMAIN bs : bs[i] = 1}))

-----------------------------------------------------------------------------
(* jam                                                                     *)

(* A size in front of its bits: its own size in unary, then all of its     *)
(* bits but the highest.  (a mutant first: the run of zeros is one short)  *)
MatSizeShort(sz) == Zeros(Met0(sz) - 1) \o <<1>> \o LowBits(sz, Met0(sz) - 1)

MatSize(sz) == Zeros(Met0(sz)) \o <<1>> \o LowBits(sz, Met0(sz) - 1)

MatBackref(backref) ==
  IF backref = 0 THEN <<1, 1, 1>>
  ELSE <<1, 1>> \o MatSize(Met0(backref)) \o LowBits(backref, Met0(backref))

MatAtom(atom) ==
  IF atom = Zero THEN <<0, 1>> ELSE <<0>> \o MatSize(Len(atom.bits)) \o atom.bits

Entered(n) == Append(backrefs, [noun |-> n, offset |-> Len(bits)])

Hits(n) == SelectSeq(backrefs, LAMBDA e : e.noun = n)

(* Mutant: writes out whole words, as many bits as cue's words have. *)
IntoWords == bits \o Zeros((64 - (Len(bits) % 64)) % 64)

IntoVec == bits \o Zeros((8 - (Len(bits) % 8)) % 8)

-----------------------------------------------------------------------------
(* cue's reader, at cursor c                                               *)

(* Past the end, the reader's bits are zeros. *)
BitAt(c) == IF c < Len(wire) THEN wire[c + 1] ELSE 0
After(c) == Min({c + 1, Len(wire)})

NextUpToNBits(c, n) == SubSeq(wire, c + 1, Min({c + n, Len(wire)}))

OnesFrom(c) == {i \in c..Len(wire) - 1 : wire[i + 1] = 1}

(* A number's bits from c on, and the cursor after them. *)
GetSize(c) ==
  LET bitsize == Min(OnesFrom(c)) - c
      rest == NextUpToNBits(c + bitsize + 1, bitsize - 1)
  IN  IF bitsize = 0 THEN [size |-> 0, cursor |-> c + 1]
      ELSE [size |-> Value(rest) + 2^(bitsize - 1),
            cursor |-> c + bitsize + 1 + Len(rest)]

Rub(c) ==
  LET sized == GetSize(c)
      taken == NextUpToNBits(sized.cursor, sized.size)
  IN  [bits |-> Trimmed(taken), cursor |-> sized.cursor + Len(taken),
       size |-> sized.size]

(* The noun of a tree: by recursion over its slots, that of a tree which   *)
(* is below itself without end.                                            *)
RECURSIVE FreezeTo(_, _)
FreezeTo(tree, depth) ==
  IF tree.tag = "atom" THEN tree
  ELSE IF depth = 0 THEN Overflow
  ELSE LET head == FreezeTo(slots[tree.head], depth - 1)
           tail == FreezeTo(slots[tree.tail], depth - 1)
       IN  IF Overflow \in {head, tail} THEN Overflow ELSE Cell(head, tail)

Freeze(tree) == FreezeTo(tree, Len(slots))

-----------------------------------------------------------------------------
Init ==
  /\ phase = "jam"
  /\ noun \in Nouns
  /\ stack = <<noun>> /\ backrefs = << >> /\ bits = << >>
  /\ wire = << >> /\ cursor = 0
  /\ slots = <<Zero>> /\ cueStack = << >> /\ backrefMap = << >> /\ result = Null

Jamming ==
  /\ phase = "jam" /\ stack # << >>
  /\ UNCHANGED <<phase, noun, wire, cueVars>>

(* A noun in the table is written as its place, an atom only if the place  *)
(* is a shorter number than the atom is.                                   *)
JamAgain ==
  /\ Jamming
  /\ Hits(Head(stack)) # << >>
  /\ LET n == Head(stack)
         backref == Head(Hits(n)).offset
     IN  bits' = bits \o IF n.tag = "atom" /\ Met0(backref) >= Len(n.bits)
                         THEN MatAtom(n) ELSE MatBackref(backref)
  /\ stack' = Tail(stack)
  /\ UNCHANGED backrefs

JamAtom ==
  /\ Jamming
  /\ Head(stack).tag = "atom" /\ Hits(Head(stack)) = << >>
  /\ backrefs' = Entered(Head(stack))
  /\ bits' = bits \o MatAtom(Head(stack))
  /\ stack' = Tail(stack)

JamCell ==
  /\ Jamming
  /\ Head(stack).tag = "cell" /\ Hits(Head(stack)) = << >>
  /\ backrefs' = Entered(Head(stack))
  /\ bits' = bits \o <<1, 0>>
  /\ stack' = <<Head(stack).head, Head(stack).tail>> \o Tail(stack)

(* jam returns its bytes; cue is called with all of them or all but the    *)
(* last ones.                                                              *)
Send(lost) ==
  /\ phase = "jam" /\ stack = << >>
  /\ 8 * lost <= Len(IntoVec)
  /\ wire' = SubSeq(IntoVec, 1, Len(IntoVec) - 8 * lost)
  /\ phase' = "cue"
  /\ cueStack' = <<[kind |-> "dest", slot |-> 1]>>
  /\ UNCHANGED <<jamVars, cursor, slots, backrefMap, result>>

Cueing(kind) ==
  /\ phase = "cue" /\ cueStack # << >> /\ Head(cueStack).kind = kind
  /\ UNCHANGED <<jamVars, wire>>

(* A cell whose parts have been read is entered once more. *)
CueBackref ==
  /\ Cueing("backref")
  /\ backrefMap' = (Head(cueStack).backref :> slots[Head(cueStack).slot]) @@ backrefMap
  /\ cueStack' = Tail(cueStack)
  /\ UNCHANGED <<phase, cursor, slots, result>>

CueCell ==
  /\ Cueing("dest")
  /\ BitAt(cursor) = 1 /\ BitAt(After(cursor)) = 0
  /\ LET slot == Head(cueStack).slot
         head == Len(slots) + 1
         cell == Cell(head, head + 1)
     IN  /\ slots' = [slots EXCEPT ![slot] = cell] \o <<Zero, Zero>>
         /\ backrefMap' = (cursor :> cell) @@ backrefMap
         /\ cueStack' = <<[kind |-> "dest", slot |-> head],
                          [kind |-> "dest", slot |-> head + 1],
                          [kind |-> "backref", backref |-> cursor, slot |-> slot]>>
                        \o Tail(cueStack)
  /\ cursor' = After(After(cursor))
  /\ UNCHANGED <<phase, result>>

Fails == phase' = "done" /\ result' = Null /\ UNCHANGED <<slots, cueStack, backrefMap, cursor>>

(* A reference: to a place in the table, or cue fails. *)
CueReference ==
  /\ Cueing("dest")
  /\ BitAt(cursor) = 1 /\ BitAt(After(cursor)) = 1
  /\ LET c == cursor + 2
         read == Rub(c)
         backref == Value(read.bits)
     IN  IF OnesFrom(c) # {} /\ read.size <= 64 /\ backref \in DOMAIN backrefMap
         THEN /\ slots' = [slots EXCEPT ![Head(cueStack).slot] = backrefMap[backref]]
              /\ cueStack' = Tail(cueStack)
              /\ cursor' = read.cursor
              /\ UNCHANGED <<phase, backrefMap, result>>
         ELSE Fails

CueAtom ==
  /\ Cueing("dest")
  /\ BitAt(cursor) = 0
  /\ LET c == After(cursor)
         read == Rub(c)
     IN  IF OnesFrom(c) # {}
         THEN /\ slots' = [slots EXCEPT ![Head(cueStack).slot] = Atom(read.bits)]
              /\ backrefMap' = (cursor :> Atom(read.bits)) @@ backrefMap
              /\ cueStack' = Tail(cueStack)
              /\ cursor' = read.cursor
              /\ UNCHANGED <<phase, result>>
         ELSE Fails

CueReturn ==
  /\ phase = "cue" /\ cueStack = << >>
  /\ phase' = "done"
  /\ result' = Freeze(slots[1])
  /\ UNCHANGED <<jamVars, wire, cursor, slots, cueStack, backrefMap>>

Next ==
  \/ JamAgain \/ JamAtom \/ JamCell
  \/ \E lost \in 0..MaxLost : Send(lost)
  \/ CueBackref \/ CueCell \/ CueReference \/ CueAtom \/ CueReturn

Spec == Init /\ [][Next]_vars

-----------------------------------------------------------------------------
(* Properties.                                                             *)

TypeInvariant ==
  /\ phase \in {"jam", "cue", "done"}
  /\ \A n \in Range(stack) : n.tag \in {"atom", "cell"}
  /\ \A e \in Range(backrefs) : e.offset \in 0..Len(bits) - 1
  /\ bits \in Seq({0, 1})
  /\ Len(wire) % 8 = 0
  /\ cursor \in 0..Len(wire)
  /\ \A i \in DOMAIN slots : slots[i].tag = "cell" => slots[i].tail \in DOMAIN slots

Whole == phase # "jam" /\ wire = IntoVec

(* CueInvertsJam: what cue reads from all of jam's bytes is the noun jam   *)
(* was given, whatever is written as a reference and wherever it points.   *)
CueInvertsJam == Whole /\ phase = "done" => result = noun

(* LossShows: no byte of a jam is to spare.  Without its last ones cue may *)
(* fail or read another noun, never the one that was written.              *)
LossShows == phase = "done" /\ ~Whole => result # noun
=============================================================================
