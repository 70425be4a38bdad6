------------------------------- MODULE ProtoWire -------------------------------
(***************************************************************************)
(* The functions ts-proto generates for every message: encode, decode,     *)
(* toJSON, fromJSON and fromPartial.  They are the same for all messages   *)
(* but for the fields, so they are written once, over the fields of a      *)
(* message (ProtoCommon1, ProtoCommon2, ProtoPublic2).                     *)
(*                                                                         *)
(* A message is a function from its properties to sequences: none or one   *)
(* value (undefined is none), or the elements of a repeated field.  The    *)
(* value of a oneof names its case.  Numbers are numbers (the decimal      *)
(* strings of 64-bit ones too), strings and bytes are sequences.  On the   *)
(* wire, a tag, a number, a length and a character are one unit each.  The *)
(* reader and writer are @bufbuild/protobuf, which is not in this          *)
(* repository.                                                             *)
(***************************************************************************)
EXTENDS SequencesExt, ProtoFields

-----------------------------------------------------------------------------
(* The messages of the three packages under src/grpc/gen.                  *)

Common1 == INSTANCE ProtoCommon1
Common2 == INSTANCE ProtoCommon2
Public2 == INSTANCE ProtoPublic2

(* The fields of every type, by package and name. *)
Messages ==
  [common1 |-> Common1!Messages, common2 |-> Common2!Messages,
   public2 |-> Public2!Messages]

Bases ==
  [p \in DOMAIN Messages |->
     [n \in DOMAIN Messages[p] |-> CreateBase(Messages[p][n])]]

FieldsOf(type) == Messages[type.package][type.name]
BaseOf(type) == Bases[type.package][type.name]

-----------------------------------------------------------------------------
(* What a message holds.                                                   *)

IsMessage(type) == type.kind = "message"
IsText(type) == type.kind \in {"string", "bytes"}

(* What a message, or a partial one, holds of a field. *)
Held(f, message) ==
  IF f.property \notin DOMAIN message THEN << >>
  ELSE LET values == message[f.property]
       IN  IF f.presence # "case" THEN values
           ELSE IF values # << >> /\ values[1].case = f.name THEN <<values[1].content>>
           ELSE << >>

(* A message with a value put where the field is kept. *)
Put(f, message, value) ==
  [message EXCEPT ![f.property] =
     IF f.presence = "repeated" THEN Append(@, value)
     ELSE IF f.presence = "case" THEN <<[case |-> f.name, content |-> value]>>
     ELSE <<value>>]

IsZero(f, message) == Held(f, message) = <<Zero(f.type)>>

-----------------------------------------------------------------------------
(* encode                                                                  *)

(* Mutant: tests a case as if it were a plain field. *)
WrittenIfTruthy(f, message) ==
  IF f.presence \in {"plain", "case"} /\ ~IsMessage(f.type) /\ IsZero(f, message)
  THEN << >>
  ELSE Held(f, message)

Written(f, message) ==
  IF f.presence = "plain" /\ IsZero(f, message) THEN << >> ELSE Held(f, message)

RECURSIVE Encode(_, _)
EncodeValue(type, value) ==
  IF IsMessage(type)
  THEN LET part == Encode(FieldsOf(type), value) IN <<Len(part)>> \o part
  ELSE IF IsText(type) THEN <<Len(value)>> \o value
  ELSE <<value>>

EncodeField(f, message) ==
  LET values == Written(f, message)
  IN  FlattenSeq([i \in DOMAIN values |->
                    <<f.tag>> \o EncodeValue(f.type, values[i])])

EncodeFields(fields, message) ==
  [i \in DOMAIN fields |-> EncodeField(fields[i], message)]

Encode(fields, message) == FlattenSeq(EncodeFields(fields, message))

-----------------------------------------------------------------------------
(* decode: a cursor on a wire, and what has been read so far.              *)

Failure == [failed |-> TRUE]
At(pos, message) == [failed |-> FALSE, pos |-> pos, message |-> message]

(* Mutant: a number past the last byte is read, as 0. *)
UncheckedBounds(wire, pos) == TRUE

(* The reader throws when it has gone past its last byte. *)
InBounds(wire, pos) == pos <= Len(wire)

Unit(wire, pos) == IF pos < Len(wire) THEN wire[pos + 1] ELSE 0

(* Mutant: knows a field by its number alone. *)
KnownByNumber(fields, tag) ==
  SelectSeq(fields, LAMBDA f : f.tag \div 8 = tag \div 8)

Known(fields, tag) == SelectSeq(fields, LAMBDA f : f.tag = tag)

(* Where the reader is after a field it does not know. *)
SkipTo(wire, pos, wireType) ==
  IF wireType = 2 THEN pos + 1 + Unit(wire, pos) ELSE pos + 1

RECURSIVE DecodeFrom(_, _, _, _, _)
DecodeValue(type, wire, pos) ==
  LET unit == Unit(wire, pos)
      end == pos + 1 + unit
  IN  IF ~InBounds(wire, pos + 1) THEN Failure
      ELSE IF IsMessage(type)
           THEN DecodeFrom(FieldsOf(type), wire, pos + 1, end, BaseOf(type))
      ELSE IF ~IsText(type) THEN At(pos + 1, unit)
      ELSE IF end <= Len(wire) THEN At(end, SubSeq(wire, pos + 2, end))
      ELSE Failure

(* A tag of no field ends the message if it is 0 or closes a group, and is *)
(* skipped with what follows otherwise.  skip throws at wire types 6 and   *)
(* 7, and here at 3, since no peer writes groups.                          *)
DecodeFrom(fields, wire, pos, end, message) ==
  LET tag == Unit(wire, pos)
      known == Known(fields, tag)
  IN  IF pos >= end THEN At(pos, message)
      ELSE IF ~InBounds(wire, pos + 1) THEN Failure
      ELSE IF known # << >>
           THEN LET read == DecodeValue(known[1].type, wire, pos + 1)
                IN  IF read.failed THEN Failure
                    ELSE DecodeFrom(fields, wire, read.pos, end,
                                    Put(known[1], message, read.message))
      ELSE IF tag % 8 = 4 \/ tag = 0 THEN At(pos + 1, message)
      ELSE LET next == SkipTo(wire, pos + 1, tag % 8)
           IN  IF tag % 8 \in {3, 6, 7} \/ ~InBounds(wire, next) THEN Failure
               ELSE DecodeFrom(fields, wire, next, end, message)

Decode(fields, wire) == DecodeFrom(fields, wire, 0, Len(wire), CreateBase(fields))

-----------------------------------------------------------------------------
(* Plain objects: JSON, whose objects are functions from the names they    *)
(* have, and partial messages.                                             *)

(* A code in JSON and back: one that is not known is UNRECOGNIZED.         *)
CodeJSON(type, code) == IF code \in 0..type.count - 1 THEN code ELSE -1

(* A message from the values its fields are given: of the cases of a       *)
(* oneof, the first one that is set; a base's value where there is none.   *)
Assembled(fields, given) ==
  LET Contents(i) ==
        IF fields[i].presence # "case" THEN given[i]
        ELSE <<[case |-> fields[i].name, content |-> given[i][1]]>>
  IN  [p \in Properties(fields) |->
         LET set == {i \in DOMAIN fields : fields[i].property = p /\ given[i] # << >>}
         IN  IF set = {} THEN CreateBase(fields)[p] ELSE Contents(Min(set))]

(* Mutant: leaves out what is zero, a case too. *)
InJSONIfTruthy(f, message) == WrittenIfTruthy(f, message) # << >>

InJSON(f, message) == Written(f, message) # << >>

RECURSIVE ToJSON(_, _)
ToJSON(fields, message) ==
  LET present == SelectSeq(fields, LAMBDA f : InJSON(f, message))
      Value(type, v) ==
        IF IsMessage(type) THEN ToJSON(FieldsOf(type), v)
        ELSE IF type.kind = "enum" THEN CodeJSON(type, v)
        ELSE v
  IN  [name \in {present[i].name : i \in DOMAIN present} |->
         LET f == SelectSeq(present, LAMBDA g : g.name = name)[1]
             values == Held(f, message)
         IN  [i \in DOMAIN values |-> Value(f.type, values[i])]]

RECURSIVE FromJSON(_, _)
FromJSON(fields, object) ==
  LET Value(type, v) ==
        IF IsMessage(type) THEN FromJSON(FieldsOf(type), v)
        ELSE IF type.kind = "enum" THEN CodeJSON(type, v)
        ELSE v
      Values(f) ==
        IF f.name \notin DOMAIN object THEN << >>
        ELSE [i \in DOMAIN object[f.name] |-> Value(f.type, object[f.name][i])]
  IN  Assembled(fields, [i \in DOMAIN fields |-> Values(fields[i])])

RECURSIVE FromPartial(_, _)
FromPartial(fields, object) ==
  LET Value(type, v) == IF IsMessage(type) THEN FromPartial(FieldsOf(type), v) ELSE v
      Values(f) ==
        LET held == Held(f, object) IN [i \in DOMAIN held |-> Value(f.type, held[i])]
  IN  Assembled(fields, [i \in DOMAIN fields |-> Values(fields[i])])
=============================================================================
