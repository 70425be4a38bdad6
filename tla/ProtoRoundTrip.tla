---------------------------- MODULE ProtoRoundTrip ----------------------------
(***************************************************************************)
(* A message written by one peer and read by another (the encode and       *)
(* decode of src/grpc/gen).  The writer may be newer: it then puts one     *)
(* field more among those this code knows.  The wire may lose its end.     *)
(***************************************************************************)
EXTENDS ProtoWire

CONSTANTS Samples,   \* pairs of a type (package and name) and a message of it
          MaxCut     \* bound on the units lost

VARIABLES
  phase,    \* "write", "wire", "cut", "read" or "lost"
  messageType,
  message,
  wire,
  read      \* what decode returns or that it throws

vars == <<phase, messageType, message, wire, read>>

Fields == Messages[messageType[1]][messageType[2]]

(* Fields of a newer writer, encoded: of a new number (above all there     *)
(* are) in each wire type it may have, or the first one with a new type.   *)
Strangers ==
  {<<8 * 31, 7>>, <<8 * 31 + 1, 7>>, <<8 * 31 + 2, 2, 8, 9>>,
   <<8 * 31 + 2, 0>>, <<8 * 31 + 5, 7>>}
    \union {IF Fields[i].tag % 8 = 0 THEN <<Fields[i].tag + 2, 1, 9>>
            ELSE <<Fields[i].tag - (Fields[i].tag % 8), 9>> :
              i \in DOMAIN Fields \intersect {1}}

Init ==
  /\ phase = "write"
  /\ \E sample \in Samples : messageType = sample[1] /\ message = sample[2]
  /\ wire = << >>
  /\ read = Failure

Write ==
  /\ phase = "write" /\ phase' = "wire"
  /\ wire' = Encode(Fields, message)
  /\ UNCHANGED <<messageType, message, read>>

(* A stranger among the fields of the message. *)
WriteNewer(place, stranger) ==
  /\ phase = "write" /\ phase' = "wire"
  /\ wire' = FlattenSeq(InsertAt(EncodeFields(Fields, message), place, stranger))
  /\ UNCHANGED <<messageType, message, read>>

Cut(count) ==
  /\ phase = "wire" /\ phase' = "cut"
  /\ count <= Len(wire)
  /\ wire' = SubSeq(wire, 1, Len(wire) - count)
  /\ UNCHANGED <<messageType, message, read>>

Read ==
  /\ \/ phase = "wire" /\ phase' = "read"
     \/ phase = "cut" /\ phase' = "lost"
  /\ read' = Decode(Fields, wire)
  /\ UNCHANGED <<messageType, message, wire>>

Next ==
  \/ Write
  \/ \E place \in 1..Len(Fields) + 1, stranger \in Strangers :
        WriteNewer(place, stranger)
  \/ \E count \in 1..MaxCut : Cut(count)
  \/ Read

Spec == Init /\ [][Next]_vars

-----------------------------------------------------------------------------
IsMessageOf(fields, m) ==
  /\ DOMAIN m = Properties(fields)
  /\ \A i \in DOMAIN fields :
        fields[i].presence # "repeated" => Len(m[fields[i].property]) <= 1

TypeInvariant ==
  /\ phase \in {"write", "wire", "cut", "read", "lost"}
  /\ IsMessageOf(Fields, message)
  /\ ~read.failed => IsMessageOf(Fields, read.message)

(* What one peer writes, the other reads, whatever a newer writer puts     *)
(* among the fields (encode and decode of every message, src/grpc/gen).    *)
WireRoundTrip == phase = "read" => read = At(Len(wire), message)

(* A message that has lost its end is never read as the whole one: decode  *)
(* throws, or something is missing from what it returns; unless what was   *)
(* lost is a stranger.                                                     *)
CutShows ==
  phase = "lost" /\ ~read.failed /\ read.message = message =>
    Len(wire) >= Len(Encode(Fields, message))

(* The plain-object forms of a message say what the message says: JSON and *)
(* back, and a copy of the properties that are set, are the message.       *)
FormsAgree ==
  phase = "write" =>
    LET set == {p \in Properties(Fields) : message[p] # << >>}
    IN  /\ FromJSON(Fields, ToJSON(Fields, message)) = message
        /\ FromPartial(Fields, [p \in set |-> message[p]]) = message
=============================================================================
