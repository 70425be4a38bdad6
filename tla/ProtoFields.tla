------------------------------ MODULE ProtoFields ------------------------------
(***************************************************************************)
(* What a field of a protobuf message is: its number, the property of the  *)
(* message object that holds it, its type, and when it is written.         *)
(***************************************************************************)
EXTENDS Integers, Sequences

Type(kind, wireType) == [kind |-> kind, wireType |-> wireType]

Uint64 == Type("uint64", 0)
Int64 == Type("int64", 0)
Uint32 == Type("uint32", 0)
Bool == Type("bool", 0)
Double == Type("double", 1)
String == Type("string", 2)
Bytes == Type("bytes", 2)

(* The codes below a number; another one is UNRECOGNIZED in JSON.          *)
Enum(count) == [kind |-> "enum", wireType |-> 0, count |-> count]
ErrorCode == Enum(12)
PeerReqResGeneration == Enum(3)

Zero(type) == IF type.wireType = 2 THEN << >> ELSE 0

(* The message each createBase function returns: what decode starts from.  *)
(* A message is a function from its properties to sequences: none or one   *)
(* value (undefined is none), or the elements of a repeated field.         *)
Properties(fields) == {fields[i].property : i \in DOMAIN fields}

CreateBase(fields) ==
  [p \in Properties(fields) |->
     LET plain == SelectSeq(fields, LAMBDA f : f.name = p /\ f.presence = "plain")
     IN  [i \in DOMAIN plain |-> Zero(plain[i].type)]]

(* A message of a type of one of the packages (ProtoWire has them all). *)
Message(package, name) ==
  [kind |-> "message", wireType |-> 2, package |-> package, name |-> name]

Field(presence, property, num, name, type) ==
  [presence |-> presence, property |-> property, name |-> name, type |-> type,
   tag |-> 8 * num + type.wireType]

(* Written unless it is its type's zero. *)
Plain(num, name, type) == Field("plain", name, num, name, type)

(* Written unless it is undefined. *)
Optional(num, name, type) == Field("optional", name, num, name, type)

(* Written once per element. *)
Repeated(num, name, type) == Field("repeated", name, num, name, type)

(* One of the alternatives of a property; written if it is the one there. *)
Case(property, num, name, type) == Field("case", property, num, name, type)
=============================================================================
