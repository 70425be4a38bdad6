------------------------------- MODULE Cheetah --------------------------------
(***************************************************************************)
(* Points of the Cheetah curve y^2 = x^3 + x + b (src/crypto/cheetah.ts),  *)
(* with a prime field for the field of six belts of BeltCalls: the         *)
(* formulas of cheetah.ts, which do not know b, are taken over as they     *)
(* are, so that they also say what becomes of a pair not on the curve.     *)
(* Null is what a division by zero gives.                                  *)
(***************************************************************************)
EXTENDS Integers, SequencesExt

CONSTANTS
  FieldPrime, Order,    \* the order of A_GEN, a prime
  A_GEN,
  ByteBase, Bits        \* a scalar is two bytes, of Bits bits together: 32 bytes of 256

Field == 0..FieldPrime - 1
Points == [x : Field, y : Field, inf : BOOLEAN]
A_ID == [x |-> 0, y |-> 1, inf |-> TRUE]
Null == [null |-> TRUE]

FieldInverse == [a \in Field \ {0} |-> CHOOSE i \in Field : (a * i) % FieldPrime = 1]

(* The third point of the line of that slope through p, mirrored. *)
OnLine(p, slope, xs) ==
  LET xOut == (slope * slope - xs) % FieldPrime
  IN  [x |-> xOut, y |-> (slope * (p.x - xOut) - p.y) % FieldPrime, inf |-> FALSE]

ChDoubleUnsafe(p) ==
  IF (2 * p.y) % FieldPrime = 0 THEN Null
  ELSE OnLine(p, (3 * p.x * p.x + 1) * FieldInverse[(2 * p.y) % FieldPrime], 2 * p.x)

ChDouble(p) == IF p.inf \/ p.y = 0 THEN A_ID ELSE ChDoubleUnsafe(p)

ChAddUnsafe(p, q) ==
  IF p.x = q.x THEN Null
  ELSE OnLine(p, (p.y - q.y) * FieldInverse[(p.x - q.x) % FieldPrime], p.x + q.x)

ChNeg(p) == [p EXCEPT !.y = -p.y % FieldPrime]

ChAdd(p, q) ==
  IF p.inf THEN q
  ELSE IF q.inf THEN p
  ELSE IF p = ChNeg(q) THEN A_ID
  ELSE IF p = q THEN ChDouble(p)
  ELSE ChAddUnsafe(p, q)

(* Doubles and adds, the highest of the bits of n first. *)
ChScalBig(n, p) ==
  LET step[i \in 0..Bits] ==
        IF i = 0 THEN A_ID
        ELSE LET acc == step[i - 1]
                 doubled == IF acc = Null THEN Null ELSE ChDouble(acc)
             IN  IF (n \div 2^(Bits - i)) % 2 = 0 \/ doubled = Null THEN doubled
                 ELSE ChAdd(doubled, p)
  IN  step[Bits]

-----------------------------------------------------------------------------
(* Scalars (src/core/u256.ts): any 32 bytes, not only those below Order.   *)
Scalars == 0..2^Bits - 1
ToBeBytes(n) == <<n \div ByteBase, n % ByteBase>>
ToLeBytes(n) == Reverse(ToBeBytes(n))
FromBeBytes(bytes) == bytes[1] * ByteBase + bytes[2]
FromLeBytes(bytes) == FromBeBytes(Reverse(bytes))
AddMod(n, m) == (n + m) % Order
MulMod(n, m) == (n * m) % Order

(* 97 bytes, which do not say whether the point is the one at infinity. *)
PublicKeyToBeBytes(p) == <<p.y, p.x>>
PublicKeyFromBeBytes(bytes) == [x |-> bytes[2], y |-> bytes[1], inf |-> FALSE]
=============================================================================
