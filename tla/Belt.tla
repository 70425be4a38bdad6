--------------------------------- MODULE Belt ---------------------------------
(***************************************************************************)
(* Arithmetic modulo the Goldilocks prime (src/core/belt.ts), for a half   *)
(* word W: in the code W is 2^32, U64 is 2^64, and a belt that is based is *)
(* below Prime.  Nothing in the functions depends on W but what is named   *)
(* after it, so the prime 241, of half words of four bits, stands for them *)
(* all in TLC.  A BigInt does not overflow: where the code cuts to 64 bits *)
(* with u64, a remainder is taken here.                                    *)
(***************************************************************************)
EXTENDS Integers

CONSTANTS HalfBits,   \* bits of half a word: 32
          W

ASSUME BeltAssumption ==
  /\ HalfBits \in Nat /\ HalfBits > 1
  /\ W \in Nat /\ W > 1 /\ W = 2^HalfBits

U64 == W * W
Prime == U64 - W + 1
R2 == (U64 * U64) % Prime
Based == 0..Prime - 1

BSub(a, b) ==
  LET r == a - b
  IN  IF r < 0 THEN (r + U64 - (W - 1)) % U64 ELSE r % U64

(* Mutant: forgets that a word past its end is W - 1 more than the prime. *)
BAddUncarried(a, b) == (a - ((Prime - b) % U64)) % U64

BAdd(a, b) == BSub(a, (Prime - b) % U64)

BNeg(a) == IF a # 0 THEN (Prime - a) % U64 ELSE 0

Reduce159(low, mid, high) ==
  LET diff == low - high
      low2 == IF diff < 0 THEN (diff + Prime) % U64 ELSE diff
      product == mid * W - (mid * W) \div W
      sum == (product + low2) % U64
      result == IF sum < product THEN (sum + U64 - Prime) % U64 ELSE sum
  IN  IF result >= Prime THEN result - Prime ELSE result

Reduce(n) == Reduce159(n % U64, (n \div U64) % W, (n \div (U64 * W)) % U64)

BMul(a, b) == Reduce(a * b)

(* A number divided by U64, modulo the prime. *)
MontReduction(a) ==
  LET x0 == a % W
      x1 == (a \div W) % W
      x2 == a \div U64
      c == (x0 + x1) * W
      f == c \div U64
      d == c - (x1 + f * Prime)
  IN  IF x2 >= d THEN (x2 - d) % U64 ELSE (x2 + Prime - d) % U64

Montiply(a, b) == MontReduction(a * b)
Montify(a) == MontReduction(a * R2)

(* Squared so many times. *)
MontwoPow(a, b) ==
  LET squared[i \in 0..b] == IF i = 0 THEN a ELSE Montiply(squared[i - 1], squared[i - 1])
  IN  squared[b]

(* To the power of Prime - 2.  The code goes from y to y31 by an addition  *)
(* chain that squares and joins, here one bit at a time.                   *)
BInv(a) ==
  LET y == Montify(a)
      ones[n \in 1..HalfBits - 1] ==
        IF n = 1 THEN y ELSE Montiply(y, Montiply(ones[n - 1], ones[n - 1]))
      y31 == ones[HalfBits - 1]
      dup == Montiply(MontwoPow(y31, HalfBits), y31)
  IN  MontReduction(Montiply(y, Montiply(dup, dup)))
=============================================================================
