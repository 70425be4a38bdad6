------------------------------ MODULE BeltCalls ------------------------------
(***************************************************************************)
(* Calls of the functions of Belt and of the field built on it, with the   *)
(* loops of bpow and bpegcd step by step.                                  *)
(*                                                                         *)
(* The Cheetah curve lies over the polynomials of six belts, modulo        *)
(* X^6 - 7 (src/crypto/cheetah.ts); inverting one takes the division of    *)
(* polynomials (src/crypto/bpoly.ts).  A polynomial is the sequence of its *)
(* coefficients, the constant first; belts are added and multiplied modulo *)
(* Prime, as the functions of Belt do.                                     *)
(***************************************************************************)
EXTENDS Belt, Sequences

CONSTANTS
  Lefts, Rights,   \* the arguments tried, subsets of Based
  MaxExponent      \* bound on the exponents among them

-----------------------------------------------------------------------------
(* Six belts. *)

At(a, i) == IF i + 1 \in DOMAIN a THEN a[i + 1] ELSE 0
Inverses == [a \in Based \ {0} |-> CHOOSE i \in Based : (a * i) % Prime = 1]

F6Add(f, g) == [i \in 1..Len(f) |-> (f[i] + g[i]) % Prime]
F6Sub(f, g) == [i \in 1..Len(f) |-> (f[i] - g[i]) % Prime]
F6Scal(s, f) == [i \in 1..Len(f) |-> (s * f[i]) % Prime]

(* Karatsuba's product of two polynomials of three. *)
Karat3(a, b) ==
  LET m == [i \in 1..3 |-> (a[i] * b[i]) % Prime]
      crossed(i, j) == (a[i] + a[j]) * (b[i] + b[j]) - (m[i] + m[j])
  IN  <<m[1], crossed(1, 2) % Prime, (crossed(1, 3) + m[2]) % Prime,
        crossed(2, 3) % Prime, m[3]>>

F6Mul(f, g) ==
  LET f0 == SubSeq(f, 1, 3)
      f1 == SubSeq(f, 4, 6)
      g0 == SubSeq(g, 1, 3)
      g1 == SubSeq(g, 4, 6)
      f0g0 == Karat3(f0, g0)
      f1g1 == Karat3(f1, g1)
      cross == F6Sub(Karat3(F6Add(f0, f1), F6Add(g0, g1)), F6Add(f0g0, f1g1))
  IN  <<(f0g0[1] + 7 * (cross[4] + f1g1[1])) % Prime,
        (f0g0[2] + 7 * (cross[5] + f1g1[2])) % Prime,
        (f0g0[3] + 7 * f1g1[3]) % Prime,
        (f0g0[4] + cross[1] + 7 * f1g1[4]) % Prime,
        (f0g0[5] + cross[2] + 7 * f1g1[5]) % Prime,
        cross[3]>>

-----------------------------------------------------------------------------
IsZero(a) == \A i \in DOMAIN a : a[i] = 0

Degree(a) ==
  IF IsZero(a) THEN 0
  ELSE CHOOSE i \in 0..Len(a) - 1 : At(a, i) # 0 /\ \A j \in i + 1..Len(a) - 1 : At(a, j) = 0

BpSub(a, b) ==
  [i \in 1..(IF Len(a) > Len(b) THEN Len(a) ELSE Len(b)) |-> (At(a, i - 1) - At(b, i - 1)) % Prime]

BpMul(a, b) ==
  LET sum[n \in 0..Len(a) + Len(b), i \in 0..Len(a)] ==
        IF i = 0 THEN 0 ELSE (sum[n, i - 1] + At(a, i - 1) * At(b, n - (i - 1))) % Prime
  IN  [n \in 1..Len(a) + Len(b) |-> sum[n - 1, Len(a)]]

(* Long division: a step takes the highest coefficient away, and counts    *)
(* the degree of what is left down by one, be the next one zero or not.    *)
BpDvr(a, b) ==
  LET degB == Degree(b)
      divide(s) ==
        LET coeff == (At(s.r, s.degR) * Inverses[At(b, degB)]) % Prime
            shift == s.degR - degB
        IN  [q |-> [s.q EXCEPT ![shift + 1] = coeff],
             r |-> [j \in 1..Len(s.r) |->
                      IF j - 1 \in shift..s.degR
                      THEN (s.r[j] - coeff * At(b, j - 1 - shift)) % Prime
                      ELSE s.r[j]],
             degR |-> IF s.degR = 0 THEN 0 ELSE s.degR - 1]
      steps == Degree(a) - degB + 1
      after[n \in 0..7] ==
        IF n = 0 THEN [q |-> [i \in 1..7 |-> 0], r |-> a, degR |-> Degree(a)]
        ELSE divide(after[n - 1])
      end == after[IF IsZero(a) \/ steps < 0 THEN 0 ELSE steps]
  IN  [quotient |-> end.q, rest |-> SubSeq(end.r, 1, end.degR + 1)]

(* Euclid's algorithm, with the factor u of the first polynomial alone.    *)
EgcdBegin(f) ==
  [aa |-> f, bb |-> <<Prime - 7, 0, 0, 0, 0, 0, 1>>, m1u |-> <<0>>, m2u |-> <<1>>]

EgcdStep(s) ==
  LET division == BpDvr(s.aa, s.bb)
      q == SubSeq(division.quotient, 1, Degree(s.aa) - Degree(s.bb) + 1)
  IN  [aa |-> s.bb, bb |-> division.rest,
       m1u |-> BpSub(s.m2u, BpMul(q, s.m1u)), m2u |-> s.m1u]

(* The gcd is a constant, but not always 1. *)
EgcdInverse(s) == F6Scal(Inverses[At(s.aa, 0)], [i \in 1..6 |-> At(s.m2u, i - 1)])

-----------------------------------------------------------------------------
(* The calls. *)

VARIABLES
  left, right,
  called,    \* the function that has returned, or whose loop runs, or "none"
  loop,      \* the variables of that loop
  answer

vars == <<left, right, called, loop, answer>>

NoLoop == << >>

(* Six belts made of two, with zeros where those are zero, equal or opposite. *)
SixOf(a, b) == <<a, b, (a * b) % Prime, (b - a) % Prime, (a + b) % Prime, a>>

Init ==
  /\ left \in Lefts /\ right \in Rights
  /\ called = "none" /\ loop = NoLoop /\ answer = 0

Returns(function, value) ==
  /\ called' = function /\ answer' = value /\ loop' = NoLoop
  /\ UNCHANGED <<left, right>>

Call ==
  /\ called = "none"
  /\ \/ Returns("badd", BAdd(left, right))
     \/ Returns("bsub", BSub(left, right))
     \/ Returns("bneg", BNeg(left))
     \/ Returns("bmul", BMul(left, right))
     \/ Returns("montReduction", MontReduction(left * U64 + right))
     \/ Returns("montiply", Montiply(left, right))
     \/ Returns("montify", Montify(left))
     \/ Returns("binv", BInv(left))
     \/ right = 0 /\ Returns("bpow", 1)      \* any belt to the power of 0
     \/ Returns("f6Mul", F6Mul(SixOf(left, right), SixOf(right, left)))

Begins(function, first) ==
  /\ called = "none"
  /\ called' = function /\ loop' = first
  /\ UNCHANGED <<left, right, answer>>

BeginPow ==
  /\ right \in 1..MaxExponent
  /\ Begins("bpow's loop", [base |-> left, exponent |-> right, factor |-> 1])

PowStep ==
  /\ called = "bpow's loop" /\ loop.exponent > 1
  /\ loop' = [base |-> Reduce(loop.base * loop.base),
              exponent |-> loop.exponent \div 2,
              factor |-> IF loop.exponent % 2 = 0 THEN loop.factor
                         ELSE Reduce(loop.factor * loop.base)]
  /\ UNCHANGED <<left, right, called, answer>>

PowEnd ==
  /\ called = "bpow's loop" /\ loop.exponent <= 1
  /\ Returns("bpow", Reduce(loop.factor * loop.base))

BeginInverse ==
  /\ ~IsZero(SixOf(left, right))      \* f6Inv answers null
  /\ Begins("bpegcd's loop", EgcdBegin(SixOf(left, right)))

InverseStep ==
  /\ called = "bpegcd's loop" /\ ~IsZero(loop.bb)
  /\ loop' = EgcdStep(loop)
  /\ UNCHANGED <<left, right, called, answer>>

InverseEnd ==
  /\ called = "bpegcd's loop" /\ IsZero(loop.bb)
  /\ Returns("f6Inv", EgcdInverse(loop))

Next ==
  \/ Call
  \/ BeginPow \/ PowStep \/ PowEnd
  \/ BeginInverse \/ InverseStep \/ InverseEnd

Spec == Init /\ [][Next]_vars

-----------------------------------------------------------------------------
TypeInvariant ==
  /\ {left, right} \subseteq Based
  /\ called \in {"f6Mul", "f6Inv"} => answer \in [1..6 -> Based]
  /\ called \notin {"f6Mul", "f6Inv"} => answer \in Based

Power(a, n) ==
  LET power[i \in 0..n] == IF i = 0 THEN 1 ELSE (a * power[i - 1]) % Prime
  IN  power[n]

Congruent(a, b) == a % Prime = b % Prime

(* The product of two polynomials modulo X^6 - 7, coefficient by coefficient. *)
ProductModulo(f, g) ==
  LET part(n, i) ==
        f[i + 1] * (IF i > n THEN 7 * g[n + 6 - i + 1] ELSE g[n - i + 1]) % Prime
  IN  [n \in 1..6 |-> (part(n - 1, 0) + part(n - 1, 1) + part(n - 1, 2) + part(n - 1, 3)
                        + part(n - 1, 4) + part(n - 1, 5)) % Prime]

Modulo(f) == [n \in 1..6 |-> (At(f, n - 1) + 7 * At(f, n + 5)) % Prime]
One == <<1, 0, 0, 0, 0, 0>>

(* Each function of core/belt.ts returns what arithmetic modulo the prime  *)
(* says, and the one belt of its class that is based: hashes compare them  *)
(* by equality.  bpow's loop keeps what it has left to multiply, bpegcd's  *)
(* the factor that makes its rest from the first polynomial.  f6Mul and    *)
(* f6Inv of crypto/cheetah.ts multiply and invert modulo X^6 - 7.          *)
ArithmeticModuloPrime ==
  /\ called = "badd" => Congruent(answer, left + right)
  /\ called = "bsub" => Congruent(answer, left - right)
  /\ called = "bneg" => Congruent(answer, -left)
  /\ called = "bmul" => Congruent(answer, left * right)
  /\ called = "montReduction" => Congruent(answer * U64, left * U64 + right)
  /\ called = "montiply" => Congruent(answer * U64, left * right)
  /\ called = "montify" => Congruent(answer, left * U64)
  /\ called = "binv" => Congruent(answer * left, IF left = 0 THEN 0 ELSE 1)
  /\ called = "bpow's loop" =>
       Congruent(loop.factor * Power(loop.base, loop.exponent), Power(left, right))
  /\ called = "bpow" => answer = Power(left, right)
  /\ called = "f6Mul" => answer = ProductModulo(SixOf(left, right), SixOf(right, left))
  /\ called = "bpegcd's loop" =>
       ProductModulo(SixOf(left, right), Modulo(loop.m2u)) = Modulo(loop.aa)
  /\ called = "f6Inv" => ProductModulo(SixOf(left, right), answer) = One
  /\ TypeInvariant
=============================================================================
