------------------------------ MODULE BeltProofs ------------------------------
(***************************************************************************)
(* Theorems about Belt for every half word W: addition, subtraction,       *)
(* negation, reduction and multiplication are those modulo the prime, and  *)
(* multiplication in Montgomery form agrees with them.                     *)
(***************************************************************************)
EXTENDS Belt, TLAPS

(* A number below the modulus is its own remainder. *)
LEMMA SmallRemainder ==
  ASSUME NEW m \in Nat \ {0}, NEW x \in 0..m - 1
  PROVE  x % m = x
  BY Z3

(* The prime lies between half a word and a word. *)
LEMMA PrimeInWord ==
  /\ W \in Int /\ U64 \in Int /\ Prime \in Int
  /\ W > 1 /\ Prime > W /\ U64 = Prime + W - 1
<1>1. W \in Int /\ W > 1
  BY BeltAssumption
<1>2. W * W \in Int /\ W * W >= 2 * W
  BY <1>1, Z3
<1> QED
  BY <1>1, <1>2 DEF U64, Prime

(* What is taken away modulo a word leaves a number of one word. *)
LEMMA Division ==
  ASSUME NEW m \in Nat \ {0}, NEW x \in Nat
  PROVE  /\ x \div m \in Nat /\ x % m \in 0..m - 1
         /\ x = (x \div m) * m + (x % m)
  BY Z3

(* A quotient is what leaves a remainder below the divisor. *)
LEMMA QuotientUnique ==
  ASSUME NEW m \in Nat \ {0}, NEW q \in Nat, NEW r \in 0..m - 1
  PROVE  (q * m + r) \div m = q /\ (q * m + r) % m = r
<1> DEFINE x == q * m + r
<1>1. x \in Nat
  BY Z3
<1>2. x \div m \in Nat /\ x % m \in 0..m - 1 /\ x = (x \div m) * m + (x % m)
  BY <1>1, Division
<1>3. x \div m = q
  <2>1. CASE x \div m >= q + 1
    <3>1. (x \div m) * m >= (q + 1) * m
      BY <1>2, <2>1, Z3
    <3>2. (q + 1) * m = q * m + m
      BY Z3
    <3> QED
      BY <3>1, <3>2, <1>2, Z3
  <2>2. CASE q >= (x \div m) + 1
    <3>1. q * m >= ((x \div m) + 1) * m
      BY <1>2, <2>2, Z3
    <3>2. ((x \div m) + 1) * m = (x \div m) * m + m
      BY <1>2, Z3
    <3> QED
      BY <3>1, <3>2, <1>2, Z3
  <2> QED
    BY <2>1, <2>2, <1>2, Z3
<1>4. x % m = r
  BY <1>2, <1>3, Z3
<1> QED
  BY <1>3, <1>4

(* bsub: the one of a - b and a - b + Prime that is based. *)
THEOREM SubtractionModuloPrime ==
  ASSUME NEW a \in Based, NEW b \in Based
  PROVE  BSub(a, b) = IF a >= b THEN a - b ELSE a - b + Prime
<1> DEFINE r == a - b
<1>1. a \in Nat /\ b \in Nat /\ a < Prime /\ b < Prime
  BY PrimeInWord DEF Based
<1>2. U64 \in Nat \ {0}
  BY PrimeInWord
<1>3. CASE a >= b
  <2>1. r \in 0..U64 - 1
    BY <1>1, <1>3, PrimeInWord
  <2>2. r % U64 = r
    BY <2>1, <1>2, SmallRemainder
  <2> QED
    BY <2>1, <2>2, <1>3, PrimeInWord DEF BSub
<1>4. CASE ~(a >= b)
  <2>1. r + U64 - (W - 1) = r + Prime /\ r + Prime \in 0..U64 - 1 /\ r < 0
    BY <1>1, <1>4, PrimeInWord
  <2>2. (r + U64 - (W - 1)) % U64 = r + Prime
    BY <2>1, <1>2, SmallRemainder
  <2> QED
    BY <2>1, <2>2, <1>4 DEF BSub
<1> QED
  BY <1>3, <1>4

(* badd: the one of a + b and a + b - Prime that is based. *)
THEOREM AdditionModuloPrime ==
  ASSUME NEW a \in Based, NEW b \in Based
  PROVE  BAdd(a, b) = IF a + b < Prime THEN a + b ELSE a + b - Prime
<1>1. a \in Nat /\ b \in Nat /\ a < Prime /\ b < Prime
  BY PrimeInWord DEF Based
<1>2. Prime - b \in 0..U64 - 1 /\ U64 \in Nat \ {0}
  BY <1>1, PrimeInWord
<1>3. (Prime - b) % U64 = Prime - b
  BY <1>2, SmallRemainder
<1>4. BAdd(a, b) = BSub(a, Prime - b)
  BY <1>3 DEF BAdd
<1>5. CASE b = 0
  <2>1. a - Prime + U64 - (W - 1) = a /\ a - Prime < 0 /\ a \in 0..U64 - 1
    BY <1>1, PrimeInWord
  <2>2. BSub(a, Prime) = a % U64
    BY <2>1 DEF BSub
  <2>3. a % U64 = a
    BY <2>1, <1>2, SmallRemainder
  <2> QED
    BY <1>1, <1>4, <1>5, <2>2, <2>3, PrimeInWord
<1>6. CASE b # 0
  <2>1. Prime - b \in Based
    BY <1>1, <1>6, PrimeInWord DEF Based
  <2> QED
    BY <2>1, <1>1, <1>4, SubtractionModuloPrime, PrimeInWord
<1> QED
  BY <1>5, <1>6

(* bneg: the one of -a and Prime - a that is based. *)
THEOREM NegationModuloPrime ==
  ASSUME NEW a \in Based
  PROVE  BNeg(a) = IF a = 0 THEN 0 ELSE Prime - a
<1>1. CASE a = 0
  BY <1>1 DEF BNeg
<1>2. CASE a # 0
  <2>1. Prime - a \in 0..U64 - 1 /\ U64 \in Nat \ {0}
    BY <1>2, PrimeInWord DEF Based
  <2>2. (Prime - a) % U64 = Prime - a
    BY <2>1, SmallRemainder
  <2> QED
    BY <1>2, <2>2 DEF BNeg
<1> QED
  BY <1>1, <1>2

(* mid * (W - 1), with which reduce159 replaces mid words, is based. *)
LEMMA MiddlePart ==
  ASSUME NEW mid \in 0..W - 1
  PROVE  /\ mid * W - (mid * W) \div W = mid * (W - 1)
         /\ mid * (W - 1) \in 0..U64 - 2 * W + 1
<1> USE PrimeInWord
<1>1. (mid * W + 0) \div W = mid
  BY QuotientUnique
<1>2. mid * W + 0 = mid * W /\ mid * W - mid = mid * (W - 1)
  BY Z3
<1>3. mid * (W - 1) \in Nat /\ mid * (W - 1) =< (W - 1) * (W - 1)
  BY Z3
<1>4. (W - 1) * (W - 1) = W * W - 2 * W + 1
  BY Z3
<1> QED
  BY <1>1, <1>2, <1>3, <1>4 DEF U64

(* The lower part less the upper one, as reduce159 leaves it. *)
LEMMA LowPart ==
  ASSUME NEW low \in 0..U64 - 1, NEW high \in 0..W - 1
  PROVE  (IF low - high < 0 THEN (low - high + Prime) % U64 ELSE low - high)
            = IF low < high THEN low - high + Prime ELSE low - high
<1> USE PrimeInWord
<1>1. CASE low < high
  <2>1. low - high + Prime \in 0..U64 - 1 /\ U64 \in Nat \ {0}
    BY <1>1
  <2>2. (low - high + Prime) % U64 = low - high + Prime
    BY <2>1, SmallRemainder
  <2> QED
    BY <1>1, <2>2
<1>2. CASE ~(low < high)
  BY <1>2
<1> QED
  BY <1>1, <1>2

(* reduce159 gives a based belt, from its three parts with the words       *)
(* replaced by what they are modulo the prime: W - 1 and -1.               *)
LEMMA ReductionOfParts ==
  ASSUME NEW low \in 0..U64 - 1, NEW mid \in 0..W - 1, NEW high \in 0..W - 1
  PROVE  /\ Reduce159(low, mid, high) \in Based
         /\ \E k \in -1..1 :
              Reduce159(low, mid, high) = low + mid * (W - 1) - high - k * Prime
<1> USE PrimeInWord
<1> DEFINE product == mid * (W - 1)
           low2 == IF low < high THEN low - high + Prime ELSE low - high
           sum == (product + low2) % U64
           result == IF sum < product THEN (sum + U64 - Prime) % U64 ELSE sum
<1>1. /\ mid * W - (mid * W) \div W = product
      /\ product \in 0..U64 - 2 * W + 1
  BY MiddlePart
<1>2. Reduce159(low, mid, high) = IF result >= Prime THEN result - Prime ELSE result
  BY <1>1, LowPart DEF Reduce159
<1>3. low2 \in 0..U64 - 1
  OBVIOUS
<1> HIDE DEF product
<1>4. CASE product + low2 < U64
  <2>1. product + low2 \in 0..U64 - 1 /\ U64 \in Nat \ {0}
    BY <1>1, <1>3, <1>4
  <2>2. sum = product + low2
    BY <2>1, SmallRemainder
  <2>3. result = product + low2
    BY <2>2, <1>1, <1>3
  <2>4. U64 =< 2 * Prime
    OBVIOUS
  <2>5. CASE product + low2 >= Prime
    <3>1. Reduce159(low, mid, high) = product + low2 - Prime
      BY <1>1, <1>2, <1>3, <2>3, <2>5
    <3>2. product + low2 - Prime \in Based
      BY <1>1, <1>3, <2>1, <2>4, <2>5 DEF Based
    <3> QED
      BY <3>1, <3>2, <1>1 DEF product
  <2>6. CASE ~(product + low2 >= Prime)
    <3>1. Reduce159(low, mid, high) = product + low2
      BY <1>2, <2>3, <2>6
    <3>2. product + low2 \in Based
      BY <2>1, <2>6 DEF Based
    <3> QED
      BY <3>1, <3>2, <1>1 DEF product
  <2> QED
    BY <2>5, <2>6
<1>5. CASE ~(product + low2 < U64)
  <2>1. product + low2 - U64 \in 0..U64 - 1 /\ U64 \in Nat \ {0}
    BY <1>1, <1>3, <1>5
  <2>2. (1 * U64 + (product + low2 - U64)) % U64 = product + low2 - U64
    BY <2>1, QuotientUnique
  <2>3. sum = product + low2 - U64
    BY <2>1, <2>2, <1>1, <1>3
  <2>4. sum < product
    BY <2>3, <1>1, <1>3
  <2>5. sum + U64 - Prime = product + low2 - Prime
    BY <2>3, <1>1, <1>3
  <2>6. product + low2 - Prime \in 0..Prime - 1
    BY <1>1, <1>3, <1>5
  <2>7. (product + low2 - Prime) % U64 = product + low2 - Prime
    BY <2>1, <2>6, SmallRemainder
  <2>8. result = product + low2 - Prime
    BY <2>4, <2>5, <2>7
  <2>9. Reduce159(low, mid, high) = product + low2 - Prime
    BY <1>2, <2>6, <2>8
  <2> QED
    BY <2>6, <2>9, <1>1 DEF Based, product
<1> QED
  BY <1>4, <1>5

(* The parts reduce gives to reduce159 are those of a number of two words. *)
LEMMA Parts ==
  ASSUME NEW n \in 0..U64 * U64 - 1
  PROVE  /\ n % U64 \in 0..U64 - 1
         /\ (n \div U64) % W \in 0..W - 1
         /\ (n \div (U64 * W)) % U64 \in 0..W - 1
         /\ n = (n % U64) + ((n \div U64) % W) * U64
                 + ((n \div (U64 * W)) % U64) * (U64 * W)
<1> USE PrimeInWord
<1> DEFINE low == n % U64
           words == n \div U64
           mid == words % W
           high == words \div W
<1>1. U64 \in Nat \ {0} /\ W \in Nat \ {0} /\ n \in Nat
  BY Z3
<1>2. low \in 0..U64 - 1 /\ words \in Nat /\ n = words * U64 + low
  BY <1>1, Division
<1>3. mid \in 0..W - 1 /\ high \in Nat /\ words = high * W + mid
  BY <1>1, <1>2, Division
<1> HIDE DEF low, words, mid, high
<1>4. words * U64 = high * (U64 * W) + mid * U64
  <2>1. (high * W + mid) * U64 = (high * W) * U64 + mid * U64
    BY <1>3, Z3
  <2>2. (high * W) * U64 = high * (U64 * W)
    BY <1>3, Z3
  <2> QED
    BY <1>3, <2>1, <2>2
<1>5. U64 * W \in Nat \ {0}
  BY <1>1, Z3
<1>6. mid * U64 + low \in 0..U64 * W - 1
  <2>1. mid * U64 =< (W - 1) * U64 /\ mid * U64 \in Nat
    BY <1>3, Z3
  <2>2. (W - 1) * U64 = U64 * W - U64
    BY Z3
  <2> QED
    BY <2>1, <2>2, <1>2, <1>5
<1>7. n = high * (U64 * W) + (mid * U64 + low)
  <2>1. high * (U64 * W) \in Int /\ mid * U64 \in Int
    BY <1>3, <1>5, Z3
  <2> QED
    BY <1>2, <1>4, <2>1
<1>8. n \div (U64 * W) = high
  BY <1>3, <1>5, <1>6, <1>7, QuotientUnique
<1>9. high < W
  <2>1. U64 * U64 = W * (U64 * W)
    BY Z3 DEF U64
  <2>2. CASE high >= W
    <3>1. high * (U64 * W) >= W * (U64 * W)
      BY <1>3, <1>5, <2>2, Z3
    <3> QED
      BY <3>1, <2>1, <1>1, <1>3, <1>5, <1>6, <1>7, Z3
  <2> QED
    BY <2>2, <1>3
<1>10. high % U64 = high
  BY <1>1, <1>3, <1>9, SmallRemainder
<1> QED
  <2>1. high * (U64 * W) \in Int /\ mid * U64 \in Int
    BY <1>3, <1>5, Z3
  <2>2. n = low + mid * U64 + high * (U64 * W)
    BY <1>2, <1>7, <2>1
  <2>3. (n \div (U64 * W)) % U64 = high
    BY <1>8, <1>10
  <2>4. high \in 0..W - 1
    BY <1>1, <1>3, <1>9, Z3
  <2>5. n % U64 = low /\ (n \div U64) % W = mid
    BY DEF low, words, mid
  <2> QED
    BY <1>2, <1>3, <2>2, <2>3, <2>4, <2>5

(* reduce: the based number that differs from n by a multiple of the prime. *)
THEOREM ReductionModuloPrime ==
  ASSUME NEW n \in 0..U64 * U64 - 1
  PROVE  /\ Reduce(n) \in Based
         /\ \E k \in Int : Reduce(n) = n - k * Prime
<1> USE PrimeInWord
<1> DEFINE low == n % U64
           mid == (n \div U64) % W
           high == (n \div (U64 * W)) % U64
<1>1. /\ low \in 0..U64 - 1 /\ mid \in 0..W - 1 /\ high \in 0..W - 1
      /\ n = low + mid * U64 + high * (U64 * W)
  BY Parts
<1>2. Reduce(n) = Reduce159(low, mid, high)
  BY DEF Reduce
<1> HIDE DEF low, mid, high
<1>3. Reduce(n) \in Based
  BY <1>1, <1>2, ReductionOfParts
<1>4. PICK k \in -1..1 : Reduce159(low, mid, high) = low + mid * (W - 1) - high - k * Prime
  BY <1>1, ReductionOfParts
<1>5. mid * U64 = mid * Prime + mid * (W - 1)
  BY <1>1, Z3
<1>6. high * (U64 * W) = high * (W + 1) * Prime - high
  <2>1. U64 * W = (W + 1) * Prime - 1
    BY Z3 DEF U64, Prime
  <2>2. high * ((W + 1) * Prime - 1) = high * ((W + 1) * Prime) - high
    BY <1>1, Z3
  <2>3. high * ((W + 1) * Prime) = high * (W + 1) * Prime
    BY <1>1, Z3
  <2> QED
    BY <2>1, <2>2, <2>3
<1>7. Reduce(n) = n - (mid + high * (W + 1) + k) * Prime
  <2>1. (mid + high * (W + 1) + k) * Prime = mid * Prime + high * (W + 1) * Prime + k * Prime
    BY <1>1, <1>4, Z3
  <2>2. /\ mid * Prime \in Int /\ high * (W + 1) * Prime \in Int /\ k * Prime \in Int
        /\ mid * (W - 1) \in Int
    BY <1>1, <1>4, Z3
  <2> QED
    BY <1>1, <1>2, <1>4, <1>5, <1>6, <2>1, <2>2
<1>8. mid + high * (W + 1) + k \in Int
  BY <1>1, <1>4, Z3
<1> QED
  BY <1>3, <1>7, <1>8

(* bmul: the based number that differs from the product by a multiple of   *)
(* the prime.                                                              *)
THEOREM MultiplicationModuloPrime ==
  ASSUME NEW a \in Based, NEW b \in Based
  PROVE  /\ BMul(a, b) \in Based
         /\ \E k \in Int : BMul(a, b) = a * b - k * Prime
<1> USE PrimeInWord
<1>1. a \in 0..U64 - 1 /\ b \in 0..U64 - 1
  BY DEF Based
<1>2. a * b \in 0..U64 * U64 - 1
  <2>1. a * b \in Nat /\ a * b =< (U64 - 1) * (U64 - 1)
    BY <1>1, Z3
  <2>2. (U64 - 1) * (U64 - 1) = U64 * U64 - 2 * U64 + 1
    BY Z3
  <2>3. U64 * U64 \in Int
    BY Z3
  <2> QED
    BY <2>1, <2>2, <2>3
<1> QED
  BY <1>2, ReductionModuloPrime DEF BMul

-----------------------------------------------------------------------------
(* The multiplication of numbers in Montgomery form.                       *)

(* The number that montReduction takes away: below the prime, and as many  *)
(* words past the low half as it takes to cancel it.                       *)
LEMMA MontgomeryPart ==
  ASSUME NEW x0 \in 0..W - 1, NEW x1 \in 0..W - 1, NEW c, NEW f, NEW d,
         c = (x0 + x1) * W, f = c \div U64, d = c - (x1 + f * Prime)
  PROVE  /\ d \in Based
         /\ \E k \in Int : d * U64 = k * Prime - (x0 + x1 * W)
<1> USE PrimeInWord
<1>1. /\ W \in Nat \ {0} /\ U64 \in Nat \ {0} /\ x0 \in Nat /\ x1 \in Nat
      /\ U64 = W * W
  BY Z3 DEF U64
<1>2. /\ x0 * W \in Int /\ x1 * W \in Int /\ W * W \in Int
      /\ c = x0 * W + x1 * W
  BY <1>1, Z3
<1>3. PICK g \in 0..1 : /\ f = g /\ d \in Based
                        /\ d = x0 * W + x1 * W - x1 - g * Prime
  <2>1. CASE x0 + x1 < W
    <3>1. x0 + x1 =< W - 1 /\ W - 1 \in Int
      BY <1>1, <2>1
    <3>2. (x0 + x1) * W =< (W - 1) * W /\ (W - 1) * W = W * W - W /\ (x0 + x1) * W \in Nat
      BY <1>1, <3>1, Z3
    <3>3. c \in 0..U64 - 1 /\ c =< U64 - W
      BY <1>1, <1>2, <3>2
    <3>4. (0 * U64 + c) \div U64 = 0
      <4>1. 0 \in Nat
        OBVIOUS
      <4> QED BY <1>1, <3>3, <4>1, QuotientUnique, Zenon
    <3>5. f = 0
      BY <1>1, <3>3, <3>4
    <3>6. d = c - x1
      BY <1>2, <3>5
    <3>7. x1 =< x1 * W /\ 0 =< x0 * W
      BY <1>1, Z3
    <3>8. d \in Based
      BY <1>1, <1>2, <3>3, <3>6, <3>7 DEF Based
    <3> QED BY <1>2, <3>5, <3>6, <3>8
  <2>2. CASE ~ (x0 + x1 < W)
    <3> DEFINE e == x0 + x1 - W
    <3>1. e \in 0..W - 2
      BY <1>1, <2>2
    <3>2. c = W * W + e * W /\ e * W \in Nat /\ e * W =< (W - 2) * W
          /\ (W - 2) * W = W * W - 2 * W
      <4>1. x0 + x1 = W + e
        BY <1>1
      <4> HIDE DEF e
      <4> QED BY <1>1, <3>1, <4>1, Z3
    <3> HIDE DEF e
    <3>3. 1 * U64 + e * W = c /\ 1 \in Nat /\ e * W \in 0..U64 - 1
      BY <1>1, <1>2, <3>2
    <3>4. f = 1
      BY <1>1, <3>3, QuotientUnique
    <3>5. d = e * W + W - 1 - x1
      BY <1>1, <1>2, <3>2, <3>4
    <3>6. d \in Based
      BY <1>1, <1>2, <3>2, <3>5 DEF Based
    <3> QED BY <1>2, <3>4, <3>6
  <2> QED BY <2>1, <2>2
<1>4. d * U64 = d * Prime + d * (W - 1) /\ d \in Int
  BY <1>3, Z3 DEF Based
<1>5. d * (W - 1) = x0 * (Prime - 1) + x1 * (Prime - W) - g * (W - 1) * Prime
  <2>1. W * (W - 1) = Prime - 1 /\ (W - 1) * (W - 1) = Prime - W
    <3>1. W * (W - 1) = W * W - W /\ (W - 1) * (W - 1) = W * W - 2 * W + 1
      BY <1>1, Z3
    <3> QED BY <1>1, <1>2, <3>1
  <2>2. d = x0 * W + x1 * (W - 1) - g * Prime
    <3>1. x1 * (W - 1) = x1 * W - x1
      BY <1>1, Z3
    <3>2. x1 * (W - 1) \in Int /\ g * Prime \in Int
      BY <1>1, <1>3, Z3
    <3> QED BY <1>1, <1>2, <1>3, <3>1, <3>2
  <2>3. (x0 * W + x1 * (W - 1) - g * Prime) * (W - 1)
          = x0 * (W * (W - 1)) + x1 * ((W - 1) * (W - 1)) - g * (W - 1) * Prime
    BY <1>1, <1>3, Z3
  <2> QED BY <2>1, <2>2, <2>3
<1>6. /\ x0 * (Prime - 1) = x0 * Prime - x0
      /\ x1 * (Prime - W) = x1 * Prime - x1 * W
      /\ x0 * Prime \in Int /\ x1 * Prime \in Int /\ g * (W - 1) * Prime \in Int
      /\ d * Prime \in Int
      /\ (d + x0 + x1 - g * (W - 1)) * Prime
           = d * Prime + x0 * Prime + x1 * Prime - g * (W - 1) * Prime
      /\ d + x0 + x1 - g * (W - 1) \in Int
  BY <1>1, <1>3, <1>4, Z3
<1>7. d * U64 = (d + x0 + x1 - g * (W - 1)) * Prime - (x0 + x1 * W)
  BY <1>1, <1>2, <1>4, <1>5, <1>6
<1> QED BY <1>3, <1>6, <1>7

(* Numbers that differ by a multiple of the prime.                         *)
Same(x, y) == \E k \in Int : x = y + k * Prime

LEMMA SameBack ==
  ASSUME NEW x \in Int, NEW y \in Int, Same(x, y)
  PROVE  Same(y, x)
<1> USE PrimeInWord
<1>1. PICK k \in Int : x = y + k * Prime
  BY DEF Same
<1>2. (-k) * Prime = -(k * Prime) /\ k * Prime \in Int /\ -k \in Int
  BY Z3
<1>3. y = x + (-k) * Prime
  BY <1>1, <1>2
<1> QED BY <1>2, <1>3 DEF Same

LEMMA SameOn ==
  ASSUME NEW x \in Int, NEW y \in Int, NEW z \in Int, Same(x, y), Same(y, z)
  PROVE  Same(x, z)
<1> USE PrimeInWord
<1>1. PICK k \in Int : x = y + k * Prime
  BY DEF Same
<1>2. PICK j \in Int : y = z + j * Prime
  BY DEF Same
<1>3. (k + j) * Prime = k * Prime + j * Prime /\ k * Prime \in Int /\ j * Prime \in Int
  BY Z3
<1>4. x = z + (k + j) * Prime /\ k + j \in Int
  BY <1>1, <1>2, <1>3
<1> QED BY <1>4 DEF Same

LEMMA SameTimes ==
  ASSUME NEW x \in Int, NEW y \in Int, NEW z \in Int, Same(x, y)
  PROVE  Same(x * z, y * z) /\ Same(z * x, z * y)
<1> USE PrimeInWord
<1>1. PICK k \in Int : x = y + k * Prime
  BY DEF Same
<1>2. /\ (y + k * Prime) * z = y * z + (k * z) * Prime
      /\ z * (y + k * Prime) = z * y + (k * z) * Prime
      /\ k * z \in Int
  BY Z3
<1>3. x * z = y * z + (k * z) * Prime /\ z * x = z * y + (k * z) * Prime
  BY <1>1, <1>2
<1> QED BY <1>2, <1>3 DEF Same

(* A word has an inverse modulo the prime: -W.                             *)
LEMMA WordCancels ==
  ASSUME NEW x \in Int, NEW k \in Int, x * U64 = k * Prime
  PROVE  \E j \in Int : x = j * Prime
<1> USE PrimeInWord
<1>1. U64 * W = (W + 1) * Prime - 1
  BY Z3 DEF U64, Prime
<1>2. x * U64 * W = x * (W + 1) * Prime - x
  <2>1. x * U64 * W = x * (U64 * W)
    BY Z3
  <2>2. x * ((W + 1) * Prime - 1) = x * (W + 1) * Prime - x
    BY Z3
  <2> QED BY <1>1, <2>1, <2>2
<1>3. x * U64 * W = k * W * Prime
  BY Z3
<1>4. /\ (x * (W + 1) - k * W) * Prime = x * (W + 1) * Prime - k * W * Prime
      /\ x * (W + 1) * Prime \in Int /\ k * W * Prime \in Int
      /\ x * (W + 1) - k * W \in Int
  BY Z3
<1>5. x = (x * (W + 1) - k * W) * Prime
  BY <1>2, <1>3, <1>4
<1> QED BY <1>4, <1>5

LEMMA SameWithoutWord ==
  ASSUME NEW x \in Int, NEW y \in Int, Same(x * U64, y * U64)
  PROVE  Same(x, y)
<1> USE PrimeInWord
<1>1. PICK k \in Int : x * U64 = y * U64 + k * Prime
  BY DEF Same
<1>2. (x - y) * U64 = x * U64 - y * U64 /\ x * U64 \in Int /\ y * U64 \in Int
  BY Z3
<1>3. k * Prime \in Int
  BY Z3
<1>4. (x - y) * U64 = k * Prime
  BY <1>1, <1>2, <1>3
<1>5. x - y \in Int
  OBVIOUS
<1>6. PICK j \in Int : x - y = j * Prime
  BY <1>4, <1>5, WordCancels
<1>7. j * Prime \in Int
  BY Z3
<1>8. x = y + j * Prime
  BY <1>5, <1>6, <1>7
<1> QED BY <1>8 DEF Same

(* Two based numbers that are the same modulo the prime are the same.      *)
LEMMA SameBased ==
  ASSUME NEW x \in Based, NEW y \in Based, Same(x, y)
  PROVE  x = y
<1> USE PrimeInWord
<1>1. PICK h \in Int : x = y + h * Prime
  BY DEF Same
<1>2. x - y < Prime /\ x - y > -Prime /\ x \in Int /\ y \in Int
  BY DEF Based
<1>3. /\ h >= 1 => h * Prime >= Prime
      /\ h =< -1 => h * Prime =< -Prime
      /\ h * Prime \in Int
  BY Z3
<1>4. h = 0
  BY <1>1, <1>2, <1>3
<1>5. 0 * Prime = 0
  OBVIOUS
<1> QED BY <1>1, <1>2, <1>4, <1>5

LEMMA R2IsWordSquared == R2 \in Based /\ Same(R2, U64 * U64)
<1> USE PrimeInWord
<1> DEFINE n == U64 * U64
<1>1. Prime \in Nat \ {0} /\ n \in Nat
  BY Z3
<1> HIDE DEF n
<1>2. PICK q \in Nat : n % Prime \in 0..Prime - 1 /\ n = q * Prime + (n % Prime)
  BY <1>1, Division, Zenon
<1>3. R2 = n % Prime
  BY DEF R2, n
<1>4. R2 \in Based
  BY <1>2, <1>3 DEF Based
<1>5. (-q) * Prime = -(q * Prime) /\ q * Prime \in Int /\ -q \in Int
  BY Z3
<1>6. R2 = n + (-q) * Prime
  <2>1. R2 \in Int
    BY <1>4 DEF Based
  <2> QED BY <1>1, <1>2, <1>3, <1>5, <2>1
<1>7. Same(R2, n)
  BY <1>5, <1>6 DEF Same
<1> QED BY <1>4, <1>7 DEF n

(* montReduction: the based number that is a divided by U64, modulo the    *)
(* prime, for every a up to the product of a based number and a word.      *)
THEOREM MontgomeryReduction ==
  ASSUME NEW a \in 0..Prime * U64 - 1
  PROVE  /\ MontReduction(a) \in Based
         /\ Same(MontReduction(a) * U64, a)
<1> USE PrimeInWord
<1> DEFINE x0 == a % W
           h == a \div W
           x1 == h % W
           x2 == a \div U64
           c == (x0 + x1) * W
           f == c \div U64
           d == c - (x1 + f * Prime)
<1>1. /\ W \in Nat \ {0} /\ U64 \in Nat \ {0} /\ a \in Nat /\ U64 = W * W
      /\ a < Prime * U64 /\ Prime * U64 \in Int
  <2>1. W \in Nat \ {0} /\ U64 \in Nat \ {0} /\ U64 = W * W /\ Prime * U64 \in Int
    BY Z3 DEF U64
  <2> QED BY <2>1
<1>2. x0 \in 0..W - 1 /\ h \in Nat /\ a = h * W + x0
  BY <1>1, Division
<1>3. PICK y \in Nat : x1 \in 0..W - 1 /\ h = y * W + x1
  BY <1>1, <1>2, Division
<1>4. MontReduction(a) = IF x2 >= d THEN (x2 - d) % U64 ELSE (x2 + Prime - d) % U64
  BY DEF MontReduction
<1>5. d \in Based /\ \E k \in Int : d * U64 = k * Prime - (x0 + x1 * W)
  <2>1. /\ x0 \in 0..W - 1 /\ x1 \in 0..W - 1
        /\ c = (x0 + x1) * W /\ f = c \div U64 /\ d = c - (x1 + f * Prime)
    BY <1>2, <1>3
  <2> HIDE DEF x0, x1, c, f, d
  <2> QED BY ONLY <2>1, MontgomeryPart
<1>6. a = x2 * U64 + (x0 + x1 * W)
  <2> DEFINE low == x0 + x1 * W
  <2> HIDE DEF x0, h, x1
  <2>1. a = y * U64 + low
    <3>1. (y * W + x1) * W + x0 = y * (W * W) + x1 * W + x0
      BY <1>1, <1>2, <1>3, Z3
    <3>2. y * (W * W) \in Int /\ x1 * W \in Int
      BY <1>1, <1>3, Z3
    <3> QED BY <1>1, <1>2, <1>3, <3>1, <3>2
  <2>2. low \in 0..U64 - 1
    <3>1. x1 * W =< (W - 1) * W /\ x1 * W \in Nat /\ (W - 1) * W = W * W - W
      BY <1>1, <1>3, Z3
    <3> QED BY <1>1, <1>2, <3>1
  <2> HIDE DEF low
  <2>3. a \div U64 = y
    BY <1>1, <1>3, <2>1, <2>2, QuotientUnique
  <2> QED BY <2>1, <2>3 DEF low
<1>7. x2 \in Nat /\ x2 < Prime
  <2> DEFINE low == a % U64
  <2>1. x2 \in Nat /\ low \in 0..U64 - 1 /\ a = x2 * U64 + low
    BY <1>1, Division, Zenon
  <2> HIDE DEF x2, low
  <2>2. CASE x2 >= Prime
    <3>1. x2 * U64 >= Prime * U64 /\ x2 * U64 \in Int
      BY <1>1, <2>1, <2>2, Z3
    <3> QED BY <1>1, <2>1, <3>1
  <2> QED BY <2>1, <2>2
<1>8. PICK k \in Int : d * U64 = k * Prime - (x0 + x1 * W)
  BY <1>5
<1> HIDE DEF x0, h, x1, x2, d
<1>9. d \in Nat /\ d < Prime
  BY <1>5 DEF Based
<1>10. PICK j \in {0, U64} : /\ MontReduction(a) \in Based
                             /\ MontReduction(a) * U64 = (x2 - d) * U64 + j * Prime
  <2>1. CASE x2 >= d
    <3>1. x2 - d \in 0..U64 - 1 /\ x2 - d \in Based
      BY <1>7, <1>9, <2>1 DEF Based
    <3>2. MontReduction(a) = x2 - d
      BY <1>1, <1>4, <2>1, <3>1, SmallRemainder
    <3>3. (x2 - d) * U64 \in Int
      BY <3>1, Z3
    <3> QED BY <3>1, <3>2, <3>3
  <2>2. CASE ~ (x2 >= d)
    <3>1. x2 + Prime - d \in 0..U64 - 1 /\ x2 + Prime - d \in Based
      BY <1>7, <1>9, <2>2 DEF Based
    <3>2. MontReduction(a) = x2 + Prime - d
      BY <1>1, <1>4, <2>2, <3>1, SmallRemainder
    <3>3. (x2 + Prime - d) * U64 = (x2 - d) * U64 + U64 * Prime
      BY <1>7, <1>9, Z3
    <3> QED BY <3>1, <3>2, <3>3
  <2> QED BY <2>1, <2>2
<1>11. MontReduction(a) * U64 = a + (j - k) * Prime
  <2>1. (x2 - d) * U64 = x2 * U64 - d * U64 /\ x2 * U64 \in Int /\ d * U64 \in Int
    BY <1>7, <1>9, Z3
  <2>2. (j - k) * Prime = j * Prime - k * Prime /\ j * Prime \in Int /\ k * Prime \in Int
    BY <1>8, <1>10, Z3
  <2>3. x0 + x1 * W \in Int
    BY <1>2, <1>3, Z3
  <2> QED BY <1>6, <1>8, <1>10, <2>1, <2>2, <2>3
<1>12. j - k \in Int
  BY <1>8, <1>10
<1> QED BY <1>10, <1>11, <1>12 DEF Same

(* montiply: the product of two based numbers, divided by U64.             *)
THEOREM MontgomeryProduct ==
  ASSUME NEW a \in Based, NEW b \in Based
  PROVE  /\ Montiply(a, b) \in Based
         /\ Same(Montiply(a, b) * U64, a * b)
<1> USE PrimeInWord
<1>1. a * b \in 0..Prime * U64 - 1
  <2>1. a \in Nat /\ b \in Nat /\ a < Prime /\ b < U64 /\ b < Prime
    BY DEF Based
  <2>2. a * b \in Nat /\ Prime * U64 \in Int
    BY <2>1, Z3
  <2>3. a * b < Prime * U64
    <3>1. a * b =< Prime * b
      BY <2>1, Z3
    <3>2. Prime * b < Prime * U64
      BY <2>1, Z3
    <3>3. Prime * b \in Int
      BY <2>1, Z3
    <3> QED BY <2>2, <3>1, <3>2, <3>3
  <2> QED BY <2>2, <2>3
<1> QED BY <1>1, MontgomeryReduction DEF Montiply

(* montify: the number times U64.                                          *)
THEOREM MontgomeryForm ==
  ASSUME NEW a \in Based
  PROVE  Montify(a) \in Based /\ Same(Montify(a), a * U64)
<1> USE PrimeInWord
<1> DEFINE m == Montify(a)
<1>1. Montiply(a, R2) = m
  BY DEF Montiply, Montify
<1> HIDE DEF m
<1>2. m \in Based /\ Same(m * U64, a * R2)
  BY <1>1, R2IsWordSquared, MontgomeryProduct
<1>3. a \in Int /\ m \in Int /\ R2 \in Int
  BY <1>2, R2IsWordSquared DEF Based
<1>4. /\ m * U64 \in Int /\ a * R2 \in Int /\ a * U64 \in Int /\ U64 * U64 \in Int
      /\ (a * U64) * U64 \in Int /\ a * (U64 * U64) = (a * U64) * U64
  BY <1>3, Z3
<1>5. Same(a * R2, (a * U64) * U64)
  <2>1. Same(a * R2, a * (U64 * U64))
    BY <1>3, <1>4, R2IsWordSquared, SameTimes
  <2> QED BY <1>4, <2>1
<1>6. Same(m * U64, (a * U64) * U64)
  BY <1>2, <1>4, <1>5, SameOn
<1>7. Same(m, a * U64)
  BY <1>3, <1>4, <1>6, SameWithoutWord
<1> QED BY <1>2, <1>7 DEF m

(* What is known of a number in that form is known of the number it stands *)
(* for.                                                                    *)
LEMMA MontgomeryBack ==
  ASSUME NEW m \in Based, NEW x \in Int, Same(m, x * U64)
  PROVE  MontReduction(m) \in Based /\ Same(MontReduction(m), x)
<1> USE PrimeInWord
<1>1. m \in 0..Prime * U64 - 1 /\ m \in Int
  <2>1. m \in Nat /\ m < Prime
    BY DEF Based
  <2>2. Prime =< Prime * U64 /\ Prime * U64 \in Int
    BY Z3
  <2> QED BY <2>1, <2>2
<1>2. MontReduction(m) \in Based /\ Same(MontReduction(m) * U64, m)
  BY <1>1, MontgomeryReduction
<1>3. MontReduction(m) \in Int
  BY <1>2 DEF Based
<1>4. MontReduction(m) * U64 \in Int /\ x * U64 \in Int
  BY <1>3, Z3
<1>5. Same(MontReduction(m) * U64, x * U64)
  BY <1>1, <1>2, <1>4, SameOn
<1> QED BY <1>2, <1>3, <1>5, SameWithoutWord

(* montify and montReduction back: the same based number.                  *)
THEOREM MontgomeryRoundTrip ==
  ASSUME NEW a \in Based
  PROVE  MontReduction(Montify(a)) = a
<1>1. Montify(a) \in Based /\ Same(Montify(a), a * U64)
  BY MontgomeryForm
<1>2. a \in Int
  BY PrimeInWord DEF Based
<1>3. MontReduction(Montify(a)) \in Based /\ Same(MontReduction(Montify(a)), a)
  BY <1>1, <1>2, MontgomeryBack
<1> QED BY <1>3, SameBased

(* The two ways to multiply agree: montiply of two numbers in that form is *)
(* the form of what bmul makes of them.                                    *)
THEOREM MontgomeryAgrees ==
  ASSUME NEW a \in Based, NEW b \in Based
  PROVE  MontReduction(Montiply(Montify(a), Montify(b))) = BMul(a, b)
<1> USE PrimeInWord
<1> DEFINE x == Montify(a)
           y == Montify(b)
           p == Montiply(x, y)
<1>1. x \in Based /\ Same(x, a * U64) /\ y \in Based /\ Same(y, b * U64)
  BY MontgomeryForm
<1> HIDE DEF x, y
<1>2. p \in Based /\ Same(p * U64, x * y)
  BY <1>1, MontgomeryProduct
<1> HIDE DEF p
<1>3. a \in Int /\ b \in Int /\ x \in Int /\ y \in Int /\ p \in Int
  BY <1>1, <1>2 DEF Based
<1>4. /\ a * U64 \in Int /\ b * U64 \in Int /\ x * y \in Int /\ (a * U64) * y \in Int
      /\ a * b \in Int /\ (a * b) * U64 \in Int /\ p * U64 \in Int
      /\ (a * U64) * (b * U64) \in Int
      /\ (a * U64) * (b * U64) = ((a * b) * U64) * U64
  BY <1>3, Z3
<1>5. Same(x * y, (a * U64) * y) /\ Same((a * U64) * y, (a * U64) * (b * U64))
  BY <1>1, <1>3, <1>4, SameTimes
<1>6. Same(p * U64, ((a * b) * U64) * U64)
  <2>1. Same(x * y, (a * U64) * (b * U64))
    BY <1>4, <1>5, SameOn
  <2>2. Same(p * U64, (a * U64) * (b * U64))
    BY <1>2, <1>4, <2>1, SameOn
  <2> QED BY <1>4, <2>2
<1>7. Same(p, (a * b) * U64)
  BY <1>3, <1>4, <1>6, SameWithoutWord
<1>8. MontReduction(p) \in Based /\ Same(MontReduction(p), a * b)
  BY <1>2, <1>4, <1>7, MontgomeryBack
<1>9. BMul(a, b) \in Based /\ Same(a * b, BMul(a, b))
  <2>1. PICK k \in Int : BMul(a, b) \in Based /\ BMul(a, b) = a * b - k * Prime
    BY MultiplicationModuloPrime
  <2>2. k * Prime \in Int
    BY Z3
  <2>3. a * b = BMul(a, b) + k * Prime
    BY <1>4, <2>1, <2>2
  <2> QED BY <2>1, <2>3 DEF Same
<1>10. Same(MontReduction(p), BMul(a, b))
  <2>1. MontReduction(p) \in Int /\ BMul(a, b) \in Int
    BY <1>8, <1>9 DEF Based
  <2> QED BY <1>4, <1>8, <1>9, <2>1, SameOn
<1> QED BY <1>8, <1>9, <1>10, SameBased DEF p, x, y
=============================================================================
