----------------------------- MODULE SpendLemmas -----------------------------
(***************************************************************************)
(* What the proofs about spends rest on.  First lists: induction and       *)
(* recursion along one, and what they give for the two folds of Spend,     *)
(* Total, which adds a list up, and Kept, which filters it; folds and sums *)
(* over finite sets; and lists put one after another.  Then the operators  *)
(* of Spend and Fee: what a call makes of the seeds, the fee and the       *)
(* signatures of a spend, when it leaves it balanced, and that words and   *)
(* fees are natural numbers.                                               *)
(***************************************************************************)
EXTENDS Fee, TLAPS, SequenceTheorems, FiniteSetTheorems, WellFoundedInduction

LessOnNat == {ss \in Nat \X Nat : ss[1] < ss[2]}

(* Induction on the natural numbers, for sets: what the proofs below use   *)
(* whenever they go through the list of seeds element by element.          *)
LEMMA SetInduction ==
  ASSUME NEW T \in SUBSET Nat, 0 \in T, \A n \in T : n + 1 \in T
  PROVE  T = Nat
<1>1. IsWellFoundedOn(LessOnNat, Nat)
  <2>1. OpToRel(<, Nat) = LessOnNat
    BY DEF OpToRel, LessOnNat
  <2> QED BY <2>1, NatLessThanWellFounded
<1> DEFINE C == Nat \ T
<1> SUFFICES ASSUME C # {} PROVE FALSE
  OBVIOUS
<1>2. PICK x \in C : \A y \in C : ~ (<<y, x>> \in LessOnNat)
  <2>1. C \subseteq Nat
    BY DEF C
  <2> HIDE DEF C
  <2> QED BY <1>1, <2>1, WFMin
<1>3. x \in Nat /\ x # 0
  OBVIOUS
<1>4. x - 1 \in Nat /\ <<x - 1, x>> \in LessOnNat
  BY <1>3 DEF LessOnNat
<1>5. x - 1 \in T
  BY <1>2, <1>4
<1>6. (x - 1) + 1 \in T
  BY <1>5
<1> QED BY <1>3, <1>6

(* Induction up to a bound: what holds of no element, and of one more when *)
(* it holds of n, holds of the whole list.                                 *)
LEMMA PrefixInduction ==
  ASSUME NEW N \in Nat, NEW T, 0 \in T, \A n \in 0..(N - 1) : n \in T => n + 1 \in T
  PROVE  \A n \in 0..N : n \in T
<1> DEFINE U == {n \in Nat : n <= N => n \in T}
<1>1. 0 \in U
  OBVIOUS
<1>2. ASSUME NEW n \in U PROVE n + 1 \in U
  <2>1. n \in Nat /\ (n <= N => n \in T)
    OBVIOUS
  <2>2. CASE n + 1 <= N
    <3>1. n \in 0..(N - 1) /\ n \in T
      BY <2>1, <2>2
    <3> QED BY <3>1
  <2>3. CASE ~ (n + 1 <= N)
    BY <2>1, <2>3
  <2> QED BY <2>2, <2>3
<1>3. U = Nat
  <2>1. U \in SUBSET Nat
    OBVIOUS
  <2> HIDE DEF U
  <2> QED BY <1>1, <1>2, <2>1, SetInduction
<1> QED BY <1>3

(* The step functions on A along a prefix of length N, and the run of one  *)
(* from a start value: f[0] = a0 and f[k] = h[<<k, f[k - 1]>>].            *)
Steps(N, A) == [(1..N) \X A -> A]
IsRun(f, N, A, a0, h) ==
  /\ f \in [0..N -> A]
  /\ f[0] = a0
  /\ \A k \in 1..N : f[k] = h[<<k, f[k - 1]>>]
HasRun(N, A, a0, h) == \E f : IsRun(f, N, A, a0, h)

(* Recursion along a prefix length has a solution: every step function has *)
(* a run from every start value.                                           *)
LEMMA PrefixRecursion ==
  ASSUME NEW N \in Nat, NEW A, NEW a0 \in A, NEW h \in Steps(N, A)
  PROVE  HasRun(N, A, a0, h)
<1> USE DEF Steps
<1> DEFINE Solves(f, m) == /\ f \in [0..m -> A]
                           /\ f[0] = a0
                           /\ \A k \in 1..m : f[k] = h[<<k, f[k - 1]>>]
           T == {m \in Nat : m <= N => \E f : Solves(f, m)}
<1>1. 0 \in T
  <2>1. Solves([k \in 0..0 |-> a0], 0)
    OBVIOUS
  <2> QED BY <2>1
<1>2. ASSUME NEW m \in T PROVE m + 1 \in T
  <2> SUFFICES ASSUME m + 1 <= N PROVE \E f : Solves(f, m + 1)
    OBVIOUS
  <2>1. PICK f : Solves(f, m)
    OBVIOUS
  <2> DEFINE g == [k \in 0..(m + 1) |-> IF k = m + 1 THEN h[<<m + 1, f[m]>>] ELSE f[k]]
  <2>2. f[m] \in A /\ m + 1 \in 1..N
    BY <2>1
  <2>3. h[<<m + 1, f[m]>>] \in A
    BY <2>2
  <2>4. g \in [0..(m + 1) -> A]
    BY <2>1, <2>3
  <2>5. g[0] = a0
    BY <2>1
  <2>6. ASSUME NEW k \in 1..(m + 1) PROVE g[k] = h[<<k, g[k - 1]>>]
    <3>1. CASE k = m + 1
      <4>1. g[k] = h[<<m + 1, f[m]>>] /\ g[m] = f[m] /\ k - 1 = m
        BY <3>1
      <4> QED BY <3>1, <4>1
    <3>2. CASE k # m + 1
      <4>1. k \in 1..m /\ k - 1 \in 0..m /\ k \in 0..m
        BY <3>2
      <4>2. g[k] = f[k] /\ g[k - 1] = f[k - 1]
        BY <4>1
      <4> QED BY <2>1, <4>1, <4>2
    <3> QED BY <3>1, <3>2
  <2>7. Solves(g, m + 1)
    BY <2>4, <2>5, <2>6
  <2> QED BY <2>7
<1>3. T = Nat
  <2>1. T \in SUBSET Nat
    OBVIOUS
  <2> HIDE DEF T
  <2> QED BY <1>1, <1>2, <2>1, SetInduction
<1>4. PICK f : Solves(f, N)
  <2>1. N \in T
    <3> HIDE DEF T
    <3> QED BY <1>3
  <2> QED BY <2>1
<1> QED BY <1>4 DEF HasRun, IsRun

-----------------------------------------------------------------------------
(* A total adds up the numbers of a list one at a time.                    *)
LEMMA TotalUpToDef ==
  ASSUME NEW xs \in Seq(Nat)
  PROVE  /\ TotalUpTo(xs) \in [0..Len(xs) -> Nat]
         /\ TotalUpTo(xs)[0] = 0
         /\ \A n \in 1..Len(xs) : TotalUpTo(xs)[n] = TotalUpTo(xs)[n - 1] + xs[n]
<1> DEFINE N == Len(xs)
           h == [x \in (1..N) \X Nat |-> x[2] + xs[x[1]]]
           sum == TotalUpTo(xs)
<1>1. N \in Nat
  BY LenProperties
<1>2. ASSUME NEW n \in 1..N PROVE xs[n] \in Nat
  BY ElementOfSeq
<1>3. h \in [(1..N) \X Nat -> Nat]
  BY <1>2
<1>4. PICK f \in [0..N -> Nat] : f[0] = 0 /\ \A k \in 1..N : f[k] = h[<<k, f[k - 1]>>]
  <2>1. h \in Steps(N, Nat)
    BY <1>3 DEF Steps
  <2> HIDE DEF h, N
  <2>2. HasRun(N, Nat, 0, h)
    BY <1>1, <2>1, PrefixRecursion
  <2> QED BY <2>2 DEF HasRun, IsRun
<1>5. ASSUME NEW k \in 1..N PROVE f[k] = f[k - 1] + xs[k]
  <2>1. f[k - 1] \in Nat
    BY <1>1, <1>4
  <2> QED BY <1>4, <2>1
<1>6. f = [k \in 0..N |-> IF k = 0 THEN 0 ELSE f[k - 1] + xs[k]]
  BY <1>4, <1>5
<1>7. sum = [k \in 0..N |-> IF k = 0 THEN 0 ELSE sum[k - 1] + xs[k]]
  BY <1>6, Zenon DEF TotalUpTo
<1> HIDE DEF sum
<1>8. sum[0] = 0 /\ \A k \in 1..N : sum[k] = sum[k - 1] + xs[k]
  BY <1>1, <1>7
<1> DEFINE T == {n \in Nat : n <= N => sum[n] \in Nat}
<1>9. T = Nat
  <2>1. 0 \in T
    BY <1>8
  <2>2. ASSUME NEW n \in T PROVE n + 1 \in T
    <3> SUFFICES ASSUME n + 1 <= N PROVE sum[n + 1] \in Nat
      OBVIOUS
    <3>1. n + 1 \in 1..N /\ sum[n] \in Nat /\ (n + 1) - 1 = n
      BY <1>1
    <3>2. sum[n + 1] = sum[n] + xs[n + 1]
      BY <1>8, <3>1
    <3> QED BY <1>2, <3>1, <3>2
  <2>3. T \in SUBSET Nat
    OBVIOUS
  <2> HIDE DEF T
  <2> QED BY <2>1, <2>2, <2>3, SetInduction
<1>10. ASSUME NEW n \in 0..N PROVE sum[n] \in Nat
  <2>1. n \in T
    <3> HIDE DEF T
    <3> QED BY <1>9
  <2> QED BY <1>1, <2>1
<1>11. sum \in [0..N -> Nat]
  BY <1>7, <1>10
<1> QED BY <1>8, <1>11 DEF sum

(* The same of a list that has N elements.                                 *)
AddsUp(zs, N) ==
  /\ \A n \in 0..N : TotalUpTo(zs)[n] \in Nat
  /\ TotalUpTo(zs)[0] = 0
  /\ \A n \in 1..N : TotalUpTo(zs)[n] = TotalUpTo(zs)[n - 1] + zs[n] /\ zs[n] \in Nat

LEMMA TotalAddsUp ==
  ASSUME NEW zs \in Seq(Nat), NEW N, Len(zs) = N
  PROVE  AddsUp(zs, N)
<1>1. \A n \in 1..N : zs[n] \in Nat
  BY ElementOfSeq
<1>2. /\ TotalUpTo(zs) \in [0..N -> Nat] /\ TotalUpTo(zs)[0] = 0
      /\ \A n \in 1..N : TotalUpTo(zs)[n] = TotalUpTo(zs)[n - 1] + zs[n]
  BY TotalUpToDef
<1> QED BY <1>1, <1>2 DEF AddsUp

LEMMA TotalType ==
  ASSUME NEW xs \in Seq(Nat)
  PROVE  Total(xs) \in Nat
<1>1. Len(xs) \in 0..Len(xs)
  BY LenProperties
<1> QED BY <1>1, TotalUpToDef DEF Total

(* A prefix of a list has the total it has in any other list it begins.    *)
LEMMA TotalUpToPrefix ==
  ASSUME NEW xs \in Seq(Nat), NEW ys \in Seq(Nat), NEW m \in Nat,
         m <= Len(xs), m <= Len(ys), \A i \in 1..m : xs[i] = ys[i]
  PROVE  TotalUpTo(xs)[m] = TotalUpTo(ys)[m]
<1> DEFINE T == {n \in 0..m : TotalUpTo(xs)[n] = TotalUpTo(ys)[n]}
<1>1. 0 \in T
  BY TotalUpToDef
<1>2. ASSUME NEW n \in 0..(m - 1), n \in T PROVE n + 1 \in T
  <2>1. n + 1 \in 1..Len(xs) /\ n + 1 \in 1..Len(ys) /\ n + 1 \in 1..m /\ (n + 1) - 1 = n
    BY LenProperties
  <2> QED BY <1>2, <2>1, TotalUpToDef
<1>3. \A n \in 0..m : n \in T
  <2> HIDE DEF T
  <2> QED BY <1>1, <1>2, PrefixInduction
<1> QED BY <1>3

Weighed(q, a, b) == q * a + b

(* What holds of a weighed pair of elements at every place holds of the    *)
(* totals.                                                                 *)
LEMMA TotalsWeighed ==
  ASSUME NEW q \in Nat, NEW N \in Nat,
         NEW us \in Seq(Nat), NEW vs \in Seq(Nat), NEW xs \in Seq(Nat), NEW ys \in Seq(Nat),
         Len(us) = N, Len(vs) = N, Len(xs) = N, Len(ys) = N,
         \A i \in 1..N : Weighed(q, us[i], vs[i]) <= Weighed(q, xs[i], ys[i])
  PROVE  Weighed(q, Total(us), Total(vs)) <= Weighed(q, Total(xs), Total(ys))
<1> DEFINE Weighs(a, b, n) == Weighed(q, TotalUpTo(a)[n], TotalUpTo(b)[n])
           T == {n \in 0..N : Weighs(us, vs, n) <= Weighs(xs, ys, n)}
<1>1. \A zs \in {us, vs, xs, ys} : AddsUp(zs, N)
  <2>1. ASSUME NEW zs \in {us, vs, xs, ys} PROVE zs \in Seq(Nat) /\ Len(zs) = N
    OBVIOUS
  <2> QED BY ONLY <2>1, TotalAddsUp
<1>2. 0 \in T
  BY <1>1 DEF Weighed, AddsUp
<1>3. ASSUME NEW n \in 0..(N - 1), n \in T PROVE n + 1 \in T
  <2>1. n + 1 \in 1..N /\ (n + 1) - 1 = n /\ n \in 0..N
    OBVIOUS
  <2>2. Weighs(us, vs, n) <= Weighs(xs, ys, n)
    BY <1>3
  <2>3. Weighed(q, us[n + 1], vs[n + 1]) <= Weighed(q, xs[n + 1], ys[n + 1])
    BY <2>1
  <2>4. ASSUME NEW a \in {us, xs}, NEW b \in {vs, ys}
        PROVE  /\ Weighs(a, b, n + 1) = Weighs(a, b, n) + Weighed(q, a[n + 1], b[n + 1])
               /\ Weighs(a, b, n) \in Nat /\ Weighed(q, a[n + 1], b[n + 1]) \in Nat
    <3>1. /\ TotalUpTo(a)[n + 1] = TotalUpTo(a)[n] + a[n + 1]
          /\ TotalUpTo(b)[n + 1] = TotalUpTo(b)[n] + b[n + 1]
          /\ TotalUpTo(a)[n] \in Nat /\ TotalUpTo(b)[n] \in Nat
          /\ a[n + 1] \in Nat /\ b[n + 1] \in Nat
      BY <1>1, <2>1 DEF AddsUp
    <3> DEFINE A == TotalUpTo(a)[n]
               B == TotalUpTo(b)[n]
               x == a[n + 1]
               y == b[n + 1]
    <3>2. A \in Nat /\ B \in Nat /\ x \in Nat /\ y \in Nat
      BY <3>1
    <3>3. TotalUpTo(a)[n + 1] = A + x /\ TotalUpTo(b)[n + 1] = B + y
      BY <3>1
    <3> HIDE DEF A, B, x, y
    <3>4. /\ Weighed(q, A + x, B + y) = Weighed(q, A, B) + Weighed(q, x, y)
          /\ Weighed(q, A, B) \in Nat /\ Weighed(q, x, y) \in Nat
      <4> DEFINE p == q * A
                 r == q * x
      <4>1. q * (A + x) = p + r /\ p \in Nat /\ r \in Nat
        BY <3>2
      <4>2. /\ Weighed(q, A + x, B + y) = q * (A + x) + (B + y)
            /\ Weighed(q, A, B) = p + B /\ Weighed(q, x, y) = r + y
        BY DEF Weighed
      <4> HIDE DEF p, r
      <4>3. /\ (p + r) + (B + y) = (p + B) + (r + y)
            /\ p + B \in Nat /\ r + y \in Nat
        BY <3>2, <4>1
      <4> QED BY <4>1, <4>2, <4>3, Zenon
    <3> QED BY <3>3, <3>4 DEF A, B, x, y
  <2>5. /\ Weighs(us, vs, n + 1) = Weighs(us, vs, n) + Weighed(q, us[n + 1], vs[n + 1])
        /\ Weighs(xs, ys, n + 1) = Weighs(xs, ys, n) + Weighed(q, xs[n + 1], ys[n + 1])
        /\ Weighs(us, vs, n) \in Nat /\ Weighed(q, us[n + 1], vs[n + 1]) \in Nat
        /\ Weighs(xs, ys, n) \in Nat /\ Weighed(q, xs[n + 1], ys[n + 1]) \in Nat
    <3> HIDE DEF Weighs
    <3> QED BY <2>4
  <2>6. Weighs(us, vs, n + 1) <= Weighs(xs, ys, n + 1)
    <3> DEFINE du == Weighed(q, us[n + 1], vs[n + 1])
               dx == Weighed(q, xs[n + 1], ys[n + 1])
    <3>1. /\ Weighs(us, vs, n + 1) = Weighs(us, vs, n) + du /\ du \in Nat
          /\ Weighs(xs, ys, n + 1) = Weighs(xs, ys, n) + dx /\ dx \in Nat /\ du <= dx
          /\ Weighs(us, vs, n) \in Nat /\ Weighs(xs, ys, n) \in Nat
          /\ Weighs(us, vs, n) <= Weighs(xs, ys, n)
      BY <2>2, <2>3, <2>5
    <3> HIDE DEF Weighs, du, dx
    <3> QED BY <3>1
  <2> QED BY <2>1, <2>6
<1>4. \A n \in 0..N : n \in T
  <2> HIDE DEF T
  <2> QED BY <1>2, <1>3, PrefixInduction
<1> QED BY <1>4 DEF Total

LEMMA LessStep ==
  ASSUME NEW a \in Nat, NEW b \in Nat, NEW x \in Nat, NEW y \in Nat, NEW c \in Nat,
         NEW n \in Nat, NEW j \in Nat, a + (IF n >= j THEN c ELSE 0) <= b,
         x <= y, n + 1 = j => x + c <= y
  PROVE  (a + x) + (IF n + 1 >= j THEN c ELSE 0) <= b + y
OBVIOUS

(* No element is larger, and the one at a place is less by c or more.      *)
LEMMA TotalLess ==
  ASSUME NEW N \in Nat, NEW us \in Seq(Nat), NEW xs \in Seq(Nat), Len(us) = N, Len(xs) = N,
         \A i \in 1..N : us[i] <= xs[i],
         NEW c \in Nat, NEW j \in 1..N, us[j] + c <= xs[j]
  PROVE  Total(us) + c <= Total(xs)
<1> DEFINE T == {n \in 0..N : TotalUpTo(us)[n] + (IF n >= j THEN c ELSE 0) <= TotalUpTo(xs)[n]}
<1>1. \A zs \in {us, xs} : AddsUp(zs, N)
  <2>1. ASSUME NEW zs \in {us, xs} PROVE zs \in Seq(Nat) /\ Len(zs) = N
    OBVIOUS
  <2> QED BY ONLY <2>1, TotalAddsUp
<1>2. 0 \in T
  <2>1. ~ 0 >= j /\ 0 \in 0..N
    OBVIOUS
  <2>2. TotalUpTo(us)[0] = 0 /\ TotalUpTo(xs)[0] = 0
    BY <1>1 DEF AddsUp
  <2>3. (IF 0 >= j THEN c ELSE 0) = 0
    BY <2>1
  <2> QED BY <2>1, <2>2, <2>3
<1>3. ASSUME NEW n \in 0..(N - 1), n \in T PROVE n + 1 \in T
  <2>1. n + 1 \in 1..N /\ (n + 1) - 1 = n /\ n \in 0..N
    OBVIOUS
  <2>2. /\ TotalUpTo(us)[n + 1] = TotalUpTo(us)[n] + us[n + 1]
        /\ TotalUpTo(xs)[n + 1] = TotalUpTo(xs)[n] + xs[n + 1]
        /\ TotalUpTo(us)[n] \in Nat /\ TotalUpTo(xs)[n] \in Nat
        /\ us[n + 1] \in Nat /\ xs[n + 1] \in Nat
    BY <1>1, <2>1 DEF AddsUp
  <2>3. TotalUpTo(us)[n] + (IF n >= j THEN c ELSE 0) <= TotalUpTo(xs)[n]
    BY <1>3
  <2>4. us[n + 1] <= xs[n + 1] /\ (n + 1 = j => us[n + 1] + c <= xs[n + 1])
    BY <2>1
  <2>5. TotalUpTo(us)[n + 1] + (IF n + 1 >= j THEN c ELSE 0) <= TotalUpTo(xs)[n + 1]
    <3> DEFINE a == TotalUpTo(us)[n]
               b == TotalUpTo(xs)[n]
               x == us[n + 1]
               y == xs[n + 1]
    <3>1. /\ a \in Nat /\ b \in Nat /\ x \in Nat /\ y \in Nat /\ n \in Nat /\ j \in Nat
          /\ a + (IF n >= j THEN c ELSE 0) <= b /\ x <= y /\ (n + 1 = j => x + c <= y)
          /\ TotalUpTo(us)[n + 1] = a + x /\ TotalUpTo(xs)[n + 1] = b + y
      BY <2>2, <2>3, <2>4
    <3> HIDE DEF a, b, x, y, T
    <3>2. (a + x) + (IF n + 1 >= j THEN c ELSE 0) <= b + y
      BY <3>1, LessStep
    <3> QED BY <3>1, <3>2
  <2> QED BY <2>1, <2>5
<1>4. \A n \in 0..N : n \in T
  <2> HIDE DEF T
  <2> QED BY <1>2, <1>3, PrefixInduction
<1>5. N \in 0..N /\ N >= j
  OBVIOUS
<1> QED BY <1>4, <1>5 DEF Total

LEMMA ReplaceStep ==
  ASSUME NEW a \in Nat, NEW b \in Nat, NEW x \in Nat, NEW y \in Nat, NEW c \in Nat,
         NEW d \in Nat, NEW n \in Nat, NEW j \in Nat,
         a + (IF n >= j THEN d ELSE 0) = b + (IF n >= j THEN c ELSE 0),
         n + 1 = j => x = c /\ y = d, n + 1 # j => x = y
  PROVE  (a + x) + (IF n + 1 >= j THEN d ELSE 0) = (b + y) + (IF n + 1 >= j THEN c ELSE 0)
OBVIOUS

(* A list with one element replaced.                                       *)
LEMMA TotalReplace ==
  ASSUME NEW N \in Nat, NEW us \in Seq(Nat), NEW xs \in Seq(Nat), Len(us) = N, Len(xs) = N,
         NEW j \in 1..N, \A i \in 1..N : i # j => us[i] = xs[i]
  PROVE  Total(us) + xs[j] = Total(xs) + us[j]
<1> DEFINE T == {n \in 0..N : TotalUpTo(us)[n] + (IF n >= j THEN xs[j] ELSE 0)
                                = TotalUpTo(xs)[n] + (IF n >= j THEN us[j] ELSE 0)}
<1>1. \A zs \in {us, xs} : AddsUp(zs, N)
  <2>1. ASSUME NEW zs \in {us, xs} PROVE zs \in Seq(Nat) /\ Len(zs) = N
    OBVIOUS
  <2> QED BY ONLY <2>1, TotalAddsUp
<1>2. 0 \in T
  <2>1. ~ (0 >= j) /\ 0 \in 0..N /\ TotalUpTo(us)[0] = 0 /\ TotalUpTo(xs)[0] = 0
    BY <1>1 DEF AddsUp
  <2> QED BY <2>1
<1>3. ASSUME NEW n \in 0..(N - 1), n \in T PROVE n + 1 \in T
  <2>1. n + 1 \in 1..N /\ (n + 1) - 1 = n /\ n \in 0..N /\ n + 1 \in 0..N
    OBVIOUS
  <2> DEFINE a == TotalUpTo(us)[n]
             b == TotalUpTo(xs)[n]
             x == us[n + 1]
             y == xs[n + 1]
             c == us[j]
             d == xs[j]
  <2>2. /\ TotalUpTo(us)[n + 1] = a + x /\ TotalUpTo(xs)[n + 1] = b + y
        /\ a \in Nat /\ b \in Nat /\ x \in Nat /\ y \in Nat /\ c \in Nat /\ d \in Nat
    BY <1>1, <2>1 DEF AddsUp
  <2>3. a + (IF n >= j THEN d ELSE 0) = b + (IF n >= j THEN c ELSE 0)
    BY <1>3
  <2>4. n + 1 = j => x = c /\ y = d
    OBVIOUS
  <2>5. n + 1 # j => x = y
    BY <2>1
  <2>6. n \in Nat /\ j \in Nat
    OBVIOUS
  <2> HIDE DEF a, b, x, y, c, d, T
  <2>7. (a + x) + (IF n + 1 >= j THEN d ELSE 0) = (b + y) + (IF n + 1 >= j THEN c ELSE 0)
    BY <2>2, <2>3, <2>4, <2>5, <2>6, ReplaceStep
  <2> QED BY <2>1, <2>2, <2>7 DEF c, d, T
<1>4. \A n \in 0..N : n \in T
  <2> HIDE DEF T
  <2> QED BY <1>2, <1>3, PrefixInduction
<1>5. N \in 0..N /\ N >= j
  OBVIOUS
<1> QED BY <1>4, <1>5 DEF Total

(* The total of two lists added place by place.                            *)
LEMMA TotalSum ==
  ASSUME NEW N \in Nat, NEW us \in Seq(Nat), NEW xs \in Seq(Nat), NEW ys \in Seq(Nat),
         Len(us) = N, Len(xs) = N, Len(ys) = N, \A i \in 1..N : us[i] = xs[i] + ys[i]
  PROVE  Total(us) = Total(xs) + Total(ys)
<1> DEFINE T == {n \in 0..N : TotalUpTo(us)[n] = TotalUpTo(xs)[n] + TotalUpTo(ys)[n]}
<1>1. \A zs \in {us, xs, ys} : AddsUp(zs, N)
  <2>1. ASSUME NEW zs \in {us, xs, ys} PROVE zs \in Seq(Nat) /\ Len(zs) = N
    OBVIOUS
  <2> QED BY ONLY <2>1, TotalAddsUp
<1>2. 0 \in T
  BY <1>1 DEF AddsUp
<1>3. ASSUME NEW n \in 0..(N - 1), n \in T PROVE n + 1 \in T
  <2>1. n + 1 \in 1..N /\ (n + 1) - 1 = n /\ n \in 0..N /\ n + 1 \in 0..N
    OBVIOUS
  <2> DEFINE a == TotalUpTo(us)[n]
             b == TotalUpTo(xs)[n]
             c == TotalUpTo(ys)[n]
             x == xs[n + 1]
             y == ys[n + 1]
  <2>2. /\ TotalUpTo(us)[n + 1] = a + us[n + 1] /\ TotalUpTo(xs)[n + 1] = b + x
        /\ TotalUpTo(ys)[n + 1] = c + y
        /\ b \in Nat /\ c \in Nat /\ x \in Nat /\ y \in Nat
    BY <1>1, <2>1 DEF AddsUp
  <2>3. a = b + c /\ us[n + 1] = x + y
    BY <1>3, <2>1
  <2> HIDE DEF a, b, c, x, y, T
  <2>4. TotalUpTo(us)[n + 1] = (b + x) + (c + y)
    BY <2>2, <2>3
  <2> QED BY <2>1, <2>2, <2>4 DEF T
<1>4. \A n \in 0..N : n \in T
  <2> HIDE DEF T
  <2> QED BY <1>2, <1>3, PrefixInduction
<1>5. N \in 0..N
  OBVIOUS
<1> QED BY <1>4, <1>5 DEF Total

LEMMA TotalZero ==
  ASSUME NEW N \in Nat, NEW xs \in Seq(Nat), Len(xs) = N, \A i \in 1..N : xs[i] = 0
  PROVE  Total(xs) = 0
<1>1. Total(xs) = Total(xs) + Total(xs)
  BY TotalSum
<1>2. Total(xs) \in Nat
  BY TotalType
<1> QED BY <1>1, <1>2

LEMMA TotalEmpty == Total(<< >>) = 0
<1>1. << >> \in Seq(Nat) /\ Len(<< >>) = 0
  BY EmptySeq
<1> QED BY <1>1, TotalUpToDef DEF Total

LEMMA TotalAppend ==
  ASSUME NEW xs \in Seq(Nat), NEW a \in Nat
  PROVE  Total(Append(xs, a)) = Total(xs) + a
<1> DEFINE ys == Append(xs, a)
           N == Len(xs)
<1>1. ys \in Seq(Nat) /\ Len(ys) = N + 1 /\ ys[N + 1] = a /\ N \in Nat
  BY AppendProperties, LenProperties
<1>2. \A i \in 1..N : xs[i] = ys[i]
  BY AppendProperties
<1>3. TotalUpTo(ys)[N] = TotalUpTo(xs)[N]
  <2>1. N <= Len(ys) /\ N <= Len(xs)
    BY <1>1
  <2> HIDE DEF ys, N
  <2> QED BY <1>1, <1>2, <2>1, TotalUpToPrefix
<1>4. TotalUpTo(ys)[N + 1] = TotalUpTo(ys)[N] + ys[N + 1]
  <2>1. N + 1 \in 1..Len(ys) /\ (N + 1) - 1 = N
    BY <1>1
  <2> HIDE DEF ys
  <2> QED BY <1>1, <2>1, TotalUpToDef
<1> QED BY <1>1, <1>3, <1>4 DEF Total

LEMMA TotalConcat ==
  ASSUME NEW xs \in Seq(Nat), NEW ys \in Seq(Nat)
  PROVE  Total(xs \o ys) = Total(xs) + Total(ys)
<1> DEFINE zs == xs \o ys
           M == Len(xs)
           T == {n \in 0..Len(ys) : TotalUpTo(zs)[M + n] = Total(xs) + TotalUpTo(ys)[n]}
<1>1. /\ zs \in Seq(Nat) /\ M \in Nat /\ Len(ys) \in Nat /\ Len(zs) = M + Len(ys)
      /\ \A i \in 1..M : zs[i] = xs[i]
      /\ \A i \in 1..Len(ys) : zs[M + i] = ys[i]
  <2>1. /\ zs \in Seq(Nat) /\ Len(zs) = M + Len(ys)
        /\ \A i \in 1..Len(zs) : zs[i] = IF i <= M THEN xs[i] ELSE ys[i - M]
    BY ConcatProperties
  <2>2. M \in Nat /\ Len(ys) \in Nat
    BY LenProperties
  <2> HIDE DEF zs, M
  <2>3. ASSUME NEW i \in 1..M PROVE zs[i] = xs[i]
    BY <2>1, <2>2
  <2>4. ASSUME NEW i \in 1..Len(ys) PROVE zs[M + i] = ys[i]
    <3>1. M + i \in 1..Len(zs) /\ ~ (M + i <= M) /\ (M + i) - M = i
      BY <2>1, <2>2
    <3> QED BY <2>1, <3>1
  <2> QED BY <2>1, <2>2, <2>3, <2>4
<1> HIDE DEF zs
<1>2. Total(xs) \in Nat /\ TotalUpTo(ys) \in [0..Len(ys) -> Nat]
  BY TotalType, TotalUpToDef
<1>3. 0 \in T
  <2>1. TotalUpTo(zs)[M] = TotalUpTo(xs)[M]
    <3>1. M <= Len(zs) /\ M <= Len(xs)
      BY <1>1
    <3> HIDE DEF M
    <3> QED BY <1>1, <3>1, TotalUpToPrefix
  <2>2. TotalUpTo(ys)[0] = 0 /\ M + 0 = M
    BY <1>1, TotalUpToDef
  <2> QED BY <1>1, <1>2, <2>1, <2>2 DEF Total
<1>4. ASSUME NEW n \in 0..(Len(ys) - 1), n \in T PROVE n + 1 \in T
  <2>1. n + 1 \in 1..Len(ys) /\ M + (n + 1) \in 1..Len(zs)
        /\ (M + (n + 1)) - 1 = M + n /\ (n + 1) - 1 = n
    BY <1>1
  <2>2. TotalUpTo(zs)[M + (n + 1)] = TotalUpTo(zs)[M + n] + zs[M + (n + 1)]
    BY <1>1, <2>1, TotalUpToDef
  <2>3. TotalUpTo(ys)[n + 1] = TotalUpTo(ys)[n] + ys[n + 1]
    BY <2>1, TotalUpToDef
  <2>4. ys[n + 1] \in Nat /\ TotalUpTo(ys)[n] \in Nat
    <3>1. n \in 0..Len(ys)
      BY <1>1
    <3> QED BY <1>2, <2>1, <3>1, ElementOfSeq
  <2>5. TotalUpTo(zs)[M + n] = Total(xs) + TotalUpTo(ys)[n]
    BY <1>4
  <2>6. zs[M + (n + 1)] = ys[n + 1]
    BY <1>1, <2>1
  <2>7. TotalUpTo(zs)[M + (n + 1)] = Total(xs) + TotalUpTo(ys)[n + 1]
    BY <1>2, <2>2, <2>3, <2>4, <2>5, <2>6
  <2> QED BY <2>1, <2>7
<1>5. \A n \in 0..Len(ys) : n \in T
  <2> HIDE DEF T
  <2> QED BY <1>1, <1>3, <1>4, PrefixInduction
<1> QED BY <1>1, <1>5 DEF Total, zs

-----------------------------------------------------------------------------
(* A filter goes through the list one element at a time, skips what is not *)
(* at one of the places and keeps the rest in its order.                   *)
LEMMA KeptUpToDef ==
  ASSUME NEW S, NEW xs \in Seq(S), NEW places
  PROVE  /\ KeptUpTo(xs, places) \in [0..Len(xs) -> Seq(S)]
         /\ KeptUpTo(xs, places)[0] = << >>
         /\ \A n \in 1..Len(xs) :
              KeptUpTo(xs, places)[n] =
                IF n \in places THEN Append(KeptUpTo(xs, places)[n - 1], xs[n])
                ELSE KeptUpTo(xs, places)[n - 1]
<1> DEFINE N == Len(xs)
           Q == Seq(S)
           h == [x \in (1..N) \X Q |-> IF x[1] \in places THEN Append(x[2], xs[x[1]]) ELSE x[2]]
           kept == KeptUpTo(xs, places)
<1>1. N \in Nat
  BY LenProperties
<1>2. ASSUME NEW n \in 1..N PROVE xs[n] \in S
  BY ElementOfSeq
<1>3. h \in [(1..N) \X Q -> Q]
  <2>1. ASSUME NEW x \in (1..N) \X Q
        PROVE  (IF x[1] \in places THEN Append(x[2], xs[x[1]]) ELSE x[2]) \in Q
    <3>1. x[1] \in 1..N /\ x[2] \in Seq(S)
      OBVIOUS
    <3>2. Append(x[2], xs[x[1]]) \in Seq(S)
      BY <1>2, <3>1, AppendProperties
    <3> QED BY <3>1, <3>2
  <2> QED BY <2>1
<1>4. << >> \in Q
  BY EmptySeq
<1>5. PICK f \in [0..N -> Q] : f[0] = << >> /\ \A k \in 1..N : f[k] = h[<<k, f[k - 1]>>]
  <2>1. h \in Steps(N, Q)
    BY <1>3 DEF Steps
  <2> HIDE DEF h, N, Q
  <2>2. HasRun(N, Q, << >>, h)
    BY <1>1, <1>4, <2>1, PrefixRecursion
  <2> QED BY <2>2 DEF HasRun, IsRun
<1>6. ASSUME NEW k \in 1..N
      PROVE  f[k] = IF k \in places THEN Append(f[k - 1], xs[k]) ELSE f[k - 1]
  <2>1. f[k - 1] \in Q
    BY <1>1, <1>5
  <2> QED BY <1>5, <2>1
<1>7. f = [k \in 0..N |-> IF k = 0 THEN << >>
                         ELSE IF k \in places THEN Append(f[k - 1], xs[k])
                         ELSE f[k - 1]]
  <2>1. ASSUME NEW k \in 0..N
        PROVE  f[k] = IF k = 0 THEN << >>
                      ELSE IF k \in places THEN Append(f[k - 1], xs[k])
                      ELSE f[k - 1]
    <3>1. CASE k = 0
      BY <1>5, <3>1
    <3>2. CASE k # 0
      <4>1. k \in 1..N
        BY <1>1, <3>2
      <4> QED BY <1>6, <3>2, <4>1, Zenon
    <3> QED BY <3>1, <3>2
  <2> QED BY <1>5, <2>1
<1>8. kept = [k \in 0..N |-> IF k = 0 THEN << >>
                            ELSE IF k \in places THEN Append(kept[k - 1], xs[k])
                            ELSE kept[k - 1]]
  BY <1>7, Zenon DEF KeptUpTo
<1> HIDE DEF kept
<1>9. kept[0] = << >>
  BY <1>1, <1>8
<1>10. ASSUME NEW k \in 1..N
       PROVE  kept[k] = IF k \in places THEN Append(kept[k - 1], xs[k]) ELSE kept[k - 1]
  <2>1. k \in 0..N /\ k # 0
    BY <1>1
  <2> QED BY <1>8, <2>1, Zenon
<1> DEFINE T == {n \in 0..N : kept[n] \in Seq(S)}
<1>11. 0 \in T
  <2>1. 0 \in 0..N
    BY <1>1
  <2>2. kept[0] \in Seq(S)
    BY <1>4, <1>9, Zenon
  <2> QED BY <2>1, <2>2, Zenon
<1>12. ASSUME NEW n \in 0..(N - 1), n \in T PROVE n + 1 \in T
  <2>1. n + 1 \in 1..N /\ kept[n] \in Seq(S) /\ (n + 1) - 1 = n
    BY <1>1, <1>12
  <2>2. Append(kept[n], xs[n + 1]) \in Seq(S)
    BY <1>2, <2>1, AppendProperties
  <2>3. kept[n + 1] \in Seq(S)
    BY <1>10, <2>1, <2>2
  <2> QED BY <2>1, <2>3
<1>13. \A n \in 0..N : n \in T
  <2> HIDE DEF T
  <2> QED BY <1>1, <1>11, <1>12, PrefixInduction
<1>14. kept \in [0..N -> Seq(S)]
  BY <1>8, <1>13
<1> QED BY <1>9, <1>10, <1>14 DEF kept

LEMMA KeptType ==
  ASSUME NEW S, NEW xs \in Seq(S), NEW places
  PROVE  Kept(xs, places) \in Seq(S)
<1>1. Len(xs) \in 0..Len(xs)
  BY LenProperties
<1> QED BY <1>1, KeptUpToDef DEF Kept

(* What is kept of a prefix depends on that prefix alone.                  *)
LEMMA KeptUpToPrefix ==
  ASSUME NEW S, NEW xs \in Seq(S), NEW ys \in Seq(S), NEW P, NEW Q, NEW m \in Nat,
         m <= Len(xs), m <= Len(ys),
         \A i \in 1..m : xs[i] = ys[i] /\ (i \in P <=> i \in Q)
  PROVE  KeptUpTo(xs, P)[m] = KeptUpTo(ys, Q)[m]
<1> DEFINE T == {n \in 0..m : KeptUpTo(xs, P)[n] = KeptUpTo(ys, Q)[n]}
<1>1. 0 \in T
  BY KeptUpToDef
<1>2. ASSUME NEW n \in 0..(m - 1), n \in T PROVE n + 1 \in T
  <2>1. n + 1 \in 1..Len(xs) /\ n + 1 \in 1..Len(ys) /\ n + 1 \in 1..m /\ (n + 1) - 1 = n
    BY LenProperties
  <2>2. KeptUpTo(xs, P)[n + 1] = IF n + 1 \in P THEN Append(KeptUpTo(xs, P)[n], xs[n + 1])
                                 ELSE KeptUpTo(xs, P)[n]
    BY <2>1, KeptUpToDef
  <2>3. KeptUpTo(ys, Q)[n + 1] = IF n + 1 \in Q THEN Append(KeptUpTo(ys, Q)[n], ys[n + 1])
                                 ELSE KeptUpTo(ys, Q)[n]
    BY <2>1, KeptUpToDef
  <2> QED BY <1>2, <2>1, <2>2, <2>3
<1>3. \A n \in 0..m : n \in T
  <2> HIDE DEF T
  <2> QED BY <1>1, <1>2, PrefixInduction
<1> QED BY <1>3

(* One element more is kept or not.                                        *)
LEMMA KeptAppend ==
  ASSUME NEW S, NEW xs \in Seq(S), NEW x \in S, NEW P, NEW Q,
         \A i \in 1..Len(xs) : i \in P <=> i \in Q
  PROVE  Kept(Append(xs, x), P) =
           IF Len(xs) + 1 \in P THEN Append(Kept(xs, Q), x) ELSE Kept(xs, Q)
<1> DEFINE N == Len(xs)
           ys == Append(xs, x)
<1>1. ys \in Seq(S) /\ Len(ys) = N + 1 /\ ys[N + 1] = x /\ N \in Nat
      /\ \A i \in 1..N : ys[i] = xs[i]
  BY AppendProperties, LenProperties
<1>2. N <= Len(xs) /\ N <= Len(ys) /\ N + 1 \in 1..Len(ys) /\ (N + 1) - 1 = N
  BY <1>1
<1> HIDE DEF ys
<1>3. KeptUpTo(ys, P)[N] = KeptUpTo(xs, Q)[N]
  BY <1>1, <1>2, KeptUpToPrefix
<1>4. KeptUpTo(ys, P)[N + 1] = IF N + 1 \in P THEN Append(KeptUpTo(ys, P)[N], ys[N + 1])
                               ELSE KeptUpTo(ys, P)[N]
  BY <1>1, <1>2, KeptUpToDef
<1> QED BY <1>1, <1>3, <1>4 DEF Kept, ys

(* One element more in front that is not kept shifts the places.           *)
LEMMA KeptSkipFirst ==
  ASSUME NEW S, NEW xs \in Seq(S), NEW x \in S, NEW P, NEW Q, 1 \notin P,
         \A i \in 1..Len(xs) : i + 1 \in P <=> i \in Q
  PROVE  Kept(<<x>> \o xs, P) = Kept(xs, Q)
<1> DEFINE N == Len(xs)
           ys == <<x>> \o xs
           T == {n \in 0..N : KeptUpTo(ys, P)[n + 1] = KeptUpTo(xs, Q)[n]}
<1>1. /\ N \in Nat /\ ys \in Seq(S) /\ Len(ys) = N + 1
      /\ \A i \in 1..N : ys[i + 1] = xs[i]
  <2>1. <<x>> \in Seq(S) /\ Len(<<x>>) = 1 /\ N \in Nat
    BY LenProperties
  <2>2. /\ ys \in Seq(S) /\ Len(ys) = 1 + N
        /\ \A i \in 1..Len(ys) : ys[i] = IF i <= 1 THEN <<x>>[i] ELSE xs[i - 1]
    BY <2>1, ConcatProperties
  <2> HIDE DEF ys
  <2>3. ASSUME NEW i \in 1..N PROVE ys[i + 1] = xs[i]
    <3>1. i + 1 \in 1..Len(ys) /\ ~ (i + 1 <= 1) /\ (i + 1) - 1 = i
      BY <2>1, <2>2
    <3> QED BY <2>2, <3>1
  <2> QED BY <2>1, <2>2, <2>3
<1> HIDE DEF ys
<1>2. 0 \in T
  <2>1. 1 \in 1..Len(ys) /\ 1 - 1 = 0
    BY <1>1
  <2>2. KeptUpTo(ys, P)[1] = KeptUpTo(ys, P)[0]
    BY <1>1, <2>1, KeptUpToDef
  <2> QED BY <1>1, <2>2, KeptUpToDef
<1>3. ASSUME NEW n \in 0..(N - 1), n \in T PROVE n + 1 \in T
  <2>1. n + 1 \in 1..N /\ (n + 1) + 1 \in 1..Len(ys) /\ (n + 1) - 1 = n
        /\ ((n + 1) + 1) - 1 = n + 1
    BY <1>1
  <2>2. KeptUpTo(ys, P)[(n + 1) + 1] =
          IF (n + 1) + 1 \in P THEN Append(KeptUpTo(ys, P)[n + 1], ys[(n + 1) + 1])
          ELSE KeptUpTo(ys, P)[n + 1]
    BY <1>1, <2>1, KeptUpToDef
  <2>3. KeptUpTo(xs, Q)[n + 1] = IF n + 1 \in Q THEN Append(KeptUpTo(xs, Q)[n], xs[n + 1])
                                 ELSE KeptUpTo(xs, Q)[n]
    BY <2>1, KeptUpToDef
  <2>4. ys[(n + 1) + 1] = xs[n + 1] /\ ((n + 1) + 1 \in P <=> n + 1 \in Q)
    BY <1>1, <2>1
  <2>5. KeptUpTo(ys, P)[(n + 1) + 1] = KeptUpTo(xs, Q)[n + 1]
    BY <1>3, <2>2, <2>3, <2>4
  <2> QED BY <2>1, <2>5
<1>4. \A n \in 0..N : n \in T
  <2> HIDE DEF T
  <2> QED BY <1>1, <1>2, <1>3, PrefixInduction
<1> QED BY <1>1, <1>4 DEF Kept, ys

(* pos is the list of the places up to n, in ascending order, and ys has   *)
(* what xs has there.                                                      *)
Locates(pos, ys, xs, places, n) ==
  /\ pos \in [1..Len(ys) -> 1..n]
  /\ \A k \in 1..Len(ys) : pos[k] \in places /\ ys[k] = xs[pos[k]]
  /\ \A j, k \in 1..Len(ys) : j < k => pos[j] < pos[k]
  /\ \A i \in 1..n : i \in places => \E k \in 1..Len(ys) : pos[k] = i

(* Every element kept comes from one place, and every place is kept once.  *)
LEMMA KeptLocates ==
  ASSUME NEW S, NEW xs \in Seq(S), NEW places
  PROVE  \E pos : Locates(pos, Kept(xs, places), xs, places, Len(xs))
<1> DEFINE N == Len(xs)
           T == {n \in 0..N : \E pos : Locates(pos, KeptUpTo(xs, places)[n], xs, places, n)}
<1>1. N \in Nat
  BY LenProperties
<1>2. 0 \in T
  <2>1. KeptUpTo(xs, places)[0] = << >>
    BY KeptUpToDef
  <2>2. Locates(<< >>, << >>, xs, places, 0)
    BY DEF Locates
  <2> QED BY <1>1, <2>1, <2>2
<1>3. ASSUME NEW n \in 0..(N - 1), n \in T PROVE n + 1 \in T
  <2> DEFINE ys == KeptUpTo(xs, places)[n]
             zs == KeptUpTo(xs, places)[n + 1]
  <2>1. n + 1 \in 1..N /\ n + 1 \in 0..N /\ n \in 0..N /\ n \in Nat /\ (n + 1) - 1 = n
    BY <1>1
  <2>2. zs = IF n + 1 \in places THEN Append(ys, xs[n + 1]) ELSE ys
    BY <2>1, KeptUpToDef
  <2>3. ys \in Seq(S) /\ xs[n + 1] \in S
    BY <2>1, KeptUpToDef, ElementOfSeq
  <2>4. PICK pos : Locates(pos, ys, xs, places, n)
    BY <1>3
  <2> HIDE DEF ys, zs
  <2>5. CASE n + 1 \notin places
    <3>1. Locates(pos, zs, xs, places, n + 1)
      <4>1. zs = ys
        BY <2>2, <2>5
      <4>2. pos \in [1..Len(ys) -> 1..(n + 1)]
        BY <2>1, <2>4 DEF Locates
      <4>3. ASSUME NEW i \in 1..(n + 1), i \in places
            PROVE  \E k \in 1..Len(ys) : pos[k] = i
        <5>1. i \in 1..n
          BY <2>1, <2>5, <4>3
        <5> QED BY <2>4, <4>3, <5>1 DEF Locates
      <4> QED BY <2>4, <4>1, <4>2, <4>3 DEF Locates
    <3> QED BY <2>1, <3>1 DEF zs
  <2>6. CASE n + 1 \in places
    <3> DEFINE L == Len(ys)
               new == [k \in 1..(L + 1) |-> IF k = L + 1 THEN n + 1 ELSE pos[k]]
    <3>1. L \in Nat
      BY <2>3, LenProperties
    <3>2. zs = Append(ys, xs[n + 1])
      BY <2>2, <2>6
    <3>3. Len(zs) = L + 1 /\ zs[L + 1] = xs[n + 1] /\ \A k \in 1..L : zs[k] = ys[k]
      BY <2>3, <3>2, AppendProperties
    <3>4. /\ pos \in [1..L -> 1..n]
          /\ \A k \in 1..L : pos[k] \in places /\ ys[k] = xs[pos[k]]
          /\ \A j, k \in 1..L : j < k => pos[j] < pos[k]
          /\ \A i \in 1..n : i \in places => \E k \in 1..L : pos[k] = i
      BY <2>4 DEF Locates
    <3> HIDE DEF L
    <3>5. ASSUME NEW k \in 1..(L + 1), k # L + 1 PROVE k \in 1..L /\ new[k] = pos[k]
      BY <3>1, <3>5
    <3>6. new[L + 1] = n + 1
      BY <3>1
    <3>7. new \in [1..(L + 1) -> 1..(n + 1)]
      BY <2>1, <3>1, <3>4
    <3>8. ASSUME NEW k \in 1..(L + 1) PROVE new[k] \in places /\ zs[k] = xs[new[k]]
      <4>1. CASE k = L + 1
        BY <2>6, <3>3, <3>6, <4>1
      <4>2. CASE k # L + 1
        BY <3>3, <3>4, <3>5, <4>2
      <4> QED BY <4>1, <4>2
    <3>9. ASSUME NEW j \in 1..(L + 1), NEW k \in 1..(L + 1), j < k PROVE new[j] < new[k]
      <4>1. j # L + 1
        BY <3>1, <3>9
      <4>2. j \in 1..L /\ new[j] = pos[j] /\ pos[j] \in 1..n
        BY <3>4, <3>5, <4>1
      <4>3. CASE k = L + 1
        BY <2>1, <3>6, <4>2, <4>3
      <4>4. CASE k # L + 1
        BY <3>4, <3>5, <3>9, <4>2, <4>4
      <4> QED BY <4>3, <4>4
    <3>10. ASSUME NEW i \in 1..(n + 1), i \in places
           PROVE  \E k \in 1..(L + 1) : new[k] = i
      <4>1. CASE i = n + 1
        <5>1. L + 1 \in 1..(L + 1)
          BY <3>1
        <5> QED BY <3>6, <4>1, <5>1
      <4>2. CASE i # n + 1
        <5>1. i \in 1..n
          BY <2>1, <4>2
        <5>2. PICK k \in 1..L : pos[k] = i
          BY <3>4, <3>10, <5>1
        <5>3. k \in 1..(L + 1) /\ k # L + 1
          BY <3>1
        <5> QED BY <3>5, <5>2, <5>3
      <4> QED BY <4>1, <4>2
    <3>11. Locates(new, zs, xs, places, n + 1)
      <4> HIDE DEF new
      <4> QED BY <3>3, <3>7, <3>8, <3>9, <3>10 DEF Locates
    <3> QED BY <2>1, <3>11 DEF zs
  <2> QED BY <2>5, <2>6
<1>4. \A n \in 0..N : n \in T
  <2> HIDE DEF T
  <2> QED BY <1>1, <1>2, <1>3, PrefixInduction
<1> QED BY <1>1, <1>4 DEF Kept

(* A filter that skips nothing gives the list back.                        *)
LEMMA KeptWhole ==
  ASSUME NEW S, NEW xs \in Seq(S), NEW places, 1..Len(xs) \subseteq places
  PROVE  Kept(xs, places) = xs
<1> DEFINE N == Len(xs)
           T == {n \in 0..N : /\ Len(KeptUpTo(xs, places)[n]) = n
                              /\ \A i \in 1..n : KeptUpTo(xs, places)[n][i] = xs[i]}
<1>1. N \in Nat
  BY LenProperties
<1>2. 0 \in T
  BY <1>1, KeptUpToDef, EmptySeq
<1>3. ASSUME NEW n \in 0..(N - 1), n \in T PROVE n + 1 \in T
  <2> DEFINE ys == KeptUpTo(xs, places)[n]
             zs == KeptUpTo(xs, places)[n + 1]
  <2>1. n + 1 \in 1..N /\ n + 1 \in 0..N /\ n \in 0..N /\ n \in Nat /\ (n + 1) - 1 = n
    BY <1>1
  <2>2. zs = Append(ys, xs[n + 1]) /\ ys \in Seq(S) /\ xs[n + 1] \in S
    <3>1. n + 1 \in places
      BY <2>1
    <3>2. zs = IF n + 1 \in places THEN Append(ys, xs[n + 1]) ELSE ys
      BY <2>1, KeptUpToDef
    <3>3. zs = Append(ys, xs[n + 1])
      BY <3>1, <3>2
    <3> QED BY <2>1, <3>3, KeptUpToDef, ElementOfSeq
  <2>3. Len(ys) = n /\ \A i \in 1..n : ys[i] = xs[i]
    BY <1>3
  <2>4. Len(zs) = n + 1 /\ \A i \in 1..(n + 1) : zs[i] = xs[i]
    <3> HIDE DEF ys, zs
    <3>1. Len(zs) = n + 1 /\ zs[n + 1] = xs[n + 1] /\ \A i \in 1..n : zs[i] = ys[i]
      BY <2>2, <2>3, AppendProperties
    <3> QED BY <2>1, <2>3, <3>1
  <2> QED BY <2>1, <2>4
<1>4. N \in T
  <2>1. \A n \in 0..N : n \in T
    <3> HIDE DEF T
    <3> QED BY <1>1, <1>2, <1>3, PrefixInduction
  <2>2. N \in 0..N
    BY <1>1
  <2> HIDE DEF T
  <2> QED BY <2>1, <2>2
<1>5. Len(Kept(xs, places)) = N /\ \A i \in 1..N : Kept(xs, places)[i] = xs[i]
  BY <1>4 DEF Kept
<1>6. Kept(xs, places) \in Seq(S)
  BY KeptType
<1> HIDE DEF N
<1> QED BY <1>5, <1>6, SeqEqual DEF N

LEMMA SubSeqAppend ==
  ASSUME NEW S, NEW xs \in Seq(S), NEW x \in S
  PROVE  SubSeq(Append(xs, x), 1, Len(xs)) = xs
<1> DEFINE N == Len(xs)
           ys == Append(xs, x)
           zs == SubSeq(ys, 1, N)
<1>1. N \in Nat /\ \A i \in 1..N : ys[i] = xs[i] /\ xs[i] \in S
  BY AppendProperties, LenProperties, ElementOfSeq
<1> HIDE DEF ys
<1>2. /\ zs \in Seq(S) /\ Len(zs) = IF 1 <= N THEN N - 1 + 1 ELSE 0
      /\ \A i \in 1..(N - 1 + 1) : zs[i] = ys[1 + i - 1]
  BY <1>1, SubSeqProperties
<1> HIDE DEF zs
<1>3. Len(zs) = N /\ \A i \in 1..N : zs[i] = xs[i]
  BY <1>1, <1>2
<1>4. zs = xs
  BY <1>2, <1>3, SeqEqual
<1> QED BY <1>4 DEF zs, ys

-----------------------------------------------------------------------------
(* Folds over finite sets, and along a list.                               *)

(* What a fold over the members of s is, given the folds over smaller      *)
(* sets, when the member to come last is c[s]: the recursion of            *)
(* MapThenFoldSet.                                                         *)
FoldStep(a0, h, c, g, s) == IF s = {} THEN a0 ELSE h[<<c[s], g[s \ {c[s]}]>>]
IsFold(a0, h, c, D, g) == g = [s \in SUBSET D |-> FoldStep(a0, h, c, g, s)]
Picks(c, D) == /\ c \in [(SUBSET D) \ {{}} -> D]
               /\ \A s \in (SUBSET D) \ {{}} : c[s] \in s

(* Folds exist.  A run of the recursion Card(D) times over, from folds     *)
(* that are all a0, is right for every set, since it is right after n      *)
(* steps for the sets of n members.                                        *)
LEMMA FoldExists ==
  ASSUME NEW D, IsFiniteSet(D), NEW B, NEW a0 \in B, NEW h \in [D \X B -> B],
         NEW c, Picks(c, D)
  PROVE  \E g \in [SUBSET D -> B] : IsFold(a0, h, c, D, g)
<1> DEFINE N == Cardinality(D)
           A == [SUBSET D -> B]
           zero == [s \in SUBSET D |-> a0]
           H == [x \in (1..N) \X A |-> [s \in SUBSET D |-> FoldStep(a0, h, c, x[2], s)]]
<1>1. N \in Nat
  BY FS_CardinalityType
<1>2. ASSUME NEW s \in SUBSET D, s # {}
      PROVE  c[s] \in s /\ c[s] \in D /\ s \ {c[s]} \in SUBSET D
  BY <1>2 DEF Picks
<1>3. ASSUME NEW g \in A, NEW s \in SUBSET D PROVE FoldStep(a0, h, c, g, s) \in B
  <2>1. CASE s = {}
    BY <2>1 DEF FoldStep
  <2>2. CASE s # {}
    <3>1. c[s] \in D /\ g[s \ {c[s]}] \in B
      BY <1>2, <2>2
    <3>2. FoldStep(a0, h, c, g, s) = h[<<c[s], g[s \ {c[s]}]>>]
      BY <2>2 DEF FoldStep
    <3> QED BY <3>1, <3>2
  <2> QED BY <2>1, <2>2
<1>4. H \in [(1..N) \X A -> A]
  BY <1>3
<1>5. PICK F \in [0..N -> A] : F[0] = zero /\ \A k \in 1..N : F[k] = H[<<k, F[k - 1]>>]
  <2>1. H \in Steps(N, A) /\ zero \in A
    BY <1>4 DEF Steps
  <2> HIDE DEF H, N, A, zero
  <2>2. HasRun(N, A, zero, H)
    BY <1>1, <2>1, PrefixRecursion
  <2> QED BY <2>2 DEF HasRun, IsRun
<1>6. ASSUME NEW k \in 1..N, NEW s \in SUBSET D
      PROVE  F[k][s] = FoldStep(a0, h, c, F[k - 1], s)
  <2>1. k - 1 \in 0..N
    BY <1>1
  <2>2. F[k - 1] \in A
    <3> HIDE DEF A
    <3> QED BY <1>5, <2>1
  <2>3. F[k] = [r \in SUBSET D |-> FoldStep(a0, h, c, F[k - 1], r)]
    BY <1>5, <2>2
  <2> QED BY <2>3
<1> HIDE DEF H
<1>7. ASSUME NEW s \in SUBSET D
      PROVE  /\ IsFiniteSet(s) /\ Cardinality(s) \in Nat /\ Cardinality(s) <= N
             /\ s # {} => Cardinality(s \ {c[s]}) = Cardinality(s) - 1
  <2>1. IsFiniteSet(s) /\ Cardinality(s) <= N
    BY FS_Subset
  <2>2. s # {} => Cardinality(s \ {c[s]}) = Cardinality(s) - 1
    BY <1>2, <2>1, FS_RemoveElement
  <2> QED BY <2>1, <2>2, FS_CardinalityType
<1> DEFINE T == {n \in 0..N : \A s \in SUBSET D :
                   Cardinality(s) <= n => F[n][s] = FoldStep(a0, h, c, F[n], s)}
<1>8. 0 \in T
  <2>1. ASSUME NEW s \in SUBSET D, Cardinality(s) <= 0
        PROVE  F[0][s] = FoldStep(a0, h, c, F[0], s)
    <3>1. IsFiniteSet(s) /\ Cardinality(s) = 0
      <4>1. IsFiniteSet(s) /\ Cardinality(s) \in Nat
        BY <1>7
      <4> QED BY <2>1, <4>1
    <3>2. s = {}
      BY <3>1, FS_EmptySet
    <3> QED BY <1>5, <3>2 DEF FoldStep
  <2> QED BY <1>1, <2>1
<1>9. ASSUME NEW n \in 0..(N - 1), n \in T PROVE n + 1 \in T
  <2>1. n + 1 \in 1..N /\ n + 1 \in 0..N /\ (n + 1) - 1 = n
    BY <1>1
  <2>2. ASSUME NEW s \in SUBSET D, Cardinality(s) <= n + 1
        PROVE  F[n + 1][s] = FoldStep(a0, h, c, F[n + 1], s)
    <3>1. F[n + 1][s] = FoldStep(a0, h, c, F[n], s)
      BY <1>6, <2>1
    <3>2. CASE s = {}
      BY <3>1, <3>2 DEF FoldStep
    <3>3. CASE s # {}
      <4>1. s \ {c[s]} \in SUBSET D /\ Cardinality(s \ {c[s]}) <= n
        <5>1. s \ {c[s]} \in SUBSET D
          BY <1>2, <3>3
        <5>2. Cardinality(s \ {c[s]}) = Cardinality(s) - 1 /\ Cardinality(s) \in Nat
          BY <1>7, <3>3
        <5> QED BY <2>2, <5>1, <5>2
      <4>2. F[n][s \ {c[s]}] = FoldStep(a0, h, c, F[n], s \ {c[s]})
        BY <1>9, <4>1
      <4>3. F[n + 1][s \ {c[s]}] = FoldStep(a0, h, c, F[n], s \ {c[s]})
        BY <1>6, <2>1, <4>1
      <4> QED BY <3>1, <3>3, <4>2, <4>3 DEF FoldStep
    <3> QED BY <3>2, <3>3
  <2> QED BY <2>1, <2>2
<1>10. N \in T
  <2>1. \A n \in 0..N : n \in T
    <3> HIDE DEF T
    <3> QED BY <1>1, <1>8, <1>9, PrefixInduction
  <2>2. N \in 0..N
    BY <1>1
  <2> HIDE DEF T
  <2> QED BY <2>1, <2>2
<1>11. F[N] \in A
  BY <1>1, <1>5
<1>12. ASSUME NEW s \in SUBSET D PROVE F[N][s] = FoldStep(a0, h, c, F[N], s)
  BY <1>7, <1>10
<1> HIDE DEF N
<1>13. IsFold(a0, h, c, D, F[N])
  BY <1>11, <1>12 DEF IsFold
<1> QED BY <1>11, <1>13

(* A set of places has a last one.                                         *)
LEMMA LastIsIn ==
  ASSUME NEW N \in Nat, NEW at \in SUBSET (1..N), at # {}
  PROVE  Max(at) \in at /\ \A i \in at : i <= Max(at)
<1> DEFINE above == {N - i : i \in at}
<1>1. above \in SUBSET Nat /\ above # {}
  <2>1. ASSUME NEW i \in at PROVE N - i \in Nat
    OBVIOUS
  <2> QED BY <2>1
<1>2. PICK x \in above : \A y \in above : ~ (y < x)
  <2>1. IsWellFoundedOn(OpToRel(<, Nat), Nat)
    BY NatLessThanWellFounded
  <2> HIDE DEF above
  <2>2. PICK x \in above : \A y \in above : ~ (<<y, x>> \in OpToRel(<, Nat))
    BY <1>1, <2>1, WFMin
  <2> QED BY <1>1, <2>2 DEF OpToRel
<1>3. PICK i \in at : x = N - i
  BY <1>2
<1>4. ASSUME NEW j \in at PROVE i >= j
  <2>1. ~ (N - j < N - i)
    BY <1>2, <1>3
  <2>2. i \in Nat /\ j \in Nat
    OBVIOUS
  <2> QED BY <2>1, <2>2
<1>5. \E m \in at : \A y \in at : m >= y
  BY <1>4
<1>6. Max(at) \in at /\ \A y \in at : Max(at) >= y
  <2> HIDE DEF above
  <2> QED BY <1>5 DEF Max
<1> HIDE DEF above
<1> QED BY <1>6

(* The largest of 1..n is n.                                               *)
LEMMA LastOfInterval ==
  ASSUME NEW n \in Nat, n # 0
  PROVE  Max(1..n) = n
<1>1. (1..n) \in SUBSET (1..n) /\ 1..n # {} /\ n \in 1..n
  OBVIOUS
<1> DEFINE m == Max(1..n)
<1>2. \E x \in 1..n : \A y \in 1..n : x >= y
  BY <1>1
<1>3. m \in 1..n /\ \A y \in 1..n : m >= y
  BY <1>2 DEF Max
<1> HIDE DEF m
<1> QED BY <1>1, <1>3 DEF m

LEMMA LastPicks ==
  ASSUME NEW N \in Nat
  PROVE  Picks([s \in (SUBSET (1..N)) \ {{}} |-> Max(s)], 1..N)
<1>1. ASSUME NEW s \in (SUBSET (1..N)) \ {{}} PROVE Max(s) \in s
  BY <1>1, LastIsIn
<1> QED BY <1>1 DEF Picks

(* The first numbers are as many as the last of them says.                 *)
LEMMA PrefixIsFinite ==
  ASSUME NEW N \in Nat
  PROVE  IsFiniteSet(1..N) /\ Cardinality(1..N) = N
<1>1. 1 \in Int /\ N \in Int
  OBVIOUS
<1>2. IsFiniteSet(1..N) /\ Cardinality(1..N) = (IF 1 > N THEN 0 ELSE N - 1 + 1)
  BY ONLY <1>1, FS_Interval
<1>3. (IF 1 > N THEN 0 ELSE N - 1 + 1) = N
  OBVIOUS
<1> QED BY <1>2, <1>3

(* A fold along a list: f[n] is the fold of its first n elements.          *)
IsFoldLeft(it, N, A, a0, h) ==
  it = [s \in SUBSET (1..N) |-> IF s = {} THEN a0 ELSE h[<<Max(s), it[s \ {Max(s)}]>>]]

LEMMA FoldLeftExists ==
  ASSUME NEW N \in Nat, NEW A, NEW a0 \in A, NEW h \in Steps(N, A)
  PROVE  \E it \in [SUBSET (1..N) -> A] : IsFoldLeft(it, N, A, a0, h)
<1> DEFINE D == 1..N
           c == [s \in (SUBSET D) \ {{}} |-> Max(s)]
<1>1. IsFiniteSet(D)
  BY PrefixIsFinite
<1>2. Picks(c, D)
  BY LastPicks
<1>3. h \in [D \X A -> A]
  BY DEF Steps
<1>4. PICK g \in [SUBSET D -> A] : IsFold(a0, h, c, D, g)
  <2> HIDE DEF c, D
  <2> QED BY <1>1, <1>2, <1>3, FoldExists
<1>5. ASSUME NEW s \in SUBSET D
      PROVE  g[s] = IF s = {} THEN a0 ELSE h[<<Max(s), g[s \ {Max(s)}]>>]
  <2>1. g[s] = FoldStep(a0, h, c, g, s)
    <3> HIDE DEF c, D
    <3> QED BY <1>4 DEF IsFold
  <2>2. s # {} => c[s] = Max(s)
    OBVIOUS
  <2> HIDE DEF c
  <2> QED BY <2>1, <2>2 DEF FoldStep
<1>6. IsFoldLeft(g, N, A, a0, h)
  BY <1>5 DEF IsFoldLeft
<1> QED BY <1>6

(* The last of the first n elements, and those before it.                  *)
LEMMA PrefixParts ==
  ASSUME NEW N \in Nat, NEW n \in 1..N
  PROVE  /\ (1..n) \in SUBSET (1..N) /\ 1..n # {}
         /\ Max(1..n) = n /\ (1..n) \ {Max(1..n)} = 1..(n - 1)
<1>1. /\ (1..n) \in SUBSET (1..N) /\ 1..n # {} /\ (1..n) \ {n} = 1..(n - 1) /\ n # 0
      /\ n \in Nat
  OBVIOUS
<1>2. Max(1..n) = n
  BY <1>1, LastOfInterval
<1> QED BY <1>1, <1>2

-----------------------------------------------------------------------------
(* Sums over finite sets.                                                  *)

(* What a sum over the members of s is, given the sums over smaller sets:  *)
(* the recursion of MapThenFoldSet.                                        *)
SumStep(f, g, s) ==
  IF s = {} THEN 0
  ELSE f[CHOOSE x \in s : TRUE] + g[s \ {CHOOSE x \in s : TRUE}]

IsSum(f, D, g) == g = [s \in SUBSET D |-> SumStep(f, g, s)]

(* Sums exist: they are folds.                                             *)
LEMMA SumExists ==
  ASSUME NEW D, IsFiniteSet(D), NEW f \in [D -> Nat]
  PROVE  \E g \in [SUBSET D -> Nat] : IsSum(f, D, g)
<1> DEFINE h == [p \in D \X Nat |-> f[p[1]] + p[2]]
           c == [s \in (SUBSET D) \ {{}} |-> CHOOSE x \in s : TRUE]
<1>1. h \in [D \X Nat -> Nat] /\ 0 \in Nat
  OBVIOUS
<1>2. Picks(c, D) /\ \A s \in SUBSET D : s # {} => c[s] = CHOOSE x \in s : TRUE
  BY DEF Picks
<1>3. PICK g \in [SUBSET D -> Nat] : IsFold(0, h, c, D, g)
  <2> DEFINE B == Nat
  <2>1. /\ IsFiniteSet(D) /\ 0 \in B /\ h \in [D \X B -> B] /\ Picks(c, D)
    BY <1>1, <1>2
  <2> HIDE DEF h, c, B
  <2>2. \E g \in [SUBSET D -> B] : IsFold(0, h, c, D, g)
    BY ONLY <2>1, FoldExists
  <2> QED BY <2>2 DEF B
<1>4. ASSUME NEW s \in SUBSET D PROVE g[s] = SumStep(f, g, s)
  <2>1. g[s] = FoldStep(0, h, c, g, s)
    <3> HIDE DEF h, c
    <3> QED BY <1>3 DEF IsFold
  <2>2. CASE s = {}
    BY <2>1, <2>2 DEF FoldStep, SumStep
  <2>3. CASE s # {}
    <3>1. c[s] \in D /\ c[s] = (CHOOSE x \in s : TRUE) /\ g[s \ {c[s]}] \in Nat
      <4> HIDE DEF c
      <4> QED BY <1>2, <2>3 DEF Picks
    <3> HIDE DEF c
    <3>2. g[s] = h[<<c[s], g[s \ {c[s]}]>>]
      <4> HIDE DEF h
      <4> QED BY <2>1, <2>3 DEF FoldStep
    <3>3. g[s] = f[c[s]] + g[s \ {c[s]}]
      BY <3>1, <3>2
    <3> QED BY <2>3, <3>1, <3>3 DEF SumStep
  <2> QED BY <2>2, <2>3
<1> QED BY <1>4 DEF IsSum

(* The sum over a function's domain is the one its definition picks.       *)
LEMMA SumIsPicked ==
  ASSUME NEW D, NEW f, DOMAIN f = D
  PROVE  SumFunction(f) = (CHOOSE g : IsSum(f, D, g))[D]
BY DEF SumFunction, SumFunctionOnSet, FoldFunctionOnSet, MapThenFoldSet, IsSum, SumStep

(* A list of all members of D, none twice.                                 *)
Lists(b, N, D) ==
  /\ b \in [1..N -> D]
  /\ \A i, j \in 1..N : b[i] = b[j] => i = j
  /\ \A x \in D : \E i \in 1..N : b[i] = x

(* The sum of a function's values is the total along any such list.        *)
LEMMA SumIsListed ==
  ASSUME NEW N \in Nat, NEW D, NEW b, Lists(b, N, D), NEW f \in [D -> Nat]
  PROVE  SumFunction(f) = Total([i \in 1..N |-> f[b[i]]])
<1> DEFINE g == CHOOSE q : IsSum(f, D, q)
           c(s) == CHOOSE x \in s : TRUE
           masked(s) == [i \in 1..N |-> IF b[i] \in s THEN f[b[i]] ELSE 0]
           T == {n \in 0..N : \A s \in SUBSET D : Cardinality(s) <= n => g[s] = Total(masked(s))}
<1>0. /\ b \in [1..N -> D]
      /\ \A i, j \in 1..N : b[i] = b[j] => i = j
      /\ \A x \in D : \E i \in 1..N : b[i] = x
  BY DEF Lists
<1>1. IsFiniteSet(D) /\ Cardinality(D) = N
  <2>1. IsFiniteSet(1..N) /\ Cardinality(1..N) = N
    BY PrefixIsFinite
  <2>2. b \in Surjection(1..N, D) /\ b \in Injection(1..N, D)
    BY <1>0 DEF Surjection, Injection, IsInjective
  <2>3. IsFiniteSet(D) /\ Cardinality(D) <= N
    BY <2>1, <2>2, FS_Surjection
  <2>4. Cardinality(1..N) <= Cardinality(D)
    BY <2>1, <2>2, <2>3, FS_Injection
  <2>5. Cardinality(D) \in Nat
    BY <2>3, FS_CardinalityType
  <2> QED BY <2>1, <2>3, <2>4, <2>5
<1>2. IsSum(f, D, g)
  BY <1>1, SumExists
<1>3. ASSUME NEW s \in SUBSET D PROVE g[s] = SumStep(f, g, s)
  <2> HIDE DEF g
  <2> QED BY <1>2 DEF IsSum
<1>4. ASSUME NEW s \in SUBSET D
      PROVE  /\ IsFiniteSet(s) /\ Cardinality(s) \in Nat /\ Cardinality(s) <= N
             /\ s # {} => /\ Cardinality(s \ {c(s)}) = Cardinality(s) - 1
                          /\ c(s) \in s /\ f[c(s)] \in Nat /\ s \ {c(s)} \in SUBSET D
  <2>1. IsFiniteSet(s) /\ Cardinality(s) <= N
    BY <1>1, FS_Subset
  <2>2. s # {} => c(s) \in s
    OBVIOUS
  <2>3. s # {} => f[c(s)] \in Nat /\ s \ {c(s)} \in SUBSET D
    BY <2>2
  <2>4. s # {} => Cardinality(s \ {c(s)}) = Cardinality(s) - 1
    BY <2>1, <2>2, FS_RemoveElement
  <2> QED BY <2>1, <2>2, <2>3, <2>4, FS_CardinalityType
<1>5. ASSUME NEW s \in SUBSET D
      PROVE  masked(s) \in Seq(Nat) /\ Len(masked(s)) = N /\ Total(masked(s)) \in Nat
  <2>1. masked(s) \in [1..N -> Nat]
    BY <1>0
  <2> HIDE DEF masked
  <2>2. masked(s) \in Seq(Nat) /\ Len(masked(s)) = N
    BY <2>1, IsASeq
  <2> QED BY <2>2, TotalType
<1> HIDE DEF g, c
<1>6. ASSUME NEW s \in SUBSET D, s # {} PROVE g[s] = f[c(s)] + g[s \ {c(s)}]
  BY <1>3, <1>6 DEF SumStep, c
<1>7. g[{}] = 0
  BY <1>3 DEF SumStep
<1>8. 0 \in T
  <2>1. ASSUME NEW s \in SUBSET D, Cardinality(s) <= 0 PROVE g[s] = Total(masked(s))
    <3>1. s = {}
      <4>1. IsFiniteSet(s) /\ Cardinality(s) = 0
        <5>1. IsFiniteSet(s) /\ Cardinality(s) \in Nat
          BY <1>4
        <5> QED BY <2>1, <5>1
      <4> QED BY <4>1, FS_EmptySet
    <3>2. Total(masked(s)) = 0
      <4>1. \A i \in 1..N : masked(s)[i] = 0
        BY <3>1
      <4> HIDE DEF masked
      <4> QED BY <1>5, <4>1, TotalZero
    <3> QED BY <1>7, <3>1, <3>2
  <2> QED BY <2>1
<1>9. ASSUME NEW n \in 0..(N - 1), n \in T PROVE n + 1 \in T
  <2>1. n + 1 \in 0..N
    OBVIOUS
  <2>2. ASSUME NEW s \in SUBSET D, Cardinality(s) <= n + 1 PROVE g[s] = Total(masked(s))
    <3>1. CASE s = {}
      <4>1. Cardinality(s) <= n
        BY <3>1, FS_EmptySet
      <4> QED BY <1>9, <4>1
    <3>2. CASE s # {}
      <4> DEFINE x == c(s)
                 r == s \ {x}
                 as == masked(s)
                 ar == masked(r)
      <4>1. /\ r \in SUBSET D /\ Cardinality(r) = Cardinality(s) - 1 /\ x \in s
            /\ f[x] \in Nat /\ Cardinality(s) \in Nat
        BY <1>4, <3>2
      <4>2. g[r] = Total(ar)
        <5>1. Cardinality(r) <= n
          <6> HIDE DEF r
          <6> QED BY <2>2, <4>1
        <5> QED BY <1>9, <4>1, <5>1
      <4>3. g[s] = f[x] + g[r]
        BY <1>6, <3>2
      <4>8. PICK m \in 1..N : b[m] = x
        BY <1>0, <4>1
      <4>4. as[m] = f[x] /\ ar[m] = 0 /\ \A i \in 1..N : i # m => as[i] = ar[i]
        BY <1>0, <4>1, <4>8
      <4>5. /\ as \in Seq(Nat) /\ Len(as) = N /\ Total(as) \in Nat
            /\ ar \in Seq(Nat) /\ Len(ar) = N /\ Total(ar) \in Nat
        BY <1>5, <4>1
      <4> HIDE DEF as, ar, x
      <4>6. Total(as) + ar[m] = Total(ar) + as[m]
        BY <4>4, <4>5, TotalReplace
      <4> HIDE DEF r
      <4>7. g[s] = Total(as)
        <5>1. Total(as) \in Nat /\ Total(ar) \in Nat /\ f[x] \in Nat
          BY <4>1, <4>5
        <5>2. Total(as) + 0 = Total(ar) + f[x]
          BY <4>4, <4>6
        <5>3. g[s] = f[x] + Total(ar)
          BY <4>2, <4>3
        <5> DEFINE p == Total(as)
                   q == Total(ar)
                   v == f[x]
        <5> HIDE DEF p, q, v
        <5>4. p \in Nat /\ q \in Nat /\ v \in Nat /\ p + 0 = q + v /\ g[s] = v + q
          BY <5>1, <5>2, <5>3 DEF p, q, v
        <5>5. g[s] = p
          BY <5>4
        <5> QED BY <5>5 DEF p
      <4> QED BY <4>7 DEF as
    <3> QED BY <3>1, <3>2
  <2> QED BY <2>1, <2>2
<1>10. \A n \in 0..N : n \in T
  <2> HIDE DEF T
  <2> QED BY <1>8, <1>9, PrefixInduction
<1>11. g[D] = Total(masked(D))
  <2>1. N \in T /\ D \in SUBSET D /\ Cardinality(D) <= N
    BY <1>1, <1>10
  <2> QED BY <2>1
<1>12. masked(D) = [i \in 1..N |-> f[b[i]]]
  BY <1>0
<1>13. SumFunction(f) = g[D]
  BY SumIsPicked DEF g
<1> QED BY <1>11, <1>12, <1>13

LEMMA SumIsTotal ==
  ASSUME NEW N \in Nat, NEW f \in [1..N -> Nat]
  PROVE  SumFunction(f) = Total(f)
<1> DEFINE b == [i \in 1..N |-> i]
           D == 1..N
<1>1. Lists(b, N, D)
  BY DEF Lists
<1>2. [i \in 1..N |-> f[b[i]]] = f
  OBVIOUS
<1>3. f \in [D -> Nat]
  OBVIOUS
<1> HIDE DEF b, D
<1>4. SumFunction(f) = Total([i \in 1..N |-> f[b[i]]])
  BY <1>1, <1>3, SumIsListed
<1> QED BY <1>2, <1>4

LEMMA SumFunctionType ==
  ASSUME NEW D, IsFiniteSet(D), NEW f \in [D -> Nat]
  PROVE  SumFunction(f) \in Nat
<1> DEFINE g == CHOOSE q : IsSum(f, D, q)
           T == {n \in 0..Cardinality(D) : \A s \in SUBSET D : Cardinality(s) <= n => g[s] \in Nat}
           c(s) == CHOOSE x \in s : TRUE
<1>1. IsSum(f, D, g)
  BY SumExists
<1>2. ASSUME NEW s \in SUBSET D PROVE g[s] = SumStep(f, g, s)
  <2> HIDE DEF g
  <2> QED BY <1>1 DEF IsSum
<1>3. Cardinality(D) \in Nat
  BY FS_CardinalityType
<1>4. ASSUME NEW s \in SUBSET D
      PROVE  /\ IsFiniteSet(s) /\ Cardinality(s) \in Nat /\ Cardinality(s) <= Cardinality(D)
             /\ s # {} => /\ Cardinality(s \ {c(s)}) = Cardinality(s) - 1
                          /\ f[c(s)] \in Nat /\ s \ {c(s)} \in SUBSET D
  <2>1. IsFiniteSet(s) /\ Cardinality(s) <= Cardinality(D)
    BY FS_Subset
  <2>2. s # {} => c(s) \in s
    OBVIOUS
  <2>3. s # {} => f[c(s)] \in Nat /\ s \ {c(s)} \in SUBSET D
    BY <2>2
  <2>4. s # {} => Cardinality(s \ {c(s)}) = Cardinality(s) - 1
    BY <2>1, <2>2, FS_RemoveElement
  <2> QED BY <2>1, <2>3, <2>4, FS_CardinalityType
<1> HIDE DEF g, c
<1>5. ASSUME NEW s \in SUBSET D, s # {} PROVE g[s] = f[c(s)] + g[s \ {c(s)}]
  BY <1>2, <1>5 DEF SumStep, c
<1>6. g[{}] = 0
  BY <1>2 DEF SumStep
<1>7. 0 \in T
  <2>1. ASSUME NEW s \in SUBSET D, Cardinality(s) <= 0 PROVE s = {}
    <3>1. IsFiniteSet(s) /\ Cardinality(s) = 0
      <4>1. IsFiniteSet(s) /\ Cardinality(s) \in Nat
        BY <1>4
      <4> QED BY <2>1, <4>1
    <3> QED BY <3>1, FS_EmptySet
  <2> QED BY <1>3, <1>6, <2>1
<1>8. ASSUME NEW n \in 0..(Cardinality(D) - 1), n \in T PROVE n + 1 \in T
  <2>1. n \in Nat /\ n + 1 \in 0..Cardinality(D)
    BY <1>3
  <2>2. ASSUME NEW s \in SUBSET D, Cardinality(s) <= n + 1 PROVE g[s] \in Nat
    <3>1. CASE s = {}
      BY <1>6, <3>1
    <3>2. CASE s # {}
      <4>1. /\ Cardinality(s) \in Nat /\ Cardinality(s \ {c(s)}) = Cardinality(s) - 1
            /\ f[c(s)] \in Nat /\ s \ {c(s)} \in SUBSET D
        BY <1>4, <3>2
      <4>2. Cardinality(s \ {c(s)}) <= n
        BY <2>1, <2>2, <4>1
      <4>3. g[s \ {c(s)}] \in Nat
        BY <1>8, <4>1, <4>2
      <4> QED BY <1>5, <3>2, <4>1, <4>3
    <3> QED BY <3>1, <3>2
  <2> QED BY <2>1, <2>2
<1>9. Cardinality(D) \in T
  <2>1. \A n \in 0..Cardinality(D) : n \in T
    <3> HIDE DEF T
    <3> QED BY <1>3, <1>7, <1>8, PrefixInduction
  <2>2. Cardinality(D) \in 0..Cardinality(D)
    BY <1>3
  <2> HIDE DEF T
  <2> QED BY <2>1, <2>2
<1>10. g[D] \in Nat
  BY <1>3, <1>9
<1> QED BY <1>10, SumIsPicked DEF g

-----------------------------------------------------------------------------
(* Flattening a list of lists puts them one after another.                 *)
LEMMA FlattenRun ==
  ASSUME NEW S, NEW seqs \in Seq(Seq(S))
  PROVE  \E f \in [0..Len(seqs) -> Seq(S)] :
           /\ f[0] = << >>
           /\ \A n \in 1..Len(seqs) : f[n] = f[n - 1] \o seqs[n]
           /\ FlattenSeq(seqs) = f[Len(seqs)]
<1> DEFINE N == Len(seqs)
           Q == Seq(S)
           h == [x \in (1..N) \X Q |-> x[2] \o seqs[x[1]]]
           flat == CHOOSE f : f = [i \in 1..N |-> IF i = 1 THEN seqs[i] ELSE f[i - 1] \o seqs[i]]
<1>1. N \in Nat /\ \A i \in 1..N : seqs[i] \in Q
  BY LenProperties, ElementOfSeq
<1>2. << >> \in Q
  BY EmptySeq
<1>3. h \in Steps(N, Q)
  <2>1. ASSUME NEW i \in 1..N, NEW before \in Q PROVE before \o seqs[i] \in Q
    <3>1. seqs[i] \in Q
      BY <1>1
    <3> QED BY <3>1, ConcatProperties
  <2> HIDE DEF Q
  <2> QED BY <2>1 DEF Steps
<1>4. PICK f : IsRun(f, N, Q, << >>, h)
  <2> HIDE DEF h, N, Q
  <2> QED BY <1>1, <1>2, <1>3, PrefixRecursion DEF HasRun
<1>5. f \in [0..N -> Q] /\ f[0] = << >>
  <2> HIDE DEF h, Q
  <2> QED BY <1>4 DEF IsRun
<1>6. ASSUME NEW n \in 1..N PROVE f[n] = f[n - 1] \o seqs[n]
  <2>1. n - 1 \in 0..N
    BY <1>1
  <2>2. f[n - 1] \in Q
    <3> HIDE DEF Q
    <3> QED BY <1>5, <2>1
  <2>3. f[n] = h[<<n, f[n - 1]>>]
    <3> HIDE DEF h, Q
    <3> QED BY <1>4 DEF IsRun
  <2> HIDE DEF Q
  <2> QED BY <2>2, <2>3
<1>7. FlattenSeq(seqs) = f[N]
  <2>1. CASE N = 0
    <3>1. seqs = << >>
      BY <2>1, EmptySeq
    <3>2. FlattenSeq(seqs) = << >>
      BY <2>1, <3>1 DEF FlattenSeq
    <3> QED BY <1>5, <2>1, <3>2
  <2>2. CASE N # 0
    <3>1. f[1] = seqs[1]
      <4>1. 1 \in 1..N /\ seqs[1] \in Q /\ 1 - 1 = 0
        BY <1>1, <2>2
      <4>2. f[1] = << >> \o seqs[1]
        BY <1>5, <1>6, <4>1
      <4> QED BY <4>1, <4>2, ConcatEmptySeq
    <3>2. \E g : g = [i \in 1..N |-> IF i = 1 THEN seqs[i] ELSE g[i - 1] \o seqs[i]]
      <4> DEFINE g == [i \in 1..N |-> f[i]]
      <4>1. ASSUME NEW i \in 1..N PROVE g[i] = IF i = 1 THEN seqs[i] ELSE g[i - 1] \o seqs[i]
        <5>1. CASE i = 1
          BY <3>1, <5>1
        <5>2. CASE i # 1
          <6>1. i - 1 \in 1..N
            BY <1>1, <5>2
          <6>2. g[i - 1] = f[i - 1] /\ g[i] = f[i] /\ f[i] = f[i - 1] \o seqs[i]
            BY <1>6, <6>1
          <6> HIDE DEF g
          <6> QED BY <5>2, <6>2
        <5> QED BY <5>1, <5>2
      <4>2. g = [i \in 1..N |-> IF i = 1 THEN seqs[i] ELSE g[i - 1] \o seqs[i]]
        BY <4>1
      <4> HIDE DEF g
      <4> QED BY <4>2
    <3>3. flat = [i \in 1..N |-> IF i = 1 THEN seqs[i] ELSE flat[i - 1] \o seqs[i]]
      BY <3>2, Zenon
    <3>4. FlattenSeq(seqs) = flat[N]
      BY <2>2 DEF FlattenSeq
    <3> HIDE DEF flat
    <3>5. ASSUME NEW i \in 1..N
          PROVE  flat[i] = IF i = 1 THEN seqs[i] ELSE flat[i - 1] \o seqs[i]
      BY <3>3
    <3> DEFINE T == {n \in 0..N : n # 0 => flat[n] = f[n]}
    <3>6. 0 \in T
      BY <1>1
    <3>7. ASSUME NEW n \in 0..(N - 1), n \in T PROVE n + 1 \in T
      <4>1. n + 1 \in 1..N /\ n + 1 \in 0..N /\ (n + 1) - 1 = n /\ (n + 1 = 1 <=> n = 0)
        BY <1>1
      <4>2. flat[n + 1] = IF n = 0 THEN seqs[n + 1] ELSE flat[n] \o seqs[n + 1]
        BY <3>5, <4>1
      <4>3. f[n + 1] = f[n] \o seqs[n + 1]
        BY <1>6, <4>1
      <4>4. CASE n = 0
        <5>1. n + 1 = 1
          BY <4>4
        <5> QED BY <3>1, <4>1, <4>2, <4>4, <5>1
      <4>5. CASE n # 0
        <5>1. flat[n] = f[n]
          BY <3>7, <4>5
        <5> QED BY <4>1, <4>2, <4>3, <4>5, <5>1
      <4> QED BY <4>4, <4>5
    <3>8. N \in T
      <4>1. N \in 0..N
        BY <1>1
      <4> HIDE DEF T
      <4> QED BY <1>1, <3>6, <3>7, <4>1, PrefixInduction
    <3> QED BY <2>2, <3>4, <3>8
  <2> QED BY <2>1, <2>2
<1> HIDE DEF Q
<1> QED BY <1>5, <1>6, <1>7 DEF Q

LEMMA FlattenSeqType ==
  ASSUME NEW S, NEW seqs \in Seq(Seq(S))
  PROVE  FlattenSeq(seqs) \in Seq(S)
<1>1. PICK f \in [0..Len(seqs) -> Seq(S)] : FlattenSeq(seqs) = f[Len(seqs)]
  BY FlattenRun
<1>2. Len(seqs) \in 0..Len(seqs)
  BY LenProperties
<1> QED BY <1>1, <1>2

-----------------------------------------------------------------------------
(* Totals of two lists that differ in a known way.                         *)

(* A list with one element more at its end.                                *)
LEMMA TotalLonger ==
  ASSUME NEW xs \in Seq(Nat), NEW ys \in Seq(Nat), Len(ys) = Len(xs) + 1,
         \A i \in 1..Len(xs) : ys[i] = xs[i]
  PROVE  Total(ys) = Total(xs) + ys[Len(xs) + 1]
<1> DEFINE N == Len(xs)
<1>1. N \in Nat /\ N <= Len(ys) /\ N <= Len(xs) /\ Len(ys) = N + 1
      /\ N + 1 \in 1..Len(ys) /\ (N + 1) - 1 = N
  BY LenProperties
<1>2. \A i \in 1..N : ys[i] = xs[i]
  OBVIOUS
<1> HIDE DEF N
<1>3. TotalUpTo(ys)[N] = TotalUpTo(xs)[N]
  BY <1>1, <1>2, TotalUpToPrefix
<1>4. TotalUpTo(ys)[N + 1] = TotalUpTo(ys)[N] + ys[N + 1]
  BY <1>1, TotalUpToDef
<1>5. Total(ys) = TotalUpTo(ys)[N + 1] /\ Total(xs) = TotalUpTo(xs)[N]
  BY <1>1, Zenon DEF Total, N
<1> QED BY <1>3, <1>4, <1>5 DEF N

(* A list that is nowhere above another.                                   *)
LEMMA TotalAtMost ==
  ASSUME NEW N \in Nat, NEW us \in Seq(Nat), NEW xs \in Seq(Nat), Len(us) = N, Len(xs) = N,
         \A i \in 1..N : us[i] <= xs[i]
  PROVE  Total(us) <= Total(xs)
<1> DEFINE more == [i \in 1..N |-> xs[i] - us[i]]
<1>1. \A i \in 1..N : xs[i] \in Nat /\ us[i] \in Nat
  BY ElementOfSeq
<1>2. \A i \in 1..N : more[i] \in Nat /\ xs[i] = us[i] + more[i]
  BY <1>1
<1>3. more \in [1..N -> Nat]
  BY <1>2
<1> HIDE DEF more
<1>4. more \in Seq(Nat) /\ Len(more) = N
  BY <1>3, LenProperties, SeqDef
<1>5. Total(xs) = Total(us) + Total(more)
  BY <1>2, <1>4, TotalSum
<1> QED BY <1>4, <1>5, TotalType

(* A list that takes some elements of another, each once: its total is the *)
(* total of the other with nothing in place of what was not taken.         *)
TakenIn(ws, pos, n) == [k \in 1..Len(ws) |-> IF \E i \in 1..n : pos[i] = k THEN ws[k] ELSE 0]

IsTaken(zs, ws, pos, n) ==
  /\ zs \in Seq(Nat) /\ Len(zs) = Len(ws)
  /\ \A k \in 1..Len(ws) : zs[k] = IF \E i \in 1..n : pos[i] = k THEN ws[k] ELSE 0

LEMMA TakenInEffect ==
  ASSUME NEW ws \in Seq(Nat), NEW pos, NEW n \in Nat
  PROVE  IsTaken(TakenIn(ws, pos, n), ws, pos, n)
<1> DEFINE zs == TakenIn(ws, pos, n)
<1>1. Len(ws) \in Nat /\ \A k \in 1..Len(ws) : ws[k] \in Nat
  BY LenProperties, ElementOfSeq
<1>2. /\ zs \in [1..Len(ws) -> Nat]
      /\ \A k \in 1..Len(ws) : zs[k] = IF \E i \in 1..n : pos[i] = k THEN ws[k] ELSE 0
  BY <1>1 DEF TakenIn
<1> HIDE DEF zs
<1>3. zs \in Seq(Nat) /\ Len(zs) = Len(ws)
  BY <1>1, <1>2, LenProperties, SeqDef
<1> QED BY <1>2, <1>3 DEF zs, IsTaken

LEMMA TotalPicked ==
  ASSUME NEW us \in Seq(Nat), NEW ws \in Seq(Nat), NEW pos \in [1..Len(us) -> 1..Len(ws)],
         \A i \in 1..Len(us) : us[i] = ws[pos[i]],
         \A i, j \in 1..Len(us) : pos[i] = pos[j] => i = j
  PROVE  Total(us) = Total(TakenIn(ws, pos, Len(us)))
<1> DEFINE N == Len(us)
           M == Len(ws)
           T == {n \in 0..N : TotalUpTo(us)[n] = Total(TakenIn(ws, pos, n))}
<1>1. N \in Nat /\ M \in Nat
  BY LenProperties
<1>2. 0 \in T
  <2> DEFINE zs == TakenIn(ws, pos, 0)
  <2>1. zs \in Seq(Nat) /\ Len(zs) = M /\ \A k \in 1..M : zs[k] = 0
    <3>1. 0 \in Nat /\ 1..0 = {}
      OBVIOUS
    <3>2. IsTaken(zs, ws, pos, 0)
      BY <3>1, TakenInEffect
    <3> HIDE DEF zs
    <3> QED BY <3>1, <3>2 DEF IsTaken
  <2> HIDE DEF zs, M
  <2>2. Total(zs) = 0
    BY <1>1, <2>1, TotalZero
  <2>3. TotalUpTo(us)[0] = 0
    BY TotalUpToDef
  <2> QED BY <1>1, <2>2, <2>3 DEF zs
<1>3. ASSUME NEW n \in 0..(N - 1), n \in T PROVE n + 1 \in T
  <2> DEFINE a == TakenIn(ws, pos, n)
             b == TakenIn(ws, pos, n + 1)
             j == pos[n + 1]
  <2>1. n + 1 \in 1..N /\ (n + 1) - 1 = n /\ n \in Nat /\ n + 1 \in Nat /\ n + 1 \in 0..N
        /\ 1..(n + 1) = 1..n \cup {n + 1} /\ 1..n \subseteq 1..N /\ n + 1 \notin 1..n
    BY <1>1
  <2>2. j \in 1..M
    BY <2>1
  <2>3. /\ a \in Seq(Nat) /\ b \in Seq(Nat) /\ Len(a) = M /\ Len(b) = M
        /\ \A k \in 1..M : a[k] = IF \E i \in 1..n : pos[i] = k THEN ws[k] ELSE 0
        /\ \A k \in 1..M : b[k] = IF \E i \in 1..(n + 1) : pos[i] = k THEN ws[k] ELSE 0
    <3>1. IsTaken(a, ws, pos, n) /\ IsTaken(b, ws, pos, n + 1)
      BY <2>1, TakenInEffect
    <3> HIDE DEF a, b
    <3> QED BY <3>1 DEF IsTaken
  <2>4. ~ \E i \in 1..n : pos[i] = j
    BY <2>1
  <2> HIDE DEF a, b, N, M
  <2>5. a[j] = 0 /\ b[j] = ws[j] /\ ws[j] = us[n + 1]
    <3>1. a[j] = 0
      BY <2>2, <2>3, <2>4
    <3>2. b[j] = ws[j]
      <4>1. n + 1 \in 1..(n + 1) /\ pos[n + 1] = j
        BY <2>1
      <4>2. \E i \in 1..(n + 1) : pos[i] = j
        BY <4>1
      <4> HIDE DEF j
      <4> QED BY <2>2, <2>3, <4>2
    <3>3. ws[j] = us[n + 1]
      BY <2>1 DEF N
    <3> QED BY <3>1, <3>2, <3>3
  <2>6. ASSUME NEW k \in 1..M, k # j PROVE a[k] = b[k]
    <3>1. pos[n + 1] # k /\ n \in Nat
      BY <2>1, <2>6
    <3>2. (\E i \in 1..n : pos[i] = k) <=> (\E i \in 1..(n + 1) : pos[i] = k)
      <4>1. \A i \in 1..(n + 1) : i = n + 1 \/ i \in 1..n
        BY <3>1
      <4>2. \A i \in 1..n : i \in 1..(n + 1)
        BY <3>1
      <4> HIDE DEF j
      <4> QED BY <3>1, <4>1, <4>2, Zenon
    <3> HIDE DEF j
    <3> QED BY <2>3, <3>2
  <2> HIDE DEF j
  <2>7. Total(a) + b[j] = Total(b) + a[j]
    <3>1. /\ M \in Nat /\ j \in 1..M /\ a \in Seq(Nat) /\ b \in Seq(Nat)
          /\ Len(a) = M /\ Len(b) = M /\ \A k \in 1..M : k # j => a[k] = b[k]
      BY <1>1, <2>2, <2>3, <2>6
    <3> QED BY ONLY <3>1, TotalReplace
  <2>8. Total(a) \in Nat /\ Total(b) \in Nat /\ us[n + 1] \in Nat
    BY <2>1, <2>3, TotalType, ElementOfSeq DEF N
  <2>9. TotalUpTo(us)[n + 1] = TotalUpTo(us)[n] + us[n + 1]
    BY <2>1, TotalUpToDef DEF N
  <2>10. TotalUpTo(us)[n] = Total(a)
    BY <1>3 DEF a
  <2>11. TotalUpTo(us)[n + 1] = Total(b)
    BY <2>5, <2>7, <2>8, <2>9, <2>10
  <2> QED BY <2>1, <2>11 DEF b
<1>4. \A n \in 0..N : n \in T
  <2> HIDE DEF T
  <2> QED BY <1>1, <1>2, <1>3, PrefixInduction
<1>5. N \in 0..N
  BY <1>1
<1> QED BY <1>4, <1>5 DEF Total

LEMMA TotalPickedAtMost ==
  ASSUME NEW us \in Seq(Nat), NEW ws \in Seq(Nat), NEW pos \in [1..Len(us) -> 1..Len(ws)],
         \A i \in 1..Len(us) : us[i] = ws[pos[i]],
         \A i, j \in 1..Len(us) : pos[i] = pos[j] => i = j
  PROVE  Total(us) <= Total(ws)
<1> DEFINE zs == TakenIn(ws, pos, Len(us))
           M == Len(ws)
<1>1. Total(us) = Total(zs)
  BY TotalPicked
<1>2. IsTaken(zs, ws, pos, Len(us))
  BY LenProperties, TakenInEffect
<1> HIDE DEF zs
<1>3. M \in Nat /\ zs \in Seq(Nat) /\ Len(zs) = M /\ \A k \in 1..M : zs[k] <= ws[k]
  <2>1. M \in Nat /\ \A k \in 1..M : ws[k] \in Nat
    BY LenProperties, ElementOfSeq
  <2> QED BY <1>2, <2>1 DEF IsTaken
<1> HIDE DEF M
<1>4. ws \in Seq(Nat) /\ Len(ws) = M
  BY DEF M
<1>5. Total(zs) <= Total(ws)
  BY ONLY <1>3, <1>4, TotalAtMost
<1> QED BY <1>1, <1>5

(* A sum over two things, at most.                                         *)
LEMMA SumOfTwo ==
  ASSUME NEW a, NEW b, NEW D \in SUBSET {a, b}, NEW f \in [D -> Nat],
         NEW x \in Nat, NEW y \in Nat, a \in D => f[a] <= x, b \in D /\ b # a => f[b] <= y
  PROVE  SumFunction(f) <= x + y
<1> DEFINE g == CHOOSE q : IsSum(f, D, q)
           c(s) == CHOOSE z \in s : TRUE
<1>1. IsFiniteSet(D)
  <2>1. IsFiniteSet({a} \cup {b})
    <3>1. IsFiniteSet({a}) /\ IsFiniteSet({b})
      BY FS_Singleton
    <3> QED BY <3>1, FS_Union
  <2> QED BY <2>1, FS_Subset
<1>2. IsSum(f, D, g)
  BY <1>1, SumExists
<1>3. ASSUME NEW s \in SUBSET D
      PROVE  g[s] = IF s = {} THEN 0 ELSE f[c(s)] + g[s \ {c(s)}]
  <2> HIDE DEF g
  <2> QED BY <1>2 DEF IsSum, SumStep
<1>4. SumFunction(f) = g[D]
  BY SumIsPicked
<1> HIDE DEF g
<1>5. g[{}] = 0
  BY <1>3
<1>6. ASSUME NEW z \in D PROVE g[{z}] = f[z] /\ f[z] \in Nat
  <2>1. c({z}) = z /\ {z} \ {z} = {} /\ {z} \in SUBSET D /\ {z} # {}
    OBVIOUS
  <2>2. g[{z}] = f[c({z})] + g[{z} \ {c({z})}]
    BY <1>3, <2>1
  <2> QED BY <1>5, <2>1, <2>2
<1>7. CASE D = {}
  BY <1>4, <1>5, <1>7
<1>8. CASE D # {} /\ (D = {a} \/ D = {b})
  BY <1>4, <1>6, <1>8
<1>9. CASE D = {a, b} /\ a # b
  <2>1. c(D) \in D
    BY <1>9
  <2>2. g[D] = f[c(D)] + g[D \ {c(D)}]
    BY <1>3, <1>9
  <2>3. f[a] \in Nat /\ f[b] \in Nat /\ f[a] <= x /\ f[b] <= y
    BY <1>9
  <2>4. CASE c(D) = a
    <3>1. D \ {a} = {b}
      BY <1>9
    <3>2. g[{b}] = f[b] /\ SumFunction(f) = f[a] + g[{b}]
      BY <1>4, <1>6, <1>9, <2>2, <2>4, <3>1
    <3> QED BY <2>3, <3>2
  <2>5. CASE c(D) = b
    <3>1. D \ {b} = {a}
      BY <1>9
    <3>2. g[{a}] = f[a] /\ SumFunction(f) = f[b] + g[{a}]
      BY <1>4, <1>6, <1>9, <2>2, <2>5, <3>1
    <3> QED BY <2>3, <3>2
  <2> QED BY <1>9, <2>1, <2>4, <2>5
<1> QED BY <1>7, <1>8, <1>9

-----------------------------------------------------------------------------
(* Division rounds down, and less so all together.                         *)

LEMMA QuotientBounds ==
  ASSUME NEW m \in Nat \ {0}, NEW x \in Nat
  PROVE  x \div m \in Nat /\ (x \div m) * m <= x /\ x < (x \div m) * m + m
OBVIOUS

LEMMA ProductGrows ==
  ASSUME NEW m \in Nat, NEW a \in Nat, NEW b \in Nat, a <= b
  PROVE  a * m <= b * m
OBVIOUS

LEMMA QuotientSum ==
  ASSUME NEW m \in Nat \ {0}, NEW x \in Nat, NEW y \in Nat
  PROVE  (x \div m) + (y \div m) <= (x + y) \div m
<1> DEFINE a == x \div m
           b == y \div m
           c == (x + y) \div m
<1>1. a \in Nat /\ a * m <= x /\ b \in Nat /\ b * m <= y /\ c \in Nat /\ x + y < c * m + m
  BY QuotientBounds
<1> HIDE DEF a, b, c
<1>2. (a + b) * m = a * m + b * m /\ (c + 1) * m = c * m + m
  BY <1>1
<1>3. a * m \in Nat /\ b * m \in Nat /\ c * m \in Nat
  BY <1>1
<1>4. c + 1 <= a + b => (c + 1) * m <= (a + b) * m
  BY <1>1, ProductGrows
<1>5. ~ (c + 1 <= a + b)
  BY <1>1, <1>2, <1>3, <1>4
<1> QED BY <1>1, <1>5 DEF a, b, c

-----------------------------------------------------------------------------
(* Totals of lists, and sums, that are compared.                           *)

(* ws with nothing at the places that are not in P.                        *)
Masked(ws, P) == [i \in 1..Len(ws) |-> IF i \in P THEN ws[i] ELSE 0]

LEMMA MaskedType ==
  ASSUME NEW ws \in Seq(Nat), NEW P
  PROVE  /\ Masked(ws, P) \in Seq(Nat) /\ Len(Masked(ws, P)) = Len(ws) /\ Len(ws) \in Nat
         /\ \A i \in 1..Len(ws) : /\ Masked(ws, P)[i] = (IF i \in P THEN ws[i] ELSE 0)
                                 /\ ws[i] \in Nat
<1> DEFINE N == Len(ws)
           zs == Masked(ws, P)
<1>1. N \in Nat /\ \A i \in 1..N : ws[i] \in Nat
  BY LenProperties, ElementOfSeq
<1>2. zs \in [1..N -> Nat] /\ \A i \in 1..N : zs[i] = (IF i \in P THEN ws[i] ELSE 0)
  BY <1>1 DEF Masked
<1> HIDE DEF zs, N
<1>3. zs \in Seq(Nat) /\ Len(zs) = N
  BY <1>1, <1>2, IsASeq
<1> QED BY <1>1, <1>2, <1>3 DEF zs, N

(* The total of numbers that go with the elements kept is the total with   *)
(* nothing in place of the others.                                         *)
LEMMA KeptTotal ==
  ASSUME NEW S, NEW xs \in Seq(S), NEW P, NEW us \in Seq(Nat), NEW ws \in Seq(Nat),
         Len(ws) = Len(xs), Len(us) = Len(Kept(xs, P)),
         \A k \in 1..Len(us), i \in 1..Len(xs) : Kept(xs, P)[k] = xs[i] => us[k] = ws[i]
  PROVE  Total(us) = Total(Masked(ws, P))
<1> DEFINE ys == Kept(xs, P)
           N == Len(xs)
           K == Len(us)
<1>1. N \in Nat /\ K \in Nat /\ K = Len(ys) /\ Len(ws) = N
  BY LenProperties
<1>2. PICK pos : Locates(pos, ys, xs, P, N)
  BY KeptLocates, Zenon
<1>3. /\ pos \in [1..K -> 1..N]
      /\ \A k \in 1..K : pos[k] \in P /\ ys[k] = xs[pos[k]]
      /\ \A j, k \in 1..K : j < k => pos[j] < pos[k]
      /\ \A i \in 1..N : i \in P => \E k \in 1..K : pos[k] = i
  BY <1>1, <1>2, Zenon DEF Locates
<1>4. \A k \in 1..K : us[k] = ws[pos[k]]
  BY <1>3, Zenon
<1> HIDE DEF ys, N, K
<1>5. \A i, j \in 1..K : pos[i] = pos[j] => i = j
  <2> SUFFICES ASSUME NEW i \in 1..K, NEW j \in 1..K, pos[i] = pos[j] PROVE i = j
    OBVIOUS
  <2>1. i \in Nat /\ j \in Nat
    BY <1>1
  <2>2. pos[i] \in 1..N
    BY <1>3
  <2>3. ~ (i < j) /\ ~ (j < i)
    <3>1. pos[i] \in Nat
      BY <1>1, <2>2
    <3> QED BY <1>3, <3>1
  <2> QED BY <2>1, <2>3
<1>6. Total(us) = Total(TakenIn(ws, pos, K))
  <2>1. pos \in [1..Len(us) -> 1..Len(ws)]
    BY <1>1, <1>3 DEF K
  <2> QED BY <1>4, <1>5, <2>1, TotalPicked DEF K
<1>7. TakenIn(ws, pos, K) = Masked(ws, P)
  <2>1. \A k \in 1..N : (\E i \in 1..K : pos[i] = k) <=> k \in P
    BY <1>3
  <2> QED BY <1>1, <2>1 DEF TakenIn, Masked
<1> QED BY <1>6, <1>7

(* Less is kept, at most.                                                  *)
LEMMA MaskedAtMost ==
  ASSUME NEW ws \in Seq(Nat), NEW P
  PROVE  /\ Total(Masked(ws, P)) \in Nat /\ Total(ws) \in Nat
         /\ Total(Masked(ws, P)) <= Total(ws)
         /\ \A k \in 1..Len(ws) : k \notin P => Total(Masked(ws, P)) + ws[k] <= Total(ws)
<1> DEFINE zs == Masked(ws, P)
           N == Len(ws)
<1>1. /\ zs \in Seq(Nat) /\ Len(zs) = N /\ N \in Nat
      /\ \A i \in 1..N : zs[i] = (IF i \in P THEN ws[i] ELSE 0) /\ ws[i] \in Nat
  BY MaskedType
<1> HIDE DEF zs, N
<1>2. \A i \in 1..N : zs[i] <= ws[i]
  BY <1>1
<1>3. ws \in Seq(Nat) /\ Len(ws) = N
  BY DEF N
<1>4. Total(zs) <= Total(ws) /\ Total(zs) \in Nat /\ Total(ws) \in Nat
  BY <1>1, <1>2, <1>3, TotalAtMost, TotalType
<1>5. ASSUME NEW k \in 1..N, k \notin P PROVE Total(zs) + ws[k] <= Total(ws)
  <2>1. zs[k] + ws[k] <= ws[k] /\ ws[k] \in Nat
    BY <1>1, <1>5
  <2> QED BY <1>1, <1>2, <1>3, <2>1, TotalLess
<1> QED BY <1>4, <1>5 DEF zs, N

(* A sum of larger numbers is larger.                                      *)
LEMMA SumGrows ==
  ASSUME NEW D, IsFiniteSet(D), NEW f \in [D -> Nat], NEW e \in [D -> Nat],
         \A d \in D : f[d] <= e[d]
  PROVE  SumFunction(f) <= SumFunction(e)
<1> DEFINE g == CHOOSE q : IsSum(f, D, q)
           h == CHOOSE q : IsSum(e, D, q)
           T == {n \in 0..Cardinality(D) : \A s \in SUBSET D :
                   Cardinality(s) <= n => g[s] \in Nat /\ h[s] \in Nat /\ g[s] <= h[s]}
           c(s) == CHOOSE x \in s : TRUE
<1>1. IsSum(f, D, g) /\ IsSum(e, D, h)
  BY SumExists
<1>2. ASSUME NEW s \in SUBSET D PROVE g[s] = SumStep(f, g, s) /\ h[s] = SumStep(e, h, s)
  <2> HIDE DEF g, h
  <2> QED BY <1>1 DEF IsSum
<1>3. Cardinality(D) \in Nat
  BY FS_CardinalityType
<1>4. ASSUME NEW s \in SUBSET D
      PROVE  /\ IsFiniteSet(s) /\ Cardinality(s) \in Nat /\ Cardinality(s) <= Cardinality(D)
             /\ s # {} => /\ Cardinality(s \ {c(s)}) = Cardinality(s) - 1
                          /\ f[c(s)] \in Nat /\ e[c(s)] \in Nat /\ f[c(s)] <= e[c(s)]
                          /\ s \ {c(s)} \in SUBSET D
  <2>1. IsFiniteSet(s) /\ Cardinality(s) <= Cardinality(D)
    BY FS_Subset
  <2>2. s # {} => c(s) \in s
    OBVIOUS
  <2>3. s # {} => /\ f[c(s)] \in Nat /\ e[c(s)] \in Nat /\ f[c(s)] <= e[c(s)]
                  /\ s \ {c(s)} \in SUBSET D
    BY <2>2
  <2>4. s # {} => Cardinality(s \ {c(s)}) = Cardinality(s) - 1
    BY <2>1, <2>2, FS_RemoveElement
  <2> QED BY <2>1, <2>3, <2>4, FS_CardinalityType
<1> HIDE DEF g, h, c
<1>5. ASSUME NEW s \in SUBSET D, s # {}
      PROVE  g[s] = f[c(s)] + g[s \ {c(s)}] /\ h[s] = e[c(s)] + h[s \ {c(s)}]
  BY <1>2, <1>5 DEF SumStep, c
<1>6. g[{}] = 0 /\ h[{}] = 0
  BY <1>2 DEF SumStep
<1>7. 0 \in T
  <2>1. ASSUME NEW s \in SUBSET D, Cardinality(s) <= 0 PROVE s = {}
    <3>1. IsFiniteSet(s) /\ Cardinality(s) = 0
      <4>1. IsFiniteSet(s) /\ Cardinality(s) \in Nat
        BY <1>4
      <4> QED BY <2>1, <4>1
    <3> QED BY <3>1, FS_EmptySet
  <2> QED BY <1>3, <1>6, <2>1
<1>8. ASSUME NEW n \in 0..(Cardinality(D) - 1), n \in T PROVE n + 1 \in T
  <2>1. n \in Nat /\ n + 1 \in 0..Cardinality(D)
    BY <1>3
  <2>2. ASSUME NEW s \in SUBSET D, Cardinality(s) <= n + 1
        PROVE  g[s] \in Nat /\ h[s] \in Nat /\ g[s] <= h[s]
    <3>1. CASE s = {}
      BY <1>6, <3>1
    <3>2. CASE s # {}
      <4>1. /\ Cardinality(s) \in Nat /\ Cardinality(s \ {c(s)}) = Cardinality(s) - 1
            /\ f[c(s)] \in Nat /\ e[c(s)] \in Nat /\ f[c(s)] <= e[c(s)]
            /\ s \ {c(s)} \in SUBSET D
        BY <1>4, <3>2
      <4>2. Cardinality(s \ {c(s)}) <= n
        BY <2>1, <2>2, <4>1
      <4>3. /\ g[s \ {c(s)}] \in Nat /\ h[s \ {c(s)}] \in Nat
            /\ g[s \ {c(s)}] <= h[s \ {c(s)}]
        BY <1>8, <4>1, <4>2
      <4> QED BY <1>5, <3>2, <4>1, <4>3
    <3> QED BY <3>1, <3>2
  <2> QED BY <2>1, <2>2
<1>9. Cardinality(D) \in T
  <2>1. \A n \in 0..Cardinality(D) : n \in T
    <3> HIDE DEF T
    <3> QED BY <1>3, <1>7, <1>8, PrefixInduction
  <2>2. Cardinality(D) \in 0..Cardinality(D)
    BY <1>3
  <2> HIDE DEF T
  <2> QED BY <2>1, <2>2
<1>10. g[D] <= h[D]
  BY <1>3, <1>9
<1>11. SumFunction(f) = g[D] /\ SumFunction(e) = h[D]
  BY SumIsPicked DEF g, h
<1> QED BY <1>10, <1>11

(* One number in a list of zeros is the sum.                               *)
LEMMA TotalOfOne ==
  ASSUME NEW ws \in Seq(Nat), NEW k \in 1..Len(ws), \A i \in 1..Len(ws) : i # k => ws[i] = 0
  PROVE  Total(ws) = ws[k]
<1> DEFINE N == Len(ws)
           zs == [i \in 1..N |-> 0]
<1>1. N \in Nat /\ ws[k] \in Nat /\ Total(ws) \in Nat
  BY LenProperties, ElementOfSeq, TotalType
<1>2. zs \in Seq(Nat) /\ Len(zs) = N /\ \A i \in 1..N : zs[i] = 0
  <2>1. zs \in [1..N -> Nat] /\ \A i \in 1..N : zs[i] = 0
    OBVIOUS
  <2> HIDE DEF zs, N
  <2> QED BY <1>1, <2>1, LenProperties, SeqDef
<1> HIDE DEF zs
<1>3. Total(zs) = 0
  BY <1>1, <1>2, TotalZero
<1>4. Total(ws) + zs[k] = Total(zs) + ws[k]
  <2>1. /\ N \in Nat /\ ws \in Seq(Nat) /\ zs \in Seq(Nat) /\ Len(ws) = N /\ Len(zs) = N
        /\ k \in 1..N /\ \A i \in 1..N : i # k => ws[i] = zs[i]
    BY <1>1, <1>2
  <2> QED BY ONLY <2>1, TotalReplace
<1> QED BY <1>1, <1>2, <1>3, <1>4

(* A common factor comes out of a sum.                                     *)
LEMMA TotalTimes ==
  ASSUME NEW c \in Nat, NEW N \in Nat, NEW xs \in Seq(Nat), NEW ys \in Seq(Nat),
         Len(xs) = N, Len(ys) = N, \A i \in 1..N : ys[i] = c * xs[i]
  PROVE  Total(ys) = c * Total(xs)
<1> DEFINE zs == [i \in 1..N |-> 0]
<1>1. zs \in Seq(Nat) /\ Len(zs) = N /\ \A i \in 1..N : zs[i] = 0
  BY IsASeq
<1> HIDE DEF zs
<1>2. Total(zs) = 0 /\ Total(xs) \in Nat /\ Total(ys) \in Nat
  BY <1>1, TotalZero, TotalType
<1>3. ASSUME NEW i \in 1..N
      PROVE  Weighed(c, xs[i], zs[i]) = Weighed(c, zs[i], ys[i])
  <2>1. xs[i] \in Nat /\ ys[i] \in Nat
    BY ElementOfSeq
  <2>2. c * xs[i] \in Nat /\ c * 0 = 0
    BY <2>1
  <2> QED BY <1>1, <2>1, <2>2 DEF Weighed
<1>4. ASSUME NEW i \in 1..N
      PROVE  Weighed(c, xs[i], zs[i]) \in Nat /\ Weighed(c, zs[i], ys[i]) \in Nat
  <2>1. ys[i] \in Nat
    BY ElementOfSeq
  <2> QED BY <1>1, <1>3, <2>1 DEF Weighed
<1>5. \A i \in 1..N : /\ Weighed(c, xs[i], zs[i]) <= Weighed(c, zs[i], ys[i])
                      /\ Weighed(c, zs[i], ys[i]) <= Weighed(c, xs[i], zs[i])
  BY <1>3, <1>4
<1>6. Weighed(c, Total(xs), Total(zs)) <= Weighed(c, Total(zs), Total(ys))
  BY <1>1, <1>5, TotalsWeighed
<1>7. Weighed(c, Total(zs), Total(ys)) <= Weighed(c, Total(xs), Total(zs))
  BY <1>1, <1>5, TotalsWeighed
<1> QED
  <2>1. c * Total(xs) \in Nat /\ c * 0 = 0
    BY <1>2
  <2>2. c * Total(xs) + 0 <= c * 0 + Total(ys) /\ c * 0 + Total(ys) <= c * Total(xs) + 0
    BY <1>2, <1>6, <1>7 DEF Weighed
  <2> HIDE DEF zs
  <2> QED BY <1>2, <2>1, <2>2

LEMMA OneOfTotal ==
  ASSUME NEW ws \in Seq(Nat), NEW k \in 1..Len(ws)
  PROVE  ws[k] <= Total(ws)
<1>1. /\ Total(Masked(ws, {})) \in Nat /\ Total(ws) \in Nat
      /\ Total(Masked(ws, {})) + ws[k] <= Total(ws)
  BY MaskedAtMost
<1>2. ws[k] \in Nat
  BY ElementOfSeq
<1> QED BY <1>1, <1>2

LEMMA NoneTwice ==
  ASSUME NEW S, NEW seeds \in Seq(S), \A i, j \in 1..Len(seeds) : seeds[i] = seeds[j] => i = j
  PROVE  Cardinality(ToSet(seeds)) = Len(seeds)
<1> DEFINE N == Len(seeds)
           T == ToSet(seeds)
<1>1. N \in Nat /\ DOMAIN seeds = 1..N /\ seeds = [i \in 1..N |-> seeds[i]]
  BY LenProperties
<1>2. \A i \in 1..N : seeds[i] \in T
  BY <1>1 DEF ToSet
<1>3. \A t \in T : \E i \in 1..N : seeds[i] = t
  BY <1>1 DEF ToSet
<1> HIDE DEF T
<1>4. seeds \in [1..N -> T]
  BY <1>1, <1>2
<1>5. seeds \in Surjection(1..N, T)
  BY <1>3, <1>4 DEF Surjection
<1>6. seeds \in Injection(1..N, T)
  BY <1>4 DEF Injection, IsInjective
<1> HIDE DEF N
<1>7. IsFiniteSet(1..N) /\ Cardinality(1..N) = N
  <2>1. N \in Nat
    BY <1>1
  <2> QED BY ONLY <2>1, PrefixIsFinite
<1>8. seeds \in Bijection(1..N, T)
  BY <1>5, <1>6 DEF Bijection
<1>9. Cardinality(T) = Cardinality(1..N)
  <2>1. IsFiniteSet(1..N) /\ seeds \in Bijection(1..N, T)
    BY <1>7, <1>8
  <2>2. ExistsBijection(1..N, T)
    BY <2>1 DEF ExistsBijection
  <2> QED BY ONLY <2>1, <2>2, FS_Bijection
<1> QED BY <1>7, <1>9 DEF N, T

-----------------------------------------------------------------------------
(* What seeds give, to others and to the refund lock.                      *)

GiftsOf(seeds) == [i \in 1..Len(seeds) |-> seeds[i].gift]

LEMMA GiftsOfType ==
  ASSUME NEW seeds \in Seq(Seeds)
  PROVE  GiftsOf(seeds) \in Seq(Nat) /\ Len(GiftsOf(seeds)) = Len(seeds)
<1>1. Len(seeds) \in Nat
  BY LenProperties
<1>2. ASSUME NEW i \in 1..Len(seeds) PROVE seeds[i].gift \in Nat
  <2>1. seeds[i] \in Seeds
    BY ElementOfSeq
  <2> QED BY <2>1 DEF Seeds
<1> QED BY <1>1, <1>2, IsASeq DEF GiftsOf

LEMMA GiftsType ==
  ASSUME NEW seeds \in Seq(Seeds)
  PROVE  Gifts(seeds) \in Nat
BY GiftsOfType, TotalType DEF Gifts, GiftsOf

LEMMA GiftsFirst ==
  ASSUME NEW seeds \in Seq(Seeds), NEW seed \in Seeds
  PROVE  Gifts(<<seed>> \o seeds) = seed.gift + Gifts(seeds)
<1> DEFINE all == <<seed>> \o seeds
           N == Len(seeds)
<1>1. /\ N \in Nat /\ <<seed>> \in Seq(Seeds) /\ seed.gift \in Nat
      /\ Len(<<seed>>) = 1 /\ <<seed>>[1] = seed
  BY LenProperties DEF Seeds
<1>2. /\ all \in Seq(Seeds) /\ Len(all) = 1 + N
      /\ \A i \in 1..Len(all) : all[i] = IF i <= 1 THEN <<seed>>[i] ELSE seeds[i - 1]
  BY <1>1, ConcatProperties
<1> HIDE DEF all
<1>3. /\ <<seed.gift>> \in Seq(Nat) /\ Len(<<seed.gift>>) = 1 /\ <<seed.gift>>[1] = seed.gift
  BY <1>1
<1>4. /\ GiftsOf(seeds) \in Seq(Nat) /\ Len(GiftsOf(seeds)) = N
      /\ GiftsOf(all) \in Seq(Nat) /\ Len(GiftsOf(all)) = 1 + N
  BY <1>2, GiftsOfType
<1>5. GiftsOf(all) = <<seed.gift>> \o GiftsOf(seeds)
  <2> DEFINE sum == <<seed.gift>> \o GiftsOf(seeds)
  <2>1. /\ sum \in Seq(Nat) /\ Len(sum) = 1 + N
        /\ \A i \in 1..Len(sum) :
             sum[i] = IF i <= 1 THEN <<seed.gift>>[i] ELSE GiftsOf(seeds)[i - 1]
    BY <1>3, <1>4, ConcatProperties
  <2> HIDE DEF sum
  <2>2. ASSUME NEW i \in 1..(1 + N) PROVE GiftsOf(all)[i] = sum[i]
    <3>1. GiftsOf(all)[i] = all[i].gift
      BY <1>2 DEF GiftsOf
    <3>2. CASE i = 1
      BY <1>1, <1>2, <1>3, <2>1, <3>1, <3>2
    <3>3. CASE i # 1
      <4>1. i - 1 \in 1..N /\ ~ (i <= 1)
        BY <1>1, <3>3
      <4>2. all[i] = seeds[i - 1] /\ sum[i] = GiftsOf(seeds)[i - 1]
        BY <1>2, <2>1, <4>1
      <4> QED BY <3>1, <4>1, <4>2 DEF GiftsOf
    <3> QED BY <3>2, <3>3
  <2>3. GiftsOf(all) = sum
    BY <1>4, <2>1, <2>2, SeqEqual
  <2> QED BY <2>3 DEF sum
<1>6. Total(<<seed.gift>>) = seed.gift
  <2>1. <<seed.gift>> = Append(<< >>, seed.gift)
    OBVIOUS
  <2>2. << >> \in Seq(Nat)
    OBVIOUS
  <2>3. Total(Append(<< >>, seed.gift)) = Total(<< >>) + seed.gift
    BY <1>1, <2>2, TotalAppend
  <2> QED BY <1>1, <2>1, <2>3, TotalEmpty
<1>7. Total(GiftsOf(all)) = seed.gift + Total(GiftsOf(seeds))
  BY <1>3, <1>4, <1>5, <1>6, TotalConcat
<1> QED BY <1>7 DEF Gifts, GiftsOf, all

LEMMA OthersType ==
  ASSUME NEW seeds \in Seq(Seeds), NEW lock
  PROVE  Others(seeds, lock) \in Seq(Seeds)
BY KeptType DEF Others

(* No seed for others is to the lock, so dropping those seeds again drops  *)
(* nothing.                                                                *)
LEMMA OthersAgain ==
  ASSUME NEW seeds \in Seq(Seeds), NEW lock
  PROVE  Others(Others(seeds, lock), lock) = Others(seeds, lock)
<1> DEFINE ys == Others(seeds, lock)
           places == {i \in DOMAIN seeds : seeds[i].lock # lock}
<1>1. ys \in Seq(Seeds) /\ Len(ys) \in Nat /\ DOMAIN ys = 1..Len(ys)
  BY OthersType, LenProperties
<1>2. PICK pos : Locates(pos, ys, seeds, places, Len(seeds))
  BY KeptLocates DEF Others
<1>3. ASSUME NEW k \in 1..Len(ys) PROVE ys[k].lock # lock
  BY <1>2 DEF Locates
<1>4. 1..Len(ys) \subseteq {k \in DOMAIN ys : ys[k].lock # lock}
  BY <1>1, <1>3
<1> HIDE DEF ys
<1> QED BY <1>1, <1>4, KeptWhole DEF Others, ys

(* A seed more at the end is one more for others, or none.                 *)
LEMMA OthersAppend ==
  ASSUME NEW seeds \in Seq(Seeds), NEW seed \in Seeds, NEW lock
  PROVE  Others(Append(seeds, seed), lock) =
           IF seed.lock = lock THEN Others(seeds, lock) ELSE Append(Others(seeds, lock), seed)
<1> DEFINE all == Append(seeds, seed)
           N == Len(seeds)
           P == {i \in DOMAIN all : all[i].lock # lock}
           Q == {i \in DOMAIN seeds : seeds[i].lock # lock}
<1>1. /\ all \in Seq(Seeds) /\ Len(all) = N + 1 /\ all[N + 1] = seed /\ N \in Nat
      /\ \A i \in 1..N : all[i] = seeds[i]
      /\ DOMAIN seeds = 1..N /\ DOMAIN all = 1..(N + 1)
  BY AppendProperties, LenProperties
<1> HIDE DEF all
<1>2. \A i \in 1..N : i \in P <=> i \in Q
  BY <1>1
<1>3. N + 1 \in P <=> seed.lock # lock
  BY <1>1
<1> HIDE DEF P, Q
<1>4. Kept(all, P) = IF N + 1 \in P THEN Append(Kept(seeds, Q), seed) ELSE Kept(seeds, Q)
  BY <1>2, KeptAppend DEF all
<1> QED BY <1>3, <1>4 DEF Others, P, Q, all

(* A seed to the lock in front is dropped.                                 *)
LEMMA OthersSkipFirst ==
  ASSUME NEW seeds \in Seq(Seeds), NEW seed \in Seeds, NEW lock, seed.lock = lock
  PROVE  Others(<<seed>> \o seeds, lock) = Others(seeds, lock)
<1> DEFINE all == <<seed>> \o seeds
           N == Len(seeds)
           P == {i \in DOMAIN all : all[i].lock # lock}
           Q == {i \in DOMAIN seeds : seeds[i].lock # lock}
<1>1. <<seed>> \in Seq(Seeds) /\ Len(<<seed>>) = 1 /\ <<seed>>[1] = seed /\ N \in Nat
      /\ DOMAIN seeds = 1..N
  BY LenProperties
<1>2. /\ all \in Seq(Seeds) /\ Len(all) = 1 + N
      /\ \A i \in 1..Len(all) : all[i] = IF i <= 1 THEN <<seed>>[i] ELSE seeds[i - 1]
  BY <1>1, ConcatProperties
<1>3. DOMAIN all = 1..(1 + N)
  BY <1>2, LenProperties
<1> HIDE DEF all
<1>4. 1 \notin P
  BY <1>1, <1>2, <1>3
<1>5. ASSUME NEW i \in 1..N PROVE i + 1 \in P <=> i \in Q
  <2>1. i + 1 \in 1..Len(all) /\ ~ (i + 1 <= 1) /\ (i + 1) - 1 = i
    BY <1>1, <1>2
  <2>2. all[i + 1] = seeds[i]
    BY <1>2, <2>1
  <2> QED BY <1>1, <1>2, <1>3, <2>1, <2>2
<1> HIDE DEF P, Q
<1>6. Kept(all, P) = Kept(seeds, Q)
  BY <1>4, <1>5, KeptSkipFirst DEF all
<1> QED BY <1>6 DEF Others, P, Q, all

LEMMA GiftsAppend ==
  ASSUME NEW seeds \in Seq(Seeds), NEW seed \in Seeds
  PROVE  Gifts(Append(seeds, seed)) = Gifts(seeds) + seed.gift
<1> DEFINE all == Append(seeds, seed)
           N == Len(seeds)
<1>1. /\ all \in Seq(Seeds) /\ Len(all) = N + 1 /\ all[N + 1] = seed /\ N \in Nat
      /\ \A i \in 1..N : all[i] = seeds[i]
      /\ seed.gift \in Nat
  BY AppendProperties, LenProperties DEF Seeds
<1> HIDE DEF all
<1>2. /\ GiftsOf(seeds) \in Seq(Nat) /\ Len(GiftsOf(seeds)) = N
      /\ GiftsOf(all) \in Seq(Nat) /\ Len(GiftsOf(all)) = N + 1
  BY <1>1, GiftsOfType
<1>3. GiftsOf(all) = Append(GiftsOf(seeds), seed.gift)
  <2> DEFINE more == Append(GiftsOf(seeds), seed.gift)
  <2>1. /\ more \in Seq(Nat) /\ Len(more) = N + 1 /\ more[N + 1] = seed.gift
        /\ \A i \in 1..N : more[i] = GiftsOf(seeds)[i]
    BY <1>1, <1>2, AppendProperties
  <2> HIDE DEF more
  <2>2. ASSUME NEW i \in 1..(N + 1) PROVE GiftsOf(all)[i] = more[i]
    <3>1. GiftsOf(all)[i] = all[i].gift
      BY <1>1 DEF GiftsOf
    <3>2. CASE i = N + 1
      BY <1>1, <2>1, <3>1, <3>2
    <3>3. CASE i # N + 1
      <4>1. i \in 1..N
        BY <1>1, <3>3
      <4>2. more[i] = seeds[i].gift
        BY <2>1, <4>1 DEF GiftsOf
      <4> QED BY <1>1, <3>1, <4>1, <4>2
    <3> QED BY <3>2, <3>3
  <2>3. GiftsOf(all) = more
    BY <1>2, <2>1, <2>2, SeqEqual
  <2> QED BY <2>3 DEF more
<1>4. Total(GiftsOf(all)) = Total(GiftsOf(seeds)) + seed.gift
  BY <1>1, <1>2, <1>3, TotalAppend
<1> QED BY <1>4 DEF Gifts, GiftsOf, all

(* A prefix of a list and one element more.                                *)
LEMMA PrefixAppend ==
  ASSUME NEW S, NEW xs \in Seq(S), NEW n \in 0..(Len(xs) - 1)
  PROVE  /\ SubSeq(xs, 1, n) \in Seq(S) /\ xs[n + 1] \in S
         /\ SubSeq(xs, 1, n + 1) = Append(SubSeq(xs, 1, n), xs[n + 1])
<1> DEFINE ys == SubSeq(xs, 1, n)
           zs == SubSeq(xs, 1, n + 1)
<1>1. Len(xs) \in Nat /\ n \in Nat /\ n + 1 \in 1..Len(xs)
  BY LenProperties
<1>2. \A i \in 1..Len(xs) : xs[i] \in S
  BY ElementOfSeq
<1>3. /\ ys \in Seq(S) /\ Len(ys) = n
      /\ \A i \in 1..n : ys[i] = xs[i]
  <2>1. 1 \in Int /\ n \in Int /\ \A i \in 1..n : xs[i] \in S
    BY <1>1, <1>2
  <2>2. /\ ys \in Seq(S) /\ Len(ys) = (IF 1 <= n THEN n - 1 + 1 ELSE 0)
        /\ \A i \in 1..(n - 1 + 1) : ys[i] = xs[1 + i - 1]
    BY <2>1, SubSeqProperties
  <2> HIDE DEF ys
  <2> QED BY <1>1, <2>2
<1>4. /\ zs \in Seq(S) /\ Len(zs) = n + 1
      /\ \A i \in 1..(n + 1) : zs[i] = xs[i]
  <2>1. 1 \in Int /\ n + 1 \in Int /\ \A i \in 1..(n + 1) : xs[i] \in S
    BY <1>1, <1>2
  <2>2. /\ zs \in Seq(S) /\ Len(zs) = (IF 1 <= n + 1 THEN (n + 1) - 1 + 1 ELSE 0)
        /\ \A i \in 1..((n + 1) - 1 + 1) : zs[i] = xs[1 + i - 1]
    BY <2>1, SubSeqProperties
  <2> HIDE DEF zs
  <2> QED BY <1>1, <2>2
<1> HIDE DEF ys, zs
<1>5. /\ Append(ys, xs[n + 1]) \in Seq(S) /\ Len(Append(ys, xs[n + 1])) = n + 1
      /\ Append(ys, xs[n + 1])[n + 1] = xs[n + 1]
      /\ \A i \in 1..n : Append(ys, xs[n + 1])[i] = ys[i]
  BY <1>1, <1>2, <1>3, AppendProperties
<1>6. ASSUME NEW i \in 1..(n + 1) PROVE zs[i] = Append(ys, xs[n + 1])[i]
  <2>1. i = n + 1 \/ i \in 1..n
    BY <1>1
  <2> QED BY <1>3, <1>4, <1>5, <2>1
<1>7. zs = Append(ys, xs[n + 1])
  BY <1>4, <1>5, <1>6, SeqEqual
<1> QED BY <1>1, <1>2, <1>3, <1>7 DEF ys, zs

LEMMA WholePrefix ==
  ASSUME NEW S, NEW xs \in Seq(S)
  PROVE  /\ SubSeq(xs, 1, Len(xs)) = xs
         /\ SubSeq(xs, 1, 0) = << >>
<1> DEFINE ys == SubSeq(xs, 1, Len(xs))
<1>1. Len(xs) \in Nat /\ \A i \in 1..Len(xs) : xs[i] \in S
  BY LenProperties, ElementOfSeq
<1>2. /\ ys \in Seq(S) /\ Len(ys) = (IF 1 <= Len(xs) THEN Len(xs) - 1 + 1 ELSE 0)
      /\ \A i \in 1..(Len(xs) - 1 + 1) : ys[i] = xs[1 + i - 1]
  BY <1>1, SubSeqProperties
<1> HIDE DEF ys
<1>3. Len(ys) = Len(xs) /\ \A i \in 1..Len(xs) : ys[i] = xs[i]
  BY <1>1, <1>2
<1>4. ys = xs
  BY <1>2, <1>3, SeqEqual
<1> QED BY <1>4 DEF ys

(* The first n elements of a list, one more at a time.                     *)
FirstOf(xs, n) == SubSeq(xs, 1, n)

LEMMA FirstOfGrows ==
  ASSUME NEW S, NEW xs \in Seq(S)
  PROVE  /\ FirstOf(xs, 0) = << >> /\ FirstOf(xs, Len(xs)) = xs
         /\ \A n \in 0..(Len(xs) - 1) :
              /\ FirstOf(xs, n) \in Seq(S) /\ xs[n + 1] \in S
              /\ FirstOf(xs, n + 1) = Append(FirstOf(xs, n), xs[n + 1])
BY WholePrefix, PrefixAppend DEF FirstOf

(* Each seed to the lock is given beside what others are given.            *)
LEMMA GiftsSplit ==
  ASSUME NEW seeds \in Seq(Seeds), NEW lock
  PROVE  /\ Gifts(Others(seeds, lock)) <= Gifts(seeds)
         /\ \A i \in 1..Len(seeds) : seeds[i].lock = lock
              => Gifts(Others(seeds, lock)) + seeds[i].gift <= Gifts(seeds)
<1> DEFINE N == Len(seeds)
           Pre(n) == SubSeq(seeds, 1, n)
           All(n) == Gifts(Pre(n))
           Rest(n) == Gifts(Others(Pre(n), lock))
           T == {n \in 0..N : /\ Rest(n) <= All(n)
                              /\ \A i \in 1..n : seeds[i].lock = lock
                                   => Rest(n) + seeds[i].gift <= All(n)}
<1>1. N \in Nat /\ \A i \in 1..N : seeds[i] \in Seeds /\ seeds[i].gift \in Nat
  <2>1. \A i \in 1..N : seeds[i] \in Seeds
    BY ElementOfSeq
  <2>2. \A i \in 1..N : seeds[i].gift \in Nat
    BY <2>1 DEF Seeds
  <2> QED BY <2>1, <2>2, LenProperties
<1>2. 0 \in T
  <2>1. Pre(0) = << >> /\ << >> \in Seq(Seeds)
    BY WholePrefix, EmptySeq
  <2>2. Others(<< >>, lock) = << >>
    <3> DEFINE P == {i \in DOMAIN << >> : << >>[i].lock # lock}
    <3>1. 1..Len(<< >>) \subseteq P
      BY <2>1, EmptySeq
    <3>2. Kept(<< >>, P) = << >>
      <4> HIDE DEF P
      <4> QED BY <2>1, <3>1, KeptWhole
    <3> QED BY <3>2 DEF Others
  <2>3. Gifts(<< >>) \in Nat
    BY <2>1, GiftsType
  <2>4. Rest(0) = All(0) /\ All(0) \in Nat
    BY <2>1, <2>2, <2>3
  <2> HIDE DEF Rest, All
  <2> QED BY <1>1, <2>4
<1>3. ASSUME NEW n \in 0..(N - 1), n \in T PROVE n + 1 \in T
  <2> DEFINE seed == seeds[n + 1]
  <2>1. Pre(n) \in Seq(Seeds) /\ seed \in Seeds /\ Pre(n + 1) = Append(Pre(n), seed)
    BY PrefixAppend
  <2>2. n + 1 \in 1..N /\ n + 1 \in 0..N /\ n \in Nat /\ seed.gift \in Nat
    <3>1. n + 1 \in 1..N /\ n + 1 \in 0..N /\ n \in Nat
      BY <1>1
    <3> QED BY <1>1, <3>1
  <2>3. Others(Pre(n), lock) \in Seq(Seeds)
    BY <2>1, OthersType
  <2>4. All(n) \in Nat /\ Rest(n) \in Nat
    <3> HIDE DEF Pre
    <3> QED BY <2>1, <2>3, GiftsType
  <2>5. All(n + 1) = All(n) + seed.gift
    <3>1. Gifts(Append(Pre(n), seed)) = Gifts(Pre(n)) + seed.gift
      <4> HIDE DEF Pre, seed
      <4> QED BY <2>1, GiftsAppend
    <3> QED BY <2>1, <3>1
  <2>6. Rest(n + 1) = IF seed.lock = lock THEN Rest(n) ELSE Rest(n) + seed.gift
    <3>1. Others(Append(Pre(n), seed), lock)
            = IF seed.lock = lock THEN Others(Pre(n), lock)
              ELSE Append(Others(Pre(n), lock), seed)
      <4> HIDE DEF Pre, seed
      <4> QED BY <2>1, OthersAppend
    <3>2. Gifts(Append(Others(Pre(n), lock), seed)) = Rest(n) + seed.gift
      <4> HIDE DEF Pre, seed
      <4> QED BY <2>1, <2>3, GiftsAppend
    <3> QED BY <2>1, <3>1, <3>2
  <2>7. Rest(n) <= All(n)
        /\ \A i \in 1..n : seeds[i].lock = lock => Rest(n) + seeds[i].gift <= All(n)
    BY <1>3
  <2> HIDE DEF All, Rest
  <2>8. Rest(n + 1) <= All(n + 1)
    BY <2>2, <2>4, <2>5, <2>6, <2>7
  <2>9. ASSUME NEW i \in 1..(n + 1), seeds[i].lock = lock
        PROVE  Rest(n + 1) + seeds[i].gift <= All(n + 1)
    <3>1. CASE i = n + 1
      BY <2>2, <2>4, <2>5, <2>6, <2>7, <2>9, <3>1
    <3>2. CASE i # n + 1
      <4>1. i \in 1..n /\ i \in 1..N
        BY <1>1, <3>2
      <4>2. Rest(n) + seeds[i].gift <= All(n) /\ seeds[i].gift \in Nat
        BY <1>1, <2>7, <2>9, <4>1
      <4> DEFINE gift == seeds[i].gift
                 more == seed.gift
      <4> HIDE DEF gift, more, seed
      <4>3. /\ Rest(n) + gift <= All(n) /\ gift \in Nat /\ more \in Nat
            /\ Rest(n) \in Nat /\ All(n) \in Nat
            /\ Rest(n + 1) = Rest(n) \/ Rest(n + 1) = Rest(n) + more
            /\ All(n + 1) = All(n) + more
        BY <2>2, <2>4, <2>5, <2>6, <4>2 DEF gift, more
      <4>4. Rest(n + 1) + gift <= All(n + 1)
        BY ONLY <4>3
      <4> QED BY <4>4 DEF gift
    <3> QED BY <3>1, <3>2
  <2> QED BY <2>2, <2>8, <2>9 DEF All, Rest
<1>4. N \in T
  <2>1. \A n \in 0..N : n \in T
    <3> HIDE DEF T
    <3> QED BY <1>1, <1>2, <1>3, PrefixInduction
  <2>2. N \in 0..N
    BY <1>1
  <2> HIDE DEF T
  <2> QED BY <2>1, <2>2
<1>5. Pre(N) = seeds
  BY WholePrefix
<1> QED BY <1>4, <1>5

-----------------------------------------------------------------------------
(* Every operation on a spend gives a spend.                               *)

LEMMA NoSigsType == NoSigs \in Sigs
BY DEF NoSigs, Sigs

LEMMA SpendFields ==
  ASSUME NEW s \in Spends
  PROVE  /\ s.assets \in Nat
         /\ s.refund \in Locks \cup {NoLock}
         /\ s.seeds \in Seq(Seeds)
         /\ s.fee \in Nat
         /\ s.witness \in Witnesses
         /\ s.witness.prims \in Seq(Prims)
         /\ s.witness.sigs \in Sigs
         /\ s.witness.hax \in SUBSET Digests
BY DEF Spends, Witnesses

LEMMA InvalidateSigsType ==
  ASSUME NEW s \in Spends
  PROVE  InvalidateSigs(s) \in Spends
BY NoSigsType DEF InvalidateSigs, Spends, Witnesses

LEMMA SigHashType ==
  ASSUME NEW s \in Spends
  PROVE  SigHash(s) \in Contents
<1>1. s.seeds \in Seq(Seeds) /\ s.fee \in Nat
  BY SpendFields
<1>2. {s.seeds[i] : i \in DOMAIN s.seeds} \subseteq Seeds
  BY <1>1, ElementOfSeq, LenProperties
<1> QED BY <1>1, <1>2 DEF SigHash, Contents

LEMMA AddSeedType ==
  ASSUME NEW s \in Spends, NEW seed \in Seeds
  PROVE  AddSeed(s, seed) \in Spends
<1>1. Append(s.seeds, seed) \in Seq(Seeds)
  BY SpendFields, AppendProperties
<1> QED BY <1>1, InvalidateSigsType DEF AddSeed, InvalidateSigs, Spends

LEMMA SetFeeType ==
  ASSUME NEW s \in Spends, NEW portion \in Nat
  PROVE  SetFee(s, portion) \in Spends
<1>1. (IF s.fee # portion THEN InvalidateSigs(s) ELSE s) \in Spends
  BY InvalidateSigsType
<1> QED BY <1>1 DEF SetFee, Spends

LEMMA BuildSeedType ==
  ASSUME NEW lock \in Locks, NEW gift \in Nat, NEW include \in BOOLEAN,
         NEW extras \in NoteDatas
  PROVE  BuildSeed(lock, gift, include, extras) \in Seeds
<1>1. SeedData(lock, include, extras) \in NoteDatas
  BY SpendAssumption DEF SeedData, NoteDatas, DataKeys
<1> QED BY <1>1 DEF BuildSeed, Seeds

LEMMA WithoutRefundType ==
  ASSUME NEW s \in Spends
  PROVE  WithoutRefund(s) \in Spends
<1>1. Others(s.seeds, s.refund) \in Seq(Seeds)
  BY SpendFields, OthersType
<1> QED BY <1>1, InvalidateSigsType DEF WithoutRefund, Spends

LEMMA UnspentType ==
  ASSUME NEW s \in Spends
  PROVE  Unspent(s) \in Int
<1>1. Gifts(Others(s.seeds, s.refund)) \in Nat
  BY SpendFields, OthersType, GiftsType
<1>2. s.assets \in Nat /\ s.fee \in Nat
  BY SpendFields
<1> QED BY <1>1, <1>2 DEF Unspent

(* The refund put back is a natural number, because computeRefund adds it  *)
(* only when something is left.                                            *)
LEMMA ComputeRefundType ==
  ASSUME NEW s \in Spends, NEW include \in BOOLEAN
  PROVE  ComputeRefund(s, include) \in Spends
<1> DEFINE old == WithoutRefund(s)
           seed == BuildSeed(s.refund, Unspent(s), include, NoData)
<1>1. CASE s.refund = NoLock
  BY <1>1 DEF ComputeRefund
<1>2. CASE s.refund # NoLock /\ (Unspent(s) <= 0 \/ ComputeRefundThrows(s, include))
  BY <1>2, WithoutRefundType DEF ComputeRefund
<1>3. CASE s.refund # NoLock /\ ~ (Unspent(s) <= 0 \/ ComputeRefundThrows(s, include))
  <2>1. Unspent(s) \in Nat
    <3>1. Gifts(Others(s.seeds, s.refund)) \in Nat
      BY SpendFields, OthersType, GiftsType
    <3>2. s.assets \in Nat /\ s.fee \in Nat
      BY SpendFields
    <3> QED BY <1>3, <3>1, <3>2 DEF Unspent
  <2>2. NoData \in NoteDatas
    BY DEF NoData, NoteDatas
  <2>3. seed \in Seeds
    BY <1>3, <2>1, <2>2, SpendFields, BuildSeedType
  <2>4. old \in Spends
    BY WithoutRefundType
  <2>5. <<seed>> \o old.seeds \in Seq(Seeds)
    <3>1. <<seed>> \in Seq(Seeds)
      BY <2>3
    <3> QED BY <2>4, <3>1, SpendFields, ConcatProperties
  <2>6. ComputeRefund(s, include) = [old EXCEPT !.seeds = <<seed>> \o @]
    BY <1>3 DEF ComputeRefund
  <2> HIDE DEF old, seed
  <2> QED BY <2>4, <2>5, <2>6 DEF Spends
<1> QED BY <1>1, <1>2, <1>3

LEMMA WithSigsType ==
  ASSUME NEW w \in Witnesses, NEW sigs \in Sigs
  PROVE  [w EXCEPT !.sigs = sigs] \in Witnesses
BY DEF Witnesses

LEMMA SetWitnessType ==
  ASSUME NEW s \in Spends, NEW w \in Witnesses
  PROVE  SetWitness(s, w) \in Spends
BY InvalidateSigsType DEF SetWitness, Spends

LEMMA PushPkhSignatureType ==
  ASSUME NEW s \in Spends, NEW p \in Pkhs, NEW content \in Contents
  PROVE  PushPkhSignature(s, p, content) \in Spends
<1>1. [s.witness.sigs EXCEPT ![p] = content] \in Sigs
  BY SpendFields DEF Sigs
<1> QED BY <1>1 DEF PushPkhSignature, Spends, Witnesses

LEMMA PushHaxPreimageType ==
  ASSUME NEW s \in Spends, NEW d \in Digests
  PROVE  PushHaxPreimage(s, d) \in Spends
BY SpendFields DEF PushHaxPreimage, Spends, Witnesses

LEMMA AddPreimageType ==
  ASSUME NEW s \in Spends, NEW d \in Digests
  PROVE  AddPreimage(s, d) \in Spends
BY PushHaxPreimageType DEF AddPreimage, PushHaxPreimage

-----------------------------------------------------------------------------
(* What the operations do to the signed content and the signatures.        *)

Unsigned(s) == s.witness.sigs = NoSigs

LEMMA InvalidateSigsEffect ==
  ASSUME NEW s \in Spends
  PROVE  /\ InvalidateSigs(s) \in Spends
         /\ Unsigned(InvalidateSigs(s))
         /\ InvalidateSigs(s).seeds = s.seeds
         /\ InvalidateSigs(s).fee = s.fee
         /\ InvalidateSigs(s).witness.prims = s.witness.prims
BY InvalidateSigsType DEF InvalidateSigs, Unsigned, Spends, Witnesses

(* An edit of the owner: it keeps the spend condition, and keeps either    *)
(* the whole spend or no signature.                                        *)
IsEdit(s, t) ==
  /\ t.witness.prims = s.witness.prims
  /\ t = s \/ Unsigned(t)

LEMMA AddSeedIsEdit ==
  ASSUME NEW s \in Spends, NEW seed \in Seeds
  PROVE  IsEdit(s, AddSeed(s, seed))
BY InvalidateSigsEffect DEF AddSeed, IsEdit, Unsigned, Spends

LEMMA SetFeeIsEdit ==
  ASSUME NEW s \in Spends, NEW portion \in Nat
  PROVE  IsEdit(s, SetFee(s, portion))
<1>1. CASE s.fee = portion
  <2>1. SetFee(s, portion) = s
    BY <1>1 DEF SetFee, Spends
  <2> QED BY <2>1 DEF IsEdit
<1>2. CASE s.fee # portion
  BY <1>2, InvalidateSigsEffect DEF SetFee, IsEdit, Unsigned, Spends
<1> QED BY <1>1, <1>2

LEMMA WithoutRefundEffect ==
  ASSUME NEW s \in Spends
  PROVE  /\ WithoutRefund(s).witness = InvalidateSigs(s).witness
         /\ WithoutRefund(s).seeds = Others(s.seeds, s.refund)
         /\ WithoutRefund(s).fee = s.fee
         /\ WithoutRefund(s).assets = s.assets
         /\ WithoutRefund(s).refund = s.refund
BY InvalidateSigsType DEF WithoutRefund, InvalidateSigs, Spends

LEMMA ComputeRefundIsEdit ==
  ASSUME NEW s \in Spends, NEW include \in BOOLEAN
  PROVE  IsEdit(s, ComputeRefund(s, include))
<1>1. CASE s.refund = NoLock
  BY <1>1 DEF ComputeRefund, IsEdit
<1>2. CASE s.refund # NoLock
  <2>1. WithoutRefund(s) \in Spends
    BY WithoutRefundType
  <2>2. ComputeRefund(s, include).witness = WithoutRefund(s).witness
    BY <1>2, <2>1 DEF ComputeRefund, Spends
  <2> QED BY <2>2, WithoutRefundEffect, InvalidateSigsEffect DEF IsEdit, Unsigned
<1> QED BY <1>1, <1>2

(* The witness operations do not touch what is signed.                     *)
LEMMA PushPkhSignatureEffect ==
  ASSUME NEW s \in Spends, NEW p \in Pkhs, NEW content
  PROVE  LET t == PushPkhSignature(s, p, content)
         IN  /\ SigHash(t) = SigHash(s)
             /\ t.witness.prims = s.witness.prims
             /\ t.witness.sigs = [s.witness.sigs EXCEPT ![p] = content]
BY DEF PushPkhSignature, SigHash, Spends, Witnesses

LEMMA PushHaxPreimageEffect ==
  ASSUME NEW s \in Spends, NEW d
  PROVE  LET t == PushHaxPreimage(s, d)
         IN  /\ SigHash(t) = SigHash(s)
             /\ t.witness.prims = s.witness.prims
             /\ t.witness.sigs = s.witness.sigs
BY DEF PushHaxPreimage, SigHash, Spends, Witnesses

LEMMA AddPreimageEffect ==
  ASSUME NEW s \in Spends, NEW d
  PROVE  LET t == AddPreimage(s, d)
         IN  /\ SigHash(t) = SigHash(s)
             /\ t.witness.prims = s.witness.prims
             /\ t.witness.sigs = s.witness.sigs
BY PushHaxPreimageEffect DEF AddPreimage, PushHaxPreimage

LEMMA SetWitnessEffect ==
  ASSUME NEW s \in Spends, NEW w \in Witnesses
  PROVE  /\ SigHash(SetWitness(s, w)) = SigHash(s)
         /\ SetWitness(s, w).witness = w
BY InvalidateSigsType DEF SetWitness, InvalidateSigs, SigHash, Spends
-----------------------------------------------------------------------------
(* computeRefund.                                                          *)

(* What computeRefund makes of a spend with a refund lock: the seeds for   *)
(* others as they were, with one new seed to the lock in front of them     *)
(* when there is something left and buildSeed does not throw.              *)
LEMMA ComputeRefundEffect ==
  ASSUME NEW s \in Spends, NEW include \in BOOLEAN
  PROVE  LET t == ComputeRefund(s, include)
             others == Others(s.seeds, s.refund)
         IN  /\ t.assets = s.assets /\ t.refund = s.refund /\ t.fee = s.fee
             /\ s.refund = NoLock => t = s
             /\ s.refund # NoLock =>
                  \/ /\ Unspent(s) <= 0 \/ ComputeRefundThrows(s, include)
                     /\ t.seeds = others
                  \/ /\ Unspent(s) > 0 /\ ~ ComputeRefundThrows(s, include)
                     /\ \E seed \in Seeds : /\ seed.lock = s.refund /\ seed.gift = Unspent(s)
                                           /\ t.seeds = <<seed>> \o others
<1> DEFINE t == ComputeRefund(s, include)
           others == Others(s.seeds, s.refund)
           seed == BuildSeed(s.refund, Unspent(s), include, NoData)
<1>1. CASE s.refund = NoLock
  BY <1>1 DEF ComputeRefund
<1>2. CASE s.refund # NoLock /\ (Unspent(s) <= 0 \/ ComputeRefundThrows(s, include))
  <2>1. t = WithoutRefund(s)
    BY <1>2 DEF ComputeRefund
  <2> HIDE DEF t
  <2> QED BY <1>2, <2>1, WithoutRefundEffect DEF t
<1>3. CASE s.refund # NoLock /\ ~ (Unspent(s) <= 0 \/ ComputeRefundThrows(s, include))
  <2>1. Unspent(s) \in Nat /\ Unspent(s) > 0
    BY <1>3, UnspentType
  <2>2. seed \in Seeds
    <3>1. NoData \in NoteDatas
      BY DEF NoData, NoteDatas
    <3> QED BY <1>3, <2>1, <3>1, SpendFields, BuildSeedType
  <2>3. seed.lock = s.refund /\ seed.gift = Unspent(s)
    BY DEF BuildSeed
  <2>4. t = [WithoutRefund(s) EXCEPT !.seeds = <<seed>> \o @]
    BY <1>3 DEF ComputeRefund
  <2>5. WithoutRefund(s) \in Spends
    BY WithoutRefundType
  <2> HIDE DEF t, seed
  <2>6. /\ t.assets = s.assets /\ t.refund = s.refund /\ t.fee = s.fee
        /\ t.seeds = <<seed>> \o others
    BY <2>4, <2>5, WithoutRefundEffect DEF Spends
  <2> QED BY <1>3, <2>1, <2>2, <2>3, <2>6 DEF t
<1> QED BY <1>1, <1>2, <1>3

(* What others are given is the same before and after.                     *)
LEMMA ComputeRefundKeepsOthers ==
  ASSUME NEW s \in Spends, NEW include \in BOOLEAN
  PROVE  Others(ComputeRefund(s, include).seeds, s.refund) = Others(s.seeds, s.refund)
<1> DEFINE t == ComputeRefund(s, include)
           others == Others(s.seeds, s.refund)
<1>1. s.seeds \in Seq(Seeds) /\ others \in Seq(Seeds)
  BY SpendFields, OthersType
<1>2. CASE s.refund = NoLock
  BY <1>2, ComputeRefundEffect
<1>3. CASE t.seeds = others
  BY <1>1, <1>3, OthersAgain
<1>4. ASSUME NEW seed \in Seeds, seed.lock = s.refund, t.seeds = <<seed>> \o others
      PROVE  Others(t.seeds, s.refund) = others
  BY <1>1, <1>4, OthersSkipFirst, OthersAgain
<1> HIDE DEF t
<1>5. \/ s.refund = NoLock \/ t.seeds = others
      \/ \E seed \in Seeds : seed.lock = s.refund /\ t.seeds = <<seed>> \o others
  BY ComputeRefundEffect DEF t
<1> QED BY <1>2, <1>3, <1>4, <1>5 DEF t

(* A refund that computeRefund could put back settles the spend, unless    *)
(* fee and gifts to others alone exceed the assets.                        *)
LEMMA ComputeRefundBalances ==
  ASSUME NEW s \in Spends, NEW include \in BOOLEAN, s.refund # NoLock,
         ~ ComputeRefundThrows(s, include), Unspent(s) >= 0
  PROVE  IsBalanced(ComputeRefund(s, include))
<1> DEFINE t == ComputeRefund(s, include)
           others == Others(s.seeds, s.refund)
<1>1. /\ others \in Seq(Seeds) /\ Gifts(others) \in Nat
      /\ s.assets \in Nat /\ s.fee \in Nat
      /\ Unspent(s) = s.assets - s.fee - Gifts(others)
  BY SpendFields, OthersType, GiftsType DEF Unspent
<1>2. t.assets = s.assets /\ t.fee = s.fee
  BY ComputeRefundEffect
<1>3. Gifts(t.seeds) = Unspent(s) + Gifts(others)
  <2>1. CASE Unspent(s) = 0 /\ t.seeds = others
    BY <1>1, <2>1
  <2>2. ASSUME NEW seed \in Seeds, seed.gift = Unspent(s), t.seeds = <<seed>> \o others
        PROVE  Gifts(t.seeds) = Unspent(s) + Gifts(others)
    BY <1>1, <2>2, GiftsFirst
  <2> HIDE DEF t
  <2>3. \/ Unspent(s) <= 0 /\ t.seeds = others
        \/ \E seed \in Seeds : seed.gift = Unspent(s) /\ t.seeds = <<seed>> \o others
    BY ComputeRefundEffect DEF t
  <2>4. Unspent(s) <= 0 => Unspent(s) = 0
    BY <1>1
  <2> QED BY <2>1, <2>2, <2>3, <2>4
<1> HIDE DEF t, others
<1>4. t.assets = Gifts(t.seeds) + t.fee
  BY <1>1, <1>2, <1>3
<1> QED BY <1>4 DEF IsBalanced, t

(* curRefund finds a seed to the refund lock.                              *)
LEMMA CurRefundType ==
  ASSUME NEW s \in Spends, HasRefund(s)
  PROVE  /\ CurRefund(s) \in Seeds /\ CurRefund(s).gift \in Nat
         /\ \E i \in 1..Len(s.seeds) : s.seeds[i].lock = s.refund /\ CurRefund(s) = s.seeds[i]
<1> DEFINE at == RefundSeedsAt(s)
<1>1. s.seeds \in Seq(Seeds) /\ DOMAIN s.seeds = 1..Len(s.seeds) /\ Len(s.seeds) \in Nat
  BY SpendFields, LenProperties
<1>2. at # {} /\ at \in SUBSET Nat /\ at \subseteq 1..Len(s.seeds)
      /\ \A i \in at : s.seeds[i].lock = s.refund
  BY <1>1 DEF HasRefund, RefundSeedsAt
<1> HIDE DEF at
<1>3. \E i \in at : \A j \in at : i <= j
  <2>1. IsWellFoundedOn(OpToRel(<, Nat), Nat)
    BY NatLessThanWellFounded
  <2>2. PICK i \in at : \A j \in at : ~ (<<j, i>> \in OpToRel(<, Nat))
    BY <1>2, <2>1, WFMin
  <2>3. \A j \in at : ~ (j < i)
    BY <1>2, <2>2 DEF OpToRel
  <2>4. i \in Nat /\ at \in SUBSET Nat
    BY <1>2
  <2>5. \A j \in at : i <= j
    BY <2>3, <2>4
  <2> QED BY <2>5
<1> DEFINE first == CHOOSE i \in at : \A j \in at : i <= j
<1>4. first \in at
  BY <1>3
<1>5. CurRefund(s) = s.seeds[first]
  BY DEF CurRefund, at
<1> HIDE DEF first
<1>6. s.seeds[first] \in Seeds
  BY <1>1, <1>2, <1>4, ElementOfSeq
<1> QED BY <1>2, <1>4, <1>5, <1>6 DEF Seeds

LEMMA SetFeeFields ==
  ASSUME NEW s \in Spends, NEW portion \in Nat
  PROVE  /\ SetFee(s, portion).assets = s.assets
         /\ SetFee(s, portion).refund = s.refund
         /\ SetFee(s, portion).seeds = s.seeds
         /\ SetFee(s, portion).fee = portion
BY DEF SetFee, InvalidateSigs, Spends

LEMMA AddSeedFields ==
  ASSUME NEW s \in Spends, NEW seed \in Seeds
  PROVE  /\ AddSeed(s, seed).assets = s.assets
         /\ AddSeed(s, seed).refund = s.refund
         /\ AddSeed(s, seed).seeds = Append(s.seeds, seed)
         /\ AddSeed(s, seed).fee = s.fee
BY DEF AddSeed, InvalidateSigs, Spends

(* In a balanced spend, fee and gifts to others leave the assets room, and *)
(* room for each refund.                                                   *)
LEMMA BalancedLeaves ==
  ASSUME NEW s \in Spends, IsBalanced(s)
  PROVE  /\ Unspent(s) >= 0
         /\ HasRefund(s) => Unspent(s) >= CurRefund(s).gift
<1> DEFINE others == Others(s.seeds, s.refund)
<1>1. /\ s.seeds \in Seq(Seeds) /\ others \in Seq(Seeds)
      /\ s.assets \in Nat /\ s.fee \in Nat
  BY SpendFields, OthersType
<1>2. Gifts(others) \in Nat /\ Gifts(s.seeds) \in Nat
  BY <1>1, GiftsType
<1>3. Unspent(s) = s.assets - s.fee - Gifts(others) /\ s.assets = Gifts(s.seeds) + s.fee
  BY DEF Unspent, IsBalanced
<1>4. Gifts(others) <= Gifts(s.seeds)
  BY <1>1, GiftsSplit
<1>5. Unspent(s) >= 0
  BY <1>1, <1>2, <1>3, <1>4
<1>6. ASSUME HasRefund(s) PROVE Unspent(s) >= CurRefund(s).gift
  <2>1. PICK i \in 1..Len(s.seeds) : s.seeds[i].lock = s.refund /\ CurRefund(s) = s.seeds[i]
    BY <1>6, CurRefundType
  <2>2. Gifts(others) + CurRefund(s).gift <= Gifts(s.seeds)
    BY <1>1, <2>1, GiftsSplit
  <2>3. CurRefund(s).gift \in Nat
    BY <1>6, CurRefundType
  <2> QED BY <1>1, <1>2, <1>3, <2>2, <2>3
<1> QED BY <1>5, <1>6

-----------------------------------------------------------------------------
(* The fee rules.                                                          *)

LEMMA DataKeysFinite == IsFiniteSet(DataKeys)
<1>1. IsFiniteSet({"lock"})
  BY FS_Singleton
<1>2. IsFiniteSet({"lock"} \cup {"memo"})
  BY <1>1, FS_AddElement
<1>3. IsFiniteSet(({"lock"} \cup {"memo"}) \cup {"blob"})
  BY <1>2, FS_AddElement
<1>4. DataKeys = ({"lock"} \cup {"memo"}) \cup {"blob"}
  BY DEF DataKeys
<1> QED BY <1>3, <1>4

LEMMA NoteDataWordsType ==
  ASSUME NEW data \in NoteDatas
  PROVE  NoteDataWords(data) \in Nat
<1> DEFINE words == [k \in DataKeys |-> IF data[k] = 0 THEN 0 ELSE 1 + data[k]]
<1>1. words \in [DataKeys -> Nat]
  BY DEF NoteDatas
<1>2. SumFunction(words) \in Nat
  <2> HIDE DEF words
  <2> QED BY <1>1, DataKeysFinite, SumFunctionType
<1> QED BY <1>2 DEF NoteDataWords

(* The sum of a natural number for each element of a list.                 *)
LEMMA ListTotalType ==
  ASSUME NEW N \in Nat, NEW f \in [1..N -> Nat]
  PROVE  f \in Seq(Nat) /\ Len(f) = N /\ Total(f) \in Nat
<1>1. f \in Seq(Nat) /\ Len(f) = N
  BY IsASeq
<1> QED BY <1>1, TotalType

LEMMA SeedWordsType ==
  ASSUME NEW s \in Spends
  PROVE  SeedWords(s) \in Nat
<1> DEFINE f == [i \in 1..Len(s.seeds) |-> NoteDataWords(s.seeds[i].data)]
<1>1. s.seeds \in Seq(Seeds) /\ Len(s.seeds) \in Nat
  BY SpendFields, LenProperties
<1>2. ASSUME NEW i \in 1..Len(s.seeds) PROVE s.seeds[i].data \in NoteDatas
  <2>1. s.seeds[i] \in Seeds
    BY <1>1, ElementOfSeq
  <2> QED BY <2>1 DEF Seeds
<1>3. f \in [1..Len(s.seeds) -> Nat]
  BY <1>2, NoteDataWordsType
<1> HIDE DEF f
<1>4. Total(f) \in Nat
  BY <1>1, <1>3, ListTotalType
<1> QED BY <1>4 DEF SeedWords, f

LEMMA SignedByFinite ==
  ASSUME NEW s
  PROVE  IsFiniteSet(SignedBy(s)) /\ Cardinality(SignedBy(s)) \in Nat
<1>1. SignedBy(s) \in SUBSET Pkhs
  BY DEF SignedBy
<1>2. IsFiniteSet(SignedBy(s))
  BY <1>1, SpendAssumption, FS_Subset
<1> QED BY <1>2, FS_CardinalityType

LEMMA WitnessWordsType ==
  ASSUME NEW s \in Spends
  PROVE  WitnessWords(s) \in Nat
<1> DEFINE f == [d \in s.witness.hax |-> HaxEntryWords + PreimageWords[d]]
<1>1. s.witness.hax \in SUBSET Digests /\ s.witness.proofWords \in Nat
  BY DEF Spends, Witnesses
<1>2. f \in [s.witness.hax -> Nat]
  BY <1>1, SpendAssumption DEF HaxEntryWords
<1>3. IsFiniteSet(s.witness.hax)
  BY <1>1, SpendAssumption, FS_Subset
<1>4. SumFunction(f) \in Nat
  <2> HIDE DEF f
  <2> QED BY <1>2, <1>3, SumFunctionType
<1>5. WitnessWords(s) = s.witness.proofWords + SigWords * Cardinality(SignedBy(s)) + SumFunction(f)
  BY DEF WitnessWords
<1> HIDE DEF f
<1>6. SigWords * Cardinality(SignedBy(s)) \in Nat
  BY SignedByFinite DEF SigWords
<1> QED BY <1>1, <1>4, <1>5, <1>6

LEMMA SeedFeeType ==
  ASSUME NEW words \in Nat
  PROVE  SeedFee(words) \in Nat
BY SpendAssumption DEF SeedFee

LEMMA WitnessFeeType ==
  ASSUME NEW words \in Nat
  PROVE  (CostPerWord * words) \div WitnessWordDiv \in Nat /\ WitnessFee(words) \in Nat
<1>1. CostPerWord * words \in Nat /\ WitnessWordDiv \in Nat /\ WitnessWordDiv > 0
  BY SpendAssumption
<1>2. ASSUME NEW a \in Nat, NEW b \in Nat, b > 0 PROVE a \div b \in Nat
  BY <1>2
<1> QED BY <1>1, <1>2 DEF WitnessFee

LEMMA MissingSigsType ==
  ASSUME NEW s \in Spends, NEW i \in DOMAIN s.witness.prims
  PROVE  MissingSigs(s, i) \in Nat
<1> DEFINE p == s.witness.prims[i]
           signed == p.hashes \cap SignedBy(s)
<1>1. p \in Prims
  <2>1. s.witness.prims \in Seq(Prims)
    BY SpendFields
  <2> QED BY <2>1, ElementOfSeq, LenProperties
<1>2. CASE p.tag = "pkh"
  <2>1. p.m \in Nat
    BY <1>1, <1>2 DEF Prims, PkhPrims, HaxPrims, BrnPrims
  <2>2. signed \in SUBSET SignedBy(s)
    OBVIOUS
  <2>3. IsFiniteSet(signed)
    <3> HIDE DEF signed
    <3> QED BY <2>2, SignedByFinite, FS_Subset
  <2>4. Cardinality(signed) \in Nat
    BY <2>3, FS_CardinalityType
  <2>5. MissingSigs(s, i) = LargerOf(0, p.m - Cardinality(signed))
    BY <1>2 DEF MissingSigs
  <2> QED BY <2>1, <2>4, <2>5 DEF LargerOf
<1>3. CASE p.tag # "pkh"
  BY <1>3 DEF MissingSigs
<1> QED BY <1>2, <1>3

LEMMA MissingUnlocksFeeType ==
  ASSUME NEW s \in Spends
  PROVE  MissingUnlocksFee(s) \in Nat
<1> DEFINE f == [i \in DOMAIN s.witness.prims |->
                   (CostPerWord * SigWords * MissingSigs(s, i)) \div WitnessWordDiv]
           N == Len(s.witness.prims)
<1>1. N \in Nat /\ DOMAIN s.witness.prims = 1..N
  BY SpendFields, LenProperties
<1>2. ASSUME NEW i \in 1..N PROVE f[i] \in Nat
  <2>1. MissingSigs(s, i) \in Nat
    BY <1>1, MissingSigsType
  <2>2. SigWords * MissingSigs(s, i) \in Nat
        /\ CostPerWord * SigWords * MissingSigs(s, i)
             = CostPerWord * (SigWords * MissingSigs(s, i))
    BY <2>1, SpendAssumption DEF SigWords
  <2>3. (CostPerWord * (SigWords * MissingSigs(s, i))) \div WitnessWordDiv \in Nat
    BY <2>2, WitnessFeeType
  <2> QED BY <1>1, <2>2, <2>3
<1>3. f \in [1..N -> Nat]
  BY <1>1, <1>2
<1> HIDE DEF f, N
<1>4. Total(f) \in Nat
  BY <1>1, <1>3, ListTotalType
<1> QED BY <1>4 DEF MissingUnlocksFee, f

(* The noun of a merged key is that of one of the seeds.                   *)
LEMMA MergedDataType ==
  ASSUME NEW seeds \in Seq(Seeds), NEW lock
  PROVE  MergedData(seeds, lock) \in NoteDatas
<1>1. ASSUME NEW k \in DataKeys PROVE MergedData(seeds, lock)[k] \in Nat
  <2> DEFINE at == {i \in DOMAIN seeds : seeds[i].lock = lock /\ seeds[i].data[k] # 0}
  <2>1. MergedData(seeds, lock)[k] = IF at = {} THEN 0 ELSE seeds[Max(at)].data[k]
    BY DEF MergedData
  <2>2. CASE at # {}
    <3>1. at \subseteq 1..Len(seeds) /\ Len(seeds) \in Nat
      BY LenProperties
    <3>2. Max(at) \in at
      <4> HIDE DEF at
      <4> QED BY <2>2, <3>1, LastIsIn
    <3>3. seeds[Max(at)] \in Seeds
      BY <3>1, <3>2, ElementOfSeq
    <3> DEFINE seed == seeds[Max(at)]
    <3>4. seed.data[k] \in Nat
      <4>1. seed \in Seeds
        BY <3>3
      <4> HIDE DEF seed
      <4>2. seed.data \in [DataKeys -> Nat]
        BY <4>1 DEF Seeds, NoteDatas
      <4> QED BY <4>2
    <3> HIDE DEF at
    <3> QED BY <2>1, <2>2, <3>4
  <2>3. CASE at = {}
    <3> HIDE DEF at
    <3> QED BY <2>1, <2>3
  <2> QED BY <2>2, <2>3
<1>2. MergedData(seeds, lock) = [k \in DataKeys |-> MergedData(seeds, lock)[k]]
  BY DEF MergedData
<1> HIDE DEF MergedData
<1> QED BY <1>1, <1>2 DEF NoteDatas

(* The note data d2 put over d1, key by key: one turn of mergeNoteData.    *)
Over(d1, d2) == [k \in DataKeys |-> IF d2[k] = 0 THEN d1[k] ELSE d2[k]]

(* The seeds to a lock that carry a key, and the noun of the last of them. *)
Carriers(seeds, lock, k) ==
  {i \in DOMAIN seeds : seeds[i].lock = lock /\ seeds[i].data[k] # 0}

LastNoun(seeds, lock, k, noun) ==
  LET at == Carriers(seeds, lock, k)
  IN  \/ at = {} /\ noun = 0
      \/ \E m \in at : noun = seeds[m].data[k] /\ \A i \in at : i <= m

LEMMA MergedDataIs ==
  ASSUME NEW seeds \in Seq(Seeds), NEW lock, NEW k \in DataKeys
  PROVE  LastNoun(seeds, lock, k, MergedData(seeds, lock)[k])
<1> DEFINE at == Carriers(seeds, lock, k)
<1>1. MergedData(seeds, lock)[k] = IF at = {} THEN 0 ELSE seeds[Max(at)].data[k]
  BY DEF MergedData, Carriers
<1>2. at \subseteq 1..Len(seeds) /\ Len(seeds) \in Nat
  BY LenProperties DEF Carriers
<1>3. at # {} => Max(at) \in at /\ \A i \in at : i <= Max(at)
  <2> HIDE DEF at
  <2> QED BY <1>2, LastIsIn
<1> HIDE DEF at
<1> QED BY <1>1, <1>3 DEF LastNoun, at

LEMMA LastNounIsOne ==
  ASSUME NEW seeds \in Seq(Seeds), NEW lock, NEW k, NEW a, NEW b,
         LastNoun(seeds, lock, k, a), LastNoun(seeds, lock, k, b)
  PROVE  a = b
<1> DEFINE at == Carriers(seeds, lock, k)
<1>1. at \subseteq Nat
  BY LenProperties DEF Carriers
<1>2. \/ at = {} /\ a = 0
      \/ \E m \in at : a = seeds[m].data[k] /\ \A i \in at : i <= m
  BY DEF LastNoun
<1>3. \/ at = {} /\ b = 0
      \/ \E m \in at : b = seeds[m].data[k] /\ \A i \in at : i <= m
  BY DEF LastNoun
<1> HIDE DEF at
<1>4. \A m, n \in at : (\A i \in at : i <= m) /\ (\A i \in at : i <= n) => m = n
  BY <1>1
<1> QED BY <1>2, <1>3, <1>4

(* Seeds behind others: their data is put over that of the others.         *)
LEMMA MergedConcat ==
  ASSUME NEW a \in Seq(Seeds), NEW b \in Seq(Seeds), NEW lock
  PROVE  MergedData(a \o b, lock) = Over(MergedData(a, lock), MergedData(b, lock))
<1> DEFINE both == a \o b
           M == Len(a)
<1>1. /\ both \in Seq(Seeds) /\ DOMAIN both = 1..(M + Len(b))
      /\ DOMAIN a = 1..M /\ DOMAIN b = 1..Len(b) /\ M \in Nat /\ Len(b) \in Nat
      /\ \A i \in 1..(M + Len(b)) : both[i] = IF i <= M THEN a[i] ELSE b[i - M]
  <2>1. both \in Seq(Seeds) /\ Len(both) = M + Len(b)
    BY ConcatProperties
  <2> QED BY <2>1, ConcatProperties, LenProperties
<1> HIDE DEF both, M
<1>2. ASSUME NEW k \in DataKeys
      PROVE  MergedData(both, lock)[k] = Over(MergedData(a, lock), MergedData(b, lock))[k]
  <2> DEFINE A == Carriers(a, lock, k)
             B == Carriers(b, lock, k)
             C == Carriers(both, lock, k)
             x == MergedData(a, lock)[k]
             y == MergedData(b, lock)[k]
             z == IF y = 0 THEN x ELSE y
  <2>1. LastNoun(a, lock, k, x) /\ LastNoun(b, lock, k, y)
        /\ LastNoun(both, lock, k, MergedData(both, lock)[k])
    BY <1>1, MergedDataIs
  <2>2. Over(MergedData(a, lock), MergedData(b, lock))[k] = z
    BY DEF Over
  <2> HIDE DEF x, y
  <2>3. \A i \in DOMAIN a : i \in DOMAIN both /\ both[i] = a[i] /\ i <= M
    BY <1>1
  <2>4. \A i \in DOMAIN b : M + i \in DOMAIN both /\ both[M + i] = b[i]
    <3>1. ASSUME NEW i \in DOMAIN b PROVE M + i \in DOMAIN both /\ both[M + i] = b[i]
      <4>1. i \in 1..Len(b)
        BY <1>1
      <4>2. M + i \in 1..(M + Len(b)) /\ ~ (M + i <= M) /\ (M + i) - M = i
        BY <1>1, <4>1
      <4> QED BY <1>1, <4>2
    <3> QED BY <3>1
  <2>5. \A i \in DOMAIN both : i \in DOMAIN a \/ (i - M \in DOMAIN b /\ i = M + (i - M))
    BY <1>1
  <2>6. /\ \A i \in A : i \in C /\ both[i] = a[i]
        /\ \A i \in B : M + i \in C /\ both[M + i] = b[i]
        /\ \A i \in C : i \in A \/ (i - M \in B /\ i = M + (i - M))
        /\ A \subseteq 1..M /\ B \subseteq 1..Len(b)
    <3>1. ASSUME NEW i \in C PROVE i \in A \/ (i - M \in B /\ i = M + (i - M))
      BY <2>3, <2>4, <2>5 DEF Carriers
    <3> QED BY <1>1, <2>3, <2>4, <3>1 DEF Carriers
  <2>7. /\ \/ A = {} /\ x = 0
           \/ \E m \in A : x = a[m].data[k] /\ \A i \in A : i <= m
        /\ \/ B = {} /\ y = 0
           \/ \E m \in B : y = b[m].data[k] /\ \A i \in B : i <= m
    BY <2>1 DEF LastNoun
  <2>8. \A m \in B : b[m].data[k] # 0
    BY DEF Carriers
  <2> HIDE DEF A, B, C
  <2>9. \/ C = {} /\ z = 0
        \/ \E m \in C : z = both[m].data[k] /\ \A i \in C : i <= m
    <3>1. CASE B = {}
      <4>1. z = x
        BY <2>7, <3>1
      <4>2. CASE A = {}
        BY <2>6, <2>7, <3>1, <4>1, <4>2
      <4>3. CASE A # {}
        BY <2>6, <2>7, <3>1, <4>1, <4>3
      <4> QED BY <4>2, <4>3
    <3>2. CASE B # {}
      <4>1. PICK m \in B : y = b[m].data[k] /\ \A i \in B : i <= m
        BY <2>7, <3>2
      <4>2. z = y /\ M + m \in C /\ z = both[M + m].data[k]
        BY <2>6, <2>8, <4>1
      <4>3. ASSUME NEW i \in C PROVE i <= M + m
        <5>1. m \in Nat
          BY <2>6
        <5>2. CASE i \in A
          <6>1. i \in 1..M
            BY <2>6, <5>2
          <6> QED BY <1>1, <5>1, <6>1
        <5>3. CASE i - M \in B /\ i = M + (i - M)
          <6> DEFINE r == i - M
          <6>1. r \in B /\ i = M + r
            BY <5>3
          <6> HIDE DEF r
          <6>2. r <= m /\ r \in Nat
            BY <2>6, <4>1, <6>1
          <6> QED BY <1>1, <5>1, <6>1, <6>2
        <5> QED BY <2>6, <5>2, <5>3
      <4> QED BY <4>2, <4>3
    <3> QED BY <3>1, <3>2
  <2>10. LastNoun(both, lock, k, z)
    BY <2>9 DEF LastNoun, C
  <2> HIDE DEF z
  <2> QED BY <1>1, <2>1, <2>2, <2>10, LastNounIsOne
<1>3. /\ MergedData(both, lock) = [k \in DataKeys |-> MergedData(both, lock)[k]]
      /\ Over(MergedData(a, lock), MergedData(b, lock))
           = [k \in DataKeys |-> Over(MergedData(a, lock), MergedData(b, lock))[k]]
  BY DEF MergedData, Over
<1> QED BY <1>2, <1>3 DEF both

(* The data of one seed, and of none.                                      *)
LEMMA MergedOne ==
  ASSUME NEW seed \in Seeds, NEW lock
  PROVE  MergedData(<<seed>>, lock) = IF seed.lock = lock THEN seed.data ELSE NoData
<1>1. /\ <<seed>> \in Seq(Seeds) /\ DOMAIN <<seed>> = {1} /\ <<seed>>[1] = seed
      /\ seed.data \in NoteDatas
  BY DEF Seeds
<1>2. ASSUME NEW k \in DataKeys
      PROVE  MergedData(<<seed>>, lock)[k] = IF seed.lock = lock THEN seed.data[k] ELSE 0
  <2>1. LastNoun(<<seed>>, lock, k, MergedData(<<seed>>, lock)[k])
    BY <1>1, MergedDataIs
  <2>2. \A i \in Carriers(<<seed>>, lock, k) : i = 1
    BY <1>1 DEF Carriers
  <2>3. 1 \in Carriers(<<seed>>, lock, k) <=> seed.lock = lock /\ seed.data[k] # 0
    BY <1>1 DEF Carriers
  <2> QED BY <1>1, <2>1, <2>2, <2>3 DEF LastNoun
<1>3. MergedData(<<seed>>, lock) = [k \in DataKeys |-> MergedData(<<seed>>, lock)[k]]
  BY DEF MergedData
<1>4. /\ seed.data = [k \in DataKeys |-> seed.data[k]]
      /\ NoData = [k \in DataKeys |-> 0]
  BY <1>1 DEF NoteDatas, NoData
<1> QED BY <1>2, <1>3, <1>4

LEMMA MergedNone ==
  ASSUME NEW lock
  PROVE  MergedData(<< >>, lock) = NoData
<1>1. \A k \in DataKeys : {i \in DOMAIN << >> : << >>[i].lock = lock /\ << >>[i].data[k] # 0} = {}
  OBVIOUS
<1> QED BY <1>1 DEF MergedData, NoData

LEMMA OverParts ==
  ASSUME NEW d \in NoteDatas, NEW e \in NoteDatas
  PROVE  Over(d, e) \in NoteDatas /\ Over(d, NoData) = d /\ Over(NoData, d) = d
<1>1. /\ \A k \in DataKeys : d[k] \in Nat /\ e[k] \in Nat /\ NoData[k] = 0
      /\ d = [k \in DataKeys |-> d[k]]
  BY DEF NoteDatas, NoData
<1>2. Over(d, e) \in NoteDatas
  BY <1>1 DEF NoteDatas, Over
<1>3. Over(d, NoData) = [k \in DataKeys |-> d[k]]
  BY <1>1 DEF Over
<1>4. Over(NoData, d) = [k \in DataKeys |-> d[k]]
  BY <1>1 DEF Over
<1> QED BY <1>1, <1>2, <1>3, <1>4

LEMMA MergedAppend ==
  ASSUME NEW seeds \in Seq(Seeds), NEW seed \in Seeds, NEW lock
  PROVE  MergedData(Append(seeds, seed), lock)
           = IF seed.lock = lock THEN Over(MergedData(seeds, lock), seed.data)
             ELSE MergedData(seeds, lock)
<1>1. Append(seeds, seed) = seeds \o <<seed>> /\ <<seed>> \in Seq(Seeds)
  BY AppendIsConcat
<1>2. MergedData(seeds \o <<seed>>, lock)
        = Over(MergedData(seeds, lock), MergedData(<<seed>>, lock))
  BY <1>1, MergedConcat
<1>3. MergedData(seeds, lock) \in NoteDatas
  BY MergedDataType
<1>4. NoData \in NoteDatas
  BY DEF NoData, NoteDatas
<1> QED BY <1>1, <1>2, <1>3, <1>4, MergedOne, OverParts

LEMMA OrderedSeedWordsType ==
  ASSUME NEW list \in Seq(Spends)
  PROVE  OrderedSeedWords(list) \in Nat
<1> DEFINE N == Len(list)
           all == FlattenSeq([i \in 1..N |-> list[i].seeds])
           f == [i \in 1..N |-> SeedWords(list[i])]
           locks == {all[i].lock : i \in DOMAIN all}
           g == [l \in locks |-> NoteDataWords(MergedData(all, l))]
<1>1. N \in Nat /\ \A i \in 1..N : list[i] \in Spends
  BY LenProperties, ElementOfSeq
<1>2. Total(f) \in Nat
  <2>1. f \in [1..N -> Nat]
    BY <1>1, SeedWordsType
  <2> HIDE DEF f, N
  <2> QED BY <1>1, <2>1, ListTotalType
<1>3. all \in Seq(Seeds)
  <2> DEFINE lists == [i \in 1..N |-> list[i].seeds]
  <2>1. \A i \in 1..N : list[i].seeds \in Seq(Seeds)
    BY <1>1, SpendFields
  <2>2. lists \in Seq(Seq(Seeds))
    BY <1>1, <2>1, IsASeq
  <2> HIDE DEF lists
  <2>3. FlattenSeq(lists) \in Seq(Seeds)
    BY <2>2, FlattenSeqType
  <2> QED BY <2>3 DEF lists
<1> HIDE DEF all
<1>4. IsFiniteSet(locks)
  <2> DEFINE M == Len(all)
             q == [i \in 1..M |-> all[i].lock]
  <2>1. M \in Nat /\ DOMAIN all = 1..M
    BY <1>3, LenProperties
  <2>2. IsFiniteSet(1..M)
    BY ONLY <2>1, PrefixIsFinite
  <2>3. q \in Surjection(1..M, locks)
    BY <2>1 DEF Surjection
  <2> HIDE DEF q, locks, M
  <2> QED BY <2>2, <2>3, FS_Surjection
<1>5. g \in [locks -> Nat]
  BY <1>3, MergedDataType, NoteDataWordsType
<1>6. SumFunction(g) \in Nat
  <2> HIDE DEF g, locks
  <2> QED BY <1>4, <1>5, SumFunctionType
<1>7. OrderedSeedWords(list) = IF EnginePatch = 0 THEN Total(f) ELSE SumFunction(g)
  BY DEF OrderedSeedWords, all
<1> HIDE DEF f, g
<1> QED BY <1>2, <1>6, <1>7

LEMMA CalcFeeFromSpendsType ==
  ASSUME NEW list \in Seq(Spends)
  PROVE  CalcFeeFromSpends(list) \in Nat
<1> DEFINE N == Len(list)
           f == [i \in 1..N |-> WitnessWords(list[i])]
<1>1. N \in Nat /\ \A i \in 1..N : list[i] \in Spends
  BY LenProperties, ElementOfSeq
<1>2. f \in [1..N -> Nat]
  BY <1>1, WitnessWordsType
<1>3. Total(f) \in Nat
  <2> HIDE DEF f, N
  <2> QED BY <1>1, <1>2, ListTotalType
<1> HIDE DEF f
<1>4. WitnessFee(Total(f)) \in Nat
  BY <1>3, WitnessFeeType
<1>5. SeedFee(OrderedSeedWords(list)) \in Nat
  BY OrderedSeedWordsType, SeedFeeType
<1>6. CalcFeeFromSpends(list)
        = LargerOf(SeedFee(OrderedSeedWords(list)) + WitnessFee(Total(f)), MinFee)
  BY DEF CalcFeeFromSpends, f
<1> QED BY <1>4, <1>5, <1>6, SpendAssumption DEF LargerOf

=============================================================================
