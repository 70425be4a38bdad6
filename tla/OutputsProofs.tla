---------------------------- MODULE OutputsProofs ----------------------------
(***************************************************************************)
(* Proofs about the notes a transaction gives out: they are worth what the *)
(* spends give, none is made up or lost by sorting the seeds and joining   *)
(* those of one lock (OutputsConserve), those of a payment bring the       *)
(* recipient what was ordered (MemoDelivered), and what they carry is what *)
(* the fee is computed for (FeeChargesForOutputs).  What a list of seeds   *)
(* is worth is its weight, for any weighing of the seeds: the gift, or the *)
(* gift when it goes to one lock.                                          *)
(***************************************************************************)
EXTENDS PaymentProofs

(* What a list of seeds weighs, when each seed has a weight; and what the  *)
(* seeds of a list of groups weigh.                                        *)
WeightsIn(w, seeds) == [i \in 1..Len(seeds) |-> w[seeds[i]]]
Weight(w, seeds) == Total(WeightsIn(w, seeds))
GroupWeights(w, groups) == [i \in 1..Len(groups) |-> Weight(w, groups[i].seeds)]
GroupWeight(w, groups) == Total(GroupWeights(w, groups))

(* A list of numbers ws that are the weights of the seeds of a list.       *)
Weighing(ws, w, seeds) ==
  ws \in Seq(Nat) /\ Len(ws) = Len(seeds) /\ \A i \in 1..Len(seeds) : ws[i] = w[seeds[i]]
GroupWeighing(ws, w, groups) ==
  /\ ws \in Seq(Nat) /\ Len(ws) = Len(groups)
  /\ \A i \in 1..Len(groups) : ws[i] = Weight(w, groups[i].seeds)

LEMMA WeightsInEffect ==
  ASSUME NEW S, NEW w \in [S -> Nat], NEW seeds \in Seq(S)
  PROVE  Weighing(WeightsIn(w, seeds), w, seeds) /\ Weight(w, seeds) \in Nat
<1> DEFINE N == Len(seeds)
           ws == WeightsIn(w, seeds)
<1>1. N \in Nat /\ \A i \in 1..N : seeds[i] \in S
  BY LenProperties, ElementOfSeq
<1>2. ws \in [1..N -> Nat] /\ \A i \in 1..N : ws[i] = w[seeds[i]]
  BY <1>1 DEF WeightsIn
<1>3. Weight(w, seeds) = Total(ws)
  BY DEF Weight
<1> HIDE DEF ws, N
<1>4. ws \in Seq(Nat) /\ Len(ws) = N
  BY <1>1, <1>2, IsASeq
<1>5. Total(ws) \in Nat
  BY <1>4, TotalType
<1> QED BY <1>2, <1>3, <1>4, <1>5 DEF ws, N, Weighing

LockGroups(S) == [lock : Locks, seeds : Seq(S)]

(* A list of groups by lock: no lock twice, no group empty, and in each    *)
(* only seeds to its lock.                                                 *)
Groupings(S) ==
  {groups \in Seq(LockGroups(S)) :
     /\ \A i, j \in 1..Len(groups) : groups[i].lock = groups[j].lock => i = j
     /\ \A i \in 1..Len(groups) :
          /\ groups[i].seeds # << >>
          /\ \A j \in 1..Len(groups[i].seeds) : groups[i].seeds[j].lock = groups[i].lock}

LEMMA GroupWeightsEffect ==
  ASSUME NEW S, NEW w \in [S -> Nat], NEW groups \in Seq(LockGroups(S))
  PROVE  GroupWeighing(GroupWeights(w, groups), w, groups)
<1> DEFINE N == Len(groups)
           ws == GroupWeights(w, groups)
<1>1. N \in Nat /\ \A i \in 1..N : groups[i].seeds \in Seq(S)
  <2>1. N \in Nat /\ \A i \in 1..N : groups[i] \in LockGroups(S)
    BY LenProperties, ElementOfSeq
  <2> QED BY <2>1 DEF LockGroups
<1>2. ws \in [1..N -> Nat] /\ \A i \in 1..N : ws[i] = Weight(w, groups[i].seeds)
  BY <1>1, WeightsInEffect DEF GroupWeights
<1> HIDE DEF ws, N
<1>3. ws \in Seq(Nat) /\ Len(ws) = N
  BY <1>1, <1>2, IsASeq
<1> QED BY <1>2, <1>3 DEF ws, N, GroupWeighing

LEMMA WeightAppend ==
  ASSUME NEW S, NEW w \in [S -> Nat], NEW seeds \in Seq(S), NEW seed \in S
  PROVE  Weight(w, Append(seeds, seed)) = Weight(w, seeds) + w[seed]
<1> DEFINE more == Append(seeds, seed)
           xs == WeightsIn(w, seeds)
           ys == WeightsIn(w, more)
<1>1. /\ more \in Seq(S) /\ Len(more) = Len(seeds) + 1 /\ Len(seeds) \in Nat
      /\ \A i \in 1..Len(seeds) : more[i] = seeds[i]
      /\ more[Len(seeds) + 1] = seed
  BY AppendProperties, LenProperties
<1> HIDE DEF more
<1>2. Weighing(xs, w, seeds) /\ Weighing(ys, w, more)
  BY <1>1, WeightsInEffect
<1>5. Weight(w, seeds) = Total(xs) /\ Weight(w, more) = Total(ys)
  BY DEF Weight
<1> HIDE DEF xs, ys
<1>3. \A i \in 1..Len(xs) : ys[i] = xs[i]
  BY <1>1, <1>2 DEF Weighing
<1>4. ys[Len(xs) + 1] = w[seed]
  BY <1>1, <1>2 DEF Weighing
<1>6. Total(ys) = Total(xs) + ys[Len(xs) + 1]
  BY <1>1, <1>2, <1>3, TotalLonger DEF Weighing
<1> QED BY <1>4, <1>5, <1>6 DEF more

(* One turn of the loop of rawTxV1Outputs: the seed goes to the group of   *)
(* its lock, or starts one.                                                *)
Joins(new, groups, seed, S, k) ==
  /\ k \in 1..Len(groups) /\ groups[k].lock = seed.lock
  /\ new \in Seq(LockGroups(S)) /\ Len(new) = Len(groups)
  /\ new[k] = [lock |-> seed.lock, seeds |-> Append(groups[k].seeds, seed)]
  /\ \A i \in 1..Len(groups) : i # k => new[i] = groups[i]

Starts(new, groups, seed, S) ==
  /\ \A i \in 1..Len(groups) : groups[i].lock # seed.lock
  /\ new \in Seq(LockGroups(S)) /\ Len(new) = Len(groups) + 1
  /\ new[Len(groups) + 1] = [lock |-> seed.lock, seeds |-> <<seed>>]
  /\ \A i \in 1..Len(groups) : new[i] = groups[i]

LEMMA GroupTurn ==
  ASSUME NEW S, S \subseteq Seeds, NEW groups \in Seq(LockGroups(S)), NEW seed \in S
  PROVE  \/ \E k \in 1..Len(groups) : Joins(Group(groups, seed), groups, seed, S, k)
         \/ Starts(Group(groups, seed), groups, seed, S)
<1> DEFINE R == LockGroups(S)
           N == Len(groups)
           new == Group(groups, seed)
<1>1. N \in Nat /\ DOMAIN groups = 1..N /\ \A i \in 1..N : groups[i] \in R
  BY LenProperties, ElementOfSeq
<1>2. seed.lock \in Locks
  BY DEF Seeds
<1>3. CASE \E i \in DOMAIN groups : groups[i].lock = seed.lock
  <2> DEFINE k == GroupOf(groups, seed.lock)
             more == Append(groups[k].seeds, seed)
  <2>1. k \in 1..N /\ groups[k].lock = seed.lock
    BY <1>1, <1>3 DEF GroupOf
  <2>2. new = [groups EXCEPT ![k].seeds = more]
    BY <1>3 DEF Group
  <2> HIDE DEF new, k
  <2>3. groups[k] \in R /\ more \in Seq(S)
    <3>1. groups[k] \in R /\ groups[k].seeds \in Seq(S)
      BY <1>1, <2>1 DEF LockGroups
    <3> QED BY <3>1, AppendProperties
  <2> HIDE DEF more
  <2>4. new = [i \in 1..N |-> IF i = k THEN [lock |-> seed.lock, seeds |-> more] ELSE groups[i]]
    <3>1. [groups[k] EXCEPT !.seeds = more] = [lock |-> seed.lock, seeds |-> more]
      BY <2>1, <2>3 DEF LockGroups
    <3>2. new = [i \in 1..N |-> IF i = k THEN [groups[k] EXCEPT !.seeds = more] ELSE groups[i]]
      BY <1>1, <2>1, <2>2
    <3> QED BY <3>1, <3>2
  <2>5. new \in Seq(R) /\ Len(new) = N
    <3>1. [lock |-> seed.lock, seeds |-> more] \in R
      BY <1>2, <2>3 DEF LockGroups
    <3> HIDE DEF R, N
    <3>2. new \in [1..N -> R]
      BY <1>1, <2>4, <3>1
    <3> QED BY <1>1, <3>2, IsASeq
  <2>6. Joins(new, groups, seed, S, k)
    BY <2>1, <2>4, <2>5 DEF Joins, more
  <2> QED BY <2>1, <2>6 DEF new
<1>4. CASE ~ \E i \in DOMAIN groups : groups[i].lock = seed.lock
  <2> DEFINE one == [lock |-> seed.lock, seeds |-> <<seed>>]
  <2>1. new = Append(groups, one)
    BY <1>4 DEF Group
  <2>2. one \in R
    <3>1. <<seed>> \in Seq(S)
      OBVIOUS
    <3> QED BY <1>2, <3>1 DEF LockGroups
  <2> HIDE DEF one, R, new
  <2>3. /\ new \in Seq(R) /\ Len(new) = N + 1 /\ new[N + 1] = one
        /\ \A i \in 1..N : new[i] = groups[i]
    <3>1. groups \in Seq(R)
      BY DEF R
    <3> QED BY <1>1, <2>1, <2>2, <3>1, AppendProperties
  <2> QED BY <1>1, <1>4, <2>3 DEF Starts, one, R, new
<1> QED BY <1>3, <1>4

(* The turn keeps the groups apart, and adds the weight of the seed.       *)
LEMMA GroupPuts ==
  ASSUME NEW S, S \subseteq Seeds, NEW w \in [S -> Nat], NEW groups \in Groupings(S),
         NEW seed \in S
  PROVE  /\ Group(groups, seed) \in Groupings(S)
         /\ GroupWeight(w, Group(groups, seed)) = GroupWeight(w, groups) + w[seed]
<1> DEFINE N == Len(groups)
           new == Group(groups, seed)
           ws == GroupWeights(w, groups)
           us == GroupWeights(w, new)
<1>1. /\ groups \in Seq(LockGroups(S)) /\ N \in Nat
      /\ \A i, j \in 1..N : groups[i].lock = groups[j].lock => i = j
      /\ \A i \in 1..N :
           /\ groups[i].seeds # << >>
           /\ \A j \in 1..Len(groups[i].seeds) : groups[i].seeds[j].lock = groups[i].lock
  BY LenProperties DEF Groupings
<1>2. \A i \in 1..N : groups[i].seeds \in Seq(S)
  <2>1. \A i \in 1..N : groups[i] \in LockGroups(S)
    BY <1>1, ElementOfSeq
  <2> QED BY <2>1 DEF LockGroups
<1>3. GroupWeight(w, groups) = Total(ws) /\ GroupWeight(w, new) = Total(us)
  BY DEF GroupWeight
<1>4. GroupWeighing(ws, w, groups)
  BY <1>1, GroupWeightsEffect
<1> HIDE DEF ws
<1>5. /\ ws \in Seq(Nat) /\ Len(ws) = N /\ Total(ws) \in Nat
      /\ \A i \in 1..N : ws[i] \in Nat /\ ws[i] = Weight(w, groups[i].seeds)
  <2>1. /\ ws \in Seq(Nat) /\ Len(ws) = N
        /\ \A i \in 1..N : ws[i] = Weight(w, groups[i].seeds)
    BY <1>4 DEF GroupWeighing
  <2> QED BY <2>1, TotalType, ElementOfSeq
<1>6. w[seed] \in Nat
  OBVIOUS
<1> HIDE DEF new
<1>7. new \in Seq(LockGroups(S)) => GroupWeighing(us, w, new)
  BY GroupWeightsEffect
<1> HIDE DEF us
<1>8. ASSUME NEW k \in 1..N, Joins(new, groups, seed, S, k)
      PROVE  new \in Groupings(S) /\ Total(us) = Total(ws) + w[seed]
  <2> DEFINE own == groups[k].seeds
             more == Append(own, seed)
  <2>1. /\ groups[k].lock = seed.lock /\ new \in Seq(LockGroups(S)) /\ Len(new) = N
        /\ new[k].lock = seed.lock /\ new[k].seeds = more
        /\ \A i \in 1..N : i # k => new[i] = groups[i]
    BY <1>8 DEF Joins
  <2>2. own \in Seq(S) /\ \A j \in 1..Len(own) : own[j].lock = seed.lock
    BY <1>1, <1>2, <2>1
  <2> HIDE DEF own
  <2>3. /\ more # << >> /\ Len(more) = Len(own) + 1 /\ Len(own) \in Nat
        /\ \A j \in 1..Len(own) : more[j] = own[j]
        /\ more[Len(own) + 1] = seed
    BY <2>2, AppendProperties, LenProperties
  <2>4. Weight(w, more) = Weight(w, own) + w[seed]
    BY <2>2, WeightAppend
  <2> HIDE DEF more
  <2>5. \A j \in 1..Len(more) : more[j].lock = seed.lock
    <3>1. \A j \in 1..Len(more) : j \in 1..Len(own) \/ j = Len(own) + 1
      BY <2>3
    <3> QED BY <2>2, <2>3, <3>1
  <2>6. new \in Groupings(S)
    <3>1. \A i \in 1..N : new[i].lock = groups[i].lock
      BY <2>1
    <3>2. ASSUME NEW i \in 1..N
          PROVE  /\ new[i].seeds # << >>
                 /\ \A j \in 1..Len(new[i].seeds) : new[i].seeds[j].lock = new[i].lock
      <4>1. CASE i = k
        <5>1. new[i].seeds = more /\ new[i].lock = seed.lock
          BY <2>1, <4>1
        <5> QED BY <2>3, <2>5, <5>1
      <4>2. CASE i # k
        BY <1>1, <2>1, <4>2
      <4> QED BY <4>1, <4>2
    <3>3. \A i, j \in 1..N : new[i].lock = new[j].lock => i = j
      BY <1>1, <3>1
    <3> QED BY <2>1, <3>2, <3>3 DEF Groupings
  <2>7. us \in Seq(Nat) /\ Len(us) = N /\ \A i \in 1..N : us[i] = Weight(w, new[i].seeds)
    BY <1>7, <2>1 DEF GroupWeighing
  <2>8. us[k] = ws[k] + w[seed] /\ \A i \in 1..N : i # k => us[i] = ws[i]
    <3>1. us[k] = Weight(w, more) /\ ws[k] = Weight(w, own)
      BY <1>5, <2>1, <2>7 DEF own
    <3>2. \A i \in 1..N : i # k => us[i] = ws[i]
      BY <1>5, <2>1, <2>7
    <3> QED BY <2>4, <3>1, <3>2
  <2>9. Total(us) + ws[k] = Total(ws) + us[k]
    <3>1. /\ us \in Seq(Nat) /\ ws \in Seq(Nat) /\ Len(us) = N /\ Len(ws) = N
          /\ N \in Nat /\ k \in 1..N /\ \A i \in 1..N : i # k => us[i] = ws[i]
      BY <1>1, <1>5, <2>7, <2>8
    <3> HIDE DEF N
    <3> QED BY ONLY <3>1, TotalReplace
  <2>10. Total(us) \in Nat /\ ws[k] \in Nat
    BY <1>5, <2>7, TotalType
  <2>11. Total(us) = Total(ws) + w[seed]
    <3> DEFINE a == ws[k]
               b == w[seed]
               t == Total(ws)
               u == Total(us)
    <3> HIDE DEF a, b, t, u
    <3>1. /\ a \in Nat /\ b \in Nat /\ t \in Nat /\ u \in Nat /\ u + a = t + (a + b)
      BY <1>5, <1>6, <2>8, <2>9, <2>10 DEF a, b, t, u
    <3>2. u = t + b
      BY <3>1
    <3> QED BY <3>2 DEF b, t, u
  <2> QED BY <2>6, <2>11
<1>9. ASSUME Starts(new, groups, seed, S)
      PROVE  new \in Groupings(S) /\ Total(us) = Total(ws) + w[seed]
  <2>1. /\ \A i \in 1..N : groups[i].lock # seed.lock
        /\ new \in Seq(LockGroups(S)) /\ Len(new) = N + 1
        /\ new[N + 1].lock = seed.lock /\ new[N + 1].seeds = <<seed>>
        /\ \A i \in 1..N : new[i] = groups[i]
    BY <1>9 DEF Starts
  <2>2. /\ \A i \in 1..(N + 1) : i \in 1..N \/ i = N + 1
        /\ \A i \in 1..N : i \in 1..(N + 1)
        /\ N + 1 \in 1..(N + 1)
    BY <1>1
  <2>3. Len(<<seed>>) = 1 /\ <<seed>>[1] = seed /\ <<seed>> # << >>
    OBVIOUS
  <2>4. new \in Groupings(S)
    <3>1. \A i, j \in 1..(N + 1) : new[i].lock = new[j].lock => i = j
      BY <1>1, <2>1, <2>2
    <3>2. ASSUME NEW i \in 1..(N + 1)
          PROVE  /\ new[i].seeds # << >>
                 /\ \A j \in 1..Len(new[i].seeds) : new[i].seeds[j].lock = new[i].lock
      <4>1. CASE i = N + 1
        <5>1. \A j \in 1..Len(<<seed>>) : <<seed>>[j].lock = seed.lock
          BY <2>3
        <5>2. new[i].seeds = <<seed>> /\ new[i].lock = seed.lock
          BY <2>1, <4>1
        <5> QED BY <2>3, <5>1, <5>2
      <4>2. CASE i \in 1..N
        BY <1>1, <2>1, <4>2
      <4> QED BY <2>2, <4>1, <4>2
    <3> QED BY <2>1, <3>1, <3>2 DEF Groupings
  <2>5. /\ us \in Seq(Nat) /\ Len(us) = N + 1
        /\ \A i \in 1..(N + 1) : us[i] = Weight(w, new[i].seeds)
    BY <1>7, <2>1 DEF GroupWeighing
  <2>6. us[N + 1] = w[seed]
    <3>1. us[N + 1] = Weight(w, <<seed>>)
      BY <2>1, <2>2, <2>5
    <3>2. Weight(w, Append(<< >>, seed)) = Weight(w, << >>) + w[seed]
      <4>1. << >> \in Seq(S)
        OBVIOUS
      <4> QED BY <4>1, WeightAppend
    <3>3. Weight(w, << >>) = 0
      <4>1. WeightsIn(w, << >>) = << >>
        BY DEF WeightsIn
      <4> QED BY <4>1, TotalEmpty DEF Weight
    <3>4. Append(<< >>, seed) = <<seed>>
      OBVIOUS
    <3> QED BY <1>6, <3>1, <3>2, <3>3, <3>4
  <2>7. \A i \in 1..N : us[i] = ws[i]
    BY <1>5, <2>1, <2>2, <2>5
  <2>8. Total(us) = Total(ws) + us[N + 1]
    <3>1. /\ us \in Seq(Nat) /\ ws \in Seq(Nat) /\ Len(us) = Len(ws) + 1
          /\ \A i \in 1..Len(ws) : us[i] = ws[i]
      BY <1>5, <2>5, <2>7
    <3>2. Total(us) = Total(ws) + us[Len(ws) + 1]
      BY ONLY <3>1, TotalLonger
    <3> QED BY <1>5, <3>2
  <2> QED BY <2>4, <2>6, <2>8
<1>10. (\E k \in 1..N : Joins(new, groups, seed, S, k)) \/ Starts(new, groups, seed, S)
  BY <1>1, GroupTurn DEF new
<1>11. new \in Groupings(S) /\ Total(us) = Total(ws) + w[seed]
  BY <1>8, <1>9, <1>10
<1> QED BY <1>3, <1>11 DEF new

(* The loop, turn by turn.                                                 *)
LEMMA SeedsByLockRun ==
  ASSUME NEW S, S \subseteq Seeds, NEW seeds \in Seq(S)
  PROVE  \E f \in [0..Len(seeds) -> Groupings(S)] :
           /\ f[0] = << >>
           /\ \A n \in 1..Len(seeds) : f[n] = Group(f[n - 1], seeds[n])
           /\ SeedsByLock(seeds) = f[Len(seeds)]
<1> DEFINE N == Len(seeds)
           A == Groupings(S)
           h == [x \in (1..N) \X A |-> Group(x[2], seeds[x[1]])]
           Right(it) == it = [s \in SUBSET (1..N) |->
                                IF s = {} THEN << >> ELSE Group(it[s \ {Max(s)}], seeds[Max(s)])]
           it == CHOOSE x : Right(x)
<1>1. N \in Nat /\ DOMAIN seeds = 1..N /\ \A i \in 1..N : seeds[i] \in S
  BY LenProperties, ElementOfSeq
<1>2. << >> \in A
  BY EmptySeq DEF Groupings
<1>3. ASSUME NEW g \in A, NEW i \in 1..N PROVE Group(g, seeds[i]) \in A
  <2> DEFINE w == [s \in S |-> 0]
  <2>1. w \in [S -> Nat] /\ seeds[i] \in S
    BY <1>1
  <2> HIDE DEF w
  <2> QED BY <2>1, GroupPuts
<1>4. h \in Steps(N, A)
  <2> HIDE DEF A
  <2> QED BY <1>3 DEF Steps
<1>5. PICK g \in [SUBSET (1..N) -> A] : IsFoldLeft(g, N, A, << >>, h)
  <2> HIDE DEF h, A
  <2> QED BY <1>1, <1>2, <1>4, FoldLeftExists
<1>6. Right(g)
  <2>1. ASSUME NEW s \in SUBSET (1..N), s # {}
        PROVE  g[s] = Group(g[s \ {Max(s)}], seeds[Max(s)])
    <3>1. Max(s) \in 1..N
      BY <1>1, <2>1, LastIsIn
    <3>2. g[s \ {Max(s)}] \in A
      <4> HIDE DEF A
      <4> QED BY <3>1
    <3>3. g[s] = h[<<Max(s), g[s \ {Max(s)}]>>]
      <4> HIDE DEF h
      <4> QED BY <1>5, <2>1 DEF IsFoldLeft
    <3> HIDE DEF A
    <3> QED BY <3>1, <3>2, <3>3
  <2>2. g[{}] = << >>
    <3> HIDE DEF h
    <3> QED BY <1>5 DEF IsFoldLeft
  <2>3. g = [s \in SUBSET (1..N) |-> g[s]]
    OBVIOUS
  <2> QED BY <2>1, <2>2, <2>3
<1>7. Right(it)
  <2> HIDE DEF Right
  <2> QED BY <1>6, Zenon
<1>8. SeedsByLock(seeds) = it[1..N]
  BY <1>1 DEF SeedsByLock, FoldLeft, MapThenFoldSet
<1> HIDE DEF it
<1>9. it[{}] = << >>
  BY <1>7
<1>10. ASSUME NEW n \in 1..N PROVE it[1..n] = Group(it[1..(n - 1)], seeds[n])
  <2>1. /\ (1..n) \in SUBSET (1..N) /\ 1..n # {}
        /\ Max(1..n) = n /\ (1..n) \ {Max(1..n)} = 1..(n - 1)
    BY <1>1, PrefixParts
  <2>2. it[1..n] = Group(it[(1..n) \ {Max(1..n)}], seeds[Max(1..n)])
    BY <1>7, <2>1
  <2> QED BY <2>1, <2>2
<1> DEFINE T == {n \in 0..N : it[1..n] \in A}
<1>11. 0 \in T
  <2>1. 1..0 = {}
    OBVIOUS
  <2> HIDE DEF A
  <2> QED BY <1>1, <1>2, <1>9, <2>1
<1>12. ASSUME NEW n \in 0..(N - 1), n \in T PROVE n + 1 \in T
  <2>1. n + 1 \in 1..N /\ n + 1 \in 0..N /\ (n + 1) - 1 = n
    BY <1>1
  <2> HIDE DEF A
  <2>2. it[1..(n + 1)] = Group(it[1..n], seeds[n + 1]) /\ it[1..n] \in A
    BY <1>10, <1>12, <2>1
  <2> QED BY <1>3, <2>1, <2>2
<1>13. \A n \in 0..N : n \in T
  <2> HIDE DEF T
  <2> QED BY <1>1, <1>11, <1>12, PrefixInduction
<1> DEFINE f == [n \in 0..N |-> it[1..n]]
<1>14. f \in [0..N -> A]
  <2> HIDE DEF A
  <2> QED BY <1>13
<1>15. f[0] = << >>
  <2>1. 1..0 = {} /\ 0 \in 0..N
    BY <1>1
  <2> QED BY <1>9, <2>1
<1>16. \A n \in 1..N : f[n] = Group(f[n - 1], seeds[n])
  <2>1. \A n \in 1..N : n \in 0..N /\ n - 1 \in 0..N
    BY <1>1
  <2> QED BY <1>10, <2>1
<1>17. SeedsByLock(seeds) = f[N]
  <2>1. N \in 0..N
    BY <1>1
  <2> QED BY <1>8, <2>1
<1> HIDE DEF f
<1> QED BY <1>14, <1>15, <1>16, <1>17

(* The groups of a list of seeds: they weigh what the list weighs.         *)
LEMMA SeedsByLockEffect ==
  ASSUME NEW S, S \subseteq Seeds, NEW seeds \in Seq(S), NEW w \in [S -> Nat]
  PROVE  /\ SeedsByLock(seeds) \in Groupings(S)
         /\ GroupWeight(w, SeedsByLock(seeds)) = Weight(w, seeds)
<1> DEFINE N == Len(seeds)
           ws == WeightsIn(w, seeds)
<1>1. PICK f \in [0..N -> Groupings(S)] :
        /\ f[0] = << >>
        /\ \A n \in 1..N : f[n] = Group(f[n - 1], seeds[n])
        /\ SeedsByLock(seeds) = f[N]
  BY SeedsByLockRun
<1>2. N \in Nat /\ \A i \in 1..N : seeds[i] \in S
  BY LenProperties, ElementOfSeq
<1>10. Weighing(ws, w, seeds)
  BY WeightsInEffect
<1>3. ws \in Seq(Nat) /\ Len(ws) = N /\ Weight(w, seeds) = Total(ws)
  BY <1>10 DEF Weight, Weighing
<1> DEFINE T == {n \in 0..N : GroupWeight(w, f[n]) = TotalUpTo(ws)[n]}
<1>4. 0 \in T
  <2>1. GroupWeight(w, << >>) = 0
    <3>1. GroupWeights(w, << >>) = << >>
      BY DEF GroupWeights
    <3> QED BY <3>1, TotalEmpty DEF GroupWeight
  <2> HIDE DEF ws
  <2> QED BY <1>1, <1>2, <1>3, <2>1, TotalUpToDef
<1>5. ASSUME NEW n \in 0..(N - 1), n \in T PROVE n + 1 \in T
  <2>1. n + 1 \in 1..N /\ n + 1 \in 0..N /\ n \in 0..N /\ (n + 1) - 1 = n
    BY <1>2
  <2>2. f[n + 1] = Group(f[n], seeds[n + 1]) /\ f[n] \in Groupings(S) /\ seeds[n + 1] \in S
    BY <1>1, <1>2, <2>1
  <2>3. GroupWeight(w, f[n + 1]) = GroupWeight(w, f[n]) + w[seeds[n + 1]]
    BY <2>2, GroupPuts
  <2>4. ws[n + 1] = w[seeds[n + 1]]
    BY <1>10, <2>1 DEF Weighing
  <2>5. TotalUpTo(ws)[n + 1] = TotalUpTo(ws)[n] + ws[n + 1]
    <3> HIDE DEF ws
    <3> QED BY <1>3, <2>1, TotalUpToDef
  <2>6. GroupWeight(w, f[n]) = TotalUpTo(ws)[n]
    BY <1>5
  <2> HIDE DEF ws
  <2> QED BY <2>1, <2>3, <2>4, <2>5, <2>6
<1>6. \A n \in 0..N : n \in T
  <2> HIDE DEF T
  <2> QED BY <1>2, <1>4, <1>5, PrefixInduction
<1>7. N \in T
  <2>1. N \in 0..N
    BY <1>2
  <2> HIDE DEF T
  <2> QED BY <1>6, <2>1
<1> HIDE DEF ws
<1>8. GroupWeight(w, f[N]) = Total(ws)
  BY <1>3, <1>7 DEF Total
<1>9. f[N] \in Groupings(S)
  BY <1>1, <1>2
<1> HIDE DEF N
<1> QED BY <1>1, <1>3, <1>8, <1>9

(* A list whose elements all occur in another, none twice, weighs at most  *)
(* what the other does.                                                    *)
LEMMA WeightPicked ==
  ASSUME NEW S, NEW w \in [S -> Nat], NEW a \in Seq(S), NEW b \in Seq(S),
         \A i, j \in 1..Len(a) : a[i] = a[j] => i = j,
         \A i \in 1..Len(a) : \E j \in 1..Len(b) : b[j] = a[i]
  PROVE  Weight(w, a) <= Weight(w, b)
<1> DEFINE us == WeightsIn(w, a)
           ws == WeightsIn(w, b)
           N == Len(a)
           M == Len(b)
           pos == [i \in 1..N |-> CHOOSE j \in 1..M : b[j] = a[i]]
<1>1. Weighing(us, w, a) /\ Weighing(ws, w, b)
  BY WeightsInEffect
<1>2. Weight(w, a) = Total(us) /\ Weight(w, b) = Total(ws)
  BY DEF Weight
<1>3. ASSUME NEW i \in 1..N PROVE pos[i] \in 1..M /\ b[pos[i]] = a[i]
  <2>1. \E j \in 1..M : b[j] = a[i]
    OBVIOUS
  <2>2. pos[i] = CHOOSE j \in 1..M : b[j] = a[i]
    OBVIOUS
  <2> HIDE DEF pos
  <2> QED BY <2>1, <2>2
<1>4. pos = [i \in 1..N |-> pos[i]]
  OBVIOUS
<1> HIDE DEF us, ws, pos
<1>5. pos \in [1..N -> 1..M]
  BY <1>3, <1>4
<1>6. us \in Seq(Nat) /\ ws \in Seq(Nat) /\ Len(us) = N /\ Len(ws) = M
  BY <1>1 DEF Weighing
<1>7. ASSUME NEW i \in 1..N PROVE us[i] = ws[pos[i]]
  <2>1. us[i] = w[a[i]] /\ \A j \in 1..M : ws[j] = w[b[j]]
    BY <1>1 DEF Weighing
  <2> QED BY <1>3, <2>1
<1>8. ASSUME NEW i \in 1..N, NEW j \in 1..N, pos[i] = pos[j] PROVE i = j
  <2>1. a[i] = a[j]
    BY <1>3, <1>8
  <2> QED BY <2>1
<1>9. Total(us) <= Total(ws)
  <2> HIDE DEF N, M
  <2>1. /\ us \in Seq(Nat) /\ ws \in Seq(Nat) /\ pos \in [1..Len(us) -> 1..Len(ws)]
        /\ \A i \in 1..Len(us) : us[i] = ws[pos[i]]
        /\ \A i, j \in 1..Len(us) : pos[i] = pos[j] => i = j
    BY <1>5, <1>6, <1>7, <1>8
  <2> QED BY ONLY <2>1, TotalPickedAtMost
<1> QED BY <1>2, <1>9

(* The orders in which the seeds of a spend may come.                      *)
LEMMA WireOrder ==
  ASSUME NEW S, NEW seeds \in Seq(S), NEW own \in SetToSeqs(ToSet(seeds))
  PROVE  /\ own \in Seq(S) /\ ToSet(own) = ToSet(seeds)
         /\ Cardinality(ToSet(seeds)) = Len(seeds) =>
              \A w \in [S -> Nat] : Weight(w, own) = Weight(w, seeds)
<1> DEFINE T == ToSet(seeds)
           N == Len(seeds)
           C == Cardinality(T)
<1>1. /\ N \in Nat /\ DOMAIN seeds = 1..N /\ \A i \in 1..N : seeds[i] \in S
  BY LenProperties, ElementOfSeq
<1>2. seeds \in Surjection(1..N, T)
  <2>1. seeds \in [1..N -> T]
    <3>1. seeds = [i \in 1..N |-> seeds[i]]
      BY <1>1, LenProperties
    <3>2. \A i \in 1..N : seeds[i] \in T
      BY <1>1 DEF ToSet
    <3> HIDE DEF T
    <3> QED BY <3>1, <3>2
  <2>2. \A t \in T : \E i \in 1..N : seeds[i] = t
    BY <1>1 DEF ToSet
  <2> HIDE DEF T, N
  <2> QED BY <2>1, <2>2 DEF Surjection
<1>3. IsFiniteSet(1..N) /\ Cardinality(1..N) = N
  <2>1. N \in Nat
    BY <1>1
  <2> QED BY ONLY <2>1, PrefixIsFinite
<1>4. T \subseteq S
  BY <1>1 DEF ToSet
<1> HIDE DEF T, N
<1>5. IsFiniteSet(T) /\ C \in Nat /\ (C = N => seeds \in Injection(1..N, T))
  <2>1. IsFiniteSet(T) /\ (C = Cardinality(1..N) => seeds \in Injection(1..N, T))
    BY <1>2, <1>3, FS_Surjection
  <2> QED BY <1>3, <2>1, FS_CardinalityType
<1>6. own \in [1..C -> T] /\ \A i, j \in 1..C : i # j => own[i] # own[j]
  BY DEF SetToSeqs, T
<1>7. own \in Seq(S) /\ Len(own) = C
  <2>1. own \in [1..C -> S]
    BY <1>4, <1>6
  <2> HIDE DEF C
  <2> QED BY <1>5, <2>1, IsASeq
<1>9. ToSet(own) = T
  <2>1. IsFiniteSet(1..C) /\ Cardinality(1..C) = C
    <3>1. C \in Nat
      BY <1>5
    <3> HIDE DEF C
    <3> QED BY ONLY <3>1, PrefixIsFinite
  <2>2. own \in Injection(1..C, T) /\ Cardinality(1..C) = Cardinality(T)
    BY <1>6, <2>1 DEF Injection, IsInjective
  <2>3. own \in Surjection(1..C, T)
    <3> HIDE DEF C
    <3> QED BY <1>5, <2>1, <2>2, FS_Injection
  <2>4. DOMAIN own = 1..C
    BY <1>6
  <2> QED BY <2>3, <2>4 DEF Surjection, ToSet
<1>8. ASSUME C = N, NEW w \in [S -> Nat] PROVE Weight(w, own) = Weight(w, seeds)
  <2>1. \A i, j \in 1..N : seeds[i] = seeds[j] => i = j
    BY <1>5, <1>8, <1>1 DEF Injection, IsInjective, N
  <2>2. own \in Injection(1..N, T)
    BY <1>6, <1>8 DEF Injection, IsInjective
  <2>3. own \in Surjection(1..N, T)
    <3>1. Cardinality(1..N) = Cardinality(T)
      BY <1>3, <1>8
    <3> QED BY <1>5, <2>2, <3>1, FS_Injection
  <2>4. \A i \in 1..N : \E j \in 1..N : own[j] = seeds[i]
    <3>1. \A i \in 1..N : seeds[i] \in T
      BY <1>2 DEF Surjection
    <3> QED BY <2>3, <3>1 DEF Surjection
  <2>5. \A i \in 1..N : \E j \in 1..N : seeds[j] = own[i]
    BY <1>2, <2>3 DEF Surjection
  <2>6. Len(own) = N /\ Len(seeds) = N
    BY <1>7, <1>8 DEF N
  <2>7. \A i, j \in 1..N : own[i] = own[j] => i = j
    BY <1>6, <1>8
  <2>8. Weight(w, own) <= Weight(w, seeds)
    <3>1. /\ w \in [S -> Nat] /\ own \in Seq(S) /\ seeds \in Seq(S)
          /\ \A i, j \in 1..Len(own) : own[i] = own[j] => i = j
          /\ \A i \in 1..Len(own) : \E j \in 1..Len(seeds) : seeds[j] = own[i]
      BY <1>7, <2>5, <2>6, <2>7
    <3> QED BY ONLY <3>1, WeightPicked
  <2>9. Weight(w, seeds) <= Weight(w, own)
    <3>1. /\ w \in [S -> Nat] /\ own \in Seq(S) /\ seeds \in Seq(S)
          /\ \A i, j \in 1..Len(seeds) : seeds[i] = seeds[j] => i = j
          /\ \A i \in 1..Len(seeds) : \E j \in 1..Len(own) : own[j] = seeds[i]
      BY <1>7, <2>1, <2>4, <2>6
    <3> QED BY ONLY <3>1, WeightPicked
  <2>10. Weight(w, own) \in Nat /\ Weight(w, seeds) \in Nat
    BY <1>7, WeightsInEffect
  <2> QED BY <2>8, <2>9, <2>10
<1> QED BY <1>7, <1>8, <1>9 DEF N, T

LEMMA WeightConcat ==
  ASSUME NEW S, NEW w \in [S -> Nat], NEW a \in Seq(S), NEW b \in Seq(S)
  PROVE  Weight(w, a \o b) = Weight(w, a) + Weight(w, b)
<1> DEFINE us == WeightsIn(w, a)
           ws == WeightsIn(w, b)
           both == a \o b
           vs == WeightsIn(w, both)
<1>1. /\ both \in Seq(S) /\ Len(both) = Len(a) + Len(b) /\ Len(a) \in Nat /\ Len(b) \in Nat
      /\ \A i \in 1..Len(both) : both[i] = IF i <= Len(a) THEN a[i] ELSE b[i - Len(a)]
  BY ConcatProperties, LenProperties
<1> HIDE DEF both
<1>2. Weighing(us, w, a) /\ Weighing(ws, w, b) /\ Weighing(vs, w, both)
  BY <1>1, WeightsInEffect
<1>3. /\ Weight(w, a) = Total(us) /\ Weight(w, b) = Total(ws)
      /\ Weight(w, both) = Total(vs)
  BY DEF Weight
<1> HIDE DEF us, ws, vs
<1>4. /\ us \in Seq(Nat) /\ ws \in Seq(Nat) /\ vs \in Seq(Nat)
      /\ Len(us) = Len(a) /\ Len(ws) = Len(b) /\ Len(vs) = Len(a) + Len(b)
  BY <1>1, <1>2 DEF Weighing
<1>5. vs = us \o ws
  <2> DEFINE cs == us \o ws
  <2>1. /\ cs \in Seq(Nat) /\ Len(cs) = Len(us) + Len(ws)
        /\ \A i \in 1..Len(cs) : cs[i] = IF i <= Len(us) THEN us[i] ELSE ws[i - Len(us)]
    <3>0. us \in Seq(Nat) /\ ws \in Seq(Nat)
      BY <1>4
    <3>1. \A i \in 1..(Len(us) + Len(ws)) :
            cs[i] = IF i <= Len(us) THEN us[i] ELSE ws[i - Len(us)]
      BY ONLY <3>0, ConcatProperties
    <3>2. cs \in Seq(Nat) /\ Len(cs) = Len(us) + Len(ws)
      BY ONLY <3>0, ConcatProperties
    <3> HIDE DEF cs
    <3> QED BY <3>1, <3>2
  <2> HIDE DEF cs
  <2>2. ASSUME NEW i \in 1..Len(vs) PROVE vs[i] = cs[i]
    <3>1. i \in 1..Len(both) /\ vs[i] = w[both[i]]
      BY <1>1, <1>2, <1>4 DEF Weighing
    <3>2. CASE i <= Len(a)
      <4>1. both[i] = a[i] /\ i \in 1..Len(a) /\ cs[i] = us[i]
        BY <1>1, <1>4, <2>1, <3>1, <3>2
      <4> QED BY <1>2, <3>1, <4>1 DEF Weighing
    <3>3. CASE ~ (i <= Len(a))
      <4>2. i - Len(a) \in 1..Len(b) /\ i \in 1..Len(cs)
        BY <1>1, <1>4, <2>1, <3>1, <3>3
      <4>3. both[i] = b[i - Len(a)]
        BY <1>1, <3>1, <3>3
      <4>4. cs[i] = ws[i - Len(a)]
        BY <1>4, <2>1, <3>3, <4>2
      <4>1. both[i] = b[i - Len(a)] /\ i - Len(a) \in 1..Len(b) /\ cs[i] = ws[i - Len(a)]
        BY <4>2, <4>3, <4>4
      <4> QED BY <1>2, <3>1, <4>1 DEF Weighing
    <3> QED BY <3>2, <3>3
  <2>3. Len(vs) = Len(cs)
    BY <1>4, <2>1
  <2>4. vs = cs
    BY <1>4, <2>1, <2>2, <2>3, SeqEqual
  <2> QED BY <2>4 DEF cs
<1>6. Total(vs) = Total(us) + Total(ws)
  BY <1>4, <1>5, TotalConcat
<1> QED BY <1>3, <1>6 DEF both

(* The lists of seeds that rawTxV1Outputs may go through, spend by spend.  *)
Longer(lists, seeds) == {list \o own : list \in lists, own \in SetToSeqs(ToSet(seeds))}
IsLonger(x, lists, seeds) ==
  \E list \in lists, own \in SetToSeqs(ToSet(seeds)) : x = list \o own

LEMMA LongerParts ==
  ASSUME NEW lists, NEW seeds, NEW x \in Longer(lists, seeds)
  PROVE  IsLonger(x, lists, seeds)
BY DEF Longer, IsLonger

LEMMA WireSeedsRun ==
  ASSUME NEW S, NEW E, NEW entries \in Seq(E),
         \A i \in 1..Len(entries) : entries[i].sb.seeds \in Seq(S)
  PROVE  \E f \in [0..Len(entries) -> SUBSET Seq(S)] :
           /\ f[0] = {<< >>}
           /\ \A n \in 1..Len(entries) : f[n] = Longer(f[n - 1], entries[n].sb.seeds)
           /\ WireSeeds(entries) = f[Len(entries)]
<1> DEFINE N == Len(entries)
           A == SUBSET Seq(S)
           own(n) == entries[n].sb.seeds
           h == [x \in (1..N) \X A |-> Longer(x[2], own(x[1]))]
           Right(it) == it = [s \in SUBSET (1..N) |->
                                IF s = {} THEN {<< >>} ELSE Longer(it[s \ {Max(s)}], own(Max(s)))]
           it == CHOOSE x : Right(x)
<1>1. N \in Nat /\ DOMAIN entries = 1..N
  BY LenProperties
<1>2. {<< >>} \in A
  BY EmptySeq
<1>3. ASSUME NEW g \in A, NEW i \in 1..N PROVE Longer(g, own(i)) \in A
  <2>1. ASSUME NEW list \in g, NEW o \in SetToSeqs(ToSet(own(i))) PROVE list \o o \in Seq(S)
    <3>1. list \in Seq(S) /\ own(i) \in Seq(S)
      OBVIOUS
    <3> HIDE DEF own
    <3>2. o \in Seq(S)
      BY <3>1, WireOrder
    <3> QED BY <3>1, <3>2, ConcatProperties
  <2>2. ASSUME NEW x \in Longer(g, own(i)) PROVE x \in Seq(S)
    <3>1. PICK list \in g, o \in SetToSeqs(ToSet(own(i))) : x = list \o o
      <4> HIDE DEF own, A
      <4>1. IsLonger(x, g, own(i))
        BY <2>2, LongerParts
      <4> QED BY <4>1 DEF IsLonger
    <3> QED BY <2>1, <3>1
  <2> QED BY <2>2
<1>4. h \in Steps(N, A)
  <2> HIDE DEF A, own
  <2> QED BY <1>3 DEF Steps
<1>5. PICK g \in [SUBSET (1..N) -> A] : IsFoldLeft(g, N, A, {<< >>}, h)
  <2> HIDE DEF h, A
  <2> QED BY <1>1, <1>2, <1>4, FoldLeftExists
<1>6. Right(g)
  <2>1. ASSUME NEW s \in SUBSET (1..N), s # {}
        PROVE  g[s] = Longer(g[s \ {Max(s)}], own(Max(s)))
    <3>1. Max(s) \in 1..N
      BY <1>1, <2>1, LastIsIn
    <3>2. g[s \ {Max(s)}] \in A
      <4> HIDE DEF A
      <4> QED BY <3>1
    <3>3. g[s] = h[<<Max(s), g[s \ {Max(s)}]>>]
      <4> HIDE DEF h
      <4> QED BY <1>5, <2>1 DEF IsFoldLeft
    <3> HIDE DEF A, own
    <3> QED BY <3>1, <3>2, <3>3
  <2>2. g[{}] = {<< >>}
    <3> HIDE DEF h
    <3> QED BY <1>5 DEF IsFoldLeft
  <2>3. g = [s \in SUBSET (1..N) |-> g[s]]
    OBVIOUS
  <2> HIDE DEF own
  <2> QED BY <2>1, <2>2, <2>3
<1>7. Right(it)
  <2> HIDE DEF Right
  <2> QED BY <1>6, Zenon
<1>8. WireSeeds(entries) = it[1..N]
  BY <1>1 DEF WireSeeds, FoldLeft, MapThenFoldSet, Longer
<1> HIDE DEF it
<1>9. it[{}] = {<< >>}
  BY <1>7
<1>10. ASSUME NEW n \in 1..N PROVE it[1..n] = Longer(it[1..(n - 1)], own(n))
  <2>1. /\ (1..n) \in SUBSET (1..N) /\ 1..n # {}
        /\ Max(1..n) = n /\ (1..n) \ {Max(1..n)} = 1..(n - 1)
    BY <1>1, PrefixParts
  <2> HIDE DEF own
  <2>2. it[1..n] = Longer(it[(1..n) \ {Max(1..n)}], own(Max(1..n)))
    BY <1>7, <2>1
  <2> QED BY <2>1, <2>2
<1> DEFINE T == {n \in 0..N : it[1..n] \in A}
<1>11. 0 \in T
  <2>1. 1..0 = {} /\ 0 \in 0..N
    BY <1>1
  <2>2. it[1..0] \in A
    <3> HIDE DEF A
    <3> QED BY <1>2, <1>9, <2>1
  <2> QED BY <2>1, <2>2
<1>12. ASSUME NEW n \in 0..(N - 1), n \in T PROVE n + 1 \in T
  <2>1. n + 1 \in 1..N /\ n + 1 \in 0..N /\ (n + 1) - 1 = n
    BY <1>1
  <2> HIDE DEF A, own
  <2>2. it[1..(n + 1)] = Longer(it[1..n], own(n + 1)) /\ it[1..n] \in A
    BY <1>10, <1>12, <2>1
  <2> QED BY <1>3, <2>1, <2>2
<1>13. \A n \in 0..N : n \in T
  <2> HIDE DEF T
  <2> QED BY <1>1, <1>11, <1>12, PrefixInduction
<1> DEFINE f == [n \in 0..N |-> it[1..n]]
<1>14. f \in [0..N -> A]
  <2> HIDE DEF A
  <2> QED BY <1>13
<1>15. f[0] = {<< >>}
  <2>1. 1..0 = {} /\ 0 \in 0..N
    BY <1>1
  <2> QED BY <1>9, <2>1
<1>16. \A n \in 1..N : f[n] = Longer(f[n - 1], own(n))
  <2>1. \A n \in 1..N : n \in 0..N /\ n - 1 \in 0..N
    BY <1>1
  <2> HIDE DEF own
  <2> QED BY <1>10, <2>1
<1>17. WireSeeds(entries) = f[N]
  <2>1. N \in 0..N
    BY <1>1
  <2> QED BY <1>8, <2>1
<1> HIDE DEF f
<1> QED BY <1>14, <1>15, <1>16, <1>17

(* What the seeds of each spend weigh.                                     *)
OwnWeights(w, entries) == [i \in 1..Len(entries) |-> Weight(w, entries[i].sb.seeds)]

(* Whatever the order, the seeds of a transaction weigh what its spends'   *)
(* seeds do.                                                               *)
LEMMA WireSeedsWeigh ==
  ASSUME NEW S, NEW entries \in Seq(Entries), NoEqualSeeds(entries),
         \A i \in 1..Len(entries) : entries[i].sb.seeds \in Seq(S),
         NEW seeds \in WireSeeds(entries), NEW w \in [S -> Nat]
  PROVE  seeds \in Seq(S) /\ Weight(w, seeds) = Total(OwnWeights(w, entries))
<1> DEFINE N == Len(entries)
           ws == OwnWeights(w, entries)
<1>1. PICK f \in [0..N -> SUBSET Seq(S)] :
        /\ f[0] = {<< >>}
        /\ \A n \in 1..N : f[n] = Longer(f[n - 1], entries[n].sb.seeds)
        /\ WireSeeds(entries) = f[N]
  BY WireSeedsRun
<1>2. N \in Nat /\ DOMAIN entries = 1..N
  BY LenProperties
<1>3. ws \in Seq(Nat) /\ Len(ws) = N /\ \A i \in 1..N : ws[i] = Weight(w, entries[i].sb.seeds)
  <2>1. ws \in [1..N -> Nat] /\ \A i \in 1..N : ws[i] = Weight(w, entries[i].sb.seeds)
    BY WeightsInEffect DEF OwnWeights
  <2> HIDE DEF ws, N
  <2> QED BY <1>2, <2>1, IsASeq
<1> HIDE DEF ws
<1> DEFINE T == {n \in 0..N : \A list \in f[n] : Weight(w, list) = TotalUpTo(ws)[n]}
<1>4. 0 \in T
  <2>1. Weight(w, << >>) = 0
    <3>1. WeightsIn(w, << >>) = << >>
      BY DEF WeightsIn
    <3> QED BY <3>1, TotalEmpty DEF Weight
  <2>2. TotalUpTo(ws)[0] = 0
    BY <1>3, TotalUpToDef
  <2> QED BY <1>1, <1>2, <2>1, <2>2
<1>5. ASSUME NEW n \in 0..(N - 1), n \in T PROVE n + 1 \in T
  <2>1. n + 1 \in 1..N /\ n + 1 \in 0..N /\ n \in 0..N /\ (n + 1) - 1 = n
    BY <1>2
  <2> DEFINE own == entries[n + 1].sb.seeds
  <2>2. own \in Seq(S) /\ Cardinality(ToSet(own)) = Len(own)
    BY <1>2, <2>1 DEF NoEqualSeeds
  <2>3. f[n + 1] = Longer(f[n], own) /\ f[n] \subseteq Seq(S)
    BY <1>1, <2>1
  <2>4. TotalUpTo(ws)[n + 1] = TotalUpTo(ws)[n] + Weight(w, own)
    <3>1. TotalUpTo(ws)[n + 1] = TotalUpTo(ws)[n] + ws[n + 1]
      BY <1>3, <2>1, TotalUpToDef
    <3> QED BY <1>3, <2>1, <3>1
  <2> HIDE DEF own
  <2>5. ASSUME NEW list \in f[n], NEW o \in SetToSeqs(ToSet(own))
        PROVE  Weight(w, list \o o) = TotalUpTo(ws)[n + 1]
    <3>1. list \in Seq(S) /\ Weight(w, list) = TotalUpTo(ws)[n]
      BY <1>5, <2>3
    <3>2. o \in Seq(S) /\ Weight(w, o) = Weight(w, own)
      BY <2>2, WireOrder
    <3>3. Weight(w, list \o o) = Weight(w, list) + Weight(w, o)
      BY <3>1, <3>2, WeightConcat
    <3> QED BY <2>4, <3>1, <3>2, <3>3
  <2>6. ASSUME NEW x \in f[n + 1] PROVE Weight(w, x) = TotalUpTo(ws)[n + 1]
    <3>1. PICK list \in f[n], o \in SetToSeqs(ToSet(own)) : x = list \o o
      <4>1. x \in Longer(f[n], own)
        BY <2>3
      <4>2. IsLonger(x, f[n], own)
        BY ONLY <4>1, LongerParts
      <4> QED BY <4>2 DEF IsLonger
    <3> QED BY <2>5, <3>1
  <2> QED BY <2>1, <2>6
<1>6. \A n \in 0..N : n \in T
  <2> HIDE DEF T
  <2> QED BY <1>2, <1>4, <1>5, PrefixInduction
<1>7. N \in T /\ N \in 0..N
  <2>1. N \in 0..N
    BY <1>2
  <2> HIDE DEF T
  <2> QED BY <1>6, <2>1
<1>8. seeds \in f[N] /\ f[N] \subseteq Seq(S)
  BY <1>1, <1>7
<1>9. Weight(w, seeds) = Total(ws)
  BY <1>3, <1>7, <1>8 DEF Total
<1> QED BY <1>8, <1>9 DEF ws

(* The weight of a seed that is its gift.                                  *)
GiftWeight == [seed \in Seeds |-> seed.gift]

LEMMA GiftWeightType == GiftWeight \in [Seeds -> Nat]
<1>1. \A seed \in Seeds : seed.gift \in Nat
  BY DEF Seeds
<1> QED BY <1>1 DEF GiftWeight

LEMMA GiftsWeigh ==
  ASSUME NEW seeds \in Seq(Seeds)
  PROVE  Gifts(seeds) = Weight(GiftWeight, seeds) /\ Gifts(seeds) \in Nat
<1>1. \A i \in 1..Len(seeds) : seeds[i] \in Seeds
  BY ElementOfSeq
<1>2. WeightsIn(GiftWeight, seeds) = [i \in 1..Len(seeds) |-> seeds[i].gift]
  BY <1>1 DEF WeightsIn, GiftWeight
<1>3. Gifts(seeds) = Weight(GiftWeight, seeds)
  BY <1>2 DEF Gifts, Weight
<1> QED BY <1>3, GiftWeightType, WeightsInEffect

(* The notes of a transaction: one for each lock that a seed goes to, and  *)
(* worth the seeds to it.                                                  *)
LEMMA OutputsEffect ==
  ASSUME NEW S, S \subseteq Seeds, NEW seeds \in Seq(S)
  PROVE  /\ DOMAIN RawTxV1Outputs(seeds) = 1..Len(SeedsByLock(seeds))
         /\ Len(SeedsByLock(seeds)) \in Nat
         /\ \A i \in 1..Len(SeedsByLock(seeds)) :
              /\ RawTxV1Outputs(seeds)[i] = Output(SeedsByLock(seeds)[i])
              /\ RawTxV1Outputs(seeds)[i].first = SeedsByLock(seeds)[i].lock
              /\ RawTxV1Outputs(seeds)[i].assets = Gifts(SeedsByLock(seeds)[i].seeds)
<1> DEFINE groups == SeedsByLock(seeds)
           w == [s \in S |-> 0]
<1>1. groups \in Groupings(S)
  <2>1. w \in [S -> Nat]
    OBVIOUS
  <2> HIDE DEF w
  <2> QED BY <2>1, SeedsByLockEffect
<1> HIDE DEF groups
<1>2. DOMAIN groups = 1..Len(groups) /\ Len(groups) \in Nat
  BY <1>1, LenProperties DEF Groupings
<1>3. RawTxV1Outputs(seeds) = [i \in 1..Len(groups) |-> Output(groups[i])]
  BY <1>2 DEF RawTxV1Outputs, groups
<1>4. ASSUME NEW i \in 1..Len(groups)
      PROVE  /\ Output(groups[i]).first = groups[i].lock
             /\ Output(groups[i]).assets = Gifts(groups[i].seeds)
  BY DEF Output
<1> QED BY <1>2, <1>3, <1>4 DEF groups

LEMMA OutputsWorth ==
  ASSUME NEW seeds \in Seq(Seeds)
  PROVE  LET outputs == RawTxV1Outputs(seeds)
         IN  /\ Total([i \in DOMAIN outputs |-> outputs[i].assets]) = Gifts(seeds)
             /\ \A i, j \in DOMAIN outputs : i # j => outputs[i].first # outputs[j].first
<1> DEFINE groups == SeedsByLock(seeds)
           outputs == RawTxV1Outputs(seeds)
<1>1. groups \in Groupings(Seeds) /\ GroupWeight(GiftWeight, groups) = Weight(GiftWeight, seeds)
  BY GiftWeightType, SeedsByLockEffect
<1>2. /\ DOMAIN outputs = 1..Len(groups)
      /\ \A i \in 1..Len(groups) :
           outputs[i].first = groups[i].lock /\ outputs[i].assets = Gifts(groups[i].seeds)
  BY OutputsEffect
<1> HIDE DEF groups, outputs
<1>3. /\ \A i \in 1..Len(groups) : groups[i].seeds \in Seq(Seeds)
      /\ \A i, j \in 1..Len(groups) : groups[i].lock = groups[j].lock => i = j
  <2>1. \A i \in 1..Len(groups) : groups[i] \in LockGroups(Seeds)
    BY <1>1, ElementOfSeq DEF Groupings
  <2>2. \A i, j \in 1..Len(groups) : groups[i].lock = groups[j].lock => i = j
    BY <1>1 DEF Groupings
  <2> QED BY <2>1, <2>2 DEF LockGroups
<1>4. [i \in DOMAIN outputs |-> outputs[i].assets] = GroupWeights(GiftWeight, groups)
  <2>1. \A i \in 1..Len(groups) : outputs[i].assets = Weight(GiftWeight, groups[i].seeds)
    BY <1>2, <1>3, GiftsWeigh
  <2> QED BY <1>2, <2>1 DEF GroupWeights
<1>5. Total([i \in DOMAIN outputs |-> outputs[i].assets]) = Gifts(seeds)
  BY <1>1, <1>4, GiftsWeigh DEF GroupWeight
<1>6. \A i, j \in DOMAIN outputs : i # j => outputs[i].first # outputs[j].first
  BY <1>2, <1>3
<1> QED BY <1>5, <1>6 DEF outputs

(* What OutputsConserve says of the transaction of these spends.           *)
Conserves(entries) ==
  \A seeds \in WireSeeds(entries) :
    LET outputs == RawTxV1Outputs(seeds)
    IN  /\ Total([i \in DOMAIN outputs |-> outputs[i].assets]) + CurFee(entries)
             = Total([i \in DOMAIN entries |-> entries[i].sb.assets])
        /\ \A i, j \in DOMAIN outputs :
             i # j => outputs[i].first # outputs[j].first

LEMMA BalancedConserves ==
  ASSUME NEW entries \in Seq(Entries), NoEqualSeeds(entries),
         \A i \in 1..Len(entries) : IsBalanced(entries[i].sb)
  PROVE  Conserves(entries)
<1> DEFINE N == Len(entries)
           gifts == OwnWeights(GiftWeight, entries)
           fees == [i \in 1..N |-> entries[i].sb.fee]
           worth == [i \in 1..N |-> entries[i].sb.assets]
<1>1. /\ N \in Nat /\ DOMAIN entries = 1..N
      /\ \A i \in 1..N : /\ entries[i].sb.seeds \in Seq(Seeds) /\ entries[i].sb.fee \in Nat
                         /\ entries[i].sb.assets \in Nat
  BY EntryFields, SpendFields
<1>2. ASSUME NEW i \in 1..N
      PROVE  gifts[i] \in Nat /\ entries[i].sb.assets = gifts[i] + entries[i].sb.fee
  <2>1. entries[i].sb.seeds \in Seq(Seeds)
    BY <1>1
  <2>2. /\ Gifts(entries[i].sb.seeds) \in Nat
        /\ gifts[i] = Gifts(entries[i].sb.seeds)
    BY <2>1, GiftsWeigh DEF OwnWeights
  <2> QED BY <2>2 DEF IsBalanced
<1>3. gifts \in [1..N -> Nat] /\ fees \in [1..N -> Nat] /\ worth \in [1..N -> Nat]
  <2>1. \A i \in 1..N : Weight(GiftWeight, entries[i].sb.seeds) \in Nat
    BY <1>1, GiftWeightType, WeightsInEffect
  <2>2. gifts \in [1..N -> Nat]
    BY <2>1 DEF OwnWeights
  <2> QED BY <1>1, <2>2
<1>4. \A i \in 1..N : worth[i] = gifts[i] + fees[i]
  BY <1>2
<1>5. /\ CurFee(entries) = Total(fees)
      /\ Total([i \in DOMAIN entries |-> entries[i].sb.assets]) = Total(worth)
  BY <1>1 DEF CurFee
<1>6. ASSUME NEW seeds \in WireSeeds(entries)
      PROVE  seeds \in Seq(Seeds) /\ Weight(GiftWeight, seeds) = Total(gifts)
  BY <1>1, GiftWeightType, WireSeedsWeigh
<1> HIDE DEF gifts, fees, worth, N
<1>7. /\ gifts \in Seq(Nat) /\ fees \in Seq(Nat) /\ worth \in Seq(Nat)
      /\ Len(gifts) = N /\ Len(fees) = N /\ Len(worth) = N
  BY <1>1, <1>3, LenProperties, SeqDef
<1>8. Total(worth) = Total(gifts) + Total(fees)
  BY <1>1, <1>4, <1>7, TotalSum
<1>9. ASSUME NEW seeds \in WireSeeds(entries)
      PROVE  LET outputs == RawTxV1Outputs(seeds)
             IN  /\ Total([i \in DOMAIN outputs |-> outputs[i].assets]) + CurFee(entries)
                      = Total([i \in DOMAIN entries |-> entries[i].sb.assets])
                 /\ \A i, j \in DOMAIN outputs :
                      i # j => outputs[i].first # outputs[j].first
  <2> DEFINE outputs == RawTxV1Outputs(seeds)
  <2>1. /\ Total([i \in DOMAIN outputs |-> outputs[i].assets]) = Gifts(seeds)
        /\ \A i, j \in DOMAIN outputs : i # j => outputs[i].first # outputs[j].first
    BY <1>6, OutputsWorth
  <2>2. Gifts(seeds) = Total(gifts)
    BY <1>6, GiftsWeigh
  <2> HIDE DEF outputs
  <2>3. Total([i \in DOMAIN outputs |-> outputs[i].assets]) + CurFee(entries)
          = Total([i \in DOMAIN entries |-> entries[i].sb.assets])
    BY <1>5, <1>8, <2>1, <2>2
  <2> QED BY <2>1, <2>3 DEF outputs
<1> QED BY <1>9 DEF Conserves

(* Lowering the fee moves notes between the spends and the pool, and no    *)
(* other note comes to either.                                             *)
LEMMA LowerEndMembers ==
  ASSUME IInv, LowerEnd
  PROVE  Range(spends') \subseteq Range(spends)
         /\ Range(pool') \subseteq Range(pool) \cup Range(spends)
<1> DEFINE at(k) == Named(spends, job.back[k])
<1>1. /\ job.op = "lower" /\ spends' = StayingSpends /\ pool' = pool \o ReturnedSpends
      /\ spends \in Seq(Entries) /\ pool \in Seq(Entries)
  BY DEF LowerEnd, IInv, Holds
<1>2. job.back \in Seq(Names)
  BY <1>1, JobOfStep, FeeJobFields
<1>3. \A k \in DOMAIN job.back : at(k) \in DOMAIN spends
  <2>1. \A k \in DOMAIN job.back : job.back[k] \in NamesOf(spends)
    BY <1>1 DEF IInv, JobFits
  <2> QED BY <2>1, NamedEffect
<1> HIDE DEF at
<1>4. /\ ReturnedSpends \in Seq(Entries) /\ DOMAIN ReturnedSpends = DOMAIN job.back
      /\ \A k \in DOMAIN job.back : ReturnedSpends[k] = spends[at(k)]
  <2> DEFINE N == Len(job.back)
  <2>1. N \in Nat /\ DOMAIN job.back = 1..N
    BY <1>2, LenProperties
  <2> HIDE DEF N
  <2>2. /\ ReturnedSpends = [k \in 1..N |-> spends[at(k)]]
        /\ \A k \in 1..N : spends[at(k)] \in Entries
    BY <1>1, <1>3, <2>1, EntryFields DEF ReturnedSpends, at
  <2> QED BY <2>1, <2>2, IsASeq
<1>5. Range(ReturnedSpends) \subseteq Range(spends)
  BY <1>3, <1>4 DEF Range
<1>6. Range(StayingSpends) \subseteq Range(spends)
  BY <1>1, KeptEffect DEF StayingSpends
<1>7. Range(pool \o ReturnedSpends) = Range(pool) \cup Range(ReturnedSpends)
  BY <1>1, <1>4, ConcatEffect
<1> QED BY <1>1, <1>5, <1>6, <1>7, Zenon

(* A set of spends that no call of a builder leads out of: it has the      *)
(* notes of payments, with and without their gift, and what is added by    *)
(* hand; and with a spend, what its operations make of it, of which the    *)
(* fee and the refund are touched only where there is a refund lock.       *)
ClosedUnderCalls(G) ==
  /\ G \subseteq Spends
  /\ \A e \in Additions : e.sb \in G
  /\ \A order \in Orders, note \in Notes, portion \in Nat :
       LET new == NewSpend(note.assets, order.refund, note.witness)
       IN  /\ new \in G
           /\ AddSeed(new, BuildSeed(order.to, portion, order.include, order.extras)) \in G
  /\ \A s \in G :
       /\ \A d \in Digests : AddPreimage(s, d) \in G
       /\ \A pkh \in Pkhs : PushPkhSignature(s, pkh, SigHash(s)) \in G
       /\ s.refund # NoLock => /\ \A fee \in Nat : SetFee(s, fee) \in G
                               /\ \A include \in BOOLEAN : ComputeRefund(s, include) \in G

AllIn(G, xs) == \A i \in DOMAIN xs : xs[i].sb \in G
HeldIn(G) == AllIn(G, spends) /\ AllIn(G, pool)

(* How a list that is in the set may change and stay in it.                *)
LEMMA MembersIn ==
  ASSUME NEW G, NEW xs, NEW ys, AllIn(G, xs), Range(ys) \subseteq Range(xs)
  PROVE  AllIn(G, ys)
BY DEF AllIn, Range

LEMMA OneMoreIn ==
  ASSUME NEW G, NEW xs, NEW ys, NEW e, AllIn(G, xs), Range(ys) \subseteq Range(xs) \cup {e},
         e.sb \in G
  PROVE  AllIn(G, ys)
BY DEF AllIn, Range

LEMMA ReplacedIn ==
  ASSUME NEW G, NEW xs \in Seq(Entries), NEW i \in DOMAIN xs, NEW s \in Spends,
         AllIn(G, xs), s \in G
  PROVE  AllIn(G, [xs EXCEPT ![i].sb = s])
<1> DEFINE ys == [xs EXCEPT ![i].sb = s]
<1>1. /\ SameNames(xs, ys) /\ ys[i].sb = s /\ \A j \in DOMAIN xs : j # i => ys[j] = xs[j]
  BY ReplaceEffect
<1> HIDE DEF ys
<1>2. AllIn(G, ys)
  BY <1>1 DEF AllIn, SameNames
<1> QED BY <1>2 DEF ys

(* A fee is changed in a spend with a refund lock, which it keeps.         *)
LEMMA FeeChangedIn ==
  ASSUME NEW G, ClosedUnderCalls(G), NEW s \in G, s.refund # NoLock,
         NEW fee \in Nat, NEW include \in BOOLEAN
  PROVE  FeeChanged(s, fee, include) \in G /\ FeeChanged(s, fee, include) \in Spends
<1> DEFINE t == SetFee(s, fee)
<1>1. s \in Spends /\ t \in G
  BY DEF ClosedUnderCalls
<1>2. t.refund = s.refund
  BY <1>1, SetFeeFields
<1> HIDE DEF t
<1>3. ComputeRefund(t, include) \in G /\ G \subseteq Spends
  BY <1>1, <1>2 DEF ClosedUnderCalls
<1> QED BY <1>3 DEF FeeChanged, t

LEMMA BaseStepIn ==
  ASSUME NEW G, ClosedUnderCalls(G), IInv, HeldIn(G), BaseStep
  PROVE  HeldIn(G)'
<1> DEFINE order == job.order
           note == Head(job.notes)
           portion == SmallerOf(job.left, note.assets)
           new == NewSpend(note.assets, order.refund, note.witness)
           giving == AddSeed(new, BuildSeed(order.to, portion, order.include, order.extras))
           Entry(s) == [name |-> note.name, sb |-> ComputeRefund(s, order.include)]
<1>1. /\ job \in BaseJobs /\ job.op = "base" /\ job.notes # << >>
      /\ spends \in Seq(Entries) /\ pool \in Seq(Entries)
  <2>1. job \in BaseJobs \cup FeeJobs \cup {Idle}
    BY DEF IInv, JobFits
  <2> QED BY <2>1, JobKinds DEF BaseStep, IInv, Holds
<1>2. order \in Orders /\ job.notes \in Seq(Notes) /\ job.left \in Nat
  BY <1>1 DEF BaseJobs
<1>3. note \in Notes /\ note.name \in Names /\ note.assets \in Nat
  BY <1>1, <1>2, FirstNote DEF Notes
<1>4. portion \in Nat
  BY <1>2, <1>3 DEF SmallerOf
<1>5. order.refund \in Locks \ HashedLocks /\ order.include \in BOOLEAN
  BY <1>2, OrderFields
<1>6. /\ new \in G /\ giving \in G /\ G \subseteq Spends
      /\ new.refund = order.refund /\ giving.refund = order.refund
  <2>1. new \in G /\ giving \in G /\ G \subseteq Spends
    <3> HIDE DEF order, note, portion
    <3> QED BY <1>2, <1>3, <1>4 DEF ClosedUnderCalls
  <2>2. new.refund = order.refund
    BY DEF NewSpend
  <2>3. giving.refund = new.refund
    <3>1. BuildSeed(order.to, portion, order.include, order.extras) \in Seeds /\ new \in Spends
      BY <1>2, <1>4, <1>5, <2>1, OrderFields, BuildSeedType
    <3> HIDE DEF new
    <3> QED BY <3>1, AddSeedFields
  <2> HIDE DEF new, giving
  <2> QED BY <2>1, <2>2, <2>3
<1> HIDE DEF note, order, portion, new, giving
<1>8. ASSUME NEW s \in {new, giving}
      PROVE  Entry(s) \in Entries /\ Entry(s).sb \in G
  <2>1. s \in G /\ s.refund # NoLock
    BY <1>5, <1>6, SpendAssumption
  <2>2. ComputeRefund(s, order.include) \in G
    BY <1>5, <2>1 DEF ClosedUnderCalls
  <2> QED BY <1>3, <1>6, <2>2 DEF Entries
<1>9. \/ spends' = spends /\ pool' = pool
      \/ spends' = PutSpend(spends, Entry(giving)) /\ pool' = pool
      \/ pool' = Append(pool, Entry(new)) /\ spends' = spends
  BY DEF BaseStep, order, note, new, giving, portion
<1> HIDE DEF Entry
<1>10. Range(PutSpend(spends, Entry(giving))) \subseteq Range(spends) \cup {Entry(giving)}
  BY <1>1, <1>8, PutSpendEffect
<1>11. Range(Append(pool, Entry(new))) = Range(pool) \cup {Entry(new)}
  BY <1>1, <1>8, AppendEntry
<1>12. AllIn(G, PutSpend(spends, Entry(giving))) /\ AllIn(G, Append(pool, Entry(new)))
  BY <1>8, <1>10, <1>11, OneMoreIn DEF HeldIn
<1> QED BY <1>9, <1>12 DEF HeldIn

LEMMA PreimagesIn ==
  ASSUME NEW G, ClosedUnderCalls(G), NEW xs \in Seq(Entries), NEW d \in Digests, AllIn(G, xs)
  PROVE  AllIn(G, AddPreimageToAll(xs, d))
<1> DEFINE new == AddPreimageToAll(xs, d)
<1>1. DOMAIN new = DOMAIN xs
  BY DEF AddPreimageToAll
<1>2. ASSUME NEW i \in DOMAIN xs PROVE new[i].sb \in G
  <2>1. new[i].sb = AddPreimage(xs[i].sb, d) /\ xs[i].sb \in G
    BY <1>2, EntryFields DEF AddPreimageToAll, Entries, AllIn
  <2> HIDE DEF new
  <2> QED BY <2>1 DEF ClosedUnderCalls
<1> HIDE DEF new
<1>3. AllIn(G, new)
  BY <1>1, <1>2 DEF AllIn
<1> QED BY <1>3 DEF new

LEMMA BaseEndIn ==
  ASSUME NEW G, ClosedUnderCalls(G), IInv, HeldIn(G), BaseEnd
  PROVE  HeldIn(G)'
<1>1. /\ pool' = pool /\ spends \in Seq(Entries) /\ job \in BaseJobs
  <2>1. job \in BaseJobs \cup FeeJobs \cup {Idle}
    BY DEF IInv, JobFits
  <2> QED BY <2>1, JobKinds DEF BaseEnd, IInv, Holds
<1>2. job.order.preimage \in Digests \cup {NoPreimage}
  <2>1. job.order \in Orders
    BY <1>1 DEF BaseJobs
  <2> QED BY <2>1, OrderFields
<1>3. \/ spends' = spends
      \/ job.order.preimage # NoPreimage
         /\ spends' = AddPreimageToAll(spends, job.order.preimage)
  BY DEF BaseEnd
<1> QED BY <1>1, <1>2, <1>3, PreimagesIn DEF HeldIn

LEMMA SignAllIn ==
  ASSUME NEW G, ClosedUnderCalls(G), IInv, HeldIn(G), NEW pkh \in Pkhs, SignAll(pkh)
  PROVE  HeldIn(G)'
<1> DEFINE new == [i \in DOMAIN spends |->
                     IF ListedIn(spends[i].sb.witness.prims, pkh)
                     THEN [spends[i] EXCEPT !.sb = PushPkhSignature(@, pkh, SigHash(@))]
                     ELSE spends[i]]
<1>1. /\ spends' = new /\ pool' = pool /\ spends \in Seq(Entries) /\ AllIn(G, spends)
  BY DEF SignAll, IInv, Holds, HeldIn
<1>2. DOMAIN new = DOMAIN spends
  OBVIOUS
<1>3. ASSUME NEW i \in DOMAIN spends PROVE new[i].sb \in G
  <2> DEFINE s == spends[i].sb
             t == PushPkhSignature(s, pkh, SigHash(s))
  <2>1. s \in G /\ spends[i] \in Entries
    BY <1>1, <1>3, EntryFields DEF AllIn
  <2>2. new[i].sb = s \/ new[i].sb = t
    BY <1>3, <2>1 DEF Entries
  <2>3. t \in G
    <3> HIDE DEF s
    <3> QED BY <2>1 DEF ClosedUnderCalls
  <2> HIDE DEF s, t, new
  <2> QED BY <2>1, <2>2, <2>3
<1> HIDE DEF new
<1>4. AllIn(G, spends')
  BY <1>1, <1>2, <1>3 DEF AllIn
<1> QED BY <1>1, <1>4 DEF HeldIn

LEMMA AddSpendIn ==
  ASSUME NEW G, ClosedUnderCalls(G), IInv, HeldIn(G), NEW e \in Additions, AddSpend(e)
  PROVE  HeldIn(G)'
<1>1. /\ spends' = PutSpend(spends, e) /\ pool' = pool
      /\ spends \in Seq(Entries) /\ e \in Entries /\ e.sb \in G
  BY TxBuilderAssumption DEF AddSpend, IInv, Holds, ClosedUnderCalls
<1>2. Range(PutSpend(spends, e)) \subseteq Range(spends) \cup {e}
  BY <1>1, PutSpendEffect
<1>3. AllIn(G, spends')
  BY <1>1, <1>2, OneMoreIn DEF HeldIn
<1> QED BY <1>1, <1>3 DEF HeldIn

LEMMA RaiseStepIn ==
  ASSUME NEW G, ClosedUnderCalls(G), IInv, HeldIn(G), NEW i \in DOMAIN spends, RaiseStep(i)
  PROVE  HeldIn(G)'
<1> DEFINE s == spends[i].sb
           sub == TakenFromRefund(s, job.left)
           paid == FeeChanged(s, s.fee + sub, job.include)
<1>1. /\ job.op = "raise" /\ pool' = pool /\ job \in FeeJobs /\ job.left \in Nat
      /\ job.include \in BOOLEAN /\ spends \in Seq(Entries)
  BY JobOfStep, FeeJobFields DEF RaiseStep, IInv, Holds
<1>2. s \in Spends /\ s.fee \in Nat /\ HasRefund(s) /\ s \in G
  <2>1. spends[i].name \in job.todo
    BY DEF RaiseStep, RaiseNext, Todo
  <2>2. HasRefund(s)
    BY <1>1, <2>1 DEF IInv, JobFits
  <2> QED BY <1>1, <2>2, EntryFields, SpendFields DEF AllIn, HeldIn
<1>3. paid \in Spends /\ paid \in G
  <2> DEFINE fee == s.fee + sub
  <2> HIDE DEF s
  <2>1. fee \in Nat
    <3>1. sub \in Nat
      BY <1>1, <1>2, TakenType
    <3> HIDE DEF sub
    <3> QED BY <1>2, <3>1
  <2> HIDE DEF fee
  <2>2. s.refund # NoLock
    BY <1>2 DEF HasRefund
  <2>3. FeeChanged(s, fee, job.include) \in G /\ FeeChanged(s, fee, job.include) \in Spends
    BY <1>1, <1>2, <2>1, <2>2, FeeChangedIn
  <2> QED BY <2>3 DEF fee
<1> HIDE DEF paid
<1>4. spends' = spends \/ spends' = [spends EXCEPT ![i].sb = paid]
  BY DEF RaiseStep, paid
<1>5. AllIn(G, [spends EXCEPT ![i].sb = paid])
  BY <1>1, <1>3, ReplacedIn DEF HeldIn
<1> QED BY <1>1, <1>4, <1>5 DEF HeldIn

LEMMA PoolStepIn ==
  ASSUME NEW G, ClosedUnderCalls(G), IInv, HeldIn(G), NEW i \in DOMAIN pool, PoolStep(i)
  PROVE  HeldIn(G)'
<1> DEFINE s == pool[i].sb
           r == ComputeRefund(s, job.include)
           lock == r.refund
           merged == EnginePatch = 1 /\ job.refunds[lock] > 0
           cost == IF job.adjust THEN SpendingCost(r, merged) ELSE 0
           sub == TakenFromRefund(r, job.left + cost)
           paid == IF sub > 0 THEN FeeChanged(r, r.fee + sub, job.include) ELSE r
           e == [name |-> pool[i].name, sb |-> paid]
           rest == RemoveAt(pool, i)
<1>1. /\ job.op = "pool" /\ pool' = rest
      /\ job \in FeeJobs /\ job.left \in Nat /\ job.include \in BOOLEAN
      /\ spends \in Seq(Entries) /\ pool \in Seq(Entries)
  BY JobOfStep, FeeJobFields DEF PoolStep, IInv, Holds
<1>2. s \in Spends /\ pool[i].name \in Names /\ s \in G
  BY <1>1, EntryFields DEF AllIn, HeldIn
<1>3. AllIn(G, rest)
  <2>1. Range(rest) \subseteq Range(pool)
    BY <1>1, RemoveEffect
  <2> HIDE DEF rest
  <2> QED BY <2>1, MembersIn DEF HeldIn
<1> HIDE DEF rest
<1>4. r \in Spends /\ lock = s.refund
  BY <1>1, <1>2, ComputeRefundType, ComputeRefundEffect
<1>5. ASSUME HasRefund(r) PROVE e \in Entries /\ e.sb \in G
  <2>1. lock # NoLock /\ r.fee \in Nat
    BY <1>4, <1>5, SpendFields DEF HasRefund
  <2>6. r \in G
    <3> HIDE DEF s
    <3> QED BY <1>1, <1>2, <1>4, <2>1 DEF ClosedUnderCalls
  <2>2. cost \in Nat
    <3>1. SpendingCost(r, merged) \in Nat
      <4> HIDE DEF r
      <4>1. merged \in BOOLEAN
        OBVIOUS
      <4> HIDE DEF merged
      <4> QED BY <1>4, <4>1, SpendingCostType
    <3> HIDE DEF r, merged
    <3> QED BY <3>1
  <2> HIDE DEF cost
  <2>3. sub \in Nat
    <3>1. job.left + cost \in Nat
      BY <1>1, <2>2
    <3> HIDE DEF r
    <3> QED BY <1>4, <1>5, <3>1, TakenType
  <2> HIDE DEF sub
  <2>4. paid \in Spends /\ paid \in G
    <3> DEFINE fee == r.fee + sub
    <3> HIDE DEF r
    <3>1. fee \in Nat
      BY <2>1, <2>3
    <3> HIDE DEF fee
    <3>2. FeeChanged(r, fee, job.include) \in G /\ FeeChanged(r, fee, job.include) \in Spends
      BY <1>1, <2>1, <2>6, <3>1, FeeChangedIn
    <3> QED BY <1>4, <2>6, <3>2 DEF fee
  <2> HIDE DEF paid
  <2> QED BY <1>2, <2>4 DEF Entries
<1>6. \/ spends' = spends
      \/ HasRefund(r) /\ spends' = PutSpend(spends, e)
  BY DEF PoolStep
<1> HIDE DEF e, r
<1>7. AllIn(G, spends')
  <2>1. CASE spends' = spends
    BY <2>1 DEF HeldIn
  <2>2. CASE HasRefund(r) /\ spends' = PutSpend(spends, e)
    <3>1. Range(PutSpend(spends, e)) \subseteq Range(spends) \cup {e}
      BY <1>1, <1>5, <2>2, PutSpendEffect
    <3> QED BY <1>5, <2>2, <3>1, OneMoreIn DEF HeldIn
  <2> QED BY <1>6, <2>1, <2>2
<1> QED BY <1>1, <1>3, <1>7 DEF HeldIn

LEMMA LowerStepIn ==
  ASSUME NEW G, ClosedUnderCalls(G), IInv, HeldIn(G), NEW i \in DOMAIN spends, LowerStep(i)
  PROVE  HeldIn(G)'
<1> DEFINE s == spends[i].sb
           add == SmallerOf(s.fee, job.left)
           less == IF add > 0 THEN FeeChanged(s, s.fee - add, job.include) ELSE s
<1>1. /\ job.op = "lower" /\ pool' = pool /\ spends' = [spends EXCEPT ![i].sb = less]
      /\ job \in FeeJobs /\ job.left \in Nat /\ job.include \in BOOLEAN
      /\ spends \in Seq(Entries)
  <2>1. job.op = "lower" /\ pool' = pool /\ spends' = [spends EXCEPT ![i].sb = less]
    BY DEF LowerStep
  <2> HIDE DEF less
  <2> QED BY <2>1, JobOfStep, FeeJobFields DEF IInv, Holds
<1>2. s \in Spends /\ s.fee \in Nat /\ s \in G
  BY <1>1, EntryFields, SpendFields DEF AllIn, HeldIn
<1>3. s.refund # NoLock
  <2>1. spends[i].name \in job.todo
    BY DEF LowerStep, LowerNext, Todo
  <2> QED BY <1>1, <2>1 DEF IInv, JobFits
<1>4. add \in Nat /\ add <= s.fee
  BY <1>1, <1>2 DEF SmallerOf
<1>5. less \in Spends /\ less \in G
  <2> DEFINE fee == s.fee - add
  <2>1. fee \in Nat
    BY <1>2, <1>4
  <2>2. less = s \/ less = FeeChanged(s, fee, job.include)
    OBVIOUS
  <2> HIDE DEF fee, s, add, less
  <2>3. FeeChanged(s, fee, job.include) \in G /\ FeeChanged(s, fee, job.include) \in Spends
    BY <1>1, <1>2, <1>3, <2>1, FeeChangedIn
  <2> QED BY <1>2, <2>2, <2>3
<1> HIDE DEF less
<1>6. AllIn(G, [spends EXCEPT ![i].sb = less])
  BY <1>1, <1>5, ReplacedIn DEF HeldIn
<1> QED BY <1>1, <1>6 DEF HeldIn

(* Whatever is true of a spend that no operation can undo stays true of    *)
(* all spends of a builder and of its pool.                                *)
LEMMA NextStaysIn ==
  ASSUME NEW G, ClosedUnderCalls(G), IInv, HeldIn(G), [Next]_vars
  PROVE  HeldIn(G)'
<1>1. CASE spends' = spends /\ pool' = pool
  BY <1>1 DEF HeldIn
<1>2. CASE UNCHANGED vars
  BY <1>1, <1>2 DEF vars
<1>3. CASE OwnerCall
  <2>1. ASSUME NEW d \in Digests, AddPreimageCall(d) PROVE HeldIn(G)'
    <3>1. spends' = AddPreimageToAll(spends, d) /\ pool' = pool /\ spends \in Seq(Entries)
      BY <2>1 DEF AddPreimageCall, IInv, Holds
    <3> QED BY <3>1, PreimagesIn DEF HeldIn
  <2>2. \/ spends' = spends /\ pool' = pool
        \/ \E d \in Digests : AddPreimageCall(d)
    BY <1>3 DEF OwnerCall, SimpleSpend, SetFeeTo, RecalcAndSetFee, Validate
  <2> QED BY <1>1, <2>1, <2>2
<1>4. CASE Call
  BY <1>3, <1>4, AddSpendIn, SignAllIn DEF Call
<1>5. CASE Step
  <2>1. ASSUME LowerEnd PROVE HeldIn(G)'
    <3>1. AllIn(G, spends')
      BY <2>1, LowerEndMembers, MembersIn DEF HeldIn
    <3>2. AllIn(G, pool')
      BY <2>1, LowerEndMembers DEF HeldIn, AllIn, Range
    <3> QED BY <3>1, <3>2 DEF HeldIn
  <2>2. ASSUME RaiseEnd \/ PoolEnd PROVE HeldIn(G)'
    BY <1>1, <2>2 DEF RaiseEnd, PoolEnd
  <2> QED BY <1>5, <2>1, <2>2, BaseStepIn, BaseEndIn, RaiseStepIn, PoolStepIn, LowerStepIn DEF Step
<1> QED BY <1>2, <1>4, <1>5 DEF Next

LEMMA InitIn ==
  ASSUME NEW G, Init
  PROVE  HeldIn(G)
<1>1. DOMAIN << >> = {}
  BY EmptySeq
<1> QED BY <1>1 DEF Init, HeldIn, AllIn

(* What a payment adds for a note, without its gift and with it.           *)
LEMMA NewSpendIn ==
  ASSUME NEW order \in Orders, NEW note \in Notes, NEW portion \in Nat
  PROVE  LET new == NewSpend(note.assets, order.refund, note.witness)
             seed == BuildSeed(order.to, portion, order.include, order.extras)
             giving == AddSeed(new, seed)
         IN  /\ new \in Spends /\ giving \in Spends /\ seed \in Seeds
             /\ new.refund = order.refund /\ giving.refund = order.refund
             /\ new.seeds = << >> /\ giving.seeds = <<seed>>
<1> DEFINE new == NewSpend(note.assets, order.refund, note.witness)
           seed == BuildSeed(order.to, portion, order.include, order.extras)
<1>1. /\ order.to \in Locks /\ order.refund \in Locks /\ order.include \in BOOLEAN
      /\ order.extras \in NoteDatas
  BY OrderFields
<1>2. note.assets \in Nat /\ note.witness \in Witnesses
  BY DEF Notes, FreshWitnesses
<1>3. new \in Spends /\ seed \in Seeds
  BY <1>1, <1>2, NewSpendType, BuildSeedType
<1>4. new.refund = order.refund /\ new.seeds = << >>
  BY DEF NewSpend
<1> HIDE DEF new, seed
<1>5. /\ AddSeed(new, seed) \in Spends /\ AddSeed(new, seed).refund = new.refund
      /\ AddSeed(new, seed).seeds = Append(new.seeds, seed)
  BY <1>3, AddSeedType, AddSeedFields
<1>6. Append(<< >>, seed) = <<seed>>
  OBVIOUS
<1> QED BY <1>3, <1>4, <1>5, <1>6 DEF new, seed

(* What the theorem asks of the spends made by hand: balanced, and with a  *)
(* refund lock that is known, if they have one.                            *)
BalancedAdditions == \A e \in Additions : e.sb.refund \notin HashedLocks /\ IsBalanced(e.sb)

(* A spend is settled when it is balanced, or will be by IInv.             *)
SettledSpends ==
  {s \in Spends : s.refund \notin HashedLocks /\ (s.refund = NoLock => IsBalanced(s))}

LEMMA SettledStay ==
  ASSUME BalancedAdditions
  PROVE  ClosedUnderCalls(SettledSpends)
<1>1. \A e \in Additions : e.sb \in SettledSpends
  BY TxBuilderAssumption DEF BalancedAdditions, SettledSpends, Entries
<1>2. ASSUME NEW s \in Spends, s.refund \in Locks \ HashedLocks PROVE s \in SettledSpends
  BY <1>2, SpendAssumption DEF SettledSpends
<1>3. ASSUME NEW order \in Orders, NEW note \in Notes, NEW portion \in Nat
      PROVE  LET new == NewSpend(note.assets, order.refund, note.witness)
             IN  /\ new \in SettledSpends
                 /\ AddSeed(new, BuildSeed(order.to, portion, order.include, order.extras))
                      \in SettledSpends
  BY <1>2, NewSpendIn, OrderFields
<1>4. ASSUME NEW s \in SettledSpends
      PROVE  /\ \A d \in Digests : AddPreimage(s, d) \in SettledSpends
             /\ \A pkh \in Pkhs : PushPkhSignature(s, pkh, SigHash(s)) \in SettledSpends
             /\ s.refund # NoLock =>
                  /\ \A fee \in Nat : SetFee(s, fee) \in SettledSpends
                  /\ \A include \in BOOLEAN : ComputeRefund(s, include) \in SettledSpends
  <2>1. /\ s \in Spends /\ s.refund \notin HashedLocks /\ (s.refund = NoLock => IsBalanced(s))
        /\ SigHash(s) \in Contents
    BY SigHashType DEF SettledSpends
  <2>2. ASSUME NEW t \in Spends, t.refund = s.refund, s.refund # NoLock PROVE t \in SettledSpends
    BY <2>1, <2>2 DEF SettledSpends
  <2>3. ASSUME NEW t \in Spends, t.refund = s.refund, t.assets = s.assets, t.seeds = s.seeds,
               t.fee = s.fee
        PROVE  t \in SettledSpends
    BY <2>1, <2>3 DEF SettledSpends, IsBalanced
  <2>4. ASSUME NEW d \in Digests PROVE AddPreimage(s, d) \in SettledSpends
    BY <2>1, <2>3, AddPreimageType, AddPreimageFields
  <2>5. ASSUME NEW pkh \in Pkhs PROVE PushPkhSignature(s, pkh, SigHash(s)) \in SettledSpends
    BY <2>1, <2>3, PushPkhSignatureType, PushPkhSignatureFields
  <2>6. ASSUME s.refund # NoLock, NEW fee \in Nat PROVE SetFee(s, fee) \in SettledSpends
    BY <2>1, <2>2, <2>6, SetFeeType, SetFeeFields
  <2>7. ASSUME s.refund # NoLock, NEW include \in BOOLEAN
        PROVE  ComputeRefund(s, include) \in SettledSpends
    BY <2>1, <2>2, <2>7, ComputeRefundType, ComputeRefundEffect
  <2> QED BY <2>4, <2>5, <2>6, <2>7
<1>5. SettledSpends \subseteq Spends
  BY DEF SettledSpends
<1> QED BY <1>1, <1>3, <1>4, <1>5 DEF ClosedUnderCalls

(* When no hand-made spend is out of balance, no spend ever is: the notes  *)
(* that any transaction makes, in whatever order its seeds come, and its   *)
(* fee are worth what the notes it spends hold.                            *)
THEOREM OutputsAreConserved ==
  ASSUME BalancedAdditions
  PROVE  Spec => OutputsConserve
<1> DEFINE SettledInv == HeldIn(SettledSpends)
<1>1. IInv /\ SettledInv /\ [Next]_vars => SettledInv'
  <2>1. ClosedUnderCalls(SettledSpends)
    BY SettledStay
  <2> QED BY <2>1, NextStaysIn
<1>2. Init => SettledInv
  BY InitIn
<1>3. IInv' /\ SettledInv'
      => [(Returns /\ job # Idle /\ NoEqualSeeds(spends')) =>
       \A seeds \in WireSeeds(spends') :
         LET outputs == RawTxV1Outputs(seeds)
         IN  /\ Total([i \in DOMAIN outputs |-> outputs[i].assets]) + CurFee(spends')
                  = Total([i \in DOMAIN spends' |-> spends'[i].sb.assets])
             /\ \A i, j \in DOMAIN outputs :
                  i # j => outputs[i].first # outputs[j].first]_vars
  <2> SUFFICES ASSUME IInv', SettledInv', NoEqualSeeds(spends')
               PROVE  Conserves(spends')
    BY DEF Conserves
  <2>1. spends' \in Seq(Entries) /\ AllBalanced(spends') /\ AllIn(SettledSpends, spends')
    BY DEF IInv, Holds, HeldIn
  <2>2. ASSUME NEW i \in 1..Len(spends') PROVE IsBalanced(spends'[i].sb)
    <3>1. i \in DOMAIN spends' /\ spends'[i].sb \in Spends
      BY <2>1, EntryFields
    <3>2. spends'[i].sb.refund \in Locks \cup {NoLock}
      BY <3>1, SpendFields
    <3> QED BY <2>1, <3>1, <3>2 DEF AllBalanced, AllIn, SettledSpends
  <2> QED BY <2>1, <2>2, BalancedConserves
<1> HIDE DEF SettledInv
<1>4. Spec => [](IInv /\ SettledInv)
  BY <1>1, <1>2, InitInvariant, NextKeeps, PTL DEF Spec
<1> QED BY <1>3, <1>4, PTL DEF Spec, OutputsConserve

(* The merge of mergeNoteData, turn by turn.                               *)
LEMMA MergeRun ==
  ASSUME NEW S, NEW seeds \in Seq(S), \A i \in 1..Len(seeds) : seeds[i].data \in NoteDatas
  PROVE  \E f \in [0..Len(seeds) -> NoteDatas] :
           /\ f[0] = NoData
           /\ \A n \in 1..Len(seeds) : f[n] = Over(f[n - 1], seeds[n].data)
           /\ MergeNoteData(seeds) = f[Len(seeds)]
<1> DEFINE N == Len(seeds)
           A == NoteDatas
           h == [x \in (1..N) \X A |-> Over(x[2], seeds[x[1]].data)]
           Right(it) == it = [s \in SUBSET (1..N) |->
                                IF s = {} THEN NoData
                                ELSE Over(it[s \ {Max(s)}], seeds[Max(s)].data)]
           it == CHOOSE x : Right(x)
<1>1. N \in Nat /\ DOMAIN seeds = 1..N /\ \A i \in 1..N : seeds[i].data \in A
  BY LenProperties
<1>2. NoData \in A
  BY DEF NoData, NoteDatas
<1>3. ASSUME NEW d \in A, NEW i \in 1..N PROVE Over(d, seeds[i].data) \in A
  BY <1>1, OverParts
<1>4. h \in Steps(N, A)
  <2> HIDE DEF A
  <2> QED BY <1>3 DEF Steps
<1>5. PICK g \in [SUBSET (1..N) -> A] : IsFoldLeft(g, N, A, NoData, h)
  <2> HIDE DEF h, A
  <2> QED BY <1>1, <1>2, <1>4, FoldLeftExists
<1>6. Right(g)
  <2>1. ASSUME NEW s \in SUBSET (1..N), s # {}
        PROVE  g[s] = Over(g[s \ {Max(s)}], seeds[Max(s)].data)
    <3>1. Max(s) \in 1..N
      BY <1>1, <2>1, LastIsIn
    <3>2. g[s \ {Max(s)}] \in A
      <4> HIDE DEF A
      <4> QED BY <3>1
    <3>3. g[s] = h[<<Max(s), g[s \ {Max(s)}]>>]
      <4> HIDE DEF h
      <4> QED BY <1>5, <2>1 DEF IsFoldLeft
    <3> HIDE DEF A
    <3> QED BY <3>1, <3>2, <3>3
  <2>2. g[{}] = NoData
    <3> HIDE DEF h
    <3> QED BY <1>5 DEF IsFoldLeft
  <2>3. g = [s \in SUBSET (1..N) |-> g[s]]
    OBVIOUS
  <2> QED BY <2>1, <2>2, <2>3
<1>7. Right(it)
  <2> HIDE DEF Right
  <2> QED BY <1>6, Zenon
<1>8. MergeNoteData(seeds) = it[1..N]
  BY <1>1 DEF MergeNoteData, FoldLeft, MapThenFoldSet, Over
<1> HIDE DEF it
<1>9. it[{}] = NoData
  BY <1>7
<1>10. ASSUME NEW n \in 1..N PROVE it[1..n] = Over(it[1..(n - 1)], seeds[n].data)
  <2>1. /\ (1..n) \in SUBSET (1..N) /\ 1..n # {}
        /\ Max(1..n) = n /\ (1..n) \ {Max(1..n)} = 1..(n - 1)
    BY <1>1, PrefixParts
  <2>2. it[1..n] = Over(it[(1..n) \ {Max(1..n)}], seeds[Max(1..n)].data)
    BY <1>7, <2>1
  <2> QED BY <2>1, <2>2
<1> DEFINE T == {n \in 0..N : it[1..n] \in A}
<1>11. 0 \in T
  <2>1. 1..0 = {}
    OBVIOUS
  <2> HIDE DEF A
  <2> QED BY <1>1, <1>2, <1>9, <2>1
<1>12. ASSUME NEW n \in 0..(N - 1), n \in T PROVE n + 1 \in T
  <2>1. n + 1 \in 1..N /\ n + 1 \in 0..N /\ (n + 1) - 1 = n
    BY <1>1
  <2> HIDE DEF A
  <2>2. it[1..(n + 1)] = Over(it[1..n], seeds[n + 1].data) /\ it[1..n] \in A
    BY <1>10, <1>12, <2>1
  <2> QED BY <1>3, <2>1, <2>2
<1>13. \A n \in 0..N : n \in T
  <2> HIDE DEF T
  <2> QED BY <1>1, <1>11, <1>12, PrefixInduction
<1> DEFINE f == [n \in 0..N |-> it[1..n]]
<1>14. f \in [0..N -> A]
  <2> HIDE DEF A
  <2> QED BY <1>13
<1>15. f[0] = NoData
  <2>1. 1..0 = {} /\ 0 \in 0..N
    BY <1>1
  <2> QED BY <1>9, <2>1
<1>16. \A n \in 1..N : f[n] = Over(f[n - 1], seeds[n].data)
  <2>1. \A n \in 1..N : n \in 0..N /\ n - 1 \in 0..N
    BY <1>1
  <2> QED BY <1>10, <2>1
<1>17. MergeNoteData(seeds) = f[N]
  <2>1. N \in 0..N
    BY <1>1
  <2> QED BY <1>8, <2>1
<1> HIDE DEF f
<1> QED BY <1>14, <1>15, <1>16, <1>17

(* The data of seeds that agree is merged into what they agree on.         *)
LEMMA MergeOfEqual ==
  ASSUME NEW S, NEW seeds \in Seq(S), seeds # << >>, NEW data \in NoteDatas,
         \A i \in 1..Len(seeds) : seeds[i].data = data
  PROVE  MergeNoteData(seeds) = data
<1> DEFINE N == Len(seeds)
<1>1. N \in Nat /\ N # 0
  BY LenProperties, EmptySeq
<1>2. PICK f \in [0..N -> NoteDatas] :
        /\ f[0] = NoData
        /\ \A n \in 1..N : f[n] = Over(f[n - 1], seeds[n].data)
        /\ MergeNoteData(seeds) = f[N]
  <2>1. \A i \in 1..Len(seeds) : seeds[i].data \in NoteDatas
    OBVIOUS
  <2> QED BY <2>1, MergeRun
<1>3. Over(NoData, data) = data /\ Over(data, data) = data
  BY DEF Over, NoData, NoteDatas
<1> DEFINE T == {n \in 0..N : n # 0 => f[n] = data}
<1>4. 0 \in T
  BY <1>1
<1>5. ASSUME NEW n \in 0..(N - 1), n \in T PROVE n + 1 \in T
  <2>1. n + 1 \in 1..N /\ n + 1 \in 0..N /\ (n + 1) - 1 = n
    BY <1>1
  <2>2. f[n + 1] = Over(f[n], data)
    BY <1>2, <2>1
  <2>3. f[n] = NoData \/ f[n] = data
    BY <1>2, <1>5
  <2> QED BY <1>3, <2>1, <2>2, <2>3
<1>6. N \in T
  <2>1. N \in 0..N
    BY <1>1
  <2> HIDE DEF T
  <2> QED BY <1>1, <1>4, <1>5, <2>1, PrefixInduction
<1> QED BY <1>1, <1>2, <1>6

(* The weight of a seed that is its gift if it goes to the recipient.      *)
AwayWeight(order) == [x \in KnownSeeds(order) |-> IF x.lock = order.to THEN x.gift ELSE 0]

LEMMA AwayWeightType ==
  ASSUME NEW order
  PROVE  /\ KnownSeeds(order) \subseteq Seeds
         /\ AwayWeight(order) \in [KnownSeeds(order) -> Nat]
<1>1. KnownSeeds(order) \subseteq Seeds
  BY DEF KnownSeeds
<1>2. \A x \in Seeds : x.gift \in Nat
  BY DEF Seeds
<1> QED BY <1>1, <1>2 DEF AwayWeight

(* The seeds of a spend of a payment weigh what it gives away, and no two  *)
(* of them are equal: the change and the gift go to different locks.       *)
LEMMA SpendWeighs ==
  ASSUME NEW order \in Orders, order.to # order.refund, NEW s \in Spends, Pays(order, s)
  PROVE  /\ s.seeds \in Seq(KnownSeeds(order))
         /\ Weight(AwayWeight(order), s.seeds) = Given(s)
         /\ \A i, j \in 1..Len(s.seeds) : s.seeds[i] = s.seeds[j] => i = j
<1> DEFINE c == RefundGift(s)
           g == Given(s)
           K == KnownSeeds(order)
           w == AwayWeight(order)
           x == ChangeSeed(order, c)
           y == GiftSeed(order, g)
           none == << >>
           change == IF c = 0 THEN none ELSE Append(none, x)
<1>1. /\ c \in Nat /\ g \in Nat /\ Splits(order, s, c, g)
  BY SpendSplits
<1>2. s.seeds \in Seq(K)
  BY <1>1, SeedsAreKnown
<1>3. x \in K /\ w[x] = 0 /\ x.lock = order.refund
  <2>1. x \in Seeds /\ x.lock = order.refund
        /\ x.data = SeedData(order.refund, order.include, NoData)
    BY <1>1, SeedsOfOne
  <2>2. x \in K
    BY <2>1 DEF KnownSeeds
  <2> HIDE DEF x
  <2> QED BY <2>1, <2>2 DEF AwayWeight
<1>4. y \in K /\ w[y] = g /\ y.lock = order.to
  <2>1. y \in Seeds /\ y.lock = order.to /\ y.gift = g
        /\ y.data = SeedData(order.to, order.include, order.extras)
    BY <1>1, SeedsOfOne
  <2>2. y \in K
    BY <2>1 DEF KnownSeeds
  <2> HIDE DEF y
  <2> QED BY <2>1, <2>2 DEF AwayWeight
<1>5. s.seeds = IF g = 0 THEN change ELSE Append(change, y)
  <2>1. change = IF c = 0 THEN << >> ELSE <<x>>
    BY <1>3
  <2>2. s.seeds = SeedsOf(order, c, g)
    BY <1>1 DEF Splits
  <2> HIDE DEF change
  <2> QED BY <2>1, <2>2 DEF SeedsOf
<1>6. w \in [K -> Nat]
  BY AwayWeightType
<1>7. none \in Seq(K) /\ Len(none) = 0 /\ Weight(w, none) = 0
  <2>1. WeightsIn(w, none) = << >>
    BY DEF WeightsIn
  <2> QED BY <2>1, EmptySeq, TotalEmpty DEF Weight
<1> HIDE DEF x, y, K, w, none, c, g
<1>8. /\ change \in Seq(K) /\ Weight(w, change) = 0 /\ Len(change) <= 1 /\ Len(change) \in Nat
      /\ Len(change) = 1 => change[1] = x
  <2>1. /\ Append(none, x) \in Seq(K) /\ Len(Append(none, x)) = 1 /\ Append(none, x)[1] = x
    BY <1>3, <1>7, AppendProperties
  <2>2. Weight(w, Append(none, x)) = Weight(w, none) + w[x]
    <3>1. w \in [K -> Nat] /\ none \in Seq(K) /\ x \in K
      BY <1>3, <1>6, <1>7
    <3> QED BY ONLY <3>1, WeightAppend
  <2>3. Weight(w, Append(none, x)) = 0
    BY <1>3, <1>7, <2>2
  <2> QED BY <1>7, <2>1, <2>3
<1> HIDE DEF change
<1>9. CASE g = 0
  BY <1>2, <1>5, <1>8, <1>9 DEF c, g, K, w
<1>10. CASE g # 0
  <2> DEFINE n == Len(change)
             both == Append(change, y)
  <2>1. /\ Len(both) = n + 1 /\ both[n + 1] = y /\ \A i \in 1..n : both[i] = change[i]
    BY <1>4, <1>8, AppendProperties
  <2>2. Weight(w, both) = g
    <3>1. Weight(w, both) = Weight(w, change) + w[y]
      BY <1>4, <1>6, <1>8, WeightAppend
    <3> QED BY <1>1, <1>4, <1>8, <3>1
  <2> HIDE DEF both
  <2>3. ASSUME NEW i \in 1..Len(both), NEW j \in 1..Len(both), both[i] = both[j]
        PROVE  i = j
    <3>1. x # y
      BY <1>3, <1>4
    <3>2. CASE n = 0
      BY <2>1, <2>3, <3>2
    <3>3. CASE n = 1
      <4>1. both[1] = x /\ both[2] = y /\ i \in {1, 2} /\ j \in {1, 2}
        BY <1>8, <2>1, <2>3, <3>3
      <4> QED BY <2>3, <3>1, <4>1
    <3>4. n = 0 \/ n = 1
      <4>1. n \in Nat /\ n <= 1
        BY <1>8
      <4> HIDE DEF n
      <4> QED BY <4>1
    <3> QED BY <3>2, <3>3, <3>4
  <2>4. s.seeds = both
    BY <1>5, <1>10 DEF both
  <2> QED BY <1>2, <2>2, <2>3, <2>4 DEF g, K, w
<1> QED BY <1>9, <1>10

(* What MemoDelivered says of the transaction of these spends.             *)
Delivered(order, out) ==
  /\ out.first = order.to /\ out.assets = order.gift
  /\ out.data["memo"] = order.extras["memo"]
  /\ out.data["blob"] = order.extras["blob"]
  /\ order.include => out.data["lock"] = LockDataWords[order.to]

LEMMA DataDelivered ==
  ASSUME NEW order \in Orders
  PROVE  LET data == SeedData(order.to, order.include, order.extras)
         IN  /\ data \in NoteDatas
             /\ data["memo"] = order.extras["memo"] /\ data["blob"] = order.extras["blob"]
             /\ order.include => data["lock"] = LockDataWords[order.to]
<1>1. order.to \in Locks /\ order.extras \in NoteDatas
  BY OrderFields
<1>2. DataKeys = {"lock", "memo", "blob"}
  BY DEF DataKeys
<1> QED BY <1>1, <1>2, SpendAssumption DEF SeedData, NoteDatas

(* Of the seeds of a payment those to the recipient come into one note,    *)
(* whichever way round they come.                                          *)
LEMMA RecipientNote ==
  ASSUME NEW order \in Orders, order.to # order.refund, order.gift > 0,
         NEW seeds \in Seq(KnownSeeds(order)),
         Weight(AwayWeight(order), seeds) = order.gift
  PROVE  \E i \in DOMAIN RawTxV1Outputs(seeds) : Delivered(order, RawTxV1Outputs(seeds)[i])
<1> DEFINE K == KnownSeeds(order)
           w == AwayWeight(order)
           groups == SeedsByLock(seeds)
           ws == GroupWeights(w, groups)
           data == SeedData(order.to, order.include, order.extras)
<1>1. K \subseteq Seeds /\ w \in [K -> Nat] /\ order.gift \in Nat
  BY AwayWeightType, OrderFields
<1>2. groups \in Groupings(K) /\ GroupWeight(w, groups) = order.gift
  BY <1>1, SeedsByLockEffect
<1>3. /\ DOMAIN RawTxV1Outputs(seeds) = 1..Len(groups) /\ Len(groups) \in Nat
      /\ \A i \in 1..Len(groups) :
           /\ RawTxV1Outputs(seeds)[i] = Output(groups[i])
           /\ RawTxV1Outputs(seeds)[i].first = groups[i].lock
           /\ RawTxV1Outputs(seeds)[i].assets = Gifts(groups[i].seeds)
  BY <1>1, OutputsEffect
<1>4. /\ data \in NoteDatas
      /\ data["memo"] = order.extras["memo"] /\ data["blob"] = order.extras["blob"]
      /\ order.include => data["lock"] = LockDataWords[order.to]
  BY DataDelivered
<1>5. \A x \in K : w[x] = (IF x.lock = order.to THEN x.gift ELSE 0)
                   /\ (x.lock = order.to => x.data = data)
  BY DEF KnownSeeds, AwayWeight
<1> HIDE DEF K, w, groups, data
<1>6. /\ groups \in Seq(LockGroups(K))
      /\ \A i, j \in 1..Len(groups) : groups[i].lock = groups[j].lock => i = j
      /\ \A i \in 1..Len(groups) :
           /\ groups[i].seeds # << >>
           /\ \A j \in 1..Len(groups[i].seeds) : groups[i].seeds[j].lock = groups[i].lock
  BY <1>2 DEF Groupings
<1>7. \A i \in 1..Len(groups) : groups[i].seeds \in Seq(K)
  <2>1. \A i \in 1..Len(groups) : groups[i] \in LockGroups(K)
    BY <1>6, ElementOfSeq
  <2> QED BY <2>1 DEF LockGroups
<1>8. /\ ws \in Seq(Nat) /\ Len(ws) = Len(groups) /\ Total(ws) = order.gift
      /\ \A i \in 1..Len(groups) : ws[i] = Weight(w, groups[i].seeds)
  <2>1. GroupWeighing(ws, w, groups)
    <3>1. w \in [K -> Nat] /\ groups \in Seq(LockGroups(K))
      BY <1>1, <1>6
    <3> QED BY ONLY <3>1, GroupWeightsEffect
  <2>2. Total(ws) = order.gift
    BY <1>2 DEF GroupWeight
  <2> HIDE DEF ws
  <2> QED BY <2>1, <2>2 DEF GroupWeighing
<1> HIDE DEF ws
<1>9. ASSUME NEW i \in 1..Len(groups)
      PROVE  IF groups[i].lock = order.to THEN ws[i] = Gifts(groups[i].seeds) ELSE ws[i] = 0
  <2> DEFINE own == groups[i].seeds
             us == WeightsIn(w, own)
             vs == WeightsIn(GiftWeight, own)
  <2>1. own \in Seq(K) /\ own \in Seq(Seeds) /\ Len(own) \in Nat
    BY <1>1, <1>7, LenProperties
  <2>2. \A j \in 1..Len(own) : own[j] \in K /\ own[j].lock = groups[i].lock
    BY <1>6, <2>1, ElementOfSeq
  <2> HIDE DEF own
  <2>3. Weighing(us, w, own) /\ Weighing(vs, GiftWeight, own)
    BY <1>1, <2>1, GiftWeightType, WeightsInEffect
  <2>4. Weight(w, own) = Total(us) /\ Gifts(own) = Total(vs)
    BY <2>1, GiftsWeigh DEF Weight
  <2> HIDE DEF us, vs
  <2>5. CASE groups[i].lock = order.to
    <3>1. \A j \in 1..Len(own) : us[j] = vs[j]
      <4>1. \A j \in 1..Len(own) : own[j] \in Seeds /\ GiftWeight[own[j]] = own[j].gift
        BY <1>1, <2>2 DEF GiftWeight
      <4> QED BY <1>5, <2>2, <2>3, <2>5, <4>1 DEF Weighing
    <3>2. us = vs
      BY <2>3, <3>1, SeqEqual DEF Weighing
    <3> QED BY <1>8, <2>4, <2>5, <3>2 DEF own
  <2>6. CASE groups[i].lock # order.to
    <3>1. \A j \in 1..Len(own) : us[j] = 0
      BY <1>5, <2>2, <2>3, <2>6 DEF Weighing
    <3>2. Total(us) = 0
      BY <2>1, <2>3, <3>1, TotalZero DEF Weighing
    <3> QED BY <1>8, <2>4, <2>6, <3>2 DEF own
  <2> QED BY <2>5, <2>6
<1>10. PICK i \in 1..Len(groups) : groups[i].lock = order.to
  <2> SUFFICES ASSUME \A i \in 1..Len(groups) : groups[i].lock # order.to PROVE FALSE
    OBVIOUS
  <2>1. \A i \in 1..Len(groups) : ws[i] = 0
    BY <1>9
  <2>2. Total(ws) = 0
    BY <1>3, <1>8, <2>1, TotalZero
  <2> QED BY <1>1, <1>8, <2>2
<1>11. Gifts(groups[i].seeds) = order.gift
  <2>1. \A j \in 1..Len(groups) : j # i => ws[j] = 0
    BY <1>6, <1>9, <1>10
  <2>2. Total(ws) = ws[i]
    BY <1>8, <2>1, TotalOfOne
  <2> QED BY <1>8, <1>9, <1>10, <2>2
<1>12. Output(groups[i]).data = data
  <2> DEFINE own == groups[i].seeds
  <2>1. own \in Seq(K) /\ own # << >>
    BY <1>6, <1>7
  <2>2. \A j \in 1..Len(own) : own[j].data = data
    <3>1. \A j \in 1..Len(own) : own[j] \in K /\ own[j].lock = order.to
      BY <1>6, <1>10, <2>1, ElementOfSeq
    <3> QED BY <1>5, <3>1
  <2>3. Output(groups[i]).data = IF EnginePatch >= 1 THEN MergeNoteData(own) ELSE own[1].data
    BY DEF Output
  <2> HIDE DEF own
  <2>4. MergeNoteData(own) = data
    <3>1. /\ own \in Seq(K) /\ own # << >> /\ data \in NoteDatas
          /\ \A j \in 1..Len(own) : own[j].data = data
      BY <1>4, <2>1, <2>2
    <3> QED BY ONLY <3>1, MergeOfEqual
  <2>5. own[1].data = data
    <3>1. 1 \in 1..Len(own)
      BY <2>1, LenProperties, EmptySeq
    <3> QED BY <2>2, <3>1
  <2> QED BY <2>3, <2>4, <2>5
<1>13. Delivered(order, RawTxV1Outputs(seeds)[i])
  <2> DEFINE out == RawTxV1Outputs(seeds)[i]
  <2>1. out.first = order.to /\ out.assets = order.gift
    BY <1>3, <1>10, <1>11
  <2>2. out.data = data
    BY <1>3, <1>12
  <2> HIDE DEF out
  <2>3. Delivered(order, out)
    BY <1>4, <2>1, <2>2 DEF Delivered
  <2> QED BY <2>3 DEF out
<1> QED BY <1>3, <1>13

LEMMA PaymentDelivers ==
  ASSUME NEW order \in Orders, order.to # order.refund, order.gift > 0,
         NEW xs \in Seq(Entries), AllSpend(order, xs), AwayTotal(xs) = order.gift
  PROVE  \A seeds \in WireSeeds(xs) : \E i \in DOMAIN RawTxV1Outputs(seeds) :
           Delivered(order, RawTxV1Outputs(seeds)[i])
<1> DEFINE N == Len(xs)
           K == KnownSeeds(order)
           w == AwayWeight(order)
<1>1. DOMAIN xs = 1..N /\ \A i \in 1..N : xs[i].sb \in Spends
  BY SpendParts
<1>2. ASSUME NEW i \in 1..N
      PROVE  /\ xs[i].sb.seeds \in Seq(K) /\ Weight(w, xs[i].sb.seeds) = Given(xs[i].sb)
             /\ Cardinality(ToSet(xs[i].sb.seeds)) = Len(xs[i].sb.seeds)
  <2> DEFINE s == xs[i].sb
  <2>1. s \in Spends /\ Pays(order, s)
    BY <1>1 DEF AllSpend, SpendsNote
  <2> HIDE DEF s
  <2>2. /\ s.seeds \in Seq(K) /\ Weight(w, s.seeds) = Given(s)
        /\ \A k, j \in 1..Len(s.seeds) : s.seeds[k] = s.seeds[j] => k = j
    BY <2>1, SpendWeighs
  <2>3. Cardinality(ToSet(s.seeds)) = Len(s.seeds)
    BY <2>2, NoneTwice
  <2> QED BY <2>2, <2>3 DEF s
<1>3. NoEqualSeeds(xs)
  BY <1>1, <1>2 DEF NoEqualSeeds
<1>4. w \in [K -> Nat]
  BY AwayWeightType
<1>5. ASSUME NEW seeds \in WireSeeds(xs)
      PROVE  seeds \in Seq(K) /\ Weight(w, seeds) = order.gift
  <2> HIDE DEF K, w
  <2>1. /\ seeds \in Seq(K)
        /\ Weight(w, seeds) = Total(OwnWeights(w, xs))
    <3>1. /\ xs \in Seq(Entries) /\ NoEqualSeeds(xs) /\ w \in [K -> Nat]
          /\ \A i \in 1..Len(xs) : xs[i].sb.seeds \in Seq(K)
          /\ seeds \in WireSeeds(xs)
      BY <1>2, <1>3, <1>4
    <3> QED BY ONLY <3>1, WireSeedsWeigh
  <2>2. OwnWeights(w, xs) = [i \in 1..N |-> Given(xs[i].sb)]
    BY <1>2 DEF OwnWeights
  <2> QED BY <2>1, <2>2 DEF AwayTotal
<1> QED BY <1>5, RecipientNote

(* A payment that goes on, or throws, has not returned.                    *)
LEMMA NotBack ==
  ASSUME job' # Idle \/ result' \in Refusals
  PROVE  ~ Returns
<1>1. "ok" \notin Refusals
  BY AnswersRefuseNothing, Zenon
<1> QED BY <1>1, Zenon DEF Returns

(* When the payment returns, it has spent what it was to spend, and the    *)
(* gift is paid.                                                           *)
PaidUp(order) ==
  /\ spends' \in Seq(Entries) /\ AllSpend(order, spends')
  /\ AwayTotal(spends') = Away(order, order.gift)

LEMMA BaseStepNotBack ==
  ASSUME PayInv, BaseStep
  PROVE  ~ Returns
<1> DEFINE order == job.order
           note == Head(job.notes)
           portion == SmallerOf(job.left, note.assets)
<1>1. job.op = "base" /\ (\/ result' = "V0 notes not supported"
                          \/ job' = [job EXCEPT !.notes = Tail(@), !.left = @ - portion])
  BY Zenon DEF BaseStep, Finish
<1>2. job \in BaseJobs
  <2>1. Idle.op # "base"
    BY DEF Idle
  <2>2. job # Idle
    BY <1>1, <2>1, Zenon
  <2> QED BY <1>1, <2>2, PayFacts
<1> HIDE DEF portion
<1>3. "V0 notes not supported" \in Refusals
  BY Zenon DEF Refusals
<1>4. [job EXCEPT !.notes = Tail(@), !.left = @ - portion] # Idle
  BY <1>2 DEF BaseJobs, Idle
<1> QED BY <1>1, <1>3, <1>4, NotBack, Zenon

LEMMA RaiseStepNotBack ==
  ASSUME PayInv, NEW i \in DOMAIN spends, RaiseStep(i)
  PROVE  ~ Returns
<1>1. LockIsHash \in Refusals
  BY Zenon DEF Refusals
<1>2. job.op = "raise" /\ (\/ result' = LockIsHash
                           \/ \E x : job' = [job EXCEPT !.todo = x]
                           \/ \E x, y : job' = [job EXCEPT !.todo = x, !.left = y])
  BY Zenon DEF RaiseStep, Finish
<1>3. job \in FeeJobs
  <2>1. Idle.op # "raise"
    BY DEF Idle
  <2>2. job.op = "raise"
    BY <1>2, Zenon
  <2>3. job # Idle
    BY <2>1, <2>2, Zenon
  <2> QED BY <2>2, <2>3, PayFacts
<1>4. \A x, y : [job EXCEPT !.todo = x] # Idle /\ [job EXCEPT !.todo = x, !.left = y] # Idle
  BY <1>3 DEF FeeJobs, Idle
<1> QED BY <1>1, <1>2, <1>4, NotBack, Zenon

LEMMA PoolStepNotBack ==
  ASSUME PayInv, NEW i \in DOMAIN pool, PoolStep(i)
  PROVE  ~ Returns
<1>1. LockIsHash \in Refusals /\ "Fee pool entry must have refund" \in Refusals
  BY Zenon DEF Refusals
<1>2. job.op = "pool" /\ (\/ result' = LockIsHash
                          \/ result' = "Fee pool entry must have refund"
                          \/ \E x, y : job' = [job EXCEPT !.left = x, !.refunds = y])
  BY DEF PoolStep, Finish
<1>3. job \in FeeJobs
  <2>1. Idle.op # "pool"
    BY DEF Idle
  <2>2. job.op = "pool"
    BY <1>2, Zenon
  <2>3. job # Idle
    BY <2>1, <2>2, Zenon
  <2> QED BY <2>2, <2>3, PayFacts
<1>4. \A x, y : [job EXCEPT !.left = x, !.refunds = y] # Idle
  BY <1>3 DEF FeeJobs, Idle
<1> QED BY <1>1, <1>2, <1>4, NotBack, Zenon

LEMMA BaseEndPaid ==
  ASSUME PayInv, BaseEnd, Returns
  PROVE  PaidUp(job.order)
<1>1. ~ (job.left > 0)
  <2>1. job.left > 0 => result' = "Insufficient funds to pay fee and gift"
    BY Zenon DEF BaseEnd, Finish
  <2>2. "Insufficient funds to pay fee and gift" \in Refusals
    BY Zenon DEF Refusals
  <2> QED BY <2>1, <2>2, NotBack, Zenon
<1>2. ~ (job.order.preimage # NoPreimage /\ ~ SomeClaims(spends, job.order.preimage))
  <2>1. (job.order.preimage # NoPreimage /\ ~ SomeClaims(spends, job.order.preimage))
          => result' = "preimage does not match any spend condition hax unlock"
    BY <1>1, Zenon DEF BaseEnd, Finish
  <2>2. "preimage does not match any spend condition hax unlock" \in Refusals
    BY Zenon DEF Refusals
  <2> QED BY <2>1, <2>2, NotBack, Zenon
<1> QED BY <1>1, <1>2, GiftIsPaid, Zenon DEF PaidUp

LEMMA PoolEndPaid ==
  ASSUME PayInv, PoolEnd, job # Idle
  PROVE  PaidUp(job.order)
<1>1. job.op = "pool" /\ spends' = spends
  BY Zenon DEF PoolEnd
<1>2. /\ spends \in Seq(Entries) /\ AllSpend(job.order, spends)
      /\ PaymentFits(job, spends, pool)
  BY PayFacts DEF PayInv
<1>3. AwayTotal(spends) = Away(job.order, job.order.gift)
  BY <1>1, <1>2 DEF PaymentFits, FeeFits
<1> QED BY <1>1, <1>2, <1>3 DEF PaidUp

LEMMA ReturnsPaid ==
  ASSUME PayInv, Next, Returns, job # Idle
  PROVE  PaidUp(job.order)
<1>1. job.op \in {"base", "raise", "pool"}
  BY PayFacts
<1>2. ~ Call
  BY Zenon DEF Call, OwnerCall, SimpleSpend, SetFeeTo, RecalcAndSetFee, AddPreimageCall, Validate,
           AddSpend, SignAll, Begin
<1>3. CASE BaseStep
  BY <1>3, BaseStepNotBack, Zenon
<1>4. CASE BaseEnd
  BY <1>4, BaseEndPaid, Zenon
<1>5. CASE \E i \in DOMAIN spends : RaiseStep(i) \/ LowerStep(i)
  <2>1. PICK i \in DOMAIN spends : RaiseStep(i) \/ LowerStep(i)
    BY <1>5, Zenon
  <2>2. ~ LowerStep(i)
    <3>1. LowerStep(i) => job.op = "lower"
      BY Zenon DEF LowerStep
    <3> QED BY <1>1, <3>1
  <2> QED BY <2>1, <2>2, RaiseStepNotBack, Zenon
<1>6. CASE RaiseEnd
  <2>1. job.op = "raise" /\ job' = [job EXCEPT !.op = "pool"]
    BY <1>6, Zenon DEF RaiseEnd
  <2>2. job \in FeeJobs
    BY <2>1, PayFacts
  <2>3. job' # Idle
    BY <2>1, <2>2 DEF FeeJobs, Idle
  <2> QED BY <2>3, Zenon DEF Returns
<1>7. CASE \E i \in DOMAIN pool : PoolStep(i)
  BY <1>7, PoolStepNotBack, Zenon
<1>8. CASE PoolEnd
  BY <1>8, PoolEndPaid, Zenon
<1>9. ~ LowerEnd
  <2>1. LowerEnd => job.op = "lower"
    BY Zenon DEF LowerEnd
  <2> QED BY <1>1, <2>1
<1> QED BY <1>2, <1>3, <1>4, <1>5, <1>6, <1>7, <1>8, <1>9, Zenon DEF Next, Step

(* The recipient of a payment gets one note worth the gift, however many   *)
(* notes were spent, with the memo, the blob and, if it was to be          *)
(* included, the lock of the payment.                                      *)
THEOREM PaymentsDeliver ==
  ASSUME OnePayment
  PROVE  Spec => MemoDelivered
<1>1. Init => PayInv
  BY InitPays
<1>2. PayInv /\ [Next]_vars => PayInv'
  BY NextPays
<1>3. PayInv /\ [Next]_vars
        => [(Returns /\ job # Idle /\ job.order # NoOrder /\ job.order.to # job.order.refund)
              => LET order == job.order
                 IN  \A seeds \in WireSeeds(spends') :
                       \E i \in DOMAIN RawTxV1Outputs(seeds) :
                         LET out == RawTxV1Outputs(seeds)[i]
                         IN  /\ out.first = order.to /\ out.assets = order.gift
                             /\ out.data["memo"] = order.extras["memo"]
                             /\ out.data["blob"] = order.extras["blob"]
                             /\ order.include
                                  => out.data["lock"] = LockDataWords[order.to]]_vars
  <2> SUFFICES ASSUME PayInv, [Next]_vars, Returns, job # Idle, job.order # NoOrder,
                      job.order.to # job.order.refund
               PROVE  \A seeds \in WireSeeds(spends') :
                        \E i \in DOMAIN RawTxV1Outputs(seeds) :
                          Delivered(job.order, RawTxV1Outputs(seeds)[i])
    BY Zenon DEF Delivered
  <2>1. job.order \in Orders /\ job.order.gift > 0
    BY PayFacts
  <2>2. Next
    BY DEF vars, Returns
  <2>3. PaidUp(job.order)
    BY <2>2, ReturnsPaid
  <2>4. /\ spends' \in Seq(Entries) /\ AllSpend(job.order, spends')
        /\ AwayTotal(spends') = job.order.gift
    BY <2>3 DEF PaidUp, Away
  <2> QED BY <2>1, <2>4, PaymentDelivers
<1> QED BY <1>1, <1>2, <1>3, PTL DEF Spec, MemoDelivered

(* Seeds to one lock agree on the keys that both have.                     *)
SeedsAgree(seeds) ==
  \A i, j \in DOMAIN seeds : seeds[i].lock = seeds[j].lock =>
    \A k \in DataKeys : \/ seeds[i].data[k] = 0 \/ seeds[j].data[k] = 0
                        \/ seeds[i].data[k] = seeds[j].data[k]

AgreedAdditions == \A e \in Additions : SeedsAgree(e.sb.seeds)

AgreedSpends == {s \in Spends : SeedsAgree(s.seeds)}

LEMMA AgreedStay ==
  ASSUME AgreedAdditions
  PROVE  ClosedUnderCalls(AgreedSpends)
<1>1. \A e \in Additions : e.sb \in AgreedSpends
  BY TxBuilderAssumption DEF AgreedAdditions, AgreedSpends, Entries
<1>2. ASSUME NEW seeds, NEW n \in {0, 1}, DOMAIN seeds = 1..n PROVE SeedsAgree(seeds)
  <2>1. ASSUME NEW i \in DOMAIN seeds, NEW j \in DOMAIN seeds PROVE i = j
    BY <1>2
  <2> QED BY <2>1 DEF SeedsAgree
<1>3. ASSUME NEW order \in Orders, NEW note \in Notes, NEW portion \in Nat
      PROVE  LET new == NewSpend(note.assets, order.refund, note.witness)
             IN  /\ new \in AgreedSpends
                 /\ AddSeed(new, BuildSeed(order.to, portion, order.include, order.extras))
                      \in AgreedSpends
  <2>1. /\ DOMAIN << >> = 1..0
        /\ \A seed : DOMAIN <<seed>> = 1..1
    OBVIOUS
  <2>2. SeedsAgree(<< >>) /\ \A seed : SeedsAgree(<<seed>>)
    BY <1>2, <2>1
  <2> QED BY <2>2, NewSpendIn DEF AgreedSpends
<1>4. ASSUME NEW s \in AgreedSpends
      PROVE  /\ \A d \in Digests : AddPreimage(s, d) \in AgreedSpends
             /\ \A pkh \in Pkhs : PushPkhSignature(s, pkh, SigHash(s)) \in AgreedSpends
             /\ s.refund # NoLock =>
                  /\ \A fee \in Nat : SetFee(s, fee) \in AgreedSpends
                  /\ \A include \in BOOLEAN : ComputeRefund(s, include) \in AgreedSpends
  <2>1. s \in Spends /\ SeedsAgree(s.seeds) /\ SigHash(s) \in Contents /\ s.seeds \in Seq(Seeds)
    BY SigHashType, SpendFields DEF AgreedSpends
  <2>2. ASSUME NEW t \in Spends, t.seeds = s.seeds PROVE t \in AgreedSpends
    BY <2>1, <2>2 DEF AgreedSpends
  <2>3. ASSUME NEW d \in Digests PROVE AddPreimage(s, d) \in AgreedSpends
    BY <2>1, <2>2, AddPreimageType, AddPreimageFields
  <2>4. ASSUME NEW pkh \in Pkhs PROVE PushPkhSignature(s, pkh, SigHash(s)) \in AgreedSpends
    BY <2>1, <2>2, PushPkhSignatureType, PushPkhSignatureFields
  <2>5. ASSUME NEW fee \in Nat PROVE SetFee(s, fee) \in AgreedSpends
    BY <2>1, <2>2, SetFeeType, SetFeeFields
  <2>6. ASSUME s.refund # NoLock, NEW include \in BOOLEAN
        PROVE  ComputeRefund(s, include) \in AgreedSpends
    <3> DEFINE t == ComputeRefund(s, include)
               others == Others(s.seeds, s.refund)
    <3>1. t \in Spends
      BY <2>1, ComputeRefundType
    <3>2. \/ t.seeds = others
          \/ \E seed \in Seeds : seed.lock = s.refund /\ t.seeds = <<seed>> \o others
      BY <2>1, <2>6, ComputeRefundEffect
    <3>3. PICK pos : Locates(pos, others, s.seeds, {i \in DOMAIN s.seeds : s.seeds[i].lock # s.refund},
                             Len(s.seeds))
      BY <2>1, KeptLocates DEF Others
    <3>4. others \in Seq(Seeds)
      BY <2>1, OthersType
    <3> HIDE DEF others, t
    <3>5. /\ DOMAIN others = 1..Len(others) /\ Len(others) \in Nat
          /\ \A i \in DOMAIN others :
               /\ pos[i] \in DOMAIN s.seeds /\ others[i] = s.seeds[pos[i]]
               /\ others[i].lock # s.refund
      BY <3>3, <3>4, LenProperties DEF Locates
    <3>6. SeedsAgree(others)
      BY <2>1, <3>5 DEF SeedsAgree
    <3>7. ASSUME NEW seed \in Seeds, seed.lock = s.refund, t.seeds = <<seed>> \o others
          PROVE  SeedsAgree(t.seeds)
      <4>1. <<seed>> \in Seq(Seeds) /\ Len(<<seed>>) = 1 /\ <<seed>>[1] = seed
        OBVIOUS
      <4>2. /\ DOMAIN t.seeds = 1..(1 + Len(others))
            /\ \A i \in 1..(1 + Len(others)) : t.seeds[i] = IF i <= 1 THEN seed ELSE others[i - 1]
        <5>1. /\ t.seeds \in Seq(Seeds) /\ Len(t.seeds) = 1 + Len(others)
              /\ \A i \in 1..(1 + Len(others)) :
                   t.seeds[i] = IF i <= 1 THEN <<seed>>[i] ELSE others[i - 1]
          BY <3>4, <3>7, <4>1, ConcatProperties
        <5>2. DOMAIN t.seeds = 1..(1 + Len(others))
          BY <5>1, LenProperties
        <5>3. ASSUME NEW i \in 1..(1 + Len(others))
              PROVE  t.seeds[i] = IF i <= 1 THEN seed ELSE others[i - 1]
          <6>1. i <= 1 => i = 1
            BY <3>5
          <6> QED BY <4>1, <5>1, <6>1
        <5> QED BY <5>2, <5>3
      <4>3. ASSUME NEW i \in DOMAIN t.seeds
            PROVE  \/ i = 1 /\ t.seeds[i] = seed
                   \/ i - 1 \in DOMAIN others /\ t.seeds[i] = others[i - 1]
        BY <3>5, <4>2
      <4>4. ASSUME NEW i \in DOMAIN t.seeds, NEW j \in DOMAIN t.seeds,
                   t.seeds[i].lock = t.seeds[j].lock, NEW k \in DataKeys
            PROVE  \/ t.seeds[i].data[k] = 0 \/ t.seeds[j].data[k] = 0
                   \/ t.seeds[i].data[k] = t.seeds[j].data[k]
        <5>1. CASE i = 1 \/ j = 1
          <6>1. t.seeds[i].lock = s.refund /\ t.seeds[j].lock = s.refund
            BY <3>7, <4>3, <4>4, <5>1
          <6>2. t.seeds[i] = seed /\ t.seeds[j] = seed
            BY <3>5, <4>3, <6>1
          <6> QED BY <6>2
        <5>2. CASE i # 1 /\ j # 1
          <6>1. /\ i - 1 \in DOMAIN others /\ t.seeds[i] = others[i - 1]
                /\ j - 1 \in DOMAIN others /\ t.seeds[j] = others[j - 1]
            BY <4>3, <5>2
          <6> QED BY <3>6, <4>4, <6>1 DEF SeedsAgree
        <5> QED BY <5>1, <5>2
      <4> QED BY <4>4 DEF SeedsAgree
    <3>8. SeedsAgree(t.seeds)
      BY <3>2, <3>6, <3>7
    <3> QED BY <3>1, <3>8 DEF AgreedSpends, t
  <2> QED BY <2>3, <2>4, <2>5, <2>6
<1>5. AgreedSpends \subseteq Spends
  BY DEF AgreedSpends
<1> QED BY <1>1, <1>3, <1>4, <1>5 DEF ClosedUnderCalls

(* The outputs merge what the fee rules merge, if all seeds go to the lock.*)
LEMMA MergesAlike ==
  ASSUME NEW seeds \in Seq(Seeds), NEW lock,
         \A i \in 1..Len(seeds) : seeds[i].lock = lock
  PROVE  MergeNoteData(seeds) = MergedData(seeds, lock)
<1> DEFINE N == Len(seeds)
<1>1. N \in Nat /\ \A i \in 1..N : seeds[i] \in Seeds
  BY LenProperties, ElementOfSeq
<1>2. PICK f \in [0..N -> NoteDatas] :
        /\ f[0] = NoData
        /\ \A n \in 1..N : f[n] = Over(f[n - 1], seeds[n].data)
        /\ MergeNoteData(seeds) = f[N]
  <2>1. \A i \in 1..Len(seeds) : seeds[i].data \in NoteDatas
    BY <1>1 DEF Seeds
  <2> QED BY <2>1, MergeRun
<1>3. /\ FirstOf(seeds, 0) = << >> /\ FirstOf(seeds, N) = seeds
      /\ \A n \in 0..(N - 1) :
           /\ FirstOf(seeds, n) \in Seq(Seeds) /\ seeds[n + 1] \in Seeds
           /\ FirstOf(seeds, n + 1) = Append(FirstOf(seeds, n), seeds[n + 1])
  BY FirstOfGrows
<1> DEFINE T == {n \in 0..N : f[n] = MergedData(FirstOf(seeds, n), lock)}
<1>4. 0 \in T
  BY <1>1, <1>2, <1>3, MergedNone
<1>5. ASSUME NEW n \in 0..(N - 1), n \in T PROVE n + 1 \in T
  <2>1. n + 1 \in 1..N /\ n + 1 \in 0..N /\ n \in 0..N /\ (n + 1) - 1 = n
    BY <1>1
  <2>2. f[n + 1] = Over(MergedData(FirstOf(seeds, n), lock), seeds[n + 1].data)
    BY <1>2, <1>5, <2>1
  <2>3. seeds[n + 1] \in Seeds /\ seeds[n + 1].lock = lock /\ FirstOf(seeds, n) \in Seq(Seeds)
        /\ FirstOf(seeds, n + 1) = Append(FirstOf(seeds, n), seeds[n + 1])
    BY <1>1, <1>3, <2>1
  <2>4. MergedData(FirstOf(seeds, n + 1), lock)
          = Over(MergedData(FirstOf(seeds, n), lock), seeds[n + 1].data)
    BY <2>3, MergedAppend
  <2> QED BY <2>1, <2>2, <2>4
<1>6. N \in T
  <2>1. N \in 0..N
    BY <1>1
  <2> HIDE DEF T
  <2> QED BY <1>1, <1>4, <1>5, <2>1, PrefixInduction
<1> QED BY <1>2, <1>3, <1>6

(* The locks that a list of seeds goes to.                                 *)
LocksOf(seeds) == {seeds[i].lock : i \in DOMAIN seeds}

(* Two lists of one set of seeds that agree merge alike, whichever comes   *)
(* last in each.                                                           *)
LEMMA ShuffleMerges ==
  ASSUME NEW seeds \in Seq(Seeds), SeedsAgree(seeds), NEW own \in Seq(Seeds),
         ToSet(own) = ToSet(seeds), NEW lock
  PROVE  MergedData(own, lock) = MergedData(seeds, lock) /\ LocksOf(own) = LocksOf(seeds)
<1>1. /\ \A i \in DOMAIN own : \E j \in DOMAIN seeds : own[i] = seeds[j]
      /\ \A i \in DOMAIN seeds : \E j \in DOMAIN own : seeds[i] = own[j]
  BY DEF ToSet
<1>2. ASSUME NEW k \in DataKeys PROVE MergedData(own, lock)[k] = MergedData(seeds, lock)[k]
  <2> DEFINE x == MergedData(own, lock)[k]
             y == MergedData(seeds, lock)[k]
  <2>1. LastNoun(own, lock, k, x) /\ LastNoun(seeds, lock, k, y)
    BY MergedDataIs
  <2> HIDE DEF x, y
  <2>2. Carriers(own, lock, k) = {} <=> Carriers(seeds, lock, k) = {}
    BY <1>1 DEF Carriers
  <2>3. CASE Carriers(own, lock, k) = {}
    BY <2>1, <2>2, <2>3 DEF LastNoun, x, y
  <2>4. CASE Carriers(own, lock, k) # {}
    <3>1. PICK i \in Carriers(own, lock, k) : x = own[i].data[k]
      BY <2>1, <2>4 DEF LastNoun
    <3>2. PICK j \in Carriers(seeds, lock, k) : y = seeds[j].data[k]
      BY <2>1, <2>2, <2>4 DEF LastNoun
    <3>3. PICK m \in DOMAIN seeds : own[i] = seeds[m]
      BY <1>1 DEF Carriers
    <3>4. /\ seeds[m].lock = lock /\ seeds[m].data[k] # 0 /\ x = seeds[m].data[k]
          /\ j \in DOMAIN seeds /\ seeds[j].lock = lock /\ seeds[j].data[k] # 0
      BY <3>1, <3>2, <3>3 DEF Carriers
    <3> QED BY <3>2, <3>4 DEF SeedsAgree, x, y
  <2> QED BY <2>3, <2>4
<1>3. /\ MergedData(own, lock) = [k \in DataKeys |-> MergedData(own, lock)[k]]
      /\ MergedData(seeds, lock) = [k \in DataKeys |-> MergedData(seeds, lock)[k]]
  BY DEF MergedData
<1>4. LocksOf(own) = LocksOf(seeds)
  BY <1>1 DEF LocksOf
<1> QED BY <1>2, <1>3, <1>4

LEMMA WireOrderMerges ==
  ASSUME NEW seeds \in Seq(Seeds), SeedsAgree(seeds), NEW own \in SetToSeqs(ToSet(seeds)),
         NEW lock
  PROVE  MergedData(own, lock) = MergedData(seeds, lock) /\ LocksOf(own) = LocksOf(seeds)
<1>1. own \in Seq(Seeds) /\ ToSet(own) = ToSet(seeds)
  BY WireOrder
<1> QED BY <1>1, ShuffleMerges

(* The data and the locks of a list with one seed more.                    *)
LEMMA LocksAppend ==
  ASSUME NEW seeds \in Seq(Seeds), NEW seed \in Seeds
  PROVE  LocksOf(Append(seeds, seed)) = LocksOf(seeds) \cup {seed.lock}
<1> DEFINE more == Append(seeds, seed)
           N == Len(seeds)
<1>1. /\ N \in Nat /\ DOMAIN seeds = 1..N /\ DOMAIN more = 1..(N + 1)
      /\ \A i \in 1..N : more[i] = seeds[i]
      /\ more[N + 1] = seed
  <2>1. N \in Nat /\ DOMAIN seeds = 1..N
    BY LenProperties
  <2>2. more \in Seq(Seeds) /\ Len(more) = N + 1
    BY AppendProperties
  <2>3. DOMAIN more = 1..(N + 1)
    BY <2>2, LenProperties
  <2> QED BY <2>1, <2>3, AppendProperties
<1> HIDE DEF more
<1>2. \A i \in 1..(N + 1) : i \in 1..N \/ i = N + 1
  BY <1>1
<1>3. \A i \in 1..N : i \in 1..(N + 1)
  BY <1>1
<1>4. N + 1 \in 1..(N + 1)
  BY <1>1
<1> HIDE DEF N
<1> QED BY <1>1, <1>2, <1>3, <1>4 DEF LocksOf, more

LEMMA LocksConcat ==
  ASSUME NEW a \in Seq(Seeds), NEW b \in Seq(Seeds)
  PROVE  LocksOf(a \o b) = LocksOf(a) \cup LocksOf(b)
<1> DEFINE both == a \o b
           M == Len(a)
           N == Len(b)
<1>1. /\ M \in Nat /\ N \in Nat /\ DOMAIN a = 1..M /\ DOMAIN b = 1..N
      /\ DOMAIN both = 1..(M + N)
      /\ \A i \in 1..(M + N) : both[i] = IF i <= M THEN a[i] ELSE b[i - M]
  <2>1. M \in Nat /\ N \in Nat /\ DOMAIN a = 1..M /\ DOMAIN b = 1..N
    BY LenProperties
  <2>2. both \in Seq(Seeds) /\ Len(both) = M + N
    BY ConcatProperties
  <2>3. DOMAIN both = 1..(M + N)
    BY <2>2, LenProperties
  <2> QED BY <2>1, <2>3, ConcatProperties
<1> HIDE DEF both, M, N
<1>2. \A i \in DOMAIN both : \/ i \in DOMAIN a /\ both[i] = a[i]
                             \/ i - M \in DOMAIN b /\ both[i] = b[i - M]
  BY <1>1
<1>3. \A i \in DOMAIN a : i \in DOMAIN both /\ both[i] = a[i]
  BY <1>1
<1>4. \A i \in DOMAIN b : M + i \in DOMAIN both /\ both[M + i] = b[i]
  <2>1. ASSUME NEW i \in DOMAIN b PROVE M + i \in DOMAIN both /\ both[M + i] = b[i]
    <3>1. M + i \in 1..(M + N) /\ ~ (M + i <= M) /\ (M + i) - M = i
      BY <1>1
    <3> QED BY <1>1, <3>1
  <2> QED BY <2>1
<1>5. LocksOf(both) \subseteq LocksOf(a) \cup LocksOf(b)
  BY <1>2 DEF LocksOf
<1>6. LocksOf(a) \cup LocksOf(b) \subseteq LocksOf(both)
  BY <1>3, <1>4 DEF LocksOf
<1> QED BY <1>5, <1>6 DEF both

LEMMA MergedAbsent ==
  ASSUME NEW seeds \in Seq(Seeds), NEW lock, lock \notin LocksOf(seeds)
  PROVE  MergedData(seeds, lock) = NoData
<1>1. \A k \in DataKeys : {i \in DOMAIN seeds : seeds[i].lock = lock /\ seeds[i].data[k] # 0} = {}
  BY DEF LocksOf
<1> QED BY <1>1 DEF MergedData, NoData

(* The groups made of a list of seeds are for its locks, and merge what    *)
(* the list does.                                                          *)
GroupsMerge(groups, seeds) ==
  /\ {groups[i].lock : i \in 1..Len(groups)} = LocksOf(seeds)
  /\ \A i \in 1..Len(groups) :
       MergedData(groups[i].seeds, groups[i].lock) = MergedData(seeds, groups[i].lock)

LEMMA GroupKeepsMerge ==
  ASSUME NEW groups \in Groupings(Seeds), NEW seeds \in Seq(Seeds), NEW seed \in Seeds,
         GroupsMerge(groups, seeds)
  PROVE  GroupsMerge(Group(groups, seed), Append(seeds, seed))
<1> DEFINE N == Len(groups)
           new == Group(groups, seed)
           more == Append(seeds, seed)
           lock == seed.lock
<1>1. /\ groups \in Seq(LockGroups(Seeds)) /\ N \in Nat
      /\ \A i \in 1..N : groups[i].seeds \in Seq(Seeds)
      /\ \A i, j \in 1..N : groups[i].lock = groups[j].lock => i = j
  <2>1. groups \in Seq(LockGroups(Seeds))
    BY DEF Groupings, LockGroups
  <2>2. N \in Nat /\ \A i \in 1..N : groups[i] \in LockGroups(Seeds)
    BY <2>1, LenProperties, ElementOfSeq
  <2> QED BY <2>1, <2>2 DEF Groupings, LockGroups
<1>2. LocksOf(more) = LocksOf(seeds) \cup {lock}
  BY LocksAppend
<1>3. \A l : MergedData(more, l) = IF lock = l THEN Over(MergedData(seeds, l), seed.data)
                                   ELSE MergedData(seeds, l)
  BY MergedAppend
<1>4. /\ {groups[i].lock : i \in 1..N} = LocksOf(seeds)
      /\ \A i \in 1..N : MergedData(groups[i].seeds, groups[i].lock)
                           = MergedData(seeds, groups[i].lock)
  BY DEF GroupsMerge
<1> HIDE DEF more, new
<1>5. ASSUME NEW k \in 1..N, Joins(new, groups, seed, Seeds, k) PROVE GroupsMerge(new, more)
  <2>1. /\ groups[k].lock = lock /\ Len(new) = N
        /\ new[k].lock = lock /\ new[k].seeds = Append(groups[k].seeds, seed)
        /\ \A i \in 1..N : i # k => new[i] = groups[i] /\ groups[i].lock # lock
    BY <1>1, <1>5 DEF Joins
  <2>2. \A i \in 1..N : new[i].lock = groups[i].lock
    BY <2>1
  <2>3. {new[i].lock : i \in 1..N} = LocksOf(more)
    <3>1. lock \in LocksOf(seeds)
      BY <1>4, <2>1
    <3>2. {new[i].lock : i \in 1..N} = {groups[i].lock : i \in 1..N}
      BY <2>2
    <3> QED BY <1>2, <1>4, <3>1, <3>2
  <2>4. ASSUME NEW i \in 1..N
        PROVE  MergedData(new[i].seeds, new[i].lock) = MergedData(more, new[i].lock)
    <3>1. CASE i = k
      <4>1. groups[k].seeds \in Seq(Seeds)
        BY <1>1
      <4>2. MergedData(Append(groups[k].seeds, seed), lock)
              = Over(MergedData(groups[k].seeds, lock), seed.data)
        BY <4>1, MergedAppend
      <4>3. MergedData(groups[k].seeds, lock) = MergedData(seeds, lock)
        BY <1>4, <2>1
      <4> QED BY <1>3, <2>1, <3>1, <4>2, <4>3
    <3>2. CASE i # k
      BY <1>3, <1>4, <2>1, <3>2
    <3> QED BY <3>1, <3>2
  <2> QED BY <2>1, <2>3, <2>4 DEF GroupsMerge
<1>6. ASSUME Starts(new, groups, seed, Seeds) PROVE GroupsMerge(new, more)
  <2>1. /\ Len(new) = N + 1
        /\ new[N + 1].lock = lock /\ new[N + 1].seeds = <<seed>>
        /\ \A i \in 1..N : new[i] = groups[i] /\ groups[i].lock # lock
    BY <1>6 DEF Starts
  <2>2. \A i \in 1..(N + 1) : i \in 1..N \/ i = N + 1
    BY <1>1
  <2>3. (\A i \in 1..N : i \in 1..(N + 1)) /\ N + 1 \in 1..(N + 1)
    BY <1>1
  <2>4. {new[i].lock : i \in 1..(N + 1)} = LocksOf(more)
    <3>1. \A x \in LocksOf(more) : \E i \in 1..(N + 1) : x = new[i].lock
      BY <1>2, <1>4, <2>1, <2>3
    <3>2. \A i \in 1..(N + 1) : new[i].lock \in LocksOf(more)
      BY <1>2, <1>4, <2>1, <2>2
    <3> QED BY <3>1, <3>2
  <2>5. lock \notin LocksOf(seeds)
    BY <1>4, <2>1
  <2>6. MergedData(<<seed>>, lock) = MergedData(more, lock)
    <3>1. seed.data \in NoteDatas
      BY DEF Seeds
    <3>2. MergedData(seeds, lock) = NoData
      BY <2>5, MergedAbsent
    <3>3. MergedData(more, lock) = Over(NoData, seed.data)
      BY <1>3, <3>2
    <3>4. Over(NoData, seed.data) = seed.data
      BY <3>1, OverParts
    <3>5. MergedData(<<seed>>, lock) = seed.data
      BY MergedOne
    <3> QED BY <3>3, <3>4, <3>5
  <2>7. ASSUME NEW i \in 1..(N + 1)
        PROVE  MergedData(new[i].seeds, new[i].lock) = MergedData(more, new[i].lock)
    <3>1. CASE i = N + 1
      BY <2>1, <2>6, <3>1
    <3>2. CASE i \in 1..N
      BY <1>3, <1>4, <2>1, <3>2
    <3> QED BY <2>2, <3>1, <3>2
  <2> QED BY <2>1, <2>4, <2>7 DEF GroupsMerge
<1>7. \/ \E k \in 1..N : Joins(new, groups, seed, Seeds, k)
      \/ Starts(new, groups, seed, Seeds)
  BY <1>1, GroupTurn DEF new
<1> QED BY <1>5, <1>6, <1>7 DEF new, more

LEMMA SeedsByLockMerge ==
  ASSUME NEW seeds \in Seq(Seeds)
  PROVE  SeedsByLock(seeds) \in Groupings(Seeds) /\ GroupsMerge(SeedsByLock(seeds), seeds)
<1> DEFINE N == Len(seeds)
<1>1. PICK f \in [0..N -> Groupings(Seeds)] :
        /\ f[0] = << >>
        /\ \A n \in 1..N : f[n] = Group(f[n - 1], seeds[n])
        /\ SeedsByLock(seeds) = f[N]
  BY SeedsByLockRun
<1>2. N \in Nat /\ \A i \in 1..N : seeds[i] \in Seeds
  BY LenProperties, ElementOfSeq
<1>3. /\ FirstOf(seeds, 0) = << >> /\ FirstOf(seeds, N) = seeds
      /\ \A n \in 0..(N - 1) :
           /\ FirstOf(seeds, n) \in Seq(Seeds) /\ seeds[n + 1] \in Seeds
           /\ FirstOf(seeds, n + 1) = Append(FirstOf(seeds, n), seeds[n + 1])
  BY FirstOfGrows
<1> DEFINE T == {n \in 0..N : GroupsMerge(f[n], FirstOf(seeds, n))}
<1>4. 0 \in T
  <2>1. GroupsMerge(<< >>, << >>)
    BY DEF GroupsMerge, LocksOf
  <2> QED BY <1>1, <1>2, <1>3, <2>1
<1>5. ASSUME NEW n \in 0..(N - 1), n \in T PROVE n + 1 \in T
  <2>1. n + 1 \in 1..N /\ n + 1 \in 0..N /\ n \in 0..N /\ (n + 1) - 1 = n
    BY <1>2
  <2>2. /\ f[n] \in Groupings(Seeds) /\ FirstOf(seeds, n) \in Seq(Seeds) /\ seeds[n + 1] \in Seeds
        /\ GroupsMerge(f[n], FirstOf(seeds, n))
    BY <1>1, <1>2, <1>3, <1>5, <2>1
  <2>3. /\ f[n + 1] = Group(f[n], seeds[n + 1])
        /\ FirstOf(seeds, n + 1) = Append(FirstOf(seeds, n), seeds[n + 1])
    BY <1>1, <1>3, <2>1
  <2>4. GroupsMerge(Group(f[n], seeds[n + 1]), Append(FirstOf(seeds, n), seeds[n + 1]))
    BY <2>2, GroupKeepsMerge
  <2> QED BY <2>1, <2>3, <2>4
<1>6. N \in T
  <2>1. N \in 0..N
    BY <1>2
  <2> HIDE DEF T
  <2> QED BY <1>2, <1>4, <1>5, <2>1, PrefixInduction
<1>7. N \in 0..N
  BY <1>2
<1> QED BY <1>1, <1>3, <1>6, <1>7

(* Lists of seeds that go to the same locks and merge alike for each.      *)
MergeAlike(a, b) ==
  LocksOf(a) = LocksOf(b) /\ \A lock \in Locks : MergedData(a, lock) = MergedData(b, lock)

(* The lists of seeds of the spends.                                       *)
SeedLists(entries) == [i \in 1..Len(entries) |-> entries[i].sb.seeds]

LEMMA SeedListsType ==
  ASSUME NEW entries \in Seq(Entries)
  PROVE  /\ SeedLists(entries) \in Seq(Seq(Seeds)) /\ Len(SeedLists(entries)) = Len(entries)
         /\ \A i \in 1..Len(entries) : /\ entries[i].sb.seeds \in Seq(Seeds)
                                       /\ SeedLists(entries)[i] = entries[i].sb.seeds
<1> DEFINE N == Len(entries)
           lists == SeedLists(entries)
<1>1. N \in Nat /\ \A i \in 1..N : entries[i].sb.seeds \in Seq(Seeds)
  <2>1. N \in Nat /\ \A i \in 1..N : i \in DOMAIN entries
    BY LenProperties
  <2>2. \A i \in DOMAIN entries : entries[i].sb \in Spends
    BY EntryFields
  <2> QED BY <2>1, <2>2, SpendFields
<1>2. lists \in [1..N -> Seq(Seeds)] /\ \A i \in 1..N : lists[i] = entries[i].sb.seeds
  BY <1>1 DEF SeedLists
<1> HIDE DEF lists, N
<1>3. lists \in Seq(Seq(Seeds)) /\ Len(lists) = N
  BY <1>1, <1>2, IsASeq
<1> QED BY <1>1, <1>2, <1>3 DEF lists, N

(* In whichever order the seeds of each spend come, they merge into what   *)
(* the fee rules merge them into, if those of each spend agree.            *)
LEMMA WireSeedsMerge ==
  ASSUME NEW entries \in Seq(Entries),
         \A i \in 1..Len(entries) : SeedsAgree(entries[i].sb.seeds),
         NEW seeds \in WireSeeds(entries)
  PROVE  /\ seeds \in Seq(Seeds) /\ FlattenSeq(SeedLists(entries)) \in Seq(Seeds)
         /\ MergeAlike(seeds, FlattenSeq(SeedLists(entries)))
<1> DEFINE N == Len(entries)
           lists == SeedLists(entries)
<1>1. /\ N \in Nat /\ lists \in Seq(Seq(Seeds)) /\ Len(lists) = N
      /\ \A i \in 1..N : entries[i].sb.seeds \in Seq(Seeds) /\ lists[i] = entries[i].sb.seeds
  BY SeedListsType, LenProperties
<1> HIDE DEF lists
<1>2. PICK f \in [0..N -> SUBSET Seq(Seeds)] :
        /\ f[0] = {<< >>}
        /\ \A n \in 1..N : f[n] = Longer(f[n - 1], entries[n].sb.seeds)
        /\ WireSeeds(entries) = f[N]
  BY <1>1, WireSeedsRun
<1>3. PICK g \in [0..N -> Seq(Seeds)] :
        /\ g[0] = << >>
        /\ \A n \in 1..N : g[n] = g[n - 1] \o lists[n]
        /\ FlattenSeq(lists) = g[N]
  <2>1. \E g \in [0..Len(lists) -> Seq(Seeds)] :
          /\ g[0] = << >>
          /\ \A n \in 1..Len(lists) : g[n] = g[n - 1] \o lists[n]
          /\ FlattenSeq(lists) = g[Len(lists)]
    <3>1. lists \in Seq(Seq(Seeds))
      BY <1>1
    <3> QED BY ONLY <3>1, FlattenRun
  <2>2. Len(lists) = N
    BY <1>1
  <2> HIDE DEF N
  <2> QED BY ONLY <2>1, <2>2
<1> DEFINE T == {n \in 0..N : \A list \in f[n] : MergeAlike(list, g[n])}
<1>4. 0 \in T
  BY <1>1, <1>2, <1>3 DEF MergeAlike
<1>5. ASSUME NEW n \in 0..(N - 1), n \in T PROVE n + 1 \in T
  <2> DEFINE own == entries[n + 1].sb.seeds
  <2>1. n + 1 \in 1..N /\ n + 1 \in 0..N /\ n \in 0..N /\ (n + 1) - 1 = n
    BY <1>1
  <2>2. /\ own \in Seq(Seeds) /\ SeedsAgree(own) /\ lists[n + 1] = own
        /\ f[n + 1] = Longer(f[n], own) /\ f[n] \subseteq Seq(Seeds)
        /\ g[n + 1] = g[n] \o own /\ g[n] \in Seq(Seeds)
    <3>1. f[n] \subseteq Seq(Seeds) /\ g[n] \in Seq(Seeds)
      BY <1>2, <1>3, <2>1
    <3>2. own \in Seq(Seeds) /\ SeedsAgree(own) /\ lists[n + 1] = own
      BY <1>1, <2>1
    <3>3. f[n + 1] = Longer(f[n], own)
      BY <1>2, <2>1
    <3> QED BY <1>3, <2>1, <3>1, <3>2, <3>3
  <2> HIDE DEF own
  <2>3. ASSUME NEW list \in f[n], NEW o \in SetToSeqs(ToSet(own))
        PROVE  MergeAlike(list \o o, g[n] \o own)
    <3>1. list \in Seq(Seeds) /\ MergeAlike(list, g[n])
      BY <1>5, <2>2
    <3>2. o \in Seq(Seeds)
      BY <2>2, WireOrder
    <3>3. LocksOf(o) = LocksOf(own) /\ \A lock \in Locks : MergedData(o, lock) = MergedData(own, lock)
      BY <2>2, WireOrderMerges
    <3>4. /\ LocksOf(list \o o) = LocksOf(list) \cup LocksOf(o)
          /\ LocksOf(g[n] \o own) = LocksOf(g[n]) \cup LocksOf(own)
      BY <2>2, <3>1, <3>2, LocksConcat
    <3>5. \A lock \in Locks :
            /\ MergedData(list \o o, lock) = Over(MergedData(list, lock), MergedData(o, lock))
            /\ MergedData(g[n] \o own, lock) = Over(MergedData(g[n], lock), MergedData(own, lock))
      BY <2>2, <3>1, <3>2, MergedConcat
    <3> QED BY <3>1, <3>3, <3>4, <3>5 DEF MergeAlike
  <2>4. ASSUME NEW x \in f[n + 1] PROVE MergeAlike(x, g[n + 1])
    <3>1. PICK list \in f[n], o \in SetToSeqs(ToSet(own)) : x = list \o o
      <4>1. x \in Longer(f[n], own)
        BY <2>2
      <4>2. IsLonger(x, f[n], own)
        BY ONLY <4>1, LongerParts
      <4> QED BY <4>2 DEF IsLonger
    <3> QED BY <2>2, <2>3, <3>1
  <2> QED BY <2>1, <2>4
<1>6. N \in T /\ N \in 0..N
  <2>1. N \in 0..N
    BY <1>1
  <2> HIDE DEF T
  <2> QED BY <1>1, <1>4, <1>5, <2>1, PrefixInduction
<1>7. seeds \in f[N] /\ f[N] \subseteq Seq(Seeds) /\ g[N] \in Seq(Seeds)
  BY <1>2, <1>3, <1>6
<1>8. MergeAlike(seeds, g[N])
  BY <1>6, <1>7
<1> QED BY <1>3, <1>7, <1>8 DEF lists

(* The notes of a list of seeds carry, all together, the words that the    *)
(* fee rules count for the merged data of its locks.                       *)
MergedWords(seeds) ==
  SumFunction([lock \in LocksOf(seeds) |-> NoteDataWords(MergedData(seeds, lock))])

LEMMA OutputsCarry ==
  ASSUME EnginePatch >= 1, NEW seeds \in Seq(Seeds)
  PROVE  LET outputs == RawTxV1Outputs(seeds)
         IN  Total([i \in DOMAIN outputs |-> NoteDataWords(outputs[i].data)]) = MergedWords(seeds)
<1> DEFINE groups == SeedsByLock(seeds)
           N == Len(groups)
           D == LocksOf(seeds)
           b == [i \in 1..N |-> groups[i].lock]
           words == [lock \in D |-> NoteDataWords(MergedData(seeds, lock))]
           outputs == RawTxV1Outputs(seeds)
<1>1. groups \in Groupings(Seeds) /\ GroupsMerge(groups, seeds)
  BY SeedsByLockMerge
<1>2. /\ DOMAIN outputs = 1..N /\ N \in Nat
      /\ \A i \in 1..N : outputs[i] = Output(groups[i])
  BY OutputsEffect
<1> HIDE DEF groups, outputs
<1>3. /\ \A i, j \in 1..N : groups[i].lock = groups[j].lock => i = j
      /\ \A i \in 1..N : /\ groups[i].seeds \in Seq(Seeds)
                         /\ \A j \in 1..Len(groups[i].seeds) :
                              groups[i].seeds[j].lock = groups[i].lock
  <2>1. \A i \in 1..N : groups[i] \in LockGroups(Seeds)
    BY <1>1, ElementOfSeq DEF Groupings
  <2>2. \A i \in 1..N : groups[i].seeds \in Seq(Seeds)
    BY <2>1 DEF LockGroups
  <2> QED BY <1>1, <2>2 DEF Groupings
<1>4. /\ {groups[i].lock : i \in 1..N} = D
      /\ \A i \in 1..N : MergedData(groups[i].seeds, groups[i].lock)
                           = MergedData(seeds, groups[i].lock)
  BY <1>1 DEF GroupsMerge
<1>5. Lists(b, N, D)
  BY <1>3, <1>4 DEF Lists
<1>6. words \in [D -> Nat]
  BY MergedDataType, NoteDataWordsType
<1>7. SumFunction(words) = Total([i \in 1..N |-> words[b[i]]])
  <2> HIDE DEF words, b, D, N
  <2> QED BY <1>2, <1>5, <1>6, SumIsListed
<1>8. ASSUME NEW i \in 1..N PROVE NoteDataWords(outputs[i].data) = words[b[i]]
  <2>1. outputs[i].data = MergeNoteData(groups[i].seeds)
    <3>1. Output(groups[i]).data
            = IF EnginePatch >= 1 THEN MergeNoteData(groups[i].seeds) ELSE groups[i].seeds[1].data
      BY DEF Output
    <3> QED BY <1>2, <3>1
  <2>2. MergeNoteData(groups[i].seeds) = MergedData(groups[i].seeds, groups[i].lock)
    BY <1>3, MergesAlike
  <2>3. words[b[i]] = NoteDataWords(MergedData(seeds, groups[i].lock))
    BY <1>4
  <2> HIDE DEF words, b
  <2> QED BY <1>4, <2>1, <2>2, <2>3
<1>9. [i \in DOMAIN outputs |-> NoteDataWords(outputs[i].data)] = [i \in 1..N |-> words[b[i]]]
  <2> HIDE DEF words, b
  <2> QED BY <1>2, <1>8
<1>10. SumFunction(words) = MergedWords(seeds)
  BY DEF MergedWords
<1> HIDE DEF words, b, N
<1> QED BY <1>7, <1>9, <1>10 DEF outputs

(* What FeeChargesForOutputs says of the transaction of these spends.      *)
Charges(entries) ==
  \A seeds \in WireSeeds(entries) :
    LET outputs == RawTxV1Outputs(seeds)
    IN  Total([i \in DOMAIN outputs |-> NoteDataWords(outputs[i].data)])
          = OrderedSeedWords(SpendsOf(entries))

LEMMA AgreedCharges ==
  ASSUME EnginePatch >= 1, NEW entries \in Seq(Entries),
         \A i \in 1..Len(entries) : SeedsAgree(entries[i].sb.seeds)
  PROVE  Charges(entries)
<1> DEFINE all == FlattenSeq(SeedLists(entries))
<1>1. OrderedSeedWords(SpendsOf(entries)) = MergedWords(all)
  <2> DEFINE list == SpendsOf(entries)
             lists == [i \in 1..Len(list) |-> list[i].seeds]
  <2>1. EnginePatch # 0
    BY SpendAssumption
  <2>2. Len(list) = Len(entries) /\ \A i \in 1..Len(entries) : list[i] = entries[i].sb
    <3>1. Len(entries) \in Nat /\ \A i \in 1..Len(entries) : entries[i].sb \in Spends
      BY EntryFields
    <3>2. list \in [1..Len(entries) -> Spends] /\ \A i \in 1..Len(entries) : list[i] = entries[i].sb
      BY <3>1 DEF SpendsOf
    <3> HIDE DEF list
    <3>3. Len(list) = Len(entries)
      BY <3>1, <3>2, IsASeq
    <3> QED BY <3>2, <3>3
  <2> HIDE DEF list
  <2>3. lists = SeedLists(entries)
    BY <2>2 DEF SeedLists
  <2>4. OrderedSeedWords(list)
          = SumFunction([l \in {all[i].lock : i \in DOMAIN all} |-> NoteDataWords(MergedData(all, l))])
    <3>1. FlattenSeq(lists) = all
      BY <2>3
    <3>2. OrderedSeedWords(list)
            = SumFunction([l \in {FlattenSeq(lists)[i].lock : i \in DOMAIN FlattenSeq(lists)} |->
                             NoteDataWords(MergedData(FlattenSeq(lists), l))])
      BY <2>1, Zenon DEF OrderedSeedWords
    <3> HIDE DEF lists, all
    <3> QED BY <3>1, <3>2
  <2> QED BY <2>4 DEF MergedWords, LocksOf, list
<1> HIDE DEF all
<1>2. ASSUME NEW seeds \in WireSeeds(entries) PROVE MergedWords(seeds) = MergedWords(all)
  <2>1. seeds \in Seq(Seeds) /\ all \in Seq(Seeds) /\ MergeAlike(seeds, all)
    BY WireSeedsMerge DEF all
  <2>2. LocksOf(seeds) \subseteq Locks
    <3>1. \A i \in DOMAIN seeds : seeds[i] \in Seeds
      BY <2>1, LenProperties, ElementOfSeq
    <3> QED BY <3>1 DEF LocksOf, Seeds
  <2>3. /\ LocksOf(seeds) = LocksOf(all)
        /\ \A lock \in LocksOf(seeds) : MergedData(seeds, lock) = MergedData(all, lock)
    BY <2>1, <2>2 DEF MergeAlike
  <2>4. [lock \in LocksOf(seeds) |-> NoteDataWords(MergedData(seeds, lock))]
          = [lock \in LocksOf(all) |-> NoteDataWords(MergedData(all, lock))]
    BY <2>3
  <2> QED BY <2>4 DEF MergedWords
<1>3. ASSUME NEW seeds \in WireSeeds(entries)
      PROVE  LET outputs == RawTxV1Outputs(seeds)
             IN  Total([i \in DOMAIN outputs |-> NoteDataWords(outputs[i].data)])
                   = OrderedSeedWords(SpendsOf(entries))
  <2>1. seeds \in Seq(Seeds)
    BY WireSeedsMerge
  <2>2. LET outputs == RawTxV1Outputs(seeds)
        IN  Total([i \in DOMAIN outputs |-> NoteDataWords(outputs[i].data)]) = MergedWords(seeds)
    BY <2>1, OutputsCarry
  <2> QED BY <1>1, <1>2, <2>2
<1> QED BY <1>3 DEF Charges

(* When the seeds of each hand-made spend that go to one lock agree on the *)
(* data that several of them carry, the notes of a transaction carry, all  *)
(* together and in whatever order its seeds come, as many words of data as *)
(* the fee was computed for.                                               *)
THEOREM FeeIsForTheOutputs ==
  ASSUME AgreedAdditions
  PROVE  Spec => FeeChargesForOutputs
<1> DEFINE AgreedInv == HeldIn(AgreedSpends)
<1>1. IInv /\ AgreedInv /\ [Next]_vars => AgreedInv'
  <2>1. ClosedUnderCalls(AgreedSpends)
    BY AgreedStay
  <2> QED BY <2>1, NextStaysIn
<1>2. Init => AgreedInv
  BY InitIn
<1>3. IInv' /\ AgreedInv'
      => [(Returns /\ job # Idle /\ EnginePatch >= 1) =>
       \A seeds \in WireSeeds(spends') :
         LET outputs == RawTxV1Outputs(seeds)
         IN  Total([i \in DOMAIN outputs |-> NoteDataWords(outputs[i].data)])
               = OrderedSeedWords(SpendsOf(spends'))]_vars
  <2> SUFFICES ASSUME IInv', AgreedInv', EnginePatch >= 1
               PROVE  Charges(spends')
    BY DEF Charges
  <2>1. spends' \in Seq(Entries) /\ AllIn(AgreedSpends, spends')
    BY DEF IInv, Holds, HeldIn
  <2>2. ASSUME NEW i \in 1..Len(spends') PROVE SeedsAgree(spends'[i].sb.seeds)
    <3>1. i \in DOMAIN spends'
      BY <2>1, LenProperties
    <3> QED BY <2>1, <3>1 DEF AllIn, AgreedSpends
  <2> QED BY <2>1, <2>2, AgreedCharges
<1> HIDE DEF AgreedInv
<1>4. Spec => [](IInv /\ AgreedInv)
  BY <1>1, <1>2, InitInvariant, NextKeeps, PTL DEF Spec
<1> QED BY <1>3, <1>4, PTL DEF Spec, FeeChargesForOutputs

=============================================================================
