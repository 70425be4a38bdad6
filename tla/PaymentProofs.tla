----------------------------- MODULE PaymentProofs -----------------------------
(***************************************************************************)
(* Proof that TxBuilder, used for one payment, keeps the promise of        *)
(* Payment, for every list of notes, every lock, key, price and override:  *)
(* the safety part of ImplementsPayment; and that the fee it computes is   *)
(* enough.                                                                 *)
(***************************************************************************)
EXTENDS TxBuilderPays, TxBuilderProofs

(* A builder that is used for one payment and nothing else.                *)
OnePayment == MaxCalls = 1 /\ Additions = {} /\ FeeTargets = {} /\ Includes = {}

-----------------------------------------------------------------------------
(* The seeds of a spend of a payment: change to the payer, if any is left, *)
(* and a gift, if this note gives one.                                     *)

ChangeSeed(order, c) == BuildSeed(order.refund, c, order.include, NoData)
GiftSeed(order, g) == BuildSeed(order.to, g, order.include, order.extras)

SeedsOf(order, c, g) ==
  LET change == IF c = 0 THEN << >> ELSE <<ChangeSeed(order, c)>>
  IN  IF g = 0 THEN change ELSE Append(change, GiftSeed(order, g))

Given(s) == Gifts(Others(s.seeds, s.refund))

(* A gift to oneself is change.                                            *)
Away(order, g) == IF order.to = order.refund THEN 0 ELSE g

(* s pays c back to the payer, and gives g away.                           *)
Splits(order, s, c, g) ==
  /\ s.refund = order.refund
  /\ s.seeds = SeedsOf(order, c, g)
  /\ s.assets = s.fee + c + g
  /\ order.to = order.refund => g = 0

Pays(order, s) == Splits(order, s, RefundGift(s), Given(s))

(* e spends a note of the payment.                                         *)
SpendsNote(order, note, e) ==
  /\ e.name = note.name /\ e.sb.assets = note.assets
  /\ Pays(order, e.sb)
  /\ order.preimage = NoPreimage => e.sb.witness = note.witness

(* e keeps a note of the payment for the fee.                              *)
KeepsNote(order, note, e) == SpendsNote(order, note, e) /\ e.sb.fee = 0 /\ Given(e.sb) = 0

AllSpend(order, xs) ==
  \A i \in DOMAIN xs : \E k \in DOMAIN order.notes : SpendsNote(order, order.notes[k], xs[i])
AllKeep(order, xs) ==
  \A i \in DOMAIN xs : \E k \in DOMAIN order.notes : KeepsNote(order, order.notes[k], xs[i])

AwayTotal(xs) == Total([i \in 1..Len(xs) |-> Given(xs[i].sb)])
Purse(notes) == Total([i \in 1..Len(notes) |-> notes[i].assets])

(* What the spends so far may cost.                                        *)
RoomsOf(order, n) == [i \in 1..n |-> SeedFee(SeedRoom(order))]
WordsOf(xs) == [i \in 1..Len(xs) |-> WitnessWords(xs[i].sb)]
MissingOf(xs) == [i \in 1..Len(xs) |-> MissingUnlocksFee(xs[i].sb)]

FeeBound(order, xs) ==
  MinFee + Total(RoomsOf(order, Len(xs))) + WitnessFee(Total(WordsOf(xs)))
    + Total(MissingOf(xs))

-----------------------------------------------------------------------------
(* The invariant of a payment under way.                                   *)

(* The notes are given out one by one, and what is left of the gift is     *)
(* what the notes so far do not cover.                                     *)
BaseFits(j, sp) ==
  LET order == j.order
  IN  /\ \A i \in DOMAIN j.notes : \E k \in DOMAIN order.notes : j.notes[i] = order.notes[k]
      /\ j.left <= order.gift
      /\ \A i \in DOMAIN sp : sp[i].sb.fee = 0
      /\ AwayTotal(sp) = Away(order, order.gift - j.left)
      /\ j.left < order.gift => sp # << >>
      /\ j.left > 0 => (order.gift - j.left) + Purse(j.notes) = Purse(order.notes)

(* The gift is paid; the fee and what is left to be found make the fee     *)
(* that was asked for, or no more than the spends can cost; and as long as *)
(* something is left, no spend that was looked at has change.              *)
FeeFits(j, sp) ==
  LET order == j.order
  IN  /\ sp # << >>
      /\ j.include = order.include
      /\ j.adjust = (order.override = NoOverride)
      /\ AwayTotal(sp) = Away(order, order.gift)
      /\ order.override # NoOverride => CurFee(sp) + j.left = order.override
      /\ order.override = NoOverride /\ order.preimage = NoPreimage
           => CurFee(sp) + j.left <= FeeBound(order, sp)
      /\ j.left > 0 => \A i \in DOMAIN sp : HasRefund(sp[i].sb) =>
                         j.op = "raise" /\ sp[i].name \in j.todo

PaymentFits(j, sp, pl) ==
  LET order == j.order
  IN  /\ order \in SimpleSpends /\ order.gift > 0
      /\ j.op \in {"base", "raise", "pool"}
      /\ AllSpend(order, sp) /\ AllKeep(order, pl)
      /\ NamesOf(order.notes) \subseteq
           NamesOf(sp) \cup NamesOf(pl) \cup (IF j.op = "base" THEN NamesOf(j.notes) ELSE {})
      /\ j.op = "base" => BaseFits(j, sp)
      /\ j.op # "base" => FeeFits(j, sp)

PayInv ==
  /\ IInv
  /\ calls = 0 => job = Idle /\ result = "none" /\ spends = << >> /\ pool = << >>
  /\ job # Idle => PaymentFits(job, spends, pool)

-----------------------------------------------------------------------------
(* Seeds of a payment.                                                     *)

LEMMA EmptySeeds ==
  /\ << >> \in Seq(Seeds) /\ Gifts(<< >>) = 0
  /\ \A lock : Others(<< >>, lock) = << >> /\ GiftsTo(<< >>, lock) = 0
<1>1. << >> \in Seq(Seeds) /\ Len(<< >>) = 0
  BY EmptySeq
<1>2. \A P : Kept(<< >>, P) = << >>
  <2> SUFFICES ASSUME NEW P PROVE Kept(<< >>, P) = << >>
    OBVIOUS
  <2>1. 1..Len(<< >>) \subseteq P
    BY <1>1
  <2> QED BY <1>1, <2>1, KeptWhole
<1>3. Gifts(<< >>) = 0
  <2>1. GiftsOf(<< >>) \in Seq(Nat) /\ Len(GiftsOf(<< >>)) = 0
    BY <1>1, GiftsOfType
  <2>2. Total(GiftsOf(<< >>)) = 0
    <3> DEFINE zs == GiftsOf(<< >>)
    <3> HIDE DEF zs
    <3>1. zs \in Seq(Nat) /\ Len(zs) = 0 /\ \A i \in 1..0 : zs[i] = 0
      BY <2>1 DEF zs
    <3>2. 0 \in Nat
      OBVIOUS
    <3>3. Total(zs) = 0
      BY <3>1, <3>2, TotalZero, Zenon
    <3> QED BY <3>3 DEF zs
  <2> QED BY <2>2 DEF Gifts, GiftsOf
<1> QED BY <1>1, <1>2, <1>3 DEF Others, GiftsTo

(* What a lock is given by one seed more.                                  *)
LEMMA GiftsToAppend ==
  ASSUME NEW seeds \in Seq(Seeds), NEW seed \in Seeds, NEW lock
  PROVE  /\ GiftsTo(seeds, lock) \in Nat
         /\ GiftsTo(Append(seeds, seed), lock) =
              GiftsTo(seeds, lock) + (IF seed.lock = lock THEN seed.gift ELSE 0)
<1> DEFINE all == Append(seeds, seed)
           N == Len(seeds)
           P == {i \in DOMAIN all : all[i].lock = lock}
           Q == {i \in DOMAIN seeds : seeds[i].lock = lock}
<1>1. /\ all \in Seq(Seeds) /\ Len(all) = N + 1 /\ all[N + 1] = seed
      /\ \A i \in 1..N : all[i] = seeds[i]
      /\ DOMAIN seeds = 1..N /\ DOMAIN all = 1..(N + 1) /\ N \in Nat
  BY AppendProperties, LenProperties
<1>2. \A i \in 1..N : i \in P <=> i \in Q
  BY <1>1
<1>3. N + 1 \in P <=> seed.lock = lock
  BY <1>1
<1> HIDE DEF P, Q
<1>4. Kept(all, P) = IF N + 1 \in P THEN Append(Kept(seeds, Q), seed) ELSE Kept(seeds, Q)
  BY <1>2, KeptAppend
<1>5. Kept(seeds, Q) \in Seq(Seeds)
  BY KeptType
<1>6. /\ Gifts(Kept(seeds, Q)) \in Nat /\ seed.gift \in Nat
      /\ Gifts(Append(Kept(seeds, Q), seed)) = Gifts(Kept(seeds, Q)) + seed.gift
  BY <1>5, GiftsType, GiftsAppend DEF Seeds
<1>7. GiftsTo(seeds, lock) = Gifts(Kept(seeds, Q)) /\ GiftsTo(all, lock) = Gifts(Kept(all, P))
  BY Zenon DEF GiftsTo, P, Q
<1> HIDE DEF all
<1>8. GiftsTo(all, lock) = GiftsTo(seeds, lock) + (IF seed.lock = lock THEN seed.gift ELSE 0)
  BY <1>3, <1>4, <1>6, <1>7
<1> QED BY <1>6, <1>7, <1>8 DEF all

LEMMA SeedsOfOne ==
  ASSUME NEW order \in Orders, NEW n \in Nat
  PROVE  /\ ChangeSeed(order, n) \in Seeds /\ GiftSeed(order, n) \in Seeds
         /\ ChangeSeed(order, n).lock = order.refund /\ ChangeSeed(order, n).gift = n
         /\ GiftSeed(order, n).lock = order.to /\ GiftSeed(order, n).gift = n
         /\ ChangeSeed(order, n).data = SeedData(order.refund, order.include, NoData)
         /\ GiftSeed(order, n).data = SeedData(order.to, order.include, order.extras)
<1>1. NoData \in NoteDatas
  BY DEF NoData, NoteDatas
<1>2. ChangeSeed(order, n) \in Seeds /\ GiftSeed(order, n) \in Seeds
  BY <1>1, OrderFields, BuildSeedType DEF ChangeSeed, GiftSeed
<1> QED BY <1>2 DEF ChangeSeed, GiftSeed, BuildSeed

(* The change, if any, is one seed in front.                               *)
LEMMA ChangeEffect ==
  ASSUME NEW order \in Orders, NEW c \in Nat
  PROVE  LET change == IF c = 0 THEN << >> ELSE <<ChangeSeed(order, c)>>
         IN  /\ change \in Seq(Seeds) /\ Gifts(change) = c
             /\ Len(change) = IF c = 0 THEN 0 ELSE 1
             /\ c # 0 => change[1] = ChangeSeed(order, c)
             /\ Others(change, order.refund) = << >>
             /\ \A l : GiftsTo(change, l) = IF l = order.refund THEN c ELSE 0
<1> DEFINE change == IF c = 0 THEN << >> ELSE <<ChangeSeed(order, c)>>
           x == ChangeSeed(order, c)
<1>1. x \in Seeds /\ x.lock = order.refund /\ x.gift = c
  BY SeedsOfOne
<1>2. CASE c = 0
  <2>1. change = << >>
    BY <1>2
  <2> HIDE DEF change
  <2> QED BY <1>2, <2>1, EmptySeeds, EmptySeq DEF change
<1>3. CASE c # 0
  <2> HIDE DEF x
  <2>1. change = Append(<< >>, x)
    BY <1>3 DEF x
  <2>2. /\ change \in Seq(Seeds) /\ Len(change) = 1 /\ change[1] = x
    <3>1. Append(<< >>, x) \in Seq(Seeds) /\ Len(Append(<< >>, x)) = Len(<< >>) + 1
          /\ Append(<< >>, x)[Len(<< >>) + 1] = x
      BY <1>1, EmptySeeds, AppendProperties
    <3>2. Len(<< >>) = 0
      BY EmptySeeds, EmptySeq
    <3> QED BY <2>1, <3>1, <3>2
  <2>3. Gifts(change) = c
    <3>1. Gifts(Append(<< >>, x)) = Gifts(<< >>) + x.gift
      BY <1>1, EmptySeeds, GiftsAppend
    <3>2. Gifts(change) = 0 + c
      BY <1>1, <2>1, <3>1, EmptySeeds
    <3> QED BY <3>2
  <2>4. Others(change, order.refund) = << >>
    BY <1>1, <2>1, EmptySeeds, OthersAppend
  <2>5. ASSUME NEW l PROVE GiftsTo(change, l) = IF l = order.refund THEN c ELSE 0
    <3>1. GiftsTo(Append(<< >>, x), l) = GiftsTo(<< >>, l) + (IF x.lock = l THEN x.gift ELSE 0)
      BY <1>1, EmptySeeds, GiftsToAppend
    <3> QED BY <1>1, <2>1, <3>1, EmptySeeds
  <2> HIDE DEF change
  <2> QED BY <1>3, <2>2, <2>3, <2>4, <2>5 DEF change, x
<1> QED BY <1>2, <1>3

LEMMA SeedsOfEffect ==
  ASSUME NEW order \in Orders, NEW c \in Nat, NEW g \in Nat, order.to = order.refund => g = 0
  PROVE  LET seeds == SeedsOf(order, c, g)
         IN  /\ seeds \in Seq(Seeds) /\ Gifts(seeds) = c + g
             /\ Others(seeds, order.refund) = SeedsOf(order, 0, g)
             /\ Gifts(SeedsOf(order, 0, g)) = g
             /\ \A l : GiftsTo(seeds, l) =
                         IF l = order.refund THEN c ELSE IF l = order.to THEN g ELSE 0
<1> DEFINE Change(n) == IF n = 0 THEN << >> ELSE <<ChangeSeed(order, n)>>
           y == GiftSeed(order, g)
<1>1. y \in Seeds /\ y.lock = order.to /\ y.gift = g
  BY SeedsOfOne
<1>2. ASSUME NEW n \in Nat
      PROVE  /\ Change(n) \in Seq(Seeds) /\ Gifts(Change(n)) = n
             /\ Others(Change(n), order.refund) = << >>
             /\ \A l : GiftsTo(Change(n), l) = IF l = order.refund THEN n ELSE 0
  BY ChangeEffect, Zenon
<1>3. Change(0) = << >>
  OBVIOUS
<1>4. \A n : SeedsOf(order, n, g) = IF g = 0 THEN Change(n) ELSE Append(Change(n), y)
  BY DEF SeedsOf
<1> HIDE DEF Change, y
<1>5. CASE g = 0
  BY <1>2, <1>3, <1>4, <1>5
<1>6. CASE g # 0
  <2>1. order.to # order.refund
    BY <1>6
  <2>2. ASSUME NEW n \in Nat
        PROVE  /\ SeedsOf(order, n, g) \in Seq(Seeds) /\ Gifts(SeedsOf(order, n, g)) = n + g
               /\ Others(SeedsOf(order, n, g), order.refund) = Append(<< >>, y)
               /\ \A l : GiftsTo(SeedsOf(order, n, g), l) =
                    IF l = order.refund THEN n ELSE IF l = order.to THEN g ELSE 0
    <3> DEFINE ch == Change(n)
    <3>1. SeedsOf(order, n, g) = Append(ch, y)
      BY <1>4, <1>6
    <3>2. /\ ch \in Seq(Seeds) /\ Gifts(ch) = n /\ Others(ch, order.refund) = << >>
          /\ \A l : GiftsTo(ch, l) = IF l = order.refund THEN n ELSE 0
      BY <1>2
    <3> HIDE DEF ch
    <3>3. Append(ch, y) \in Seq(Seeds)
      BY <1>1, <3>2, AppendProperties
    <3>4. Gifts(Append(ch, y)) = n + g
      BY <1>1, <3>2, GiftsAppend
    <3>5. Others(Append(ch, y), order.refund) = Append(<< >>, y)
      <4>1. Others(Append(ch, y), order.refund) =
              IF y.lock = order.refund THEN Others(ch, order.refund)
              ELSE Append(Others(ch, order.refund), y)
        BY <1>1, <3>2, OthersAppend
      <4> QED BY <1>1, <2>1, <3>2, <4>1
    <3>6. ASSUME NEW l
          PROVE  GiftsTo(Append(ch, y), l) =
                   IF l = order.refund THEN n ELSE IF l = order.to THEN g ELSE 0
      <4>1. GiftsTo(Append(ch, y), l) = GiftsTo(ch, l) + (IF y.lock = l THEN y.gift ELSE 0)
        BY <1>1, <3>2, GiftsToAppend
      <4> QED BY <1>1, <2>1, <3>2, <4>1
    <3> QED BY <3>1, <3>3, <3>4, <3>5, <3>6
  <2>3. SeedsOf(order, 0, g) = Append(<< >>, y)
    BY <1>3, <1>4, <1>6
  <2>4. 0 \in Nat /\ c \in Nat /\ 0 + g = g
    OBVIOUS
  <2> DEFINE seeds == SeedsOf(order, c, g)
             given == SeedsOf(order, 0, g)
  <2>5. /\ seeds \in Seq(Seeds) /\ Gifts(seeds) = c + g
        /\ Others(seeds, order.refund) = Append(<< >>, y)
        /\ \A l : GiftsTo(seeds, l) =
                    IF l = order.refund THEN c ELSE IF l = order.to THEN g ELSE 0
    BY <2>2, <2>4
  <2>6. Gifts(given) = 0 + g
    BY <2>2, <2>4
  <2> HIDE DEF seeds, given
  <2>7. Gifts(given) = g
    BY <2>4, <2>6
  <2>8. /\ seeds \in Seq(Seeds) /\ Gifts(seeds) = c + g
        /\ Others(seeds, order.refund) = given /\ Gifts(given) = g
        /\ \A l : GiftsTo(seeds, l) =
                    IF l = order.refund THEN c ELSE IF l = order.to THEN g ELSE 0
    BY <2>3, <2>5, <2>7 DEF given
  <2> QED BY <2>8 DEF seeds, given
<1> QED BY <1>5, <1>6

LEMMA RefundGiftType ==
  ASSUME NEW s \in Spends
  PROVE  RefundGift(s) \in Nat
BY CurRefundType DEF RefundGift

LEMMA GivenType ==
  ASSUME NEW s \in Spends
  PROVE  Given(s) \in Nat
<1>1. Others(s.seeds, s.refund) \in Seq(Seeds)
  BY SpendFields, OthersType
<1> QED BY <1>1, GiftsType DEF Given

(* The change is the refund the spend has, if it has any.                  *)
LEMMA ChangeIsRefund ==
  ASSUME NEW order \in Orders, NEW s \in Spends, NEW c \in Nat, NEW g \in Nat,
         Splits(order, s, c, g)
  PROVE  /\ HasRefund(s) <=> c # 0
         /\ RefundGift(s) = c /\ Given(s) = g
         /\ c # 0 => CurRefund(s).gift = c
                     /\ CurRefund(s).data = SeedData(order.refund, order.include, NoData)
         /\ Others(s.seeds, s.refund) = SeedsOf(order, 0, g)
         /\ Unspent(s) = c
<1> DEFINE change == IF c = 0 THEN << >> ELSE <<ChangeSeed(order, c)>>
           y == GiftSeed(order, g)
           n == Len(change)
<1>1. /\ s.refund = order.refund /\ s.seeds = SeedsOf(order, c, g)
      /\ s.assets = s.fee + c + g /\ (order.to = order.refund => g = 0)
  BY DEF Splits
<1>2. /\ Others(s.seeds, s.refund) = SeedsOf(order, 0, g) /\ Given(s) = g
      /\ Gifts(SeedsOf(order, 0, g)) = g
  <2>1. order \in Orders /\ c \in Nat /\ g \in Nat /\ (order.to = order.refund => g = 0)
    BY <1>1
  <2>2. /\ Others(SeedsOf(order, c, g), order.refund) = SeedsOf(order, 0, g)
        /\ Gifts(SeedsOf(order, 0, g)) = g
    <3>1. Others(SeedsOf(order, c, g), order.refund) = SeedsOf(order, 0, g)
      BY ONLY <2>1, SeedsOfEffect
    <3>2. Gifts(SeedsOf(order, 0, g)) = g
      BY ONLY <2>1, SeedsOfEffect
    <3> QED BY <3>1, <3>2
  <2>3. Others(s.seeds, s.refund) = SeedsOf(order, 0, g)
    BY <1>1, <2>2, Zenon
  <2> QED BY <2>2, <2>3, Zenon DEF Given
<1>3. Unspent(s) = c
  <2>1. s.fee \in Nat
    BY SpendFields
  <2> QED BY <1>1, <1>2, <2>1 DEF Unspent
<1>4. s.refund # NoLock
  BY <1>1, OrderFields, SpendAssumption
<1>5. /\ change \in Seq(Seeds) /\ n = (IF c = 0 THEN 0 ELSE 1)
      /\ c # 0 => change[1] = ChangeSeed(order, c)
  BY ChangeEffect, Zenon
<1>6. y \in Seeds /\ y.lock = order.to
  BY SeedsOfOne
<1>7. s.seeds = IF g = 0 THEN change ELSE Append(change, y)
  BY <1>1, Zenon DEF SeedsOf
<1> HIDE DEF change, y
<1>8. CASE c # 0
  <2> DEFINE x == ChangeSeed(order, c)
             R == RefundSeedsAt(s)
  <2>1. x.lock = order.refund /\ x.gift = c
        /\ x.data = SeedData(order.refund, order.include, NoData)
    BY SeedsOfOne
  <2>2. 1 \in DOMAIN s.seeds /\ s.seeds[1] = x /\ DOMAIN s.seeds \subseteq Nat \ {0}
    <3>1. 1 \in DOMAIN change /\ change[1] = x /\ DOMAIN change = 1..1 /\ Len(change) = 1
      <4>1. DOMAIN change = 1..Len(change)
        BY <1>5, LenProperties
      <4> QED BY <1>5, <1>8, <4>1
    <3>2. CASE g = 0
      BY <1>7, <3>1, <3>2
    <3>3. CASE g # 0
      <4>0. 1 \in 1..Len(change)
        BY <3>1
      <4> DEFINE ap == Append(change, y)
      <4>2. /\ ap \in Seq(Seeds) /\ Len(ap) = Len(change) + 1
            /\ \A i \in 1..Len(change) : ap[i] = change[i]
        <5>1. change \in Seq(Seeds) /\ y \in Seeds
          BY <1>5, <1>6
        <5> HIDE DEF n
        <5> QED BY ONLY <5>1, AppendProperties
      <4> HIDE DEF ap
      <4>3. ap \in Seq(Seeds) /\ Len(ap) = 1 + 1 /\ ap[1] = change[1]
        BY <3>1, <4>0, <4>2
      <4>1. /\ Append(change, y) \in Seq(Seeds) /\ Len(Append(change, y)) = 1 + 1
            /\ Append(change, y)[1] = change[1]
        BY <4>3 DEF ap
      <4>4. DOMAIN Append(change, y) = 1..(1 + 1)
        BY <4>1, LenProperties
      <4> QED BY <1>7, <3>1, <3>3, <4>1, <4>4
    <3> QED BY <3>2, <3>3
  <2> HIDE DEF x
  <2>3. 1 \in R /\ R \subseteq Nat \ {0}
    BY <1>1, <2>1, <2>2 DEF RefundSeedsAt
  <2> HIDE DEF R
  <2>4. (CHOOSE i \in R : \A j \in R : i <= j) = 1
    <3>1. \E i \in R : \A j \in R : i <= j
      BY <2>3
    <3>2. \A i \in R : (\A j \in R : i <= j) => i = 1
      BY <2>3
    <3> QED BY <3>1, <3>2
  <2>5. CurRefund(s) = x
    BY <2>2, <2>4 DEF CurRefund, R
  <2>6. HasRefund(s)
    BY <1>4, <2>3 DEF HasRefund, R
  <2> QED BY <1>2, <1>3, <1>8, <2>1, <2>5, <2>6 DEF RefundGift
<1>9. CASE c = 0
  <2>1. RefundSeedsAt(s) = {}
    <3>1. change = << >>
      BY <1>9 DEF change
    <3>2. CASE g = 0
      BY <1>7, <3>1, <3>2 DEF RefundSeedsAt
    <3>3. CASE g # 0
      <4>1. order.to # order.refund
        BY <1>1, <3>3
      <4>2. /\ Append(<< >>, y) \in Seq(Seeds) /\ Len(Append(<< >>, y)) = 0 + 1
            /\ Append(<< >>, y)[0 + 1] = y
        BY <1>6, EmptySeeds, EmptySeq, AppendProperties
      <4>3. DOMAIN Append(<< >>, y) = 1..1
        BY <4>2, LenProperties
      <4>4. s.seeds = Append(<< >>, y)
        BY <1>7, <3>1, <3>3
      <4>5. \A i \in DOMAIN s.seeds : s.seeds[i] = y
        BY <4>2, <4>3, <4>4
      <4> QED BY <1>1, <1>6, <4>1, <4>5 DEF RefundSeedsAt
    <3> QED BY <3>2, <3>3
  <2>2. ~ HasRefund(s)
    BY <2>1 DEF HasRefund
  <2> QED BY <1>2, <1>3, <1>9, <2>2 DEF RefundGift
<1> QED BY <1>8, <1>9

LEMMA SplitsPays ==
  ASSUME NEW order \in Orders, NEW s \in Spends, NEW c \in Nat, NEW g \in Nat,
         Splits(order, s, c, g)
  PROVE  Pays(order, s)
BY ChangeIsRefund DEF Pays

-----------------------------------------------------------------------------
(* What the builder makes of a note of a payment.                          *)

LEMMA UnsignedStays ==
  ASSUME NEW s \in Spends, s.witness.sigs = NoSigs
  PROVE  InvalidateSigs(s).witness = s.witness
<1>1. s.witness = [prims |-> s.witness.prims, proofWords |-> s.witness.proofWords,
                   sigs |-> s.witness.sigs, hax |-> s.witness.hax]
  BY SpendFields DEF Witnesses
<1>2. InvalidateSigs(s).witness = [s.witness EXCEPT !.sigs = NoSigs]
  BY DEF InvalidateSigs, Spends
<1> QED BY <1>1, <1>2

(* computeRefund leaves the gift, and gives back the rest.                 *)
LEMMA RefundGives ==
  ASSUME NEW order \in Orders, NEW s \in Spends, NEW g \in Nat,
         s.refund = order.refund, Others(s.seeds, order.refund) = SeedsOf(order, 0, g),
         s.fee + g <= s.assets, order.to = order.refund => g = 0
  PROVE  LET t == ComputeRefund(s, order.include)
         IN  /\ t \in Spends /\ t.assets = s.assets /\ t.fee = s.fee
             /\ Splits(order, t, s.assets - s.fee - g, g)
             /\ s.witness.sigs = NoSigs => t.witness = s.witness
             /\ ~ ComputeRefundThrows(s, order.include)
<1> DEFINE t == ComputeRefund(s, order.include)
           c == s.assets - s.fee - g
           w == WithoutRefund(s)
           x == ChangeSeed(order, c)
           y == GiftSeed(order, g)
<1>1. /\ order.refund \in Locks \ HashedLocks /\ order.include \in BOOLEAN
      /\ s.refund # NoLock /\ s.assets \in Nat /\ s.fee \in Nat
  BY OrderFields, SpendFields, SpendAssumption
<1>2. ~ ComputeRefundThrows(s, order.include)
  BY <1>1, KnownNeverThrows
<1>3. c \in Nat
  BY <1>1
<1>4. Unspent(s) = c
  <2>1. Gifts(SeedsOf(order, 0, g)) = g
    BY SeedsOfEffect
  <2> QED BY <1>1, <2>1 DEF Unspent
<1>5. t \in Spends
  BY <1>1, ComputeRefundType
<1>6. /\ w \in Spends /\ w.witness = InvalidateSigs(s).witness /\ w.seeds = SeedsOf(order, 0, g)
      /\ w.fee = s.fee /\ w.assets = s.assets /\ w.refund = s.refund
  BY WithoutRefundEffect, WithoutRefundType
<1>7. x \in Seeds /\ y \in Seeds /\ x = BuildSeed(s.refund, Unspent(s), order.include, NoData)
  BY <1>3, <1>4, SeedsOfOne DEF ChangeSeed
<1> HIDE DEF c, w, x, y
<1>8. CASE c = 0
  <2>1. t = w
    BY <1>1, <1>4, <1>8 DEF ComputeRefund, w
  <2>2. Splits(order, t, c, g)
    BY <1>1, <1>6, <1>8, <2>1 DEF Splits, c
  <2> HIDE DEF t
  <2>3. s.witness.sigs = NoSigs => t.witness = s.witness
    BY <1>6, <2>1, UnsignedStays
  <2> QED BY <1>2, <1>5, <1>6, <2>1, <2>2, <2>3 DEF t, c
<1>9. CASE c # 0
  <2>1. t = [w EXCEPT !.seeds = <<x>> \o @]
    BY <1>1, <1>2, <1>3, <1>4, <1>7, <1>9 DEF ComputeRefund, w
  <2> HIDE DEF t
  <2>2. /\ t.seeds = <<x>> \o SeedsOf(order, 0, g) /\ t.fee = s.fee /\ t.assets = s.assets
        /\ t.refund = s.refund /\ t.witness = InvalidateSigs(s).witness
    BY <1>6, <2>1 DEF Spends
  <2>3. <<x>> \o SeedsOf(order, 0, g) = SeedsOf(order, c, g)
    <3>1. SeedsOf(order, 0, g) = IF g = 0 THEN << >> ELSE Append(<< >>, y)
      BY DEF SeedsOf, y
    <3>2. SeedsOf(order, c, g) = IF g = 0 THEN <<x>> ELSE Append(<<x>>, y)
      BY <1>9 DEF SeedsOf, x, y
    <3>3. <<x>> \o << >> = <<x>> /\ Append(<< >>, y) = <<y>> /\ Append(<<x>>, y) = <<x>> \o <<y>>
      <4>1. <<x>> \in Seq(Seeds) /\ << >> \in Seq(Seeds) /\ <<y>> \in Seq(Seeds)
        BY <1>7
      <4>2. <<x>> \o << >> = <<x>> /\ << >> \o <<y>> = <<y>>
        BY <4>1, ConcatEmptySeq
      <4>3. Append(<< >>, y) = << >> \o <<y>> /\ Append(<<x>>, y) = <<x>> \o <<y>>
        BY <1>7, <4>1, AppendIsConcat
      <4> QED BY <4>2, <4>3
    <3> QED BY <3>1, <3>2, <3>3, Zenon
  <2>4. Splits(order, t, c, g)
    BY <1>1, <2>2, <2>3 DEF Splits, c
  <2>5. s.witness.sigs = NoSigs => t.witness = s.witness
    BY <2>2, UnsignedStays
  <2> QED BY <1>2, <1>5, <2>2, <2>4, <2>5 DEF t, c
<1> QED BY <1>8, <1>9

(* A spend of a payment whose fee is changed: the change makes up for it.  *)
LEMMA FeeChangeSplits ==
  ASSUME NEW order \in Orders, NEW s \in Spends, NEW c \in Nat, NEW g \in Nat,
         Splits(order, s, c, g), NEW sub \in Nat, sub <= c
  PROVE  LET t == FeeChanged(s, s.fee + sub, order.include)
         IN  /\ t \in Spends /\ t.assets = s.assets /\ t.fee = s.fee + sub
             /\ Splits(order, t, c - sub, g)
             /\ s.witness.sigs = NoSigs => t.witness = s.witness
             /\ ~ FeeChangeThrows(s, s.fee + sub, order.include)
<1> DEFINE fee == s.fee + sub
           r == SetFee(s, fee)
           t == ComputeRefund(r, order.include)
<1>1. s.fee \in Nat /\ fee \in Nat
  BY SpendFields
<1>2. /\ s.refund = order.refund /\ s.assets = s.fee + c + g
      /\ (order.to = order.refund => g = 0)
      /\ Others(s.seeds, order.refund) = SeedsOf(order, 0, g)
  BY ChangeIsRefund DEF Splits
<1>3. /\ r \in Spends /\ r.assets = s.assets /\ r.refund = s.refund /\ r.seeds = s.seeds
      /\ r.fee = fee
  BY <1>1, SetFeeType, SetFeeFields
<1>4. s.witness.sigs = NoSigs => r.witness = s.witness
  <2>1. r.witness = InvalidateSigs(s).witness \/ r.witness = s.witness
    BY DEF SetFee, InvalidateSigs, Spends
  <2> QED BY <2>1, UnsignedStays
<1> HIDE DEF r
<1>5. r.fee + g <= r.assets
  BY <1>1, <1>2, <1>3
<1>6. /\ t \in Spends /\ t.assets = r.assets /\ t.fee = r.fee
      /\ Splits(order, t, r.assets - r.fee - g, g)
      /\ r.witness.sigs = NoSigs => t.witness = r.witness
      /\ ~ ComputeRefundThrows(r, order.include)
  BY <1>2, <1>3, <1>5, RefundGives, Zenon
<1>7. r.assets - r.fee - g = c - sub
  BY <1>1, <1>2, <1>3
<1> HIDE DEF t
<1>8. /\ t \in Spends /\ t.assets = s.assets /\ t.fee = fee
      /\ Splits(order, t, c - sub, g)
      /\ s.witness.sigs = NoSigs => t.witness = s.witness
      /\ ~ ComputeRefundThrows(r, order.include)
  BY <1>3, <1>4, <1>6, <1>7, Zenon
<1> QED BY <1>8, Zenon DEF t, r, FeeChanged, FeeChangeThrows

LEMMA NotesOfOrder ==
  ASSUME NEW order \in Orders, NEW k \in DOMAIN order.notes
  PROVE  /\ order.notes[k] \in Notes /\ order.notes[k].name \in Names
         /\ order.notes[k].assets \in Nat /\ order.notes[k].witness \in Witnesses
         /\ order.notes[k].witness.sigs = NoSigs
         /\ order.notes \in Seq(Notes) /\ DOMAIN order.notes = 1..Len(order.notes)
<1>1. order.notes \in Seq(Notes) /\ DOMAIN order.notes = 1..Len(order.notes)
  BY OrderFields, LenProperties
<1>2. order.notes[k] \in Notes
  BY <1>1, ElementOfSeq
<1> QED BY <1>1, <1>2 DEF Notes, FreshWitnesses

(* simpleSpendBase on one note: a spend of it, or a note for the pool.     *)
LEMMA NewNote ==
  ASSUME NEW order \in Orders, NEW note \in Notes
  PROVE  LET new == NewSpend(note.assets, order.refund, note.witness)
         IN  /\ new \in Spends /\ new.assets = note.assets /\ new.refund = order.refund
             /\ new.seeds = << >> /\ new.fee = 0 /\ new.witness = note.witness
             /\ note.witness.sigs = NoSigs /\ note.name \in Names /\ note.assets \in Nat
             /\ order.refund \in Locks \ HashedLocks /\ order.refund # NoLock
<1> DEFINE new == NewSpend(note.assets, order.refund, note.witness)
<1>1. /\ note.name \in Names /\ note.assets \in Nat /\ note.witness \in Witnesses
      /\ note.witness.sigs = NoSigs
  BY DEF Notes, FreshWitnesses
<1>2. order.refund \in Locks \ HashedLocks /\ order.refund # NoLock
  BY OrderFields, SpendAssumption
<1>3. new \in Spends
  BY <1>1, <1>2, NewSpendType
<1> QED BY <1>1, <1>2, <1>3 DEF NewSpend

LEMMA NewKeeps ==
  ASSUME NEW order \in Orders, NEW note \in Notes
  PROVE  LET b == [name |-> note.name,
                   sb |-> ComputeRefund(NewSpend(note.assets, order.refund, note.witness),
                                        order.include)]
         IN  b \in Entries /\ KeepsNote(order, note, b)
<1> DEFINE new == NewSpend(note.assets, order.refund, note.witness)
           t == ComputeRefund(new, order.include)
           b == [name |-> note.name, sb |-> t]
<1>1. /\ new \in Spends /\ new.assets = note.assets /\ new.refund = order.refund
      /\ new.seeds = << >> /\ new.fee = 0 /\ new.witness = note.witness
      /\ note.witness.sigs = NoSigs /\ note.name \in Names /\ note.assets \in Nat
  BY NewNote, Zenon
<1> HIDE DEF new
<1>2. 0 \in Nat /\ Others(new.seeds, order.refund) = SeedsOf(order, 0, 0)
      /\ new.fee + 0 <= new.assets
  BY <1>1, EmptySeeds DEF SeedsOf
<1>3. /\ t \in Spends /\ t.assets = new.assets /\ t.fee = new.fee
      /\ Splits(order, t, new.assets - new.fee - 0, 0)
      /\ new.witness.sigs = NoSigs => t.witness = new.witness
  BY <1>1, <1>2, RefundGives, Zenon
<1> HIDE DEF t
<1>4. new.assets - new.fee - 0 = note.assets
  BY <1>1
<1>5. Splits(order, t, note.assets, 0)
  BY <1>3, <1>4
<1>6. Given(t) = 0 /\ Pays(order, t)
  BY <1>1, <1>2, <1>3, <1>5, ChangeIsRefund, SplitsPays
<1>7. b \in Entries /\ b.name = note.name /\ b.sb = t
  BY <1>1, <1>3 DEF Entries
<1> HIDE DEF b
<1>8. KeepsNote(order, note, b)
  BY <1>1, <1>3, <1>6, <1>7 DEF KeepsNote, SpendsNote
<1> QED BY <1>7, <1>8 DEF b, t, new

LEMMA NewSpends ==
  ASSUME NEW order \in Orders, NEW note \in Notes, NEW portion \in Nat,
         portion <= note.assets, portion > 0
  PROVE  LET new == NewSpend(note.assets, order.refund, note.witness)
             giving == AddSeed(new, BuildSeed(order.to, portion, order.include, order.extras))
             a == [name |-> note.name, sb |-> ComputeRefund(giving, order.include)]
         IN  /\ a \in Entries /\ SpendsNote(order, note, a)
             /\ a.sb.fee = 0 /\ Given(a.sb) = Away(order, portion)
<1> DEFINE new == NewSpend(note.assets, order.refund, note.witness)
           y == BuildSeed(order.to, portion, order.include, order.extras)
           giving == AddSeed(new, y)
           t == ComputeRefund(giving, order.include)
           a == [name |-> note.name, sb |-> t]
           g == Away(order, portion)
<1>1. /\ new \in Spends /\ new.assets = note.assets /\ new.refund = order.refund
      /\ new.seeds = << >> /\ new.fee = 0 /\ new.witness = note.witness
      /\ note.witness.sigs = NoSigs /\ note.name \in Names /\ note.assets \in Nat
  BY NewNote, Zenon
<1>2. y = GiftSeed(order, portion)
  BY DEF GiftSeed
<1>3. y \in Seeds /\ y.lock = order.to
  BY <1>2, SeedsOfOne
<1> HIDE DEF new, y
<1>4. /\ giving \in Spends /\ giving.assets = note.assets /\ giving.refund = order.refund
      /\ giving.seeds = Append(<< >>, y) /\ giving.fee = 0
  BY <1>1, <1>3, AddSeedType, AddSeedFields
<1>5. giving.witness = note.witness
  <2>1. giving.witness = InvalidateSigs(new).witness
    BY <1>1 DEF AddSeed, InvalidateSigs, Spends
  <2> QED BY <1>1, <2>1, UnsignedStays
<1>6. g \in Nat /\ g <= portion /\ (order.to = order.refund => g = 0)
  BY DEF Away
<1>7. Others(giving.seeds, order.refund) = SeedsOf(order, 0, g)
  <2>1. Others(Append(<< >>, y), order.refund) =
          IF y.lock = order.refund THEN Others(<< >>, order.refund)
          ELSE Append(Others(<< >>, order.refund), y)
    BY <1>3, EmptySeeds, OthersAppend
  <2>2. CASE order.to = order.refund
    BY <1>3, <1>4, <2>1, <2>2, EmptySeeds DEF Away, SeedsOf
  <2>3. CASE order.to # order.refund
    <3>1. g = portion /\ g # 0
      BY <2>3 DEF Away
    <3> HIDE DEF g
    <3>2. SeedsOf(order, 0, g) = Append(<< >>, y)
      BY <1>2, <3>1 DEF SeedsOf
    <3> QED BY <1>3, <1>4, <2>1, <2>3, <3>2, EmptySeeds
  <2> QED BY <2>2, <2>3
<1> HIDE DEF giving, g
<1>8. giving.fee + g <= giving.assets
  BY <1>1, <1>4, <1>6
<1>9. /\ t \in Spends /\ t.assets = giving.assets /\ t.fee = giving.fee
      /\ Splits(order, t, giving.assets - giving.fee - g, g)
      /\ giving.witness.sigs = NoSigs => t.witness = giving.witness
  BY <1>4, <1>6, <1>7, <1>8, RefundGives, Zenon
<1> HIDE DEF t
<1>10. giving.assets - giving.fee - g \in Nat
  BY <1>1, <1>4, <1>6
<1>11. Given(t) = g /\ Pays(order, t)
  BY <1>6, <1>9, <1>10, ChangeIsRefund, SplitsPays
<1>12. a \in Entries /\ a.name = note.name /\ a.sb = t
  BY <1>1, <1>9 DEF Entries
<1> HIDE DEF a
<1>13. SpendsNote(order, note, a)
  BY <1>1, <1>4, <1>5, <1>9, <1>11, <1>12 DEF SpendsNote
<1>14. a \in Entries /\ SpendsNote(order, note, a) /\ a.sb.fee = 0 /\ Given(a.sb) = g
  BY <1>4, <1>9, <1>11, <1>12, <1>13
<1> QED BY <1>14, Zenon DEF a, t, giving, new, y, g

-----------------------------------------------------------------------------
(* The spends of a payment by their notes.                                 *)

IsPlacing(order, xs, pos) ==
  /\ pos \in [1..Len(xs) -> 1..Len(order.notes)]
  /\ \A i \in 1..Len(xs) : SpendsNote(order, order.notes[pos[i]], xs[i])
  /\ \A i, j \in 1..Len(xs) : pos[i] = pos[j] => i = j

LEMMA PlacingExists ==
  ASSUME NEW order \in Orders, NEW xs \in Seq(Entries), NamesDiffer(xs), AllSpend(order, xs)
  PROVE  \E pos : IsPlacing(order, xs, pos)
<1> DEFINE N == Len(xs)
           M == Len(order.notes)
           pos == [i \in 1..N |-> CHOOSE k \in 1..M : SpendsNote(order, order.notes[k], xs[i])]
<1>1. DOMAIN xs = 1..N /\ DOMAIN order.notes = 1..M
  BY EntryFields, OrderFields, LenProperties
<1>2. ASSUME NEW i \in 1..N
      PROVE  pos[i] \in 1..M /\ SpendsNote(order, order.notes[pos[i]], xs[i])
  <2>1. \E k \in 1..M : SpendsNote(order, order.notes[k], xs[i])
    BY <1>1 DEF AllSpend
  <2> QED BY <2>1
<1>3. pos \in [1..N -> 1..M]
  <2> pos = [i \in 1..N |-> pos[i]]
    OBVIOUS
  <2> HIDE DEF pos
  <2> QED BY <1>2
<1>4. ASSUME NEW i \in 1..N, NEW j \in 1..N, pos[i] = pos[j] PROVE i = j
  <2> HIDE DEF pos
  <2>1. xs[i].name = xs[j].name
    BY <1>2, <1>4 DEF SpendsNote
  <2> QED BY <1>1, <2>1 DEF NamesDiffer
<1> HIDE DEF pos
<1>5. IsPlacing(order, xs, pos)
  BY <1>2, <1>3, <1>4 DEF IsPlacing
<1> QED BY <1>5

AssetsOf(xs) == [i \in 1..Len(xs) |-> xs[i].sb.assets]
NoteAssets(order) == [k \in 1..Len(order.notes) |-> order.notes[k].assets]

(* What the spent notes are worth is what the spends have.                 *)
LEMMA WorthOfSpends ==
  ASSUME NEW order \in Orders, NamesDiffer(order.notes),
         NEW xs \in Seq(Entries), NamesDiffer(xs), AllSpend(order, xs)
  PROVE  /\ NamesOf(xs) \subseteq Promise!NamesIn(order)
         /\ Promise!Worth(order, NamesOf(xs)) = Total(AssetsOf(xs))
<1> DEFINE N == Len(xs)
           M == Len(order.notes)
           us == AssetsOf(xs)
           ws == NoteAssets(order)
           names == NamesOf(xs)
           f == [k \in DOMAIN order.notes |->
                   IF order.notes[k].name \in names THEN order.notes[k].assets ELSE 0]
<1>1. PICK pos : IsPlacing(order, xs, pos)
  BY PlacingExists
<1>2. /\ N \in Nat /\ M \in Nat /\ DOMAIN xs = 1..N /\ DOMAIN order.notes = 1..M
      /\ \A k \in 1..M : order.notes[k].assets \in Nat
      /\ \A i \in 1..N : xs[i].sb.assets \in Nat
  <2>1. N \in Nat /\ DOMAIN xs = 1..N /\ \A i \in 1..N : xs[i].sb.assets \in Nat
    BY EntryFields, SpendFields
  <2>2. M \in Nat /\ DOMAIN order.notes = 1..M
    BY OrderFields, LenProperties
  <2>3. \A k \in 1..M : order.notes[k].assets \in Nat
    BY <2>2, NotesOfOrder
  <2> QED BY <2>1, <2>2, <2>3
<1>3. /\ pos \in [1..N -> 1..M]
      /\ \A i \in 1..N : /\ xs[i].name = order.notes[pos[i]].name
                         /\ xs[i].sb.assets = order.notes[pos[i]].assets
      /\ \A i, j \in 1..N : pos[i] = pos[j] => i = j
  BY <1>1 DEF IsPlacing, SpendsNote
<1>4. us \in Seq(Nat) /\ Len(us) = N /\ ws \in Seq(Nat) /\ Len(ws) = M
  <2>1. us \in [1..N -> Nat] /\ ws \in [1..M -> Nat]
    BY <1>2 DEF AssetsOf, NoteAssets
  <2> HIDE DEF us, ws, N, M
  <2> QED BY <1>2, <2>1, ListTotalType
<1>5. /\ \A i \in 1..N : us[i] = xs[i].sb.assets
      /\ \A k \in 1..M : ws[k] = order.notes[k].assets
  BY DEF AssetsOf, NoteAssets
<1>6. Total(us) = Total(TakenIn(ws, pos, N))
  <2> HIDE DEF us, ws, N, M
  <2>1. pos \in [1..Len(us) -> 1..Len(ws)]
    BY <1>3, <1>4
  <2>2. \A i \in 1..Len(us) : us[i] = ws[pos[i]]
    BY <1>3, <1>4, <1>5
  <2>3. \A i, j \in 1..Len(us) : pos[i] = pos[j] => i = j
    BY <1>3, <1>4
  <2> QED BY <1>4, <2>1, <2>2, <2>3, TotalPicked
<1>7. ASSUME NEW k \in 1..M
      PROVE  order.notes[k].name \in names <=> \E i \in 1..N : pos[i] = k
  <2>1. ASSUME NEW i \in 1..N, pos[i] = k PROVE order.notes[k].name \in names
    BY <1>2, <1>3, <2>1 DEF NamesOf
  <2>2. ASSUME NEW i \in 1..N, xs[i].name = order.notes[k].name PROVE pos[i] = k
    <3>1. pos[i] \in DOMAIN order.notes /\ k \in DOMAIN order.notes
          /\ order.notes[pos[i]].name = order.notes[k].name
      BY <1>2, <1>3, <2>2
    <3> QED BY <3>1 DEF NamesDiffer
  <2>3. order.notes[k].name \in names => \E i \in 1..N : xs[i].name = order.notes[k].name
    BY <1>2 DEF NamesOf
  <2> QED BY <2>1, <2>2, <2>3
<1>8. f = TakenIn(ws, pos, N)
  <2> HIDE DEF names, ws, N, M
  <2>1. TakenIn(ws, pos, N) = [k \in 1..M |-> IF \E i \in 1..N : pos[i] = k THEN ws[k] ELSE 0]
    BY <1>4 DEF TakenIn
  <2>2. \A k \in 1..M : (IF order.notes[k].name \in names THEN order.notes[k].assets ELSE 0)
                          = IF \E i \in 1..N : pos[i] = k THEN ws[k] ELSE 0
    BY <1>5, <1>7
  <2> QED BY <1>2, <2>1, <2>2
<1>9. Promise!Worth(order, names) = SumFunction(f)
  BY DEF Promise!Worth, Promise!SumFunction, Promise!SumFunctionOnSet,
         Promise!FoldFunctionOnSet, Promise!MapThenFoldSet,
         SumFunction, SumFunctionOnSet, FoldFunctionOnSet, MapThenFoldSet
<1>10. SumFunction(f) = Total(f)
  <2>1. f \in [1..M -> Nat]
    BY <1>2
  <2> HIDE DEF f, M
  <2> QED BY <1>2, <2>1, SumIsTotal
<1>11. names \subseteq Promise!NamesIn(order)
  <2>1. \A i \in DOMAIN xs : \E k \in DOMAIN order.notes : xs[i].name = order.notes[k].name
    BY <1>2, <1>3
  <2> QED BY <2>1 DEF NamesOf, Promise!NamesIn
<1> HIDE DEF f, us, ws, names
<1> QED BY <1>6, <1>8, <1>9, <1>10, <1>11 DEF names, us

-----------------------------------------------------------------------------
(* The fee of a payment under way stays within what its spends may cost.   *)

LEMMA PricesGrow ==
  ASSUME NEW a \in Nat, NEW b \in Nat
  PROVE  /\ SeedFee(a) \in Nat /\ WitnessFee(a) \in Nat
         /\ a <= b => SeedFee(a) <= SeedFee(b) /\ WitnessFee(a) <= WitnessFee(b)
         /\ WitnessFee(a) + WitnessFee(b) <= WitnessFee(a + b)
<1>1. CostPerWord \in Nat /\ WitnessWordDiv \in Nat \ {0}
  BY SpendAssumption
<1>2. \A n \in Nat : SeedFee(n) \in Nat /\ WitnessFee(n) \in Nat
  BY SeedFeeType, WitnessFeeType
<1>3. ASSUME NEW x \in Nat, NEW y \in Nat PROVE WitnessFee(x) + WitnessFee(y) <= WitnessFee(x + y)
  <2> DEFINE p == CostPerWord * x
             q == CostPerWord * y
  <2>1. p \in Nat /\ q \in Nat /\ CostPerWord * (x + y) = p + q
    BY <1>1
  <2> HIDE DEF p, q
  <2>2. (p \div WitnessWordDiv) + (q \div WitnessWordDiv) <= (p + q) \div WitnessWordDiv
    BY <1>1, <2>1, QuotientSum
  <2>3. /\ WitnessFee(x) = p \div WitnessWordDiv /\ WitnessFee(y) = q \div WitnessWordDiv
        /\ WitnessFee(x + y) = (p + q) \div WitnessWordDiv
    BY <2>1, Zenon DEF WitnessFee, p, q
  <2> QED BY <2>2, <2>3
<1>4. ASSUME a <= b PROVE SeedFee(a) <= SeedFee(b)
  <2>1. a * CostPerWord <= b * CostPerWord
    BY <1>1, <1>4, ProductGrows
  <2>2. SeedFee(a) = a * CostPerWord /\ SeedFee(b) = b * CostPerWord
    BY <1>1 DEF SeedFee
  <2> QED BY <2>1, <2>2
<1>5. ASSUME a <= b PROVE WitnessFee(a) <= WitnessFee(b)
  <2> DEFINE d == b - a
  <2>1. d \in Nat /\ a + d = b
    BY <1>5
  <2> HIDE DEF d
  <2>2. WitnessFee(a) + WitnessFee(d) <= WitnessFee(a + d)
    BY <1>3, <2>1
  <2>3. WitnessFee(a) \in Nat /\ WitnessFee(d) \in Nat
    BY <1>2, <2>1
  <2>4. WitnessFee(a + d) = WitnessFee(b)
    BY <2>1, Zenon
  <2>5. WitnessFee(a) + WitnessFee(d) <= WitnessFee(b)
    BY <2>2, <2>4, Zenon
  <2> DEFINE p == WitnessFee(a)
             q == WitnessFee(d)
             r == WitnessFee(b)
  <2>6. p \in Nat /\ q \in Nat /\ p + q <= r /\ r \in Nat
    BY <1>2, <2>3, <2>5
  <2> HIDE DEF p, q, r
  <2>7. p <= r
    BY <2>6
  <2> QED BY <2>7 DEF p, r
<1> QED BY <1>2, <1>3, <1>4, <1>5

RefundWords(order) == NoteDataWords(SeedData(order.refund, order.include, NoData))
GiftWords(order) == NoteDataWords(SeedData(order.to, order.include, order.extras))

LEMMA RoomType ==
  ASSUME NEW order \in Orders
  PROVE  /\ RefundWords(order) \in Nat /\ GiftWords(order) \in Nat
         /\ SeedRoom(order) = RefundWords(order) + GiftWords(order)
         /\ SeedRoom(order) \in Nat /\ SeedFee(SeedRoom(order)) \in Nat
<1> DEFINE x == ChangeSeed(order, 0)
           y == GiftSeed(order, 0)
<1>1. x \in Seeds /\ y \in Seeds
      /\ x.data = SeedData(order.refund, order.include, NoData)
      /\ y.data = SeedData(order.to, order.include, order.extras)
  BY SeedsOfOne
<1> HIDE DEF x, y
<1>2. x.data \in NoteDatas /\ y.data \in NoteDatas
  BY <1>1 DEF Seeds
<1>3. RefundWords(order) \in Nat /\ GiftWords(order) \in Nat
  BY <1>1, <1>2, NoteDataWordsType DEF RefundWords, GiftWords
<1>4. SeedRoom(order) = GiftWords(order) + RefundWords(order)
  BY Zenon DEF SeedRoom, RefundWords, GiftWords
<1>5. SeedRoom(order) \in Nat
  BY <1>3, <1>4
<1>6. SeedFee(SeedRoom(order)) \in Nat
  BY <1>5, SeedFeeType
<1> QED BY <1>3, <1>4, <1>5, <1>6

LEMMA DataWordsAppend ==
  ASSUME NEW seeds \in Seq(Seeds), NEW seed \in Seeds
  PROVE  Total(DataWords(Append(seeds, seed))) =
           Total(DataWords(seeds)) + NoteDataWords(seed.data)
<1> DEFINE all == Append(seeds, seed)
           N == Len(seeds)
           xs == DataWords(seeds)
           ys == DataWords(all)
<1>1. /\ all \in Seq(Seeds) /\ Len(all) = N + 1 /\ all[N + 1] = seed
      /\ \A i \in 1..N : all[i] = seeds[i]
  BY AppendProperties
<1> HIDE DEF all
<1>2. /\ xs \in Seq(Nat) /\ Len(xs) = N /\ N \in Nat
      /\ \A i \in 1..N : xs[i] = NoteDataWords(seeds[i].data)
  BY DataWordsType
<1>3. /\ ys \in Seq(Nat) /\ Len(ys) = N + 1
      /\ \A i \in 1..(N + 1) : ys[i] = NoteDataWords(all[i].data)
  BY <1>1, DataWordsType
<1> HIDE DEF xs, ys, N
<1>4. /\ Len(ys) = Len(xs) + 1 /\ \A i \in 1..Len(xs) : ys[i] = xs[i]
      /\ ys[N + 1] = NoteDataWords(seed.data)
  <2>1. Len(ys) = Len(xs) + 1
    BY <1>2, <1>3
  <2>2. ASSUME NEW i \in 1..Len(xs)
        PROVE  ys[i] = xs[i]
    <3>1. i \in 1..N /\ i \in 1..(N + 1)
      BY <1>2
    <3>2. ys[i] = NoteDataWords(all[i].data) /\ all[i] = seeds[i]
      BY <1>1, <1>3, <3>1, Zenon
    <3>3. xs[i] = NoteDataWords(seeds[i].data)
      BY <1>2, <3>1, Zenon
    <3> QED BY <3>2, <3>3, Zenon
  <2>3. N + 1 \in 1..(N + 1)
    BY <1>2
  <2>4. ys[N + 1] = NoteDataWords(seed.data)
    BY <1>1, <1>3, <2>3, Zenon
  <2> QED BY <2>1, <2>2, <2>4
<1>5. Total(ys) = Total(xs) + ys[N + 1]
  BY <1>2, <1>3, <1>4, TotalLonger
<1> QED BY <1>4, <1>5 DEF all, xs, ys

(* The seeds of one spend have their room.                                 *)
LEMMA SeedsHaveRoom ==
  ASSUME NEW order \in Orders, NEW s \in Spends, NEW c \in Nat, NEW g \in Nat,
         Splits(order, s, c, g)
  PROVE  SeedWords(s) \in Nat /\ SeedWords(s) <= SeedRoom(order)
<1> DEFINE x == ChangeSeed(order, c)
           y == GiftSeed(order, g)
           none == << >>
           a == RefundWords(order)
           b == GiftWords(order)
<1>1. /\ x \in Seeds /\ NoteDataWords(x.data) = a
      /\ y \in Seeds /\ NoteDataWords(y.data) = b
  BY SeedsOfOne DEF RefundWords, GiftWords
<1>2. a \in Nat /\ b \in Nat /\ SeedRoom(order) = a + b
  BY RoomType
<1>3. none \in Seq(Seeds) /\ Total(DataWords(none)) = 0
  <2>1. none \in Seq(Seeds) /\ Len(none) = 0
    BY EmptySeq
  <2> HIDE DEF none
  <2>2. DataWords(none) \in Seq(Nat) /\ Len(DataWords(none)) = 0
    BY <2>1, DataWordsType
  <2> DEFINE zs == DataWords(none)
  <2> HIDE DEF zs
  <2>3. 0 \in Nat /\ zs \in Seq(Nat) /\ Len(zs) = 0 /\ \A i \in 1..0 : zs[i] = 0
    BY <2>2 DEF zs
  <2>4. Total(zs) = 0
    BY <2>3, TotalZero, Zenon
  <2> QED BY <2>1, <2>4 DEF zs
<1>4. s.seeds = SeedsOf(order, c, g)
  BY DEF Splits
<1>5. SeedWords(s) = Total(DataWords(s.seeds))
  BY Zenon DEF SeedWords, DataWords
<1> DEFINE change == IF c = 0 THEN none ELSE Append(none, x)
<1>6. change \in Seq(Seeds) /\ Total(DataWords(change)) \in {0, a}
  <2>1. CASE c = 0
    BY <1>3, <2>1
  <2>2. CASE c # 0
    <3> HIDE DEF none, x, a
    <3>1. Append(none, x) \in Seq(Seeds)
      BY <1>1, <1>3, AppendProperties
    <3>2. Total(DataWords(Append(none, x))) = Total(DataWords(none)) + NoteDataWords(x.data)
      BY <1>1, <1>3, DataWordsAppend
    <3>3. Total(DataWords(Append(none, x))) = a
      BY <1>1, <1>2, <1>3, <3>2
    <3> QED BY <2>2, <3>1, <3>3
  <2> QED BY <2>1, <2>2
<1>7. s.seeds = IF g = 0 THEN change ELSE Append(change, y)
  <2>1. change = IF c = 0 THEN << >> ELSE <<x>>
    BY <1>1
  <2> HIDE DEF change
  <2> QED BY <1>4, <2>1 DEF SeedsOf
<1> HIDE DEF change, y, a, b
<1>8. Total(DataWords(Append(change, y))) = Total(DataWords(change)) + b
  BY <1>1, <1>6, DataWordsAppend
<1> QED BY <1>2, <1>5, <1>6, <1>7, <1>8

(* If all the seeds to a lock carry the same data, so does what they are   *)
(* merged to.                                                              *)
LEMMA MergedIsOne ==
  ASSUME NEW seeds \in Seq(Seeds), NEW lock, NEW data \in NoteDatas,
         NEW j \in DOMAIN seeds, seeds[j].lock = lock,
         \A i \in DOMAIN seeds : seeds[i].lock = lock => seeds[i].data = data
  PROVE  MergedData(seeds, lock) = data
<1>1. ASSUME NEW k \in DataKeys PROVE MergedData(seeds, lock)[k] = data[k]
  <2> DEFINE at == {i \in DOMAIN seeds : seeds[i].lock = lock /\ seeds[i].data[k] # 0}
  <2>1. MergedData(seeds, lock)[k] = IF at = {} THEN 0 ELSE seeds[Max(at)].data[k]
    BY DEF MergedData
  <2>2. CASE at # {}
    <3>1. at \subseteq 1..Len(seeds) /\ Len(seeds) \in Nat
      BY LenProperties
    <3>2. Max(at) \in at
      <4> HIDE DEF at
      <4> QED BY <2>2, <3>1, LastIsIn
    <3>3. seeds[Max(at)].data = data
      BY <3>2
    <3> HIDE DEF at
    <3> QED BY <2>1, <2>2, <3>3
  <2>3. CASE at = {}
    BY <2>1, <2>3
  <2> QED BY <2>2, <2>3
<1>2. MergedData(seeds, lock) = [k \in DataKeys |-> MergedData(seeds, lock)[k]]
  BY DEF MergedData
<1>3. data = [k \in DataKeys |-> data[k]]
  BY DEF NoteDatas
<1> QED BY <1>1, <1>2, <1>3

KnownSeeds(order) ==
  {x \in Seeds :
     \/ x.lock = order.refund /\ x.data = SeedData(order.refund, order.include, NoData)
     \/ /\ x.lock = order.to /\ order.to # order.refund
        /\ x.data = SeedData(order.to, order.include, order.extras)}

LEMMA SeedsAreKnown ==
  ASSUME NEW order \in Orders, NEW s \in Spends, NEW c \in Nat, NEW g \in Nat,
         Splits(order, s, c, g)
  PROVE  s.seeds \in Seq(KnownSeeds(order))
<1> DEFINE x == ChangeSeed(order, c)
           y == GiftSeed(order, g)
           none == << >>
           K == KnownSeeds(order)
           change == IF c = 0 THEN none ELSE Append(none, x)
<1>1. x \in K
  BY SeedsOfOne DEF KnownSeeds
<1>2. g # 0 => y \in K
  <2>1. g # 0 => order.to # order.refund
    BY DEF Splits
  <2> QED BY <2>1, SeedsOfOne DEF KnownSeeds
<1>3. s.seeds = IF g = 0 THEN change ELSE Append(change, y)
  <2>1. change = IF c = 0 THEN << >> ELSE <<x>>
    BY <1>1
  <2>2. s.seeds = SeedsOf(order, c, g)
    BY DEF Splits
  <2> HIDE DEF change
  <2> QED BY <2>1, <2>2 DEF SeedsOf
<1>4. none \in Seq(K)
  BY EmptySeq
<1> HIDE DEF x, y, K, none
<1>5. change \in Seq(K)
  BY <1>1, <1>4, AppendProperties
<1> HIDE DEF change
<1>6. g # 0 => Append(change, y) \in Seq(K)
  BY <1>2, <1>5, AppendProperties
<1> QED BY <1>3, <1>5, <1>6 DEF K

(* The seeds of all the spends have their room, merged or not.             *)
LEMMA OrderedSeedsHaveRoom ==
  ASSUME NEW order \in Orders, NEW list \in Seq(Spends), list # << >>,
         \A i \in 1..Len(list) : Pays(order, list[i])
  PROVE  SeedFee(OrderedSeedWords(list)) <= Total(RoomsOf(order, Len(list)))
<1> DEFINE N == Len(list)
           K == KnownSeeds(order)
           room == SeedRoom(order)
           price == SeedFee(room)
           rooms == RoomsOf(order, N)
           all == FlattenSeq([i \in 1..N |-> list[i].seeds])
           us == [i \in 1..N |-> SeedWords(list[i])]
           locks == {all[i].lock : i \in DOMAIN all}
           f == [l \in locks |-> NoteDataWords(MergedData(all, l))]
<1>1. /\ N \in Nat /\ N >= 1
      /\ \A i \in 1..N : list[i] \in Spends
  <2>1. N \in Nat /\ N # 0
    BY LenProperties, EmptySeq
  <2> QED BY <2>1, ElementOfSeq
<1>2. ASSUME NEW i \in 1..N
      PROVE  /\ SeedWords(list[i]) \in Nat /\ SeedWords(list[i]) <= room
             /\ list[i].seeds \in Seq(K)
  <2> DEFINE s == list[i]
             c == RefundGift(s)
             g == Given(s)
  <2>1. s \in Spends /\ Splits(order, s, c, g)
    BY <1>1 DEF Pays
  <2>2. c \in Nat /\ g \in Nat
    BY <2>1, RefundGiftType, GivenType
  <2> HIDE DEF s, c, g
  <2>3. s.seeds \in Seq(K) /\ SeedWords(s) \in Nat /\ SeedWords(s) <= room
    BY <2>1, <2>2, SeedsHaveRoom, SeedsAreKnown
  <2> QED BY <2>3 DEF s
<1>3. room \in Nat /\ price \in Nat
  BY RoomType
<1>4. rooms \in Seq(Nat) /\ Len(rooms) = N /\ \A i \in 1..N : rooms[i] = price
  <2>1. rooms \in [1..N -> Nat] /\ \A i \in 1..N : rooms[i] = price
    BY <1>3 DEF RoomsOf
  <2> HIDE DEF rooms, price, N
  <2> QED BY <1>1, <2>1, ListTotalType
<1>5. CASE EnginePatch = 0
  <2> DEFINE zs == [i \in 1..N |-> 0]
  <2>1. us \in Seq(Nat) /\ Len(us) = N /\ zs \in Seq(Nat) /\ Len(zs) = N
    <3>1. us \in [1..N -> Nat] /\ zs \in [1..N -> Nat]
      BY <1>2
    <3> HIDE DEF us, zs, N
    <3> QED BY <1>1, <3>1, ListTotalType
  <2>2. Total(zs) = 0
    <3>1. \A i \in 1..N : zs[i] = 0
      OBVIOUS
    <3> HIDE DEF zs, N
    <3> QED BY <1>1, <2>1, <3>1, TotalZero
  <2>3. ASSUME NEW i \in 1..N
        PROVE  Weighed(CostPerWord, us[i], zs[i]) <= Weighed(CostPerWord, zs[i], rooms[i])
    <3>1. SeedFee(us[i]) <= price /\ SeedFee(us[i]) \in Nat
      BY <1>2, <1>3, PricesGrow
    <3>2. CostPerWord * us[i] = SeedFee(us[i]) /\ CostPerWord * 0 = 0
      BY SpendAssumption DEF SeedFee
    <3>3. zs[i] = 0 /\ rooms[i] = price
      BY <1>4
    <3> HIDE DEF us, zs, rooms, price
    <3> QED BY <1>3, <3>1, <3>2, <3>3 DEF Weighed
  <2>4. Total(us) \in Nat /\ Total(rooms) \in Nat
    BY <1>4, <2>1, TotalType
  <2> HIDE DEF us, zs, rooms, N
  <2>5. Weighed(CostPerWord, Total(us), Total(zs)) <= Weighed(CostPerWord, Total(zs), Total(rooms))
    BY <1>1, <1>4, <2>1, <2>3, TotalsWeighed, SpendAssumption
  <2>6. CostPerWord * 0 = 0
    BY SpendAssumption
  <2>7. SeedFee(Total(us)) <= Total(rooms)
    <3>1. SeedFee(Total(us)) = CostPerWord * Total(us) /\ SeedFee(Total(us)) \in Nat
      BY <2>4, PricesGrow DEF SeedFee
    <3> DEFINE a == CostPerWord * Total(us)
    <3>2. a + 0 <= 0 + Total(rooms)
      BY <2>2, <2>5, <2>6, Zenon DEF Weighed
    <3> HIDE DEF a
    <3>3. a \in Nat
      BY <3>1 DEF a
    <3>4. a <= Total(rooms)
      BY <2>4, <3>2, <3>3
    <3> QED BY <3>1, <3>4 DEF a
  <2>8. OrderedSeedWords(list) = Total(us)
    BY <1>5 DEF OrderedSeedWords, us, N
  <2> QED BY <2>7, <2>8 DEF rooms, N
<1>6. CASE EnginePatch # 0
  <2>1. all \in Seq(K)
    <3> DEFINE lists == [i \in 1..N |-> list[i].seeds]
    <3>1. lists \in Seq(Seq(K))
      BY <1>1, <1>2, IsASeq
    <3> HIDE DEF lists
    <3>2. FlattenSeq(lists) \in Seq(K)
      BY <3>1, FlattenSeqType
    <3> QED BY <3>2 DEF lists
  <2> HIDE DEF all
  <2> DEFINE a == RefundWords(order)
             b == GiftWords(order)
             d == SeedData(order.refund, order.include, NoData)
             e == SeedData(order.to, order.include, order.extras)
  <2>2. a \in Nat /\ b \in Nat /\ room = a + b
    BY RoomType
  <2>3. \A i \in DOMAIN all : all[i] \in K
    BY <2>1, LenProperties, ElementOfSeq
  <2>4. d \in NoteDatas /\ e \in NoteDatas
    <3>1. 0 \in Nat
      OBVIOUS
    <3>2. /\ ChangeSeed(order, 0) \in Seeds /\ GiftSeed(order, 0) \in Seeds
          /\ ChangeSeed(order, 0).data = d /\ GiftSeed(order, 0).data = e
      BY <3>1, SeedsOfOne
    <3> HIDE DEF d, e
    <3> QED BY <3>2 DEF Seeds
  <2>5. all \in Seq(Seeds)
    <3>1. K \subseteq Seeds
      BY DEF KnownSeeds
    <3>2. Len(all) \in Nat /\ all \in [1..Len(all) -> K]
      BY <2>1, LenProperties
    <3> HIDE DEF K
    <3>3. all \in [1..Len(all) -> Seeds]
      BY <3>1, <3>2
    <3> QED BY <3>2, <3>3, SeqDef
  <2>6. locks \subseteq {order.refund, order.to}
    BY <2>3 DEF KnownSeeds
  <2>7. ASSUME NEW l \in locks
        PROVE  /\ l = order.refund => NoteDataWords(MergedData(all, l)) = a
               /\ l # order.refund => NoteDataWords(MergedData(all, l)) = b
    <3>1. PICK j \in DOMAIN all : all[j].lock = l
      OBVIOUS
    <3>2. CASE l = order.refund
      <4>1. \A i \in DOMAIN all : all[i].lock = l => all[i].data = d
        BY <2>3, <3>2 DEF KnownSeeds
      <4> HIDE DEF d, e, locks
      <4>2. MergedData(all, l) = d
        BY <2>4, <2>5, <3>1, <4>1, MergedIsOne
      <4> QED BY <3>2, <4>2, Zenon DEF RefundWords, d
    <3>3. CASE l # order.refund
      <4>1. l = order.to
        BY <2>6, <3>3
      <4>2. \A i \in DOMAIN all : all[i].lock = l => all[i].data = e
        BY <2>3, <3>3, <4>1 DEF KnownSeeds
      <4> HIDE DEF d, e, locks
      <4>3. MergedData(all, l) = e
        BY <2>4, <2>5, <3>1, <4>2, MergedIsOne
      <4> QED BY <3>3, <4>3, Zenon DEF GiftWords, e
    <3> QED BY <3>2, <3>3
  <2> HIDE DEF locks, a, b, d, e, room
  <2>8. f \in [locks -> Nat]
    BY <2>2, <2>7
  <2>9. /\ order.refund \in locks => f[order.refund] <= a
        /\ order.to \in locks /\ order.to # order.refund => f[order.to] <= b
    BY <2>2, <2>7
  <2>10. SumFunction(f) <= room /\ SumFunction(f) \in Nat
    <3>1. IsFiniteSet({order.refund} \cup {order.to})
      <4>1. IsFiniteSet({order.refund}) /\ IsFiniteSet({order.to})
        BY FS_Singleton
      <4> QED BY <4>1, FS_Union
    <3>2. IsFiniteSet(locks)
      BY <2>6, <3>1, FS_Subset
    <3> HIDE DEF f
    <3>3. SumFunction(f) <= a + b
      BY <2>2, <2>6, <2>8, <2>9, SumOfTwo
    <3>4. SumFunction(f) \in Nat
      BY <2>8, <3>2, SumFunctionType
    <3> QED BY <2>2, <3>3, <3>4
  <2>11. OrderedSeedWords(list) = SumFunction(f)
    BY <1>6 DEF OrderedSeedWords, all, locks, N
  <2> HIDE DEF f
  <2>12. SeedFee(SumFunction(f)) <= price
    BY <1>3, <2>10, PricesGrow
  <2>13. price <= Total(rooms)
    <3> DEFINE zs == [i \in 1..N |-> 0]
    <3>1. zs \in Seq(Nat) /\ Len(zs) = N /\ \A i \in 1..N : zs[i] = 0
      <4>1. zs \in [1..N -> Nat] /\ \A i \in 1..N : zs[i] = 0
        OBVIOUS
      <4> HIDE DEF zs, N
      <4> QED BY <1>1, <4>1, ListTotalType
    <3> HIDE DEF zs, rooms, price, N
    <3>2. 1 \in 1..N /\ zs[1] + price <= rooms[1] /\ \A i \in 1..N : zs[i] <= rooms[i]
      BY <1>1, <1>3, <1>4, <3>1
    <3>3. Total(zs) + price <= Total(rooms)
      BY <1>1, <1>3, <1>4, <3>1, <3>2, TotalLess
    <3>4. Total(zs) = 0
      BY <1>1, <3>1, TotalZero
    <3>5. Total(rooms) \in Nat
      BY <1>4, TotalType
    <3> QED BY <1>3, <3>3, <3>4, <3>5
  <2>14. SeedFee(SumFunction(f)) \in Nat /\ Total(rooms) \in Nat
    BY <1>4, <2>10, PricesGrow, TotalType
  <2> HIDE DEF rooms, price
  <2>15. SeedFee(SumFunction(f)) <= Total(rooms)
    BY <1>3, <2>12, <2>13, <2>14
  <2> QED BY <2>11, <2>15 DEF rooms, N
<1> QED BY <1>5, <1>6

LEMMA SameWitnessSameCost ==
  ASSUME NEW s, NEW t, s.witness = t.witness
  PROVE  WitnessWords(s) = WitnessWords(t) /\ MissingUnlocksFee(s) = MissingUnlocksFee(t)
<1>1. SignedBy(s) = SignedBy(t)
  BY DEF SignedBy
<1>2. \A i : MissingSigs(s, i) = MissingSigs(t, i)
  BY <1>1, Zenon DEF MissingSigs
<1>3. WitnessWords(s) = WitnessWords(t)
  BY <1>1, Zenon DEF WitnessWords
<1>4. [i \in DOMAIN s.witness.prims |->
         (CostPerWord * SigWords * MissingSigs(s, i)) \div WitnessWordDiv]
      = [i \in DOMAIN t.witness.prims |->
           (CostPerWord * SigWords * MissingSigs(t, i)) \div WitnessWordDiv]
  BY <1>2, Zenon
<1> QED BY <1>3, <1>4, Zenon DEF MissingUnlocksFee

LEMMA BoundParts ==
  ASSUME NEW order \in Orders, NEW xs \in Seq(Entries)
  PROVE  /\ Len(xs) \in Nat
         /\ RoomsOf(order, Len(xs)) \in Seq(Nat) /\ Len(RoomsOf(order, Len(xs))) = Len(xs)
         /\ WordsOf(xs) \in Seq(Nat) /\ Len(WordsOf(xs)) = Len(xs)
         /\ MissingOf(xs) \in Seq(Nat) /\ Len(MissingOf(xs)) = Len(xs)
         /\ \A i \in 1..Len(xs) : /\ RoomsOf(order, Len(xs))[i] = SeedFee(SeedRoom(order))
                                  /\ WordsOf(xs)[i] = WitnessWords(xs[i].sb)
                                  /\ MissingOf(xs)[i] = MissingUnlocksFee(xs[i].sb)
         /\ Total(RoomsOf(order, Len(xs))) \in Nat /\ Total(WordsOf(xs)) \in Nat
         /\ WitnessFee(Total(WordsOf(xs))) \in Nat /\ Total(MissingOf(xs)) \in Nat
         /\ FeeBound(order, xs) \in Nat
<1> DEFINE N == Len(xs)
           p == RoomsOf(order, N)
           q == WordsOf(xs)
           r == MissingOf(xs)
<1>1. N \in Nat /\ \A i \in 1..N : xs[i].sb \in Spends
  BY EntryFields
<1>2. \A i \in 1..N : WitnessWords(xs[i].sb) \in Nat /\ MissingUnlocksFee(xs[i].sb) \in Nat
  BY <1>1, WitnessWordsType, MissingUnlocksFeeType
<1>3. SeedFee(SeedRoom(order)) \in Nat
  BY RoomType
<1>4. /\ p \in [1..N -> Nat] /\ q \in [1..N -> Nat] /\ r \in [1..N -> Nat]
      /\ \A i \in 1..N : /\ p[i] = SeedFee(SeedRoom(order))
                         /\ q[i] = WitnessWords(xs[i].sb)
                         /\ r[i] = MissingUnlocksFee(xs[i].sb)
  BY <1>2, <1>3 DEF RoomsOf, WordsOf, MissingOf
<1> HIDE DEF p, q, r, N
<1>5. /\ p \in Seq(Nat) /\ Len(p) = N /\ Total(p) \in Nat
      /\ q \in Seq(Nat) /\ Len(q) = N /\ Total(q) \in Nat
      /\ r \in Seq(Nat) /\ Len(r) = N /\ Total(r) \in Nat
  BY <1>1, <1>4, ListTotalType
<1>6. WitnessFee(Total(q)) \in Nat /\ MinFee \in Nat
  BY <1>5, PricesGrow, SpendAssumption
<1>7. MinFee + Total(p) + WitnessFee(Total(q)) + Total(r) \in Nat
  BY <1>5, <1>6
<1>8. FeeBound(order, xs) = MinFee + Total(p) + WitnessFee(Total(q)) + Total(r)
  BY Zenon DEF FeeBound, p, q, r, N
<1> QED BY <1>1, <1>4, <1>5, <1>6, <1>7, <1>8 DEF p, q, r, N

LEMMA CalcFeeWithin ==
  ASSUME NEW order \in Orders, NEW xs \in Seq(Entries), xs # << >>, AllSpend(order, xs)
  PROVE  CalcFee(xs) <= FeeBound(order, xs)
<1> DEFINE N == Len(xs)
           list == SpendsOf(xs)
           p == RoomsOf(order, N)
           q == WordsOf(xs)
           r == MissingOf(xs)
           a == SeedFee(OrderedSeedWords(list))
           w == WitnessFee(Total(q))
<1>1. N \in Nat /\ N # 0 /\ DOMAIN xs = 1..N /\ \A i \in 1..N : xs[i].sb \in Spends
  BY EntryFields, EmptySeq
<1>2. list \in Seq(Spends) /\ Len(list) = N /\ \A i \in 1..N : list[i] = xs[i].sb
  BY <1>1, IsASeq DEF SpendsOf
<1>3. q = [i \in 1..Len(list) |-> WitnessWords(list[i])]
  BY <1>2 DEF WordsOf
<1>4. \A i \in 1..N : Pays(order, list[i])
  BY <1>1, <1>2 DEF AllSpend, SpendsNote
<1> HIDE DEF list
<1>5. list # << >>
  BY <1>1, <1>2, EmptySeq
<1>6. a <= Total(p)
  BY <1>2, <1>4, <1>5, OrderedSeedsHaveRoom
<1>7. CalcFee(xs) = LargerOf(LargerOf(a + w, MinFee) + Total(r), MinFee)
  BY <1>3, Zenon DEF CalcFee, CalcFeeFromSpends, MissingOf, list
<1>8. Total(p) \in Nat /\ w \in Nat /\ Total(r) \in Nat /\ MinFee \in Nat
  BY BoundParts, SpendAssumption
<1>9. a \in Nat
  BY <1>2, OrderedSeedWordsType, PricesGrow
<1>10. FeeBound(order, xs) = MinFee + Total(p) + w + Total(r)
  BY Zenon DEF FeeBound
<1> HIDE DEF a, w, p, q, r
<1> QED BY <1>6, <1>7, <1>8, <1>9, <1>10 DEF LargerOf

(* One spend more may cost so much more.                                   *)
LEMMA BoundGrows ==
  ASSUME NEW order \in Orders, NEW xs \in Seq(Entries), NEW e \in Entries
  PROVE  FeeBound(order, xs) + SeedFee(SeedRoom(order)) + WitnessFee(WitnessWords(e.sb))
           + MissingUnlocksFee(e.sb) <= FeeBound(order, Append(xs, e))
<1> DEFINE N == Len(xs)
           ys == Append(xs, e)
           p == RoomsOf(order, N)
           q == WordsOf(xs)
           r == MissingOf(xs)
           p2 == RoomsOf(order, Len(ys))
           q2 == WordsOf(ys)
           r2 == MissingOf(ys)
           room == SeedFee(SeedRoom(order))
           words == WitnessWords(e.sb)
           missing == MissingUnlocksFee(e.sb)
<1>1. /\ ys \in Seq(Entries) /\ Len(ys) = N + 1 /\ ys[N + 1] = e
      /\ \A i \in 1..N : ys[i] = xs[i]
  BY AppendProperties
<1> HIDE DEF ys
<1>2. /\ N \in Nat /\ p \in Seq(Nat) /\ Len(p) = N /\ q \in Seq(Nat) /\ Len(q) = N
      /\ r \in Seq(Nat) /\ Len(r) = N
      /\ \A i \in 1..N : /\ p[i] = room /\ q[i] = WitnessWords(xs[i].sb)
                         /\ r[i] = MissingUnlocksFee(xs[i].sb)
      /\ Total(p) \in Nat /\ Total(q) \in Nat /\ Total(r) \in Nat
  BY BoundParts
<1>3. /\ p2 \in Seq(Nat) /\ Len(p2) = N + 1 /\ q2 \in Seq(Nat) /\ Len(q2) = N + 1
      /\ r2 \in Seq(Nat) /\ Len(r2) = N + 1
      /\ \A i \in 1..(N + 1) : /\ p2[i] = room /\ q2[i] = WitnessWords(ys[i].sb)
                               /\ r2[i] = MissingUnlocksFee(ys[i].sb)
  BY <1>1, BoundParts
<1>4. room \in Nat /\ words \in Nat /\ missing \in Nat /\ MinFee \in Nat
  <2>1. e.sb \in Spends
    BY DEF Entries
  <2> QED BY <2>1, RoomType, WitnessWordsType, MissingUnlocksFeeType, SpendAssumption
<1>5. /\ FeeBound(order, xs) = MinFee + Total(p) + WitnessFee(Total(q)) + Total(r)
      /\ FeeBound(order, ys) = MinFee + Total(p2) + WitnessFee(Total(q2)) + Total(r2)
  BY Zenon DEF FeeBound
<1> HIDE DEF p, q, r, p2, q2, r2, room, words, missing, N
<1>6. /\ Total(p2) = Total(p) + room
      /\ Total(q2) = Total(q) + words
      /\ Total(r2) = Total(r) + missing
  <2>1. N + 1 \in 1..(N + 1) /\ \A i \in 1..N : i \in 1..(N + 1)
    BY <1>2
  <2>2. Total(p2) = Total(p) + p2[N + 1]
    <3>1. /\ p \in Seq(Nat) /\ p2 \in Seq(Nat) /\ Len(p2) = Len(p) + 1 /\ Len(p) = N
          /\ \A i \in 1..Len(p) : p2[i] = p[i]
      BY <1>1, <1>2, <1>3, <2>1
    <3>2. Total(p2) = Total(p) + p2[Len(p) + 1]
      BY ONLY <3>1, TotalLonger
    <3> QED BY <3>1, <3>2
  <2>3. Total(q2) = Total(q) + q2[N + 1]
    <3>1. /\ q \in Seq(Nat) /\ q2 \in Seq(Nat) /\ Len(q2) = Len(q) + 1 /\ Len(q) = N
          /\ \A i \in 1..Len(q) : q2[i] = q[i]
      BY <1>1, <1>2, <1>3, <2>1
    <3>2. Total(q2) = Total(q) + q2[Len(q) + 1]
      BY ONLY <3>1, TotalLonger
    <3> QED BY <3>1, <3>2
  <2>4. Total(r2) = Total(r) + r2[N + 1]
    <3>1. /\ r \in Seq(Nat) /\ r2 \in Seq(Nat) /\ Len(r2) = Len(r) + 1 /\ Len(r) = N
          /\ \A i \in 1..Len(r) : r2[i] = r[i]
      BY <1>1, <1>2, <1>3, <2>1
    <3>2. Total(r2) = Total(r) + r2[Len(r) + 1]
      BY ONLY <3>1, TotalLonger
    <3> QED BY <3>1, <3>2
  <2>5. p2[N + 1] = room /\ q2[N + 1] = words /\ r2[N + 1] = missing
    BY <1>1, <1>3, <2>1 DEF words, missing
  <2> QED BY <2>2, <2>3, <2>4, <2>5
<1> DEFINE t == Total(q)
           a == WitnessFee(t)
           b == WitnessFee(words)
           c == WitnessFee(t + words)
<1>7. a \in Nat /\ b \in Nat /\ c \in Nat /\ a + b <= c
  <2>1. t \in Nat /\ words \in Nat
    BY <1>2, <1>4
  <2> HIDE DEF t
  <2>2. t + words \in Nat
    BY <2>1
  <2> QED BY <2>1, <2>2, PricesGrow
<1>8. WitnessFee(Total(q2)) = c
  BY <1>6, Zenon
<1> HIDE DEF a, b, c
<1>9. /\ FeeBound(order, xs) = MinFee + Total(p) + a + Total(r)
      /\ FeeBound(order, ys) = MinFee + (Total(p) + room) + c + (Total(r) + missing)
  BY <1>5, <1>6, <1>8 DEF a
<1> HIDE DEF t
<1>10. FeeBound(order, xs) + room + b + missing <= FeeBound(order, ys)
  <2> DEFINE x == FeeBound(order, xs)
             y == FeeBound(order, ys)
             k == Total(p)
             l == Total(r)
  <2>1. x = MinFee + k + a + l /\ y = MinFee + (k + room) + c + (l + missing)
    BY <1>9
  <2>2. k \in Nat /\ l \in Nat
    BY <1>2
  <2> HIDE DEF x, y, k, l
  <2>3. x + room + b + missing <= y
    BY <1>4, <1>7, <2>1, <2>2
  <2> QED BY <2>3, Zenon DEF x, y
<1> QED BY <1>10, Zenon DEF ys, room, words, missing, b

LEMMA BoundSame ==
  ASSUME NEW order, NEW xs \in Seq(Entries), NEW ys \in Seq(Entries), Len(ys) = Len(xs),
         \A i \in 1..Len(xs) : ys[i].sb.witness = xs[i].sb.witness
  PROVE  FeeBound(order, ys) = FeeBound(order, xs)
<1>1. \A i \in 1..Len(xs) : /\ WitnessWords(ys[i].sb) = WitnessWords(xs[i].sb)
                            /\ MissingUnlocksFee(ys[i].sb) = MissingUnlocksFee(xs[i].sb)
  BY SameWitnessSameCost
<1>2. WordsOf(ys) = WordsOf(xs) /\ MissingOf(ys) = MissingOf(xs)
  BY <1>1 DEF WordsOf, MissingOf
<1> QED BY <1>2, Zenon DEF FeeBound

(* A payment cannot cost more than if it spent every note.                 *)
LEMMA BoundIsMost ==
  ASSUME NEW order \in Orders, order.preimage = NoPreimage,
         NEW xs \in Seq(Entries), NamesDiffer(xs), AllSpend(order, xs)
  PROVE  FeeBound(order, xs) <= MostFee(order) /\ MostFee(order) \in Nat
<1> DEFINE N == Len(xs)
           M == Len(order.notes)
           new == [i \in 1..M |->
                     NewSpend(order.notes[i].assets, order.refund, order.notes[i].witness)]
           p == RoomsOf(order, N)
           q == WordsOf(xs)
           r == MissingOf(xs)
           p2 == [i \in 1..M |-> SeedFee(SeedRoom(order))]
           q2 == [i \in 1..M |-> WitnessWords(new[i])]
           r2 == [i \in 1..M |-> MissingUnlocksFee(new[i])]
<1>1. PICK pos : IsPlacing(order, xs, pos)
  BY PlacingExists
<1>2. M \in Nat /\ DOMAIN order.notes = 1..M
  BY OrderFields, LenProperties
<1>3. ASSUME NEW k \in 1..M
      PROVE  /\ new[k] \in Spends /\ new[k].witness = order.notes[k].witness
             /\ WitnessWords(new[k]) \in Nat /\ MissingUnlocksFee(new[k]) \in Nat
  <2> DEFINE note == order.notes[k]
             s == NewSpend(note.assets, order.refund, note.witness)
  <2>1. note \in Notes
    BY <1>2, NotesOfOrder
  <2> HIDE DEF note
  <2>2. s \in Spends /\ s.witness = note.witness
    BY <2>1, NewNote, Zenon
  <2> HIDE DEF s
  <2>3. WitnessWords(s) \in Nat /\ MissingUnlocksFee(s) \in Nat
    BY <2>2, WitnessWordsType, MissingUnlocksFeeType
  <2>4. new[k] = s
    BY DEF s, note
  <2> HIDE DEF new
  <2> QED BY <2>2, <2>3, <2>4 DEF note
<1> HIDE DEF new
<1>4. SeedFee(SeedRoom(order)) \in Nat /\ MinFee \in Nat
  BY RoomType, SpendAssumption
<1>5. /\ p2 \in Seq(Nat) /\ Len(p2) = M /\ Total(p2) \in Nat
      /\ q2 \in Seq(Nat) /\ Len(q2) = M /\ Total(q2) \in Nat
      /\ r2 \in Seq(Nat) /\ Len(r2) = M /\ Total(r2) \in Nat
  <2>1. p2 \in [1..M -> Nat] /\ q2 \in [1..M -> Nat] /\ r2 \in [1..M -> Nat]
    BY <1>3, <1>4
  <2> HIDE DEF p2, q2, r2, M
  <2> QED BY <1>2, <2>1, ListTotalType
<1>6. /\ N \in Nat /\ p \in Seq(Nat) /\ Len(p) = N /\ q \in Seq(Nat) /\ Len(q) = N
      /\ r \in Seq(Nat) /\ Len(r) = N
      /\ \A i \in 1..N : /\ p[i] = SeedFee(SeedRoom(order)) /\ q[i] = WitnessWords(xs[i].sb)
                         /\ r[i] = MissingUnlocksFee(xs[i].sb)
      /\ Total(p) \in Nat /\ Total(q) \in Nat /\ Total(r) \in Nat
  BY BoundParts
<1>7. /\ pos \in [1..N -> 1..M]
      /\ \A i \in 1..N : xs[i].sb.witness = order.notes[pos[i]].witness
      /\ \A i, j \in 1..N : pos[i] = pos[j] => i = j
  BY <1>1 DEF IsPlacing, SpendsNote
<1>8. ASSUME NEW i \in 1..N
      PROVE  p[i] = p2[pos[i]] /\ q[i] = q2[pos[i]] /\ r[i] = r2[pos[i]]
  <2> DEFINE k == pos[i]
  <2>1. k \in 1..M /\ xs[i].sb.witness = new[k].witness
    BY <1>3, <1>7
  <2>2. /\ WitnessWords(xs[i].sb) = WitnessWords(new[k])
        /\ MissingUnlocksFee(xs[i].sb) = MissingUnlocksFee(new[k])
    BY <2>1, SameWitnessSameCost
  <2>3. /\ p2[k] = SeedFee(SeedRoom(order)) /\ q2[k] = WitnessWords(new[k])
        /\ r2[k] = MissingUnlocksFee(new[k])
    BY <2>1
  <2> HIDE DEF p2, q2, r2, p, q, r, k
  <2> QED BY <1>6, <2>2, <2>3 DEF k
<1>9. MostFee(order) = MinFee + Total(p2) + WitnessFee(Total(q2)) + Total(r2)
  BY Zenon DEF MostFee, new
<1>10. FeeBound(order, xs) = MinFee + Total(p) + WitnessFee(Total(q)) + Total(r)
  BY Zenon DEF FeeBound
<1> HIDE DEF p, q, r, p2, q2, r2, N, M
<1>11. Total(p) <= Total(p2)
  <2>1. /\ p \in Seq(Nat) /\ p2 \in Seq(Nat) /\ pos \in [1..Len(p) -> 1..Len(p2)]
        /\ \A i \in 1..Len(p) : p[i] = p2[pos[i]]
        /\ \A i, j \in 1..Len(p) : pos[i] = pos[j] => i = j
    BY <1>5, <1>6, <1>7, <1>8
  <2> QED BY ONLY <2>1, TotalPickedAtMost
<1>12. Total(q) <= Total(q2)
  <2>1. /\ q \in Seq(Nat) /\ q2 \in Seq(Nat) /\ pos \in [1..Len(q) -> 1..Len(q2)]
        /\ \A i \in 1..Len(q) : q[i] = q2[pos[i]]
        /\ \A i, j \in 1..Len(q) : pos[i] = pos[j] => i = j
    BY <1>5, <1>6, <1>7, <1>8
  <2> QED BY ONLY <2>1, TotalPickedAtMost
<1>13. Total(r) <= Total(r2)
  <2>1. /\ r \in Seq(Nat) /\ r2 \in Seq(Nat) /\ pos \in [1..Len(r) -> 1..Len(r2)]
        /\ \A i \in 1..Len(r) : r[i] = r2[pos[i]]
        /\ \A i, j \in 1..Len(r) : pos[i] = pos[j] => i = j
    BY <1>5, <1>6, <1>7, <1>8
  <2> QED BY ONLY <2>1, TotalPickedAtMost
<1>14. /\ WitnessFee(Total(q)) <= WitnessFee(Total(q2))
       /\ WitnessFee(Total(q)) \in Nat /\ WitnessFee(Total(q2)) \in Nat
  BY <1>5, <1>6, <1>12, PricesGrow
<1> DEFINE a == Total(p)
           w == WitnessFee(Total(q))
           u == Total(r)
           a2 == Total(p2)
           w2 == WitnessFee(Total(q2))
           u2 == Total(r2)
<1>15. /\ a \in Nat /\ w \in Nat /\ u \in Nat /\ a2 \in Nat /\ w2 \in Nat /\ u2 \in Nat
       /\ MinFee \in Nat /\ a <= a2 /\ w <= w2 /\ u <= u2
  BY <1>4, <1>5, <1>6, <1>11, <1>13, <1>14, Zenon
<1>16. MostFee(order) = MinFee + a2 + w2 + u2 /\ FeeBound(order, xs) = MinFee + a + w + u
  BY <1>9, <1>10, Zenon
<1> HIDE DEF a, w, u, a2, w2, u2
<1>17. MinFee + a + w + u <= MinFee + a2 + w2 + u2 /\ MinFee + a2 + w2 + u2 \in Nat
  BY ONLY <1>15
<1> QED BY <1>16, <1>17, Zenon

-----------------------------------------------------------------------------
(* What the spends of a payment have is their fees, the change and what is *)
(* given away, and each lock is given its part.                            *)

RefundsOf(xs) == [i \in 1..Len(xs) |-> RefundGift(xs[i].sb)]
GivensOf(xs) == [i \in 1..Len(xs) |-> Given(xs[i].sb)]
FeesOf(xs) == [i \in 1..Len(xs) |-> xs[i].sb.fee]
Change(xs) == Total(RefundsOf(xs))

LEMMA SpendParts ==
  ASSUME NEW xs \in Seq(Entries)
  PROVE  /\ Len(xs) \in Nat /\ DOMAIN xs = 1..Len(xs)
         /\ \A i \in 1..Len(xs) : /\ xs[i].sb \in Spends
                                  /\ RefundsOf(xs)[i] = RefundGift(xs[i].sb)
                                  /\ GivensOf(xs)[i] = Given(xs[i].sb)
                                  /\ FeesOf(xs)[i] = xs[i].sb.fee
         /\ RefundsOf(xs) \in Seq(Nat) /\ Len(RefundsOf(xs)) = Len(xs)
         /\ GivensOf(xs) \in Seq(Nat) /\ Len(GivensOf(xs)) = Len(xs)
         /\ FeesOf(xs) \in Seq(Nat) /\ Len(FeesOf(xs)) = Len(xs)
         /\ AwayTotal(xs) = Total(GivensOf(xs)) /\ AwayTotal(xs) \in Nat
         /\ CurFee(xs) = Total(FeesOf(xs)) /\ CurFee(xs) \in Nat
         /\ Change(xs) \in Nat
<1> DEFINE N == Len(xs)
           p == RefundsOf(xs)
           q == GivensOf(xs)
           r == FeesOf(xs)
<1>1. N \in Nat /\ DOMAIN xs = 1..N /\ \A i \in 1..N : xs[i].sb \in Spends
  BY EntryFields
<1>2. \A i \in 1..N : /\ RefundGift(xs[i].sb) \in Nat /\ Given(xs[i].sb) \in Nat
                      /\ xs[i].sb.fee \in Nat
  BY <1>1, RefundGiftType, GivenType, SpendFields
<1>3. /\ p \in [1..N -> Nat] /\ q \in [1..N -> Nat] /\ r \in [1..N -> Nat]
      /\ \A i \in 1..N : /\ p[i] = RefundGift(xs[i].sb) /\ q[i] = Given(xs[i].sb)
                         /\ r[i] = xs[i].sb.fee
  BY <1>2 DEF RefundsOf, GivensOf, FeesOf
<1>4. AwayTotal(xs) = Total(q) /\ CurFee(xs) = Total(r) /\ Change(xs) = Total(p)
  BY Zenon DEF AwayTotal, GivensOf, CurFee, FeesOf, Change
<1> HIDE DEF p, q, r, N
<1>5. /\ p \in Seq(Nat) /\ Len(p) = N /\ Total(p) \in Nat
      /\ q \in Seq(Nat) /\ Len(q) = N /\ Total(q) \in Nat
      /\ r \in Seq(Nat) /\ Len(r) = N /\ Total(r) \in Nat
  BY <1>1, <1>3, ListTotalType
<1> QED BY <1>1, <1>3, <1>4, <1>5 DEF p, q, r, N

LEMMA SpendSplits ==
  ASSUME NEW order \in Orders, NEW s \in Spends, Pays(order, s)
  PROVE  /\ RefundGift(s) \in Nat /\ Given(s) \in Nat /\ s.fee \in Nat
         /\ Splits(order, s, RefundGift(s), Given(s))
         /\ s.assets = s.fee + RefundGift(s) + Given(s)
         /\ s.refund = order.refund
         /\ HasRefund(s) <=> RefundGift(s) # 0
         /\ \A l : GiftsTo(s.seeds, l) =
                     IF l = order.refund THEN RefundGift(s)
                     ELSE IF l = order.to THEN Given(s) ELSE 0
<1> DEFINE c == RefundGift(s)
           g == Given(s)
<1>1. c \in Nat /\ g \in Nat /\ s.fee \in Nat
  BY RefundGiftType, GivenType, SpendFields
<1>2. Splits(order, s, c, g)
  BY DEF Pays
<1> HIDE DEF c, g
<1>3. /\ s.refund = order.refund /\ s.seeds = SeedsOf(order, c, g)
      /\ s.assets = s.fee + c + g /\ (order.to = order.refund => g = 0)
  BY <1>2 DEF Splits
<1>4. HasRefund(s) <=> c # 0
  BY <1>1, <1>2, ChangeIsRefund
<1>5. \A l : GiftsTo(SeedsOf(order, c, g), l) =
               IF l = order.refund THEN c ELSE IF l = order.to THEN g ELSE 0
  <2>1. order \in Orders /\ c \in Nat /\ g \in Nat /\ (order.to = order.refund => g = 0)
    BY <1>1, <1>3
  <2> QED BY ONLY <2>1, SeedsOfEffect
<1> QED BY <1>1, <1>2, <1>3, <1>4, <1>5, Zenon DEF c, g

LEMMA WorthSplits ==
  ASSUME NEW order \in Orders, NamesDiffer(order.notes),
         NEW xs \in Seq(Entries), NamesDiffer(xs), AllSpend(order, xs)
  PROVE  Promise!Worth(order, NamesOf(xs)) = CurFee(xs) + Change(xs) + AwayTotal(xs)
<1> DEFINE N == Len(xs)
           p == RefundsOf(xs)
           q == GivensOf(xs)
           r == FeesOf(xs)
           assets == AssetsOf(xs)
           back == [i \in 1..N |-> p[i] + q[i]]
<1>1. /\ N \in Nat /\ DOMAIN xs = 1..N
      /\ \A i \in 1..N : /\ xs[i].sb \in Spends /\ p[i] = RefundGift(xs[i].sb)
                         /\ q[i] = Given(xs[i].sb) /\ r[i] = xs[i].sb.fee
      /\ p \in Seq(Nat) /\ Len(p) = N /\ q \in Seq(Nat) /\ Len(q) = N
      /\ r \in Seq(Nat) /\ Len(r) = N
      /\ AwayTotal(xs) = Total(q) /\ CurFee(xs) = Total(r) /\ Change(xs) = Total(p)
      /\ Total(q) \in Nat /\ Total(r) \in Nat /\ Total(p) \in Nat
  BY SpendParts, Zenon DEF Change
<1> HIDE DEF p, q, r
<1>2. ASSUME NEW i \in 1..N
      PROVE  /\ p[i] \in Nat /\ q[i] \in Nat /\ r[i] \in Nat
             /\ xs[i].sb.assets = r[i] + (p[i] + q[i])
  <2> DEFINE s == xs[i].sb
  <2>1. s \in Spends /\ Pays(order, s)
    BY <1>1 DEF AllSpend, SpendsNote
  <2> HIDE DEF s
  <2>2. /\ RefundGift(s) \in Nat /\ Given(s) \in Nat /\ s.fee \in Nat
        /\ s.assets = s.fee + RefundGift(s) + Given(s)
    BY <2>1, SpendSplits
  <2>3. p[i] = RefundGift(s) /\ q[i] = Given(s) /\ r[i] = s.fee
    BY <1>1 DEF s
  <2>4. s.assets = r[i] + (p[i] + q[i])
    BY <2>2, <2>3
  <2> QED BY <2>2, <2>3, <2>4 DEF s
<1>3. /\ assets \in Seq(Nat) /\ Len(assets) = N /\ \A i \in 1..N : assets[i] = r[i] + back[i]
      /\ back \in Seq(Nat) /\ Len(back) = N /\ \A i \in 1..N : back[i] = p[i] + q[i]
  <2>0. ASSUME NEW i \in 1..N PROVE xs[i].sb.assets \in Nat /\ p[i] + q[i] \in Nat
    <3> DEFINE a == p[i]
               b == q[i]
               c == r[i]
    <3>1. a \in Nat /\ b \in Nat /\ c \in Nat /\ xs[i].sb.assets = c + (a + b)
      BY <1>2
    <3> HIDE DEF a, b, c
    <3>2. a + b \in Nat /\ c + (a + b) \in Nat
      BY <3>1
    <3> QED BY <3>1, <3>2 DEF a, b
  <2>3. assets \in [1..N -> Nat] /\ \A i \in 1..N : assets[i] = xs[i].sb.assets
    BY <2>0 DEF AssetsOf
  <2>4. back \in [1..N -> Nat] /\ \A i \in 1..N : back[i] = p[i] + q[i]
    BY <2>0
  <2>1. /\ assets \in [1..N -> Nat] /\ (\A i \in 1..N : assets[i] = xs[i].sb.assets)
        /\ back \in [1..N -> Nat] /\ (\A i \in 1..N : back[i] = p[i] + q[i])
    BY <2>3, <2>4
  <2> HIDE DEF assets, back, N
  <2>2. assets \in Seq(Nat) /\ Len(assets) = N /\ back \in Seq(Nat) /\ Len(back) = N
    BY <1>1, <2>1, ListTotalType
  <2> QED BY <1>2, <2>1, <2>2
<1> HIDE DEF assets, back, N
<1>4. Total(assets) = Total(r) + Total(back)
  <2>1. /\ N \in Nat /\ assets \in Seq(Nat) /\ r \in Seq(Nat) /\ back \in Seq(Nat)
        /\ Len(assets) = N /\ Len(r) = N /\ Len(back) = N
        /\ \A i \in 1..N : assets[i] = r[i] + back[i]
    BY <1>1, <1>3
  <2> QED BY ONLY <2>1, TotalSum
<1>5. Total(back) = Total(p) + Total(q)
  <2>1. /\ N \in Nat /\ back \in Seq(Nat) /\ p \in Seq(Nat) /\ q \in Seq(Nat)
        /\ Len(back) = N /\ Len(p) = N /\ Len(q) = N
        /\ \A i \in 1..N : back[i] = p[i] + q[i]
    BY <1>1, <1>3
  <2> QED BY ONLY <2>1, TotalSum
<1>6. Promise!Worth(order, NamesOf(xs)) = Total(assets)
  BY WorthOfSpends DEF assets
<1> QED BY <1>1, <1>4, <1>5, <1>6

LEMMA LocksGiven ==
  ASSUME NEW order \in Orders, NEW xs \in Seq(Entries), AllSpend(order, xs), NEW l
  PROVE  GivenTo(xs, l) = IF l = order.refund THEN Change(xs)
                          ELSE IF l = order.to THEN AwayTotal(xs) ELSE 0
<1> DEFINE N == Len(xs)
           p == RefundsOf(xs)
           q == GivensOf(xs)
           to == [i \in 1..N |-> GiftsTo(xs[i].sb.seeds, l)]
<1>1. /\ N \in Nat /\ DOMAIN xs = 1..N /\ \A i \in 1..N : xs[i].sb \in Spends
      /\ AwayTotal(xs) = Total(q) /\ Change(xs) = Total(p)
  BY SpendParts, Zenon DEF Change
<1>2. \A i \in 1..N : GiftsTo(xs[i].sb.seeds, l) =
                        IF l = order.refund THEN RefundGift(xs[i].sb)
                        ELSE IF l = order.to THEN Given(xs[i].sb) ELSE 0
  <2> SUFFICES ASSUME NEW i \in 1..N
               PROVE  GiftsTo(xs[i].sb.seeds, l) =
                        IF l = order.refund THEN RefundGift(xs[i].sb)
                        ELSE IF l = order.to THEN Given(xs[i].sb) ELSE 0
    OBVIOUS
  <2> DEFINE s == xs[i].sb
  <2>1. order \in Orders /\ s \in Spends /\ Pays(order, s)
    BY <1>1 DEF AllSpend, SpendsNote
  <2> HIDE DEF s
  <2>2. GiftsTo(s.seeds, l) = IF l = order.refund THEN RefundGift(s)
                              ELSE IF l = order.to THEN Given(s) ELSE 0
    BY ONLY <2>1, SpendSplits
  <2> QED BY <2>2 DEF s
<1>3. GivenTo(xs, l) = Total(to)
  BY Zenon DEF GivenTo
<1>4. CASE l = order.refund
  <2>1. to = p
    BY <1>2, <1>4 DEF RefundsOf
  <2> QED BY <1>1, <1>3, <1>4, <2>1, Zenon
<1>5. CASE l # order.refund /\ l = order.to
  <2>1. to = q
    BY <1>2, <1>5 DEF GivensOf
  <2> QED BY <1>1, <1>3, <1>5, <2>1, Zenon
<1>6. CASE l # order.refund /\ l # order.to
  <2>1. \A i \in 1..N : to[i] = 0
    BY <1>2, <1>6
  <2>2. to \in [1..N -> Nat]
    BY <1>2, <1>6
  <2> HIDE DEF to, N
  <2>3. to \in Seq(Nat) /\ Len(to) = N
    BY <1>1, <2>2, ListTotalType
  <2>4. Total(to) = 0
    BY <1>1, <2>1, <2>3, TotalZero
  <2> QED BY <1>3, <1>6, <2>4
<1> QED BY <1>4, <1>5, <1>6

(* If what is left of the fee finds no change and no note, the notes are   *)
(* not worth the payment: those that are not spent are worth nothing.      *)
LEMMA NothingLeft ==
  ASSUME NEW order \in Orders, NamesDiffer(order.notes),
         NEW xs \in Seq(Entries), NamesDiffer(xs), AllSpend(order, xs),
         \A i \in DOMAIN xs : ~ HasRefund(xs[i].sb),
         \A k \in DOMAIN order.notes :
           order.notes[k].name \in NamesOf(xs) \/ order.notes[k].assets = 0
  PROVE  Promise!Worth(order, Promise!NamesIn(order)) = CurFee(xs) + AwayTotal(xs)
<1>1. Promise!Worth(order, Promise!NamesIn(order)) = Promise!Worth(order, NamesOf(xs))
  <2> DEFINE f == [k \in DOMAIN order.notes |->
                     IF order.notes[k].name \in Promise!NamesIn(order)
                     THEN order.notes[k].assets ELSE 0]
             g == [k \in DOMAIN order.notes |->
                     IF order.notes[k].name \in NamesOf(xs) THEN order.notes[k].assets ELSE 0]
  <2>1. \A k \in DOMAIN order.notes : order.notes[k].name \in Promise!NamesIn(order)
    BY DEF Promise!NamesIn
  <2>2. f = g
    BY <2>1
  <2> QED BY <2>2, Zenon DEF Promise!Worth
<1>2. Change(xs) = 0
  <2> DEFINE p == RefundsOf(xs)
             N == Len(xs)
  <2>1. /\ N \in Nat /\ DOMAIN xs = 1..N /\ p \in Seq(Nat) /\ Len(p) = N
        /\ \A i \in 1..N : xs[i].sb \in Spends /\ p[i] = RefundGift(xs[i].sb)
    BY SpendParts
  <2>2. \A i \in 1..N : p[i] = 0
    BY <2>1 DEF RefundGift
  <2> HIDE DEF p, N
  <2>3. Total(p) = 0
    BY <2>1, <2>2, TotalZero
  <2> QED BY <2>3 DEF Change, p
<1>3. Promise!Worth(order, NamesOf(xs)) = CurFee(xs) + Change(xs) + AwayTotal(xs)
  BY WorthSplits
<1>4. CurFee(xs) \in Nat /\ AwayTotal(xs) \in Nat
  BY SpendParts
<1> QED BY <1>1, <1>2, <1>3, <1>4

-----------------------------------------------------------------------------
(* Steps of a payment as steps of the promise.                             *)

LEMMA StillPaying ==
  ASSUME job # Idle, job' # Idle, job'.order = job.order
  PROVE  (Promise!vars)' = Promise!vars
BY DEF Promise!vars, Paid

LEMMA NotPaying ==
  ASSUME job = Idle, job' = Idle, spends = << >>, spends' = << >>,
         result \notin Refusals, result' \notin Refusals
  PROVE  (Promise!vars)' = Promise!vars
BY DEF Promise!vars, Paid

LEMMA PayStep ==
  ASSUME NEW order \in Orders, NamesDiffer(order.notes), job # Idle, job.order = order,
         job' = Idle, result' = "ok", NEW xs \in Seq(Entries), spends' = xs, xs # << >>,
         NamesDiffer(xs), AllSpend(order, xs), AwayTotal(xs) = Away(order, order.gift),
         order.override # NoOverride => CurFee(xs) = order.override
  PROVE  Promise!Next
<1> DEFINE names == NamesOf(xs)
           fee == CurFee(xs)
           away == Away(order, order.gift)
           worth == Promise!Worth(order, names)
           change == Change(xs)
<1>1. /\ fee \in Nat /\ change \in Nat /\ order.gift \in Nat
      /\ worth = fee + change + away
  <2>1. CurFee(xs) \in Nat /\ Change(xs) \in Nat
    BY SpendParts
  <2>2. Promise!Worth(order, NamesOf(xs)) = CurFee(xs) + Change(xs) + AwayTotal(xs)
    BY WorthSplits
  <2> QED BY <2>1, <2>2, OrderFields
<1>2. away \in Nat /\ away = Promise!GivenAway(order)
  BY <1>1 DEF Away, Promise!GivenAway
<1>3. names \subseteq Promise!NamesIn(order)
  BY WorthOfSpends
<1>4. ASSUME NEW l \in Locks
      PROVE  GivenTo(xs, l) = IF l = order.refund THEN change
                              ELSE IF l = order.to THEN order.gift ELSE 0
  <2>1. GivenTo(xs, l) = IF l = order.refund THEN change
                         ELSE IF l = order.to THEN AwayTotal(xs) ELSE 0
    BY LocksGiven
  <2> QED BY <2>1 DEF Away
<1> HIDE DEF names, fee, away, worth, change
<1>5. fee \in (IF order.override = NoOverride THEN 0..worth ELSE {order.override})
  BY <1>1, <1>2 DEF fee
<1>6. worth - fee - away = change /\ change >= 0
  BY <1>1, <1>2
<1>7. Paid'
  BY DEF Paid
<1>8. /\ (IF job # Idle THEN "paying" ELSE IF Paid THEN "paid"
          ELSE IF result \in Refusals THEN "refused" ELSE "open") = "paying"
      /\ (IF job # Idle THEN "paying" ELSE IF Paid THEN "paid"
          ELSE IF result \in Refusals THEN "refused" ELSE "open")' = "paid"
      /\ (IF job = Idle THEN NoOrder ELSE job.order) = order
      /\ (IF job = Idle THEN NoOrder ELSE job.order)' = NoOrder
      /\ (IF Paid THEN NamesOf(spends) ELSE {})' = names
      /\ (IF Paid THEN CurFee(spends) ELSE 0)' = fee
  BY <1>7 DEF names, fee
<1>9. [l \in Locks |-> IF Paid THEN GivenTo(spends, l) ELSE 0]' =
        [l \in Locks |-> IF l = order.refund THEN change
                         ELSE IF l = order.to THEN order.gift ELSE 0]
  BY <1>4, <1>7
<1>10. Promise!Pay
  <2> DEFINE pay == IF job = Idle THEN NoOrder ELSE job.order
             spent == IF Paid THEN NamesOf(spends) ELSE {}
             took == IF Paid THEN CurFee(spends) ELSE 0
             payout == [l \in Locks |-> IF Paid THEN GivenTo(spends, l) ELSE 0]
             status == IF job # Idle THEN "paying" ELSE IF Paid THEN "paid"
                       ELSE IF result \in Refusals THEN "refused" ELSE "open"
  <2>1. pay = order /\ spent' = names /\ took' = fee /\ status' = "paid" /\ pay' = NoOrder
    BY <1>8
  <2>2. Promise!Worth(order, names) = worth
    BY DEF worth
  <2>3. payout' = [l \in Locks |-> IF l = order.refund THEN change
                                   ELSE IF l = order.to THEN order.gift ELSE 0]
    BY <1>9
  <2> HIDE DEF pay, spent, took, payout, status
  <2>4. spent' \in SUBSET Promise!NamesIn(pay)
    BY <1>3, <2>1
  <2>5. took' \in IF pay.override = NoOverride THEN 0..Promise!Worth(pay, spent')
                  ELSE {pay.override}
    BY <1>5, <2>1, <2>2
  <2>6. Promise!Worth(pay, spent') - took' - Promise!GivenAway(pay) = change
    BY <1>2, <1>6, <2>1, <2>2
  <2>7. Promise!Worth(pay, spent') - took' - Promise!GivenAway(pay) >= 0
    BY <1>6, <2>6
  <2>8. payout' = [l \in Locks |->
                     IF l = pay.refund
                     THEN Promise!Worth(pay, spent') - took' - Promise!GivenAway(pay)
                     ELSE IF l = pay.to THEN pay.gift ELSE 0]
    BY <2>1, <2>3, <2>6
  <2>9. status' = "paid" /\ pay' = NoOrder
    BY <2>1
  <2> QED BY <2>4, <2>5, <2>7, <2>8, <2>9, Zenon
          DEF Promise!Pay, Promise!Ended, pay, spent, took, payout, status
<1> QED BY <1>8, <1>10 DEF Promise!Next, Promise!Settle

LEMMA RefuseStep ==
  ASSUME NEW order, job # Idle, job.order = order, job' = Idle, result' \in Refusals,
         \/ Promise!NamesIn(order) \cap V0Names # {}
         \/ order.preimage # NoPreimage
         \/ Promise!Worth(order, Promise!NamesIn(order)) < order.gift
         \/ Promise!Worth(order, Promise!NamesIn(order))
              < Promise!GivenAway(order) + Promise!Asked(order)
  PROVE  Promise!Next
<1>1. ~ Paid /\ ~ Paid'
  <2>1. result' # "ok"
    <3>1. "ok" \notin Refusals
      BY Zenon DEF Refusals, LockIsHash
    <3> QED BY <3>1
  <2> QED BY <2>1 DEF Paid
<1>2. /\ (IF job # Idle THEN "paying" ELSE IF Paid THEN "paid"
          ELSE IF result \in Refusals THEN "refused" ELSE "open") = "paying"
      /\ (IF job # Idle THEN "paying" ELSE IF Paid THEN "paid"
          ELSE IF result \in Refusals THEN "refused" ELSE "open")' = "refused"
      /\ (IF job = Idle THEN NoOrder ELSE job.order) = order
      /\ (IF job = Idle THEN NoOrder ELSE job.order)' = NoOrder
      /\ (IF Paid THEN NamesOf(spends) ELSE {})' = (IF Paid THEN NamesOf(spends) ELSE {})
      /\ (IF Paid THEN CurFee(spends) ELSE 0)' = (IF Paid THEN CurFee(spends) ELSE 0)
      /\ [l \in Locks |-> IF Paid THEN GivenTo(spends, l) ELSE 0]'
           = [l \in Locks |-> IF Paid THEN GivenTo(spends, l) ELSE 0]
  BY <1>1
<1>3. Promise!Refuse
  BY <1>2 DEF Promise!Refuse, Promise!Ended
<1> QED BY <1>2, <1>3 DEF Promise!Next, Promise!Settle

-----------------------------------------------------------------------------
(* The fees and the gifts of a list of spends that grows or changes.       *)

LEMMA AppendParts ==
  ASSUME NEW xs \in Seq(Entries), NEW e \in Entries
  PROVE  LET ys == Append(xs, e)
         IN  /\ ys \in Seq(Entries) /\ Len(ys) = Len(xs) + 1 /\ ys # << >>
             /\ DOMAIN ys = 1..(Len(xs) + 1) /\ ys[Len(xs) + 1] = e
             /\ \A i \in 1..Len(xs) : ys[i] = xs[i]
             /\ CurFee(ys) = CurFee(xs) + e.sb.fee
             /\ AwayTotal(ys) = AwayTotal(xs) + Given(e.sb)
<1> DEFINE ys == Append(xs, e)
           N == Len(xs)
<1>1. /\ ys \in Seq(Entries) /\ Len(ys) = N + 1 /\ ys[N + 1] = e /\ N \in Nat
      /\ \A i \in 1..N : ys[i] = xs[i]
      /\ DOMAIN ys = 1..(N + 1)
  BY AppendProperties, LenProperties
<1> HIDE DEF ys
<1>2. ys # << >>
  BY <1>1
<1> DEFINE p == FeesOf(xs)
           p2 == FeesOf(ys)
           q == GivensOf(xs)
           q2 == GivensOf(ys)
<1>3. /\ p \in Seq(Nat) /\ Len(p) = N /\ CurFee(xs) = Total(p)
      /\ q \in Seq(Nat) /\ Len(q) = N /\ AwayTotal(xs) = Total(q)
      /\ \A i \in 1..N : p[i] = xs[i].sb.fee /\ q[i] = Given(xs[i].sb)
  BY SpendParts
<1>4. /\ p2 \in Seq(Nat) /\ Len(p2) = Len(ys) /\ CurFee(ys) = Total(p2)
      /\ q2 \in Seq(Nat) /\ Len(q2) = Len(ys) /\ AwayTotal(ys) = Total(q2)
      /\ \A i \in 1..Len(ys) : p2[i] = ys[i].sb.fee /\ q2[i] = Given(ys[i].sb)
  BY <1>1, SpendParts
<1> HIDE DEF p, p2, q, q2, N
<1>9. N + 1 \in 1..Len(ys) /\ \A i \in 1..N : i \in 1..Len(ys)
  BY <1>1
<1>10. p2[N + 1] = e.sb.fee /\ q2[N + 1] = Given(e.sb)
  BY <1>1, <1>4, <1>9
<1>11. \A i \in 1..N : p2[i] = p[i] /\ q2[i] = q[i]
  BY <1>1, <1>3, <1>4, <1>9
<1>5. /\ p2[N + 1] = e.sb.fee /\ q2[N + 1] = Given(e.sb)
      /\ \A i \in 1..N : p2[i] = p[i] /\ q2[i] = q[i]
  BY <1>10, <1>11
<1>6. Total(p2) = Total(p) + p2[N + 1]
  <2>1. p \in Seq(Nat) /\ p2 \in Seq(Nat) /\ Len(p2) = Len(p) + 1
        /\ \A i \in 1..Len(p) : p2[i] = p[i]
    BY <1>1, <1>3, <1>4, <1>5
  <2> QED BY <1>3, <2>1, TotalLonger
<1>7. Total(q2) = Total(q) + q2[N + 1]
  <2>1. q \in Seq(Nat) /\ q2 \in Seq(Nat) /\ Len(q2) = Len(q) + 1
        /\ \A i \in 1..Len(q) : q2[i] = q[i]
    BY <1>1, <1>3, <1>4, <1>5
  <2> QED BY <1>3, <2>1, TotalLonger
<1>8. CurFee(ys) = CurFee(xs) + e.sb.fee /\ AwayTotal(ys) = AwayTotal(xs) + Given(e.sb)
  BY <1>3, <1>4, <1>5, <1>6, <1>7
<1> QED BY <1>1, <1>2, <1>8 DEF ys, N

LEMMA ReplaceParts ==
  ASSUME NEW xs \in Seq(Entries), NEW ys \in Seq(Entries), Len(ys) = Len(xs),
         NEW i \in DOMAIN xs, \A j \in DOMAIN xs : j # i => ys[j] = xs[j]
  PROVE  /\ CurFee(ys) + xs[i].sb.fee = CurFee(xs) + ys[i].sb.fee
         /\ AwayTotal(ys) + Given(xs[i].sb) = AwayTotal(xs) + Given(ys[i].sb)
<1> DEFINE N == Len(xs)
           p == FeesOf(xs)
           p2 == FeesOf(ys)
           q == GivensOf(xs)
           q2 == GivensOf(ys)
<1>1. /\ N \in Nat /\ DOMAIN xs = 1..N
      /\ p \in Seq(Nat) /\ Len(p) = N /\ CurFee(xs) = Total(p)
      /\ q \in Seq(Nat) /\ Len(q) = N /\ AwayTotal(xs) = Total(q)
      /\ \A j \in 1..N : p[j] = xs[j].sb.fee /\ q[j] = Given(xs[j].sb)
  BY SpendParts
<1>2. /\ p2 \in Seq(Nat) /\ Len(p2) = N /\ CurFee(ys) = Total(p2)
      /\ q2 \in Seq(Nat) /\ Len(q2) = N /\ AwayTotal(ys) = Total(q2)
      /\ \A j \in 1..N : p2[j] = ys[j].sb.fee /\ q2[j] = Given(ys[j].sb)
  BY SpendParts
<1> HIDE DEF p, p2, q, q2, N
<1>3. \A j \in 1..N : j # i => p2[j] = p[j] /\ q2[j] = q[j]
  BY <1>1, <1>2
<1>4. Total(p2) + p[i] = Total(p) + p2[i]
  <2>1. N \in Nat /\ p \in Seq(Nat) /\ p2 \in Seq(Nat) /\ Len(p) = N /\ Len(p2) = N
        /\ i \in 1..N /\ \A j \in 1..N : j # i => p2[j] = p[j]
    BY <1>1, <1>2, <1>3
  <2> QED BY ONLY <2>1, TotalReplace
<1>5. Total(q2) + q[i] = Total(q) + q2[i]
  <2>1. N \in Nat /\ q \in Seq(Nat) /\ q2 \in Seq(Nat) /\ Len(q) = N /\ Len(q2) = N
        /\ i \in 1..N /\ \A j \in 1..N : j # i => q2[j] = q[j]
    BY <1>1, <1>2, <1>3
  <2> QED BY ONLY <2>1, TotalReplace
<1> QED BY <1>1, <1>2, <1>4, <1>5

LEMMA SameParts ==
  ASSUME NEW xs, NEW ys, Len(ys) = Len(xs),
         \A i \in 1..Len(xs) : ys[i].sb.fee = xs[i].sb.fee /\ Given(ys[i].sb) = Given(xs[i].sb)
  PROVE  CurFee(ys) = CurFee(xs) /\ AwayTotal(ys) = AwayTotal(xs)
<1>1. /\ [i \in 1..Len(xs) |-> ys[i].sb.fee] = [i \in 1..Len(xs) |-> xs[i].sb.fee]
      /\ [i \in 1..Len(xs) |-> Given(ys[i].sb)] = [i \in 1..Len(xs) |-> Given(xs[i].sb)]
  OBVIOUS
<1> QED BY <1>1, Zenon DEF CurFee, AwayTotal

LEMMA NoParts ==
  ASSUME NEW xs \in Seq(Entries), \A i \in DOMAIN xs : xs[i].sb.fee = 0
  PROVE  CurFee(xs) = 0 /\ (xs = << >> => AwayTotal(xs) = 0)
<1> DEFINE p == FeesOf(xs)
           q == GivensOf(xs)
           N == Len(xs)
<1>1. /\ N \in Nat /\ DOMAIN xs = 1..N
      /\ p \in Seq(Nat) /\ Len(p) = N /\ CurFee(xs) = Total(p)
      /\ q \in Seq(Nat) /\ Len(q) = N /\ AwayTotal(xs) = Total(q)
      /\ \A j \in 1..N : p[j] = xs[j].sb.fee
  BY SpendParts
<1>2. \A j \in 1..N : p[j] = 0
  BY <1>1
<1>3. xs = << >> => N = 0
  OBVIOUS
<1> HIDE DEF p, q, N
<1>4. Total(p) = 0
  BY <1>1, <1>2, TotalZero
<1>5. N = 0 => Total(q) = 0
  <2> SUFFICES ASSUME N = 0 PROVE Total(q) = 0
    OBVIOUS
  <2>1. 0 \in Nat /\ q \in Seq(Nat) /\ Len(q) = 0 /\ \A i \in 1..0 : q[i] = 0
    BY <1>1
  <2> QED BY ONLY <2>1, TotalZero
<1> QED BY <1>1, <1>3, <1>4, <1>5

(* The notes of a payment, and what they are worth.                        *)

PurseOf(notes) == [i \in 1..Len(notes) |-> notes[i].assets]

LEMMA PurseParts ==
  ASSUME NEW notes \in Seq(Notes)
  PROVE  /\ Len(notes) \in Nat /\ DOMAIN notes = 1..Len(notes)
         /\ PurseOf(notes) \in [1..Len(notes) -> Nat]
         /\ PurseOf(notes) \in Seq(Nat) /\ Len(PurseOf(notes)) = Len(notes)
         /\ \A i \in 1..Len(notes) : PurseOf(notes)[i] = notes[i].assets
         /\ Purse(notes) = Total(PurseOf(notes)) /\ Purse(notes) \in Nat
<1> DEFINE N == Len(notes)
           p == PurseOf(notes)
<1>1. N \in Nat /\ DOMAIN notes = 1..N /\ \A i \in 1..N : notes[i] \in Notes
  BY LenProperties, ElementOfSeq
<1>2. \A i \in 1..N : notes[i].assets \in Nat
  BY <1>1 DEF Notes
<1>3. p \in [1..N -> Nat] /\ \A i \in 1..N : p[i] = notes[i].assets
  BY <1>2 DEF PurseOf
<1>4. Purse(notes) = Total(p)
  BY Zenon DEF Purse, PurseOf
<1> HIDE DEF p, N
<1>5. p \in Seq(Nat) /\ Len(p) = N /\ Total(p) \in Nat
  BY <1>1, <1>3, ListTotalType
<1> QED BY <1>1, <1>3, <1>4, <1>5 DEF p, N

LEMMA FirstOfPurse ==
  ASSUME NEW notes \in Seq(Notes), notes # << >>
  PROVE  /\ 1 \in DOMAIN notes /\ Head(notes) = notes[1]
         /\ Head(notes).assets \in Nat /\ Purse(Tail(notes)) \in Nat
         /\ Purse(notes) = Head(notes).assets + Purse(Tail(notes))
         /\ \A i \in DOMAIN Tail(notes) : \E j \in DOMAIN notes : Tail(notes)[i] = notes[j]
         /\ NamesOf(notes) \subseteq {Head(notes).name} \cup NamesOf(Tail(notes))
<1> DEFINE rest == Tail(notes)
           N == Len(notes)
           p == PurseOf(notes)
           q == PurseOf(rest)
<1>1. N \in Nat /\ N # 0 /\ DOMAIN notes = 1..N
  BY LenProperties, EmptySeq
<1>2. /\ Head(notes) = notes[1] /\ Head(notes) \in Notes
      /\ rest \in Seq(Notes) /\ Len(rest) = N - 1
      /\ \A i \in 1..Len(rest) : rest[i] = notes[i + 1]
  BY <1>1, HeadTailProperties
<1> HIDE DEF rest, N
<1>3. DOMAIN rest = 1..(N - 1) /\ 1 \in 1..N /\ N - 1 \in Nat
  BY <1>1, <1>2, LenProperties
<1>4. \A i \in 1..(N - 1) : i + 1 \in 1..N /\ rest[i] = notes[i + 1]
  BY <1>1, <1>2
<1>5. \A j \in 1..N : j = 1 \/ (j - 1 \in 1..(N - 1) /\ rest[j - 1] = notes[j])
  BY <1>1, <1>2
<1>6. NamesOf(notes) \subseteq {Head(notes).name} \cup NamesOf(rest)
  BY <1>1, <1>2, <1>3, <1>5 DEF NamesOf
<1>7. \A i \in DOMAIN rest : \E j \in DOMAIN notes : rest[i] = notes[j]
  BY <1>1, <1>3, <1>4
<1>8. /\ p \in Seq(Nat) /\ Len(p) = N /\ Purse(notes) = Total(p)
      /\ \A i \in 1..N : p[i] = notes[i].assets
  BY PurseParts DEF N
<1>9. /\ q \in Seq(Nat) /\ Len(q) = N - 1 /\ Purse(rest) = Total(q) /\ Purse(rest) \in Nat
      /\ \A i \in 1..(N - 1) : q[i] = rest[i].assets
  BY <1>2, PurseParts
<1> HIDE DEF p, q
<1> DEFINE a == notes[1].assets
<1>10. a \in Nat
  BY <1>2 DEF Notes
<1>11. p = <<a>> \o q
  <2> DEFINE one == <<a>>
             all == one \o q
  <2>1. one \in Seq(Nat) /\ Len(one) = 1 /\ one[1] = a
    BY <1>10
  <2> HIDE DEF one, a
  <2>6. /\ all \in Seq(Nat) /\ Len(all) = Len(one) + Len(q)
        /\ \A i \in 1..(Len(one) + Len(q)) :
             all[i] = IF i <= Len(one) THEN one[i] ELSE q[i - Len(one)]
    <3>1. one \in Seq(Nat) /\ q \in Seq(Nat)
      BY <1>9, <2>1
    <3> QED BY ONLY <3>1, ConcatProperties
  <2> HIDE DEF all
  <2>3. Len(all) = N
    BY <1>1, <1>9, <2>1, <2>6
  <2>2. /\ all \in Seq(Nat)
        /\ \A i \in 1..N : all[i] = IF i <= 1 THEN one[i] ELSE q[i - 1]
    BY <1>1, <1>9, <2>1, <2>6
  <2>4. ASSUME NEW i \in 1..N PROVE all[i] = p[i]
    <3>1. CASE i = 1
      <4>1. all[1] = one[1]
        BY <1>3, <2>2, <2>3
      <4> QED BY <1>3, <1>8, <2>1, <3>1, <4>1 DEF a
    <3>2. CASE i # 1
      <4>1. i - 1 \in 1..(N - 1) /\ ~ (i <= 1) /\ rest[i - 1] = notes[i]
        BY <1>1, <1>5, <3>2
      <4>2. all[i] = q[i - 1]
        BY <2>2, <2>3, <4>1
      <4> QED BY <1>8, <1>9, <4>1, <4>2
    <3> QED BY <3>1, <3>2
  <2>5. all = p
    BY <1>8, <2>2, <2>3, <2>4, SeqEqual
  <2> QED BY <2>5 DEF all, one
<1>12. Total(p) = a + Total(q)
  <2>1. <<a>> \in Seq(Nat) /\ q \in Seq(Nat)
    BY <1>9, <1>10
  <2>2. Total(<<a>>) = a
    <3>1. << >> \in Seq(Nat) /\ <<a>> = Append(<< >>, a)
      BY <1>10, EmptySeq
    <3>2. Total(Append(<< >>, a)) = Total(<< >>) + a
      BY <1>10, <3>1, TotalAppend
    <3> QED BY <1>10, <3>1, <3>2, TotalEmpty
  <2> QED BY <1>11, <2>1, <2>2, TotalConcat
<1>13. Purse(notes) = a + Purse(rest)
  BY <1>8, <1>9, <1>12
<1> QED BY <1>1, <1>2, <1>3, <1>6, <1>7, <1>9, <1>10, <1>13 DEF rest

LEMMA EmptyPurse ==
  Purse(<< >>) = 0 /\ << >> \in Seq(Notes) /\ NamesOf(<< >>) = {}
<1>1. << >> \in Seq(Notes) /\ Len(<< >>) = 0 /\ DOMAIN << >> = {}
  BY EmptySeq
<1> DEFINE p == PurseOf(<< >>)
<1>2. p \in Seq(Nat) /\ Len(p) = 0 /\ Purse(<< >>) = Total(p)
  BY <1>1, PurseParts
<1> HIDE DEF p
<1>3. Total(p) = 0
  <2>1. 0 \in Nat /\ p \in Seq(Nat) /\ Len(p) = 0 /\ \A i \in 1..0 : p[i] = 0
    BY <1>2
  <2> QED BY ONLY <2>1, TotalZero
<1> QED BY <1>1, <1>2, <1>3 DEF NamesOf

LEMMA WorthOfAll ==
  ASSUME NEW order \in Orders
  PROVE  Promise!Worth(order, Promise!NamesIn(order)) = Purse(order.notes)
<1> DEFINE notes == order.notes
           N == Len(notes)
           f == [k \in DOMAIN notes |->
                   IF notes[k].name \in Promise!NamesIn(order) THEN notes[k].assets ELSE 0]
           p == PurseOf(notes)
<1>1. notes \in Seq(Notes)
  BY OrderFields
<1>2. /\ N \in Nat /\ DOMAIN notes = 1..N /\ p \in [1..N -> Nat]
      /\ \A i \in 1..N : p[i] = notes[i].assets
      /\ Purse(notes) = Total(p)
  BY <1>1, PurseParts
<1>3. \A k \in DOMAIN notes : notes[k].name \in Promise!NamesIn(order)
  BY DEF Promise!NamesIn
<1>4. f = p
  <2> HIDE DEF p
  <2> QED BY <1>2, <1>3
<1>5. Promise!Worth(order, Promise!NamesIn(order)) = SumFunction(f)
  BY Zenon DEF Promise!Worth, Promise!SumFunction, Promise!SumFunctionOnSet,
     Promise!FoldFunctionOnSet, Promise!MapThenFoldSet, SumFunction, SumFunctionOnSet,
     FoldFunctionOnSet, MapThenFoldSet
<1> HIDE DEF f, p, N
<1>6. SumFunction(p) = Total(p)
  BY <1>2, SumIsTotal
<1> QED BY <1>2, <1>4, <1>5, <1>6

-----------------------------------------------------------------------------
(* The steps of a payment, one lemma for each.                             *)

Promised == Promise!Next \/ (Promise!vars)' = Promise!vars

LEMMA PayFacts ==
  ASSUME PayInv, job # Idle
  PROVE  /\ job.order \in SimpleSpends /\ job.order \in Orders /\ NamesDiffer(job.order.notes)
         /\ job.order.gift \in Nat /\ job.order.gift > 0
         /\ job.op \in {"base", "raise", "pool"}
         /\ job.op = "base" => job \in BaseJobs
         /\ job.op # "base" => job \in FeeJobs
         /\ spends \in Seq(Entries) /\ NamesDiffer(spends)
         /\ pool \in Seq(Entries) /\ NamesDiffer(pool)
         /\ NamesOf(spends) \cap NamesOf(pool) = {}
         /\ AllSpend(job.order, spends) /\ AllKeep(job.order, pool)
         /\ JobFits(job, spends, pool)
<1>1. PaymentFits(job, spends, pool) /\ Holds(spends, pool) /\ JobFits(job, spends, pool)
  BY DEF PayInv, IInv
<1>2. /\ job.order \in SimpleSpends /\ job.order.gift > 0 /\ job.op \in {"base", "raise", "pool"}
      /\ AllSpend(job.order, spends) /\ AllKeep(job.order, pool)
  BY <1>1 DEF PaymentFits
<1>3. job.order \in Orders /\ NamesDiffer(job.order.notes)
  BY <1>2, TxBuilderAssumption, CallerAssumption
<1>4. job \in BaseJobs \cup FeeJobs \cup {Idle}
  BY <1>1 DEF JobFits
<1>5. job.op = "base" => job \in BaseJobs
  BY <1>4, JobKinds
<1>6. job.op # "base" => job \in FeeJobs
  BY <1>2, <1>4, JobKinds
<1>7. job.order.gift \in Nat
  BY <1>3, OrderFields
<1> QED BY <1>1, <1>2, <1>3, <1>5, <1>6, <1>7 DEF Holds

LEMMA EndKeeps ==
  ASSUME PayInv, IInv', job # Idle, job' = Idle, calls' = calls
  PROVE  PayInv'
BY DEF PayInv

LEMMA RunKeeps ==
  ASSUME PayInv, IInv', job # Idle, calls' = calls, PaymentFits(job', spends', pool')
  PROVE  PayInv'
BY DEF PayInv

(* The note of a payment that an entry spends is the one of its name.      *)
LEMMA NoteOfEntry ==
  ASSUME NEW order \in Orders, NamesDiffer(order.notes), NEW xs \in Seq(Entries),
         AllKeep(order, xs), \A i \in DOMAIN xs : xs[i].sb.assets = 0,
         NEW k \in DOMAIN order.notes, order.notes[k].name \in NamesOf(xs)
  PROVE  order.notes[k].assets = 0
<1>1. PICK i \in DOMAIN xs : xs[i].name = order.notes[k].name
  BY DEF NamesOf
<1>2. PICK m \in DOMAIN order.notes : KeepsNote(order, order.notes[m], xs[i])
  BY DEF AllKeep
<1>3. order.notes[m].name = order.notes[k].name /\ xs[i].sb.assets = order.notes[m].assets
  BY <1>1, <1>2 DEF KeepsNote, SpendsNote
<1>4. m = k
  BY <1>3 DEF NamesDiffer
<1> QED BY <1>3, <1>4

(* When the fee is not found in the notes, they are not worth it.          *)
LEMMA Stuck ==
  ASSUME NEW order \in Orders, NamesDiffer(order.notes), NEW j, j.order = order,
         NEW sp \in Seq(Entries), NamesDiffer(sp), NEW pl \in Seq(Entries),
         PaymentFits(j, sp, pl), j.op = "pool", j.left \in Nat, j.left > 0,
         \A i \in DOMAIN pl : pl[i].sb.assets = 0
  PROVE  \/ order.preimage # NoPreimage
         \/ Promise!Worth(order, Promise!NamesIn(order))
              < Promise!GivenAway(order) + Promise!Asked(order)
<1> SUFFICES ASSUME order.preimage = NoPreimage
             PROVE  Promise!Worth(order, Promise!NamesIn(order))
                      < Promise!GivenAway(order) + Promise!Asked(order)
  OBVIOUS
<1>1. FeeFits(j, sp) /\ AllSpend(order, sp) /\ AllKeep(order, pl)
      /\ NamesOf(order.notes) \subseteq NamesOf(sp) \cup NamesOf(pl)
  BY DEF PaymentFits
<1>2. \A i \in DOMAIN sp : ~ HasRefund(sp[i].sb)
  BY <1>1 DEF FeeFits
<1>3. ASSUME NEW k \in DOMAIN order.notes
      PROVE  order.notes[k].name \in NamesOf(sp) \/ order.notes[k].assets = 0
  <2>1. order.notes[k].name \in NamesOf(sp) \cup NamesOf(pl)
    BY <1>1 DEF NamesOf
  <2> QED BY <1>1, <2>1, NoteOfEntry
<1> DEFINE worth == Promise!Worth(order, Promise!NamesIn(order))
           fee == CurFee(sp)
           away == AwayTotal(sp)
<1>4. worth = fee + away
  BY <1>1, <1>2, <1>3, NothingLeft
<1>5. fee \in Nat /\ away \in Nat
  BY SpendParts
<1>6. away = Promise!GivenAway(order)
  BY <1>1 DEF FeeFits, Away, Promise!GivenAway
<1>7. Promise!Asked(order) \in Nat /\ fee < Promise!Asked(order)
  <2>1. CASE order.override # NoOverride
    <3>1. fee + j.left = order.override
      BY <1>1, <2>1 DEF FeeFits
    <3>2. Promise!Asked(order) = order.override
      BY <2>1 DEF Promise!Asked
    <3> HIDE DEF fee
    <3> QED BY <1>5, <3>1, <3>2
  <2>2. CASE order.override = NoOverride
    <3>1. fee + j.left <= FeeBound(order, sp)
      BY <1>1, <2>2 DEF FeeFits
    <3>2. FeeBound(order, sp) <= MostFee(order) /\ MostFee(order) \in Nat
      BY <1>1, BoundIsMost
    <3>3. FeeBound(order, sp) \in Nat
      BY BoundParts
    <3>4. Promise!Asked(order) = MostFee(order)
      BY <2>2 DEF Promise!Asked
    <3> HIDE DEF fee
    <3> QED BY <1>5, <3>1, <3>2, <3>3, <3>4
  <2> QED BY <2>1, <2>2
<1> HIDE DEF worth, fee, away
<1>8. worth < Promise!GivenAway(order) + Promise!Asked(order)
  BY <1>4, <1>5, <1>6, <1>7
<1> QED BY <1>8 DEF worth

(* The call begins.                                                        *)
LEMMA SimpleSpendPays ==
  ASSUME PayInv, OnePayment, NEW order \in SimpleSpends, SimpleSpend(order)
  PROVE  PayInv' /\ Promised
<1>1. IInv'
  BY SimpleSpendKeeps DEF PayInv
<1>2. /\ calls = 0 /\ calls' = 1 /\ job = Idle /\ result = "none"
      /\ spends = << >> /\ pool = << >> /\ spends' = << >> /\ pool' = << >>
  <2>1. calls \in 0..MaxCalls /\ MaxCalls = 1
    BY DEF PayInv, IInv, OnePayment
  <2>2. calls < MaxCalls /\ calls' = calls + 1 /\ UNCHANGED <<spends, pool>>
    BY DEF SimpleSpend, Begin
  <2>3. calls = 0
    BY <2>1, <2>2
  <2> QED BY <2>2, <2>3 DEF PayInv
<1>3. ~ Paid /\ result \notin Refusals
  <2>1. "none" \notin Refusals
    BY Zenon DEF Refusals, LockIsHash
  <2> QED BY <1>2, <2>1 DEF Paid
<1>4. CASE order.gift = 0
  <2>1. job' = Idle /\ result' = "Cannot create a transaction with zero gift"
    BY <1>4 DEF SimpleSpend, Finish
  <2>2. result' \in Refusals
    BY <2>1 DEF Refusals
  <2>3. ~ Paid'
    BY <1>2 DEF Paid
  <2>4. Promise!Begin
    BY <1>2, <1>3, <1>4, <2>1, <2>2, <2>3 DEF Promise!Begin
  <2>5. PayInv'
    <3>1. calls' # 0
      BY <1>2
    <3> QED BY <1>1, <2>1, <3>1, Zenon DEF PayInv
  <2> QED BY <2>4, <2>5 DEF Promised, Promise!Next
<1>5. CASE order.gift # 0
  <2> DEFINE j == [op |-> "base", order |-> order, notes |-> order.notes, left |-> order.gift]
  <2>1. job' = j
    BY <1>5 DEF SimpleSpend
  <2>2. j # Idle /\ j.op = "base" /\ j.order = order /\ j.notes = order.notes
        /\ j.left = order.gift
    BY DEF Idle
  <2> HIDE DEF j
  <2>3. order \in Orders /\ order.gift \in Nat /\ order.gift > 0 /\ order.notes \in Seq(Notes)
    BY <1>5, TxBuilderAssumption, OrderFields
  <2>4. Promise!Begin
    <3>1. job' # Idle /\ job'.order = order
      BY <2>1, <2>2
    <3>2. ~ Paid'
      BY <3>1 DEF Paid
    <3> QED BY <1>2, <1>3, <2>3, <3>1, <3>2 DEF Promise!Begin
  <2>5. BaseFits(j, << >>)
    <3>1. << >> \in Seq(Entries) /\ DOMAIN << >> = {}
      BY EmptySeq
    <3>2. AwayTotal(<< >>) = 0
      BY <3>1, NoParts
    <3>3. Purse(order.notes) \in Nat
      BY <2>3, PurseParts
    <3>4. order.gift - order.gift = 0 /\ ~ (order.gift < order.gift)
      BY <2>3
    <3>5. 0 + Purse(order.notes) = Purse(order.notes)
      BY <3>3
    <3> QED BY <2>2, <2>3, <3>1, <3>2, <3>4, <3>5 DEF BaseFits, Away
  <2>6. PaymentFits(j, << >>, << >>)
    BY <2>2, <2>3, <2>5 DEF PaymentFits, AllSpend, AllKeep, NamesOf
  <2>7. PayInv'
    <3>1. calls' # 0 /\ PaymentFits(job', spends', pool')
      BY <1>2, <2>1, <2>6
    <3> QED BY <1>1, <3>1 DEF PayInv
  <2> QED BY <2>4, <2>7 DEF Promised, Promise!Next
<1> QED BY <1>4, <1>5

(* What simpleSpendBase takes a note for.                                  *)
LEMMA GiftGoesOn ==
  ASSUME NEW order \in Orders, NEW left \in Nat, left <= order.gift,
         NEW portion \in Nat, portion <= left
  PROVE  Away(order, order.gift - left) + Away(order, portion)
           = Away(order, order.gift - (left - portion))
<1>1. order.gift \in Nat
  BY OrderFields
<1> QED BY <1>1 DEF Away

LEMMA AllSpendAppend ==
  ASSUME NEW order, NEW xs \in Seq(Entries), NEW e \in Entries, AllSpend(order, xs),
         \E k \in DOMAIN order.notes : SpendsNote(order, order.notes[k], e)
  PROVE  AllSpend(order, Append(xs, e))
<1> DEFINE ys == Append(xs, e)
           N == Len(xs)
<1>1. /\ N \in Nat /\ DOMAIN xs = 1..N /\ DOMAIN ys = 1..(N + 1) /\ ys[N + 1] = e
      /\ \A i \in 1..N : ys[i] = xs[i]
  BY AppendParts, LenProperties
<1> HIDE DEF ys, N
<1>2. ASSUME NEW i \in 1..(N + 1)
      PROVE  \E k \in DOMAIN order.notes : SpendsNote(order, order.notes[k], ys[i])
  <2>1. i \in 1..N \/ i = N + 1
    BY <1>1
  <2> QED BY <1>1, <2>1 DEF AllSpend
<1>3. AllSpend(order, ys)
  BY <1>1, <1>2 DEF AllSpend
<1> QED BY <1>3 DEF ys

LEMMA AllKeepAppend ==
  ASSUME NEW order, NEW xs \in Seq(Entries), NEW e \in Entries, AllKeep(order, xs),
         \E k \in DOMAIN order.notes : KeepsNote(order, order.notes[k], e)
  PROVE  AllKeep(order, Append(xs, e))
<1> DEFINE ys == Append(xs, e)
           N == Len(xs)
<1>1. /\ N \in Nat /\ DOMAIN xs = 1..N /\ DOMAIN ys = 1..(N + 1) /\ ys[N + 1] = e
      /\ \A i \in 1..N : ys[i] = xs[i]
  BY AppendParts, LenProperties
<1> HIDE DEF ys, N
<1>2. ASSUME NEW i \in 1..(N + 1)
      PROVE  \E k \in DOMAIN order.notes : KeepsNote(order, order.notes[k], ys[i])
  <2>1. i \in 1..N \/ i = N + 1
    BY <1>1
  <2> QED BY <1>1, <2>1 DEF AllKeep
<1>3. AllKeep(order, ys)
  BY <1>1, <1>2 DEF AllKeep
<1> QED BY <1>3 DEF ys

LEMMA NextBaseJob ==
  ASSUME NEW j \in BaseJobs, NEW rest, NEW left
  PROVE  LET n == [j EXCEPT !.notes = rest, !.left = left]
         IN  n.op = "base" /\ n.order = j.order /\ n.notes = rest /\ n.left = left
BY DEF BaseJobs

LEMMA BaseStepPays ==
  ASSUME PayInv, BaseStep
  PROVE  PayInv' /\ Promised
<1> DEFINE order == job.order
           notes == job.notes
           note == Head(notes)
           rest == Tail(notes)
           left == job.left
           portion == SmallerOf(left, note.assets)
           new == NewSpend(note.assets, order.refund, note.witness)
           giving == AddSeed(new, BuildSeed(order.to, portion, order.include, order.extras))
           a == [name |-> note.name, sb |-> ComputeRefund(giving, order.include)]
           b == [name |-> note.name, sb |-> ComputeRefund(new, order.include)]
           next == [job EXCEPT !.notes = Tail(@), !.left = @ - portion]
<1>1. job # Idle /\ job.op = "base" /\ notes # << >> /\ calls' = calls
  <2>1. job.op = "base" /\ notes # << >> /\ calls' = calls
    BY Zenon DEF BaseStep
  <2>2. Idle.op # "base"
    BY DEF Idle
  <2> QED BY <2>1, <2>2, Zenon
<1>2. /\ order \in SimpleSpends /\ order \in Orders /\ order.gift \in Nat /\ order.gift > 0
      /\ job \in BaseJobs /\ spends \in Seq(Entries) /\ pool \in Seq(Entries)
      /\ AllSpend(order, spends) /\ AllKeep(order, pool) /\ JobFits(job, spends, pool)
  BY <1>1, PayFacts
<1>3. notes \in Seq(Notes) /\ left \in Nat /\ job = [op |-> "base", order |-> order,
                                                    notes |-> notes, left |-> left]
  BY <1>2 DEF BaseJobs
<1>4. BaseFits(job, spends)
      /\ NamesOf(order.notes) \subseteq NamesOf(spends) \cup NamesOf(pool) \cup NamesOf(notes)
  BY <1>1 DEF PayInv, PaymentFits
<1>5. /\ note \in Notes /\ rest \in Seq(Notes) /\ note.name \in NamesOf(notes)
      /\ 1 \in DOMAIN notes /\ note = notes[1] /\ note.assets \in Nat
      /\ Purse(rest) \in Nat /\ Purse(notes) = note.assets + Purse(rest)
      /\ \A i \in DOMAIN rest : \E j \in DOMAIN notes : rest[i] = notes[j]
      /\ NamesOf(notes) \subseteq {note.name} \cup NamesOf(rest)
  BY <1>1, <1>3, FirstNote, FirstOfPurse
<1>6. PICK k \in DOMAIN order.notes : note = order.notes[k]
  BY <1>4, <1>5 DEF BaseFits
<1>7. IInv'
  BY BaseStepKeeps DEF PayInv
<1>8. IF note.name \in V0Names
      THEN Finish("V0 notes not supported") /\ UNCHANGED <<spends, pool>>
      ELSE /\ job' = next
           /\ IF portion > 0
              THEN spends' = PutSpend(spends, a) /\ pool' = pool
              ELSE pool' = Append(pool, b) /\ spends' = spends
  BY DEF BaseStep
<1>9. CASE note.name \in V0Names
  <2>1. job' = Idle /\ result' = "V0 notes not supported"
    BY <1>8, <1>9, Zenon DEF Finish
  <2>2. result' \in Refusals
    BY <2>1, Zenon DEF Refusals
  <2>3. Promise!NamesIn(order) \cap V0Names # {}
    BY <1>6, <1>9 DEF Promise!NamesIn
  <2>4. Promise!Next
    <3> HIDE DEF order
    <3>1. job.order = order
      BY DEF order
    <3> QED BY <1>1, <2>1, <2>2, <2>3, <3>1, RefuseStep, Zenon
  <2>5. PayInv'
    BY <1>1, <1>7, <2>1, EndKeeps, Zenon
  <2> QED BY <2>4, <2>5, Zenon DEF Promised
<1>10. CASE note.name \notin V0Names
  <2>1. /\ portion \in Nat /\ portion <= left /\ portion <= note.assets
        /\ portion < note.assets => portion = left
    BY <1>3, <1>5 DEF SmallerOf
  <2>2. b \in Entries /\ KeepsNote(order, note, b)
    BY <1>2, <1>5, NewKeeps, Zenon
  <2>3. portion > 0 => a \in Entries /\ SpendsNote(order, note, a)
                       /\ a.sb.fee = 0 /\ Given(a.sb) = Away(order, portion)
    <3> SUFFICES ASSUME portion > 0
                 PROVE  a \in Entries /\ SpendsNote(order, note, a)
                        /\ a.sb.fee = 0 /\ Given(a.sb) = Away(order, portion)
      OBVIOUS
    <3> HIDE DEF portion, note, order
    <3> QED BY <1>2, <1>5, <2>1, NewSpends, Zenon
  <2>4. /\ job' = next /\ next.op = "base" /\ next.order = order /\ next.notes = rest
        /\ next.left = left - portion /\ left - portion \in Nat
    <3>1. left - portion \in Nat
      BY <1>3, <2>1
    <3>2. next = [job EXCEPT !.notes = rest, !.left = left - portion]
      BY Zenon
    <3>3. job' = next
      BY <1>8, <1>10, Zenon
    <3>4. job \in BaseJobs
      BY <1>2
    <3> HIDE DEF next, rest, left, portion
    <3>5. next.op = "base" /\ next.order = job.order /\ next.notes = rest
          /\ next.left = left - portion
      BY <3>2, <3>4, NextBaseJob
    <3> QED BY <3>1, <3>3, <3>5
  <2>5. IF portion > 0 THEN spends' = PutSpend(spends, a) /\ pool' = pool
                       ELSE pool' = Append(pool, b) /\ spends' = spends
    BY <1>8, <1>10
  <2>6. note.name \notin NamesOf(spends)
    BY <1>1, <1>2, <1>5 DEF JobFits
  <2>7. a.name = note.name /\ b.name = note.name
    OBVIOUS
  <2> HIDE DEF next, a, b, portion, order, note, rest, left, notes
  <2>8. CASE portion > 0
    <3>1. spends' = Append(spends, a) /\ pool' = pool
      BY <2>5, <2>6, <2>7, <2>8 DEF PutSpend
    <3> DEFINE sp == Append(spends, a)
    <3>2. a \in Entries /\ SpendsNote(order, note, a) /\ a.sb.fee = 0
          /\ Given(a.sb) = Away(order, portion)
      BY <2>3, <2>8
    <3>3. /\ sp # << >> /\ DOMAIN sp = 1..(Len(spends) + 1) /\ Len(spends) \in Nat
          /\ sp[Len(spends) + 1] = a /\ DOMAIN spends = 1..Len(spends)
          /\ \A i \in 1..Len(spends) : sp[i] = spends[i]
          /\ AwayTotal(sp) = AwayTotal(spends) + Given(a.sb)
      BY <1>2, <3>2, AppendParts, LenProperties
    <3>4. AllSpend(order, sp)
      BY <1>2, <1>6, <3>2, AllSpendAppend
    <3>5. NamesOf(sp) = NamesOf(spends) \cup {note.name}
      BY <1>2, <2>7, <3>2, AppendEntry
    <3> HIDE DEF sp
    <3>6. BaseFits(next, sp)
      <4>1. \A i \in DOMAIN rest : \E m \in DOMAIN order.notes : rest[i] = order.notes[m]
        BY <1>4, <1>5 DEF BaseFits, order, notes
      <4>2. left <= order.gift
        BY <1>4 DEF BaseFits, order, left
      <4>3. \A i \in DOMAIN sp : sp[i].sb.fee = 0
        <5>1. \A i \in DOMAIN spends : spends[i].sb.fee = 0
          BY <1>4 DEF BaseFits
        <5> QED BY <3>2, <3>3, <5>1
      <4>4. AwayTotal(sp) = Away(order, order.gift - (left - portion))
        <5>1. AwayTotal(spends) = Away(order, order.gift - left)
          BY <1>4 DEF BaseFits, order, left
        <5> QED BY <1>2, <1>3, <2>1, <3>2, <3>3, <4>2, <5>1, GiftGoesOn
      <4>5. left - portion > 0 =>
              (order.gift - (left - portion)) + Purse(rest) = Purse(order.notes)
        <5> SUFFICES ASSUME left - portion > 0
                     PROVE (order.gift - (left - portion)) + Purse(rest) = Purse(order.notes)
          OBVIOUS
        <5>1. left > 0 /\ portion = note.assets
          BY <1>3, <1>5, <2>1
        <5>2. (order.gift - left) + Purse(notes) = Purse(order.notes)
          BY <1>4, <5>1 DEF BaseFits, order, left, notes
        <5> QED BY <1>2, <1>3, <1>5, <2>1, <5>1, <5>2
      <4>6. left - portion <= order.gift
        BY <1>2, <1>3, <2>1, <4>2
      <4> QED BY <2>4, <3>3, <4>1, <4>3, <4>4, <4>5, <4>6 DEF BaseFits
    <3>7. NamesOf(order.notes) \subseteq NamesOf(sp) \cup NamesOf(pool) \cup NamesOf(rest)
      BY <1>4, <1>5, <3>5 DEF order, notes
    <3>8. PaymentFits(next, sp, pool)
      BY <1>2, <2>4, <3>4, <3>6, <3>7 DEF PaymentFits
    <3>9. PaymentFits(job', spends', pool')
      BY <2>4, <3>1, <3>8 DEF sp
    <3> QED BY <1>1, <1>7, <2>4, <3>9, RunKeeps, StillPaying DEF Promised, Idle, order
  <2>9. CASE ~ (portion > 0)
    <3>1. spends' = spends /\ pool' = Append(pool, b) /\ portion = 0
      BY <2>1, <2>5, <2>9
    <3> DEFINE pl == Append(pool, b)
    <3>2. AllKeep(order, pl)
      BY <1>2, <1>6, <2>2, AllKeepAppend
    <3>3. NamesOf(pl) = NamesOf(pool) \cup {note.name}
      BY <1>2, <2>2, <2>7, AppendEntry
    <3> HIDE DEF pl
    <3>4. left - portion = left
      BY <1>3, <3>1
    <3>5. BaseFits(next, spends)
      <4>1. \A i \in DOMAIN rest : \E m \in DOMAIN order.notes : rest[i] = order.notes[m]
        BY <1>4, <1>5 DEF BaseFits, order, notes
      <4>2. /\ left <= order.gift /\ (\A i \in DOMAIN spends : spends[i].sb.fee = 0)
            /\ AwayTotal(spends) = Away(order, order.gift - left)
            /\ (left < order.gift => spends # << >>)
        BY <1>4 DEF BaseFits, order, left
      <4>3. left > 0 => (order.gift - left) + Purse(rest) = Purse(order.notes)
        <5> SUFFICES ASSUME left > 0
                     PROVE (order.gift - left) + Purse(rest) = Purse(order.notes)
          OBVIOUS
        <5>1. note.assets = 0
          BY <1>3, <1>5, <2>1, <3>1
        <5>2. (order.gift - left) + Purse(notes) = Purse(order.notes)
          BY <1>4 DEF BaseFits, order, left, notes
        <5> QED BY <1>5, <5>1, <5>2
      <4> QED BY <2>4, <3>4, <4>1, <4>2, <4>3 DEF BaseFits
    <3>6. NamesOf(order.notes) \subseteq NamesOf(spends) \cup NamesOf(pl) \cup NamesOf(rest)
      BY <1>4, <1>5, <3>3 DEF order, notes
    <3>7. PaymentFits(next, spends, pl)
      BY <1>2, <2>4, <3>2, <3>5, <3>6 DEF PaymentFits
    <3>8. PaymentFits(job', spends', pool')
      BY <2>4, <3>1, <3>7 DEF pl
    <3> QED BY <1>1, <1>7, <2>4, <3>8, RunKeeps, StillPaying DEF Promised, Idle, order
  <2> QED BY <2>8, <2>9
<1> QED BY <1>9, <1>10

(* addPreimage changes the witnesses only.                                 *)
LEMMA UnlockedPays ==
  ASSUME NEW order \in Orders, order.preimage # NoPreimage, NEW d \in Digests,
         NEW sp, NEW pl, Holds(sp, pl), AllSpend(order, sp)
  PROVE  LET xs == AddPreimageToAll(sp, d)
         IN  /\ xs \in Seq(Entries) /\ NamesDiffer(xs) /\ NamesOf(xs) = NamesOf(sp)
             /\ Len(xs) = Len(sp) /\ AllSpend(order, xs)
             /\ \A i \in 1..Len(sp) : xs[i].sb.fee = sp[i].sb.fee
                                      /\ Given(xs[i].sb) = Given(sp[i].sb)
<1> DEFINE xs == AddPreimageToAll(sp, d)
<1>1. Holds(xs, pl) /\ NamesOf(xs) = NamesOf(sp)
  BY PreimagesHold
<1>2. sp \in Seq(Entries) /\ xs \in Seq(Entries) /\ NamesDiffer(xs)
  BY <1>1 DEF Holds
<1>3. DOMAIN xs = DOMAIN sp
      /\ \A i \in DOMAIN sp : xs[i] = [sp[i] EXCEPT !.sb = AddPreimage(sp[i].sb, d)]
  BY DEF AddPreimageToAll
<1> HIDE DEF xs
<1>4. Len(xs) = Len(sp) /\ DOMAIN sp = 1..Len(sp)
  BY <1>2, <1>3, EntryFields
<1>5. ASSUME NEW i \in DOMAIN sp
      PROVE  /\ xs[i].sb.fee = sp[i].sb.fee /\ Given(xs[i].sb) = Given(sp[i].sb)
             /\ \E k \in DOMAIN order.notes : SpendsNote(order, order.notes[k], xs[i])
  <2> DEFINE s == sp[i].sb
             t == AddPreimage(s, d)
             c == RefundGift(s)
             g == Given(s)
  <2>1. sp[i] \in Entries /\ s \in Spends /\ xs[i] \in Entries
    BY <1>2, <1>3, EntryFields
  <2>2. xs[i] = [sp[i] EXCEPT !.sb = t]
    BY <1>3
  <2>3. t.assets = s.assets /\ t.refund = s.refund /\ t.seeds = s.seeds /\ t.fee = s.fee
    BY <2>1, AddPreimageFields
  <2> HIDE DEF t
  <2>4. xs[i].name = sp[i].name /\ xs[i].sb = t
    BY <2>1, <2>2 DEF Entries
  <2>5. t \in Spends
    BY <2>1, <2>4 DEF Entries
  <2>6. PICK k \in DOMAIN order.notes : SpendsNote(order, order.notes[k], sp[i])
    BY DEF AllSpend
  <2>7. Splits(order, s, c, g)
    BY <2>6 DEF SpendsNote, Pays
  <2>8. c \in Nat /\ g \in Nat
    BY <2>1, RefundGiftType, GivenType
  <2>9. Given(t) = g
    BY <2>3 DEF Given
  <2> HIDE DEF c, g, s
  <2>10. Splits(order, t, c, g)
    BY <2>3, <2>7 DEF Splits
  <2>11. Pays(order, t)
    BY <2>5, <2>8, <2>10, SplitsPays
  <2>12. SpendsNote(order, order.notes[k], xs[i])
    BY <2>3, <2>4, <2>6, <2>11 DEF SpendsNote, s
  <2>13. xs[i].sb.fee = s.fee /\ Given(xs[i].sb) = g
    BY <2>3, <2>4, <2>9
  <2> QED BY <2>12, <2>13 DEF s, g
<1>6. AllSpend(order, xs)
  BY <1>3, <1>5 DEF AllSpend
<1>7. \A i \in 1..Len(sp) : xs[i].sb.fee = sp[i].sb.fee /\ Given(xs[i].sb) = Given(sp[i].sb)
  BY <1>4, <1>5
<1> QED BY <1>1, <1>2, <1>4, <1>6, <1>7 DEF xs

LEMMA SetFeeJobFields ==
  ASSUME NEW xs, NEW order, NEW target, NEW adjust, NEW include, CurFee(xs) < target
  PROVE  LET j == SetFeeJob(xs, order, target, adjust, include)
         IN  /\ j.op = "raise" /\ j.order = order /\ j.include = include /\ j.adjust = adjust
             /\ j.left = target - CurFee(xs)
             /\ \A i \in DOMAIN xs : HasRefund(xs[i].sb) => xs[i].name \in j.todo
<1> DEFINE taken == {i \in DOMAIN xs : HasRefund(xs[i].sb)}
           todo == {xs[i].name : i \in taken}
           j == SetFeeJob(xs, order, target, adjust, include)
           left == target - CurFee(xs)
           refunds == RefundCounts(xs)
<1>1. j = [op |-> "raise", order |-> order, todo |-> todo, left |-> left,
           target |-> target, adjust |-> adjust, include |-> include,
           refunds |-> refunds, back |-> << >>]
  BY DEF SetFeeJob
<1>2. \A i \in DOMAIN xs : HasRefund(xs[i].sb) => xs[i].name \in todo
  OBVIOUS
<1> HIDE DEF todo, left, refunds, j
<1>3. /\ j.op = "raise" /\ j.order = order /\ j.include = include /\ j.adjust = adjust
      /\ j.left = left /\ j.todo = todo
  BY <1>1
<1> QED BY <1>2, <1>3 DEF j, left

(* simpleSpendBase is through the notes; finishSimpleSpend sets the fee.   *)
LEMMA FeeBegins ==
  ASSUME PayInv, IInv', job # Idle, calls' = calls, pool' = pool,
         NEW order \in Orders, order = job.order, job.op = "base", NamesOf(job.notes) = {},
         NEW xs \in Seq(Entries), spends' = xs, xs # << >>, NamesDiffer(xs),
         AllSpend(order, xs), NamesOf(xs) = NamesOf(spends), CurFee(xs) = 0,
         AwayTotal(xs) = Away(order, order.gift), NEW target \in Nat, NEW adjust,
         adjust = (order.override = NoOverride),
         order.override # NoOverride => target = order.override,
         order.override = NoOverride => target = CalcFee(xs),
         SetFeeAndBalanceRefund(xs, order, target, adjust, order.include)
  PROVE  PayInv' /\ Promised
<1>1. /\ order \in SimpleSpends /\ order.gift > 0 /\ NamesDiffer(order.notes)
      /\ AllKeep(order, pool)
  BY PayFacts
<1>2. CASE CurFee(xs) = target
  <2>1. job' = Idle /\ result' = "ok"
    BY <1>2 DEF SetFeeAndBalanceRefund, Finish
  <2>2. order.override # NoOverride => CurFee(xs) = order.override
    BY <1>2
  <2>3. Promise!Next
    BY <1>1, <2>1, <2>2, PayStep
  <2>4. PayInv'
    BY <2>1, EndKeeps
  <2> QED BY <2>3, <2>4 DEF Promised
<1>3. CASE CurFee(xs) # target
  <2> DEFINE j == SetFeeJob(xs, order, target, adjust, order.include)
  <2>1. job' = j
    BY <1>3 DEF SetFeeAndBalanceRefund
  <2>2. CurFee(xs) < target
    BY <1>3
  <2>3. /\ j.op = "raise" /\ j.order = order /\ j.include = order.include /\ j.adjust = adjust
        /\ j.left = target - CurFee(xs)
        /\ \A i \in DOMAIN xs : HasRefund(xs[i].sb) => xs[i].name \in j.todo
    BY ONLY <2>2, SetFeeJobFields, Zenon
  <2> HIDE DEF j
  <2>4. CurFee(xs) + j.left = target
    BY <2>3
  <2>5. order.override = NoOverride => CurFee(xs) + j.left <= FeeBound(order, xs)
    BY <2>4, CalcFeeWithin
  <2>6. FeeFits(j, xs)
    BY <2>3, <2>4, <2>5 DEF FeeFits
  <2>7. NamesOf(order.notes) \subseteq NamesOf(xs) \cup NamesOf(pool)
    BY DEF PayInv, PaymentFits
  <2>8. PaymentFits(j, xs, pool)
    BY <1>1, <2>3, <2>6, <2>7 DEF PaymentFits
  <2>9. PaymentFits(job', spends', pool') /\ job' # Idle /\ job'.order = job.order
    BY <2>1, <2>3, <2>8 DEF Idle
  <2> QED BY <2>9, RunKeeps, StillPaying DEF Promised
<1> QED BY <1>2, <1>3

(* The spends when all notes are given out and the preimage, if any, has   *)
(* been put to them: the gift is paid, the fee is not.                     *)
UnlockedSpends(order) ==
  IF order.preimage = NoPreimage THEN spends ELSE AddPreimageToAll(spends, order.preimage)

LEMMA GiftIsPaid ==
  ASSUME PayInv, BaseEnd, ~ (job.left > 0),
         ~ (job.order.preimage # NoPreimage /\ ~ SomeClaims(spends, job.order.preimage))
  PROVE  LET xs == UnlockedSpends(job.order)
         IN  /\ spends' = xs /\ xs \in Seq(Entries) /\ NamesDiffer(xs) /\ xs # << >>
             /\ NamesOf(xs) = NamesOf(spends) /\ AllSpend(job.order, xs) /\ CurFee(xs) = 0
             /\ AwayTotal(xs) = Away(job.order, job.order.gift)
<1> DEFINE order == job.order
           left == job.left
           xs == UnlockedSpends(order)
<1>1. job.op = "base" /\ job.notes = << >> /\ calls' = calls /\ pool' = pool
  BY Zenon DEF BaseEnd
<1>2. job # Idle
  <2>1. Idle.op # "base"
    BY DEF Idle
  <2> QED BY <1>1, <2>1, Zenon
<1>3. /\ order \in SimpleSpends /\ order \in Orders /\ order.gift \in Nat /\ order.gift > 0
      /\ NamesDiffer(order.notes)
      /\ job \in BaseJobs /\ spends \in Seq(Entries) /\ NamesDiffer(spends)
      /\ AllSpend(order, spends) /\ AllKeep(order, pool)
  BY <1>1, <1>2, PayFacts
<1>4. left \in Nat
  BY <1>3 DEF BaseJobs
<1>5. BaseFits(job, spends) /\ Holds(spends, pool)
  BY <1>1, <1>2 DEF PayInv, PaymentFits, IInv
<1>7. spends' = xs /\ ~ (left > 0)
  BY Zenon DEF BaseEnd, UnlockedSpends
<1>9. BaseFits(job, spends) => /\ left <= order.gift
                              /\ (\A i \in DOMAIN spends : spends[i].sb.fee = 0)
                              /\ AwayTotal(spends) = Away(order, order.gift - left)
                              /\ (left < order.gift => spends # << >>)
                              /\ (left > 0 => (order.gift - left) + Purse(job.notes)
                                                = Purse(order.notes))
  BY DEF BaseFits
<1> HIDE DEF order, left, xs
<1>10. left = 0 /\ order.gift - left = order.gift /\ left < order.gift
  BY <1>3, <1>4, <1>7
<1>11. /\ xs \in Seq(Entries) /\ NamesDiffer(xs) /\ NamesOf(xs) = NamesOf(spends)
      /\ Len(xs) = Len(spends) /\ AllSpend(order, xs)
      /\ \A i \in 1..Len(spends) : xs[i].sb.fee = spends[i].sb.fee
                                   /\ Given(xs[i].sb) = Given(spends[i].sb)
  <2>1. CASE order.preimage = NoPreimage
    <3>1. xs = spends
      BY <2>1 DEF xs, UnlockedSpends
    <3> QED BY <1>3, <3>1
  <2>2. CASE order.preimage # NoPreimage
    <3>1. xs = AddPreimageToAll(spends, order.preimage)
      BY <2>2 DEF xs, UnlockedSpends
    <3>2. order.preimage \in Digests
      BY <1>3, <2>2, OrderFields
    <3> HIDE DEF xs
    <3>3. /\ order \in Orders /\ order.preimage # NoPreimage
          /\ order.preimage \in Digests
          /\ Holds(spends, pool) /\ AllSpend(order, spends)
      BY <1>3, <1>5, <2>2, <3>2, Zenon
    <3> QED BY ONLY <3>1, <3>3, UnlockedPays, ZenonT(30)
  <2> QED BY <2>1, <2>2
<1>12. DOMAIN xs = 1..Len(spends) /\ DOMAIN spends = 1..Len(spends) /\ Len(spends) \in Nat
  BY <1>3, <1>11, LenProperties
<1>13. \A i \in DOMAIN xs : xs[i].sb.fee = 0
  BY <1>5, <1>9, <1>11, <1>12
<1>14. CurFee(xs) = 0
  BY <1>11, <1>13, NoParts
<1>15. AwayTotal(xs) = Away(order, order.gift)
  BY <1>5, <1>9, <1>10, <1>11, SameParts
<1>16. xs # << >>
  <2>1. spends # << >>
    BY <1>5, <1>9, <1>10
  <2> QED BY <1>3, <1>11, <2>1, EmptySeq
<1> QED BY <1>7, <1>11, <1>14, <1>15, <1>16 DEF xs, order

LEMMA BaseEndPays ==
  ASSUME PayInv, BaseEnd
  PROVE  PayInv' /\ Promised
<1> DEFINE order == job.order
           left == job.left
           xs == IF order.preimage = NoPreimage THEN spends
                 ELSE AddPreimageToAll(spends, order.preimage)
<1>1. job.op = "base" /\ job.notes = << >> /\ calls' = calls /\ pool' = pool
  BY Zenon DEF BaseEnd
<1>2. job # Idle
  <2>1. Idle.op # "base"
    BY DEF Idle
  <2> QED BY <1>1, <2>1, Zenon
<1>3. /\ order \in SimpleSpends /\ order \in Orders /\ order.gift \in Nat /\ order.gift > 0
      /\ NamesDiffer(order.notes)
      /\ job \in BaseJobs /\ spends \in Seq(Entries) /\ NamesDiffer(spends)
      /\ AllSpend(order, spends) /\ AllKeep(order, pool)
  BY <1>1, <1>2, PayFacts
<1>4. left \in Nat
  BY <1>3 DEF BaseJobs
<1>5. BaseFits(job, spends) /\ Holds(spends, pool)
  BY <1>1, <1>2 DEF PayInv, PaymentFits, IInv
<1>6. IInv'
  BY BaseEndKeeps DEF PayInv
<1>7. IF left > 0
      THEN Finish("Insufficient funds to pay fee and gift") /\ UNCHANGED spends
      ELSE IF order.preimage # NoPreimage /\ ~ SomeClaims(spends, order.preimage)
      THEN Finish("preimage does not match any spend condition hax unlock") /\ UNCHANGED spends
      ELSE /\ spends' = xs
           /\ IF order.override = NoOverride
              THEN SetFeeAndBalanceRefund(xs, order, CalcFee(xs), TRUE, order.include)
              ELSE SetFeeAndBalanceRefund(xs, order, order.override, FALSE, order.include)
  BY Zenon DEF BaseEnd
<1>8. job.order = order
  OBVIOUS
<1>9. BaseFits(job, spends) => /\ left <= order.gift
                              /\ (\A i \in DOMAIN spends : spends[i].sb.fee = 0)
                              /\ AwayTotal(spends) = Away(order, order.gift - left)
                              /\ (left < order.gift => spends # << >>)
                              /\ (left > 0 => (order.gift - left) + Purse(job.notes)
                                                = Purse(order.notes))
  BY DEF BaseFits
<1> HIDE DEF order, left, xs
<1>10. CASE left > 0
  <2>1. job' = Idle /\ result' = "Insufficient funds to pay fee and gift"
    BY <1>7, <1>10, Zenon DEF Finish
  <2>2. result' \in Refusals
    BY <2>1, Zenon DEF Refusals
  <2>3. Promise!Worth(order, Promise!NamesIn(order)) < order.gift
    <3>1. Purse(order.notes) = (order.gift - left) + 0
      BY <1>1, <1>5, <1>9, <1>10, EmptyPurse
    <3>2. Purse(order.notes) < order.gift
      BY <1>3, <1>4, <1>10, <3>1
    <3> QED BY <1>3, <3>2, WorthOfAll
  <2>4. Promise!Next
    BY <1>2, <1>8, <2>1, <2>2, <2>3, RefuseStep, Zenon
  <2>5. PayInv'
    BY <1>1, <1>2, <1>6, <2>1, EndKeeps, Zenon
  <2> QED BY <2>4, <2>5, Zenon DEF Promised
<1>11. CASE ~ (left > 0) /\ order.preimage # NoPreimage /\ ~ SomeClaims(spends, order.preimage)
  <2>1. job' = Idle /\ result' = "preimage does not match any spend condition hax unlock"
    BY <1>7, <1>11, Zenon DEF Finish
  <2>2. result' \in Refusals
    BY <2>1, Zenon DEF Refusals
  <2>3. Promise!Next
    BY <1>2, <1>8, <1>11, <2>1, <2>2, RefuseStep, Zenon
  <2>4. PayInv'
    BY <1>1, <1>2, <1>6, <2>1, EndKeeps, Zenon
  <2> QED BY <2>3, <2>4, Zenon DEF Promised
<1>12. CASE ~ (left > 0)
            /\ ~ (order.preimage # NoPreimage /\ ~ SomeClaims(spends, order.preimage))
  <2>1. /\ spends' = xs
        /\ IF order.override = NoOverride
           THEN SetFeeAndBalanceRefund(xs, order, CalcFee(xs), TRUE, order.include)
           ELSE SetFeeAndBalanceRefund(xs, order, order.override, FALSE, order.include)
    BY <1>7, <1>12, Zenon
  <2>3. /\ xs \in Seq(Entries) /\ NamesDiffer(xs) /\ NamesOf(xs) = NamesOf(spends)
        /\ AllSpend(order, xs) /\ CurFee(xs) = 0 /\ xs # << >>
        /\ AwayTotal(xs) = Away(order, order.gift)
    <3>1. /\ ~ (job.left > 0)
          /\ ~ (job.order.preimage # NoPreimage /\ ~ SomeClaims(spends, job.order.preimage))
      BY <1>12, Zenon DEF left, order
    <3>2. xs = UnlockedSpends(job.order)
      BY Zenon DEF xs, order, UnlockedSpends
    <3> QED BY <1>8, <3>1, <3>2, GiftIsPaid, Zenon
  <2>9. NamesOf(job.notes) = {}
    BY <1>1, EmptyPurse
  <2>10. order.override \in Nat \cup {NoOverride} /\ NoOverride \notin Nat /\ CalcFee(xs) \in Nat
    BY <1>3, <2>3, OrderFields, TxBuilderAssumption, CalcFeeType
  <2>11. CASE order.override = NoOverride
    <3> DEFINE target == CalcFee(xs)
    <3>1. SetFeeAndBalanceRefund(xs, order, target, TRUE, order.include)
      BY <2>1, <2>11
    <3>2. target \in Nat /\ TRUE = (order.override = NoOverride)
      BY <2>10, <2>11
    <3> HIDE DEF target
    <3>3. target = CalcFee(xs)
      BY DEF target
    <3> QED BY <1>1, <1>2, <1>3, <1>6, <1>8, <2>1, <2>3, <2>9, <2>11,
               <3>1, <3>2, <3>3, FeeBegins, Zenon
  <2>12. CASE order.override # NoOverride
    <3> DEFINE target == order.override
    <3>1. SetFeeAndBalanceRefund(xs, order, target, FALSE, order.include)
      BY <2>1, <2>12
    <3>2. target \in Nat /\ FALSE = (order.override = NoOverride)
      BY <2>10, <2>12
    <3> HIDE DEF target
    <3>3. target = order.override
      BY DEF target
    <3> QED BY <1>1, <1>2, <1>3, <1>6, <1>8, <2>1, <2>3, <2>9, <2>12,
               <3>1, <3>2, <3>3, FeeBegins, Zenon
  <2> QED BY <2>11, <2>12
<1> QED BY <1>10, <1>11, <1>12

(* The fee is taken from the change of a spend.                            *)
LEMMA NextFeeJob ==
  ASSUME NEW j \in FeeJobs, NEW todo, NEW left
  PROVE  LET n == [j EXCEPT !.todo = todo, !.left = left]
         IN  /\ n.op = j.op /\ n.order = j.order /\ n.include = j.include
             /\ n.adjust = j.adjust /\ n.todo = todo /\ n.left = left
BY DEF FeeJobs

LEMMA NextTodo ==
  ASSUME NEW j \in FeeJobs, NEW todo
  PROVE  LET n == [j EXCEPT !.todo = todo]
         IN  /\ n.op = j.op /\ n.order = j.order /\ n.include = j.include
             /\ n.adjust = j.adjust /\ n.todo = todo /\ n.left = j.left
BY DEF FeeJobs

LEMMA TakenSize ==
  ASSUME NEW s, CurRefund(s).gift \in Nat, NEW wanted \in Nat
  PROVE  LET sub == TakenFromRefund(s, wanted)
         IN  /\ sub \in Nat /\ sub <= CurRefund(s).gift /\ sub <= wanted
             /\ sub < wanted => sub = CurRefund(s).gift
BY DEF TakenFromRefund, SmallerOf

(* One spend s of a payment becomes t, which pays sub more for the fee.    *)
LEMMA SpendPaysMore ==
  ASSUME NEW order \in Orders, NEW xs \in Seq(Entries), AllSpend(order, xs),
         NEW i \in DOMAIN xs, NEW sub \in Nat, sub <= RefundGift(xs[i].sb)
  PROVE  LET s == xs[i].sb
             t == FeeChanged(s, s.fee + sub, order.include)
             ys == [xs EXCEPT ![i].sb = t]
         IN  /\ ~ FeeChangeThrows(s, s.fee + sub, order.include)
             /\ ys \in Seq(Entries) /\ Len(ys) = Len(xs) /\ SameNames(xs, ys)
             /\ ys[i].sb = t /\ (\A m \in DOMAIN xs : m # i => ys[m] = xs[m])
             /\ AllSpend(order, ys) /\ AwayTotal(ys) = AwayTotal(xs)
             /\ CurFee(ys) = CurFee(xs) + sub
             /\ HasRefund(t) <=> sub # RefundGift(s)
             /\ order.preimage = NoPreimage => FeeBound(order, ys) = FeeBound(order, xs)
<1> DEFINE s == xs[i].sb
           c == RefundGift(s)
           g == Given(s)
           t == FeeChanged(s, s.fee + sub, order.include)
           ys == [xs EXCEPT ![i].sb = t]
<1>1. s \in Spends /\ DOMAIN xs = 1..Len(xs) /\ Len(xs) \in Nat
  BY EntryFields
<1>2. PICK k \in DOMAIN order.notes : SpendsNote(order, order.notes[k], xs[i])
  BY DEF AllSpend
<1>3. /\ Pays(order, s) /\ s.assets = order.notes[k].assets /\ xs[i].name = order.notes[k].name
      /\ (order.preimage = NoPreimage => s.witness = order.notes[k].witness)
      /\ order.notes[k].witness.sigs = NoSigs
  BY <1>2, NotesOfOrder DEF SpendsNote
<1>4. c \in Nat /\ g \in Nat /\ s.fee \in Nat /\ Splits(order, s, c, g) /\ sub <= c
  BY <1>1, <1>3, SpendSplits
<1>5. /\ t \in Spends /\ t.assets = s.assets /\ t.fee = s.fee + sub
      /\ Splits(order, t, c - sub, g)
      /\ (s.witness.sigs = NoSigs => t.witness = s.witness)
      /\ ~ FeeChangeThrows(s, s.fee + sub, order.include)
  <2>1. order \in Orders /\ s \in Spends /\ c \in Nat /\ g \in Nat /\ Splits(order, s, c, g)
        /\ sub \in Nat /\ sub <= c
    BY <1>1, <1>4
  <2> HIDE DEF s, c, g
  <2>2. /\ FeeChanged(s, s.fee + sub, order.include) \in Spends
        /\ FeeChanged(s, s.fee + sub, order.include).assets = s.assets
        /\ FeeChanged(s, s.fee + sub, order.include).fee = s.fee + sub
        /\ Splits(order, FeeChanged(s, s.fee + sub, order.include), c - sub, g)
        /\ (s.witness.sigs = NoSigs
              => FeeChanged(s, s.fee + sub, order.include).witness = s.witness)
        /\ ~ FeeChangeThrows(s, s.fee + sub, order.include)
    BY ONLY <2>1, FeeChangeSplits
  <2> QED BY <2>2, Zenon
<1>6. /\ ys \in Seq(Entries) /\ Len(ys) = Len(xs) /\ SameNames(xs, ys) /\ ys[i].sb = t
      /\ \A m \in DOMAIN xs : m # i => ys[m] = xs[m]
  <2>1. xs \in Seq(Entries) /\ i \in DOMAIN xs /\ t \in Spends
    BY <1>5
  <2> HIDE DEF t
  <2>2. [xs EXCEPT ![i].sb = t] \in Seq(Entries)
    BY ONLY <2>1, ReplaceEffect
  <2>3. /\ Len([xs EXCEPT ![i].sb = t]) = Len(xs) /\ SameNames(xs, [xs EXCEPT ![i].sb = t])
        /\ [xs EXCEPT ![i].sb = t][i].sb = t
    BY ONLY <2>1, ReplaceEffect
  <2>4. \A m \in DOMAIN xs : m # i => [xs EXCEPT ![i].sb = t][m] = xs[m]
    BY ONLY <2>1, ReplaceEffect
  <2> QED BY <2>2, <2>3, <2>4, Zenon
<1> HIDE DEF s, c, g, t, ys
<1>7. c - sub \in Nat /\ (c - sub # 0 <=> sub # c)
  BY <1>4
<1>8. /\ (HasRefund(t) <=> c - sub # 0) /\ Given(t) = g
  BY <1>4, <1>5, <1>7, ChangeIsRefund
<1>9. Given(s) = g /\ RefundGift(s) = c /\ xs[i].sb = s
  BY DEF g, c, s
<1>10. CurFee(ys) + s.fee = CurFee(xs) + t.fee /\ AwayTotal(ys) + g = AwayTotal(xs) + g
  <2>1. /\ CurFee(ys) + xs[i].sb.fee = CurFee(xs) + ys[i].sb.fee
        /\ AwayTotal(ys) + Given(xs[i].sb) = AwayTotal(xs) + Given(ys[i].sb)
    BY <1>6, ReplaceParts
  <2> QED BY <1>6, <1>8, <1>9, <2>1
<1>11. /\ CurFee(ys) \in Nat /\ CurFee(xs) \in Nat /\ AwayTotal(ys) \in Nat /\ AwayTotal(xs) \in Nat
  BY <1>6, SpendParts
<1>12. CurFee(ys) = CurFee(xs) + sub /\ AwayTotal(ys) = AwayTotal(xs)
  <2>1. CurFee(ys) + s.fee = CurFee(xs) + (s.fee + sub)
    BY <1>5, <1>10, Zenon
  <2> DEFINE a == CurFee(ys)
             b == CurFee(xs)
             d == s.fee
             u == AwayTotal(ys)
             v == AwayTotal(xs)
  <2>2. a \in Nat /\ b \in Nat /\ d \in Nat /\ u \in Nat /\ v \in Nat /\ sub \in Nat /\ g \in Nat
    BY <1>4, <1>11
  <2>3. a + d = b + (d + sub) /\ u + g = v + g
    BY <1>10, <2>1
  <2> HIDE DEF a, b, d, u, v
  <2>4. a = b + sub /\ u = v
    BY ONLY <2>2, <2>3
  <2> QED BY <2>4 DEF a, b, u, v
<1>13. order.preimage = NoPreimage => t.witness = s.witness
  BY <1>3, <1>5
<1>14. SpendsNote(order, order.notes[k], ys[i])
  <2>1. Pays(order, t)
    BY <1>4, <1>5, <1>7, SplitsPays
  <2>2. ys[i].name = order.notes[k].name
    BY <1>3, <1>6 DEF SameNames
  <2> QED BY <1>3, <1>5, <1>6, <1>13, <2>1, <2>2 DEF SpendsNote
<1>15. AllSpend(order, ys)
  <2>1. DOMAIN ys = DOMAIN xs
    BY <1>6 DEF SameNames
  <2> QED BY <1>6, <1>14, <2>1 DEF AllSpend
<1>16. order.preimage = NoPreimage => FeeBound(order, ys) = FeeBound(order, xs)
  <2> SUFFICES ASSUME order.preimage = NoPreimage
               PROVE FeeBound(order, ys) = FeeBound(order, xs)
    OBVIOUS
  <2>1. \A m \in 1..Len(xs) : ys[m].sb.witness = xs[m].sb.witness
    BY <1>1, <1>6, <1>9, <1>13
  <2> QED BY <1>6, <2>1, BoundSame
<1>17. HasRefund(t) <=> sub # RefundGift(s)
  BY <1>7, <1>8, <1>9
<1> QED BY <1>5, <1>6, <1>12, <1>15, <1>16, <1>17, Zenon DEF s, t, ys

LEMMA RaiseStepPays ==
  ASSUME PayInv, NEW i \in DOMAIN spends, RaiseStep(i)
  PROVE  PayInv' /\ Promised
<1> DEFINE order == job.order
           s == spends[i].sb
           c == RefundGift(s)
           left == job.left
           sub == TakenFromRefund(s, left)
           fee == s.fee + sub
           paid == FeeChanged(s, fee, job.include)
           dropped == CostPerWord * NoteDataWords(CurRefund(s).data)
           rebate == IF job.adjust /\ ~ HasRefund(paid) THEN SmallerOf(left - sub, dropped) ELSE 0
           todo == job.todo \ {spends[i].name}
           more == left - sub - rebate
           next == [job EXCEPT !.todo = todo, !.left = more]
           skipped == [job EXCEPT !.todo = todo]
<1>1. /\ job.op = "raise" /\ i \in Todo /\ calls' = calls /\ pool' = pool
      /\ IF sub = 0
         THEN job' = skipped /\ spends' = spends
         ELSE /\ spends' = [spends EXCEPT ![i].sb = paid]
              /\ IF FeeChangeThrows(s, fee, job.include) THEN Finish(LockIsHash)
                 ELSE job' = next
  BY Zenon DEF RaiseStep, RaiseNext
<1>2. job # Idle
  <2>1. Idle.op # "raise"
    BY DEF Idle
  <2> QED BY <1>1, <2>1, Zenon
<1>3. /\ order \in SimpleSpends /\ order \in Orders /\ order.gift > 0
      /\ job \in FeeJobs /\ spends \in Seq(Entries) /\ NamesDiffer(spends)
      /\ AllSpend(order, spends) /\ AllKeep(order, pool) /\ JobFits(job, spends, pool)
  BY <1>1, <1>2, PayFacts
<1>4. left \in Nat /\ job.adjust \in BOOLEAN
  BY <1>3 DEF FeeJobs
<1>5. /\ FeeFits(job, spends)
      /\ NamesOf(order.notes) \subseteq NamesOf(spends) \cup NamesOf(pool)
  BY <1>1, <1>2 DEF PayInv, PaymentFits
<1>6. /\ spends # << >> /\ job.include = order.include
      /\ job.adjust = (order.override = NoOverride)
      /\ AwayTotal(spends) = Away(order, order.gift)
      /\ (order.override # NoOverride => CurFee(spends) + left = order.override)
      /\ (order.override = NoOverride /\ order.preimage = NoPreimage
            => CurFee(spends) + left <= FeeBound(order, spends))
      /\ left > 0 => \A m \in DOMAIN spends : HasRefund(spends[m].sb) => spends[m].name \in job.todo
  BY <1>5 DEF FeeFits
<1>7. IInv'
  BY RaiseStepKeeps DEF PayInv
<1>8. s \in Spends /\ HasRefund(s)
  <2>1. spends[i].name \in job.todo
    BY <1>1 DEF Todo
  <2> QED BY <1>1, <1>3, <2>1, EntryFields DEF JobFits
<1>9. c \in Nat /\ c # 0 /\ CurRefund(s).gift = c /\ dropped \in Nat
  <2>1. c \in Nat /\ CurRefund(s).gift = c
    BY <1>8, RefundGiftType DEF RefundGift
  <2>2. Pays(order, s)
    BY <1>3 DEF AllSpend, SpendsNote
  <2>3. c # 0
    <3> HIDE DEF c, s
    <3>1. HasRefund(s) <=> RefundGift(s) # 0
      BY <1>3, <1>8, <2>2, SpendSplits
    <3> QED BY <1>8, <3>1 DEF c
  <2>4. CurRefund(s) \in Seeds
    BY <1>8, CurRefundType
  <2>5. CostPerWord \in Nat /\ NoteDataWords(CurRefund(s).data) \in Nat
    BY <2>4, SpendAssumption, NoteDataWordsType DEF Seeds
  <2>6. dropped \in Nat
    BY <2>5
  <2> QED BY <2>1, <2>3, <2>6
<1>10. /\ sub \in Nat /\ sub <= c /\ sub <= left /\ (sub < left => sub = c)
  <2> HIDE DEF c, s, left
  <2> QED BY <1>4, <1>9, TakenSize, Zenon
<1>11. job.order = order /\ job.include = order.include
  BY <1>6
<1>12. /\ skipped.op = "raise" /\ skipped.order = order /\ skipped.include = order.include
       /\ skipped.adjust = job.adjust /\ skipped.todo = todo /\ skipped.left = left
       /\ next.op = "raise" /\ next.order = order /\ next.include = order.include
       /\ next.adjust = job.adjust /\ next.todo = todo /\ next.left = more
  <2>1. job \in FeeJobs /\ job.op = "raise" /\ job.order = order /\ job.include = order.include
        /\ job.left = left
    BY <1>1, <1>3, <1>11
  <2> HIDE DEF order, left, todo, more
  <2> QED BY <2>1, NextFeeJob, NextTodo
<1>13. paid = FeeChanged(s, s.fee + sub, order.include) /\ fee = s.fee + sub
  BY <1>11
<1>14. /\ rebate \in Nat /\ rebate <= left - sub /\ (~ job.adjust => rebate = 0)
  BY <1>4, <1>9, <1>10 DEF SmallerOf
<1> HIDE DEF left, sub, dropped, rebate, next, skipped, order, c
<1>15. CASE sub = 0
  <2>1. job' = skipped /\ spends' = spends
    BY <1>1, <1>15
  <2>2. left = 0
    BY <1>4, <1>9, <1>10, <1>15
  <2>3. FeeFits(skipped, spends)
    BY <1>6, <1>12, <2>2 DEF FeeFits
  <2>4. PaymentFits(skipped, spends, pool)
    BY <1>3, <1>5, <1>12, <2>3 DEF PaymentFits
  <2>5. PaymentFits(job', spends', pool') /\ job' # Idle /\ job'.order = job.order
    BY <1>1, <1>11, <1>12, <2>1, <2>4 DEF Idle
  <2> QED BY <1>1, <1>2, <1>7, <2>5, RunKeeps, StillPaying DEF Promised
<1>16. CASE sub # 0
  <2> DEFINE ys == [spends EXCEPT ![i].sb = paid]
  <2>1. /\ ~ FeeChangeThrows(s, fee, job.include)
        /\ ys \in Seq(Entries) /\ Len(ys) = Len(spends) /\ SameNames(spends, ys)
        /\ ys[i].sb = paid /\ (\A m \in DOMAIN spends : m # i => ys[m] = spends[m])
        /\ AllSpend(order, ys) /\ AwayTotal(ys) = AwayTotal(spends)
        /\ CurFee(ys) = CurFee(spends) + sub
        /\ HasRefund(paid) <=> sub # c
        /\ order.preimage = NoPreimage => FeeBound(order, ys) = FeeBound(order, spends)
    <3>1. order \in Orders /\ spends \in Seq(Entries) /\ AllSpend(order, spends)
          /\ i \in DOMAIN spends /\ sub \in Nat /\ sub <= RefundGift(spends[i].sb)
      BY <1>3, <1>10 DEF c
    <3> HIDE DEF s, paid, fee
    <3>2. spends[i].sb = s /\ RefundGift(s) = c /\ fee = s.fee + sub /\ job.include = order.include
          /\ paid = FeeChanged(s, s.fee + sub, order.include)
      BY <1>11, <1>13 DEF s, c
    <3> HIDE DEF ys
    <3>3. ys = [spends EXCEPT ![i].sb = FeeChanged(s, s.fee + sub, order.include)]
      BY <3>2 DEF ys
    <3>4. LET sb == spends[i].sb
              t == FeeChanged(sb, sb.fee + sub, order.include)
              zs == [spends EXCEPT ![i].sb = t]
          IN  /\ ~ FeeChangeThrows(sb, sb.fee + sub, order.include)
              /\ zs \in Seq(Entries) /\ Len(zs) = Len(spends) /\ SameNames(spends, zs)
              /\ zs[i].sb = t /\ (\A m \in DOMAIN spends : m # i => zs[m] = spends[m])
              /\ AllSpend(order, zs) /\ AwayTotal(zs) = AwayTotal(spends)
              /\ CurFee(zs) = CurFee(spends) + sub
              /\ HasRefund(t) <=> sub # RefundGift(sb)
              /\ order.preimage = NoPreimage => FeeBound(order, zs) = FeeBound(order, spends)
      BY ONLY <3>1, SpendPaysMore, Zenon
    <3> QED BY <3>2, <3>3, <3>4, Zenon
  <2>2. spends' = ys /\ job' = next
    BY <1>1, <1>16, <2>1
  <2> HIDE DEF paid, s, ys, fee
  <2>3. more \in Nat /\ more <= left - sub /\ (~ job.adjust => more = left - sub)
    BY <1>4, <1>10, <1>14
  <2>4. CurFee(spends) \in Nat /\ FeeBound(order, spends) \in Nat
    BY <1>3, SpendParts, BoundParts
  <2> HIDE DEF more
  <2>5. order.override # NoOverride => CurFee(ys) + more = order.override
    <3> SUFFICES ASSUME order.override # NoOverride PROVE CurFee(ys) + more = order.override
      OBVIOUS
    <3>1. more = left - sub /\ CurFee(spends) + left = order.override
      BY <1>6, <2>3
    <3> QED BY <1>4, <1>10, <2>1, <2>4, <3>1
  <2>6. order.override = NoOverride /\ order.preimage = NoPreimage
          => CurFee(ys) + more <= FeeBound(order, ys)
    <3> SUFFICES ASSUME order.override = NoOverride, order.preimage = NoPreimage
                 PROVE CurFee(ys) + more <= FeeBound(order, ys)
      OBVIOUS
    <3>1. /\ CurFee(spends) + left <= FeeBound(order, spends)
          /\ FeeBound(order, ys) = FeeBound(order, spends)
      BY <1>6, <2>1
    <3> QED BY <1>4, <1>10, <2>1, <2>3, <2>4, <3>1
  <2>7. more > 0 => \A m \in DOMAIN ys : HasRefund(ys[m].sb) => ys[m].name \in todo
    <3> SUFFICES ASSUME more > 0, NEW m \in DOMAIN ys, HasRefund(ys[m].sb)
                 PROVE ys[m].name \in todo
      OBVIOUS
    <3>1. left > 0 /\ sub = c
      BY <1>4, <1>10, <2>3
    <3>2. m # i
      BY <2>1, <3>1
    <3>3. m \in DOMAIN spends /\ ys[m] = spends[m]
      BY <2>1, <3>2 DEF SameNames
    <3>4. spends[m].name \in job.todo
      BY <1>6, <3>1, <3>3
    <3>5. spends[m].name # spends[i].name
      BY <1>3, <3>2, <3>3 DEF NamesDiffer
    <3> QED BY <3>3, <3>4, <3>5
  <2>8. ys # << >>
    <3>1. DOMAIN ys = DOMAIN spends
      BY <2>1 DEF SameNames
    <3>2. ys = << >> => DOMAIN ys = {}
      OBVIOUS
    <3> QED BY <3>1, <3>2
  <2> HIDE DEF todo
  <2>9. FeeFits(next, ys)
    BY <1>6, <1>12, <2>1, <2>5, <2>6, <2>7, <2>8 DEF FeeFits
  <2>10. NamesOf(ys) = NamesOf(spends)
    BY <2>1, SameNamesEffect
  <2>11. PaymentFits(next, ys, pool)
    BY <1>3, <1>5, <1>12, <2>1, <2>9, <2>10 DEF PaymentFits
  <2>12. PaymentFits(job', spends', pool') /\ job' # Idle /\ job'.order = job.order
    BY <1>1, <1>11, <1>12, <2>2, <2>11 DEF Idle
  <2> QED BY <1>1, <1>2, <1>7, <2>12, RunKeeps, StillPaying DEF Promised
<1> QED BY <1>15, <1>16

LEMMA RaiseEndPays ==
  ASSUME PayInv, RaiseEnd
  PROVE  PayInv' /\ Promised
<1> DEFINE next == [job EXCEPT !.op = "pool"]
<1>1. /\ job.op = "raise" /\ job.todo = {} /\ job' = next /\ calls' = calls
      /\ spends' = spends /\ pool' = pool
  BY Zenon DEF RaiseEnd
<1>2. job # Idle
  <2>1. Idle.op # "raise"
    BY DEF Idle
  <2> QED BY <1>1, <2>1, Zenon
<1>3. job \in FeeJobs
  BY <1>1, <1>2, PayFacts
<1>4. /\ next.op = "pool" /\ next.order = job.order /\ next.include = job.include
      /\ next.adjust = job.adjust /\ next.left = job.left
  BY <1>3 DEF FeeJobs
<1>5. PaymentFits(job, spends, pool)
  BY <1>2 DEF PayInv
<1>6. IInv'
  BY RaiseEndKeeps DEF PayInv
<1> HIDE DEF next
<1>7. FeeFits(next, spends)
  <2>1. FeeFits(job, spends)
    BY <1>1, <1>5 DEF PaymentFits
  <2> QED BY <1>1, <1>4, <2>1 DEF FeeFits
<1>8. PaymentFits(next, spends, pool)
  BY <1>1, <1>4, <1>5, <1>7 DEF PaymentFits
<1>9. PaymentFits(job', spends', pool') /\ job' # Idle /\ job'.order = job.order
  BY <1>1, <1>4, <1>8 DEF Idle
<1> QED BY <1>1, <1>2, <1>6, <1>9, RunKeeps, StillPaying DEF Promised

-----------------------------------------------------------------------------
(* A note is taken from the pool.                                          *)

LEMMA AllKeepMembers ==
  ASSUME NEW order, NEW xs, NEW ys, AllKeep(order, xs), Range(ys) \subseteq Range(xs)
  PROVE  AllKeep(order, ys)
<1> SUFFICES ASSUME NEW i \in DOMAIN ys
             PROVE \E k \in DOMAIN order.notes : KeepsNote(order, order.notes[k], ys[i])
  BY DEF AllKeep
<1>1. ys[i] \in Range(xs)
  BY DEF Range
<1>2. PICK j \in DOMAIN xs : xs[j] = ys[i]
  BY <1>1 DEF Range
<1> QED BY <1>2 DEF AllKeep

(* All of a note that was kept for the fee is change.                      *)
LEMMA KeptRefund ==
  ASSUME NEW order \in Orders, NEW note, NEW e \in Entries, KeepsNote(order, note, e)
  PROVE  LET r == ComputeRefund(e.sb, order.include)
         IN  /\ r \in Spends /\ r.fee = 0 /\ r.assets = e.sb.assets /\ r.assets \in Nat
             /\ Splits(order, r, r.assets, 0)
             /\ e.sb.witness.sigs = NoSigs => r.witness = e.sb.witness
             /\ ~ ComputeRefundThrows(e.sb, order.include)
             /\ HasRefund(r) <=> r.assets # 0
             /\ RefundGift(r) = r.assets
<1> DEFINE s == e.sb
           r == ComputeRefund(s, order.include)
<1>1. s \in Spends /\ s.assets \in Nat
  <2>1. e.sb \in Spends
    BY DEF Entries
  <2> QED BY <2>1, SpendFields
<1>2. Pays(order, s) /\ s.fee = 0 /\ Given(s) = 0
  BY DEF KeepsNote, SpendsNote
<1> HIDE DEF s
<1>3. RefundGift(s) \in Nat /\ Splits(order, s, RefundGift(s), 0) /\ s.refund = order.refund
  BY <1>1, <1>2, SpendSplits
<1>4. 0 \in Nat /\ Others(s.seeds, order.refund) = SeedsOf(order, 0, 0)
      /\ s.fee + 0 <= s.assets /\ (order.to = order.refund => 0 = 0)
  BY <1>1, <1>2, <1>3, ChangeIsRefund
<1>5. /\ r \in Spends /\ r.assets = s.assets /\ r.fee = s.fee
      /\ Splits(order, r, s.assets - s.fee - 0, 0)
      /\ s.witness.sigs = NoSigs => r.witness = s.witness
      /\ ~ ComputeRefundThrows(s, order.include)
  BY <1>1, <1>3, <1>4, RefundGives, Zenon
<1> HIDE DEF r
<1>6. s.assets - s.fee - 0 = r.assets /\ r.assets \in Nat
  BY <1>1, <1>2, <1>5
<1>7. Splits(order, r, r.assets, 0)
  BY <1>5, <1>6
<1>8. (HasRefund(r) <=> r.assets # 0) /\ RefundGift(r) = r.assets
  BY <1>5, <1>6, <1>7, ChangeIsRefund
<1> QED BY <1>2, <1>5, <1>6, <1>7, <1>8 DEF s, r

(* A spend that is all change pays what is wanted, or all it has.          *)
LEMMA KeptPays ==
  ASSUME NEW order \in Orders, NEW r \in Spends, NEW c \in Nat, Splits(order, r, c, 0),
         r.fee = 0, c # 0, NEW wanted \in Nat
  PROVE  LET sub == TakenFromRefund(r, wanted)
             paid == IF sub > 0 THEN FeeChanged(r, r.fee + sub, order.include) ELSE r
         IN  /\ sub \in Nat /\ sub <= wanted
             /\ paid \in Spends /\ paid.assets = r.assets /\ paid.fee = sub
             /\ Pays(order, paid) /\ Given(paid) = 0
             /\ r.witness.sigs = NoSigs => paid.witness = r.witness
             /\ sub < wanted => ~ HasRefund(paid)
<1> DEFINE sub == TakenFromRefund(r, wanted)
           more == FeeChanged(r, r.fee + sub, order.include)
           paid == IF sub > 0 THEN more ELSE r
<1>1. CurRefund(r).gift = c /\ 0 \in Nat
  BY ChangeIsRefund
<1>2. sub \in Nat /\ sub <= c /\ sub <= wanted /\ (sub < wanted => sub = c)
  <2>1. CurRefund(r).gift \in Nat
    BY <1>1
  <2>2. LET n == TakenFromRefund(r, wanted)
        IN  /\ n \in Nat /\ n <= CurRefund(r).gift /\ n <= wanted
            /\ n < wanted => n = CurRefund(r).gift
    BY <2>1, TakenSize, Zenon
  <2> HIDE DEF sub
  <2>3. /\ sub \in Nat /\ sub <= CurRefund(r).gift /\ sub <= wanted
        /\ sub < wanted => sub = CurRefund(r).gift
    BY <2>2, Zenon DEF sub
  <2> QED BY <1>1, <2>3
<1> HIDE DEF sub
<1>3. /\ more \in Spends /\ more.assets = r.assets /\ more.fee = r.fee + sub
      /\ Splits(order, more, c - sub, 0)
      /\ r.witness.sigs = NoSigs => more.witness = r.witness
  BY <1>1, <1>2, FeeChangeSplits
<1>4. more.fee = sub
  BY <1>2, <1>3
<1>5. c - sub \in Nat /\ (sub = 0 => c - sub = c)
  BY <1>2
<1> HIDE DEF more
<1>6. /\ paid \in Spends /\ paid.assets = r.assets /\ paid.fee = sub
      /\ Splits(order, paid, c - sub, 0)
      /\ r.witness.sigs = NoSigs => paid.witness = r.witness
  <2>1. CASE sub > 0
    <3>1. paid = more
      BY <2>1
    <3> HIDE DEF paid
    <3> QED BY <1>3, <1>4, <3>1
  <2>2. CASE ~ (sub > 0)
    <3>1. paid = r /\ sub = 0
      BY <1>2, <2>2
    <3> HIDE DEF paid
    <3> QED BY <1>5, <3>1
  <2> QED BY <2>1, <2>2
<1> HIDE DEF paid
<1>7. Pays(order, paid) /\ Given(paid) = 0 /\ (HasRefund(paid) <=> c - sub # 0)
  BY <1>1, <1>5, <1>6, ChangeIsRefund, SplitsPays
<1>8. sub < wanted => ~ HasRefund(paid)
  BY <1>2, <1>7
<1>9. /\ sub \in Nat /\ sub <= wanted
      /\ paid \in Spends /\ paid.assets = r.assets /\ paid.fee = sub
      /\ Pays(order, paid) /\ Given(paid) = 0
      /\ r.witness.sigs = NoSigs => paid.witness = r.witness
      /\ sub < wanted => ~ HasRefund(paid)
  BY <1>2, <1>6, <1>7, <1>8
<1> QED BY <1>9, Zenon DEF sub, paid, more

(* What spending it costs is what the bound sets aside for it.             *)
LEMMA CostWithin ==
  ASSUME NEW order \in Orders, NEW r \in Spends, NEW c \in Nat, Splits(order, r, c, 0),
         NEW merged \in BOOLEAN
  PROVE  /\ SpendingCost(r, merged) \in Nat
         /\ SpendingCost(r, merged) <= SeedFee(SeedRoom(order)) + WitnessFee(WitnessWords(r))
                                         + MissingUnlocksFee(r)
<1>1. SpendingCost(r, merged) \in Nat
  BY SpendingCostType
<1>2. SeedWords(r) \in Nat /\ SeedWords(r) <= SeedRoom(order) /\ 0 \in Nat
  BY SeedsHaveRoom
<1>3. SeedRoom(order) \in Nat /\ SeedFee(SeedRoom(order)) \in Nat
  BY RoomType
<1>4. SeedFee(SeedWords(r)) \in Nat /\ SeedFee(SeedWords(r)) <= SeedFee(SeedRoom(order))
  BY <1>2, <1>3, PricesGrow
<1>5. WitnessWords(r) \in Nat /\ MissingUnlocksFee(r) \in Nat
  BY WitnessWordsType, MissingUnlocksFeeType
<1>6. WitnessFee(WitnessWords(r)) \in Nat
  BY <1>5, PricesGrow
<1> DEFINE a == SeedFee(SeedWords(r))
           m == SeedFee(SeedRoom(order))
           w == WitnessFee(WitnessWords(r))
           u == MissingUnlocksFee(r)
<1>7. SpendingCost(r, merged) = (IF merged THEN 0 ELSE a) + w + u
  BY DEF SpendingCost
<1>8. a \in Nat /\ a <= m /\ m \in Nat /\ w \in Nat /\ u \in Nat
  BY <1>3, <1>4, <1>5, <1>6
<1> HIDE DEF a, m, w, u
<1>9. SpendingCost(r, merged) <= m + w + u
  BY <1>7, <1>8
<1> QED BY <1>1, <1>9 DEF m, w, u

LEMMA PoolStepPays ==
  ASSUME PayInv, NEW i \in DOMAIN pool, PoolStep(i)
  PROVE  PayInv' /\ Promised
<1> DEFINE order == job.order
           left == job.left
           old == pool[i]
           s == old.sb
           r == ComputeRefund(s, job.include)
           lock == r.refund
           merged == EnginePatch = 1 /\ job.refunds[lock] > 0
           cost == IF job.adjust THEN SpendingCost(r, merged) ELSE 0
           sub == TakenFromRefund(r, left + cost)
           paid == IF sub > 0 THEN FeeChanged(r, r.fee + sub, job.include) ELSE r
           e == [name |-> old.name, sb |-> paid]
           rest == RemoveAt(pool, i)
           ys == Append(spends, e)
           next == [job EXCEPT !.left = @ + cost - sub,
                               !.refunds[lock] = IF job.adjust THEN @ + 1 ELSE @]
<1>1. /\ job.op = "pool" /\ job.left > 0 /\ calls' = calls /\ pool' = rest
      /\ \A j \in DOMAIN pool : pool[j].sb.assets <= s.assets
  BY Zenon DEF PoolStep
<1>2. \/ Finish(LockIsHash) /\ ComputeRefundThrows(s, job.include)
      \/ ~ HasRefund(r) /\ Finish("Fee pool entry must have refund")
      \/ HasRefund(r) /\ spends' = PutSpend(spends, e) /\ job' = next
  BY Zenon DEF PoolStep
<1>3. job # Idle
  <2>1. Idle.op # "pool"
    BY DEF Idle
  <2> QED BY <1>1, <2>1, Zenon
<1>4. /\ order \in SimpleSpends /\ order \in Orders /\ NamesDiffer(order.notes) /\ order.gift > 0
      /\ job \in FeeJobs /\ spends \in Seq(Entries) /\ NamesDiffer(spends)
      /\ pool \in Seq(Entries) /\ NamesDiffer(pool) /\ NamesOf(spends) \cap NamesOf(pool) = {}
      /\ AllSpend(order, spends) /\ AllKeep(order, pool)
  BY <1>1, <1>3, PayFacts
<1>5. left \in Nat /\ job.adjust \in BOOLEAN /\ PaymentFits(job, spends, pool)
  BY <1>3, <1>4 DEF FeeJobs, PayInv
<1>6. /\ FeeFits(job, spends)
      /\ NamesOf(order.notes) \subseteq NamesOf(spends) \cup NamesOf(pool)
  BY <1>1, <1>5 DEF PaymentFits
<1>7. /\ job.include = order.include /\ job.adjust = (order.override = NoOverride)
      /\ AwayTotal(spends) = Away(order, order.gift)
      /\ (order.override # NoOverride => CurFee(spends) + left = order.override)
      /\ (order.override = NoOverride /\ order.preimage = NoPreimage
            => CurFee(spends) + left <= FeeBound(order, spends))
      /\ \A m \in DOMAIN spends : ~ HasRefund(spends[m].sb)
  BY <1>1, <1>6 DEF FeeFits
<1>8. IInv'
  BY PoolStepKeeps DEF PayInv
<1>9. old \in Entries /\ old.name \in Names /\ old.name \in NamesOf(pool)
  BY <1>4, EntryFields DEF NamesOf
<1>10. PICK k \in DOMAIN order.notes : KeepsNote(order, order.notes[k], old)
  BY <1>4 DEF AllKeep
<1>11. /\ r \in Spends /\ r.fee = 0 /\ r.assets = s.assets /\ r.assets \in Nat
       /\ Splits(order, r, r.assets, 0)
       /\ (s.witness.sigs = NoSigs => r.witness = s.witness)
       /\ ~ ComputeRefundThrows(s, job.include)
       /\ (HasRefund(r) <=> r.assets # 0)
  <2>1. LET t == ComputeRefund(old.sb, order.include)
        IN  /\ t \in Spends /\ t.fee = 0 /\ t.assets = old.sb.assets /\ t.assets \in Nat
            /\ Splits(order, t, t.assets, 0)
            /\ old.sb.witness.sigs = NoSigs => t.witness = old.sb.witness
            /\ ~ ComputeRefundThrows(old.sb, order.include)
            /\ HasRefund(t) <=> t.assets # 0
            /\ RefundGift(t) = t.assets
    <3> HIDE DEF old, order
    <3> QED BY <1>4, <1>9, <1>10, KeptRefund, Zenon
  <2> QED BY <1>7, <2>1, Zenon
<1>12. /\ old.name = order.notes[k].name /\ s.assets = order.notes[k].assets
       /\ (order.preimage = NoPreimage => s.witness = order.notes[k].witness)
       /\ order.notes[k].witness.sigs = NoSigs
  BY <1>4, <1>10, NotesOfOrder DEF KeepsNote, SpendsNote
<1>13. /\ rest \in Seq(Entries) /\ Range(rest) \subseteq Range(pool)
       /\ NamesOf(pool) \subseteq NamesOf(rest) \cup {old.name}
  BY <1>4, RemoveEffect
<1>14. AllKeep(order, rest)
  BY <1>4, <1>13, AllKeepMembers
<1>15. job.order = order /\ job.left = left /\ LockIsHash # "Fee pool entry must have refund"
  BY DEF LockIsHash
<1>16. CASE ~ HasRefund(r)
  <2>1. job' = Idle /\ result' = "Fee pool entry must have refund"
    BY <1>2, <1>11, <1>16, Zenon DEF Finish
  <2>2. result' \in Refusals
    BY <2>1, Zenon DEF Refusals
  <2>3. \A j \in DOMAIN pool : pool[j].sb.assets = 0
    <3> SUFFICES ASSUME NEW j \in DOMAIN pool PROVE pool[j].sb.assets = 0
      OBVIOUS
    <3>1. pool[j].sb \in Spends
      BY <1>4, EntryFields
    <3>2. pool[j].sb.assets \in Nat
      BY <3>1, SpendFields
    <3>3. pool[j].sb.assets <= s.assets /\ s.assets = 0
      BY <1>1, <1>11, <1>16
    <3> QED BY <3>2, <3>3
  <2> HIDE DEF order, left
  <2>4. \/ order.preimage # NoPreimage
        \/ Promise!Worth(order, Promise!NamesIn(order))
             < Promise!GivenAway(order) + Promise!Asked(order)
    BY <1>1, <1>4, <1>5, <1>15, <2>3, Stuck
  <2>5. Promise!Next
    BY <1>3, <1>15, <2>1, <2>2, <2>4, RefuseStep
  <2>6. PayInv'
    BY <1>1, <1>3, <1>8, <2>1, EndKeeps, Zenon
  <2> QED BY <2>5, <2>6, Zenon DEF Promised
<1>17. CASE HasRefund(r)
  <2>1. spends' = PutSpend(spends, e) /\ job' = next
    BY <1>2, <1>11, <1>17, Zenon
  <2>2. cost \in Nat /\ (~ job.adjust => cost = 0)
        /\ (job.adjust => cost <= SeedFee(SeedRoom(order)) + WitnessFee(WitnessWords(r))
                                    + MissingUnlocksFee(r))
    <3>1. merged \in BOOLEAN /\ r.assets \in Nat
      BY <1>11
    <3> HIDE DEF r, merged, order
    <3>2. /\ SpendingCost(r, merged) \in Nat
          /\ SpendingCost(r, merged) <= SeedFee(SeedRoom(order)) + WitnessFee(WitnessWords(r))
                                          + MissingUnlocksFee(r)
      BY <1>4, <1>11, <3>1, CostWithin
    <3> QED BY <3>2
  <2> HIDE DEF cost
  <2>3. left + cost \in Nat
    BY <1>5, <2>2
  <2>4. /\ sub \in Nat /\ sub <= left + cost
        /\ paid \in Spends /\ paid.assets = r.assets /\ paid.fee = sub
        /\ Pays(order, paid) /\ Given(paid) = 0
        /\ (r.witness.sigs = NoSigs => paid.witness = r.witness)
        /\ (sub < left + cost => ~ HasRefund(paid))
    <3>1. LET n == TakenFromRefund(r, left + cost)
              p == IF n > 0 THEN FeeChanged(r, r.fee + n, order.include) ELSE r
          IN  /\ n \in Nat /\ n <= left + cost
              /\ p \in Spends /\ p.assets = r.assets /\ p.fee = n
              /\ Pays(order, p) /\ Given(p) = 0
              /\ r.witness.sigs = NoSigs => p.witness = r.witness
              /\ n < left + cost => ~ HasRefund(p)
      <4>1. r.assets # 0
        BY <1>11, <1>17
      <4>2. /\ order \in Orders /\ r \in Spends /\ r.assets \in Nat /\ Splits(order, r, r.assets, 0)
            /\ r.fee = 0 /\ r.assets # 0 /\ left + cost \in Nat
        BY <1>4, <1>11, <2>3, <4>1
      <4> HIDE DEF r, left, order
      <4> QED BY ONLY <4>2, KeptPays, Zenon
    <3> HIDE DEF r
    <3> QED BY <1>7, <3>1, Zenon
  <2>5. job \in FeeJobs
    BY <1>4
  <2> HIDE DEF paid, sub, r, lock, merged
  <2>6. /\ next.op = "pool" /\ next.order = order /\ next.include = order.include
        /\ next.adjust = job.adjust /\ next.left = left + cost - sub
    <3>1. /\ next.op = job.op /\ next.order = job.order /\ next.include = job.include
          /\ next.adjust = job.adjust /\ next.left = job.left + cost - sub
      BY ONLY <2>5 DEF FeeJobs
    <3> QED BY <1>1, <1>7, <3>1, Zenon
  <2>7. e \in Entries /\ e.name = old.name /\ e.sb = paid
    BY <1>9, <2>4 DEF Entries
  <2> HIDE DEF e, next, rest, ys
  <2>8. SpendsNote(order, order.notes[k], e)
    <3>1. order.preimage = NoPreimage => paid.witness = order.notes[k].witness
      BY <1>11, <1>12, <2>4
    <3> QED BY <1>11, <1>12, <2>4, <2>7, <3>1 DEF SpendsNote
  <2>9. PutSpend(spends, e) = ys
    <3>1. e.name \notin NamesOf(spends)
      BY <1>4, <1>9, <2>7
    <3> QED BY <3>1 DEF PutSpend, ys
  <2>10. /\ ys \in Seq(Entries) /\ ys # << >> /\ DOMAIN ys = 1..(Len(spends) + 1)
         /\ ys[Len(spends) + 1] = e /\ (\A m \in 1..Len(spends) : ys[m] = spends[m])
         /\ CurFee(ys) = CurFee(spends) + sub /\ AwayTotal(ys) = AwayTotal(spends) + 0
         /\ NamesOf(ys) = NamesOf(spends) \cup {old.name}
    BY <1>4, <2>4, <2>7, AppendParts, AppendEntry DEF ys
  <2>11. AllSpend(order, ys)
    BY <1>4, <2>7, <2>8, AllSpendAppend DEF ys
  <2>12. /\ CurFee(spends) \in Nat /\ AwayTotal(spends) \in Nat /\ Len(spends) \in Nat
         /\ FeeBound(order, spends) \in Nat /\ FeeBound(order, ys) \in Nat
         /\ DOMAIN spends = 1..Len(spends)
    BY <1>4, <2>10, SpendParts, BoundParts
  <2>13. AwayTotal(ys) = Away(order, order.gift)
    BY <1>7, <2>10, <2>12
  <2>14. left + cost - sub \in Nat /\ (left + cost - sub > 0 => sub < left + cost)
    <3> HIDE DEF left
    <3> QED BY <1>5, <2>2, <2>4
  <2>15. order.override # NoOverride => CurFee(ys) + (left + cost - sub) = order.override
    <3> SUFFICES ASSUME order.override # NoOverride
                 PROVE CurFee(ys) + (left + cost - sub) = order.override
      OBVIOUS
    <3>1. cost = 0 /\ CurFee(spends) + left = order.override
      BY <1>7, <2>2
    <3> HIDE DEF left
    <3> QED BY <1>5, <2>4, <2>10, <2>12, <3>1
  <2>16. order.override = NoOverride /\ order.preimage = NoPreimage
           => CurFee(ys) + (left + cost - sub) <= FeeBound(order, ys)
    <3> SUFFICES ASSUME order.override = NoOverride, order.preimage = NoPreimage
                 PROVE CurFee(ys) + (left + cost - sub) <= FeeBound(order, ys)
      OBVIOUS
    <3>1. job.adjust /\ CurFee(spends) + left <= FeeBound(order, spends)
      BY <1>7
    <3>2. paid.witness = r.witness
      BY <1>11, <1>12, <2>4
    <3> DEFINE a == SeedFee(SeedRoom(order))
               w == WitnessFee(WitnessWords(r))
               u == MissingUnlocksFee(r)
    <3>3. FeeBound(order, spends) + a + w + u <= FeeBound(order, ys)
      <4>1. FeeBound(order, spends) + a + WitnessFee(WitnessWords(e.sb))
              + MissingUnlocksFee(e.sb) <= FeeBound(order, ys)
        BY <1>4, <2>7, BoundGrows DEF ys
      <4>2. WitnessWords(e.sb) = WitnessWords(r) /\ MissingUnlocksFee(e.sb) = MissingUnlocksFee(r)
        BY <2>7, <3>2, SameWitnessSameCost
      <4> QED BY <4>1, <4>2
    <3>4. a \in Nat /\ w \in Nat /\ u \in Nat
      BY <1>4, <1>11, RoomType, WitnessWordsType, MissingUnlocksFeeType, PricesGrow
    <3>5. cost <= a + w + u
      BY <2>2, <3>1
    <3> DEFINE before == CurFee(spends)
               after == CurFee(ys)
               low == FeeBound(order, spends)
               high == FeeBound(order, ys)
    <3>6. /\ before \in Nat /\ low \in Nat /\ high \in Nat /\ left \in Nat
          /\ cost \in Nat /\ sub \in Nat /\ a \in Nat /\ w \in Nat /\ u \in Nat
      BY <1>5, <2>2, <2>4, <2>12, <3>4, Zenon
    <3>7. /\ after = before + sub /\ before + left <= low
          /\ low + a + w + u <= high /\ cost <= a + w + u
      BY <2>10, <3>1, <3>3, <3>5, Zenon
    <3> HIDE DEF a, w, u, left, cost, sub, before, after, low, high
    <3>8. after + (left + cost - sub) <= high
      BY ONLY <3>6, <3>7
    <3> QED BY <3>8, Zenon DEF after, high
  <2>17. left + cost - sub > 0 => \A m \in DOMAIN ys : ~ HasRefund(ys[m].sb)
    <3> SUFFICES ASSUME left + cost - sub > 0, NEW m \in DOMAIN ys PROVE ~ HasRefund(ys[m].sb)
      OBVIOUS
    <3>1. ~ HasRefund(paid)
      BY <2>4, <2>14
    <3>2. m = Len(spends) + 1 \/ m \in 1..Len(spends)
      BY <2>10, <2>12
    <3> QED BY <1>7, <2>7, <2>10, <2>12, <3>1, <3>2
  <2>18. FeeFits(next, ys)
    BY <1>7, <2>6, <2>10, <2>13, <2>15, <2>16, <2>17 DEF FeeFits
  <2>19. NamesOf(order.notes) \subseteq NamesOf(ys) \cup NamesOf(rest)
    BY <1>6, <1>13, <2>10
  <2>20. PaymentFits(next, ys, rest)
    BY <1>4, <1>14, <2>6, <2>11, <2>18, <2>19 DEF PaymentFits
  <2>21. PaymentFits(job', spends', pool') /\ job' # Idle /\ job'.order = job.order
    BY <1>1, <2>1, <2>6, <2>9, <2>20 DEF Idle
  <2> QED BY <1>1, <1>3, <1>8, <2>21, RunKeeps, StillPaying DEF Promised
<1> QED BY <1>16, <1>17

LEMMA PoolEndPays ==
  ASSUME PayInv, PoolEnd
  PROVE  PayInv' /\ Promised
<1> DEFINE order == job.order
<1>0. job.left = 0 \/ pool = << >>
  BY Zenon DEF PoolEnd
<1>1. /\ job.op = "pool" /\ calls' = calls /\ spends' = spends /\ job' = Idle
      /\ job.left > 0 => result' = "Insufficient funds to pay fee and gift"
      /\ ~ (job.left > 0) => result' = "ok"
  BY Zenon DEF PoolEnd, Finish
<1>2. job # Idle
  <2>1. Idle.op # "pool"
    BY DEF Idle
  <2> QED BY <1>1, <2>1, Zenon
<1>3. /\ order \in Orders /\ NamesDiffer(order.notes) /\ job \in FeeJobs
      /\ spends \in Seq(Entries) /\ NamesDiffer(spends) /\ pool \in Seq(Entries)
      /\ AllSpend(order, spends)
  BY <1>1, <1>2, PayFacts
<1>4. job.left \in Nat /\ PaymentFits(job, spends, pool)
  BY <1>2, <1>3 DEF FeeJobs, PayInv
<1>5. FeeFits(job, spends)
  BY <1>1, <1>4 DEF PaymentFits
<1>6. PayInv'
  <2>1. IInv'
    BY PoolEndKeeps DEF PayInv
  <2> QED BY <1>1, <1>2, <2>1, EndKeeps, Zenon
<1>7. job.order = order
  OBVIOUS
<1> HIDE DEF order
<1>8. CASE job.left > 0
  <2>1. result' \in Refusals
    <3>1. result' = "Insufficient funds to pay fee and gift"
      BY <1>1, <1>8, Zenon
    <3> QED BY <3>1, Zenon DEF Refusals
  <2>2. \A j \in DOMAIN pool : pool[j].sb.assets = 0
    <3>1. pool = << >>
      BY <1>0, <1>4, <1>8
    <3> QED BY <3>1, EmptySeq
  <2>3. \/ order.preimage # NoPreimage
        \/ Promise!Worth(order, Promise!NamesIn(order))
             < Promise!GivenAway(order) + Promise!Asked(order)
    BY <1>1, <1>3, <1>4, <1>7, <1>8, <2>2, Stuck
  <2>4. Promise!Next
    BY <1>1, <1>2, <1>7, <2>1, <2>3, RefuseStep
  <2> QED BY <1>6, <2>4 DEF Promised
<1>9. CASE ~ (job.left > 0)
  <2>1. job.left = 0 /\ result' = "ok"
    <3>1. job.left = 0
      BY <1>4, <1>9
    <3> QED BY <1>1, <1>9, <3>1, Zenon
  <2>2. /\ spends # << >> /\ AwayTotal(spends) = Away(order, order.gift)
        /\ (order.override # NoOverride => CurFee(spends) + 0 = order.override)
    BY <1>5, <1>7, <2>1 DEF FeeFits
  <2>3. CurFee(spends) \in Nat
    BY <1>3, SpendParts
  <2>4. order.override # NoOverride => CurFee(spends) = order.override
    BY <2>2, <2>3
  <2>5. Promise!Next
    BY <1>1, <1>2, <1>3, <1>7, <2>1, <2>2, <2>4, PayStep
  <2> QED BY <1>6, <2>5 DEF Promised
<1> QED BY <1>8, <1>9

-----------------------------------------------------------------------------
(* The builder is used once: the other calls find nothing to work on, and  *)
(* lowering the fee is not part of a payment.                              *)

LEMMA OtherCallPays ==
  ASSUME PayInv, OnePayment, IInv', Begin, NEW outcome, Finish(outcome),
         outcome \notin Refusals, spends = << >> => spends' = << >>
  PROVE  PayInv' /\ Promised
<1>1. /\ calls = 0 /\ job = Idle /\ result = "none" /\ spends = << >> /\ spends' = << >>
      /\ calls' # 0 /\ job' = Idle /\ result' = outcome
  <2>1. calls \in 0..MaxCalls /\ MaxCalls = 1 /\ calls < MaxCalls /\ calls' = calls + 1
    BY DEF PayInv, IInv, OnePayment, Begin
  <2>2. calls = 0 /\ calls' # 0
    BY <2>1
  <2> QED BY <2>2, Zenon DEF PayInv, Finish
<1>2. result \notin Refusals
  <2>1. "none" \notin Refusals
    BY Zenon DEF Refusals, LockIsHash
  <2> QED BY <1>1, <2>1, Zenon
<1>3. (Promise!vars)' = Promise!vars
  BY <1>1, <1>2, NotPaying, Zenon
<1>4. PayInv'
  BY <1>1, Zenon DEF PayInv
<1> QED BY <1>3, <1>4, Zenon DEF Promised

LEMMA AnswersRefuseNothing ==
  {"ok", "undefined", "valid", "InvalidFee", "UnbalancedSpends", "MissingUnlocks"}
    \cap Refusals = {}
BY Zenon DEF Refusals, LockIsHash

LEMMA CallPays ==
  ASSUME PayInv, OnePayment, Call
  PROVE  PayInv' /\ Promised
<1>1. IInv
  BY DEF PayInv
<1>2. \A outcome \in {"ok", "undefined", "valid", "InvalidFee", "UnbalancedSpends",
                      "MissingUnlocks"} : outcome \notin Refusals
  BY AnswersRefuseNothing, Zenon
<1>3. CASE \E order \in SimpleSpends : SimpleSpend(order)
  BY <1>3, SimpleSpendPays, Zenon
<1>4. CASE \E target \in FeeTargets, adjust \in AdjustFees, include \in Includes :
             SetFeeTo(target, adjust, include)
  BY <1>4, Zenon DEF OnePayment
<1>5. CASE \E include \in Includes : RecalcAndSetFee(include)
  BY <1>5, Zenon DEF OnePayment
<1>6. CASE \E d \in Digests : AddPreimageCall(d)
  <2>1. PICK d \in Digests : AddPreimageCall(d)
    BY <1>6
  <2> DEFINE outcome == IF SomeClaims(spends, d) THEN "ok" ELSE "undefined"
  <2>2. Begin /\ Finish(outcome) /\ spends' = AddPreimageToAll(spends, d)
    BY <2>1, Zenon DEF AddPreimageCall
  <2>3. outcome \notin Refusals
    BY <1>2, Zenon
  <2>4. spends = << >> => spends' = << >>
    BY <2>2, EmptySeq DEF AddPreimageToAll
  <2>5. IInv'
    BY <1>1, <2>1, AddPreimageCallKeeps
  <2> HIDE DEF outcome
  <2> QED BY <2>2, <2>3, <2>4, <2>5, OtherCallPays, Zenon
<1>7. CASE Validate
  <2> DEFINE outcome ==
        IF CurFee(spends) < CalcFee(spends) THEN "InvalidFee"
        ELSE IF \E i \in DOMAIN spends : ~ IsBalanced(spends[i].sb) THEN "UnbalancedSpends"
        ELSE IF \E i \in DOMAIN spends : MissingUnlocks(spends[i].sb) # {}
        THEN "MissingUnlocks" ELSE "valid"
  <2>1. Begin /\ Finish(outcome) /\ spends' = spends
    BY <1>7, Zenon DEF Validate
  <2>2. outcome \notin Refusals
    BY <1>2, Zenon
  <2>3. IInv'
    BY <1>1, <1>7, ValidateKeeps
  <2> HIDE DEF outcome
  <2> QED BY <2>1, <2>2, <2>3, OtherCallPays, Zenon
<1>8. CASE \E e \in Additions : AddSpend(e)
  BY <1>8, Zenon DEF OnePayment
<1>9. CASE \E pkh \in Pkhs : SignAll(pkh)
  <2>1. PICK pkh \in Pkhs : SignAll(pkh)
    BY <1>9
  <2>2. Begin /\ Finish("ok")
    BY <2>1, Zenon DEF SignAll
  <2>3. "ok" \notin Refusals
    BY <1>2, Zenon
  <2>4. spends = << >> => spends' = << >>
    <3> SUFFICES ASSUME spends = << >> PROVE spends' = << >>
      OBVIOUS
    <3>1. spends' = [i \in DOMAIN spends |->
             IF ListedIn(spends[i].sb.witness.prims, pkh)
             THEN [spends[i] EXCEPT !.sb = PushPkhSignature(@, pkh, SigHash(@))]
             ELSE spends[i]]
      BY <2>1, Zenon DEF SignAll
    <3>2. DOMAIN spends = {} /\ spends = [i \in {} |-> spends[i]]
      BY EmptySeq
    <3> QED BY <3>1, <3>2
  <2>5. IInv'
    BY <1>1, <2>1, SignAllKeeps
  <2> QED BY <2>2, <2>3, <2>4, <2>5, OtherCallPays, Zenon
<1> QED BY <1>3, <1>4, <1>5, <1>6, <1>7, <1>8, <1>9, Zenon DEF Call, OwnerCall

LEMMA StepPays ==
  ASSUME PayInv, Step
  PROVE  PayInv' /\ Promised
<1>1. job.op # "lower"
  <2>1. CASE job = Idle
    BY <2>1 DEF Idle
  <2>2. CASE job # Idle
    BY <2>2, PayFacts
  <2> QED BY <2>1, <2>2
<1>2. CASE BaseStep
  BY <1>2, BaseStepPays, Zenon
<1>3. CASE BaseEnd
  BY <1>3, BaseEndPays, Zenon
<1>4. CASE \E i \in DOMAIN spends : RaiseStep(i) \/ LowerStep(i)
  <2>1. PICK i \in DOMAIN spends : RaiseStep(i) \/ LowerStep(i)
    BY <1>4, Zenon
  <2>2. ~ LowerStep(i)
    BY <1>1, Zenon DEF LowerStep
  <2> QED BY <2>1, <2>2, RaiseStepPays, Zenon
<1>5. CASE RaiseEnd
  BY <1>5, RaiseEndPays, Zenon
<1>6. CASE \E i \in DOMAIN pool : PoolStep(i)
  BY <1>6, PoolStepPays, Zenon
<1>7. CASE PoolEnd
  BY <1>7, PoolEndPays, Zenon
<1>8. CASE LowerEnd
  BY <1>1, <1>8, Zenon DEF LowerEnd
<1> QED BY <1>2, <1>3, <1>4, <1>5, <1>6, <1>7, <1>8, Zenon DEF Step

LEMMA NextPays ==
  ASSUME PayInv, OnePayment, [Next]_vars
  PROVE  PayInv' /\ Promised
<1>1. CASE Call
  BY <1>1, CallPays, Zenon
<1>2. CASE Step
  BY <1>2, StepPays, Zenon
<1>3. CASE UNCHANGED vars
  <2>1. /\ spends' = spends /\ pool' = pool /\ job' = job /\ result' = result /\ calls' = calls
    BY <1>3 DEF vars
  <2>2. IInv'
    BY <1>3, NextKeeps DEF PayInv
  <2>3. PayInv'
    BY <2>1, <2>2, Zenon DEF PayInv
  <2>4. (Promise!vars)' = Promise!vars
    BY <2>1, Zenon DEF Promise!vars, Paid, NamesOf, CurFee, GivenTo
  <2> QED BY <2>3, <2>4, Zenon DEF Promised
<1> QED BY <1>1, <1>2, <1>3, Zenon DEF Next

LEMMA InitPays ==
  ASSUME Init
  PROVE  PayInv /\ Promise!Init
<1>1. job = Idle /\ result = "none" /\ spends = << >> /\ pool = << >>
  BY DEF Init
<1>2. PayInv
  BY <1>1, InitInvariant, Zenon DEF PayInv
<1>3. ~ Paid /\ result \notin Refusals
  <2>1. "none" \notin Refusals
    BY Zenon DEF Refusals, LockIsHash
  <2> QED BY <1>1, <2>1, Zenon DEF Paid
<1>4. Promise!Init
  BY <1>1, <1>3, Zenon DEF Promise!Init
<1> QED BY <1>2, <1>4

(* A builder that is used for one payment pays as Payment promises:        *)
(* whatever the notes, locks, keys, prices and data, the payment returns   *)
(* with the gift paid in full, the fee that was asked for and all change   *)
(* given back, or throws, and then for a reason: the notes do not cover    *)
(* the gift and the most the fee can be, a note cannot be spent, or a      *)
(* preimage was given (builder.ts: simpleSpendBase, finishSimpleSpend,     *)
(* setFeeAndBalanceRefund).                                                *)
THEOREM PaymentsKeepTheirPromise ==
  ASSUME OnePayment
  PROVE  Spec => PaysAsPromised
<1>1. Init => PayInv /\ Promise!Init
  BY InitPays
<1>2. PayInv /\ [Next]_vars => PayInv' /\ [Promise!Next]_(Promise!vars)
  BY NextPays, Zenon DEF Promised
<1> QED BY <1>1, <1>2, PTL DEF Spec, PaysAsPromised

(* Of ImplementsPayment this leaves one part to be checked: that a payment *)
(* that has begun returns or throws.                                       *)
THEOREM ImplementsPaymentIfItEnds ==
  ASSUME OnePayment
  PROVE  Spec /\ Promise!Settles => ImplementsPayment
BY PaymentsKeepTheirPromise, Zenon DEF ImplementsPayment

-----------------------------------------------------------------------------
(* The fee of a payment.                                                   *)

(* The refunds of a payment are all made as its order says; before it,     *)
(* there are no spends.                                                    *)
PaymentPriced ==
  \/ calls = 0 /\ spends = << >> /\ pool = << >> /\ job = Idle
  \/ calls = 1 /\ \E b \in BOOLEAN : PriceInv(b)

LEMMA PaymentStaysPriced ==
  ASSUME OnePayment, PlainPrices, IInv, PaymentPriced, [Next]_vars
  PROVE  PaymentPriced'
<1>1. CASE UNCHANGED vars
  BY <1>1 DEF vars, PaymentPriced, PriceInv
<1>2. CASE Step
  <2>1. job # Idle /\ calls' = calls
    <3>1. calls' = calls
      BY <1>2, Zenon DEF Step, BaseStep, BaseEnd, RaiseStep, RaiseEnd, PoolStep, PoolEnd, LowerStep,
         LowerEnd
    <3>2. job.op \in {"base", "raise", "pool", "lower"}
      BY <1>2, Zenon DEF Step, BaseStep, BaseEnd, RaiseStep, RaiseEnd, PoolStep, PoolEnd, LowerStep,
         LowerEnd
    <3>3. Idle.op = "idle"
      BY DEF Idle
    <3> QED BY <3>1, <3>2, <3>3
  <2>2. PICK b \in BOOLEAN : calls = 1 /\ PriceInv(b)
    BY <2>1 DEF PaymentPriced
  <2>3. PriceInv(b)'
    BY <1>2, <2>2, StepPriced
  <2> QED BY <2>1, <2>2, <2>3 DEF PaymentPriced
<1>3. CASE Call
  <2>1. Begin
    BY <1>3 DEF Call, OwnerCall, SimpleSpend, SetFeeTo, RecalcAndSetFee, AddSpend, AddPreimageCall,
       SignAll, Validate
  <2>2. calls = 0 /\ calls' = 1 /\ spends = << >> /\ pool = << >> /\ job = Idle
    BY <2>1 DEF Begin, OnePayment, PaymentPriced
  <2>3. \A b : PriceInv(b)
    <3>1. DOMAIN << >> = {}
      BY EmptySeq
    <3> QED BY <2>2, <3>1 DEF PriceInv, AllPriced, JobPriced, Idle
  <2>4. CASE OwnerCall
    <3>1. ASSUME NEW order \in SimpleSpends, SimpleSpend(order) PROVE PriceInv(order.include)'
      BY <2>3, <3>1, SimpleSpendPriced
    <3>2. \A order \in SimpleSpends : order.include \in BOOLEAN
      BY TxBuilderAssumption, OrderFields
    <3>3. (\E d \in Digests : AddPreimageCall(d)) \/ Validate => PriceInv(TRUE)'
      BY <2>3, AddPreimageCallPriced, ValidatePriced
    <3>4. PICK b \in BOOLEAN : PriceInv(b)'
      BY <2>4, <3>1, <3>2, <3>3 DEF OwnerCall, OnePayment
    <3> QED BY <2>2, <3>4 DEF PaymentPriced
  <2>5. CASE \E pkh \in Pkhs : SignAll(pkh)
    <3>1. PriceInv(TRUE)'
      BY <2>3, <2>5, SignAllPriced
    <3> QED BY <2>2, <3>1 DEF PaymentPriced
  <2> QED BY <1>3, <2>4, <2>5 DEF Call, OnePayment
<1> QED BY <1>1, <1>2, <1>3 DEF Next

(* A payment, with lock data or without, has a fee that pays for the       *)
(* transaction it produced, if it was computed.                            *)
THEOREM PaymentFeesCover ==
  ASSUME OnePayment, PlainPrices
  PROVE  Spec => FeeCoversCost
<1>1. IInv /\ PaymentPriced /\ [Next]_vars => PaymentPriced'
  BY PaymentStaysPriced
<1>2. Init => PaymentPriced
  BY DEF Init, PaymentPriced
<1>3. IInv /\ PaymentPriced /\ [Next]_vars
      => [(job.op = "pool" /\ Returns /\ job.adjust) => CurFee(spends') >= CalcFee(spends')]_vars
  <2> SUFFICES ASSUME IInv, PaymentPriced, [Next]_vars, job.op = "pool", Returns, job.adjust
               PROVE  CurFee(spends') >= CalcFee(spends')
    OBVIOUS
  <2>1. PICK b \in BOOLEAN : PriceInv(b)
    BY DEF PaymentPriced, Idle
  <2> QED BY <2>1, ReturnCovers
<1>4. Spec => [](IInv /\ PaymentPriced)
  BY <1>1, <1>2, InitInvariant, NextKeeps, PTL DEF Spec
<1> QED BY <1>3, <1>4, PTL DEF Spec, FeeCoversCost

=============================================================================
