---------------------------- MODULE TxBuilderProofs ----------------------------
(***************************************************************************)
(* Proofs about TxBuilder: its state is well formed, a note is held once,  *)
(* no call loses one, and the spends whose refund lock is known stay       *)
(* balanced, for every number of notes, every key, lock and fee rule.      *)
(***************************************************************************)
EXTENDS TxBuilder, SpendLemmas

-----------------------------------------------------------------------------
(* A change of the fee, paid by the refund or given to it.                 *)

LEMMA FeeChangedType ==
  ASSUME NEW s \in Spends, NEW fee \in Nat, NEW include \in BOOLEAN
  PROVE  /\ FeeChanged(s, fee, include) \in Spends
         /\ FeeChanged(s, fee, include).refund = s.refund
<1>1. SetFee(s, fee) \in Spends
  BY SetFeeType
<1> QED BY <1>1, ComputeRefundType, ComputeRefundEffect, SetFeeFields DEF FeeChanged

LEMMA KnownNeverThrows ==
  ASSUME NEW s, NEW include, s.refund \in Locks \ HashedLocks
  PROVE  ~ ComputeRefundThrows(s, include)
BY DEF ComputeRefundThrows, BuildSeedThrows

LEMMA FeeChangeBalances ==
  ASSUME NEW s \in Spends, NEW fee \in Nat, NEW include \in BOOLEAN,
         s.refund \in Locks \ HashedLocks, fee - s.fee <= Unspent(s)
  PROVE  IsBalanced(FeeChanged(s, fee, include))
<1> DEFINE t == SetFee(s, fee)
<1>1. t \in Spends /\ t.refund = s.refund /\ t.seeds = s.seeds /\ t.assets = s.assets
      /\ t.fee = fee
  BY SetFeeType, SetFeeFields
<1>2. Gifts(Others(s.seeds, s.refund)) \in Nat /\ s.assets \in Nat /\ s.fee \in Nat
  BY SpendFields, OthersType, GiftsType
<1>3. Unspent(t) >= 0
  BY <1>1, <1>2 DEF Unspent
<1>4. t.refund # NoLock
  BY <1>1, SpendAssumption
<1>5. ~ ComputeRefundThrows(t, include)
  BY <1>1, KnownNeverThrows
<1> HIDE DEF t
<1>6. IsBalanced(ComputeRefund(t, include))
  BY <1>1, <1>3, <1>4, <1>5, ComputeRefundBalances
<1> QED BY <1>6 DEF FeeChanged, t

(* What a refund loses the fee gains.                                      *)
LEMMA RaisingBalances ==
  ASSUME NEW s \in Spends, NEW wanted \in Nat, NEW include \in BOOLEAN,
         s.refund \in Locks \ HashedLocks, IsBalanced(s), HasRefund(s)
  PROVE  IsBalanced(FeeChanged(s, s.fee + TakenFromRefund(s, wanted), include))
<1>1. CurRefund(s).gift \in Nat /\ CurRefund(s).gift <= Unspent(s) /\ s.fee \in Nat
  BY CurRefundType, BalancedLeaves, SpendFields
<1>2. TakenFromRefund(s, wanted) \in Nat /\ TakenFromRefund(s, wanted) <= CurRefund(s).gift
  BY <1>1 DEF TakenFromRefund, SmallerOf
<1>3. Unspent(s) \in Int
  BY UnspentType
<1> DEFINE fee == s.fee + TakenFromRefund(s, wanted)
<1>4. fee \in Nat /\ fee - s.fee <= Unspent(s)
  BY <1>1, <1>2, <1>3
<1> HIDE DEF fee
<1>5. IsBalanced(FeeChanged(s, fee, include))
  BY <1>4, FeeChangeBalances
<1> QED BY <1>5 DEF fee

(* What the fee loses the refund gains.                                    *)
LEMMA LoweringBalances ==
  ASSUME NEW s \in Spends, NEW add \in Nat, NEW include \in BOOLEAN, add <= s.fee,
         s.refund \in Locks \ HashedLocks, IsBalanced(s)
  PROVE  IsBalanced(FeeChanged(s, s.fee - add, include))
<1>1. s.fee \in Nat /\ Unspent(s) \in Int /\ Unspent(s) >= 0
  BY SpendFields, UnspentType, BalancedLeaves
<1> DEFINE fee == s.fee - add
<1>2. fee \in Nat /\ fee - s.fee <= Unspent(s)
  BY <1>1
<1> HIDE DEF fee
<1>3. IsBalanced(FeeChanged(s, fee, include))
  BY <1>2, FeeChangeBalances
<1> QED BY <1>3 DEF fee

(* A payment's new spend: one seed, to the recipient, of no more than the  *)
(* note holds, or none.                                                    *)
LEMMA NewSpendType ==
  ASSUME NEW assets \in Nat, NEW refund \in Locks \cup {NoLock}, NEW w \in Witnesses
  PROVE  NewSpend(assets, refund, w) \in Spends
<1>1. << >> \in Seq(Seeds)
  BY EmptySeq
<1> QED BY <1>1 DEF NewSpend, Spends

LEMMA NewSpendBalances ==
  ASSUME NEW s \in Spends, NEW include \in BOOLEAN, s.refund \in Locks \ HashedLocks,
         s.fee = 0, Gifts(s.seeds) <= s.assets
  PROVE  IsBalanced(ComputeRefund(s, include))
<1>1. s.seeds \in Seq(Seeds) /\ s.assets \in Nat
  BY SpendFields
<1>2. /\ Gifts(Others(s.seeds, s.refund)) \in Nat /\ Gifts(s.seeds) \in Nat
      /\ Gifts(Others(s.seeds, s.refund)) <= Gifts(s.seeds)
  BY <1>1, GiftsType, OthersType, GiftsSplit
<1>3. Unspent(s) >= 0
  BY <1>1, <1>2 DEF Unspent
<1>4. s.refund # NoLock
  BY SpendAssumption
<1> QED BY <1>3, <1>4, KnownNeverThrows, ComputeRefundBalances

-----------------------------------------------------------------------------
(* Lists of entries, and the names in them.                                *)

LEMMA EntryFields ==
  ASSUME NEW xs \in Seq(Entries)
  PROVE  /\ Len(xs) \in Nat /\ DOMAIN xs = 1..Len(xs)
         /\ \A i \in DOMAIN xs : /\ xs[i] \in Entries /\ xs[i].name \in Names
                                 /\ xs[i].sb \in Spends
<1>1. Len(xs) \in Nat /\ DOMAIN xs = 1..Len(xs)
  BY LenProperties
<1>2. \A i \in DOMAIN xs : xs[i] \in Entries
  BY <1>1, ElementOfSeq
<1>3. \A i \in DOMAIN xs : xs[i].name \in Names /\ xs[i].sb \in Spends
  BY <1>2 DEF Entries
<1> QED BY <1>1, <1>2, <1>3

LEMMA NamesAreMembers ==
  ASSUME NEW xs, NEW ys, Range(xs) \subseteq Range(ys)
  PROVE  NamesOf(xs) \subseteq NamesOf(ys)
BY DEF NamesOf, Range

(* One list is the other with some of its spends changed.                  *)
SameNames(xs, ys) ==
  /\ DOMAIN xs = DOMAIN ys
  /\ \A i \in DOMAIN xs : xs[i].name = ys[i].name

LEMMA SameNamesEffect ==
  ASSUME NEW xs, NEW ys, SameNames(xs, ys)
  PROVE  /\ NamesOf(xs) = NamesOf(ys)
         /\ NamesDiffer(xs) => NamesDiffer(ys)
BY DEF SameNames, NamesOf, NamesDiffer

(* A list given element by element.                                        *)
LEMMA EachEntry ==
  ASSUME NEW xs \in Seq(Entries), NEW ys, DOMAIN ys = DOMAIN xs,
         ys = [i \in DOMAIN ys |-> ys[i]],
         \A i \in DOMAIN xs : ys[i] \in Entries /\ ys[i].name = xs[i].name
  PROVE  ys \in Seq(Entries) /\ Len(ys) = Len(xs) /\ SameNames(xs, ys)
<1>1. Len(xs) \in Nat /\ DOMAIN xs = 1..Len(xs)
  BY EntryFields
<1>2. ys \in [1..Len(xs) -> Entries]
  BY <1>1
<1>3. ys \in Seq(Entries) /\ Len(ys) = Len(xs)
  BY <1>1, <1>2, IsASeq
<1> QED BY <1>3 DEF SameNames

LEMMA ReplaceEffect ==
  ASSUME NEW xs \in Seq(Entries), NEW i \in DOMAIN xs, NEW s \in Spends
  PROVE  LET ys == [xs EXCEPT ![i].sb = s]
         IN  /\ ys \in Seq(Entries) /\ Len(ys) = Len(xs) /\ SameNames(xs, ys)
             /\ ys[i].sb = s
             /\ \A j \in DOMAIN xs : j # i => ys[j] = xs[j]
<1> DEFINE ys == [xs EXCEPT ![i].sb = s]
<1>1. DOMAIN ys = DOMAIN xs /\ ys = [j \in DOMAIN ys |-> ys[j]]
  <2>1. xs = [j \in DOMAIN xs |-> xs[j]]
    BY EntryFields
  <2> QED BY <2>1
<1>2. ys[i] = [xs[i] EXCEPT !.sb = s] /\ \A j \in DOMAIN xs : j # i => ys[j] = xs[j]
  <2>1. xs = [j \in DOMAIN xs |-> xs[j]]
    BY EntryFields
  <2> QED BY <2>1
<1>3. ys[i] \in Entries /\ ys[i].name = xs[i].name /\ ys[i].sb = s
  <2>1. xs[i] \in Entries
    BY EntryFields
  <2> QED BY <1>2, <2>1 DEF Entries
<1>4. \A j \in DOMAIN xs : ys[j] \in Entries /\ ys[j].name = xs[j].name
  BY <1>2, <1>3, EntryFields
<1> HIDE DEF ys
<1>5. ys \in Seq(Entries) /\ Len(ys) = Len(xs) /\ SameNames(xs, ys)
  BY <1>1, <1>4, EachEntry
<1> QED BY <1>2, <1>3, <1>5 DEF ys

LEMMA AppendEntry ==
  ASSUME NEW xs \in Seq(Entries), NEW e \in Entries
  PROVE  LET ys == Append(xs, e)
         IN  /\ ys \in Seq(Entries)
             /\ NamesOf(ys) = NamesOf(xs) \cup {e.name}
             /\ NamesDiffer(xs) /\ e.name \notin NamesOf(xs) => NamesDiffer(ys)
             /\ Range(ys) = Range(xs) \cup {e}
<1> DEFINE ys == Append(xs, e)
           N == Len(xs)
<1>1. /\ ys \in Seq(Entries) /\ Len(ys) = N + 1 /\ ys[N + 1] = e
      /\ \A i \in 1..N : ys[i] = xs[i]
      /\ N \in Nat /\ DOMAIN xs = 1..N
  BY AppendProperties, EntryFields
<1>2. DOMAIN ys = 1..(N + 1)
  BY <1>1, LenProperties
<1> HIDE DEF ys, N
<1>3. \A i \in 1..(N + 1) : i \in 1..N \/ i = N + 1
  BY <1>1
<1>4. 1..N \subseteq 1..(N + 1) /\ N + 1 \in 1..(N + 1)
  BY <1>1
<1>5. Range(ys) = Range(xs) \cup {e}
  <2>1. ASSUME NEW i \in 1..(N + 1) PROVE ys[i] \in Range(xs) \cup {e}
    BY <1>1, <1>3 DEF Range
  <2>2. \A i \in 1..N : xs[i] = ys[i] /\ i \in DOMAIN ys
    BY <1>1, <1>2, <1>4
  <2>3. e = ys[N + 1] /\ N + 1 \in DOMAIN ys
    BY <1>1, <1>2, <1>4
  <2> QED BY <1>1, <1>2, <2>1, <2>2, <2>3 DEF Range
<1>6. NamesOf(ys) = NamesOf(xs) \cup {e.name}
  <2>1. ASSUME NEW i \in 1..(N + 1) PROVE ys[i].name \in NamesOf(xs) \cup {e.name}
    BY <1>1, <1>3 DEF NamesOf
  <2>2. \A i \in 1..N : xs[i].name = ys[i].name /\ i \in DOMAIN ys
    BY <1>1, <1>2, <1>4
  <2>3. e.name = ys[N + 1].name /\ N + 1 \in DOMAIN ys
    BY <1>1, <1>2, <1>4
  <2> QED BY <1>1, <1>2, <2>1, <2>2, <2>3 DEF NamesOf
<1>7. ASSUME NamesDiffer(xs), e.name \notin NamesOf(xs) PROVE NamesDiffer(ys)
  <2>1. \A i \in 1..N : ys[i].name = xs[i].name /\ xs[i].name # e.name
    BY <1>1, <1>7 DEF NamesOf
  <2>2. ASSUME NEW i \in 1..(N + 1), NEW j \in 1..(N + 1), ys[i].name = ys[j].name
        PROVE  i = j
    <3>1. (i \in 1..N /\ j \in 1..N) \/ (i = N + 1 /\ j = N + 1)
      BY <1>1, <1>3, <2>1, <2>2
    <3> QED BY <1>1, <1>7, <2>1, <2>2, <3>1 DEF NamesDiffer
  <2> QED BY <1>2, <2>2 DEF NamesDiffer
<1> QED BY <1>1, <1>5, <1>6, <1>7 DEF ys

(* Map.set, for a key that is new and for one that is not.                 *)
LEMMA PutSpendEffect ==
  ASSUME NEW xs \in Seq(Entries), NEW e \in Entries
  PROVE  LET ys == PutSpend(xs, e)
         IN  /\ ys \in Seq(Entries)
             /\ NamesOf(ys) = NamesOf(xs) \cup {e.name}
             /\ NamesDiffer(xs) => NamesDiffer(ys)
             /\ Range(ys) \subseteq Range(xs) \cup {e}
<1> DEFINE ys == PutSpend(xs, e)
<1>1. CASE e.name \notin NamesOf(xs)
  BY <1>1, AppendEntry DEF PutSpend
<1>2. CASE e.name \in NamesOf(xs)
  <2>1. ys = [i \in DOMAIN xs |-> IF xs[i].name = e.name THEN e ELSE xs[i]]
    BY <1>2 DEF PutSpend
  <2> HIDE DEF ys
  <2>2. DOMAIN ys = DOMAIN xs /\ ys = [i \in DOMAIN ys |-> ys[i]]
    BY <2>1
  <2>3. \A i \in DOMAIN xs : ys[i] \in Entries /\ ys[i].name = xs[i].name
    BY <2>1, EntryFields
  <2>4. ys \in Seq(Entries) /\ SameNames(xs, ys)
    BY <2>2, <2>3, EachEntry
  <2>5. Range(ys) \subseteq Range(xs) \cup {e}
    BY <2>1 DEF Range
  <2> QED BY <1>2, <2>4, <2>5, SameNamesEffect DEF ys
<1> QED BY <1>1, <1>2

(* A list that takes its elements from different places of another.        *)
LEMMA PickedEffect ==
  ASSUME NEW xs \in Seq(Entries), NEW ys \in Seq(Entries),
         NEW pos \in [DOMAIN ys -> DOMAIN xs],
         \A k \in DOMAIN ys : ys[k] = xs[pos[k]],
         \A j, k \in DOMAIN ys : pos[j] = pos[k] => j = k
  PROVE  /\ Range(ys) \subseteq Range(xs)
         /\ NamesDiffer(xs) => NamesDiffer(ys)
<1>1. Range(ys) \subseteq Range(xs)
  BY DEF Range
<1>2. ASSUME NamesDiffer(xs) PROVE NamesDiffer(ys)
  <2>1. ASSUME NEW j \in DOMAIN ys, NEW k \in DOMAIN ys, ys[j].name = ys[k].name
        PROVE  j = k
    <3>1. xs[pos[j]].name = xs[pos[k]].name /\ pos[j] \in DOMAIN xs /\ pos[k] \in DOMAIN xs
      BY <2>1
    <3> QED BY <1>2, <3>1 DEF NamesDiffer
  <2> QED BY <2>1 DEF NamesDiffer
<1> QED BY <1>1, <1>2

LEMMA RemoveEffect ==
  ASSUME NEW xs \in Seq(Entries), NEW i \in DOMAIN xs
  PROVE  LET ys == RemoveAt(xs, i)
         IN  /\ ys \in Seq(Entries)
             /\ Range(ys) \subseteq Range(xs)
             /\ NamesOf(xs) \subseteq NamesOf(ys) \cup {xs[i].name}
             /\ NamesDiffer(xs) => NamesDiffer(ys) /\ xs[i].name \notin NamesOf(ys)
<1> DEFINE ys == RemoveAt(xs, i)
           N == Len(xs)
           a == SubSeq(xs, 1, i - 1)
           b == SubSeq(xs, i + 1, N)
           pos == [k \in 1..(N - 1) |-> IF k < i THEN k ELSE k + 1]
<1>1. N \in Nat /\ DOMAIN xs = 1..N /\ i \in 1..N /\ \A j \in 1..N : xs[j] \in Entries
  BY EntryFields
<1>2. /\ a \in Seq(Entries) /\ Len(a) = i - 1
      /\ \A k \in 1..(i - 1) : a[k] = xs[k]
  <2>1. 1 \in Int /\ i - 1 \in Int /\ \A k \in 1..(i - 1) : xs[k] \in Entries
    BY <1>1
  <2>2. /\ a \in Seq(Entries) /\ Len(a) = (IF 1 <= i - 1 THEN (i - 1) - 1 + 1 ELSE 0)
        /\ \A k \in 1..((i - 1) - 1 + 1) : a[k] = xs[1 + k - 1]
    BY <2>1, SubSeqProperties
  <2> HIDE DEF a
  <2> QED BY <1>1, <2>2
<1>3. /\ b \in Seq(Entries) /\ Len(b) = N - i
      /\ \A k \in 1..(N - i) : b[k] = xs[i + k]
  <2>1. i + 1 \in Int /\ N \in Int /\ \A k \in (i + 1)..N : xs[k] \in Entries
    BY <1>1
  <2>2. /\ b \in Seq(Entries) /\ Len(b) = (IF i + 1 <= N THEN N - (i + 1) + 1 ELSE 0)
        /\ \A k \in 1..(N - (i + 1) + 1) : b[k] = xs[(i + 1) + k - 1]
    BY <2>1, SubSeqProperties
  <2> HIDE DEF b
  <2>3. N - (i + 1) + 1 = N - i /\ (i + 1 <= N \/ N - i = 0)
    BY <1>1
  <2>4. \A k \in 1..(N - i) : (i + 1) + k - 1 = i + k
    BY <1>1
  <2> QED BY <1>1, <2>2, <2>3, <2>4
<1>4. ys = a \o b
  BY DEF RemoveAt
<1> HIDE DEF ys, a, b, N
<1>5. /\ ys \in Seq(Entries) /\ Len(ys) = N - 1
      /\ \A k \in 1..(N - 1) : ys[k] = IF k <= i - 1 THEN a[k] ELSE b[k - (i - 1)]
  <2>1. /\ ys \in Seq(Entries) /\ Len(ys) = Len(a) + Len(b)
        /\ \A k \in 1..Len(ys) : ys[k] = IF k <= Len(a) THEN a[k] ELSE b[k - Len(a)]
    <3>1. a \in Seq(Entries) /\ b \in Seq(Entries)
      BY <1>2, <1>3
    <3>2. /\ a \o b \in Seq(Entries) /\ Len(a \o b) = Len(a) + Len(b)
          /\ \A k \in 1..Len(a \o b) :
               (a \o b)[k] = IF k <= Len(a) THEN a[k] ELSE b[k - Len(a)]
      BY <3>1, ConcatProperties
    <3> QED BY <1>4, <3>2
  <2>2. (i - 1) + (N - i) = N - 1
    BY <1>1
  <2>3. Len(ys) = N - 1
    BY <1>2, <1>3, <2>1, <2>2
  <2> QED BY <1>2, <2>1, <2>3
<1>6. DOMAIN ys = 1..(N - 1)
  BY <1>5, EntryFields
<1>7. ASSUME NEW k \in 1..(N - 1)
      PROVE  pos[k] \in 1..N /\ pos[k] # i /\ ys[k] = xs[pos[k]]
  <2>1. CASE k < i
    <3>1. k \in 1..(i - 1) /\ k <= i - 1 /\ pos[k] = k
      BY <1>1, <2>1
    <3> QED BY <1>1, <1>2, <1>5, <2>1, <3>1
  <2>2. CASE ~ (k < i)
    <3>1. k - (i - 1) \in 1..(N - i) /\ ~ (k <= i - 1) /\ pos[k] = k + 1
          /\ i + (k - (i - 1)) = k + 1
      BY <1>1, <2>2
    <3>2. ys[k] = xs[k + 1]
      BY <1>3, <1>5, <3>1
    <3> QED BY <1>1, <2>2, <3>1, <3>2
  <2> QED BY <2>1, <2>2
<1>8. \A j, k \in 1..(N - 1) : pos[j] = pos[k] => j = k
  BY <1>1
<1>9. ASSUME NEW j \in 1..N, j # i PROVE \E k \in 1..(N - 1) : pos[k] = j
  <2>1. CASE j < i
    <3>1. j \in 1..(N - 1) /\ pos[j] = j
      BY <1>1, <2>1
    <3> QED BY <3>1
  <2>2. CASE ~ (j < i)
    <3>1. j - 1 \in 1..(N - 1) /\ pos[j - 1] = j
      BY <1>1, <1>9, <2>2
    <3> QED BY <3>1
  <2> QED BY <2>1, <2>2
<1>10. pos \in [DOMAIN ys -> DOMAIN xs]
  BY <1>1, <1>6, <1>7
<1> HIDE DEF pos
<1>11. Range(ys) \subseteq Range(xs) /\ (NamesDiffer(xs) => NamesDiffer(ys))
  <2>1. \A k \in DOMAIN ys : ys[k] = xs[pos[k]]
    BY <1>6, <1>7
  <2>2. \A j, k \in DOMAIN ys : pos[j] = pos[k] => j = k
    BY <1>6, <1>8
  <2> QED BY <1>5, <1>10, <2>1, <2>2, PickedEffect
<1>12. ASSUME NEW j \in 1..N PROVE xs[j].name \in NamesOf(ys) \cup {xs[i].name}
  BY <1>6, <1>7, <1>9 DEF NamesOf
<1>13. ASSUME NamesDiffer(xs) PROVE xs[i].name \notin NamesOf(ys)
  <2>1. ASSUME NEW k \in 1..(N - 1) PROVE ys[k].name # xs[i].name
    BY <1>1, <1>7, <1>13 DEF NamesDiffer
  <2> QED BY <1>6, <2>1 DEF NamesOf
<1>14. NamesOf(xs) \subseteq NamesOf(ys) \cup {xs[i].name}
  BY <1>1, <1>12 DEF NamesOf
<1> QED BY <1>5, <1>11, <1>13, <1>14 DEF ys

LEMMA KeptEffect ==
  ASSUME NEW xs \in Seq(Entries), NEW P
  PROVE  LET ys == Kept(xs, P)
         IN  /\ ys \in Seq(Entries)
             /\ Range(ys) \subseteq Range(xs)
             /\ NamesDiffer(xs) => NamesDiffer(ys)
             /\ NamesOf(ys) = {xs[i].name : i \in DOMAIN xs \cap P}
<1> DEFINE ys == Kept(xs, P)
<1>1. ys \in Seq(Entries)
  BY KeptType
<1>2. PICK pos : Locates(pos, ys, xs, P, Len(xs))
  BY KeptLocates
<1> HIDE DEF ys
<1>3. DOMAIN ys = 1..Len(ys) /\ Len(ys) \in Nat /\ DOMAIN xs = 1..Len(xs) /\ Len(xs) \in Nat
  BY <1>1, EntryFields
<1>4. /\ pos \in [DOMAIN ys -> DOMAIN xs]
      /\ \A k \in DOMAIN ys : pos[k] \in P /\ ys[k] = xs[pos[k]]
      /\ \A j, k \in DOMAIN ys : j < k => pos[j] < pos[k]
      /\ \A i \in DOMAIN xs : i \in P => \E k \in DOMAIN ys : pos[k] = i
  BY <1>2, <1>3 DEF Locates
<1>5. \A j, k \in DOMAIN ys : pos[j] = pos[k] => j = k
  <2>1. ASSUME NEW j \in DOMAIN ys, NEW k \in DOMAIN ys, j # k PROVE pos[j] # pos[k]
    <3>1. j < k \/ k < j
      BY <1>3, <2>1
    <3>2. pos[j] < pos[k] \/ pos[k] < pos[j]
      BY <1>4, <3>1
    <3>3. pos[j] \in Nat /\ pos[k] \in Nat
      BY <1>3, <1>4
    <3> QED BY <3>2, <3>3
  <2> QED BY <2>1
<1>6. Range(ys) \subseteq Range(xs) /\ (NamesDiffer(xs) => NamesDiffer(ys))
  <2>1. \A k \in DOMAIN ys : ys[k] = xs[pos[k]]
    BY <1>4
  <2>2. pos \in [DOMAIN ys -> DOMAIN xs]
    BY <1>4
  <2> QED BY <1>1, <1>5, <2>1, <2>2, PickedEffect
<1>7. NamesOf(ys) = {xs[i].name : i \in DOMAIN xs \cap P}
  <2>1. ASSUME NEW k \in DOMAIN ys
        PROVE  ys[k].name \in {xs[i].name : i \in DOMAIN xs \cap P}
    BY <1>4
  <2>2. ASSUME NEW i \in DOMAIN xs \cap P PROVE xs[i].name \in NamesOf(ys)
    BY <1>4 DEF NamesOf
  <2> QED BY <2>1, <2>2 DEF NamesOf
<1> QED BY <1>1, <1>6, <1>7 DEF ys

LEMMA ConcatEffect ==
  ASSUME NEW xs \in Seq(Entries), NEW ys \in Seq(Entries)
  PROVE  LET zs == xs \o ys
         IN  /\ zs \in Seq(Entries)
             /\ NamesOf(zs) = NamesOf(xs) \cup NamesOf(ys)
             /\ Range(zs) = Range(xs) \cup Range(ys)
             /\ NamesDiffer(xs) /\ NamesDiffer(ys) /\ NamesOf(xs) \cap NamesOf(ys) = {}
                  => NamesDiffer(zs)
<1> DEFINE zs == xs \o ys
           M == Len(xs)
           N == Len(ys)
<1>1. /\ M \in Nat /\ DOMAIN xs = 1..M /\ N \in Nat /\ DOMAIN ys = 1..N
  BY EntryFields
<1>2. /\ zs \in Seq(Entries) /\ Len(zs) = M + N
      /\ \A i \in 1..(M + N) : zs[i] = IF i <= M THEN xs[i] ELSE ys[i - M]
  BY ConcatProperties
<1> HIDE DEF zs, M, N
<1>3. DOMAIN zs = 1..(M + N)
  BY <1>2, EntryFields
<1>4. \A i \in 1..M : i \in 1..(M + N) /\ zs[i] = xs[i]
  <2>1. \A i \in 1..M : i \in 1..(M + N) /\ i <= M
    BY <1>1
  <2> QED BY <1>2, <2>1
<1>5. \A i \in 1..N : M + i \in 1..(M + N) /\ zs[M + i] = ys[i]
  <2>1. \A i \in 1..N : M + i \in 1..(M + N) /\ ~ (M + i <= M) /\ (M + i) - M = i
    BY <1>1
  <2> QED BY <1>2, <2>1
<1>6. \A i \in 1..(M + N) : i \in 1..M \/ (i - M \in 1..N /\ i = M + (i - M))
  BY <1>1
<1>10. ASSUME NEW i \in 1..(M + N), i - M \in 1..N PROVE zs[i] = ys[i - M]
  <2>1. ~ (i <= M)
    BY <1>1, <1>10
  <2> QED BY <1>2, <2>1
<1>7. Range(zs) = Range(xs) \cup Range(ys)
  <2>1. ASSUME NEW i \in 1..(M + N) PROVE zs[i] \in Range(xs) \cup Range(ys)
    BY <1>1, <1>4, <1>5, <1>6 DEF Range
  <2>2. ASSUME NEW i \in 1..M PROVE xs[i] \in Range(zs)
    BY <1>3, <1>4 DEF Range
  <2>3. ASSUME NEW i \in 1..N PROVE ys[i] \in Range(zs)
    BY <1>3, <1>5 DEF Range
  <2> QED BY <1>1, <1>3, <2>1, <2>2, <2>3 DEF Range
<1>8. NamesOf(zs) = NamesOf(xs) \cup NamesOf(ys)
  <2>1. ASSUME NEW i \in 1..(M + N) PROVE zs[i].name \in NamesOf(xs) \cup NamesOf(ys)
    BY <1>1, <1>4, <1>5, <1>6, ZenonT(30) DEF NamesOf
  <2>2. ASSUME NEW i \in 1..M PROVE xs[i].name \in NamesOf(zs)
    BY <1>3, <1>4 DEF NamesOf
  <2>3. ASSUME NEW i \in 1..N PROVE ys[i].name \in NamesOf(zs)
    BY <1>3, <1>5 DEF NamesOf
  <2> QED BY <1>1, <1>3, <2>1, <2>2, <2>3 DEF NamesOf
<1>9. ASSUME NamesDiffer(xs), NamesDiffer(ys), NamesOf(xs) \cap NamesOf(ys) = {}
      PROVE  NamesDiffer(zs)
  <2>1. ASSUME NEW i \in 1..(M + N), NEW j \in 1..(M + N), zs[i].name = zs[j].name
        PROVE  i = j
    <3>1. CASE i \in 1..M /\ j \in 1..M
      BY <1>1, <1>4, <1>9, <2>1, <3>1 DEF NamesDiffer
    <3>2. CASE i - M \in 1..N /\ j - M \in 1..N
      <4>1. zs[i] = ys[i - M] /\ zs[j] = ys[j - M]
        BY <1>10, <3>2
      <4>2. i - M = j - M
        BY <1>1, <1>9, <2>1, <3>2, <4>1 DEF NamesDiffer
      <4> QED BY <1>1, <4>2
    <3>3. ASSUME NEW k \in 1..M, NEW m \in 1..N PROVE xs[k].name # ys[m].name
      BY <1>1, <1>9 DEF NamesOf
    <3>4. CASE i \in 1..M /\ j - M \in 1..N
      <4>1. zs[i] = xs[i] /\ zs[j] = ys[j - M]
        BY <1>4, <1>10, <3>4
      <4> QED BY <2>1, <3>3, <3>4, <4>1
    <3>5. CASE i - M \in 1..N /\ j \in 1..M
      <4>1. zs[j] = xs[j] /\ zs[i] = ys[i - M]
        BY <1>4, <1>10, <3>5
      <4> QED BY <2>1, <3>3, <3>5, <4>1
    <3> QED BY <1>6, <3>1, <3>2, <3>4, <3>5
  <2> QED BY <1>3, <2>1 DEF NamesDiffer
<1> QED BY <1>2, <1>7, <1>8, <1>9 DEF zs

LEMMA NamedEffect ==
  ASSUME NEW xs, NEW n \in NamesOf(xs)
  PROVE  Named(xs, n) \in DOMAIN xs /\ xs[Named(xs, n)].name = n
<1>1. \E i \in DOMAIN xs : xs[i].name = n
  BY DEF NamesOf
<1> QED BY <1>1 DEF Named

(* The names of a list are as many as its entries exactly when they are    *)
(* different.                                                              *)
LEMMA NamesCount ==
  ASSUME NEW xs \in Seq(Entries)
  PROVE  (Cardinality(NamesOf(xs)) = Len(xs)) <=> NamesDiffer(xs)
<1> DEFINE N == Len(xs)
           f == [i \in 1..N |-> xs[i].name]
<1>1. N \in Nat /\ DOMAIN xs = 1..N
  BY EntryFields
<1>2. IsFiniteSet(1..N) /\ Cardinality(1..N) = N
  <2>1. N \in Nat
    BY <1>1
  <2> QED BY ONLY <2>1, PrefixIsFinite
<1>3. f \in Surjection(1..N, NamesOf(xs))
  BY <1>1 DEF Surjection, NamesOf
<1>4. Cardinality(NamesOf(xs)) = N <=> f \in Injection(1..N, NamesOf(xs))
  <2> HIDE DEF f, N
  <2>1. Cardinality(NamesOf(xs)) = Cardinality(1..N) <=> f \in Injection(1..N, NamesOf(xs))
    BY <1>2, <1>3, FS_Surjection
  <2> QED BY <1>2, <2>1
<1>5. f \in Injection(1..N, NamesOf(xs)) <=> NamesDiffer(xs)
  BY <1>1, <1>3 DEF Injection, IsInjective, Surjection, NamesDiffer
<1> QED BY <1>4, <1>5

-----------------------------------------------------------------------------
(* The fee of a list of entries, and the job setFeeAndBalanceRefund makes. *)

LEMMA CurFeeType ==
  ASSUME NEW xs \in Seq(Entries)
  PROVE  CurFee(xs) \in Nat
<1> DEFINE N == Len(xs)
           f == [i \in 1..N |-> xs[i].sb.fee]
<1>1. N \in Nat /\ \A i \in 1..N : xs[i].sb \in Spends
  BY EntryFields
<1>2. f \in [1..N -> Nat]
  BY <1>1, SpendFields
<1>3. Total(f) \in Nat
  <2> HIDE DEF f, N
  <2> QED BY <1>1, <1>2, ListTotalType
<1> QED BY <1>3 DEF CurFee

LEMMA CalcFeeType ==
  ASSUME NEW xs \in Seq(Entries)
  PROVE  CalcFee(xs) \in Nat
<1> DEFINE N == Len(xs)
           f == [i \in 1..N |-> MissingUnlocksFee(xs[i].sb)]
<1>1. N \in Nat /\ \A i \in 1..N : xs[i].sb \in Spends
  BY EntryFields
<1>2. f \in [1..N -> Nat]
  BY <1>1, MissingUnlocksFeeType
<1>3. Total(f) \in Nat
  <2> HIDE DEF f, N
  <2> QED BY <1>1, <1>2, ListTotalType
<1>4. SpendsOf(xs) \in Seq(Spends)
  BY <1>1, IsASeq DEF SpendsOf
<1>5. CalcFeeFromSpends(SpendsOf(xs)) \in Nat
  BY <1>4, CalcFeeFromSpendsType
<1>6. CalcFee(xs) = LargerOf(CalcFeeFromSpends(SpendsOf(xs)) + Total(f), MinFee)
  BY DEF CalcFee
<1> HIDE DEF f
<1> QED BY <1>3, <1>5, <1>6, SpendAssumption DEF LargerOf

LEMMA RefundCountsType ==
  ASSUME NEW xs \in Seq(Entries)
  PROVE  RefundCounts(xs) \in [Locks -> Nat]
<1>1. ASSUME NEW l \in Locks
      PROVE  Total([i \in 1..Len(xs) |->
               IF xs[i].sb.refund = l THEN Cardinality(RefundSeedsAt(xs[i].sb)) ELSE 0]) \in Nat
  <2> DEFINE N == Len(xs)
             f == [i \in 1..N |->
                     IF xs[i].sb.refund = l THEN Cardinality(RefundSeedsAt(xs[i].sb)) ELSE 0]
  <2>1. N \in Nat /\ \A i \in 1..N : xs[i].sb \in Spends
    BY EntryFields
  <2>2. ASSUME NEW i \in 1..N PROVE Cardinality(RefundSeedsAt(xs[i].sb)) \in Nat
    <3> DEFINE at == RefundSeedsAt(xs[i].sb)
               M == Len(xs[i].sb.seeds)
    <3>1. xs[i].sb.seeds \in Seq(Seeds)
      BY <2>1, SpendFields
    <3>2. M \in Nat /\ at \in SUBSET (1..M)
      BY <3>1, LenProperties DEF RefundSeedsAt
    <3>3. IsFiniteSet(at)
      <4> HIDE DEF at, M
      <4>1. IsFiniteSet(1..M)
        BY <3>2, PrefixIsFinite
      <4> QED BY <3>2, <4>1, FS_Subset
    <3> QED BY <3>3, FS_CardinalityType
  <2>3. f \in [1..N -> Nat]
    BY <2>2
  <2>4. Total(f) \in Nat
    <3> HIDE DEF f, N
    <3> QED BY <2>1, <2>3, ListTotalType
  <2> QED BY <2>4
<1> QED BY <1>1 DEF RefundCounts

(* The spends a job has still to come to have the refund its iteration     *)
(* reads, or the refund lock; the notes of a payment that are not in the   *)
(* builder yet are not in it; and the notes that will go back to the pool  *)
(* are spends that the job has come to, once each.                         *)
JobFits(j, sp, pl) ==
  /\ j \in BaseJobs \cup FeeJobs \cup {Idle}
  /\ j.op = "base" =>
       /\ NamesDiffer(j.notes)
       /\ NamesOf(j.notes) \cap (NamesOf(sp) \cup NamesOf(pl)) = {}
  /\ j.op = "raise" => \A i \in DOMAIN sp : sp[i].name \in j.todo => HasRefund(sp[i].sb)
  /\ j.op = "lower" =>
       /\ \A i \in DOMAIN sp : sp[i].name \in j.todo => sp[i].sb.refund # NoLock
       /\ \A k \in DOMAIN j.back : j.back[k] \in NamesOf(sp) \ j.todo
       /\ \A k, m \in DOMAIN j.back : j.back[k] = j.back[m] => k = m

LEMMA IdleFits ==
  ASSUME NEW sp, NEW pl
  PROVE  JobFits(Idle, sp, pl)
BY DEF JobFits, Idle

LEMMA SetFeeJobFits ==
  ASSUME NEW xs \in Seq(Entries), NEW order \in Orders \cup {NoOrder}, NEW target \in Nat,
         NEW adjust \in BOOLEAN, NEW include \in BOOLEAN, NamesDiffer(xs), NEW pl,
         CurFee(xs) # target
  PROVE  JobFits(SetFeeJob(xs, order, target, adjust, include), xs, pl)
<1> DEFINE cur == CurFee(xs)
           raising == cur < target
           taken == {i \in DOMAIN xs :
                       IF raising THEN HasRefund(xs[i].sb) ELSE xs[i].sb.refund # NoLock}
           j == SetFeeJob(xs, order, target, adjust, include)
           todo == {xs[i].name : i \in taken}
           left == IF raising THEN target - cur ELSE cur - target
<1>1. j = [op |-> IF raising THEN "raise" ELSE "lower", order |-> order, todo |-> todo,
           left |-> left, target |-> target, adjust |-> adjust, include |-> include,
           refunds |-> RefundCounts(xs), back |-> << >>]
  BY DEF SetFeeJob
<1>2. left \in Nat
  BY CurFeeType
<1>3. todo \in SUBSET Names
  BY EntryFields
<1>4. << >> \in Seq(Names)
  BY EmptySeq
<1>5. \A i \in DOMAIN xs : xs[i].name \in todo => i \in taken
  BY DEF NamesDiffer
<1>6. RefundCounts(xs) \in [Locks -> Nat]
  BY RefundCountsType
<1> HIDE DEF left, todo, j
<1>7. j \in FeeJobs
  BY <1>1, <1>2, <1>3, <1>4, <1>6 DEF FeeJobs
<1>8. /\ j.op = (IF raising THEN "raise" ELSE "lower")
      /\ j.todo = todo /\ j.back = << >>
  BY <1>1
<1>9. j.op = "raise" => \A i \in DOMAIN xs : xs[i].name \in j.todo => HasRefund(xs[i].sb)
  BY <1>5, <1>8
<1>10. j.op = "lower" => \A i \in DOMAIN xs : xs[i].name \in j.todo => xs[i].sb.refund # NoLock
  BY <1>5, <1>8
<1>11. DOMAIN j.back = {} /\ j.op # "base"
  BY <1>8
<1> QED BY <1>7, <1>9, <1>10, <1>11 DEF JobFits, j

-----------------------------------------------------------------------------
(* The inductive invariant.                                                *)

AllBalanced(xs) ==
  \A i \in DOMAIN xs : xs[i].sb.refund \in Locks \ HashedLocks => IsBalanced(xs[i].sb)

(* The spends and the pool.  The notes of the pool are balanced as well,   *)
(* for the day they are spent.                                             *)
Holds(sp, pl) ==
  /\ sp \in Seq(Entries) /\ pl \in Seq(Entries)
  /\ NamesDiffer(sp) /\ NamesDiffer(pl)
  /\ NamesOf(sp) \cap NamesOf(pl) = {}
  /\ AllBalanced(sp) /\ AllBalanced(pl)

IInv ==
  /\ Holds(spends, pool)
  /\ JobFits(job, spends, pool)
  /\ result \in Outcomes
  /\ calls \in 0..MaxCalls

Held == NamesOf(spends) \cup NamesOf(pool)

(* AllBalanced is about the members of a list.                             *)
LEMMA MembersBalanced ==
  ASSUME NEW xs, NEW ys, AllBalanced(xs), Range(ys) \subseteq Range(xs)
  PROVE  AllBalanced(ys)
BY DEF AllBalanced, Range

LEMMA OneMoreBalanced ==
  ASSUME NEW xs, NEW ys, NEW e, AllBalanced(xs), Range(ys) \subseteq Range(xs) \cup {e},
         e.sb.refund \in Locks \ HashedLocks => IsBalanced(e.sb)
  PROVE  AllBalanced(ys)
BY DEF AllBalanced, Range

(* Some of the spends are changed, in place, and stay balanced.            *)
LEMMA RewriteHolds ==
  ASSUME NEW sp, NEW pl, Holds(sp, pl), NEW new \in Seq(Entries), SameNames(sp, new),
         \A i \in DOMAIN sp :
           new[i].sb.refund \in Locks \ HashedLocks => IsBalanced(new[i].sb)
  PROVE  Holds(new, pl) /\ NamesOf(new) = NamesOf(sp)
BY SameNamesEffect DEF Holds, AllBalanced, SameNames

(* An entry is added to the spends, or replaces one of them.               *)
LEMMA PutHolds ==
  ASSUME NEW sp, NEW pl, Holds(sp, pl), NEW e \in Entries, e.name \notin NamesOf(pl),
         e.sb.refund \in Locks \ HashedLocks => IsBalanced(e.sb)
  PROVE  Holds(PutSpend(sp, e), pl) /\ NamesOf(PutSpend(sp, e)) = NamesOf(sp) \cup {e.name}
<1>1. sp \in Seq(Entries)
  BY DEF Holds
<1>2. /\ PutSpend(sp, e) \in Seq(Entries)
      /\ NamesOf(PutSpend(sp, e)) = NamesOf(sp) \cup {e.name}
      /\ NamesDiffer(sp) => NamesDiffer(PutSpend(sp, e))
      /\ Range(PutSpend(sp, e)) \subseteq Range(sp) \cup {e}
  BY <1>1, PutSpendEffect
<1>3. AllBalanced(PutSpend(sp, e))
  BY <1>2, OneMoreBalanced DEF Holds
<1> QED BY <1>2, <1>3 DEF Holds

LEMMA PoolMoreHolds ==
  ASSUME NEW sp, NEW pl, Holds(sp, pl), NEW e \in Entries,
         e.name \notin NamesOf(sp) \cup NamesOf(pl),
         e.sb.refund \in Locks \ HashedLocks => IsBalanced(e.sb)
  PROVE  Holds(sp, Append(pl, e)) /\ NamesOf(Append(pl, e)) = NamesOf(pl) \cup {e.name}
<1>1. pl \in Seq(Entries)
  BY DEF Holds
<1>2. /\ Append(pl, e) \in Seq(Entries)
      /\ NamesOf(Append(pl, e)) = NamesOf(pl) \cup {e.name}
      /\ NamesDiffer(pl) /\ e.name \notin NamesOf(pl) => NamesDiffer(Append(pl, e))
      /\ Range(Append(pl, e)) = Range(pl) \cup {e}
  BY <1>1, AppendEntry
<1>3. AllBalanced(Append(pl, e))
  BY <1>2, OneMoreBalanced DEF Holds
<1> QED BY <1>2, <1>3 DEF Holds

-----------------------------------------------------------------------------
(* A call begins or ends.                                                  *)

LEMMA FinishFits ==
  ASSUME NEW outcome \in Outcomes, Finish(outcome)
  PROVE  JobFits(job', spends', pool') /\ result' \in Outcomes
BY IdleFits DEF Finish

LEMMA BeginCalls ==
  ASSUME IInv, Begin
  PROVE  calls' \in 0..MaxCalls
BY TxBuilderAssumption DEF IInv, Begin

LEMMA SetFeeCallFits ==
  ASSUME NEW order \in Orders \cup {NoOrder}, NEW target \in Nat,
         NEW adjust \in BOOLEAN, NEW include \in BOOLEAN, result \in Outcomes,
         spends' \in Seq(Entries), NamesDiffer(spends'),
         SetFeeAndBalanceRefund(spends', order, target, adjust, include)
  PROVE  JobFits(job', spends', pool') /\ result' \in Outcomes
<1>1. CASE CurFee(spends') = target
  <2>1. Finish("ok")
    BY <1>1 DEF SetFeeAndBalanceRefund
  <2>2. "ok" \in Outcomes
    BY DEF Outcomes
  <2> QED BY <2>1, <2>2, FinishFits
<1>2. CASE CurFee(spends') # target
  <2>1. job' = SetFeeJob(spends', order, target, adjust, include) /\ result' = result
    BY <1>2 DEF SetFeeAndBalanceRefund
  <2>2. JobFits(SetFeeJob(spends', order, target, adjust, include), spends', pool')
    BY <1>2, SetFeeJobFits
  <2> QED BY <2>1, <2>2
<1> QED BY <1>1, <1>2

-----------------------------------------------------------------------------
(* simpleSpend.                                                            *)

LEMMA JobKinds ==
  ASSUME NEW j \in BaseJobs \cup FeeJobs \cup {Idle}
  PROVE  /\ j.op = "base" => j \in BaseJobs
         /\ j.op \in {"raise", "pool", "lower"} => j \in FeeJobs
BY DEF BaseJobs, FeeJobs, Idle

LEMMA OrderFields ==
  ASSUME NEW order \in Orders
  PROVE  /\ order.notes \in Seq(Notes) /\ order.to \in Locks \ HashedLocks
         /\ order.gift \in Nat /\ order.override \in Nat \cup {NoOverride}
         /\ order.refund \in Locks \ HashedLocks /\ order.include \in BOOLEAN
         /\ order.extras \in NoteDatas /\ order.preimage \in Digests \cup {NoPreimage}
BY DEF Orders

LEMMA SimpleSpendKeeps ==
  ASSUME IInv, NEW order \in SimpleSpends, SimpleSpend(order)
  PROVE  IInv' /\ Held \subseteq Held'
<1>1. calls' \in 0..MaxCalls /\ spends' = spends /\ pool' = pool /\ result \in Outcomes
  BY BeginCalls DEF SimpleSpend, IInv
<1>2. JobFits(job', spends', pool') /\ result' \in Outcomes
  <2>1. CASE order.gift = 0
    <3>1. Finish("Cannot create a transaction with zero gift")
      BY <2>1 DEF SimpleSpend
    <3>2. "Cannot create a transaction with zero gift" \in Outcomes
      BY DEF Outcomes
    <3> QED BY <3>1, <3>2, FinishFits
  <2>2. CASE order.gift # 0
    <3> DEFINE j == [op |-> "base", order |-> order, notes |-> order.notes,
                     left |-> order.gift]
    <3>1. job' = j /\ result' = result
      BY <2>2 DEF SimpleSpend
    <3>2. order \in Orders /\ order.notes \in Seq(Notes) /\ order.gift \in Nat
      BY TxBuilderAssumption, OrderFields
    <3>3. j \in BaseJobs
      BY <3>2 DEF BaseJobs
    <3>4. NamesDiffer(order.notes)
      BY CallerAssumption
    <3>5. NamesOf(order.notes) \cap (NamesOf(spends) \cup NamesOf(pool)) = {}
      <4>1. \A i \in DOMAIN order.notes :
              order.notes[i].name \notin NamesOf(spends) \cup NamesOf(pool)
        BY DEF SimpleSpend
      <4> QED BY <4>1 DEF NamesOf
    <3>6. j.op = "base" /\ j.notes = order.notes
      OBVIOUS
    <3> HIDE DEF j
    <3>7. JobFits(j, spends, pool)
      BY <3>3, <3>4, <3>5, <3>6 DEF JobFits
    <3> QED BY <1>1, <3>1, <3>7
  <2> QED BY <2>1, <2>2
<1> QED BY <1>1, <1>2 DEF IInv, Held

(* The entry a note of the payment becomes.                                *)
LEMMA PaidNote ==
  ASSUME NEW order \in Orders, NEW note \in Notes, NEW portion \in Nat, portion <= note.assets
  PROVE  LET new == NewSpend(note.assets, order.refund, note.witness)
             seed == BuildSeed(order.to, portion, order.include, order.extras)
             giving == AddSeed(new, seed)
             a == ComputeRefund(giving, order.include)
             b == ComputeRefund(new, order.include)
         IN  a \in Spends /\ IsBalanced(a) /\ b \in Spends /\ IsBalanced(b)
<1> DEFINE new == NewSpend(note.assets, order.refund, note.witness)
           seed == BuildSeed(order.to, portion, order.include, order.extras)
           giving == AddSeed(new, seed)
<1>1. order.refund \in Locks \ HashedLocks /\ order.include \in BOOLEAN
  BY OrderFields
<1>2. note.assets \in Nat /\ note.witness \in Witnesses
  BY DEF Notes, FreshWitnesses
<1>3. new \in Spends
  BY <1>1, <1>2, NewSpendType
<1>4. new.refund = order.refund /\ new.fee = 0 /\ new.seeds = << >>
      /\ new.assets = note.assets
  BY DEF NewSpend
<1>5. seed \in Seeds /\ seed.gift = portion
  <2>1. seed \in Seeds
    BY OrderFields, BuildSeedType
  <2> QED BY <2>1 DEF BuildSeed
<1>6. << >> \in Seq(Seeds)
  BY EmptySeq
<1>7. Gifts(<< >>) = 0
  <2> DEFINE f == [i \in 1..Len(<< >>) |-> << >>[i].gift]
  <2>1. f = << >>
    OBVIOUS
  <2>2. Gifts(<< >>) = Total(f)
    BY DEF Gifts
  <2> HIDE DEF f
  <2> QED BY <2>1, <2>2, TotalEmpty
<1> HIDE DEF new, seed
<1>8. /\ giving \in Spends /\ giving.refund = order.refund /\ giving.fee = 0
      /\ giving.seeds = Append(<< >>, seed) /\ giving.assets = note.assets
  BY <1>3, <1>4, <1>5, AddSeedType, AddSeedFields
<1>9. Gifts(Append(<< >>, seed)) = 0 + portion
  BY <1>5, <1>6, <1>7, GiftsAppend
<1> HIDE DEF giving
<1>10. Gifts(giving.seeds) <= giving.assets /\ Gifts(new.seeds) <= new.assets
  BY <1>2, <1>4, <1>7, <1>8, <1>9
<1>11. IsBalanced(ComputeRefund(giving, order.include))
  BY <1>1, <1>8, <1>10, NewSpendBalances
<1>12. IsBalanced(ComputeRefund(new, order.include))
  BY <1>1, <1>3, <1>4, <1>10, NewSpendBalances
<1> QED BY <1>1, <1>3, <1>8, <1>11, <1>12, ComputeRefundType DEF new, seed, giving

LEMMA FirstNote ==
  ASSUME NEW notes \in Seq(Notes), notes # << >>
  PROVE  /\ Head(notes) \in Notes /\ Tail(notes) \in Seq(Notes)
         /\ Head(notes).name \in NamesOf(notes)
         /\ NamesOf(Tail(notes)) \subseteq NamesOf(notes)
         /\ NamesDiffer(notes) =>
              NamesDiffer(Tail(notes)) /\ Head(notes).name \notin NamesOf(Tail(notes))
<1> DEFINE rest == Tail(notes)
           N == Len(notes)
<1>1. N \in Nat /\ N # 0 /\ DOMAIN notes = 1..N
  BY LenProperties, EmptySeq
<1>2. /\ Head(notes) = notes[1] /\ Head(notes) \in Notes
      /\ rest \in Seq(Notes) /\ Len(rest) = N - 1
      /\ \A i \in 1..Len(rest) : rest[i] = notes[i + 1]
  BY <1>1, HeadTailProperties
<1> HIDE DEF rest, N
<1>3. DOMAIN rest = 1..(N - 1)
  BY <1>2, LenProperties
<1>4. \A i \in 1..(N - 1) : i + 1 \in 1..N /\ i + 1 # 1 /\ rest[i].name = notes[i + 1].name
  BY <1>1, <1>2
<1>5. 1 \in 1..N
  BY <1>1
<1>6. Head(notes).name \in NamesOf(notes)
  BY <1>1, <1>2, <1>5 DEF NamesOf
<1>7. NamesOf(rest) \subseteq NamesOf(notes)
  BY <1>1, <1>3, <1>4 DEF NamesOf
<1>8. ASSUME NamesDiffer(notes)
      PROVE  NamesDiffer(rest) /\ Head(notes).name \notin NamesOf(rest)
  <2>1. ASSUME NEW i \in 1..(N - 1), NEW k \in 1..(N - 1), rest[i].name = rest[k].name
        PROVE  i = k
    <3>1. i + 1 = k + 1
      BY <1>1, <1>4, <1>8, <2>1, SMTT(30) DEF NamesDiffer
    <3> QED BY <1>1, <3>1
  <2>2. \A i \in 1..(N - 1) : rest[i].name # Head(notes).name
    BY <1>1, <1>2, <1>4, <1>5, <1>8 DEF NamesDiffer
  <2> QED BY <1>3, <2>1, <2>2 DEF NamesDiffer, NamesOf
<1> QED BY <1>2, <1>6, <1>7, <1>8 DEF rest

LEMMA BaseStepKeeps ==
  ASSUME IInv, BaseStep
  PROVE  IInv' /\ Held \subseteq Held'
<1> DEFINE order == job.order
           note == Head(job.notes)
           portion == SmallerOf(job.left, note.assets)
           new == NewSpend(note.assets, order.refund, note.witness)
           giving == AddSeed(new, BuildSeed(order.to, portion, order.include, order.extras))
           Entry(s) == [name |-> note.name, sb |-> ComputeRefund(s, order.include)]
           next == [job EXCEPT !.notes = Tail(@), !.left = @ - portion]
<1>1. /\ Holds(spends, pool) /\ JobFits(job, spends, pool) /\ result \in Outcomes
      /\ calls' \in 0..MaxCalls
  BY DEF IInv, BaseStep
<1>2. job \in BaseJobs /\ job.op = "base" /\ job.notes # << >>
  <2>1. job \in BaseJobs \cup FeeJobs \cup {Idle}
    BY <1>1 DEF JobFits
  <2> QED BY <2>1, JobKinds DEF BaseStep
<1>3. order \in Orders /\ job.notes \in Seq(Notes) /\ job.left \in Nat
  BY <1>2 DEF BaseJobs
<1>4. /\ note \in Notes /\ Tail(job.notes) \in Seq(Notes)
      /\ note.name \in NamesOf(job.notes)
      /\ NamesOf(Tail(job.notes)) \subseteq NamesOf(job.notes)
      /\ NamesDiffer(job.notes) =>
           NamesDiffer(Tail(job.notes)) /\ note.name \notin NamesOf(Tail(job.notes))
  BY <1>2, <1>3, FirstNote
<1>5. /\ NamesDiffer(job.notes)
      /\ NamesOf(job.notes) \cap (NamesOf(spends) \cup NamesOf(pool)) = {}
  BY <1>1, <1>2 DEF JobFits
<1>6. note.name \in Names /\ note.assets \in Nat
  BY <1>4 DEF Notes
<1>7. portion \in Nat /\ portion <= note.assets /\ portion <= job.left
  BY <1>3, <1>6 DEF SmallerOf
<1>8. /\ ComputeRefund(giving, order.include) \in Spends
      /\ IsBalanced(ComputeRefund(giving, order.include))
      /\ ComputeRefund(new, order.include) \in Spends
      /\ IsBalanced(ComputeRefund(new, order.include))
  <2> HIDE DEF order, note, portion
  <2> QED BY <1>3, <1>4, <1>7, PaidNote
<1>9. next \in BaseJobs /\ next.op = "base" /\ next.notes = Tail(job.notes)
  <2> HIDE DEF portion
  <2>1. job.left - portion \in Nat
    BY <1>3, <1>7
  <2> QED BY <1>2, <1>4, <2>1 DEF BaseJobs
<1>10. /\ Entry(giving) \in Entries /\ Entry(new) \in Entries
       /\ Entry(giving).name = note.name /\ Entry(new).name = note.name
       /\ IsBalanced(Entry(giving).sb) /\ IsBalanced(Entry(new).sb)
  <2> HIDE DEF giving, new, order, note
  <2> QED BY <1>6, <1>8 DEF Entries
<1>11. note.name \notin NamesOf(spends) \cup NamesOf(pool)
  BY <1>4, <1>5
<1>12. CASE note.name \in V0Names
  <2>1. Finish("V0 notes not supported") /\ spends' = spends /\ pool' = pool
    BY <1>12 DEF BaseStep
  <2>2. "V0 notes not supported" \in Outcomes
    BY DEF Outcomes
  <2>3. JobFits(job', spends', pool') /\ result' \in Outcomes
    BY <2>1, <2>2, FinishFits
  <2> QED BY <1>1, <2>1, <2>3 DEF IInv, Held
<1>13. CASE note.name \notin V0Names
  <2>1. /\ job' = next /\ result' = result
        /\ \/ spends' = PutSpend(spends, Entry(giving)) /\ pool' = pool
           \/ pool' = Append(pool, Entry(new)) /\ spends' = spends
    BY <1>13 DEF BaseStep
  <2> HIDE DEF Entry, next, note, giving, new
  <2>2. /\ Holds(spends', pool')
        /\ NamesOf(spends') \cup NamesOf(pool')
             = NamesOf(spends) \cup NamesOf(pool) \cup {note.name}
    <3>1. CASE spends' = PutSpend(spends, Entry(giving)) /\ pool' = pool
      BY <1>1, <1>10, <1>11, <3>1, PutHolds
    <3>2. CASE pool' = Append(pool, Entry(new)) /\ spends' = spends
      BY <1>1, <1>10, <1>11, <3>2, PoolMoreHolds
    <3> QED BY <2>1, <3>1, <3>2
  <2>3. NamesOf(next.notes) \cap (NamesOf(spends') \cup NamesOf(pool')) = {}
        /\ NamesDiffer(next.notes)
    BY <1>4, <1>5, <1>9, <2>2
  <2>4. JobFits(next, spends', pool')
    BY <1>9, <2>3 DEF JobFits
  <2> QED BY <1>1, <2>1, <2>2, <2>4 DEF IInv, Held
<1> QED BY <1>12, <1>13

(* Preimages and signatures are not money.                                 *)
LEMMA AddPreimageFields ==
  ASSUME NEW s \in Spends, NEW d \in Digests
  PROVE  LET t == AddPreimage(s, d)
         IN  t.assets = s.assets /\ t.refund = s.refund /\ t.seeds = s.seeds /\ t.fee = s.fee
BY DEF AddPreimage, Spends

LEMMA PushPkhSignatureFields ==
  ASSUME NEW s \in Spends, NEW p, NEW content
  PROVE  LET t == PushPkhSignature(s, p, content)
         IN  t.assets = s.assets /\ t.refund = s.refund /\ t.seeds = s.seeds /\ t.fee = s.fee
BY DEF PushPkhSignature, Spends

LEMMA PreimagesHold ==
  ASSUME NEW sp, NEW pl, Holds(sp, pl), NEW d \in Digests
  PROVE  /\ Holds(AddPreimageToAll(sp, d), pl)
         /\ NamesOf(AddPreimageToAll(sp, d)) = NamesOf(sp)
<1> DEFINE new == AddPreimageToAll(sp, d)
<1>1. sp \in Seq(Entries) /\ AllBalanced(sp)
  BY DEF Holds
<1>2. DOMAIN new = DOMAIN sp /\ new = [i \in DOMAIN new |-> new[i]]
  BY DEF AddPreimageToAll
<1>3. ASSUME NEW i \in DOMAIN sp
      PROVE  /\ new[i] \in Entries /\ new[i].name = sp[i].name
             /\ new[i].sb.refund \in Locks \ HashedLocks => IsBalanced(new[i].sb)
  <2>1. sp[i] \in Entries /\ sp[i].sb \in Spends
    BY <1>1, EntryFields
  <2>2. AddPreimage(sp[i].sb, d) \in Spends
    BY <2>1, AddPreimageType
  <2>3. new[i] = [sp[i] EXCEPT !.sb = AddPreimage(@, d)]
    BY DEF AddPreimageToAll
  <2>4. new[i] \in Entries /\ new[i].name = sp[i].name /\ new[i].sb = AddPreimage(sp[i].sb, d)
    <3> HIDE DEF new
    <3> QED BY <2>1, <2>2, <2>3 DEF Entries
  <2> HIDE DEF new
  <2> QED BY <1>1, <2>1, <2>4, AddPreimageFields DEF AllBalanced, IsBalanced
<1> HIDE DEF new
<1>4. new \in Seq(Entries) /\ SameNames(sp, new)
  BY <1>1, <1>2, <1>3, EachEntry
<1> QED BY <1>3, <1>4, RewriteHolds DEF new

LEMMA SignaturesHold ==
  ASSUME NEW sp, NEW pl, Holds(sp, pl), NEW pkh \in Pkhs, NEW new,
         new = [i \in DOMAIN sp |->
                  IF ListedIn(sp[i].sb.witness.prims, pkh)
                  THEN [sp[i] EXCEPT !.sb = PushPkhSignature(@, pkh, SigHash(@))]
                  ELSE sp[i]]
  PROVE  Holds(new, pl) /\ NamesOf(new) = NamesOf(sp)
<1>1. sp \in Seq(Entries) /\ AllBalanced(sp)
  BY DEF Holds
<1>2. DOMAIN new = DOMAIN sp /\ new = [i \in DOMAIN new |-> new[i]]
  OBVIOUS
<1>3. ASSUME NEW i \in DOMAIN sp
      PROVE  /\ new[i] \in Entries /\ new[i].name = sp[i].name
             /\ new[i].sb.refund \in Locks \ HashedLocks => IsBalanced(new[i].sb)
  <2> DEFINE s == sp[i].sb
             t == PushPkhSignature(s, pkh, SigHash(s))
  <2>1. sp[i] \in Entries /\ s \in Spends
    BY <1>1, EntryFields
  <2>2. t \in Spends
    BY <2>1, SigHashType, PushPkhSignatureType
  <2>3. /\ t.assets = s.assets /\ t.refund = s.refund /\ t.seeds = s.seeds /\ t.fee = s.fee
    BY <2>1, PushPkhSignatureFields
  <2>4. new[i] = [sp[i] EXCEPT !.sb = t] \/ new[i] = sp[i]
    OBVIOUS
  <2>5. s.refund \in Locks \ HashedLocks => IsBalanced(s)
    BY <1>1 DEF AllBalanced
  <2>6. t.refund \in Locks \ HashedLocks => IsBalanced(t)
    BY <2>3, <2>5 DEF IsBalanced
  <2> HIDE DEF t
  <2>7. CASE new[i] = sp[i]
    BY <2>1, <2>5, <2>7
  <2>8. CASE new[i] = [sp[i] EXCEPT !.sb = t]
    <3>1. new[i] \in Entries /\ new[i].name = sp[i].name /\ new[i].sb = t
      BY <2>1, <2>2, <2>8 DEF Entries
    <3> QED BY <2>6, <3>1
  <2> QED BY <2>4, <2>7, <2>8
<1>4. new \in Seq(Entries) /\ SameNames(sp, new)
  BY <1>1, <1>2, <1>3, EachEntry
<1> QED BY <1>3, <1>4, RewriteHolds

LEMMA BaseEndKeeps ==
  ASSUME IInv, BaseEnd
  PROVE  IInv' /\ Held \subseteq Held'
<1> DEFINE order == job.order
           unlocked == IF order.preimage = NoPreimage THEN spends
                       ELSE AddPreimageToAll(spends, order.preimage)
<1>1. /\ Holds(spends, pool) /\ JobFits(job, spends, pool) /\ result \in Outcomes
      /\ calls' \in 0..MaxCalls /\ pool' = pool
  BY DEF IInv, BaseEnd
<1>2. order \in Orders
  <2>1. job \in BaseJobs \cup FeeJobs \cup {Idle}
    BY <1>1 DEF JobFits
  <2> QED BY <2>1, JobKinds DEF BaseEnd, BaseJobs
<1>3. /\ order.preimage \in Digests \cup {NoPreimage} /\ order.include \in BOOLEAN
      /\ order.override \in Nat \cup {NoOverride}
  BY <1>2, OrderFields
<1>4. Holds(unlocked, pool) /\ NamesOf(unlocked) = NamesOf(spends)
  BY <1>1, <1>3, PreimagesHold
<1> HIDE DEF order, unlocked
<1>5. CASE spends' = spends /\ (\/ Finish("Insufficient funds to pay fee and gift")
                               \/ Finish("preimage does not match any spend condition hax unlock"))
  <2>1. /\ "Insufficient funds to pay fee and gift" \in Outcomes
        /\ "preimage does not match any spend condition hax unlock" \in Outcomes
    BY DEF Outcomes
  <2>2. JobFits(job', spends', pool') /\ result' \in Outcomes
    BY <1>5, <2>1, FinishFits
  <2> QED BY <1>1, <1>5, <2>2 DEF IInv, Held
<1>6. CASE /\ spends' = unlocked
           /\ \/ /\ order.override = NoOverride
                 /\ SetFeeAndBalanceRefund(unlocked, order, CalcFee(unlocked), TRUE, order.include)
              \/ /\ order.override # NoOverride
                 /\ SetFeeAndBalanceRefund(unlocked, order, order.override, FALSE, order.include)
  <2>1. spends' \in Seq(Entries) /\ NamesDiffer(spends')
    BY <1>4, <1>6 DEF Holds
  <2>2. PICK target \in Nat, adjust \in BOOLEAN :
          SetFeeAndBalanceRefund(unlocked, order, target, adjust, order.include)
    <3>1. CalcFee(unlocked) \in Nat
      BY <1>4, CalcFeeType DEF Holds
    <3> QED BY <1>3, <1>6, <3>1
  <2>3. SetFeeAndBalanceRefund(spends', order, target, adjust, order.include)
    BY <1>6, <2>2
  <2>4. JobFits(job', spends', pool') /\ result' \in Outcomes
    BY <1>1, <1>2, <1>3, <2>1, <2>3, SetFeeCallFits
  <2> QED BY <1>1, <1>4, <1>6, <2>4 DEF IInv, Held
<1>7. QED
  BY <1>5, <1>6 DEF BaseEnd, order, unlocked

-----------------------------------------------------------------------------
(* The other calls.                                                        *)

LEMMA SetFeeToKeeps ==
  ASSUME IInv, NEW target \in Nat, NEW adjust \in BOOLEAN, NEW include \in BOOLEAN,
         SetFeeTo(target, adjust, include)
  PROVE  IInv' /\ Held \subseteq Held'
<1>1. /\ Holds(spends, pool) /\ result \in Outcomes /\ calls' \in 0..MaxCalls
      /\ spends' = spends /\ pool' = pool
  BY BeginCalls DEF IInv, SetFeeTo
<1>2. SetFeeAndBalanceRefund(spends, NoOrder, target, adjust, include)
  BY DEF SetFeeTo
<1>3. SetFeeAndBalanceRefund(spends', NoOrder, target, adjust, include)
  BY <1>1, <1>2
<1>4. spends' \in Seq(Entries) /\ NamesDiffer(spends')
  BY <1>1 DEF Holds
<1>5. JobFits(job', spends', pool') /\ result' \in Outcomes
  BY <1>1, <1>3, <1>4, SetFeeCallFits
<1> QED BY <1>1, <1>5 DEF IInv, Held

(* A call that ends at once, having changed the spends only.               *)
LEMMA ShortCallKeeps ==
  ASSUME IInv, Begin, NEW outcome \in Outcomes, Finish(outcome), pool' = pool,
         Holds(spends', pool), NamesOf(spends) \subseteq NamesOf(spends')
  PROVE  IInv' /\ Held \subseteq Held'
<1>1. calls' \in 0..MaxCalls
  BY BeginCalls
<1>2. JobFits(job', spends', pool') /\ result' \in Outcomes
  BY FinishFits
<1>3. Holds(spends', pool')
  OBVIOUS
<1> QED BY <1>1, <1>2, <1>3 DEF IInv, Held

LEMMA AddSpendKeeps ==
  ASSUME IInv, NEW e \in Additions, AddSpend(e)
  PROVE  IInv' /\ Held \subseteq Held'
<1>1. e \in Entries /\ (e.sb.refund \in Locks \ HashedLocks => IsBalanced(e.sb))
  BY TxBuilderAssumption, CallerAssumption
<1>2. Begin /\ e.name \notin NamesOf(pool) /\ spends' = PutSpend(spends, e)
      /\ Finish("ok") /\ pool' = pool
  BY DEF AddSpend
<1>3. /\ Holds(PutSpend(spends, e), pool)
      /\ NamesOf(PutSpend(spends, e)) = NamesOf(spends) \cup {e.name}
  BY <1>1, <1>2, PutHolds DEF IInv
<1>4. "ok" \in Outcomes
  BY DEF Outcomes
<1>5. Holds(spends', pool) /\ NamesOf(spends) \subseteq NamesOf(spends')
  BY <1>2, <1>3
<1> QED BY <1>2, <1>4, <1>5, ShortCallKeeps

LEMMA AddPreimageCallKeeps ==
  ASSUME IInv, NEW d \in Digests, AddPreimageCall(d)
  PROVE  IInv' /\ Held \subseteq Held'
<1>1. Begin /\ spends' = AddPreimageToAll(spends, d) /\ pool' = pool
      /\ Finish(IF SomeClaims(spends, d) THEN "ok" ELSE "undefined")
  BY DEF AddPreimageCall
<1>2. (IF SomeClaims(spends, d) THEN "ok" ELSE "undefined") \in Outcomes
  BY DEF Outcomes
<1>3. Holds(AddPreimageToAll(spends, d), pool)
      /\ NamesOf(AddPreimageToAll(spends, d)) = NamesOf(spends)
  BY PreimagesHold DEF IInv
<1>4. Holds(spends', pool) /\ NamesOf(spends) \subseteq NamesOf(spends')
  BY <1>1, <1>3
<1> QED BY <1>1, <1>2, <1>4, ShortCallKeeps

LEMMA SignAllKeeps ==
  ASSUME IInv, NEW pkh \in Pkhs, SignAll(pkh)
  PROVE  IInv' /\ Held \subseteq Held'
<1> DEFINE new == [i \in DOMAIN spends |->
                     IF ListedIn(spends[i].sb.witness.prims, pkh)
                     THEN [spends[i] EXCEPT !.sb = PushPkhSignature(@, pkh, SigHash(@))]
                     ELSE spends[i]]
<1>1. Begin /\ spends' = new /\ pool' = pool /\ Finish("ok")
  BY DEF SignAll
<1>2. "ok" \in Outcomes
  BY DEF Outcomes
<1>3. Holds(new, pool) /\ NamesOf(new) = NamesOf(spends)
  BY SignaturesHold DEF IInv
<1> HIDE DEF new
<1>4. Holds(spends', pool) /\ NamesOf(spends) \subseteq NamesOf(spends')
  BY <1>1, <1>3
<1> QED BY <1>1, <1>2, <1>4, ShortCallKeeps

LEMMA ValidateKeeps ==
  ASSUME IInv, Validate
  PROVE  IInv' /\ Held \subseteq Held'
<1>1. Begin /\ spends' = spends /\ pool' = pool
  BY DEF Validate
<1>2. PICK outcome \in {"InvalidFee", "UnbalancedSpends", "MissingUnlocks", "valid"} :
        Finish(outcome)
  BY DEF Validate
<1>3. outcome \in Outcomes
  BY DEF Outcomes
<1>4. Holds(spends', pool) /\ NamesOf(spends) \subseteq NamesOf(spends')
  BY <1>1 DEF IInv
<1> QED BY <1>1, <1>2, <1>3, <1>4, ShortCallKeeps

-----------------------------------------------------------------------------
(* Raising the fee.                                                        *)

LEMMA FeeJobFields ==
  ASSUME NEW j \in FeeJobs
  PROVE  /\ j.op \in {"raise", "pool", "lower"} /\ j.todo \in SUBSET Names
         /\ j.left \in Nat /\ j.adjust \in BOOLEAN /\ j.include \in BOOLEAN
         /\ j.refunds \in [Locks -> Nat] /\ j.back \in Seq(Names)
BY DEF FeeJobs

LEMMA JobOfStep ==
  ASSUME IInv, job.op \in {"raise", "pool", "lower"}
  PROVE  job \in FeeJobs
BY JobKinds DEF IInv, JobFits

LEMMA TakenType ==
  ASSUME NEW s \in Spends, HasRefund(s), NEW wanted \in Nat
  PROVE  /\ TakenFromRefund(s, wanted) \in Nat
         /\ TakenFromRefund(s, wanted) <= wanted
BY CurRefundType DEF TakenFromRefund, SmallerOf

LEMMA SpendingCostType ==
  ASSUME NEW s \in Spends, NEW merged \in BOOLEAN
  PROVE  SpendingCost(s, merged) \in Nat
<1>1. /\ SeedFee(SeedWords(s)) \in Nat
      /\ WitnessFee(WitnessWords(s)) \in Nat
      /\ MissingUnlocksFee(s) \in Nat
  BY SeedWordsType, SeedFeeType, WitnessWordsType, WitnessFeeType, MissingUnlocksFeeType
<1> QED BY <1>1 DEF SpendingCost

LEMMA RaiseStepKeeps ==
  ASSUME IInv, NEW i \in DOMAIN spends, RaiseStep(i)
  PROVE  IInv' /\ Held \subseteq Held'
<1> DEFINE s == spends[i].sb
           name == spends[i].name
           sub == TakenFromRefund(s, job.left)
           paid == FeeChanged(s, s.fee + sub, job.include)
           dropped == CostPerWord * NoteDataWords(CurRefund(s).data)
           rebate == IF job.adjust /\ ~ HasRefund(paid)
                     THEN SmallerOf(job.left - sub, dropped) ELSE 0
           next == [job EXCEPT !.todo = @ \ {name}, !.left = @ - sub - rebate]
           skip == [job EXCEPT !.todo = @ \ {name}]
           new == [spends EXCEPT ![i].sb = paid]
<1>1. /\ Holds(spends, pool) /\ JobFits(job, spends, pool) /\ result \in Outcomes
      /\ calls' \in 0..MaxCalls /\ pool' = pool /\ job.op = "raise"
  BY DEF IInv, RaiseStep
<1>2. job \in FeeJobs
  BY <1>1, JobOfStep
<1>3. spends \in Seq(Entries) /\ NamesDiffer(spends) /\ AllBalanced(spends)
  BY <1>1 DEF Holds
<1>4. s \in Spends /\ s.fee \in Nat
  BY <1>3, EntryFields, SpendFields
<1>5. HasRefund(s)
  <2>1. name \in job.todo
    BY DEF RaiseStep, RaiseNext, Todo
  <2> QED BY <1>1, <2>1 DEF JobFits
<1>6. job.left \in Nat /\ job.todo \in SUBSET Names /\ job.include \in BOOLEAN
  BY <1>2, FeeJobFields
<1>7. sub \in Nat /\ sub <= job.left
  BY <1>4, <1>5, <1>6, TakenType
<1>8. paid \in Spends /\ paid.refund = s.refund
      /\ (s.refund \in Locks \ HashedLocks => IsBalanced(paid))
  <2>1. s.fee + sub \in Nat
    BY <1>4, <1>7
  <2>2. paid \in Spends /\ paid.refund = s.refund
    BY <1>4, <1>6, <2>1, FeeChangedType
  <2>3. ASSUME s.refund \in Locks \ HashedLocks PROVE IsBalanced(paid)
    <3>1. IsBalanced(s)
      BY <1>3, <2>3 DEF AllBalanced
    <3> QED BY <1>4, <1>5, <1>6, <2>3, <3>1, RaisingBalances
  <2> QED BY <2>2, <2>3
<1>9. rebate \in Nat /\ rebate <= job.left - sub
  <2>1. NoteDataWords(CurRefund(s).data) \in Nat
    <3>1. CurRefund(s).data \in NoteDatas
      BY <1>4, <1>5, CurRefundType DEF Seeds
    <3> QED BY <3>1, NoteDataWordsType
  <2>2. dropped \in Nat
    BY <2>1, SpendAssumption
  <2> HIDE DEF dropped, sub, paid
  <2> QED BY <1>6, <1>7, <2>2 DEF SmallerOf
<1>10. /\ new \in Seq(Entries) /\ SameNames(spends, new) /\ new[i].sb = paid
       /\ \A k \in DOMAIN spends : k # i => new[k] = spends[k]
  <2> HIDE DEF paid
  <2> QED BY <1>3, <1>8, ReplaceEffect
<1> HIDE DEF sub, rebate, paid, new
<1>11. Holds(new, pool) /\ NamesOf(new) = NamesOf(spends)
  <2>1. \A k \in DOMAIN spends :
          new[k].sb.refund \in Locks \ HashedLocks => IsBalanced(new[k].sb)
    BY <1>3, <1>8, <1>10 DEF AllBalanced
  <2> QED BY <1>1, <1>10, <2>1, RewriteHolds
<1>12. skip \in FeeJobs /\ skip.op = "raise" /\ skip.todo = job.todo \ {name}
       /\ next \in FeeJobs /\ next.op = "raise" /\ next.todo = job.todo \ {name}
  <2>1. job.left - sub - rebate \in Nat
    BY <1>6, <1>7, <1>9
  <2> QED BY <1>1, <1>2, <2>1 DEF FeeJobs
<1>13. \A k \in DOMAIN spends : spends[k].name \in job.todo => HasRefund(spends[k].sb)
  BY <1>1 DEF JobFits
<1>14. CASE sub = 0
  <2>1. job' = skip /\ spends' = spends /\ result' = result
    BY <1>14 DEF RaiseStep, sub
  <2> HIDE DEF skip
  <2>2. JobFits(skip, spends, pool)
    BY <1>12, <1>13 DEF JobFits
  <2> QED BY <1>1, <2>1, <2>2 DEF IInv, Held
<1>15. CASE sub # 0
  <2>1. /\ spends' = new
        /\ \/ Finish(LockIsHash)
           \/ job' = next /\ result' = result
    BY <1>15 DEF RaiseStep, sub, new, paid, rebate
  <2> HIDE DEF next
  <2>2. CASE Finish(LockIsHash)
    <3>1. LockIsHash \in Outcomes
      BY DEF Outcomes
    <3>2. JobFits(job', spends', pool') /\ result' \in Outcomes
      BY <2>2, <3>1, FinishFits
    <3> QED BY <1>1, <1>11, <2>1, <3>2 DEF IInv, Held
  <2>3. CASE job' = next /\ result' = result
    <3>1. ASSUME NEW k \in DOMAIN new, new[k].name \in next.todo
          PROVE  HasRefund(new[k].sb)
      <4>1. k \in DOMAIN spends /\ new[k].name = spends[k].name
        BY <1>10 DEF SameNames
      <4>2. k # i /\ spends[k].name \in job.todo
        BY <1>12, <3>1, <4>1
      <4> QED BY <1>10, <1>13, <4>1, <4>2
    <3>2. JobFits(next, new, pool)
      BY <1>12, <3>1 DEF JobFits
    <3> QED BY <1>1, <1>11, <2>1, <2>3, <3>2 DEF IInv, Held
  <2> QED BY <2>1, <2>2, <2>3
<1> QED BY <1>14, <1>15

LEMMA RaiseEndKeeps ==
  ASSUME IInv, RaiseEnd
  PROVE  IInv' /\ Held \subseteq Held'
<1> DEFINE next == [job EXCEPT !.op = "pool"]
<1>1. /\ job.op = "raise" /\ job' = next /\ spends' = spends /\ pool' = pool
      /\ result' = result /\ calls' = calls
  BY DEF RaiseEnd
<1>2. job \in FeeJobs
  BY <1>1, JobOfStep
<1>3. next \in FeeJobs /\ next.op = "pool"
  BY <1>2 DEF FeeJobs
<1> HIDE DEF next
<1>4. JobFits(next, spends, pool)
  BY <1>3 DEF JobFits
<1> QED BY <1>1, <1>4 DEF IInv, Held

-----------------------------------------------------------------------------
(* Taking notes from the pool.  A note whose refund lock throws is taken   *)
(* out and not put into the spends.                                        *)

LEMMA PoolStepKeeps ==
  ASSUME IInv, NEW i \in DOMAIN pool, PoolStep(i)
  PROVE  /\ IInv'
         /\ \/ Held \subseteq Held'
            \/ job' = Idle /\ result' \in {LockIsHash, "Fee pool entry must have refund"}
<1> DEFINE s == pool[i].sb
           name == pool[i].name
           r == ComputeRefund(s, job.include)
           lock == r.refund
           merged == EnginePatch = 1 /\ job.refunds[lock] > 0
           cost == IF job.adjust THEN SpendingCost(r, merged) ELSE 0
           sub == TakenFromRefund(r, job.left + cost)
           paid == IF sub > 0 THEN FeeChanged(r, r.fee + sub, job.include) ELSE r
           e == [name |-> name, sb |-> paid]
           rest == RemoveAt(pool, i)
           next == [job EXCEPT !.left = @ + cost - sub,
                               !.refunds[lock] = IF job.adjust THEN @ + 1 ELSE @]
<1>1. /\ Holds(spends, pool) /\ JobFits(job, spends, pool) /\ result \in Outcomes
      /\ calls' \in 0..MaxCalls /\ pool' = rest /\ job.op = "pool"
  BY DEF IInv, PoolStep
<1>2. job \in FeeJobs
  BY <1>1, JobOfStep
<1>3. job.left \in Nat /\ job.include \in BOOLEAN /\ job.adjust \in BOOLEAN
      /\ job.refunds \in [Locks -> Nat]
  BY <1>2, FeeJobFields
<1>4. pool \in Seq(Entries) /\ s \in Spends /\ name \in Names /\ AllBalanced(pool)
      /\ name \in NamesOf(pool) /\ NamesOf(spends) \cap NamesOf(pool) = {}
  BY <1>1, EntryFields DEF Holds, NamesOf
<1>5. /\ rest \in Seq(Entries) /\ Range(rest) \subseteq Range(pool)
      /\ NamesOf(pool) \subseteq NamesOf(rest) \cup {name}
      /\ NamesDiffer(rest) /\ name \notin NamesOf(rest)
  BY <1>1, <1>4, RemoveEffect DEF Holds
<1> HIDE DEF rest
<1>6. Holds(spends, rest)
  <2>1. AllBalanced(rest)
    BY <1>4, <1>5, MembersBalanced
  <2>2. NamesOf(rest) \subseteq NamesOf(pool)
    BY <1>5, NamesAreMembers
  <2> QED BY <1>1, <1>5, <2>1, <2>2 DEF Holds
<1>7. r \in Spends /\ lock = s.refund /\ (lock \in Locks \ HashedLocks => IsBalanced(r))
  <2>1. r \in Spends /\ lock = s.refund
    BY <1>3, <1>4, ComputeRefundType, ComputeRefundEffect
  <2>2. ASSUME s.refund \in Locks \ HashedLocks PROVE IsBalanced(r)
    <3>1. IsBalanced(s)
      BY <1>4, <2>2 DEF AllBalanced
    <3>2. Unspent(s) >= 0
      BY <1>4, <3>1, BalancedLeaves
    <3>3. s.refund # NoLock /\ ~ ComputeRefundThrows(s, job.include)
      BY <2>2, SpendAssumption, KnownNeverThrows
    <3> QED BY <1>3, <1>4, <3>2, <3>3, ComputeRefundBalances
  <2> QED BY <2>1, <2>2
<1>8. ASSUME NEW outcome \in {LockIsHash, "Fee pool entry must have refund"},
             Finish(outcome), spends' = spends
      PROVE  IInv' /\ job' = Idle /\ result' = outcome
  <2>1. outcome \in Outcomes
    BY DEF Outcomes
  <2>2. JobFits(job', spends', pool') /\ result' \in Outcomes
    BY <1>8, <2>1, FinishFits
  <2>3. job' = Idle /\ result' = outcome
    BY <1>8 DEF Finish
  <2> QED BY <1>1, <1>6, <1>8, <2>2, <2>3 DEF IInv
<1>9. ASSUME HasRefund(r), spends' = PutSpend(spends, e), job' = next, result' = result
      PROVE  IInv' /\ Held \subseteq Held'
  <2>1. lock \in Locks
    BY <1>7, <1>9, SpendFields DEF HasRefund
  <2>2. cost \in Nat
    <3>1. merged \in BOOLEAN
      OBVIOUS
    <3>2. SpendingCost(r, merged) \in Nat
      <4> HIDE DEF merged, r
      <4> QED BY <1>7, <3>1, SpendingCostType
    <3> HIDE DEF merged, r
    <3> QED BY <3>2
  <2> HIDE DEF cost
  <2>3. job.left + cost \in Nat
    BY <1>3, <2>2
  <2>4. sub \in Nat /\ sub <= job.left + cost
    <3> HIDE DEF r
    <3> QED BY <1>7, <1>9, <2>3, TakenType
  <2>5. paid \in Spends /\ (paid.refund \in Locks \ HashedLocks => IsBalanced(paid))
    <3> DEFINE more == FeeChanged(r, r.fee + sub, job.include)
    <3> HIDE DEF r
    <3>1. r.fee + sub \in Nat
      BY <1>7, <2>4, SpendFields
    <3>2. more \in Spends /\ more.refund = lock
      BY <1>3, <1>7, <3>1, FeeChangedType
    <3>3. lock \in Locks \ HashedLocks => IsBalanced(more)
      BY <1>3, <1>7, <1>9, <2>3, RaisingBalances
    <3>4. paid = r \/ paid = more
      OBVIOUS
    <3> HIDE DEF paid, more
    <3> QED BY <1>7, <3>2, <3>3, <3>4
  <2> HIDE DEF paid, sub, lock, r
  <2>6. e \in Entries /\ e.name = name /\ e.sb = paid
    BY <1>4, <2>5 DEF Entries
  <2>7. next \in FeeJobs /\ next.op = "pool"
    <3>1. job.left + cost - sub \in Nat
      BY <1>3, <2>2, <2>4
    <3>2. [job.refunds EXCEPT ![lock] = IF job.adjust THEN @ + 1 ELSE @] \in [Locks -> Nat]
      BY <1>3, <2>1
    <3> QED BY <1>1, <1>2, <3>1, <3>2 DEF FeeJobs
  <2> HIDE DEF e, next
  <2>8. Holds(PutSpend(spends, e), rest)
        /\ NamesOf(PutSpend(spends, e)) = NamesOf(spends) \cup {name}
    <3>1. e.name \notin NamesOf(rest)
      BY <1>5, <2>6
    <3> QED BY <1>6, <2>5, <2>6, <3>1, PutHolds
  <2>9. JobFits(next, spends', rest)
    BY <2>7 DEF JobFits
  <2> QED BY <1>1, <1>5, <1>9, <2>8, <2>9 DEF IInv, Held
<1>10. \/ Finish(LockIsHash) /\ spends' = spends
       \/ Finish("Fee pool entry must have refund") /\ spends' = spends
       \/ HasRefund(r) /\ spends' = PutSpend(spends, e) /\ job' = next /\ result' = result
  BY DEF PoolStep
<1> QED BY <1>8, <1>9, <1>10

LEMMA PoolEndKeeps ==
  ASSUME IInv, PoolEnd
  PROVE  IInv' /\ Held \subseteq Held'
<1>1. spends' = spends /\ pool' = pool /\ calls' = calls
  BY DEF PoolEnd
<1>2. PICK outcome \in {"Insufficient funds to pay fee and gift", "ok"} : Finish(outcome)
  BY DEF PoolEnd
<1>3. outcome \in Outcomes
  BY DEF Outcomes
<1>4. JobFits(job', spends', pool') /\ result' \in Outcomes
  BY <1>2, <1>3, FinishFits
<1> QED BY <1>1, <1>4 DEF IInv, Held

-----------------------------------------------------------------------------
(* Lowering the fee.                                                       *)

LEMMA LowerStepKeeps ==
  ASSUME IInv, NEW i \in DOMAIN spends, LowerStep(i)
  PROVE  IInv' /\ Held \subseteq Held'
<1> DEFINE s == spends[i].sb
           name == spends[i].name
           add == SmallerOf(s.fee, job.left)
           less == IF add > 0 THEN FeeChanged(s, s.fee - add, job.include) ELSE s
           merged == EnginePatch = 1 /\ job.refunds[s.refund] > 1
           saved == SpendingCost(less, merged)
           next == [job EXCEPT !.todo = @ \ {name}, !.left = @ - add]
           back == [next EXCEPT !.back = Append(@, name),
                                !.refunds[s.refund] = LargerOf(0, @ - 1),
                                !.left = LargerOf(0, @ - saved)]
           new == [spends EXCEPT ![i].sb = less]
<1>1. /\ Holds(spends, pool) /\ JobFits(job, spends, pool) /\ result \in Outcomes
      /\ calls' \in 0..MaxCalls /\ pool' = pool /\ job.op = "lower" /\ spends' = new
  BY DEF IInv, LowerStep
<1>2. job \in FeeJobs
  BY <1>1, JobOfStep
<1>3. spends \in Seq(Entries) /\ NamesDiffer(spends) /\ AllBalanced(spends)
  BY <1>1 DEF Holds
<1>4. s \in Spends /\ s.fee \in Nat /\ name \in Names /\ name \in NamesOf(spends)
      /\ s.refund \in Locks \cup {NoLock}
  BY <1>3, EntryFields, SpendFields DEF NamesOf
<1>5. name \in job.todo
  BY DEF LowerStep, LowerNext, Todo
<1>6. s.refund \in Locks
  <2>1. s.refund # NoLock
    BY <1>1, <1>5 DEF JobFits
  <2> QED BY <1>4, <2>1
<1>7. job.left \in Nat /\ job.todo \in SUBSET Names /\ job.include \in BOOLEAN
      /\ job.refunds \in [Locks -> Nat] /\ job.back \in Seq(Names)
  BY <1>2, FeeJobFields
<1>8. add \in Nat /\ add <= job.left /\ add <= s.fee
  BY <1>4, <1>7 DEF SmallerOf
<1>9. less \in Spends /\ less.refund = s.refund
      /\ (s.refund \in Locks \ HashedLocks => IsBalanced(less))
  <2> DEFINE changed == FeeChanged(s, s.fee - add, job.include)
  <2>1. s.fee - add \in Nat
    BY <1>4, <1>8
  <2>2. changed \in Spends /\ changed.refund = s.refund
    BY <1>4, <1>7, <2>1, FeeChangedType
  <2>3. ASSUME s.refund \in Locks \ HashedLocks PROVE IsBalanced(s) /\ IsBalanced(changed)
    <3>1. IsBalanced(s)
      BY <1>3, <2>3 DEF AllBalanced
    <3> HIDE DEF s, add
    <3> QED BY <1>4, <1>7, <1>8, <2>3, <3>1, LoweringBalances
  <2>4. less = s \/ less = changed
    OBVIOUS
  <2> HIDE DEF changed, less
  <2> QED BY <1>4, <2>2, <2>3, <2>4
<1>10. saved \in Nat
  <2>1. merged \in BOOLEAN
    OBVIOUS
  <2> HIDE DEF merged, less
  <2> QED BY <1>9, <2>1, SpendingCostType
<1>11. /\ new \in Seq(Entries) /\ SameNames(spends, new) /\ new[i].sb = less
       /\ \A k \in DOMAIN spends : k # i => new[k] = spends[k]
  <2> HIDE DEF less
  <2> QED BY <1>3, <1>9, ReplaceEffect
<1> HIDE DEF add, less, new, saved, merged
<1>12. Holds(new, pool) /\ NamesOf(new) = NamesOf(spends)
  <2>1. \A k \in DOMAIN spends :
          new[k].sb.refund \in Locks \ HashedLocks => IsBalanced(new[k].sb)
    BY <1>3, <1>9, <1>11 DEF AllBalanced
  <2> QED BY <1>1, <1>11, <2>1, RewriteHolds
<1>13. next \in FeeJobs /\ next.op = "lower" /\ next.todo = job.todo \ {name}
       /\ next.back = job.back /\ next.refunds = job.refunds /\ next.left = job.left - add
  <2>1. job.left - add \in Nat
    BY <1>7, <1>8
  <2> QED BY <1>1, <1>2, <2>1 DEF FeeJobs
<1> HIDE DEF next
<1>14. /\ back \in FeeJobs /\ back.op = "lower" /\ back.todo = job.todo \ {name}
       /\ back.back = Append(job.back, name)
  <2>1. LargerOf(0, next.left - saved) \in Nat
    BY <1>7, <1>8, <1>10, <1>13 DEF LargerOf
  <2>2. Append(job.back, name) \in Seq(Names)
    BY <1>4, <1>7, AppendProperties
  <2>3. [next.refunds EXCEPT ![s.refund] = LargerOf(0, @ - 1)] \in [Locks -> Nat]
    <3>1. LargerOf(0, job.refunds[s.refund] - 1) \in Nat
      BY <1>6, <1>7 DEF LargerOf
    <3> QED BY <1>7, <1>13, <3>1
  <2> QED BY <1>13, <2>1, <2>2, <2>3 DEF FeeJobs
<1> HIDE DEF back
<1>15. /\ \A k \in DOMAIN spends : spends[k].name \in job.todo => spends[k].sb.refund # NoLock
       /\ \A k \in DOMAIN job.back : job.back[k] \in NamesOf(spends) \ job.todo
       /\ \A k, m \in DOMAIN job.back : job.back[k] = job.back[m] => k = m
  BY <1>1 DEF JobFits
<1>16. ASSUME NEW k \in DOMAIN new, new[k].name \in job.todo \ {name}
       PROVE  new[k].sb.refund # NoLock
  <2>1. k \in DOMAIN spends /\ new[k].name = spends[k].name
    BY <1>11 DEF SameNames
  <2>2. k # i
    BY <1>16, <2>1
  <2> QED BY <1>11, <1>15, <1>16, <2>1, <2>2
<1>17. \/ Finish(LockIsHash)
       \/ result' = result /\ (job' = next \/ job' = back)
  BY DEF LowerStep, next, back, new, less, add, saved, merged
<1>18. CASE Finish(LockIsHash)
  <2>1. LockIsHash \in Outcomes
    BY DEF Outcomes
  <2>2. JobFits(job', spends', pool') /\ result' \in Outcomes
    BY <1>18, <2>1, FinishFits
  <2> QED BY <1>1, <1>12, <2>2 DEF IInv, Held
<1>19. CASE result' = result /\ job' = next
  <2>1. JobFits(next, new, pool)
    BY <1>12, <1>13, <1>15, <1>16 DEF JobFits
  <2> QED BY <1>1, <1>12, <1>19, <2>1 DEF IInv, Held
<1>20. CASE result' = result /\ job' = back
  <2> DEFINE N == Len(job.back)
  <2>1. /\ N \in Nat /\ DOMAIN job.back = 1..N /\ DOMAIN back.back = 1..(N + 1)
        /\ back.back[N + 1] = name
        /\ \A k \in 1..N : back.back[k] = job.back[k]
    <3>1. N \in Nat /\ DOMAIN job.back = 1..N
      BY <1>7, LenProperties
    <3>2. /\ Append(job.back, name) \in Seq(Names) /\ Len(Append(job.back, name)) = N + 1
          /\ Append(job.back, name)[N + 1] = name
          /\ \A k \in 1..N : Append(job.back, name)[k] = job.back[k]
      BY <1>4, <1>7, AppendProperties
    <3>3. DOMAIN Append(job.back, name) = 1..(N + 1)
      BY <3>2, LenProperties
    <3> QED BY <1>14, <3>1, <3>2, <3>3
  <2> HIDE DEF N
  <2>2. \A k \in 1..(N + 1) : k \in 1..N \/ k = N + 1
    BY <2>1
  <2>3. \A k \in 1..N : job.back[k] # name
    BY <1>5, <1>15, <2>1
  <2>4. \A k \in DOMAIN back.back : back.back[k] \in NamesOf(new) \ back.todo
    BY <1>4, <1>12, <1>14, <1>15, <2>1, <2>2
  <2>5. ASSUME NEW k \in 1..(N + 1), NEW m \in 1..(N + 1), back.back[k] = back.back[m]
        PROVE  k = m
    <3>1. (k \in 1..N /\ m \in 1..N) \/ (k = N + 1 /\ m = N + 1)
      BY <2>1, <2>2, <2>3, <2>5
    <3> QED BY <1>15, <2>1, <2>5, <3>1
  <2>6. JobFits(back, new, pool)
    BY <1>14, <1>16, <2>1, <2>4, <2>5 DEF JobFits
  <2> QED BY <1>1, <1>12, <1>20, <2>6 DEF IInv, Held
<1> QED BY <1>17, <1>18, <1>19, <1>20

(* The notes go from the spends to the pool, each to one place.            *)
LEMMA LowerEndKeepsNotes ==
  ASSUME IInv, LowerEnd
  PROVE  IInv' /\ Held \subseteq Held'
<1> DEFINE N == Len(job.back)
           at(k) == Named(spends, job.back[k])
           places == {i \in DOMAIN spends : spends[i].name \notin ReturnedNames}
<1>1. /\ Holds(spends, pool) /\ JobFits(job, spends, pool) /\ job.op = "lower"
      /\ calls' \in 0..MaxCalls /\ spends' = StayingSpends /\ pool' = pool \o ReturnedSpends
  BY DEF IInv, LowerEnd
<1>2. job \in FeeJobs
  BY <1>1, JobOfStep
<1>3. /\ spends \in Seq(Entries) /\ pool \in Seq(Entries)
      /\ NamesDiffer(spends) /\ NamesDiffer(pool)
      /\ AllBalanced(spends) /\ AllBalanced(pool)
      /\ NamesOf(spends) \cap NamesOf(pool) = {}
  BY <1>1 DEF Holds
<1>4. job.back \in Seq(Names) /\ N \in Nat /\ DOMAIN job.back = 1..N
  BY <1>2, FeeJobFields, LenProperties
<1>5. /\ \A k \in DOMAIN job.back : job.back[k] \in NamesOf(spends)
      /\ \A k, m \in DOMAIN job.back : job.back[k] = job.back[m] => k = m
  BY <1>1 DEF JobFits
<1>6. \A k \in DOMAIN job.back : at(k) \in DOMAIN spends /\ spends[at(k)].name = job.back[k]
  BY <1>5, NamedEffect
<1> HIDE DEF at, N
<1>7. /\ ReturnedSpends \in Seq(Entries) /\ DOMAIN ReturnedSpends = DOMAIN job.back
      /\ \A k \in DOMAIN job.back : ReturnedSpends[k] = spends[at(k)]
  <2>1. /\ DOMAIN ReturnedSpends = DOMAIN job.back
        /\ \A k \in DOMAIN job.back : ReturnedSpends[k] = spends[at(k)]
        /\ ReturnedSpends = [k \in 1..N |-> spends[at(k)]]
    BY <1>4 DEF ReturnedSpends, at
  <2>2. \A k \in 1..N : spends[at(k)] \in Entries
    BY <1>3, <1>4, <1>6, EntryFields
  <2>3. ReturnedSpends \in Seq(Entries)
    BY <1>4, <2>1, <2>2, IsASeq
  <2> QED BY <2>1, <2>3
<1>8. /\ Range(ReturnedSpends) \subseteq Range(spends) /\ NamesDiffer(ReturnedSpends)
      /\ NamesOf(ReturnedSpends) = ReturnedNames
  <2>1. Range(ReturnedSpends) \subseteq Range(spends)
    BY <1>6, <1>7 DEF Range
  <2>2. \A k \in DOMAIN job.back : ReturnedSpends[k].name = job.back[k]
    BY <1>6, <1>7
  <2>3. NamesDiffer(ReturnedSpends)
    BY <1>5, <1>7, <2>2 DEF NamesDiffer
  <2>4. NamesOf(ReturnedSpends) = ReturnedNames
    BY <1>7, <2>2 DEF NamesOf, ReturnedNames
  <2> QED BY <2>1, <2>3, <2>4
<1>9. ReturnedNames \subseteq NamesOf(spends)
  BY <1>5 DEF ReturnedNames
<1>10. /\ StayingSpends \in Seq(Entries) /\ Range(StayingSpends) \subseteq Range(spends)
       /\ NamesDiffer(StayingSpends)
       /\ NamesOf(StayingSpends) = {spends[i].name : i \in DOMAIN spends \cap places}
  BY <1>3, KeptEffect DEF StayingSpends
<1>11. NamesOf(StayingSpends) = NamesOf(spends) \ ReturnedNames
  BY <1>10 DEF NamesOf
<1> DEFINE more == pool \o ReturnedSpends
<1>12. /\ more \in Seq(Entries)
       /\ NamesOf(more) = NamesOf(pool) \cup ReturnedNames
       /\ Range(more) = Range(pool) \cup Range(ReturnedSpends)
       /\ NamesDiffer(more)
  <2>1. NamesOf(pool) \cap NamesOf(ReturnedSpends) = {}
    BY <1>3, <1>8, <1>9
  <2> QED BY <1>3, <1>7, <1>8, <2>1, ConcatEffect
<1> HIDE DEF more, places
<1>13. AllBalanced(StayingSpends)
  BY <1>3, <1>10, MembersBalanced
<1>14. AllBalanced(more)
  <2>1. AllBalanced(ReturnedSpends)
    BY <1>3, <1>8, MembersBalanced
  <2> QED BY <1>3, <1>12, <2>1 DEF AllBalanced, Range
<1>15. Holds(StayingSpends, more)
  BY <1>3, <1>10, <1>11, <1>12, <1>13, <1>14 DEF Holds
<1>16. PICK outcome \in {"Assets in must equal gift + fee + refund", "ok"} : Finish(outcome)
  BY DEF LowerEnd
<1>17. outcome \in Outcomes
  BY DEF Outcomes
<1>18. JobFits(job', spends', pool') /\ result' \in Outcomes
  BY <1>16, <1>17, FinishFits
<1>19. Held \subseteq Held'
  BY <1>1, <1>11, <1>12 DEF Held, more
<1> QED BY <1>1, <1>15, <1>18, <1>19 DEF IInv, more

-----------------------------------------------------------------------------
(* The theorems.                                                           *)

LEMMA InitInvariant == Init => IInv
<1> SUFFICES ASSUME Init PROVE IInv
  OBVIOUS
<1>1. << >> \in Seq(Entries) /\ DOMAIN << >> = {}
  BY EmptySeq
<1>2. Holds(<< >>, << >>)
  BY <1>1 DEF Holds, NamesDiffer, NamesOf, AllBalanced
<1>3. JobFits(Idle, << >>, << >>)
  BY IdleFits
<1>4. "none" \in Outcomes /\ 0 \in 0..MaxCalls
  BY TxBuilderAssumption DEF Outcomes
<1> QED BY <1>2, <1>3, <1>4 DEF Init, IInv

(* A step that a note may be lost in.                                      *)
DropsNote ==
  /\ job.op = "pool" /\ job' = Idle
  /\ result' \in {LockIsHash, "Fee pool entry must have refund"}

LEMMA OwnerCallKeeps ==
  ASSUME IInv, OwnerCall
  PROVE  IInv' /\ Held \subseteq Held'
<1>1. ASSUME NEW order \in SimpleSpends, SimpleSpend(order) PROVE IInv' /\ Held \subseteq Held'
  BY <1>1, SimpleSpendKeeps
<1>2. ASSUME NEW target \in FeeTargets, NEW adjust \in AdjustFees, NEW include \in Includes,
             SetFeeTo(target, adjust, include)
      PROVE  IInv' /\ Held \subseteq Held'
  <2>1. target \in Nat /\ adjust \in BOOLEAN /\ include \in BOOLEAN
    BY TxBuilderAssumption
  <2> QED BY <1>2, <2>1, SetFeeToKeeps
<1>3. ASSUME NEW include \in Includes, RecalcAndSetFee(include)
      PROVE  IInv' /\ Held \subseteq Held'
  <2>1. CalcFee(spends) \in Nat
    BY CalcFeeType DEF IInv, Holds
  <2>2. include \in BOOLEAN /\ TRUE \in BOOLEAN
    BY TxBuilderAssumption
  <2>3. SetFeeTo(CalcFee(spends), TRUE, include)
    BY <1>3 DEF RecalcAndSetFee
  <2> QED BY <2>1, <2>2, <2>3, SetFeeToKeeps
<1>4. ASSUME NEW d \in Digests, AddPreimageCall(d) PROVE IInv' /\ Held \subseteq Held'
  BY <1>4, AddPreimageCallKeeps
<1>5. ASSUME Validate PROVE IInv' /\ Held \subseteq Held'
  BY <1>5, ValidateKeeps
<1> QED BY <1>1, <1>2, <1>3, <1>4, <1>5 DEF OwnerCall

LEMMA StepKeeps ==
  ASSUME IInv, Step
  PROVE  IInv' /\ (Held \subseteq Held' \/ DropsNote)
<1>1. ASSUME NEW i \in DOMAIN pool, PoolStep(i)
      PROVE  IInv' /\ (Held \subseteq Held' \/ DropsNote)
  <2>1. job.op = "pool"
    BY <1>1 DEF PoolStep
  <2> QED BY <1>1, <2>1, PoolStepKeeps DEF DropsNote
<1> QED BY <1>1, BaseStepKeeps, BaseEndKeeps, RaiseStepKeeps, LowerStepKeeps, RaiseEndKeeps,
           PoolEndKeeps, LowerEndKeepsNotes DEF Step

LEMMA NextKeeps ==
  ASSUME IInv, [Next]_vars
  PROVE  /\ IInv'
         /\ Next => Held \subseteq Held' \/ DropsNote
<1>1. CASE UNCHANGED vars
  <2>1. IInv' = IInv /\ Held' = Held
    BY <1>1 DEF vars, IInv, Held
  <2> QED BY <2>1
<1>2. CASE OwnerCall
  BY <1>2, OwnerCallKeeps
<1>3. ASSUME NEW e \in Additions, AddSpend(e) PROVE IInv' /\ Held \subseteq Held'
  BY <1>3, AddSpendKeeps
<1>4. ASSUME NEW pkh \in Pkhs, SignAll(pkh) PROVE IInv' /\ Held \subseteq Held'
  BY <1>4, SignAllKeeps
<1>5. CASE Step
  BY <1>5, StepKeeps
<1> QED BY <1>1, <1>2, <1>3, <1>4, <1>5 DEF Next, Call

-----------------------------------------------------------------------------
(* A signature costs what was estimated for it, where the divisor of the   *)
(* witness words divides the price of a word, as in every setting the code *)
(* comes with: nothing is rounded then.                                    *)

PriceDivides == \E q \in Nat : CostPerWord = q * WitnessWordDiv

LEMMA ExactQuotient ==
  ASSUME NEW m \in Nat \ {0}, NEW q \in Nat
  PROVE  (q * m) \div m = q
<1> DEFINE x == q * m
<1>1. x \in Nat
  BY Z3
<1>2. x \div m \in Nat /\ x % m \in 0..m - 1 /\ x = (x \div m) * m + (x % m)
  BY <1>1, Z3
<1>3. CASE x \div m >= q + 1
  <2>1. (x \div m) * m >= (q + 1) * m /\ (q + 1) * m = q * m + m
    BY <1>2, <1>3, Z3
  <2> QED BY <1>2, <2>1, Z3
<1>4. CASE q >= (x \div m) + 1
  <2>1. q * m >= ((x \div m) + 1) * m /\ ((x \div m) + 1) * m = (x \div m) * m + m
    BY <1>2, <1>4, Z3
  <2> QED BY <1>2, <2>1, Z3
<1> QED BY <1>2, <1>3, <1>4, Z3

LEMMA DividedPrice ==
  ASSUME NEW q \in Nat, CostPerWord = q * WitnessWordDiv, NEW words \in Nat
  PROVE  /\ WitnessFee(words) = q * words /\ q * words \in Nat
         /\ (CostPerWord * words) \div WitnessWordDiv = q * words
<1>1. WitnessWordDiv \in Nat \ {0}
  BY SpendAssumption
<1> DEFINE p == q * words
<1>2. p \in Nat
  BY Z3
<1>3. CostPerWord * words = p * WitnessWordDiv
  BY <1>1, Z3
<1> HIDE DEF p
<1>4. (p * WitnessWordDiv) \div WitnessWordDiv = p
  BY <1>1, <1>2, ExactQuotient
<1>5. (CostPerWord * words) \div WitnessWordDiv = p
  BY <1>3, <1>4
<1> QED BY <1>2, <1>5 DEF WitnessFee, p

(* A key that still has to sign, where it is listed.                       *)
LEMMA SignatureCounts ==
  ASSUME NEW s \in Spends, NEW pkh \in Pkhs, NEW content \in Contents, StillNeeds(s, pkh)
  PROVE  LET t == PushPkhSignature(s, pkh, content)
         IN  /\ WitnessWords(t) = WitnessWords(s) + SigWords
             /\ \A i \in DOMAIN s.witness.prims :
                  MissingSigs(t, i) =
                    IF s.witness.prims[i].tag = "pkh" /\ pkh \in s.witness.prims[i].hashes
                    THEN MissingSigs(s, i) - 1 ELSE MissingSigs(s, i)
<1> DEFINE t == PushPkhSignature(s, pkh, content)
           before == SignedBy(s)
           after == SignedBy(t)
<1>1. /\ t \in Spends /\ t.witness.prims = s.witness.prims
      /\ t.witness.sigs = [s.witness.sigs EXCEPT ![pkh] = content]
      /\ t.witness.hax = s.witness.hax /\ t.witness.proofWords = s.witness.proofWords
  BY PushPkhSignatureType, PushPkhSignatureEffect DEF PushPkhSignature, Spends, Witnesses
<1>2. s.witness.sigs \in Sigs /\ s.witness.sigs[pkh] = NoSig /\ content # NoSig
  BY SpendFields, SpendAssumption DEF StillNeeds
<1> HIDE DEF t
<1>3. after = before \cup {pkh} /\ pkh \notin before
  BY <1>1, <1>2 DEF SignedBy, Sigs
<1>4. IsFiniteSet(before) /\ Cardinality(before) \in Nat
  BY SignedByFinite
<1> HIDE DEF before, after
<1>5. Cardinality(after) = Cardinality(before) + 1
  BY <1>3, <1>4, FS_AddElement
<1>6. WitnessWords(t) = WitnessWords(s) + SigWords
  <2> DEFINE f == [d \in s.witness.hax |-> HaxEntryWords + PreimageWords[d]]
             a == s.witness.proofWords
             b == SumFunction(f)
  <2>1. a \in Nat /\ b \in Nat
    <3>1. s.witness.hax \in SUBSET Digests /\ s.witness.proofWords \in Nat
      BY DEF Spends, Witnesses
    <3>2. f \in [s.witness.hax -> Nat]
      BY <3>1, SpendAssumption DEF HaxEntryWords
    <3>3. IsFiniteSet(s.witness.hax)
      BY <3>1, SpendAssumption, FS_Subset
    <3> HIDE DEF f
    <3> QED BY <3>1, <3>2, <3>3, SumFunctionType
  <2>2. /\ WitnessWords(s) = a + SigWords * Cardinality(before) + b
        /\ WitnessWords(t) = a + SigWords * Cardinality(after) + b
    BY <1>1 DEF WitnessWords, before, after
  <2> HIDE DEF a, b
  <2> QED BY <1>4, <1>5, <2>1, <2>2 DEF SigWords
<1>7. ASSUME NEW i \in DOMAIN s.witness.prims
      PROVE  MissingSigs(t, i) =
               IF s.witness.prims[i].tag = "pkh" /\ pkh \in s.witness.prims[i].hashes
               THEN MissingSigs(s, i) - 1 ELSE MissingSigs(s, i)
  <2> DEFINE p == s.witness.prims[i]
             here == p.hashes \cap before
             there == p.hashes \cap after
  <2>1. /\ MissingSigs(s, i) =
             IF p.tag = "pkh" THEN LargerOf(0, p.m - Cardinality(here)) ELSE 0
        /\ MissingSigs(t, i) =
             IF p.tag = "pkh" THEN LargerOf(0, p.m - Cardinality(there)) ELSE 0
    BY <1>1 DEF MissingSigs, before, after
  <2>2. p.tag = "pkh" => p.m \in Nat
    <3>1. p \in Prims
      BY SpendFields, ElementOfSeq, LenProperties
    <3> QED BY <3>1 DEF Prims, PkhPrims, HaxPrims, BrnPrims
  <2>3. IsFiniteSet(here) /\ Cardinality(here) \in Nat
    <3>1. here \in SUBSET before
      OBVIOUS
    <3> HIDE DEF here
    <3>2. IsFiniteSet(here)
      BY <1>4, <3>1, FS_Subset
    <3> QED BY <3>2, FS_CardinalityType
  <2>4. CASE p.tag = "pkh" /\ pkh \in p.hashes
    <3>1. there = here \cup {pkh} /\ pkh \notin here
      BY <1>3, <2>4
    <3>2. MissingSigs(s, i) > 0
      BY <2>4 DEF StillNeeds, PrimsOf
    <3> HIDE DEF here, there, p
    <3>3. Cardinality(there) = Cardinality(here) + 1
      BY <2>3, <3>1, FS_AddElement
    <3>4. MissingSigs(t, i) = MissingSigs(s, i) - 1
      BY <2>1, <2>2, <2>3, <2>4, <3>2, <3>3 DEF LargerOf
    <3> QED BY <2>4, <3>4 DEF p
  <2>5. CASE p.tag = "pkh" /\ pkh \notin p.hashes
    <3>1. there = here
      BY <1>3, <2>5
    <3> QED BY <2>1, <2>5, <3>1
  <2>6. CASE p.tag # "pkh"
    BY <2>1, <2>6
  <2> QED BY <2>4, <2>5, <2>6
<1> QED BY <1>6, <1>7 DEF t

(* What calcFee puts aside for a spend goes down by the price of the       *)
(* signature's words or more: each primitive that lists the key lacks one  *)
(* signature less, and there is one.                                       *)
LEMMA MissingFeeDrops ==
  ASSUME NEW q \in Nat, CostPerWord = q * WitnessWordDiv,
         NEW s \in Spends, NEW pkh \in Pkhs, NEW content \in Contents,
         StillNeeds(s, pkh), ListedIn(s.witness.prims, pkh)
  PROVE  LET t == PushPkhSignature(s, pkh, content)
         IN  MissingUnlocksFee(t) + q * SigWords <= MissingUnlocksFee(s)
<1> DEFINE t == PushPkhSignature(s, pkh, content)
           prims == s.witness.prims
           N == Len(prims)
           c == q * SigWords
           listed(i) == prims[i].tag = "pkh" /\ pkh \in prims[i].hashes
           xs == [i \in 1..N |-> (CostPerWord * SigWords * MissingSigs(s, i)) \div WitnessWordDiv]
           us == [i \in 1..N |-> (CostPerWord * SigWords * MissingSigs(t, i)) \div WitnessWordDiv]
<1>1. N \in Nat /\ DOMAIN prims = 1..N
  BY SpendFields, LenProperties
<1>2. t \in Spends /\ t.witness.prims = prims
  BY PushPkhSignatureType, SpendFields DEF PushPkhSignature, Spends, Witnesses
<1>3. \A i \in 1..N : MissingSigs(t, i) = IF listed(i) THEN MissingSigs(s, i) - 1 ELSE MissingSigs(s, i)
  BY <1>1, SignatureCounts
<1>4. \A i \in 1..N : MissingSigs(s, i) \in Nat /\ MissingSigs(t, i) \in Nat
  BY <1>1, <1>2, MissingSigsType
<1>5. MissingUnlocksFee(s) = Total(xs) /\ MissingUnlocksFee(t) = Total(us)
  BY <1>1, <1>2, Zenon DEF MissingUnlocksFee
<1>6. c \in Nat
  BY Z3 DEF SigWords
<1>7. PICK j \in 1..N : listed(j)
  BY <1>1 DEF ListedIn
<1>8. MissingSigs(s, j) > 0
  BY <1>1, <1>7 DEF StillNeeds, PrimsOf
<1> HIDE DEF t, listed
<1>9. ASSUME NEW i \in 1..N
      PROVE  /\ us[i] \in Nat /\ xs[i] \in Nat /\ us[i] <= xs[i]
             /\ listed(i) => us[i] + c <= xs[i]
  <2> DEFINE m == MissingSigs(s, i)
             k == MissingSigs(t, i)
             a == SigWords * m
             b == SigWords * k
             pa == q * a
             pb == q * b
  <2>1. m \in Nat /\ k \in Nat /\ (k = IF listed(i) THEN m - 1 ELSE m)
    BY <1>3, <1>4
  <2>2. a \in Nat /\ b \in Nat /\ (a = IF listed(i) THEN b + SigWords ELSE b)
    <3> HIDE DEF m, k
    <3>1. CASE listed(i)
      <4>1. m = k + 1
        BY <2>1, <3>1
      <4> QED BY <2>1, <3>1, <4>1 DEF SigWords
    <3>2. CASE ~ listed(i)
      BY <2>1, <3>2 DEF SigWords
    <3> QED BY <3>1, <3>2
  <2>3. /\ xs[i] = (CostPerWord * SigWords * m) \div WitnessWordDiv
        /\ us[i] = (CostPerWord * SigWords * k) \div WitnessWordDiv
    OBVIOUS
  <2>4. /\ CostPerWord * SigWords * m = CostPerWord * a
        /\ CostPerWord * SigWords * k = CostPerWord * b
    <3> HIDE DEF m, k
    <3>1. CostPerWord \in Nat
      BY SpendAssumption
    <3> QED BY <2>1, <3>1, Z3 DEF SigWords
  <2> HIDE DEF m, k, a, b
  <2> HIDE DEF xs, us
  <2>5. xs[i] = pa /\ pa \in Nat
    <3>1. (CostPerWord * a) \div WitnessWordDiv = pa /\ pa \in Nat
      BY <2>2, DividedPrice, Zenon
    <3> QED BY <2>3, <2>4, <3>1, Zenon
  <2>6. us[i] = pb /\ pb \in Nat
    <3>1. (CostPerWord * b) \div WitnessWordDiv = pb /\ pb \in Nat
      BY <2>2, DividedPrice, Zenon
    <3> QED BY <2>3, <2>4, <3>1, Zenon
  <2>7. CASE listed(i)
    <3>1. a = b + SigWords
      BY <2>2, <2>7
    <3>2. pa = pb + c
      BY <2>2, <3>1, Z3 DEF SigWords
    <3> HIDE DEF pa, pb, c
    <3> QED BY <1>6, <2>5, <2>6, <3>2
  <2>8. CASE ~ listed(i)
    <3>1. pa = pb
      BY <2>2, <2>8
    <3> HIDE DEF pa, pb, c
    <3> QED BY <2>5, <2>6, <2>8, <3>1
  <2> QED BY <2>7, <2>8
<1>10. us \in Seq(Nat) /\ xs \in Seq(Nat) /\ Len(us) = N /\ Len(xs) = N
  <2>1. us \in [1..N -> Nat] /\ xs \in [1..N -> Nat]
    BY <1>9
  <2> HIDE DEF us, xs
  <2> QED BY <1>1, <2>1, ListTotalType
<1> HIDE DEF us, xs, c, N
<1>11. us[j] + c <= xs[j] /\ \A i \in 1..N : us[i] <= xs[i]
  BY <1>7, <1>9
<1>12. Total(us) + c <= Total(xs)
  BY <1>1, <1>6, <1>7, <1>10, <1>11, TotalLess
<1> QED BY <1>5, <1>12 DEF c, t

(* The seeds of two lists of spends that have the same seeds cost the same.*)
LEMMA SameSeedsSameWords ==
  ASSUME NEW N \in Nat, NEW xs, NEW ys,
         Len(xs) = N, Len(ys) = N, \A i \in 1..N : xs[i].seeds = ys[i].seeds
  PROVE  OrderedSeedWords(xs) = OrderedSeedWords(ys)
<1> DEFINE parts(zs) == [i \in 1..Len(zs) |-> zs[i].seeds]
           words(zs) == [i \in 1..Len(zs) |-> SeedWords(zs[i])]
           cost(p, w) ==
             LET all == FlattenSeq(p)
             IN  IF EnginePatch = 0 THEN Total(w)
                 ELSE SumFunction([l \in {all[i].lock : i \in DOMAIN all} |->
                                     NoteDataWords(MergedData(all, l))])
<1>1. parts(xs) = parts(ys)
  OBVIOUS
<1>2. words(xs) = words(ys)
  BY DEF SeedWords
<1>3. \A zs : OrderedSeedWords(zs) = cost(parts(zs), words(zs))
  BY Zenon DEF OrderedSeedWords
<1> HIDE DEF parts, words, cost
<1> QED BY <1>1, <1>2, <1>3

(* All that the fee of a transaction is computed from.                     *)
LEMMA CalcFeeParts ==
  ASSUME NEW q \in Nat, CostPerWord = q * WitnessWordDiv, NEW xs \in Seq(Entries)
  PROVE  LET words == Total([i \in 1..Len(xs) |-> WitnessWords(xs[i].sb)])
             missing == Total([i \in 1..Len(xs) |-> MissingUnlocksFee(xs[i].sb)])
             seeds == SeedFee(OrderedSeedWords(SpendsOf(xs)))
         IN  /\ words \in Nat /\ missing \in Nat /\ seeds \in Nat /\ q * words \in Nat
             /\ CalcFee(xs) =
                  LargerOf(LargerOf(seeds + q * words, MinFee) + missing, MinFee)
<1> DEFINE N == Len(xs)
           list == SpendsOf(xs)
           W == [i \in 1..N |-> WitnessWords(xs[i].sb)]
           M == [i \in 1..N |-> MissingUnlocksFee(xs[i].sb)]
<1>1. N \in Nat /\ \A i \in 1..N : xs[i].sb \in Spends
  BY EntryFields
<1>2. list \in Seq(Spends) /\ Len(list) = N /\ \A i \in 1..N : list[i] = xs[i].sb
  BY <1>1, IsASeq DEF SpendsOf
<1>3. W \in [1..N -> Nat] /\ M \in [1..N -> Nat]
  BY <1>1, WitnessWordsType, MissingUnlocksFeeType
<1>4. W = [i \in 1..Len(list) |-> WitnessWords(list[i])]
  BY <1>2
<1> HIDE DEF list
<1>5. CalcFee(xs) = LargerOf(LargerOf(SeedFee(OrderedSeedWords(list)) + WitnessFee(Total(W)),
                                      MinFee) + Total(M), MinFee)
  BY <1>4, Zenon DEF CalcFee, CalcFeeFromSpends, list
<1> HIDE DEF W, M, N
<1>6. Total(W) \in Nat /\ Total(M) \in Nat
  BY <1>1, <1>3, ListTotalType
<1>7. WitnessFee(Total(W)) = q * Total(W) /\ q * Total(W) \in Nat
  BY <1>6, DividedPrice, Zenon
<1>8. SeedFee(OrderedSeedWords(list)) \in Nat
  BY <1>2, OrderedSeedWordsType, SpendAssumption DEF SeedFee
<1> QED BY <1>5, <1>6, <1>7, <1>8, Zenon DEF W, M, N, list

LEMMA LargerSums ==
  ASSUME NEW a \in Nat, NEW p \in Nat, NEW r \in Nat, NEW m \in Nat, NEW l \in Nat,
         NEW z \in Nat, l <= m, r + l <= p + m
  PROVE  LargerOf(LargerOf(a + r, z) + l, z) <= LargerOf(LargerOf(a + p, z) + m, z)
BY DEF LargerOf

(* Signatures that were missing leave the fee that is paid as it is, and   *)
(* the fee that is computed does not become larger.                        *)
LEMMA SignaturesFit ==
  ASSUME PriceDivides, NEW sp \in Seq(Entries), NEW pkh \in Pkhs, NEW new,
         new = [i \in DOMAIN sp |->
                  IF ListedIn(sp[i].sb.witness.prims, pkh)
                  THEN [sp[i] EXCEPT !.sb = PushPkhSignature(@, pkh, SigHash(@))]
                  ELSE sp[i]],
         new \in Seq(Entries),
         \A i \in DOMAIN sp : ListedIn(sp[i].sb.witness.prims, pkh) => StillNeeds(sp[i].sb, pkh)
  PROVE  CurFee(new) = CurFee(sp) /\ CalcFee(new) <= CalcFee(sp)
<1>1. PICK q \in Nat : CostPerWord = q * WitnessWordDiv
  BY DEF PriceDivides
<1> DEFINE N == Len(sp)
           words(zs) == [i \in 1..Len(zs) |-> WitnessWords(zs[i].sb)]
           missing(zs) == [i \in 1..Len(zs) |-> MissingUnlocksFee(zs[i].sb)]
<1>2. /\ N \in Nat /\ DOMAIN sp = 1..N /\ Len(new) = N
      /\ \A i \in 1..N : sp[i] \in Entries /\ sp[i].sb \in Spends /\ new[i].sb \in Spends
  <2>1. DOMAIN sp = 1..N /\ N \in Nat /\ \A i \in 1..N : sp[i] \in Entries /\ sp[i].sb \in Spends
    BY EntryFields
  <2>2. DOMAIN new = 1..Len(new) /\ Len(new) \in Nat
        /\ \A i \in DOMAIN new : new[i].sb \in Spends
    BY EntryFields
  <2>3. DOMAIN new = DOMAIN sp
    OBVIOUS
  <2> DEFINE K == Len(new)
  <2> HIDE DEF K, N
  <2>4. K = N
    BY <2>1, <2>2, <2>3 DEF K
  <2> QED BY <2>1, <2>2, <2>3, <2>4 DEF K
<1>3. ASSUME NEW i \in 1..N
      PROVE  /\ new[i].sb.seeds = sp[i].sb.seeds /\ new[i].sb.fee = sp[i].sb.fee
             /\ words(new)[i] \in Nat /\ missing(new)[i] \in Nat
             /\ words(sp)[i] \in Nat /\ missing(sp)[i] \in Nat
             /\ missing(new)[i] <= missing(sp)[i]
             /\ Weighed(q, words(new)[i], missing(new)[i])
                  <= Weighed(q, words(sp)[i], missing(sp)[i])
  <2> DEFINE s == sp[i].sb
             u == new[i].sb
             t == PushPkhSignature(s, pkh, SigHash(s))
             c == q * SigWords
             w == WitnessWords(s)
             m == MissingUnlocksFee(s)
             k == MissingUnlocksFee(u)
  <2>1. /\ words(new)[i] = WitnessWords(u) /\ words(sp)[i] = w
        /\ missing(new)[i] = k /\ missing(sp)[i] = m
    BY <1>2
  <2>2. /\ WitnessWords(u) \in Nat /\ w \in Nat /\ k \in Nat /\ m \in Nat
    BY <1>2, WitnessWordsType, MissingUnlocksFeeType
  <2>3. c \in Nat /\ q * w \in Nat
    BY <2>2, Z3 DEF SigWords
  <2>4. CASE ListedIn(s.witness.prims, pkh)
    <3>1. new[i] = [sp[i] EXCEPT !.sb = t]
      BY <1>2, <2>4
    <3>2. u = t
      <4> HIDE DEF t, s
      <4>1. sp[i] \in Entries
        BY <1>2
      <4> QED BY <3>1, <4>1 DEF Entries
    <3>3. u.seeds = s.seeds /\ u.fee = s.fee
      BY <1>2, <3>2, PushPkhSignatureFields
    <3>4. StillNeeds(s, pkh) /\ SigHash(s) \in Contents
      BY <1>2, <2>4, SigHashType
    <3>5. WitnessWords(t) = w + SigWords
      BY <1>2, <3>4, SignatureCounts
    <3>6. MissingUnlocksFee(t) + c <= m
      BY <1>1, <1>2, <2>4, <3>4, MissingFeeDrops
    <3>7. q * (w + SigWords) = q * w + c
      BY <2>2, Z3 DEF SigWords
    <3>8. WitnessWords(u) = w + SigWords /\ k + c <= m
      BY <3>2, <3>5, <3>6
    <3> DEFINE p == q * w
    <3> HIDE DEF c, p, k, m, w
    <3>9. Weighed(q, WitnessWords(u), k) = p + c + k /\ Weighed(q, w, m) = p + m
      BY <3>7, <3>8 DEF Weighed, p
    <3>10. k <= m /\ p + c + k <= p + m
      BY <2>2, <2>3, <3>8 DEF p
    <3> HIDE DEF words, missing, s, u, t
    <3>11. u.seeds = s.seeds /\ u.fee = s.fee /\ k <= m
           /\ Weighed(q, WitnessWords(u), k) <= Weighed(q, w, m)
      BY <3>3, <3>9, <3>10
    <3> QED BY <2>1, <2>2, <3>11, Zenon DEF s, u
  <2>5. CASE ~ ListedIn(s.witness.prims, pkh)
    <3>1. new[i] = sp[i]
      BY <1>2, <2>5
    <3> DEFINE p == q * w
    <3>2. Weighed(q, WitnessWords(u), k) = p + m /\ Weighed(q, w, m) = p + m /\ k = m
      BY <3>1 DEF Weighed
    <3>3. u.seeds = s.seeds /\ u.fee = s.fee
      BY <3>1
    <3> HIDE DEF words, missing, s, u, t, p, k, m, w
    <3>4. p \in Nat
      BY <2>3 DEF p
    <3>5. k <= m /\ Weighed(q, WitnessWords(u), k) <= Weighed(q, w, m)
      BY <2>2, <3>2, <3>4
    <3> QED BY <2>1, <2>2, <3>3, <3>5, Zenon DEF s, u
  <2> QED BY <2>4, <2>5
<1>4. CurFee(new) = CurFee(sp)
  <2>1. [i \in 1..Len(new) |-> new[i].sb.fee] = [i \in 1..Len(sp) |-> sp[i].sb.fee]
    BY <1>2, <1>3
  <2> QED BY <2>1, Zenon DEF CurFee
<1>5. OrderedSeedWords(SpendsOf(new)) = OrderedSeedWords(SpendsOf(sp))
  <2> DEFINE a == SpendsOf(new)
             b == SpendsOf(sp)
  <2>1. /\ a = [i \in 1..N |-> new[i].sb] /\ b = [i \in 1..N |-> sp[i].sb]
    BY <1>2 DEF SpendsOf
  <2> HIDE DEF a, b
  <2>2. /\ Len(a) = N /\ Len(b) = N
        /\ \A i \in 1..N : a[i].seeds = b[i].seeds
    BY <1>2, <1>3, <2>1, IsASeq
  <2> HIDE DEF N
  <2>3. OrderedSeedWords(a) = OrderedSeedWords(b)
    <3>1. N \in Nat
      BY <1>2
    <3> QED BY <2>2, <3>1, SameSeedsSameWords
  <2> QED BY <2>3 DEF a, b
<1>6. /\ words(new) \in Seq(Nat) /\ Len(words(new)) = N
      /\ words(sp) \in Seq(Nat) /\ Len(words(sp)) = N
      /\ missing(new) \in Seq(Nat) /\ Len(missing(new)) = N
      /\ missing(sp) \in Seq(Nat) /\ Len(missing(sp)) = N
  <2>1. /\ words(new) \in [1..N -> Nat] /\ words(sp) \in [1..N -> Nat]
        /\ missing(new) \in [1..N -> Nat] /\ missing(sp) \in [1..N -> Nat]
    BY <1>2, <1>3
  <2> HIDE DEF words, missing
  <2> QED BY <1>2, <2>1, ListTotalType
<1> DEFINE W == Total(words(sp))
           M == Total(missing(sp))
           V == Total(words(new))
           L == Total(missing(new))
           A == SeedFee(OrderedSeedWords(SpendsOf(sp)))
           p == q * W
           r == q * V
<1>7. /\ M \in Nat /\ A \in Nat /\ p \in Nat
      /\ CalcFee(sp) = LargerOf(LargerOf(A + p, MinFee) + M, MinFee)
  BY <1>1, CalcFeeParts, Zenon
<1>8. /\ L \in Nat /\ r \in Nat
      /\ CalcFee(new) = LargerOf(LargerOf(A + r, MinFee) + L, MinFee)
  BY <1>1, <1>5, CalcFeeParts, Zenon
<1> HIDE DEF words, missing
<1>9. Weighed(q, V, L) <= Weighed(q, W, M)
  BY <1>2, <1>3, <1>6, TotalsWeighed
<1>10. L <= M
  <2>1. \A i \in 1..N : Weighed(0, words(new)[i], missing(new)[i])
                          <= Weighed(0, words(sp)[i], missing(sp)[i])
    BY <1>3 DEF Weighed
  <2>2. Weighed(0, V, L) <= Weighed(0, W, M)
    BY <1>2, <1>6, <2>1, TotalsWeighed
  <2>3. V \in Nat /\ W \in Nat
    BY <1>6, TotalType
  <2> HIDE DEF V, W, L, M
  <2> QED BY <1>7, <1>8, <2>2, <2>3 DEF Weighed
<1>11. r + L <= p + M
  BY <1>9 DEF Weighed
<1> HIDE DEF L, M, A, p, r
<1>12. CalcFee(new) <= CalcFee(sp)
  <2>1. MinFee \in Nat
    BY SpendAssumption
  <2>2. LargerOf(LargerOf(A + r, MinFee) + L, MinFee)
          <= LargerOf(LargerOf(A + p, MinFee) + M, MinFee)
    BY <1>7, <1>8, <1>10, <1>11, <2>1, LargerSums
  <2> QED BY <1>7, <1>8, <2>2, Zenon
<1> QED BY <1>4, <1>12

(* The invariant that carries the others: names apart, spends and pool     *)
(* balanced, and a job that fits them.                                     *)
THEOREM Invariance == Spec => []IInv
<1>1. IInv /\ [Next]_vars => IInv'
  BY NextKeeps
<1> QED BY <1>1, InitInvariant, PTL DEF Spec

(* Whatever is called, spends, pool, and the local variables of the        *)
(* running call keep their types: fees and gifts never become negative.    *)
THEOREM TypesHold == Spec => []TypeInvariant
<1>1. IInv => TypeInvariant
  BY DEF IInv, Holds, JobFits, TypeInvariant
<1> QED BY <1>1, Invariance, PTL

(* A note is in the transaction or in the pool, and once, however many     *)
(* notes, payments, fee changes and additions there are.                   *)
THEOREM NotesHeldOnce == Spec => []NoteHeldOnce
<1>1. IInv => NoteHeldOnce
  BY NamesCount DEF IInv, Holds, NoteHeldOnce
<1> QED BY <1>1, Invariance, PTL

(* Every spend whose refund lock is known is balanced at every iteration   *)
(* of every call, under every fee rule.                                    *)
THEOREM BalanceHolds == Spec => []SpendsBalanced
<1>1. IInv => SpendsBalanced
  BY DEF IInv, Holds, AllBalanced, SpendsBalanced
<1> QED BY <1>1, Invariance, PTL

(* No call loses a note, but the one that throws on a note just taken from *)
(* the pool.                                                               *)
THEOREM NoteLossIsThrown == Spec => NotesKept
<1> DEFINE Kept1 == LET held == NamesOf(spends) \cup NamesOf(pool)
                    IN  \/ held \subseteq NamesOf(spends') \cup NamesOf(pool')
                        \/ /\ job.op = "pool" /\ job' = Idle
                           /\ result' \in {LockIsHash, "Fee pool entry must have refund"}
<1>1. IInv /\ [Next]_vars => [Kept1]_vars
  <2> SUFFICES ASSUME IInv, Next PROVE Kept1
    OBVIOUS
  <2> QED BY NextKeeps DEF Held, DropsNote
<1> QED BY <1>1, Invariance, PTL DEF Spec, NotesKept

(* Where the price of a word divides without a remainder, signing never    *)
(* makes the fee of a transaction insufficient, however many spends,       *)
(* primitives and signers there are.                                       *)
THEOREM SigningFitsTheFee ==
  ASSUME PriceDivides
  PROVE  Spec => SigningKeepsFee
<1> DEFINE Kept1 ==
      \A pkh \in Pkhs :
        (/\ SignAll(pkh)
         /\ \A i \in DOMAIN spends :
              ListedIn(spends[i].sb.witness.prims, pkh) => StillNeeds(spends[i].sb, pkh)
         /\ CurFee(spends) >= CalcFee(spends))
        => CurFee(spends') >= CalcFee(spends')
<1>1. IInv /\ [Next]_vars => [Kept1]_vars
  <2> SUFFICES ASSUME IInv, NEW pkh \in Pkhs, SignAll(pkh),
                      \A i \in DOMAIN spends :
                        ListedIn(spends[i].sb.witness.prims, pkh) => StillNeeds(spends[i].sb, pkh),
                      CurFee(spends) >= CalcFee(spends)
               PROVE  CurFee(spends') >= CalcFee(spends')
    BY Zenon
  <2>1. IInv'
    BY SignAllKeeps
  <2>2. spends \in Seq(Entries) /\ spends' \in Seq(Entries)
    BY <2>1 DEF IInv, Holds
  <2>3. spends' = [i \in DOMAIN spends |->
                     IF ListedIn(spends[i].sb.witness.prims, pkh)
                     THEN [spends[i] EXCEPT !.sb = PushPkhSignature(@, pkh, SigHash(@))]
                     ELSE spends[i]]
    BY Zenon DEF SignAll
  <2> DEFINE new == spends'
  <2>4. CurFee(new) = CurFee(spends) /\ CalcFee(new) <= CalcFee(spends)
    <3> HIDE DEF new
    <3> QED BY <2>2, <2>3, SignaturesFit DEF new
  <2>5. CurFee(spends) \in Nat /\ CalcFee(spends) \in Nat /\ CalcFee(new) \in Nat
    BY <2>2, CurFeeType, CalcFeeType
  <2> QED BY <2>4, <2>5
<1> QED BY <1>1, Invariance, PTL DEF Spec, SigningKeepsFee

-----------------------------------------------------------------------------
(* That a fee that was computed pays for the transaction.  What a spend    *)
(* costs is the price of its seeds and that of unlocking it: its witness,  *)
(* and what it still misses.  The fee changes the seeds only by its        *)
(* refund, whose words are never more than those of the refund it          *)
(* replaces; so the fee at the end is for no less than is built.           *)

(* Note data of more words, key by key, is more words.                     *)
LEMMA DataWordsGrow ==
  ASSUME NEW c \in NoteDatas, NEW d \in NoteDatas, \A k \in DataKeys : c[k] <= d[k]
  PROVE  NoteDataWords(c) <= NoteDataWords(d)
<1> DEFINE f == [k \in DataKeys |-> IF c[k] = 0 THEN 0 ELSE 1 + c[k]]
           e == [k \in DataKeys |-> IF d[k] = 0 THEN 0 ELSE 1 + d[k]]
<1>1. \A k \in DataKeys : c[k] \in Nat /\ d[k] \in Nat
  BY DEF NoteDatas
<1>2. f \in [DataKeys -> Nat] /\ e \in [DataKeys -> Nat] /\ \A k \in DataKeys : f[k] <= e[k]
  BY <1>1
<1>3. NoteDataWords(c) = 1 + SumFunction(f) /\ NoteDataWords(d) = 1 + SumFunction(e)
  BY DEF NoteDataWords
<1> HIDE DEF f, e
<1>4. SumFunction(f) <= SumFunction(e) /\ SumFunction(f) \in Nat /\ SumFunction(e) \in Nat
  BY <1>2, DataKeysFinite, SumGrows, SumFunctionType
<1> QED BY <1>3, <1>4

(* The refund that computeRefund makes has no memo and no blob: no seed to *)
(* the same lock, with the lock included or not as there, has fewer words. *)
LeastWords(lock, include) == NoteDataWords(SeedData(lock, include, NoData))

LEMMA LeastWordsType ==
  ASSUME NEW lock \in Locks, NEW include \in BOOLEAN, NEW extras \in NoteDatas
  PROVE  /\ LeastWords(lock, include) \in Nat
         /\ NoteDataWords(SeedData(lock, include, extras)) \in Nat
         /\ LeastWords(lock, include) <= NoteDataWords(SeedData(lock, include, extras))
<1> DEFINE c == SeedData(lock, include, NoData)
           d == SeedData(lock, include, extras)
<1>1. c \in NoteDatas /\ d \in NoteDatas
  BY SpendAssumption DEF SeedData, NoteDatas, NoData, DataKeys
<1>2. \A k \in DataKeys : c[k] <= d[k]
  BY SpendAssumption DEF SeedData, NoteDatas, NoData, DataKeys
<1> HIDE DEF c, d
<1>3. NoteDataWords(c) \in Nat /\ NoteDataWords(d) \in Nat /\ NoteDataWords(c) <= NoteDataWords(d)
  BY <1>1, <1>2, NoteDataWordsType, DataWordsGrow
<1> QED BY <1>3 DEF LeastWords, c, d

DataWords(seeds) == [i \in 1..Len(seeds) |-> NoteDataWords(seeds[i].data)]

LEMMA DataWordsType ==
  ASSUME NEW seeds \in Seq(Seeds)
  PROVE  /\ DataWords(seeds) \in Seq(Nat) /\ Len(DataWords(seeds)) = Len(seeds)
         /\ Len(seeds) \in Nat
         /\ \A i \in 1..Len(seeds) : DataWords(seeds)[i] = NoteDataWords(seeds[i].data)
<1> DEFINE N == Len(seeds)
           f == DataWords(seeds)
<1>1. N \in Nat /\ \A i \in 1..N : seeds[i].data \in NoteDatas
  <2>1. N \in Nat /\ \A i \in 1..N : seeds[i] \in Seeds
    BY LenProperties, ElementOfSeq
  <2> QED BY <2>1 DEF Seeds
<1>2. \A i \in 1..N : NoteDataWords(seeds[i].data) \in Nat
  BY <1>1, NoteDataWordsType
<1>3. f \in [1..N -> Nat] /\ \A i \in 1..N : f[i] = NoteDataWords(seeds[i].data)
  BY <1>2 DEF DataWords
<1> HIDE DEF f, N
<1>4. f \in Seq(Nat) /\ Len(f) = N
  BY <1>1, <1>3, ListTotalType
<1> QED BY <1>1, <1>3, <1>4 DEF f, N

(* Without the seeds to a lock a list has fewer words, by those of any one *)
(* of them or more.                                                        *)
LEMMA WordsOfOthers ==
  ASSUME NEW seeds \in Seq(Seeds), NEW lock
  PROVE  /\ Total(DataWords(Others(seeds, lock))) \in Nat /\ Total(DataWords(seeds)) \in Nat
         /\ Total(DataWords(Others(seeds, lock))) <= Total(DataWords(seeds))
         /\ \A k \in 1..Len(seeds) : seeds[k].lock = lock =>
              Total(DataWords(Others(seeds, lock))) + NoteDataWords(seeds[k].data)
                <= Total(DataWords(seeds))
<1> DEFINE P == {i \in DOMAIN seeds : seeds[i].lock # lock}
           ys == Kept(seeds, P)
           us == DataWords(ys)
           ws == DataWords(seeds)
<1>1. Others(seeds, lock) = ys
  BY DEF Others
<1>2. ys \in Seq(Seeds)
  BY KeptType, Zenon
<1>6. \A k \in 1..Len(seeds) : seeds[k].lock = lock => k \notin P
  OBVIOUS
<1> HIDE DEF ys, P
<1>3. /\ us \in Seq(Nat) /\ Len(us) = Len(ys)
      /\ \A k \in 1..Len(ys) : us[k] = NoteDataWords(ys[k].data)
      /\ ws \in Seq(Nat) /\ Len(ws) = Len(seeds)
      /\ \A k \in 1..Len(seeds) : ws[k] = NoteDataWords(seeds[k].data)
  BY <1>2, DataWordsType
<1> HIDE DEF us, ws
<1>4. Total(us) = Total(Masked(ws, P))
  <2>1. Len(us) = Len(Kept(seeds, P))
    BY <1>3 DEF ys
  <2>2. \A k \in 1..Len(us), i \in 1..Len(seeds) : Kept(seeds, P)[k] = seeds[i] => us[k] = ws[i]
    BY <1>3, Zenon DEF ys
  <2> QED BY <1>3, <2>1, <2>2, KeptTotal
<1>5. /\ Total(Masked(ws, P)) \in Nat /\ Total(ws) \in Nat
      /\ Total(Masked(ws, P)) <= Total(ws)
      /\ \A k \in 1..Len(ws) : k \notin P => Total(Masked(ws, P)) + ws[k] <= Total(ws)
  BY <1>3, MaskedAtMost
<1>7. ASSUME NEW k \in 1..Len(seeds), seeds[k].lock = lock
      PROVE  Total(us) + NoteDataWords(seeds[k].data) <= Total(ws)
  <2>1. k \in 1..Len(ws) /\ k \notin P /\ ws[k] = NoteDataWords(seeds[k].data)
    BY <1>3, <1>6, <1>7
  <2> QED BY <1>4, <1>5, <2>1
<1> QED BY <1>1, <1>4, <1>5, <1>7 DEF us, ws

(* A key is listed in one primitive, at most: its signature is missing     *)
(* once.                                                                   *)
KeysApart(prims) ==
  \A i, j \in DOMAIN prims :
    prims[i].tag = "pkh" /\ prims[j].tag = "pkh" /\ prims[i].hashes \cap prims[j].hashes # {}
    => i = j

(* The keys of the first n primitives that have signed.                    *)
SignedUpTo(s, n) ==
  {k \in SignedBy(s) : \E i \in 1..n : s.witness.prims[i].tag = "pkh"
                                      /\ k \in s.witness.prims[i].hashes}

(* One primitive more.                                                     *)
LEMMA SignedUpToNext ==
  ASSUME NEW s \in Spends, KeysApart(s.witness.prims), NEW n \in Nat,
         n + 1 \in DOMAIN s.witness.prims
  PROVE  LET p == s.witness.prims[n + 1]
         IN  /\ Cardinality(SignedUpTo(s, n)) \in Nat
             /\ Cardinality(SignedUpTo(s, n + 1)) =
                  IF p.tag = "pkh"
                  THEN Cardinality(SignedUpTo(s, n)) + Cardinality(p.hashes \cap SignedBy(s))
                  ELSE Cardinality(SignedUpTo(s, n))
             /\ Cardinality(p.hashes \cap SignedBy(s)) \in Nat
<1> DEFINE p == s.witness.prims[n + 1]
           A == SignedUpTo(s, n)
           B == p.hashes \cap SignedBy(s)
           C == SignedUpTo(s, n + 1)
<1>1. IsFiniteSet(A) /\ IsFiniteSet(B) /\ Cardinality(A) \in Nat /\ Cardinality(B) \in Nat
  <2>1. A \in SUBSET SignedBy(s) /\ B \in SUBSET SignedBy(s)
    BY DEF SignedUpTo
  <2> HIDE DEF A, B
  <2> QED BY <2>1, SignedByFinite, FS_Subset, FS_CardinalityType
<1>2. 1..(n + 1) = 1..n \cup {n + 1} /\ n + 1 \notin 1..n
  OBVIOUS
<1>3. CASE p.tag = "pkh"
  <2>1. C = A \cup B
    BY <1>2, <1>3 DEF SignedUpTo
  <2>2. A \cap B = {}
    <3> SUFFICES ASSUME NEW k \in A, k \in B PROVE FALSE
      OBVIOUS
    <3>1. PICK i \in 1..n : s.witness.prims[i].tag = "pkh" /\ k \in s.witness.prims[i].hashes
      BY DEF SignedUpTo
    <3>2. i \in DOMAIN s.witness.prims
      BY SpendFields, LenProperties
    <3>3. i = n + 1
      BY <1>3, <3>1, <3>2 DEF KeysApart
    <3> QED BY <1>2, <3>3
  <2> HIDE DEF A, B, C, p
  <2>3. Cardinality(A \cup B) = Cardinality(A) + Cardinality(B) - Cardinality(A \cap B)
    BY <1>1, FS_Union
  <2>4. Cardinality(A \cap B) = 0
    BY <2>2, FS_EmptySet
  <2>5. Cardinality(C) = Cardinality(A) + Cardinality(B)
    BY <1>1, <2>1, <2>3, <2>4
  <2> QED BY <1>1, <1>3, <2>5 DEF A, B, C, p
<1>4. CASE p.tag # "pkh"
  <2>1. C = A
    BY <1>2, <1>4 DEF SignedUpTo
  <2> QED BY <1>1, <1>4, <2>1
<1> QED BY <1>3, <1>4

(* The signatures that a spend loses are put aside for again, at the same  *)
(* price or less: some of them may not have been needed.                   *)
LEMMA UnsignedCheaper ==
  ASSUME NEW q \in Nat, CostPerWord = q * WitnessWordDiv, NEW s \in Spends, NEW t \in Spends,
         KeysApart(s.witness.prims), t.witness.prims = s.witness.prims,
         t.witness.proofWords = s.witness.proofWords, t.witness.hax = s.witness.hax,
         Unsigned(t)
  PROVE  WitnessFee(WitnessWords(t)) + MissingUnlocksFee(t)
           <= WitnessFee(WitnessWords(s)) + MissingUnlocksFee(s)
<1> DEFINE prims == s.witness.prims
           N == Len(prims)
           c == q * SigWords
           K(n) == Cardinality(SignedUpTo(s, n))
           cost(r) == [i \in 1..N |-> (CostPerWord * SigWords * MissingSigs(r, i)) \div WitnessWordDiv]
           xs == cost(s)
           us == cost(t)
           T == {n \in 0..N : TotalUpTo(us)[n] <= TotalUpTo(xs)[n] + c * K(n)}
<1>1. N \in Nat /\ DOMAIN prims = 1..N
  BY SpendFields, LenProperties
<1>2. MissingUnlocksFee(s) = Total(xs) /\ MissingUnlocksFee(t) = Total(us)
  BY <1>1, Zenon DEF MissingUnlocksFee
<1>3. SignedBy(t) = {}
  BY DEF SignedBy, Unsigned, NoSigs
<1>4. c \in Nat
  BY Z3 DEF SigWords
<1>5. ASSUME NEW r \in {s, t}, NEW i \in 1..N
      PROVE  cost(r)[i] = c * MissingSigs(r, i) /\ cost(r)[i] \in Nat /\ MissingSigs(r, i) \in Nat
  <2> DEFINE m == MissingSigs(r, i)
             a == SigWords * m
  <2>1. m \in Nat
    BY <1>1, MissingSigsType
  <2> HIDE DEF m
  <2>2. a \in Nat /\ CostPerWord * SigWords * m = CostPerWord * a /\ q * a = c * m
    <3>1. CostPerWord \in Nat
      BY SpendAssumption
    <3> QED BY <2>1, <3>1, Z3 DEF SigWords
  <2> HIDE DEF a, c
  <2>3. (CostPerWord * a) \div WitnessWordDiv = q * a /\ q * a \in Nat
    BY <2>2, DividedPrice, Zenon
  <2>4. cost(r)[i] = (CostPerWord * SigWords * m) \div WitnessWordDiv
    BY DEF m
  <2> HIDE DEF cost
  <2> QED BY <2>1, <2>2, <2>3, <2>4, Zenon DEF m
<1>6. us \in Seq(Nat) /\ xs \in Seq(Nat) /\ Len(us) = N /\ Len(xs) = N
  <2>1. us \in [1..N -> Nat] /\ xs \in [1..N -> Nat]
    BY <1>5
  <2> HIDE DEF us, xs
  <2> QED BY <1>1, <2>1, ListTotalType
<1>7. ASSUME NEW i \in 1..N
      PROVE  us[i] = c * MissingSigs(t, i) /\ xs[i] = c * MissingSigs(s, i)
             /\ us[i] \in Nat /\ xs[i] \in Nat
             /\ MissingSigs(t, i) \in Nat /\ MissingSigs(s, i) \in Nat
  BY <1>5
<1> HIDE DEF us, xs, c
<1>8. 0 \in T
  <2>1. K(0) = 0
    <3>1. SignedUpTo(s, 0) = {}
      BY DEF SignedUpTo
    <3> QED BY <3>1, FS_EmptySet
  <2>2. TotalUpTo(us)[0] = 0 /\ TotalUpTo(xs)[0] = 0
    BY <1>6, TotalUpToDef
  <2> HIDE DEF K
  <2> QED BY <1>1, <1>4, <2>1, <2>2
<1>9. ASSUME NEW n \in 0..(N - 1), n \in T PROVE n + 1 \in T
  <2> DEFINE p == prims[n + 1]
             k == Cardinality(p.hashes \cap SignedBy(s))
             d == IF p.tag = "pkh" THEN k ELSE 0
             mt == MissingSigs(t, n + 1)
             ms == MissingSigs(s, n + 1)
  <2>1. n \in Nat /\ n + 1 \in 1..N /\ (n + 1) - 1 = n /\ n + 1 \in 0..N /\ n \in 0..N
    BY <1>1
  <2>2. K(n) \in Nat /\ k \in Nat /\ K(n + 1) = K(n) + d
    <3>1. /\ Cardinality(SignedUpTo(s, n)) \in Nat
          /\ Cardinality(SignedUpTo(s, n + 1)) =
               (IF p.tag = "pkh" THEN Cardinality(SignedUpTo(s, n)) + k
                ELSE Cardinality(SignedUpTo(s, n)))
          /\ k \in Nat
      BY <1>1, <2>1, SignedUpToNext, Zenon
    <3> HIDE DEF k, p
    <3> QED BY <3>1
  <2>3. mt <= ms + d
    <3>1. /\ ms = IF p.tag = "pkh" THEN LargerOf(0, p.m - k) ELSE 0
          /\ mt = IF p.tag = "pkh" THEN LargerOf(0, p.m - Cardinality(p.hashes \cap SignedBy(t))) ELSE 0
      BY DEF MissingSigs
    <3>2. p.tag = "pkh" => p.m \in Nat
      <4>1. p \in Prims
        BY <1>1, <2>1, SpendFields, ElementOfSeq
      <4> QED BY <4>1 DEF Prims, PkhPrims, HaxPrims, BrnPrims
    <3>3. Cardinality(p.hashes \cap SignedBy(t)) = 0
      <4>1. p.hashes \cap SignedBy(t) = {}
        BY <1>3
      <4> QED BY <4>1, FS_EmptySet
    <3> HIDE DEF p, k, mt, ms
    <3> QED BY <2>2, <3>1, <3>2, <3>3 DEF LargerOf
  <2>4. /\ us[n + 1] = c * mt /\ xs[n + 1] = c * ms /\ us[n + 1] \in Nat /\ xs[n + 1] \in Nat
        /\ mt \in Nat /\ ms \in Nat
    BY <1>7, <2>1
  <2>5. d \in Nat
    BY <2>2
  <2> DEFINE a == TotalUpTo(us)[n]
             b == TotalUpTo(xs)[n]
  <2>6. /\ TotalUpTo(us)[n + 1] = a + us[n + 1] /\ TotalUpTo(xs)[n + 1] = b + xs[n + 1]
        /\ a \in Nat /\ b \in Nat
    <3>1. \A zs \in {us, xs} :
            /\ TotalUpTo(zs) \in [0..N -> Nat]
            /\ \A j \in 1..N : TotalUpTo(zs)[j] = TotalUpTo(zs)[j - 1] + zs[j]
      BY <1>6, TotalUpToDef
    <3> HIDE DEF N
    <3> QED BY <2>1, <3>1
  <2>7. a <= b + c * K(n)
    BY <1>9
  <2> HIDE DEF a, b, d, mt, ms, k, p, K, T
  <2>8. c * mt <= c * ms + c * d
    <3>1. c * mt <= c * (ms + d)
      <4>1. mt * c <= (ms + d) * c
        BY <1>4, <2>3, <2>4, <2>5, ProductGrows
      <4> QED BY <1>4, <2>4, <2>5, <4>1
    <3>2. c * (ms + d) = c * ms + c * d
      BY <1>4, <2>4, <2>5, Z3
    <3> QED BY <3>1, <3>2
  <2>9. c * K(n + 1) = c * K(n) + c * d /\ c * K(n) \in Nat /\ c * d \in Nat
    <3>1. c * (K(n) + d) = c * K(n) + c * d
      BY <1>4, <2>2, <2>5, Z3
    <3> QED BY <1>4, <2>2, <2>5, <3>1
  <2> DEFINE e == c * K(n)
             f == c * d
             g == c * K(n + 1)
             x == us[n + 1]
             y == xs[n + 1]
  <2>10. /\ x <= y + f /\ g = e + f /\ e \in Nat /\ f \in Nat /\ x \in Nat /\ y \in Nat
         /\ a <= b + e
    BY <2>4, <2>7, <2>8, <2>9
  <2> HIDE DEF e, f, g, x, y
  <2>11. a + x <= (b + y) + g
    BY <2>6, <2>10
  <2>12. TotalUpTo(us)[n + 1] <= TotalUpTo(xs)[n + 1] + c * K(n + 1)
    BY <2>6, <2>11, Zenon DEF x, y, g
  <2> QED BY <2>1, <2>12 DEF T
<1>10. Total(us) <= Total(xs) + c * K(N)
  <2>1. \A n \in 0..N : n \in T
    <3> HIDE DEF T
    <3> QED BY <1>1, <1>8, <1>9, PrefixInduction
  <2>2. N \in 0..N
    BY <1>1
  <2> QED BY <1>6, <2>1, <2>2 DEF Total
<1> DEFINE S == Cardinality(SignedBy(s))
           f == [d \in s.witness.hax |-> HaxEntryWords + PreimageWords[d]]
           w == s.witness.proofWords
           h == SumFunction(f)
<1>11. K(N) <= S /\ K(N) \in Nat /\ S \in Nat
  <2> DEFINE A == SignedUpTo(s, N)
             B == SignedBy(s)
  <2>1. A \in SUBSET B
    BY DEF SignedUpTo
  <2>2. IsFiniteSet(B)
    BY SignedByFinite
  <2> HIDE DEF A, B
  <2>3. IsFiniteSet(A) /\ Cardinality(A) <= Cardinality(B)
    BY <2>1, <2>2, FS_Subset
  <2> QED BY <2>2, <2>3, FS_CardinalityType DEF A, B
<1>12. w \in Nat /\ h \in Nat
  <2>1. s.witness.hax \in SUBSET Digests /\ s.witness.proofWords \in Nat
    BY DEF Spends, Witnesses
  <2>2. f \in [s.witness.hax -> Nat]
    BY <2>1, SpendAssumption DEF HaxEntryWords
  <2>3. IsFiniteSet(s.witness.hax)
    BY <2>1, SpendAssumption, FS_Subset
  <2> HIDE DEF f
  <2> QED BY <2>1, <2>2, <2>3, SumFunctionType
<1>13. WitnessWords(s) = w + SigWords * S + h /\ WitnessWords(t) = w + SigWords * 0 + h
  <2>1. Cardinality(SignedBy(t)) = 0
    BY <1>3, FS_EmptySet
  <2> QED BY <2>1 DEF WitnessWords
<1>14. /\ WitnessFee(WitnessWords(s)) = q * WitnessWords(s) /\ q * WitnessWords(s) \in Nat
       /\ WitnessFee(WitnessWords(t)) = q * WitnessWords(t) /\ q * WitnessWords(t) \in Nat
  BY WitnessWordsType, DividedPrice, Zenon
<1> DEFINE a == WitnessWords(s)
           b == WitnessWords(t)
           A == q * a
           B == q * b
<1>15. A = B + c * S
  <2> HIDE DEF S, h, w, K, T
  <2>1. b \in Nat /\ a = b + SigWords * S
    BY <1>11, <1>12, <1>13 DEF SigWords
  <2> HIDE DEF a, b
  <2>2. q * (b + SigWords * S) = q * b + (q * SigWords) * S
    BY <1>11, <2>1, Z3 DEF SigWords
  <2> QED BY <2>1, <2>2 DEF c
<1>16. c * K(N) <= c * S /\ c * K(N) \in Nat /\ c * S \in Nat
  <2> HIDE DEF S, K, T
  <2>1. K(N) * c <= S * c
    BY <1>4, <1>11, ProductGrows
  <2> QED BY <1>4, <1>11, <2>1
<1>17. Total(us) \in Nat /\ Total(xs) \in Nat
  BY <1>6, TotalType
<1> DEFINE y == c * K(N)
           z == c * S
           U == Total(us)
           X == Total(xs)
<1>18. /\ U \in Nat /\ X \in Nat /\ y \in Nat /\ z \in Nat /\ y <= z /\ A \in Nat /\ B \in Nat
       /\ A = B + z /\ U <= X + y
  BY <1>10, <1>14, <1>15, <1>16, <1>17
<1> HIDE DEF y, z, U, X, A, B
<1>19. B + U <= A + X
  BY <1>18
<1> QED BY <1>2, <1>14, <1>19, Zenon DEF A, B, U, X, a, b

(* What a spend asks for to be rebated safely: its proof alone pays the    *)
(* minimum fee, no key is listed twice, and its refunds have the words a   *)
(* new refund will have, if one can be made.                               *)
Priced(s, include) ==
  /\ MinFee <= WitnessFee(s.witness.proofWords)
  /\ KeysApart(s.witness.prims)
  /\ ~ BuildSeedThrows(s.refund, include) =>
       \A i \in DOMAIN s.seeds :
         s.seeds[i].lock = s.refund
         => LeastWords(s.refund, include) <= NoteDataWords(s.seeds[i].data)

Unlocking(s) == WitnessFee(WitnessWords(s)) + MissingUnlocksFee(s)

(* The witness of s or, with the signatures gone, that of t.               *)
SameUnlocking(s, t) ==
  /\ t.witness.prims = s.witness.prims
  /\ t.witness.proofWords = s.witness.proofWords
  /\ t.witness.hax = s.witness.hax
  /\ t.witness.sigs = s.witness.sigs \/ Unsigned(t)

LEMMA UnlockingFee ==
  ASSUME NEW q \in Nat, CostPerWord = q * WitnessWordDiv, NEW s \in Spends, NEW t \in Spends,
         KeysApart(s.witness.prims), SameUnlocking(s, t)
  PROVE  Unlocking(t) <= Unlocking(s) /\ Unlocking(s) \in Nat /\ Unlocking(t) \in Nat
<1>1. \A r \in {s, t} : WitnessFee(WitnessWords(r)) \in Nat /\ MissingUnlocksFee(r) \in Nat
  BY WitnessWordsType, WitnessFeeType, MissingUnlocksFeeType
<1>2. Unlocking(s) \in Nat /\ Unlocking(t) \in Nat
  BY <1>1 DEF Unlocking
<1>3. CASE Unsigned(t)
  BY <1>2, <1>3, UnsignedCheaper DEF Unlocking, SameUnlocking
<1>4. CASE t.witness.sigs = s.witness.sigs
  <2>1. t.witness = s.witness
    <3>1. t.witness \in Witnesses /\ s.witness \in Witnesses
      BY SpendFields
    <3> QED BY <1>4, <3>1 DEF SameUnlocking, Witnesses
  <2>2. WitnessWords(t) = WitnessWords(s) /\ MissingUnlocksFee(t) = MissingUnlocksFee(s)
    BY <2>1 DEF WitnessWords, MissingUnlocksFee, MissingSigs, SignedBy
  <2> QED BY <1>2, <2>2 DEF Unlocking
<1> QED BY <1>2, <1>3, <1>4 DEF SameUnlocking

LEMMA InvalidateUnlocking ==
  ASSUME NEW s \in Spends
  PROVE  /\ InvalidateSigs(s).witness.prims = s.witness.prims
         /\ InvalidateSigs(s).witness.proofWords = s.witness.proofWords
         /\ InvalidateSigs(s).witness.hax = s.witness.hax
         /\ InvalidateSigs(s).witness.sigs = NoSigs
BY DEF InvalidateSigs, Spends, Witnesses

LEMMA SetFeeUnlocking ==
  ASSUME NEW s \in Spends, NEW fee \in Nat
  PROVE  SameUnlocking(s, SetFee(s, fee))
<1>1. SetFee(s, fee).witness = s.witness \/ SetFee(s, fee).witness = InvalidateSigs(s).witness
  BY DEF SetFee, InvalidateSigs, Spends
<1> QED BY <1>1, InvalidateUnlocking DEF SameUnlocking, Unsigned

LEMMA ComputeRefundUnlocking ==
  ASSUME NEW s \in Spends, NEW include \in BOOLEAN
  PROVE  SameUnlocking(s, ComputeRefund(s, include))
<1>1. \/ ComputeRefund(s, include).witness = s.witness
      \/ ComputeRefund(s, include).witness = InvalidateSigs(s).witness
  <2>1. CASE s.refund = NoLock
    BY <2>1 DEF ComputeRefund
  <2>2. CASE s.refund # NoLock
    <3>1. ComputeRefund(s, include).witness = WithoutRefund(s).witness
      BY <2>2, WithoutRefundType DEF ComputeRefund, Spends
    <3> QED BY <3>1, WithoutRefundEffect
  <2> QED BY <2>1, <2>2
<1> QED BY <1>1, InvalidateUnlocking DEF SameUnlocking, Unsigned

(* The seeds computeRefund leaves.                                         *)
LEMMA ComputeRefundSeeds ==
  ASSUME NEW s \in Spends, NEW include \in BOOLEAN, s.refund # NoLock
  PROVE  LET t == ComputeRefund(s, include)
             others == Others(s.seeds, s.refund)
             seed == BuildSeed(s.refund, Unspent(s), include, NoData)
         IN  \/ t.seeds = others
             \/ /\ ~ BuildSeedThrows(s.refund, include) /\ seed \in Seeds
                /\ seed.lock = s.refund /\ NoteDataWords(seed.data) = LeastWords(s.refund, include)
                /\ t.seeds = <<seed>> \o others
<1> DEFINE t == ComputeRefund(s, include)
           others == Others(s.seeds, s.refund)
           seed == BuildSeed(s.refund, Unspent(s), include, NoData)
<1>1. CASE Unspent(s) <= 0 \/ ComputeRefundThrows(s, include)
  <2>1. t = WithoutRefund(s)
    BY <1>1 DEF ComputeRefund
  <2> QED BY <2>1, WithoutRefundEffect
<1>2. CASE ~ (Unspent(s) <= 0 \/ ComputeRefundThrows(s, include))
  <2>1. Unspent(s) \in Nat /\ Unspent(s) > 0
    BY <1>2, UnspentType
  <2>2. seed \in Seeds
    <3>1. NoData \in NoteDatas
      BY DEF NoData, NoteDatas
    <3> QED BY <2>1, <3>1, SpendFields, BuildSeedType
  <2>3. seed.lock = s.refund /\ NoteDataWords(seed.data) = LeastWords(s.refund, include)
    BY DEF BuildSeed, LeastWords
  <2>4. ~ BuildSeedThrows(s.refund, include)
    BY <1>2, <2>1 DEF ComputeRefundThrows
  <2>5. t = [WithoutRefund(s) EXCEPT !.seeds = <<seed>> \o @]
    BY <1>2 DEF ComputeRefund
  <2> HIDE DEF t, seed
  <2>6. t.seeds = <<seed>> \o others
    BY <2>5, WithoutRefundType, WithoutRefundEffect DEF Spends
  <2> QED BY <2>2, <2>3, <2>4, <2>6 DEF t, seed
<1> QED BY <1>1, <1>2

LEMMA OthersAreOthers ==
  ASSUME NEW seeds \in Seq(Seeds), NEW lock
  PROVE  \A k \in DOMAIN Others(seeds, lock) : Others(seeds, lock)[k].lock # lock
<1> DEFINE ys == Others(seeds, lock)
           places == {i \in DOMAIN seeds : seeds[i].lock # lock}
<1>1. ys \in Seq(Seeds) /\ Len(ys) \in Nat /\ DOMAIN ys = 1..Len(ys)
  BY OthersType, LenProperties
<1>2. PICK pos : Locates(pos, ys, seeds, places, Len(seeds))
  BY KeptLocates DEF Others
<1>3. ASSUME NEW k \in 1..Len(ys) PROVE ys[k].lock # lock
  BY <1>2 DEF Locates
<1> QED BY <1>1, <1>3

(* A seed more in front.                                                   *)
LEMMA FirstSeedWords ==
  ASSUME NEW seeds \in Seq(Seeds), NEW seed \in Seeds
  PROVE  /\ Total(DataWords(<<seed>> \o seeds)) = NoteDataWords(seed.data) + Total(DataWords(seeds))
         /\ <<seed>> \o seeds \in Seq(Seeds)
         /\ (<<seed>> \o seeds)[1] = seed /\ DOMAIN (<<seed>> \o seeds) = 1..(1 + Len(seeds))
         /\ \A k \in 1..Len(seeds) : (<<seed>> \o seeds)[k + 1] = seeds[k]
<1> DEFINE all == <<seed>> \o seeds
           w == NoteDataWords(seed.data)
           N == Len(seeds)
<1>1. <<seed>> \in Seq(Seeds) /\ Len(<<seed>>) = 1 /\ <<seed>>[1] = seed /\ N \in Nat
  BY LenProperties
<1>2. /\ all \in Seq(Seeds) /\ Len(all) = 1 + N
      /\ \A i \in 1..Len(all) : all[i] = IF i <= 1 THEN <<seed>>[i] ELSE seeds[i - 1]
  BY <1>1, ConcatProperties
<1>3. DOMAIN all = 1..(1 + N)
  BY <1>2, LenProperties
<1> HIDE DEF all
<1>4. all[1] = seed /\ \A k \in 1..N : all[k + 1] = seeds[k]
  <2>1. all[1] = seed
    BY <1>1, <1>2
  <2>2. ASSUME NEW k \in 1..N PROVE all[k + 1] = seeds[k]
    <3>1. k + 1 \in 1..Len(all) /\ ~ (k + 1 <= 1) /\ (k + 1) - 1 = k
      BY <1>1, <1>2
    <3> QED BY <1>2, <3>1
  <2> QED BY <2>1, <2>2
<1>5. w \in Nat
  <2>1. seed.data \in NoteDatas
    BY DEF Seeds
  <2> QED BY <2>1, NoteDataWordsType
<1> DEFINE us == DataWords(seeds)
           zs == DataWords(all)
<1>6. /\ us \in Seq(Nat) /\ Len(us) = N /\ \A i \in 1..N : us[i] = NoteDataWords(seeds[i].data)
      /\ zs \in Seq(Nat) /\ Len(zs) = 1 + N
      /\ \A i \in 1..(1 + N) : zs[i] = NoteDataWords(all[i].data)
  BY <1>2, DataWordsType
<1> HIDE DEF us, zs
<1>7. <<w>> \in Seq(Nat) /\ Len(<<w>>) = 1 /\ <<w>>[1] = w /\ Total(<<w>>) = w
  <2>1. << >> \in Seq(Nat) /\ <<w>> = Append(<< >>, w)
    BY <1>5, EmptySeq
  <2>2. Total(<<w>>) = 0 + w
    BY <1>5, <2>1, TotalAppend, TotalEmpty
  <2> HIDE DEF w
  <2> QED BY <1>5, <2>2
<1> DEFINE vs == <<w>> \o us
<1> HIDE DEF w
<1>8. /\ vs \in Seq(Nat) /\ Len(vs) = 1 + N
      /\ \A i \in 1..(1 + N) : vs[i] = IF i <= 1 THEN <<w>>[i] ELSE us[i - 1]
  BY <1>6, <1>7, ConcatProperties
<1>9. Total(vs) = w + Total(us)
  BY <1>6, <1>7, TotalConcat
<1> HIDE DEF vs
<1>10. ASSUME NEW i \in 1..(1 + N) PROVE zs[i] = vs[i]
  <2>1. CASE i = 1
    <3>1. vs[1] = <<w>>[1]
      BY <1>1, <1>8
    <3>2. 1 \in 1..(1 + N)
      BY <1>1
    <3>3. zs[1] = NoteDataWords(seed.data)
      BY <1>4, <1>6, <3>2, Zenon
    <3>4. zs[1] = vs[1]
      BY <1>7, <3>1, <3>3, Zenon DEF w
    <3> QED BY <2>1, <3>4, Zenon
  <2>2. CASE i # 1
    <3> DEFINE k == i - 1
    <3>1. k \in 1..N /\ k + 1 = i /\ ~ (i <= 1)
      BY <1>1, <2>2
    <3>2. vs[i] = us[k]
      BY <1>8, <3>1
    <3> HIDE DEF k
    <3>3. us[k] = NoteDataWords(seeds[k].data) /\ all[i] = seeds[k]
      BY <1>4, <1>6, <3>1, Zenon
    <3>4. zs[i] = NoteDataWords(all[i].data)
      BY <1>6, Zenon
    <3> QED BY <3>2, <3>3, <3>4, Zenon
  <2> QED BY <2>1, <2>2
<1>11. zs = vs
  <2>1. DOMAIN zs = 1..(1 + N) /\ DOMAIN vs = 1..(1 + N)
        /\ zs = [i \in DOMAIN zs |-> zs[i]] /\ vs = [i \in DOMAIN vs |-> vs[i]]
    BY <1>6, <1>8, LenProperties, SeqDef
  <2> QED BY <1>10, <2>1
<1> QED BY <1>2, <1>3, <1>4, <1>9, <1>11, Zenon DEF zs, us, w, all

LEMMA SeedWordsAre ==
  ASSUME NEW s
  PROVE  SeedWords(s) = Total(DataWords(s.seeds))
BY Zenon DEF SeedWords, DataWords

LEMMA CurRefundIn ==
  ASSUME NEW s \in Spends, HasRefund(s)
  PROVE  \E i \in 1..Len(s.seeds) :
           s.seeds[i].lock = s.refund /\ CurRefund(s) = s.seeds[i]
BY CurRefundType

(* Computing the refund again adds no word to a spend that has one, and    *)
(* takes the words of the old one away if there is none any more.          *)
LEMMA RefundWordsFit ==
  ASSUME NEW s \in Spends, NEW include \in BOOLEAN, s.refund # NoLock, Priced(s, include)
  PROVE  LET t == ComputeRefund(s, include)
         IN  /\ Priced(t, include)
             /\ HasRefund(s) =>
                  /\ SeedWords(t) <= SeedWords(s)
                  /\ ~ HasRefund(t) =>
                       SeedWords(t) + NoteDataWords(CurRefund(s).data) <= SeedWords(s)
<1> DEFINE t == ComputeRefund(s, include)
           others == Others(s.seeds, s.refund)
           seed == BuildSeed(s.refund, Unspent(s), include, NoData)
           least == LeastWords(s.refund, include)
<1>1. /\ t \in Spends /\ t.refund = s.refund /\ SameUnlocking(s, t)
      /\ \/ t.seeds = others
         \/ /\ ~ BuildSeedThrows(s.refund, include) /\ seed \in Seeds
            /\ seed.lock = s.refund /\ NoteDataWords(seed.data) = least
            /\ t.seeds = <<seed>> \o others
  BY ComputeRefundType, ComputeRefundEffect, ComputeRefundUnlocking, ComputeRefundSeeds
<1>2. /\ s.seeds \in Seq(Seeds) /\ others \in Seq(Seeds)
      /\ \A k \in DOMAIN others : others[k].lock # s.refund
      /\ DOMAIN others = 1..Len(others) /\ Len(others) \in Nat
      /\ DOMAIN s.seeds = 1..Len(s.seeds)
  BY SpendFields, OthersType, OthersAreOthers, LenProperties
<1>3. /\ Total(DataWords(others)) \in Nat /\ Total(DataWords(s.seeds)) \in Nat
      /\ Total(DataWords(others)) <= Total(DataWords(s.seeds))
      /\ \A k \in 1..Len(s.seeds) : s.seeds[k].lock = s.refund =>
           Total(DataWords(others)) + NoteDataWords(s.seeds[k].data)
             <= Total(DataWords(s.seeds))
  BY <1>2, WordsOfOthers
<1>4. SeedWords(s) = Total(DataWords(s.seeds)) /\ SeedWords(t) = Total(DataWords(t.seeds))
  BY SeedWordsAre
<1>5. least \in Nat
  <2>1. s.refund \in Locks /\ NoData \in NoteDatas
    BY SpendFields DEF NoData, NoteDatas
  <2> QED BY <2>1, LeastWordsType
<1>6. ASSUME HasRefund(s)
      PROVE  \E k \in 1..Len(s.seeds) :
               /\ s.seeds[k].lock = s.refund /\ CurRefund(s) = s.seeds[k]
               /\ NoteDataWords(s.seeds[k].data) \in Nat
               /\ ~ BuildSeedThrows(s.refund, include) => least <= NoteDataWords(s.seeds[k].data)
  <2>1. PICK k \in 1..Len(s.seeds) : s.seeds[k].lock = s.refund /\ CurRefund(s) = s.seeds[k]
    BY <1>6, CurRefundIn
  <2>2. s.seeds[k].data \in NoteDatas
    <3>1. s.seeds[k] \in Seeds
      BY <1>2, ElementOfSeq
    <3> QED BY <3>1 DEF Seeds
  <2>3. NoteDataWords(s.seeds[k].data) \in Nat
    BY <2>2, NoteDataWordsType
  <2>4. ~ BuildSeedThrows(s.refund, include) => least <= NoteDataWords(s.seeds[k].data)
    BY <1>2, <2>1 DEF Priced
  <2> QED BY <2>1, <2>3, <2>4
<1> HIDE DEF t, others, seed, least
<1>7. CASE t.seeds = others
  <2>1. ~ HasRefund(t)
    BY <1>1, <1>2, <1>7 DEF HasRefund, RefundSeedsAt
  <2>2. Priced(t, include)
    BY <1>1, <1>2, <1>7 DEF Priced, SameUnlocking
  <2>3. ASSUME HasRefund(s)
        PROVE  /\ SeedWords(t) <= SeedWords(s)
               /\ SeedWords(t) + NoteDataWords(CurRefund(s).data) <= SeedWords(s)
    BY <1>3, <1>4, <1>6, <1>7, <2>3
  <2> QED BY <2>2, <2>3 DEF t
<1>8. CASE /\ ~ BuildSeedThrows(s.refund, include) /\ seed \in Seeds
           /\ seed.lock = s.refund /\ NoteDataWords(seed.data) = least
           /\ t.seeds = <<seed>> \o others
  <2>1. /\ Total(DataWords(t.seeds)) = least + Total(DataWords(others))
        /\ t.seeds[1] = seed /\ DOMAIN t.seeds = 1..(1 + Len(others))
        /\ \A k \in 1..Len(others) : t.seeds[k + 1] = others[k]
    BY <1>2, <1>8, FirstSeedWords
  <2>2. HasRefund(t)
    <3>1. 1 \in DOMAIN t.seeds
      BY <1>2, <2>1
    <3>2. t.seeds[1].lock = t.refund /\ t.refund # NoLock
      BY <1>1, <1>8, <2>1
    <3> QED BY <3>1, <3>2 DEF HasRefund, RefundSeedsAt
  <2>3. ASSUME NEW i \in DOMAIN t.seeds, t.seeds[i].lock = t.refund
        PROVE  LeastWords(t.refund, include) <= NoteDataWords(t.seeds[i].data)
    <3>1. CASE i = 1
      <4>1. NoteDataWords(t.seeds[i].data) = least /\ LeastWords(t.refund, include) = least
        BY <1>1, <1>8, <2>1, <3>1, Zenon DEF least
      <4> QED BY <1>5, <4>1
    <3>2. CASE i # 1
      <4>1. i - 1 \in 1..Len(others) /\ (i - 1) + 1 = i
        BY <1>2, <2>1, <3>2
      <4>2. t.seeds[i] = others[i - 1]
        BY <2>1, <4>1
      <4> QED BY <1>1, <1>2, <2>3, <4>1, <4>2
    <3> QED BY <3>1, <3>2
  <2>4. Priced(t, include)
    BY <1>1, <2>3 DEF Priced, SameUnlocking
  <2>5. ASSUME HasRefund(s) PROVE SeedWords(t) <= SeedWords(s)
    <3>1. PICK k \in 1..Len(s.seeds) :
               /\ s.seeds[k].lock = s.refund
               /\ NoteDataWords(s.seeds[k].data) \in Nat
               /\ least <= NoteDataWords(s.seeds[k].data)
      BY <1>6, <1>8, <2>5
    <3>2. Total(DataWords(others)) + NoteDataWords(s.seeds[k].data) <= Total(DataWords(s.seeds))
      BY <1>3, <3>1
    <3> DEFINE x == Total(DataWords(others))
               y == NoteDataWords(s.seeds[k].data)
               z == Total(DataWords(s.seeds))
    <3>3. x \in Nat /\ y \in Nat /\ z \in Nat /\ least <= y /\ x + y <= z
      BY <1>3, <3>1, <3>2
    <3> HIDE DEF x, y, z
    <3>4. least + x <= z
      BY <1>5, <3>3
    <3> QED BY <1>4, <2>1, <3>4, Zenon DEF x, z
  <2> QED BY <2>2, <2>4, <2>5 DEF t
<1> QED BY <1>1, <1>7, <1>8

(* What a spend costs.                                                     *)
Cost(s) == SeedFee(SeedWords(s)) + Unlocking(s)

LEMMA CostType ==
  ASSUME NEW s \in Spends
  PROVE  /\ Cost(s) \in Nat /\ SeedFee(SeedWords(s)) \in Nat /\ SeedWords(s) \in Nat
         /\ Unlocking(s) \in Nat /\ WitnessFee(WitnessWords(s)) \in Nat
         /\ MissingUnlocksFee(s) \in Nat
         /\ Cost(s) = SpendingCost(s, FALSE)
<1>1. WitnessFee(WitnessWords(s)) \in Nat /\ MissingUnlocksFee(s) \in Nat
  BY WitnessWordsType, WitnessFeeType, MissingUnlocksFeeType
<1>2. SeedFee(SeedWords(s)) \in Nat /\ SeedWords(s) \in Nat
  BY SeedWordsType, SeedFeeType
<1> QED BY <1>1, <1>2 DEF Cost, Unlocking, SpendingCost

(* The fee of a spend is changed, with its refund computed again.          *)
LEMMA FeeChangeCost ==
  ASSUME NEW q \in Nat, CostPerWord = q * WitnessWordDiv,
         NEW s \in Spends, NEW include \in BOOLEAN, NEW fee \in Nat,
         HasRefund(s), Priced(s, include)
  PROVE  LET t == FeeChanged(s, fee, include)
             dropped == CostPerWord * NoteDataWords(CurRefund(s).data)
         IN  /\ Priced(t, include) /\ t.fee = fee
             /\ Cost(t) <= Cost(s)
             /\ ~ HasRefund(t) => dropped \in Nat /\ Cost(t) + dropped <= Cost(s)
<1> DEFINE r == SetFee(s, fee)
           t == ComputeRefund(r, include)
           words == NoteDataWords(CurRefund(s).data)
           dropped == CostPerWord * words
<1>1. /\ r \in Spends /\ r.refund = s.refund /\ r.seeds = s.seeds /\ r.fee = fee
      /\ SameUnlocking(s, r)
  BY SetFeeType, SetFeeFields, SetFeeUnlocking
<1> HIDE DEF r
<1>2. HasRefund(r) /\ CurRefund(r) = CurRefund(s) /\ r.refund # NoLock
  BY <1>1 DEF HasRefund, RefundSeedsAt, CurRefund
<1>3. Priced(r, include)
  BY <1>1 DEF Priced, SameUnlocking
<1>4. /\ Priced(t, include) /\ SeedWords(t) <= SeedWords(r)
      /\ ~ HasRefund(t) => SeedWords(t) + words <= SeedWords(r)
  BY <1>1, <1>2, <1>3, RefundWordsFit, Zenon
<1>5. SeedWords(r) = SeedWords(s)
  BY <1>1 DEF SeedWords
<1>6. t \in Spends /\ t.fee = fee /\ SameUnlocking(r, t)
  BY <1>1, ComputeRefundType, ComputeRefundEffect, ComputeRefundUnlocking
<1> HIDE DEF t
<1>7. Unlocking(r) <= Unlocking(s) /\ Unlocking(t) <= Unlocking(r)
      /\ Unlocking(r) \in Nat /\ Unlocking(s) \in Nat /\ Unlocking(t) \in Nat
  <2>1. KeysApart(s.witness.prims) /\ KeysApart(r.witness.prims)
    BY <1>3 DEF Priced
  <2>2. Unlocking(r) <= Unlocking(s) /\ Unlocking(s) \in Nat
    BY <1>1, <2>1, UnlockingFee
  <2>3. Unlocking(t) <= Unlocking(r) /\ Unlocking(r) \in Nat /\ Unlocking(t) \in Nat
    BY <1>1, <1>6, <2>1, UnlockingFee
  <2> QED BY <2>2, <2>3
<1>8. words \in Nat
  <2>1. CurRefund(s).data \in NoteDatas
    BY CurRefundType DEF Seeds
  <2> QED BY <2>1, NoteDataWordsType
<1> DEFINE a == SeedWords(t)
           b == SeedWords(s)
<1>9. a \in Nat /\ b \in Nat
  BY <1>6, SeedWordsType
<1> HIDE DEF a, b, words
<1>10. /\ SeedFee(a) \in Nat /\ SeedFee(b) \in Nat /\ dropped \in Nat
       /\ a <= b => SeedFee(a) <= SeedFee(b)
       /\ a + words <= b => SeedFee(a) + dropped <= SeedFee(b)
  <2>1. CostPerWord \in Nat
    BY SpendAssumption
  <2>2. a * CostPerWord = SeedFee(a) /\ b * CostPerWord = SeedFee(b) /\ words * CostPerWord = dropped
    BY <1>8, <1>9, <2>1, Z3 DEF SeedFee
  <2>3. (a + words) * CostPerWord = a * CostPerWord + words * CostPerWord
    BY <1>8, <1>9, <2>1, Z3
  <2>4. a <= b => a * CostPerWord <= b * CostPerWord
    BY <1>9, <2>1, ProductGrows
  <2>5. a + words <= b => (a + words) * CostPerWord <= b * CostPerWord
    <3>1. a + words \in Nat
      BY <1>8, <1>9
    <3> QED BY <1>9, <2>1, <3>1, ProductGrows
  <2>6. SeedFee(a) \in Nat /\ SeedFee(b) \in Nat /\ dropped \in Nat
    BY <1>8, <1>9, <2>1 DEF SeedFee
  <2> HIDE DEF dropped
  <2> QED BY <2>2, <2>3, <2>4, <2>5, <2>6
<1>11. a <= b /\ (~ HasRefund(t) => a + words <= b)
  BY <1>4, <1>5 DEF a, b
<1> DEFINE x == SeedFee(a)
           y == SeedFee(b)
           u == Unlocking(t)
           v == Unlocking(s)
<1>12. /\ x \in Nat /\ y \in Nat /\ u \in Nat /\ v \in Nat /\ dropped \in Nat
       /\ x <= y /\ u <= v /\ (~ HasRefund(t) => x + dropped <= y)
  BY <1>7, <1>10, <1>11
<1>13. Cost(t) = x + u /\ Cost(s) = y + v
  BY DEF Cost, a, b
<1> HIDE DEF x, y, u, v, dropped
<1>14. Cost(t) <= Cost(s) /\ (~ HasRefund(t) => Cost(t) + dropped <= Cost(s))
  BY <1>12, <1>13
<1> QED BY <1>4, <1>6, <1>12, <1>14 DEF t, r, dropped, words, FeeChanged

LEMMA ProofWordsCount ==
  ASSUME NEW s \in Spends
  PROVE  s.witness.proofWords \in Nat /\ s.witness.proofWords <= WitnessWords(s)
<1> DEFINE h == [d \in s.witness.hax |-> HaxEntryWords + PreimageWords[d]]
<1>1. s.witness.proofWords \in Nat /\ s.witness.hax \in SUBSET Digests
  BY SpendFields DEF Witnesses
<1>2. IsFiniteSet(s.witness.hax)
  BY <1>1, SpendAssumption, FS_Subset
<1>3. h \in [s.witness.hax -> Nat]
  BY <1>1, SpendAssumption DEF HaxEntryWords
<1> HIDE DEF h
<1>4. SumFunction(h) \in Nat
  BY <1>2, <1>3, SumFunctionType
<1>5. SigWords * Cardinality(SignedBy(s)) \in Nat
  BY SignedByFinite DEF SigWords
<1>6. WitnessWords(s) = s.witness.proofWords + SigWords * Cardinality(SignedBy(s)) + SumFunction(h)
  BY Zenon DEF WitnessWords, h
<1> QED BY <1>1, <1>4, <1>5, <1>6

-----------------------------------------------------------------------------
(* What a list of spends costs: the sum of what each costs, which is what  *)
(* calcFee answers as soon as the list is not empty.                       *)

TotalCost(xs) == Total([i \in 1..Len(xs) |-> Cost(xs[i].sb)])

AllPriced(xs, include) == \A i \in DOMAIN xs : Priced(xs[i].sb, include)

LEMMA CostList ==
  ASSUME NEW xs \in Seq(Entries)
  PROVE  LET cs == [i \in 1..Len(xs) |-> Cost(xs[i].sb)]
         IN  cs \in Seq(Nat) /\ Len(cs) = Len(xs) /\ Len(xs) \in Nat /\ Total(cs) \in Nat
<1> DEFINE N == Len(xs)
           cs == [i \in 1..N |-> Cost(xs[i].sb)]
<1>1. N \in Nat /\ \A i \in 1..N : xs[i].sb \in Spends
  BY EntryFields
<1>2. cs \in [1..N -> Nat]
  BY <1>1, CostType
<1> HIDE DEF cs, N
<1>3. cs \in Seq(Nat) /\ Len(cs) = N /\ Total(cs) \in Nat
  BY <1>1, <1>2, ListTotalType
<1> QED BY <1>1, <1>3 DEF cs, N

LEMMA CostOfList ==
  ASSUME EnginePatch = 0, NEW q \in Nat, CostPerWord = q * WitnessWordDiv,
         NEW xs \in Seq(Entries), NEW include, AllPriced(xs, include)
  PROVE  /\ TotalCost(xs) \in Nat /\ CalcFee(xs) \in Nat
         /\ TotalCost(xs) <= CalcFee(xs)
         /\ xs # << >> => CalcFee(xs) = TotalCost(xs)
<1> DEFINE N == Len(xs)
           list == SpendsOf(xs)
           C == [i \in 1..N |-> Cost(xs[i].sb)]
           S == [i \in 1..N |-> SeedWords(xs[i].sb)]
           F == [i \in 1..N |-> SeedFee(SeedWords(xs[i].sb))]
           W == [i \in 1..N |-> WitnessWords(xs[i].sb)]
           V == [i \in 1..N |-> WitnessFee(WitnessWords(xs[i].sb))]
           M == [i \in 1..N |-> MissingUnlocksFee(xs[i].sb)]
           U == [i \in 1..N |-> Unlocking(xs[i].sb)]
           words == Total(W)
           missing == Total(M)
           seeds == SeedFee(OrderedSeedWords(list))
<1>1. N \in Nat /\ DOMAIN xs = 1..N /\ \A i \in 1..N : xs[i].sb \in Spends
  BY EntryFields
<1>2. /\ words \in Nat /\ missing \in Nat /\ seeds \in Nat /\ q * words \in Nat
      /\ CalcFee(xs) = LargerOf(LargerOf(seeds + q * words, MinFee) + missing, MinFee)
  BY CalcFeeParts, Zenon
<1>3. /\ C \in [1..N -> Nat] /\ S \in [1..N -> Nat] /\ F \in [1..N -> Nat]
      /\ W \in [1..N -> Nat] /\ V \in [1..N -> Nat] /\ M \in [1..N -> Nat] /\ U \in [1..N -> Nat]
  BY <1>1, CostType, WitnessWordsType
<1>4. \A i \in 1..N :
        /\ C[i] = F[i] + U[i] /\ U[i] = V[i] + M[i]
        /\ F[i] = CostPerWord * S[i] /\ V[i] = WitnessFee(W[i])
  BY DEF Cost, Unlocking, SeedFee
<1>5. seeds = SeedFee(Total(S))
  <2>1. Len(list) = N /\ \A i \in 1..N : list[i] = xs[i].sb
    BY <1>1, IsASeq DEF SpendsOf
  <2>2. [i \in 1..Len(list) |-> SeedWords(list[i])] = S
    BY <2>1
  <2> HIDE DEF S, list
  <2> QED BY <2>2, Zenon DEF OrderedSeedWords
<1>6. C \in Seq(Nat) /\ S \in Seq(Nat) /\ F \in Seq(Nat) /\ W \in Seq(Nat) /\ V \in Seq(Nat)
      /\ M \in Seq(Nat) /\ U \in Seq(Nat)
      /\ Len(C) = N /\ Len(S) = N /\ Len(F) = N /\ Len(W) = N /\ Len(V) = N
      /\ Len(M) = N /\ Len(U) = N
      /\ Total(C) \in Nat /\ Total(F) \in Nat /\ Total(U) \in Nat /\ Total(V) \in Nat
  <2> HIDE DEF C, S, F, W, V, M, U, N
  <2> QED BY <1>1, <1>3, ListTotalType
<1> HIDE DEF C, S, F, W, V, M, U, N, list
<1>7. CostPerWord \in Nat /\ MinFee \in Nat
  BY SpendAssumption
<1>8. Total(F) = CostPerWord * Total(S)
  <2>1. /\ CostPerWord \in Nat /\ N \in Nat /\ S \in Seq(Nat) /\ F \in Seq(Nat)
        /\ Len(S) = N /\ Len(F) = N /\ \A i \in 1..N : F[i] = CostPerWord * S[i]
    BY <1>1, <1>4, <1>6, <1>7
  <2>2. ASSUME NEW c \in Nat, c = CostPerWord PROVE Total(F) = c * Total(S)
    <3>1. /\ c \in Nat /\ N \in Nat /\ S \in Seq(Nat) /\ F \in Seq(Nat)
          /\ Len(S) = N /\ Len(F) = N /\ \A i \in 1..N : F[i] = c * S[i]
      BY <2>1, <2>2
    <3> QED BY ONLY <3>1, TotalTimes
  <2> QED BY <1>7, <2>2
<1>9. Total(V) = q * words
  <2>1. \A i \in 1..N : W[i] \in Nat
    BY <1>3
  <2>2. \A i \in 1..N : V[i] = q * W[i]
    BY <1>4, <2>1, DividedPrice
  <2>3. /\ q \in Nat /\ N \in Nat /\ W \in Seq(Nat) /\ V \in Seq(Nat)
        /\ Len(W) = N /\ Len(V) = N /\ \A i \in 1..N : V[i] = q * W[i]
    BY <1>1, <1>6, <2>2
  <2> QED BY ONLY <2>3, TotalTimes
<1>10. Total(C) = Total(F) + Total(U) /\ Total(U) = Total(V) + missing
  <2>1. /\ N \in Nat /\ C \in Seq(Nat) /\ F \in Seq(Nat) /\ U \in Seq(Nat)
        /\ Len(C) = N /\ Len(F) = N /\ Len(U) = N /\ \A i \in 1..N : C[i] = F[i] + U[i]
    BY <1>1, <1>4, <1>6
  <2>2. /\ N \in Nat /\ U \in Seq(Nat) /\ V \in Seq(Nat) /\ M \in Seq(Nat)
        /\ Len(U) = N /\ Len(V) = N /\ Len(M) = N /\ \A i \in 1..N : U[i] = V[i] + M[i]
    BY <1>1, <1>4, <1>6
  <2>3. Total(C) = Total(F) + Total(U)
    BY ONLY <2>1, TotalSum
  <2>4. Total(U) = Total(V) + Total(M)
    BY ONLY <2>2, TotalSum
  <2> QED BY <2>3, <2>4
<1>11. seeds = Total(F)
  BY <1>5, <1>8 DEF SeedFee
<1>12. TotalCost(xs) = Total(C)
  BY Zenon DEF TotalCost, C, N
<1>13. xs # << >> => MinFee <= q * words
  <2> SUFFICES ASSUME xs # << >> PROVE MinFee <= q * words
    OBVIOUS
  <2>1. 1 \in 1..N
    BY <1>1, EmptySeq DEF N
  <2> DEFINE s == xs[1].sb
  <2>2. MinFee <= WitnessFee(s.witness.proofWords) /\ s \in Spends
    BY <1>1, <2>1 DEF AllPriced, Priced
  <2>3. V[1] = WitnessFee(WitnessWords(s))
    BY <2>1 DEF V
  <2> HIDE DEF s
  <2>4. s.witness.proofWords \in Nat /\ WitnessWords(s) \in Nat
        /\ s.witness.proofWords <= WitnessWords(s)
    <3>1. WitnessWords(s) \in Nat
      BY <2>2, WitnessWordsType
    <3>2. s.witness.proofWords \in Nat /\ s.witness.proofWords <= WitnessWords(s)
      BY <2>2, ProofWordsCount, Zenon
    <3> QED BY <3>1, <3>2
  <2>5. WitnessFee(s.witness.proofWords) <= WitnessFee(WitnessWords(s))
    <3>1. /\ WitnessFee(s.witness.proofWords) = q * s.witness.proofWords
          /\ WitnessFee(WitnessWords(s)) = q * WitnessWords(s)
      BY <2>4, DividedPrice
    <3>2. s.witness.proofWords * q <= WitnessWords(s) * q
      BY <2>4, ProductGrows
    <3>3. s.witness.proofWords * q = q * s.witness.proofWords
          /\ WitnessWords(s) * q = q * WitnessWords(s)
      BY <2>4, Z3
    <3> QED BY <3>1, <3>2, <3>3
  <2>6. V[1] <= Total(V)
    BY <1>6, <1>1, <2>1, OneOfTotal
  <2>7. WitnessFee(s.witness.proofWords) \in Nat /\ V[1] \in Nat
    BY <2>4, WitnessFeeType, <1>3, <2>1
  <2> QED BY <1>6, <1>7, <1>9, <2>2, <2>3, <2>5, <2>6, <2>7
<1> DEFINE a == seeds
           b == q * words
<1>14. a \in Nat /\ b \in Nat /\ missing \in Nat
       /\ CalcFee(xs) = LargerOf(LargerOf(a + b, MinFee) + missing, MinFee)
       /\ TotalCost(xs) = a + (b + missing)
       /\ (xs # << >> => MinFee <= b)
  BY <1>2, <1>9, <1>10, <1>11, <1>12, <1>13
<1> HIDE DEF a, b, words, missing, seeds
<1> QED BY <1>7, <1>14 DEF LargerOf

LEMMA ReplaceCost ==
  ASSUME NEW xs \in Seq(Entries), NEW i \in DOMAIN xs, NEW t \in Spends
  PROVE  LET ys == [xs EXCEPT ![i].sb = t]
         IN  /\ TotalCost(ys) + Cost(xs[i].sb) = TotalCost(xs) + Cost(t)
             /\ CurFee(ys) + xs[i].sb.fee = CurFee(xs) + t.fee
             /\ \A include : AllPriced(xs, include) /\ Priced(t, include) => AllPriced(ys, include)
             /\ ys \in Seq(Entries) /\ ys # << >> /\ xs # << >>
<1> DEFINE ys == [xs EXCEPT ![i].sb = t]
           N == Len(xs)
           C(zs) == [k \in 1..Len(zs) |-> Cost(zs[k].sb)]
           F(zs) == [k \in 1..Len(zs) |-> zs[k].sb.fee]
<1>1. /\ ys \in Seq(Entries) /\ Len(ys) = N /\ SameNames(xs, ys) /\ ys[i].sb = t
      /\ \A j \in DOMAIN xs : j # i => ys[j] = xs[j]
  BY ReplaceEffect
<1>2. N \in Nat /\ DOMAIN xs = 1..N
  BY EntryFields
<1> HIDE DEF ys
<1>3. /\ C(xs) \in Seq(Nat) /\ Len(C(xs)) = N /\ C(ys) \in Seq(Nat) /\ Len(C(ys)) = N
      /\ \A k \in 1..N : C(xs)[k] = Cost(xs[k].sb) /\ C(ys)[k] = Cost(ys[k].sb)
  BY <1>1, CostList
<1>4. ASSUME NEW zs \in Seq(Entries), Len(zs) = N
      PROVE  F(zs) \in Seq(Nat) /\ Len(F(zs)) = N
  <2>1. F(zs) = [k \in 1..N |-> zs[k].sb.fee] /\ \A k \in 1..N : zs[k].sb \in Spends
    BY <1>4, EntryFields
  <2>2. F(zs) \in [1..N -> Nat]
    BY <2>1, SpendFields
  <2> HIDE DEF F
  <2> QED BY <1>2, <2>2, ListTotalType
<1>5. F(xs) \in Seq(Nat) /\ Len(F(xs)) = N /\ F(ys) \in Seq(Nat) /\ Len(F(ys)) = N
  BY <1>1, <1>4
<1>6. \A k \in 1..N : F(xs)[k] = xs[k].sb.fee /\ F(ys)[k] = ys[k].sb.fee
  BY <1>1
<1> HIDE DEF C, F, N
<1>7. Total(C(ys)) + C(xs)[i] = Total(C(xs)) + C(ys)[i]
  <2>1. /\ N \in Nat /\ C(ys) \in Seq(Nat) /\ C(xs) \in Seq(Nat) /\ Len(C(ys)) = N
        /\ Len(C(xs)) = N /\ i \in 1..N /\ \A k \in 1..N : k # i => C(ys)[k] = C(xs)[k]
    BY <1>1, <1>2, <1>3
  <2> QED BY ONLY <2>1, TotalReplace
<1>8. Total(F(ys)) + F(xs)[i] = Total(F(xs)) + F(ys)[i]
  <2>1. /\ N \in Nat /\ F(ys) \in Seq(Nat) /\ F(xs) \in Seq(Nat) /\ Len(F(ys)) = N
        /\ Len(F(xs)) = N /\ i \in 1..N /\ \A k \in 1..N : k # i => F(ys)[k] = F(xs)[k]
    BY <1>1, <1>2, <1>5, <1>6
  <2> QED BY ONLY <2>1, TotalReplace
<1>9. /\ TotalCost(ys) = Total(C(ys)) /\ TotalCost(xs) = Total(C(xs))
      /\ CurFee(ys) = Total(F(ys)) /\ CurFee(xs) = Total(F(xs))
  BY Zenon DEF TotalCost, CurFee, C, F
<1>10. C(xs)[i] = Cost(xs[i].sb) /\ C(ys)[i] = Cost(t) /\ F(xs)[i] = xs[i].sb.fee /\ F(ys)[i] = t.fee
  BY <1>1, <1>2, <1>3, <1>6
<1>11. /\ TotalCost(ys) + Cost(xs[i].sb) = TotalCost(xs) + Cost(t)
       /\ CurFee(ys) + xs[i].sb.fee = CurFee(xs) + t.fee
  BY <1>7, <1>8, <1>9, <1>10
<1>12. ASSUME NEW include, AllPriced(xs, include), Priced(t, include) PROVE AllPriced(ys, include)
  BY <1>1, <1>12 DEF AllPriced, SameNames
<1>13. ys # << >> /\ xs # << >>
  BY <1>1, EmptySeq DEF SameNames
<1> QED BY <1>1, <1>11, <1>12, <1>13 DEF ys

LEMMA AppendCost ==
  ASSUME NEW xs \in Seq(Entries), NEW e \in Entries, e.name \notin NamesOf(xs)
  PROVE  LET ys == PutSpend(xs, e)
         IN  /\ TotalCost(ys) = TotalCost(xs) + Cost(e.sb)
             /\ CurFee(ys) = CurFee(xs) + e.sb.fee
             /\ ys \in Seq(Entries) /\ ys # << >>
<1> DEFINE ys == PutSpend(xs, e)
           N == Len(xs)
           C(zs) == [k \in 1..Len(zs) |-> Cost(zs[k].sb)]
           F(zs) == [k \in 1..Len(zs) |-> zs[k].sb.fee]
<1>1. ys = Append(xs, e)
  BY DEF PutSpend
<1>2. ys \in Seq(Entries) /\ Len(ys) = N + 1 /\ ys[N + 1] = e /\ N \in Nat
      /\ \A k \in 1..N : ys[k] = xs[k]
  BY <1>1, AppendProperties, LenProperties
<1> HIDE DEF ys
<1>3. /\ C(xs) \in Seq(Nat) /\ Len(C(xs)) = N /\ C(ys) \in Seq(Nat) /\ Len(C(ys)) = N + 1
      /\ \A k \in 1..N : C(xs)[k] = Cost(xs[k].sb)
      /\ \A k \in 1..(N + 1) : C(ys)[k] = Cost(ys[k].sb)
  BY <1>2, CostList
<1>4. ASSUME NEW zs \in Seq(Entries), NEW M \in Nat, Len(zs) = M
      PROVE  F(zs) \in Seq(Nat) /\ Len(F(zs)) = M
  <2>1. F(zs) = [k \in 1..M |-> zs[k].sb.fee] /\ \A k \in 1..M : zs[k].sb \in Spends
    BY <1>4, EntryFields
  <2>2. F(zs) \in [1..M -> Nat]
    BY <2>1, SpendFields
  <2> HIDE DEF F
  <2> QED BY <2>2, ListTotalType
<1>5. F(xs) \in Seq(Nat) /\ Len(F(xs)) = N /\ F(ys) \in Seq(Nat) /\ Len(F(ys)) = N + 1
  <2>1. N + 1 \in Nat
    BY <1>2
  <2> HIDE DEF N, F
  <2> QED BY <1>2, <1>4, <2>1 DEF N
<1>6. /\ \A k \in 1..N : F(xs)[k] = xs[k].sb.fee
      /\ \A k \in 1..(N + 1) : F(ys)[k] = ys[k].sb.fee
  BY <1>2
<1> HIDE DEF C, F, N
<1>7. N + 1 \in 1..(N + 1) /\ \A k \in 1..N : k \in 1..(N + 1)
  BY <1>2
<1>8. Total(C(ys)) = Total(C(xs)) + C(ys)[N + 1]
  <2>1. \A k \in 1..Len(C(xs)) : C(ys)[k] = C(xs)[k]
    BY <1>2, <1>3, <1>7
  <2> QED BY <1>3, <2>1, TotalLonger
<1>9. Total(F(ys)) = Total(F(xs)) + F(ys)[N + 1]
  <2>1. \A k \in 1..Len(F(xs)) : F(ys)[k] = F(xs)[k]
    BY <1>2, <1>5, <1>6, <1>7
  <2> QED BY <1>5, <2>1, TotalLonger
<1>10. /\ TotalCost(ys) = Total(C(ys)) /\ TotalCost(xs) = Total(C(xs))
       /\ CurFee(ys) = Total(F(ys)) /\ CurFee(xs) = Total(F(xs))
  BY Zenon DEF TotalCost, CurFee, C, F
<1>11. C(ys)[N + 1] = Cost(e.sb) /\ F(ys)[N + 1] = e.sb.fee
  BY <1>2, <1>3, <1>6, <1>7
<1>12. ys # << >>
  BY <1>2, EmptySeq
<1> QED BY <1>2, <1>8, <1>9, <1>10, <1>11, <1>12 DEF ys

LEMMA MembersPriced ==
  ASSUME NEW xs, NEW ys, NEW include, AllPriced(xs, include), Range(ys) \subseteq Range(xs)
  PROVE  AllPriced(ys, include)
BY DEF AllPriced, Range

LEMMA OneMorePriced ==
  ASSUME NEW xs, NEW ys, NEW e, NEW include, AllPriced(xs, include), Priced(e.sb, include),
         Range(ys) \subseteq Range(xs) \cup {e}
  PROVE  AllPriced(ys, include)
BY DEF AllPriced, Range

(* The fee is changed, and with it the refund.                             *)
LEMMA FeeChangePriced ==
  ASSUME NEW s \in Spends, NEW include \in BOOLEAN, NEW fee \in Nat,
         s.refund # NoLock, Priced(s, include)
  PROVE  Priced(FeeChanged(s, fee, include), include)
<1> DEFINE r == SetFee(s, fee)
<1>1. /\ r \in Spends /\ r.refund = s.refund /\ r.seeds = s.seeds
      /\ SameUnlocking(s, r)
  BY SetFeeType, SetFeeFields, SetFeeUnlocking
<1> HIDE DEF r
<1>2. Priced(r, include)
  BY <1>1 DEF Priced, SameUnlocking
<1>3. Priced(ComputeRefund(r, include), include)
  BY <1>1, <1>2, RefundWordsFit, Zenon
<1> QED BY <1>3 DEF FeeChanged, r

LEMMA PreimagePriced ==
  ASSUME NEW s \in Spends, NEW d, NEW include, Priced(s, include)
  PROVE  Priced(AddPreimage(s, d), include)
<1>1. /\ AddPreimage(s, d).refund = s.refund /\ AddPreimage(s, d).seeds = s.seeds
      /\ AddPreimage(s, d).witness.prims = s.witness.prims
      /\ AddPreimage(s, d).witness.proofWords = s.witness.proofWords
  BY DEF AddPreimage, Spends, Witnesses
<1> QED BY <1>1 DEF Priced

LEMMA SignaturePriced ==
  ASSUME NEW s \in Spends, NEW pkh, NEW content, NEW include, Priced(s, include)
  PROVE  Priced(PushPkhSignature(s, pkh, content), include)
<1> DEFINE t == PushPkhSignature(s, pkh, content)
<1>1. /\ t.refund = s.refund /\ t.seeds = s.seeds
      /\ t.witness.prims = s.witness.prims
      /\ t.witness.proofWords = s.witness.proofWords
  BY DEF PushPkhSignature, Spends, Witnesses
<1> HIDE DEF t
<1>2. Priced(t, include)
  BY <1>1 DEF Priced
<1> QED BY <1>2 DEF t

(* The entry a note of a payment becomes.                                  *)
FloorPaid(w) == MinFee <= WitnessFee(w.proofWords) /\ KeysApart(w.prims)

LEMMA PaidNotePriced ==
  ASSUME NEW order \in Orders, NEW note \in Notes, NEW portion \in Nat, FloorPaid(note.witness)
  PROVE  LET new == NewSpend(note.assets, order.refund, note.witness)
             seed == BuildSeed(order.to, portion, order.include, order.extras)
             giving == AddSeed(new, seed)
         IN  /\ Priced(ComputeRefund(giving, order.include), order.include)
             /\ Priced(ComputeRefund(new, order.include), order.include)
<1> DEFINE new == NewSpend(note.assets, order.refund, note.witness)
           seed == BuildSeed(order.to, portion, order.include, order.extras)
           giving == AddSeed(new, seed)
<1>1. /\ order.to \in Locks \ HashedLocks /\ order.refund \in Locks \ HashedLocks
      /\ order.include \in BOOLEAN /\ order.extras \in NoteDatas
  BY OrderFields
<1>2. note.assets \in Nat /\ note.witness \in Witnesses
  BY DEF Notes, FreshWitnesses
<1>3. new \in Spends /\ new.seeds = << >> /\ new.refund = order.refund /\ new.witness = note.witness
  BY <1>1, <1>2, NewSpendType DEF NewSpend
<1>4. seed \in Seeds /\ seed.lock = order.to
      /\ LeastWords(order.to, order.include) <= NoteDataWords(seed.data)
  <2>1. seed \in Seeds
    BY <1>1, BuildSeedType
  <2>2. LeastWords(order.to, order.include)
          <= NoteDataWords(SeedData(order.to, order.include, order.extras))
    BY <1>1, LeastWordsType
  <2> QED BY <2>1, <2>2 DEF BuildSeed
<1> HIDE DEF new, seed
<1>5. giving \in Spends /\ giving.refund = order.refund
      /\ giving.witness.prims = note.witness.prims
      /\ giving.witness.proofWords = note.witness.proofWords
      /\ giving.seeds = Append(<< >>, seed)
  <2>1. giving \in Spends
    BY <1>3, <1>4, AddSeedType
  <2> QED BY <1>3, <2>1 DEF AddSeed, InvalidateSigs, Spends, Witnesses
<1> HIDE DEF giving
<1>6. DOMAIN giving.seeds = {1} /\ giving.seeds[1] = seed
  <2>1. << >> \in Seq(Seeds) /\ Len(<< >>) = 0
    BY EmptySeq
  <2>2. Append(<< >>, seed) \in Seq(Seeds) /\ Len(Append(<< >>, seed)) = 1
        /\ Append(<< >>, seed)[1] = seed
    BY <1>4, <2>1, AppendProperties
  <2>3. 1..1 = {1}
    OBVIOUS
  <2> QED BY <1>5, <2>2, <2>3, LenProperties
<1>7. Priced(giving, order.include) /\ Priced(new, order.include)
  <2>1. DOMAIN new.seeds = {}
    BY <1>3, EmptySeq
  <2>2. Priced(new, order.include)
    BY <1>3, <2>1 DEF Priced, FloorPaid
  <2>3. \A i \in DOMAIN giving.seeds :
          giving.seeds[i].lock = giving.refund
          => LeastWords(giving.refund, order.include) <= NoteDataWords(giving.seeds[i].data)
    BY <1>4, <1>5, <1>6
  <2>4. Priced(giving, order.include)
    BY <1>5, <2>3 DEF Priced, FloorPaid
  <2> QED BY <2>2, <2>4
<1>8. giving.refund # NoLock /\ new.refund # NoLock
  BY <1>1, <1>3, <1>5, SpendAssumption
<1>9. /\ Priced(ComputeRefund(giving, order.include), order.include)
      /\ Priced(ComputeRefund(new, order.include), order.include)
  BY <1>1, <1>3, <1>5, <1>7, <1>8, RefundWordsFit, Zenon
<1> QED BY <1>9 DEF giving, new, seed

(* What the theorems ask of the fee rules and of the notes.                *)
PlainPrices ==
  /\ EnginePatch = 0 /\ PriceDivides
  /\ \A order \in SimpleSpends : \A i \in DOMAIN order.notes : FloorPaid(order.notes[i].witness)

(* And of the calls: refunds are all made with lock data or all without,   *)
(* and no fee of the caller's own is raised as if it had been computed.    *)
ComputedFees(b) ==
  /\ b \in BOOLEAN /\ PlainPrices
  /\ Includes \subseteq {b} /\ AdjustFees \subseteq {FALSE}
  /\ \A order \in SimpleSpends : order.include = b
  /\ \A e \in Additions : Priced(e.sb, b)

JobPriced(j, sp, b) ==
  /\ j.op = "base" => /\ j.order.include = b
                      /\ \A i \in DOMAIN j.notes : FloorPaid(j.notes[i].witness)
  /\ j.op \in {"raise", "pool", "lower"} => j.include = b
  /\ j.op \in {"raise", "pool"} /\ j.adjust => CalcFee(sp) <= CurFee(sp) + j.left

PriceInv(b) == AllPriced(spends, b) /\ AllPriced(pool, b) /\ JobPriced(job, spends, b)

LEMMA FinishPriced ==
  ASSUME NEW b, NEW outcome, Finish(outcome)
  PROVE  JobPriced(job', spends', b)
BY DEF Finish, Idle, JobPriced

(* A fee job begins with what is missing.                                  *)
LEMMA SetFeeCallPriced ==
  ASSUME NEW b, NEW order, NEW target \in Nat, NEW adjust \in BOOLEAN,
         spends' \in Seq(Entries), adjust => target = CalcFee(spends'),
         SetFeeAndBalanceRefund(spends', order, target, adjust, b)
  PROVE  JobPriced(job', spends', b)
<1> DEFINE cur == CurFee(spends')
<1>1. CASE cur = target
  <2>1. Finish("ok")
    BY <1>1 DEF SetFeeAndBalanceRefund
  <2> QED BY <2>1, FinishPriced
<1>2. CASE cur # target
  <2>1. job' = SetFeeJob(spends', order, target, adjust, b)
    BY <1>2 DEF SetFeeAndBalanceRefund
  <2>2. /\ job'.op = (IF cur < target THEN "raise" ELSE "lower")
        /\ job'.left = (IF cur < target THEN target - cur ELSE cur - target)
        /\ job'.adjust = adjust /\ job'.include = b
    BY <2>1 DEF SetFeeJob
  <2>3. cur \in Nat
    BY CurFeeType
  <2> HIDE DEF cur
  <2>4. ASSUME job'.op \in {"raise", "pool"}, job'.adjust
        PROVE  CalcFee(spends') <= cur + job'.left
    BY <2>2, <2>3, <2>4
  <2> QED BY <2>2, <2>4 DEF JobPriced, cur
<1> QED BY <1>1, <1>2

LEMMA SimpleSpendPriced ==
  ASSUME NEW b, PlainPrices, PriceInv(b),
         NEW order \in SimpleSpends, order.include = b, SimpleSpend(order)
  PROVE  PriceInv(b)'
<1>1. spends' = spends /\ pool' = pool
  BY DEF SimpleSpend
<1>2. CASE order.gift = 0
  <2>1. Finish("Cannot create a transaction with zero gift")
    BY <1>2 DEF SimpleSpend
  <2>2. JobPriced(job', spends', b)
    BY <2>1, FinishPriced
  <2> QED BY <1>1, <2>2 DEF PriceInv
<1>3. CASE order.gift # 0
  <2>1. job' = [op |-> "base", order |-> order, notes |-> order.notes, left |-> order.gift]
    BY <1>3 DEF SimpleSpend
  <2>2. job'.op = "base" /\ job'.order = order /\ job'.notes = order.notes
    BY <2>1
  <2>3. JobPriced(job', spends', b)
    BY <2>2 DEF JobPriced, PlainPrices
  <2> QED BY <1>1, <2>3 DEF PriceInv
<1> QED BY <1>2, <1>3

LEMMA BaseStepPriced ==
  ASSUME NEW b, IInv, PriceInv(b), BaseStep
  PROVE  PriceInv(b)'
<1> DEFINE order == job.order
           note == Head(job.notes)
           portion == SmallerOf(job.left, note.assets)
           new == NewSpend(note.assets, order.refund, note.witness)
           giving == AddSeed(new, BuildSeed(order.to, portion, order.include, order.extras))
           Entry(s) == [name |-> note.name, sb |-> ComputeRefund(s, order.include)]
           next == [job EXCEPT !.notes = Tail(@), !.left = @ - portion]
<1>1. /\ job \in BaseJobs /\ job.op = "base" /\ job.notes # << >>
      /\ spends \in Seq(Entries) /\ pool \in Seq(Entries)
  <2>1. job \in BaseJobs \cup FeeJobs \cup {Idle}
    BY DEF IInv, JobFits
  <2> QED BY <2>1, JobKinds DEF BaseStep, IInv, Holds
<1>2. order \in Orders /\ job.notes \in Seq(Notes) /\ job.left \in Nat
  BY <1>1 DEF BaseJobs
<1>3. note \in Notes /\ note.name \in Names /\ note.assets \in Nat
  BY <1>1, <1>2, FirstNote DEF Notes
<1>4. portion \in Nat /\ portion <= note.assets
  BY <1>2, <1>3 DEF SmallerOf
<1>5. /\ order.include = b
      /\ \A i \in DOMAIN job.notes : FloorPaid(job.notes[i].witness)
  BY <1>1 DEF PriceInv, JobPriced
<1>6. /\ Tail(job.notes) \in Seq(Notes) /\ 1 \in DOMAIN job.notes /\ note = job.notes[1]
      /\ \A i \in DOMAIN Tail(job.notes) : i + 1 \in DOMAIN job.notes
                                           /\ Tail(job.notes)[i] = job.notes[i + 1]
  <2> DEFINE N == Len(job.notes)
             rest == Tail(job.notes)
  <2>1. N \in Nat /\ DOMAIN job.notes = 1..N /\ N # 0 /\ note = job.notes[1]
    BY <1>1, <1>2, LenProperties, EmptySeq
  <2>2. rest \in Seq(Notes) /\ Len(rest) = N - 1
        /\ \A i \in 1..Len(rest) : rest[i] = job.notes[i + 1]
    BY <1>1, <1>2, HeadTailProperties
  <2>3. DOMAIN rest = 1..(N - 1)
    BY <2>2, LenProperties
  <2>4. \A i \in 1..(N - 1) : i + 1 \in 1..N
    BY <2>1
  <2> HIDE DEF N, rest
  <2> QED BY <2>1, <2>2, <2>3, <2>4 DEF rest
<1>7. FloorPaid(note.witness)
  BY <1>5, <1>6
<1>8. /\ Priced(ComputeRefund(giving, order.include), order.include)
      /\ Priced(ComputeRefund(new, order.include), order.include)
  <2> HIDE DEF order, note, portion
  <2> QED BY <1>2, <1>3, <1>4, <1>7, PaidNotePriced
<1>9. /\ ComputeRefund(giving, order.include) \in Spends
      /\ ComputeRefund(new, order.include) \in Spends
  <2> HIDE DEF order, note, portion
  <2> QED BY <1>2, <1>3, <1>4, PaidNote
<1>10. /\ Entry(giving) \in Entries /\ Entry(new) \in Entries
       /\ Priced(Entry(giving).sb, b) /\ Priced(Entry(new).sb, b)
  <2> HIDE DEF giving, new, note
  <2> QED BY <1>3, <1>5, <1>8, <1>9 DEF Entries
<1>11. next.op = "base" /\ next.order = order /\ next.notes = Tail(job.notes)
  BY <1>1 DEF BaseJobs
<1>12. JobPriced(next, spends', b)
  <2>1. \A i \in DOMAIN Tail(job.notes) : FloorPaid(Tail(job.notes)[i].witness)
    BY <1>5, <1>6
  <2> HIDE DEF next
  <2> QED BY <1>5, <1>11, <2>1 DEF JobPriced
<1>13. CASE note.name \in V0Names
  <2>1. Finish("V0 notes not supported") /\ spends' = spends /\ pool' = pool
    BY <1>13 DEF BaseStep
  <2>2. JobPriced(job', spends', b)
    BY <2>1, FinishPriced
  <2> QED BY <2>1, <2>2 DEF PriceInv
<1>14. CASE note.name \notin V0Names
  <2>1. /\ job' = next
        /\ \/ spends' = PutSpend(spends, Entry(giving)) /\ pool' = pool
           \/ pool' = Append(pool, Entry(new)) /\ spends' = spends
    BY <1>14 DEF BaseStep
  <2> HIDE DEF Entry, next, note, giving, new
  <2>2. AllPriced(spends', b) /\ AllPriced(pool', b)
    <3>1. AllPriced(spends, b) /\ AllPriced(pool, b)
      BY DEF PriceInv
    <3>2. CASE spends' = PutSpend(spends, Entry(giving)) /\ pool' = pool
      <4>1. Range(PutSpend(spends, Entry(giving))) \subseteq Range(spends) \cup {Entry(giving)}
        BY <1>1, <1>10, PutSpendEffect
      <4> QED BY <1>10, <3>1, <3>2, <4>1, OneMorePriced
    <3>3. CASE pool' = Append(pool, Entry(new)) /\ spends' = spends
      <4>1. Range(Append(pool, Entry(new))) = Range(pool) \cup {Entry(new)}
        BY <1>1, <1>10, AppendEntry
      <4> QED BY <1>10, <3>1, <3>3, <4>1, OneMorePriced
    <3> QED BY <2>1, <3>2, <3>3
  <2> QED BY <1>12, <2>1, <2>2 DEF PriceInv
<1> QED BY <1>13, <1>14

LEMMA PreimagesPriced ==
  ASSUME NEW xs \in Seq(Entries), NEW d, NEW b, AllPriced(xs, b)
  PROVE  AllPriced(AddPreimageToAll(xs, d), b)
<1> DEFINE new == AddPreimageToAll(xs, d)
<1>1. DOMAIN new = DOMAIN xs
  BY DEF AddPreimageToAll
<1>2. ASSUME NEW i \in DOMAIN xs PROVE Priced(new[i].sb, b)
  <2>1. new[i].sb = AddPreimage(xs[i].sb, d) /\ xs[i].sb \in Spends
    BY <1>2, EntryFields DEF AddPreimageToAll, Entries
  <2>2. Priced(xs[i].sb, b)
    BY <1>2 DEF AllPriced
  <2>3. Priced(AddPreimage(xs[i].sb, d), b)
    BY <2>1, <2>2, PreimagePriced
  <2> QED BY <2>1, <2>3
<1> HIDE DEF new
<1>3. AllPriced(new, b)
  BY <1>1, <1>2 DEF AllPriced
<1> QED BY <1>3 DEF new

LEMMA BaseEndPriced ==
  ASSUME NEW b, IInv, PriceInv(b), BaseEnd
  PROVE  PriceInv(b)'
<1> DEFINE order == job.order
           unlocked == IF order.preimage = NoPreimage THEN spends
                       ELSE AddPreimageToAll(spends, order.preimage)
<1>1. /\ job.op = "base" /\ pool' = pool /\ job \in BaseJobs /\ spends \in Seq(Entries)
      /\ Holds(spends, pool)
  <2>1. job \in BaseJobs \cup FeeJobs \cup {Idle}
    BY DEF IInv, JobFits
  <2> QED BY <2>1, JobKinds DEF BaseEnd, IInv, Holds
<1>2. /\ order.preimage \in Digests \cup {NoPreimage} /\ order.include = b
      /\ order.override \in Nat \cup {NoOverride}
  <2>1. order \in Orders
    BY <1>1 DEF BaseJobs
  <2> QED BY <1>1, <2>1, OrderFields DEF PriceInv, JobPriced
<1>3. unlocked \in Seq(Entries) /\ AllPriced(unlocked, b)
  <2>1. Holds(unlocked, pool)
    BY <1>1, <1>2, PreimagesHold
  <2>2. AllPriced(spends, b)
    BY DEF PriceInv
  <2>3. AllPriced(AddPreimageToAll(spends, order.preimage), b)
    BY <1>1, <2>2, PreimagesPriced
  <2> QED BY <2>1, <2>2, <2>3 DEF Holds
<1> HIDE DEF order, unlocked
<1>4. CASE spends' = spends /\ (\/ Finish("Insufficient funds to pay fee and gift")
                               \/ Finish("preimage does not match any spend condition hax unlock"))
  <2>1. JobPriced(job', spends', b)
    BY <1>4, FinishPriced
  <2> QED BY <1>1, <1>4, <2>1 DEF PriceInv
<1>5. CASE /\ spends' = unlocked
           /\ \/ /\ order.override = NoOverride
                 /\ SetFeeAndBalanceRefund(unlocked, order, CalcFee(unlocked), TRUE, order.include)
              \/ /\ order.override # NoOverride
                 /\ SetFeeAndBalanceRefund(unlocked, order, order.override, FALSE, order.include)
  <2>1. PICK target \in Nat, adjust \in BOOLEAN :
          /\ adjust => target = CalcFee(unlocked)
          /\ SetFeeAndBalanceRefund(unlocked, order, target, adjust, b)
    <3>1. CalcFee(unlocked) \in Nat
      BY <1>3, CalcFeeType
    <3> QED BY <1>2, <1>5, <3>1
  <2>2. /\ spends' \in Seq(Entries)
        /\ target \in Nat /\ adjust \in BOOLEAN /\ (adjust => target = CalcFee(spends'))
        /\ SetFeeAndBalanceRefund(spends', order, target, adjust, b)
    BY <1>3, <1>5, <2>1
  <2>3. JobPriced(job', spends', b)
    BY ONLY <2>2, SetFeeCallPriced
  <2>4. AllPriced(spends', b)
    BY <1>3, <1>5
  <2> QED BY <1>1, <2>3, <2>4 DEF PriceInv
<1>6. QED
  BY <1>4, <1>5 DEF BaseEnd, order, unlocked

LEMMA SetFeeToPriced ==
  ASSUME NEW b, IInv, PriceInv(b), NEW target \in Nat, NEW adjust \in BOOLEAN,
         adjust => target = CalcFee(spends), SetFeeTo(target, adjust, b)
  PROVE  PriceInv(b)'
<1>1. /\ spends' = spends /\ pool' = pool /\ spends \in Seq(Entries)
      /\ SetFeeAndBalanceRefund(spends, NoOrder, target, adjust, b)
  BY DEF SetFeeTo, IInv, Holds
<1>2. JobPriced(job', spends', b)
  BY <1>1, SetFeeCallPriced
<1> QED BY <1>1, <1>2 DEF PriceInv

(* A call that ends at once.                                               *)
LEMMA ShortCallPriced ==
  ASSUME NEW b, PriceInv(b), NEW outcome, Finish(outcome), pool' = pool, AllPriced(spends', b)
  PROVE  PriceInv(b)'
<1>1. JobPriced(job', spends', b)
  BY FinishPriced
<1> QED BY <1>1 DEF PriceInv

LEMMA AddSpendPriced ==
  ASSUME NEW b, ComputedFees(b), IInv, PriceInv(b), NEW e \in Additions, AddSpend(e)
  PROVE  PriceInv(b)'
<1>1. /\ spends' = PutSpend(spends, e) /\ pool' = pool /\ Finish("ok")
      /\ spends \in Seq(Entries) /\ e \in Entries /\ AllPriced(spends, b) /\ Priced(e.sb, b)
  BY TxBuilderAssumption DEF AddSpend, IInv, Holds, PriceInv, ComputedFees
<1>2. Range(PutSpend(spends, e)) \subseteq Range(spends) \cup {e}
  BY <1>1, PutSpendEffect
<1>3. AllPriced(spends', b)
  BY <1>1, <1>2, OneMorePriced
<1> QED BY <1>1, <1>3, ShortCallPriced

LEMMA AddPreimageCallPriced ==
  ASSUME NEW b, IInv, PriceInv(b), NEW d \in Digests, AddPreimageCall(d)
  PROVE  PriceInv(b)'
<1>1. /\ spends' = AddPreimageToAll(spends, d) /\ pool' = pool
      /\ spends \in Seq(Entries) /\ AllPriced(spends, b)
  BY DEF AddPreimageCall, IInv, Holds, PriceInv
<1>2. PICK outcome : Finish(outcome)
  BY DEF AddPreimageCall
<1>3. AllPriced(spends', b)
  BY <1>1, PreimagesPriced
<1> QED BY <1>1, <1>2, <1>3, ShortCallPriced

LEMMA SignAllPriced ==
  ASSUME NEW b, IInv, PriceInv(b), NEW pkh \in Pkhs, SignAll(pkh)
  PROVE  PriceInv(b)'
<1> DEFINE new == [i \in DOMAIN spends |->
                     IF ListedIn(spends[i].sb.witness.prims, pkh)
                     THEN [spends[i] EXCEPT !.sb = PushPkhSignature(@, pkh, SigHash(@))]
                     ELSE spends[i]]
<1>1. /\ spends' = new /\ pool' = pool /\ Finish("ok")
      /\ spends \in Seq(Entries) /\ AllPriced(spends, b)
  BY DEF SignAll, IInv, Holds, PriceInv
<1>2. DOMAIN new = DOMAIN spends
  OBVIOUS
<1>3. ASSUME NEW i \in DOMAIN spends PROVE Priced(new[i].sb, b)
  <2> DEFINE s == spends[i].sb
             t == PushPkhSignature(s, pkh, SigHash(s))
  <2>1. s \in Spends /\ Priced(s, b) /\ spends[i] \in Entries
    BY <1>1, <1>3, EntryFields DEF AllPriced
  <2>2. new[i].sb = s \/ new[i].sb = t
    BY <1>3, <2>1 DEF Entries
  <2>3. Priced(t, b)
    <3> HIDE DEF s
    <3> QED BY <2>1, SignaturePriced
  <2> HIDE DEF s, t, new
  <2> QED BY <2>1, <2>2, <2>3
<1> HIDE DEF new
<1>4. AllPriced(spends', b)
  BY <1>1, <1>2, <1>3 DEF AllPriced
<1> QED BY <1>1, <1>4, ShortCallPriced

LEMMA ValidatePriced ==
  ASSUME NEW b, PriceInv(b), Validate
  PROVE  PriceInv(b)'
<1>1. spends' = spends /\ pool' = pool
  BY DEF Validate
<1>2. PICK outcome : Finish(outcome)
  BY Zenon DEF Validate
<1>3. AllPriced(spends', b)
  BY <1>1 DEF PriceInv
<1> QED BY <1>1, <1>2, <1>3, ShortCallPriced

LEMMA FeeJobPriced ==
  ASSUME NEW b, IInv, PriceInv(b), job.op \in {"raise", "pool", "lower"}
  PROVE  /\ job \in FeeJobs /\ job.left \in Nat /\ job.include = b /\ job.adjust \in BOOLEAN
         /\ spends \in Seq(Entries) /\ pool \in Seq(Entries)
         /\ AllPriced(spends, b) /\ AllPriced(pool, b)
         /\ CurFee(spends) \in Nat /\ CalcFee(spends) \in Nat
<1>1. spends \in Seq(Entries) /\ pool \in Seq(Entries)
  BY DEF IInv, Holds
<1>2. job \in FeeJobs
  BY JobOfStep
<1> QED BY <1>1, <1>2, FeeJobFields, CurFeeType, CalcFeeType DEF PriceInv, JobPriced

LEMMA RaiseStepPriced ==
  ASSUME NEW b \in BOOLEAN, PlainPrices, IInv, PriceInv(b), NEW i \in DOMAIN spends, RaiseStep(i)
  PROVE  PriceInv(b)'
<1> DEFINE s == spends[i].sb
           name == spends[i].name
           sub == TakenFromRefund(s, job.left)
           paid == FeeChanged(s, s.fee + sub, job.include)
           dropped == CostPerWord * NoteDataWords(CurRefund(s).data)
           rebate == IF job.adjust /\ ~ HasRefund(paid)
                     THEN SmallerOf(job.left - sub, dropped) ELSE 0
           next == [job EXCEPT !.todo = @ \ {name}, !.left = @ - sub - rebate]
           skip == [job EXCEPT !.todo = @ \ {name}]
           new == [spends EXCEPT ![i].sb = paid]
<1>1. /\ job.op = "raise" /\ pool' = pool
      /\ job \in FeeJobs /\ job.left \in Nat /\ job.include = b /\ job.adjust \in BOOLEAN
      /\ spends \in Seq(Entries) /\ AllPriced(spends, b) /\ AllPriced(pool, b)
      /\ CurFee(spends) \in Nat /\ CalcFee(spends) \in Nat
      /\ b \in BOOLEAN /\ EnginePatch = 0
      /\ (job.adjust => CalcFee(spends) <= CurFee(spends) + job.left)
  <2>1. job.op = "raise" /\ pool' = pool
    BY DEF RaiseStep
  <2> QED BY <2>1, FeeJobPriced DEF PlainPrices, PriceInv, JobPriced
<1>2. PICK q \in Nat : CostPerWord = q * WitnessWordDiv
  BY DEF PlainPrices, PriceDivides
<1>3. s \in Spends /\ s.fee \in Nat /\ HasRefund(s) /\ Priced(s, b)
  <2>1. name \in job.todo
    BY DEF RaiseStep, RaiseNext, Todo
  <2>2. HasRefund(s)
    BY <1>1, <2>1 DEF IInv, JobFits
  <2> QED BY <1>1, <2>2, EntryFields, SpendFields DEF AllPriced
<1>4. sub \in Nat /\ sub <= job.left
  BY <1>1, <1>3, TakenType
<1>5. /\ paid \in Spends /\ Priced(paid, b) /\ paid.fee = s.fee + sub
      /\ Cost(paid) <= Cost(s)
      /\ ~ HasRefund(paid) => dropped \in Nat /\ Cost(paid) + dropped <= Cost(s)
  <2>1. s.fee + sub \in Nat
    BY <1>3, <1>4
  <2> DEFINE fee == s.fee + sub
  <2> HIDE DEF fee, s
  <2>2. FeeChanged(s, fee, b) \in Spends
    BY <1>1, <1>3, <2>1, FeeChangedType DEF fee
  <2>3. /\ q \in Nat /\ CostPerWord = q * WitnessWordDiv
        /\ s \in Spends /\ b \in BOOLEAN /\ fee \in Nat /\ HasRefund(s) /\ Priced(s, b)
    BY <1>1, <1>2, <1>3, <2>1 DEF fee
  <2>4. /\ Priced(FeeChanged(s, fee, b), b) /\ FeeChanged(s, fee, b).fee = fee
        /\ Cost(FeeChanged(s, fee, b)) <= Cost(s)
        /\ ~ HasRefund(FeeChanged(s, fee, b)) =>
             dropped \in Nat /\ Cost(FeeChanged(s, fee, b)) + dropped <= Cost(s)
    BY ONLY <2>3, FeeChangeCost, Zenon DEF s, dropped
  <2>5. paid = FeeChanged(s, fee, b)
    BY <1>1 DEF fee
  <2> HIDE DEF paid, dropped, sub
  <2> QED BY <2>2, <2>4, <2>5 DEF fee
<1>6. Cost(s) \in Nat /\ Cost(paid) \in Nat
  BY <1>3, <1>5, CostType
<1>7. rebate \in Nat /\ rebate <= job.left - sub /\ Cost(paid) + rebate <= Cost(s)
  <2>1. CASE ~ (job.adjust /\ ~ HasRefund(paid))
    <3>1. rebate = 0
      BY <2>1
    <3> HIDE DEF rebate, paid, s, sub
    <3> QED BY <1>1, <1>4, <1>5, <1>6, <3>1
  <2>2. CASE job.adjust /\ ~ HasRefund(paid)
    <3>1. rebate = SmallerOf(job.left - sub, dropped)
      BY <2>2
    <3> HIDE DEF rebate, paid, s, sub, dropped
    <3> QED BY <1>1, <1>4, <1>5, <1>6, <2>2, <3>1, SMTT(30) DEF SmallerOf
  <2> QED BY <2>1, <2>2
<1>8. /\ TotalCost(new) + Cost(s) = TotalCost(spends) + Cost(paid)
      /\ CurFee(new) + s.fee = CurFee(spends) + paid.fee
      /\ AllPriced(new, b) /\ new \in Seq(Entries) /\ new # << >> /\ spends # << >>
  <2>1. spends \in Seq(Entries) /\ i \in DOMAIN spends /\ paid \in Spends
    BY <1>1, <1>5
  <2> HIDE DEF paid
  <2>2. /\ TotalCost(new) + Cost(s) = TotalCost(spends) + Cost(paid)
        /\ CurFee(new) + s.fee = CurFee(spends) + paid.fee
        /\ \A include : AllPriced(spends, include) /\ Priced(paid, include)
                         => AllPriced(new, include)
        /\ new \in Seq(Entries) /\ new # << >> /\ spends # << >>
    BY ONLY <2>1, ReplaceCost, Zenon
  <2> HIDE DEF new, s
  <2> QED BY <1>1, <1>5, <2>2
<1> HIDE DEF sub, rebate, paid, new
<1>9. /\ next.op = "raise" /\ next.adjust = job.adjust /\ next.include = b
      /\ next.left = job.left - sub - rebate
      /\ skip.op = "raise" /\ skip.adjust = job.adjust /\ skip.include = b /\ skip.left = job.left
  BY <1>1 DEF FeeJobs
<1> HIDE DEF next, skip
<1>10. CASE sub = 0
  <2>1. job' = skip /\ spends' = spends
    BY <1>10 DEF RaiseStep, sub, skip
  <2>2. JobPriced(skip, spends, b)
    BY <1>1, <1>9 DEF JobPriced
  <2> QED BY <1>1, <2>1, <2>2 DEF PriceInv
<1>11. CASE sub # 0
  <2>1. spends' = new /\ (Finish(LockIsHash) \/ job' = next)
    BY <1>11 DEF RaiseStep, sub, new, paid, rebate, next
  <2>2. CASE Finish(LockIsHash)
    <3>1. JobPriced(job', spends', b)
      BY <2>2, FinishPriced
    <3> QED BY <1>1, <1>8, <2>1, <3>1 DEF PriceInv
  <2>3. CASE job' = next
    <3>1. CalcFee(new) = TotalCost(new) /\ CalcFee(spends) = TotalCost(spends)
          /\ TotalCost(new) \in Nat /\ TotalCost(spends) \in Nat
      BY <1>1, <1>2, <1>8, CostOfList
    <3>2. CurFee(new) \in Nat
      BY <1>8, CurFeeType
    <3>3. ASSUME job.adjust PROVE CalcFee(new) <= CurFee(new) + next.left
      <4> DEFINE x == Cost(s)
                 y == Cost(paid)
                 f == s.fee
                 c == CurFee(spends)
                 d == CurFee(new)
                 u == TotalCost(spends)
                 v == TotalCost(new)
                 left == job.left
      <4>1. /\ x \in Nat /\ y \in Nat /\ f \in Nat /\ sub \in Nat /\ rebate \in Nat
            /\ c \in Nat /\ d \in Nat /\ u \in Nat /\ v \in Nat /\ left \in Nat
            /\ y + rebate <= x /\ d + f = c + (f + sub) /\ v + x = u + y /\ u <= c + left
        <5>1. u <= c + left
          BY <1>1, <3>1, <3>3
        <5>2. d + f = c + (f + sub)
          BY <1>5, <1>8
        <5> QED BY <1>1, <1>3, <1>4, <1>6, <1>7, <1>8, <3>1, <3>2, <5>1, <5>2
      <4>2. CalcFee(new) = v /\ next.left = left - sub - rebate
        BY <1>9, <3>1
      <4> HIDE DEF x, y, f, c, d, u, v, left
      <4>3. v <= d + (left - sub - rebate)
        BY <4>1
      <4> QED BY <4>2, <4>3 DEF d
    <3>4. JobPriced(next, new, b)
      BY <1>9, <3>3 DEF JobPriced
    <3> QED BY <1>1, <1>8, <2>1, <2>3, <3>4 DEF PriceInv
  <2> QED BY <2>1, <2>2, <2>3
<1> QED BY <1>10, <1>11

LEMMA RaiseEndPriced ==
  ASSUME NEW b, IInv, PriceInv(b), RaiseEnd
  PROVE  PriceInv(b)'
<1>1. job.op = "raise" /\ job' = [job EXCEPT !.op = "pool"] /\ spends' = spends /\ pool' = pool
  BY DEF RaiseEnd
<1>2. job \in FeeJobs
  BY <1>1, JobOfStep
<1>3. job'.op = "pool" /\ job'.left = job.left /\ job'.adjust = job.adjust
      /\ job'.include = job.include
  BY <1>1, <1>2 DEF FeeJobs
<1>4. JobPriced(job', spends', b)
  BY <1>1, <1>3 DEF PriceInv, JobPriced
<1> QED BY <1>1, <1>4 DEF PriceInv

(* A note of the pool brings the cost of spending it with it.              *)
LEMMA PoolStepPriced ==
  ASSUME NEW b \in BOOLEAN, PlainPrices, IInv, PriceInv(b), NEW i \in DOMAIN pool, PoolStep(i)
  PROVE  PriceInv(b)'
<1> DEFINE s == pool[i].sb
           name == pool[i].name
           r == ComputeRefund(s, job.include)
           lock == r.refund
           merged == EnginePatch = 1 /\ job.refunds[lock] > 0
           cost == IF job.adjust THEN SpendingCost(r, merged) ELSE 0
           sub == TakenFromRefund(r, job.left + cost)
           paid == IF sub > 0 THEN FeeChanged(r, r.fee + sub, job.include) ELSE r
           e == [name |-> name, sb |-> paid]
           rest == RemoveAt(pool, i)
           next == [job EXCEPT !.left = @ + cost - sub,
                               !.refunds[lock] = IF job.adjust THEN @ + 1 ELSE @]
<1>1. /\ job.op = "pool" /\ pool' = rest
      /\ job \in FeeJobs /\ job.left \in Nat /\ job.include = b /\ job.adjust \in BOOLEAN
      /\ spends \in Seq(Entries) /\ pool \in Seq(Entries)
      /\ AllPriced(spends, b) /\ AllPriced(pool, b)
      /\ CurFee(spends) \in Nat /\ CalcFee(spends) \in Nat
      /\ b \in BOOLEAN /\ EnginePatch = 0
      /\ (job.adjust => CalcFee(spends) <= CurFee(spends) + job.left)
  <2>1. job.op = "pool" /\ pool' = rest
    BY DEF PoolStep
  <2> QED BY <2>1, FeeJobPriced DEF PlainPrices, PriceInv, JobPriced
<1>2. PICK q \in Nat : CostPerWord = q * WitnessWordDiv
  BY DEF PlainPrices, PriceDivides
<1>3. AllPriced(rest, b)
  <2>1. Range(rest) \subseteq Range(pool)
    BY <1>1, RemoveEffect
  <2> HIDE DEF rest
  <2> QED BY <1>1, <2>1, MembersPriced
<1>4. s \in Spends /\ name \in Names /\ Priced(s, b) /\ name \notin NamesOf(spends)
  <2>1. name \in NamesOf(pool)
    BY DEF NamesOf
  <2> QED BY <1>1, <2>1, EntryFields DEF AllPriced, IInv, Holds
<1> HIDE DEF rest
<1>5. ASSUME NEW outcome, Finish(outcome), spends' = spends PROVE PriceInv(b)'
  <2>1. JobPriced(job', spends', b)
    BY <1>5, FinishPriced
  <2> QED BY <1>1, <1>3, <1>5, <2>1 DEF PriceInv
<1>6. ASSUME HasRefund(r), spends' = PutSpend(spends, e), job' = next
      PROVE  PriceInv(b)'
  <2>1. /\ r \in Spends /\ lock = s.refund /\ s.refund # NoLock /\ Priced(r, b)
        /\ r.fee \in Nat /\ lock \in Locks
    <3>1. r \in Spends /\ lock = s.refund
      BY <1>1, <1>4, ComputeRefundType, ComputeRefundEffect
    <3>2. s.refund # NoLock
      BY <1>6, <3>1 DEF HasRefund
    <3>3. Priced(ComputeRefund(s, b), b)
      <4> HIDE DEF s
      <4> QED BY <1>1, <1>4, <3>2, RefundWordsFit, Zenon
    <3> QED BY <1>1, <3>1, <3>2, <3>3, SpendFields
  <2>2. cost = IF job.adjust THEN Cost(r) ELSE 0
    <3>1. merged = FALSE
      BY <1>1
    <3> HIDE DEF merged, r
    <3>2. Cost(r) = SpendingCost(r, FALSE)
      BY <2>1, CostType
    <3> QED BY <3>1, <3>2
  <2>3. Cost(r) \in Nat /\ cost \in Nat
    <3>1. Cost(r) \in Nat
      BY <2>1, CostType
    <3> HIDE DEF cost, r
    <3> QED BY <2>2, <3>1
  <2> HIDE DEF cost, lock
  <2>4. job.left + cost \in Nat
    BY <1>1, <2>3
  <2>5. sub \in Nat /\ sub <= job.left + cost
    <3> HIDE DEF r
    <3> QED BY <1>6, <2>1, <2>4, TakenType
  <2>6. /\ paid \in Spends /\ Priced(paid, b) /\ paid.fee = r.fee + sub
        /\ Cost(paid) <= Cost(r)
    <3> DEFINE fee == r.fee + sub
    <3> HIDE DEF r
    <3>1. fee \in Nat
      BY <2>1, <2>5
    <3>2. CASE sub > 0
      <4> HIDE DEF fee, sub
      <4>1. FeeChanged(r, fee, b) \in Spends
        BY <1>1, <2>1, <3>1, FeeChangedType
      <4>2. /\ q \in Nat /\ CostPerWord = q * WitnessWordDiv
            /\ r \in Spends /\ b \in BOOLEAN /\ fee \in Nat /\ HasRefund(r) /\ Priced(r, b)
        BY <1>1, <1>2, <1>6, <2>1, <3>1
      <4>3. /\ Priced(FeeChanged(r, fee, b), b) /\ FeeChanged(r, fee, b).fee = fee
            /\ Cost(FeeChanged(r, fee, b)) <= Cost(r)
        BY ONLY <4>2, FeeChangeCost, Zenon
      <4>4. paid = FeeChanged(r, fee, b)
        BY <1>1, <3>2 DEF fee
      <4> HIDE DEF paid
      <4> QED BY <4>1, <4>3, <4>4 DEF fee
    <3>3. CASE ~ (sub > 0)
      <4>1. paid = r /\ sub = 0
        BY <2>5, <3>3
      <4> HIDE DEF paid, sub, fee
      <4> QED BY <2>1, <2>3, <4>1
    <3> QED BY <3>2, <3>3
  <2> HIDE DEF paid, sub, r
  <2>7. e \in Entries /\ e.name = name /\ e.sb = paid
    BY <1>4, <2>6 DEF Entries
  <2>8. /\ next.op = "pool" /\ next.adjust = job.adjust /\ next.include = b
        /\ next.left = job.left + cost - sub
    BY <1>1 DEF FeeJobs
  <2> HIDE DEF e, next
  <2> DEFINE new == PutSpend(spends, e)
  <2>9. /\ TotalCost(new) = TotalCost(spends) + Cost(paid)
        /\ CurFee(new) = CurFee(spends) + paid.fee
        /\ new \in Seq(Entries) /\ new # << >>
    BY <1>1, <1>4, <2>7, AppendCost
  <2>10. AllPriced(new, b)
    <3>1. Range(new) \subseteq Range(spends) \cup {e}
      BY <1>1, <2>7, PutSpendEffect
    <3> HIDE DEF new
    <3> QED BY <1>1, <2>6, <2>7, <3>1, OneMorePriced
  <2> HIDE DEF new
  <2>11. ASSUME job.adjust PROVE CalcFee(new) <= CurFee(new) + next.left
    <3>1. CalcFee(new) = TotalCost(new) /\ TotalCost(spends) <= CalcFee(spends)
          /\ TotalCost(new) \in Nat /\ TotalCost(spends) \in Nat
      BY <1>1, <1>2, <2>9, <2>10, CostOfList
    <3>2. CurFee(new) \in Nat /\ Cost(paid) \in Nat
      BY <2>6, <2>9, CurFeeType, CostType
    <3>3. cost = Cost(r)
      BY <2>2, <2>11
    <3> DEFINE x == Cost(paid)
               f == r.fee
               c == CurFee(spends)
               d == CurFee(new)
               u == TotalCost(spends)
               v == TotalCost(new)
               left == job.left
    <3>4. /\ x \in Nat /\ f \in Nat /\ sub \in Nat /\ cost \in Nat
          /\ c \in Nat /\ d \in Nat /\ u \in Nat /\ v \in Nat /\ left \in Nat
          /\ x <= cost /\ d = c + (f + sub) /\ v = u + x /\ u <= c + left
      <4>1. u <= c + left
        BY <1>1, <2>11, <3>1
      <4>2. x <= cost /\ d = c + (f + sub)
        BY <2>6, <2>9, <3>3
      <4> QED BY <1>1, <2>1, <2>3, <2>5, <2>9, <3>1, <3>2, <4>1, <4>2
    <3>5. CalcFee(new) = v /\ next.left = left + cost - sub
      BY <2>8, <3>1
    <3> HIDE DEF x, f, c, d, u, v, left
    <3>6. v <= d + (left + cost - sub)
      BY <3>4
    <3> QED BY <3>5, <3>6 DEF d
  <2>12. JobPriced(next, new, b)
    BY <2>8, <2>11 DEF JobPriced
  <2> QED BY <1>1, <1>3, <1>6, <2>10, <2>12 DEF PriceInv, new
<1>7. \/ Finish(LockIsHash) /\ spends' = spends
      \/ Finish("Fee pool entry must have refund") /\ spends' = spends
      \/ HasRefund(r) /\ spends' = PutSpend(spends, e) /\ job' = next
  BY DEF PoolStep
<1> HIDE DEF e, r, next
<1> QED BY <1>5, <1>6, <1>7

LEMMA PoolEndPriced ==
  ASSUME NEW b, PriceInv(b), PoolEnd
  PROVE  PriceInv(b)'
<1>1. spends' = spends /\ pool' = pool
  BY DEF PoolEnd
<1>2. PICK outcome : Finish(outcome)
  BY Zenon DEF PoolEnd
<1>3. JobPriced(job', spends', b)
  BY <1>2, FinishPriced
<1> QED BY <1>1, <1>3 DEF PriceInv

LEMMA LowerStepPriced ==
  ASSUME NEW b \in BOOLEAN, PlainPrices, IInv, PriceInv(b), NEW i \in DOMAIN spends, LowerStep(i)
  PROVE  PriceInv(b)'
<1> DEFINE s == spends[i].sb
           name == spends[i].name
           add == SmallerOf(s.fee, job.left)
           less == IF add > 0 THEN FeeChanged(s, s.fee - add, job.include) ELSE s
           merged == EnginePatch = 1 /\ job.refunds[s.refund] > 1
           saved == SpendingCost(less, merged)
           next == [job EXCEPT !.todo = @ \ {name}, !.left = @ - add]
           back == [next EXCEPT !.back = Append(@, name),
                                !.refunds[s.refund] = LargerOf(0, @ - 1),
                                !.left = LargerOf(0, @ - saved)]
           new == [spends EXCEPT ![i].sb = less]
<1>1. /\ job.op = "lower" /\ pool' = pool /\ spends' = new
      /\ job \in FeeJobs /\ job.left \in Nat /\ job.include = b
      /\ spends \in Seq(Entries) /\ AllPriced(spends, b) /\ AllPriced(pool, b)
      /\ b \in BOOLEAN
  <2>1. job.op = "lower" /\ pool' = pool /\ spends' = new
    BY DEF LowerStep
  <2> QED BY <2>1, FeeJobPriced DEF PlainPrices
<1>2. s \in Spends /\ s.fee \in Nat /\ s.refund # NoLock /\ Priced(s, b)
  <2>1. name \in job.todo
    BY DEF LowerStep, LowerNext, Todo
  <2>2. s.refund # NoLock
    BY <1>1, <2>1 DEF IInv, JobFits
  <2> QED BY <1>1, <2>2, EntryFields, SpendFields DEF AllPriced
<1>3. add \in Nat /\ add <= s.fee
  BY <1>1, <1>2 DEF SmallerOf
<1>4. less \in Spends /\ Priced(less, b)
  <2> DEFINE fee == s.fee - add
  <2>1. fee \in Nat
    BY <1>2, <1>3
  <2> HIDE DEF fee, s, add
  <2>2. FeeChanged(s, fee, b) \in Spends /\ Priced(FeeChanged(s, fee, b), b)
    BY <1>1, <1>2, <2>1, FeeChangedType, FeeChangePriced
  <2>3. less = s \/ less = FeeChanged(s, fee, b)
    BY <1>1 DEF fee
  <2> HIDE DEF less
  <2> QED BY <1>2, <2>2, <2>3
<1>5. AllPriced(new, b)
  <2> HIDE DEF less
  <2> QED BY <1>1, <1>4, ReplaceCost
<1>6. next.op = "lower" /\ next.include = b /\ back.op = "lower" /\ back.include = b
  BY <1>1 DEF FeeJobs
<1> HIDE DEF next, back, new, less, add, saved, merged
<1>7. Finish(LockIsHash) \/ job' = next \/ job' = back
  BY DEF LowerStep, next, back, less, add, saved, merged
<1>8. JobPriced(job', spends', b)
  <2>1. CASE Finish(LockIsHash)
    BY <2>1, FinishPriced
  <2>2. CASE job' = next \/ job' = back
    BY <1>6, <2>2 DEF JobPriced
  <2> QED BY <1>7, <2>1, <2>2
<1> QED BY <1>1, <1>5, <1>8 DEF PriceInv

LEMMA LowerEndPriced ==
  ASSUME NEW b, IInv, PriceInv(b), LowerEnd
  PROVE  PriceInv(b)'
<1> DEFINE at(k) == Named(spends, job.back[k])
<1>1. /\ job.op = "lower" /\ spends' = StayingSpends /\ pool' = pool \o ReturnedSpends
      /\ AllPriced(spends, b) /\ AllPriced(pool, b)
      /\ spends \in Seq(Entries) /\ pool \in Seq(Entries)
  BY DEF LowerEnd, PriceInv, IInv, Holds
<1>2. job.back \in Seq(Names)
  BY <1>1, JobOfStep, FeeJobFields
<1>3. \A k \in DOMAIN job.back : at(k) \in DOMAIN spends
  <2>1. \A k \in DOMAIN job.back : job.back[k] \in NamesOf(spends)
    BY <1>1 DEF IInv, JobFits
  <2> QED BY <2>1, NamedEffect
<1> HIDE DEF at
<1>4. /\ ReturnedSpends \in Seq(Entries) /\ DOMAIN ReturnedSpends = DOMAIN job.back
      /\ \A k \in DOMAIN job.back : ReturnedSpends[k] = spends[at(k)]
  <2> DEFINE N == Len(job.back)
  <2>1. N \in Nat /\ DOMAIN job.back = 1..N
    BY <1>2, LenProperties
  <2> HIDE DEF N
  <2>2. /\ ReturnedSpends = [k \in 1..N |-> spends[at(k)]]
        /\ \A k \in 1..N : spends[at(k)] \in Entries
    BY <1>1, <1>3, <2>1, EntryFields DEF ReturnedSpends, at
  <2> QED BY <2>1, <2>2, IsASeq
<1>5. Range(ReturnedSpends) \subseteq Range(spends)
  BY <1>3, <1>4 DEF Range
<1>6. Range(StayingSpends) \subseteq Range(spends)
  BY <1>1, KeptEffect DEF StayingSpends
<1>7. Range(pool \o ReturnedSpends) = Range(pool) \cup Range(ReturnedSpends)
  BY <1>1, <1>4, ConcatEffect
<1>8. AllPriced(StayingSpends, b)
  BY <1>1, <1>6, MembersPriced
<1>9. AllPriced(pool \o ReturnedSpends, b)
  <2>1. AllPriced(ReturnedSpends, b)
    BY <1>1, <1>5, MembersPriced
  <2> DEFINE more == pool \o ReturnedSpends
  <2> HIDE DEF more
  <2>2. Range(more) = Range(pool) \cup Range(ReturnedSpends)
    BY <1>7 DEF more
  <2>3. AllPriced(more, b)
    BY <1>1, <2>1, <2>2 DEF AllPriced, Range
  <2> QED BY <2>3 DEF more
<1>10. PICK outcome : Finish(outcome)
  BY Zenon DEF LowerEnd
<1>11. JobPriced(job', spends', b)
  BY <1>10, FinishPriced
<1> QED BY <1>1, <1>8, <1>9, <1>11 DEF PriceInv

LEMMA StepPriced ==
  ASSUME NEW b \in BOOLEAN, PlainPrices, IInv, PriceInv(b), Step
  PROVE  PriceInv(b)'
BY BaseStepPriced, BaseEndPriced, RaiseStepPriced, RaiseEndPriced, PoolStepPriced,
   PoolEndPriced, LowerStepPriced, LowerEndPriced DEF Step

LEMMA NextPriced ==
  ASSUME NEW b, ComputedFees(b), IInv, PriceInv(b), [Next]_vars
  PROVE  PriceInv(b)'
<1>1. CASE UNCHANGED vars
  BY <1>1 DEF vars, PriceInv
<1>2. CASE OwnerCall
  <2>1. ASSUME NEW target \in FeeTargets, NEW adjust \in AdjustFees, NEW include \in Includes,
               SetFeeTo(target, adjust, include)
        PROVE  PriceInv(b)'
    <3>1. target \in Nat /\ adjust = FALSE /\ include = b
      BY TxBuilderAssumption DEF ComputedFees
    <3> QED BY <2>1, <3>1, SetFeeToPriced
  <2>2. ASSUME NEW include \in Includes, RecalcAndSetFee(include) PROVE PriceInv(b)'
    <3>1. include = b
      BY DEF ComputedFees
    <3>2. CalcFee(spends) \in Nat
      BY CalcFeeType DEF IInv, Holds
    <3>3. SetFeeTo(CalcFee(spends), TRUE, b)
      BY <2>2, <3>1 DEF RecalcAndSetFee
    <3> QED BY <3>2, <3>3, SetFeeToPriced
  <2>3. ASSUME NEW order \in SimpleSpends, SimpleSpend(order) PROVE PriceInv(b)'
    BY <2>3, SimpleSpendPriced DEF ComputedFees
  <2> QED BY <1>2, <2>1, <2>2, <2>3, AddPreimageCallPriced, ValidatePriced DEF OwnerCall
<1>3. CASE Call
  BY <1>2, <1>3, AddSpendPriced, SignAllPriced DEF Call
<1>4. CASE Step
  BY <1>4, StepPriced DEF ComputedFees
<1> QED BY <1>1, <1>3, <1>4 DEF Next

LEMMA InitPriced ==
  ASSUME NEW b, Init
  PROVE  PriceInv(b)
<1>1. DOMAIN << >> = {}
  BY EmptySeq
<1> QED BY <1>1 DEF Init, PriceInv, AllPriced, JobPriced, Idle

(* A call that returns has found all that was missing.                     *)
LEMMA ReturnCovers ==
  ASSUME NEW b, IInv, PriceInv(b), [Next]_vars, job.op = "pool", Returns, job.adjust
  PROVE  CurFee(spends') >= CalcFee(spends')
<1>1. CalcFee(spends) <= CurFee(spends) + job.left /\ job.left \in Nat
      /\ CurFee(spends) \in Nat /\ CalcFee(spends) \in Nat
  BY FeeJobPriced DEF PriceInv, JobPriced
<1>2. job # Idle /\ job' = Idle /\ result' = "ok"
  BY DEF Returns, Idle
<1>3. ~ UNCHANGED vars /\ ~ Begin
  BY <1>2 DEF vars, Begin
<1>4. PoolEnd \/ \E i \in DOMAIN pool : PoolStep(i)
  BY <1>3 DEF Next, Call, OwnerCall, Step, SimpleSpend, SetFeeTo, RecalcAndSetFee, AddSpend,
     AddPreimageCall, SignAll, Validate, BaseStep, BaseEnd, RaiseStep, RaiseEnd, LowerStep,
     LowerEnd
<1>5. ASSUME NEW i \in DOMAIN pool, PoolStep(i) PROVE FALSE
  <2>1. job' = Idle
    BY <1>2
  <2>2. Idle.op = "idle" /\ job \in FeeJobs
    BY FeeJobPriced DEF Idle
  <2>3. /\ "ok" # LockIsHash /\ "ok" # "Fee pool entry must have refund"
        /\ "idle" # "pool"
    BY Zenon DEF LockIsHash
  <2>4. PICK next :
          \/ Finish(LockIsHash) \/ Finish("Fee pool entry must have refund")
          \/ job' = next /\ next.op = "pool"
    <3> DEFINE s == pool[i].sb
               r == ComputeRefund(s, job.include)
               lock == r.refund
               merged == EnginePatch = 1 /\ job.refunds[lock] > 0
               cost == IF job.adjust THEN SpendingCost(r, merged) ELSE 0
               sub == TakenFromRefund(r, job.left + cost)
               next == [job EXCEPT !.left = @ + cost - sub,
                                   !.refunds[lock] = IF job.adjust THEN @ + 1 ELSE @]
    <3>1. job.op = "pool"
      BY <1>5 DEF PoolStep
    <3>2. next.op = "pool"
      BY <2>2, <3>1 DEF FeeJobs
    <3>3. \/ Finish(LockIsHash) \/ Finish("Fee pool entry must have refund")
          \/ job' = next
      BY <1>5, Zenon DEF PoolStep
    <3> HIDE DEF next
    <3> QED BY <3>2, <3>3, Zenon
  <2> QED BY <1>2, <2>1, <2>2, <2>3, <2>4, Zenon DEF Finish
<1>6. PoolEnd
  BY <1>4, <1>5
<1>7. spends' = spends /\ job.left = 0
  BY <1>1, <1>2, <1>6 DEF PoolEnd, Finish
<1> QED BY <1>1, <1>7

(* However many calls, notes and payments there are, a fee that was        *)
(* computed and raised pays for the transaction it produced.               *)
THEOREM ComputedFeesCover ==
  ASSUME NEW b, ComputedFees(b)
  PROVE  Spec => FeeCoversCost
<1>1. IInv /\ PriceInv(b) /\ [Next]_vars => PriceInv(b)'
  BY NextPriced
<1>2. Init => PriceInv(b)
  BY InitPriced
<1>3. IInv /\ PriceInv(b) /\ [Next]_vars
      => [(job.op = "pool" /\ Returns /\ job.adjust) => CurFee(spends') >= CalcFee(spends')]_vars
  BY ReturnCovers
<1>4. Spec => [](IInv /\ PriceInv(b))
  BY <1>1, <1>2, InitInvariant, NextKeeps, PTL DEF Spec
<1> QED BY <1>3, <1>4, PTL DEF Spec, FeeCoversCost

=============================================================================
