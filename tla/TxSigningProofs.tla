---------------------------- MODULE TxSigningProofs ----------------------------
(***************************************************************************)
(* Proofs about TxSigning: whatever the owner does while signWith loops    *)
(* over the live Map, the loop misses no spend, and no signature counts    *)
(* that does not cover, but where a signer answered too late.              *)
(***************************************************************************)
EXTENDS TxSigning, TxBuilderProofs

-----------------------------------------------------------------------------
(* A call keeps a spend's signatures only together with its content.       *)

Stays(s, t) ==
  /\ t.witness.prims = s.witness.prims
  /\ \/ Unsigned(t)
     \/ SigHash(t) = SigHash(s) /\ t.witness.sigs = s.witness.sigs

LEMMA StaysItself ==
  ASSUME NEW s
  PROVE  Stays(s, s)
BY DEF Stays

LEMMA EditStays ==
  ASSUME NEW s, NEW t, IsEdit(s, t)
  PROVE  Stays(s, t)
BY DEF IsEdit, Stays

LEMMA StaysTwice ==
  ASSUME NEW s, NEW t, NEW u, Stays(s, t), Stays(t, u)
  PROVE  Stays(s, u)
BY DEF Stays, Unsigned

LEMMA FeeChangedStays ==
  ASSUME NEW s \in Spends, NEW fee \in Nat, NEW include \in BOOLEAN
  PROVE  Stays(s, FeeChanged(s, fee, include))
<1>1. SetFee(s, fee) \in Spends /\ Stays(s, SetFee(s, fee))
  BY SetFeeType, SetFeeIsEdit, EditStays
<1>2. Stays(SetFee(s, fee), ComputeRefund(SetFee(s, fee), include))
  BY <1>1, ComputeRefundIsEdit, EditStays
<1> QED BY <1>1, <1>2, StaysTwice DEF FeeChanged

LEMMA PreimageStays ==
  ASSUME NEW s \in Spends, NEW d
  PROVE  Stays(s, AddPreimage(s, d))
BY AddPreimageEffect DEF Stays

(* The spend of a payment has no signature. *)
LEMMA PaidNoteUnsigned ==
  ASSUME NEW order \in Orders, NEW note \in Notes, NEW portion \in Nat
  PROVE  LET new == NewSpend(note.assets, order.refund, note.witness)
             seed == BuildSeed(order.to, portion, order.include, order.extras)
             giving == AddSeed(new, seed)
         IN  /\ Unsigned(ComputeRefund(giving, order.include))
             /\ Unsigned(ComputeRefund(new, order.include))
<1> DEFINE new == NewSpend(note.assets, order.refund, note.witness)
           seed == BuildSeed(order.to, portion, order.include, order.extras)
           giving == AddSeed(new, seed)
<1>1. order.refund \in Locks \ HashedLocks /\ order.include \in BOOLEAN
  BY OrderFields
<1>2. note.assets \in Nat /\ note.witness \in Witnesses /\ note.witness.sigs = NoSigs
  BY DEF Notes, FreshWitnesses
<1>3. new \in Spends /\ Unsigned(new)
  <2>1. new.witness = note.witness
    BY DEF NewSpend
  <2> QED BY <1>1, <1>2, <2>1, NewSpendType DEF Unsigned
<1>4. seed \in Seeds
  BY OrderFields, BuildSeedType
<1> HIDE DEF new, seed
<1>5. giving \in Spends /\ Unsigned(giving)
  BY <1>3, <1>4, AddSeedType, AddSeedIsEdit DEF IsEdit
<1> HIDE DEF giving
<1>6. ASSUME NEW s \in Spends, Unsigned(s) PROVE Unsigned(ComputeRefund(s, order.include))
  BY <1>1, <1>6, ComputeRefundIsEdit DEF IsEdit
<1> QED BY <1>3, <1>5, <1>6 DEF new, seed, giving

-----------------------------------------------------------------------------
(* What a call makes of the spends and the pool.  The spends that stay     *)
(* keep their order, and new ones come after them.                         *)

KeepsOrder(xs, ys) ==
  \A k \in DOMAIN ys, i \in DOMAIN xs :
    ys[k].name = xs[i].name => \A j \in 1..(k - 1) : \E h \in 1..(i - 1) : ys[j].name = xs[h].name

From(f, xs) == \E e \in Range(xs) : f.name = e.name /\ Stays(e.sb, f.sb)

Continues(sp, pl, sp2, pl2) ==
  /\ KeepsOrder(sp, sp2)
  /\ \A f \in Range(sp2) :
       \/ From(f, sp)
       \/ f.name \notin NamesOf(sp) /\ (Unsigned(f.sb) \/ From(f, pl))
  /\ \A f \in Range(pl2) : Unsigned(f.sb) \/ From(f, sp) \/ From(f, pl)

LEMMA SameNamesKeepOrder ==
  ASSUME NEW xs \in Seq(Entries), NEW ys, NamesDiffer(xs), SameNames(xs, ys)
  PROVE  KeepsOrder(xs, ys)
<1>1. DOMAIN ys = DOMAIN xs /\ \A i \in DOMAIN xs : xs[i].name = ys[i].name
  BY DEF SameNames
<1>2. DOMAIN xs = 1..Len(xs) /\ Len(xs) \in Nat
  BY EntryFields
<1> SUFFICES ASSUME NEW k \in DOMAIN ys, NEW i \in DOMAIN xs, ys[k].name = xs[i].name,
                    NEW j \in 1..(k - 1)
             PROVE  \E h \in 1..(i - 1) : ys[j].name = xs[h].name
  BY DEF KeepsOrder
<1>3. k = i
  BY <1>1 DEF NamesDiffer
<1>4. j \in DOMAIN xs
  BY <1>1, <1>2
<1> QED BY <1>1, <1>3, <1>4

LEMMA AppendKeepsOrder ==
  ASSUME NEW xs \in Seq(Entries), NEW e \in Entries, NamesDiffer(xs), e.name \notin NamesOf(xs)
  PROVE  KeepsOrder(xs, Append(xs, e))
<1> DEFINE ys == Append(xs, e)
           N == Len(xs)
<1>1. /\ ys \in Seq(Entries) /\ Len(ys) = N + 1 /\ ys[N + 1] = e
      /\ \A i \in 1..N : ys[i] = xs[i]
      /\ N \in Nat /\ DOMAIN xs = 1..N
  BY AppendProperties, EntryFields
<1>2. DOMAIN ys = 1..(N + 1)
  BY <1>1, LenProperties
<1> HIDE DEF ys, N
<1>3. ASSUME NEW k \in DOMAIN ys, NEW i \in DOMAIN xs, ys[k].name = xs[i].name,
             NEW j \in 1..(k - 1)
      PROVE  \E h \in 1..(i - 1) : ys[j].name = xs[h].name
  <2>1. k # N + 1
    BY <1>1, <1>3 DEF NamesOf
  <2>2. k \in 1..N
    BY <1>1, <1>2, <2>1
  <2>3. k = i
    BY <1>1, <1>3, <2>2 DEF NamesDiffer
  <2>4. j \in 1..N /\ j \in 1..(i - 1)
    BY <1>1, <2>2, <2>3
  <2> QED BY <1>1, <2>4
<1>4. KeepsOrder(xs, ys)
  BY <1>3 DEF KeepsOrder
<1> QED BY <1>4 DEF ys

LEMMA FromItself ==
  ASSUME NEW xs, NEW f \in Range(xs)
  PROVE  From(f, xs)
BY StaysItself DEF From

(* Some of the spends are changed, in place. *)
LEMMA RewriteContinues ==
  ASSUME NEW sp, NEW pl, Holds(sp, pl), NEW new, SameNames(sp, new),
         \A i \in DOMAIN sp : Stays(sp[i].sb, new[i].sb)
  PROVE  Continues(sp, pl, new, pl)
<1>1. sp \in Seq(Entries) /\ NamesDiffer(sp)
  BY DEF Holds
<1>2. KeepsOrder(sp, new)
  BY <1>1, SameNamesKeepOrder
<1>3. ASSUME NEW f \in Range(new) PROVE From(f, sp)
  <2>1. PICK i \in DOMAIN new : f = new[i]
    BY DEF Range
  <2>2. i \in DOMAIN sp /\ sp[i].name = f.name /\ sp[i] \in Range(sp)
    BY <2>1 DEF SameNames, Range
  <2> QED BY <2>1, <2>2 DEF From
<1> QED BY <1>2, <1>3, FromItself DEF Continues

LEMMA NothingContinues ==
  ASSUME NEW sp, NEW pl, Holds(sp, pl)
  PROVE  Continues(sp, pl, sp, pl)
<1>1. SameNames(sp, sp)
  BY DEF SameNames
<1> QED BY <1>1, StaysItself, RewriteContinues

(* A spend is added, from the pool or new. *)
LEMMA NewSpendContinues ==
  ASSUME NEW sp, NEW pl, Holds(sp, pl), NEW e \in Entries, e.name \notin NamesOf(sp),
         Unsigned(e.sb) \/ From(e, pl), NEW pl2, Range(pl2) \subseteq Range(pl)
  PROVE  Continues(sp, pl, PutSpend(sp, e), pl2)
<1> DEFINE ys == Append(sp, e)
<1>1. PutSpend(sp, e) = ys
  BY DEF PutSpend
<1>2. sp \in Seq(Entries) /\ NamesDiffer(sp)
  BY DEF Holds
<1>3. KeepsOrder(sp, ys) /\ Range(ys) = Range(sp) \cup {e}
  BY <1>2, AppendEntry, AppendKeepsOrder
<1> HIDE DEF ys
<1>4. \A f \in Range(ys) :
        \/ From(f, sp)
        \/ f.name \notin NamesOf(sp) /\ (Unsigned(f.sb) \/ From(f, pl))
  BY <1>3, FromItself
<1> QED BY <1>1, <1>3, <1>4, FromItself DEF Continues

(* Spends go to the pool, those that stay keep their order. *)
LEMMA KeptContinues ==
  ASSUME NEW sp, NEW pl, Holds(sp, pl), NEW P, NEW pl2, Range(pl2) \subseteq Range(sp) \cup Range(pl)
  PROVE  Continues(sp, pl, Kept(sp, P), pl2)
<1> DEFINE ys == Kept(sp, P)
           N == Len(sp)
           M == Len(ys)
<1>1. sp \in Seq(Entries) /\ NamesDiffer(sp)
  BY DEF Holds
<1>2. ys \in Seq(Entries) /\ Range(ys) \subseteq Range(sp)
  BY <1>1, KeptEffect
<1>3. PICK pos : Locates(pos, ys, sp, P, N)
  BY <1>1, KeptLocates
<1> HIDE DEF ys
<1>4. DOMAIN ys = 1..M /\ M \in Nat /\ DOMAIN sp = 1..N /\ N \in Nat
  BY <1>1, <1>2, EntryFields
<1>5. /\ pos \in [1..M -> 1..N]
      /\ \A k \in 1..M : ys[k] = sp[pos[k]]
      /\ \A j, k \in 1..M : j < k => pos[j] < pos[k]
  BY <1>3 DEF Locates
<1> HIDE DEF M, N
<1>6. KeepsOrder(sp, ys)
  <2> SUFFICES ASSUME NEW k \in 1..M, NEW i \in 1..N, ys[k].name = sp[i].name,
                      NEW j \in 1..(k - 1)
               PROVE  \E h \in 1..(i - 1) : ys[j].name = sp[h].name
    BY <1>4 DEF KeepsOrder
  <2>1. pos[k] \in 1..N /\ ys[k] = sp[pos[k]]
    BY <1>5
  <2>2. pos[k] = i
    BY <1>1, <1>4, <2>1 DEF NamesDiffer
  <2>3. j \in 1..M /\ j < k
    BY <1>4
  <2>4. pos[j] \in 1..N /\ pos[j] < i /\ ys[j] = sp[pos[j]]
    BY <1>5, <2>2, <2>3
  <2>5. pos[j] \in 1..(i - 1)
    BY <1>4, <2>4
  <2> QED BY <2>4, <2>5
<1>7. \A f \in Range(ys) : From(f, sp)
  BY <1>2, FromItself
<1>8. \A f \in Range(pl2) : From(f, sp) \/ From(f, pl)
  BY FromItself
<1> QED BY <1>6, <1>7, <1>8 DEF Continues, ys

LEMMA PreimagesContinue ==
  ASSUME NEW sp, NEW pl, Holds(sp, pl), NEW d
  PROVE  Continues(sp, pl, AddPreimageToAll(sp, d), pl)
<1> DEFINE new == AddPreimageToAll(sp, d)
<1>1. sp \in Seq(Entries)
  BY DEF Holds
<1>2. DOMAIN new = DOMAIN sp
  BY DEF AddPreimageToAll
<1>3. ASSUME NEW i \in DOMAIN sp
      PROVE  new[i].name = sp[i].name /\ new[i].sb = AddPreimage(sp[i].sb, d)
  <2>1. sp[i] \in Entries
    BY <1>1, EntryFields
  <2>2. new[i] = [sp[i] EXCEPT !.sb = AddPreimage(@, d)]
    BY DEF AddPreimageToAll
  <2> HIDE DEF new
  <2> QED BY <2>1, <2>2 DEF Entries
<1> HIDE DEF new
<1>4. SameNames(sp, new)
  BY <1>2, <1>3 DEF SameNames
<1>5. \A i \in DOMAIN sp : Stays(sp[i].sb, new[i].sb)
  BY <1>1, <1>3, EntryFields, PreimageStays
<1>6. Continues(sp, pl, new, pl)
  BY <1>4, <1>5, RewriteContinues
<1> QED BY <1>6 DEF new

(* One spend is changed, in place. *)
LEMMA ReplaceContinues ==
  ASSUME NEW sp, NEW pl, Holds(sp, pl), NEW i \in DOMAIN sp, NEW s \in Spends,
         Stays(sp[i].sb, s)
  PROVE  Continues(sp, pl, [sp EXCEPT ![i].sb = s], pl)
<1> DEFINE new == [sp EXCEPT ![i].sb = s]
<1>1. sp \in Seq(Entries)
  BY DEF Holds
<1>2. /\ SameNames(sp, new) /\ new[i].sb = s
      /\ \A j \in DOMAIN sp : j # i => new[j] = sp[j]
  BY <1>1, ReplaceEffect
<1> HIDE DEF new
<1>3. \A j \in DOMAIN sp : Stays(sp[j].sb, new[j].sb)
  BY <1>2, StaysItself
<1>4. Continues(sp, pl, new, pl)
  BY <1>2, <1>3, RewriteContinues
<1> QED BY <1>4 DEF new

-----------------------------------------------------------------------------
(* Every call of the owner continues the spends.                           *)

AllContinue == Continues(spends, pool, spends', pool')

LEMMA BaseStepContinues ==
  ASSUME IInv, BaseStep
  PROVE  AllContinue
<1> DEFINE order == job.order
           note == Head(job.notes)
           portion == SmallerOf(job.left, note.assets)
           new == NewSpend(note.assets, order.refund, note.witness)
           giving == AddSeed(new, BuildSeed(order.to, portion, order.include, order.extras))
           Entry(s) == [name |-> note.name, sb |-> ComputeRefund(s, order.include)]
<1>1. Holds(spends, pool) /\ JobFits(job, spends, pool)
  BY DEF IInv
<1>2. job \in BaseJobs /\ job.op = "base" /\ job.notes # << >>
  <2>1. job \in BaseJobs \cup FeeJobs \cup {Idle}
    BY <1>1 DEF JobFits
  <2> QED BY <2>1, JobKinds DEF BaseStep
<1>3. order \in Orders /\ job.notes \in Seq(Notes) /\ job.left \in Nat
  BY <1>2 DEF BaseJobs
<1>4. note \in Notes /\ note.name \in NamesOf(job.notes)
  BY <1>2, <1>3, FirstNote
<1>5. note.name \notin NamesOf(spends)
  BY <1>1, <1>2, <1>4 DEF JobFits
<1>6. note.name \in Names /\ note.assets \in Nat
  BY <1>4 DEF Notes
<1>7. portion \in Nat /\ portion <= note.assets
  BY <1>3, <1>6 DEF SmallerOf
<1>8. /\ ComputeRefund(giving, order.include) \in Spends
      /\ Unsigned(ComputeRefund(giving, order.include))
      /\ Unsigned(ComputeRefund(new, order.include))
  <2> HIDE DEF order, note, portion
  <2> QED BY <1>3, <1>4, <1>7, PaidNote, PaidNoteUnsigned
<1>9. /\ Entry(giving) \in Entries /\ Entry(giving).name = note.name
      /\ Unsigned(Entry(giving).sb) /\ Unsigned(Entry(new).sb)
  <2> HIDE DEF giving, new, order, note
  <2> QED BY <1>6, <1>8 DEF Entries
<1>10. \/ spends' = spends /\ pool' = pool
       \/ spends' = PutSpend(spends, Entry(giving)) /\ pool' = pool
       \/ spends' = spends /\ pool' = Append(pool, Entry(new))
  BY DEF BaseStep
<1> HIDE DEF Entry, note, giving, new
<1>11. CASE spends' = spends /\ pool' = pool
  BY <1>1, <1>11, NothingContinues DEF AllContinue
<1>12. CASE spends' = PutSpend(spends, Entry(giving)) /\ pool' = pool
  BY <1>1, <1>5, <1>9, <1>12, NewSpendContinues DEF AllContinue
<1>13. CASE spends' = spends /\ pool' = Append(pool, Entry(new))
  <2>1. Range(pool') = Range(pool) \cup {Entry(new)}
    <3>1. pool \in Seq(Entries)
      BY <1>1 DEF Holds
    <3>2. Entry(new) \in Entries
      <4>1. ComputeRefund(new, order.include) \in Spends
        <5> HIDE DEF order, portion
        <5> QED BY <1>3, <1>4, <1>7, PaidNote DEF new, note
      <4> QED BY <1>6, <4>1 DEF Entry, Entries
    <3> QED BY <1>13, <3>1, <3>2, AppendEntry
  <2>2. Continues(spends, pool, spends, pool)
    BY <1>1, NothingContinues
  <2> QED BY <1>9, <1>13, <2>1, <2>2 DEF AllContinue, Continues
<1> QED BY <1>10, <1>11, <1>12, <1>13

LEMMA BaseEndContinues ==
  ASSUME IInv, BaseEnd
  PROVE  AllContinue
<1>1. Holds(spends, pool) /\ pool' = pool
  BY DEF IInv, BaseEnd
<1>2. \/ spends' = spends
      \/ spends' = AddPreimageToAll(spends, job.order.preimage)
  BY DEF BaseEnd
<1> QED BY <1>1, <1>2, NothingContinues, PreimagesContinue DEF AllContinue

LEMMA RaiseStepContinues ==
  ASSUME IInv, NEW i \in DOMAIN spends, RaiseStep(i)
  PROVE  AllContinue
<1> DEFINE s == spends[i].sb
           sub == TakenFromRefund(s, job.left)
           paid == FeeChanged(s, s.fee + sub, job.include)
<1>1. Holds(spends, pool) /\ JobFits(job, spends, pool) /\ pool' = pool /\ job.op = "raise"
  BY DEF IInv, RaiseStep
<1>2. job.left \in Nat /\ job.include \in BOOLEAN
  BY <1>1, JobOfStep, FeeJobFields
<1>3. s \in Spends /\ s.fee \in Nat
  BY <1>1, EntryFields, SpendFields DEF Holds
<1>4. HasRefund(s)
  <2>1. spends[i].name \in job.todo
    BY DEF RaiseStep, RaiseNext, Todo
  <2> QED BY <1>1, <2>1 DEF JobFits
<1>5. sub \in Nat
  BY <1>2, <1>3, <1>4, TakenType
<1>6. paid \in Spends /\ Stays(s, paid)
  <2>1. s.fee + sub \in Nat
    BY <1>3, <1>5
  <2> QED BY <1>2, <1>3, <2>1, FeeChangedType, FeeChangedStays
<1>7. spends' = spends \/ spends' = [spends EXCEPT ![i].sb = paid]
  BY DEF RaiseStep
<1> HIDE DEF paid
<1> QED BY <1>1, <1>6, <1>7, NothingContinues, ReplaceContinues DEF AllContinue

LEMMA LowerStepContinues ==
  ASSUME IInv, NEW i \in DOMAIN spends, LowerStep(i)
  PROVE  AllContinue
<1> DEFINE s == spends[i].sb
           add == SmallerOf(s.fee, job.left)
           changed == FeeChanged(s, s.fee - add, job.include)
           less == IF add > 0 THEN changed ELSE s
<1>1. Holds(spends, pool) /\ pool' = pool /\ job.op = "lower"
  BY DEF IInv, LowerStep
<1>2. job.left \in Nat /\ job.include \in BOOLEAN
  BY <1>1, JobOfStep, FeeJobFields
<1>3. s \in Spends /\ s.fee \in Nat
  BY <1>1, EntryFields, SpendFields DEF Holds
<1>4. s.fee - add \in Nat
  BY <1>2, <1>3 DEF SmallerOf
<1>5. changed \in Spends /\ Stays(s, changed)
  BY <1>2, <1>3, <1>4, FeeChangedType, FeeChangedStays
<1>6. less \in Spends /\ Stays(s, less)
  <2> HIDE DEF changed
  <2> QED BY <1>3, <1>5, StaysItself
<1>7. spends' = [spends EXCEPT ![i].sb = less]
  BY DEF LowerStep
<1> HIDE DEF less
<1> QED BY <1>1, <1>6, <1>7, ReplaceContinues DEF AllContinue

LEMMA PoolStepContinues ==
  ASSUME IInv, NEW i \in DOMAIN pool, PoolStep(i)
  PROVE  AllContinue
<1> DEFINE s == pool[i].sb
           r == ComputeRefund(s, job.include)
           merged == EnginePatch = 1 /\ job.refunds[r.refund] > 0
           cost == IF job.adjust THEN SpendingCost(r, merged) ELSE 0
           sub == TakenFromRefund(r, job.left + cost)
           more == FeeChanged(r, r.fee + sub, job.include)
           paid == IF sub > 0 THEN more ELSE r
           e == [name |-> pool[i].name, sb |-> paid]
<1>1. Holds(spends, pool) /\ pool' = RemoveAt(pool, i) /\ job.op = "pool"
  BY DEF IInv, PoolStep
<1>2. job.left \in Nat /\ job.include \in BOOLEAN /\ job.adjust \in BOOLEAN
  BY <1>1, JobOfStep, FeeJobFields
<1>3. pool \in Seq(Entries) /\ s \in Spends /\ pool[i].name \in Names
      /\ pool[i].name \notin NamesOf(spends) /\ pool[i] \in Range(pool)
  BY <1>1, EntryFields DEF Holds, NamesOf, Range
<1>4. Range(pool') \subseteq Range(pool)
  BY <1>1, <1>3, RemoveEffect
<1>5. r \in Spends /\ Stays(s, r)
  BY <1>2, <1>3, ComputeRefundType, ComputeRefundIsEdit, EditStays
<1>6. CASE spends' = spends
  <2>1. Continues(spends, pool, spends, pool)
    BY <1>1, NothingContinues
  <2> QED BY <1>4, <1>6, <2>1 DEF AllContinue, Continues
<1>7. CASE HasRefund(r) /\ spends' = PutSpend(spends, e)
  <2>1. cost \in Nat
    <3>1. merged \in BOOLEAN
      OBVIOUS
    <3>2. SpendingCost(r, merged) \in Nat
      <4> HIDE DEF merged, r
      <4> QED BY <1>5, <3>1, SpendingCostType
    <3> HIDE DEF merged, r
    <3> QED BY <3>2
  <2> HIDE DEF cost
  <2>2. job.left + cost \in Nat
    BY <1>2, <2>1
  <2>3. sub \in Nat
    <3> HIDE DEF r
    <3> QED BY <1>5, <1>7, <2>2, TakenType
  <2> HIDE DEF sub, r
  <2>4. more \in Spends /\ Stays(r, more)
    <3>1. r.fee + sub \in Nat
      BY <1>5, <2>3, SpendFields
    <3> QED BY <1>2, <1>5, <3>1, FeeChangedType, FeeChangedStays
  <2> HIDE DEF more
  <2>5. paid \in Spends /\ Stays(s, paid)
    BY <1>5, <2>4, StaysTwice
  <2> HIDE DEF paid
  <2>6. e \in Entries /\ e.name = pool[i].name /\ e.sb = paid
    BY <1>3, <2>5 DEF Entries
  <2> HIDE DEF e
  <2>7. From(e, pool)
    BY <1>3, <2>5, <2>6 DEF From
  <2> QED BY <1>1, <1>3, <1>4, <1>7, <2>6, <2>7, NewSpendContinues DEF AllContinue
<1>8. spends' = spends \/ (HasRefund(r) /\ spends' = PutSpend(spends, e))
  BY DEF PoolStep
<1> QED BY <1>6, <1>7, <1>8

LEMMA LowerEndContinues ==
  ASSUME IInv, LowerEnd
  PROVE  AllContinue
<1>1. /\ Holds(spends, pool) /\ JobFits(job, spends, pool) /\ job.op = "lower"
      /\ spends' = StayingSpends /\ pool' = pool \o ReturnedSpends
  BY DEF IInv, LowerEnd
<1>2. spends \in Seq(Entries) /\ pool \in Seq(Entries)
  BY <1>1 DEF Holds
<1>3. job.back \in Seq(Names)
  BY <1>1, JobOfStep, FeeJobFields
<1>4. ASSUME NEW k \in DOMAIN job.back
      PROVE  Named(spends, job.back[k]) \in DOMAIN spends
  <2>1. job.back[k] \in NamesOf(spends)
    BY <1>1 DEF JobFits
  <2> QED BY <2>1, NamedEffect
<1>5. ReturnedSpends \in Seq(Entries) /\ Range(ReturnedSpends) \subseteq Range(spends)
  <2>1. /\ DOMAIN job.back = 1..Len(job.back) /\ Len(job.back) \in Nat
    BY <1>3, LenProperties
  <2>2. ReturnedSpends = [k \in 1..Len(job.back) |-> spends[Named(spends, job.back[k])]]
    BY <2>1 DEF ReturnedSpends
  <2>3. \A k \in 1..Len(job.back) : spends[Named(spends, job.back[k])] \in Entries
    BY <1>2, <1>4, <2>1, EntryFields
  <2>4. ReturnedSpends \in Seq(Entries)
    BY <2>1, <2>2, <2>3, IsASeq
  <2>5. Range(ReturnedSpends) \subseteq Range(spends)
    BY <1>4, <2>1, <2>2 DEF Range
  <2> QED BY <2>4, <2>5
<1>6. Range(pool') \subseteq Range(spends) \cup Range(pool)
  BY <1>1, <1>2, <1>5, ConcatEffect
<1> QED BY <1>1, <1>6, KeptContinues DEF AllContinue, StayingSpends

-----------------------------------------------------------------------------
(* The iterator.  A call moves what it has visited to the front.           *)

(* How far the spends of a call may be from those before, for a loop over  *)
(* them: replaced are the names the call has put another spend under.      *)
Moves(replaced) ==
  /\ KeepsOrder(spends, spends')
  /\ \A f \in Range(spends') :
       f.name \in NamesOf(spends) \ replaced => From(f, spends)

LEMMA OwnerStepContinues ==
  ASSUME IInv, OwnerCall \/ Step
  PROVE  AllContinue /\ Moves({})
<1>1. AllContinue => Moves({})
  BY DEF AllContinue, Continues, Moves
<1> SUFFICES AllContinue
  BY <1>1
<1>2. Holds(spends, pool)
  BY DEF IInv
<1>3. CASE spends' = spends /\ pool' = pool
  BY <1>2, <1>3, NothingContinues DEF AllContinue
<1>4. ASSUME NEW d \in Digests, AddPreimageCall(d) PROVE AllContinue
  BY <1>2, <1>4, PreimagesContinue DEF AddPreimageCall, AllContinue
<1>5. CASE OwnerCall
  <2>1. (\E d \in Digests : AddPreimageCall(d)) \/ (spends' = spends /\ pool' = pool)
    BY <1>5 DEF OwnerCall, SimpleSpend, SetFeeTo, RecalcAndSetFee, Validate
  <2> QED BY <1>3, <1>4, <2>1
<1>6. CASE Step
  <2>1. (RaiseEnd \/ PoolEnd) => spends' = spends /\ pool' = pool
    BY DEF RaiseEnd, PoolEnd
  <2> QED BY <1>3, <1>6, <2>1, BaseStepContinues, BaseEndContinues, RaiseStepContinues,
             LowerStepContinues, PoolStepContinues, LowerEndContinues DEF Step
<1> QED BY <1>5, <1>6

LEMMA AddSpendMoves ==
  ASSUME IInv, NEW e \in Additions, AddSpend(e)
  PROVE  /\ Moves({e.name})
         /\ Range(spends') \subseteq Range(spends) \cup {e}
         /\ pool' = pool
<1>1. e \in Entries
  BY TxBuilderAssumption
<1>2. spends' = PutSpend(spends, e) /\ pool' = pool
  BY DEF AddSpend
<1>3. spends \in Seq(Entries) /\ NamesDiffer(spends) /\ Holds(spends, pool)
  BY DEF IInv, Holds
<1>4. Range(PutSpend(spends, e)) \subseteq Range(spends) \cup {e}
  BY <1>1, <1>3, PutSpendEffect
<1>5. KeepsOrder(spends, PutSpend(spends, e))
  <2>1. CASE e.name \in NamesOf(spends)
    <3> DEFINE ys == PutSpend(spends, e)
    <3>1. ys = [i \in DOMAIN spends |-> IF spends[i].name = e.name THEN e ELSE spends[i]]
      BY <2>1 DEF PutSpend
    <3> HIDE DEF ys
    <3>2. SameNames(spends, ys)
      BY <3>1 DEF SameNames
    <3>3. KeepsOrder(spends, ys)
      BY <1>3, <3>2, SameNamesKeepOrder
    <3> QED BY <3>3 DEF ys
  <2>2. CASE e.name \notin NamesOf(spends)
    BY <1>1, <1>3, <2>2, AppendKeepsOrder DEF PutSpend
  <2> QED BY <2>1, <2>2
<1>6. ASSUME NEW f \in Range(spends'), f.name \in NamesOf(spends) \ {e.name}
      PROVE  From(f, spends)
  BY <1>2, <1>4, <1>6, FromItself
<1> QED BY <1>2, <1>4, <1>5, <1>6 DEF Moves

(* A set of places that has every place before one it has is a beginning.  *)
LEMMA Beginning ==
  ASSUME NEW M \in Nat, NEW P \in SUBSET (1..M), \A k \in P : \A j \in 1..(k - 1) : j \in P
  PROVE  \E m \in 0..M : P = 1..m
<1> DEFINE T == {n \in Nat : n <= M => \E m \in 0..n : P \cap (1..n) = 1..m}
<1>1. 0 \in T
  <2>1. P \cap (1..0) = 1..0 /\ 0 \in 0..0
    OBVIOUS
  <2> QED BY <2>1
<1>2. ASSUME NEW n \in T PROVE n + 1 \in T
  <2> SUFFICES ASSUME n + 1 <= M PROVE \E m \in 0..(n + 1) : P \cap (1..(n + 1)) = 1..m
    OBVIOUS
  <2>1. PICK m \in 0..n : P \cap (1..n) = 1..m
    OBVIOUS
  <2>2. CASE n + 1 \in P
    <3>1. 1..n \subseteq P
      <4>1. (n + 1) - 1 = n
        OBVIOUS
      <4> QED BY <2>2, <4>1
    <3>2. P \cap (1..(n + 1)) = 1..(n + 1)
      <4>1. 1..(n + 1) = (1..n) \cup {n + 1}
        OBVIOUS
      <4> QED BY <2>2, <3>1, <4>1
    <3>3. n + 1 \in 0..(n + 1)
      OBVIOUS
    <3> QED BY <3>2, <3>3
  <2>3. CASE n + 1 \notin P
    <3>1. 1..(n + 1) = (1..n) \cup {n + 1}
      OBVIOUS
    <3>2. P \cap (1..(n + 1)) = 1..m
      BY <2>1, <2>3, <3>1
    <3>3. m \in 0..(n + 1)
      BY <2>1
    <3> QED BY <3>2, <3>3
  <2> QED BY <2>2, <2>3
<1>3. T = Nat
  <2>1. T \in SUBSET Nat
    OBVIOUS
  <2> HIDE DEF T
  <2> QED BY <1>1, <1>2, <2>1, SetInduction
<1>4. PICK m \in 0..M : P \cap (1..M) = 1..m
  <2>1. M \in T
    <3> HIDE DEF T
    <3> QED BY <1>3
  <2> QED BY <2>1
<1> QED BY <1>4

LEMMA IteratorMoves ==
  ASSUME NEW xs \in Seq(Entries), NEW ys \in Seq(Entries), NamesDiffer(ys), KeepsOrder(xs, ys),
         NEW v \in Nat, v <= Len(xs)
  PROVE  LET seen == {xs[i].name : i \in 1..v}
             w == Cardinality(seen \cap NamesOf(ys))
         IN  /\ w \in Nat /\ w <= Len(ys)
             /\ \A k \in 1..w : ys[k].name \in seen
<1> DEFINE seen == {xs[i].name : i \in 1..v}
           M == Len(ys)
           P == {k \in 1..M : ys[k].name \in seen}
<1>1. M \in Nat /\ DOMAIN ys = 1..M /\ DOMAIN xs = 1..Len(xs) /\ Len(xs) \in Nat
  BY EntryFields
<1>2. 1..v \subseteq DOMAIN xs
  BY <1>1
<1> HIDE DEF M
<1>3. ASSUME NEW k \in P, NEW j \in 1..(k - 1) PROVE j \in P
  <2>1. PICK i \in 1..v : ys[k].name = xs[i].name
    OBVIOUS
  <2>2. k \in DOMAIN ys /\ i \in DOMAIN xs
    BY <1>1, <1>2
  <2>3. PICK h \in 1..(i - 1) : ys[j].name = xs[h].name
    BY <2>1, <2>2 DEF KeepsOrder
  <2>4. h \in 1..v /\ j \in 1..M
    BY <1>1
  <2> QED BY <2>3, <2>4
<1>4. PICK m \in 0..M : P = 1..m
  <2>1. P \in SUBSET (1..M)
    OBVIOUS
  <2> HIDE DEF P
  <2> QED BY <1>1, <1>3, <2>1, Beginning
<1> DEFINE f == [k \in 1..m |-> ys[k].name]
           both == seen \cap NamesOf(ys)
<1>5. m \in Nat /\ m <= M /\ 1..m \subseteq 1..M
  BY <1>1
<1>6. \A k \in 1..m : ys[k].name \in seen
  BY <1>4
<1>7. f \in Bijection(1..m, both)
  <2>1. f \in [1..m -> both]
    BY <1>1, <1>5, <1>6 DEF NamesOf
  <2>2. \A j, k \in 1..m : f[j] = f[k] => j = k
    BY <1>1, <1>5 DEF NamesDiffer
  <2>3. ASSUME NEW n \in both PROVE \E k \in 1..m : f[k] = n
    <3>1. PICK k \in 1..M : ys[k].name = n
      BY <1>1 DEF NamesOf
    <3>2. k \in P
      BY <3>1
    <3> QED BY <1>4, <3>1, <3>2
  <2> HIDE DEF f, both
  <2> QED BY <2>1, <2>2, <2>3 DEF Bijection, Injection, Surjection, IsInjective
<1>8. IsFiniteSet(1..m) /\ Cardinality(1..m) = m
  <2>1. m \in Nat
    BY <1>5
  <2> QED BY ONLY <2>1, PrefixIsFinite
<1>9. Cardinality(both) = m
  <2>1. ExistsBijection(1..m, both)
    BY <1>7 DEF ExistsBijection
  <2> HIDE DEF both
  <2> QED BY <1>8, <2>1, FS_Bijection
<1> QED BY <1>5, <1>6, <1>9 DEF M

-----------------------------------------------------------------------------
(* A session.  What it has visited is signed or was written to since, but  *)
(* for the spend whose signer it waits for; and if that one was not        *)
(* written to, the signer was asked about the content it has.              *)

SignedSoFar(s, sp) ==
  \A i \in 1..s.visited :
    \/ sp[i].name \in s.stale
    \/ ~ ListedIn(sp[i].sb.witness.prims, s.pkh)
    \/ sp[i].sb.witness.sigs[s.pkh] = SigHash(sp[i].sb)
    \/ s.ask # NoAsk /\ s.ask.held /\ s.ask.name = sp[i].name

AskFits(s, sp) ==
  \A i \in 1..s.visited :
    (/\ s.ask # NoAsk /\ s.ask.held /\ s.ask.name = sp[i].name
     /\ sp[i].name \notin s.stale)
    => s.ask.content = SigHash(sp[i].sb)

SessionFits(s, sp) ==
  /\ s \in SessionStates
  /\ s.visited <= Len(sp)
  /\ SignedSoFar(s, sp)
  /\ AskFits(s, sp)

LEMMA SessionFields ==
  ASSUME NEW s \in SessionStates
  PROVE  /\ s.pkh \in Pkhs /\ s.visited \in Nat /\ s.ask \in Asks \cup {NoAsk}
         /\ s.stale \in SUBSET Names
         /\ s.ask # NoAsk => /\ s.ask.name \in Names /\ s.ask.content \in Contents
                             /\ s.ask.held \in BOOLEAN
BY DEF SessionStates, Asks

(* The loop goes one spend further. *)
LEMMA VisitFits ==
  ASSUME NEW s, SessionFits(s, spends), s.ask = NoAsk, ~ AtEnd(s), Holds(spends, pool)
  PROVE  SessionFits(Visit(s), spends)
<1> DEFINE e == spends[s.visited + 1]
           v == s.visited
           past == Past(s)
           ask == [name |-> e.name, content |-> SigHash(e.sb), held |-> TRUE]
           asking == [past EXCEPT !.ask = ask]
<1>1. s \in SessionStates /\ v \in Nat /\ v <= Len(spends) /\ s.pkh \in Pkhs
      /\ s.stale \in SUBSET Names
  BY SessionFields DEF SessionFits
<1>2. spends \in Seq(Entries) /\ NamesDiffer(spends) /\ Len(spends) \in Nat
      /\ DOMAIN spends = 1..Len(spends)
  BY EntryFields DEF Holds
<1>3. v + 1 \in 1..Len(spends) /\ v + 1 <= Len(spends) /\ v + 1 \in Nat
  BY <1>1, <1>2 DEF AtEnd
<1>4. e.name \in Names /\ e.sb \in Spends
  BY <1>2, <1>3, EntryFields
<1>5. \A i \in 1..(v + 1) : i \in 1..v \/ i = v + 1
  BY <1>1
<1>6. \A i \in 1..v : i \in DOMAIN spends /\ spends[i].name # e.name
  <2>1. \A i \in 1..v : i \in DOMAIN spends /\ i # v + 1
    BY <1>1, <1>2
  <2>2. v + 1 \in DOMAIN spends
    BY <1>2, <1>3
  <2> QED BY <1>2, <2>1, <2>2 DEF NamesDiffer
<1>7. /\ past \in SessionStates /\ past.visited = v + 1 /\ past.pkh = s.pkh
      /\ past.ask = NoAsk /\ past.stale = s.stale \ {e.name}
  BY <1>1, <1>3 DEF Past, Coming, SessionStates
<1>8. ask \in Asks /\ ask # NoAsk
  <2>1. SigHash(e.sb) \in Contents
    BY <1>4, SigHashType
  <2>2. ask \in Asks
    <3> HIDE DEF e
    <3> QED BY <1>4, <2>1 DEF Asks
  <2> HIDE DEF ask
  <2> QED BY <2>2, TxSigningAssumption
<1>9. /\ asking \in SessionStates /\ asking.visited = v + 1 /\ asking.pkh = s.pkh
      /\ asking.ask = ask /\ asking.stale = s.stale \ {e.name}
  <2> HIDE DEF past, ask
  <2> QED BY <1>7, <1>8 DEF SessionStates
<1>10. \A i \in 1..v :
         \/ spends[i].name \in s.stale
         \/ ~ ListedIn(spends[i].sb.witness.prims, s.pkh)
         \/ spends[i].sb.witness.sigs[s.pkh] = SigHash(spends[i].sb)
  BY DEF SessionFits, SignedSoFar
<1>11. CASE ListedIn(e.sb.witness.prims, s.pkh)
  <2>1. Visit(s) = asking
    BY <1>11 DEF Visit, Asking, Coming
  <2>2. ask.name = e.name /\ ask.content = SigHash(e.sb) /\ ask.held
    OBVIOUS
  <2> HIDE DEF asking, ask
  <2>3. SignedSoFar(asking, spends)
    BY <1>5, <1>6, <1>8, <1>9, <1>10, <2>2 DEF SignedSoFar
  <2>4. AskFits(asking, spends)
    <3>1. \A i \in 1..(v + 1) : spends[i].name = e.name => i = v + 1
      BY <1>5, <1>6
    <3> QED BY <1>9, <2>2, <3>1 DEF AskFits
  <2> QED BY <1>3, <1>9, <2>1, <2>3, <2>4 DEF SessionFits
<1>12. CASE ~ ListedIn(e.sb.witness.prims, s.pkh)
  <2>1. Visit(s) = past
    BY <1>12 DEF Visit, Coming
  <2> HIDE DEF past
  <2>2. SignedSoFar(past, spends)
    BY <1>5, <1>6, <1>7, <1>10, <1>12 DEF SignedSoFar
  <2>3. AskFits(past, spends)
    BY <1>7 DEF AskFits
  <2> QED BY <1>3, <1>7, <2>1, <2>2, <2>3 DEF SessionFits
<1> QED BY <1>11, <1>12

LEMMA StartedFits ==
  ASSUME NEW pkh \in Pkhs, spends \in Seq(Entries)
  PROVE  SessionFits(Started(pkh), spends) /\ Started(pkh).ask = NoAsk
                                           /\ Started(pkh).visited = 0
<1> DEFINE s == Started(pkh)
<1>1. s = [pkh |-> pkh, visited |-> 0, ask |-> NoAsk, stale |-> {}]
  BY DEF Started
<1>2. s \in SessionStates /\ s.visited = 0 /\ s.ask = NoAsk
  BY <1>1 DEF SessionStates
<1>3. Len(spends) \in Nat
  BY EntryFields
<1> HIDE DEF s
<1>4. SignedSoFar(s, spends) /\ AskFits(s, spends)
  BY <1>2 DEF SignedSoFar, AskFits
<1> QED BY <1>2, <1>3, <1>4 DEF SessionFits, s

LEMMA NamedIs ==
  ASSUME NEW xs, NamesDiffer(xs), NEW i \in DOMAIN xs
  PROVE  Named(xs, xs[i].name) = i
<1>1. xs[i].name \in NamesOf(xs)
  BY DEF NamesOf
<1>2. Named(xs, xs[i].name) \in DOMAIN xs /\ xs[Named(xs, xs[i].name)].name = xs[i].name
  BY <1>1, NamedEffect
<1> QED BY <1>2 DEF NamesDiffer

(* The session follows what a call of the owner does to the spends.        *)
LEMMA FollowedFits ==
  ASSUME NEW s, SessionFits(s, spends), Holds(spends, pool), NEW pl, Holds(spends', pl),
         NEW replaced, Moves(replaced)
  PROVE  SessionFits(Followed(s, replaced), spends')
<1> DEFINE t == Followed(s, replaced)
           v == s.visited
           w == VisitedAfter(s)
           more == {n \in SeenBy(s) : n \in replaced \/ ~ Unwritten(n)}
<1>1. s \in SessionStates /\ v \in Nat /\ v <= Len(spends) /\ s.stale \in SUBSET Names
      /\ SignedSoFar(s, spends) /\ AskFits(s, spends)
  BY SessionFields DEF SessionFits
<1>2. /\ spends \in Seq(Entries) /\ NamesDiffer(spends)
      /\ spends' \in Seq(Entries) /\ NamesDiffer(spends')
  BY DEF Holds
<1>3. /\ Len(spends) \in Nat /\ DOMAIN spends = 1..Len(spends)
      /\ Len(spends') \in Nat /\ DOMAIN spends' = 1..Len(spends')
  BY <1>2, EntryFields
<1>4. /\ w \in Nat /\ w <= Len(spends')
      /\ \A k \in 1..w : spends'[k].name \in SeenBy(s)
  BY <1>1, <1>2, IteratorMoves DEF VisitedAfter, SeenBy, Moves
<1>5. more \in SUBSET Names
  <2>1. \A i \in 1..v : spends[i].name \in Names
    BY <1>1, <1>2, <1>3, EntryFields
  <2>2. SeenBy(s) \subseteq Names
    BY <2>1 DEF SeenBy
  <2> QED BY <2>2
<1>6. /\ AskAfter(s.ask, replaced) \in Asks \cup {NoAsk}
      /\ s.ask = NoAsk => AskAfter(s.ask, replaced) = NoAsk
      /\ s.ask # NoAsk =>
           /\ AskAfter(s.ask, replaced) \in Asks
           /\ AskAfter(s.ask, replaced).name = s.ask.name
           /\ AskAfter(s.ask, replaced).content = s.ask.content
           /\ AskAfter(s.ask, replaced).held =
                (/\ s.ask.held /\ s.ask.name \notin replaced
                 /\ s.ask.name \in NamesOf(spends') \cup NamesOf(pool'))
  <2>1. s.ask \in Asks \cup {NoAsk}
    BY <1>1, SessionFields
  <2> QED BY <2>1 DEF AskAfter, Asks
<1> HIDE DEF w, more
<1>7. /\ t \in SessionStates /\ t.visited = w /\ t.stale = s.stale \cup more
      /\ t.pkh = s.pkh /\ t.ask = AskAfter(s.ask, replaced)
  <2>1. t = [s EXCEPT !.visited = w, !.stale = @ \cup more, !.ask = AskAfter(@, replaced)]
    BY DEF Followed, w, more
  <2> QED BY <1>1, <1>4, <1>5, <1>6, <2>1 DEF SessionStates
<1> HIDE DEF t
<1>8. ASSUME NEW k \in 1..w, spends'[k].name \notin t.stale
      PROVE  \E i \in 1..v :
               /\ spends[i].name = spends'[k].name /\ spends[i].name \notin replaced
               /\ spends[i].name \notin s.stale
               /\ SigHash(spends'[k].sb) = SigHash(spends[i].sb)
               /\ spends'[k].sb.witness.sigs = spends[i].sb.witness.sigs
               /\ spends'[k].sb.witness.prims = spends[i].sb.witness.prims
  <2> DEFINE n == spends'[k].name
  <2>1. n \in SeenBy(s)
    BY <1>4
  <2>2. PICK i \in 1..v : spends[i].name = n
    BY <2>1 DEF SeenBy
  <2>3. n \notin replaced /\ Unwritten(n) /\ n \notin s.stale
    BY <1>7, <1>8, <2>1 DEF more
  <2>4. i \in DOMAIN spends /\ k \in DOMAIN spends'
    BY <1>1, <1>3, <1>4
  <2>5. Named(spends, n) = i /\ Named(spends', n) = k
    BY <1>2, <2>2, <2>4, NamedIs
  <2>6. SigHash(spends'[k].sb) = SigHash(spends[i].sb)
        /\ spends'[k].sb.witness.sigs = spends[i].sb.witness.sigs
    <3> HIDE DEF n
    <3> QED BY <2>3, <2>5 DEF Unwritten
  <2>7. spends'[k].sb.witness.prims = spends[i].sb.witness.prims
    <3>1. spends'[k] \in Range(spends') /\ n \in NamesOf(spends)
      BY <2>2, <2>4 DEF Range, NamesOf
    <3>2. From(spends'[k], spends)
      BY <2>3, <3>1 DEF Moves
    <3>3. PICK h \in DOMAIN spends : spends[h].name = n /\ Stays(spends[h].sb, spends'[k].sb)
      BY <3>2 DEF From, Range
    <3>4. h = i
      BY <1>2, <2>2, <2>4, <3>3 DEF NamesDiffer
    <3> QED BY <3>3, <3>4 DEF Stays
  <2> QED BY <2>2, <2>3, <2>6, <2>7
<1>9. ASSUME NEW k \in 1..w, s.ask # NoAsk, s.ask.held, s.ask.name = spends'[k].name,
             s.ask.name \notin replaced
      PROVE  t.ask # NoAsk /\ t.ask.held /\ t.ask.name = spends'[k].name
  <2>1. spends'[k].name \in NamesOf(spends')
    BY <1>3, <1>4 DEF NamesOf
  <2> QED BY <1>6, <1>7, <1>9, <2>1, TxSigningAssumption
<1>10. SignedSoFar(t, spends')
  <2>1. ASSUME NEW k \in 1..w, spends'[k].name \notin t.stale
        PROVE  \/ ~ ListedIn(spends'[k].sb.witness.prims, t.pkh)
               \/ spends'[k].sb.witness.sigs[t.pkh] = SigHash(spends'[k].sb)
               \/ t.ask # NoAsk /\ t.ask.held /\ t.ask.name = spends'[k].name
    <3>1. PICK i \in 1..v :
               /\ spends[i].name = spends'[k].name /\ spends[i].name \notin replaced
               /\ spends[i].name \notin s.stale
               /\ SigHash(spends'[k].sb) = SigHash(spends[i].sb)
               /\ spends'[k].sb.witness.sigs = spends[i].sb.witness.sigs
               /\ spends'[k].sb.witness.prims = spends[i].sb.witness.prims
      BY <1>8, <2>1
    <3>2. \/ ~ ListedIn(spends[i].sb.witness.prims, s.pkh)
          \/ spends[i].sb.witness.sigs[s.pkh] = SigHash(spends[i].sb)
          \/ s.ask # NoAsk /\ s.ask.held /\ s.ask.name = spends[i].name
      BY <1>1, <3>1 DEF SignedSoFar
    <3> QED BY <1>7, <1>9, <3>1, <3>2
  <2> QED BY <1>7, <2>1 DEF SignedSoFar
<1>11. AskFits(t, spends')
  <2>1. ASSUME NEW k \in 1..w, t.ask # NoAsk, t.ask.held, t.ask.name = spends'[k].name,
               spends'[k].name \notin t.stale
        PROVE  t.ask.content = SigHash(spends'[k].sb)
    <3>1. s.ask # NoAsk /\ s.ask.held /\ s.ask.name = t.ask.name
          /\ s.ask.content = t.ask.content
      BY <1>6, <1>7, <2>1
    <3>2. PICK i \in 1..v :
               /\ spends[i].name = spends'[k].name /\ spends[i].name \notin s.stale
               /\ SigHash(spends'[k].sb) = SigHash(spends[i].sb)
      BY <1>8, <2>1
    <3> QED BY <1>1, <2>1, <3>1, <3>2 DEF AskFits
  <2> QED BY <1>7, <2>1 DEF AskFits
<1> QED BY <1>4, <1>7, <1>10, <1>11 DEF SessionFits, t

-----------------------------------------------------------------------------
(* An answer.                                                              *)

SameMoney(s, t) ==
  t.assets = s.assets /\ t.refund = s.refund /\ t.seeds = s.seeds /\ t.fee = s.fee

LEMMA SignedEffect ==
  ASSUME NEW xs \in Seq(Entries), NEW ask \in Asks, NEW pkh \in Pkhs
  PROVE  LET new == Signed(xs, ask, pkh)
         IN  /\ new \in Seq(Entries) /\ Len(new) = Len(xs) /\ SameNames(xs, new)
             /\ \A i \in DOMAIN xs :
                  LET s == xs[i].sb
                      t == new[i].sb
                  IN  /\ SameMoney(s, t) /\ SigHash(t) = SigHash(s)
                      /\ t.witness.prims = s.witness.prims
                      /\ t.witness.sigs = IF ask.held /\ xs[i].name = ask.name
                                          THEN [s.witness.sigs EXCEPT ![pkh] = ask.content]
                                          ELSE s.witness.sigs
<1> DEFINE new == Signed(xs, ask, pkh)
<1>1. ask.content \in Contents
  BY DEF Asks
<1>2. DOMAIN new = DOMAIN xs /\ new = [i \in DOMAIN new |-> new[i]]
  BY DEF Signed
<1>3. ASSUME NEW i \in DOMAIN xs
      PROVE  LET s == xs[i].sb
                 t == new[i].sb
             IN  /\ new[i] \in Entries /\ new[i].name = xs[i].name
                 /\ SameMoney(s, t) /\ SigHash(t) = SigHash(s)
                 /\ t.witness.prims = s.witness.prims
                 /\ t.witness.sigs = IF ask.held /\ xs[i].name = ask.name
                                     THEN [s.witness.sigs EXCEPT ![pkh] = ask.content]
                                     ELSE s.witness.sigs
  <2> DEFINE s == xs[i].sb
             u == PushPkhSignature(s, pkh, ask.content)
  <2>1. xs[i] \in Entries /\ s \in Spends
    BY EntryFields
  <2>2. /\ u \in Spends /\ SameMoney(s, u)
        /\ SigHash(u) = SigHash(s) /\ u.witness.prims = s.witness.prims
        /\ u.witness.sigs = [s.witness.sigs EXCEPT ![pkh] = ask.content]
    BY <1>1, <2>1, PushPkhSignatureType, PushPkhSignatureFields, PushPkhSignatureEffect
    DEF SameMoney
  <2>3. new[i] = IF ask.held /\ xs[i].name = ask.name THEN [xs[i] EXCEPT !.sb = u] ELSE xs[i]
    BY DEF Signed
  <2> HIDE DEF new, u
  <2>4. CASE ~ (ask.held /\ xs[i].name = ask.name)
    BY <2>1, <2>3, <2>4 DEF SameMoney
  <2>5. CASE ask.held /\ xs[i].name = ask.name
    <3>1. new[i] \in Entries /\ new[i].name = xs[i].name /\ new[i].sb = u
      BY <2>1, <2>2, <2>3, <2>5 DEF Entries
    <3> QED BY <2>2, <2>5, <3>1
  <2> QED BY <2>4, <2>5
<1> HIDE DEF new
<1>4. new \in Seq(Entries) /\ Len(new) = Len(xs) /\ SameNames(xs, new)
  BY <1>2, <1>3, EachEntry
<1> QED BY <1>3, <1>4 DEF new

LEMMA SignedHold ==
  ASSUME NEW sp, NEW pl, Holds(sp, pl), NEW ask \in Asks, NEW pkh \in Pkhs
  PROVE  Holds(Signed(sp, ask, pkh), Signed(pl, ask, pkh))
<1> DEFINE sp2 == Signed(sp, ask, pkh)
           pl2 == Signed(pl, ask, pkh)
<1>1. sp \in Seq(Entries) /\ pl \in Seq(Entries)
  BY DEF Holds
<1>2. ASSUME NEW xs \in Seq(Entries), AllBalanced(xs)
      PROVE  LET new == Signed(xs, ask, pkh)
             IN  new \in Seq(Entries) /\ SameNames(xs, new) /\ AllBalanced(new)
  <2> DEFINE new == Signed(xs, ask, pkh)
  <2>1. new \in Seq(Entries) /\ SameNames(xs, new)
    BY SignedEffect
  <2>2. ASSUME NEW i \in DOMAIN xs
        PROVE  SameMoney(xs[i].sb, new[i].sb)
    BY SignedEffect
  <2> HIDE DEF new
  <2>3. AllBalanced(new)
    BY <1>2, <2>1, <2>2 DEF AllBalanced, IsBalanced, SameNames, SameMoney
  <2> QED BY <2>1, <2>3 DEF new
<1>3. sp2 \in Seq(Entries) /\ SameNames(sp, sp2) /\ AllBalanced(sp2)
  BY <1>1, <1>2 DEF Holds
<1>4. pl2 \in Seq(Entries) /\ SameNames(pl, pl2) /\ AllBalanced(pl2)
  BY <1>1, <1>2 DEF Holds
<1> HIDE DEF sp2, pl2
<1>5. Holds(sp2, pl2)
  BY <1>3, <1>4, SameNamesEffect DEF Holds
<1> QED BY <1>5 DEF sp2, pl2

(* The session that asked.  Its own answer is never late for a spend it    *)
(* has visited and that is not stale.                                      *)
LEMMA OwnAnswerFits ==
  ASSUME NEW s, NEW sp, SessionFits(s, sp), sp \in Seq(Entries), s.ask # NoAsk
  PROVE  SessionFits([s EXCEPT !.ask = NoAsk], Signed(sp, s.ask, s.pkh))
<1> DEFINE t == [s EXCEPT !.ask = NoAsk]
           new == Signed(sp, s.ask, s.pkh)
<1>1. s \in SessionStates /\ s.ask \in Asks /\ s.pkh \in Pkhs /\ s.visited \in Nat
      /\ s.visited <= Len(sp) /\ SignedSoFar(s, sp) /\ AskFits(s, sp)
  BY SessionFields DEF SessionFits
<1>2. t \in SessionStates /\ t.visited = s.visited /\ t.stale = s.stale /\ t.pkh = s.pkh
      /\ t.ask = NoAsk
  BY <1>1 DEF SessionStates
<1>3. DOMAIN sp = 1..Len(sp) /\ Len(sp) \in Nat
  BY EntryFields
<1>4. /\ Len(new) = Len(sp)
      /\ \A i \in DOMAIN sp :
           /\ new[i].name = sp[i].name /\ SigHash(new[i].sb) = SigHash(sp[i].sb)
           /\ new[i].sb.witness.prims = sp[i].sb.witness.prims
           /\ new[i].sb.witness.sigs =
                IF s.ask.held /\ sp[i].name = s.ask.name
                THEN [sp[i].sb.witness.sigs EXCEPT ![s.pkh] = s.ask.content]
                ELSE sp[i].sb.witness.sigs
           /\ sp[i].sb.witness.sigs \in Sigs
  <2>1. \A i \in DOMAIN sp : sp[i].sb.witness.sigs \in Sigs
    BY EntryFields, SpendFields
  <2> QED BY <1>1, <2>1, SignedEffect DEF SameNames
<1> HIDE DEF t, new
<1>5. ASSUME NEW i \in 1..s.visited, sp[i].name \notin s.stale,
             ListedIn(sp[i].sb.witness.prims, s.pkh)
      PROVE  new[i].sb.witness.sigs[s.pkh] = SigHash(sp[i].sb)
  <2>1. i \in DOMAIN sp
    BY <1>1, <1>3
  <2>2. CASE s.ask.held /\ sp[i].name = s.ask.name
    <3>1. s.ask.content = SigHash(sp[i].sb)
      BY <1>1, <1>5, <2>2 DEF AskFits
    <3> QED BY <1>1, <1>4, <2>1, <2>2, <3>1 DEF Sigs
  <2>3. CASE ~ (s.ask.held /\ sp[i].name = s.ask.name)
    BY <1>1, <1>4, <1>5, <2>1, <2>3 DEF SignedSoFar
  <2> QED BY <2>2, <2>3
<1>6. \A i \in 1..s.visited : i \in DOMAIN sp
  BY <1>1, <1>3
<1>7. SignedSoFar(t, new)
  BY <1>2, <1>4, <1>5, <1>6 DEF SignedSoFar
<1>8. AskFits(t, new)
  BY <1>2 DEF AskFits
<1> QED BY <1>1, <1>2, <1>4, <1>7, <1>8 DEF SessionFits, t, new

(* Another session: of another key, or of the same.                        *)
LEMMA OtherAnswerFits ==
  ASSUME NEW s, SessionFits(s, spends), spends \in Seq(Entries), NEW ask \in Asks,
         NEW pkh \in Pkhs
  PROVE  SessionFits(IF TooLate(ask) /\ s.pkh = pkh
                     THEN [s EXCEPT !.stale = @ \cup {ask.name}] ELSE s,
                     Signed(spends, ask, pkh))
<1> DEFINE t == IF TooLate(ask) /\ s.pkh = pkh
                THEN [s EXCEPT !.stale = @ \cup {ask.name}] ELSE s
           new == Signed(spends, ask, pkh)
<1>1. s \in SessionStates /\ s.visited \in Nat /\ s.pkh \in Pkhs /\ s.stale \in SUBSET Names
      /\ s.visited <= Len(spends) /\ SignedSoFar(s, spends) /\ AskFits(s, spends)
  BY SessionFields DEF SessionFits
<1>2. ask.name \in Names
  BY DEF Asks
<1>3. /\ t \in SessionStates /\ t.visited = s.visited /\ t.pkh = s.pkh /\ t.ask = s.ask
      /\ s.stale \subseteq t.stale
      /\ TooLate(ask) /\ s.pkh = pkh => ask.name \in t.stale
  BY <1>1, <1>2 DEF SessionStates
<1>4. DOMAIN spends = 1..Len(spends) /\ Len(spends) \in Nat
  BY EntryFields
<1>5. /\ Len(new) = Len(spends)
      /\ \A i \in DOMAIN spends :
           /\ new[i].name = spends[i].name /\ SigHash(new[i].sb) = SigHash(spends[i].sb)
           /\ new[i].sb.witness.prims = spends[i].sb.witness.prims
           /\ new[i].sb.witness.sigs =
                IF ask.held /\ spends[i].name = ask.name
                THEN [spends[i].sb.witness.sigs EXCEPT ![pkh] = ask.content]
                ELSE spends[i].sb.witness.sigs
           /\ spends[i].sb.witness.sigs \in Sigs
  <2>1. \A i \in DOMAIN spends : spends[i].sb.witness.sigs \in Sigs
    BY EntryFields, SpendFields
  <2> QED BY <2>1, SignedEffect DEF SameNames
<1> HIDE DEF t, new
<1>6. \A i \in 1..s.visited : i \in DOMAIN spends
  BY <1>1, <1>4
<1>7. ASSUME NEW i \in 1..s.visited, spends[i].name \notin t.stale,
             spends[i].sb.witness.sigs[s.pkh] = SigHash(spends[i].sb)
      PROVE  new[i].sb.witness.sigs[s.pkh] = SigHash(spends[i].sb)
  <2>1. i \in DOMAIN spends
    BY <1>6
  <2>2. CASE ask.held /\ spends[i].name = ask.name /\ s.pkh = pkh
    <3>1. ~ TooLate(ask)
      BY <1>3, <1>7, <2>2
    <3>2. spends[i] \in Range(spends) \cup Range(pool)
      BY <2>1 DEF Range
    <3>3. SigHash(spends[i].sb) = ask.content
      BY <2>2, <3>1, <3>2 DEF TooLate
    <3> QED BY <1>1, <1>5, <2>1, <2>2, <3>3 DEF Sigs
  <2>3. CASE ~ (ask.held /\ spends[i].name = ask.name /\ s.pkh = pkh)
    BY <1>1, <1>5, <1>7, <2>1, <2>3 DEF Sigs
  <2> QED BY <2>2, <2>3
<1>8. SignedSoFar(t, new)
  <2>1. ASSUME NEW i \in 1..s.visited, new[i].name \notin t.stale
        PROVE  \/ ~ ListedIn(new[i].sb.witness.prims, t.pkh)
               \/ new[i].sb.witness.sigs[t.pkh] = SigHash(new[i].sb)
               \/ t.ask # NoAsk /\ t.ask.held /\ t.ask.name = new[i].name
    <3>1. i \in DOMAIN spends /\ new[i].name = spends[i].name
      BY <1>5, <1>6
    <3>2. \/ ~ ListedIn(spends[i].sb.witness.prims, s.pkh)
          \/ spends[i].sb.witness.sigs[s.pkh] = SigHash(spends[i].sb)
          \/ s.ask # NoAsk /\ s.ask.held /\ s.ask.name = spends[i].name
      BY <1>1, <1>3, <2>1, <3>1 DEF SignedSoFar
    <3>3. CASE ~ ListedIn(spends[i].sb.witness.prims, s.pkh)
      BY <1>3, <1>5, <3>1, <3>3
    <3>4. CASE spends[i].sb.witness.sigs[s.pkh] = SigHash(spends[i].sb)
      <4>1. new[i].sb.witness.sigs[s.pkh] = SigHash(spends[i].sb)
        BY <1>7, <2>1, <3>1, <3>4
      <4>2. SigHash(new[i].sb) = SigHash(spends[i].sb) /\ t.pkh = s.pkh
        BY <1>3, <1>5, <3>1
      <4> QED BY <4>1, <4>2
    <3>5. CASE s.ask # NoAsk /\ s.ask.held /\ s.ask.name = spends[i].name
      BY <1>3, <3>1, <3>5
    <3> QED BY <3>2, <3>3, <3>4, <3>5
  <2> QED BY <1>3, <2>1 DEF SignedSoFar
<1>9. AskFits(t, new)
  BY <1>1, <1>3, <1>5, <1>6, ZenonT(30) DEF AskFits
<1> QED BY <1>1, <1>3, <1>5, <1>8, <1>9 DEF SessionFits, t, new

-----------------------------------------------------------------------------
(* The signatures there are cover what their spends have, but for those of *)
(* the spends listed in outdated.                                          *)

AllCover(xs, out) == \A e \in Range(xs) : e.name \in out \/ SignaturesCover(e.sb)

LEMMA UnsignedCovers ==
  ASSUME NEW s, Unsigned(s)
  PROVE  SignaturesCover(s)
BY DEF Unsigned, NoSigs, SignaturesCover

LEMMA StaysCovers ==
  ASSUME NEW s, NEW t, Stays(s, t), SignaturesCover(s)
  PROVE  SignaturesCover(t)
BY UnsignedCovers DEF Stays, SignaturesCover

(* The names left in outdated after a call of the owner. *)
LEMMA CoverKept ==
  ASSUME NEW xs, NEW out, NEW signed, SignedNames(xs) \subseteq signed,
         \A f \in Range(xs) :
           Unsigned(f.sb) \/ SignaturesCover(f.sb) \/ f.name \in out
  PROVE  AllCover(xs, out \cap signed)
<1>1. ASSUME NEW f \in Range(xs), ~ SignaturesCover(f.sb) PROVE f.name \in out \cap signed
  <2>1. ~ Unsigned(f.sb)
    BY <1>1, UnsignedCovers
  <2>2. f.name \in SignedNames(xs)
    BY <2>1 DEF SignedNames, Unsigned
  <2> QED BY <1>1, <2>1, <2>2
<1> QED BY <1>1 DEF AllCover

LEMMA FromCovers ==
  ASSUME NEW xs, NEW out, AllCover(xs, out), NEW f, From(f, xs)
  PROVE  SignaturesCover(f.sb) \/ f.name \in out
<1>1. PICK e \in Range(xs) : f.name = e.name /\ Stays(e.sb, f.sb)
  BY DEF From
<1>2. e.name \in out \/ SignaturesCover(e.sb)
  BY DEF AllCover
<1> QED BY <1>1, <1>2, StaysCovers

LEMMA ContinuesCovers ==
  ASSUME AllContinue, AllCover(spends, outdated), AllCover(pool, outdated), Follow({})
  PROVE  AllCover(spends', outdated') /\ AllCover(pool', outdated')
<1> DEFINE signed == SignedNames(spends') \cup SignedNames(pool')
<1>1. outdated' = outdated \cap signed
  BY DEF Follow
<1>2. SignedNames(spends') \subseteq signed /\ SignedNames(pool') \subseteq signed
  OBVIOUS
<1> HIDE DEF signed
<1>3. \A f \in Range(spends') : Unsigned(f.sb) \/ From(f, spends) \/ From(f, pool)
  BY DEF AllContinue, Continues
<1>4. \A f \in Range(spends') :
        Unsigned(f.sb) \/ SignaturesCover(f.sb) \/ f.name \in outdated
  BY <1>3, FromCovers
<1>5. \A f \in Range(pool') : Unsigned(f.sb) \/ From(f, spends) \/ From(f, pool)
  BY DEF AllContinue, Continues
<1>6. \A f \in Range(pool') :
        Unsigned(f.sb) \/ SignaturesCover(f.sb) \/ f.name \in outdated
  BY <1>5, FromCovers
<1> QED BY <1>1, <1>2, <1>4, <1>6, CoverKept

LEMMA AddSpendCovers ==
  ASSUME IInv, NEW e \in Additions, AddSpend(e), AllCover(spends, outdated),
         AllCover(pool, outdated), Follow({e.name})
  PROVE  AllCover(spends', outdated') /\ AllCover(pool', outdated')
<1> DEFINE signed == SignedNames(spends') \cup SignedNames(pool')
<1>1. outdated' = outdated \cap signed
  BY DEF Follow
<1>2. SignedNames(spends') \subseteq signed /\ SignedNames(pool') \subseteq signed
  OBVIOUS
<1> HIDE DEF signed
<1>3. Range(spends') \subseteq Range(spends) \cup {e} /\ pool' = pool
  BY AddSpendMoves
<1>4. SignaturesCover(e.sb)
  BY SigningCallerAssumption
<1>5. \A f \in Range(spends') : SignaturesCover(f.sb) \/ f.name \in outdated
  BY <1>3, <1>4 DEF AllCover
<1>6. \A f \in Range(pool') : SignaturesCover(f.sb) \/ f.name \in outdated
  BY <1>3 DEF AllCover
<1> QED BY <1>1, <1>2, <1>5, <1>6, CoverKept

LEMMA AnswerCovers ==
  ASSUME NEW xs \in Seq(Entries), Range(xs) \subseteq Range(spends) \cup Range(pool),
         NEW ask \in Asks, NEW pkh \in Pkhs, AllCover(xs, outdated)
  PROVE  AllCover(Signed(xs, ask, pkh),
                  IF TooLate(ask) THEN outdated \cup {ask.name} ELSE outdated)
<1> DEFINE new == Signed(xs, ask, pkh)
           out == IF TooLate(ask) THEN outdated \cup {ask.name} ELSE outdated
<1>1. SameNames(xs, new)
  BY SignedEffect
<1>2. ASSUME NEW i \in DOMAIN xs
      PROVE  /\ SigHash(new[i].sb) = SigHash(xs[i].sb)
             /\ new[i].sb.witness.sigs =
                  IF ask.held /\ xs[i].name = ask.name
                  THEN [xs[i].sb.witness.sigs EXCEPT ![pkh] = ask.content]
                  ELSE xs[i].sb.witness.sigs
  BY SignedEffect
<1>3. outdated \subseteq out /\ (TooLate(ask) => ask.name \in out)
  OBVIOUS
<1> HIDE DEF new, out
<1>4. ASSUME NEW i \in DOMAIN xs, xs[i].name \notin out PROVE SignaturesCover(new[i].sb)
  <2>1. xs[i] \in Range(xs)
    BY DEF Range
  <2>2. SignaturesCover(xs[i].sb)
    BY <1>3, <1>4, <2>1 DEF AllCover
  <2>3. CASE ~ (ask.held /\ xs[i].name = ask.name)
    BY <1>2, <2>2, <2>3 DEF SignaturesCover
  <2>4. CASE ask.held /\ xs[i].name = ask.name
    <3>1. ~ TooLate(ask)
      BY <1>3, <1>4, <2>4
    <3>2. SigHash(xs[i].sb) = ask.content
      BY <2>1, <2>4, <3>1 DEF TooLate
    <3>3. xs[i].sb.witness.sigs \in Sigs
      BY EntryFields, SpendFields
    <3> QED BY <1>2, <2>2, <2>4, <3>2, <3>3 DEF SignaturesCover, Sigs
  <2> QED BY <2>3, <2>4
<1>5. AllCover(new, out)
  <2>1. ASSUME NEW f \in Range(new) PROVE f.name \in out \/ SignaturesCover(f.sb)
    <3>1. PICK i \in DOMAIN xs : f = new[i] /\ xs[i].name = f.name
      BY <1>1 DEF Range, SameNames
    <3> QED BY <1>4, <3>1
  <2> QED BY <2>1 DEF AllCover
<1> QED BY <1>5 DEF new, out

-----------------------------------------------------------------------------
(* The inductive invariant, that of the builder included.                  *)

SigningIInv ==
  /\ IInv
  /\ session \in [Sessions -> SessionStates \cup {NoSession}]
  /\ \A c \in Sessions : session[c] # NoSession => SessionFits(session[c], spends)
  /\ starts \in 0..MaxStarts
  /\ outdated \subseteq Names
  /\ AllCover(spends, outdated) /\ AllCover(pool, outdated)

LEMMA SigningInitInvariant == SigningInit => SigningIInv
<1> SUFFICES ASSUME SigningInit PROVE SigningIInv
  OBVIOUS
<1>1. IInv /\ spends = << >> /\ pool = << >>
  BY InitInvariant DEF SigningInit, Init
<1>2. AllCover(<< >>, outdated)
  BY DEF AllCover, Range
<1>3. session = [c \in Sessions |-> NoSession] /\ starts = 0 /\ outdated = {}
  BY DEF SigningInit
<1>4. 0 \in 0..MaxStarts
  BY TxSigningAssumption
<1> QED BY <1>1, <1>2, <1>3, <1>4 DEF SigningIInv

(* The sessions follow a call of the owner. *)
LEMMA FollowFits ==
  ASSUME SigningIInv, IInv', NEW replaced, Moves(replaced), Follow(replaced)
  PROVE  /\ session' \in [Sessions -> SessionStates \cup {NoSession}]
         /\ \A c \in Sessions : session'[c] # NoSession => SessionFits(session'[c], spends')
         /\ \A c \in Running : session'[c] # NoSession
         /\ starts' \in 0..MaxStarts /\ outdated' \subseteq Names
<1>1. /\ session' = [c \in Sessions |->
           IF c \in Running THEN Followed(session[c], replaced) ELSE NoSession]
      /\ outdated' = outdated \cap (SignedNames(spends') \cup SignedNames(pool'))
      /\ starts' = starts
  BY DEF Follow
<1>2. Holds(spends, pool) /\ Holds(spends', pool')
  BY DEF SigningIInv, IInv
<1>3. ASSUME NEW c \in Running
      PROVE  /\ SessionFits(Followed(session[c], replaced), spends')
             /\ Followed(session[c], replaced) \in SessionStates
  <2>1. c \in Sessions /\ SessionFits(session[c], spends)
    BY DEF Running, SigningIInv
  <2>2. SessionFits(Followed(session[c], replaced), spends')
    BY <1>2, <2>1, FollowedFits
  <2> QED BY <2>2 DEF SessionFits
<1>4. Running \subseteq Sessions
  BY DEF Running
<1>5. \A c \in Running : session'[c] = Followed(session[c], replaced)
  BY <1>1, <1>4
<1>6. \A c \in Sessions \ Running : session'[c] = NoSession
  BY <1>1
<1>7. \A c \in Sessions : session'[c] \in SessionStates \cup {NoSession}
  BY <1>3, <1>5, <1>6
<1>8. session' \in [Sessions -> SessionStates \cup {NoSession}]
  BY <1>1, <1>7
<1>9. \A c \in Running : session'[c] # NoSession
  BY <1>3, <1>5, TxSigningAssumption
<1>10. starts' \in 0..MaxStarts /\ outdated' \subseteq Names
  BY <1>1 DEF SigningIInv
<1> QED BY <1>3, <1>5, <1>6, <1>8, <1>9, <1>10

LEMMA OwnerStepKeeps ==
  ASSUME SigningIInv, OwnerStep
  PROVE  /\ SigningIInv'
         /\ \A c \in Running : session'[c] # NoSession
<1>1. IInv /\ (OwnerCall \/ Step) /\ Follow({})
  BY DEF OwnerStep, SigningIInv
<1>2. IInv'
  BY <1>1, OwnerCallKeeps, StepKeeps
<1>3. AllContinue /\ Moves({})
  BY <1>1, OwnerStepContinues
<1>4. AllCover(spends', outdated') /\ AllCover(pool', outdated')
  BY <1>1, <1>3, ContinuesCovers DEF SigningIInv
<1>5. /\ session' \in [Sessions -> SessionStates \cup {NoSession}]
      /\ \A c \in Sessions : session'[c] # NoSession => SessionFits(session'[c], spends')
      /\ \A c \in Running : session'[c] # NoSession
      /\ starts' \in 0..MaxStarts /\ outdated' \subseteq Names
  BY <1>1, <1>2, <1>3, FollowFits
<1> QED BY <1>2, <1>4, <1>5 DEF SigningIInv

LEMMA OwnerAddsKeeps ==
  ASSUME SigningIInv, NEW e \in Additions, OwnerAdds(e)
  PROVE  /\ SigningIInv'
         /\ \A c \in Running : session'[c] # NoSession
<1>1. IInv /\ AddSpend(e) /\ Follow({e.name})
  BY DEF OwnerAdds, SigningIInv
<1>2. IInv'
  BY <1>1, AddSpendKeeps
<1>3. Moves({e.name})
  BY <1>1, AddSpendMoves
<1>4. AllCover(spends', outdated') /\ AllCover(pool', outdated')
  BY <1>1, AddSpendCovers DEF SigningIInv
<1>5. /\ session' \in [Sessions -> SessionStates \cup {NoSession}]
      /\ \A c \in Sessions : session'[c] # NoSession => SessionFits(session'[c], spends')
      /\ \A c \in Running : session'[c] # NoSession
      /\ starts' \in 0..MaxStarts /\ outdated' \subseteq Names
  BY <1>1, <1>2, <1>3, FollowFits
<1> QED BY <1>2, <1>4, <1>5 DEF SigningIInv

(* A session goes on by itself. *)
LEMMA OneSessionKeeps ==
  ASSUME SigningIInv, NEW c \in Sessions, NEW x, x = NoSession \/ SessionFits(x, spends),
         session' = [session EXCEPT ![c] = x], UNCHANGED <<vars, outdated>>,
         starts' \in 0..MaxStarts
  PROVE  SigningIInv'
<1>1. spends' = spends /\ pool' = pool /\ job' = job /\ result' = result /\ calls' = calls
      /\ outdated' = outdated
  BY DEF vars
<1>2. IInv'
  BY <1>1 DEF SigningIInv, IInv
<1>3. session \in [Sessions -> SessionStates \cup {NoSession}]
      /\ \A d \in Sessions : session[d] # NoSession => SessionFits(session[d], spends)
  BY DEF SigningIInv
<1>4. x \in SessionStates \cup {NoSession}
  BY DEF SessionFits
<1>5. session' \in [Sessions -> SessionStates \cup {NoSession}]
  BY <1>3, <1>4
<1>6. \A d \in Sessions : session'[d] # NoSession => SessionFits(session'[d], spends')
  BY <1>1, <1>3
<1>7. AllCover(spends', outdated') /\ AllCover(pool', outdated') /\ outdated' \subseteq Names
  BY <1>1 DEF SigningIInv
<1> QED BY <1>2, <1>5, <1>6, <1>7 DEF SigningIInv

LEMMA RunningSession ==
  ASSUME SigningIInv, NEW c \in Running
  PROVE  c \in Sessions /\ SessionFits(session[c], spends) /\ session[c] \in SessionStates
BY DEF SigningIInv, Running, SessionFits

LEMMA StartKeeps ==
  ASSUME SigningIInv, NEW c \in Sessions, NEW pkh \in Pkhs, Start(c, pkh)
  PROVE  SigningIInv' /\ \A d \in Running : session'[d] = session[d]
<1> DEFINE x == IF spends = << >> THEN NoSession ELSE Visit(Started(pkh))
<1>1. /\ session' = [session EXCEPT ![c] = x] /\ starts' = starts + 1
      /\ starts < MaxStarts /\ session[c] = NoSession /\ UNCHANGED <<vars, outdated>>
  BY DEF Start
<1>2. Holds(spends, pool) /\ spends \in Seq(Entries)
  BY DEF SigningIInv, IInv, Holds
<1>3. x = NoSession \/ SessionFits(x, spends)
  <2>1. CASE spends = << >>
    BY <2>1
  <2>2. CASE spends # << >>
    <3>1. Len(spends) # 0
      BY <1>2, <2>2, EmptySeq
    <3>2. /\ SessionFits(Started(pkh), spends) /\ Started(pkh).ask = NoAsk
          /\ ~ AtEnd(Started(pkh))
      BY <1>2, <3>1, StartedFits DEF AtEnd
    <3>3. SessionFits(Visit(Started(pkh)), spends)
      BY <1>2, <3>2, VisitFits
    <3> QED BY <2>2, <3>3
  <2> QED BY <2>1, <2>2
<1> HIDE DEF x
<1>4. starts' \in 0..MaxStarts
  BY <1>1, TxSigningAssumption DEF SigningIInv
<1>5. SigningIInv'
  BY <1>1, <1>3, <1>4, OneSessionKeeps
<1>6. \A d \in Running : session'[d] = session[d]
  BY <1>1 DEF Running, SigningIInv
<1> QED BY <1>5, <1>6

LEMMA ResumeKeeps ==
  ASSUME SigningIInv, NEW c \in Sessions, Resume(c)
  PROVE  /\ SigningIInv'
         /\ c \in Running /\ (session'[c] = NoSession => AtEnd(session[c]))
         /\ \A d \in Running \ {c} : session'[d] = session[d]
<1> DEFINE s == session[c]
           x == IF AtEnd(s) THEN NoSession ELSE Visit(s)
<1>1. /\ session' = [session EXCEPT ![c] = x] /\ starts' = starts
      /\ c \in Running /\ s.ask = NoAsk /\ UNCHANGED <<vars, outdated>>
  BY DEF Resume
<1>2. Holds(spends, pool)
  BY DEF SigningIInv, IInv
<1>3. AtEnd(s) \/ SessionFits(Visit(s), spends)
  BY <1>1, <1>2, RunningSession, VisitFits
<1>4. starts' \in 0..MaxStarts
  BY <1>1 DEF SigningIInv
<1>5. session'[c] = x /\ \A d \in Running \ {c} : session'[d] = session[d]
  BY <1>1 DEF Running, SigningIInv
<1>6. x = NoSession => AtEnd(s)
  BY <1>3, TxSigningAssumption DEF SessionFits
<1>7. x = NoSession \/ SessionFits(x, spends)
  BY <1>3
<1> HIDE DEF x
<1>8. SigningIInv'
  BY <1>1, <1>4, <1>7, OneSessionKeeps
<1> QED BY <1>1, <1>5, <1>6, <1>8

LEMMA FailKeeps ==
  ASSUME SigningIInv, NEW c \in Sessions, Fail(c)
  PROVE  /\ SigningIInv'
         /\ \A d \in Running : session'[d] = NoSession => session[d].ask # NoAsk
<1>1. /\ session' = [session EXCEPT ![c] = NoSession] /\ starts' = starts
      /\ session[c].ask # NoAsk /\ UNCHANGED <<vars, outdated>>
  BY DEF Fail
<1>2. starts' \in 0..MaxStarts
  BY <1>1 DEF SigningIInv
<1>3. \A d \in Running : session'[d] = NoSession => d = c
  BY <1>1 DEF Running, SigningIInv
<1>4. SigningIInv'
  BY <1>1, <1>2, OneSessionKeeps
<1> QED BY <1>1, <1>3, <1>4

LEMMA AnswerKeeps ==
  ASSUME SigningIInv, NEW c \in Sessions, Answer(c)
  PROVE  /\ SigningIInv'
         /\ \A d \in Running : session'[d] # NoSession
<1> DEFINE s == session[c]
           late == TooLate(s.ask)
           told(d) == IF late /\ session[d].pkh = s.pkh
                      THEN [session[d] EXCEPT !.stale = @ \cup {s.ask.name}] ELSE session[d]
<1>1. /\ job = Idle /\ c \in Running /\ s.ask # NoAsk
      /\ spends' = Signed(spends, s.ask, s.pkh) /\ pool' = Signed(pool, s.ask, s.pkh)
      /\ outdated' = (IF late THEN outdated \cup {s.ask.name} ELSE outdated)
      /\ job' = job /\ result' = result /\ calls' = calls /\ starts' = starts
  BY DEF Answer
<1>2. /\ session' = [d \in Sessions |->
              IF d = c THEN [s EXCEPT !.ask = NoAsk]
              ELSE IF d \in Running /\ late /\ session[d].pkh = s.pkh
              THEN [session[d] EXCEPT !.stale = @ \cup {s.ask.name}]
              ELSE session[d]]
  BY DEF Answer
<1>3. /\ IInv /\ Holds(spends, pool) /\ spends \in Seq(Entries) /\ pool \in Seq(Entries)
      /\ AllCover(spends, outdated) /\ AllCover(pool, outdated)
  BY DEF SigningIInv, IInv, Holds
<1>4. s \in SessionStates /\ SessionFits(s, spends) /\ s.ask \in Asks /\ s.pkh \in Pkhs
      /\ s.ask.name \in Names
  BY <1>1, RunningSession, SessionFields
<1> HIDE DEF s, late
<1>5. Holds(spends', pool')
  BY <1>1, <1>3, <1>4, SignedHold
<1>6. IInv'
  <2>1. JobFits(job', spends', pool')
    BY <1>1, IdleFits
  <2> QED BY <1>1, <1>3, <1>5, <2>1 DEF IInv
<1>7. AllCover(spends', outdated') /\ AllCover(pool', outdated')
  BY <1>1, <1>3, <1>4, AnswerCovers DEF late
<1>8. outdated' \subseteq Names /\ starts' \in 0..MaxStarts
  BY <1>1, <1>4 DEF SigningIInv
<1>9. /\ SessionFits([s EXCEPT !.ask = NoAsk], spends')
      /\ session'[c] = [s EXCEPT !.ask = NoAsk]
  BY <1>1, <1>2, <1>3, <1>4, OwnAnswerFits
<1>10. ASSUME NEW d \in Running, d # c PROVE SessionFits(session'[d], spends')
  <2>1. d \in Sessions /\ SessionFits(session[d], spends)
    BY RunningSession
  <2>2. session'[d] = told(d)
    BY <1>2, <1>10, <2>1
  <2>3. SessionFits(told(d), Signed(spends, s.ask, s.pkh))
    BY <1>3, <1>4, <2>1, OtherAnswerFits DEF late
  <2> QED BY <1>1, <2>2, <2>3
<1>11. \A d \in Sessions \ Running : d # c /\ session'[d] = NoSession
  BY <1>1, <1>2 DEF Running
<1>12. \A d \in Running : SessionFits(session'[d], spends')
  BY <1>9, <1>10
<1>13. \A d \in Running : session'[d] \in SessionStates /\ session'[d] # NoSession
  BY <1>12, TxSigningAssumption DEF SessionFits
<1>14. session' \in [Sessions -> SessionStates \cup {NoSession}]
  <2>1. \A d \in Sessions : session'[d] \in SessionStates \cup {NoSession}
    BY <1>11, <1>13
  <2> QED BY <1>2, <2>1
<1> QED BY <1>6, <1>7, <1>8, <1>11, <1>12, <1>13, <1>14 DEF SigningIInv

-----------------------------------------------------------------------------
(* The theorems.                                                           *)

(* A session that ends without waiting for a signer is at its end. *)
EndsAtEnd ==
  \A c \in Running :
    session[c].ask = NoAsk /\ session'[c] = NoSession => AtEnd(session[c])

LEMMA SigningNextKeeps ==
  ASSUME SigningIInv, [SigningNext]_signingVars
  PROVE  SigningIInv' /\ EndsAtEnd
<1>1. CASE UNCHANGED signingVars
  <2>1. spends' = spends /\ pool' = pool /\ job' = job /\ result' = result /\ calls' = calls
        /\ session' = session /\ starts' = starts /\ outdated' = outdated
    BY <1>1 DEF signingVars
  <2>2. SigningIInv'
    BY <2>1 DEF SigningIInv, IInv
  <2>3. \A c \in Running : session'[c] # NoSession
    BY <2>1 DEF Running
  <2> QED BY <2>2, <2>3 DEF EndsAtEnd
<1>2. CASE OwnerStep
  BY <1>2, OwnerStepKeeps DEF EndsAtEnd
<1>3. ASSUME NEW e \in Additions, OwnerAdds(e) PROVE SigningIInv' /\ EndsAtEnd
  BY <1>3, OwnerAddsKeeps DEF EndsAtEnd
<1>4. ASSUME NEW c \in Sessions, NEW pkh \in Pkhs, Start(c, pkh) PROVE SigningIInv' /\ EndsAtEnd
  BY <1>4, StartKeeps DEF EndsAtEnd, Running
<1>5. ASSUME NEW c \in Sessions, Resume(c) PROVE SigningIInv' /\ EndsAtEnd
  BY <1>5, ResumeKeeps DEF EndsAtEnd, Running
<1>6. ASSUME NEW c \in Sessions, Answer(c) PROVE SigningIInv' /\ EndsAtEnd
  BY <1>6, AnswerKeeps DEF EndsAtEnd
<1>7. ASSUME NEW c \in Sessions, Fail(c) PROVE SigningIInv' /\ EndsAtEnd
  BY <1>7, FailKeeps DEF EndsAtEnd
<1> QED BY <1>1, <1>2, <1>3, <1>4, <1>5, <1>6, <1>7 DEF SigningNext

(* The invariant that carries the others: the builder's own, and what the  *)
(* sessions have visited is signed, waited for, or stale.                  *)
THEOREM SigningInvariance == SigningSpec => []SigningIInv
<1>1. SigningIInv /\ [SigningNext]_signingVars => SigningIInv'
  BY SigningNextKeeps
<1> QED BY <1>1, SigningInitInvariant, PTL DEF SigningSpec

(* The sessions and the builder keep their types, and no iterator is past  *)
(* the end of the Map.                                                     *)
THEOREM SigningTypesHold == SigningSpec => []SigningTypes
<1>1. SigningIInv => SigningTypes
  BY DEF SigningIInv, IInv, Holds, JobFits, TypeInvariant, SigningTypes, SessionFits
<1> QED BY <1>1, SigningInvariance, PTL

(* Signers that answer in the middle of the owner's calls change nothing   *)
(* about the notes and the balance of the builder.                         *)
THEOREM HeldAndBalancedWhileSigning == SigningSpec => [](NoteHeldOnce /\ SpendsBalanced)
<1>1. SigningIInv => NoteHeldOnce
  BY NamesCount DEF SigningIInv, IInv, Holds, NoteHeldOnce
<1>2. SigningIInv => SpendsBalanced
  BY DEF SigningIInv, IInv, Holds, AllBalanced, SpendsBalanced
<1> QED BY <1>1, <1>2, SigningInvariance, PTL

(* The loop over the live Map misses no spend, for every number of spends, *)
(* keys and concurrent sessions, whatever the owner calls meanwhile.       *)
THEOREM ReturnedMeansSigned == SigningSpec => ReturnMeansSigned
<1> DEFINE Said ==
      \A c \in Running :
       (session[c].ask = NoAsk /\ session'[c] = NoSession)
       => \A i \in DOMAIN spends :
            (/\ ListedIn(spends[i].sb.witness.prims, session[c].pkh)
             /\ spends[i].name \notin session[c].stale)
            => spends[i].sb.witness.sigs[session[c].pkh] = SigHash(spends[i].sb)
<1>1. SigningIInv /\ [SigningNext]_signingVars => [Said]_signingVars
  <2> SUFFICES ASSUME SigningIInv, [SigningNext]_signingVars PROVE Said
    OBVIOUS
  <2>1. EndsAtEnd
    BY SigningNextKeeps
  <2>2. DOMAIN spends = 1..Len(spends)
    BY EntryFields DEF SigningIInv, IInv, Holds
  <2>3. ASSUME NEW c \in Running, session[c].ask = NoAsk, session'[c] = NoSession,
               NEW i \in DOMAIN spends,
               ListedIn(spends[i].sb.witness.prims, session[c].pkh),
               spends[i].name \notin session[c].stale
        PROVE  spends[i].sb.witness.sigs[session[c].pkh] = SigHash(spends[i].sb)
    <3>1. session[c].visited = Len(spends)
      BY <2>1, <2>3 DEF EndsAtEnd, AtEnd
    <3>2. SignedSoFar(session[c], spends)
      BY RunningSession DEF SessionFits
    <3>3. i \in 1..session[c].visited
      BY <2>2, <3>1
    <3> QED BY <2>3, <3>2, <3>3 DEF SignedSoFar
  <2> QED BY <2>3
<1> QED BY <1>1, SigningInvariance, PTL DEF SigningSpec, ReturnMeansSigned

(* What validate lets pass has, for every pkh primitive, m signatures over *)
(* the present content, but in the spends a signer answered too late for.  *)
THEOREM ValidatedMeansSpendable == SigningSpec => ValidMeansSpendable
<1> DEFINE Said ==
      (Validate /\ result' = "valid") =>
       \A i \in DOMAIN spends :
         spends[i].name \notin outdated =>
           \A k \in PrimsOf(spends[i].sb, "pkh") :
             LET prim == spends[i].sb.witness.prims[k]
             IN  Cardinality({p \in prim.hashes :
                   spends[i].sb.witness.sigs[p] = SigHash(spends[i].sb)}) >= prim.m
<1>1. SigningIInv /\ [SigningNext]_signingVars => [Said]_signingVars
  <2> SUFFICES ASSUME SigningIInv, Validate, result' = "valid",
                      NEW i \in DOMAIN spends, spends[i].name \notin outdated,
                      NEW k \in PrimsOf(spends[i].sb, "pkh")
               PROVE  LET prim == spends[i].sb.witness.prims[k]
                      IN  Cardinality({p \in prim.hashes :
                            spends[i].sb.witness.sigs[p] = SigHash(spends[i].sb)}) >= prim.m
    OBVIOUS
  <2> DEFINE s == spends[i].sb
             prim == s.witness.prims[k]
             here == prim.hashes \cap SignedBy(s)
             good == {p \in prim.hashes : s.witness.sigs[p] = SigHash(s)}
  <2>1. MissingUnlocks(s) = {}
    BY DEF Validate, Finish
  <2>2. s \in Spends /\ spends[i] \in Range(spends)
    BY EntryFields DEF SigningIInv, IInv, Holds, Range
  <2>3. k \in DOMAIN s.witness.prims /\ prim.tag = "pkh"
    BY DEF PrimsOf
  <2>4. prim \in PkhPrims
    <3>1. s.witness.prims \in Seq(Prims)
      BY <2>2, SpendFields
    <3>2. prim \in Prims
      BY <2>3, <3>1, ElementOfSeq, LenProperties
    <3> QED BY <2>3, <3>2 DEF Prims, PkhPrims, HaxPrims, BrnPrims
  <2>5. prim.m \in Nat /\ prim.hashes \in SUBSET Pkhs
    BY <2>4 DEF PkhPrims
  <2>6. SignaturesCover(s)
    BY <2>2 DEF SigningIInv, AllCover
  <2>7. IsFiniteSet(good) /\ here \subseteq good
    <3>1. IsFiniteSet(Pkhs) /\ good \in SUBSET Pkhs
      BY <2>5, SpendAssumption
    <3>2. here \subseteq good
      BY <2>6 DEF SignaturesCover, SignedBy
    <3> QED BY <3>1, <3>2, FS_Subset
  <2>8. Cardinality(here) <= Cardinality(good) /\ Cardinality(here) \in Nat
        /\ Cardinality(good) \in Nat
    <3> HIDE DEF here, good
    <3>1. IsFiniteSet(here)
      BY <2>7, FS_Subset
    <3> QED BY <2>7, <3>1, FS_Subset, FS_CardinalityType
  <2>9. ~ (MissingSigs(s, k) > 0)
    BY <2>1, <2>3 DEF MissingUnlocks, PrimLocked
  <2>10. MissingSigs(s, k) = LargerOf(0, prim.m - Cardinality(here))
    BY <2>3 DEF MissingSigs
  <2> HIDE DEF here, good, prim
  <2>11. Cardinality(good) >= prim.m
    BY <2>5, <2>8, <2>9, <2>10 DEF LargerOf
  <2> QED BY <2>11 DEF good, prim
<1> QED BY <1>1, SigningInvariance, PTL DEF SigningSpec, ValidMeansSpendable

=============================================================================
