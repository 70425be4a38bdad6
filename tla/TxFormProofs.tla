----------------------------- MODULE TxFormProofs -----------------------------
(***************************************************************************)
(* Proofs about TxForm: whatever forms a transaction passes through and    *)
(* whoever signs it, its spends hold the signatures and preimages they     *)
(* were given, its id covers them, and building it again changes nothing.  *)
(***************************************************************************)
EXTENDS TxForm, SpendLemmas

-----------------------------------------------------------------------------
(* The canonical order of a set of seeds lists just that set.              *)

LEMMA SeqToSetIsFinite ==
  ASSUME NEW S, NEW xs \in Seq(S)
  PROVE  IsFiniteSet(ToSet(xs)) /\ ToSet(xs) \subseteq S
<1>1. Len(xs) \in Nat /\ xs \in [1..Len(xs) -> S] /\ DOMAIN xs = 1..Len(xs)
  BY LenProperties
<1>2. xs \in Surjection(1..Len(xs), ToSet(xs))
  BY <1>1 DEF Surjection, ToSet
<1>3. IsFiniteSet(1..Len(xs))
  BY <1>1, FS_Interval
<1> QED BY <1>1, <1>2, <1>3, FS_Surjection DEF ToSet

LEMMA SetToSeqLists ==
  ASSUME NEW S, IsFiniteSet(S)
  PROVE  SetToSeq(S) \in Seq(S) /\ ToSet(SetToSeq(S)) = S
<1> DEFINE n == Cardinality(S)
           f == SetToSeq(S)
<1>1. n \in Nat /\ ExistsBijection(1..n, S)
  BY FS_CardinalityType
<1>2. \E g \in [1..n -> S] : IsInjective(g)
  BY <1>1 DEF ExistsBijection, Bijection, Injection, IsInjective
<1>3. f \in [1..n -> S] /\ IsInjective(f)
  BY <1>2 DEF SetToSeq
<1>4. f \in Injection(1..n, S)
  BY <1>3 DEF Injection, IsInjective
<1>5. Cardinality(1..n) = n
  BY <1>1, FS_Interval
<1> HIDE DEF f
<1>6. f \in Surjection(1..n, S)
  BY <1>4, <1>5, FS_Injection
<1>7. ToSet(f) = S
  BY <1>3, <1>6 DEF Surjection, ToSet
<1>8. f \in Seq(S)
  BY <1>1, <1>3, SeqDef
<1> QED BY <1>7, <1>8 DEF f

LEMMA CanonicalSeedsType ==
  ASSUME NEW seeds \in Seq(Seeds)
  PROVE  /\ CanonicalSeeds(seeds) \in Seq(Seeds)
         /\ SeedSet(CanonicalSeeds(seeds)) = SeedSet(seeds)
         /\ CanonicalSeeds(CanonicalSeeds(seeds)) = CanonicalSeeds(seeds)
<1> DEFINE S == ToSet(seeds)
<1>1. IsFiniteSet(S) /\ S \subseteq Seeds
  BY SeqToSetIsFinite
<1>2. SetToSeq(S) \in Seq(S) /\ ToSet(SetToSeq(S)) = S
  BY <1>1, SetToSeqLists
<1> HIDE DEF S
<1>3. SetToSeq(S) \in Seq(Seeds)
  BY <1>1, <1>2, SeqDef
<1> QED BY <1>2, <1>3 DEF CanonicalSeeds, SeedSet, S

-----------------------------------------------------------------------------
(* A transaction with its witnesses in place, and the papers made of it.   *)

SentSpends == [name : Names, seeds : Seq(Seeds), fee : Nat, witness : Witnesses]

Fulls == {full \in Seq(SentSpends) :
            /\ full # << >>
            /\ NamesDiffer(full)
            /\ \A i \in DOMAIN full : CanonicalSeeds(full[i].seeds) = full[i].seeds}

RawOf(full) == [form |-> "raw", id |-> CalcId(full), spends |-> full]

TxOf(full, id, display) ==
  [form |-> "tx", id |-> id, spends |-> SplitWitness(full).spends,
   data |-> SplitWitness(full).data, display |-> display]

BuiltOf(full) == TxOf(full, CalcId(full), NamesOf(full))

BackOf(full) == TxOf(full, CalcId(SplitWitness(full).spends), NoDisplay)

PapersOf(full) == {RawOf(full), BuiltOf(full), BackOf(full)}

LEMMA FullFields ==
  ASSUME NEW full \in Fulls
  PROVE  /\ Len(full) \in Nat \ {0} /\ DOMAIN full = 1..Len(full)
         /\ full = [i \in 1..Len(full) |-> full[i]]
         /\ \A i \in DOMAIN full : full[i] \in SentSpends
<1>1. full \in Seq(SentSpends) /\ full # << >>
  BY DEF Fulls
<1> QED BY <1>1, LenProperties, EmptySeq, ElementOfSeq

LEMMA MergedAfterStrip ==
  ASSUME NEW s \in SentSpends
  PROVE  Merged([s EXCEPT !.witness = StripWitness(@)], s.witness) = s
<1> DEFINE t == [s EXCEPT !.witness = StripWitness(@)]
<1>1. s.witness \in Witnesses
  BY DEF SentSpends
<1>2. t.witness.hax = {}
  BY <1>1 DEF SentSpends, StripWitness, Witnesses
<1>3. CASE s.witness.hax = {}
  <2>1. [s.witness EXCEPT !.hax = t.witness.hax] = s.witness
    BY <1>1, <1>2, <1>3 DEF Witnesses
  <2>2. Merged(t, s.witness) = [t EXCEPT !.witness = s.witness]
    BY <1>3, <2>1 DEF Merged
  <2> QED BY <2>2 DEF SentSpends
<1>4. CASE s.witness.hax # {}
  <2>1. Merged(t, s.witness) = [t EXCEPT !.witness = s.witness]
    BY <1>4 DEF Merged
  <2> QED BY <2>1 DEF SentSpends
<1> QED BY <1>3, <1>4

(* What splitSpends takes apart, applyWitnessData puts together again: the *)
(* names tell the witnesses apart.                                         *)
LEMMA ApplyInvertsSplit ==
  ASSUME NEW full \in Fulls
  PROVE  ApplyWitness(SplitWitness(full).spends, SplitWitness(full).data) = full
<1> DEFINE N == Len(full)
           bare == SplitWitness(full).spends
           data == SplitWitness(full).data
<1>1. N \in Nat /\ DOMAIN full = 1..N /\ full = [i \in 1..N |-> full[i]]
      /\ NamesDiffer(full) /\ \A i \in 1..N : full[i] \in SentSpends
  BY FullFields DEF Fulls
<1>2. DOMAIN bare = 1..N /\ DOMAIN data = 1..N
  BY <1>1 DEF SplitWitness
<1>3. \A i \in 1..N : /\ bare[i] = [full[i] EXCEPT !.witness = StripWitness(@)]
                      /\ data[i].name = full[i].name /\ data[i].witness = full[i].witness
                      /\ bare[i].name = full[i].name
  BY <1>1 DEF SplitWitness, SentSpends
<1> HIDE DEF N, bare, data
<1> DEFINE At(i) == {j \in DOMAIN data : data[j].name = bare[i].name}
           last(i) == CHOOSE j \in At(i) : \A k \in At(i) : j >= k
<1>4. ASSUME NEW i \in 1..N
      PROVE  (IF At(i) = {} THEN bare[i] ELSE Merged(bare[i], data[last(i)].witness)) = full[i]
  <2>1. At(i) = {i}
    BY <1>1, <1>2, <1>3 DEF NamesDiffer
  <2>2. last(i) = i
    BY <1>1, <2>1
  <2>3. Merged(bare[i], full[i].witness) = full[i]
    BY <1>1, <1>3, MergedAfterStrip
  <2> QED BY <1>3, <2>1, <2>2, <2>3
<1>5. ApplyWitness(bare, data) =
        [i \in 1..N |-> IF At(i) = {} THEN bare[i] ELSE Merged(bare[i], data[last(i)].witness)]
  BY <1>2 DEF ApplyWitness
<1> QED BY <1>1, <1>4, <1>5 DEF bare, data

LEMMA PaperFields ==
  ASSUME NEW full \in Fulls, NEW p \in PapersOf(full)
  PROVE  /\ p # NoPaper
         /\ FullOf(p) = full
         /\ p.form = "raw" => p = RawOf(full)
         /\ p.form = "tx" => /\ p \in {BuiltOf(full), BackOf(full)}
                             /\ ApplyWitness(p.spends, p.data) = full
<1>1. p.form \in {"raw", "tx"} /\ p # NoPaper
  BY DEF PapersOf, RawOf, BuiltOf, BackOf, TxOf, NoPaper
<1>2. CASE p = RawOf(full)
  BY <1>1, <1>2 DEF RawOf, FullOf
<1>3. CASE p \in {BuiltOf(full), BackOf(full)}
  <2>1. p.form = "tx" /\ p.spends = SplitWitness(full).spends /\ p.data = SplitWitness(full).data
    BY <1>3 DEF BuiltOf, BackOf, TxOf
  <2> QED BY <1>1, <1>3, <2>1, ApplyInvertsSplit DEF FullOf
<1> QED BY <1>2, <1>3 DEF PapersOf

LEMMA Conversions ==
  ASSUME NEW full \in Fulls
  PROVE  /\ \A p \in {BuiltOf(full), BackOf(full)} : NockchainTxToRawTx(p) = RawOf(full)
         /\ RawTxV1ToNockchainTx(RawOf(full)) = BackOf(full)
<1>1. ASSUME NEW p \in {BuiltOf(full), BackOf(full)} PROVE NockchainTxToRawTx(p) = RawOf(full)
  <2>1. p.spends = SplitWitness(full).spends /\ p.data = SplitWitness(full).data
    BY DEF BuiltOf, BackOf, TxOf
  <2> QED BY <2>1, ApplyInvertsSplit DEF NockchainTxToRawTx, RawOf
<1> QED BY <1>1 DEF RawTxV1ToNockchainTx, RawOf, BackOf, TxOf

-----------------------------------------------------------------------------
(* From a builder to a transaction and back.                               *)

LEMMA EntryFields ==
  ASSUME NEW entries \in Seq(Entries)
  PROVE  /\ Len(entries) \in Nat /\ DOMAIN entries = 1..Len(entries)
         /\ entries = [i \in 1..Len(entries) |-> entries[i]]
         /\ \A i \in DOMAIN entries :
              /\ entries[i] \in Entries
              /\ entries[i].name \in Names /\ entries[i].sb \in Spends
<1>1. \A i \in DOMAIN entries : entries[i] \in Entries
  BY ElementOfSeq, LenProperties
<1> QED BY <1>1, LenProperties DEF Entries

LEMMA BuildGives ==
  ASSUME NEW entries \in Seq(Entries), entries # << >>, NamesDiffer(entries)
  PROVE  /\ FullSpends(entries) \in Fulls
         /\ Build(entries) = BuiltOf(FullSpends(entries))
         /\ DOMAIN FullSpends(entries) = DOMAIN entries
         /\ \A i \in DOMAIN entries :
              /\ FullSpends(entries)[i].name = entries[i].name
              /\ SigHash(FullSpends(entries)[i]) = SigHash(entries[i].sb)
              /\ FullSpends(entries)[i].witness = entries[i].sb.witness
<1> DEFINE full == FullSpends(entries)
           N == Len(entries)
<1>1. N \in Nat \ {0} /\ DOMAIN entries = 1..N
  BY EntryFields, EmptySeq, LenProperties
<1>2. ASSUME NEW i \in 1..N
      PROVE  /\ full[i] \in SentSpends /\ full[i].name = entries[i].name
             /\ full[i].fee = entries[i].sb.fee /\ full[i].witness = entries[i].sb.witness
             /\ full[i].seeds = CanonicalSeeds(entries[i].sb.seeds)
             /\ CanonicalSeeds(full[i].seeds) = full[i].seeds
             /\ SeedSet(full[i].seeds) = SeedSet(entries[i].sb.seeds)
  <2>1. entries[i].sb \in Spends /\ entries[i].name \in Names
    BY <1>1, EntryFields
  <2>2. /\ entries[i].sb.seeds \in Seq(Seeds) /\ entries[i].sb.fee \in Nat
        /\ entries[i].sb.witness \in Witnesses
    BY <2>1, SpendFields
  <2>3. full[i] = [name |-> entries[i].name, seeds |-> CanonicalSeeds(entries[i].sb.seeds),
                   fee |-> entries[i].sb.fee, witness |-> entries[i].sb.witness]
    BY <1>1 DEF FullSpends
  <2> HIDE DEF full
  <2> QED BY <2>1, <2>2, <2>3, CanonicalSeedsType DEF SentSpends
<1>3. DOMAIN full = 1..N /\ full = [i \in 1..N |-> full[i]]
  BY <1>1 DEF FullSpends
<1>4. NamesOf(full) = NamesOf(entries)
  BY <1>1, <1>2, <1>3 DEF NamesOf
<1>5. Build(entries) = BuiltOf(full)
  <2> HIDE DEF N
  <2> QED BY <1>4 DEF Build, BuiltOf, TxOf
<1> HIDE DEF full, N
<1>6. full \in Seq(SentSpends) /\ Len(full) = N
  BY <1>1, <1>2, <1>3, SeqDef, LenProperties
<1>7. full # << >>
  BY <1>1, <1>6, EmptySeq
<1>8. NamesDiffer(full)
  BY <1>1, <1>2, <1>3 DEF NamesDiffer
<1>9. full \in Fulls
  BY <1>2, <1>3, <1>6, <1>7, <1>8 DEF Fulls
<1>10. \A i \in 1..N : SigHash(full[i]) = SigHash(entries[i].sb)
  BY <1>2 DEF SigHash, SeedSet, ToSet
<1> QED BY <1>1, <1>2, <1>3, <1>5, <1>9, <1>10 DEF full

LEMMA OpeningGives ==
  ASSUME NEW full \in Fulls
  PROVE  /\ FromSpends(full) \in Seq(Entries) /\ FromSpends(full) # << >>
         /\ NamesDiffer(FromSpends(full))
         /\ FullSpends(FromSpends(full)) = full
         /\ DOMAIN FromSpends(full) = DOMAIN full
         /\ \A i \in DOMAIN full :
              /\ FromSpends(full)[i].name = full[i].name
              /\ SigHash(FromSpends(full)[i].sb) = SigHash(full[i])
              /\ FromSpends(full)[i].sb.witness = full[i].witness
<1> DEFINE entries == FromSpends(full)
           N == Len(full)
<1>1. N \in Nat \ {0} /\ DOMAIN full = 1..N /\ full = [i \in 1..N |-> full[i]]
      /\ NamesDiffer(full)
      /\ \A i \in 1..N : full[i] \in SentSpends /\ CanonicalSeeds(full[i].seeds) = full[i].seeds
  BY FullFields DEF Fulls
<1>2. ASSUME NEW i \in 1..N
      PROVE  /\ entries[i] \in Entries /\ entries[i].name = full[i].name
             /\ entries[i].sb.fee = full[i].fee /\ entries[i].sb.seeds = full[i].seeds
             /\ entries[i].sb.witness = full[i].witness
  <2>1. /\ full[i].name \in Names /\ full[i].seeds \in Seq(Seeds) /\ full[i].fee \in Nat
        /\ full[i].witness \in Witnesses
    BY <1>1 DEF SentSpends
  <2>2. Gifts(full[i].seeds) + full[i].fee \in Nat
    BY <2>1, GiftsType
  <2>3. entries[i] = FromSpend(full[i])
    BY <1>1 DEF FromSpends
  <2> HIDE DEF entries
  <2> QED BY <2>1, <2>2, <2>3 DEF FromSpend, Entries, Spends
<1>3. DOMAIN entries = 1..N /\ entries = [i \in 1..N |-> entries[i]]
  BY <1>1 DEF FromSpends
<1> HIDE DEF entries, N
<1>4. entries \in Seq(Entries) /\ Len(entries) = N
  BY <1>1, <1>2, <1>3, SeqDef, LenProperties
<1>5. entries # << >>
  BY <1>1, <1>4, EmptySeq
<1>6. NamesDiffer(entries)
  BY <1>1, <1>2, <1>3 DEF NamesDiffer
<1>7. FullSpends(entries) = full
  <2>1. \A i \in 1..N : [name |-> full[i].name, seeds |-> full[i].seeds, fee |-> full[i].fee,
                         witness |-> full[i].witness] = full[i]
    BY <1>1 DEF SentSpends
  <2>2. FullSpends(entries) = [i \in 1..N |->
          [name |-> full[i].name, seeds |-> full[i].seeds, fee |-> full[i].fee,
           witness |-> full[i].witness]]
    BY <1>1, <1>2, <1>3 DEF FullSpends
  <2> QED BY <1>1, <2>1, <2>2
<1>8. \A i \in 1..N : SigHash(entries[i].sb) = SigHash(full[i])
  BY <1>2 DEF SigHash
<1> QED BY <1>1, <1>2, <1>3, <1>4, <1>5, <1>6, <1>7, <1>8 DEF entries

-----------------------------------------------------------------------------
(* The inductive invariant: every builder and the paper hold what their    *)
(* history says, and the paper is one of the three forms of a transaction  *)
(* whose witnesses are in place.                                           *)

EntriesHold(entries, g) ==
  \A i \in DOMAIN entries : HoldsWhatWasGiven(entries[i].sb, g[entries[i].name])

SpendsHold(full, g) == \A i \in DOMAIN full : HoldsWhatWasGiven(full[i], g[full[i].name])

PaperIsOf(full, p, g) == p \in PapersOf(full) /\ SpendsHold(full, g)

IInv ==
  /\ builder \in [Parties -> Seq(Entries)]
  /\ given \in [Parties -> Marks] /\ marked \in Marks
  /\ edits \in 0..MaxEdits
  /\ \A p \in Parties : NamesDiffer(builder[p]) /\ EntriesHold(builder[p], given[p])
  /\ paper # NoPaper => \E full \in Fulls : PaperIsOf(full, paper, marked)

LEMMA HoldsSame ==
  ASSUME NEW s, NEW t, NEW m, HoldsWhatWasGiven(s, m),
         SigHash(t) = SigHash(s), t.witness = s.witness
  PROVE  HoldsWhatWasGiven(t, m)
BY DEF HoldsWhatWasGiven

LEMMA InitInvariant == Init => IInv
<1> SUFFICES ASSUME Init PROVE IInv
  OBVIOUS
<1>1. PICK first \in FirstBuilders, p \in Parties :
        builder = [q \in Parties |-> IF q = p THEN first ELSE << >>]
  BY DEF Init
<1>2. NoMarks \in Marks /\ \A n \in Names : NoMarks[n].pkhs = {} /\ NoMarks[n].digests = {}
  BY DEF NoMarks, Marks
<1>3. first \in Seq(Entries) /\ NamesDiffer(first)
      /\ \A i \in DOMAIN first : first[i].sb.witness \in FreshWitnesses
  BY FormAssumption
<1>4. << >> \in Seq(Entries) /\ NamesDiffer(<< >>) /\ EntriesHold(<< >>, NoMarks)
  <2>1. << >> \in Seq(Entries) /\ DOMAIN << >> = {}
    BY EmptySeq, LenProperties
  <2> QED BY <2>1 DEF NamesDiffer, EntriesHold
<1>5. EntriesHold(first, NoMarks)
  <2> SUFFICES ASSUME NEW i \in DOMAIN first
               PROVE  HoldsWhatWasGiven(first[i].sb, NoMarks[first[i].name])
    BY DEF EntriesHold
  <2>1. first[i].name \in Names
    BY <1>3, EntryFields
  <2>2. first[i].sb.witness.sigs = NoSigs /\ first[i].sb.witness.hax = {}
    BY <1>3 DEF FreshWitnesses
  <2> QED BY <1>2, <2>1, <2>2 DEF HoldsWhatWasGiven, NoSigs
<1>6. \A q \in Parties : /\ builder[q] \in Seq(Entries) /\ NamesDiffer(builder[q])
                         /\ EntriesHold(builder[q], given[q]) /\ given[q] \in Marks
  BY <1>1, <1>2, <1>3, <1>4, <1>5 DEF Init
<1> QED BY <1>1, <1>2, <1>6, FormAssumption DEF Init, IInv

-----------------------------------------------------------------------------
(* One lemma per action.                                                   *)

(* A party's step on its own spends, whose entries keep their names: the   *)
(* builders of the others and the paper are as before.                     *)
LEMMA OwnStepKeeps ==
  ASSUME IInv, NEW p \in Parties, NEW entries \in Seq(Entries), NEW g \in Marks,
         builder' = [builder EXCEPT ![p] = entries], given' = [given EXCEPT ![p] = g],
         NamesDiffer(entries), EntriesHold(entries, g),
         paper' = paper, marked' = marked, edits' \in 0..MaxEdits
  PROVE  IInv'
<1>1. builder' \in [Parties -> Seq(Entries)] /\ given' \in [Parties -> Marks]
  BY DEF IInv
<1>2. \A q \in Parties : NamesDiffer(builder'[q]) /\ EntriesHold(builder'[q], given'[q])
  BY DEF IInv
<1>3. NoPaper' = NoPaper
  BY DEF NoPaper
<1>4. marked' \in Marks /\ (paper' # NoPaper => \E full \in Fulls : PaperIsOf(full, paper', marked'))
  BY DEF IInv
<1> QED BY <1>1, <1>2, <1>4 DEF IInv

LEMMA SignAllKeeps ==
  ASSUME IInv, NEW p \in Parties, SignAll(p)
  PROVE  IInv'
<1> DEFINE old == builder[p]
           N == Len(old)
           Signs(i) == ListedIn(old[i].sb.witness.prims, p)
           entries == SignSpends(old, p)
           g == [n \in Names |->
                  IF \E i \in DOMAIN old : old[i].name = n /\ Signs(i)
                  THEN [given[p][n] EXCEPT !.pkhs = @ \cup {p}] ELSE given[p][n]]
<1>1. old \in Seq(Entries) /\ NamesDiffer(old) /\ EntriesHold(old, given[p])
      /\ given[p] \in Marks /\ p \in Pkhs
  BY DEF IInv, Parties
<1>2. N \in Nat /\ DOMAIN old = 1..N /\ \A i \in 1..N : old[i].name \in Names /\ old[i].sb \in Spends
      /\ old[i] \in Entries
  BY <1>1, EntryFields
<1>3. builder' = [builder EXCEPT ![p] = entries] /\ given' = [given EXCEPT ![p] = g]
  <2>1. builder' = [builder EXCEPT ![p] = entries]
    BY DEF SignAll
  <2>2. given' = [given EXCEPT ![p] = g]
    BY DEF SignAll
  <2> QED BY <2>1, <2>2
<1>4. paper' = paper /\ marked' = marked /\ edits' \in 0..MaxEdits
  BY DEF SignAll, IInv
<1>5. \A n \in Names : /\ given[p][n] \in [pkhs : SUBSET Pkhs, digests : SUBSET Digests]
                       /\ given[p][n].pkhs \subseteq Pkhs
  BY <1>1 DEF Marks
<1>6. g \in Marks
  BY <1>1, <1>5 DEF Marks
<1>7. ASSUME NEW i \in 1..N
      PROVE  /\ entries[i] \in Entries /\ entries[i].name = old[i].name
             /\ HoldsWhatWasGiven(entries[i].sb, g[entries[i].name])
  <2> DEFINE s == old[i].sb
             t == SignSpend(s, p)
             n == old[i].name
  <2>1. s \in Spends /\ n \in Names /\ old[i] \in Entries /\ s.witness.sigs \in Sigs
    BY <1>2, SpendFields
  <2>2. HoldsWhatWasGiven(s, given[p][n])
    BY <1>1, <1>2 DEF EntriesHold
  <2>3. entries[i] = [old[i] EXCEPT !.sb = t]
    BY <1>2 DEF SignSpends
  <2>4. t \in Spends
    BY <1>1, <2>1, SigHashType, PushPkhSignatureType DEF SignSpend
  <2>5. entries[i] \in Entries /\ entries[i].name = n /\ entries[i].sb = t
    <3> HIDE DEF entries, t
    <3> QED BY <2>1, <2>3, <2>4 DEF Entries
  <2>6. (\E j \in DOMAIN old : old[j].name = n /\ Signs(j)) <=> Signs(i)
    BY <1>1, <1>2 DEF NamesDiffer
  <2>7. CASE Signs(i)
    <3>1. t = PushPkhSignature(s, p, SigHash(s))
      BY <2>7 DEF SignSpend
    <3>2. SigHash(t) = SigHash(s) /\ t.witness.sigs = [s.witness.sigs EXCEPT ![p] = SigHash(s)]
      <4> DEFINE c == SigHash(s)
      <4> HIDE DEF c, s
      <4>1. /\ SigHash(PushPkhSignature(s, p, c)) = SigHash(s)
            /\ PushPkhSignature(s, p, c).witness.sigs = [s.witness.sigs EXCEPT ![p] = c]
        BY <1>1, <2>1, PushPkhSignatureEffect
      <4> QED BY <3>1, <4>1 DEF c
    <3>3. t.witness.hax = s.witness.hax
      BY <2>1, <3>1 DEF PushPkhSignature, Spends, Witnesses
    <3>4. g[n] = [given[p][n] EXCEPT !.pkhs = @ \cup {p}]
      BY <2>1, <2>6, <2>7
    <3>5. g[n].pkhs = given[p][n].pkhs \cup {p} /\ g[n].digests = given[p][n].digests
      BY <1>5, <2>1, <3>4
    <3> HIDE DEF t, g, entries, s
    <3>6. HoldsWhatWasGiven(t, g[n])
      BY <1>1, <2>1, <2>2, <3>2, <3>3, <3>5 DEF HoldsWhatWasGiven, Sigs
    <3> QED BY <2>5, <3>6
  <2>8. CASE ~ Signs(i)
    <3>1. t = s /\ g[n] = given[p][n]
      BY <2>1, <2>6, <2>8 DEF SignSpend
    <3> QED BY <2>2, <2>5, <3>1
  <2> QED BY <2>5, <2>7, <2>8
<1>8. DOMAIN entries = 1..N /\ entries = [i \in 1..N |-> entries[i]]
  BY <1>2 DEF SignSpends
<1> HIDE DEF entries, g, N
<1>9. entries \in Seq(Entries)
  BY <1>2, <1>7, <1>8, SeqDef
<1>10. NamesDiffer(entries) /\ EntriesHold(entries, g)
  BY <1>1, <1>2, <1>7, <1>8 DEF NamesDiffer, EntriesHold
<1> QED BY <1>3, <1>4, <1>6, <1>9, <1>10, OwnStepKeeps

LEMMA AddPreimageToAllKeeps ==
  ASSUME IInv, NEW p \in Parties, NEW d \in Digests, AddPreimageToAll(p, d)
  PROVE  IInv'
<1> DEFINE old == builder[p]
           N == Len(old)
           Claims(i) == ClaimsPreimage(old[i].sb, d)
           entries == AddPreimages(old, d)
           g == [n \in Names |->
                  IF \E i \in DOMAIN old : old[i].name = n /\ Claims(i)
                  THEN [given[p][n] EXCEPT !.digests = @ \cup {d}] ELSE given[p][n]]
<1>1. old \in Seq(Entries) /\ NamesDiffer(old) /\ EntriesHold(old, given[p])
      /\ given[p] \in Marks
  BY DEF IInv
<1>2. N \in Nat /\ DOMAIN old = 1..N /\ \A i \in 1..N : old[i].name \in Names /\ old[i].sb \in Spends
      /\ old[i] \in Entries
  BY <1>1, EntryFields
<1>3. builder' = [builder EXCEPT ![p] = entries] /\ given' = [given EXCEPT ![p] = g]
  <2>1. builder' = [builder EXCEPT ![p] = entries]
    BY DEF AddPreimageToAll
  <2>2. given' = [given EXCEPT ![p] = g]
    BY DEF AddPreimageToAll
  <2> QED BY <2>1, <2>2
<1>4. paper' = paper /\ marked' = marked /\ edits' \in 0..MaxEdits
  BY DEF AddPreimageToAll, IInv
<1>5. \A n \in Names : given[p][n] \in [pkhs : SUBSET Pkhs, digests : SUBSET Digests]
  BY <1>1 DEF Marks
<1>6. g \in Marks
  BY <1>1, <1>5 DEF Marks
<1>7. ASSUME NEW i \in 1..N
      PROVE  /\ entries[i] \in Entries /\ entries[i].name = old[i].name
             /\ HoldsWhatWasGiven(entries[i].sb, g[entries[i].name])
  <2> DEFINE s == old[i].sb
             t == AddPreimage(s, d)
             n == old[i].name
  <2>1. s \in Spends /\ n \in Names /\ old[i] \in Entries
    BY <1>2
  <2>2. HoldsWhatWasGiven(s, given[p][n])
    BY <1>1, <1>2 DEF EntriesHold
  <2>3. entries[i] = [old[i] EXCEPT !.sb = t]
    BY <1>2 DEF AddPreimages
  <2>4. t \in Spends /\ SigHash(t) = SigHash(s) /\ t.witness.sigs = s.witness.sigs
    BY <2>1, AddPreimageType, AddPreimageEffect
  <2>5. entries[i] \in Entries /\ entries[i].name = n /\ entries[i].sb = t
    <3> HIDE DEF entries, t
    <3> QED BY <2>1, <2>3, <2>4 DEF Entries
  <2>6. (\E j \in DOMAIN old : old[j].name = n /\ Claims(j)) <=> Claims(i)
    BY <1>1, <1>2 DEF NamesDiffer
  <2>7. CASE Claims(i)
    <3>1. t.witness.hax = s.witness.hax \cup {d}
      BY <2>1, <2>7 DEF AddPreimage, Spends, Witnesses
    <3>2. g[n] = [given[p][n] EXCEPT !.digests = @ \cup {d}]
      BY <2>1, <2>6, <2>7
    <3>3. g[n].digests = given[p][n].digests \cup {d} /\ g[n].pkhs = given[p][n].pkhs
      BY <1>5, <2>1, <3>2
    <3> HIDE DEF t, g, entries, s
    <3>4. HoldsWhatWasGiven(t, g[n])
      BY <2>2, <2>4, <3>1, <3>3 DEF HoldsWhatWasGiven
    <3> QED BY <2>5, <3>4
  <2>8. CASE ~ Claims(i)
    <3>1. t = s /\ g[n] = given[p][n]
      BY <2>1, <2>6, <2>8 DEF AddPreimage
    <3> QED BY <2>2, <2>5, <3>1
  <2> QED BY <2>5, <2>7, <2>8
<1>8. DOMAIN entries = 1..N /\ entries = [i \in 1..N |-> entries[i]]
  BY <1>2 DEF AddPreimages
<1> HIDE DEF entries, g, N
<1>9. entries \in Seq(Entries)
  BY <1>2, <1>7, <1>8, SeqDef
<1>10. NamesDiffer(entries) /\ EntriesHold(entries, g)
  BY <1>1, <1>2, <1>7, <1>8 DEF NamesDiffer, EntriesHold
<1> QED BY <1>3, <1>4, <1>6, <1>9, <1>10, OwnStepKeeps

(* An edit leaves the preimages and no signature; given forgets the same.  *)
LEMMA EditSpendKeeps ==
  ASSUME IInv, NEW p \in Parties, NEW i \in DOMAIN builder[p], NEW edited \in Spends,
         Unsigned(edited), edited.witness.hax = builder[p][i].sb.witness.hax,
         EditSpend(p, i, edited)
  PROVE  IInv'
<1> DEFINE old == builder[p]
           N == Len(old)
           n == old[i].name
           entry == [old[i] EXCEPT !.sb = edited]
           entries == [old EXCEPT ![i] = entry]
           mark == [given[p][n] EXCEPT !.pkhs = {}]
           g == [given[p] EXCEPT ![n] = mark]
<1>1. old \in Seq(Entries) /\ NamesDiffer(old) /\ EntriesHold(old, given[p])
      /\ given[p] \in Marks
  BY DEF IInv
<1>2. N \in Nat /\ DOMAIN old = 1..N /\ i \in 1..N
      /\ \A j \in 1..N : old[j].name \in Names /\ old[j] \in Entries
  BY <1>1, EntryFields
<1>3. builder' = [builder EXCEPT ![p] = entries]
  BY DEF EditSpend
<1>4. given' = [given EXCEPT ![p] = g]
  BY DEF EditSpend
<1>5. paper' = paper /\ marked' = marked
  BY DEF EditSpend
<1>6. edits' \in 0..MaxEdits
  BY FormAssumption DEF EditSpend, IInv
<1>7. entry \in Entries /\ entry.name = n /\ entry.sb = edited
  BY <1>2 DEF Entries
<1>8. /\ mark \in [pkhs : SUBSET Pkhs, digests : SUBSET Digests]
      /\ mark.pkhs = {} /\ mark.digests = given[p][n].digests
  BY <1>1, <1>2 DEF Marks
<1>9. g \in Marks /\ g[n] = mark /\ \A m \in Names \ {n} : g[m] = given[p][m]
  <2> HIDE DEF mark
  <2> QED BY <1>1, <1>2, <1>8 DEF Marks
<1>10. HoldsWhatWasGiven(old[i].sb, given[p][n])
  BY <1>1 DEF EntriesHold
<1>11. HoldsWhatWasGiven(edited, g[n])
  <2> HIDE DEF mark, g
  <2> QED BY <1>8, <1>9, <1>10 DEF HoldsWhatWasGiven, Unsigned, NoSigs
<1>12. entries \in Seq(Entries) /\ DOMAIN entries = 1..N /\ entries[i] = entry
       /\ \A j \in (1..N) \ {i} : entries[j] = old[j]
  <2> HIDE DEF entry
  <2> QED BY <1>1, <1>2, <1>7, ExceptSeq
<1> HIDE DEF entries, entry, mark, g, N
<1>13. \A j \in 1..N : entries[j].name = old[j].name
  BY <1>7, <1>12
<1>14. NamesDiffer(entries)
  BY <1>1, <1>2, <1>12, <1>13 DEF NamesDiffer
<1>15. \A j \in (1..N) \ {i} : old[j].name \in Names \ {n}
  BY <1>1, <1>2 DEF NamesDiffer
<1>16. EntriesHold(entries, g)
  <2> SUFFICES ASSUME NEW j \in 1..N
               PROVE  HoldsWhatWasGiven(entries[j].sb, g[entries[j].name])
    BY <1>12 DEF EntriesHold
  <2>1. CASE j = i
    BY <2>1, <1>7, <1>11, <1>12
  <2>2. CASE j # i
    <3>1. entries[j] = old[j] /\ g[old[j].name] = given[p][old[j].name]
      BY <2>2, <1>9, <1>12, <1>15
    <3> QED BY <3>1, <1>1, <1>2 DEF EntriesHold
  <2> QED BY <2>1, <2>2
<1> QED BY <1>3, <1>4, <1>5, <1>6, <1>9, <1>12, <1>14, <1>16, OwnStepKeeps

LEMMA FeeOfKeeps ==
  ASSUME IInv, NEW p \in Parties, NEW i \in DOMAIN builder[p], NEW portion \in FeePortions,
         FeeOf(p, i, portion)
  PROVE  IInv'
<1> DEFINE s == builder[p][i].sb
           t == SetFee(s, portion)
<1>1. s \in Spends /\ portion \in Nat
  BY EntryFields, FormAssumption DEF IInv
<1>2. EditSpend(p, i, t) /\ t # s
  BY DEF FeeOf, EditSpend
<1>3. t \in Spends /\ Unsigned(t)
  BY <1>1, <1>2, SetFeeType, SetFeeIsEdit DEF IsEdit
<1>4. t.witness.hax = s.witness.hax
  BY <1>1 DEF SetFee, InvalidateSigs, Spends, Witnesses
<1> HIDE DEF t
<1> QED BY <1>2, <1>3, <1>4, EditSpendKeeps

LEMMA SeedOfKeeps ==
  ASSUME IInv, NEW p \in Parties, NEW i \in DOMAIN builder[p], NEW seed \in NewSeeds,
         SeedOf(p, i, seed)
  PROVE  IInv'
<1> DEFINE s == builder[p][i].sb
           t == AddSeed(s, seed)
<1>1. s \in Spends /\ seed \in Seeds
  BY EntryFields, FormAssumption DEF IInv
<1>2. EditSpend(p, i, t) /\ t # s
  BY DEF SeedOf, EditSpend
<1>3. t \in Spends /\ Unsigned(t)
  BY <1>1, <1>2, AddSeedType, AddSeedIsEdit DEF IsEdit
<1>4. t.witness.hax = s.witness.hax
  BY <1>1 DEF AddSeed, InvalidateSigs, Spends, Witnesses
<1> HIDE DEF t
<1> QED BY <1>2, <1>3, <1>4, EditSpendKeeps

LEMMA HandOverKeeps ==
  ASSUME IInv, NEW p \in Parties, HandOver(p)
  PROVE  IInv'
<1> DEFINE full == FullSpends(builder[p])
<1>1. builder[p] \in Seq(Entries) /\ builder[p] # << >> /\ NamesDiffer(builder[p])
      /\ EntriesHold(builder[p], given[p]) /\ given[p] \in Marks
  BY DEF HandOver, IInv
<1>2. /\ full \in Fulls /\ Build(builder[p]) = BuiltOf(full) /\ DOMAIN full = DOMAIN builder[p]
      /\ \A i \in DOMAIN full : /\ full[i].name = builder[p][i].name
                                /\ SigHash(full[i]) = SigHash(builder[p][i].sb)
                                /\ full[i].witness = builder[p][i].sb.witness
  BY <1>1, BuildGives
<1> HIDE DEF full
<1>3. paper' = BuiltOf(full) /\ marked' = given[p]
  BY <1>2 DEF HandOver
<1>4. SpendsHold(full, marked')
  BY <1>1, <1>2, <1>3, HoldsSame DEF SpendsHold, EntriesHold
<1>5. PaperIsOf(full, paper', marked')
  BY <1>3, <1>4 DEF PaperIsOf, PapersOf
<1>6. builder' = builder /\ given' = given /\ edits' = edits /\ marked' \in Marks
  BY <1>1 DEF HandOver
<1> QED BY <1>2, <1>5, <1>6 DEF IInv

LEMMA OpenKeeps ==
  ASSUME IInv, NEW p \in Parties, Open(p)
  PROVE  IInv'
<1>1. PICK full \in Fulls : PaperIsOf(full, paper, marked)
  BY DEF IInv, Open
<1>2. paper \in PapersOf(full) /\ SpendsHold(full, marked)
  BY <1>1 DEF PaperIsOf
<1> DEFINE entries == FromSpends(full)
<1>3. Opened(paper) = entries
  <2>1. CASE paper.form = "raw"
    BY <1>2, <2>1, PaperFields DEF Opened, FromRawTx, RawOf
  <2>2. CASE paper.form # "raw"
    <3>1. paper.form = "tx"
      BY <1>2, <2>2 DEF PapersOf, RawOf, BuiltOf, BackOf, TxOf
    <3>2. ApplyWitness(paper.spends, paper.data) = full
      BY <1>2, <3>1, PaperFields
    <3> QED BY <2>2, <3>2 DEF Opened, FromNockchainTx
  <2> QED BY <2>1, <2>2
<1>4. /\ entries \in Seq(Entries) /\ NamesDiffer(entries) /\ DOMAIN entries = DOMAIN full
      /\ \A i \in DOMAIN full : /\ entries[i].name = full[i].name
                                /\ SigHash(entries[i].sb) = SigHash(full[i])
                                /\ entries[i].sb.witness = full[i].witness
  BY OpeningGives
<1> HIDE DEF entries
<1>5. EntriesHold(entries, marked)
  BY <1>2, <1>4, HoldsSame DEF SpendsHold, EntriesHold
<1>6. builder' = [builder EXCEPT ![p] = entries] /\ given' = [given EXCEPT ![p] = marked]
  BY <1>3 DEF Open
<1>7. paper' = paper /\ marked' = marked /\ edits' \in 0..MaxEdits /\ marked \in Marks
  BY DEF Open, IInv
<1> QED BY <1>4, <1>5, <1>6, <1>7, OwnStepKeeps

LEMMA ConversionKeeps ==
  ASSUME IInv, ToRaw \/ ToTx
  PROVE  IInv'
<1>1. paper # NoPaper
  BY DEF ToRaw, ToTx, NoPaper
<1>2. PICK full \in Fulls : PaperIsOf(full, paper, marked)
  BY <1>1 DEF IInv
<1>3. paper \in PapersOf(full) /\ SpendsHold(full, marked)
  BY <1>2 DEF PaperIsOf
<1>4. paper' \in PapersOf(full)
  <2>1. CASE ToRaw
    BY <1>3, <2>1, PaperFields, Conversions DEF ToRaw, PapersOf
  <2>2. CASE ToTx
    BY <1>3, <2>2, PaperFields, Conversions DEF ToTx, PapersOf
  <2> QED BY <2>1, <2>2
<1>5. builder' = builder /\ given' = given /\ marked' = marked /\ edits' = edits
  BY DEF ToRaw, ToTx
<1>6. PaperIsOf(full, paper', marked')
  BY <1>3, <1>4, <1>5 DEF PaperIsOf
<1> QED BY <1>5, <1>6 DEF IInv

LEMMA NextKeeps == IInv /\ [Next]_vars => IInv'
<1> SUFFICES ASSUME IInv, [Next]_vars PROVE IInv'
  OBVIOUS
<1>1. ASSUME NEW p \in Parties, SignAll(p) PROVE IInv'
  BY <1>1, SignAllKeeps
<1>2. ASSUME NEW p \in Parties, NEW d \in Digests, AddPreimageToAll(p, d) PROVE IInv'
  BY <1>2, AddPreimageToAllKeeps
<1>3. ASSUME NEW p \in Parties, NEW i \in DOMAIN builder[p], NEW portion \in FeePortions,
             FeeOf(p, i, portion)
      PROVE  IInv'
  BY <1>3, FeeOfKeeps
<1>4. ASSUME NEW p \in Parties, NEW i \in DOMAIN builder[p], NEW seed \in NewSeeds,
             SeedOf(p, i, seed)
      PROVE  IInv'
  BY <1>4, SeedOfKeeps
<1>5. ASSUME NEW p \in Parties, HandOver(p) PROVE IInv'
  BY <1>5, HandOverKeeps
<1>6. ASSUME NEW p \in Parties, Open(p) PROVE IInv'
  BY <1>6, OpenKeeps
<1>7. CASE ToRaw \/ ToTx
  BY <1>7, ConversionKeeps
<1>8. CASE UNCHANGED vars
  BY <1>8 DEF vars, IInv
<1> QED BY <1>1, <1>2, <1>3, <1>4, <1>5, <1>6, <1>7, <1>8 DEF Next

-----------------------------------------------------------------------------
(* The theorems.                                                           *)

(* Builders, papers and histories stay what a transaction can be.          *)
THEOREM Invariance == Spec => []IInv
BY InitInvariant, NextKeeps, PTL DEF Spec

(* Every form a transaction is in, however often it was handed over, opened *)
(* and edited, is one the code can have built.                             *)
THEOREM TypesHold == Spec => []TypeInvariant
<1>1. IInv => TypeInvariant
  <2> SUFFICES ASSUME IInv, paper # NoPaper, NEW i \in DOMAIN paper.spends
               PROVE  /\ paper.spends[i].name \in Names
                      /\ paper.spends[i].witness \in Witnesses
                      /\ paper.spends[i].seeds \in Seq(Seeds)
    BY DEF IInv, TypeInvariant
  <2>1. PICK full \in Fulls : paper \in PapersOf(full)
    BY DEF IInv, PaperIsOf
  <2>2. paper.spends \in {full, SplitWitness(full).spends}
    BY <2>1 DEF PapersOf, RawOf, BuiltOf, BackOf, TxOf
  <2>3. i \in DOMAIN full /\ full[i] \in SentSpends
    BY <2>2, FullFields DEF SplitWitness
  <2>4. paper.spends[i] \in {full[i], [full[i] EXCEPT !.witness = StripWitness(@)]}
    BY <2>2, <2>3 DEF SplitWitness
  <2>5. StripWitness(full[i].witness) \in Witnesses
    BY <2>3, NoSigsType DEF StripWitness, SentSpends, Witnesses
  <2> QED BY <2>3, <2>4, <2>5 DEF SentSpends
<1> QED BY <1>1, Invariance, PTL

(* In whichever form, a transaction holds the signatures of just those     *)
(* who signed since its content last changed, and all it was given.        *)
THEOREM SignaturesHeld == Spec => []SignaturesAccumulate
<1>1. IInv => SignaturesAccumulate
  BY PaperFields DEF IInv, PaperIsOf, SpendsHold, SignaturesAccumulate
<1> QED BY <1>1, Invariance, PTL

(* Opening a built transaction and building it again gives it back, with   *)
(* any number of spends, seeds and signers.                                *)
THEOREM RebuildHolds == Spec => []RebuildIsSame
<1>1. IInv => RebuildIsSame
  <2> SUFFICES ASSUME IInv, paper.form = "tx", ~ OpenThrows(paper)
               PROVE  Build(FromNockchainTx(paper)) = paper
    BY DEF RebuildIsSame
  <2>1. paper # NoPaper
    BY DEF NoPaper
  <2>2. PICK full \in Fulls : paper \in PapersOf(full)
    BY <2>1 DEF IInv, PaperIsOf
  <2>3. paper \in {BuiltOf(full), BackOf(full)} /\ FromNockchainTx(paper) = FromSpends(full)
    BY <2>2, PaperFields DEF FromNockchainTx
  <2>4. paper # BackOf(full)
    <3> SUFFICES ASSUME paper = BackOf(full) PROVE FALSE
      OBVIOUS
    <3>1. 1 \in DOMAIN paper.spends /\ paper.display = {}
      BY FullFields DEF BackOf, TxOf, SplitWitness, NoDisplay
    <3> QED BY <3>1 DEF OpenThrows
  <2>5. Build(FromSpends(full)) = BuiltOf(full)
    BY OpeningGives, BuildGives
  <2> QED BY <2>3, <2>4, <2>5
<1> QED BY <1>1, Invariance, PTL

(* The id of a built transaction covers what is sent for it.               *)
THEOREM IdCovers == Spec => []IdCoversWhatIsSent
<1>1. IInv => IdCoversWhatIsSent
  <2> SUFFICES ASSUME IInv, paper.form = "tx", paper.display # NoDisplay
               PROVE  NockchainTxToRawTx(paper).id = paper.id
    BY DEF IdCoversWhatIsSent
  <2>1. paper # NoPaper
    BY DEF NoPaper
  <2>2. PICK full \in Fulls : paper \in PapersOf(full)
    BY <2>1 DEF IInv, PaperIsOf
  <2>3. paper = BuiltOf(full)
    BY <2>2, PaperFields DEF BackOf, TxOf
  <2>4. NockchainTxToRawTx(paper) = RawOf(full)
    BY <2>3, Conversions
  <2> QED BY <2>3, <2>4 DEF RawOf, BuiltOf, TxOf
<1> QED BY <1>1, Invariance, PTL

=============================================================================
