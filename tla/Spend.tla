-------------------------------- MODULE Spend --------------------------------
(***************************************************************************)
(* One note being spent: the data a SpendBuilder of src/tx/builder.ts      *)
(* holds, and its synchronous operations as operators from spend to spend. *)
(* The modules SpendBuilder (one spend, with signers running beside it)    *)
(* and TxBuilder (many spends paying one fee) are built from these.        *)
(*                                                                         *)
(* A lock root is a member of Locks; two lock roots are the same member    *)
(* exactly when lockRootHash maps them to the same digest.  A locked note  *)
(* data, memo, blob or preimage is represented by the number of its noun   *)
(* words, the only thing the fee rules see of it.  A signature is          *)
(* represented by the content whose hash the signer was given, so that     *)
(* "the node accepts it" is "it covers the content the spend has".  Note   *)
(* data maps every key to its words; every noun has a word, so 0 stands    *)
(* for a key that is not there.                                            *)
(***************************************************************************)
EXTENDS Integers, Sequences, FiniteSets

CONSTANTS Pkhs,            \* public key hashes
          Digests,         \* hashes of hax preimages
          Locks,           \* lock roots
          HashedLocks,     \* the lock roots known by their digest only
          LockDataWords,   \* Locks -> words of the encoded lock under key "lock"
          PreimageWords,   \* Digests -> words of the preimage
          CostPerWord, WitnessWordDiv, MinFee, EnginePatch,   \* TxEngineSettings
          NoLock,          \* a builder without refund lock
          NoSig            \* no signature of a key in the witness

(***************************************************************************)
(* Words one signature takes in the encoded witness (key digest 5, public  *)
(* key 13, signature 16, tree node 1): the 35 of src/tx/unlocks.ts, and    *)
(* the words an entry of the hax map takes beside its preimage.            *)
(***************************************************************************)
SigWords == 35
HaxEntryWords == 6

DataKeys == {"lock", "memo", "blob"}
NoteDatas == [DataKeys -> Nat]
NoData == [k \in DataKeys |-> 0]
Seeds == [lock : Locks, gift : Nat, data : NoteDatas]
Contents == [seeds : SUBSET Seeds, fee : Nat]

PkhPrims == [tag : {"pkh"}, m : Nat, hashes : SUBSET Pkhs]
HaxPrims == [tag : {"hax"}, preimages : SUBSET Digests]
BrnPrims == [tag : {"brn"}]
Prims == PkhPrims \cup HaxPrims \cup BrnPrims

Sigs == [Pkhs -> Contents \cup {NoSig}]
Witnesses == [prims : Seq(Prims), proofWords : Nat, sigs : Sigs, hax : SUBSET Digests]
Spends == [assets : Nat, refund : Locks \cup {NoLock}, seeds : Seq(Seeds),
           fee : Nat, witness : Witnesses]

ASSUME SpendAssumption ==
  /\ IsFiniteSet(Pkhs) /\ IsFiniteSet(Digests)
  /\ HashedLocks \subseteq Locks
  /\ NoLock \notin Locks
  /\ NoSig \notin Contents
  /\ LockDataWords \in [Locks -> Nat \ {0}]
  /\ PreimageWords \in [Digests -> Nat \ {0}]
  /\ CostPerWord \in Nat /\ MinFee \in Nat
  /\ WitnessWordDiv \in Nat \ {0}
  /\ EnginePatch \in Nat

NoSigs == [p \in Pkhs |-> NoSig]
SmallerOf(a, b) == IF a < b THEN a ELSE b
LargerOf(a, b) == IF a < b THEN b ELSE a

(* The witness of a new SpendBuilder: no signature and no preimage yet.    *)
FreshWitnesses == {w \in Witnesses : w.sigs = NoSigs /\ w.hax = {}}

(* Spends of a transaction, or notes, by name: builders keep a Map of them. *)
NamesOf(entries) == {entries[i].name : i \in DOMAIN entries}
NamesDiffer(entries) ==
  \A i, j \in DOMAIN entries : entries[i].name = entries[j].name => i = j

-----------------------------------------------------------------------------
(* Sums and filters over a list are recursive functions of a prefix        *)
(* length, the form in which SpendLemmas proves facts about them.          *)

TotalUpTo(xs) ==
  LET sum[n \in 0..Len(xs)] == IF n = 0 THEN 0 ELSE sum[n - 1] + xs[n]
  IN  sum

Total(xs) == TotalUpTo(xs)[Len(xs)]

Gifts(seeds) == Total([i \in 1..Len(seeds) |-> seeds[i].gift])

(* What xs has at the given places, in its order. *)
KeptUpTo(xs, places) ==
  LET kept[n \in 0..Len(xs)] ==
        IF n = 0 THEN << >>
        ELSE IF n \in places THEN Append(kept[n - 1], xs[n])
        ELSE kept[n - 1]
  IN  kept

Kept(xs, places) == KeptUpTo(xs, places)[Len(xs)]

Others(seeds, lock) == Kept(seeds, {i \in DOMAIN seeds : seeds[i].lock # lock})

-----------------------------------------------------------------------------
(* Building and editing a spend.                                           *)

NewSpend(assets, refund, witness) ==
  [assets |-> assets, refund |-> refund, seeds |-> << >>, fee |-> 0,
   witness |-> witness]

BuildSeedThrows(lock, includeLockData) == includeLockData /\ lock \in HashedLocks

(* Mutant: the lock starts the note data anew. *)
SeedDataLockOnly(lock, includeLockData, extras) ==
  IF includeLockData THEN [NoData EXCEPT !["lock"] = LockDataWords[lock]] ELSE extras

SeedData(lock, includeLockData, extras) ==
  IF includeLockData THEN [extras EXCEPT !["lock"] = LockDataWords[lock]] ELSE extras

BuildSeed(lock, gift, includeLockData, extras) ==
  [lock |-> lock, gift |-> gift, data |-> SeedData(lock, includeLockData, extras)]

InvalidateSigs(s) == [s EXCEPT !.witness.sigs = NoSigs]

(* Mutant: seed() without its invalidateSigs(). *)
AddSeedKeepingSigs(s, seed) == [s EXCEPT !.seeds = Append(@, seed)]

AddSeed(s, seed) == [InvalidateSigs(s) EXCEPT !.seeds = Append(@, seed)]

(* Mutant: fee() without its invalidateSigs(). *)
SetFeeKeepingSigs(s, portion) == [s EXCEPT !.fee = portion]

SetFee(s, portion) ==
  [(IF s.fee # portion THEN InvalidateSigs(s) ELSE s) EXCEPT !.fee = portion]

RefundSeedsAt(s) == {i \in DOMAIN s.seeds : s.seeds[i].lock = s.refund}
HasRefund(s) == s.refund # NoLock /\ RefundSeedsAt(s) # {}
CurRefund(s) ==
  s.seeds[CHOOSE i \in RefundSeedsAt(s) : \A j \in RefundSeedsAt(s) : i <= j]
RefundGift(s) == IF HasRefund(s) THEN CurRefund(s).gift ELSE 0

(***************************************************************************)
(* computeRefund drops every seed to the refund lock and puts what is left *)
(* of the assets back as the first seed.  The rebuilt seed has no memo or  *)
(* blob.  buildSeed throws for a refund lock known by its digest only when *)
(* its data is wanted: signatures and old refunds are gone by then.        *)
(***************************************************************************)
(* Mutants: only the refund that curRefund() finds is dropped; the first   *)
(* seed is taken to be the refund.                                         *)
WithoutOneRefund(s) ==
  IF HasRefund(s)
  THEN LET first == CHOOSE i \in RefundSeedsAt(s) : \A j \in RefundSeedsAt(s) : i <= j
       IN  [InvalidateSigs(s) EXCEPT !.seeds = SubSeq(@, 1, first - 1) \o SubSeq(@, first + 1, Len(@))]
  ELSE InvalidateSigs(s)

WithoutFirstSeed(s) ==
  IF s.seeds = << >> THEN InvalidateSigs(s)
  ELSE [InvalidateSigs(s) EXCEPT !.seeds = Tail(@)]

WithoutRefund(s) ==
  [InvalidateSigs(s) EXCEPT !.seeds = Others(s.seeds, s.refund)]

Unspent(s) == s.assets - s.fee - Gifts(Others(s.seeds, s.refund))

ComputeRefundThrows(s, includeLockData) ==
  s.refund # NoLock /\ Unspent(s) > 0 /\ BuildSeedThrows(s.refund, includeLockData)

(* Mutant: a refund that is not positive is put back like any other. *)
ComputeAnyRefund(s, includeLockData) ==
  IF s.refund = NoLock \/ ComputeRefundThrows(s, includeLockData) THEN WithoutRefund(s)
  ELSE [WithoutRefund(s) EXCEPT
          !.seeds = <<BuildSeed(s.refund, Unspent(s), includeLockData, NoData)>> \o @]

ComputeRefund(s, includeLockData) ==
  IF s.refund = NoLock THEN s
  ELSE IF Unspent(s) <= 0 \/ ComputeRefundThrows(s, includeLockData) THEN WithoutRefund(s)
  ELSE [WithoutRefund(s) EXCEPT
          !.seeds = <<BuildSeed(s.refund, Unspent(s), includeLockData, NoData)>> \o @]

IsBalanced(s) == s.assets = Gifts(s.seeds) + s.fee

-----------------------------------------------------------------------------
(* The witness: signatures and preimages.                                  *)

PrimsOf(s, tag) == {i \in DOMAIN s.witness.prims : s.witness.prims[i].tag = tag}

ListedIn(prims, pkh) ==
  \E i \in DOMAIN prims : prims[i].tag = "pkh" /\ pkh \in prims[i].hashes

ClaimsPreimage(s, d) == \E i \in PrimsOf(s, "hax") : d \in s.witness.prims[i].preimages

AddPreimage(s, d) ==
  IF ClaimsPreimage(s, d) THEN [s EXCEPT !.witness.hax = @ \cup {d}] ELSE s

SetWitness(s, witness) == [InvalidateSigs(s) EXCEPT !.witness = witness]

PushPkhSignature(s, pkh, content) == [s EXCEPT !.witness.sigs[pkh] = content]

PushHaxPreimage(s, d) == [s EXCEPT !.witness.hax = @ \cup {d}]

(* What hashSpendV1SigHash hashes: the set of the seeds, and the fee.      *)
SigHash(s) == [seeds |-> {s.seeds[i] : i \in DOMAIN s.seeds}, fee |-> s.fee]

SignedBy(s) == {p \in Pkhs : s.witness.sigs[p] # NoSig}

(* Mutant: one signature is enough, whatever m is. *)
MissingOfOne(s, i) ==
  LET p == s.witness.prims[i]
  IN  IF p.tag = "pkh" /\ p.m > 0 /\ p.hashes \cap SignedBy(s) = {} THEN 1 ELSE 0

MissingSigs(s, i) ==
  LET p == s.witness.prims[i]
  IN  IF p.tag = "pkh" THEN LargerOf(0, p.m - Cardinality(p.hashes \cap SignedBy(s))) ELSE 0

PrimLocked(s, i) ==
  LET p == s.witness.prims[i]
  IN  \/ p.tag = "pkh" /\ MissingSigs(s, i) > 0
      \/ p.tag = "hax" /\ ~ (p.preimages \subseteq s.witness.hax)
      \/ p.tag = "brn"

MissingUnlocks(s) == {i \in DOMAIN s.witness.prims : PrimLocked(s, i)}

=============================================================================
