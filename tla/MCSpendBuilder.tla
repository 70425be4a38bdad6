---------------------------- MODULE MCSpendBuilder ----------------------------
(***************************************************************************)
(* Two instances of SpendBuilder for a note of 5 nicks.  In the first, the *)
(* condition asks for 2 of 2 keys, and two signWith calls overlap with     *)
(* each other and with the owner.  In the second there is one key and one  *)
(* call, and more seeds, fees and refund locks.                            *)
(***************************************************************************)
EXTENDS SpendBuilder, TLC

CONSTANTS k1, k2, h1, c1, c2

MCDigests == {h1}
MCLocks == {"mine", "hashed", "other"}
MCHashedLocks == {"hashed"}
MCLockDataWords == [l \in MCLocks |-> 3]
MCPreimageWords == [d \in MCDigests |-> 2]

PkhPrim(m, hashes) == [tag |-> "pkh", m |-> m, hashes |-> hashes]
HaxPrim(preimages) == [tag |-> "hax", preimages |-> preimages]

MCWitness(prims) ==
  [prims |-> prims, proofWords |-> 10, sigs |-> NoSigs, hax |-> {}]
MCSeed(lock, gift) == [lock |-> lock, gift |-> gift, data |-> NoData]

(* SpendBuilder.new(note, lock, 0, refund) *)
MCNew(refund, prims) ==
  [assets |-> 5, refund |-> refund, seeds |-> << >>, fee |-> 0,
   witness |-> MCWitness(prims)]

(* SpendBuilder.fromSpend of a spend k1 signed: no refund lock. *)
MCDecoded(prims) ==
  LET seed == MCSeed("other", 4)
      signed == [NoSigs EXCEPT ![k1] = [seeds |-> {seed}, fee |-> 1]]
  IN  [assets |-> 5, refund |-> NoLock, seeds |-> <<seed>>, fee |-> 1,
       witness |-> [MCWitness(prims) EXCEPT !.sigs = signed]]

(* Overlapping signers. *)
SignPkhs == {k1, k2}
SignFirst == {MCNew("mine", <<PkhPrim(2, {k1, k2})>>)}
SignSeeds == {MCSeed("other", 2)}
SignWitnesses == {MCWitness(<<PkhPrim(1, {k2})>>)}
CallSymmetry == Permutations({c1, c2})

(* Refunds and edits. *)
EditPkhs == {k1}
EditPrims == <<HaxPrim({h1}), PkhPrim(1, {k1})>>
EditFirst == {MCNew("mine", EditPrims), MCNew("hashed", EditPrims), MCDecoded(EditPrims)}
EditSeeds == {MCSeed("other", 2), MCSeed("mine", 1)}
EditWitnesses == {MCWitness(<<PkhPrim(1, {}), [tag |-> "brn"]>>)}
EditForeign == {[seeds |-> {}, fee |-> 0]}
=============================================================================
