------------------------------ MODULE MCTxBuilder ------------------------------
(***************************************************************************)
(* Instances of TxBuilder, with Outputs.  A signature costs 35 words and a *)
(* proof 10, so at one nick a word a note of one key costs about 50 nicks  *)
(* to spend, and the notes hold from nothing to three times that.          *)
(***************************************************************************)
EXTENDS TxBuilderPays

CONSTANTS k1, k2, h1

MCPkhs == {k1, k2}
MCDigests == {h1}
MCLocks == {"mine", "hashed", "other"}
MCHashedLocks == {"hashed"}
MCLockDataWords == [l \in MCLocks |-> 3]
MCPreimageWords == [d \in MCDigests |-> 2]

PkhPrim(m, hashes) == [tag |-> "pkh", m |-> m, hashes |-> hashes]
HaxPrim(preimages) == [tag |-> "hax", preimages |-> preimages]
MCWitness(prims) ==
  [prims |-> prims, proofWords |-> 10, sigs |-> NoSigs, hax |-> {}]
MCSeed(lock, gift) == [lock |-> lock, gift |-> gift, data |-> NoData]
MCNote(name, assets, prims) ==
  [name |-> name, assets |-> assets, witness |-> MCWitness(prims)]
MCOrder(notes, to, gift, override, include, extras, preimage) ==
  [notes |-> notes, to |-> to, gift |-> gift, override |-> override,
   refund |-> "mine", include |-> include, extras |-> extras, preimage |-> preimage]

Memo == [NoData EXCEPT !["memo"] = 4, !["blob"] = 2]

Single == <<PkhPrim(1, {k1})>>
Either == <<PkhPrim(1, {k1, k2})>>
Both == <<PkhPrim(2, {k1, k2})>>
Claim == <<PkhPrim(1, {k1}), HaxPrim({h1})>>

(* Two notes of one size, one larger, an empty one and one of version 0.   *)
Note1 == MCNote(1, 100, Single)
Note2 == MCNote(2, 100, Both)
Note3 == MCNote(3, 160, Either)
Empty == MCNote(4, 0, Single)
Old == MCNote(5, 100, Single)
ClaimA == MCNote(6, 100, Claim)
ClaimB == MCNote(7, 60, Claim)

Arrangements(S) ==
  UNION {{f \in [1..n -> S] : \A i, j \in 1..n : i # j => f[i] # f[j]} : n \in 1..Cardinality(S)}

(* Every way to pay with up to three notes. *)
PayOrders ==
  {MCOrder(notes, to, gift, override, include, extras, NoPreimage) :
     notes \in Arrangements({Note1, Note2, Note3}) \cup {<<Note1, Empty>>, <<Note1, Old>>},
     to \in {"other", "mine"}, gift \in {0, 40, 100, 150, 230},
     override \in {NoOverride, 0, 20, 130}, include \in BOOLEAN,
     extras \in {NoData, Memo}}

(* One builder used again and again: payments, spends built by hand, fee   *)
(* changes, preimages, signatures, validation.                             *)
CallOrders ==
  {MCOrder(<<Note1, Note3>>, "other", 120, NoOverride, TRUE, NoData, NoPreimage),
   MCOrder(<<ClaimB, ClaimA>>, "other", 30, 90, FALSE, Memo, h1),
   MCOrder(<<Note2, Empty>>, "mine", 40, NoOverride, FALSE, NoData, h1)}

(* A spend whose refund lock is a bare digest, one decoded without refund  *)
(* lock, and one with two refunds.                                         *)
MCSpend(assets, refund, seeds, fee) ==
  [assets |-> assets, refund |-> refund, seeds |-> seeds, fee |-> fee,
   witness |-> MCWitness(Single)]
CallAdditions ==
  {[name |-> 8, sb |-> MCSpend(90, "hashed", <<MCSeed("hashed", 60)>>, 30)],
   [name |-> 9, sb |-> MCSpend(50, NoLock, <<MCSeed("other", 40)>>, 10)],
   [name |-> 9, sb |-> MCSpend(80, "mine",
      <<MCSeed("other", 30), MCSeed("mine", 20), MCSeed("mine", 30)>>, 0)]}

(* An HTLC claim whose second note is only there for the fee. *)
ClaimOrders ==
  {MCOrder(<<ClaimA, ClaimB>>, "other", 100, override, FALSE, NoData, h1) :
     override \in {NoOverride, 20}}
=============================================================================
