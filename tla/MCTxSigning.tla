------------------------------ MODULE MCTxSigning ------------------------------
(***************************************************************************)
(* Instances of TxSigning: a payment from a note of both keys and a note   *)
(* of one, a spend added by hand (or twice, the second replacing the       *)
(* first), fee changes that send a note to the pool and take it back, and  *)
(* two signWith calls, of one key or of two.                               *)
(***************************************************************************)
EXTENDS TxSigning

CONSTANTS k1, k2, h1

MCPkhs == {k1, k2}
MCDigests == {h1}
MCLocks == {"mine", "other"}
MCLockDataWords == [l \in MCLocks |-> 3]
MCPreimageWords == [d \in MCDigests |-> 2]

PkhPrim(m, hashes) == [tag |-> "pkh", m |-> m, hashes |-> hashes]
MCWitness(prims) ==
  [prims |-> prims, proofWords |-> 10, sigs |-> NoSigs, hax |-> {}]
MCSeed(lock, gift) == [lock |-> lock, gift |-> gift, data |-> NoData]

Single == <<PkhPrim(1, {k1})>>
Other == <<PkhPrim(1, {k2})>>
Both == <<PkhPrim(2, {k1, k2})>>

(* Cost 1: both notes cost some 125 nicks with their signatures. *)
MCOrders ==
  {[notes |-> <<[name |-> 1, assets |-> 160, witness |-> MCWitness(Both)],
                [name |-> 2, assets |-> 200, witness |-> MCWitness(Single)]>>,
    to |-> "other", gift |-> 40, override |-> override, refund |-> "mine",
    include |-> FALSE, extras |-> NoData, preimage |-> NoPreimage] :
     override \in {NoOverride, 130}}

(* The one that gives all away pays no fee and leaves when it is lowered. *)
MCAddition(assets, to, fee, prims) ==
  [name |-> 3, sb |-> [assets |-> assets, refund |-> "mine",
     seeds |-> <<MCSeed(to, assets - fee)>>, fee |-> fee, witness |-> MCWitness(prims)]]
MCAdditions ==
  {MCAddition(80, "other", 0, Single), MCAddition(90, "mine", 10, Other)}
=============================================================================
