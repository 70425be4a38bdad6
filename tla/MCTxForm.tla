------------------------------- MODULE MCTxForm -------------------------------
(***************************************************************************)
(* TxForm with two signers.  Note 1 needs both keys, note 2 (an HTLC       *)
(* claim) one of them and a preimage; in one of the builders all of note 2 *)
(* goes to the fee.  Either party begins.                                  *)
(***************************************************************************)
EXTENDS TxForm

CONSTANTS k1, k2, h1

MCPkhs == {k1, k2}
MCDigests == {h1}
MCLocks == {"mine", "other"}
MCLockDataWords == [l \in MCLocks |-> 3]
MCPreimageWords == [d \in MCDigests |-> 2]
MCNames == {1, 2}

Witness(prims) == [prims |-> prims, proofWords |-> 10, sigs |-> NoSigs, hax |-> {}]
Both == Witness(<<[tag |-> "pkh", m |-> 2, hashes |-> {k1, k2}]>>)
Claim == Witness(<<[tag |-> "pkh", m |-> 1, hashes |-> {k1}], [tag |-> "hax", preimages |-> {h1}]>>)

MCSeed(lock, gift) == [lock |-> lock, gift |-> gift, data |-> NoData]
Entry(name, assets, seeds, fee, witness) ==
  [name |-> name,
   sb |-> [assets |-> assets, refund |-> "mine", seeds |-> seeds, fee |-> fee, witness |-> witness]]

(* Balanced when two more seeds are added. *)
Paying == Entry(1, 14, <<MCSeed("mine", 3), MCSeed("other", 6)>>, 1, Both)

MCFirstBuilders ==
  {<<Paying, Entry(2, 5, <<MCSeed("mine", 5)>>, 0, Claim)>>,
   <<Entry(2, 5, <<>>, 5, Claim), Paying>>}

MCNewSeeds == {MCSeed("other", 2)}
MCFeePortions == {1, 3}
===============================================================================
