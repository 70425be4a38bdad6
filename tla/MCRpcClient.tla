------------------------------ MODULE MCRpcClient ------------------------------
(***************************************************************************)
(* RpcClient for TLC: one caller sends a transaction, the other sends the  *)
(* same one, or asks whether it is in a block, or for a balance of two     *)
(* kinds, or for blocks, while up to two blocks are mined.                 *)
(***************************************************************************)
EXTENDS RpcClient

D(n) == Text(<<n, 0, 1, n + 1, 0>>)
Name(n) == [first |-> D(n), last |-> D(n + 1)]

(* A spend that needs no signature, to two digests, from a limited lock:   *)
(* its request is longer than a byte can say.                              *)
MCTx ==
  LET tim == [tag |-> "tim", rel |-> [min |-> <<2>>, max |-> << >>],
              abs |-> [min |-> << >>, max |-> << >>]]
      lmp == [spend_condition |-> <<tim>>, axis |-> 12, root |-> D(6),
              path |-> <<D(7), D(8), D(9)>>, full |-> TRUE]
      seed == [output_source |-> << >>, lock_root |-> D(1), note_data |-> << >>, gift |-> 3,
               parent_hash |-> D(9)]
  IN  [id |-> D(0),
       spends |-> <<[name |-> Name(4),
                     spend |-> [tag |-> 1, seeds |-> <<seed, [seed EXCEPT !.lock_root = D(2)]>>, fee |-> 0,
                                witness |-> [lock_merkle_proof |-> lmp, hax_map |-> << >>,
                                             pkh_signature |-> << >>]]]>>]

Note(n, noun) ==
  [version |-> 1, origin_page |-> n, name |-> Name(n), assets |-> n,
   note_data |-> <<[key |-> <<5, 0>>, noun |-> noun]>>]
Legacy ==
  [version |-> 0, origin_page |-> 0, name |-> Name(7), assets |-> 4,
   sig |-> <<[keys_required |-> <<1>>, schnorr_pubkeys |-> << >>]>>,
   source |-> <<[hash |-> <<DigestToGrpcHash(D(3))>>, coinbase |-> <<1>>]>>]

(* Two notes and a page of two; then one is spent and two come.            *)
MCLedger ==
  [selector \in {"address", "first_name"} |->
     [text \in {<<8>>} |->
        IF selector = "address" THEN <<<< >>, <<Legacy>>, <<Legacy, Note(0, 3)>>>>
        ELSE <<<<Note(1, 2), Note(2, Unbased)>>, <<Note(2, Unbased), Note(3, 0), Note(4, 1)>>, << >>>>]]

Send == [method |-> "send", tx |-> MCTx]
MCAsks ==
  [c \in {"sender", "other"} |->
     IF c = "sender" THEN {Send}
     ELSE {Send, [method |-> "accepted", id |-> MCTx.id],
           [method |-> "balance", selector |-> "address", text |-> <<8>>],
           [method |-> "balance", selector |-> "first_name", text |-> <<8>>],
           [method |-> "blocks", limit |-> 2]}]

(* Part of the length of the message; no message; part of a message.       *)
MCCuts == {3, 5, 20}
=============================================================================
