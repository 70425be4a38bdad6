------------------------------- MODULE TxProto -------------------------------
(***************************************************************************)
(* A transaction on its way from one program to another: through the       *)
(* protobuf object, written by this code or by a peer and read by this     *)
(* code, any number of times, and then to the node as bytes.               *)
(***************************************************************************)
EXTENDS TxMessages

CONSTANTS Transactions,   \* raw transactions at the start
          MaxTrips        \* bound on the times a transaction is read

VARIABLES
  origin,    \* the transaction at the start
  tx,        \* as it is now
  phase,     \* "native", "object", "sent" or "refused"
  object,    \* the protobuf object
  bytes,     \* what is sent to the node
  writers    \* who wrote the objects it came through, the latest last

vars == <<origin, tx, phase, object, bytes, writers>>

Init ==
  /\ origin \in Transactions /\ tx = origin
  /\ phase = "native"
  /\ object = << >> /\ bytes = << >> /\ writers = << >>

Write(by) ==
  /\ phase = "native" /\ phase' = "object"
  /\ Len(writers) < MaxTrips
  /\ object' = RawTxToProtobuf(by, tx)
  /\ writers' = Append(writers, by)
  /\ UNCHANGED <<origin, tx, bytes>>

Read ==
  /\ phase = "object"
  /\ IF Refuses(object) THEN phase' = "refused" /\ UNCHANGED tx
     ELSE phase' = "native" /\ tx' = RawTxFromProtobuf(object)
  /\ UNCHANGED <<origin, object, bytes, writers>>

Send ==
  /\ phase = "native" /\ phase' = "sent"
  /\ bytes' = EncodeRawTransactionBytes(tx)
  /\ UNCHANGED <<origin, tx, object, writers>>

Next == (\E by \in {Rose, Peer, Older} : Write(by)) \/ Read \/ Send

Spec == Init /\ [][Next]_vars

-----------------------------------------------------------------------------
Unlimited == [min |-> << >>, max |-> << >>]

(* What is left of a transaction that a writer wrote and rose-ts read.     *)
SeedLeft(by, seed) ==
  [seed EXCEPT !.lock_root = LockRootHash(@),
               !.output_source = IF by = Rose THEN << >> ELSE @]

PrimLeft(by, prim) ==
  IF by = Rose /\ prim.tag = "tim" THEN [prim EXCEPT !.rel = Unlimited, !.abs = Unlimited]
  ELSE prim

ProofLeft(by, lmp) ==
  [lmp EXCEPT !.full = @ /\ by # Older,
              !.spend_condition = Mapped(@, LAMBDA p : PrimLeft(by, p))]

Left(t, by) ==
  WithSpends(t, LAMBDA spend : WithProof(WithSeeds(spend, LAMBDA s : SeedLeft(by, s)),
                                         LAMBDA lmp : ProofLeft(by, lmp)))

HoldsUnbased(spend) ==
  \/ \E s \in Range(spend.seeds) : \E d \in Range(s.note_data) : ~NounIsBased(d.noun)
  \/ spend.tag = 1 /\ \E h \in Range(spend.witness.hax_map) : ~NounIsBased(h.noun)

TypeInvariant ==
  /\ origin \in Transactions
  /\ phase \in {"native", "object", "sent", "refused"}
  /\ writers \in BoundedSeq({Rose, Peer, Older}, MaxTrips)
  /\ Len(tx.spends) = Len(origin.spends)

(* What comes back from the protobuf object is the transaction, with lock  *)
(* roots hashed; what rose-ts wrote has lost its timelock limits and the   *)
(* sources of its outputs, what an older peer wrote its proof versions.    *)
(* It is refused for a reason in it, never read in part                    *)
(* (rawTxToProtobuf, rawTxFromProtobuf).                                   *)
PbRoundTrip ==
  /\ phase # "object" /\ phase # "refused" => tx = FoldLeft(Left, origin, writers)
  /\ phase = "refused" =>
       \E e \in Range(tx.spends) :
         \/ HoldsUnbased(e.spend)
         \/ e.spend.tag = 0 /\ Last(writers) = Rose
         \/ /\ e.spend.tag = 1 /\ Last(writers) = Older
            /\ e.spend.witness.lock_merkle_proof.axis # 1

(* The node reads from the bytes the transaction that was sent, all of it  *)
(* but spends of version 0 and sources that name a parent (rawTxV1ToGrpc). *)
NodeSeesTheTransaction ==
  phase = "sent" =>
    LET read == Decode(Types!RawTransaction, bytes)
    IN  ~read.failed /\ NodeReads(read.message) = AsSent(tx)

(* A spend condition keeps the limits of its timelocks                     *)
(* (spendConditionToProtobuf, spendConditionFromProtobuf).                 *)
TimelocksKept ==
  phase # "object" =>
    \A i \in DOMAIN tx.spends :
      tx.spends[i].spend.tag = 1 =>
        tx.spends[i].spend.witness.lock_merkle_proof.spend_condition =
          origin.spends[i].spend.witness.lock_merkle_proof.spend_condition
=============================================================================
