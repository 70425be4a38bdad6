-------------------------------- MODULE Outputs --------------------------------
(***************************************************************************)
(* The notes a transaction makes (src/tx/outputs.ts), for the transactions *)
(* that TxBuilder builds.                                                  *)
(*                                                                         *)
(* build() puts the seeds of each spend into the order of a z-tree, which  *)
(* is the order of hashes: to the builder it may be any, so the properties *)
(* speak of all the orders.  Equal seeds of a spend are one by then.       *)
(***************************************************************************)
EXTENDS TxBuilder

(* All lists of seeds that rawTxV1Outputs may go through. *)
WireSeeds(entries) ==
  FoldLeft(LAMBDA lists, e : {list \o own : list \in lists, own \in SetToSeqs(ToSet(e.sb.seeds))},
           {<< >>}, entries)

GroupOf(seedsByLock, lock) == CHOOSE i \in DOMAIN seedsByLock : seedsByLock[i].lock = lock

(* One turn of the loop: seedsByLock is a Map, in insertion order.         *)
(* (a mutant first: the list that was there is not taken up) *)
GroupAnew(seedsByLock, seed) ==
  IF \E i \in DOMAIN seedsByLock : seedsByLock[i].lock = seed.lock
  THEN [seedsByLock EXCEPT ![GroupOf(seedsByLock, seed.lock)].seeds = <<seed>>]
  ELSE Append(seedsByLock, [lock |-> seed.lock, seeds |-> <<seed>>])

Group(seedsByLock, seed) ==
  IF \E i \in DOMAIN seedsByLock : seedsByLock[i].lock = seed.lock
  THEN [seedsByLock EXCEPT ![GroupOf(seedsByLock, seed.lock)].seeds = Append(@, seed)]
  ELSE Append(seedsByLock, [lock |-> seed.lock, seeds |-> <<seed>>])

SeedsByLock(seeds) == FoldLeft(Group, << >>, seeds)

(* Map.set over the note data of all seeds: the last one wins. *)
MergeNoteData(seeds) ==
  FoldLeft(LAMBDA data, seed : [k \in DataKeys |->
             IF seed.data[k] = 0 THEN data[k] ELSE seed.data[k]], NoData, seeds)

(* A note: its name is the lock root (first) and the set of seeds (last).  *)
Output(group) ==
  [first |-> group.lock, last |-> ToSet(group.seeds), assets |-> Gifts(group.seeds),
   data |-> IF EnginePatch >= 1 THEN MergeNoteData(group.seeds) ELSE group.seeds[1].data]

RawTxV1Outputs(seeds) ==
  LET groups == SeedsByLock(seeds)
  IN  [i \in DOMAIN groups |-> Output(groups[i])]

-----------------------------------------------------------------------------
(* Properties.                                                             *)

NoEqualSeeds(entries) ==
  \A i \in DOMAIN entries :
    Cardinality(ToSet(entries[i].sb.seeds)) = Len(entries[i].sb.seeds)

(* OutputsConserve: when a payment has returned, the notes it makes and    *)
(* the fee are worth what the notes it spends held, in whichever order the *)
(* seeds come, and no two of the notes have one first name.                *)
OutputsConserve ==
  [][(Returns /\ job # Idle /\ NoEqualSeeds(spends')) =>
       \A seeds \in WireSeeds(spends') :
         LET outputs == RawTxV1Outputs(seeds)
         IN  /\ Total([i \in DOMAIN outputs |-> outputs[i].assets]) + CurFee(spends')
                  = Total([i \in DOMAIN spends' |-> spends'[i].sb.assets])
             /\ \A i, j \in DOMAIN outputs :
                  i # j => outputs[i].first # outputs[j].first]_vars

(* MemoDelivered: the recipient of a payment gets one note worth the gift, *)
(* however many notes were spent, and the note carries the memo and the    *)
(* blob of the payment, and the lock if it was to be included.             *)
MemoDelivered ==
  [][(Returns /\ job # Idle /\ job.order # NoOrder /\ job.order.to # job.order.refund)
     => LET order == job.order
        IN  \A seeds \in WireSeeds(spends') :
              \E i \in DOMAIN RawTxV1Outputs(seeds) :
                LET out == RawTxV1Outputs(seeds)[i]
                IN  /\ out.first = order.to /\ out.assets = order.gift
                    /\ out.data["memo"] = order.extras["memo"]
                    /\ out.data["blob"] = order.extras["blob"]
                    /\ order.include => out.data["lock"] = LockDataWords[order.to]]_vars

(* FeeChargesForOutputs: two places merge note data, the fee rules in the  *)
(* builder's order of seeds and the outputs in the wire's; from engine     *)
(* patch 1 on the fee of a payment is for the words its notes will carry.  *)
FeeChargesForOutputs ==
  [][(Returns /\ job # Idle /\ EnginePatch >= 1) =>
       \A seeds \in WireSeeds(spends') :
         LET outputs == RawTxV1Outputs(seeds)
         IN  Total([i \in DOMAIN outputs |-> NoteDataWords(outputs[i].data)])
               = OrderedSeedWords(SpendsOf(spends'))]_vars

=============================================================================
