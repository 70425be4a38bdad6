---------------------------------- MODULE Fee ----------------------------------
(***************************************************************************)
(* The fee rules of src/tx/fee.ts and src/tx/unlocks.ts: what a list of    *)
(* spends costs in nicks.  Seeds and witnesses are charged by the words of *)
(* their encodings, witnesses at a discount; from engine patch 1 (Bythos)  *)
(* on, the note data of all seeds to one lock root are merged before they  *)
(* are charged.                                                            *)
(***************************************************************************)
EXTENDS Spend, FiniteSetsExt, SequencesExt

NoteDataWords(data) ==
  1 + SumFunction([k \in DataKeys |-> IF data[k] = 0 THEN 0 ELSE 1 + data[k]])

(* The two numbers spendCalcWords returns. *)
SeedWords(s) == Total([i \in 1..Len(s.seeds) |-> NoteDataWords(s.seeds[i].data)])

WitnessWords(s) ==
  s.witness.proofWords
    + SigWords * Cardinality(SignedBy(s))
    + SumFunction([d \in s.witness.hax |-> HaxEntryWords + PreimageWords[d]])

SeedFee(words) == CostPerWord * words
WitnessFee(words) == (CostPerWord * words) \div WitnessWordDiv

(* Mutant: one signature is charged for a primitive that lacks several. *)
MissingUnlocksFeeOnce(s) ==
  Total([i \in DOMAIN s.witness.prims |->
           (CostPerWord * SigWords * SmallerOf(1, MissingSigs(s, i))) \div WitnessWordDiv])

(* Signatures still to come are charged as if each had its usual size. *)
MissingUnlocksFee(s) ==
  Total([i \in DOMAIN s.witness.prims |->
           (CostPerWord * SigWords * MissingSigs(s, i)) \div WitnessWordDiv])

(* Of two seeds to one lock with the same key, the later one's noun is     *)
(* kept, in the order of the spends and of the seeds in each.              *)
MergedData(seeds, lock) ==
  [k \in DataKeys |->
     LET at == {i \in DOMAIN seeds : seeds[i].lock = lock /\ seeds[i].data[k] # 0}
     IN  IF at = {} THEN 0 ELSE seeds[Max(at)].data[k]]

(* Mutant: every seed is charged, whatever the engine patch. *)
OrderedSeedWordsUnmerged(list) == Total([i \in 1..Len(list) |-> SeedWords(list[i])])

OrderedSeedWords(list) ==
  LET all == FlattenSeq([i \in 1..Len(list) |-> list[i].seeds])
  IN  IF EnginePatch = 0
      THEN Total([i \in 1..Len(list) |-> SeedWords(list[i])])
      ELSE SumFunction([l \in {all[i].lock : i \in DOMAIN all} |->
                          NoteDataWords(MergedData(all, l))])

CalcFeeFromSpends(list) ==
  LargerOf(SeedFee(OrderedSeedWords(list))
             + WitnessFee(Total([i \in 1..Len(list) |-> WitnessWords(list[i])])),
           MinFee)

=============================================================================
