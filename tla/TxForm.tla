-------------------------------- MODULE TxForm --------------------------------
(***************************************************************************)
(* The forms of a transaction and its way between several signers: a       *)
(* TxBuilder is built into a NockchainTx (witnesses split off), turned     *)
(* into a RawTxV1 (witnesses in place, what is sent) and back, and opened  *)
(* by another party, who signs it, edits it, and builds it again           *)
(* (src/tx/builder.ts build, fromNockchainTx, fromRawTx; src/tx/spends.ts, *)
(* src/tx/index.ts).                                                       *)
(*                                                                         *)
(* Each party has one builder; `paper' is the transaction last handed      *)
(* over, in either form.  The id of a transaction is what its hash covers. *)
(* A call that throws changes nothing here and is a stuttering step.       *)
(*                                                                         *)
(* History, not in the code: given and marked say, for the builders and    *)
(* the paper, who signed each spend since its content last changed and     *)
(* which preimages it was given.                                           *)
(***************************************************************************)
EXTENDS Spend, SequencesExt

CONSTANTS Names,           \* names of notes
          FirstBuilders,   \* builders one party begins with: lists of entries
          MaxSeeds,        \* bound on the seeds of a spend
          NewSeeds,        \* seeds a party may add
          FeePortions,     \* fees a party may set
          MaxEdits         \* bound on the edits of a behaviour

VARIABLES builder,    \* party -> the spends of its builder, in the Map's order
          paper,      \* the transaction last handed over
          given,      \* party -> history of its builder
          marked,     \* history of the paper
          edits       \* edits so far

vars == <<builder, paper, given, marked, edits>>

NoPaper == [form |-> "none"]
NoDisplay == {}      \* display metadata without any input

(* A party is the holder of one key. *)
Parties == Pkhs

Entries == [name : Names, sb : Spends]
(* A party begins with a builder nobody has signed yet, a note once in it. *)
ASSUME FormAssumption ==
  /\ FirstBuilders \subseteq Seq(Entries)
  /\ \A first \in FirstBuilders :
       NamesDiffer(first) /\ \A i \in DOMAIN first : first[i].sb.witness \in FreshWitnesses
  /\ NewSeeds \subseteq Seeds
  /\ FeePortions \subseteq Nat
  /\ MaxEdits \in Nat

Marks == [Names -> [pkhs : SUBSET Pkhs, digests : SUBSET Digests]]
NoMarks == [n \in Names |-> [pkhs |-> {}, digests |-> {}]]

-----------------------------------------------------------------------------
(* Spends as they are in a transaction: a name, seeds, fee and witness.    *)

SeedSet(seeds) == ToSet(seeds)

(* canonicalSeedsV1: the seeds as a set, in the one order a z-tree gives   *)
(* them (module ZTree).                                                    *)
CanonicalSeeds(seeds) == SetToSeq(SeedSet(seeds))

(* Mutant: no list at all where the empty one belongs. *)
StripWitnessToNull(w) == [w EXCEPT !.sigs = NoSig, !.hax = {}]

StripWitness(w) == [w EXCEPT !.sigs = NoSigs, !.hax = {}]

SplitWitness(spends) ==
  [spends |-> [i \in DOMAIN spends |-> [spends[i] EXCEPT !.witness = StripWitness(@)]],
   data |-> [i \in DOMAIN spends |-> [name |-> spends[i].name, witness |-> spends[i].witness]]]

(* The witness under the name; preimages left in the spend are taken when  *)
(* the witness has none.                                                   *)
Merged(spend, w) ==
  IF w.hax = {} THEN [spend EXCEPT !.witness = [w EXCEPT !.hax = spend.witness.hax]]
  ELSE [spend EXCEPT !.witness = w]

(* Mutant: witnesses are matched by their place, from the end. *)
ApplyWitnessByPlace(spends, data) ==
  [i \in DOMAIN spends |-> Merged(spends[i], data[Len(data) + 1 - i].witness)]

ApplyWitness(spends, data) ==
  [i \in DOMAIN spends |->
     LET at == {j \in DOMAIN data : data[j].name = spends[i].name}
     IN  IF at = {} THEN spends[i]
         ELSE Merged(spends[i], data[CHOOSE j \in at : \A k \in at : j >= k].witness)]

(* What rawTxV1CalcId hashes: a map of the spends, seeds being a set, the  *)
(* witness hashed with its signatures and preimages.                       *)
CalcId(spends) ==
  {[name |-> spends[i].name, seeds |-> SeedSet(spends[i].seeds),
    fee |-> spends[i].fee, witness |-> spends[i].witness] : i \in DOMAIN spends}

-----------------------------------------------------------------------------
(* Builder to transaction, transaction to raw transaction and back.        *)

FullSpends(entries) ==
  [i \in DOMAIN entries |->
     [name |-> entries[i].name, seeds |-> CanonicalSeeds(entries[i].sb.seeds),
      fee |-> entries[i].sb.fee, witness |-> entries[i].sb.witness]]

(* Mutant: the id is taken after the witnesses were split off. *)
BuildSplitFirst(entries) ==
  LET split == SplitWitness(FullSpends(entries))
  IN  [form |-> "tx", id |-> CalcId(split.spends), spends |-> split.spends,
       data |-> split.data, display |-> NamesOf(entries)]

Build(entries) ==
  LET full == FullSpends(entries)
      split == SplitWitness(full)
  IN  [form |-> "tx", id |-> CalcId(full), spends |-> split.spends,
       data |-> split.data, display |-> NamesOf(entries)]

NockchainTxToRawTx(tx) ==
  LET spends == ApplyWitness(tx.spends, tx.data)
  IN  [form |-> "raw", id |-> CalcId(spends), spends |-> spends]

RawTxV1ToNockchainTx(raw) ==
  LET split == SplitWitness(raw.spends)
  IN  [form |-> "tx", id |-> CalcId(split.spends), spends |-> split.spends,
       data |-> split.data, display |-> NoDisplay]

(* fromSpend: the assets are what the spend pays out, and there is no      *)
(* refund lock.  A spend without seeds names no parent note.               *)
(* (a mutant first: the fee is forgotten) *)
FromSpendGiftsOnly(spend) ==
  [name |-> spend.name,
   sb |-> [assets |-> Gifts(spend.seeds), refund |-> NoLock, seeds |-> spend.seeds,
           fee |-> 0, witness |-> spend.witness]]

FromSpend(spend) ==
  [name |-> spend.name,
   sb |-> [assets |-> Gifts(spend.seeds) + spend.fee, refund |-> NoLock,
           seeds |-> spend.seeds, fee |-> spend.fee, witness |-> spend.witness]]

FromSpends(spends) == [i \in DOMAIN spends |-> FromSpend(spends[i])]

FromRawTx(raw) == FromSpends(raw.spends)
FromNockchainTx(tx) == FromSpends(ApplyWitness(tx.spends, tx.data))

OpenThrows(p) ==
  \/ \E i \in DOMAIN p.spends : p.spends[i].seeds = << >>
  \/ /\ p.form = "tx"
     /\ \E i \in DOMAIN p.spends : p.spends[i].name \notin p.display

Opened(p) == IF p.form = "raw" THEN FromRawTx(p) ELSE FromNockchainTx(p)

-----------------------------------------------------------------------------
(* What a party does with its builder.                                     *)

Init ==
  /\ \E first \in FirstBuilders, p \in Parties :
       builder = [q \in Parties |-> IF q = p THEN first ELSE << >>]
  /\ paper = NoPaper
  /\ given = [q \in Parties |-> NoMarks]
  /\ marked = NoMarks
  /\ edits = 0

(* sign() goes over all spends; a key that is not listed signs nothing. *)
SignSpend(s, p) ==
  IF ListedIn(s.witness.prims, p) THEN PushPkhSignature(s, p, SigHash(s)) ELSE s

SignSpends(entries, p) ==
  [i \in DOMAIN entries |-> [entries[i] EXCEPT !.sb = SignSpend(@, p)]]

SignAll(p) ==
  /\ builder[p] # << >>
  /\ builder' = [builder EXCEPT ![p] = SignSpends(@, p)]
  /\ given' = [given EXCEPT ![p] = [n \in Names |->
       IF \E i \in DOMAIN builder[p] :
            builder[p][i].name = n /\ ListedIn(builder[p][i].sb.witness.prims, p)
       THEN [given[p][n] EXCEPT !.pkhs = @ \cup {p}] ELSE given[p][n]]]
  /\ UNCHANGED <<paper, marked, edits>>

AddPreimages(entries, d) ==
  [i \in DOMAIN entries |-> [entries[i] EXCEPT !.sb = AddPreimage(@, d)]]

AddPreimageToAll(p, d) ==
  /\ builder[p] # << >>
  /\ builder' = [builder EXCEPT ![p] = AddPreimages(@, d)]
  /\ given' = [given EXCEPT ![p] = [n \in Names |->
       IF \E i \in DOMAIN builder[p] :
            builder[p][i].name = n /\ ClaimsPreimage(builder[p][i].sb, d)
       THEN [given[p][n] EXCEPT !.digests = @ \cup {d}] ELSE given[p][n]]]
  /\ UNCHANGED <<paper, marked, edits>>

(* An edit of one of allSpends(): signatures so far are for nothing. *)
EditSpend(p, i, edited) ==
  /\ edited # builder[p][i].sb
  /\ edits < MaxEdits /\ edits' = edits + 1
  /\ builder' = [builder EXCEPT ![p][i].sb = edited]
  /\ given' = [given EXCEPT ![p][builder[p][i].name].pkhs = {}]
  /\ UNCHANGED <<paper, marked>>

FeeOf(p, i, portion) == EditSpend(p, i, SetFee(builder[p][i].sb, portion))

SeedOf(p, i, seed) ==
  /\ Len(builder[p][i].sb.seeds) < MaxSeeds
  /\ EditSpend(p, i, AddSeed(builder[p][i].sb, seed))

HandOver(p) ==
  /\ builder[p] # << >>
  /\ paper' = Build(builder[p])
  /\ marked' = given[p]
  /\ UNCHANGED <<builder, given, edits>>

Open(p) ==
  /\ paper # NoPaper
  /\ ~ OpenThrows(paper)
  /\ builder' = [builder EXCEPT ![p] = Opened(paper)]
  /\ given' = [given EXCEPT ![p] = marked]
  /\ UNCHANGED <<paper, marked, edits>>

ToRaw ==
  /\ paper.form = "tx"
  /\ paper' = NockchainTxToRawTx(paper)
  /\ UNCHANGED <<builder, given, marked, edits>>

ToTx ==
  /\ paper.form = "raw"
  /\ paper' = RawTxV1ToNockchainTx(paper)
  /\ UNCHANGED <<builder, given, marked, edits>>

Next ==
  \/ \E p \in Parties :
       \/ SignAll(p)
       \/ \E d \in Digests : AddPreimageToAll(p, d)
       \/ \E i \in DOMAIN builder[p] :
            \/ \E portion \in FeePortions : FeeOf(p, i, portion)
            \/ \E seed \in NewSeeds : SeedOf(p, i, seed)
       \/ HandOver(p)
       \/ Open(p)
  \/ ToRaw
  \/ ToTx

Spec == Init /\ [][Next]_vars

-----------------------------------------------------------------------------
(* Properties.                                                             *)

FullOf(p) == IF p.form = "raw" THEN p.spends ELSE ApplyWitness(p.spends, p.data)

TypeInvariant ==
  /\ builder \in [Parties -> Seq(Entries)]
  /\ given \in [Parties -> Marks] /\ marked \in Marks
  /\ edits \in 0..MaxEdits
  /\ paper # NoPaper =>
       \A i \in DOMAIN paper.spends :
         /\ paper.spends[i].name \in Names
         /\ paper.spends[i].witness \in Witnesses
         /\ paper.spends[i].seeds \in Seq(Seeds)

(* What a spend holds is what its history says it was given.               *)
HoldsWhatWasGiven(s, m) ==
  /\ \A p \in Pkhs : s.witness.sigs[p] = IF p \in m.pkhs THEN SigHash(s) ELSE NoSig
  /\ s.witness.hax = m.digests

(* SignaturesAccumulate: a transaction that goes from signer to signer, in *)
(* whichever form, holds the signatures of just those listed signers who   *)
(* signed since its content last changed, each over that content, and      *)
(* every preimage it was given: no form on the way drops one or brings an  *)
(* old one back.                                                           *)
SignaturesAccumulate ==
  paper # NoPaper =>
    \A i \in DOMAIN FullOf(paper) :
      HoldsWhatWasGiven(FullOf(paper)[i], marked[FullOf(paper)[i].name])

(* RebuildIsSame: who opens a built transaction and builds it again gets   *)
(* the same transaction, its id and the order of its parts included        *)
(* (test/parity/tx-roundtrip.test.ts, fromNockchainTx).                    *)
RebuildIsSame ==
  (paper.form = "tx" /\ ~ OpenThrows(paper)) => Build(FromNockchainTx(paper)) = paper

(* IdCoversWhatIsSent: the id that build() computes is the one the raw     *)
(* transaction has which sendTransaction makes of it.                      *)
IdCoversWhatIsSent ==
  (paper.form = "tx" /\ paper.display # NoDisplay) => NockchainTxToRawTx(paper).id = paper.id

=============================================================================
