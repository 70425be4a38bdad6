------------------------------- MODULE TxBuilder -------------------------------
(***************************************************************************)
(* TxBuilder of src/tx/builder.ts: spends that pay a recipient and a fee,  *)
(* and a pool of notes that are spent only when the fee needs them.        *)
(*                                                                         *)
(* The calls run to completion, but they are loops over notes that a throw *)
(* may leave half done, and the properties speak of every iteration: an    *)
(* action is one iteration, job holds the local variables of the running   *)
(* call, and no other call starts before it is done.                       *)
(*                                                                         *)
(* spends is the Map of the code, in insertion order, its keys the names.  *)
(***************************************************************************)
EXTENDS Fee

CONSTANTS Names,          \* note names, as numbers in the order of compareNames
          V0Names,        \* names of version 0 notes, which SpendBuilder.new rejects
          SimpleSpends,   \* the arguments simpleSpend is called with
          NoOverride,     \* no feeOverride: the fee is computed
          NoPreimage,     \* no preimageJam
          NoOrder,        \* a fee job that no simpleSpend began
          Includes,       \* values of includeLockData in the other calls
          FeeTargets,     \* fees given to setFeeAndBalanceRefund
          AdjustFees,     \* values of adjustFee given with them
          Additions,      \* spends built by hand, given to spend()
          MaxCalls        \* bound on the calls of one behaviour

VARIABLES spends, pool, job, result, calls

vars == <<spends, pool, job, result, calls>>

Entries == [name : Names, sb : Spends]

Notes == [name : Names, assets : Nat, witness : FreshWitnesses]

(* The arguments of simpleSpend and its variants, each note with the       *)
(* witness its lock and spend condition give.                              *)
Orders ==
  [notes : Seq(Notes), to : Locks \ HashedLocks, gift : Nat,
   override : Nat \cup {NoOverride}, refund : Locks \ HashedLocks, include : BOOLEAN,
   extras : NoteDatas, preimage : Digests \cup {NoPreimage}]

ASSUME TxBuilderAssumption ==
  /\ Names \subseteq Nat
  /\ V0Names \subseteq Names
  /\ NoOverride \notin Nat
  /\ NoPreimage \notin Digests
  /\ SimpleSpends \subseteq Orders
  /\ NoOrder \notin Orders
  /\ Includes \subseteq BOOLEAN
  /\ FeeTargets \subseteq Nat
  /\ AdjustFees \subseteq BOOLEAN
  /\ Additions \subseteq Entries
  /\ MaxCalls \in Nat

(* What the builder leaves to its callers: no note twice in one payment,   *)
(* and a spend made by hand is balanced if its refund lock is known.       *)
ASSUME CallerAssumption ==
  /\ \A order \in SimpleSpends : NamesDiffer(order.notes)
  /\ \A e \in Additions : e.sb.refund \in Locks \ HashedLocks => IsBalanced(e.sb)

(* The local variables of simpleSpendBase (the notes still to come, what   *)
(* is left of the gift), then of setFeeAndBalanceRefund.                   *)
BaseJobs == [op : {"base"}, order : Orders, notes : Seq(Notes), left : Nat]
FeeJobs ==
  [op : {"raise", "pool", "lower"}, order : Orders \cup {NoOrder},
   todo : SUBSET Names, left : Nat, target : Nat,
   adjust : BOOLEAN, include : BOOLEAN, refunds : [Locks -> Nat], back : Seq(Names)]
Idle == [op |-> "idle"]

(* How a call ends: what it returns, or the error it throws.               *)
LockIsHash == "include_lock_data set, but lock_root is a hash"

Outcomes ==
  {"none", "ok", "undefined", "valid", "InvalidFee", "UnbalancedSpends", "MissingUnlocks",
   "Cannot create a transaction with zero gift", "V0 notes not supported",
   "Insufficient funds to pay fee and gift", "Fee pool entry must have refund",
   "preimage does not match any spend condition hax unlock",
   "Assets in must equal gift + fee + refund", LockIsHash}

TypeInvariant ==
  /\ spends \in Seq(Entries)
  /\ pool \in Seq(Entries)
  /\ job \in BaseJobs \cup FeeJobs \cup {Idle}
  /\ result \in Outcomes
  /\ calls \in 0..MaxCalls

Init ==
  /\ spends = << >>
  /\ pool = << >>
  /\ job = Idle
  /\ result = "none"
  /\ calls = 0

-----------------------------------------------------------------------------
(* The Map of spends.                                                      *)

SpendsOf(entries) == [i \in 1..Len(entries) |-> entries[i].sb]
Named(entries, n) == (CHOOSE i \in DOMAIN entries : entries[i].name = n)

(* Map.set: a key already there keeps its place. *)
PutSpend(entries, e) ==
  IF e.name \in NamesOf(entries)
  THEN [i \in DOMAIN entries |-> IF entries[i].name = e.name THEN e ELSE entries[i]]
  ELSE Append(entries, e)

CurFee(entries) == Total([i \in 1..Len(entries) |-> entries[i].sb.fee])

CalcFee(entries) ==
  LargerOf(CalcFeeFromSpends(SpendsOf(entries))
             + Total([i \in 1..Len(entries) |-> MissingUnlocksFee(entries[i].sb)]),
           MinFee)

-----------------------------------------------------------------------------
(* A call begins, and ends by returning or by throwing.                    *)

Begin ==
  /\ job = Idle
  /\ calls < MaxCalls
  /\ calls' = calls + 1

Finish(outcome) ==
  /\ job' = Idle
  /\ result' = outcome

(* How many refund seeds go to each refund lock. *)
RefundCounts(entries) ==
  [l \in Locks |-> Total([i \in 1..Len(entries) |->
     IF entries[i].sb.refund = l THEN Cardinality(RefundSeedsAt(entries[i].sb)) ELSE 0])]

(***************************************************************************)
(* setFeeAndBalanceRefund, up to its loops.  The loops skip the spends     *)
(* without a refund (raising) or a refund lock (lowering), so todo is what *)
(* they do not skip; a spend's place in the sorted list depends on that    *)
(* spend alone, and an iteration changes no other, so the first of todo is *)
(* found when it is taken.                                                 *)
(***************************************************************************)
SetFeeJob(entries, order, target, adjust, include) ==
  LET cur == CurFee(entries)
      raising == cur < target
      taken == {i \in DOMAIN entries :
                  IF raising THEN HasRefund(entries[i].sb) ELSE entries[i].sb.refund # NoLock}
  IN  [op |-> IF raising THEN "raise" ELSE "lower",
       order |-> order, todo |-> {entries[i].name : i \in taken},
       left |-> IF raising THEN target - cur ELSE cur - target,
       target |-> target, adjust |-> adjust, include |-> include,
       refunds |-> RefundCounts(entries), back |-> << >>]

SetFeeAndBalanceRefund(entries, order, target, adjust, include) ==
  IF CurFee(entries) = target
  THEN Finish("ok")
  ELSE /\ job' = SetFeeJob(entries, order, target, adjust, include)
       /\ UNCHANGED result

-----------------------------------------------------------------------------
(* simpleSpend and its variants, which differ in how they come by the      *)
(* notes' witnesses.  A note is given to a builder once.                   *)

SimpleSpend(order) ==
  /\ Begin
  /\ \A i \in DOMAIN order.notes :
       order.notes[i].name \notin NamesOf(spends) \cup NamesOf(pool)
  /\ IF order.gift = 0
     THEN Finish("Cannot create a transaction with zero gift")
     ELSE /\ job' = [op |-> "base", order |-> order, notes |-> order.notes,
                     left |-> order.gift]
          /\ UNCHANGED result
  /\ UNCHANGED <<spends, pool>>

BaseStep ==
  /\ job.op = "base" /\ job.notes # << >>
  /\ UNCHANGED calls
  /\ LET order == job.order
         note == Head(job.notes)
         portion == SmallerOf(job.left, note.assets)
         new == NewSpend(note.assets, order.refund, note.witness)
         giving == AddSeed(new, BuildSeed(order.to, portion, order.include, order.extras))
         Entry(s) == [name |-> note.name, sb |-> ComputeRefund(s, order.include)]
     IN  IF note.name \in V0Names
         THEN Finish("V0 notes not supported") /\ UNCHANGED <<spends, pool>>
         ELSE /\ job' = [job EXCEPT !.notes = Tail(@), !.left = @ - portion]
              /\ IF portion > 0
                 THEN spends' = PutSpend(spends, Entry(giving)) /\ UNCHANGED pool
                 ELSE pool' = Append(pool, Entry(new)) /\ UNCHANGED spends
              /\ UNCHANGED result

(* addPreimage goes through the spends, not the pool. *)
AddPreimageToAll(entries, d) ==
  [i \in DOMAIN entries |-> [entries[i] EXCEPT !.sb = AddPreimage(@, d)]]
SomeClaims(entries, d) == \E i \in DOMAIN entries : ClaimsPreimage(entries[i].sb, d)

BaseEnd ==
  /\ job.op = "base" /\ job.notes = << >>
  /\ UNCHANGED <<pool, calls>>
  /\ LET order == job.order
         unlocked == IF order.preimage = NoPreimage THEN spends
                     ELSE AddPreimageToAll(spends, order.preimage)
     IN  IF job.left > 0
         THEN Finish("Insufficient funds to pay fee and gift") /\ UNCHANGED spends
         ELSE IF order.preimage # NoPreimage /\ ~ SomeClaims(spends, order.preimage)
         THEN Finish("preimage does not match any spend condition hax unlock")
              /\ UNCHANGED spends
         ELSE /\ spends' = unlocked
              /\ IF order.override = NoOverride
                 THEN SetFeeAndBalanceRefund(unlocked, order, CalcFee(unlocked), TRUE,
                                             order.include)
                 ELSE SetFeeAndBalanceRefund(unlocked, order, order.override, FALSE,
                                             order.include)

-----------------------------------------------------------------------------
(* The other calls.                                                        *)

SetFeeTo(target, adjust, include) ==
  /\ Begin
  /\ SetFeeAndBalanceRefund(spends, NoOrder, target, adjust, include)
  /\ UNCHANGED <<spends, pool>>

RecalcAndSetFee(include) == SetFeeTo(CalcFee(spends), TRUE, include)

(* spend(): a spend made with SpendBuilder, or decoded by fromRawTx. *)
AddSpend(e) ==
  /\ Begin
  /\ e.name \notin NamesOf(pool)
  /\ spends' = PutSpend(spends, e)
  /\ Finish("ok")
  /\ UNCHANGED pool

AddPreimageCall(d) ==
  /\ Begin
  /\ spends' = AddPreimageToAll(spends, d)
  /\ Finish(IF SomeClaims(spends, d) THEN "ok" ELSE "undefined")
  /\ UNCHANGED pool

(* signWith with nothing else running: TxSigning has the races. *)
SignAll(pkh) ==
  /\ Begin
  /\ spends' = [i \in DOMAIN spends |->
       IF ListedIn(spends[i].sb.witness.prims, pkh)
       THEN [spends[i] EXCEPT !.sb = PushPkhSignature(@, pkh, SigHash(@))]
       ELSE spends[i]]
  /\ Finish("ok")
  /\ UNCHANGED pool

Validate ==
  /\ Begin
  /\ Finish(IF CurFee(spends) < CalcFee(spends) THEN "InvalidFee"
            ELSE IF \E i \in DOMAIN spends : ~ IsBalanced(spends[i].sb) THEN "UnbalancedSpends"
            ELSE IF \E i \in DOMAIN spends : MissingUnlocks(spends[i].sb) # {}
            THEN "MissingUnlocks" ELSE "valid")
  /\ UNCHANGED <<spends, pool>>

-----------------------------------------------------------------------------
(* Raising the fee: first from the refunds of the spends, the spend with   *)
(* the largest part of its assets already given away first ...             *)

NonRefund(s) == s.assets - RefundGift(s)

RaiseBefore(a, b) ==
  \/ NonRefund(a.sb) > NonRefund(b.sb)
  \/ /\ NonRefund(a.sb) = NonRefund(b.sb)
     /\ \/ a.sb.fee > b.sb.fee
        \/ a.sb.fee = b.sb.fee /\ a.name > b.name

Todo == {i \in DOMAIN spends : spends[i].name \in job.todo}

RaiseNext(i) ==
  i \in Todo /\ \A j \in Todo \ {i} : RaiseBefore(spends[i], spends[j])

(* Mutant: the refund is not computed again. *)
FeeChangedOnly(s, fee, include) == SetFee(s, fee)

FeeChanged(s, fee, include) == ComputeRefund(SetFee(s, fee), include)

FeeChangeThrows(s, fee, include) == ComputeRefundThrows(SetFee(s, fee), include)

(* Mutant: the whole refund is taken, needed or not. *)
WholeRefund(s, wanted) == CurRefund(s).gift

TakenFromRefund(s, wanted) == SmallerOf(CurRefund(s).gift, wanted)

RaiseStep(i) ==
  /\ job.op = "raise" /\ RaiseNext(i)
  /\ UNCHANGED <<pool, calls>>
  /\ LET s == spends[i].sb
         sub == TakenFromRefund(s, job.left)
         paid == FeeChanged(s, s.fee + sub, job.include)
         dropped == CostPerWord * NoteDataWords(CurRefund(s).data)
         rebate == IF job.adjust /\ ~ HasRefund(paid)
                   THEN SmallerOf(job.left - sub, dropped) ELSE 0
         next == [job EXCEPT !.todo = @ \ {spends[i].name}, !.left = @ - sub - rebate]
     IN  IF sub = 0
         THEN job' = [job EXCEPT !.todo = @ \ {spends[i].name}] /\ UNCHANGED <<spends, result>>
         ELSE /\ spends' = [spends EXCEPT ![i].sb = paid]
              /\ IF FeeChangeThrows(s, s.fee + sub, job.include)
                 THEN Finish(LockIsHash)
                 ELSE job' = next /\ UNCHANGED result

RaiseEnd ==
  /\ job.op = "raise" /\ job.todo = {}
  /\ job' = [job EXCEPT !.op = "pool"]
  /\ UNCHANGED <<spends, pool, result, calls>>

(* What a note of the pool adds to the cost of the transaction when it is  *)
(* spent; merged: its refund goes where another refund goes already.       *)

(* Mutant: the signatures to come are forgotten. *)
SpendingCostUnsigned(s, merged) ==
  (IF merged THEN 0 ELSE SeedFee(SeedWords(s))) + WitnessFee(WitnessWords(s))

SpendingCost(s, merged) ==
  (IF merged THEN 0 ELSE SeedFee(SeedWords(s)))
    + WitnessFee(WitnessWords(s)) + MissingUnlocksFee(s)

(* ... then from the pool, the largest note first; each note taken brings  *)
(* the cost of spending it.  The order of notes of one size is up to the   *)
(* sort, whose comparator contradicts itself on them.                      *)
PoolStep(i) ==
  /\ job.op = "pool" /\ job.left > 0
  /\ \A j \in DOMAIN pool : pool[j].sb.assets <= pool[i].sb.assets
  /\ UNCHANGED calls
  /\ pool' = RemoveAt(pool, i)
  /\ LET s == pool[i].sb
         r == ComputeRefund(s, job.include)
         lock == r.refund
         merged == EnginePatch = 1 /\ job.refunds[lock] > 0
         cost == IF job.adjust THEN SpendingCost(r, merged) ELSE 0
         sub == TakenFromRefund(r, job.left + cost)
         paid == IF sub > 0 THEN FeeChanged(r, r.fee + sub, job.include) ELSE r
     IN  IF s.refund # NoLock /\ ComputeRefundThrows(s, job.include)
         THEN Finish(LockIsHash) /\ UNCHANGED spends
         ELSE IF ~ HasRefund(r)
         THEN Finish("Fee pool entry must have refund") /\ UNCHANGED spends
         ELSE /\ spends' = PutSpend(spends, [name |-> pool[i].name, sb |-> paid])
              /\ job' = [job EXCEPT !.left = @ + cost - sub,
                                    !.refunds[lock] = IF job.adjust THEN @ + 1 ELSE @]
              /\ UNCHANGED result

(* Mutant: the shortfall is not reported.                                  *)
PoolEndContent ==
  /\ job.op = "pool" /\ (job.left = 0 \/ pool = << >>)
  /\ Finish("ok")
  /\ UNCHANGED <<spends, pool, calls>>

PoolEnd ==
  /\ job.op = "pool" /\ (job.left = 0 \/ pool = << >>)
  /\ Finish(IF job.left > 0 THEN "Insufficient funds to pay fee and gift" ELSE "ok")
  /\ UNCHANGED <<spends, pool, calls>>

-----------------------------------------------------------------------------
(* Lowering the fee: notes that only pay the fee are given it back first.  *)

OnlyRefund(s) == Len(s.seeds) = 1 /\ HasRefund(s)

LowerBefore(a, b) ==
  \/ OnlyRefund(a.sb) /\ ~ OnlyRefund(b.sb)
  \/ /\ OnlyRefund(a.sb) = OnlyRefund(b.sb)
     /\ \/ a.sb.fee > b.sb.fee
        \/ /\ a.sb.fee = b.sb.fee
           /\ \/ NonRefund(a.sb) < NonRefund(b.sb)
              \/ NonRefund(a.sb) = NonRefund(b.sb) /\ a.name > b.name

LowerNext(i) ==
  i \in Todo /\ \A j \in Todo \ {i} : LowerBefore(spends[i], spends[j])

(* A spend goes back to the pool when its new fee equals what it was given *)
(* back: builder.ts:781.                                                   *)
ReturnsToPool(s, add) == s.fee = add

LowerStep(i) ==
  /\ job.op = "lower" /\ LowerNext(i)
  /\ UNCHANGED <<pool, calls>>
  /\ LET s == spends[i].sb
         add == SmallerOf(s.fee, job.left)
         less == IF add > 0 THEN FeeChanged(s, s.fee - add, job.include) ELSE s
         merged == EnginePatch = 1 /\ job.refunds[s.refund] > 1
         saved == SpendingCost(less, merged)
         next == [job EXCEPT !.todo = @ \ {spends[i].name}, !.left = @ - add]
     IN  /\ spends' = [spends EXCEPT ![i].sb = less]
         /\ IF add > 0 /\ FeeChangeThrows(s, s.fee - add, job.include)
            THEN Finish(LockIsHash)
            ELSE /\ UNCHANGED result
                 /\ job' = IF ReturnsToPool(less, add)
                           THEN [next EXCEPT !.back = Append(@, spends[i].name),
                                             !.refunds[s.refund] = LargerOf(0, @ - 1),
                                             !.left = LargerOf(0, @ - saved)]
                           ELSE next

ReturnedNames == {job.back[k] : k \in DOMAIN job.back}
ReturnedSpends == [k \in DOMAIN job.back |-> spends[Named(spends, job.back[k])]]
StayingSpends == Kept(spends, {i \in DOMAIN spends : spends[i].name \notin ReturnedNames})

(* Mutants: the notes that go back to the pool stay in the spends; they    *)
(* are deleted and not pushed.                                             *)
LowerEndKeeps ==
  /\ job.op = "lower" /\ job.todo = {}
  /\ pool' = pool \o ReturnedSpends
  /\ Finish(IF job.left > 0 THEN "Assets in must equal gift + fee + refund" ELSE "ok")
  /\ UNCHANGED <<spends, calls>>

LowerEndForgets ==
  /\ job.op = "lower" /\ job.todo = {}
  /\ spends' = StayingSpends
  /\ Finish(IF job.left > 0 THEN "Assets in must equal gift + fee + refund" ELSE "ok")
  /\ UNCHANGED <<pool, calls>>

LowerEnd ==
  /\ job.op = "lower" /\ job.todo = {}
  /\ spends' = StayingSpends
  /\ pool' = pool \o ReturnedSpends
  /\ Finish(IF job.left > 0 THEN "Assets in must equal gift + fee + refund" ELSE "ok")
  /\ UNCHANGED calls

-----------------------------------------------------------------------------
Step ==
  \/ BaseStep \/ BaseEnd
  \/ \E i \in DOMAIN spends : RaiseStep(i) \/ LowerStep(i)
  \/ RaiseEnd
  \/ \E i \in DOMAIN pool : PoolStep(i)
  \/ PoolEnd
  \/ LowerEnd

OwnerCall ==
  \/ \E order \in SimpleSpends : SimpleSpend(order)
  \/ \E target \in FeeTargets, adjust \in AdjustFees, include \in Includes :
       SetFeeTo(target, adjust, include)
  \/ \E include \in Includes : RecalcAndSetFee(include)
  \/ \E d \in Digests : AddPreimageCall(d)
  \/ Validate

Call ==
  \/ OwnerCall
  \/ \E e \in Additions : AddSpend(e)
  \/ \E pkh \in Pkhs : SignAll(pkh)

Next == Call \/ Step

(* A call that runs does not stop half way: JavaScript runs it to its end. *)
Spec == Init /\ [][Next]_vars /\ WF_vars(Step)

-----------------------------------------------------------------------------
(* Properties.                                                             *)

(* A known refund lock keeps its spend balanced, through every iteration   *)
(* of every call, the calls that throw half way included: what a refund    *)
(* loses the fee gains, and the other way round.                           *)
SpendsBalanced ==
  \A i \in DOMAIN spends :
    spends[i].sb.refund \in Locks \ HashedLocks => IsBalanced(spends[i].sb)

(* A note is in the transaction or in the pool, and once.                  *)
NoteHeldOnce ==
  /\ Cardinality(NamesOf(spends)) = Len(spends)
  /\ Cardinality(NamesOf(pool)) = Len(pool)
  /\ NamesOf(spends) \cap NamesOf(pool) = {}

(* No call loses a note, except one that throws on a note it has just      *)
(* taken from the pool.                                                    *)
NotesKept ==
  [][LET held == NamesOf(spends) \cup NamesOf(pool)
     IN  \/ held \subseteq NamesOf(spends') \cup NamesOf(pool')
         \/ /\ job.op = "pool" /\ job' = Idle
            /\ result' \in {LockIsHash, "Fee pool entry must have refund"}]_vars

Returns == job' = Idle /\ result' = "ok"

(* A fee that was computed, then raised, pays for the transaction it       *)
(* produced, whose notes and seeds are not those it was computed for:      *)
(* validate will not say InvalidFee.                                       *)
FeeCoversCost ==
  [][(job.op = "pool" /\ Returns /\ job.adjust) => CurFee(spends') >= CalcFee(spends')]_vars

GiftsTo(seeds, lock) == Gifts(Kept(seeds, {i \in DOMAIN seeds : seeds[i].lock = lock}))
GivenTo(entries, lock) ==
  Total([i \in 1..Len(entries) |-> GiftsTo(entries[i].sb.seeds, lock)])

(* Signing does not make the fee insufficient: a signature that was        *)
(* missing costs what calcFee put aside for it.                            *)
StillNeeds(s, pkh) ==
  /\ s.witness.sigs[pkh] = NoSig
  /\ \A i \in PrimsOf(s, "pkh") :
       pkh \in s.witness.prims[i].hashes => MissingSigs(s, i) > 0
SigningKeepsFee ==
  [][\A pkh \in Pkhs :
       (/\ SignAll(pkh)
        /\ \A i \in DOMAIN spends :
             ListedIn(spends[i].sb.witness.prims, pkh) => StillNeeds(spends[i].sb, pkh)
        /\ CurFee(spends) >= CalcFee(spends))
       => CurFee(spends') >= CalcFee(spends')]_vars

(* "Assets in must equal gift + fee + refund" (builder.ts:806): lowering   *)
(* the fee moves nicks from fees to refunds, and what others are given     *)
(* stays.  It does not hold: a spend that pays no fee is put back into the *)
(* pool, with the gift it carries (builder.ts:781).                        *)
LoweringKeepsGifts ==
  [][(job.op = "lower" /\ Returns) =>
       \A l \in Locks : (\A i \in DOMAIN spends : spends[i].sb.refund # l)
                        => GivenTo(spends', l) = GivenTo(spends, l)]_vars

(* "rose-ts correctly attaches claim preimages" (README.md:121): when an   *)
(* HTLC claim returns, every note of it in the transaction has the         *)
(* preimage its condition asks for.  It does not hold: preimages are given *)
(* to the spends before the fee takes notes from the pool.                 *)
PreimagesAttached ==
  [][(Returns /\ job # Idle /\ job.order # NoOrder /\ job.order.preimage # NoPreimage)
     => \A i \in DOMAIN spends' :
          ClaimsPreimage(spends'[i].sb, job.order.preimage)
          => job.order.preimage \in spends'[i].sb.witness.hax]_vars
=============================================================================
