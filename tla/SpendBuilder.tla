----------------------------- MODULE SpendBuilder -----------------------------
(***************************************************************************)
(* One SpendBuilder of src/tx/builder.ts, edited by its owner while        *)
(* signers are at work on it.                                              *)
(*                                                                         *)
(* Every method but signWith is synchronous, hence one action.  signWith   *)
(* has one await: BeginSign is what runs before it (find a pkh primitive   *)
(* listing the key, hash the seeds and the fee), Answer and Reject what    *)
(* runs after it.  Between the two the owner may call anything, because    *)
(* nothing in the builder knows that a call is pending.                    *)
(*                                                                         *)
(* The last two variables are history, the code has neither: raced holds   *)
(* the pending calls during which the content changed or the witness was   *)
(* replaced, and origin says where the signature of each key came from.    *)
(***************************************************************************)
EXTENDS Spend

CONSTANTS Calls,            \* concurrent signWith calls
          NoCall,           \* a call that is not pending
          MaxSeeds,         \* bound on the seeds of the spend
          NewSeeds,         \* seeds the owner may add
          FeePortions,      \* fees the owner may set
          NewWitnesses,     \* witnesses (without signatures) the owner may have
          ForeignContents,  \* other contents the owner may hold a signature of
          FirstSpends       \* what the builder may start from

VARIABLES spend, call, raced, origin

vars == <<spend, call, raced, origin>>

Pending == [pkh : Pkhs, content : Contents]
Origins == {"none", "signer", "raced", "owner"}

ASSUME SpendBuilderAssumption ==
  /\ MaxSeeds \in Nat
  /\ NewSeeds \subseteq Seeds
  /\ FeePortions \subseteq Nat
  /\ NewWitnesses \subseteq Witnesses
  /\ \A w \in NewWitnesses : w.sigs = NoSigs
  /\ ForeignContents \subseteq Contents
  /\ FirstSpends \subseteq Spends
  /\ NoCall \notin Pending

TypeInvariant ==
  /\ spend \in Spends
  /\ call \in [Calls -> Pending \cup {NoCall}]
  /\ raced \subseteq Calls
  /\ origin \in [Pkhs -> Origins]

Init ==
  /\ spend \in FirstSpends
  /\ call = [c \in Calls |-> NoCall]
  /\ raced = {}
  /\ origin = [p \in Pkhs |-> IF spend.witness.sigs[p] = NoSig THEN "none" ELSE "owner"]

PendingCalls == {c \in Calls : call[c] # NoCall}

(* History of a write to the spend: it races with every pending call when  *)
(* it changes the content or replaces the witness (the owned signatures    *)
(* are those of the new witness), and a signature it removes has no origin *)
(* any more.                                                               *)
NoteWrite(owned) ==
  /\ raced' = IF SigHash(spend') # SigHash(spend) \/ owned # {}
              THEN raced \cup PendingCalls ELSE raced
  /\ origin' = [p \in Pkhs |-> IF spend'.witness.sigs[p] = NoSig THEN "none"
                               ELSE IF p \in owned THEN "owner" ELSE origin[p]]

-----------------------------------------------------------------------------
(* The owner's synchronous calls.                                          *)

(* seed(s) and seed(buildSeed(..)) *)
Seed(s) ==
  /\ Len(spend.seeds) < MaxSeeds
  /\ spend' = AddSeed(spend, s)
  /\ NoteWrite({})
  /\ UNCHANGED call

Fee(portion) ==
  /\ spend' = SetFee(spend, portion)
  /\ NoteWrite({})
  /\ UNCHANGED call

Refund(includeLockData) ==
  /\ spend' = ComputeRefund(spend, includeLockData)
  /\ NoteWrite({})
  /\ UNCHANGED call

ClearSigs ==
  /\ spend' = InvalidateSigs(spend)
  /\ NoteWrite({})
  /\ UNCHANGED call

(* The new witness arrives with whatever signatures it holds. *)
ReplaceWitness(w, sigs) ==
  /\ spend' = SetWitness(spend, [w EXCEPT !.sigs = sigs])
  /\ NoteWrite(Pkhs)
  /\ UNCHANGED call

PushSignature(pkh, content) ==
  /\ spend' = PushPkhSignature(spend, pkh, content)
  /\ origin' = [origin EXCEPT ![pkh] = "owner"]
  /\ UNCHANGED <<call, raced>>

PushPreimage(d) ==
  /\ spend' = PushHaxPreimage(spend, d)
  /\ UNCHANGED <<call, raced, origin>>

AddPreimageJam(d) ==
  /\ spend' = AddPreimage(spend, d)
  /\ UNCHANGED <<call, raced, origin>>

-----------------------------------------------------------------------------
(* signWith: before the await, and after it.                               *)

BeginSign(c, pkh) ==
  /\ call[c] = NoCall
  /\ ListedIn(spend.witness.prims, pkh)
  /\ call' = [call EXCEPT ![c] = [pkh |-> pkh, content |-> SigHash(spend)]]
  /\ raced' = raced \ {c}
  /\ UNCHANGED <<spend, origin>>

Answer(c) ==
  /\ call[c] # NoCall
  /\ spend' = PushPkhSignature(spend, call[c].pkh, call[c].content)
  /\ origin' = [origin EXCEPT ![call[c].pkh] = IF c \in raced THEN "raced" ELSE "signer"]
  /\ call' = [call EXCEPT ![c] = NoCall]
  /\ UNCHANGED raced

(* The signer's promise rejects: signWith throws, nothing is attached. *)
Reject(c) ==
  /\ call[c] # NoCall
  /\ call' = [call EXCEPT ![c] = NoCall]
  /\ UNCHANGED <<spend, raced, origin>>

Held == {SigHash(spend)} \cup ForeignContents

Next ==
  \/ \E s \in NewSeeds : Seed(s)
  \/ \E portion \in FeePortions : Fee(portion)
  \/ \E includeLockData \in BOOLEAN : Refund(includeLockData)
  \/ ClearSigs
  \/ \E w \in NewWitnesses :
       \/ ReplaceWitness(w, NoSigs)
       \/ \E p \in Pkhs, content \in Held :
            ReplaceWitness(w, [NoSigs EXCEPT ![p] = content])
  \/ \E p \in Pkhs, content \in Held : PushSignature(p, content)
  \/ \E d \in Digests : PushPreimage(d) \/ AddPreimageJam(d)
  \/ \E c \in Calls : \/ \E p \in Pkhs : BeginSign(c, p)
                      \/ Answer(c)
                      \/ Reject(c)

Spec == Init /\ [][Next]_vars

-----------------------------------------------------------------------------
(* Properties.                                                             *)

(* A signature signWith attached with no write racing it covers exactly    *)
(* the seeds and the fee the spend has now, and its key is one the spend   *)
(* condition lists: seed, fee and computeRefund never leave an older       *)
(* signature behind (builder.ts, invalidateSigs and its callers).          *)
SignerSignaturesUsable ==
  \A p \in Pkhs : origin[p] = "signer" =>
    /\ spend.witness.sigs[p] = SigHash(spend)
    /\ ListedIn(spend.witness.prims, p)

(* What a pending call will attach, as long as nothing raced with it, is a *)
(* signature of a listed key over the present content: the strengthening   *)
(* that makes SignerSignaturesUsable inductive.                            *)
PendingCallsFresh ==
  \A c \in PendingCalls \ raced :
    /\ call[c].content = SigHash(spend)
    /\ ListedIn(spend.witness.prims, call[c].pkh)

(* No call changes what is signed and keeps a signature: a step after      *)
(* which the sig-hash differs is a step after which there are none.        *)
ContentChangeDropsSigs ==
  [][SigHash(spend') # SigHash(spend) => spend'.witness.sigs = NoSigs]_vars

(* computeRefund, when it returns, leaves a spend that is balanced, unless *)
(* the fee and the gifts to others alone exceed the assets: the old        *)
(* refunds are gone, however many there were, and one new one takes their  *)
(* place.                                                                  *)
RefundSettles ==
  [][\A includeLockData \in BOOLEAN :
       (/\ Refund(includeLockData)
        /\ spend.refund # NoLock
        /\ ~ ComputeRefundThrows(spend, includeLockData))
       => \/ IsBalanced(spend')
          \/ Gifts(Others(spend'.seeds, spend'.refund)) + spend'.fee > spend.assets]_vars

(* What is given to others is only ever extended, by seed(), one gift at a *)
(* time: no fee, refund or witness operation drops, changes or reorders a  *)
(* seed that is not for the refund lock.                                   *)
GiftsToOthersKept ==
  [][LET before == Others(spend.seeds, spend.refund)
         after == Others(spend'.seeds, spend.refund)
     IN  /\ Len(after) \in {Len(before), Len(before) + 1}
         /\ SubSeq(after, 1, Len(before)) = before]_vars

=============================================================================
