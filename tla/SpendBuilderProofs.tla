-------------------------- MODULE SpendBuilderProofs --------------------------
(***************************************************************************)
(* Theorems about SpendBuilder, for any keys, locks, seeds, fees, number   *)
(* of concurrent calls and first spends.                                   *)
(***************************************************************************)
EXTENDS SpendBuilder, SpendLemmas

-----------------------------------------------------------------------------
(* Type correctness.                                                       *)

LEMMA HeldType ==
  ASSUME TypeInvariant
  PROVE  Held \subseteq Contents
BY SigHashType, SpendBuilderAssumption DEF Held, TypeInvariant

LEMMA NoteWriteType ==
  ASSUME TypeInvariant, NEW owned, NoteWrite(owned)
  PROVE  raced' \subseteq Calls /\ origin' \in [Pkhs -> Origins]
BY DEF NoteWrite, TypeInvariant, PendingCalls, Origins

(* The initial states and every step keep the state well typed; above all, *)
(* computeRefund never produces a negative gift (builder.ts:241-260).      *)
LEMMA TypeStep ==
  ASSUME TypeInvariant, [Next]_vars
  PROVE  TypeInvariant'
<1> USE DEF TypeInvariant
<1>1. ASSUME NEW s \in NewSeeds, Seed(s)
      PROVE  TypeInvariant'
  <2>1. spend' \in Spends
    BY <1>1, AddSeedType, SpendBuilderAssumption DEF Seed
  <2> QED BY <1>1, <2>1, NoteWriteType DEF Seed
<1>2. ASSUME NEW portion \in FeePortions, Fee(portion)
      PROVE  TypeInvariant'
  <2>1. spend' \in Spends
    BY <1>2, SetFeeType, SpendBuilderAssumption DEF Fee
  <2> QED BY <1>2, <2>1, NoteWriteType DEF Fee
<1>3. ASSUME NEW include \in BOOLEAN, Refund(include)
      PROVE  TypeInvariant'
  <2>1. spend' \in Spends
    BY <1>3, ComputeRefundType DEF Refund
  <2> QED BY <1>3, <2>1, NoteWriteType DEF Refund
<1>4. CASE ClearSigs
  <2>1. spend' \in Spends
    BY <1>4, InvalidateSigsType DEF ClearSigs
  <2> QED BY <1>4, <2>1, NoteWriteType DEF ClearSigs
<1>5. ASSUME NEW w \in NewWitnesses, NEW sigs \in Sigs, ReplaceWitness(w, sigs)
      PROVE  TypeInvariant'
  <2>1. spend' \in Spends
    BY <1>5, WithSigsType, SetWitnessType, SpendBuilderAssumption DEF ReplaceWitness
  <2> QED BY <1>5, <2>1, NoteWriteType DEF ReplaceWitness
<1>6. ASSUME NEW p \in Pkhs, NEW content \in Contents, PushSignature(p, content)
      PROVE  TypeInvariant'
  <2>1. spend' \in Spends
    BY <1>6, PushPkhSignatureType DEF PushSignature
  <2> QED BY <1>6, <2>1 DEF PushSignature, Origins
<1>7. ASSUME NEW d \in Digests, PushPreimage(d) \/ AddPreimageJam(d)
      PROVE  TypeInvariant'
  <2>1. spend' \in Spends
    BY <1>7, PushHaxPreimageType, AddPreimageType DEF PushPreimage, AddPreimageJam
  <2> QED BY <1>7, <2>1 DEF PushPreimage, AddPreimageJam
<1>8. ASSUME NEW c \in Calls, NEW p \in Pkhs, BeginSign(c, p)
      PROVE  TypeInvariant'
  <2>1. [pkh |-> p, content |-> SigHash(spend)] \in Pending
    BY SigHashType DEF Pending
  <2> QED BY <1>8, <2>1 DEF BeginSign
<1>9. ASSUME NEW c \in Calls, Answer(c)
      PROVE  TypeInvariant'
  <2>1. call[c] \in Pending
    BY <1>9 DEF Answer
  <2>2. spend' \in Spends
    BY <1>9, <2>1, PushPkhSignatureType DEF Answer, Pending
  <2> QED BY <1>9, <2>2 DEF Answer, Origins
<1>10. ASSUME NEW c \in Calls, Reject(c)
       PROVE  TypeInvariant'
  BY <1>10 DEF Reject
<1>11. CASE UNCHANGED vars
  BY <1>11 DEF vars
<1>12. ASSUME NEW p \in Pkhs, NEW content \in Held
       PROVE  /\ content \in Contents
              /\ [NoSigs EXCEPT ![p] = content] \in Sigs
  BY HeldType, NoSigsType DEF Sigs
<1> QED
  BY <1>1, <1>2, <1>3, <1>4, <1>5, <1>6, <1>7, <1>8, <1>9, <1>10, <1>11, <1>12,
     NoSigsType DEF Next

THEOREM TypeCorrect == Spec => []TypeInvariant
<1>1. Init => TypeInvariant
  BY SpendBuilderAssumption DEF Init, TypeInvariant, Origins
<1>2. TypeInvariant /\ [Next]_vars => TypeInvariant'
  BY TypeStep
<1> QED BY <1>1, <1>2, PTL DEF Spec

-----------------------------------------------------------------------------
(* Signatures.  The inductive invariant adds to SignerSignaturesUsable     *)
(* what a pending call is going to attach, PendingCallsFresh.              *)

SignatureInv == TypeInvariant /\ PendingCallsFresh /\ SignerSignaturesUsable

(* An edit of the owner either leaves the spend alone, or leaves no        *)
(* signature and, if it changes the content, races every pending call.     *)
LEMMA EditKeepsSignatures ==
  ASSUME SignatureInv, IsEdit(spend, spend'), NoteWrite({}), UNCHANGED call
  PROVE  PendingCallsFresh' /\ SignerSignaturesUsable'
<1>1. ASSUME NEW c \in PendingCalls' \ raced'
      PROVE  /\ call'[c].content = SigHash(spend')
             /\ ListedIn(spend'.witness.prims, call'[c].pkh)
  <2>1. c \in PendingCalls /\ call'[c] = call[c]
    BY <1>1 DEF PendingCalls
  <2>2. SigHash(spend') = SigHash(spend) /\ c \notin raced
    BY <1>1, <2>1 DEF NoteWrite
  <2> QED BY <2>1, <2>2 DEF SignatureInv, PendingCallsFresh, IsEdit
<1>2. ASSUME NEW p \in Pkhs, origin'[p] = "signer"
      PROVE  /\ spend'.witness.sigs[p] = SigHash(spend')
             /\ ListedIn(spend'.witness.prims, p)
  <2>1. ~ Unsigned(spend') /\ origin[p] = "signer"
    BY <1>2 DEF NoteWrite, Unsigned, NoSigs
  <2>2. spend' = spend
    BY <2>1 DEF IsEdit
  <2> QED BY <2>1, <2>2 DEF SignatureInv, SignerSignaturesUsable
<1> QED BY <1>1, <1>2 DEF PendingCallsFresh, SignerSignaturesUsable

(* A step that keeps content, condition and signatures keeps both parts.   *)
LEMMA SameSignedKeepsSignatures ==
  ASSUME SignatureInv, SigHash(spend') = SigHash(spend),
         spend'.witness.prims = spend.witness.prims,
         spend'.witness.sigs = spend.witness.sigs,
         UNCHANGED <<call, raced, origin>>
  PROVE  PendingCallsFresh' /\ SignerSignaturesUsable'
BY DEF SignatureInv, PendingCallsFresh, PendingCalls, SignerSignaturesUsable

LEMMA SignatureStep ==
  ASSUME SignatureInv, [Next]_vars
  PROVE  SignatureInv'
<1> USE DEF SignatureInv
<1>0. spend \in Spends /\ call \in [Calls -> Pending \cup {NoCall}]
      /\ raced \subseteq Calls /\ origin \in [Pkhs -> Origins]
  BY DEF TypeInvariant
<1>1. ASSUME NEW s \in NewSeeds, Seed(s)
      PROVE  PendingCallsFresh' /\ SignerSignaturesUsable'
  BY <1>0, <1>1, AddSeedIsEdit, EditKeepsSignatures, SpendBuilderAssumption DEF Seed
<1>2. ASSUME NEW portion \in FeePortions, Fee(portion)
      PROVE  PendingCallsFresh' /\ SignerSignaturesUsable'
  BY <1>0, <1>2, SetFeeIsEdit, EditKeepsSignatures, SpendBuilderAssumption DEF Fee
<1>3. ASSUME NEW include \in BOOLEAN, Refund(include)
      PROVE  PendingCallsFresh' /\ SignerSignaturesUsable'
  BY <1>0, <1>3, ComputeRefundIsEdit, EditKeepsSignatures DEF Refund
<1>4. ASSUME ClearSigs
      PROVE  PendingCallsFresh' /\ SignerSignaturesUsable'
  BY <1>0, <1>4, InvalidateSigsEffect, EditKeepsSignatures DEF ClearSigs, IsEdit
<1>5. ASSUME NEW w \in NewWitnesses, NEW sigs \in Sigs, ReplaceWitness(w, sigs)
      PROVE  PendingCallsFresh' /\ SignerSignaturesUsable'
  <2>1. UNCHANGED call /\ NoteWrite(Pkhs)
    BY <1>5 DEF ReplaceWitness
  <2>2. ASSUME NEW c \in PendingCalls' PROVE c \in raced'
    <3>1. c \in PendingCalls /\ call[c] \in Pending
      BY <1>0, <2>1, <2>2 DEF PendingCalls
    <3>2. Pkhs # {}
      BY <3>1 DEF Pending
    <3> QED BY <2>1, <3>1, <3>2 DEF NoteWrite
  <2>3. ASSUME NEW p \in Pkhs PROVE origin'[p] # "signer"
    BY <2>1 DEF NoteWrite
  <2> QED BY <2>2, <2>3 DEF PendingCallsFresh, SignerSignaturesUsable
<1>6. ASSUME NEW p \in Pkhs, NEW content \in Contents, PushSignature(p, content)
      PROVE  PendingCallsFresh' /\ SignerSignaturesUsable'
  <2>1. /\ SigHash(spend') = SigHash(spend)
        /\ spend'.witness.prims = spend.witness.prims
        /\ spend'.witness.sigs = [spend.witness.sigs EXCEPT ![p] = content]
    BY <1>0, <1>6, PushPkhSignatureEffect DEF PushSignature
  <2>2. UNCHANGED <<call, raced>> /\ origin' = [origin EXCEPT ![p] = "owner"]
    BY <1>6 DEF PushSignature
  <2>3. PendingCallsFresh'
    BY <2>1, <2>2 DEF PendingCallsFresh, PendingCalls
  <2>4. ASSUME NEW q \in Pkhs, origin'[q] = "signer"
        PROVE  /\ spend'.witness.sigs[q] = SigHash(spend')
               /\ ListedIn(spend'.witness.prims, q)
    <3>1. q # p /\ origin[q] = "signer"
      BY <1>0, <2>2, <2>4
    <3>2. spend'.witness.sigs[q] = spend.witness.sigs[q]
      BY <1>0, <2>1, <3>1, SpendFields DEF Sigs
    <3> QED BY <2>1, <3>1, <3>2 DEF SignerSignaturesUsable
  <2> QED BY <2>3, <2>4 DEF SignerSignaturesUsable
<1>7. ASSUME NEW d \in Digests, PushPreimage(d) \/ AddPreimageJam(d)
      PROVE  PendingCallsFresh' /\ SignerSignaturesUsable'
  <2>1. /\ SigHash(spend') = SigHash(spend)
        /\ spend'.witness.prims = spend.witness.prims
        /\ spend'.witness.sigs = spend.witness.sigs
    BY <1>0, <1>7, PushHaxPreimageEffect, AddPreimageEffect DEF PushPreimage, AddPreimageJam
  <2> QED BY <1>7, <2>1, SameSignedKeepsSignatures DEF PushPreimage, AddPreimageJam
<1>8. ASSUME NEW c \in Calls, NEW p \in Pkhs, BeginSign(c, p)
      PROVE  PendingCallsFresh' /\ SignerSignaturesUsable'
  <2>1. /\ call' = [call EXCEPT ![c] = [pkh |-> p, content |-> SigHash(spend)]]
        /\ raced' = raced \ {c}
        /\ UNCHANGED <<spend, origin>>
        /\ ListedIn(spend.witness.prims, p)
    BY <1>8 DEF BeginSign
  <2>2. ASSUME NEW x \in PendingCalls' \ raced'
        PROVE  /\ call'[x].content = SigHash(spend)
               /\ ListedIn(spend.witness.prims, call'[x].pkh)
    <3>1. CASE x = c
      BY <1>0, <2>1, <3>1
    <3>2. CASE x # c
      <4>1. x \in PendingCalls \ raced /\ call'[x] = call[x]
        BY <1>0, <2>1, <2>2, <3>2 DEF PendingCalls
      <4> QED BY <4>1 DEF PendingCallsFresh
    <3> QED BY <3>1, <3>2
  <2> QED BY <2>1, <2>2 DEF PendingCallsFresh, SignerSignaturesUsable
<1>9. ASSUME NEW c \in Calls, Answer(c)
      PROVE  PendingCallsFresh' /\ SignerSignaturesUsable'
  <2> DEFINE p == call[c].pkh
  <2>1. call[c] \in Pending /\ p \in Pkhs /\ c \in PendingCalls
    BY <1>0, <1>9 DEF Answer, Pending, PendingCalls
  <2>2. /\ spend' = PushPkhSignature(spend, p, call[c].content)
        /\ origin' = [origin EXCEPT ![p] = IF c \in raced THEN "raced" ELSE "signer"]
        /\ call' = [call EXCEPT ![c] = NoCall]
        /\ raced' = raced
    BY <1>9 DEF Answer
  <2>3. /\ SigHash(spend') = SigHash(spend)
        /\ spend'.witness.prims = spend.witness.prims
        /\ spend'.witness.sigs = [spend.witness.sigs EXCEPT ![p] = call[c].content]
    BY <1>0, <2>1, <2>2, PushPkhSignatureEffect
  <2>4. ASSUME NEW x \in PendingCalls' \ raced'
        PROVE  /\ call'[x].content = SigHash(spend)
               /\ ListedIn(spend.witness.prims, call'[x].pkh)
    <3>1. x \in PendingCalls \ raced /\ call'[x] = call[x]
      BY <1>0, <2>2, <2>4 DEF PendingCalls
    <3> QED BY <3>1 DEF PendingCallsFresh
  <2>5. ASSUME NEW q \in Pkhs, origin'[q] = "signer"
        PROVE  /\ spend'.witness.sigs[q] = SigHash(spend)
               /\ ListedIn(spend.witness.prims, q)
    <3>1. CASE q = p
      <4>1. c \notin raced
        BY <1>0, <2>1, <2>2, <2>5, <3>1
      <4>2. call[c].content = SigHash(spend) /\ ListedIn(spend.witness.prims, p)
        BY <2>1, <4>1 DEF PendingCallsFresh
      <4>3. spend'.witness.sigs[q] = call[c].content
        BY <1>0, <2>1, <2>3, <3>1, SpendFields DEF Sigs
      <4> QED BY <3>1, <4>2, <4>3
    <3>2. CASE q # p
      <4>1. origin[q] = "signer"
        BY <1>0, <2>2, <2>5, <3>2
      <4>2. spend'.witness.sigs[q] = spend.witness.sigs[q]
        BY <1>0, <2>3, <3>2, SpendFields DEF Sigs
      <4> QED BY <4>1, <4>2 DEF SignerSignaturesUsable
    <3> QED BY <3>1, <3>2
  <2> QED BY <2>3, <2>4, <2>5 DEF PendingCallsFresh, SignerSignaturesUsable
<1>10. ASSUME NEW c \in Calls, Reject(c)
       PROVE  PendingCallsFresh' /\ SignerSignaturesUsable'
  <2>1. UNCHANGED <<spend, raced, origin>> /\ call' = [call EXCEPT ![c] = NoCall]
    BY <1>10 DEF Reject
  <2>2. ASSUME NEW x \in PendingCalls'
        PROVE  x \in PendingCalls /\ call'[x] = call[x]
    BY <1>0, <2>1, <2>2 DEF PendingCalls
  <2> QED BY <2>1, <2>2 DEF PendingCallsFresh, SignerSignaturesUsable
<1>11. ASSUME UNCHANGED vars
       PROVE  PendingCallsFresh' /\ SignerSignaturesUsable'
  BY <1>11 DEF vars, PendingCallsFresh, PendingCalls, SignerSignaturesUsable
<1>12. ASSUME NEW p \in Pkhs, NEW content \in Held
       PROVE  /\ content \in Contents
              /\ [NoSigs EXCEPT ![p] = content] \in Sigs
  BY HeldType, NoSigsType DEF Sigs
<1>13. PendingCallsFresh' /\ SignerSignaturesUsable'
  BY <1>1, <1>2, <1>3, <1>4, <1>5, <1>6, <1>7, <1>8, <1>9, <1>10, <1>11, <1>12,
     NoSigsType DEF Next
<1> QED BY <1>13, TypeStep

(* A signature that signWith attached without a race is of a listed key    *)
(* and covers exactly what the spend says now, in every reachable state.   *)
THEOREM SignaturesUsable == Spec => []SignerSignaturesUsable
<1>1. Init => SignatureInv
  BY SpendBuilderAssumption
     DEF Init, SignatureInv, TypeInvariant, PendingCallsFresh, PendingCalls,
         SignerSignaturesUsable, Origins
<1>2. SignatureInv /\ [Next]_vars => SignatureInv'
  BY SignatureStep
<1>3. SignatureInv => SignerSignaturesUsable
  BY DEF SignatureInv
<1> QED BY <1>1, <1>2, <1>3, PTL DEF Spec

-----------------------------------------------------------------------------
(* Whatever a step does to the seeds or the fee, it leaves no signature.   *)

LEMMA ContentChangeStep ==
  ASSUME TypeInvariant, [Next]_vars, SigHash(spend') # SigHash(spend)
  PROVE  Unsigned(spend')
<1>0. spend \in Spends
  BY DEF TypeInvariant
<1>1. ASSUME IsEdit(spend, spend') PROVE Unsigned(spend')
  BY <1>1 DEF IsEdit
<1>2. ASSUME NEW s \in NewSeeds, Seed(s) PROVE Unsigned(spend')
  BY <1>0, <1>1, <1>2, AddSeedIsEdit, SpendBuilderAssumption DEF Seed
<1>3. ASSUME NEW portion \in FeePortions, Fee(portion) PROVE Unsigned(spend')
  BY <1>0, <1>1, <1>3, SetFeeIsEdit, SpendBuilderAssumption DEF Fee
<1>4. ASSUME NEW include \in BOOLEAN, Refund(include) PROVE Unsigned(spend')
  BY <1>0, <1>1, <1>4, ComputeRefundIsEdit DEF Refund
<1>5. ASSUME ClearSigs PROVE Unsigned(spend')
  BY <1>0, <1>5, InvalidateSigsEffect DEF ClearSigs
<1>6. ASSUME NEW w \in NewWitnesses, NEW sigs \in Sigs, ReplaceWitness(w, sigs)
      PROVE  FALSE
  BY <1>0, <1>6, WithSigsType, SetWitnessEffect, SpendBuilderAssumption DEF ReplaceWitness
<1>7. ASSUME NEW p \in Pkhs, NEW content \in Held, PushSignature(p, content)
      PROVE  FALSE
  BY <1>0, <1>7, PushPkhSignatureEffect DEF PushSignature
<1>8. ASSUME NEW d \in Digests, PushPreimage(d) \/ AddPreimageJam(d)
      PROVE  FALSE
  BY <1>0, <1>8, PushHaxPreimageEffect, AddPreimageEffect DEF PushPreimage, AddPreimageJam
<1>9. ASSUME NEW c \in Calls, Answer(c) PROVE FALSE
  <2>1. call[c].pkh \in Pkhs
    BY <1>9 DEF Answer, TypeInvariant, Pending
  <2> QED BY <1>0, <1>9, <2>1, PushPkhSignatureEffect DEF Answer
<1>10. ASSUME NEW c \in Calls, NEW p \in Pkhs, BeginSign(c, p) \/ Reject(c)
       PROVE  FALSE
  BY <1>10 DEF BeginSign, Reject
<1>11. ASSUME NEW c \in Calls, Reject(c) PROVE FALSE
  BY <1>11 DEF Reject
<1>12. ASSUME UNCHANGED vars PROVE FALSE
  BY <1>12 DEF vars
<1>13. ASSUME NEW p \in Pkhs, NEW content \in Held
       PROVE  [NoSigs EXCEPT ![p] = content] \in Sigs
  BY HeldType, NoSigsType DEF Sigs
<1> QED
  BY <1>2, <1>3, <1>4, <1>5, <1>6, <1>7, <1>8, <1>9, <1>10, <1>11, <1>12, <1>13,
     NoSigsType DEF Next

(* No method changes what is signed and keeps a signature.                 *)
THEOREM ChangesDropSignatures == Spec => ContentChangeDropsSigs
<1>1. TypeInvariant /\ [Next]_vars
      => [SigHash(spend') # SigHash(spend) => spend'.witness.sigs = NoSigs]_vars
  BY ContentChangeStep DEF Unsigned
<1> QED BY <1>1, TypeCorrect, PTL DEF Spec, ContentChangeDropsSigs
-----------------------------------------------------------------------------
(* computeRefund, when it returns, settles the spend.                      *)

LEMMA RefundSettlesStep ==
  ASSUME TypeInvariant, NEW includeLockData \in BOOLEAN, Refund(includeLockData),
         spend.refund # NoLock, ~ ComputeRefundThrows(spend, includeLockData)
  PROVE  \/ IsBalanced(spend')
         \/ Gifts(Others(spend'.seeds, spend'.refund)) + spend'.fee > spend.assets
<1> DEFINE t == ComputeRefund(spend, includeLockData)
           others == Gifts(Others(spend.seeds, spend.refund))
<1>1. spend \in Spends /\ spend' = t
  BY DEF TypeInvariant, Refund
<1>2. CASE Unspent(spend) >= 0
  BY <1>1, <1>2, ComputeRefundBalances
<1>3. CASE ~ (Unspent(spend) >= 0)
  <2>1. t.refund = spend.refund /\ t.fee = spend.fee
    BY <1>1, ComputeRefundEffect
  <2>2. Gifts(Others(t.seeds, t.refund)) = others
    BY <1>1, <2>1, ComputeRefundKeepsOthers
  <2>3. others \in Nat /\ spend.assets \in Nat /\ spend.fee \in Nat
    BY <1>1, SpendFields, OthersType, GiftsType
  <2>4. others + t.fee > spend.assets
    BY <1>3, <2>1, <2>3 DEF Unspent
  <2> QED BY <1>1, <2>2, <2>4
<1> QED BY <1>2, <1>3

(* A computeRefund that returns leaves a spend whose assets are its gifts  *)
(* and its fee, unless the fee and the gifts to others exceed them.        *)
THEOREM RefundBalances == Spec => RefundSettles
<1>1. TypeInvariant /\ [Next]_vars
      => [\A includeLockData \in BOOLEAN :
            (/\ Refund(includeLockData)
             /\ spend.refund # NoLock
             /\ ~ ComputeRefundThrows(spend, includeLockData))
            => \/ IsBalanced(spend')
               \/ Gifts(Others(spend'.seeds, spend'.refund)) + spend'.fee > spend.assets]_vars
  BY RefundSettlesStep
<1> QED BY <1>1, TypeCorrect, PTL DEF Spec, RefundSettles

-----------------------------------------------------------------------------
(* The gifts to others.                                                    *)

(* after is before, or before with one element more at its end.            *)
Extends(before, after) ==
  /\ Len(after) \in {Len(before), Len(before) + 1}
  /\ SubSeq(after, 1, Len(before)) = before

LEMMA GiftsToOthersStep ==
  ASSUME TypeInvariant, [Next]_vars
  PROVE  Extends(Others(spend.seeds, spend.refund), Others(spend'.seeds, spend.refund))
<1> DEFINE before == Others(spend.seeds, spend.refund)
           after == Others(spend'.seeds, spend.refund)
<1>0. spend \in Spends /\ spend.seeds \in Seq(Seeds) /\ before \in Seq(Seeds)
  BY SpendFields, OthersType DEF TypeInvariant
<1>1. ASSUME after = before PROVE Extends(before, after)
  <2> HIDE DEF before, after
  <2> QED BY <1>0, <1>1, SubSeqFull DEF Extends
<1>2. ASSUME spend'.seeds = spend.seeds PROVE Extends(before, after)
  BY <1>1, <1>2
<1>3. ASSUME NEW s \in NewSeeds, Seed(s) PROVE Extends(before, after)
  <2>1. s \in Seeds /\ spend'.seeds = Append(spend.seeds, s)
    BY <1>0, <1>3, InvalidateSigsEffect, SpendBuilderAssumption DEF Seed, AddSeed, Spends
  <2>2. after = IF s.lock = spend.refund THEN before ELSE Append(before, s)
    <3>1. Others(Append(spend.seeds, s), spend.refund) =
            IF s.lock = spend.refund THEN before ELSE Append(before, s)
      BY <1>0, <2>1, OthersAppend
    <3> QED BY <2>1, <3>1
  <2>3. ASSUME after = Append(before, s) PROVE Extends(before, after)
    <3> HIDE DEF before, after
    <3> QED BY <1>0, <2>1, <2>3, SubSeqAppend, AppendProperties DEF Extends
  <2> QED BY <1>1, <2>2, <2>3
<1>4. ASSUME NEW portion \in FeePortions, Fee(portion) PROVE Extends(before, after)
  <2>1. spend'.seeds = spend.seeds
    BY <1>0, <1>4, InvalidateSigsEffect, SpendBuilderAssumption DEF Fee, SetFee, Spends
  <2> QED BY <1>2, <2>1
<1>5. ASSUME NEW include \in BOOLEAN, Refund(include) PROVE Extends(before, after)
  BY <1>0, <1>1, <1>5, ComputeRefundKeepsOthers DEF Refund
<1>6. CASE ClearSigs
  BY <1>0, <1>2, <1>6, InvalidateSigsEffect DEF ClearSigs
<1>7. ASSUME NEW w \in NewWitnesses, NEW sigs \in Sigs, ReplaceWitness(w, sigs)
      PROVE  Extends(before, after)
  <2>1. spend'.seeds = spend.seeds
    BY <1>0, <1>7, InvalidateSigsEffect DEF ReplaceWitness, SetWitness, Spends
  <2> QED BY <1>2, <2>1
<1>8. ASSUME NEW p \in Pkhs, NEW content, spend' = PushPkhSignature(spend, p, content)
      PROVE  Extends(before, after)
  BY <1>0, <1>2, <1>8 DEF PushPkhSignature, Spends
<1>9. ASSUME NEW d \in Digests, PushPreimage(d) \/ AddPreimageJam(d)
      PROVE  Extends(before, after)
  BY <1>0, <1>2, <1>9 DEF PushPreimage, AddPreimageJam, AddPreimage, PushHaxPreimage, Spends
<1>10. ASSUME NEW c \in Calls, NEW p \in Pkhs, BeginSign(c, p)
       PROVE  Extends(before, after)
  BY <1>2, <1>10 DEF BeginSign
<1>11. ASSUME NEW c \in Calls, Reject(c) PROVE Extends(before, after)
  BY <1>2, <1>11 DEF Reject
<1>12. CASE UNCHANGED vars
  BY <1>2, <1>12 DEF vars
<1>13. ASSUME NEW p \in Pkhs, NEW content \in Held, PushSignature(p, content)
       PROVE  Extends(before, after)
  BY <1>8, <1>13 DEF PushSignature
<1>14. ASSUME NEW c \in Calls, Answer(c) PROVE Extends(before, after)
  <2>1. call[c].pkh \in Pkhs
    BY <1>14 DEF Answer, TypeInvariant, Pending
  <2> QED BY <1>8, <1>14, <2>1 DEF Answer
<1>15. ASSUME NEW p \in Pkhs, NEW content \in Held
       PROVE  [NoSigs EXCEPT ![p] = content] \in Sigs
  BY HeldType, NoSigsType DEF Sigs
<1> QED
  BY <1>3, <1>4, <1>5, <1>6, <1>7, <1>9, <1>10, <1>11, <1>12, <1>13, <1>14, <1>15,
     NoSigsType DEF Next

(* Whatever is called in whatever order, what others are given is only     *)
(* ever extended, at its end and by one seed at a time.                    *)
THEOREM OthersOnlyExtended == Spec => GiftsToOthersKept
<1>1. TypeInvariant /\ [Next]_vars
      => [LET before == Others(spend.seeds, spend.refund)
              after == Others(spend'.seeds, spend.refund)
          IN  /\ Len(after) \in {Len(before), Len(before) + 1}
              /\ SubSeq(after, 1, Len(before)) = before]_vars
  BY GiftsToOthersStep DEF Extends
<1> QED BY <1>1, TypeCorrect, PTL DEF Spec, GiftsToOthersKept
=============================================================================
