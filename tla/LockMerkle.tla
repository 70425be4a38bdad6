----------------------------- MODULE LockMerkle -----------------------------
(***************************************************************************)
(* Locks with several spend conditions: how a lock is made of a list       *)
(* (hash/index.ts lockFromList, lockFromListBurnpad), how a spender proves *)
(* that a condition is in the lock (core/merkle.ts, core/lock.ts,          *)
(* tx/witness.ts), and how the proof travels as protobuf.                  *)
(*                                                                         *)
(* A hash is the term it is the hash of; to and from base58 is one to one  *)
(* and left out.  A lock is the number of its conditions (the `tag', 1 for *)
(* a bare condition) and the nest of p and q under it.                     *)
(***************************************************************************)
EXTENDS Integers, Sequences, SequencesExt, Bitwise

CONSTANTS Lists,     \* lists of spend conditions given to the constructors
          Brn        \* the condition nobody can meet

VARIABLES sps,       \* the list
          lock,      \* the lock made of it
          index,     \* the condition the spender names
          proof      \* the LockMerkleProof of that condition

vars == <<sps, lock, index, proof>>

None == [result |-> "none yet"]
Refused == [result |-> "error thrown"]

HashU64(n) == [u64 |-> n]
HashCondition(c) == [condition |-> c]
HashPair(a, b) == [l |-> a, r |-> b]

Sizes == {1, 2, 4, 8, 16}

----------------------------------------------------------------------------
(* hash/index.ts: a lock from a list.                                      *)

RECURSIVE Nest(_)
Nest(list) ==
  IF Len(list) = 1 THEN list[1]
  ELSE LET half == Len(list) \div 2 IN
       [p |-> Nest(SubSeq(list, 1, half)), q |-> Nest(SubSeq(list, half + 1, Len(list)))]

LockFromList(list) ==
  IF Len(list) \in Sizes THEN [tag |-> Len(list), nest |-> Nest(list)] ELSE Refused

Pad(list, size) == list \o [i \in 1 .. size - Len(list) |-> Brn]

(* 2 ^ ceil(log2 n) is the least size that is enough. *)
LockFromListBurnpad(list) ==
  IF Len(list) \notin 1 .. 16 THEN Refused
  ELSE LockFromList(Pad(list, CHOOSE n \in Sizes :
         n >= Len(list) /\ \A m \in Sizes : m >= Len(list) => n <= m))

(* core/hashable.ts hashLock, which is what lockRootHash answers. *)
RECURSIVE HashNest(_, _)
HashNest(nest, n) ==
  IF n = 1 THEN HashCondition(nest)
  ELSE HashPair(HashNest(nest.p, n \div 2), HashNest(nest.q, n \div 2))

HashLock(l) ==
  IF l.tag = 1 THEN HashCondition(l.nest)
  ELSE HashPair(HashU64(l.tag), HashNest(l.nest, l.tag))

----------------------------------------------------------------------------
(* core/lock.ts: the condition at an index.                                *)

RECURSIVE NestIndex(_, _, _)
NestIndex(nest, n, i) ==
  IF n = 1 THEN nest
  ELSE NestIndex(IF i < n \div 2 THEN nest.p ELSE nest.q, n \div 2, i % (n \div 2))

(* of an index below the number of conditions; any other throws *)
LockSpendCondition(l, i) == NestIndex(l.nest, l.tag, i)

----------------------------------------------------------------------------
(* core/merkle.ts: the hashable tree of a lock and the proof of a leaf.    *)

Leaf(hash) == [leaf |-> hash]
Pair(left, right) == [left |-> left, right |-> right]
IsLeaf(t) == "leaf" \in DOMAIN t

RECURSIVE InnerTree(_, _)
InnerTree(nest, n) ==
  IF n = 1 THEN Leaf(HashCondition(nest))
  ELSE Pair(InnerTree(nest.p, n \div 2), InnerTree(nest.q, n \div 2))

LockTree(l) ==
  IF l.tag = 1 THEN Leaf(HashCondition(l.nest))
  ELSE Pair(Leaf(HashU64(l.tag)), InnerTree(l.nest, l.tag))

RECURSIVE TreeHash(_)
TreeHash(t) == IF IsLeaf(t) THEN t.leaf ELSE HashPair(TreeHash(t.left), TreeHash(t.right))

RECURSIVE TreeLeafCount(_)
TreeLeafCount(t) ==
  IF IsLeaf(t) THEN 1 ELSE TreeLeafCount(t.left) + TreeLeafCount(t.right)

(* 63 - leadingZeros64(axis): the place of its highest bit *)
HighestBit(axis) == CHOOSE k \in 0 .. 62 : 2 ^ k <= axis /\ axis < 2 ^ (k + 1)

(* Mutant: a step to the right sets the new bit and forgets the old one. *)
AxisBelowClearing(axis, isLeft) == axis ^^ (3 * 2 ^ HighestBit(axis))

(* The axis of a leaf of a child, seen from the parent: its highest bit    *)
(* moves up and leaves 0 behind on the left (^ 0b11 << k), 1 on the right. *)
AxisBelow(axis, isLeft) ==
  axis ^^ ((IF isLeft THEN 3 ELSE 2) * 2 ^ HighestBit(axis))

RECURSIVE ProveTree(_, _)
ProveTree(t, i) ==
  IF IsLeaf(t) THEN [root |-> t.leaf, path |-> <<>>, axis |-> 1]
  ELSE LET lc == TreeLeafCount(t.left) IN
       IF i < lc
       THEN LET rec == ProveTree(t.left, i)
                sib == TreeHash(t.right)
            IN  [root |-> HashPair(rec.root, sib),
                 path |-> Append(rec.path, sib),
                 axis |-> AxisBelow(rec.axis, TRUE)]
       ELSE LET rec == ProveTree(t.right, i - lc)
                sib == TreeHash(t.left)
            IN  [root |-> HashPair(sib, rec.root),
                 path |-> Append(rec.path, sib),
                 axis |-> AxisBelow(rec.axis, FALSE)]

----------------------------------------------------------------------------
(* tx/witness.ts lockMerkleProofFromLock.  `full' is the version.          *)

(* the leaf of the hashable tree; the tag is a leaf of its own before them *)
LeafNumber(l, i) == IF l.tag = 1 THEN i ELSE i + 1

LockMerkleProofFromLock(l, i) ==
  LET proven == ProveTree(LockTree(l), LeafNumber(l, i)) IN
  IF i >= l.tag THEN Refused
  ELSE [condition |-> LockSpendCondition(l, i), axis |-> proven.axis, root |-> proven.root,
        path |-> proven.path, full |-> ~(proven.axis = 1 /\ proven.path = <<>>)]

----------------------------------------------------------------------------
(* A lock is made; then a spender asks for the proof of one condition.     *)

Init ==
  /\ sps \in Lists
  /\ lock = None /\ index = 0 /\ proof = None

FromList ==
  /\ lock = None
  /\ lock' = LockFromList(sps)
  /\ UNCHANGED <<sps, index, proof>>

FromListBurnpad ==
  /\ lock = None
  /\ lock' = LockFromListBurnpad(sps)
  /\ UNCHANGED <<sps, index, proof>>

Prove(i) ==
  /\ lock \notin {None, Refused}
  /\ proof = None
  /\ index' = i
  /\ proof' = LockMerkleProofFromLock(lock, i)
  /\ UNCHANGED <<sps, lock>>

Next == FromList \/ FromListBurnpad \/ \E i \in 0 .. 16 : Prove(i)

Spec == Init /\ [][Next]_vars

----------------------------------------------------------------------------
(* What a verifier (the node, outside this repository) does: walk from the *)
(* condition up, the low bits of the axis telling left from right.         *)
RECURSIVE RootFrom(_, _, _)
RootFrom(hash, axis, path) ==
  IF path = <<>> THEN hash
  ELSE RootFrom(IF axis % 2 = 0 THEN HashPair(hash, path[1]) ELSE HashPair(path[1], hash),
                axis \div 2, Tail(path))

Proven == proof \notin {None, Refused}

TypeInvariant ==
  /\ sps \in Lists
  /\ lock \notin {None, Refused} => lock.tag \in Sizes
  /\ index \in 0 .. 16
  /\ Proven => /\ proof.full \in BOOLEAN
               /\ proof.axis \in 1 .. 2 ^ (Len(proof.path) + 1) - 1

(* ProofLeadsToRoot: whoever walks up from the condition by the axis and   *)
(* the path arrives at the root in the proof, and that root is the lock    *)
(* root which notes under the lock carry, computed by other code.  The     *)
(* axis is that of the place asked for in a balanced tree beside the tag,  *)
(* so no two conditions of a lock, equal ones included, have one axis; and *)
(* the condition is the one at this place of the list, the padding after.  *)
ProofLeadsToRoot ==
  Proven =>
    /\ proof.root = HashLock(lock)
    /\ RootFrom(HashCondition(proof.condition), proof.axis, proof.path) = proof.root
    /\ proof.axis = IF lock.tag = 1 THEN 1 ELSE 3 * lock.tag + index
    /\ proof.condition = IF index < Len(sps) THEN sps[index + 1] ELSE Brn
=============================================================================
