------------------------------- MODULE ZTree -------------------------------
(***************************************************************************)
(* core/zbase.ts: the treap behind every set and map that is hashed or     *)
(* encoded (spends, seeds, signatures, preimages, note data).  Two orders  *)
(* rule it: gorTip, by the digest of the key, is the search order, and     *)
(* morTip, by the doubled digest, the heap order.                          *)
(*                                                                         *)
(* A key is its place in the search order, so gorTip(a, b) is a < b and    *)
(* tipEq is =.  The heap order has nothing to do with it and may be any:   *)
(* `mor' is chosen at the start and never changes.                         *)
(***************************************************************************)
EXTENDS Integers, FiniteSets, Sequences, SequencesExt

CONSTANTS Keys,         \* digests of keys
          Values,       \* what an entry carries besides its key
          MaxEntries    \* bound on the entries handed to buildZTree

VARIABLES mor,     \* place of each key in the heap order
          given,   \* the entries put so far, in the order of the loop
          root     \* the tree buildZTree has so far

vars == <<mor, given, root>>

Entries == [key : Keys, val : Values]

Null == [entry |-> "none"]

Node(entry, left, right) == [entry |-> entry, left |-> left, right |-> right]

MorTip(a, b) == mor[a] < mor[b]

----------------------------------------------------------------------------
(* put.  A rotation takes place on the way back, at every node whose new   *)
(* child does not come after it in the heap order.                         *)

RotateRight(node) ==
  LET pivot == node.left IN
  Node(pivot.entry, pivot.left, Node(node.entry, pivot.right, node.right))

RotateLeft(node) ==
  LET pivot == node.right IN
  Node(pivot.entry, Node(node.entry, node.left, pivot.left), pivot.right)

(* Mutant: the rotation is done when the child is NOT before its parent. *)
MendLeftReversed(node) ==
  IF MorTip(node.entry.key, node.left.entry.key) THEN RotateRight(node) ELSE node

MendLeft(node) ==
  IF MorTip(node.entry.key, node.left.entry.key) THEN node ELSE RotateRight(node)

MendRight(node) ==
  IF MorTip(node.entry.key, node.right.entry.key) THEN node ELSE RotateLeft(node)

(* Mutant: keys are not compared for being equal. *)
RECURSIVE PutAgain(_, _)
PutAgain(node, entry) ==
  IF node = Null THEN Node(entry, Null, Null)
  ELSE IF entry.key < node.entry.key
       THEN MendLeft(Node(node.entry, PutAgain(node.left, entry), node.right))
       ELSE MendRight(Node(node.entry, node.left, PutAgain(node.right, entry)))

RECURSIVE Put(_, _)
Put(node, entry) ==
  IF node = Null THEN Node(entry, Null, Null)
  ELSE IF entry.key = node.entry.key THEN node
  ELSE IF entry.key < node.entry.key
       THEN MendLeft(Node(node.entry, Put(node.left, entry), node.right))
       ELSE MendRight(Node(node.entry, node.left, Put(node.right, entry)))

(* buildZTree over a whole array, for those who rebuild from a list *)
BuildZTree(entries) == FoldLeft(Put, Null, entries)

(* reverseInOrderSeeds: the order of seeds on the wire *)
RECURSIVE ReverseInOrder(_)
ReverseInOrder(node) ==
  IF node = Null THEN <<>>
  ELSE ReverseInOrder(node.right) \o <<node.entry>> \o ReverseInOrder(node.left)

----------------------------------------------------------------------------
Init ==
  /\ mor \in {p \in [Keys -> 1 .. Cardinality(Keys)] :
                 \A a, b \in Keys : p[a] = p[b] => a = b}
  /\ given = <<>>
  /\ root = Null

(* One iteration of the loop of buildZTree. *)
PutNext(entry) ==
  /\ Len(given) < MaxEntries
  /\ given' = Append(given, entry)
  /\ root' = Put(root, entry)
  /\ UNCHANGED mor

Next == \E entry \in Entries : PutNext(entry)

Spec == Init /\ [][Next]_vars

----------------------------------------------------------------------------
(* What the tree ought to be.                                              *)

GivenKeys == {given[i].key : i \in DOMAIN given}

(* the entry that came first under a key *)
FirstGiven(key) ==
  given[CHOOSE i \in DOMAIN given :
          given[i].key = key /\ \A j \in 1 .. i - 1 : given[j].key # key]

(* the treap of a set of keys, from the set alone: the least in the heap   *)
(* order is the root, the search order splits the rest                     *)
RECURSIVE Treap(_)
Treap(keys) ==
  IF keys = {} THEN Null
  ELSE LET top == CHOOSE k \in keys : \A l \in keys \ {k} : MorTip(k, l) IN
       Node(FirstGiven(top), Treap({k \in keys : k < top}), Treap({k \in keys : k > top}))

RECURSIVE Subtrees(_)
Subtrees(node) ==
  IF node = Null THEN {} ELSE {node} \union Subtrees(node.left) \union Subtrees(node.right)

(* TypeInvariant: the entries are entries, each node of the tree holds one *)
(* of those handed over, and no key is in two nodes.                       *)
TypeInvariant ==
  /\ mor \in [Keys -> 1 .. Cardinality(Keys)]
  /\ given \in Seq(Entries)
  /\ \A t \in Subtrees(root) :
       /\ t.entry \in ToSet(given)
       /\ \A u \in Subtrees(t.left) \union Subtrees(t.right) : u.entry.key # t.entry.key

(* ShapeOfTheSet: the tree, and with it every hash and id taken over it,   *)
(* depends on the set of keys only and not on the order of the entries     *)
(* (zbase.ts 119: "insertion order is irrelevant"); where two entries      *)
(* share a key the first one is in the tree.  And the list of seeds that   *)
(* build() emits (canonicalSeedsV1) has every key once, in descending      *)
(* order, from which anyone builds the same tree again.                    *)
ShapeOfTheSet ==
  /\ root = Treap(GivenKeys)
  /\ LET wire == ReverseInOrder(root)
     IN  /\ \A i, j \in DOMAIN wire : i < j => wire[i].key > wire[j].key
         /\ {wire[i].key : i \in DOMAIN wire} = GivenKeys
         /\ BuildZTree(wire) = root
=============================================================================
