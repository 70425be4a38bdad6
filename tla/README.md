# rose-ts in TLA+

A verification project for [rose-ts](../src/README.md), the TypeScript
implementation of Nockchain transactions: building them from notes, paying
fees, signing (with a local key or an MPC network), encoding, hashing and
sending them. Paths below are relative to the repository (`src/tx/builder.ts`
and so on), and `PROJECT.json` maps every definition to its lines.

    tlc -config MCSpendBuilder_sign.cfg MCSpendBuilder.tla
    tlapm SpendBuilderProofs.tla

## 1. The system

### How the parts work together

A caller has *notes* (coins under a lock) and wants a transaction. A
`SpendBuilder` holds one note being spent: its assets, the *seeds* it pays out
(each a gift to a lock root, with note data), its part of the fee, and a
*witness* (lock proof, signatures, preimages). A `TxBuilder` holds a Map of
SpendBuilders and a *fee pool* of notes that are spent only if the fee needs
them. The fee rules charge for the words of the encoded seeds and witnesses,
so changing the fee changes the transaction that the fee is computed from.
`build` freezes the builder into a `NockchainTx`, whose witnesses are split
off; it becomes a `RawTxV1`, then protobuf, then one gRPC-web call. Every id
and hash is a tip5 hash over a z-tree (a treap ordered by hashes) of nouns.

Everything runs on one thread. Only signing and RPC are asynchronous: at each
`await` the rest of the program may run.

### Inventory

| part | state | operations | what is hard | what makes it correct |
|---|---|---|---|---|
| `SpendBuilder` (`tx/builder.ts` 109-377) | assets, seeds, fee, witness, refund lock | seed, fee, computeRefund, setWitness, push signature/preimage, addPreimage, signWith | signWith reads the spend, awaits, writes it; whoever changes what is signed must drop signatures; several refunds, digest-only refund locks, gifts above assets | no signature over other content than the present; a refund balances the spend and leaves others' gifts alone |
| `TxBuilder` (379-899) | Map of spends in insertion order, fee pool | simpleSpend and variants, setFeeAndBalanceRefund, recalcAndSetFee, spend, addPreimage, sign, validate, build | loops that move nicks and notes and may throw half way; cost of the fee depends on the fee; merged note data; counts taken before the loop and used in it | spends stay balanced, no note is lost or held twice, the recipient gets the gift, the fee is what was asked for or enough, calls end |
| fee rules (`tx/fee.ts`, `tx/unlocks.ts`) | none | word counts, merging by lock root, missing unlocks and their fee | two engine patches, rounding down, order of merging | the estimate covers the signed transaction |
| signing, MPC (`mpc.ts`, `TxBuilder.signWith`) | position in the live Map, pending question | signTxWithMpc, signNockchainTxWithMpc, deriveMpcAddress | the Map changes under the loop; late, failing, overlapping signers | when it returns nothing is missed; it returns |
| transaction form (`tx/spends.ts`, `tx/index.ts`, `tx/display.ts`) | none | build, splitWitness, applyWitness, fromNockchainTx, ids | which witness the id covers; duplicate seeds collapse in the set | splitting and applying is lossless, the id is one |
| outputs, HTLC, multisig (`tx/outputs.ts`, `tx/htlc.ts`, `tx/multisig.ts`) | none | rawTxV1Outputs, HTLC gift output | grouping and merge order; gift output found by amount | outputs hold all gifts; the gift found is the gift |
| z-trees (`core/zbase.ts`) | tree | insert with rotations, traversals | two orders at once | the shape depends on the set only |
| lock trees (`core/lock.ts`, `core/merkle.ts`, `tx/witness.ts`) | none | lock from list, proof of a leaf | height 1 against others, axis arithmetic | each proof leads to the root |
| nouns (`noun/*`) | bit position, back-reference table | jam, cue, codec, wire form | back references, lengths at powers of two | cue inverts jam |
| note data (`hash/noteData.ts`) | none | push/read lock, memo, blob | trailing zeros, length prefix | what is read is what was pushed |
| field arithmetic, hashing (`core/belt.ts`, `core/u256.ts`, `core/ubig.ts`, `core/tip5`) | none | badd, bmul, reduce, permutation | carries at the modulus | agrees with arithmetic mod p |
| curve and keys (`crypto/*`) | none | point arithmetic, Schnorr, SLIP-10, child keys | edge cases of addition, invalid child scalars | group laws; child public and private keys agree |
| transaction and note hashing (`hash/*`) | none | sig-hash, ids, names | which fields each hash covers | equal content, equal hash |
| RPC (`rpc/client.ts`, `grpc/transport.ts`, `grpc/rpc.ts`) | calls under way | send, accepted, balance, blocks | truncated frames, trailers, errors in two places, resending | an acknowledged transaction is with the node; an answer was true when it was given |
| protobuf conversions (`proto/*`, `grpc/rawTx.ts`, `grpc/convert.ts`) | none | to and from the protobuf object, to the node's message | two forms of each number and digest, optional fields, lost fields | the node reads the transaction that was signed; what a round trip loses is known |
| generated protobuf (`grpc/gen`) | none | encode, decode, fromJSON, toJSON, fromPartial of every message | unknown fields, wire types, messages cut short | what one side writes the other reads |

The hazards, each at its line and with the properties that are aimed at it,
are in `PROJECT.json`.

## 2. Modules

| module | what it is |
|---|---|
| `Spend` | the data of one spend and its synchronous operations, as operators from spend to spend |
| `SpendBuilder` | one SpendBuilder, its owner and concurrent signWith calls |
| `Fee` | the fee rules |
| `TxBuilder` | a TxBuilder: spends, pool, and the loops of its calls |
| `Payment` | what a payment promises: an abstract specification in four actions |
| `TxBuilderPays` | the refinement: how a TxBuilder's state is one of `Payment` |
| `TxSigning` | TxBuilder with signWith loops running over its live Map |
| `TxForm` | a transaction's forms, and parties that sign, edit and hand it over |
| `Outputs` | the notes a built transaction makes |
| `ZTree` | insertion into a z-tree, and its order on the wire |
| `LockMerkle` | locks from lists of conditions, their lock trees and proofs |
| `BitWriter` | the writer of bits under jam |
| `JamCue` | a noun written by jam, and read back by cue |
| `PackedNoteData` | memos and blobs, pushed to note data and read from them |
| `ProtoFields` | what the table of a message's fields is made of |
| `ProtoCommon1`, `ProtoCommon2`, `ProtoPublic2` | the fields of all messages under `grpc/gen` |
| `ProtoWire` | all these messages under one name, and the generated methods of a message: encode, decode, toJSON, fromJSON, fromPartial |
| `ProtoRoundTrip` | a message on its way from one peer to another, who may know more or fewer fields |
| `ProtoValues` | digests, keys, signatures and note data as messages |
| `TxMessages`, `TxProto` | a raw transaction as protobuf object and as the node's message; its way through both |
| `NoteProto` | a note from the node's message to the object and to a note |
| `RpcClient` | calls of the RPC client, the network, and a node that mines |
| `Belt` | arithmetic modulo the Goldilocks prime, for any half word |
| `BeltCalls` | the field of six belts, and calls of its functions and of those of `Belt`, with the loops of bpow and bpegcd step by step |
| `Cheetah` | the formulas of the curve over a small prime field, scalars and bytes of keys |
| `Schnorr` | a key, its tweaked child, a signature and its verification |
| `Slip10` | a wallet and one that watches it derive children from hashes chosen as they go |
| `MCSpendBuilder`, `MCTxBuilder` (with `Outputs` and `TxBuilderPays`), `MCTxSigning`, `MCTxForm`, `MCRpcClient`, `MCTxProto` | instances for TLC |
| `ProtoSamples` | the messages and transactions the instances work on |
| `MCEncodings` | the instance of `ZTree`, `LockMerkle`, `BitWriter`, `JamCue`, `PackedNoteData`, `ProtoRoundTrip`, `TxProto`, `BeltCalls`, `Schnorr` and `Slip10` |
| `SpendLemmas` | lemmas on recursion over prefixes, folds, sums, filters and concatenations, and on the operators of `Spend` and `Fee` |
| `SpendBuilderProofs`, `TxBuilderProofs`, `TxSigningProofs`, `TxFormProofs`, `BeltProofs` | the theorems on the module of that name |
| `PaymentProofs` | the theorems on a TxBuilder used for one payment: it keeps the promise of `Payment`, and its computed fee is enough |
| `OutputsProofs` | the theorems on the notes a transaction makes: what they are worth, what they bring the recipient, what they are charged for |

`Spend` is extended by `SpendBuilder` and, through `Fee`, by `TxBuilder`, which
is extended by `TxSigning`: the same operators are checked under the races of
one spend, under the loops of a whole transaction, and under both. `TxForm`
extends `Spend` as well; `Outputs` extends `TxBuilder` and asks about every
transaction its payments lead to. `ZTree` gives the reason why `TxForm` and
`Outputs` may treat the seeds of a transaction as a set, in one order or any,
and `BitWriter` the reason why `JamCue` may append bits to a sequence. The
protobuf modules stand on each other: `RpcClient` sends what `TxMessages`
makes of a transaction, as the bytes that `ProtoWire` makes of that, with the
tables of `ProtoPublic2`; `ProtoRoundTrip` is the reason why that may be read
back.

### How state and actions correspond to the code

* **Lock roots** are members of `Locks`: the code compares them by
  `lockRootHash` only. `HashedLocks` are those known by their digest alone
  (`lockFromLockRoot` gives null, `buildSeed` with lock data throws).
* **Note data** maps each of `lock`, `memo`, `blob` to the number of words of
  its noun. The fee rules see nothing else of it. 0 is a key that is absent.
* **A signature** is the content it was made over: `sigs[pkh]` is a set of
  seeds and a fee, what `hashSpendV1SigHash` hashes. That a node accepts a
  signature is that this content is the spend's. A set, since the hash goes
  over a z-tree, in which equal seeds are one.
* **Nicks and words** are natural numbers: the code uses BigInt, which does
  not overflow.
* **Synchronous methods** are one action each in `SpendBuilder`. `signWith` is
  two: `BeginSign` up to the await, then `Answer` or `Reject`.
* **TxBuilder's calls** are one action per loop iteration (`BaseStep`,
  `RaiseStep`, `PoolStep`, `LowerStep`), with the call's local variables in
  `job`, because a throw leaves the builder as the iterations so far made it
  and the caller may go on. No other call starts before `job` is `Idle`: there
  is no await in them. The first `sort` of the loops is folded into "the first
  of those left", which is the same as long as an iteration changes only its
  own spend; it does. The sort of the pool is by assets with a comparator that
  returns -1 for equal ones both ways round, so any of the largest may be
  popped.
* **`spends`** is the Map in insertion order; `set` on a present key keeps its
  place, deletion and insertion puts it last. In `TxSigning` the iterator of
  `for (const sb of this.spends.values())` is the length of the visited prefix.
* **Pending answers** in `TxSigning` are given to the SpendBuilder object that
  asked. The object moves between spends and pool with its name; `held` turns
  FALSE when it is replaced by `spend()` or lost.
* **Transactions** in `TxForm` are lists of (name, seeds, fee, witness) with
  the witnesses split off or in place. The id is the content its hash covers,
  so two ids are equal when the hashed content is. Handing over, opening and
  converting are actions of a party; `signNockchainTxWithMpc` is `Open`,
  `SignAll`, `HandOver` in a row, and the model has all other orders as well.
  What `fromSpend` gets wrong on purpose (assets inferred from what is paid
  out, no refund lock) is in `FromSpend`.
* **z-trees** are built over keys with two orders, the tip5 digests compared
  and the double digests compared (`gorTip`, `morTip`): the model takes every
  pair of orders, which stands for every hash function without collisions.
* **A lock** is the list of its conditions with the nested shape of the code's
  V2 to V16; a hash is the term it is the hash of.
* **Atoms** are sequences of bits, and what `UBig` does (bits to bytes and
  back, zeros on top dropped) is `Trimmed`. cue's slots and the trees it
  assigns to them are a heap: `slots` holds trees by number, since a cell is
  assigned, and put into the table, before its parts are known. jam's hash
  table is found by weight and mug and then compared noun by noun, so its
  result is the first entry with an equal noun.
* **Messages** are functions from properties to sequences of values: none for
  `undefined`, one for a value, any number for a repeated field. The generated
  code is one algorithm written out per message; `ProtoWire` has the algorithm,
  over the tables. On the wire a tag, a number, a length and a
  character are one unit each, however many bytes they take, so a cut
  in the middle of a number is a cut before it. The reader's own checks are
  those of `@bufbuild/protobuf`, taken from how the code depends on them.
* **Digests and keys** in base58 are the numbers they stand for. A jammed noun
  is a pair that holds the noun: `JamCue` is about the bytes.
* **Texts** in `PackedNoteData` are their UTF-8 bytes. What `trim` and
  `TextDecoder` do to blanks and to a byte order mark is modelled, since it
  changes what is read.
* **Belts** are numbers below the prime `W^2 - W + 1`, where the code has a
  `W` of 2^32; the functions of `core/belt.ts` use nothing else of it but that
  two halves make a word. A cut to 64 bits (`u64`) is a remainder. The addition
  chain of `binv` goes one bit at a time.
* **Points of the curve** are those of a curve with the same formulas over a
  prime field, with the code's cases (equal, opposite, at infinity). The
  constants of the code's own curve are not in the model.
* **A hash in `Schnorr` and `Slip10`** is any number, the same for the same
  input: `Schnorr` compares the transcript, `Slip10` keeps the hashes chosen so
  far, so that the wallet and the one that watches see the same.
* **A call of the RPC client** is its stage and what is on the wire. The node
  and the network are the other actions: `NodeAnswers`, `NodeRefuses` (in a
  message, by a status without one, by trailers alone, by a result this code
  does not know, by HTTP), `Lost`, `Cut`, `Mine`.
* **The refinement** looks at a TxBuilder when no call is under way: its
  `spent`, `fee` and `payout` are those of the spends once the call has
  returned, since half way spends pay out what the fee will take back.
* **History variables** (`given`, `marked` in `TxForm`; `raced`, `origin`; `stale`, `outdated`) are named as
  such in the modules; no guard reads them.

`result` holds the message of the error thrown or what the call returned.

### Assumptions the models make on callers

A note is given to a builder once: `simpleSpend` is not called with a note
that is already there, and `spend()` not with one in the pool. The owner of a
`SpendBuilder` in `SpendBuilder` may hold any signature he likes and push it;
`origin` keeps those apart from a signer's.

`CallerAssumption`: a payment names each note once, and a spend made by hand
and given to `spend()` has had its refund computed. `SigningCallerAssumption`:
such a spend has no signature over other content than it has.
`FormAssumption`: the builder the parties begin with has a note once, and fresh
witnesses, as `witnessNew` makes them.

## 3. Runs

| run | module | question and answer |
|---|---|---|
| `sign` | MCSpendBuilder | Can a signature that no write raced with be over other content? No. Two signWith calls, a 2-of-2 lock, every edit in between. |
| `edit` | MCSpendBuilder | Do refunds balance and gifts survive any sequence of edits, with a known, a digest-only and no refund lock? Yes. |
| `pay` | MCTxBuilder | For every list of up to three notes and all ways to give fee and gift (engine patch 0): does TxBuilder implement `Payment`, is a computed fee enough, does the recipient get one note with the memo, and do the notes made hold what was spent less the fee? Yes. |
| `calls` | MCTxBuilder | Over five calls on one builder (engine patch 1), those that throw included: balanced, no note lost or doubled, signing does not make the fee short, and the fee is for the words the notes made will carry, in every order of the wire? Yes. |
| `live` | MCTxSigning | Does the signing loop over the live Map miss a spend, and can validate pass a spend whose counted signatures do not cover it (unless a signer was late)? No. Does every signWith end? Yes. |
| `handover` | MCTxForm | Two parties, both forms, edits in between: do the witnesses hold just the signatures of the present content, is the rebuilt transaction the same, is the id that of what is sent? Yes. |
| `encodings` | MCEncodings | Does a z-tree depend on the set of keys alone, does the proof of every condition lead to the lock root, does every call of the bit writer append and count what it was given, does cue invert jam, is a lost byte noticed, does every message survive the wire between peers of different age and is one cut short told apart, what does a transaction lose on its way through the protobuf object and to the node, do memos and blobs read as what was pushed last, is every belt the one that arithmetic modulo the prime says, and do the public key of a child and its signatures agree with its private key, for who has the private key and for who has not? |
| `rpc` | MCRpcClient | Is an acknowledged transaction with the node, as it was signed, and was every answer true at a moment of the call, over a network that loses, refuses and cuts? Yes. |
| `timelocks` | MCTxProto | Does a spend condition survive its protobuf object? No (finding). |
| `bythos` | MCTxBuilder | Is a computed fee enough under engine patch 1? No (finding). |
| `lower` | MCTxBuilder | Does lowering the fee leave gifts alone? No (finding). |
| `claim` | MCTxBuilder | Does an HTLC claim attach its preimage to all its notes? No (finding). |

`encodings` puts ten modules that share no state side by side; a behaviour is
one of one of them.

### The properties

* `SignerSignaturesUsable`, `ContentChangeDropsSigs`: the
  signature discipline of one spend. The code counts signatures by presence,
  never checks them; these say when the count can be trusted.
* `RefundSettles`, `GiftsToOthersKept`: what computeRefund may and may not do.
* `SpendsBalanced`, `NoteHeldOnce`, `NotesKept`: conservation of nicks and of
  notes through every iteration of every loop. `NotesKept` has one exception,
  which is in the code: a note popped from the pool when the call then throws.
* `ImplementsPayment`: what simpleSpend promises. A payment returns with the
  gift paid in full, the fee that was asked for and all change given back, or
  throws for one of five reasons: no gift, a note of version 0, a preimage, too little
  for the gift, too little for the gift and a fee. Where the fee is computed,
  the last has a measure: a payment is not refused whose notes are worth the
  gift and the cost of spending all of them (`MostFee`: each note with a gift
  and change, with its witness and the signatures to come, and the least fee
  on top). `PaysAsPromised` is its safety part; and a payment always does one
  of the two.
* `FeeCoversCost`, `SigningKeepsFee`: a computed fee is enough, before and
  after signing. `SigningKeepsFee` is for signatures that were missing
  and a divisor that divides the cost of a word; the run keeps to both, since
  the estimate rounds down once per primitive and knows of no others.
* `ReturnMeansSigned`, `ValidMeansSpendable`: the same promises with signers
  at work on the transaction. `SessionsEnd`: every signWith ends.
* `SignaturesAccumulate`: a transaction that goes around loses no signature or
  preimage and gets none back that an edit had dropped; `RebuildIsSame`,
  `IdCoversWhatIsSent`: the forms agree on what it is.
* `OutputsConserve`, `MemoDelivered`, `FeeChargesForOutputs`: the far end of a
  payment, what the notes it makes hold. The first one leaves out transactions
  with equal seeds in a spend, which build makes one of (section 4).
* `ShapeOfTheSet`: what every hash and id rests on, the order on the wire and
  the tree rebuilt from it included. `ProofLeadsToRoot`: lock proofs and their
  axes.
* `CallsAppend`, `CueInvertsJam`: bits and nouns. `LossShows`: cue does not
  notice that its input is cut short, it may return another noun, or run into
  a noun that contains itself; but it never returns the noun that was written,
  so a preimage cut short cannot pass for the whole one.
* `WireRoundTrip`: what one peer writes the other reads, each without the
  fields it does not know, wherever a newer peer puts its own. `CutShows`: a
  message that has lost its end fails, or is read without what was lost; it is
  never read as the whole one unless what was lost is nothing. `FormsAgree`:
  the JSON and the partial form say what the message says.
* `PbRoundTrip`: exactly what a transaction loses on its way through the
  protobuf object, by who wrote it (section 4), and exactly which objects are
  refused. `NodeSeesTheTransaction`: what the node decodes is what was sent.
* `AcknowledgedIsHeld`, `AnswersWereTrue`: end to end, from the native
  transaction through message, bytes, frame, network and node and back. They
  hold for a client that looks only at the first frame and at a status only if
  the body is empty, because an answer without a result is an error
  (`ResultMissing`); for getBlocks it is not, and `AnswersWereTrue` excepts
  its `{currentHeight: 0, blocks: []}`.
* `ArithmeticModuloPrime`: each function returns the one based belt of the
  right class, since hashes and comparisons tell 0 from the prime; the loops of
  bpow and bpegcd keep their invariants, and the inverse is one.
* `KeysAgree`: a child derived from the public key is that of the child derived
  from the private one, at every step of a path (`WatchSeesWallet`, for SLIP-10
  with its retries when a hash gives no key) and under a tweak, and what it
  signs is verified (`SignatureVerifies`), with the exceptions of section 4.
* `PushedIsRead`, `NoPartIsRead`: memos and blobs, after any pushes, on note
  data of one's own or of another wallet.

### Bounds, and why they are enough

* `sign`: two keys and two calls (a race needs one writer
  and one pending call, an overwriting answer two calls), up to two seeds, two
  fees. `edit`: gifts below and above the assets, up to three seeds, so that
  two refunds around a gift, and a gift above the assets, both happen.
* `pay`: every arrangement of three notes, two of one size (ties in both
  sorts, and in the pool), an empty note and one of version 0; gifts that need
  one, two or three notes, or more than there is; computed fees and given
  ones, below and above what refunds hold. The fee needs zero, one or two notes of
  the pool. At one nick per word a note costs about as much as a third of its assets, so
  the cost that a pool note adds matters.
* `calls`: five calls is the shortest behaviour in which a payment is followed
  by a fee lowered (notes go to the pool), raised (they come back), a
  signature and a validation. The spends added by hand have a digest-only
  refund lock, no refund lock (as fromRawTx leaves them), and two refunds.
* `live`: three calls and two sessions, so that two loops overlap, or one
  fails and is repeated, while notes go to the pool and come back. A spend
  added by hand gives all it has away, or pays a fee, so that a lowered fee
  takes visited spends out of the Map as well as spends still to come.
* `handover`: two parties with a key each,
  two edits (one of the content signed by both, one after a hand-over), and
  builders that begin with one spend or two, with a 2-of-2 lock, a hash lock,
  and a spend that pays its whole note as fee.
* `encodings`, z-trees: four keys give trees of height up to four, in which a
  rotation moves a subtree that was itself rotated; a fifth entry is a repeated
  key. Locks: all five sizes, the lists too long or of a size that needs
  padding, with conditions all different, all equal, and alternating. Bit
  writer: ten bits reach every state of the half-full byte, with a whole byte
  before it or none; from there a call may write up to two bytes, and the
  property looks at the whole result. jam and cue: four atoms make every shape
  in which a part repeats as a head, as a tail or across cells; the atoms are
  0, one bit, one as long as the first places (a reference is shorter or is
  not), and one of 64 bits, where the reader's other branch begins.

  Messages: each type empty, with all fields, and with each field alone, with
  zeros and other values, since what is written and read of a field depends on
  no other field (a message has at most one case of a oneof);
  up to three units lost at the end. Transactions: spends of both versions,
  every primitive, limits given and not, proofs of both versions, each kind of
  output source, a noun that is not based; through two objects of three kinds
  of writers. Bytes are of four bits there, so that four of them are a number
  TLC can hold. Memos and blobs: lengths 0 to 6 around the limb of four bytes,
  zeros, blanks and marks at the ends, the limits of both sizes, and what
  other wallets write with no zero, one zero, two, or another belt after it.

  Belts: half words of four bits, so a prime of 241, over which `X^6 - 7` is
  irreducible as over the code's own; every belt on the left, those near 0, the
  half word and the prime on the right, which is where the borrows and
  carries are; exponents to 32. Keys: a curve of eleven points over seven
  elements, where a child meets its parent, the opposite of its parent and the
  point at infinity in a few steps, with scalars and hashes that are zero, the
  order, above it, and opposites of each other.
* `rpc`: two calls, so that one is under way while the other is acknowledged
  and mined; two attempts each, so that a transaction is sent again after it
  was taken; two blocks, so that an answer may be about the block before the
  call, at the call or after it. A page holds two notes, of three there are.
  The request is longer than a byte can count. Cuts end within the length,
  after it, and within the message.

Each result string, and in `live` each kind of interference (a visited note in
the pool, an answer to a builder no longer held, an answer that is too late, a
validation that passes with one), was seen to be reachable.

Deadlock is not checked: an owner whose calls are used up stops, and so may a
real one.

### Fairness

`TxBuilder` has `WF(Step)`: a synchronous call that has begun goes on until it
returns or throws, since JavaScript runs it to completion. `TxSigning` states
the same with `job = Idle` for "`Step` is not enabled", which is quicker to
check; that no running call gets stuck is `Settles` of `Payment`, which
`ImplementsPayment` shows under `WF(Step)`. `Payment` states it as a leads-to
and no fairness: that a payment ends is promised, which of its ways it goes is
not. `TxSigning` adds
weak fairness of `Resume` for each session (the event loop runs a continuation
whose promise is settled) and of `Answer \/ Fail` (a signer's promise settles
in the end; the one assumption about the world outside). Nothing is assumed of
the owner, whose calls are bounded: an owner that lowers and raises the fee for
ever could keep a signing loop going, since a note that leaves and comes back
is visited again. `RpcClient` has no fairness and no liveness: fetch is called
without a timeout, and a call whose answer never comes waits for ever.

## 4. Findings

Four runs show a disagreement between the code and what the repository says
of it; `PROJECT.json` quotes both sides.

1. `lower`: lowering the fee removes spends that pay no fee from the
   transaction, with the gifts they carry (`0 === 0` at `tx/builder.ts` 781).
2. `bythos`: under Bythos settings the automatic fee can be too low for
   validate, because the loop works with refund counts taken before it made
   refunds vanish.
3. `claim`: notes that an HTLC claim takes from the pool for its fee get no
   preimage.
4. `timelocks`: a timelock that this code writes to a protobuf object and reads
   back has no limits any more.

More were met while modelling and have no run of their own. The models
follow the code in them, and the properties name the exception:

* `tx/builder.ts` 353: a signature that arrives after the spend was changed is
  attached, and counted, although it covers other content (`raced` in
  `SpendBuilder`, `outdated` in `TxSigning`).
* `tx/index.ts` 83: rawTxV1ToNockchainTx gives another id than the transaction
  had, and no display, so that the result cannot be opened.
* `proto/index.ts` 142 and `proto/rawTx.ts` 250: an output source is written
  in one place of the object and looked for in another, so it is lost. It is
  part of the sig-hash (`hash/tx.ts` 225): the signatures of such a
  transaction do not cover what was read (`SeedLeft` in `TxProto`).
* `proto/index.ts` 150: a spend of version 0 is written as null, which
  rawTxFromProtobuf refuses; `grpc/rawTx.ts` 240 leaves it out of the node's
  message, and 209 a source that names a parent (`AsSent` in `TxMessages`).
* `grpc/convert.ts` 62: legacy notes of a balance come back with the name's
  digests as belts instead of base58, and with `is_coinbase` false whatever
  the node said, since the message calls it `coinbase` (`AsRead` in
  `RpcClient`).
* `rpc/client.ts` 79 and 99: the token of the next page is dropped, so a
  balance of more than one page cannot be told from a whole one (`WasBalance`).
* `hash/noteData.ts` 107: a blank blob is ignored and leaves the blob before
  it in place; 124: a byte order mark before a memo is lost in reading.
* `tx/builder.ts` 304: setWitness keeps the signatures of the new witness,
  where the README says that it "invalidates sigs". In `SpendBuilder` they
  count as the owner's (`origin`).
* `tx/builder.ts` 866: two equal seeds count twice in isBalanced and are one in
  the transaction, which is then unbalanced (`NoEqualSeeds`).
* `tx/builder.ts` 91: a spend that pays its whole note as fee has no seeds; the
  transaction can be built and not be opened again (`OpenThrows`).
* `crypto/cheetah.ts` 221: the point at infinity has no form as bytes, so a
  private key that is a multiple of the order, which nothing refuses when it is
  read from bytes, has a public key that is on no curve (`IsIdentity`).
* `crypto/privateKey.ts` 46: sign does not look whether c or s is zero, which
  verify refuses (`SignatureVerifies`).
* `tx/htlc.ts` 73: the HTLC gift is looked for by its amount, which a refund
  that comes first may have. Not modelled.

## 5. Proofs

Everything is proved for all values of the constants that satisfy the
assumptions named below, which TLC evaluates for the constants of each run.
They say what the constants are (sets of numbers, of seeds, of orders, a finite
set of digests, a price above zero and so on), and three say what callers keep
to: `CallerAssumption`, `SigningCallerAssumption` and `FormAssumption`, the
last paragraph of section 2.

### The lemmas

A filter and a sum are recursive functions of a prefix length in the model; the
folds of the community modules are recursive functions of a set. `SpendLemmas`
has induction (`SetInduction`, from the well-foundedness of `<`), the existence
of functions defined on prefixes (`PrefixRecursion`) and of folds
(`FoldExists`: the recursion run as many times as there are elements is right;
`FoldLeftExists` along a list), and from these what a filter keeps and in which order, the sum
of a list that is extended, concatenated, filtered or changed at one place, a
list of lists put one after another turn by turn (`FlattenRun`), and the sum of
a function over a finite set as the sum of its values in any order
(`SumIsListed`). Then come types and effects of every operation of one spend,
that fees are natural numbers, and how the data of seeds to one lock are
merged: `Over` puts the data of a later seed over that of an earlier one, and
merging two lists put together is merging each and putting one over the other
(`MergedConcat`).

### One spend

* `TypeCorrect`: no operation yields a seed with a gift that is not a natural
  number: computeRefund puts back `assets - fee - gifts` only if it is
  positive.
* `SignaturesUsable`: `SignerSignaturesUsable` is not inductive: `Answer`
  attaches what the call has been holding, so the invariant has to say that
  this is still the present content. The inductive invariant is
  `TypeInvariant /\ PendingCallsFresh /\ SignerSignaturesUsable`;
  `PendingCallsFresh` is kept because every write that changes the content
  puts the pending calls into `raced`.
* `ChangesDropSignatures`: `ContentChangeDropsSigs`, from the type invariant,
  by cases on the action.
* `RefundBalances`: `RefundSettles`. The gifts of what the filter leaves, and
  of the refund put after it, add up to `assets - fee`.
* `OthersOnlyExtended`: `GiftsToOthersKept`. Filtering twice is filtering once,
  and a seed put last is last or gone in what is filtered.

### A TxBuilder

`Invariance` has the inductive invariant `IInv` of `TxBuilderProofs`:
`Holds` (the names of spends and of pool are apart, and within each no two are
the same, and every entry of *both* with a known refund lock is balanced) and
`JobFits` (the local variables of a call under way fit these lists). Neither
`NoteHeldOnce` nor `SpendsBalanced` is inductive. A payment adds its notes one
by one, so those not yet added must have names of their own; a note comes out
of the pool into the spends, so the pool must be balanced as well; raising
the fee takes from refunds, so every spend still to do must have one; and the
names listed for the pool must be in the spends, once each and no longer to
do, or `LowerEnd` would push a note twice.

* `TypesHold`: `TypeInvariant`, fees and gifts are never negative.
* `NotesHeldOnce`, `BalanceHolds`: `NoteHeldOnce` and `SpendsBalanced`.
* `NoteLossIsThrown`: `NotesKept`, step by step.

They hold for every fee rule and price: nothing of `Fee` is used but that a fee is
a natural number. Two theorems are about the fee itself:

* `SigningFitsTheFee`: `SigningKeepsFee`, if `PriceDivides`: the divisor of
  the witness words divides the price of a word (in `tx/index.ts` the price is
  2^15 and the divisor 1, or 2^14 and 4). Each spend that lists the key has 35 words more, and each
  primitive of it that lists the key lacks one signature less
  (`SignatureCounts`, `MissingFeeDrops`); the sum of both over the spends does
  not grow (`TotalsWeighed`), nor does the second alone, which counts when the
  first is below the least fee. Without the hypothesis it is not true: calcFee
  rounds every missing signature down for itself and the signed words once,
  all together, so that the sum may be a nick more.
* `ComputedFeesCover`: `FeeCoversCost`, for builders with any calls, spends and
  notes, under `ComputedFees(b)`. While the fee is raised, the loop counts on
  this: what calcFee asks for the spends as they are is no more than their fees
  and what is left to be found (`PriceInv`, which is added to `IInv`). A fee
  taken from a refund keeps it, because the refund that replaces another never
  has more words; and the note of the pool that is taken in brings its own cost
  with it, of which the loop's estimate (`SpendingCost`) is no less than what
  calcFee then adds. Every hypothesis is needed:
  - `EnginePatch = 0`: with merged note data it is not true, which is the
    finding `bythos`;
  - `PriceDivides`: the estimate rounds one spend at a time, calcFee all
    together;
  - `FloorPaid`, for each note of an order: the words of its lock proof alone
    cost the least fee (when a refund vanishes the loop takes off what it cost,
    and calcFee must not have stopped at `MinFee` by then), and no key is listed
    by two primitives of its lock (a fee that changes drops signatures; one
    signature is written down once and missing twice);
  - one value `b` of includeLockData in all calls, no recalculated fee of the
    caller's own that is raised as if computed (`AdjustFees`), and spends added
    by hand whose refund seeds are no smaller than those a recalculation makes
    (`Priced`).

### A payment

`PaymentsKeepTheirPromise`: a TxBuilder that is used for one payment and
nothing else (`OnePayment`, which the run `pay` has as well) implements the
safety part of `Payment`: its initial states are initial states of `Payment`,
and each of its steps is a step of `Payment` or changes nothing there, for
every list of notes, every lock, key, price and override and both engine
patches. `ImplementsPaymentIfItEnds` adds that nothing else of
`ImplementsPayment` is left to TLC than that a payment ends.

The inductive invariant is `PayInv`: `IInv` and, while a payment is under way,
`PaymentFits`. Every entry of spends and pool *pays*: its seeds are at most
one change to the payer, in front, and one gift, and fee, change and gift are
what the note is worth (`Pays`, `Splits`); entries of the pool give nothing
and pay no fee. Every note of the payment is in one of the two or still to
come. While notes are given out, what the spends give is the gift less what is
left of it, and the notes looked at so far add up to that if something is left
(`BaseFits`). While the fee is raised (`FeeFits`), fees and what is left to be
found make the fee that was asked for, or, if it is computed, no more than
`FeeBound`, what the present spends may cost; and if something is left, every
spend with change is still to be looked at.

* The steps are one lemma each (`SimpleSpendPays`, `BaseStepPays`,
  `BaseEndPays`, `RaiseStepPays`, `RaiseEndPays`, `PoolStepPays`,
  `PoolEndPays`). `CallPays` and `StepPays` show that nothing else happens:
  raising never turns into lowering.
* A payment that returns (`PayStep`): names differ, so each entry spends a note
  of its own (`IsPlacing`), and what the spends are worth is the sum over
  their notes (`WorthOfSpends`); what a lock is given is a sum that can be
  taken seed by seed (`LocksGiven`).
* A payment that is refused (`Stuck`): with something left to be found, no
  change in the spends and nothing worth anything in the pool, the notes are
  worth fees and gift and no more; and fees and what is left are within
  `FeeBound`, which grows with each note taken at least as much as its price
  (`BoundGrows`, `SeedsHaveRoom`) up to `MostFee` (`BoundIsMost`). That calcFee
  of the spends is within it under either engine patch is `CalcFeeWithin`;
  after Bythos the note data of all seeds to one lock are merged, of which
  a payment has two kinds (`OrderedSeedsHaveRoom`).

`PaymentFeesCover` is `FeeCoversCost` for one payment: there, orders may differ
in includeLockData, since only one is called (`PaymentPriced`). It asks for
`OnePayment` and `PlainPrices`, both of which the constants of the run `pay`
satisfy, so that the theorem says of every number of notes and every price what
the run says of three.

### The notes a transaction makes

What the z-tree makes of a spend's seeds is their set in some order, and
rawTxV1Outputs goes through all spends and groups seeds by lock. `Outputs` takes
every order (`WireSeeds`), and so do these theorems. They rest on two ideas. One
is a *weight*: any function from seeds to numbers, whose sum over a list is the
same in every order (`WireOrder`), is the sum over the spends (`WireSeedsWeigh`),
and is the sum over the groups (`SeedsByLockEffect`). The other is a set of
spends that no call leads out of (`ClosedUnderCalls`): each operation of the
builder is shown once to stay in such a set (`NextStaysIn`), whatever the set
says of a spend.

* `OutputsAreConserved`: `OutputsConserve`, with the gift as weight. `IInv` has
  the spends with a known refund lock balanced; `BalancedAdditions` asks it of
  the spends added by hand, whose refund lock may be missing, and no call makes
  a spend without a refund lock or changes the fee of one (`SettledSpends`). The
  run `calls` adds spends that do not satisfy this, a digest-only refund lock
  and none; it does not check the property, and `pay`, which does, adds none.
* `PaymentsDeliver`: `MemoDelivered`, from `PayInv`. With the gift as weight if
  it goes to the recipient, the group of his lock weighs what `PaymentFits` says
  the spends give; all its seeds are gift seeds of the order, so the data merged
  from them is the data of one (`MergeOfEqual`).
* `FeeIsForTheOutputs`: `FeeChargesForOutputs`, for every engine patch that
  merges. The fee rules merge by lock over the seeds in the builder's order, the
  outputs group by group in that of the wire, where another seed may come last
  and win. `AgreedAdditions` asks that the seeds *of one spend* that go to one
  lock do not carry different data under one key; then every spend has that
  (`AgreedSpends`: a payment makes one gift and one refund, and computeRefund
  leaves one seed to the refund lock), and the order within a spend does not
  matter (`WireOrderMerges`). Between spends seeds may differ: both go through
  the spends in the same order. A group merges what the list merges for its lock
  (`GroupsMerge`, kept by each turn of the loop: `GroupKeepsMerge`), and the sum
  over locks is the sum over groups (`SumIsListed`). The run `calls` satisfies
  the hypothesis, with two seeds of one spend to one lock.

### Signing a live transaction

`SigningInvariance` adds to `IInv` that every session fits the Map
(`SessionFits`): the iterator is not past the end, each spend in the visited
prefix is stale, or does not list the key, or is signed over its content, or
is the one whose signer the session waits for (`SignedSoFar`); and if that one
is not stale, the signer was asked about the content it has now (`AskFits`).
What the owner may do meanwhile is put into one formula, `Moves`, which says what
every step of the builder does to the Map: a spend keeps its place, is put
last, is replaced in place, or goes; `FollowedFits` shows that a session
survives any such step. The signatures themselves are a second part: those in
spends and pool cover their content unless the note is in `outdated`
(`AllCover`).

* `SigningTypesHold`: `SigningTypes`, the builder's types included.
* `HeldAndBalancedWhileSigning`: what is proved of a `TxBuilder` alone holds
  with signers at work.
* `ReturnedMeansSigned`, `ValidatedMeansSpendable`: `ReturnMeansSigned` and
  `ValidMeansSpendable`. For the second, validate's count of missing
  signatures, by presence, is related to the number of signatures that cover.

### The forms of a transaction

`Invariance` of `TxFormProofs`: builders have names apart and hold what their
history says (`EntriesHold`), and a paper, in whichever form, is *the split of
some list of full spends* that holds what the history says (`PaperIsOf`). The
properties look at the paper alone, which is not enough to know what opening
it leads to: the list of full spends is what all conversions keep. Splitting
and applying the witnesses is shown to give back the list, for which names
have to be apart.

* `TypesHold`, `SignaturesHeld`, `RebuildHolds`, `IdCovers`: `TypeInvariant`,
  `SignaturesAccumulate`, `RebuildIsSame`, `IdCoversWhatIsSent`.

### Arithmetic

On `Belt`, for every half word `W` of two bits or more, the code's 2^32 among
them, from `BeltAssumption` alone (the run `encodings` has 2^4):

* `SubtractionModuloPrime`, `AdditionModuloPrime`, `NegationModuloPrime`: the
  result is based, and is the difference, sum or opposite, or that and the
  prime. bsub mends a borrow by taking `W - 1` from the word it wrapped to,
  which is the same as adding the prime; badd subtracts `Prime - b`, which is
  the prime itself, not based, when b is 0: the lemma for bsub covers it.
* `ReductionModuloPrime`, `MultiplicationModuloPrime`: reduce and bmul give the
  based belt that differs from their argument by a multiple of the prime.
  `Parts` splits a number of two words into low, mid and high as reduce does;
  `ReductionOfParts` replaces the word above mid by `W - 1` and the one above
  that by -1, which is what they are modulo the prime, and shows that no borrow
  or carry of reduce159 is lost and one subtraction at the end is enough. The
  lemmas on `\div` and `%` state the little the solver needs of division.
* `MontgomeryReduction`, `MontgomeryProduct`, `MontgomeryForm`: montReduction,
  montiply and montify return the based belt that is, modulo the prime, their
  argument divided by `W^2`, the product divided by `W^2`, and the number times
  `W^2` (`Same(x, y)`: x and y differ by a multiple of the prime).
  `MontgomeryPart`: what montReduction takes off the high word is, times `W^2`,
  the opposite of the low one, whichever way the carry falls.
  `MontgomeryRoundTrip` and `MontgomeryAgrees`: form and back is the same belt,
  and the two ways to multiply agree. A factor of `W^2` may be cancelled, since
  `-W` is its inverse (`SameWithoutWord`).

### Only model-checked

* Liveness (`SessionsEnd`, and that a payment ends, in `ImplementsPayment`):
  out of the provers' reach, as is ENABLED.
* `FeeCoversCost` where `ComputedFees` is not given: a caller's own fee, or two
  values of includeLockData on one builder. Under engine patch 1 it does not
  hold (`bythos`).
* The properties of `RpcClient` and of the modules under `MCEncodings` but for
  `Belt`: they rest on encoders and decoders that recurse over data (trees,
  nouns, messages, bits), which is induction over data; the invariants of
  `RpcClient` are about what these make of a transaction. Of `Belt`: inversion
  and powers, whose result is defined by recursion over the bits of a number.

## 6. What is not modelled

* Inside modelled parts: preimages that are not based or cannot be decoded
  (`addPreimage` throws or returns before any change), length checks on
  argument arrays and a missing spend condition (throw before any change, or
  like a version 0 note), tag 0 spends (every method returns at once), engine
  version 0 (the fee rules throw), timelocks (`tim` is checked by nobody in
  this code).
* In `TxForm`: spends of version 0, which pass through every conversion, and
  the output metadata of the display. In `JamCue`: places above 2^31, at which the
  writer's 32-bit shifts would show; a noun of that size does not fit into
  memory.
* Whole parts, and why, are in the table of the plan and in `PROJECT.json`.
  Left out for good: the tip5 permutation, whose constants are its content,
  and the forms of keys as text (base58, hex, words of a mnemonic).
* In `Belt`, `BeltCalls` and `Cheetah`: arguments that are not based, for which
  the functions do not look (`basedCheck` is there for callers); the formulas of the curve over the
  field of six belts, which stand side by side as two modules.
* In the protobuf modules: the service descriptors, the text of errors, base58
  itself, numbers above 2^53 (64-bit fields are strings), and objects that lack a part `required` asks for. In `RpcClient`:
  a body above 2^31 bytes, at which the shifts of `unwrapGrpcWebFrames` turn
  negative; the length it cuts at is the sender's.
* In `PackedNoteData`: bytes that are not UTF-8, which the decoder replaces.

## 7. Plan

All stages exist. The last column has what is proved; what is left to TLC, and
why, is at the end of section 5.

| stage | module | about | runs | theorems |
|---|---|---|---|---|
| 1 | `Spend`, `SpendBuilder` | one spend and its signers | `sign`, `edit` | all five properties |
| 2 | `Fee`, `TxBuilder` | payments and fees | `pay`, `calls`, `bythos`, `lower`, `claim` | types, balance, notes, the fee after signing, a computed fee covers its transaction |
| 3 | `TxSigning` | signing a live transaction | `live` | all but `SessionsEnd` |
| 4 | `Payment`, `TxBuilderPays` | the promise of simpleSpend, implemented | `pay` | initial states and steps of a payment map to those of `Payment`; its end is left to TLC |
| 5 | `TxForm` | build, split and apply witness, ids, several signers passing a transaction on | `handover` | all four properties |
| 6 | `ZTree` | treap insertion | `encodings` | - |
| 7 | `LockMerkle` | lock lists, proofs, axes | `encodings` | - |
| 8 | `Outputs` | outputs, merging | `pay`, `calls` | gifts are conserved, memos delivered, the fee is for what the notes carry |
| 9 | `BitWriter`, `JamCue`, `PackedNoteData` | bit streams; packed texts | `encodings` | - |
| 10 | `ProtoWire` and the tables, `TxProto`, `RpcClient` | messages, conversions, calls | `encodings`, `rpc`, `timelocks` | - |
| 11 | `Belt`, `BeltCalls`, `Cheetah`, `Schnorr`, `Slip10` | field arithmetic and the curve, for small fields of the same shape; keys and their children | `encodings` | addition, subtraction, reduction, multiplication, Montgomery form |
