-------------------------------- MODULE Slip10 --------------------------------
(***************************************************************************)
(* Master keys and their children (src/crypto/slip10.ts): an owner with    *)
(* the private key and a watcher with the public one derive the same       *)
(* child.  A hash is chosen when it is first asked for, and may be one of  *)
(* those that come once in 2^256 times: zero, the order and above, or the  *)
(* parent's negative, after which the code asks again.                     *)
(***************************************************************************)
EXTENDS Cheetah, TLC

CONSTANTS
  Hashes,       \* what hmacSha512 answers: a scalar, and the bytes of a chain code
  Indices,      \* of children; those from Hardened on are hardened
  Hardened,     \* 2^31
  MaxHashes     \* bound on the hashes asked for

Wallets == {"owner", "watcher"}

VARIABLES
  hashed,      \* the hashes asked for and their answers
  result,      \* of the loop of deriveMasterKey, and of each wallet's deriveChild
  index,       \* of the child asked for
  keys,        \* each wallet's key
  children     \* and its child

vars == <<hashed, result, index, keys, children>>

None == [none |-> TRUE]
Threw == [threw |-> TRUE]
NoPrivateKey == << >>      \* a private key that is null
DomainSeparator == << >>

HmacSha512(key, data, answer) ==
  LET asked == <<key, data>>
  IN  /\ IF asked \in DOMAIN hashed THEN answer = hashed[asked]
         ELSE Cardinality(DOMAIN hashed) < MaxHashes
      /\ hashed' = (asked :> answer) @@ hashed

InRange(left) == left < Order /\ left # 0

ExtendedKey(privateKey, publicKey, chainCode) ==
  [privateKey |-> privateKey, publicKey |-> publicKey, chainCode |-> chainCode]

OfScalar(s, chainCode) ==
  ExtendedKey(ToBeBytes(s), PublicKeyToBeBytes(ChScalBig(s, A_GEN)), chainCode)

(* An HMAC of the seed has just been asked for. *)
Init ==
  /\ \E answer \in Hashes :
       /\ result = [loop \in Wallets \union {"master"} |-> IF loop = "master" THEN answer ELSE None]
       /\ hashed = << <<DomainSeparator, <<"seed">> >> >> :> answer
  /\ index \in Indices
  /\ keys = [w \in Wallets |-> None] /\ children = keys

MasterRetry ==
  /\ result["master"] # None /\ ~InRange(result["master"].left)
  /\ \E answer \in Hashes :
       /\ HmacSha512(DomainSeparator, <<result["master"].left>> \o result["master"].chain, answer)
       /\ result' = [result EXCEPT !["master"] = answer]
  /\ UNCHANGED <<index, keys, children>>

(* The owner gives the watcher the public key and the chain code. *)
MasterEnd ==
  /\ result["master"] # None /\ InRange(result["master"].left)
  /\ LET master == OfScalar(result["master"].left, result["master"].chain)
     IN  keys' = [owner |-> master, watcher |-> [master EXCEPT !.privateKey = NoPrivateKey]]
  /\ result' = [result EXCEPT !["master"] = None]
  /\ UNCHANGED <<hashed, index, children>>

InitialData(key) ==
  IF index >= Hardened THEN <<0>> \o key.privateKey \o <<index>>
  ELSE <<1>> \o key.publicKey \o <<index>>

DeriveChild(w) ==
  /\ keys[w] # None /\ children[w] = None /\ result[w] = None
  /\ IF index >= Hardened /\ keys[w].privateKey = NoPrivateKey
     THEN /\ children' = [children EXCEPT ![w] = Threw]
          /\ UNCHANGED <<hashed, result>>
     ELSE /\ \E answer \in Hashes :
               /\ HmacSha512(keys[w].chainCode, InitialData(keys[w]), answer)
               /\ result' = [result EXCEPT ![w] = answer]
          /\ UNCHANGED children
  /\ UNCHANGED <<index, keys>>

(* Mutant: takes the child whose private key is zero. *)
ChildOfZero(key, left, chain) ==
  IF ~InRange(left) THEN None
  ELSE IF key.privateKey # NoPrivateKey
       THEN OfScalar(AddMod(left, FromBeBytes(key.privateKey)), chain)
       ELSE LET child == ChAdd(ChScalBig(left, A_GEN), PublicKeyFromBeBytes(key.publicKey))
            IN  IF child = Null \/ child.inf THEN None
                ELSE ExtendedKey(NoPrivateKey, PublicKeyToBeBytes(child), chain)

(* The child of a hash, or None if there is none. *)
Child(key, left, chain) ==
  IF ~InRange(left) THEN None
  ELSE IF key.privateKey # NoPrivateKey
       THEN LET s == AddMod(left, FromBeBytes(key.privateKey))
            IN  IF s = 0 THEN None ELSE OfScalar(s, chain)
       ELSE LET child == ChAdd(ChScalBig(left, A_GEN), PublicKeyFromBeBytes(key.publicKey))
            IN  IF child = Null \/ child.inf THEN None
                ELSE ExtendedKey(NoPrivateKey, PublicKeyToBeBytes(child), chain)

ChildOf(w) == Child(keys[w], result[w].left, result[w].chain)

DeriveRetry(w) ==
  /\ result[w] # None /\ ChildOf(w) = None
  /\ \E answer \in Hashes :
       /\ HmacSha512(keys[w].chainCode, <<1>> \o result[w].chain \o <<index>>, answer)
       /\ result' = [result EXCEPT ![w] = answer]
  /\ UNCHANGED <<index, keys, children>>

DeriveEnd(w) ==
  /\ result[w] # None /\ ChildOf(w) # None
  /\ children' = [children EXCEPT ![w] = ChildOf(w)]
  /\ result' = [result EXCEPT ![w] = None]
  /\ UNCHANGED <<hashed, index, keys>>

Next ==
  \/ MasterRetry \/ MasterEnd
  \/ \E w \in Wallets : DeriveChild(w) \/ DeriveRetry(w) \/ DeriveEnd(w)

Spec == Init /\ [][Next]_vars

-----------------------------------------------------------------------------
IsKey(key) ==
  /\ key.privateKey \in {NoPrivateKey} \union {ToBeBytes(n) : n \in 1..Order - 1}
  /\ key.publicKey \in Field \X Field
  /\ key.chainCode \in {answer.chain : answer \in Hashes}

TypeInvariant ==
  /\ \A asked \in DOMAIN hashed : hashed[asked] \in Hashes
  /\ \A loop \in DOMAIN result : result[loop] \in Hashes \union {None}
  /\ \A w \in Wallets :
       /\ keys[w] = None \/ IsKey(keys[w])
       /\ children[w] \in {None, Threw} \/ IsKey(children[w])

(* The watcher's child is the owner's, without its private key, whichever  *)
(* hashes were passed over on the way (deriveChild's two branches), and    *)
(* the private key is that of the public one.  A hardened child is the     *)
(* owner's alone.                                                          *)
WatchSeesWallet ==
  /\ children["watcher"] = Threw => index >= Hardened
  /\ None \notin {children["owner"], children["watcher"]} =>
       \/ children["watcher"] = Threw
       \/ children["watcher"] = [children["owner"] EXCEPT !.privateKey = NoPrivateKey]
  /\ children["owner"] # None =>
       LET s == FromBeBytes(children["owner"].privateKey)
       IN  /\ s \in 1..Order - 1
           /\ children["owner"].publicKey = PublicKeyToBeBytes(ChScalBig(s, A_GEN))
=============================================================================
