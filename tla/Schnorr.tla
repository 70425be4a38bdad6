------------------------------- MODULE Schnorr --------------------------------
(***************************************************************************)
(* Keys and signatures (src/crypto/privateKey.ts, publicKey.ts): the child *)
(* of a key under a tweak, derived by who has the private key and by who   *)
(* has the public one; a signature, and its verification.  This is what a  *)
(* MpcSigner (src/mpc.ts) does for a path.  A hash is any number below     *)
(* Order, the same for the same transcript.                                *)
(***************************************************************************)
EXTENDS Cheetah

CONSTANT Tweaks    \* bytes of tweaks

VARIABLES
  root, key,            \* the bytes of the root's private key and of the signing one
  publicKey,            \* a PublicKey
  transcript,           \* what the challenge is the hash of, but for the message
  signature, step

vars == <<root, key, publicKey, transcript, signature, step>>

Unsigned == << >>

PublicKeyPoint(scalar) == ChScalBig(scalar, A_GEN)

TweakScalar(tweakLeBytes) == AddMod(FromLeBytes(tweakLeBytes), 0)

PrivateDeriveChild(scalar, tweakLeBytes) ==
  ToBeBytes(AddMod(scalar, TweakScalar(tweakLeBytes)))

PublicDeriveChild(point, tweakLeBytes) ==
  ChAdd(point, ChScalBig(FromLeBytes(tweakLeBytes) % Order, A_GEN))

Init ==
  /\ root \in {ToBeBytes(n) : n \in Scalars}
  /\ key = root
  /\ publicKey = PublicKeyFromBeBytes(PublicKeyToBeBytes(PublicKeyPoint(FromBeBytes(root))))
  /\ transcript = Unsigned /\ signature = Unsigned
  /\ step = "root"

DeriveChild ==
  /\ step = "root"
  /\ \E tweak \in Tweaks :
       /\ key' = PrivateDeriveChild(FromBeBytes(root), tweak)
       /\ publicKey' = PublicDeriveChild(publicKey, tweak)
  /\ step' = IF publicKey' = Null THEN "threw" ELSE "child"
  /\ UNCHANGED <<root, transcript, signature>>

(* A signature is the little-endian hex of c and s. *)
SignDigest ==
  /\ step \in {"root", "child"}
  /\ \E nonce, chal \in 0..Order - 1 :
       LET scalar == FromBeBytes(key)
           scalarPt == ChScalBig(nonce, A_GEN)
           pubkey == PublicKeyPoint(scalar)
       IN  /\ transcript' = <<scalarPt.x, scalarPt.y, pubkey.x, pubkey.y, chal>>
           /\ signature' = <<ToLeBytes(chal), ToLeBytes(AddMod(nonce, MulMod(chal, scalar)))>>
  /\ step' = "signed"
  /\ UNCHANGED <<root, key, publicKey>>

Verify ==
  /\ step = "signed"
  /\ LET c == FromLeBytes(signature[1])
         s == FromLeBytes(signature[2])
         cPk == ChScalBig(c, publicKey)
         scalar == IF cPk = Null THEN Null ELSE ChAdd(ChScalBig(s, A_GEN), ChNeg(cPk))
         outOfRange == c = 0 \/ c >= Order \/ s = 0 \/ s >= Order
         asked == <<scalar.x, scalar.y, publicKey.x, publicKey.y>>
     IN  IF outOfRange \/ scalar = Null THEN step' = "refused"
         ELSE \E chal \in 0..Order - 1 :
                /\ asked = SubSeq(transcript, 1, 4) => chal = transcript[5]
                /\ step' = IF chal = c THEN "accepted" ELSE "refused"
  /\ UNCHANGED <<root, key, publicKey, transcript, signature>>

Next == DeriveChild \/ SignDigest \/ Verify

Spec == Init /\ [][Next]_vars

-----------------------------------------------------------------------------
Bytes == {ToBeBytes(n) : n \in Scalars}

TypeInvariant ==
  /\ {root, key} \subseteq Bytes
  /\ publicKey \in Points \union {Null}
  /\ (signature = Unsigned) = (step \in {"root", "child", "threw"})
  /\ signature # Unsigned => signature \in Bytes \X Bytes
  /\ step \in {"root", "child", "threw", "signed", "accepted", "refused"}

IsIdentity(bytes) == FromBeBytes(bytes) % Order = 0

(* The child's public key is that of the child's private key, which is     *)
(* what PrivateKey.deriveChild says of itself (privateKey.ts:102), and a   *)
(* signature is accepted under it (MpcSigner, mpc.ts:61), but for c or s   *)
(* zero, which sign does not look at and verify refuses.  A key that is a  *)
(* multiple of the order has no public key: the bytes of the point at      *)
(* infinity are read as a point that is not on the curve.                  *)
SignatureVerifies ==
  ~IsIdentity(root) =>
    /\ step # "threw"
    /\ step = "child" =>
         PublicKeyToBeBytes(publicKey) = PublicKeyToBeBytes(PublicKeyPoint(FromBeBytes(key)))
    /\ step \in {"accepted", "refused"} =>
         (step = "accepted") = (ToLeBytes(0) \notin {signature[1], signature[2]})
=============================================================================
