------------------------------- MODULE TxSigning -------------------------------
(***************************************************************************)
(* A TxBuilder whose spends are signed, key by key, while its owner goes   *)
(* on using it: TxBuilder.signWith of src/tx/builder.ts, and signTxWithMpc *)
(* of src/mpc.ts, which is a signWith with a signer out in the network.    *)
(*                                                                         *)
(* signWith loops over the live Map of spends and awaits each spend's      *)
(* signWith, so whatever else the program does may come between two spends *)
(* and between a signer's question and its answer; only the owner's calls  *)
(* themselves are not interrupted (they have no await), hence the guard    *)
(* job = Idle.  The iterator of a Map visits entries in insertion order,   *)
(* those added meanwhile included, and an entry put in anew comes last: so *)
(* the visited entries that are still there are a prefix of the Map, and   *)
(* the iterator is the length of that prefix.                              *)
(*                                                                         *)
(* stale and outdated are history, the code has neither: stale has the     *)
(* names a session visited and that the owner, or a late answer to another *)
(* session of the same key, wrote to since; outdated the names of spends   *)
(* that hold a signature that came too late.                               *)
(***************************************************************************)
EXTENDS TxBuilder

CONSTANTS Sessions,     \* concurrent signWith calls
          NoSession,    \* a session that is not running
          NoAsk,        \* a session that waits for no signer
          MaxStarts     \* bound on the sessions of one behaviour

VARIABLES session, starts, outdated

signingVars == <<spends, pool, job, result, calls, session, starts, outdated>>

(* What a signer was asked: the content of a spend.  held is FALSE when    *)
(* the builder no longer has the SpendBuilder the answer will be given to. *)
Asks == [name : Names, content : Contents, held : BOOLEAN]
SessionStates ==
  [pkh : Pkhs, visited : Nat, ask : Asks \cup {NoAsk}, stale : SUBSET Names]

ASSUME TxSigningAssumption ==
  /\ NoSession \notin SessionStates
  /\ NoAsk \notin Asks
  /\ MaxStarts \in Nat

(* What is left to the callers: a spend made by hand has no signature of   *)
(* other content than it has when it is given to the builder.              *)
SignaturesCover(s) == \A p \in Pkhs : s.witness.sigs[p] \in {NoSig, SigHash(s)}

ASSUME SigningCallerAssumption == \A e \in Additions : SignaturesCover(e.sb)

SigningTypes ==
  /\ TypeInvariant
  /\ session \in [Sessions -> SessionStates \cup {NoSession}]
  /\ \A c \in Sessions : session[c] # NoSession => session[c].visited <= Len(spends)
  /\ starts \in 0..MaxStarts
  /\ outdated \subseteq Names

SigningInit ==
  /\ Init
  /\ session = [c \in Sessions |-> NoSession]
  /\ starts = 0
  /\ outdated = {}

Running == {c \in Sessions : session[c] # NoSession}

-----------------------------------------------------------------------------
(* The loop of signWith.                                                   *)

Coming(s) == spends[s.visited + 1]

Past(s) == [s EXCEPT !.visited = @ + 1, !.stale = @ \ {Coming(s).name}]

Asking(s) ==
  [Past(s) EXCEPT !.ask = [name |-> Coming(s).name, content |-> SigHash(Coming(s).sb),
                           held |-> TRUE]]

(* Mutant: the loop does not get past a spend that does not list the key. *)
VisitStuck(s) == IF ListedIn(Coming(s).sb.witness.prims, s.pkh) THEN Asking(s) ELSE s

(* The next spend: its signer is asked if it lists the key, else its       *)
(* signWith returns false.                                                 *)
Visit(s) == IF ListedIn(Coming(s).sb.witness.prims, s.pkh) THEN Asking(s) ELSE Past(s)

AtEnd(s) == s.visited = Len(spends)

Started(pkh) == [pkh |-> pkh, visited |-> 0, ask |-> NoAsk, stale |-> {}]

(* The first spend is visited before signWith returns its promise. *)
Start(c, pkh) ==
  /\ job = Idle
  /\ starts < MaxStarts
  /\ session[c] = NoSession
  /\ session' = [session EXCEPT ![c] =
       IF spends = << >> THEN NoSession ELSE Visit(Started(pkh))]
  /\ starts' = starts + 1
  /\ UNCHANGED <<vars, outdated>>

(* The await of a spend's signWith is over: the next one, or the end. *)
Resume(c) ==
  /\ job = Idle
  /\ c \in Running /\ session[c].ask = NoAsk
  /\ session' = [session EXCEPT ![c] = IF AtEnd(@) THEN NoSession ELSE Visit(@)]
  /\ UNCHANGED <<vars, starts, outdated>>

Signed(entries, ask, pkh) ==
  [i \in DOMAIN entries |->
     IF ask.held /\ entries[i].name = ask.name
     THEN [entries[i] EXCEPT !.sb = PushPkhSignature(@, pkh, ask.content)]
     ELSE entries[i]]

(* Whether the SpendBuilder that asked has other content by now. *)
TooLate(ask) ==
  ask.held /\ \E e \in Range(spends) \cup Range(pool) :
                e.name = ask.name /\ SigHash(e.sb) # ask.content

(* The answer goes to the SpendBuilder that asked, in the transaction or   *)
(* in the pool, whatever happened to it; it replaces the signature of the  *)
(* key, a newer one too.                                                   *)
Answer(c) ==
  /\ job = Idle
  /\ c \in Running /\ session[c].ask # NoAsk
  /\ LET s == session[c]
         late == TooLate(s.ask)
     IN  /\ spends' = Signed(spends, s.ask, s.pkh)
         /\ pool' = Signed(pool, s.ask, s.pkh)
         /\ session' = [d \in Sessions |->
              IF d = c THEN [s EXCEPT !.ask = NoAsk]
              ELSE IF d \in Running /\ late /\ session[d].pkh = s.pkh
              THEN [session[d] EXCEPT !.stale = @ \cup {s.ask.name}]
              ELSE session[d]]
         /\ outdated' = IF late THEN outdated \cup {s.ask.name} ELSE outdated
  /\ UNCHANGED <<job, result, calls, starts>>

(* The signer fails: signWith throws, and leaves the spends it did not get *)
(* to unsigned.                                                            *)
Fail(c) ==
  /\ job = Idle
  /\ c \in Running /\ session[c].ask # NoAsk
  /\ session' = [session EXCEPT ![c] = NoSession]
  /\ UNCHANGED <<vars, starts, outdated>>

-----------------------------------------------------------------------------
(* What the owner's calls do to the sessions.                              *)

Unwritten(n) ==
  /\ n \in NamesOf(spends')
  /\ LET before == spends[Named(spends, n)].sb
         after == spends'[Named(spends', n)].sb
     IN  SigHash(after) = SigHash(before) /\ after.witness.sigs = before.witness.sigs

SeenBy(s) == {spends[i].name : i \in 1..s.visited}

(* Mutant: the iterator stays where it is when visited spends leave. *)
VisitedUnmoved(s) == SmallerOf(s.visited, Len(spends'))

VisitedAfter(s) == Cardinality(SeenBy(s) \cap NamesOf(spends'))

AskAfter(ask, replaced) ==
  IF ask = NoAsk THEN NoAsk
  ELSE [ask EXCEPT !.held = /\ @
                            /\ ask.name \notin replaced
                            /\ ask.name \in NamesOf(spends') \cup NamesOf(pool')]

Followed(s, replaced) ==
  [s EXCEPT !.visited = VisitedAfter(s),
            !.stale = @ \cup {n \in SeenBy(s) : n \in replaced \/ ~ Unwritten(n)},
            !.ask = AskAfter(@, replaced)]

SignedNames(entries) == {e.name : e \in {f \in Range(entries) : f.sb.witness.sigs # NoSigs}}

Follow(replaced) ==
  /\ session' = [c \in Sessions |->
       IF c \in Running THEN Followed(session[c], replaced) ELSE NoSession]
  /\ outdated' = outdated \cap (SignedNames(spends') \cup SignedNames(pool'))
  /\ UNCHANGED starts

OwnerStep == (OwnerCall \/ Step) /\ Follow({})

OwnerAdds(e) == AddSpend(e) /\ Follow({e.name})

SigningNext ==
  \/ OwnerStep
  \/ \E e \in Additions : OwnerAdds(e)
  \/ \E c \in Sessions :
       \/ \E pkh \in Pkhs : Start(c, pkh)
       \/ Resume(c) \/ Answer(c) \/ Fail(c)

(* A call of the owner that runs takes its next step: this is WF_vars(Step) *)
(* with job = Idle for "Step is not enabled" (they are the same, and TLC    *)
(* is slow to find out whether a Step is enabled; TxBuilder has WF_vars     *)
(* itself, and ImplementsPayment that a payment comes to an end).           *)
(* The event loop comes back to every session, and a signer's promise       *)
(* settles in the end.                                                      *)
SigningFairness ==
  /\ []<>(job = Idle) \/ []<><<Step>>_vars
  /\ \A c \in Sessions : /\ WF_signingVars(Resume(c))
                         /\ WF_signingVars(Answer(c) \/ Fail(c))

SigningSpec == SigningInit /\ [][SigningNext]_signingVars /\ SigningFairness

-----------------------------------------------------------------------------
(* Properties.                                                             *)

(* When signWith returns, every spend of the transaction that lists the    *)
(* key is signed over the content it has, unless it was written to after   *)
(* the loop had been there: the loop over the live Map misses no spend,    *)
(* whatever was added, taken out, put back or replaced meanwhile, and      *)
(* whoever else was signing.                                               *)
ReturnMeansSigned ==
  [][\A c \in Running :
       (session[c].ask = NoAsk /\ session'[c] = NoSession)
       => \A i \in DOMAIN spends :
            (/\ ListedIn(spends[i].sb.witness.prims, session[c].pkh)
             /\ spends[i].name \notin session[c].stale)
            => spends[i].sb.witness.sigs[session[c].pkh] = SigHash(spends[i].sb)]_signingVars

(* What validate lets pass can be spent: every pkh primitive has its m     *)
(* signatures over the present content, except where a signer answered too *)
(* late.  Fee changes, notes that leave for the pool and come back, and    *)
(* failed and repeated sessions leave no signature behind that counts but  *)
(* does not cover.                                                         *)
ValidMeansSpendable ==
  [][(Validate /\ result' = "valid") =>
       \A i \in DOMAIN spends :
         spends[i].name \notin outdated =>
           \A k \in PrimsOf(spends[i].sb, "pkh") :
             LET prim == spends[i].sb.witness.prims[k]
             IN  Cardinality({p \in prim.hashes :
                   spends[i].sb.witness.sigs[p] = SigHash(spends[i].sb)}) >= prim.m]_signingVars

(* Every signWith returns or throws: the owner cannot keep the loop going  *)
(* with a bounded number of calls, and no session waits for another.       *)
SessionsEnd == \A c \in Sessions : (c \in Running) ~> (c \notin Running)

=============================================================================
