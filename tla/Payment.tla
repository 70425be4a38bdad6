-------------------------------- MODULE Payment --------------------------------
(***************************************************************************)
(* What simpleSpend and its variants promise of one payment, whatever the  *)
(* notes, their order, and how a fee is found: the recipient gets the      *)
(* gift, the fee is the one asked for, the rest comes back to the payer,   *)
(* and a payment is refused for a reason only.  TxBuilderPays shows that   *)
(* TxBuilder keeps the promise.                                            *)
(***************************************************************************)
EXTENDS Integers, Functions

CONSTANTS
  Locks,
  Payments,       \* notes, to, gift, override, refund, preimage of each
  NoPayment,
  NoOverride,     \* the override of a payment that leaves the fee to be found
  NoPreimage,     \* the preimage of a payment that shows none
  V0Names,        \* notes that cannot be spent
  MostFee(_)      \* what a payment costs if it spends all its notes

VARIABLES
  status,    \* "open", "paying", "paid" or "refused"
  payment,   \* the one under way
  spent,     \* names of the notes that were spent
  fee,
  payout     \* what each lock is given

vars == <<status, payment, spent, fee, payout>>

NamesIn(p) == {p.notes[i].name : i \in DOMAIN p.notes}
Worth(p, names) ==
  SumFunction([i \in DOMAIN p.notes |->
                 IF p.notes[i].name \in names THEN p.notes[i].assets ELSE 0])

(* A payment to oneself is change. *)
GivenAway(p) == IF p.to = p.refund THEN 0 ELSE p.gift

Init ==
  /\ status = "open" /\ payment = NoPayment
  /\ spent = {} /\ fee = 0 /\ payout = [l \in Locks |-> 0]

Begin ==
  /\ status = "open"
  /\ \/ status' = "paying" /\ payment' \in Payments /\ payment'.gift > 0
     \/ status' = "refused" /\ (\E p \in Payments : p.gift = 0) /\ UNCHANGED payment
  /\ UNCHANGED <<spent, fee, payout>>

Ended(how) == status' = how /\ payment' = NoPayment

(* Any of the notes may be spent; the fee is the one asked for, if one is. *)
Pay ==
  /\ Ended("paid")
  /\ spent' \in SUBSET NamesIn(payment)
  /\ fee' \in IF payment.override = NoOverride THEN 0..Worth(payment, spent')
             ELSE {payment.override}
  /\ LET change == Worth(payment, spent') - fee' - GivenAway(payment)
     IN  /\ change >= 0
         /\ payout' = [l \in Locks |-> IF l = payment.refund THEN change
                                      ELSE IF l = payment.to THEN payment.gift ELSE 0]

Asked(p) == IF p.override = NoOverride THEN MostFee(p) ELSE p.override

Refuse ==
  /\ Ended("refused")
  /\ \/ NamesIn(payment) \cap V0Names # {}
     \/ payment.preimage # NoPreimage
     \/ Worth(payment, NamesIn(payment)) < payment.gift
     \/ Worth(payment, NamesIn(payment)) < GivenAway(payment) + Asked(payment)
  /\ UNCHANGED <<spent, fee, payout>>

Settle == status = "paying" /\ (Pay \/ Refuse)

Next == Begin \/ Settle

(* A payment that has begun comes to an end. *)
Settles == status = "paying" ~> status # "paying"

Spec == Init /\ [][Next]_vars /\ Settles
=============================================================================
