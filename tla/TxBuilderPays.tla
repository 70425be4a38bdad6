----------------------------- MODULE TxBuilderPays -----------------------------
(***************************************************************************)
(* TxBuilder, on a builder that is used for one payment, implements        *)
(* Payment.  The spends and the pool are not looked at before the call     *)
(* returns: half way, spends pay out what the fee will take back.          *)
(***************************************************************************)
EXTENDS Outputs

Paid == job = Idle /\ result = "ok" /\ spends # << >>

Refusals ==
  {"Cannot create a transaction with zero gift", "V0 notes not supported",
   "Insufficient funds to pay fee and gift", "Fee pool entry must have refund",
   "preimage does not match any spend condition hax unlock", LockIsHash}

(* Every note is spent, gives and gets back: the most it can cost.         *)
SeedRoom(order) ==
  NoteDataWords(SeedData(order.to, order.include, order.extras))
    + NoteDataWords(SeedData(order.refund, order.include, NoData))

MostFee(order) ==
  LET N == Len(order.notes)
      new == [i \in 1..N |-> NewSpend(order.notes[i].assets, order.refund, order.notes[i].witness)]
  IN  MinFee + Total([i \in 1..N |-> SeedFee(SeedRoom(order))])
        + WitnessFee(Total([i \in 1..N |-> WitnessWords(new[i])]))
        + Total([i \in 1..N |-> MissingUnlocksFee(new[i])])

Promise == INSTANCE Payment WITH
  Payments <- SimpleSpends,
  NoPayment <- NoOrder,
  status <- IF job # Idle THEN "paying" ELSE IF Paid THEN "paid"
            ELSE IF result \in Refusals THEN "refused" ELSE "open",
  payment <- IF job = Idle THEN NoOrder ELSE job.order,
  spent <- IF Paid THEN NamesOf(spends) ELSE {},
  fee <- IF Paid THEN CurFee(spends) ELSE 0,
  payout <- [l \in Locks |-> IF Paid THEN GivenTo(spends, l) ELSE 0]

(* A payment returns with the gift paid in full, the fee that was asked    *)
(* for and all change given back, or throws for want of funds, a note that *)
(* cannot be spent or a preimage (simpleSpendBase, finishSimpleSpend,      *)
(* setFeeAndBalanceRefund).                                                *)
PaysAsPromised == Promise!Init /\ [][Promise!Next]_(Promise!vars)

(* ... and it always does one of the two.                                  *)
ImplementsPayment == PaysAsPromised /\ Promise!Settles
=============================================================================
