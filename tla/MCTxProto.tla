------------------------------- MODULE MCTxProto -------------------------------
(***************************************************************************)
(* TxProto alone, for the run that shows what a timelock loses.            *)
(***************************************************************************)
EXTENDS TxProto, ProtoSamples
=============================================================================
