-------------------------- MODULE MCDispatchOrder --------------------------
(* Model-checking instance of DispatchOrder: two flood queues, SCP served  *)
(* before transactions, and a window of two messages.                      *)
EXTENDS DispatchOrder

MCClassOrder == <<"SCP", "TX">>
MCTxClasses == {"TX"}
MCNoUpgrades == <<>>
=============================================================================
