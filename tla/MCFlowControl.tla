--------------------------- MODULE MCFlowControl ---------------------------
(* Model-checking instance of FlowControl: two flood queues, SCP served    *)
(* before transactions, and a window of two messages.                      *)
EXTENDS FlowControl

MCClassOrder == <<"SCP", "TX">>
MCTxClasses == {"TX"}
MCNoUpgrades == <<>>
MCOneUpgrade == <<1>>
=============================================================================
