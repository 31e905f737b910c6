---------------------------- MODULE MCLtBlockSync ----------------------------
(* An instance of LtBlockSync for TLC: two servers, of which one starts     *)
(* blocks when it can and the other when its timer fires.                   *)
EXTENDS LtBlockSync

MCTopology == <<[a |-> 0, b |-> 1, delay |-> 1]>>
MCForceSynchronize == [s \in Servers |-> IF s = 0 THEN 0 ELSE 3]
MCPayload == {}
=============================================================================
