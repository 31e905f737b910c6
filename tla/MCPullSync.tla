----------------------------- MODULE MCPullSync -----------------------------
(* An instance of PullSync for TLC: a triangle with one more server, whose  *)
(* links are as slow as the way around them or faster.                      *)
EXTENDS PullSync

MCTopology == <<[a |-> 0, b |-> 1, delay |-> 2], [a |-> 1, b |-> 2, delay |-> 1],
                [a |-> 0, b |-> 2, delay |-> 1], [a |-> 1, b |-> 3, delay |-> 2]>>
=============================================================================
