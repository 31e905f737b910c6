---------------------------- MODULE MCBlockSync ----------------------------
(* An instance of BlockSync for TLC: three servers in a line, of which the  *)
(* middle one floods, two shards over eight hashes with transactions at     *)
(* their boundaries, which fall into other shards on the second link.       *)
EXTENDS BlockSync

CONSTANTS t1, t2, t3

MCTopology == <<[a |-> 0, b |-> 1, delay |-> 0], [a |-> 1, b |-> 2, delay |-> 0]>>
MCHash ==
  [l \in Links |-> [t \in Tx |->
     IF l = <<0, 1>> THEN (IF t = t1 THEN 2 ELSE IF t = t2 THEN 7 ELSE 3)
                     ELSE (IF t = t1 THEN 7 ELSE IF t = t2 THEN 3 ELSE 2)]]
MCOrigins == [t \in Tx |-> IF t = t1 THEN {0} ELSE {1, 2}]
=============================================================================
