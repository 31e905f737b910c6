------------------------------ MODULE Topology ------------------------------
(***************************************************************************)
(* The network of a simulation: loadTopology reads connections from a file *)
(* (topology.go, the same in newsim and simulator), and main connects the  *)
(* servers one connection after the other.                                 *)
(***************************************************************************)
EXTENDS Integers, Sequences, SequencesExt, FiniteSetsExt

CONSTANT topology   \* what loadTopology returns, in the order of the file

Connection == [a : Nat, b : Nat, delay : Nat]
Ends(c) == {c.a, c.b}

(* Files that list each connection once: a second one would put the peer    *)
(* into the list of peers twice.                                            *)
Topologies ==
  {t \in Seq(Connection) :
     /\ \A i \in DOMAIN t : t[i].a # t[i].b
     /\ \A i, j \in DOMAIN t : Ends(t[i]) = Ends(t[j]) => i = j}

ASSUME TopologyAssumption == topology \in Topologies

(* Servers are numbered from 0 to the largest number in the file.           *)
N == Max({0} \cup UNION {Ends(c) : c \in ToSet(topology)}) + 1
Servers == 0..N - 1

(* The peers in s.peers, in the order of the file.                          *)
PeerList(s) ==
  FlattenSeq([i \in DOMAIN topology |->
    IF s \in Ends(topology[i]) THEN <<CHOOSE p \in Ends(topology[i]) : p # s>> ELSE <<>>])

(* The delay of the handler of s for p.                                     *)
Delays ==
  [s \in Servers |-> [p \in Servers |->
     IF \E c \in ToSet(topology) : Ends(c) = {s, p}
     THEN (CHOOSE c \in ToSet(topology) : Ends(c) = {s, p}).delay ELSE 0]]
=============================================================================
