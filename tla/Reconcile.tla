------------------------------ MODULE Reconcile ------------------------------
(***************************************************************************)
(* What reconciling two sets promises: one side offers a set of symbols,   *)
(* the other holds one, and the holder finds out, one symbol after         *)
(* another, what only the other has and what only it has itself.  It is    *)
(* done only when it has found all of that, and then stays done until the  *)
(* next pair of sets.                                                      *)
(***************************************************************************)
CONSTANT Symbols

VARIABLES
  offered, held,   \* the two sets
  remote, local,   \* found so far: only offered, only held
  done

vars == <<offered, held, remote, local, done>>

Missing == (offered \ held) \ remote
Surplus == (held \ offered) \ local

Init ==
  /\ offered = {} /\ held = {}
  /\ remote = {} /\ local = {}
  /\ done = FALSE

(* The sets are filled before anything is found.                            *)
Fill(s) ==
  /\ ~done /\ remote = {} /\ local = {}
  /\ \/ offered' = offered \cup {s} /\ UNCHANGED held
     \/ held' = held \cup {s} /\ UNCHANGED offered
  /\ UNCHANGED <<remote, local, done>>

Find(s) ==
  /\ ~done
  /\ \/ s \in Missing /\ remote' = remote \cup {s} /\ UNCHANGED local
     \/ s \in Surplus /\ local' = local \cup {s} /\ UNCHANGED remote
  /\ UNCHANGED <<offered, held, done>>

Finish ==
  /\ Missing = {} /\ Surplus = {}
  /\ done' = TRUE
  /\ UNCHANGED <<offered, held, remote, local>>

Restart ==
  /\ offered' = {} /\ held' = {}
  /\ remote' = {} /\ local' = {}
  /\ done' = FALSE

Next ==
  \/ \E s \in Symbols : Fill(s) \/ Find(s)
  \/ Finish
  \/ Restart

Spec == Init /\ [][Next]_vars
=============================================================================
