------------------------------ MODULE LinkFifo ------------------------------
(***************************************************************************)
(* What a network of modules promises: the messages from one module to     *)
(* another arrive one by one, in the order in which they were sent, and    *)
(* only a module that handles an event sends any.                          *)
(***************************************************************************)
EXTENDS Sequences, SequencesExt

CONSTANT Modules

VARIABLE channel   \* messages under way from l[1] to l[2], the next one first

Init == channel = [l \in Modules \X Modules |-> <<>>]

(* Module s sends messages on its links, which then hold rest.              *)
Sends(s, rest) ==
  \A l \in Modules \X Modules :
    IF l[1] = s THEN IsPrefix(rest[l], channel'[l]) ELSE channel'[l] = rest[l]

(* An event that is no message, a timer for instance.                       *)
Act(s) == Sends(s, channel)

Receive(l) ==
  /\ channel[l] # <<>>
  /\ Sends(l[2], [channel EXCEPT ![l] = Tail(@)])

Next ==
  \/ \E s \in Modules : Act(s)
  \/ \E l \in Modules \X Modules : Receive(l)

Spec == Init /\ [][Next]_channel
=============================================================================
