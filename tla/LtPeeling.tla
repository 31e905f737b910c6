----------------------------- MODULE LtPeeling -----------------------------
(***************************************************************************)
(* What a peeling decoder that forgets nothing promises, without its stubs,*)
(* queue and flags: of the transactions it was given and the codewords it  *)
(* received, it learns those that codewords reveal one after another, in   *)
(* any order, and it accepts the next input only when no codeword reveals  *)
(* anything new.                                                           *)
(***************************************************************************)
EXTENDS FiniteSets

CONSTANTS
  Tx,   \* the transactions
  Cw    \* identities of codewords

VARIABLES
  known,    \* the transactions the decoder knows
  content   \* the codewords received, each a set of transactions

vars == <<known, content>>

(* Types of the abstract state.                                             *)
TypeOK ==
  /\ known \subseteq Tx
  /\ DOMAIN content \subseteq Cw
  /\ content \in [DOMAIN content -> SUBSET Tx]

Init ==
  /\ known = {}
  /\ content = [c \in {} |-> {}]

(* Codeword c is all that is needed to learn t.                             *)
Reveals(c, t) == content[c] \ known = {t}

Quiescent == \A c \in DOMAIN content, t \in Tx : ~Reveals(c, t)

Receive(c, T) ==
  /\ Quiescent
  /\ c \in Cw \ DOMAIN content
  /\ content' = [x \in DOMAIN content \cup {c} |-> IF x = c THEN T ELSE content[x]]
  /\ UNCHANGED known

Give(t) ==
  /\ Quiescent
  /\ known' = known \cup {t}
  /\ UNCHANGED content

Learn(t) ==
  /\ \E c \in DOMAIN content : Reveals(c, t)
  /\ known' = known \cup {t}
  /\ UNCHANGED content

Next ==
  \/ \E c \in Cw, T \in SUBSET Tx : Receive(c, T)
  \/ \E t \in Tx : Give(t) \/ Learn(t)

Spec == Init /\ [][Next]_vars

(* What can be learnt is learnt.                                            *)
Progress == WF_vars(\E t \in Tx : Learn(t))
=============================================================================
