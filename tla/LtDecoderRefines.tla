-------------------------- MODULE LtDecoderRefines --------------------------
(***************************************************************************)
(* The decoder of package lt, when it remembers every transaction and no   *)
(* two of them share a salted hash, implements LtPeeling.  The history     *)
(* variable content records the transactions put into each codeword, which *)
(* the decoder never sees: it sees their XOR and their salted hashes.      *)
(***************************************************************************)
EXTENDS LtDecoder

VARIABLE content

(* The decoder need not forget, and its codewords are not ambiguous.        *)
Remembers == CollisionFree(Tx) /\ Cardinality(Tx) <= Memory

HInit ==
  /\ Init
  /\ content = [c \in {} |-> {}]

HNext ==
  \/ \E c \in Cw, T \in EncodableSets :
       /\ AddCodeword(c, CodewordOver(T))
       /\ content' = [x \in DOMAIN content \cup {c} |-> IF x = c THEN T ELSE content[x]]
  \/ \E d \in Tx : AddTransaction(d) /\ UNCHANGED content
  \/ DecodeStep /\ UNCHANGED content

HSpec == HInit /\ [][HNext]_<<vars, content>>
HFairSpec == HSpec /\ WF_<<vars, content>>(DecodeStep /\ UNCHANGED content)

(* The transactions that the decoder holds in receivedTransactions.         *)
known == {t \in Tx : Known(SaltedHash[t])}

Peeling == INSTANCE LtPeeling WITH known <- known, content <- content

(* Every run of the decoder is a run of LtPeeling: it learns what some      *)
(* codeword reveals, nothing else, and takes the next call only when no     *)
(* codeword reveals anything more.                                          *)
ImplementsPeeling == Peeling!Spec

(* With the loop of decodeCodewords fair, what can be learnt is learnt.     *)
ImplementsProgress == Peeling!Progress

(* What makes it so: the stubs left in a codeword are the transactions of   *)
(* its content that are unknown, and its symbol is their XOR.               *)
Unpeeled(c) == content[c] \ known

StubsAreUnknown ==
  /\ DOMAIN content = allocated
  /\ \A c \in allocated :
       /\ content[c] \subseteq Tx
       /\ members[c] = HashesOf(Unpeeled(c))
       /\ symbol[c] = XorAll(Identity, Unpeeled(c))
=============================================================================
