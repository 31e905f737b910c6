------------------------------- MODULE LtCode -------------------------------
(***************************************************************************)
(* The data that package lt works on (lt/transaction.go, the Codeword type *)
(* of lt/encoder.go).  A block of data is the set of its one-bits, so that *)
(* the XOR of the code is the symmetric difference of sets, and a salted   *)
(* hash is an arbitrary function of the data: two transactions may collide *)
(* and the XOR of transactions may itself look like a transaction, unless  *)
(* an assumption says otherwise.                                           *)
(***************************************************************************)
EXTENDS Integers, FiniteSets

CONSTANTS
  Bits,        \* bit positions of a block of transaction data
  Tx,          \* the transactions of the system, each a block of data
  Hashes,      \* salted hashes (uint32 in the code)
  SaltedHash   \* what siphash returns, truncated, for every block of data

Data == SUBSET Bits

ASSUME LtCodeAssumption ==
  /\ IsFiniteSet(Bits)
  /\ Tx \subseteq Data
  /\ IsFiniteSet(Tx)
  /\ SaltedHash \in [Data -> Hashes]

Zero == {}

XOR(d, e) == (d \ e) \cup (e \ d)

(***************************************************************************)
(* The XOR of f[x] for all x in S: a bit is set iff an odd number of the   *)
(* blocks has it.  This is what a loop that XORs one block after another   *)
(* into an accumulator computes, in whatever order it visits them.         *)
(***************************************************************************)
Parity(f, S, b) == Cardinality({x \in S : b \in f[x]}) % 2
XorAll(f, S) == {b \in Bits : Parity(f, S, b) = 1}

AtMostOne(S) == \A x, y \in S : x = y

(***************************************************************************)
(* A codeword carries the XOR of the transactions put into it and their    *)
(* salted hashes.  No two transactions of an encoder's window share a      *)
(* salted hash (Encoder.AddTransaction refuses the second one), so the     *)
(* codewords that can reach a decoder are those over such sets.            *)
(***************************************************************************)
HashesOf(T) == {SaltedHash[t] : t \in T}

CollisionFree(T) == \A t, u \in T : SaltedHash[t] = SaltedHash[u] => t = u

Identity == [d \in Data |-> d]

CodewordOver(T) == [symbol |-> XorAll(Identity, T), members |-> HashesOf(T)]

Codeword == [symbol : Data, members : SUBSET Hashes]

EncodableSets == {T \in SUBSET Tx : T # {} /\ CollisionFree(T)}
=============================================================================
