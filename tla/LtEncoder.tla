----------------------------- MODULE LtEncoder -----------------------------
(***************************************************************************)
(* The encoder of package lt (lt/encoder.go): a sliding window of          *)
(* transactions, none of which shares its salted hash with another, from   *)
(* which codewords are sampled without replacement.  The sampling shuffles *)
(* the window in place and then undoes the shuffle, because the order of   *)
(* the window decides what is evicted next; it is modelled one swap at a   *)
(* time.                                                                   *)
(***************************************************************************)
EXTENDS LtCode, Sequences

CONSTANT WindowSizes   \* the values windowSize is given

ASSUME WindowSizesAssumption == WindowSizes \subseteq Nat

VARIABLES
  window,           \* Encoder.window
  hashes,           \* Encoder.hashes, the salted hashes in the window
  windowSize,       \* Encoder.windowSize
  shuffleHistory,   \* Encoder.shuffleHistory, positions swapped so far
  deg,              \* produceCodeword: the degree of the codeword
  codeword,         \* produceCodeword: the codeword under construction
  phase,            \* where produceCodeword is
  order             \* history: the accepted transactions still in the window,
                    \* oldest first

encoderVars == <<window, hashes, windowSize, shuffleHistory, deg, codeword, phase, order>>

NoCodeword == [symbol |-> Zero, members |-> {}]

(* The fields of Encoder; the degree of a codeword never exceeds the window *)
(* (the cap in produceCodeword), nor do the positions that are swapped.     *)
EncoderTypeOK ==
  /\ window \in Seq(Tx)
  /\ hashes \subseteq Hashes
  /\ windowSize \in WindowSizes
  /\ shuffleHistory \in Seq(1..Len(window))
  /\ deg \in 0..Len(window)
  /\ codeword \in Codeword
  /\ phase \in {"idle", "sample", "revert"}
  /\ order \in Seq(Tx)

EncoderInit ==
  /\ window = <<>>
  /\ hashes = {}
  /\ windowSize \in WindowSizes
  /\ shuffleHistory = <<>>
  /\ deg = 0
  /\ codeword = NoCodeword
  /\ phase = "idle"
  /\ order = <<>>

Reset(ws) ==
  /\ phase = "idle"
  /\ window' = <<>>
  /\ hashes' = {}
  /\ windowSize' = ws
  /\ order' = <<>>
  /\ UNCHANGED <<shuffleHistory, deg, codeword, phase>>

AddTransactionKeepingHash(t) ==   \* mutant of AddTransactionToWindow: eviction forgets hashes
  LET all == Append(window, t)
      evict == Len(all) > windowSize
  IN
  /\ phase = "idle"
  /\ SaltedHash[t] \notin hashes
  /\ window' = IF evict THEN Tail(all) ELSE all
  /\ hashes' = hashes \cup {SaltedHash[t]}
  /\ order' = IF evict THEN Tail(Append(order, t)) ELSE Append(order, t)
  /\ UNCHANGED <<windowSize, shuffleHistory, deg, codeword, phase>>

(* A transaction whose salted hash is in the window is refused; otherwise   *)
(* it is appended and the window drops its oldest entry when it is too long *)
(* (it never is by more than one: only Reset, which empties it, changes     *)
(* windowSize).                                                             *)
AddTransactionToWindow(t) ==
  LET all == Append(window, t)
      allHashes == hashes \cup {SaltedHash[t]}
  IN
  /\ phase = "idle"
  /\ SaltedHash[t] \notin hashes
  /\ IF Len(all) > windowSize
     THEN /\ window' = Tail(all)
          /\ hashes' = allHashes \ {SaltedHash[Head(all)]}
          /\ order' = Tail(Append(order, t))
     ELSE /\ window' = all
          /\ hashes' = allHashes
          /\ order' = Append(order, t)
  /\ UNCHANGED <<windowSize, shuffleHistory, deg, codeword, phase>>

RefuseTransaction(t) ==
  /\ phase = "idle"
  /\ SaltedHash[t] \in hashes
  /\ UNCHANGED encoderVars

-----------------------------------------------------------------------------
(* produceCodeword(d).  The degree is capped by the length of the window; a *)
(* degree of zero is a panic, which an empty window cannot avoid.           *)

Swap(w, i, j) == [w EXCEPT ![i] = w[j], ![j] = w[i]]

ProduceCodeword(d) ==
  /\ phase = "idle"
  /\ deg' = IF d > Len(window) THEN Len(window) ELSE d
  /\ deg' > 0
  /\ codeword' = NoCodeword
  /\ shuffleHistory' = <<>>
  /\ phase' = "sample"
  /\ UNCHANGED <<window, hashes, windowSize, order>>

SampleFromStart(r) ==   \* mutant of Sample: r is any position
  LET i == Len(shuffleHistory) + 1
      t == window[r]
  IN
  /\ phase = "sample"
  /\ window' = Swap(window, i, r)
  /\ shuffleHistory' = Append(shuffleHistory, r)
  /\ codeword' = [symbol |-> XOR(codeword.symbol, t),
                  members |-> codeword.members \cup {SaltedHash[t]}]
  /\ phase' = IF i = deg THEN "revert" ELSE "sample"
  /\ UNCHANGED <<hashes, windowSize, deg, order>>

(* The i-th turn of the first loop swaps position i with r, any position    *)
(* from i on, and adds the transaction found there to the codeword.         *)
Sample(r) ==
  LET i == Len(shuffleHistory) + 1
      t == window[r]
  IN
  /\ phase = "sample"
  /\ r \in i..Len(window)
  /\ window' = Swap(window, i, r)
  /\ shuffleHistory' = Append(shuffleHistory, r)
  /\ codeword' = [symbol |-> XOR(codeword.symbol, t),
                  members |-> codeword.members \cup {SaltedHash[t]}]
  /\ phase' = IF i = deg THEN "revert" ELSE "sample"
  /\ UNCHANGED <<hashes, windowSize, deg, order>>

RevertForward ==   \* mutant of Revert: swaps undone in the order they were made
  LET i == deg - Len(shuffleHistory) + 1 IN
  /\ phase = "revert"
  /\ window' = Swap(window, i, Head(shuffleHistory))
  /\ shuffleHistory' = Tail(shuffleHistory)
  /\ IF i = deg
     THEN phase' = "idle" /\ deg' = 0 /\ codeword' = NoCodeword
     ELSE UNCHANGED <<phase, deg, codeword>>
  /\ UNCHANGED <<hashes, windowSize, order>>

(* A turn of the second loop, which undoes the last swap not yet undone.    *)
(* The code keeps shuffleHistory as it is; here it is cut short, which      *)
(* stands for the index of the loop.  When it ends the call returns and its *)
(* local variables are gone.                                                *)
Revert ==
  LET i == Len(shuffleHistory) IN
  /\ phase = "revert"
  /\ window' = Swap(window, i, shuffleHistory[i])
  /\ shuffleHistory' = SubSeq(shuffleHistory, 1, i - 1)
  /\ IF i = 1
     THEN phase' = "idle" /\ deg' = 0 /\ codeword' = NoCodeword
     ELSE UNCHANGED <<phase, deg, codeword>>
  /\ UNCHANGED <<hashes, windowSize, order>>

EncoderNext ==
  \/ \E ws \in WindowSizes : Reset(ws)
  \/ \E t \in Tx : AddTransactionToWindow(t) \/ RefuseTransaction(t)
  \/ \E d \in 1..(Len(window) + 1) : ProduceCodeword(d)
  \/ \E r \in 1..Len(window) : Sample(r)
  \/ Revert

-----------------------------------------------------------------------------
InWindow == {window[i] : i \in 1..Len(window)}

(* The set hashes is the set of salted hashes of the window, no two of its  *)
(* entries collide, and the window is no longer than windowSize: what       *)
(* AddTransactionToWindow tests and evicts by agrees with what the window   *)
(* holds, also in the middle of a shuffle.                                  *)
WindowHashed ==
  /\ hashes = HashesOf(InWindow)
  /\ \A i, j \in 1..Len(window) :
       SaltedHash[window[i]] = SaltedHash[window[j]] => i = j
  /\ Len(window) <= windowSize

(* Producing codewords leaves the order of the window alone: between calls  *)
(* it is the order in which the transactions were accepted, so the next one *)
(* evicted is the oldest.                                                   *)
OrderKept == phase = "idle" => window = order

(* A codeword is never sampled from nothing or asked for more than there    *)
(* is, and a finished one is the XOR of as many different transactions as   *)
(* its degree says, all of the window, with the salted hashes of exactly    *)
(* these: it is one of the codewords that LtDecoder is fed.                 *)
WellFormed ==
  /\ phase # "idle" => deg \in 1..Len(window)
  /\ phase \notin {"idle", "sample"} =>
       \E T \in SUBSET InWindow :
         /\ Cardinality(T) = deg
         /\ T \in EncodableSets
         /\ codeword = CodewordOver(T)
=============================================================================
