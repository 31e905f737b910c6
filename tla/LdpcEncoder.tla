---------------------------- MODULE LdpcEncoder ----------------------------
(***************************************************************************)
(* The encoder of package ldpc (ldpc/encoder.go), beside that of lt.  Both *)
(* keep the same sliding window in the same way.  This one leaves it in    *)
(* place when it produces a codeword: it selects by reservoir sampling     *)
(* into a scratch slice, which a pool keeps between calls, and a window    *)
(* that is empty gives an empty codeword instead of a panic.               *)
(***************************************************************************)
EXTENDS LtEncoder, SequencesExt

VARIABLE package   \* the encoder at work, "lt" or "ldpc"

(* What the loop can leave in selected, which first holds the d oldest      *)
(* transactions of the window w.  It goes on from index midx (which counts  *)
(* from 0) by 1 + floor(log(u) / log(1-W)), any distance as u is random,    *)
(* and puts what it finds there in the place of a random one, until it has  *)
(* left the window.                                                         *)
Reservoir(w, d) ==
  LET at[midx \in d..Len(w)] ==
        IF midx = d
        THEN {SubSeq(w, 1, d)}
        ELSE UNION {{[selected EXCEPT ![r] = w[midx + 1]] : selected \in at[m], r \in 1..d} :
                      m \in d..(midx - 1)}
  IN UNION {at[midx] : midx \in {m \in d..Len(w) : m = d \/ m < Len(w)}}

Symbol(selected) == FoldLeft(XOR, Zero, selected)

(* The degree is capped as in lt; the codeword is made of what is selected. *)
ProduceByReservoir(d) ==
  /\ phase = "idle"
  /\ window # <<>>
  /\ deg' = IF d > Len(window) THEN Len(window) ELSE d
  /\ \E selected \in Reservoir(window, deg') :
       codeword' = [symbol |-> Symbol(selected), members |-> HashesOf(ToSet(selected))]
  /\ phase' = "produced"
  /\ UNCHANGED <<window, hashes, windowSize, shuffleHistory, order>>

ProduceEmpty ==
  /\ phase = "idle"
  /\ window = <<>>
  /\ UNCHANGED encoderVars

ReturnCodeword ==
  /\ phase = "produced"
  /\ phase' = "idle"
  /\ deg' = 0
  /\ codeword' = NoCodeword
  /\ UNCHANGED <<window, hashes, windowSize, shuffleHistory, order>>

NextLdpc ==
  \/ \E ws \in WindowSizes : Reset(ws)
  \/ \E t \in Tx : AddTransactionToWindow(t) \/ RefuseTransaction(t)
  \/ \E d \in 1..(Len(window) + 1) : ProduceByReservoir(d)
  \/ ProduceEmpty
  \/ ReturnCodeword

(* Runs of an encoder of either package.                                    *)
EncodersInit == EncoderInit /\ package \in {"lt", "ldpc"}

EncodersNext ==
  /\ \/ package = "lt" /\ EncoderNext
     \/ package = "ldpc" /\ NextLdpc
  /\ UNCHANGED package

EncodersSpec == EncodersInit /\ [][EncodersNext]_<<encoderVars, package>>

-----------------------------------------------------------------------------
(* What the comment "reservoir sampling" says: whatever the degree, every   *)
(* set of that many transactions of the window can be selected, so that no  *)
(* transaction is left out of the codewords of a given degree.              *)
EverySetDrawn ==
  package = "ldpc" => \A d \in 1..Len(window) :
    {ToSet(selected) : selected \in Reservoir(window, d)} = kSubset(d, InWindow)
=============================================================================
