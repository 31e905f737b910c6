------------------------------ MODULE NodeLoss ------------------------------
(***************************************************************************)
(* The loss feedback between two peers of a node (node/sender.go,          *)
(* node/receiver.go, newPeer of node/controller.go).  A receiver that      *)
(* gives up on codewords hands their number to its own node's sender       *)
(* (ourLoss), which reports it to the peer in the next codeword it sends;  *)
(* the peer's receiver hands the report to the peer's sender (peerLoss),   *)
(* which raises its codeword rate.  Each of the two nodes has four         *)
(* goroutines: loop and sendCodewords (sender), receive and decode         *)
(* (receiver), joined by Go channels and one TCP connection.               *)
(*                                                                         *)
(* decode also waits for a fifth goroutine, the controller of its node, to *)
(* take the transactions that it decodes.  Transactions and the controller *)
(* are left out: how long decode waits for it is open here, and NodeRelay  *)
(* shows in which situation it waits for ever.                             *)
(*                                                                         *)
(* A codeword is the Loss it carries.  Whether it is decoded by the time   *)
(* it expires is a choice, so rxWindow is a number of codewords; each node *)
(* may lose budget of them.  Rates and credits are integers: CodewordCost  *)
(* stands for the 1.0 of credit that a codeword costs.  The goroutines     *)
(* sendCodewords and receive, with the connection between them, are a pipe *)
(* from txCwCh to the peer's cwCh; what they hold themselves only makes it *)
(* longer.                                                                 *)
(***************************************************************************)
EXTENDS Integers, Sequences, SequencesExt

CONSTANTS
  Node,           \* the two nodes
  Peer,           \* the other one
  LossCap,        \* capacity of peerLoss and ourLoss (100)
  CwCap,          \* capacity of txCwCh and cwCh (1000)
  CodewordCost,   \* credit that a codeword costs
  InitRate, MinRate, Inc, Dec,   \* cwRate at first, its floor, its steps
  Budget,         \* how many codewords each node may lose (bound)
  MaxWindow       \* longest rxWindow (bound)

ASSUME NodeLossAssumption ==
  /\ Peer \in [Node -> Node]
  /\ \A n \in Node : Peer[n] # n /\ Peer[Peer[n]] = n
  /\ {LossCap, CwCap, CodewordCost, InitRate, MinRate, Inc, Dec, MaxWindow} \subseteq Nat
  /\ Budget \in [Node -> Nat]
  /\ LossCap > 0 /\ CwCap > 0 /\ CodewordCost > 0
  /\ InitRate >= MinRate /\ MinRate > 0   \* main raises initRate to minRate

VARIABLES
  cwRate, credit, accumLoss,   \* fields of the sender
  sending,      \* the sender is in the loop of its sendTicker case
  peerLoss, ourLoss, txCwCh, cwCh,   \* the channels
  rxWindow,     \* codewords waiting to be decoded or to expire
  pc,           \* where decode is: select, or waiting in ourLoss, peerLoss, report
  loss,         \* decode's loss
  cwLoss,       \* decode's cw.Loss
  budget,       \* codewords a node may still lose
  applied       \* history: losses of n that its peer's sender has heard of

senderVars == <<cwRate, credit, accumLoss, sending>>
receiverVars == <<rxWindow, pc, loss, cwLoss, budget>>
lossVars == <<senderVars, peerLoss, ourLoss, txCwCh, cwCh, receiverVars, applied>>

(* Types, the capacities that newPeer gives the channels, and the floor of  *)
(* the rate in sender.loop.                                                 *)
LossTypeOK ==
  /\ {cwRate, credit, accumLoss, rxWindow, loss, cwLoss, budget, applied}
       \subseteq [Node -> Nat]
  /\ sending \in [Node -> BOOLEAN]
  /\ pc \in [Node -> {"select", "ourLoss", "peerLoss", "report"}]
  /\ {peerLoss, ourLoss, txCwCh, cwCh} \subseteq [Node -> Seq(Nat)]
  /\ \A n \in Node :
       /\ cwRate[n] >= MinRate
       /\ Len(peerLoss[n]) <= LossCap /\ Len(ourLoss[n]) <= LossCap
       /\ Len(txCwCh[n]) <= CwCap /\ Len(cwCh[n]) <= CwCap
       /\ rxWindow[n] <= MaxWindow

Empty == [n \in Node |-> <<>>]
Zeros == [n \in Node |-> 0]

LossInit ==
  /\ cwRate = [n \in Node |-> InitRate]
  /\ credit = Zeros
  /\ accumLoss = Zeros
  /\ sending = [n \in Node |-> FALSE]
  /\ peerLoss = Empty /\ ourLoss = Empty
  /\ txCwCh = Empty /\ cwCh = Empty
  /\ rxWindow = Zeros
  /\ pc = [n \in Node |-> "select"]
  /\ loss = Zeros
  /\ cwLoss = Zeros
  /\ budget = Budget
  /\ applied = Zeros

-----------------------------------------------------------------------------
(* sender.loop: one case of its select is taken at a time.                  *)

HearPeerLoss(n) ==
  /\ ~sending[n]
  /\ peerLoss[n] # <<>>
  /\ cwRate' = [cwRate EXCEPT ![n] = @ + Inc * Head(peerLoss[n])]
  /\ peerLoss' = [peerLoss EXCEPT ![n] = Tail(@)]
  /\ applied' = [applied EXCEPT ![Peer[n]] = @ + Head(peerLoss[n])]
  /\ UNCHANGED <<credit, accumLoss, sending, ourLoss, txCwCh, cwCh, receiverVars>>

HearOurLoss(n) ==
  /\ ~sending[n]
  /\ ourLoss[n] # <<>>
  /\ accumLoss' = [accumLoss EXCEPT ![n] = @ + Head(ourLoss[n])]
  /\ ourLoss' = [ourLoss EXCEPT ![n] = Tail(@)]
  /\ UNCHANGED <<cwRate, credit, sending, peerLoss, txCwCh, cwCh, receiverVars, applied>>

SendTick(n) ==
  /\ ~sending[n]
  /\ credit' = [credit EXCEPT ![n] = @ + cwRate[n]]
  /\ sending' = [sending EXCEPT ![n] = credit'[n] >= CodewordCost]
  /\ UNCHANGED <<cwRate, accumLoss, peerLoss, ourLoss, txCwCh, cwCh, receiverVars, applied>>

LoweredFreely(r) == r - Dec   \* mutant of Lowered: no floor

(* An iteration of the loop "for s.credit >= 1.0": the codeword goes to     *)
(* txCwCh if there is room; otherwise it is dropped and its loss report     *)
(* is kept for the next one.                                                *)
Lowered(r) == IF r - Dec < MinRate THEN MinRate ELSE r - Dec

Spend(n) ==
  /\ sending[n]
  /\ credit' = [credit EXCEPT ![n] = @ - CodewordCost]
  /\ sending' = [sending EXCEPT ![n] = credit'[n] >= CodewordCost]

PutCodewordUnreported(n) ==   \* mutant of PutCodeword: the loss stays behind
  /\ txCwCh' = [txCwCh EXCEPT ![n] = Append(@, 0)]
  /\ cwRate' = [cwRate EXCEPT ![n] = Lowered(@)]
  /\ UNCHANGED accumLoss

PutCodeword(n) ==
  /\ txCwCh' = [txCwCh EXCEPT ![n] = Append(@, accumLoss[n])]
  /\ accumLoss' = [accumLoss EXCEPT ![n] = 0]
  /\ cwRate' = [cwRate EXCEPT ![n] = Lowered(@)]

DropCodewordAndLoss(n) ==   \* mutant of DropCodeword: the report goes too
  /\ accumLoss' = [accumLoss EXCEPT ![n] = 0]
  /\ UNCHANGED <<txCwCh, cwRate>>

DropCodeword(n) == UNCHANGED <<txCwCh, accumLoss, cwRate>>

ProduceCodeword(n) ==
  /\ Spend(n)
  /\ IF Len(txCwCh[n]) < CwCap THEN PutCodeword(n) ELSE DropCodeword(n)
  /\ UNCHANGED <<peerLoss, ourLoss, cwCh, receiverVars, applied>>

(* receive of p: it waits until cwCh has room.                              *)
Receive(p, cw) ==
  /\ Len(cwCh[p]) < CwCap
  /\ cwCh' = [cwCh EXCEPT ![p] = Append(@, cw)]

(* sendCodewords of n, the TCP connection, which neither loses nor reorders *)
(* anything, and receive of the peer: a codeword leaves txCwCh when there   *)
(* is room at the other end.                                                *)
CarryCodeword(n) ==
  /\ txCwCh[n] # <<>>
  /\ Receive(Peer[n], Head(txCwCh[n]))
  /\ txCwCh' = [txCwCh EXCEPT ![n] = Tail(@)]
  /\ UNCHANGED <<senderVars, peerLoss, ourLoss, receiverVars, applied>>

-----------------------------------------------------------------------------
(* receiver.decode.  A codeword arrives: the oldest codewords that have     *)
(* timed out leave rxWindow, and those of them not decoded are the loss.    *)
TakeCodeword(n) ==
  \E expired \in 0..rxWindow[n] : \E lost \in 0..expired :
    /\ pc[n] = "select"
    /\ cwCh[n] # <<>>
    /\ lost <= budget[n]
    /\ rxWindow[n] - expired < MaxWindow
    /\ budget' = [budget EXCEPT ![n] = @ - lost]
    /\ rxWindow' = [rxWindow EXCEPT ![n] = @ - expired]
    /\ loss' = [loss EXCEPT ![n] = lost]
    /\ cwLoss' = [cwLoss EXCEPT ![n] = Head(cwCh[n])]
    /\ cwCh' = [cwCh EXCEPT ![n] = Tail(@)]
    /\ pc' = [pc EXCEPT ![n] = "ourLoss"]
    /\ UNCHANGED <<senderVars, peerLoss, ourLoss, txCwCh, applied>>

(* r.ourLoss <- loss, which waits for room.                                 *)
TellOurLoss(n) ==
  /\ pc[n] = "ourLoss"
  /\ Len(ourLoss[n]) < LossCap
  /\ ourLoss' = [ourLoss EXCEPT ![n] = Append(@, loss[n])]
  /\ loss' = [loss EXCEPT ![n] = 0]
  /\ pc' = [pc EXCEPT ![n] = "peerLoss"]
  /\ UNCHANGED <<senderVars, peerLoss, txCwCh, cwCh, rxWindow, cwLoss, budget, applied>>

(* r.peerLoss <- cw.Loss, if there is any; then the codeword is given to    *)
(* the decoder and enters the window.  Whether transactions are decoded and *)
(* must be reported is a choice.                                            *)
TellPeerLoss(n) ==
  /\ pc[n] = "peerLoss"
  /\ IF cwLoss[n] > 0
     THEN /\ Len(peerLoss[n]) < LossCap
          /\ peerLoss' = [peerLoss EXCEPT ![n] = Append(@, cwLoss[n])]
     ELSE UNCHANGED peerLoss
  /\ cwLoss' = [cwLoss EXCEPT ![n] = 0]
  /\ rxWindow' = [rxWindow EXCEPT ![n] = @ + 1]
  /\ \E next \in {"select", "report"} : pc' = [pc EXCEPT ![n] = next]
  /\ UNCHANGED <<senderVars, ourLoss, txCwCh, cwCh, loss, budget, applied>>

(* The other case of the select: a transaction from the controller, from    *)
(* which the decoder decodes others.                                        *)
TakeNewTransaction(n) ==
  /\ pc[n] = "select"
  /\ pc' = [pc EXCEPT ![n] = "report"]
  /\ UNCHANGED <<senderVars, peerLoss, ourLoss, txCwCh, cwCh, rxWindow, loss, cwLoss, budget, applied>>

(* r.decodedTransaction <- ntx for all that was decoded, in either case:    *)
(* when the controller has taken the last one, decode is back at its select.*)
ReportDecoded(n) ==
  /\ pc[n] = "report"
  /\ pc' = [pc EXCEPT ![n] = "select"]
  /\ UNCHANGED <<senderVars, peerLoss, ourLoss, txCwCh, cwCh, rxWindow, loss, cwLoss, budget, applied>>

LossNext ==
  \E n \in Node :
    \/ HearPeerLoss(n) \/ HearOurLoss(n) \/ SendTick(n) \/ ProduceCodeword(n)
    \/ CarryCodeword(n)
    \/ TakeCodeword(n) \/ TellOurLoss(n) \/ TellPeerLoss(n)
    \/ TakeNewTransaction(n) \/ ReportDecoded(n)

LossSpec == LossInit /\ [][LossNext]_lossVars

(* Every goroutine runs when it can.  A case that is ready at a select time *)
(* and again is taken in the end, because Go chooses among the ready ones   *)
(* at random; SendTick is ready until it is taken.  Nothing is assumed of   *)
(* the controller: neither that it takes what is reported nor that it has   *)
(* new transactions.                                                        *)
LossFairness ==
  \A n \in Node :
    /\ SF_lossVars(HearPeerLoss(n)) /\ SF_lossVars(HearOurLoss(n))
    /\ WF_lossVars(SendTick(n)) /\ WF_lossVars(ProduceCodeword(n)) /\ WF_lossVars(CarryCodeword(n))
    /\ SF_lossVars(TakeCodeword(n)) /\ WF_lossVars(TellOurLoss(n)) /\ WF_lossVars(TellPeerLoss(n))

LossFairSpec == LossSpec /\ LossFairness

-----------------------------------------------------------------------------
Total(s) == FoldSeq(LAMBDA x, y : x + y, 0, s)

(* The losses of n on their way to the sender of its peer, along the whole  *)
(* loop.                                                                    *)
InFlight(n) ==
  LET p == Peer[n] IN
  loss[n] + Total(ourLoss[n]) + accumLoss[n] + Total(txCwCh[n])
    + Total(cwCh[p]) + cwLoss[p] + Total(peerLoss[p])

(* Every codeword lost is reported once: no loss disappears when a codeword *)
(* that would have carried it is dropped, and none is counted twice.        *)
LossConserved == \A n \in Node : budget[n] + InFlight(n) + applied[n] = Budget[n]

(* Full channels of loss reports and of codewords, which close a cycle      *)
(* through both nodes, never stop the reports: every loss of n raises the   *)
(* rate of the peer in the end, unless from some time on the peer's decode  *)
(* waits for its controller.  Whether that of n does makes no difference.   *)
LossesHeard ==
  \A n \in Node : []<>(pc[Peer[n]] # "report") => []<>(applied[n] = Budget[n] - budget[n])
=============================================================================
