----------------------------- MODULE NodeRelay -----------------------------
(***************************************************************************)
(* How a node spreads transactions (node/controller.go, the newTransaction *)
(* cases of node/sender.go and node/receiver.go, the generator of          *)
(* node/main.go).  Every peer has a sender and a receiver, each with a     *)
(* channel of new transactions; receivers report what they decode through  *)
(* one channel to the controller, and the controller relays each           *)
(* transaction to the sender and the receiver of every peer, also of the   *)
(* one it came from.  All channels are bounded and all these operations    *)
(* block, so a controller that waits for a receiver and a receiver that    *)
(* waits for the controller can wait for each other.                       *)
(*                                                                         *)
(* The codewords themselves are left out: a receiver may decode, at a      *)
(* codeword or at a transaction that it is told of, any transactions that  *)
(* its remote end can have put into codewords and its decoder does not     *)
(* know.  A decoder forgets nothing here (its memory, 262144 transactions, *)
(* is longer than the run), and an encoder is the set of the transactions  *)
(* it was given; LtDecoder and LtEncoder model what the two do inside.     *)
(***************************************************************************)
EXTENDS Integers, Sequences, FiniteSets, SequencesExt

CONSTANTS
  Peers,       \* the peers that connect
  Local,       \* transactions generated at this node
  Remote,      \* transactions that other nodes have
  LocalCap,    \* capacity of localTransaction (1000)
  DecodedCap,  \* capacity of decodedTransaction (1000)
  SenderCap,   \* capacity of a peer's senderNewTx (100)
  ReceiverCap  \* capacity of a peer's receiverNewTx (100)

(* A transaction has 128 bytes; the two kinds differ.                       *)
ASSUME NodeRelayAssumption ==
  /\ IsFiniteSet(Local) /\ IsFiniteSet(Remote) /\ Local \cap Remote = {}
  /\ {LocalCap, DecodedCap, SenderCap, ReceiverCap} \subseteq Nat \ {0}

Tx == Local \cup Remote
Decoded == [tx : Tx, expired : BOOLEAN]   \* ldpc.DecodedTransaction

(* What the controller still has to put: into channel end of peer, tx.      *)
Put == [peer : Peers, end : {"sender", "receiver"}, tx : Tx]

VARIABLES
  localTransaction, decodedTransaction,   \* channels of the controller
  generated,     \* local transactions generated so far
  connected,     \* peers whose goroutines run
  peers,         \* controller.peers, in order of registration
  puts,          \* what is left of the case the controller is in
  senderNewTx, receiverNewTx,   \* channels of each peer
  encoded,       \* transactions given to the peer's encoder
  known,         \* transactions the peer's decoder has
  buf,           \* decoded transactions its receiver has still to report
  relays,        \* history: how often the controller took a transaction
  toSend         \* history: what it took unexpired since a peer registered

chanVars == <<senderNewTx, receiverNewTx>>
controllerVars == <<peers, puts, relays, toSend>>
peerVars == <<connected, encoded, known, buf>>
vars == <<localTransaction, decodedTransaction, generated, controllerVars, chanVars, peerVars>>

(* Types, and the capacities that newPeer and main give the channels; a     *)
(* peer is registered once.                                                 *)
TypeOK ==
  /\ localTransaction \in Seq(Local) /\ Len(localTransaction) <= LocalCap
  /\ decodedTransaction \in Seq(Decoded) /\ Len(decodedTransaction) <= DecodedCap
  /\ generated \subseteq Local
  /\ connected \subseteq Peers
  /\ peers \in Seq(connected) /\ IsInjective(peers)
  /\ puts \in Seq(Put)
  /\ {senderNewTx, receiverNewTx} \subseteq [Peers -> Seq(Tx)]
  /\ \A p \in Peers : Len(senderNewTx[p]) <= SenderCap /\ Len(receiverNewTx[p]) <= ReceiverCap
  /\ {encoded, known, toSend} \subseteq [Peers -> SUBSET Tx]
  /\ buf \in [Peers -> Seq(Decoded)]
  /\ relays \in [Tx -> Nat]

Init ==
  /\ localTransaction = <<>> /\ decodedTransaction = <<>>
  /\ generated = {}
  /\ connected = {}
  /\ peers = <<>>
  /\ puts = <<>>
  /\ senderNewTx = [p \in Peers |-> <<>>] /\ receiverNewTx = [p \in Peers |-> <<>>]
  /\ encoded = [p \in Peers |-> {}]
  /\ known = [p \in Peers |-> {}]
  /\ buf = [p \in Peers |-> <<>>]
  /\ relays = [t \in Tx |-> 0]
  /\ toSend = [p \in Peers |-> {}]

-----------------------------------------------------------------------------
(* The generator of main.                                                   *)
Generate(t) ==
  /\ t \in Local \ generated
  /\ Len(localTransaction) < LocalCap
  /\ localTransaction' = Append(localTransaction, t)
  /\ generated' = generated \cup {t}
  /\ UNCHANGED <<decodedTransaction, controllerVars, chanVars, peerVars>>

(* handleConn and newPeer start the goroutines of a peer; then handleConn   *)
(* waits until the controller takes the new peer.  A peer is told nothing   *)
(* of the past.                                                             *)
Connect(p) ==
  /\ p \notin connected
  /\ connected' = connected \cup {p}
  /\ UNCHANGED <<localTransaction, decodedTransaction, generated, controllerVars, chanVars,
                 encoded, known, buf>>

NotifyAll(p, t, expired) ==   \* mutant of Notify: expired ones are sent as well
  <<[peer |-> p, end |-> "sender", tx |-> t], [peer |-> p, end |-> "receiver", tx |-> t]>>

(* controller.loop, which takes one case of its select at a time.  The puts *)
(* of a case are notifyUnexpiredTransaction or notifyExpiredTransaction for *)
(* each peer in turn.                                                       *)
Notify(p, t, expired) ==
  LET put(end) == [peer |-> p, end |-> end, tx |-> t] IN
  IF expired THEN <<put("receiver")>> ELSE <<put("sender"), put("receiver")>>

Relay(t, expired) ==
  /\ puts' = FlattenSeq([i \in 1..Len(peers) |-> Notify(peers[i], t, expired)])
  /\ relays' = [relays EXCEPT ![t] = @ + 1]
  /\ toSend' = [p \in Peers |-> IF p \in Range(peers) /\ ~expired
                                THEN toSend[p] \cup {t} ELSE toSend[p]]

TakeLocal ==
  /\ puts = <<>>
  /\ localTransaction # <<>>
  /\ Relay(Head(localTransaction), FALSE)
  /\ localTransaction' = Tail(localTransaction)
  /\ UNCHANGED <<decodedTransaction, generated, peers, chanVars, peerVars>>

TakeDecoded ==
  /\ puts = <<>>
  /\ decodedTransaction # <<>>
  /\ Relay(Head(decodedTransaction).tx, Head(decodedTransaction).expired)
  /\ decodedTransaction' = Tail(decodedTransaction)
  /\ UNCHANGED <<localTransaction, generated, peers, chanVars, peerVars>>

TakeNewPeer(p) ==
  /\ puts = <<>>
  /\ p \in connected \ Range(peers)
  /\ peers' = Append(peers, p)
  /\ UNCHANGED <<localTransaction, decodedTransaction, generated, puts, relays, toSend,
                 chanVars, peerVars>>

PutNext ==
  /\ puts # <<>>
  /\ LET put == Head(puts) IN
       IF put.end = "sender"
       THEN /\ Len(senderNewTx[put.peer]) < SenderCap
            /\ senderNewTx' = [senderNewTx EXCEPT ![put.peer] = Append(@, put.tx)]
            /\ UNCHANGED receiverNewTx
       ELSE /\ Len(receiverNewTx[put.peer]) < ReceiverCap
            /\ receiverNewTx' = [receiverNewTx EXCEPT ![put.peer] = Append(@, put.tx)]
            /\ UNCHANGED senderNewTx
  /\ puts' = Tail(puts)
  /\ UNCHANGED <<localTransaction, decodedTransaction, generated, peers, relays, toSend, peerVars>>

EncodeInReceiver(p) ==   \* mutant of Encode: sender and receiver share a goroutine
  /\ buf[p] = <<>>
  /\ senderNewTx[p] # <<>>
  /\ encoded' = [encoded EXCEPT ![p] = @ \cup {Head(senderNewTx[p])}]
  /\ senderNewTx' = [senderNewTx EXCEPT ![p] = Tail(@)]
  /\ UNCHANGED <<localTransaction, decodedTransaction, generated, controllerVars, receiverNewTx,
                 connected, known, buf>>

(* sender.loop.                                                             *)
Encode(p) ==
  /\ senderNewTx[p] # <<>>
  /\ encoded' = [encoded EXCEPT ![p] = @ \cup {Head(senderNewTx[p])}]
  /\ senderNewTx' = [senderNewTx EXCEPT ![p] = Tail(@)]
  /\ UNCHANGED <<localTransaction, decodedTransaction, generated, controllerVars, receiverNewTx,
                 connected, known, buf>>

-----------------------------------------------------------------------------
(* Not code of this node but what is assumed of the others: what the remote *)
(* end can put into codewords is what other nodes have (Remote), and what   *)
(* this node has sent to it or to another peer, from which it can come      *)
(* round.  Only what the decoder does not know can be decoded.              *)
Decodable(p) == (Remote \cup UNION {encoded[q] : q \in Peers}) \ known[p]

DecodesForgetting(p, base, new) ==   \* mutant of Decodes: what is decoded is not stored
  /\ known' = [known EXCEPT ![p] = base]
  /\ \E order \in SetToSeqs(new), expired \in SUBSET new :
       buf' = [buf EXCEPT ![p] =
                 [i \in 1..Len(order) |-> [tx |-> order[i], expired |-> order[i] \in expired]]]

(* The decoder of p, which has the transactions in base, decodes those in   *)
(* new, in some order, some of them from expired codewords.                 *)
Decodes(p, base, new) ==
  /\ known' = [known EXCEPT ![p] = base \cup new]
  /\ \E order \in SetToSeqs(new), expired \in SUBSET new :
       buf' = [buf EXCEPT ![p] =
                 [i \in 1..Len(order) |-> [tx |-> order[i], expired |-> order[i] \in expired]]]

DecodeCodeword(p) ==
  /\ p \in connected
  /\ buf[p] = <<>>
  /\ \E new \in SUBSET Decodable(p) : new # {} /\ Decodes(p, known[p], new)
  /\ UNCHANGED <<localTransaction, decodedTransaction, generated, controllerVars, chanVars,
                 connected, encoded>>

AddTransactionAtOnce(p) ==   \* mutant of AddTransaction: also while reporting
  LET t == Head(receiverNewTx[p]) IN
  /\ receiverNewTx[p] # <<>>
  /\ known' = [known EXCEPT ![p] = @ \cup {t}]
  /\ receiverNewTx' = [receiverNewTx EXCEPT ![p] = Tail(@)]
  /\ UNCHANGED <<localTransaction, decodedTransaction, generated, controllerVars, senderNewTx,
                 connected, encoded, buf>>

AddTransaction(p) ==
  LET t == Head(receiverNewTx[p]) IN
  /\ receiverNewTx[p] # <<>>
  /\ buf[p] = <<>>
  /\ IF t \in known[p]
     THEN UNCHANGED <<known, buf>>
     ELSE \E new \in SUBSET (Decodable(p) \ {t}) : Decodes(p, known[p] \cup {t}, new)
  /\ receiverNewTx' = [receiverNewTx EXCEPT ![p] = Tail(@)]
  /\ UNCHANGED <<localTransaction, decodedTransaction, generated, controllerVars, senderNewTx,
                 connected, encoded>>

Report(p) ==
  /\ buf[p] # <<>>
  /\ Len(decodedTransaction) < DecodedCap
  /\ decodedTransaction' = Append(decodedTransaction, Head(buf[p]))
  /\ buf' = [buf EXCEPT ![p] = Tail(@)]
  /\ UNCHANGED <<localTransaction, generated, controllerVars, chanVars, connected, encoded, known>>

Next ==
  \/ \E t \in Local : Generate(t)
  \/ \E p \in Peers : Connect(p) \/ TakeNewPeer(p)
  \/ TakeLocal \/ TakeDecoded \/ PutNext
  \/ \E p \in Peers : Encode(p) \/ DecodeCodeword(p) \/ AddTransaction(p) \/ Report(p)

Spec == Init /\ [][Next]_vars

(* The controller and the goroutines of the peers run when they can; Go     *)
(* chooses at random among the ready cases of a select.  Nothing forces a   *)
(* peer to connect, a transaction to be generated or a codeword to decode.  *)
Fairness ==
  /\ SF_vars(TakeLocal) /\ SF_vars(TakeDecoded) /\ WF_vars(PutNext)
  /\ \A p \in Peers :
       /\ SF_vars(TakeNewPeer(p)) /\ WF_vars(Encode(p))
       /\ SF_vars(AddTransaction(p)) /\ WF_vars(Report(p))

FairSpec == Spec /\ Fairness

-----------------------------------------------------------------------------
(* The controller waits for the receiver of p, which waits for the          *)
(* controller.                                                              *)
WedgedBy(p) ==
  /\ puts # <<>>
  /\ Head(puts).peer = p /\ Head(puts).end = "receiver"
  /\ Len(receiverNewTx[p]) = ReceiverCap
  /\ buf[p] # <<>>
  /\ Len(decodedTransaction) = DecodedCap

Wedged == \E p \in Peers : WedgedBy(p)

(* Once the put of controller.loop and the put of receiver.decode wait for  *)
(* each other they do for ever, whatever the others do: neither channel is  *)
(* ever drained again.                                                      *)
WedgeIsPermanent == [][Wedged => Wedged']_vars

(* And this is the only way for the node to stop relaying: otherwise every  *)
(* transaction generated or reported is relayed to all peers registered,    *)
(* and every peer that connects is registered.                              *)
Settled ==
  /\ localTransaction = <<>> /\ decodedTransaction = <<>> /\ puts = <<>>
  /\ \A p \in Peers : senderNewTx[p] = <<>> /\ receiverNewTx[p] = <<>> /\ buf[p] = <<>>
  /\ connected = Range(peers)

OnlyWedgeStops == []<>Settled \/ <>Wedged

(* Nothing is skipped and nothing is forwarded that should not be: when the *)
(* controller is back at its select, every transaction that it took         *)
(* unexpired while p was registered is with the encoder of p or on the way, *)
(* and no other is; and the decoder of p has it, or is about to.            *)
RelayExact ==
  puts = <<>> =>
    \A p \in Peers :
      /\ encoded[p] \cup Range(senderNewTx[p]) = toSend[p]
      /\ toSend[p] \subseteq known[p] \cup Range(receiverNewTx[p])

(* Echoes die out: a transaction can come back to the node that sent it,    *)
(* because notifyUnexpiredTransaction tells the sender before the receiver, *)
(* but the controller takes it at most once per peer (and once more if it   *)
(* was generated here).                                                     *)
EchoBounded ==
  \A t \in Tx : relays[t] <= Cardinality(connected) + (IF t \in Local THEN 1 ELSE 0)
=============================================================================
