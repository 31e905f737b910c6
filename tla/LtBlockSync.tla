----------------------------- MODULE LtBlockSync -----------------------------
(***************************************************************************)
(* The block protocol of package simulator (simulator/node.go under the    *)
(* servers of simulator/module.go) and the discrete event simulator.  Each *)
(* server sends its peers LT codewords over one block of transactions after*)
(* the other; a peer acknowledges every codeword, and the block when it    *)
(* has received more than detectThreshold codewords of it and decoded      *)
(* enough of them.  A server has one decoder for all its peers, and what   *)
(* it decodes it sends to all of them, also to the one it comes from, at   *)
(* the pace of a rate limiter.                                             *)
(*                                                                         *)
(* A codeword stands for the set of transactions it is the XOR of; which   *)
(* one the encoder draws matters only when it is received, and is chosen   *)
(* then.  The decoder peels as LtPeeling does, has memory for all          *)
(* transactions and meets no collisions.                                   *)
(***************************************************************************)
EXTENDS EventQueue, Topology

CONSTANTS
  detectThreshold,
  OverheadNum, OverheadDen,   \* controlOverhead
  LossNum, LossDen,           \* targetCodewordLoss
  forceSynchronize,      \* of each server, 0 for none
  minInterval,           \* rate limiter
  blockArrivalBurst,
  Intervals,             \* bound: time between two block arrivals
  MaxTx,                 \* bound: transactions generated
  Degrees,               \* bound: degrees that the encoder draws at first
  MaxCodewords           \* bound: codewords of a block until single ones follow

Tx == 1..MaxTx

minBlockSize == (detectThreshold * OverheadDen) \div OverheadNum
SendWindow(blockSize) == (blockSize * OverheadNum) \div OverheadDen

(* Without the last two conditions a block might allow no codeword at all.  *)
ASSUME LtBlockSyncAssumption ==
  /\ Modules = Servers /\ Delay = Delays
  /\ OverheadNum \in Nat \ {0} /\ OverheadDen \in Nat \ {0}
  /\ LossNum \in Nat /\ LossDen \in Nat \ {0}
  /\ forceSynchronize \in [Servers -> Nat]
  /\ minInterval \in Nat /\ blockArrivalBurst \in Nat \ {0}
  /\ Intervals \subseteq Nat /\ MaxTx \in Nat
  /\ Degrees \subseteq Nat \ {0} /\ MaxCodewords \in Nat
  /\ detectThreshold \in Nat \ {0}
  /\ SendWindow(minBlockSize) > 0

(* connectServers for each connection: the keys of server.handlers.         *)
peers == [s \in Servers |-> ToSet(PeerList(s))]

VARIABLES
  received,            \* received[s], transactions registered by the server
  decoded, pending,    \* its decoder: transactions, codewords not decoded
  sender, receiver,    \* of the handler of s for p
  lastScheduled,       \* rate limiter
  generated,
  panicked             \* has registerReceived or HandleMessage panicked?

servers == <<received, decoded, pending, sender, receiver, lastScheduled, generated, panicked>>
vars == <<simulator, driver, servers>>

canStartNewBlock(s) == forceSynchronize[s] = 0

-----------------------------------------------------------------------------
(* sender.                                                                  *)
NewSender ==
  [buffer |-> <<>>, block |-> <<>>, sendWindow |-> detectThreshold, inFlight |-> 0,
   encodingCurrentBlock |-> FALSE, sent |-> 0]

(* The codewords that a sender, which had sent n of its block, now sends.   *)
Codewords(n, count, isNew) ==
  [i \in 1..count |-> [type |-> "codeword", newBlock |-> isNew /\ i = 1,
                       number |-> n.sent + i, block |-> n.block]]

NextBlockKeepingBuffer(n) ==   \* mutant of NextBlock: the buffer is not cut
  [n EXCEPT !.block = n.buffer, !.sent = 0,
            !.sendWindow = SendWindow(Len(n.buffer)), !.encodingCurrentBlock = TRUE]

NextBlock(n) ==
  [n EXCEPT !.block = n.buffer, !.buffer = <<>>, !.sent = 0,
            !.sendWindow = SendWindow(Len(n.buffer)), !.encodingCurrentBlock = TRUE]

Starts(n, mayStartNewBlock) ==
  /\ ~n.encodingCurrentBlock /\ mayStartNewBlock
  /\ n.inFlight < n.sendWindow
  /\ Len(n.buffer) >= minBlockSize

(* tryFillSendWindow: the sender after it, and what it puts in its outbox.  *)
(* The first codeword of a block is sent even if its window has no room.    *)
TryFillSendWindow(n, mayStartNewBlock) ==
  LET isNew == Starts(n, mayStartNewBlock)
      next == IF isNew THEN NextBlock(n) ELSE n
      count == IF next.encodingCurrentBlock
               THEN Max({IF isNew THEN 1 ELSE 0, next.sendWindow - next.inFlight}) ELSE 0
  IN [state |-> [next EXCEPT !.inFlight = @ + count, !.sent = @ + count],
      outbox |-> Codewords(next, count, isNew)]

OnAckKeepingBlock(n, ack, mayStartNewBlock) ==   \* mutant of OnAck: that of a block is not counted
  TryFillSendWindow([n EXCEPT !.inFlight = IF ack.ackBlock THEN @ ELSE @ - 1,
                              !.encodingCurrentBlock = @ /\ ~ack.ackBlock], mayStartNewBlock)

OnAck(n, ack, mayStartNewBlock) ==
  TryFillSendWindow([n EXCEPT !.inFlight = @ - 1,
                              !.encodingCurrentBlock = @ /\ ~ack.ackBlock], mayStartNewBlock)

OnTransaction(n, tx, mayStartNewBlock) ==
  TryFillSendWindow([n EXCEPT !.buffer = Append(@, tx)], mayStartNewBlock)

(* What the encoder may draw for codeword cw.                               *)
Draws(cw) ==
  LET degrees == {Min({d, Len(cw.block)}) : d \in Degrees} IN
  IF cw.number <= MaxCodewords
  THEN UNION {kSubset(d, ToSet(cw.block)) : d \in degrees}
  ELSE {{cw.block[(cw.number % Len(cw.block)) + 1]}}

-----------------------------------------------------------------------------
(* The decoder: what is known after peeling the codewords cws with known,   *)
(* the least set that leaves no codeword with one unknown transaction.      *)
Peeled(known, cws) ==
  LET closed == {K \in SUBSET Tx : known \subseteq K /\ \A c \in cws : Cardinality(c \ K) # 1}
  IN {t \in Tx : \A K \in closed : t \in K}

(* receiver.                                                                *)
NewReceiver == [curCodewords |-> <<>>, currentBlockReceived |-> FALSE]

AddCodeword(r, cw, members) ==
  IF cw.newBlock THEN [curCodewords |-> <<members>>, currentBlockReceived |-> FALSE]
  ELSE [r EXCEPT !.curCodewords = Append(@, members)]

AcksBlockAgain(r, known) ==   \* mutant of AcksBlock: a decoded block is acknowledged again
  LET notDecoded == SelectSeq(r.curCodewords, LAMBDA c : ~(c \subseteq known))
      limit == (Len(r.curCodewords) * LossNum) \div LossDen
  IN Len(r.curCodewords) > detectThreshold /\ Len(notDecoded) <= limit

(* Does onCodeword acknowledge the block, when known is decoded?            *)
AcksBlock(r, known) ==
  LET notDecoded == SelectSeq(r.curCodewords, LAMBDA c : ~(c \subseteq known))
      limit == (Len(r.curCodewords) * LossNum) \div LossDen
  IN /\ ~r.currentBlockReceived
     /\ Len(r.curCodewords) > detectThreshold
     /\ Len(notDecoded) <= limit

-----------------------------------------------------------------------------
(* server.                                                                  *)
ToSelf(s, payload, delay) == [payload |-> payload, to |-> s, delay |-> delay]

(* collectOutgoingMessages; the order of the handlers is that of a map.     *)
Collect(s, outbox, order) ==
  FlattenSeq([i \in DOMAIN order |->
    [j \in DOMAIN outbox[order[i]] |->
       [payload |-> outbox[order[i]][j], to |-> order[i], delay |-> Delay[s][order[i]]]]])

Orders(s) == SetToSeqs(peers[s])
Nothing == [p \in Servers |-> <<>>]

(* scheduleForwardingTransactions at time ts: the slot of the i-th of txs.  *)
Slot(s, ts, i) == Max({ts, lastScheduled[s] + minInterval}) + (i - 1) * minInterval

LastSlotFirst(s, ts, i) == Slot(s, ts, 1)   \* mutant of LastSlot: only the first slot is noted

LastSlot(s, ts, i) == Slot(s, ts, i)

ScheduleForwarding(s, ts, txs) ==
  [i \in DOMAIN txs |-> ToSelf(s, [type |-> "loopback", tx |-> txs[i]], Slot(s, ts, i) - ts)]

SetLastScheduled(s, ts, txs) ==
  lastScheduled' = IF txs = <<>> THEN lastScheduled
                   ELSE [lastScheduled EXCEPT ![s] = LastSlot(s, ts, Len(txs))]

RegisterReceived(s, txs) == received' = [received EXCEPT ![s] = @ \cup txs]

(* The decoder of s learns known, and has the codewords cws.                *)
Decode(s, known, cws) ==
  /\ decoded' = [decoded EXCEPT ![s] = known]
  /\ pending' = [pending EXCEPT ![s] = {c \in cws : ~(c \subseteq known)}]

Generated(n) == [i \in 1..n |-> generated + i]

HandleBlockArrival(m) ==
  LET s == m.to
      n == Min({blockArrivalBurst, MaxTx - generated})
      txs == Generated(n)
      known == Peeled(decoded[s] \cup ToSet(txs), pending[s])
  IN
  /\ m.payload.type = "blockArrival"
  /\ generated' = generated + n
  /\ panicked' = (panicked \/ ToSet(txs) \cap received[s] # {}
                           \/ known # decoded[s] \cup ToSet(txs))
  /\ RegisterReceived(s, ToSet(txs))
  /\ Decode(s, known, pending[s])
  /\ SetLastScheduled(s, m.arrival, txs)
  /\ \E intv \in Intervals :
       Deliver(m, ScheduleForwarding(s, m.arrival, txs) \o
         (IF generated' < MaxTx THEN <<ToSelf(s, m.payload, intv)>> ELSE <<>>))
  /\ UNCHANGED <<sender, receiver>>

(* The senders of s become fills[p].state and send fills[p].outbox.         *)
Fill(m, fills, others) ==
  LET s == m.to IN
  /\ sender' = [sender EXCEPT ![s] = [p \in Servers |->
                  IF p \in peers[s] THEN fills[p].state ELSE @[p]]]
  /\ \E order \in Orders(s) :
       Deliver(m, others \o Collect(s, [p \in peers[s] |-> fills[p].outbox], order))

(* forwardTransaction to all peers.                                         *)
HandleLoopback(m) ==
  LET s == m.to IN
  /\ m.payload.type = "loopback"
  /\ Fill(m, [p \in peers[s] |->
                OnTransaction(sender[s][p], m.payload.tx, canStartNewBlock(s))], <<>>)
  /\ UNCHANGED <<received, decoded, pending, receiver, lastScheduled, generated, panicked>>

HandleCreateNewBlock(m) ==
  LET s == m.to IN
  /\ m.payload.type = "createNewBlock"
  /\ Fill(m, [p \in peers[s] |-> TryFillSendWindow(sender[s][p], TRUE)],
          <<ToSelf(s, m.payload, forceSynchronize[s])>>)
  /\ UNCHANGED <<received, decoded, pending, receiver, lastScheduled, generated, panicked>>

(* onCodeword; the order in which several transactions are decoded is       *)
(* arbitrary here.                                                          *)
HandleCodeword(m) ==
  LET s == m.to p == m.from IN
  /\ m.payload.type = "codeword"
  /\ \E members \in Draws(m.payload) :
       LET r == AddCodeword(receiver[s][p], m.payload, members)
           cws == pending[s] \cup {members}
           known == Peeled(decoded[s], cws)
           acks == AcksBlock(r, known)
       IN
       /\ Decode(s, known, cws)
       /\ receiver' = [receiver EXCEPT ![s][p] = [r EXCEPT !.currentBlockReceived = @ \/ acks]]
       /\ \E buf \in SetToSeqs(known \ decoded[s]) :
            /\ RegisterReceived(s, ToSet(buf))
            /\ panicked' = (panicked \/ ToSet(buf) \cap received[s] # {})
            /\ SetLastScheduled(s, m.arrival, buf)
            /\ Deliver(m, ScheduleForwarding(s, m.arrival, buf) \o
                 Collect(s, [q \in peers[s] |-> <<[type |-> "ack", ackBlock |-> acks]>>], <<p>>))
  /\ UNCHANGED <<sender, generated>>

HandleAck(m) ==
  LET s == m.to IN
  /\ m.payload.type = "ack"
  /\ Fill(m, [p \in peers[s] |->
                IF p = m.from THEN OnAck(sender[s][p], m.payload, canStartNewBlock(s))
                ELSE [state |-> sender[s][p], outbox |-> <<>>]], <<>>)
  /\ UNCHANGED <<received, decoded, pending, receiver, lastScheduled, generated, panicked>>

-----------------------------------------------------------------------------
NewHandlers ==
  /\ sender = [s \in Servers |-> [p \in Servers |-> NewSender]]
  /\ receiver = [s \in Servers |-> [p \in Servers |-> NewReceiver]]

(* newServers: each schedules its first arrival and, if it synchronizes,    *)
(* the first createNewBlock.                                                *)
Init ==
  /\ \E intv \in [Servers -> Intervals] :
       LET event(s, type, at) == [arrival |-> at, from |-> s, to |-> s, payload |-> [type |-> type]]
           events == FlattenSeq([i \in 1..N |->
             LET s == i - 1 IN
             <<event(s, "blockArrival", intv[s])>> \o
             (IF canStartNewBlock(s) THEN <<>>
              ELSE <<event(s, "createNewBlock", forceSynchronize[s])>>)])
       IN InitSimulator({[arrival |-> events[i].arrival, seq |-> i - 1, from |-> events[i].from,
                          to |-> events[i].to, payload |-> events[i].payload] : i \in DOMAIN events})
  /\ received = [s \in Servers |-> {}]
  /\ decoded = [s \in Servers |-> {}]
  /\ pending = [s \in Servers |-> {}]
  /\ NewHandlers
  /\ lastScheduled = [s \in Servers |-> 0]
  /\ generated = 0
  /\ panicked = FALSE

HandleMessage ==
  /\ Delivers
  /\ \E m \in mq : \/ HandleBlockArrival(m) \/ HandleLoopback(m) \/ HandleCreateNewBlock(m)
                   \/ HandleCodeword(m) \/ HandleAck(m)
  /\ UNCHANGED driver

Next ==
  \/ HandleMessage
  \/ (Return \/ RunUntil) /\ UNCHANGED servers

Spec == Init /\ [][Next]_vars

-----------------------------------------------------------------------------
Under(s, p, type) == {m \in mq : m.from = s /\ m.to = p /\ m.payload.type = type}

(* Every codeword is acknowledged once, also those of blocks that are done, *)
(* and inFlight counts those of all blocks together.  So it is the number   *)
(* of codewords and acknowledgements under way; and while there is a block  *)
(* to send there are some, so that the sender goes on.                      *)
InFlightExact ==
  \A s \in Servers : \A p \in peers[s] :
    LET n == sender[s][p] IN
    /\ n.inFlight = Cardinality(Under(s, p, "codeword")) + Cardinality(Under(p, s, "ack"))
    /\ \/ n.encodingCurrentBlock
       \/ canStartNewBlock(s) /\ Len(n.buffer) >= minBlockSize
       => n.inFlight > 0

(* An acknowledgement of a block is about the block that the sender is      *)
(* encoding, whatever is still under way of the one before: the block is    *)
(* announced, being decoded or acknowledged.                                *)
BlockHandshake ==
  \A s \in Servers : \A p \in peers[s] :
    LET announced == Cardinality({m \in Under(s, p, "codeword") : m.payload.newBlock})
        acked == Cardinality({m \in Under(p, s, "ack") : m.payload.ackBlock})
        r == receiver[p][s]
        decoding == IF r.curCodewords # <<>> /\ ~r.currentBlockReceived THEN 1 ELSE 0
    IN
    /\ announced + decoding + acked = IF sender[s][p].encodingCurrentBlock THEN 1 ELSE 0
    /\ decoding = 1 => UNION ToSet(r.curCodewords) \subseteq ToSet(sender[s][p].block)

(* A server puts each transaction into each of its senders once, although   *)
(* its peers send it back to it: a transaction waits for its slot, or in    *)
(* the buffer, or is in a block.  So registerReceived does not panic, and   *)
(* no block has a duplicate, of which the sender would warn.                *)
ForwardedOnce ==
  /\ ~panicked
  /\ \A s \in Servers :
       LET waiting == {m.payload.tx : m \in Under(s, s, "loopback")} IN
       /\ Cardinality(waiting) = Cardinality(Under(s, s, "loopback"))
       /\ \A p \in peers[s] :
            LET txs == sender[s][p].buffer \o sender[s][p].block IN
            /\ IsInjective(txs)
            /\ ToSet(txs) \cap waiting = {}
            /\ ToSet(txs) \cup waiting \subseteq received[s]

(* Transactions leave a server at the pace of its rate limiter, however     *)
(* many it receives or decodes at once: no slot is in the past, those of    *)
(* the transactions that wait are apart, and the limiter has noted the last *)
(* of them, so that what is scheduled next comes behind.                    *)
Paced ==
  \A s \in Servers : \A m \in Under(s, s, "loopback") :
    /\ time <= m.arrival /\ m.arrival <= lastScheduled[s]
    /\ \A n \in Under(s, s, "loopback") :
         m.seq < n.seq => m.arrival + minInterval <= n.arrival
=============================================================================
