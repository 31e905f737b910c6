------------------------------ MODULE BlockSync ------------------------------
(***************************************************************************)
(* The coding protocol of package newsim: newsim/coding.go under the       *)
(* servers of newsim/module.go.  On every link one server has a sender and *)
(* the other a receiver.  The sender reconciles one shard of transactions  *)
(* after the other: it puts those of its buffer that fall into the shard   *)
(* into its encoder (a block) and sends coded symbols until the receiver,  *)
(* which did the same with its own buffer, acknowledges the block.         *)
(*                                                                         *)
(* A coded symbol carries, instead of sums, its number and the contents of *)
(* the block; Riblt models what decoding does with them.  Messages of one  *)
(* link arrive in order (PullSync shows that the event queue does that),   *)
(* those of different links in any order.  A burst of arrivals             *)
(* (blockArrivalBurst) is a sequence of single ones: nothing else comes    *)
(* between them.                                                           *)
(***************************************************************************)
EXTENDS Topology, FiniteSets

CONSTANTS
  Tx,          \* transactions
  Origins,     \* bound: servers where each transaction may be generated
  Flooding,    \* servers with initialFlood
  NumShards,
  HashMax,     \* largest hash (2^64 - 1)
  ShardHash,   \* on each link, hash of a transaction times shardRandomizer
  OverheadNum, OverheadDen,   \* controlOverhead
  MaxCells     \* bound: coded symbols after which any block decodes

(* connectCodingServers for each connection: <<sender, receiver>>.          *)
Links == {<<c.a, c.b>> : c \in ToSet(topology)}

ASSUME BlockSyncAssumption ==
  /\ IsFiniteSet(Tx)
  /\ Origins \in [Tx -> SUBSET Servers]
  /\ Flooding \subseteq Servers
  /\ NumShards \in 1..HashMax
  /\ ShardHash \in [Links -> [Tx -> 0..HashMax]]
  /\ OverheadNum \in Nat /\ OverheadDen \in Nat \ {0}
  /\ MaxCells >= Cardinality(Tx)

VARIABLES
  received,    \* transactions each server has
  generated,   \* transactions generated so far
  sender, receiver,   \* the two ends of each link
  codewords, acks,    \* messages under way on each link
  floods       \* initialBroadcast messages under way, <<from, to, tx>>

vars == <<received, generated, sender, receiver, codewords, acks, floods>>

Peers(s) == {p \in Servers : <<s, p>> \in Links \/ <<p, s>> \in Links}

-----------------------------------------------------------------------------
ShardSize == HashMax \div NumShards

InShardClosed(h, shard) ==   \* mutant of InShard: the last shard does not wrap around
  LET start == shard * ShardSize
      end == (shard + 1) * ShardSize
  IN start <= h /\ h < end

(* Is h in the shard?  The range of the last one ends at 0.                 *)
InShard(h, shard) ==
  LET start == shard * ShardSize
      end == ((shard + 1) % NumShards) * ShardSize
  IN IF start < end THEN start <= h /\ h < end ELSE start <= h \/ h < end

(* sender.  sendWindow counts in units of 1 / OverheadDen.                  *)
NewSender(l, schedule) ==
  [buffer |-> {}, block |-> {}, sendWindow |-> OverheadDen, inFlight |-> 0,
   encodingCurrentBlock |-> FALSE, receivingCurrentBlock |-> FALSE,
   currentBlockAckCount |-> 0, sent |-> 0, shardSchedule |-> schedule, nextShard |-> 1,
   shardHash |-> ShardHash[l], outbox |-> <<>>]

AtLeastOne(w) == Max({w, OverheadDen})

NextBlockCarryingOver(n) ==   \* mutant of NextBlock: what is in flight stays counted
  LET shard == n.shardSchedule[n.nextShard]
      block == {t \in n.buffer : InShard(n.shardHash[t], shard)}
  IN [n EXCEPT !.block = block, !.buffer = @ \ block, !.sent = 0,
               !.nextShard = (@ % NumShards) + 1,
               !.encodingCurrentBlock = TRUE,
               !.sendWindow = AtLeastOne(n.currentBlockAckCount * OverheadNum),
               !.currentBlockAckCount = 0]

(* tryProduceCodeword, when the block is acknowledged: the next shard.      *)
NextBlock(n) ==
  LET shard == n.shardSchedule[n.nextShard]
      block == {t \in n.buffer : InShard(n.shardHash[t], shard)}
  IN [n EXCEPT !.block = block, !.buffer = @ \ block, !.sent = 0,
               !.nextShard = (@ % NumShards) + 1,
               !.encodingCurrentBlock = TRUE,
               !.sendWindow = AtLeastOne(n.currentBlockAckCount * OverheadNum),
               !.currentBlockAckCount = 0,
               !.inFlight = 0]

Codeword(n, shard, newBlock, number) ==
  [newBlock |-> newBlock, shard |-> shard, block |-> n.block, number |-> number]

(* ProduceNextCodedSymbol, count times.                                     *)
Produce(n, shard, isNew, count) ==
  [n EXCEPT !.outbox = @ \o [i \in 1..count |->
              Codeword(n, shard, isNew /\ i = 1, n.sent + i - 1)],
            !.sent = @ + count, !.inFlight = @ + count]

Room(n) == Max({0, (n.sendWindow + OverheadDen - 1) \div OverheadDen - n.inFlight})

(* tryFillSendWindow: as long as less is in flight than sendWindow, but a   *)
(* new block begins with one coded symbol and a burst in any case.          *)
TryFillSendWindow(n) ==
  LET new == NextBlock(n)
      burst == (n.currentBlockAckCount * 2) \div 3
  IN IF n.encodingCurrentBlock
     THEN Produce(n, n.shardSchedule[1], FALSE, Room(n))
     ELSE Produce(new, n.shardSchedule[n.nextShard], TRUE, Max({1 + burst, Room(new)}))

CountAck(n) ==
  [n EXCEPT !.currentBlockAckCount = @ + 1, !.inFlight = @ - 1,
            !.sendWindow = AtLeastOne(@ + OverheadNum)]

OnAck(n, ack) ==
  LET receiving == ack.ackStart \/ (n.receivingCurrentBlock /\ ~ack.ackBlock)
      acked == [n EXCEPT !.encodingCurrentBlock = @ /\ ~ack.ackBlock,
                         !.receivingCurrentBlock = receiving,
                         !.currentBlockAckCount = IF ack.ackStart THEN 0 ELSE @]
  IN TryFillSendWindow(IF receiving THEN CountAck(acked) ELSE acked)

SenderOnTransaction(n, t) == TryFillSendWindow([n EXCEPT !.buffer = @ \cup {t}])

-----------------------------------------------------------------------------
(* receiver.  cells is the number of coded symbols in its decoder, window   *)
(* the symbols it was given.                                                *)
NewReceiver(l) ==
  [buffer |-> {}, window |-> {}, cells |-> 0, currentBlockReceived |-> FALSE,
   shardHash |-> ShardHash[l]]

DropsNone(r, cw) == FALSE   \* mutant of Drops: the rest of a decoded block is decoded

(* What is left under way of a block that is decoded.                       *)
Drops(r, cw) == r.currentBlockReceived /\ ~cw.newBlock

OnNewBlockClearing(r, cw) ==   \* mutant of OnNewBlock: other shards leave the buffer, too
  IF cw.newBlock
  THEN LET block == {t \in r.buffer : InShard(r.shardHash[t], cw.shard)} IN
       [r EXCEPT !.currentBlockReceived = FALSE, !.window = @ \cup block, !.buffer = {}]
  ELSE r

(* A new block: the buffered symbols that fall into its shard are known.    *)
OnNewBlock(r, cw) ==
  IF cw.newBlock
  THEN LET block == {t \in r.buffer : InShard(r.shardHash[t], cw.shard)} IN
       [r EXCEPT !.currentBlockReceived = FALSE,
                 !.window = @ \cup block, !.buffer = @ \ block]
  ELSE r

(* When the decoder is done after n coded symbols: with no or one symbol to *)
(* find, at once, as the first coded symbol holds them all; with more, each *)
(* takes a coded symbol at least.                                           *)
MayDecode(r, cw, n) == Cardinality(SymDiff(cw.block, r.window)) <= n
MustDecode(r, cw, n) == Cardinality(SymDiff(cw.block, r.window)) <= 1 \/ n >= MaxCells

Ack(cw, done, txs) == [ackBlock |-> done, ackStart |-> cw.newBlock, txs |-> txs]

ReceiverOnTransaction(r, t) == [r EXCEPT !.buffer = @ \cup {t}]

-----------------------------------------------------------------------------
(* server.HandleMessage: what server s does with transactions T of peer     *)
(* from, when the ends of its links are snd and rcv.  T comes in any order. *)
FreshOf(s, T) == SetToSeqs(T \ received[s])

(* The handlers of s forward fresh transactions, one after another, to all  *)
(* peers but one: as the sender of a link, or as the receiver.              *)
ForwardBySender(s, from, fresh, snd) ==
  [l \in Links |-> IF l[1] = s /\ l[2] # from
                   THEN FoldLeft(SenderOnTransaction, snd[l], fresh) ELSE snd[l]]

ForwardByReceiver(s, from, fresh, rcv) ==
  [l \in Links |-> IF l[2] = s /\ l[1] # from
                   THEN FoldLeft(ReceiverOnTransaction, rcv[l], fresh) ELSE rcv[l]]

(* The outboxes of senders snd follow the codewords cws.                    *)
CollectOutgoing(snd, cws) ==
  /\ codewords' = [l \in Links |-> cws[l] \o snd[l].outbox]
  /\ sender' = [l \in Links |-> [snd[l] EXCEPT !.outbox = <<>>]]

Forward(s, from, fresh, snd, rcv, cws) ==
  /\ CollectOutgoing(ForwardBySender(s, from, fresh, snd), cws)
  /\ receiver' = ForwardByReceiver(s, from, fresh, rcv)
  /\ received' = [received EXCEPT ![s] = @ \cup ToSet(fresh)]

Init ==
  /\ received = [s \in Servers |-> {}]
  /\ generated = {}
  /\ \E schedule \in [Links -> SetToSeqs(0..NumShards - 1)] :
       sender = [l \in Links |-> NewSender(l, schedule[l])]
  /\ receiver = [l \in Links |-> NewReceiver(l)]
  /\ codewords = [l \in Links |-> <<>>]
  /\ acks = [l \in Links |-> <<>>]
  /\ floods = {}

(* blockArrival.  With initialFlood the server sends the transaction itself *)
(* to its peers and puts it into none of its own buffers.                   *)
Arrival(s, t) ==
  /\ t \in Tx \ generated /\ s \in Origins[t]
  /\ generated' = generated \cup {t}
  /\ IF s \in Flooding
     THEN /\ floods' = floods \cup {<<s, p, t>> : p \in Peers(s)}
          /\ received' = [received EXCEPT ![s] = @ \cup {t}]
          /\ UNCHANGED <<sender, receiver, codewords>>
     ELSE /\ Forward(s, s, <<t>>, sender, receiver, codewords)
          /\ UNCHANGED floods
  /\ UNCHANGED acks

(* initialBroadcast.                                                        *)
HandleFlood(from, s, t) ==
  /\ <<from, s, t>> \in floods
  /\ floods' = floods \ {<<from, s, t>>}
  /\ \E fresh \in FreshOf(s, {t}) : Forward(s, from, fresh, sender, receiver, codewords)
  /\ UNCHANGED <<generated, acks>>

(* codeword, at the receiver of link l.                                     *)
DropCodeword(l) ==
  /\ codewords[l] # <<>>
  /\ Drops(receiver[l], Head(codewords[l]))
  /\ codewords' = [codewords EXCEPT ![l] = Tail(@)]
  /\ UNCHANGED <<received, generated, sender, receiver, acks, floods>>

HandleCodeword(l) ==
  /\ codewords[l] # <<>>
  /\ LET cw == Head(codewords[l])
         r == OnNewBlock(receiver[l], cw)
         n == r.cells + 1
         cws == [codewords EXCEPT ![l] = Tail(@)]
     IN
     /\ ~Drops(receiver[l], cw)
     /\ \/ /\ MayDecode(r, cw, n)
           /\ acks' = [acks EXCEPT ![l] = Append(@, Ack(cw, TRUE, r.window \ cw.block))]
           /\ \E fresh \in FreshOf(l[2], cw.block \ r.window) :
                Forward(l[2], l[1], fresh, sender,
                        [receiver EXCEPT ![l] = [r EXCEPT !.currentBlockReceived = TRUE,
                                                          !.window = {}, !.cells = 0]],
                        cws)
        \/ /\ ~MustDecode(r, cw, n)
           /\ acks' = [acks EXCEPT ![l] = Append(@, Ack(cw, FALSE, {}))]
           /\ receiver' = [receiver EXCEPT ![l] = [r EXCEPT !.cells = n]]
           /\ codewords' = cws
           /\ UNCHANGED <<sender, received>>
  /\ UNCHANGED <<generated, floods>>

(* ack, at the sender of link l.                                            *)
HandleAck(l) ==
  /\ acks[l] # <<>>
  /\ acks' = [acks EXCEPT ![l] = Tail(@)]
  /\ \E fresh \in FreshOf(l[1], Head(acks[l]).txs) :
       Forward(l[1], l[2], fresh,
               [sender EXCEPT ![l] = OnAck(@, Head(acks[l]))], receiver, codewords)
  /\ UNCHANGED <<generated, floods>>

Next ==
  \/ \E s \in Servers, t \in Tx : Arrival(s, t)
  \/ \E f \in floods : HandleFlood(f[1], f[2], f[3])
  \/ \E l \in Links : DropCodeword(l) \/ HandleCodeword(l) \/ HandleAck(l)

Spec == Init /\ [][Next]_vars

(* The simulator delivers every message that it has queued.                 *)
Fairness ==
  /\ \A s, p \in Servers : WF_vars(\E t \in Tx : HandleFlood(p, s, t))
  /\ \A l \in Links : WF_vars(DropCodeword(l) \/ HandleCodeword(l)) /\ WF_vars(HandleAck(l))

FairSpec == Spec /\ Fairness

-----------------------------------------------------------------------------
(* No transaction falls between two blocks: what one end of a link has and  *)
(* the other has not is in a buffer, in the current block or in a message   *)
(* to that other end.                                                       *)
NothingLost ==
  \A l \in Links :
    LET flooded(a, b) == {t \in Tx : <<a, b, t>> \in floods} IN
    /\ received[l[1]] \subseteq received[l[2]] \cup flooded(l[1], l[2])
                         \cup sender[l].buffer \cup sender[l].block
    /\ received[l[2]] \subseteq received[l[1]] \cup flooded(l[2], l[1])
                         \cup receiver[l].buffer \cup receiver[l].window
                         \cup UNION {ack.txs : ack \in ToSet(acks[l])}

(* Coded symbols of a block that is acknowledged may still be under way, in *)
(* front of those of the next one.  The decoder takes none of them: every   *)
(* coded symbol that it takes is the next one of the block that its window  *)
(* was filled for.                                                          *)
DecoderAligned ==
  \A l \in Links :
    codewords[l] # <<>> /\ ~Drops(receiver[l], Head(codewords[l])) =>
      /\ Head(codewords[l]).number = receiver[l].cells
      /\ Head(codewords[l]).newBlock <=> receiver[l].cells = 0
      /\ receiver[l].cells = 0 => receiver[l].window = {}
      /\ Head(codewords[l]).block = sender[l].block

(* The coded symbols under way that belong to the sender's current block.  *)
CurrentCodewords(l) ==
  LET cws == codewords[l]
      start == Max({1} \cup {i \in DOMAIN cws : cws[i].newBlock})
  IN SubSeq(cws, start, Len(cws))

(* Has the receiver decoded the sender's current block?                     *)
BlockDecoded(l) ==
  \/ \E i \in DOMAIN acks[l] : acks[l][i].ackBlock
  \/ receiver[l].currentBlockReceived /\ \A cw \in ToSet(codewords[l]) : ~cw.newBlock

(* Acknowledgements count for the block they acknowledge: until the         *)
(* receiver has decoded the block, inFlight is the number of its coded      *)
(* symbols and acknowledgements under way, and never is nothing under way,  *)
(* which would stop the link for good.                                      *)
InFlightExact ==
  \A l \in Links :
    sender[l].encodingCurrentBlock =>
      /\ ~BlockDecoded(l) => sender[l].inFlight = Len(CurrentCodewords(l)) + Len(acks[l])
      /\ codewords[l] \o acks[l] # <<>>

Begun(l) == sender[l].encodingCurrentBlock

Settled(t) ==
  \A l \in Links :
    /\ t \in received[l[1]] => t \in received[l[2]]
    /\ t \in received[l[2]] /\ Begun(l) => t \in received[l[1]]

(* Every transaction reaches both ends of every link, from the receiver to  *)
(* the sender once the sender has begun its first block: it does so when a  *)
(* first transaction is forwarded to it.                                    *)
Spreads == []<>(\A t \in Tx : Settled(t))
=============================================================================
