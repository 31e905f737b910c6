-------------------------- MODULE LtBlockSyncProofs --------------------------
(***************************************************************************)
(* The block protocol of package simulator, over any network and for any   *)
(* degrees, windows, timers and rates: the window counts what is under     *)
(* way and a sender with a block to send does not stop, acknowledgements   *)
(* of blocks are about the block that is being sent, transactions are      *)
(* forwarded once, and at the pace of the rate limiter.                    *)
(***************************************************************************)
EXTENDS LtBlockSync, SequenceLemmas

-----------------------------------------------------------------------------
(* The inductive invariant.                                                 *)
SenderType ==
  [buffer : Seq(Tx), block : Seq(Tx), sendWindow : Nat \ {0}, inFlight : Nat,
   encodingCurrentBlock : BOOLEAN, sent : Nat]

ReceiverType == [curCodewords : Seq(SUBSET Tx), currentBlockReceived : BOOLEAN]

CodewordType ==
  [type : {"codeword"}, newBlock : BOOLEAN, number : Nat, block : Seq(Tx) \ {<<>>}]

AckType == [type : {"ack"}, ackBlock : BOOLEAN]

EventType == [type : {"loopback"}, tx : Tx] \cup [type : {"blockArrival", "createNewBlock"}]

LinkPayload == CodewordType \cup AckType

(* The state of servers and handlers: transactions have been generated.     *)
LocalTypes ==
  /\ generated \in 0..MaxTx
  /\ received \in [Servers -> SUBSET (1..generated)]
  /\ pending \in [Servers -> SUBSET SUBSET (1..generated)]
  /\ lastScheduled \in [Servers -> Nat]
  /\ sender \in [Servers -> [Servers -> SenderType]]
  /\ receiver \in [Servers -> [Servers -> ReceiverType]]

(* The decoder has peeled all that it can, and what it knows is registered. *)
DecoderPeeled ==
  /\ decoded = received
  /\ ~panicked
  /\ \A s \in Servers : \A c \in pending[s] : Cardinality(c \ received[s]) # 1

(* Messages of handlers are on links, all others are events of a server.    *)
MessageOK(m) ==
  /\ m.from \in Servers /\ m.to \in Servers
  /\ m.arrival \in Nat /\ m.seq \in Nat /\ m.seq < seq
  /\ \/ m.from = m.to /\ m.payload \in EventType
     \/ /\ m.from \in peers[m.to] /\ m.payload \in LinkPayload
        /\ time <= m.arrival /\ m.arrival <= time + Delay[m.from][m.to]
  /\ m.payload.type = "codeword" => ToSet(m.payload.block) \subseteq 1..generated

QueueOK ==
  /\ time \in Nat /\ seq \in Nat
  /\ IsFiniteSet(mq)
  /\ \A m \in mq : MessageOK(m) /\ time <= m.arrival
  /\ \A m, n \in mq : m.seq = n.seq => m = n
  /\ \A m, n \in mq :
       m.from = n.from /\ m.to = n.to /\ m.from # m.to /\ m.seq < n.seq => m.arrival <= n.arrival

(* The transactions that wait for their slot.                               *)
LoopsOK(W, last, R) ==
  /\ \A m, n \in W : m.payload.tx = n.payload.tx => m = n
  /\ \A m \in W : m.arrival <= last /\ m.payload.tx \in R
  /\ \A m, n \in W : m.seq < n.seq => m.arrival + minInterval <= n.arrival

Waiting(W) == {m.payload.tx : m \in W}

(* Sender n has each transaction of R once, apart from those in W.          *)
NoDuplicates(n, W, R) ==
  /\ IsInjective(n.buffer) /\ IsInjective(n.block)
  /\ ToSet(n.buffer) \cap ToSet(n.block) = {}
  /\ (ToSet(n.buffer) \cup ToSet(n.block)) \cap Waiting(W) = {}
  /\ ToSet(n.buffer) \cup ToSet(n.block) \subseteq R

-----------------------------------------------------------------------------
(* A sender n, the receiver r of its codewords, the codewords C and the     *)
(* acknowledgements A under way.                                            *)
Announcing(C) == {m \in C : m.payload.newBlock}
Concluding(A) == {m \in A : m.payload.ackBlock}
Decoding(r) == r.curCodewords # <<>> /\ ~r.currentBlockReceived

(* The block is announced, being decoded or acknowledged.                   *)
Handshakes(n, r, C, A) ==
  Cardinality(Announcing(C)) + (IF Decoding(r) THEN 1 ELSE 0) + Cardinality(Concluding(A))
    = IF n.encodingCurrentBlock THEN 1 ELSE 0

(* Codewords behind the announcement, and all while the block is decoded,   *)
(* are about the block of the sender; a receiver that has none yet is told  *)
(* of a block first.                                                        *)
Behind(m, C) == \E a \in Announcing(C) : a.seq <= m.seq

BlocksAgree(n, r, C, A) ==
  /\ \A m \in C : Decoding(r) \/ Behind(m, C) => m.payload.block = n.block
  /\ Decoding(r) => UNION ToSet(r.curCodewords) \subseteq ToSet(n.block)
  /\ r.curCodewords = <<>> => Concluding(A) = {} /\ \A m \in C : Behind(m, C)

LinkCore(n, r, C, A) ==
  /\ n.inFlight = Cardinality(C) + Cardinality(A)
  /\ n.encodingCurrentBlock => n.block # <<>>
  /\ Handshakes(n, r, C, A)
  /\ BlocksAgree(n, r, C, A)

(* A sender with something to send has something under way.                 *)
GoesOn(s, n) ==
  n.encodingCurrentBlock \/ (canStartNewBlock(s) /\ Len(n.buffer) >= minBlockSize) => n.inFlight > 0

(* The link from s to p, and the sender at its head.                        *)
LinkOK(s, p) ==
  /\ LinkCore(sender[s][p], receiver[p][s], Under(s, p, "codeword"), Under(p, s, "ack"))
  /\ GoesOn(s, sender[s][p])

(* The inductive invariant: of each server, and of each of its links.       *)
LtInv ==
  /\ LocalTypes /\ DecoderPeeled /\ QueueOK
  /\ \A s \in Servers :
       /\ LoopsOK(Under(s, s, "loopback"), lastScheduled[s], received[s])
       /\ \A p \in peers[s] :
            /\ NoDuplicates(sender[s][p], Under(s, s, "loopback"), received[s])
            /\ LinkOK(s, p)

-----------------------------------------------------------------------------
(* The ends of a connection are different servers.                          *)
LEMMA ConnectionsProperties ==
  /\ topology \in Seq(Connection) /\ N \in Nat
  /\ \A i \in 1..Len(topology) :
       /\ topology[i].a \in Servers /\ topology[i].b \in Servers
       /\ topology[i].a # topology[i].b
<1>1. /\ topology \in Seq(Connection) /\ Len(topology) \in Nat /\ DOMAIN topology = 1..Len(topology)
      /\ \A i \in 1..Len(topology) :
           topology[i].a \in Nat /\ topology[i].b \in Nat /\ topology[i].a # topology[i].b
  <2>1. topology \in Seq(Connection) /\ \A i \in DOMAIN topology : topology[i].a # topology[i].b
    BY TopologyAssumption DEF Topologies
  <2>2. \A i \in 1..Len(topology) : topology[i] \in Connection
    BY <2>1
  <2> QED BY <2>1, <2>2 DEF Connection
<1> DEFINE a == [i \in DOMAIN topology |-> topology[i].a]
           b == [i \in DOMAIN topology |-> topology[i].b]
           U == {0} \cup UNION {Ends(c) : c \in ToSet(topology)}
<1>2. U = {0} \cup {a[i] : i \in DOMAIN topology} \cup {b[i] : i \in DOMAIN topology}
  BY DEF ToSet, Ends
<1>3. IsFiniteSet(DOMAIN topology)
  BY <1>1, FS_Interval
<1>4. IsFiniteSet(U)
  <2>1. IsFiniteSet({a[i] : i \in DOMAIN topology}) /\ IsFiniteSet({b[i] : i \in DOMAIN topology})
    <3> HIDE DEF a, b
    <3> QED BY <1>3, FiniteImage
  <2> QED BY <2>1, <1>2, FS_Union, FS_Singleton
<1>5. U \in SUBSET Nat /\ U # {}
  BY <1>1 DEF Ends, ToSet
<1>6. Max(U) \in U /\ \A i \in U : i <= Max(U)
  <2> HIDE DEF U
  <2> QED BY <1>4, <1>5, GreatestProperties
<1>7. Max(U) \in Nat
  BY <1>5, <1>6
<1>8. N = Max(U) + 1 /\ N \in Nat
  <2>1. N = Max(U) + 1
    BY DEF N
  <2> HIDE DEF U
  <2> QED BY <2>1, <1>7
<1>9. ASSUME NEW i \in 1..Len(topology) PROVE topology[i].a \in Servers /\ topology[i].b \in Servers
  <2>1. topology[i].a \in U /\ topology[i].b \in U
    BY <1>1 DEF Ends, ToSet
  <2> HIDE DEF U
  <2>2. topology[i].a <= Max(U) /\ topology[i].b <= Max(U)
    BY <2>1, <1>6
  <2> QED BY <2>2, <1>1, <1>7, <1>8 DEF Servers
<1> QED BY <1>1, <1>8, <1>9

(* Servers are peers of one another.                                        *)
LEMMA PeersProperties ==
  ASSUME NEW s \in Servers
  PROVE  /\ peers[s] \in SUBSET Servers /\ IsFiniteSet(peers[s])
         /\ s \notin peers[s]
         /\ \A p \in peers[s] : s \in peers[p]
<1> DEFINE Other(r, i) == CHOOSE p \in Ends(topology[i]) : p # r
           Parts(r) == [i \in DOMAIN topology |->
                          IF r \in Ends(topology[i]) THEN <<Other(r, i)>> ELSE <<>>]
           Others(r) == {Other(r, i) : i \in {j \in 1..Len(topology) : r \in Ends(topology[j])}}
<1>1. /\ Len(topology) \in Nat /\ DOMAIN topology = 1..Len(topology)
      /\ \A i \in 1..Len(topology) :
           /\ topology[i].a \in Servers /\ topology[i].b \in Servers
           /\ topology[i].a # topology[i].b
  BY ConnectionsProperties
<1>2. ASSUME NEW r \in Servers, NEW i \in 1..Len(topology), r \in Ends(topology[i])
      PROVE  Other(r, i) \in Servers /\ Other(r, i) # r /\ Ends(topology[i]) = {r, Other(r, i)}
  <2>1. \E p \in Ends(topology[i]) : p # r
    BY <1>1 DEF Ends
  <2>2. Other(r, i) \in Ends(topology[i]) /\ Other(r, i) # r
    BY <2>1
  <2> HIDE DEF Other
  <2> QED BY <2>2, <1>1, <1>2 DEF Ends
<1> HIDE DEF Other
<1>3. ASSUME NEW r \in Servers PROVE peers[r] = Others(r)
  <2>1. /\ Parts(r) \in Seq(Seq(Servers)) /\ Len(Parts(r)) = Len(topology)
        /\ \A i \in 1..Len(topology) :
             Parts(r)[i] = IF r \in Ends(topology[i]) THEN <<Other(r, i)>> ELSE <<>>
    <3>1. \A i \in DOMAIN topology :
            (IF r \in Ends(topology[i]) THEN <<Other(r, i)>> ELSE <<>>) \in Seq(Servers)
      BY <1>1, <1>2
    <3> QED BY <3>1, <1>1
  <2>2. \A i \in 1..Len(topology) :
          Range(Parts(r)[i]) = IF r \in Ends(topology[i]) THEN {Other(r, i)} ELSE {}
    <3> TAKE i \in 1..Len(topology)
    <3> HIDE DEF Parts
    <3>1. CASE r \in Ends(topology[i])
      <4>1. Parts(r)[i] = <<Other(r, i)>>
        BY <3>1, <2>1
      <4>2. \A e : DOMAIN <<e>> = {1} /\ <<e>>[1] = e
        OBVIOUS
      <4> QED BY <3>1, <4>1, <4>2 DEF Range
    <3>2. CASE r \notin Ends(topology[i])
      <4>1. Parts(r)[i] = <<>>
        BY <3>2, <2>1
      <4>2. DOMAIN <<>> = {}
        OBVIOUS
      <4> QED BY <3>2, <4>1, <4>2 DEF Range
    <3> QED BY <3>1, <3>2
  <2> DEFINE ss == Parts(r)
  <2>3. FlattenSeq(ss) \in Seq(Servers) /\ Range(FlattenSeq(ss)) = UNION {Range(ss[i]) : i \in 1..Len(ss)}
    <3> HIDE DEF ss
    <3> QED BY <2>1, FlattenSeqProperties DEF ss
  <2>4. peers[r] = Range(FlattenSeq(ss))
    <3>1. PeerList(r) = FlattenSeq(ss)
      BY DEF PeerList, Other
    <3> HIDE DEF ss
    <3>2. peers[r] = ToSet(FlattenSeq(ss))
      BY <3>1 DEF peers
    <3> QED BY <3>2 DEF ToSet, Range
  <2>5. UNION {Range(ss[i]) : i \in 1..Len(ss)} = Others(r)
    <3> HIDE DEF Parts
    <3> QED BY <2>1, <2>2
  <2> HIDE DEF ss
  <2> QED BY <2>3, <2>4, <2>5
<1>4. peers[s] \in SUBSET Servers /\ s \notin peers[s]
  BY <1>2, <1>3
<1>5. ASSUME NEW p \in peers[s] PROVE s \in peers[p]
  <2>1. PICK i \in 1..Len(topology) : s \in Ends(topology[i]) /\ p = Other(s, i)
    BY <1>3
  <2>2. p \in Servers /\ Ends(topology[i]) = {s, p} /\ p # s
    BY <2>1, <1>2
  <2>3. Other(p, i) = s
    BY <2>2, <1>2
  <2> QED BY <2>2, <2>3, <1>3
<1>6. IsFiniteSet(peers[s])
  <2>1. IsFiniteSet(Servers)
    <3>1. 0 \in Int /\ N - 1 \in Int
      BY ConnectionsProperties
    <3> QED BY <3>1, FS_Interval DEF Servers
  <2> QED BY <2>1, <1>4, FS_Subset
<1> QED BY <1>4, <1>5, <1>6

-----------------------------------------------------------------------------
(* The messages that q puts on its link to p at once.                       *)
Burst(q, p, at, b, o) ==
  {[arrival |-> at + Delay[q][p], seq |-> b + j - 1, from |-> q, to |-> p, payload |-> o[j]] :
     j \in DOMAIN o}

(* A handler of q at time at returns others for q itself, and for the peers *)
(* of order what is in their outboxes.                                      *)
SelfOutgoing(q, P) == [payload : P, to : {q}, delay : Nat]

(* What a handler schedules is numbered in the order of the outboxes.       *)
ScheduledInOrder(q, others, order, outbox, at) ==
  LET outs == others \o Collect(q, outbox, order)
      New == Scheduled(q, outs, at)
  IN
  /\ Len(outs) \in Nat
  /\ IsFiniteSet(New)
  /\ \A n \in New : n.seq \in Nat /\ seq <= n.seq /\ n.seq < seq + Len(outs)
  /\ \A m, n \in New : m.seq = n.seq => m = n
  /\ \E base \in [ToSet(order) -> Nat] :
       /\ \A p \in ToSet(order) : seq <= base[p]
       /\ New = Scheduled(q, others, at) \cup
                  UNION {Burst(q, p, at, base[p], outbox[p]) : p \in ToSet(order)}

(* The messages of a handler: those of the server to itself, and one burst  *)
(* for each peer of the order in which the handlers are visited.            *)
LEMMA HandlerMessages ==
  ASSUME NEW q \in Servers, NEW P, NEW others \in Seq(SelfOutgoing(q, P)),
         NEW order \in Seq(Servers), IsInjective(order),
         NEW L, NEW outbox, \A p \in ToSet(order) : outbox[p] \in Seq(L),
         NEW at \in Nat, seq \in Nat
  PROVE  ScheduledInOrder(q, others, order, outbox, at)
<1> DEFINE R == [payload : L, to : Servers, delay : Nat]
           to(p) == [j \in DOMAIN outbox[p] |->
                       [payload |-> outbox[p][j], to |-> p, delay |-> Delay[q][p]]]
           ss == [i \in DOMAIN order |-> to(order[i])]
           c == Collect(q, outbox, order)
           outs == others \o c
           k == Len(others)
           e(i) == [arrival |-> at + outs[i].delay, seq |-> seq + i - 1,
                    from |-> q, to |-> outs[i].to, payload |-> outs[i].payload]
<1>1. /\ DOMAIN order = 1..Len(order) /\ Len(order) \in Nat
      /\ \A i \in 1..Len(order) : order[i] \in Servers /\ order[i] \in ToSet(order)
      /\ ToSet(order) \subseteq Servers
      /\ \A i, j \in 1..Len(order) : order[i] = order[j] => i = j
      /\ \A p \in ToSet(order) : \E i \in 1..Len(order) : order[i] = p
  BY DEF ToSet, IsInjective
<1>2. \A p \in Servers : Delay[q][p] \in Nat
  BY EventQueueAssumption, LtBlockSyncAssumption
<1>3. ASSUME NEW p \in ToSet(order)
      PROVE  /\ to(p) \in Seq(R) /\ Len(to(p)) = Len(outbox[p])
             /\ \A j \in 1..Len(outbox[p]) :
                  to(p)[j] = [payload |-> outbox[p][j], to |-> p, delay |-> Delay[q][p]]
  <2> DEFINE b == outbox[p]
             f(j) == [payload |-> b[j], to |-> p, delay |-> Delay[q][p]]
             g == [j \in DOMAIN b |-> f(j)]
  <2>1. b \in Seq(L)
    OBVIOUS
  <2> HIDE DEF b
  <2>2. DOMAIN b = 1..Len(b) /\ Len(b) \in Nat /\ \A j \in 1..Len(b) : b[j] \in L
    BY <2>1
  <2>3. \A j \in 1..Len(b) : f(j) \in R
    BY <2>2, <1>1, <1>2
  <2> HIDE DEF f, R
  <2>4. g \in Seq(R) /\ Len(g) = Len(b) /\ \A j \in 1..Len(b) : g[j] = f(j)
    BY <2>2, <2>3
  <2> QED BY <2>4 DEF b, f, R
<1>4. /\ c = FlattenSeq(ss)
      /\ ss \in Seq(Seq(R)) /\ Len(ss) = Len(order)
      /\ \A i \in 1..Len(order) : ss[i] = to(order[i])
  <2>1. c = FlattenSeq(ss)
    BY DEF Collect
  <2> HIDE DEF to, R
  <2>2. \A i \in 1..Len(order) : to(order[i]) \in Seq(R)
    BY <1>1, <1>3
  <2>3. ss \in Seq(Seq(R)) /\ Len(ss) = Len(order) /\ \A i \in 1..Len(order) : ss[i] = to(order[i])
    BY <2>2, <1>1
  <2> QED BY <2>1, <2>3
<1> HIDE DEF to, R, ss, c
<1>5. c \in Seq(R)
  BY <1>4, FlattenSeqProperties
<1>6. PICK o : PartsAt(ss, Len(order), c, o)
  BY <1>4, FlattenSeqPositions
<1>7. /\ k \in Nat /\ Len(c) \in Nat /\ Len(outs) = k + Len(c) /\ DOMAIN outs = 1..k + Len(c)
      /\ DOMAIN others = 1..k
      /\ \A i \in 1..k + Len(c) : outs[i] = IF i <= k THEN others[i] ELSE c[i - k]
  BY <1>5 DEF c
<1> DEFINE New == Scheduled(q, outs, at)
<1>8. New = {e(i) : i \in 1..k + Len(c)}
  BY <1>7 DEF Scheduled
<1>9. Scheduled(q, others, at) = {e(i) : i \in 1..k}
  <2>1. \A i \in 1..k : i \in 1..k + Len(c) /\ outs[i] = others[i]
    BY <1>7
  <2> QED BY <2>1, <1>7 DEF Scheduled
<1>10. \A i \in 1..k + Len(c) :
         /\ e(i).seq = seq + i - 1 /\ e(i).seq \in Nat
         /\ seq <= e(i).seq /\ e(i).seq < seq + Len(outs)
  BY <1>7
<1>11. IsFiniteSet(New)
  <2> DEFINE f == [i \in 1..k + Len(c) |-> e(i)]
  <2>1. New = {f[i] : i \in 1..k + Len(c)}
    <3> HIDE DEF e
    <3> QED BY <1>8
  <2>2. IsFiniteSet(1..k + Len(c))
    <3>1. k + Len(c) \in Int /\ 1 \in Int
      BY <1>7
    <3> QED BY <3>1, FS_Interval
  <2> HIDE DEF f
  <2>3. IsFiniteSet({f[i] : i \in 1..k + Len(c)})
    BY <2>2, FiniteImage
  <2> QED BY <2>1, <2>3
<1>12. \A m, n \in New : m.seq = n.seq => m = n
  <2> HIDE DEF e
  <2>1. \A i, j \in 1..k + Len(c) : e(i).seq = e(j).seq => i = j
    BY <1>7, <1>10
  <2> QED BY <2>1, <1>8
<1> DEFINE at_(p) == CHOOSE i \in 1..Len(order) : order[i] = p
           base == [p \in ToSet(order) |-> seq + k + o[at_(p)]]
<1>13. \A i \in 1..Len(order) : at_(order[i]) = i
  BY <1>1
<1> HIDE DEF at_
<1>14. /\ \A i \in 1..Len(order) : o[i] \in Nat
       /\ \A i \in 1..Len(order) : \A j \in 1..Len(ss[i]) :
            o[i] + j \in 1..Len(c) /\ c[o[i] + j] = ss[i][j]
       /\ \A l \in 1..Len(c) : \E i \in 1..Len(order) : l - o[i] \in 1..Len(ss[i])
       /\ \A i \in 1..Len(order) : Len(ss[i]) \in Nat
  <2>1. \A i \in 1..Len(order) : ss[i] \in Seq(R)
    BY <1>4
  <2>2. \A i \in 1..Len(order) : Len(ss[i]) \in Nat
    BY <2>1
  <2> QED BY <2>2, <1>6 DEF PartsAt
<1>15. /\ base \in [ToSet(order) -> Nat]
       /\ \A i \in 1..Len(order) : base[order[i]] = seq + k + o[i]
       /\ \A p \in ToSet(order) : seq <= base[p]
  <2>1. \A i \in 1..Len(order) : /\ base[order[i]] = seq + k + o[i]
                                 /\ base[order[i]] \in Nat /\ seq <= base[order[i]]
    <3> TAKE i \in 1..Len(order)
    <3>1. base[order[i]] = seq + k + o[i]
      BY <1>1, <1>13
    <3>2. k \in Nat /\ o[i] \in Nat /\ seq \in Nat
      BY <1>7, <1>14
    <3> HIDE DEF k, base
    <3> QED BY <3>1, <3>2
  <2> HIDE DEF base
  <2>2. \A p \in ToSet(order) : base[p] \in Nat /\ seq <= base[p]
    BY <2>1, <1>1
  <2> QED BY <2>1, <2>2 DEF base
<1> HIDE DEF base
<1>16. ASSUME NEW i \in 1..Len(order), NEW j \in 1..Len(ss[i])
       PROVE  /\ k + (o[i] + j) \in k + 1..k + Len(c)
              /\ e(k + (o[i] + j)) =
                   [arrival |-> at + Delay[q][order[i]], seq |-> base[order[i]] + j - 1, from |-> q,
                    to |-> order[i], payload |-> outbox[order[i]][j]]
  <2> DEFINE h == o[i] + j
  <2>1. /\ o[i] \in Nat /\ h \in 1..Len(c) /\ c[h] = ss[i][j] /\ j \in Nat
    <3>1. Len(ss[i]) \in Nat
      BY <1>14
    <3> QED BY <3>1, <1>14
  <2>2. seq + k + o[i] + j - 1 = seq + (k + h) - 1
    <3>1. \A x, y, z, u \in Nat : u + z + x + y - 1 = u + (z + (x + y)) - 1
      OBVIOUS
    <3>2. k \in Nat /\ seq \in Nat /\ o[i] \in Nat /\ j \in Nat
      BY <2>1, <1>7
    <3> HIDE DEF k
    <3> QED BY <3>1, <3>2
  <2> HIDE DEF h, k
  <2>3. k + h \in k + 1..k + Len(c) /\ k + h \in 1..k + Len(c) /\ ~(k + h <= k) /\ (k + h) - k = h
    BY <2>1, <1>7
  <2>5. outs[k + h] = ss[i][j]
    BY <2>1, <2>3, <1>7
  <2>4. ss[i][j] = [payload |-> outbox[order[i]][j], to |-> order[i], delay |-> Delay[q][order[i]]]
    BY <1>1, <1>3, <1>4
  <2> QED BY <2>2, <2>3, <2>4, <2>5, <1>15 DEF h
<1>17. {e(i) : i \in k + 1..k + Len(c)} = UNION {Burst(q, p, at, base[p], outbox[p]) : p \in ToSet(order)}
  <2> DEFINE msg(i, j) == [arrival |-> at + Delay[q][order[i]], seq |-> base[order[i]] + j - 1, from |-> q,
                           to |-> order[i], payload |-> outbox[order[i]][j]]
  <2>1. ASSUME NEW i \in 1..Len(order)
        PROVE  Burst(q, order[i], at, base[order[i]], outbox[order[i]]) = {msg(i, j) : j \in 1..Len(ss[i])}
    <3>1. outbox[order[i]] \in Seq(L)
      BY <1>1
    <3>2. DOMAIN outbox[order[i]] = 1..Len(ss[i])
      BY <3>1, <1>1, <1>3, <1>4
    <3> QED BY <3>2 DEF Burst
  <2>2. ASSUME NEW l \in k + 1..k + Len(c)
        PROVE  \E i \in 1..Len(order) : \E j \in 1..Len(ss[i]) : l = k + (o[i] + j)
    <3>1. l - k \in 1..Len(c)
      BY <1>7
    <3>2. PICK i \in 1..Len(order) : (l - k) - o[i] \in 1..Len(ss[i])
      BY <3>1, <1>14
    <3>3. \A x, y, z \in Int : x = y + (z + ((x - y) - z))
      OBVIOUS
    <3>4. l = k + (o[i] + ((l - k) - o[i]))
      BY <3>3, <1>7, <1>14
    <3> QED BY <3>2, <3>4
  <2> HIDE DEF msg, e
  <2>3. \A i \in 1..Len(order) : \A j \in 1..Len(ss[i]) :
          k + (o[i] + j) \in k + 1..k + Len(c) /\ e(k + (o[i] + j)) = msg(i, j)
    BY <1>16 DEF msg
  <2>4. UNION {Burst(q, p, at, base[p], outbox[p]) : p \in ToSet(order)}
          = UNION {{msg(i, j) : j \in 1..Len(ss[i])} : i \in 1..Len(order)}
    <3> DEFINE B(p) == Burst(q, p, at, base[p], outbox[p])
    <3>1. \A i \in 1..Len(order) : B(order[i]) = {msg(i, j) : j \in 1..Len(ss[i])}
      BY <2>1
    <3> DEFINE M(i) == {msg(i, j) : j \in 1..Len(ss[i])}
    <3> HIDE DEF B, M
    <3>2. \A i \in 1..Len(order) : order[i] \in ToSet(order)
      BY <1>1
    <3>3. \A p \in ToSet(order) : \E i \in 1..Len(order) : order[i] = p
      BY <1>1
    <3>4. \A i \in 1..Len(order) : B(order[i]) = M(i)
      BY <3>1 DEF M
    <3>5. UNION {B(p) : p \in ToSet(order)} = UNION {M(i) : i \in 1..Len(order)}
      BY <3>2, <3>3, <3>4
    <3> QED BY <3>5 DEF B, M
  <2>5. {e(i) : i \in k + 1..k + Len(c)} \subseteq UNION {{msg(i, j) : j \in 1..Len(ss[i])} : i \in 1..Len(order)}
    BY <2>2, <2>3
  <2>6. UNION {{msg(i, j) : j \in 1..Len(ss[i])} : i \in 1..Len(order)} \subseteq {e(i) : i \in k + 1..k + Len(c)}
    BY <2>3
  <2> QED BY <2>4, <2>5, <2>6
<1>18. 1..k + Len(c) = 1..k \cup (k + 1..k + Len(c))
  BY <1>7
<1>19. New = Scheduled(q, others, at) \cup
               UNION {Burst(q, p, at, base[p], outbox[p]) : p \in ToSet(order)}
  <2> HIDE DEF e
  <2> QED BY <1>8, <1>9, <1>17, <1>18
<1>20. Len(outs) \in Nat
  BY <1>7
<1>21. \A n \in New : n.seq \in Nat /\ seq <= n.seq /\ n.seq < seq + Len(outs)
  <2> HIDE DEF e
  <2> QED BY <1>8, <1>10
<1> HIDE DEF New, outs
<1> QED BY <1>11, <1>12, <1>15, <1>19, <1>20, <1>21 DEF New, outs, c, ScheduledInOrder

-----------------------------------------------------------------------------
(* The sender o sends count codewords of its block, the first of which      *)
(* announces the block if it is new.                                        *)
Sends(o, count, isNew, f) ==
  /\ f.state = [o EXCEPT !.inFlight = @ + count, !.sent = @ + count]
  /\ f.outbox = Codewords(o, count, isNew)

(* Sender o has begun its next block, with the transactions in the buffer   *)
(* of n, unless it goes on with what n was doing.                           *)
Begun(n, o) ==
  /\ ~n.encodingCurrentBlock /\ o.encodingCurrentBlock
  /\ o.block = n.buffer /\ n.buffer # <<>> /\ o.buffer = <<>>
  /\ o.inFlight = n.inFlight

(* A window has room for one codeword, if its block is not too small.       *)
LEMMA WindowProperties ==
  ASSUME NEW l \in Nat, l >= minBlockSize
  PROVE  l > 0 /\ SendWindow(l) \in Nat \ {0}
<1> DEFINE m == minBlockSize
<1>1. /\ OverheadNum \in Nat \ {0} /\ OverheadDen \in Nat \ {0} /\ detectThreshold \in Nat
      /\ SendWindow(m) > 0
  BY LtBlockSyncAssumption
<1>2. m \in Nat
  <2> DEFINE d == detectThreshold * OverheadDen
  <2>1. d \in Nat /\ m = d \div OverheadNum
    BY <1>1 DEF minBlockSize
  <2> HIDE DEF d, m
  <2>2. \A x \in Nat, y \in Nat \ {0} : x \div y \in Nat
    OBVIOUS
  <2> QED BY <2>1, <2>2, <1>1
<1> HIDE DEF m
<1> DEFINE a == m * OverheadNum
           b == l * OverheadNum
<1>3. a \in Nat /\ b \in Nat /\ a <= b
  <2>1. \A x, y, z \in Nat : x <= y => x * z <= y * z /\ x * z \in Nat
    OBVIOUS
  <2> QED BY <2>1, <1>1, <1>2 DEF m
<1>4. a \div OverheadDen > 0 /\ a > 0
  <2>1. a \div OverheadDen > 0
    BY <1>1 DEF SendWindow
  <2> HIDE DEF a
  <2>2. \A y \in Nat \ {0} : 0 \div y = 0
    OBVIOUS
  <2> QED BY <2>1, <2>2, <1>1, <1>3
<1>5. b \div OverheadDen \in Nat /\ b \div OverheadDen > 0
  <2> HIDE DEF a, b
  <2>1. \A x, y \in Nat, z \in Nat \ {0} :
          x <= y => x \div z \in Nat /\ y \div z \in Nat /\ x \div z <= y \div z
    OBVIOUS
  <2>2. a \div OverheadDen <= b \div OverheadDen /\ a \div OverheadDen \in Nat /\ b \div OverheadDen \in Nat
    BY <2>1, <1>1, <1>3
  <2> QED BY <2>2, <1>4
<1>6. l > 0
  <2>1. m > 0
    <3>1. m = 0 => a = 0
      BY <1>1
    <3> QED BY <3>1, <1>2, <1>4
  <2> QED BY <2>1, <1>2 DEF m
<1> QED BY <1>5, <1>6 DEF SendWindow

(* A sender that may, and has enough, begins the next block; one with a     *)
(* block fills its window.                                                  *)
LEMMA TryFillProperties ==
  ASSUME NEW n \in SenderType, NEW may \in BOOLEAN
  PROVE  LET f == TryFillSendWindow(n, may) IN
         \/ \E o \in SenderType : Begun(n, o) /\ \E count \in Nat \ {0} : Sends(o, count, TRUE, f)
         \/ /\ n.encodingCurrentBlock
            /\ \E count \in Nat : Sends(n, count, FALSE, f) /\ n.inFlight + count > 0
         \/ /\ ~n.encodingCurrentBlock
            /\ Sends(n, 0, FALSE, f)
            /\ may => n.inFlight > 0 \/ Len(n.buffer) < minBlockSize
<1> DEFINE f == TryFillSendWindow(n, may)
           new == NextBlock(n)
<1>1. /\ n.buffer \in Seq(Tx) /\ n.block \in Seq(Tx) /\ n.sendWindow \in Nat \ {0}
      /\ n.inFlight \in Nat /\ n.encodingCurrentBlock \in BOOLEAN /\ n.sent \in Nat
  BY DEF SenderType
<1>2. CASE Starts(n, may)
  <2>1. ~n.encodingCurrentBlock /\ Len(n.buffer) >= minBlockSize /\ Len(n.buffer) \in Nat
    BY <1>1, <1>2 DEF Starts
  <2>2. Len(n.buffer) > 0 /\ SendWindow(Len(n.buffer)) \in Nat \ {0}
    BY <2>1, WindowProperties
  <2>3. new \in SenderType /\ Begun(n, new)
    <3>1. n.buffer # <<>>
      BY <2>2
    <3>2. /\ new.block = n.buffer /\ new.buffer = <<>> /\ new.sent = 0
          /\ new.sendWindow = SendWindow(Len(n.buffer))
          /\ new.encodingCurrentBlock = TRUE /\ new.inFlight = n.inFlight
      BY DEF NextBlock, SenderType
    <3>3. new \in SenderType
      <4> DEFINE w == SendWindow(Len(n.buffer))
                 m1 == [n EXCEPT !.block = n.buffer, !.buffer = <<>>, !.sent = 0]
      <4>1. m1 \in SenderType
        <5>1. <<>> \in Seq(Tx) /\ 0 \in Nat
          OBVIOUS
        <5> QED BY <5>1, <1>1 DEF SenderType
      <4>2. new = [m1 EXCEPT !.sendWindow = w, !.encodingCurrentBlock = TRUE]
        <5> HIDE DEF w
        <5> QED BY DEF NextBlock, SenderType, w
      <4> HIDE DEF m1, w
      <4>3. [m1 EXCEPT !.sendWindow = w, !.encodingCurrentBlock = TRUE] \in SenderType
        <5>1. w \in Nat \ {0}
          BY <2>2 DEF w
        <5> QED BY <4>1, <5>1 DEF SenderType
      <4> QED BY <4>2, <4>3
    <3> HIDE DEF new
    <3> QED BY <3>1, <3>2, <3>3, <2>1 DEF Begun
  <2> DEFINE count == Max({1, new.sendWindow - new.inFlight})
  <2>4. count \in Nat \ {0}
    <3> DEFINE room == new.sendWindow - new.inFlight
    <3>1. room \in Int
      BY <2>3 DEF SenderType
    <3> HIDE DEF room
    <3>2. Max({1, room}) \in {1, room} /\ Max({1, room}) >= 1
      BY <3>1, MaxOfTwo
    <3>3. Max({1, room}) \in Nat \ {0}
      BY <3>1, <3>2
    <3> QED BY <3>3 DEF room
  <2>5. f.state = [new EXCEPT !.inFlight = @ + count, !.sent = @ + count]
        /\ f.outbox = Codewords(new, count, TRUE)
    <3>1. new.encodingCurrentBlock
      BY <2>3 DEF Begun
    <3> HIDE DEF new
    <3> QED BY <1>2, <3>1 DEF TryFillSendWindow, new
  <2> HIDE DEF new, count, f
  <2> QED BY <2>3, <2>4, <2>5 DEF Sends, f
<1>3. CASE ~Starts(n, may) /\ n.encodingCurrentBlock
  <2> DEFINE room == n.sendWindow - n.inFlight
             count == Max({0, room})
  <2>1. count \in Nat /\ n.inFlight + count > 0
    <3>1. room \in Int
      BY <1>1
    <3>2. count \in {0, room} /\ count >= 0 /\ count >= room
      <4> HIDE DEF room
      <4> QED BY <3>1, MaxOfTwo
    <3> HIDE DEF count
    <3> QED BY <1>1, <3>1, <3>2
  <2>2. f.state = [n EXCEPT !.inFlight = @ + count, !.sent = @ + count]
        /\ f.outbox = Codewords(n, count, FALSE)
    <3> DEFINE S == Starts(n, may)
    <3>1. ~S /\ (IF S THEN 1 ELSE 0) = 0 /\ (IF S THEN NextBlock(n) ELSE n) = n
      BY <1>3
    <3>2. count = Max({IF S THEN 1 ELSE 0, n.sendWindow - n.inFlight})
      BY <3>1
    <3> HIDE DEF S, count
    <3>3. TryFillSendWindow(n, may) =
            [state |-> [n EXCEPT !.inFlight = @ + count, !.sent = @ + count],
             outbox |-> Codewords(n, count, S)]
      BY <1>3, <3>1, <3>2 DEF TryFillSendWindow, S
    <3>4. Codewords(n, count, S) = Codewords(n, count, FALSE)
      BY <3>1 DEF Codewords
    <3> QED BY <3>3, <3>4
  <2> HIDE DEF count, f
  <2> QED BY <1>3, <2>1, <2>2 DEF Sends, f
<1>4. CASE ~Starts(n, may) /\ ~n.encodingCurrentBlock
  <2> DEFINE count == 0
  <2>1. f.state = [n EXCEPT !.inFlight = @ + count, !.sent = @ + count]
        /\ f.outbox = Codewords(n, count, FALSE)
    <3> DEFINE S == Starts(n, may)
    <3>1. ~S /\ (IF S THEN NextBlock(n) ELSE n) = n
      BY <1>4
    <3> HIDE DEF S
    <3>2. TryFillSendWindow(n, may) =
            [state |-> [n EXCEPT !.inFlight = @ + count, !.sent = @ + count],
             outbox |-> Codewords(n, count, S)]
      BY <1>4, <3>1 DEF TryFillSendWindow, S
    <3> HIDE DEF count
    <3>3. Codewords(n, count, S) = Codewords(n, count, FALSE)
      BY <3>1 DEF Codewords
    <3> QED BY <3>2, <3>3
  <2>2. may => n.inFlight > 0 \/ Len(n.buffer) < minBlockSize
    <3> SUFFICES ASSUME may, ~(Len(n.buffer) < minBlockSize) PROVE n.inFlight > 0
      OBVIOUS
    <3>1. minBlockSize \in Int
      BY LtBlockSyncAssumption DEF minBlockSize
    <3>2. Len(n.buffer) >= minBlockSize
      BY <1>1, <3>1
    <3>3. ~(n.inFlight < n.sendWindow)
      BY <1>4, <3>2 DEF Starts
    <3> QED BY <1>1, <3>3
  <2> HIDE DEF f
  <2> QED BY <1>4, <2>1, <2>2 DEF Sends, f
<1> QED BY <1>2, <1>3, <1>4

(* What is then in the outbox.                                              *)
LEMMA SendsProperties ==
  ASSUME NEW o \in SenderType, NEW count \in Nat, NEW isNew \in BOOLEAN, NEW f,
         Sends(o, count, isNew, f), o.block # <<>> \/ count = 0
  PROVE  /\ f.state \in SenderType
         /\ f.state.buffer = o.buffer /\ f.state.block = o.block
         /\ f.state.encodingCurrentBlock = o.encodingCurrentBlock
         /\ f.state.inFlight = o.inFlight + count
         /\ f.outbox \in Seq(CodewordType) /\ Len(f.outbox) = count
         /\ \A i \in 1..count :
              /\ f.outbox[i].newBlock <=> isNew /\ i = 1
              /\ f.outbox[i].block = o.block
<1>1. /\ o.inFlight \in Nat /\ o.sent \in Nat /\ o.block \in Seq(Tx)
      /\ o.inFlight + count \in Nat /\ o.sent + count \in Nat
  BY DEF SenderType
<1> DEFINE a == o.inFlight + count
           b == o.sent + count
           m == [o EXCEPT !.inFlight = a, !.sent = b]
<1>2. f.state = m
  BY DEF Sends
<1> HIDE DEF a, b
<1>3. /\ m \in SenderType
      /\ m.buffer = o.buffer /\ m.block = o.block
      /\ m.encodingCurrentBlock = o.encodingCurrentBlock
      /\ m.inFlight = a
  BY <1>1 DEF SenderType, a, b
<1> DEFINE e(i) == [type |-> "codeword", newBlock |-> isNew /\ i = 1,
                    number |-> o.sent + i, block |-> o.block]
           x == [i \in 1..count |-> e(i)]
<1>4. f.outbox = x
  BY DEF Sends, Codewords
<1>5. \A i \in 1..count : /\ e(i) \in CodewordType
                          /\ e(i).newBlock <=> isNew /\ i = 1
                          /\ e(i).block = o.block
  <2> SUFFICES ASSUME NEW i \in 1..count
               PROVE  /\ e(i) \in CodewordType
                      /\ e(i).newBlock <=> isNew /\ i = 1
                      /\ e(i).block = o.block
    OBVIOUS
  <2>1. o.sent + i \in Nat /\ o.block # <<>>
    BY <1>1
  <2> QED BY <1>1, <2>1 DEF CodewordType
<1> HIDE DEF e, m
<1>6. x \in Seq(CodewordType) /\ Len(x) = count /\ \A i \in 1..count : x[i] = e(i)
  BY <1>5
<1> HIDE DEF x
<1> QED BY <1>2, <1>3, <1>4, <1>5, <1>6 DEF a

(* Messages X from q to p are numbered from b, in the order of outbox o.    *)
Numbered(X, q, p, at, b, o) ==
  /\ IsFiniteSet(X) /\ Cardinality(X) = Len(o)
  /\ \A x \in X : /\ x.from = q /\ x.to = p /\ x.arrival = at + Delay[q][p]
                  /\ \E i \in 1..Len(o) : x.seq = b + i - 1 /\ x.payload = o[i]
  /\ \A i \in 1..Len(o) : \E x \in X : x.seq = b + i - 1 /\ x.payload = o[i]
  /\ \A x, y \in X : x.seq = y.seq => x = y

(* A burst is numbered from b on, in the order of the outbox.               *)
LEMMA BurstProperties ==
  ASSUME NEW q, NEW p, NEW at, NEW b \in Nat, NEW L, NEW o \in Seq(L),
         NEW X, X = Burst(q, p, at, b, o)
  PROVE  Numbered(X, q, p, at, b, o)
<1> DEFINE e(i) == [arrival |-> at + Delay[q][p], seq |-> b + i - 1, from |-> q, to |-> p, payload |-> o[i]]
<1>1. DOMAIN o = 1..Len(o) /\ Len(o) \in Nat
  OBVIOUS
<1>2. X = {e(i) : i \in 1..Len(o)}
  BY <1>1 DEF Burst
<1>3. \A i \in 1..Len(o) : /\ e(i).from = q /\ e(i).to = p /\ e(i).arrival = at + Delay[q][p]
                           /\ e(i).seq = b + i - 1 /\ e(i).payload = o[i]
  OBVIOUS
<1> HIDE DEF e
<1>4. \A i, j \in 1..Len(o) : e(i).seq = e(j).seq => i = j
  BY <1>1, <1>3
<1> DEFINE f == [i \in 1..Len(o) |-> e(i)]
<1>5. f \in Bijection(1..Len(o), X)
  BY <1>2, <1>4 DEF Bijection, Injection, Surjection, IsInjective
<1>6. IsFiniteSet(1..Len(o)) /\ Cardinality(1..Len(o)) = Len(o)
  <2>1. 1 \in Int /\ Len(o) \in Int
    BY <1>1
  <2>2. IsFiniteSet(1..Len(o)) /\ Cardinality(1..Len(o)) = IF 1 > Len(o) THEN 0 ELSE Len(o) - 1 + 1
    BY <2>1, FS_Interval
  <2> QED BY <1>1, <2>2
<1>7. IsFiniteSet(X) /\ Cardinality(X) = Len(o)
  <2> HIDE DEF f
  <2>1. ExistsBijection(1..Len(o), X)
    BY <1>5 DEF ExistsBijection
  <2> QED BY <2>1, <1>6, FS_Bijection
<1>8. \A x, y \in X : x.seq = y.seq => x = y
  BY <1>2, <1>4
<1> QED BY <1>2, <1>3, <1>7, <1>8 DEF Numbered

-----------------------------------------------------------------------------
(* What is said about a link is said about finite sets of messages, of      *)
(* which no two have the same number.                                       *)
LinkSets(C, A) ==
  /\ IsFiniteSet(C) /\ IsFiniteSet(A)
  /\ \A m \in C : m.seq \in Nat /\ m.payload \in CodewordType
  /\ \A m \in A : m.payload \in AckType
  /\ \A m, n \in C : m.seq = n.seq => m = n

(* What is counted on a link is finite.                                     *)
LEMMA LinkCounts ==
  ASSUME NEW C, NEW A, LinkSets(C, A)
  PROVE  /\ IsFiniteSet(Announcing(C)) /\ IsFiniteSet(Concluding(A))
         /\ Cardinality(C) \in Nat /\ Cardinality(A) \in Nat
         /\ Cardinality(Announcing(C)) \in Nat /\ Cardinality(Concluding(A)) \in Nat
         /\ Cardinality(Announcing(C)) = 0 <=> Announcing(C) = {}
         /\ Cardinality(Concluding(A)) = 0 <=> Concluding(A) = {}
<1>1. Announcing(C) \in SUBSET C /\ Concluding(A) \in SUBSET A
  BY DEF Announcing, Concluding
<1>2. IsFiniteSet(Announcing(C)) /\ IsFiniteSet(Concluding(A)) /\ IsFiniteSet(C) /\ IsFiniteSet(A)
  BY <1>1, FS_Subset DEF LinkSets
<1> QED BY <1>2, FS_CardinalityType, FS_EmptySet

(* The sender fills its window: in its block, or with the first codewords   *)
(* of the next.  It need not have gone on before.                           *)
Filled(s, n, r, C, A, f, X) ==
  /\ f.state \in SenderType /\ f.outbox \in Seq(CodewordType)
  /\ LinkCore(f.state, r, C \cup X, A)
  /\ GoesOn(s, f.state)
  /\ \/ f.state.buffer = n.buffer /\ f.state.block = n.block
     \/ f.state.buffer = <<>> /\ f.state.block = n.buffer
  /\ \A i \in 1..Len(f.outbox) : f.outbox[i].block = f.state.block

(* tryFillSendWindow keeps what holds of a link, and makes the sender go    *)
(* on.                                                                      *)
LEMMA WindowFilled ==
  ASSUME NEW s \in Servers, NEW n \in SenderType, NEW r \in ReceiverType,
         NEW C, NEW A, LinkSets(C, A), LinkCore(n, r, C, A),
         NEW may \in BOOLEAN, canStartNewBlock(s) => may,
         NEW f, f = TryFillSendWindow(n, may),
         NEW q, NEW p, NEW at, NEW b \in Nat, \A m \in C : m.seq < b,
         NEW X, X = Burst(q, p, at, b, f.outbox)
  PROVE  Filled(s, n, r, C, A, f, X)
<1> DEFINE ann == Cardinality(Announcing(C))
           con == Cardinality(Concluding(A))
<1>1. /\ IsFiniteSet(Announcing(C)) /\ Cardinality(C) \in Nat /\ Cardinality(A) \in Nat
      /\ ann \in Nat /\ con \in Nat
      /\ ann = 0 <=> Announcing(C) = {}
      /\ con = 0 <=> Concluding(A) = {}
  BY LinkCounts
<1>2. /\ n.inFlight \in Nat /\ n.buffer \in Seq(Tx) /\ n.encodingCurrentBlock \in BOOLEAN
      /\ \A m \in C : m.seq \in Nat
      /\ IsFiniteSet(C)
  BY DEF SenderType, LinkSets
<1>3. ASSUME NEW o \in SenderType, NEW count \in Nat, NEW isNew \in BOOLEAN, Sends(o, count, isNew, f),
             o.block # <<>> \/ count = 0
      PROVE  /\ f.state \in SenderType /\ f.outbox \in Seq(CodewordType) /\ Len(f.outbox) = count
             /\ f.state.buffer = o.buffer /\ f.state.block = o.block
             /\ f.state.encodingCurrentBlock = o.encodingCurrentBlock
             /\ f.state.inFlight = o.inFlight + count
             /\ Cardinality(C \cup X) = Cardinality(C) + count
             /\ \A m \in X : m.seq \in Nat /\ b <= m.seq /\ m.payload.block = o.block
             /\ \A m \in X : m.payload.newBlock <=> isNew /\ m.seq = b
             /\ count > 0 => \E m \in X : m.seq = b
             /\ \A l, m \in X : l.seq = m.seq => l = m
             /\ \A i \in 1..Len(f.outbox) : f.outbox[i].block = o.block
  <2>1. /\ f.state \in SenderType /\ f.outbox \in Seq(CodewordType) /\ Len(f.outbox) = count
        /\ f.state.buffer = o.buffer /\ f.state.block = o.block
        /\ f.state.encodingCurrentBlock = o.encodingCurrentBlock
        /\ f.state.inFlight = o.inFlight + count
        /\ \A i \in 1..count :
              /\ f.outbox[i].newBlock <=> isNew /\ i = 1
              /\ f.outbox[i].block = o.block
    BY <1>3, SendsProperties
  <2> DEFINE out == f.outbox
  <2>2. out \in Seq(CodewordType) /\ X = Burst(q, p, at, b, out)
    BY <2>1
  <2> HIDE DEF out
  <2>3. /\ IsFiniteSet(X) /\ Cardinality(X) = Len(out)
        /\ \A x \in X : \E i \in 1..Len(out) : x.seq = b + i - 1 /\ x.payload = out[i]
        /\ \A i \in 1..Len(out) : \E x \in X : x.seq = b + i - 1 /\ x.payload = out[i]
        /\ \A l, m \in X : l.seq = m.seq => l = m
    <3>1. Numbered(X, q, p, at, b, out)
      BY <2>2, BurstProperties
    <3> QED BY <3>1 DEF Numbered
  <2>4. Len(out) = count /\ \A i \in 1..count : /\ out[i].newBlock <=> isNew /\ i = 1
                                                /\ out[i].block = o.block
    BY <2>1 DEF out
  <2>5. ASSUME NEW m \in X
        PROVE  /\ m.seq \in Nat /\ b <= m.seq /\ m.payload.block = o.block
               /\ m.payload.newBlock <=> isNew /\ m.seq = b
    <3>1. PICK i \in 1..count : m.seq = b + i - 1 /\ m.payload = out[i]
      BY <2>3, <2>4
    <3>2. m.seq \in Nat /\ b <= m.seq /\ (m.seq = b <=> i = 1)
      BY <3>1
    <3> QED BY <3>1, <3>2, <2>4
  <2>6. count > 0 => \E m \in X : m.seq = b
    <3>1. count > 0 => 1 \in 1..Len(out) /\ b + 1 - 1 = b
      BY <2>4
    <3> QED BY <3>1, <2>3
  <2>7. Cardinality(C \cup X) = Cardinality(C) + count
    <3>1. C \cap X = {}
      <4> SUFFICES ASSUME NEW m \in C, m \in X PROVE FALSE
        OBVIOUS
      <4>1. m.seq < b /\ b <= m.seq /\ m.seq \in Nat
        BY <2>5
      <4> QED BY <4>1
    <3>2. Cardinality(C \cup X) = Cardinality(C) + Cardinality(X) - Cardinality(C \cap X)
      BY <1>2, <2>3, FS_Union
    <3>3. Cardinality(C \cup X) = Cardinality(C) + count - 0
      BY <3>1, <3>2, <2>3, <2>4, FS_EmptySet
    <3> QED BY <3>3, <1>1
  <2> QED BY <2>1, <2>3, <2>5, <2>6, <2>7
<1>4. Announcing(C \cup X) = Announcing(C) \cup Announcing(X)
  BY DEF Announcing
<1> DEFINE g == f.state
<1>5. CASE \E o \in SenderType : Begun(n, o) /\ \E count \in Nat \ {0} : Sends(o, count, TRUE, f)
  <2>1. PICK o \in SenderType : Begun(n, o) /\ \E count \in Nat \ {0} : Sends(o, count, TRUE, f)
    BY <1>5
  <2>2. PICK count \in Nat \ {0} : Sends(o, count, TRUE, f)
    BY <2>1
  <2>3. /\ ~n.encodingCurrentBlock /\ o.encodingCurrentBlock
        /\ o.block = n.buffer /\ n.buffer # <<>> /\ o.buffer = <<>>
        /\ o.inFlight = n.inFlight
    BY <2>1 DEF Begun
  <2>4. /\ g \in SenderType /\ f.outbox \in Seq(CodewordType)
        /\ g.buffer = <<>> /\ g.block = n.buffer /\ g.encodingCurrentBlock
        /\ g.inFlight = n.inFlight + count
        /\ Cardinality(C \cup X) = Cardinality(C) + count
        /\ \A m \in X : m.seq \in Nat /\ b <= m.seq /\ m.payload.block = g.block
        /\ \A m \in X : m.payload.newBlock <=> m.seq = b
        /\ \E m \in X : m.seq = b
        /\ \A l, m \in X : l.seq = m.seq => l = m
        /\ \A i \in 1..Len(f.outbox) : f.outbox[i].block = g.block
    <3>1. o.block # <<>> /\ count \in Nat /\ count > 0
      BY <2>3
    <3>2. /\ g \in SenderType /\ f.outbox \in Seq(CodewordType)
          /\ g.buffer = o.buffer /\ g.block = o.block
          /\ g.encodingCurrentBlock = o.encodingCurrentBlock
          /\ g.inFlight = o.inFlight + count
          /\ Cardinality(C \cup X) = Cardinality(C) + count
      BY <3>1, <2>2, <1>3
    <3>3. /\ \A m \in X : m.seq \in Nat /\ b <= m.seq /\ m.payload.block = o.block
          /\ \A m \in X : m.payload.newBlock <=> TRUE /\ m.seq = b
          /\ \E m \in X : m.seq = b
          /\ \A l, m \in X : l.seq = m.seq => l = m
          /\ \A i \in 1..Len(f.outbox) : f.outbox[i].block = o.block
      BY <3>1, <2>2, <1>3
    <3> HIDE DEF g
    <3> QED BY <3>2, <3>3, <2>3
  <2> HIDE DEF g
  <2>5. ann = 0 /\ con = 0 /\ ~Decoding(r) /\ Announcing(C) = {} /\ Concluding(A) = {}
    <3>1. ann + (IF Decoding(r) THEN 1 ELSE 0) + con = 0
      BY <2>3 DEF LinkCore, Handshakes
    <3> HIDE DEF ann, con
    <3> QED BY <3>1, <1>1
  <2>6. PICK x \in X : x.seq = b
    BY <2>4
  <2>7. Announcing(C \cup X) = {x}
    BY <2>4, <2>5, <2>6, <1>4 DEF Announcing
  <2>8. Handshakes(g, r, C \cup X, A)
    <3>1. Cardinality(Announcing(C \cup X)) = 1
      BY <2>7, FS_Singleton
    <3>2. Cardinality(Concluding(A)) = 0
      BY <2>5
    <3> QED BY <3>1, <3>2, <2>4, <2>5 DEF Handshakes
  <2>9. BlocksAgree(g, r, C \cup X, A)
    <3>1. ASSUME NEW m \in C PROVE ~Behind(m, C \cup X)
      <4>1. m.seq \in Nat /\ m.seq < b
        BY <1>2
      <4>2. Behind(m, C \cup X) => x.seq <= m.seq
        BY <2>7 DEF Behind
      <4> QED BY <4>1, <4>2, <2>6
    <3>2. \A m \in X : Behind(m, C \cup X)
      BY <2>4, <2>6, <2>7 DEF Behind
    <3>3. r.curCodewords = <<>> => C = {}
      BY <2>5 DEF LinkCore, BlocksAgree, Behind
    <3> QED BY <3>1, <3>2, <3>3, <2>4, <2>5 DEF BlocksAgree
  <2>10. g.inFlight = Cardinality(C \cup X) + Cardinality(A) /\ g.inFlight > 0
    BY <2>4, <1>1, <1>2 DEF LinkCore
  <2> QED BY <2>3, <2>4, <2>8, <2>9, <2>10 DEF LinkCore, GoesOn, g, Filled
<1>6. CASE n.encodingCurrentBlock /\ \E count \in Nat : Sends(n, count, FALSE, f) /\ n.inFlight + count > 0
  <2>1. PICK count \in Nat : Sends(n, count, FALSE, f) /\ n.inFlight + count > 0
    BY <1>6
  <2>2. n.block # <<>>
    BY <1>6 DEF LinkCore
  <2>3. /\ g \in SenderType /\ f.outbox \in Seq(CodewordType)
        /\ g.buffer = n.buffer /\ g.block = n.block /\ g.encodingCurrentBlock
        /\ g.inFlight = n.inFlight + count
        /\ Cardinality(C \cup X) = Cardinality(C) + count
        /\ \A m \in X : m.seq \in Nat /\ b <= m.seq /\ m.payload.block = g.block
        /\ \A m \in X : ~m.payload.newBlock
        /\ \A i \in 1..Len(f.outbox) : f.outbox[i].block = g.block
    BY <2>1, <2>2, <1>3, <1>6
  <2> HIDE DEF g
  <2>4. Announcing(C \cup X) = Announcing(C)
    BY <2>3, <1>4 DEF Announcing
  <2>5. Handshakes(g, r, C \cup X, A)
    BY <2>3, <2>4, <1>6 DEF LinkCore, Handshakes
  <2>6. BlocksAgree(g, r, C \cup X, A)
    <3>1. \A m \in C : Behind(m, C \cup X) <=> Behind(m, C)
      BY <2>4 DEF Behind
    <3>2. ASSUME r.curCodewords = <<>>, NEW m \in X PROVE Behind(m, C \cup X)
      <4>1. Concluding(A) = {} /\ ~Decoding(r)
        BY <3>2 DEF LinkCore, BlocksAgree, Decoding
      <4>2. ann = 1
        <5>1. ann + 0 + con = 1
          BY <4>1, <1>6 DEF LinkCore, Handshakes
        <5> HIDE DEF ann, con
        <5> QED BY <4>1, <5>1, <1>1
      <4>3. PICK a \in C : a \in Announcing(C)
        <5>1. Announcing(C) # {}
          BY <4>2, FS_EmptySet
        <5> QED BY <5>1 DEF Announcing
      <4>4. a.seq <= m.seq
        BY <4>3, <2>3, <1>2
      <4> QED BY <4>3, <4>4, <2>4 DEF Behind
    <3> QED BY <3>1, <3>2, <2>3 DEF LinkCore, BlocksAgree
  <2>7. g.inFlight = Cardinality(C \cup X) + Cardinality(A) /\ g.inFlight > 0
    BY <2>1, <2>3, <1>1, <1>2 DEF LinkCore
  <2> QED BY <2>2, <2>3, <2>5, <2>6, <2>7 DEF LinkCore, GoesOn, g, Filled
<1>7. CASE /\ ~n.encodingCurrentBlock
           /\ Sends(n, 0, FALSE, f)
           /\ may => n.inFlight > 0 \/ Len(n.buffer) < minBlockSize
  <2>1. /\ g \in SenderType /\ f.outbox \in Seq(CodewordType) /\ Len(f.outbox) = 0
        /\ g.buffer = n.buffer /\ g.block = n.block /\ ~g.encodingCurrentBlock
        /\ g.inFlight = n.inFlight + 0
    BY <1>7, <1>3
  <2> HIDE DEF g
  <2>2. X = {}
    <3>1. DOMAIN f.outbox = {}
      BY <2>1
    <3> QED BY <3>1 DEF Burst
  <2>3. C \cup X = C /\ g.inFlight = n.inFlight
    BY <2>1, <2>2, <1>2
  <2>4. LinkCore(g, r, C, A)
    BY <2>1, <2>3, <1>7 DEF LinkCore, Handshakes, BlocksAgree
  <2>5. GoesOn(s, g)
    <3>1. minBlockSize \in Int
      BY LtBlockSyncAssumption DEF minBlockSize
    <3> QED BY <3>1, <2>1, <2>3, <1>2, <1>7 DEF GoesOn
  <2>6. 1..Len(f.outbox) = {}
    BY <2>1
  <2> QED BY <2>1, <2>3, <2>4, <2>5, <2>6 DEF g, Filled
<1> QED BY <1>5, <1>6, <1>7, TryFillProperties

(* onAck, before the window is filled.                                      *)
Acked(n, a) == [n EXCEPT !.inFlight = @ - 1, !.encodingCurrentBlock = @ /\ ~a.payload.ackBlock]

(* An acknowledgement that is taken off its link leaves the counts of the   *)
(* link exact.                                                              *)
LEMMA AckTaken ==
  ASSUME NEW n \in SenderType, NEW r \in ReceiverType,
         NEW C, NEW A, LinkSets(C, A), LinkCore(n, r, C, A), NEW a \in A,
         NEW o, o = Acked(n, a)
  PROVE  /\ o \in SenderType
         /\ o.buffer = n.buffer /\ o.block = n.block
         /\ LinkSets(C, A \ {a})
         /\ LinkCore(o, r, C, A \ {a})
<1> DEFINE con == Cardinality(Concluding(A))
           ann == Cardinality(Announcing(C))
           B == A \ {a}
<1>1. /\ IsFiniteSet(Concluding(A)) /\ Cardinality(C) \in Nat /\ Cardinality(A) \in Nat
      /\ ann \in Nat /\ con \in Nat
      /\ con = 0 <=> Concluding(A) = {}
  BY LinkCounts
<1>2. /\ n.inFlight \in Nat /\ n.encodingCurrentBlock \in BOOLEAN
      /\ IsFiniteSet(A) /\ a.payload.ackBlock \in BOOLEAN
  BY DEF SenderType, LinkSets, AckType
<1>3. Cardinality(B) = Cardinality(A) - 1 /\ Cardinality(B) \in Nat
  BY <1>2, FS_RemoveElement, FS_CardinalityType
<1>4. n.inFlight - 1 \in Nat /\ n.inFlight = Cardinality(C) + Cardinality(A)
  BY <1>1, <1>2, <1>3 DEF LinkCore
<1>5. LinkSets(C, B)
  BY FS_Subset DEF LinkSets
<1> DEFINE f == n.inFlight - 1
           e == n.encodingCurrentBlock /\ ~a.payload.ackBlock
<1>6. f \in Nat /\ e \in BOOLEAN /\ o = [n EXCEPT !.inFlight = f, !.encodingCurrentBlock = e]
  BY <1>2, <1>4 DEF Acked
<1> HIDE DEF f, e
<1>7. /\ o \in SenderType
      /\ o.buffer = n.buffer /\ o.block = n.block
      /\ o.inFlight = f /\ o.encodingCurrentBlock = e
  BY <1>6 DEF SenderType
<1>8. o.inFlight = Cardinality(C) + Cardinality(B)
  BY <1>1, <1>3, <1>4, <1>7 DEF f
<1>9. Concluding(B) = IF a.payload.ackBlock THEN Concluding(A) \ {a} ELSE Concluding(A)
  BY DEF Concluding
<1>10. CASE a.payload.ackBlock
  <2>1. a \in Concluding(A)
    BY <1>10 DEF Concluding
  <2>2. Cardinality(Concluding(B)) = con - 1 /\ con # 0
    BY <2>1, <1>1, <1>9, <1>10, FS_RemoveElement
  <2>3. ann + (IF Decoding(r) THEN 1 ELSE 0) + con = IF n.encodingCurrentBlock THEN 1 ELSE 0
    BY DEF LinkCore, Handshakes
  <2>4. n.encodingCurrentBlock /\ ann = 0 /\ ~Decoding(r) /\ con = 1
    <3> HIDE DEF ann, con
    <3> QED BY <2>2, <2>3, <1>1
  <2>5. Handshakes(o, r, C, B)
    <3>1. ~o.encodingCurrentBlock
      BY <1>7, <1>10 DEF e
    <3> QED BY <3>1, <2>2, <2>4 DEF Handshakes
  <2>6. BlocksAgree(o, r, C, B)
    BY <2>1, <2>4, <1>7 DEF LinkCore, BlocksAgree
  <2> QED BY <1>5, <1>7, <1>8, <1>10, <2>5, <2>6 DEF LinkCore, e
<1>11. CASE ~a.payload.ackBlock
  <2>1. o.encodingCurrentBlock = n.encodingCurrentBlock
    BY <1>2, <1>7, <1>11 DEF e
  <2>2. Concluding(B) = Concluding(A)
    BY <1>9, <1>11
  <2>3. Handshakes(o, r, C, B) /\ BlocksAgree(o, r, C, B)
    BY <2>1, <2>2, <1>7 DEF LinkCore, Handshakes, BlocksAgree
  <2> QED BY <1>5, <1>7, <1>8, <2>1, <2>3 DEF LinkCore
<1> QED BY <1>10, <1>11

(* onCodeword: the codewords of a link arrive in order.                     *)
LEMMA CodewordTaken ==
  ASSUME NEW n \in SenderType, NEW r \in ReceiverType,
         NEW C, NEW A, LinkSets(C, A), LinkCore(n, r, C, A),
         NEW m \in C, \A x \in C : m.seq <= x.seq,
         NEW members \in SUBSET ToSet(m.payload.block),
         NEW taken, taken = AddCodeword(r, m.payload, members),
         NEW acks \in BOOLEAN, acks => ~taken.currentBlockReceived,
         NEW s, s = [taken EXCEPT !.currentBlockReceived = @ \/ acks],
         NEW b, b \notin A, b.payload = [type |-> "ack", ackBlock |-> acks]
  PROVE  /\ s \in ReceiverType
         /\ LinkCore(n, s, C \ {m}, A \cup {b})
<1> DEFINE con == Cardinality(Concluding(A))
           ann == Cardinality(Announcing(C))
           D == C \ {m}
           B == A \cup {b}
           dec == IF Decoding(r) THEN 1 ELSE 0
<1>1. /\ IsFiniteSet(Concluding(A)) /\ IsFiniteSet(Announcing(C))
      /\ Cardinality(C) \in Nat /\ Cardinality(A) \in Nat
      /\ ann \in Nat /\ con \in Nat
      /\ con = 0 <=> Concluding(A) = {}
      /\ ann = 0 <=> Announcing(C) = {}
  BY LinkCounts
<1>2. /\ IsFiniteSet(C) /\ IsFiniteSet(A)
      /\ m.payload.newBlock \in BOOLEAN /\ m.payload.block \in Seq(Tx)
      /\ m.seq \in Nat /\ \A x \in C : x.seq \in Nat
      /\ \A x \in C : x.seq = m.seq => x = m
      /\ n.encodingCurrentBlock \in BOOLEAN
  BY DEF LinkSets, CodewordType, SenderType
<1>3. members \in SUBSET Tx
  BY <1>2 DEF ToSet
<1>4. b.payload.ackBlock = acks
  OBVIOUS
<1>5. n.inFlight = Cardinality(D) + Cardinality(B)
  <2>1. Cardinality(D) = Cardinality(C) - 1 /\ Cardinality(B) = Cardinality(A) + 1
    BY <1>2, FS_RemoveElement, FS_AddElement
  <2> QED BY <2>1, <1>1 DEF LinkCore
<1>6. Concluding(B) = IF acks THEN Concluding(A) \cup {b} ELSE Concluding(A)
  BY <1>4 DEF Concluding
<1>7. Cardinality(Concluding(B)) = IF acks THEN con + 1 ELSE con
  <2>1. b \notin Concluding(A)
    BY DEF Concluding
  <2> QED BY <2>1, <1>1, <1>6, FS_AddElement
<1>8. ann + dec + con = IF n.encodingCurrentBlock THEN 1 ELSE 0
  BY DEF LinkCore, Handshakes
<1>9. r.curCodewords \in Seq(SUBSET Tx) /\ r.currentBlockReceived \in BOOLEAN
  BY DEF ReceiverType
<1>10. CASE m.payload.newBlock
  <2>1. m \in Announcing(C)
    BY <1>10 DEF Announcing
  <2>2. n.encodingCurrentBlock /\ ann = 1 /\ con = 0
    <3>1. ann # 0 /\ dec \in {0, 1}
      BY <2>1, <1>1
    <3> HIDE DEF ann, con, dec
    <3> QED BY <3>1, <1>1, <1>8
  <2>3. Announcing(D) = Announcing(C) \ {m} /\ Cardinality(Announcing(D)) = 0 /\ Announcing(D) = {}
    <3>1. Announcing(D) = Announcing(C) \ {m}
      BY DEF Announcing
    <3>2. Cardinality(Announcing(D)) = 0 /\ IsFiniteSet(Announcing(D))
      <4> DEFINE X == Announcing(C)
      <4>1. IsFiniteSet(X) /\ m \in X /\ Cardinality(X) = 1
        BY <2>1, <2>2, <1>1
      <4> HIDE DEF X
      <4>2. IsFiniteSet(X \ {m}) /\ Cardinality(X \ {m}) = 1 - 1
        BY <4>1, FS_RemoveElement
      <4>3. Cardinality(X \ {m}) = 0
        BY <4>2
      <4> HIDE DEF D
      <4> QED BY <3>1, <4>2, <4>3, Zenon DEF X
    <3> QED BY <3>1, <3>2, FS_EmptySet
  <2>4. taken = [curCodewords |-> <<members>>, currentBlockReceived |-> FALSE]
    BY <1>10 DEF AddCodeword
  <2>5. s = [curCodewords |-> <<members>>, currentBlockReceived |-> acks]
    BY <2>4
  <2>6. <<members>> \in Seq(SUBSET Tx) /\ <<members>> # <<>> /\ ToSet(<<members>>) = {members}
    <3>1. DOMAIN <<members>> = {1} /\ <<members>>[1] = members
      OBVIOUS
    <3>2. ToSet(<<members>>) = {members}
      BY <3>1 DEF ToSet
    <3> QED BY <3>2, <1>3
  <2> DEFINE cws == <<members>>
  <2> HIDE DEF cws
  <2>7. s \in ReceiverType /\ s.curCodewords = cws /\ (Decoding(s) <=> ~acks) /\ cws # <<>>
    <3>1. cws \in Seq(SUBSET Tx) /\ cws # <<>>
      BY <2>6 DEF cws
    <3>2. s = [curCodewords |-> cws, currentBlockReceived |-> acks]
      BY <2>5 DEF cws
    <3> QED BY <3>1, <3>2 DEF ReceiverType, Decoding
  <2>8. Handshakes(n, s, D, B)
    BY <2>2, <2>3, <2>7, <1>7 DEF Handshakes
  <2>9. \A x \in C : x.payload.block = n.block
    BY <2>1 DEF LinkCore, BlocksAgree, Behind
  <2>10. BlocksAgree(n, s, D, B)
    BY <2>6, <2>7, <2>9 DEF BlocksAgree, cws
  <2> QED BY <2>7, <2>8, <2>10, <1>5 DEF LinkCore
<1>11. CASE ~m.payload.newBlock
  <2>1. Announcing(D) = Announcing(C)
    BY <1>11 DEF Announcing
  <2>2. r.curCodewords # <<>>
    <3> SUFFICES ASSUME r.curCodewords = <<>> PROVE FALSE
      OBVIOUS
    <3>1. PICK a \in Announcing(C) : a.seq <= m.seq
      BY DEF LinkCore, BlocksAgree, Behind
    <3>2. a \in C /\ a.payload.newBlock
      BY DEF Announcing
    <3>3. a.seq = m.seq
      BY <3>1, <3>2, <1>2
    <3> QED BY <3>2, <3>3, <1>2, <1>11
  <2> DEFINE cws == Append(r.curCodewords, members)
  <2>3. taken = [r EXCEPT !.curCodewords = cws]
    BY <1>11 DEF AddCodeword
  <2>4. cws \in Seq(SUBSET Tx) /\ cws # <<>> /\ ToSet(cws) = ToSet(r.curCodewords) \cup {members}
    <3>1. cws \in Seq(SUBSET Tx) /\ Range(cws) = Range(r.curCodewords) \cup {members}
      BY <1>3, <1>9, AppendRange
    <3>2. cws # <<>>
      BY <1>3, <1>9
    <3> HIDE DEF cws
    <3> QED BY <3>1, <3>2 DEF ToSet, Range
  <2> HIDE DEF cws
  <2>5. /\ s \in ReceiverType /\ s.curCodewords = cws
        /\ s.currentBlockReceived = (r.currentBlockReceived \/ acks)
    BY <2>3, <2>4, <1>9 DEF ReceiverType
  <2>6. acks => Decoding(r)
    BY <2>2, <2>3 DEF ReceiverType, Decoding
  <2>7. Decoding(s) <=> Decoding(r) /\ ~acks
    BY <2>2, <2>4, <2>5, <1>9 DEF Decoding
  <2>8. Handshakes(n, s, D, B)
    <3>1. Cardinality(Announcing(D)) = ann
      BY <2>1
    <3>2. (IF Decoding(s) THEN 1 ELSE 0) + Cardinality(Concluding(B)) = dec + con
      <4> HIDE DEF con
      <4> QED BY <2>6, <2>7, <1>1, <1>7
    <3>3. dec \in Nat /\ (IF Decoding(s) THEN 1 ELSE 0) \in Nat /\ Cardinality(Concluding(B)) \in Nat
      BY <1>1, <1>7
    <3> HIDE DEF ann, con, dec
    <3>4. ann + (IF Decoding(s) THEN 1 ELSE 0) + Cardinality(Concluding(B)) = ann + dec + con
      BY <3>2, <3>3, <1>1
    <3> QED BY <3>1, <3>4, <1>8 DEF Handshakes
  <2>9. BlocksAgree(n, s, D, B)
    <3>1. \A x \in D : Behind(x, D) => Behind(x, C)
      BY <2>1 DEF Behind
    <3>2. Decoding(s) => UNION ToSet(cws) \subseteq ToSet(n.block)
      <4> SUFFICES ASSUME Decoding(s) PROVE UNION ToSet(cws) \subseteq ToSet(n.block)
        OBVIOUS
      <4>1. m.payload.block = n.block /\ UNION ToSet(r.curCodewords) \subseteq ToSet(n.block)
        BY <2>7 DEF LinkCore, BlocksAgree
      <4> QED BY <4>1, <2>4
    <3> QED BY <3>1, <3>2, <2>4, <2>5, <2>7 DEF LinkCore, BlocksAgree
  <2> QED BY <2>5, <2>8, <2>9, <1>5 DEF LinkCore
<1> QED BY <1>2, <1>10, <1>11

-----------------------------------------------------------------------------
(* The type of a payload tells what it is.                                  *)
LEMMA PayloadTypes ==
  /\ \A x \in CodewordType : x.type = "codeword"
  /\ \A x \in AckType : x.type = "ack"
  /\ \A x \in EventType : x.type \in {"loopback", "blockArrival", "createNewBlock"}
  /\ \A x \in LinkPayload : /\ x.type = "codeword" => x \in CodewordType
                            /\ x.type = "ack" => x \in AckType
                            /\ x.type \in {"codeword", "ack"}
<1>1. \A x \in CodewordType : x.type = "codeword"
  BY DEF CodewordType
<1>2. \A x \in AckType : x.type = "ack"
  BY DEF AckType
<1>3. \A x \in EventType : x.type \in {"loopback", "blockArrival", "createNewBlock"}
  BY DEF EventType
<1> QED BY <1>1, <1>2, <1>3 DEF LinkPayload

(* The messages on a link and those that come back.                         *)
LEMMA LinkSetsHold ==
  ASSUME QueueOK, NEW s \in Servers, NEW p \in peers[s]
  PROVE  LinkSets(Under(s, p, "codeword"), Under(p, s, "ack"))
<1> DEFINE C == Under(s, p, "codeword")
           A == Under(p, s, "ack")
<1>1. IsFiniteSet(C) /\ IsFiniteSet(A)
  <2>1. C \in SUBSET mq /\ A \in SUBSET mq
    BY DEF Under
  <2> QED BY <2>1, FS_Subset DEF QueueOK
<1>2. ASSUME NEW m \in mq
      PROVE  /\ m.seq \in Nat
             /\ m.payload.type = "codeword" => m.payload \in CodewordType
             /\ m.payload.type = "ack" => m.payload \in AckType
  <2>1. m.seq \in Nat /\ m.payload \in EventType \cup LinkPayload
    BY DEF QueueOK, MessageOK
  <2> QED BY <2>1, PayloadTypes
<1>3. \A m, n \in C : m.seq = n.seq => m = n
  BY DEF Under, QueueOK
<1> QED BY <1>1, <1>2, <1>3 DEF Under, LinkSets

(* The codeword that is delivered was sent before all others on its link.   *)
LEMMA FirstOnLink ==
  ASSUME QueueOK, NEW m, IsNext(m), m.from # m.to,
         NEW x \in mq, x.from = m.from, x.to = m.to
  PROVE  m.seq <= x.seq
<1>1. m \in mq /\ x # m => Less(m, x)
  BY DEF IsNext
<1>2. /\ m.seq \in Nat /\ x.seq \in Nat /\ m.arrival \in Nat /\ x.arrival \in Nat
      /\ x.seq < m.seq => x.arrival <= m.arrival
  BY DEF IsNext, QueueOK, MessageOK
<1> QED BY <1>1, <1>2 DEF Less, IsNext

(* What a handler does to the queue: after m come the messages others for   *)
(* q itself, and those of the outboxes in a burst for each peer.            *)
Sent(m, q, others, order, outbox) ==
  \E base \in [ToSet(order) -> Nat] :
    /\ \A p \in ToSet(order) : seq <= base[p]
    /\ \A s, p, type : s # p =>
         Under(s, p, type)' = (Under(s, p, type) \ {m}) \cup
           (IF s = q /\ p \in ToSet(order)
            THEN {x \in Burst(q, p, m.arrival, base[p], outbox[p]) : x.payload.type = type}
            ELSE {})
    /\ \A s, type :
         Under(s, s, type)' = (Under(s, s, type) \ {m}) \cup
           (IF s = q THEN {x \in Scheduled(q, others, m.arrival) : x.payload.type = type} ELSE {})

(* What a handler changes of the queue, and of what is under way from one   *)
(* server to another.                                                       *)
LEMMA HandlerStep ==
  ASSUME QueueOK, NEW m, NEW q, q = m.to,
         NEW others \in Seq(SelfOutgoing(q, EventType)),
         NEW order \in Seq(Servers), IsInjective(order), ToSet(order) \subseteq peers[q],
         NEW outbox, \A p \in ToSet(order) : outbox[p] \in Seq(LinkPayload),
         Deliver(m, others \o Collect(q, outbox, order)),
         generated \in Nat, generated' \in Nat, generated <= generated',
         \A p \in ToSet(order) : \A i \in 1..Len(outbox[p]) :
           outbox[p][i].type = "codeword" => ToSet(outbox[p][i].block) \subseteq 1..generated'
  PROVE  QueueOK' /\ Sent(m, q, others, order, outbox)
<1> DEFINE at == m.arrival
           outs == others \o Collect(q, outbox, order)
           New == Scheduled(q, outs, at)
<1>1. /\ IsNext(m) /\ m \in mq /\ time' = at
      /\ mq' = (mq \ {m}) \cup New
      /\ seq' = seq + Len(outs)
  BY DEF Deliver, IsNext
<1>2. /\ q \in Servers /\ at \in Nat /\ seq \in Nat /\ time \in Nat /\ time <= at
      /\ m.from \in Servers
  BY <1>1 DEF QueueOK, MessageOK
<1> DEFINE Self == Scheduled(q, others, at)
           B(base, p) == Burst(q, p, at, base[p], outbox[p])
<1>3. /\ Len(outs) \in Nat
      /\ IsFiniteSet(New)
      /\ \A n \in New : n.seq \in Nat /\ seq <= n.seq /\ n.seq < seq + Len(outs)
      /\ \A k, n \in New : k.seq = n.seq => k = n
      /\ \E base \in [ToSet(order) -> Nat] :
              /\ \A p \in ToSet(order) : seq <= base[p]
              /\ New = Self \cup UNION {B(base, p) : p \in ToSet(order)}
  <2>1. ScheduledInOrder(q, others, order, outbox, at)
    BY <1>2, HandlerMessages
  <2> QED BY <2>1 DEF ScheduledInOrder
<1>4. PICK base \in [ToSet(order) -> Nat] :
              /\ \A p \in ToSet(order) : seq <= base[p]
              /\ New = Self \cup UNION {B(base, p) : p \in ToSet(order)}
  BY <1>3
<1>5. ASSUME NEW n \in Self
      PROVE  n.from = q /\ n.to = q /\ n.payload \in EventType /\ n.arrival \in Nat /\ at <= n.arrival
  <2>1. PICK i \in DOMAIN others :
          n = [arrival |-> at + others[i].delay, seq |-> seq + i - 1,
               from |-> q, to |-> others[i].to, payload |-> others[i].payload]
    BY DEF Scheduled
  <2>2. others[i] \in SelfOutgoing(q, EventType)
    OBVIOUS
  <2>3. others[i].delay \in Nat /\ others[i].to = q /\ others[i].payload \in EventType
    BY <2>2 DEF SelfOutgoing
  <2> QED BY <2>1, <2>3, <1>2
<1>6. ASSUME NEW p \in ToSet(order), NEW n \in B(base, p)
      PROVE  /\ n.from = q /\ n.to = p /\ p \in peers[q] /\ p \in Servers /\ p # q
             /\ n.payload \in LinkPayload
             /\ n.arrival = at + Delay[q][p] /\ n.arrival \in Nat /\ at <= n.arrival
             /\ n.payload.type = "codeword" => ToSet(n.payload.block) \subseteq 1..generated'
  <2>1. PICK j \in DOMAIN outbox[p] :
          n = [arrival |-> at + Delay[q][p], seq |-> base[p] + j - 1, from |-> q, to |-> p, payload |-> outbox[p][j]]
    BY DEF Burst
  <2>2. p \in peers[q] /\ p \in Servers /\ p # q
    BY <1>2, PeersProperties
  <2>3. Delay[q][p] \in Nat
    BY <1>2, <2>2, EventQueueAssumption, LtBlockSyncAssumption
  <2>4. outbox[p] \in Seq(LinkPayload) /\ j \in 1..Len(outbox[p]) /\ outbox[p][j] \in LinkPayload
    OBVIOUS
  <2>5. outbox[p][j].type = "codeword" => ToSet(outbox[p][j].block) \subseteq 1..generated'
    BY <2>4
  <2> QED BY <2>1, <2>2, <2>3, <2>4, <2>5, <1>2
<1> HIDE DEF New, outs, Self, B
<1>7. ASSUME NEW n \in New
      PROVE  /\ n.from = q /\ n.to \in Servers /\ n.arrival \in Nat /\ at <= n.arrival
             /\ \/ n.to = q /\ n.payload \in EventType
                \/ /\ n.to # q /\ q \in peers[n.to] /\ n.payload \in LinkPayload
                   /\ n.arrival = at + Delay[q][n.to]
             /\ n.payload.type = "codeword" => ToSet(n.payload.block) \subseteq 1..generated'
  <2>1. CASE n \in Self
    BY <2>1, <1>2, <1>5, PayloadTypes
  <2>2. ASSUME NEW p \in ToSet(order), n \in B(base, p)
        PROVE  <1>7!2
    <3>1. /\ n.from = q /\ n.to = p /\ p \in peers[q] /\ p \in Servers /\ p # q
          /\ n.payload \in LinkPayload
          /\ n.arrival = at + Delay[q][p] /\ n.arrival \in Nat /\ at <= n.arrival
          /\ n.payload.type = "codeword" => ToSet(n.payload.block) \subseteq 1..generated'
      BY <2>2, <1>6
    <3>2. q \in peers[p]
      BY <3>1, <1>2, PeersProperties
    <3> QED BY <3>1, <3>2
  <2> QED BY <2>1, <2>2, <1>4
<1>8. QueueOK'
  <2>1. time' \in Nat /\ seq' \in Nat /\ seq <= seq' /\ time <= time'
    BY <1>1, <1>2, <1>3
  <2>2. IsFiniteSet(mq')
    BY <1>1, <1>3, FS_Union, FS_Subset DEF QueueOK
  <2>3. ASSUME NEW n \in mq, n # m
        PROVE  MessageOK(n)' /\ time' <= n.arrival
    <3>1. MessageOK(n) /\ n.arrival \in Nat
      BY DEF QueueOK, MessageOK
    <3>2. at <= n.arrival
      BY <2>3, <1>1, <1>2, <3>1 DEF IsNext, Less
    <3>3. n.from # n.to => /\ Delay[n.from][n.to] \in Nat
                           /\ n.arrival <= time' + Delay[n.from][n.to]
      <4>1. n.from \in Servers /\ n.to \in Servers
        BY <3>1 DEF MessageOK
      <4>2. Delay[n.from][n.to] \in Nat
        BY <4>1, EventQueueAssumption, LtBlockSyncAssumption
      <4>3. n.from # n.to => n.arrival <= time + Delay[n.from][n.to]
        BY <3>1 DEF MessageOK
      <4> QED BY <4>2, <4>3, <2>1, <1>2, <3>1
    <3>4. \A X : X \subseteq 1..generated => X \subseteq 1..generated'
      OBVIOUS
    <3>5. n.from \in peers[n.to] => n.from # n.to
      <4>1. n.to \in Servers
        BY <3>1 DEF MessageOK
      <4> QED BY <4>1, PeersProperties
    <3>6. n.seq \in Nat /\ n.seq < seq' /\ time' <= n.arrival
      BY <3>1, <3>2, <2>1, <1>1, <1>2 DEF MessageOK
    <3> QED BY <3>1, <3>3, <3>4, <3>5, <3>6 DEF MessageOK
  <2>4. ASSUME NEW n \in New
        PROVE  MessageOK(n)' /\ time' <= n.arrival
    <3>1. /\ n.from = q /\ n.to \in Servers /\ n.arrival \in Nat /\ at <= n.arrival
          /\ \/ n.to = q /\ n.payload \in EventType
             \/ /\ n.to # q /\ q \in peers[n.to] /\ n.payload \in LinkPayload
                /\ n.arrival = at + Delay[q][n.to]
          /\ n.payload.type = "codeword" => ToSet(n.payload.block) \subseteq 1..generated'
      BY <1>7
    <3>2. n.seq \in Nat /\ n.seq < seq'
      BY <1>1, <1>3
    <3> QED BY <3>1, <3>2, <1>1, <1>2 DEF MessageOK
  <2>5. ASSUME NEW k \in mq', NEW n \in mq', k.seq = n.seq PROVE k = n
    <3>1. \A x \in mq : x.seq < seq /\ x.seq \in Nat
      BY DEF QueueOK, MessageOK
    <3>2. \A x \in New : x.seq >= seq /\ x.seq \in Nat
      BY <1>2, <1>3
    <3> QED BY <2>5, <3>1, <3>2, <1>1, <1>2, <1>3 DEF QueueOK
  <2>6. ASSUME NEW k \in mq', NEW n \in mq', k.from = n.from, k.to = n.to, k.from # k.to, k.seq < n.seq
        PROVE  k.arrival <= n.arrival
    <3>1. \A x \in mq : x.seq < seq /\ x.seq \in Nat
      BY DEF QueueOK, MessageOK
    <3>2. \A x \in New : x.seq >= seq /\ x.seq \in Nat
      BY <1>2, <1>3
    <3>3. CASE n \in New
      <4>1. n.from = q /\ n.to # q /\ n.arrival = at + Delay[q][n.to] /\ n.arrival \in Nat
        BY <3>3, <2>6, <1>7
      <4>2. CASE k \in New
        <5>1. k.arrival = at + Delay[q][n.to]
          BY <4>2, <2>6, <1>7
        <5> QED BY <4>1, <5>1
      <4>3. CASE k \in mq \ {m}
        <5>1. MessageOK(k)' /\ k.from # k.to
          BY <4>3, <2>3, <2>6
        <5>2. k.arrival <= time' + Delay[q][n.to]
          BY <5>1, <4>1, <2>6, PayloadTypes DEF MessageOK
        <5> QED BY <5>2, <4>1, <1>1
      <4> QED BY <4>2, <4>3, <1>1
    <3>4. CASE n \notin New
      <4>1. n \in mq
        BY <3>4, <1>1
      <4>2. k \in mq
        BY <3>1, <3>2, <4>1, <2>6, <1>1, <1>2
      <4> QED BY <4>1, <4>2, <2>6 DEF QueueOK
    <3> QED BY <3>3, <3>4
  <2> QED BY <2>1, <2>2, <2>3, <2>4, <2>5, <2>6, <1>1 DEF QueueOK
<1> DEFINE Of(type, X) == {x \in X : x.payload.type = type}
<1>9. ASSUME NEW s, NEW p, NEW type, s # p
      PROVE  Under(s, p, type)' = (Under(s, p, type) \ {m}) \cup
                     (IF s = q /\ p \in ToSet(order) THEN Of(type, B(base, p)) ELSE {})
  <2>1. Under(s, p, type)' = (Under(s, p, type) \ {m}) \cup {n \in New : n.from = s /\ n.to = p /\ n.payload.type = type}
    BY <1>1 DEF Under
  <2>2. {n \in New : n.from = s /\ n.to = p /\ n.payload.type = type}
          = IF s = q /\ p \in ToSet(order) THEN Of(type, B(base, p)) ELSE {}
    <3>1. \A n \in Self : n.from = q /\ n.to = q
      BY <1>5
    <3>2. \A d \in ToSet(order) : \A n \in B(base, d) : n.from = q /\ n.to = d
      BY <1>6
    <3> QED BY <3>1, <3>2, <1>4, <1>9
  <2> QED BY <2>1, <2>2
<1>10. ASSUME NEW s, NEW type
       PROVE  Under(s, s, type)' = (Under(s, s, type) \ {m}) \cup
                     (IF s = q THEN Of(type, Self) ELSE {})
  <2>1. Under(s, s, type)' = (Under(s, s, type) \ {m}) \cup {n \in New : n.from = s /\ n.to = s /\ n.payload.type = type}
    BY <1>1 DEF Under
  <2>2. {n \in New : n.from = s /\ n.to = s /\ n.payload.type = type} = IF s = q THEN Of(type, Self) ELSE {}
    <3>1. \A n \in Self : n.from = q /\ n.to = q
      BY <1>5
    <3>2. \A d \in ToSet(order) : \A n \in B(base, d) : n.from = q /\ n.to = d /\ d # q
      BY <1>6
    <3> QED BY <3>1, <3>2, <1>4
  <2> QED BY <2>1, <2>2
<1> QED BY <1>4, <1>8, <1>9, <1>10 DEF B, Self, Sent

-----------------------------------------------------------------------------
(* The slots of the rate limiter.                                           *)
LEMMA SlotProperties ==
  ASSUME NEW s \in Servers, NEW ts \in Nat, lastScheduled[s] \in Nat
  PROVE  /\ \A i \in Nat \ {0} : /\ Slot(s, ts, i) \in Nat /\ ts <= Slot(s, ts, i)
                                 /\ lastScheduled[s] + minInterval <= Slot(s, ts, i)
         /\ \A i, j \in Nat \ {0} : i < j => Slot(s, ts, i) + minInterval <= Slot(s, ts, j)
<1> DEFINE next == lastScheduled[s] + minInterval
           first == Max({ts, next})
<1>1. minInterval \in Nat /\ next \in Nat
  BY LtBlockSyncAssumption
<1>2. first \in Nat /\ ts <= first /\ next <= first
  <2> HIDE DEF next
  <2>1. ts \in Int /\ next \in Int
    BY <1>1
  <2>2. first \in {ts, next} /\ first >= ts /\ first >= next
    BY <2>1, MaxOfTwo
  <2> HIDE DEF first
  <2> QED BY <2>2, <1>1
<1>3. \A i : Slot(s, ts, i) = first + (i - 1) * minInterval
  BY DEF Slot
<1> HIDE DEF first
<1>4. ASSUME NEW i \in Nat \ {0}
      PROVE  /\ Slot(s, ts, i) \in Nat /\ ts <= Slot(s, ts, i)
             /\ next <= Slot(s, ts, i)
  <2> DEFINE d == (i - 1) * minInterval
  <2>1. d \in Nat
    <3>1. \A x, y \in Nat : x * y \in Nat
      OBVIOUS
    <3>2. i - 1 \in Nat
      OBVIOUS
    <3> QED BY <3>1, <3>2, <1>1
  <2> HIDE DEF d, next
  <2>2. Slot(s, ts, i) = first + d
    BY <1>3 DEF d
  <2> QED BY <2>1, <2>2, <1>1, <1>2
<1>5. ASSUME NEW i \in Nat \ {0}, NEW j \in Nat \ {0}, i < j
      PROVE  Slot(s, ts, i) + minInterval <= Slot(s, ts, j)
  <2> DEFINE d == (i - 1) * minInterval
             e == (j - 1) * minInterval
  <2>1. d \in Nat /\ e \in Nat /\ d + minInterval <= e
    <3>1. \A x, y, z \in Nat : x < y => x * z \in Nat /\ y * z \in Nat /\ x * z + z <= y * z
      <4> SUFFICES ASSUME NEW x \in Nat, NEW y \in Nat, NEW z \in Nat, x < y
                   PROVE  x * z \in Nat /\ y * z \in Nat /\ x * z + z <= y * z
        OBVIOUS
      <4>1. y * z = x * z + z + (y - x - 1) * z /\ y - x - 1 \in Nat
        OBVIOUS
      <4>2. x * z \in Nat /\ y * z \in Nat /\ (y - x - 1) * z \in Nat
        BY <4>1
      <4> QED BY <4>1, <4>2
    <3>2. i - 1 \in Nat /\ j - 1 \in Nat /\ i - 1 < j - 1
      BY <1>5
    <3> QED BY <3>1, <3>2, <1>1
  <2> HIDE DEF d, e
  <2>2. Slot(s, ts, i) = first + d /\ Slot(s, ts, j) = first + e
    BY <1>3 DEF d, e
  <2> QED BY <2>1, <2>2, <1>1, <1>2
<1> QED BY <1>4, <1>5

(* New transactions wait for slots behind those that are taken.             *)
NewLoops(s, outs, at) == {x \in Scheduled(s, outs, at) : x.payload.type = "loopback"}

LastAfter(s, at, txs) == IF txs = <<>> THEN lastScheduled[s] ELSE LastSlot(s, at, Len(txs))

LoopsAdded(q, txs, W, R, outs, last, New) ==
  /\ outs \in Seq(SelfOutgoing(q, EventType))
  /\ last \in Nat
  /\ LoopsOK(W \cup New, last, R \cup ToSet(txs))
  /\ Waiting(W \cup New) = Waiting(W) \cup ToSet(txs)

(* scheduleForwardingTransactions keeps the transactions that wait distinct *)
(* and at the pace of the rate limiter.                                     *)
LEMMA Forwarded ==
  ASSUME NEW q \in Servers, NEW at \in Nat, seq \in Nat, lastScheduled[q] \in Nat,
         NEW txs \in Seq(Tx), IsInjective(txs),
         NEW W, NEW R, LoopsOK(W, lastScheduled[q], R), ToSet(txs) \cap R = {},
         \A m \in W : m.seq \in Nat /\ m.seq < seq /\ m.arrival \in Nat,
         NEW rest \in Seq(SelfOutgoing(q, EventType)),
         \A i \in 1..Len(rest) : rest[i].payload.type # "loopback",
         NEW outs, outs = ScheduleForwarding(q, at, txs) \o rest,
         NEW last, last = LastAfter(q, at, txs),
         NEW New, New = NewLoops(q, outs, at)
  PROVE  LoopsAdded(q, txs, W, R, outs, last, New)
<1> DEFINE fw == ScheduleForwarding(q, at, txs)
           S == SelfOutgoing(q, EventType)
           n == Len(txs)
           slot(i) == Slot(q, at, i)
           e(i) == [arrival |-> slot(i), seq |-> seq + i - 1, from |-> q, to |-> q,
                    payload |-> [type |-> "loopback", tx |-> txs[i]]]
<1>1. /\ n \in Nat /\ DOMAIN txs = 1..n /\ \A i \in 1..n : txs[i] \in Tx
      /\ \A i, j \in 1..n : txs[i] = txs[j] => i = j
      /\ ToSet(txs) = {txs[i] : i \in 1..n}
  BY DEF IsInjective, ToSet
<1>2. /\ \A i \in Nat \ {0} : /\ slot(i) \in Nat /\ at <= slot(i)
                              /\ lastScheduled[q] + minInterval <= slot(i)
      /\ \A i, j \in Nat \ {0} : i < j => slot(i) + minInterval <= slot(j)
  BY SlotProperties
<1>3. minInterval \in Nat
  BY LtBlockSyncAssumption
<1> HIDE DEF slot, S
<1>4. /\ fw \in Seq(S) /\ Len(fw) = n
      /\ \A i \in 1..n : /\ fw[i].payload = [type |-> "loopback", tx |-> txs[i]]
                         /\ fw[i].to = q /\ fw[i].delay = slot(i) - at
  <2> DEFINE g(i) == [payload |-> [type |-> "loopback", tx |-> txs[i]], to |-> q, delay |-> slot(i) - at]
  <2>1. fw = [i \in 1..n |-> g(i)]
    BY <1>1 DEF ScheduleForwarding, ToSelf, slot
  <2>2. ASSUME NEW i \in 1..n PROVE g(i) \in S
    <3>1. slot(i) - at \in Nat
      BY <1>1, <1>2
    <3>2. [type |-> "loopback", tx |-> txs[i]] \in EventType
      BY <1>1 DEF EventType
    <3> QED BY <3>1, <3>2 DEF S, SelfOutgoing
  <2>3. \A i : /\ g(i).payload = [type |-> "loopback", tx |-> txs[i]]
               /\ g(i).to = q /\ g(i).delay = slot(i) - at
    OBVIOUS
  <2> HIDE DEF g, fw
  <2> QED BY <2>1, <2>2, <2>3, <1>1
<1> HIDE DEF fw
<1>5. /\ outs \in Seq(S) /\ DOMAIN outs = 1..n + Len(rest) /\ Len(rest) \in Nat
      /\ \A i \in 1..n + Len(rest) : outs[i] = IF i <= n THEN fw[i] ELSE rest[i - n]
  <2>1. rest \in Seq(S) /\ outs = fw \o rest
    BY DEF S, fw
  <2>2. fw \in Seq(S) /\ Len(fw) = n /\ n \in Nat
    BY <1>1, <1>4
  <2> HIDE DEF n
  <2>3. outs \in Seq(S) /\ Len(outs) = n + Len(rest) /\ Len(rest) \in Nat
    <3>1. \A a, c \in Seq(S) : a \o c \in Seq(S) /\ Len(a \o c) = Len(a) + Len(c)
      OBVIOUS
    <3>2. Len(rest) \in Nat
      BY <2>1
    <3> QED BY <3>1, <3>2, <2>1, <2>2
  <2>4. \A i \in 1..n + Len(rest) : outs[i] = IF i <= n THEN fw[i] ELSE rest[i - n]
    BY <2>1, <2>2, <2>3
  <2> QED BY <2>3, <2>4
<1>6. New = {e(i) : i \in 1..n}
  <2> DEFINE x(i) == [arrival |-> at + outs[i].delay, seq |-> seq + i - 1,
                      from |-> q, to |-> outs[i].to, payload |-> outs[i].payload]
  <2>1. Scheduled(q, outs, at) = {x(i) : i \in 1..n + Len(rest)}
    BY <1>5 DEF Scheduled
  <2>2. ASSUME NEW i \in 1..n PROVE i \in 1..n + Len(rest) /\ x(i) = e(i) /\ e(i).payload.type = "loopback"
    <3>1. i \in 1..n + Len(rest) /\ outs[i] = fw[i]
      BY <1>1, <1>5
    <3>2. at + (slot(i) - at) = slot(i)
      <4>1. slot(i) \in Nat
        BY <1>1, <1>2
      <4>2. \A u, v \in Nat : u + (v - u) = v
        OBVIOUS
      <4> QED BY <4>1, <4>2
    <3> QED BY <3>1, <3>2, <1>4
  <2>3. ASSUME NEW i \in 1..n + Len(rest), i \notin 1..n PROVE x(i).payload.type # "loopback"
    <3>1. outs[i] = rest[i - n] /\ i - n \in 1..Len(rest)
      BY <2>3, <1>1, <1>5
    <3> QED BY <3>1
  <2> HIDE DEF x, e
  <2> QED BY <2>1, <2>2, <2>3 DEF NewLoops
<1>7. \A i \in 1..n : /\ e(i).arrival = slot(i) /\ e(i).seq = seq + i - 1 /\ e(i).payload.tx = txs[i]
                      /\ e(i).arrival \in Nat /\ e(i).seq \in Nat /\ e(i).seq >= seq
  BY <1>1, <1>2
<1> HIDE DEF e
<1>8. last \in Nat /\ lastScheduled[q] <= last /\ \A i \in 1..n : slot(i) <= last
  <2>1. CASE txs = <<>>
    BY <2>1, <1>1 DEF LastAfter
  <2>2. CASE txs # <<>>
    <3>1. last = slot(n) /\ n \in Nat \ {0}
      BY <2>2, <1>1 DEF LastAfter, LastSlot, slot
    <3>2. last \in Nat /\ lastScheduled[q] <= last
      BY <3>1, <1>2, <1>3
    <3>3. ASSUME NEW i \in 1..n PROVE slot(i) <= last
      <4>1. CASE i = n
        BY <4>1, <3>1, <3>2
      <4>2. CASE i # n
        <5>1. i < n /\ i \in Nat \ {0}
          <6>1. n \in Nat
            BY <1>1
          <6> HIDE DEF n
          <6> QED BY <4>2, <6>1
        <5> QED BY <5>1, <3>1, <3>2, <1>2, <1>3
      <4> QED BY <4>1, <4>2
    <3> QED BY <3>2, <3>3
  <2> QED BY <2>1, <2>2
<1>9. Waiting(New) = ToSet(txs) /\ Waiting(W \cup New) = Waiting(W) \cup ToSet(txs)
  <2>1. Waiting(New) = ToSet(txs)
    <3>1. \A x \in New : x.payload.tx \in ToSet(txs)
      BY <1>1, <1>6, <1>7
    <3>2. ASSUME NEW t \in ToSet(txs) PROVE \E x \in New : x.payload.tx = t
      <4>1. PICK i \in 1..n : t = txs[i]
        BY <1>1
      <4>2. e(i) \in New /\ e(i).payload.tx = t
        BY <4>1, <1>6, <1>7
      <4> QED BY <4>2
    <3>3. Waiting(New) \subseteq ToSet(txs)
      BY <3>1 DEF Waiting
    <3>4. ToSet(txs) \subseteq Waiting(New)
      BY <3>2 DEF Waiting
    <3> QED BY <3>3, <3>4
  <2>2. Waiting(W \cup New) = Waiting(W) \cup Waiting(New)
    BY DEF Waiting
  <2> QED BY <2>1, <2>2
<1>10. LoopsOK(W \cup New, last, R \cup ToSet(txs))
  <2>1. ASSUME NEW k \in W \cup New, NEW m \in W \cup New, k.payload.tx = m.payload.tx PROVE k = m
    <3>1. \A x \in W : x.payload.tx \in R
      BY DEF LoopsOK
    <3>2. \A x \in New : x.payload.tx \in ToSet(txs)
      BY <1>9 DEF Waiting
    <3>3. \A x, y \in New : x.payload.tx = y.payload.tx => x = y
      BY <1>1, <1>6, <1>7
    <3> QED BY <2>1, <3>1, <3>2, <3>3 DEF LoopsOK
  <2>2. ASSUME NEW m \in W \cup New PROVE m.arrival <= last /\ m.payload.tx \in R \cup ToSet(txs)
    <3>1. CASE m \in W
      BY <3>1, <1>8 DEF LoopsOK
    <3>2. CASE m \in New
      <4>1. m.payload.tx \in ToSet(txs)
        BY <3>2, <1>9 DEF Waiting
      <4> QED BY <3>2, <4>1, <1>6, <1>7, <1>8
    <3> QED BY <3>1, <3>2
  <2>3. ASSUME NEW k \in W \cup New, NEW m \in W \cup New, k.seq < m.seq
        PROVE  k.arrival + minInterval <= m.arrival
    <3>1. CASE m \in W
      <4>1. k \in W
        BY <2>3, <3>1, <1>6, <1>7
      <4> QED BY <2>3, <3>1, <4>1 DEF LoopsOK
    <3>2. CASE m \in New
      <4>1. PICK j \in 1..n : m = e(j)
        BY <3>2, <1>6
      <4>2. CASE k \in W
        <5>1. k.arrival <= lastScheduled[q] /\ k.arrival \in Nat
          BY <4>2 DEF LoopsOK
        <5>2. j \in Nat \ {0}
          BY <1>1
        <5>3. lastScheduled[q] + minInterval <= m.arrival /\ m.arrival \in Nat
          BY <4>1, <5>2, <1>2, <1>7
        <5> QED BY <5>1, <5>3, <1>3
      <4>3. CASE k \in New
        <5>1. PICK i \in 1..n : k = e(i)
          BY <4>3, <1>6
        <5>2. i < j /\ i \in Nat \ {0} /\ j \in Nat \ {0}
          <6>1. seq + i - 1 < seq + j - 1
            BY <2>3, <4>1, <5>1, <1>7
          <6> QED BY <6>1, <1>1
        <5> QED BY <4>1, <5>1, <5>2, <1>2, <1>7
      <4> QED BY <4>2, <4>3
    <3> QED BY <3>1, <3>2
  <2> QED BY <2>1, <2>2, <2>3 DEF LoopsOK
<1> QED BY <1>5, <1>8, <1>9, <1>10 DEF S, LoopsAdded

-----------------------------------------------------------------------------
(* The decoder peels until no codeword has one unknown transaction; with    *)
(* codewords and transactions of D it stays within D.                       *)
LEMMA OnlyOne ==
  ASSUME NEW c, NEW D \in SUBSET Tx, c \subseteq D
  PROVE  /\ IsFiniteSet(c) /\ Cardinality(c) \in Nat
         /\ Cardinality(c) = 1 <=> \E t : c = {t}
<1>1. IsFiniteSet(c)
  <2>1. MaxTx \in Int /\ 1 \in Int
    BY LtBlockSyncAssumption
  <2>2. IsFiniteSet(Tx)
    BY <2>1, FS_Interval DEF Tx
  <2> QED BY <2>2, FS_Subset
<1> QED BY <1>1, FS_Singleton, FS_CardinalityType

(* Peeling knows no transaction that was not generated, ends, and does      *)
(* nothing where it had ended before.                                       *)
LEMMA PeeledProperties ==
  ASSUME NEW D \in SUBSET Tx, NEW known \in SUBSET D, NEW cws \in SUBSET SUBSET D
  PROVE  /\ known \subseteq Peeled(known, cws) /\ Peeled(known, cws) \subseteq D
         /\ \A c \in cws : Cardinality(c \ Peeled(known, cws)) # 1
         /\ (\A c \in cws : Cardinality(c \ known) # 1) => Peeled(known, cws) = known
<1> DEFINE closed == {K \in SUBSET Tx : known \subseteq K /\ \A c \in cws : Cardinality(c \ K) # 1}
           P == Peeled(known, cws)
<1>1. P = {t \in Tx : \A K \in closed : t \in K}
  BY DEF Peeled
<1>2. D \in closed
  <2>1. \A c \in cws : c \ D = {}
    OBVIOUS
  <2>2. \A c \in cws : Cardinality(c \ D) # 1
    BY <2>1, FS_EmptySet
  <2> QED BY <2>2
<1>3. \A K \in closed : /\ K \in SUBSET Tx /\ known \subseteq K
                        /\ \A c \in cws : Cardinality(c \ K) # 1
  OBVIOUS
<1>4. known \subseteq P /\ P \subseteq D
  BY <1>1, <1>2, <1>3
<1>5. ASSUME NEW c \in cws PROVE Cardinality(c \ P) # 1
  <2> SUFFICES ASSUME NEW t, c \ P = {t} PROVE FALSE
    BY OnlyOne
  <2>1. t \in c /\ t \in Tx /\ t \notin P
    OBVIOUS
  <2>2. PICK K \in closed : t \notin K
    BY <2>1, <1>1
  <2>3. P \subseteq K
    BY <1>1
  <2> HIDE DEF closed, P
  <2>4. c \ K = {t}
    BY <2>1, <2>2, <2>3
  <2>5. Cardinality(c \ K) = 1
    BY <2>4, FS_Singleton
  <2> QED BY <2>2, <2>5, <1>3
<1>6. ASSUME \A c \in cws : Cardinality(c \ known) # 1 PROVE P = known
  <2>1. known \in closed
    BY <1>6
  <2> QED BY <2>1, <1>1, <1>4
<1> QED BY <1>4, <1>5, <1>6

(* A codeword is the XOR of transactions of its block.                      *)
LEMMA DrawsProperties ==
  ASSUME NEW cw \in CodewordType
  PROVE  Draws(cw) \subseteq SUBSET ToSet(cw.block)
<1>1. cw.block \in Seq(Tx) /\ cw.block # <<>> /\ cw.number \in Nat
  BY DEF CodewordType
<1>2. CASE cw.number <= MaxCodewords
  BY <1>2 DEF Draws, kSubset
<1>3. CASE ~(cw.number <= MaxCodewords)
  <2> DEFINE l == Len(cw.block)
             i == (cw.number % l) + 1
  <2>1. l \in Nat /\ l > 0 /\ DOMAIN cw.block = 1..l
    BY <1>1
  <2>2. i \in 1..l
    <3> HIDE DEF l
    <3> QED BY <2>1, <1>1
  <2>3. cw.block[i] \in ToSet(cw.block)
    BY <2>1, <2>2 DEF ToSet
  <2>4. Draws(cw) = {{cw.block[i]}}
    BY <1>3 DEF Draws
  <2> QED BY <2>3, <2>4
<1> QED BY <1>2, <1>3

(* What a server generates is new.                                          *)
LEMMA ArrivalProperties ==
  ASSUME generated \in 0..MaxTx, NEW n, n = Min({blockArrivalBurst, MaxTx - generated})
  PROVE  n \in Nat /\ generated + n \in 0..MaxTx
<1>1. /\ blockArrivalBurst \in Nat /\ MaxTx \in Nat /\ generated \in Nat
      /\ MaxTx - generated \in Nat
  BY LtBlockSyncAssumption
<1> DEFINE U == {blockArrivalBurst, MaxTx - generated}
           top == Max({blockArrivalBurst, MaxTx - generated})
<1>2. top \in U /\ blockArrivalBurst <= top /\ MaxTx - generated <= top
  <2>1. blockArrivalBurst \in Int /\ MaxTx - generated \in Int
    BY <1>1
  <2>2. top \in U /\ top >= blockArrivalBurst /\ top >= MaxTx - generated
    BY <2>1, MaxOfTwo
  <2> HIDE DEF top
  <2> QED BY <2>2, <1>1
<1> HIDE DEF top
<1>3. top \in Nat /\ U \in SUBSET (0..top) /\ U # {}
  BY <1>1, <1>2
<1>4. Min(U) \in U /\ \A i \in U : Min(U) <= i
  BY <1>3, MinProperties
<1>5. n \in Nat /\ n <= MaxTx - generated
  BY <1>1, <1>4
<1> QED BY <1>1, <1>5

(* The transactions of a block arrival are new, and different.              *)
LEMMA GeneratedProperties ==
  ASSUME generated \in Nat, NEW n \in Nat, generated + n \in 0..MaxTx
  PROVE  /\ Generated(n) \in Seq(Tx) /\ IsInjective(Generated(n))
         /\ ToSet(Generated(n)) = generated + 1..generated + n
<1>1. MaxTx \in Nat
  BY LtBlockSyncAssumption
<1> DEFINE g(i) == generated + i
           x == [i \in 1..n |-> g(i)]
<1>2. Generated(n) = x
  BY DEF Generated
<1>3. \A i \in 1..n : g(i) \in Tx
  BY <1>1 DEF Tx
<1>4. x \in Seq(Tx) /\ DOMAIN x = 1..n /\ \A i \in 1..n : x[i] = g(i)
  <2> HIDE DEF g
  <2> QED BY <1>3
<1> HIDE DEF x
<1>5. IsInjective(x)
  <2>1. \A i, j \in 1..n : g(i) = g(j) => i = j
    OBVIOUS
  <2> HIDE DEF g
  <2> QED BY <2>1, <1>4 DEF IsInjective
<1>6. ToSet(x) = generated + 1..generated + n
  <2>1. ToSet(x) = {g(i) : i \in 1..n}
    BY <1>4 DEF ToSet
  <2>2. \A k \in generated + 1..generated + n : k - generated \in 1..n /\ k = g(k - generated)
    OBVIOUS
  <2>3. \A i \in 1..n : g(i) \in generated + 1..generated + n
    OBVIOUS
  <2> HIDE DEF g
  <2> QED BY <2>1, <2>2, <2>3
<1> QED BY <1>2, <1>4, <1>5, <1>6

-----------------------------------------------------------------------------
(* The transactions of a sender when messages or blocks come and go.        *)
LEMMA NoDuplicatesKept ==
  ASSUME NEW n, NEW W, NEW R, NoDuplicates(n, W, R),
         NEW V, NEW S, R \subseteq S, Waiting(V) \cap R \subseteq Waiting(W),
         NEW o, \/ o.buffer = n.buffer /\ o.block = n.block
                \/ o.buffer = <<>> /\ o.block = n.buffer
  PROVE  NoDuplicates(o, V, S)
<1>1. IsInjective(<<>>) /\ ToSet(<<>>) = {}
  <2>1. DOMAIN <<>> = {}
    OBVIOUS
  <2> QED BY <2>1 DEF IsInjective, ToSet
<1>2. CASE o.buffer = n.buffer /\ o.block = n.block
  BY <1>2 DEF NoDuplicates
<1>3. CASE o.buffer = <<>> /\ o.block = n.buffer
  BY <1>1, <1>3 DEF NoDuplicates
<1> QED BY <1>2, <1>3

(* A transaction leaves at its slot.                                        *)
LEMMA LoopsKept ==
  ASSUME NEW W, NEW last, NEW R, LoopsOK(W, last, R), NEW m
  PROVE  LoopsOK(W \ {m}, last, R)
BY DEF LoopsOK

(* OnTransaction, before the window is filled.                              *)
LEMMA TransactionTaken ==
  ASSUME NEW n \in SenderType, NEW W, NEW last, NEW R, LoopsOK(W, last, R), NoDuplicates(n, W, R),
         NEW m \in W, NEW tx \in Tx, tx = m.payload.tx,
         NEW o, o = [n EXCEPT !.buffer = Append(@, tx)]
  PROVE  /\ o \in SenderType
         /\ o.block = n.block /\ o.inFlight = n.inFlight
         /\ o.encodingCurrentBlock = n.encodingCurrentBlock
         /\ NoDuplicates(o, W \ {m}, R)
<1> DEFINE buffer == Append(n.buffer, tx)
<1>1. n.buffer \in Seq(Tx) /\ n.block \in Seq(Tx)
  BY DEF SenderType
<1>2. buffer \in Seq(Tx) /\ ToSet(buffer) = ToSet(n.buffer) \cup {tx}
  <2>1. buffer \in Seq(Tx) /\ Range(buffer) = Range(n.buffer) \cup {tx}
    BY <1>1, AppendRange
  <2> QED BY <2>1 DEF ToSet, Range
<1>3. tx \in Waiting(W) /\ tx \in R /\ tx \notin Waiting(W \ {m})
  BY DEF Waiting, LoopsOK
<1>4. tx \notin ToSet(n.buffer) /\ tx \notin ToSet(n.block)
  BY <1>3 DEF NoDuplicates
<1>5. IsInjective(buffer)
  <2>1. <<tx>> \in Seq(Tx) /\ buffer = n.buffer \o <<tx>>
    <3>1. \A e \in Tx : <<e>> \in Seq(Tx)
      OBVIOUS
    <3>2. Append(n.buffer, tx) = n.buffer \o <<tx>>
      BY <1>1, AppendIsConcat
    <3> QED BY <3>1, <3>2
  <2>2. IsInjective(<<tx>>) /\ Range(<<tx>>) = {tx}
    <3>1. DOMAIN <<tx>> = {1} /\ <<tx>>[1] = tx
      OBVIOUS
    <3> QED BY <3>1 DEF IsInjective, Range
  <2>3. IsInjective(n.buffer) /\ tx \notin Range(n.buffer)
    BY <1>4 DEF NoDuplicates, ToSet, Range
  <2>4. Range(n.buffer) \cap Range(<<tx>>) = {}
    BY <2>2, <2>3
  <2>5. IsInjective(n.buffer \o <<tx>>)
    BY <1>1, <2>1, <2>2, <2>3, <2>4, InjectiveConcat
  <2> QED BY <2>1, <2>5
<1> HIDE DEF buffer
<1>6. o = [n EXCEPT !.buffer = buffer]
  BY DEF buffer
<1>7. /\ o \in SenderType /\ o.buffer = buffer
      /\ o.block = n.block /\ o.inFlight = n.inFlight
      /\ o.encodingCurrentBlock = n.encodingCurrentBlock
  BY <1>2, <1>6 DEF SenderType
<1>8. Waiting(W \ {m}) \subseteq Waiting(W)
  BY DEF Waiting
<1>9. NoDuplicates(o, W \ {m}, R)
  BY <1>2, <1>3, <1>4, <1>5, <1>7, <1>8 DEF NoDuplicates
<1> QED BY <1>7, <1>9

-----------------------------------------------------------------------------
(* What f leaves of the sender of s for p, and sends, after message m.      *)
Fills(s, p, m, f) ==
  /\ f.state \in SenderType /\ f.outbox \in Seq(CodewordType)
  /\ \A i \in 1..Len(f.outbox) : ToSet(f.outbox[i].block) \subseteq 1..generated
  /\ NoDuplicates(f.state, Under(s, s, "loopback") \ {m}, received[s])
  /\ \A b \in Nat : seq <= b =>
       LinkCore(f.state, receiver[p][s],
                Under(s, p, "codeword") \cup Burst(s, p, m.arrival, b, f.outbox),
                Under(p, s, "ack") \ {m})
  /\ GoesOn(s, f.state)

(* WindowFilled, in the state of server s and of its handler for p.         *)
LEMMA WindowFills ==
  ASSUME LocalTypes, QueueOK, NEW s \in Servers, NEW p \in peers[s], NEW m,
         NEW n \in SenderType,
         LinkCore(n, receiver[p][s], Under(s, p, "codeword"), Under(p, s, "ack") \ {m}),
         NoDuplicates(n, Under(s, s, "loopback") \ {m}, received[s]),
         NEW may \in BOOLEAN, canStartNewBlock(s) => may,
         NEW f, f = TryFillSendWindow(n, may)
  PROVE  Fills(s, p, m, f)
<1> DEFINE C == Under(s, p, "codeword")
           A == Under(p, s, "ack") \ {m}
           r == receiver[p][s]
<1>1. r \in ReceiverType /\ received[s] \subseteq 1..generated
  BY PeersProperties DEF LocalTypes
<1>2. LinkSets(C, A)
  <2>1. LinkSets(C, Under(p, s, "ack"))
    BY LinkSetsHold
  <2> QED BY <2>1, FS_Subset DEF LinkSets
<1>3. ASSUME NEW b \in Nat, seq <= b
      PROVE  /\ f.state \in SenderType /\ f.outbox \in Seq(CodewordType)
             /\ LinkCore(f.state, r, C \cup Burst(s, p, m.arrival, b, f.outbox), A)
             /\ GoesOn(s, f.state)
             /\ \/ f.state.buffer = n.buffer /\ f.state.block = n.block
                \/ f.state.buffer = <<>> /\ f.state.block = n.buffer
             /\ \A i \in 1..Len(f.outbox) : f.outbox[i].block = f.state.block
  <2>1. \A x \in C : x.seq < b
    <3>1. \A x \in mq : x.seq \in Nat /\ x.seq < seq
      BY DEF QueueOK, MessageOK
    <3>2. seq \in Nat
      BY DEF QueueOK
    <3> QED BY <3>1, <3>2, <1>3 DEF Under
  <2> DEFINE X == Burst(s, p, m.arrival, b, f.outbox)
  <2>2. LinkCore(n, r, C, A)
    OBVIOUS
  <2>3. X = Burst(s, p, m.arrival, b, f.outbox)
    OBVIOUS
  <2> HIDE DEF C, A, r, X
  <2>4. Filled(s, n, r, C, A, f, X)
    BY <2>1, <2>2, <2>3, <1>1, <1>2, WindowFilled
  <2> QED BY <2>4 DEF X, Filled
<1>4. \E b \in Nat : seq <= b
  <2>1. seq \in Nat /\ seq <= seq
    BY DEF QueueOK
  <2> QED BY <2>1
<1>5. /\ f.state \in SenderType /\ f.outbox \in Seq(CodewordType)
      /\ GoesOn(s, f.state)
      /\ \/ f.state.buffer = n.buffer /\ f.state.block = n.block
         \/ f.state.buffer = <<>> /\ f.state.block = n.buffer
      /\ \A i \in 1..Len(f.outbox) : f.outbox[i].block = f.state.block
  BY <1>3, <1>4
<1>6. NoDuplicates(f.state, Under(s, s, "loopback") \ {m}, received[s])
  BY <1>5, NoDuplicatesKept
<1>7. ToSet(f.state.block) \subseteq 1..generated
  BY <1>1, <1>6 DEF NoDuplicates
<1> QED BY <1>3, <1>5, <1>6, <1>7 DEF Fills

(* A handler that fills the windows of a server changes its links only.     *)
LEMMA FillStep ==
  ASSUME LtInv, NEW m, m.payload.type # "codeword", NEW q, q = m.to,
         NEW fills, NEW others \in Seq(SelfOutgoing(q, EventType)),
         \A i \in 1..Len(others) : others[i].payload.type # "loopback",
         Fill(m, fills, others),
         \A p \in peers[q] : Fills(q, p, m, fills[p]),
         UNCHANGED <<received, decoded, pending, receiver, lastScheduled, generated, panicked>>
  PROVE  LtInv'
<1> DEFINE out == [p \in peers[q] |-> fills[p].outbox]
           at == m.arrival
<1>1. PICK order \in Orders(q) : Deliver(m, others \o Collect(q, out, order))
  BY DEF Fill
<1>2. LocalTypes /\ DecoderPeeled /\ QueueOK
  BY DEF LtInv
<1>3. m \in mq /\ q \in Servers
  BY <1>1, <1>2 DEF Deliver, IsNext, QueueOK, MessageOK
<1>4. peers[q] \in SUBSET Servers /\ IsFiniteSet(peers[q]) /\ q \notin peers[q]
  BY <1>3, PeersProperties
<1>5. order \in Seq(Servers) /\ IsInjective(order) /\ ToSet(order) = peers[q]
  <2>1. order \in SetToSeqs(peers[q])
    BY DEF Orders
  <2>2. order \in Seq(peers[q]) /\ IsInjective(order) /\ ToSet(order) = peers[q]
    BY <2>1, <1>4, OrdersProperties
  <2> QED BY <2>2, <1>4
<1>6. ASSUME NEW p \in peers[q]
      PROVE  /\ out[p] = fills[p].outbox
             /\ out[p] \in Seq(CodewordType) /\ out[p] \in Seq(LinkPayload)
             /\ \A i \in 1..Len(out[p]) : ToSet(out[p][i].block) \subseteq 1..generated
  <2>1. out[p] = fills[p].outbox
    OBVIOUS
  <2>2. out[p] \in Seq(CodewordType) /\ \A i \in 1..Len(out[p]) : ToSet(out[p][i].block) \subseteq 1..generated
    BY <2>1 DEF Fills
  <2>3. \A o \in Seq(CodewordType) : o \in Seq(LinkPayload)
    BY DEF LinkPayload
  <2> QED BY <2>1, <2>2, <2>3
<1> HIDE DEF out
<1>7. generated \in Nat /\ generated' = generated
  BY <1>2 DEF LocalTypes
<1>8. QueueOK' /\ Sent(m, q, others, order, out)
  <2>1. \A p \in ToSet(order) : out[p] \in Seq(LinkPayload)
    BY <1>5, <1>6
  <2>2. \A p \in ToSet(order) : \A i \in 1..Len(out[p]) :
          out[p][i].type = "codeword" => ToSet(out[p][i].block) \subseteq 1..generated'
    BY <1>5, <1>6, <1>7
  <2>3. ToSet(order) \subseteq peers[q] /\ generated <= generated' /\ generated' \in Nat
    BY <1>5, <1>7
  <2> QED BY <2>1, <2>2, <2>3, <1>1, <1>2, <1>5, <1>7, HandlerStep
<1>9. PICK base \in [peers[q] -> Nat] :
        /\ \A p \in peers[q] : seq <= base[p]
        /\ \A s, p, type : s # p =>
             Under(s, p, type)' = (Under(s, p, type) \ {m}) \cup
               (IF s = q /\ p \in peers[q]
                THEN {x \in Burst(q, p, at, base[p], out[p]) : x.payload.type = type}
                ELSE {})
        /\ \A s, type :
             Under(s, s, type)' = (Under(s, s, type) \ {m}) \cup
               (IF s = q THEN {x \in Scheduled(q, others, at) : x.payload.type = type} ELSE {})
  BY <1>5, <1>8 DEF Sent
<1>10. ASSUME NEW p \in peers[q], NEW x \in Burst(q, p, at, base[p], out[p])
       PROVE  x.payload.type = "codeword"
  <2>1. PICK j \in DOMAIN out[p] : x.payload = out[p][j]
    BY DEF Burst
  <2>2. out[p][j] \in CodewordType
    BY <1>6
  <2> QED BY <2>1, <2>2, PayloadTypes
<1>11. ASSUME NEW s \in Servers, NEW p \in peers[s]
       PROVE  /\ Under(s, p, "codeword")' = Under(s, p, "codeword") \cup
                   (IF s = q THEN Burst(q, p, at, base[p], out[p]) ELSE {})
              /\ Under(p, s, "ack")' = IF s = q THEN Under(p, s, "ack") \ {m} ELSE Under(p, s, "ack")
  <2>1. s # p /\ p # s
    BY PeersProperties
  <2>2. Under(s, p, "codeword") \ {m} = Under(s, p, "codeword")
    BY DEF Under
  <2>3. s # q => Under(p, s, "ack") \ {m} = Under(p, s, "ack")
    BY DEF Under
  <2>4. s = q => {x \in Burst(q, p, at, base[p], out[p]) : x.payload.type = "codeword"} = Burst(q, p, at, base[p], out[p])
    BY <1>10
  <2>5. p = q /\ s \in peers[q] => {x \in Burst(q, s, at, base[s], out[s]) : x.payload.type = "ack"} = {}
    BY <1>10
  <2>6. Under(s, p, "codeword")' = (Under(s, p, "codeword") \ {m}) \cup
               (IF s = q /\ p \in peers[q]
                THEN {x \in Burst(q, p, at, base[p], out[p]) : x.payload.type = "codeword"}
                ELSE {})
    BY <2>1, <1>9
  <2>7. Under(p, s, "ack")' = (Under(p, s, "ack") \ {m}) \cup
               (IF p = q /\ s \in peers[q]
                THEN {x \in Burst(q, s, at, base[s], out[s]) : x.payload.type = "ack"}
                ELSE {})
    BY <2>1, <1>9
  <2>8. p = q => s # q
    BY <2>1
  <2> QED BY <2>2, <2>3, <2>4, <2>5, <2>6, <2>7, <2>8
<1>12. ASSUME NEW s \in Servers
       PROVE  Under(s, s, "loopback")' = Under(s, s, "loopback") \ {m}
  <2>1. {x \in Scheduled(q, others, at) : x.payload.type = "loopback"} = {}
    <3>1. \A x \in Scheduled(q, others, at) : \E i \in 1..Len(others) : x.payload = others[i].payload
      BY DEF Scheduled
    <3> QED BY <3>1
  <2>2. Under(s, s, "loopback")' = (Under(s, s, "loopback") \ {m}) \cup
               (IF s = q THEN {x \in Scheduled(q, others, at) : x.payload.type = "loopback"} ELSE {})
    BY <1>9
  <2> QED BY <2>1, <2>2
<1>13. sender' = [sender EXCEPT ![q] = [p \in Servers |-> IF p \in peers[q] THEN fills[p].state ELSE @[p]]]
  BY DEF Fill
<1>14. /\ sender' \in [Servers -> [Servers -> SenderType]]
       /\ \A p \in peers[q] : sender'[q][p] = fills[p].state
       /\ \A s \in Servers \ {q} : sender'[s] = sender[s]
  <2>1. sender \in [Servers -> [Servers -> SenderType]]
    BY <1>2 DEF LocalTypes
  <2>2. \A p \in peers[q] : fills[p].state \in SenderType
    BY DEF Fills
  <2> DEFINE row == [p \in Servers |-> IF p \in peers[q] THEN fills[p].state ELSE sender[q][p]]
  <2>3. row \in [Servers -> SenderType] /\ \A p \in peers[q] : row[p] = fills[p].state
    BY <2>1, <2>2, <1>3, <1>4
  <2>4. sender' = [sender EXCEPT ![q] = row]
    BY <1>13
  <2> HIDE DEF row
  <2> QED BY <2>1, <2>3, <2>4, <1>3
<1>15. LocalTypes' /\ DecoderPeeled'
  BY <1>2, <1>14 DEF LocalTypes, DecoderPeeled
<1>16. ASSUME NEW s \in Servers
       PROVE  LoopsOK(Under(s, s, "loopback")', lastScheduled'[s], received'[s])
  <2>1. LoopsOK(Under(s, s, "loopback"), lastScheduled[s], received[s])
    BY DEF LtInv
  <2>2. LoopsOK(Under(s, s, "loopback") \ {m}, lastScheduled[s], received[s])
    BY <2>1, LoopsKept
  <2> QED BY <2>2, <1>12
<1>17. ASSUME NEW s \in Servers, NEW p \in peers[s]
       PROVE  NoDuplicates(sender'[s][p], Under(s, s, "loopback")', received'[s])
  <2>1. CASE s = q
    BY <2>1, <1>12, <1>14 DEF Fills
  <2>2. CASE s # q
    <3>1. NoDuplicates(sender[s][p], Under(s, s, "loopback"), received[s])
      BY DEF LtInv
    <3>2. Waiting(Under(s, s, "loopback") \ {m}) \subseteq Waiting(Under(s, s, "loopback"))
      BY DEF Waiting
    <3>3. NoDuplicates(sender[s][p], Under(s, s, "loopback") \ {m}, received[s])
      BY <3>1, <3>2, NoDuplicatesKept
    <3> QED BY <2>2, <3>3, <1>12, <1>14
  <2> QED BY <2>1, <2>2
<1>18. ASSUME NEW s \in Servers, NEW p \in peers[s]
       PROVE  LinkOK(s, p)'
  <2>1. receiver' = receiver
    OBVIOUS
  <2>2. CASE s = q
    <3>1. /\ LinkCore(fills[p].state, receiver[p][q],
                      Under(q, p, "codeword") \cup Burst(q, p, at, base[p], out[p]),
                      Under(p, q, "ack") \ {m})
          /\ GoesOn(q, fills[p].state)
      <4>1. base[p] \in Nat /\ seq <= base[p] /\ out[p] = fills[p].outbox
        BY <2>2, <1>6, <1>9
      <4> QED BY <4>1, <2>2 DEF Fills
    <3> QED BY <2>1, <2>2, <3>1, <1>11, <1>14 DEF LinkOK, GoesOn
  <2>3. CASE s # q
    <3>1. LinkOK(s, p)
      BY DEF LtInv
    <3>2. sender'[s] = sender[s]
      BY <2>3, <1>14
    <3> QED BY <2>1, <2>3, <3>1, <3>2, <1>11 DEF LinkOK, GoesOn
  <2> QED BY <2>2, <2>3
<1> QED BY <1>8, <1>15, <1>16, <1>17, <1>18 DEF LtInv

(* What a message of the queue can be.                                      *)
LEMMA MessageProperties ==
  ASSUME QueueOK, NEW m \in mq
  PROVE  /\ m.to \in Servers /\ m.arrival \in Nat
         /\ m.payload.type \in {"loopback", "blockArrival", "createNewBlock"} =>
              m.from = m.to /\ m.payload \in EventType
         /\ m.payload.type = "loopback" => m.payload.tx \in Tx
         /\ m.payload.type \in {"codeword", "ack"} => m.from \in Servers /\ m.from \in peers[m.to]
         /\ m.payload.type = "codeword" => m.payload \in CodewordType
         /\ m.payload.type = "ack" => m.payload \in AckType
<1>1. MessageOK(m)
  BY DEF QueueOK
<1>2. \A e \in EventType : e.type = "loopback" => e.tx \in Tx
  BY DEF EventType
<1> QED BY <1>1, <1>2, PayloadTypes DEF MessageOK

(* A transaction that leaves its slot enters the buffer of each sender.     *)
LEMMA LoopbackStep ==
  ASSUME LtInv, NEW m, HandleLoopback(m)
  PROVE  LtInv'
<1> DEFINE q == m.to
           W == Under(q, q, "loopback")
           may == canStartNewBlock(q)
           fills == [p \in peers[q] |-> OnTransaction(sender[q][p], m.payload.tx, may)]
<1>1. /\ m.payload.type = "loopback" /\ Fill(m, fills, <<>>)
      /\ UNCHANGED <<received, decoded, pending, receiver, lastScheduled, generated, panicked>>
  BY DEF HandleLoopback
<1>2. LocalTypes /\ QueueOK /\ m \in mq
  BY <1>1 DEF LtInv, Fill, Deliver, IsNext
<1>3. q \in Servers /\ m.from = q /\ m.payload.tx \in Tx /\ m \in W
  BY <1>1, <1>2, MessageProperties DEF Under
<1>4. ASSUME NEW p \in peers[q] PROVE Fills(q, p, m, fills[p])
  <2> DEFINE n == sender[q][p]
             tx == m.payload.tx
             o == [n EXCEPT !.buffer = Append(@, tx)]
             f == TryFillSendWindow(o, may)
             C == Under(q, p, "codeword")
             A == Under(p, q, "ack")
  <2>1. n \in SenderType
    BY <1>2, <1>3, PeersProperties DEF LocalTypes
  <2>2. LoopsOK(W, lastScheduled[q], received[q]) /\ NoDuplicates(n, W, received[q]) /\ LinkOK(q, p)
    BY <1>3 DEF LtInv
  <2> HIDE DEF W
  <2>3. /\ o \in SenderType
        /\ o.block = n.block /\ o.inFlight = n.inFlight
        /\ o.encodingCurrentBlock = n.encodingCurrentBlock
        /\ NoDuplicates(o, W \ {m}, received[q])
    <3> DEFINE O == o
    <3>1. O = [n EXCEPT !.buffer = Append(@, tx)] /\ tx \in Tx /\ tx = m.payload.tx
      BY <1>3
    <3> HIDE DEF n, tx, O
    <3>2. /\ O \in SenderType
          /\ O.block = n.block /\ O.inFlight = n.inFlight
          /\ O.encodingCurrentBlock = n.encodingCurrentBlock
          /\ NoDuplicates(O, W \ {m}, received[q])
      BY <3>1, <2>1, <2>2, <1>3, TransactionTaken
    <3> QED BY <3>2 DEF O
  <2>4. LinkCore(n, receiver[p][q], C, A) /\ A \ {m} = A
    BY <2>2, <1>1 DEF LinkOK, Under
  <2> HIDE DEF n, o
  <2>5. LinkCore(o, receiver[p][q], C, A \ {m})
    BY <2>3, <2>4 DEF LinkCore, Handshakes, BlocksAgree
  <2>6. may \in BOOLEAN
    BY DEF canStartNewBlock
  <2>7. Fills(q, p, m, f)
    <3> HIDE DEF f, q, may
    <3>1. f = TryFillSendWindow(o, may) /\ (canStartNewBlock(q) => may)
      BY DEF f, may
    <3> QED BY <3>1, <2>3, <2>5, <2>6, <1>2, <1>3, WindowFills DEF W
  <2>8. fills[p] = f
    BY DEF OnTransaction, o, n
  <2> QED BY <2>7, <2>8
<1> DEFINE others == <<>>
<1>5. others \in Seq(SelfOutgoing(q, EventType)) /\ \A i \in 1..Len(others) : others[i].payload.type # "loopback"
  OBVIOUS
<1>6. q = m.to /\ Fill(m, fills, others)
  BY <1>1
<1> HIDE DEF fills, q, others
<1> QED BY <1>1, <1>4, <1>5, <1>6, FillStep

(* A server that synchronizes lets its senders start their next blocks.     *)
LEMMA CreateNewBlockStep ==
  ASSUME LtInv, NEW m, HandleCreateNewBlock(m)
  PROVE  LtInv'
<1> DEFINE q == m.to
           W == Under(q, q, "loopback")
           fills == [p \in peers[q] |-> TryFillSendWindow(sender[q][p], TRUE)]
           others == <<ToSelf(q, m.payload, forceSynchronize[q])>>
<1>1. /\ m.payload.type = "createNewBlock" /\ Fill(m, fills, others)
      /\ UNCHANGED <<received, decoded, pending, receiver, lastScheduled, generated, panicked>>
  BY DEF HandleCreateNewBlock
<1>2. LocalTypes /\ QueueOK /\ m \in mq
  BY <1>1 DEF LtInv, Fill, Deliver, IsNext
<1>3. q \in Servers /\ m.payload \in EventType
  BY <1>1, <1>2, MessageProperties
<1>4. ASSUME NEW p \in peers[q] PROVE Fills(q, p, m, fills[p])
  <2> DEFINE n == sender[q][p]
             f == TryFillSendWindow(n, TRUE)
             may == TRUE
  <2>1. n \in SenderType
    BY <1>2, <1>3, PeersProperties DEF LocalTypes
  <2>2. NoDuplicates(n, W, received[q]) /\ LinkOK(q, p)
    BY <1>3 DEF LtInv
  <2>3. NoDuplicates(n, W \ {m}, received[q])
    <3>1. Waiting(W \ {m}) \subseteq Waiting(W)
      BY DEF Waiting
    <3> HIDE DEF W, n
    <3> QED BY <2>2, <3>1, NoDuplicatesKept
  <2>4. LinkCore(n, receiver[p][q], Under(q, p, "codeword"), Under(p, q, "ack") \ {m})
    <3>1. Under(p, q, "ack") \ {m} = Under(p, q, "ack")
      BY <1>1 DEF Under
    <3> QED BY <3>1, <2>2 DEF LinkOK
  <2>5. Fills(q, p, m, f)
    <3>1. f = TryFillSendWindow(n, may) /\ (canStartNewBlock(q) => may) /\ may \in BOOLEAN
      OBVIOUS
    <3> HIDE DEF f, q, may, n
    <3> QED BY <3>1, <2>1, <2>3, <2>4, <1>2, <1>3, WindowFills
  <2> QED BY <2>5
<1>5. others \in Seq(SelfOutgoing(q, EventType)) /\ \A i \in 1..Len(others) : others[i].payload.type # "loopback"
  <2> DEFINE e == ToSelf(q, m.payload, forceSynchronize[q])
  <2>1. e \in SelfOutgoing(q, EventType) /\ e.payload.type # "loopback"
    BY <1>1, <1>3, LtBlockSyncAssumption DEF ToSelf, SelfOutgoing
  <2> HIDE DEF e
  <2>2. \A i \in 1..Len(<<e>>) : <<e>>[i] = e
    OBVIOUS
  <2>3. <<e>> \in Seq(SelfOutgoing(q, EventType))
    BY <2>1
  <2> QED BY <2>1, <2>2, <2>3 DEF e
<1>6. q = m.to /\ m.payload.type # "codeword"
  BY <1>1
<1> HIDE DEF fills, q, others
<1> QED BY <1>1, <1>4, <1>5, <1>6, FillStep

(* An acknowledgement frees a place in one window and may conclude its      *)
(* block.                                                                   *)
LEMMA AckStep ==
  ASSUME LtInv, NEW m, HandleAck(m)
  PROVE  LtInv'
<1> DEFINE q == m.to
           W == Under(q, q, "loopback")
           may == canStartNewBlock(q)
           fills == [p \in peers[q] |->
                       IF p = m.from THEN OnAck(sender[q][p], m.payload, may)
                       ELSE [state |-> sender[q][p], outbox |-> <<>>]]
           others == <<>>
<1>1. /\ m.payload.type = "ack" /\ Fill(m, fills, others)
      /\ UNCHANGED <<received, decoded, pending, receiver, lastScheduled, generated, panicked>>
  BY DEF HandleAck
<1>2. LocalTypes /\ QueueOK /\ m \in mq
  BY <1>1 DEF LtInv, Fill, Deliver, IsNext
<1>3. q \in Servers /\ m.from \in peers[q]
  BY <1>1, <1>2, MessageProperties
<1>4. ASSUME NEW p \in peers[q] PROVE Fills(q, p, m, fills[p])
  <2> DEFINE n == sender[q][p]
             r == receiver[p][q]
             C == Under(q, p, "codeword")
             A == Under(p, q, "ack")
  <2>1. p \in Servers /\ n \in SenderType /\ r \in ReceiverType
    BY <1>2, <1>3, PeersProperties DEF LocalTypes
  <2>2. NoDuplicates(n, W, received[q]) /\ LinkCore(n, r, C, A) /\ GoesOn(q, n)
    BY <1>3 DEF LtInv, LinkOK
  <2>3. LinkSets(C, A)
    BY <1>2, <1>3, LinkSetsHold
  <2>4. Waiting(W \ {m}) \subseteq Waiting(W)
    BY DEF Waiting
  <2>5. CASE p = m.from
    <3> DEFINE o == Acked(n, m)
               f == TryFillSendWindow(o, may)
    <3>1. m \in A
      BY <2>5, <1>1, <1>2 DEF Under
    <3>2. /\ o \in SenderType
          /\ o.buffer = n.buffer /\ o.block = n.block
          /\ LinkCore(o, r, C, A \ {m})
      <4> DEFINE O == o
      <4>1. O = Acked(n, m)
        OBVIOUS
      <4> HIDE DEF n, r, C, A, O
      <4>2. /\ O \in SenderType
            /\ O.buffer = n.buffer /\ O.block = n.block
            /\ LinkCore(O, r, C, A \ {m})
        BY <4>1, <3>1, <2>1, <2>2, <2>3, AckTaken
      <4> QED BY <4>2 DEF O
    <3>3. fills[p] = f
      BY <2>5 DEF OnAck, Acked
    <3> HIDE DEF o, n, W
    <3>4. NoDuplicates(o, W \ {m}, received[q])
      BY <3>2, <2>2, <2>4, NoDuplicatesKept
    <3>5. Fills(q, p, m, f)
      <4>1. f = TryFillSendWindow(o, may) /\ (canStartNewBlock(q) => may) /\ may \in BOOLEAN
        BY DEF canStartNewBlock
      <4>2. LinkCore(o, receiver[p][q], Under(q, p, "codeword"), Under(p, q, "ack") \ {m})
        BY <3>2
      <4>3. NoDuplicates(o, Under(q, q, "loopback") \ {m}, received[q])
        BY <3>4 DEF W
      <4> HIDE DEF f, q, may
      <4> QED BY <4>1, <4>2, <4>3, <3>2, <1>2, <1>3, WindowFills
    <3> QED BY <3>3, <3>5
  <2>6. CASE p # m.from
    <3> DEFINE f == [state |-> n, outbox |-> <<>>]
    <3>1. fills[p] = f
      BY <2>6
    <3>2. f.state = n /\ f.outbox = <<>>
      OBVIOUS
    <3> HIDE DEF f
    <3>3. A \ {m} = A
      BY <2>6 DEF Under
    <3>4. NoDuplicates(n, W \ {m}, received[q])
      <4> HIDE DEF n, W
      <4> QED BY <2>2, <2>4, NoDuplicatesKept
    <3>5. <<>> \in Seq(CodewordType) /\ 1..Len(<<>>) = {} /\ DOMAIN <<>> = {}
      OBVIOUS
    <3>6. \A b : Burst(q, p, m.arrival, b, <<>>) = {}
      BY <3>5 DEF Burst
    <3>7. \A b : C \cup Burst(q, p, m.arrival, b, <<>>) = C
      BY <3>6
    <3> HIDE DEF n, C, A
    <3>8. Fills(q, p, m, f)
      BY <3>2, <3>3, <3>4, <3>5, <3>7, <2>1, <2>2 DEF Fills, C, A, W
    <3> QED BY <3>1, <3>8
  <2> QED BY <2>5, <2>6
<1>5. others \in Seq(SelfOutgoing(q, EventType)) /\ \A i \in 1..Len(others) : others[i].payload.type # "loopback"
  OBVIOUS
<1>6. q = m.to /\ m.payload.type # "codeword"
  BY <1>1
<1> HIDE DEF fills, q, others
<1> QED BY <1>1, <1>4, <1>5, <1>6, FillStep

-----------------------------------------------------------------------------
(* A server registers txs at time at, and forwards them.                    *)
SelfOK ==
  /\ received \in [Servers -> SUBSET Tx]
  /\ lastScheduled \in [Servers -> Nat]
  /\ \A s \in Servers :
       /\ LoopsOK(Under(s, s, "loopback"), lastScheduled[s], received[s])
       /\ \A p \in peers[s] : NoDuplicates(sender[s][p], Under(s, s, "loopback"), received[s])

Forwards(q, at, txs, outs) ==
  /\ RegisterReceived(q, ToSet(txs))
  /\ SetLastScheduled(q, at, txs)
  /\ UNCHANGED sender
  /\ \A s \in Servers :
       Under(s, s, "loopback")' = Under(s, s, "loopback") \cup
         (IF s = q THEN NewLoops(q, outs, at) ELSE {})

(* A server that registers txs forwards them and changes nothing else of    *)
(* what waits.                                                              *)
LEMMA ForwardingStep ==
  ASSUME LtInv, NEW q \in Servers, NEW at \in Nat,
         NEW txs \in Seq(Tx), IsInjective(txs), ToSet(txs) \cap received[q] = {},
         NEW rest \in Seq(SelfOutgoing(q, EventType)),
         \A i \in 1..Len(rest) : rest[i].payload.type # "loopback",
         NEW outs, outs = ScheduleForwarding(q, at, txs) \o rest
  PROVE  /\ outs \in Seq(SelfOutgoing(q, EventType))
         /\ Forwards(q, at, txs, outs) => SelfOK'
<1> DEFINE W == Under(q, q, "loopback")
           R == received[q]
           last == LastAfter(q, at, txs)
           New == NewLoops(q, outs, at)
<1>1. LocalTypes /\ QueueOK
  BY DEF LtInv
<1>2. seq \in Nat /\ lastScheduled[q] \in Nat /\ received \in [Servers -> SUBSET (1..generated)]
      /\ 1..generated \subseteq Tx
  <2>1. generated \in 0..MaxTx /\ MaxTx \in Nat
    BY <1>1, LtBlockSyncAssumption DEF LocalTypes
  <2> QED BY <1>1, <2>1 DEF LocalTypes, QueueOK, Tx
<1>3. LoopsOK(W, lastScheduled[q], R) /\ ToSet(txs) \cap R = {}
  BY DEF LtInv
<1>4. \A m \in W : m.seq \in Nat /\ m.seq < seq /\ m.arrival \in Nat
  BY <1>1 DEF QueueOK, MessageOK, Under
<1>5. /\ outs \in Seq(SelfOutgoing(q, EventType))
      /\ last \in Nat
      /\ LoopsOK(W \cup New, last, R \cup ToSet(txs))
      /\ Waiting(W \cup New) = Waiting(W) \cup ToSet(txs)
  <2>1. last = LastAfter(q, at, txs) /\ New = NewLoops(q, outs, at)
    OBVIOUS
  <2> HIDE DEF W, R, last, New
  <2>2. LoopsAdded(q, txs, W, R, outs, last, New)
    BY <2>1, <1>2, <1>3, <1>4, Forwarded
  <2> QED BY <2>2 DEF LoopsAdded
<1> SUFFICES ASSUME Forwards(q, at, txs, outs) PROVE SelfOK'
  BY <1>5
<1>6. /\ received' \in [Servers -> SUBSET Tx]
      /\ received'[q] = R \cup ToSet(txs)
      /\ \A s \in Servers \ {q} : received'[s] = received[s]
  <2>1. ToSet(txs) \subseteq Tx
    BY DEF ToSet
  <2>2. received' = [received EXCEPT ![q] = R \cup ToSet(txs)]
    BY DEF Forwards, RegisterReceived
  <2> QED BY <2>1, <2>2, <1>2
<1>7. /\ lastScheduled' \in [Servers -> Nat]
      /\ lastScheduled'[q] = last
      /\ \A s \in Servers \ {q} : lastScheduled'[s] = lastScheduled[s]
  <2>1. lastScheduled \in [Servers -> Nat]
    BY <1>1 DEF LocalTypes
  <2>2. lastScheduled' = IF txs = <<>> THEN lastScheduled
                         ELSE [lastScheduled EXCEPT ![q] = LastSlot(q, at, Len(txs))]
    BY DEF Forwards, SetLastScheduled
  <2>3. CASE txs = <<>>
    BY <2>1, <2>2, <2>3 DEF LastAfter
  <2>4. CASE txs # <<>>
    <3>1. lastScheduled' = [lastScheduled EXCEPT ![q] = last]
      BY <2>2, <2>4 DEF LastAfter
    <3> HIDE DEF last
    <3> QED BY <3>1, <2>1, <1>5
  <2> QED BY <2>3, <2>4
<1>8. sender' = sender /\ Under(q, q, "loopback")' = W \cup New
      /\ \A s \in Servers \ {q} : Under(s, s, "loopback")' = Under(s, s, "loopback")
  BY DEF Forwards
<1>9. ASSUME NEW s \in Servers
      PROVE  LoopsOK(Under(s, s, "loopback")', lastScheduled'[s], received'[s])
  <2>1. CASE s = q
    <3> HIDE DEF W, R, last, New
    <3> QED BY <2>1, <1>5, <1>6, <1>7, <1>8
  <2>2. CASE s # q
    <3>1. LoopsOK(Under(s, s, "loopback"), lastScheduled[s], received[s])
      BY DEF LtInv
    <3> QED BY <3>1, <2>2, <1>6, <1>7, <1>8
  <2> QED BY <2>1, <2>2
<1>10. ASSUME NEW s \in Servers, NEW p \in peers[s]
       PROVE  NoDuplicates(sender'[s][p], Under(s, s, "loopback")', received'[s])
  <2>1. NoDuplicates(sender[s][p], Under(s, s, "loopback"), received[s])
    BY DEF LtInv
  <2>2. CASE s = q
    <3>1. Waiting(W \cup New) \cap R \subseteq Waiting(W)
      BY <1>3, <1>5
    <3>2. NoDuplicates(sender[q][p], W, R)
      BY <2>1, <2>2
    <3> HIDE DEF W, R, New
    <3>3. NoDuplicates(sender[q][p], W \cup New, R \cup ToSet(txs))
      BY <3>1, <3>2, NoDuplicatesKept
    <3> QED BY <3>3, <2>2, <1>6, <1>8
  <2>3. CASE s # q
    BY <2>1, <2>3, <1>6, <1>8
  <2> QED BY <2>2, <2>3
<1> QED BY <1>6, <1>7, <1>9, <1>10 DEF SelfOK

(* The decoder of q knows K after peeling the codewords cws.                *)
LEMMA DecodeStep ==
  ASSUME LocalTypes, DecoderPeeled, NEW q \in Servers,
         generated' \in 0..MaxTx, generated <= generated',
         NEW K \in SUBSET (1..generated'), NEW cws \in SUBSET SUBSET (1..generated'),
         \A c \in cws : Cardinality(c \ K) # 1,
         received' = [received EXCEPT ![q] = K],
         Decode(q, K, cws), ~panicked'
  PROVE  /\ DecoderPeeled'
         /\ received' \in [Servers -> SUBSET (1..generated')]
         /\ pending' \in [Servers -> SUBSET SUBSET (1..generated')]
<1>1. /\ received \in [Servers -> SUBSET (1..generated)] /\ decoded = received
      /\ pending \in [Servers -> SUBSET SUBSET (1..generated)]
      /\ generated \in Nat
  BY DEF LocalTypes, DecoderPeeled
<1>2. 1..generated \subseteq 1..generated'
  BY <1>1
<1>3. \A s \in Servers : received[s] \in SUBSET (1..generated') /\ pending[s] \in SUBSET SUBSET (1..generated')
  <2>1. \A s \in Servers : received[s] \in SUBSET (1..generated) /\ pending[s] \in SUBSET SUBSET (1..generated)
    BY <1>1
  <2> QED BY <2>1, <1>2
<1>4. received' \in [Servers -> SUBSET (1..generated')]
  BY <1>1, <1>3
<1> DEFINE open == {c \in cws : ~(c \subseteq K)}
<1>5. pending' = [pending EXCEPT ![q] = open]
  BY DEF Decode
<1>6. open \in SUBSET SUBSET (1..generated') /\ \A c \in open : Cardinality(c \ K) # 1
  OBVIOUS
<1> HIDE DEF open
<1>7. pending' \in [Servers -> SUBSET SUBSET (1..generated')]
  BY <1>1, <1>3, <1>5, <1>6
<1>8. decoded' = received'
  BY <1>1 DEF Decode
<1>9. ASSUME NEW s \in Servers, NEW c \in pending'[s] PROVE Cardinality(c \ received'[s]) # 1
  <2>1. CASE s = q
    BY <2>1, <1>1, <1>5, <1>6
  <2>2. CASE s # q
    <3>1. received'[s] = received[s] /\ pending'[s] = pending[s]
      BY <2>2, <1>1, <1>5
    <3> QED BY <3>1 DEF DecoderPeeled
  <2> QED BY <2>1, <2>2
<1> QED BY <1>4, <1>7, <1>8, <1>9 DEF DecoderPeeled

(* One message is a burst.                                                  *)
LEMMA SingleBurst ==
  ASSUME NEW q, NEW p, NEW at, NEW b \in Nat, NEW v
  PROVE  Burst(q, p, at, b, <<v>>) =
           {[arrival |-> at + Delay[q][p], seq |-> b, from |-> q, to |-> p, payload |-> v]}
<1>1. DOMAIN <<v>> = {1} /\ <<v>>[1] = v
  OBVIOUS
<1>2. b + 1 - 1 = b
  OBVIOUS
<1> QED BY <1>1, <1>2 DEF Burst

(* A codeword is decoded with all that the server has, and acknowledged.    *)
LEMMA CodewordStep ==
  ASSUME LtInv, NEW m, HandleCodeword(m)
  PROVE  LtInv'
<1> DEFINE q == m.to
           p == m.from
           at == m.arrival
           R == received[q]
           D == 1..generated
           W == Under(q, q, "loopback")
           C == Under(p, q, "codeword")
           A == Under(q, p, "ack")
           n == sender[p][q]
           r == receiver[q][p]
           Taken(x) == AddCodeword(r, m.payload, x)
           Cws(x) == pending[q] \cup {x}
           Known(x) == Peeled(decoded[q], Cws(x))
           Acks(x) == AcksBlock(Taken(x), Known(x))
           Out(x) == [d \in peers[q] |-> <<[type |-> "ack", ackBlock |-> Acks(x)]>>]
           Next_(x) == [Taken(x) EXCEPT !.currentBlockReceived = @ \/ Acks(x)]
<1>1. /\ m.payload.type = "codeword" /\ UNCHANGED <<sender, generated>>
      /\ \E x \in Draws(m.payload) :
           /\ Decode(q, Known(x), Cws(x))
           /\ receiver' = [receiver EXCEPT ![q][p] = Next_(x)]
           /\ \E buf \in SetToSeqs(Known(x) \ decoded[q]) :
                /\ RegisterReceived(q, ToSet(buf))
                /\ panicked' = (panicked \/ ToSet(buf) \cap received[q] # {})
                /\ SetLastScheduled(q, at, buf)
                /\ Deliver(m, ScheduleForwarding(q, at, buf) \o Collect(q, Out(x), <<p>>))
  BY DEF HandleCodeword
<1>2. PICK x \in Draws(m.payload) :
           /\ Decode(q, Known(x), Cws(x))
           /\ receiver' = [receiver EXCEPT ![q][p] = Next_(x)]
           /\ \E buf \in SetToSeqs(Known(x) \ decoded[q]) :
                /\ RegisterReceived(q, ToSet(buf))
                /\ panicked' = (panicked \/ ToSet(buf) \cap received[q] # {})
                /\ SetLastScheduled(q, at, buf)
                /\ Deliver(m, ScheduleForwarding(q, at, buf) \o Collect(q, Out(x), <<p>>))
  BY <1>1
<1> DEFINE cws == Cws(x)
           K == Known(x)
           taken == Taken(x)
           acks == Acks(x)
           out == Out(x)
           next == Next_(x)
<1>3. PICK buf \in SetToSeqs(K \ decoded[q]) :
                /\ RegisterReceived(q, ToSet(buf))
                /\ panicked' = (panicked \/ ToSet(buf) \cap received[q] # {})
                /\ SetLastScheduled(q, at, buf)
                /\ Deliver(m, ScheduleForwarding(q, at, buf) \o Collect(q, out, <<p>>))
  BY <1>2
<1>4. LocalTypes /\ DecoderPeeled /\ QueueOK /\ m \in mq /\ IsNext(m)
  BY <1>3 DEF LtInv, Deliver, IsNext
<1>5. /\ q \in Servers /\ p \in Servers /\ p \in peers[q] /\ q \in peers[p] /\ p # q
      /\ m.payload \in CodewordType /\ at \in Nat /\ m \in C
  BY <1>1, <1>4, MessageProperties, PeersProperties DEF Under
<1>6. /\ generated \in Nat /\ generated' = generated /\ generated \in 0..MaxTx
      /\ D \in SUBSET Tx /\ R \in SUBSET D /\ decoded[q] = R /\ seq \in Nat
      /\ pending[q] \in SUBSET SUBSET D
  <2>1. generated \in 0..MaxTx /\ MaxTx \in Nat
    BY <1>4, LtBlockSyncAssumption DEF LocalTypes
  <2> QED BY <2>1, <1>1, <1>4, <1>5 DEF LocalTypes, DecoderPeeled, QueueOK, Tx
<1>7. x \in SUBSET ToSet(m.payload.block) /\ x \in SUBSET D
  <2>1. x \in SUBSET ToSet(m.payload.block)
    BY <1>5, DrawsProperties
  <2>2. ToSet(m.payload.block) \subseteq D
    BY <1>1, <1>4 DEF QueueOK, MessageOK
  <2> QED BY <2>1, <2>2
<1>8. R \subseteq K /\ K \subseteq D /\ \A c \in cws : Cardinality(c \ K) # 1
  <2>1. cws \in SUBSET SUBSET D /\ K = Peeled(R, cws)
    BY <1>6, <1>7
  <2> HIDE DEF cws, D, R, K
  <2>2. /\ R \subseteq Peeled(R, cws) /\ Peeled(R, cws) \subseteq D
        /\ \A c \in cws : Cardinality(c \ Peeled(R, cws)) # 1
    <3>1. D \in SUBSET Tx /\ R \in SUBSET D /\ cws \in SUBSET SUBSET D
      BY <2>1, <1>6
    <3> QED BY <3>1, PeeledProperties
  <2> QED BY <2>1, <2>2
<1>9. buf \in Seq(Tx) /\ ToSet(buf) = K \ R /\ IsInjective(buf)
  <2>1. IsFiniteSet(K \ R)
    <3>1. IsFiniteSet(D)
      <4>1. 1 \in Int /\ generated \in Int
        BY <1>6
      <4> QED BY <4>1, FS_Interval
    <3> HIDE DEF K, R, D
    <3> QED BY <3>1, <1>8, FS_Subset
  <2>2. buf \in Seq(K \ R) /\ ToSet(buf) = K \ R /\ IsInjective(buf)
    <3>1. buf \in SetToSeqs(K \ R)
      BY <1>6
    <3> HIDE DEF K, R, D
    <3> QED BY <2>1, <3>1, OrdersProperties
  <2> HIDE DEF K, R, D
  <2>3. K \ R \subseteq Tx
    BY <1>6, <1>8
  <2> QED BY <2>2, <2>3
<1> HIDE DEF K, R, D, cws, taken, acks, out, next
<1>10. ToSet(buf) \cap R = {} /\ R \cup ToSet(buf) = K
  BY <1>8, <1>9
<1>11. acks \in BOOLEAN /\ (acks => ~taken.currentBlockReceived)
  BY DEF acks, AcksBlock, taken
<1> DEFINE ack == [type |-> "ack", ackBlock |-> acks]
<1>12. out[p] = <<ack>> /\ ack \in AckType /\ ack.type = "ack"
  BY <1>5, <1>11 DEF out, AckType, acks
<1> HIDE DEF ack
<1> DEFINE fw == ScheduleForwarding(q, at, buf)
           rest == <<>>
<1>13. /\ fw \in Seq(SelfOutgoing(q, EventType))
       /\ Forwards(q, at, buf, fw) => SelfOK'
  <2>1. rest \in Seq(SelfOutgoing(q, EventType)) /\ \A i \in 1..Len(rest) : rest[i].payload.type # "loopback"
    OBVIOUS
  <2>2. fw = fw \o rest
    <3>1. \A i \in DOMAIN buf : TRUE
      OBVIOUS
    <3> DEFINE g(i) == ToSelf(q, [type |-> "loopback", tx |-> buf[i]], Slot(q, at, i) - at)
    <3>2. fw = [i \in 1..Len(buf) |-> g(i)]
      BY <1>9 DEF ScheduleForwarding
    <3>3. fw \in Seq({g(i) : i \in 1..Len(buf)})
      <4> HIDE DEF g, fw
      <4> QED BY <3>2, <1>9
    <3> HIDE DEF fw
    <3> QED BY <3>3, ConcatEmptySeq
  <2> HIDE DEF rest
  <2>3. ScheduleForwarding(q, at, buf) = fw
    OBVIOUS
  <2> HIDE DEF fw, q, at
  <2> QED BY <2>1, <2>2, <2>3, <1>5, <1>9, <1>10, ForwardingStep DEF R
<1> HIDE DEF fw
<1> DEFINE order == <<p>>
<1>14. order \in Seq(Servers) /\ IsInjective(order) /\ ToSet(order) = {p}
  <2>1. DOMAIN order = {1} /\ order[1] = p
    OBVIOUS
  <2>2. order \in Seq(Servers)
    BY <1>5
  <2> HIDE DEF order
  <2> QED BY <2>1, <2>2 DEF IsInjective, ToSet
<1> HIDE DEF order
<1>15. QueueOK' /\ Sent(m, q, fw, order, out)
  <2>1. <<ack>> \in Seq(LinkPayload) /\ \A i \in 1..Len(<<ack>>) : <<ack>>[i] = ack
    BY <1>12 DEF LinkPayload
  <2>2. \A d \in ToSet(order) : out[d] \in Seq(LinkPayload)
    BY <2>1, <1>12, <1>14
  <2>3. \A d \in ToSet(order) : \A i \in 1..Len(out[d]) :
          out[d][i].type = "codeword" => ToSet(out[d][i].block) \subseteq 1..generated'
    BY <2>1, <1>12, <1>14
  <2>4. Deliver(m, fw \o Collect(q, out, order))
    BY <1>3 DEF fw, order
  <2>5. ToSet(order) \subseteq peers[q] /\ generated <= generated' /\ generated' \in Nat
    BY <1>5, <1>6, <1>14
  <2>6. q = m.to
    OBVIOUS
  <2> HIDE DEF q, p, at
  <2> QED BY <2>2, <2>3, <2>4, <2>5, <2>6, <1>4, <1>6, <1>13, <1>14, HandlerStep
<1>16. PICK base \in [{p} -> Nat] :
         /\ \A d \in {p} : seq <= base[d]
         /\ \A s, d, type : s # d =>
              Under(s, d, type)' = (Under(s, d, type) \ {m}) \cup
                (IF s = q /\ d \in {p}
                 THEN {y \in Burst(q, d, at, base[d], out[d]) : y.payload.type = type}
                 ELSE {})
         /\ \A s, type :
              Under(s, s, type)' = (Under(s, s, type) \ {m}) \cup
                (IF s = q THEN {y \in Scheduled(q, fw, at) : y.payload.type = type} ELSE {})
  BY <1>14, <1>15 DEF Sent
<1> DEFINE b == [arrival |-> at + Delay[q][p], seq |-> base[p], from |-> q, to |-> p, payload |-> ack]
<1>17. Burst(q, p, at, base[p], out[p]) = {b} /\ base[p] \in Nat /\ seq <= base[p]
  <2>1. base[p] \in Nat /\ seq <= base[p]
    BY <1>16
  <2> DEFINE k == base[p]
  <2>2. k \in Nat
    BY <2>1
  <2> HIDE DEF q, p, at, k
  <2>3. Burst(q, p, at, k, <<ack>>) =
          {[arrival |-> at + Delay[q][p], seq |-> k, from |-> q, to |-> p, payload |-> ack]}
    BY <2>2, SingleBurst
  <2> QED BY <2>1, <2>3, <1>12 DEF k
<1>18. b \notin A /\ b.payload = ack
  <2>1. \A y \in A : y.seq \in Nat /\ y.seq < seq
    BY <1>4 DEF QueueOK, MessageOK, Under
  <2>2. b.seq = base[p] /\ b.payload = ack
    OBVIOUS
  <2> HIDE DEF b, A
  <2> QED BY <2>1, <2>2, <1>6, <1>17
<1> HIDE DEF b
<1>19. ASSUME NEW s \in Servers, NEW d \in peers[s]
       PROVE  /\ Under(s, d, "codeword")' = IF s = p /\ d = q THEN C \ {m} ELSE Under(s, d, "codeword")
              /\ Under(d, s, "ack")' = IF s = p /\ d = q THEN A \cup {b} ELSE Under(d, s, "ack")
  <2>1. s # d /\ d # s
    BY PeersProperties
  <2>2. Under(s, d, "codeword")' = (Under(s, d, "codeword") \ {m}) \cup
                (IF s = q /\ d \in {p}
                 THEN {y \in Burst(q, d, at, base[d], out[d]) : y.payload.type = "codeword"}
                 ELSE {})
    BY <2>1, <1>16
  <2>3. Under(d, s, "ack")' = (Under(d, s, "ack") \ {m}) \cup
                (IF d = q /\ s \in {p}
                 THEN {y \in Burst(q, s, at, base[s], out[s]) : y.payload.type = "ack"}
                 ELSE {})
    BY <2>1, <1>16
  <2>4. {y \in Burst(q, p, at, base[p], out[p]) : y.payload.type = "codeword"} = {}
    BY <1>12, <1>17, <1>18
  <2>5. {y \in Burst(q, p, at, base[p], out[p]) : y.payload.type = "ack"} = {b}
    BY <1>12, <1>17, <1>18
  <2>6. ~(s = p /\ d = q) => Under(s, d, "codeword") \ {m} = Under(s, d, "codeword")
    BY DEF Under
  <2>7. Under(d, s, "ack") \ {m} = Under(d, s, "ack")
    BY <1>1 DEF Under
  <2> QED BY <2>2, <2>3, <2>4, <2>5, <2>6, <2>7
<1>20. next \in ReceiverType /\ LinkCore(n, next, C \ {m}, A \cup {b})
  <2>1. n \in SenderType /\ r \in ReceiverType /\ LinkSets(C, A) /\ LinkCore(n, r, C, A)
    <3>1. LinkOK(p, q)
      BY <1>5 DEF LtInv
    <3>2. LinkSets(C, A)
      BY <1>4, <1>5, LinkSetsHold
    <3> QED BY <3>1, <3>2, <1>4, <1>5 DEF LocalTypes, LinkOK
  <2>2. \A y \in C : m.seq <= y.seq
    BY <1>4, <1>5, FirstOnLink DEF Under
  <2>3. taken = AddCodeword(r, m.payload, x) /\ next = [taken EXCEPT !.currentBlockReceived = @ \/ acks]
    BY DEF taken, next, acks
  <2>4. b.payload = [type |-> "ack", ackBlock |-> acks]
    BY <1>18 DEF ack
  <2> HIDE DEF n, r, C, A, q, p
  <2> QED BY <2>1, <2>2, <2>3, <2>4, <1>5, <1>7, <1>11, <1>18, CodewordTaken
<1>21. /\ receiver' \in [Servers -> [Servers -> ReceiverType]]
       /\ receiver'[q][p] = next
       /\ \A s, d \in Servers : ~(s = p /\ d = q) => receiver'[d][s] = receiver[d][s]
  <2>1. receiver \in [Servers -> [Servers -> ReceiverType]]
    BY <1>4 DEF LocalTypes
  <2>2. receiver' = [receiver EXCEPT ![q][p] = next]
    BY <1>2 DEF next
  <2> QED BY <2>1, <2>2, <1>5, <1>20
<1>22. SelfOK'
  <2>1. \A s \in Servers : Under(s, s, "loopback")' = Under(s, s, "loopback") \cup
           (IF s = q THEN NewLoops(q, fw, at) ELSE {})
    <3> SUFFICES ASSUME NEW s \in Servers
                 PROVE  Under(s, s, "loopback")' = Under(s, s, "loopback") \cup
                          (IF s = q THEN NewLoops(q, fw, at) ELSE {})
      OBVIOUS
    <3>1. Under(s, s, "loopback") \ {m} = Under(s, s, "loopback")
      BY <1>1 DEF Under
    <3> QED BY <3>1, <1>16 DEF NewLoops
  <2>2. RegisterReceived(q, ToSet(buf)) /\ SetLastScheduled(q, at, buf) /\ UNCHANGED sender
    BY <1>1, <1>3
  <2>3. Forwards(q, at, buf, fw)
    BY <2>1, <2>2 DEF Forwards
  <2> QED BY <2>3, <1>13
<1>23. /\ DecoderPeeled'
       /\ received' \in [Servers -> SUBSET (1..generated')]
       /\ pending' \in [Servers -> SUBSET SUBSET (1..generated')]
  <2>1. received' = [received EXCEPT ![q] = K]
    BY <1>3, <1>10 DEF RegisterReceived, R
  <2>2. ~panicked'
    BY <1>3, <1>4, <1>10 DEF DecoderPeeled, R
  <2>3. Decode(q, K, cws)
    BY <1>2 DEF K, cws
  <2>4. generated' \in 0..MaxTx /\ generated <= generated'
    BY <1>6
  <2>5. K \in SUBSET (1..generated') /\ cws \in SUBSET SUBSET (1..generated')
    BY <1>6, <1>7, <1>8 DEF D, cws
  <2> HIDE DEF q
  <2> QED BY <2>1, <2>2, <2>3, <2>4, <2>5, <1>4, <1>5, <1>8, DecodeStep
<1>24. LocalTypes'
  BY <1>1, <1>4, <1>6, <1>21, <1>22, <1>23 DEF LocalTypes, SelfOK
<1>25. ASSUME NEW s \in Servers, NEW d \in peers[s]
       PROVE  LinkOK(s, d)'
  <2>1. LinkOK(s, d) /\ sender'[s][d] = sender[s][d] /\ d \in Servers
    BY <1>1, PeersProperties DEF LtInv
  <2>2. CASE s = p /\ d = q
    BY <2>1, <2>2, <1>19, <1>20, <1>21 DEF LinkOK, GoesOn
  <2>3. CASE ~(s = p /\ d = q)
    BY <2>1, <2>3, <1>19, <1>21 DEF LinkOK, GoesOn
  <2> QED BY <2>2, <2>3
<1> QED BY <1>15, <1>22, <1>23, <1>24, <1>25 DEF LtInv, SelfOK

(* Transactions that arrive make no codeword that waits decodable, as none  *)
(* is of them.                                                              *)
LEMMA ArrivalStep ==
  ASSUME LtInv, NEW m, HandleBlockArrival(m)
  PROVE  LtInv'
<1> DEFINE q == m.to
           at == m.arrival
           R == received[q]
           n == Min({blockArrivalBurst, MaxTx - generated})
           txs == Generated(n)
           T == ToSet(txs)
           known == Peeled(decoded[q] \cup T, pending[q])
           Rest(intv) == IF generated' < MaxTx THEN <<ToSelf(q, m.payload, intv)>> ELSE <<>>
           fw == ScheduleForwarding(q, at, txs)
           D == 1..generated'
<1>1. /\ m.payload.type = "blockArrival" /\ UNCHANGED <<sender, receiver>>
      /\ generated' = generated + n
      /\ panicked' = (panicked \/ T \cap R # {} \/ known # decoded[q] \cup T)
      /\ RegisterReceived(q, T)
      /\ Decode(q, known, pending[q])
      /\ SetLastScheduled(q, at, txs)
      /\ \E intv \in Intervals : Deliver(m, fw \o Rest(intv))
  BY DEF HandleBlockArrival
<1>2. PICK intv \in Intervals : Deliver(m, fw \o Rest(intv))
  BY <1>1
<1>3. LocalTypes /\ DecoderPeeled /\ QueueOK /\ m \in mq
  BY <1>2 DEF LtInv, Deliver, IsNext
<1>4. q \in Servers /\ m.from = q /\ at \in Nat /\ m.payload \in EventType
  BY <1>1, <1>3, MessageProperties
<1>5. /\ generated \in Nat /\ generated \in 0..MaxTx
      /\ n \in Nat /\ generated + n \in 0..MaxTx
      /\ generated' \in 0..MaxTx /\ generated <= generated' /\ generated' \in Nat
      /\ MaxTx \in Nat
  <2>1. generated \in 0..MaxTx /\ MaxTx \in Nat
    BY <1>3, LtBlockSyncAssumption DEF LocalTypes
  <2>2. n \in Nat /\ generated + n \in 0..MaxTx
    BY <2>1, ArrivalProperties
  <2> HIDE DEF n
  <2> QED BY <2>1, <2>2, <1>1
<1>6. /\ txs \in Seq(Tx) /\ IsInjective(txs)
      /\ T = generated + 1..generated + n
  <2> HIDE DEF n
  <2> QED BY <1>5, GeneratedProperties
<1>7. /\ D \in SUBSET Tx /\ R \in SUBSET (1..generated) /\ decoded[q] = R
      /\ pending[q] \in SUBSET SUBSET (1..generated)
      /\ \A c \in pending[q] : Cardinality(c \ R) # 1
  BY <1>3, <1>4, <1>5 DEF LocalTypes, DecoderPeeled, Tx
<1> HIDE DEF n, txs
<1>8. /\ 1..generated \subseteq D /\ T \subseteq D /\ T \cap (1..generated) = {}
  BY <1>1, <1>5, <1>6
<1>9. /\ R \cup T \in SUBSET D /\ T \cap R = {} /\ pending[q] \in SUBSET SUBSET D
      /\ \A c \in pending[q] : Cardinality(c \ (R \cup T)) # 1
  <2> HIDE DEF T, R, D
  <2>1. \A c \in pending[q] : c \ (R \cup T) = c \ R
    BY <1>7, <1>8
  <2> QED BY <2>1, <1>7, <1>8
<1>10. known = R \cup T
  <2> DEFINE K == R \cup T
             cws == pending[q]
  <2>1. K \in SUBSET D /\ cws \in SUBSET SUBSET D /\ D \in SUBSET Tx
        /\ \A c \in cws : Cardinality(c \ K) # 1
    BY <1>7, <1>9
  <2> HIDE DEF K, cws, D
  <2>2. Peeled(K, cws) = K
    BY <2>1, PeeledProperties
  <2> QED BY <2>2, <1>7 DEF K, cws
<1> HIDE DEF T, R, known
<1> DEFINE rest == Rest(intv)
           e == ToSelf(q, m.payload, intv)
<1>11. rest \in Seq(SelfOutgoing(q, EventType)) /\ \A i \in 1..Len(rest) : rest[i].payload.type # "loopback"
  <2>1. e \in SelfOutgoing(q, EventType) /\ e.payload.type # "loopback"
    BY <1>1, <1>4, LtBlockSyncAssumption DEF ToSelf, SelfOutgoing
  <2> HIDE DEF e
  <2>2. <<e>> \in Seq(SelfOutgoing(q, EventType)) /\ \A i \in 1..Len(<<e>>) : <<e>>[i] = e
    BY <2>1
  <2>3. <<>> \in Seq(SelfOutgoing(q, EventType)) /\ 1..Len(<<>>) = {}
    OBVIOUS
  <2>4. rest = <<e>> \/ rest = <<>>
    BY DEF e
  <2> HIDE DEF rest
  <2> QED BY <2>1, <2>2, <2>3, <2>4
<1> HIDE DEF rest, fw
<1> DEFINE outs == fw \o rest
<1>12. /\ outs \in Seq(SelfOutgoing(q, EventType))
       /\ Forwards(q, at, txs, outs) => SelfOK'
  <2>1. outs = ScheduleForwarding(q, at, txs) \o rest /\ ToSet(txs) \cap received[q] = {}
    BY <1>9 DEF fw, T, R
  <2> HIDE DEF outs, q, at
  <2> QED BY <2>1, <1>4, <1>6, <1>11, ForwardingStep
<1> HIDE DEF outs
<1> DEFINE order == <<>>
           out == <<>>
<1>13. /\ order \in Seq(Servers) /\ IsInjective(order) /\ ToSet(order) = {}
       /\ Collect(q, out, order) = <<>>
  <2>1. DOMAIN order = {} /\ order \in Seq(Servers)
    OBVIOUS
  <2>2. Collect(q, out, order) = <<>>
    <3> DEFINE c(i) == [j \in DOMAIN out[order[i]] |->
                          [payload |-> out[order[i]][j], to |-> order[i], delay |-> Delay[q][order[i]]]]
    <3>1. Collect(q, out, order) = FlattenSeq([i \in DOMAIN order |-> c(i)])
      BY DEF Collect
    <3> HIDE DEF c
    <3>2. [i \in DOMAIN order |-> c(i)] = <<>>
      OBVIOUS
    <3> QED BY <3>1, <3>2 DEF FlattenSeq
  <2> HIDE DEF order
  <2> QED BY <2>1, <2>2 DEF IsInjective, ToSet
<1> HIDE DEF order, out
<1>14. QueueOK' /\ Sent(m, q, outs, order, out)
  <2>1. Deliver(m, outs \o Collect(q, out, order))
    <3>1. Deliver(m, outs)
      BY <1>2 DEF outs, rest
    <3>2. outs \o <<>> = outs
      BY <1>12
    <3> QED BY <3>1, <3>2, <1>13
  <2>2. ToSet(order) \subseteq peers[q] /\ q = m.to
    BY <1>13
  <2> HIDE DEF q, at, D
  <2> QED BY <2>1, <2>2, <1>3, <1>5, <1>12, <1>13, HandlerStep
<1>15. /\ \A s, d, type : s # d => Under(s, d, type)' = Under(s, d, type) \ {m}
       /\ \A s : Under(s, s, "loopback")' = (Under(s, s, "loopback") \ {m}) \cup
            (IF s = q THEN NewLoops(q, outs, at) ELSE {})
  BY <1>13, <1>14 DEF Sent, NewLoops
<1>16. ASSUME NEW s \in Servers, NEW d \in peers[s]
       PROVE  /\ Under(s, d, "codeword")' = Under(s, d, "codeword")
              /\ Under(d, s, "ack")' = Under(d, s, "ack")
  <2>1. s # d
    BY PeersProperties
  <2>2. m \notin Under(s, d, "codeword") /\ m \notin Under(d, s, "ack")
    BY <1>1 DEF Under
  <2> QED BY <2>1, <2>2, <1>15
<1>17. SelfOK'
  <2>1. \A s \in Servers : Under(s, s, "loopback")' = Under(s, s, "loopback") \cup
           (IF s = q THEN NewLoops(q, outs, at) ELSE {})
    <3>1. \A s \in Servers : m \notin Under(s, s, "loopback")
      BY <1>1 DEF Under
    <3> QED BY <3>1, <1>15
  <2>2. RegisterReceived(q, ToSet(txs)) /\ SetLastScheduled(q, at, txs) /\ UNCHANGED sender
    BY <1>1 DEF T
  <2>3. Forwards(q, at, txs, outs)
    BY <2>1, <2>2 DEF Forwards
  <2> QED BY <2>3, <1>12
<1>18. /\ DecoderPeeled'
       /\ received' \in [Servers -> SUBSET (1..generated')]
       /\ pending' \in [Servers -> SUBSET SUBSET (1..generated')]
  <2> DEFINE K == R \cup T
             cws == pending[q]
  <2>1. received' = [received EXCEPT ![q] = K]
    BY <1>1 DEF RegisterReceived, R
  <2>2. ~panicked'
    BY <1>1, <1>3, <1>7, <1>9, <1>10 DEF DecoderPeeled
  <2>3. Decode(q, K, cws)
    BY <1>1, <1>10
  <2>4. K \in SUBSET (1..generated') /\ cws \in SUBSET SUBSET (1..generated')
        /\ \A c \in cws : Cardinality(c \ K) # 1
    BY <1>9
  <2> HIDE DEF q, K, cws
  <2> QED BY <2>1, <2>2, <2>3, <2>4, <1>3, <1>4, <1>5, DecodeStep
<1>19. LocalTypes'
  BY <1>1, <1>3, <1>5, <1>17, <1>18 DEF LocalTypes, SelfOK
<1>20. ASSUME NEW s \in Servers, NEW d \in peers[s]
       PROVE  LinkOK(s, d)'
  <2>1. LinkOK(s, d)
    BY DEF LtInv
  <2> QED BY <2>1, <1>1, <1>16 DEF LinkOK, GoesOn
<1> QED BY <1>14, <1>17, <1>18, <1>19, <1>20 DEF LtInv, SelfOK

-----------------------------------------------------------------------------
(* The events that newServers schedules.                                    *)
LEMMA InitialQueue ==
  ASSUME Init
  PROVE  /\ QueueOK
         /\ \A m \in mq : m.from = m.to /\ m.payload.type # "loopback"
<1> DEFINE E == {e \in [arrival : Nat, from : Servers, to : Servers, payload : EventType] :
                   e.from = e.to /\ e.payload.type # "loopback"}
           event(s, type, at) == [arrival |-> at, from |-> s, to |-> s, payload |-> [type |-> type]]
           part(i, intv) ==
             <<event(i - 1, "blockArrival", intv[i - 1])>> \o
             (IF canStartNewBlock(i - 1) THEN <<>>
              ELSE <<event(i - 1, "createNewBlock", forceSynchronize[i - 1])>>)
           ss(intv) == [i \in 1..N |-> part(i, intv)]
<1>1. PICK intv \in [Servers -> Intervals] :
        LET events == FlattenSeq(ss(intv))
        IN InitSimulator({[arrival |-> events[i].arrival, seq |-> i - 1, from |-> events[i].from,
                           to |-> events[i].to, payload |-> events[i].payload] : i \in DOMAIN events})
  BY DEF Init
<1> DEFINE events == FlattenSeq(ss(intv))
           msg(i) == [arrival |-> events[i].arrival, seq |-> i - 1, from |-> events[i].from,
                      to |-> events[i].to, payload |-> events[i].payload]
           first == {msg(i) : i \in DOMAIN events}
<1>2. time = 0 /\ mq = first /\ seq = Cardinality(first)
  BY <1>1 DEF InitSimulator
<1>3. N \in Nat
  BY ConnectionsProperties
<1>4. ASSUME NEW i \in 1..N PROVE part(i, intv) \in Seq(E)
  <2> DEFINE s == i - 1
             a == event(s, "blockArrival", intv[s])
             c == event(s, "createNewBlock", forceSynchronize[s])
  <2>1. s \in Servers
    BY <1>3 DEF Servers
  <2>2. intv[s] \in Nat /\ forceSynchronize[s] \in Nat
    BY <2>1, LtBlockSyncAssumption
  <2>3. [type |-> "blockArrival"] \in EventType /\ [type |-> "createNewBlock"] \in EventType
    BY DEF EventType
  <2>4. a \in E /\ c \in E
    BY <2>1, <2>2, <2>3
  <2> HIDE DEF a, c, E
  <2>5. <<a>> \in Seq(E) /\ <<c>> \in Seq(E) /\ <<>> \in Seq(E)
    BY <2>4
  <2>6. part(i, intv) = <<a>> \o (IF canStartNewBlock(s) THEN <<>> ELSE <<c>>)
    BY DEF a, c
  <2> HIDE DEF part
  <2>7. \A x, y \in Seq(E) : x \o y \in Seq(E)
    OBVIOUS
  <2> QED BY <2>5, <2>6, <2>7
<1>5. events \in Seq(E)
  <2> HIDE DEF part, E
  <2>1. ss(intv) \in Seq(Seq(E))
    BY <1>3, <1>4
  <2> HIDE DEF ss
  <2> QED BY <2>1, FlattenSeqProperties
<1> HIDE DEF events
<1>6. DOMAIN events = 1..Len(events) /\ Len(events) \in Nat
  BY <1>5
<1>7. ASSUME NEW i \in 1..Len(events)
      PROVE  /\ msg(i).seq = i - 1 /\ msg(i).seq \in Nat /\ msg(i).seq < Len(events)
             /\ msg(i).arrival \in Nat /\ msg(i).from = msg(i).to /\ msg(i).to \in Servers
             /\ msg(i).payload \in EventType /\ msg(i).payload.type # "loopback"
  <2>1. events[i] \in E
    BY <1>5
  <2>2. i - 1 \in Nat /\ i - 1 < Len(events)
    BY <1>6
  <2> QED BY <2>1, <2>2
<1> HIDE DEF msg, E
<1>8. first = {msg(i) : i \in 1..Len(events)}
  BY <1>6
<1> DEFINE f == [i \in 1..Len(events) |-> msg(i)]
<1>9. \A i, j \in 1..Len(events) : msg(i).seq = msg(j).seq => i = j
  BY <1>6, <1>7
<1>10. f \in Bijection(1..Len(events), first)
  BY <1>8, <1>9 DEF Bijection, Injection, Surjection, IsInjective
<1> HIDE DEF f, first
<1>11. IsFiniteSet(first) /\ Cardinality(first) = Len(events)
  <2>1. 1 \in Int /\ Len(events) \in Int
    BY <1>6
  <2>2. IsFiniteSet(1..Len(events))
        /\ Cardinality(1..Len(events)) = IF 1 > Len(events) THEN 0 ELSE Len(events) - 1 + 1
    BY <2>1, FS_Interval
  <2>3. Cardinality(1..Len(events)) = Len(events)
    BY <2>2, <1>6
  <2>4. ExistsBijection(1..Len(events), first)
    BY <1>10 DEF ExistsBijection
  <2> QED BY <2>2, <2>3, <2>4, FS_Bijection
<1>12. \A m \in mq : /\ m.from = m.to /\ m.to \in Servers /\ m.arrival \in Nat
                     /\ m.seq \in Nat /\ m.seq < seq
                     /\ m.payload \in EventType /\ m.payload.type # "loopback"
  BY <1>2, <1>7, <1>8, <1>11
<1>13. \A m \in mq : MessageOK(m) /\ time <= m.arrival
  <2> SUFFICES ASSUME NEW m \in mq PROVE MessageOK(m) /\ time <= m.arrival
    OBVIOUS
  <2>1. m.payload.type # "codeword"
    BY <1>12, PayloadTypes
  <2> QED BY <2>1, <1>2, <1>12 DEF MessageOK
<1>14. \A m, k \in mq : m.seq = k.seq => m = k
  BY <1>2, <1>8, <1>9
<1>15. time \in Nat /\ seq \in Nat /\ IsFiniteSet(mq)
  BY <1>2, <1>6, <1>11
<1> QED BY <1>12, <1>13, <1>14, <1>15 DEF QueueOK

(* The invariant holds of new servers.                                      *)
LEMMA InitHolds ==
  ASSUME Init
  PROVE  LtInv
<1>1. QueueOK /\ \A m \in mq : m.from = m.to /\ m.payload.type # "loopback"
  BY InitialQueue
<1>2. /\ received = [s \in Servers |-> {}] /\ decoded = [s \in Servers |-> {}]
      /\ pending = [s \in Servers |-> {}] /\ lastScheduled = [s \in Servers |-> 0]
      /\ generated = 0 /\ panicked = FALSE
      /\ sender = [s \in Servers |-> [p \in Servers |-> NewSender]]
      /\ receiver = [s \in Servers |-> [p \in Servers |-> NewReceiver]]
  BY DEF Init, NewHandlers
<1>3. NewSender \in SenderType /\ NewReceiver \in ReceiverType
  <2>1. detectThreshold \in Nat \ {0}
    BY LtBlockSyncAssumption
  <2>2. <<>> \in Seq(Tx) /\ <<>> \in Seq(SUBSET Tx)
    OBVIOUS
  <2> QED BY <2>1, <2>2 DEF NewSender, NewReceiver, SenderType, ReceiverType
<1>4. LocalTypes
  <2>1. generated \in 0..MaxTx
    BY <1>2, LtBlockSyncAssumption
  <2>2. received \in [Servers -> SUBSET (1..generated)] /\ pending \in [Servers -> SUBSET SUBSET (1..generated)]
    BY <1>2
  <2> QED BY <2>1, <2>2, <1>2, <1>3 DEF LocalTypes
<1>5. DecoderPeeled
  BY <1>2 DEF DecoderPeeled
<1>6. ASSUME NEW s \in Servers
      PROVE  Under(s, s, "loopback") = {} /\ LoopsOK(Under(s, s, "loopback"), lastScheduled[s], received[s])
  BY <1>1 DEF Under, LoopsOK
<1>7. ASSUME NEW s \in Servers, NEW p \in peers[s]
      PROVE  NoDuplicates(sender[s][p], Under(s, s, "loopback"), received[s]) /\ LinkOK(s, p)
  <2>1. p \in Servers /\ s # p
    BY PeersProperties
  <2>2. sender[s][p] = NewSender /\ receiver[p][s] = NewReceiver
    BY <2>1, <1>2
  <2>3. IsInjective(<<>>) /\ ToSet(<<>>) = {}
    <3>1. DOMAIN <<>> = {}
      OBVIOUS
    <3> QED BY <3>1 DEF IsInjective, ToSet
  <2>4. /\ NewSender.buffer = <<>> /\ NewSender.block = <<>> /\ NewSender.inFlight = 0
        /\ ~NewSender.encodingCurrentBlock /\ NewReceiver.curCodewords = <<>>
    BY DEF NewSender, NewReceiver
  <2>5. NoDuplicates(NewSender, Under(s, s, "loopback"), received[s])
    BY <2>3, <2>4, <1>6 DEF NoDuplicates, Waiting
  <2>6. Under(s, p, "codeword") = {} /\ Under(p, s, "ack") = {}
    BY <2>1, <1>1 DEF Under
  <2>7. LinkCore(NewSender, NewReceiver, {}, {})
    <3>1. Announcing({}) = {} /\ Concluding({}) = {} /\ ~Decoding(NewReceiver)
      BY <2>4 DEF Announcing, Concluding, Decoding
    <3>2. Handshakes(NewSender, NewReceiver, {}, {})
      <4>1. Cardinality(Announcing({})) = 0 /\ Cardinality(Concluding({})) = 0
        BY <3>1, FS_EmptySet
      <4>2. (IF Decoding(NewReceiver) THEN 1 ELSE 0) = 0
            /\ (IF NewSender.encodingCurrentBlock THEN 1 ELSE 0) = 0
        BY <2>4, <3>1
      <4> QED BY <4>1, <4>2 DEF Handshakes
    <3>3. BlocksAgree(NewSender, NewReceiver, {}, {})
      BY <3>1 DEF BlocksAgree
    <3> QED BY <2>4, <3>2, <3>3, FS_EmptySet DEF LinkCore
  <2>8. GoesOn(s, NewSender)
    <3>1. Len(NewSender.buffer) = 0
      BY <2>4
    <3>2. ~(0 >= minBlockSize)
      <4>1. 0 \in Nat
        OBVIOUS
      <4>2. ASSUME 0 >= minBlockSize PROVE FALSE
        BY <4>1, <4>2, WindowProperties
      <4> QED BY <4>2
    <3> QED BY <3>1, <3>2, <2>4 DEF GoesOn
  <2> QED BY <2>2, <2>5, <2>6, <2>7, <2>8 DEF LinkOK
<1> QED BY <1>1, <1>4, <1>5, <1>6, <1>7 DEF LtInv

(* Every step preserves the invariant.                                      *)
LEMMA NextHolds ==
  ASSUME LtInv, [Next]_vars
  PROVE  LtInv'
<1>1. CASE HandleMessage
  <2>1. PICK m \in mq : \/ HandleBlockArrival(m) \/ HandleLoopback(m) \/ HandleCreateNewBlock(m)
                        \/ HandleCodeword(m) \/ HandleAck(m)
    BY <1>1 DEF HandleMessage
  <2> QED BY <2>1, ArrivalStep, LoopbackStep, CreateNewBlockStep, CodewordStep, AckStep
<1>2. ASSUME UNCHANGED <<simulator, servers>> PROVE LtInv'
  <2>1. /\ UNCHANGED <<time, mq, seq, received, decoded, pending, sender, receiver>>
        /\ UNCHANGED <<lastScheduled, generated, panicked>>
    BY <1>2 DEF simulator, servers
  <2>2. \A s, p, type : Under(s, p, type)' = Under(s, p, type)
    BY <2>1 DEF Under
  <2>3. LocalTypes' /\ DecoderPeeled' /\ QueueOK'
    BY <2>1 DEF LtInv, LocalTypes, DecoderPeeled, QueueOK, MessageOK
  <2>4. ASSUME NEW s \in Servers, NEW p \in peers[s] PROVE LinkOK(s, p)'
    BY <2>1, <2>2 DEF LtInv, LinkOK, GoesOn
  <2> QED BY <2>1, <2>2, <2>3, <2>4 DEF LtInv
<1>3. CASE (Return \/ RunUntil) /\ UNCHANGED servers
  <2>1. UNCHANGED <<simulator, servers>>
    BY <1>3 DEF Return, RunUntil, simulator
  <2> QED BY <2>1, <1>2
<1>4. CASE UNCHANGED vars
  <2>1. UNCHANGED <<simulator, servers>>
    BY <1>4 DEF vars
  <2> QED BY <2>1, <1>2
<1> QED BY <1>1, <1>3, <1>4 DEF Next

(* LtInv is inductive.                                                      *)
LEMMA LtInvariant == Spec => []LtInv
<1>1. Init => LtInv
  BY InitHolds
<1>2. LtInv /\ [Next]_vars => LtInv'
  BY NextHolds
<1> QED BY <1>1, <1>2, PTL DEF Spec

-----------------------------------------------------------------------------
(* The window of a sender counts what is under way, and a sender that has   *)
(* something to send has something under way that will let it go on.        *)
THEOREM InFlightIsExact == Spec => []InFlightExact
<1>1. LtInv => InFlightExact
  <2> SUFFICES ASSUME LtInv, NEW s \in Servers, NEW p \in peers[s]
               PROVE  LET n == sender[s][p] IN
                      /\ n.inFlight = Cardinality(Under(s, p, "codeword")) + Cardinality(Under(p, s, "ack"))
                      /\ \/ n.encodingCurrentBlock
                         \/ canStartNewBlock(s) /\ Len(n.buffer) >= minBlockSize
                         => n.inFlight > 0
    BY DEF InFlightExact
  <2>1. LinkOK(s, p)
    BY DEF LtInv
  <2> QED BY <2>1 DEF LinkOK, LinkCore, GoesOn
<1> QED BY <1>1, LtInvariant, PTL

(* An acknowledgement of a block is about the block that is being encoded.  *)
THEOREM BlocksAreHandedOver == Spec => []BlockHandshake
<1>1. LtInv => BlockHandshake
  <2> SUFFICES ASSUME LtInv, NEW s \in Servers, NEW p \in peers[s]
               PROVE  LET announced == Cardinality({m \in Under(s, p, "codeword") : m.payload.newBlock})
                          acked == Cardinality({m \in Under(p, s, "ack") : m.payload.ackBlock})
                          r == receiver[p][s]
                          decoding == IF r.curCodewords # <<>> /\ ~r.currentBlockReceived THEN 1 ELSE 0
                      IN
                      /\ announced + decoding + acked = IF sender[s][p].encodingCurrentBlock THEN 1 ELSE 0
                      /\ decoding = 1 => UNION ToSet(r.curCodewords) \subseteq ToSet(sender[s][p].block)
    BY DEF BlockHandshake
  <2>1. LinkOK(s, p)
    BY DEF LtInv
  <2> DEFINE n == sender[s][p]
             r == receiver[p][s]
             C == Under(s, p, "codeword")
             A == Under(p, s, "ack")
             decoding == IF Decoding(r) THEN 1 ELSE 0
  <2>2. /\ Cardinality(Announcing(C)) + decoding + Cardinality(Concluding(A))
             = IF n.encodingCurrentBlock THEN 1 ELSE 0
        /\ decoding = 1 => UNION ToSet(r.curCodewords) \subseteq ToSet(n.block)
    BY <2>1 DEF LinkOK, LinkCore, Handshakes, BlocksAgree
  <2> QED BY <2>2 DEF Announcing, Concluding, Decoding
<1> QED BY <1>1, LtInvariant, PTL

(* Transactions are put into each sender once.                              *)
THEOREM TransactionsForwardedOnce == Spec => []ForwardedOnce
<1>1. LtInv => ForwardedOnce
  <2> SUFFICES ASSUME LtInv PROVE ForwardedOnce
    OBVIOUS
  <2>1. LocalTypes /\ QueueOK /\ ~panicked
    BY DEF LtInv, DecoderPeeled
  <2> SUFFICES ASSUME NEW s \in Servers
               PROVE  LET waiting == {m.payload.tx : m \in Under(s, s, "loopback")} IN
                      /\ Cardinality(waiting) = Cardinality(Under(s, s, "loopback"))
                      /\ \A p \in peers[s] :
                           LET txs == sender[s][p].buffer \o sender[s][p].block IN
                           /\ IsInjective(txs)
                           /\ ToSet(txs) \cap waiting = {}
                           /\ ToSet(txs) \cup waiting \subseteq received[s]
    BY <2>1 DEF ForwardedOnce
  <2> DEFINE W == Under(s, s, "loopback")
             R == received[s]
  <2>2. LoopsOK(W, lastScheduled[s], R)
    BY DEF LtInv
  <2>3. Cardinality(Waiting(W)) = Cardinality(W)
    <3> DEFINE f == [m \in W |-> m.payload.tx]
    <3>1. IsFiniteSet(W)
      <4>1. W \in SUBSET mq
        BY DEF Under
      <4> QED BY <4>1, <2>1, FS_Subset DEF QueueOK
    <3> HIDE DEF W
    <3>2. f \in Bijection(W, Waiting(W))
      BY <2>2 DEF LoopsOK, Waiting, Bijection, Injection, Surjection, IsInjective
    <3> HIDE DEF f
    <3>3. ExistsBijection(W, Waiting(W))
      BY <3>2 DEF ExistsBijection
    <3> QED BY <3>1, <3>3, FS_Bijection
  <2>4. Waiting(W) \subseteq R
    BY <2>2 DEF LoopsOK, Waiting
  <2>5. ASSUME NEW p \in peers[s]
        PROVE  LET txs == sender[s][p].buffer \o sender[s][p].block IN
               /\ IsInjective(txs)
               /\ ToSet(txs) \cap Waiting(W) = {}
               /\ ToSet(txs) \cup Waiting(W) \subseteq R
    <3> DEFINE x == sender[s][p].buffer
               y == sender[s][p].block
    <3>1. /\ IsInjective(x) /\ IsInjective(y) /\ ToSet(x) \cap ToSet(y) = {}
          /\ (ToSet(x) \cup ToSet(y)) \cap Waiting(W) = {}
          /\ ToSet(x) \cup ToSet(y) \subseteq R
      BY DEF LtInv, NoDuplicates
    <3>2. x \in Seq(Tx) /\ y \in Seq(Tx)
      <4>1. p \in Servers
        BY PeersProperties
      <4>2. sender[s][p] \in SenderType
        BY <4>1, <2>1 DEF LocalTypes
      <4> QED BY <4>2 DEF SenderType
    <3> HIDE DEF x, y, W, R
    <3>3. ToSet(x) = Range(x) /\ ToSet(y) = Range(y) /\ ToSet(x \o y) = Range(x \o y)
      BY DEF ToSet, Range
    <3>4. Range(x \o y) = Range(x) \cup Range(y)
      BY <3>2, RangeConcatenation
    <3>5. IsInjective(x \o y)
      BY <3>1, <3>2, <3>3, InjectiveConcat
    <3> QED BY <3>1, <3>3, <3>4, <3>5, <2>4 DEF x, y
  <2> QED BY <2>3, <2>5 DEF Waiting
<1> QED BY <1>1, LtInvariant, PTL

(* Transactions leave a server at the pace of its rate limiter, none has    *)
(* its slot in the past or behind the last one noted.                       *)
THEOREM ForwardingIsPaced == Spec => []Paced
<1>1. LtInv => Paced
  <2> SUFFICES ASSUME LtInv, NEW s \in Servers, NEW m \in Under(s, s, "loopback")
               PROVE  /\ time <= m.arrival /\ m.arrival <= lastScheduled[s]
                      /\ \A n \in Under(s, s, "loopback") :
                           m.seq < n.seq => m.arrival + minInterval <= n.arrival
    BY DEF Paced
  <2>1. time <= m.arrival
    BY DEF LtInv, QueueOK, Under
  <2> QED BY <2>1 DEF LtInv, LoopsOK
<1> QED BY <1>1, LtInvariant, PTL

=============================================================================
