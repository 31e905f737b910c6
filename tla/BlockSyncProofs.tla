-------------------------- MODULE BlockSyncProofs ---------------------------
(***************************************************************************)
(* Over links that keep messages in order, the coding protocol of newsim   *)
(* loses no transaction between two blocks, decodes each block with the    *)
(* window that belongs to it, and never stops while a block is open, for   *)
(* any connections, transactions, hashes and windows.                      *)
(***************************************************************************)
EXTENDS BlockSync, SequenceLemmas

-----------------------------------------------------------------------------
(* The ends of a link are servers.                                          *)
LEMMA LinksInServers == Links \subseteq Servers \X Servers
<1>1. /\ topology \in Seq(Connection) /\ Len(topology) \in Nat /\ DOMAIN topology = 1..Len(topology)
      /\ \A i \in 1..Len(topology) : topology[i].a \in Nat /\ topology[i].b \in Nat
  <2>1. topology \in Seq(Connection)
    BY TopologyAssumption DEF Topologies
  <2>2. \A i \in 1..Len(topology) : topology[i] \in Connection
    BY <2>1
  <2> QED BY <2>1, <2>2 DEF Connection
<1> DEFINE a == [i \in DOMAIN topology |-> topology[i].a]
           b == [i \in DOMAIN topology |-> topology[i].b]
           U == {0} \cup UNION {Ends(c) : c \in ToSet(topology)}
<1>2. U = {0} \cup {a[i] : i \in DOMAIN topology} \cup {b[i] : i \in DOMAIN topology}
  BY DEF ToSet, Ends
<1>3. IsFiniteSet(DOMAIN topology)
  BY <1>1, FS_Interval
<1>4. IsFiniteSet(U)
  <2>1. IsFiniteSet({a[i] : i \in DOMAIN topology}) /\ IsFiniteSet({b[i] : i \in DOMAIN topology})
    <3> HIDE DEF a, b
    <3> QED BY <1>3, FiniteImage
  <2> QED BY <2>1, <1>2, FS_Union, FS_Singleton
<1>5. U \in SUBSET Nat /\ U # {}
  BY <1>1 DEF Ends, ToSet
<1>6. Max(U) \in U /\ \A i \in U : i <= Max(U)
  <2> HIDE DEF U
  <2> QED BY <1>4, <1>5, GreatestProperties
<1>7. Max(U) \in Nat
  BY <1>5, <1>6
<1>8. ASSUME NEW i \in 1..Len(topology) PROVE topology[i].a \in Servers /\ topology[i].b \in Servers
  <2>1. topology[i].a \in U /\ topology[i].b \in U
    BY <1>1 DEF Ends, ToSet
  <2>2. topology[i].a <= Max(U) /\ topology[i].b <= Max(U)
    <3> HIDE DEF U
    <3> QED BY <2>1, <1>6
  <2>3. N = Max(U) + 1
    BY DEF N
  <2> HIDE DEF U
  <2> QED BY <2>2, <2>3, <1>1, <1>7 DEF Servers
<1> QED BY <1>8, <1>1 DEF Links, ToSet

(* They are peers of each other.                                            *)
LEMMA Peering ==
  ASSUME NEW l \in Links
  PROVE  /\ l[1] \in Servers /\ l[2] \in Servers
         /\ l[2] \in Peers(l[1]) /\ l[1] \in Peers(l[2])
<1>1. l[1] \in Servers /\ l[2] \in Servers /\ l = <<l[1], l[2]>>
  BY LinksInServers
<1> QED BY <1>1 DEF Peers

-----------------------------------------------------------------------------
(* Types of the two ends of a link and of the messages on it.               *)
CodewordType == [newBlock : BOOLEAN, shard : 0..NumShards - 1, block : SUBSET Tx, number : Nat]
AckType == [ackBlock : BOOLEAN, ackStart : BOOLEAN, txs : SUBSET Tx]

SenderType ==
  [buffer : SUBSET Tx, block : SUBSET Tx, sendWindow : Nat, inFlight : Int,
   encodingCurrentBlock : BOOLEAN, receivingCurrentBlock : BOOLEAN,
   currentBlockAckCount : Nat, sent : Nat, shardSchedule : [1..NumShards -> 0..NumShards - 1],
   nextShard : 1..NumShards, shardHash : [Tx -> 0..HashMax], outbox : Seq(CodewordType)]

ReceiverType ==
  [buffer : SUBSET Tx, window : SUBSET Tx, cells : Nat, currentBlockReceived : BOOLEAN,
   shardHash : [Tx -> 0..HashMax]]

(* What Produce does to the sender: count coded symbols of its block, the   *)
(* first of which may begin it.                                             *)
Produces(n, m, isNew, count) ==
  /\ m \in SenderType
  /\ m.outbox = n.outbox \o [i \in 1..count |-> m.outbox[Len(n.outbox) + i]]
  /\ \A i \in 1..count :
       LET cw == m.outbox[Len(n.outbox) + i] IN
       /\ cw \in CodewordType
       /\ cw.newBlock <=> isNew /\ i = 1
       /\ cw.block = n.block
       /\ cw.number = n.sent + i - 1
  /\ m.sent = n.sent + count
  /\ m.inFlight = n.inFlight + count
  /\ m.block = n.block /\ m.buffer = n.buffer
  /\ m.encodingCurrentBlock = n.encodingCurrentBlock
  /\ m.receivingCurrentBlock = n.receivingCurrentBlock
  /\ m.sendWindow = n.sendWindow

(* What the constants are as numbers.                                       *)
LEMMA Parameters ==
  /\ NumShards \in Nat /\ NumShards > 0
  /\ OverheadDen \in Nat /\ OverheadDen > 0 /\ OverheadNum \in Nat
<1>1. NumShards \in 1..HashMax /\ OverheadDen \in Nat \ {0} /\ OverheadNum \in Nat
  BY BlockSyncAssumption
<1> QED BY <1>1

(* Produce does this.                                                       *)
LEMMA ProduceProperties ==
  ASSUME NEW n \in SenderType, NEW shard \in 0..NumShards - 1, NEW isNew \in BOOLEAN, NEW count \in Nat
  PROVE  Produces(n, Produce(n, shard, isNew, count), isNew, count)
<1> DEFINE x == [i \in 1..count |-> Codeword(n, shard, isNew /\ i = 1, n.sent + i - 1)]
           m == [n EXCEPT !.outbox = n.outbox \o x, !.sent = n.sent + count, !.inFlight = n.inFlight + count]
<1>1. Produce(n, shard, isNew, count) = m
  BY DEF Produce
<1>2. /\ n.outbox \in Seq(CodewordType) /\ n.sent \in Nat /\ n.inFlight \in Int /\ n.block \in SUBSET Tx
      /\ n.sent + count \in Nat /\ n.inFlight + count \in Int
  BY DEF SenderType
<1>3. ASSUME NEW i \in 1..count
      PROVE  x[i] \in CodewordType /\ (x[i].newBlock <=> isNew /\ i = 1)
             /\ x[i].block = n.block /\ x[i].number = n.sent + i - 1
  <2>1. n.sent + i - 1 \in Nat
    BY <1>2
  <2> QED BY <1>2, <2>1 DEF Codeword, CodewordType
<1> HIDE DEF x
<1>4. x \in Seq(CodewordType) /\ Len(x) = count /\ x = [i \in 1..count |-> x[i]]
  <2>1. x = [i \in 1..count |-> Codeword(n, shard, isNew /\ i = 1, n.sent + i - 1)]
    BY DEF x
  <2>2. x \in [1..count -> CodewordType]
    BY <2>1, <1>3
  <2> QED BY <2>1, <2>2
<1>5. /\ n.outbox \o x \in Seq(CodewordType) /\ Len(n.outbox) \in Nat
      /\ \A i \in 1..count : (n.outbox \o x)[Len(n.outbox) + i] = x[i]
  BY <1>2, <1>4
<1>6. m \in SenderType
  BY <1>2, <1>5 DEF SenderType
<1>7. /\ m.outbox = n.outbox \o x /\ m.sent = n.sent + count /\ m.inFlight = n.inFlight + count
      /\ m.block = n.block /\ m.buffer = n.buffer
      /\ m.encodingCurrentBlock = n.encodingCurrentBlock
      /\ m.receivingCurrentBlock = n.receivingCurrentBlock
      /\ m.sendWindow = n.sendWindow
  BY DEF SenderType
<1> HIDE DEF m
<1>8. [i \in 1..count |-> m.outbox[Len(n.outbox) + i]] = x
  BY <1>4, <1>5, <1>7
<1> QED BY <1>1, <1>3, <1>5, <1>6, <1>7, <1>8 DEF Produces

(* A send window is never smaller than one coded symbol.                    *)
LEMMA AtLeastOneProperties ==
  ASSUME NEW w \in Nat
  PROVE  AtLeastOne(w) \in Nat /\ AtLeastOne(w) >= OverheadDen
<1>1. OverheadDen \in Int /\ w \in Int
  BY Parameters
<1> DEFINE m == Max({w, OverheadDen})
<1>2. m \in {w, OverheadDen} /\ m >= OverheadDen
  BY <1>1, MaxOfTwo
<1> HIDE DEF m
<1>3. m \in Nat /\ m >= OverheadDen
  BY <1>2, Parameters
<1> QED BY <1>3 DEF m, AtLeastOne

(* What NextBlock does: the block comes from the buffer, nothing is sent.   *)
Opens(n, m) ==
  /\ m \in SenderType
  /\ m.sendWindow >= OverheadDen
  /\ m.buffer \cup m.block = n.buffer
  /\ m.sent = 0 /\ m.inFlight = 0
  /\ m.encodingCurrentBlock
  /\ m.receivingCurrentBlock = n.receivingCurrentBlock
  /\ m.outbox = n.outbox

(* NextBlock does this.                                                     *)
LEMMA NextBlockProperties ==
  ASSUME NEW n \in SenderType
  PROVE  Opens(n, NextBlock(n))
<1> DEFINE shard == n.shardSchedule[n.nextShard]
           block == {t \in n.buffer : InShard(n.shardHash[t], shard)}
           next == (n.nextShard % NumShards) + 1
           least == AtLeastOne(n.currentBlockAckCount * OverheadNum)
           m == [n EXCEPT !.block = block, !.buffer = n.buffer \ block, !.sent = 0,
                          !.nextShard = next,
                          !.encodingCurrentBlock = TRUE,
                          !.sendWindow = least,
                          !.currentBlockAckCount = 0,
                          !.inFlight = 0]
<1>1. NextBlock(n) = m
  BY DEF NextBlock
<1>2. /\ n.nextShard \in 1..NumShards /\ n.currentBlockAckCount \in Nat /\ n.buffer \in SUBSET Tx
      /\ n.shardSchedule \in [1..NumShards -> 0..NumShards - 1]
  BY DEF SenderType
<1>3. next \in 1..NumShards
  BY <1>2, Parameters
<1>4. n.currentBlockAckCount * OverheadNum \in Nat
  <2>1. \A i, j \in Nat : i * j \in Nat
    OBVIOUS
  <2> QED BY <2>1, <1>2, Parameters
<1>5. least \in Nat /\ least >= OverheadDen
  BY <1>4, AtLeastOneProperties
<1>6. block \in SUBSET Tx /\ n.buffer \ block \in SUBSET Tx /\ (n.buffer \ block) \cup block = n.buffer
  BY <1>2
<1> HIDE DEF block, next, least
<1>7. m \in SenderType
  <2> DEFINE m1 == [n EXCEPT !.block = block, !.buffer = n.buffer \ block, !.sent = 0]
             m2 == [m1 EXCEPT !.nextShard = next, !.encodingCurrentBlock = TRUE]
             zero == 0
  <2>1. m1 \in SenderType
    BY <1>6 DEF SenderType
  <2>2. m2 \in SenderType
    <3> HIDE DEF m1
    <3> QED BY <2>1, <1>3 DEF SenderType
  <2>3. m = [m2 EXCEPT !.sendWindow = least, !.currentBlockAckCount = zero, !.inFlight = zero]
    OBVIOUS
  <2>4. zero \in Nat /\ zero \in Int
    OBVIOUS
  <2> HIDE DEF m, m2, zero
  <2>5. ASSUME NEW k \in SenderType, NEW w \in Nat, NEW i \in Nat, NEW j \in Int
        PROVE  [k EXCEPT !.sendWindow = w, !.currentBlockAckCount = i, !.inFlight = j] \in SenderType
    BY DEF SenderType
  <2> QED BY <2>2, <2>3, <2>4, <2>5, <1>5
<1>8. /\ m.block = block /\ m.buffer = n.buffer \ block /\ m.sent = 0 /\ m.inFlight = 0
      /\ m.encodingCurrentBlock = TRUE
      /\ m.sendWindow = least
      /\ m.receivingCurrentBlock = n.receivingCurrentBlock
      /\ m.outbox = n.outbox
  BY DEF SenderType
<1> HIDE DEF m
<1> QED BY <1>1, <1>5, <1>6, <1>7, <1>8 DEF Opens

(* The send window holds at least one coded symbol.                         *)
LEMMA RoomProperties ==
  ASSUME NEW n \in SenderType, n.sendWindow >= OverheadDen
  PROVE  Room(n) \in Nat /\ n.inFlight + Room(n) >= 1
<1> DEFINE w == n.sendWindow + OverheadDen - 1
           q == w \div OverheadDen
           wanted == q - n.inFlight
           room == Max({0, wanted})
<1>1. n.sendWindow \in Nat /\ n.inFlight \in Int
  BY DEF SenderType
<1>2. q \in Int /\ q >= 1
  <2>1. w \in Nat /\ w >= OverheadDen
    BY <1>1, Parameters
  <2> HIDE DEF w
  <2>2. \A x, d \in Nat : d > 0 /\ x >= d => x \div d \in Int /\ x \div d >= 1
    OBVIOUS
  <2> QED BY <2>1, <2>2, Parameters
<1> HIDE DEF q
<1>3. room \in {0, wanted} /\ room >= 0 /\ room >= wanted
  <2>1. wanted \in Int
    BY <1>1, <1>2
  <2> HIDE DEF wanted
  <2> QED BY <2>1, MaxOfTwo
<1>4. Room(n) = room
  BY DEF Room, q
<1> HIDE DEF room
<1> QED BY <1>1, <1>2, <1>3, <1>4

(* TryFillSendWindow begins the next block unless it encodes one already,   *)
(* and leaves something in flight.                                          *)
LEMMA TryFillProperties ==
  ASSUME NEW n \in SenderType, n.sendWindow >= OverheadDen
  PROVE  LET m == TryFillSendWindow(n) IN
         /\ n.encodingCurrentBlock => \E count \in Nat : Produces(n, m, FALSE, count) /\ m.inFlight >= 1
         /\ ~n.encodingCurrentBlock => \E o : Opens(n, o) /\ \E count \in Nat \ {0} : Produces(o, m, TRUE, count)
<1> DEFINE m == TryFillSendWindow(n)
           new == NextBlock(n)
           burst == (n.currentBlockAckCount * 2) \div 3
           first == n.shardSchedule[1]
           shard == n.shardSchedule[n.nextShard]
           count == Max({1 + burst, Room(new)})
<1>1. first \in 0..NumShards - 1 /\ shard \in 0..NumShards - 1
  BY Parameters DEF SenderType
<1>2. burst \in Nat
  <2>1. n.currentBlockAckCount \in Nat
    BY DEF SenderType
  <2>2. \A i \in Nat : (i * 2) \div 3 \in Nat
    OBVIOUS
  <2> QED BY <2>1, <2>2
<1>3. CASE n.encodingCurrentBlock
  <2>1. m = Produce(n, first, FALSE, Room(n))
    BY <1>3 DEF TryFillSendWindow
  <2>2. Room(n) \in Nat /\ n.inFlight + Room(n) >= 1
    BY RoomProperties
  <2>3. Produces(n, m, FALSE, Room(n))
    <3> HIDE DEF first, m
    <3> QED BY <1>1, <2>1, <2>2, ProduceProperties
  <2>4. m.inFlight >= 1
    <3> HIDE DEF m
    <3> QED BY <2>2, <2>3 DEF Produces
  <2> HIDE DEF m
  <2> QED BY <1>3, <2>2, <2>3, <2>4 DEF m
<1>4. CASE ~n.encodingCurrentBlock
  <2>1. m = Produce(new, shard, TRUE, count)
    BY <1>4 DEF TryFillSendWindow
  <2> HIDE DEF new, shard, burst, m
  <2>2. Opens(n, new)
    BY NextBlockProperties DEF new
  <2>3. Room(new) \in Nat
    BY <2>2, RoomProperties DEF Opens
  <2>4. count \in Nat \ {0}
    <3> DEFINE least == 1 + burst
               room == Room(new)
    <3>1. least \in Nat /\ least >= 1 /\ room \in Nat
      BY <1>2, <2>3
    <3> HIDE DEF least, room
    <3>2. Max({least, room}) \in {least, room} /\ Max({least, room}) >= least
      BY <3>1, MaxOfTwo
    <3>3. Max({least, room}) \in Nat \ {0}
      BY <3>1, <3>2
    <3> QED BY <3>3 DEF least, room
  <2> HIDE DEF count
  <2>5. Produces(new, m, TRUE, count)
    BY <1>1, <2>1, <2>2, <2>4, ProduceProperties DEF Opens
  <2> QED BY <1>4, <2>2, <2>4, <2>5 DEF m
<1> QED BY <1>3, <1>4

(* The coded symbols s2 under way after the sender n has produced count     *)
(* more than s.                                                             *)
Longer(s, s2, n, isNew, count) ==
  /\ s2 \in Seq(CodewordType) /\ Len(s2) = Len(s) + count
  /\ \A i \in 1..Len(s) : s2[i] = s[i]
  /\ \A i \in Len(s) + 1..Len(s) + count :
       /\ s2[i].newBlock <=> isNew /\ i = Len(s) + 1
       /\ s2[i].block = n.block
       /\ s2[i].number = n.sent + (i - Len(s)) - 1

(* So is what is under way when the outbox follows.                         *)
LEMMA ProducesLonger ==
  ASSUME NEW n \in SenderType, NEW m, NEW isNew \in BOOLEAN, NEW count \in Nat,
         Produces(n, m, isNew, count), NEW base \in Seq(CodewordType)
  PROVE  Longer(base \o n.outbox, base \o m.outbox, n, isNew, count)
<1> DEFINE s == base \o n.outbox
           x == [i \in 1..count |-> m.outbox[Len(n.outbox) + i]]
           s2 == base \o m.outbox
<1>1. /\ n.outbox \in Seq(CodewordType) /\ m.outbox \in Seq(CodewordType) /\ m.outbox = n.outbox \o x
      /\ n.sent \in Nat
  BY DEF Produces, SenderType
<1>2. \A i \in 1..count : /\ x[i] \in CodewordType
                          /\ x[i].newBlock <=> isNew /\ i = 1
                          /\ x[i].block = n.block
                          /\ x[i].number = n.sent + i - 1
  BY DEF Produces
<1>3. x \in Seq(CodewordType) /\ Len(x) = count
  <2>1. x = [i \in 1..count |-> x[i]]
    OBVIOUS
  <2> HIDE DEF x
  <2> QED BY <1>2, <2>1
<1> HIDE DEF x
<1>4. s \in Seq(CodewordType) /\ Len(s) \in Nat /\ s2 = s \o x
  <2>1. s \in Seq(CodewordType) /\ Len(s) \in Nat
    BY <1>1
  <2>2. (base \o n.outbox) \o x = base \o (n.outbox \o x)
    <3> DEFINE o == n.outbox
    <3>1. o \in Seq(CodewordType)
      BY <1>1
    <3> HIDE DEF o
    <3>2. (base \o o) \o x = base \o (o \o x)
      BY <1>3, <3>1, ConcatAssociative
    <3> QED BY <3>2 DEF o
  <2> QED BY <1>1, <2>1, <2>2
<1> HIDE DEF s, s2
<1>5. /\ s2 \in Seq(CodewordType) /\ Len(s2) = Len(s) + count
      /\ \A i \in 1..Len(s) : s2[i] = s[i]
      /\ \A i \in Len(s) + 1..Len(s) + count : s2[i] = x[i - Len(s)]
  <2>1. s \o x \in Seq(CodewordType) /\ Len(s \o x) = Len(s) + Len(x)
    BY <1>3, <1>4
  <2>2. \A i \in 1..Len(s) : (s \o x)[i] = s[i]
    BY <1>3, <1>4
  <2>3. \A i \in Len(s) + 1..Len(s) + Len(x) : (s \o x)[i] = x[i - Len(s)]
    BY <1>3, <1>4
  <2> QED BY <2>1, <2>2, <2>3, <1>3, <1>4
<1>6. ASSUME NEW i \in Len(s) + 1..Len(s) + count
      PROVE  /\ s2[i].newBlock <=> isNew /\ i = Len(s) + 1
             /\ s2[i].block = n.block
             /\ s2[i].number = n.sent + (i - Len(s)) - 1
  <2> DEFINE j == i - Len(s)
  <2>1. j \in 1..count /\ (j = 1 <=> i = Len(s) + 1)
    BY <1>4
  <2>2. s2[i] = x[j]
    BY <1>5
  <2>3. j = i - Len(s)
    OBVIOUS
  <2> HIDE DEF j
  <2>4. s2[i].number = n.sent + j - 1
    BY <2>1, <2>2, <1>2
  <2> QED BY <2>1, <2>2, <2>3, <2>4, <1>2
<1> QED BY <1>5, <1>6 DEF Longer, s, s2

-----------------------------------------------------------------------------
(* The phases of a block, on a link with the ends n and r, coded symbols s  *)
(* and acknowledgements ak under way, when the receiver has the             *)
(* transactions Rb.  Between two blocks, what is left of the last one will  *)
(* be dropped.                                                              *)
Between(n, r, s, ak, Rb) ==
  /\ ~n.encodingCurrentBlock
  /\ ak = <<>>
  /\ r.cells = 0 /\ r.window = {}
  /\ \A i \in 1..Len(s) : ~s[i].newBlock
  /\ r.currentBlockReceived \/ s = <<>>
  /\ n.block \subseteq Rb

(* The coded symbols of the block follow those of the last one, which the   *)
(* receiver drops.                                                          *)
StartsAt(n, r, s, k) ==
  /\ \A i \in 1..k - 1 : ~s[i].newBlock
  /\ \A i \in k..Len(s) : s[i].block = n.block /\ s[i].number = i - k /\ (s[i].newBlock <=> i = k)
  /\ r.currentBlockReceived \/ k = 1
  /\ n.sent = Len(s) - k + 1 /\ n.inFlight = n.sent

Starts(n, r, s, ak) ==
  /\ n.encodingCurrentBlock
  /\ ak = <<>>
  /\ r.cells = 0 /\ r.window = {}
  /\ \E k \in 1..Len(s) : StartsAt(n, r, s, k)

(* The receiver collects coded symbols and acknowledges each.               *)
Collects(n, r, s, ak) ==
  /\ n.encodingCurrentBlock
  /\ ~r.currentBlockReceived /\ r.cells >= 1
  /\ \A i \in 1..Len(s) : ~s[i].newBlock /\ s[i].block = n.block /\ s[i].number = r.cells + i - 1
  /\ n.sent = r.cells + Len(s)
  /\ n.inFlight = Len(s) + Len(ak)
  /\ \A i \in 1..Len(ak) : ~ak[i].ackBlock
  /\ n.receivingCurrentBlock \/ (ak # <<>> /\ ak[1].ackStart)

(* It has decoded the block, and the last acknowledgement says so.          *)
Concludes(n, r, s, ak, Rb) ==
  /\ n.encodingCurrentBlock
  /\ r.currentBlockReceived /\ r.cells = 0 /\ r.window = {}
  /\ \A i \in 1..Len(s) : ~s[i].newBlock
  /\ ak # <<>> /\ ak[Len(ak)].ackBlock
  /\ \A i \in 1..Len(ak) - 1 : ~ak[i].ackBlock
  /\ n.block \subseteq Rb

InPhase(n, r, s, ak, Rb) ==
  \/ Between(n, r, s, ak, Rb)
  \/ Starts(n, r, s, ak)
  \/ Collects(n, r, s, ak)
  \/ Concludes(n, r, s, ak, Rb)

(* The sender on its way through its handler; its outbox follows what is    *)
(* under way.                                                               *)
Sending(n, r, base, ak, Ra, Rb) ==
  /\ n \in SenderType /\ n.sendWindow >= OverheadDen
  /\ InPhase(n, r, base \o n.outbox, ak, Rb)
  /\ n.buffer \cup n.block \subseteq Ra

(* Nor does it wait for nothing.                                            *)
Waits(n, s, ak) == n.encodingCurrentBlock => s # <<>> \/ ak # <<>>

(* What the sender holds, or need not hold any longer.                      *)
Keeps(n, m, T, Rb) == n.buffer \cup n.block \cup T \subseteq m.buffer \cup m.block \cup Rb

(* A block that starts goes on with more coded symbols.                     *)
LEMMA LongerStarts ==
  ASSUME NEW n \in SenderType, NEW m, NEW r, NEW s \in Seq(CodewordType), NEW s2,
         NEW count \in Nat, NEW k \in 1..Len(s), StartsAt(n, r, s, k),
         Longer(s, s2, n, FALSE, count), m.block = n.block,
         m.sent = n.sent + count, m.inFlight = n.inFlight + count
  PROVE  k \in 1..Len(s2) /\ StartsAt(m, r, s2, k)
<1>1. Len(s) \in Nat /\ Len(s2) = Len(s) + count
  BY DEF Longer
<1>2. k \in 1..Len(s2)
  BY <1>1
<1>3. \A i \in 1..k - 1 : ~s2[i].newBlock
  <2>1. \A i \in 1..k - 1 : i \in 1..Len(s)
    BY <1>1
  <2> QED BY <2>1 DEF Longer, StartsAt
<1>4. ASSUME NEW i \in k..Len(s2)
      PROVE  s2[i].block = m.block /\ s2[i].number = i - k /\ (s2[i].newBlock <=> i = k)
  <2>1. CASE i <= Len(s)
    <3>1. i \in 1..Len(s) /\ i \in k..Len(s)
      BY <1>1, <2>1
    <3> QED BY <3>1 DEF Longer, StartsAt
  <2>2. CASE i > Len(s)
    <3>1. i \in Len(s) + 1..Len(s) + count /\ i # k
      BY <1>1, <2>2
    <3>2. s2[i].number = n.sent + (i - Len(s)) - 1 /\ n.sent = Len(s) - k + 1
      BY <3>1 DEF Longer, StartsAt
    <3>3. s2[i].number = i - k
      BY <3>1, <3>2, <1>1
    <3> QED BY <3>1, <3>3 DEF Longer
  <2> QED BY <1>1, <2>1, <2>2
<1>5. r.currentBlockReceived \/ k = 1
  BY DEF StartsAt
<1>6. m.sent = Len(s2) - k + 1 /\ m.inFlight = m.sent
  <2>1. n.sent = Len(s) - k + 1 /\ n.inFlight = n.sent
    BY DEF StartsAt
  <2> QED BY <1>1, <2>1
<1> QED BY <1>2, <1>3, <1>4, <1>5, <1>6 DEF StartsAt

(* A new block begins behind what is left of the last one.                  *)
LEMMA LongerBegins ==
  ASSUME NEW n \in SenderType, NEW m, NEW r, NEW s \in Seq(CodewordType), NEW s2,
         NEW count \in Nat \ {0}, \A i \in 1..Len(s) : ~s[i].newBlock,
         r.currentBlockReceived \/ s = <<>>,
         Longer(s, s2, n, TRUE, count), m.block = n.block, n.sent = 0, n.inFlight = 0,
         m.sent = n.sent + count, m.inFlight = n.inFlight + count
  PROVE  Len(s) + 1 \in 1..Len(s2) /\ StartsAt(m, r, s2, Len(s) + 1)
<1> DEFINE k == Len(s) + 1
<1>1. Len(s) \in Nat /\ Len(s2) = Len(s) + count
  BY DEF Longer
<1>2. k \in 1..Len(s2)
  BY <1>1
<1>3. \A i \in 1..k - 1 : ~s2[i].newBlock
  <2>1. \A i \in 1..k - 1 : i \in 1..Len(s)
    BY <1>1
  <2> QED BY <2>1 DEF Longer
<1>4. ASSUME NEW i \in k..Len(s2)
      PROVE  s2[i].block = m.block /\ s2[i].number = i - k /\ (s2[i].newBlock <=> i = k)
  <2>1. i \in Len(s) + 1..Len(s) + count
    BY <1>1
  <2>2. s2[i].number = n.sent + (i - Len(s)) - 1
    BY <2>1 DEF Longer
  <2>3. s2[i].number = i - k
    BY <2>1, <2>2, <1>1
  <2> QED BY <2>1, <2>3 DEF Longer
<1>5. r.currentBlockReceived \/ k = 1
  OBVIOUS
<1>6. m.sent = Len(s2) - k + 1 /\ m.inFlight = m.sent
  BY <1>1
<1> QED BY <1>2, <1>3, <1>4, <1>5, <1>6 DEF StartsAt

(* Filling the window neither leaves the phases nor loses a transaction.    *)
LEMMA TryFillPhase ==
  ASSUME NEW n, NEW r \in ReceiverType, NEW base \in Seq(CodewordType), NEW ak \in Seq(AckType),
         NEW Ra, NEW Rb, Sending(n, r, base, ak, Ra, Rb)
  PROVE  LET m == TryFillSendWindow(n) IN
         /\ Sending(m, r, base, ak, Ra, Rb)
         /\ Waits(m, base \o m.outbox, ak)
         /\ Keeps(n, m, {}, Rb)
<1> DEFINE m == TryFillSendWindow(n)
           s == base \o n.outbox
           s2 == base \o m.outbox
<1>1. n \in SenderType /\ n.sendWindow >= OverheadDen /\ InPhase(n, r, s, ak, Rb) /\ n.buffer \cup n.block \subseteq Ra
  BY DEF Sending
<1>2. s \in Seq(CodewordType) /\ Len(s) \in Nat /\ Len(ak) \in Nat /\ n.inFlight \in Int
  <2>1. n.outbox \in Seq(CodewordType) /\ n.inFlight \in Int
    BY <1>1 DEF SenderType
  <2>2. s \in Seq(CodewordType)
    BY <2>1
  <2>3. Len(s) \in Nat
    <3> HIDE DEF s
    <3> QED BY <2>2
  <2>4. Len(ak) \in Nat
    BY LenProperties
  <2> QED BY <2>1, <2>2, <2>3, <2>4
<1>3. /\ n.encodingCurrentBlock => \E count \in Nat : Produces(n, m, FALSE, count) /\ m.inFlight >= 1
      /\ ~n.encodingCurrentBlock => \E o : Opens(n, o) /\ \E count \in Nat \ {0} : Produces(o, m, TRUE, count)
  BY <1>1, TryFillProperties
<1> HIDE DEF m
<1>4. CASE n.encodingCurrentBlock
  <2>1. PICK count \in Nat : Produces(n, m, FALSE, count) /\ m.inFlight >= 1
    BY <1>3, <1>4
  <2>2. Longer(s, s2, n, FALSE, count)
    BY <1>1, <2>1, ProducesLonger
  <2>3. /\ m \in SenderType /\ m.block = n.block /\ m.buffer = n.buffer
        /\ m.sent = n.sent + count /\ m.inFlight = n.inFlight + count
        /\ m.encodingCurrentBlock = n.encodingCurrentBlock
        /\ m.receivingCurrentBlock = n.receivingCurrentBlock
        /\ m.sendWindow = n.sendWindow
    BY <2>1 DEF Produces
  <2>4. s2 \in Seq(CodewordType) /\ Len(s2) = Len(s) + count /\ Len(s2) \in Nat
    BY <1>2, <2>2 DEF Longer
  <2> HIDE DEF s, s2
  <2>5. ASSUME Starts(n, r, s, ak) PROVE InPhase(m, r, s2, ak, Rb) /\ Waits(m, s2, ak)
    <3>1. PICK k \in 1..Len(s) : StartsAt(n, r, s, k)
      BY <2>5 DEF Starts
    <3>2. k \in 1..Len(s2) /\ StartsAt(m, r, s2, k)
      BY <1>1, <1>2, <2>2, <2>3, <3>1, LongerStarts
    <3>3. Starts(m, r, s2, ak)
      BY <2>3, <2>5, <3>2 DEF Starts
    <3>4. s2 # <<>>
      BY <2>4, <3>2
    <3> QED BY <3>3, <3>4 DEF InPhase, Waits
  <2>6. ASSUME Collects(n, r, s, ak) PROVE InPhase(m, r, s2, ak, Rb) /\ Waits(m, s2, ak)
    <3>1. r.cells \in Nat
      BY DEF ReceiverType
    <3>2. ASSUME NEW i \in 1..Len(s2)
          PROVE  ~s2[i].newBlock /\ s2[i].block = m.block /\ s2[i].number = r.cells + i - 1
      <4>1. CASE i <= Len(s)
        <5>1. i \in 1..Len(s)
          BY <1>2, <4>1
        <5> QED BY <5>1, <2>2, <2>3, <2>6 DEF Longer, Collects
      <4>2. CASE i > Len(s)
        <5>1. i \in Len(s) + 1..Len(s) + count
          BY <1>2, <2>4, <4>2
        <5>2. s2[i].number = n.sent + (i - Len(s)) - 1 /\ n.sent = r.cells + Len(s)
          BY <5>1, <2>2, <2>6 DEF Longer, Collects
        <5>3. s2[i].number = r.cells + i - 1
          BY <5>1, <5>2, <1>2, <3>1
        <5> QED BY <5>1, <5>3, <2>2, <2>3 DEF Longer
      <4> QED BY <1>2, <4>1, <4>2
    <3>3. m.sent = r.cells + Len(s2) /\ m.inFlight = Len(s2) + Len(ak)
      <4>1. n.sent = r.cells + Len(s) /\ n.inFlight = Len(s) + Len(ak)
        BY <2>6 DEF Collects
      <4> DEFINE a == Len(s)
                 b == Len(ak)
                 c == r.cells
      <4>2. a \in Nat /\ b \in Nat /\ c \in Nat
        BY <1>2, <3>1
      <4>3. m.sent = (c + a) + count /\ m.inFlight = (a + b) + count /\ Len(s2) = a + count
        BY <4>1, <2>3, <2>4
      <4> HIDE DEF a, b, c
      <4>4. m.sent = c + Len(s2) /\ m.inFlight = Len(s2) + b
        BY <4>2, <4>3
      <4> QED BY <4>4 DEF b, c
    <3>4. Collects(m, r, s2, ak)
      BY <2>3, <2>6, <3>2, <3>3 DEF Collects
    <3>5. s2 # <<>> \/ ak # <<>>
      <4>1. Len(s2) + Len(ak) >= 1
        BY <2>1, <3>3
      <4>2. ASSUME s2 = <<>>, ak = <<>> PROVE FALSE
        <5>1. Len(s2) = 0 /\ Len(ak) = 0
          BY <4>2
        <5> QED BY <4>1, <5>1
      <4> QED BY <4>2
    <3> QED BY <3>4, <3>5 DEF InPhase, Waits
  <2>7. ASSUME Concludes(n, r, s, ak, Rb) PROVE InPhase(m, r, s2, ak, Rb) /\ Waits(m, s2, ak)
    <3>1. \A i \in 1..Len(s2) : ~s2[i].newBlock
      <4>1. \A i \in 1..Len(s2) : i \in 1..Len(s) \/ i \in Len(s) + 1..Len(s) + count
        BY <1>2, <2>4
      <4> QED BY <4>1, <2>2, <2>7 DEF Longer, Concludes
    <3>2. Concludes(m, r, s2, ak, Rb)
      BY <2>3, <2>7, <3>1 DEF Concludes
    <3> QED BY <3>2 DEF InPhase, Waits, Concludes
  <2>8. ~Between(n, r, s, ak, Rb)
    BY <1>4 DEF Between
  <2>9. InPhase(m, r, s2, ak, Rb) /\ Waits(m, s2, ak)
    BY <1>1, <2>5, <2>6, <2>7, <2>8 DEF InPhase
  <2> QED BY <1>1, <2>3, <2>9 DEF Sending, Keeps, s, s2, m
<1>5. CASE ~n.encodingCurrentBlock
  <2>1. PICK o : Opens(n, o) /\ \E count \in Nat \ {0} : Produces(o, m, TRUE, count)
    BY <1>3, <1>5
  <2>2. PICK count \in Nat \ {0} : Produces(o, m, TRUE, count)
    BY <2>1
  <2>3. /\ o \in SenderType /\ o.sendWindow >= OverheadDen /\ o.buffer \cup o.block = n.buffer
        /\ o.sent = 0 /\ o.inFlight = 0 /\ o.encodingCurrentBlock /\ o.outbox = n.outbox
    BY <2>1 DEF Opens
  <2>4. Longer(s, s2, o, TRUE, count)
    <3>1. Longer(base \o o.outbox, base \o m.outbox, o, TRUE, count)
      BY <2>2, <2>3, ProducesLonger
    <3> QED BY <2>3, <3>1
  <2>5. /\ m \in SenderType /\ m.block = o.block /\ m.buffer = o.buffer
        /\ m.sent = o.sent + count /\ m.inFlight = o.inFlight + count
        /\ m.encodingCurrentBlock = o.encodingCurrentBlock
        /\ m.sendWindow = o.sendWindow
    BY <2>2 DEF Produces
  <2>6. Between(n, r, s, ak, Rb)
    BY <1>1, <1>5 DEF InPhase, Starts, Collects, Concludes
  <2> HIDE DEF s, s2
  <2>7. Len(s) + 1 \in 1..Len(s2) /\ StartsAt(m, r, s2, Len(s) + 1)
    BY <1>2, <2>3, <2>4, <2>5, <2>6, LongerBegins DEF Between
  <2>8. Starts(m, r, s2, ak)
    BY <2>3, <2>5, <2>6, <2>7 DEF Starts, Between
  <2>9. s2 # <<>>
    <3>1. Len(s2) >= 1
      BY <2>7, <1>2 DEF Longer
    <3> QED BY <3>1
  <2>10. InPhase(m, r, s2, ak, Rb) /\ Waits(m, s2, ak)
    BY <2>8, <2>9 DEF InPhase, Waits
  <2>11. n.block \subseteq Rb
    BY <2>6 DEF Between
  <2> QED BY <1>1, <2>3, <2>5, <2>10, <2>11 DEF Sending, Keeps, s, s2, m
<1> QED BY <1>4, <1>5

(* The phase depends on neither buffer nor outbox.                          *)
LEMMA PhaseSame ==
  ASSUME NEW n, NEW r, NEW s, NEW ak, NEW Rb, InPhase(n, r, s, ak, Rb), NEW o, NEW q,
         o.block = n.block, o.encodingCurrentBlock = n.encodingCurrentBlock,
         o.receivingCurrentBlock = n.receivingCurrentBlock,
         o.sent = n.sent, o.inFlight = n.inFlight,
         q.window = r.window, q.cells = r.cells, q.currentBlockReceived = r.currentBlockReceived
  PROVE  InPhase(o, q, s, ak, Rb)
<1>1. Between(n, r, s, ak, Rb) => Between(o, q, s, ak, Rb)
  BY DEF Between
<1>2. Starts(n, r, s, ak) => Starts(o, q, s, ak)
  <2>1. \A k \in 1..Len(s) : StartsAt(n, r, s, k) => StartsAt(o, q, s, k)
    BY DEF StartsAt
  <2> QED BY <2>1 DEF Starts
<1>3. Collects(n, r, s, ak) => Collects(o, q, s, ak)
  BY DEF Collects
<1>4. Concludes(n, r, s, ak, Rb) => Concludes(o, q, s, ak, Rb)
  BY DEF Concludes
<1> QED BY <1>1, <1>2, <1>3, <1>4 DEF InPhase

(* A transaction that the sender is given is in its buffer or its block.    *)
LEMMA OnTransactionPhase ==
  ASSUME NEW n, NEW r \in ReceiverType, NEW base \in Seq(CodewordType), NEW ak \in Seq(AckType),
         NEW Ra, NEW Rb, Sending(n, r, base, ak, Ra, Rb), NEW t \in Tx, t \in Ra
  PROVE  LET m == SenderOnTransaction(n, t) IN
         /\ Sending(m, r, base, ak, Ra, Rb)
         /\ Waits(m, base \o m.outbox, ak)
         /\ Keeps(n, m, {t}, Rb)
<1> DEFINE o == [n EXCEPT !.buffer = n.buffer \cup {t}]
           m == SenderOnTransaction(n, t)
<1>1. n \in SenderType
  BY DEF Sending
<1>2. /\ o \in SenderType /\ o.buffer = n.buffer \cup {t} /\ o.block = n.block /\ o.outbox = n.outbox
      /\ o.encodingCurrentBlock = n.encodingCurrentBlock
      /\ o.receivingCurrentBlock = n.receivingCurrentBlock
      /\ o.sent = n.sent /\ o.inFlight = n.inFlight /\ o.sendWindow = n.sendWindow
  BY <1>1 DEF SenderType
<1>3. m = TryFillSendWindow(o)
  BY DEF SenderOnTransaction
<1> HIDE DEF m, o
<1>4. InPhase(o, r, base \o o.outbox, ak, Rb)
  <2> DEFINE s == base \o n.outbox
  <2>1. InPhase(n, r, s, ak, Rb)
    BY DEF Sending
  <2> HIDE DEF s
  <2>2. InPhase(o, r, s, ak, Rb)
    BY <1>2, <2>1, PhaseSame
  <2> QED BY <1>2, <2>2 DEF s
<1>5. Sending(o, r, base, ak, Ra, Rb)
  BY <1>2, <1>4 DEF Sending
<1>6. Sending(m, r, base, ak, Ra, Rb) /\ Waits(m, base \o m.outbox, ak) /\ Keeps(o, m, {}, Rb)
  BY <1>3, <1>5, TryFillPhase
<1>7. Keeps(n, m, {t}, Rb)
  BY <1>2, <1>6 DEF Keeps
<1> QED BY <1>6, <1>7 DEF m

-----------------------------------------------------------------------------
(* FoldLeft over the transactions that a sender is given.                   *)
SenderFolds(n, s, S, g) ==
  g = [U \in S |-> IF U = {} THEN n ELSE SenderOnTransaction(g[U \ {Max(U)}], s[Max(U)])]

(* It exists: the recursion is over the subsets of a finite set.            *)
LEMMA SenderFoldsExists ==
  ASSUME NEW n, NEW s \in Seq(Tx)
  PROVE  \E g : SenderFolds(n, s, SUBSET (DOMAIN s), g)
<1> DEFINE D == DOMAIN s
           Upto(k) == {U \in SUBSET D : Cardinality(U) <= k}
           Step(U, g) == IF U = {} THEN n ELSE SenderOnTransaction(g[U \ {Max(U)}], s[Max(U)])
           K == {k \in Nat : \E g : SenderFolds(n, s, Upto(k), g)}
<1>1. D = 1..Len(s) /\ Len(s) \in Nat /\ IsFiniteSet(1..Len(s))
  BY FS_Interval
<1>2. IsFiniteSet(D)
  BY <1>1
<1>3. \A U \in SUBSET D : IsFiniteSet(U) /\ Cardinality(U) \in Nat /\ Cardinality(U) <= Cardinality(D)
  <2> HIDE DEF D
  <2> QED BY <1>2, FS_Subset, FS_CardinalityType
<1>4. ASSUME NEW U \in SUBSET D, U # {}
      PROVE  U \ {Max(U)} \in SUBSET D /\ Cardinality(U \ {Max(U)}) = Cardinality(U) - 1
  <2> DEFINE m == Max(U)
  <2>1. m \in U
    BY <1>1, <1>4, MaxProperties
  <2> HIDE DEF m
  <2> QED BY <1>3, <2>1, FS_RemoveElement DEF m
<1>5. \A U \in SUBSET D : Cardinality(U) <= 0 => U = {}
  BY <1>3, FS_EmptySet
<1> HIDE DEF D
<1>6. 0 \in K
  <2> DEFINE g == [U \in Upto(0) |-> n]
  <2>1. SenderFolds(n, s, Upto(0), g)
    BY <1>5 DEF SenderFolds
  <2> QED BY <2>1
<1>7. \A k \in Nat : k \in K => k + 1 \in K
  <2> SUFFICES ASSUME NEW k \in Nat, NEW g, SenderFolds(n, s, Upto(k), g) PROVE k + 1 \in K
    OBVIOUS
  <2> DEFINE h == [U \in Upto(k + 1) |-> IF U \in Upto(k) THEN g[U] ELSE Step(U, g)]
  <2>1. ASSUME NEW U \in Upto(k + 1) PROVE h[U] = Step(U, h)
    <3>1. CASE U = {}
      BY <3>1 DEF SenderFolds
    <3>2. CASE U # {}
      <4>1. U \ {Max(U)} \in Upto(k) /\ U \ {Max(U)} \in Upto(k + 1)
        BY <3>2, <1>3, <1>4
      <4>2. h[U \ {Max(U)}] = g[U \ {Max(U)}]
        BY <4>1
      <4>3. h[U] = Step(U, g)
        BY DEF SenderFolds
      <4> QED BY <4>2, <4>3, <3>2
    <3> QED BY <3>1, <3>2
  <2>2. SenderFolds(n, s, Upto(k + 1), h)
    BY <2>1 DEF SenderFolds
  <2> HIDE DEF h
  <2>3. \E e : SenderFolds(n, s, Upto(k + 1), e)
    BY <2>2
  <2> HIDE DEF Upto
  <2> QED BY <2>3
<1>8. Cardinality(D) \in K
  <2>1. Cardinality(D) \in Nat
    BY <1>2, FS_CardinalityType
  <2> HIDE DEF K
  <2> QED BY <2>1, <1>6, <1>7, SetInduction
<1>9. Upto(Cardinality(D)) = SUBSET D
  BY <1>3
<1> QED BY <1>8, <1>9 DEF D

(* Its steps.                                                               *)
LEMMA SenderFoldSteps ==
  ASSUME NEW n, NEW s \in Seq(Tx)
  PROVE  \E f : /\ f[0] = n
                /\ \A k \in 1..Len(s) : f[k] = SenderOnTransaction(f[k - 1], s[k])
                /\ FoldLeft(SenderOnTransaction, n, s) = f[Len(s)]
<1> DEFINE g == CHOOSE h : SenderFolds(n, s, SUBSET (DOMAIN s), h)
           f == [k \in 0..Len(s) |-> g[1..k]]
<1>1. FoldLeft(SenderOnTransaction, n, s) = g[DOMAIN s]
  BY DEF FoldLeft, MapThenFoldSet, SenderFolds
<1>2. SenderFolds(n, s, SUBSET (DOMAIN s), g)
  BY SenderFoldsExists
<1> HIDE DEF g
<1>3. DOMAIN s = 1..Len(s) /\ Len(s) \in Nat
  OBVIOUS
<1>4. f[0] = n
  <2>1. 1..0 = {} /\ 0 \in 0..Len(s)
    BY <1>3
  <2>2. g[{}] = n
    BY <1>2 DEF SenderFolds
  <2> QED BY <2>1, <2>2
<1>5. ASSUME NEW k \in 1..Len(s) PROVE f[k] = SenderOnTransaction(f[k - 1], s[k])
  <2> DEFINE U == 1..k
  <2>1. k \in Nat /\ U \in SUBSET (DOMAIN s) /\ U # {} /\ k \in U
    <3>1. k \in Nat /\ k \in U
      BY <1>3
    <3>2. \A i \in U : i \in 1..Len(s)
      BY <1>3
    <3> QED BY <3>1, <3>2, <1>3
  <2>2. Max(U) = k
    <3>1. Max(U) \in U /\ \A i \in U : i <= Max(U)
      <4> HIDE DEF U
      <4>1. U \in SUBSET (1..Len(s))
        BY <2>1, <1>3
      <4> QED BY <1>3, <2>1, <4>1, MaxProperties
    <3> QED BY <3>1, <2>1
  <2>3. U \ {k} = 1..k - 1
    BY <2>1
  <2>4. g[U] = SenderOnTransaction(g[U \ {Max(U)}], s[Max(U)])
    <3> HIDE DEF U
    <3> QED BY <1>2, <2>1 DEF SenderFolds
  <2>5. g[U] = SenderOnTransaction(g[1..k - 1], s[k])
    BY <2>2, <2>3, <2>4
  <2>6. k \in 0..Len(s) /\ k - 1 \in 0..Len(s)
    BY <1>3
  <2> QED BY <2>5, <2>6
<1>6. f[Len(s)] = g[DOMAIN s]
  BY <1>3
<1> HIDE DEF f
<1> QED BY <1>1, <1>4, <1>5, <1>6

(* A sender that is given transactions one after another stays in a phase   *)
(* and keeps them.                                                          *)
LEMMA FoldPhase ==
  ASSUME NEW n, NEW r \in ReceiverType, NEW base \in Seq(CodewordType), NEW ak \in Seq(AckType),
         NEW Ra, NEW Rb, Sending(n, r, base, ak, Ra, Rb), Waits(n, base \o n.outbox, ak),
         NEW s \in Seq(Tx), ToSet(s) \subseteq Ra
  PROVE  LET m == FoldLeft(SenderOnTransaction, n, s) IN
         /\ Sending(m, r, base, ak, Ra, Rb)
         /\ Waits(m, base \o m.outbox, ak)
         /\ Keeps(n, m, ToSet(s), Rb)
<1>1. PICK f : /\ f[0] = n
               /\ \A k \in 1..Len(s) : f[k] = SenderOnTransaction(f[k - 1], s[k])
               /\ FoldLeft(SenderOnTransaction, n, s) = f[Len(s)]
  BY SenderFoldSteps
<1> DEFINE Holds(k) == /\ Sending(f[k], r, base, ak, Ra, Rb)
                       /\ Waits(f[k], base \o f[k].outbox, ak)
                       /\ Keeps(n, f[k], {s[i] : i \in 1..k}, Rb)
           S == {k \in Nat : k <= Len(s) => Holds(k)}
<1>2. Len(s) \in Nat /\ DOMAIN s = 1..Len(s)
  OBVIOUS
<1>3. 0 \in S
  <2>1. Keeps(n, n, {s[i] : i \in 1..0}, Rb)
    BY DEF Keeps
  <2>2. Holds(0)
    BY <1>1, <2>1
  <2> HIDE DEF Holds
  <2> QED BY <2>2
<1>4. \A k \in Nat : k \in S => k + 1 \in S
  <2> HIDE DEF Holds
  <2> SUFFICES ASSUME NEW k \in Nat, k \in S, k + 1 <= Len(s) PROVE Holds(k + 1)
    OBVIOUS
  <2>1. Holds(k)
    BY <1>2
  <2>2. k + 1 \in 1..Len(s) /\ (k + 1) - 1 = k
    BY <1>2
  <2> DEFINE o == f[k]
             t == s[k + 1]
             m == f[k + 1]
  <2>3. t \in Tx /\ t \in Ra
    BY <1>2, <2>2 DEF ToSet
  <2>4. m = SenderOnTransaction(o, t)
    BY <1>1, <2>2
  <2>5. Sending(o, r, base, ak, Ra, Rb) /\ Keeps(n, o, {s[i] : i \in 1..k}, Rb)
    BY <2>1 DEF Holds
  <2> HIDE DEF o, t, m
  <2>6. Sending(m, r, base, ak, Ra, Rb) /\ Waits(m, base \o m.outbox, ak) /\ Keeps(o, m, {t}, Rb)
    BY <2>3, <2>4, <2>5, OnTransactionPhase
  <2>7. {s[i] : i \in 1..k + 1} \subseteq {s[i] : i \in 1..k} \cup {t}
    <3>1. \A i \in 1..k + 1 : i \in 1..k \/ i = k + 1
      OBVIOUS
    <3> QED BY <3>1 DEF t
  <2>8. Keeps(n, m, {s[i] : i \in 1..k + 1}, Rb)
    <3> DEFINE T == {s[i] : i \in 1..k}
               T1 == {s[i] : i \in 1..k + 1}
    <3>1. Keeps(n, o, T, Rb) /\ T1 \subseteq T \cup {t}
      BY <2>5, <2>7
    <3> HIDE DEF T, T1
    <3>2. Keeps(n, m, T1, Rb)
      BY <3>1, <2>6 DEF Keeps
    <3> QED BY <3>2 DEF T1
  <2> QED BY <2>6, <2>8 DEF m, Holds
<1>5. Holds(Len(s))
  <2>1. Len(s) \in S
    <3> HIDE DEF S
    <3> QED BY <1>2, <1>3, <1>4, SetInduction
  <2> HIDE DEF Holds
  <2> QED BY <2>1, <1>2
<1>6. ToSet(s) = {s[i] : i \in 1..Len(s)}
  BY <1>2 DEF ToSet
<1> QED BY <1>1, <1>5, <1>6

(* A receiver puts transactions into its buffer.                            *)
ReceiverFolds(r, s, g) ==
  g = [U \in SUBSET (DOMAIN s) |->
         IF U = {} THEN r ELSE ReceiverOnTransaction(g[U \ {Max(U)}], s[Max(U)])]

Buffered(r, T) == [r EXCEPT !.buffer = r.buffer \cup T]

(* Buffering changes nothing but the buffer.                                *)
LEMMA BufferedProperties ==
  ASSUME NEW r \in ReceiverType, NEW T \in SUBSET Tx
  PROVE  /\ Buffered(r, T) \in ReceiverType
         /\ Buffered(r, T).buffer = r.buffer \cup T
         /\ Buffered(r, T).window = r.window /\ Buffered(r, T).cells = r.cells
         /\ Buffered(r, T).currentBlockReceived = r.currentBlockReceived
         /\ \A t \in Tx : ReceiverOnTransaction(Buffered(r, T), t) = Buffered(r, T \cup {t})
         /\ Buffered(r, {}) = r
<1> DEFINE m == Buffered(r, T)
<1>1. m \in ReceiverType /\ m.buffer = r.buffer \cup T
      /\ m.window = r.window /\ m.cells = r.cells
      /\ m.currentBlockReceived = r.currentBlockReceived
  BY DEF ReceiverType, Buffered
<1>2. ASSUME NEW t \in Tx PROVE ReceiverOnTransaction(m, t) = Buffered(r, T \cup {t})
  <2>1. ReceiverOnTransaction(m, t) = [m EXCEPT !.buffer = m.buffer \cup {t}]
    BY DEF ReceiverOnTransaction
  <2>2. m.buffer \cup {t} = r.buffer \cup (T \cup {t})
    BY <1>1
  <2>3. [m EXCEPT !.buffer = m.buffer \cup {t}] = [r EXCEPT !.buffer = m.buffer \cup {t}]
    BY DEF Buffered, ReceiverType
  <2> QED BY <2>1, <2>2, <2>3 DEF Buffered
<1>3. Buffered(r, {}) = r
  BY DEF Buffered, ReceiverType
<1> QED BY <1>1, <1>2, <1>3

(* FoldLeft over them buffers them all.                                     *)
LEMMA ReceiverFold ==
  ASSUME NEW r \in ReceiverType, NEW s \in Seq(Tx)
  PROVE  FoldLeft(ReceiverOnTransaction, r, s) = Buffered(r, ToSet(s))
<1> DEFINE D == DOMAIN s
           Of(U) == {s[i] : i \in U}
           b == [U \in SUBSET D |-> Buffered(r, Of(U))]
<1>1. D = 1..Len(s) /\ Len(s) \in Nat /\ \A i \in D : s[i] \in Tx
  OBVIOUS
<1>2. ASSUME NEW U \in SUBSET D, U # {}
      PROVE  Max(U) \in U /\ U \ {Max(U)} \in SUBSET D /\ \A i \in U : i <= Max(U)
  BY <1>1, <1>2, MaxProperties
<1>3. ReceiverFolds(r, s, b)
  <2>1. ASSUME NEW U \in SUBSET D
        PROVE  b[U] = IF U = {} THEN r ELSE ReceiverOnTransaction(b[U \ {Max(U)}], s[Max(U)])
    <3>1. CASE U = {}
      <4>1. Of(U) = {}
        BY <3>1
      <4> QED BY <3>1, <4>1, BufferedProperties
    <3>2. CASE U # {}
      <4> DEFINE m == Max(U)
                 V == U \ {m}
      <4>1. m \in U /\ V \in SUBSET D
        BY <1>2, <3>2
      <4> HIDE DEF m
      <4>2. Of(V) \in SUBSET Tx /\ Of(U) = Of(V) \cup {s[m]} /\ s[m] \in Tx
        BY <4>1, <1>1
      <4> HIDE DEF Of, V
      <4>3. ReceiverOnTransaction(Buffered(r, Of(V)), s[m]) = Buffered(r, Of(V) \cup {s[m]})
        BY <4>2, BufferedProperties
      <4>4. b[U] = ReceiverOnTransaction(b[V], s[m])
        BY <4>1, <4>2, <4>3
      <4> QED BY <3>2, <4>4 DEF m, V
    <3> QED BY <3>1, <3>2
  <2>2. b = [U \in SUBSET D |-> b[U]]
    OBVIOUS
  <2> HIDE DEF b
  <2> QED BY <2>1, <2>2 DEF ReceiverFolds
<1> DEFINE g == CHOOSE h : ReceiverFolds(r, s, h)
<1>4. FoldLeft(ReceiverOnTransaction, r, s) = g[D]
  BY DEF FoldLeft, MapThenFoldSet, ReceiverFolds
<1>5. ReceiverFolds(r, s, g)
  BY <1>3
<1> HIDE DEF g, b
<1> DEFINE S == {k \in Nat : k <= Len(s) => g[1..k] = Buffered(r, Of(1..k))}
<1>6. 0 \in S
  <2>1. 1..0 = {} /\ Of({}) = {}
    OBVIOUS
  <2>2. g[{}] = r
    BY <1>5 DEF ReceiverFolds
  <2> QED BY <2>1, <2>2, BufferedProperties
<1>7. \A k \in Nat : k \in S => k + 1 \in S
  <2> SUFFICES ASSUME NEW k \in Nat, k \in S, k + 1 <= Len(s)
               PROVE  g[1..k + 1] = Buffered(r, Of(1..k + 1))
    OBVIOUS
  <2> DEFINE U == 1..k + 1
             V == 1..k
             m == k + 1
  <2>1. g[V] = Buffered(r, Of(V))
    BY <1>1
  <2>2. U \in SUBSET D /\ U # {} /\ m \in U /\ \A i \in U : i <= m
    BY <1>1
  <2>3. Max(U) = m
    <3>1. Max(U) \in U /\ \A i \in U : i <= Max(U)
      <4> HIDE DEF U, D
      <4> QED BY <2>2, <1>2
    <3> QED BY <3>1, <2>2
  <2>4. U \ {m} = V /\ V \in SUBSET D /\ m \in D
    BY <1>1
  <2>5. g[U] = ReceiverOnTransaction(g[V], s[m])
    <3>1. g[U] = ReceiverOnTransaction(g[U \ {Max(U)}], s[Max(U)])
      <4> HIDE DEF U
      <4> QED BY <1>5, <2>2 DEF ReceiverFolds
    <3> QED BY <3>1, <2>3, <2>4
  <2>6. Of(V) \in SUBSET Tx /\ Of(U) = Of(V) \cup {s[m]} /\ s[m] \in Tx
    <3>1. \A i \in U : i \in V \/ i = m
      OBVIOUS
    <3>2. V \subseteq U /\ m \in U
      OBVIOUS
    <3> HIDE DEF U, V, m
    <3> QED BY <1>1, <2>4, <3>1, <3>2
  <2> HIDE DEF U, V, m, Of
  <2>7. g[U] = Buffered(r, Of(U))
    BY <2>1, <2>5, <2>6, BufferedProperties
  <2> QED BY <2>7 DEF U
<1>8. g[D] = Buffered(r, Of(D))
  <2>1. Len(s) \in S
    <3> HIDE DEF S
    <3> QED BY <1>1, <1>6, <1>7, SetInduction
  <2> HIDE DEF Of
  <2> QED BY <2>1, <1>1
<1> QED BY <1>4, <1>8 DEF ToSet

-----------------------------------------------------------------------------
(* The invariant of a link; base is under way, the outbox of n follows.     *)
AckTxs(ak) == UNION {ack.txs : ack \in ToSet(ak)}

LinkInv(n, r, base, ak, Ra, Rb) ==
  /\ Sending(n, r, base, ak, Ra, Rb)
  /\ Waits(n, base \o n.outbox, ak)
  /\ r.buffer \cup r.window \subseteq Rb
  /\ AckTxs(ak) \subseteq Rb

(* What one end has is with the other or on its way there.                  *)
CoveredBySender(n, Ra, Rb, flooded) == Ra \subseteq Rb \cup flooded \cup n.buffer \cup n.block
CoveredByReceiver(r, ak, Ra, Rb, flooded) ==
  Rb \subseteq Ra \cup flooded \cup r.buffer \cup r.window \cup AckTxs(ak)

Flooded(a, b) == {t \in Tx : <<a, b, t>> \in floods}

FloodsInv == \A f \in floods : f \in Servers \X Servers \X Tx /\ f[3] \in received[f[1]]

BlockTypes ==
  /\ received \in [Servers -> SUBSET Tx]
  /\ sender \in [Links -> SenderType]
  /\ receiver \in [Links -> ReceiverType]
  /\ codewords \in [Links -> Seq(CodewordType)]
  /\ acks \in [Links -> Seq(AckType)]

BlockInv ==
  /\ BlockTypes
  /\ FloodsInv
  /\ \A l \in Links :
       /\ sender[l].outbox = <<>>
       /\ LinkInv(sender[l], receiver[l], codewords[l], acks[l], received[l[1]], received[l[2]])
       /\ CoveredBySender(sender[l], received[l[1]], received[l[2]], Flooded(l[1], l[2]))
       /\ CoveredByReceiver(receiver[l], acks[l], received[l[1]], received[l[2]], Flooded(l[2], l[1]))

(* A sender whose outbox is emptied.                                        *)
LEMMA EmptyOutbox ==
  ASSUME NEW n \in SenderType, NEW m, m = [n EXCEPT !.outbox = <<>>]
  PROVE  /\ m \in SenderType /\ m.outbox = <<>>
         /\ m.buffer = n.buffer /\ m.block = n.block /\ m.sendWindow = n.sendWindow
         /\ m.encodingCurrentBlock = n.encodingCurrentBlock
         /\ m.receivingCurrentBlock = n.receivingCurrentBlock
         /\ m.sent = n.sent /\ m.inFlight = n.inFlight
<1> DEFINE none == <<>>
<1>1. none \in Seq(CodewordType) /\ m = [n EXCEPT !.outbox = none]
  OBVIOUS
<1>2. none = <<>>
  OBVIOUS
<1> HIDE DEF none
<1>3. m \in SenderType
  BY <1>1 DEF SenderType
<1>4. /\ m.outbox = none
      /\ m.buffer = n.buffer /\ m.block = n.block /\ m.sendWindow = n.sendWindow
      /\ m.encodingCurrentBlock = n.encodingCurrentBlock
      /\ m.receivingCurrentBlock = n.receivingCurrentBlock
      /\ m.sent = n.sent /\ m.inFlight = n.inFlight
  BY <1>1 DEF SenderType
<1> QED BY <1>2, <1>3, <1>4

(* Forwarding keeps it, and what is forwarded is covered, unless the peer   *)
(* that it came from has it.                                                *)
LEMMA ForwardKeeps ==
  ASSUME NEW s \in Servers, NEW from \in Servers, NEW fresh \in Seq(Tx),
         NEW snd \in [Links -> SenderType], NEW rcv \in [Links -> ReceiverType],
         NEW cws \in [Links -> Seq(CodewordType)], NEW ak \in Seq(AckType),
         received \in [Servers -> SUBSET Tx],
         Forward(s, from, fresh, snd, rcv, cws), ToSet(fresh) \subseteq received'[from],
         NEW l \in Links, NEW Fab, NEW Fba,
         LinkInv(snd[l], rcv[l], cws[l], ak, received'[l[1]], received'[l[2]]),
         CoveredBySender(snd[l], received[l[1]], received'[l[2]], Fab),
         CoveredByReceiver(rcv[l], ak, received'[l[1]], received[l[2]], Fba)
  PROVE  /\ sender'[l] \in SenderType /\ sender'[l].outbox = <<>>
         /\ receiver'[l] \in ReceiverType /\ codewords'[l] \in Seq(CodewordType)
         /\ LinkInv(sender'[l], receiver'[l], codewords'[l], ak, received'[l[1]], received'[l[2]])
         /\ CoveredBySender(sender'[l], received'[l[1]], received'[l[2]], Fab)
         /\ CoveredByReceiver(receiver'[l], ak, received'[l[1]], received'[l[2]], Fba)
<1> DEFINE n == snd[l]
           r == rcv[l]
           base == cws[l]
           Ra == received'[l[1]]
           Rb == received'[l[2]]
           T == ToSet(fresh)
           m == ForwardBySender(s, from, fresh, snd)[l]
           q == ForwardByReceiver(s, from, fresh, rcv)[l]
           n2 == sender'[l]
           s2 == codewords'[l]
<1>1. l[1] \in Servers /\ l[2] \in Servers
  BY Peering
<1>2. received' = [received EXCEPT ![s] = received[s] \cup T] /\ T \in SUBSET Tx
  BY DEF Forward, ToSet
<1>3. /\ Ra = IF l[1] = s THEN received[l[1]] \cup T ELSE received[l[1]]
      /\ Rb = IF l[2] = s THEN received[l[2]] \cup T ELSE received[l[2]]
  BY <1>1, <1>2
<1>4. n \in SenderType /\ r \in ReceiverType /\ base \in Seq(CodewordType)
  OBVIOUS
<1>5. /\ m = IF l[1] = s /\ l[2] # from THEN FoldLeft(SenderOnTransaction, n, fresh) ELSE n
      /\ q = IF l[2] = s /\ l[1] # from THEN FoldLeft(ReceiverOnTransaction, r, fresh) ELSE r
  BY DEF ForwardBySender, ForwardByReceiver
<1>6. n2 = [m EXCEPT !.outbox = <<>>] /\ s2 = base \o m.outbox /\ receiver'[l] = q
  BY DEF Forward, CollectOutgoing
<1>7. /\ Sending(n, r, base, ak, Ra, Rb) /\ Waits(n, base \o n.outbox, ak)
      /\ r.buffer \cup r.window \subseteq Rb /\ AckTxs(ak) \subseteq Rb
  BY DEF LinkInv
<1>8. /\ received[l[1]] \subseteq Rb \cup Fab \cup n.buffer \cup n.block
      /\ received[l[2]] \subseteq Ra \cup Fba \cup r.buffer \cup r.window \cup AckTxs(ak)
  BY DEF CoveredBySender, CoveredByReceiver
<1>9. (l[2] = from => T \subseteq Rb) /\ (l[1] = from => T \subseteq Ra)
  OBVIOUS
<1> HIDE DEF n, r, base, Ra, Rb, m, q, n2, s2
<1>10. /\ Sending(m, r, base, ak, Ra, Rb) /\ Waits(m, base \o m.outbox, ak)
       /\ Keeps(n, m, IF l[1] = s /\ l[2] # from THEN T ELSE {}, Rb)
  <2>1. CASE l[1] = s /\ l[2] # from
    <3>1. T \subseteq Ra
      BY <1>3, <2>1
    <3> QED BY <1>4, <1>5, <1>7, <2>1, <3>1, FoldPhase
  <2>2. CASE ~(l[1] = s /\ l[2] # from)
    <3>1. m = n /\ Keeps(n, n, {}, Rb)
      BY <1>5, <2>2 DEF Keeps
    <3> QED BY <1>7, <2>2, <3>1
  <2> QED BY <2>1, <2>2
<1>11. q = Buffered(r, IF l[2] = s /\ l[1] # from THEN T ELSE {})
  <2>1. CASE l[2] = s /\ l[1] # from
    BY <1>4, <1>5, <2>1, ReceiverFold
  <2>2. CASE ~(l[2] = s /\ l[1] # from)
    <3>1. q = r /\ Buffered(r, {}) = r
      BY <1>2, <1>4, <1>5, <2>2, BufferedProperties
    <3> QED BY <2>2, <3>1
  <2> QED BY <2>1, <2>2
<1>12. /\ q \in ReceiverType /\ q.window = r.window /\ q.cells = r.cells
       /\ q.currentBlockReceived = r.currentBlockReceived
       /\ q.buffer = r.buffer \cup (IF l[2] = s /\ l[1] # from THEN T ELSE {})
  <2> DEFINE V == IF l[2] = s /\ l[1] # from THEN T ELSE {}
  <2>1. V \in SUBSET Tx /\ q = Buffered(r, V)
    BY <1>2, <1>11
  <2> HIDE DEF V
  <2>2. /\ q \in ReceiverType /\ q.window = r.window /\ q.cells = r.cells
        /\ q.currentBlockReceived = r.currentBlockReceived
        /\ q.buffer = r.buffer \cup V
    BY <1>4, <2>1, BufferedProperties
  <2> QED BY <2>2 DEF V
<1>13. m \in SenderType /\ m.sendWindow >= OverheadDen /\ m.buffer \cup m.block \subseteq Ra
  BY <1>10 DEF Sending
<1>14. /\ n2 \in SenderType /\ n2.outbox = <<>>
       /\ n2.buffer = m.buffer /\ n2.block = m.block /\ n2.sendWindow = m.sendWindow
       /\ n2.encodingCurrentBlock = m.encodingCurrentBlock
       /\ n2.receivingCurrentBlock = m.receivingCurrentBlock
       /\ n2.sent = m.sent /\ n2.inFlight = m.inFlight
  BY <1>6, <1>13, EmptyOutbox
<1>15. s2 \in Seq(CodewordType) /\ s2 \o n2.outbox = s2
  <2>1. m.outbox \in Seq(CodewordType)
    BY <1>13 DEF SenderType
  <2>2. s2 \in Seq(CodewordType)
    BY <1>4, <1>6, <2>1
  <2> QED BY <1>14, <2>2, ConcatEmptySeq
<1>16. InPhase(n2, q, s2, ak, Rb)
  <2>1. InPhase(m, r, s2, ak, Rb)
    BY <1>6, <1>10 DEF Sending
  <2> QED BY <2>1, <1>12, <1>14, PhaseSame
<1>17. Sending(n2, q, s2, ak, Ra, Rb) /\ Waits(n2, s2 \o n2.outbox, ak)
  BY <1>6, <1>10, <1>13, <1>14, <1>15, <1>16 DEF Sending, Waits
<1>18. q.buffer \cup q.window \subseteq Rb
  BY <1>3, <1>7, <1>12
<1>19. LinkInv(n2, q, s2, ak, Ra, Rb)
  BY <1>7, <1>17, <1>18 DEF LinkInv
<1>20. Ra \subseteq Rb \cup Fab \cup n2.buffer \cup n2.block
  <2>1. n.buffer \cup n.block \cup (IF l[1] = s /\ l[2] # from THEN T ELSE {}) \subseteq n2.buffer \cup n2.block \cup Rb
    BY <1>10, <1>14 DEF Keeps
  <2>2. CASE l[1] = s
    <3>1. T \subseteq n2.buffer \cup n2.block \cup Rb
      BY <1>9, <2>1, <2>2
    <3> QED BY <1>3, <1>8, <2>1, <2>2, <3>1
  <2>3. CASE l[1] # s
    BY <1>3, <1>8, <2>1, <2>3
  <2> QED BY <2>2, <2>3
<1>21. Rb \subseteq Ra \cup Fba \cup q.buffer \cup q.window \cup AckTxs(ak)
  <2>1. CASE l[2] = s
    <3>1. T \subseteq q.buffer \cup Ra
      BY <1>9, <1>12, <2>1
    <3> QED BY <1>3, <1>8, <1>12, <2>1, <3>1
  <2>2. CASE l[2] # s
    BY <1>3, <1>8, <1>12, <2>2
  <2> QED BY <2>1, <2>2
<1>22. n2 \in SenderType /\ n2.outbox = <<>> /\ receiver'[l] = q /\ q \in ReceiverType /\ s2 \in Seq(CodewordType)
  BY <1>6, <1>12, <1>14, <1>15
<1> QED BY <1>19, <1>20, <1>21, <1>22 DEF CoveredBySender, CoveredByReceiver, n2, s2, Ra, Rb

-----------------------------------------------------------------------------
(* What is left under way when the first is taken off.                      *)
LEMMA TailProperties ==
  ASSUME NEW S, NEW s \in Seq(S), s # <<>>
  PROVE  /\ Len(s) \in Nat /\ Len(s) >= 1
         /\ s[1] \in S /\ Head(s) = s[1]
         /\ Tail(s) \in Seq(S) /\ Len(Tail(s)) = Len(s) - 1 /\ Len(Tail(s)) \in Nat
         /\ \A i \in 1..Len(Tail(s)) : Tail(s)[i] = s[i + 1] /\ i + 1 \in 1..Len(s)
         /\ s = <<Head(s)>> \o Tail(s)
<1>1. Len(s) \in Nat /\ Len(s) # 0
  <2>1. Len(s) \in Nat
    BY LenProperties
  <2> QED BY <2>1, EmptySeq
<1>2. Len(s) >= 1 /\ 1 \in 1..Len(s)
  BY <1>1
<1>3. Tail(s) \in Seq(S) /\ Len(Tail(s)) = Len(s) - 1 /\ Head(s) = s[1]
      /\ \A i \in 1..Len(s) - 1 : Tail(s)[i] = s[i + 1]
      /\ s = <<Head(s)>> \o Tail(s)
  OBVIOUS
<1>4. Len(Tail(s)) \in Nat /\ \A i \in 1..Len(Tail(s)) : i + 1 \in 1..Len(s)
  BY <1>1, <1>2, <1>3
<1>5. s[1] \in S
  BY <1>2
<1> QED BY <1>1, <1>2, <1>3, <1>4, <1>5

(* What the receiver drops makes no difference.                             *)
LEMMA DropPhase ==
  ASSUME NEW n, NEW r, NEW s \in Seq(CodewordType), NEW ak, NEW Rb, s # <<>>,
         r.currentBlockReceived, ~s[1].newBlock, InPhase(n, r, s, ak, Rb)
  PROVE  InPhase(n, r, Tail(s), ak, Rb) /\ (Waits(n, s, ak) => Waits(n, Tail(s), ak))
<1> DEFINE s2 == Tail(s)
<1>1. /\ Len(s) \in Nat /\ Len(s) >= 1 /\ Len(s2) = Len(s) - 1 /\ Len(s2) \in Nat
      /\ \A i \in 1..Len(s2) : s2[i] = s[i + 1] /\ i + 1 \in 1..Len(s)
  BY TailProperties
<1> HIDE DEF s2
<1>2. ASSUME Between(n, r, s, ak, Rb) PROVE Between(n, r, s2, ak, Rb) /\ Waits(n, s2, ak)
  BY <1>1, <1>2 DEF Between, Waits
<1>3. ASSUME Starts(n, r, s, ak) PROVE Starts(n, r, s2, ak) /\ Waits(n, s2, ak)
  <2>1. PICK k \in 1..Len(s) : StartsAt(n, r, s, k)
    BY <1>3 DEF Starts
  <2>2. k # 1
    BY <2>1 DEF StartsAt
  <2> DEFINE j == k - 1
  <2>3. j \in 1..Len(s2) /\ j + 1 = k /\ k \in Nat
    BY <1>1, <2>2
  <2> HIDE DEF j
  <2>4. \A i \in 1..j - 1 : ~s2[i].newBlock
    <3>1. \A i \in 1..j - 1 : i \in 1..Len(s2) /\ i + 1 \in 1..k - 1
      BY <1>1, <2>3
    <3> QED BY <3>1, <1>1, <2>1 DEF StartsAt
  <2>5. ASSUME NEW i \in j..Len(s2)
        PROVE  s2[i].block = n.block /\ s2[i].number = i - j /\ (s2[i].newBlock <=> i = j)
    <3>1. i \in 1..Len(s2) /\ i + 1 \in k..Len(s) /\ (i + 1) - k = i - j /\ (i + 1 = k <=> i = j)
      BY <1>1, <2>3
    <3>2. s2[i] = s[i + 1]
      BY <1>1, <3>1
    <3> QED BY <3>1, <3>2, <2>1 DEF StartsAt
  <2>6. n.sent = Len(s2) - j + 1 /\ n.inFlight = n.sent
    <3> DEFINE a == Len(s)
               b == Len(s2)
    <3>1. a \in Nat /\ b = a - 1 /\ k \in Nat /\ j \in Int /\ j + 1 = k
      BY <1>1, <2>3
    <3> HIDE DEF a, b
    <3>2. a - k + 1 = b - j + 1
      BY <3>1
    <3> QED BY <3>2, <2>1 DEF StartsAt, a, b
  <2>7. StartsAt(n, r, s2, j)
    BY <2>4, <2>5, <2>6 DEF StartsAt
  <2>8. s2 # <<>>
    <3>1. Len(s2) >= 1
      BY <1>1, <2>3
    <3> QED BY <3>1
  <2> QED BY <1>3, <2>3, <2>7, <2>8 DEF Starts, Waits
<1>4. ~Collects(n, r, s, ak)
  BY DEF Collects
<1>5. ASSUME Concludes(n, r, s, ak, Rb) PROVE Concludes(n, r, s2, ak, Rb) /\ Waits(n, s2, ak)
  BY <1>1, <1>5 DEF Concludes, Waits
<1> QED BY <1>2, <1>3, <1>4, <1>5 DEF InPhase, s2

(* The decoder takes a coded symbol only of the sender's current block.     *)
LEMMA TakesPhase ==
  ASSUME NEW n, NEW r, NEW s \in Seq(CodewordType), NEW ak, NEW Rb, s # <<>>,
         ~(r.currentBlockReceived /\ ~s[1].newBlock), InPhase(n, r, s, ak, Rb)
  PROVE  (Starts(n, r, s, ak) /\ StartsAt(n, r, s, 1)) \/ Collects(n, r, s, ak)
<1>1. Len(s) \in Nat /\ 1 \in 1..Len(s)
  <2>1. Len(s) \in Nat /\ Len(s) >= 1
    BY TailProperties
  <2> QED BY <2>1
<1>2. ~Between(n, r, s, ak, Rb) /\ ~Concludes(n, r, s, ak, Rb)
  BY <1>1 DEF Between, Concludes
<1>3. ASSUME Starts(n, r, s, ak) PROVE StartsAt(n, r, s, 1)
  <2>1. PICK k \in 1..Len(s) : StartsAt(n, r, s, k)
    BY <1>3 DEF Starts
  <2>2. ASSUME k # 1 PROVE FALSE
    <3>1. 1 \in 1..k - 1
      BY <1>1, <2>2
    <3> QED BY <2>1, <2>2, <3>1 DEF StartsAt
  <2> QED BY <2>1, <2>2
<1> QED BY <1>2, <1>3 DEF InPhase

(* What a coded symbol does to the receiver before it is decoded.           *)
LEMMA OnNewBlockProperties ==
  ASSUME NEW r \in ReceiverType, NEW cw \in CodewordType
  PROVE  LET q == OnNewBlock(r, cw) IN
         /\ q \in ReceiverType /\ q.cells = r.cells
         /\ q.buffer \cup q.window = r.buffer \cup r.window
         /\ q.currentBlockReceived <=> r.currentBlockReceived /\ ~cw.newBlock
<1> DEFINE block == {t \in r.buffer : InShard(r.shardHash[t], cw.shard)}
           q == [r EXCEPT !.currentBlockReceived = FALSE,
                          !.window = r.window \cup block, !.buffer = r.buffer \ block]
<1>1. block \subseteq r.buffer /\ r.buffer \in SUBSET Tx /\ r.window \in SUBSET Tx /\ cw.newBlock \in BOOLEAN
      /\ r.currentBlockReceived \in BOOLEAN
  BY DEF ReceiverType, CodewordType
<1>2. OnNewBlock(r, cw) = IF cw.newBlock THEN q ELSE r
  BY DEF OnNewBlock
<1> HIDE DEF block
<1>3. /\ q \in ReceiverType /\ q.cells = r.cells /\ q.currentBlockReceived = FALSE
      /\ q.buffer = r.buffer \ block /\ q.window = r.window \cup block
  BY <1>1 DEF ReceiverType
<1> HIDE DEF q
<1>4. q.buffer \cup q.window = r.buffer \cup r.window
  BY <1>1, <1>3
<1> QED BY <1>1, <1>2, <1>3, <1>4

(* What Ack returns.                                                        *)
LEMMA AckTypes ==
  ASSUME NEW cw \in CodewordType, NEW done \in BOOLEAN, NEW txs \in SUBSET Tx
  PROVE  LET a == Ack(cw, done, txs) IN
         a \in AckType /\ a.ackBlock = done /\ a.ackStart = cw.newBlock /\ a.txs = txs
BY DEF Ack, AckType, CodewordType

(* An acknowledgement is sent.                                              *)
LEMMA AppendAck ==
  ASSUME NEW ak \in Seq(AckType), NEW a \in AckType
  PROVE  LET ak2 == Append(ak, a) IN
         /\ ak2 \in Seq(AckType) /\ Len(ak) \in Nat /\ Len(ak2) = Len(ak) + 1 /\ ak2 # <<>>
         /\ ak2[Len(ak) + 1] = a /\ \A i \in 1..Len(ak) : ak2[i] = ak[i]
         /\ AckTxs(ak2) = AckTxs(ak) \cup a.txs
<1> DEFINE ak2 == Append(ak, a)
<1>1. /\ ak2 \in Seq(AckType) /\ Len(ak) \in Nat /\ Len(ak2) = Len(ak) + 1
      /\ ak2[Len(ak) + 1] = a /\ \A i \in 1..Len(ak) : ak2[i] = ak[i]
  OBVIOUS
<1>2. Range(ak2) = Range(ak) \cup {a}
  BY AppendRange
<1> HIDE DEF ak2
<1>3. ak2 # <<>>
  <2>1. \A k \in Nat : k + 1 # 0
    OBVIOUS
  <2>2. Len(ak2) # 0
    BY <2>1, <1>1
  <2> QED BY <2>2, <1>1, EmptySeq
<1>4. ToSet(ak2) = ToSet(ak) \cup {a}
  BY <1>2 DEF ToSet, Range
<1>5. AckTxs(ak2) = AckTxs(ak) \cup a.txs
  BY <1>4 DEF AckTxs
<1> QED BY <1>1, <1>3, <1>5 DEF ak2

(* The receiver has taken the first coded symbol of s and acknowledged it:  *)
(* the block is decoded, or it is not.                                      *)
LEMMA DecodedPhase ==
  ASSUME NEW n, NEW r, NEW q \in ReceiverType, NEW s \in Seq(CodewordType), NEW ak \in Seq(AckType),
         NEW a \in AckType, NEW Rb, s # <<>>,
         (Starts(n, r, s, ak) /\ StartsAt(n, r, s, 1)) \/ Collects(n, r, s, ak),
         q.currentBlockReceived, q.cells = 0, q.window = {}, a.ackBlock, n.block \subseteq Rb
  PROVE  InPhase(n, q, Tail(s), Append(ak, a), Rb) /\ Waits(n, Tail(s), Append(ak, a))
<1> DEFINE s2 == Tail(s)
           ak2 == Append(ak, a)
<1>1. /\ Len(s) \in Nat /\ Len(s2) \in Nat
      /\ \A i \in 1..Len(s2) : s2[i] = s[i + 1] /\ i + 1 \in 1..Len(s)
  BY TailProperties
<1>2. /\ Len(ak) \in Nat /\ Len(ak2) = Len(ak) + 1 /\ ak2 # <<>>
      /\ ak2[Len(ak) + 1] = a /\ \A i \in 1..Len(ak) : ak2[i] = ak[i]
  BY AppendAck
<1> HIDE DEF s2, ak2
<1>3. n.encodingCurrentBlock
  BY DEF Starts, Collects
<1>4. \A i \in 1..Len(s2) : ~s2[i].newBlock
  <2> SUFFICES ASSUME NEW i \in 1..Len(s2) PROVE ~s2[i].newBlock
    OBVIOUS
  <2>1. s2[i] = s[i + 1] /\ i + 1 \in 1..Len(s) /\ i + 1 # 1
    BY <1>1
  <2> QED BY <2>1 DEF StartsAt, Collects
<1>5. \A i \in 1..Len(ak) : ~ak[i].ackBlock
  <2>1. Starts(n, r, s, ak) => 1..Len(ak) = {}
    <3>1. Len(<<>>) = 0 /\ 1..0 = {}
      OBVIOUS
    <3> QED BY <3>1 DEF Starts
  <2> QED BY <2>1 DEF Collects
<1>6. ak2[Len(ak2)].ackBlock /\ \A i \in 1..Len(ak2) - 1 : ~ak2[i].ackBlock
  <2>1. Len(ak2) - 1 = Len(ak)
    BY <1>2
  <2> QED BY <2>1, <1>2, <1>5
<1>7. Concludes(n, q, s2, ak2, Rb)
  BY <1>2, <1>3, <1>4, <1>6 DEF Concludes
<1> QED BY <1>2, <1>7 DEF InPhase, Waits, s2, ak2

(* The block needs more coded symbols.                                      *)
LEMMA CollectedPhase ==
  ASSUME NEW n \in SenderType, NEW r \in ReceiverType, NEW q \in ReceiverType,
         NEW s \in Seq(CodewordType), NEW ak \in Seq(AckType), NEW a \in AckType, NEW Rb, s # <<>>,
         (Starts(n, r, s, ak) /\ StartsAt(n, r, s, 1)) \/ Collects(n, r, s, ak),
         ~q.currentBlockReceived, q.cells = r.cells + 1, ~a.ackBlock, a.ackStart = s[1].newBlock
  PROVE  InPhase(n, q, Tail(s), Append(ak, a), Rb) /\ Waits(n, Tail(s), Append(ak, a))
<1> DEFINE s2 == Tail(s)
           ak2 == Append(ak, a)
           c == r.cells
<1>1. /\ Len(s) \in Nat /\ Len(s) >= 1 /\ Len(s2) = Len(s) - 1 /\ Len(s2) \in Nat
      /\ \A i \in 1..Len(s2) : s2[i] = s[i + 1] /\ i + 1 \in 1..Len(s)
  BY TailProperties
<1>2. /\ Len(ak) \in Nat /\ Len(ak2) = Len(ak) + 1 /\ ak2 # <<>>
      /\ ak2[Len(ak) + 1] = a /\ \A i \in 1..Len(ak) : ak2[i] = ak[i]
  BY AppendAck
<1>3. c \in Nat /\ q.cells = c + 1
  BY DEF ReceiverType
<1> HIDE DEF s2, ak2
<1>4. n.encodingCurrentBlock
  BY DEF Starts, Collects
<1>5. ASSUME NEW i \in 1..Len(s2)
      PROVE  ~s2[i].newBlock /\ s2[i].block = n.block /\ s2[i].number = c + (i + 1) - 1
  <2>1. s2[i] = s[i + 1] /\ i + 1 \in 1..Len(s) /\ i + 1 # 1 /\ i \in Nat
    BY <1>1
  <2>2. ASSUME Starts(n, r, s, ak), StartsAt(n, r, s, 1) PROVE s2[i].number = c + (i + 1) - 1 /\ ~s2[i].newBlock /\ s2[i].block = n.block
    <3>1. s[i + 1].number = (i + 1) - 1 /\ ~s[i + 1].newBlock /\ s[i + 1].block = n.block /\ c = 0
      BY <2>1, <2>2 DEF StartsAt, Starts
    <3> QED BY <3>1, <2>1
  <2>3. ASSUME Collects(n, r, s, ak) PROVE s2[i].number = c + (i + 1) - 1 /\ ~s2[i].newBlock /\ s2[i].block = n.block
    BY <2>1, <2>3 DEF Collects
  <2> QED BY <2>2, <2>3
<1>6. n.sent = c + Len(s) /\ n.inFlight = Len(s) + Len(ak)
  <2>1. ASSUME Starts(n, r, s, ak), StartsAt(n, r, s, 1) PROVE n.sent = c + Len(s) /\ n.inFlight = Len(s) + Len(ak)
    <3>1. n.sent = Len(s) - 1 + 1 /\ n.inFlight = n.sent /\ c = 0 /\ ak = <<>>
      BY <2>1 DEF StartsAt, Starts
    <3>2. Len(ak) = 0
      BY <3>1
    <3> QED BY <3>1, <3>2, <1>1
  <2> QED BY <2>1 DEF Collects
<1>7. n.sent = q.cells + Len(s2) /\ n.inFlight = Len(s2) + Len(ak2)
  <2> DEFINE x == Len(s)
             y == Len(s2)
             z == Len(ak)
             w == Len(ak2)
  <2>1. x \in Nat /\ y = x - 1 /\ z \in Nat /\ w = z + 1 /\ n.sent = c + x /\ n.inFlight = x + z
    BY <1>1, <1>2, <1>6
  <2> HIDE DEF x, y, z, w, c
  <2>2. n.sent = q.cells + y /\ n.inFlight = y + w
    BY <2>1, <1>3
  <2> QED BY <2>2 DEF y, w
<1>8. \A i \in 1..Len(ak2) : ~ak2[i].ackBlock
  <2> SUFFICES ASSUME NEW i \in 1..Len(ak2) PROVE ~ak2[i].ackBlock
    OBVIOUS
  <2>1. i \in 1..Len(ak) \/ i = Len(ak) + 1
    BY <1>2
  <2>2. CASE i \in 1..Len(ak)
    <3>1. ak # <<>>
      <4>1. Len(ak) >= 1
        BY <2>2, <1>2
      <4> QED BY <4>1
    <3> QED BY <2>2, <3>1, <1>2 DEF Starts, Collects
  <2> QED BY <2>1, <2>2, <1>2
<1>9. n.receivingCurrentBlock \/ (ak2 # <<>> /\ ak2[1].ackStart)
  <2>1. ASSUME Starts(n, r, s, ak), StartsAt(n, r, s, 1) PROVE ak2[1].ackStart
    <3>1. 1 \in 1..Len(s) /\ Len(ak) = 0
      BY <1>1, <2>1 DEF Starts
    <3>2. ak2[1] = a /\ s[1].newBlock
      BY <1>2, <2>1, <3>1 DEF StartsAt
    <3> QED BY <3>2
  <2>2. ASSUME Collects(n, r, s, ak), ~n.receivingCurrentBlock PROVE ak2[1].ackStart
    <3>1. ak # <<>> /\ ak[1].ackStart
      BY <2>2 DEF Collects
    <3>2. 1 \in 1..Len(ak)
      <4>1. Len(ak) # 0
        BY <3>1, EmptySeq
      <4> QED BY <4>1, <1>2
    <3> QED BY <3>1, <3>2, <1>2
  <2> QED BY <2>1, <2>2, <1>2
<1>10. q.cells >= 1
  BY <1>3
<1>11. ASSUME NEW i \in 1..Len(s2) PROVE s2[i].number = q.cells + i - 1
  <2>1. i \in Nat /\ s2[i].number = c + (i + 1) - 1
    BY <1>5
  <2> QED BY <2>1, <1>3
<1>12. Collects(n, q, s2, ak2)
  BY <1>4, <1>5, <1>7, <1>8, <1>9, <1>10, <1>11 DEF Collects
<1> QED BY <1>2, <1>12 DEF InPhase, Waits, s2, ak2

(* What an acknowledgement makes of the sender before it fills its window.  *)
Acknowledged(n, ack, o) ==
  LET receiving == ack.ackStart \/ (n.receivingCurrentBlock /\ ~ack.ackBlock) IN
  /\ o \in SenderType /\ o.sendWindow >= OverheadDen
  /\ o.buffer = n.buffer /\ o.block = n.block /\ o.outbox = n.outbox /\ o.sent = n.sent
  /\ o.encodingCurrentBlock <=> n.encodingCurrentBlock /\ ~ack.ackBlock
  /\ o.receivingCurrentBlock <=> receiving
  /\ o.inFlight = IF receiving THEN n.inFlight - 1 ELSE n.inFlight

(* OnAck does this before it fills the window.                              *)
LEMMA OnAckProperties ==
  ASSUME NEW n \in SenderType, n.sendWindow >= OverheadDen, NEW ack \in AckType
  PROVE  \E o : Acknowledged(n, ack, o) /\ OnAck(n, ack) = TryFillSendWindow(o)
<1> DEFINE receiving == ack.ackStart \/ (n.receivingCurrentBlock /\ ~ack.ackBlock)
           encoding == n.encodingCurrentBlock /\ ~ack.ackBlock
           count == IF ack.ackStart THEN 0 ELSE n.currentBlockAckCount
           k == [n EXCEPT !.encodingCurrentBlock = encoding, !.receivingCurrentBlock = receiving,
                          !.currentBlockAckCount = count]
           o == IF receiving THEN CountAck(k) ELSE k
<1>1. OnAck(n, ack) = TryFillSendWindow(o)
  BY DEF OnAck
<1>2. receiving \in BOOLEAN /\ encoding \in BOOLEAN /\ count \in Nat
  <2>1. n.currentBlockAckCount \in Nat /\ n.receivingCurrentBlock \in BOOLEAN /\ n.encodingCurrentBlock \in BOOLEAN
    BY DEF SenderType
  <2>2. ack.ackBlock \in BOOLEAN /\ ack.ackStart \in BOOLEAN
    BY DEF AckType
  <2> QED BY <2>1, <2>2
<1>3. (receiving <=> ack.ackStart \/ (n.receivingCurrentBlock /\ ~ack.ackBlock))
      /\ (encoding <=> n.encodingCurrentBlock /\ ~ack.ackBlock)
  OBVIOUS
<1> HIDE DEF receiving, encoding, count
<1>4. /\ k \in SenderType
      /\ k.buffer = n.buffer /\ k.block = n.block /\ k.outbox = n.outbox /\ k.sent = n.sent
      /\ k.encodingCurrentBlock = encoding /\ k.receivingCurrentBlock = receiving
      /\ k.inFlight = n.inFlight /\ k.sendWindow = n.sendWindow
  BY <1>2 DEF SenderType
<1> HIDE DEF k
<1>5. CASE receiving
  <2> DEFINE one == k.currentBlockAckCount + 1
             less == k.inFlight - 1
             w == AtLeastOne(k.sendWindow + OverheadNum)
  <2>1. o = [k EXCEPT !.currentBlockAckCount = one, !.inFlight = less, !.sendWindow = w]
    BY <1>5 DEF CountAck
  <2>2. one \in Nat /\ less \in Int /\ k.sendWindow + OverheadNum \in Nat
    <3>1. k.currentBlockAckCount \in Nat /\ k.inFlight \in Int /\ k.sendWindow \in Nat
      BY <1>4 DEF SenderType
    <3> QED BY <3>1, Parameters
  <2>3. w \in Nat /\ w >= OverheadDen
    BY <2>2, AtLeastOneProperties
  <2>4. less = n.inFlight - 1
    BY <1>4
  <2> HIDE DEF one, less, w, o
  <2>5. /\ o \in SenderType /\ o.sendWindow = w /\ o.inFlight = less
        /\ o.buffer = k.buffer /\ o.block = k.block /\ o.outbox = k.outbox /\ o.sent = k.sent
        /\ o.encodingCurrentBlock = k.encodingCurrentBlock /\ o.receivingCurrentBlock = k.receivingCurrentBlock
    BY <1>4, <2>1, <2>2, <2>3 DEF SenderType
  <2>6. Acknowledged(n, ack, o)
    BY <1>3, <1>4, <1>5, <2>3, <2>4, <2>5 DEF Acknowledged
  <2> QED BY <1>1, <2>6
<1>6. CASE ~receiving
  <2>1. o = k
    BY <1>6
  <2> HIDE DEF o
  <2>2. Acknowledged(n, ack, o)
    BY <1>3, <1>4, <1>6, <2>1 DEF Acknowledged
  <2> QED BY <1>1, <2>2
<1> QED BY <1>5, <1>6

(* Counting an acknowledgement leads from phase to phase.                   *)
LEMMA AcknowledgedPhase ==
  ASSUME NEW n, NEW r, NEW s \in Seq(CodewordType), NEW ak \in Seq(AckType), NEW Rb, ak # <<>>,
         InPhase(n, r, s, ak, Rb), NEW o, Acknowledged(n, Head(ak), o)
  PROVE  InPhase(o, r, s, Tail(ak), Rb)
<1> DEFINE ak2 == Tail(ak)
           a == Head(ak)
<1>1. /\ Len(ak) \in Nat /\ Len(ak) >= 1 /\ Len(ak2) = Len(ak) - 1 /\ Len(ak2) \in Nat
      /\ ak2 \in Seq(AckType) /\ a = ak[1]
      /\ \A i \in 1..Len(ak2) : ak2[i] = ak[i + 1] /\ i + 1 \in 1..Len(ak)
  BY TailProperties
<1>2. 1 \in 1..Len(ak) /\ Len(s) \in Nat
  BY <1>1
<1> HIDE DEF ak2, a
<1>3. Acknowledged(n, a, o)
  BY DEF a
<1>4. ASSUME Collects(n, r, s, ak) PROVE Collects(o, r, s, ak2)
  <2>1. ~a.ackBlock /\ (n.receivingCurrentBlock \/ a.ackStart) /\ n.encodingCurrentBlock
    BY <1>1, <1>2, <1>4 DEF Collects
  <2>2. /\ o.encodingCurrentBlock /\ o.receivingCurrentBlock /\ o.inFlight = n.inFlight - 1
        /\ o.block = n.block /\ o.sent = n.sent
    BY <1>3, <2>1 DEF Acknowledged
  <2>3. o.inFlight = Len(s) + Len(ak2)
    <3> DEFINE x == Len(ak)
               y == Len(ak2)
               z == Len(s)
    <3>1. x \in Nat /\ y = x - 1 /\ z \in Nat /\ n.inFlight = z + x
      BY <1>1, <1>2, <1>4 DEF Collects
    <3> HIDE DEF x, y, z
    <3>2. o.inFlight = z + y
      BY <2>2, <3>1
    <3> QED BY <3>2 DEF y, z
  <2>4. \A i \in 1..Len(ak2) : ~ak2[i].ackBlock
    BY <1>1, <1>4 DEF Collects
  <2> QED BY <1>4, <2>2, <2>3, <2>4 DEF Collects
<1>5. ASSUME Concludes(n, r, s, ak, Rb), Len(ak) # 1 PROVE Concludes(o, r, s, ak2, Rb)
  <2>1. 1 \in 1..Len(ak) - 1 /\ Len(ak2) # 0 /\ Len(ak2) \in 1..Len(ak2) /\ Len(ak2) + 1 = Len(ak)
    BY <1>1, <1>5
  <2>2. ~a.ackBlock
    BY <1>1, <1>5, <2>1 DEF Concludes
  <2>3. o.encodingCurrentBlock /\ o.block = n.block
    BY <1>3, <1>5, <2>2 DEF Acknowledged, Concludes
  <2>4. ak2 # <<>> /\ ak2[Len(ak2)].ackBlock
    <3>1. ak2 # <<>>
      BY <1>1, <2>1, EmptySeq
    <3>2. ak2[Len(ak2)] = ak[Len(ak)]
      BY <1>1, <2>1
    <3> QED BY <3>1, <3>2, <1>5 DEF Concludes
  <2>5. \A i \in 1..Len(ak2) - 1 : ~ak2[i].ackBlock
    <3>1. \A i \in 1..Len(ak2) - 1 : i \in 1..Len(ak2) /\ i + 1 \in 1..Len(ak) - 1
      BY <1>1
    <3> QED BY <3>1, <1>1, <1>5 DEF Concludes
  <2> QED BY <1>5, <2>3, <2>4, <2>5 DEF Concludes
<1>6. ASSUME Concludes(n, r, s, ak, Rb), Len(ak) = 1 PROVE Between(o, r, s, ak2, Rb)
  <2>1. a.ackBlock
    BY <1>1, <1>6 DEF Concludes
  <2>2. ~o.encodingCurrentBlock /\ o.block = n.block
    BY <1>3, <2>1 DEF Acknowledged
  <2>3. ak2 = <<>>
    <3>1. Len(ak2) = 0
      BY <1>1, <1>6
    <3> QED BY <1>1, <3>1, EmptySeq
  <2> QED BY <1>6, <2>2, <2>3 DEF Concludes, Between
<1>7. ~Between(n, r, s, ak, Rb) /\ ~Starts(n, r, s, ak)
  BY DEF Between, Starts
<1> QED BY <1>4, <1>5, <1>6, <1>7 DEF InPhase, ak2

-----------------------------------------------------------------------------
(* More transactions at the two ends do no harm.                            *)
LEMMA LinkMonotone ==
  ASSUME NEW n, NEW r, NEW base, NEW ak, NEW Ra, NEW Rb, LinkInv(n, r, base, ak, Ra, Rb),
         NEW Ra2, NEW Rb2, Ra \subseteq Ra2, Rb \subseteq Rb2
  PROVE  LinkInv(n, r, base, ak, Ra2, Rb2)
<1> DEFINE s == base \o n.outbox
<1>1. InPhase(n, r, s, ak, Rb) => InPhase(n, r, s, ak, Rb2)
  <2> HIDE DEF s
  <2> QED BY DEF InPhase, Between, Concludes
<1> QED BY <1>1 DEF LinkInv, Sending

(* A link when a step has changed its ends to n and r, with base under way, *)
(* and server by server what has been received.                             *)
LinkReady(l, n, r, base) ==
  /\ LinkInv(n, r, base, acks'[l], received'[l[1]], received'[l[2]])
  /\ CoveredBySender(n, received[l[1]], received'[l[2]], Flooded(l[1], l[2])')
  /\ CoveredByReceiver(r, acks'[l], received'[l[1]], received[l[2]], Flooded(l[2], l[1])')

(* What s forwards is new to no other server.                               *)
LEMMA ForwardReceives ==
  ASSUME NEW s \in Servers, NEW from, NEW fresh \in Seq(Tx), NEW snd, NEW rcv, NEW cws,
         received \in [Servers -> SUBSET Tx], Forward(s, from, fresh, snd, rcv, cws)
  PROVE  /\ received' \in [Servers -> SUBSET Tx]
         /\ \A a \in Servers : received[a] \subseteq received'[a]
         /\ received'[s] = received[s] \cup ToSet(fresh)
<1>1. ToSet(fresh) \in SUBSET Tx
  BY DEF ToSet
<1>2. received' = [received EXCEPT ![s] = received[s] \cup ToSet(fresh)]
  BY DEF Forward
<1> QED BY <1>1, <1>2

(* Forwarding keeps the invariant, if each link is ready for it.            *)
LEMMA ForwardInv ==
  ASSUME BlockInv, NEW s \in Servers, NEW from \in Servers, NEW fresh \in Seq(Tx),
         NEW snd \in [Links -> SenderType], NEW rcv \in [Links -> ReceiverType],
         NEW cws \in [Links -> Seq(CodewordType)],
         Forward(s, from, fresh, snd, rcv, cws), ToSet(fresh) \subseteq received'[from],
         acks' \in [Links -> Seq(AckType)], floods' \subseteq floods,
         \A l \in Links : LinkReady(l, snd[l], rcv[l], cws[l])
  PROVE  BlockInv'
<1>1. received \in [Servers -> SUBSET Tx] /\ FloodsInv
  BY DEF BlockInv, BlockTypes
<1>2. received' \in [Servers -> SUBSET Tx] /\ \A a \in Servers : received[a] \subseteq received'[a]
  BY <1>1, ForwardReceives
<1>3. FloodsInv'
  BY <1>1, <1>2 DEF FloodsInv
<1>4. ASSUME NEW l \in Links
      PROVE  /\ sender'[l] \in SenderType /\ sender'[l].outbox = <<>>
             /\ receiver'[l] \in ReceiverType /\ codewords'[l] \in Seq(CodewordType)
             /\ LinkInv(sender'[l], receiver'[l], codewords'[l], acks'[l], received'[l[1]], received'[l[2]])
             /\ CoveredBySender(sender'[l], received'[l[1]], received'[l[2]], Flooded(l[1], l[2])')
             /\ CoveredByReceiver(receiver'[l], acks'[l], received'[l[1]], received'[l[2]], Flooded(l[2], l[1])')
  <2> DEFINE Fab == Flooded(l[1], l[2])'
             Fba == Flooded(l[2], l[1])'
             ak == acks'[l]
  <2>1. /\ LinkInv(snd[l], rcv[l], cws[l], ak, received'[l[1]], received'[l[2]])
        /\ CoveredBySender(snd[l], received[l[1]], received'[l[2]], Fab)
        /\ CoveredByReceiver(rcv[l], ak, received'[l[1]], received[l[2]], Fba)
        /\ ak \in Seq(AckType)
    BY DEF LinkReady
  <2> HIDE DEF Fab, Fba, ak
  <2>2. /\ sender'[l] \in SenderType /\ sender'[l].outbox = <<>>
        /\ receiver'[l] \in ReceiverType /\ codewords'[l] \in Seq(CodewordType)
        /\ LinkInv(sender'[l], receiver'[l], codewords'[l], ak, received'[l[1]], received'[l[2]])
        /\ CoveredBySender(sender'[l], received'[l[1]], received'[l[2]], Fab)
        /\ CoveredByReceiver(receiver'[l], ak, received'[l[1]], received'[l[2]], Fba)
    BY <1>1, <2>1, ForwardKeeps
  <2> QED BY <2>2 DEF Fab, Fba, ak
<1>5. /\ sender' \in [Links -> SenderType] /\ receiver' \in [Links -> ReceiverType]
      /\ codewords' \in [Links -> Seq(CodewordType)]
  <2>1. /\ sender' = [l \in Links |-> sender'[l]] /\ receiver' = [l \in Links |-> receiver'[l]]
        /\ codewords' = [l \in Links |-> codewords'[l]]
    BY DEF Forward, CollectOutgoing, ForwardByReceiver
  <2> QED BY <2>1, <1>4
<1>6. BlockTypes'
  BY <1>2, <1>5 DEF BlockTypes
<1> QED BY <1>3, <1>4, <1>6 DEF BlockInv

(* A link that a step leaves alone: floods leave only for who has them.     *)
LEMMA QuietLink ==
  ASSUME BlockInv, received' \in [Servers -> SUBSET Tx],
         \A a \in Servers : received[a] \subseteq received'[a],
         NEW l \in Links, acks'[l] = acks[l],
         \A a, b \in Servers : Flooded(a, b) \subseteq received'[b] \cup Flooded(a, b)'
  PROVE  LinkReady(l, sender[l], receiver[l], codewords[l])
<1>1. l[1] \in Servers /\ l[2] \in Servers
  BY Peering
<1>2. /\ LinkInv(sender[l], receiver[l], codewords[l], acks[l], received[l[1]], received[l[2]])
      /\ CoveredBySender(sender[l], received[l[1]], received[l[2]], Flooded(l[1], l[2]))
      /\ CoveredByReceiver(receiver[l], acks[l], received[l[1]], received[l[2]], Flooded(l[2], l[1]))
  BY DEF BlockInv
<1>3. LinkInv(sender[l], receiver[l], codewords[l], acks'[l], received'[l[1]], received'[l[2]])
  BY <1>1, <1>2, LinkMonotone
<1> DEFINE Fab == Flooded(l[1], l[2])
           Fba == Flooded(l[2], l[1])
           Gab == Flooded(l[1], l[2])'
           Gba == Flooded(l[2], l[1])'
<1>4. /\ Fab \subseteq received'[l[2]] \cup Gab /\ Fba \subseteq received'[l[1]] \cup Gba
      /\ received[l[1]] \subseteq received'[l[1]] /\ received[l[2]] \subseteq received'[l[2]]
      /\ CoveredBySender(sender[l], received[l[1]], received[l[2]], Fab)
      /\ CoveredByReceiver(receiver[l], acks[l], received[l[1]], received[l[2]], Fba)
  BY <1>1, <1>2
<1> HIDE DEF Fab, Fba, Gab, Gba
<1>5. CoveredBySender(sender[l], received[l[1]], received'[l[2]], Gab)
  BY <1>4 DEF CoveredBySender
<1>6. CoveredByReceiver(receiver[l], acks'[l], received'[l[1]], received[l[2]], Gba)
  BY <1>4 DEF CoveredByReceiver
<1> QED BY <1>3, <1>5, <1>6 DEF LinkReady, Gab, Gba

-----------------------------------------------------------------------------
(* An order of the shards.                                                  *)
LEMMA Schedules ==
  ASSUME NEW s \in SetToSeqs(0..NumShards - 1)
  PROVE  s \in [1..NumShards -> 0..NumShards - 1]
<1> DEFINE T == 0..NumShards - 1
<1>1. Cardinality(T) = NumShards
  <2>1. NumShards \in Nat /\ 0 \in Int /\ NumShards - 1 \in Int
    BY Parameters
  <2>2. Cardinality(T) = IF 0 > NumShards - 1 THEN 0 ELSE NumShards - 1 - 0 + 1
    BY <2>1, FS_Interval
  <2> HIDE DEF T
  <2> QED BY <2>1, <2>2, Parameters
<1>2. s \in [1..Cardinality(T) -> T]
  BY DEF SetToSeqs
<1> QED BY <1>1, <1>2

(* A new sender has no block.                                               *)
LEMMA NewSenderType ==
  ASSUME NEW l \in Links, NEW s \in [1..NumShards -> 0..NumShards - 1]
  PROVE  LET n == NewSender(l, s) IN
         /\ n \in SenderType /\ n.sendWindow = OverheadDen /\ n.buffer = {} /\ n.block = {}
         /\ n.outbox = <<>> /\ ~n.encodingCurrentBlock
<1> DEFINE n == NewSender(l, s)
           none == <<>>
           empty == {}
           zero == 0
           one == 1
<1>1. n = [buffer |-> empty, block |-> empty, sendWindow |-> OverheadDen, inFlight |-> zero,
           encodingCurrentBlock |-> FALSE, receivingCurrentBlock |-> FALSE,
           currentBlockAckCount |-> zero, sent |-> zero, shardSchedule |-> s, nextShard |-> one,
           shardHash |-> ShardHash[l], outbox |-> none]
  BY DEF NewSender
<1>2. /\ none \in Seq(CodewordType) /\ empty \in SUBSET Tx /\ zero \in Nat /\ zero \in Int
      /\ one \in 1..NumShards /\ OverheadDen \in Nat
  BY Parameters
<1>3. ShardHash[l] \in [Tx -> 0..HashMax]
  BY BlockSyncAssumption
<1>4. none = <<>> /\ empty = {}
  OBVIOUS
<1> HIDE DEF n, none, empty, zero, one
<1>5. n \in SenderType
  BY <1>1, <1>2, <1>3 DEF SenderType
<1>6. /\ n.sendWindow = OverheadDen /\ n.buffer = empty /\ n.block = empty
      /\ n.outbox = none /\ n.encodingCurrentBlock = FALSE
  BY <1>1
<1> QED BY <1>4, <1>5, <1>6 DEF n

(* A new receiver has no window.                                            *)
LEMMA NewReceiverType ==
  ASSUME NEW l \in Links
  PROVE  LET r == NewReceiver(l) IN
         r \in ReceiverType /\ r.buffer = {} /\ r.window = {} /\ r.cells = 0
<1>1. ShardHash[l] \in [Tx -> 0..HashMax]
  BY BlockSyncAssumption
<1> QED BY <1>1 DEF NewReceiver, ReceiverType

(* The initial states satisfy the invariant.                                *)
LEMMA InitInv == Init => BlockInv
<1> SUFFICES ASSUME Init PROVE BlockInv
  OBVIOUS
<1>1. PICK schedule \in [Links -> SetToSeqs(0..NumShards - 1)] :
        sender = [l \in Links |-> NewSender(l, schedule[l])]
  BY DEF Init
<1>2. /\ received = [s \in Servers |-> {}] /\ receiver = [l \in Links |-> NewReceiver(l)]
      /\ codewords = [l \in Links |-> <<>>] /\ acks = [l \in Links |-> <<>>] /\ floods = {}
  BY DEF Init
<1>3. ASSUME NEW l \in Links
      PROVE  /\ sender[l] \in SenderType /\ sender[l].sendWindow = OverheadDen
             /\ sender[l].buffer = {} /\ sender[l].block = {}
             /\ sender[l].outbox = <<>> /\ ~sender[l].encodingCurrentBlock
             /\ receiver[l] \in ReceiverType /\ receiver[l].buffer = {} /\ receiver[l].window = {}
             /\ receiver[l].cells = 0
             /\ codewords[l] = <<>> /\ acks[l] = <<>>
             /\ received[l[1]] = {} /\ received[l[2]] = {}
  <2>1. schedule[l] \in [1..NumShards -> 0..NumShards - 1]
    BY Schedules
  <2>2. sender[l] = NewSender(l, schedule[l]) /\ receiver[l] = NewReceiver(l)
    BY <1>1, <1>2
  <2>3. l[1] \in Servers /\ l[2] \in Servers
    BY Peering
  <2> QED BY <2>1, <2>2, <2>3, <1>2, NewSenderType, NewReceiverType
<1>4. BlockTypes
  <2>1. sender = [l \in Links |-> sender[l]] /\ receiver = [l \in Links |-> receiver[l]]
    BY <1>1, <1>2
  <2>2. sender \in [Links -> SenderType] /\ receiver \in [Links -> ReceiverType]
    BY <1>3, <2>1
  <2> QED BY <1>2, <2>2 DEF BlockTypes
<1>5. FloodsInv
  BY <1>2 DEF FloodsInv
<1>6. ASSUME NEW l \in Links
      PROVE  /\ LinkInv(sender[l], receiver[l], codewords[l], acks[l], received[l[1]], received[l[2]])
             /\ CoveredBySender(sender[l], received[l[1]], received[l[2]], Flooded(l[1], l[2]))
             /\ CoveredByReceiver(receiver[l], acks[l], received[l[1]], received[l[2]], Flooded(l[2], l[1]))
  <2> DEFINE n == sender[l]
             s == codewords[l] \o n.outbox
  <2>1. s = <<>> /\ Len(<<>>) = 0
    BY <1>3, ConcatEmptySeq
  <2> HIDE DEF s
  <2>2. Between(n, receiver[l], s, acks[l], received[l[2]])
    BY <1>3, <2>1 DEF Between
  <2>3. OverheadDen >= OverheadDen
    BY Parameters
  <2>4. Sending(n, receiver[l], codewords[l], acks[l], received[l[1]], received[l[2]])
    BY <1>3, <2>2, <2>3 DEF Sending, InPhase, s
  <2>5. AckTxs(acks[l]) = {}
    BY <1>3 DEF AckTxs, ToSet
  <2> QED BY <1>3, <2>4, <2>5 DEF LinkInv, Waits, CoveredBySender, CoveredByReceiver
<1> QED BY <1>3, <1>4, <1>5, <1>6 DEF BlockInv

(* blockArrival, the server floods the transaction.                         *)
LEMMA FloodArrivalInv ==
  ASSUME BlockInv, NEW s \in Servers, NEW t \in Tx, s \in Flooding, Arrival(s, t)
  PROVE  BlockInv'
<1>1. /\ floods' = floods \cup {<<s, p, t>> : p \in Peers(s)}
      /\ received' = [received EXCEPT ![s] = received[s] \cup {t}]
      /\ UNCHANGED <<sender, receiver, codewords, acks>>
  BY DEF Arrival
<1>2. BlockTypes /\ FloodsInv /\ received \in [Servers -> SUBSET Tx]
  BY DEF BlockInv, BlockTypes
<1>3. /\ received' \in [Servers -> SUBSET Tx] /\ \A a \in Servers : received[a] \subseteq received'[a]
      /\ \A a \in Servers : received'[a] = IF a = s THEN received[a] \cup {t} ELSE received[a]
  BY <1>1, <1>2
<1>4. \A a, b \in Servers : Flooded(a, b) \subseteq received'[b] \cup Flooded(a, b)'
  BY <1>1 DEF Flooded
<1>5. FloodsInv'
  <2> SUFFICES ASSUME NEW f \in floods' PROVE f \in Servers \X Servers \X Tx /\ f[3] \in received'[f[1]]
    BY DEF FloodsInv
  <2>1. CASE f \in floods
    BY <2>1, <1>2, <1>3 DEF FloodsInv
  <2>2. CASE f \in {<<s, p, t>> : p \in Peers(s)}
    <3>1. PICK p \in Peers(s) : f = <<s, p, t>>
      BY <2>2
    <3>2. p \in Servers
      BY DEF Peers
    <3>3. f[1] = s /\ f[3] = t /\ t \in received'[s]
      BY <3>1, <1>3
    <3> QED BY <3>1, <3>2, <3>3
  <2> QED BY <1>1, <2>1, <2>2
<1>6. BlockTypes'
  BY <1>1, <1>2, <1>3 DEF BlockTypes
<1>7. ASSUME NEW l \in Links
      PROVE  /\ sender'[l].outbox = <<>>
             /\ LinkInv(sender'[l], receiver'[l], codewords'[l], acks'[l], received'[l[1]], received'[l[2]])
             /\ CoveredBySender(sender'[l], received'[l[1]], received'[l[2]], Flooded(l[1], l[2])')
             /\ CoveredByReceiver(receiver'[l], acks'[l], received'[l[1]], received'[l[2]], Flooded(l[2], l[1])')
  <2>1. LinkReady(l, sender[l], receiver[l], codewords[l])
    BY <1>1, <1>3, <1>4, QuietLink
  <2>2. /\ l[1] \in Servers /\ l[2] \in Servers
        /\ l[2] \in Peers(l[1]) /\ l[1] \in Peers(l[2])
    BY Peering
  <2>3. /\ l[1] = s => t \in Flooded(l[1], l[2])'
        /\ l[2] = s => t \in Flooded(l[2], l[1])'
    BY <1>1, <2>2 DEF Flooded
  <2> DEFINE Gab == Flooded(l[1], l[2])'
             Gba == Flooded(l[2], l[1])'
  <2>4. /\ received'[l[1]] \subseteq received[l[1]] \cup Gab
        /\ received'[l[2]] \subseteq received[l[2]] \cup Gba
    BY <1>3, <2>2, <2>3
  <2>5. /\ CoveredBySender(sender[l], received[l[1]], received'[l[2]], Gab)
        /\ CoveredByReceiver(receiver[l], acks'[l], received'[l[1]], received[l[2]], Gba)
    BY <2>1 DEF LinkReady
  <2> HIDE DEF Gab, Gba
  <2>6. /\ CoveredBySender(sender[l], received'[l[1]], received'[l[2]], Gab)
        /\ CoveredByReceiver(receiver[l], acks'[l], received'[l[1]], received'[l[2]], Gba)
    BY <2>4, <2>5 DEF CoveredBySender, CoveredByReceiver
  <2>7. sender[l].outbox = <<>>
    BY DEF BlockInv
  <2> QED BY <1>1, <2>1, <2>6, <2>7 DEF LinkReady, Gab, Gba
<1> QED BY <1>5, <1>6, <1>7 DEF BlockInv

(* blockArrival, the server forwards it through its handlers.               *)
LEMMA ArrivalInv ==
  ASSUME BlockInv, NEW s \in Servers, NEW t \in Tx, Arrival(s, t)
  PROVE  BlockInv'
<1>1. CASE s \in Flooding
  BY <1>1, FloodArrivalInv
<1>2. CASE s \notin Flooding
  <2> DEFINE fresh == <<t>>
  <2>1. Forward(s, s, fresh, sender, receiver, codewords) /\ UNCHANGED <<floods, acks>>
    BY <1>2 DEF Arrival
  <2>2. BlockTypes /\ received \in [Servers -> SUBSET Tx] /\ acks \in [Links -> Seq(AckType)]
    BY DEF BlockInv, BlockTypes
  <2>3. fresh \in Seq(Tx)
    OBVIOUS
  <2> HIDE DEF fresh
  <2>4. /\ received' \in [Servers -> SUBSET Tx] /\ \A a \in Servers : received[a] \subseteq received'[a]
        /\ ToSet(fresh) \subseteq received'[s]
    BY <2>1, <2>2, <2>3, ForwardReceives
  <2>5. \A a, b \in Servers : Flooded(a, b) \subseteq received'[b] \cup Flooded(a, b)'
    BY <2>1 DEF Flooded
  <2>6. \A l \in Links : LinkReady(l, sender[l], receiver[l], codewords[l])
    BY <2>1, <2>4, <2>5, QuietLink
  <2> QED BY <2>1, <2>2, <2>3, <2>4, <2>6, ForwardInv DEF BlockTypes
<1> QED BY <1>1, <1>2

(* initialBroadcast.                                                        *)
LEMMA HandleFloodInv ==
  ASSUME BlockInv, NEW f \in floods, HandleFlood(f[1], f[2], f[3])
  PROVE  BlockInv'
<1> DEFINE from == f[1]
           s == f[2]
           t == f[3]
<1>1. from \in Servers /\ s \in Servers /\ t \in Tx /\ f = <<from, s, t>> /\ t \in received[from]
  BY DEF BlockInv, FloodsInv
<1>2. HandleFlood(from, s, t)
  OBVIOUS
<1> HIDE DEF from, s, t
<1>3. PICK fresh \in FreshOf(s, {t}) : Forward(s, from, fresh, sender, receiver, codewords)
  BY <1>2 DEF HandleFlood
<1>4. floods' = floods \ {<<from, s, t>>} /\ UNCHANGED acks
  BY <1>2 DEF HandleFlood
<1>5. BlockTypes /\ received \in [Servers -> SUBSET Tx] /\ acks \in [Links -> Seq(AckType)]
  BY DEF BlockInv, BlockTypes
<1> DEFINE T == {t} \ received[s]
<1>6. IsFiniteSet(T) /\ fresh \in SetToSeqs(T) /\ T \subseteq Tx
  <2>1. IsFiniteSet({t})
    BY FS_Singleton
  <2> QED BY <1>1, <1>3, <2>1, FS_Subset DEF FreshOf
<1>7. T \subseteq {t} /\ {t} \subseteq received[s] \cup T
  OBVIOUS
<1> HIDE DEF T
<1>8. fresh \in Seq(T) /\ ToSet(fresh) = T
  BY <1>6, OrdersProperties
<1>9. fresh \in Seq(Tx)
  BY <1>6, <1>8
<1>10. /\ received' \in [Servers -> SUBSET Tx] /\ \A a \in Servers : received[a] \subseteq received'[a]
       /\ received'[s] = received[s] \cup T
  BY <1>1, <1>3, <1>5, <1>8, <1>9, ForwardReceives
<1>11. \A a, b \in Servers : Flooded(a, b) \subseteq received'[b] \cup Flooded(a, b)'
  <2> SUFFICES ASSUME NEW a \in Servers, NEW b \in Servers, NEW u \in Flooded(a, b)
               PROVE  u \in received'[b] \cup Flooded(a, b)'
    OBVIOUS
  <2>1. u \in Tx /\ <<a, b, u>> \in floods
    BY DEF Flooded
  <2>2. CASE <<a, b, u>> = <<from, s, t>>
    BY <2>2, <1>7, <1>10
  <2>3. CASE <<a, b, u>> # <<from, s, t>>
    BY <2>1, <2>3, <1>4 DEF Flooded
  <2> QED BY <2>2, <2>3
<1>12. \A l \in Links : LinkReady(l, sender[l], receiver[l], codewords[l])
  BY <1>4, <1>10, <1>11, QuietLink
<1>13. ToSet(fresh) \subseteq received'[from]
  BY <1>1, <1>7, <1>8, <1>10
<1> QED BY <1>1, <1>3, <1>4, <1>5, <1>9, <1>12, <1>13, ForwardInv DEF BlockTypes

(* The invariant of a link on which nothing is in the outbox.               *)
LinkFacts(n, r, s, ak, Ra, Rb) ==
  /\ n.sendWindow >= OverheadDen
  /\ InPhase(n, r, s, ak, Rb) /\ Waits(n, s, ak)
  /\ n.buffer \cup n.block \subseteq Ra
  /\ r.buffer \cup r.window \subseteq Rb /\ AckTxs(ak) \subseteq Rb

(* It says the same.                                                        *)
LEMMA LinkFactsProperties ==
  ASSUME NEW n \in SenderType, n.outbox = <<>>, NEW r, NEW s \in Seq(CodewordType), NEW ak, NEW Ra, NEW Rb
  PROVE  LinkInv(n, r, s, ak, Ra, Rb) <=> LinkFacts(n, r, s, ak, Ra, Rb)
<1>1. s \o n.outbox = s
  BY ConcatEmptySeq
<1> QED BY <1>1 DEF LinkInv, LinkFacts, Sending

(* What the invariant says of a link.                                       *)
LEMMA LinkProperties ==
  ASSUME BlockInv, NEW l \in Links
  PROVE  /\ l[1] \in Servers /\ l[2] \in Servers
         /\ sender[l] \in SenderType /\ receiver[l] \in ReceiverType
         /\ codewords[l] \in Seq(CodewordType) /\ acks[l] \in Seq(AckType)
         /\ received[l[1]] \in SUBSET Tx /\ received[l[2]] \in SUBSET Tx
         /\ sender[l].outbox = <<>>
         /\ LinkFacts(sender[l], receiver[l], codewords[l], acks[l], received[l[1]], received[l[2]])
         /\ CoveredBySender(sender[l], received[l[1]], received[l[2]], Flooded(l[1], l[2]))
         /\ CoveredByReceiver(receiver[l], acks[l], received[l[1]], received[l[2]], Flooded(l[2], l[1]))
<1>1. l[1] \in Servers /\ l[2] \in Servers
  BY Peering
<1>2. /\ sender[l] \in SenderType /\ receiver[l] \in ReceiverType
      /\ codewords[l] \in Seq(CodewordType) /\ acks[l] \in Seq(AckType)
      /\ received[l[1]] \in SUBSET Tx /\ received[l[2]] \in SUBSET Tx
  BY <1>1 DEF BlockInv, BlockTypes
<1>3. /\ sender[l].outbox = <<>>
      /\ LinkInv(sender[l], receiver[l], codewords[l], acks[l], received[l[1]], received[l[2]])
      /\ CoveredBySender(sender[l], received[l[1]], received[l[2]], Flooded(l[1], l[2]))
      /\ CoveredByReceiver(receiver[l], acks[l], received[l[1]], received[l[2]], Flooded(l[2], l[1]))
  BY DEF BlockInv
<1> QED BY <1>1, <1>2, <1>3, LinkFactsProperties

(* A step at the receiver of link l that brings it no transaction.          *)
LEMMA LocalInv ==
  ASSUME BlockInv, NEW l \in Links, NEW r \in ReceiverType, NEW s \in Seq(CodewordType),
         NEW ak \in Seq(AckType),
         receiver' = [receiver EXCEPT ![l] = r], codewords' = [codewords EXCEPT ![l] = s],
         acks' = [acks EXCEPT ![l] = ak], UNCHANGED <<received, sender, floods>>,
         LinkFacts(sender[l], r, s, ak, received[l[1]], received[l[2]]),
         CoveredByReceiver(r, ak, received[l[1]], received[l[2]], Flooded(l[2], l[1]))
  PROVE  BlockInv'
<1>1. BlockTypes /\ FloodsInv
  BY DEF BlockInv
<1>2. BlockTypes' /\ FloodsInv'
  BY <1>1 DEF BlockTypes, FloodsInv
<1>3. ASSUME NEW k \in Links
      PROVE  /\ sender'[k].outbox = <<>>
             /\ LinkInv(sender'[k], receiver'[k], codewords'[k], acks'[k], received'[k[1]], received'[k[2]])
             /\ CoveredBySender(sender'[k], received'[k[1]], received'[k[2]], Flooded(k[1], k[2])')
             /\ CoveredByReceiver(receiver'[k], acks'[k], received'[k[1]], received'[k[2]], Flooded(k[2], k[1])')
  <2>1. /\ sender[k] \in SenderType /\ sender[k].outbox = <<>> /\ codewords[k] \in Seq(CodewordType)
        /\ LinkFacts(sender[k], receiver[k], codewords[k], acks[k], received[k[1]], received[k[2]])
        /\ CoveredBySender(sender[k], received[k[1]], received[k[2]], Flooded(k[1], k[2]))
        /\ CoveredByReceiver(receiver[k], acks[k], received[k[1]], received[k[2]], Flooded(k[2], k[1]))
    BY LinkProperties
  <2>2. sender' = sender /\ received' = received /\ \A a, b : Flooded(a, b)' = Flooded(a, b)
    BY DEF Flooded
  <2>3. CASE k = l
    <3>1. receiver'[k] = r /\ codewords'[k] = s /\ acks'[k] = ak
      BY <1>1, <2>3 DEF BlockTypes
    <3>2. LinkInv(sender[k], r, s, ak, received[k[1]], received[k[2]])
      BY <2>1, <2>3, LinkFactsProperties
    <3> QED BY <2>1, <2>2, <2>3, <3>1, <3>2
  <2>4. CASE k # l
    <3>1. receiver'[k] = receiver[k] /\ codewords'[k] = codewords[k] /\ acks'[k] = acks[k]
      BY <1>1, <2>4 DEF BlockTypes
    <3>2. LinkInv(sender[k], receiver[k], codewords[k], acks[k], received[k[1]], received[k[2]])
      BY <2>1, LinkFactsProperties
    <3> QED BY <2>1, <2>2, <3>1, <3>2
  <2> QED BY <2>3, <2>4
<1> QED BY <1>2, <1>3 DEF BlockInv

(* codeword, of a block that is decoded.                                    *)
LEMMA DropCodewordInv ==
  ASSUME BlockInv, NEW l \in Links, DropCodeword(l)
  PROVE  BlockInv'
<1> DEFINE n == sender[l]
           r == receiver[l]
           s == codewords[l]
           ak == acks[l]
           Ra == received[l[1]]
           Rb == received[l[2]]
<1>1. /\ s # <<>> /\ r.currentBlockReceived /\ ~Head(s).newBlock
      /\ codewords' = [codewords EXCEPT ![l] = Tail(s)]
      /\ UNCHANGED <<received, sender, receiver, acks, floods>>
  BY DEF DropCodeword, Drops
<1>2. /\ r \in ReceiverType /\ s \in Seq(CodewordType) /\ ak \in Seq(AckType)
      /\ LinkFacts(n, r, s, ak, Ra, Rb)
      /\ CoveredByReceiver(r, ak, Ra, Rb, Flooded(l[2], l[1]))
  BY LinkProperties
<1>3. receiver' = [receiver EXCEPT ![l] = r] /\ acks' = [acks EXCEPT ![l] = ak]
  BY <1>1 DEF BlockInv, BlockTypes
<1> HIDE DEF n, r, s, ak, Ra, Rb
<1>4. Tail(s) \in Seq(CodewordType) /\ Head(s) = s[1]
  BY <1>1, <1>2, TailProperties
<1>5. InPhase(n, r, s, ak, Rb) /\ Waits(n, s, ak)
  BY <1>2 DEF LinkFacts
<1>6. InPhase(n, r, Tail(s), ak, Rb) /\ Waits(n, Tail(s), ak)
  BY <1>1, <1>2, <1>4, <1>5, DropPhase
<1>7. LinkFacts(n, r, Tail(s), ak, Ra, Rb)
  BY <1>2, <1>6 DEF LinkFacts
<1> DEFINE s2 == Tail(s)
<1>8. s2 \in Seq(CodewordType) /\ LinkFacts(n, r, s2, ak, Ra, Rb) /\ codewords' = [codewords EXCEPT ![l] = s2]
  BY <1>1, <1>4, <1>7
<1> HIDE DEF s2
<1> QED BY <1>1, <1>2, <1>3, <1>8, LocalInv DEF n, Ra, Rb

(* What the receiver of a link has when it takes the first coded symbol cw  *)
(* of s.                                                                    *)
Takes(n, r, s, ak, cw, q) ==
  /\ s # <<>> /\ cw = s[1] /\ cw \in CodewordType /\ cw.block = n.block
  /\ (Starts(n, r, s, ak) /\ StartsAt(n, r, s, 1)) \/ Collects(n, r, s, ak)
  /\ q = OnNewBlock(r, cw)
  /\ q \in ReceiverType /\ q.cells = r.cells
  /\ q.buffer \cup q.window = r.buffer \cup r.window
  /\ ~q.currentBlockReceived

(* It is of the current block, and the first or the next one of it.         *)
LEMMA TakesProperties ==
  ASSUME BlockInv, NEW l \in Links, codewords[l] # <<>>, ~Drops(receiver[l], Head(codewords[l]))
  PROVE  LET cw == Head(codewords[l]) IN
         Takes(sender[l], receiver[l], codewords[l], acks[l], cw, OnNewBlock(receiver[l], cw))
<1> DEFINE n == sender[l]
           r == receiver[l]
           s == codewords[l]
           ak == acks[l]
           Ra == received[l[1]]
           Rb == received[l[2]]
           cw == Head(s)
           q == OnNewBlock(r, cw)
<1>1. /\ r \in ReceiverType /\ s \in Seq(CodewordType) /\ InPhase(n, r, s, ak, Rb)
      /\ s # <<>> /\ ~(r.currentBlockReceived /\ ~cw.newBlock)
  BY LinkProperties DEF LinkFacts, Drops
<1> HIDE DEF n, r, s, ak, Ra, Rb
<1>2. cw = s[1] /\ s[1] \in CodewordType /\ 1 \in 1..Len(s)
  <2>1. Len(s) \in Nat /\ Len(s) >= 1 /\ Head(s) = s[1] /\ s[1] \in CodewordType
    BY <1>1, TailProperties
  <2> QED BY <2>1
<1> HIDE DEF cw
<1>3. (Starts(n, r, s, ak) /\ StartsAt(n, r, s, 1)) \/ Collects(n, r, s, ak)
  BY <1>1, <1>2, TakesPhase
<1>4. cw.block = n.block
  BY <1>2, <1>3 DEF StartsAt, Collects
<1>5. /\ q \in ReceiverType /\ q.cells = r.cells
      /\ q.buffer \cup q.window = r.buffer \cup r.window
      /\ q.currentBlockReceived <=> r.currentBlockReceived /\ ~cw.newBlock
  BY <1>1, <1>2, OnNewBlockProperties
<1> HIDE DEF q
<1>6. ~q.currentBlockReceived
  BY <1>1, <1>5
<1>7. Takes(n, r, s, ak, cw, q)
  BY <1>1, <1>2, <1>3, <1>4, <1>5, <1>6 DEF Takes, q
<1> QED BY <1>7 DEF n, r, s, ak, cw, q

(* codeword, the block cannot be decoded yet.                               *)
CollectStep(l, cw, q) ==
  /\ codewords[l] # <<>> /\ ~Drops(receiver[l], Head(codewords[l]))
  /\ cw = Head(codewords[l]) /\ q = OnNewBlock(receiver[l], cw)
  /\ acks' = [acks EXCEPT ![l] = Append(acks[l], Ack(cw, FALSE, {}))]
  /\ receiver' = [receiver EXCEPT ![l] = [q EXCEPT !.cells = q.cells + 1]]
  /\ codewords' = [codewords EXCEPT ![l] = Tail(codewords[l])]
  /\ UNCHANGED <<received, sender, floods>>

(* It keeps the invariant.                                                  *)
LEMMA CollectInv ==
  ASSUME BlockInv, NEW l \in Links, NEW cw, NEW q, CollectStep(l, cw, q)
  PROVE  BlockInv'
<1> DEFINE n == sender[l]
           r == receiver[l]
           s == codewords[l]
           ak == acks[l]
           Ra == received[l[1]]
           Rb == received[l[2]]
           F == Flooded(l[2], l[1])
           no == FALSE
           none == {}
           a == Ack(cw, no, none)
           q2 == [q EXCEPT !.cells = q.cells + 1]
           s2 == Tail(s)
           ak2 == Append(ak, a)
<1>1. /\ receiver' = [receiver EXCEPT ![l] = q2] /\ codewords' = [codewords EXCEPT ![l] = s2]
      /\ acks' = [acks EXCEPT ![l] = ak2]
      /\ UNCHANGED <<received, sender, floods>>
  BY DEF CollectStep
<1>2. /\ n \in SenderType /\ r \in ReceiverType /\ s \in Seq(CodewordType) /\ ak \in Seq(AckType)
      /\ LinkFacts(n, r, s, ak, Ra, Rb)
      /\ CoveredByReceiver(r, ak, Ra, Rb, F)
  BY LinkProperties
<1>3. Takes(n, r, s, ak, cw, q)
  BY TakesProperties DEF CollectStep
<1>4. no \in BOOLEAN /\ ~no /\ none \in SUBSET Tx /\ none = {}
  OBVIOUS
<1> HIDE DEF n, r, s, ak, Ra, Rb, F, no, none
<1>5. a \in AckType /\ a.ackBlock = no /\ a.ackStart = cw.newBlock /\ a.txs = none
  BY <1>3, <1>4, AckTypes DEF Takes
<1> HIDE DEF a
<1>6. /\ q2 \in ReceiverType /\ q2.cells = q.cells + 1 /\ q2.window = q.window /\ q2.buffer = q.buffer
      /\ q2.currentBlockReceived = q.currentBlockReceived
  <2> DEFINE c == q.cells + 1
  <2>1. c \in Nat /\ q \in ReceiverType
    BY <1>3 DEF Takes, ReceiverType
  <2> HIDE DEF c
  <2>2. /\ [q EXCEPT !.cells = c] \in ReceiverType /\ [q EXCEPT !.cells = c].cells = c
        /\ [q EXCEPT !.cells = c].window = q.window /\ [q EXCEPT !.cells = c].buffer = q.buffer
        /\ [q EXCEPT !.cells = c].currentBlockReceived = q.currentBlockReceived
    BY <2>1 DEF ReceiverType
  <2> QED BY <2>2 DEF c
<1> HIDE DEF q2
<1>7. s2 \in Seq(CodewordType)
  BY <1>2, <1>3, TailProperties DEF Takes
<1>8. ak2 \in Seq(AckType) /\ AckTxs(ak2) = AckTxs(ak) \cup a.txs
  BY <1>2, <1>5, AppendAck
<1>9. InPhase(n, q2, s2, ak2, Rb) /\ Waits(n, s2, ak2)
  <2>1. /\ s # <<>> /\ ((Starts(n, r, s, ak) /\ StartsAt(n, r, s, 1)) \/ Collects(n, r, s, ak))
        /\ ~q2.currentBlockReceived /\ q2.cells = r.cells + 1 /\ ~a.ackBlock /\ a.ackStart = s[1].newBlock
    BY <1>3, <1>4, <1>5, <1>6 DEF Takes
  <2> QED BY <2>1, <1>2, <1>5, <1>6, CollectedPhase
<1> HIDE DEF s2, ak2
<1>10. AckTxs(ak2) = AckTxs(ak) /\ q2.buffer \cup q2.window = r.buffer \cup r.window
  BY <1>3, <1>4, <1>5, <1>6, <1>8 DEF Takes
<1>11. LinkFacts(n, q2, s2, ak2, Ra, Rb)
  BY <1>2, <1>9, <1>10 DEF LinkFacts
<1>12. CoveredByReceiver(q2, ak2, Ra, Rb, F)
  BY <1>2, <1>10 DEF CoveredByReceiver
<1>13. /\ LinkFacts(sender[l], q2, s2, ak2, received[l[1]], received[l[2]])
       /\ CoveredByReceiver(q2, ak2, received[l[1]], received[l[2]], Flooded(l[2], l[1]))
  BY <1>11, <1>12 DEF n, Ra, Rb, F
<1>14. q2 \in ReceiverType /\ s2 \in Seq(CodewordType) /\ ak2 \in Seq(AckType)
  BY <1>6, <1>7, <1>8 DEF s2, ak2
<1> QED BY <1>1, <1>13, <1>14, LocalInv

(* codeword, the block is decoded and what was missing is forwarded.        *)
LEMMA DecodeInv ==
  ASSUME BlockInv, NEW l \in Links, codewords[l] # <<>>, ~Drops(receiver[l], Head(codewords[l])),
         NEW cw, cw = Head(codewords[l]), NEW q, q = OnNewBlock(receiver[l], cw),
         acks' = [acks EXCEPT ![l] = Append(acks[l], Ack(cw, TRUE, q.window \ cw.block))],
         NEW fresh \in FreshOf(l[2], cw.block \ q.window),
         Forward(l[2], l[1], fresh, sender,
                 [receiver EXCEPT ![l] = [q EXCEPT !.currentBlockReceived = TRUE, !.window = {}, !.cells = 0]],
                 [codewords EXCEPT ![l] = Tail(codewords[l])]),
         UNCHANGED floods
  PROVE  BlockInv'
<1> DEFINE n == sender[l]
           r == receiver[l]
           s == codewords[l]
           ak == acks[l]
           Ra == received[l[1]]
           Rb == received[l[2]]
           F == Flooded(l[2], l[1])
           yes == TRUE
           none == {}
           zero == 0
           missing == q.window \ cw.block
           a == Ack(cw, yes, missing)
           q2 == [q EXCEPT !.currentBlockReceived = yes, !.window = none, !.cells = zero]
           s2 == Tail(s)
           ak2 == Append(ak, a)
           rcv == [receiver EXCEPT ![l] = q2]
           cws == [codewords EXCEPT ![l] = s2]
           T == (cw.block \ q.window) \ Rb
<1>1. /\ acks' = [acks EXCEPT ![l] = ak2] /\ fresh \in SetToSeqs(T)
      /\ Forward(l[2], l[1], fresh, sender, rcv, cws)
  BY DEF FreshOf
<1>2. /\ n \in SenderType /\ r \in ReceiverType /\ s \in Seq(CodewordType) /\ ak \in Seq(AckType)
      /\ LinkFacts(n, r, s, ak, Ra, Rb) /\ n.outbox = <<>>
      /\ CoveredBySender(n, Ra, Rb, Flooded(l[1], l[2]))
      /\ CoveredByReceiver(r, ak, Ra, Rb, F)
      /\ Rb \in SUBSET Tx /\ l[1] \in Servers /\ l[2] \in Servers
  BY LinkProperties
<1>3. Takes(n, r, s, ak, cw, q)
  BY TakesProperties
<1>4. yes \in BOOLEAN /\ yes /\ none \in SUBSET Tx /\ none = {} /\ zero \in Nat /\ zero = 0
  OBVIOUS
<1>5. missing \in SUBSET Tx /\ T \in SUBSET Tx /\ T \subseteq n.block /\ n.block \subseteq q.window \cup Rb \cup T
      /\ q.window \subseteq n.block \cup missing /\ missing \subseteq q.window
  BY <1>3 DEF Takes, ReceiverType, CodewordType
<1>6. BlockTypes /\ received \in [Servers -> SUBSET Tx] /\ acks \in [Links -> Seq(AckType)]
  BY DEF BlockInv, BlockTypes
<1> HIDE DEF n, r, s, ak, Ra, Rb, F, yes, none, zero, missing, T
<1>7. a \in AckType /\ a.ackBlock = yes /\ a.txs = missing
  BY <1>3, <1>4, <1>5, AckTypes DEF Takes
<1> HIDE DEF a
<1>8. /\ q2 \in ReceiverType /\ q2.cells = zero /\ q2.window = none /\ q2.buffer = q.buffer
      /\ q2.currentBlockReceived = yes
  BY <1>3, <1>4 DEF Takes, ReceiverType
<1> HIDE DEF q2
<1>9. s2 \in Seq(CodewordType)
  BY <1>2, <1>3, TailProperties DEF Takes
<1>10. ak2 \in Seq(AckType) /\ AckTxs(ak2) = AckTxs(ak) \cup a.txs
  BY <1>2, <1>7, AppendAck
<1>11. rcv \in [Links -> ReceiverType] /\ cws \in [Links -> Seq(CodewordType)]
       /\ acks' \in [Links -> Seq(AckType)]
  <2> HIDE DEF s2, ak2
  <2> QED BY <1>1, <1>6, <1>8, <1>9, <1>10 DEF BlockTypes
<1>12. fresh \in Seq(Tx) /\ ToSet(fresh) = T
  <2>1. IsFiniteSet(T)
    BY <1>5, FS_Subset, BlockSyncAssumption
  <2>2. fresh \in Seq(T) /\ ToSet(fresh) = T
    BY <1>1, <2>1, OrdersProperties
  <2> QED BY <2>2, <1>5
<1>13. /\ received' \in [Servers -> SUBSET Tx] /\ \A b \in Servers : received[b] \subseteq received'[b]
       /\ received'[l[2]] = Rb \cup T
  <2> HIDE DEF rcv, cws
  <2> QED BY <1>1, <1>2, <1>6, <1>12, ForwardReceives DEF Rb
<1> DEFINE Ra2 == received'[l[1]]
           Rb2 == received'[l[2]]
<1>14. Ra \subseteq Ra2 /\ Rb \subseteq Rb2 /\ Rb2 = Rb \cup T
  BY <1>2, <1>13 DEF Ra, Rb
<1>15. n.block \subseteq Ra2 /\ ToSet(fresh) \subseteq Ra2
  BY <1>2, <1>5, <1>12, <1>14 DEF LinkFacts
<1> HIDE DEF Ra2, Rb2
<1>16. q.window \subseteq Rb /\ q.buffer \subseteq Rb /\ q.buffer \cup q.window = r.buffer \cup r.window
  BY <1>2, <1>3 DEF LinkFacts, Takes
<1>17. n.block \subseteq Rb2
  BY <1>5, <1>14, <1>16
<1>18. InPhase(n, q2, s2, ak2, Rb2) /\ Waits(n, s2, ak2)
  <2>1. /\ s # <<>> /\ ((Starts(n, r, s, ak) /\ StartsAt(n, r, s, 1)) \/ Collects(n, r, s, ak))
        /\ q2.currentBlockReceived /\ q2.cells = 0 /\ q2.window = {} /\ a.ackBlock
    BY <1>3, <1>4, <1>7, <1>8 DEF Takes
  <2> QED BY <2>1, <1>2, <1>7, <1>8, <1>17, DecodedPhase
<1> HIDE DEF s2, ak2, rcv, cws
<1>19. LinkFacts(n, q2, s2, ak2, Ra2, Rb2)
  <2>1. AckTxs(ak2) \subseteq Rb2
    BY <1>2, <1>5, <1>7, <1>10, <1>14, <1>16 DEF LinkFacts
  <2>2. q2.buffer \cup q2.window \subseteq Rb2
    BY <1>4, <1>8, <1>14, <1>16
  <2>3. n.buffer \cup n.block \subseteq Ra2 /\ n.sendWindow >= OverheadDen
    BY <1>2, <1>14 DEF LinkFacts
  <2> QED BY <1>18, <2>1, <2>2, <2>3 DEF LinkFacts
<1>20. CoveredBySender(n, Ra, Rb2, Flooded(l[1], l[2]))
  BY <1>2, <1>14 DEF CoveredBySender
<1>21. CoveredByReceiver(q2, ak2, Ra2, Rb, F)
  <2>1. n.block \subseteq Ra2
    BY <1>15
  <2> QED BY <2>1, <1>2, <1>5, <1>7, <1>8, <1>10, <1>14, <1>16 DEF CoveredByReceiver
<1>22. \A x, y : Flooded(x, y)' = Flooded(x, y)
  BY DEF Flooded
<1>23. ASSUME NEW k \in Links PROVE LinkReady(k, sender[k], rcv[k], cws[k])
  <2>1. CASE k = l
    <3>1. rcv[l] = q2 /\ cws[l] = s2 /\ acks'[l] = ak2
      BY <1>1, <1>6 DEF rcv, cws, BlockTypes
    <3>2. LinkInv(n, q2, s2, ak2, Ra2, Rb2)
      BY <1>2, <1>9, <1>19, LinkFactsProperties
    <3> QED BY <2>1, <3>1, <3>2, <1>20, <1>21, <1>22 DEF LinkReady, n, Ra, Rb, Ra2, Rb2, F
  <2>2. CASE k # l
    <3>1. rcv[k] = receiver[k] /\ cws[k] = codewords[k] /\ acks'[k] = acks[k]
      BY <1>1, <1>6, <2>2 DEF rcv, cws, BlockTypes
    <3>2. \A x, y \in Servers : Flooded(x, y) \subseteq received'[y] \cup Flooded(x, y)'
      BY <1>22
    <3>3. LinkReady(k, sender[k], receiver[k], codewords[k])
      BY <1>13, <3>1, <3>2, QuietLink
    <3> QED BY <3>1, <3>3
  <2> QED BY <2>1, <2>2
<1>24. sender \in [Links -> SenderType] /\ floods' \subseteq floods
  BY <1>6 DEF BlockTypes
<1> QED BY <1>1, <1>2, <1>11, <1>12, <1>15, <1>23, <1>24, ForwardInv DEF Ra2

(* codeword, as a whole.                                                    *)
LEMMA HandleCodewordInv ==
  ASSUME BlockInv, NEW l \in Links, HandleCodeword(l)
  PROVE  BlockInv'
<1> DEFINE cw == Head(codewords[l])
           q == OnNewBlock(receiver[l], cw)
           cws == [codewords EXCEPT ![l] = Tail(codewords[l])]
           q2 == [q EXCEPT !.currentBlockReceived = TRUE, !.window = {}, !.cells = 0]
           rcv == [receiver EXCEPT ![l] = q2]
           Decoded == /\ acks' = [acks EXCEPT ![l] = Append(acks[l], Ack(cw, TRUE, q.window \ cw.block))]
                      /\ \E fresh \in FreshOf(l[2], cw.block \ q.window) :
                           Forward(l[2], l[1], fresh, sender, rcv, cws)
           Collected == /\ acks' = [acks EXCEPT ![l] = Append(acks[l], Ack(cw, FALSE, {}))]
                        /\ receiver' = [receiver EXCEPT ![l] = [q EXCEPT !.cells = q.cells + 1]]
                        /\ codewords' = cws
                        /\ UNCHANGED <<sender, received>>
<1>1. codewords[l] # <<>> /\ ~Drops(receiver[l], cw) /\ UNCHANGED floods /\ (Decoded \/ Collected)
  BY DEF HandleCodeword
<1>2. ASSUME Collected PROVE CollectStep(l, cw, q)
  BY <1>1, <1>2 DEF CollectStep
<1>3. CASE Collected
  <2> HIDE DEF cw, q, Collected
  <2> QED BY <1>2, <1>3, CollectInv
<1>4. CASE Decoded
  <2>1. PICK fresh \in FreshOf(l[2], cw.block \ q.window) : Forward(l[2], l[1], fresh, sender, rcv, cws)
    BY <1>4
  <2>2. acks' = [acks EXCEPT ![l] = Append(acks[l], Ack(cw, TRUE, q.window \ cw.block))]
    BY <1>4
  <2>3. cw = Head(codewords[l]) /\ q = OnNewBlock(receiver[l], cw)
    OBVIOUS
  <2> HIDE DEF cw, q, Decoded, Collected
  <2> QED BY <1>1, <2>1, <2>2, <2>3, DecodeInv
<1> HIDE DEF cw, q, Decoded, Collected
<1> QED BY <1>1, <1>3, <1>4

(* ack: the sender of the link fills its window, the server forwards what   *)
(* the receiver has found.                                                  *)
LEMMA HandleAckInv ==
  ASSUME BlockInv, NEW l \in Links, HandleAck(l)
  PROVE  BlockInv'
<1> DEFINE n == sender[l]
           r == receiver[l]
           s == codewords[l]
           ak == acks[l]
           Ra == received[l[1]]
           Rb == received[l[2]]
           F == Flooded(l[2], l[1])
           a == Head(ak)
           m == OnAck(n, a)
           ak2 == Tail(ak)
           snd == [sender EXCEPT ![l] = m]
           T == a.txs \ Ra
<1>1. /\ ak # <<>> /\ acks' = [acks EXCEPT ![l] = ak2] /\ UNCHANGED floods
      /\ \E fresh \in SetToSeqs(T) : Forward(l[1], l[2], fresh, snd, receiver, codewords)
  BY DEF HandleAck, FreshOf
<1>2. PICK fresh \in SetToSeqs(T) : Forward(l[1], l[2], fresh, snd, receiver, codewords)
  BY <1>1
<1>3. /\ n \in SenderType /\ r \in ReceiverType /\ s \in Seq(CodewordType) /\ ak \in Seq(AckType)
      /\ LinkFacts(n, r, s, ak, Ra, Rb) /\ n.outbox = <<>>
      /\ CoveredBySender(n, Ra, Rb, Flooded(l[1], l[2]))
      /\ CoveredByReceiver(r, ak, Ra, Rb, F)
      /\ Ra \in SUBSET Tx /\ l[1] \in Servers /\ l[2] \in Servers
  BY LinkProperties
<1>4. BlockTypes /\ received \in [Servers -> SUBSET Tx] /\ acks \in [Links -> Seq(AckType)]
  BY DEF BlockInv, BlockTypes
<1> HIDE DEF n, r, s, ak, Ra, Rb, F
<1>5. a \in AckType /\ ak2 \in Seq(AckType) /\ ToSet(ak) = {a} \cup ToSet(ak2)
  <2>1. Range(ak) = {Head(ak)} \cup Range(Tail(ak)) /\ Head(ak) \in AckType /\ Tail(ak) \in Seq(AckType)
    BY <1>1, <1>3, HeadTailRange
  <2> QED BY <2>1 DEF Range, ToSet
<1>6. AckTxs(ak) = a.txs \cup AckTxs(ak2)
  BY <1>5 DEF AckTxs
<1>7. T \in SUBSET Tx /\ a.txs \subseteq Ra \cup T /\ T \subseteq a.txs
  BY <1>5 DEF AckType
<1>8. PICK o : Acknowledged(n, a, o) /\ m = TryFillSendWindow(o)
  BY <1>3, <1>5, OnAckProperties DEF LinkFacts
<1>9. InPhase(o, r, s, ak2, Rb)
  BY <1>1, <1>3, <1>8, AcknowledgedPhase DEF LinkFacts
<1> HIDE DEF a, m, ak2, T
<1>10. /\ o \in SenderType /\ o.sendWindow >= OverheadDen
       /\ o.buffer = n.buffer /\ o.block = n.block /\ o.outbox = n.outbox
  BY <1>8 DEF Acknowledged
<1>11. Sending(o, r, s, ak2, Ra, Rb)
  <2>1. s \o o.outbox = s
    BY <1>3, <1>10, ConcatEmptySeq
  <2> QED BY <2>1, <1>3, <1>9, <1>10 DEF Sending, LinkFacts
<1>12. /\ Sending(m, r, s, ak2, Ra, Rb) /\ Waits(m, s \o m.outbox, ak2) /\ Keeps(o, m, {}, Rb)
  BY <1>3, <1>5, <1>8, <1>11, TryFillPhase DEF ak2
<1>13. LinkInv(m, r, s, ak2, Ra, Rb)
  BY <1>3, <1>6, <1>12 DEF LinkInv, LinkFacts
<1>14. m \in SenderType
  BY <1>12 DEF Sending
<1>15. fresh \in Seq(Tx) /\ ToSet(fresh) = T
  <2>1. IsFiniteSet(T)
    BY <1>7, FS_Subset, BlockSyncAssumption
  <2>2. fresh \in Seq(T) /\ ToSet(fresh) = T
    BY <1>2, <2>1, OrdersProperties
  <2> QED BY <2>2, <1>7
<1>16. /\ received' \in [Servers -> SUBSET Tx] /\ \A b \in Servers : received[b] \subseteq received'[b]
       /\ received'[l[1]] = Ra \cup T
  <2> HIDE DEF snd
  <2> QED BY <1>2, <1>3, <1>4, <1>15, ForwardReceives DEF Ra
<1> DEFINE Ra2 == received'[l[1]]
           Rb2 == received'[l[2]]
<1>17. Ra \subseteq Ra2 /\ Rb \subseteq Rb2 /\ Ra2 = Ra \cup T
  BY <1>3, <1>16 DEF Ra, Rb
<1>18. ToSet(fresh) \subseteq Rb2
  BY <1>3, <1>6, <1>7, <1>15, <1>17 DEF LinkFacts
<1> HIDE DEF Ra2, Rb2
<1>19. LinkInv(m, r, s, ak2, Ra2, Rb2)
  BY <1>13, <1>17, LinkMonotone
<1>20. CoveredBySender(m, Ra, Rb2, Flooded(l[1], l[2]))
  BY <1>3, <1>10, <1>12, <1>17 DEF CoveredBySender, Keeps
<1>21. CoveredByReceiver(r, ak2, Ra2, Rb, F)
  BY <1>3, <1>6, <1>7, <1>17 DEF CoveredByReceiver
<1>22. \A x, y : Flooded(x, y)' = Flooded(x, y)
  BY <1>1 DEF Flooded
<1>23. ASSUME NEW k \in Links PROVE LinkReady(k, snd[k], receiver[k], codewords[k])
  <2>1. CASE k = l
    <3>1. snd[l] = m /\ acks'[l] = ak2
      BY <1>1, <1>4 DEF BlockTypes
    <3> QED BY <2>1, <3>1, <1>19, <1>20, <1>21, <1>22 DEF LinkReady, r, s, Ra, Rb, Ra2, Rb2, F
  <2>2. CASE k # l
    <3>1. snd[k] = sender[k] /\ acks'[k] = acks[k]
      BY <1>1, <1>4, <2>2 DEF BlockTypes
    <3>2. \A x, y \in Servers : Flooded(x, y) \subseteq received'[y] \cup Flooded(x, y)'
      BY <1>22
    <3>3. LinkReady(k, sender[k], receiver[k], codewords[k])
      BY <1>16, <3>1, <3>2, QuietLink
    <3> QED BY <3>1, <3>3
  <2> QED BY <2>1, <2>2
<1>24. /\ snd \in [Links -> SenderType] /\ floods' \subseteq floods /\ acks' \in [Links -> Seq(AckType)]
       /\ receiver \in [Links -> ReceiverType] /\ codewords \in [Links -> Seq(CodewordType)]
  <2>1. ak2 \in Seq(AckType)
    BY <1>5 DEF ak2
  <2> QED BY <2>1, <1>1, <1>4, <1>14 DEF BlockTypes
<1> HIDE DEF snd
<1> QED BY <1>2, <1>3, <1>15, <1>18, <1>23, <1>24, ForwardInv DEF Rb2

(* Every step keeps the invariant.                                          *)
LEMMA NextInv == BlockInv /\ [Next]_vars => BlockInv'
<1> SUFFICES ASSUME BlockInv, [Next]_vars PROVE BlockInv'
  OBVIOUS
<1>1. ASSUME NEW s \in Servers, NEW t \in Tx, Arrival(s, t) PROVE BlockInv'
  BY <1>1, ArrivalInv
<1>2. ASSUME NEW f \in floods, HandleFlood(f[1], f[2], f[3]) PROVE BlockInv'
  BY <1>2, HandleFloodInv
<1>3. ASSUME NEW l \in Links, DropCodeword(l) PROVE BlockInv'
  BY <1>3, DropCodewordInv
<1>4. ASSUME NEW l \in Links, HandleCodeword(l) PROVE BlockInv'
  BY <1>4, HandleCodewordInv
<1>5. ASSUME NEW l \in Links, HandleAck(l) PROVE BlockInv'
  BY <1>5, HandleAckInv
<1>6. CASE UNCHANGED vars
  BY <1>6 DEF vars, BlockInv, BlockTypes, FloodsInv, Flooded
<1> QED BY <1>1, <1>2, <1>3, <1>4, <1>5, <1>6 DEF Next

(* BlockInv is inductive.                                                   *)
LEMMA BlockInvariant == Spec => []BlockInv
BY InitInv, NextInv, PTL DEF Spec

-----------------------------------------------------------------------------
(* No transaction falls between two blocks of the coding protocol.          *)
THEOREM NothingIsLost == Spec => []NothingLost
<1>1. BlockInv => NothingLost
  <2> SUFFICES ASSUME BlockInv, NEW l \in Links
               PROVE  /\ received[l[1]] \subseteq received[l[2]] \cup Flooded(l[1], l[2])
                                            \cup sender[l].buffer \cup sender[l].block
                      /\ received[l[2]] \subseteq received[l[1]] \cup Flooded(l[2], l[1])
                                            \cup receiver[l].buffer \cup receiver[l].window
                                            \cup UNION {ack.txs : ack \in ToSet(acks[l])}
    BY DEF NothingLost, Flooded
  <2>1. /\ CoveredBySender(sender[l], received[l[1]], received[l[2]], Flooded(l[1], l[2]))
        /\ CoveredByReceiver(receiver[l], acks[l], received[l[1]], received[l[2]], Flooded(l[2], l[1]))
    BY LinkProperties
  <2> QED BY <2>1 DEF CoveredBySender, CoveredByReceiver, AckTxs
<1> QED BY <1>1, BlockInvariant, PTL

(* The decoder takes the coded symbols of the current block in their order, *)
(* the first one with an empty window.                                      *)
THEOREM DecoderStaysAligned == Spec => []DecoderAligned
<1>1. BlockInv => DecoderAligned
  <2> SUFFICES ASSUME BlockInv, NEW l \in Links, codewords[l] # <<>>,
                      ~Drops(receiver[l], Head(codewords[l]))
               PROVE  /\ Head(codewords[l]).number = receiver[l].cells
                      /\ Head(codewords[l]).newBlock <=> receiver[l].cells = 0
                      /\ receiver[l].cells = 0 => receiver[l].window = {}
                      /\ Head(codewords[l]).block = sender[l].block
    BY DEF DecoderAligned
  <2> DEFINE n == sender[l]
             r == receiver[l]
             s == codewords[l]
             ak == acks[l]
             cw == Head(s)
             c == r.cells
  <2>1. Takes(n, r, s, ak, cw, OnNewBlock(r, cw))
    BY TakesProperties
  <2>2. s \in Seq(CodewordType) /\ r \in ReceiverType
    BY LinkProperties
  <2> HIDE DEF n, r, s, ak, cw
  <2>3. cw = s[1] /\ cw.block = n.block /\ s # <<>>
    BY <2>1 DEF Takes
  <2>4. 1 \in 1..Len(s) /\ c \in Nat
    <3>1. Len(s) \in Nat /\ Len(s) >= 1
      BY <2>2, <2>3, TailProperties
    <3> QED BY <3>1, <2>2 DEF ReceiverType
  <2>5. ASSUME Starts(n, r, s, ak), StartsAt(n, r, s, 1)
        PROVE  cw.number = c /\ cw.newBlock /\ c = 0 /\ r.window = {}
    <3>1. s[1].number = 1 - 1 /\ s[1].newBlock
      BY <2>4, <2>5 DEF StartsAt
    <3> QED BY <3>1, <2>3, <2>5 DEF Starts
  <2>6. ASSUME Collects(n, r, s, ak)
        PROVE  cw.number = c /\ ~cw.newBlock /\ c # 0
    <3>1. s[1].number = c + 1 - 1 /\ ~s[1].newBlock /\ c >= 1
      BY <2>4, <2>6 DEF Collects
    <3> QED BY <3>1, <2>3, <2>4
  <2>7. /\ cw.number = c /\ (cw.newBlock <=> c = 0) /\ (c = 0 => r.window = {})
    BY <2>1, <2>5, <2>6 DEF Takes
  <2> QED BY <2>3, <2>7 DEF n, r, s, cw
<1> QED BY <1>1, BlockInvariant, PTL

(* Where the sender's current block begins.                                 *)
LEMMA CurrentProperties ==
  ASSUME NEW l \in Links, NEW s, s = codewords[l], s \in Seq(CodewordType), NEW k \in Nat,
         k \in 1..Len(s) + 1, k = 1 \/ (k \in 1..Len(s) /\ s[k].newBlock),
         \A i \in 1..Len(s) : s[i].newBlock => i = k
  PROVE  Len(CurrentCodewords(l)) = Len(s) - k + 1
<1> DEFINE U == {1} \cup {i \in DOMAIN s : s[i].newBlock}
           x == Len(s)
           cut == SubSeq(s, k, x)
<1>1. x \in Nat /\ DOMAIN s = 1..x /\ \A i \in k..x : s[i] \in CodewordType
  OBVIOUS
<1>2. Max(U) = k
  <2>1. U = {1} \cup {k}
    BY <1>1
  <2> DEFINE one == 1
             m == Max({one, k})
  <2>2. one \in Int /\ k \in Int /\ one = 1
    OBVIOUS
  <2>3. U = {one, k} /\ k >= 1
    BY <2>1
  <2> HIDE DEF one
  <2>4. m \in {one, k} /\ m >= k
    BY <2>2, MaxOfTwo
  <2>5. m = k
    <3> HIDE DEF m
    <3> QED BY <2>2, <2>3, <2>4
  <2> QED BY <2>3, <2>5
<1>3. CurrentCodewords(l) = cut
  BY <1>2 DEF CurrentCodewords
<1>4. Len(cut) = IF k <= x THEN x - k + 1 ELSE 0
  <2> HIDE DEF x
  <2>1. k \in Int /\ x \in Int
    BY <1>1
  <2> QED BY <1>1, <2>1, SubSeqProperties
<1>5. k <= x \/ k = x + 1
  BY <1>1
<1> HIDE DEF cut
<1>6. Len(cut) = x - k + 1
  BY <1>1, <1>4, <1>5
<1> QED BY <1>3, <1>6

(* Acknowledgements count for the block that they acknowledge, and the      *)
(* sender never waits for nothing.                                          *)
THEOREM InFlightIsExact == Spec => []InFlightExact
<1>1. BlockInv => InFlightExact
  <2> SUFFICES ASSUME BlockInv, NEW l \in Links, sender[l].encodingCurrentBlock
               PROVE  /\ ~BlockDecoded(l) => sender[l].inFlight = Len(CurrentCodewords(l)) + Len(acks[l])
                      /\ codewords[l] \o acks[l] # <<>>
    BY DEF InFlightExact
  <2> DEFINE n == sender[l]
             r == receiver[l]
             s == codewords[l]
             ak == acks[l]
             Rb == received[l[2]]
             x == Len(s)
             y == Len(ak)
             z == Len(CurrentCodewords(l))
  <2>1. /\ n \in SenderType /\ s \in Seq(CodewordType) /\ ak \in Seq(AckType)
        /\ InPhase(n, r, s, ak, Rb) /\ Waits(n, s, ak)
    BY LinkProperties DEF LinkFacts
  <2>2. x \in Nat /\ y \in Nat
    BY <2>1, LenProperties
  <2>3. s = codewords[l]
    OBVIOUS
  <2>4. ASSUME Concludes(n, r, s, ak, Rb) PROVE BlockDecoded(l)
    <3>1. y \in DOMAIN ak /\ ak[y].ackBlock
      <4>1. y # 0
        BY <2>1, <2>4, EmptySeq DEF Concludes
      <4>2. y \in DOMAIN ak
        BY <2>1, <2>2, <4>1
      <4> QED BY <2>4, <4>2 DEF Concludes
    <3> QED BY <3>1 DEF BlockDecoded
  <2> HIDE DEF n, r, s, ak, Rb
  <2>5. ASSUME Starts(n, r, s, ak) PROVE n.inFlight = z + y
    <3>1. PICK k \in 1..Len(s) : StartsAt(n, r, s, k)
      BY <2>5 DEF Starts
    <3>2. k \in Nat /\ k \in 1..Len(s) + 1
      BY <2>2
    <3>3. s[k].newBlock /\ \A i \in 1..Len(s) : s[i].newBlock => i = k
      <4>1. k \in k..Len(s)
        BY <2>2
      <4>2. \A i \in 1..Len(s) : i \in 1..k - 1 \/ i \in k..Len(s)
        BY <2>2
      <4> QED BY <3>1, <4>1, <4>2 DEF StartsAt
    <3>4. z = x - k + 1
      BY <2>1, <2>3, <3>2, <3>3, CurrentProperties
    <3>5. n.inFlight = x - k + 1
      BY <3>1 DEF StartsAt
    <3>6. y = 0
      BY <2>5 DEF Starts
    <3> HIDE DEF x, y, z
    <3> QED BY <2>2, <3>2, <3>4, <3>5, <3>6
  <2>6. ASSUME Collects(n, r, s, ak) PROVE n.inFlight = z + y
    <3> DEFINE one == 1
    <3>1. one \in Nat /\ one = 1 /\ one \in 1..Len(s) + 1
      BY <2>2
    <3>2. \A i \in 1..Len(s) : s[i].newBlock => i = one
      BY <2>6 DEF Collects
    <3> HIDE DEF one
    <3>3. z = x - one + 1
      BY <2>1, <2>3, <3>1, <3>2, CurrentProperties
    <3>4. n.inFlight = x + y
      BY <2>6 DEF Collects
    <3> HIDE DEF x, y, z
    <3> QED BY <2>2, <3>1, <3>3, <3>4
  <2>7. n.encodingCurrentBlock
    BY DEF n
  <2>8. ~BlockDecoded(l) => n.inFlight = z + y
    BY <2>1, <2>4, <2>5, <2>6, <2>7 DEF InPhase, Between, n, r, s, ak, Rb
  <2>9. s \o ak # <<>>
    <3>1. s # <<>> \/ ak # <<>>
      BY <2>1, <2>7 DEF Waits
    <3> DEFINE both == s \o ak
    <3>2. Len(both) = x + y
      BY <2>1
    <3>3. x # 0 \/ y # 0
      BY <2>1, <3>1, EmptySeq
    <3> HIDE DEF both, x, y
    <3>4. Len(both) # 0
      BY <2>2, <3>2, <3>3
    <3>5. both # <<>>
      BY <3>4
    <3> QED BY <3>5 DEF both
  <2> QED BY <2>8, <2>9 DEF n, s, ak
<1> QED BY <1>1, BlockInvariant, PTL
=============================================================================
