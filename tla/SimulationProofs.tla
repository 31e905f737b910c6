-------------------------- MODULE SimulationProofs --------------------------
(***************************************************************************)
(* The simulator delivers in time and keeps links in order, whatever the   *)
(* modules, the delays and the handlers; and the servers of the pull       *)
(* protocol exchange each transaction once, over any network.              *)
(***************************************************************************)
EXTENDS PullSync, SequenceLemmas

QueueMessage == [arrival : Nat, seq : Nat, from : Modules, to : Modules, payload : Payload]

QueueTypeOK ==
  /\ time \in Nat /\ seq \in Nat
  /\ mq \in SUBSET QueueMessage
  /\ cur \in Nat /\ running \in BOOLEAN

(* No message arrives in the past; one on a link was sent by now, with the  *)
(* delay of the link, and before all that will be scheduled.                *)
Pending ==
  \A m \in mq :
    /\ time <= m.arrival
    /\ m.seq < seq
    /\ m.from # m.to => m.arrival <= time + Delay[m.from][m.to]

(* Finitely many messages, with different numbers.                          *)
IsNumbered(msgs) ==
  /\ IsFiniteSet(msgs)
  /\ \A m \in msgs : m.seq \in Nat
  /\ \A m, n \in msgs : m.seq = n.seq => m = n

QueueInv == QueueTypeOK /\ Pending /\ IsNumbered(mq) /\ InOrder /\ EventsInTime

(* What is scheduled at time t is a message for later.                      *)
LEMMA ScheduledMessages ==
  ASSUME QueueTypeOK, NEW s \in Modules, NEW outs \in Seq(OutgoingMessage(s)), NEW t \in Nat,
         NEW m \in Scheduled(s, outs, t)
  PROVE  /\ m \in QueueMessage
         /\ m.from = s /\ t <= m.arrival
         /\ seq <= m.seq /\ m.seq < seq + Len(outs)
         /\ m.from # m.to => m.arrival = t + Delay[m.from][m.to]
         /\ \A n \in Scheduled(s, outs, t) : m.seq = n.seq => m = n
<1>1. PICK i \in DOMAIN outs :
        m = [arrival |-> t + outs[i].delay, seq |-> seq + i - 1,
             from |-> s, to |-> outs[i].to, payload |-> outs[i].payload]
  BY DEF Scheduled
<1>2. outs[i] \in OutgoingMessage(s) /\ i \in 1..Len(outs) /\ Len(outs) \in Nat
  OBVIOUS
<1>3. /\ outs[i].to \in Modules /\ outs[i].payload \in Payload /\ outs[i].delay \in Nat
      /\ outs[i].to # s => outs[i].delay = Delay[s][outs[i].to]
  BY <1>2 DEF OutgoingMessage
<1>4. seq + i - 1 \in Nat /\ seq <= seq + i - 1 /\ seq + i - 1 < seq + Len(outs)
  BY <1>2 DEF QueueTypeOK
<1>5. t + outs[i].delay \in Nat /\ t <= t + outs[i].delay
  BY <1>3
<1>6. ASSUME NEW n \in Scheduled(s, outs, t), m.seq = n.seq PROVE m = n
  <2>1. PICK j \in DOMAIN outs :
          n = [arrival |-> t + outs[j].delay, seq |-> seq + j - 1,
               from |-> s, to |-> outs[j].to, payload |-> outs[j].payload]
    BY DEF Scheduled
  <2>2. i \in Nat /\ j \in Nat /\ seq + i - 1 = seq + j - 1
    BY <2>1, <1>1, <1>2, <1>6
  <2>3. i = j
    BY <2>2 DEF QueueTypeOK
  <2> QED BY <2>1, <2>3, <1>1
<1> QED BY <1>1, <1>3, <1>4, <1>5, <1>6 DEF QueueMessage

(* A handler returns finitely many messages.                                *)
LEMMA ScheduledFinite ==
  ASSUME NEW s, NEW S, NEW outs \in Seq(S), NEW t
  PROVE  IsFiniteSet(Scheduled(s, outs, t))
<1> DEFINE f == [i \in 1..Len(outs) |->
                  [arrival |-> t + outs[i].delay, seq |-> seq + i - 1,
                   from |-> s, to |-> outs[i].to, payload |-> outs[i].payload]]
<1>1. DOMAIN outs = 1..Len(outs) /\ Len(outs) \in Nat
  OBVIOUS
<1>2. Scheduled(s, outs, t) = {f[i] : i \in 1..Len(outs)}
  BY <1>1 DEF Scheduled
<1>3. IsFiniteSet(1..Len(outs))
  BY <1>1, FS_Interval
<1> HIDE DEF f
<1>4. IsFiniteSet({f[i] : i \in 1..Len(outs)})
  BY <1>3, FiniteImage
<1> QED BY <1>2, <1>4

(* A step that keeps time, or moves it to the arrival of the next message,  *)
(* and schedules messages then.                                             *)
LEMMA ScheduleStep ==
  ASSUME QueueInv, NEW s \in Modules, NEW outs \in Seq(OutgoingMessage(s)),
         NEW t \in Nat, time <= t, NEW rest \in SUBSET mq,
         \A m \in rest : t <= m.arrival,
         time' = t,
         mq' = rest \cup Scheduled(s, outs, t),
         seq' = seq + Len(outs)
  PROVE  /\ time' \in Nat /\ seq' \in Nat /\ mq' \in SUBSET QueueMessage
         /\ Pending' /\ IsNumbered(mq') /\ InOrder'
         /\ \A m \in mq' : time' <= m.arrival
<1> DEFINE new == Scheduled(s, outs, t)
<1>1. \A m \in new :
        /\ m \in QueueMessage
        /\ m.from = s /\ t <= m.arrival
        /\ seq <= m.seq /\ m.seq < seq + Len(outs)
        /\ m.from # m.to => m.arrival = t + Delay[m.from][m.to]
        /\ \A n \in new : m.seq = n.seq => m = n
  BY ScheduledMessages DEF QueueInv
<1>2. seq \in Nat /\ Len(outs) \in Nat /\ time \in Nat /\ mq \subseteq QueueMessage
  BY DEF QueueInv, QueueTypeOK
<1>3. \A p, q \in Modules : Delay[p][q] \in Nat
  BY EventQueueAssumption
<1>4. \A m \in rest :
        /\ m \in QueueMessage /\ t <= m.arrival /\ m.seq < seq
        /\ m.from # m.to => m.arrival <= t + Delay[m.from][m.to]
  <2> SUFFICES ASSUME NEW m \in rest
               PROVE  /\ m \in QueueMessage /\ t <= m.arrival /\ m.seq < seq
                      /\ m.from # m.to => m.arrival <= t + Delay[m.from][m.to]
    OBVIOUS
  <2>1. /\ m \in QueueMessage /\ m.seq < seq
        /\ m.from # m.to => m.arrival <= time + Delay[m.from][m.to]
    BY <1>2 DEF QueueInv, Pending
  <2>2. m.arrival \in Nat /\ Delay[m.from][m.to] \in Nat
    BY <2>1, <1>3 DEF QueueMessage
  <2> QED BY <2>1, <2>2, <1>2
<1>5. Pending'
  <2> SUFFICES ASSUME NEW m \in rest \cup new
               PROVE  /\ t <= m.arrival
                      /\ m.seq < seq + Len(outs)
                      /\ m.from # m.to => m.arrival <= t + Delay[m.from][m.to]
    BY DEF Pending
  <2>1. CASE m \in rest
    <3>1. m.seq \in Nat
      BY <2>1, <1>4 DEF QueueMessage
    <3> QED BY <2>1, <3>1, <1>4, <1>2
  <2>2. CASE m \in new
    <3>1. m.arrival \in Nat
      BY <2>2, <1>1 DEF QueueMessage
    <3> QED BY <2>2, <3>1, <1>1
  <2> QED BY <2>1, <2>2
<1>6. InOrder'
  <2> SUFFICES ASSUME NEW m \in rest \cup new, NEW n \in rest \cup new,
                      m.from = n.from, m.to = n.to, m.from # m.to, m.seq < n.seq
               PROVE  Less(m, n)
    BY DEF InOrder, Less
  <2>0. /\ m.arrival \in Nat /\ n.arrival \in Nat /\ m.seq \in Nat /\ n.seq \in Nat
        /\ Delay[m.from][m.to] \in Nat
    BY <1>1, <1>3, <1>4 DEF QueueMessage
  <2>1. CASE m \in rest /\ n \in rest
    BY <2>1 DEF QueueInv, InOrder
  <2>2. CASE n \in new
    <3>1. n.arrival = t + Delay[m.from][m.to]
      BY <2>2, <1>1
    <3>2. m.arrival <= t + Delay[m.from][m.to]
      BY <1>1, <1>4, <2>0
    <3> QED BY <3>1, <3>2, <2>0 DEF Less
  <2>3. CASE m \in new /\ n \in rest
    BY <2>3, <2>0, <1>1, <1>2, <1>4
  <2> QED BY <2>1, <2>2, <2>3
<1>7. \A m \in mq' : time' <= m.arrival
  BY <1>5 DEF Pending
<1>8. IsNumbered(mq')
  <2>1. IsFiniteSet(rest) /\ IsFiniteSet(new)
    BY ScheduledFinite, FS_Subset DEF QueueInv, IsNumbered
  <2>2. IsFiniteSet(rest \cup new) /\ \A m \in rest \cup new : m.seq \in Nat
    BY <2>1, <1>1, <1>4, FS_Union DEF QueueMessage
  <2>3. ASSUME NEW m \in rest, NEW n \in new PROVE m.seq # n.seq
    <3>1. m.seq < seq /\ seq <= n.seq /\ m.seq \in Nat /\ n.seq \in Nat
      BY <1>1, <1>4, <2>2
    <3> QED BY <3>1, <1>2
  <2>4. \A m, n \in rest : m.seq = n.seq => m = n
    BY DEF QueueInv, IsNumbered
  <2> QED BY <2>2, <2>3, <2>4, <1>1 DEF IsNumbered
<1> HIDE DEF new
<1> QED BY <1>1, <1>2, <1>4, <1>5, <1>6, <1>7, <1>8 DEF new

(* deliverNextMessage, for the next message m.                              *)
LEMMA DeliverStep ==
  ASSUME QueueInv, NEW m \in mq, QueueStep(m)
  PROVE  QueueInv'
<1>1. PICK outs \in Seq(OutgoingMessage(m.to)) : Deliver(m, outs)
  BY DEF QueueStep
<1>2. m \in QueueMessage /\ mq \subseteq QueueMessage /\ time <= m.arrival
  BY DEF QueueInv, QueueTypeOK, Pending
<1>3. m.to \in Modules /\ m.arrival \in Nat
  BY <1>2 DEF QueueMessage
<1>4. \A n \in mq \ {m} : m.arrival <= n.arrival
  <2> SUFFICES ASSUME NEW n \in mq \ {m} PROVE m.arrival <= n.arrival
    OBVIOUS
  <2>1. Less(m, n)
    BY <1>1 DEF Deliver, IsNext
  <2>2. n.arrival \in Nat
    BY <1>2 DEF QueueMessage
  <2> QED BY <2>1, <2>2, <1>3 DEF Less
<1>5. /\ time' \in Nat /\ seq' \in Nat /\ mq' \in SUBSET QueueMessage
      /\ Pending' /\ IsNumbered(mq') /\ InOrder'
      /\ \A n \in mq' : time' <= n.arrival
  BY <1>1, <1>2, <1>3, <1>4, ScheduleStep DEF Deliver
<1>6. cur' = cur /\ running' = running /\ running
  BY DEF QueueStep, driver, Delivers
<1> QED BY <1>5, <1>6 DEF QueueInv, QueueTypeOK, EventsInTime

(* QueueInv is inductive.                                                   *)
LEMMA QueueNextInv ==
  ASSUME QueueInv, [QueueNext]_<<simulator, driver>>
  PROVE  QueueInv'
<1>1. ASSUME NEW s \in Modules, NEW delay \in Nat, NEW payload \in Payload,
             Prepare(s, delay, payload)
      PROVE  QueueInv'
  <2> DEFINE outs == <<[payload |-> payload, to |-> s, delay |-> delay]>>
  <2>1. outs \in Seq(OutgoingMessage(s)) /\ Len(outs) = 1
    BY DEF OutgoingMessage
  <2>2. /\ time \in Nat /\ time <= time /\ mq \in SUBSET mq
        /\ \A m \in mq : time <= m.arrival
    BY <1>1 DEF QueueInv, QueueTypeOK, Pending, Prepare
  <2>3. time' = time /\ mq' = mq \cup Scheduled(s, outs, time) /\ seq' = seq + Len(outs)
    BY <1>1, <2>1, <2>2 DEF Prepare
  <2> HIDE DEF outs
  <2>4. /\ time' \in Nat /\ seq' \in Nat /\ mq' \in SUBSET QueueMessage
        /\ Pending' /\ IsNumbered(mq') /\ InOrder'
        /\ \A m \in mq' : time' <= m.arrival
    BY <2>1, <2>2, <2>3, ScheduleStep
  <2>5. cur' = cur /\ running' = running /\ running
    BY <1>1 DEF Prepare, driver
  <2> QED BY <2>4, <2>5 DEF QueueInv, QueueTypeOK, EventsInTime
<1>2. ASSUME NEW m \in mq, QueueStep(m)
      PROVE  QueueInv'
  BY <1>2, DeliverStep
<1>3. CASE Return
  <2>1. \A m \in mq : cur < m.arrival
    <3> SUFFICES ASSUME NEW m \in mq PROVE cur < m.arrival
      OBVIOUS
    <3>1. time > cur /\ time <= m.arrival
      BY <1>3 DEF Return, QueueInv, Pending
    <3>2. time \in Nat /\ cur \in Nat /\ m.arrival \in Nat
      BY DEF QueueInv, QueueTypeOK, QueueMessage
    <3> QED BY <3>1, <3>2
  <2> QED BY <1>3, <2>1
          DEF Return, simulator, QueueInv, QueueTypeOK, Pending, IsNumbered, InOrder, Less, EventsInTime
<1>4. CASE RunUntil
  <2>1. cur' \in Nat
    BY <1>4, EventQueueAssumption DEF RunUntil, QueueInv, QueueTypeOK
  <2> QED BY <1>4, <2>1
          DEF RunUntil, simulator, QueueInv, QueueTypeOK, Pending, IsNumbered, InOrder, Less, EventsInTime
<1>5. CASE UNCHANGED <<simulator, driver>>
  BY <1>5 DEF simulator, driver, QueueInv, QueueTypeOK, Pending, IsNumbered, InOrder, Less, EventsInTime
<1> QED BY <1>1, <1>2, <1>3, <1>4, <1>5 DEF QueueNext

LEMMA QueueInvariant == QueueSpec => []QueueInv
<1>1. QueueInit => QueueInv
  BY FS_EmptySet DEF QueueInit, QueueInv, QueueTypeOK, Pending, IsNumbered, InOrder, EventsInTime
<1>2. QueueInv /\ [QueueNext]_<<simulator, driver>> => QueueInv'
  BY QueueNextInv
<1> QED BY <1>1, <1>2, PTL DEF QueueSpec

-----------------------------------------------------------------------------
(* deliverNextMessage never meets a message of the past, and RunUntil       *)
(* returns only when nothing is left that was due.                          *)
THEOREM DeliversInTime == QueueSpec => []EventsInTime
<1>1. QueueInv => EventsInTime
  BY DEF QueueInv
<1> QED BY <1>1, QueueInvariant, PTL

(* Messages of one link are delivered in the order in which they were sent. *)
THEOREM LinksInOrder == QueueSpec => []InOrder
<1>1. QueueInv => InOrder
  BY DEF QueueInv
<1> QED BY <1>1, QueueInvariant, PTL

-----------------------------------------------------------------------------
(* The places that the messages of a link take.                             *)
UpTo(L, m) == {n \in L : n.seq <= m.seq}

(* Each message has its place, and each place a message: no two messages    *)
(* have as many before them.                                                *)
LEMMA PlaceProperties ==
  ASSUME NEW L, IsNumbered(L)
  PROVE  /\ Cardinality(L) \in Nat
         /\ \A m \in L : /\ Cardinality(UpTo(L, m)) \in 1..Cardinality(L)
                         /\ InPlace(L, Cardinality(UpTo(L, m))) = m
         /\ \A i \in 1..Cardinality(L) : /\ InPlace(L, i) \in L
                                         /\ Cardinality(UpTo(L, InPlace(L, i))) = i
<1> DEFINE place == [m \in L |-> Cardinality(UpTo(L, m))]
           c == Cardinality(L)
<1>1. IsFiniteSet(L) /\ c \in Nat
  BY FS_CardinalityType DEF IsNumbered
<1>2. ASSUME NEW m \in L
      PROVE  UpTo(L, m) \in SUBSET L /\ IsFiniteSet(UpTo(L, m)) /\ Cardinality(UpTo(L, m)) \in 1..c
  <2>1. UpTo(L, m) \in SUBSET L /\ m \in UpTo(L, m)
    BY DEF UpTo, IsNumbered
  <2>2. IsFiniteSet(UpTo(L, m)) /\ Cardinality(UpTo(L, m)) <= c
    BY <2>1, <1>1, FS_Subset
  <2>3. Cardinality(UpTo(L, m)) \in Nat /\ Cardinality(UpTo(L, m)) # 0
    BY <2>1, <2>2, FS_CardinalityType, FS_EmptySet
  <2> QED BY <1>1, <2>1, <2>2, <2>3
<1>3. ASSUME NEW m \in L, NEW n \in L, m.seq < n.seq
      PROVE  Cardinality(UpTo(L, m)) < Cardinality(UpTo(L, n))
  <2>1. m.seq \in Nat /\ n.seq \in Nat /\ \A x \in L : x.seq \in Nat
    BY DEF IsNumbered
  <2>2. UpTo(L, m) \in SUBSET UpTo(L, n) /\ n \in UpTo(L, n) /\ n \notin UpTo(L, m)
    BY <1>3, <2>1 DEF UpTo
  <2>3. UpTo(L, m) # UpTo(L, n)
    BY <2>2
  <2> QED BY <2>2, <2>3, <1>2, FS_Subset
<1>4. ASSUME NEW m \in L, NEW n \in L, place[m] = place[n] PROVE m = n
  <2>1. m.seq \in Nat /\ n.seq \in Nat /\ (m.seq = n.seq => m = n)
    BY DEF IsNumbered
  <2>2. Cardinality(UpTo(L, m)) = Cardinality(UpTo(L, n)) /\ Cardinality(UpTo(L, m)) \in Nat
    BY <1>2, <1>4
  <2>3. ~(m.seq < n.seq) /\ ~(n.seq < m.seq)
    BY <1>3, <2>2
  <2> QED BY <2>1, <2>3
<1>5. place \in Injection(L, 1..c)
  BY <1>2, <1>4 DEF Injection, IsInjective
<1>6. \A i \in 1..c : \E m \in L : Cardinality(UpTo(L, m)) = i
  <2>1. IsFiniteSet(1..c) /\ Cardinality(1..c) = c
    BY <1>1, FS_Interval
  <2> HIDE DEF place
  <2>2. place \in Surjection(L, 1..c)
    BY <1>1, <1>5, <2>1, FS_Injection
  <2> QED BY <2>2 DEF Surjection, place
<1>7. ASSUME NEW i \in 1..c
      PROVE  InPlace(L, i) \in L /\ Cardinality(UpTo(L, InPlace(L, i))) = i
  BY <1>6 DEF InPlace, UpTo
<1>8. ASSUME NEW m \in L PROVE InPlace(L, Cardinality(UpTo(L, m))) = m
  BY <1>2, <1>4, <1>7
<1> QED BY <1>1, <1>2, <1>7, <1>8

(* Messages that are sent later take the places behind.                     *)
LEMMA PlacesKept ==
  ASSUME NEW L, NEW M, IsNumbered(L \cup M), \A m \in L, n \in M : m.seq < n.seq
  PROVE  /\ Cardinality(L) <= Cardinality(L \cup M)
         /\ \A i \in 1..Cardinality(L) : InPlace(L \cup M, i) = InPlace(L, i)
<1>1. IsNumbered(L)
  <2>1. L \in SUBSET (L \cup M)
    OBVIOUS
  <2> QED BY <2>1, FS_Subset DEF IsNumbered
<1>2. Cardinality(L) \in Nat /\ Cardinality(L \cup M) \in Nat
  BY <1>1, PlaceProperties
<1>3. Cardinality(L) <= Cardinality(L \cup M)
  <2>1. L \in SUBSET (L \cup M)
    OBVIOUS
  <2> QED BY <2>1, FS_Subset DEF IsNumbered
<1>4. ASSUME NEW i \in 1..Cardinality(L) PROVE InPlace(L \cup M, i) = InPlace(L, i)
  <2> DEFINE m == InPlace(L, i)
  <2>1. m \in L /\ Cardinality(UpTo(L, m)) = i
    BY <1>1, PlaceProperties
  <2> HIDE DEF m
  <2>2. UpTo(L \cup M, m) = UpTo(L, m)
    <3>1. \A n \in M : ~(n.seq <= m.seq)
      BY <2>1 DEF IsNumbered
    <3> QED BY <3>1 DEF UpTo
  <2>3. m \in L \cup M
    BY <2>1
  <2>4. InPlace(L \cup M, Cardinality(UpTo(L \cup M, m))) = m
    BY <2>3, PlaceProperties
  <2> QED BY <2>1, <2>2, <2>4 DEF m
<1> QED BY <1>3, <1>4

(* When the first message is delivered, all others move up by one place.    *)
LEMMA PlacesMoveUp ==
  ASSUME NEW L, IsNumbered(L), NEW m \in L, \A n \in L \ {m} : m.seq < n.seq
  PROVE  /\ Cardinality(L) = Cardinality(L \ {m}) + 1
         /\ \A i \in 1..Cardinality(L) - 1 : InPlace(L \ {m}, i) = InPlace(L, i + 1)
<1>1. IsNumbered(L \ {m})
  <2>1. L \ {m} \in SUBSET L
    OBVIOUS
  <2> QED BY <2>1, FS_Subset DEF IsNumbered
<1>2. Cardinality(L) \in Nat /\ Cardinality(L \ {m}) \in Nat
  BY <1>1, PlaceProperties
<1>3. Cardinality(L) = Cardinality(L \ {m}) + 1
  <2>1. Cardinality(L \ {m}) = Cardinality(L) - 1
    BY FS_RemoveElement DEF IsNumbered
  <2> QED BY <2>1, <1>2
<1>4. ASSUME NEW i \in 1..Cardinality(L) - 1 PROVE InPlace(L \ {m}, i) = InPlace(L, i + 1)
  <2> DEFINE x == InPlace(L, i + 1)
  <2>1. i + 1 \in 1..Cardinality(L) /\ i \in Nat /\ i + 1 # 1
    BY <1>2
  <2>2. x \in L /\ Cardinality(UpTo(L, x)) = i + 1
    BY <2>1, PlaceProperties
  <2> HIDE DEF x
  <2>3. x # m
    <3> SUFFICES ASSUME x = m PROVE FALSE
      OBVIOUS
    <3>1. UpTo(L, m) = {m}
      BY DEF UpTo, IsNumbered
    <3> QED BY <3>1, <2>1, <2>2, FS_Singleton
  <2>4. UpTo(L \ {m}, x) = UpTo(L, x) \ {m} /\ m \in UpTo(L, x)
    BY <2>2, <2>3 DEF UpTo, IsNumbered
  <2>5. IsFiniteSet(UpTo(L, x))
    <3>1. UpTo(L, x) \in SUBSET L
      BY DEF UpTo
    <3> QED BY <3>1, FS_Subset DEF IsNumbered
  <2>6. Cardinality(UpTo(L \ {m}, x)) = i
    <3>1. Cardinality(UpTo(L, x) \ {m}) = i + 1 - 1
      BY <2>2, <2>4, <2>5, FS_RemoveElement
    <3> QED BY <3>1, <2>4, <2>1
  <2>7. x \in L \ {m}
    BY <2>2, <2>3
  <2>8. InPlace(L \ {m}, Cardinality(UpTo(L \ {m}, x))) = x
    BY <1>1, <2>7, PlaceProperties
  <2> QED BY <2>6, <2>8 DEF x
<1> QED BY <1>3, <1>4

-----------------------------------------------------------------------------
(* The queue holds the channels of LinkFifo.                                *)
Channels(msgs) == [l \in Modules \X Modules |-> Channel(msgs, l)]

LEMMA ChannelType ==
  ASSUME NEW msgs \in SUBSET QueueMessage, IsNumbered(msgs), NEW l \in Modules \X Modules
  PROVE  /\ IsNumbered(OnLink(msgs, l))
         /\ Channel(msgs, l) \in Seq(Payload)
         /\ l[1] # l[2] => Len(Channel(msgs, l)) = Cardinality(OnLink(msgs, l))
<1> DEFINE L == OnLink(msgs, l)
           c == Cardinality(L)
<1>1. L \in SUBSET msgs
  BY DEF OnLink
<1>2. IsNumbered(L)
  BY <1>1, FS_Subset DEF IsNumbered
<1> HIDE DEF L
<1>3. c \in Nat /\ \A i \in 1..c : InPlace(L, i) \in L
  BY <1>2, PlaceProperties
<1>4. \A i \in 1..c : InPlace(L, i).payload \in Payload
  BY <1>1, <1>3 DEF QueueMessage
<1> DEFINE s == [i \in 1..c |-> InPlace(L, i).payload]
<1>5. s \in Seq(Payload) /\ Len(s) = c
  BY <1>3, <1>4
<1>6. Channel(msgs, l) = IF l[1] = l[2] THEN <<>> ELSE s
  BY DEF Channel, L
<1> HIDE DEF s, c
<1> QED BY <1>2, <1>5, <1>6 DEF L, c

(* What is scheduled comes behind what is under way.                        *)
LEMMA ChannelGrows ==
  ASSUME NEW msgs \in SUBSET QueueMessage, NEW New \in SUBSET QueueMessage,
         IsNumbered(msgs \cup New), \A m \in msgs, n \in New : m.seq < n.seq,
         NEW l \in Modules \X Modules
  PROVE  /\ IsPrefix(Channel(msgs, l), Channel(msgs \cup New, l))
         /\ (\A n \in New : n.from # l[1]) => Channel(msgs \cup New, l) = Channel(msgs, l)
<1> DEFINE L == OnLink(msgs, l)
           M == OnLink(New, l)
           both == msgs \cup New
           s == Channel(msgs, l)
           t == Channel(both, l)
<1>1. OnLink(both, l) = L \cup M
  BY DEF OnLink
<1>2. both \in SUBSET QueueMessage /\ IsNumbered(both) /\ IsNumbered(msgs)
  <2>1. msgs \in SUBSET both
    OBVIOUS
  <2> QED BY <2>1, FS_Subset DEF IsNumbered
<1>3. /\ IsNumbered(L) /\ IsNumbered(L \cup M)
      /\ s \in Seq(Payload) /\ t \in Seq(Payload)
      /\ l[1] # l[2] => Len(s) = Cardinality(L) /\ Len(t) = Cardinality(L \cup M)
  BY <1>1, <1>2, ChannelType
<1>4. \A m \in L, n \in M : m.seq < n.seq
  BY DEF OnLink
<1> HIDE DEF L, M
<1>5. /\ Cardinality(L) <= Cardinality(L \cup M)
      /\ \A i \in 1..Cardinality(L) : InPlace(L \cup M, i) = InPlace(L, i)
  BY <1>3, <1>4, PlacesKept
<1>6. CASE l[1] = l[2]
  <2>1. s = <<>> /\ t = <<>>
    BY <1>6 DEF Channel
  <2> QED BY <2>1 DEF IsPrefix
<1>7. CASE l[1] # l[2]
  <2>1. /\ s = [i \in 1..Cardinality(L) |-> InPlace(L, i).payload]
        /\ t = [i \in 1..Cardinality(L \cup M) |-> InPlace(L \cup M, i).payload]
    BY <1>1, <1>7 DEF Channel, L
  <2>2. Cardinality(L) \in Nat /\ Cardinality(L \cup M) \in Nat
    BY <1>3, PlaceProperties
  <2> HIDE DEF s, t, both
  <2>3. Len(s) <= Len(t) /\ \A i \in 1..Len(s) : t[i] = s[i]
    <3>1. Len(s) = Cardinality(L) /\ Len(t) = Cardinality(L \cup M)
      BY <1>3, <1>7
    <3>2. ASSUME NEW i \in 1..Cardinality(L) PROVE t[i] = s[i]
      <4>1. i \in 1..Cardinality(L \cup M)
        BY <1>5, <2>2
      <4>2. t[i] = InPlace(L \cup M, i).payload /\ s[i] = InPlace(L, i).payload
        BY <4>1, <2>1
      <4> QED BY <4>2, <1>5
    <3> QED BY <3>1, <3>2, <1>5
  <2>4. IsPrefix(s, t)
    BY <1>3, <2>3, PrefixElements
  <2>5. (\A n \in New : n.from # l[1]) => M = {}
    BY DEF M, OnLink
  <2>6. ASSUME M = {} PROVE t = s
    <3>1. OnLink(both, l) = OnLink(msgs, l)
      BY <1>1, <2>6 DEF L
    <3> QED BY <3>1 DEF Channel, s, t
  <2> QED BY <2>4, <2>5, <2>6 DEF s, t, both
<1> QED BY <1>6, <1>7

(* What is delivered was the first of its link.                             *)
LEMMA ChannelShrinks ==
  ASSUME QueueInv, NEW m, IsNext(m), NEW l \in Modules \X Modules
  PROVE  IF l = <<m.from, m.to>> /\ m.from # m.to
         THEN Channel(mq, l) # <<>> /\ Channel(mq \ {m}, l) = Tail(Channel(mq, l))
         ELSE Channel(mq \ {m}, l) = Channel(mq, l)
<1> DEFINE L == OnLink(mq, l)
           s == Channel(mq, l)
           t == Channel(mq \ {m}, l)
<1>1. /\ m \in mq /\ mq \in SUBSET QueueMessage /\ mq \ {m} \in SUBSET QueueMessage
      /\ IsNumbered(mq)
  <2>1. m \in mq /\ mq \in SUBSET QueueMessage /\ IsNumbered(mq)
    BY DEF IsNext, QueueInv, QueueTypeOK
  <2> QED BY <2>1
<1>2. OnLink(mq \ {m}, l) = L \ {m}
  BY DEF OnLink
<1>3. IsNumbered(L) /\ s \in Seq(Payload) /\ (l[1] # l[2] => Len(s) = Cardinality(L))
  BY <1>1, ChannelType
<1>4. l = <<l[1], l[2]>>
  OBVIOUS
<1>5. CASE l = <<m.from, m.to>> /\ m.from # m.to
  <2>1. l[1] = m.from /\ l[2] = m.to /\ m \in L
    BY <1>1, <1>5 DEF OnLink
  <2>2. ASSUME NEW n \in L \ {m} PROVE m.seq < n.seq
    <3>1. n \in mq /\ n.from = m.from /\ n.to = m.to /\ n # m
      BY <2>1 DEF OnLink
    <3>2. m.seq \in Nat /\ n.seq \in Nat /\ m.arrival \in Nat /\ n.arrival \in Nat /\ m.seq # n.seq
      BY <3>1, <1>1 DEF IsNumbered, QueueMessage
    <3>3. Less(m, n)
      BY <3>1 DEF IsNext
    <3>4. n.seq < m.seq => Less(n, m)
      BY <3>1, <1>1, <1>5 DEF QueueInv, InOrder
    <3> QED BY <3>2, <3>3, <3>4 DEF Less
  <2> HIDE DEF L
  <2>3. /\ Cardinality(L) = Cardinality(L \ {m}) + 1
        /\ \A i \in 1..Cardinality(L) - 1 : InPlace(L \ {m}, i) = InPlace(L, i + 1)
    BY <2>1, <2>2, <1>3, PlacesMoveUp
  <2>4. Cardinality(L) \in Nat /\ Cardinality(L \ {m}) \in Nat
    <3>1. IsFiniteSet(L) /\ IsFiniteSet(L \ {m})
      BY <1>3, FS_RemoveElement DEF IsNumbered
    <3> QED BY <3>1, FS_CardinalityType
  <2>5. /\ s = [i \in 1..Cardinality(L) |-> InPlace(L, i).payload]
        /\ t = [i \in 1..Cardinality(L \ {m}) |-> InPlace(L \ {m}, i).payload]
    <3>1. l[1] # l[2] /\ OnLink(mq, l) = L
      BY <2>1, <1>5 DEF L
    <3> QED BY <3>1, <1>2 DEF Channel
  <2>6. Len(s) = Cardinality(L) /\ s # <<>>
    <3>1. l[1] # l[2] /\ Cardinality(L) # 0
      BY <2>1, <2>3, <2>4, <1>5
    <3>2. Len(s) = Cardinality(L) /\ s \in Seq(Payload)
      BY <3>1, <1>3
    <3> HIDE DEF s
    <3> QED BY <3>1, <3>2
  <2>7. Tail(s) = [i \in 1..Len(s) - 1 |-> s[i + 1]]
    <3>1. s \in Seq(Payload) /\ s # <<>>
      BY <1>3, <2>6
    <3> HIDE DEF s
    <3> QED BY <3>1, TailIsFunction
  <2>8. Tail(s) = t
    <3> DEFINE c == Cardinality(L \ {m})
    <3>1. c \in Nat /\ Cardinality(L) = c + 1 /\ Len(s) - 1 = c
      BY <2>3, <2>4, <2>6
    <3> HIDE DEF s, t, c
    <3>2. ASSUME NEW i \in 1..c PROVE s[i + 1] = t[i]
      <4>1. i + 1 \in 1..Cardinality(L) /\ i \in 1..Cardinality(L) - 1
        BY <3>1
      <4>2. s[i + 1] = InPlace(L, i + 1).payload
        BY <4>1, <2>5
      <4>3. t[i] = InPlace(L \ {m}, i).payload
        BY <2>5 DEF c
      <4> QED BY <4>1, <4>2, <4>3, <2>3
    <3>3. t = [i \in 1..c |-> t[i]]
      BY <2>5 DEF c
    <3> QED BY <3>1, <3>2, <3>3, <2>7
  <2> QED BY <2>6, <2>8, <1>5
<1>6. CASE ~(l = <<m.from, m.to>> /\ m.from # m.to)
  <2>1. CASE l[1] = l[2]
    BY <2>1, <1>6 DEF Channel
  <2>2. CASE l[1] # l[2]
    <3>1. m \notin L
      BY <2>2, <1>4, <1>6 DEF OnLink
    <3>2. OnLink(mq \ {m}, l) = OnLink(mq, l)
      BY <3>1, <1>2
    <3>3. t = s
      BY <3>2 DEF Channel
    <3> QED BY <3>3, <1>6
  <2> QED BY <2>1, <2>2
<1> QED BY <1>5, <1>6

(* The messages msgs are those of rest and what module s sends on its links.*)
SendsOn(s, rest, msgs) ==
  \A l \in Modules \X Modules :
    IF l[1] = s THEN IsPrefix(Channel(rest, l), Channel(msgs, l))
    ELSE Channel(msgs, l) = Channel(rest, l)

LEMMA LinksSends ==
  ASSUME NEW s, NEW rest, SendsOn(s, rest, mq'),
         NEW chans, \A l \in Modules \X Modules : chans[l] = Channel(rest, l)
  PROVE  Links!Sends(s, chans)
<1>1. \A c, d : Links!IsPrefix(c, d) <=> IsPrefix(c, d)
  BY DEF Links!IsPrefix, IsPrefix
<1>2. ASSUME NEW l \in Modules \X Modules
      PROVE  [k \in Modules \X Modules |-> Channel(mq, k)]'[l] = Channel(mq', l)
  BY DEF Channel, OnLink, InPlace
<1> QED BY <1>1, <1>2 DEF Links!Sends, SendsOn

(* Module s sends what its handler returns.                                 *)
LEMMA LinksGrow ==
  ASSUME QueueInv, NEW s \in Modules, NEW outs \in Seq(OutgoingMessage(s)), NEW t \in Nat,
         NEW rest \in SUBSET mq, IsNumbered(rest \cup Scheduled(s, outs, t))
  PROVE  SendsOn(s, rest, rest \cup Scheduled(s, outs, t))
<1> DEFINE New == Scheduled(s, outs, t)
<1>1. \A n \in New : n \in QueueMessage /\ n.from = s /\ seq <= n.seq
  BY ScheduledMessages DEF QueueInv
<1>2. rest \in SUBSET QueueMessage /\ New \in SUBSET QueueMessage
  BY <1>1 DEF QueueInv, QueueTypeOK
<1>3. \A m \in rest, n \in New : m.seq < n.seq
  <2> TAKE m \in rest, n \in New
  <2>1. m.seq < seq /\ seq <= n.seq
    BY <1>1 DEF QueueInv, Pending
  <2>2. m.seq \in Nat /\ n.seq \in Nat /\ seq \in Nat
    BY <1>2 DEF QueueInv, QueueTypeOK, QueueMessage
  <2> QED BY <2>1, <2>2
<1>4. IsNumbered(rest \cup New)
  OBVIOUS
<1> HIDE DEF New
<1>5. ASSUME NEW l \in Modules \X Modules
      PROVE  IF l[1] = s THEN IsPrefix(Channel(rest, l), Channel(rest \cup New, l))
             ELSE Channel(rest \cup New, l) = Channel(rest, l)
  <2>1. /\ IsPrefix(Channel(rest, l), Channel(rest \cup New, l))
        /\ (\A n \in New : n.from # l[1]) => Channel(rest \cup New, l) = Channel(rest, l)
    BY <1>2, <1>3, <1>4, ChannelGrows
  <2>2. l[1] # s => \A n \in New : n.from # l[1]
    BY <1>1
  <2> QED BY <2>1, <2>2
<1> QED BY <1>5 DEF New, SendsOn

(* Delivery takes a message from its link, or handles one that a module     *)
(* sent to itself.                                                          *)
LEMMA DeliverLinks ==
  ASSUME QueueInv, NEW m \in mq, QueueStep(m)
  PROVE  IF m.from # m.to THEN Links!Receive(<<m.from, m.to>>) ELSE Links!Act(m.to)
<1> DEFINE k == <<m.from, m.to>>
<1>1. PICK outs \in Seq(OutgoingMessage(m.to)) : Deliver(m, outs)
  BY DEF QueueStep
<1>2. m.from \in Modules /\ m.to \in Modules /\ m.arrival \in Nat
  BY DEF QueueInv, QueueTypeOK, QueueMessage
<1>3. IsNext(m) /\ mq' = (mq \ {m}) \cup Scheduled(m.to, outs, m.arrival)
  BY <1>1 DEF Deliver
<1>4. IsNumbered(mq')
  BY DeliverStep DEF QueueInv
<1>5. SendsOn(m.to, mq \ {m}, mq')
  <2>1. mq \ {m} \in SUBSET mq
    OBVIOUS
  <2> QED BY <1>2, <1>3, <1>4, <2>1, LinksGrow
<1>6. ASSUME NEW l \in Modules \X Modules
      PROVE  IF l = k /\ m.from # m.to
             THEN Channel(mq, l) # <<>> /\ Channel(mq \ {m}, l) = Tail(Channel(mq, l))
             ELSE Channel(mq \ {m}, l) = Channel(mq, l)
  BY <1>3, ChannelShrinks
<1>7. k \in Modules \X Modules /\ k[2] = m.to
  BY <1>2
<1> HIDE DEF k
<1>8. CASE m.from # m.to
  <2>1. /\ Channel(mq, k) # <<>>
        /\ \A l \in Modules \X Modules :
             Channel(mq \ {m}, l) = IF l = k THEN Tail(Channel(mq, l)) ELSE Channel(mq, l)
    BY <1>6, <1>7, <1>8
  <2> DEFINE chan == [l \in Modules \X Modules |-> Channel(mq, l)]
             rest == [chan EXCEPT ![k] = Tail(@)]
  <2>2. \A l \in Modules \X Modules : rest[l] = Channel(mq \ {m}, l)
    BY <2>1, <1>7
  <2> HIDE DEF rest
  <2>3. Links!Sends(k[2], rest)
    BY <2>2, <1>5, <1>7, LinksSends
  <2>4. chan[k] # <<>>
    BY <2>1, <1>7
  <2> QED BY <2>3, <2>4, <1>8 DEF Links!Receive, rest, k
<1>9. CASE m.from = m.to
  <2>1. \A l \in Modules \X Modules : Channel(mq \ {m}, l) = Channel(mq, l)
    BY <1>6, <1>9
  <2> DEFINE chan == [l \in Modules \X Modules |-> Channel(mq, l)]
  <2>2. \A l \in Modules \X Modules : chan[l] = Channel(mq \ {m}, l)
    BY <2>1
  <2> HIDE DEF chan
  <2>3. Links!Sends(m.to, chan)
    BY <2>2, <1>5, LinksSends
  <2> QED BY <2>3, <1>9 DEF Links!Act, chan
<1> QED BY <1>8, <1>9

(* Every step of the simulator is one of the links, or none.                *)
LEMMA QueueLinks ==
  ASSUME QueueInv, [QueueNext]_<<simulator, driver>>
  PROVE  [Links!Next]_(Channels(mq))
<1>1. ASSUME NEW s \in Modules, NEW delay \in Nat, NEW payload \in Payload,
             Prepare(s, delay, payload)
      PROVE  Links!Act(s)
  <2> DEFINE outs == <<[payload |-> payload, to |-> s, delay |-> delay]>>
  <2>1. outs \in Seq(OutgoingMessage(s))
    BY DEF OutgoingMessage
  <2>2. mq' = mq \cup Scheduled(s, outs, 0) /\ mq \in SUBSET mq
    BY <1>1 DEF Prepare
  <2>3. IsNumbered(mq')
    <3>1. QueueNext
      BY <1>1 DEF QueueNext
    <3> QED BY <3>1, QueueNextInv DEF QueueInv
  <2> HIDE DEF outs
  <2>4. SendsOn(s, mq, mq')
    BY <2>1, <2>2, <2>3, LinksGrow
  <2> DEFINE chan == [l \in Modules \X Modules |-> Channel(mq, l)]
  <2>5. \A l \in Modules \X Modules : chan[l] = Channel(mq, l)
    OBVIOUS
  <2> HIDE DEF chan
  <2>6. Links!Sends(s, chan)
    BY <2>4, <2>5, LinksSends
  <2> QED BY <2>6 DEF Links!Act, chan
<1>2. ASSUME NEW m \in mq, QueueStep(m)
      PROVE  Links!Next
  <2>1. m.from \in Modules /\ m.to \in Modules /\ <<m.from, m.to>> \in Modules \X Modules
    BY DEF QueueInv, QueueTypeOK, QueueMessage
  <2> QED BY <2>1, <1>2, DeliverLinks DEF Links!Next
<1>3. CASE mq' = mq
  BY <1>3 DEF Channels
<1>4. Return \/ RunUntil \/ UNCHANGED <<simulator, driver>> => mq' = mq
  BY DEF Return, RunUntil, simulator
<1> QED BY <1>1, <1>2, <1>3, <1>4 DEF QueueNext, Links!Next

(* The simulator is a network of links that keep their order, and on which  *)
(* only the handler of an event sends.                                      *)
THEOREM QueueImplementsLinks == QueueSpec => ImplementsLinks
<1>1. QueueInit => Links!Init
  <2> SUFFICES ASSUME QueueInit PROVE Links!Init
    OBVIOUS
  <2>1. ASSUME NEW l \in Modules \X Modules PROVE Channel(mq, l) = <<>>
    <3>1. OnLink(mq, l) = {}
      BY DEF QueueInit, OnLink
    <3> QED BY <3>1, FS_EmptySet DEF Channel
  <2> QED BY <2>1 DEF Links!Init
<1>2. QueueInv /\ [QueueNext]_<<simulator, driver>> => [Links!Next]_(Channels(mq))
  BY QueueLinks
<1> QED BY <1>1, <1>2, QueueInvariant, PTL DEF QueueSpec, ImplementsLinks, Links!Spec, Channels

-----------------------------------------------------------------------------
(* The ends of a connection are different servers.                          *)
LEMMA ConnectionsProperties ==
  /\ topology \in Seq(Connection) /\ N \in Nat
  /\ \A i \in 1..Len(topology) :
       /\ topology[i].a \in Servers /\ topology[i].b \in Servers
       /\ topology[i].a # topology[i].b
<1>1. /\ topology \in Seq(Connection) /\ Len(topology) \in Nat /\ DOMAIN topology = 1..Len(topology)
      /\ \A i \in 1..Len(topology) :
           topology[i].a \in Nat /\ topology[i].b \in Nat /\ topology[i].a # topology[i].b
  <2>1. topology \in Seq(Connection) /\ \A i \in DOMAIN topology : topology[i].a # topology[i].b
    BY TopologyAssumption DEF Topologies
  <2>2. \A i \in 1..Len(topology) : topology[i] \in Connection
    BY <2>1
  <2> QED BY <2>1, <2>2 DEF Connection
<1> DEFINE a == [i \in DOMAIN topology |-> topology[i].a]
           b == [i \in DOMAIN topology |-> topology[i].b]
           U == {0} \cup UNION {Ends(c) : c \in ToSet(topology)}
<1>2. U = {0} \cup {a[i] : i \in DOMAIN topology} \cup {b[i] : i \in DOMAIN topology}
  BY DEF ToSet, Ends
<1>3. IsFiniteSet(DOMAIN topology)
  BY <1>1, FS_Interval
<1>4. IsFiniteSet(U)
  <2>1. IsFiniteSet({a[i] : i \in DOMAIN topology}) /\ IsFiniteSet({b[i] : i \in DOMAIN topology})
    <3> HIDE DEF a, b
    <3> QED BY <1>3, FiniteImage
  <2> QED BY <2>1, <1>2, FS_Union, FS_Singleton
<1>5. U \in SUBSET Nat /\ U # {}
  BY <1>1 DEF Ends, ToSet
<1>6. Max(U) \in U /\ \A i \in U : i <= Max(U)
  <2> HIDE DEF U
  <2> QED BY <1>4, <1>5, GreatestProperties
<1>7. Max(U) \in Nat
  BY <1>5, <1>6
<1>8. N = Max(U) + 1 /\ N \in Nat
  <2>1. N = Max(U) + 1
    BY DEF N
  <2> HIDE DEF U
  <2> QED BY <2>1, <1>7
<1>9. ASSUME NEW i \in 1..Len(topology) PROVE topology[i].a \in Servers /\ topology[i].b \in Servers
  <2>1. topology[i].a \in U /\ topology[i].b \in U
    BY <1>1 DEF Ends, ToSet
  <2> HIDE DEF U
  <2>2. topology[i].a <= Max(U) /\ topology[i].b <= Max(U)
    BY <2>1, <1>6
  <2> QED BY <2>2, <1>1, <1>7, <1>8 DEF Servers
<1> QED BY <1>1, <1>8, <1>9

(* A server is listed once with each of those that it is connected to, and  *)
(* lists them.                                                              *)
LEMMA PeersProperties ==
  ASSUME NEW s \in Servers
  PROVE  /\ peers[s] \in Seq(Servers)
         /\ IsInjective(peers[s])
         /\ s \notin ToSet(peers[s])
         /\ \A p \in ToSet(peers[s]) : p \in Servers /\ s \in ToSet(peers[p])
<1> DEFINE Other(r, i) == CHOOSE p \in Ends(topology[i]) : p # r
           Parts(r) == [i \in DOMAIN topology |->
                          IF r \in Ends(topology[i]) THEN <<Other(r, i)>> ELSE <<>>]
<1>1. /\ Len(topology) \in Nat /\ DOMAIN topology = 1..Len(topology)
      /\ \A i \in 1..Len(topology) :
           /\ topology[i].a \in Servers /\ topology[i].b \in Servers
           /\ topology[i].a # topology[i].b
  BY ConnectionsProperties
<1>2. ASSUME NEW r \in Servers, NEW i \in 1..Len(topology), r \in Ends(topology[i])
      PROVE  Other(r, i) \in Servers /\ Other(r, i) # r /\ Ends(topology[i]) = {r, Other(r, i)}
  <2>1. \E p \in Ends(topology[i]) : p # r
    BY <1>1 DEF Ends
  <2>2. Other(r, i) \in Ends(topology[i]) /\ Other(r, i) # r
    BY <2>1
  <2> HIDE DEF Other
  <2> QED BY <2>2, <1>1, <1>2 DEF Ends
<1>3. \A i, j \in 1..Len(topology) : Ends(topology[i]) = Ends(topology[j]) => i = j
  BY <1>1, TopologyAssumption DEF Topologies
<1>4. ASSUME NEW r \in Servers
      PROVE  /\ peers[r] \in Seq(Servers)
             /\ ToSet(peers[r]) = {Other(r, i) : i \in {j \in 1..Len(topology) : r \in Ends(topology[j])}}
             /\ IsInjective(peers[r])
  <2>0. peers[r] = FlattenSeq(Parts(r))
    BY DEF peers, PeerList
  <2> HIDE DEF Other
  <2>1. /\ Parts(r) \in Seq(Seq(Servers)) /\ Len(Parts(r)) = Len(topology)
        /\ \A i \in 1..Len(topology) :
             Parts(r)[i] = IF r \in Ends(topology[i]) THEN <<Other(r, i)>> ELSE <<>>
    <3>1. \A i \in DOMAIN topology :
            (IF r \in Ends(topology[i]) THEN <<Other(r, i)>> ELSE <<>>) \in Seq(Servers)
      BY <1>1, <1>2
    <3> QED BY <3>1, <1>1
  <2>2. \A i \in 1..Len(topology) :
          /\ Range(Parts(r)[i]) = IF r \in Ends(topology[i]) THEN {Other(r, i)} ELSE {}
          /\ IsInjective(Parts(r)[i])
    <3> TAKE i \in 1..Len(topology)
    <3>1. CASE r \in Ends(topology[i])
      <4>1. Parts(r)[i] = <<Other(r, i)>>
        BY <3>1, <2>1
      <4>2. \A e : DOMAIN <<e>> = {1} /\ <<e>>[1] = e
        OBVIOUS
      <4> HIDE DEF Parts
      <4> QED BY <3>1, <4>1, <4>2 DEF Range, IsInjective
    <3>2. CASE r \notin Ends(topology[i])
      <4>1. Parts(r)[i] = <<>> /\ DOMAIN <<>> = {}
        BY <3>2, <2>1
      <4> HIDE DEF Parts
      <4> QED BY <3>2, <4>1 DEF Range, IsInjective
    <3> QED BY <3>1, <3>2
  <2> DEFINE ss == Parts(r)
  <2> HIDE DEF ss, Parts
  <2>3. ASSUME NEW i \in 1..Len(topology), NEW j \in 1..Len(topology), i # j
        PROVE  Range(Parts(r)[i]) \cap Range(Parts(r)[j]) = {}
    <3> SUFFICES ASSUME NEW p \in Range(Parts(r)[i]), p \in Range(Parts(r)[j]) PROVE FALSE
      OBVIOUS
    <3>1. /\ r \in Ends(topology[i]) /\ p = Other(r, i)
          /\ r \in Ends(topology[j]) /\ p = Other(r, j)
      BY <2>2
    <3>2. Ends(topology[i]) = {r, p} /\ Ends(topology[j]) = {r, p}
      BY <3>1, <1>2
    <3> QED BY <3>2, <2>3, <1>3
  <2>4. FlattenSeq(ss) \in Seq(Servers) /\ Range(FlattenSeq(ss)) = UNION {Range(ss[i]) : i \in 1..Len(ss)}
    BY <2>1, FlattenSeqProperties DEF ss
  <2>5. IsInjective(FlattenSeq(ss))
    <3>1. ss \in Seq(Seq(Servers)) /\ Len(ss) = Len(topology)
      BY <2>1 DEF ss
    <3>2. /\ \A i \in 1..Len(ss) : IsInjective(ss[i])
          /\ \A i, j \in 1..Len(ss) : i # j => Range(ss[i]) \cap Range(ss[j]) = {}
      BY <2>2, <2>3, <3>1 DEF ss
    <3> QED BY <3>1, <3>2, FlattenSeqInjective
  <2>6. UNION {Range(ss[i]) : i \in 1..Len(topology)}
          = {Other(r, i) : i \in {j \in 1..Len(topology) : r \in Ends(topology[j])}}
    BY <2>2 DEF ss
  <2>7. Len(ss) = Len(topology) /\ peers[r] = FlattenSeq(ss) /\ ToSet(peers[r]) = Range(peers[r])
    BY <2>0, <2>1 DEF ss, ToSet, Range
  <2> QED BY <2>4, <2>5, <2>6, <2>7
<1> HIDE DEF Other
<1>5. ASSUME NEW p \in ToSet(peers[s]) PROVE p \in Servers /\ p # s /\ s \in ToSet(peers[p])
  <2>1. PICK i \in 1..Len(topology) : s \in Ends(topology[i]) /\ p = Other(s, i)
    BY <1>4
  <2>2. p \in Servers /\ p # s /\ Ends(topology[i]) = {s, p}
    BY <2>1, <1>2
  <2>3. Other(p, i) # p /\ Ends(topology[i]) = {p, Other(p, i)}
    BY <2>2, <1>2
  <2>4. s = Other(p, i)
    BY <2>2, <2>3
  <2> QED BY <2>2, <2>4, <1>4
<1> QED BY <1>4, <1>5

-----------------------------------------------------------------------------
(* collectOutgoingMessages sends what is in the outbox of a peer to it,     *)
(* each message once.                                                       *)
Outgoing(q, outbox) ==
  UNION {{[payload |-> outbox[p][j], to |-> p, delay |-> Delay[q][p]] : j \in DOMAIN outbox[p]}
           : p \in ToSet(peers[q])}

LEMMA CollectProperties ==
  ASSUME NEW q \in Servers, NEW P, NEW outbox \in [Servers -> Seq(P)],
         \A p \in Servers : IsInjective(outbox[p])
  PROVE  /\ Collect(q, outbox) \in Seq([payload : P, to : Servers, delay : Nat])
         /\ Range(Collect(q, outbox)) = Outgoing(q, outbox)
         /\ IsInjective(Collect(q, outbox))
<1> DEFINE R == [payload : P, to : Servers, delay : Nat]
           to(p) == [i \in DOMAIN outbox[p] |->
                       [payload |-> outbox[p][i], to |-> p, delay |-> Delay[q][p]]]
           ss == [i \in DOMAIN peers[q] |-> to(peers[q][i])]
<1>1. /\ peers[q] \in Seq(Servers) /\ IsInjective(peers[q])
      /\ DOMAIN peers[q] = 1..Len(peers[q]) /\ Len(peers[q]) \in Nat
  BY PeersProperties
<1>2. \A p \in Servers : Delay[q][p] \in Nat
  BY EventQueueAssumption, PullSyncAssumption
<1>3. ASSUME NEW p \in Servers
      PROVE  /\ to(p) \in Seq(R)
             /\ Range(to(p)) = {[payload |-> outbox[p][j], to |-> p, delay |-> Delay[q][p]] : j \in DOMAIN outbox[p]}
             /\ IsInjective(to(p))
             /\ \A r \in Range(to(p)) : r.to = p
  <2> DEFINE o == outbox[p]
             e(i) == [payload |-> o[i], to |-> p, delay |-> Delay[q][p]]
             f == [i \in DOMAIN o |-> e(i)]
  <2>1. o \in Seq(P) /\ IsInjective(o)
    OBVIOUS
  <2> HIDE DEF o
  <2>2. DOMAIN o = 1..Len(o) /\ Len(o) \in Nat /\ \A i \in 1..Len(o) : o[i] \in P
    BY <2>1
  <2>3. \A i \in 1..Len(o) : e(i) \in R /\ e(i).to = p /\ e(i).payload = o[i]
    BY <2>2, <1>2
  <2> HIDE DEF e, R
  <2>4. f \in Seq(R) /\ DOMAIN f = 1..Len(o) /\ \A i \in 1..Len(o) : f[i] = e(i)
    BY <2>2, <2>3
  <2> HIDE DEF f
  <2>5. /\ f \in Seq(R)
        /\ Range(f) = {e(i) : i \in DOMAIN o}
        /\ IsInjective(f)
        /\ \A r \in Range(f) : r.to = p
    <3>1. IsInjective(f)
      BY <2>1, <2>2, <2>3, <2>4 DEF IsInjective
    <3>2. Range(f) = {e(i) : i \in DOMAIN o}
      BY <2>2, <2>4 DEF Range
    <3> QED BY <2>2, <2>3, <2>4, <3>1, <3>2
  <2> QED BY <2>5 DEF o, e, f
<1>4. Collect(q, outbox) = FlattenSeq(ss)
  BY DEF Collect
<1>5. /\ ss \in Seq(Seq(R)) /\ Len(ss) = Len(peers[q])
      /\ \A i \in 1..Len(peers[q]) : ss[i] = to(peers[q][i]) /\ peers[q][i] \in Servers
  <2>1. \A i \in 1..Len(peers[q]) : peers[q][i] \in Servers
    BY <1>1
  <2> HIDE DEF to, R
  <2> QED BY <2>1, <1>1, <1>3
<1> HIDE DEF to, R, ss
<1>6. FlattenSeq(ss) \in Seq(R) /\ Range(FlattenSeq(ss)) = UNION {Range(ss[i]) : i \in 1..Len(ss)}
  BY <1>5, FlattenSeqProperties
<1>7. IsInjective(FlattenSeq(ss))
  <2>1. \A i \in 1..Len(ss) : IsInjective(ss[i])
    BY <1>3, <1>5
  <2>2. ASSUME NEW i \in 1..Len(ss), NEW j \in 1..Len(ss), i # j
        PROVE  Range(ss[i]) \cap Range(ss[j]) = {}
    <3>1. peers[q][i] # peers[q][j]
      BY <2>2, <1>1, <1>5 DEF IsInjective
    <3> QED BY <3>1, <1>3, <1>5
  <2> QED BY <2>1, <2>2, <1>5, FlattenSeqInjective
<1>8. UNION {Range(ss[i]) : i \in 1..Len(ss)} = Outgoing(q, outbox)
  <2>1. UNION {Range(ss[i]) : i \in 1..Len(ss)} = UNION {Range(to(p)) : p \in ToSet(peers[q])}
    BY <1>1, <1>5 DEF ToSet
  <2>2. ToSet(peers[q]) \subseteq Servers
    BY PeersProperties
  <2>3. Outgoing(q, outbox) = UNION {Range(to(p)) : p \in ToSet(peers[q])}
    BY <2>2, <1>3 DEF Outgoing
  <2> QED BY <2>1, <2>3
<1> QED BY <1>4, <1>6, <1>7, <1>8 DEF R

-----------------------------------------------------------------------------
(* What a handler of messages returns: others for its own server, and what  *)
(* Handle puts into the outboxes.                                           *)
Exchanges == {"announce", "request", "response"}

PeerMessage == [type : Exchanges, tx : Nat]

Announcements(txs) == [i \in DOMAIN txs |-> Message("announce", txs[i])]

Outbox(txs, exclude, reply) ==
  [p \in Servers |-> IF p # exclude THEN Announcements(txs) ELSE reply]

PeerOutgoing == [payload : PeerMessage, to : Servers, delay : Nat]

OtherOutgoing ==
  [payload : [type : {"blockArrival", "initialBroadcast"}, tx : Nat], to : Servers, delay : Nat]

(* New are the messages that server q then sends.                           *)
Sent(New, q, txs, x, reply, others) ==
  /\ IsFiniteSet(New)
  /\ \A n \in New :
       /\ n.from = q /\ n.to \in Servers /\ n.arrival \in Nat
       /\ \/ \E i \in DOMAIN others : n.payload = others[i].payload
          \/ /\ n.to \in ToSet(peers[q])
             /\ IF n.to # x THEN \E t \in ToSet(txs) : n.payload = Message("announce", t)
                ELSE n.payload \in ToSet(reply)
  /\ \A p \in ToSet(peers[q]) : p # x =>
       \A t \in ToSet(txs) : \E n \in New : n.to = p /\ n.payload = Message("announce", t)
  /\ x \in ToSet(peers[q]) =>
       \A r \in ToSet(reply) : \E n \in New : n.to = x /\ n.payload = r
  /\ \A m, n \in New :
       /\ m.payload.type \in Exchanges /\ n.payload.type \in Exchanges
       /\ m.to = n.to /\ m.payload.tx = n.payload.tx
       => m = n

LEMMA HandlerMessages ==
  ASSUME NEW q \in Servers, NEW txs \in Seq(Nat), IsInjective(txs), NEW x,
         NEW reply \in Seq(PeerMessage), \A i, j \in DOMAIN reply : i = j,
         NEW others \in Seq(OtherOutgoing), NEW at \in Nat,
         NEW New, New = Scheduled(q, others \o Collect(q, Outbox(txs, x, reply)), at)
  PROVE  Sent(New, q, txs, x, reply, others)
<1> DEFINE outbox == Outbox(txs, x, reply)
           c == Collect(q, outbox)
           outs == others \o c
           e(i) == [arrival |-> at + outs[i].delay, seq |-> seq + i - 1,
                    from |-> q, to |-> outs[i].to, payload |-> outs[i].payload]
<1>1. /\ DOMAIN txs = 1..Len(txs) /\ Len(txs) \in Nat /\ \A i \in 1..Len(txs) : txs[i] \in Nat
      /\ Announcements(txs) \in Seq(PeerMessage)
      /\ DOMAIN Announcements(txs) = 1..Len(txs)
      /\ \A i \in 1..Len(txs) : Announcements(txs)[i] = Message("announce", txs[i])
  <2>1. DOMAIN txs = 1..Len(txs) /\ Len(txs) \in Nat /\ \A i \in 1..Len(txs) : txs[i] \in Nat
    OBVIOUS
  <2>2. \A i \in 1..Len(txs) : Message("announce", txs[i]) \in PeerMessage
    BY <2>1 DEF Message, PeerMessage, Exchanges
  <2> HIDE DEF PeerMessage
  <2> QED BY <2>1, <2>2 DEF Announcements
<1>2. /\ outbox \in [Servers -> Seq(PeerMessage)]
      /\ \A p \in Servers : outbox[p] = IF p # x THEN Announcements(txs) ELSE reply
  BY <1>1 DEF Outbox
<1>3. ASSUME NEW p \in Servers, NEW i \in DOMAIN outbox[p], NEW j \in DOMAIN outbox[p],
             outbox[p][i].tx = outbox[p][j].tx
      PROVE  i = j
  <2>1. CASE p # x
    <3>1. /\ i \in 1..Len(txs) /\ j \in 1..Len(txs)
          /\ outbox[p][i] = Message("announce", txs[i]) /\ outbox[p][j] = Message("announce", txs[j])
      BY <2>1, <1>1, <1>2
    <3>2. txs[i] = txs[j]
      BY <3>1, <1>3 DEF Message
    <3> QED BY <3>1, <3>2, <1>1 DEF IsInjective
  <2>2. CASE p = x
    BY <2>2, <1>2
  <2> QED BY <2>1, <2>2
<1>4. \A p \in Servers : IsInjective(outbox[p])
  BY <1>3 DEF IsInjective
<1> HIDE DEF outbox, c
<1>5. /\ c \in Seq(PeerOutgoing)
      /\ Range(c) = Outgoing(q, outbox)
      /\ IsInjective(c)
  BY <1>2, <1>4, CollectProperties DEF c, PeerOutgoing
<1>6. /\ DOMAIN others = 1..Len(others) /\ Len(others) \in Nat
      /\ DOMAIN c = 1..Len(c) /\ Len(c) \in Nat
      /\ \A i \in 1..Len(c) : /\ c[i] \in Outgoing(q, outbox)
                              /\ c[i] \in PeerOutgoing
      /\ \A i \in 1..Len(others) :
           /\ others[i].payload.type \notin Exchanges
           /\ others[i].to \in Servers /\ others[i].delay \in Nat
  <2>1. \A i \in 1..Len(others) : others[i] \in OtherOutgoing
    OBVIOUS
  <2>2. DOMAIN others = 1..Len(others) /\ Len(others) \in Nat
    OBVIOUS
  <2>3. DOMAIN c = 1..Len(c) /\ Len(c) \in Nat /\ \A i \in 1..Len(c) : c[i] \in PeerOutgoing
    BY <1>5
  <2>4. \A i \in 1..Len(c) : c[i] \in Outgoing(q, outbox)
    BY <2>3, <1>5 DEF Range
  <2>5. \A i \in 1..Len(others) : /\ others[i].payload.type \notin Exchanges
                                      /\ others[i].to \in Servers /\ others[i].delay \in Nat
    BY <2>1 DEF OtherOutgoing, Exchanges
  <2> QED BY <2>2, <2>3, <2>4, <2>5
<1>7. /\ DOMAIN outs = 1..Len(others) + Len(c)
      /\ \A i \in 1..Len(others) + Len(c) :
           outs[i] = IF i <= Len(others) THEN others[i] ELSE c[i - Len(others)]
      /\ \A i \in 1..Len(others) + Len(c) : i <= Len(others) \/ i - Len(others) \in 1..Len(c)
      /\ \A i \in 1..Len(c) : i + Len(others) \in 1..Len(others) + Len(c)
                              /\ outs[i + Len(others)] = c[i]
  <2>1. /\ DOMAIN outs = 1..Len(others) + Len(c)
        /\ \A i \in 1..Len(others) + Len(c) :
             outs[i] = IF i <= Len(others) THEN others[i] ELSE c[i - Len(others)]
    BY <1>5
  <2> HIDE DEF outs
  <2>2. ASSUME NEW i \in 1..Len(c)
        PROVE  i + Len(others) \in 1..Len(others) + Len(c) /\ outs[i + Len(others)] = c[i]
    <3>1. /\ i + Len(others) \in 1..Len(others) + Len(c) /\ ~(i + Len(others) <= Len(others))
          /\ (i + Len(others)) - Len(others) = i
      BY <1>6
    <3> QED BY <3>1, <2>1
  <2>3. \A i \in 1..Len(others) + Len(c) : i <= Len(others) \/ i - Len(others) \in 1..Len(c)
    BY <1>6
  <2> QED BY <2>1, <2>2, <2>3
<1>8. New = {e(i) : i \in 1..Len(others) + Len(c)}
  BY <1>7 DEF Scheduled, c, outbox
<1>9. \A i : /\ e(i).from = q /\ e(i).to = outs[i].to /\ e(i).payload = outs[i].payload
             /\ e(i).arrival = at + outs[i].delay
  OBVIOUS
<1> HIDE DEF e, outs
<1>10. ASSUME NEW o \in Outgoing(q, outbox)
       PROVE  /\ o.to \in ToSet(peers[q])
              /\ \E j \in DOMAIN outbox[o.to] : o = [payload |-> outbox[o.to][j], to |-> o.to, delay |-> Delay[q][o.to]]
  BY DEF Outgoing
<1>11. ToSet(peers[q]) \subseteq Servers
  BY PeersProperties
<1>12. IsFiniteSet(New)
  <2> DEFINE f == [i \in 1..Len(others) + Len(c) |-> e(i)]
  <2>1. New = {f[i] : i \in 1..Len(others) + Len(c)}
    BY <1>8
  <2>2. IsFiniteSet(1..Len(others) + Len(c))
    <3>1. Len(others) + Len(c) \in Int /\ 1 \in Int
      BY <1>6
    <3> QED BY <3>1, FS_Interval
  <2> HIDE DEF f
  <2>3. IsFiniteSet({f[i] : i \in 1..Len(others) + Len(c)})
    BY <2>2, FiniteImage
  <2> QED BY <2>1, <2>3
<1>13. ASSUME NEW n \in New
       PROVE  /\ n.from = q /\ n.to \in Servers /\ n.arrival \in Nat
              /\ \/ \E i \in DOMAIN others : n.payload = others[i].payload
                 \/ /\ n.to \in ToSet(peers[q])
                    /\ IF n.to # x THEN \E t \in ToSet(txs) : n.payload = Message("announce", t)
                       ELSE n.payload \in ToSet(reply)
  <2>1. PICK i \in 1..Len(others) + Len(c) : n = e(i)
    BY <1>8
  <2>0. n.arrival \in Nat
    <3>1. outs[i].delay \in Nat
      BY <1>6, <1>7 DEF PeerOutgoing
    <3> QED BY <2>1, <3>1, <1>9
  <2>2. CASE i <= Len(others)
    <3>1. i \in 1..Len(others) /\ outs[i] = others[i]
      BY <2>2, <1>6, <1>7
    <3> QED BY <3>1, <2>0, <2>1, <1>6, <1>9
  <2>3. CASE ~(i <= Len(others))
    <3>1. outs[i] \in Outgoing(q, outbox)
      BY <2>3, <1>6, <1>7
    <3>2. /\ n.to \in ToSet(peers[q])
          /\ \E j \in DOMAIN outbox[n.to] : n.payload = outbox[n.to][j]
      <4> DEFINE o == outs[i]
      <4>1. o \in Outgoing(q, outbox)
        BY <3>1
      <4>2. n.to = o.to /\ n.payload = o.payload
        BY <2>1, <1>9
      <4> HIDE DEF o
      <4>3. PICK j \in DOMAIN outbox[o.to] :
              o = [payload |-> outbox[o.to][j], to |-> o.to, delay |-> Delay[q][o.to]]
        BY <4>1, <1>10
      <4>4. o.payload = outbox[o.to][j]
        BY <4>3
      <4> QED BY <4>1, <4>2, <4>4, <1>10
    <3>3. PICK j \in DOMAIN outbox[n.to] : n.payload = outbox[n.to][j]
      BY <3>2
    <3>4. CASE n.to # x
      <4>1. j \in 1..Len(txs) /\ n.payload = Message("announce", txs[j]) /\ txs[j] \in ToSet(txs)
        BY <3>2, <3>3, <3>4, <1>1, <1>2, <1>11 DEF ToSet
      <4> QED BY <3>2, <3>4, <4>1, <2>0, <2>1, <1>9, <1>11
    <3>5. CASE n.to = x
      <4>1. n.payload \in ToSet(reply)
        BY <3>2, <3>3, <3>5, <1>2, <1>11 DEF ToSet
      <4> QED BY <3>2, <3>5, <4>1, <2>0, <2>1, <1>9, <1>11
    <3> QED BY <3>4, <3>5
  <2> QED BY <2>2, <2>3
<1>14. ASSUME NEW p \in ToSet(peers[q]), NEW j \in DOMAIN outbox[p]
       PROVE  \E n \in New : n.to = p /\ n.payload = outbox[p][j]
  <2>1. [payload |-> outbox[p][j], to |-> p, delay |-> Delay[q][p]] \in Range(c)
    BY <1>5 DEF Outgoing
  <2>2. PICK i \in 1..Len(c) : c[i] = [payload |-> outbox[p][j], to |-> p, delay |-> Delay[q][p]]
    BY <2>1, <1>6 DEF Range
  <2>3. e(i + Len(others)) \in New /\ outs[i + Len(others)] = c[i]
    BY <1>7, <1>8
  <2> QED BY <2>2, <2>3, <1>9
<1>15. ASSUME NEW p \in ToSet(peers[q]), p # x, NEW t \in ToSet(txs)
       PROVE  \E n \in New : n.to = p /\ n.payload = Message("announce", t)
  <2>1. PICK i \in 1..Len(txs) : t = txs[i]
    BY <1>1 DEF ToSet
  <2>2. i \in DOMAIN outbox[p] /\ outbox[p][i] = Message("announce", t)
    BY <2>1, <1>1, <1>2, <1>11, <1>15
  <2>3. \E n \in New : n.to = p /\ n.payload = outbox[p][i]
    BY <2>2, <1>14
  <2> QED BY <2>2, <2>3
<1>16. ASSUME x \in ToSet(peers[q]), NEW r \in ToSet(reply)
       PROVE  \E n \in New : n.to = x /\ n.payload = r
  <2>1. PICK i \in DOMAIN reply : r = reply[i]
    BY DEF ToSet
  <2>2. i \in DOMAIN outbox[x] /\ outbox[x][i] = r
    BY <2>1, <1>2, <1>11, <1>16
  <2> QED BY <2>2, <1>14, <1>16
<1>17. ASSUME NEW m \in New, NEW n \in New,
              m.payload.type \in Exchanges, n.payload.type \in Exchanges,
              m.to = n.to, m.payload.tx = n.payload.tx
       PROVE  m = n
  <2>1. PICK i \in 1..Len(others) + Len(c) : m = e(i)
    BY <1>8
  <2>2. PICK j \in 1..Len(others) + Len(c) : n = e(j)
    BY <1>8
  <2>3. i - Len(others) \in 1..Len(c) /\ outs[i] = c[i - Len(others)]
    <3>1. ~(i <= Len(others))
      <4>1. outs[i].payload.type \in Exchanges
        BY <2>1, <1>9, <1>17
      <4>2. i <= Len(others) => i \in 1..Len(others) /\ outs[i] = others[i]
        BY <1>6, <1>7
      <4> QED BY <4>1, <4>2, <1>6
    <3> QED BY <3>1, <1>7
  <2>4. j - Len(others) \in 1..Len(c) /\ outs[j] = c[j - Len(others)]
    <3>1. ~(j <= Len(others))
      <4>1. outs[j].payload.type \in Exchanges
        BY <2>2, <1>9, <1>17
      <4>2. j <= Len(others) => j \in 1..Len(others) /\ outs[j] = others[j]
        BY <1>6, <1>7
      <4> QED BY <4>1, <4>2, <1>6
    <3> QED BY <3>1, <1>7
  <2>5. outs[i] \in Outgoing(q, outbox) /\ outs[j] \in Outgoing(q, outbox)
    BY <2>3, <2>4, <1>6
  <2>6. outs[i].to = outs[j].to /\ outs[i].payload.tx = outs[j].payload.tx
    BY <2>1, <2>2, <1>9, <1>17
  <2>7. outs[i] = outs[j]
    <3>1. PICK k \in DOMAIN outbox[outs[i].to] :
            outs[i] = [payload |-> outbox[outs[i].to][k], to |-> outs[i].to, delay |-> Delay[q][outs[i].to]]
      BY <2>5, <1>10
    <3>2. PICK l \in DOMAIN outbox[outs[i].to] :
            outs[j] = [payload |-> outbox[outs[i].to][l], to |-> outs[i].to, delay |-> Delay[q][outs[i].to]]
      BY <2>5, <2>6, <1>10
    <3>3. outbox[outs[i].to][k].tx = outbox[outs[i].to][l].tx
      <4>1. outs[i].payload = outbox[outs[i].to][k] /\ outs[j].payload = outbox[outs[i].to][l]
        BY <3>1, <3>2
      <4> QED BY <4>1, <2>6
    <3>4. outs[i].to \in Servers
      BY <2>5, <1>10, <1>11
    <3> QED BY <3>1, <3>2, <3>3, <3>4, <1>3
  <2>8. i - Len(others) = j - Len(others)
    BY <2>3, <2>4, <2>7, <1>5, <1>6 DEF IsInjective
  <2>9. i = j
    BY <2>8, <1>6
  <2> QED BY <2>1, <2>2, <2>9
<1> QED BY <1>12, <1>13, <1>15, <1>16, <1>17 DEF Sent

-----------------------------------------------------------------------------
(* The inductive invariant of the pull protocol.                            *)
PullTypes ==
  /\ generated \in 0..MaxTx
  /\ received \in [Servers -> SUBSET (1..generated)]
  /\ known \in [Servers -> [Servers -> SUBSET Tx]]
  /\ IsFiniteSet(mq)

(* What is said about transactions is about those that there are, and what  *)
(* belongs to an exchange goes from a server to a peer of it.               *)
Addressed ==
  \A m \in mq :
    /\ m.to \in Servers
    /\ m.arrival \in Nat
    /\ m.payload.type = "initialBroadcast" => m.payload.tx \in 1..generated
    /\ m.payload.type \in Exchanges =>
         /\ m.payload.tx \in 1..generated
         /\ m.from \in ToSet(peers[m.to])

(* What ExchangeOnce says of transaction t between p and s.                 *)
ExchangeOK(p, s, t) ==
  /\ \A m, n \in Exchange(p, s, t) : m = n
  /\ Exchange(p, s, t) # {} => t \in known[p][s] \cap received[p]
  /\ t \in known[p][s] \ known[s][p] => Exchange(p, s, t) # {}

PullInv ==
  /\ PullTypes
  /\ Addressed
  /\ \A s \in Servers : \A p \in ToSet(peers[s]) : \A t \in Tx : ExchangeOK(p, s, t)

(* An exchange that a step leaves alone.                                    *)
LEMMA ExchangeKept ==
  ASSUME NEW p, NEW s, NEW t, ExchangeOK(p, s, t),
         Exchange(p, s, t)' = Exchange(p, s, t),
         received[p] \subseteq received'[p], known[p][s] \subseteq known'[p][s],
         known[s][p] \subseteq known'[s][p],
         t \in known'[p][s] => t \in known[p][s] \cup known'[s][p]
  PROVE  ExchangeOK(p, s, t)'
BY DEF ExchangeOK

(* Handle: what a server learns it announces, and its reply takes the       *)
(* exchange of the message that it handles one step further.                *)
Belongs(m, p, s, t) ==
  /\ m.payload.tx = t
  /\ \/ m.from = p /\ m.to = s /\ m.payload.type \in {"announce", "response"}
     \/ m.from = s /\ m.to = p /\ m.payload.type = "request"

LEMMA ExchangeBelongs ==
  ASSUME NEW p, NEW s, NEW t
  PROVE  /\ Exchange(p, s, t) = {m \in mq : Belongs(m, p, s, t)}
         /\ Exchange(p, s, t)' = {m \in mq' : Belongs(m, p, s, t)}
BY DEF Exchange, Belongs

(* What the handler for x, from whom m comes, learns and replies.           *)
Replies(m, x, knows, reply) ==
  LET t == m.payload.tx type == m.payload.type IN
  /\ knows = known[m.to][x] \cup IF type = "response" THEN {t} ELSE {}
  /\ reply = IF type = "announce" /\ t \notin known[m.to][x] THEN <<Message("request", t)>>
             ELSE IF type = "request" THEN <<Message("response", t)>> ELSE <<>>

LEMMA HandleInv ==
  ASSUME PullInv, NEW m \in mq, NEW x,
         m.payload.type \in Exchanges \cup {"initialBroadcast"} => x = m.from,
         m.payload.type \notin Exchanges \cup {"initialBroadcast"} => x = m.to,
         generated' \in generated..MaxTx,
         NEW txs \in Seq(1..generated'), IsInjective(txs),
         ToSet(txs) \cap received[m.to] = {},
         NEW knows, NEW reply, Replies(m, x, knows[x], reply),
         \A p \in Servers : p # x => knows[p] = known[m.to][p],
         NEW others \in Seq(OtherOutgoing),
         \A i \in DOMAIN others :
           others[i].payload.type = "initialBroadcast" => others[i].payload.tx \in 1..generated',
         Handle(m, txs, x, knows, reply, others)
  PROVE  PullInv'
<1> DEFINE q == m.to
           U == ToSet(txs)
           outs == others \o Collect(q, Outbox(txs, x, reply))
           New == Scheduled(q, outs, m.arrival)
<1>1. /\ q \in Servers /\ m.arrival \in Nat
      /\ m.payload.type \in Exchanges => m.payload.tx \in 1..generated /\ m.from \in ToSet(peers[q])
  BY DEF PullInv, Addressed
<1>2. /\ generated \in Nat /\ generated' \in Nat /\ generated <= generated' /\ generated' <= MaxTx
      /\ MaxTx \in Nat
      /\ U \subseteq 1..generated' /\ U \subseteq Tx /\ U \subseteq Nat
      /\ 1..generated \subseteq 1..generated' /\ 1..generated' \subseteq Tx
      /\ txs \in Seq(Nat)
  <2>1. generated \in Nat /\ MaxTx \in Nat
    BY PullSyncAssumption DEF PullInv, PullTypes
  <2>2. generated' \in Nat /\ generated <= generated' /\ generated' <= MaxTx
    BY <2>1
  <2>3. U \subseteq 1..generated'
    BY DEF ToSet
  <2>4. 1..generated' \subseteq Nat
    OBVIOUS
  <2>5. txs \in Seq(Nat)
    BY <2>4
  <2> HIDE DEF U
  <2> QED BY <2>1, <2>2, <2>3, <2>5 DEF Tx
<1>3. /\ mq' = (mq \ {m}) \cup New
      /\ received' = [received EXCEPT ![q] = @ \cup U]
      /\ known' = [known EXCEPT ![q] = [p \in Servers |->
                     knows[p] \cup IF p # x /\ p \in ToSet(peers[q]) THEN U ELSE {}]]
  BY DEF Handle, Deliver, Outbox, Announcements
<1>4. /\ reply \in Seq(PeerMessage)
      /\ \A i, j \in DOMAIN reply : i = j
      /\ ToSet(reply) = IF m.payload.type = "announce" /\ m.payload.tx \notin known[q][x]
                        THEN {Message("request", m.payload.tx)}
                        ELSE IF m.payload.type = "request" THEN {Message("response", m.payload.tx)}
                        ELSE {}
      /\ knows[x] = known[q][x] \cup IF m.payload.type = "response" THEN {m.payload.tx} ELSE {}
  <2>1. ASSUME NEW t \in Nat, NEW type \in Exchanges
        PROVE  /\ <<Message(type, t)>> \in Seq(PeerMessage)
               /\ \A i, j \in DOMAIN <<Message(type, t)>> : i = j
               /\ ToSet(<<Message(type, t)>>) = {Message(type, t)}
    <3>1. Message(type, t) \in PeerMessage
      BY DEF Message, PeerMessage
    <3>2. \A e : DOMAIN <<e>> = {1} /\ <<e>>[1] = e
      OBVIOUS
    <3>3. \A e \in PeerMessage : <<e>> \in Seq(PeerMessage)
      OBVIOUS
    <3> QED BY <3>1, <3>2, <3>3 DEF ToSet
  <2>2. <<>> \in Seq(PeerMessage) /\ DOMAIN <<>> = {} /\ ToSet(<<>>) = {}
    BY DEF ToSet
  <2>3. "request" \in Exchanges /\ "response" \in Exchanges
    BY DEF Exchanges
  <2>4. CASE m.payload.type = "announce" /\ m.payload.tx \notin known[q][x]
    <3>1. m.payload.tx \in Nat /\ reply = <<Message("request", m.payload.tx)>>
      BY <2>4, <1>1, <1>2 DEF Replies, Exchanges
    <3> QED BY <2>1, <2>3, <2>4, <3>1 DEF Replies
  <2>5. CASE m.payload.type = "request"
    <3>1. m.payload.tx \in Nat /\ reply = <<Message("response", m.payload.tx)>>
      BY <2>5, <1>1, <1>2 DEF Replies, Exchanges
    <3> QED BY <2>1, <2>3, <2>5, <3>1 DEF Replies
  <2>6. CASE ~(m.payload.type = "announce" /\ m.payload.tx \notin known[q][x]) /\ m.payload.type # "request"
    <3>1. reply = <<>>
      BY <2>6 DEF Replies
    <3> QED BY <2>2, <2>6, <3>1 DEF Replies
  <2> QED BY <2>4, <2>5, <2>6
<1> HIDE DEF New, outs, U
<1>5. Sent(New, q, txs, x, reply, others)
  <2>1. New = Scheduled(q, others \o Collect(q, Outbox(txs, x, reply)), m.arrival)
    BY DEF New, outs
  <2> QED BY <1>1, <1>2, <1>4, <2>1, HandlerMessages
<1>6. ASSUME NEW n \in New
      PROVE  /\ n.from = q /\ n.to \in Servers /\ n.arrival \in Nat
             /\ n.payload.type = "initialBroadcast" => n.payload.tx \in 1..generated'
             /\ n.payload.type \in Exchanges =>
                  /\ n.to \in ToSet(peers[q])
                  /\ n.to # x => n.payload.type = "announce" /\ n.payload.tx \in U
                  /\ n.to = x => n.payload \in ToSet(reply)
  <2>1. n.from = q /\ n.to \in Servers /\ n.arrival \in Nat
    BY <1>5 DEF Sent
  <2>2. CASE \E i \in DOMAIN others : n.payload = others[i].payload
    <3>1. PICK i \in DOMAIN others : n.payload = others[i].payload
      BY <2>2
    <3>2. others[i] \in OtherOutgoing
      OBVIOUS
    <3>3. others[i].payload.type \notin Exchanges
      BY <3>2 DEF OtherOutgoing, Exchanges
    <3> QED BY <2>1, <3>1, <3>3
  <2>3. CASE /\ n.to \in ToSet(peers[q])
             /\ IF n.to # x THEN \E t \in U : n.payload = Message("announce", t)
                ELSE n.payload \in ToSet(reply)
    <3>0. \A type, t : Message(type, t).type = type /\ Message(type, t).tx = t
      BY DEF Message
    <3>1. ASSUME n.to # x PROVE n.payload.type = "announce" /\ n.payload.tx \in U
      <4>1. PICK t \in U : n.payload = Message("announce", t)
        BY <2>3, <3>1
      <4> QED BY <4>1, <3>0
    <3>2. n.payload.type # "initialBroadcast"
      <4>1. n.to = x => n.payload \in {Message("request", m.payload.tx), Message("response", m.payload.tx)}
        BY <2>3, <1>4
      <4> QED BY <3>0, <3>1, <4>1
    <3> QED BY <2>1, <2>3, <3>1, <3>2
  <2> QED BY <2>2, <2>3, <1>5 DEF Sent, U
<1>7. /\ \A a \in Servers : received'[a] = received[a] \cup IF a = q THEN U ELSE {}
      /\ \A a, b \in Servers :
           known'[a][b] = known[a][b] \cup
             IF a # q THEN {}
             ELSE IF b = x THEN IF m.payload.type = "response" THEN {m.payload.tx} ELSE {}
             ELSE IF b \in ToSet(peers[q]) THEN U ELSE {}
      /\ \A a, b \in Servers : a # q => known'[a][b] = known[a][b]
      /\ DOMAIN received' = Servers /\ DOMAIN known' = Servers
  <2>1. /\ received \in [Servers -> SUBSET (1..generated)]
        /\ known \in [Servers -> [Servers -> SUBSET Tx]]
    BY DEF PullInv, PullTypes
  <2>2. \A b \in Servers : knows[b] = known[q][b] \cup
          IF b = x /\ m.payload.type = "response" THEN {m.payload.tx} ELSE {}
    BY <1>4
  <2> QED BY <2>1, <2>2, <1>1, <1>3
<1>8. PullTypes'
  <2>1. received' \in [Servers -> SUBSET (1..generated')]
    <3>1. \A a \in Servers : received[a] \subseteq 1..generated
      BY DEF PullInv, PullTypes
    <3>2. ASSUME NEW a \in Servers PROVE received'[a] \subseteq 1..generated'
      <4>1. received'[a] \subseteq received[a] \cup U
        BY <1>7
      <4> QED BY <4>1, <3>1, <1>2
    <3>3. received' = [a \in Servers |-> received'[a]]
      BY <1>3, <1>7 DEF PullInv, PullTypes
    <3> QED BY <3>2, <3>3
  <2>2. known' \in [Servers -> [Servers -> SUBSET Tx]]
    <3>1. \A b \in Servers : knows[b] \subseteq Tx
      <4>1. \A b \in Servers : known[q][b] \subseteq Tx
        BY <1>1 DEF PullInv, PullTypes
      <4>2. m.payload.type = "response" => m.payload.tx \in Tx
        BY <1>1, <1>2 DEF Exchanges
      <4> QED BY <4>1, <4>2, <1>4
    <3>2. [p \in Servers |-> knows[p] \cup IF p # x /\ p \in ToSet(peers[q]) THEN U ELSE {}]
            \in [Servers -> SUBSET Tx]
      BY <3>1, <1>2
    <3> QED BY <3>2, <1>1, <1>3 DEF PullInv, PullTypes
  <2>3. IsFiniteSet(mq')
    <3>1. IsFiniteSet(mq) /\ IsFiniteSet(New)
      BY <1>5 DEF PullInv, PullTypes, Sent
    <3>2. IsFiniteSet(mq \ {m})
      BY <3>1, FS_Difference
    <3> QED BY <3>1, <3>2, <1>3, FS_Union
  <2>4. generated' \in 0..MaxTx
    BY <1>2
  <2> QED BY <2>1, <2>2, <2>3, <2>4 DEF PullTypes
<1>9. Addressed'
  <2> SUFFICES ASSUME NEW n \in mq'
               PROVE  /\ n.to \in Servers
                      /\ n.arrival \in Nat
                      /\ n.payload.type = "initialBroadcast" => n.payload.tx \in 1..generated'
                      /\ n.payload.type \in Exchanges =>
                           /\ n.payload.tx \in 1..generated'
                           /\ n.from \in ToSet(peers[n.to])
    BY DEF Addressed
  <2>1. CASE n \in New
    <3>1. n.payload.type \in Exchanges => n.from \in ToSet(peers[n.to])
      BY <2>1, <1>1, <1>6, PeersProperties
    <3>2. ASSUME n.payload.type \in Exchanges PROVE n.payload.tx \in 1..generated'
      <4>1. CASE n.to # x
        BY <2>1, <3>2, <4>1, <1>2, <1>6
      <4>2. CASE n.to = x
        <5>1. n.payload \in ToSet(reply)
          BY <2>1, <3>2, <4>2, <1>6
        <5>2. n.payload.tx = m.payload.tx /\ m.payload.type \in Exchanges
          BY <5>1, <1>4 DEF Message, Exchanges
        <5> QED BY <5>2, <1>1, <1>2
      <4> QED BY <4>1, <4>2
    <3> QED BY <2>1, <3>1, <3>2, <1>6
  <2>2. CASE n \in mq
    BY <2>2, <1>2 DEF PullInv, Addressed
  <2> QED BY <2>1, <2>2, <1>3
<1>10. ASSUME NEW s \in Servers, NEW p \in ToSet(peers[s]), NEW t \in Tx
       PROVE  ExchangeOK(p, s, t)'
  <2>1. /\ p \in Servers /\ p # s /\ s \in ToSet(peers[p])
        /\ ExchangeOK(p, s, t)
    BY PeersProperties DEF PullInv
  <2>2. Exchange(p, s, t) = {n \in mq : Belongs(n, p, s, t)}
        /\ Exchange(p, s, t)' = {n \in mq' : Belongs(n, p, s, t)}
    BY ExchangeBelongs
  <2>3. /\ received[p] \subseteq received'[p]
        /\ known[p][s] \subseteq known'[p][s] /\ known[s][p] \subseteq known'[s][p]
    BY <2>1, <1>7
  <2>4. /\ \A n : Belongs(n, p, s, t) => n.payload.type \in Exchanges /\ n.payload.tx = t
        /\ Belongs(m, p, s, t) => x = m.from
        /\ x = q => ~Belongs(m, p, s, t)
    <3>1. \A n : Belongs(n, p, s, t) => n.payload.type \in Exchanges /\ n.payload.tx = t
      BY DEF Belongs, Exchanges
    <3>2. Belongs(m, p, s, t) => m.from # q
      BY <2>1 DEF Belongs
    <3> QED BY <3>1, <3>2
  <2>5. ASSUME ~Belongs(m, p, s, t), \A n \in New : ~Belongs(n, p, s, t),
               t \in known'[p][s] => t \in known[p][s] \cup known'[s][p]
        PROVE  ExchangeOK(p, s, t)'
    <3>1. Exchange(p, s, t)' = Exchange(p, s, t)
      BY <2>2, <2>5, <1>3
    <3> QED BY <2>1, <2>3, <2>5, <3>1, ExchangeKept
  <2>6. ASSUME Exchange(p, s, t) \subseteq {m}, t \in known'[p][s] \cap received'[p],
               NEW n \in New, Belongs(n, p, s, t)
        PROVE  ExchangeOK(p, s, t)'
    <3>2. \A o \in New : Belongs(o, p, s, t) => o.to = n.to
      <4> TAKE o \in New
      <4>1. o.from = q /\ n.from = q
        BY <1>6
      <4> QED BY <2>1, <2>6, <4>1 DEF Belongs
    <3>3. \A o \in New : Belongs(o, p, s, t) => o = n
      BY <2>4, <2>6, <3>2, <1>5 DEF Sent
    <3>4. Exchange(p, s, t)' = {n}
      BY <2>2, <2>6, <3>3, <1>3
    <3> QED BY <2>6, <3>4 DEF ExchangeOK
  <2>7. ASSUME q # p, q # s PROVE ExchangeOK(p, s, t)'
    <3>1. ~Belongs(m, p, s, t) /\ \A n \in New : ~Belongs(n, p, s, t)
      BY <2>7, <1>6 DEF Belongs
    <3>2. known'[p][s] = known[p][s]
      BY <2>1, <2>7, <1>7
    <3> QED BY <2>5, <3>1, <3>2
  <2>8. ASSUME q = p, s # x PROVE ExchangeOK(p, s, t)'
    <3>1. CASE t \in U
      <4>1. Exchange(p, s, t) = {}
        BY <2>1, <2>8, <3>1 DEF ExchangeOK, U
      <4>2. t \in known'[p][s] /\ t \in received'[p]
        BY <2>1, <2>8, <3>1, <1>7
      <4>3. PICK n \in New : n.to = s /\ n.payload = Message("announce", t)
        BY <2>1, <2>8, <3>1, <1>5 DEF Sent, U
      <4>4. Belongs(n, p, s, t)
        BY <2>8, <4>3, <1>6 DEF Belongs, Message
      <4> QED BY <2>6, <4>1, <4>2, <4>4
    <3>2. CASE t \notin U
      <4>1. ~Belongs(m, p, s, t)
        BY <2>1, <2>4, <2>8 DEF Belongs
      <4>2. ASSUME NEW n \in New, Belongs(n, p, s, t) PROVE FALSE
        <5>1. n.payload.type \in Exchanges /\ n.payload.tx = t /\ n.to = s
          BY <2>1, <2>4, <2>8, <4>2, <1>6 DEF Belongs
        <5> QED BY <2>8, <3>2, <4>2, <5>1, <1>6
      <4>3. known'[p][s] = known[p][s] \cup U
        BY <2>1, <2>8, <1>7
      <4> QED BY <2>5, <3>2, <4>1, <4>2, <4>3
    <3> QED BY <3>1, <3>2
  <2>9. ASSUME q = s, p # x PROVE ExchangeOK(p, s, t)'
    <3>1. ~Belongs(m, p, s, t)
      BY <2>1, <2>4, <2>9 DEF Belongs
    <3>2. ASSUME NEW n \in New, Belongs(n, p, s, t) PROVE FALSE
      <4>1. n.payload.type = "request" /\ n.to = p
        BY <2>1, <2>9, <3>2, <1>6 DEF Belongs
      <4> QED BY <2>9, <3>2, <4>1, <1>6 DEF Exchanges
    <3>3. known'[p][s] = known[p][s]
      BY <2>1, <2>9, <1>7
    <3> QED BY <2>5, <3>1, <3>2, <3>3
  <2>10. ASSUME x = s \/ x = p, q = p \/ q = s, x # q
         PROVE  m.from = x /\ m.to = q
    BY <2>10
  <2>11. ASSUME q = p, x = s PROVE ExchangeOK(p, s, t)'
    <3>0. m.from = s /\ m.to = p
      BY <2>1, <2>10, <2>11
    <3>1. CASE m.payload.type = "request" /\ m.payload.tx = t
      <4>1. m \in Exchange(p, s, t)
        BY <2>2, <3>0, <3>1 DEF Belongs
      <4>2. Exchange(p, s, t) = {m} /\ t \in known[p][s] \cap received[p]
        BY <2>1, <4>1 DEF ExchangeOK
      <4>3. PICK n \in New : n.to = s /\ n.payload = Message("response", t)
        BY <2>1, <2>11, <3>1, <1>4, <1>5 DEF Sent
      <4>4. Belongs(n, p, s, t)
        BY <2>11, <4>3, <1>6 DEF Belongs, Message
      <4> QED BY <2>3, <2>6, <4>2, <4>4
    <3>2. CASE ~(m.payload.type = "request" /\ m.payload.tx = t)
      <4>1. ~Belongs(m, p, s, t)
        BY <2>1, <3>0, <3>2 DEF Belongs
      <4>2. ASSUME NEW n \in New, Belongs(n, p, s, t) PROVE FALSE
        <5>1. n.payload.tx = t /\ n.to = s /\ n.payload.type \in {"announce", "response"}
          BY <2>1, <2>11, <4>2, <1>6 DEF Belongs
        <5>2. n.payload \in ToSet(reply)
          BY <2>4, <2>11, <4>2, <5>1, <1>6
        <5> QED BY <3>2, <5>1, <5>2, <1>4 DEF Message
      <4>3. t \in known'[p][s] => t \in known[p][s] \cup known'[s][p]
        <5>1. known'[p][s] = known[p][s] \cup IF m.payload.type = "response" THEN {m.payload.tx} ELSE {}
          BY <2>1, <2>11, <1>7
        <5>2. CASE m.payload.type = "response" /\ m.payload.tx = t
          <6>1. m \in Exchange(s, p, t)
            BY <3>0, <5>2 DEF Exchange
          <6>2. t \in known[s][p]
            BY <2>1, <6>1 DEF PullInv, ExchangeOK
          <6> QED BY <2>3, <6>2
        <5> QED BY <5>1, <5>2
      <4> QED BY <2>5, <4>1, <4>2, <4>3
    <3> QED BY <3>1, <3>2
  <2>12. ASSUME q = s, x = p PROVE ExchangeOK(p, s, t)'
    <3>0. m.from = p /\ m.to = s /\ known'[p][s] = known[p][s]
      <4>1. m.from = p /\ m.to = s
        BY <2>1, <2>10, <2>12
      <4>2. known'[p][s] = known[p][s]
        BY <2>1, <2>12, <1>7
      <4> QED BY <4>1, <4>2
    <3>1. CASE m.payload.type \in {"announce", "response"} /\ m.payload.tx = t
      <4>1. m \in Exchange(p, s, t)
        BY <2>2, <3>0, <3>1 DEF Belongs
      <4>2. Exchange(p, s, t) = {m} /\ t \in known[p][s] \cap received[p]
        BY <2>1, <4>1 DEF ExchangeOK
      <4>3. CASE m.payload.type = "announce" /\ t \notin known[s][p]
        <5>1. PICK n \in New : n.to = p /\ n.payload = Message("request", t)
          BY <2>1, <2>12, <3>1, <4>3, <1>4, <1>5 DEF Sent
        <5>2. Belongs(n, p, s, t)
          BY <2>12, <5>1, <1>6 DEF Belongs, Message
        <5> QED BY <2>3, <2>6, <4>2, <5>2
      <4>4. CASE ~(m.payload.type = "announce" /\ t \notin known[s][p])
        <5>1. ASSUME NEW n \in New, Belongs(n, p, s, t) PROVE FALSE
          <6>1. n.payload.type = "request" /\ n.to = p
            BY <2>1, <2>12, <5>1, <1>6 DEF Belongs
          <6>2. n.payload \in ToSet(reply)
            BY <2>12, <6>1, <1>6 DEF Exchanges
          <6> QED BY <2>12, <3>1, <4>4, <6>1, <6>2, <1>4 DEF Message
        <5>2. Exchange(p, s, t)' = {}
          BY <2>2, <4>2, <5>1, <1>3
        <5>3. t \in known'[s][p]
          <6>1. CASE m.payload.type = "announce"
            BY <2>3, <4>4, <6>1
          <6>2. CASE m.payload.type = "response"
            BY <2>1, <2>12, <3>1, <6>2, <1>7
          <6> QED BY <3>1, <6>1, <6>2
        <5> QED BY <5>2, <5>3 DEF ExchangeOK
      <4> QED BY <4>3, <4>4
    <3>2. CASE ~(m.payload.type \in {"announce", "response"} /\ m.payload.tx = t)
      <4>1. ~Belongs(m, p, s, t)
        BY <2>1, <3>0, <3>2 DEF Belongs
      <4>2. ASSUME NEW n \in New, Belongs(n, p, s, t) PROVE FALSE
        <5>1. n.payload.type = "request" /\ n.payload.tx = t /\ n.to = p
          BY <2>1, <2>12, <4>2, <1>6 DEF Belongs
        <5>2. n.payload \in ToSet(reply)
          BY <2>12, <5>1, <1>6 DEF Exchanges
        <5> QED BY <3>2, <5>1, <5>2, <1>4 DEF Message
      <4> QED BY <2>5, <3>0, <4>1, <4>2
    <3> QED BY <3>1, <3>2
  <2> QED BY <2>7, <2>8, <2>9, <2>11, <2>12
<1> QED BY <1>8, <1>9, <1>10 DEF PullInv

(* A block arrival has no more transactions than there are.                 *)
LEMMA BurstProperties ==
  ASSUME PullInv
  PROVE  /\ Min({blockArrivalBurst, MaxTx - generated}) \in Nat
         /\ Min({blockArrivalBurst, MaxTx - generated}) <= MaxTx - generated
<1> DEFINE U == {blockArrivalBurst, MaxTx - generated}
           b == blockArrivalBurst + (MaxTx - generated)
<1>1. generated \in Nat /\ MaxTx \in Nat /\ generated <= MaxTx /\ blockArrivalBurst \in Nat
  BY PullSyncAssumption DEF PullInv, PullTypes
<1>2. b \in Nat /\ U \in SUBSET (0..b) /\ U # {} /\ MaxTx - generated \in U
  BY <1>1
<1>3. b \in Nat /\ U \in SUBSET Nat
  BY <1>1
<1> HIDE DEF U, b
<1>4. Min(U) \in U /\ \A i \in U : Min(U) <= i
  BY <1>2, MinProperties
<1>5. Min(U) \in Nat /\ Min(U) <= MaxTx - generated
  BY <1>2, <1>3, <1>4
<1> QED BY <1>5 DEF U

(* The transactions that a server generates are new.                        *)
LEMMA GeneratedProperties ==
  ASSUME PullInv, NEW s \in Servers, NEW n \in Nat, n <= MaxTx - generated
  PROVE  /\ generated + n \in generated..MaxTx
         /\ Generated(n) \in Seq(1..generated + n)
         /\ IsInjective(Generated(n))
         /\ ToSet(Generated(n)) \cap received[s] = {}
<1>1. /\ generated \in Nat /\ MaxTx \in Nat /\ generated <= MaxTx
      /\ received[s] \subseteq 1..generated
  BY PullSyncAssumption DEF PullInv, PullTypes
<1>2. \A i \in 1..n : generated + i \in 1..generated + n /\ generated + i \notin 1..generated
  BY <1>1
<1>3. generated + n \in generated..MaxTx
  BY <1>1
<1>4. Generated(n) \in Seq(1..generated + n) /\ DOMAIN Generated(n) = 1..n
      /\ \A i \in 1..n : Generated(n)[i] = generated + i
  BY <1>2 DEF Generated
<1>5. IsInjective(Generated(n))
  BY <1>1, <1>4 DEF IsInjective
<1> QED BY <1>1, <1>2, <1>3, <1>4, <1>5 DEF ToSet

(* initialFlood: the messages of a block arrival belong to no exchange.     *)
LEMMA FloodInv ==
  ASSUME PullInv, NEW m \in mq, m.payload.type \notin Exchanges,
         generated' \in generated..MaxTx,
         NEW txs \in Seq(1..generated'), ToSet(txs) \cap received[m.to] = {},
         NEW outs \in Seq(OtherOutgoing),
         \A i \in DOMAIN outs :
           outs[i].payload.type = "initialBroadcast" => outs[i].payload.tx \in 1..generated',
         Deliver(m, outs),
         received' = [received EXCEPT ![m.to] = @ \cup ToSet(txs)],
         known' = known
  PROVE  PullInv'
<1> DEFINE New == Scheduled(m.to, outs, m.arrival)
<1>1. /\ m.to \in Servers /\ m.arrival \in Nat /\ mq' = (mq \ {m}) \cup New
      /\ received \in [Servers -> SUBSET (1..generated)]
  BY DEF PullInv, PullTypes, Addressed, Deliver
<1>2. /\ generated \in Nat /\ generated' \in Nat /\ generated <= generated' /\ generated' <= MaxTx
      /\ ToSet(txs) \subseteq 1..generated' /\ 1..generated \subseteq 1..generated'
  <2>1. generated \in Nat /\ MaxTx \in Nat
    BY PullSyncAssumption DEF PullInv, PullTypes
  <2>2. generated' \in Nat /\ generated <= generated' /\ generated' <= MaxTx
    BY <2>1
  <2>3. ToSet(txs) \subseteq 1..generated'
    BY DEF ToSet
  <2> QED BY <2>1, <2>2, <2>3
<1>3. /\ DOMAIN outs = 1..Len(outs) /\ Len(outs) \in Nat
      /\ \A i \in 1..Len(outs) :
           /\ outs[i].payload.type \notin Exchanges
           /\ outs[i].to \in Servers /\ outs[i].delay \in Nat
  <2>1. DOMAIN outs = 1..Len(outs) /\ Len(outs) \in Nat /\ \A i \in 1..Len(outs) : outs[i] \in OtherOutgoing
    OBVIOUS
  <2> QED BY <2>1 DEF OtherOutgoing, Exchanges
<1>4. ASSUME NEW n \in New
      PROVE  /\ n.to \in Servers /\ n.arrival \in Nat /\ n.payload.type \notin Exchanges
             /\ n.payload.type = "initialBroadcast" => n.payload.tx \in 1..generated'
  <2>1. PICK i \in 1..Len(outs) :
          n = [arrival |-> m.arrival + outs[i].delay, seq |-> seq + i - 1,
               from |-> m.to, to |-> outs[i].to, payload |-> outs[i].payload]
    BY <1>3 DEF Scheduled
  <2>2. n.to = outs[i].to /\ n.arrival = m.arrival + outs[i].delay /\ n.payload = outs[i].payload
    BY <2>1
  <2>3. m.arrival + outs[i].delay \in Nat
    BY <1>1, <1>3
  <2> QED BY <2>2, <2>3, <1>3
<1>5. IsFiniteSet(New)
  <2> DEFINE f == [i \in 1..Len(outs) |->
                    [arrival |-> m.arrival + outs[i].delay, seq |-> seq + i - 1,
                     from |-> m.to, to |-> outs[i].to, payload |-> outs[i].payload]]
  <2>1. New = {f[i] : i \in 1..Len(outs)}
    BY <1>3 DEF Scheduled
  <2>2. IsFiniteSet(1..Len(outs))
    BY <1>3, FS_Interval
  <2> HIDE DEF f
  <2>3. IsFiniteSet({f[i] : i \in 1..Len(outs)})
    BY <2>2, FiniteImage
  <2> QED BY <2>1, <2>3
<1> HIDE DEF New
<1>6. PullTypes'
  <2>1. received' \in [Servers -> SUBSET (1..generated')]
    BY <1>1, <1>2
  <2>2. IsFiniteSet(mq')
    <3>1. IsFiniteSet(mq \ {m})
      BY FS_Difference DEF PullInv, PullTypes
    <3> QED BY <3>1, <1>1, <1>5, FS_Union
  <2> QED BY <2>1, <2>2, <1>2 DEF PullInv, PullTypes
<1>7. Addressed'
  <2> SUFFICES ASSUME NEW n \in mq'
               PROVE  /\ n.to \in Servers
                      /\ n.arrival \in Nat
                      /\ n.payload.type = "initialBroadcast" => n.payload.tx \in 1..generated'
                      /\ n.payload.type \in Exchanges =>
                           /\ n.payload.tx \in 1..generated'
                           /\ n.from \in ToSet(peers[n.to])
    BY DEF Addressed
  <2>1. CASE n \in New
    BY <2>1, <1>4
  <2>2. CASE n \in mq
    BY <2>2, <1>2 DEF PullInv, Addressed
  <2> QED BY <2>1, <2>2, <1>1
<1>8. ASSUME NEW s \in Servers, NEW p \in ToSet(peers[s]), NEW t \in Tx
      PROVE  ExchangeOK(p, s, t)'
  <2>1. p \in Servers /\ ExchangeOK(p, s, t)
    BY PeersProperties DEF PullInv
  <2>2. \A n : Belongs(n, p, s, t) => n.payload.type \in Exchanges
    BY DEF Belongs, Exchanges
  <2>3. Exchange(p, s, t)' = Exchange(p, s, t)
    <3>1. /\ Exchange(p, s, t) = {n \in mq : Belongs(n, p, s, t)}
          /\ Exchange(p, s, t)' = {n \in mq' : Belongs(n, p, s, t)}
      BY ExchangeBelongs
    <3> QED BY <3>1, <2>2, <1>1, <1>4
  <2>4. received[p] \subseteq received'[p]
    BY <2>1, <1>1
  <2> QED BY <2>1, <2>3, <2>4, ExchangeKept
<1> QED BY <1>6, <1>7, <1>8 DEF PullInv

(* What a block arrival floods, and the next one.                           *)
LEMMA NextArrival ==
  ASSUME NEW s \in Servers, NEW delay \in Nat, NEW next, next \in {<<BlockArrival(s, delay)>>, <<>>}
  PROVE  next \in Seq(OtherOutgoing) /\ \A i \in DOMAIN next : next[i].payload.type = "blockArrival"
<1>1. BlockArrival(s, delay) \in OtherOutgoing /\ BlockArrival(s, delay).payload.type = "blockArrival"
  BY DEF BlockArrival, OtherOutgoing, Message
<1> HIDE DEF OtherOutgoing
<1>2. CASE next = <<>>
  BY <1>2
<1>3. CASE next = <<BlockArrival(s, delay)>>
  <2>1. \A e : e \in OtherOutgoing => <<e>> \in Seq(OtherOutgoing) /\ DOMAIN <<e>> = {1} /\ <<e>>[1] = e
    OBVIOUS
  <2> QED BY <2>1, <1>1, <1>3
<1> QED BY <1>2, <1>3

FloodMessage(s, T) ==
  {o \in [payload : [type : {"initialBroadcast"}, tx : T], to : Servers, delay : Nat] :
     o.delay = Delay[s][o.to]}

Floods(s, n, txs) ==
  FlattenSeq([i \in 1..n |-> [j \in DOMAIN peers[s] |->
    [payload |-> Message("initialBroadcast", txs[i]),
     to |-> peers[s][j], delay |-> Delay[s][peers[s][j]]]]])

LEMMA FloodsProperties ==
  ASSUME NEW s \in Servers, NEW T, NEW n \in Nat, NEW txs, \A i \in 1..n : txs[i] \in T
  PROVE  Floods(s, n, txs) \in Seq(FloodMessage(s, T))
<1> DEFINE flood(i) == [j \in DOMAIN peers[s] |->
             [payload |-> Message("initialBroadcast", txs[i]),
              to |-> peers[s][j], delay |-> Delay[s][peers[s][j]]]]
           ss == [i \in 1..n |-> flood(i)]
<1>1. /\ peers[s] \in Seq(Servers) /\ DOMAIN peers[s] = 1..Len(peers[s]) /\ Len(peers[s]) \in Nat
      /\ \A j \in 1..Len(peers[s]) : peers[s][j] \in Servers
  <2>1. peers[s] \in Seq(Servers)
    BY PeersProperties
  <2> QED BY <2>1
<1>2. ASSUME NEW i \in 1..n PROVE flood(i) \in Seq(FloodMessage(s, T))
  <2>1. \A j \in 1..Len(peers[s]) :
          [payload |-> Message("initialBroadcast", txs[i]),
           to |-> peers[s][j], delay |-> Delay[s][peers[s][j]]] \in FloodMessage(s, T)
    <3>1. \A p \in Servers : Delay[s][p] \in Nat
      BY EventQueueAssumption, PullSyncAssumption
    <3> QED BY <3>1, <1>1 DEF FloodMessage, Message
  <2> QED BY <2>1, <1>1
<1> HIDE DEF flood
<1>3. ss \in Seq(Seq(FloodMessage(s, T)))
  BY <1>2
<1> HIDE DEF ss
<1>4. FlattenSeq(ss) \in Seq(FloodMessage(s, T))
  BY <1>3, FlattenSeqProperties
<1> QED BY <1>4 DEF ss, flood, Floods

LEMMA BlockArrivalInv ==
  ASSUME PullInv, NEW m \in mq, HandleBlockArrival(m)
  PROVE  PullInv'
<1> DEFINE s == m.to
           n == Min({blockArrivalBurst, MaxTx - generated})
           txs == Generated(n)
           floods == Floods(s, n, txs)
<1>1. s \in Servers
  BY DEF PullInv, Addressed
<1>2. n \in Nat /\ n <= MaxTx - generated /\ generated' = generated + n
      /\ m.payload.type = "blockArrival"
  BY BurstProperties DEF HandleBlockArrival
<1>3. PICK intv \in Intervals :
        LET next == IF generated' < MaxTx THEN <<BlockArrival(s, intv)>> ELSE <<>> IN
        IF s \in Flooding
        THEN /\ Deliver(m, floods \o next)
             /\ received' = [received EXCEPT ![s] = @ \cup ToSet(txs)]
             /\ UNCHANGED known
        ELSE Handle(m, txs, s, known[s], <<>>, next)
  BY DEF HandleBlockArrival, Floods
<1> DEFINE next == IF generated' < MaxTx THEN <<BlockArrival(s, intv)>> ELSE <<>>
<1>4. IF s \in Flooding
      THEN /\ Deliver(m, floods \o next)
           /\ received' = [received EXCEPT ![s] = @ \cup ToSet(txs)]
           /\ known' = known
      ELSE Handle(m, txs, s, known[s], <<>>, next)
  BY <1>3
<1>5. intv \in Nat
  BY PullSyncAssumption
<1> HIDE DEF n, next
<1>6. /\ generated' \in generated..MaxTx
      /\ txs \in Seq(1..generated') /\ IsInjective(txs)
      /\ ToSet(txs) \cap received[s] = {}
  BY <1>1, <1>2, GeneratedProperties
<1>7. next \in Seq(OtherOutgoing) /\ \A i \in DOMAIN next : next[i].payload.type = "blockArrival"
  BY <1>1, <1>5, NextArrival DEF next
<1>8. /\ DOMAIN txs = 1..n
      /\ \A i \in 1..n : txs[i] \in 1..generated' /\ txs[i] \in Nat
  <2>1. DOMAIN txs = 1..n
    BY DEF Generated
  <2> HIDE DEF txs
  <2>2. \A k : k \in 1..generated' => k \in Nat
    OBVIOUS
  <2> DEFINE S == 1..generated'
  <2>3. txs \in Seq(S)
    BY <1>6
  <2> HIDE DEF S
  <2>4. \A i \in DOMAIN txs : txs[i] \in S
    BY <2>3
  <2> QED BY <2>1, <2>2, <2>4 DEF S
<1> HIDE DEF txs
<1>9. CASE s \in Flooding
  <2> DEFINE Flood == FloodMessage(s, 1..generated')
  <2>3. \A o \in Flood : o \in OtherOutgoing /\ o.payload.tx \in 1..generated'
    BY DEF FloodMessage, OtherOutgoing
  <2> HIDE DEF Flood
  <2>4. floods \in Seq(Flood)
    BY <1>1, <1>2, <1>8, FloodsProperties DEF Flood
  <2> DEFINE outs == floods \o next
  <2> HIDE DEF floods
  <2>5. outs \in Seq(OtherOutgoing)
    <3>1. floods \in Seq(OtherOutgoing)
      BY <2>3, <2>4
    <3> QED BY <3>1, <1>7
  <2>6. \A i \in DOMAIN outs :
          outs[i].payload.type = "initialBroadcast" => outs[i].payload.tx \in 1..generated'
    <3> TAKE i \in DOMAIN outs
    <3>1. /\ Len(floods) \in Nat /\ Len(next) \in Nat /\ DOMAIN next = 1..Len(next)
          /\ DOMAIN outs = 1..Len(floods) + Len(next)
          /\ outs[i] = IF i <= Len(floods) THEN floods[i] ELSE next[i - Len(floods)]
      BY <2>4, <1>7
    <3> HIDE DEF outs
    <3>2. CASE i <= Len(floods)
      <4>1. i \in 1..Len(floods)
        BY <3>1, <3>2
      <4>2. outs[i] \in Flood
        BY <2>4, <3>1, <3>2, <4>1
      <4> QED BY <4>2, <2>3
    <3>3. CASE ~(i <= Len(floods))
      <4>1. i - Len(floods) \in DOMAIN next
        BY <3>1, <3>3
      <4> QED BY <3>1, <3>3, <4>1, <1>7
    <3> QED BY <3>2, <3>3
  <2>7. Deliver(m, outs) /\ received' = [received EXCEPT ![s] = @ \cup ToSet(txs)] /\ known' = known
    BY <1>4, <1>9
  <2>8. m.payload.type \notin Exchanges
    BY <1>2 DEF Exchanges
  <2> HIDE DEF outs
  <2> QED BY <2>5, <2>6, <2>7, <2>8, <1>6, FloodInv
<1>10. CASE s \notin Flooding
  <2> DEFINE knows == known[s]
             reply == <<>>
  <2>1. Handle(m, txs, s, knows, reply, next)
    BY <1>4, <1>10
  <2>2. Replies(m, s, knows[s], reply)
    BY <1>2 DEF Replies
  <2>3. m.payload.type \notin Exchanges \cup {"initialBroadcast"}
    BY <1>2 DEF Exchanges
  <2>4. \A i \in DOMAIN next :
          next[i].payload.type = "initialBroadcast" => next[i].payload.tx \in 1..generated'
    BY <1>7
  <2>5. \A p \in Servers : p # s => knows[p] = known[s][p]
    OBVIOUS
  <2> HIDE DEF knows, reply
  <2> QED BY <2>1, <2>2, <2>3, <2>4, <2>5, <1>6, <1>7, HandleInv
<1> QED BY <1>9, <1>10

(* The messages of peers.                                                   *)
LEMMA FreshProperties ==
  ASSUME NEW s, NEW t, NEW S, t \in S
  PROVE  /\ Fresh(s, t) \in Seq(S) /\ IsInjective(Fresh(s, t))
         /\ ToSet(Fresh(s, t)) \cap received[s] = {}
<1>1. <<t>> \in Seq(S) /\ DOMAIN <<t>> = {1} /\ <<t>>[1] = t
  OBVIOUS
<1>2. <<>> \in Seq(S) /\ DOMAIN <<>> = {}
  OBVIOUS
<1>3. CASE t \in received[s]
  BY <1>2, <1>3 DEF Fresh, ToSet, IsInjective
<1>4. CASE t \notin received[s]
  BY <1>1, <1>4 DEF Fresh, ToSet, IsInjective
<1> QED BY <1>3, <1>4

LEMMA PeerMessageInv ==
  ASSUME PullInv, NEW m \in mq, m.payload.type \in Exchanges \cup {"initialBroadcast"},
         generated' = generated,
         NEW txs, txs \in {Fresh(m.to, m.payload.tx), <<>>},
         NEW knows, NEW reply, Replies(m, m.from, knows[m.from], reply),
         \A p \in Servers : p # m.from => knows[p] = known[m.to][p],
         Handle(m, txs, m.from, knows, reply, <<>>)
  PROVE  PullInv'
<1> DEFINE others == <<>>
<1>1. generated' \in generated..MaxTx
  BY PullSyncAssumption DEF PullInv, PullTypes
<1>2. m.payload.tx \in 1..generated'
  BY DEF PullInv, Addressed
<1>3. txs \in Seq(1..generated') /\ IsInjective(txs) /\ ToSet(txs) \cap received[m.to] = {}
  <2>1. CASE txs = Fresh(m.to, m.payload.tx)
    BY <2>1, <1>2, FreshProperties
  <2>2. CASE txs = <<>>
    BY <2>2 DEF ToSet, IsInjective
  <2> QED BY <2>1, <2>2
<1>4. /\ others \in Seq(OtherOutgoing)
      /\ \A i \in DOMAIN others :
           others[i].payload.type = "initialBroadcast" => others[i].payload.tx \in 1..generated'
  OBVIOUS
<1>5. Handle(m, txs, m.from, knows, reply, others)
  OBVIOUS
<1> HIDE DEF others
<1> QED BY <1>1, <1>3, <1>4, <1>5, HandleInv

LEMMA InitialBroadcastInv ==
  ASSUME PullInv, NEW m \in mq, HandleInitialBroadcast(m)
  PROVE  PullInv'
<1> DEFINE txs == Fresh(m.to, m.payload.tx)
           knows == known[m.to]
           reply == <<>>
<1>1. /\ m.payload.type = "initialBroadcast" /\ generated' = generated
      /\ Handle(m, txs, m.from, knows, reply, <<>>)
  BY DEF HandleInitialBroadcast
<1>2. Replies(m, m.from, knows[m.from], reply)
  BY <1>1 DEF Replies
<1>3. \A p \in Servers : p # m.from => knows[p] = known[m.to][p]
  OBVIOUS
<1>4. txs \in {Fresh(m.to, m.payload.tx), <<>>}
  OBVIOUS
<1> HIDE DEF txs, knows, reply
<1> QED BY <1>1, <1>2, <1>3, <1>4, PeerMessageInv

LEMMA AnnounceInv ==
  ASSUME PullInv, NEW m \in mq, HandleAnnounce(m)
  PROVE  PullInv'
<1> DEFINE txs == <<>>
           t == m.payload.tx
           knows == known[m.to]
           reply == IF t \in known[m.to][m.from] THEN <<>> ELSE <<Message("request", t)>>
<1>1. /\ m.payload.type = "announce" /\ generated' = generated
      /\ Handle(m, txs, m.from, knows, reply, <<>>)
  BY DEF HandleAnnounce
<1>2. Replies(m, m.from, knows[m.from], reply)
  BY <1>1 DEF Replies
<1>3. \A p \in Servers : p # m.from => knows[p] = known[m.to][p]
  OBVIOUS
<1>4. txs \in {Fresh(m.to, m.payload.tx), <<>>} /\ m.payload.type \in Exchanges
  BY <1>1 DEF Exchanges
<1> HIDE DEF txs, knows, reply
<1> QED BY <1>1, <1>2, <1>3, <1>4, PeerMessageInv

LEMMA RequestInv ==
  ASSUME PullInv, NEW m \in mq, HandleRequest(m)
  PROVE  PullInv'
<1> DEFINE txs == <<>>
           t == m.payload.tx
           knows == known[m.to]
           reply == <<Message("response", IF t \in known[m.to][m.from] THEN t ELSE 0)>>
<1>1. /\ m.payload.type = "request" /\ generated' = generated
      /\ Handle(m, txs, m.from, knows, reply, <<>>)
  BY DEF HandleRequest
<1>2. t \in known[m.to][m.from]
  <2>1. m.to \in Servers /\ m.from \in ToSet(peers[m.to]) /\ t \in 1..generated
    BY <1>1 DEF PullInv, Addressed, Exchanges
  <2>2. m.from \in Servers /\ m.to \in ToSet(peers[m.from])
    BY <2>1, PeersProperties
  <2>3. t \in Tx
    <3>1. generated \in Nat /\ generated <= MaxTx /\ MaxTx \in Nat
      BY PullSyncAssumption DEF PullInv, PullTypes
    <3> QED BY <2>1, <3>1 DEF Tx
  <2>4. m \in Exchange(m.to, m.from, t)
    BY <1>1 DEF Exchange
  <2> QED BY <2>2, <2>3, <2>4 DEF PullInv, ExchangeOK
<1>3. Replies(m, m.from, knows[m.from], reply)
  BY <1>1, <1>2 DEF Replies
<1>4. \A p \in Servers : p # m.from => knows[p] = known[m.to][p]
  OBVIOUS
<1>5. txs \in {Fresh(m.to, m.payload.tx), <<>>} /\ m.payload.type \in Exchanges
  BY <1>1 DEF Exchanges
<1> HIDE DEF txs, knows, reply
<1> QED BY <1>1, <1>3, <1>4, <1>5, PeerMessageInv

LEMMA ResponseInv ==
  ASSUME PullInv, NEW m \in mq, HandleResponse(m)
  PROVE  PullInv'
<1> DEFINE t == m.payload.tx
           txs == Fresh(m.to, t)
           knows == [known[m.to] EXCEPT ![m.from] = @ \cup {t}]
           reply == <<>>
<1>1. /\ m.payload.type = "response" /\ generated' = generated
      /\ Handle(m, txs, m.from, knows, reply, <<>>)
  BY DEF HandleResponse
<1>2. /\ m.to \in Servers /\ m.from \in Servers
      /\ known[m.to] \in [Servers -> SUBSET Tx]
  <2>1. m.to \in Servers /\ m.from \in ToSet(peers[m.to])
    BY <1>1 DEF PullInv, Addressed, Exchanges
  <2> QED BY <2>1, PeersProperties DEF PullInv, PullTypes
<1>3. Replies(m, m.from, knows[m.from], reply)
  BY <1>1, <1>2 DEF Replies
<1>4. \A p \in Servers : p # m.from => knows[p] = known[m.to][p]
  BY <1>2
<1>5. txs \in {Fresh(m.to, m.payload.tx), <<>>} /\ m.payload.type \in Exchanges
  BY <1>1 DEF Exchanges
<1> HIDE DEF txs, knows, reply
<1> QED BY <1>1, <1>3, <1>4, <1>5, PeerMessageInv

(* PullInv is inductive.                                                    *)
LEMMA PullInvariant == PullInit /\ [][PullNext]_vars => []PullInv
<1>1. PullInit => PullInv
  <2> SUFFICES ASSUME PullInit PROVE PullInv
    OBVIOUS
  <2>1. PICK intv \in [Servers -> Intervals] :
          mq = {[arrival |-> intv[s], seq |-> s, from |-> s, to |-> s,
                 payload |-> Message("blockArrival", 0)] : s \in Servers}
    BY DEF PullInit, InitSimulator
  <2>2. received = [s \in Servers |-> {}] /\ known = [s \in Servers |-> [p \in Servers |-> {}]]
        /\ generated = 0
    BY DEF PullInit, NewPulls
  <2>3. ASSUME NEW m \in mq
        PROVE  m.to \in Servers /\ m.arrival \in Nat /\ m.payload.type = "blockArrival"
    <3>1. PICK s \in Servers : m = [arrival |-> intv[s], seq |-> s, from |-> s, to |-> s,
                                    payload |-> Message("blockArrival", 0)]
      BY <2>1
    <3>2. intv[s] \in Nat
      BY PullSyncAssumption
    <3> QED BY <3>1, <3>2 DEF Message
  <2>4. IsFiniteSet(mq)
    <3> DEFINE f == [s \in Servers |-> [arrival |-> intv[s], seq |-> s, from |-> s, to |-> s,
                                        payload |-> Message("blockArrival", 0)]]
    <3>1. IsFiniteSet(Servers)
      <4>1. N - 1 \in Int /\ 0 \in Int
        BY ConnectionsProperties
      <4> QED BY <4>1, FS_Interval DEF Servers
    <3>2. mq = {f[s] : s \in Servers}
      BY <2>1
    <3> HIDE DEF f
    <3>3. IsFiniteSet({f[s] : s \in Servers})
      BY <3>1, FiniteImage
    <3> QED BY <3>2, <3>3
  <2>5. PullTypes
    BY <2>2, <2>4, PullSyncAssumption DEF PullTypes
  <2>6. Addressed
    BY <2>3 DEF Addressed, Exchanges
  <2>7. ASSUME NEW s \in Servers, NEW p \in ToSet(peers[s]), NEW t \in Tx PROVE ExchangeOK(p, s, t)
    <3>1. Exchange(p, s, t) = {}
      BY <2>3 DEF Exchange
    <3>2. known[p][s] = {}
      BY <2>2, PeersProperties
    <3> QED BY <3>1, <3>2 DEF ExchangeOK
  <2> QED BY <2>5, <2>6, <2>7 DEF PullInv
<1>2. PullInv /\ [PullNext]_vars => PullInv'
  <2> SUFFICES ASSUME PullInv, [PullNext]_vars PROVE PullInv'
    OBVIOUS
  <2>1. ASSUME NEW m \in mq, HandleBlockArrival(m) PROVE PullInv'
    BY <2>1, BlockArrivalInv
  <2>2. ASSUME NEW m \in mq, HandleInitialBroadcast(m) PROVE PullInv'
    BY <2>2, InitialBroadcastInv
  <2>3. ASSUME NEW m \in mq, HandleAnnounce(m) PROVE PullInv'
    BY <2>3, AnnounceInv
  <2>4. ASSUME NEW m \in mq, HandleRequest(m) PROVE PullInv'
    BY <2>4, RequestInv
  <2>5. ASSUME NEW m \in mq, HandleResponse(m) PROVE PullInv'
    BY <2>5, ResponseInv
  <2>6. CASE UNCHANGED <<mq, received, known, generated>>
    BY <2>6 DEF PullInv, PullTypes, Addressed, ExchangeOK, Exchange
  <2>7. CASE HandleMessage
    BY <2>1, <2>2, <2>3, <2>4, <2>5, <2>7 DEF HandleMessage
  <2>8. CASE (Return \/ RunUntil) /\ UNCHANGED <<received, known, generated>>
    BY <2>6, <2>8 DEF Return, RunUntil, simulator
  <2>9. CASE UNCHANGED vars
    BY <2>6, <2>9 DEF vars, simulator
  <2> QED BY <2>7, <2>8, <2>9 DEF PullNext
<1> QED BY <1>1, <1>2, PTL

-----------------------------------------------------------------------------
(* A server and a peer of it exchange a transaction once, in the pull       *)
(* protocol: at most one message of it is under way between them, what is   *)
(* requested is there, and an announcement that is needed is not lost.      *)
THEOREM TransactionsExchangedOnce == PullSpec => []ExchangeOnce
<1>1. PullInv => ExchangeOnce
  <2> SUFFICES ASSUME PullInv, NEW s \in Servers
               PROVE  /\ 0 \notin received[s]
                      /\ \A p \in Servers : p \in ToSet(peers[s]) =>
                           \A t \in Tx :
                             /\ Cardinality(Exchange(p, s, t)) <= 1
                             /\ Exchange(p, s, t) # {} => t \in known[p][s] \cap received[p]
                             /\ t \in known[p][s] \ known[s][p] => Exchange(p, s, t) # {}
    BY DEF ExchangeOnce
  <2>1. 0 \notin received[s]
    <3>1. received[s] \subseteq 1..generated
      BY DEF PullInv, PullTypes
    <3> QED BY <3>1
  <2>2. ASSUME NEW p \in ToSet(peers[s]), NEW t \in Tx
        PROVE  ExchangeOK(p, s, t) /\ Cardinality(Exchange(p, s, t)) <= 1
    <3>1. ExchangeOK(p, s, t)
      BY DEF PullInv
    <3>2. CASE Exchange(p, s, t) = {}
      BY <3>1, <3>2, FS_EmptySet
    <3>3. ASSUME NEW m \in Exchange(p, s, t) PROVE Cardinality(Exchange(p, s, t)) <= 1
      <4>1. Exchange(p, s, t) = {m}
        BY <3>1, <3>3 DEF ExchangeOK
      <4> QED BY <4>1, FS_Singleton
    <3> QED BY <3>1, <3>2, <3>3
  <2> QED BY <2>1, <2>2 DEF ExchangeOK
<1> QED BY <1>1, PullInvariant, PTL DEF PullSpec
-----------------------------------------------------------------------------
(* The servers of the pull protocol are modules of the simulator.           *)
Returns(m) == \E outs \in Seq(OutgoingMessage(m.to)) : Deliver(m, outs)

LEMMA HandlerOutgoing ==
  ASSUME NEW q \in Servers, NEW txs \in Seq(0..MaxTx), IsInjective(txs), NEW x,
         NEW reply \in Seq(Messages), IsInjective(reply), NEW others \in Seq(OutgoingMessage(q))
  PROVE  others \o Collect(q, Outbox(txs, x, reply)) \in Seq(OutgoingMessage(q))
<1> DEFINE outbox == Outbox(txs, x, reply)
           c == Collect(q, outbox)
<1>1. Announcements(txs) \in Seq(Messages) /\ IsInjective(Announcements(txs))
  <2>1. \A t \in 0..MaxTx : Message("announce", t) \in Messages
    BY DEF Message, Messages
  <2>2. DOMAIN txs = 1..Len(txs) /\ Len(txs) \in Nat /\ \A i \in 1..Len(txs) : txs[i] \in 0..MaxTx
    <3> DEFINE T == 0..MaxTx
    <3>1. txs \in Seq(T)
      OBVIOUS
    <3> HIDE DEF T
    <3>2. DOMAIN txs = 1..Len(txs) /\ Len(txs) \in Nat /\ \A i \in 1..Len(txs) : txs[i] \in T
      BY <3>1
    <3> QED BY <3>2 DEF T
  <2>3. \A i, j \in DOMAIN txs : Message("announce", txs[i]) = Message("announce", txs[j]) => i = j
    BY DEF Message, IsInjective
  <2>4. \A i \in 1..Len(txs) : Message("announce", txs[i]) \in Messages
    BY <2>1, <2>2
  <2> HIDE DEF Messages
  <2>5. Announcements(txs) \in Seq(Messages)
    BY <2>2, <2>4 DEF Announcements
  <2> QED BY <2>3, <2>5 DEF Announcements, IsInjective
<1>2. outbox \in [Servers -> Seq(Messages)] /\ \A p \in Servers : IsInjective(outbox[p])
  BY <1>1 DEF Outbox
<1> HIDE DEF outbox, c
<1>3. /\ c \in Seq([payload : Messages, to : Servers, delay : Nat])
      /\ Range(c) = Outgoing(q, outbox)
  BY <1>2, CollectProperties DEF c
<1>4. ASSUME NEW o \in Range(c), o \in [payload : Messages, to : Servers, delay : Nat]
      PROVE  o \in OutgoingMessage(q)
  <2>1. o.delay = Delay[q][o.to]
    BY <1>3 DEF Outgoing
  <2>2. Modules = Servers /\ Payload = Messages
    BY PullSyncAssumption
  <2>3. o \in [payload : Payload, to : Modules, delay : Nat]
    BY <2>2, <1>4
  <2> QED BY <2>1, <2>3 DEF OutgoingMessage
<1>5. c \in Seq(OutgoingMessage(q))
  <2> DEFINE R == [payload : Messages, to : Servers, delay : Nat]
  <2>0. c \in Seq(R)
    BY <1>3
  <2> HIDE DEF R
  <2>1. DOMAIN c = 1..Len(c) /\ Len(c) \in Nat /\ \A i \in 1..Len(c) : c[i] \in R
    BY <2>0
  <2>2. \A i \in 1..Len(c) : c[i] \in Range(c)
    BY <2>1 DEF Range
  <2>3. \A i \in 1..Len(c) : c[i] \in OutgoingMessage(q)
    BY <2>1, <2>2, <1>4 DEF R
  <2> QED BY <2>0, <2>1, <2>3
<1> QED BY <1>5 DEF c, outbox

LEMMA HandleReturns ==
  ASSUME NEW m, m.to \in Servers, NEW txs \in Seq(0..MaxTx), IsInjective(txs), NEW x, NEW knows,
         NEW reply, reply = <<>> \/ \E r \in Messages : reply = <<r>>,
         NEW others \in Seq(OutgoingMessage(m.to)),
         Handle(m, txs, x, knows, reply, others)
  PROVE  Returns(m)
<1>1. reply \in Seq(Messages) /\ IsInjective(reply)
  <2>1. CASE reply = <<>>
    BY <2>1 DEF IsInjective
  <2>2. ASSUME NEW r \in Messages, reply = <<r>> PROVE reply \in Seq(Messages) /\ IsInjective(reply)
    <3>1. \A S : \A e \in S : <<e>> \in Seq(S) /\ DOMAIN <<e>> = {1}
      OBVIOUS
    <3> QED BY <2>2, <3>1 DEF IsInjective
  <2> QED BY <2>1, <2>2
<1>2. others \o Collect(m.to, Outbox(txs, x, reply)) \in Seq(OutgoingMessage(m.to))
  BY <1>1, HandlerOutgoing
<1>3. Deliver(m, others \o Collect(m.to, Outbox(txs, x, reply)))
  BY DEF Handle, Outbox, Announcements
<1> QED BY <1>2, <1>3 DEF Returns

(* The messages of peers.                                                   *)
LEMMA PeerReturns ==
  ASSUME NEW m, m.to \in Servers, m.payload \in Messages,
         \/ HandleInitialBroadcast(m) \/ HandleAnnounce(m) \/ HandleRequest(m) \/ HandleResponse(m)
  PROVE  Returns(m)
<1> DEFINE t == m.payload.tx
           T == 0..MaxTx
           others == <<>>
<1>1. t \in T
  BY DEF Messages
<1>2. \A u \in T, type \in {"request", "response"} : Message(type, u) \in Messages
  BY DEF Messages, Message
<1>3. 0 \in T
  BY PullSyncAssumption
<1>4. /\ Fresh(m.to, t) \in Seq(T) /\ IsInjective(Fresh(m.to, t))
      /\ <<>> \in Seq(T) /\ IsInjective(<<>>)
  <2>1. <<>> \in Seq(T) /\ IsInjective(<<>>)
    BY DEF IsInjective
  <2> HIDE DEF T
  <2> QED BY <2>1, <1>1, FreshProperties
<1>5. others \in Seq(OutgoingMessage(m.to)) /\ others = <<>>
  OBVIOUS
<1> HIDE DEF others
<1>6. CASE HandleInitialBroadcast(m)
  <2>1. Handle(m, Fresh(m.to, t), m.from, known[m.to], <<>>, others)
    BY <1>5, <1>6 DEF HandleInitialBroadcast
  <2> QED BY <2>1, <1>4, <1>5, HandleReturns
<1>7. CASE HandleAnnounce(m)
  <2> DEFINE reply == IF t \in known[m.to][m.from] THEN <<>> ELSE <<Message("request", t)>>
             txs == <<>>
  <2>1. Handle(m, txs, m.from, known[m.to], reply, others) /\ txs \in Seq(T) /\ IsInjective(txs)
    BY <1>4, <1>5, <1>7 DEF HandleAnnounce
  <2>2. reply = <<>> \/ \E r \in Messages : reply = <<r>>
    BY <1>1, <1>2
  <2> HIDE DEF reply, txs
  <2> QED BY <2>1, <2>2, <1>5, HandleReturns
<1>8. CASE HandleRequest(m)
  <2> DEFINE reply == <<Message("response", IF t \in known[m.to][m.from] THEN t ELSE 0)>>
             txs == <<>>
  <2>1. Handle(m, txs, m.from, known[m.to], reply, others) /\ txs \in Seq(T) /\ IsInjective(txs)
    BY <1>4, <1>5, <1>8 DEF HandleRequest
  <2>2. \E r \in Messages : reply = <<r>>
    BY <1>1, <1>2, <1>3
  <2> HIDE DEF reply, txs
  <2> QED BY <2>1, <2>2, <1>5, HandleReturns
<1>9. CASE HandleResponse(m)
  <2> DEFINE knows == [known[m.to] EXCEPT ![m.from] = @ \cup {t}]
  <2>1. Handle(m, Fresh(m.to, t), m.from, knows, <<>>, others)
    BY <1>5, <1>9 DEF HandleResponse
  <2> HIDE DEF knows
  <2> QED BY <2>1, <1>4, <1>5, HandleReturns
<1> QED BY <1>6, <1>7, <1>8, <1>9

LEMMA BlockArrivalReturns ==
  ASSUME PullInv, NEW m \in mq, HandleBlockArrival(m)
  PROVE  Returns(m)
<1> DEFINE s == m.to
           n == Min({blockArrivalBurst, MaxTx - generated})
           txs == Generated(n)
           T == 0..MaxTx
<1>1. s \in Servers
  BY DEF PullInv, Addressed
<1>2. n \in Nat /\ n <= MaxTx - generated
  BY BurstProperties
<1>3. PICK intv \in Intervals :
        LET next == IF generated' < MaxTx THEN <<BlockArrival(s, intv)>> ELSE <<>> IN
        IF s \in Flooding THEN Deliver(m, Floods(s, n, txs) \o next)
        ELSE Handle(m, txs, s, known[s], <<>>, next)
  BY DEF HandleBlockArrival, Floods
<1> DEFINE next == IF generated' < MaxTx THEN <<BlockArrival(s, intv)>> ELSE <<>>
<1>4. IF s \in Flooding THEN Deliver(m, Floods(s, n, txs) \o next)
      ELSE Handle(m, txs, s, known[s], <<>>, next)
  BY <1>3
<1>5. next \in Seq(OutgoingMessage(s))
  <2>1. intv \in Nat /\ 0 \in 0..MaxTx
    BY PullSyncAssumption
  <2>2. BlockArrival(s, intv) \in OutgoingMessage(s)
    BY <2>1, <1>1, PullSyncAssumption DEF BlockArrival, OutgoingMessage, Message, Messages
  <2>3. \A S : \A e \in S : <<e>> \in Seq(S) /\ <<>> \in Seq(S)
    OBVIOUS
  <2> QED BY <2>2, <2>3
<1> HIDE DEF n, next
<1>6. txs \in Seq(T) /\ IsInjective(txs) /\ \A i \in 1..n : txs[i] \in T
  <2>1. IsInjective(txs) /\ generated \in Nat /\ MaxTx \in Nat
    BY <1>1, <1>2, GeneratedProperties, PullSyncAssumption DEF PullInv, PullTypes
  <2>2. \A i \in 1..n : generated + i \in T
    BY <2>1, <1>2
  <2> HIDE DEF T
  <2> QED BY <2>1, <2>2, <1>2 DEF Generated
<1> HIDE DEF txs
<1>7. CASE s \in Flooding
  <2>1. Floods(s, n, txs) \in Seq(FloodMessage(s, T))
    BY <1>1, <1>2, <1>6, FloodsProperties
  <2>2. FloodMessage(s, T) \subseteq OutgoingMessage(s)
    BY PullSyncAssumption DEF FloodMessage, OutgoingMessage, Messages
  <2> DEFINE floods == Floods(s, n, txs)
             outs == floods \o next
  <2>3. floods \in Seq(OutgoingMessage(s))
    BY <2>1, <2>2
  <2>4. Deliver(m, outs)
    BY <1>4, <1>7
  <2> HIDE DEF floods
  <2>5. outs \in Seq(OutgoingMessage(s))
    BY <2>3, <1>5
  <2> HIDE DEF outs
  <2> QED BY <2>4, <2>5 DEF Returns
<1>8. CASE s \notin Flooding
  <2> DEFINE reply == <<>>
             knows == known[s]
  <2>1. Handle(m, txs, s, knows, reply, next) /\ reply = <<>>
    BY <1>4, <1>8
  <2> HIDE DEF reply, knows
  <2> QED BY <2>1, <1>1, <1>5, <1>6, HandleReturns
<1> QED BY <1>7, <1>8

(* Every step of the servers is one of the simulator.                       *)
LEMMA PullStep ==
  ASSUME PullInv, QueueInv, [PullNext]_vars
  PROVE  [QueueNext]_<<simulator, driver>>
<1>1. ASSUME NEW m \in mq, HandleMessage,
             \/ HandleBlockArrival(m) \/ HandleInitialBroadcast(m) \/ HandleAnnounce(m)
             \/ HandleRequest(m) \/ HandleResponse(m)
      PROVE  QueueStep(m)
  <2>1. m.to \in Servers /\ m.payload \in Messages
    BY PullSyncAssumption DEF QueueInv, QueueTypeOK, QueueMessage
  <2>2. Returns(m)
    BY <1>1, <2>1, PeerReturns, BlockArrivalReturns
  <2> QED BY <1>1, <2>2 DEF HandleMessage, QueueStep, Returns
<1>2. CASE HandleMessage
  BY <1>1, <1>2 DEF HandleMessage, QueueNext
<1>3. CASE Return \/ RunUntil
  BY <1>3 DEF QueueNext
<1>4. CASE UNCHANGED vars
  BY <1>4 DEF vars
<1> QED BY <1>2, <1>3, <1>4 DEF PullNext

LEMMA PullInitQueue == PullInit => QueueInv /\ Links!Init
<1> SUFFICES ASSUME PullInit PROVE QueueInv /\ Links!Init
  OBVIOUS
<1>1. PICK intv \in [Servers -> Intervals] :
        InitSimulator({[arrival |-> intv[s], seq |-> s, from |-> s, to |-> s,
                        payload |-> Message("blockArrival", 0)] : s \in Servers})
  BY DEF PullInit
<1> DEFINE f == [s \in Servers |-> [arrival |-> intv[s], seq |-> s, from |-> s, to |-> s,
                                    payload |-> Message("blockArrival", 0)]]
           first == {f[s] : s \in Servers}
<1>2. /\ time = 0 /\ mq = first /\ seq = Cardinality(first) /\ cur = 0 /\ running = TRUE
  BY <1>1 DEF InitSimulator
<1>3. N \in Nat /\ Servers = 0..N - 1
  BY ConnectionsProperties DEF Servers
<1>4. \A s \in Servers : s \in Nat /\ s < N /\ intv[s] \in Nat
  <2>1. \A s \in Servers : intv[s] \in Nat
    BY PullSyncAssumption
  <2> QED BY <2>1, <1>3
<1>5. \A s \in Servers : /\ f[s].arrival = intv[s] /\ f[s].seq = s /\ f[s].from = s /\ f[s].to = s
                         /\ f[s] \in QueueMessage
  <2>1. Message("blockArrival", 0) \in Payload
    BY PullSyncAssumption DEF Message, Messages
  <2> QED BY <2>1, <1>4, PullSyncAssumption DEF QueueMessage
<1>6. IsFiniteSet(Servers) /\ Cardinality(Servers) = N
  <2>1. 0 \in Int /\ N - 1 \in Int /\ IsFiniteSet(Servers)
    BY <1>3, FS_Interval
  <2>2. Cardinality(Servers) = IF 0 > N - 1 THEN 0 ELSE N - 1 - 0 + 1
    BY <2>1, <1>3, FS_Interval
  <2> QED BY <2>1, <2>2, <1>3
<1> HIDE DEF f
<1>7. IsFiniteSet(first) /\ Cardinality(first) = N
  <2>1. IsFiniteSet(first)
    BY <1>6, FiniteImage
  <2> DEFINE g == [s \in Servers |-> f[s]]
  <2>2. g \in Bijection(Servers, first)
    BY <1>5 DEF Bijection, Injection, Surjection, IsInjective
  <2> HIDE DEF g, first
  <2>3. Cardinality(first) = Cardinality(Servers)
    BY <2>2, <1>6, FS_Bijection DEF ExistsBijection
  <2> QED BY <2>1, <2>3, <1>6
<1>8. ASSUME NEW m \in mq
      PROVE  /\ m \in QueueMessage /\ 0 <= m.arrival /\ m.seq \in Nat /\ m.seq < N
             /\ m.from = m.to /\ m.seq = m.from /\ m = f[m.from]
  <2>1. PICK s \in Servers : m = f[s]
    BY <1>2
  <2> QED BY <2>1, <1>4, <1>5
<1>9. QueueTypeOK
  BY <1>2, <1>3, <1>7, <1>8 DEF QueueTypeOK
<1> HIDE DEF first
<1>10. Pending
  BY <1>2, <1>7, <1>8 DEF Pending
<1>11. IsNumbered(mq)
  BY <1>2, <1>7, <1>8 DEF IsNumbered
<1>12. InOrder
  BY <1>8 DEF InOrder
<1>13. EventsInTime
  BY <1>2, <1>8 DEF EventsInTime
<1>14. Links!Init
  <2>1. ASSUME NEW l \in Modules \X Modules PROVE Channel(mq, l) = <<>>
    <3>1. CASE l[1] # l[2]
      <4>1. OnLink(mq, l) = {}
        BY <3>1, <1>8 DEF OnLink
      <4> QED BY <4>1, FS_EmptySet DEF Channel
    <3>2. CASE l[1] = l[2]
      BY <3>2 DEF Channel
    <3> QED BY <3>1, <3>2
  <2> QED BY <2>1 DEF Links!Init
<1> QED BY <1>9, <1>10, <1>11, <1>12, <1>13, <1>14 DEF QueueInv

LEMMA PullQueueInvariant == PullInit /\ [][PullNext]_vars => [](PullInv /\ QueueInv)
<1>1. PullInit => QueueInv
  BY PullInitQueue
<1>2. PullInv /\ QueueInv /\ [PullNext]_vars => QueueInv'
  BY PullStep, QueueNextInv
<1> QED BY <1>1, <1>2, PullInvariant, PTL

(* The servers too are never handed a message of the past, and a report of  *)
(* main is about all that was due.                                          *)
THEOREM PullDeliversInTime == PullSpec => []EventsInTime
<1>1. QueueInv => EventsInTime
  BY DEF QueueInv
<1> QED BY <1>1, PullQueueInvariant, PTL DEF PullSpec

(* What the servers exchange goes through links that keep their order, and  *)
(* only the server that handles a message sends.                            *)
THEOREM PullImplementsLinks == PullSpec => ImplementsLinks
<1>1. PullInit => Links!Init
  BY PullInitQueue
<1>2. PullInv /\ QueueInv /\ [PullNext]_vars => [Links!Next]_(Channels(mq))
  BY PullStep, QueueLinks
<1> QED BY <1>1, <1>2, PullQueueInvariant, PTL DEF PullSpec, ImplementsLinks, Links!Spec, Channels
=============================================================================
