------------------------------ MODULE PullSync ------------------------------
(***************************************************************************)
(* The pull protocol of package newsim (newsim/pull.go) under the servers  *)
(* of newsim/module.go and the discrete event simulator: a server announces*)
(* a transaction to its peers, who request it unless they know it, and     *)
(* forward it in turn when it is new to them.                              *)
(*                                                                         *)
(* Transactions are numbers from 1; 0 is the zero value of a transaction,  *)
(* which a map returns for a key that it has not.                          *)
(***************************************************************************)
EXTENDS EventQueue, Topology

CONSTANTS
  Flooding,     \* servers with initialFlood
  blockArrivalBurst,
  Intervals,    \* bound: time between two block arrivals
  MaxTx         \* bound: transactions generated

Tx == 1..MaxTx

Messages ==
  [type : {"blockArrival", "initialBroadcast", "announce", "request", "response"}, tx : 0..MaxTx]

ASSUME PullSyncAssumption ==
  /\ Modules = Servers /\ Payload = Messages /\ Delay = Delays
  /\ Flooding \subseteq Servers
  /\ blockArrivalBurst \in Nat \ {0}
  /\ Intervals \subseteq Nat
  /\ MaxTx \in Nat

peers == [s \in Servers |-> PeerList(s)]

VARIABLES
  received,    \* transactions each server has
  known,       \* known[s][p]: what the handler of s for peer p knows
  generated    \* number of transactions generated

vars == <<simulator, driver, received, known, generated>>

Message(type, t) == [type |-> type, tx |-> t]
Generated(n) == [i \in 1..n |-> generated + i]
NewPulls == [s \in Servers |-> [p \in Servers |-> {}]]
BlockArrival(s, delay) == [payload |-> Message("blockArrival", 0), to |-> s, delay |-> delay]

-----------------------------------------------------------------------------
(* collectOutgoingMessages: outbox[p] is that of the handler for p.         *)
Collect(s, outbox) ==
  LET to(p) == [i \in DOMAIN outbox[p] |->
                  [payload |-> outbox[p][i], to |-> p, delay |-> Delay[s][p]]]
  IN FlattenSeq([i \in DOMAIN peers[s] |-> to(peers[s][i])])

(* Handle message m: s learns txs, in this order, and forwards them to all  *)
(* peers but one; its handlers' known was changed to knows before, and one  *)
(* of them replies.                                                         *)
Handle(m, txs, exclude, knows, reply, others) ==
  LET s == m.to
      fwd == [i \in DOMAIN txs |-> Message("announce", txs[i])]
      outbox == [p \in Servers |-> IF p # exclude THEN fwd ELSE reply]
  IN
  /\ Deliver(m, others \o Collect(s, outbox))
  /\ received' = [received EXCEPT ![s] = @ \cup ToSet(txs)]
  /\ known' = [known EXCEPT ![s] = [p \in Servers |->
                 knows[p] \cup IF p # exclude /\ p \in ToSet(peers[s]) THEN ToSet(txs) ELSE {}]]

FreshAlways(s, t) == <<t>>   \* mutant of Fresh: forwards what the server has

(* The transactions, of one that came from a peer, that are new to s.       *)
Fresh(s, t) == IF t \in received[s] THEN <<>> ELSE <<t>>

PullInit ==
  /\ \E intv \in [Servers -> Intervals] :
       InitSimulator({[arrival |-> intv[s], seq |-> s, from |-> s, to |-> s,
                       payload |-> Message("blockArrival", 0)] : s \in Servers})
  /\ received = [s \in Servers |-> {}]
  /\ known = NewPulls
  /\ generated = 0

(* blockArrival: new transactions, and the next arrival.                    *)
HandleBlockArrival(m) ==
  LET s == m.to
      n == Min({blockArrivalBurst, MaxTx - generated})
      txs == Generated(n)
      floods == FlattenSeq([i \in 1..n |-> [j \in DOMAIN peers[s] |->
                  [payload |-> Message("initialBroadcast", txs[i]),
                   to |-> peers[s][j], delay |-> Delay[s][peers[s][j]]]]])
  IN
  /\ m.payload.type = "blockArrival"
  /\ generated' = generated + n
  /\ \E intv \in Intervals :
       LET next == IF generated' < MaxTx THEN <<BlockArrival(s, intv)>> ELSE <<>> IN
       IF s \in Flooding
       THEN /\ Deliver(m, floods \o next)
            /\ received' = [received EXCEPT ![s] = @ \cup ToSet(txs)]
            /\ UNCHANGED known
       ELSE Handle(m, txs, s, known[s], <<>>, next)

HandleInitialBroadcast(m) ==
  /\ m.payload.type = "initialBroadcast"
  /\ Handle(m, Fresh(m.to, m.payload.tx), m.from, known[m.to], <<>>, <<>>)
  /\ UNCHANGED generated

HandleAnnounce(m) ==
  LET t == m.payload.tx IN
  /\ m.payload.type = "announce"
  /\ Handle(m, <<>>, m.from, known[m.to],
            IF t \in known[m.to][m.from] THEN <<>> ELSE <<Message("request", t)>>, <<>>)
  /\ UNCHANGED generated

HandleRequest(m) ==
  LET t == m.payload.tx IN
  /\ m.payload.type = "request"
  /\ Handle(m, <<>>, m.from, known[m.to],
            <<Message("response", IF t \in known[m.to][m.from] THEN t ELSE 0)>>, <<>>)
  /\ UNCHANGED generated

HandleResponseUnreported(m) ==   \* mutant of HandleResponse: the server is not told
  LET t == m.payload.tx IN
  /\ m.payload.type = "response"
  /\ Handle(m, <<>>, m.from, [known[m.to] EXCEPT ![m.from] = @ \cup {t}], <<>>, <<>>)
  /\ UNCHANGED generated

HandleResponse(m) ==
  LET t == m.payload.tx IN
  /\ m.payload.type = "response"
  /\ Handle(m, Fresh(m.to, t), m.from,
            [known[m.to] EXCEPT ![m.from] = @ \cup {t}], <<>>, <<>>)
  /\ UNCHANGED generated

HandleMessage ==
  /\ Delivers
  /\ \E m \in mq : HandleBlockArrival(m) \/ HandleInitialBroadcast(m) \/ HandleAnnounce(m)
                     \/ HandleRequest(m) \/ HandleResponse(m)
  /\ UNCHANGED driver

PullNext ==
  \/ HandleMessage
  \/ (Return \/ RunUntil) /\ UNCHANGED <<received, known, generated>>

(* main is a loop that nothing stops.                                       *)
PullSpec == PullInit /\ [][PullNext]_vars /\ WF_vars(PullNext)

-----------------------------------------------------------------------------
(* Messages under way about t, in the exchange that p starts with s.        *)
Exchange(p, s, t) ==
  {m \in mq : /\ m.payload.tx = t
              /\ \/ m.from = p /\ m.to = s /\ m.payload.type \in {"announce", "response"}
                 \/ m.from = s /\ m.to = p /\ m.payload.type = "request"}

(* A server and a peer of it exchange a transaction once: nothing of it is  *)
(* under way twice, although a server requests it from every peer that      *)
(* announces it; what is requested is known to the one who announced it, so *)
(* that no zero transaction is sent; and no announcement that is needed is  *)
(* lost.                                                                    *)
ExchangeOnce ==
  \A s, p \in Servers :
    /\ 0 \notin received[s]
    /\ p \in ToSet(peers[s]) =>
         \A t \in Tx :
           /\ Cardinality(Exchange(p, s, t)) <= 1
           /\ Exchange(p, s, t) # {} => t \in known[p][s] \cap received[p]
           /\ t \in known[p][s] \ known[s][p] => Exchange(p, s, t) # {}

(* The event queue keeps the links in order.  The i-th message of a link    *)
(* has i of it that were scheduled by then.                                 *)
InPlace(msgs, i) == CHOOSE m \in msgs : Cardinality({n \in msgs : n.seq <= m.seq}) = i

OnLink(msgs, l) == {m \in msgs : m.from = l[1] /\ m.to = l[2]}

Channel(msgs, l) ==
  IF l[1] = l[2] THEN <<>>
  ELSE [i \in 1..Cardinality(OnLink(msgs, l)) |-> InPlace(OnLink(msgs, l), i).payload]

Links == INSTANCE LinkFifo WITH
  channel <- [l \in Modules \X Modules |-> Channel(mq, l)]

ImplementsLinks == Links!Spec

(* All servers get all transactions, if the simulation is long enough.      *)
AllReceived == <>[](\A s \in Servers : received[s] = Tx)
=============================================================================
