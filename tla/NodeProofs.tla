----------------------------- MODULE NodeProofs -----------------------------
(***************************************************************************)
(* Package node, for any numbers of peers and transactions, any capacities *)
(* of the channels and any rates.                                          *)
(*                                                                         *)
(* NodeRelay: the wedge is permanent, nothing is skipped or sent that      *)
(* should not be, and echoes die out.  NodeLoss: the capacities and the    *)
(* floor of the rate are kept, and no loss report is lost or counted twice.*)
(***************************************************************************)
EXTENDS NodeRelay, NodeLoss, SequenceLemmas

(* Every peer has its channel to the receiver and its list of reports; all  *)
(* that the theorem needs to know of the reachable states.                  *)
PeersHave(f) == f = [p \in Peers |-> f[p]]
ReceiversThere == PeersHave(receiverNewTx) /\ PeersHave(buf)

(* newPeer makes the channels, and no step takes them away.                 *)
LEMMA ReceiversInv == Spec => []ReceiversThere
<1>1. Init => ReceiversThere
  BY DEF Init, ReceiversThere, PeersHave
<1>2. ReceiversThere /\ [Next]_vars => ReceiversThere'
  <2> SUFFICES ASSUME ReceiversThere, [Next]_vars PROVE ReceiversThere'
    OBVIOUS
  <2> USE DEF ReceiversThere, PeersHave, controllerVars, chanVars, peerVars
  <2>1. CASE \E t \in Local : Generate(t)
    BY <2>1 DEF Generate
  <2>2. CASE TakeLocal \/ TakeDecoded
    BY <2>2 DEF TakeLocal, TakeDecoded
  <2>3. CASE PutNext
    BY <2>3 DEF PutNext
  <2>4. ASSUME NEW p \in Peers, Connect(p) \/ TakeNewPeer(p) \/ Encode(p)
        PROVE  ReceiversThere'
    BY <2>4 DEF Connect, TakeNewPeer, Encode
  <2>5. ASSUME NEW p \in Peers, DecodeCodeword(p)
        PROVE  ReceiversThere'
    BY <2>5 DEF DecodeCodeword, Decodes
  <2>6. ASSUME NEW p \in Peers, AddTransaction(p)
        PROVE  ReceiversThere'
    BY <2>6 DEF AddTransaction, Decodes
  <2>7. ASSUME NEW p \in Peers, Report(p)
        PROVE  ReceiversThere'
    BY <2>7 DEF Report
  <2>8. CASE UNCHANGED vars
    BY <2>8 DEF vars
  <2> QED BY <2>1, <2>2, <2>3, <2>4, <2>5, <2>6, <2>7, <2>8 DEF Next
<1> QED BY <1>1, <1>2, PTL DEF Spec

-----------------------------------------------------------------------------
(* No step ends the wait of the controller for the receiver of w, nor that  *)
(* of this receiver for the controller.                                     *)
LEMMA WedgeStep ==
  ASSUME ReceiversThere, NEW w \in Peers, WedgedBy(w), [Next]_vars
  PROVE  WedgedBy(w)'
<1> USE DEF WedgedBy, controllerVars, chanVars, peerVars
<1>0. /\ puts # <<>>
      /\ Head(puts).peer = w /\ Head(puts).end = "receiver"
      /\ Len(receiverNewTx[w]) = ReceiverCap
      /\ buf[w] # <<>>
      /\ Len(decodedTransaction) = DecodedCap
      /\ DecodedCap \in Nat /\ ReceiverCap \in Nat
      /\ w \in DOMAIN receiverNewTx /\ w \in DOMAIN buf
  BY NodeRelayAssumption DEF ReceiversThere, PeersHave
<1>1. CASE \E t \in Local : Generate(t)
  BY <1>0, <1>1 DEF Generate
<1>2. ~TakeLocal /\ ~TakeDecoded
  BY <1>0 DEF TakeLocal, TakeDecoded
<1>3. ~PutNext
  BY <1>0 DEF PutNext
<1>4. ASSUME NEW p \in Peers, Connect(p) \/ TakeNewPeer(p) \/ Encode(p)
      PROVE  WedgedBy(w)'
  BY <1>0, <1>4 DEF Connect, TakeNewPeer, Encode
<1>5. ASSUME NEW p \in Peers, DecodeCodeword(p)
      PROVE  WedgedBy(w)'
  <2>1. p # w
    BY <1>0, <1>5 DEF DecodeCodeword
  <2>2. buf'[w] = buf[w]
    BY <2>1, <1>0, <1>5 DEF DecodeCodeword, Decodes
  <2> QED BY <1>0, <1>5, <2>2 DEF DecodeCodeword
<1>6. ASSUME NEW p \in Peers, AddTransaction(p)
      PROVE  WedgedBy(w)'
  <2>1. p # w
    BY <1>0, <1>6 DEF AddTransaction
  <2>2. buf'[w] = buf[w] /\ receiverNewTx'[w] = receiverNewTx[w]
    BY <2>1, <1>0, <1>6 DEF AddTransaction, Decodes
  <2> QED BY <1>0, <1>6, <2>2 DEF AddTransaction
<1>7. ASSUME NEW p \in Peers PROVE ~Report(p)
  BY <1>0 DEF Report
<1>8. CASE UNCHANGED vars
  BY <1>0, <1>8 DEF vars
<1> QED BY <1>1, <1>2, <1>3, <1>4, <1>5, <1>6, <1>7, <1>8 DEF Next

(* A controller that waits for a full newTxToReceiver whose receiver waits  *)
(* for a full decodedTransaction waits for ever, and so does the receiver.  *)
THEOREM WedgeNeverEnds == Spec => WedgeIsPermanent
<1>1. ReceiversThere /\ [Next]_vars => [Wedged => Wedged']_vars
  <2> SUFFICES ASSUME ReceiversThere, [Next]_vars, Wedged PROVE Wedged'
    OBVIOUS
  <2>1. PICK w \in Peers : WedgedBy(w)
    BY DEF Wedged
  <2>2. WedgedBy(w)'
    BY <2>1, WedgeStep
  <2> QED BY <2>2 DEF Wedged
<1> QED BY <1>1, ReceiversInv, PTL DEF Spec, WedgeIsPermanent

-----------------------------------------------------------------------------
(* What the controller still has to put into channel end of p.              *)
ToPut(p, end) == {t \in Tx : [peer |-> p, end |-> end, tx |-> t] \in Range(puts)}

(* What the controller took unexpired is with the encoder of p or on the    *)
(* way to it, and with the decoder of p or on the way to it.                *)
Sent ==
  \A p \in Peers : encoded[p] \cup Range(senderNewTx[p]) \cup ToPut(p, "sender") = toSend[p]

Told ==
  \A p \in Peers : toSend[p] \subseteq known[p] \cup Range(receiverNewTx[p]) \cup ToPut(p, "receiver")

(* Only a peer that is connected is told anything.                          *)
OnlyConnected ==
  /\ IsFiniteSet(connected)
  /\ \A u \in Range(puts) : u.peer \in connected
  /\ \A p \in Peers \ connected : known[p] = {} /\ receiverNewTx[p] = <<>>

(* The peers whose decoder has t, and those whose receiver is to report it. *)
Having(t) == {p \in connected : t \in known[p]}
Reporting(t) == {p \in connected : \E i \in DOMAIN buf[p] : buf[p][i].tx = t}

(* A receiver reports what its decoder has, each transaction once.          *)
ReportedOnce ==
  \A p \in Peers :
    /\ \A i \in DOMAIN buf[p] : buf[p][i].tx \in known[p]
    /\ \A i, j \in DOMAIN buf[p] : buf[p][i].tx = buf[p][j].tx => i = j

(* How often the controller took t or still will.                           *)
As(t) == {d \in Decoded : d.tx = t}
Taken(t) ==
  relays[t] + Count(localTransaction, {t}) + Count(decodedTransaction, As(t)) + Cardinality(Reporting(t))

(* Every time is accounted for by a decoder that learned t, or by the       *)
(* generator.                                                               *)
Accounted ==
  \A t \in Tx : Taken(t) <= Cardinality(Having(t)) + (IF t \in generated THEN 1 ELSE 0)

SpreadInv == TypeOK /\ Sent /\ Told /\ OnlyConnected
EchoInv == ReportedOnce /\ Accounted

-----------------------------------------------------------------------------
LEMMA TxFinite == IsFiniteSet(Tx) /\ Local \subseteq Tx /\ Remote \subseteq Tx
<1> QED BY NodeRelayAssumption, FS_Union DEF Tx

(* The lists of SetToSeqs have each element of the set once.                *)
LEMMA OrderProperties ==
  ASSUME NEW S, IsFiniteSet(S), NEW order \in SetToSeqs(S)
  PROVE  /\ order \in Seq(S)
         /\ \A i, j \in 1..Len(order) : order[i] = order[j] => i = j
<1>1. Cardinality(S) \in Nat
  BY FS_CardinalityType
<1>2. order \in [1..Cardinality(S) -> S] /\ \A i, j \in 1..Cardinality(S) : i # j => order[i] # order[j]
  BY DEF SetToSeqs
<1>3. order \in Seq(S) /\ Len(order) = Cardinality(S)
  BY <1>1, <1>2
<1> QED BY <1>2, <1>3

(* What receiver.decode is left with to report when the decoder decodes.    *)
LEMMA DecodesProperties ==
  ASSUME TypeOK, NEW p \in Peers, NEW base \in SUBSET Tx, NEW new \in SUBSET Tx, Decodes(p, base, new)
  PROVE  /\ known' \in [Peers -> SUBSET Tx] /\ buf' \in [Peers -> Seq(Decoded)]
         /\ \A q \in Peers : /\ known'[q] = IF q = p THEN base \cup new ELSE known[q]
                             /\ q # p => buf'[q] = buf[q]
         /\ \A i \in DOMAIN buf'[p] : buf'[p][i].tx \in new
         /\ \A i, j \in DOMAIN buf'[p] : buf'[p][i].tx = buf'[p][j].tx => i = j
<1>1. PICK order \in SetToSeqs(new), expired \in SUBSET new :
        buf' = [buf EXCEPT ![p] =
                  [i \in 1..Len(order) |-> [tx |-> order[i], expired |-> order[i] \in expired]]]
  BY DEF Decodes
<1>2. order \in Seq(new) /\ \A i, j \in 1..Len(order) : order[i] = order[j] => i = j
  BY TxFinite, FS_Subset, OrderProperties
<1>3. buf'[p] = [i \in 1..Len(order) |-> [tx |-> order[i], expired |-> order[i] \in expired]]
  BY <1>1 DEF TypeOK
<1>4. \A i \in 1..Len(order) : order[i] \in new /\ [tx |-> order[i], expired |-> order[i] \in expired] \in Decoded
  BY <1>2 DEF Decoded
<1>5. Len(order) \in Nat
  BY <1>2
<1>6. buf'[p] \in Seq(Decoded)
  BY <1>3, <1>4, <1>5
<1>7. buf' = [buf EXCEPT ![p] = buf'[p]]
  BY <1>1, <1>3
<1>8. buf' \in [Peers -> Seq(Decoded)] /\ \A q \in Peers : q # p => buf'[q] = buf[q]
  BY <1>6, <1>7 DEF TypeOK
<1>9. known' \in [Peers -> SUBSET Tx] /\ \A q \in Peers : known'[q] = IF q = p THEN base \cup new ELSE known[q]
  BY DEF Decodes, TypeOK
<1>10. /\ \A i \in DOMAIN buf'[p] : buf'[p][i].tx \in new
       /\ \A i, j \in DOMAIN buf'[p] : buf'[p][i].tx = buf'[p][j].tx => i = j
  BY <1>2, <1>3, <1>4
<1> QED BY <1>8, <1>9, <1>10

LEMMA DecodableType == ASSUME TypeOK, NEW p \in Peers PROVE Decodable(p) \subseteq Tx
<1> QED BY TxFinite DEF TypeOK, Decodable

(* The puts of one case of the select: the sender of each peer registered,  *)
(* unless the transaction is expired, and its receiver.                     *)
PutsOf(t, expired) ==
  {u \in Put : u.peer \in Range(peers) /\ u.tx = t /\ (expired => u.end = "receiver")}

LEMMA RelayProperties ==
  ASSUME TypeOK, puts = <<>>, NEW t \in Tx, NEW expired \in BOOLEAN, Relay(t, expired)
  PROVE  /\ puts' \in Seq(Put)
         /\ Range(puts') = PutsOf(t, expired)
         /\ relays' \in [Tx -> Nat] /\ toSend' \in [Peers -> SUBSET Tx]
         /\ \A s \in Tx : relays'[s] = relays[s] + (IF s = t THEN 1 ELSE 0)
         /\ \A p \in Peers : toSend'[p] = IF p \in Range(peers) /\ ~expired THEN toSend[p] \cup {t} ELSE toSend[p]
<1> DEFINE ss == [i \in 1..Len(peers) |-> Notify(peers[i], t, expired)]
           put(p, end) == [peer |-> p, end |-> end, tx |-> t]
<1>1. /\ peers \in Seq(Peers) /\ Len(peers) \in Nat
      /\ Range(peers) = {peers[i] : i \in 1..Len(peers)} /\ Range(peers) \subseteq Peers
  <2>1. peers \in Seq(Peers)
    BY SeqMonotonic DEF TypeOK
  <2> QED BY <2>1, RangeEquality, RangeOfSeq
<1>2. \A p \in Peers : /\ Notify(p, t, expired) \in Seq(Put)
                       /\ Range(Notify(p, t, expired)) =
                            IF expired THEN {put(p, "receiver")} ELSE {put(p, "sender"), put(p, "receiver")}
  <2> TAKE p \in Peers
  <2>1. put(p, "sender") \in Put /\ put(p, "receiver") \in Put
    BY DEF Put
  <2> HIDE DEF put
  <2>2. CASE expired
    <3>1. Notify(p, t, expired) = <<put(p, "receiver")>>
      BY <2>2 DEF Notify, put
    <3>2. <<put(p, "receiver")>> \in Seq(Put) /\ Range(<<put(p, "receiver")>>) = {put(p, "receiver")}
      BY <2>1 DEF Range
    <3> QED BY <2>2, <3>1, <3>2
  <2>3. CASE ~expired
    <3>1. Notify(p, t, expired) = <<put(p, "sender"), put(p, "receiver")>>
      BY <2>3 DEF Notify, put
    <3>2. Range(<<put(p, "sender"), put(p, "receiver")>>) = {put(p, "sender"), put(p, "receiver")}
      <4>1. DOMAIN <<put(p, "sender"), put(p, "receiver")>> = {1, 2}
        OBVIOUS
      <4> QED BY <4>1 DEF Range
    <3>3. <<put(p, "sender"), put(p, "receiver")>> \in Seq(Put)
      BY <2>1
    <3> QED BY <2>3, <3>1, <3>2, <3>3
  <2> QED BY <2>2, <2>3
<1>3. ss \in Seq(Seq(Put)) /\ Len(ss) = Len(peers) /\ \A i \in 1..Len(peers) : ss[i] = Notify(peers[i], t, expired)
  BY <1>1, <1>2
<1> HIDE DEF ss
<1>4. puts' = FlattenSeq(ss)
  BY DEF Relay, ss
<1>5. puts' \in Seq(Put) /\ Range(puts') = UNION {Range(ss[i]) : i \in 1..Len(ss)}
  BY <1>3, <1>4, FlattenSeqProperties
<1>6. ASSUME NEW u
      PROVE  u \in Range(puts') <=> u \in PutsOf(t, expired)
  <2>1. u \in Range(puts') <=> \E i \in 1..Len(peers) : u \in Range(Notify(peers[i], t, expired))
    BY <1>3, <1>5
  <2>2. u \in Range(puts') <=> \E p \in Range(peers) : u \in Range(Notify(p, t, expired))
    BY <1>1, <2>1
  <2>3. \A p \in Peers : u \in Range(Notify(p, t, expired)) <=>
          u = put(p, "receiver") \/ (~expired /\ u = put(p, "sender"))
    BY <1>2
  <2>4. u \in Put => u = [peer |-> u.peer, end |-> u.end, tx |-> u.tx] /\ u.end \in {"sender", "receiver"}
    BY DEF Put
  <2>5. ASSUME u \in Range(puts')
        PROVE  u \in Put /\ u.peer \in Range(peers) /\ u.tx = t /\ (expired => u.end = "receiver")
    BY <2>5, <2>2, <2>3, <1>1 DEF Put
  <2>6. ASSUME u \in Put, u.peer \in Range(peers), u.tx = t, expired => u.end = "receiver"
        PROVE  u \in Range(puts')
    BY <2>6, <2>2, <2>3, <2>4, <1>1
  <2> QED BY <2>5, <2>6 DEF PutsOf
<1>7. /\ relays' \in [Tx -> Nat] /\ toSend' \in [Peers -> SUBSET Tx]
      /\ \A s \in Tx : relays'[s] = relays[s] + (IF s = t THEN 1 ELSE 0)
      /\ \A p \in Peers : toSend'[p] = IF p \in Range(peers) /\ ~expired THEN toSend[p] \cup {t} ELSE toSend[p]
  BY DEF Relay, TypeOK
<1> QED BY <1>5, <1>6, <1>7

-----------------------------------------------------------------------------
LEMMA SpreadInit == Init => SpreadInv
<1> SUFFICES ASSUME Init PROVE SpreadInv
  OBVIOUS
<1>1. TypeOK
  BY NodeRelayAssumption DEF Init, TypeOK, IsInjective
<1>2. Range(puts) = {} /\ \A p \in Peers : Range(senderNewTx[p]) = {}
  BY DEF Init, Range
<1>3. Sent /\ Told /\ OnlyConnected
  BY <1>2, FS_EmptySet DEF Init, Sent, Told, OnlyConnected, ToPut
<1> QED BY <1>1, <1>3 DEF SpreadInv

LEMMA GenerateSpread == ASSUME SpreadInv, NEW t \in Local, Generate(t) PROVE SpreadInv'
<1> USE DEF controllerVars, chanVars, peerVars
<1>1. /\ localTransaction' = Append(localTransaction, t) /\ generated' = generated \cup {t}
      /\ Len(localTransaction) < LocalCap
      /\ UNCHANGED <<decodedTransaction, peers, puts, relays, toSend, senderNewTx, receiverNewTx,
                     connected, encoded, known, buf>>
  BY DEF Generate
<1>2. TypeOK'
  <2>1. localTransaction' \in Seq(Local) /\ Len(localTransaction') <= LocalCap
    BY <1>1, NodeRelayAssumption DEF SpreadInv, TypeOK
  <2> QED BY <1>1, <2>1 DEF SpreadInv, TypeOK
<1>3. Sent' /\ Told' /\ OnlyConnected'
  BY <1>1 DEF SpreadInv, Sent, Told, OnlyConnected, ToPut
<1> QED BY <1>2, <1>3 DEF SpreadInv

LEMMA ConnectSpread == ASSUME SpreadInv, NEW p \in Peers, Connect(p) PROVE SpreadInv'
<1> USE DEF controllerVars, chanVars, peerVars
<1>1. /\ connected' = connected \cup {p}
      /\ UNCHANGED <<localTransaction, decodedTransaction, generated, peers, puts, relays, toSend,
                     senderNewTx, receiverNewTx, encoded, known, buf>>
  BY DEF Connect
<1>2. TypeOK'
  <2>1. peers \in Seq(connected')
    BY <1>1, SeqMonotonic DEF SpreadInv, TypeOK
  <2> QED BY <1>1, <2>1 DEF SpreadInv, TypeOK
<1>3. Sent' /\ Told'
  BY <1>1 DEF SpreadInv, Sent, Told, ToPut
<1>4. OnlyConnected'
  BY <1>1, FS_AddElement DEF SpreadInv, OnlyConnected
<1> QED BY <1>2, <1>3, <1>4 DEF SpreadInv

LEMMA TakeNewPeerSpread == ASSUME SpreadInv, NEW p \in Peers, TakeNewPeer(p) PROVE SpreadInv'
<1> USE DEF controllerVars, chanVars, peerVars
<1>1. /\ p \in connected /\ p \notin Range(peers) /\ peers' = Append(peers, p)
      /\ UNCHANGED <<localTransaction, decodedTransaction, generated, puts, relays, toSend,
                     senderNewTx, receiverNewTx, connected, encoded, known, buf>>
  BY DEF TakeNewPeer
<1>2. TypeOK'
  <2>1. peers \in Seq(connected) /\ IsInjective(peers)
    BY DEF SpreadInv, TypeOK
  <2>2. /\ peers' \in Seq(connected) /\ DOMAIN peers' = 1..Len(peers) + 1 /\ Len(peers) \in Nat
        /\ \A i \in 1..Len(peers) : peers'[i] = peers[i]
        /\ peers'[Len(peers) + 1] = p /\ DOMAIN peers = 1..Len(peers)
    BY <1>1, <2>1
  <2>3. \A i \in 1..Len(peers) : peers[i] # p
    BY <1>1, <2>2 DEF Range
  <2>4. ASSUME NEW i \in DOMAIN peers', NEW j \in DOMAIN peers', peers'[i] = peers'[j] PROVE i = j
    <3>1. CASE i \in 1..Len(peers) /\ j \in 1..Len(peers)
      BY <3>1, <2>1, <2>2, <2>4 DEF IsInjective
    <3>2. CASE ~(i \in 1..Len(peers) /\ j \in 1..Len(peers))
      BY <3>2, <2>2, <2>3, <2>4
    <3> QED BY <3>1, <3>2
  <2>5. IsInjective(peers')
    BY <2>4 DEF IsInjective
  <2> QED BY <1>1, <2>2, <2>5 DEF SpreadInv, TypeOK
<1>3. Sent' /\ Told' /\ OnlyConnected'
  BY <1>1 DEF SpreadInv, Sent, Told, OnlyConnected, ToPut
<1> QED BY <1>2, <1>3 DEF SpreadInv

(* The controller takes t; its channels are what changes besides.           *)
LEMMA RelaySpread ==
  ASSUME SpreadInv, puts = <<>>, NEW t \in Tx, NEW expired \in BOOLEAN, Relay(t, expired),
         localTransaction' \in Seq(Local), Len(localTransaction') <= LocalCap,
         decodedTransaction' \in Seq(Decoded), Len(decodedTransaction') <= DecodedCap,
         UNCHANGED <<generated, peers, senderNewTx, receiverNewTx, connected, encoded, known, buf>>
  PROVE  SpreadInv'
<1>1. TypeOK
  BY DEF SpreadInv
<1>2. /\ puts' \in Seq(Put)
      /\ Range(puts') = PutsOf(t, expired)
      /\ relays' \in [Tx -> Nat] /\ toSend' \in [Peers -> SUBSET Tx]
      /\ \A p \in Peers : toSend'[p] = IF p \in Range(peers) /\ ~expired THEN toSend[p] \cup {t} ELSE toSend[p]
  BY <1>1, RelayProperties
<1>3. TypeOK'
  BY <1>2 DEF SpreadInv, TypeOK
<1>4. \A p \in Peers : ToPut(p, "sender") = {} /\ ToPut(p, "receiver") = {}
  BY DEF ToPut, Range
<1>5. \A p \in Peers : /\ ToPut(p, "sender")' = IF p \in Range(peers) /\ ~expired THEN {t} ELSE {}
                       /\ ToPut(p, "receiver")' = IF p \in Range(peers) THEN {t} ELSE {}
  <2> SUFFICES ASSUME NEW p \in Peers, NEW end \in {"sender", "receiver"}, NEW s \in Tx
               PROVE  s \in ToPut(p, end)' <=> p \in Range(peers) /\ s = t /\ (expired => end = "receiver")
    BY DEF ToPut
  <2> DEFINE u == [peer |-> p, end |-> end, tx |-> s]
  <2>1. u \in Put /\ u.peer = p /\ u.tx = s /\ u.end = end
    BY DEF Put
  <2>2. s \in ToPut(p, end)' <=> u \in Range(puts')
    BY DEF ToPut
  <2> HIDE DEF u
  <2> QED BY <2>1, <2>2, <1>2 DEF PutsOf
<1>6. Sent'
  BY <1>2, <1>4, <1>5 DEF SpreadInv, Sent
<1>7. Told'
  BY <1>2, <1>4, <1>5 DEF SpreadInv, Told
<1>8. OnlyConnected'
  <2>1. Range(peers) \subseteq connected
    BY RangeOfSeq DEF SpreadInv, TypeOK
  <2> QED BY <2>1, <1>2 DEF SpreadInv, OnlyConnected, PutsOf
<1> QED BY <1>3, <1>6, <1>7, <1>8 DEF SpreadInv

LEMMA TakeSpread == ASSUME SpreadInv, TakeLocal \/ TakeDecoded PROVE SpreadInv'
<1> USE DEF controllerVars, chanVars, peerVars
<1>0. TypeOK
  BY DEF SpreadInv
<1>1. CASE TakeLocal
  <2>1. /\ Head(localTransaction) \in Local /\ Tail(localTransaction) \in Seq(Local)
        /\ Len(Tail(localTransaction)) <= LocalCap
    BY <1>0, <1>1, NodeRelayAssumption DEF TypeOK, TakeLocal
  <2>2. Head(localTransaction) \in Tx /\ FALSE \in BOOLEAN
    BY <2>1, TxFinite
  <2> QED BY <2>1, <2>2, <1>0, <1>1, RelaySpread DEF TakeLocal, TypeOK
<1>2. CASE TakeDecoded
  <2>1. /\ Head(decodedTransaction) \in Decoded /\ Tail(decodedTransaction) \in Seq(Decoded)
        /\ Len(Tail(decodedTransaction)) <= DecodedCap
    BY <1>0, <1>2, NodeRelayAssumption DEF TypeOK, TakeDecoded
  <2>2. Head(decodedTransaction).tx \in Tx /\ Head(decodedTransaction).expired \in BOOLEAN
    BY <2>1 DEF Decoded
  <2> QED BY <2>1, <2>2, <1>0, <1>2, RelaySpread DEF TakeDecoded, TypeOK
<1> QED BY <1>1, <1>2

(* A put moves its transaction from the list to the channel.                *)
LEMMA PutSpread == ASSUME SpreadInv, PutNext PROVE SpreadInv'
<1> USE DEF controllerVars, chanVars, peerVars
<1> DEFINE put == Head(puts)
<1>0. TypeOK
  BY DEF SpreadInv
<1>1. put \in Put /\ Tail(puts) \in Seq(Put) /\ puts' = Tail(puts) /\ Range(puts) = {put} \cup Range(puts')
  BY <1>0, HeadTailRange DEF PutNext, TypeOK
<1>2. put.peer \in Peers /\ put.tx \in Tx /\ put.end \in {"sender", "receiver"}
      /\ put = [peer |-> put.peer, end |-> put.end, tx |-> put.tx]
  BY <1>1 DEF Put
<1>3. /\ put.end = "sender" => /\ Len(senderNewTx[put.peer]) < SenderCap
                               /\ senderNewTx' = [senderNewTx EXCEPT ![put.peer] = Append(@, put.tx)]
                               /\ UNCHANGED receiverNewTx
      /\ put.end = "receiver" => /\ Len(receiverNewTx[put.peer]) < ReceiverCap
                                 /\ receiverNewTx' = [receiverNewTx EXCEPT ![put.peer] = Append(@, put.tx)]
                                 /\ UNCHANGED senderNewTx
      /\ UNCHANGED <<localTransaction, decodedTransaction, generated, peers, relays, toSend,
                     connected, encoded, known, buf>>
  BY <1>2 DEF PutNext
<1> HIDE DEF put
<1>4. \A p \in Peers : /\ senderNewTx[p] \in Seq(Tx) /\ Len(senderNewTx[p]) <= SenderCap
                       /\ receiverNewTx[p] \in Seq(Tx) /\ Len(receiverNewTx[p]) <= ReceiverCap
  BY <1>0 DEF TypeOK
<1>5. \A p \in Peers : Append(senderNewTx[p], put.tx) \in Seq(Tx) /\ Append(receiverNewTx[p], put.tx) \in Seq(Tx)
  BY <1>2, <1>4
<1>6. \A p \in Peers : /\ Len(Append(senderNewTx[p], put.tx)) = Len(senderNewTx[p]) + 1
                       /\ Len(Append(receiverNewTx[p], put.tx)) = Len(receiverNewTx[p]) + 1
  BY <1>2, <1>4
<1>7. /\ senderNewTx' \in [Peers -> Seq(Tx)] /\ receiverNewTx' \in [Peers -> Seq(Tx)]
      /\ \A p \in Peers : senderNewTx'[p] = IF p = put.peer /\ put.end = "sender"
                                            THEN Append(senderNewTx[p], put.tx) ELSE senderNewTx[p]
      /\ \A p \in Peers : receiverNewTx'[p] = IF p = put.peer /\ put.end = "receiver"
                                              THEN Append(receiverNewTx[p], put.tx) ELSE receiverNewTx[p]
  BY <1>0, <1>2, <1>3, <1>5 DEF TypeOK
<1>8. TypeOK'
  <2>1. \A p \in Peers : Len(senderNewTx'[p]) <= SenderCap /\ Len(receiverNewTx'[p]) <= ReceiverCap
    <3> SUFFICES ASSUME NEW p \in Peers
                 PROVE  Len(senderNewTx'[p]) <= SenderCap /\ Len(receiverNewTx'[p]) <= ReceiverCap
      OBVIOUS
    <3>1. Len(senderNewTx[p]) \in Nat /\ Len(receiverNewTx[p]) \in Nat /\ SenderCap \in Nat /\ ReceiverCap \in Nat
      BY <1>4, NodeRelayAssumption
    <3> QED BY <3>1, <1>3, <1>4, <1>6, <1>7
  <2> QED BY <2>1, <1>0, <1>1, <1>3, <1>7 DEF TypeOK
<1>9. \A p \in Peers : /\ Range(senderNewTx'[p]) = Range(senderNewTx[p]) \cup
                            (IF p = put.peer /\ put.end = "sender" THEN {put.tx} ELSE {})
                       /\ Range(receiverNewTx'[p]) = Range(receiverNewTx[p]) \cup
                            (IF p = put.peer /\ put.end = "receiver" THEN {put.tx} ELSE {})
  <2> TAKE p \in Peers
  <2>1. /\ Range(Append(senderNewTx[p], put.tx)) = Range(senderNewTx[p]) \cup {put.tx}
        /\ Range(Append(receiverNewTx[p], put.tx)) = Range(receiverNewTx[p]) \cup {put.tx}
    BY <1>2, <1>4, AppendRange
  <2> QED BY <2>1, <1>7
<1>10. \A p \in Peers : \A end \in {"sender", "receiver"} :
         ToPut(p, end) = ToPut(p, end)' \cup (IF p = put.peer /\ end = put.end THEN {put.tx} ELSE {})
  <2> SUFFICES ASSUME NEW p \in Peers, NEW end \in {"sender", "receiver"}, NEW t \in Tx
               PROVE  [peer |-> p, end |-> end, tx |-> t] \in Range(puts) <=>
                        \/ [peer |-> p, end |-> end, tx |-> t] \in Range(puts')
                        \/ p = put.peer /\ end = put.end /\ t = put.tx
    BY <1>2 DEF ToPut
  <2>1. [peer |-> p, end |-> end, tx |-> t] = put <=> p = put.peer /\ end = put.end /\ t = put.tx
    BY <1>2
  <2> QED BY <1>1, <2>1
<1>11. Sent'
  <2> SUFFICES ASSUME NEW p \in Peers
               PROVE  encoded'[p] \cup Range(senderNewTx'[p]) \cup ToPut(p, "sender")' = toSend'[p]
    BY DEF Sent
  <2>1. encoded[p] \cup Range(senderNewTx[p]) \cup ToPut(p, "sender") = toSend[p]
    BY DEF SpreadInv, Sent
  <2> QED BY <2>1, <1>3, <1>9, <1>10
<1>12. Told'
  <2> SUFFICES ASSUME NEW p \in Peers
               PROVE  toSend'[p] \subseteq known'[p] \cup Range(receiverNewTx'[p]) \cup ToPut(p, "receiver")'
    BY DEF Told
  <2>1. toSend[p] \subseteq known[p] \cup Range(receiverNewTx[p]) \cup ToPut(p, "receiver")
    BY DEF SpreadInv, Told
  <2> QED BY <2>1, <1>3, <1>9, <1>10
<1>13. OnlyConnected'
  <2>1. put.peer \in connected
    BY <1>1 DEF SpreadInv, OnlyConnected
  <2> QED BY <2>1, <1>1, <1>3, <1>7 DEF SpreadInv, OnlyConnected
<1> QED BY <1>8, <1>11, <1>12, <1>13 DEF SpreadInv

LEMMA EncodeSpread == ASSUME SpreadInv, NEW p \in Peers, Encode(p) PROVE SpreadInv'
<1> USE DEF controllerVars, chanVars, peerVars
<1> DEFINE t == Head(senderNewTx[p])
<1>0. TypeOK /\ senderNewTx[p] \in Seq(Tx) /\ Len(senderNewTx[p]) <= SenderCap
  BY DEF SpreadInv, TypeOK
<1>1. /\ encoded' = [encoded EXCEPT ![p] = @ \cup {t}] /\ senderNewTx' = [senderNewTx EXCEPT ![p] = Tail(@)]
      /\ UNCHANGED <<localTransaction, decodedTransaction, generated, peers, puts, relays, toSend,
                     receiverNewTx, connected, known, buf>>
      /\ senderNewTx[p] # <<>>
  BY DEF Encode
<1>2. /\ t \in Tx /\ Tail(senderNewTx[p]) \in Seq(Tx)
      /\ Range(senderNewTx[p]) = {t} \cup Range(Tail(senderNewTx[p]))
  BY <1>0, <1>1, HeadTailRange
<1>3. Len(Tail(senderNewTx[p])) <= SenderCap
  BY <1>0, <1>1, NodeRelayAssumption
<1> HIDE DEF t
<1>4. TypeOK'
  BY <1>0, <1>1, <1>2, <1>3 DEF TypeOK
<1>5. \A q \in Peers : /\ encoded'[q] = IF q = p THEN encoded[q] \cup {t} ELSE encoded[q]
                       /\ senderNewTx'[q] = IF q = p THEN Tail(senderNewTx[q]) ELSE senderNewTx[q]
  BY <1>0, <1>1 DEF TypeOK
<1>6. Sent'
  <2> SUFFICES ASSUME NEW q \in Peers
               PROVE  encoded'[q] \cup Range(senderNewTx'[q]) \cup ToPut(q, "sender")' = toSend'[q]
    BY DEF Sent
  <2>1. encoded[q] \cup Range(senderNewTx[q]) \cup ToPut(q, "sender") = toSend[q]
    BY DEF SpreadInv, Sent
  <2>2. ToPut(q, "sender")' = ToPut(q, "sender")
    BY <1>1 DEF ToPut
  <2>3. toSend'[q] = toSend[q]
    BY <1>1
  <2>4. CASE q = p
    BY <2>1, <2>2, <2>3, <2>4, <1>2, <1>5
  <2>5. CASE q # p
    BY <2>1, <2>2, <2>3, <2>5, <1>5
  <2> QED BY <2>4, <2>5
<1>7. Told' /\ OnlyConnected'
  BY <1>1 DEF SpreadInv, Told, OnlyConnected, ToPut
<1> QED BY <1>4, <1>6, <1>7 DEF SpreadInv

LEMMA DecodeCodewordSpread == ASSUME SpreadInv, NEW p \in Peers, DecodeCodeword(p) PROVE SpreadInv'
<1> USE DEF controllerVars, chanVars, peerVars
<1>0. TypeOK /\ known[p] \in SUBSET Tx
  BY DEF SpreadInv, TypeOK
<1>1. PICK base \in SUBSET Tx, new \in SUBSET Decodable(p) : base = known[p] /\ Decodes(p, base, new)
  BY <1>0 DEF DecodeCodeword
<1>2. p \in connected /\ UNCHANGED <<localTransaction, decodedTransaction, generated, peers, puts, relays, toSend,
                                     senderNewTx, receiverNewTx, connected, encoded>>
  BY DEF DecodeCodeword
<1>3. new \in SUBSET Tx
  BY <1>0, DecodableType
<1>4. /\ known' \in [Peers -> SUBSET Tx] /\ buf' \in [Peers -> Seq(Decoded)]
      /\ \A q \in Peers : known'[q] = IF q = p THEN base \cup new ELSE known[q]
  <2>1. TypeOK /\ base \in SUBSET Tx /\ new \in SUBSET Tx /\ Decodes(p, base, new)
    BY <1>0, <1>1, <1>3
  <2> QED BY <2>1, DecodesProperties
<1>5. TypeOK'
  BY <1>0, <1>2, <1>4 DEF TypeOK
<1>6. Sent' /\ OnlyConnected'
  BY <1>1, <1>2, <1>4 DEF SpreadInv, Sent, OnlyConnected, ToPut
<1>7. Told'
  BY <1>1, <1>2, <1>4 DEF SpreadInv, Told, ToPut
<1> QED BY <1>5, <1>6, <1>7 DEF SpreadInv

LEMMA AddTransactionSpread == ASSUME SpreadInv, NEW p \in Peers, AddTransaction(p) PROVE SpreadInv'
<1> USE DEF controllerVars, chanVars, peerVars
<1> DEFINE t == Head(receiverNewTx[p])
<1>0. TypeOK /\ known[p] \in SUBSET Tx /\ receiverNewTx[p] \in Seq(Tx) /\ Len(receiverNewTx[p]) <= ReceiverCap
  BY DEF SpreadInv, TypeOK
<1>1. /\ receiverNewTx[p] # <<>> /\ receiverNewTx' = [receiverNewTx EXCEPT ![p] = Tail(@)]
      /\ UNCHANGED <<localTransaction, decodedTransaction, generated, peers, puts, relays, toSend,
                     senderNewTx, connected, encoded>>
  BY DEF AddTransaction
<1>2. /\ t \in Tx /\ Tail(receiverNewTx[p]) \in Seq(Tx)
      /\ Range(receiverNewTx[p]) = {t} \cup Range(Tail(receiverNewTx[p]))
  BY <1>0, <1>1, HeadTailRange
<1>3. Len(Tail(receiverNewTx[p])) <= ReceiverCap
  BY <1>0, <1>1, NodeRelayAssumption
<1>4. /\ known' \in [Peers -> SUBSET Tx] /\ buf' \in [Peers -> Seq(Decoded)]
      /\ \A q \in Peers : q # p => known'[q] = known[q]
      /\ known[p] \cup {t} \subseteq known'[p]
  <2>1. CASE t \in known[p]
    BY <2>1, <1>0 DEF AddTransaction, TypeOK
  <2>2. CASE t \notin known[p]
    <3>1. PICK new \in SUBSET (Decodable(p) \ {t}) : Decodes(p, known[p] \cup {t}, new)
      BY <2>2 DEF AddTransaction
    <3>2. new \in SUBSET Tx /\ known[p] \cup {t} \in SUBSET Tx
      BY <1>0, <1>2, DecodableType
    <3> HIDE DEF t
    <3>3. /\ known' \in [Peers -> SUBSET Tx] /\ buf' \in [Peers -> Seq(Decoded)]
          /\ \A q \in Peers : known'[q] = IF q = p THEN (known[p] \cup {t}) \cup new ELSE known[q]
      BY <3>1, <3>2, <1>0, DecodesProperties, Zenon
    <3> QED BY <3>3
  <2> QED BY <2>1, <2>2
<1> HIDE DEF t
<1>5. TypeOK'
  BY <1>0, <1>1, <1>2, <1>3, <1>4 DEF TypeOK
<1>6. \A q \in Peers : receiverNewTx'[q] = IF q = p THEN Tail(receiverNewTx[q]) ELSE receiverNewTx[q]
  BY <1>0, <1>1 DEF TypeOK
<1>7. Sent'
  BY <1>1 DEF SpreadInv, Sent, ToPut
<1>8. Told'
  <2> SUFFICES ASSUME NEW q \in Peers
               PROVE  toSend'[q] \subseteq known'[q] \cup Range(receiverNewTx'[q]) \cup ToPut(q, "receiver")'
    BY DEF Told
  <2>1. toSend[q] \subseteq known[q] \cup Range(receiverNewTx[q]) \cup ToPut(q, "receiver")
    BY DEF SpreadInv, Told
  <2>2. ToPut(q, "receiver")' = ToPut(q, "receiver")
    BY <1>1 DEF ToPut
  <2>3. CASE q = p
    BY <2>1, <2>2, <2>3, <1>1, <1>2, <1>4, <1>6
  <2>4. CASE q # p
    BY <2>1, <2>2, <2>4, <1>1, <1>4, <1>6
  <2> QED BY <2>3, <2>4
<1>9. OnlyConnected'
  <2>1. p \in connected
    BY <1>1 DEF SpreadInv, OnlyConnected
  <2> QED BY <2>1, <1>1, <1>4, <1>6 DEF SpreadInv, OnlyConnected
<1> QED BY <1>5, <1>7, <1>8, <1>9 DEF SpreadInv

LEMMA ReportSpread == ASSUME SpreadInv, NEW p \in Peers, Report(p) PROVE SpreadInv'
<1> USE DEF controllerVars, chanVars, peerVars
<1>0. TypeOK /\ buf[p] \in Seq(Decoded)
  BY DEF SpreadInv, TypeOK
<1>1. /\ buf[p] # <<>> /\ Len(decodedTransaction) < DecodedCap
      /\ decodedTransaction' = Append(decodedTransaction, Head(buf[p])) /\ buf' = [buf EXCEPT ![p] = Tail(@)]
      /\ UNCHANGED <<localTransaction, generated, peers, puts, relays, toSend, senderNewTx, receiverNewTx,
                     connected, encoded, known>>
  BY DEF Report
<1>2. Head(buf[p]) \in Decoded /\ Tail(buf[p]) \in Seq(Decoded)
  BY <1>0, <1>1
<1>3. decodedTransaction' \in Seq(Decoded) /\ Len(decodedTransaction') <= DecodedCap
  BY <1>0, <1>1, <1>2, NodeRelayAssumption DEF TypeOK
<1>4. TypeOK'
  BY <1>0, <1>1, <1>2, <1>3 DEF TypeOK
<1>5. Sent' /\ Told' /\ OnlyConnected'
  BY <1>1 DEF SpreadInv, Sent, Told, OnlyConnected, ToPut
<1> QED BY <1>4, <1>5 DEF SpreadInv

LEMMA SpreadStep == SpreadInv /\ [Next]_vars => SpreadInv'
<1> SUFFICES ASSUME SpreadInv, [Next]_vars PROVE SpreadInv'
  OBVIOUS
<1>1. CASE UNCHANGED vars
  <2> USE DEF vars, controllerVars, chanVars, peerVars
  <2>1. TypeOK'
    BY <1>1 DEF SpreadInv, TypeOK
  <2>2. Sent' /\ Told' /\ OnlyConnected'
    BY <1>1 DEF SpreadInv, Sent, Told, OnlyConnected, ToPut
  <2> QED BY <2>1, <2>2 DEF SpreadInv
<1> QED BY <1>1, GenerateSpread, ConnectSpread, TakeNewPeerSpread, TakeSpread, PutSpread, EncodeSpread,
           DecodeCodewordSpread, AddTransactionSpread, ReportSpread DEF Next

LEMMA SpreadInvariant == Spec => []SpreadInv
<1> QED BY SpreadInit, SpreadStep, PTL DEF Spec

(* The channels keep their capacities, and a peer is registered once.       *)
THEOREM NodeRelayTypeOK == Spec => []TypeOK
<1>1. SpreadInv => TypeOK
  BY DEF SpreadInv
<1> QED BY <1>1, SpreadInvariant, PTL

(* Whenever controller.loop is at its select, the encoder of every peer has *)
(* or is about to have exactly what was taken unexpired since the peer was  *)
(* registered, and its decoder has it or is about to.                       *)
THEOREM RelayedExactly == Spec => []RelayExact
<1>1. ASSUME SpreadInv, puts = <<>>, NEW p \in Peers
      PROVE  /\ encoded[p] \cup Range(senderNewTx[p]) = toSend[p]
             /\ toSend[p] \subseteq known[p] \cup Range(receiverNewTx[p])
  <2>1. ToPut(p, "sender") = {} /\ ToPut(p, "receiver") = {}
    BY <1>1 DEF ToPut, Range
  <2> QED BY <1>1, <2>1 DEF SpreadInv, Sent, Told
<1>2. SpreadInv => RelayExact
  BY <1>1 DEF RelayExact
<1> QED BY <1>2, SpreadInvariant, PTL

-----------------------------------------------------------------------------
(* The numbers of Accounted are natural.                                    *)
LEMMA CountsAreNat ==
  ASSUME SpreadInv, NEW t \in Tx
  PROVE  /\ relays[t] \in Nat /\ Count(localTransaction, {t}) \in Nat
         /\ Count(decodedTransaction, As(t)) \in Nat
         /\ IsFiniteSet(Reporting(t)) /\ Cardinality(Reporting(t)) \in Nat
         /\ IsFiniteSet(Having(t)) /\ Cardinality(Having(t)) \in Nat
         /\ Cardinality(Having(t)) <= Cardinality(connected) /\ Cardinality(connected) \in Nat
<1>1. IsFiniteSet(connected) /\ TypeOK
  BY DEF SpreadInv, OnlyConnected
<1>2. Reporting(t) \subseteq connected /\ Having(t) \subseteq connected
  BY DEF Reporting, Having
<1>3. relays[t] \in Nat /\ Count(localTransaction, {t}) \in Nat /\ Count(decodedTransaction, As(t)) \in Nat
  BY <1>1, CountType DEF TypeOK
<1> QED BY <1>1, <1>2, <1>3, FS_Subset, FS_CardinalityType

LEMMA EchoInit == Init => EchoInv
<1> SUFFICES ASSUME Init PROVE EchoInv
  OBVIOUS
<1>1. SpreadInv
  BY SpreadInit
<1>2. ReportedOnce
  BY DEF Init, ReportedOnce
<1>3. ASSUME NEW t \in Tx
      PROVE  Taken(t) <= Cardinality(Having(t)) + (IF t \in generated THEN 1 ELSE 0)
  <2>1. relays[t] = 0 /\ t \notin generated /\ Reporting(t) = {} /\ Having(t) = {}
    BY DEF Init, Reporting, Having
  <2>2. Count(localTransaction, {t}) = 0 /\ Count(decodedTransaction, As(t)) = 0
    BY CountType, <1>1 DEF Init, SpreadInv, TypeOK
  <2> QED BY <2>1, <2>2, FS_EmptySet DEF Taken
<1> QED BY <1>2, <1>3 DEF EchoInv, Accounted

(* A step that neither takes, reports, learns nor generates anything.       *)
LEMMA EchoUnchanged ==
  ASSUME EchoInv,
         UNCHANGED <<relays, localTransaction, decodedTransaction, connected, known, buf, generated>>
  PROVE  EchoInv'
<1>1. \A t \in Tx : Taken(t)' = Taken(t) /\ Having(t)' = Having(t)
  BY DEF Taken, Having, Reporting
<1> QED BY <1>1 DEF EchoInv, ReportedOnce, Accounted

LEMMA GenerateEcho == ASSUME SpreadInv, EchoInv, NEW u \in Local, Generate(u) PROVE EchoInv'
<1> USE DEF controllerVars, chanVars, peerVars
<1>1. /\ u \notin generated /\ generated' = generated \cup {u} /\ localTransaction' = Append(localTransaction, u)
      /\ UNCHANGED <<relays, decodedTransaction, connected, known, buf>>
  BY DEF Generate
<1>2. ASSUME NEW t \in Tx
      PROVE  Taken(t)' <= Cardinality(Having(t)') + (IF t \in generated' THEN 1 ELSE 0)
  <2>1. Count(localTransaction', {t}) = Count(localTransaction, {t}) + (IF t = u THEN 1 ELSE 0)
    BY <1>1, CountAppend DEF SpreadInv, TypeOK
  <2>2. Reporting(t)' = Reporting(t) /\ Having(t)' = Having(t) /\ As(t)' = As(t)
    BY <1>1 DEF Reporting, Having
  <2>3. Taken(t) <= Cardinality(Having(t)) + (IF t \in generated THEN 1 ELSE 0)
    BY DEF EchoInv, Accounted
  <2> QED BY <2>1, <2>2, <2>3, <1>1, CountsAreNat DEF Taken
<1>3. ReportedOnce'
  BY <1>1 DEF EchoInv, ReportedOnce
<1> QED BY <1>2, <1>3 DEF EchoInv, Accounted

LEMMA ConnectEcho == ASSUME SpreadInv, EchoInv, NEW p \in Peers, Connect(p) PROVE EchoInv'
<1> USE DEF controllerVars, chanVars, peerVars
<1>1. /\ p \notin connected /\ connected' = connected \cup {p}
      /\ UNCHANGED <<relays, localTransaction, decodedTransaction, generated, known, buf>>
  BY DEF Connect
<1>2. known[p] = {}
  BY <1>1 DEF SpreadInv, OnlyConnected
<1>3. \A i \in DOMAIN buf[p] : FALSE
  BY <1>2 DEF EchoInv, ReportedOnce
<1>4. \A t \in Tx : Having(t)' = Having(t) /\ Reporting(t)' = Reporting(t)
  BY <1>1, <1>2, <1>3 DEF Having, Reporting
<1>5. Accounted'
  BY <1>1, <1>4 DEF EchoInv, Accounted, Taken
<1>6. ReportedOnce'
  BY <1>1 DEF EchoInv, ReportedOnce
<1> QED BY <1>5, <1>6 DEF EchoInv

LEMMA TakeEcho == ASSUME SpreadInv, EchoInv, TakeLocal \/ TakeDecoded PROVE EchoInv'
<1> USE DEF controllerVars, chanVars, peerVars
<1>0. TypeOK
  BY DEF SpreadInv
<1>1. UNCHANGED <<connected, known, buf, generated>>
  BY DEF TakeLocal, TakeDecoded
<1>2. ReportedOnce' /\ \A t \in Tx : Having(t)' = Having(t) /\ Reporting(t)' = Reporting(t)
  BY <1>1 DEF EchoInv, ReportedOnce, Having, Reporting
<1>3. ASSUME NEW t \in Tx PROVE Taken(t)' = Taken(t)
  <2>1. CASE TakeLocal
    <3> DEFINE u == Head(localTransaction)
    <3>1. /\ puts = <<>> /\ localTransaction # <<>> /\ localTransaction \in Seq(Local) /\ u \in Local /\ u \in Tx
          /\ localTransaction' = Tail(localTransaction) /\ decodedTransaction' = decodedTransaction
          /\ Relay(u, FALSE)
      <4>1. /\ puts = <<>> /\ localTransaction # <<>> /\ localTransaction' = Tail(localTransaction)
            /\ decodedTransaction' = decodedTransaction /\ Relay(u, FALSE)
        BY <2>1 DEF TakeLocal
      <4>2. localTransaction \in Seq(Local)
        BY <1>0 DEF TypeOK
      <4>3. u \in Local
        BY <4>1, <4>2
      <4> QED BY <4>1, <4>2, <4>3, TxFinite
    <3>2. Count(localTransaction, {t}) = Count(localTransaction', {t}) + (IF u \in {t} THEN 1 ELSE 0)
      BY <3>1, CountTail
    <3>3. Tail(localTransaction) \in Seq(Local)
      BY <3>1
    <3>4. Count(localTransaction', {t}) \in Nat
      BY <3>1, <3>3, CountType
    <3> HIDE DEF u
    <3>5. relays'[t] = relays[t] + (IF t = u THEN 1 ELSE 0)
      BY <3>1, <1>0 DEF Relay, TypeOK
    <3>6. /\ relays[t] \in Nat /\ Count(localTransaction, {t}) \in Nat /\ Cardinality(Reporting(t)) \in Nat
          /\ Count(decodedTransaction, As(t)) \in Nat
      BY CountsAreNat
    <3> QED BY <3>1, <3>2, <3>4, <3>5, <3>6, <1>2 DEF Taken
  <2>2. CASE TakeDecoded
    <3> DEFINE u == Head(decodedTransaction)
    <3>1. /\ puts = <<>> /\ decodedTransaction # <<>> /\ decodedTransaction \in Seq(Decoded) /\ u \in Decoded
          /\ localTransaction' = localTransaction /\ decodedTransaction' = Tail(decodedTransaction)
          /\ Relay(u.tx, u.expired)
      BY <2>2, <1>0 DEF TakeDecoded, TypeOK
    <3>2. Count(decodedTransaction, As(t)) = Count(decodedTransaction', As(t)) + (IF u \in As(t) THEN 1 ELSE 0)
      BY <3>1, CountTail
    <3>3. Tail(decodedTransaction) \in Seq(Decoded)
      BY <3>1
    <3>4. Count(decodedTransaction', As(t)) \in Nat
      BY <3>1, <3>3, CountType
    <3> HIDE DEF u
    <3>5. relays'[t] = relays[t] + (IF t = u.tx THEN 1 ELSE 0) /\ (u \in As(t) <=> t = u.tx)
      BY <3>1, <1>0 DEF Relay, TypeOK, As, Decoded
    <3>6. /\ relays[t] \in Nat /\ Count(localTransaction, {t}) \in Nat /\ Cardinality(Reporting(t)) \in Nat
          /\ Count(decodedTransaction, As(t)) \in Nat
      BY CountsAreNat
    <3>7. Taken(t)' = relays'[t] + Count(localTransaction', {t}) + Count(decodedTransaction', As(t))
                      + Cardinality(Reporting(t)')
      BY DEF Taken, As
    <3>8. relays'[t] + Count(decodedTransaction', As(t)) = relays[t] + Count(decodedTransaction, As(t))
      BY <3>2, <3>4, <3>5, <3>6
    <3>9. Count(localTransaction', {t}) = Count(localTransaction, {t}) /\ Reporting(t)' = Reporting(t)
      BY <3>1, <1>2
    <3>10. Taken(t)' = (relays'[t] + Count(decodedTransaction', As(t))) + Count(localTransaction, {t})
                       + Cardinality(Reporting(t))
      <4> HIDE DEF As
      <4>1. relays'[t] \in Nat
        BY <3>5, <3>6
      <4> QED BY <4>1, <3>4, <3>6, <3>7, <3>9
    <3> QED BY <3>6, <3>8, <3>10 DEF Taken
  <2> QED BY <2>1, <2>2
<1>4. Accounted'
  BY <1>1, <1>2, <1>3 DEF EchoInv, Accounted
<1> QED BY <1>2, <1>4 DEF EchoInv

(* The decoder of p learns something, and its receiver is to report some of *)
(* that; it had nothing left to report.                                     *)
LEMMA LearnEcho ==
  ASSUME SpreadInv, EchoInv, NEW p \in connected, buf[p] = <<>>, p \in Peers,
         \A q \in Peers : q # p => known'[q] = known[q] /\ buf'[q] = buf[q],
         known[p] \subseteq known'[p],
         \A i \in DOMAIN buf'[p] : buf'[p][i].tx \in known'[p] \ known[p],
         \A i, j \in DOMAIN buf'[p] : buf'[p][i].tx = buf'[p][j].tx => i = j,
         UNCHANGED <<relays, localTransaction, decodedTransaction, connected, generated>>
  PROVE  EchoInv'
<1>0. connected \subseteq Peers
  BY DEF SpreadInv, TypeOK
<1>1. ReportedOnce'
  BY DEF EchoInv, ReportedOnce
<1>2. ASSUME NEW t \in Tx
      PROVE  Taken(t)' <= Cardinality(Having(t)') + (IF t \in generated' THEN 1 ELSE 0)
  <2>1. Taken(t) <= Cardinality(Having(t)) + (IF t \in generated THEN 1 ELSE 0)
    BY DEF EchoInv, Accounted
  <2>2. CASE t \in known'[p] \ known[p]
    <3>1. Having(t)' = Having(t) \cup {p} /\ p \notin Having(t)
      BY <2>2, <1>0 DEF Having
    <3>2. Reporting(t)' \subseteq Reporting(t) \cup {p}
      BY <1>0 DEF Reporting
    <3>3. Cardinality(Having(t)') = Cardinality(Having(t)) + 1
      BY <3>1, CountsAreNat, FS_AddElement
    <3>4. /\ IsFiniteSet(Reporting(t) \cup {p}) /\ Cardinality(Reporting(t) \cup {p}) <= Cardinality(Reporting(t)) + 1
          /\ Cardinality(Reporting(t) \cup {p}) \in Nat
      <4>1. IsFiniteSet(Reporting(t)) /\ Cardinality(Reporting(t)) \in Nat
        BY CountsAreNat
      <4>2. IsFiniteSet(Reporting(t) \cup {p})
        BY <4>1, FS_AddElement
      <4>3. Cardinality(Reporting(t) \cup {p}) = IF p \in Reporting(t) THEN Cardinality(Reporting(t))
                                                 ELSE Cardinality(Reporting(t)) + 1
        BY <4>1, FS_AddElement
      <4> QED BY <4>1, <4>2, <4>3
    <3>5. Cardinality(Reporting(t)') <= Cardinality(Reporting(t)) + 1 /\ Cardinality(Reporting(t)') \in Nat
      <4>1. Cardinality(Reporting(t)') <= Cardinality(Reporting(t) \cup {p}) /\ IsFiniteSet(Reporting(t)')
        BY <3>2, <3>4, FS_Subset
      <4>2. Cardinality(Reporting(t)') \in Nat
        BY <4>1, FS_CardinalityType
      <4>3. Cardinality(Reporting(t)) \in Nat
        BY CountsAreNat
      <4> QED BY <4>1, <4>2, <4>3, <3>4
    <3> QED BY <2>1, <3>3, <3>5, CountsAreNat DEF Taken
  <2>3. CASE t \notin known'[p] \ known[p]
    <3>1. Having(t)' = Having(t)
      BY <2>3, <1>0 DEF Having
    <3>2. Reporting(t)' = Reporting(t)
      <4>1. \A i \in DOMAIN buf'[p] : buf'[p][i].tx # t
        BY <2>3
      <4>2. \A i \in DOMAIN buf[p] : FALSE
        OBVIOUS
      <4> QED BY <4>1, <4>2, <1>0 DEF Reporting
    <3> QED BY <2>1, <3>1, <3>2 DEF Taken
  <2> QED BY <2>2, <2>3
<1> QED BY <1>1, <1>2 DEF EchoInv, Accounted

LEMMA DecodeEcho ==
  ASSUME SpreadInv, EchoInv, NEW p \in Peers, DecodeCodeword(p) \/ AddTransaction(p)
  PROVE  EchoInv'
<1> USE DEF controllerVars, chanVars, peerVars
<1>0. TypeOK /\ known[p] \in SUBSET Tx
  BY DEF SpreadInv, TypeOK
<1>1. CASE DecodeCodeword(p)
  <2>1. PICK new \in SUBSET Decodable(p) : Decodes(p, known[p], new)
    BY <1>1 DEF DecodeCodeword
  <2>2. /\ p \in connected /\ buf[p] = <<>>
        /\ UNCHANGED <<relays, localTransaction, decodedTransaction, connected, generated>>
    BY <1>1 DEF DecodeCodeword
  <2>3. TypeOK /\ known[p] \in SUBSET Tx /\ new \in SUBSET Tx /\ Decodes(p, known[p], new)
    BY <1>0, <2>1, DecodableType
  <2>4. /\ \A q \in Peers : /\ known'[q] = IF q = p THEN known[p] \cup new ELSE known[q]
                            /\ q # p => buf'[q] = buf[q]
        /\ \A i \in DOMAIN buf'[p] : buf'[p][i].tx \in new
        /\ \A i, j \in DOMAIN buf'[p] : buf'[p][i].tx = buf'[p][j].tx => i = j
    BY <2>3, DecodesProperties
  <2>5. new \subseteq known'[p] \ known[p]
    BY <2>1, <2>4 DEF Decodable
  <2> QED BY <2>2, <2>4, <2>5, LearnEcho
<1>2. CASE AddTransaction(p)
  <2> DEFINE t == Head(receiverNewTx[p])
  <2>1. /\ receiverNewTx[p] # <<>> /\ buf[p] = <<>>
        /\ UNCHANGED <<relays, localTransaction, decodedTransaction, connected, generated>>
    BY <1>2 DEF AddTransaction
  <2>2. p \in connected /\ t \in Tx
    BY <2>1, <1>0 DEF SpreadInv, OnlyConnected, TypeOK
  <2>3. CASE t \in known[p]
    BY <1>2, <2>1, <2>3, EchoUnchanged DEF AddTransaction
  <2>4. CASE t \notin known[p]
    <3>1. PICK new \in SUBSET (Decodable(p) \ {t}) : Decodes(p, known[p] \cup {t}, new)
      BY <1>2, <2>4 DEF AddTransaction
    <3>2. TypeOK /\ known[p] \cup {t} \in SUBSET Tx /\ new \in SUBSET Tx /\ Decodes(p, known[p] \cup {t}, new)
      BY <1>0, <2>2, <3>1, DecodableType
    <3> HIDE DEF t
    <3>3. /\ \A q \in Peers : /\ known'[q] = IF q = p THEN (known[p] \cup {t}) \cup new ELSE known[q]
                              /\ q # p => buf'[q] = buf[q]
          /\ \A i \in DOMAIN buf'[p] : buf'[p][i].tx \in new
          /\ \A i, j \in DOMAIN buf'[p] : buf'[p][i].tx = buf'[p][j].tx => i = j
      BY <3>2, DecodesProperties
    <3>4. new \subseteq known'[p] \ known[p] /\ known[p] \subseteq known'[p]
      BY <3>1, <3>3 DEF Decodable
    <3> QED BY <2>1, <2>2, <3>3, <3>4, LearnEcho
  <2> QED BY <2>3, <2>4
<1> QED BY <1>1, <1>2

LEMMA ReportEcho == ASSUME SpreadInv, EchoInv, NEW p \in Peers, Report(p) PROVE EchoInv'
<1> USE DEF controllerVars, chanVars, peerVars
<1> DEFINE d == Head(buf[p])
<1>0. TypeOK /\ buf[p] \in Seq(Decoded)
  BY DEF SpreadInv, TypeOK
<1>1. /\ buf[p] # <<>> /\ decodedTransaction' = Append(decodedTransaction, d) /\ buf' = [buf EXCEPT ![p] = Tail(@)]
      /\ UNCHANGED <<localTransaction, generated, relays, connected, known>>
  BY DEF Report
<1>2. /\ d \in Decoded /\ d = buf[p][1] /\ DOMAIN buf[p] = 1..Len(buf[p]) /\ Len(buf[p]) \in Nat \ {0}
      /\ DOMAIN Tail(buf[p]) = 1..Len(buf[p]) - 1
      /\ \A i \in 1..Len(buf[p]) - 1 : Tail(buf[p])[i] = buf[p][i + 1]
  BY <1>0, <1>1
<1> HIDE DEF d
<1>3. buf'[p] = Tail(buf[p]) /\ \A q \in Peers : q # p => buf'[q] = buf[q]
  BY <1>0, <1>1 DEF TypeOK
<1>4. ReportedOnce'
  <2>1. ASSUME NEW i \in 1..Len(buf[p]) - 1 PROVE i + 1 \in DOMAIN buf[p] /\ buf'[p][i] = buf[p][i + 1]
    BY <1>2, <1>3
  <2>2. DOMAIN buf'[p] = 1..Len(buf[p]) - 1
    BY <1>2, <1>3
  <2>3. /\ \A i \in DOMAIN buf'[p] : buf'[p][i].tx \in known'[p]
        /\ \A i, j \in DOMAIN buf'[p] : buf'[p][i].tx = buf'[p][j].tx => i = j
    BY <2>1, <2>2, <1>1 DEF EchoInv, ReportedOnce
  <2> QED BY <2>3, <1>1, <1>3 DEF EchoInv, ReportedOnce
<1>5. p \in connected
  <2>1. buf[p][1].tx \in known[p]
    BY <1>2 DEF EchoInv, ReportedOnce
  <2> QED BY <2>1 DEF SpreadInv, OnlyConnected
<1>6. ASSUME NEW t \in Tx PROVE Taken(t)' = Taken(t)
  <2>1. Count(decodedTransaction', As(t)) = Count(decodedTransaction, As(t)) + (IF d \in As(t) THEN 1 ELSE 0)
    BY <1>0, <1>1, <1>2, CountAppend DEF TypeOK
  <2>2. d \in As(t) <=> d.tx = t
    BY <1>2 DEF As
  <2>3. CASE d.tx = t
    <3>1. \A i \in DOMAIN buf'[p] : buf'[p][i].tx # t
      <4> SUFFICES ASSUME NEW i \in 1..Len(buf[p]) - 1 PROVE buf[p][i + 1].tx # t
        BY <1>2, <1>3
      <4>1. i + 1 \in DOMAIN buf[p] /\ 1 \in DOMAIN buf[p] /\ i + 1 # 1
        BY <1>2
      <4> QED BY <4>1, <1>2, <2>3 DEF EchoInv, ReportedOnce
    <3>2. p \in Reporting(t)
      BY <1>2, <1>5, <2>3 DEF Reporting
    <3>3. connected \subseteq Peers
      BY <1>0 DEF TypeOK
    <3>4. Reporting(t)' = Reporting(t) \ {p}
      BY <3>1, <3>3, <1>1, <1>3 DEF Reporting
    <3>5. Cardinality(Reporting(t)') = Cardinality(Reporting(t)) - 1
      BY <3>2, <3>4, CountsAreNat, FS_RemoveElement
    <3> QED BY <2>1, <2>2, <2>3, <3>5, <1>1, CountsAreNat DEF Taken
  <2>4. CASE d.tx # t
    <3>1. (\E i \in DOMAIN buf'[p] : buf'[p][i].tx = t) <=> (\E i \in DOMAIN buf[p] : buf[p][i].tx = t)
      <4>1. ASSUME NEW i \in DOMAIN buf[p], buf[p][i].tx = t
            PROVE  i - 1 \in DOMAIN buf'[p] /\ buf'[p][i - 1].tx = t
        <5>1. i \in Nat /\ i # 1 /\ i <= Len(buf[p]) /\ i >= 1
          BY <4>1, <1>2, <2>4
        <5>2. i - 1 \in 1..Len(buf[p]) - 1 /\ (i - 1) + 1 = i
          BY <5>1, <1>2
        <5> QED BY <4>1, <5>2, <1>2, <1>3
      <4>2. ASSUME NEW i \in DOMAIN buf'[p], buf'[p][i].tx = t
            PROVE  i + 1 \in DOMAIN buf[p] /\ buf[p][i + 1].tx = t
        BY <4>2, <1>2, <1>3
      <4> QED BY <4>1, <4>2
    <3>2. connected \subseteq Peers
      BY <1>0 DEF TypeOK
    <3>3. Reporting(t)' = Reporting(t)
      BY <3>1, <3>2, <1>1, <1>3 DEF Reporting
    <3> QED BY <2>1, <2>2, <2>4, <3>3, <1>1, CountsAreNat DEF Taken
  <2> QED BY <2>3, <2>4
<1>7. \A t \in Tx : Having(t)' = Having(t)
  BY <1>1 DEF Having
<1>8. Accounted'
  BY <1>1, <1>6, <1>7 DEF EchoInv, Accounted
<1> QED BY <1>4, <1>8 DEF EchoInv

LEMMA EchoStep == SpreadInv /\ EchoInv /\ [Next]_vars => EchoInv'
<1> SUFFICES ASSUME SpreadInv, EchoInv, [Next]_vars PROVE EchoInv'
  OBVIOUS
<1>1. ASSUME NEW p \in Peers, TakeNewPeer(p) \/ Encode(p) \/ PutNext PROVE EchoInv'
  BY <1>1, EchoUnchanged DEF TakeNewPeer, Encode, PutNext, controllerVars, chanVars, peerVars
<1>2. CASE PutNext
  BY <1>2, EchoUnchanged DEF PutNext, controllerVars, chanVars, peerVars
<1>3. CASE UNCHANGED vars
  BY <1>3, EchoUnchanged DEF vars, controllerVars, chanVars, peerVars
<1> QED BY <1>1, <1>2, <1>3, GenerateEcho, ConnectEcho, TakeEcho, DecodeEcho, ReportEcho DEF Next

(* A transaction comes back from a peer at most once: receivers report only *)
(* what their decoder learns, and decoders forget nothing during a run.     *)
THEOREM EchoesDieOut == Spec => []EchoBounded
<1>1. ASSUME SpreadInv, EchoInv PROVE EchoBounded
  <2> SUFFICES ASSUME NEW t \in Tx
               PROVE  relays[t] <= Cardinality(connected) + (IF t \in Local THEN 1 ELSE 0)
    BY DEF EchoBounded
  <2>1. Taken(t) <= Cardinality(Having(t)) + (IF t \in generated THEN 1 ELSE 0)
    BY <1>1 DEF EchoInv, Accounted
  <2>2. t \in generated => t \in Local
    BY <1>1 DEF SpreadInv, TypeOK
  <2> QED BY <1>1, <2>1, <2>2, CountsAreNat DEF Taken
<1>2. Spec => []EchoInv
  <2>1. Init => EchoInv
    BY EchoInit
  <2>2. SpreadInv /\ EchoInv /\ [Next]_vars => EchoInv'
    BY EchoStep
  <2> QED BY <2>1, <2>2, SpreadInvariant, PTL DEF Spec
<1>3. SpreadInv /\ EchoInv => EchoBounded
  BY <1>1
<1> QED BY <1>2, <1>3, SpreadInvariant, PTL

-----------------------------------------------------------------------------
(* The sum of what a channel holds.                                         *)
LEMMA TotalSums ==
  ASSUME NEW s \in Seq(Nat)
  PROVE  /\ IsFiniteSet(DOMAIN s) /\ \A i \in DOMAIN s : s[i] \in Nat
         /\ \E g : Sums(s, DOMAIN s, g) /\ Total(s) = g[DOMAIN s]
<1> DEFINE g == CHOOSE k : Sums(s, DOMAIN s, k)
<1>1. DOMAIN s = 1..Len(s) /\ IsFiniteSet(1..Len(s))
  BY FS_Interval
<1>2. Sums(s, DOMAIN s, g)
  <2> HIDE DEF g
  <2>1. \E k : Sums(s, DOMAIN s, k)
    BY <1>1, SumsExist
  <2> QED BY <2>1 DEF g
<1>3. Total(s) = g[DOMAIN s]
  BY DEF Total, FoldSeq, FoldFunction, FoldFunctionOnSet, MapThenFoldSet, Sums, Some
<1> HIDE DEF g
<1> QED BY <1>1, <1>2, <1>3

LEMMA TotalType == Total(<<>>) = 0 /\ \A s \in Seq(Nat) : Total(s) \in Nat
<1>1. ASSUME NEW s \in Seq(Nat) PROVE Total(s) \in Nat
  BY TotalSums, SumsSplit
<1>2. Total(<<>>) = 0
  <2>1. <<>> \in Seq(Nat)
    OBVIOUS
  <2>2. PICK g : Sums(<<>>, DOMAIN <<>>, g) /\ Total(<<>>) = g[DOMAIN <<>>]
    BY <2>1, TotalSums
  <2>3. DOMAIN <<>> = {}
    OBVIOUS
  <2> QED BY <2>2, <2>3 DEF Sums
<1> QED BY <1>1, <1>2

LEMMA TotalAppend ==
  ASSUME NEW s \in Seq(Nat), NEW n \in Nat
  PROVE  Total(Append(s, n)) = Total(s) + n
<1> DEFINE t == Append(s, n)
           h == [i \in DOMAIN s |-> i]
<1>1. t \in Seq(Nat) /\ DOMAIN t = 1..Len(s) + 1 /\ DOMAIN s = 1..Len(s)
  OBVIOUS
<1>2. PICK g : Sums(s, DOMAIN s, g) /\ Total(s) = g[DOMAIN s]
  BY TotalSums
<1>3. PICK k : Sums(t, DOMAIN t, k) /\ Total(t) = k[DOMAIN t]
  BY <1>1, TotalSums
<1>4. /\ IsFiniteSet(DOMAIN s) /\ \A i \in DOMAIN s : s[i] \in Nat
      /\ IsFiniteSet(DOMAIN t) /\ \A i \in DOMAIN t : t[i] \in Nat
  BY <1>1, TotalSums
<1>5. Len(s) \in Nat /\ Len(s) + 1 \in DOMAIN t /\ t[Len(s) + 1] = n /\ DOMAIN t \ {Len(s) + 1} = DOMAIN s
  BY <1>1
<1>6. h \in [DOMAIN s -> DOMAIN t] /\ \A i \in DOMAIN s : h[i] = i /\ s[i] = t[i]
  BY <1>1
<1>7. {h[i] : i \in DOMAIN s} = DOMAIN s
  BY <1>6
<1> HIDE DEF t, h
<1>8. SameSum(DOMAIN s, s, DOMAIN t, t, h)
  BY <1>4, <1>6 DEF SameSum
<1>9. k[DOMAIN t] = t[Len(s) + 1] + g[DOMAIN s] /\ g[DOMAIN s] \in Nat
  <2>1. {h[i] : i \in DOMAIN s} = Minus(DOMAIN t, Len(s) + 1)
    BY <1>5, <1>7 DEF Minus
  <2>2. g[DOMAIN s] \in Nat
    BY <1>2, TotalType
  <2> QED BY <2>1, <2>2, <1>2, <1>3, <1>5, <1>8, SumsOneMore
<1>10. Total(t) = Total(s) + n
  BY <1>2, <1>3, <1>5, <1>9
<1> QED BY <1>10 DEF t

LEMMA TotalTail ==
  ASSUME NEW s \in Seq(Nat), s # <<>>
  PROVE  Total(s) = Head(s) + Total(Tail(s)) /\ Head(s) \in Nat /\ Tail(s) \in Seq(Nat)
<1> DEFINE t == Tail(s)
           h == [i \in DOMAIN t |-> i + 1]
<1>1. /\ t \in Seq(Nat) /\ Len(s) \in Nat \ {0} /\ DOMAIN t = 1..Len(s) - 1 /\ DOMAIN s = 1..Len(s)
      /\ Head(s) = s[1] /\ Head(s) \in Nat
      /\ \A i \in 1..Len(s) - 1 : t[i] = s[i + 1]
  OBVIOUS
<1>2. PICK g : Sums(s, DOMAIN s, g) /\ Total(s) = g[DOMAIN s]
  BY TotalSums
<1>3. PICK k : Sums(t, DOMAIN t, k) /\ Total(t) = k[DOMAIN t]
  BY <1>1, TotalSums
<1>4. /\ IsFiniteSet(DOMAIN s) /\ \A i \in DOMAIN s : s[i] \in Nat
      /\ IsFiniteSet(DOMAIN t) /\ \A i \in DOMAIN t : t[i] \in Nat
  BY <1>1, TotalSums
<1> HIDE DEF t
<1>5. 1 \in DOMAIN s /\ DOMAIN s \ {1} = 2..Len(s)
  BY <1>1
<1>6. /\ h \in [DOMAIN t -> DOMAIN s]
      /\ \A i \in DOMAIN t : h[i] = i + 1 /\ t[i] = s[h[i]]
      /\ \A i, j \in DOMAIN t : h[i] = h[j] => i = j
  BY <1>1
<1>7. {h[i] : i \in DOMAIN t} = Minus(DOMAIN s, 1)
  <2>1. \A i \in 2..Len(s) : i - 1 \in 1..Len(s) - 1 /\ (i - 1) + 1 = i
    BY <1>1
  <2>2. \A i \in 1..Len(s) - 1 : i + 1 \in 2..Len(s)
    BY <1>1
  <2>3. {h[i] : i \in DOMAIN t} = 2..Len(s)
    <3>1. \A i \in DOMAIN t : h[i] \in 2..Len(s)
      BY <2>2, <1>1, <1>6
    <3>2. \A j \in 2..Len(s) : \E i \in DOMAIN t : h[i] = j
      BY <2>1, <1>1, <1>6
    <3> QED BY <3>1, <3>2
  <2> QED BY <2>3, <1>5 DEF Minus
<1> HIDE DEF h
<1>8. SameSum(DOMAIN t, t, DOMAIN s, s, h)
  BY <1>4, <1>6 DEF SameSum
<1>9. g[DOMAIN s] = s[1] + k[DOMAIN t]
  BY <1>2, <1>3, <1>5, <1>7, <1>8, SumsOneMore
<1>10. Total(s) = Head(s) + Total(t)
  BY <1>1, <1>2, <1>3, <1>9
<1> QED BY <1>1, <1>10 DEF t

-----------------------------------------------------------------------------
(* The goroutine decode holds a loss and the report of a codeword only      *)
(* between its channel operations, and has room for the codeword then; the  *)
(* sender stays in its loop as long as it can pay.                          *)
BetweenOperations ==
  \A n \in Node :
    /\ pc[n] \in {"select", "report"} => loss[n] = 0 /\ cwLoss[n] = 0
    /\ pc[n] = "peerLoss" => loss[n] = 0
    /\ pc[n] \in {"ourLoss", "peerLoss"} => rxWindow[n] < MaxWindow
    /\ sending[n] => credit[n] >= CodewordCost

LossInv == LossTypeOK /\ BetweenOperations /\ LossConserved

(* Peers come in pairs.                                                     *)
LEMMA PeerPairs ==
  \A n \in Node : /\ Peer[n] \in Node /\ Peer[n] # n /\ Peer[Peer[n]] = n
                  /\ \A m \in Node : Peer[m] = Peer[n] => m = n
  BY NodeLossAssumption

(* What the type invariant says of one node.                                *)
LEMMA NodeTypes ==
  ASSUME LossTypeOK, NEW n \in Node
  PROVE  /\ {cwRate[n], credit[n], accumLoss[n], rxWindow[n], loss[n], cwLoss[n], budget[n], applied[n]}
              \subseteq Nat
         /\ peerLoss[n] \in Seq(Nat) /\ ourLoss[n] \in Seq(Nat)
         /\ txCwCh[n] \in Seq(Nat) /\ cwCh[n] \in Seq(Nat)
         /\ Total(peerLoss[n]) \in Nat /\ Total(ourLoss[n]) \in Nat
         /\ Total(txCwCh[n]) \in Nat /\ Total(cwCh[n]) \in Nat
<1>1. /\ cwRate \in [Node -> Nat] /\ credit \in [Node -> Nat] /\ accumLoss \in [Node -> Nat]
      /\ rxWindow \in [Node -> Nat] /\ loss \in [Node -> Nat] /\ cwLoss \in [Node -> Nat]
      /\ budget \in [Node -> Nat] /\ applied \in [Node -> Nat]
      /\ peerLoss \in [Node -> Seq(Nat)] /\ ourLoss \in [Node -> Seq(Nat)]
      /\ txCwCh \in [Node -> Seq(Nat)] /\ cwCh \in [Node -> Seq(Nat)]
  BY DEF LossTypeOK
<1>2. /\ peerLoss[n] \in Seq(Nat) /\ ourLoss[n] \in Seq(Nat)
      /\ txCwCh[n] \in Seq(Nat) /\ cwCh[n] \in Seq(Nat)
  BY <1>1
<1> QED BY <1>1, <1>2, TotalType

(* The type invariant, conjunct by conjunct.                                *)
LossFunctions ==
  /\ cwRate \in [Node -> Nat] /\ credit \in [Node -> Nat] /\ accumLoss \in [Node -> Nat]
  /\ rxWindow \in [Node -> Nat] /\ loss \in [Node -> Nat] /\ cwLoss \in [Node -> Nat]
  /\ budget \in [Node -> Nat] /\ applied \in [Node -> Nat]
  /\ peerLoss \in [Node -> Seq(Nat)] /\ ourLoss \in [Node -> Seq(Nat)]
  /\ txCwCh \in [Node -> Seq(Nat)] /\ cwCh \in [Node -> Seq(Nat)]
  /\ sending \in [Node -> BOOLEAN]
  /\ pc \in [Node -> {"select", "ourLoss", "peerLoss", "report"}]

LossBounds ==
  \A n \in Node :
    /\ cwRate[n] >= MinRate
    /\ Len(peerLoss[n]) <= LossCap /\ Len(ourLoss[n]) <= LossCap
    /\ Len(txCwCh[n]) <= CwCap /\ Len(cwCh[n]) <= CwCap
    /\ rxWindow[n] <= MaxWindow

LEMMA LossTypes == LossTypeOK <=> LossFunctions /\ LossBounds
  BY DEF LossTypeOK, LossFunctions, LossBounds

LEMMA LossInitially == LossInit => LossInv
<1> SUFFICES ASSUME LossInit PROVE LossInv
  OBVIOUS
<1> USE DEF LossInit, Empty, Zeros
<1>1. LossTypeOK
  <2>1. /\ InitRate \in Nat /\ InitRate >= MinRate /\ MaxWindow \in Nat /\ LossCap \in Nat /\ CwCap \in Nat
        /\ Budget \in [Node -> Nat]
    BY NodeLossAssumption
  <2>2. <<>> \in Seq(Nat) /\ Len(<<>>) = 0
    OBVIOUS
  <2> QED BY <2>1, <2>2 DEF LossTypeOK
<1>2. BetweenOperations
  BY DEF BetweenOperations
<1>3. LossConserved
  <2> SUFFICES ASSUME NEW n \in Node PROVE budget[n] + InFlight(n) + applied[n] = Budget[n]
    BY DEF LossConserved
  <2>1. Peer[n] \in Node /\ Budget[n] \in Nat
    BY NodeLossAssumption
  <2> QED BY <2>1, TotalType DEF InFlight
<1> QED BY <1>1, <1>2, <1>3 DEF LossInv

(* Types, and what holds between operations, after a step of node n.        *)
LEMMA LossTypeStep ==
  ASSUME LossInv, [LossNext]_lossVars
  PROVE  LossTypeOK' /\ BetweenOperations'
<1> USE DEF senderVars, receiverVars
<1>0. /\ LossCap \in Nat /\ CwCap \in Nat /\ CodewordCost \in Nat \ {0} /\ MinRate \in Nat
      /\ Inc \in Nat /\ Dec \in Nat /\ MaxWindow \in Nat
      /\ LossFunctions /\ LossBounds /\ BetweenOperations
  BY NodeLossAssumption, LossTypes DEF LossInv
<1>1. ASSUME NEW n \in Node, HearPeerLoss(n) PROVE LossFunctions' /\ LossBounds' /\ BetweenOperations'
  <2>1. Head(peerLoss[n]) \in Nat /\ Tail(peerLoss[n]) \in Seq(Nat) /\ Len(Tail(peerLoss[n])) <= Len(peerLoss[n])
    <3>1. peerLoss[n] \in Seq(Nat) /\ peerLoss[n] # <<>>
      BY <1>1, <1>0 DEF HearPeerLoss, LossFunctions
    <3> QED BY <3>1
  <2>2. cwRate[n] + Inc * Head(peerLoss[n]) \in Nat /\ cwRate[n] + Inc * Head(peerLoss[n]) >= cwRate[n]
    <3>1. cwRate[n] \in Nat
      BY <1>0 DEF LossFunctions
    <3>2. \A i, j \in Nat : i * j \in Nat
      OBVIOUS
    <3>3. Inc * Head(peerLoss[n]) \in Nat
      <4> DEFINE h == Head(peerLoss[n])
      <4>1. h \in Nat
        BY <2>1
      <4> HIDE DEF h
      <4>2. Inc * h \in Nat
        BY <4>1, <3>2, <1>0
      <4> QED BY <4>2 DEF h
    <3> DEFINE more == Inc * Head(peerLoss[n])
    <3> HIDE DEF more
    <3>4. more \in Nat /\ cwRate[n] + more \in Nat /\ cwRate[n] + more >= cwRate[n]
      BY <3>1, <3>3 DEF more
    <3> QED BY <3>4 DEF more
  <2>3. Peer[n] \in Node /\ applied[Peer[n]] + Head(peerLoss[n]) \in Nat
    <3>1. Peer[n] \in Node /\ applied[Peer[n]] \in Nat
      BY PeerPairs, <1>0 DEF LossFunctions
    <3> QED BY <3>1, <2>1
  <2>5. LossFunctions'
    BY <1>1, <1>0, <2>1, <2>2, <2>3 DEF HearPeerLoss, LossFunctions, BetweenOperations
  <2>6. LossBounds'
    <3>0. /\ cwRate' = [cwRate EXCEPT ![n] = cwRate[n] + Inc * Head(peerLoss[n])]
          /\ peerLoss' = [peerLoss EXCEPT ![n] = Tail(peerLoss[n])]
          /\ DOMAIN cwRate = Node /\ DOMAIN peerLoss = Node
          /\ \A m \in Node : peerLoss[m] \in Seq(Nat) /\ Len(peerLoss[m]) <= LossCap
          /\ \A m \in Node : cwRate[m] \in Nat /\ cwRate[m] >= MinRate
      BY <1>1, <1>0 DEF HearPeerLoss, LossFunctions, LossBounds
    <3>1. \A m \in Node : cwRate'[m] >= MinRate /\ Len(peerLoss'[m]) <= LossCap
      <4> TAKE m \in Node
      <4>1. CASE m = n
        <5>1. cwRate'[m] = cwRate[n] + Inc * Head(peerLoss[n]) /\ peerLoss'[m] = Tail(peerLoss[n])
          BY <3>0, <4>1
        <5>2. cwRate[n] \in Nat /\ cwRate[n] >= MinRate /\ Len(peerLoss[n]) <= LossCap
          BY <3>0
        <5>3. Len(peerLoss[n]) \in Nat /\ Len(Tail(peerLoss[n])) \in Nat
          BY <2>1, <3>0
        <5>4. cwRate'[m] \in Nat /\ cwRate'[m] >= cwRate[n]
          BY <5>1, <2>2
        <5>5. cwRate'[m] >= MinRate
          BY <5>2, <5>4, <1>0
        <5>6. Len(peerLoss'[m]) <= LossCap
          BY <5>1, <5>2, <5>3, <2>1, <1>0
        <5> QED BY <5>5, <5>6
      <4>2. CASE m # n
        BY <3>0, <4>2
      <4> QED BY <4>1, <4>2
    <3>2. ourLoss' = ourLoss /\ txCwCh' = txCwCh /\ cwCh' = cwCh /\ rxWindow' = rxWindow
      BY <1>1 DEF HearPeerLoss
    <3> QED BY <3>1, <3>2, <1>0 DEF LossBounds
  <2>7. BetweenOperations'
    BY <1>1, <1>0, <2>1, <2>2, <2>3 DEF HearPeerLoss, LossFunctions, BetweenOperations
  <2> QED BY <2>5, <2>6, <2>7
<1>2. ASSUME NEW n \in Node, HearOurLoss(n) PROVE LossFunctions' /\ LossBounds' /\ BetweenOperations'
  <2>1. Head(ourLoss[n]) \in Nat /\ Tail(ourLoss[n]) \in Seq(Nat) /\ Len(Tail(ourLoss[n])) <= Len(ourLoss[n])
    <3>1. ourLoss[n] \in Seq(Nat) /\ ourLoss[n] # <<>>
      BY <1>2, <1>0 DEF HearOurLoss, LossFunctions
    <3> QED BY <3>1
  <2>2. accumLoss[n] + Head(ourLoss[n]) \in Nat
    <3>1. accumLoss[n] \in Nat
      BY <1>0 DEF LossFunctions
    <3> QED BY <3>1, <2>1
  <2>5. LossFunctions'
    BY <1>2, <1>0, <2>1, <2>2 DEF HearOurLoss, LossFunctions, BetweenOperations
  <2>6. LossBounds'
    BY <1>2, <1>0, <2>1, <2>2 DEF HearOurLoss, LossFunctions, LossBounds, BetweenOperations
  <2>7. BetweenOperations'
    BY <1>2, <1>0, <2>1, <2>2 DEF HearOurLoss, LossFunctions, BetweenOperations
  <2> QED BY <2>5, <2>6, <2>7
<1>3. ASSUME NEW n \in Node, SendTick(n) PROVE LossFunctions' /\ LossBounds' /\ BetweenOperations'
  <2>5. LossFunctions'
    <3>1. credit[n] + cwRate[n] \in Nat /\ credit \in [Node -> Nat] /\ sending \in [Node -> BOOLEAN]
      BY <1>0 DEF LossFunctions
    <3>2. credit' \in [Node -> Nat] /\ sending' \in [Node -> BOOLEAN]
      BY <1>3, <3>1 DEF SendTick
    <3> QED BY <1>3, <1>0, <3>2 DEF SendTick, LossFunctions
  <2>6. LossBounds'
    BY <1>3, <1>0 DEF SendTick, LossFunctions, LossBounds, BetweenOperations
  <2>7. BetweenOperations'
    BY <1>3, <1>0 DEF SendTick, LossFunctions, BetweenOperations
  <2> QED BY <2>5, <2>6, <2>7
<1>4. ASSUME NEW n \in Node, ProduceCodeword(n) PROVE LossFunctions' /\ LossBounds' /\ BetweenOperations'
  <2>1. /\ Append(txCwCh[n], accumLoss[n]) \in Seq(Nat) /\ Len(txCwCh[n]) \in Nat
        /\ Len(Append(txCwCh[n], accumLoss[n])) = Len(txCwCh[n]) + 1
    <3>1. txCwCh[n] \in Seq(Nat) /\ accumLoss[n] \in Nat
      BY <1>4, <1>0 DEF LossFunctions
    <3> QED BY <3>1
  <2>2. credit[n] - CodewordCost \in Nat
    BY <1>4, <1>0 DEF ProduceCodeword, Spend, LossFunctions, BetweenOperations
  <2>3. Lowered(cwRate[n]) \in Nat /\ Lowered(cwRate[n]) >= MinRate
    BY <1>0 DEF Lowered, LossFunctions
  <2>5. LossFunctions'
    <3>1. credit' \in [Node -> Nat] /\ sending' \in [Node -> BOOLEAN]
      BY <1>4, <1>0, <2>2 DEF ProduceCodeword, Spend, LossFunctions
    <3>2. cwRate' \in [Node -> Nat] /\ accumLoss' \in [Node -> Nat] /\ txCwCh' \in [Node -> Seq(Nat)]
      <4>1. CASE PutCodeword(n)
        BY <4>1, <1>0, <2>1, <2>3 DEF PutCodeword, LossFunctions
      <4>2. CASE DropCodeword(n)
        BY <4>2, <1>0 DEF DropCodeword, LossFunctions
      <4> QED BY <1>4, <4>1, <4>2 DEF ProduceCodeword
    <3> QED BY <1>4, <1>0, <3>1, <3>2 DEF ProduceCodeword, LossFunctions
  <2>6. LossBounds'
    <3>1. \A m \in Node : cwRate'[m] >= MinRate /\ Len(txCwCh'[m]) <= CwCap
      <4>1. CASE Len(txCwCh[n]) < CwCap /\ PutCodeword(n)
        BY <4>1, <1>0, <2>1, <2>3 DEF PutCodeword, LossFunctions, LossBounds
      <4>2. CASE DropCodeword(n)
        BY <4>2, <1>0 DEF DropCodeword, LossBounds
      <4> QED BY <1>4, <4>1, <4>2 DEF ProduceCodeword
    <3>2. peerLoss' = peerLoss /\ ourLoss' = ourLoss /\ cwCh' = cwCh /\ rxWindow' = rxWindow
      BY <1>4 DEF ProduceCodeword
    <3> QED BY <3>1, <3>2, <1>0 DEF LossBounds
  <2>7. BetweenOperations'
    BY <1>4, <1>0, <2>1, <2>2, <2>3
       DEF ProduceCodeword, Spend, PutCodeword, DropCodeword, LossFunctions, BetweenOperations
  <2> QED BY <2>5, <2>6, <2>7
<1>5. ASSUME NEW n \in Node, CarryCodeword(n) PROVE LossFunctions' /\ LossBounds' /\ BetweenOperations'
  <2>1. Head(txCwCh[n]) \in Nat /\ Tail(txCwCh[n]) \in Seq(Nat) /\ Len(Tail(txCwCh[n])) <= Len(txCwCh[n])
    <3>1. txCwCh[n] \in Seq(Nat) /\ txCwCh[n] # <<>>
      BY <1>5, <1>0 DEF CarryCodeword, LossFunctions
    <3> QED BY <3>1
  <2>2. Peer[n] \in Node /\ cwCh[Peer[n]] \in Seq(Nat)
    BY <1>0, PeerPairs DEF LossFunctions
  <2>3. /\ Append(cwCh[Peer[n]], Head(txCwCh[n])) \in Seq(Nat)
        /\ Len(Append(cwCh[Peer[n]], Head(txCwCh[n]))) = Len(cwCh[Peer[n]]) + 1 /\ Len(cwCh[Peer[n]]) \in Nat
    BY <2>1, <2>2
  <2>5. LossFunctions'
    BY <1>5, <1>0, <2>1, <2>2, <2>3 DEF CarryCodeword, Receive, LossFunctions, BetweenOperations
  <2>6. LossBounds'
    <3>1. \A m \in Node : Len(txCwCh'[m]) <= CwCap
      <4>1. /\ txCwCh' = [txCwCh EXCEPT ![n] = Tail(txCwCh[n])] /\ DOMAIN txCwCh = Node /\ txCwCh[n] \in Seq(Nat)
            /\ \A m \in Node : Len(txCwCh[m]) <= CwCap
        BY <1>5, <1>0 DEF CarryCodeword, LossFunctions, LossBounds
      <4>2. Len(txCwCh[n]) \in Nat /\ Len(Tail(txCwCh[n])) \in Nat
        BY <4>1, <2>1
      <4>3. Len(Tail(txCwCh[n])) <= CwCap
        BY <4>1, <4>2, <2>1, <1>0
      <4> QED BY <4>1, <4>3
    <3>2. \A m \in Node : Len(cwCh'[m]) <= CwCap
      <4>1. /\ cwCh' = [cwCh EXCEPT ![Peer[n]] = Append(cwCh[Peer[n]], Head(txCwCh[n]))] /\ DOMAIN cwCh = Node
            /\ Len(cwCh[Peer[n]]) < CwCap /\ \A m \in Node : Len(cwCh[m]) <= CwCap
        BY <1>5, <1>0 DEF CarryCodeword, Receive, LossFunctions, LossBounds
      <4>2. Len(Append(cwCh[Peer[n]], Head(txCwCh[n]))) <= CwCap
        BY <4>1, <2>3, <1>0
      <4> QED BY <4>1, <4>2
    <3>3. cwRate' = cwRate /\ peerLoss' = peerLoss /\ ourLoss' = ourLoss /\ rxWindow' = rxWindow
      BY <1>5 DEF CarryCodeword
    <3> QED BY <3>1, <3>2, <3>3, <1>0 DEF LossBounds
  <2>7. BetweenOperations'
    BY <1>5, <1>0, <2>1, <2>2, <2>3 DEF CarryCodeword, Receive, LossFunctions, BetweenOperations
  <2> QED BY <2>5, <2>6, <2>7
<1>6. ASSUME NEW n \in Node, TakeCodeword(n) PROVE LossFunctions' /\ LossBounds' /\ BetweenOperations'
  <2>1. Head(cwCh[n]) \in Nat /\ Tail(cwCh[n]) \in Seq(Nat) /\ Len(Tail(cwCh[n])) <= Len(cwCh[n])
    <3>1. cwCh[n] \in Seq(Nat) /\ cwCh[n] # <<>>
      BY <1>6, <1>0 DEF TakeCodeword, LossFunctions
    <3> QED BY <3>1
  <2>5. LossFunctions'
    <3>1. PICK expired \in 0..rxWindow[n] : \E lost \in 0..expired :
            /\ lost <= budget[n]
            /\ budget' = [budget EXCEPT ![n] = @ - lost]
            /\ rxWindow' = [rxWindow EXCEPT ![n] = @ - expired]
            /\ loss' = [loss EXCEPT ![n] = lost]
      BY <1>6 DEF TakeCodeword
    <3>2. rxWindow[n] \in Nat /\ budget[n] \in Nat
      BY <1>0 DEF LossFunctions
    <3>3. rxWindow' \in [Node -> Nat]
      BY <3>1, <3>2, <1>0 DEF LossFunctions
    <3>4. budget' \in [Node -> Nat] /\ loss' \in [Node -> Nat]
      BY <3>1, <3>2, <1>0 DEF LossFunctions
    <3>0. /\ cwLoss' = [cwLoss EXCEPT ![n] = Head(cwCh[n])] /\ cwCh' = [cwCh EXCEPT ![n] = Tail(cwCh[n])]
          /\ pc' = [pc EXCEPT ![n] = "ourLoss"]
      BY <1>6 DEF TakeCodeword
    <3>5. cwLoss' \in [Node -> Nat] /\ cwCh' \in [Node -> Seq(Nat)]
          /\ pc' \in [Node -> {"select", "ourLoss", "peerLoss", "report"}]
      BY <3>0, <1>0, <2>1 DEF LossFunctions
    <3> QED BY <1>6, <1>0, <3>3, <3>4, <3>5 DEF TakeCodeword, LossFunctions
  <2>6. LossBounds'
    <3>1. \A m \in Node : Len(cwCh'[m]) <= CwCap
      <4>1. /\ cwCh' = [cwCh EXCEPT ![n] = Tail(cwCh[n])] /\ DOMAIN cwCh = Node /\ cwCh[n] \in Seq(Nat)
            /\ \A m \in Node : Len(cwCh[m]) <= CwCap
        BY <1>6, <1>0 DEF TakeCodeword, LossFunctions, LossBounds
      <4>2. Len(cwCh[n]) \in Nat /\ Len(Tail(cwCh[n])) \in Nat
        BY <4>1, <2>1
      <4>3. Len(Tail(cwCh[n])) <= CwCap
        BY <4>1, <4>2, <2>1, <1>0
      <4> QED BY <4>1, <4>3
    <3>2. \A m \in Node : rxWindow'[m] <= MaxWindow
      <4>1. PICK expired \in 0..rxWindow[n] : rxWindow' = [rxWindow EXCEPT ![n] = rxWindow[n] - expired]
        BY <1>6 DEF TakeCodeword
      <4>2. \A m \in Node : rxWindow[m] \in Nat /\ rxWindow[m] <= MaxWindow
        BY <1>0 DEF LossFunctions, LossBounds
      <4>3. rxWindow[n] - expired <= MaxWindow /\ DOMAIN rxWindow = Node
        BY <4>1, <4>2, <1>0 DEF LossFunctions
      <4> QED BY <4>1, <4>2, <4>3
    <3>3. cwRate' = cwRate /\ peerLoss' = peerLoss /\ ourLoss' = ourLoss /\ txCwCh' = txCwCh
      BY <1>6 DEF TakeCodeword
    <3> QED BY <3>1, <3>2, <3>3, <1>0 DEF LossBounds
  <2>7. BetweenOperations'
    BY <1>6, <1>0, <2>1 DEF TakeCodeword, LossFunctions, BetweenOperations
  <2> QED BY <2>5, <2>6, <2>7
<1>7. ASSUME NEW n \in Node, TellOurLoss(n) PROVE LossFunctions' /\ LossBounds' /\ BetweenOperations'
  <2>1. /\ Append(ourLoss[n], loss[n]) \in Seq(Nat) /\ Len(ourLoss[n]) \in Nat
        /\ Len(Append(ourLoss[n], loss[n])) = Len(ourLoss[n]) + 1
    <3>1. ourLoss[n] \in Seq(Nat) /\ loss[n] \in Nat
      BY <1>7, <1>0 DEF LossFunctions
    <3> QED BY <3>1
  <2>5. LossFunctions'
    BY <1>7, <1>0, <2>1 DEF TellOurLoss, LossFunctions, BetweenOperations
  <2>6. LossBounds'
    BY <1>7, <1>0, <2>1 DEF TellOurLoss, LossFunctions, LossBounds, BetweenOperations
  <2>7. BetweenOperations'
    BY <1>7, <1>0, <2>1 DEF TellOurLoss, LossFunctions, BetweenOperations
  <2> QED BY <2>5, <2>6, <2>7
<1>8. ASSUME NEW n \in Node, TellPeerLoss(n) PROVE LossFunctions' /\ LossBounds' /\ BetweenOperations'
  <2>1. /\ Append(peerLoss[n], cwLoss[n]) \in Seq(Nat) /\ Len(peerLoss[n]) \in Nat
        /\ Len(Append(peerLoss[n], cwLoss[n])) = Len(peerLoss[n]) + 1
    <3>1. peerLoss[n] \in Seq(Nat) /\ cwLoss[n] \in Nat
      BY <1>8, <1>0 DEF LossFunctions
    <3> QED BY <3>1
  <2>5. LossFunctions'
    <3>1. peerLoss' \in [Node -> Seq(Nat)]
      BY <1>8, <1>0, <2>1 DEF TellPeerLoss, LossFunctions
    <3>0. /\ cwLoss' = [cwLoss EXCEPT ![n] = 0] /\ rxWindow' = [rxWindow EXCEPT ![n] = rxWindow[n] + 1]
          /\ \E next \in {"select", "report"} : pc' = [pc EXCEPT ![n] = next]
      BY <1>8 DEF TellPeerLoss
    <3>2. cwLoss' \in [Node -> Nat] /\ rxWindow' \in [Node -> Nat]
          /\ pc' \in [Node -> {"select", "ourLoss", "peerLoss", "report"}]
      BY <3>0, <1>0 DEF LossFunctions
    <3> QED BY <1>8, <1>0, <3>1, <3>2 DEF TellPeerLoss, LossFunctions
  <2>6. LossBounds'
    <3>1. \A m \in Node : Len(peerLoss'[m]) <= LossCap
      <4>1. \/ Len(peerLoss[n]) < LossCap /\ peerLoss' = [peerLoss EXCEPT ![n] = Append(peerLoss[n], cwLoss[n])]
            \/ peerLoss' = peerLoss
        BY <1>8 DEF TellPeerLoss
      <4>2. DOMAIN peerLoss = Node /\ \A m \in Node : Len(peerLoss[m]) <= LossCap
        BY <1>0 DEF LossFunctions, LossBounds
      <4>3. Len(peerLoss[n]) < LossCap => Len(Append(peerLoss[n], cwLoss[n])) <= LossCap
        BY <2>1, <1>0
      <4> QED BY <4>1, <4>2, <4>3
    <3>2. \A m \in Node : rxWindow'[m] <= MaxWindow
      <4>1. /\ rxWindow' = [rxWindow EXCEPT ![n] = rxWindow[n] + 1] /\ DOMAIN rxWindow = Node
            /\ rxWindow[n] < MaxWindow /\ rxWindow[n] \in Nat /\ \A m \in Node : rxWindow[m] <= MaxWindow
        BY <1>8, <1>0 DEF TellPeerLoss, LossFunctions, LossBounds, BetweenOperations
      <4>2. rxWindow[n] + 1 <= MaxWindow
        BY <4>1, <1>0
      <4> QED BY <4>1, <4>2
    <3>3. cwRate' = cwRate /\ ourLoss' = ourLoss /\ txCwCh' = txCwCh /\ cwCh' = cwCh
      BY <1>8 DEF TellPeerLoss
    <3> QED BY <3>1, <3>2, <3>3, <1>0 DEF LossBounds
  <2>7. BetweenOperations'
    BY <1>8, <1>0, <2>1 DEF TellPeerLoss, LossFunctions, BetweenOperations
  <2> QED BY <2>5, <2>6, <2>7
<1>9. ASSUME UNCHANGED lossVars PROVE LossFunctions' /\ LossBounds' /\ BetweenOperations'
  BY <1>9, <1>0 DEF lossVars, LossFunctions, LossBounds, BetweenOperations
<1>12. ASSUME NEW n \in Node, TakeNewTransaction(n) \/ ReportDecoded(n)
       PROVE  LossFunctions' /\ LossBounds' /\ BetweenOperations'
  BY <1>12, <1>0 DEF TakeNewTransaction, ReportDecoded, LossFunctions, LossBounds, BetweenOperations
<1>10. LossFunctions' /\ LossBounds' /\ BetweenOperations'
  BY <1>1, <1>2, <1>3, <1>4, <1>5, <1>6, <1>7, <1>8, <1>9, <1>12 DEF LossNext
<1>11. (LossFunctions /\ LossBounds)' => LossTypeOK'
  BY DEF LossTypeOK, LossFunctions, LossBounds
<1> QED BY <1>10, <1>11

(* Every loss of m is in one place of the loop or has been heard of.        *)
Account(m) == budget[m] + InFlight(m) + applied[m]

AddUp(b, l, o, a, t, c, w, r, d) == b + (l + o + a + t + c + w + r) + d

(* A step of node n moves losses, its own or those of its peer, from one    *)
(* place to the next.                                                       *)
LEMMA AccountStep ==
  ASSUME LossInv, [LossNext]_lossVars, NEW m \in Node
  PROVE  Account(m)' = Account(m)
<1> DEFINE p == Peer[m]
<1> USE DEF senderVars, receiverVars
<1>0. /\ p \in Node /\ p # m /\ \A n \in Node : Peer[n] = m => n = p
      /\ \A n \in Node : Peer[n] = p => n = m
      /\ Peer[p] = m
  BY PeerPairs
<1>1. /\ LossTypeOK /\ LossFunctions /\ LossBounds /\ BetweenOperations
  BY LossTypes DEF LossInv
<1>2. /\ accumLoss[m] \in Nat /\ loss[m] \in Nat /\ cwLoss[p] \in Nat
      /\ budget[m] \in Nat /\ applied[m] \in Nat
      /\ Total(peerLoss[p]) \in Nat /\ Total(ourLoss[m]) \in Nat
      /\ Total(txCwCh[m]) \in Nat /\ Total(cwCh[p]) \in Nat
  BY <1>0, <1>1, NodeTypes
<1>14. /\ peerLoss[p] \in Seq(Nat) /\ ourLoss[m] \in Seq(Nat)
       /\ txCwCh[m] \in Seq(Nat) /\ cwCh[p] \in Seq(Nat)
  BY <1>0, <1>1, NodeTypes
<1>3. Account(m) = AddUp(budget[m], loss[m], Total(ourLoss[m]), accumLoss[m], Total(txCwCh[m]),
                          Total(cwCh[p]), cwLoss[p], Total(peerLoss[p]), applied[m])
  BY DEF Account, InFlight, AddUp
<1>4. Account(m)' = AddUp(budget'[m], loss'[m], Total(ourLoss'[m]), accumLoss'[m],
                          Total(txCwCh'[m]),
                          Total(cwCh'[p]), cwLoss'[p], Total(peerLoss'[p]), applied'[m])
  BY DEF Account, InFlight, AddUp
<1> HIDE DEF p
<1>5. ASSUME NEW n \in Node, HearPeerLoss(n) PROVE Account(m)' = Account(m)
  <2>1. /\ UNCHANGED <<budget, loss, ourLoss, accumLoss, txCwCh, cwCh, cwLoss>>
        /\ peerLoss' = [peerLoss EXCEPT ![n] = Tail(peerLoss[n])] /\ peerLoss[n] # <<>>
        /\ applied' = [applied EXCEPT ![Peer[n]] = applied[Peer[n]] + Head(peerLoss[n])]
        /\ DOMAIN peerLoss = Node /\ DOMAIN applied = Node
    BY <1>5, <1>1 DEF HearPeerLoss, LossFunctions
  <2>2. CASE n = p
    <3>1. peerLoss'[p] = Tail(peerLoss[p]) /\ applied'[m] = applied[m] + Head(peerLoss[p])
      BY <2>1, <2>2, <1>0
    <3>2. PICK h \in Nat, q \in Nat : Head(peerLoss[p]) = h /\ Total(Tail(peerLoss[p])) = q /\ Total(peerLoss[p]) = h + q
      BY <2>1, <2>2, <1>14, TotalTail, TotalType
    <3>8. Account(m)' = AddUp(budget[m], loss[m], Total(ourLoss[m]), accumLoss[m],
                              Total(txCwCh[m]), Total(cwCh[p]), cwLoss[p], q, applied[m] + h)
      BY <3>1, <3>2, <2>1, <1>2, <1>4
    <3> QED BY <3>2, <1>2, <3>8, <1>3 DEF AddUp
  <2>3. CASE n # p
    <3>1. peerLoss'[p] = peerLoss[p] /\ applied'[m] = applied[m]
      BY <2>1, <2>3, <1>0
    <3> QED BY <3>1, <2>1, <1>3, <1>4
  <2> QED BY <2>2, <2>3
<1>6. ASSUME NEW n \in Node, HearOurLoss(n) PROVE Account(m)' = Account(m)
  <2>1. /\ UNCHANGED <<budget, loss, applied, peerLoss, txCwCh, cwCh, cwLoss>>
        /\ ourLoss' = [ourLoss EXCEPT ![n] = Tail(ourLoss[n])] /\ ourLoss[n] # <<>>
        /\ accumLoss' = [accumLoss EXCEPT ![n] = accumLoss[n] + Head(ourLoss[n])]
        /\ DOMAIN ourLoss = Node /\ DOMAIN accumLoss = Node
    BY <1>6, <1>1 DEF HearOurLoss, LossFunctions
  <2>2. CASE n = m
    <3>1. ourLoss'[m] = Tail(ourLoss[m]) /\ accumLoss'[m] = accumLoss[m] + Head(ourLoss[m])
      BY <2>1, <2>2
    <3>2. PICK h \in Nat, q \in Nat : Head(ourLoss[m]) = h /\ Total(Tail(ourLoss[m])) = q /\ Total(ourLoss[m]) = h + q
      BY <2>1, <2>2, <1>14, TotalTail, TotalType
    <3>8. Account(m)' = AddUp(budget[m], loss[m], q, accumLoss[m] + h,
                              Total(txCwCh[m]), Total(cwCh[p]), cwLoss[p], Total(peerLoss[p]), applied[m])
      BY <3>1, <3>2, <2>1, <1>2, <1>4
    <3> QED BY <3>2, <1>2, <3>8, <1>3 DEF AddUp
  <2>3. CASE n # m
    <3>1. ourLoss'[m] = ourLoss[m] /\ accumLoss'[m] = accumLoss[m]
      BY <2>1, <2>3
    <3> QED BY <3>1, <2>1, <1>3, <1>4
  <2> QED BY <2>2, <2>3
<1>7. ASSUME NEW n \in Node, SendTick(n) PROVE Account(m)' = Account(m)
  BY <1>7, <1>3, <1>4 DEF SendTick
<1>8. ASSUME NEW n \in Node, ProduceCodeword(n) PROVE Account(m)' = Account(m)
  <2>1. UNCHANGED <<budget, loss, applied, ourLoss, peerLoss, cwCh, cwLoss>>
    BY <1>8 DEF ProduceCodeword
  <2>2. CASE PutCodeword(n) /\ n = m
    <3>1. accumLoss'[m] = 0 /\ txCwCh'[m] = Append(txCwCh[m], accumLoss[m])
      BY <2>2, <1>1 DEF PutCodeword, LossFunctions
    <3>2. Total(Append(txCwCh[m], accumLoss[m])) = Total(txCwCh[m]) + accumLoss[m]
      BY <1>2, <1>14, TotalAppend
    <3>8. Account(m)' = AddUp(budget[m], loss[m], Total(ourLoss[m]), 0,
                              Total(txCwCh[m]) + accumLoss[m], Total(cwCh[p]), cwLoss[p], Total(peerLoss[p]), applied[m])
      BY <3>1, <3>2, <2>1, <1>2, <1>4
    <3> QED BY <3>1, <3>2, <2>1, <1>2, <3>8, <1>3 DEF AddUp
  <2>3. CASE DropCodeword(n) \/ (PutCodeword(n) /\ n # m)
    <3>1. accumLoss'[m] = accumLoss[m] /\ txCwCh'[m] = txCwCh[m]
      BY <2>3, <1>1 DEF PutCodeword, DropCodeword, LossFunctions
    <3> QED BY <3>1, <2>1, <1>3, <1>4
  <2> QED BY <1>8, <2>2, <2>3 DEF ProduceCodeword
<1>9. ASSUME NEW n \in Node, CarryCodeword(n) PROVE Account(m)' = Account(m)
  <2>1. /\ UNCHANGED <<budget, loss, applied, ourLoss, peerLoss, accumLoss, cwLoss>>
        /\ txCwCh' = [txCwCh EXCEPT ![n] = Tail(txCwCh[n])] /\ txCwCh[n] # <<>>
        /\ cwCh' = [cwCh EXCEPT ![Peer[n]] = Append(cwCh[Peer[n]], Head(txCwCh[n]))]
        /\ DOMAIN txCwCh = Node /\ DOMAIN cwCh = Node
    BY <1>9, <1>1 DEF CarryCodeword, Receive, LossFunctions
  <2>2. CASE n = m
    <3>0. Peer[n] = p
      BY <2>2 DEF p
    <3>1. txCwCh'[m] = Tail(txCwCh[m]) /\ cwCh'[p] = Append(cwCh[p], Head(txCwCh[m]))
      BY <2>1, <2>2, <3>0, <1>0
    <3>2. PICK h \in Nat, q \in Nat : Head(txCwCh[m]) = h /\ Total(Tail(txCwCh[m])) = q /\ Total(txCwCh[m]) = h + q
      BY <2>1, <2>2, <1>14, TotalTail, TotalType
    <3>3. Total(Append(cwCh[p], h)) = Total(cwCh[p]) + h
      BY <1>14, TotalAppend
    <3>8. Account(m)' = AddUp(budget[m], loss[m], Total(ourLoss[m]), accumLoss[m],
                              q, Total(cwCh[p]) + h, cwLoss[p], Total(peerLoss[p]), applied[m])
      BY <3>1, <3>2, <3>3, <2>1, <1>2, <1>4
    <3> QED BY <3>2, <1>2, <3>8, <1>3 DEF AddUp
  <2>3. CASE n # m
    <3>1. txCwCh'[m] = txCwCh[m] /\ cwCh'[p] = cwCh[p]
      BY <2>1, <2>3, <1>0
    <3> QED BY <3>1, <2>1, <1>3, <1>4
  <2> QED BY <2>2, <2>3
<1>10. ASSUME NEW n \in Node, TakeCodeword(n) PROVE Account(m)' = Account(m)
  <2>1. PICK lost \in Nat :
           /\ lost <= budget[n]
           /\ budget' = [budget EXCEPT ![n] = budget[n] - lost]
           /\ loss' = [loss EXCEPT ![n] = lost]
           /\ cwLoss' = [cwLoss EXCEPT ![n] = Head(cwCh[n])]
           /\ cwCh' = [cwCh EXCEPT ![n] = Tail(cwCh[n])] /\ cwCh[n] # <<>>
           /\ UNCHANGED <<applied, ourLoss, peerLoss, accumLoss, txCwCh>>
           /\ loss[n] = 0 /\ cwLoss[n] = 0
    <3>1. \A k \in Nat : 0..k \subseteq Nat
      OBVIOUS
    <3>2. rxWindow[n] \in Nat
      BY <1>1 DEF LossFunctions
    <3>3. PICK expired \in 0..rxWindow[n] : \E lost \in 0..expired :
            /\ lost <= budget[n]
            /\ budget' = [budget EXCEPT ![n] = budget[n] - lost]
            /\ loss' = [loss EXCEPT ![n] = lost]
      BY <1>10 DEF TakeCodeword
    <3>4. loss[n] = 0 /\ cwLoss[n] = 0
      BY <1>10, <1>1 DEF TakeCodeword, BetweenOperations
    <3>5. 0..expired \subseteq Nat
      BY <3>1, <3>2
    <3>6. PICK lost \in Nat :
            /\ lost <= budget[n]
            /\ budget' = [budget EXCEPT ![n] = budget[n] - lost]
            /\ loss' = [loss EXCEPT ![n] = lost]
      BY <3>3, <3>5
    <3>7. /\ cwLoss' = [cwLoss EXCEPT ![n] = Head(cwCh[n])]
          /\ cwCh' = [cwCh EXCEPT ![n] = Tail(cwCh[n])] /\ cwCh[n] # <<>>
          /\ UNCHANGED <<applied, ourLoss, peerLoss, accumLoss, txCwCh>>
      BY <1>10 DEF TakeCodeword
    <3> QED BY <3>4, <3>6, <3>7
  <2>2. DOMAIN budget = Node /\ DOMAIN loss = Node /\ DOMAIN cwLoss = Node /\ DOMAIN cwCh = Node
    BY <1>1 DEF LossFunctions
  <2>3. CASE n = m
    <3>1. budget'[m] = budget[m] - lost /\ loss'[m] = lost /\ cwLoss'[p] = cwLoss[p] /\ cwCh'[p] = cwCh[p]
      BY <2>1, <2>2, <2>3, <1>0
    <3>2. loss[m] = 0
      BY <2>1, <2>3
    <3>8. Account(m)' = AddUp(budget[m] - lost, lost, Total(ourLoss[m]), accumLoss[m],
                              Total(txCwCh[m]), Total(cwCh[p]), cwLoss[p], Total(peerLoss[p]), applied[m])
      BY <3>1, <3>2, <2>1, <1>2, <1>4
    <3>9. lost <= budget[m] /\ loss[m] = 0
      BY <2>1, <2>3
    <3> QED BY <3>9, <1>2, <3>8, <1>3 DEF AddUp
  <2>4. CASE n = p
    <3>1. budget'[m] = budget[m] /\ loss'[m] = loss[m] /\ cwLoss'[p] = Head(cwCh[p]) /\ cwCh'[p] = Tail(cwCh[p])
      BY <2>1, <2>2, <2>4, <1>0
    <3>2. PICK h \in Nat, q \in Nat : Head(cwCh[p]) = h /\ Total(Tail(cwCh[p])) = q /\ Total(cwCh[p]) = h + q
      BY <2>1, <2>4, <1>14, TotalTail, TotalType
    <3>3. cwLoss[p] = 0
      BY <2>1, <2>4
    <3>8. Account(m)' = AddUp(budget[m], loss[m], Total(ourLoss[m]), accumLoss[m],
                              Total(txCwCh[m]), q, h, Total(peerLoss[p]), applied[m])
      BY <3>1, <3>2, <2>1, <1>2, <1>4
    <3> QED BY <3>2, <3>3, <1>2, <3>8, <1>3 DEF AddUp
  <2>5. CASE n # m /\ n # p
    <3>1. budget'[m] = budget[m] /\ loss'[m] = loss[m] /\ cwLoss'[p] = cwLoss[p] /\ cwCh'[p] = cwCh[p]
      BY <2>1, <2>2, <2>5, <1>0
    <3> QED BY <3>1, <2>1, <1>3, <1>4
  <2> QED BY <2>3, <2>4, <2>5
<1>11. ASSUME NEW n \in Node, TellOurLoss(n) PROVE Account(m)' = Account(m)
  <2>1. /\ UNCHANGED <<budget, txCwCh, applied, cwCh, peerLoss, accumLoss, cwLoss>>
        /\ ourLoss' = [ourLoss EXCEPT ![n] = Append(ourLoss[n], loss[n])]
        /\ loss' = [loss EXCEPT ![n] = 0]
        /\ DOMAIN ourLoss = Node /\ DOMAIN loss = Node
    BY <1>11, <1>1 DEF TellOurLoss, LossFunctions
  <2>2. CASE n = m
    <3>1. ourLoss'[m] = Append(ourLoss[m], loss[m]) /\ loss'[m] = 0
      BY <2>1, <2>2
    <3>2. Total(Append(ourLoss[m], loss[m])) = Total(ourLoss[m]) + loss[m]
      BY <1>2, <1>14, TotalAppend
    <3>8. Account(m)' = AddUp(budget[m], 0, Total(ourLoss[m]) + loss[m], accumLoss[m],
                              Total(txCwCh[m]), Total(cwCh[p]), cwLoss[p], Total(peerLoss[p]), applied[m])
      BY <3>1, <3>2, <2>1, <1>2, <1>4
    <3> QED BY <3>1, <3>2, <2>1, <1>2, <3>8, <1>3 DEF AddUp
  <2>3. CASE n # m
    <3>1. ourLoss'[m] = ourLoss[m] /\ loss'[m] = loss[m]
      BY <2>1, <2>3
    <3> QED BY <3>1, <2>1, <1>3, <1>4
  <2> QED BY <2>2, <2>3
<1>12. ASSUME NEW n \in Node, TellPeerLoss(n) PROVE Account(m)' = Account(m)
  <2>1. /\ UNCHANGED <<budget, txCwCh, applied, cwCh, ourLoss, accumLoss, loss>>
        /\ cwLoss' = [cwLoss EXCEPT ![n] = 0]
        /\ IF cwLoss[n] > 0 THEN peerLoss' = [peerLoss EXCEPT ![n] = Append(peerLoss[n], cwLoss[n])]
                            ELSE peerLoss' = peerLoss
        /\ DOMAIN cwLoss = Node /\ DOMAIN peerLoss = Node
    BY <1>12, <1>1 DEF TellPeerLoss, LossFunctions
  <2>2. CASE n = p
    <3>1. cwLoss'[p] = 0
      BY <2>1, <2>2, <1>0
    <3>2. CASE cwLoss[p] > 0
      <4>1. peerLoss'[p] = Append(peerLoss[p], cwLoss[p])
        BY <2>1, <2>2, <3>2, <1>0
      <4>2. Total(Append(peerLoss[p], cwLoss[p])) = Total(peerLoss[p]) + cwLoss[p]
        BY <1>2, <1>14, TotalAppend
      <4>8. Account(m)' = AddUp(budget[m], loss[m], Total(ourLoss[m]), accumLoss[m],
                                Total(txCwCh[m]), Total(cwCh[p]), 0, Total(peerLoss[p]) + cwLoss[p], applied[m])
        BY <3>1, <4>1, <4>2, <2>1, <1>2, <1>4
      <4> QED BY <3>1, <4>1, <4>2, <2>1, <1>2, <4>8, <1>3 DEF AddUp
    <3>3. CASE ~(cwLoss[p] > 0)
      <4>1. peerLoss'[p] = peerLoss[p] /\ cwLoss[p] = 0
        BY <2>1, <2>2, <3>3, <1>2
      <4> QED BY <3>1, <4>1, <2>1, <1>3, <1>4
    <3> QED BY <3>2, <3>3
  <2>3. CASE n # p
    <3>1. cwLoss'[p] = cwLoss[p] /\ peerLoss'[p] = peerLoss[p]
      BY <2>1, <2>3, <1>0
    <3> QED BY <3>1, <2>1, <1>3, <1>4
  <2> QED BY <2>2, <2>3
<1>13. ASSUME UNCHANGED lossVars PROVE Account(m)' = Account(m)
  BY <1>13, <1>3, <1>4 DEF lossVars
<1>15. ASSUME NEW n \in Node, TakeNewTransaction(n) \/ ReportDecoded(n) PROVE Account(m)' = Account(m)
  BY <1>15, <1>3, <1>4 DEF TakeNewTransaction, ReportDecoded
<1> QED BY <1>5, <1>6, <1>7, <1>8, <1>9, <1>10, <1>11, <1>12, <1>13, <1>15 DEF LossNext

LEMMA LossInvariant == LossSpec => []LossInv
<1>1. LossInv /\ [LossNext]_lossVars => LossInv'
  <2> SUFFICES ASSUME LossInv, [LossNext]_lossVars PROVE LossInv'
    OBVIOUS
  <2>1. LossTypeOK' /\ BetweenOperations'
    BY LossTypeStep
  <2>2. \A m \in Node : Account(m) = Budget[m]
    BY DEF LossInv, LossConserved, Account
  <2>3. \A m \in Node : Account(m)' = Budget[m]
    BY <2>2, AccountStep
  <2>4. LossConserved'
    BY <2>3 DEF LossConserved, Account
  <2> QED BY <2>1, <2>4 DEF LossInv
<1> QED BY <1>1, LossInitially, PTL DEF LossSpec

(* Channels never hold more than their capacities, and the rate of a sender *)
(* stays above its floor, which sender.loop keeps.                          *)
THEOREM NodeLossTypeOK == LossSpec => []LossTypeOK
<1>1. LossInv => LossTypeOK
  BY DEF LossInv
<1> QED BY <1>1, LossInvariant, PTL

(* No loss report is lost with a codeword that is dropped, and none is      *)
(* counted twice, on the way through six channels and goroutines.           *)
THEOREM LossesAreConserved == LossSpec => []LossConserved
<1>1. LossInv => LossConserved
  BY DEF LossInv
<1> QED BY <1>1, LossInvariant, PTL
=============================================================================
