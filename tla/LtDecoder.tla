------------------------------ MODULE LtDecoder ------------------------------
(***************************************************************************)
(* The peeling decoder of package lt (lt/decoder.go; iblt/decoder.go is a  *)
(* copy of it without HasDecoded).  Every codeword that contains unknown   *)
(* transactions is linked both ways with a stub per unknown transaction:   *)
(* members (codeword to stubs) and blocking (stub to codewords).  Learning *)
(* a transaction peels it from the codewords it blocks; a codeword with at *)
(* most one member left is queued for decoding, which may teach another    *)
(* transaction, and so on until the queue is empty.                        *)
(*                                                                         *)
(* A call of the decoder is one action, AddCodeword or AddTransaction,     *)
(* followed by one DecodeStep per iteration of the loop of decodeCodewords *)
(* (the decoder is owned by one goroutine, so a call starts only when the  *)
(* queue of the previous one is empty).  The stack of the code is a set    *)
(* here: its order decides only in which order codewords are visited, and  *)
(* the model allows every order.  A stub is identified by its salted hash: *)
(* the code never has two live stubs for a hash.                           *)
(***************************************************************************)
EXTENDS LtCode, Sequences

CONSTANTS
  Cw,       \* identities of PendingCodeword objects (bounds their number)
  Memory    \* Decoder.memory, how many transactions are remembered

ASSUME MemoryAssumption == Memory \in Nat

VARIABLES
  received,   \* receivedTransactions: salted hash -> data, a partial function
  recent,     \* recentTransactions, oldest first
  pending,    \* keys of pendingTransactions
  blocking,   \* pendingTransaction.blocking by salted hash of the stub
  allocated,  \* PendingCodewords handed out so far
  symbol,     \* PendingCodeword.symbol
  members,    \* PendingCodeword.members, as salted hashes of the stubs
  queued,     \* PendingCodewords with the queued flag
  decoded,    \* PendingCodewords with the decoded flag
  queue,      \* the work list of decodeCodewords
  newTx       \* what the call under way (or the last one) returns

linkVars == <<pending, blocking, symbol, members>>
storeVars == <<received, recent>>
vars == <<received, recent, pending, blocking, allocated, symbol, members,
          queued, decoded, queue, newTx>>

Known(h) == h \in DOMAIN received

(* The fields of Decoder, PendingCodeword and pendingTransaction.           *)
TypeOK ==
  /\ DOMAIN received \subseteq Hashes
  /\ received \in [DOMAIN received -> Data]
  /\ recent \in Seq(Data)
  /\ pending \subseteq Hashes
  /\ blocking \in [Hashes -> SUBSET Cw]
  /\ allocated \subseteq Cw
  /\ symbol \in [Cw -> Data]
  /\ members \in [Cw -> SUBSET Hashes]
  /\ queued \subseteq Cw
  /\ decoded \subseteq Cw
  /\ queue \subseteq Cw
  /\ newTx \subseteq Data

Init ==
  /\ received = [h \in {} |-> Zero]
  /\ recent = <<>>
  /\ pending = {}
  /\ blocking = [h \in Hashes |-> {}]
  /\ allocated = {}
  /\ symbol = [c \in Cw |-> Zero]
  /\ members = [c \in Cw |-> {}]
  /\ queued = {}
  /\ decoded = {}
  /\ queue = {}
  /\ newTx = {}

-----------------------------------------------------------------------------
(* storeNewTransaction: remember d, and forget the oldest transaction when  *)
(* there are too many (recent never holds more than Memory entries between  *)
(* calls, so the loop of the code runs at most once).                       *)

Learn(h, d) == [g \in DOMAIN received \cup {h} |-> IF g = h THEN d ELSE received[g]]

Forget(r, d) ==
  [g \in {k \in DOMAIN r : ~(k = SaltedHash[d] /\ r[k] = d)} |-> r[g]]

Store(h, d) ==
  LET all == Append(recent, d) IN
  IF Len(all) > Memory
  THEN /\ recent' = Tail(all)
       /\ received' = Forget(Learn(h, d), Head(all))
  ELSE /\ recent' = all
       /\ received' = Learn(h, d)

(* markDecoded and peelTransaction: peel the stub of h from every codeword  *)
(* it blocks.  Released(h) are the codewords this makes decodable.          *)

ReleasedWhenEmpty(h) ==   \* mutant of Released: "< 1" for "<= 1"
  {c \in blocking[h] : members[c] \ {h} = {} /\ c \notin queued}

Released(h) == {c \in blocking[h] : AtMostOne(members[c] \ {h}) /\ c \notin queued}

PeelWithoutXOR(h, d) ==   \* mutant of Peel: the symbols stay as they are
  /\ members' = [c \in Cw |-> IF c \in blocking[h] THEN members[c] \ {h} ELSE members[c]]
  /\ blocking' = [blocking EXCEPT ![h] = {}]
  /\ pending' = pending \ {h}
  /\ queued' = queued \cup Released(h)
  /\ UNCHANGED symbol

PeelKeepingStub(h, d) ==   \* mutant of Peel: the stub stays pending
  /\ symbol' = [c \in Cw |-> IF c \in blocking[h] THEN XOR(symbol[c], d) ELSE symbol[c]]
  /\ members' = [c \in Cw |-> IF c \in blocking[h] THEN members[c] \ {h} ELSE members[c]]
  /\ blocking' = [blocking EXCEPT ![h] = {}]
  /\ queued' = queued \cup Released(h)
  /\ UNCHANGED pending

Peel(h, d) ==
  /\ symbol' = [c \in Cw |-> IF c \in blocking[h] THEN XOR(symbol[c], d) ELSE symbol[c]]
  /\ members' = [c \in Cw |-> IF c \in blocking[h] THEN members[c] \ {h} ELSE members[c]]
  /\ blocking' = [blocking EXCEPT ![h] = {}]
  /\ pending' = pending \ {h}
  /\ queued' = queued \cup Released(h)

(* failToDecode: drop the link between c and its only stub, and the stub    *)
(* too when it blocks nothing else.                                         *)

FailToDecodeKeepingLink(c, h) ==   \* mutant of FailToDecode: one direction only
  /\ members' = [members EXCEPT ![c] = {}]
  /\ pending' = IF blocking[h] = {c} THEN pending \ {h} ELSE pending
  /\ UNCHANGED <<blocking, symbol, queued>>

FailToDecode(c, h) ==
  /\ members' = [members EXCEPT ![c] = {}]
  /\ blocking' = [blocking EXCEPT ![h] = @ \ {c}]
  /\ pending' = IF blocking[h] = {c} THEN pending \ {h} ELSE pending
  /\ UNCHANGED <<symbol, queued>>

-----------------------------------------------------------------------------
(* The calls.                                                               *)

Idle == queue = {}

AddCodeword(c, raw) ==
  LET known == raw.members \cap DOMAIN received
      unknown == raw.members \ DOMAIN received
  IN
  /\ Idle
  /\ c \in Cw \ allocated
  /\ allocated' = allocated \cup {c}
  /\ symbol' = [symbol EXCEPT ![c] = XOR(raw.symbol, XorAll(received, known))]
  /\ members' = [members EXCEPT ![c] = unknown]
  /\ blocking' = [h \in Hashes |-> IF h \in unknown THEN blocking[h] \cup {c} ELSE blocking[h]]
  /\ pending' = pending \cup unknown
  /\ queued' = IF AtMostOne(unknown) THEN queued \cup {c} ELSE queued
  /\ queue' = IF AtMostOne(unknown) THEN {c} ELSE {}
  /\ newTx' = {}
  /\ UNCHANGED <<received, recent, decoded>>

(* A transaction whose salted hash is unknown is stored and peeled; one     *)
(* that is known already is ignored; one that collides with a known one     *)
(* takes its place.                                                         *)

AddNewTransactionUnpeeled(d) ==   \* mutant of AddNewTransaction: stored only
  /\ Idle
  /\ ~Known(SaltedHash[d])
  /\ Store(SaltedHash[d], d)
  /\ newTx' = {}
  /\ UNCHANGED <<linkVars, queued, queue, allocated, decoded>>

AddNewTransaction(d) ==
  LET h == SaltedHash[d] IN
  /\ Idle
  /\ ~Known(h)
  /\ Store(h, d)
  /\ newTx' = {}
  /\ IF h \in pending
     THEN /\ Peel(h, d)
          /\ queue' = Released(h)
     ELSE UNCHANGED <<linkVars, queued, queue>>
  /\ UNCHANGED <<allocated, decoded>>

AddKnownTransaction(d) ==
  /\ Idle
  /\ Known(SaltedHash[d])
  /\ received[SaltedHash[d]] = d
  /\ newTx' = {}
  /\ UNCHANGED <<storeVars, linkVars, allocated, queued, decoded, queue>>

AddConflictingTransaction(d) ==
  /\ Idle
  /\ Known(SaltedHash[d])
  /\ received[SaltedHash[d]] # d
  /\ Store(SaltedHash[d], d)
  /\ newTx' = {}
  /\ UNCHANGED <<linkVars, allocated, queued, decoded, queue>>

AddTransaction(d) ==
  \/ AddNewTransaction(d)
  \/ AddKnownTransaction(d)
  \/ AddConflictingTransaction(d)

-----------------------------------------------------------------------------
(* One iteration of the loop of decodeCodewords, on codeword c.             *)

DecodeEmptyAgain(c) ==   \* mutant of DecodeEmpty: never popped
  /\ members[c] = {}
  /\ UNCHANGED <<storeVars, linkVars, queued, newTx, queue>>

DecodeEmpty(c) ==
  /\ members[c] = {}
  /\ queue' = queue \ {c}
  /\ UNCHANGED <<storeVars, linkVars, queued, newTx>>

DecodeMismatch(c) ==
  \E h \in Hashes :
    /\ members[c] = {h}
    /\ SaltedHash[symbol[c]] # h
    /\ FailToDecode(c, h)
    /\ queue' = queue \ {c}
    /\ UNCHANGED <<storeVars, newTx>>

DecodeTransaction(c) ==
  \E h \in Hashes :
    /\ members[c] = {h}
    /\ SaltedHash[symbol[c]] = h
    /\ newTx' = newTx \cup {symbol[c]}
    /\ Store(h, symbol[c])
    /\ Peel(h, symbol[c])
    /\ queue' = (queue \ {c}) \cup Released(h)

DecodeStep ==
  \E c \in queue :
    /\ DecodeEmpty(c) \/ DecodeMismatch(c) \/ DecodeTransaction(c)
    /\ decoded' = decoded \cup {c}
    /\ UNCHANGED allocated

Next ==
  \/ \E c \in Cw, T \in EncodableSets : AddCodeword(c, CodewordOver(T))
  \/ \E d \in Tx : AddTransaction(d)
  \/ DecodeStep

Spec == Init /\ [][Next]_vars

(* The loop of decodeCodewords runs to its end: nothing else can run in the *)
(* goroutine that is inside it.                                             *)
FairSpec == Spec /\ WF_vars(DecodeStep)

-----------------------------------------------------------------------------
(* HasDecoded, the only query.                                              *)
HasDecoded(d) == Known(SaltedHash[d])

(***************************************************************************)
(* What the data structure promises.                                       *)
(***************************************************************************)

(* The two directions of the links agree, so that peelTransaction and       *)
(* failToDecode always find what they look for (the panics at               *)
(* lt/decoder.go:78, 95 and 261).                                           *)
Linked == \A c \in Cw, h \in Hashes : c \in blocking[h] <=> h \in members[c]

(* A stub is in pendingTransactions exactly while it blocks a codeword: a   *)
(* stub that blocks nothing would never be freed, one that is dropped early *)
(* would leave its codewords blocked for ever (failToDecode's third result).*)
StubsNeeded == \A h \in Hashes : h \in pending <=> blocking[h] # {}

(* No transaction is received and pending at once (the panics at            *)
(* lt/decoder.go:165, 204 and 255).                                         *)
PendingUnknown == pending \cap DOMAIN received = {}

(* A codeword is queued, once, exactly when at most one stub is left in it, *)
(* and a decoded codeword is empty (the panics at lt/decoder.go:56, 221,    *)
(* 252 and 258, and the condition of markDecoded).                          *)
QueuedWhenDecodable ==
  /\ \A c \in Cw : c \in queued <=> c \in allocated /\ AtMostOne(members[c])
  /\ queue = queued \ decoded
  /\ decoded \subseteq queued
  /\ \A c \in Cw : c \in decoded \/ c \notin allocated => members[c] = {}

(* None of the decoder's panics is reachable, whatever codewords over       *)
(* collision-free windows and whatever transactions arrive, colliding or    *)
(* not: each conjunct is what one panic of lt/decoder.go tests.             *)
NoPanic ==
  /\ \A h \in Hashes : ~(Known(h) /\ h \in pending)
  /\ \A h \in pending : \A c \in blocking[h] : h \in members[c]
  /\ \A c \in queue :
       /\ c \in queued
       /\ AtMostOne(members[c])
       /\ \A h \in members[c] : h \in pending /\ ~Known(h) /\ c \in blocking[h]

(* Between two calls nothing decodable is left behind: a codeword that is   *)
(* not decoded waits for two transactions at least, none of them known.     *)
PeelingComplete ==
  Idle => \A c \in allocated \ decoded :
            ~AtMostOne(members[c]) /\ members[c] \cap DOMAIN received = {}

(* The memory bound of storeNewTransaction: at most Memory transactions are *)
(* remembered, and every one that receivedTransactions holds will be        *)
(* forgotten, because it is in recentTransactions too.                      *)
MemoryBounded ==
  /\ Len(recent) <= Memory
  /\ \A h \in DOMAIN received :
       \E i \in 1..Len(recent) : recent[i] = received[h] /\ SaltedHash[recent[i]] = h

(* All of this together is inductive: what every call of AddCodeword and    *)
(* AddTransaction, and every turn of decodeCodewords, relies on and leaves. *)
IInv ==
  /\ TypeOK
  /\ Linked
  /\ StubsNeeded
  /\ PendingUnknown
  /\ QueuedWhenDecodable
  /\ MemoryBounded

(* Soundness: when no two transactions of the system share a salted hash,   *)
(* the decoder knows and returns only real transactions, and what is left   *)
(* in a codeword is the XOR of exactly the transactions it still waits for, *)
(* however the transactions and codewords were interleaved and forgotten.   *)
Sound ==
  CollisionFree(Tx) =>
    /\ newTx \subseteq Tx
    /\ \A h \in DOMAIN received : received[h] \in Tx /\ SaltedHash[received[h]] = h
    /\ \A c \in Cw : \E T \in SUBSET Tx :
         members[c] = HashesOf(T) /\ symbol[c] = XorAll(Identity, T)

(* A decoded transaction is reported only when it was unknown, and is       *)
(* remembered from then on (or forgotten at once, for want of memory).      *)
ReportsNews ==
  [][\A d \in newTx' \ newTx :
       /\ ~HasDecoded(d)
       /\ recent' # <<>> => recent'[Len(recent')] = d]_vars

(* What the comment at lt/decoder.go:133-135 promises of the comparison by  *)
(* value: it has the effect of a comparison of pointers, that is, only the  *)
(* entry that is the oldest one itself is deleted from receivedTransactions,*)
(* and the latest transaction stored under a hash stays remembered.         *)
LatestRemembered ==
  \A i \in 1..Len(recent) :
    (\A j \in (i + 1)..Len(recent) : SaltedHash[recent[j]] # SaltedHash[recent[i]])
      => Known(SaltedHash[recent[i]]) /\ received[SaltedHash[recent[i]]] = recent[i]

(* Every call of the decoder returns: the loop of decodeCodewords ends.     *)
CallsReturn == []<>Idle
=============================================================================
