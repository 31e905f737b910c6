---------------------------- MODULE LdpcDecoder ----------------------------
(***************************************************************************)
(* The memory of the decoders of package ldpc (ldpc/decoder.go), which a   *)
(* node runs, one per peer.  They peel codewords as LtDecoder does, but    *)
(* recycle their objects: codewords and stubs come from two sync.Pools     *)
(* that all decoders share, a stub goes back when its transaction is       *)
(* decoded or can no longer be, and a codeword goes back when it is both   *)
(* decoded and freed by the user, whichever happens last.  An object that  *)
(* goes back too early, or twice, ends up in two decoders at once.         *)
(*                                                                         *)
(* The data are left out (LtDecoder has them): whether what is left in a   *)
(* codeword has the salted hash of its last stub is a choice, and a        *)
(* transaction is its salted hash.  Each decoder belongs to a goroutine;   *)
(* a call is AddCodeword or AddTransaction followed by one DecodeStep per  *)
(* iteration of decodeCodewords, and the goroutines interleave.            *)
(***************************************************************************)
EXTENDS Integers, Sequences, FiniteSets, SequencesExt

CONSTANTS
  Dec,      \* the decoders, each with its goroutine
  Cw,       \* PendingCodeword objects (bounds how many are ever made)
  Stub,     \* pendingTransaction objects (likewise)
  Hashes,   \* salted hashes
  Memory    \* numTransactionsMemorized

(* A salted hash has 32 bits; a codeword and a stub are different objects.  *)
ASSUME LdpcAssumption == Memory \in Nat /\ IsFiniteSet(Hashes) /\ Cw \cap Stub = {}

VARIABLES
  made,       \* the objects allocated so far, of both kinds
  pool,       \* how often an object is in its pool
  members,    \* PendingCodeword.members
  queued, decoded, freed,   \* codewords with the flag set
  saltedHash,   \* pendingTransaction.saltedHash
  blocking,     \* pendingTransaction.blocking
  received,     \* keys of receivedTransactions, by decoder
  recent,       \* recentTransactions, oldest first, as salted hashes
  pending,      \* pendingTransactions, by decoder: salted hash -> stub
  queue,        \* work list of decodeCodewords, by decoder
  held          \* codewords the user of the decoder holds

objVars == <<members, queued, decoded, freed, saltedHash, blocking>>
vars == <<made, pool, objVars, received, recent, pending, queue, held>>

Pending(d) == DOMAIN pending[d]
Stubs(d) == {pending[d][h] : h \in Pending(d)}

(* The fields of the decoders and their objects; no decoder remembers more  *)
(* than storeNewTransaction allows.                                         *)
TypeOK ==
  /\ made \subseteq Cw \cup Stub
  /\ pool \in [Cw \cup Stub -> Nat]
  /\ members \in [Cw -> SUBSET Stub]
  /\ queued \subseteq Cw /\ decoded \subseteq Cw /\ freed \subseteq Cw
  /\ saltedHash \in [Stub -> Hashes]
  /\ blocking \in [Stub -> SUBSET Cw]
  /\ received \in [Dec -> SUBSET Hashes]
  /\ recent \in [Dec -> Seq(Hashes)] /\ \A d \in Dec : Len(recent[d]) <= Memory
  /\ DOMAIN pending = Dec
  /\ \A d \in Dec : Pending(d) \subseteq Hashes /\ pending[d] \in [Pending(d) -> Stub]
  /\ queue \in [Dec -> SUBSET Cw]
  /\ held \in [Dec -> SUBSET Cw]

Init ==
  /\ made = {}
  /\ pool = [o \in Cw \cup Stub |-> 0]
  /\ members = [c \in Cw |-> {}]
  /\ queued = {} /\ decoded = {} /\ freed = {}
  /\ \E h \in Hashes : saltedHash = [s \in Stub |-> h]
  /\ blocking = [s \in Stub |-> {}]
  /\ received = [d \in Dec |-> {}]
  /\ recent = [d \in Dec |-> <<>>]
  /\ pending = [d \in Dec |-> [h \in {} |-> 0]]
  /\ queue = [d \in Dec |-> {}]
  /\ held = [d \in Dec |-> {}]

-----------------------------------------------------------------------------
(* sync.Pool: Get takes any object of the pool or makes a new one.          *)
Available(kind) == {o \in kind : pool[o] > 0 \/ o \notin made}

PoolAfter(got, put) ==
  [o \in Cw \cup Stub |->
     pool[o] - (IF o \in got /\ o \in made THEN 1 ELSE 0) + (IF o \in put THEN 1 ELSE 0)]

Idle(d) == queue[d] = {}

(* storeNewTransaction.  An entry of receivedTransactions is deleted with   *)
(* the oldest entry of recentTransactions if it is the same transaction;    *)
(* it is unless another one with its salted hash has taken its place.       *)
Store(d, h) ==
  LET all == Append(recent[d], h)
      kept == Tail(all)
      known == received[d] \cup {h}
  IN
  IF Len(all) > Memory
  THEN /\ recent' = [recent EXCEPT ![d] = kept]
       /\ \E forgotten \in IF Head(all) \in Range(kept) THEN SUBSET {Head(all)} ELSE {{Head(all)}} :
            received' = [received EXCEPT ![d] = known \ forgotten]
  ELSE /\ recent' = [recent EXCEPT ![d] = all]
       /\ received' = [received EXCEPT ![d] = known]

(* peelTransaction of stub s on every codeword that it blocks.              *)
Peeled(s) == [c \in Cw |-> IF c \in blocking[s] THEN members[c] \ {s} ELSE members[c]]

(* markDecoded on stub s: peel it and queue what becomes decodable.         *)
Released(s) == {c \in blocking[s] : Cardinality(Peeled(s)[c]) <= 1 /\ c \notin queued}

PeelKeepingStub(d, s) ==   \* mutant of Peel: the stub stays in pendingTransactions
  /\ members' = Peeled(s)
  /\ blocking' = [blocking EXCEPT ![s] = {}]
  /\ queued' = queued \cup Released(s)
  /\ UNCHANGED pending

Peel(d, s) ==
  /\ members' = Peeled(s)
  /\ blocking' = [blocking EXCEPT ![s] = {}]
  /\ queued' = queued \cup Released(s)
  /\ pending' = [pending EXCEPT ![d] = [h \in Pending(d) \ {saltedHash[s]} |-> pending[d][h]]]

ResetKeepingQueued(c, ready) ==   \* mutant of Reset: the queued flag is not cleared
  /\ queued' = IF ready THEN queued \cup {c} ELSE queued
  /\ decoded' = decoded \ {c}
  /\ freed' = freed \ {c}

(* PendingCodeword.reset, and the flag that AddCodeword sets afterwards if  *)
(* c is ready to be decoded; AddCodeword sets the other fields.             *)
Reset(c, ready) ==
  /\ queued' = (queued \ {c}) \cup (IF ready THEN {c} ELSE {})
  /\ decoded' = decoded \ {c}
  /\ freed' = freed \ {c}

(* AddCodeword(raw) with the salted hashes hs: c and the stubs got for the  *)
(* hashes never heard of come from the pools and are reset.                 *)
AddCodeword(d, c, hs) ==
  LET unknown == hs \ received[d]
      new == unknown \ Pending(d)
  IN
  \E got \in [new -> Available(Stub)] :
    LET stub == [h \in unknown |-> IF h \in new THEN got[h] ELSE pending[d][h]]
        mine == {stub[h] : h \in unknown}
        gotStubs == {got[h] : h \in new}
        ready == Cardinality(unknown) <= 1
    IN
    /\ Idle(d)
    /\ c \in Available(Cw)
    /\ \A g, h \in new : got[g] = got[h] => g = h
    /\ made' = made \cup {c} \cup gotStubs
    /\ pool' = PoolAfter({c} \cup gotStubs, {})
    /\ members' = [members EXCEPT ![c] = mine]
    /\ saltedHash' = [s \in Stub |-> IF s \in gotStubs
                                     THEN CHOOSE h \in new : got[h] = s ELSE saltedHash[s]]
    /\ blocking' = [s \in Stub |-> (IF s \in gotStubs THEN {} ELSE blocking[s])
                                     \cup (IF s \in mine THEN {c} ELSE {})]
    /\ pending' = [pending EXCEPT ![d] =
                     [h \in Pending(d) \cup new |-> IF h \in new THEN got[h] ELSE pending[d][h]]]
    /\ Reset(c, ready)
    /\ queue' = [queue EXCEPT ![d] = IF ready THEN {c} ELSE {}]
    /\ held' = [held EXCEPT ![d] = @ \cup {c}]
    /\ UNCHANGED <<received, recent>>

(* AddTransaction with salted hash h.  A transaction whose hash is known    *)
(* already is ignored, or stored if it is another one (a collision).        *)
AddTransaction(d, h) ==
  /\ Idle(d)
  /\ IF h \in received[d]
     THEN /\ Store(d, h) \/ UNCHANGED <<received, recent>>
          /\ UNCHANGED <<pending, queue, pool, members, queued, blocking>>
     ELSE /\ Store(d, h)
          /\ IF h \in Pending(d)
             THEN LET s == pending[d][h] IN
                  /\ Peel(d, s)
                  /\ queue' = [queue EXCEPT ![d] = Released(s)]
                  /\ pool' = PoolAfter({}, {s})
             ELSE UNCHANGED <<pending, queue, pool, members, queued, blocking>>
  /\ UNCHANGED <<made, decoded, freed, saltedHash, held>>

-----------------------------------------------------------------------------
ReturnAlways(c, stubs) ==   \* mutant of Return: also if the user has not freed it
  /\ decoded' = decoded \cup {c}
  /\ pool' = PoolAfter({}, stubs \cup {c})

(* One iteration of decodeCodewords on c.  At its end c is decoded, and     *)
(* goes back to its pool if the user has freed it.                          *)
Return(c, stubs) ==
  /\ decoded' = decoded \cup {c}
  /\ pool' = PoolAfter({}, stubs \cup (IF c \in freed THEN {c} ELSE {}))

DecodeEmpty(d, c) ==
  /\ members[c] = {}
  /\ queue' = [queue EXCEPT ![d] = @ \ {c}]
  /\ Return(c, {})
  /\ UNCHANGED <<members, queued, blocking, pending, received, recent>>

DecodeTransaction(d, c) ==
  \E s \in Stub :
    /\ members[c] = {s}
    /\ Store(d, saltedHash[s])
    /\ Peel(d, s)
    /\ queue' = [queue EXCEPT ![d] = (@ \ {c}) \cup Released(s)]
    /\ Return(c, {s})

DecodeMismatchLeaking(d, c) ==   \* mutant of DecodeMismatch: the stub is not put back
  \E s \in Stub :
    /\ members[c] = {s}
    /\ members' = [members EXCEPT ![c] = {}]
    /\ blocking' = [blocking EXCEPT ![s] = @ \ {c}]
    /\ pending' = IF blocking[s] = {c}
                  THEN [pending EXCEPT ![d] = [h \in Pending(d) \ {saltedHash[s]} |-> pending[d][h]]]
                  ELSE pending
    /\ queue' = [queue EXCEPT ![d] = @ \ {c}]
    /\ Return(c, {})
    /\ UNCHANGED <<queued, received, recent>>

(* failToDecode.                                                            *)
DecodeMismatch(d, c) ==
  \E s \in Stub :
    LET last == blocking[s] = {c} IN
    /\ members[c] = {s}
    /\ members' = [members EXCEPT ![c] = {}]
    /\ blocking' = [blocking EXCEPT ![s] = @ \ {c}]
    /\ pending' = IF last
                  THEN [pending EXCEPT ![d] = [h \in Pending(d) \ {saltedHash[s]} |-> pending[d][h]]]
                  ELSE pending
    /\ queue' = [queue EXCEPT ![d] = @ \ {c}]
    /\ Return(c, IF last THEN {s} ELSE {})
    /\ UNCHANGED <<queued, received, recent>>

DecodeStep(d) ==
  \E c \in queue[d] :
    /\ DecodeEmpty(d, c) \/ DecodeTransaction(d, c) \/ DecodeMismatch(d, c)
    /\ UNCHANGED <<made, freed, saltedHash, held>>

FreeAlways(d, c) ==   \* mutant of Free: also if it is not decoded
  /\ Idle(d)
  /\ c \in held[d]
  /\ freed' = freed \cup {c}
  /\ held' = [held EXCEPT ![d] = @ \ {c}]
  /\ pool' = PoolAfter({}, {c})
  /\ UNCHANGED <<made, members, queued, decoded, saltedHash, blocking, received, recent,
                 pending, queue>>

(* PendingCodeword.Free: the user times c out and forgets it.  It runs in   *)
(* the goroutine of the decoder, between calls.                             *)
Free(d, c) ==
  /\ Idle(d)
  /\ c \in held[d]
  /\ freed' = freed \cup {c}
  /\ held' = [held EXCEPT ![d] = @ \ {c}]
  /\ pool' = PoolAfter({}, IF c \in decoded THEN {c} ELSE {})
  /\ UNCHANGED <<made, members, queued, decoded, saltedHash, blocking, received, recent,
                 pending, queue>>

Next ==
  \E d \in Dec :
    \/ \E c \in Cw, hs \in SUBSET Hashes : AddCodeword(d, c, hs)
    \/ \E h \in Hashes : AddTransaction(d, h)
    \/ DecodeStep(d)
    \/ \E c \in Cw : Free(d, c)

Spec == Init /\ [][Next]_vars

-----------------------------------------------------------------------------
(* The codewords decoder d can still reach.                                 *)
Reached(d) == queue[d] \cup UNION {blocking[s] : s \in Stubs(d)}

(* An object in a pool is there once and nobody can reach it: no decoder,   *)
(* no stub, no codeword, no user.  The next Get may hand it to any decoder. *)
PoolSafe ==
  /\ \A o \in Cw \cup Stub : pool[o] <= 1
  /\ \A c \in Cw : pool[c] = 1 => (\A d \in Dec : c \notin (Reached(d) \cup held[d]))
  /\ \A s \in Stub : pool[s] = 1 =>
       /\ \A d \in Dec : s \notin Stubs(d)
       /\ \A c \in Cw : s \notin members[c]

(* No object is shared by two decoders, although the pools are.             *)
Disjoint ==
  \A d, e \in Dec : d # e =>
    /\ Stubs(d) \cap Stubs(e) = {}
    /\ (Reached(d) \cup held[d]) \cap (Reached(e) \cup held[e]) = {}

(* A codeword is back in the pool exactly when it is both decoded and       *)
(* freed, in whatever order the two happened, and a stub exactly when no    *)
(* decoder has it: nothing is recycled early and nothing is leaked.         *)
Recycled ==
  /\ \A c \in Cw \cap made : pool[c] = 1 <=> c \in decoded \cap freed
  /\ \A s \in Stub \cap made : pool[s] = 1 <=> (\A d \in Dec : s \notin Stubs(d))

(* What can be decoded is on its way: a codeword that was never decoded and *)
(* has at most one stub left is in the work list of a decoder, so between   *)
(* two calls none waits.  A recycled codeword that kept the queued flag of  *)
(* its former life would never be queued again, and neither be decoded nor, *)
(* once freed, go back to its pool.                                         *)
PeelingComplete ==
  \A c \in (Cw \cap made) \ decoded :
    Cardinality(members[c]) <= 1 => \E d \in Dec : c \in queue[d]

(* The panics of ldpc/decoder.go: stubs and codewords are linked both ways  *)
(* (lines 106, 123, 286), no hash is received and pending (186, 225, 280),  *)
(* a stub is filed under its hash (208), what is queued is decodable (242,  *)
(* 277, 283).                                                               *)
NoPanic ==
  /\ \A d \in Dec : \A h \in Pending(d) :
       LET s == pending[d][h] IN
       /\ h \notin received[d]
       /\ saltedHash[s] = h
       /\ \A c \in blocking[s] : s \in members[c]
  /\ \A d \in Dec : \A c \in queue[d] :
       /\ c \in queued
       /\ Cardinality(members[c]) <= 1
       /\ \A s \in members[c] : s \in Stubs(d) /\ c \in blocking[s]
=============================================================================
