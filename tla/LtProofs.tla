------------------------------ MODULE LtProofs ------------------------------
(***************************************************************************)
(* The codec of package lt.  Of the decoder, for any set of transactions,  *)
(* any salted hash (colliding or not), any number of codewords and any     *)
(* memory; and that it implements LtPeeling when it forgets nothing and no *)
(* two transactions share a salted hash.  Of the encoder, beside that of   *)
(* ldpc, for any data, hashes and window sizes: the window agrees with its *)
(* hashes and holds no collision, shuffling loses its order for no longer  *)
(* than a codeword takes, and a codeword is over as many transactions of   *)
(* the window as its degree says.                                          *)
(***************************************************************************)
EXTENDS LtDecoderRefines, LdpcEncoder, SequenceLemmas

-----------------------------------------------------------------------------
(* The algebra of LtCode: what the XOR of a set of transactions is, and how *)
(* it changes when some of them are peeled.                                 *)

(* XOR of two blocks is a block (TransactionData.XOR).                      *)
LEMMA XORType == \A d, e \in Data : XOR(d, e) \in Data
  BY DEF XOR, Data

(* So is the XOR of any family of them.                                     *)
LEMMA XorAllType == \A f, S : XorAll(f, S) \in Data
  BY DEF XorAll, Data

(* The zero value of the data type is a block.                              *)
LEMMA ZeroType == Zero \in Data
  BY DEF Zero, Data

(* Every block has a salted hash.                                           *)
LEMMA HashType == \A d \in Data : SaltedHash[d] \in Hashes
  BY LtCodeAssumption

(* Transactions are blocks, with salted hashes.                             *)
LEMMA TxType == \A d \in Tx : d \in Data /\ SaltedHash[d] \in Hashes
  BY LtCodeAssumption

(* What produceCodeword returns is a block and a set of salted hashes.      *)
LEMMA CodewordType ==
  \A T \in EncodableSets : CodewordOver(T).symbol \in Data
                           /\ CodewordOver(T).members \in SUBSET Hashes
  BY TxType, XorAllType DEF EncodableSets, CodewordOver, HashesOf

(* The XOR of no block is the empty block.                                  *)
LEMMA XorAllEmpty == \A f : XorAll(f, {}) = Zero
<1> SUFFICES ASSUME NEW f, NEW b \in Bits PROVE Parity(f, {}, b) # 1
  BY DEF XorAll, Zero
<1>1. {x \in {} : b \in f[x]} = {}
  OBVIOUS
<1> QED BY <1>1, FS_EmptySet DEF Parity

(* The XOR of a single block is that block.                                 *)
LEMMA XorAllSingle ==
  ASSUME NEW f, NEW x, f[x] \in Data
  PROVE  XorAll(f, {x}) = f[x]
<1>1. ASSUME NEW b \in Bits PROVE Parity(f, {x}, b) = 1 <=> b \in f[x]
  <2> DEFINE A == {y \in {x} : b \in f[y]}
  <2>1. CASE b \in f[x]
    <3>1. A = {x}
      BY <2>1
    <3>2. Cardinality(A) = 1
      BY <3>1, FS_Singleton
    <3>3. Parity(f, {x}, b) = 1 % 2
      BY <3>2 DEF Parity
    <3> QED BY <3>3, <2>1
  <2>2. CASE b \notin f[x]
    <3>1. A = {}
      BY <2>2
    <3>2. Cardinality(A) = 0
      BY <3>1, FS_EmptySet
    <3>3. Parity(f, {x}, b) = 0 % 2
      BY <3>2 DEF Parity
    <3> QED BY <3>3, <2>2
  <2> QED BY <2>1, <2>2
<1> QED BY <1>1 DEF XorAll, Data

(* Parity of a difference.                                                  *)
LEMMA Mod2 ==
  \A m, n \in Nat : n <= m =>
    ((m - n) % 2 = 1 <=> ((m % 2 = 1 /\ n % 2 # 1) \/ (m % 2 # 1 /\ n % 2 = 1)))
  OBVIOUS

(* XORing some of the blocks a second time removes them: this is why a      *)
(* codeword is peeled with the same XOR that made it.                       *)
LEMMA XorAllPeel ==
  ASSUME NEW f, NEW S, IsFiniteSet(S), NEW K \in SUBSET S
  PROVE  XOR(XorAll(f, S), XorAll(f, K)) = XorAll(f, S \ K)
<1>1. ASSUME NEW b \in Bits
      PROVE  Parity(f, S \ K, b) = 1
               <=> \/ Parity(f, S, b) = 1 /\ Parity(f, K, b) # 1
                   \/ Parity(f, S, b) # 1 /\ Parity(f, K, b) = 1
  <2> DEFINE A == {x \in S : b \in f[x]}
             B == {x \in K : b \in f[x]}
             C == {x \in S \ K : b \in f[x]}
  <2>1. IsFiniteSet(A) /\ B \in SUBSET A
    BY FS_Subset
  <2>2. IsFiniteSet(B) /\ Cardinality(B) <= Cardinality(A)
    BY <2>1, FS_Subset
  <2>3. C = A \ B /\ A \cap B = B
    OBVIOUS
  <2>4. Cardinality(C) = Cardinality(A) - Cardinality(B)
    BY <2>1, <2>3, FS_Difference
  <2>5. Cardinality(A) \in Nat /\ Cardinality(B) \in Nat
    BY <2>1, <2>2, FS_CardinalityType
  <2> HIDE DEF A, B, C
  <2>6. Cardinality(C) % 2 = 1
          <=> \/ Cardinality(A) % 2 = 1 /\ Cardinality(B) % 2 # 1
              \/ Cardinality(A) % 2 # 1 /\ Cardinality(B) % 2 = 1
    BY <2>2, <2>4, <2>5, Mod2
  <2> QED BY <2>6 DEF Parity, A, B, C
<1> QED BY <1>1 DEF XOR, XorAll

(* The XOR over salted hashes is the XOR over the transactions they name.   *)
LEMMA XorAllRename ==
  ASSUME NEW r, NEW K \in SUBSET Tx, CollisionFree(K),
         \A t \in K : r[SaltedHash[t]] = t
  PROVE  XorAll(r, HashesOf(K)) = XorAll(Identity, K)
<1>0. IsFiniteSet(K) /\ K \subseteq Data
  BY LtCodeAssumption, FS_Subset
<1>1. ASSUME NEW b \in Bits
      PROVE  Parity(r, HashesOf(K), b) = Parity(Identity, K, b)
  <2> DEFINE A == {t \in K : b \in Identity[t]}
             B == {h \in HashesOf(K) : b \in r[h]}
             g == [t \in A |-> SaltedHash[t]]
  <2>1. A = {t \in K : b \in t}
    BY <1>0 DEF Identity
  <2>2. B = {SaltedHash[t] : t \in A}
    BY <2>1 DEF HashesOf
  <2>3. g \in Bijection(A, B)
    <3>1. g \in [A -> B]
      BY <2>2
    <3>2. \A t, u \in A : g[t] = g[u] => t = u
      BY DEF CollisionFree
    <3>3. \A h \in B : \E t \in A : g[t] = h
      BY <2>2
    <3> QED BY <3>1, <3>2, <3>3 DEF Bijection, Injection, Surjection, IsInjective
  <2>4. IsFiniteSet(A)
    BY <1>0, FS_Subset
  <2>5. ExistsBijection(A, B)
    BY <2>3 DEF ExistsBijection
  <2>6. Cardinality(A) = Cardinality(B)
    BY <2>4, <2>5, FS_Bijection
  <2> QED BY <2>6 DEF Parity
<1> QED BY <1>1 DEF XorAll

-----------------------------------------------------------------------------
(* storeNewTransaction keeps the memory bound and the types, and the only   *)
(* hash it may make known is the one it stores.                             *)
LEMMA StoreLemma ==
  ASSUME TypeOK, MemoryBounded, NEW d \in Data, Store(SaltedHash[d], d)
  PROVE  /\ MemoryBounded'
         /\ recent' \in Seq(Data)
         /\ DOMAIN received' \subseteq DOMAIN received \cup {SaltedHash[d]}
         /\ received' \in [DOMAIN received' -> Data]
<1> DEFINE h == SaltedHash[d]
           all == Append(recent, d)
           r == Learn(h, d)
<1>h. h \in Hashes
  BY HashType
<1>1. /\ all \in Seq(Data) /\ Len(all) = Len(recent) + 1
      /\ \A i \in 1..Len(recent) : all[i] = recent[i]
      /\ all[Len(recent) + 1] = d
      /\ Len(recent) \in Nat
  BY DEF TypeOK
<1>2. /\ DOMAIN r = DOMAIN received \cup {h}
      /\ \A g \in DOMAIN r : r[g] \in Data /\ r[g] = IF g = h THEN d ELSE received[g]
  BY DEF Learn, TypeOK
<1>3. \A g \in DOMAIN r : \E i \in 1..Len(all) : all[i] = r[g] /\ SaltedHash[all[i]] = g
  <2> TAKE g \in DOMAIN r
  <2>1. CASE g = h
    <3>1. Len(all) \in 1..Len(all) /\ all[Len(all)] = d
      BY <1>1
    <3> QED BY <3>1, <2>1, <1>2
  <2>2. CASE g # h
    <3>1. PICK i \in 1..Len(recent) : recent[i] = received[g] /\ SaltedHash[recent[i]] = g
      BY <2>2, <1>2 DEF MemoryBounded
    <3>2. i \in 1..Len(all) /\ all[i] = recent[i]
      BY <3>1, <1>1
    <3> QED BY <3>1, <3>2, <2>2, <1>2
  <2> QED BY <2>1, <2>2
<1>4. CASE Len(all) > Memory
  <2>1. recent' = Tail(all) /\ received' = Forget(r, Head(all))
    BY <1>4 DEF Store
  <2>2. Len(recent) = Memory
    BY <1>4, <1>1, MemoryAssumption DEF MemoryBounded
  <2>3. /\ recent' \in Seq(Data) /\ Len(recent') = Memory
        /\ \A i \in 1..Len(recent') : recent'[i] = all[i + 1]
        /\ Head(all) = all[1]
    <3>1. all # <<>>
      BY <1>1
    <3>2. /\ Tail(all) \in Seq(Data) /\ Len(Tail(all)) = Len(all) - 1
          /\ \A i \in 1..Len(Tail(all)) : Tail(all)[i] = all[i + 1]
          /\ Head(all) = all[1]
      BY <3>1, <1>1, HeadTailProperties
    <3> QED BY <3>2, <2>1, <2>2, <1>1, MemoryAssumption
  <2>4. /\ DOMAIN received' = {k \in DOMAIN r : ~(k = SaltedHash[Head(all)] /\ r[k] = Head(all))}
        /\ \A g \in DOMAIN received' : received'[g] = r[g]
        /\ received' = [g \in DOMAIN received' |-> r[g]]
    BY <2>1 DEF Forget
  <2>5. ASSUME NEW g \in DOMAIN received'
        PROVE \E i \in 1..Len(recent') : recent'[i] = received'[g] /\ SaltedHash[recent'[i]] = g
    <3>1. PICK i \in 1..Len(all) : all[i] = r[g] /\ SaltedHash[all[i]] = g
      BY <2>4, <1>3
    <3>2. i # 1
      BY <3>1, <2>4, <2>3
    <3>3. i - 1 \in 1..Len(recent') /\ recent'[i - 1] = all[i]
      BY <3>1, <3>2, <2>2, <2>3, <1>1
    <3> QED BY <3>1, <3>3, <2>4
  <2>6. MemoryBounded'
    BY <2>3, <2>5, MemoryAssumption DEF MemoryBounded
  <2> QED BY <2>6, <2>3, <2>4, <1>2
<1>5. CASE ~(Len(all) > Memory)
  <2>1. recent' = all /\ received' = r
    BY <1>5 DEF Store
  <2>2. Len(all) <= Memory
    BY <1>5, <1>1, MemoryAssumption
  <2>3. MemoryBounded'
    BY <2>1, <2>2, <1>3 DEF MemoryBounded
  <2>4. r = [g \in DOMAIN r |-> r[g]]
    BY DEF Learn
  <2> QED BY <2>1, <2>3, <2>4, <1>1, <1>2
<1> QED BY <1>4, <1>5

-----------------------------------------------------------------------------
(* markDecoded removes the stub of h from every codeword that contains it,  *)
(* keeps both directions of the links in step, and queues exactly the       *)
(* codewords that became decodable.  The pair (done, rest) is the codeword  *)
(* that is being decoded and the rest of the work list.                     *)
LEMMA PeelLemma ==
  ASSUME TypeOK, Linked, StubsNeeded, QueuedWhenDecodable,
         NEW h \in Hashes, NEW d \in Data, Peel(h, d), UNCHANGED allocated,
         NEW done \in SUBSET queue, decoded' = decoded \cup done,
         queue' = (queue \ done) \cup Released(h),
         \A c \in done : members[c] \ {h} = {}
  PROVE  /\ pending' = pending \ {h}
         /\ pending' \in SUBSET Hashes
         /\ blocking' \in [Hashes -> SUBSET Cw]
         /\ symbol' \in [Cw -> Data]
         /\ members' \in [Cw -> SUBSET Hashes]
         /\ queued' \in SUBSET Cw /\ decoded' \in SUBSET Cw /\ queue' \in SUBSET Cw
         /\ Linked' /\ StubsNeeded' /\ QueuedWhenDecodable'
<1>1. members' \in [Cw -> SUBSET Hashes] /\ \A c \in Cw : members'[c] = members[c] \ {h}
  BY DEF TypeOK, Linked, Peel
<1>2. /\ blocking' \in [Hashes -> SUBSET Cw]
      /\ \A g \in Hashes : blocking'[g] = IF g = h THEN {} ELSE blocking[g]
  BY DEF TypeOK, Peel
<1>3. pending' = pending \ {h} /\ pending' \in SUBSET Hashes
  BY DEF TypeOK, Peel
<1>4. symbol' \in [Cw -> Data]
  BY XORType DEF TypeOK, Peel
<1>5. queued' = queued \cup Released(h) /\ Released(h) \in SUBSET Cw
  BY DEF Peel, Released, TypeOK
<1>6. Linked'
  BY <1>1, <1>2 DEF Linked
<1>7. StubsNeeded'
  BY <1>2, <1>3 DEF StubsNeeded
<1>8. \A c \in Cw : c \in queued' <=> c \in allocated /\ AtMostOne(members'[c])
  <2> TAKE c \in Cw
  <2>1. CASE c \in queued
    BY <2>1, <1>1, <1>5 DEF QueuedWhenDecodable, AtMostOne
  <2>2. CASE c \notin queued /\ c \in blocking[h]
    <3>1. members[c] # {}
      BY <2>2 DEF Linked
    <3>2. c \in allocated
      BY <3>1 DEF QueuedWhenDecodable
    <3> QED BY <2>2, <3>2, <1>1, <1>5 DEF Released
  <2>3. CASE c \notin queued /\ c \notin blocking[h]
    <3>1. h \notin members[c]
      BY <2>3 DEF Linked
    <3>2. members[c] \ {h} = members[c]
      BY <3>1
    <3>3. members'[c] = members[c]
      BY <3>2, <1>1
    <3> QED BY <3>3, <2>3, <1>5 DEF Released, QueuedWhenDecodable
  <2> QED BY <2>1, <2>2, <2>3
<1>9. queue' = queued' \ decoded' /\ decoded' \subseteq queued'
  BY <1>5 DEF QueuedWhenDecodable, Released
<1>10. \A c \in Cw : c \in decoded' \/ c \notin allocated => members'[c] = {}
  BY <1>1 DEF QueuedWhenDecodable
<1>11. QueuedWhenDecodable'
  BY <1>8, <1>9, <1>10 DEF QueuedWhenDecodable
<1>12. queued' \in SUBSET Cw /\ decoded' \in SUBSET Cw /\ queue' \in SUBSET Cw
  BY <1>5 DEF TypeOK
<1> QED BY <1>1, <1>2, <1>3, <1>4, <1>6, <1>7, <1>11, <1>12
-----------------------------------------------------------------------------
(* The invariant holds initially and is kept by every call and by every     *)
(* iteration of the loop of decodeCodewords.                                *)
LEMMA InitInv == Init => IInv
<1> SUFFICES ASSUME Init PROVE IInv
  OBVIOUS
<1>1. TypeOK
  BY ZeroType DEF Init, TypeOK
<1>2. Linked /\ StubsNeeded /\ PendingUnknown /\ QueuedWhenDecodable
  BY DEF Init, Linked, StubsNeeded, PendingUnknown, QueuedWhenDecodable
<1>3. MemoryBounded
  BY MemoryAssumption DEF Init, MemoryBounded
<1> QED BY <1>1, <1>2, <1>3 DEF IInv

(* AddCodeword keeps it.                                                    *)
LEMMA AddCodewordInv ==
  ASSUME IInv, NEW c \in Cw, NEW T \in EncodableSets, AddCodeword(c, CodewordOver(T))
  PROVE  IInv'
<1> DEFINE raw == CodewordOver(T)
           learnt == raw.members \cap DOMAIN received
           unknown == raw.members \ DOMAIN received
<1>1. raw.symbol \in Data /\ raw.members \in SUBSET Hashes /\ unknown \in SUBSET Hashes
  BY CodewordType
<1> HIDE DEF raw
<1>2. /\ Idle /\ c \notin allocated /\ allocated' = allocated \cup {c}
      /\ symbol' = [symbol EXCEPT ![c] = XOR(raw.symbol, XorAll(received, learnt))]
      /\ members' = [members EXCEPT ![c] = unknown]
      /\ blocking' = [h \in Hashes |-> IF h \in unknown THEN blocking[h] \cup {c} ELSE blocking[h]]
      /\ pending' = pending \cup unknown
      /\ queued' = IF AtMostOne(unknown) THEN queued \cup {c} ELSE queued
      /\ queue' = IF AtMostOne(unknown) THEN {c} ELSE {}
      /\ newTx' = {}
      /\ UNCHANGED <<received, recent, decoded>>
  BY DEF AddCodeword, raw
<1> HIDE DEF unknown, learnt
<1>3. TypeOK'
  <2>1. XOR(raw.symbol, XorAll(received, learnt)) \in Data
    BY <1>1, XORType, XorAllType
  <2> QED BY <2>1, <1>1, <1>2 DEF TypeOK, IInv
<1>4. members[c] = {} /\ c \notin queued /\ c \notin decoded /\ \A h \in Hashes : c \notin blocking[h]
  BY <1>2 DEF IInv, QueuedWhenDecodable, Linked
<1>5. Linked'
  BY <1>1, <1>2, <1>4 DEF IInv, Linked, TypeOK
<1>6. StubsNeeded'
  BY <1>1, <1>2 DEF IInv, StubsNeeded, TypeOK
<1>7. PendingUnknown'
  BY <1>2 DEF IInv, PendingUnknown, unknown
<1>8. QueuedWhenDecodable'
  <2>1. \A e \in Cw : e \in queued' <=> e \in allocated' /\ AtMostOne(members'[e])
    BY <1>2, <1>4 DEF IInv, QueuedWhenDecodable, TypeOK
  <2>2. queue' = queued' \ decoded' /\ decoded' \subseteq queued'
    BY <1>2, <1>4 DEF IInv, QueuedWhenDecodable, Idle
  <2>3. \A e \in Cw : e \in decoded' \/ e \notin allocated' => members'[e] = {}
    BY <1>2, <1>4 DEF IInv, QueuedWhenDecodable, TypeOK
  <2> QED BY <2>1, <2>2, <2>3 DEF QueuedWhenDecodable
<1>9. MemoryBounded'
  BY <1>2 DEF IInv, MemoryBounded
<1> QED BY <1>3, <1>5, <1>6, <1>7, <1>8, <1>9 DEF IInv

(* AddTransaction keeps it, whether the transaction is new, known or in     *)
(* conflict with a known one.                                               *)
LEMMA AddTransactionInv ==
  ASSUME IInv, NEW d \in Tx, AddTransaction(d)
  PROVE  IInv'
<1> DEFINE h == SaltedHash[d]
<1>1. d \in Data /\ h \in Hashes
  BY TxType
<1>2. ASSUME AddNewTransaction(d) PROVE IInv'
  <2>1. Idle /\ ~Known(h) /\ Store(h, d) /\ newTx' = {} /\ UNCHANGED <<allocated, decoded>>
    BY <1>2 DEF AddNewTransaction
  <2>2. /\ MemoryBounded' /\ recent' \in Seq(Data)
        /\ DOMAIN received' \subseteq DOMAIN received \cup {h}
        /\ received' \in [DOMAIN received' -> Data]
    BY <2>1, <1>1, StoreLemma DEF IInv
  <2>3. CASE h \in pending
    <3>1. Peel(h, d) /\ queue' = Released(h)
      BY <2>3, <1>2 DEF AddNewTransaction
    <3>2. {} \in SUBSET queue /\ decoded' = decoded \cup {} /\ queue' = (queue \ {}) \cup Released(h)
      BY <3>1, <2>1 DEF Idle
    <3>3. /\ pending' = pending \ {h}
          /\ pending' \in SUBSET Hashes
          /\ blocking' \in [Hashes -> SUBSET Cw]
          /\ symbol' \in [Cw -> Data]
          /\ members' \in [Cw -> SUBSET Hashes]
          /\ queued' \in SUBSET Cw /\ decoded' \in SUBSET Cw /\ queue' \in SUBSET Cw
          /\ Linked' /\ StubsNeeded' /\ QueuedWhenDecodable'
      <4>1. /\ TypeOK /\ Linked /\ StubsNeeded /\ QueuedWhenDecodable
            /\ UNCHANGED allocated
            /\ \A c \in {} : members[c] \ {h} = {}
        BY <2>1 DEF IInv
      <4> QED BY <4>1, <3>1, <3>2, <1>1, PeelLemma
    <3>4. TypeOK'
      BY <3>3, <2>1, <2>2, <1>1 DEF TypeOK, IInv
    <3>5. PendingUnknown'
      BY <3>3, <2>2 DEF PendingUnknown, IInv
    <3> QED BY <3>3, <3>4, <3>5, <2>2 DEF IInv
  <2>4. CASE h \notin pending
    <3>1. UNCHANGED <<linkVars, queued, queue, allocated, decoded>>
      BY <2>1, <2>4, <1>2 DEF AddNewTransaction
    <3>2. TypeOK'
      BY <3>1, <2>1, <2>2, <1>1 DEF TypeOK, IInv, linkVars
    <3>3. PendingUnknown'
      BY <3>1, <2>2, <2>4 DEF PendingUnknown, IInv, linkVars
    <3>4. Linked' /\ StubsNeeded' /\ QueuedWhenDecodable'
      BY <3>1 DEF IInv, Linked, StubsNeeded, QueuedWhenDecodable, linkVars
    <3> QED BY <3>2, <3>3, <3>4, <2>2 DEF IInv
  <2> QED BY <2>3, <2>4
<1>3. ASSUME AddKnownTransaction(d) PROVE IInv'
  BY <1>3 DEF AddKnownTransaction, IInv, TypeOK, Linked, StubsNeeded, PendingUnknown,
              QueuedWhenDecodable, MemoryBounded, storeVars, linkVars
<1>4. ASSUME AddConflictingTransaction(d) PROVE IInv'
  <2>1. /\ Known(h) /\ Store(h, d) /\ newTx' = {}
        /\ UNCHANGED <<linkVars, allocated, queued, decoded, queue>>
    BY <1>4 DEF AddConflictingTransaction
  <2>2. /\ MemoryBounded' /\ recent' \in Seq(Data)
        /\ DOMAIN received' \subseteq DOMAIN received
        /\ received' \in [DOMAIN received' -> Data]
    BY <2>1, <1>1, StoreLemma DEF IInv, Known
  <2>3. TypeOK'
    BY <2>1, <2>2 DEF TypeOK, IInv, linkVars
  <2>4. Linked' /\ StubsNeeded' /\ QueuedWhenDecodable' /\ PendingUnknown'
    BY <2>1, <2>2 DEF IInv, Linked, StubsNeeded, QueuedWhenDecodable, PendingUnknown, linkVars
  <2> QED BY <2>2, <2>3, <2>4 DEF IInv
<1> QED BY <1>2, <1>3, <1>4 DEF AddTransaction

(* An iteration of decodeCodewords keeps it, whether the codeword is empty, *)
(* decodes or fails to decode.                                              *)
LEMMA DecodeStepInv == IInv /\ DecodeStep => IInv'
<1> SUFFICES ASSUME IInv, NEW c \in queue,
                    DecodeEmpty(c) \/ DecodeMismatch(c) \/ DecodeTransaction(c),
                    decoded' = decoded \cup {c}, UNCHANGED allocated
             PROVE  IInv'
  BY DEF DecodeStep
<1>0. c \in Cw /\ c \in queued /\ c \notin decoded /\ queue \subseteq Cw
  BY DEF IInv, QueuedWhenDecodable, TypeOK
<1>1. ASSUME DecodeEmpty(c) PROVE IInv'
  <2>1. members[c] = {} /\ queue' = queue \ {c} /\ UNCHANGED <<storeVars, linkVars, queued, newTx>>
    BY <1>1 DEF DecodeEmpty
  <2>2. TypeOK'
    BY <2>1, <1>0 DEF IInv, TypeOK, storeVars, linkVars
  <2>3. QueuedWhenDecodable'
    BY <2>1, <1>0 DEF IInv, QueuedWhenDecodable, linkVars
  <2>4. Linked' /\ StubsNeeded' /\ PendingUnknown' /\ MemoryBounded'
    BY <2>1 DEF IInv, Linked, StubsNeeded, PendingUnknown, MemoryBounded, storeVars, linkVars
  <2> QED BY <2>2, <2>3, <2>4 DEF IInv
<1>2. ASSUME DecodeMismatch(c) PROVE IInv'
  <2>1. PICK h \in Hashes :
          /\ members[c] = {h}
          /\ FailToDecode(c, h)
          /\ queue' = queue \ {c}
          /\ UNCHANGED <<storeVars, newTx>>
    BY <1>2 DEF DecodeMismatch
  <2>2. /\ members' = [members EXCEPT ![c] = {}]
        /\ blocking' = [blocking EXCEPT ![h] = @ \ {c}]
        /\ pending' = IF blocking[h] = {c} THEN pending \ {h} ELSE pending
        /\ UNCHANGED <<symbol, queued>>
    BY <2>1 DEF FailToDecode
  <2>3. TypeOK'
    BY <2>1, <2>2, <1>0 DEF IInv, TypeOK, storeVars
  <2>4. Linked'
    BY <2>1, <2>2, <1>0 DEF IInv, Linked, TypeOK
  <2>5. StubsNeeded'
    <3>1. c \in blocking[h]
      BY <2>1, <1>0 DEF IInv, Linked
    <3> QED BY <3>1, <2>1, <2>2 DEF IInv, StubsNeeded, TypeOK
  <2>6. PendingUnknown' /\ MemoryBounded'
    BY <2>1, <2>2 DEF IInv, PendingUnknown, MemoryBounded, storeVars
  <2>7. QueuedWhenDecodable'
    <3>1. \A e \in Cw : e \in queued' <=> e \in allocated' /\ AtMostOne(members'[e])
      BY <2>2, <1>0 DEF IInv, QueuedWhenDecodable, TypeOK, AtMostOne
    <3>2. queue' = queued' \ decoded' /\ decoded' \subseteq queued'
      BY <2>1, <2>2, <1>0 DEF IInv, QueuedWhenDecodable
    <3>3. \A e \in Cw : e \in decoded' \/ e \notin allocated' => members'[e] = {}
      BY <2>2, <1>0 DEF IInv, QueuedWhenDecodable, TypeOK
    <3> QED BY <3>1, <3>2, <3>3 DEF QueuedWhenDecodable
  <2> QED BY <2>3, <2>4, <2>5, <2>6, <2>7 DEF IInv
<1>3. ASSUME DecodeTransaction(c) PROVE IInv'
  <2>1. PICK h \in Hashes :
          /\ members[c] = {h} /\ SaltedHash[symbol[c]] = h
          /\ newTx' = newTx \cup {symbol[c]}
          /\ Store(h, symbol[c]) /\ Peel(h, symbol[c])
          /\ queue' = (queue \ {c}) \cup Released(h)
    BY <1>3 DEF DecodeTransaction
  <2>2. symbol[c] \in Data
    BY <1>0 DEF IInv, TypeOK
  <2>3. /\ MemoryBounded' /\ recent' \in Seq(Data)
        /\ DOMAIN received' \subseteq DOMAIN received \cup {h}
        /\ received' \in [DOMAIN received' -> Data]
    BY <2>1, <2>2, StoreLemma DEF IInv
  <2>4. {c} \in SUBSET queue /\ \A e \in {c} : members[e] \ {h} = {}
    BY <2>1
  <2>5. /\ pending' = pending \ {h}
        /\ pending' \in SUBSET Hashes
        /\ blocking' \in [Hashes -> SUBSET Cw]
        /\ symbol' \in [Cw -> Data]
        /\ members' \in [Cw -> SUBSET Hashes]
        /\ queued' \in SUBSET Cw /\ decoded' \in SUBSET Cw /\ queue' \in SUBSET Cw
        /\ Linked' /\ StubsNeeded' /\ QueuedWhenDecodable'
    <3>1. /\ TypeOK /\ Linked /\ StubsNeeded /\ QueuedWhenDecodable
          /\ UNCHANGED allocated /\ decoded' = decoded \cup {c}
      BY DEF IInv
    <3> DEFINE d == symbol[c]
               done == {c}
    <3>2. /\ d \in Data /\ Peel(h, d) /\ done \in SUBSET queue
          /\ decoded' = decoded \cup done
          /\ queue' = (queue \ done) \cup Released(h)
          /\ \A e \in done : members[e] \ {h} = {}
      BY <3>1, <2>1, <2>2, <2>4
    <3> HIDE DEF d, done
    <3> QED BY <3>1, <3>2, PeelLemma
  <2>6. TypeOK'
    BY <2>1, <2>2, <2>3, <2>5 DEF TypeOK, IInv
  <2>7. PendingUnknown'
    BY <2>3, <2>5 DEF PendingUnknown, IInv
  <2> QED BY <2>3, <2>5, <2>6, <2>7 DEF IInv
<1> QED BY <1>1, <1>2, <1>3

(* So does a stuttering step.                                               *)
LEMMA StutterInv == IInv /\ UNCHANGED vars => IInv'
  BY DEF vars, IInv, TypeOK, Linked, StubsNeeded, PendingUnknown, QueuedWhenDecodable, MemoryBounded

(* Hence every step does.                                                   *)
LEMMA NextInv == IInv /\ [Next]_vars => IInv'
  BY AddCodewordInv, AddTransactionInv, DecodeStepInv, StutterInv DEF Next

(* The inductive invariant of the decoder.                                  *)
THEOREM InductiveInvariant == Spec => []IInv
  BY InitInv, NextInv, PTL DEF Spec
-----------------------------------------------------------------------------
(* What follows from it.                                                    *)
LEMMA InvNoPanic == IInv => NoPanic
  BY DEF IInv, TypeOK, Linked, StubsNeeded, PendingUnknown, QueuedWhenDecodable, NoPanic, Known

(* When the work list is empty, the queue flags leave nothing decodable.    *)
LEMMA InvComplete == IInv => PeelingComplete
<1> SUFFICES ASSUME IInv, Idle, NEW c \in allocated \ decoded
             PROVE  ~AtMostOne(members[c]) /\ members[c] \cap DOMAIN received = {}
  BY DEF PeelingComplete
<1>1. c \in Cw /\ members[c] \in SUBSET Hashes
  BY DEF IInv, TypeOK
<1>2. c \notin queued
  BY DEF IInv, QueuedWhenDecodable, Idle
<1>3. ~AtMostOne(members[c])
  BY <1>1, <1>2 DEF IInv, QueuedWhenDecodable
<1>4. \A h \in members[c] : h \in pending
  BY <1>1 DEF IInv, Linked, StubsNeeded
<1> QED BY <1>3, <1>4 DEF IInv, PendingUnknown

(* No panic of lt/decoder.go can be reached.                                *)
THEOREM NeverPanics == Spec => []NoPanic
  BY InductiveInvariant, InvNoPanic, PTL

(* When a call returns, every codeword that is not decoded waits for at     *)
(* least two transactions that the decoder does not know.                   *)
THEOREM PeelsToTheEnd == Spec => []PeelingComplete
  BY InductiveInvariant, InvComplete, PTL

(* The decoder remembers at most Memory transactions and forgets every one  *)
(* it holds in time.                                                        *)
THEOREM MemoryIsBounded == Spec => []MemoryBounded
  BY InductiveInvariant, PTL DEF IInv

(* Stubs exist exactly as long as they block a codeword.                    *)
THEOREM StubsAreFreed == Spec => []StubsNeeded
  BY InductiveInvariant, PTL DEF IInv

(* One step of the decoder reports at most what it then remembers.          *)
LEMMA NextReportsNews ==
  IInv /\ [Next]_vars =>
    \A d \in newTx' \ newTx :
      /\ ~HasDecoded(d)
      /\ recent' # <<>> => recent'[Len(recent')] = d
<1> SUFFICES ASSUME IInv, [Next]_vars, NEW d \in newTx' \ newTx
             PROVE  ~HasDecoded(d) /\ (recent' # <<>> => recent'[Len(recent')] = d)
  OBVIOUS
<1>1. DecodeStep
  <2>1. CASE \E c \in Cw, T \in EncodableSets : AddCodeword(c, CodewordOver(T))
    BY <2>1 DEF AddCodeword
  <2>2. CASE \E t \in Tx : AddTransaction(t)
    BY <2>2 DEF AddTransaction, AddNewTransaction, AddKnownTransaction, AddConflictingTransaction
  <2> QED BY <2>1, <2>2 DEF Next, vars
<1>2. PICK c \in queue : DecodeEmpty(c) \/ DecodeMismatch(c) \/ DecodeTransaction(c)
  BY <1>1 DEF DecodeStep
<1>3. DecodeTransaction(c)
  BY <1>2 DEF DecodeEmpty, DecodeMismatch
<1>4. PICK h \in Hashes : members[c] = {h} /\ SaltedHash[symbol[c]] = h
                          /\ newTx' = newTx \cup {symbol[c]} /\ Store(h, symbol[c])
  BY <1>3 DEF DecodeTransaction
<1>5. d = symbol[c]
  BY <1>4
<1>6. c \in Cw /\ d \in Data /\ recent \in Seq(Data)
  BY <1>5 DEF IInv, TypeOK
<1>7. ~HasDecoded(d)
  BY <1>4, <1>5, <1>6 DEF IInv, Linked, StubsNeeded, PendingUnknown, HasDecoded, Known
<1>8. ASSUME recent' # <<>> PROVE recent'[Len(recent')] = d
  <2> DEFINE all == Append(recent, d)
  <2>1. all \in Seq(Data) /\ Len(all) = Len(recent) + 1 /\ all[Len(all)] = d /\ Len(recent) \in Nat
    BY <1>6
  <2>2. recent' = all \/ recent' = Tail(all)
    BY <1>4, <1>5 DEF Store
  <2>3. CASE recent' = Tail(all)
    <3>1. Len(Tail(all)) = Len(all) - 1 /\ \A i \in 1..Len(all) - 1 : Tail(all)[i] = all[i + 1]
      BY <2>1
    <3>2. Len(all) # 1
      BY <2>1, <2>3, <1>8, <3>1
    <3> HIDE DEF all
    <3> QED BY <2>1, <2>3, <3>1, <3>2
  <2> QED BY <2>1, <2>2, <2>3
<1> QED BY <1>7, <1>8

(* What a call of the decoder reports as decoded it did not know before,    *)
(* and it is then the latest transaction that the decoder remembers.        *)
THEOREM ReportsOnlyNews == Spec => ReportsNews
<1>1. Spec => [][IInv /\ [Next]_vars]_vars
  BY InductiveInvariant, PTL DEF Spec
<1>2. IInv /\ [Next]_vars => [\A d \in newTx' \ newTx :
         /\ ~HasDecoded(d)
         /\ recent' # <<>> => recent'[Len(recent')] = d]_vars
  BY NextReportsNews
<1> QED BY <1>1, <1>2, PTL DEF ReportsNews

-----------------------------------------------------------------------------
(* Soundness, when no two transactions of the system share a salted hash.   *)

(* A hash in a codeword's header names one transaction.                     *)
LEMMA HashInHeader ==
  ASSUME CollisionFree(Tx), NEW T \in SUBSET Tx, NEW t \in Tx
  PROVE  SaltedHash[t] \in HashesOf(T) <=> t \in T
  BY DEF CollisionFree, HashesOf

(* Removing a hash from a header removes the transaction it names.          *)
LEMMA HeaderMinus ==
  ASSUME CollisionFree(Tx), NEW T \in SUBSET Tx, NEW K \in SUBSET T
  PROVE  HashesOf(T) \ HashesOf(K) = HashesOf(T \ K)
  BY DEF CollisionFree, HashesOf

(* Peeling t from the XOR of T leaves the XOR of the others.                *)
LEMMA PeelOne ==
  ASSUME NEW T \in SUBSET Tx, NEW t \in T
  PROVE  XOR(XorAll(Identity, T), t) = XorAll(Identity, T \ {t})
<1>1. IsFiniteSet(T) /\ {t} \in SUBSET T
  BY LtCodeAssumption, FS_Subset
<1>2. Identity[t] = t /\ t \in Data
  BY TxType DEF Identity
<1>3. XorAll(Identity, {t}) = t
  BY <1>2, XorAllSingle
<1>4. XOR(XorAll(Identity, T), XorAll(Identity, {t})) = XorAll(Identity, T \ {t})
  BY <1>1, XorAllPeel
<1> QED BY <1>3, <1>4

(* storeNewTransaction files d, keeps what it holds, or drops it.           *)
LEMMA StoreValues ==
  ASSUME NEW h, NEW d, Store(h, d)
  PROVE  \A g \in DOMAIN received' :
           /\ g \in DOMAIN received \cup {h}
           /\ received'[g] = IF g = h THEN d ELSE received[g]
  BY DEF Store, Forget, Learn

(* The names of what Sound asks of a codeword and of the store.             *)
HeldSums(c) == \E T \in SUBSET Tx : members[c] = HashesOf(T) /\ symbol[c] = XorAll(Identity, T)
StoreSound == \A h \in DOMAIN received : received[h] \in Tx /\ SaltedHash[received[h]] = h

(* So what it holds stays sound.                                            *)
LEMMA StoreKeepsSound ==
  ASSUME StoreSound, NEW t \in Tx, Store(SaltedHash[t], t)
  PROVE  StoreSound'
  BY StoreValues DEF StoreSound

(* Peeling t from every codeword that waits for it.                         *)
LEMMA PeelHeader ==
  ASSUME TypeOK, Linked, CollisionFree(Tx), NEW t \in Tx, Peel(SaltedHash[t], t),
         NEW c \in Cw, NEW T \in SUBSET Tx,
         members[c] = HashesOf(T), symbol[c] = XorAll(Identity, T)
  PROVE  members'[c] = HashesOf(T \ {t}) /\ symbol'[c] = XorAll(Identity, T \ {t})
<1> DEFINE h == SaltedHash[t]
<1>1. h \in Hashes /\ (c \in blocking[h] <=> t \in T)
  BY TxType, HashInHeader DEF Linked
<1>2. CASE c \in blocking[h]
  <2>1. symbol'[c] = XOR(symbol[c], t) /\ members'[c] = members[c] \ {h}
    BY <1>2 DEF Peel
  <2>2. {t} \in SUBSET T /\ HashesOf({t}) = {h}
    BY <1>1, <1>2 DEF HashesOf
  <2>3. members'[c] = HashesOf(T \ {t})
    BY <2>1, <2>2, HeaderMinus
  <2>4. symbol'[c] = XorAll(Identity, T \ {t})
    BY <2>1, <1>1, <1>2, PeelOne
  <2> QED BY <2>3, <2>4
<1>3. CASE c \notin blocking[h]
  <2>1. symbol'[c] = symbol[c] /\ members'[c] = members[c]
    BY <1>3 DEF Peel
  <2>2. T \ {t} = T
    BY <1>1, <1>3
  <2> QED BY <2>1, <2>2
<1> QED BY <1>2, <1>3

(* markDecoded keeps every codeword the XOR of what it waits for.           *)
LEMMA PeelKeepsSums ==
  ASSUME TypeOK, Linked, CollisionFree(Tx), NEW t \in Tx, Peel(SaltedHash[t], t),
         NEW c \in Cw, HeldSums(c)
  PROVE  HeldSums(c)'
<1>1. PICK T \in SUBSET Tx : members[c] = HashesOf(T) /\ symbol[c] = XorAll(Identity, T)
  BY DEF HeldSums
<1>2. members'[c] = HashesOf(T \ {t}) /\ symbol'[c] = XorAll(Identity, T \ {t})
  BY <1>1, PeelHeader
<1>3. T \ {t} \in SUBSET Tx
  OBVIOUS
<1> QED BY <1>2, <1>3 DEF HeldSums

(* AddCodeword peels the transactions that are known.                       *)
LEMMA AddCodewordHeader ==
  ASSUME IInv, CollisionFree(Tx), StoreSound, NEW c \in Cw, NEW T \in EncodableSets,
         AddCodeword(c, CodewordOver(T)),
         NEW K, K = {t \in T : Known(SaltedHash[t])}
  PROVE  members'[c] = HashesOf(T \ K) /\ symbol'[c] = XorAll(Identity, T \ K)
<1>1. T \in SUBSET Tx /\ K \in SUBSET T /\ K \in SUBSET Tx /\ IsFiniteSet(T)
  BY LtCodeAssumption, FS_Subset DEF EncodableSets
<1>2. CollisionFree(K) /\ \A t \in K : received[SaltedHash[t]] = t
  BY <1>1 DEF StoreSound, CollisionFree, Known
<1>3. HashesOf(T) \cap DOMAIN received = HashesOf(K)
  BY DEF HashesOf, Known
<1>4. HashesOf(T) \ DOMAIN received = HashesOf(T \ K)
  <2>1. HashesOf(T) \ DOMAIN received = HashesOf(T) \ (HashesOf(T) \cap DOMAIN received)
    OBVIOUS
  <2> QED BY <2>1, <1>1, <1>3, HeaderMinus
<1>5. /\ symbol' = [symbol EXCEPT ![c] =
                     XOR(XorAll(Identity, T), XorAll(received, HashesOf(T) \cap DOMAIN received))]
      /\ members' = [members EXCEPT ![c] = HashesOf(T) \ DOMAIN received]
  BY DEF AddCodeword, CodewordOver
<1>6. XorAll(received, HashesOf(K)) = XorAll(Identity, K)
  BY <1>1, <1>2, XorAllRename
<1>7. XOR(XorAll(Identity, T), XorAll(Identity, K)) = XorAll(Identity, T \ K)
  BY <1>1, XorAllPeel
<1>8. symbol'[c] = XorAll(Identity, T \ K) /\ members'[c] = HashesOf(T \ K)
  BY <1>3, <1>4, <1>5, <1>6, <1>7 DEF IInv, TypeOK
<1> QED BY <1>8

(* AddCodeword makes the new codeword one, too.                             *)
LEMMA AddCodewordSound ==
  ASSUME IInv, CollisionFree(Tx), StoreSound, NEW c \in Cw, NEW T \in EncodableSets,
         AddCodeword(c, CodewordOver(T))
  PROVE  HeldSums(c)'
<1> DEFINE K == {t \in T : Known(SaltedHash[t])}
<1>1. members'[c] = HashesOf(T \ K) /\ symbol'[c] = XorAll(Identity, T \ K)
  BY AddCodewordHeader
<1>2. T \ K \in SUBSET Tx
  BY DEF EncodableSets
<1> QED BY <1>1, <1>2 DEF HeldSums

(* A codeword with one stub left holds the transaction the stub stands for. *)
LEMMA LastOneIsReal ==
  ASSUME IInv, CollisionFree(Tx), NEW c \in Cw, HeldSums(c), NEW h \in Hashes, members[c] = {h}
  PROVE  symbol[c] \in Tx /\ SaltedHash[symbol[c]] = h
<1>1. PICK T \in SUBSET Tx : members[c] = HashesOf(T) /\ symbol[c] = XorAll(Identity, T)
  BY DEF HeldSums
<1>2. PICK t \in T : SaltedHash[t] = h
  BY <1>1 DEF HashesOf
<1>3. T = {t}
  BY <1>1, <1>2 DEF HashesOf, CollisionFree
<1>4. Identity[t] = t /\ t \in Data
  BY <1>2, TxType DEF Identity
<1>5. symbol[c] = t
  BY <1>1, <1>3, <1>4, XorAllSingle
<1> QED BY <1>5, <1>2

SoundInv == newTx \subseteq Tx /\ StoreSound /\ \A c \in Cw : HeldSums(c)

(* A new decoder is sound.                                                  *)
LEMMA InitSound == Init => SoundInv
<1> SUFFICES ASSUME Init PROVE SoundInv
  OBVIOUS
<1>1. HashesOf({}) = {} /\ XorAll(Identity, {}) = Zero
  BY XorAllEmpty DEF HashesOf
<1> QED BY <1>1 DEF Init, SoundInv, StoreSound, HeldSums

(* Every step keeps it sound.                                               *)
LEMMA NextSound == IInv /\ CollisionFree(Tx) /\ SoundInv /\ [Next]_vars => SoundInv'
<1> SUFFICES ASSUME IInv, CollisionFree(Tx), SoundInv, [Next]_vars
             PROVE  SoundInv'
  OBVIOUS
<1>1. ASSUME NEW c \in Cw, NEW T \in EncodableSets, AddCodeword(c, CodewordOver(T))
      PROVE  SoundInv'
  <2>1. newTx' = {} /\ UNCHANGED received
    BY <1>1 DEF AddCodeword
  <2>2. HeldSums(c)'
    BY <1>1, AddCodewordSound DEF SoundInv
  <2>3. ASSUME NEW e \in Cw, e # c PROVE HeldSums(e)'
    <3>1. symbol'[e] = symbol[e] /\ members'[e] = members[e]
      BY <1>1, <2>3 DEF AddCodeword, IInv, TypeOK
    <3> QED BY <3>1 DEF SoundInv, HeldSums
  <2> QED BY <2>1, <2>2, <2>3 DEF SoundInv, StoreSound
<1>2. ASSUME NEW d \in Tx, AddTransaction(d) PROVE SoundInv'
  <2>1. newTx' = {}
    BY <1>2 DEF AddTransaction, AddNewTransaction, AddKnownTransaction, AddConflictingTransaction
  <2>2. StoreSound'
    <3>1. CASE Store(SaltedHash[d], d)
      BY <3>1, StoreKeepsSound DEF SoundInv
    <3>2. CASE UNCHANGED storeVars
      BY <3>2 DEF SoundInv, StoreSound, storeVars
    <3> QED BY <1>2, <3>1, <3>2 DEF AddTransaction, AddNewTransaction, AddKnownTransaction,
                                   AddConflictingTransaction
  <2>3. ASSUME NEW c \in Cw PROVE HeldSums(c)'
    <3>1. CASE Peel(SaltedHash[d], d)
      BY <3>1, PeelKeepsSums DEF SoundInv, IInv
    <3>2. CASE UNCHANGED linkVars
      BY <3>2 DEF SoundInv, HeldSums, linkVars
    <3> QED BY <1>2, <3>1, <3>2 DEF AddTransaction, AddNewTransaction, AddKnownTransaction,
                                   AddConflictingTransaction
  <2> QED BY <2>1, <2>2, <2>3 DEF SoundInv
<1>3. ASSUME NEW c \in queue,
             DecodeEmpty(c) \/ DecodeMismatch(c) \/ DecodeTransaction(c)
      PROVE  SoundInv'
  <2>0. c \in Cw
    BY DEF IInv, TypeOK
  <2>1. CASE DecodeEmpty(c)
    BY <2>1 DEF DecodeEmpty, SoundInv, StoreSound, HeldSums, storeVars, linkVars
  <2>2. CASE DecodeMismatch(c)
    BY <2>0, <2>2, LastOneIsReal DEF DecodeMismatch, SoundInv
  <2>3. CASE DecodeTransaction(c)
    <3>1. PICK h \in Hashes :
            /\ members[c] = {h} /\ SaltedHash[symbol[c]] = h
            /\ newTx' = newTx \cup {symbol[c]}
            /\ Store(h, symbol[c]) /\ Peel(h, symbol[c])
      BY <2>3 DEF DecodeTransaction
    <3>2. symbol[c] \in Tx
      BY <2>0, <3>1, LastOneIsReal DEF SoundInv
    <3>3. StoreSound'
      BY <3>1, <3>2, StoreKeepsSound DEF SoundInv
    <3>4. \A e \in Cw : HeldSums(e)'
      BY <3>1, <3>2, PeelKeepsSums DEF SoundInv, IInv
    <3> QED BY <3>1, <3>2, <3>3, <3>4 DEF SoundInv
  <2> QED BY <1>3, <2>1, <2>2, <2>3
<1>4. CASE UNCHANGED vars
  BY <1>4 DEF SoundInv, StoreSound, HeldSums, vars
<1> QED BY <1>1, <1>2, <1>3, <1>4 DEF Next, DecodeStep

(* Soundness as the runs state it.                                          *)
LEMMA SoundInvSound == SoundInv => Sound
  BY DEF SoundInv, StoreSound, HeldSums, Sound

(* The decoder returns and remembers only transactions of the system, and   *)
(* every codeword it still holds sums up the transactions it waits for.     *)
THEOREM DecodesOnlyTransactions == Spec => []Sound
<1>1. CASE CollisionFree(Tx)
  <2>1. Init => IInv /\ SoundInv
    BY InitInv, InitSound
  <2>2. IInv /\ SoundInv /\ [Next]_vars => (IInv /\ SoundInv)'
    BY <1>1, NextInv, NextSound
  <2> QED BY <2>1, <2>2, SoundInvSound, PTL DEF Spec
<1>2. CASE ~CollisionFree(Tx)
  <2>1. Sound
    BY <1>2 DEF Sound
  <2> QED BY <2>1, PTL
<1> QED BY <1>1, <1>2

-----------------------------------------------------------------------------
(* The decoder implements LtPeeling, when it remembers.                     *)

(* Nothing has been forgotten: recentTransactions holds the known           *)
(* transactions and no more, so it never outgrows Memory.                   *)
NothingForgotten == Len(recent) = Cardinality(known)

HInv ==
  /\ Remembers
  /\ IInv
  /\ SoundInv
  /\ StubsAreUnknown
  /\ DOMAIN content \subseteq Cw
  /\ NothingForgotten

LEMMA HInvRemembers == HInv => CollisionFree(Tx) /\ Cardinality(Tx) <= Memory
  BY DEF HInv, Remembers

(* There are finitely many known transactions.                              *)
LEMMA KnownFinite == known \subseteq Tx /\ IsFiniteSet(known) /\ IsFiniteSet(Tx)
  BY LtCodeAssumption, FS_Subset DEF known

(* Storing an unknown transaction adds it to the known ones and forgets     *)
(* none.                                                                    *)
LEMMA StoreRemembers ==
  ASSUME HInv, NEW t \in Tx, ~Known(SaltedHash[t]), Store(SaltedHash[t], t)
  PROVE  known' = known \cup {t} /\ NothingForgotten'
<1>1. t \notin known /\ recent \in Seq(Data) /\ t \in Data /\ Len(recent) \in Nat
  BY TxType DEF known, HInv, IInv, TypeOK
<1>2. /\ IsFiniteSet(known \cup {t})
      /\ Cardinality(known \cup {t}) = Cardinality(known) + 1
  BY <1>1, KnownFinite, FS_AddElement
<1>3. Cardinality(known \cup {t}) <= Cardinality(Tx) /\ Cardinality(Tx) \in Nat
  BY KnownFinite, FS_Subset, FS_CardinalityType
<1>4. Len(Append(recent, t)) = Cardinality(known) + 1
  BY <1>1 DEF HInv, NothingForgotten
<1>5. ~(Len(Append(recent, t)) > Memory)
  BY <1>1, <1>2, <1>3, <1>4, HInvRemembers, MemoryAssumption DEF HInv, NothingForgotten
<1>6. recent' = Append(recent, t) /\ received' = Learn(SaltedHash[t], t)
  BY <1>5 DEF Store
<1>7. known' = known \cup {t}
  BY <1>6, HInvRemembers DEF known, Known, Learn, CollisionFree
<1> QED BY <1>2, <1>4, <1>6, <1>7 DEF NothingForgotten

(* Between calls no codeword reveals a transaction.                         *)
LEMMA IdleQuiescent == HInv /\ Idle => Peeling!Quiescent
<1> SUFFICES ASSUME HInv, Idle, NEW c \in allocated, NEW t \in Tx, content[c] \ known = {t}
             PROVE  FALSE
  BY DEF Peeling!Quiescent, Peeling!Reveals, HInv, StubsAreUnknown
<1>1. c \in Cw /\ members[c] = HashesOf({t})
  BY DEF HInv, IInv, TypeOK, StubsAreUnknown, Unpeeled
<1>2. members[c] = {SaltedHash[t]}
  BY <1>1 DEF HashesOf
<1>3. c \in queued /\ c \notin decoded
  BY <1>1, <1>2 DEF HInv, IInv, QueuedWhenDecodable, AtMostOne
<1> QED BY <1>3 DEF HInv, IInv, QueuedWhenDecodable, Idle

(* What a step that peels t does to the contents.                           *)
LEMMA PeelUnpeels ==
  ASSUME HInv, NEW t \in Tx, known' = known \cup {t}, UNCHANGED <<allocated, content>>,
         \/ Peel(SaltedHash[t], t)
         \/ SaltedHash[t] \notin pending /\ UNCHANGED linkVars
  PROVE  StubsAreUnknown'
<1> SUFFICES ASSUME NEW c \in allocated
             PROVE  /\ members'[c] = HashesOf(Unpeeled(c)')
                    /\ symbol'[c] = XorAll(Identity, Unpeeled(c)')
  BY DEF HInv, StubsAreUnknown
<1>1. Unpeeled(c)' = Unpeeled(c) \ {t}
  BY DEF Unpeeled
<1>2. /\ c \in Cw /\ Unpeeled(c) \in SUBSET Tx
      /\ members[c] = HashesOf(Unpeeled(c))
      /\ symbol[c] = XorAll(Identity, Unpeeled(c))
  BY DEF HInv, IInv, TypeOK, StubsAreUnknown, Unpeeled
<1>3. CASE Peel(SaltedHash[t], t)
  BY <1>1, <1>2, <1>3, PeelHeader, HInvRemembers DEF HInv, IInv
<1>4. CASE SaltedHash[t] \notin pending /\ UNCHANGED linkVars
  <2>1. SaltedHash[t] \in Hashes /\ SaltedHash[t] \notin members[c]
    BY <1>2, <1>4, TxType DEF HInv, IInv, Linked, StubsNeeded
  <2>2. t \notin Unpeeled(c)
    BY <2>1, <1>2, HInvRemembers, HashInHeader
  <2>3. Unpeeled(c) \ {t} = Unpeeled(c)
    BY <2>2
  <2> QED BY <2>3, <1>1, <1>2, <1>4 DEF linkVars
<1> QED BY <1>3, <1>4
-----------------------------------------------------------------------------
(* Initial states map to initial states.                                    *)
LEMMA HInitInv == Remembers /\ HInit => HInv /\ Peeling!Init
<1> SUFFICES ASSUME Remembers, HInit PROVE HInv /\ Peeling!Init
  OBVIOUS
<1>1. IInv /\ SoundInv
  BY InitInv, InitSound DEF HInit
<1>2. known = {}
  BY DEF HInit, Init, known, Known
<1>3. DOMAIN content = {} /\ allocated = {} /\ recent = <<>>
  BY DEF HInit, Init
<1>4. StubsAreUnknown /\ DOMAIN content \subseteq Cw
  BY <1>3 DEF StubsAreUnknown
<1>5. NothingForgotten
  BY <1>2, <1>3, FS_EmptySet DEF NothingForgotten
<1>6. Peeling!Init
  BY <1>2 DEF Peeling!Init, HInit
<1> QED BY <1>1, <1>4, <1>5, <1>6 DEF HInv

(* The history variable does not restrict the decoder.                      *)
LEMMA HNextNext == [HNext]_<<vars, content>> => [Next]_vars
  BY DEF HNext, Next

(* AddCodeword implements Receive.                                          *)
LEMMA ReceiveStep ==
  ASSUME HInv, NEW c \in Cw, NEW T \in EncodableSets, AddCodeword(c, CodewordOver(T)),
         content' = [x \in DOMAIN content \cup {c} |-> IF x = c THEN T ELSE content[x]]
  PROVE  /\ StubsAreUnknown' /\ (DOMAIN content \subseteq Cw)' /\ NothingForgotten'
         /\ Peeling!Receive(c, T)
<1>1. Idle /\ c \notin allocated /\ allocated' = allocated \cup {c} /\ UNCHANGED <<received, recent>>
  BY DEF AddCodeword
<1>2. UNCHANGED known
  BY <1>1 DEF known, Known
<1>3. DOMAIN content = allocated
  BY DEF HInv, StubsAreUnknown
<1>4. Peeling!Receive(c, T)
  BY <1>1, <1>2, <1>3, IdleQuiescent DEF Peeling!Receive
<1>5. T \in SUBSET Tx
  BY DEF EncodableSets
<1>6. ASSUME NEW e \in allocated
      PROVE  /\ content'[e] \subseteq Tx
             /\ members'[e] = HashesOf(Unpeeled(e)')
             /\ symbol'[e] = XorAll(Identity, Unpeeled(e)')
  <2>1. e # c /\ e \in Cw
    BY <1>1 DEF HInv, IInv, TypeOK
  <2>2. symbol'[e] = symbol[e] /\ members'[e] = members[e]
    BY <2>1 DEF AddCodeword, HInv, IInv, TypeOK
  <2>3. content'[e] = content[e]
    BY <2>1, <1>3
  <2>4. Unpeeled(e)' = Unpeeled(e)
    BY <2>3, <1>2 DEF Unpeeled
  <2> QED BY <2>2, <2>3, <2>4 DEF HInv, StubsAreUnknown
<1>7. /\ content'[c] \subseteq Tx
      /\ members'[c] = HashesOf(Unpeeled(c)')
      /\ symbol'[c] = XorAll(Identity, Unpeeled(c)')
  <2> DEFINE K == {t \in T : Known(SaltedHash[t])}
  <2>1. content'[c] = T
    OBVIOUS
  <2>2. Unpeeled(c)' = T \ known
    BY <2>1, <1>2 DEF Unpeeled
  <2>3. T \ known = T \ K
    BY <1>5 DEF known
  <2>4. members'[c] = HashesOf(T \ K) /\ symbol'[c] = XorAll(Identity, T \ K)
    BY AddCodewordHeader, HInvRemembers DEF HInv, SoundInv
  <2> QED BY <2>1, <2>2, <2>3, <2>4, <1>5
<1>8. StubsAreUnknown' /\ (DOMAIN content \subseteq Cw)'
  BY <1>1, <1>3, <1>6, <1>7 DEF StubsAreUnknown, HInv
<1>9. NothingForgotten'
  BY <1>1, <1>2 DEF NothingForgotten, HInv
<1> QED BY <1>4, <1>8, <1>9

(* AddTransaction implements Give.                                          *)
LEMMA GiveStep ==
  ASSUME HInv, NEW t \in Tx, AddTransaction(t), UNCHANGED content
  PROVE  /\ StubsAreUnknown' /\ NothingForgotten'
         /\ Peeling!Give(t) \/ UNCHANGED Peeling!vars
<1>1. CASE AddNewTransaction(t)
  <2>1. /\ Idle /\ ~Known(SaltedHash[t]) /\ Store(SaltedHash[t], t) /\ UNCHANGED allocated
        /\ \/ Peel(SaltedHash[t], t)
           \/ SaltedHash[t] \notin pending /\ UNCHANGED linkVars
    BY <1>1 DEF AddNewTransaction
  <2>2. known' = known \cup {t} /\ NothingForgotten'
    BY <2>1, StoreRemembers
  <2>3. StubsAreUnknown'
    BY <2>1, <2>2, PeelUnpeels
  <2>4. Peeling!Give(t)
    BY <2>1, <2>2, IdleQuiescent DEF Peeling!Give
  <2> QED BY <2>2, <2>3, <2>4
<1>2. CASE AddKnownTransaction(t)
  <2>1. UNCHANGED <<received, recent, members, symbol, allocated, known>>
    BY <1>2 DEF AddKnownTransaction, storeVars, linkVars, known, Known
  <2> QED BY <2>1 DEF HInv, StubsAreUnknown, Unpeeled, NothingForgotten, Peeling!vars
<1>3. CASE AddConflictingTransaction(t)
  <2>1. received[SaltedHash[t]] \in Tx /\ SaltedHash[received[SaltedHash[t]]] = SaltedHash[t]
        /\ received[SaltedHash[t]] # t
    BY <1>3 DEF AddConflictingTransaction, HInv, SoundInv, StoreSound, Known
  <2> QED BY <2>1, HInvRemembers DEF CollisionFree
<1> QED BY <1>1, <1>2, <1>3 DEF AddTransaction

(* An iteration of decodeCodewords implements Learn or a stutter.           *)
LEMMA LearnStep ==
  ASSUME HInv, DecodeStep, UNCHANGED content
  PROVE  /\ StubsAreUnknown' /\ NothingForgotten'
         /\ (\E t \in Tx : Peeling!Learn(t)) \/ UNCHANGED Peeling!vars
<1>1. PICK c \in queue : /\ DecodeEmpty(c) \/ DecodeMismatch(c) \/ DecodeTransaction(c)
                         /\ UNCHANGED allocated
  BY DEF DecodeStep
<1>2. c \in Cw /\ c \in allocated
  BY DEF HInv, IInv, TypeOK, QueuedWhenDecodable
<1>3. CASE DecodeEmpty(c)
  <2>1. UNCHANGED <<received, recent, members, symbol, allocated, known>>
    BY <1>1, <1>3 DEF DecodeEmpty, storeVars, linkVars, known, Known
  <2> QED BY <2>1 DEF HInv, StubsAreUnknown, Unpeeled, NothingForgotten, Peeling!vars
<1>4. CASE DecodeMismatch(c)
  BY <1>2, <1>4, LastOneIsReal, HInvRemembers DEF DecodeMismatch, HInv, SoundInv
<1>5. CASE DecodeTransaction(c)
  <2>1. PICK h \in Hashes :
          /\ members[c] = {h} /\ SaltedHash[symbol[c]] = h
          /\ Store(h, symbol[c]) /\ Peel(h, symbol[c])
    BY <1>5 DEF DecodeTransaction
  <2> DEFINE t == symbol[c]
  <2>2. t \in Tx /\ SaltedHash[t] = h
    BY <1>2, <2>1, LastOneIsReal, HInvRemembers DEF HInv, SoundInv
  <2>3. ~Known(SaltedHash[t])
    <3>1. h \in pending
      BY <1>2, <2>1 DEF HInv, IInv, Linked, StubsNeeded
    <3> QED BY <3>1, <2>2 DEF HInv, IInv, PendingUnknown, Known
  <2>4. Store(SaltedHash[t], t) /\ Peel(SaltedHash[t], t)
    BY <2>1, <2>2
  <2>5. Unpeeled(c) = {t}
    <3>1. members[c] = HashesOf(Unpeeled(c)) /\ Unpeeled(c) \in SUBSET Tx
      BY <1>2 DEF HInv, StubsAreUnknown, Unpeeled
    <3> QED BY <3>1, <2>1, <2>2, HInvRemembers DEF HashesOf, CollisionFree
  <2> HIDE DEF t
  <2>6. known' = known \cup {t} /\ NothingForgotten'
    BY <2>2, <2>3, <2>4, StoreRemembers
  <2>7. StubsAreUnknown'
    BY <1>1, <2>2, <2>4, <2>6, PeelUnpeels
  <2>8. Peeling!Learn(t)
    BY <1>2, <2>2, <2>5, <2>6 DEF Peeling!Learn, Peeling!Reveals, Unpeeled, HInv, StubsAreUnknown
  <2> QED BY <2>2, <2>6, <2>7, <2>8
<1> QED BY <1>1, <1>3, <1>4, <1>5

(* Every step implements a step of LtPeeling or a stutter.                  *)
LEMMA HStep == HInv /\ [HNext]_<<vars, content>> => HInv' /\ [Peeling!Next]_(Peeling!vars)
<1> SUFFICES ASSUME HInv, [HNext]_<<vars, content>>
             PROVE  HInv' /\ [Peeling!Next]_(Peeling!vars)
  OBVIOUS
<1>0. IInv' /\ SoundInv'
  BY HNextNext, NextInv, NextSound, HInvRemembers DEF HInv
<1>1. ASSUME NEW c \in Cw, NEW T \in EncodableSets, AddCodeword(c, CodewordOver(T)),
             content' = [x \in DOMAIN content \cup {c} |-> IF x = c THEN T ELSE content[x]]
      PROVE  HInv' /\ [Peeling!Next]_(Peeling!vars)
  <2>1. T \in SUBSET Tx
    BY DEF EncodableSets
  <2> QED BY <1>0, <1>1, <2>1, ReceiveStep DEF HInv, Peeling!Next
<1>2. ASSUME NEW t \in Tx, AddTransaction(t), UNCHANGED content
      PROVE  HInv' /\ [Peeling!Next]_(Peeling!vars)
  BY <1>0, <1>2, GiveStep DEF HInv, Peeling!Next
<1>3. ASSUME DecodeStep, UNCHANGED content
      PROVE  HInv' /\ [Peeling!Next]_(Peeling!vars)
  BY <1>0, <1>3, LearnStep DEF HInv, Peeling!Next
<1>4. CASE UNCHANGED <<vars, content>>
  BY <1>0, <1>4 DEF vars, HInv, StubsAreUnknown, Unpeeled, NothingForgotten, known, Known, Peeling!vars
<1> QED BY <1>1, <1>2, <1>3, <1>4 DEF HNext

(* What is left in every codeword is what its sender put in and the         *)
(* decoder does not know, and the XOR of it.                                *)
THEOREM CodewordsTrackContent == Remembers /\ HSpec => []StubsAreUnknown
<1>1. HInv => StubsAreUnknown
  BY DEF HInv
<1> QED BY <1>1, HInitInv, HStep, PTL DEF HSpec

(* Every behaviour of the decoder is one of the abstract peeling decoder.   *)
THEOREM DecoderImplementsPeeling == Remembers /\ HSpec => ImplementsPeeling
  BY HInitInv, HStep, PTL DEF HSpec, ImplementsPeeling, Peeling!Spec

-----------------------------------------------------------------------------
(* The encoders.                                                            *)

(* One block more in the XOR flips the bits that it has.                    *)
LEMMA XorAllAdd ==
  ASSUME NEW f, NEW S, IsFiniteSet(S), NEW x, x \notin S, f[x] \in Data
  PROVE  XorAll(f, S \cup {x}) = XOR(XorAll(f, S), f[x])
<1>1. ASSUME NEW b \in Bits
      PROVE  Parity(f, S \cup {x}, b) = 1 <=> (Parity(f, S, b) = 1 <=> b \notin f[x])
  <2> DEFINE A == {y \in S : b \in f[y]}
             B == {y \in S \cup {x} : b \in f[y]}
  <2>1. IsFiniteSet(A) /\ Cardinality(A) \in Nat /\ x \notin A
    BY FS_Subset, FS_CardinalityType
  <2>2. B = IF b \in f[x] THEN A \cup {x} ELSE A
    OBVIOUS
  <2>3. Cardinality(A \cup {x}) = Cardinality(A) + 1
    BY <2>1, FS_AddElement
  <2>4. \A n \in Nat : (n + 1) % 2 = 1 <=> n % 2 # 1
    OBVIOUS
  <2> HIDE DEF A, B
  <2>5. Cardinality(B) % 2 = 1 <=> (Cardinality(A) % 2 = 1 <=> b \notin f[x])
    BY <2>1, <2>2, <2>3, <2>4
  <2> QED BY <2>5 DEF Parity, A, B
<1>2. \A b \in f[x] : b \in Bits
  BY DEF Data
<1> QED BY <1>1, <1>2 DEF XOR, XorAll

(* The XOR of a family of different blocks is the XOR of the blocks.        *)
LEMMA XorAllImage ==
  ASSUME NEW f, NEW D, IsFiniteSet(D), \A x \in D : f[x] \in Data,
         \A x, y \in D : f[x] = f[y] => x = y
  PROVE  /\ XorAll(f, D) = XorAll(Identity, {f[x] : x \in D})
         /\ Cardinality({f[x] : x \in D}) = Cardinality(D)
<1> DEFINE E == {f[x] : x \in D}
           g == [x \in D |-> f[x]]
<1>1. Cardinality(E) = Cardinality(D)
  <2>1. g \in Bijection(D, E)
    BY DEF Bijection, Injection, Surjection, IsInjective
  <2> QED BY <2>1, FS_Bijection DEF ExistsBijection
<1>2. ASSUME NEW b \in Bits PROVE Parity(f, D, b) = Parity(Identity, E, b)
  <2> DEFINE A == {x \in D : b \in f[x]}
             B == {e \in E : b \in Identity[e]}
             h == [x \in A |-> f[x]]
  <2>1. B = {f[x] : x \in A}
    BY DEF Identity
  <2>2. h \in Bijection(A, B)
    <3>1. h \in [A -> B]
      BY <2>1
    <3>2. \A x, y \in A : h[x] = h[y] => x = y
      OBVIOUS
    <3>3. \A e \in B : \E x \in A : h[x] = e
      BY <2>1
    <3> QED BY <3>1, <3>2, <3>3 DEF Bijection, Injection, Surjection, IsInjective
  <2>3. IsFiniteSet(A)
    BY FS_Subset
  <2>4. Cardinality(A) = Cardinality(B)
    BY <2>2, <2>3, FS_Bijection DEF ExistsBijection
  <2> QED BY <2>4 DEF Parity
<1> QED BY <1>1, <1>2 DEF XorAll

-----------------------------------------------------------------------------
(* A position that was swapped is one of the window, and there are such     *)
(* positions only while a codeword is produced.                             *)
HistoryOK ==
  /\ shuffleHistory \in Seq(1..Len(window))
  /\ Len(shuffleHistory) <= Len(window)
  /\ phase \notin {"sample", "revert"} => shuffleHistory = <<>>
  /\ phase = "revert" => shuffleHistory # <<>>

EncoderInv ==
  /\ window \in Seq(Tx)
  /\ windowSize \in WindowSizes
  /\ HistoryOK
  /\ WindowHashed

(* What AddTransactionToWindow and its eviction do, and what swapping does  *)
(* not do.                                                                  *)
Hashed(w, hs) ==
  /\ hs = {SaltedHash[w[i]] : i \in 1..Len(w)}
  /\ \A i, j \in 1..Len(w) : SaltedHash[w[i]] = SaltedHash[w[j]] => i = j

LEMMA WindowHashedIsHashed ==
  ASSUME window \in Seq(Tx)
  PROVE  WindowHashed <=> Hashed(window, hashes) /\ Len(window) <= windowSize
<1>1. HashesOf(InWindow) = {SaltedHash[window[i]] : i \in 1..Len(window)}
  BY DEF HashesOf, InWindow
<1> QED BY <1>1 DEF WindowHashed, Hashed

LEMMA SwapType ==
  ASSUME NEW w \in Seq(Tx), NEW i \in 1..Len(w), NEW j \in 1..Len(w)
  PROVE  /\ Swap(w, i, j) \in Seq(Tx)
         /\ Len(Swap(w, i, j)) = Len(w)
         /\ \A k \in 1..Len(w) :
              Swap(w, i, j)[k] = IF k = j THEN w[i] ELSE IF k = i THEN w[j] ELSE w[k]
BY DEF Swap

LEMMA SwapHashed ==
  ASSUME NEW w \in Seq(Tx), NEW i \in 1..Len(w), NEW j \in 1..Len(w), NEW hs,
         Hashed(w, hs)
  PROVE  Hashed(Swap(w, i, j), hs)
<1> DEFINE v == Swap(w, i, j)
           at(k) == IF k = j THEN i ELSE IF k = i THEN j ELSE k
<1>1. Len(v) = Len(w) /\ \A k \in 1..Len(w) : v[k] = w[at(k)]
  <2>1. /\ Len(v) = Len(w)
        /\ \A k \in 1..Len(w) : v[k] = IF k = j THEN w[i] ELSE IF k = i THEN w[j] ELSE w[k]
    BY SwapType
  <2> HIDE DEF v
  <2> QED BY <2>1
<1>2. \A k \in 1..Len(w) : at(k) \in 1..Len(w) /\ at(at(k)) = k
  OBVIOUS
<1> HIDE DEF v, at
<1>3. {SaltedHash[v[k]] : k \in 1..Len(v)} = {SaltedHash[w[k]] : k \in 1..Len(w)}
  <2>1. ASSUME NEW k \in 1..Len(v) PROVE \E l \in 1..Len(w) : SaltedHash[v[k]] = SaltedHash[w[l]]
    <3>1. at(k) \in 1..Len(w) /\ v[k] = w[at(k)]
      BY <1>1, <1>2
    <3> QED BY <3>1
  <2>2. ASSUME NEW l \in 1..Len(w) PROVE \E k \in 1..Len(v) : SaltedHash[v[k]] = SaltedHash[w[l]]
    <3>1. at(l) \in 1..Len(v) /\ v[at(l)] = w[l]
      BY <1>1, <1>2
    <3> QED BY <3>1
  <2>3. ASSUME NEW h \in {SaltedHash[v[k]] : k \in 1..Len(v)}
        PROVE  h \in {SaltedHash[w[k]] : k \in 1..Len(w)}
    <3>1. PICK k \in 1..Len(v) : h = SaltedHash[v[k]]
      BY <2>3
    <3>2. PICK l \in 1..Len(w) : SaltedHash[v[k]] = SaltedHash[w[l]]
      BY <2>1
    <3> QED BY <3>1, <3>2
  <2>4. ASSUME NEW h \in {SaltedHash[w[k]] : k \in 1..Len(w)}
        PROVE  h \in {SaltedHash[v[k]] : k \in 1..Len(v)}
    <3>1. PICK l \in 1..Len(w) : h = SaltedHash[w[l]]
      BY <2>4
    <3>2. PICK k \in 1..Len(v) : SaltedHash[v[k]] = SaltedHash[w[l]]
      BY <2>2
    <3> QED BY <3>1, <3>2
  <2> QED BY <2>3, <2>4
<1>4. ASSUME NEW k \in 1..Len(v), NEW l \in 1..Len(v), SaltedHash[v[k]] = SaltedHash[v[l]]
      PROVE  k = l
  <2>1. SaltedHash[w[at(k)]] = SaltedHash[w[at(l)]] /\ at(k) \in 1..Len(w) /\ at(l) \in 1..Len(w)
    BY <1>1, <1>2, <1>4
  <2>2. at(k) = at(l)
    BY <2>1 DEF Hashed
  <2> QED BY <2>2, <1>1, <1>2
<1> QED BY <1>3, <1>4 DEF Hashed, v

(* A new hash at the end.                                                   *)
LEMMA AppendHashed ==
  ASSUME NEW w \in Seq(Tx), NEW t \in Tx, NEW hs, Hashed(w, hs), SaltedHash[t] \notin hs
  PROVE  Hashed(Append(w, t), hs \cup {SaltedHash[t]})
<1> DEFINE v == Append(w, t)
<1>1. /\ Len(v) = Len(w) + 1 /\ Len(w) \in Nat
      /\ \A i \in 1..Len(w) : v[i] = w[i]
      /\ v[Len(w) + 1] = t
  OBVIOUS
<1> HIDE DEF v
<1>2. {SaltedHash[v[i]] : i \in 1..Len(v)} = hs \cup {SaltedHash[t]}
  <2>1. ASSUME NEW i \in 1..Len(v) PROVE SaltedHash[v[i]] \in hs \cup {SaltedHash[t]}
    <3>1. CASE i \in 1..Len(w)
      BY <3>1, <1>1 DEF Hashed
    <3>2. CASE i = Len(w) + 1
      BY <3>2, <1>1
    <3> QED BY <3>1, <3>2, <1>1
  <2>2. ASSUME NEW h \in hs PROVE \E i \in 1..Len(v) : SaltedHash[v[i]] = h
    <3>1. PICK i \in 1..Len(w) : SaltedHash[w[i]] = h
      BY DEF Hashed
    <3> QED BY <3>1, <1>1
  <2>3. \E i \in 1..Len(v) : SaltedHash[v[i]] = SaltedHash[t]
    <3>1. Len(w) + 1 \in 1..Len(v)
      BY <1>1
    <3> QED BY <3>1, <1>1
  <2> QED BY <2>1, <2>2, <2>3
<1>3. ASSUME NEW i \in 1..Len(v), NEW j \in 1..Len(v), SaltedHash[v[i]] = SaltedHash[v[j]]
      PROVE  i = j
  <2>1. \A k \in 1..Len(w) : SaltedHash[v[k]] \in hs
    BY <1>1 DEF Hashed
  <2>2. CASE i \in 1..Len(w) /\ j \in 1..Len(w)
    BY <2>2, <1>1, <1>3 DEF Hashed
  <2>3. CASE i = Len(w) + 1 \/ j = Len(w) + 1
    BY <2>1, <2>3, <1>1, <1>3
  <2> QED BY <2>2, <2>3, <1>1
<1> QED BY <1>2, <1>3 DEF Hashed, v

(* The oldest entry goes, and its hash.                                     *)
LEMMA TailHashed ==
  ASSUME NEW w \in Seq(Tx), w # <<>>, NEW hs, Hashed(w, hs)
  PROVE  Hashed(Tail(w), hs \ {SaltedHash[Head(w)]})
<1> DEFINE v == Tail(w)
<1>1. /\ Len(v) = Len(w) - 1 /\ Len(w) \in Nat /\ Len(w) >= 1
      /\ \A i \in 1..Len(v) : v[i] = w[i + 1]
      /\ Head(w) = w[1]
  OBVIOUS
<1> HIDE DEF v
<1>2. {SaltedHash[v[i]] : i \in 1..Len(v)} = hs \ {SaltedHash[Head(w)]}
  <2>1. ASSUME NEW i \in 1..Len(v) PROVE SaltedHash[v[i]] \in hs \ {SaltedHash[Head(w)]}
    <3>1. i + 1 \in 1..Len(w) /\ 1 \in 1..Len(w) /\ i + 1 # 1 /\ v[i] = w[i + 1]
      BY <1>1
    <3> QED BY <3>1, <1>1 DEF Hashed
  <2>2. ASSUME NEW h \in hs \ {SaltedHash[Head(w)]} PROVE \E i \in 1..Len(v) : SaltedHash[v[i]] = h
    <3>1. PICK k \in 1..Len(w) : SaltedHash[w[k]] = h
      BY DEF Hashed
    <3>2. k - 1 \in 1..Len(v) /\ v[k - 1] = w[k]
      BY <3>1, <1>1
    <3> QED BY <3>1, <3>2
  <2> QED BY <2>1, <2>2
<1>3. ASSUME NEW i \in 1..Len(v), NEW j \in 1..Len(v), SaltedHash[v[i]] = SaltedHash[v[j]]
      PROVE  i = j
  <2>1. i + 1 \in 1..Len(w) /\ j + 1 \in 1..Len(w)
    BY <1>1
  <2>2. i + 1 = j + 1
    BY <2>1, <1>1, <1>3 DEF Hashed
  <2> QED BY <2>2, <1>1
<1> QED BY <1>2, <1>3 DEF Hashed, v

-----------------------------------------------------------------------------
(* One lemma per action.                                                    *)
LEMMA ResetStep ==
  ASSUME EncoderInv, NEW ws \in WindowSizes, Reset(ws)
  PROVE  EncoderInv'
<1>1. shuffleHistory = <<>>
  BY DEF EncoderInv, HistoryOK, Reset
<1> QED BY <1>1, WindowSizesAssumption
        DEF Reset, EncoderInv, HistoryOK, WindowHashed, HashesOf, InWindow

LEMMA AddStep ==
  ASSUME EncoderInv, NEW t \in Tx, AddTransactionToWindow(t)
  PROVE  EncoderInv'
<1> DEFINE all == Append(window, t)
           allHashes == hashes \cup {SaltedHash[t]}
<1>1. /\ window \in Seq(Tx) /\ Hashed(window, hashes) /\ Len(window) <= windowSize
      /\ windowSize \in Nat /\ windowSize' = windowSize
  BY WindowHashedIsHashed, WindowSizesAssumption DEF EncoderInv, AddTransactionToWindow
<1>2. Hashed(all, allHashes)
  BY <1>1, AppendHashed DEF AddTransactionToWindow
<1>3. all \in Seq(Tx) /\ all # <<>> /\ Len(all) = Len(window) + 1 /\ Len(window) \in Nat
  BY <1>1
<1>4. /\ window' \in Seq(Tx) /\ Hashed(window', hashes') /\ Len(window') <= windowSize'
  <2> HIDE DEF all, allHashes
  <2>1. CASE Len(all) > windowSize
    <3>1. window' = Tail(all) /\ hashes' = allHashes \ {SaltedHash[Head(all)]}
      BY <2>1 DEF AddTransactionToWindow, all, allHashes
    <3>2. Hashed(window', hashes')
      BY <3>1, <1>2, <1>3, TailHashed
    <3>3. Tail(all) \in Seq(Tx) /\ Len(Tail(all)) = Len(window)
      BY <1>3
    <3> QED BY <3>1, <3>2, <3>3, <1>1
  <2>2. CASE ~(Len(all) > windowSize)
    <3>1. window' = all /\ hashes' = allHashes
      BY <2>2 DEF AddTransactionToWindow, all, allHashes
    <3> QED BY <3>1, <2>2, <1>1, <1>2, <1>3
  <2> QED BY <2>1, <2>2
<1>5. WindowHashed'
  <2>1. HashesOf(InWindow)' = {SaltedHash[window'[i]] : i \in 1..Len(window')}
    BY DEF HashesOf, InWindow
  <2> QED BY <2>1, <1>4 DEF WindowHashed, Hashed
<1>6. HistoryOK'
  <2>1. shuffleHistory = <<>> /\ shuffleHistory' = shuffleHistory /\ phase' = phase /\ phase = "idle"
    BY DEF EncoderInv, HistoryOK, AddTransactionToWindow
  <2> QED BY <2>1, <1>4 DEF HistoryOK
<1> QED BY <1>1, <1>4, <1>5, <1>6 DEF EncoderInv

(* A swap within the window.                                                *)
LEMMA SwapStep ==
  ASSUME EncoderInv, NEW i \in 1..Len(window), NEW r \in 1..Len(window),
         window' = Swap(window, i, r), UNCHANGED <<hashes, windowSize>>
  PROVE  /\ window' \in Seq(Tx) /\ Len(window') = Len(window)
         /\ windowSize' \in WindowSizes
         /\ WindowHashed'
<1>1. window \in Seq(Tx) /\ Hashed(window, hashes) /\ Len(window) <= windowSize
  BY WindowHashedIsHashed DEF EncoderInv
<1>2. window' \in Seq(Tx) /\ Len(window') = Len(window) /\ Hashed(window', hashes)
  BY <1>1, SwapType, SwapHashed
<1>3. HashesOf(InWindow)' = {SaltedHash[window'[k]] : k \in 1..Len(window')}
  BY DEF HashesOf, InWindow
<1> QED BY <1>1, <1>2, <1>3 DEF WindowHashed, Hashed, EncoderInv

LEMMA SampleStep ==
  ASSUME EncoderInv, NEW r \in 1..Len(window), Sample(r)
  PROVE  EncoderInv'
<1> DEFINE i == Len(shuffleHistory) + 1
<1>1. /\ shuffleHistory \in Seq(1..Len(window)) /\ window \in Seq(Tx)
      /\ Len(shuffleHistory) \in Nat /\ Len(window) \in Nat
  BY DEF EncoderInv, HistoryOK
<1>2. i \in 1..Len(window)
  BY <1>1 DEF Sample
<1>3. window' = Swap(window, i, r) /\ UNCHANGED <<hashes, windowSize>>
  BY DEF Sample
<1>4. /\ window' \in Seq(Tx) /\ Len(window') = Len(window)
      /\ windowSize' \in WindowSizes /\ WindowHashed'
  BY <1>2, <1>3, SwapStep
<1>5. shuffleHistory' = Append(shuffleHistory, r) /\ phase' \in {"sample", "revert"}
  BY DEF Sample
<1>6. /\ shuffleHistory' \in Seq(1..Len(window)) /\ Len(shuffleHistory') = i
      /\ shuffleHistory' # <<>>
  BY <1>1, <1>5
<1>7. HistoryOK'
  BY <1>2, <1>4, <1>5, <1>6 DEF HistoryOK
<1> QED BY <1>4, <1>7 DEF EncoderInv

LEMMA RevertStep ==
  ASSUME EncoderInv, Revert
  PROVE  EncoderInv'
<1> DEFINE i == Len(shuffleHistory)
<1>1. /\ shuffleHistory \in Seq(1..Len(window)) /\ shuffleHistory # <<>>
      /\ i \in Nat /\ Len(window) \in Nat /\ i <= Len(window)
  BY DEF EncoderInv, HistoryOK, Revert
<1>2. i \in 1..Len(window) /\ shuffleHistory[i] \in 1..Len(window)
  BY <1>1
<1>3. /\ window' = Swap(window, i, shuffleHistory[i]) /\ UNCHANGED <<hashes, windowSize>>
      /\ shuffleHistory' = SubSeq(shuffleHistory, 1, i - 1)
      /\ phase' = IF i = 1 THEN "idle" ELSE phase
      /\ phase = "revert"
  BY DEF Revert
<1>4. /\ window' \in Seq(Tx) /\ Len(window') = Len(window)
      /\ windowSize' \in WindowSizes /\ WindowHashed'
  BY <1>2, <1>3, SwapStep
<1>5. shuffleHistory' \in Seq(1..Len(window)) /\ Len(shuffleHistory') = i - 1
  <2>1. \A k \in 1..(i - 1) : shuffleHistory[k] \in 1..Len(window)
    BY <1>1
  <2>2. i - 1 \in Nat
    BY <1>2
  <2>3. /\ SubSeq(shuffleHistory, 1, i - 1) \in Seq(1..Len(window))
        /\ Len(SubSeq(shuffleHistory, 1, i - 1)) = IF 1 <= i - 1 THEN i - 1 - 1 + 1 ELSE 0
    <3>1. 1 \in Int /\ i - 1 \in Int
      BY <2>2
    <3> QED BY <2>1, <3>1, SubSeqProperties
  <2>4. (IF 1 <= i - 1 THEN i - 1 - 1 + 1 ELSE 0) = i - 1
    BY <2>2
  <2> HIDE DEF i
  <2> QED BY <2>3, <2>4, <1>3, Zenon
<1>6. (shuffleHistory' = <<>>) <=> i = 1
  BY <1>1, <1>2, <1>5
<1>7. HistoryOK'
  BY <1>1, <1>2, <1>3, <1>4, <1>5, <1>6 DEF HistoryOK
<1> QED BY <1>4, <1>7 DEF EncoderInv

(* The steps that leave the window alone.                                   *)
LEMMA OtherStep ==
  ASSUME EncoderInv, UNCHANGED <<window, hashes, windowSize>>, HistoryOK'
  PROVE  EncoderInv'
BY DEF EncoderInv, WindowHashed, HashesOf, InWindow

LEMMA StepInv ==
  ASSUME EncoderInv, [EncodersNext]_<<encoderVars, package>>
  PROVE  EncoderInv'
<1>1. ASSUME NEW ws \in WindowSizes, Reset(ws) PROVE EncoderInv'
  BY <1>1, ResetStep
<1>2. ASSUME NEW t \in Tx, AddTransactionToWindow(t) \/ RefuseTransaction(t) PROVE EncoderInv'
  <2>1. CASE AddTransactionToWindow(t)
    BY <2>1, AddStep
  <2>2. CASE RefuseTransaction(t)
    BY <2>2, OtherStep DEF RefuseTransaction, encoderVars, EncoderInv, HistoryOK
  <2> QED BY <1>2, <2>1, <2>2
<1>3. ASSUME NEW d \in 1..(Len(window) + 1), ProduceCodeword(d) \/ ProduceByReservoir(d)
      PROVE  EncoderInv'
  <2>1. shuffleHistory = <<>> /\ Len(window) \in Nat
    BY <1>3 DEF ProduceCodeword, ProduceByReservoir, EncoderInv, HistoryOK
  <2>2. /\ UNCHANGED <<window, hashes, windowSize>>
        /\ shuffleHistory' = <<>> /\ phase' # "revert"
    BY <1>3, <2>1 DEF ProduceCodeword, ProduceByReservoir
  <2> QED BY <2>1, <2>2, OtherStep DEF HistoryOK
<1>4. ASSUME NEW r \in 1..Len(window), Sample(r) PROVE EncoderInv'
  BY <1>4, SampleStep
<1>5. ASSUME Revert PROVE EncoderInv'
  BY <1>5, RevertStep
<1>6. ASSUME ProduceEmpty \/ ReturnCodeword PROVE EncoderInv'
  <2>1. /\ UNCHANGED <<window, hashes, windowSize, shuffleHistory>>
        /\ phase' = "idle" /\ phase \notin {"sample", "revert"}
    BY <1>6 DEF ProduceEmpty, ReturnCodeword, encoderVars
  <2> QED BY <2>1, OtherStep DEF EncoderInv, HistoryOK
<1>7. CASE UNCHANGED <<encoderVars, package>>
  BY <1>7, OtherStep DEF encoderVars, EncoderInv, HistoryOK
<1> QED BY <1>1, <1>2, <1>3, <1>4, <1>5, <1>6, <1>7 DEF EncodersNext, EncoderNext, NextLdpc

(* An empty window, of any size.                                            *)
LEMMA EncodersInitInv == EncodersInit => EncoderInv
  BY WindowSizesAssumption
     DEF EncodersInit, EncoderInit, EncoderInv, HistoryOK, WindowHashed, HashesOf, InWindow

(* Whatever is added, evicted, shuffled and reset, the hashes by which      *)
(* AddTransactionToWindow refuses collisions are those of the window, no    *)
(* two entries of the window collide and it is not too long, in the         *)
(* encoders of both packages and in the middle of a shuffle.                *)
THEOREM WindowStaysHashed == EncodersSpec => []WindowHashed
<1>1. EncodersInit => EncoderInv
  BY EncodersInitInv
<1>2. EncoderInv /\ [EncodersNext]_<<encoderVars, package>> => EncoderInv'
  BY StepInv
<1>3. EncoderInv => WindowHashed
  BY DEF EncoderInv
<1> QED BY <1>1, <1>2, <1>3, PTL DEF EncodersSpec

-----------------------------------------------------------------------------
(* The order of the window.  While a codeword is produced the window is the *)
(* order shuffled by the swaps of the history: the ws are the windows that  *)
(* lead from one to the other.  The second loop undoes the last of them.    *)
Shuffles(ws, o, hist, w) ==
  /\ ws \in [0..Len(hist) -> Seq(Tx)]
  /\ ws[0] = o /\ ws[Len(hist)] = w
  /\ \A i \in 0..Len(hist) : Len(ws[i]) = Len(w)
  /\ \A i \in 1..Len(hist) : ws[i] = Swap(ws[i - 1], i, hist[i])

Shuffled(o, hist, w) == \E ws : Shuffles(ws, o, hist, w)

OrderInv == EncoderInv /\ Shuffled(order, shuffleHistory, window)

LEMMA SwapTwice ==
  ASSUME NEW w \in Seq(Tx), NEW i \in 1..Len(w), NEW j \in 1..Len(w)
  PROVE  Swap(Swap(w, i, j), i, j) = w
<1> DEFINE v == Swap(w, i, j)
           u == Swap(v, i, j)
<1>1. /\ v \in Seq(Tx) /\ Len(v) = Len(w)
      /\ \A k \in 1..Len(w) : v[k] = IF k = j THEN w[i] ELSE IF k = i THEN w[j] ELSE w[k]
  BY SwapType
<1> HIDE DEF v
<1>2. /\ u \in Seq(Tx) /\ Len(u) = Len(v)
      /\ \A k \in 1..Len(v) : u[k] = IF k = j THEN v[i] ELSE IF k = i THEN v[j] ELSE v[k]
  <2>1. i \in 1..Len(v) /\ j \in 1..Len(v)
    BY <1>1
  <2> QED BY <1>1, <2>1, SwapType
<1> HIDE DEF u
<1>3. \A k \in 1..Len(w) : u[k] = w[k]
  BY <1>1, <1>2
<1>4. u = w
  BY <1>1, <1>2, <1>3, SeqEqual
<1> QED BY <1>4 DEF u, v

LEMMA ShuffledEmpty ==
  ASSUME NEW w \in Seq(Tx), NEW o
  PROVE  Shuffled(o, <<>>, w) <=> o = w
<1>1. ASSUME NEW ws, Shuffles(ws, o, <<>>, w) PROVE o = w
  BY <1>1 DEF Shuffles
<1>2. ASSUME o = w PROVE Shuffles([i \in 0..0 |-> w], o, <<>>, w)
  BY <1>2 DEF Shuffles
<1> QED BY <1>1, <1>2 DEF Shuffled

LEMMA ShuffledMore ==
  ASSUME NEW o, NEW w \in Seq(Tx), NEW hist \in Seq(1..Len(w)), Shuffled(o, hist, w),
         Len(hist) < Len(w), NEW r \in 1..Len(w)
  PROVE  Shuffled(o, Append(hist, r), Swap(w, Len(hist) + 1, r))
<1> DEFINE n == Len(hist)
           v == Swap(w, n + 1, r)
           more == Append(hist, r)
<1>1. PICK ws : Shuffles(ws, o, hist, w)
  BY DEF Shuffled
<1>2. n \in Nat /\ n + 1 \in 1..Len(w)
  OBVIOUS
<1>3. v \in Seq(Tx) /\ Len(v) = Len(w)
  BY <1>2, SwapType
<1>4. /\ Len(more) = n + 1 /\ more[n + 1] = r
      /\ \A i \in 1..n : more[i] = hist[i]
  OBVIOUS
<1> DEFINE vs == [i \in 0..n + 1 |-> IF i = n + 1 THEN v ELSE ws[i]]
<1>5. /\ \A i \in 0..n : vs[i] = ws[i] /\ vs[i] \in Seq(Tx) /\ Len(vs[i]) = Len(w)
      /\ vs[n + 1] = v /\ DOMAIN vs = 0..n + 1
      /\ vs = [i \in DOMAIN vs |-> vs[i]]
      /\ ws[0] = o /\ ws[n] = w
      /\ \A i \in 1..n : ws[i] = Swap(ws[i - 1], i, hist[i])
  BY <1>1, <1>2 DEF Shuffles
<1> HIDE DEF vs, v, more, n
<1>6. \A i \in 0..n + 1 : vs[i] \in Seq(Tx) /\ Len(vs[i]) = Len(v)
  BY <1>2, <1>3, <1>5
<1>7. ASSUME NEW i \in 1..n + 1 PROVE vs[i] = Swap(vs[i - 1], i, more[i])
  <2>1. CASE i = n + 1
    <3>1. vs[i - 1] = w
      BY <2>1, <1>2, <1>5
    <3> QED BY <2>1, <3>1, <1>4, <1>5 DEF v, n
  <2>2. CASE i \in 1..n
    <3>1. i - 1 \in 0..n /\ i \in 0..n
      BY <2>2, <1>2
    <3> QED BY <2>2, <3>1, <1>4, <1>5
  <2> QED BY <2>1, <2>2, <1>2
<1>8. vs \in [0..n + 1 -> Seq(Tx)]
  BY <1>5, <1>6
<1>9. Shuffles(vs, o, more, v)
  BY <1>2, <1>4, <1>5, <1>6, <1>7, <1>8 DEF Shuffles
<1> QED BY <1>9 DEF Shuffled, v, more, n

LEMMA ShuffledLess ==
  ASSUME NEW o, NEW w \in Seq(Tx), NEW hist \in Seq(1..Len(w)), Shuffled(o, hist, w),
         hist # <<>>, Len(hist) <= Len(w), NEW less \in Seq(1..Len(w)),
         Len(less) = Len(hist) - 1, \A i \in 1..Len(less) : less[i] = hist[i]
  PROVE  Shuffled(o, less, Swap(w, Len(hist), hist[Len(hist)]))
<1> DEFINE n == Len(hist)
           v == Swap(w, n, hist[n])
<1>1. PICK ws : Shuffles(ws, o, hist, w)
  BY DEF Shuffled
<1>2. n \in Nat /\ n \in 1..Len(w) /\ hist[n] \in 1..Len(w) /\ n - 1 \in 0..n /\ Len(less) = n - 1
  OBVIOUS
<1>3. /\ ws[n - 1] \in Seq(Tx) /\ Len(ws[n - 1]) = Len(w)
      /\ w = Swap(ws[n - 1], n, hist[n])
  <2>1. ws \in [0..n -> Seq(Tx)] /\ Len(ws[n - 1]) = Len(w)
    BY <1>1, <1>2 DEF Shuffles
  <2>2. ws[n] = w /\ ws[n] = Swap(ws[n - 1], n, hist[n])
    <3>1. n \in 1..n
      BY <1>2
    <3> QED BY <1>1, <3>1 DEF Shuffles
  <2> QED BY <2>1, <2>2, <1>2
<1>4. v = ws[n - 1]
  BY <1>2, <1>3, SwapTwice
<1>5. /\ \A i \in 0..n - 1 : ws[i] \in Seq(Tx) /\ Len(ws[i]) = Len(w)
      /\ ws[0] = o
      /\ \A i \in 1..n - 1 : ws[i] = Swap(ws[i - 1], i, hist[i])
  <2>1. /\ ws \in [0..n -> Seq(Tx)] /\ ws[0] = o
        /\ \A i \in 0..n : Len(ws[i]) = Len(w)
        /\ \A i \in 1..n : ws[i] = Swap(ws[i - 1], i, hist[i])
    BY <1>1 DEF Shuffles
  <2>2. \A i \in 0..n - 1 : i \in 0..n
    BY <1>2
  <2>3. \A i \in 1..n - 1 : i \in 1..n
    BY <1>2
  <2> HIDE DEF n
  <2> QED BY <2>1, <2>2, <2>3
<1> HIDE DEF v, n
<1> DEFINE vs == [i \in 0..n - 1 |-> ws[i]]
<1>6. Shuffles(vs, o, less, v)
  <2>1. \A i \in 0..n - 1 : vs[i] = ws[i]
    OBVIOUS
  <2>2. vs \in [0..n - 1 -> Seq(Tx)]
    BY <1>5
  <2>3. 0 \in 0..n - 1 /\ n - 1 \in 0..n - 1
    BY <1>2
  <2> HIDE DEF vs
  <2>4. \A i \in 1..n - 1 : i - 1 \in 0..n - 1 /\ i \in 0..n - 1
    BY <1>2
  <2>5. \A i \in 1..n - 1 : vs[i] = Swap(vs[i - 1], i, less[i])
    BY <2>1, <2>4, <1>2, <1>5
  <2> QED BY <2>1, <2>2, <2>3, <2>5, <1>2, <1>3, <1>4, <1>5 DEF Shuffles
<1> QED BY <1>6 DEF Shuffled, v, n

LEMMA OrderStep ==
  ASSUME OrderInv, [EncodersNext]_<<encoderVars, package>>
  PROVE  OrderInv'
<1> DEFINE Goal == Shuffled(order, shuffleHistory, window)'
<1>0. EncoderInv' /\ window \in Seq(Tx) /\ window' \in Seq(Tx)
  BY StepInv DEF OrderInv, EncoderInv
<1>1. ASSUME NEW ws \in WindowSizes, Reset(ws) PROVE Goal
  <2>1. shuffleHistory' = <<>> /\ window' = <<>> /\ order' = <<>>
    BY <1>1 DEF Reset, OrderInv, EncoderInv, HistoryOK
  <2> QED BY <2>1, <1>0, ShuffledEmpty
<1>2. ASSUME NEW t \in Tx, AddTransactionToWindow(t) PROVE Goal
  <2>1. shuffleHistory = <<>> /\ shuffleHistory' = <<>>
    BY <1>2 DEF AddTransactionToWindow, OrderInv, EncoderInv, HistoryOK
  <2>2. order = window
    BY <2>1, <1>0, ShuffledEmpty DEF OrderInv
  <2>3. order' = window'
    BY <1>2, <2>2 DEF AddTransactionToWindow
  <2> QED BY <2>1, <2>3, <1>0, ShuffledEmpty
<1>3. ASSUME NEW d \in 1..(Len(window) + 1), ProduceCodeword(d) \/ ProduceByReservoir(d)
      PROVE  Goal
  <2>1. shuffleHistory = <<>> /\ shuffleHistory' = <<>> /\ UNCHANGED <<window, order>>
    BY <1>3 DEF ProduceCodeword, ProduceByReservoir, OrderInv, EncoderInv, HistoryOK
  <2> QED BY <2>1, <1>0 DEF OrderInv
<1>4. ASSUME NEW r \in 1..Len(window), Sample(r) PROVE Goal
  <2>1. /\ shuffleHistory \in Seq(1..Len(window)) /\ Len(shuffleHistory) < Len(window)
        /\ shuffleHistory' = Append(shuffleHistory, r)
        /\ window' = Swap(window, Len(shuffleHistory) + 1, r) /\ order' = order
    <3>1. /\ shuffleHistory' = Append(shuffleHistory, r) /\ order' = order
          /\ window' = Swap(window, Len(shuffleHistory) + 1, r)
          /\ r \in Len(shuffleHistory) + 1..Len(window)
      BY <1>4 DEF Sample
    <3>2. shuffleHistory \in Seq(1..Len(window)) /\ window \in Seq(Tx)
      BY DEF OrderInv, EncoderInv, HistoryOK
    <3> QED BY <3>1, <3>2
  <2> QED BY <2>1, <1>0, ShuffledMore DEF OrderInv
<1>5. ASSUME Revert PROVE Goal
  <2> DEFINE n == Len(shuffleHistory)
  <2>1. /\ shuffleHistory \in Seq(1..Len(window)) /\ shuffleHistory # <<>> /\ n <= Len(window)
        /\ shuffleHistory' = SubSeq(shuffleHistory, 1, n - 1)
        /\ window' = Swap(window, n, shuffleHistory[n]) /\ order' = order
    BY <1>5 DEF Revert, OrderInv, EncoderInv, HistoryOK
  <2>2. /\ SubSeq(shuffleHistory, 1, n - 1) \in Seq(1..Len(window))
        /\ Len(SubSeq(shuffleHistory, 1, n - 1)) = n - 1
        /\ \A i \in 1..n - 1 : SubSeq(shuffleHistory, 1, n - 1)[i] = shuffleHistory[i]
    <3>1. n \in 1..n /\ n = Len(shuffleHistory)
      BY <2>1
    <3> QED BY <2>1, <3>1, CutProperties
  <2> QED BY <2>1, <2>2, <1>0, ShuffledLess DEF OrderInv
<1>6. ASSUME UNCHANGED <<shuffleHistory, window, order>> PROVE Goal
  BY <1>6 DEF OrderInv
<1>7. Goal
  BY <1>1, <1>2, <1>3, <1>4, <1>5, <1>6
     DEF EncodersNext, EncoderNext, NextLdpc, RefuseTransaction, ProduceEmpty, ReturnCodeword, encoderVars
<1> QED BY <1>0, <1>7 DEF OrderInv

(* Between calls the window of an encoder is in the order in which its      *)
(* transactions were accepted, however many codewords were produced: the    *)
(* second loop of produceCodeword undoes all that the first one did.        *)
THEOREM OrderIsKept == EncodersSpec => []OrderKept
<1>1. EncodersInit => OrderInv
  <2> SUFFICES ASSUME EncodersInit PROVE OrderInv
    OBVIOUS
  <2>1. EncoderInv
    BY WindowSizesAssumption
       DEF EncodersInit, EncoderInit, EncoderInv, HistoryOK, WindowHashed, HashesOf, InWindow
  <2>2. shuffleHistory = <<>> /\ window = <<>> /\ order = <<>> /\ window \in Seq(Tx)
    BY DEF EncodersInit, EncoderInit
  <2> QED BY <2>1, <2>2, ShuffledEmpty DEF OrderInv
<1>2. OrderInv /\ [EncodersNext]_<<encoderVars, package>> => OrderInv'
  BY OrderStep
<1>3. OrderInv => OrderKept
  BY ShuffledEmpty DEF OrderInv, EncoderInv, HistoryOK, OrderKept
<1> QED BY <1>1, <1>2, <1>3, PTL DEF EncodersSpec

-----------------------------------------------------------------------------
(* The codewords.  First what FoldLeft computes by recursion over the sets  *)
(* of positions: the XOR of what is selected.                               *)
Folds(s, it) ==
  it = [u \in SUBSET (DOMAIN s) |->
          IF u = {} THEN Zero ELSE XOR(it[u \ {Max(u)}], s[Max(u)])]

LEMMA FoldsExists ==
  ASSUME NEW s \in Seq(Tx)
  PROVE  Folds(s, [u \in SUBSET (DOMAIN s) |-> XorAll(s, u)])
<1> DEFINE it == [u \in SUBSET (DOMAIN s) |-> XorAll(s, u)]
<1>1. DOMAIN s = 1..Len(s) /\ Len(s) \in Nat /\ IsFiniteSet(1..Len(s))
  BY FS_Interval
<1>2. ASSUME NEW u \in SUBSET (DOMAIN s)
      PROVE  it[u] = IF u = {} THEN Zero ELSE XOR(it[u \ {Max(u)}], s[Max(u)])
  <2>1. CASE u = {}
    BY <2>1, XorAllEmpty
  <2>2. CASE u # {}
    <3> DEFINE m == Max(u)
    <3>1. m \in u
      BY <1>1, <2>2, MaxProperties
    <3> HIDE DEF m
    <3>2. s[m] \in Data
      BY <3>1, <1>1, TxType
    <3>3. IsFiniteSet(u \ {m}) /\ m \notin u \ {m} /\ (u \ {m}) \cup {m} = u
      BY <1>1, <3>1, FS_Subset
    <3>4. XorAll(s, u) = XOR(XorAll(s, u \ {m}), s[m])
      BY <3>2, <3>3, XorAllAdd
    <3> QED BY <2>2, <3>4 DEF m
  <2> QED BY <2>1, <2>2
<1> HIDE DEF it
<1>3. it = [u \in SUBSET (DOMAIN s) |-> it[u]]
  BY DEF it
<1>4. Folds(s, it)
  BY <1>2, <1>3 DEF Folds
<1> QED BY <1>4 DEF it

LEMMA FoldsProperties ==
  ASSUME NEW s \in Seq(Tx), NEW it, Folds(s, it)
  PROVE  it[DOMAIN s] = XorAll(s, DOMAIN s)
<1>1. DOMAIN s = 1..Len(s) /\ Len(s) \in Nat /\ IsFiniteSet(DOMAIN s)
  <2>1. DOMAIN s = 1..Len(s)
    OBVIOUS
  <2> QED BY <2>1, FS_Interval
<1> DEFINE S == {k \in Nat : \A u \in SUBSET (DOMAIN s) : Cardinality(u) = k => it[u] = XorAll(s, u)}
<1>2. \A u \in SUBSET (DOMAIN s) : IsFiniteSet(u) /\ Cardinality(u) \in Nat
  BY <1>1, FS_Subset, FS_CardinalityType
<1>3. 0 \in S
  <2> SUFFICES ASSUME NEW u \in SUBSET (DOMAIN s), Cardinality(u) = 0 PROVE it[u] = XorAll(s, u)
    OBVIOUS
  <2>1. u = {}
    BY <1>2, FS_EmptySet
  <2> QED BY <2>1, XorAllEmpty DEF Folds
<1>4. ASSUME NEW k \in Nat, k \in S PROVE k + 1 \in S
  <2> SUFFICES ASSUME NEW u \in SUBSET (DOMAIN s), Cardinality(u) = k + 1 PROVE it[u] = XorAll(s, u)
    OBVIOUS
  <2> DEFINE m == Max(u)
  <2>1. u # {}
    BY FS_EmptySet
  <2>2. m \in u
    BY <1>1, <2>1, MaxProperties
  <2>3. it[u] = XOR(it[u \ {m}], s[m])
    BY <2>1 DEF Folds
  <2> HIDE DEF m
  <2>4. u \ {m} \in SUBSET (DOMAIN s) /\ Cardinality(u \ {m}) = k
    BY <2>2, <1>2, FS_RemoveElement
  <2>5. it[u \ {m}] = XorAll(s, u \ {m})
    BY <1>4, <2>4
  <2>6. s[m] \in Data /\ m \notin u \ {m} /\ (u \ {m}) \cup {m} = u
    BY <2>2, <1>1, TxType
  <2>7. XorAll(s, u) = XOR(XorAll(s, u \ {m}), s[m])
    BY <1>2, <2>4, <2>6, XorAllAdd
  <2> QED BY <2>3, <2>5, <2>7
<1>5. Nat \subseteq S
  <2> HIDE DEF S
  <2> QED BY <1>3, <1>4, SetInduction
<1>6. Cardinality(DOMAIN s) \in S
  <2> HIDE DEF S
  <2> QED BY <1>2, <1>5
<1> QED BY <1>6

LEMMA SymbolProperties ==
  ASSUME NEW s \in Seq(Tx)
  PROVE  Symbol(s) = XorAll(s, DOMAIN s)
<1> DEFINE it == CHOOSE f : Folds(s, f)
<1>1. Symbol(s) = it[DOMAIN s]
  BY DEF Symbol, FoldLeft, MapThenFoldSet, Folds
<1>2. Folds(s, it)
  BY FoldsExists
<1> HIDE DEF it
<1> QED BY <1>1, <1>2, FoldsProperties

(* What the reservoir can hold when the loop of ldpc is at index midx: what *)
(* it held at m, with one element replaced.                                 *)
Replaced(w, d, held, midx) == {[selected EXCEPT ![r] = w[midx + 1]] : selected \in held, r \in 1..d}

Drawn(w, d, at, midx) ==
  IF midx = d THEN {SubSeq(w, 1, d)}
  ELSE UNION {Replaced(w, d, at[m], midx) : m \in d..(midx - 1)}

Draws(w, d, k, at) == at = [midx \in d..k |-> Drawn(w, d, at, midx)]

LEMMA DrawnLocal ==
  ASSUME NEW w, NEW d \in Nat, NEW midx \in Nat, NEW f, NEW g, \A m \in d..midx - 1 : f[m] = g[m]
  PROVE  Drawn(w, d, f, midx) = Drawn(w, d, g, midx)
<1>1. UNION {Replaced(w, d, f[m], midx) : m \in d..(midx - 1)}
        = UNION {Replaced(w, d, g[m], midx) : m \in d..(midx - 1)}
  OBVIOUS
<1> QED BY <1>1 DEF Drawn

LEMMA DrawsExists ==
  ASSUME NEW w, NEW d \in Nat, NEW n \in Nat, d <= n
  PROVE  \E at : Draws(w, d, n, at)
<1> DEFINE S == {k \in Nat : \E at : Draws(w, d, d + k, at)}
<1>1. 0 \in S
  <2> DEFINE at == [midx \in d..d + 0 |-> {SubSeq(w, 1, d)}]
  <2>1. \A midx \in d..d + 0 : midx = d
    OBVIOUS
  <2>2. Draws(w, d, d + 0, at)
    BY <2>1 DEF Draws, Drawn
  <2> QED BY <2>2
<1>2. ASSUME NEW k \in Nat, k \in S PROVE k + 1 \in S
  <2>1. PICK f : Draws(w, d, d + k, f)
    BY <1>2
  <2> DEFINE g == [midx \in d..d + (k + 1) |-> IF midx \in d..d + k THEN f[midx]
                                             ELSE Drawn(w, d, f, midx)]
  <2>2. \A midx \in d..d + k : g[midx] = f[midx]
    OBVIOUS
  <2>3. ASSUME NEW midx \in d..d + (k + 1) PROVE g[midx] = Drawn(w, d, g, midx)
    <3>1. \A m \in d..midx - 1 : g[m] = f[m]
      BY <2>2
    <3>2. Drawn(w, d, g, midx) = Drawn(w, d, f, midx)
      <4> HIDE DEF g
      <4> QED BY <3>1, DrawnLocal
    <3>3. midx \in d..d + k => f[midx] = Drawn(w, d, f, midx)
      BY <2>1 DEF Draws
    <3> QED BY <3>2, <3>3
  <2>4. g = [midx \in d..d + (k + 1) |-> g[midx]]
    OBVIOUS
  <2> HIDE DEF g
  <2>5. Draws(w, d, d + (k + 1), g)
    BY <2>3, <2>4 DEF Draws
  <2> QED BY <2>5
<1>3. n - d \in S
  <2>1. n - d \in Nat
    OBVIOUS
  <2> HIDE DEF S
  <2> QED BY <1>1, <1>2, <2>1, SetInduction
<1>4. d + (n - d) = n
  OBVIOUS
<1> QED BY <1>3, <1>4

(* A selection of d different transactions of the first n of w.             *)
Selection(w, d, n, selected) ==
  /\ selected \in Seq(Tx) /\ Len(selected) = d
  /\ \A r \in 1..d : \E j \in 1..n : j \in 1..Len(w) /\ selected[r] = w[j]
  /\ \A r, q \in 1..d : selected[r] = selected[q] => r = q

Distinct(w) == \A i, j \in 1..Len(w) : w[i] = w[j] => i = j

LEMMA SelectionGrows ==
  ASSUME NEW w, NEW d, NEW n \in Nat, NEW m \in Nat, n <= m, NEW selected,
         Selection(w, d, n, selected)
  PROVE  Selection(w, d, m, selected)
<1>1. 1..n \subseteq 1..m
  OBVIOUS
<1> QED BY <1>1 DEF Selection

LEMMA SelectionReplaced ==
  ASSUME NEW w \in Seq(Tx), Distinct(w), NEW d \in Nat, NEW n \in Nat, n < Len(w), NEW selected,
         Selection(w, d, n, selected), NEW r \in 1..d
  PROVE  Selection(w, d, n + 1, [selected EXCEPT ![r] = w[n + 1]])
<1> DEFINE s == [selected EXCEPT ![r] = w[n + 1]]
<1>1. n + 1 \in 1..Len(w) /\ w[n + 1] \in Tx /\ n + 1 \in 1..n + 1
  OBVIOUS
<1>2. /\ s \in Seq(Tx) /\ Len(s) = d
      /\ \A q \in 1..d : s[q] = IF q = r THEN w[n + 1] ELSE selected[q]
  <2>1. selected \in Seq(Tx) /\ Len(selected) = d
    BY DEF Selection
  <2> QED BY <1>1, <2>1, ExceptSeq
<1>3. \A q \in 1..d : selected[q] # w[n + 1]
  <2> SUFFICES ASSUME NEW q \in 1..d, selected[q] = w[n + 1] PROVE FALSE
    OBVIOUS
  <2>1. PICK j \in 1..n : j \in 1..Len(w) /\ selected[q] = w[j]
    BY DEF Selection
  <2>2. j = n + 1
    BY <2>1, <1>1 DEF Distinct
  <2> QED BY <2>2
<1> HIDE DEF s
<1>4. ASSUME NEW q \in 1..d PROVE \E j \in 1..n + 1 : j \in 1..Len(w) /\ s[q] = w[j]
  <2>1. CASE q = r
    BY <2>1, <1>1, <1>2
  <2>2. CASE q # r
    <3>1. PICK j \in 1..n : j \in 1..Len(w) /\ selected[q] = w[j]
      BY DEF Selection
    <3>2. j \in 1..n + 1
      BY <3>1
    <3> QED BY <2>2, <3>1, <3>2, <1>2
  <2> QED BY <2>1, <2>2
<1>5. \A p, q \in 1..d : s[p] = s[q] => p = q
  BY <1>2, <1>3 DEF Selection
<1> QED BY <1>2, <1>4, <1>5 DEF Selection, s

LEMMA DrawsProperties ==
  ASSUME NEW w \in Seq(Tx), Distinct(w), NEW d \in 1..Len(w), NEW at, Draws(w, d, Len(w), at)
  PROVE  \A midx \in d..Len(w) - 1 : \A selected \in at[midx] : Selection(w, d, midx + 1, selected)
<1> DEFINE Good(m) == \A selected \in at[m] : Selection(w, d, m + 1, selected)
           S == {k \in Nat : \A m \in d..Len(w) - 1 : m <= d + k => Good(m)}
<1>0. d \in Nat /\ Len(w) \in Nat /\ \A m \in d..Len(w) : m \in Nat /\ at[m] = Drawn(w, d, at, m)
  BY DEF Draws
<1>1. \A selected \in at[d] : Selection(w, d, d, selected)
  <2>1. at[d] = {SubSeq(w, 1, d)}
    <3>1. d \in d..Len(w)
      BY <1>0
    <3>2. at[d] = Drawn(w, d, at, d)
      BY <1>0, <3>1
    <3> QED BY <3>2 DEF Drawn
  <2>2. Selection(w, d, d, SubSeq(w, 1, d))
    <3>1. /\ SubSeq(w, 1, d) \in Seq(Tx) /\ Len(SubSeq(w, 1, d)) = d
          /\ \A i \in 1..d : SubSeq(w, 1, d)[i] = w[i]
      <4>1. d \in Int /\ 1 \in Int /\ 1 <= d /\ \A i \in 1..d : w[i] \in Tx
        OBVIOUS
      <4>2. /\ SubSeq(w, 1, d) \in Seq(Tx)
            /\ Len(SubSeq(w, 1, d)) = IF 1 <= d THEN d - 1 + 1 ELSE 0
            /\ \A i \in 1..d - 1 + 1 : SubSeq(w, 1, d)[i] = w[1 + i - 1]
        BY <4>1, SubSeqProperties
      <4> QED BY <4>1, <4>2
    <3>2. \A i \in 1..d : i \in 1..Len(w)
      OBVIOUS
    <3> QED BY <3>1, <3>2 DEF Selection, Distinct
  <2> QED BY <2>1, <2>2
<1>2. Good(d)
  BY <1>0, <1>1, SelectionGrows
<1>3. 0 \in S
  BY <1>2, <1>0
<1>4. ASSUME NEW k \in Nat, k \in S PROVE k + 1 \in S
  <2> SUFFICES ASSUME NEW m \in d..Len(w) - 1, m = d + (k + 1), NEW selected \in at[m]
               PROVE  Selection(w, d, m + 1, selected)
    BY <1>4, <1>0
  <2>1. at[m] = Drawn(w, d, at, m) /\ m # d /\ m \in Nat /\ m < Len(w)
    BY <1>0
  <2>2. PICK l \in d..(m - 1) : \E before \in at[l], r \in 1..d :
               selected = [before EXCEPT ![r] = w[m + 1]]
    BY <2>1 DEF Drawn, Replaced
  <2>3. PICK before \in at[l], r \in 1..d : selected = [before EXCEPT ![r] = w[m + 1]]
    BY <2>2
  <2>4. Selection(w, d, l + 1, before)
    <3>1. l \in d..Len(w) - 1 /\ l <= d + k
      BY <2>1, <1>0
    <3> QED BY <3>1, <1>4
  <2>5. Selection(w, d, m, before)
    <3>1. l + 1 \in Nat /\ l + 1 <= m
      BY <1>0
    <3> QED BY <2>1, <2>4, <3>1, SelectionGrows
  <2> QED BY <2>1, <2>3, <2>5, <1>0, SelectionReplaced
<1>5. Nat \subseteq S
  <2> HIDE DEF S
  <2> QED BY <1>3, <1>4, SetInduction
<1> QED BY <1>0, <1>5

(* The reservoir ends with d different transactions of the window.          *)
LEMMA ReservoirProperties ==
  ASSUME NEW w \in Seq(Tx), Distinct(w), NEW d \in 1..Len(w), NEW selected \in Reservoir(w, d)
  PROVE  Selection(w, d, Len(w), selected)
<1> DEFINE at == CHOOSE f : Draws(w, d, Len(w), f)
<1>0. d \in Nat /\ Len(w) \in Nat /\ d <= Len(w)
  OBVIOUS
<1>1. Draws(w, d, Len(w), at)
  BY <1>0, DrawsExists
<1>2. Reservoir(w, d) = UNION {at[midx] : midx \in {m \in d..Len(w) : m = d \/ m < Len(w)}}
  BY DEF Reservoir, Draws, Drawn, Replaced
<1> HIDE DEF at
<1>3. PICK midx \in d..Len(w) : (midx = d \/ midx < Len(w)) /\ selected \in at[midx]
  BY <1>2
<1>4. CASE midx < Len(w)
  <2>1. Selection(w, d, midx + 1, selected)
    BY <1>0, <1>1, <1>3, <1>4, DrawsProperties
  <2> QED BY <2>1, <1>0, <1>3, <1>4, SelectionGrows
<1>5. CASE midx = d /\ ~(midx < Len(w))
  <2>1. selected = SubSeq(w, 1, d) /\ d = Len(w)
    BY <1>0, <1>1, <1>3, <1>5 DEF Draws, Drawn
  <2>2. selected = w
    BY <2>1, SubSeqFull
  <2> QED BY <2>1, <2>2 DEF Selection, Distinct
<1> QED BY <1>3, <1>4, <1>5

-----------------------------------------------------------------------------
(* While the first loop of lt runs, the codeword is that over the part of   *)
(* the window that was swapped to its front.                                *)
Foremost(w, n) == {w[i] : i \in 1..n}

Produced ==
  \E T \in SUBSET InWindow :
    Cardinality(T) = deg /\ T \in EncodableSets /\ codeword = CodewordOver(T)

CodewordInv ==
  /\ EncoderInv
  /\ phase \in {"idle", "sample", "revert", "produced"}
  /\ phase # "idle" => deg \in 1..Len(window)
  /\ phase = "sample" =>
       /\ Len(shuffleHistory) < deg
       /\ Cardinality(Foremost(window, Len(shuffleHistory))) = Len(shuffleHistory)
       /\ codeword = CodewordOver(Foremost(window, Len(shuffleHistory)))
  /\ phase \in {"revert", "produced"} => Produced

LEMMA FrontProperties ==
  ASSUME NEW w \in Seq(Tx), NEW n \in Nat, n <= Len(w)
  PROVE  /\ Foremost(w, n) \subseteq Foremost(w, Len(w)) /\ Foremost(w, n) \subseteq Tx
         /\ IsFiniteSet(Foremost(w, n))
<1>1. \A i \in 1..n : i \in 1..Len(w)
  OBVIOUS
<1>2. Foremost(w, n) \subseteq Foremost(w, Len(w)) /\ Foremost(w, n) \subseteq Tx
  BY <1>1 DEF Foremost
<1> QED BY <1>2, LtCodeAssumption, FS_Subset

LEMMA FrontSwap ==
  ASSUME NEW w \in Seq(Tx), Distinct(w), NEW n \in Nat, NEW r \in n + 1..Len(w)
  PROVE  /\ Foremost(Swap(w, n + 1, r), n + 1) = Foremost(w, n) \cup {w[r]}
         /\ w[r] \notin Foremost(w, n)
<1> DEFINE v == Swap(w, n + 1, r)
<1>1. n + 1 \in 1..Len(w) /\ r \in 1..Len(w) /\ \A k \in 1..n : k \in 1..Len(w) /\ k # n + 1 /\ k # r
  OBVIOUS
<1>2. \A k \in 1..Len(w) : v[k] = IF k = r THEN w[n + 1] ELSE IF k = n + 1 THEN w[r] ELSE w[k]
  BY <1>1, SwapType
<1> HIDE DEF v
<1>3. (\A k \in 1..n : v[k] = w[k]) /\ v[n + 1] = w[r]
  BY <1>1, <1>2
<1>4. w[r] \notin Foremost(w, n)
  BY <1>1 DEF Foremost, Distinct
<1>5. Foremost(v, n + 1) = Foremost(w, n) \cup {w[r]}
  <2>1. \A k \in 1..n + 1 : k \in 1..n \/ k = n + 1
    OBVIOUS
  <2>2. 1..n \subseteq 1..n + 1 /\ n + 1 \in 1..n + 1
    OBVIOUS
  <2> QED BY <2>1, <2>2, <1>3 DEF Foremost
<1> QED BY <1>4, <1>5 DEF v

(* Swapping two entries leaves the set of all as it is.                     *)
LEMMA FrontSame ==
  ASSUME NEW w \in Seq(Tx), NEW i \in 1..Len(w), NEW j \in 1..Len(w)
  PROVE  Foremost(Swap(w, i, j), Len(w)) = Foremost(w, Len(w))
<1> DEFINE v == Swap(w, i, j)
<1>1. \A k \in 1..Len(w) : v[k] = IF k = j THEN w[i] ELSE IF k = i THEN w[j] ELSE w[k]
  BY SwapType
<1> HIDE DEF v
<1>2. \A k \in 1..Len(w) : \E l \in 1..Len(w) : v[k] = w[l]
  BY <1>1
<1>3. \A k \in 1..Len(w) : \E l \in 1..Len(w) : w[k] = v[l]
  <2> TAKE k \in 1..Len(w)
  <2>1. CASE k = j
    BY <2>1, <1>1
  <2>2. CASE k = i
    BY <2>2, <1>1
  <2>3. CASE k # i /\ k # j
    BY <2>3, <1>1
  <2> QED BY <2>1, <2>2, <2>3
<1>4. Foremost(v, Len(w)) \subseteq Foremost(w, Len(w))
  BY <1>2 DEF Foremost
<1>5. ASSUME NEW x \in Foremost(w, Len(w)) PROVE x \in Foremost(v, Len(w))
  <2>1. PICK k \in 1..Len(w) : x = w[k]
    BY DEF Foremost
  <2>2. PICK l \in 1..Len(w) : w[k] = v[l]
    BY <1>3
  <2> QED BY <2>1, <2>2 DEF Foremost
<1> QED BY <1>4, <1>5 DEF v

(* What WindowHashed says of the sets of transactions that can be selected. *)
LEMMA WindowProperties ==
  ASSUME EncoderInv
  PROVE  /\ window \in Seq(Tx) /\ Distinct(window) /\ InWindow = Foremost(window, Len(window))
         /\ \A T \in SUBSET InWindow : T # {} => T \in EncodableSets
<1>1. window \in Seq(Tx) /\ Hashed(window, hashes)
  BY WindowHashedIsHashed DEF EncoderInv
<1>2. Distinct(window)
  BY <1>1 DEF Hashed, Distinct
<1>3. InWindow = Foremost(window, Len(window))
  BY DEF InWindow, Foremost
<1>4. ASSUME NEW T \in SUBSET InWindow, T # {} PROVE T \in EncodableSets
  <2>1. T \in SUBSET Tx
    BY <1>1, <1>4 DEF InWindow
  <2>2. CollisionFree(T)
    BY <1>1, <1>4 DEF InWindow, Hashed, CollisionFree
  <2> QED BY <1>4, <2>1, <2>2 DEF EncodableSets
<1> QED BY <1>1, <1>2, <1>3, <1>4

(* One transaction more.                                                    *)
LEMMA CodewordOverAdd ==
  ASSUME NEW T \in SUBSET Tx, IsFiniteSet(T), NEW t \in Tx, t \notin T
  PROVE  CodewordOver(T \cup {t}) = [symbol |-> XOR(CodewordOver(T).symbol, t),
                                     members |-> CodewordOver(T).members \cup {SaltedHash[t]}]
<1>1. t \in Data /\ Identity[t] = t
  BY TxType DEF Identity
<1>2. XorAll(Identity, T \cup {t}) = XOR(XorAll(Identity, T), t)
  BY <1>1, XorAllAdd
<1>3. HashesOf(T \cup {t}) = HashesOf(T) \cup {SaltedHash[t]}
  BY DEF HashesOf
<1> QED BY <1>2, <1>3 DEF CodewordOver

LEMMA CodewordOverEmpty == CodewordOver({}) = NoCodeword
BY XorAllEmpty DEF CodewordOver, NoCodeword, HashesOf

LEMMA SampleCodeword ==
  ASSUME CodewordInv, NEW r \in 1..Len(window), Sample(r), EncoderInv'
  PROVE  CodewordInv'
<1> DEFINE n == Len(shuffleHistory)
           T == Foremost(window, n)
           U == Foremost(window', n + 1)
<1>1. /\ phase = "sample" /\ r \in n + 1..Len(window) /\ window' = Swap(window, n + 1, r)
      /\ shuffleHistory' = Append(shuffleHistory, r) /\ deg' = deg
      /\ codeword' = [symbol |-> XOR(codeword.symbol, window[r]),
                      members |-> codeword.members \cup {SaltedHash[window[r]]}]
      /\ phase' = IF n + 1 = deg THEN "revert" ELSE "sample"
  BY DEF Sample
<1>2. window \in Seq(Tx) /\ Distinct(window) /\ window[r] \in Tx
  BY WindowProperties DEF CodewordInv
<1>3. /\ n \in Nat /\ n < deg /\ deg \in 1..Len(window) /\ Cardinality(T) = n /\ codeword = CodewordOver(T)
      /\ shuffleHistory \in Seq(1..Len(window))
  BY <1>1 DEF CodewordInv, EncoderInv, HistoryOK
<1>4. n <= Len(window) /\ n + 1 \in 1..Len(window) /\ n + 1 <= Len(window)
  BY <1>2, <1>3
<1>5. Len(window') = Len(window) /\ window' \in Seq(Tx)
  BY <1>1, <1>2, <1>4, SwapType
<1>6. Len(shuffleHistory') = n + 1
  BY <1>1, <1>3
<1> HIDE DEF n
<1>7. U = T \cup {window[r]} /\ window[r] \notin T
  BY <1>1, <1>2, <1>3, FrontSwap
<1>8. T \in SUBSET Tx /\ IsFiniteSet(T)
  BY <1>2, <1>3, <1>4, FrontProperties
<1>9. codeword' = CodewordOver(U)
  BY <1>1, <1>2, <1>3, <1>7, <1>8, CodewordOverAdd
<1>10. Cardinality(U) = n + 1
  BY <1>3, <1>7, <1>8, FS_AddElement
<1>11. U \in SUBSET InWindow' /\ U \in EncodableSets /\ U \in EncodableSets'
  <2>1. U \subseteq Foremost(window', Len(window')) /\ U # {}
    BY <1>3, <1>4, <1>5, <1>7, FrontProperties
  <2>2. InWindow' = Foremost(window', Len(window'))
    BY DEF InWindow, Foremost
  <2>3. InWindow = Foremost(window, Len(window)) /\ InWindow' = InWindow
    <3>1. InWindow = Foremost(window, Len(window))
      BY DEF InWindow, Foremost
    <3>2. r \in 1..Len(window) /\ Foremost(window', Len(window)) = Foremost(window, Len(window))
      BY <1>1, <1>2, <1>4, FrontSame
    <3> QED BY <3>1, <3>2, <2>2, <1>5
  <2>4. U \in EncodableSets
    BY <2>1, <2>2, <2>3, WindowProperties DEF CodewordInv
  <2> QED BY <2>1, <2>2, <2>4 DEF EncodableSets
<1> HIDE DEF U, T
<1>12. CASE n + 1 = deg
  <2>1. Produced'
    BY <1>1, <1>9, <1>10, <1>11, <1>12 DEF Produced
  <2> QED BY <2>1, <1>1, <1>3, <1>5, <1>12 DEF CodewordInv
<1>13. CASE n + 1 # deg
  <2>1. phase' = "sample" /\ n + 1 < deg
    BY <1>1, <1>3, <1>13
  <2>2. /\ Len(shuffleHistory') < deg' /\ Cardinality(Foremost(window', Len(shuffleHistory'))) = Len(shuffleHistory')
        /\ codeword' = CodewordOver(Foremost(window', Len(shuffleHistory')))
    BY <2>1, <1>1, <1>6, <1>9, <1>10 DEF U
  <2> QED BY <2>1, <2>2, <1>1, <1>3, <1>5 DEF CodewordInv
<1> QED BY <1>12, <1>13

LEMMA RevertCodeword ==
  ASSUME CodewordInv, Revert, EncoderInv'
  PROVE  CodewordInv'
<1> DEFINE n == Len(shuffleHistory)
<1>1. /\ phase = "revert" /\ window' = Swap(window, n, shuffleHistory[n])
      /\ n = 1 => phase' = "idle"
      /\ n # 1 => UNCHANGED <<phase, deg, codeword>>
  BY DEF Revert
<1>2. window \in Seq(Tx) /\ InWindow = Foremost(window, Len(window))
  BY WindowProperties DEF CodewordInv
<1>3. n \in 1..Len(window) /\ shuffleHistory[n] \in 1..Len(window)
  <2>1. shuffleHistory \in Seq(1..Len(window)) /\ n <= Len(window) /\ shuffleHistory # <<>>
    BY <1>1 DEF CodewordInv, EncoderInv, HistoryOK
  <2> QED BY <2>1
<1>4. Len(window') = Len(window) /\ Foremost(window', Len(window)) = Foremost(window, Len(window))
  BY <1>1, <1>2, <1>3, SwapType, FrontSame
<1>5. InWindow' = InWindow
  BY <1>4 DEF InWindow, Foremost
<1>6. CASE n = 1
  BY <1>1, <1>6 DEF CodewordInv
<1>7. CASE n # 1
  <2>1. Produced'
    BY <1>1, <1>5, <1>7 DEF CodewordInv, Produced, CodewordOver, EncodableSets, CollisionFree
  <2> QED BY <2>1, <1>1, <1>4, <1>7 DEF CodewordInv
<1> QED BY <1>6, <1>7

LEMMA ProduceCodewordStep ==
  ASSUME CodewordInv, NEW d \in 1..(Len(window) + 1), ProduceCodeword(d), EncoderInv'
  PROVE  CodewordInv'
<1>1. /\ deg' = (IF d > Len(window) THEN Len(window) ELSE d) /\ deg' > 0
      /\ codeword' = NoCodeword /\ shuffleHistory' = <<>> /\ phase' = "sample" /\ window' = window
  BY DEF ProduceCodeword
<1>2. Len(window) \in Nat
  BY DEF CodewordInv, EncoderInv
<1>3. deg' \in 1..Len(window')
  BY <1>1, <1>2
<1>4. Foremost(window', 0) = {} /\ Len(shuffleHistory') = 0
  BY <1>1 DEF Foremost
<1>5. Cardinality(Foremost(window', 0)) = 0 /\ codeword' = CodewordOver(Foremost(window', 0))
  BY <1>1, <1>4, FS_EmptySet, CodewordOverEmpty
<1> QED BY <1>1, <1>3, <1>4, <1>5 DEF CodewordInv

LEMMA ProduceByReservoirStep ==
  ASSUME CodewordInv, NEW d \in 1..(Len(window) + 1), ProduceByReservoir(d), EncoderInv'
  PROVE  CodewordInv'
<1>1. /\ deg' = (IF d > Len(window) THEN Len(window) ELSE d)
      /\ window # <<>> /\ phase' = "produced" /\ window' = window
  BY DEF ProduceByReservoir
<1>2. window \in Seq(Tx) /\ Distinct(window) /\ InWindow = Foremost(window, Len(window))
  BY WindowProperties DEF CodewordInv
<1>3. deg' \in 1..Len(window)
  BY <1>1, <1>2
<1>4. PICK s \in Reservoir(window, deg') :
         codeword' = [symbol |-> Symbol(s), members |-> HashesOf(ToSet(s))]
  BY DEF ProduceByReservoir
<1>5. Selection(window, deg', Len(window), s)
  BY <1>2, <1>3, <1>4, ReservoirProperties
<1> DEFINE T == {s[i] : i \in DOMAIN s}
<1>6. s \in Seq(Tx) /\ DOMAIN s = 1..deg' /\ IsFiniteSet(DOMAIN s) /\ Cardinality(DOMAIN s) = deg'
  <2>1. s \in Seq(Tx) /\ Len(s) = deg' /\ deg' \in Nat
    BY <1>3, <1>5 DEF Selection
  <2>2. DOMAIN s = 1..deg'
    BY <2>1
  <2> QED BY <2>1, <2>2, FS_Interval
<1>7. XorAll(s, DOMAIN s) = XorAll(Identity, T) /\ Cardinality(T) = deg'
  <2>1. \A i \in DOMAIN s : s[i] \in Data
    <3>1. \A i \in DOMAIN s : s[i] \in Tx
      <4>1. s \in Seq(Tx)
        BY <1>6
      <4> HIDE DEF T
      <4> QED BY <4>1
    <3> QED BY <3>1, TxType
  <2>2. \A i, j \in DOMAIN s : s[i] = s[j] => i = j
    BY <1>5, <1>6 DEF Selection
  <2>3. IsFiniteSet(DOMAIN s)
    BY <1>6
  <2>4. XorAll(s, DOMAIN s) = XorAll(Identity, T) /\ Cardinality(T) = Cardinality(DOMAIN s)
    BY <2>1, <2>2, <2>3, XorAllImage, Zenon
  <2> QED BY <2>4, <1>6
<1>8. T \in SUBSET InWindow /\ T # {}
  <2>1. T \in SUBSET InWindow
    BY <1>2, <1>5, <1>6 DEF Selection, Foremost
  <2>2. 1 \in DOMAIN s
    BY <1>3, <1>6
  <2> QED BY <2>1, <2>2
<1>9. T \in EncodableSets
  BY <1>8, WindowProperties DEF CodewordInv
<1>10. codeword' = CodewordOver(T)
  <2>1. ToSet(s) = T
    BY DEF ToSet
  <2> HIDE DEF T
  <2> QED BY <2>1, <1>4, <1>6, <1>7, SymbolProperties DEF CodewordOver
<1> HIDE DEF T
<1>11. Produced'
  <2>1. InWindow' = InWindow
    BY <1>1 DEF InWindow
  <2> QED BY <2>1, <1>7, <1>8, <1>9, <1>10 DEF Produced
<1> QED BY <1>1, <1>3, <1>11 DEF CodewordInv

LEMMA CodewordStep ==
  ASSUME CodewordInv, [EncodersNext]_<<encoderVars, package>>
  PROVE  CodewordInv'
<1>0. EncoderInv'
  BY StepInv DEF CodewordInv
<1>1. ASSUME \/ \E ws \in WindowSizes : Reset(ws)
             \/ \E t \in Tx : AddTransactionToWindow(t)
      PROVE  CodewordInv'
  <2>1. phase' = "idle"
    BY <1>1 DEF Reset, AddTransactionToWindow
  <2> QED BY <2>1, <1>0 DEF CodewordInv
<1>2. ASSUME ReturnCodeword PROVE CodewordInv'
  BY <1>0, <1>2 DEF CodewordInv, ReturnCodeword
<1>3. ASSUME UNCHANGED encoderVars PROVE CodewordInv'
  BY <1>0, <1>3 DEF encoderVars, CodewordInv, Produced, InWindow
<1>4. ASSUME NEW d \in 1..(Len(window) + 1), ProduceCodeword(d) PROVE CodewordInv'
  BY <1>0, <1>4, ProduceCodewordStep
<1>5. ASSUME NEW d \in 1..(Len(window) + 1), ProduceByReservoir(d) PROVE CodewordInv'
  BY <1>0, <1>5, ProduceByReservoirStep
<1>6. ASSUME NEW r \in 1..Len(window), Sample(r) PROVE CodewordInv'
  BY <1>0, <1>6, SampleCodeword
<1>7. ASSUME Revert PROVE CodewordInv'
  BY <1>0, <1>7, RevertCodeword
<1>8. CASE EncodersNext
  BY <1>8, <1>1, <1>2, <1>3, <1>4, <1>5, <1>6, <1>7
     DEF EncodersNext, EncoderNext, NextLdpc, RefuseTransaction, ProduceEmpty
<1>9. CASE UNCHANGED <<encoderVars, package>>
  BY <1>3, <1>9
<1> QED BY <1>8, <1>9

(* Every codeword that an encoder of either package returns is the XOR of   *)
(* as many different transactions of its window as its degree says, with    *)
(* exactly their salted hashes: it is one of those that LtDecoder is fed.   *)
THEOREM CodewordsWellFormed == EncodersSpec => []WellFormed
<1>1. EncodersInit => CodewordInv
  <2>1. EncodersInit => EncoderInv
    BY EncodersInitInv
  <2> QED BY <2>1 DEF EncodersInit, EncoderInit, CodewordInv
<1>2. CodewordInv /\ [EncodersNext]_<<encoderVars, package>> => CodewordInv'
  BY CodewordStep
<1>3. CodewordInv => WellFormed
  BY DEF CodewordInv, WellFormed, Produced
<1> QED BY <1>1, <1>2, <1>3, PTL DEF EncodersSpec
=============================================================================
