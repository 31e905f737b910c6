------------------------- MODULE LdpcDecoderProofs -------------------------
(***************************************************************************)
(* No object of the ldpc decoders is shared, recycled early, recycled      *)
(* twice or leaked, and none of their panics is reachable, for any number  *)
(* of decoders, objects and transactions, any memory and any interleaving. *)
(***************************************************************************)
EXTENDS LdpcDecoder, FiniteSetTheorems, TLAPS

(* A codeword lists a stub exactly if the stub blocks it, and only stubs    *)
(* that some decoder has.                                                   *)
Linked ==
  \A c \in Cw, s \in Stub :
    /\ s \in members[c] <=> c \in blocking[s]
    /\ s \in members[c] => \E d \in Dec : s \in Stubs(d)

(* A stub is filed under its own hash, which is not received.               *)
Filed ==
  \A d \in Dec : \A h \in Pending(d) : saltedHash[pending[d][h]] = h /\ h \notin received[d]

(* A codeword in a work list is to be decoded and can be.                   *)
Workable ==
  \A d \in Dec : \A c \in queue[d] :
    /\ c \in queued \ decoded
    /\ Cardinality(members[c]) <= 1

(* What is left of a codeword that is decoded, and of one never made.       *)
Spent == \A c \in Cw : IsFiniteSet(members[c]) /\ (c \in decoded \/ c \notin made => members[c] = {})

(* What is used was made, what the user holds was not freed.                *)
InUse ==
  \A d \in Dec :
    /\ Stubs(d) \cup queue[d] \subseteq made
    /\ held[d] \subseteq made \ freed

PooledOnce == \A o \in Cw \cup Stub : pool[o] \in {0, 1} /\ (o \notin made => pool[o] = 0)

IInv ==
  TypeOK /\ Linked /\ Filed /\ Workable /\ Spent /\ InUse /\ PooledOnce /\ Recycled /\ Disjoint

-----------------------------------------------------------------------------
(* The stub filed under a hash is found again by the hash that it carries.  *)
LEMMA StubFacts ==
  ASSUME IInv, NEW d \in Dec, NEW s \in Stubs(d)
  PROVE  /\ s \in Stub /\ saltedHash[s] \in Pending(d) /\ saltedHash[s] \in Hashes
         /\ pending[d][saltedHash[s]] = s /\ saltedHash[s] \notin received[d]
         /\ s \in made /\ pool[s] = 0
<1>1. PICK h \in Pending(d) : pending[d][h] = s
  BY DEF Stubs
<1>2. s \in Stub /\ saltedHash[s] = h /\ h \notin received[d] /\ h \in Hashes
  BY <1>1 DEF IInv, TypeOK, Filed, Pending
<1>3. s \in made /\ pool[s] = 0
  BY <1>2 DEF IInv, InUse, PooledOnce, Recycled
<1> QED BY <1>1, <1>2, <1>3

(* An object that sync.Pool may hand out is not used anywhere.              *)
LEMMA FreshCodeword ==
  ASSUME IInv, NEW c \in Available(Cw)
  PROVE  /\ c \in Cw /\ members[c] = {} /\ (c \in made <=> pool[c] = 1)
         /\ \A d \in Dec : c \notin queue[d] /\ c \notin held[d]
         /\ \A s \in Stub : c \notin blocking[s]
<1>1. c \in Cw /\ (c \notin made \/ pool[c] = 1) /\ (c \notin made => pool[c] = 0)
  BY DEF Available, IInv, PooledOnce
<1>2. c \notin made \/ (c \in decoded /\ c \in freed)
  BY <1>1 DEF IInv, Recycled
<1>3. members[c] = {}
  BY <1>1, <1>2 DEF IInv, Spent
<1>4. \A d \in Dec : c \notin queue[d] /\ c \notin held[d]
  BY <1>2 DEF IInv, InUse, Workable
<1>5. \A s \in Stub : c \notin blocking[s]
  BY <1>1, <1>3 DEF IInv, Linked
<1> QED BY <1>1, <1>3, <1>4, <1>5

LEMMA FreshStub ==
  ASSUME IInv, NEW s \in Available(Stub)
  PROVE  /\ s \in Stub /\ blocking[s] = {} /\ (s \in made <=> pool[s] = 1)
         /\ \A d \in Dec : s \notin Stubs(d)
         /\ \A c \in Cw : s \notin members[c]
<1>1. s \in Stub /\ (s \notin made \/ pool[s] = 1) /\ (s \notin made => pool[s] = 0)
  BY DEF Available, IInv, PooledOnce
<1>2. \A d \in Dec : s \notin Stubs(d)
  BY <1>1 DEF IInv, Recycled, InUse
<1>3. \A c \in Cw : s \notin members[c]
  BY <1>1, <1>2 DEF IInv, Linked
<1>4. blocking[s] = {}
  BY <1>1, <1>3 DEF IInv, Linked, TypeOK
<1> QED BY <1>1, <1>2, <1>3, <1>4

(* storeNewTransaction learns at most the hash it stores.                   *)
LEMMA StoreLemma ==
  ASSUME TypeOK, NEW d \in Dec, NEW h \in Hashes, Store(d, h)
  PROVE  /\ received' \in [Dec -> SUBSET Hashes]
         /\ recent' \in [Dec -> Seq(Hashes)] /\ \A e \in Dec : Len(recent'[e]) <= Memory
         /\ \A e \in Dec : received'[e] \subseteq received[e] \cup (IF e = d THEN {h} ELSE {})
<1> DEFINE all == Append(recent[d], h)
<1>1. recent[d] \in Seq(Hashes) /\ Len(recent[d]) \in Nat /\ Len(recent[d]) <= Memory
  BY DEF TypeOK
<1>2. all \in Seq(Hashes) /\ Len(all) = Len(recent[d]) + 1 /\ all # <<>>
  BY <1>1
<1>3. Tail(all) \in Seq(Hashes) /\ Len(Tail(all)) = Len(all) - 1
  BY <1>2
<1>4. CASE Len(all) > Memory
  <2>1. recent' = [recent EXCEPT ![d] = Tail(all)]
    BY <1>4 DEF Store
  <2>2. PICK forgotten : received' = [received EXCEPT ![d] = (received[d] \cup {h}) \ forgotten]
    BY <1>4 DEF Store
  <2>3. received' \in [Dec -> SUBSET Hashes]
        /\ \A e \in Dec : received'[e] \subseteq received[e] \cup (IF e = d THEN {h} ELSE {})
    BY <2>2 DEF TypeOK
  <2>4. Len(Tail(all)) <= Memory
    BY <1>1, <1>2, <1>3, LdpcAssumption
  <2>5. recent' \in [Dec -> Seq(Hashes)] /\ \A e \in Dec : Len(recent'[e]) <= Memory
    <3> HIDE DEF all
    <3> QED BY <2>1, <2>4, <1>3 DEF TypeOK
  <2> QED BY <2>3, <2>5
<1>5. CASE ~(Len(all) > Memory)
  <2>1. recent' = [recent EXCEPT ![d] = all] /\ received' = [received EXCEPT ![d] = received[d] \cup {h}]
    BY <1>5 DEF Store
  <2>2. Len(all) <= Memory
    BY <1>5, <1>2, LdpcAssumption
  <2> QED BY <2>1, <2>2, <1>1, <1>2 DEF TypeOK
<1> QED BY <1>4, <1>5

-----------------------------------------------------------------------------
LEMMA InitInv == Init => IInv
<1> SUFFICES ASSUME Init PROVE IInv
  OBVIOUS
<1>1. \A d \in Dec : Pending(d) = {} /\ Stubs(d) = {} /\ Reached(d) = {}
  BY DEF Init, Pending, Stubs, Reached
<1>2. TypeOK
  BY <1>1, LdpcAssumption DEF Init, TypeOK
<1>3. Linked /\ Filed /\ Workable /\ InUse /\ PooledOnce /\ Recycled /\ Disjoint
  BY <1>1 DEF Init, Linked, Filed, Workable, InUse, PooledOnce, Recycled, Disjoint
<1>4. Spent
  BY FS_EmptySet DEF Init, Spent
<1> QED BY <1>2, <1>3, <1>4 DEF IInv

-----------------------------------------------------------------------------
(* Stub s of decoder d is taken out of the codewords X that it blocks, and  *)
(* goes back to its pool when these are all; "done" are the codewords of    *)
(* the work list that this step decodes.  Every step of decodeCodewords     *)
(* that finds a stub does this, and so does AddTransaction.                 *)
Freed(s, X) == {k \in X : Cardinality(members[k] \ {s}) <= 1 /\ k \notin queued}

Unlinks(d, s, X, done) ==
  LET last == X = blocking[s] IN
  /\ members' = [k \in Cw |-> IF k \in X THEN members[k] \ {s} ELSE members[k]]
  /\ blocking' = [blocking EXCEPT ![s] = @ \ X]
  /\ queued' = queued \cup Freed(s, X)
  /\ queue' = [queue EXCEPT ![d] = (@ \ done) \cup Freed(s, X)]
  /\ decoded' = decoded \cup done
  /\ pending' = IF last
                THEN [pending EXCEPT ![d] = [h \in Pending(d) \ {saltedHash[s]} |-> pending[d][h]]]
                ELSE pending
  /\ pool' = PoolAfter({}, (IF last THEN {s} ELSE {}) \cup (done \cap freed))
  /\ UNCHANGED <<made, freed, saltedHash, held>>

(* What one call or iteration may learn: hash h at decoder d.               *)
Learns(d, h) ==
  /\ received' \in [Dec -> SUBSET Hashes]
  /\ recent' \in [Dec -> Seq(Hashes)] /\ \A e \in Dec : Len(recent'[e]) <= Memory
  /\ \A e \in Dec : received'[e] \subseteq received[e] \cup (IF e = d THEN {h} ELSE {})

LEMMA UnlinksKeepsInv ==
  ASSUME IInv, NEW d \in Dec, NEW s \in Stubs(d),
         NEW X \in SUBSET blocking[s], NEW done \in SUBSET queue[d],
         Unlinks(d, s, X, done), \A k \in done : members'[k] = {},
         Learns(d, saltedHash[s]), X = blocking[s] \/ UNCHANGED received
  PROVE  IInv'
<1> DEFINE last == X = blocking[s]
           new == Freed(s, X)
<1>s. /\ s \in Stub /\ saltedHash[s] \in Pending(d) /\ saltedHash[s] \in Hashes
      /\ pending[d][saltedHash[s]] = s /\ saltedHash[s] \notin received[d]
      /\ s \in made /\ pool[s] = 0
  BY StubFacts
<1>x. X \subseteq Cw /\ done \subseteq Cw /\ \A k \in X : k \in blocking[s] /\ s \in members[k]
  BY <1>s DEF IInv, TypeOK, Linked
<1>1. \A k \in Cw : members'[k] = IF k \in X THEN members[k] \ {s} ELSE members[k]
  BY DEF Unlinks
<1>2. \A t \in Stub : blocking'[t] = IF t = s THEN blocking[t] \ X ELSE blocking[t]
  BY <1>s DEF IInv, TypeOK, Unlinks
<1>3. \A e \in Dec : queue'[e] = IF e = d THEN (queue[d] \ done) \cup new ELSE queue[e]
  BY DEF IInv, TypeOK, Unlinks
<1>4. \A e \in Dec : /\ Pending(e)' = IF e = d /\ last THEN Pending(e) \ {saltedHash[s]} ELSE Pending(e)
                     /\ \A h \in Pending(e)' : pending'[e][h] = pending[e][h]
                     /\ pending'[e] \in [Pending(e)' -> Stub]
  <2> TAKE e \in Dec
  <2>1. CASE e = d /\ last
    <3>1. pending'[e] = [h \in Pending(d) \ {saltedHash[s]} |-> pending[d][h]]
      <4>1. DOMAIN pending = Dec
        BY DEF IInv, TypeOK
      <4> QED BY <2>1, <4>1 DEF Unlinks
    <3> QED BY <3>1, <2>1 DEF Pending, IInv, TypeOK
  <2>2. CASE ~(e = d /\ last)
    <3>1. pending'[e] = pending[e]
      BY <2>2 DEF IInv, TypeOK, Unlinks
    <3> QED BY <3>1, <2>2 DEF Pending, IInv, TypeOK
  <2> QED BY <2>1, <2>2
<1>5. \A e \in Dec : Stubs(e)' = IF e = d /\ last THEN Stubs(e) \ {s} ELSE Stubs(e)
  <2> TAKE e \in Dec
  <2>1. CASE e = d /\ last
    <3>1. \A h \in Pending(d) : pending[d][h] = s <=> h = saltedHash[s]
      BY <1>s DEF IInv, Filed
    <3> QED BY <3>1, <2>1, <1>4 DEF Stubs
  <2>2. CASE ~(e = d /\ last)
    BY <2>2, <1>4 DEF Stubs
  <2> QED BY <2>1, <2>2
<1>6. /\ \A c \in Cw : pool'[c] = pool[c] + (IF c \in done /\ c \in freed THEN 1 ELSE 0)
      /\ \A t \in Stub : pool'[t] = pool[t] + (IF t = s /\ last THEN 1 ELSE 0)
  <2>1. \A o \in Cw \cup Stub : pool[o] \in Nat
    BY DEF IInv, TypeOK
  <2>2. pool' = PoolAfter({}, (IF last THEN {s} ELSE {}) \cup (done \cap freed))
    BY DEF Unlinks
  <2>3. \A o \in Cw \cup Stub : pool'[o] = pool[o] + (IF o \in (IF last THEN {s} ELSE {}) \cup (done \cap freed) THEN 1 ELSE 0)
    BY <2>1, <2>2 DEF PoolAfter
  <2> QED BY <2>3, <1>x, <1>s, LdpcAssumption
<1>7. new \subseteq X /\ new \subseteq Cw
  BY <1>x DEF Freed
<1>8. TypeOK'
  <2>1. /\ members' \in [Cw -> SUBSET Stub] /\ queued' \subseteq Cw /\ decoded' \subseteq Cw
        /\ made' \subseteq Cw \cup Stub /\ freed' \subseteq Cw /\ saltedHash' \in [Stub -> Hashes]
        /\ held' \in [Dec -> SUBSET Cw]
    BY <1>x, <1>7, <1>1 DEF IInv, TypeOK, Unlinks
  <2>2. blocking' \in [Stub -> SUBSET Cw] /\ queue' \in [Dec -> SUBSET Cw]
    BY <1>7, <1>s DEF IInv, TypeOK, Unlinks
  <2>3. pool' \in [Cw \cup Stub -> Nat]
    BY DEF IInv, TypeOK, PoolAfter, Unlinks
  <2>4. \A e \in Dec : Pending(e)' \subseteq Hashes /\ pending'[e] \in [Pending(e)' -> Stub]
    BY <1>4 DEF IInv, TypeOK
  <2>5. DOMAIN pending' = Dec
    BY DEF IInv, TypeOK, Unlinks
  <2> QED BY <2>1, <2>2, <2>3, <2>4, <2>5 DEF TypeOK, Learns
<1>9. Linked'
  <2> SUFFICES ASSUME NEW c \in Cw, NEW t \in Stub
               PROVE  /\ t \in members'[c] <=> c \in blocking'[t]
                      /\ t \in members'[c] => \E e \in Dec : t \in Stubs(e)'
    BY DEF Linked
  <2>1. t \in members[c] <=> c \in blocking[t]
    BY DEF IInv, Linked
  <2>2. t \in members'[c] <=> c \in blocking'[t]
    BY <2>1, <1>1, <1>2, <1>x
  <2>3. ASSUME t \in members'[c] PROVE \E e \in Dec : t \in Stubs(e)'
    <3>1. PICK e \in Dec : t \in Stubs(e)
      BY <2>3, <1>1 DEF IInv, Linked
    <3>2. ~(t = s /\ last)
      BY <2>3, <2>1, <1>1
    <3> QED BY <3>1, <3>2, <1>5
  <2> QED BY <2>2, <2>3
<1>10. Filed'
  <2> SUFFICES ASSUME NEW e \in Dec, NEW h \in Pending(e)'
               PROVE  saltedHash'[pending'[e][h]] = h /\ h \notin received'[e]
    BY DEF Filed
  <2>1. /\ saltedHash[pending[e][h]] = h /\ h \notin received[e] /\ pending'[e][h] = pending[e][h]
        /\ e = d /\ last => h # saltedHash[s]
    BY <1>4 DEF Filed, IInv
  <2>2. h \notin received'[e]
    BY <2>1 DEF Learns
  <2> QED BY <2>1, <2>2 DEF Unlinks
<1>11. \A k \in X : k \notin decoded /\ k \in made
  BY <1>x DEF IInv, Spent
<1>12. Workable'
  <2> SUFFICES ASSUME NEW e \in Dec, NEW c \in queue'[e]
               PROVE  c \in queued' /\ c \notin decoded' /\ Cardinality(members'[c]) <= 1
    BY DEF Workable
  <2>1. CASE c \in new
    <3>1. c \in queued' /\ Cardinality(members'[c]) <= 1
      BY <2>1, <1>1, <1>7 DEF Unlinks, Freed
    <3>2. c \notin queue[d]
      BY <2>1 DEF IInv, Workable, Freed
    <3> QED BY <3>1, <3>2, <2>1, <1>7, <1>11 DEF Unlinks
  <2>2. CASE c \notin new
    <3>1. c \in queue[e] /\ (e = d => c \notin done) /\ c \in Cw
      BY <2>2, <1>3 DEF IInv, TypeOK
    <3>2. c \in queued /\ c \notin decoded /\ Cardinality(members[c]) <= 1
      BY <3>1 DEF IInv, Workable
    <3>3. c \notin done
      BY <3>1 DEF IInv, Disjoint, Reached
    <3>4. Cardinality(members'[c]) <= 1
      <4>1. CASE c \in X
        <5>1. IsFiniteSet(members[c]) /\ s \in members[c]
          BY <4>1, <3>1, <1>x DEF IInv, Spent
        <5>2. IsFiniteSet(members[c] \ {s}) /\ Cardinality(members[c] \ {s}) = Cardinality(members[c]) - 1
          BY <5>1, FS_RemoveElement
        <5>3. Cardinality(members[c]) \in Nat
          BY <5>1, FS_CardinalityType
        <5>4. members'[c] = members[c] \ {s}
          BY <4>1, <3>1, <1>1
        <5> QED BY <5>2, <5>3, <5>4, <3>2
      <4>2. CASE c \notin X
        BY <4>2, <3>1, <3>2, <1>1
      <4> QED BY <4>1, <4>2
    <3> QED BY <3>2, <3>3, <3>4 DEF Unlinks
  <2> QED BY <2>1, <2>2
<1>13. Spent'
  <2> SUFFICES ASSUME NEW c \in Cw
               PROVE  IsFiniteSet(members'[c]) /\ (c \in decoded' \/ c \notin made' => members'[c] = {})
    BY DEF Spent
  <2>1. IsFiniteSet(members[c]) /\ (c \in decoded \/ c \notin made => members[c] = {})
    BY DEF IInv, Spent
  <2>2. IsFiniteSet(members'[c])
    BY <2>1, <1>1, FS_RemoveElement, FS_Subset
  <2> QED BY <2>1, <2>2, <1>1 DEF Unlinks
<1>14. InUse'
  BY <1>3, <1>5, <1>7, <1>11 DEF IInv, InUse, Unlinks
<1>15. \A c \in done : c \in made /\ c \notin decoded /\ (c \in freed => pool[c] = 0)
  BY <1>x DEF IInv, InUse, Workable, Recycled, PooledOnce
<1>16. PooledOnce'
  <2>1. \A o \in Cw \cup Stub : pool[o] \in {0, 1} /\ (o \notin made => pool[o] = 0)
    BY DEF IInv, PooledOnce
  <2>2. \A c \in Cw : pool'[c] \in {0, 1} /\ (c \notin made => pool'[c] = 0)
    BY <2>1, <1>6, <1>15
  <2>3. \A t \in Stub : pool'[t] \in {0, 1} /\ (t \notin made => pool'[t] = 0)
    BY <2>1, <1>6, <1>s
  <2> QED BY <2>2, <2>3 DEF PooledOnce, Unlinks
<1>17. Recycled'
  <2>1. ASSUME NEW c \in Cw, c \in made PROVE pool'[c] = 1 <=> c \in decoded' /\ c \in freed'
    <3>1. pool[c] = 1 <=> c \in decoded /\ c \in freed
      BY <2>1 DEF IInv, Recycled
    <3>2. pool[c] \in {0, 1}
      BY DEF IInv, PooledOnce
    <3>3. (c \in decoded' <=> c \in decoded \/ c \in done) /\ freed' = freed
      BY DEF Unlinks
    <3>4. CASE c \in done
      BY <3>1, <3>2, <3>3, <3>4, <1>6, <1>15
    <3>5. CASE c \notin done
      BY <3>1, <3>2, <3>3, <3>5, <1>6
    <3> QED BY <3>4, <3>5
  <2>2. ASSUME NEW t \in Stub, t \in made PROVE pool'[t] = 1 <=> \A e \in Dec : t \notin Stubs(e)'
    <3>1. pool[t] = 1 <=> \A e \in Dec : t \notin Stubs(e)
      BY <2>2 DEF IInv, Recycled
    <3>2. CASE t = s /\ last
      <4>1. \A e \in Dec : t \notin Stubs(e)'
        BY <3>2, <1>5 DEF IInv, Disjoint
      <4> QED BY <4>1, <3>2, <1>6, <1>s
    <3>3. CASE ~(t = s /\ last)
      <4>1. \A e \in Dec : t \in Stubs(e)' <=> t \in Stubs(e)
        BY <3>3, <1>5
      <4>2. pool'[t] = pool[t]
        <5>1. pool[t] \in Nat
          BY DEF IInv, TypeOK
        <5> QED BY <5>1, <3>3, <1>6
      <4> QED BY <4>1, <4>2, <3>1
    <3> QED BY <3>2, <3>3
  <2> QED BY <2>1, <2>2 DEF Recycled, Unlinks
<1>18. \A e \in Dec : Stubs(e)' \subseteq Stubs(e) /\ Reached(e)' \subseteq Reached(e)
  <2> TAKE e \in Dec
  <2>1. Stubs(e)' \subseteq Stubs(e)
    BY <1>5
  <2>2. Stubs(e) \subseteq Stub
    BY StubFacts
  <2>3. \A t \in Stubs(e)' : t \in Stubs(e) /\ blocking'[t] \subseteq blocking[t]
    BY <2>1, <2>2, <1>2
  <2>4. queue'[e] \subseteq Reached(e)
    BY <1>3, <1>7 DEF Reached
  <2>5. UNION {blocking'[t] : t \in Stubs(e)'} \subseteq UNION {blocking[t] : t \in Stubs(e)}
    BY <2>3
  <2>6. Reached(e)' = queue'[e] \cup UNION {blocking'[t] : t \in Stubs(e)'}
    BY DEF Reached
  <2> QED BY <2>1, <2>4, <2>5, <2>6 DEF Reached
<1>19. Disjoint'
  BY <1>18 DEF IInv, Disjoint, Unlinks
<1> QED BY <1>8, <1>9, <1>10, <1>12, <1>13, <1>14, <1>16, <1>17, <1>19 DEF IInv

-----------------------------------------------------------------------------
(* peelTransaction and markDecoded are Unlinks for all codewords of a stub. *)
LEMMA PeelUnlinks ==
  ASSUME IInv, NEW d \in Dec, NEW s \in Stubs(d), NEW done \in SUBSET Cw,
         Peel(d, s), queue' = [queue EXCEPT ![d] = (@ \ done) \cup Released(s)],
         decoded' = decoded \cup done, pool' = PoolAfter({}, {s} \cup (done \cap freed)),
         UNCHANGED <<made, freed, saltedHash, held>>
  PROVE  /\ Unlinks(d, s, blocking[s], done)
         /\ \A c \in Cw : members'[c] = members[c] \ {s}
<1>1. s \in Stub
  BY StubFacts
<1>2. Released(s) = Freed(s, blocking[s])
  BY <1>1 DEF Released, Peeled, Freed, IInv, TypeOK
<1>3. \A c \in Cw : Peeled(s)[c] = members[c] \ {s}
  BY <1>1 DEF Peeled, IInv, Linked
<1>4. [blocking EXCEPT ![s] = {}] = [blocking EXCEPT ![s] = @ \ blocking[s]]
  OBVIOUS
<1>5. members' = [k \in Cw |-> IF k \in blocking[s] THEN members[k] \ {s} ELSE members[k]]
  BY DEF Peel, Peeled
<1> QED BY <1>2, <1>3, <1>4, <1>5 DEF Peel, Unlinks

(* What is left of a codeword in a work list is a stub of that decoder.     *)
LEMMA OwnStub ==
  ASSUME IInv, NEW d \in Dec, NEW c \in queue[d], NEW s \in Stub, s \in members[c]
  PROVE  c \in Cw /\ c \in blocking[s] /\ s \in Stubs(d)
<1>1. c \in Cw
  BY DEF IInv, TypeOK
<1>2. c \in blocking[s] /\ \E e \in Dec : s \in Stubs(e)
  BY <1>1 DEF IInv, Linked
<1>3. PICK e \in Dec : s \in Stubs(e)
  BY <1>2
<1>4. c \in Reached(e) /\ c \in Reached(d)
  BY <1>2, <1>3 DEF Reached
<1>5. e = d
  BY <1>4 DEF IInv, Disjoint
<1> QED BY <1>1, <1>2, <1>3, <1>5

(* A transaction that is pending is stored and released to its codewords.   *)
LEMMA DecodeTransactionKeepsInv ==
  ASSUME IInv, NEW d \in Dec, NEW c \in queue[d], DecodeTransaction(d, c),
         UNCHANGED <<made, freed, saltedHash, held>>
  PROVE  IInv'
<1>1. PICK s \in Stub : /\ members[c] = {s} /\ Store(d, saltedHash[s]) /\ Peel(d, s)
                        /\ queue' = [queue EXCEPT ![d] = (@ \ {c}) \cup Released(s)]
                        /\ Return(c, {s})
  BY DEF DecodeTransaction
<1>2. c \in Cw /\ s \in Stubs(d) /\ saltedHash[s] \in Hashes
  BY <1>1, OwnStub, StubFacts
<1>3. {s} \cup (IF c \in freed THEN {c} ELSE {}) = {s} \cup ({c} \cap freed)
  OBVIOUS
<1>4. Unlinks(d, s, blocking[s], {c}) /\ \A k \in Cw : members'[k] = members[k] \ {s}
  <2>1. decoded' = decoded \cup {c} /\ pool' = PoolAfter({}, {s} \cup ({c} \cap freed))
    BY <1>1, <1>3 DEF Return
  <2>2. {c} \in SUBSET Cw
    BY <1>2
  <2> QED BY <2>1, <2>2, <1>1, <1>2, PeelUnlinks
<1>5. Learns(d, saltedHash[s])
  BY <1>1, <1>2, StoreLemma DEF Learns, IInv
<1>6. \A k \in {c} : members'[k] = {}
  BY <1>1, <1>2, <1>4
<1> QED BY <1>2, <1>4, <1>5, <1>6, UnlinksKeepsInv

(* A codeword whose last stub has the wrong hash lets go of that stub.      *)
LEMMA DecodeMismatchKeepsInv ==
  ASSUME IInv, NEW d \in Dec, NEW c \in queue[d], DecodeMismatch(d, c),
         UNCHANGED <<made, freed, saltedHash, held>>
  PROVE  IInv'
<1>1. PICK s \in Stub :
         /\ members[c] = {s}
         /\ members' = [members EXCEPT ![c] = {}]
         /\ blocking' = [blocking EXCEPT ![s] = @ \ {c}]
         /\ pending' = IF blocking[s] = {c}
                       THEN [pending EXCEPT ![d] = [h \in Pending(d) \ {saltedHash[s]} |-> pending[d][h]]]
                       ELSE pending
         /\ queue' = [queue EXCEPT ![d] = @ \ {c}]
         /\ Return(c, IF blocking[s] = {c} THEN {s} ELSE {})
         /\ UNCHANGED <<queued, received, recent>>
  BY DEF DecodeMismatch
<1>2. c \in Cw /\ c \in blocking[s] /\ s \in Stubs(d)
  BY <1>1, OwnStub
<1>3. Freed(s, {c}) = {} /\ c \in queued
  BY DEF Freed, IInv, Workable
<1>4. Unlinks(d, s, {c}, {c})
  <2>1. members' = [k \in Cw |-> IF k \in {c} THEN members[k] \ {s} ELSE members[k]]
    BY <1>1 DEF IInv, TypeOK
  <2>2. queued' = queued \cup Freed(s, {c}) /\ decoded' = decoded \cup {c}
    BY <1>1, <1>3 DEF Return
  <2>3. queue' = [queue EXCEPT ![d] = (@ \ {c}) \cup Freed(s, {c})]
    BY <1>1, <1>3
  <2>4. (IF c \in freed THEN {c} ELSE {}) = {c} \cap freed
    OBVIOUS
  <2>5. pool' = PoolAfter({}, (IF {c} = blocking[s] THEN {s} ELSE {}) \cup ({c} \cap freed))
    BY <1>1, <2>4 DEF Return
  <2> QED BY <1>1, <2>1, <2>2, <2>3, <2>5 DEF Unlinks
<1>5. Learns(d, saltedHash[s])
  BY <1>1 DEF Learns, IInv, TypeOK
<1>6. \A k \in {c} : members'[k] = {}
  BY <1>1, <1>2 DEF IInv, TypeOK
<1> QED BY <1>1, <1>2, <1>4, <1>5, <1>6, UnlinksKeepsInv

(* A codeword with nothing left in it is just marked as decoded.            *)
LEMMA DecodeEmptyKeepsInv ==
  ASSUME IInv, NEW d \in Dec, NEW c \in queue[d], DecodeEmpty(d, c),
         UNCHANGED <<made, freed, saltedHash, held>>
  PROVE  IInv'
<1>1. /\ members[c] = {} /\ queue' = [queue EXCEPT ![d] = @ \ {c}]
      /\ decoded' = decoded \cup {c} /\ pool' = PoolAfter({}, IF c \in freed THEN {c} ELSE {})
      /\ UNCHANGED <<members, queued, blocking, pending, received, recent, made, freed, saltedHash, held>>
  BY DEF DecodeEmpty, Return
<1>2. c \in Cw /\ c \notin Stub /\ c \in made /\ c \notin decoded /\ (c \in freed => pool[c] = 0)
  BY LdpcAssumption DEF IInv, TypeOK, InUse, Workable, Recycled, PooledOnce
<1>3. \A o \in Cw \cup Stub : pool'[o] = pool[o] + (IF o = c /\ c \in freed THEN 1 ELSE 0)
  BY <1>1 DEF PoolAfter, IInv, TypeOK
<1>4. \A e \in Dec : queue'[e] = IF e = d THEN queue[d] \ {c} ELSE queue[e]
  BY <1>1 DEF IInv, TypeOK
<1>5. \A e \in Dec : Pending(e)' = Pending(e) /\ Stubs(e)' = Stubs(e)
  BY <1>1 DEF Pending, Stubs
<1>6. TypeOK'
  BY <1>1, <1>2, <1>5 DEF IInv, TypeOK, PoolAfter
<1>7. Linked' /\ Filed' /\ Spent'
  BY <1>1, <1>5 DEF IInv, Linked, Filed, Spent
<1>8. Workable'
  <2> SUFFICES ASSUME NEW e \in Dec, NEW k \in queue'[e]
               PROVE  k \in queued' /\ k \notin decoded' /\ Cardinality(members'[k]) <= 1
    BY DEF Workable
  <2>1. k \in queue[e] /\ k # c
    BY <1>4 DEF IInv, Disjoint, Reached
  <2> QED BY <2>1, <1>1 DEF IInv, Workable
<1>9. InUse'
  BY <1>1, <1>4, <1>5 DEF IInv, InUse
<1>10. PooledOnce'
  BY <1>1, <1>2, <1>3 DEF IInv, PooledOnce
<1>11. Recycled'
  <2>1. ASSUME NEW k \in Cw, k \in made PROVE pool'[k] = 1 <=> k \in decoded' /\ k \in freed'
    <3>1. (pool[k] = 1 <=> k \in decoded /\ k \in freed) /\ pool[k] \in {0, 1}
      BY <2>1 DEF IInv, Recycled, PooledOnce
    <3>2. pool'[k] = pool[k] + (IF k = c /\ c \in freed THEN 1 ELSE 0)
      BY <1>3
    <3> QED BY <3>1, <3>2, <1>1, <1>2
  <2>2. ASSUME NEW s \in Stub, s \in made PROVE pool'[s] = 1 <=> \A e \in Dec : s \notin Stubs(e)'
    <3>1. pool'[s] = pool[s] /\ (pool[s] = 1 <=> \A e \in Dec : s \notin Stubs(e))
      BY <2>2, <1>2, <1>3 DEF IInv, Recycled, TypeOK
    <3> QED BY <3>1, <1>5
  <2> QED BY <2>1, <2>2, <1>1 DEF Recycled
<1>12. \A e \in Dec : Reached(e)' \subseteq Reached(e)
  BY <1>1, <1>4, <1>5 DEF Reached
<1>13. Disjoint'
  BY <1>1, <1>5, <1>12 DEF IInv, Disjoint
<1> QED BY <1>6, <1>7, <1>8, <1>9, <1>10, <1>11, <1>13 DEF IInv

-----------------------------------------------------------------------------
(* A transaction that is added: known, not needed, or needed by a stub.     *)
LEMMA AddTransactionKeepsInv ==
  ASSUME IInv, NEW d \in Dec, NEW h \in Hashes, AddTransaction(d, h)
  PROVE  IInv'
<1>1. CASE h \in Pending(d) /\ h \notin received[d]
  <2> DEFINE s == pending[d][h]
  <2>1. s \in Stubs(d) /\ saltedHash[s] = h
    BY <1>1 DEF Stubs, IInv, Filed
  <2>2. /\ Store(d, h) /\ Peel(d, s)
        /\ queue' = [queue EXCEPT ![d] = Released(s)]
        /\ pool' = PoolAfter({}, {s}) /\ queue[d] = {}
        /\ UNCHANGED <<made, decoded, freed, saltedHash, held>>
    BY <1>1 DEF AddTransaction, Idle
  <2> HIDE DEF s
  <2>3. queue' = [queue EXCEPT ![d] = (@ \ {}) \cup Released(s)]
    BY <2>2
  <2>4. {s} = {s} \cup ({} \cap freed) /\ decoded' = decoded \cup {}
    BY <2>2
  <2>5. Unlinks(d, s, blocking[s], {})
    BY <2>1, <2>2, <2>3, <2>4, PeelUnlinks
  <2>6. Learns(d, saltedHash[s])
    BY <2>1, <2>2, StoreLemma DEF Learns, IInv
  <2> QED BY <2>1, <2>5, <2>6, UnlinksKeepsInv
<1>2. CASE ~(h \in Pending(d) /\ h \notin received[d])
  <2>1. /\ UNCHANGED <<pending, queue, pool, members, queued, blocking, made, decoded, freed, saltedHash, held>>
        /\ Store(d, h) \/ UNCHANGED <<received, recent>>
    BY <1>2 DEF AddTransaction
  <2>2. \A e \in Dec : Pending(e)' = Pending(e) /\ Stubs(e)' = Stubs(e) /\ Reached(e)' = Reached(e)
    BY <2>1 DEF Pending, Stubs, Reached
  <2>3. Learns(d, h) \/ UNCHANGED received
    BY <2>1, StoreLemma DEF Learns, IInv
  <2>4. TypeOK'
    BY <2>1, <2>2, StoreLemma DEF IInv, TypeOK
  <2>5. Filed'
    BY <2>1, <2>2, <2>3, <1>2 DEF IInv, Filed, Learns
  <2>6. Linked' /\ Workable' /\ Spent' /\ InUse' /\ PooledOnce' /\ Recycled' /\ Disjoint'
    BY <2>1, <2>2 DEF IInv, Linked, Workable, Spent, InUse, PooledOnce, Recycled, Disjoint
  <2> QED BY <2>4, <2>5, <2>6 DEF IInv
<1> QED BY <1>1, <1>2

(* The user frees a codeword that it holds, at most once.                   *)
LEMMA FreeKeepsInv ==
  ASSUME IInv, NEW d \in Dec, NEW c \in Cw, Free(d, c)
  PROVE  IInv'
<1>1. /\ c \in held[d] /\ freed' = freed \cup {c} /\ held' = [held EXCEPT ![d] = @ \ {c}]
      /\ pool' = PoolAfter({}, IF c \in decoded THEN {c} ELSE {})
      /\ UNCHANGED <<made, members, queued, decoded, saltedHash, blocking, received, recent, pending, queue>>
  BY DEF Free
<1>2. c \notin Stub /\ c \in made /\ c \notin freed /\ pool[c] = 0
  BY <1>1, LdpcAssumption DEF IInv, InUse, Recycled, PooledOnce
<1>3. \A o \in Cw \cup Stub : pool'[o] = pool[o] + (IF o = c /\ c \in decoded THEN 1 ELSE 0)
  BY <1>1 DEF PoolAfter, IInv, TypeOK
<1>4. \A e \in Dec : held'[e] = IF e = d THEN held[d] \ {c} ELSE held[e]
  BY <1>1 DEF IInv, TypeOK
<1>5. \A e \in Dec : Pending(e)' = Pending(e) /\ Stubs(e)' = Stubs(e) /\ Reached(e)' = Reached(e)
  BY <1>1 DEF Pending, Stubs, Reached
<1>6. TypeOK'
  BY <1>1, <1>5 DEF IInv, TypeOK, PoolAfter
<1>7. Linked' /\ Filed' /\ Spent' /\ Workable'
  BY <1>1, <1>5 DEF IInv, Linked, Filed, Spent, Workable
<1>8. InUse'
  <2> SUFFICES ASSUME NEW e \in Dec
               PROVE  Stubs(e)' \cup queue'[e] \subseteq made' /\ held'[e] \subseteq made' \ freed'
    BY DEF InUse
  <2>1. Stubs(e)' \cup queue'[e] \subseteq made'
    BY <1>1, <1>5 DEF IInv, InUse
  <2>2. held[e] \subseteq made \ freed
    BY DEF IInv, InUse
  <2>3. c \notin held'[e]
    BY <1>1, <1>4 DEF IInv, Disjoint
  <2> QED BY <2>1, <2>2, <2>3, <1>1, <1>4
<1>9. PooledOnce'
  BY <1>1, <1>2, <1>3 DEF IInv, PooledOnce
<1>10. Recycled'
  <2>1. ASSUME NEW k \in Cw, k \in made PROVE pool'[k] = 1 <=> k \in decoded' /\ k \in freed'
    <3>1. (pool[k] = 1 <=> k \in decoded /\ k \in freed) /\ pool[k] \in {0, 1}
      BY <2>1 DEF IInv, Recycled, PooledOnce
    <3>2. pool'[k] = pool[k] + (IF k = c /\ c \in decoded THEN 1 ELSE 0)
      BY <1>3
    <3> QED BY <3>1, <3>2, <1>1, <1>2
  <2>2. ASSUME NEW s \in Stub, s \in made PROVE pool'[s] = 1 <=> \A e \in Dec : s \notin Stubs(e)'
    <3>1. pool'[s] = pool[s]
      BY <1>2, <1>3 DEF IInv, TypeOK
    <3>2. pool[s] = 1 <=> \A e \in Dec : s \notin Stubs(e)
      BY <2>2 DEF IInv, Recycled
    <3> QED BY <3>1, <3>2, <1>5
  <2> QED BY <2>1, <2>2, <1>1 DEF Recycled
<1>11. Disjoint'
  BY <1>4, <1>5 DEF IInv, Disjoint
<1> QED BY <1>6, <1>7, <1>8, <1>9, <1>10, <1>11 DEF IInv

-----------------------------------------------------------------------------
(* The fields of the objects and of decoder d after AddCodeword, where      *)
(* gotStubs came from the pool and mine are all the stubs of the codeword.  *)
Adds(d, c, gotStubs, mine, ready) ==
  /\ made' = made \cup {c} \cup gotStubs
  /\ pool' = PoolAfter({c} \cup gotStubs, {})
  /\ members' = [members EXCEPT ![c] = mine]
  /\ blocking' = [s \in Stub |-> (IF s \in gotStubs THEN {} ELSE blocking[s])
                                   \cup (IF s \in mine THEN {c} ELSE {})]
  /\ Reset(c, ready)
  /\ queue' = [queue EXCEPT ![d] = IF ready THEN {c} ELSE {}]
  /\ held' = [held EXCEPT ![d] = @ \cup {c}]
  /\ UNCHANGED <<received, recent>>

LEMMA AddsKeepsInv ==
  ASSUME IInv, NEW d \in Dec, queue[d] = {}, NEW c \in Available(Cw),
         NEW gotStubs \in SUBSET Available(Stub), NEW mine, NEW ready \in BOOLEAN,
         Adds(d, c, gotStubs, mine, ready),
         mine \subseteq Stubs(d) \cup gotStubs, IsFiniteSet(mine), ready => Cardinality(mine) <= 1,
         \A e \in Dec : Stubs(e)' = IF e = d THEN Stubs(e) \cup gotStubs ELSE Stubs(e),
         TypeOK', Filed'
  PROVE  IInv'
<1>c. /\ c \in Cw /\ members[c] = {} /\ (c \in made <=> pool[c] = 1)
      /\ \A e \in Dec : c \notin queue[e] /\ c \notin held[e]
      /\ \A s \in Stub : c \notin blocking[s]
      /\ c \notin Stub
  BY FreshCodeword, LdpcAssumption
<1>g. \A s \in gotStubs : /\ s \in Stub /\ s \notin Cw /\ blocking[s] = {} /\ (s \in made <=> pool[s] = 1)
                          /\ \A e \in Dec : s \notin Stubs(e)
                          /\ \A k \in Cw : s \notin members[k]
  BY FreshStub, LdpcAssumption
<1>m. mine \subseteq Stub /\ Stubs(d) \subseteq Stub
  BY <1>g, StubFacts
<1>1. \A k \in Cw : members'[k] = IF k = c THEN mine ELSE members[k]
  BY <1>c DEF Adds, IInv, TypeOK
<1>2. \A s \in Stub : blocking'[s] = IF s \in mine THEN blocking[s] \cup {c} ELSE blocking[s]
  BY <1>g DEF Adds
<1>3. \A o \in Cw \cup Stub : pool'[o] = IF (o = c \/ o \in gotStubs) /\ o \in made THEN 0 ELSE pool[o]
  <2> TAKE o \in Cw \cup Stub
  <2>1. pool'[o] = pool[o] - (IF o \in {c} \cup gotStubs /\ o \in made THEN 1 ELSE 0) + 0
    BY DEF Adds, PoolAfter
  <2>2. pool[o] \in {0, 1} /\ ((o = c \/ o \in gotStubs) /\ o \in made => pool[o] = 1)
    BY <1>c, <1>g DEF IInv, PooledOnce
  <2> QED BY <2>1, <2>2
<1>4. \A e \in Dec : queue'[e] = IF e = d THEN (IF ready THEN {c} ELSE {}) ELSE queue[e]
  BY DEF Adds, IInv, TypeOK
<1>5. \A e \in Dec : held'[e] = IF e = d THEN held[e] \cup {c} ELSE held[e]
  BY DEF Adds, IInv, TypeOK
<1>6. made' = made \cup {c} \cup gotStubs /\ decoded' = decoded \ {c} /\ freed' = freed \ {c}
  BY DEF Adds, Reset
<1>7. Linked'
  <2> SUFFICES ASSUME NEW k \in Cw, NEW s \in Stub
               PROVE  /\ s \in members'[k] <=> k \in blocking'[s]
                      /\ s \in members'[k] => \E e \in Dec : s \in Stubs(e)'
    BY DEF Linked
  <2>1. /\ s \in members[k] <=> k \in blocking[s]
        /\ s \in members[k] => \E e \in Dec : s \in Stubs(e)
    BY DEF IInv, Linked
  <2>2. CASE k = c
    BY <2>2, <1>1, <1>2, <1>c
  <2>3. CASE k # c
    BY <2>1, <2>3, <1>1, <1>2
  <2> QED BY <2>2, <2>3
<1>8. Workable'
  <2> SUFFICES ASSUME NEW e \in Dec, NEW k \in queue'[e]
               PROVE  k \in queued' /\ k \notin decoded' /\ Cardinality(members'[k]) <= 1
    BY DEF Workable
  <2>1. CASE e = d
    BY <2>1, <1>1, <1>4, <1>6, <1>c DEF Adds, Reset
  <2>2. CASE e # d
    <3>1. k \in queue[e] /\ k # c /\ k \in Cw
      BY <2>2, <1>4, <1>c DEF IInv, TypeOK
    <3> QED BY <3>1, <1>1, <1>6 DEF IInv, Workable, Adds, Reset
  <2> QED BY <2>1, <2>2
<1>9. Spent'
  BY <1>1, <1>6 DEF IInv, Spent
<1>10. InUse'
  <2> SUFFICES ASSUME NEW e \in Dec
               PROVE  Stubs(e)' \cup queue'[e] \subseteq made' /\ held'[e] \subseteq made' \ freed'
    BY DEF InUse
  <2>1. Stubs(e) \cup queue[e] \subseteq made /\ held[e] \subseteq made \ freed
    BY DEF IInv, InUse
  <2> QED BY <2>1, <1>4, <1>5, <1>6
<1>11. PooledOnce'
  <2> SUFFICES ASSUME NEW o \in Cw \cup Stub PROVE pool'[o] \in {0, 1} /\ (o \notin made' => pool'[o] = 0)
    BY DEF PooledOnce
  <2>1. pool[o] \in {0, 1} /\ (o \notin made => pool[o] = 0)
    BY DEF IInv, PooledOnce
  <2> QED BY <2>1, <1>3, <1>6
<1>12. Recycled'
  <2>1. ASSUME NEW k \in Cw, k \in made' PROVE pool'[k] = 1 <=> k \in decoded' /\ k \in freed'
    <3>1. CASE k = c
      <4>1. pool'[c] = 0
        BY <1>3, <1>c DEF IInv, PooledOnce
      <4> QED BY <4>1, <3>1, <1>6
    <3>2. CASE k # c
      <4>1. k \in made /\ pool'[k] = pool[k]
        BY <3>2, <2>1, <1>3, <1>6, <1>g
      <4> QED BY <4>1, <3>2, <1>6 DEF IInv, Recycled
    <3> QED BY <3>1, <3>2
  <2>2. ASSUME NEW s \in Stub, s \in made' PROVE pool'[s] = 1 <=> \A e \in Dec : s \notin Stubs(e)'
    <3>1. CASE s \in gotStubs
      <4>1. pool'[s] = 0
        BY <3>1, <1>3, <1>g DEF IInv, PooledOnce
      <4> QED BY <4>1, <3>1
    <3>2. CASE s \notin gotStubs
      <4>1. s \in made /\ s # c /\ pool'[s] = pool[s]
        BY <3>2, <2>2, <1>3, <1>6, <1>c
      <4>2. pool[s] = 1 <=> \A e \in Dec : s \notin Stubs(e)
        BY <4>1 DEF IInv, Recycled
      <4>3. \A e \in Dec : s \in Stubs(e)' <=> s \in Stubs(e)
        BY <3>2
      <4> QED BY <4>1, <4>2, <4>3
    <3> QED BY <3>1, <3>2
  <2> QED BY <2>1, <2>2 DEF Recycled
<1>13. \A e \in Dec : Reached(e)' \subseteq Reached(e) \cup (IF e = d THEN {c} ELSE {})
  <2> SUFFICES ASSUME NEW e \in Dec, NEW k \in Reached(e)'
               PROVE  k \in Reached(e) \cup (IF e = d THEN {c} ELSE {})
    OBVIOUS
  <2>1. Reached(e)' = queue'[e] \cup UNION {blocking'[s] : s \in Stubs(e)'}
    BY DEF Reached
  <2>2. CASE k \in queue'[e]
    BY <2>2, <1>4 DEF Reached
  <2>3. CASE k \notin queue'[e]
    <3>1. PICK s \in Stubs(e)' : k \in blocking'[s]
      BY <2>1, <2>3
    <3>2. s \in Stub
      BY <1>g, StubFacts
    <3>3. CASE e = d
      <4>1. k = c \/ k \in blocking[s]
        BY <3>1, <3>2, <1>2
      <4>2. k \in blocking[s] => s \in Stubs(e)
        BY <3>3, <1>g
      <4> QED BY <4>1, <4>2, <3>3 DEF Reached
    <3>4. CASE e # d
      <4>1. s \in Stubs(e) /\ s \notin gotStubs /\ s \notin Stubs(d)
        BY <3>4, <1>g DEF IInv, Disjoint
      <4>2. k \in blocking[s]
        BY <4>1, <3>1, <3>2, <1>2
      <4> QED BY <4>1, <4>2 DEF Reached
    <3> QED BY <3>3, <3>4
  <2> QED BY <2>2, <2>3
<1>14. \A e \in Dec : c \notin Reached(e) /\ c \notin held[e]
  BY <1>c, StubFacts DEF Reached
<1>15. Disjoint'
  <2> SUFFICES ASSUME NEW e \in Dec, NEW f \in Dec, e # f
               PROVE  /\ Stubs(e)' \cap Stubs(f)' = {}
                      /\ (Reached(e)' \cup held'[e]) \cap (Reached(f)' \cup held'[f]) = {}
    BY DEF Disjoint
  <2>1. /\ Stubs(e) \cap Stubs(f) = {}
        /\ (Reached(e) \cup held[e]) \cap (Reached(f) \cup held[f]) = {}
    BY DEF IInv, Disjoint
  <2>2. Stubs(e)' \cap Stubs(f)' = {}
    BY <2>1, <1>g
  <2>3. \A a \in {e, f} : Reached(a)' \cup held'[a] \subseteq (Reached(a) \cup held[a]) \cup (IF a = d THEN {c} ELSE {})
    BY <1>5, <1>13
  <2> QED BY <2>1, <2>2, <2>3, <1>14
<1> QED BY <1>7, <1>8, <1>9, <1>10, <1>11, <1>12, <1>15 DEF IInv

LEMMA AddCodewordKeepsInv ==
  ASSUME IInv, NEW d \in Dec, NEW c \in Cw, NEW hs \in SUBSET Hashes, AddCodeword(d, c, hs)
  PROVE  IInv'
<1> DEFINE unknown == hs \ received[d]
           new == unknown \ Pending(d)
<1>1. PICK got \in [new -> Available(Stub)] :
        LET stub == [h \in unknown |-> IF h \in new THEN got[h] ELSE pending[d][h]]
            mine == {stub[h] : h \in unknown}
            gotStubs == {got[h] : h \in new}
            ready == Cardinality(unknown) <= 1
        IN
        /\ Idle(d) /\ c \in Available(Cw)
        /\ \A g, h \in new : got[g] = got[h] => g = h
        /\ Adds(d, c, gotStubs, mine, ready)
        /\ saltedHash' = [s \in Stub |-> IF s \in gotStubs
                                         THEN CHOOSE h \in new : got[h] = s ELSE saltedHash[s]]
        /\ pending' = [pending EXCEPT ![d] =
                         [h \in Pending(d) \cup new |-> IF h \in new THEN got[h] ELSE pending[d][h]]]
  BY DEF AddCodeword, Adds
<1> DEFINE stub == [h \in unknown |-> IF h \in new THEN got[h] ELSE pending[d][h]]
           mine == {stub[h] : h \in unknown}
           gotStubs == {got[h] : h \in new}
           ready == Cardinality(unknown) <= 1
<1>2. /\ unknown \subseteq Hashes /\ new \subseteq unknown
      /\ \A h \in unknown : h \notin received[d] /\ (h \in new \/ h \in Pending(d))
      /\ new \cap Pending(d) = {}
  OBVIOUS
<1>3. /\ queue[d] = {} /\ c \in Available(Cw)
      /\ \A g, h \in new : got[g] = got[h] => g = h
      /\ Adds(d, c, gotStubs, mine, ready)
      /\ saltedHash' = [s \in Stub |-> IF s \in gotStubs
                                       THEN CHOOSE h \in new : got[h] = s ELSE saltedHash[s]]
      /\ pending' = [pending EXCEPT ![d] =
                       [h \in Pending(d) \cup new |-> IF h \in new THEN got[h] ELSE pending[d][h]]]
  BY <1>1 DEF Idle
<1> HIDE DEF unknown, new
<1>4. gotStubs \in SUBSET Available(Stub) /\ \A h \in new : got[h] \in gotStubs /\ got[h] \in Stub
  BY DEF Available
<1>5. \A s \in gotStubs : s \in Stub /\ \A e \in Dec : s \notin Stubs(e)
  BY <1>4, FreshStub
<1>6. mine \subseteq Stubs(d) \cup gotStubs
  BY <1>2, <1>4 DEF Stubs
<1>7. IsFiniteSet(mine) /\ (ready => Cardinality(mine) <= 1)
  <2>1. IsFiniteSet(unknown)
    BY <1>2, LdpcAssumption, FS_Subset
  <2>2. stub \in Surjection(unknown, mine)
    <3> HIDE DEF stub
    <3>1. DOMAIN stub = unknown
      BY DEF stub
    <3>2. stub \in [unknown -> mine]
      BY stub = [h \in unknown |-> stub[h]] DEF stub
    <3> QED BY <3>2 DEF Surjection
  <2>3. IsFiniteSet(mine) /\ Cardinality(mine) <= Cardinality(unknown)
    <3> HIDE DEF stub, mine
    <3> QED BY <2>1, <2>2, FS_Surjection
  <2>4. Cardinality(mine) \in Nat /\ Cardinality(unknown) \in Nat
    BY <2>1, <2>3, FS_CardinalityType
  <2> QED BY <2>3, <2>4
<1> HIDE DEF mine, ready, stub
<1>8. \A e \in Dec :
        /\ Pending(e)' = IF e = d THEN Pending(e) \cup new ELSE Pending(e)
        /\ \A h \in Pending(e)' : pending'[e][h] = IF e = d /\ h \in new THEN got[h] ELSE pending[e][h]
        /\ e = d => pending'[e] = [h \in Pending(e)' |-> IF h \in new THEN got[h] ELSE pending[d][h]]
        /\ e # d => pending'[e] = pending[e]
  <2> TAKE e \in Dec
  <2>1. DOMAIN pending = Dec
    BY DEF IInv, TypeOK
  <2>2. CASE e = d
    <3>1. pending'[e] = [h \in Pending(d) \cup new |-> IF h \in new THEN got[h] ELSE pending[d][h]]
      BY <1>3, <2>1, <2>2
    <3> QED BY <3>1, <2>2 DEF Pending
  <2>3. CASE e # d
    <3>1. pending'[e] = pending[e]
      BY <1>3, <2>1, <2>3
    <3> QED BY <3>1, <2>3 DEF Pending
  <2> QED BY <2>2, <2>3
<1>9. \A e \in Dec : Stubs(e)' = IF e = d THEN Stubs(e) \cup gotStubs ELSE Stubs(e)
  <2> TAKE e \in Dec
  <2>1. CASE e = d
    <3>1. \A h \in Pending(d) : h \notin new /\ pending'[d][h] = pending[d][h]
      BY <2>1, <1>2, <1>8
    <3>2. \A h \in new : pending'[d][h] = got[h]
      BY <2>1, <1>8
    <3>3. Stubs(d)' = {pending'[d][h] : h \in Pending(d) \cup new}
      BY <2>1, <1>8 DEF Stubs
    <3> QED BY <2>1, <3>1, <3>2, <3>3 DEF Stubs
  <2>2. CASE e # d
    <3>1. pending'[e] = pending[e] /\ Pending(e)' = Pending(e)
      BY <2>2, <1>8
    <3> QED BY <2>2, <3>1 DEF Stubs
  <2> QED BY <2>1, <2>2
<1>10. /\ \A h \in new : saltedHash'[got[h]] = h
       /\ \A s \in Stub \ gotStubs : saltedHash'[s] = saltedHash[s]
       /\ saltedHash' \in [Stub -> Hashes]
  <2>1. \A h \in new : (CHOOSE g \in new : got[g] = got[h]) = h
    BY <1>3
  <2>2. \A h \in new : saltedHash'[got[h]] = h
    BY <2>1, <1>3, <1>4
  <2>3. \A s \in Stub \ gotStubs : saltedHash'[s] = saltedHash[s]
    BY <1>3
  <2>4. \A s \in gotStubs : \E h \in new : s = got[h]
    OBVIOUS
  <2>5. \A s \in Stub : saltedHash'[s] \in Hashes
    <3> TAKE s \in Stub
    <3>1. CASE s \in gotStubs
      BY <3>1, <2>2, <2>4, <1>2
    <3>2. CASE s \notin gotStubs
      BY <3>2, <2>3 DEF IInv, TypeOK
    <3> QED BY <3>1, <3>2
  <2> QED BY <2>2, <2>3, <2>5, <1>3
<1> HIDE DEF gotStubs
<1>11. Filed'
  <2> SUFFICES ASSUME NEW e \in Dec, NEW h \in Pending(e)'
               PROVE  saltedHash'[pending'[e][h]] = h /\ h \notin received'[e]
    BY DEF Filed
  <2>1. received' = received
    BY <1>3 DEF Adds
  <2>2. CASE e = d /\ h \in new
    BY <2>1, <2>2, <1>2, <1>8, <1>10
  <2>3. CASE ~(e = d /\ h \in new)
    <3>1. h \in Pending(e) /\ pending'[e][h] = pending[e][h] /\ pending[e][h] \in Stubs(e)
      BY <2>3, <1>8 DEF Stubs
    <3>2. pending[e][h] \in Stub \ gotStubs
      BY <3>1, <1>5, StubFacts
    <3> QED BY <3>1, <3>2, <2>1, <1>10 DEF IInv, Filed
  <2> QED BY <2>2, <2>3
<1>12. TypeOK'
  <2>1. c \in Cw /\ mine \subseteq Stub /\ gotStubs \subseteq Stub
    BY <1>5, <1>6, StubFacts
  <2>2. /\ made' \subseteq Cw \cup Stub /\ members' \in [Cw -> SUBSET Stub]
        /\ queued' \subseteq Cw /\ decoded' \subseteq Cw /\ freed' \subseteq Cw
    BY <2>1, <1>3 DEF IInv, TypeOK, Adds, Reset
  <2>3. blocking' \in [Stub -> SUBSET Cw]
    BY <2>1, <1>3 DEF IInv, TypeOK, Adds
  <2>4. /\ received' \in [Dec -> SUBSET Hashes]
        /\ recent' \in [Dec -> Seq(Hashes)] /\ \A e \in Dec : Len(recent'[e]) <= Memory
        /\ queue' \in [Dec -> SUBSET Cw] /\ held' \in [Dec -> SUBSET Cw]
    BY <2>1, <1>3 DEF IInv, TypeOK, Adds
  <2>5. pool' \in [Cw \cup Stub -> Nat]
    <3> SUFFICES ASSUME NEW o \in Cw \cup Stub
                 PROVE  pool[o] - (IF o \in {c} \cup gotStubs /\ o \in made THEN 1 ELSE 0) + 0 \in Nat
      BY <1>3 DEF Adds, PoolAfter
    <3>1. pool[o] \in {0, 1} /\ (o \notin made => pool[o] = 0)
      BY DEF IInv, PooledOnce
    <3>2. o \in {c} \cup gotStubs /\ o \in made => pool[o] = 1
      BY <3>1, <1>3, <1>4 DEF Available
    <3> QED BY <3>1, <3>2
  <2>6. DOMAIN pending' = Dec
    BY <1>3 DEF IInv, TypeOK
  <2>7. \A e \in Dec : Pending(e)' \subseteq Hashes /\ pending'[e] \in [Pending(e)' -> Stub]
    <3> TAKE e \in Dec
    <3>1. CASE e = d
      <4>1. pending'[e] = [h \in Pending(e)' |-> IF h \in new THEN got[h] ELSE pending[d][h]]
            /\ Pending(e)' = Pending(d) \cup new
        BY <3>1, <1>8
      <4>2. \A h \in Pending(d) : pending[d][h] \in Stub /\ h \in Hashes
        BY DEF IInv, TypeOK
      <4> QED BY <4>1, <4>2, <1>2, <1>4
    <3>2. CASE e # d
      <4>1. pending'[e] = pending[e] /\ Pending(e)' = Pending(e)
        BY <3>2, <1>8
      <4> QED BY <4>1 DEF IInv, TypeOK
    <3> QED BY <3>1, <3>2
  <2> QED BY <2>2, <2>3, <2>4, <2>5, <2>6, <2>7, <1>10 DEF TypeOK
<1>13. ready \in BOOLEAN
  BY DEF ready
<1> QED BY <1>3, <1>4, <1>6, <1>7, <1>9, <1>11, <1>12, <1>13, AddsKeepsInv

-----------------------------------------------------------------------------
(* The invariant holds in every state.                                      *)
LEMMA StepKeepsInv == IInv /\ [Next]_vars => IInv'
<1> SUFFICES ASSUME IInv, [Next]_vars PROVE IInv'
  OBVIOUS
<1>1. ASSUME NEW d \in Dec, NEW c \in Cw, NEW hs \in SUBSET Hashes, AddCodeword(d, c, hs) PROVE IInv'
  BY <1>1, AddCodewordKeepsInv
<1>2. ASSUME NEW d \in Dec, NEW h \in Hashes, AddTransaction(d, h) PROVE IInv'
  BY <1>2, AddTransactionKeepsInv
<1>3. ASSUME NEW d \in Dec, DecodeStep(d) PROVE IInv'
  <2>1. PICK c \in queue[d] : /\ DecodeEmpty(d, c) \/ DecodeTransaction(d, c) \/ DecodeMismatch(d, c)
                              /\ UNCHANGED <<made, freed, saltedHash, held>>
    BY <1>3 DEF DecodeStep
  <2> QED BY <2>1, DecodeEmptyKeepsInv, DecodeTransactionKeepsInv, DecodeMismatchKeepsInv
<1>4. ASSUME NEW d \in Dec, NEW c \in Cw, Free(d, c) PROVE IInv'
  BY <1>4, FreeKeepsInv
<1>5. CASE UNCHANGED vars
  <2>1. \A d \in Dec : Pending(d)' = Pending(d) /\ Stubs(d)' = Stubs(d) /\ Reached(d)' = Reached(d)
    BY <1>5 DEF vars, objVars, Pending, Stubs, Reached
  <2>2. TypeOK'
    BY <1>5, <2>1 DEF vars, objVars, IInv, TypeOK
  <2>3. Linked' /\ Filed' /\ Workable' /\ Spent' /\ InUse' /\ PooledOnce' /\ Recycled' /\ Disjoint'
    BY <1>5, <2>1 DEF vars, objVars, IInv, Linked, Filed, Workable, Spent, InUse, PooledOnce, Recycled, Disjoint
  <2> QED BY <2>2, <2>3 DEF IInv
<1> QED BY <1>1, <1>2, <1>3, <1>4, <1>5 DEF Next

LEMMA Invariant == Spec => []IInv
<1> QED BY InitInv, StepKeepsInv, PTL DEF Spec

(* The fields of the decoders keep their types and bounds: no decoder       *)
(* remembers more transactions than storeNewTransaction allows.             *)
THEOREM LdpcTypeOK == Spec => []TypeOK
<1>1. IInv => TypeOK
  BY DEF IInv
<1> QED BY <1>1, Invariant, PTL

(* No object is shared by two decoders.                                     *)
THEOREM NoSharing == Spec => []Disjoint
<1>1. IInv => Disjoint
  BY DEF IInv
<1> QED BY <1>1, Invariant, PTL

(* Free and decodeCodewords together return a codeword when it is decoded   *)
(* and freed, and markDecoded and failToDecode a stub when it is not        *)
(* pending: never earlier, and always.                                      *)
THEOREM RecycledInTime == Spec => []Recycled
<1>1. IInv => Recycled
  BY DEF IInv
<1> QED BY <1>1, Invariant, PTL

(* What sync.Pool hands out next is in the pool once and used by nobody.    *)
THEOREM PoolIsSafe == Spec => []PoolSafe
<1>1. ASSUME IInv PROVE PoolSafe
  <2>1. \A o \in Cw \cup Stub : pool[o] <= 1
    BY <1>1 DEF IInv, PooledOnce
  <2>2. ASSUME NEW c \in Cw, pool[c] = 1, NEW d \in Dec PROVE c \notin Reached(d) \cup held[d]
    <3>1. c \in Available(Cw)
      BY <2>2 DEF Available
    <3> QED BY <1>1, <3>1, FreshCodeword, StubFacts DEF Reached
  <2>3. ASSUME NEW s \in Stub, pool[s] = 1
        PROVE  (\A d \in Dec : s \notin Stubs(d)) /\ (\A c \in Cw : s \notin members[c])
    <3>1. s \in Available(Stub)
      BY <2>3 DEF Available
    <3> QED BY <1>1, <3>1, FreshStub
  <2> QED BY <2>1, <2>2, <2>3 DEF PoolSafe
<1> QED BY <1>1, Invariant, PTL

(* No panic of ldpc/decoder.go is reachable.                                *)
THEOREM PanicFree == Spec => []NoPanic
<1>1. ASSUME IInv PROVE NoPanic
  <2>1. ASSUME NEW d \in Dec, NEW h \in Pending(d)
        PROVE  LET s == pending[d][h] IN
               /\ h \notin received[d] /\ saltedHash[s] = h
               /\ \A c \in blocking[s] : s \in members[c]
    <3>1. pending[d][h] \in Stub
      BY <1>1 DEF IInv, TypeOK
    <3> QED BY <1>1, <3>1 DEF IInv, TypeOK, Filed, Linked
  <2>2. ASSUME NEW d \in Dec, NEW c \in queue[d]
        PROVE  /\ c \in queued /\ Cardinality(members[c]) <= 1
               /\ \A s \in members[c] : s \in Stubs(d) /\ c \in blocking[s]
    <3>1. members[c] \subseteq Stub
      BY <1>1 DEF IInv, TypeOK
    <3> QED BY <1>1, <3>1, OwnStub DEF IInv, Workable
  <2> QED BY <2>1, <2>2 DEF NoPanic
<1> QED BY <1>1, Invariant, PTL
-----------------------------------------------------------------------------
(* A codeword that is not decoded carries the queued flag as soon as it can *)
(* be decoded, and only while it is in a work list: the flag never keeps it *)
(* from being queued.                                                       *)
Waiting ==
  \A c \in (Cw \cap made) \ decoded :
    /\ Cardinality(members[c]) <= 1 => c \in queued
    /\ c \in queued => \E d \in Dec : c \in queue[d]

LEMMA UnlinksKeepsWaiting ==
  ASSUME IInv, Waiting, NEW d \in Dec, NEW s \in Stub,
         NEW X \in SUBSET blocking[s], NEW done, Unlinks(d, s, X, done)
  PROVE  Waiting'
<1> SUFFICES ASSUME NEW c \in Cw, c \in made, c \notin decoded'
             PROVE  /\ Cardinality(members'[c]) <= 1 => c \in queued'
                    /\ c \in queued' => \E e \in Dec : c \in queue'[e]
  BY DEF Waiting, Unlinks
<1>1. c \notin decoded /\ c \notin done /\ queued' = queued \cup Freed(s, X)
  BY DEF Unlinks
<1>2. /\ Cardinality(members[c]) <= 1 => c \in queued
      /\ c \in queued => \E e \in Dec : c \in queue[e]
  BY <1>1 DEF Waiting
<1>3. members'[c] = IF c \in X THEN members[c] \ {s} ELSE members[c]
  BY DEF Unlinks
<1>4. \A e \in Dec : queue'[e] = IF e = d THEN (queue[d] \ done) \cup Freed(s, X) ELSE queue[e]
  BY DEF IInv, TypeOK, Unlinks
<1>5. Cardinality(members'[c]) <= 1 => c \in queued'
  BY <1>1, <1>2, <1>3 DEF Freed
<1>6. ASSUME c \in queued' PROVE \E e \in Dec : c \in queue'[e]
  <2>1. CASE c \in Freed(s, X)
    BY <2>1, <1>4
  <2>2. CASE c \notin Freed(s, X)
    BY <2>2, <1>6, <1>1, <1>2, <1>4
  <2> QED BY <2>1, <2>2
<1> QED BY <1>5, <1>6

(* reset clears the flag of the codeword's former life, and AddCodeword     *)
(* sets it again if at most one stub is in it.                              *)
LEMMA AddsKeepsWaiting ==
  ASSUME IInv, Waiting, NEW d \in Dec, queue[d] = {}, NEW c \in Cw,
         NEW gotStubs \in SUBSET Stub, NEW mine, NEW ready \in BOOLEAN,
         Adds(d, c, gotStubs, mine, ready), Cardinality(mine) <= 1 => ready
  PROVE  Waiting'
<1> SUFFICES ASSUME NEW k \in Cw, k \in made', k \notin decoded'
             PROVE  /\ Cardinality(members'[k]) <= 1 => k \in queued'
                    /\ k \in queued' => \E e \in Dec : k \in queue'[e]
  BY DEF Waiting
<1>1. \A e \in Dec : queue'[e] = IF e = d THEN (IF ready THEN {c} ELSE {}) ELSE queue[e]
  BY DEF IInv, TypeOK, Adds
<1>2. queued' = (queued \ {c}) \cup (IF ready THEN {c} ELSE {})
  BY DEF Adds, Reset
<1>3. members'[k] = IF k = c THEN mine ELSE members[k]
  BY DEF IInv, TypeOK, Adds
<1>4. CASE k = c
  <2>1. k \in queued' => ready
    BY <1>2, <1>4
  <2>2. ready => k \in queued' /\ k \in queue'[d]
    BY <1>1, <1>2, <1>4
  <2> QED BY <2>1, <2>2, <1>3, <1>4
<1>5. CASE k # c
  <2>1. k \in made /\ k \notin decoded
    BY <1>5, LdpcAssumption DEF Adds, Reset
  <2>2. /\ Cardinality(members[k]) <= 1 => k \in queued
        /\ k \in queued => \E e \in Dec : k \in queue[e]
    BY <2>1 DEF Waiting
  <2>3. k \in queued' <=> k \in queued
    BY <1>2, <1>5
  <2>4. \A e \in Dec : k \in queue[e] => k \in queue'[e]
    BY <1>1
  <2> QED BY <2>2, <2>3, <2>4, <1>3, <1>5
<1> QED BY <1>4, <1>5

(* The stubs of a codeword are as many as the hashes it was added with that *)
(* are not known.                                                           *)
LEMMA AddCodewordKeepsWaiting ==
  ASSUME IInv, Waiting, NEW d \in Dec, NEW c \in Cw, NEW hs \in SUBSET Hashes, AddCodeword(d, c, hs)
  PROVE  Waiting'
<1> DEFINE unknown == hs \ received[d]
           new == unknown \ Pending(d)
<1>1. PICK got \in [new -> Available(Stub)] :
        LET stub == [h \in unknown |-> IF h \in new THEN got[h] ELSE pending[d][h]]
            mine == {stub[h] : h \in unknown}
            gotStubs == {got[h] : h \in new}
            ready == Cardinality(unknown) <= 1
        IN
        /\ Idle(d)
        /\ \A g, h \in new : got[g] = got[h] => g = h
        /\ Adds(d, c, gotStubs, mine, ready)
  BY DEF AddCodeword, Adds
<1> DEFINE stub == [h \in unknown |-> IF h \in new THEN got[h] ELSE pending[d][h]]
           mine == {stub[h] : h \in unknown}
           gotStubs == {got[h] : h \in new}
           ready == Cardinality(unknown) <= 1
<1>2. /\ queue[d] = {} /\ Adds(d, c, gotStubs, mine, ready)
      /\ \A g, h \in new : got[g] = got[h] => g = h
  BY <1>1 DEF Idle
<1>3. \A h \in new : got[h] \in Available(Stub)
  OBVIOUS
<1>4. gotStubs \in SUBSET Stub
  BY <1>3 DEF Available
<1>5. ready \in BOOLEAN /\ \A h \in unknown : h \in new \/ h \in Pending(d)
  OBVIOUS
<1>6. IsFiniteSet(unknown)
  BY LdpcAssumption, FS_Subset
<1> HIDE DEF new, unknown
<1>7. \A g, h \in unknown : stub[g] = stub[h] => g = h
  <2> TAKE g, h \in unknown
  <2>1. \A i \in unknown : stub[i] = IF i \in new THEN got[i] ELSE pending[d][i]
    OBVIOUS
  <2> HIDE DEF stub
  <2>2. \A i \in unknown \ new : pending[d][i] \in Stubs(d) /\ saltedHash[pending[d][i]] = i
    BY <1>5 DEF IInv, Filed, Stubs
  <2>3. \A i \in new : got[i] \notin Stubs(d)
    BY <1>3, FreshStub
  <2> QED BY <2>1, <2>2, <2>3, <1>2
<1>8. Cardinality(mine) <= 1 => ready
  <2>1. stub \in [unknown -> mine] /\ IsFiniteSet(mine)
    <3>1. stub \in [unknown -> mine]
      OBVIOUS
    <3>2. IsFiniteSet(mine)
      <4>1. stub \in Surjection(unknown, mine)
        BY <3>1 DEF Surjection
      <4> HIDE DEF stub, mine
      <4> QED BY <4>1, <1>6, FS_Surjection
    <3> QED BY <3>1, <3>2
  <2> HIDE DEF stub, mine
  <2>2. stub \in Injection(unknown, mine)
    BY <2>1, <1>7 DEF Injection, IsInjective
  <2>3. Cardinality(unknown) <= Cardinality(mine)
    BY <2>1, <2>2, FS_Injection
  <2>4. Cardinality(unknown) \in Nat /\ Cardinality(mine) \in Nat
    BY <2>1, <1>6, FS_CardinalityType
  <2> QED BY <2>3, <2>4
<1> HIDE DEF mine, ready, stub, gotStubs
<1> QED BY <1>2, <1>4, <1>5, <1>8, AddsKeepsWaiting

LEMMA AddTransactionKeepsWaiting ==
  ASSUME IInv, Waiting, NEW d \in Dec, NEW h \in Hashes, AddTransaction(d, h)
  PROVE  Waiting'
<1>1. CASE h \in Pending(d) /\ h \notin received[d]
  <2> DEFINE s == pending[d][h]
  <2>1. s \in Stubs(d) /\ s \in Stub
    BY <1>1, StubFacts DEF Stubs
  <2>2. /\ Peel(d, s) /\ queue' = [queue EXCEPT ![d] = Released(s)]
        /\ pool' = PoolAfter({}, {s}) /\ queue[d] = {}
        /\ UNCHANGED <<made, decoded, freed, saltedHash, held>>
    BY <1>1 DEF AddTransaction, Idle
  <2> HIDE DEF s
  <2>3. queue' = [queue EXCEPT ![d] = (@ \ {}) \cup Released(s)]
    BY <2>2
  <2>4. {s} = {s} \cup ({} \cap freed) /\ decoded' = decoded \cup {}
    BY <2>2
  <2>5. Unlinks(d, s, blocking[s], {})
    BY <2>1, <2>2, <2>3, <2>4, PeelUnlinks
  <2> QED BY <2>1, <2>5, UnlinksKeepsWaiting
<1>2. CASE ~(h \in Pending(d) /\ h \notin received[d])
  <2>1. UNCHANGED <<queue, members, queued, made, decoded>>
    BY <1>2 DEF AddTransaction
  <2> QED BY <2>1 DEF Waiting
<1> QED BY <1>1, <1>2

LEMMA DecodeStepKeepsWaiting ==
  ASSUME IInv, Waiting, NEW d \in Dec, DecodeStep(d)
  PROVE  Waiting'
<1>1. PICK c \in queue[d] : /\ DecodeEmpty(d, c) \/ DecodeTransaction(d, c) \/ DecodeMismatch(d, c)
                            /\ UNCHANGED <<made, freed, saltedHash, held>>
  BY DEF DecodeStep
<1>2. CASE DecodeEmpty(d, c)
  <2>1. /\ decoded' = decoded \cup {c} /\ UNCHANGED <<made, members, queued>>
        /\ \A e \in Dec : queue[e] \ {c} \subseteq queue'[e]
    BY <1>2, <1>1 DEF DecodeEmpty, Return, IInv, TypeOK
  <2> QED BY <2>1 DEF Waiting
<1>3. CASE DecodeTransaction(d, c)
  <2>1. PICK s \in Stub : /\ members[c] = {s} /\ Peel(d, s)
                          /\ queue' = [queue EXCEPT ![d] = (@ \ {c}) \cup Released(s)]
                          /\ Return(c, {s})
    BY <1>3 DEF DecodeTransaction
  <2>2. c \in Cw /\ s \in Stubs(d)
    BY <2>1, OwnStub
  <2>3. {s} \cup (IF c \in freed THEN {c} ELSE {}) = {s} \cup ({c} \cap freed)
    OBVIOUS
  <2>4. decoded' = decoded \cup {c} /\ pool' = PoolAfter({}, {s} \cup ({c} \cap freed))
    BY <2>1, <2>3 DEF Return
  <2>5. {c} \in SUBSET Cw
    BY <2>2
  <2>6. Unlinks(d, s, blocking[s], {c})
    BY <1>1, <2>1, <2>2, <2>4, <2>5, PeelUnlinks
  <2> QED BY <2>6, UnlinksKeepsWaiting
<1>4. CASE DecodeMismatch(d, c)
  <2>1. PICK s \in Stub : members[c] = {s} /\ members' = [members EXCEPT ![c] = {}]
    BY <1>4 DEF DecodeMismatch
  <2>2. /\ decoded' = decoded \cup {c} /\ UNCHANGED <<made, queued>>
        /\ \A k \in Cw : k # c => members'[k] = members[k]
        /\ \A e \in Dec : queue[e] \ {c} \subseteq queue'[e]
    BY <1>4, <1>1, <2>1 DEF DecodeMismatch, Return, IInv, TypeOK
  <2> QED BY <2>2 DEF Waiting
<1> QED BY <1>1, <1>2, <1>3, <1>4

(* A codeword that can be decoded is in a work list until it is decoded:    *)
(* whatever objects were recycled, no decoder leaves one behind.            *)
THEOREM NothingLeftBehind == Spec => []PeelingComplete
<1>1. Init => Waiting
  BY DEF Init, Waiting
<1>2. ASSUME IInv, Waiting, [Next]_vars PROVE Waiting'
  <2>1. ASSUME NEW d \in Dec, NEW c \in Cw, Free(d, c) PROVE Waiting'
    BY <1>2, <2>1 DEF Free, Waiting
  <2>2. CASE UNCHANGED vars
    BY <1>2, <2>2 DEF vars, objVars, Waiting
  <2> QED BY <1>2, <2>1, <2>2, AddCodewordKeepsWaiting, AddTransactionKeepsWaiting,
             DecodeStepKeepsWaiting DEF Next
<1>3. Waiting => PeelingComplete
  BY DEF Waiting, PeelingComplete
<1> QED BY <1>1, <1>2, <1>3, Invariant, PTL DEF Spec
=============================================================================
