-------------------------------- MODULE Riblt --------------------------------
(***************************************************************************)
(* Package riblt: rateless set reconciliation.  An encoder XORs each of    *)
(* its symbols into coded symbols number 0, i1, i2, ... (its mapping, a    *)
(* pseudo-random sequence seeded by its hash); a decoder XORs its own      *)
(* symbols out of the coded symbols it receives and peels what is left,    *)
(* the difference of the two sets, from coded symbols that hold one symbol.*)
(*                                                                         *)
(* Symbols are identified with their hashes (64 bits, taken not to         *)
(* collide), so a sum and its checksum are both the set of the symbols     *)
(* that were XORed into it an odd number of times.  The mappings are       *)
(* arbitrary increasing sequences that start with 0: the step computed by  *)
(* nextIndex in floating point is taken to be neither 0 nor infinite.  The *)
(* heap of a coding window is a function from its symbols to their next    *)
(* index; its head is a symbol with the least one.                         *)
(***************************************************************************)
EXTENDS Integers, Sequences, FiniteSets, FiniteSetsExt

CONSTANTS
  Symbols,
  MaxCells,   \* bound: coded symbols per block
  Mappings    \* the mappings that the hashes can produce

ASSUME RibltAssumption ==
  /\ IsFiniteSet(Symbols)
  /\ MaxCells \in Nat \ {0}
  /\ Mappings \subseteq [Symbols -> SUBSET (0..MaxCells - 1)]
  /\ \A f \in Mappings, s \in Symbols : 0 \in f[s]

VARIABLES
  mapping,         \* the mapping of each symbol
  sketched,        \* are the coded symbols cells of two subtracted sketches?
  offered, held,   \* symbols added to the encoder, to the decoder
  encoder,         \* Encoder, a coding window
  window, remote, local,   \* coding windows of Decoder
  cs,              \* coded symbols received
  dirty,           \* indices (from 1) of cs to look at
  pending,
  didx             \* position of the loop of TryDecode in dirty, 0 outside

input == <<mapping, sketched, offered, held>>
decoder == <<window, remote, local, cs, dirty, pending, didx>>
vars == <<input, encoder, decoder>>

-----------------------------------------------------------------------------
(* CodedSymbol.                                                             *)
add == 1
remove == -1

Empty == [sum |-> {}, count |-> 0]
IsEmpty(c) == c.count = 0 /\ c.sum = {}
InRange(c) == c.count \in -1..1

(* Apply each symbol of S once.                                             *)
Apply(c, S, direction) ==
  [c EXCEPT !.sum = SymDiff(@, S), !.count = @ + direction * Cardinality(S)]

(* The index after i that s maps to, MaxCells if it is out of bounds.       *)
NextIndex(s, i) == Min({j \in mapping[s] : j > i} \cup {MaxCells})

-----------------------------------------------------------------------------
(* codingWindow.                                                            *)
NewWindow == [next |-> [s \in {} |-> 0], nextIdx |-> 0]

AddWithMapping(w, s, i) ==
  [w EXCEPT !.next = [x \in DOMAIN w.next \cup {s} |-> IF x = s THEN i ELSE w.next[x]]]

AddHashedSymbol(w, s) == AddWithMapping(w, s, 0)

(* The symbols that the loop of applyWindow applies: it looks only at the   *)
(* head, so a head that is behind nextIdx stops all.                        *)
Due(w) ==
  IF \E s \in DOMAIN w.next : w.next[s] < w.nextIdx THEN {}
  ELSE {s \in DOMAIN w.next : w.next[s] = w.nextIdx}

ApplyWindow(w, c, direction) == Apply(c, Due(w), direction)

Advance(w) ==
  [next |-> [s \in DOMAIN w.next |->
               IF s \in Due(w) THEN NextIndex(s, w.nextIdx) ELSE w.next[s]],
   nextIdx |-> w.nextIdx + 1]

-----------------------------------------------------------------------------
(* Cell i of a sketch of S, and of the difference of two sketches.          *)
SketchCell(S, i) == Apply(Empty, {s \in S : i \in mapping[s]}, add)

SubtractedCell(i) ==
  LET c == SketchCell(offered, i) d == SketchCell(held, i) IN
  [sum |-> SymDiff(c.sum, d.sum), count |-> c.count - d.count]

Init ==
  /\ mapping \in Mappings
  /\ sketched \in BOOLEAN
  /\ offered = {} /\ held = {}
  /\ encoder = NewWindow
  /\ window = NewWindow /\ remote = NewWindow /\ local = NewWindow
  /\ cs = <<>> /\ dirty = <<>>
  /\ pending = 0
  /\ didx = 0

Idle == didx = 0

(* Symbols are added before the first coded symbol of a block, as all       *)
(* callers do.  Sketches get their symbols from both sides; the decoder of  *)
(* Sketch.Decode has an empty window.                                       *)
Offer(s) ==
  /\ cs = <<>>
  /\ s \in Symbols \ offered
  /\ offered' = offered \cup {s}
  /\ encoder' = IF sketched THEN encoder ELSE AddHashedSymbol(encoder, s)
  /\ UNCHANGED <<mapping, sketched, held, decoder>>

Hold(s) ==
  /\ cs = <<>>
  /\ s \in Symbols \ held
  /\ held' = held \cup {s}
  /\ window' = IF sketched THEN window ELSE AddHashedSymbol(window, s)
  /\ UNCHANGED <<mapping, sketched, offered, encoder, remote, local, cs, dirty, pending, didx>>

(* Decoder.AddCodedSymbol, after the symbols known so far are taken out.    *)
Insert(d) ==
  LET isDirty == ~IsEmpty(d) /\ InRange(d) IN
  /\ cs' = Append(cs, [sum |-> d.sum, count |-> d.count, dirty |-> isDirty])
  /\ dirty' = IF isDirty THEN Append(dirty, Len(cs) + 1) ELSE dirty
  /\ pending' = IF IsEmpty(d) THEN pending ELSE pending + 1
  /\ window' = Advance(window) /\ remote' = Advance(remote) /\ local' = Advance(local)
  /\ UNCHANGED didx

AddCodedSymbolRemoving(c) ==   \* mutant of AddCodedSymbol: local symbols are removed again
  Insert(ApplyWindow(local, ApplyWindow(remote, ApplyWindow(window, c, remove), remove), remove))

AddCodedSymbol(c) ==
  Insert(ApplyWindow(local, ApplyWindow(remote, ApplyWindow(window, c, remove), remove), add))

(* dec.AddCodedSymbol(enc.ProduceNextCodedSymbol()).                        *)
ProduceNextCodedSymbol ==
  /\ Idle /\ ~sketched
  /\ Len(cs) < MaxCells
  /\ AddCodedSymbol(ApplyWindow(encoder, Empty, add))
  /\ encoder' = Advance(encoder)
  /\ UNCHANGED input

(* The loop of Sketch.Decode, one cell.                                     *)
AddCell ==
  /\ Idle /\ sketched
  /\ Len(cs) < MaxCells
  /\ AddCodedSymbol(SubtractedCell(Len(cs)))
  /\ UNCHANGED <<input, encoder>>

-----------------------------------------------------------------------------
(* Decoder.TryDecode, one dirty coded symbol per step.                      *)
TryDecode ==
  /\ Idle
  /\ dirty # <<>>
  /\ sketched => Len(cs) = MaxCells
  /\ didx' = 1
  /\ UNCHANGED <<input, encoder, window, remote, local, cs, dirty, pending>>

(* The indices of S up to n, appended in order.                             *)
AppendIndices(queue, S, n) ==
  LET appended[i \in 0..n] ==
        IF i = 0 THEN queue
        ELSE IF i \in S THEN Append(appended[i - 1], i) ELSE appended[i - 1]
  IN appended[n]

(* applyNewSymbol: peel s from the coded symbols it maps to; those that may *)
(* now hold one symbol or none become dirty, in order of their index.  The  *)
(* coded symbol that TryDecode is looking at stops being dirty.             *)
Peel(s, direction, MayBePure(_)) ==
  LET hit == {i \in 1..Len(cs) : i - 1 \in mapping[s]}
      peeled == [i \in 1..Len(cs) |-> IF i \in hit THEN Apply(cs[i], {s}, direction) ELSE cs[i]]
      new == {i \in hit : ~cs[i].dirty /\ MayBePure(peeled[i])}
  IN
  /\ cs' = [i \in 1..Len(cs) |->
              [peeled[i] EXCEPT !.dirty = i # dirty[didx] /\ (@ \/ i \in new)]]
  /\ dirty' = AppendIndices(dirty, new, Len(cs))

ApplyNewSymbolPositive(s, direction) ==   \* mutant of ApplyNewSymbol: a count of -1 is not looked at
  Peel(s, direction, LAMBDA c : c.count \in 0..1)

ApplyNewSymbol(s, direction) == Peel(s, direction, InRange)

(* h == c.checksum: the hash of the sum is the XOR of the hashes.           *)
IsPure(c) == Cardinality(c.sum) = 1

Current == cs[dirty[didx]]

(* case 1 and case -1: a symbol that only the encoder, or only the decoder, *)
(* has.  Its mapping goes on where applyNewSymbol stopped.                  *)
DecodeSymbol ==
  /\ Current.count \in {1, -1} /\ IsPure(Current)
  /\ LET s == CHOOSE x \in Symbols : Current.sum = {x}
         new(w) == AddWithMapping(w, s, NextIndex(s, Len(cs) - 1))
     IN
     IF Current.count = 1
     THEN ApplyNewSymbol(s, remove) /\ remote' = new(remote) /\ UNCHANGED local
     ELSE ApplyNewSymbol(s, add) /\ local' = new(local) /\ UNCHANGED remote
  /\ pending' = pending - 1

Skip ==
  /\ cs' = [cs EXCEPT ![dirty[didx]].dirty = FALSE]
  /\ UNCHANGED <<dirty, remote, local>>

DropKeepingCount ==   \* mutant of DropEmpty: pending is left as it was
  /\ IsEmpty(Current)
  /\ Skip
  /\ UNCHANGED pending

(* case 0: peeled to nothing.                                               *)
DropEmpty ==
  /\ IsEmpty(Current)
  /\ Skip
  /\ pending' = pending - 1

(* Not pure yet, or no more.                                                *)
DropImpure ==
  /\ ~IsEmpty(Current)
  /\ Current.count \in {1, -1} => ~IsPure(Current)
  /\ Skip
  /\ UNCHANGED pending

DecodeStep ==
  /\ didx \in 1..Len(dirty)
  /\ DecodeSymbol \/ DropEmpty \/ DropImpure
  /\ didx' = didx + 1
  /\ UNCHANGED <<input, encoder, window>>

Return ==
  /\ didx > Len(dirty)
  /\ dirty' = <<>>
  /\ didx' = 0
  /\ UNCHANGED <<input, encoder, window, remote, local, cs, pending>>

(* codingWindow.reset, of all windows.                                      *)
ResetWindows ==
  /\ encoder' = NewWindow
  /\ window' = NewWindow /\ remote' = NewWindow /\ local' = NewWindow

(* Encoder.Reset and Decoder.Reset, between two blocks.                     *)
Reset ==
  /\ Idle
  /\ offered' = {} /\ held' = {}
  /\ ResetWindows
  /\ cs' = <<>> /\ dirty' = <<>>
  /\ pending' = 0
  /\ UNCHANGED <<mapping, sketched, didx>>

Next ==
  \/ \E s \in Symbols : Offer(s) \/ Hold(s)
  \/ ProduceNextCodedSymbol \/ AddCell
  \/ TryDecode \/ DecodeStep \/ Return
  \/ Reset

Spec == Init /\ [][Next]_vars

-----------------------------------------------------------------------------
Decoded == pending = 0
Remote == DOMAIN remote.next
Local == DOMAIN local.next

Difference == SymDiff(offered, held)
Undecoded == Difference \ (Remote \cup Local)

(* Decoded promises what reconciliation promises: whenever a caller can ask *)
(* after the first coded symbol, the answer is yes only if Remote and Local *)
(* are the whole difference, nothing else is ever in them, and no further   *)
(* coded symbol turns the answer to no.                                     *)
Reconciliation == INSTANCE Reconcile WITH
  remote <- Remote,
  local <- Local,
  done <- Idle /\ cs # <<>> /\ Decoded

ImplementsReconcile == Reconciliation!Spec

(* pending, which TryDecode and AddCodedSymbol update on five paths, is the *)
(* number of coded symbols that are not empty whenever a caller can ask.    *)
PendingExact ==
  Idle => pending = Cardinality({i \in 1..Len(cs) : ~IsEmpty(cs[i])})

(* A set of symbols from which nothing can be peeled: every coded symbol    *)
(* holds none of them or at least two.                                      *)
Stopping(U) ==
  \A i \in 0..Len(cs) - 1 : Cardinality({s \in U : i \in mapping[s]}) # 1

(* TryDecode peels as far as peeling goes, whenever it is called: what it   *)
(* leaves is the largest stopping set of the difference.  So decoding after *)
(* every coded symbol and decoding once after all of them, as a sketch does,*)
(* end alike; benchmark/main.go panics otherwise.                           *)
PeelsAll ==
  Idle /\ dirty = <<>> =>
    Undecoded = UNION {U \in SUBSET Difference : Stopping(U)}
=============================================================================
