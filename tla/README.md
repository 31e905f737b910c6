# Rateless set reconciliation: a TLA+ development

This directory models the coding packages and the node of
`rateless-set-reconcile` in TLA+, checks small instances with TLC and proves
the central results with TLAPS. Paths are relative to the repository.

## 1. Inventory

The repository studies how peers of a blockchain network can keep their sets of
transactions equal by exchanging *codewords* (XORs of several transactions)
instead of announcements.

| component | source | state | operations |
|---|---|---|---|
| lt encoder | `lt/encoder.go` | sliding window, the salted hashes in it, window size | `Reset`, `AddTransaction`, `ProduceCodeword` |
| lt decoder | `lt/decoder.go` | received and recent transactions, pending stubs, pending codewords, work list | `AddCodeword`, `AddTransaction`, `HasDecoded` |
| iblt | `iblt/*.go` | the files of lt under another package name (the decoder without `HasDecoded`); no package imports it | as lt |
| ldpc | `ldpc/*.go` | as lt, with codewords and stubs recycled through two global `sync.Pool`s; the encoder samples into a reservoir | as lt, plus `Free` and the decoder's `Reset` |
| node: sender | `node/sender.go` | codeword rate, credit, accumulated loss, encoder | goroutines `loop`, `sendCodewords` |
| node: receiver | `node/receiver.go` | window of undecoded codewords, decoder | goroutines `receive`, `decode` |
| node: controller | `node/controller.go`, `node/main.go` | list of peers, channels | goroutine `loop`, `handleConn`, generator |
| riblt | `riblt/*.go` | coding windows with a heap of index mappings, received coded symbols, dirty list, pending count | `AddSymbol`, `ProduceNextCodedSymbol`, `AddCodedSymbol`, `TryDecode`, `Reset`; sketches |
| newsim | `newsim/coding.go`, `pull.go`, `module.go` | per peer: send window, in flight, block flags, shards; known transactions | block reconciliation, announce/request/response |
| simulator | `simulator/node.go`, `module.go` | per peer: block, send window; a decoder shared by all peers | codeword/ack protocol over lt |
| des | `des/simulator.go` | time, event queue, sequence number | `ScheduleMessage`, `Run`, `RunUntil` |
| topologies and mains of the simulations | `{newsim,simulator}/{topology,main}.go` | connections, peers, delays | `loadTopology`, connecting servers, one `RunUntil` per report |
| the rest | `testbed`, `experiments`, `benchmark`, `microbenchmarks`, mains | - | provisioning, measuring, parsing |

How they interact. In a node, each peer has a sender with an ldpc encoder and a
receiver with an ldpc decoder. The controller takes local transactions and
decoded ones from two channels and puts each of them into a channel of the
sender and of the receiver of every peer. A receiver reports the codewords that
timed out undecoded to its own node's sender (`ourLoss`), which sends the number
to the other node in its next codeword; that node's receiver gives it to its
sender (`peerLoss`), which raises its rate. In the simulators the same parts
exchange messages through the event queue of `des`.

What is hard here, and what would be correct:

* **Peeling.** The decoder's graph of codewords and stubs is updated in halves
  by five functions; the panics of the code say what must never be seen. What is
  decodable must be decoded, nothing but real transactions may come out, and
  memory must stay bounded, although transactions are forgotten and salted
  hashes collide.
* **Recycling.** Two conditions return a codeword to a pool shared by the
  goroutines of all peers, in either order.
* **Shuffling in place** in the encoder, whose order decides evictions.
* **Bounded blocking channels** in a cycle: controller, receivers, senders.
* **Loss reports** that ride on codewords which may be dropped.
* **Block boundaries** with messages of two blocks in flight (newsim, simulator).

PROJECT.json lists every hazard at its line with the properties that cover it,
or why none does yet.

## 2. Plan

The order in which the modules were written, each when those above it stood:

1. the coding core: `LtCode`, `LtDecoder`, `LtPeeling`, `LtDecoderRefines`,
   `LtEncoder`, with their proofs; `LdpcDecoder`, `LdpcEncoder`;
2. the node: `NodeLoss`, `NodeRelay` (and the proof of its wedge);
3. the other code: `Reconcile` and `Riblt`;
4. the simulations: `EventQueue`, `LinkFifo` and `Topology`, then the protocols
   over them, `PullSync`, `LtBlockSync` and `BlockSync`;
5. the proofs: `SequenceLemmas`, then `LtProofs`, `LdpcDecoderProofs`, `NodeProofs`,
   `RibltProofs`, `SimulationProofs`, `BlockSyncProofs` and `LtBlockSyncProofs`.

What is open: a decoder that forgets under `LtBlockSync`.

How the modules use one another:

    LtCode <- LtDecoder <- LtDecoderRefines ==> LtPeeling
    LtCode <- LtEncoder <- LdpcEncoder
    EventQueue, Topology <- PullSync (==> LinkFifo), LtBlockSync
    Topology <- BlockSync            Riblt ==> Reconcile
    LdpcDecoder    NodeLoss    NodeRelay

(`<-` is extended by, `==>` implements.)

## 3. Modules

### LtCode - data
A block of data is the set of its one-bits, XOR is symmetric difference, and
`SaltedHash` is any function from data to hashes. So collisions exist unless
assumed away (`CollisionFree`), and the XOR of transactions may itself be a
transaction. `XorAll` defines the XOR of a family by the parity of each bit, which
is what every accumulating loop of the code computes. Data are *values*: this is
the instantiation of the type parameter in `simulator/transaction.go` and
`benchmark/main.go`. For the pointer type of the tests, whose XOR modifies its
receiver, the model holds as long as codewords are not shared.
Full hashes (`blake2b`) are taken to identify data.

### LtDecoder - `lt/decoder.go`
| variable | code |
|---|---|
| `received`, `recent` | `receivedTransactions`, `recentTransactions` |
| `pending`, `blocking` | keys of `pendingTransactions`; `blocking` of the stub under each key |
| `symbol`, `members`, `queued`, `decoded` | fields of each `PendingCodeword` |
| `queue`, `newTx` | locals of `decodeCodewords` |

A call is one action (`AddCodeword`, `AddTransaction`) followed by a `DecodeStep`
for each iteration of the loop of `decodeCodewords`; calls do not overlap,
because a decoder has one owner, so they are guarded by `Idle`. The stack is a
set: every order is allowed. The codewords offered are those over
collision-free sets (what an encoder's window can be, shown by `LtEncoder`);
the transactions offered are arbitrary.

### LtPeeling, LtDecoderRefines - what the decoder promises
`LtPeeling` knows only `known` and `content`: a transaction may be learnt when
it is all that some codeword still misses, and the next input is accepted only
when nothing more can be learnt. `LtDecoderRefines` adds the history variable
`content` (which transactions went into each codeword) and maps `known` to the
transactions whose salted hash is in `receivedTransactions`. It holds for a
decoder with memory for all transactions and no collisions, which
`Remembers` states; `LtDecoder` is checked without either.

### LtEncoder - `lt/encoder.go`
Sampling is one action per swap (`Sample`, then `Revert`), so that the
invariants are seen in the middle of a shuffle. The history variable `order` is
what the window would be if it were never shuffled. An empty window cannot
produce a codeword: the code panics there, and the guard `deg' > 0` makes it a
precondition of the model (`simulator/node.go` fills a block before it encodes).

### LdpcEncoder - `ldpc/encoder.go`
The encoder of ldpc keeps the window as that of lt does, line by line, and the
variable `package` says which of the two runs. It leaves the window in place
when it produces a codeword: `Reservoir` is the set of everything that its loop can
leave in `selected`, for all random numbers, with the jump
`midx += floor(log(u)/log(1-W)) + 1` taken to be any positive distance.

### LdpcDecoder - `ldpc/decoder.go`
The peeling is LtDecoder's; this module is about the objects. Codewords and
stubs have identities, `pool` counts how often an object is in its `sync.Pool`,
and `Get` returns any pooled object or a new one. Several decoders share the
pools and interleave, one iteration at a time. Data are left out: whether a last
stub matches the hash of what is left in a codeword is a choice
(`DecodeTransaction` or `DecodeMismatch`), and whether the transaction forgotten
under a hash is still the one stored is a choice too. `held` are the codewords
in the user's `rxWindow`. A recycled object keeps its fields until `AddCodeword`
sets them (`Reset` is `PendingCodeword.reset` with the flag set after it), and
`PeelingComplete` says that none of them keeps a codeword from being decoded.

### NodeLoss - `node/sender.go`, `node/receiver.go`
Two nodes. Each has the sender's loop (one case of the select per action, the
credit loop one iteration per action), the receiver's `decode` (stopped at each
channel operation by `pc`), and a pipe of two bounded channels in each direction
for `sendCodewords`, TCP and `receive`. `budget` bounds how many codewords a
node may lose; `applied` is history. Both cases of the select of `decode` end by
putting what was decoded into `decodedTransaction`, where `decode` waits for the
controller (`pc` is "report"). How long is open here: nothing makes the controller
take anything, and `NodeRelay`, which has the transactions and the controller,
shows when it never does. So `LossesHeard` has a premise: the losses of a node
reach its peer's sender if the peer's `decode` comes back from the controller again
and again. Without the premise it fails, since a `decode` that waits for ever reads
no more codewords. The node's own `decode` needs no such premise, and none is made
about the loss channels and codeword channels, which close a cycle through both
nodes.

### NodeRelay - `node/controller.go` and the channels
`puts` is what is left of the controller's current case: the blocking puts of
`notifyUnexpiredTransaction` and `notifyExpiredTransaction` for each peer in
turn. `buf` is what a receiver has still to report after a call of its decoder.
`Decodable` is not code of the node but an assumption about the others: what a
receiver can decode is what its remote end can have encoded, that is what other
nodes have (`Remote`), and what this node sent to it or to another peer
(`encoded`), which comes back as an echo. A transaction decoded from an expired codeword is a choice.

### Riblt, Reconcile - `riblt/*.go`
| variable | code |
|---|---|
| `encoder`, `window`, `remote`, `local` | the coding windows of `Encoder` and `Decoder`: `next` is the heap with the mappings, `nextIdx` |
| `cs`, `dirty`, `pending` | fields of `Decoder` |
| `didx` | position in the loop of `TryDecode`, one dirty coded symbol per step |
| `mapping` | what `nextIndex` makes of each hash |

A sum and its checksum are both the set of symbols XORed in an odd number of
times; the mapping of every symbol is any increasing sequence that starts with
0. `applyWindow` looks only at the head of its heap, so a head that fell behind
stops all (`Due`). The caller decides after any number of coded symbols whether to
decode, or decodes two subtracted sketches (`sketched`). `Reconcile` is the promise:
what is found is in the difference, `done` is said only when all of it is found, and
stays. Symbols are added before the first coded symbol of a block, as all
callers do; one added later would be behind `nextIdx`.

### Topology - `topology.go` and `main.go` of the simulations
The file as a sequence of connections, and what `main` makes of it: the number
of servers, the order of each list of peers, the delays. A file that lists a
connection twice puts a peer into `peers` twice; it is excluded (`Topologies`).

### EventQueue, LinkFifo - `des/simulator.go`
`Deliver(m, outs)` is `deliverNextMessage` when the handler returns `outs`;
protocols put their handlers in its place. The heap is a set of which the least
message is taken. `cur` and `running` are the loop of `main`, which calls `RunUntil`
once per report. `QueueSpec` is the simulator with handlers that return
anything, about which the first part of `SimulationProofs` is. `LinkFifo` is what protocols rely on: each
link delivers in the order of sending. The refinement mapping puts a message of a
link where the number of those scheduled by then says (`InPlace`). (`RunUntil` looks at the time before it
delivers, so it may deliver one event that is after the time it was given;
reports then include it.)

### PullSync - `newsim/pull.go`, `newsim/module.go`
Announcements, requests, responses and the flood of the first hop, over
`EventQueue`. `known[s][p]` is the handler's. A response for what is not in `known`
carries the zero transaction, 0. Outgoing messages are collected in the order of
the list of peers, as in the code.

### BlockSync - `newsim/coding.go`, `newsim/module.go`
One record per end of a link, with the fields of `sender` and `receiver`. A coded
symbol is its number and its block; the receiver is done after as many as the
difference has symbols, at least, and may need up to `MaxCells` (`Riblt` is about
what decoding does). `sendWindow`, a float in the code, counts in units of
`1/OverheadDen`. Shards are intervals of hashes, which differ from link to link
because each handler has its own `shardRandomizer`, shared by the two ends of it; the
order of shards is arbitrary. Here links are FIFO and delays arbitrary, so no clock
is needed; that the event queue provides FIFO links is what `QueueImplementsLinks`
shows.

### LtBlockSync - `simulator/node.go`, `simulator/module.go`
Senders and receivers of each pair, the decoder that a server shares among its
peers, the rate limiter (`lastScheduled`) and synchronized blocks, over
`EventQueue`. The decoder is `LtPeeling`'s fixed point, which `lt_decoder_refines`
justifies. Which transactions a codeword is over is chosen when it arrives:
nothing depends on it before. The first codeword of a new block is sent without
a look at the window, as in the code. `LtBlockSyncAssumption` excludes parameters
with which the smallest block has a window of 0: such a block is taken, one
codeword of it is sent, and with a window of 0 nothing more ever is.

Operators with the comment "mutant of" are variants with a plausible bug; each
property is confirmed to fail under one of them. They are used by nothing else.

## 4. Runs

| run | instance | shows |
|---|---|---|
| `lt_decoder_colliding` | 3 transactions, two of them colliding, 3 codewords, memory 3 | `IInv`, `NoPanic`, `PeelingComplete`, `ReportsNews`, `CallsReturn`: when codewords fail to decode and transactions are forgotten |
| `lt_decoder_refines` | 3 transactions, 3 codewords, memory 3 | the decoder implements `LtPeeling` (`ImplementsPeeling`) and its progress; `Sound`, `StubsAreUnknown` |
| `lt_decoder_remembered` | 1 codeword, memory 2 | `LatestRemembered` is *violated*: see Findings |
| `lt_encoder` | both encoders, 5 transactions, two colliding, windows of 0, 2 and 4 | `WindowHashed`, `OrderKept`, `WellFormed` |
| `ldpc_reservoir` | as `lt_encoder` | `EverySetDrawn` is *violated*: see Findings |
| `ldpc_decoder` | 2 decoders, 3 codewords, 3 stubs, 2 hashes, memory 1 | `PoolSafe`, `Disjoint`, `Recycled`, `PeelingComplete`, `NoPanic` |
| `node_loss` | 2 nodes, one loses up to 2 codewords, all channels of capacity 1 | `LossConserved`, `LossesHeard`, `LossTypeOK` |
| `node_relay` | 2 peers, 1 local and 1 remote transaction, all channels of capacity 1 | `RelayExact`, `EchoBounded`, `OnlyWedgeStops`, `WedgeIsPermanent` |
| `riblt` | 4 symbols, 4 coded symbols, all mappings, streams and sketches | `PendingExact`, `PeelsAll`, and the decoder implements `Reconcile` |
| `block_sync` | 3 servers in a line, the middle one floods; 2 shards over 8 hashes, 3 transactions | `NothingLost`, `DecoderAligned`, `InFlightExact`, `Spreads` |
| `pull_sync` | 4 servers, a triangle and one more, delays 1 and 2, one floods; 4 transactions in bursts of 2 | `EventsInTime`, `ExchangeOnce`, `AllReceived`, and the queue implements `LinkFifo` |
| `lt_block_sync` | 2 servers, one of them synchronized, 4 transactions, threshold 2 | `InFlightExact`, `BlockHandshake`, `ForwardedOnce`, `Paced` |

Why the bounds are enough.

* Three codewords over three transactions give chains (one decoded transaction
  releases the next codeword), cycles that peeling cannot resolve, and a stub
  that blocks several codewords, some of which fail. In
  `lt_decoder_colliding` a transaction can be added again under the hash of
  another, so the list of a memory of 3 fills up and forgets.
* A window of 4 with 5 transactions, two colliding, evicts after a shuffle,
  refuses, and takes again what was evicted; a degree of 2 to 4 gives swaps that
  meet, and for the reservoir of ldpc replacements of replaced ones.
* Two decoders and three codewords are the least for one decoder to get what
  another put back while both hold more.
* Channels of capacity 1 are full after one put, so every combination of full
  and empty channels is reached; larger ones only lengthen the way there.
  `node_loss` gives losses to one node only: the two directions meet in the
  sender's select and share no other state, and TLC's graph with fairness stays
  small. Its codeword costs one unit of credit and the rate starts at its floor
  of one, so that the credit loop runs once, and several times when a report has
  raised the rate.
* Four symbols over four coded symbols, with every mapping, are enough for
  stopping sets of two and more, for symbols of both sides that cancel a count
  but not a sum, and for peeling that makes earlier coded symbols dirty again.
  `SYMMETRY` is over the symbols, which no definition tells apart.
* A line of three is the least with a server that forwards as receiver of one
  link and sender of another. The hashes are the two ends of shards, on either
  side, and the largest one. Three transactions give blocks that overlap
  with the acknowledgements and the bursts of the one before.
* The triangle makes every transaction come from two sides, over paths of equal
  and different length; the fourth server gets it from one side and floods its
  own. Bursts of two schedule several messages for one instant and one link.
* Two servers that exchange codewords decode what they sent themselves; four
  transactions with a threshold of 2 give several blocks, the first of which is
  still acknowledged when the next one starts. `Duration` is long enough for all
  of them in `lt_block_sync`, and for everything to spread in `pull_sync`.

Four runs do not check for deadlock because the system may stop: nothing forces
new transactions (`node_relay`, whose wedge is a deadlock as well, and
`block_sync`, in which nothing is under way before the first one), and the
programs end with the loop of `main` (`pull_sync`, `lt_block_sync`).

### Refinements
`lt_decoder_refines` (`LtDecoder` to `LtPeeling`), `riblt` (`Riblt` to
`Reconcile`), the safety of both also proved, and `pull_sync` (the event queue with servers to `LinkFifo`: a link is
the sequence of the messages in the queue between its ends, by number). In each the
abstract specification is a PROPERTY of the run.

### Fairness
* `LtDecoder`: weak fairness of `DecodeStep`, a loop of the running goroutine.
* `NodeLoss`, `NodeRelay`: the Go scheduler runs every goroutine that can run
  (weak fairness of the plain statements and channel operations), and `select`
  chooses uniformly among the ready cases (strong fairness of each case, because
  taking another one disables it for a while). Tickers keep ticking, and a
  tick waits for the sender to take it (`SendTick`); codewords are then produced and
  carried, as TCP delivers. In `NodeLoss` `TakeCodeword` is strongly fair, since the
  other case of its select may be taken in between, and nothing is assumed of what
  waits for the controller (`TakeNewTransaction`, `ReportDecoded`). Nothing forces a peer to connect, a transaction to be generated, a
  codeword to decode or to expire.
* `BlockSync`: the simulator delivers every message it has queued, since
  each message has a time and time goes on: weak fairness of handling
  the head of each link and of each pair's floods. Arrivals are not fair.
* `PullSync`: weak fairness of the next step of a single-threaded program.

### What the runs show about the node
`OnlyWedgeStops` and `WedgeIsPermanent` together: the node relays everything it
takes unless the controller, putting a transaction into the full
`newTxToReceiver` of some peer, meets that peer's receiver while it puts what it
decoded into the full `decodedTransaction`. The state is reachable in the model,
it never ends once entered, and it is the only way to stop. With the capacities
of the code (100 and 1000) it needs a burst of that size.

### Findings
`ldpc_reservoir`: the comment at `ldpc/encoder.go:87` says "reservoir
sampling". The loop starts at `midx := deg`, the index of the first transaction
not yet in the reservoir, and adds at least 1 before it looks, so
`window[deg]` is never drawn: over a window of `deg+1` every codeword of degree `deg` is
over the same oldest ones.

`lt_decoder_remembered`: the comment at `lt/decoder.go:133-135` says that the
comparison in `storeNewTransaction` has the effect of a pointer comparison. With
data compared by value it has not: add A, then B with the salted hash of A, then
A again, with a memory of 2. The list is A, B, A; the first A is dropped, the map
holds the second A, equal by value, and is deleted with it, although the list
still holds it. Nothing breaks (`NoPanic` and `IInv` hold with
collisions), but the decoder forgets early what it was told last.

## 5. Proofs

All are for every value of the constants, from the named assumptions of the
modules only. These leave the data, the hash functions (colliding or not), the
mappings of riblt, and the numbers of codewords, decoders, peers and messages
arbitrary, as well as memories, window sizes, rates and channel capacities; what the
code keeps in memory is taken to be finite. The two theorems about `LtPeeling` have
the hypothesis `Remembers` (no collisions, memory for all transactions), which
`MCLtDecoderRefines` assumes of its instance.

* `SequenceLemmas`: what the proofs share. `SetInduction` and `SubsetInduction`
  state induction over numbers and over finite sets for a *set* in place of a
  predicate, so that the first-order provers can use them: to show that all `n` have a
  property, apply them to the set of those that have it. From them follow what
  the recursive operators of the library do: `FlattenSeq` (at which positions each
  part starts, and that nothing is repeated when its parts are without repetition
  and disjoint), the orders of a finite set, maxima and minima,
  the count of elements, and sums over a finite set, which do not depend on the
  order in which they are taken (`SumsSplit`, `SumsRename`).
* `LtProofs`, about the decoder of lt:
  * First the algebra of XOR: XOR-ing an element into `XorAll(f, S)` adds it to or
    removes it from `S`, by the parity of cardinalities. The encoder needs one case
    of it, adding one element to a sum (`XorAllAdd`).
  * `InductiveInvariant`: `IInv` is `TypeOK` and five conjuncts that need one
    another. `PendingUnknown` (received and pending are disjoint) needs
    `StubsNeeded` and `Linked`, because what is peeled is found through
    `blocking`; that a queued codeword is decodable (`QueuedWhenDecodable`)
    needs `Linked` for the codewords `Peel` touches; `MemoryBounded` needs that a
    stored transaction is filed under its own hash. One lemma per action.
  * `NeverPanics`, `PeelsToTheEnd`, `MemoryIsBounded`, `StubsAreFreed` follow
    from it; `ReportsOnlyNews`, about the steps, from what it says before each.
  * `DecodesOnlyTransactions` (`Sound`) is inductive with `IInv`: the set of
    transactions left in a codeword changes by the one that is peeled, and
    without collisions a last stub determines it.
  * `CodewordsTrackContent` shows that the stubs left in a codeword are the unknown
    transactions of its content, from which `DecoderImplementsPeeling` maps every
    step to a step of `LtPeeling` or to a stutter. It needs that nothing is ever
    forgotten, which follows from the size of `Tx` and the absence of duplicates in
    `recent`.
* `LtProofs`, about the encoders of lt and of ldpc:
  * `WindowStaysHashed`. By itself `WindowHashed` is not inductive: swaps must stay
    within the window, which `HistoryOK` adds (the undo list holds positions of the
    window, and is empty when the window changes length). Appending, dropping the
    head and swapping each have a lemma about a window and its hashes.
  * `OrderIsKept`. In the middle of a codeword the window is not `order` but what
    the swaps of the undo list make of it: there is a sequence of windows that
    starts with `order` and ends with `window`, each the swap of the one before
    (`Shuffles`). A sampling makes it longer, an undone swap shorter, because a
    swap undoes itself.
  * `CodewordsWellFormed`. `Produced` says that a codeword in the making is over the
    first entries of the shuffled window, which later swaps do not move, and
    after the sampling over entries that undoing only permutes. For ldpc the
    selections of the reservoir are shown to hold as many *different* positions of
    the window as the degree says, however far the loop jumps
    (`DrawsProperties`, by induction over its position).
* `LdpcDecoderProofs`: one invariant for `NoSharing`, `RecycledInTime`, `PoolIsSafe`
  and `PanicFree`. Ownership is what the links between objects say: a stub in use is
  filed under one hash of one decoder and blocks exactly the codewords that
  have it as a member (`Linked`, `Filed`), a codeword that is decoded has no members
  left (`Spent`), and only what is neither linked, held nor queued is in a pool, and
  is there once (`InUse`, `PooledOnce`). The steps that end a codeword or learn a
  transaction all remove one stub from a set of codewords, which `UnlinksKeepsInv`
  treats once for all of them. `NothingLeftBehind` needs one thing more, `Waiting`:
  a codeword that is not decoded carries the queued flag exactly while it is in a
  work list, which `reset` establishes for a recycled one. That a codeword with at
  most one stub was added with at most one unknown hash rests on stubs being filed
  under different hashes.
* `RibltProofs`:
  * The invariant says of each coded symbol of the decoder that its sum and
    count are those of the symbols still missing and still surplus whose mappings
    include it (`CellInv`), of each coding window that every mapping stands at its
    first index not below `nextIdx` (`WindowsInv`), and of the dirty list that it
    holds each dirty coded symbol once and every pure one that has not been looked
    at (`DirtyInv`).
  * `PendingCounts`, from `PendingInv` and `DirtyInv`.
  * `PeelsToTheLargestStoppingSet`: every stopping set of the difference stays within
    what is not yet decoded (`PeeledInv`, because a symbol is decoded only if some
    coded symbol has no other symbol), and what is left when the dirty list is empty
    is itself a stopping set. So the order of peeling does not matter.
  * `ReconcileImplemented`: no step of the decoder leaves the abstract one. That
    `done` is right needs that the first coded symbol is over all symbols, so that
    nothing pending means nothing missing (`DoneFindsAll`).
* `SimulationProofs`, about the event queue: the inductive invariant adds `Pending`
  to the two properties: no message in the queue arrives in the past, its number is
  below the next one, and one on a link arrives no later than one sent now would. So
  what is scheduled now neither runs time backwards (`DeliversInTime`) nor overtakes
  on its link, also when both arrive at once (`LinksInOrder`).
  So delivery takes the first message of its link, whose others move up by one
  place (`PlacesMoveUp`), and what is scheduled takes the places behind
  (`PlacesKept`): the queue implements `LinkFifo` (`QueueImplementsLinks`). Both
  need that messages have different numbers (`IsNumbered`), and neither anything
  of the handlers.
* `SimulationProofs`, about the pull protocol: each of its handlers returns messages
  that a module may schedule (`PeerReturns`, `BlockArrivalReturns`), so every step
  of its servers is one of the simulator (`PullStep`), and what holds of it holds of
  them (`PullDeliversInTime`, `PullImplementsLinks`).
* `SimulationProofs`, about what the servers exchange: `TransactionsExchangedOnce`, on any
  topology. `PullInv` says for each two peers and each transaction where their
  exchange stands (`ExchangeOK`): at most one message of it is under way; what
  is announced has been received by the one who announces it, and is known to
  be known by it; and what only one of the two knows is being exchanged. It needs
  that messages of exchanges go between peers and concern transactions that
  were generated (`Addressed`), that servers are peers of one another, each once
  (`PeersProperties`), and that a handler sends at most one message of each
  exchange, however many peers it announces to (`FlattenSeqInjective`). All handlers
  change the exchanges of one transaction only, so one lemma (`HandleInv`)
  takes the invariant through each.
* `BlockSyncProofs`: `NothingIsLost`, `DecoderStaysAligned`
  and `InFlightIsExact` follow from one invariant, `BlockInv`, over all links.
  * A link is in one of four phases (`InPhase`): *between* two blocks, when only
    coded symbols that will be dropped are under way; a block *starts* somewhere
    in what is under way, behind what is left of the last one; the receiver
    *collects* its coded symbols and acknowledges each; it has decoded the block and the
    acknowledgement that *concludes* it is under way, the last one. Each phase says what every
    position of the two channels holds, and what `inFlight` and `sent` are. Of the
    phases, only two let the decoder take a coded symbol (`TakesPhase`), which is
    what the alignment is.
  * `Waits`: a sender with an open block has something under way. It holds
    because a window has room for one coded symbol at least (`RoomProperties`) and a new
    block begins with one in any case; a receiver acknowledges what it takes, and
    what it drops comes before what it takes or the concluding acknowledgement.
  * The transactions: each end covers what its server has received and the other
    has not (`CoveredBySender`, `CoveredByReceiver`). A handler forwards several
    transactions to all links at once, so one lemma (`ForwardKeeps`) takes the fold
    over them through the phases; every action is then a change of one link,
    followed by it.
  Symbols are decoded when and only when their block says; that decoding finds the
  difference of the two sets is `RibltProofs`' subject. The numbers of shards, the
  hashes, the connections and `controlOverhead` are arbitrary.
* `LtBlockSyncProofs`: `InFlightIsExact`, `BlocksAreHandedOver`,
  `TransactionsForwardedOnce` and `ForwardingIsPaced` follow from one invariant,
  `LtInv`, over the one queue of events that all links share.
  * Of each link (`LinkCore`), the two properties and what they need: a
    codeword behind the announcement of a block, and every codeword while a block
    is decoded, is about the block of the sender, and a receiver that has seen no
    block is told of one before it gets anything else (`BlocksAgree`). Without
    the latter a codeword could be counted for a block that was never announced; with it the
    announcement, taken off the link, hands the block over to the receiver, and the
    acknowledgement that concludes it back to the sender (`Handshakes`). Which codeword is
    the next to arrive is known from `QueueOK`: no message is in the past, numbers are
    different, and on a link later numbers arrive later.
  * `GoesOn` is kept because whenever a sender is touched it fills its window; that it
    then has something under way needs that a block of `minBlockSize` has room
    for one codeword (`LtBlockSyncAssumption`).
  * Of each sender (`NoDuplicates`), that its buffer and its block hold different
    transactions, none of which waits for its slot; and of what waits
    (`LoopsOK`), that no transaction does so twice, that all have been received, and
    that slots are `minInterval` apart and none is behind `lastScheduled`. A
    transaction is forwarded when it is new to the decoder, so this needs
    that the decoder knows exactly what is registered and has peeled all it can
    (`DecoderPeeled`): otherwise a block arrival could make it decode something that
    is not forwarded. It also needs that no codeword holds a transaction not yet
    generated (`MessageOK`, `LocalTypes`), or an arrival would not be new.
  * A handler sends to several links at once: `HandlerStep` says once what it adds
    to each link (`Burst`) and to the events of its server, whatever the order in which
    it visits its peers (`FlattenSeqPositions`). `WindowFilled`, `AckTaken` and
    `CodewordTaken` then speak of one link only.
* `NodeProofs`, about relaying:
  * `WedgeNeverEnds`. No step of `NodeRelay` ends the mutual wait: the puts of the
    controller and of the receiver are disabled by the full channels, the takes
    because neither is at its select, and every other step touches other peers. It
    needs only that each peer keeps its channels (`ReceiversInv`).
  * `RelayedExactly`. `RelayExact` speaks of the moments when the controller is at
    its select. In between, what it owes to each peer is in `puts` (`Sent`, `Told`),
    and nothing is addressed to a peer that it does not know (`OnlyConnected`).
  * `EchoesDieOut`. For every transaction, the times that it was taken, waits to
    be taken or waits to be reported add up to at most the peers whose decoder
    knows it, and one more if it was generated here (`Accounted`); a decoder reports
    it once (`ReportedOnce`) because it then knows it.
* `NodeProofs`, about loss feedback: `NodeLossTypeOK` (with the floor of the rate,
  and a credit that never falls below zero) and `LossesAreConserved`. The sum of
  `LossConserved` is kept by every step only together with `BetweenOperations`:
  between the channel operations of one iteration of `decode` its locals hold what it took
  and no more, and are empty at the select, or a loss would be counted twice. That
  appending to and taking from a channel changes its total by the element
  (`TotalAppend`, `TotalTail`) is where sums must not depend on their order: a
  channel is summed from its end, and is taken from at its front.

Only model-checked:

* all liveness (`CallsReturn`, `ImplementsProgress`, `LossesHeard`,
  `OnlyWedgeStops`, `Spreads`, `AllReceived`): fairness and `ENABLED` are out of the
  prover's reach;
* the violated `LatestRemembered` and `EverySetDrawn`.

## 6. Not modelled

* The degree distributions (an external package; the degree is a choice), hash
  functions, and the encoding and transport of codewords (gob and TCP, taken to
  be reliable and ordered).
* Floating point: the steps of riblt's `nextIndex` and of the reservoir's jump
  are taken to be positive and finite.
* Connection set-up of the node beyond `handleConn` (dialling and
  accepting in `main`), metrics and logging, and the end of the process when a
  connection breaks: any error there is a panic of the goroutine, after which
  there is nothing to say.
* In `LtBlockSync`, forgetting and collisions of the shared decoder (`LtDecoder`
  has both) and the sketches that measure overlap.
* `iblt` has no module of its own: it is lt's files.
* `testbed` (machines over SSH), `experiments`, `benchmark` and `microbenchmarks`
  are drivers around the packages above.
