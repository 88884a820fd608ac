# A TLA+ model of multipipelinehs

`multipipelinehs` is a Byzantine fault-tolerant replicated log in Go: a HotStuff
in which two pipelines of blocks take turns, so that a leader proposes the next
block while the votes for the last one are still being collected. This directory
holds TLA+ modules of its two protocols, of the links between nodes, of the pool
of transactions and of a replica's start; TLC configurations that check them on
small instances; and TLAPS proofs, for every instance, of the main safety properties
of both protocols, of the links, of the pool and of the start, and of two refinements:
the links implement lossy FIFO links and, without faults, `mhotstuff` implements one log.

## 1. The system

| Component | State | Operations | Interaction |
|---|---|---|---|
| `mhotstuff` | highest two QCs and TCs, highest block, lock, buffered blocks and QCs, `proposeChan` | `ProcessBlock`, `ProcessVote`, `ProcessRemoteTmo`, `ProcessLocalTmo`, `MakeProposal` | called from the loops of `replica`; its own loops meet in `proposeChan` |
| `mthotstuff` | as `mhotstuff`, plus a second lock and a vote type | the same five | the alternative that `NewReplica` may choose |
| `replica` | `eventChan`, `dualEventChan`, `newViewChan`, timer, start flag | message handlers, main loop, vote loop, new-view loop, `startSignal`, kick-off | network messages become events; commits and forks are delivered |
| `pacemaker` | `curView`, `curSeq`, queue of new views, timeout messages per view | `AdvanceView`, `ProcessRemoteTmo` | announces each view to `replica` |
| `blockchain` | levelled forest of blocks, votes per block | `AddBlock`, `AddVote`, `GetBlockByID`, `CommitBlock` | shared by the main loop and the vote loop |
| `election` | none | leader of a view, rotating (SHA-1) or static | everywhere |
| `node` | `MessageChan`, `TxChan` | `recv`, `handle`, `txn`; silence strategy | takes from the socket, calls the handlers of `replica` |
| `socket`, `transport` | a transport per peer, channels, fault flags and timers | `Send`, `Broadcast`, `Recv`, `Dial`; `Drop`, `Slow`, `Flaky`, `Crash` | several goroutines of a node send at the same time |
| `mempool` | list and map of transactions, buffer to share | `AddTxn`, `GeneratePayload`, `CleanTxn`, sharing of batches | payload of proposals, cleaned on every block |
| `client`, `benchmark`, `db`, `server`, `config`, `crypto`, `log` | | load, measurement, start-up | outside the protocol |

**How a view works.** The leader of view *v* proposes block *v* with sequence
number *v* + 1. The block extends block *v* - 1 (`PrevID`) and carries the
certificate of block *v* - 2. A replica that accepts block *v* sends its vote to
the leader of *v* + 2. That leader's vote loop builds the QC and then waits on
`proposeChan` until its main loop has received block *v* + 1; only then does it
apply the QC, enter view *v* + 2 and propose. A block is committed when it is the
oldest of three blocks chained by certificates.

**Timeouts.** A timeout covers the current view and the next one. A supermajority
of timeout messages gives two TCs. The leader of the first makes a `TimeoutF`
proposal on its second-highest QC and tells its vote loop to drop what it has;
the leader of the next view, on receiving it, makes the `TimeoutS` proposal.

**What is hard.** Three loops of one replica share the certificates, the view and
the forest. They communicate through bounded channels in which each can wait for
another. Blocks, votes, QCs and timeout messages arrive in any order relative to
each other, and whatever arrives early is buffered. A view can be left by a
QC, by timeout messages, by another leader's timeout proposal. The commit rule
follows certificates, the committing walk follows `PrevID`, and pruning follows
levels; with timeouts these are three different things. `PROJECT.json` lists the
hazards line by line.

The start of a replica has races of its own: three goroutines may each find it
not started, and the channel they signal on is read once. So have the links: two
goroutines that find no connection both dial. And the pool: transactions are added,
shared, proposed and cleaned by four goroutines, and part of its state has no lock.

**What makes the components correct.** Consensus: certificates, locks and commits
rest on quorums, replicas commit one log, and go on committing. Links: at most
once, in order where one goroutine sends, nothing lost without a fault. Pool: no
accepted transaction is lost or proposed twice by one node, each is proposed.
Start: the replica runs, handles what arrives and never goes back.

## 2. Modules

| Module | Models |
|---|---|
| `LevelledForest` | `leveled_forrest.go`, `container.go` and the walk of `BlockChain.CommitBlock`, as operators on a value |
| `MHotStuff` | the replicas: `mhotstuff.go` on `replica.go`, `pacemaker`, `quorum.go` and the network; the refinement to `Ledger` |
| `MTHotStuff` | extends `MHotStuff` by what `mthotstuff.go` does differently |
| `Consensus` | either protocol, as `NewReplica` chooses; fairness |
| `Ledger` | abstract: one log that grows at its end, a prefix of which each replica has delivered |
| `MCConsensus` | small sets of nodes and the leaders that `rotation.go` and `static.go` give them |
| `MHotStuffProofs` | the inductive invariant, lemmas about every method and every action, and the theorems |
| `MHotStuffViews` | a second inductive invariant, of views, sequence numbers and TCs, and its theorems |
| `MHotStuffPipelines` | the protocol without faults: all replicas in step, and what follows, the refinement included |
| `MTHotStuffProofs` | the theorems about the variant |
| `Startup`, `MCStartup` | how one replica starts: `node.go`, the handlers and `Start` of `replica.go`, the signal of `producer.go` |
| `StartupProofs` | the theorems about the start |
| `Socket`, `MCSocket` | `socket.go`, `transport.go`, `utils.Retry`: sending, receiving, injected faults |
| `SocketProofs` | the theorems about delivery, and the refinement to `Link` |
| `Link` | abstract: a lossy FIFO link per pair of nodes |
| `Mempool`, `MCMempool` | `backend.go`, `mempool.go`, `producer.go`, `txshare.go`, and where `replica.go` uses them |
| `MempoolProofs` | the theorems about the pool |
| `SequenceLemmas` | what appending, removing and concatenating do to the members of a sequence, and induction, for the proof modules |

### The protocols

`MHotStuff` has three variables. `st[r]` is the record of replica *r*: its fields
carry the names of the code. `block[v]` is the block proposed for view *v*, which
also stands for its hash. `tmos` is the set of timeout messages sent. The methods
of the code are operators that take a replica's record and return the changed one;
an action applies one whole handler.

| Loop | Actions |
|---|---|
| main loop | `ProcessBlock`, `ProcessBufferedBlock` (the recursive call), `ResumeBlock` (after a wait on a full `proposeChan`), `ProcessRemoteTmo` |
| vote loop | `ProcessVote`, then `ReceiveSignal` while a QC waits |
| new-view loop | `MakeProposal`, `ResumeProposal` |
| timer | `ProcessLocalTmo` |
| start | `KickOff` |

`MTHotStuff` has the same loops. A replica's record has more fields there (second
lock, vote type, the snapshot of both that a handler takes), and the handlers that
differ have actions of their own with the prefix `MT`; the others are shared.
`Consensus` tells the protocol from the fields of the replicas' records, so that one
run covers both.

Modelling decisions worth knowing:

- *Blocks are named by their view.* This is sound because a leader proposes once
  per view, which is `NoEquivocation`, checked and proved. The hash in the code leaves
  the view out (`block.go:52`), but contains the sequence number.
- *Network.* A vote or a block sent may arrive at any later time or never; with
  `Ordered`, messages of one kind on one link arrive in order (see `Socket` for when
  that is so). A timeout message may be delivered more than
  once and in any order, which covers a timer that fires again. A stale vote is
  discarded when it is sent and not on arrival: views only grow, so every vote that
  passes the test later passes it then.
- *gob refuses a slice with a nil element* (`Encodable`): such a block is processed
  by its leader and reaches nobody else.
- *A vote's channel.* The network and `dualEventChan` are one bag. The capacity of
  the channel is therefore not enforced; `DualChanFits` states that it suffices where it
  matters: whenever the vote loop waits for a signal that nobody has sent yet. At other
  times a full channel only delays its senders.
- *Every announcement of a view is queued, but only those a replica leads are kept*,
  since `processNewView` ignores the others.
- *Silent replicas* discard everything and so never start (`node.go:118`). *Forking*
  ones (`Forking`) advance on the QC of the view before one they lead without taking it over, and
  then propose on an older certificate: in `mhotstuff` as if there had been a timeout
  (`mhotstuff.go:424`), with the TCs they happen to hold, and without any the proposal cannot be
  encoded and stays with its leader; in `mthotstuff` as an ordinary proposal, which reaches
  everybody and may be voted for (`mthotstuff.go:431`).
- *The timer reads the view and the sequence number in two calls* (`replica.go:255`).
  With `TornRead` the second may be read after one advance.
- Signatures are valid and hashes distinct. `lastVotedSeq` is the constant 0 because
  nothing calls `updateLastVotedSeq`.
- A panic or an endless walk in `PruneUpToLevel` sets `crashed`, which stops the replica.
- `nth`, `received`, `voted`, `committed` and `forked` are history: they record
  orders and outcomes.

### Start, links, pool

`Startup`: `startSignal` is three steps (test, flag, signal), and so is the kick-off
(test of the view, `AdvanceView`, starting vote), for each of the goroutines `handle`,
`txn` and `activate`. The channels have their capacities (constants). What arrives, and
whether the replica leads view 1, is Byzantine or silent, is chosen at the start. Consensus
is abstracted to: a block may advance the view.

`Socket`: `Send` is the check of the faults, the lookup, the attempts of `Retry`, the
store into the map and the put into the transport's channel, in separate steps, per
goroutine. A fault is a flag and a timer. Which messages are sent and which faults may
happen is chosen at the start from `Scenarios`. Sockets appear in any order, so that a
peer may not listen yet; a node whose attempts are used up panics.

`Mempool`: `addNew` is split where another goroutine can come between (insertion, taking
the batch, read and write of `Buffer`). A proposer may take a payload at any time, and
every node receives every block once, at any later time. A pool is its list and the set
of the map's keys; insertion is at the back, so that the element of an ID is always the
last with that ID.

## 3. What is checked

Deadlock is not checked: every behaviour ends when the views reach `MaxView` or
everything is sent, and the liveness properties look for stuck states instead.

| Run | Instance | Shows | Distinct states |
|---|---|---|---|
| `pipeline` | both protocols, 3 nodes, rotating leader, 12 views, fair | `PipelinesAlternate`, `EventuallyCommitted` | 7,398 |
| `silence` | both, 4 nodes, one silent, static leader, 12 views, fair | `QCBacked`, `EventuallyCommitted` | 4,408 |
| `timeout` | `mhotstuff`, 2 nodes, rotating leader, 14 views, timeouts in view 5 | `TypeOK`, `LockBacked`, `CommitBacked`, `CommitLocked`, `TCBacked`, `Agreement`, `CommittedPrefix`, `LedgerSpec` | 31,232 |
| `mttimeout` | `mthotstuff`, the same to view 12 | `LocksOrdered`, `MTCommitBacked`, `CommitLocked`, `TCPair`, `Agreement`, `LedgerSpec` | 25,741 |
| `twotimeouts` | `mhotstuff`, 2 nodes, static leader, 11 views, timeouts in 4 and 8 | `PruneTerminates` | 507,097 |
| `fullchannel` | both, 1 node, 8 views, timeouts in 3 to 6 | `QCOrder`, `TCPair`, `DualChanFits`, `NoEquivocation` | 35,881 |
| `faults` | both, 2 nodes, one forking, torn reads, rotating leader, 7 views, timeouts in view 3 | `SeqFollowsView`, `CommitLocked`, `NoEquivocation` | 564,817 |
| `mempool` | 2 nodes, 3 transactions, limit 1, batches of 1, blocks of 2; one goroutine adds per node, or two at one and a Byzantine peer; fair | `NoTxLost`, `OrderMatches`, `ProposedOncePerNode`, `ShareComplete`, `EventuallyProposed` | 297,333 |
| `socket` | 3 nodes, 2 attempts, channels of 2, one fault, one broken connection; one goroutine sends three messages, two send two each, or broadcasts and an answer; fair | `TypeOK`, `AtMostOnce`, `OrderedUnlessRedialled`, `LinkSpec`, `EventuallyReceived` | 83,046 |
| `startup` | four kinds of traffic, leader or not, Byzantine or not, silent or not; channels of 2; fair | `ViewNeverFalls`, `EventuallyRunning`, `EventuallyKickedOff`, `HandledByOneStarter` | 14,969 |
| `gaps` | `mhotstuff`, 2 nodes, static leader, 14 views, timeouts in 4 and 8 | counterexample to `CommittedPrefix` | |
| `startdeaf` | `startup` with traffic from peers | counterexample to `EveryMessageHandled` | |

**Bounds.** Twelve views are needed for a block to be committed in every replica with
several commits on top (in `mhotstuff` the first, of block 1, happens when block 7 is
processed). One view that times out already exercises both kinds of timeout proposal
and TCs read late; two are needed before the certificate chain and the `PrevID` chain
separate. Four successive timer views on one node are what it takes to fill
`proposeChan`'s four places, so that both senders block and resume. In `faults` the forking node leads the views
4 and 5 and the other one the two after it; there `mthotstuff` commits, also with a block certified
that the forking leader has built on an old certificate, while `mhotstuff`, where such a block stays
with its leader, commits nothing within these views. Four nodes are the
smallest number where a quorum (three) leaves somebody out; there the silent node is
the one left out, so that votes after a QC do not occur. (They do with four voting nodes;
to view 5 that instance was checked for `QCBacked` and `DualChanFits` and held, and
`QCBacked` is proved for all.) The channels of the start have two places instead of 8
and 2N, so that they fill up; three kinds of traffic have no more timeouts before their first
block than `eventChan` has places, and one has more. Two goroutines and two messages each are the least with
which a second dial can separate a goroutine's messages.

**Fairness.** In `Startup`, `Socket` and `Mempool`, weak fairness of every goroutine
(the Go scheduler), of the connections that are not broken (TCP), of timers, and of
messages, blocks and proposals to come. In `Consensus`, a replica with something to
do eventually does something, which is less than fairness of every goroutine; it is
written with the guards of the actions rather than `WF`, because TLC evaluates it
faster. Liveness of consensus is checked without timeouts only.

**Refinement.** `LedgerSpec`: every call of `CommitBlock` is a delivery of the abstract
log, and what replicas have committed, in the order of views, are prefixes of one log
that never changes below its end. `LinkSpec`: what is in a transport's channel and in
the receiver's is the queue of a lossy FIFO link; a fault, a panic or a broken
connection is a loss. It is claimed for the scenarios in which one goroutine of a node
sends and no peer is slow (`InOrder`, which never changes; in the others the mapping
makes the link stay empty).

### Where code and comments disagree

- `gaps`: `CommitBlock` "returns committed blocks up to the last committed one". A
  replica that a timeout message's QC has carried past a view drops that view's block
  as stale; the later walk stops there and leaves a hole. `CommittedPrefix` holds
  with one timed-out view and fails with two.
- `startdeaf`: `node.go` says of `handle` that it "receives messages from message channel
  and calls handle function". When `handle` and `activate` both see the replica not
  started, both signal, and `Start` receives once. If `handle` is the second it
  waits for ever and no further message is handled.

Met while modelling and not kept as runs:

- `commitRule` of `mhotstuff` says that it commits "if there are three adjacent certified
  block"; the comparison is commented out, and after a timeout a chain with a gap commits.
  `mthotstuff` has the same words and commits on two certified blocks.
- `AddTmo` notes "tmo.SSeq=tmo.view"; the code sends `SSeq = View + 1`.
- `PruneUpToLevel` says that a block is added to the pruned ones "if it is not committed".
  After two timeouts its walk stops at a missing block, and committed blocks are reported
  as forked.
- `CommitBlock` delivers the blocks of one call newest first (`blockchain.go:80`).
- `handleTxn` and `activate` may both kick off, which makes two starting votes; with a block
  arriving as well, `handle` may win the start and leave both waiting.
- `Drop` "drops every message send to NodeID last for t seconds" and the other faults say
  likewise. Every call has a timer of its own and the timers clear one flag, so a fault injected
  while one of the same kind is on for the peer ends with the first one's timer: two calls of `Drop`, one
  timer, and `Send` lets the next message through (`socket.go:184`). With the single fault of the run `socket` that
  does not happen, and no property says how long a fault lasts.
- More timeouts before the first block than `eventChan` has places block `handle` at a node
  that is not activated, and it never runs (the second half of `HandledByOneStarter`).
- Two goroutines in `addNew` may overwrite each other's `Buffer`: the transaction is then
  never shared. The last transactions in `Buffer` are shared only when another one comes. A
  batch that arrives after the block with its transactions puts them back, and another node may
  propose them again. From eleven nodes on two nodes make equal IDs.
- With torn reads a TC may have a sequence number that only the last timeout message asked for
  (`TCBacked` fails); locks and commits held all the same in a separate instance (timeouts in
  view 5, 10 views, 676,336 states).

`Agreement` holds in `timeout` and `mttimeout`, and in `mhotstuff` with two nodes under a static
leader and timeouts in the views 4 and 8 up to view 14 (876,000 states, not kept as a run). With
the rotating leader and two timed-out views random simulation finds two replicas whose commits
are on different `PrevID` chains: in `mhotstuff` (views 4 and 8, to view 16) after some 90
steps, in `mthotstuff` (views 5 and 7, to view 13) after some 84; `CommitLocked` fails there in
both. These instances are too large to exhaust within minutes, so they are recorded here
and as a hazard and not as runs.

## 4. What is proved

Every theorem holds for every value of the constants: every finite set of nodes, every
leader function, every set of silent and of forking nodes, any number of goroutines,
messages and transactions, every bound and capacity. The assumptions used are the
named ones of the modules (finite sets, natural bounds). Links may reorder except in
`MHotStuffPipelines`. Its theorems have the hypothesis `FaultFree`: ordered links (what
`LinkImplemented` gives when one goroutine of a node sends), no timer fires, nobody
forks. There may be any number of silent nodes, and the loops and what arrives on
different links may interleave in any way.

| Theorem | States | Module |
|---|---|---|
| `TypeCorrect` | `TypeOK` of `MHotStuff` | `MHotStuffProofs` |
| `CertificatesBacked` | `QCBacked` | |
| `CertificatesOrdered` | `QCOrder` | |
| `TimeoutPairs` | `TCPair` | |
| `LocksBacked` | `LockBacked` | |
| `CommitsBacked` | `CommitBacked` | |
| `NoTwoProposals` | `NoEquivocation` | |
| `ViewsFollowed` | `SeqFollowsView` | `MHotStuffViews` |
| `TimeoutsBacked` | `TCBacked`, if reads are not torn | |
| `LockStep` | `PipeInv`, if `FaultFree`, like the next six | `MHotStuffPipelines` |
| `PipelinesTakeTurns` | `PipelinesAlternate` | |
| `PruningEnds` | `PruneTerminates` | |
| `CommitsLocked` | `CommitLocked` | |
| `CommitsAgree` | `Agreement` | |
| `CommitsHaveNoHoles` | `CommittedPrefix` | |
| `LedgerImplemented` | `LedgerSpec` | |
| `MTInductive` | `MTInv`, the invariant of the variant | `MTHotStuffProofs` |
| `TwoLocksOrdered` | `LocksOrdered` | |
| `MTCommitsBacked` | `MTCommitBacked` | |
| `MTTimeoutPairs` | `TCPair` under `mthotstuff` | |
| `MTCertificatesBacked` | `QCBacked`, likewise | |
| `MTCertificatesOrdered` | `QCOrder`, likewise | |
| `MTNoTwoProposals` | `NoEquivocation`, likewise | |
| `ViewsGrow` | `ViewNeverFalls` | `StartupProofs` |
| `StartNotLost` | a start that is flagged and not running yet will be signalled | |
| `SocketTypes` | `TypeOK` of `Socket` | `SocketProofs` |
| `DeliveredOnce` | `AtMostOnce` | |
| `DeliveredInOrder` | `OrderedUnlessRedialled` | |
| `LinkImplemented` | `LinkSpec` | |
| `AcceptedKept` | `NoTxLost` | `MempoolProofs` |
| `AcceptedShared` | `ShareComplete` | |
| `PoolsOrdered` | `OrderMatches`, if `DistinctIDs` and `NoBufferRace` | |
| `NothingTwice` | `ProposedOncePerNode`, under the same conditions | |

**MHotStuff.** None of the properties is inductive alone. `IInv` (theorem `Inductive`)
strengthens the first seven:

- `KnownVotes`: a vote collected or in flight was cast. Without it a QC need not
  rest on voters (`QCBacked`).
- `KnownBlocks`: what the forest, the buffers and an interrupted handler refer to was
  proposed; with the validity of every proposed block's QC this gives the chains of
  `LockBacked` and `CommitBacked`.
- `GoodQueue`: at every replica, views proposed < view held < views queued, in
  increasing order, and none above `curView`. This is why no view is proposed twice.
- `PairOfTCs` also for the TCs inside blocks and between the halves of a timeout
  message, since `ProcessBlock` copies them into the replica.

A handler is a composition of operators on a record, and so is its proof: for each
operator a lemma of `MHotStuffProofs` shows that a good record becomes a good one.
What the other replicas rely on is monotone (`Grows`: proposals stay, votes stay), so
that a step of one replica keeps the others good. Then come the actions one by one.

`ViewInv` adds what views and timeouts need, in the same manner. The view of every QC and of
every TC is its sequence number, in replicas, in blocks and in what is announced or held,
so every call of `AdvanceView` moves both alike. For `TCBacked`, every counted timeout
message was sent, and without torn reads its sequence number follows from its view (0 in the
message for view 1, else the view): so the messages counted for one view all ask for the
sequence number the TC gets. With torn reads that fails, and so does `TCBacked`.

**MTHotStuff.** A replica's record has more fields there, so the lemmas about `ReplicaState` do
not apply as they stand. `Core(s)` is its projection to the fields of `MHotStuff`;
`MTInv` is `IInv` of the projections, so that the lemmas about shared methods carry over,
together with `GoodLocks`: the two locks are ordered and each is the sequence number of a certified
block. They stay so because a lock moves only to a later certificate that was collected or is
in a proposed block, and what is certified stays certified. A commit follows a certificate inside a certified block, hence two quorums.

**Without faults.** `PipeInv` says that all replicas go through the views in step. Block *v*
extends *v* - 1 and certifies *v* - 2, and each replica's state is a function of how
far it has come: highest block, lock, certificates, what the forest and
the buffers may hold, what waits in `proposeChan`. A replica that has voted for the blocks up
to *d* has committed those up to *d* - 6. The votes that make a QC are those of replicas that
accepted the block, which is why a commit comes with a supermajority of locks. The walks of
`CommitBlock` and `PruneUpToLevel` each take one step and find the vertex they look for, which
after timeouts may be missing. For `LedgerSpec`: a step moves the commits of one replica only, by
the views that come next, and the longest log of any replica is the abstract one.

**Startup.** `StartInv`: while the flag is set and the replica does not run, some goroutine is
about to signal, and nobody is past `startSignal` before the flag is set. The types in it
give `ViewNeverFalls`, since a kick-off goes through `AdvanceView`, which refuses an older view.

**Socket.** `DeliveryInv`: the transports in the map and in the hands of a goroutine
belong to the right link; whatever was sent is behind its goroutine's position (`SentPast`),
so the message being sent is new; and a message to a node is in one place only of transports,
delayed sends, the receiver's channel and what was received (`Once`). `OrderInv` adds, for
scenarios without a slow peer and links with a single transport, that what was received,
what is in the receiver's channel and what is in the transport are sorted and come in this
order.

`LinkInv` is for the refinement. In the scenarios of `InOrder` one goroutine of a node sends,
so a dial happens only while the map has no transport for the peer, every put goes to
the transport in the map, and no other one holds a message. The queue of the abstract
link from *m* to *n* is then the messages of *m* in *n*'s channel followed by those in that transport.
Each step appends to it, moves a message along without changing it, loses one (a broken
connection, a peer that panicked or discards what it receives), or hands the oldest one over.

**Mempool.** `PoolInv`: an accepted transaction is listed or in a block; `some` and `remove`
take only what is proposed. `ShareInv` follows it through `addNew`, over the steps between which another
goroutine may come. `OnceInv` is about duplicates. `Line(m, n, g)` is the sequence of transactions
that goroutine *g* of *m* has yet to hand to *n*: those on the link, in its batch, in the
buffer, in its hand, and to come. Taking the batch, loading and storing the buffer move
transactions along it without changing it; only a receipt shortens it, from the front. It is
without duplicates and disjoint from what *n* has ever had, so nothing comes back. This needs that
no ID is made twice (`DistinctIDs`) and that two goroutines do not race for a buffer whose
batches somebody accepts (`NoBufferRace`); both are statements about the workload, and both
workloads of the run `mempool` satisfy them. Without them the two properties are false: see the race
for `Buffer` and the equal IDs in section 3.

**Induction.** The facts about sequences are in `SequenceLemmas`. Induction over their length is
out of the prover's reach, but a least counterexample is not: `LeastNat` gets it from the
well-foundedness of `<` on the naturals. What a recursive function returns (the walks of the
forest, the messages of one node in a channel) is shown by exhibiting a function that satisfies
the recursive equation, and that two which do are equal (`SameWalk`, `WalkExists`).

All inductive invariants were first checked by TLC on the instances of the runs.

**Only model-checked.**

- `Agreement`, `CommittedPrefix`, `CommitLocked`, `PruneTerminates` and `LedgerSpec` with timeouts
  or forks: they are false in general (section 3), so the runs say only that so many timed-out
  views do no harm. Under `mthotstuff` they are model-checked in both cases.
- `PipelinesAlternate` without `FaultFree`: a timeout changes pipeline, and TLC finds a
  counterexample when links reorder.
- `DualChanFits`: it depends on the bounds of the instance.
- `HandledByOneStarter`, `EventuallyRunning`, `EventuallyKickedOff`,
  `EventuallyReceived`, `EventuallyProposed`, `EventuallyCommitted`: liveness, which is out of the
  prover's reach.

## 5. What is not modelled

- Interleavings inside a handler of the protocols. The code locks single fields, not handlers:
  the announcement of a `TimeoutS` view before its TCs are stored (`mhotstuff.go:149`),
  `bufferedQCs` shared without a lock, the signatures of a QC collected after the count
  (`quorum.go:107`).
- Waiting on a full `eventChan`, `dualEventChan`, `newViewChan` or `committedBlocks` once
  the protocol runs.
- Leaders that equivocate and invalid signatures: none of the code's strategies makes them.
- `socket`: `MulticastQuorum` and `Close` (no caller), UDP and in-process channels, a message a
  node sends to itself (no caller), the unlocked maps of the faults.
- `mempool`: `CollectTxn` (no caller; forked blocks' transactions are not collected back),
  the Bloom filter (unused).
- `node/http.go`, whose start is commented out, and with it the client and the benchmark, a
  load generator outside the protocol; the key-value store, which no part of the replica calls;
  cryptography, configuration, logging.

## 6. Plan

Done: the two protocols, their composition and refinement, start, links, pool; the inductive
invariants and theorems of `MHotStuff`, `MTHotStuff`, `Startup`, `Socket` and `Mempool`; the
refinements of `Link` and, without faults, of `Ledger`. Next:

1. Handlers split at their locks, for the races of section 5.
2. Liveness of consensus after a timeout.
