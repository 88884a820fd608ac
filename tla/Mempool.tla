------------------------------ MODULE Mempool ------------------------------
(***************************************************************************)
(* The transactions of all nodes, from their creation to their removal:    *)
(* mempool/backend.go, mempool.go and producer.go, the batches that        *)
(* socket/txshare.go carries between nodes, and the places in replica.go   *)
(* that take a payload for a proposal and clean the pool after a block.    *)
(* Consensus is abstracted to: a proposer may take a payload at any time,  *)
(* and every node may receive every block once, at any later time.         *)
(***************************************************************************)
EXTENDS Integers, Sequences, SequencesExt

CONSTANTS
  Node,         \* the nodes
  Proposer,     \* those that come to lead a view
  Source,       \* the goroutines of a node that call AddTxn
  Tx,           \* transaction IDs
  Workloads,    \* what there may be to do: what each goroutine of each node adds,
                \* and the Byzantine nodes
  Limit,        \* MemSize
  BSize,        \* transactions per block
  DeliverSize   \* transactions per shared batch

ASSUME ProposersNodes == Proposer \subseteq Node
ASSUME WorkloadSeqs ==
  Workloads \subseteq [incoming : [Node -> [Source -> Seq(Tx)]], byz : SUBSET Node]
ASSUME SizesNat == {Limit, BSize, DeliverSize} \subseteq Nat

VARIABLES
  incoming,     \* incoming[n][g]: the transactions goroutine g of n adds; never changes
  byz,          \* the Byzantine nodes: they create no transactions and ignore the
                \* others'; never changes
  pool,         \* pool[n]: the Backend of n
  buffer,       \* buffer[n]: accepted and not yet shared
  todo,         \* todo[n][g]: what g has yet to add
  adding,       \* adding[n][g]: where g is in addNew
  net,          \* net[m][n]: transactions on their way from m to n, in order
  blocks,       \* the payloads proposed, in order
  cleaning,     \* cleaning[n]: the rest of the payload n is removing
  cleaned,      \* cleaned[n]: the blocks n has received
  accepted,     \* history: the transactions n has accepted
  shared        \* history: the transactions n has sent to the others

fixedVars == <<incoming, byz>>

vars == <<incoming, byz, pool, buffer, todo, adding, net, blocks, cleaning, cleaned, accepted, shared>>

-----------------------------------------------------------------------------
(* Backend: a list and a map from ID to list element.  Insertion is at the   *)
(* back, so the element of an ID in the map is always the last with that ID; *)
(* order keeps the map's keys.                                               *)

NewBackend == [txns |-> <<>>, order |-> {}]

push(p, tx) == [txns |-> Append(p.txns, tx), order |-> p.order \cup {tx}]

\* insertBack refuses.
isFull(p) == Len(p.txns) + 1 > Limit

lastIndex(s, tx) == CHOOSE i \in DOMAIN s : s[i] = tx /\ \A j \in DOMAIN s : s[j] = tx => j <= i

\* Mutant: a removed transaction stays in the list.
removeMapOnly(p, tx) == [p EXCEPT !.order = @ \ {tx}]

\* Mutant: the oldest transaction is removed instead of the one with the ID.
removeFront(p, tx) ==
  IF tx \notin p.order THEN p ELSE [txns |-> Tail(p.txns), order |-> p.order \ {tx}]

remove(p, tx) ==
  IF tx \notin p.order THEN p
  ELSE [txns |-> RemoveAt(p.txns, lastIndex(p.txns, tx)), order |-> p.order \ {tx}]

\* Mutant: a block is only filled when there is enough for it.
batchSizeFull(p) == IF Len(p.txns) >= BSize THEN BSize ELSE 0

batchSize(p) == IF Len(p.txns) >= BSize THEN BSize ELSE Len(p.txns)

\* The transactions some(n) returns, and the pool without them.
taken(p) == SubSeq(p.txns, 1, batchSize(p))

\* Mutant: what is returned also stays in the pool.
untakenKeep(p) == p

untaken(p) ==
  [txns |-> SubSeq(p.txns, batchSize(p) + 1, Len(p.txns)), order |-> p.order \ ToSet(taken(p))]

-----------------------------------------------------------------------------
(* MemPool.addNew, in the steps that another goroutine of the node can come  *)
(* between: only the insertion is under a lock.                              *)

Idle == [pc |-> "idle", tx |-> <<>>, batch |-> <<>>, seen |-> <<>>]

\* insertBack; when the pool is full the transaction is refused.
AddTxn(n, g) ==
  LET tx == Head(todo[n][g])
  IN  /\ n \in byz => g # "simulateTx"
      /\ adding[n][g].pc = "idle"
      /\ todo[n][g] # <<>>
      /\ todo' = [todo EXCEPT ![n][g] = Tail(@)]
      /\ IF isFull(pool[n]) THEN UNCHANGED <<pool, adding, accepted>>
         ELSE /\ pool' = [pool EXCEPT ![n] = push(@, tx)]
              /\ adding' = [adding EXCEPT ![n][g] = [Idle EXCEPT !.pc = "share", !.tx = <<tx>>]]
              /\ accepted' = [accepted EXCEPT ![n] = @ \cup {tx}]
      /\ UNCHANGED <<fixedVars, buffer, net, blocks, cleaning, cleaned, shared>>

\* At most one goroutine of the node adds transactions.
OneSource(n) ==
  \A g, h \in Source : incoming[n][g] # <<>> /\ incoming[n][h] # <<>> => g = h

\* The buffer is taken as a batch when the transaction does not fit any more, or
\* when the interval since the last time is over.  bufferSize is the length of
\* the buffer as long as one goroutine adds; several write it without a lock,
\* and it may then have any value.
TakeBatch(n, g) ==
  /\ adding[n][g].pc = "share"
  /\ \/ /\ buffer' = [buffer EXCEPT ![n] = <<>>]
        /\ adding' = [adding EXCEPT ![n][g].pc = "load", ![n][g].batch = buffer[n]]
     \/ /\ OneSource(n) => Len(buffer[n]) + 1 <= DeliverSize
        /\ adding' = [adding EXCEPT ![n][g].pc = "load"]
        /\ UNCHANGED buffer
  /\ UNCHANGED <<fixedVars, pool, todo, net, blocks, cleaning, cleaned, accepted, shared>>

\* mp.Buffer = append(mp.Buffer, tx): a read ...
LoadBuffer(n, g) ==
  /\ adding[n][g].pc = "load"
  /\ adding' = [adding EXCEPT ![n][g].pc = "store", ![n][g].seen = buffer[n]]
  /\ UNCHANGED <<fixedVars, pool, buffer, todo, net, blocks, cleaning, cleaned, accepted, shared>>

\* Mutant: a transaction that starts a new batch is not put into it.
newBufferSkip(a) == IF a.batch = <<>> THEN a.seen \o a.tx ELSE a.seen

newBuffer(a) == a.seen \o a.tx

\* BroadcastTX skips the node itself.
receivers(n) == Node \ {n}

\* The links of n after it has sent a batch.
BroadcastTX(n, batch) ==
  [m \in Node |-> IF m \in receivers(n) THEN net[n][m] \o batch ELSE net[n][m]]

\* ... and a write; then the batch, if there is one, is sent.
StoreBuffer(n, g) ==
  LET a == adding[n][g]
  IN  /\ a.pc = "store"
      /\ buffer' = [buffer EXCEPT ![n] = newBuffer(a)]
      /\ adding' = [adding EXCEPT ![n][g] = Idle]
      /\ net' = [net EXCEPT ![n] = BroadcastTX(n, a.batch)]
      /\ shared' = [shared EXCEPT ![n] = @ \cup ToSet(a.batch)]
      /\ UNCHANGED <<fixedVars, pool, todo, blocks, cleaning, cleaned, accepted>>

\* Producer.recv: no limit for what other nodes have accepted.
RecvTX(m, n) ==
  /\ net[m][n] # <<>>
  /\ net' = [net EXCEPT ![m][n] = Tail(@)]
  /\ pool' = IF n \in byz THEN pool ELSE [pool EXCEPT ![n] = push(@, Head(net[m][n]))]
  /\ UNCHANGED <<fixedVars, buffer, todo, adding, blocks, cleaning, cleaned, accepted, shared>>

\* GeneratePayload, for a proposal.  An empty payload changes nothing.
GeneratePayload(n) ==
  /\ n \in Proposer
  /\ taken(pool[n]) # <<>>
  /\ blocks' = Append(blocks, [proposer |-> n, payload |-> taken(pool[n])])
  /\ pool' = [pool EXCEPT ![n] = untaken(@)]
  /\ UNCHANGED <<fixedVars, buffer, todo, adding, net, cleaning, cleaned, accepted, shared>>

\* A block is handed to the goroutine that cleans; cleanBlocks has no buffer.
ReceiveBlock(n, b) ==
  /\ b \in DOMAIN blocks \ cleaned[n]
  /\ cleaning[n] = <<>>
  /\ cleaning' = [cleaning EXCEPT ![n] = blocks[b].payload]
  /\ cleaned' = [cleaned EXCEPT ![n] = @ \cup {b}]
  /\ UNCHANGED <<fixedVars, pool, buffer, todo, adding, net, blocks, accepted, shared>>

\* CleanTxn, for one transaction of the block.
CleanTxn(n) ==
  /\ cleaning[n] # <<>>
  /\ pool' = [pool EXCEPT ![n] = remove(@, Head(cleaning[n]))]
  /\ cleaning' = [cleaning EXCEPT ![n] = Tail(@)]
  /\ UNCHANGED <<fixedVars, buffer, todo, adding, net, blocks, cleaned, accepted, shared>>

-----------------------------------------------------------------------------

Init ==
  /\ pool = [n \in Node |-> NewBackend]
  /\ buffer = [n \in Node |-> <<>>]
  /\ \E w \in Workloads : incoming = w.incoming /\ byz = w.byz
  /\ todo = incoming
  /\ adding = [n \in Node |-> [g \in Source |-> Idle]]
  /\ net = [m \in Node |-> [n \in Node |-> <<>>]]
  /\ blocks = <<>>
  /\ cleaning = [n \in Node |-> <<>>]
  /\ cleaned = [n \in Node |-> {}]
  /\ accepted = [n \in Node |-> {}]
  /\ shared = [n \in Node |-> {}]

\* A step of goroutine g of node n.
Producing(n, g) == AddTxn(n, g) \/ TakeBatch(n, g) \/ LoadBuffer(n, g) \/ StoreBuffer(n, g)

Cleaning(n) == CleanTxn(n) \/ \E b \in DOMAIN blocks : ReceiveBlock(n, b)

Next ==
  \E n \in Node :
    \/ \E g \in Source : Producing(n, g)
    \/ \E m \in Node : RecvTX(m, n)
    \/ GeneratePayload(n)
    \/ Cleaning(n)

\* Every goroutine goes on, the links deliver, every proposer leads again and
\* again, and every node receives every block.
Fairness ==
  \A n \in Node :
    /\ \A g \in Source : WF_vars(Producing(n, g))
    /\ \A m \in Node : WF_vars(RecvTX(m, n))
    /\ WF_vars(GeneratePayload(n))
    /\ WF_vars(Cleaning(n))

Spec == Init /\ [][Next]_vars

FairSpec == Spec /\ Fairness

-----------------------------------------------------------------------------
(* Properties *)

ProposedTxs == UNION {ToSet(blocks[b].payload) : b \in DOMAIN blocks}

\* A transaction a node has accepted stays in its pool until it is in a block,
\* whoever proposes it and however late the other nodes' blocks and batches
\* arrive (backend.go some and remove).
NoTxLost ==
  \A n \in Node : accepted[n] \subseteq ToSet(pool[n].txns) \cup ProposedTxs

\* The list and the map agree: every transaction of a pool can be cleaned
\* when a block of another node contains it, and none is there twice.
OrderMatches ==
  \A n \in Node : pool[n].order = ToSet(pool[n].txns) /\ IsInjective(pool[n].txns)

\* No node proposes a transaction twice, although its own transactions, the
\* others' batches and the cleaning of their blocks reach its pool in any order.
ProposedOncePerNode ==
  \A b, c \in DOMAIN blocks :
    b # c /\ blocks[b].proposer = blocks[c].proposer
      => ToSet(blocks[b].payload) \cap ToSet(blocks[c].payload) = {}

\* Every accepted transaction is waiting to be shared or has been shared, at a
\* node where one goroutine adds: the buffer is emptied, read and written without
\* a lock, so that two of them may lose each other's (mempool.go addNew).
ShareComplete ==
  \A n \in Node :
    OneSource(n) =>
      accepted[n] \subseteq shared[n] \cup ToSet(buffer[n])
         \cup UNION {ToSet(adding[n][g].tx \o adding[n][g].batch) : g \in Source}

\* Every transaction a proposing node accepts is proposed, by itself or by
\* another: no interleaving of its goroutines leaves one behind (backend.go some).
EventuallyProposed ==
  \A tx \in Tx : (\E n \in Proposer : tx \in accepted[n]) ~> tx \in ProposedTxs
=============================================================================
