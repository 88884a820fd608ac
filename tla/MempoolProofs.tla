---------------------------- MODULE MempoolProofs ----------------------------
(***************************************************************************)
(* What the pools guarantee for every number of nodes and transactions and *)
(* every size of pool, block and batch: no accepted transaction is lost,   *)
(* and, where transaction IDs are distinct and the unlocked buffer is not  *)
(* raced for, list and map agree and no node proposes a transaction twice. *)
(***************************************************************************)
EXTENDS Mempool, SequenceLemmas, TLAPS

-----------------------------------------------------------------------------
(* The invariants *)

Backend == [txns : Seq(Tx), order : SUBSET Tx]

AddState ==
  [pc : {"idle", "share", "load", "store"}, tx : Seq(Tx), batch : Seq(Tx), seen : Seq(Tx)]

Block == [proposer : Node, payload : Seq(Tx)]

Types ==
  /\ incoming \in [Node -> [Source -> Seq(Tx)]] /\ byz \subseteq Node
  /\ pool \in [Node -> Backend]
  /\ buffer \in [Node -> Seq(Tx)]
  /\ todo \in [Node -> [Source -> Seq(Tx)]]
  /\ adding \in [Node -> [Source -> AddState]]
  /\ net \in [Node -> [Node -> Seq(Tx)]]
  /\ blocks \in Seq(Block)
  /\ cleaning \in [Node -> Seq(Tx)]
  /\ accepted \in [Node -> SUBSET Tx] /\ shared \in [Node -> SUBSET Tx]

\* The map leads to list elements, only proposed transactions are cleaned, and
\* so nothing else leaves the list.
PoolInv ==
  /\ \A n \in Node : pool[n].order \subseteq ToSet(pool[n].txns)
  /\ \A n \in Node : ToSet(cleaning[n]) \subseteq ProposedTxs
  /\ NoTxLost

\* The states of addNew; no other goroutine has changed the buffer since it was
\* read where one adds.
AddSteps ==
  \A n \in Node, g \in Source :
    LET a == adding[n][g]
    IN  /\ a.pc = "idle" => a.tx = <<>> /\ a.batch = <<>>
        /\ a.pc = "share" => a.batch = <<>>
        /\ incoming[n][g] = <<>> => todo[n][g] = <<>> /\ a.pc = "idle"
        /\ OneSource(n) /\ a.pc = "store" => a.seen = buffer[n]

Pending(n) ==
  shared[n] \cup ToSet(buffer[n])
    \cup UNION {ToSet(adding[n][g].tx) \cup ToSet(adding[n][g].batch) : g \in Source}

ShareInv == \A n \in Node : OneSource(n) => accepted[n] \subseteq Pending(n)

\* Every transaction is added once, by one goroutine of one node.
DistinctIDs ==
  \A m, n \in Node, g, h \in Source :
    /\ IsInjective(incoming[n][g])
    /\ m # n \/ g # h => ToSet(incoming[m][g]) \cap ToSet(incoming[n][h]) = {}

\* One goroutine adds at a node, unless all the others ignore what it shares.
NoBufferRace == \A m, n \in Node : m # n /\ n \notin byz => OneSource(m)

Added(n) == UNION {ToSet(incoming[n][g]) : g \in Source}

ProposedBy(n) ==
  UNION {ToSet(blocks[b].payload) : b \in {c \in DOMAIN blocks : blocks[c].proposer = n}}

\* What has been in the pool of n and may still be, or was proposed from it.
Known(n) == ToSet(pool[n].txns) \cup ProposedBy(n)

\* The transactions that goroutine g of m has yet to hand to n, in order: on the
\* link, in the batch, in the buffer, in the hands of g, and not yet added.
Chain(link, batch, buf, tx, rest) == link \o (batch \o (buf \o (tx \o rest)))

Line(m, n, g) == Chain(net[m][n], adding[m][g].batch, buffer[m], adding[m][g].tx, todo[m][g])

\* Nobody holds a transaction he did not add.
OwnTodo == \A n \in Node, g \in Source : ToSet(todo[n][g]) \subseteq ToSet(incoming[n][g])

OwnHands ==
  \A n \in Node, g \in Source :
    /\ ToSet(adding[n][g].tx) \subseteq Added(n)
    /\ ToSet(adding[n][g].batch) \subseteq Added(n)
    /\ ToSet(adding[n][g].seen) \subseteq Added(n)

OwnBuffer == \A n \in Node : ToSet(buffer[n]) \subseteq Added(n)

OwnLinks == \A m, n \in Node : ToSet(net[m][n]) \subseteq Added(m)

NoSelfLink == \A n \in Node : net[n][n] = <<>>

Owned == OwnTodo /\ OwnHands /\ OwnBuffer /\ OwnLinks /\ NoSelfLink

\* The pool is in order and nothing in it was proposed before.
PoolOnce(n) ==
  /\ pool[n].order = ToSet(pool[n].txns)
  /\ IsInjective(pool[n].txns)
  /\ ToSet(pool[n].txns) \cap ProposedBy(n) = {}

\* What n has yet to add, and what others have yet to hand to it, is new to it.
FreshOwn(n) ==
  \A g \in Source : IsInjective(todo[n][g]) /\ ToSet(todo[n][g]) \cap Known(n) = {}

FreshLine(m, n) ==
  \A g \in Source : incoming[m][g] # <<>> =>
    IsInjective(Line(m, n, g)) /\ ToSet(Line(m, n, g)) \cap Known(n) = {}

OnceInv ==
  /\ DistinctIDs /\ NoBufferRace
  /\ Owned
  /\ \A n \in Node : PoolOnce(n) /\ FreshOwn(n)
  /\ \A m, n \in Node : m # n /\ n \notin byz => FreshLine(m, n)
  /\ ProposedOncePerNode

-----------------------------------------------------------------------------
(* The operations of Backend *)

\* push adds one transaction to the list and to the map.
LEMMA PushPool ==
  ASSUME NEW p \in Backend, NEW tx \in Tx
  PROVE  /\ push(p, tx) \in Backend
         /\ push(p, tx).order = p.order \cup {tx}
         /\ ToSet(push(p, tx).txns) = ToSet(p.txns) \cup {tx}
         /\ IsInjective(p.txns) /\ tx \notin ToSet(p.txns) => IsInjective(push(p, tx).txns)
<1>1. p.txns \in Seq(Tx) /\ p.order \subseteq Tx
  BY DEF Backend
<1>pick. PICK a : a = Append(p.txns, tx)
  OBVIOUS
<1>2. /\ a \in Seq(Tx) /\ ToSet(a) = ToSet(p.txns) \cup {tx}
      /\ IsInjective(p.txns) /\ tx \notin ToSet(p.txns) => IsInjective(a)
  BY <1>pick, <1>1, AppendMember
<1>3. push(p, tx) = [txns |-> a, order |-> p.order \cup {tx}]
  BY <1>pick DEF push
<1>4. push(p, tx).txns = a /\ push(p, tx).order = p.order \cup {tx}
  BY <1>3
<1>5. push(p, tx) \in Backend
  BY <1>1, <1>2, <1>3 DEF Backend
<1> QED BY <1>2, <1>4, <1>5

\* remove takes at most the transaction with the ID from the list.
LEMMA RemovePool ==
  ASSUME NEW p \in Backend, NEW tx \in Tx, p.order \subseteq ToSet(p.txns)
  PROVE  /\ remove(p, tx) \in Backend
         /\ remove(p, tx).order \subseteq ToSet(remove(p, tx).txns)
         /\ ToSet(remove(p, tx).txns) \subseteq ToSet(p.txns)
         /\ ToSet(p.txns) \subseteq ToSet(remove(p, tx).txns) \cup {tx}
         /\ p.order = ToSet(p.txns) /\ IsInjective(p.txns) =>
              /\ remove(p, tx).order = ToSet(remove(p, tx).txns)
              /\ IsInjective(remove(p, tx).txns)
<1>1. p.txns \in Seq(Tx) /\ p.order \subseteq Tx
  BY DEF Backend
<1>2. CASE tx \notin p.order
  BY <1>2 DEF remove
<1>3. CASE tx \in p.order
  <2>pick. PICK i, a : i = lastIndex(p.txns, tx) /\ a = RemoveAt(p.txns, i)
    OBVIOUS
  <2>1. i \in DOMAIN p.txns /\ p.txns[i] = tx
    <3>1. \E j \in DOMAIN p.txns : /\ p.txns[j] = tx
                                   /\ \A k \in DOMAIN p.txns : p.txns[k] = tx => k <= j
      <4>1. tx \in ToSet(p.txns)
        BY <1>3
      <4> QED BY <1>1, <4>1, LastMember
    <3> QED BY <2>pick, <3>1 DEF lastIndex
  <2>2. /\ a \in Seq(Tx) /\ ToSet(p.txns) = ToSet(a) \cup {tx}
        /\ IsInjective(p.txns) => IsInjective(a) /\ tx \notin ToSet(a)
    BY <1>1, <2>pick, <2>1, RemoveMembers
  <2>3. remove(p, tx) = [txns |-> a, order |-> p.order \ {tx}]
    BY <1>3, <2>pick DEF remove
  <2>4. remove(p, tx).txns = a /\ remove(p, tx).order = p.order \ {tx}
    BY <2>3
  <2>5. remove(p, tx) \in Backend
    BY <1>1, <2>2, <2>3 DEF Backend
  <2> QED BY <2>2, <2>4, <2>5
<1> QED BY <1>2, <1>3

\* some cuts the list in two.
LEMMA TakePool ==
  ASSUME NEW p \in Backend, p.order \subseteq ToSet(p.txns)
  PROVE  /\ taken(p) \in Seq(Tx) /\ untaken(p) \in Backend
         /\ untaken(p).order = p.order \ ToSet(taken(p))
         /\ untaken(p).order \subseteq ToSet(untaken(p).txns)
         /\ ToSet(p.txns) = ToSet(taken(p)) \cup ToSet(untaken(p).txns)
         /\ p.order = ToSet(p.txns) /\ IsInjective(p.txns) =>
              /\ untaken(p).order = ToSet(untaken(p).txns)
              /\ IsInjective(untaken(p).txns)
              /\ ToSet(taken(p)) \cap ToSet(untaken(p).txns) = {}
<1>1. p.txns \in Seq(Tx) /\ p.order \subseteq Tx
  BY DEF Backend
<1>pick. PICK k, b : k = batchSize(p) /\ b = SubSeq(p.txns, k + 1, Len(p.txns))
  OBVIOUS
<1>2. k \in 0..Len(p.txns)
  BY <1>pick, <1>1, SizesNat DEF batchSize
<1>3. /\ taken(p) \in Seq(Tx) /\ b \in Seq(Tx)
      /\ ToSet(p.txns) = ToSet(taken(p)) \cup ToSet(b)
      /\ IsInjective(p.txns) => IsInjective(b) /\ ToSet(taken(p)) \cap ToSet(b) = {}
  BY <1>pick, <1>1, <1>2, SplitMembers DEF taken
<1>4. untaken(p) = [txns |-> b, order |-> p.order \ ToSet(taken(p))]
  BY <1>pick DEF untaken
<1>5. untaken(p).txns = b /\ untaken(p).order = p.order \ ToSet(taken(p))
  BY <1>4
<1>6. untaken(p) \in Backend
  BY <1>1, <1>3, <1>4 DEF Backend
<1> QED BY <1>3, <1>5, <1>6

-----------------------------------------------------------------------------
(* The types *)

\* The workloads are well typed and the pools empty.
LEMMA InitTypes ==
  ASSUME Init
  PROVE  Types
<1>1. PICK w \in Workloads : incoming = w.incoming /\ byz = w.byz
  BY DEF Init
<1>2. incoming \in [Node -> [Source -> Seq(Tx)]] /\ byz \subseteq Node
  BY <1>1, WorkloadSeqs
<1>3. <<>> \in Seq(Tx) /\ <<>> \in Seq(Block) /\ {} \in SUBSET Tx
  OBVIOUS
<1>4. NewBackend \in Backend
  BY <1>3 DEF NewBackend, Backend
<1>5. Idle \in AddState
  BY <1>3 DEF Idle, AddState
<1> QED BY <1>2, <1>3, <1>4, <1>5 DEF Init, Types

\* The state of addNew after an insertion.
LEMMA ShareState ==
  ASSUME NEW t \in Seq(Tx), NEW c, c = [Idle EXCEPT !.pc = "share", !.tx = t]
  PROVE  c \in AddState /\ c.pc = "share" /\ c.tx = t /\ c.batch = <<>> /\ c.seen = <<>>
<1>0. <<>> \in Seq(Tx)
  OBVIOUS
<1>pick. PICK e : e \in Seq(Tx) /\ e = <<>>
  BY <1>0
<1>1. c = [pc |-> "share", tx |-> t, batch |-> e, seen |-> e]
  BY <1>pick DEF Idle
<1>2. c.pc = "share" /\ c.tx = t /\ c.batch = e /\ c.seen = e
  BY ONLY <1>1
<1>3. c \in AddState
  BY ONLY <1>1, <1>pick, t \in Seq(Tx) DEF AddState
<1> QED BY <1>pick, <1>2, <1>3

\* AddTxn with the transaction and the effect named.
LEMMA AddEffect ==
  ASSUME Types, NEW n \in Node, NEW g \in Source, AddTxn(n, g)
  PROVE  \E tx \in Tx, c \in AddState :
           /\ adding[n][g].pc = "idle"
           /\ todo[n][g] \in Seq(Tx) /\ todo[n][g] # <<>> /\ tx = Head(todo[n][g])
           /\ todo' = [todo EXCEPT ![n][g] = Tail(todo[n][g])] /\ Tail(todo[n][g]) \in Seq(Tx)
           /\ c.pc = "share" /\ c.tx = <<tx>> /\ c.batch = <<>> /\ c.seen = <<>>
           /\ \/ UNCHANGED <<pool, adding, accepted>>
              \/ /\ pool' = [pool EXCEPT ![n] = push(pool[n], tx)]
                 /\ adding' = [adding EXCEPT ![n][g] = c]
                 /\ accepted' = [accepted EXCEPT ![n] = accepted[n] \cup {tx}]
           /\ UNCHANGED <<incoming, byz, buffer, net, blocks, cleaning, cleaned, shared>>
<1>pick. PICK tx, c : tx = Head(todo[n][g]) /\ c = [Idle EXCEPT !.pc = "share", !.tx = <<tx>>]
  OBVIOUS
<1>1. todo[n][g] \in Seq(Tx) /\ todo[n][g] # <<>>
  BY DEF Types, AddTxn
<1>2. tx \in Tx /\ Tail(todo[n][g]) \in Seq(Tx)
  BY <1>pick, <1>1, TailMembers
<1>3. c \in AddState /\ c.pc = "share" /\ c.tx = <<tx>> /\ c.batch = <<>> /\ c.seen = <<>>
  <2>1. <<tx>> \in Seq(Tx)
    BY <1>2
  <2> QED BY <1>pick, <2>1, ShareState
<1> QED BY <1>pick, <1>1, <1>2, <1>3 DEF AddTxn, fixedVars

\* The other steps of addNew.
LEMMA ShareEffect ==
  ASSUME Types, NEW n \in Node, NEW g \in Source, TakeBatch(n, g) \/ LoadBuffer(n, g)
  PROVE  \E c \in AddState :
           /\ adding' = [adding EXCEPT ![n][g] = c]
           /\ c.tx = adding[n][g].tx
           /\ \/ /\ adding[n][g].pc = "share" /\ c.pc = "load" /\ c.seen = adding[n][g].seen
                 /\ \/ c.batch = buffer[n] /\ buffer' = [buffer EXCEPT ![n] = <<>>]
                    \/ c.batch = adding[n][g].batch /\ UNCHANGED buffer
              \/ /\ adding[n][g].pc = "load" /\ c.pc = "store" /\ c.seen = buffer[n]
                 /\ c.batch = adding[n][g].batch /\ UNCHANGED buffer
           /\ UNCHANGED <<incoming, byz, pool, todo, net, blocks, cleaning, cleaned, accepted, shared>>
<1> DEFINE a == adding[n][g]
<1>1. adding \in [Node -> [Source -> AddState]] /\ a \in AddState /\ buffer[n] \in Seq(Tx)
  BY DEF Types
<1>2. CASE LoadBuffer(n, g)
  <2>pick. PICK c : c = [a EXCEPT !.pc = "store", !.seen = buffer[n]]
    OBVIOUS
  <2>1. /\ c \in AddState /\ c.pc = "store" /\ c.seen = buffer[n]
        /\ c.tx = a.tx /\ c.batch = a.batch
    BY <1>1, <2>pick DEF AddState
  <2>2. adding' = [adding EXCEPT ![n][g] = c]
    BY <1>1, <1>2, <2>pick DEF LoadBuffer
  <2> QED BY <1>2, <2>1, <2>2 DEF LoadBuffer, fixedVars
<1>3. CASE TakeBatch(n, g)
  <2>1. CASE /\ buffer' = [buffer EXCEPT ![n] = <<>>]
             /\ adding' = [adding EXCEPT ![n][g].pc = "load", ![n][g].batch = buffer[n]]
    <3>pick. PICK c : c = [a EXCEPT !.pc = "load", !.batch = buffer[n]]
      OBVIOUS
    <3>1. /\ c \in AddState /\ c.pc = "load" /\ c.seen = a.seen
          /\ c.tx = a.tx /\ c.batch = buffer[n]
      BY <1>1, <3>pick DEF AddState
    <3>2. adding' = [adding EXCEPT ![n][g] = c]
      BY <1>1, <2>1, <3>pick
    <3> QED BY <1>3, <2>1, <3>1, <3>2 DEF TakeBatch, fixedVars
  <2>2. CASE UNCHANGED buffer /\ adding' = [adding EXCEPT ![n][g].pc = "load"]
    <3>pick. PICK c : c = [a EXCEPT !.pc = "load"]
      OBVIOUS
    <3>1. /\ c \in AddState /\ c.pc = "load" /\ c.seen = a.seen
          /\ c.tx = a.tx /\ c.batch = a.batch
      BY <1>1, <3>pick DEF AddState
    <3>2. adding' = [adding EXCEPT ![n][g] = c]
      BY <1>1, <2>2, <3>pick
    <3> QED BY <1>3, <2>2, <3>1, <3>2 DEF TakeBatch, fixedVars
  <2> QED BY <1>3, <2>1, <2>2 DEF TakeBatch
<1> QED BY <1>2, <1>3

\* The last one, first the links after the batch was sent.
LEMMA StoreLinks ==
  ASSUME Types, NEW n \in Node, NEW g \in Source, StoreBuffer(n, g),
         NEW batch, batch = adding[n][g].batch
  PROVE  /\ net' \in [Node -> [Node -> Seq(Tx)]]
         /\ \A m, p \in Node : m # n => net'[m][p] = net[m][p]
         /\ \A p \in Node : p # n => \E q \in Seq(Tx) : q = net[n][p] \o batch /\ net'[n][p] = q
         /\ net'[n][n] = net[n][n]
<1>pick. PICK B : B = BroadcastTX(n, batch)
  OBVIOUS
<1>0. adding[n][g] \in AddState
  BY DEF Types
<1>1. batch \in Seq(Tx)
  BY <1>0 DEF AddState
<1>2. net \in [Node -> [Node -> Seq(Tx)]] /\ \A p \in Node : net[n][p] \in Seq(Tx)
  BY DEF Types
<1>3. \A p \in Node : net[n][p] \o batch \in Seq(Tx)
  BY <1>1, <1>2
<1>4. /\ B \in [Node -> Seq(Tx)]
      /\ \A p \in Node : B[p] = IF p # n THEN net[n][p] \o batch ELSE net[n][p]
  BY <1>pick, <1>2, <1>3 DEF BroadcastTX, receivers
<1>5. net' = [net EXCEPT ![n] = B]
  BY <1>pick DEF StoreBuffer
<1>6. /\ net' \in [Node -> [Node -> Seq(Tx)]]
      /\ \A m, p \in Node : m # n => net'[m][p] = net[m][p]
      /\ \A p \in Node : net'[n][p] = B[p]
  BY <1>2, <1>4, <1>5
<1>7. ASSUME NEW p \in Node, p # n
      PROVE  net'[n][p] \in Seq(Tx) /\ net'[n][p] = net[n][p] \o batch
  BY <1>4, <1>6, <1>7
<1>8. net'[n][n] = net[n][n]
  BY <1>4, <1>6
<1> QED BY <1>6, <1>7, <1>8

\* Then the rest.
LEMMA StoreEffect ==
  ASSUME Types, NEW n \in Node, NEW g \in Source, StoreBuffer(n, g)
  PROVE  LET a == adding[n][g]
         IN  /\ a.pc = "store" /\ a \in AddState
             /\ a.tx \in Seq(Tx) /\ a.batch \in Seq(Tx) /\ a.seen \in Seq(Tx)
             /\ buffer' = [buffer EXCEPT ![n] = a.seen \o a.tx]
             /\ adding' = [adding EXCEPT ![n][g] = Idle] /\ Idle \in AddState
             /\ shared' = [shared EXCEPT ![n] = shared[n] \cup ToSet(a.batch)]
             /\ UNCHANGED <<incoming, byz, pool, todo, blocks, cleaning, cleaned, accepted>>
<1>1. adding[n][g] \in AddState
  BY DEF Types
<1>2. /\ adding[n][g].tx \in Seq(Tx) /\ adding[n][g].seen \in Seq(Tx)
      /\ adding[n][g].batch \in Seq(Tx)
  BY <1>1 DEF AddState
<1>3. Idle \in AddState
  <2>1. <<>> \in Seq(Tx)
    OBVIOUS
  <2> QED BY <2>1 DEF Idle, AddState
<1> QED BY <1>1, <1>2, <1>3 DEF StoreBuffer, newBuffer, fixedVars

\* The head of a link goes into the pool of a correct node.
LEMMA RecvEffect ==
  ASSUME Types, NEW m \in Node, NEW n \in Node, RecvTX(m, n)
  PROVE  \E tx \in Tx :
           /\ net[m][n] \in Seq(Tx) /\ net[m][n] # <<>> /\ tx = Head(net[m][n])
           /\ net' \in [Node -> [Node -> Seq(Tx)]]
           /\ net'[m][n] = Tail(net[m][n])
           /\ \A p, q \in Node : p # m \/ q # n => net'[p][q] = net[p][q]
           /\ n \in byz => UNCHANGED pool
           /\ n \notin byz => pool' = [pool EXCEPT ![n] = push(pool[n], tx)]
           /\ UNCHANGED <<incoming, byz, buffer, todo, adding, blocks, cleaning, cleaned, accepted, shared>>
<1>pick. PICK tx, a : tx = Head(net[m][n]) /\ a = Tail(net[m][n])
  OBVIOUS
<1>1. net[m][n] \in Seq(Tx) /\ net[m][n] # <<>> /\ net \in [Node -> [Node -> Seq(Tx)]]
  BY DEF Types, RecvTX
<1>2. tx \in Tx /\ a \in Seq(Tx)
  BY <1>pick, <1>1, TailMembers
<1>3. net' = [net EXCEPT ![m][n] = a]
  BY <1>pick DEF RecvTX
<1>4. /\ net' \in [Node -> [Node -> Seq(Tx)]]
      /\ net'[m][n] = a
      /\ \A p, q \in Node : p # m \/ q # n => net'[p][q] = net[p][q]
  BY <1>1, <1>2, <1>3
<1> QED BY <1>pick, <1>1, <1>2, <1>4 DEF RecvTX, fixedVars

-----------------------------------------------------------------------------
(* No accepted transaction is lost *)

\* A pool that only grows keeps what was accepted.
LEMMA PoolGrows ==
  ASSUME Types, PoolInv, NEW n \in Node, NEW tx \in Tx,
         pool' = [pool EXCEPT ![n] = push(pool[n], tx)],
         accepted' = [accepted EXCEPT ![n] = accepted[n] \cup {tx}] \/ UNCHANGED accepted,
         UNCHANGED <<blocks, cleaning>>
  PROVE  pool' \in [Node -> Backend] /\ accepted' \in [Node -> SUBSET Tx] /\ PoolInv'
<1>pick. PICK q : q = push(pool[n], tx)
  OBVIOUS
<1>0. pool \in [Node -> Backend] /\ pool[n] \in Backend /\ accepted \in [Node -> SUBSET Tx]
  BY DEF Types
<1>1. q \in Backend /\ q.order = pool[n].order \cup {tx} /\ ToSet(q.txns) = ToSet(pool[n].txns) \cup {tx}
  BY <1>pick, <1>0, PushPool
<1>2. /\ pool' \in [Node -> Backend] /\ pool'[n] = q
      /\ \A p \in Node : p # n => pool'[p] = pool[p]
  BY <1>pick, <1>0, <1>1
<1>3. /\ accepted' \in [Node -> SUBSET Tx] /\ accepted'[n] \subseteq accepted[n] \cup {tx}
      /\ \A p \in Node : p # n => accepted'[p] = accepted[p]
  BY <1>0
<1>4. ProposedTxs' = ProposedTxs
  BY DEF ProposedTxs
<1>5. \A p \in Node : pool'[p].order \subseteq ToSet(pool'[p].txns)
  BY <1>1, <1>2 DEF PoolInv
<1>6. \A p \in Node : accepted'[p] \subseteq ToSet(pool'[p].txns) \cup ProposedTxs
  BY <1>1, <1>2, <1>3 DEF PoolInv, NoTxLost
<1> QED BY <1>2, <1>3, <1>4, <1>5, <1>6 DEF PoolInv, NoTxLost

\* Nothing that PoolInv speaks of changes.
LEMMA PoolSame ==
  ASSUME PoolInv, UNCHANGED <<pool, accepted, blocks, cleaning>>
  PROVE  PoolInv'
BY DEF PoolInv, NoTxLost, ProposedTxs

\* addNew of a local transaction, between any two of its steps, keeps the pool.
LEMMA ProducingPool ==
  ASSUME Types, PoolInv, NEW n \in Node, NEW g \in Source, Producing(n, g)
  PROVE  Types' /\ PoolInv'
<1>0. /\ adding \in [Node -> [Source -> AddState]] /\ todo \in [Node -> [Source -> Seq(Tx)]]
      /\ buffer \in [Node -> Seq(Tx)] /\ shared \in [Node -> SUBSET Tx] /\ buffer[n] \in Seq(Tx)
  BY DEF Types
<1>1. CASE AddTxn(n, g)
  <2>1. PICK tx \in Tx, c \in AddState :
           /\ todo' = [todo EXCEPT ![n][g] = Tail(todo[n][g])] /\ Tail(todo[n][g]) \in Seq(Tx)
           /\ \/ UNCHANGED <<pool, adding, accepted>>
              \/ /\ pool' = [pool EXCEPT ![n] = push(pool[n], tx)]
                 /\ adding' = [adding EXCEPT ![n][g] = c]
                 /\ accepted' = [accepted EXCEPT ![n] = accepted[n] \cup {tx}]
           /\ UNCHANGED <<incoming, byz, buffer, net, blocks, cleaning, cleaned, shared>>
    BY <1>1, AddEffect
  <2>2. todo' \in [Node -> [Source -> Seq(Tx)]]
    BY <1>0, <2>1
  <2>3. CASE UNCHANGED <<pool, adding, accepted>>
    BY <2>1, <2>2, <2>3, PoolSame DEF Types
  <2>4. CASE /\ pool' = [pool EXCEPT ![n] = push(pool[n], tx)]
             /\ adding' = [adding EXCEPT ![n][g] = c]
             /\ accepted' = [accepted EXCEPT ![n] = accepted[n] \cup {tx}]
    <3>1. pool' \in [Node -> Backend] /\ accepted' \in [Node -> SUBSET Tx] /\ PoolInv'
      BY <2>1, <2>4, PoolGrows
    <3>2. adding' \in [Node -> [Source -> AddState]]
      BY <1>0, <2>4
    <3> QED BY <2>1, <2>2, <3>1, <3>2 DEF Types
  <2> QED BY <2>1, <2>3, <2>4
<1>2. CASE TakeBatch(n, g) \/ LoadBuffer(n, g)
  <2>1. PICK c \in AddState :
           /\ adding' = [adding EXCEPT ![n][g] = c]
           /\ buffer' = [buffer EXCEPT ![n] = <<>>] \/ UNCHANGED buffer
           /\ UNCHANGED <<incoming, byz, pool, todo, net, blocks, cleaning, cleaned, accepted, shared>>
    BY <1>2, ShareEffect
  <2>2. <<>> \in Seq(Tx)
    OBVIOUS
  <2>3. adding' \in [Node -> [Source -> AddState]] /\ buffer' \in [Node -> Seq(Tx)]
    BY <1>0, <2>1, <2>2
  <2> QED BY <2>1, <2>3, PoolSame DEF Types
<1>3. CASE StoreBuffer(n, g)
  <2>pick. PICK tx, seen, batch : tx = adding[n][g].tx /\ seen = adding[n][g].seen /\ batch = adding[n][g].batch
    OBVIOUS
  <2>1. /\ tx \in Seq(Tx) /\ batch \in Seq(Tx) /\ seen \in Seq(Tx)
        /\ buffer' = [buffer EXCEPT ![n] = seen \o tx]
        /\ adding' = [adding EXCEPT ![n][g] = Idle] /\ Idle \in AddState
        /\ shared' = [shared EXCEPT ![n] = shared[n] \cup ToSet(batch)]
        /\ UNCHANGED <<incoming, byz, pool, todo, blocks, cleaning, cleaned, accepted>>
    BY <2>pick, <1>3, StoreEffect
  <2>net. net' \in [Node -> [Node -> Seq(Tx)]]
    BY <2>pick, <1>3, StoreLinks
  <2>2. seen \o tx \in Seq(Tx) /\ ToSet(batch) \subseteq Tx
    BY <2>1, MemberIndex
  <2>3. adding' \in [Node -> [Source -> AddState]]
    BY <1>0, <2>1
  <2>4. buffer' \in [Node -> Seq(Tx)]
    BY <1>0, <2>1, <2>2
  <2>5. shared' \in [Node -> SUBSET Tx]
    BY <1>0, <2>1, <2>2
  <2> QED BY <2>1, <2>net, <2>3, <2>4, <2>5, PoolSame DEF Types
<1> QED BY <1>1, <1>2, <1>3 DEF Producing

\* addNew of a transaction from a peer keeps the pool.
LEMMA RecvPool ==
  ASSUME Types, PoolInv, NEW m \in Node, NEW n \in Node, RecvTX(m, n)
  PROVE  Types' /\ PoolInv'
<1>1. PICK tx \in Tx :
        /\ net[m][n] \in Seq(Tx) /\ net[m][n] # <<>> /\ tx = Head(net[m][n])
        /\ net' \in [Node -> [Node -> Seq(Tx)]]
        /\ net'[m][n] = Tail(net[m][n])
        /\ \A p, q \in Node : p # m \/ q # n => net'[p][q] = net[p][q]
        /\ n \in byz => UNCHANGED pool
        /\ n \notin byz => pool' = [pool EXCEPT ![n] = push(pool[n], tx)]
        /\ UNCHANGED <<incoming, byz, buffer, todo, adding, blocks, cleaning, cleaned, accepted, shared>>
  BY RecvEffect, Zenon
<1>2. CASE n \in byz
  BY <1>1, <1>2, PoolSame DEF Types
<1>3. CASE n \notin byz
  <2>1. pool' \in [Node -> Backend] /\ PoolInv'
    BY <1>1, <1>3, PoolGrows
  <2> QED BY <1>1, <2>1 DEF Types
<1> QED BY <1>2, <1>3

\* A new block has its proposer and its payload.
LEMMA NewBlock ==
  ASSUME Types, NEW n \in Node, NEW pl \in Seq(Tx),
         blocks' = Append(blocks, [proposer |-> n, payload |-> pl])
  PROVE  \E new \in Nat :
           /\ blocks' \in Seq(Block)
           /\ DOMAIN blocks' = DOMAIN blocks \cup {new} /\ new \notin DOMAIN blocks
           /\ \A b \in DOMAIN blocks : blocks'[b] = blocks[b]
           /\ blocks'[new].proposer = n /\ blocks'[new].payload = pl
           /\ ProposedTxs' = ProposedTxs \cup ToSet(pl)
<1>pick. PICK c, new : c = [proposer |-> n, payload |-> pl] /\ new = Len(blocks) + 1
  OBVIOUS
<1>1. c \in Block /\ c.proposer = n /\ c.payload = pl
  BY <1>pick DEF Block
<1>2. blocks \in Seq(Block) /\ new \in Nat
  BY <1>pick DEF Types
<1>3. /\ blocks' \in Seq(Block)
      /\ DOMAIN blocks' = DOMAIN blocks \cup {new} /\ new \notin DOMAIN blocks
      /\ \A b \in DOMAIN blocks : blocks'[b] = blocks[b]
      /\ blocks'[new] = c
  BY <1>pick, <1>1, <1>2
<1>4. ProposedTxs' = ProposedTxs \cup ToSet(pl)
  <2>1. ProposedTxs' \subseteq ProposedTxs \cup ToSet(pl)
    BY <1>1, <1>3 DEF ProposedTxs
  <2>2. ProposedTxs \subseteq ProposedTxs'
    BY <1>3 DEF ProposedTxs
  <2>3. ToSet(pl) \subseteq ProposedTxs'
    BY <1>1, <1>3 DEF ProposedTxs
  <2> QED BY <2>1, <2>2, <2>3
<1> QED BY <1>1, <1>2, <1>3, <1>4

\* What leaves the pool for a proposal is proposed.
LEMMA ProposePool ==
  ASSUME Types, PoolInv, NEW n \in Node, GeneratePayload(n)
  PROVE  Types' /\ PoolInv'
<1>pick. PICK q, pl : q = untaken(pool[n]) /\ pl = taken(pool[n])
  OBVIOUS
<1>0. pool \in [Node -> Backend] /\ pool[n] \in Backend /\ pool[n].order \subseteq ToSet(pool[n].txns)
  BY DEF Types, PoolInv
<1>1. /\ blocks' = Append(blocks, [proposer |-> n, payload |-> pl])
      /\ pool' = [pool EXCEPT ![n] = q]
      /\ UNCHANGED <<incoming, byz, buffer, todo, adding, net, cleaning, cleaned, accepted, shared>>
  BY <1>pick DEF GeneratePayload, fixedVars
<1>2. /\ pl \in Seq(Tx) /\ q \in Backend /\ q.order \subseteq ToSet(q.txns)
      /\ ToSet(pool[n].txns) = ToSet(pl) \cup ToSet(q.txns)
  BY <1>pick, <1>0, TakePool
<1>3. blocks' \in Seq(Block) /\ ProposedTxs' = ProposedTxs \cup ToSet(pl)
  BY <1>1, <1>2, NewBlock
<1>4. /\ pool' \in [Node -> Backend] /\ pool'[n] = q
      /\ \A p \in Node : p # n => pool'[p] = pool[p]
  BY <1>0, <1>1, <1>2
<1>5. Types'
  BY <1>1, <1>3, <1>4 DEF Types
<1>6. NoTxLost'
  BY <1>1, <1>2, <1>3, <1>4 DEF PoolInv, NoTxLost
<1>7. \A p \in Node : pool'[p].order \subseteq ToSet(pool'[p].txns)
  BY <1>2, <1>4 DEF PoolInv
<1>8. \A p \in Node : ToSet(cleaning'[p]) \subseteq ProposedTxs'
  BY <1>1, <1>3 DEF PoolInv
<1> QED BY <1>5, <1>6, <1>7, <1>8 DEF PoolInv

\* What is cleaned was proposed.
LEMMA CleanPool ==
  ASSUME Types, PoolInv, NEW n \in Node, Cleaning(n)
  PROVE  Types' /\ PoolInv'
<1>0. /\ pool \in [Node -> Backend] /\ pool[n] \in Backend /\ pool[n].order \subseteq ToSet(pool[n].txns)
      /\ cleaning \in [Node -> Seq(Tx)] /\ cleaning[n] \in Seq(Tx)
      /\ ToSet(cleaning[n]) \subseteq ProposedTxs
  BY DEF Types, PoolInv
<1>1. ASSUME NEW b \in DOMAIN blocks, ReceiveBlock(n, b) PROVE Types' /\ PoolInv'
  <2>pick. PICK pl : pl = blocks[b].payload
    OBVIOUS
  <2>1. pl \in Seq(Tx) /\ ToSet(pl) \subseteq ProposedTxs
    <3>1. blocks[b] \in Block
      BY DEF Types
    <3> QED BY <2>pick, <3>1 DEF Block, ProposedTxs
  <2>2. /\ cleaning' = [cleaning EXCEPT ![n] = pl]
        /\ UNCHANGED <<incoming, byz, pool, buffer, todo, adding, net, blocks, accepted, shared>>
    BY <1>1, <2>pick DEF ReceiveBlock, fixedVars
  <2>3. /\ cleaning' \in [Node -> Seq(Tx)] /\ cleaning'[n] = pl
        /\ \A p \in Node : p # n => cleaning'[p] = cleaning[p]
    BY <1>0, <2>1, <2>2
  <2>4. ProposedTxs' = ProposedTxs
    BY <2>2 DEF ProposedTxs
  <2>5. Types'
    BY <2>2, <2>3 DEF Types
  <2>6. \A p \in Node : ToSet(cleaning'[p]) \subseteq ProposedTxs
    BY <2>1, <2>3 DEF PoolInv
  <2> QED BY <2>2, <2>4, <2>5, <2>6 DEF PoolInv, NoTxLost
<1>2. CASE CleanTxn(n)
  <2>pick. PICK tx, q, cl : tx = Head(cleaning[n]) /\ q = remove(pool[n], tx) /\ cl = Tail(cleaning[n])
    OBVIOUS
  <2>1. /\ cleaning[n] # <<>> /\ pool' = [pool EXCEPT ![n] = q]
        /\ cleaning' = [cleaning EXCEPT ![n] = cl]
        /\ UNCHANGED <<incoming, byz, buffer, todo, adding, net, blocks, accepted, shared>>
    BY <1>2, <2>pick DEF CleanTxn, fixedVars
  <2>2. tx \in Tx /\ cl \in Seq(Tx) /\ ToSet(cleaning[n]) = ToSet(cl) \cup {tx}
    BY <1>0, <2>pick, <2>1, TailMembers
  <2>3. /\ q \in Backend /\ q.order \subseteq ToSet(q.txns)
        /\ ToSet(pool[n].txns) \subseteq ToSet(q.txns) \cup {tx}
    BY <1>0, <2>pick, <2>2, RemovePool
  <2>4. /\ pool' \in [Node -> Backend] /\ pool'[n] = q
        /\ \A p \in Node : p # n => pool'[p] = pool[p]
        /\ cleaning' \in [Node -> Seq(Tx)] /\ cleaning'[n] = cl
        /\ \A p \in Node : p # n => cleaning'[p] = cleaning[p]
    BY <1>0, <2>1, <2>2, <2>3
  <2>5. ProposedTxs' = ProposedTxs
    BY <2>1 DEF ProposedTxs
  <2>6. Types'
    BY <2>1, <2>4 DEF Types
  <2>7. \A p \in Node : ToSet(cleaning'[p]) \subseteq ProposedTxs
    BY <2>2, <2>4 DEF PoolInv
  <2>8. \A p \in Node : pool'[p].order \subseteq ToSet(pool'[p].txns)
    BY <2>3, <2>4 DEF PoolInv
  <2>9. \A p \in Node : accepted[p] \subseteq ToSet(pool'[p].txns) \cup ProposedTxs
    BY <1>0, <2>2, <2>3, <2>4 DEF PoolInv, NoTxLost
  <2> QED BY <2>1, <2>5, <2>6, <2>7, <2>8, <2>9 DEF PoolInv, NoTxLost
<1> QED BY <1>1, <1>2 DEF Cleaning

\* An empty pool holds everything that was accepted.
LEMMA InitPool ==
  ASSUME Init
  PROVE  Types /\ PoolInv
<1>1. \A n \in Node : pool[n] = NewBackend /\ cleaning[n] = <<>> /\ accepted[n] = {}
  BY DEF Init
<1> QED BY <1>1, InitTypes, EmptyMembers DEF PoolInv, NoTxLost, NewBackend

\* Every step keeps the pool: what is accepted is listed, being cleaned or proposed.
LEMMA StepPool ==
  ASSUME Types, PoolInv, [Next]_vars
  PROVE  Types' /\ PoolInv'
<1>1. CASE UNCHANGED vars
  BY <1>1, PoolSame DEF vars, Types
<1>2. CASE Next
  BY <1>2, ProducingPool, RecvPool, ProposePool, CleanPool DEF Next
<1> QED BY <1>1, <1>2

\* A transaction a node has accepted stays in its pool until it is in a block, in
\* every instance: through the limits of pool and block, the other nodes' batches
\* and the cleaning after their blocks, even where two goroutines race for the
\* buffer or an ID is used twice.
THEOREM AcceptedKept == Spec => []NoTxLost
<1>1. PoolInv => NoTxLost
  BY DEF PoolInv
<1> QED BY <1>1, InitPool, StepPool, PTL DEF Spec

-----------------------------------------------------------------------------
(* Every accepted transaction is shared where one goroutine adds *)

\* One goroutine moves.
LEMMA MoveAdding ==
  ASSUME Types, NEW n \in Node, NEW g \in Source, NEW c, adding' = [adding EXCEPT ![n][g] = c]
  PROVE  /\ adding'[n][g] = c
         /\ \A m \in Node, h \in Source : m # n \/ h # g => adding'[m][h] = adding[m][h]
BY DEF Types

\* The sequence a goroutine of addNew holds.
LEMMA AddingTypes ==
  ASSUME Types, NEW n \in Node, NEW g \in Source
  PROVE  /\ adding[n][g] \in AddState
         /\ adding[n][g].tx \in Seq(Tx) /\ adding[n][g].batch \in Seq(Tx)
         /\ adding[n][g].seen \in Seq(Tx)
<1>1. adding[n][g] \in AddState
  BY DEF Types
<1> QED BY <1>1 DEF AddState

\* A goroutine that has something to do is the one that adds.
LEMMA TheSource ==
  ASSUME AddSteps, NEW n \in Node, NEW g \in Source, OneSource(n),
         todo[n][g] # <<>> \/ adding[n][g].pc # "idle"
  PROVE  /\ incoming[n][g] # <<>>
         /\ \A h \in Source : h # g =>
              incoming[n][h] = <<>> /\ todo[n][h] = <<>> /\ adding[n][h].pc = "idle"
<1>1. incoming[n][g] # <<>>
  BY DEF AddSteps
<1> QED BY <1>1 DEF AddSteps, OneSource

\* AddSteps with the buffer of n after a step of its goroutine g.
LEMMA KeepSteps ==
  ASSUME Types, AddSteps, NEW n \in Node, NEW g \in Source, NEW c,
         adding' = [adding EXCEPT ![n][g] = c],
         todo[n][g] # <<>> \/ adding[n][g].pc # "idle",
         UNCHANGED incoming,
         \A m \in Node : m # n => buffer'[m] = buffer[m],
         \A m \in Node, h \in Source : m # n \/ h # g => todo'[m][h] = todo[m][h],
         c.pc = "idle" => c.tx = <<>> /\ c.batch = <<>>,
         c.pc = "share" => c.batch = <<>>,
         c.pc = "store" => c.seen = buffer'[n]
  PROVE  AddSteps'
<1>1. /\ adding'[n][g] = c
      /\ \A m \in Node, h \in Source : m # n \/ h # g => adding'[m][h] = adding[m][h]
  BY MoveAdding
<1>2. \A m \in Node : OneSource(m)' <=> OneSource(m)
  BY DEF OneSource
<1>3. incoming[n][g] # <<>>
  BY DEF AddSteps
<1> SUFFICES ASSUME NEW m \in Node, NEW h \in Source
             PROVE  LET a == adding'[m][h]
                    IN  /\ a.pc = "idle" => a.tx = <<>> /\ a.batch = <<>>
                        /\ a.pc = "share" => a.batch = <<>>
                        /\ incoming[m][h] = <<>> => todo'[m][h] = <<>> /\ a.pc = "idle"
                        /\ OneSource(m) /\ a.pc = "store" => a.seen = buffer'[m]
  BY <1>2 DEF AddSteps
<1>4. CASE m = n /\ h = g
  BY <1>1, <1>3, <1>4
<1>5. CASE m # n
  BY <1>1, <1>5 DEF AddSteps
<1>6. CASE m = n /\ h # g
  <2>1. OneSource(n) => adding[n][h].pc = "idle"
    BY <1>6, TheSource
  <2> QED BY <1>1, <1>6, <2>1 DEF AddSteps
<1> QED BY <1>4, <1>5, <1>6

\* What is pending at n after a step of its goroutine g.
LEMMA KeepPending ==
  ASSUME Types, ShareInv, NEW n \in Node, NEW g \in Source, NEW c,
         adding' = [adding EXCEPT ![n][g] = c], UNCHANGED incoming,
         \A m \in Node : m # n => /\ buffer'[m] = buffer[m] /\ shared'[m] = shared[m]
                                  /\ accepted'[m] = accepted[m],
         OneSource(n) =>
           /\ shared[n] \subseteq shared'[n]
           /\ ToSet(buffer[n]) \cup ToSet(adding[n][g].tx) \cup ToSet(adding[n][g].batch)
                \subseteq shared'[n] \cup ToSet(buffer'[n]) \cup ToSet(c.tx) \cup ToSet(c.batch)
           /\ accepted'[n] \subseteq accepted[n] \cup ToSet(c.tx)
  PROVE  ShareInv'
<1>1. /\ adding'[n][g] = c
      /\ \A m \in Node, h \in Source : m # n \/ h # g => adding'[m][h] = adding[m][h]
  BY ONLY Types, adding' = [adding EXCEPT ![n][g] = c], n \in Node, g \in Source DEF Types
<1>2. \A m \in Node : OneSource(m)' <=> OneSource(m)
  BY DEF OneSource
<1>3. ASSUME NEW m \in Node, m # n, OneSource(m) PROVE accepted'[m] \subseteq Pending(m)'
  BY <1>1, <1>3 DEF ShareInv, Pending
<1>4. ASSUME OneSource(n), NEW x \in accepted'[n] PROVE x \in Pending(n)'
  <2>1. CASE x \in accepted[n]
    <3>1. \/ x \in shared[n] \/ x \in ToSet(buffer[n])
          \/ \E h \in Source : x \in ToSet(adding[n][h].tx) \cup ToSet(adding[n][h].batch)
      BY <2>1, <1>4 DEF ShareInv, Pending
    <3>2. CASE x \in ToSet(adding[n][g].tx) \cup ToSet(adding[n][g].batch) \cup ToSet(buffer[n])
      BY <3>2, <1>1, <1>4 DEF Pending
    <3>3. CASE x \in shared[n]
      BY <3>3, <1>4 DEF Pending
    <3>4. ASSUME NEW h \in Source, h # g, x \in ToSet(adding[n][h].tx) \cup ToSet(adding[n][h].batch)
          PROVE  x \in Pending(n)'
      BY <3>4, <1>1 DEF Pending
    <3> QED BY <3>1, <3>2, <3>3, <3>4
  <2>2. CASE x \in ToSet(c.tx)
    BY <2>2, <1>1 DEF Pending
  <2> QED BY <1>4, <2>1, <2>2
<1> QED BY <1>2, <1>3, <1>4 DEF ShareInv

\* Every step keeps a transaction that is to be shared with its batch, with the
\* buffer or with the goroutine that has it in hand.
LEMMA StepShare ==
  ASSUME Types, AddSteps, ShareInv, [Next]_vars
  PROVE  AddSteps' /\ ShareInv'
<1>1. ASSUME UNCHANGED <<incoming, todo, adding, buffer, accepted, shared>> PROVE AddSteps' /\ ShareInv'
  BY <1>1 DEF AddSteps, ShareInv, Pending, OneSource
<1>2. ASSUME NEW n \in Node, NEW g \in Source, AddTxn(n, g) PROVE AddSteps' /\ ShareInv'
  <2>1. PICK tx \in Tx, c \in AddState :
           /\ adding[n][g].pc = "idle"
           /\ todo[n][g] \in Seq(Tx) /\ todo[n][g] # <<>> /\ tx = Head(todo[n][g])
           /\ todo' = [todo EXCEPT ![n][g] = Tail(todo[n][g])] /\ Tail(todo[n][g]) \in Seq(Tx)
           /\ c.pc = "share" /\ c.tx = <<tx>> /\ c.batch = <<>> /\ c.seen = <<>>
           /\ \/ UNCHANGED <<pool, adding, accepted>>
              \/ /\ pool' = [pool EXCEPT ![n] = push(pool[n], tx)]
                 /\ adding' = [adding EXCEPT ![n][g] = c]
                 /\ accepted' = [accepted EXCEPT ![n] = accepted[n] \cup {tx}]
           /\ UNCHANGED <<incoming, byz, buffer, net, blocks, cleaning, cleaned, shared>>
    BY <1>2, AddEffect, Zenon
  <2>2. \A m \in Node, h \in Source : m # n \/ h # g => todo'[m][h] = todo[m][h]
    BY <2>1 DEF Types
  <2>3. incoming[n][g] # <<>>
    BY <2>1 DEF AddSteps
  <2>4. CASE UNCHANGED <<pool, adding, accepted>>
    <3>1. ShareInv'
      BY <2>1, <2>4 DEF ShareInv, Pending, OneSource
    <3>2. AddSteps'
      BY <2>1, <2>2, <2>3, <2>4 DEF AddSteps, OneSource
    <3> QED BY <3>1, <3>2
  <2>5. CASE /\ adding' = [adding EXCEPT ![n][g] = c]
             /\ accepted' = [accepted EXCEPT ![n] = accepted[n] \cup {tx}]
    <3>1. AddSteps'
      BY <2>1, <2>2, <2>5, KeepSteps
    <3>2. ToSet(c.tx) = {tx}
      BY <2>1 DEF ToSet
    <3>3. ToSet(adding[n][g].tx) = {} /\ ToSet(adding[n][g].batch) = {}
      BY <2>1, EmptyMembers DEF AddSteps
    <3>4. accepted'[n] = accepted[n] \cup {tx} /\ \A m \in Node : m # n => accepted'[m] = accepted[m]
      BY <2>5 DEF Types
    <3>5. ShareInv'
      BY <2>1, <2>5, <3>2, <3>3, <3>4, KeepPending
    <3> QED BY <3>1, <3>5
  <2> QED BY <2>1, <2>4, <2>5
<1>3. ASSUME NEW n \in Node, NEW g \in Source, TakeBatch(n, g) \/ LoadBuffer(n, g) PROVE AddSteps' /\ ShareInv'
  <2>1. PICK c \in AddState :
           /\ adding' = [adding EXCEPT ![n][g] = c]
           /\ c.tx = adding[n][g].tx
           /\ \/ /\ adding[n][g].pc = "share" /\ c.pc = "load" /\ c.seen = adding[n][g].seen
                 /\ \/ c.batch = buffer[n] /\ buffer' = [buffer EXCEPT ![n] = <<>>]
                    \/ c.batch = adding[n][g].batch /\ UNCHANGED buffer
              \/ /\ adding[n][g].pc = "load" /\ c.pc = "store" /\ c.seen = buffer[n]
                 /\ c.batch = adding[n][g].batch /\ UNCHANGED buffer
           /\ UNCHANGED <<incoming, byz, pool, todo, net, blocks, cleaning, cleaned, accepted, shared>>
    BY <1>3, ShareEffect
  <2>2. \A m \in Node : m # n => buffer'[m] = buffer[m]
    BY <2>1 DEF Types
  <2>3. AddSteps'
    BY <2>1, <2>2, KeepSteps
  <2>4. adding[n][g].pc = "share" => ToSet(adding[n][g].batch) = {}
    BY EmptyMembers DEF AddSteps
  <2>5. ToSet(buffer[n]) \cup ToSet(adding[n][g].tx) \cup ToSet(adding[n][g].batch)
          \subseteq shared'[n] \cup ToSet(buffer'[n]) \cup ToSet(c.tx) \cup ToSet(c.batch)
    BY <2>1, <2>4
  <2>6. ShareInv'
    BY <2>1, <2>2, <2>5, KeepPending
  <2> QED BY <2>3, <2>6
<1>4. ASSUME NEW n \in Node, NEW g \in Source, StoreBuffer(n, g) PROVE AddSteps' /\ ShareInv'
  <2>pick. PICK tx, seen, batch : tx = adding[n][g].tx /\ seen = adding[n][g].seen /\ batch = adding[n][g].batch
    OBVIOUS
  <2>1. /\ adding[n][g].pc = "store"
        /\ tx \in Seq(Tx) /\ batch \in Seq(Tx) /\ seen \in Seq(Tx)
        /\ buffer' = [buffer EXCEPT ![n] = seen \o tx]
        /\ adding' = [adding EXCEPT ![n][g] = Idle] /\ Idle \in AddState
        /\ shared' = [shared EXCEPT ![n] = shared[n] \cup ToSet(batch)]
        /\ UNCHANGED <<incoming, byz, pool, todo, blocks, cleaning, cleaned, accepted>>
    BY <2>pick, <1>4, StoreEffect
  <2>2. Idle.pc = "idle" /\ Idle.tx = <<>> /\ Idle.batch = <<>>
    BY DEF Idle
  <2>3. /\ \A m \in Node : m # n => buffer'[m] = buffer[m] /\ shared'[m] = shared[m]
        /\ buffer'[n] = seen \o tx /\ shared'[n] = shared[n] \cup ToSet(batch)
    BY <2>1 DEF Types
  <2>4. AddSteps'
    BY <2>1, <2>2, <2>3, KeepSteps
  <2>5. ToSet(buffer'[n]) = ToSet(seen) \cup ToSet(tx)
    <3>1. ToSet(seen \o tx) = ToSet(seen) \cup ToSet(tx)
      BY <2>1, ConcatMembers
    <3> QED BY <2>3, <3>1
  <2>6. OneSource(n) => seen = buffer[n]
    BY <2>pick, <2>1 DEF AddSteps
  <2>7. ShareInv'
    BY <2>pick, <2>1, <2>2, <2>3, <2>5, <2>6, KeepPending
  <2> QED BY <2>4, <2>7
<1>5. ASSUME NEW n \in Node, NEW g \in Source, Producing(n, g) PROVE AddSteps' /\ ShareInv'
  BY <1>2, <1>3, <1>4, <1>5 DEF Producing
<1>6. ASSUME NEW m \in Node, NEW n \in Node, RecvTX(m, n) PROVE AddSteps' /\ ShareInv'
  BY <1>1, <1>6 DEF RecvTX, fixedVars
<1>7. ASSUME NEW n \in Node, GeneratePayload(n) PROVE AddSteps' /\ ShareInv'
  BY <1>1, <1>7 DEF GeneratePayload, fixedVars
<1>8. ASSUME NEW n \in Node, Cleaning(n) PROVE AddSteps' /\ ShareInv'
  BY <1>1, <1>8 DEF Cleaning, CleanTxn, ReceiveBlock, fixedVars
<1>9. CASE UNCHANGED vars
  BY <1>1, <1>9 DEF vars
<1>10. CASE Next
  BY <1>5, <1>6, <1>7, <1>8, <1>10 DEF Next
<1> QED BY <1>9, <1>10

\* Nothing is to be shared yet.
LEMMA InitShare ==
  ASSUME Init
  PROVE  AddSteps /\ ShareInv
<1>1. /\ \A n \in Node, g \in Source : adding[n][g] = Idle /\ todo[n][g] = incoming[n][g]
      /\ \A n \in Node : accepted[n] = {}
  BY DEF Init
<1> QED BY <1>1 DEF AddSteps, ShareInv, Idle

\* Every accepted transaction is waiting to be shared or has been shared at every
\* node where one goroutine adds, whatever the sizes of pool, batch and buffer.
THEOREM AcceptedShared == Spec => []ShareComplete
<1>1. Types /\ AddSteps /\ ShareInv => ShareComplete
  <2> SUFFICES ASSUME Types, AddSteps, ShareInv, NEW n \in Node,
                      OneSource(n)
               PROVE  accepted[n] \subseteq shared[n] \cup ToSet(buffer[n])
                        \cup UNION {ToSet(adding[n][g].tx \o adding[n][g].batch) : g \in Source}
    BY DEF ShareComplete
  <2>1. \A g \in Source : ToSet(adding[n][g].tx \o adding[n][g].batch)
                            = ToSet(adding[n][g].tx) \cup ToSet(adding[n][g].batch)
    BY AddingTypes, ConcatMembers
  <2> QED BY <2>1 DEF ShareInv, Pending
<1>2. Init => Types /\ PoolInv /\ AddSteps /\ ShareInv
  BY InitPool, InitShare
<1>3. Types /\ PoolInv /\ AddSteps /\ ShareInv /\ [Next]_vars
        => (Types /\ PoolInv /\ AddSteps /\ ShareInv)'
  BY StepPool, StepShare
<1> QED BY <1>1, <1>2, <1>3, PTL DEF Spec

-----------------------------------------------------------------------------
(* The line of transactions from one node to another *)

\* A line has the members of its parts.
LEMMA ChainMembers ==
  ASSUME NEW a \in Seq(Tx), NEW b \in Seq(Tx), NEW c \in Seq(Tx), NEW d \in Seq(Tx), NEW e \in Seq(Tx)
  PROVE  /\ Chain(a, b, c, d, e) \in Seq(Tx)
         /\ ToSet(Chain(a, b, c, d, e)) = ToSet(a) \cup ToSet(b) \cup ToSet(c) \cup ToSet(d) \cup ToSet(e)
<1>pick. PICK v, w, x : v = d \o e /\ w = c \o v /\ x = b \o w
  OBVIOUS
<1>1. v \in Seq(Tx) /\ ToSet(v) = ToSet(d) \cup ToSet(e)
  BY <1>pick, ConcatMembers
<1>2. w \in Seq(Tx) /\ ToSet(w) = ToSet(c) \cup ToSet(v)
  <2>1. c \o v \in Seq(Tx) /\ ToSet(c \o v) = ToSet(c) \cup ToSet(v)
    BY <1>1, ConcatMembers
  <2> QED BY <1>pick, <2>1
<1>3. x \in Seq(Tx) /\ ToSet(x) = ToSet(b) \cup ToSet(w)
  <2>1. b \o w \in Seq(Tx) /\ ToSet(b \o w) = ToSet(b) \cup ToSet(w)
    BY <1>2, ConcatMembers
  <2> QED BY <1>pick, <2>1
<1>4. a \o x \in Seq(Tx) /\ ToSet(a \o x) = ToSet(a) \cup ToSet(x)
  BY <1>3, ConcatMembers
<1>5. Chain(a, b, c, d, e) = a \o x
  BY <1>pick DEF Chain
<1> QED BY <1>1, <1>2, <1>3, <1>4, <1>5

\* An accepted transaction only moves within the line.
LEMMA ChainAccept ==
  ASSUME NEW a \in Seq(Tx), NEW b \in Seq(Tx), NEW c \in Seq(Tx), NEW e \in Seq(Tx), e # <<>>
  PROVE  Chain(a, b, c, <<Head(e)>>, Tail(e)) = Chain(a, b, c, <<>>, e)
<1>1. <<Head(e)>> \o Tail(e) = e
  BY HeadTailProperties
<1>2. <<>> \o e = e
  BY ConcatEmptySeq
<1> QED BY <1>1, <1>2 DEF Chain

\* The buffer becomes the batch.
LEMMA ChainTake ==
  ASSUME NEW a \in Seq(Tx), NEW c \in Seq(Tx), NEW d \in Seq(Tx), NEW e \in Seq(Tx)
  PROVE  Chain(a, c, <<>>, d, e) = Chain(a, <<>>, c, d, e)
<1>pick. PICK v, w : v = d \o e /\ w = c \o v
  OBVIOUS
<1>1. v \in Seq(Tx)
  BY <1>pick, ConcatMembers
<1>2. w \in Seq(Tx)
  BY <1>pick, <1>1, ConcatMembers
<1>3. <<>> \o v = v /\ <<>> \o w = w
  BY <1>1, <1>2, ConcatEmptySeq
<1> QED BY <1>pick, <1>3 DEF Chain

\* The batch goes to the link and the transaction to the buffer.
LEMMA ChainStore ==
  ASSUME NEW a \in Seq(Tx), NEW b \in Seq(Tx), NEW c \in Seq(Tx), NEW d \in Seq(Tx), NEW e \in Seq(Tx)
  PROVE  Chain(a \o b, <<>>, c \o d, <<>>, e) = Chain(a, b, c, d, e)
<1>pick. PICK v, w, x : v = d \o e /\ w = c \o v /\ x = b \o w
  OBVIOUS
<1>1. v \in Seq(Tx)
  BY <1>pick, ConcatMembers
<1>2. w \in Seq(Tx)
  BY <1>pick, <1>1, ConcatMembers
<1>3. <<>> \o e = e /\ <<>> \o w = w
  BY <1>2, ConcatEmptySeq
<1>4. (c \o d) \o e = w
  <2>1. (c \o d) \o e = c \o (d \o e)
    OBVIOUS
  <2> QED BY <1>pick, <2>1
<1>5. (a \o b) \o w = a \o x
  <2>1. (a \o b) \o w = a \o (b \o w)
    BY <1>2
  <2> QED BY <1>pick, <2>1
<1> QED BY <1>pick, <1>3, <1>4, <1>5 DEF Chain

\* The head of the line arrives.
LEMMA ChainRecv ==
  ASSUME NEW a \in Seq(Tx), NEW b \in Seq(Tx), NEW c \in Seq(Tx), NEW d \in Seq(Tx), NEW e \in Seq(Tx),
         a # <<>>, IsInjective(Chain(a, b, c, d, e))
  PROVE  /\ ToSet(Chain(a, b, c, d, e)) = ToSet(Chain(Tail(a), b, c, d, e)) \cup {Head(a)}
         /\ IsInjective(Chain(Tail(a), b, c, d, e)) /\ Head(a) \notin ToSet(Chain(Tail(a), b, c, d, e))
<1>pick. PICK v, w, x : v = d \o e /\ w = c \o v /\ x = b \o w
  OBVIOUS
<1>1. v \in Seq(Tx)
  BY <1>pick, ConcatMembers
<1>2. w \in Seq(Tx)
  BY <1>pick, <1>1, ConcatMembers
<1>3. x \in Seq(Tx)
  BY <1>pick, <1>2, ConcatMembers
<1>4. Chain(a, b, c, d, e) = a \o x /\ Chain(Tail(a), b, c, d, e) = Tail(a) \o x
  BY <1>pick DEF Chain
<1>5. IsInjective(a) /\ IsInjective(x) /\ ToSet(a) \cap ToSet(x) = {}
  BY <1>3, <1>4, ConcatDistinct
<1>6. /\ Tail(a) \in Seq(Tx) /\ ToSet(a) = ToSet(Tail(a)) \cup {Head(a)}
      /\ IsInjective(Tail(a)) /\ Head(a) \notin ToSet(Tail(a))
  BY <1>5, TailMembers
<1>7. ToSet(a \o x) = ToSet(a) \cup ToSet(x)
  BY <1>3, ConcatMembers
<1>8. ToSet(Tail(a) \o x) = ToSet(Tail(a)) \cup ToSet(x) /\ IsInjective(Tail(a) \o x)
  <2>1. PICK f : f = Tail(a)
    OBVIOUS
  <2>2. f \in Seq(Tx) /\ IsInjective(f) /\ ToSet(f) \cap ToSet(x) = {}
    BY <1>5, <1>6, <2>1
  <2>3. ToSet(f \o x) = ToSet(f) \cup ToSet(x) /\ IsInjective(f \o x)
    BY <1>3, <1>5, <2>2, ConcatMembers
  <2> QED BY <2>1, <2>3
<1> QED BY <1>4, <1>5, <1>6, <1>7, <1>8

\* A shorter end of a concatenation.
LEMMA ShorterEnd ==
  ASSUME NEW s \in Seq(Tx), NEW t \in Seq(Tx), NEW u \in Seq(Tx),
         IsInjective(s \o t), IsInjective(t) => IsInjective(u), ToSet(u) \subseteq ToSet(t)
  PROVE  s \o u \in Seq(Tx) /\ IsInjective(s \o u) /\ ToSet(s \o u) \subseteq ToSet(s \o t)
<1>1. IsInjective(s) /\ IsInjective(t) /\ ToSet(s) \cap ToSet(t) = {}
  BY ConcatDistinct
<1>2. s \o u \in Seq(Tx) /\ ToSet(s \o u) = ToSet(s) \cup ToSet(u)
  BY ConcatMembers
<1>3. ToSet(s \o t) = ToSet(s) \cup ToSet(t)
  BY ConcatMembers
<1>4. IsInjective(s \o u)
  BY <1>1, ConcatMembers
<1> QED BY <1>2, <1>3, <1>4

\* A refused transaction leaves the line.
LEMMA ChainRefuse ==
  ASSUME NEW a \in Seq(Tx), NEW b \in Seq(Tx), NEW c \in Seq(Tx), NEW d \in Seq(Tx), NEW e \in Seq(Tx),
         e # <<>>, IsInjective(Chain(a, b, c, d, e))
  PROVE  /\ IsInjective(Chain(a, b, c, d, Tail(e)))
         /\ ToSet(Chain(a, b, c, d, Tail(e))) \subseteq ToSet(Chain(a, b, c, d, e))
<1>pick. PICK v, w, x, f : v = d \o e /\ w = c \o v /\ x = b \o w /\ f = Tail(e)
  OBVIOUS
<1>new. PICK vv, ww, xx : vv = d \o f /\ ww = c \o vv /\ xx = b \o ww
  OBVIOUS
<1>1. v \in Seq(Tx)
  BY <1>pick, ConcatMembers
<1>2. w \in Seq(Tx)
  BY <1>pick, <1>1, ConcatMembers
<1>3. x \in Seq(Tx)
  BY <1>pick, <1>2, ConcatMembers
<1>4. Chain(a, b, c, d, e) = a \o x /\ Chain(a, b, c, d, f) = a \o xx
  BY <1>pick, <1>new DEF Chain
<1>5. IsInjective(x)
  BY <1>3, <1>4, ConcatDistinct
<1>6. IsInjective(w)
  BY <1>pick, <1>2, <1>5, ConcatDistinct
<1>7. IsInjective(v)
  BY <1>pick, <1>1, <1>6, ConcatDistinct
<1>8. f \in Seq(Tx) /\ ToSet(f) \subseteq ToSet(e) /\ (IsInjective(e) => IsInjective(f))
  BY <1>pick, TailMembers
<1>9. vv \in Seq(Tx) /\ IsInjective(vv) /\ ToSet(vv) \subseteq ToSet(v)
  BY <1>pick, <1>new, <1>7, <1>8, ShorterEnd
<1>10. ww \in Seq(Tx) /\ IsInjective(ww) /\ ToSet(ww) \subseteq ToSet(w)
  BY <1>pick, <1>new, <1>1, <1>6, <1>9, ShorterEnd
<1>11. xx \in Seq(Tx) /\ IsInjective(xx) /\ ToSet(xx) \subseteq ToSet(x)
  BY <1>pick, <1>new, <1>2, <1>5, <1>10, ShorterEnd
<1>12. IsInjective(a \o xx) /\ ToSet(a \o xx) \subseteq ToSet(a \o x)
  BY <1>3, <1>4, <1>11, ShorterEnd
<1> QED BY <1>pick, <1>4, <1>12

-----------------------------------------------------------------------------
(* Nobody holds what he did not add *)

\* Nothing is added at two nodes.
LEMMA AddedDisjoint ==
  ASSUME DistinctIDs, NEW m \in Node, NEW n \in Node, m # n
  PROVE  Added(m) \cap Added(n) = {}
BY DEF DistinctIDs, Added

\* A line holds what its sender adds.
LEMMA LineOwned ==
  ASSUME Types, Owned, NEW m \in Node, NEW n \in Node, NEW g \in Source
  PROVE  /\ ToSet(Line(m, n, g)) \subseteq Added(m)
         /\ net[m][n] \in Seq(Tx) /\ buffer[m] \in Seq(Tx) /\ todo[m][g] \in Seq(Tx)
         /\ adding[m][g].tx \in Seq(Tx) /\ adding[m][g].batch \in Seq(Tx)
<1>pick. PICK a, b, c, d, e : /\ a = net[m][n] /\ b = adding[m][g].batch /\ c = buffer[m]
                              /\ d = adding[m][g].tx /\ e = todo[m][g]
  OBVIOUS
<1>1. a \in Seq(Tx) /\ c \in Seq(Tx) /\ e \in Seq(Tx)
  BY <1>pick DEF Types
<1>2. b \in Seq(Tx) /\ d \in Seq(Tx)
  BY <1>pick, AddingTypes
<1>3. ToSet(Chain(a, b, c, d, e)) = ToSet(a) \cup ToSet(b) \cup ToSet(c) \cup ToSet(d) \cup ToSet(e)
  BY <1>1, <1>2, ChainMembers
<1>4. ToSet(a) \cup ToSet(b) \cup ToSet(c) \cup ToSet(d) \cup ToSet(e) \subseteq Added(m)
  BY <1>pick DEF Owned, OwnTodo, OwnHands, OwnBuffer, OwnLinks, Added
<1> QED BY <1>pick, <1>1, <1>2, <1>3, <1>4 DEF Line

\* Before the start every transaction belongs to the goroutine it will come to.
LEMMA InitOwned ==
  ASSUME Init
  PROVE  Owned
<1>1. /\ \A n \in Node, g \in Source : adding[n][g] = Idle /\ todo[n][g] = incoming[n][g]
      /\ \A n \in Node : buffer[n] = <<>>
      /\ \A m, n \in Node : net[m][n] = <<>>
  BY DEF Init
<1>2. Idle.tx = <<>> /\ Idle.batch = <<>> /\ Idle.seen = <<>>
  BY DEF Idle
<1>3. ToSet(<<>>) = {}
  BY EmptyMembers
<1> QED BY <1>1, <1>2, <1>3 DEF Owned, OwnTodo, OwnHands, OwnBuffer, OwnLinks, NoSelfLink

\* What one goroutine of n does to what n holds.
LEMMA KeepOwned ==
  ASSUME Types, Owned, NEW n \in Node, NEW g \in Source, NEW c,
         adding' = [adding EXCEPT ![n][g] = c], UNCHANGED incoming,
         ToSet(c.tx) \subseteq Added(n), ToSet(c.batch) \subseteq Added(n), ToSet(c.seen) \subseteq Added(n),
         \A m \in Node, h \in Source : ToSet(todo'[m][h]) \subseteq ToSet(todo[m][h]),
         \A m \in Node : ToSet(buffer'[m]) \subseteq Added(m) /\ net'[m][m] = net[m][m],
         \A m, p \in Node : ToSet(net'[m][p]) \subseteq Added(m)
  PROVE  Owned'
<1>1. /\ adding'[n][g] = c
      /\ \A m \in Node, h \in Source : m # n \/ h # g => adding'[m][h] = adding[m][h]
  BY ONLY Types, adding' = [adding EXCEPT ![n][g] = c], n \in Node, g \in Source DEF Types
<1>2. \A m \in Node : Added(m)' = Added(m)
  BY DEF Added
<1>3. ASSUME NEW m \in Node, NEW h \in Source
      PROVE  /\ ToSet(adding'[m][h].tx) \subseteq Added(m)
             /\ ToSet(adding'[m][h].batch) \subseteq Added(m)
             /\ ToSet(adding'[m][h].seen) \subseteq Added(m)
  <2>1. CASE m = n /\ h = g
    BY <1>1, <2>1
  <2>2. CASE m # n \/ h # g
    BY <1>1, <2>2 DEF Owned, OwnHands
  <2> QED BY <2>1, <2>2
<1>4. OwnHands'
  BY <1>2, <1>3 DEF OwnHands
<1>5. OwnTodo'
  BY DEF Owned, OwnTodo
<1>6. OwnBuffer' /\ OwnLinks'
  BY <1>2 DEF OwnBuffer, OwnLinks
<1>7. NoSelfLink'
  BY DEF Owned, NoSelfLink
<1> QED BY <1>4, <1>5, <1>6, <1>7 DEF Owned

\* Transactions move from a node's incoming ones through its hands, buffer and
\* batches to its links, and nowhere else.
LEMMA StepOwned ==
  ASSUME Types, Owned, [Next]_vars
  PROVE  Owned'
<1>0. /\ \A n \in Node : ToSet(buffer[n]) \subseteq Added(n)
      /\ \A m, n \in Node : ToSet(net[m][n]) \subseteq Added(m)
  BY DEF Owned, OwnBuffer, OwnLinks
<1>1. ASSUME UNCHANGED <<incoming, todo, adding, buffer, net>> PROVE Owned'
  <2>1. \A n \in Node : Added(n)' = Added(n)
    BY <1>1 DEF Added
  <2>2. OwnTodo' /\ NoSelfLink'
    BY <1>1 DEF Owned, OwnTodo, NoSelfLink
  <2>3. OwnHands'
    BY <1>1, <2>1 DEF Owned, OwnHands
  <2>4. OwnBuffer' /\ OwnLinks'
    BY <1>1, <2>1 DEF Owned, OwnBuffer, OwnLinks
  <2> QED BY <2>2, <2>3, <2>4 DEF Owned
<1>2. ASSUME NEW n \in Node, NEW g \in Source, AddTxn(n, g) PROVE Owned'
  <2>1. PICK tx \in Tx, c \in AddState :
           /\ adding[n][g].pc = "idle"
           /\ todo[n][g] \in Seq(Tx) /\ todo[n][g] # <<>> /\ tx = Head(todo[n][g])
           /\ todo' = [todo EXCEPT ![n][g] = Tail(todo[n][g])] /\ Tail(todo[n][g]) \in Seq(Tx)
           /\ c.pc = "share" /\ c.tx = <<tx>> /\ c.batch = <<>> /\ c.seen = <<>>
           /\ \/ UNCHANGED <<pool, adding, accepted>>
              \/ /\ pool' = [pool EXCEPT ![n] = push(pool[n], tx)]
                 /\ adding' = [adding EXCEPT ![n][g] = c]
                 /\ accepted' = [accepted EXCEPT ![n] = accepted[n] \cup {tx}]
           /\ UNCHANGED <<incoming, byz, buffer, net, blocks, cleaning, cleaned, shared>>
    BY <1>2, AddEffect, Zenon
  <2>2. ToSet(todo[n][g]) = ToSet(Tail(todo[n][g])) \cup {tx}
    BY <2>1, TailMembers
  <2>3. \A m \in Node, h \in Source : ToSet(todo'[m][h]) \subseteq ToSet(todo[m][h])
    <3>1. /\ todo'[n][g] = Tail(todo[n][g])
          /\ \A m \in Node, h \in Source : m # n \/ h # g => todo'[m][h] = todo[m][h]
      BY <2>1 DEF Types
    <3> QED BY <2>2, <3>1
  <2>4. tx \in Added(n)
    BY <2>2 DEF Owned, OwnTodo, Added
  <2>5. ToSet(c.tx) = {tx} /\ ToSet(c.batch) = {} /\ ToSet(c.seen) = {}
    BY <2>1, EmptyMembers DEF ToSet
  <2>6. \A m \in Node : ToSet(buffer'[m]) \subseteq Added(m) /\ net'[m][m] = net[m][m]
    BY <2>1, <1>0
  <2>7. \A m, p \in Node : ToSet(net'[m][p]) \subseteq Added(m)
    BY <2>1, <1>0
  <2>8. CASE UNCHANGED adding
    <3>1. \A m \in Node : Added(m)' = Added(m)
      BY <2>1 DEF Added
    <3>2. OwnTodo'
      BY <2>1, <2>3 DEF Owned, OwnTodo
    <3>3. OwnHands'
      BY <2>8, <3>1 DEF Owned, OwnHands
    <3>4. OwnBuffer' /\ OwnLinks'
      BY <2>6, <2>7, <3>1 DEF OwnBuffer, OwnLinks
    <3>5. NoSelfLink'
      BY <2>1 DEF Owned, NoSelfLink
    <3> QED BY <3>2, <3>3, <3>4, <3>5 DEF Owned
  <2>9. CASE adding' = [adding EXCEPT ![n][g] = c]
    <3>1. /\ ToSet(c.tx) \subseteq Added(n) /\ ToSet(c.batch) \subseteq Added(n)
          /\ ToSet(c.seen) \subseteq Added(n) /\ UNCHANGED incoming
      BY <2>1, <2>4, <2>5
    <3> QED BY ONLY Types, Owned, n \in Node, g \in Source, <2>3, <2>6, <2>7, <2>9, <3>1, KeepOwned
  <2> QED BY <2>1, <2>8, <2>9
<1>3. ASSUME NEW n \in Node, NEW g \in Source, TakeBatch(n, g) \/ LoadBuffer(n, g) PROVE Owned'
  <2>1. PICK c \in AddState :
           /\ adding' = [adding EXCEPT ![n][g] = c]
           /\ c.tx = adding[n][g].tx
           /\ \/ /\ adding[n][g].pc = "share" /\ c.pc = "load" /\ c.seen = adding[n][g].seen
                 /\ \/ c.batch = buffer[n] /\ buffer' = [buffer EXCEPT ![n] = <<>>]
                    \/ c.batch = adding[n][g].batch /\ UNCHANGED buffer
              \/ /\ adding[n][g].pc = "load" /\ c.pc = "store" /\ c.seen = buffer[n]
                 /\ c.batch = adding[n][g].batch /\ UNCHANGED buffer
           /\ UNCHANGED <<incoming, byz, pool, todo, net, blocks, cleaning, cleaned, accepted, shared>>
    BY <1>3, ShareEffect
  <2>2. /\ ToSet(c.tx) \subseteq Added(n) /\ ToSet(c.batch) \subseteq Added(n)
        /\ ToSet(c.seen) \subseteq Added(n)
    BY <1>0, <2>1 DEF Owned, OwnHands
  <2>3. \A m \in Node : ToSet(buffer'[m]) \subseteq Added(m)
    <3>1. \A m \in Node : buffer'[m] = buffer[m] \/ buffer'[m] = <<>>
      BY <2>1 DEF Types
    <3>2. ToSet(<<>>) = {}
      BY EmptyMembers
    <3> QED BY <1>0, <3>1, <3>2
  <2>4. \A m, p \in Node : ToSet(net'[m][p]) \subseteq Added(m)
    BY <1>0, <2>1
  <2> QED BY <2>1, <2>2, <2>3, <2>4, KeepOwned
<1>4. ASSUME NEW n \in Node, NEW g \in Source, StoreBuffer(n, g) PROVE Owned'
  <2>pick. PICK tx, seen, batch : tx = adding[n][g].tx /\ seen = adding[n][g].seen /\ batch = adding[n][g].batch
    OBVIOUS
  <2>1. /\ tx \in Seq(Tx) /\ batch \in Seq(Tx) /\ seen \in Seq(Tx)
        /\ buffer' = [buffer EXCEPT ![n] = seen \o tx]
        /\ adding' = [adding EXCEPT ![n][g] = Idle]
        /\ UNCHANGED <<incoming, byz, pool, todo, blocks, cleaning, cleaned, accepted>>
    BY <2>pick, <1>4, StoreEffect
  <2>net. /\ \A m, p \in Node : m # n => net'[m][p] = net[m][p]
          /\ net'[n][n] = net[n][n]
    BY <2>pick, <1>4, StoreLinks
  <2>2. ToSet(tx) \subseteq Added(n) /\ ToSet(batch) \subseteq Added(n) /\ ToSet(seen) \subseteq Added(n)
    BY <2>pick DEF Owned, OwnHands
  <2>3. ToSet(Idle.tx) = {} /\ ToSet(Idle.batch) = {} /\ ToSet(Idle.seen) = {}
    BY EmptyMembers DEF Idle
  <2>4. \A m \in Node : ToSet(buffer'[m]) \subseteq Added(m)
    <3>1. ToSet(seen \o tx) = ToSet(seen) \cup ToSet(tx)
      BY <2>1, ConcatMembers
    <3>2. buffer'[n] = seen \o tx /\ \A m \in Node : m # n => buffer'[m] = buffer[m]
      BY <2>1 DEF Types
    <3> QED BY <1>0, <2>2, <3>1, <3>2
  <2>5. ASSUME NEW p \in Node, p # n PROVE ToSet(net'[n][p]) \subseteq Added(n)
    <3>1. net[n][p] \in Seq(Tx) /\ ToSet(net[n][p]) \subseteq Added(n)
      BY <1>0 DEF Types
    <3>2. ToSet(net[n][p] \o batch) = ToSet(net[n][p]) \cup ToSet(batch)
      BY <2>1, <3>1, ConcatMembers
    <3>3. net'[n][p] = net[n][p] \o batch
      <4>1. \E q \in Seq(Tx) : q = net[n][p] \o batch /\ net'[n][p] = q
        BY <2>pick, <1>4, <2>5, StoreLinks
      <4> QED BY <4>1
    <3> QED BY <2>2, <3>1, <3>2, <3>3
  <2>6. \A m, p \in Node : ToSet(net'[m][p]) \subseteq Added(m)
    BY <1>0, <2>net, <2>5
  <2>7. \A m \in Node : net'[m][m] = net[m][m]
    BY <2>net
  <2> QED BY <2>1, <2>3, <2>4, <2>6, <2>7, KeepOwned
<1>5. ASSUME NEW n \in Node, NEW g \in Source, Producing(n, g) PROVE Owned'
  BY <1>2, <1>3, <1>4, <1>5 DEF Producing
<1>6. ASSUME NEW m \in Node, NEW n \in Node, RecvTX(m, n) PROVE Owned'
  <2>1. PICK tx \in Tx :
        /\ net[m][n] \in Seq(Tx) /\ net[m][n] # <<>> /\ tx = Head(net[m][n])
        /\ net' \in [Node -> [Node -> Seq(Tx)]]
        /\ net'[m][n] = Tail(net[m][n])
        /\ \A p, q \in Node : p # m \/ q # n => net'[p][q] = net[p][q]
        /\ n \in byz => UNCHANGED pool
        /\ n \notin byz => pool' = [pool EXCEPT ![n] = push(pool[n], tx)]
        /\ UNCHANGED <<incoming, byz, buffer, todo, adding, blocks, cleaning, cleaned, accepted, shared>>
    BY <1>6, RecvEffect, Zenon
  <2>2. ToSet(net'[m][n]) \subseteq ToSet(net[m][n])
    BY <2>1, TailMembers
  <2>3. m # n
    BY <2>1 DEF Owned, NoSelfLink
  <2>4. \A p \in Node : Added(p)' = Added(p)
    BY <2>1 DEF Added
  <2>5. ASSUME NEW p \in Node, NEW q \in Node PROVE ToSet(net'[p][q]) \subseteq Added(p)
    <3>1. CASE p = m /\ q = n
      BY <1>0, <2>2, <3>1
    <3>2. CASE p # m \/ q # n
      BY <1>0, <2>1, <3>2
    <3> QED BY <3>1, <3>2
  <2>6. OwnLinks'
    BY <2>4, <2>5 DEF OwnLinks
  <2>7. NoSelfLink'
    BY <2>1, <2>3 DEF Owned, NoSelfLink
  <2>8. OwnTodo' /\ OwnBuffer'
    BY <2>1, <2>4 DEF Owned, OwnTodo, OwnBuffer
  <2>9. OwnHands'
    BY <2>1, <2>4 DEF Owned, OwnHands
  <2> QED BY <2>6, <2>7, <2>8, <2>9 DEF Owned
<1>7. ASSUME NEW n \in Node, GeneratePayload(n) PROVE Owned'
  BY <1>1, <1>7 DEF GeneratePayload, fixedVars
<1>8. ASSUME NEW n \in Node, Cleaning(n) PROVE Owned'
  BY <1>1, <1>8 DEF Cleaning, CleanTxn, ReceiveBlock, fixedVars
<1>9. CASE UNCHANGED vars
  BY <1>1, <1>9 DEF vars
<1>10. CASE Next
  BY <1>5, <1>6, <1>7, <1>8, <1>10 DEF Next
<1> QED BY <1>9, <1>10

-----------------------------------------------------------------------------
(* List and map agree, and nothing is proposed twice *)

\* A pool that does not change, without a new block.
LEMMA KnownKept ==
  ASSUME NEW n \in Node, pool'[n] = pool[n], UNCHANGED blocks
  PROVE  /\ Known(n)' = Known(n) /\ ProposedBy(n)' = ProposedBy(n)
         /\ PoolOnce(n) => PoolOnce(n)'
<1>1. ProposedBy(n)' = ProposedBy(n)
  BY DEF ProposedBy
<1>2. Known(n)' = Known(n)
  BY <1>1 DEF Known
<1>3. PoolOnce(n) => PoolOnce(n)'
  BY <1>1 DEF PoolOnce
<1> QED BY <1>1, <1>2, <1>3

\* A pool that gets a transaction new to it.
LEMMA PushOnce ==
  ASSUME Types, NEW n \in Node, NEW tx \in Tx, tx \notin Known(n), PoolOnce(n),
         pool' = [pool EXCEPT ![n] = push(pool[n], tx)], UNCHANGED blocks
  PROVE  /\ Known(n)' = Known(n) \cup {tx} /\ PoolOnce(n)'
         /\ \A p \in Node : p # n => pool'[p] = pool[p]
<1>pick. PICK q : q = push(pool[n], tx)
  OBVIOUS
<1>0. pool \in [Node -> Backend] /\ pool[n] \in Backend
  BY DEF Types
<1>1. /\ q.order = pool[n].order \cup {tx} /\ ToSet(q.txns) = ToSet(pool[n].txns) \cup {tx}
      /\ IsInjective(pool[n].txns) /\ tx \notin ToSet(pool[n].txns) => IsInjective(q.txns)
  BY <1>pick, <1>0, PushPool
<1>2. pool'[n] = q /\ \A p \in Node : p # n => pool'[p] = pool[p]
  BY <1>pick, <1>0
<1>3. ProposedBy(n)' = ProposedBy(n)
  BY DEF ProposedBy
<1>4. tx \notin ToSet(pool[n].txns) /\ tx \notin ProposedBy(n)
  BY DEF Known
<1>5. Known(n)' = Known(n) \cup {tx}
  BY <1>1, <1>2, <1>3 DEF Known
<1>6. PoolOnce(n)'
  BY <1>1, <1>2, <1>3, <1>4 DEF PoolOnce
<1> QED BY <1>2, <1>5, <1>6

\* A line that only gets shorter stays new to a pool that gets nothing.
LEMMA LinesKept ==
  ASSUME NEW m \in Node, NEW p \in Node, FreshLine(m, p), UNCHANGED incoming,
         Known(p)' \subseteq Known(p),
         \A h \in Source : incoming[m][h] # <<>> =>
            \/ Line(m, p, h)' = Line(m, p, h)
            \/ IsInjective(Line(m, p, h)') /\ ToSet(Line(m, p, h)') \subseteq ToSet(Line(m, p, h))
  PROVE  FreshLine(m, p)'
<1>1. ASSUME NEW h \in Source, incoming[m][h] # <<>>
      PROVE  IsInjective(Line(m, p, h)') /\ ToSet(Line(m, p, h)') \cap Known(p)' = {}
  <2>1. IsInjective(Line(m, p, h)) /\ ToSet(Line(m, p, h)) \cap Known(p) = {}
    BY <1>1 DEF FreshLine
  <2> HIDE DEF Line, Known
  <2> QED BY <1>1, <2>1
<1> QED BY <1>1 DEF FreshLine

\* What has to be shown of a step.
LEMMA OnceParts ==
  ASSUME OnceInv, UNCHANGED <<incoming, byz>>, Owned', ProposedOncePerNode',
         \A n \in Node : PoolOnce(n)', \A n \in Node : FreshOwn(n)',
         \A m, n \in Node : m # n /\ n \notin byz => FreshLine(m, n)'
  PROVE  OnceInv'
<1>1. DistinctIDs'
  BY DEF OnceInv, DistinctIDs
<1>2. NoBufferRace'
  BY DEF OnceInv, NoBufferRace, OneSource
<1> QED BY <1>1, <1>2 DEF OnceInv

\* A transaction a node adds is new to its pool; it keeps its place in the line
\* to every other node, or leaves it when it is refused.
LEMMA AddOnce ==
  ASSUME Types, AddSteps, OnceInv, Owned', NEW n \in Node, NEW g \in Source, AddTxn(n, g)
  PROVE  OnceInv'
<1>1. PICK tx \in Tx, c \in AddState :
           /\ adding[n][g].pc = "idle"
           /\ todo[n][g] \in Seq(Tx) /\ todo[n][g] # <<>> /\ tx = Head(todo[n][g])
           /\ todo' = [todo EXCEPT ![n][g] = Tail(todo[n][g])] /\ Tail(todo[n][g]) \in Seq(Tx)
           /\ c.pc = "share" /\ c.tx = <<tx>> /\ c.batch = <<>> /\ c.seen = <<>>
           /\ \/ UNCHANGED <<pool, adding, accepted>>
              \/ /\ pool' = [pool EXCEPT ![n] = push(pool[n], tx)]
                 /\ adding' = [adding EXCEPT ![n][g] = c]
                 /\ accepted' = [accepted EXCEPT ![n] = accepted[n] \cup {tx}]
           /\ UNCHANGED <<incoming, byz, buffer, net, blocks, cleaning, cleaned, shared>>
  BY AddEffect, Zenon
<1>2. /\ todo'[n][g] = Tail(todo[n][g])
      /\ \A m \in Node, h \in Source : m # n \/ h # g => todo'[m][h] = todo[m][h]
  BY <1>1 DEF Types
<1>3. IsInjective(todo[n][g]) /\ ToSet(todo[n][g]) \cap Known(n) = {}
  BY DEF OnceInv, FreshOwn
<1>4. /\ ToSet(todo[n][g]) = ToSet(Tail(todo[n][g])) \cup {tx}
      /\ IsInjective(Tail(todo[n][g])) /\ tx \notin ToSet(Tail(todo[n][g]))
  BY <1>1, <1>3, TailMembers
<1>5. tx \in ToSet(incoming[n][g]) /\ tx \in Added(n) /\ tx \notin Known(n)
  BY <1>3, <1>4 DEF OnceInv, Owned, OwnTodo, Added
<1>6. adding[n][g].tx = <<>> /\ adding[n][g].batch = <<>>
  BY <1>1 DEF AddSteps
<1>7. ProposedOncePerNode'
  BY <1>1 DEF OnceInv, ProposedOncePerNode
<1>8. CASE UNCHANGED <<pool, adding, accepted>>
  <2>1. \A p \in Node : Known(p)' = Known(p) /\ PoolOnce(p)'
    BY <1>1, <1>8, KnownKept DEF OnceInv
  <2>2. ASSUME NEW p \in Node, NEW h \in Source
        PROVE  IsInjective(todo'[p][h]) /\ ToSet(todo'[p][h]) \cap Known(p) = {}
    <3>1. CASE p = n /\ h = g
      BY <1>2, <1>3, <1>4, <3>1
    <3>2. CASE p # n \/ h # g
      BY <1>2, <3>2 DEF OnceInv, FreshOwn
    <3> QED BY <3>1, <3>2
  <2>3. \A p \in Node : FreshOwn(p)'
    BY <2>1, <2>2 DEF FreshOwn
  <2>4. ASSUME NEW m \in Node, NEW p \in Node, m # p, p \notin byz PROVE FreshLine(m, p)'
    <3>1. FreshLine(m, p)
      BY <2>4 DEF OnceInv
    <3>2. ASSUME NEW h \in Source, m # n \/ h # g PROVE Line(m, p, h)' = Line(m, p, h)
      BY <1>1, <1>2, <1>8, <3>2 DEF Line
    <3>3. ASSUME m = n, incoming[n][g] # <<>>
          PROVE  IsInjective(Line(n, p, g)') /\ ToSet(Line(n, p, g)') \subseteq ToSet(Line(n, p, g))
      <4>pick. PICK u, v, w, x, y : /\ u = net[n][p] /\ v = adding[n][g].batch /\ w = buffer[n]
                                    /\ x = adding[n][g].tx /\ y = todo[n][g]
        OBVIOUS
      <4>1. u \in Seq(Tx) /\ v \in Seq(Tx) /\ w \in Seq(Tx) /\ x \in Seq(Tx) /\ y \in Seq(Tx)
        BY <4>pick, LineOwned DEF OnceInv
      <4>2. Line(n, p, g) = Chain(u, v, w, x, y) /\ Line(n, p, g)' = Chain(u, v, w, x, Tail(y))
        BY <4>pick, <1>1, <1>2, <1>8 DEF Line
      <4>3. IsInjective(Chain(u, v, w, x, y))
        BY <3>1, <3>3, <4>2 DEF FreshLine
      <4>4. y # <<>>
        BY <4>pick, <1>1
      <4>5. /\ IsInjective(Chain(u, v, w, x, Tail(y)))
            /\ ToSet(Chain(u, v, w, x, Tail(y))) \subseteq ToSet(Chain(u, v, w, x, y))
        BY <4>1, <4>3, <4>4, ChainRefuse
      <4> QED BY <4>2, <4>5
    <3> HIDE DEF Line
    <3>4. \A h \in Source : incoming[m][h] # <<>> =>
            \/ Line(m, p, h)' = Line(m, p, h)
            \/ IsInjective(Line(m, p, h)') /\ ToSet(Line(m, p, h)') \subseteq ToSet(Line(m, p, h))
      BY <3>2, <3>3
    <3> QED BY <1>1, <2>1, <3>1, <3>4, LinesKept
  <2> QED BY <1>1, <1>7, <2>1, <2>3, <2>4, OnceParts
<1>9. CASE /\ pool' = [pool EXCEPT ![n] = push(pool[n], tx)]
           /\ adding' = [adding EXCEPT ![n][g] = c]
  <2>0. PoolOnce(n)
    BY DEF OnceInv
  <2>1. /\ Known(n)' = Known(n) \cup {tx} /\ PoolOnce(n)'
        /\ \A p \in Node : p # n => pool'[p] = pool[p]
    BY <1>1, <1>5, <1>9, <2>0, PushOnce
  <2>2. \A p \in Node : p # n => Known(p)' = Known(p) /\ PoolOnce(p)'
    BY <1>1, <2>1, KnownKept DEF OnceInv
  <2>3. \A p \in Node : PoolOnce(p)'
    BY <2>1, <2>2
  <2>4. ASSUME NEW p \in Node, NEW h \in Source
        PROVE  IsInjective(todo'[p][h]) /\ ToSet(todo'[p][h]) \cap Known(p)' = {}
    <3>1. CASE p = n /\ h = g
      BY <1>2, <1>3, <1>4, <2>1, <3>1
    <3>2. CASE p # n
      BY <1>2, <2>2, <3>2 DEF OnceInv, FreshOwn
    <3>3. CASE p = n /\ h # g
      <4>1. ToSet(incoming[n][h]) \cap ToSet(incoming[n][g]) = {}
        BY <3>3 DEF OnceInv, DistinctIDs
      <4>2. tx \notin ToSet(todo[n][h])
        BY <1>5, <4>1 DEF OnceInv, Owned, OwnTodo
      <4>3. IsInjective(todo[n][h]) /\ ToSet(todo[n][h]) \cap Known(n) = {}
        BY DEF OnceInv, FreshOwn
      <4> QED BY <1>2, <2>1, <3>3, <4>2, <4>3
    <3> QED BY <3>1, <3>2, <3>3
  <2>5. \A p \in Node : FreshOwn(p)'
    BY <2>4 DEF FreshOwn
  <2>6. /\ adding'[n][g] = c
        /\ \A m \in Node, h \in Source : m # n \/ h # g => adding'[m][h] = adding[m][h]
    BY ONLY Types, <1>9, n \in Node, g \in Source DEF Types
  <2>7. ASSUME NEW m \in Node, NEW p \in Node, NEW h \in Source
        PROVE  Line(m, p, h)' = Line(m, p, h)
    <3>1. CASE m # n \/ h # g
      BY <1>1, <1>2, <2>6, <3>1 DEF Line
    <3>2. CASE m = n /\ h = g
      <4>pick. PICK u, v, w, x, y : /\ u = net[n][p] /\ v = adding[n][g].batch /\ w = buffer[n]
                                    /\ x = adding[n][g].tx /\ y = todo[n][g]
        OBVIOUS
      <4>1. u \in Seq(Tx) /\ v \in Seq(Tx) /\ w \in Seq(Tx) /\ y \in Seq(Tx)
        BY <4>pick, LineOwned DEF OnceInv
      <4>2. x = <<>> /\ v = <<>> /\ tx = Head(y) /\ y # <<>>
        BY <4>pick, <1>1, <1>6
      <4>3. Line(n, p, g) = Chain(u, v, w, x, y)
        BY <4>pick DEF Line
      <4>4. Line(n, p, g)' = Chain(u, v, w, <<tx>>, Tail(y))
        BY <4>pick, <4>2, <1>1, <1>2, <2>6 DEF Line
      <4>5. Chain(u, v, w, <<Head(y)>>, Tail(y)) = Chain(u, v, w, <<>>, y)
        <5>1. y # <<>>
          BY <4>2
        <5> QED BY ONLY <4>1, <5>1, ChainAccept
      <4> QED BY <3>2, <4>2, <4>3, <4>4, <4>5
    <3> QED BY <3>1, <3>2
  <2> HIDE DEF Line
  <2>8. ASSUME NEW m \in Node, NEW p \in Node, m # p, p \notin byz PROVE FreshLine(m, p)'
    <3>1. FreshLine(m, p)
      BY <2>8 DEF OnceInv
    <3>2. CASE p # n
      BY <1>1, <2>2, <2>7, <3>1, <3>2, LinesKept
    <3>3. CASE p = n
      <4>1. tx \notin Added(m)
        BY <1>5, <2>8, <3>3, AddedDisjoint DEF OnceInv
      <4>2. \A h \in Source : tx \notin ToSet(Line(m, p, h))
        BY <4>1, LineOwned DEF OnceInv
      <4> QED BY <1>1, <2>1, <2>7, <3>1, <3>3, <4>2 DEF FreshLine
    <3> QED BY <3>2, <3>3
  <2> QED BY <1>1, <1>7, <2>3, <2>5, <2>8, OnceParts
<1> QED BY <1>1, <1>8, <1>9

\* Taking and reading the buffer leaves every line as it is.
LEMMA ShareOnce ==
  ASSUME Types, AddSteps, OnceInv, Owned', NEW n \in Node, NEW g \in Source,
         TakeBatch(n, g) \/ LoadBuffer(n, g)
  PROVE  OnceInv'
<1>1. PICK c \in AddState :
           /\ adding' = [adding EXCEPT ![n][g] = c]
           /\ c.tx = adding[n][g].tx
           /\ \/ /\ adding[n][g].pc = "share" /\ c.pc = "load" /\ c.seen = adding[n][g].seen
                 /\ \/ c.batch = buffer[n] /\ buffer' = [buffer EXCEPT ![n] = <<>>]
                    \/ c.batch = adding[n][g].batch /\ UNCHANGED buffer
              \/ /\ adding[n][g].pc = "load" /\ c.pc = "store" /\ c.seen = buffer[n]
                 /\ c.batch = adding[n][g].batch /\ UNCHANGED buffer
           /\ UNCHANGED <<incoming, byz, pool, todo, net, blocks, cleaning, cleaned, accepted, shared>>
  BY ShareEffect
<1>2. \A p \in Node : Known(p)' = Known(p) /\ PoolOnce(p)'
  BY <1>1, KnownKept DEF OnceInv
<1>3. \A p \in Node : FreshOwn(p)'
  BY <1>1, <1>2 DEF OnceInv, FreshOwn
<1>4. ProposedOncePerNode'
  BY <1>1 DEF OnceInv, ProposedOncePerNode
<1>5. /\ adding'[n][g] = c
      /\ \A m \in Node, h \in Source : m # n \/ h # g => adding'[m][h] = adding[m][h]
  BY ONLY Types, <1>1, n \in Node, g \in Source DEF Types
<1>6. \A m \in Node : m # n => buffer'[m] = buffer[m]
  BY <1>1 DEF Types
<1>7. incoming[n][g] # <<>>
  BY <1>1 DEF AddSteps
<1>8. ASSUME NEW m \in Node, NEW p \in Node, NEW h \in Source, m # n
      PROVE  Line(m, p, h)' = Line(m, p, h)
  BY <1>1, <1>5, <1>6, <1>8 DEF Line
<1>9. ASSUME NEW p \in Node PROVE Line(n, p, g)' = Line(n, p, g)
  <2>pick. PICK u, v, w, x, y : /\ u = net[n][p] /\ v = adding[n][g].batch /\ w = buffer[n]
                                /\ x = adding[n][g].tx /\ y = todo[n][g]
    OBVIOUS
  <2>1. u \in Seq(Tx) /\ v \in Seq(Tx) /\ w \in Seq(Tx) /\ x \in Seq(Tx) /\ y \in Seq(Tx)
    BY <2>pick, LineOwned DEF OnceInv
  <2>2. Line(n, p, g) = Chain(u, v, w, x, y)
    BY <2>pick DEF Line
  <2>3. CASE c.batch = adding[n][g].batch /\ UNCHANGED buffer
    BY <2>3, <1>1, <1>5 DEF Line
  <2>4. CASE adding[n][g].pc = "share" /\ c.batch = buffer[n] /\ buffer' = [buffer EXCEPT ![n] = <<>>]
    <3>1. v = <<>>
      BY <2>pick, <2>4 DEF AddSteps
    <3>2. buffer'[n] = <<>>
      BY <2>4 DEF Types
    <3>3. Line(n, p, g)' = Chain(u, w, <<>>, x, y)
      BY <2>pick, <2>4, <1>1, <1>5, <3>2 DEF Line
    <3>4. Chain(u, w, <<>>, x, y) = Chain(u, <<>>, w, x, y)
      BY ONLY <2>1, ChainTake
    <3> QED BY <2>2, <3>1, <3>3, <3>4
  <2> QED BY <1>1, <2>3, <2>4
<1> HIDE DEF Line
<1>10. ASSUME NEW m \in Node, NEW p \in Node, m # p, p \notin byz PROVE FreshLine(m, p)'
  <2>1. FreshLine(m, p) /\ OneSource(m)
    BY <1>10 DEF OnceInv, NoBufferRace
  <2>2. ASSUME NEW h \in Source, incoming[m][h] # <<>> PROVE Line(m, p, h)' = Line(m, p, h)
    <3>1. CASE m # n
      BY <1>8, <3>1
    <3>2. CASE m = n
      <4>1. h = g
        BY <1>7, <2>1, <2>2, <3>2 DEF OneSource
      <4> QED BY <1>9, <3>2, <4>1
    <3> QED BY <3>1, <3>2
  <2> QED BY <1>1, <1>2, <2>1, <2>2, LinesKept
<1> QED BY <1>1, <1>2, <1>3, <1>4, <1>10, OnceParts

\* So does sending a batch, where nobody else has written the buffer.
LEMMA StoreOnce ==
  ASSUME Types, AddSteps, OnceInv, Owned', NEW n \in Node, NEW g \in Source, StoreBuffer(n, g)
  PROVE  OnceInv'
<1>pick. PICK tx, seen, batch : tx = adding[n][g].tx /\ seen = adding[n][g].seen /\ batch = adding[n][g].batch
  OBVIOUS
<1>1. /\ adding[n][g].pc = "store"
      /\ tx \in Seq(Tx) /\ batch \in Seq(Tx) /\ seen \in Seq(Tx)
      /\ buffer' = [buffer EXCEPT ![n] = seen \o tx]
      /\ adding' = [adding EXCEPT ![n][g] = Idle]
      /\ UNCHANGED <<incoming, byz, pool, todo, blocks, cleaning, cleaned, accepted>>
  BY <1>pick, StoreEffect
<1>net. \A m, p \in Node : m # n => net'[m][p] = net[m][p]
  BY <1>pick, StoreLinks
<1>2. \A p \in Node : Known(p)' = Known(p) /\ PoolOnce(p)'
  BY <1>1, KnownKept DEF OnceInv
<1>3. \A p \in Node : FreshOwn(p)'
  BY <1>1, <1>2 DEF OnceInv, FreshOwn
<1>4. ProposedOncePerNode'
  BY <1>1 DEF OnceInv, ProposedOncePerNode
<1>5. /\ adding'[n][g] = Idle
      /\ \A m \in Node, h \in Source : m # n \/ h # g => adding'[m][h] = adding[m][h]
  BY ONLY Types, <1>1, n \in Node, g \in Source DEF Types
<1>6. /\ \A m \in Node : m # n => buffer'[m] = buffer[m]
      /\ buffer'[n] = seen \o tx
  BY <1>1 DEF Types
<1>7. incoming[n][g] # <<>>
  BY <1>1 DEF AddSteps
<1>8. ASSUME NEW m \in Node, NEW p \in Node, NEW h \in Source, m # n
      PROVE  Line(m, p, h)' = Line(m, p, h)
  BY <1>1, <1>net, <1>5, <1>6, <1>8 DEF Line
<1>9. ASSUME NEW p \in Node, p # n, OneSource(n) PROVE Line(n, p, g)' = Line(n, p, g)
  <2>pick. PICK u, w, y : u = net[n][p] /\ w = buffer[n] /\ y = todo[n][g]
    OBVIOUS
  <2>1. u \in Seq(Tx) /\ w \in Seq(Tx) /\ y \in Seq(Tx)
    BY <2>pick, LineOwned DEF OnceInv
  <2>2. Line(n, p, g) = Chain(u, batch, w, tx, y)
    BY <2>pick, <1>pick DEF Line
  <2>3. w = seen
    BY <2>pick, <1>pick, <1>1, <1>9 DEF AddSteps
  <2>4. PICK q \in Seq(Tx) : q = net[n][p] \o batch /\ net'[n][p] = q
    BY <1>pick, <1>9, StoreLinks
  <2>5. Idle.tx = <<>> /\ Idle.batch = <<>>
    BY DEF Idle
  <2>6. Line(n, p, g)' = Chain(q, <<>>, seen \o tx, <<>>, y)
    BY <2>pick, <1>1, <1>5, <1>6, <2>4, <2>5 DEF Line
  <2>7. Chain(u \o batch, <<>>, w \o tx, <<>>, y) = Chain(u, batch, w, tx, y)
    BY ONLY <1>1, <2>1, ChainStore
  <2> QED BY <2>pick, <2>2, <2>3, <2>4, <2>6, <2>7
<1> HIDE DEF Line
<1>10. ASSUME NEW m \in Node, NEW p \in Node, m # p, p \notin byz PROVE FreshLine(m, p)'
  <2>1. FreshLine(m, p) /\ OneSource(m)
    BY <1>10 DEF OnceInv, NoBufferRace
  <2>2. ASSUME NEW h \in Source, incoming[m][h] # <<>> PROVE Line(m, p, h)' = Line(m, p, h)
    <3>1. CASE m # n
      BY <1>8, <3>1
    <3>2. CASE m = n
      <4>1. h = g
        BY <1>7, <2>1, <2>2, <3>2 DEF OneSource
      <4> QED BY <1>9, <1>10, <2>1, <3>2, <4>1
    <3> QED BY <3>1, <3>2
  <2> QED BY <1>1, <1>2, <2>1, <2>2, LinesKept
<1> QED BY <1>1, <1>2, <1>3, <1>4, <1>10, OnceParts

\* The head of a line is new to the pool it goes into, and to everything else
\* that is on its way to that pool.
LEMMA RecvOnce ==
  ASSUME Types, OnceInv, Owned', NEW m \in Node, NEW n \in Node, RecvTX(m, n)
  PROVE  OnceInv'
<1>1. PICK tx \in Tx :
        /\ net[m][n] \in Seq(Tx) /\ net[m][n] # <<>> /\ tx = Head(net[m][n])
        /\ net' \in [Node -> [Node -> Seq(Tx)]]
        /\ net'[m][n] = Tail(net[m][n])
        /\ \A p, q \in Node : p # m \/ q # n => net'[p][q] = net[p][q]
        /\ n \in byz => UNCHANGED pool
        /\ n \notin byz => pool' = [pool EXCEPT ![n] = push(pool[n], tx)]
        /\ UNCHANGED <<incoming, byz, buffer, todo, adding, blocks, cleaning, cleaned, accepted, shared>>
  BY RecvEffect, Zenon
<1>2. ProposedOncePerNode'
  BY <1>1 DEF OnceInv, ProposedOncePerNode
<1>3. m # n
  BY <1>1 DEF OnceInv, Owned, NoSelfLink
<1>4. tx \in Added(m)
  <2>1. tx \in ToSet(net[m][n])
    BY <1>1, TailMembers
  <2> QED BY <2>1 DEF OnceInv, Owned, OwnLinks
<1>5. ASSUME NEW p \in Node, NEW q \in Node, NEW h \in Source, p # m \/ q # n
      PROVE  Line(p, q, h)' = Line(p, q, h)
  BY <1>1, <1>5 DEF Line
<1>6. CASE n \in byz
  <2>1. \A p \in Node : Known(p)' = Known(p) /\ PoolOnce(p)'
    BY <1>1, <1>6, KnownKept DEF OnceInv
  <2>2. \A p \in Node : FreshOwn(p)'
    BY <1>1, <2>1 DEF OnceInv, FreshOwn
  <2> HIDE DEF Line
  <2>3. ASSUME NEW p \in Node, NEW q \in Node, p # q, q \notin byz PROVE FreshLine(p, q)'
    <3>1. FreshLine(p, q) /\ q # n
      BY <1>6, <2>3 DEF OnceInv
    <3>2. \A h \in Source : Line(p, q, h)' = Line(p, q, h)
      BY <1>5, <3>1
    <3>3. Known(q)' \subseteq Known(q) /\ UNCHANGED incoming
      BY <1>1, <2>1
    <3> QED BY ONLY p \in Node, q \in Node, <3>1, <3>2, <3>3, LinesKept
  <2> QED BY <1>1, <1>2, <2>1, <2>2, <2>3, OnceParts
<1>7. CASE n \notin byz
  <2>1. PICK g \in Source : incoming[m][g] # <<>>
    <3>1. PICK g \in Source : tx \in ToSet(incoming[m][g])
      BY <1>4 DEF Added
    <3> QED BY <3>1, EmptyMembers
  <2>2. FreshLine(m, n) /\ OneSource(m)
    BY <1>3, <1>7 DEF OnceInv, NoBufferRace
  <2>3. /\ ToSet(Line(m, n, g)) = ToSet(Line(m, n, g)') \cup {tx}
        /\ IsInjective(Line(m, n, g)') /\ tx \notin ToSet(Line(m, n, g)')
    <3>pick. PICK u, v, w, x, y : /\ u = net[m][n] /\ v = adding[m][g].batch /\ w = buffer[m]
                                  /\ x = adding[m][g].tx /\ y = todo[m][g]
      OBVIOUS
    <3>1. u \in Seq(Tx) /\ v \in Seq(Tx) /\ w \in Seq(Tx) /\ x \in Seq(Tx) /\ y \in Seq(Tx)
      BY <3>pick, LineOwned DEF OnceInv
    <3>2. Line(m, n, g) = Chain(u, v, w, x, y) /\ Line(m, n, g)' = Chain(Tail(u), v, w, x, y)
      BY <3>pick, <1>1 DEF Line
    <3>3. u # <<>> /\ tx = Head(u)
      BY <3>pick, <1>1
    <3>4. IsInjective(Chain(u, v, w, x, y))
      BY <2>1, <2>2, <3>2 DEF FreshLine
    <3>5. /\ ToSet(Chain(u, v, w, x, y)) = ToSet(Chain(Tail(u), v, w, x, y)) \cup {Head(u)}
          /\ IsInjective(Chain(Tail(u), v, w, x, y)) /\ Head(u) \notin ToSet(Chain(Tail(u), v, w, x, y))
      BY ONLY <3>1, <3>3, <3>4, ChainRecv
    <3> QED BY <3>2, <3>3, <3>5
  <2>4. ToSet(Line(m, n, g)) \cap Known(n) = {}
    BY <2>1, <2>2 DEF FreshLine
  <2>5. tx \notin Known(n) /\ PoolOnce(n)
    BY <2>3, <2>4 DEF OnceInv
  <2>6. /\ Known(n)' = Known(n) \cup {tx} /\ PoolOnce(n)'
        /\ \A p \in Node : p # n => pool'[p] = pool[p]
    BY <1>1, <1>7, <2>5, PushOnce
  <2>7. \A p \in Node : p # n => Known(p)' = Known(p) /\ PoolOnce(p)'
    BY <1>1, <2>6, KnownKept DEF OnceInv
  <2>8. \A p \in Node : PoolOnce(p)'
    BY <2>6, <2>7
  <2>9. ASSUME NEW p \in Node PROVE FreshOwn(p)'
    <3>1. FreshOwn(p)
      BY DEF OnceInv
    <3>2. CASE p # n
      BY <1>1, <2>7, <3>1, <3>2 DEF FreshOwn
    <3>3. CASE p = n
      <4>1. \A h \in Source : tx \notin ToSet(todo[n][h])
        <5>1. tx \notin Added(n)
          BY <1>3, <1>4, AddedDisjoint DEF OnceInv
        <5> QED BY <5>1 DEF OnceInv, Owned, OwnTodo, Added
      <4> QED BY <1>1, <2>6, <3>1, <3>3, <4>1 DEF FreshOwn
    <3> QED BY <3>2, <3>3
  <2> HIDE DEF Line
  <2>10. ASSUME NEW p \in Node, NEW q \in Node, p # q, q \notin byz PROVE FreshLine(p, q)'
    <3>1. FreshLine(p, q)
      BY <2>10 DEF OnceInv
    <3>2. CASE q # n
      <4>1. \A h \in Source : Line(p, q, h)' = Line(p, q, h)
        BY <1>5, <3>2
      <4>2. Known(q)' \subseteq Known(q) /\ UNCHANGED incoming
        BY <1>1, <2>7, <3>2
      <4> QED BY ONLY p \in Node, q \in Node, <3>1, <4>1, <4>2, LinesKept
    <3>3. CASE q = n /\ p # m
      <4>1. tx \notin Added(p)
        BY <1>4, <3>3, AddedDisjoint DEF OnceInv
      <4>2. \A h \in Source : tx \notin ToSet(Line(p, n, h))
        BY <4>1, LineOwned DEF OnceInv
      <4> QED BY <1>1, <1>5, <2>6, <3>1, <3>3, <4>2 DEF FreshLine
    <3>4. CASE q = n /\ p = m
      <4>1. \A h \in Source : incoming[m][h] # <<>> => h = g
        BY <2>1, <2>2 DEF OneSource
      <4>2. ToSet(Line(m, n, g)') \cap Known(n)' = {}
        BY <2>3, <2>4, <2>6
      <4> QED BY <1>1, <2>3, <3>4, <4>1, <4>2 DEF FreshLine
    <3> QED BY <3>2, <3>3, <3>4
  <2> QED BY <1>1, <1>2, <2>8, <2>9, <2>10, OnceParts
<1> QED BY <1>6, <1>7

\* A payload is new among the blocks of its proposer, and gone from its pool.
LEMMA GenerateOnce ==
  ASSUME Types, PoolInv, OnceInv, Owned', NEW n \in Node, GeneratePayload(n)
  PROVE  OnceInv'
<1>pick. PICK q, pl : q = untaken(pool[n]) /\ pl = taken(pool[n])
  OBVIOUS
<1>0. /\ pool \in [Node -> Backend] /\ pool[n] \in Backend /\ pool[n].order \subseteq ToSet(pool[n].txns)
      /\ blocks \in Seq(Block)
  BY DEF Types, PoolInv
<1>once. /\ pool[n].order = ToSet(pool[n].txns) /\ IsInjective(pool[n].txns)
         /\ ToSet(pool[n].txns) \cap ProposedBy(n) = {}
  BY DEF OnceInv, PoolOnce
<1>1. /\ blocks' = Append(blocks, [proposer |-> n, payload |-> pl])
      /\ pool' = [pool EXCEPT ![n] = q]
      /\ UNCHANGED <<incoming, byz, buffer, todo, adding, net, cleaning, cleaned, accepted, shared>>
  BY <1>pick DEF GeneratePayload, fixedVars
<1>2. /\ pl \in Seq(Tx) /\ q \in Backend
      /\ ToSet(pool[n].txns) = ToSet(pl) \cup ToSet(q.txns)
      /\ q.order = ToSet(q.txns) /\ IsInjective(q.txns)
      /\ ToSet(pl) \cap ToSet(q.txns) = {}
  BY <1>pick, <1>0, <1>once, TakePool
<1>3. PICK new \in Nat :
        /\ DOMAIN blocks' = DOMAIN blocks \cup {new} /\ new \notin DOMAIN blocks
        /\ \A b \in DOMAIN blocks : blocks'[b] = blocks[b]
        /\ blocks'[new].proposer = n /\ blocks'[new].payload = pl
  BY <1>1, <1>2, NewBlock
<1>4. pool'[n] = q /\ \A p \in Node : p # n => pool'[p] = pool[p]
  BY <1>0, <1>1
<1>5. ASSUME NEW p \in Node, p # n PROVE ProposedBy(p)' = ProposedBy(p)
  BY <1>3, <1>5 DEF ProposedBy
<1>6. ProposedBy(n)' = ProposedBy(n) \cup ToSet(pl)
  <2>1. \A x : x \in ProposedBy(n)' <=>
          \E b \in DOMAIN blocks' : blocks'[b].proposer = n /\ x \in ToSet(blocks'[b].payload)
    BY DEF ProposedBy
  <2>2. \A x : x \in ProposedBy(n) <=>
          \E b \in DOMAIN blocks : blocks[b].proposer = n /\ x \in ToSet(blocks[b].payload)
    BY DEF ProposedBy
  <2> HIDE DEF ProposedBy
  <2>3. \A x : x \in ProposedBy(n)' <=> x \in ProposedBy(n) \/ x \in ToSet(pl)
    BY <1>3, <2>1, <2>2
  <2> QED BY <2>3
<1>7. \A p \in Node : Known(p)' = Known(p)
  BY <1>2, <1>4, <1>5, <1>6 DEF Known
<1>8. ASSUME NEW p \in Node PROVE PoolOnce(p)'
  <2>1. CASE p = n
    BY <1>once, <1>2, <1>4, <1>6, <2>1 DEF PoolOnce
  <2>2. CASE p # n
    BY <1>4, <1>5, <2>2 DEF OnceInv, PoolOnce
  <2> QED BY <2>1, <2>2
<1>9. \A p \in Node : FreshOwn(p)'
  BY <1>1, <1>7 DEF OnceInv, FreshOwn
<1>10. ASSUME NEW m \in Node, NEW p \in Node, m # p, p \notin byz PROVE FreshLine(m, p)'
  <2>1. FreshLine(m, p) /\ Known(p)' \subseteq Known(p) /\ UNCHANGED incoming
    BY <1>1, <1>7, <1>10 DEF OnceInv
  <2>2. \A h \in Source : Line(m, p, h)' = Line(m, p, h)
    BY <1>1 DEF Line
  <2> QED BY ONLY m \in Node, p \in Node, <2>1, <2>2, LinesKept
<1>11. ProposedOncePerNode'
  <2>1. ASSUME NEW b \in DOMAIN blocks, blocks[b].proposer = n
        PROVE  ToSet(blocks[b].payload) \cap ToSet(pl) = {}
    <3>1. ToSet(blocks[b].payload) \subseteq ProposedBy(n)
      BY <2>1 DEF ProposedBy
    <3> QED BY <1>once, <1>2, <3>1
  <2>2. ASSUME NEW b \in DOMAIN blocks', NEW c \in DOMAIN blocks', b # c,
               blocks'[b].proposer = blocks'[c].proposer
        PROVE  ToSet(blocks'[b].payload) \cap ToSet(blocks'[c].payload) = {}
    <3>1. CASE b \in DOMAIN blocks /\ c \in DOMAIN blocks
      BY <1>3, <2>2, <3>1 DEF OnceInv, ProposedOncePerNode
    <3>2. CASE b \in DOMAIN blocks /\ c = new
      BY <1>3, <2>1, <2>2, <3>2
    <3>3. CASE b = new /\ c \in DOMAIN blocks
      BY <1>3, <2>1, <2>2, <3>3
    <3> QED BY <1>3, <2>2, <3>1, <3>2, <3>3
  <2> QED BY <2>2 DEF ProposedOncePerNode
<1> QED BY <1>1, <1>8, <1>9, <1>10, <1>11, OnceParts

\* Cleaning only takes from a pool.
LEMMA CleanOnce ==
  ASSUME Types, PoolInv, OnceInv, Owned', NEW n \in Node, CleanTxn(n)
  PROVE  OnceInv'
<1>pick. PICK tx, q : tx = Head(cleaning[n]) /\ q = remove(pool[n], tx)
  OBVIOUS
<1>0. /\ pool \in [Node -> Backend] /\ pool[n] \in Backend /\ pool[n].order \subseteq ToSet(pool[n].txns)
      /\ cleaning[n] \in Seq(Tx)
  BY DEF Types, PoolInv
<1>1. /\ cleaning[n] # <<>> /\ pool' = [pool EXCEPT ![n] = q]
      /\ UNCHANGED <<incoming, byz, buffer, todo, adding, net, blocks, cleaned, accepted, shared>>
  BY <1>pick DEF CleanTxn, fixedVars
<1>2. tx \in Tx
  BY <1>0, <1>pick, <1>1, TailMembers
<1>3. /\ ToSet(q.txns) \subseteq ToSet(pool[n].txns)
      /\ pool[n].order = ToSet(pool[n].txns) /\ IsInjective(pool[n].txns) =>
           q.order = ToSet(q.txns) /\ IsInjective(q.txns)
  BY <1>0, <1>pick, <1>2, RemovePool
<1>4. pool'[n] = q /\ \A p \in Node : p # n => pool'[p] = pool[p]
  BY <1>0, <1>1
<1>5. \A p \in Node : ProposedBy(p)' = ProposedBy(p)
  BY <1>1 DEF ProposedBy
<1>6. \A p \in Node : Known(p)' \subseteq Known(p)
  BY <1>3, <1>4, <1>5 DEF Known
<1>7. ASSUME NEW p \in Node PROVE PoolOnce(p)'
  <2>1. CASE p = n
    BY <1>3, <1>4, <1>5, <2>1 DEF OnceInv, PoolOnce
  <2>2. CASE p # n
    BY <1>4, <1>5, <2>2 DEF OnceInv, PoolOnce
  <2> QED BY <2>1, <2>2
<1>8. \A p \in Node : FreshOwn(p)'
  BY <1>1, <1>6 DEF OnceInv, FreshOwn
<1>9. ASSUME NEW m \in Node, NEW p \in Node, m # p, p \notin byz PROVE FreshLine(m, p)'
  <2>1. FreshLine(m, p) /\ Known(p)' \subseteq Known(p) /\ UNCHANGED incoming
    BY <1>1, <1>6, <1>9 DEF OnceInv
  <2>2. \A h \in Source : Line(m, p, h)' = Line(m, p, h)
    BY <1>1 DEF Line
  <2> QED BY ONLY m \in Node, p \in Node, <2>1, <2>2, LinesKept
<1>10. ProposedOncePerNode'
  BY <1>1 DEF OnceInv, ProposedOncePerNode
<1> QED BY <1>1, <1>7, <1>8, <1>9, <1>10, OnceParts

\* Nothing that OnceInv speaks of changes.
LEMMA OnceSame ==
  ASSUME OnceInv, Owned', UNCHANGED <<incoming, byz, pool, buffer, todo, adding, net, blocks>>
  PROVE  OnceInv'
<1>1. \A p \in Node : Known(p)' = Known(p) /\ PoolOnce(p)'
  BY KnownKept DEF OnceInv
<1>2. \A p \in Node : FreshOwn(p)'
  BY <1>1 DEF OnceInv, FreshOwn
<1>3. ASSUME NEW m \in Node, NEW p \in Node, m # p, p \notin byz PROVE FreshLine(m, p)'
  <2>1. FreshLine(m, p) /\ Known(p)' \subseteq Known(p) /\ UNCHANGED incoming
    BY <1>1, <1>3 DEF OnceInv
  <2>2. \A h \in Source : Line(m, p, h)' = Line(m, p, h)
    BY DEF Line
  <2> QED BY ONLY m \in Node, p \in Node, <2>1, <2>2, LinesKept
<1>4. ProposedOncePerNode'
  BY DEF OnceInv, ProposedOncePerNode
<1> QED BY <1>1, <1>2, <1>3, <1>4, OnceParts

\* At first a line is what a node has yet to add.
LEMMA InitOnce ==
  ASSUME Init, DistinctIDs, NoBufferRace
  PROVE  OnceInv
<1>1. /\ \A n \in Node, g \in Source : adding[n][g] = Idle /\ todo[n][g] = incoming[n][g]
      /\ \A n \in Node : buffer[n] = <<>> /\ pool[n] = NewBackend
      /\ \A m, n \in Node : net[m][n] = <<>>
      /\ blocks = <<>>
  BY DEF Init
<1>2. \A n \in Node : ProposedBy(n) = {}
  BY <1>1 DEF ProposedBy
<1>3. \A n \in Node : pool[n].txns = <<>> /\ pool[n].order = {}
  BY <1>1 DEF NewBackend
<1>4. ToSet(<<>>) = {} /\ IsInjective(<<>>)
  BY EmptyMembers
<1>5. \A n \in Node : Known(n) = {} /\ PoolOnce(n)
  BY <1>2, <1>3, <1>4 DEF Known, PoolOnce
<1>6. \A n \in Node, g \in Source : IsInjective(incoming[n][g])
  BY DEF DistinctIDs
<1>7. \A n \in Node : FreshOwn(n)
  BY <1>1, <1>5, <1>6 DEF FreshOwn
<1>8. ASSUME NEW m \in Node, NEW n \in Node, NEW g \in Source PROVE IsInjective(Line(m, n, g))
  <2>1. PICK e : e = incoming[m][g]
    OBVIOUS
  <2>2. e \in Seq(Tx)
    BY <2>1, InitTypes DEF Types
  <2>3. Idle.tx = <<>> /\ Idle.batch = <<>>
    BY DEF Idle
  <2>4. Line(m, n, g) = <<>> \o (<<>> \o (<<>> \o (<<>> \o e)))
    BY <1>1, <2>1, <2>3 DEF Line, Chain
  <2>5. <<>> \o e = e
    BY <2>2, ConcatEmptySeq
  <2> QED BY <1>6, <2>1, <2>4, <2>5
<1>9. \A m, n \in Node : FreshLine(m, n)
  BY <1>5, <1>8 DEF FreshLine
<1>10. ProposedOncePerNode
  BY <1>1 DEF ProposedOncePerNode
<1> QED BY <1>5, <1>7, <1>9, <1>10, InitOwned DEF OnceInv

\* One step of anybody.
LEMMA StepOnce ==
  ASSUME Types, PoolInv, AddSteps, OnceInv, [Next]_vars
  PROVE  OnceInv'
<1>1. Owned'
  BY StepOwned DEF OnceInv
<1>2. ASSUME NEW n \in Node, NEW g \in Source, Producing(n, g) PROVE OnceInv'
  BY <1>1, <1>2, AddOnce, ShareOnce, StoreOnce DEF Producing
<1>3. ASSUME NEW m \in Node, NEW n \in Node, RecvTX(m, n) PROVE OnceInv'
  BY <1>1, <1>3, RecvOnce
<1>4. ASSUME NEW n \in Node, GeneratePayload(n) PROVE OnceInv'
  BY <1>1, <1>4, GenerateOnce
<1>5. ASSUME NEW n \in Node, Cleaning(n) PROVE OnceInv'
  <2>1. CASE CleanTxn(n)
    BY <1>1, <2>1, CleanOnce
  <2>2. ASSUME NEW b \in DOMAIN blocks, ReceiveBlock(n, b) PROVE OnceInv'
    BY <1>1, <2>2, OnceSame DEF ReceiveBlock, fixedVars
  <2> QED BY <1>5, <2>1, <2>2 DEF Cleaning
<1>6. CASE UNCHANGED vars
  BY <1>1, <1>6, OnceSame DEF vars
<1>7. CASE Next
  BY <1>2, <1>3, <1>4, <1>5, <1>7 DEF Next
<1> QED BY <1>6, <1>7

\* The invariant of the last two theorems.
OnceIInv == Types /\ PoolInv /\ AddSteps /\ ShareInv /\ OnceInv

\* Where IDs are distinct and the buffer is not raced for, OnceInv is inductive.
LEMMA OnceInductive == Spec /\ DistinctIDs /\ NoBufferRace => []OnceIInv
<1>1. Init /\ DistinctIDs /\ NoBufferRace => OnceIInv
  BY InitPool, InitShare, InitOnce DEF OnceIInv
<1>2. OnceIInv /\ [Next]_vars => OnceIInv'
  BY StepPool, StepShare, StepOnce DEF OnceIInv
<1> QED BY <1>1, <1>2, PTL DEF Spec

\* The list and the map of every pool agree and no transaction is in a list
\* twice, so that a block of another node cleans what it contains: for every
\* workload of distinct IDs in which one goroutine adds at each node whose batches
\* a correct node takes (backend.go push, some and remove, producer.go recv).
THEOREM PoolsOrdered == Spec /\ DistinctIDs /\ NoBufferRace => []OrderMatches
<1>1. OnceIInv => OrderMatches
  BY DEF OnceIInv, OnceInv, PoolOnce, OrderMatches
<1> QED BY <1>1, OnceInductive, PTL

\* No node proposes a transaction twice, for the same workloads: its own
\* transactions, the batches of the others and the cleaning of their blocks may
\* reach its pool in any order.
THEOREM NothingTwice == Spec /\ DistinctIDs /\ NoBufferRace => []ProposedOncePerNode
<1>1. OnceIInv => ProposedOncePerNode
  BY DEF OnceIInv, OnceInv
<1> QED BY <1>1, OnceInductive, PTL
=============================================================================
