-------------------------- MODULE MHotStuffPipelines --------------------------
(***************************************************************************)
(* MHotStuff without faults: no timer fires, nobody forks, and the links   *)
(* keep the order.  Then all replicas go through the views in step, and    *)
(* the two pipelines, the locks, the commits and the forest are right for  *)
(* any number of replicas, any choice of leaders and any silent minority.  *)
(***************************************************************************)
EXTENDS MHotStuffProofs, SequenceLemmas

FaultFree == Ordered /\ TimerViews = {} /\ Forking = {}

-----------------------------------------------------------------------------
(* The invariant *)

\* The block whose certificate leads into view c, and that certificate.
Back(c) == IF c <= 2 THEN 0 ELSE c - 2

Entry(c) ==
  IF c = 0 THEN GenesisQC ELSE [view |-> c - 1, seq |-> c - 1, block |-> Back(c)]

\* A block extends the one before it and certifies the one before that.
PipeBlock(v) ==
  /\ block[v].view = v /\ block[v].seq = v + 1
  /\ block[v].qc = Entry(v) /\ block[v].prev = v - 1
  /\ block[v].tc = NoTC /\ block[v].tcs = <<>>
  /\ block[v].nth = v - 1

PipeBlocks == \A v \in Proposed : PipeBlock(v) /\ 1..v \subseteq Proposed

\* The forest after k blocks, d of them committed from: the commit leaves those
\* from the one it commits on.
ForestAt(f, k, d) ==
  /\ f.lowest = IF d >= 7 THEN d - 5 ELSE 0
  /\ \A c \in f.vertices :
       IF c.id = 0 THEN c.level = 0 /\ ~ c.full
       ELSE /\ c.level = c.id + 1 /\ c.full /\ c.first
            /\ c.id <= k /\ c.level >= f.lowest
  /\ \A v \in 1..k : v + 1 >= f.lowest => \E c \in f.vertices : c.id = v

\* A replica in view c has the certificate that leads into it, and the lock.
AtView(highQC, preferredSeq, c) ==
  /\ highQC = Entry(c)
  /\ preferredSeq = IF c >= 5 THEN c - 3 ELSE 0

\* Only the view a leader is in can wait for its proposal, and only the last
\* block for its signal to be taken.
Announced(newViews, c, k) ==
  \/ newViews = <<>>
  \/ newViews = <<[view |-> c, seq |-> c + 1, pt |-> NoTimeout]>> /\ c = k + 1

Signalled(r, proposeChan, c, k) ==
  \/ proposeChan = <<>>
  \/ /\ proposeChan = <<[ope |-> Continue, view |-> 0]>>
     /\ k >= 1 /\ c = k /\ Leader(k + 1) = r

\* Replica r has added the first k blocks, and voted for the first d.
Progress(r, s, k, d) ==
  /\ s.highBlock = k
  /\ s.curView = k \/ (s.curView = k + 1 /\ Leader(k + 1) = r)
  /\ AtView(s.highQC, s.preferredSeq, s.curView)
  /\ Announced(s.newViews, s.curView, k)
  /\ Signalled(r, s.proposeChan, s.curView, k)
  /\ ForestAt(s.forest, k, d)
  /\ s.voted = 1..d /\ s.committed = 1..(d - 6)
  /\ \A qc \in s.bufferedQCs : qc.block <= k
  /\ s.blocked = 0 /\ s.held = NoBlock /\ s.crashed = FALSE

\* What it received and has not added waits, and not longer than it must.
Buffer(s, k) ==
  /\ s.received = (1..k) \cup s.bufferedBlocks
  /\ \A v \in s.bufferedBlocks : v > k
  /\ s.recursive = IF k + 1 \in s.bufferedBlocks THEN k + 1 ELSE 0

-----------------------------------------------------------------------------
(* The walks of the forest *)

\* Two functions that start and go on in the same way.
LEMMA SameWalk ==
  ASSUME NEW f, NEW g, f[0] = g[0],
         \A n \in Nat \ {0} : f[n - 1] = g[n - 1] => f[n] = g[n]
  PROVE  \A n \in Nat : f[n] = g[n]
<1> DEFINE T == {n \in Nat : f[n] # g[n]}
<1>1. T \subseteq Nat
  OBVIOUS
<1> SUFFICES ASSUME T # {} PROVE FALSE
  OBVIOUS
<1>2. PICK n \in T : \A m \in T : ~ (m < n)
  BY <1>1, LeastNat
<1>3. n \in Nat \ {0} /\ n - 1 \in Nat /\ n - 1 < n
  BY <1>2
<1>4. n - 1 \notin T
  BY <1>2, <1>3
<1>5. f[n - 1] = g[n - 1]
  BY <1>3, <1>4
<1> QED BY <1>2, <1>3, <1>5

\* The walk of PruneUpToLevel, when it stops after at most one step.
LEMMA VisitedIs ==
  ASSUME NEW f, NEW blk, NEW level, NEW S, S = StepDown(f, blk, level),
         \A l \in S : StepDown(f, blk, l) = {},
         Cardinality(f.vertices) \in Nat \ {0}
  PROVE  Visited(f, blk, level) = {level} \cup S
<1> DEFINE more(X) == X \cup UNION {StepDown(f, blk, l) : l \in X}
           walk[n \in Nat] == IF n = 0 THEN {level} ELSE more(walk[n - 1])
           h == [n \in Nat |-> IF n = 0 THEN {level} ELSE {level} \cup S]
<1>1. more({level}) = {level} \cup S /\ more({level} \cup S) = {level} \cup S
  OBVIOUS
<1> HIDE DEF more
<1>2. h = [n \in Nat |-> IF n = 0 THEN {level} ELSE more(h[n - 1])]
  <2>1. ASSUME NEW n \in Nat, n # 0
        PROVE  more(h[n - 1]) = {level} \cup S
    <3>1. n - 1 \in Nat
      BY <2>1
    <3>2. h[n - 1] = {level} \/ h[n - 1] = {level} \cup S
      BY <3>1
    <3> HIDE DEF h
    <3> QED BY <1>1, <3>2
  <2> QED BY <2>1
<1> HIDE DEF h
<1>3. walk = [n \in Nat |-> IF n = 0 THEN {level} ELSE more(walk[n - 1])]
  BY <1>2
<1>4. Visited(f, blk, level) = walk[Cardinality(f.vertices)]
  BY DEF Visited, more
<1> HIDE DEF walk
<1>5. walk[0] = h[0]
  BY <1>2, <1>3
<1>6. \A n \in Nat \ {0} : walk[n - 1] = h[n - 1] => walk[n] = h[n]
  BY <1>2, <1>3
<1>7. walk[Cardinality(f.vertices)] = h[Cardinality(f.vertices)]
  BY <1>5, <1>6, SameWalk
<1> QED BY <1>4, <1>7 DEF h

\* The walk of CommitBlock, when the block before is below LowestLevel.
LEMMA CommittedIs ==
  ASSUME NEW f, NEW blk, NEW id \in Stored(f), Level(blk, id) > f.lowest,
         ~ (blk[id].prev \in Stored(f) /\ Level(blk, blk[id].prev) > f.lowest),
         Cardinality(f.vertices) \in Nat
  PROVE  CommittedBlocks(f, blk, id) = {id}
<1> DEFINE above(S) == {i \in S \cap Stored(f) : Level(blk, i) > f.lowest}
           more(X) == X \cup above({blk[i].prev : i \in X})
           walk[n \in Nat] == IF n = 0 THEN above({id}) ELSE more(walk[n - 1])
           h == [n \in Nat |-> {id}]
<1>1. above({id}) = {id}
  OBVIOUS
<1>2. above({blk[i].prev : i \in {id}}) = {}
  OBVIOUS
<1>3. more({id}) = {id}
  BY <1>2
<1>4. CommittedBlocks(f, blk, id) = {i \in Stored(f) : i \in walk[Cardinality(f.vertices)]}
  BY DEF CommittedBlocks, more, above
<1> HIDE DEF above, more
<1>5. h = [n \in Nat |-> IF n = 0 THEN above({id}) ELSE more(h[n - 1])]
  <2>1. ASSUME NEW n \in Nat, n # 0
        PROVE  more(h[n - 1]) = {id}
    <3>1. n - 1 \in Nat
      BY <2>1
    <3> QED BY <1>3, <3>1
  <2> QED BY <1>1, <2>1
<1> HIDE DEF h
<1>6. walk = [n \in Nat |-> IF n = 0 THEN above({id}) ELSE more(walk[n - 1])]
  BY <1>5
<1> HIDE DEF walk
<1>7. walk[0] = h[0] /\ \A n \in Nat \ {0} : walk[n - 1] = h[n - 1] => walk[n] = h[n]
  BY <1>5, <1>6
<1>8. walk[Cardinality(f.vertices)] = h[Cardinality(f.vertices)]
  BY <1>7, SameWalk
<1> QED BY <1>4, <1>8 DEF h

-----------------------------------------------------------------------------
(* The forest *)

ForestType == [vertices : SUBSET Container(Id), lowest : Nat]

\* The forest has few containers.
LEMMA FewContainers ==
  ASSUME NEW f \in ForestType, NEW k \in Nat, NEW d \in Nat, ForestAt(f, k, d), k >= 1,
         k + 1 >= f.lowest
  PROVE  Cardinality(f.vertices) \in Nat \ {0}
<1> DEFINE full == [i \in 1..k |-> [id |-> i, level |-> i + 1, first |-> TRUE, full |-> TRUE]]
           zero(x) == [id |-> 0, level |-> 0, first |-> x, full |-> FALSE]
           F == {full[i] : i \in 1..k}
           Z == {zero(TRUE)} \cup {zero(FALSE)}
<1>1. IsFiniteSet(F)
  <2>1. IsFiniteSet(1..k)
    BY FS_Interval
  <2>2. full \in Surjection(1..k, F)
    BY DEF Surjection
  <2> HIDE DEF full, F
  <2> QED BY <2>1, <2>2, FS_Surjection
<1>2. IsFiniteSet(Z)
  BY FS_Singleton, FS_Union
<1>3. f.vertices \subseteq F \cup Z
  <2> SUFFICES ASSUME NEW c \in f.vertices PROVE c \in F \cup Z
    OBVIOUS
  <2>1. c \in Container(Id)
    BY DEF ForestType
  <2>2. c = [id |-> c.id, level |-> c.level, first |-> c.first, full |-> c.full]
    BY <2>1 DEF Container
  <2>3. CASE c.id = 0
    <3>1. c = zero(c.first) /\ c.first \in BOOLEAN
      BY <2>1, <2>2, <2>3 DEF ForestAt, Container
    <3> QED BY <3>1
  <2>4. CASE c.id # 0
    <3>1. c.id \in 1..k
      BY <2>1, <2>4 DEF ForestAt, Container, Id
    <3>2. c = full[c.id]
      BY <2>1, <2>2, <2>4, <3>1 DEF ForestAt, Container
    <3> QED BY <3>1, <3>2
  <2> QED BY <2>3, <2>4
<1>4. IsFiniteSet(f.vertices)
  BY <1>1, <1>2, <1>3, FS_Union, FS_Subset
<1>5. f.vertices # {}
  BY DEF ForestAt
<1> QED BY <1>4, <1>5, FS_CardinalityType, FS_EmptySet

\* AddBlock of the next block.
LEMMA AddInStep ==
  ASSUME NEW f \in ForestType, NEW k \in Nat, ForestAt(f, k, k),
         k + 1 \in Proposed, PipeBlocks
  PROVE  ForestAt(AddVertex(f, block, k + 1), k + 1, k)
<1> DEFINE v == k + 1
           new == [id |-> v, level |-> v + 1, full |-> FALSE, first |-> TRUE]
           g == [f EXCEPT !.vertices = f.vertices \cup {new}]
           fill(c) == [c EXCEPT !.full = c.full \/ c.id = v]
           own == fill(new)
           h == [f EXCEPT !.vertices = f.vertices \cup {own}]
<1>1. /\ v \in Nat /\ v # 0 /\ block[v].seq = v + 1 /\ block[v].prev = k /\ block[v].qc.seq = k
      /\ f.lowest \in Nat /\ f.lowest <= k
  <2>1. PipeBlock(v) /\ v - 1 = k /\ v # 0
    BY DEF PipeBlocks
  <2>2. block[v].qc.seq = k
    BY <2>1 DEF PipeBlock, Entry
  <2>3. f.lowest \in Nat /\ f.lowest <= k
    BY DEF ForestType, ForestAt
  <2> QED BY <2>1, <2>2, <2>3 DEF PipeBlock
<1>2. \A c \in f.vertices : /\ c \in Container(Id) /\ c.id \in Nat /\ c.id # v
                            /\ c.level # v + 1 /\ c.id <= k
  BY DEF ForestType, ForestAt, Container, Id
<1>3. getOrCreateVertexContainer(f, v, Level(block, v)) = g
  <2>1. (\A c \in f.vertices : c.level # v + 1) = TRUE
    BY <1>2
  <2> QED BY <1>1, <1>2, <2>1 DEF getOrCreateVertexContainer, Level
<1>4. g.vertices = f.vertices \cup {new} /\ g.lowest = f.lowest
      /\ h.vertices = f.vertices \cup {own} /\ h.lowest = f.lowest
  BY DEF ForestType
<1>5. ~ GetVertex(g, v)
  BY <1>2, <1>4 DEF GetVertex
<1>6. {fill(c) : c \in g.vertices} = f.vertices \cup {own}
  <2>1. fill(new) = own
    OBVIOUS
  <2>2. ASSUME NEW c \in f.vertices PROVE fill(c) = c
    <3>1. c \in Container(Id) /\ c.id # v /\ c.full \in BOOLEAN
      BY <1>2 DEF Container
    <3>2. (c.full \/ c.id = v) = c.full
      BY <3>1
    <3> QED BY <3>1, <3>2 DEF Container
  <2> HIDE DEF fill, new, own
  <2> QED BY <1>4, <2>1, <2>2
<1>7. [g EXCEPT !.vertices = {fill(c) : c \in g.vertices}] = h
  BY <1>6 DEF ForestType
<1>8. AddVertex(f, block, v) = registerWithParent(h, block, v)
  <2>1. ~ (Level(block, v) < f.lowest)
    BY <1>1 DEF Level
  <2> HIDE DEF g, h
  <2> QED BY <1>3, <1>5, <1>7, <2>1 DEF AddVertex
<1> HIDE DEF g
<1>9. ForestAt(h, v, k)
  <2>1. own.id = v /\ own.level = v + 1 /\ own.full = TRUE /\ own.first = TRUE
    <3>1. /\ new.id = v /\ new.level = v + 1 /\ new.first = TRUE
          /\ new \in [id : {v}, level : {v + 1}, full : BOOLEAN, first : {TRUE}]
      OBVIOUS
    <3> HIDE DEF new
    <3> QED BY <3>1
  <2> HIDE DEF own, h
  <2>2. ASSUME NEW c \in h.vertices
        PROVE  IF c.id = 0 THEN c.level = 0 /\ ~ c.full
               ELSE /\ c.level = c.id + 1 /\ c.full /\ c.first
                    /\ c.id <= v /\ c.level >= h.lowest
    <3>1. CASE c = own
      BY <1>1, <1>4, <2>1, <3>1
    <3>2. CASE c \in f.vertices
      BY <1>1, <1>2, <1>4, <3>2 DEF ForestAt
    <3> QED BY <1>4, <3>1, <3>2
  <2>3. ASSUME NEW u \in 1..v, u + 1 >= h.lowest PROVE \E c \in h.vertices : c.id = u
    <3>1. CASE u = v
      BY <1>4, <2>1, <3>1
    <3>2. CASE u # v
      <4>1. u \in 1..k
        BY <3>2
      <4> QED BY <1>4, <2>3, <4>1 DEF ForestAt
    <3> QED BY <3>1, <3>2
  <2> QED BY <1>4, <2>2, <2>3 DEF ForestAt
<1>10. CASE k >= 1
  <2>1. \E c \in h.vertices : c.id = k
    BY <1>1, <1>4, <1>10 DEF ForestAt
  <2>2. registerWithParent(h, block, v) = h
    BY <1>1, <2>1 DEF registerWithParent, getOrCreateVertexContainer
  <2> QED BY <1>8, <1>9, <2>2
<1>11. CASE k = 0
  <2> DEFINE x == \A c \in h.vertices : c.level # 0
             z == [id |-> 0, level |-> 0, full |-> FALSE, first |-> x]
             e == [h EXCEPT !.vertices = h.vertices \cup {z}]
  <2>1. registerWithParent(h, block, v) = h \/ registerWithParent(h, block, v) = e
    BY <1>1, <1>11 DEF registerWithParent, getOrCreateVertexContainer, ParentLevel
  <2>2. z.id = 0 /\ z.level = 0 /\ z.full = FALSE
    OBVIOUS
  <2> HIDE DEF z
  <2>3. e.vertices = h.vertices \cup {z} /\ e.lowest = h.lowest
    BY DEF ForestType
  <2> HIDE DEF e, h
  <2>4. ForestAt(e, v, k)
    BY <1>9, <2>2, <2>3 DEF ForestAt
  <2> QED BY <1>8, <1>9, <2>1, <2>4
<1> QED BY <1>10, <1>11

\* CommitBlock on the block six before: it succeeds, commits that block alone,
\* and prunes the one before it.
LEMMA CommitInStep ==
  ASSUME NEW f \in ForestType, NEW k \in Nat, k >= 7, ForestAt(f, k, k - 1),
         k \in Proposed, PipeBlocks
  PROVE  /\ CommitOutcome(f, block, k - 6) = "ok"
         /\ CommittedBlocks(f, block, k - 6) = {k - 6}
         /\ ForestAt(PruneUpToLevel(f, k - 5), k, k)
<1> DEFINE v == k - 6
           l == k - 5
           S == StepDown(f, block, l)
<1>1. /\ v \in Nat /\ v >= 1 /\ l = v + 1
      /\ f.lowest = IF v >= 2 THEN v ELSE 0
  BY DEF ForestAt
<1>2. /\ \A u \in 1..k : block[u].seq = u + 1 /\ block[u].prev = u - 1
  BY DEF PipeBlocks, PipeBlock
<1>3. \A c \in f.vertices : /\ c.id \in Nat
                            /\ c.full => c.level = c.id + 1 /\ c.level >= f.lowest /\ c.id # 0
                            /\ c.id # 0 => c.full /\ c.first
  BY DEF ForestType, ForestAt, Container, Id
<1>4. \A u \in 1..k : u + 1 >= f.lowest => \E c \in f.vertices : c.id = u
  BY DEF ForestAt
<1>5. \A u \in 1..k : u + 1 >= f.lowest => GetVertex(f, u) /\ VertexAt(f, u + 1) # {} /\ u \in Stored(f)
  <2> SUFFICES ASSUME NEW u \in 1..k, u + 1 >= f.lowest
               PROVE  GetVertex(f, u) /\ VertexAt(f, u + 1) # {} /\ u \in Stored(f)
    OBVIOUS
  <2>1. PICK c \in f.vertices : c.id = u
    BY <1>4
  <2>2. c.full /\ c.first /\ c.level = u + 1
    BY <1>3, <2>1
  <2> QED BY <2>1, <2>2 DEF GetVertex, VertexAt, Stored
<1>6. \A u \in Nat : GetVertex(f, u) \/ u \in Stored(f) => u >= 1 /\ u + 1 >= f.lowest
  BY <1>3 DEF GetVertex, Stored
<1>7. \A m \in Nat : \A c \in VertexAt(f, m) : c.id = m - 1
  BY <1>3 DEF VertexAt
<1>8. \A m \in Nat : \A x \in StepDown(f, block, m) :
        m \in 3..(k + 1) => x = m - 1 /\ m - 1 >= f.lowest
  <2> SUFFICES ASSUME NEW m \in 3..(k + 1), NEW x \in StepDown(f, block, m)
               PROVE  x = m - 1 /\ m - 1 >= f.lowest
    OBVIOUS
  <2>1. PICK c \in VertexAt(f, m) : /\ x = Level(block, block[c.id].prev)
                                    /\ Level(block, block[c.id].prev) >= f.lowest
    BY DEF StepDown
  <2>2. c.id = m - 1 /\ m - 1 \in 1..k /\ m - 2 \in 1..k
    BY <1>7
  <2>3. block[c.id].prev = m - 2 /\ Level(block, m - 2) = m - 1
    BY <1>2, <2>2 DEF Level
  <2> QED BY <2>1, <2>3
<1>9. StepDown(f, block, 2) = {}
  <2> SUFFICES ASSUME NEW x \in StepDown(f, block, 2) PROVE FALSE
    OBVIOUS
  <2>1. PICK c \in VertexAt(f, 2) : GetVertex(f, block[c.id].prev)
    BY DEF StepDown
  <2>2. c.id = 1 /\ 1 \in 1..k
    BY <1>7
  <2>3. block[c.id].prev = 0
    BY <1>2, <2>2
  <2> QED BY <1>6, <2>1, <2>3
<1>10. /\ S \subseteq {v}
       /\ \A m \in S : StepDown(f, block, m) = {} /\ m >= 2 /\ VertexAt(f, m) # {}
  <2>1. CASE v = 1
    BY <1>1, <1>9, <2>1
  <2>2. CASE v >= 2
    <3>1. l \in 3..(k + 1) /\ l \in Nat
      BY <1>1, <2>2
    <3>2. S \subseteq {v}
      BY <1>1, <1>8, <3>1
    <3>3. StepDown(f, block, v) = {}
      <4>1. CASE v = 2
        BY <1>9, <4>1
      <4>2. CASE v >= 3
        <5>1. v \in 3..(k + 1) /\ ~ (v - 1 >= f.lowest)
          BY <1>1, <2>2, <4>2
        <5> QED BY <1>8, <5>1
      <4> QED BY <2>2, <4>1, <4>2
    <3>4. VertexAt(f, v) # {}
      <4>1. v - 1 \in 1..k /\ (v - 1) + 1 >= f.lowest /\ (v - 1) + 1 = v
        BY <1>1, <2>2
      <4> QED BY <1>5, <4>1
    <3> QED BY <2>2, <3>2, <3>3, <3>4
  <2> QED BY <1>1, <2>1, <2>2
<1>11. VertexAt(f, l) # {}
  <2>1. v \in 1..k /\ v + 1 >= f.lowest
    BY <1>1
  <2> QED BY <1>1, <1>5, <2>1
<1>12. Cardinality(f.vertices) \in Nat \ {0}
  <2>1. k - 1 \in Nat /\ k >= 1 /\ k + 1 >= f.lowest
    BY <1>1
  <2> QED BY <2>1, FewContainers
<1>13. Visited(f, block, l) = {l} \cup S
  BY <1>10, <1>12, VisitedIs
<1>14. CommitOutcome(f, block, v) = "ok"
  <2>1. Level(block, v) = l /\ ~ (l < f.lowest)
    BY <1>1, <1>2 DEF Level
  <2>2. ~ PrunePanics(f, block, l)
    BY <1>10, <1>11, <1>13 DEF PrunePanics
  <2>3. ~ PruneLoops(f, block, l)
    BY <1>10, <1>13 DEF PruneLoops
  <2> QED BY <2>1, <2>2, <2>3 DEF CommitOutcome
<1>15. CommittedBlocks(f, block, v) = {v}
  <2>1. v \in Stored(f) /\ Level(block, v) > f.lowest
    BY <1>1, <1>2, <1>5 DEF Level
  <2>2. ~ (block[v].prev \in Stored(f) /\ Level(block, block[v].prev) > f.lowest)
    <3>1. block[v].prev = v - 1 /\ v - 1 \in Nat
      BY <1>1, <1>2
    <3>2. CASE v = 1
      BY <1>6, <3>1, <3>2
    <3>3. CASE v >= 2
      <4>1. Level(block, v - 1) = v
        BY <1>1, <1>2, <3>3 DEF Level
      <4> QED BY <1>1, <3>1, <3>3, <4>1
    <3> QED BY <1>1, <3>2, <3>3
  <2> QED BY <1>12, <2>1, <2>2, CommittedIs
<1>16. ForestAt(PruneUpToLevel(f, l), k, k)
  <2> DEFINE p == PruneUpToLevel(f, l)
  <2>1. p.lowest = l /\ p.vertices = {c \in f.vertices : ~ (c.level < l)}
    BY DEF PruneUpToLevel, Pruned
  <2> HIDE DEF p
  <2>2. \A c \in f.vertices : c.level \in Int
    BY DEF ForestType, Container
  <2>3. ASSUME NEW u \in 1..k, u + 1 >= l PROVE \E c \in p.vertices : c.id = u
    <3>1. PICK c \in f.vertices : c.id = u
      BY <1>1, <1>4, <2>3
    <3>2. c.level = u + 1
      BY <1>3, <3>1
    <3> QED BY <2>1, <2>3, <3>1, <3>2
  <2>4. \A c \in p.vertices : c.id = 0 => c.level = 0 /\ ~ c.full
    BY <2>1 DEF ForestAt
  <2>5. \A c \in p.vertices : c.id # 0 => /\ c.level = c.id + 1 /\ c.full /\ c.first
                                         /\ c.id <= k /\ c.level >= l
    BY <2>1, <2>2 DEF ForestAt
  <2>6. p.lowest = IF k >= 7 THEN k - 5 ELSE 0
    BY <2>1
  <2>7. \A c \in p.vertices :
          IF c.id = 0 THEN c.level = 0 /\ ~ c.full
          ELSE /\ c.level = c.id + 1 /\ c.full /\ c.first
               /\ c.id <= k /\ c.level >= p.lowest
    BY <2>1, <2>4, <2>5
  <2>8. \A u \in 1..k : u + 1 >= p.lowest => \E c \in p.vertices : c.id = u
    BY <2>1, <2>3
  <2>9. ForestAt(p, k, k)
    BY <2>6, <2>7, <2>8 DEF ForestAt
  <2> QED BY <2>9 DEF p
<1> QED BY <1>14, <1>15, <1>16

-----------------------------------------------------------------------------
(* The handlers, field by field *)

\* The next block's certificate, and the two before it.
LEMMA PipeChain ==
  ASSUME PipeBlocks, NEW k \in Nat, k \in Proposed \cup {0}
  PROVE  /\ k >= 3 => k - 1 \in Proposed /\ block[k - 1].seq = k /\ block[k - 1].qc.block = k - 3
         /\ k >= 4 => k - 3 \in Proposed /\ block[k - 3].seq = k - 2
         /\ k >= 6 => block[k - 3].qc.block = k - 5 /\ block[k - 5].seq = k - 4
<1>1. \A v \in Proposed : v \in Nat /\ v # 0 /\ block[v].seq = v + 1 /\ block[v].qc = Entry(v)
  BY MaxViewNat DEF PipeBlocks, PipeBlock, Proposed, View
<1>2. \A u \in 1..k : u \in Proposed
  BY DEF PipeBlocks
<1>3. \A v \in Nat : v >= 1 => Entry(v).block = Back(v)
  BY DEF Entry
<1>4. \A v \in Nat : v >= 2 => Back(v) = v - 2
  BY DEF Back
<1>5. k >= 3 => k - 1 \in 1..k /\ k - 1 \in Nat /\ k - 1 >= 2
  OBVIOUS
<1>6. k >= 4 => k - 3 \in 1..k /\ k - 3 \in Nat
  OBVIOUS
<1>7. k >= 6 => k - 5 \in 1..k /\ k - 3 >= 2
  OBVIOUS
<1> QED BY <1>1, <1>2, <1>3, <1>4, <1>5, <1>6, <1>7

\* The next block.
LEMMA NextBlock ==
  ASSUME PipeBlocks, NEW k \in Nat, k + 1 \in Proposed
  PROVE  /\ block[k + 1].view = k + 1 /\ block[k + 1].seq = k + 2 /\ block[k + 1].tc = NoTC
         /\ block[k + 1].qc = Entry(k + 1) /\ block[k + 1].qc.seq = k
         /\ block[k + 1].qc.block = (IF k <= 1 THEN 0 ELSE k - 1)
         /\ k \in Proposed \cup {0} /\ Received(block[k + 1])
<1>1. PipeBlock(k + 1) /\ 1..(k + 1) \subseteq Proposed
  BY DEF PipeBlocks
<1>2. (k + 1) - 1 = k /\ (k + 1) + 1 = k + 2 /\ (k + 1) - 2 = k - 1 /\ k + 1 # 0
  OBVIOUS
<1>3. Back(k + 1) = (IF k <= 1 THEN 0 ELSE k - 1)
  BY <1>2 DEF Back
<1>4. Entry(k + 1).seq = k /\ Entry(k + 1).block = Back(k + 1)
  BY <1>2 DEF Entry
<1>5. k \in Proposed \cup {0}
  BY <1>1
<1>6. Received(block[k + 1])
  BY DEF Received
<1> HIDE DEF Received
<1> QED BY <1>1, <1>2, <1>3, <1>4, <1>5, <1>6 DEF PipeBlock

\* The blocks that have not been pruned are found.
LEMMA StoredIs ==
  ASSUME NEW f \in ForestType, NEW k \in Nat, NEW d \in Nat, ForestAt(f, k, d),
         NEW u \in 1..k, u + 1 >= f.lowest
  PROVE  GetVertex(f, u)
<1>1. PICK c \in f.vertices : c.id = u
  BY DEF ForestAt
<1>2. c.full
  BY <1>1 DEF ForestAt
<1> QED BY <1>1, <1>2 DEF GetVertex

\* What no handler of a block or a certificate changes here.
Rest(s, t) ==
  /\ t.received = s.received /\ t.bufferedBlocks = s.bufferedBlocks
  /\ t.bufferedQCs = s.bufferedQCs /\ t.dual = s.dual /\ t.waiting = s.waiting
  /\ t.blocked = s.blocked /\ t.held = s.held /\ t.crashed = s.crashed

\* What changes with the view.
ViewOf(s, t) ==
  /\ t.curView = s.curView /\ t.newViews = s.newViews
  /\ t.highQC = s.highQC /\ t.preferredSeq = s.preferredSeq

\* What changes with a block.
BlockOf(s, t) ==
  /\ t.forest = s.forest /\ t.highBlock = s.highBlock /\ t.proposeChan = s.proposeChan
  /\ t.committed = s.committed /\ t.votes = s.votes /\ t.voted = s.voted
  /\ t.recursive = s.recursive

LEMMA ForestOfType ==
  ASSUME NEW s \in ReplicaState
  PROVE  s.forest \in ForestType
BY DEF ReplicaState, ForestType

\* AdvanceView from view k or an earlier one.
LEMMA AdvanceIs ==
  ASSUME NEW r, NEW s \in ReplicaState, NEW k \in Nat, ~ (k < s.curView)
  PROVE  LET t == AdvanceView(r, s, k, k, NoTimeout)
         IN  /\ Rest(s, t) /\ BlockOf(s, t)
             /\ t.curView = k + 1 /\ t.highQC = s.highQC /\ t.preferredSeq = s.preferredSeq
             /\ Leader(k + 1) # r => t.newViews = s.newViews
             /\ Leader(k + 1) = r =>
                  t.newViews = Append(s.newViews, [view |-> k + 1, seq |-> k + 2, pt |-> NoTimeout])
<1> DEFINE t == AdvanceView(r, s, k, k, NoTimeout)
           z == IF Leader(k + 1) = r
                  THEN Append(s.newViews, [view |-> k + 1, seq |-> k + 2, pt |-> NoTimeout])
                  ELSE s.newViews
           x == k + 1
           y == k + 2
           w == s.curView
<1>1. t = [s EXCEPT !.curView = x, !.prevView = w, !.curSeq = y, !.newViews = z]
  BY DEF AdvanceView
<1>2. /\ Leader(k + 1) # r => z = s.newViews
      /\ Leader(k + 1) = r =>
           z = Append(s.newViews, [view |-> k + 1, seq |-> k + 2, pt |-> NoTimeout])
      /\ x = k + 1
  OBVIOUS
<1> HIDE DEF t, x, y, z, w
<1>3. /\ Rest(s, t) /\ BlockOf(s, t)
      /\ t.curView = x /\ t.highQC = s.highQC /\ t.preferredSeq = s.preferredSeq
      /\ t.newViews = z
  BY <1>1 DEF ReplicaState, Rest, BlockOf
<1> QED BY <1>2, <1>3 DEF t

\* The certificate that leads from view k into the next one is accepted.
LEMMA CertificateInStep ==
  ASSUME FaultFree, PipeBlocks, NEW r, NEW s \in ReplicaState, NEW k \in Nat,
         k \in Proposed \cup {0}, s.curView = k, AtView(s.highQC, s.preferredSeq, k),
         ForestAt(s.forest, k, k)
  PROVE  LET t == processCertificate(r, s, Entry(k + 1))
         IN  /\ t.curView = k + 1 /\ AtView(t.highQC, t.preferredSeq, k + 1)
             /\ Rest(s, t) /\ BlockOf(s, t)
             /\ Leader(k + 1) # r => t.newViews = s.newViews
             /\ Leader(k + 1) = r =>
                  t.newViews = Append(s.newViews, [view |-> k + 1, seq |-> k + 2, pt |-> NoTimeout])
<1> DEFINE t == processCertificate(r, s, Entry(k + 1))
           qc == Entry(k + 1)
           p == updatePreferredSeq(s, qc)
           u == updateHighQC(p, qc)
           nv == [view |-> k + 1, seq |-> k + 2, pt |-> NoTimeout]
<1>1. /\ qc.view = k /\ qc.seq = k /\ qc.block = (IF k <= 1 THEN 0 ELSE k - 1)
      /\ Forking = {}
  BY DEF Entry, Back, FaultFree
<1>2. k >= 4 => /\ qc.block = k - 1 /\ block[qc.block].qc.block = k - 3
                /\ block[block[qc.block].qc.block].seq = k - 2
  <2>1. k >= 4 => block[k - 1].qc.block = k - 3 /\ block[k - 3].seq = k - 2
    BY PipeChain
  <2> HIDE DEF qc
  <2> QED BY <1>1, <2>1
<1>3. PreferredKnown(s, qc)
  <2>1. CASE k >= 4
    <3>1. s.forest \in ForestType /\ s.forest.lowest <= k - 2
      BY <2>1, ForestOfType DEF ForestAt
    <3>2. k - 1 \in 1..k /\ k - 3 \in 1..k /\ (k - 1) + 1 >= s.forest.lowest
          /\ (k - 3) + 1 >= s.forest.lowest
      BY <2>1, <3>1 DEF ForestType
    <3>3. GetVertex(s.forest, k - 1) /\ GetVertex(s.forest, k - 3)
      BY <3>1, <3>2, StoredIs
    <3> QED BY <1>2, <2>1, <3>3 DEF PreferredKnown, GetBlockByID
  <2>2. CASE ~ (k >= 4)
    BY <1>1, <2>2 DEF PreferredKnown
  <2> QED BY <2>1, <2>2
<1>4. t = AdvanceView(r, u, qc.view, qc.seq, NoTimeout)
  BY <1>1, <1>3 DEF processCertificate
<1>5. /\ p \in ReplicaState
      /\ Rest(s, p) /\ BlockOf(s, p) /\ p.curView = s.curView /\ p.newViews = s.newViews
      /\ p.highQC = s.highQC
      /\ p.preferredSeq = IF k >= 4 THEN k - 2 ELSE 0
  <2>1. s.preferredSeq = (IF k >= 5 THEN k - 3 ELSE 0)
    BY DEF AtView
  <2>2. CASE k >= 4
    <3> DEFINE x == block[block[qc.block].qc.block].seq
    <3>1. x = k - 2 /\ x > s.preferredSeq /\ x \in Nat
      BY <1>2, <2>1, <2>2
    <3>2. p = [s EXCEPT !.preferredSeq = x]
      BY <1>1, <2>2, <3>1 DEF updatePreferredSeq
    <3> HIDE DEF x, p
    <3>3. p \in ReplicaState
      BY <3>1, <3>2, ZenonT(60) DEF ReplicaState
    <3>4. Rest(s, p) /\ BlockOf(s, p) /\ p.curView = s.curView /\ p.newViews = s.newViews
          /\ p.highQC = s.highQC /\ p.preferredSeq = x
      BY <3>2 DEF ReplicaState, Rest, BlockOf
    <3> QED BY <2>2, <3>1, <3>3, <3>4
  <2>3. CASE ~ (k >= 4)
    <3>1. p = s
      BY <1>1, <2>3 DEF updatePreferredSeq
    <3> HIDE DEF p
    <3> QED BY <2>1, <2>3, <3>1 DEF Rest, BlockOf
  <2> QED BY <2>2, <2>3
<1> HIDE DEF p
<1>6. /\ u \in ReplicaState
      /\ Rest(p, u) /\ BlockOf(p, u) /\ u.curView = p.curView /\ u.newViews = p.newViews
      /\ u.highQC = qc /\ u.preferredSeq = p.preferredSeq
  <2>1. p.highQC = Entry(k)
    BY <1>5 DEF AtView
  <2>2. CASE k = 0
    <3>1. qc = Entry(k) /\ u = p
      BY <1>1, <2>1, <2>2 DEF Entry, GenesisQC, updateHighQC, Back
    <3> HIDE DEF u
    <3> QED BY <1>5, <2>1, <3>1 DEF Rest, BlockOf
  <2>3. CASE k # 0
    <3>1. p.highQC.view = k - 1
      BY <2>1, <2>3 DEF Entry
    <3>2. u = [p EXCEPT !.secHighQC = p.highQC, !.highQC = qc]
      BY <1>1, <2>3, <3>1 DEF updateHighQC
    <3>3. qc \in QC
      <4>1. qc.block \in Id
        BY <1>1, MaxViewNat DEF Id, Proposed, View
      <4> QED BY <4>1 DEF QC, Entry
    <3> HIDE DEF u, qc
    <3>4. u \in ReplicaState
      BY <1>5, <3>2, <3>3, ZenonT(60) DEF ReplicaState
    <3>5. /\ Rest(p, u) /\ BlockOf(p, u) /\ u.curView = p.curView /\ u.newViews = p.newViews
          /\ u.highQC = qc /\ u.preferredSeq = p.preferredSeq
      BY <1>5, <3>2 DEF ReplicaState, Rest, BlockOf
    <3> QED BY <3>4, <3>5
  <2> QED BY <2>2, <2>3
<1> HIDE DEF u
<1> HIDE DEF qc, t
<1>7. t = AdvanceView(r, u, k, k, NoTimeout) /\ ~ (k < u.curView)
  BY <1>1, <1>4, <1>5, <1>6
<1>8. /\ Rest(u, t) /\ BlockOf(u, t)
      /\ t.curView = k + 1 /\ t.highQC = u.highQC /\ t.preferredSeq = u.preferredSeq
      /\ Leader(k + 1) # r => t.newViews = u.newViews
      /\ Leader(k + 1) = r => t.newViews = Append(u.newViews, nv)
  <2> DEFINE a == AdvanceView(r, u, k, k, NoTimeout)
  <2>1. /\ Rest(u, a) /\ BlockOf(u, a)
        /\ a.curView = k + 1 /\ a.highQC = u.highQC /\ a.preferredSeq = u.preferredSeq
        /\ Leader(k + 1) # r => a.newViews = u.newViews
        /\ Leader(k + 1) = r => a.newViews = Append(u.newViews, nv)
    BY <1>6, <1>7, AdvanceIs
  <2> QED BY <1>7, <2>1
<1>9. Rest(s, t) /\ BlockOf(s, t)
  BY <1>5, <1>6, <1>8 DEF Rest, BlockOf
<1>10. AtView(t.highQC, t.preferredSeq, k + 1)
  BY <1>5, <1>6, <1>8 DEF AtView, qc
<1> QED BY <1>5, <1>6, <1>8, <1>9, <1>10 DEF t

\* AddBlock and the signal, for the next block.
LEMMA AddedInStep ==
  ASSUME PipeBlocks, NEW r, NEW s \in ReplicaState, NEW k \in Nat, k + 1 \in Proposed,
         s.curView = k + 1, s.highBlock = k, s.proposeChan = <<>>, ForestAt(s.forest, k, k)
  PROVE  LET t == addBlock(s, block[k + 1])
         IN  /\ Rest(s, t) /\ ViewOf(s, t)
             /\ t.committed = s.committed /\ t.votes = s.votes /\ t.voted = s.voted
             /\ t.proposeChan = <<>> /\ t.highBlock = k + 1
             /\ ForestAt(t.forest, k + 1, k)
             /\ mustSignal(r, t, block[k + 1]) <=> Leader(k + 2) = r
             /\ hasRoom(t)
<1> DEFINE b == block[k + 1]
           F == AddVertex(s.forest, block, k + 1)
           t == addBlock(s, b)
<1>1. b.view = k + 1 /\ b.tc = NoTC
  BY DEF PipeBlocks, PipeBlock
<1>2. t = [s EXCEPT !.forest = F, !.highBlock = k + 1]
  <2>1. (IF b.view > s.highBlock THEN b.view ELSE s.highBlock) = k + 1
    BY <1>1
  <2>2. AddVertex(s.forest, block, b.view) = F
    BY <1>1
  <2> HIDE DEF b, F
  <2> QED BY <2>1, <2>2 DEF addBlock
<1>3. ForestAt(F, k + 1, k)
  BY AddInStep, ForestOfType
<1> HIDE DEF t, b, F
<1>4. /\ Rest(s, t) /\ ViewOf(s, t)
      /\ t.committed = s.committed /\ t.votes = s.votes /\ t.voted = s.voted
      /\ t.proposeChan = s.proposeChan /\ t.highBlock = k + 1 /\ t.forest = F
  BY <1>2 DEF ReplicaState, Rest, ViewOf
<1>5. mustSignal(r, t, b) <=> Leader(k + 2) = r
  <2>1. t.curView = k + 1 /\ (k + 1) + 1 = k + 2
    BY <1>4 DEF ViewOf
  <2>2. t.curView + 1 = k + 2
    BY <2>1
  <2> QED BY <1>1, <2>2 DEF mustSignal
<1>6. hasRoom(t)
  BY <1>4 DEF hasRoom, SignalCap
<1> QED BY <1>3, <1>4, <1>5, <1>6 DEF t, b

LEMMA SignalInStep ==
  ASSUME NEW s \in ReplicaState, s.proposeChan = <<>>
  PROVE  LET t == sendSignal(s, Continue, 0)
         IN  /\ Rest(s, t) /\ ViewOf(s, t)
             /\ t.committed = s.committed /\ t.votes = s.votes /\ t.voted = s.voted
             /\ t.highBlock = s.highBlock /\ t.forest = s.forest
             /\ t.proposeChan = <<[ope |-> Continue, view |-> 0]>>
<1> DEFINE C == Append(s.proposeChan, [ope |-> Continue, view |-> 0])
           t == sendSignal(s, Continue, 0)
<1>1. t = [s EXCEPT !.proposeChan = C]
  BY DEF sendSignal
<1>2. C = <<[ope |-> Continue, view |-> 0]>>
  OBVIOUS
<1> HIDE DEF t, C
<1>3. /\ Rest(s, t) /\ ViewOf(s, t)
      /\ t.committed = s.committed /\ t.votes = s.votes /\ t.voted = s.voted
      /\ t.highBlock = s.highBlock /\ t.forest = s.forest /\ t.proposeChan = C
  BY <1>1 DEF ReplicaState, Rest, ViewOf
<1> QED BY <1>2, <1>3 DEF t

\* CommitBlock, for the block it commits.
LEMMA CommitFields ==
  ASSUME NEW s \in ReplicaState, NEW id
  PROVE  LET t == CommitBlock(s, id)
         IN  /\ Rest(s, t) /\ ViewOf(s, t)
             /\ t.voted = s.voted /\ t.highBlock = s.highBlock /\ t.proposeChan = s.proposeChan
             /\ t.forest = PruneUpToLevel(s.forest, block[id].seq)
             /\ t.committed = s.committed \cup CommittedBlocks(s.forest, block, id)
             /\ t.votes = {x \in s.votes : x[2] \notin CommittedBlocks(s.forest, block, id)}
<1> DEFINE done == CommittedBlocks(s.forest, block, id)
           F == PruneUpToLevel(s.forest, block[id].seq)
           C == s.committed \cup done
           K == s.forked \cup ForkedBlocks(s.forest, block, block[id].seq)
           V == {x \in s.votes : x[2] \notin done}
           t == CommitBlock(s, id)
<1>1. t = [s EXCEPT !.forest = F, !.committed = C, !.forked = K, !.votes = V]
  BY DEF CommitBlock
<1> HIDE DEF t, F, C, K, V, done
<1>2. /\ Rest(s, t) /\ ViewOf(s, t)
      /\ t.voted = s.voted /\ t.highBlock = s.highBlock /\ t.proposeChan = s.proposeChan
      /\ t.forest = F /\ t.committed = C /\ t.votes = V
  BY <1>1 DEF ReplicaState, Rest, ViewOf
<1> QED BY <1>2 DEF t, F, C, V, done

LEMMA VoteFields ==
  ASSUME NEW s \in ReplicaState, NEW b
  PROVE  LET t == castVote(s, b)
         IN  /\ Rest(s, t) /\ ViewOf(s, t)
             /\ t.forest = s.forest /\ t.highBlock = s.highBlock /\ t.proposeChan = s.proposeChan
             /\ t.committed = s.committed /\ t.votes = s.votes
             /\ t.voted = s.voted \cup {b.view}
             /\ t.recursive = IF b.view + 1 \in s.bufferedBlocks THEN b.view + 1 ELSE 0
<1> DEFINE V == s.voted \cup {b.view}
           x == IF b.view + 1 \in s.bufferedBlocks THEN b.view + 1 ELSE 0
           t == castVote(s, b)
<1>1. t = [s EXCEPT !.voted = V, !.recursive = x]
  BY DEF castVote
<1> HIDE DEF t, V, x
<1>2. /\ Rest(s, t) /\ ViewOf(s, t)
      /\ t.forest = s.forest /\ t.highBlock = s.highBlock /\ t.proposeChan = s.proposeChan
      /\ t.committed = s.committed /\ t.votes = s.votes
      /\ t.voted = V /\ t.recursive = x
  BY <1>1 DEF ReplicaState, Rest, ViewOf
<1> QED BY <1>2 DEF t, V, x

\* The voting rule is met, and no certificate waited for the block.
LEMMA FinishInStep ==
  ASSUME PipeBlocks, NEW r, NEW s \in ReplicaState, NEW k \in Nat, k + 1 \in Proposed,
         s.preferredSeq = (IF k >= 4 THEN k - 2 ELSE 0),
         ForestAt(s.forest, k + 1, k + 1), \A qc \in s.bufferedQCs : qc.block <= k
  PROVE  finishBlock(r, s, block[k + 1]) = castVote(s, block[k + 1])
<1> DEFINE b == block[k + 1]
<1>1. b.view = k + 1 /\ b.seq = k + 2 /\ b.qc.block = (IF k <= 1 THEN 0 ELSE k - 1)
  BY NextBlock
<1>2. processBufferedQC(r, s, b) = s
  <2>1. \A qc \in s.bufferedQCs : qc.block \in Nat
    BY MaxViewNat DEF ReplicaState, QC, Id
  <2>2. ~ \E qc \in s.bufferedQCs : qc.block = b.view
    BY <1>1, <2>1
  <2> QED BY <2>2 DEF processBufferedQC
<1>3. votingRule(s, b)
  <2>1. CASE k < 4
    BY <1>1, <2>1 DEF votingRule
  <2>2. CASE k >= 4
    <3>1. k \in Proposed
      BY <2>2 DEF PipeBlocks
    <3>2. block[k - 1].seq = k
      BY <2>2, <3>1, PipeChain
    <3>3. k - 1 \in 1..(k + 1) /\ (k - 1) + 1 >= s.forest.lowest
      BY <2>2 DEF ForestAt
    <3>4. GetVertex(s.forest, k - 1)
      BY <3>3, StoredIs, ForestOfType
    <3>5. b.qc.block = k - 1
      BY <1>1, <2>2
    <3> HIDE DEF b
    <3> QED BY <1>1, <2>2, <3>2, <3>4, <3>5 DEF votingRule, GetBlockByID, lastVotedSeq
  <2> QED BY <2>1, <2>2
<1> QED BY <1>2, <1>3 DEF finishBlock

\* The votes a handler of the next block leaves: a commit drops those it needed.
VotesLeft(votes, k) == IF k >= 6 THEN {x \in votes : x[2] # k - 5} ELSE votes

\* What the handler of the next block leaves.
Accepted(s, t, k) ==
  /\ Rest(s, t) /\ ViewOf(s, t)
  /\ t.highBlock = k + 1 /\ t.voted = s.voted \cup {k + 1}
  /\ ForestAt(t.forest, k + 1, k + 1)
  /\ t.committed = IF k >= 6 THEN s.committed \cup {k - 5} ELSE s.committed
  /\ t.votes = VotesLeft(s.votes, k)
  /\ t.recursive = IF k + 2 \in s.bufferedBlocks THEN k + 2 ELSE 0

\* From the commit rule on.
LEMMA CommitAndVoteInStep ==
  ASSUME GoodBlocks, PipeBlocks, NEW r, NEW s, GoodReplica(r, s), NEW k \in Nat, k + 1 \in Proposed,
         s.preferredSeq = (IF k >= 4 THEN k - 2 ELSE 0), s.highBlock = k + 1,
         ForestAt(s.forest, k + 1, k), \A qc \in s.bufferedQCs : qc.block <= k
  PROVE  LET t == commitAndVote(r, s, block[k + 1])
         IN  Accepted(s, t, k) /\ t.proposeChan = s.proposeChan
<1> DEFINE b == block[k + 1]
           target == CommitTarget(b.qc)
           c == IF k >= 6 THEN CommitBlock(s, k - 5) ELSE s
<1>0. s \in ReplicaState /\ s.forest \in ForestType
  BY ForestOfType DEF GoodReplica, Sound
<1>1. /\ b.view = k + 1 /\ b.seq = k + 2 /\ b.qc.seq = k /\ b.qc.block = (IF k <= 1 THEN 0 ELSE k - 1)
      /\ Received(b) /\ b.qc \in QC /\ ValidQC(b.qc)
  <2>1. b.view = k + 1 /\ b.seq = k + 2 /\ b.qc.seq = k /\ b.qc.block = (IF k <= 1 THEN 0 ELSE k - 1)
        /\ Received(b)
    BY NextBlock
  <2> HIDE DEF b
  <2> QED BY <2>1, ReceivedBlock
<1>2. CASE k < 6
  <2>1. commitAndVote(r, s, b) = finishBlock(r, s, b)
    BY <1>1, <1>2 DEF commitAndVote
  <2>2. ForestAt(s.forest, k + 1, k + 1)
    BY <1>2 DEF ForestAt
  <2>3. finishBlock(r, s, b) = castVote(s, b)
    BY <1>0, <2>2, FinishInStep
  <2> DEFINE t == castVote(s, b)
  <2>4. /\ Rest(s, t) /\ ViewOf(s, t)
        /\ t.forest = s.forest /\ t.highBlock = s.highBlock /\ t.proposeChan = s.proposeChan
        /\ t.committed = s.committed /\ t.votes = s.votes
        /\ t.voted = s.voted \cup {b.view}
        /\ t.recursive = IF b.view + 1 \in s.bufferedBlocks THEN b.view + 1 ELSE 0
    BY <1>0, VoteFields
  <2> HIDE DEF t, b
  <2>5. b.view + 1 = k + 2
    BY <1>1
  <2>6. Accepted(s, t, k) /\ t.proposeChan = s.proposeChan
    BY <1>1, <1>2, <2>2, <2>4, <2>5 DEF Accepted, VotesLeft
  <2> QED BY <2>1, <2>3, <2>6 DEF t, b
<1>3. CASE k >= 6
  <2>1. k \in Proposed
    BY <1>3 DEF PipeBlocks
  <2>2. b.qc.block = k - 1 /\ block[k - 1].qc.block = k - 3 /\ target = k - 5
        /\ block[k - 5].seq = k - 4
    BY <1>1, <1>3, <2>1, PipeChain DEF CommitTarget
  <2>3. commitRule(s, b.qc)
    <3>1. \A u \in {k - 1, k - 3, k - 5} : u \in 1..(k + 1) /\ u + 1 >= s.forest.lowest
      BY <1>3 DEF ForestAt
    <3>2. \A u \in {k - 1, k - 3, k - 5} : GetVertex(s.forest, u)
      BY <1>0, <3>1, StoredIs
    <3> QED BY <2>2, <3>2 DEF commitRule, GetBlockByID
  <2>4. /\ CommitOutcome(s.forest, block, k - 5) = "ok"
        /\ CommittedBlocks(s.forest, block, k - 5) = {k - 5}
        /\ ForestAt(PruneUpToLevel(s.forest, k - 4), k + 1, k + 1)
    <3> DEFINE n == k + 1
    <3>1. n \in Nat /\ n >= 7 /\ n - 1 = k /\ n - 6 = k - 5 /\ n - 5 = k - 4 /\ n = k + 1
      BY <1>3
    <3> HIDE DEF n
    <3>2. n \in Proposed /\ ForestAt(s.forest, n, n - 1)
      BY <3>1
    <3>3. /\ CommitOutcome(s.forest, block, n - 6) = "ok"
          /\ CommittedBlocks(s.forest, block, n - 6) = {n - 6}
          /\ ForestAt(PruneUpToLevel(s.forest, n - 5), n, n)
      BY <1>0, <3>1, <3>2, CommitInStep
    <3> QED BY <3>1, <3>3
  <2> DEFINE u == CommitBlock(s, k - 5)
             t == castVote(u, b)
  <2>5. commitAndVote(r, s, b) = finishBlock(r, u, b)
    BY <1>1, <1>3, <2>2, <2>3, <2>4 DEF commitAndVote
  <2>6. u \in ReplicaState
    <3>1. target \in Proposed /\ ThreeChain(block[target].seq)
      BY <1>1, <2>3, CommitTargetGood
    <3> HIDE DEF target
    <3>2. GoodReplica(r, CommitBlock(s, target))
      BY <3>1, CommitBlockGood
    <3> QED BY <2>2, <3>2 DEF GoodReplica, Sound
  <2>7. /\ Rest(s, u) /\ ViewOf(s, u)
        /\ u.voted = s.voted /\ u.highBlock = s.highBlock /\ u.proposeChan = s.proposeChan
        /\ ForestAt(u.forest, k + 1, k + 1)
        /\ u.committed = s.committed \cup {k - 5}
        /\ u.votes = {x \in s.votes : x[2] # k - 5}
    <3>1. {x \in s.votes : x[2] \notin {k - 5}} = {x \in s.votes : x[2] # k - 5}
      OBVIOUS
    <3> QED BY <1>0, <2>2, <2>4, <3>1, CommitFields
  <2> HIDE DEF u
  <2>8. u.preferredSeq = (IF k >= 4 THEN k - 2 ELSE 0) /\ \A qc \in u.bufferedQCs : qc.block <= k
    BY <2>7 DEF Rest, ViewOf
  <2>9. finishBlock(r, u, b) = t
    BY <2>6, <2>7, <2>8, FinishInStep
  <2>10. /\ Rest(u, t) /\ ViewOf(u, t)
        /\ t.forest = u.forest /\ t.highBlock = u.highBlock /\ t.proposeChan = u.proposeChan
        /\ t.committed = u.committed /\ t.votes = u.votes
        /\ t.voted = u.voted \cup {b.view}
        /\ t.recursive = IF b.view + 1 \in u.bufferedBlocks THEN b.view + 1 ELSE 0
    BY <2>6, VoteFields
  <2> HIDE DEF t, b
  <2>11. b.view + 1 = k + 2
    BY <1>1
  <2>12. Rest(s, t) /\ ViewOf(s, t)
    BY <2>7, <2>10 DEF Rest, ViewOf
  <2>13. u.bufferedBlocks = s.bufferedBlocks
    BY <2>7 DEF Rest
  <2>14. Accepted(s, t, k) /\ t.proposeChan = s.proposeChan
    BY <1>1, <1>3, <2>7, <2>10, <2>11, <2>12, <2>13 DEF Accepted, VotesLeft
  <2> QED BY <2>5, <2>9, <2>14 DEF t, b
<1> QED BY <1>2, <1>3

\* ProcessBlock as a whole, for the next block.
LEMMA ProcessInStep ==
  ASSUME FaultFree, GoodBlocks, PipeBlocks, NEW r, NEW s, GoodReplica(r, s), NEW k \in Nat,
         k + 1 \in Proposed, Progress(r, s, k, k)
  PROVE  LET t == processBlock(r, s, block[k + 1])
         IN  /\ Progress(r, t, k + 1, k + 1)
             /\ t.received = s.received /\ t.bufferedBlocks = s.bufferedBlocks
             /\ t.dual = s.dual /\ t.waiting = s.waiting
             /\ t.votes = VotesLeft(s.votes, k)
             /\ t.recursive = IF k + 2 \in s.bufferedBlocks THEN k + 2 ELSE 0
             /\ t.curView = k + 1
             /\ Leader(k + 1) = r => s.curView = k + 1
<1> DEFINE b == block[k + 1]
           own == Leader(k + 1) = r
           c == IF own THEN s ELSE processCertificate(r, s, b.qc)
           a == addBlock(c, b)
           m == IF Leader(k + 2) = r THEN sendSignal(a, Continue, 0) ELSE a
           t == commitAndVote(r, m, b)
<1>0. s \in ReplicaState /\ s.curView \in Nat
  BY DEF GoodReplica, Sound, ReplicaState
<1>1. /\ b.view = k + 1 /\ b.tc = NoTC /\ b.qc = Entry(k + 1) /\ k \in Proposed \cup {0}
      /\ Received(b)
  BY NextBlock
<1>2. own => s.curView = k + 1 /\ s.newViews = <<>> /\ s.proposeChan = <<>>
  <2> SUFFICES ASSUME own PROVE s.curView = k + 1 /\ s.newViews = <<>> /\ s.proposeChan = <<>>
    OBVIOUS
  <2>1. GoodQueue(r, s.curView, s.held, s.newViews)
    BY DEF GoodReplica, Sound
  <2>2. k + 1 <= s.curView
    BY <2>1 DEF GoodQueue
  <2>3. s.curView = k + 1
    BY <2>2 DEF Progress
  <2>4. s.proposeChan = <<>>
    BY <2>3 DEF Progress, Signalled
  <2>5. s.newViews = <<>>
    <3>1. SUFFICES ASSUME s.newViews = <<[view |-> s.curView, seq |-> s.curView + 1, pt |-> NoTimeout]>>
                   PROVE  FALSE
      BY DEF Progress, Announced
    <3>2. Len(s.newViews) = 1 /\ s.newViews[1].view = s.curView
      BY <3>1
    <3>3. 1 \in 1..Len(s.newViews)
      BY <3>2
    <3>4. k + 1 < s.newViews[1].view
      BY <2>1, <3>3 DEF GoodQueue
    <3> QED BY <2>3, <3>2, <3>4
  <2> QED BY <2>3, <2>4, <2>5
<1>3. ~ own => s.curView = k /\ s.newViews = <<>> /\ s.proposeChan = <<>>
  BY DEF Progress, Announced, Signalled
<1>4. /\ GoodReplica(r, c) /\ c \in ReplicaState /\ c.curView = k + 1
      /\ AtView(c.highQC, c.preferredSeq, k + 1) /\ Rest(s, c) /\ BlockOf(s, c)
      /\ c.newViews = <<>> /\ c.proposeChan = <<>>
  <2>1. CASE own
    <3>1. c = s
      BY <2>1
    <3>2. AtView(s.highQC, s.preferredSeq, k + 1)
      BY <1>2, <2>1 DEF Progress
    <3> HIDE DEF c
    <3> QED BY <1>0, <1>2, <2>1, <3>1, <3>2 DEF Rest, BlockOf
  <2>2. CASE ~ own
    <3> DEFINE e == processCertificate(r, s, Entry(k + 1))
    <3>1. c = e
      BY <1>1, <2>2
    <3>2. GoodReplica(r, e)
      <4>1. b.qc \in QC /\ ValidQC(b.qc)
        BY <1>1, ReceivedBlock
      <4> QED BY <1>1, <4>1, CertificateGood
    <3>3. e \in ReplicaState
      BY <3>2 DEF GoodReplica, Sound
    <3>4. /\ s.curView = k /\ AtView(s.highQC, s.preferredSeq, k)
          /\ ForestAt(s.forest, k, k)
      BY <1>3, <2>2 DEF Progress
    <3>5. /\ e.curView = k + 1 /\ AtView(e.highQC, e.preferredSeq, k + 1)
          /\ Rest(s, e) /\ BlockOf(s, e)
          /\ Leader(k + 1) # r => e.newViews = s.newViews
      BY <1>0, <1>1, <3>4, CertificateInStep
    <3> HIDE DEF e, c
    <3>6. c.newViews = <<>> /\ c.proposeChan = <<>>
      BY <1>3, <2>2, <3>1, <3>5 DEF BlockOf
    <3> QED BY <3>1, <3>2, <3>3, <3>5, <3>6
  <2> QED BY <2>1, <2>2
<1>5. processBlock(r, s, b) = acceptBlock(r, c, b)
  <2>1. ~ (b.view > s.curView + 1)
    BY <1>0, <1>1 DEF Progress
  <2>2. ~ (b.view < c.curView)
    BY <1>1, <1>4
  <2> QED BY <1>1, <2>1, <2>2 DEF processBlock
<1> HIDE DEF c
<1>6. /\ Rest(c, a) /\ ViewOf(c, a)
      /\ a.committed = c.committed /\ a.votes = c.votes /\ a.voted = c.voted
      /\ a.proposeChan = <<>> /\ a.highBlock = k + 1
      /\ ForestAt(a.forest, k + 1, k)
      /\ mustSignal(r, a, b) <=> Leader(k + 2) = r
      /\ hasRoom(a) /\ GoodReplica(r, a) /\ a \in ReplicaState
  <2>1. c.highBlock = k /\ ForestAt(c.forest, k, k)
    BY <1>4 DEF Progress, BlockOf
  <2>2. GoodReplica(r, a)
    BY <1>1, <1>4, addBlockGood
  <2>3. a \in ReplicaState
    BY <2>2 DEF GoodReplica, Sound
  <2> QED BY <1>4, <2>1, <2>2, <2>3, AddedInStep
<1>7. acceptBlock(r, c, b) = t
  <2>1. Leader(k + 2) # r => secondProposal(r, a, b) = a
    <3>1. a.curView = k + 1
      BY <1>4, <1>6 DEF ViewOf
    <3>2. a.curView + 1 = k + 2
      BY <3>1
    <3> QED BY <3>2 DEF secondProposal
  <2> HIDE DEF b
  <2> QED BY <1>6, <2>1 DEF acceptBlock
<1> HIDE DEF a
<1>8. /\ Rest(c, m) /\ ViewOf(c, m)
      /\ m.committed = c.committed /\ m.votes = c.votes /\ m.voted = c.voted
      /\ m.highBlock = k + 1 /\ ForestAt(m.forest, k + 1, k)
      /\ m.proposeChan = (IF Leader(k + 2) = r THEN <<[ope |-> Continue, view |-> 0]>> ELSE <<>>)
      /\ GoodReplica(r, m)
  <2>1. CASE Leader(k + 2) = r
    <3> DEFINE e == sendSignal(a, Continue, 0)
    <3>1. m = e
      BY <2>1
    <3>2. GoodReplica(r, e)
      <4>1. Continue \in {Continue, Drop} /\ 0 \in Nat
        OBVIOUS
      <4> QED BY <1>6, <4>1, sendSignalGood
    <3>3. /\ Rest(a, e) /\ ViewOf(a, e)
          /\ e.committed = a.committed /\ e.votes = a.votes /\ e.voted = a.voted
          /\ e.highBlock = a.highBlock /\ e.forest = a.forest
          /\ e.proposeChan = <<[ope |-> Continue, view |-> 0]>>
      BY <1>6, SignalInStep
    <3> HIDE DEF e, m
    <3> QED BY <1>6, <2>1, <3>1, <3>2, <3>3 DEF Rest, ViewOf
  <2>2. CASE Leader(k + 2) # r
    <3>1. m = a
      BY <2>2
    <3> HIDE DEF m
    <3> QED BY <1>6, <2>2, <3>1
  <2> QED BY <2>1, <2>2
<1> HIDE DEF m
<1>9. Accepted(m, t, k) /\ t.proposeChan = m.proposeChan
  <2>1. m.preferredSeq = (IF k >= 4 THEN k - 2 ELSE 0)
    BY <1>4, <1>8 DEF AtView, ViewOf
  <2>2. \A qc \in m.bufferedQCs : qc.block <= k
    BY <1>4, <1>8 DEF Rest, Progress
  <2> QED BY <1>8, <2>1, <2>2, CommitAndVoteInStep
<1>10. processBlock(r, s, b) = t
  BY <1>5, <1>7
<1> HIDE DEF t
<1>11. Rest(s, t) /\ ViewOf(c, t)
  BY <1>4, <1>8, <1>9 DEF Accepted, Rest, ViewOf
<1>12. /\ t.received = s.received /\ t.bufferedBlocks = s.bufferedBlocks
       /\ t.dual = s.dual /\ t.waiting = s.waiting
       /\ t.curView = k + 1
  BY <1>4, <1>11 DEF Rest, ViewOf
<1>13. t.votes = VotesLeft(s.votes, k)
  <2>1. m.votes = s.votes
    BY <1>4, <1>8 DEF BlockOf
  <2> QED BY <1>9, <2>1 DEF Accepted
<1>14. t.recursive = IF k + 2 \in s.bufferedBlocks THEN k + 2 ELSE 0
  <2>1. m.bufferedBlocks = s.bufferedBlocks
    BY <1>4, <1>8 DEF Rest
  <2> QED BY <1>9, <2>1 DEF Accepted
<1>15. Progress(r, t, k + 1, k + 1)
  <2>1. t.highBlock = k + 1 /\ ForestAt(t.forest, k + 1, k + 1)
    BY <1>9 DEF Accepted
  <2>2. AtView(t.highQC, t.preferredSeq, t.curView) /\ t.newViews = <<>>
    BY <1>4, <1>11, <1>12 DEF ViewOf
  <2>3. Signalled(r, t.proposeChan, t.curView, k + 1)
    <3>1. k + 1 >= 1 /\ (k + 1) + 1 = k + 2
      OBVIOUS
    <3> QED BY <1>8, <1>9, <1>12, <3>1 DEF Signalled
  <2>4. t.voted = 1..(k + 1)
    <3>1. m.voted = 1..k
      BY <1>4, <1>8 DEF BlockOf, Progress
    <3>2. (1..k) \cup {k + 1} = 1..(k + 1)
      OBVIOUS
    <3> QED BY <1>9, <3>1, <3>2 DEF Accepted
  <2>5. t.committed = 1..((k + 1) - 6)
    <3>1. m.committed = 1..(k - 6)
      BY <1>4, <1>8 DEF BlockOf, Progress
    <3>2. k >= 6 => (1..(k - 6)) \cup {k - 5} = 1..((k + 1) - 6)
      OBVIOUS
    <3>3. k < 6 => 1..(k - 6) = 1..((k + 1) - 6)
      OBVIOUS
    <3>4. t.committed = IF k >= 6 THEN m.committed \cup {k - 5} ELSE m.committed
      BY <1>9 DEF Accepted
    <3>5. k >= 6 \/ k < 6
      OBVIOUS
    <3> QED BY <3>1, <3>2, <3>3, <3>4, <3>5
  <2>6. \A qc \in t.bufferedQCs : qc.block <= k + 1
    <3>0. s.bufferedQCs \subseteq QC
      BY <1>0 DEF ReplicaState
    <3>1. \A qc \in s.bufferedQCs : qc.block \in Nat /\ qc.block <= k
      BY <3>0, MaxViewNat DEF Progress, QC, Id
    <3>2. \A qc \in s.bufferedQCs : qc.block <= k + 1
      BY <3>1
    <3> QED BY <1>11, <3>2 DEF Rest
  <2>7. t.blocked = 0 /\ t.held = NoBlock /\ t.crashed = FALSE
    BY <1>11 DEF Rest, Progress
  <2> QED BY <1>12, <2>1, <2>2, <2>3, <2>4, <2>5, <2>6, <2>7 DEF Progress, Announced
<1> QED BY <1>2, <1>10, <1>12, <1>13, <1>14, <1>15

-----------------------------------------------------------------------------
(* The votes *)

Voters(votes, v) == {q \in Node : <<q, v>> \in votes}

\* The collector r in view curView takes the votes of a replica in the order
\* they were cast, has each that still matters before it or behind it, and has
\* made a QC of each quorum that still matters; all is the state of the voters.
Collected(r, curView, votes, dual, waiting, all) ==
  /\ \A x \in dual : IF x[2] = 0 THEN x = <<r, 0, 0>> /\ curView >= 1 /\ waiting = NoQC
                     ELSE x[3] = x[2]
  /\ \A x \in votes : \A y \in dual : y[1] = x[1] => y[2] > x[2]
  /\ \A q \in Node : \A v \in all[q].voted : Leader(v + 2) = r /\ v + 2 > curView =>
        <<q, v, v>> \in dual \/ <<q, v>> \in votes
  /\ \A v \in View : v + 2 > curView /\ superMajority(Voters(votes, v)) =>
        waiting # NoQC /\ waiting.block = v
  /\ waiting # NoQC =>
       /\ waiting = Entry(waiting.block + 2)
       /\ IF waiting.block = 0 THEN curView >= 1
          ELSE waiting.block + 2 > curView => superMajority(Voters(votes, waiting.block))
  /\ curView = 1 /\ Leader(1) = r => \/ <<r, 0, 0>> \in dual
                                     \/ waiting # NoQC /\ waiting.block = 0

\* Replica r with record s is in step with the others.
InStep(r, s, all) ==
  /\ Progress(r, s, s.highBlock, s.highBlock)
  /\ Buffer(s, s.highBlock)
  /\ Collected(r, s.curView, s.votes, s.dual, s.waiting, all)

InSteps == \A r \in Node : \A s \in ReplicaState : s = st[r] => InStep(r, s, st)

PipeInv == IInv /\ tmos = {} /\ PipeBlocks /\ InSteps

\* Later views ask for less, and not for the votes for committed blocks.
LEMMA CollectedLater ==
  ASSUME NEW r, NEW c \in Nat, NEW d \in Nat, c <= d, NEW dual, NEW waiting \in QC \cup {NoQC},
         NEW votes, NEW all \in [Node -> ReplicaState],
         Collected(r, c, votes, dual, waiting, all),
         d = 1 /\ Leader(1) = r => c = 1,
         NEW W, W \subseteq votes, \A x \in votes \ W : ~ (x[2] + 2 > d)
  PROVE  Collected(r, d, W, dual, waiting, all)
<1>1. \A v \in Int : v + 2 > d => Voters(W, v) = Voters(votes, v) /\ v + 2 > c
  <2> SUFFICES ASSUME NEW v \in Int, v + 2 > d
               PROVE  Voters(W, v) = Voters(votes, v) /\ v + 2 > c
    OBVIOUS
  <2>1. \A q : <<q, v>> \in votes => <<q, v>> \in W
    <3>1. \A q : <<q, v>>[2] = v
      OBVIOUS
    <3> QED BY <3>1
  <2> QED BY <2>1 DEF Voters
<1>2. waiting # NoQC => waiting.block \in Nat
  BY MaxViewNat DEF QC, Id
<1>3. \A q \in Node : \A v \in all[q].voted : v \in Int
  BY MaxViewNat DEF ReplicaState, View
<1>4. \A v \in View : v \in Int
  BY MaxViewNat DEF View
<1>5. \A q : \A v \in Int : v + 2 > d /\ <<q, v>> \in votes => <<q, v>> \in W
  <2>1. \A q, v : <<q, v>>[2] = v
    OBVIOUS
  <2> QED BY <2>1
<1>6. \A x \in dual : IF x[2] = 0 THEN x = <<r, 0, 0>> /\ d >= 1 /\ waiting = NoQC
                      ELSE x[3] = x[2]
  BY DEF Collected
<1>7. \A x \in W : \A y \in dual : y[1] = x[1] => y[2] > x[2]
  BY DEF Collected
<1>8. \A q \in Node : \A v \in all[q].voted : Leader(v + 2) = r /\ v + 2 > d =>
        <<q, v, v>> \in dual \/ <<q, v>> \in W
  BY <1>1, <1>3, <1>5 DEF Collected
<1>9. \A v \in View : v + 2 > d /\ superMajority(Voters(W, v)) =>
        waiting # NoQC /\ waiting.block = v
  BY <1>1, <1>4 DEF Collected
<1>10. waiting # NoQC =>
         /\ waiting = Entry(waiting.block + 2)
         /\ IF waiting.block = 0 THEN d >= 1
            ELSE waiting.block + 2 > d => superMajority(Voters(W, waiting.block))
  BY <1>1, <1>2 DEF Collected
<1>11. d = 1 /\ Leader(1) = r => \/ <<r, 0, 0>> \in dual
                                 \/ waiting # NoQC /\ waiting.block = 0
  BY DEF Collected
<1> QED BY <1>6, <1>7, <1>8, <1>9, <1>10, <1>11 DEF Collected

\* A replica votes for the next block, for the collector q or for another.
LEMMA CollectedVote ==
  ASSUME NEW q, NEW c \in Nat, NEW votes, NEW dual, NEW waiting, NEW all, NEW new,
         Collected(q, c, votes, dual, waiting, all),
         NEW r \in Node, NEW n \in Nat \ {0},
         \A p \in Node : p # r => new[p].voted = all[p].voted,
         new[r].voted = all[r].voted \cup {n},
         \A x \in votes : x[1] = r => x[2] < n
  PROVE  Collected(q, c, votes, dual \cup {<<r, n, n>>}, waiting, new)
<1> DEFINE vote == <<r, n, n>>
           D == dual \cup {vote}
<1>1. vote[1] = r /\ vote[2] = n /\ vote[3] = n /\ vote[2] # 0
  OBVIOUS
<1>2. Collected(q, c, votes, D, waiting, new)
  <2>1. \A x \in D : x \in dual \/ x = vote
    OBVIOUS
  <2>2. \A p \in Node : \A v \in new[p].voted : v \in all[p].voted \/ <<p, v, v>> = vote
    OBVIOUS
  <2>3. vote \in D /\ dual \subseteq D
    OBVIOUS
  <2>4. \A x \in votes : x[1] = r => vote[2] > x[2]
    BY <1>1
  <2> HIDE DEF vote, D
  <2>5. \A x \in D : IF x[2] = 0 THEN x = <<q, 0, 0>> /\ c >= 1 /\ waiting = NoQC ELSE x[3] = x[2]
    BY <1>1, <2>1 DEF Collected
  <2>6. \A x \in votes : \A y \in D : y[1] = x[1] => y[2] > x[2]
    BY <1>1, <2>1, <2>4 DEF Collected
  <2>7. \A p \in Node : \A v \in new[p].voted : Leader(v + 2) = q /\ v + 2 > c =>
          <<p, v, v>> \in D \/ <<p, v>> \in votes
    BY <2>2, <2>3 DEF Collected
  <2>8. c = 1 /\ Leader(1) = q => \/ <<q, 0, 0>> \in D
                                  \/ waiting # NoQC /\ waiting.block = 0
    BY <2>3 DEF Collected
  <2> QED BY <2>5, <2>6, <2>7, <2>8 DEF Collected
<1> QED BY <1>2

\* The collectors it does not vote for, or not in time, miss nothing.
LEMMA CollectedNoVote ==
  ASSUME NEW q, NEW c \in Nat, NEW votes, NEW dual, NEW waiting, NEW all, NEW new,
         Collected(q, c, votes, dual, waiting, all),
         NEW r \in Node, NEW n \in Nat \ {0},
         \A p \in Node : p # r => new[p].voted = all[p].voted,
         new[r].voted = all[r].voted \cup {n},
         Leader(n + 2) # q \/ ~ (n + 2 > c)
  PROVE  Collected(q, c, votes, dual, waiting, new)
<1>1. \A p \in Node : \A v \in new[p].voted : v \in all[p].voted \/ v = n
  OBVIOUS
<1>2. \A p \in Node : \A v \in new[p].voted : Leader(v + 2) = q /\ v + 2 > c =>
        <<p, v, v>> \in dual \/ <<p, v>> \in votes
  BY <1>1 DEF Collected
<1> QED BY <1>2 DEF Collected

\* Only the votes cast matter.
LEMMA CollectedSame ==
  ASSUME NEW q, NEW c, NEW votes, NEW dual, NEW waiting, NEW all, NEW new,
         Collected(q, c, votes, dual, waiting, all),
         \A p \in Node : new[p].voted = all[p].voted
  PROVE  Collected(q, c, votes, dual, waiting, new)
BY DEF Collected

-----------------------------------------------------------------------------
(* The shape of a step *)

LEMMA StartsInStep ==
  ASSUME PipeInv, NEW r \in Node
  PROVE  /\ st \in [Node -> ReplicaState] /\ st[r] \in ReplicaState
         /\ GoodReplica(r, st[r]) /\ GoodBlocks /\ InStep(r, st[r], st)
<1>1. IInv /\ st[r] \in ReplicaState
  BY DEF PipeInv, IInv
<1> QED BY <1>1, StartsGood DEF PipeInv, InSteps, IInv

\* A step of a replica that votes for nothing.
LEMMA QuietStep ==
  ASSUME PipeInv, IInv', NEW r \in Node, NEW t, st' = [st EXCEPT ![r] = t],
         InStep(r, t, st), t.voted = st[r].voted, PipeBlocks', tmos' = {}
  PROVE  PipeInv'
<1> DEFINE new == [st EXCEPT ![r] = t]
<1>1. st \in [Node -> ReplicaState]
  BY StartsInStep
<1>2. \A p \in Node : new[p].voted = st[p].voted
  BY <1>1
<1>3. \A q \in Node : q # r => new[q] = st[q]
  BY <1>1
<1>4. new[r] = t /\ st' = new
  BY <1>1
<1> HIDE DEF new
<1>5. ASSUME NEW q \in Node, NEW s \in ReplicaState, s = new[q]
      PROVE  InStep(q, s, new)
  <2>1. InStep(q, s, st)
    BY <1>3, <1>4, <1>5, StartsInStep
  <2>2. Collected(q, s.curView, s.votes, s.dual, s.waiting, new)
    BY <1>2, <2>1, CollectedSame DEF InStep
  <2> QED BY <2>1, <2>2 DEF InStep
<1>6. InSteps'
  BY <1>4, <1>5 DEF InSteps
<1> QED BY <1>6 DEF PipeInv

\* Delivering a vote changes dual alone.
LEMMA DualFields ==
  ASSUME NEW s \in ReplicaState, NEW D, NEW r, NEW k, NEW d, Progress(r, s, k, d), Buffer(s, k)
  PROVE  LET t == [s EXCEPT !.dual = D]
         IN  /\ Progress(r, t, k, d) /\ Buffer(t, k)
             /\ t.dual = D /\ t.curView = s.curView /\ t.votes = s.votes
             /\ t.waiting = s.waiting /\ t.voted = s.voted /\ t.highBlock = s.highBlock
<1> DEFINE t == [s EXCEPT !.dual = D]
<1>1. /\ t.curView = s.curView /\ t.newViews = s.newViews /\ t.highQC = s.highQC
      /\ t.highBlock = s.highBlock /\ t.preferredSeq = s.preferredSeq /\ t.forest = s.forest
      /\ t.bufferedBlocks = s.bufferedBlocks /\ t.bufferedQCs = s.bufferedQCs
      /\ t.recursive = s.recursive /\ t.blocked = s.blocked /\ t.votes = s.votes /\ t.dual = D
      /\ t.waiting = s.waiting /\ t.proposeChan = s.proposeChan /\ t.held = s.held
      /\ t.received = s.received /\ t.voted = s.voted /\ t.committed = s.committed
      /\ t.crashed = s.crashed
  BY DEF ReplicaState
<1> HIDE DEF t
<1>2. Progress(r, t, k, d) /\ Buffer(t, k)
  BY <1>1 DEF Progress, Buffer
<1> QED BY <1>1, <1>2 DEF t

\* A step of a replica that votes for the next block.
LEMMA VotingStep ==
  ASSUME PipeInv, IInv', NEW r \in Node, NEW t, GoodReplica(r, t), NEW k \in Nat, k + 1 \in Proposed,
         st' = HandleVote([st EXCEPT ![r] = t], r, k + 1), block' = block, tmos' = tmos,
         Progress(r, t, k + 1, k + 1), Buffer(t, k + 1), st[r].voted = 1..k,
         Collected(r, t.curView, t.votes, t.dual, t.waiting, st)
  PROVE  PipeInv'
<1> DEFINE n == k + 1
           a == Leader(n + 2)
           U == [st EXCEPT ![r] = t]
           vote == <<r, n, n>>
           W == [U EXCEPT ![a].dual = @ \cup {vote}]
           sent == a = r \/ block[n].seq >= U[a].curView
<1>1. st \in [Node -> ReplicaState] /\ t \in ReplicaState
  BY StartsInStep DEF GoodReplica, Sound
<1>2. n \in Nat \ {0} /\ n \in Nat /\ t.voted = 1..n /\ st[r].voted \cup {n} = 1..n /\ n \in 1..n
  BY DEF Progress
<1>3. U \in [Node -> ReplicaState] /\ U[r] = t /\ \A q \in Node : q # r => U[q] = st[q]
  BY <1>1
<1>4. Cardinality(U[r].voted) = n
  BY <1>2, <1>3, FS_Interval
<1>5. st' = IF sent THEN W ELSE U
  <2> HIDE DEF U, n
  <2>1. st' = HandleVote(U, r, n)
    BY DEF U, n
  <2>2. n \in U[r].voted
    BY <1>2, <1>3
  <2> QED BY <1>4, <2>1, <2>2 DEF HandleVote
<1>6. block[n].seq = n + 1
  <2>1. block[k + 1].seq = k + 2
    BY NextBlock DEF PipeInv
  <2> QED BY <2>1
<1> HIDE DEF U, n, vote
<1>7. \A q \in Node : /\ W[q] = IF q = a THEN [U[q] EXCEPT !.dual = @ \cup {vote}] ELSE U[q]
  BY <1>3
<1>8. ASSUME NEW q \in Node, NEW s \in ReplicaState, s = U[q]
      PROVE  /\ Progress(q, s, s.highBlock, s.highBlock) /\ Buffer(s, s.highBlock)
             /\ Collected(q, s.curView, s.votes, s.dual, s.waiting, st)
             /\ \A x \in s.votes : x[1] = r => x[2] < n
  <2>1. \A x \in s.votes : Cast(x[1], x[2])
    <3>1. GoodReplica(q, s)
      BY <1>3, <1>8, StartsInStep
    <3> QED BY <3>1 DEF GoodReplica, Sound, KnownVotes
  <2>2. \A x \in s.votes : x[1] = r => x[2] < n
    <3>1. \A v \in st[r].voted : v < n
      BY DEF n
    <3> QED BY <2>1, <3>1 DEF Cast
  <2>3. CASE q = r
    <3>1. s = t /\ t.highBlock = n
      BY <1>3, <1>8, <2>3 DEF Progress, n
    <3> QED BY <2>2, <2>3, <3>1 DEF n
  <2>4. CASE q # r
    BY <1>3, <1>8, <2>2, <2>4, StartsInStep DEF InStep
  <2> QED BY <2>3, <2>4
<1>9. /\ \A p \in Node : p # r => U[p].voted = st[p].voted
      /\ U[r].voted = st[r].voted \cup {n}
  BY <1>2, <1>3
<1>10. CASE ~ sent
  <2>1. ASSUME NEW q \in Node, NEW s \in ReplicaState, s = U[q]
        PROVE  InStep(q, s, U)
    <3>1. s.curView \in Nat
      BY DEF ReplicaState
    <3>2. a # q \/ ~ (n + 2 > s.curView)
      BY <1>2, <1>6, <1>10, <2>1, <3>1
    <3>3. Collected(q, s.curView, s.votes, s.dual, s.waiting, st)
      BY <1>8, <2>1
    <3>4. Collected(q, s.curView, s.votes, s.dual, s.waiting, U)
      BY <1>2, <1>9, <3>1, <3>2, <3>3, CollectedNoVote
    <3> QED BY <1>8, <2>1, <3>4 DEF InStep
  <2>2. InSteps'
    BY <1>5, <1>10, <2>1 DEF InSteps
  <2> QED BY <2>2 DEF PipeInv, PipeBlocks, PipeBlock, Proposed
<1>11. CASE sent
  <2>1. \A q \in Node : \A s \in ReplicaState : [s EXCEPT !.dual = @ \cup {vote}].voted = s.voted
    BY DEF ReplicaState
  <2>2. \A q \in Node : W[q].voted = U[q].voted
    BY <1>3, <1>7, <2>1
  <2>3. /\ \A p \in Node : p # r => W[p].voted = st[p].voted
        /\ W[r].voted = st[r].voted \cup {n}
    BY <1>9, <2>2
  <2> HIDE DEF W
  <2>4. ASSUME NEW q \in Node, NEW s \in ReplicaState, s = W[q]
        PROVE  InStep(q, s, W)
    <3>1. PICK u \in ReplicaState : u = U[q]
      BY <1>3
    <3>2. /\ Progress(q, u, u.highBlock, u.highBlock) /\ Buffer(u, u.highBlock)
          /\ Collected(q, u.curView, u.votes, u.dual, u.waiting, st)
          /\ \A x \in u.votes : x[1] = r => x[2] < n
      BY <1>8, <3>1
    <3>3. u.curView \in Nat
      BY DEF ReplicaState
    <3>4. CASE q = a
      <4> DEFINE D == u.dual \cup {vote}
      <4>1. s = [u EXCEPT !.dual = D]
        BY <1>7, <2>4, <3>1, <3>4
      <4>2. Collected(q, u.curView, u.votes, D, u.waiting, W)
        BY <1>2, <2>3, <3>2, <3>3, CollectedVote DEF vote
      <4> HIDE DEF D
      <4>3. /\ Progress(q, s, u.highBlock, u.highBlock) /\ Buffer(s, u.highBlock)
            /\ s.dual = D /\ s.curView = u.curView /\ s.votes = u.votes
            /\ s.waiting = u.waiting /\ s.highBlock = u.highBlock
        BY <3>2, <4>1, DualFields
      <4> QED BY <4>2, <4>3 DEF InStep
    <3>5. CASE q # a
      <4>1. s = u
        BY <1>7, <2>4, <3>1, <3>5
      <4>2. Collected(q, u.curView, u.votes, u.dual, u.waiting, W)
        BY <1>2, <2>3, <3>2, <3>3, <3>5, CollectedNoVote
      <4> QED BY <3>2, <4>1, <4>2 DEF InStep
    <3> QED BY <3>4, <3>5
  <2>5. InSteps'
    BY <1>5, <1>11, <2>4 DEF InSteps
  <2> QED BY <2>5 DEF PipeInv, PipeBlocks, PipeBlock, Proposed
<1> QED BY <1>10, <1>11

-----------------------------------------------------------------------------
(* The actions *)

\* A field that Progress does not read.
LEMMA ReceivedFields ==
  ASSUME NEW s \in ReplicaState, NEW X, NEW r, NEW k, NEW d, Progress(r, s, k, d)
  PROVE  LET t == [s EXCEPT !.received = X]
         IN  /\ Progress(r, t, k, d) /\ t.received = X
             /\ t.bufferedBlocks = s.bufferedBlocks /\ t.recursive = s.recursive
             /\ t.dual = s.dual /\ t.curView = s.curView /\ t.votes = s.votes
             /\ t.waiting = s.waiting
<1> DEFINE t == [s EXCEPT !.received = X]
<1>1. /\ t.curView = s.curView /\ t.newViews = s.newViews /\ t.highQC = s.highQC
      /\ t.highBlock = s.highBlock /\ t.preferredSeq = s.preferredSeq /\ t.forest = s.forest
      /\ t.bufferedBlocks = s.bufferedBlocks /\ t.bufferedQCs = s.bufferedQCs
      /\ t.recursive = s.recursive /\ t.blocked = s.blocked /\ t.votes = s.votes
      /\ t.dual = s.dual
      /\ t.waiting = s.waiting /\ t.proposeChan = s.proposeChan /\ t.held = s.held
      /\ t.received = X /\ t.voted = s.voted /\ t.committed = s.committed
      /\ t.crashed = s.crashed
  BY DEF ReplicaState
<1> HIDE DEF t
<1> QED BY <1>1 DEF Progress, t

LEMMA RecursiveFields ==
  ASSUME NEW s \in ReplicaState, NEW x, NEW r, NEW k, NEW d, Progress(r, s, k, d)
  PROVE  LET t == [s EXCEPT !.recursive = x]
         IN  /\ Progress(r, t, k, d) /\ t.received = s.received
             /\ t.bufferedBlocks = s.bufferedBlocks
             /\ t.dual = s.dual /\ t.curView = s.curView /\ t.votes = s.votes
             /\ t.waiting = s.waiting
<1> DEFINE t == [s EXCEPT !.recursive = x]
<1>1. /\ t.curView = s.curView /\ t.newViews = s.newViews /\ t.highQC = s.highQC
      /\ t.highBlock = s.highBlock /\ t.preferredSeq = s.preferredSeq /\ t.forest = s.forest
      /\ t.bufferedBlocks = s.bufferedBlocks /\ t.bufferedQCs = s.bufferedQCs
      /\ t.blocked = s.blocked /\ t.votes = s.votes /\ t.dual = s.dual
      /\ t.waiting = s.waiting /\ t.proposeChan = s.proposeChan /\ t.held = s.held
      /\ t.received = s.received /\ t.voted = s.voted /\ t.committed = s.committed
      /\ t.crashed = s.crashed
  BY DEF ReplicaState
<1> HIDE DEF t
<1> QED BY <1>1 DEF Progress, t

LEMMA BufferFields ==
  ASSUME NEW s \in ReplicaState, NEW X, NEW r, NEW k, NEW d, Progress(r, s, k, d)
  PROVE  LET t == [s EXCEPT !.bufferedBlocks = X]
         IN  /\ Progress(r, t, k, d) /\ t.received = s.received
             /\ t.bufferedBlocks = X /\ t.recursive = s.recursive
             /\ t.dual = s.dual /\ t.curView = s.curView /\ t.votes = s.votes
             /\ t.waiting = s.waiting /\ t.voted = s.voted
<1> DEFINE t == [s EXCEPT !.bufferedBlocks = X]
<1>1. /\ t.curView = s.curView /\ t.newViews = s.newViews /\ t.highQC = s.highQC
      /\ t.highBlock = s.highBlock /\ t.preferredSeq = s.preferredSeq /\ t.forest = s.forest
      /\ t.bufferedBlocks = X /\ t.bufferedQCs = s.bufferedQCs
      /\ t.recursive = s.recursive /\ t.blocked = s.blocked /\ t.votes = s.votes
      /\ t.dual = s.dual
      /\ t.waiting = s.waiting /\ t.proposeChan = s.proposeChan /\ t.held = s.held
      /\ t.received = s.received /\ t.voted = s.voted /\ t.committed = s.committed
      /\ t.crashed = s.crashed
  BY DEF ReplicaState
<1> HIDE DEF t
<1> QED BY <1>1 DEF Progress, t

\* ProcessBlock on the next block, whichever way it came.
LEMMA ProcessNext ==
  ASSUME FaultFree, PipeInv, NEW r \in Node, NEW k \in Nat, k + 1 \in Proposed,
         NEW s, GoodReplica(r, s), Progress(r, s, k, k),
         s.dual = st[r].dual, s.waiting = st[r].waiting, s.votes = st[r].votes,
         s.curView = st[r].curView
  PROVE  LET p == processBlock(r, s, block[k + 1])
         IN  /\ Progress(r, p, k + 1, k + 1) /\ GoodReplica(r, p) /\ p \in ReplicaState
             /\ p.received = s.received /\ p.bufferedBlocks = s.bufferedBlocks
             /\ p.recursive = IF k + 2 \in s.bufferedBlocks THEN k + 2 ELSE 0
             /\ Collected(r, p.curView, p.votes, p.dual, p.waiting, st)
<1> DEFINE p == processBlock(r, s, block[k + 1])
           V == VotesLeft(s.votes, k)
<1>1. /\ Progress(r, p, k + 1, k + 1)
      /\ p.received = s.received /\ p.bufferedBlocks = s.bufferedBlocks
      /\ p.dual = s.dual /\ p.waiting = s.waiting
      /\ p.votes = VotesLeft(s.votes, k)
      /\ p.recursive = IF k + 2 \in s.bufferedBlocks THEN k + 2 ELSE 0
      /\ p.curView = k + 1
      /\ Leader(k + 1) = r => s.curView = k + 1
  <2>1. GoodBlocks /\ PipeBlocks
    BY DEF PipeInv, IInv
  <2> QED BY <2>1, ProcessInStep
<1>2. GoodReplica(r, p) /\ p \in ReplicaState
  <2>1. GoodBlocks /\ Received(block[k + 1])
    BY DEF PipeInv, IInv, Received
  <2>2. GoodReplica(r, p)
    BY <2>1, processBlockGood
  <2> HIDE DEF p
  <2> QED BY <2>2 DEF GoodReplica, Sound
<1> HIDE DEF p
<1>3. Collected(r, k + 1, V, s.dual, s.waiting, st)
  <2>1. /\ st \in [Node -> ReplicaState] /\ st[r] \in ReplicaState
        /\ Collected(r, st[r].curView, st[r].votes, st[r].dual, st[r].waiting, st)
    BY StartsInStep DEF InStep
  <2>2. /\ s.curView \in Nat /\ s.waiting \in QC \cup {NoQC} /\ s.curView <= k + 1
        /\ k + 1 \in Nat
    BY <2>1 DEF ReplicaState, Progress
  <2>3. k + 1 = 1 /\ Leader(1) = r => s.curView = 1
    BY <1>1
  <2>4. V \subseteq s.votes /\ \A x \in s.votes \ V : ~ (x[2] + 2 > k + 1)
    BY DEF VotesLeft
  <2> HIDE DEF V
  <2> QED BY <2>1, <2>2, <2>3, <2>4, CollectedLater
<1>4. Collected(r, p.curView, p.votes, p.dual, p.waiting, st)
  BY <1>1, <1>3
<1> QED BY <1>1, <1>2, <1>4 DEF p

LEMMA ProcessBlockInStep ==
  ASSUME FaultFree, PipeInv, IInv', NEW r \in Node, NEW v \in View, ProcessBlock(r, v)
  PROVE  PipeInv'
<1> DEFINE k == st[r].highBlock
           X == st[r].received \cup {v}
           s == [st[r] EXCEPT !.received = X]
           t == processBlock(r, s, block[v])
           B == st[r].bufferedBlocks
<1>1. /\ st[r] \in ReplicaState /\ GoodReplica(r, st[r])
      /\ Progress(r, st[r], k, k) /\ Buffer(st[r], k)
      /\ Collected(r, st[r].curView, st[r].votes, st[r].dual, st[r].waiting, st)
  BY StartsInStep DEF InStep
<1>2. k \in Nat /\ v \in Nat /\ st[r].curView \in Nat /\ B \subseteq Nat
  <2>1. k \in Id /\ st[r].curView \in Nat /\ B \subseteq View
    BY <1>1 DEF ReplicaState
  <2> QED BY <2>1, MaxViewNat DEF Id, View
<1>3. /\ st' = HandleVote([st EXCEPT ![r] = t], r, v) /\ block' = block /\ tmos' = tmos
      /\ v \in Proposed /\ block[v].view = v /\ v \notin st[r].received /\ st[r].recursive = 0
      /\ OwnFirst(r, v) /\ PipeBlocks /\ tmos = {} /\ st \in [Node -> ReplicaState]
  BY StartsInStep DEF ProcessBlock, CanProcessBlock, MainIdle, Proposed, PipeInv, PipeBlocks, PipeBlock
<1>4. v > k
  BY <1>1, <1>2, <1>3, MaxViewNat DEF Buffer, View
<1>5. k + 1 \notin B
  <2>1. k + 1 # 0
    BY <1>2
  <2> QED BY <1>1, <1>3, <2>1 DEF Buffer
<1>6. X \in SUBSET View
  BY <1>1 DEF ReplicaState
<1>7. /\ Progress(r, s, k, k) /\ s.received = X
      /\ s.bufferedBlocks = B /\ s.recursive = st[r].recursive
      /\ s.dual = st[r].dual /\ s.curView = st[r].curView /\ s.votes = st[r].votes
      /\ s.waiting = st[r].waiting /\ GoodReplica(r, s) /\ s \in ReplicaState
  <2>1. GoodReplica(r, s)
    BY <1>1, <1>6, Leaves
  <2> HIDE DEF X, k
  <2>2. /\ Progress(r, s, k, k) /\ s.received = X
        /\ s.bufferedBlocks = B /\ s.recursive = st[r].recursive
        /\ s.dual = st[r].dual /\ s.curView = st[r].curView /\ s.votes = st[r].votes
        /\ s.waiting = st[r].waiting
    BY <1>1, ReceivedFields
  <2> HIDE DEF s
  <2>3. s \in ReplicaState
    BY <2>1 DEF GoodReplica, Sound
  <2> QED BY <2>1, <2>2, <2>3
<1>8. CASE v > st[r].curView + 1
  <2> DEFINE C == B \cup {v}
             u == [s EXCEPT !.bufferedBlocks = C]
  <2>1. t = u
    BY <1>3, <1>7, <1>8 DEF processBlock
  <2>2. v # k + 1
    BY <1>1, <1>2, <1>8 DEF Progress
  <2>3. X = (1..k) \cup C
    BY <1>1 DEF Buffer
  <2>4. (\A x \in C : x > k) /\ k + 1 \notin C
    BY <1>1, <1>4, <1>5, <2>2 DEF Buffer
  <2> HIDE DEF s, C, t, X, k
  <2>5. /\ Progress(r, u, k, k) /\ u.received = s.received
        /\ u.bufferedBlocks = C /\ u.recursive = s.recursive
        /\ u.dual = s.dual /\ u.curView = s.curView /\ u.votes = s.votes
        /\ u.waiting = s.waiting /\ u.voted = s.voted
    BY <1>7, BufferFields
  <2> HIDE DEF u
  <2>6. Buffer(u, k)
    BY <1>3, <1>7, <2>3, <2>4, <2>5 DEF Buffer
  <2>7. InStep(r, u, st) /\ u.voted = st[r].voted
    <3>1. u.highBlock = k /\ u.voted = 1..k /\ st[r].voted = 1..k
      BY <1>1, <2>5 DEF Progress
    <3> QED BY <1>1, <1>7, <2>5, <2>6, <3>1 DEF InStep
  <2>8. st' = [st EXCEPT ![r] = u]
    <3>1. v \notin u.voted
      <4>1. u.voted = 1..k
        BY <2>5 DEF Progress
      <4> QED BY <1>2, <1>4, <4>1
    <3>2. [st EXCEPT ![r] = u][r] = u
      BY <1>3
    <3> QED BY <1>3, <2>1, <3>1, <3>2 DEF HandleVote
  <2>9. PipeBlocks' /\ tmos' = {}
    BY <1>3 DEF PipeBlocks, PipeBlock, Proposed
  <2> QED BY <2>7, <2>8, <2>9, QuietStep
<1>9. CASE ~ (v > st[r].curView + 1)
  <2>1. v = k + 1
    <3>1. SUFFICES ASSUME v = k + 2, st[r].curView = k + 1, Leader(k + 1) = r PROVE FALSE
      BY <1>1, <1>2, <1>4, <1>9 DEF Progress
    <3>2. k + 1 \in 1..v /\ k + 1 \in Proposed
      BY <1>2, <1>3, <3>1 DEF PipeBlocks
    <3>3. k + 1 \notin st[r].received
      BY <1>1, <1>2, <1>5 DEF Buffer
    <3>4. block[v].nth <= block[k + 1].nth
      BY <1>3, <3>1, <3>2, <3>3 DEF OwnFirst, Proposed
    <3>5. block[v].nth = v - 1 /\ block[k + 1].nth = (k + 1) - 1
      BY <1>3, <3>2 DEF PipeBlocks, PipeBlock
    <3> QED BY <1>2, <3>1, <3>4, <3>5
  <2> HIDE DEF k, s
  <2>2. k + 1 \in Proposed
    BY <1>3, <2>1
  <2>3. /\ Progress(r, t, k + 1, k + 1) /\ GoodReplica(r, t) /\ t \in ReplicaState
        /\ t.received = s.received /\ t.bufferedBlocks = s.bufferedBlocks
        /\ t.recursive = IF k + 2 \in s.bufferedBlocks THEN k + 2 ELSE 0
        /\ Collected(r, t.curView, t.votes, t.dual, t.waiting, st)
    BY <1>2, <1>7, <2>1, <2>2, ProcessNext
  <2> HIDE DEF t
  <2>4. Buffer(t, k + 1)
    <3>1. X = (1..(k + 1)) \cup B
      BY <1>1, <1>2, <2>1 DEF Buffer
    <3>2. \A x \in B : x > k + 1
      <4>1. \A x \in B : x > k /\ x # k + 1 /\ x \in Nat
        BY <1>1, <1>2, <1>5 DEF Buffer
      <4> QED BY <1>2, <4>1
    <3>3. (k + 1) + 1 = k + 2
      BY <1>2
    <3> HIDE DEF B, X
    <3> QED BY <1>7, <2>3, <3>1, <3>2, <3>3 DEF Buffer
  <2>5. st[r].voted = 1..k
    BY <1>1 DEF Progress
  <2> QED BY <1>2, <1>3, <2>1, <2>2, <2>3, <2>4, <2>5, VotingStep
<1> QED BY <1>8, <1>9

LEMMA ProcessBufferedInStep ==
  ASSUME FaultFree, PipeInv, IInv', NEW r \in Node, ProcessBufferedBlock(r)
  PROVE  PipeInv'
<1> DEFINE k == st[r].highBlock
           s == [st[r] EXCEPT !.recursive = 0]
           p == processBlock(r, s, block[k + 1])
           B == st[r].bufferedBlocks
           C == B \ {k + 1}
           t == [p EXCEPT !.bufferedBlocks = C]
<1>1. /\ st[r] \in ReplicaState /\ GoodReplica(r, st[r])
      /\ Progress(r, st[r], k, k) /\ Buffer(st[r], k)
  BY StartsInStep DEF InStep
<1>2. k \in Nat /\ B \subseteq Nat
  <2>1. k \in Id /\ B \subseteq View
    BY <1>1 DEF ReplicaState
  <2> QED BY <2>1, MaxViewNat DEF Id, View
<1>3. /\ st[r].recursive = k + 1 /\ k + 1 \in B
      /\ st[r].recursive \in Proposed \cup {0} /\ k + 1 # 0
  BY <1>1, <1>2 DEF ProcessBufferedBlock, CanProcessBuffered, Buffer, GoodReplica, Sound, KnownBlocks
<1>4. k + 1 \in Proposed
  BY <1>3
<1>5. /\ Progress(r, s, k, k) /\ s.received = st[r].received
      /\ s.bufferedBlocks = B
      /\ s.dual = st[r].dual /\ s.curView = st[r].curView /\ s.votes = st[r].votes
      /\ s.waiting = st[r].waiting /\ GoodReplica(r, s)
  <2> HIDE DEF k
  <2> QED BY <1>1, Leaves, RecursiveFields
<1>6. st' = HandleVote([st EXCEPT ![r] = [p EXCEPT !.bufferedBlocks = @ \ {k + 1}]], r, k + 1)
      /\ block' = block /\ tmos' = tmos
  <2> HIDE DEF k
  <2> QED BY <1>3 DEF ProcessBufferedBlock
<1> HIDE DEF k, s
<1>7. /\ Progress(r, p, k + 1, k + 1) /\ GoodReplica(r, p) /\ p \in ReplicaState
      /\ p.received = s.received /\ p.bufferedBlocks = s.bufferedBlocks
      /\ p.recursive = IF k + 2 \in s.bufferedBlocks THEN k + 2 ELSE 0
      /\ Collected(r, p.curView, p.votes, p.dual, p.waiting, st)
  BY <1>2, <1>4, <1>5, ProcessNext
<1> HIDE DEF p
<1>8. st' = HandleVote([st EXCEPT ![r] = t], r, k + 1)
  <2>1. p.bufferedBlocks = B
    BY <1>5, <1>7
  <2> QED BY <1>6, <2>1
<1>9. C \in SUBSET p.bufferedBlocks
  BY <1>5, <1>7
<1> HIDE DEF C
<1>10. /\ Progress(r, t, k + 1, k + 1) /\ t.received = p.received
       /\ t.bufferedBlocks = C /\ t.recursive = p.recursive
       /\ t.dual = p.dual /\ t.curView = p.curView /\ t.votes = p.votes
       /\ t.waiting = p.waiting /\ GoodReplica(r, t)
  <2>1. GoodReplica(r, t)
    BY <1>7, <1>9, Leaves
  <2>2. /\ Progress(r, t, k + 1, k + 1) /\ t.received = p.received
        /\ t.bufferedBlocks = C /\ t.recursive = p.recursive
        /\ t.dual = p.dual /\ t.curView = p.curView /\ t.votes = p.votes
        /\ t.waiting = p.waiting
    BY <1>7, BufferFields
  <2> QED BY <2>1, <2>2
<1> HIDE DEF t
<1>11. Buffer(t, k + 1)
  <2>1. st[r].received = (1..(k + 1)) \cup C
    BY <1>1, <1>2, <1>3 DEF Buffer, C
  <2>2. \A x \in C : x > k + 1
    <3>1. \A x \in C : x > k /\ x # k + 1 /\ x \in Nat
      BY <1>1, <1>2 DEF Buffer, C
    <3> QED BY <1>2, <3>1
  <2>3. (k + 1) + 1 = k + 2 /\ (k + 2 \in B <=> k + 2 \in C)
    BY <1>2 DEF C
  <2> HIDE DEF B
  <2> QED BY <1>5, <1>7, <1>10, <2>1, <2>2, <2>3 DEF Buffer
<1>12. st[r].voted = 1..k
  BY <1>1 DEF Progress
<1>13. Collected(r, t.curView, t.votes, t.dual, t.waiting, st)
  BY <1>7, <1>10
<1> QED BY <1>2, <1>4, <1>6, <1>8, <1>10, <1>11, <1>12, <1>13, VotingStep

\* Nothing ever has to wait for room in proposeChan, and no timer fires.
LEMMA NothingHeld ==
  ASSUME FaultFree, PipeInv, NEW r \in Node
  PROVE  /\ ~ ResumeBlock(r) /\ ~ ResumeProposal(r) /\ ~ ProcessLocalTmo(r)
         /\ ~ \E tmo \in tmos : ProcessRemoteTmo(r, tmo)
<1>1. st[r].blocked = 0 /\ st[r].held = NoBlock
  BY StartsInStep DEF InStep, Progress
<1>2. ~ ResumeBlock(r) /\ ~ ResumeProposal(r)
  BY <1>1 DEF ResumeBlock, CanResumeBlock, ResumeProposal, CanResumeProposal
<1>3. ~ ProcessLocalTmo(r)
  BY DEF ProcessLocalTmo, FaultFree
<1>4. tmos = {}
  BY DEF PipeInv
<1> QED BY <1>2, <1>3, <1>4

\* What the vote loop leaves alone.
VoteLoop(s, t) ==
  /\ t.curView = s.curView /\ t.newViews = s.newViews /\ t.highQC = s.highQC
  /\ t.highBlock = s.highBlock /\ t.preferredSeq = s.preferredSeq /\ t.forest = s.forest
  /\ t.bufferedBlocks = s.bufferedBlocks /\ t.bufferedQCs = s.bufferedQCs
  /\ t.recursive = s.recursive /\ t.blocked = s.blocked
  /\ t.proposeChan = s.proposeChan /\ t.held = s.held
  /\ t.received = s.received /\ t.voted = s.voted /\ t.committed = s.committed
  /\ t.crashed = s.crashed

\* A quorum that still matters is one the collector has a QC of, and so it is
\* not waiting for votes.
LEMMA ProcessVoteInStep ==
  ASSUME FaultFree, PipeInv, IInv', NEW r \in Node, NEW vote \in st[r].dual, ProcessVote(r, vote)
  PROVE  PipeInv'
<1> DEFINE s == st[r]
           k == s.highBlock
           D == s.dual \ {vote}
           q == vote[1]
           v == vote[2]
           u == [s EXCEPT !.dual = D]
           more == s.votes \cup {<<q, v>>}
           start == [view |-> 1, seq |-> 1, block |-> 0]
           qc == [view |-> block[v].seq, seq |-> block[v].seq, block |-> v]
           w == IF superMajority(Voters(more, v)) THEN qc ELSE s.waiting
           t == addVote(u, q, v)
<1>1. /\ s \in ReplicaState /\ GoodReplica(r, s) /\ Progress(r, s, k, k) /\ Buffer(s, k)
      /\ Collected(r, s.curView, s.votes, s.dual, s.waiting, st)
  BY StartsInStep DEF InStep
<1>2. /\ st' = [st EXCEPT ![r] = t] /\ block' = block /\ tmos' = tmos
      /\ s.waiting = NoQC /\ (v = 0 \/ <<r, 0, 0>> \notin s.dual)
      /\ \A other \in s.dual : other[1] = q => vote[3] <= other[3]
  BY DEF ProcessVote, CanProcessVote, FaultFree
<1>3. /\ vote \in Node \X Id \X Nat /\ v \in Nat /\ q \in Node
      /\ \A x \in s.dual : x \in Node \X Id \X Nat /\ x[2] \in Nat
      /\ (v = 0 \/ Cast(q, v)) /\ s.curView \in Nat
  <2>1. \A x \in s.dual : x \in Node \X Id \X Nat
    BY <1>1 DEF ReplicaState
  <2>2. v = 0 \/ Cast(q, v)
    BY <1>1 DEF GoodReplica, Sound, KnownVotes
  <2>3. s.curView \in Nat
    BY <1>1 DEF ReplicaState
  <2> QED BY <2>1, <2>2, <2>3, MaxViewNat DEF Id
<1>4. /\ u \in ReplicaState /\ u.votes = s.votes /\ u.waiting = s.waiting /\ u.dual = D
      /\ VoteLoop(s, u)
  <2>1. D \in SUBSET s.dual
    OBVIOUS
  <2> HIDE DEF D
  <2>2. u.votes = s.votes /\ u.waiting = s.waiting /\ u.dual = D /\ VoteLoop(s, u)
    BY <1>1 DEF ReplicaState, VoteLoop
  <2>3. GoodReplica(r, [s EXCEPT !.dual = D])
    BY <1>1, <2>1, Leaves
  <2>4. u \in ReplicaState
    BY <2>3 DEF GoodReplica, Sound
  <2> QED BY <2>2, <2>4
<1>5. ASSUME VoteLoop(s, t), t.dual = D,
             Collected(r, s.curView, t.votes, D, t.waiting, st)
      PROVE  PipeInv'
  <2> HIDE DEF t, D, k, s
  <2>1. Progress(r, t, k, k) /\ Buffer(t, k) /\ t.voted = s.voted /\ t.curView = s.curView
        /\ t.highBlock = k
    BY <1>1, <1>5 DEF VoteLoop, Progress, Buffer
  <2>2. InStep(r, t, st) /\ t.voted = st[r].voted
    BY <1>5, <2>1 DEF InStep, s
  <2>3. PipeBlocks' /\ tmos' = {}
    BY <1>2 DEF PipeInv, PipeBlocks, PipeBlock, Proposed
  <2> QED BY <1>2, <2>2, <2>3, QuietStep
<1>6. ASSUME NEW z \in View, z + 2 > s.curView PROVE ~ superMajority(Voters(s.votes, z))
  BY <1>1, <1>2, <1>6 DEF Collected
<1>7. CASE v = 0
  <2>1. t = [u EXCEPT !.waiting = start]
    BY <1>7 DEF addVote
  <2>2. start # NoQC /\ start.block = 0 /\ start = Entry(0 + 2)
    BY DEF NoQC, Entry, Back
  <2>3. vote = <<r, 0, 0>> /\ s.curView >= 1
    BY <1>1, <1>7 DEF Collected
  <2>4. \A x \in D : x[2] # 0
    BY <1>1, <2>3 DEF Collected
  <2> HIDE DEF u, t, start, D, s
  <2>5. VoteLoop(u, t) /\ t.votes = u.votes /\ t.dual = u.dual /\ t.waiting = start
    BY <1>4, <2>1 DEF ReplicaState, VoteLoop
  <2>6. D \subseteq s.dual
    BY DEF D
  <2>7. Collected(r, s.curView, s.votes, D, start, st)
    <3>1. \A x \in D : x[3] = x[2] /\ x[2] # 0
      BY <1>1, <2>4, <2>6 DEF Collected
    <3>2. \A x \in s.votes : \A y \in D : y[1] = x[1] => y[2] > x[2]
      BY <1>1, <2>6 DEF Collected
    <3>3. \A p \in Node : \A z \in st[p].voted : Leader(z + 2) = r /\ z + 2 > s.curView =>
            <<p, z, z>> \in D \/ <<p, z>> \in s.votes
      <4> SUFFICES ASSUME NEW p \in Node, NEW z \in st[p].voted,
                          Leader(z + 2) = r, z + 2 > s.curView
                   PROVE  <<p, z, z>> \in D \/ <<p, z>> \in s.votes
        OBVIOUS
      <4>1. <<p, z, z>> \in s.dual \/ <<p, z>> \in s.votes
        BY <1>1 DEF Collected
      <4>2. z # 0
        BY StartsInStep, MaxViewNat DEF ReplicaState, View
      <4>3. <<p, z, z>> # vote
        BY <2>3, <4>2
      <4> QED BY <4>1, <4>3 DEF D
    <3>4. \A z \in View : ~ (z + 2 > s.curView /\ superMajority(Voters(s.votes, z)))
      BY <1>6
    <3> QED BY <2>2, <2>3, <3>1, <3>2, <3>3, <3>4 DEF Collected
  <2>8. VoteLoop(s, t)
    BY <1>4, <2>5 DEF VoteLoop
  <2> QED BY <1>4, <1>5, <2>5, <2>7, <2>8
<1>8. CASE v # 0
  <2>1. /\ vote[3] = v /\ v \in View /\ block[v].seq = v + 1 /\ <<r, 0, 0>> \notin s.dual
        /\ ~ (s.curView = 1 /\ Leader(1) = r)
    <3>1. vote[3] = v /\ <<r, 0, 0>> \notin s.dual
      BY <1>1, <1>2, <1>8 DEF Collected
    <3>2. v \in Proposed
      BY <1>3, <1>8 DEF Cast
    <3>3. v \in View /\ block[v].seq = v + 1
      BY <3>2 DEF PipeInv, PipeBlocks, PipeBlock, Proposed
    <3>4. ~ (s.curView = 1 /\ Leader(1) = r)
      BY <1>1, <1>2, <3>1 DEF Collected
    <3> QED BY <3>1, <3>3, <3>4
  <2>2. \A x \in D : x \in s.dual /\ x # vote /\ x[2] # 0 /\ x[3] = x[2]
    BY <1>1, <2>1 DEF Collected
  <2>3. \A x \in D : x[1] = q => x[2] > v
    <3> SUFFICES ASSUME NEW x \in D, x[1] = q PROVE x[2] > v
      OBVIOUS
    <3>1. x[3] = x[2] /\ v <= x[3] /\ x # vote /\ x \in Node \X Id \X Nat /\ x[2] \in Nat
      BY <1>2, <1>3, <2>1, <2>2
    <3>2. x = <<x[1], x[2], x[3]>> /\ vote = <<q, v, vote[3]>>
      BY <1>3, <3>1
    <3>3. x[2] # v
      BY <2>1, <3>1, <3>2
    <3> QED BY <1>3, <3>1, <3>3
  <2>4. \A p \in Node : \A z \in st[p].voted : Leader(z + 2) = r /\ z + 2 > s.curView =>
          <<p, z, z>> \in D \/ <<p, z>> \in s.votes \/ (p = q /\ z = v)
    <3> SUFFICES ASSUME NEW p \in Node, NEW z \in st[p].voted,
                        Leader(z + 2) = r, z + 2 > s.curView
                 PROVE  <<p, z, z>> \in D \/ <<p, z>> \in s.votes \/ (p = q /\ z = v)
      OBVIOUS
    <3>1. <<p, z, z>> \in s.dual \/ <<p, z>> \in s.votes
      BY <1>1 DEF Collected
    <3>2. <<p, z, z>> = vote => p = q /\ z = v
      OBVIOUS
    <3> QED BY <3>1, <3>2
  <2>5. CASE superMajority(Voters(s.votes, v))
    <3>1. t = u
      BY <1>4, <1>8, <2>5 DEF addVote, Voters
    <3>2. ~ (v + 2 > s.curView)
      BY <1>6, <2>1, <2>5
    <3> HIDE DEF t, u, D, s
    <3>3. Collected(r, s.curView, s.votes, D, s.waiting, st)
      <4>1. \A x \in s.votes : \A y \in D : y[1] = x[1] => y[2] > x[2]
        BY <1>1, <2>2 DEF Collected
      <4>2. \A p \in Node : \A z \in st[p].voted : Leader(z + 2) = r /\ z + 2 > s.curView =>
              <<p, z, z>> \in D \/ <<p, z>> \in s.votes
        BY <2>4, <3>2
      <4>3. \A z \in View : ~ (z + 2 > s.curView /\ superMajority(Voters(s.votes, z)))
        BY <1>6
      <4> QED BY <1>2, <2>1, <2>2, <4>1, <4>2, <4>3 DEF Collected
    <3> QED BY <1>4, <1>5, <3>1, <3>3
  <2>6. CASE ~ superMajority(Voters(s.votes, v))
    <3>1. t = [u EXCEPT !.votes = more, !.waiting = w]
      <4> HIDE DEF u
      <4>1. ~ superMajority(Voters(u.votes, v))
        BY <1>4, <2>6
      <4> QED BY <1>4, <1>8, <4>1 DEF addVote, Voters
    <3>2. qc # NoQC /\ qc.block = v /\ qc = Entry(v + 2)
      BY <1>3, <1>8, <2>1 DEF NoQC, Entry, Back
    <3>3. \A z \in View : z # v => Voters(more, z) = Voters(s.votes, z)
      BY DEF Voters
    <3>4. \A x \in more : x \in s.votes \/ (x[1] = q /\ x[2] = v)
      OBVIOUS
    <3>5. <<q, v>> \in more /\ s.votes \subseteq more
      OBVIOUS
    <3>6. w = IF superMajority(Voters(more, v)) THEN qc ELSE NoQC
      BY <1>2
    <3> HIDE DEF t, u, D, s, w, more, qc
    <3>7. VoteLoop(u, t) /\ t.votes = more /\ t.dual = u.dual /\ t.waiting = w
      BY <1>4, <3>1 DEF ReplicaState, VoteLoop
    <3>8. Collected(r, s.curView, more, D, w, st)
      <4>1. \A x \in more : \A y \in D : y[1] = x[1] => y[2] > x[2]
        BY <1>1, <2>2, <2>3, <3>4 DEF Collected
      <4>2. \A p \in Node : \A z \in st[p].voted : Leader(z + 2) = r /\ z + 2 > s.curView =>
              <<p, z, z>> \in D \/ <<p, z>> \in more
        BY <2>4, <3>5
      <4>3. \A z \in View : z + 2 > s.curView /\ superMajority(Voters(more, z)) =>
              w # NoQC /\ w.block = z
        BY <1>6, <3>2, <3>3, <3>6
      <4>4. w # NoQC => /\ w = Entry(w.block + 2)
                        /\ IF w.block = 0 THEN s.curView >= 1
                           ELSE w.block + 2 > s.curView => superMajority(Voters(more, w.block))
        BY <1>8, <3>2, <3>6
      <4> QED BY <2>1, <2>2, <4>1, <4>2, <4>3, <4>4 DEF Collected
    <3>9. VoteLoop(s, t)
      BY <1>4, <3>7 DEF VoteLoop
    <3> QED BY <1>4, <1>5, <3>7, <3>8, <3>9
  <2> QED BY <2>5, <2>6
<1> QED BY <1>7, <1>8

LEMMA KickOffInStep ==
  ASSUME FaultFree, PipeInv, IInv', NEW r \in Node, KickOff(r)
  PROVE  PipeInv'
<1> DEFINE s == st[r]
           a == AdvanceView(r, s, 0, 0, NoTimeout)
           vote == <<r, 0, 0>>
           D == a.dual \cup {vote}
           t == [a EXCEPT !.dual = D]
           k == s.highBlock
<1>1. /\ s \in ReplicaState /\ GoodReplica(r, s) /\ Progress(r, s, k, k) /\ Buffer(s, k)
      /\ Collected(r, s.curView, s.votes, s.dual, s.waiting, st)
  BY StartsInStep DEF InStep
<1>2. /\ st' = [st EXCEPT ![r] = t] /\ block' = block /\ tmos' = tmos
      /\ s.curView = 0 /\ Leader(1) = r
  BY DEF KickOff, CanKickOff
<1>3. k = 0
  <2>1. k \in Nat
    BY <1>1, MaxViewNat DEF ReplicaState, Id
  <2> QED BY <1>1, <1>2, <2>1 DEF Progress
<1>4. Proposed = {}
  <2> SUFFICES ASSUME NEW v \in Proposed PROVE FALSE
    OBVIOUS
  <2>1. v \in Nat /\ v >= 1
    BY MaxViewNat DEF Proposed, View
  <2>2. 1 \in Proposed
    BY <2>1 DEF PipeInv, PipeBlocks
  <2>3. 1 <= s.curView
    BY <1>1, <1>2, <2>2 DEF GoodReplica, Sound, GoodQueue
  <2> QED BY <1>2, <2>3
<1>5. /\ \A x \in s.votes : FALSE
      /\ \A x \in s.dual : x[2] = 0
  BY <1>1, <1>4 DEF GoodReplica, Sound, KnownVotes, Cast
<1>6. s.waiting = NoQC
  <2> SUFFICES ASSUME s.waiting # NoQC PROVE FALSE
    OBVIOUS
  <2>1. s.waiting.block # 0 /\ s.waiting \in QC /\ ValidQC(s.waiting)
    BY <1>1, <1>2 DEF Collected, ReplicaState, GoodReplica, Sound, ValidQCs
  <2>2. s.waiting.block \in Proposed
    BY <2>1, MaxViewNat DEF ValidQC, QC, Proposed, View, Id
  <2> QED BY <1>4, <2>2
<1>7. /\ a \in ReplicaState /\ Rest(s, a) /\ BlockOf(s, a)
      /\ a.curView = 1 /\ a.highQC = s.highQC /\ a.preferredSeq = s.preferredSeq
      /\ a.newViews = Append(s.newViews, [view |-> 1, seq |-> 2, pt |-> NoTimeout])
  <2>1. 0 \in Nat /\ NoTimeout \in {NoTimeout, TimeoutF, TimeoutS} /\ ~ (0 < s.curView)
        /\ 0 + 1 = 1 /\ 0 + 2 = 2
    BY <1>2
  <2>2. GoodReplica(r, a)
    BY <1>1, <2>1, AdvanceViewGood
  <2>3. /\ Rest(s, a) /\ BlockOf(s, a)
        /\ a.curView = 0 + 1 /\ a.highQC = s.highQC /\ a.preferredSeq = s.preferredSeq
        /\ Leader(0 + 1) = r =>
             a.newViews = Append(s.newViews, [view |-> 0 + 1, seq |-> 0 + 2, pt |-> NoTimeout])
    BY <1>1, <2>1, AdvanceIs
  <2> QED BY <1>2, <2>1, <2>2, <2>3 DEF GoodReplica, Sound
<1>8. s.newViews = <<>>
  BY <1>1, <1>2, <1>3 DEF Progress, Announced
<1>9. a.newViews = <<[view |-> 1, seq |-> 1 + 1, pt |-> NoTimeout]>>
  BY <1>7, <1>8
<1> HIDE DEF a, s, k
<1>10. Progress(r, a, 0, 0) /\ Buffer(a, 0) /\ a.votes = s.votes /\ a.dual = s.dual
       /\ a.waiting = NoQC /\ a.highBlock = 0 /\ a.voted = s.voted
  <2>1. a.highQC = Entry(1) /\ a.preferredSeq = 0
    BY <1>1, <1>2, <1>7 DEF Progress, AtView, Entry, Back, GenesisQC
  <2>2. AtView(a.highQC, a.preferredSeq, a.curView)
    BY <1>7, <2>1 DEF AtView
  <2>3. Announced(a.newViews, a.curView, 0)
    <3>1. a.curView = 1 /\ 0 + 1 = 1
      BY <1>7
    <3>2. a.newViews = <<[view |-> a.curView, seq |-> a.curView + 1, pt |-> NoTimeout]>>
      BY <1>9, <3>1
    <3> QED BY <3>1, <3>2 DEF Announced
  <2>4. Signalled(r, a.proposeChan, a.curView, 0)
    BY <1>1, <1>3, <1>7 DEF Progress, Signalled, BlockOf
  <2>5. a.curView = 0 + 1 /\ Leader(0 + 1) = r
    BY <1>2, <1>7
  <2>6. /\ a.highBlock = 0 /\ ForestAt(a.forest, 0, 0)
        /\ a.voted = 1..0 /\ a.committed = 1..(0 - 6)
        /\ \A qc \in a.bufferedQCs : qc.block <= 0
        /\ a.blocked = 0 /\ a.held = NoBlock /\ a.crashed = FALSE
    BY <1>1, <1>3, <1>7 DEF Progress, Rest, BlockOf
  <2>7. Progress(r, a, 0, 0)
    BY <2>2, <2>3, <2>4, <2>5, <2>6 DEF Progress
  <2>8. Buffer(a, 0)
    BY <1>1, <1>3, <1>7 DEF Buffer, Rest, BlockOf
  <2> QED BY <1>6, <1>7, <2>6, <2>7, <2>8 DEF Rest, BlockOf
<1> HIDE DEF D
<1>11. /\ Progress(r, t, 0, 0) /\ Buffer(t, 0)
       /\ t.dual = D /\ t.curView = a.curView /\ t.votes = a.votes
       /\ t.waiting = a.waiting /\ t.voted = a.voted /\ t.highBlock = a.highBlock
  BY <1>7, <1>10, DualFields
<1>12. Collected(r, 1, s.votes, D, NoQC, st)
  <2>1. \A x \in D : x = vote
    BY <1>1, <1>5, <1>10 DEF Collected, D
  <2>2. vote \in D /\ vote[2] = 0
    BY DEF D
  <2>3. \A p \in Node : \A z \in st[p].voted : FALSE
    <3> SUFFICES ASSUME NEW p \in Node, NEW z \in st[p].voted PROVE FALSE
      OBVIOUS
    <3>1. Progress(p, st[p], st[p].highBlock, st[p].highBlock) /\ st[p] \in ReplicaState
          /\ GoodReplica(p, st[p])
      BY StartsInStep DEF InStep
    <3>2. st[p].highBlock \in Nat
      BY <3>1, MaxViewNat DEF ReplicaState, Id
    <3>3. st[p].highBlock >= 1
      BY <3>1, <3>2 DEF Progress
    <3>4. \E c \in st[p].forest.vertices : c.id = st[p].highBlock
      <4>1. /\ st[p].highBlock \in 1..st[p].highBlock
            /\ st[p].highBlock + 1 >= st[p].forest.lowest
        BY <3>1, <3>2, <3>3 DEF Progress, ForestAt
      <4> QED BY <3>1, <4>1 DEF Progress, ForestAt
    <3>5. PICK c \in st[p].forest.vertices : c.id = st[p].highBlock
      BY <3>4
    <3>6. c.full
      BY <3>1, <3>3, <3>5 DEF Progress, ForestAt
    <3>7. c.id \in Proposed
      BY <3>1, <3>5, <3>6 DEF GoodReplica, Sound, KnownBlocks
    <3> QED BY <1>4, <3>7
  <2>4. \A z \in View : ~ superMajority(Voters(s.votes, z))
    <3> SUFFICES ASSUME NEW z \in View PROVE ~ superMajority(Voters(s.votes, z))
      OBVIOUS
    <3>1. Voters(s.votes, z) = {}
      BY <1>5 DEF Voters
    <3>2. Cardinality(Voters(s.votes, z)) = 0
      BY <3>1, FS_EmptySet
    <3>3. Cardinality(Node) \in Nat
      BY NodeFinite, FS_CardinalityType
    <3> QED BY <3>2, <3>3 DEF superMajority
  <2> QED BY <1>2, <1>5, <2>1, <2>2, <2>3, <2>4 DEF Collected
<1> HIDE DEF t
<1>13. InStep(r, t, st) /\ t.voted = st[r].voted
  BY <1>7, <1>10, <1>11, <1>12 DEF InStep, s
<1>14. PipeBlocks' /\ tmos' = {}
  BY <1>2 DEF PipeInv, PipeBlocks, PipeBlock, Proposed
<1> QED BY <1>2, <1>13, <1>14, QuietStep

\* The blocks a replica has added have been proposed.
LEMMA HighestAdded ==
  ASSUME PipeInv, NEW r \in Node
  PROVE  st[r].highBlock \in Nat /\ 1..(st[r].highBlock) \subseteq Proposed
<1> DEFINE k == st[r].highBlock
<1>1. /\ st[r] \in ReplicaState /\ ForestAt(st[r].forest, k, k)
      /\ KnownBlocks(st[r].forest, st[r].bufferedBlocks, st[r].recursive, st[r].blocked)
  BY StartsInStep DEF InStep, Progress, GoodReplica, Sound
<1>2. k \in Nat
  BY <1>1, MaxViewNat DEF ReplicaState, Id
<1>3. CASE k = 0
  BY <1>2, <1>3
<1>4. CASE k # 0
  <2>1. k \in 1..k /\ k + 1 >= st[r].forest.lowest
    BY <1>1, <1>2, <1>4 DEF ForestAt
  <2>2. PICK c \in st[r].forest.vertices : c.id = k
    BY <1>1, <2>1 DEF ForestAt
  <2>3. c.full
    BY <1>1, <1>4, <2>2 DEF ForestAt
  <2>4. k \in Proposed
    BY <1>1, <2>2, <2>3 DEF KnownBlocks
  <2> QED BY <1>2, <2>4 DEF PipeInv, PipeBlocks
<1> QED BY <1>3, <1>4

\* When the next block is missing, there are no later ones either.
LEMMA NothingLater ==
  ASSUME PipeInv, NEW r \in Node, st[r].highBlock + 1 \notin Proposed
  PROVE  Proposed = 1..(st[r].highBlock)
<1> DEFINE k == st[r].highBlock
<1>1. k \in Nat /\ 1..k \subseteq Proposed
  BY HighestAdded
<1> HIDE DEF k
<1>2. ASSUME NEW v \in Proposed PROVE v \in 1..k
  <2>1. v \in Nat /\ v >= 1
    BY MaxViewNat DEF Proposed, View
  <2>2. 1..v \subseteq Proposed
    BY DEF PipeInv, PipeBlocks
  <2>3. v > k => k + 1 \in 1..v
    BY <1>1, <2>1
  <2> QED BY <1>1, <2>1, <2>2, <2>3 DEF k
<1> QED BY <1>1, <1>2 DEF k

\* What the QC is of that a leader takes up when the main loop has added block k.
LEMMA SignalledQC ==
  ASSUME FaultFree, PipeInv, NEW r \in Node, CanReceiveSignal(r)
  PROVE  LET s == st[r]
             k == s.highBlock
             y == s.waiting.block
         IN  /\ k \in Nat /\ k >= 1 /\ s.curView = k /\ Leader(k + 1) = r
             /\ k \in Proposed /\ Proposed = 1..k
             /\ s.proposeChan = <<[ope |-> Continue, view |-> 0]>> /\ s.newViews = <<>>
             /\ s.waiting = Entry(y + 2) /\ s.waiting \in QC /\ ValidQC(s.waiting)
             /\ y \in Nat /\ y + 1 <= k
<1> DEFINE s == st[r]
           k == s.highBlock
           w == s.waiting
           y == w.block
<1>1. /\ s \in ReplicaState /\ GoodReplica(r, s) /\ Progress(r, s, k, k)
      /\ Collected(r, s.curView, s.votes, s.dual, w, st)
      /\ w # NoQC /\ s.proposeChan # <<>>
  BY StartsInStep DEF InStep, CanReceiveSignal
<1>2. /\ k \in Nat /\ k >= 1 /\ s.curView = k /\ Leader(k + 1) = r
      /\ s.proposeChan = <<[ope |-> Continue, view |-> 0]>>
  BY <1>1, HighestAdded DEF Progress, Signalled
<1>3. s.newViews = <<>>
  BY <1>1, <1>2 DEF Progress, Announced
<1>4. k + 1 \notin Proposed
  <2>1. \A v \in Proposed : Leader(v) = r => v <= s.curView
    BY <1>1 DEF GoodReplica, Sound, GoodQueue
  <2> QED BY <1>2, <2>1
<1>5. Proposed = 1..k /\ k \in Proposed
  <2>1. Proposed = 1..k
    BY <1>4, NothingLater
  <2> QED BY <1>2, <2>1
<1>6. w = Entry(y + 2) /\ w \in QC /\ ValidQC(w) /\ y \in Nat
  <2>1. w \in QC
    BY <1>1 DEF ReplicaState
  <2> QED BY <1>1, <2>1, MaxViewNat DEF Collected, GoodReplica, Sound, ValidQCs, QC, Id
<1>7. y <= k
  <2>1. y # 0 => y \in Proposed
    BY <1>6, MaxViewNat DEF ValidQC, QC, Proposed, View, Id
  <2> QED BY <1>2, <1>5, <1>6, <2>1
<1>8. y # k
  <2> SUFFICES ASSUME y = k PROVE FALSE
    OBVIOUS
  <2>1. k + 2 > s.curView
    BY <1>2
  <2>2. superMajority(Voters(s.votes, k))
    BY <1>1, <1>2, <2>1 DEF Collected
  <2>3. CASE k = 1
    <3>1. Leader(1) = r
      BY <1>2, <2>3, FirstLeader
    <3>2. <<r, 0, 0>> \in s.dual
      BY <1>1, <1>2, <2>3, <3>1 DEF Collected
    <3>3. <<r, 0, 0>>[2] = 0
      OBVIOUS
    <3> QED BY <1>1, <3>2, <3>3 DEF Collected
  <2>4. CASE k # 1
    <3> DEFINE j == k - 1
    <3>1. j \in View /\ j \in Nat /\ j >= 1 /\ j + 2 > s.curView /\ Leader(j + 2) = r /\ j < k /\ j # k
      <4>1. j \in Nat /\ j >= 1 /\ j < k /\ j # k /\ j + 2 = k + 1
        BY <1>2, <2>4
      <4>2. j \in View
        BY <1>2, <1>5, <4>1 DEF Proposed
      <4> QED BY <1>2, <4>1, <4>2
    <3>2. Voters(s.votes, k) \subseteq Voters(s.votes, j)
      <4> SUFFICES ASSUME NEW q \in Node, <<q, k>> \in s.votes PROVE <<q, j>> \in s.votes
        BY DEF Voters
      <4>1. k \in st[q].voted
        <5>1. Cast(<<q, k>>[1], <<q, k>>[2])
          BY <1>1 DEF GoodReplica, Sound, KnownVotes
        <5> QED BY <5>1 DEF Cast
      <4>2. j \in st[q].voted
        <5>1. st[q].voted = 1..(st[q].highBlock) /\ st[q].highBlock \in Nat
          BY StartsInStep, HighestAdded DEF InStep, Progress
        <5> QED BY <1>2, <3>1, <4>1, <5>1
      <4>3. <<q, j, j>> \in s.dual \/ <<q, j>> \in s.votes
        BY <1>1, <3>1, <4>2 DEF Collected
      <4>4. <<q, j, j>> \notin s.dual
        <5>1. /\ <<q, k>>[1] = <<q, j, j>>[1] /\ <<q, k>>[2] = k /\ <<q, j, j>>[2] = j
          OBVIOUS
        <5>2. ~ (j > k)
          BY <1>2, <3>1
        <5> HIDE DEF j
        <5> QED BY <1>1, <5>1, <5>2 DEF Collected
      <4> QED BY <4>3, <4>4
    <3>3. superMajority(Voters(s.votes, j))
      <4>1. Voters(s.votes, j) \subseteq Node
        BY DEF Voters
      <4> QED BY <2>2, <3>2, <4>1, SuperMajorityGrows
    <3>4. y = j
      BY <1>1, <3>1, <3>3 DEF Collected
    <3> QED BY <3>1, <3>4
  <2> QED BY <2>3, <2>4
<1>9. y + 1 <= k
  BY <1>2, <1>6, <1>7, <1>8
<1> QED BY <1>2, <1>3, <1>5, <1>6, <1>9

\* The signal and the QC are taken.
LEMMA FreeFields ==
  ASSUME NEW s \in ReplicaState, NEW C
  PROVE  LET t == [s EXCEPT !.proposeChan = C, !.waiting = NoQC]
         IN  /\ t.proposeChan = C /\ t.waiting = NoQC
             /\ t.curView = s.curView /\ t.newViews = s.newViews /\ t.highQC = s.highQC
             /\ t.highBlock = s.highBlock /\ t.preferredSeq = s.preferredSeq
             /\ t.forest = s.forest /\ t.bufferedBlocks = s.bufferedBlocks
             /\ t.bufferedQCs = s.bufferedQCs /\ t.recursive = s.recursive
             /\ t.blocked = s.blocked /\ t.held = s.held /\ t.votes = s.votes
             /\ t.dual = s.dual /\ t.received = s.received /\ t.voted = s.voted
             /\ t.committed = s.committed /\ t.crashed = s.crashed
BY DEF ReplicaState

\* A QC whose block is not there yet is kept.
LEMMA BufferedFields ==
  ASSUME NEW s \in ReplicaState, NEW B
  PROVE  LET t == [s EXCEPT !.bufferedQCs = B]
         IN  /\ t.bufferedQCs = B
             /\ t.curView = s.curView /\ t.newViews = s.newViews /\ t.highQC = s.highQC
             /\ t.highBlock = s.highBlock /\ t.preferredSeq = s.preferredSeq
             /\ t.forest = s.forest /\ t.bufferedBlocks = s.bufferedBlocks
             /\ t.proposeChan = s.proposeChan /\ t.waiting = s.waiting /\ t.recursive = s.recursive
             /\ t.blocked = s.blocked /\ t.held = s.held /\ t.votes = s.votes
             /\ t.dual = s.dual /\ t.received = s.received /\ t.voted = s.voted
             /\ t.committed = s.committed /\ t.crashed = s.crashed
BY DEF ReplicaState

\* The leader of the next view takes up the QC that leads into it; a QC of an
\* earlier view makes no difference.
LEMMA ReceiveSignalInStep ==
  ASSUME FaultFree, PipeInv, IInv', NEW r \in Node, ReceiveSignal(r)
  PROVE  PipeInv'
<1> DEFINE s == st[r]
           k == s.highBlock
           w == s.waiting
           y == w.block
           C == Tail(s.proposeChan)
           free == [s EXCEPT !.proposeChan = C, !.waiting = NoQC]
           t == applyQC(r, free, w)
<1>1. /\ s \in ReplicaState /\ GoodReplica(r, s) /\ Progress(r, s, k, k) /\ Buffer(s, k)
      /\ Collected(r, s.curView, s.votes, s.dual, w, st) /\ w # NoQC
  BY StartsInStep DEF InStep, ReceiveSignal, CanReceiveSignal
<1>2. /\ k \in Nat /\ k >= 1 /\ s.curView = k /\ Leader(k + 1) = r
      /\ k \in Proposed /\ Proposed = 1..k
      /\ s.proposeChan = <<[ope |-> Continue, view |-> 0]>> /\ s.newViews = <<>>
      /\ w = Entry(y + 2) /\ w \in QC /\ ValidQC(w)
      /\ y \in Nat /\ y + 1 <= k
  BY SignalledQC DEF ReceiveSignal
<1>3. C = <<>> /\ Head(s.proposeChan).ope = Continue
  BY <1>2
<1>4. free \in ReplicaState
  <2>1. C \in Seq(Signal)
    <3>1. <<>> \in Seq(Signal)
      OBVIOUS
    <3> HIDE DEF C
    <3> QED BY <1>3, <3>1
  <2> HIDE DEF C
  <2>2. GoodReplica(r, [s EXCEPT !.proposeChan = C])
    BY <1>1, <2>1, Leaves
  <2>3. GoodReplica(r, [[s EXCEPT !.proposeChan = C] EXCEPT !.waiting = NoQC])
    BY <2>2, Leaves
  <2> QED BY <2>3 DEF GoodReplica, Sound
<1>5. st' = [st EXCEPT ![r] = t] /\ block' = block /\ tmos' = tmos
  BY <1>3 DEF ReceiveSignal
<1>6. /\ free.proposeChan = <<>> /\ free.waiting = NoQC
      /\ free.curView = s.curView /\ free.newViews = s.newViews /\ free.highQC = s.highQC
      /\ free.highBlock = s.highBlock /\ free.preferredSeq = s.preferredSeq
      /\ free.forest = s.forest /\ free.bufferedBlocks = s.bufferedBlocks
      /\ free.bufferedQCs = s.bufferedQCs /\ free.recursive = s.recursive
      /\ free.blocked = s.blocked /\ free.held = s.held /\ free.votes = s.votes
      /\ free.dual = s.dual /\ free.received = s.received /\ free.voted = s.voted
      /\ free.committed = s.committed /\ free.crashed = s.crashed
  <2> HIDE DEF s, C
  <2> QED BY <1>1, <1>3, FreeFields
<1> HIDE DEF free, s, k, C
<1>7. PipeBlocks /\ PipeBlocks' /\ tmos' = {}
  BY <1>5 DEF PipeInv, PipeBlocks, PipeBlock, Proposed
<1>8. w.view = y + 1 /\ y + 2 <= k + 1
  <2>1. y + 2 # 0 /\ (y + 2) - 1 = y + 1 /\ y + 2 <= k + 1
    BY <1>2
  <2> QED BY <1>2, <2>1 DEF Entry
<1>9. /\ free.forest \in ForestType /\ ForestAt(free.forest, k, k)
      /\ AtView(free.highQC, free.preferredSeq, k) /\ free.curView = k
  BY <1>1, <1>2, <1>4, <1>6, ForestOfType DEF Progress
\* Its quorum is none that still matters in a later view, nor in this one when it is older.
<1>10. ASSUME NEW d \in Nat, d >= k, y + 2 <= d
       PROVE  Collected(r, d, s.votes, s.dual, NoQC, st)
  <2>1. \A x \in s.dual : x[2] # 0 /\ x[3] = x[2]
    BY <1>1 DEF Collected
  <2>2. \A p \in Node : \A z \in st[p].voted : z \in Nat
    BY StartsInStep, MaxViewNat DEF ReplicaState, View
  <2>3. \A p \in Node : \A z \in st[p].voted : Leader(z + 2) = r /\ z + 2 > d =>
          <<p, z, z>> \in s.dual \/ <<p, z>> \in s.votes
    BY <1>1, <1>2, <1>10, <2>2 DEF Collected
  <2>4. \A z \in View : z \in Nat
    BY MaxViewNat DEF View
  <2>5. \A z \in View : ~ (z + 2 > d /\ superMajority(Voters(s.votes, z)))
    BY <1>1, <1>2, <1>10, <2>4 DEF Collected
  <2>6. d # 1
    BY <1>2, <1>10
  <2> QED BY <1>1, <2>1, <2>3, <2>5, <2>6 DEF Collected
<1>11. ASSUME Progress(r, t, k, k), Buffer(t, k), t.highBlock = k, t.voted = s.voted,
              t.curView \in Nat, t.curView >= k, y + 2 <= t.curView,
              t.votes = s.votes, t.dual = s.dual, t.waiting = NoQC
       PROVE  PipeInv'
  <2> HIDE DEF t, y, w
  <2>1. InStep(r, t, st) /\ t.voted = st[r].voted
    BY <1>10, <1>11 DEF InStep, s
  <2> QED BY <1>5, <1>7, <2>1, QuietStep
<1>12. CASE y + 1 = k
  <2> DEFINE e == processCertificate(r, free, Entry(k + 1))
  <2>1. w = Entry(k + 1)
    BY <1>2, <1>12
  <2>2. GetBlockByID(free, y) \/ w.view = 1
    <3>1. CASE k = 1
      BY <1>2, <1>8, <1>12, <3>1
    <3>2. CASE k # 1
      <4>1. y \in 1..k
        BY <1>2, <1>12, <3>2
      <4>2. y + 1 >= free.forest.lowest
        BY <1>2, <1>9, <1>12 DEF ForestAt
      <4> QED BY <1>2, <1>9, <4>1, <4>2, StoredIs DEF GetBlockByID
    <3> QED BY <3>1, <3>2
  <2>3. t = e
    BY <2>1, <2>2 DEF applyQC
  <2>4. /\ e.curView = k + 1 /\ AtView(e.highQC, e.preferredSeq, k + 1)
        /\ Rest(free, e) /\ BlockOf(free, e)
        /\ Leader(k + 1) = r =>
             e.newViews = Append(free.newViews, [view |-> k + 1, seq |-> k + 2, pt |-> NoTimeout])
    BY <1>2, <1>4, <1>7, <1>9, CertificateInStep
  <2> HIDE DEF e, t
  <2>5. e.newViews = <<[view |-> k + 1, seq |-> (k + 1) + 1, pt |-> NoTimeout]>>
    <3>1. (k + 1) + 1 = k + 2 /\ free.newViews = <<>>
      BY <1>2, <1>6
    <3> QED BY <1>2, <2>4, <3>1
  <2>6. Progress(r, e, k, k)
    <3>1. Announced(e.newViews, e.curView, k)
      BY <2>4, <2>5 DEF Announced
    <3>2. Signalled(r, e.proposeChan, e.curView, k)
      BY <1>6, <2>4 DEF Signalled, BlockOf
    <3>3. AtView(e.highQC, e.preferredSeq, e.curView)
      BY <2>4
    <3>4. /\ e.highBlock = k /\ ForestAt(e.forest, k, k) /\ e.voted = 1..k
          /\ e.committed = 1..(k - 6) /\ \A qc \in e.bufferedQCs : qc.block <= k
          /\ e.blocked = 0 /\ e.held = NoBlock /\ e.crashed = FALSE
      BY <1>1, <1>6, <2>4 DEF Progress, Rest, BlockOf, k
    <3> QED BY <1>2, <2>4, <3>1, <3>2, <3>3, <3>4 DEF Progress
  <2>7. Buffer(e, k) /\ e.votes = s.votes /\ e.dual = s.dual /\ e.waiting = NoQC
        /\ e.voted = s.voted /\ e.highBlock = k
    BY <1>1, <1>6, <2>4 DEF Buffer, Rest, BlockOf, k
  <2>8. t.curView \in Nat /\ t.curView >= k /\ y + 2 <= t.curView
    <3>1. t.curView = k + 1
      BY <2>3, <2>4
    <3> QED BY <1>2, <1>8, <3>1
  <2> QED BY <1>11, <2>3, <2>6, <2>7, <2>8
<1>13. CASE y + 1 # k
  <2>1. w.view < free.curView /\ y + 2 <= k
    BY <1>2, <1>6, <1>8, <1>13
  <2>2. processCertificate(r, free, w) = free
    BY <2>1 DEF processCertificate
  <2> DEFINE B == free.bufferedQCs \cup {w}
             e == [free EXCEPT !.bufferedQCs = B]
  <2>3. t = free \/ t = e
    BY <2>2 DEF applyQC
  <2>4. /\ e.bufferedQCs = B
        /\ e.curView = free.curView /\ e.newViews = free.newViews /\ e.highQC = free.highQC
        /\ e.highBlock = free.highBlock /\ e.preferredSeq = free.preferredSeq
        /\ e.forest = free.forest /\ e.bufferedBlocks = free.bufferedBlocks
        /\ e.proposeChan = free.proposeChan /\ e.waiting = free.waiting
        /\ e.recursive = free.recursive
        /\ e.blocked = free.blocked /\ e.held = free.held /\ e.votes = free.votes
        /\ e.dual = free.dual /\ e.received = free.received /\ e.voted = free.voted
        /\ e.committed = free.committed /\ e.crashed = free.crashed
    <3> HIDE DEF B
    <3> QED BY <1>4, BufferedFields
  <2>5. \A qc \in B : qc.block <= k
    <3>1. y <= k
      BY <1>2
    <3>2. \A qc \in free.bufferedQCs : qc.block <= k
      BY <1>1, <1>6 DEF Progress
    <3> QED BY <3>1, <3>2
  <2> HIDE DEF e, B, t
  <2>6. /\ t.curView = k /\ t.newViews = <<>> /\ t.highQC = s.highQC
        /\ t.highBlock = k /\ t.preferredSeq = s.preferredSeq /\ t.forest = s.forest
        /\ t.bufferedBlocks = s.bufferedBlocks /\ t.recursive = s.recursive
        /\ t.proposeChan = <<>> /\ t.waiting = NoQC /\ t.blocked = s.blocked /\ t.held = s.held
        /\ t.votes = s.votes /\ t.dual = s.dual /\ t.received = s.received /\ t.voted = s.voted
        /\ t.committed = s.committed /\ t.crashed = s.crashed
        /\ \A qc \in t.bufferedQCs : qc.block <= k
    <3>1. \A qc \in free.bufferedQCs : qc.block <= k
      BY <1>1, <1>6 DEF Progress
    <3>2. t = free \/ t = e
      BY <2>3
    <3> QED BY <1>2, <1>6, <2>4, <2>5, <3>1, <3>2 DEF k
  <2>7. Progress(r, t, k, k) /\ Buffer(t, k)
    BY <1>1, <1>2, <2>6 DEF Progress, Buffer, Announced, Signalled
  <2>8. t.curView >= k /\ y + 2 <= t.curView /\ t.curView \in Nat
    BY <1>2, <2>1, <2>6
  <2> QED BY <1>11, <2>6, <2>7, <2>8
<1> QED BY <1>12, <1>13

\* Taking an announcement changes the queue alone.
LEMMA QueueFields ==
  ASSUME NEW s \in ReplicaState, NEW Q
  PROVE  LET t == [s EXCEPT !.newViews = Q]
         IN  /\ t.newViews = Q
             /\ t.curView = s.curView /\ t.highQC = s.highQC
             /\ t.highBlock = s.highBlock /\ t.preferredSeq = s.preferredSeq
             /\ t.forest = s.forest /\ t.bufferedBlocks = s.bufferedBlocks
             /\ t.bufferedQCs = s.bufferedQCs
             /\ t.proposeChan = s.proposeChan /\ t.waiting = s.waiting /\ t.recursive = s.recursive
             /\ t.blocked = s.blocked /\ t.held = s.held /\ t.votes = s.votes
             /\ t.dual = s.dual /\ t.received = s.received /\ t.voted = s.voted
             /\ t.committed = s.committed /\ t.crashed = s.crashed
BY DEF ReplicaState

\* What the leader of the next view proposes.
LEMMA AnnouncedProposal ==
  ASSUME FaultFree, PipeInv, NEW r \in Node, MakeProposal(r)
  PROVE  LET s == st[r]
             k == s.highBlock
             t == [s EXCEPT !.newViews = <<>>]
             b == [view |-> k + 1, seq |-> k + 2, qc |-> Entry(k + 1), tc |-> NoTC, tcs |-> <<>>,
                   prev |-> k, nth |-> k]
         IN  /\ st' = [st EXCEPT ![r] = t] /\ tmos' = tmos
             /\ k \in Nat /\ s.curView = k + 1 /\ Proposed = 1..k /\ k + 1 \in View
             /\ block' = [block EXCEPT ![k + 1] = b]
<1> DEFINE s == st[r]
           k == s.highBlock
           t == [s EXCEPT !.newViews = <<>>]
           nv == [view |-> k + 1, seq |-> k + 2, pt |-> NoTimeout]
           b == [view |-> k + 1, seq |-> k + 2, qc |-> Entry(k + 1), tc |-> NoTC, tcs |-> <<>>,
                 prev |-> k, nth |-> 0]
           c == [view |-> k + 1, seq |-> k + 2, qc |-> Entry(k + 1), tc |-> NoTC, tcs |-> <<>>,
                 prev |-> k, nth |-> k]
<1>1. /\ s \in ReplicaState /\ GoodReplica(r, s) /\ Progress(r, s, k, k) /\ k \in Nat
      /\ s.newViews # <<>> /\ Head(s.newViews).view <= MaxView /\ tmos' = tmos
  BY StartsInStep, HighestAdded DEF InStep, MakeProposal, CanMakeProposal
<1>2. s.curView = k + 1 /\ s.newViews = <<nv>> /\ s.highQC = Entry(k + 1)
  <2>1. s.curView = k + 1
        /\ s.newViews = <<[view |-> s.curView, seq |-> s.curView + 1, pt |-> NoTimeout]>>
    BY <1>1 DEF Progress, Announced
  <2>2. s.highQC = Entry(s.curView)
    BY <1>1 DEF Progress, AtView
  <2>3. s.curView + 1 = k + 2
    BY <1>1, <2>1
  <2> QED BY <2>1, <2>2, <2>3
<1>3. Head(s.newViews) = nv /\ Tail(s.newViews) = <<>> /\ Len(s.newViews) = 1
      /\ s.newViews[1] = nv
  BY <1>2
<1>4. nv.view = k + 1 /\ nv.seq = k + 2 /\ nv.pt = NoTimeout /\ nv.pt # TimeoutF /\ nv.pt # TimeoutS
  BY DEF NoTimeout, TimeoutF, TimeoutS
<1> HIDE DEF nv
<1>5. Proposed = 1..k
  <2>1. \A v \in Proposed : Leader(v) = r => v < nv.view
    <3>1. 1 \in 1..Len(s.newViews)
      BY <1>3
    <3> QED BY <1>1, <1>3, <3>1 DEF GoodReplica, Sound, GoodQueue
  <2>2. Leader(k + 1) = r
    <3>1. s.curView # k
      BY <1>1, <1>2
    <3> QED BY <1>1, <3>1 DEF Progress
  <2>3. k + 1 \notin Proposed
    BY <1>1, <1>4, <2>1, <2>2
  <2> QED BY <2>3, NothingLater
<1>6. k + 1 \in View
  BY <1>1, <1>3, <1>4, MaxViewNat DEF View
<1>7. proposal(s, nv) = b
  BY <1>2, <1>4 DEF proposal
<1>8. afterProposal([s EXCEPT !.newViews = Tail(s.newViews)], nv) = t
  BY <1>3, <1>4 DEF afterProposal
<1>9. publish(b) = [block EXCEPT ![k + 1] = c]
  <2>1. Cardinality({v \in View : block[v] # NoBlock}) = k
    <3>1. {v \in View : block[v] # NoBlock} = 1..k
      BY <1>5 DEF Proposed
    <3>2. Cardinality(1..k) = k
      BY <1>1, FS_Interval
    <3> QED BY <3>1, <3>2
  <2>2. [b EXCEPT !.nth = k] = c /\ b.view = k + 1
    OBVIOUS
  <2> HIDE DEF b, c, k
  <2> QED BY <2>1, <2>2 DEF publish
<1> HIDE DEF b, c, t, k
<1>10. st' = [st EXCEPT ![r] = t] /\ block' = publish(b)
  <2>1. nv.pt # TimeoutF /\ Head(st[r].newViews) = nv
    BY <1>3, <1>4
  <2> QED BY <1>7, <1>8, <2>1 DEF MakeProposal
<1> QED BY <1>1, <1>2, <1>5, <1>6, <1>9, <1>10 DEF t, c, k

\* A leader proposes the next block.
LEMMA MakeProposalInStep ==
  ASSUME FaultFree, PipeInv, IInv', NEW r \in Node, MakeProposal(r)
  PROVE  PipeInv'
<1> DEFINE s == st[r]
           k == s.highBlock
           t == [s EXCEPT !.newViews = <<>>]
           n == k + 1
           b == [view |-> n, seq |-> k + 2, qc |-> Entry(n), tc |-> NoTC, tcs |-> <<>>,
                 prev |-> k, nth |-> k]
<1>1. /\ st' = [st EXCEPT ![r] = t] /\ tmos' = tmos
      /\ k \in Nat /\ s.curView = k + 1 /\ Proposed = 1..k /\ n \in View
      /\ block' = [block EXCEPT ![n] = b]
  BY AnnouncedProposal
<1>2. /\ s \in ReplicaState /\ Progress(r, s, k, k) /\ Buffer(s, k)
      /\ Collected(r, s.curView, s.votes, s.dual, s.waiting, st)
  BY StartsInStep DEF InStep
<1>3. /\ t.newViews = <<>>
      /\ t.curView = s.curView /\ t.highQC = s.highQC
      /\ t.highBlock = s.highBlock /\ t.preferredSeq = s.preferredSeq
      /\ t.forest = s.forest /\ t.bufferedBlocks = s.bufferedBlocks
      /\ t.bufferedQCs = s.bufferedQCs
      /\ t.proposeChan = s.proposeChan /\ t.waiting = s.waiting /\ t.recursive = s.recursive
      /\ t.blocked = s.blocked /\ t.held = s.held /\ t.votes = s.votes
      /\ t.dual = s.dual /\ t.received = s.received /\ t.voted = s.voted
      /\ t.committed = s.committed /\ t.crashed = s.crashed
  <2> DEFINE Q == <<>>
  <2>1. t = [s EXCEPT !.newViews = Q]
    OBVIOUS
  <2> HIDE DEF s
  <2> QED BY <1>2, QueueFields
<1>4. b.view = n /\ b.seq = k + 2 /\ b.qc = Entry(n) /\ b.tc = NoTC /\ b.tcs = <<>>
      /\ b.prev = k /\ b.nth = k
  OBVIOUS
<1>5. n \in Nat /\ n # 0 /\ n - 1 = k /\ n + 1 = k + 2 /\ (1..k) \cup {n} = 1..n
  BY <1>1
<1> HIDE DEF b, t, n
<1>6. InStep(r, t, st) /\ t.voted = st[r].voted
  <2>1. Progress(r, t, k, k) /\ Buffer(t, k)
    <3> HIDE DEF k, s
    <3> QED BY <1>2, <1>3 DEF Progress, Buffer, Announced
  <2> HIDE DEF k
  <2> QED BY <1>2, <1>3, <2>1 DEF InStep, k
<1>7. PipeBlocks'
  <2>1. block \in [View -> Block \cup {NoBlock}]
    BY StartsInStep DEF GoodBlocks
  <2>2. block'[n] = b /\ \A v \in View : v # n => block'[v] = block[v]
    BY <1>1, <2>1
  <2>3. b # NoBlock
    <3>1. b.view # NoBlock.view
      BY <1>4, <1>5 DEF NoBlock
    <3> QED BY <3>1
  <2>4. Proposed' = 1..n
    <3>1. Proposed' = Proposed \cup {n}
      BY <1>1, <2>2, <2>3 DEF Proposed
    <3> QED BY <1>1, <1>5, <3>1
  <2>5. ASSUME NEW v \in 1..n PROVE PipeBlock(v)'
    <3>1. CASE v = n
      <4>1. block'[v] = b
        BY <2>2, <3>1
      <4> QED BY <1>4, <1>5, <3>1, <4>1 DEF PipeBlock
    <3>2. CASE v # n
      <4>1. v \in 1..k
        BY <1>1, <1>5, <3>2 DEF n
      <4>2. v \in Proposed /\ v \in View
        BY <1>1, <4>1 DEF Proposed
      <4>3. PipeBlock(v) /\ block'[v] = block[v]
        BY <2>2, <3>2, <4>2 DEF PipeInv, PipeBlocks
      <4> QED BY <4>3 DEF PipeBlock
    <3> QED BY <3>1, <3>2
  <2>6. \A v \in 1..n : 1..v \subseteq 1..n
    BY <1>5
  <2> QED BY <2>4, <2>5, <2>6 DEF PipeBlocks
<1>8. tmos' = {}
  BY <1>1 DEF PipeInv
<1> QED BY <1>1, <1>6, <1>7, <1>8, QuietStep

-----------------------------------------------------------------------------
(* The invariant holds *)

LEMMA PipeInit ==
  ASSUME Init
  PROVE  PipeInv
<1>1. IInv /\ tmos = {} /\ Proposed = {}
  BY InitGood DEF Init, Proposed
<1>2. PICK s : s = InitReplica
  OBVIOUS
<1>3. /\ s.curView = 0 /\ s.newViews = <<>> /\ s.highQC = GenesisQC /\ s.highBlock = 0
      /\ s.preferredSeq = 0 /\ s.forest = NewLevelledForest
      /\ s.bufferedBlocks = {} /\ s.bufferedQCs = {} /\ s.recursive = 0 /\ s.blocked = 0
      /\ s.votes = {} /\ s.dual = {} /\ s.waiting = NoQC
      /\ s.proposeChan = <<>> /\ s.held = NoBlock
      /\ s.received = {} /\ s.voted = {} /\ s.committed = {} /\ s.crashed = FALSE
  BY <1>2 DEF InitReplica
<1>4. st = [r \in Node |-> s]
  BY <1>2 DEF Init
<1>5. ASSUME NEW r \in Node PROVE InStep(r, s, st)
  <2>1. ForestAt(s.forest, 0, 0)
    <3>1. NewLevelledForest.vertices = {} /\ NewLevelledForest.lowest = 0
      BY DEF NewLevelledForest
    <3> QED BY <1>3, <3>1 DEF ForestAt
  <2>2. 1..0 = {} /\ 1..(0 - 6) = {}
    OBVIOUS
  <2>3. AtView(s.highQC, s.preferredSeq, 0)
    BY <1>3 DEF AtView, Entry
  <2>4. Progress(r, s, 0, 0)
    BY <1>3, <2>1, <2>2, <2>3 DEF Progress, Announced, Signalled
  <2>5. Buffer(s, 0)
    BY <1>3, <2>2 DEF Buffer
  <2>6. \A v : ~ superMajority(Voters(s.votes, v))
    <3> SUFFICES ASSUME NEW v PROVE ~ superMajority(Voters(s.votes, v))
      OBVIOUS
    <3>1. Voters(s.votes, v) = {}
      BY <1>3 DEF Voters
    <3>2. Cardinality(Voters(s.votes, v)) = 0
      BY <3>1, FS_EmptySet
    <3>3. Cardinality(Node) \in Nat
      BY NodeFinite, FS_CardinalityType
    <3> QED BY <3>2, <3>3 DEF superMajority
  <2>7. \A q \in Node : st[q].voted = {}
    BY <1>3, <1>4
  <2>8. Collected(r, 0, s.votes, s.dual, s.waiting, st)
    BY <1>3, <2>6, <2>7 DEF Collected
  <2> QED BY <1>3, <2>4, <2>5, <2>8 DEF InStep
<1>6. InSteps
  BY <1>4, <1>5 DEF InSteps
<1> QED BY <1>1, <1>6 DEF PipeInv, PipeBlocks

LEMMA PipeNext ==
  ASSUME FaultFree, PipeInv, [Next]_vars
  PROVE  PipeInv'
<1>1. IInv'
  BY NextGood DEF PipeInv
<1>2. CASE UNCHANGED vars
  <2>1. st' = st /\ block' = block /\ tmos' = tmos
    BY <1>2 DEF vars
  <2> QED BY <1>1, <2>1 DEF PipeInv, PipeBlocks, PipeBlock, Proposed, InSteps
<1>3. CASE Next
  <2>1. PICK r \in Node : \/ Step(r)
                          \/ ProcessLocalTmo(r)
                          \/ \E tmo \in tmos : ProcessRemoteTmo(r, tmo)
    BY <1>3 DEF Next
  <2>2. Step(r) /\ ~ ResumeBlock(r) /\ ~ ResumeProposal(r)
    BY <2>1, NothingHeld
  <2>3. CASE KickOff(r)
    BY <1>1, <2>3, KickOffInStep
  <2>4. CASE \E v \in View : ProcessBlock(r, v)
    BY <1>1, <2>4, ProcessBlockInStep
  <2>5. CASE ProcessBufferedBlock(r)
    BY <1>1, <2>5, ProcessBufferedInStep
  <2>6. CASE \E vote \in st[r].dual : ProcessVote(r, vote)
    BY <1>1, <2>6, ProcessVoteInStep
  <2>7. CASE ReceiveSignal(r)
    BY <1>1, <2>7, ReceiveSignalInStep
  <2>8. CASE MakeProposal(r)
    BY <1>1, <2>8, MakeProposalInStep
  <2> QED BY <2>2, <2>3, <2>4, <2>5, <2>6, <2>7, <2>8 DEF Step
<1> QED BY <1>2, <1>3

\* Without faults all replicas go through the views in step, whatever the
\* order in which their loops run and messages of different links arrive.
THEOREM LockStep == FaultFree => (Spec => []PipeInv)
<1> SUFFICES ASSUME FaultFree PROVE Spec => []PipeInv
  OBVIOUS
<1>1. Init => PipeInv
  BY PipeInit
<1>2. PipeInv /\ [Next]_vars => PipeInv'
  BY PipeNext
<1> QED BY <1>1, <1>2, PTL DEF Spec

-----------------------------------------------------------------------------
(* What it implies *)

\* The two pipelines take turns: a block extends the one before it and certifies
\* the one before that (mhotstuff.go ProcessBlock, ProcessVote, MakeProposal).
THEOREM PipelinesTakeTurns == FaultFree => (Spec => []PipelinesAlternate)
<1> SUFFICES ASSUME FaultFree PROVE Spec => []PipelinesAlternate
  OBVIOUS
<1>1. PipeInv => PipelinesAlternate
  <2> SUFFICES ASSUME PipeInv, NEW v \in Proposed
               PROVE  block[v].prev = v - 1 /\ block[v].qc.block = (IF v <= 2 THEN 0 ELSE v - 2)
    BY DEF PipelinesAlternate
  <2>1. PipeBlock(v) /\ v \in Nat /\ v # 0
    BY MaxViewNat DEF PipeInv, PipeBlocks, Proposed, View
  <2>2. Entry(v).block = Back(v)
    BY <2>1 DEF Entry
  <2> QED BY <2>1, <2>2 DEF PipeBlock, Back
<1> QED BY <1>1, LockStep, PTL

\* The walk of PruneUpToLevel ends: it never meets the vertex that is missing
\* after an earlier pruning (leveled_forrest.go PruneUpToLevel, blockchain.go
\* CommitBlock).
THEOREM PruningEnds == FaultFree => (Spec => []PruneTerminates)
<1> SUFFICES ASSUME FaultFree PROVE Spec => []PruneTerminates
  OBVIOUS
<1>1. PipeInv => PruneTerminates
  BY StartsInStep DEF PruneTerminates, InStep, Progress
<1> QED BY <1>1, LockStep, PTL

\* The voters for the second last block are in its view, and so locked on the one
\* that is committed.
LEMMA LockedInStep ==
  ASSUME PipeInv, NEW r \in Node, st[r].forest.lowest # 0
  PROVE  superMajority({q \in Node : st[q].preferredSeq >= st[r].forest.lowest})
<1> DEFINE k == st[r].highBlock
           l == st[r].forest.lowest
           L == {q \in Node : st[q].preferredSeq >= l}
           V == {q \in Node : k - 2 \in st[q].voted}
<1>1. k \in Nat /\ 1..k \subseteq Proposed
  BY HighestAdded
<1>2. k >= 7 /\ l = k - 5
  BY StartsInStep DEF InStep, Progress, ForestAt
<1> HIDE DEF k, l
<1>3. k \in Proposed /\ k - 2 # 0
  BY <1>1, <1>2
<1>4. block[k].qc = Entry(k) /\ ValidQC(block[k].qc)
  BY <1>3, StartsInStep DEF PipeInv, PipeBlocks, PipeBlock, GoodBlocks, GoodBlock
<1>5. Entry(k).block = k - 2
  <2>1. k # 0 /\ ~ (k <= 2)
    BY <1>1, <1>2
  <2>2. Back(k) = k - 2
    BY <2>1 DEF Back
  <2> QED BY <2>1, <2>2 DEF Entry
<1>6. superMajority(V)
  BY <1>3, <1>4, <1>5 DEF ValidQC, Certified
<1>7. V \subseteq L
  <2> SUFFICES ASSUME NEW q \in Node, k - 2 \in st[q].voted PROVE st[q].preferredSeq >= l
    OBVIOUS
  <2>1. /\ Progress(q, st[q], st[q].highBlock, st[q].highBlock) /\ st[q].highBlock \in Nat
    BY StartsInStep, HighestAdded DEF InStep
  <2>2. k - 2 <= st[q].highBlock
    BY <1>1, <2>1 DEF Progress
  <2>3. st[q].curView \in Nat /\ st[q].curView >= k - 2
    BY <1>1, <2>1, <2>2 DEF Progress
  <2>4. st[q].preferredSeq = st[q].curView - 3
    <3>1. st[q].curView >= 5
      BY <1>1, <1>2, <2>3
    <3> QED BY <2>1, <3>1 DEF Progress, AtView
  <2> QED BY <1>1, <1>2, <2>3, <2>4
<1> QED BY <1>6, <1>7, SuperMajorityGrows DEF L, l

\* What is committed is locked by a supermajority (mhotstuff.go
\* updatePreferredSeq, votingRule and commitRule).
THEOREM CommitsLocked == FaultFree => (Spec => []CommitLocked)
<1> SUFFICES ASSUME FaultFree PROVE Spec => []CommitLocked
  OBVIOUS
<1>1. PipeInv => CommitLocked
  BY LockedInStep DEF CommitLocked
<1> QED BY <1>1, LockStep, PTL

-----------------------------------------------------------------------------
(* The chain *)

\* A function on 0..n that starts and goes on like another one.
LEMMA SameOn ==
  ASSUME NEW n \in Nat, NEW f, NEW g, f[0] = g[0],
         \A i \in 1..n : f[i - 1] = g[i - 1] => f[i] = g[i]
  PROVE  \A i \in 0..n : f[i] = g[i]
<1> DEFINE T == {i \in 0..n : f[i] # g[i]}
<1>1. T \subseteq Nat
  OBVIOUS
<1> SUFFICES ASSUME T # {} PROVE FALSE
  OBVIOUS
<1>2. PICK i \in T : \A m \in T : ~ (m < i)
  BY <1>1, LeastNat
<1>3. i \in 1..n /\ i - 1 \in 0..n /\ i - 1 < i
  BY <1>2
<1>4. i - 1 \notin T
  BY <1>2, <1>3
<1>5. f[i - 1] = g[i - 1]
  BY <1>3, <1>4
<1> QED BY <1>2, <1>3, <1>5

\* The ancestors of a block are the blocks up to it.
LEMMA AncestorsIs ==
  ASSUME PipeInv
  PROVE  \A v \in Proposed : Ancestors[v] = 1..v
<1> DEFINE h == [v \in Id |-> IF v \in Proposed THEN 1..v ELSE {}]
           below[v \in Id] == IF v \in Proposed THEN {v} \cup below[block[v].prev] ELSE {}
<1>1. /\ \A v \in Proposed : v \in Nat /\ v >= 1 /\ v \in Id /\ block[v].prev = v - 1
      /\ \A v \in Proposed : 1..v \subseteq Proposed
      /\ 0 \notin Proposed /\ 0 \in Id
  BY MaxViewNat DEF PipeInv, PipeBlocks, PipeBlock, Proposed, View, Id
<1>2. \A v \in Proposed : v - 1 \in Id /\ (v - 1 = 0 \/ v - 1 \in Proposed)
  <2> SUFFICES ASSUME NEW v \in Proposed PROVE v - 1 \in Id /\ (v - 1 = 0 \/ v - 1 \in Proposed)
    OBVIOUS
  <2>1. v - 1 = 0 \/ v - 1 \in 1..v
    BY <1>1
  <2>2. v - 1 = 0 \/ v - 1 \in Proposed
    BY <1>1, <2>1
  <2> QED BY <1>1, <2>2
<1>3. \A v \in Proposed : h[v] = {v} \cup h[v - 1] /\ h[v] = 1..v
  <2> SUFFICES ASSUME NEW v \in Proposed PROVE h[v] = {v} \cup h[v - 1] /\ h[v] = 1..v
    OBVIOUS
  <2>1. h[v] = 1..v
    BY <1>1
  <2>2. h[v - 1] = 1..(v - 1)
    <3>1. CASE v - 1 = 0
      BY <1>1, <3>1
    <3>2. CASE v - 1 \in Proposed
      BY <1>2, <3>2
    <3> QED BY <1>2, <3>1, <3>2
  <2>3. 1..v = {v} \cup 1..(v - 1)
    BY <1>1
  <2> HIDE DEF h
  <2> QED BY <2>1, <2>2, <2>3
<1>4. h = [v \in Id |-> IF v \in Proposed THEN {v} \cup h[block[v].prev] ELSE {}]
  <2>1. ASSUME NEW v \in Id
        PROVE  h[v] = IF v \in Proposed THEN {v} \cup h[block[v].prev] ELSE {}
    <3>1. CASE v \in Proposed
      <4> HIDE DEF h
      <4> QED BY <1>1, <1>3, <3>1
    <3>2. CASE v \notin Proposed
      BY <3>2
    <3> QED BY <3>1, <3>2
  <2> QED BY <2>1
<1> HIDE DEF h
<1>5. below = [v \in Id |-> IF v \in Proposed THEN {v} \cup below[block[v].prev] ELSE {}]
  BY <1>4
<1>6. Ancestors = [v \in {0} \cup Proposed |-> below[v]]
  BY DEF Ancestors
<1> HIDE DEF below
<1>7. below[0] = {} /\ h[0] = {}
  BY <1>1, <1>4, <1>5
<1>8. ASSUME NEW v \in Proposed PROVE below[v] = h[v]
  <2>1. \A i \in 1..v : i \in Proposed /\ i \in Id /\ block[i].prev = i - 1
    BY <1>1
  <2>2. \A i \in 1..v : below[i] = {i} \cup below[i - 1] /\ h[i] = {i} \cup h[i - 1]
    BY <1>4, <1>5, <2>1
  <2>3. \A i \in 0..v : below[i] = h[i]
    <3>1. \A i \in 1..v : below[i - 1] = h[i - 1] => below[i] = h[i]
      BY <2>2
    <3>2. below[0] = h[0] /\ v \in Nat
      BY <1>1, <1>7
    <3> QED BY <3>1, <3>2, SameOn
  <2> QED BY <1>1, <2>3
<1> QED BY <1>3, <1>6, <1>8

\* A replica commits the blocks up to one.
LEMMA CommittedInStep ==
  ASSUME PipeInv, NEW r \in Node
  PROVE  /\ st[r].committed = 1..(st[r].highBlock - 6) /\ st[r].highBlock \in Nat
         /\ st[r].committed \subseteq Proposed
<1>1. st[r].committed = 1..(st[r].highBlock - 6)
  BY StartsInStep DEF InStep, Progress
<1>2. st[r].highBlock \in Nat /\ 1..(st[r].highBlock) \subseteq Proposed
  BY HighestAdded
<1> QED BY <1>1, <1>2

\* Of two committed blocks one is an ancestor of the other (blockchain.go
\* CommitBlock, mhotstuff.go commitRule).
THEOREM CommitsAgree == FaultFree => (Spec => []Agreement)
<1> SUFFICES ASSUME FaultFree PROVE Spec => []Agreement
  OBVIOUS
<1>1. PipeInv => Agreement
  <2> SUFFICES ASSUME PipeInv, NEW r \in Node, NEW q \in Node,
                      NEW x \in st[r].committed, NEW y \in st[q].committed
               PROVE  x \in Ancestors[y] \/ y \in Ancestors[x]
    BY DEF Agreement
  <2>1. x \in Proposed /\ y \in Proposed
    BY CommittedInStep
  <2>2. Ancestors[x] = 1..x /\ Ancestors[y] = 1..y
    BY <2>1, AncestorsIs
  <2>3. x \in Nat /\ x >= 1 /\ y \in Nat /\ y >= 1
    BY <2>1, MaxViewNat DEF Proposed, View
  <2> QED BY <2>2, <2>3
<1> QED BY <1>1, LockStep, PTL

\* A replica commits no block without the ones before it: the walk of CommitBlock
\* (blockchain.go) stops at the last committed block and nowhere above it.
THEOREM CommitsHaveNoHoles == FaultFree => (Spec => []CommittedPrefix)
<1> SUFFICES ASSUME FaultFree PROVE Spec => []CommittedPrefix
  OBVIOUS
<1>1. PipeInv => CommittedPrefix
  <2> SUFFICES ASSUME PipeInv, NEW r \in Node, NEW v \in st[r].committed
               PROVE  Ancestors[v] \subseteq st[r].committed
    BY DEF CommittedPrefix
  <2>1. v \in Proposed /\ st[r].committed = 1..(st[r].highBlock - 6) /\ st[r].highBlock \in Nat
    BY CommittedInStep
  <2>2. Ancestors[v] = 1..v
    BY <2>1, AncestorsIs
  <2> QED BY <2>1, <2>2
<1> QED BY <1>1, LockStep, PTL

-----------------------------------------------------------------------------
(* The Ledger *)

Upto(n) == [i \in 1..n |-> i]

\* What was committed up to a block, in order.
LEMMA InOrderIs ==
  ASSUME NEW n \in Nat
  PROVE  InOrder(1..n) = Upto(n)
<1>1. Cardinality(1..n) = n
  BY FS_Interval
<1>2. ASSUME NEW v \in 1..n PROVE Cardinality({u \in 1..n : u < v}) = v - 1
  <2>1. {u \in 1..n : u < v} = 1..(v - 1)
    OBVIOUS
  <2>2. v - 1 \in Nat
    OBVIOUS
  <2>3. Cardinality(1..(v - 1)) = v - 1
    BY <2>2, FS_Interval
  <2> QED BY <2>1, <2>3
<1>3. ASSUME NEW i \in 1..n
      PROVE  (CHOOSE v \in 1..n : Cardinality({u \in 1..n : u < v}) = i - 1) = i
  <2>1. \A v \in 1..n : Cardinality({u \in 1..n : u < v}) = i - 1 <=> v = i
    BY <1>2
  <2> QED BY <2>1
<1> QED BY <1>1, <1>3 DEF InOrder, Upto

\* Its parts.
LEMMA UptoParts ==
  ASSUME NEW a \in Nat, NEW b \in Nat, a <= b
  PROVE  /\ Upto(b) \in Seq(Nat) /\ Len(Upto(b)) = b /\ Len(Upto(a)) = a
         /\ SubSeq(Upto(b), 1, a) = Upto(a)
         /\ Upto(a) \o SubSeq(Upto(b), a + 1, b) = Upto(b)
         /\ a < b => SubSeq(Upto(b), a + 1, b) # <<>>
         /\ b <= MaxView => SubSeq(Upto(b), a + 1, b) \in Seq(View)
<1> DEFINE S == SubSeq(Upto(b), a + 1, b)
<1>1. Upto(b) \in Seq(Nat) /\ Len(Upto(b)) = b /\ Upto(a) \in Seq(Nat) /\ Len(Upto(a)) = a
  BY DEF Upto
<1>2. SubSeq(Upto(b), 1, a) = Upto(a)
  BY DEF Upto
<1>3. S = [i \in 1..(b - a) |-> a + i] /\ S \in Seq(Nat) /\ Len(S) = b - a
  BY DEF Upto
<1>4. Upto(a) \o S = Upto(b)
  <2>pick. PICK c, s, t : c = s \o t /\ s = Upto(a) /\ t = S
    OBVIOUS
  <2> HIDE DEF S
  <2>0. s \in Seq(Nat) /\ Len(s) = a /\ t \in Seq(Nat) /\ Len(t) = b - a
    BY <1>1, <1>3, <2>pick
  <2>1. /\ c \in Seq(Nat) /\ Len(c) = Len(s) + Len(t)
        /\ \A i \in 1..(Len(s) + Len(t)) : c[i] = IF i <= Len(s) THEN s[i] ELSE t[i - Len(s)]
    BY <2>pick, <2>0, ConcatProperties
  <2>2. Len(c) = b /\ \A i \in 1..b : c[i] = IF i <= a THEN s[i] ELSE t[i - a]
    BY <2>0, <2>1
  <2>3. ASSUME NEW i \in 1..b PROVE c[i] = i
    <3>1. CASE i <= a
      BY <2>2, <2>pick, <3>1 DEF Upto
    <3>2. CASE ~ (i <= a)
      <4>1. i - a \in 1..(b - a) /\ a + (i - a) = i
        BY <3>2
      <4>2. t[i - a] = a + (i - a)
        BY <1>3, <2>pick, <4>1
      <4> QED BY <2>2, <3>2, <4>1, <4>2
    <3> QED BY <3>1, <3>2
  <2>4. c = [i \in 1..b |-> i]
    <3>1. c = [i \in 1..Len(c) |-> c[i]]
      BY <2>1
    <3> QED BY <2>2, <2>3, <3>1
  <2> QED BY <2>4, <2>pick DEF Upto
<1>5. a < b => S # <<>>
  <2> HIDE DEF S
  <2>1. Len(S) = b - a
    BY <1>3
  <2> QED BY <2>1, EmptySeq
<1>6. b <= MaxView => S \in Seq(View)
  <2> SUFFICES ASSUME b <= MaxView PROVE S \in Seq(View)
    OBVIOUS
  <2> HIDE DEF S
  <2>1. \A i \in 1..(b - a) : a + i \in View
    BY MaxViewNat DEF View
  <2>2. S \in [1..(b - a) -> View] /\ b - a \in Nat
    BY <1>3, <2>1
  <2> QED BY <2>2
<1> QED BY <1>1, <1>2, <1>4, <1>5, <1>6

\* A step adds to the votes of one replica alone.
LEMMA OneVotes ==
  ASSUME st \in [Node -> ReplicaState], [Next]_vars, tmos = {}
  PROVE  st' = st \/ \E r \in Node : \A q \in Node : q # r => st'[q].voted = st[q].voted
<1>1. ASSUME NEW r \in Node, NEW t, st' = [st EXCEPT ![r] = t]
      PROVE  \A q \in Node : q # r => st'[q].voted = st[q].voted
  BY <1>1
<1>2. ASSUME NEW r \in Node, NEW t, NEW v, st' = HandleVote([st EXCEPT ![r] = t], r, v)
      PROVE  \A q \in Node : q # r => st'[q].voted = st[q].voted
  <2>pick. PICK all, a, x : /\ all = [st EXCEPT ![r] = t] /\ a = Leader(v + 2)
                            /\ x = all[a].dual \cup {<<r, v, Cardinality(all[r].voted)>>}
    OBVIOUS
  <2>1. /\ \A q \in Node : q # r => all[q] = st[q] /\ st[q] \in ReplicaState
        /\ DOMAIN all = Node
    BY <2>pick
  <2>2. st' = all \/ st' = [all EXCEPT ![a] = [@ EXCEPT !.dual = x]]
    BY <1>2, <2>pick DEF HandleVote
  <2>3. ASSUME NEW s \in ReplicaState PROVE [s EXCEPT !.dual = x].voted = s.voted
    BY DEF ReplicaState
  <2>4. ASSUME NEW q \in Node, q # r PROVE st'[q].voted = all[q].voted
    BY <2>1, <2>2, <2>3, <2>4
  <2> QED BY <2>1, <2>4
<1>3. CASE UNCHANGED vars
  BY <1>3 DEF vars
<1>4. CASE Next
  <2>1. PICK r \in Node : Step(r) \/ ProcessLocalTmo(r)
    BY <1>4 DEF Next
  <2>2. \/ \E t : st' = [st EXCEPT ![r] = t]
        \/ \E t, v : st' = HandleVote([st EXCEPT ![r] = t], r, v)
        \/ st' = st
    BY <2>1 DEF Step, KickOff, ProcessBlock, ProcessBufferedBlock, ResumeBlock, ProcessVote,
                ReceiveSignal, MakeProposal, ResumeProposal, ProcessLocalTmo
  <2> QED BY <1>1, <1>2, <2>2
<1> QED BY <1>3, <1>4

\* What each replica has committed, and what any has.
CommittedParts ==
  /\ \A r \in Node : \E k \in 0..MaxView : st[r].voted = 1..k /\ st[r].committed = 1..(k - 6)
  /\ \E m \in 0..MaxView : UNION {st[r].committed : r \in Node} = 1..m

LEMMA PartsInStep ==
  ASSUME PipeInv
  PROVE  CommittedParts
<1>1. ASSUME NEW r \in Node
      PROVE  \E k \in 0..MaxView : st[r].voted = 1..k /\ st[r].committed = 1..(k - 6)
  <2>1. st[r] \in ReplicaState /\ Progress(r, st[r], st[r].highBlock, st[r].highBlock)
    BY StartsInStep DEF InStep
  <2>2. st[r].highBlock \in 0..MaxView
    BY <2>1, MaxViewNat DEF ReplicaState, Id
  <2> QED BY <2>1, <2>2 DEF Progress
<1> DEFINE U == UNION {st[r].committed : r \in Node}
           T == {n \in Nat : n + 1 \notin U}
<1>2. ASSUME NEW u \in U PROVE u \in 1..MaxView /\ 1..u \subseteq U
  <2>1. PICK r \in Node : u \in st[r].committed
    OBVIOUS
  <2>2. PICK k \in 0..MaxView : st[r].committed = 1..(k - 6)
    BY <1>1
  <2>3. u \in 1..(k - 6) /\ 1..u \subseteq st[r].committed
    BY <2>1, <2>2
  <2> QED BY <2>2, <2>3, MaxViewNat
<1> HIDE DEF U
<1>3. T \subseteq Nat /\ MaxView \in T
  BY <1>2, MaxViewNat
<1>4. PICK m \in T : \A y \in T : ~ (y < m)
  BY <1>3, LeastNat
<1>5. ASSUME NEW u \in 1..m PROVE u \in U
  <2>1. u - 1 \in Nat /\ u - 1 < m /\ (u - 1) + 1 = u /\ m \in Nat
    BY <1>3, <1>4
  <2> QED BY <1>4, <2>1
<1>6. ASSUME NEW u \in U PROVE u \in 1..m
  <2>1. u \in Nat /\ u >= 1 /\ m \in Nat
    BY <1>2, <1>3, <1>4
  <2>2. m + 1 \notin 1..u
    BY <1>2, <1>4
  <2> QED BY <2>1, <2>2
<1>7. m \in 0..MaxView
  BY <1>3, <1>4, MaxViewNat
<1> QED BY <1>1, <1>5, <1>6, <1>7 DEF CommittedParts, U

\* The order of the committed blocks is that of their views.
LEMMA LogIsUpto ==
  ASSUME NEW S, NEW n \in Int, S = 1..n
  PROVE  \E k \in Nat : InOrder(S) = Upto(k) /\ k = IF n > 0 THEN n ELSE 0
<1>1. CASE n > 0
  BY <1>1, InOrderIs
<1>2. CASE ~ (n > 0)
  <2>1. S = 1..0 /\ 0 \in Nat
    BY <1>2
  <2> QED BY <1>2, <2>1, InOrderIs
<1> QED BY <1>1, <1>2

\* One replica delivers, or none does.
LEMMA StepDelivers ==
  ASSUME NEW d \in Nat, NEW e \in Nat, NEW m \in Nat, NEW n \in Nat, NEW r \in Node,
         DeliveredLog[r] = Upto(d), DeliveredLog'[r] = Upto(e), d < e, e <= MaxView,
         \A q \in Node : q # r => DeliveredLog'[q] = DeliveredLog[q],
         Log = Upto(m), Log' = Upto(n), d <= m, n = IF e > m THEN e ELSE m
  PROVE  Promise!Next
<1>pick. PICK S : S = SubSeq(Upto(e), d + 1, e)
  OBVIOUS
<1>0. d <= e
  OBVIOUS
<1>1. /\ S # <<>> /\ S \in Seq(View) /\ Upto(d) \o S = Upto(e)
      /\ Len(Upto(d)) = d /\ Len(Upto(e)) = e
  BY <1>pick, <1>0, UptoParts
<1>2. Promise!Delivered(r) = S
  BY <1>pick, <1>1 DEF Promise!Delivered
<1>3. DeliveredLog' = [DeliveredLog EXCEPT ![r] = @ \o S]
  <2>1. DeliveredLog = [q \in Node |-> DeliveredLog[q]] /\ DeliveredLog' = [q \in Node |-> DeliveredLog'[q]]
    BY DEF DeliveredLog
  <2> HIDE DEF DeliveredLog
  <2> QED BY <1>1, <2>1
<1>4. \/ Promise!Prefix(DeliveredLog'[r], Log) /\ Log' = Log
      \/ Promise!Prefix(Log, DeliveredLog'[r]) /\ Log' = DeliveredLog'[r]
  <2>1. CASE e > m
    <3>0. m <= e
      BY <2>1
    <3>1. Len(Upto(m)) = m /\ Len(Upto(e)) = e /\ SubSeq(Upto(e), 1, m) = Upto(m)
      BY <3>0, UptoParts
    <3>2. Promise!Prefix(Log, DeliveredLog'[r])
      BY <3>0, <3>1 DEF Promise!Prefix
    <3> QED BY <2>1, <3>2
  <2>2. CASE ~ (e > m)
    <3>1. e <= m
      BY <2>2
    <3>2. Len(Upto(m)) = m /\ Len(Upto(e)) = e /\ SubSeq(Upto(m), 1, e) = Upto(e)
      BY <3>1, UptoParts
    <3>3. Promise!Prefix(DeliveredLog'[r], Log)
      BY <3>1, <3>2 DEF Promise!Prefix
    <3> QED BY <2>2, <3>3
  <2> QED BY <2>1, <2>2
<1>5. Promise!Deliver(r, S)
  BY <1>1, <1>3, <1>4 DEF Promise!Deliver
<1> QED BY <1>1, <1>2, <1>5 DEF Promise!Next

\* Init starts an empty log, of which nobody has delivered anything.
LEMMA LedgerInit ==
  ASSUME Init
  PROVE  Promise!Init
<1>1. InOrder({}) = <<>>
  <2>1. {} = 1..0 /\ 0 \in Nat /\ Upto(0) = <<>>
    BY DEF Upto
  <2> QED BY <2>1, InOrderIs
<1>2. \A r \in Node : st[r].committed = {}
  BY DEF Init, InitReplica
<1>3. UNION {st[r].committed : r \in Node} = {}
  BY <1>2
<1> QED BY <1>1, <1>2, <1>3 DEF Promise!Init, DeliveredLog, Log

\* Every step extends what one replica has delivered, or nothing.
LEMMA LedgerNext ==
  ASSUME PipeInv, CommittedParts, CommittedParts', [Next]_vars
  PROVE  [Promise!Next]_(Promise!vars)
<1>1. Grows /\ st \in [Node -> ReplicaState] /\ tmos = {}
  BY NextGood DEF PipeInv, IInv
<1>2. CASE st' = st
  <2>1. DeliveredLog' = DeliveredLog /\ Log' = Log
    BY <1>2 DEF DeliveredLog, Log
  <2> QED BY <2>1 DEF Promise!vars
<1>3. ASSUME NEW r \in Node, \A q \in Node : q # r => st'[q].voted = st[q].voted
      PROVE  [Promise!Next]_(Promise!vars)
  <2>1. ASSUME NEW q \in Node, q # r PROVE st'[q].committed = st[q].committed
    <3>1. PICK k \in 0..MaxView : st[q].voted = 1..k /\ st[q].committed = 1..(k - 6)
      BY DEF CommittedParts
    <3>2. PICK l \in 0..MaxView : st'[q].voted = 1..l /\ st'[q].committed = 1..(l - 6)
      BY DEF CommittedParts
    <3>3. 1..k = 1..l /\ k \in Nat /\ l \in Nat
      BY <1>3, <2>1, <3>1, <3>2, MaxViewNat
    <3>4. k = l
      BY <3>3
    <3> QED BY <3>1, <3>2, <3>4
  <2>2. PICK k \in 0..MaxView : st[r].voted = 1..k /\ st[r].committed = 1..(k - 6)
    BY DEF CommittedParts
  <2>3. PICK l \in 0..MaxView : st'[r].voted = 1..l /\ st'[r].committed = 1..(l - 6)
    BY DEF CommittedParts
  <2>4. k \in Nat /\ l \in Nat /\ k <= l /\ l <= MaxView
    <3>1. st[r].voted \subseteq st'[r].voted
      BY <1>1 DEF Grows
    <3>2. 1..k \subseteq 1..l
      BY <2>2, <2>3, <3>1
    <3>3. k \in Nat /\ l \in Nat /\ l <= MaxView
      BY MaxViewNat
    <3> QED BY <3>2, <3>3
  <2>5. PICK m \in 0..MaxView : UNION {st[q].committed : q \in Node} = 1..m
    BY DEF CommittedParts
  <2>6. PICK n \in 0..MaxView : UNION {st'[q].committed : q \in Node} = 1..n
    BY DEF CommittedParts
  <2>pick. PICK d, e : d = (IF k - 6 > 0 THEN k - 6 ELSE 0) /\ e = (IF l - 6 > 0 THEN l - 6 ELSE 0)
    OBVIOUS
  <2>7. /\ d \in Nat /\ e \in Nat /\ m \in Nat /\ n \in Nat /\ d <= e /\ e <= MaxView
        /\ 1..(k - 6) = 1..d /\ 1..(l - 6) = 1..e
    BY <2>4, <2>pick, MaxViewNat
  <2>8. DeliveredLog[r] = Upto(d) /\ DeliveredLog'[r] = Upto(e)
    BY <2>2, <2>3, <2>7, InOrderIs DEF DeliveredLog
  <2>9. Log = Upto(m) /\ Log' = Upto(n)
    BY <2>5, <2>6, <2>7, InOrderIs DEF Log
  <2>10. \A q \in Node : q # r => DeliveredLog'[q] = DeliveredLog[q]
    BY <2>1 DEF DeliveredLog
  <2>11. d <= m /\ n = IF e > m THEN e ELSE m
    <3>1. 1..d \subseteq 1..m
      BY <2>2, <2>5, <2>7
    <3>2. 1..n = 1..m \cup 1..e
      <4>1. UNION {st'[q].committed : q \in Node}
              = (UNION {st[q].committed : q \in Node}) \cup st'[r].committed
        <5>1. st[r].committed \subseteq st'[r].committed
          BY <2>2, <2>3, <2>7
        <5> QED BY <2>1, <5>1
      <4> QED BY <2>3, <2>5, <2>6, <2>7, <4>1
    <3>3. d <= m
      BY <2>7, <3>1
    <3>4. \A i \in Nat \ {0} : i <= n <=> i <= m \/ i <= e
      BY <2>7, <3>2
    <3>5. n = IF e > m THEN e ELSE m
      BY <2>7, <3>4
    <3> QED BY <3>3, <3>5
  <2>12. CASE d < e
    <3>1. Promise!Next
      BY <2>7, <2>8, <2>9, <2>10, <2>11, <2>12, StepDelivers
    <3> QED BY <3>1
  <2>13. CASE ~ (d < e)
    <3>1. e = d /\ n = m
      BY <2>7, <2>11, <2>13
    <3>2. \A q \in Node : DeliveredLog'[q] = DeliveredLog[q]
      BY <2>8, <2>10, <3>1
    <3>3. DeliveredLog' = DeliveredLog
      BY <3>2 DEF DeliveredLog
    <3>4. Log' = Log
      BY <2>9, <3>1
    <3> QED BY <3>3, <3>4 DEF Promise!vars
  <2> QED BY <2>12, <2>13
<1> QED BY <1>1, <1>2, <1>3, OneVotes

\* What the replicas deliver to their users is one log that only grows at its
\* end, of which each has a prefix (Ledger): every step of the three loops
\* delivers the next blocks at one replica, or none (mhotstuff.go commitRule,
\* blockchain.go CommitBlock).
THEOREM LedgerImplemented == FaultFree => (Spec => LedgerSpec)
<1> SUFFICES ASSUME FaultFree PROVE Spec => LedgerSpec
  OBVIOUS
<1>1. Init => Promise!Init
  BY LedgerInit
<1>2. PipeInv => CommittedParts
  BY PartsInStep
<1>3. PipeInv /\ CommittedParts /\ CommittedParts' /\ [Next]_vars => [Promise!Next]_(Promise!vars)
  BY LedgerNext
<1> QED BY <1>1, <1>2, <1>3, LockStep, PTL DEF Spec, LedgerSpec, Promise!Spec
=============================================================================
