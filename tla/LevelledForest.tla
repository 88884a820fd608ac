--------------------------- MODULE LevelledForest ---------------------------
(***************************************************************************)
(* The block store of one replica: blockchain/leveled_forrest.go and the   *)
(* committing walk of blockchain/blockchain.go, as operators on a value.   *)
(*                                                                         *)
(* A forest f is a record                                                  *)
(*   vertices : the vertex containers, each with its id, its level, whether*)
(*              a block has been put in it (full) and whether it is entry 0*)
(*              of verticesAtLevel[level] (first).  The rest of the order  *)
(*              in a level's list, and the children lists, are never read. *)
(*   lowest   : LowestLevel, the pruning threshold.                        *)
(*                                                                         *)
(* blk maps the id of a block to its content: seq (its level), prev (the   *)
(* id PrevID) and qc.seq.  container.go makes Parent() the pair            *)
(* (PrevID, QC.Seq), although in this protocol PrevID names the block of   *)
(* the other pipeline and QC certifies the one before it.                  *)
(***************************************************************************)
EXTENDS Integers, FiniteSets

\* A container as getOrCreateVertexContainer builds it.
Container(ids) == [id : ids, level : Int, first : BOOLEAN, full : BOOLEAN]

NewLevelledForest == [vertices |-> {}, lowest |-> 0]

\* (vertex, true) of GetVertex: the id has a container and the block is known.
GetVertex(f, id) == \E c \in f.vertices : c.id = id /\ c.full

\* The ids of the blocks in the forest.
Stored(f) == {c.id : c \in {d \in f.vertices : d.full}}

getOrCreateVertexContainer(f, id, level) ==
  IF \E c \in f.vertices : c.id = id
    THEN f
    ELSE [f EXCEPT !.vertices = f.vertices \cup
            {[id |-> id, level |-> level, full |-> FALSE,
              first |-> \A c \in f.vertices : c.level # level]}]

\* Level and Parent of a BlockContainer.
Level(blk, id) == blk[id].seq
ParentLevel(blk, id) == blk[id].qc.seq

registerWithParent(f, blk, id) ==
  IF \/ \E c \in f.vertices : c.id = id /\ c.level <= f.lowest
     \/ ParentLevel(blk, id) < f.lowest
    THEN f
    ELSE getOrCreateVertexContainer(f, blk[id].prev, ParentLevel(blk, id))

AddVertex(f, blk, id) ==
  LET g == getOrCreateVertexContainer(f, id, Level(blk, id))
      filled == [g EXCEPT !.vertices =
                   {[c EXCEPT !.full = c.full \/ c.id = id] : c \in g.vertices}]
  IN  IF Level(blk, id) < f.lowest THEN f
      ELSE IF GetVertex(g, id) THEN g
      ELSE registerWithParent(filled, blk, id)

-----------------------------------------------------------------------------
(* PruneUpToLevel *)

\* verticesAtLevel[l][0], when there is one and its vertex is not nil.
VertexAt(f, l) == {c \in f.vertices : c.level = l /\ c.first /\ c.full}

\* Mutant: the walk follows PrevID to a block that is not stored.
StepDownBlind(f, blk, l) ==
  {Level(blk, p) : p \in {q \in {blk[c.id].prev : c \in VertexAt(f, l)} :
                            l > 1 /\ q # 0 /\ Level(blk, q) >= f.lowest}}

\* Where the loop over l goes next: nowhere when it stops at l.
StepDown(f, blk, l) ==
  {Level(blk, p) : p \in {q \in {blk[c.id].prev : c \in VertexAt(f, l)} :
                            l > 1 /\ GetVertex(f, q) /\ Level(blk, q) >= f.lowest}}

\* The levels the loop visits.  Each step leaves from another container, so as
\* many steps as there are containers reach all of them.
Visited(f, blk, level) ==
  LET walk[n \in Nat] ==
        IF n = 0 THEN {level}
        ELSE LET seen == walk[n - 1]
             IN  seen \cup UNION {StepDown(f, blk, l) : l \in seen}
  IN  walk[Cardinality(f.vertices)]

\* The loop dereferences the first vertex of a level that has none ...
PrunePanics(f, blk, level) ==
  \E l \in Visited(f, blk, level) : l > 1 /\ VertexAt(f, l) = {}

\* ... or goes round for ever, which a misplaced container can make it do.
PruneLoops(f, blk, level) ==
  \A l \in Visited(f, blk, level) : StepDown(f, blk, l) # {}

Pruned(f, level) == {c \in f.vertices : c.level < level}

ForkedBlocks(f, blk, level) ==
  {c.id : c \in {d \in Pruned(f, level) :
                   d.full /\ d.level > 1 /\ d.level \notin Visited(f, blk, level)}}

PruneUpToLevel(f, level) ==
  [vertices |-> f.vertices \ Pruned(f, level), lowest |-> level]

-----------------------------------------------------------------------------
(* BlockChain.CommitBlock *)

\* Mutants: only the block itself is committed, or everything below its level.
CommittedBlocksOne(f, blk, id) == {i \in {id} : Level(blk, i) > f.lowest}
CommittedBlocksBelow(f, blk, id) ==
  {c.id : c \in {d \in f.vertices : d.full /\ d.level > f.lowest /\ d.level <= Level(blk, id)}}

\* The blocks CommitBlock returns: from id back along PrevID, as long as the
\* blocks are stored and above LowestLevel.
CommittedBlocks(f, blk, id) ==
  LET above(S) == {i \in S \cap Stored(f) : Level(blk, i) > f.lowest}
      walk[n \in Nat] ==
        IF n = 0 THEN above({id})
        ELSE LET done == walk[n - 1]
             IN  done \cup above({blk[i].prev : i \in done})
  IN  {i \in Stored(f) : i \in walk[Cardinality(f.vertices)]}

\* How a call of CommitBlock ends, for a stored id.
CommitOutcome(f, blk, id) ==
  IF Level(blk, id) < f.lowest THEN "error"
  ELSE IF PrunePanics(f, blk, Level(blk, id)) THEN "panic"
  ELSE IF PruneLoops(f, blk, Level(blk, id)) THEN "loop"
  ELSE "ok"
=============================================================================
