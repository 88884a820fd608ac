--------------------------- MODULE MHotStuffProofs ---------------------------
(***************************************************************************)
(* Safety of MHotStuff for every set of replicas, every leader election,   *)
(* every bound on the views and every choice of timers: the inductive      *)
(* invariant, the proofs that every method of the handlers keeps its part  *)
(* for the replica it runs on and that every action keeps it, and the      *)
(* properties it implies.                                                  *)
(***************************************************************************)
EXTENDS MHotStuff, FiniteSetTheorems, TLAPS

\* Two TCs that are absent, or those of one timeout.
PairOfTCs(ftc, stc) ==
  \/ ftc = NoTC /\ stc = NoTC
  \/ ftc # NoTC /\ stc # NoTC /\ stc.view = ftc.view + 1

\* A block as its leader makes it.
GoodBlock(b) ==
  /\ ValidQC(b.qc)
  /\ b.tc # NoTC => b.tcs # <<>>
  /\ b.tcs # <<>> => PairOfTCs(b.tcs[1], b.tcs[2])

\* The vote of q for block v was cast.
Cast(q, v) == v \in Proposed /\ v \in st[q].voted

\* What the forest, the buffer and the main loop refer to has been proposed.
KnownBlocks(forest, buffered, recursive, blocked) ==
  /\ \A c \in forest.vertices : c.full => c.id \in Proposed
  /\ buffered \subseteq Proposed
  /\ recursive \in Proposed \cup {0}
  /\ blocked \in Proposed \cup {0}

KnownVotes(votes, dual) ==
  /\ \A x \in votes : Cast(x[1], x[2])
  /\ \A x \in dual : x[2] = 0 \/ Cast(x[1], x[2])

ValidQCs(highQC, secHighQC, buffered, waiting) ==
  /\ ValidQC(highQC)
  /\ ValidQC(secHighQC)
  /\ \A qc \in buffered : ValidQC(qc)
  /\ waiting # NoQC => ValidQC(waiting)

\* The views r has yet to propose for: it leads them, they are not ahead of its
\* view, and they grow from what it has proposed, over what it holds, along the
\* queue.
GoodQueue(r, curView, held, newViews) ==
  /\ \A v \in Proposed : Leader(v) = r => v <= curView
  /\ held # NoBlock => /\ GoodBlock(held)
                       /\ Leader(held.view) = r
                       /\ held.view <= curView
                       /\ \A v \in Proposed : Leader(v) = r => v < held.view
  /\ \A i \in 1..Len(newViews) :
       /\ Leader(newViews[i].view) = r
       /\ newViews[i].view <= curView
       /\ \A v \in Proposed : Leader(v) = r => v < newViews[i].view
       /\ held # NoBlock => held.view < newViews[i].view
       /\ \A j \in 1..(i-1) : newViews[j].view < newViews[i].view

\* What every step of a handler of r preserves; s is the record it has reached,
\* st[r] the one it started from.
Sound(r, s) ==
  /\ s \in ReplicaState
  /\ st[r].voted \subseteq s.voted
  /\ KnownBlocks(s.forest, s.bufferedBlocks, s.recursive, s.blocked)
  /\ KnownVotes(s.votes, s.dual)
  /\ ValidQCs(s.highQC, s.secHighQC, s.bufferedQCs, s.waiting)
  /\ PairOfTCs(s.secHighTC, s.highTC)
  /\ GoodQueue(r, s.curView, s.held, s.newViews)
  /\ s.preferredSeq # 0 => TwoChain(s.preferredSeq)
  /\ s.forest.lowest # 0 => ThreeChain(s.forest.lowest)

OrderedQCs(highQC, secHighQC, curView) ==
  \/ highQC = GenesisQC /\ secHighQC = GenesisQC
  \/ secHighQC.view < highQC.view /\ highQC.view < curView

GoodReplica(r, s) == Sound(r, s) /\ OrderedQCs(s.highQC, s.secHighQC, s.curView)

GoodBlocks ==
  /\ block \in [View -> Block \cup {NoBlock}]
  /\ \A v \in Proposed : GoodBlock(block[v]) /\ block[v].view = v

GoodTmo(tmo) == tmo \in TMO /\ ValidQC(tmo.highQC) /\ tmo.sseq = tmo.fseq + 1

GoodTmos == \A tmo \in tmos : GoodTmo(tmo)

\* The record is named so that a step can be followed from one record to the next.
GoodReplicas == \A r \in Node : \A s \in ReplicaState : s = st[r] => GoodReplica(r, s)

IInv ==
  /\ st \in [Node -> ReplicaState]
  /\ GoodReplicas
  /\ GoodBlocks
  /\ GoodTmos

-----------------------------------------------------------------------------
(* The operators of the model preserve Sound and GoodReplica *)

\* A new announcement of AdvanceView goes to the end of the queue in order.
LEMMA AppendView ==
  ASSUME NEW r, NEW s \in ReplicaState, GoodQueue(r, s.curView, s.held, s.newViews),
         NEW nv \in NewView, Leader(nv.view) = r, nv.view > s.curView
  PROVE  GoodQueue(r, nv.view, s.held, Append(s.newViews, nv))
<1> DEFINE q == s.newViews
           a == Append(q, nv)
<1>1. q \in Seq(NewView) /\ s.curView \in Nat /\ nv.view \in Nat /\ Proposed \subseteq Nat
  BY MaxViewNat DEF ReplicaState, NewView, Proposed, View
<1>2. /\ Len(a) = Len(q) + 1 /\ Len(q) \in Nat
      /\ \A i \in 1..Len(q) : a[i] = q[i] /\ q[i] \in NewView
      /\ a[Len(q) + 1] = nv
  BY <1>1
<1>3. s.held # NoBlock => s.held.view \in Nat
  BY MaxViewNat DEF ReplicaState, Block, View
<1>4. \A i \in 1..Len(q) : q[i].view \in Nat
  BY <1>2 DEF NewView
<1>5. ASSUME NEW i \in 1..Len(a)
      PROVE  /\ Leader(a[i].view) = r
             /\ a[i].view <= nv.view
             /\ \A v \in Proposed : Leader(v) = r => v < a[i].view
             /\ s.held # NoBlock => s.held.view < a[i].view
             /\ \A j \in 1..(i-1) : a[j].view < a[i].view
  <2>1. CASE i \in 1..Len(q)
    BY <2>1, <1>1, <1>2, <1>3, <1>4 DEF GoodQueue
  <2>2. CASE i = Len(q) + 1
    <3>1. \A j \in 1..(i-1) : a[j] = q[j] /\ q[j].view <= s.curView /\ q[j].view \in Nat
      BY <2>2, <1>2, <1>4 DEF GoodQueue
    <3>2. a[i] = nv
      BY <2>2, <1>2
    <3> QED BY <3>1, <3>2, <1>1, <1>3 DEF GoodQueue
  <2> QED BY <2>1, <2>2, <1>2
<1> QED BY <1>1, <1>3, <1>5 DEF GoodQueue

\* The queue stays in order when the view grows.
LEMMA RaiseView ==
  ASSUME NEW r, NEW s \in ReplicaState, GoodQueue(r, s.curView, s.held, s.newViews),
         NEW x \in Nat, x > s.curView
  PROVE  GoodQueue(r, x, s.held, s.newViews)
<1>1. s.curView \in Nat /\ Proposed \subseteq Nat
  BY MaxViewNat DEF ReplicaState, Proposed, View
<1>2. s.held # NoBlock => s.held.view \in Nat
  BY MaxViewNat DEF ReplicaState, Block, View
<1>3. \A i \in 1..Len(s.newViews) : s.newViews[i].view \in Nat
  <2>1. s.newViews \in Seq(NewView)
    BY DEF ReplicaState
  <2>2. \A i \in 1..Len(s.newViews) : s.newViews[i] \in NewView
    BY <2>1
  <2> QED BY <2>2 DEF NewView
<1> QED BY <1>1, <1>2, <1>3 DEF GoodQueue

\* AdvanceView keeps the type of the record.
LEMMA ViewType ==
  ASSUME NEW s \in ReplicaState, NEW x \in Nat, NEW w \in Nat, NEW y \in Nat,
         NEW z \in Seq(NewView)
  PROVE  [s EXCEPT !.curView = x, !.prevView = w, !.curSeq = y, !.newViews = z] \in ReplicaState
BY ZenonT(60) DEF ReplicaState

\* What AdvanceView does to the certificates and to the view.
Advanced(s, view, t) ==
  /\ t.highQC = s.highQC /\ t.secHighQC = s.secHighQC
  /\ t.curView = IF view < s.curView THEN s.curView ELSE view + 1

\* AdvanceView keeps everything but the order of the certificates.
LEMMA AdvanceViewSound ==
  ASSUME NEW r, NEW s, Sound(r, s),
         NEW view \in Nat, NEW seq \in Nat, NEW pt \in {NoTimeout, TimeoutF, TimeoutS}
  PROVE  /\ Sound(r, AdvanceView(r, s, view, seq, pt))
         /\ Advanced(s, view, AdvanceView(r, s, view, seq, pt))
<1> DEFINE t == AdvanceView(r, s, view, seq, pt)
           nv == [view |-> view + 1, seq |-> seq + 2, pt |-> pt]
           x == view + 1
           w == s.curView
           y == seq + 2
<1>0. s \in ReplicaState /\ GoodQueue(r, s.curView, s.held, s.newViews)
  BY DEF Sound
<1>1. CASE view < s.curView
  BY <1>1 DEF AdvanceView, Advanced
<1>2. /\ nv \in NewView /\ nv.view = x /\ s.newViews \in Seq(NewView)
      /\ s.curView \in Nat /\ x \in Nat /\ w \in Nat /\ y \in Nat
  BY <1>0 DEF NewView, ReplicaState
<1>3. ASSUME NEW z \in Seq(NewView),
             t = [s EXCEPT !.curView = x, !.prevView = w, !.curSeq = y, !.newViews = z],
             GoodQueue(r, x, s.held, z), ~ (view < s.curView)
      PROVE  /\ Sound(r, t)
             /\ t.highQC = s.highQC /\ t.secHighQC = s.secHighQC
             /\ t.curView = x
  <2> HIDE DEF t, x, w, y
  <2>1. t \in ReplicaState
    BY <1>0, <1>2, <1>3, ViewType
  <2> QED BY <2>1, <1>0, <1>3, ZenonT(60) DEF Sound, ReplicaState
<1>4. CASE ~ (view < s.curView) /\ Leader(view + 1) = r
  <2> DEFINE z == Append(s.newViews, nv)
  <2>1. t = [s EXCEPT !.curView = x, !.prevView = w, !.curSeq = y, !.newViews = z]
    BY <1>4 DEF AdvanceView
  <2>2. Leader(nv.view) = r /\ nv.view > s.curView
    BY <1>4, <1>2
  <2>3. x = view + 1
    OBVIOUS
  <2> HIDE DEF nv, x, w, y, t
  <2>4. GoodQueue(r, x, s.held, z)
    BY <1>0, <1>2, <2>2, AppendView
  <2>5. z \in Seq(NewView)
    BY <1>2
  <2> HIDE DEF z
  <2>6. /\ Sound(r, t)
        /\ t.highQC = s.highQC /\ t.secHighQC = s.secHighQC
        /\ t.curView = x
    BY <1>3, <1>4, <2>1, <2>4, <2>5
  <2> QED BY <1>4, <2>3, <2>6 DEF t, Advanced
<1>5. CASE ~ (view < s.curView) /\ Leader(view + 1) # r
  <2> DEFINE z == s.newViews
  <2>1. t = [s EXCEPT !.curView = x, !.prevView = w, !.curSeq = y, !.newViews = z]
    BY <1>5 DEF AdvanceView
  <2>2. x > s.curView /\ x = view + 1
    BY <1>5, <1>2
  <2> HIDE DEF x, w, y, t
  <2>3. GoodQueue(r, x, s.held, z)
    BY <1>0, <1>2, <2>2, RaiseView
  <2>4. z \in Seq(NewView)
    BY <1>2
  <2> HIDE DEF z
  <2>5. /\ Sound(r, t)
        /\ t.highQC = s.highQC /\ t.secHighQC = s.secHighQC
        /\ t.curView = x
    BY <1>3, <1>5, <2>1, <2>3, <2>4
  <2> QED BY <1>5, <2>2, <2>5 DEF t, Advanced
<1> QED BY <1>1, <1>4, <1>5

\* Two calls of updateHighTC leave the pair of TCs they are given.
LEMMA TwoTCsGood ==
  ASSUME NEW r, NEW s, GoodReplica(r, s),
         NEW a \in TC \cup {NoTC}, NEW b \in TC \cup {NoTC}, PairOfTCs(a, b)
  PROVE  GoodReplica(r, updateHighTC(updateHighTC(s, a), b))
<1> DEFINE t == updateHighTC(updateHighTC(s, a), b)
<1>1. s \in ReplicaState
  BY DEF GoodReplica, Sound
<1>2. t \in ReplicaState
  BY <1>1, ZenonT(60) DEF updateHighTC, ReplicaState
<1>3. t.secHighTC = a /\ t.highTC = b
  BY <1>1 DEF updateHighTC, ReplicaState
<1> QED BY <1>1, <1>2, <1>3 DEF updateHighTC, GoodReplica, Sound, ReplicaState

\* updatePreferredSeq locks on the parent of a certified block.
LEMMA PreferredSound ==
  ASSUME NEW r, NEW s, Sound(r, s), GoodBlocks,
         NEW qc \in QC, ValidQC(qc), PreferredKnown(s, qc)
  PROVE  LET t == updatePreferredSeq(s, qc)
         IN  /\ Sound(r, t)
             /\ t.highQC = s.highQC /\ t.secHighQC = s.secHighQC /\ t.curView = s.curView
<1> DEFINE parent == block[qc.block].qc.block
           x == block[parent].seq
<1>0. s \in ReplicaState
  BY DEF Sound
<1>1. CASE ~ (qc.seq >= 4 /\ x > s.preferredSeq)
  BY <1>1 DEF updatePreferredSeq
<1>2. CASE qc.seq >= 4 /\ x > s.preferredSeq
  <2>1. qc.block \in Proposed /\ parent \in Proposed
    BY <1>2 DEF PreferredKnown, GetBlockByID, GetVertex, Sound, KnownBlocks, QC
  <2>2. Certified(qc.block)
    BY <2>1 DEF ValidQC, Proposed, View
  <2>3. Certified(parent)
    <3>1. ValidQC(block[qc.block].qc)
      BY <2>1 DEF GoodBlocks, GoodBlock
    <3> QED BY <3>1, <2>1 DEF ValidQC, Proposed, View
  <2>4. TwoChain(x)
    BY <2>1, <2>2, <2>3 DEF TwoChain
  <2>5. x \in Nat
    BY <2>1 DEF GoodBlocks, Proposed, Block
  <2> DEFINE t == [s EXCEPT !.preferredSeq = x]
  <2>6. updatePreferredSeq(s, qc) = t
    BY <1>2 DEF updatePreferredSeq
  <2> HIDE DEF x
  <2>7. t \in ReplicaState
    BY <1>0, <2>5, ZenonT(60) DEF ReplicaState
  <2>8. Sound(r, t) /\ t.highQC = s.highQC /\ t.secHighQC = s.secHighQC /\ t.curView = s.curView
    BY <1>0, <2>4, <2>7 DEF Sound, ReplicaState
  <2> QED BY <2>6, <2>8
<1> QED BY <1>1, <1>2

\* updateHighQC shifts highQC into secHighQC when it takes a later QC.
LEMMA HighQCSound ==
  ASSUME NEW r, NEW s, Sound(r, s), NEW qc \in QC, ValidQC(qc)
  PROVE  LET t == updateHighQC(s, qc)
         IN  /\ Sound(r, t)
             /\ t.curView = s.curView
             /\ qc.view > s.highQC.view => t.highQC = qc /\ t.secHighQC = s.highQC
             /\ ~ (qc.view > s.highQC.view) => t = s
<1> DEFINE t == [s EXCEPT !.secHighQC = s.highQC, !.highQC = qc]
<1>0. s \in ReplicaState
  BY DEF Sound
<1>1. CASE qc.view > s.highQC.view
  <2>1. t \in ReplicaState
    BY <1>0, ZenonT(60) DEF ReplicaState
  <2>2. ValidQCs(qc, s.highQC, s.bufferedQCs, s.waiting)
    BY DEF Sound, ValidQCs
  <2>3. Sound(r, t) /\ t.highQC = qc /\ t.secHighQC = s.highQC /\ t.curView = s.curView
    BY <1>0, <2>1, <2>2 DEF Sound, ReplicaState
  <2> QED BY <1>1, <2>3 DEF updateHighQC
<1>2. CASE ~ (qc.view > s.highQC.view)
  BY <1>2 DEF updateHighQC
<1> QED BY <1>1, <1>2

\* A valid QC may be buffered.
LEMMA BufferQCGood ==
  ASSUME NEW r, NEW s, GoodReplica(r, s), NEW qc \in QC, ValidQC(qc)
  PROVE  GoodReplica(r, [s EXCEPT !.bufferedQCs = @ \cup {qc}])
<1> DEFINE B == s.bufferedQCs \cup {qc}
           t == [s EXCEPT !.bufferedQCs = B]
<1>0. s \in ReplicaState
  BY DEF GoodReplica, Sound
<1>1. B \in SUBSET QC
  BY <1>0 DEF ReplicaState
<1>2. ValidQCs(s.highQC, s.secHighQC, B, s.waiting)
  BY DEF GoodReplica, Sound, ValidQCs
<1> HIDE DEF B
<1>3. t \in ReplicaState
  BY <1>0, <1>1, ZenonT(60) DEF ReplicaState
<1>4. GoodReplica(r, t)
  BY <1>0, <1>2, <1>3 DEF GoodReplica, Sound, ReplicaState
<1> QED BY <1>4 DEF B

\* AdvanceView keeps the order of the certificates too: the view only grows.
LEMMA AdvanceViewGood ==
  ASSUME NEW r, NEW s, GoodReplica(r, s),
         NEW view \in Nat, NEW seq \in Nat, NEW pt \in {NoTimeout, TimeoutF, TimeoutS}
  PROVE  GoodReplica(r, AdvanceView(r, s, view, seq, pt))
<1> DEFINE t == AdvanceView(r, s, view, seq, pt)
<1>1. Sound(r, s) /\ OrderedQCs(s.highQC, s.secHighQC, s.curView)
  BY DEF GoodReplica
<1>2. Sound(r, t) /\ Advanced(s, view, t)
  BY <1>1, AdvanceViewSound
<1> HIDE DEF t
<1>3. s.curView \in Nat /\ s.highQC \in QC
  BY <1>1 DEF Sound, ReplicaState
<1>4. OrderedQCs(t.highQC, t.secHighQC, t.curView)
  BY <1>1, <1>2, <1>3 DEF OrderedQCs, Advanced, QC
<1>5. GoodReplica(r, t)
  BY <1>2, <1>4 DEF GoodReplica
<1> QED BY <1>5 DEF t

\* processCertificate, whichever way it returns.
LEMMA CertificateGood ==
  ASSUME NEW r, NEW s, GoodReplica(r, s), GoodBlocks, NEW qc \in QC, ValidQC(qc)
  PROVE  GoodReplica(r, processCertificate(r, s, qc))
<1> DEFINE p == updatePreferredSeq(s, qc)
           u == updateHighQC(p, qc)
           t == AdvanceView(r, u, qc.view, qc.seq, NoTimeout)
<1>1. CASE qc.view < s.curView
  BY <1>1 DEF processCertificate
<1> DEFINE fork == r \in Forking /\ Leader(qc.view + 1) = r
<1>2. CASE ~ (qc.view < s.curView) /\ fork
  <2>1. processCertificate(r, s, qc) = AdvanceView(r, s, qc.view, qc.seq, TimeoutF)
    BY <1>2 DEF processCertificate
  <2>2. qc.view \in Nat /\ qc.seq \in Nat
    BY DEF QC
  <2> QED BY <2>1, <2>2, AdvanceViewGood
<1>3. CASE ~ (qc.view < s.curView) /\ ~ fork /\ ~ PreferredKnown(s, qc)
  <2>1. processCertificate(r, s, qc) = [s EXCEPT !.bufferedQCs = @ \cup {qc}]
    BY <1>3 DEF processCertificate
  <2> QED BY <2>1, BufferQCGood
<1>4. CASE ~ (qc.view < s.curView) /\ ~ fork /\ PreferredKnown(s, qc)
  <2>1. Sound(r, s) /\ OrderedQCs(s.highQC, s.secHighQC, s.curView)
    BY DEF GoodReplica
  <2>2. Sound(r, p) /\ p.highQC = s.highQC /\ p.secHighQC = s.secHighQC /\ p.curView = s.curView
    BY <1>4, <2>1, PreferredSound
  <2> HIDE DEF p
  <2>3. /\ Sound(r, u)
        /\ u.curView = s.curView
        /\ qc.view > s.highQC.view => u.highQC = qc /\ u.secHighQC = s.highQC
        /\ ~ (qc.view > s.highQC.view) => u.highQC = s.highQC /\ u.secHighQC = s.secHighQC
    BY <2>2, HighQCSound
  <2> HIDE DEF u
  <2>4. qc.view \in Nat /\ qc.seq \in Nat
    BY DEF QC
  <2>5. /\ Sound(r, t)
        /\ t.highQC = u.highQC /\ t.secHighQC = u.secHighQC
        /\ t.curView = qc.view + 1
    <3>1. NoTimeout \in {NoTimeout, TimeoutF, TimeoutS}
      OBVIOUS
    <3>2. ~ (qc.view < u.curView)
      BY <1>4, <2>3
    <3>3. Sound(r, u)
      BY <2>3
    <3>4. Sound(r, t) /\ Advanced(u, qc.view, t)
      BY <2>4, <3>1, <3>3, AdvanceViewSound
    <3> QED BY <3>2, <3>4 DEF Advanced
  <2>6. processCertificate(r, s, qc) = t
    BY <1>4 DEF processCertificate, p, u
  <2> HIDE DEF t
  <2>7. s.highQC \in QC /\ s.secHighQC \in QC /\ s.curView \in Nat
    BY <2>1 DEF Sound, ReplicaState
  <2>8. OrderedQCs(t.highQC, t.secHighQC, t.curView)
    BY <1>4, <2>1, <2>3, <2>4, <2>5, <2>7 DEF OrderedQCs, QC, GenesisQC
  <2> QED BY <2>5, <2>6, <2>8 DEF GoodReplica
<1> QED BY <1>1, <1>2, <1>3, <1>4

\* A block as the handlers find it in block.
Received(b) == \E v \in Proposed : b = block[v]

\* What is known of a block a handler is given.
LEMMA ReceivedBlock ==
  ASSUME NEW b, Received(b), GoodBlocks
  PROVE  /\ b \in Block /\ GoodBlock(b) /\ b.view \in Proposed /\ block[b.view] = b
         /\ b.qc \in QC /\ ValidQC(b.qc) /\ b.view \in View /\ b.seq \in Nat
         /\ b.tc \in TC \cup {NoTC}
<1>1. PICK v \in Proposed : b = block[v]
  BY DEF Received
<1>2. b \in Block
  BY <1>1 DEF GoodBlocks, Proposed
<1>3. GoodBlock(b) /\ b.view = v
  BY <1>1 DEF GoodBlocks
<1>4. b.qc \in QC /\ b.view \in View /\ b.seq \in Nat /\ b.tc \in TC \cup {NoTC}
  BY <1>2 DEF Block
<1> QED BY <1>1, <1>2, <1>3, <1>4 DEF GoodBlock

\* A timeout proposal carries the two TCs of one timeout.
LEMMA TimeoutBlock ==
  ASSUME NEW b, Received(b), GoodBlocks, b.tc # NoTC
  PROVE  /\ b.tcs[1] \in TC \cup {NoTC} /\ b.tcs[2] \in TC \cup {NoTC}
         /\ PairOfTCs(b.tcs[1], b.tcs[2])
         /\ maxTC(b) \in TC \cup {NoTC}
<1>1. b \in Block /\ GoodBlock(b)
  BY ReceivedBlock
<1>2. b.tcs # <<>> /\ PairOfTCs(b.tcs[1], b.tcs[2])
  BY <1>1 DEF GoodBlock
<1>3. b.tcs \in (TC \cup {NoTC}) \X (TC \cup {NoTC})
  BY <1>1, <1>2 DEF Block
<1>4. b.tcs[1] \in TC \cup {NoTC} /\ b.tcs[2] \in TC \cup {NoTC}
  BY <1>3
<1> QED BY <1>2, <1>4 DEF maxTC

\* A validator that takes over the view of a timeout proposal.
LEMMA followTCGood ==
  ASSUME NEW r, NEW s, GoodReplica(r, s), NEW b, Received(b), GoodBlocks, b.tc # NoTC,
         NEW curView
  PROVE  GoodReplica(r, followTC(r, s, b, curView))
<1> DEFINE t == IF curView <= b.tc.view THEN AdvanceView(r, s, b.tc.view, b.tc.seq, TimeoutF) ELSE s
<1>1. b.tc.view \in Nat /\ b.tc.seq \in Nat
  BY ReceivedBlock DEF TC
<1>2. GoodReplica(r, t)
  <2>1. TimeoutF \in {NoTimeout, TimeoutF, TimeoutS}
    OBVIOUS
  <2>2. GoodReplica(r, AdvanceView(r, s, b.tc.view, b.tc.seq, TimeoutF))
    BY <1>1, <2>1, AdvanceViewGood
  <2> QED BY <2>2
<1> HIDE DEF t
<1>3. NoTC \in TC \cup {NoTC} /\ PairOfTCs(NoTC, NoTC)
  BY DEF PairOfTCs
<1>4. GoodReplica(r, updateHighTC(updateHighTC(t, NoTC), NoTC))
  BY <1>2, <1>3, TwoTCsGood
<1> QED BY <1>2, <1>4 DEF followTC, t

\* The leader that moves to the second proposal of a timeout.
LEMMA secondProposalGood ==
  ASSUME NEW r, NEW s, GoodReplica(r, s), NEW b, Received(b), GoodBlocks,
         ~ mustSignal(r, s, b)
  PROVE  GoodReplica(r, secondProposal(r, s, b))
<1>1. CASE Leader(s.curView + 1) # r
  BY <1>1 DEF secondProposal
<1>2. CASE Leader(s.curView + 1) = r
  <2> DEFINE m == maxTC(b)
             t == AdvanceView(r, s, m.view, m.seq, TimeoutS)
  <2>1. b.tc # NoTC /\ ~ (s.curView > m.view)
    BY <1>2 DEF mustSignal
  <2>2. /\ b.tcs[1] \in TC \cup {NoTC} /\ b.tcs[2] \in TC \cup {NoTC}
        /\ PairOfTCs(b.tcs[1], b.tcs[2])
        /\ m \in TC \cup {NoTC}
    BY <2>1, TimeoutBlock
  <2>3. s.curView \in Nat
    BY DEF GoodReplica, Sound, ReplicaState
  <2> HIDE DEF m
  <2>4. m.view \in Nat /\ m.seq \in Nat
    BY <2>1, <2>2, <2>3 DEF TC, NoTC
  <2>5. TimeoutS \in {NoTimeout, TimeoutF, TimeoutS}
    OBVIOUS
  <2>6. GoodReplica(r, t)
    BY <2>4, <2>5, AdvanceViewGood
  <2> HIDE DEF t
  <2>7. GoodReplica(r, updateHighTC(updateHighTC(t, b.tcs[1]), b.tcs[2]))
    BY <2>2, <2>6, TwoTCsGood
  <2> QED BY <1>2, <2>7 DEF secondProposal, t, m
<1> QED BY <1>1, <1>2

\* A send on proposeChan.
LEMMA sendSignalGood ==
  ASSUME NEW r, NEW s, GoodReplica(r, s), NEW ope \in {Continue, Drop}, NEW view \in Nat
  PROVE  GoodReplica(r, sendSignal(s, ope, view))
<1> DEFINE c == Append(s.proposeChan, [ope |-> ope, view |-> view])
           t == [s EXCEPT !.proposeChan = c]
<1>0. s \in ReplicaState
  BY DEF GoodReplica, Sound
<1>1. c \in Seq(Signal)
  <2>1. [ope |-> ope, view |-> view] \in Signal /\ s.proposeChan \in Seq(Signal)
    BY <1>0 DEF ReplicaState, Signal
  <2> QED BY <2>1
<1> HIDE DEF c
<1>2. t \in ReplicaState
  BY <1>0, <1>1, ZenonT(60) DEF ReplicaState
<1>3. GoodReplica(r, t)
  BY <1>0, <1>2 DEF GoodReplica, Sound, ReplicaState
<1> QED BY <1>3 DEF sendSignal, c

-----------------------------------------------------------------------------
(* The forest *)

GoodForest(f) ==
  /\ f \in [vertices : SUBSET Container(Id), lowest : Nat]
  /\ \A c \in f.vertices : c.full => c.id \in Proposed

\* getOrCreateVertexContainer adds an empty container or nothing.
LEMMA ContainerGood ==
  ASSUME NEW f, GoodForest(f), NEW id \in Id, NEW level \in Int
  PROVE  /\ GoodForest(getOrCreateVertexContainer(f, id, level))
         /\ getOrCreateVertexContainer(f, id, level).lowest = f.lowest
<1> DEFINE first == \A c \in f.vertices : c.level # level
           new == [id |-> id, level |-> level, full |-> FALSE, first |-> first]
           V == f.vertices \cup {new}
           g == [f EXCEPT !.vertices = V]
<1>1. CASE \E c \in f.vertices : c.id = id
  BY <1>1 DEF getOrCreateVertexContainer
<1>2. CASE ~ \E c \in f.vertices : c.id = id
  <2>1. first \in BOOLEAN
    OBVIOUS
  <2>2. getOrCreateVertexContainer(f, id, level) = g
    BY <1>2 DEF getOrCreateVertexContainer
  <2> HIDE DEF first
  <2>3. new \in Container(Id) /\ new.full = FALSE
    BY <2>1 DEF Container
  <2> HIDE DEF new
  <2>4. V \in SUBSET Container(Id) /\ \A c \in V : c.full => c.id \in Proposed
    BY <2>3 DEF GoodForest
  <2> HIDE DEF V
  <2>5. GoodForest(g) /\ g.lowest = f.lowest
    BY <2>4 DEF GoodForest
  <2> QED BY <2>2, <2>5
<1> QED BY <1>1, <1>2

\* AddVertex fills the container of the block only.
LEMMA AddVertexGood ==
  ASSUME NEW f, GoodForest(f), GoodBlocks, NEW v \in Proposed
  PROVE  GoodForest(AddVertex(f, block, v)) /\ AddVertex(f, block, v).lowest = f.lowest
<1> DEFINE g == getOrCreateVertexContainer(f, v, Level(block, v))
           V == {[c EXCEPT !.full = c.full \/ c.id = v] : c \in g.vertices}
           h == [g EXCEPT !.vertices = V]
<1>1. block[v] \in Block /\ v \in View
  BY DEF Proposed, GoodBlocks
<1>2. /\ v \in Id /\ Level(block, v) \in Int
      /\ block[v].prev \in Id /\ ParentLevel(block, v) \in Int
  BY <1>1, MaxViewNat DEF Level, ParentLevel, Block, QC, Id, View
<1>3. GoodForest(g) /\ g.lowest = f.lowest
  BY <1>2, ContainerGood
<1> HIDE DEF g
<1>4. ASSUME NEW c \in Container(Id)
      PROVE  /\ [c EXCEPT !.full = c.full \/ c.id = v] \in Container(Id)
             /\ [c EXCEPT !.full = c.full \/ c.id = v].full => c.full \/ c.id = v
             /\ [c EXCEPT !.full = c.full \/ c.id = v].id = c.id
  <2> DEFINE x == c.full \/ c.id = v
  <2>1. x \in BOOLEAN
    OBVIOUS
  <2>2. x => c.full \/ c.id = v
    OBVIOUS
  <2> HIDE DEF x
  <2>3. /\ [c EXCEPT !.full = x] \in Container(Id)
        /\ [c EXCEPT !.full = x].full = x
        /\ [c EXCEPT !.full = x].id = c.id
    BY <2>1 DEF Container
  <2> QED BY <2>2, <2>3 DEF x
<1>5. V \in SUBSET Container(Id) /\ \A c \in V : c.full => c.id \in Proposed
  <2> SUFFICES ASSUME NEW d \in V
               PROVE  d \in Container(Id) /\ (d.full => d.id \in Proposed)
    BY Zenon
  <2>1. PICK c \in g.vertices : d = [c EXCEPT !.full = c.full \/ c.id = v]
    BY Zenon
  <2>2. c \in Container(Id) /\ (c.full => c.id \in Proposed)
    BY <1>3 DEF GoodForest
  <2>3. d \in Container(Id) /\ (d.full => c.full \/ c.id = v) /\ d.id = c.id
    BY <1>4, <2>1, <2>2, Zenon
  <2> QED BY <2>2, <2>3
<1> HIDE DEF V
<1>6. GoodForest(h) /\ h.lowest = f.lowest
  BY <1>3, <1>5 DEF GoodForest
<1> HIDE DEF h
<1>7. GoodForest(registerWithParent(h, block, v)) /\ registerWithParent(h, block, v).lowest = f.lowest
  BY <1>2, <1>6, ContainerGood DEF registerWithParent
<1> QED BY <1>3, <1>7 DEF AddVertex, g, V, h

\* PruneUpToLevel drops containers and sets LowestLevel.
LEMMA PruneGood ==
  ASSUME NEW f, GoodForest(f), NEW level \in Nat
  PROVE  GoodForest(PruneUpToLevel(f, level)) /\ PruneUpToLevel(f, level).lowest = level
BY DEF PruneUpToLevel, Pruned, GoodForest

\* The forest holds proposed blocks.
LEMMA StoredProposed ==
  ASSUME NEW f, GoodForest(f)
  PROVE  Stored(f) \subseteq Proposed
BY DEF Stored, GoodForest

\* CommitBlock returns blocks of the forest.
LEMMA CommittedStored ==
  ASSUME NEW f, NEW blk, NEW id
  PROVE  CommittedBlocks(f, blk, id) \subseteq Stored(f)
BY Zenon DEF CommittedBlocks

\* The blocks reported as forked were proposed.
LEMMA ForkedProposed ==
  ASSUME NEW f, GoodForest(f), NEW level
  PROVE  ForkedBlocks(f, block, level) \subseteq Proposed
BY DEF ForkedBlocks, Pruned, GoodForest

-----------------------------------------------------------------------------
(* The main loop *)

\* The forest of a replica.
LEMMA ForestOf ==
  ASSUME NEW r, NEW s, GoodReplica(r, s)
  PROVE  s \in ReplicaState /\ GoodForest(s.forest)
BY DEF GoodReplica, Sound, KnownBlocks, GoodForest, ReplicaState

\* AddBlock and updateHighBlock.
LEMMA addBlockGood ==
  ASSUME NEW r, NEW s, GoodReplica(r, s), NEW b, Received(b), GoodBlocks
  PROVE  GoodReplica(r, addBlock(s, b))
<1> DEFINE f == AddVertex(s.forest, block, b.view)
           h == IF b.view > s.highBlock THEN b.view ELSE s.highBlock
           t == [s EXCEPT !.forest = f, !.highBlock = h]
<1>1. s \in ReplicaState /\ GoodForest(s.forest)
  BY ForestOf
<1>2. b.view \in Proposed /\ b.view \in View
  BY ReceivedBlock
<1>3. GoodForest(f) /\ f.lowest = s.forest.lowest
  BY <1>1, <1>2, AddVertexGood
<1>4. h \in Id
  BY <1>1, <1>2, MaxViewNat DEF ReplicaState, View, Id
<1>5. addBlock(s, b) = t
  BY DEF addBlock
<1> HIDE DEF f, h
<1>6. t \in ReplicaState
  BY <1>1, <1>3, <1>4, ZenonT(60) DEF ReplicaState, GoodForest
<1>7. KnownBlocks(f, s.bufferedBlocks, s.recursive, s.blocked)
  BY <1>3 DEF GoodReplica, Sound, KnownBlocks, GoodForest
<1>8. GoodReplica(r, t)
  BY <1>1, <1>3, <1>6, <1>7 DEF GoodReplica, Sound, ReplicaState
<1> QED BY <1>5, <1>8

\* CommitBlock, of the oldest block of a chain of three.
LEMMA CommitBlockGood ==
  ASSUME NEW r, NEW s, GoodReplica(r, s), GoodBlocks, NEW id \in Proposed, ThreeChain(block[id].seq)
  PROVE  GoodReplica(r, CommitBlock(s, id))
<1> DEFINE done == CommittedBlocks(s.forest, block, id)
           lost == ForkedBlocks(s.forest, block, block[id].seq)
           x == block[id].seq
           f == PruneUpToLevel(s.forest, x)
           C == s.committed \cup done
           F == s.forked \cup lost
           V == {v \in s.votes : v[2] \notin done}
           t == [s EXCEPT !.forest = f, !.committed = C, !.forked = F, !.votes = V]
<1>1. s \in ReplicaState /\ GoodForest(s.forest)
  BY ForestOf
<1>2. CommitBlock(s, id) = t
  BY DEF CommitBlock
<1>3. x \in Nat
  BY DEF GoodBlocks, Proposed, Block
<1>4. done \subseteq View /\ lost \subseteq View
  BY <1>1, StoredProposed, CommittedStored, ForkedProposed DEF Proposed
<1> HIDE DEF done, lost
<1>5. C \in SUBSET View /\ F \in SUBSET View
  BY <1>1, <1>4 DEF ReplicaState
<1>6. V \subseteq s.votes /\ V \in SUBSET (Node \X Id)
  BY <1>1 DEF ReplicaState
<1>7. ThreeChain(x)
  OBVIOUS
<1> HIDE DEF x
<1>8. GoodForest(f) /\ f.lowest = x
  BY <1>1, <1>3, PruneGood
<1> HIDE DEF f, C, F, V
<1>9. t \in ReplicaState
  BY <1>1, <1>5, <1>6, <1>8, ZenonT(60) DEF ReplicaState, GoodForest
<1>10. KnownBlocks(f, s.bufferedBlocks, s.recursive, s.blocked)
  BY <1>8 DEF GoodReplica, Sound, KnownBlocks, GoodForest
<1>11. KnownVotes(V, s.dual)
  BY <1>6 DEF GoodReplica, Sound, KnownVotes
<1>12. GoodReplica(r, t)
  BY <1>1, <1>7, <1>8, <1>9, <1>10, <1>11 DEF GoodReplica, Sound, ReplicaState
<1> QED BY <1>2, <1>12

\* The QC that was waiting for the block.
LEMMA BufferedQCGood ==
  ASSUME NEW r, NEW s, GoodReplica(r, s), GoodBlocks, NEW b
  PROVE  GoodReplica(r, processBufferedQC(r, s, b))
<1>1. CASE ~ \E qc \in s.bufferedQCs : qc.block = b.view
  BY <1>1 DEF processBufferedQC
<1>2. CASE \E qc \in s.bufferedQCs : qc.block = b.view
  <2> DEFINE qc == CHOOSE q \in s.bufferedQCs : q.block = b.view
             p == processCertificate(r, s, qc)
             B == {q \in p.bufferedQCs : q.block # b.view}
             t == [p EXCEPT !.bufferedQCs = B]
  <2>1. qc \in s.bufferedQCs
    BY <1>2
  <2>2. processBufferedQC(r, s, b) = t
    BY <1>2 DEF processBufferedQC
  <2> HIDE DEF qc
  <2>3. qc \in QC /\ ValidQC(qc)
    BY <2>1 DEF GoodReplica, Sound, ValidQCs, ReplicaState
  <2>4. GoodReplica(r, p)
    BY <2>3, CertificateGood
  <2> HIDE DEF p
  <2>5. p \in ReplicaState
    BY <2>4 DEF GoodReplica, Sound
  <2>6. B \in SUBSET QC /\ B \subseteq p.bufferedQCs
    BY <2>5 DEF ReplicaState
  <2> HIDE DEF B
  <2>7. t \in ReplicaState
    BY <2>5, <2>6, ZenonT(60) DEF ReplicaState
  <2>8. ValidQCs(p.highQC, p.secHighQC, B, p.waiting)
    BY <2>4, <2>6 DEF GoodReplica, Sound, ValidQCs
  <2>9. GoodReplica(r, t)
    BY <2>4, <2>5, <2>7, <2>8, ZenonT(60) DEF GoodReplica, Sound, ReplicaState
  <2> QED BY <2>2, <2>9
<1> QED BY <1>1, <1>2

\* The vote, and the choice of a buffered block to go on with.
LEMMA castVoteGood ==
  ASSUME NEW r, NEW s, GoodReplica(r, s), GoodBlocks, NEW b, Received(b)
  PROVE  GoodReplica(r, castVote(s, b))
<1> DEFINE V == s.voted \cup {b.view}
           x == IF b.view + 1 \in s.bufferedBlocks THEN b.view + 1 ELSE 0
           t == [s EXCEPT !.voted = V, !.recursive = x]
<1>1. s \in ReplicaState
  BY DEF GoodReplica, Sound
<1>2. b.view \in View
  BY ReceivedBlock
<1>3. V \in SUBSET View /\ s.voted \subseteq V
  BY <1>1, <1>2 DEF ReplicaState
<1>4. x \in Proposed \cup {0}
  BY DEF GoodReplica, Sound, KnownBlocks
<1>5. x \in Id
  BY <1>4, MaxViewNat DEF Proposed, View, Id
<1>6. castVote(s, b) = t
  BY DEF castVote
<1> HIDE DEF V, x
<1>7. t \in ReplicaState
  BY <1>1, <1>3, <1>5, ZenonT(60) DEF ReplicaState
<1>8. KnownBlocks(s.forest, s.bufferedBlocks, x, s.blocked)
  BY <1>4 DEF GoodReplica, Sound, KnownBlocks
<1>9. st[r].voted \subseteq V
  BY <1>3 DEF GoodReplica, Sound
<1>10. GoodReplica(r, t)
  BY <1>1, <1>7, <1>8, <1>9 DEF GoodReplica, Sound, ReplicaState
<1> QED BY <1>6, <1>10

\* The end of ProcessBlock.
LEMMA finishBlockGood ==
  ASSUME NEW r, NEW s, GoodReplica(r, s), GoodBlocks, NEW b, Received(b)
  PROVE  GoodReplica(r, finishBlock(r, s, b))
<1> DEFINE t == processBufferedQC(r, s, b)
<1>1. GoodReplica(r, t)
  BY BufferedQCGood
<1> HIDE DEF t
<1>2. GoodReplica(r, castVote(t, b))
  BY <1>1, castVoteGood
<1> QED BY <1>1, <1>2 DEF finishBlock, t

\* commitRule finds the oldest of three certified blocks.
LEMMA CommitTargetGood ==
  ASSUME NEW r, NEW s, GoodReplica(r, s), GoodBlocks, NEW qc \in QC, ValidQC(qc), commitRule(s, qc)
  PROVE  CommitTarget(qc) \in Proposed /\ ThreeChain(block[CommitTarget(qc)].seq)
<1> DEFINE v2 == qc.block
           v1 == block[v2].qc.block
           v0 == block[v1].qc.block
<1>1. v2 \in Proposed /\ v1 \in Proposed /\ v0 \in Proposed /\ CommitTarget(qc) = v0
  BY ForestOf DEF commitRule, CommitTarget, GetBlockByID, GetVertex, GoodForest
<1>2. ValidQC(block[v2].qc) /\ ValidQC(block[v1].qc)
  BY <1>1 DEF GoodBlocks, GoodBlock
<1>3. v2 # 0 /\ v1 # 0 /\ v0 # 0
  BY <1>1, MaxViewNat DEF Proposed, View
<1>4. Certified(v2) /\ Certified(v1) /\ Certified(v0)
  BY <1>2, <1>3 DEF ValidQC
<1> QED BY <1>1, <1>4 DEF ThreeChain

\* ProcessBlock from the commit rule on.
LEMMA commitAndVoteGood ==
  ASSUME NEW r, NEW s, GoodReplica(r, s), GoodBlocks, NEW b, Received(b)
  PROVE  GoodReplica(r, commitAndVote(r, s, b))
<1> DEFINE target == CommitTarget(b.qc)
<1>1. GoodReplica(r, finishBlock(r, s, b))
  BY finishBlockGood
<1>2. ASSUME commitRule(s, b.qc)
      PROVE  GoodReplica(r, finishBlock(r, CommitBlock(s, target), b))
  <2>1. b.qc \in QC /\ ValidQC(b.qc)
    BY ReceivedBlock
  <2>2. target \in Proposed /\ ThreeChain(block[target].seq)
    BY <1>2, <2>1, CommitTargetGood
  <2> HIDE DEF target
  <2>3. GoodReplica(r, CommitBlock(s, target))
    BY <2>2, CommitBlockGood
  <2> QED BY <2>3, finishBlockGood
<1>3. GoodReplica(r, [s EXCEPT !.crashed = TRUE])
  <2>1. s \in ReplicaState
    BY DEF GoodReplica, Sound
  <2>2. [s EXCEPT !.crashed = TRUE] \in ReplicaState
    BY <2>1, ZenonT(60) DEF ReplicaState
  <2> QED BY <2>1, <2>2 DEF GoodReplica, Sound, ReplicaState
<1> QED BY <1>1, <1>2, <1>3 DEF commitAndVote

\* ProcessBlock from AddBlock on.
LEMMA acceptBlockGood ==
  ASSUME NEW r, NEW s, GoodReplica(r, s), GoodBlocks, NEW b, Received(b)
  PROVE  GoodReplica(r, acceptBlock(r, s, b))
<1> DEFINE t == addBlock(s, b)
           x == b.view
<1>1. GoodReplica(r, t)
  BY addBlockGood
<1> HIDE DEF t
<1>2. t \in ReplicaState
  BY <1>1 DEF GoodReplica, Sound
<1>3. CASE ~ mustSignal(r, t, b)
  <2>1. GoodReplica(r, secondProposal(r, t, b))
    BY <1>1, <1>3, secondProposalGood
  <2>2. GoodReplica(r, commitAndVote(r, secondProposal(r, t, b), b))
    BY <2>1, commitAndVoteGood
  <2> QED BY <1>3, <2>2 DEF acceptBlock, t
<1>4. CASE mustSignal(r, t, b) /\ ~ hasRoom(t)
  <2>1. x \in Proposed /\ x \in Id
    BY ReceivedBlock, MaxViewNat DEF View, Id
  <2>2. acceptBlock(r, s, b) = [t EXCEPT !.blocked = x]
    BY <1>4 DEF acceptBlock, t
  <2> HIDE DEF x
  <2>3. [t EXCEPT !.blocked = x] \in ReplicaState
    BY <1>2, <2>1, ZenonT(60) DEF ReplicaState
  <2>4. KnownBlocks(t.forest, t.bufferedBlocks, t.recursive, x)
    BY <1>1, <2>1 DEF GoodReplica, Sound, KnownBlocks
  <2>5. GoodReplica(r, [t EXCEPT !.blocked = x])
    BY <1>1, <1>2, <2>3, <2>4, ZenonT(60) DEF GoodReplica, Sound, ReplicaState
  <2> QED BY <2>2, <2>5
<1>5. CASE mustSignal(r, t, b) /\ hasRoom(t)
  <2>1. Continue \in {Continue, Drop} /\ 0 \in Nat
    OBVIOUS
  <2>2. GoodReplica(r, sendSignal(t, Continue, 0))
    BY <1>1, <2>1, sendSignalGood
  <2>3. GoodReplica(r, commitAndVote(r, sendSignal(t, Continue, 0), b))
    BY <2>2, commitAndVoteGood
  <2> QED BY <1>5, <2>3 DEF acceptBlock, t
<1> QED BY <1>3, <1>4, <1>5

\* ProcessBlock as a whole.
LEMMA processBlockGood ==
  ASSUME NEW r, NEW s, GoodReplica(r, s), GoodBlocks, NEW b, Received(b)
  PROVE  GoodReplica(r, processBlock(r, s, b))
<1> DEFINE own == Leader(b.view) = r
           certified == IF own THEN s ELSE processCertificate(r, s, b.qc)
           followed == IF own \/ b.tc = NoTC THEN certified
                       ELSE followTC(r, certified, b, s.curView)
           B == s.bufferedBlocks \cup {b.view}
           t == [s EXCEPT !.bufferedBlocks = B]
<1>1. s \in ReplicaState
  BY DEF GoodReplica, Sound
<1>2. b.view \in Proposed /\ b.view \in View /\ b.qc \in QC /\ ValidQC(b.qc)
  BY ReceivedBlock
<1>3. GoodReplica(r, certified)
  <2>1. GoodReplica(r, processCertificate(r, s, b.qc))
    BY <1>2, CertificateGood
  <2> QED BY <2>1
<1> HIDE DEF certified
<1>4. GoodReplica(r, followed)
  <2>1. b.tc # NoTC => GoodReplica(r, followTC(r, certified, b, s.curView))
    BY <1>3, followTCGood
  <2> QED BY <1>3, <2>1
<1> HIDE DEF followed
<1>5. GoodReplica(r, acceptBlock(r, followed, b))
  BY <1>4, acceptBlockGood
<1>6. GoodReplica(r, t)
  <2>1. B \in SUBSET View /\ B \subseteq Proposed
    BY <1>1, <1>2 DEF ReplicaState, GoodReplica, Sound, KnownBlocks
  <2> HIDE DEF B
  <2>2. t \in ReplicaState
    BY <1>1, <2>1, ZenonT(60) DEF ReplicaState
  <2>3. KnownBlocks(s.forest, B, s.recursive, s.blocked)
    BY <2>1 DEF GoodReplica, Sound, KnownBlocks
  <2> QED BY <1>1, <2>2, <2>3 DEF GoodReplica, Sound, ReplicaState
<1> QED BY <1>4, <1>5, <1>6 DEF processBlock, certified, followed

-----------------------------------------------------------------------------
(* Votes and timeouts *)

\* superMajority is monotonic.
LEMMA SuperMajorityGrows ==
  ASSUME NEW S, NEW T, S \subseteq T, T \subseteq Node, superMajority(S)
  PROVE  superMajority(T)
<1>1. IsFiniteSet(T)
  BY NodeFinite, FS_Subset
<1>2. IsFiniteSet(S) /\ Cardinality(S) <= Cardinality(T)
  BY <1>1, FS_Subset
<1>3. Cardinality(S) \in Nat /\ Cardinality(T) \in Nat /\ Cardinality(Node) \in Nat
  BY <1>1, <1>2, NodeFinite, FS_CardinalityType
<1> QED BY <1>2, <1>3 DEF superMajority

\* Quorum.Add: the QC it makes is backed by votes that were cast.
LEMMA addVoteGood ==
  ASSUME NEW r, NEW s, GoodReplica(r, s), GoodBlocks,
         NEW q \in Node, NEW v \in Id, v = 0 \/ Cast(q, v)
  PROVE  GoodReplica(r, addVote(s, q, v))
<1> DEFINE votersOf(votes) == {x \in Node : <<x, v>> \in votes}
           more == s.votes \cup {<<q, v>>}
           start == [view |-> 1, seq |-> 1, block |-> 0]
           qc == [view |-> block[v].seq, seq |-> block[v].seq, block |-> v]
           w == IF superMajority(votersOf(more)) THEN qc ELSE s.waiting
<1>1. s \in ReplicaState
  BY DEF GoodReplica, Sound
<1>2. CASE v = 0
  <2>1. start \in QC /\ ValidQC(start)
    BY MaxViewNat DEF QC, ValidQC, Id
  <2>2. addVote(s, q, v) = [s EXCEPT !.waiting = start]
    BY <1>2 DEF addVote
  <2> HIDE DEF start
  <2>3. [s EXCEPT !.waiting = start] \in ReplicaState
    BY <1>1, <2>1, ZenonT(60) DEF ReplicaState
  <2>4. ValidQCs(s.highQC, s.secHighQC, s.bufferedQCs, start)
    BY <2>1 DEF GoodReplica, Sound, ValidQCs
  <2>5. GoodReplica(r, [s EXCEPT !.waiting = start])
    BY <1>1, <2>3, <2>4 DEF GoodReplica, Sound, ReplicaState
  <2> QED BY <2>2, <2>5
<1>3. CASE v # 0 /\ superMajority(votersOf(s.votes))
  BY <1>3 DEF addVote
<1>4. CASE v # 0 /\ ~ superMajority(votersOf(s.votes))
  <2>1. addVote(s, q, v) = [s EXCEPT !.votes = more, !.waiting = w]
    BY <1>4 DEF addVote
  <2>2. more \in SUBSET (Node \X Id)
    BY <1>1 DEF ReplicaState
  <2>3. KnownVotes(more, s.dual)
    <3>1. Cast(q, v)
      BY <1>4
    <3>2. \A x \in s.votes : Cast(x[1], x[2])
      BY DEF GoodReplica, Sound, KnownVotes
    <3>3. \A x \in more : Cast(x[1], x[2])
      BY <3>1, <3>2
    <3> QED BY <3>3 DEF GoodReplica, Sound, KnownVotes
  <2>4. v \in Proposed /\ block[v] \in Block
    BY <1>4 DEF Cast, GoodBlocks, Proposed
  <2>5. qc \in QC
    BY <2>4 DEF QC, Block
  <2>6. ASSUME superMajority(votersOf(more)) PROVE ValidQC(qc)
    <3>1. votersOf(more) \subseteq {x \in Node : v \in st[x].voted}
      BY <2>3 DEF KnownVotes, Cast
    <3>2. Certified(v)
      BY <2>6, <3>1, SuperMajorityGrows DEF Certified
    <3> QED BY <1>4, <2>4, <3>2 DEF ValidQC, Proposed
  <2>7. w \in QC \cup {NoQC} /\ (w # NoQC => ValidQC(w))
    BY <1>1, <2>5, <2>6 DEF ReplicaState, GoodReplica, Sound, ValidQCs
  <2> HIDE DEF w, more
  <2>8. [s EXCEPT !.votes = more, !.waiting = w] \in ReplicaState
    BY <1>1, <2>2, <2>7, ZenonT(60) DEF ReplicaState
  <2>9. ValidQCs(s.highQC, s.secHighQC, s.bufferedQCs, w)
    BY <2>7 DEF GoodReplica, Sound, ValidQCs
  <2>10. GoodReplica(r, [s EXCEPT !.votes = more, !.waiting = w])
    BY <1>1, <2>3, <2>8, <2>9 DEF GoodReplica, Sound, ReplicaState
  <2> QED BY <2>1, <2>10
<1> QED BY <1>2, <1>3, <1>4

\* ProcessVote after a Continue.
LEMMA applyQCGood ==
  ASSUME NEW r, NEW s, GoodReplica(r, s), GoodBlocks, NEW qc \in QC, ValidQC(qc)
  PROVE  GoodReplica(r, applyQC(r, s, qc))
BY BufferQCGood, CertificateGood DEF applyQC

\* AddTmo, and the advance on the two TCs it makes.
LEMMA addTmoGood ==
  ASSUME NEW r, NEW s, GoodReplica(r, s), NEW tmo \in TMO, tmo.sseq = tmo.fseq + 1
  PROVE  GoodReplica(r, addTmo(r, s, tmo))
<1> DEFINE nodesOf(timeouts) == {x \in Node : <<tmo.view, x>> \in timeouts}
           T == s.timeouts \cup {<<tmo.view, tmo.node>>}
           more == [s EXCEPT !.timeouts = T]
           ftc == [view |-> tmo.fseq, seq |-> tmo.fseq]
           stc == [view |-> tmo.sseq, seq |-> tmo.sseq]
           u == updateHighTC(updateHighTC(more, ftc), stc)
<1>1. s \in ReplicaState
  BY DEF GoodReplica, Sound
<1>2. T \in SUBSET (Nat \X Node)
  BY <1>1 DEF ReplicaState, TMO
<1>3. GoodReplica(r, more)
  <2> HIDE DEF T
  <2>1. more \in ReplicaState
    BY <1>1, <1>2, ZenonT(60) DEF ReplicaState
  <2> QED BY <1>1, <2>1 DEF GoodReplica, Sound, ReplicaState
<1>4. ftc \in TC /\ stc \in TC /\ PairOfTCs(ftc, stc) /\ ftc.view \in Nat /\ ftc.seq \in Nat
  BY DEF TMO, TC, PairOfTCs, NoTC
<1>5. addTmo(r, s, tmo) = IF superMajority(nodesOf(s.timeouts)) THEN s
                          ELSE IF ~ superMajority(nodesOf(more.timeouts)) THEN more
                          ELSE AdvanceView(r, u, ftc.view, ftc.seq, TimeoutF)
  BY DEF addTmo
<1> HIDE DEF more, ftc, stc
<1>6. GoodReplica(r, u)
  BY <1>3, <1>4, TwoTCsGood
<1> HIDE DEF u
<1>7. TimeoutF \in {NoTimeout, TimeoutF, TimeoutS}
  OBVIOUS
<1>8. GoodReplica(r, AdvanceView(r, u, ftc.view, ftc.seq, TimeoutF))
  BY <1>4, <1>6, <1>7, AdvanceViewGood
<1> QED BY <1>3, <1>5, <1>8

-----------------------------------------------------------------------------
(* What a step leaves true: votes are not withdrawn, proposals not changed *)

Grows ==
  /\ \A q \in Node : st[q].voted \subseteq st'[q].voted
  /\ \A v \in Proposed : block'[v] = block[v]

\* Proposals stay.
LEMMA ProposedGrows ==
  ASSUME Grows
  PROVE  Proposed \subseteq Proposed'
BY DEF Grows, Proposed

\* Certified blocks stay certified.
LEMMA CertifiedGrows ==
  ASSUME Grows, NEW v, Certified(v)
  PROVE  Certified(v)'
<1> DEFINE S == {q \in Node : v \in st[q].voted}
           T == {q \in Node : v \in st'[q].voted}
<1>1. S \subseteq T /\ T \subseteq Node
  BY DEF Grows
<1>2. superMajority(S)
  BY DEF Certified
<1> HIDE DEF S, T
<1>3. superMajority(T)
  BY <1>1, <1>2, SuperMajorityGrows
<1> QED BY <1>3 DEF T, Certified, superMajority

\* Votes stay cast.
LEMMA CastGrows ==
  ASSUME Grows, NEW q \in Node, NEW v, Cast(q, v)
  PROVE  Cast(q, v)'
BY ProposedGrows DEF Grows, Cast

\* Valid certificates stay valid.
LEMMA ValidGrows ==
  ASSUME Grows, NEW qc \in QC, ValidQC(qc)
  PROVE  ValidQC(qc)'
<1>1. CASE qc.block = 0
  BY <1>1 DEF ValidQC
<1>2. CASE qc.block # 0
  <2>1. qc.block \in Proposed /\ qc.seq = block[qc.block].seq /\ Certified(qc.block)
    BY <1>2, MaxViewNat DEF ValidQC, Proposed, QC, Id, View
  <2>2. block'[qc.block] = block[qc.block]
    BY <2>1 DEF Grows
  <2>3. Certified(qc.block)'
    BY <2>1, CertifiedGrows
  <2> QED BY <1>2, <2>2, <2>3 DEF ValidQC
<1> QED BY <1>1, <1>2

\* Good blocks stay good.
LEMMA GoodBlockGrows ==
  ASSUME Grows, NEW b \in Block, GoodBlock(b)
  PROVE  GoodBlock(b)'
<1>1. b.qc \in QC /\ ValidQC(b.qc)
  BY DEF GoodBlock, Block
<1>2. ValidQC(b.qc)'
  BY <1>1, ValidGrows
<1> QED BY <1>2 DEF GoodBlock, PairOfTCs

\* Chains of certified blocks stay.
LEMMA ChainGrows ==
  ASSUME Grows, NEW seq
  PROVE  /\ TwoChain(seq) => TwoChain(seq)'
         /\ ThreeChain(seq) => ThreeChain(seq)'
<1>1. \A v : Certified(v) => Certified(v)'
  BY CertifiedGrows
<1>2. \A v \in Proposed : v \in Proposed' /\ block'[v] = block[v]
  BY ProposedGrows DEF Grows
<1>3. ASSUME TwoChain(seq) PROVE TwoChain(seq)'
  <2>1. PICK v \in Proposed :
           LET parent == block[v].qc.block
           IN  /\ Certified(v)
               /\ parent \in Proposed /\ Certified(parent)
               /\ block[parent].seq = seq
    BY <1>3 DEF TwoChain
  <2> DEFINE parent == block[v].qc.block
  <2>2. /\ v \in Proposed' /\ block'[v].qc.block = parent /\ Certified(v)'
        /\ parent \in Proposed' /\ block'[parent].seq = seq
    BY <1>1, <1>2, <2>1
  <2>3. PICK p : p = parent
    OBVIOUS
  <2>4. Certified(p) /\ p \in Proposed
    BY <2>1, <2>3
  <2>5. Certified(p)'
    BY <1>1, <2>4
  <2> QED BY <2>2, <2>3, <2>5 DEF TwoChain, Certified, superMajority
<1>4. ASSUME ThreeChain(seq) PROVE ThreeChain(seq)'
  <2>1. PICK v2 \in Proposed :
           LET v1 == block[v2].qc.block
               v0 == block[v1].qc.block
           IN  /\ v1 \in Proposed /\ v0 \in Proposed
               /\ Certified(v2) /\ Certified(v1) /\ Certified(v0)
               /\ block[v0].seq = seq
    BY <1>4 DEF ThreeChain
  <2>2. PICK v1 : v1 = block[v2].qc.block
    OBVIOUS
  <2>3. PICK v0 : v0 = block[v1].qc.block
    OBVIOUS
  <2>4. /\ v1 \in Proposed /\ v0 \in Proposed
        /\ Certified(v2) /\ Certified(v1) /\ Certified(v0)
        /\ block[v0].seq = seq
    BY <2>1, <2>2, <2>3
  <2>5. Certified(v2)' /\ Certified(v1)' /\ Certified(v0)'
    BY <1>1, <2>4
  <2>6. /\ v2 \in Proposed' /\ v1 \in Proposed' /\ v0 \in Proposed'
        /\ block'[v2].qc.block = v1 /\ block'[v1].qc.block = v0 /\ block'[v0].seq = seq
    BY <1>2, <2>2, <2>3, <2>4
  <2> QED BY <2>5, <2>6 DEF ThreeChain, Certified, superMajority
<1> QED BY <1>3, <1>4

\* A record that was good before the step is good after it.
LEMMA ReplicaGrows ==
  ASSUME Grows, NEW r \in Node, NEW s, GoodReplica(r, s), st'[r].voted \subseteq s.voted,
         GoodQueue(r, s.curView, s.held, s.newViews)'
  PROVE  GoodReplica(r, s)'
<1>1. s \in ReplicaState
  BY DEF GoodReplica, Sound
<1>2. KnownBlocks(s.forest, s.bufferedBlocks, s.recursive, s.blocked)'
  BY ProposedGrows DEF GoodReplica, Sound, KnownBlocks
<1>3. KnownVotes(s.votes, s.dual)'
  <2>1. /\ \A x \in s.votes : x[1] \in Node /\ Cast(x[1], x[2])
        /\ \A x \in s.dual : x[1] \in Node /\ (x[2] = 0 \/ Cast(x[1], x[2]))
    BY <1>1 DEF GoodReplica, Sound, KnownVotes, ReplicaState
  <2> QED BY <2>1, CastGrows DEF KnownVotes
<1>4. ValidQCs(s.highQC, s.secHighQC, s.bufferedQCs, s.waiting)'
  <2>1. /\ s.highQC \in QC /\ ValidQC(s.highQC)
        /\ s.secHighQC \in QC /\ ValidQC(s.secHighQC)
        /\ \A qc \in s.bufferedQCs : qc \in QC /\ ValidQC(qc)
        /\ s.waiting # NoQC => s.waiting \in QC /\ ValidQC(s.waiting)
    BY <1>1 DEF GoodReplica, Sound, ValidQCs, ReplicaState
  <2> QED BY <2>1, ValidGrows DEF ValidQCs
<1>5. PairOfTCs(s.secHighTC, s.highTC)' /\ OrderedQCs(s.highQC, s.secHighQC, s.curView)'
  BY DEF GoodReplica, Sound, PairOfTCs, OrderedQCs
<1>6. /\ s.preferredSeq # 0 => TwoChain(s.preferredSeq)'
      /\ s.forest.lowest # 0 => ThreeChain(s.forest.lowest)'
  BY ChainGrows DEF GoodReplica, Sound
<1> QED BY <1>1, <1>2, <1>3, <1>4, <1>5, <1>6 DEF GoodReplica, Sound, ReplicaState

\* The queue, when nothing is published.
LEMMA QueueGrows ==
  ASSUME Grows, Proposed' = Proposed, NEW r, NEW curView, NEW held \in Block \cup {NoBlock},
         NEW newViews, GoodQueue(r, curView, held, newViews)
  PROVE  GoodQueue(r, curView, held, newViews)'
<1>1. held # NoBlock => GoodBlock(held)'
  BY GoodBlockGrows DEF GoodQueue
<1> QED BY <1>1 DEF GoodQueue

\* The proposals, when nothing is published.
LEMMA BlocksGrow ==
  ASSUME Grows, GoodBlocks, block' = block
  PROVE  GoodBlocks'
<1>1. Proposed' = Proposed
  BY DEF Proposed
<1>2. ASSUME NEW v \in Proposed, NEW b, b = block[v]
      PROVE  GoodBlock(b)'
  <2>1. b \in Block /\ GoodBlock(b)
    BY <1>2 DEF GoodBlocks, Proposed
  <2> QED BY <2>1, GoodBlockGrows
<1>3. \A v \in Proposed' : GoodBlock(block[v])'
  BY <1>1, <1>2 DEF GoodBlock, ValidQC, Certified, superMajority, PairOfTCs
<1> QED BY <1>1, <1>3 DEF GoodBlocks

\* The timeout messages.
LEMMA TmosGrow ==
  ASSUME Grows, \A tmo \in tmos' : GoodTmo(tmo)
  PROVE  GoodTmos'
<1>1. ASSUME NEW tmo \in tmos'
      PROVE  GoodTmo(tmo)'
  <2>1. tmo \in TMO /\ ValidQC(tmo.highQC) /\ tmo.sseq = tmo.fseq + 1
    BY DEF GoodTmo
  <2>2. tmo.highQC \in QC
    BY <2>1 DEF TMO
  <2>3. ValidQC(tmo.highQC)'
    BY <2>1, <2>2, ValidGrows
  <2> QED BY <2>1, <2>3 DEF GoodTmo
<1> QED BY <1>1 DEF GoodTmos

\* A vote that has been cast may be on its way to anybody.
LEMMA DualGrows ==
  ASSUME NEW q \in Node, NEW u, GoodReplica(q, u)',
         NEW vote \in Node \X Id \X Nat, vote[2] = 0 \/ Cast(vote[1], vote[2])'
  PROVE  GoodReplica(q, [u EXCEPT !.dual = @ \cup {vote}])'
<1> DEFINE D == u.dual \cup {vote}
           t == [u EXCEPT !.dual = D]
<1>1. u \in ReplicaState
  BY DEF GoodReplica, Sound, ReplicaState
<1>2. D \in SUBSET (Node \X Id \X Nat)
  BY <1>1 DEF ReplicaState
<1>3. KnownVotes(u.votes, D)'
  BY DEF GoodReplica, Sound, KnownVotes
<1> HIDE DEF D
<1>4. t \in ReplicaState
  BY <1>1, <1>2, ZenonT(60) DEF ReplicaState
<1>5. GoodReplica(q, t)'
  <2>1. /\ t.voted = u.voted /\ t.forest = u.forest /\ t.bufferedBlocks = u.bufferedBlocks
        /\ t.recursive = u.recursive /\ t.blocked = u.blocked /\ t.votes = u.votes /\ t.dual = D
        /\ t.highQC = u.highQC /\ t.secHighQC = u.secHighQC /\ t.bufferedQCs = u.bufferedQCs
        /\ t.waiting = u.waiting /\ t.secHighTC = u.secHighTC /\ t.highTC = u.highTC
        /\ t.curView = u.curView /\ t.held = u.held /\ t.newViews = u.newViews
        /\ t.preferredSeq = u.preferredSeq
    BY <1>1 DEF ReplicaState
  <2> HIDE DEF t
  <2> QED BY <1>3, <1>4, <2>1 DEF GoodReplica, Sound, ReplicaState
<1> QED BY <1>5 DEF D

\* U is what the handler leaves, before it sends its vote.
Handled(U) ==
  /\ U \in [Node -> ReplicaState]
  /\ \A q \in Node : GoodReplica(q, U[q])

Delivers(q, u, t) ==
  \/ t = u
  \/ \E vote \in Node \X Id \X Nat :
       /\ vote[2] = 0 \/ Cast(vote[1], vote[2])'
       /\ t = [u EXCEPT !.dual = @ \cup {vote}]

\* A step made of handlers that keep GoodReplica, and of votes on their way.
LEMMA HandledStep ==
  ASSUME IInv, NEW U, Handled(U),
         st' \in [Node -> ReplicaState],
         \A q \in Node : st'[q].voted = U[q].voted,
         \A q \in Node : \A t \in ReplicaState : t = st'[q] => Delivers(q, U[q], t),
         block' = block, \A tmo \in tmos' : GoodTmo(tmo)
  PROVE  IInv' /\ Grows
<1>1. Grows
  <2>1. \A q \in Node : st[q].voted \subseteq U[q].voted
    BY DEF Handled, GoodReplica, Sound
  <2> QED BY <2>1 DEF Grows
<1>2. Proposed' = Proposed
  BY DEF Proposed
<1>3. ASSUME NEW q \in Node, NEW t \in ReplicaState, t = st'[q]
      PROVE  GoodReplica(q, t)'
  <2>1. PICK u : u = U[q]
    OBVIOUS
  <2>2. GoodReplica(q, u) /\ u \in ReplicaState /\ st'[q].voted = u.voted
    BY <2>1 DEF Handled
  <2>3. GoodQueue(q, u.curView, u.held, u.newViews) /\ u.held \in Block \cup {NoBlock}
    BY <2>2 DEF GoodReplica, Sound, ReplicaState
  <2>4. GoodQueue(q, u.curView, u.held, u.newViews)'
    BY <1>1, <1>2, <2>3, QueueGrows
  <2>5. GoodReplica(q, u)'
    BY <1>1, <2>2, <2>4, ReplicaGrows
  <2>6. Delivers(q, u, t)
    BY <1>3, <2>1
  <2>7. CASE t = u
    BY <2>5, <2>7
  <2>8. CASE t # u
    <3>1. PICK vote \in Node \X Id \X Nat :
             /\ vote[2] = 0 \/ Cast(vote[1], vote[2])'
             /\ t = [u EXCEPT !.dual = @ \cup {vote}]
      BY <2>6, <2>8 DEF Delivers
    <3>2. GoodReplica(q, [u EXCEPT !.dual = @ \cup {vote}])'
      BY <2>5, <3>1, DualGrows
    <3> QED BY <3>1, <3>2
  <2> QED BY <2>7, <2>8
<1>4. GoodReplicas'
  BY <1>3 DEF GoodReplicas
<1>5. GoodBlocks' /\ GoodTmos'
  BY <1>1, BlocksGrow, TmosGrow DEF IInv
<1> QED BY <1>1, <1>4, <1>5 DEF IInv

\* The record a handler starts from.
LEMMA StartsGood ==
  ASSUME IInv, NEW r \in Node
  PROVE  st[r] \in ReplicaState /\ GoodReplica(r, st[r])
BY DEF IInv, GoodReplicas

\* A handler of one replica.
LEMMA HandledOne ==
  ASSUME IInv, NEW r \in Node, NEW t, GoodReplica(r, t)
  PROVE  Handled([st EXCEPT ![r] = t])
<1>1. t \in ReplicaState
  BY DEF GoodReplica, Sound
<1> QED BY <1>1, StartsGood DEF Handled, IInv

\* A handler that sends no vote.
LEMMA OneStep ==
  ASSUME IInv, NEW r \in Node, NEW t, GoodReplica(r, t), st' = [st EXCEPT ![r] = t],
         block' = block, tmos' = tmos
  PROVE  IInv' /\ Grows
<1> DEFINE U == [st EXCEPT ![r] = t]
<1>1. Handled(U)
  BY HandledOne
<1>2. st' = U
  OBVIOUS
<1>3. \A tmo \in tmos' : GoodTmo(tmo)
  BY DEF IInv, GoodTmos
<1> HIDE DEF U
<1> QED BY <1>1, <1>2, <1>3, HandledStep DEF Handled, Delivers

\* A handler of the main loop, which may vote for v.
LEMMA VoteStep ==
  ASSUME IInv, NEW r \in Node, NEW t, GoodReplica(r, t), NEW v \in Proposed,
         st' = HandleVote([st EXCEPT ![r] = t], r, v), block' = block, tmos' = tmos
  PROVE  IInv' /\ Grows
<1> DEFINE U == [st EXCEPT ![r] = t]
           a == Leader(v + 2)
           vote == <<r, v, Cardinality(U[r].voted)>>
           W == [U EXCEPT ![a].dual = @ \cup {vote}]
<1>1. Handled(U)
  BY HandledOne
<1>2. st' = U \/ (v \in U[r].voted /\ st' = W)
  BY DEF HandleVote
<1> HIDE DEF U
<1>0. \A tmo \in tmos' : GoodTmo(tmo)
  BY DEF IInv, GoodTmos
<1>3. CASE st' = U
  BY <1>0, <1>1, <1>3, HandledStep DEF Handled, Delivers
<1>4. CASE v \in U[r].voted /\ st' = W
  <2>1. U \in [Node -> ReplicaState] /\ U[r] \in ReplicaState
    BY <1>1 DEF Handled
  <2>2. vote \in Node \X Id \X Nat
    <3>1. U[r].voted \in SUBSET View
      BY <2>1 DEF ReplicaState
    <3>2. IsFiniteSet(View)
      BY MaxViewNat, FS_Interval DEF View
    <3>3. Cardinality(U[r].voted) \in Nat
      BY <3>1, <3>2, FS_Subset, FS_CardinalityType
    <3> QED BY <3>3, MaxViewNat DEF Proposed, View, Id
  <2>3. vote[1] = r /\ vote[2] = v
    OBVIOUS
  <2> HIDE DEF vote, a
  <2>4. \A q \in Node : /\ U[q] \in ReplicaState
                        /\ W[q] = U[q] \/ W[q] = [U[q] EXCEPT !.dual = @ \cup {vote}]
    BY <2>1
  <2>5. ASSUME NEW u \in ReplicaState
        PROVE  /\ [u EXCEPT !.dual = @ \cup {vote}] \in ReplicaState
               /\ [u EXCEPT !.dual = @ \cup {vote}].voted = u.voted
    <3> DEFINE D == u.dual \cup {vote}
    <3>1. D \in SUBSET (Node \X Id \X Nat)
      BY <2>2 DEF ReplicaState
    <3> HIDE DEF D
    <3>2. [u EXCEPT !.dual = D] \in ReplicaState /\ [u EXCEPT !.dual = D].voted = u.voted
      BY <3>1, ZenonT(60) DEF ReplicaState
    <3> QED BY <3>2 DEF D
  <2>6. \A q \in Node : W[q] \in ReplicaState /\ W[q].voted = U[q].voted
    BY <2>4, <2>5
  <2>7. W \in [Node -> ReplicaState]
    BY <2>1, <2>6
  <2>8. \A q \in Node : st'[q].voted = U[q].voted
    BY <1>4, <2>6
  <2>9. Cast(r, v)'
    <3>1. v \in st'[r].voted /\ v \in Proposed'
      BY <1>4, <2>8 DEF Proposed
    <3> QED BY <3>1 DEF Cast
  <2>10. PICK x \in Node \X Id \X Nat : x = vote /\ x[1] = r /\ x[2] = v
    BY <2>2, <2>3
  <2>11. Cast(x[1], x[2])'
    BY <2>9, <2>10 DEF Cast
  <2>12. ASSUME NEW q \in Node, NEW w \in ReplicaState, w = st'[q]
         PROVE  Delivers(q, U[q], w)
    BY <1>4, <2>4, <2>10, <2>11, <2>12 DEF Delivers
  <2> QED BY <1>0, <1>1, <1>4, <2>7, <2>8, <2>12, HandledStep
<1> QED BY <1>2, <1>3, <1>4

-----------------------------------------------------------------------------
(* The actions that leave the proposals alone *)

\* The first leader starts: AdvanceView and the vote for the zero id.
LEMMA KickOffStep ==
  ASSUME IInv, NEW r \in Node, KickOff(r)
  PROVE  IInv' /\ Grows
<1> DEFINE t == AdvanceView(r, st[r], 0, 0, NoTimeout)
           U == [st EXCEPT ![r] = t]
           vote == <<r, 0, 0>>
           w == [t EXCEPT !.dual = @ \cup {vote}]
<1>1. GoodReplica(r, t)
  <2>1. NoTimeout \in {NoTimeout, TimeoutF, TimeoutS} /\ 0 \in Nat
    OBVIOUS
  <2> QED BY <2>1, StartsGood, AdvanceViewGood
<1>2. st' = [st EXCEPT ![r] = w] /\ block' = block /\ tmos' = tmos
  BY DEF KickOff
<1>3. vote \in Node \X Id \X Nat /\ vote[2] = 0
  BY MaxViewNat DEF Id
<1> HIDE DEF t, vote
<1>4. t \in ReplicaState /\ st \in [Node -> ReplicaState]
  BY <1>1 DEF GoodReplica, Sound, IInv
<1>5. w \in ReplicaState /\ w.voted = t.voted
  <2> DEFINE D == t.dual \cup {vote}
  <2>1. D \in SUBSET (Node \X Id \X Nat)
    BY <1>3, <1>4 DEF ReplicaState
  <2> HIDE DEF D
  <2>2. [t EXCEPT !.dual = D] \in ReplicaState /\ [t EXCEPT !.dual = D].voted = t.voted
    BY <1>4, <2>1, ZenonT(60) DEF ReplicaState
  <2> QED BY <2>2 DEF D
<1>6. Handled(U)
  BY <1>1, HandledOne
<1>7. Delivers(r, t, w)
  BY <1>3 DEF Delivers
<1> HIDE DEF w
<1>8. \A q \in Node : /\ q = r => st'[q] = w /\ U[q] = t
                      /\ q # r => st'[q] = st[q] /\ U[q] = st[q]
  BY <1>2, <1>4
<1>9. st' \in [Node -> ReplicaState]
  BY <1>2, <1>4, <1>5
<1>10. \A q \in Node : st'[q].voted = U[q].voted
  BY <1>5, <1>8
<1>11. \A q \in Node : \A x \in ReplicaState : x = st'[q] => Delivers(q, U[q], x)
  <2> SUFFICES ASSUME NEW q \in Node, NEW x \in ReplicaState, x = st'[q]
               PROVE  Delivers(q, U[q], x)
    OBVIOUS
  <2>1. CASE q = r
    BY <2>1, <1>7, <1>8
  <2>2. CASE q # r
    BY <2>2, <1>8 DEF Delivers
  <2> QED BY <2>1, <2>2
<1>12. \A tmo \in tmos' : GoodTmo(tmo)
  BY <1>2 DEF IInv, GoodTmos
<1> HIDE DEF U
<1> QED BY <1>2, <1>6, <1>9, <1>10, <1>11, <1>12, HandledStep

\* Removals and resets that a handler makes first or last.
LEMMA Leaves ==
  ASSUME NEW r, NEW s, GoodReplica(r, s)
  PROVE  /\ \A X \in SUBSET View : GoodReplica(r, [s EXCEPT !.received = X])
         /\ \A X \in SUBSET s.bufferedBlocks : GoodReplica(r, [s EXCEPT !.bufferedBlocks = X])
         /\ GoodReplica(r, [s EXCEPT !.recursive = 0])
         /\ GoodReplica(r, [s EXCEPT !.blocked = 0])
         /\ GoodReplica(r, [s EXCEPT !.waiting = NoQC])
         /\ \A X \in SUBSET s.dual : GoodReplica(r, [s EXCEPT !.dual = X])
         /\ \A X \in Seq(Signal) : GoodReplica(r, [s EXCEPT !.proposeChan = X])
<1>0. s \in ReplicaState
  BY DEF GoodReplica, Sound
<1>1. ASSUME NEW X \in SUBSET View PROVE GoodReplica(r, [s EXCEPT !.received = X])
  <2>1. [s EXCEPT !.received = X] \in ReplicaState
    BY <1>0, ZenonT(60) DEF ReplicaState
  <2> QED BY <1>0, <2>1 DEF GoodReplica, Sound, ReplicaState
<1>2. ASSUME NEW X \in SUBSET s.bufferedBlocks
      PROVE  GoodReplica(r, [s EXCEPT !.bufferedBlocks = X])
  <2>1. [s EXCEPT !.bufferedBlocks = X] \in ReplicaState
    BY <1>0, ZenonT(60) DEF ReplicaState
  <2>2. KnownBlocks(s.forest, X, s.recursive, s.blocked)
    BY DEF GoodReplica, Sound, KnownBlocks
  <2> QED BY <1>0, <2>1, <2>2 DEF GoodReplica, Sound, ReplicaState
<1>3. 0 \in Id
  BY MaxViewNat DEF Id
<1>4. GoodReplica(r, [s EXCEPT !.recursive = 0])
  <2>1. [s EXCEPT !.recursive = 0] \in ReplicaState
    BY <1>0, <1>3, ZenonT(60) DEF ReplicaState
  <2>2. KnownBlocks(s.forest, s.bufferedBlocks, 0, s.blocked)
    BY DEF GoodReplica, Sound, KnownBlocks
  <2> QED BY <1>0, <2>1, <2>2 DEF GoodReplica, Sound, ReplicaState
<1>5. GoodReplica(r, [s EXCEPT !.blocked = 0])
  <2>1. [s EXCEPT !.blocked = 0] \in ReplicaState
    BY <1>0, <1>3, ZenonT(60) DEF ReplicaState
  <2>2. KnownBlocks(s.forest, s.bufferedBlocks, s.recursive, 0)
    BY DEF GoodReplica, Sound, KnownBlocks
  <2> QED BY <1>0, <2>1, <2>2 DEF GoodReplica, Sound, ReplicaState
<1>6. GoodReplica(r, [s EXCEPT !.waiting = NoQC])
  <2>1. [s EXCEPT !.waiting = NoQC] \in ReplicaState
    BY <1>0, ZenonT(60) DEF ReplicaState
  <2>2. ValidQCs(s.highQC, s.secHighQC, s.bufferedQCs, NoQC)
    BY DEF GoodReplica, Sound, ValidQCs
  <2> QED BY <1>0, <2>1, <2>2 DEF GoodReplica, Sound, ReplicaState
<1>7. ASSUME NEW X \in SUBSET s.dual PROVE GoodReplica(r, [s EXCEPT !.dual = X])
  <2>1. [s EXCEPT !.dual = X] \in ReplicaState
    BY <1>0, ZenonT(60) DEF ReplicaState
  <2>2. KnownVotes(s.votes, X)
    BY DEF GoodReplica, Sound, KnownVotes
  <2> QED BY <1>0, <2>1, <2>2 DEF GoodReplica, Sound, ReplicaState
<1>8. ASSUME NEW X \in Seq(Signal) PROVE GoodReplica(r, [s EXCEPT !.proposeChan = X])
  <2>1. [s EXCEPT !.proposeChan = X] \in ReplicaState
    BY <1>0, ZenonT(60) DEF ReplicaState
  <2> QED BY <1>0, <2>1 DEF GoodReplica, Sound, ReplicaState
<1> QED BY <1>1, <1>2, <1>4, <1>5, <1>6, <1>7, <1>8

\* A block from the network.
LEMMA ProcessBlockStep ==
  ASSUME IInv, NEW r \in Node, NEW v \in View, ProcessBlock(r, v)
  PROVE  IInv' /\ Grows
<1> DEFINE X == st[r].received \cup {v}
           s == [st[r] EXCEPT !.received = X]
           t == processBlock(r, s, block[v])
<1>1. v \in Proposed /\ Received(block[v])
  BY DEF ProcessBlock, CanProcessBlock, Proposed, Received
<1>2. X \in SUBSET View
  BY StartsGood DEF ReplicaState
<1>3. st' = HandleVote([st EXCEPT ![r] = t], r, v) /\ block' = block /\ tmos' = tmos
  BY DEF ProcessBlock
<1> HIDE DEF X
<1>4. GoodReplica(r, s)
  BY <1>2, StartsGood, Leaves
<1> HIDE DEF s
<1>5. GoodReplica(r, t)
  BY <1>1, <1>4, processBlockGood DEF IInv
<1> HIDE DEF t
<1> QED BY <1>1, <1>3, <1>5, VoteStep

\* A block from the buffer.
LEMMA ProcessBufferedStep ==
  ASSUME IInv, NEW r \in Node, ProcessBufferedBlock(r)
  PROVE  IInv' /\ Grows
<1> DEFINE v == st[r].recursive
           s == [st[r] EXCEPT !.recursive = 0]
           p == processBlock(r, s, block[v])
           X == p.bufferedBlocks \ {v}
           t == [p EXCEPT !.bufferedBlocks = X]
<1>1. v \in Proposed /\ Received(block[v])
  BY StartsGood DEF ProcessBufferedBlock, CanProcessBuffered, GoodReplica, Sound, KnownBlocks, Received
<1>2. st' = HandleVote([st EXCEPT ![r] = t], r, v) /\ block' = block /\ tmos' = tmos
  BY DEF ProcessBufferedBlock
<1> HIDE DEF v
<1>3. GoodReplica(r, s)
  BY StartsGood, Leaves
<1> HIDE DEF s
<1>4. GoodReplica(r, p)
  BY <1>1, <1>3, processBlockGood DEF IInv
<1> HIDE DEF p
<1>5. X \in SUBSET p.bufferedBlocks
  OBVIOUS
<1> HIDE DEF X
<1>6. GoodReplica(r, t)
  BY <1>4, <1>5, Leaves
<1> HIDE DEF t
<1> QED BY <1>1, <1>2, <1>6, VoteStep

\* A block whose signal had to wait.
LEMMA ResumeBlockStep ==
  ASSUME IInv, NEW r \in Node, ResumeBlock(r)
  PROVE  IInv' /\ Grows
<1> DEFINE v == st[r].blocked
           s == [st[r] EXCEPT !.blocked = 0]
           sent == sendSignal(s, Continue, 0)
           t == commitAndVote(r, sent, block[v])
<1>1. v \in Proposed /\ Received(block[v])
  BY StartsGood DEF ResumeBlock, CanResumeBlock, GoodReplica, Sound, KnownBlocks, Received
<1>2. st' = HandleVote([st EXCEPT ![r] = t], r, v) /\ block' = block /\ tmos' = tmos
  BY DEF ResumeBlock
<1> HIDE DEF v
<1>3. GoodReplica(r, s)
  BY StartsGood, Leaves
<1> HIDE DEF s
<1>4. GoodReplica(r, sent)
  <2>1. Continue \in {Continue, Drop} /\ 0 \in Nat
    OBVIOUS
  <2> QED BY <1>3, <2>1, sendSignalGood
<1> HIDE DEF sent
<1>5. GoodReplica(r, t)
  BY <1>1, <1>4, commitAndVoteGood DEF IInv
<1> HIDE DEF t
<1> QED BY <1>1, <1>2, <1>5, VoteStep

\* A vote.
LEMMA ProcessVoteStep ==
  ASSUME IInv, NEW r \in Node, NEW vote \in st[r].dual, ProcessVote(r, vote)
  PROVE  IInv' /\ Grows
<1> DEFINE X == st[r].dual \ {vote}
           s == [st[r] EXCEPT !.dual = X]
           t == addVote(s, vote[1], vote[2])
<1>1. st' = [st EXCEPT ![r] = t] /\ block' = block /\ tmos' = tmos
  BY DEF ProcessVote
<1>2. vote[1] \in Node /\ vote[2] \in Id /\ (vote[2] = 0 \/ Cast(vote[1], vote[2]))
  BY StartsGood DEF ReplicaState, GoodReplica, Sound, KnownVotes
<1>3. X \in SUBSET st[r].dual
  OBVIOUS
<1> HIDE DEF X
<1>4. GoodReplica(r, s)
  BY <1>3, StartsGood, Leaves
<1> HIDE DEF s
<1>5. GoodReplica(r, t)
  BY <1>2, <1>4, addVoteGood DEF IInv
<1> HIDE DEF t
<1> QED BY <1>1, <1>5, OneStep

\* A signal.
LEMMA ReceiveSignalStep ==
  ASSUME IInv, NEW r \in Node, ReceiveSignal(r)
  PROVE  IInv' /\ Grows
<1> DEFINE c == Tail(st[r].proposeChan)
           sig == Head(st[r].proposeChan)
           qc == st[r].waiting
           rest == [st[r] EXCEPT !.proposeChan = c]
           free == [rest EXCEPT !.waiting = NoQC]
           t == IF sig.ope = Continue THEN applyQC(r, free, qc)
                ELSE IF sig.view > qc.view THEN free
                ELSE rest
<1>1. st' = [st EXCEPT ![r] = t] /\ block' = block /\ tmos' = tmos
  BY DEF ReceiveSignal
<1>2. qc \in QC /\ ValidQC(qc)
  BY StartsGood DEF ReceiveSignal, CanReceiveSignal, ReplicaState, GoodReplica, Sound, ValidQCs
<1>3. c \in Seq(Signal)
  <2>1. st[r].proposeChan \in Seq(Signal) /\ st[r].proposeChan # <<>>
    BY StartsGood DEF ReceiveSignal, CanReceiveSignal, ReplicaState
  <2> QED BY <2>1
<1> HIDE DEF c, sig, qc
<1>4. GoodReplica(r, rest)
  BY <1>3, StartsGood, Leaves
<1> HIDE DEF rest
<1>5. GoodReplica(r, free)
  BY <1>4, Leaves
<1> HIDE DEF free
<1>6. GoodReplica(r, applyQC(r, free, qc))
  BY <1>2, <1>5, applyQCGood DEF IInv
<1>7. GoodReplica(r, t)
  BY <1>4, <1>5, <1>6
<1> HIDE DEF t
<1> QED BY <1>1, <1>7, OneStep

\* A timeout message.
LEMMA RemoteTmoStep ==
  ASSUME IInv, NEW r \in Node, NEW tmo \in tmos, ProcessRemoteTmo(r, tmo)
  PROVE  IInv' /\ Grows
<1> DEFINE s == processCertificate(r, st[r], tmo.highQC)
           t == IF tmo.view < s.curView THEN s ELSE addTmo(r, s, tmo)
<1>1. st' = [st EXCEPT ![r] = t] /\ block' = block /\ tmos' = tmos
  BY DEF ProcessRemoteTmo
<1>2. tmo \in TMO /\ ValidQC(tmo.highQC) /\ tmo.sseq = tmo.fseq + 1
  BY DEF IInv, GoodTmos, GoodTmo
<1>3. tmo.highQC \in QC
  BY <1>2 DEF TMO
<1>4. GoodReplica(r, s)
  BY <1>2, <1>3, StartsGood, CertificateGood DEF IInv
<1> HIDE DEF s
<1>5. GoodReplica(r, addTmo(r, s, tmo))
  BY <1>2, <1>4, addTmoGood
<1>6. GoodReplica(r, t)
  BY <1>4, <1>5
<1> HIDE DEF t
<1> QED BY <1>1, <1>6, OneStep

\* The timer.
LEMMA LocalTmoStep ==
  ASSUME IInv, NEW r \in Node, ProcessLocalTmo(r)
  PROVE  IInv' /\ Grows
<1> DEFINE s == st[r]
<1> PICK view \in TimerViews :
       tmos' = tmos \cup {[view |-> view + 1, fseq |-> s.curSeq, sseq |-> s.curSeq + 1,
                          node |-> r, highQC |-> s.highQC]}
  BY DEF ProcessLocalTmo
<1> DEFINE new == [view |-> view + 1, fseq |-> s.curSeq, sseq |-> s.curSeq + 1,
                   node |-> r, highQC |-> s.highQC]
<1>1. tmos' = tmos \cup {new} /\ st' = st /\ block' = block
  BY DEF ProcessLocalTmo
<1>2. view \in Nat /\ s.curSeq \in Nat /\ s.highQC \in QC /\ ValidQC(s.highQC)
  BY StartsGood, TimersNat DEF ReplicaState, GoodReplica, Sound, ValidQCs
<1> HIDE DEF s
<1>3. GoodTmo(new)
  BY <1>2 DEF GoodTmo, TMO
<1> HIDE DEF new
<1>4. \A tmo \in tmos' : GoodTmo(tmo)
  BY <1>1, <1>3 DEF IInv, GoodTmos
<1>5. Handled(st)
  BY StartsGood DEF Handled, IInv
<1> QED BY <1>1, <1>4, <1>5, HandledStep DEF Handled, Delivers

\* Nothing.
LEMMA StutterStep ==
  ASSUME IInv, UNCHANGED vars
  PROVE  IInv' /\ Grows
<1>1. st' = st /\ block' = block /\ tmos' = tmos
  BY DEF vars
<1>2. \A tmo \in tmos' : GoodTmo(tmo)
  BY <1>1 DEF IInv, GoodTmos
<1>3. Handled(st)
  BY StartsGood DEF Handled, IInv
<1> QED BY <1>1, <1>2, <1>3, HandledStep DEF Handled, Delivers

-----------------------------------------------------------------------------
(* Proposals *)

\* b may be published by r, which is then left in state t.
Publishable(r, t, b) ==
  /\ b \in Block /\ GoodBlock(b)
  /\ Leader(b.view) = r
  /\ b.view <= t.curView
  /\ \A v \in Proposed : Leader(v) = r => v < b.view
  /\ t.held = NoBlock
  /\ \A i \in 1..Len(t.newViews) : b.view < t.newViews[i].view

Kept == \A v \in View : block[v] # NoBlock => block'[v] = block[v]

\* The history field nth does not matter.
LEMMA NumberedBlock ==
  ASSUME NEW b \in Block, NEW n \in Nat, GoodBlock(b)
  PROVE  LET c == [b EXCEPT !.nth = n]
         IN  /\ c \in Block /\ c # NoBlock /\ GoodBlock(c) /\ c.view = b.view
<1> DEFINE c == [b EXCEPT !.nth = n]
<1>1. c \in Block /\ c.qc = b.qc /\ c.tc = b.tc /\ c.tcs = b.tcs /\ c.view = b.view
  BY DEF Block
<1>2. c.view # NoBlock.view
  BY <1>1, MaxViewNat DEF Block, View, NoBlock
<1> QED BY <1>1, <1>2 DEF GoodBlock

SameQueue(s, t) == t.held = s.held /\ t.newViews = s.newViews /\ t.curView = s.curView

\* A proposal is for a view that has none, and is added to the others.
LEMMA PublishGrows ==
  ASSUME GoodBlocks, NEW r \in Node, NEW t, NEW b, Publishable(r, t, b), block' = publish(b),
         \A q \in Node : st[q].voted \subseteq st'[q].voted
  PROVE  /\ Kept
         /\ Grows
         /\ Proposed' = Proposed \cup {b.view}
         /\ GoodBlocks'
<1> DEFINE n == Cardinality({v \in View : block[v] # NoBlock})
           c == [b EXCEPT !.nth = n]
<1>1. /\ b \in Block /\ GoodBlock(b) /\ b.view \in View /\ b.view \in Nat
      /\ block \in [View -> Block \cup {NoBlock}]
  BY MaxViewNat DEF Publishable, Block, View, GoodBlocks
<1>2. n \in Nat
  <2>1. IsFiniteSet(View)
    BY MaxViewNat, FS_Interval DEF View
  <2> QED BY <2>1, FS_Subset, FS_CardinalityType
<1>3. block' = [block EXCEPT ![b.view] = c]
  BY DEF publish
<1> HIDE DEF n
<1>4. c \in Block /\ c # NoBlock /\ GoodBlock(c) /\ c.view = b.view
  BY <1>1, <1>2, NumberedBlock
<1> HIDE DEF c
<1>5. b.view \notin Proposed
  BY <1>1 DEF Publishable
<1>6. Kept
  BY <1>1, <1>3, <1>5 DEF Kept, Proposed
<1>7. Proposed' = Proposed \cup {b.view}
  BY <1>1, <1>3, <1>4 DEF Proposed
<1>8. Grows
  BY <1>6 DEF Grows, Kept, Proposed
<1>9. block' \in [View -> Block \cup {NoBlock}]
  BY <1>1, <1>3, <1>4
<1>10. ASSUME NEW v \in Proposed', NEW x, x = block'[v]
       PROVE  GoodBlock(x)' /\ x.view = v
  <2>1. x \in Block /\ GoodBlock(x) /\ x.view = v
    BY <1>1, <1>3, <1>4, <1>7, <1>10 DEF GoodBlocks, Proposed
  <2> QED BY <1>8, <2>1, GoodBlockGrows
<1>11. \A v \in Proposed' : GoodBlock(block[v])' /\ block'[v].view = v
  BY <1>10 DEF GoodBlock, ValidQC, Certified, superMajority, PairOfTCs
<1>12. GoodBlocks'
  BY <1>9, <1>11 DEF GoodBlocks
<1> QED BY <1>6, <1>7, <1>8, <1>12

\* The queues of the leader and of the others stay in order.
LEMMA PublishQueue ==
  ASSUME Grows, NEW r, NEW t, NEW b, Publishable(r, t, b), Proposed' = Proposed \cup {b.view},
         NEW q, NEW s, GoodReplica(q, s), q = r => SameQueue(t, s)
  PROVE  GoodQueue(q, s.curView, s.held, s.newViews)'
<1>1. GoodQueue(q, s.curView, s.held, s.newViews) /\ s.held \in Block \cup {NoBlock}
  BY DEF GoodReplica, Sound, ReplicaState
<1>2. s.held # NoBlock => GoodBlock(s.held)'
  BY <1>1, GoodBlockGrows DEF GoodQueue
<1>3. CASE q = r
  BY <1>1, <1>2, <1>3 DEF GoodQueue, Publishable, SameQueue
<1>4. CASE q # r
  <2>1. Leader(b.view) # q
    BY <1>4 DEF Publishable
  <2> QED BY <1>1, <1>2, <2>1 DEF GoodQueue
<1> QED BY <1>3, <1>4

\* The step of a leader that publishes b and is left in state t.
LEMMA PublishStep ==
  ASSUME IInv, NEW r \in Node, NEW t, GoodReplica(r, t), NEW b, Publishable(r, t, b),
         st' = [st EXCEPT ![r] = t], block' = publish(b), tmos' = tmos
  PROVE  IInv' /\ Kept /\ Grows
<1> DEFINE U == [st EXCEPT ![r] = t]
<1>1. Handled(U) /\ st' = U
  BY HandledOne
<1> HIDE DEF U
<1>2. \A q \in Node : st[q].voted \subseteq st'[q].voted
  BY <1>1 DEF Handled, GoodReplica, Sound
<1>3. Kept /\ Grows /\ Proposed' = Proposed \cup {b.view} /\ GoodBlocks'
  BY <1>2, PublishGrows DEF IInv
<1>4. ASSUME NEW q \in Node, NEW s \in ReplicaState, s = st'[q]
      PROVE  GoodReplica(q, s)'
  <2>1. GoodReplica(q, s) /\ st'[q].voted \subseteq s.voted
    BY <1>1, <1>4 DEF Handled
  <2>2. q = r => SameQueue(t, s)
    BY <1>1, <1>4 DEF U, IInv, SameQueue
  <2>3. GoodQueue(q, s.curView, s.held, s.newViews)'
    BY <1>3, <2>1, <2>2, PublishQueue
  <2> QED BY <1>3, <2>1, <2>3, ReplicaGrows
<1>5. GoodReplicas' /\ st' \in [Node -> ReplicaState]
  BY <1>1, <1>4 DEF GoodReplicas, Handled
<1>6. GoodTmos'
  BY <1>3, TmosGrow DEF IInv, GoodTmos
<1> QED BY <1>3, <1>5, <1>6 DEF IInv

\* The queue without its first announcement, which is proposed for or held.
LEMMA NextView ==
  ASSUME NEW r, NEW s, GoodReplica(r, s), s.held = NoBlock, s.newViews # <<>>
  PROVE  LET nv == Head(s.newViews)
             q == Tail(s.newViews)
         IN  /\ nv \in NewView /\ q \in Seq(NewView)
             /\ Leader(nv.view) = r
             /\ nv.view <= s.curView
             /\ \A v \in Proposed : Leader(v) = r => v < nv.view
             /\ \A i \in 1..Len(q) : nv.view < q[i].view
             /\ GoodQueue(r, s.curView, NoBlock, q)
<1> DEFINE all == s.newViews
           nv == Head(all)
           q == Tail(all)
<1>1. all \in Seq(NewView) /\ all # <<>> /\ GoodQueue(r, s.curView, NoBlock, all)
  BY DEF GoodReplica, Sound, ReplicaState
<1> HIDE DEF all
<1>2. /\ nv \in NewView /\ q \in Seq(NewView) /\ Len(all) \in Nat /\ Len(all) >= 1
      /\ nv = all[1] /\ Len(q) = Len(all) - 1 /\ Len(q) \in Nat
      /\ \A i \in 1..Len(q) : q[i] = all[i + 1]
  BY <1>1
<1> HIDE DEF nv, q
<1>3. /\ Leader(nv.view) = r
      /\ nv.view <= s.curView
      /\ \A v \in Proposed : Leader(v) = r => v < nv.view
  BY <1>1, <1>2 DEF GoodQueue
<1>4. ASSUME NEW i \in 1..Len(q)
      PROVE  /\ Leader(q[i].view) = r
             /\ q[i].view <= s.curView
             /\ \A v \in Proposed : Leader(v) = r => v < q[i].view
             /\ nv.view < q[i].view
             /\ \A j \in 1..(i-1) : q[j].view < q[i].view
  <2>1. i + 1 \in 1..Len(all) /\ q[i] = all[i + 1]
    BY <1>2
  <2>2. \A j \in 1..i : all[j].view < q[i].view
    <3>1. \A j \in 1..((i + 1) - 1) : all[j].view < all[i + 1].view
      BY <1>1, <2>1 DEF GoodQueue
    <3>2. (i + 1) - 1 = i
      OBVIOUS
    <3> QED BY <2>1, <3>1, <3>2
  <2>3. \A j \in 1..(i-1) : j + 1 \in 1..i /\ q[j] = all[j + 1]
    BY <1>2
  <2>4. \A j \in 1..(i-1) : q[j].view < q[i].view
    BY <2>2, <2>3
  <2>5. nv.view < q[i].view
    BY <1>2, <2>2
  <2> QED BY <1>1, <2>1, <2>4, <2>5 DEF GoodQueue
<1>5. GoodQueue(r, s.curView, NoBlock, q)
  BY <1>1, <1>4 DEF GoodQueue
<1> QED BY <1>2, <1>3, <1>4, <1>5 DEF nv, q, all

\* MakeProposal builds a good block.
LEMMA ProposalGood ==
  ASSUME NEW r, NEW s, GoodReplica(r, s), NEW nv \in NewView, nv.view <= MaxView
  PROVE  LET b == proposal(s, nv)
         IN  b \in Block /\ GoodBlock(b) /\ b.view = nv.view /\ b # NoBlock
<1> DEFINE b == proposal(s, nv)
<1>1. /\ s.highQC \in QC /\ s.secHighQC \in QC /\ s.highBlock \in Id
      /\ s.highTC \in TC \cup {NoTC} /\ s.secHighTC \in TC \cup {NoTC}
      /\ ValidQC(s.highQC) /\ ValidQC(s.secHighQC) /\ PairOfTCs(s.secHighTC, s.highTC)
  BY DEF GoodReplica, Sound, ValidQCs, ReplicaState
<1>2. nv.view \in View /\ nv.seq \in Nat /\ nv.pt \in {NoTimeout, TimeoutF, TimeoutS}
  BY MaxViewNat DEF NewView, View
<1>3. s.highQC.block \in Id
  BY <1>1 DEF QC
<1> DEFINE make(qc, tc, tcs, prev) ==
             [view |-> nv.view, seq |-> nv.seq, qc |-> qc, tc |-> tc, tcs |-> tcs, prev |-> prev,
              nth |-> 0]
<1>4. ASSUME NEW qc \in QC, ValidQC(qc), NEW prev \in Id,
             NEW tc \in TC \cup {NoTC},
             NEW tcs \in {<<>>} \cup ((TC \cup {NoTC}) \X (TC \cup {NoTC})),
             tc # NoTC => tcs # <<>>,
             tcs # <<>> => PairOfTCs(tcs[1], tcs[2])
      PROVE  LET c == make(qc, tc, tcs, prev)
             IN  c \in Block /\ GoodBlock(c) /\ c.view = nv.view
  BY <1>2, <1>4 DEF Block, GoodBlock
<1> DEFINE pair == <<s.secHighTC, s.highTC>>
<1>5. /\ pair \in {<<>>} \cup ((TC \cup {NoTC}) \X (TC \cup {NoTC}))
      /\ pair # <<>> /\ PairOfTCs(pair[1], pair[2])
  BY <1>1
<1>6. b \in Block /\ GoodBlock(b) /\ b.view = nv.view
  <2>1. CASE nv.pt = NoTimeout
    <3> DEFINE none == <<>>
    <3>1. b = make(s.highQC, NoTC, none, s.highBlock)
      BY <2>1 DEF proposal, NoTimeout, TimeoutF, TimeoutS
    <3>2. /\ NoTC \in TC \cup {NoTC} /\ none = <<>>
          /\ none \in {<<>>} \cup ((TC \cup {NoTC}) \X (TC \cup {NoTC}))
      OBVIOUS
    <3> HIDE DEF b, make, none
    <3> QED BY <1>1, <1>4, <3>1, <3>2, Zenon
  <2>2. CASE nv.pt = TimeoutF
    <3>1. b = make(s.secHighQC, s.secHighTC, pair, s.highQC.block)
      BY <2>2 DEF proposal, NoTimeout, TimeoutF, TimeoutS
    <3> HIDE DEF b, make, pair
    <3> QED BY <1>1, <1>3, <1>4, <1>5, <3>1
  <2>3. CASE nv.pt = TimeoutS
    <3>1. b = make(s.highQC, s.highTC, pair, s.highBlock)
      BY <2>3 DEF proposal, NoTimeout, TimeoutF, TimeoutS
    <3> HIDE DEF b, make, pair
    <3> QED BY <1>1, <1>4, <1>5, <3>1
  <2> QED BY <1>2, <2>1, <2>2, <2>3
<1> HIDE DEF b
<1>7. b # NoBlock
  <2>1. b.view # NoBlock.view
    BY <1>2, <1>6, MaxViewNat DEF View, NoBlock
  <2> QED BY <2>1
<1> QED BY <1>6, <1>7 DEF b

\* The reset of the TCs after the second proposal of a timeout.
LEMMA afterProposalGood ==
  ASSUME NEW r, NEW s, GoodReplica(r, s), NEW nv
  PROVE  LET t == afterProposal(s, nv)
         IN  GoodReplica(r, t) /\ SameQueue(s, t)
<1> DEFINE t == updateHighTC(updateHighTC(s, NoTC), NoTC)
<1>1. NoTC \in TC \cup {NoTC} /\ PairOfTCs(NoTC, NoTC)
  BY DEF PairOfTCs
<1>2. GoodReplica(r, t)
  BY <1>1, TwoTCsGood
<1>3. SameQueue(s, t)
  <2>1. s \in ReplicaState
    BY DEF GoodReplica, Sound
  <2> QED BY <2>1 DEF SameQueue, updateHighTC, ReplicaState
<1> HIDE DEF t
<1>4. SameQueue(s, s)
  BY DEF SameQueue
<1> QED BY <1>2, <1>3, <1>4 DEF afterProposal, t

\* A signal leaves the queue alone.
LEMMA SignalSameQueue ==
  ASSUME NEW s \in ReplicaState, NEW ope, NEW view
  PROVE  SameQueue(s, sendSignal(s, ope, view))
BY DEF SameQueue, sendSignal, ReplicaState

\* Taking an announcement keeps the type of the record.
LEMMA PopType ==
  ASSUME NEW s \in ReplicaState, NEW q \in Seq(NewView)
  PROVE  LET p == [s EXCEPT !.newViews = q]
         IN  p \in ReplicaState /\ p.held = s.held /\ p.newViews = q /\ p.curView = s.curView
BY ZenonT(60) DEF ReplicaState

\* A proposal is published, with or without a signal, or held.
LEMMA MakeProposalStep ==
  ASSUME IInv, NEW r \in Node, MakeProposal(r)
  PROVE  IInv' /\ Kept /\ Grows
<1> DEFINE nv == Head(st[r].newViews)
           q == Tail(st[r].newViews)
           p == [st[r] EXCEPT !.newViews = q]
           s == afterProposal(p, nv)
           b == proposal(st[r], nv)
<1>1. st[r] \in ReplicaState /\ GoodReplica(r, st[r])
  BY StartsGood
<1>2. st[r].held = NoBlock /\ st[r].newViews # <<>> /\ nv.view <= MaxView /\ tmos' = tmos
  BY DEF MakeProposal, CanMakeProposal
<1>3. \/ /\ st' = [st EXCEPT ![r] = s]
         /\ block' = publish(b)
      \/ /\ st' = [st EXCEPT ![r] = sendSignal(s, Drop, nv.view)]
         /\ block' = publish(b)
      \/ /\ st' = [st EXCEPT ![r] = [s EXCEPT !.held = b]]
         /\ block' = block
  BY DEF MakeProposal
<1>4. /\ nv \in NewView /\ q \in Seq(NewView)
      /\ Leader(nv.view) = r
      /\ nv.view <= st[r].curView
      /\ \A v \in Proposed : Leader(v) = r => v < nv.view
      /\ \A i \in 1..Len(q) : nv.view < q[i].view
      /\ GoodQueue(r, st[r].curView, NoBlock, q)
  BY <1>1, <1>2, NextView
<1> HIDE DEF nv, q
<1>5. b \in Block /\ GoodBlock(b) /\ b.view = nv.view /\ b # NoBlock
  BY <1>1, <1>2, <1>4, ProposalGood
<1> HIDE DEF b
<1>6. p \in ReplicaState /\ p.held = NoBlock /\ p.newViews = q /\ p.curView = st[r].curView
  BY <1>1, <1>2, <1>4, PopType
<1>7. GoodReplica(r, p)
  BY <1>1, <1>4, <1>6, ZenonT(60) DEF GoodReplica, Sound, ReplicaState
<1> HIDE DEF p
<1>8. GoodReplica(r, s) /\ SameQueue(p, s)
  BY <1>7, afterProposalGood
<1> HIDE DEF s
<1>9. s \in ReplicaState /\ s.held = NoBlock /\ s.newViews = q /\ s.curView = st[r].curView
  BY <1>6, <1>8 DEF GoodReplica, Sound, SameQueue
<1>10. Publishable(r, s, b)
  BY <1>4, <1>5, <1>9 DEF Publishable
<1>11. CASE st' = [st EXCEPT ![r] = s] /\ block' = publish(b)
  BY <1>2, <1>8, <1>10, <1>11, PublishStep
<1>12. CASE st' = [st EXCEPT ![r] = sendSignal(s, Drop, nv.view)] /\ block' = publish(b)
  <2> DEFINE t == sendSignal(s, Drop, nv.view)
  <2>1. Drop \in {Continue, Drop} /\ nv.view \in Nat
    BY <1>4 DEF NewView
  <2>2. GoodReplica(r, t)
    BY <1>8, <2>1, sendSignalGood
  <2>3. SameQueue(s, t)
    BY <1>9, SignalSameQueue
  <2>4. st' = [st EXCEPT ![r] = t]
    BY <1>12
  <2> HIDE DEF t
  <2>5. Publishable(r, t, b)
    BY <1>10, <2>3 DEF Publishable, SameQueue
  <2> QED BY <1>2, <1>12, <2>2, <2>4, <2>5, PublishStep
<1>13. CASE st' = [st EXCEPT ![r] = [s EXCEPT !.held = b]] /\ block' = block
  <2> DEFINE t == [s EXCEPT !.held = b]
  <2>1. t \in ReplicaState
    BY <1>5, <1>9, ZenonT(60) DEF ReplicaState
  <2>2. GoodQueue(r, s.curView, b, q)
    BY <1>4, <1>5, <1>9 DEF GoodQueue
  <2>3. GoodReplica(r, t)
    BY <1>8, <1>9, <2>1, <2>2 DEF GoodReplica, Sound, ReplicaState
  <2> HIDE DEF t
  <2>4. IInv' /\ Grows
    BY <1>2, <1>13, <2>3, OneStep DEF t
  <2> QED BY <1>13, <2>4 DEF Kept
<1> QED BY <1>3, <1>11, <1>12, <1>13

\* A held proposal is published.
LEMMA ResumeProposalStep ==
  ASSUME IInv, NEW r \in Node, ResumeProposal(r)
  PROVE  IInv' /\ Kept /\ Grows
<1> DEFINE b == st[r].held
           s == [st[r] EXCEPT !.held = NoBlock]
           t == sendSignal(s, Drop, b.view)
<1>1. st[r] \in ReplicaState /\ GoodReplica(r, st[r])
  BY StartsGood
<1>2. b # NoBlock /\ st' = [st EXCEPT ![r] = t] /\ block' = publish(b) /\ tmos' = tmos
  BY DEF ResumeProposal, CanResumeProposal
<1>3. GoodQueue(r, st[r].curView, b, st[r].newViews) /\ b \in Block
  BY <1>1, <1>2 DEF GoodReplica, Sound, ReplicaState
<1> HIDE DEF b
<1>4. s \in ReplicaState /\ s.held = NoBlock /\ s.newViews = st[r].newViews /\ s.curView = st[r].curView
  BY <1>1, ZenonT(60) DEF ReplicaState
<1>5. GoodReplica(r, s)
  <2>1. GoodQueue(r, st[r].curView, NoBlock, st[r].newViews)
    BY <1>3 DEF GoodQueue
  <2> QED BY <1>1, <1>4, <2>1 DEF GoodReplica, Sound, ReplicaState
<1>6. Publishable(r, s, b)
  BY <1>2, <1>3, <1>4 DEF GoodQueue, Publishable
<1> HIDE DEF s
<1>7. GoodReplica(r, t) /\ SameQueue(s, t)
  <2>1. Drop \in {Continue, Drop} /\ b.view \in Nat
    BY <1>3, MaxViewNat DEF Block, View
  <2> QED BY <1>4, <1>5, <2>1, sendSignalGood, SignalSameQueue
<1> HIDE DEF t
<1>8. Publishable(r, t, b)
  BY <1>6, <1>7 DEF Publishable, SameQueue
<1> QED BY <1>2, <1>7, <1>8, PublishStep

-----------------------------------------------------------------------------
(* The invariant is inductive *)

\* The replica that NewReplica makes is good, before anything is proposed.
LEMMA NewReplicaGood ==
  ASSUME Proposed = {}, NEW r, st[r].voted = {}
  PROVE  InitReplica \in ReplicaState /\ GoodReplica(r, InitReplica)
<1> DEFINE s == InitReplica
<1>1. /\ s.curView = 0 /\ s.highQC = GenesisQC /\ s.secHighQC = GenesisQC
      /\ s.highTC = NoTC /\ s.secHighTC = NoTC /\ s.preferredSeq = 0
      /\ s.forest = NewLevelledForest
      /\ s.bufferedBlocks = {} /\ s.bufferedQCs = {} /\ s.recursive = 0 /\ s.blocked = 0
      /\ s.votes = {} /\ s.dual = {} /\ s.waiting = NoQC
      /\ s.newViews = <<>> /\ s.held = NoBlock /\ s.voted = {}
  BY DEF InitReplica
<1>2. GenesisQC \in QC /\ ValidQC(GenesisQC) /\ 0 \in Id
  BY MaxViewNat DEF QC, GenesisQC, Id, ValidQC
<1>3. s \in ReplicaState
  <2>1. <<>> \in Seq(NewView) /\ <<>> \in Seq(Signal)
    OBVIOUS
  <2>2. NewLevelledForest \in [vertices : SUBSET Container(Id), lowest : Nat]
    BY DEF NewLevelledForest
  <2> QED BY <1>2, <2>1, <2>2 DEF InitReplica, ReplicaState
<1> HIDE DEF s
<1>4. st[r].voted \subseteq s.voted
  BY <1>1
<1>5. KnownBlocks(s.forest, s.bufferedBlocks, s.recursive, s.blocked) /\ s.forest.lowest = 0
  BY <1>1 DEF KnownBlocks, NewLevelledForest
<1>6. KnownVotes(s.votes, s.dual)
  BY <1>1 DEF KnownVotes
<1>7. ValidQCs(s.highQC, s.secHighQC, s.bufferedQCs, s.waiting)
  BY <1>1, <1>2 DEF ValidQCs
<1>8. PairOfTCs(s.secHighTC, s.highTC) /\ OrderedQCs(s.highQC, s.secHighQC, s.curView)
  BY <1>1 DEF PairOfTCs, OrderedQCs
<1>9. GoodQueue(r, s.curView, s.held, s.newViews)
  BY <1>1 DEF GoodQueue
<1>10. s \in ReplicaState /\ GoodReplica(r, s)
  BY <1>1, <1>3, <1>4, <1>5, <1>6, <1>7, <1>8, <1>9 DEF GoodReplica, Sound
<1> QED BY <1>10 DEF s

\* The initial states are good.
LEMMA InitGood ==
  ASSUME Init
  PROVE  IInv
<1>1. Proposed = {} /\ InitReplica.voted = {}
  BY DEF Init, Proposed, InitReplica
<1>2. PICK s : s = InitReplica
  OBVIOUS
<1>3. st = [r \in Node |-> s]
  BY <1>2 DEF Init
<1>4. \A r \in Node : s \in ReplicaState /\ GoodReplica(r, s)
  <2>1. \A r \in Node : st[r].voted = {}
    BY <1>1, <1>2, <1>3
  <2> QED BY <1>1, <1>2, <2>1, NewReplicaGood
<1>5. st \in [Node -> ReplicaState] /\ GoodReplicas
  BY <1>3, <1>4 DEF GoodReplicas
<1>6. GoodBlocks /\ GoodTmos
  BY <1>1 DEF Init, GoodBlocks, GoodTmos
<1> QED BY <1>5, <1>6 DEF IInv

\* Every step keeps the invariant and the proposals.
LEMMA NextGood ==
  ASSUME IInv, [Next]_vars
  PROVE  IInv' /\ Kept /\ Grows
<1>1. ASSUME NEW r \in Node, KickOff(r) PROVE IInv' /\ Kept /\ Grows
  BY <1>1, KickOffStep DEF KickOff, Kept
<1>2. ASSUME NEW r \in Node, NEW v \in View, ProcessBlock(r, v) PROVE IInv' /\ Kept /\ Grows
  BY <1>2, ProcessBlockStep DEF ProcessBlock, Kept
<1>3. ASSUME NEW r \in Node, ProcessBufferedBlock(r) PROVE IInv' /\ Kept /\ Grows
  BY <1>3, ProcessBufferedStep DEF ProcessBufferedBlock, Kept
<1>4. ASSUME NEW r \in Node, ResumeBlock(r) PROVE IInv' /\ Kept /\ Grows
  BY <1>4, ResumeBlockStep DEF ResumeBlock, Kept
<1>5. ASSUME NEW r \in Node, NEW vote \in st[r].dual, ProcessVote(r, vote) PROVE IInv' /\ Kept /\ Grows
  BY <1>5, ProcessVoteStep DEF ProcessVote, Kept
<1>6. ASSUME NEW r \in Node, ReceiveSignal(r) PROVE IInv' /\ Kept /\ Grows
  BY <1>6, ReceiveSignalStep DEF ReceiveSignal, Kept
<1>7. ASSUME NEW r \in Node, MakeProposal(r) PROVE IInv' /\ Kept /\ Grows
  BY <1>7, MakeProposalStep
<1>8. ASSUME NEW r \in Node, ResumeProposal(r) PROVE IInv' /\ Kept /\ Grows
  BY <1>8, ResumeProposalStep
<1>9. ASSUME NEW r \in Node, ProcessLocalTmo(r) PROVE IInv' /\ Kept /\ Grows
  BY <1>9, LocalTmoStep DEF ProcessLocalTmo, Kept
<1>10. ASSUME NEW r \in Node, NEW tmo \in tmos, ProcessRemoteTmo(r, tmo) PROVE IInv' /\ Kept /\ Grows
  BY <1>10, RemoteTmoStep DEF ProcessRemoteTmo, Kept
<1>11. CASE UNCHANGED vars
  BY <1>11, StutterStep DEF vars, Kept
<1>12. CASE Next
  BY <1>12, <1>1, <1>2, <1>3, <1>4, <1>5, <1>6, <1>7, <1>8, <1>9, <1>10 DEF Next, Step
<1> QED BY <1>11, <1>12

\* Every behaviour of the model keeps the inductive invariant: the steps of the
\* three loops and of the timer, in any interleaving.
THEOREM Inductive == Spec => []IInv
<1>1. Init => IInv
  BY InitGood
<1>2. IInv /\ [Next]_vars => IInv'
  BY NextGood
<1> QED BY <1>1, <1>2, PTL DEF Spec

-----------------------------------------------------------------------------
(* What it implies *)

\* Type correctness: every field keeps its type, along every path of the
\* handlers.
THEOREM TypeCorrect == Spec => []TypeOK
<1>1. IInv => TypeOK
  BY DEF IInv, GoodBlocks, GoodTmos, GoodTmo, TypeOK
<1> QED BY <1>1, Inductive, PTL

\* Every certificate that is held, proposed with or reported rests on the votes
\* of a supermajority (quorum.go Add, mhotstuff.go processCertificate).
THEOREM CertificatesBacked == Spec => []QCBacked
<1>1. IInv => QCBacked
  <2> SUFFICES ASSUME IInv PROVE QCBacked
    OBVIOUS
  <2>1. ASSUME NEW r \in Node, NEW qc \in QCsOf(st[r]) PROVE ValidQC(qc)
    <3>1. GoodReplica(r, st[r])
      BY StartsGood
    <3> QED BY <3>1, <2>1 DEF QCsOf, GoodReplica, Sound, ValidQCs, GoodQueue, GoodBlock
  <2>2. ASSUME NEW v \in Proposed PROVE ValidQC(block[v].qc)
    BY DEF IInv, GoodBlocks, GoodBlock
  <2>3. ASSUME NEW tmo \in tmos PROVE ValidQC(tmo.highQC)
    BY DEF IInv, GoodTmos, GoodTmo
  <2> QED BY <2>1, <2>2, <2>3 DEF QCBacked
<1> QED BY <1>1, Inductive, PTL

\* highQC and secHighQC stay ordered and behind the view (updateHighQC).
THEOREM CertificatesOrdered == Spec => []QCOrder
<1>1. IInv => QCOrder
  BY StartsGood DEF QCOrder, GoodReplica, OrderedQCs
<1> QED BY <1>1, Inductive, PTL

\* The two TCs held are those of one timeout (updateHighTC, MakeProposal).
THEOREM TimeoutPairs == Spec => []TCPair
<1>1. IInv => TCPair
  BY StartsGood DEF TCPair, GoodReplica, Sound, PairOfTCs
<1> QED BY <1>1, Inductive, PTL

\* A lock rests on two quorums (updatePreferredSeq).
THEOREM LocksBacked == Spec => []LockBacked
<1>1. IInv => LockBacked
  BY StartsGood DEF LockBacked, GoodReplica, Sound
<1> QED BY <1>1, Inductive, PTL

\* The last commit rests on three quorums in a chain (commitRule).
THEOREM CommitsBacked == Spec => []CommitBacked
<1>1. IInv => CommitBacked
  BY StartsGood DEF CommitBacked, GoodReplica, Sound
<1> QED BY <1>1, Inductive, PTL

\* No leader makes two proposals for one view (AdvanceView, MakeProposal).
THEOREM NoTwoProposals == Spec => NoEquivocation
<1>1. IInv /\ [Next]_vars => [\A v \in View : block[v] # NoBlock => block'[v] = block[v]]_vars
  BY NextGood DEF Kept
<1> QED BY <1>1, Inductive, PTL DEF Spec, NoEquivocation
=============================================================================
