--------------------------- MODULE MHotStuffViews ---------------------------
(***************************************************************************)
(* Views, sequence numbers and timeout certificates of MHotStuff: the      *)
(* proof that views and sequence numbers move together, and that every     *)
(* timeout certificate is one a supermajority asked for.  Both rest on one *)
(* invariant, kept beside that of MHotStuffProofs.                         *)
(***************************************************************************)
EXTENDS MHotStuffProofs

-----------------------------------------------------------------------------
(* The invariant *)

\* The view of a TC is its sequence number; NoTC has -1 for both.
EvenTC(tc) == tc.view = tc.seq

\* The replicas that sent a timeout message with the sequence number seq.
Asked(seq) == {q \in Node : \E tmo \in tmos : tmo.node = q /\ tmo.fseq = seq}

\* A supermajority asked for the TC.  The timeout messages are counted by view, so
\* this needs the view and the sequence number of a message to go together.
BackedTC(tc) == ~ TornRead /\ tc # NoTC => superMajority(Asked(tc.seq))

\* A block as the leader of its view makes it.
TimedBlock(b) ==
  /\ b.seq = b.view + 1
  /\ EvenTC(b.tc)
  /\ b.tcs # <<>> => EvenTC(b.tcs[1]) /\ EvenTC(b.tcs[2]) /\ BackedTC(b.tcs[1])

\* The view, and the announcements of it that wait for the new-view loop.
TimedViews(curView, curSeq, newViews) ==
  /\ curSeq = IF curView = 0 THEN 0 ELSE curView + 1
  /\ \A i \in 1..Len(newViews) : newViews[i].seq = newViews[i].view + 1

TimedTCs(ftc, stc) == EvenTC(ftc) /\ EvenTC(stc) /\ BackedTC(ftc)

TimedHeld(held) == held # NoBlock => TimedBlock(held)

\* What is counted was sent.
Heard(timeouts) == \A x \in timeouts : \E tmo \in tmos : tmo.view = x[1] /\ tmo.node = x[2]

Timed(s) ==
  /\ TimedViews(s.curView, s.curSeq, s.newViews)
  /\ TimedTCs(s.secHighTC, s.highTC)
  /\ TimedHeld(s.held)
  /\ Heard(s.timeouts)

\* Without torn reads the sequence number follows from the view of the message,
\* which is the one after the sender's.
TimedTmo(tmo) == ~ TornRead => tmo.fseq = IF tmo.view = 1 THEN 0 ELSE tmo.view

TimedBlocks == \A v \in Proposed : TimedBlock(block[v])

TimedTmos == \A tmo \in tmos : TimedTmo(tmo)

\* The record is named, as in GoodReplicas.
TimedReplicas == \A r \in Node : \A s \in ReplicaState : s = st[r] => Timed(s)

ViewInv ==
  /\ IInv
  /\ TimedReplicas
  /\ TimedBlocks
  /\ TimedTmos

-----------------------------------------------------------------------------
(* The operators of the model preserve Timed *)

\* A handler left the views, the TCs, the held block and the timeouts alone.
Same(s, t) ==
  /\ t.curView = s.curView /\ t.curSeq = s.curSeq /\ t.newViews = s.newViews
  /\ t.secHighTC = s.secHighTC /\ t.highTC = s.highTC
  /\ t.held = s.held /\ t.timeouts = s.timeouts

\* Timed reads no other field.
LEMMA SameTimed ==
  ASSUME NEW s, NEW t, Same(s, t), Timed(s)
  PROVE  Timed(t)
BY DEF Same, Timed

\* The assignments to the other fields.
LEMMA OtherFields ==
  ASSUME NEW s \in ReplicaState, NEW x, NEW y
  PROVE  /\ Same(s, s)
         /\ Same(s, [s EXCEPT !.preferredSeq = x])
         /\ Same(s, [s EXCEPT !.secHighQC = x, !.highQC = y])
         /\ Same(s, [s EXCEPT !.bufferedQCs = x])
         /\ Same(s, [s EXCEPT !.proposeChan = x])
         /\ Same(s, [s EXCEPT !.blocked = x])
         /\ Same(s, [s EXCEPT !.recursive = x])
         /\ Same(s, [s EXCEPT !.bufferedBlocks = x])
         /\ Same(s, [s EXCEPT !.received = x])
         /\ Same(s, [s EXCEPT !.dual = x])
         /\ Same(s, [s EXCEPT !.waiting = x])
BY DEF Same, ReplicaState

\* A good record has its type.
LEMMA GoodType ==
  ASSUME NEW r, NEW s, GoodReplica(r, s)
  PROVE  s \in ReplicaState
BY DEF GoodReplica, Sound

\* AdvanceView, from a certificate whose view is its sequence number.
LEMMA AdvanceViewTimed ==
  ASSUME NEW r, NEW s \in ReplicaState, Timed(s), NEW view \in Nat, NEW pt
  PROVE  Timed(AdvanceView(r, s, view, view, pt))
<1> DEFINE t == AdvanceView(r, s, view, view, pt)
           nv == [view |-> view + 1, seq |-> view + 2, pt |-> pt]
<1>1. CASE view < s.curView
  BY <1>1 DEF AdvanceView
<1>2. CASE ~ (view < s.curView)
  <2>1. /\ t.curView = view + 1 /\ t.curSeq = view + 2
        /\ t.newViews = IF Leader(view + 1) = r THEN Append(s.newViews, nv) ELSE s.newViews
        /\ t.secHighTC = s.secHighTC /\ t.highTC = s.highTC
        /\ t.held = s.held /\ t.timeouts = s.timeouts
    BY <1>2 DEF AdvanceView, ReplicaState
  <2> HIDE DEF t
  <2>2. nv.seq = nv.view + 1
    OBVIOUS
  <2> HIDE DEF nv
  <2>3. s.newViews \in Seq(NewView) /\ \A i \in 1..Len(s.newViews) : s.newViews[i].seq = s.newViews[i].view + 1
    BY DEF Timed, TimedViews, ReplicaState
  <2>4. ASSUME NEW q, q = Append(s.newViews, nv)
        PROVE  \A i \in 1..Len(q) : q[i].seq = q[i].view + 1
    <3>1. /\ Len(q) = Len(s.newViews) + 1 /\ Len(s.newViews) \in Nat
          /\ \A i \in 1..Len(s.newViews) : q[i] = s.newViews[i]
          /\ q[Len(s.newViews) + 1] = nv
      BY <2>3, <2>4
    <3> QED BY <2>2, <2>3, <3>1
  <2>5. TimedViews(t.curView, t.curSeq, t.newViews)
    <3>1. \A i \in 1..Len(t.newViews) : t.newViews[i].seq = t.newViews[i].view + 1
      BY <2>1, <2>3, <2>4
    <3> QED BY <2>1, <3>1 DEF TimedViews
  <2> QED BY <2>1, <2>5 DEF Timed, t
<1> QED BY <1>1, <1>2

\* Two calls of updateHighTC.
LEMMA TwoTCsTimed ==
  ASSUME NEW s \in ReplicaState, Timed(s), NEW a, NEW b, TimedTCs(a, b)
  PROVE  Timed(updateHighTC(updateHighTC(s, a), b))
<1> DEFINE t == updateHighTC(updateHighTC(s, a), b)
<1>1. /\ t.secHighTC = a /\ t.highTC = b
      /\ t.curView = s.curView /\ t.curSeq = s.curSeq /\ t.newViews = s.newViews
      /\ t.held = s.held /\ t.timeouts = s.timeouts
  BY DEF updateHighTC, ReplicaState
<1> HIDE DEF t
<1>2. Timed(t)
  BY <1>1 DEF Timed
<1> QED BY <1>2 DEF t

\* The reset of the TCs.
LEMMA NoTCsTimed ==
  TimedTCs(NoTC, NoTC)
BY DEF TimedTCs, EvenTC, BackedTC, NoTC

\* processCertificate, whichever way it returns: the view of a valid certificate
\* is its sequence number.
LEMMA CertificateTimed ==
  ASSUME NEW r, NEW s, GoodReplica(r, s), Timed(s), GoodBlocks, NEW qc \in QC, ValidQC(qc)
  PROVE  Timed(processCertificate(r, s, qc))
<1> DEFINE p == updatePreferredSeq(s, qc)
           u == updateHighQC(p, qc)
           x == qc.view
<1>1. s \in ReplicaState /\ x \in Nat /\ qc.seq = x
  BY GoodType DEF QC, ValidQC
<1>2. processCertificate(r, s, qc) \in
        {s, AdvanceView(r, s, x, x, TimeoutF), [s EXCEPT !.bufferedQCs = @ \cup {qc}]}
      \/ (PreferredKnown(s, qc) /\ processCertificate(r, s, qc) = AdvanceView(r, u, x, x, NoTimeout))
  BY <1>1 DEF processCertificate
<1>3. Timed(AdvanceView(r, s, x, x, TimeoutF))
  BY <1>1, AdvanceViewTimed
<1>4. Timed([s EXCEPT !.bufferedQCs = @ \cup {qc}])
  <2> DEFINE B == s.bufferedQCs \cup {qc}
  <2> HIDE DEF B
  <2>1. Same(s, [s EXCEPT !.bufferedQCs = B])
    BY <1>1, OtherFields
  <2>2. Timed([s EXCEPT !.bufferedQCs = B])
    BY <2>1, SameTimed
  <2> QED BY <2>2 DEF B
<1>5. ASSUME PreferredKnown(s, qc)
      PROVE  Timed(AdvanceView(r, u, x, x, NoTimeout))
  <2>1. Sound(r, p)
    BY <1>5, PreferredSound DEF GoodReplica
  <2>2. Same(s, p)
    <3> DEFINE y == block[block[qc.block].qc.block].seq
    <3>1. p \in {s, [s EXCEPT !.preferredSeq = y]}
      BY DEF updatePreferredSeq
    <3> HIDE DEF p, y
    <3>2. Same(s, s) /\ Same(s, [s EXCEPT !.preferredSeq = y])
      BY <1>1, OtherFields
    <3> QED BY <3>1, <3>2
  <2> HIDE DEF p
  <2>3. p \in ReplicaState
    BY <2>1 DEF Sound
  <2>4. Sound(r, u)
    BY <2>1, HighQCSound
  <2>5. Timed(u)
    <3>1. u \in {p, [p EXCEPT !.secHighQC = p.highQC, !.highQC = qc]}
      BY DEF updateHighQC
    <3> HIDE DEF u
    <3>2. Same(p, p) /\ Same(p, [p EXCEPT !.secHighQC = p.highQC, !.highQC = qc])
      BY <2>3, OtherFields
    <3> QED BY <2>2, <3>1, <3>2, SameTimed
  <2> HIDE DEF u
  <2>6. u \in ReplicaState
    BY <2>4 DEF Sound
  <2> QED BY <1>1, <2>5, <2>6, AdvanceViewTimed
<1> HIDE DEF p, u, x
<1> QED BY <1>2, <1>3, <1>4, <1>5

\* What is known of a timed block that carries TCs.
LEMMA TimedReceived ==
  ASSUME NEW b, Received(b), GoodBlocks, TimedBlocks
  PROVE  /\ EvenTC(b.tc)
         /\ b.tc # NoTC => TimedTCs(b.tcs[1], b.tcs[2]) /\ EvenTC(maxTC(b))
<1>1. TimedBlock(b) /\ GoodBlock(b)
  BY DEF Received, TimedBlocks, GoodBlocks
<1> QED BY <1>1 DEF TimedBlock, GoodBlock, TimedTCs, maxTC

\* A validator that takes over the view of a timeout proposal.
LEMMA followTCTimed ==
  ASSUME NEW r, NEW s, GoodReplica(r, s), Timed(s), NEW b, Received(b), GoodBlocks, TimedBlocks,
         b.tc # NoTC, NEW curView
  PROVE  Timed(followTC(r, s, b, curView))
<1> DEFINE x == b.tc.view
           t == IF curView <= x THEN AdvanceView(r, s, x, x, TimeoutF) ELSE s
<1>1. x \in Nat /\ b.tc.seq = x /\ s \in ReplicaState
  BY ReceivedBlock, TimedReceived, GoodType DEF TC, EvenTC
<1>2. GoodReplica(r, t) /\ Timed(t)
  <2>1. TimeoutF \in {NoTimeout, TimeoutF, TimeoutS}
    OBVIOUS
  <2>2. GoodReplica(r, AdvanceView(r, s, x, x, TimeoutF))
    BY <1>1, <2>1, AdvanceViewGood
  <2>3. Timed(AdvanceView(r, s, x, x, TimeoutF))
    BY <1>1, AdvanceViewTimed
  <2> QED BY <2>2, <2>3
<1>3. followTC(r, s, b, curView) \in {t, updateHighTC(updateHighTC(t, NoTC), NoTC)}
  BY <1>1 DEF followTC
<1> HIDE DEF t
<1>4. Timed(updateHighTC(updateHighTC(t, NoTC), NoTC))
  BY <1>2, GoodType, NoTCsTimed, TwoTCsTimed
<1> QED BY <1>2, <1>3, <1>4

\* The leader that moves to the second proposal of a timeout.
LEMMA secondProposalTimed ==
  ASSUME NEW r, NEW s, GoodReplica(r, s), Timed(s), NEW b, Received(b), GoodBlocks, TimedBlocks,
         ~ mustSignal(r, s, b)
  PROVE  Timed(secondProposal(r, s, b))
<1>1. CASE Leader(s.curView + 1) # r
  BY <1>1 DEF secondProposal
<1>2. CASE Leader(s.curView + 1) = r
  <2> DEFINE x == maxTC(b).view
             t == AdvanceView(r, s, x, x, TimeoutS)
  <2>1. b.tc # NoTC /\ ~ (s.curView > x) /\ s \in ReplicaState /\ s.curView \in Nat
    BY <1>2, GoodType DEF mustSignal, ReplicaState
  <2>2. /\ maxTC(b) \in TC \cup {NoTC} /\ EvenTC(maxTC(b))
        /\ TimedTCs(b.tcs[1], b.tcs[2])
    BY <2>1, TimeoutBlock, TimedReceived
  <2>3. x \in Nat /\ maxTC(b).seq = x
    BY <2>1, <2>2 DEF TC, NoTC, EvenTC
  <2>4. secondProposal(r, s, b) = updateHighTC(updateHighTC(t, b.tcs[1]), b.tcs[2])
    BY <1>2, <2>3 DEF secondProposal
  <2> HIDE DEF x
  <2>5. TimeoutS \in {NoTimeout, TimeoutF, TimeoutS}
    OBVIOUS
  <2>6. GoodReplica(r, t) /\ Timed(t)
    BY <2>1, <2>3, <2>5, AdvanceViewGood, AdvanceViewTimed
  <2> HIDE DEF t
  <2>7. Timed(updateHighTC(updateHighTC(t, b.tcs[1]), b.tcs[2]))
    BY <2>2, <2>6, GoodType, TwoTCsTimed
  <2> QED BY <2>4, <2>7
<1> QED BY <1>1, <1>2

\* The QC that was waiting for the block.
LEMMA BufferedQCTimed ==
  ASSUME NEW r, NEW s, GoodReplica(r, s), Timed(s), GoodBlocks, NEW b
  PROVE  Timed(processBufferedQC(r, s, b))
<1>1. CASE ~ \E qc \in s.bufferedQCs : qc.block = b.view
  BY <1>1 DEF processBufferedQC
<1>2. CASE \E qc \in s.bufferedQCs : qc.block = b.view
  <2> DEFINE qc == CHOOSE q \in s.bufferedQCs : q.block = b.view
             p == processCertificate(r, s, qc)
             B == {q \in p.bufferedQCs : q.block # b.view}
             t == [p EXCEPT !.bufferedQCs = B]
  <2>1. qc \in s.bufferedQCs
    BY <1>2
  <2>2. processBufferedQC(r, s, b) = t
    BY <1>2 DEF processBufferedQC
  <2> HIDE DEF qc
  <2>3. qc \in QC /\ ValidQC(qc)
    BY <2>1 DEF GoodReplica, Sound, ValidQCs, ReplicaState
  <2>4. GoodReplica(r, p) /\ Timed(p)
    BY <2>3, CertificateGood, CertificateTimed
  <2> HIDE DEF p, B
  <2>5. Same(p, t)
    BY <2>4, GoodType, OtherFields
  <2> QED BY <2>2, <2>4, <2>5, SameTimed
<1> QED BY <1>1, <1>2

\* The end of ProcessBlock: the vote reads and writes other fields.
LEMMA finishBlockTimed ==
  ASSUME NEW r, NEW s, GoodReplica(r, s), Timed(s), GoodBlocks, NEW b
  PROVE  Timed(finishBlock(r, s, b))
<1> DEFINE t == processBufferedQC(r, s, b)
<1>1. GoodReplica(r, t) /\ Timed(t)
  BY BufferedQCGood, BufferedQCTimed
<1>2. finishBlock(r, s, b) \in {t, castVote(t, b)}
  BY DEF finishBlock
<1> HIDE DEF t
<1>3. Same(t, castVote(t, b))
  BY <1>1, GoodType DEF castVote, Same, ReplicaState
<1> QED BY <1>1, <1>2, <1>3, SameTimed

\* ProcessBlock from the commit rule on.
LEMMA commitAndVoteTimed ==
  ASSUME NEW r, NEW s, GoodReplica(r, s), Timed(s), GoodBlocks, NEW b, Received(b)
  PROVE  Timed(commitAndVote(r, s, b))
<1> DEFINE target == CommitTarget(b.qc)
           c == CommitBlock(s, target)
           crash == [s EXCEPT !.crashed = TRUE]
<1>1. s \in ReplicaState
  BY GoodType
<1>2. \/ commitAndVote(r, s, b) \in {s, crash, finishBlock(r, s, b)}
      \/ commitRule(s, b.qc) /\ commitAndVote(r, s, b) = finishBlock(r, c, b)
  BY DEF commitAndVote
<1>3. Timed(finishBlock(r, s, b))
  BY finishBlockTimed
<1>4. Timed(crash)
  BY <1>1, SameTimed DEF Same, ReplicaState
<1>5. ASSUME commitRule(s, b.qc)
      PROVE  Timed(finishBlock(r, c, b))
  <2>1. b.qc \in QC /\ ValidQC(b.qc)
    BY ReceivedBlock
  <2>2. target \in Proposed /\ ThreeChain(block[target].seq)
    BY <1>5, <2>1, CommitTargetGood
  <2> HIDE DEF target
  <2>3. GoodReplica(r, c)
    BY <2>2, CommitBlockGood
  <2>4. Same(s, c)
    BY <1>1 DEF CommitBlock, Same, ReplicaState
  <2>5. Timed(c)
    BY <2>4, SameTimed
  <2> HIDE DEF c
  <2> QED BY <2>3, <2>5, finishBlockTimed
<1> HIDE DEF c, crash
<1> QED BY <1>2, <1>3, <1>4, <1>5

\* ProcessBlock from AddBlock on.
LEMMA acceptBlockTimed ==
  ASSUME NEW r, NEW s, GoodReplica(r, s), Timed(s), GoodBlocks, TimedBlocks, NEW b, Received(b)
  PROVE  Timed(acceptBlock(r, s, b))
<1> DEFINE t == addBlock(s, b)
           two == secondProposal(r, t, b)
           sig == sendSignal(t, Continue, 0)
           wait == [t EXCEPT !.blocked = b.view]
<1>1. GoodReplica(r, t)
  BY addBlockGood
<1>2. Same(s, t)
  BY GoodType DEF addBlock, Same, ReplicaState
<1>3. Timed(t)
  BY <1>2, SameTimed
<1>4. \/ ~ mustSignal(r, t, b) /\ acceptBlock(r, s, b) = commitAndVote(r, two, b)
      \/ acceptBlock(r, s, b) = wait
      \/ acceptBlock(r, s, b) = commitAndVote(r, sig, b)
  BY DEF acceptBlock
<1> HIDE DEF t
<1>5. t \in ReplicaState
  BY <1>1, GoodType
<1>6. ASSUME ~ mustSignal(r, t, b)
      PROVE  Timed(commitAndVote(r, two, b))
  <2>1. GoodReplica(r, two) /\ Timed(two)
    BY <1>1, <1>3, <1>6, secondProposalGood, secondProposalTimed
  <2> HIDE DEF two
  <2> QED BY <2>1, commitAndVoteTimed
<1>7. Timed(wait)
  BY <1>3, <1>5, SameTimed DEF Same, ReplicaState
<1>8. Timed(commitAndVote(r, sig, b))
  <2>1. Continue \in {Continue, Drop} /\ 0 \in Nat
    OBVIOUS
  <2>2. GoodReplica(r, sig)
    BY <1>1, <2>1, sendSignalGood
  <2>3. Same(t, sig)
    BY <1>5 DEF sendSignal, Same, ReplicaState
  <2>4. Timed(sig)
    BY <1>3, <2>3, SameTimed
  <2> HIDE DEF sig
  <2> QED BY <2>2, <2>4, commitAndVoteTimed
<1> HIDE DEF two, wait, sig
<1> QED BY <1>4, <1>6, <1>7, <1>8

\* ProcessBlock as a whole.
LEMMA processBlockTimed ==
  ASSUME NEW r, NEW s, GoodReplica(r, s), Timed(s), GoodBlocks, TimedBlocks, NEW b, Received(b)
  PROVE  Timed(processBlock(r, s, b))
<1> DEFINE own == Leader(b.view) = r
           certified == IF own THEN s ELSE processCertificate(r, s, b.qc)
           followed == IF own \/ b.tc = NoTC THEN certified
                       ELSE followTC(r, certified, b, s.curView)
           later == [s EXCEPT !.bufferedBlocks = @ \cup {b.view}]
<1>1. b.qc \in QC /\ ValidQC(b.qc)
  BY ReceivedBlock
<1>2. processBlock(r, s, b) \in {later, followed, acceptBlock(r, followed, b)}
  BY DEF processBlock
<1>3. GoodReplica(r, certified) /\ Timed(certified)
  <2>1. LET c == processCertificate(r, s, b.qc) IN GoodReplica(r, c) /\ Timed(c)
    BY <1>1, CertificateGood, CertificateTimed
  <2> QED BY <2>1
<1> HIDE DEF certified
<1>4. GoodReplica(r, followed) /\ Timed(followed)
  <2>1. b.tc # NoTC => LET f == followTC(r, certified, b, s.curView) IN GoodReplica(r, f) /\ Timed(f)
    BY <1>3, followTCGood, followTCTimed
  <2> QED BY <1>3, <2>1
<1> HIDE DEF followed
<1>5. Timed(acceptBlock(r, followed, b))
  BY <1>4, acceptBlockTimed
<1>6. Timed(later)
  <2>1. Same(s, later)
    BY GoodType DEF Same, ReplicaState
  <2> QED BY <2>1, SameTimed
<1> HIDE DEF later
<1> QED BY <1>2, <1>4, <1>5, <1>6

\* Quorum.Add leaves all of it alone.
LEMMA addVoteSame ==
  ASSUME NEW s \in ReplicaState, NEW q, NEW v
  PROVE  Same(s, addVote(s, q, v))
BY DEF addVote, Same, ReplicaState

\* ProcessVote after a Continue.
LEMMA applyQCTimed ==
  ASSUME NEW r, NEW s, GoodReplica(r, s), Timed(s), GoodBlocks, NEW qc \in QC, ValidQC(qc)
  PROVE  Timed(applyQC(r, s, qc))
<1> DEFINE later == [s EXCEPT !.bufferedQCs = @ \cup {qc}]
<1>1. applyQC(r, s, qc) \in {later, processCertificate(r, s, qc)}
  BY DEF applyQC
<1>2. Same(s, later)
  BY GoodType DEF Same, ReplicaState
<1>3. Timed(later)
  BY <1>2, SameTimed
<1> HIDE DEF later
<1> QED BY <1>1, <1>3, CertificateTimed

\* AddTmo: the messages are counted by view; those of one view carry one sequence
\* number, which is that of the TC.
LEMMA addTmoTimed ==
  ASSUME NEW r, NEW s, GoodReplica(r, s), Timed(s), NEW tmo \in tmos, GoodTmos, TimedTmos
  PROVE  Timed(addTmo(r, s, tmo))
<1> DEFINE T == s.timeouts \cup {<<tmo.view, tmo.node>>}
           x == tmo.fseq
           more == [s EXCEPT !.timeouts = T]
           ftc == [view |-> x, seq |-> x]
           stc == [view |-> tmo.sseq, seq |-> tmo.sseq]
           u == updateHighTC(updateHighTC(more, ftc), stc)
           from == {y \in Node : <<tmo.view, y>> \in T}
<1>1. /\ s \in ReplicaState /\ tmo \in TMO /\ tmo.sseq = x + 1 /\ x \in Nat /\ tmo.sseq \in Nat
      /\ T \in SUBSET (Nat \X Node)
  <2>1. s \in ReplicaState
    BY GoodType
  <2>2. tmo \in TMO /\ tmo.sseq = tmo.fseq + 1
    BY DEF GoodTmos, GoodTmo
  <2>3. tmo.fseq \in Nat /\ tmo.sseq \in Nat /\ tmo.view \in Nat /\ tmo.node \in Node
    BY <2>2 DEF TMO
  <2>4. s.timeouts \in SUBSET (Nat \X Node)
    BY <2>1 DEF ReplicaState
  <2> QED BY <2>1, <2>2, <2>3, <2>4
<1>2. more.timeouts = T
  BY <1>1 DEF ReplicaState
<1>3. \/ addTmo(r, s, tmo) \in {s, more}
      \/ superMajority(from) /\ addTmo(r, s, tmo) = AdvanceView(r, u, x, x, TimeoutF)
  BY <1>2 DEF addTmo
<1>4. Heard(T)
  BY DEF Timed, Heard
<1>5. TimedTmo(tmo) /\ \A m \in tmos : TimedTmo(m)
  BY DEF TimedTmos
<1> HIDE DEF T
<1>6. more \in ReplicaState
  BY <1>1, ZenonT(60) DEF ReplicaState
<1>7. Timed(more)
  <2>1. /\ more.secHighTC = s.secHighTC /\ more.highTC = s.highTC
        /\ more.curView = s.curView /\ more.curSeq = s.curSeq /\ more.newViews = s.newViews
        /\ more.held = s.held
    BY <1>1 DEF ReplicaState
  <2> HIDE DEF more
  <2> QED BY <1>2, <1>4, <2>1 DEF Timed
<1> HIDE DEF more
<1>8. ASSUME superMajority(from)
      PROVE  Timed(AdvanceView(r, u, x, x, TimeoutF))
  <2>1. ~ TornRead => superMajority(Asked(x))
    <3> SUFFICES ASSUME ~ TornRead PROVE superMajority(Asked(x))
      OBVIOUS
    <3>1. from \subseteq Asked(x)
      <4> SUFFICES ASSUME NEW y \in from PROVE y \in Asked(x)
        OBVIOUS
      <4>1. PICK m \in tmos : m.view = tmo.view /\ m.node = y
        BY <1>4 DEF Heard
      <4>2. m.fseq = x
        BY <1>5, <4>1 DEF TimedTmo
      <4> QED BY <4>1, <4>2 DEF Asked
    <3>2. Asked(x) \subseteq Node
      BY DEF Asked
    <3> HIDE DEF from, x
    <3> QED BY <1>8, <3>1, <3>2, SuperMajorityGrows
  <2>2. TimedTCs(ftc, stc) /\ ftc \in TC /\ stc \in TC
    BY <1>1, <2>1 DEF TimedTCs, EvenTC, BackedTC, TC
  <2> HIDE DEF ftc, stc
  <2>3. Timed(u)
    BY <1>6, <1>7, <2>2, TwoTCsTimed
  <2>4. u \in ReplicaState
    BY <1>6, <2>2, ZenonT(60) DEF updateHighTC, ReplicaState
  <2> HIDE DEF u
  <2> QED BY <1>1, <2>3, <2>4, AdvanceViewTimed
<1> HIDE DEF from, u, x
<1> QED BY <1>3, <1>7, <1>8

-----------------------------------------------------------------------------
(* The steps *)

\* Timeout messages are not withdrawn: a TC stays one that was asked for.
LEMMA BackedGrows ==
  ASSUME tmos \subseteq tmos', NEW tc, BackedTC(tc)
  PROVE  BackedTC(tc)'
<1> SUFFICES ASSUME ~ TornRead, tc # NoTC PROVE superMajority(Asked(tc.seq))'
  BY DEF BackedTC, NoTC
<1>1. PICK S : S = Asked(tc.seq)
  OBVIOUS
<1>2. PICK T : T = {q \in Node : \E tmo \in tmos' : tmo.node = q /\ tmo.fseq = tc.seq}
  OBVIOUS
<1>3. superMajority(S) /\ S \subseteq T /\ T \subseteq Node
  BY <1>1, <1>2 DEF BackedTC, Asked
<1>4. superMajority(T)
  BY <1>3, SuperMajorityGrows
<1> QED BY <1>2, <1>4 DEF superMajority, Asked

\* A block stays timed.
LEMMA TimedBlockGrows ==
  ASSUME tmos \subseteq tmos', NEW b, TimedBlock(b)
  PROVE  TimedBlock(b)'
<1>1. PICK tc : tc = b.tcs[1]
  OBVIOUS
<1>2. CASE b.tcs = <<>>
  BY <1>2 DEF TimedBlock, EvenTC
<1>3. CASE b.tcs # <<>>
  <2>1. BackedTC(tc)
    BY <1>1, <1>3 DEF TimedBlock
  <2>2. BackedTC(tc)'
    BY <2>1, BackedGrows
  <2> QED BY <1>1, <2>2 DEF TimedBlock, EvenTC
<1> QED BY <1>2, <1>3

\* A record stays timed.
LEMMA TimedGrows ==
  ASSUME tmos \subseteq tmos', NEW s, Timed(s)
  PROVE  Timed(s)'
<1>1. TimedViews(s.curView, s.curSeq, s.newViews)'
  BY DEF Timed, TimedViews
<1>2. TimedTCs(s.secHighTC, s.highTC)'
  BY BackedGrows DEF Timed, TimedTCs, EvenTC
<1>3. TimedHeld(s.held)'
  BY TimedBlockGrows DEF Timed, TimedHeld, NoBlock
<1>4. Heard(s.timeouts)'
  BY DEF Timed, Heard
<1> QED BY <1>1, <1>2, <1>3, <1>4 DEF Timed

\* A step of handlers that keep Timed, of votes on their way and of timers.
LEMMA TimedStep ==
  ASSUME ViewInv, IInv', NEW U, \A q \in Node : Timed(U[q]) /\ Same(U[q], st'[q]),
         tmos \subseteq tmos', \A tmo \in tmos' : TimedTmo(tmo),
         \A v \in Proposed' : TimedBlock(block'[v])
  PROVE  ViewInv'
<1>1. ASSUME NEW q \in Node, NEW s \in ReplicaState, s = st'[q]
      PROVE  Timed(s)'
  <2>1. Timed(s)
    BY <1>1, SameTimed
  <2> QED BY <2>1, TimedGrows
<1>2. TimedReplicas'
  BY <1>1 DEF TimedReplicas
<1>3. ASSUME NEW v \in Proposed', NEW b, b = block'[v]
      PROVE  TimedBlock(b)'
  BY <1>3, TimedBlockGrows
<1>4. TimedBlocks'
  <2> SUFFICES ASSUME NEW v \in Proposed' PROVE TimedBlock(block[v])'
    BY DEF TimedBlocks
  <2>1. PICK b : b = block'[v]
    OBVIOUS
  <2>2. TimedBlock(b)'
    BY <1>3, <2>1
  <2> QED BY <2>1, <2>2 DEF TimedBlock, EvenTC, BackedTC, Asked, superMajority
<1>5. TimedTmos'
  BY DEF TimedTmos, TimedTmo
<1> QED BY <1>2, <1>4, <1>5 DEF ViewInv

\* The record a handler starts from.
LEMMA StartsTimed ==
  ASSUME ViewInv, NEW r \in Node
  PROVE  st[r] \in ReplicaState /\ GoodReplica(r, st[r]) /\ Timed(st[r])
BY StartsGood DEF ViewInv, TimedReplicas

\* A handler of one replica that publishes nothing: t is what it leaves before its
\* vote is sent.
LEMMA TimedOne ==
  ASSUME ViewInv, IInv', NEW r \in Node, NEW t, Timed(t), t \in ReplicaState,
         \A q \in Node : Same(IF q = r THEN t ELSE st[q], st'[q]),
         block' = block, tmos' = tmos
  PROVE  ViewInv'
<1> DEFINE U == [st EXCEPT ![r] = t]
<1>1. st \in [Node -> ReplicaState]
  BY DEF ViewInv, IInv
<1>2. \A q \in Node : U[q] = IF q = r THEN t ELSE st[q]
  BY <1>1
<1> HIDE DEF U
<1>3. \A q \in Node : Timed(U[q]) /\ Same(U[q], st'[q])
  BY <1>2, StartsTimed
<1>4. Proposed' = Proposed
  BY DEF Proposed
<1>5. \A v \in Proposed' : TimedBlock(block'[v])
  BY <1>4 DEF ViewInv, TimedBlocks
<1>6. \A tmo \in tmos' : TimedTmo(tmo)
  BY DEF ViewInv, TimedTmos
<1> QED BY <1>3, <1>5, <1>6, TimedStep

\* A handler that sends no vote.
LEMMA TimedQuiet ==
  ASSUME ViewInv, IInv', NEW r \in Node, NEW t, Timed(t), GoodReplica(r, t),
         st' = [st EXCEPT ![r] = t], block' = block, tmos' = tmos
  PROVE  ViewInv'
<1>1. t \in ReplicaState /\ st \in [Node -> ReplicaState]
  BY GoodType DEF ViewInv, IInv
<1>2. \A q \in Node : st'[q] = IF q = r THEN t ELSE st[q]
  BY <1>1
<1>3. \A q \in Node : Same(IF q = r THEN t ELSE st[q], st'[q])
  BY <1>2 DEF Same
<1> QED BY <1>1, <1>3, TimedOne

\* A handler of the main loop, which may vote.
LEMMA TimedVote ==
  ASSUME ViewInv, IInv', NEW r \in Node, NEW t, Timed(t), GoodReplica(r, t), NEW v,
         st' = HandleVote([st EXCEPT ![r] = t], r, v), block' = block, tmos' = tmos
  PROVE  ViewInv'
<1> DEFINE U == [st EXCEPT ![r] = t]
<1>1. t \in ReplicaState /\ st \in [Node -> ReplicaState]
  BY GoodType DEF ViewInv, IInv
<1>2. /\ U \in [Node -> ReplicaState]
      /\ \A q \in Node : U[q] = IF q = r THEN t ELSE st[q]
  BY <1>1
<1>3. PICK a, vote : st' = U \/ st' = [U EXCEPT ![a].dual = @ \cup {vote}]
  BY DEF HandleVote
<1> HIDE DEF U
<1>4. \A q \in Node : st'[q] = U[q] \/ st'[q] = [U[q] EXCEPT !.dual = @ \cup {vote}]
  BY <1>2, <1>3
<1>5. ASSUME NEW q \in Node, NEW u \in ReplicaState, u = U[q] PROVE Same(u, st'[q])
  BY <1>4, <1>5 DEF Same, ReplicaState
<1>6. \A q \in Node : Same(IF q = r THEN t ELSE st[q], st'[q])
  BY <1>2, <1>5
<1> QED BY <1>1, <1>6, TimedOne

\* The first leader starts.
LEMMA KickOffTimed ==
  ASSUME ViewInv, IInv', NEW r \in Node, KickOff(r)
  PROVE  ViewInv'
<1> DEFINE t == AdvanceView(r, st[r], 0, 0, NoTimeout)
           w == [t EXCEPT !.dual = @ \cup {<<r, 0, 0>>}]
<1>1. GoodReplica(r, t) /\ Timed(t)
  <2>1. NoTimeout \in {NoTimeout, TimeoutF, TimeoutS} /\ 0 \in Nat
    OBVIOUS
  <2> QED BY <2>1, StartsTimed, AdvanceViewGood, AdvanceViewTimed
<1>2. st' = [st EXCEPT ![r] = w] /\ block' = block /\ tmos' = tmos
  BY DEF KickOff
<1> HIDE DEF t
<1>3. t \in ReplicaState /\ st \in [Node -> ReplicaState]
  BY <1>1, GoodType DEF ViewInv, IInv
<1>4. Same(t, w)
  BY <1>3 DEF Same, ReplicaState
<1> HIDE DEF w
<1>5. \A q \in Node : Same(IF q = r THEN t ELSE st[q], st'[q])
  BY <1>2, <1>3, <1>4 DEF Same
<1> QED BY <1>1, <1>2, <1>3, <1>5, TimedOne

\* A block from the network.
LEMMA ProcessBlockTimed ==
  ASSUME ViewInv, IInv', NEW r \in Node, NEW v \in View, ProcessBlock(r, v)
  PROVE  ViewInv'
<1> DEFINE X == st[r].received \cup {v}
           s == [st[r] EXCEPT !.received = X]
           t == processBlock(r, s, block[v])
<1>1. Received(block[v])
  BY DEF ProcessBlock, CanProcessBlock, Proposed, Received
<1>2. X \in SUBSET View
  BY StartsTimed DEF ReplicaState
<1>3. st' = HandleVote([st EXCEPT ![r] = t], r, v) /\ block' = block /\ tmos' = tmos
  BY DEF ProcessBlock
<1> HIDE DEF X
<1>4. GoodReplica(r, s) /\ Same(st[r], s)
  BY <1>2, StartsTimed, Leaves, OtherFields
<1> HIDE DEF s
<1>5. Timed(s) /\ GoodBlocks /\ TimedBlocks
  BY <1>4, StartsTimed, SameTimed DEF ViewInv, IInv
<1>6. GoodReplica(r, t) /\ Timed(t)
  BY <1>1, <1>4, <1>5, processBlockGood, processBlockTimed
<1> HIDE DEF t
<1> QED BY <1>3, <1>6, TimedVote

\* A block from the buffer.
LEMMA ProcessBufferedTimed ==
  ASSUME ViewInv, IInv', NEW r \in Node, ProcessBufferedBlock(r)
  PROVE  ViewInv'
<1> DEFINE v == st[r].recursive
           s == [st[r] EXCEPT !.recursive = 0]
           p == processBlock(r, s, block[v])
           X == p.bufferedBlocks \ {v}
           t == [p EXCEPT !.bufferedBlocks = X]
<1>1. Received(block[v])
  BY StartsTimed DEF ProcessBufferedBlock, CanProcessBuffered, GoodReplica, Sound, KnownBlocks, Received
<1>2. st' = HandleVote([st EXCEPT ![r] = t], r, v) /\ block' = block /\ tmos' = tmos
  BY DEF ProcessBufferedBlock
<1> HIDE DEF v
<1>3. GoodReplica(r, s) /\ Same(st[r], s)
  BY StartsTimed, Leaves, OtherFields
<1> HIDE DEF s
<1>4. Timed(s) /\ GoodBlocks /\ TimedBlocks
  BY <1>3, StartsTimed, SameTimed DEF ViewInv, IInv
<1>5. GoodReplica(r, p) /\ Timed(p)
  BY <1>1, <1>3, <1>4, processBlockGood, processBlockTimed
<1> HIDE DEF p
<1>6. X \in SUBSET p.bufferedBlocks
  OBVIOUS
<1> HIDE DEF X
<1>7. GoodReplica(r, t) /\ Same(p, t)
  BY <1>5, <1>6, GoodType, Leaves, OtherFields
<1> HIDE DEF t
<1>8. Timed(t)
  BY <1>5, <1>7, SameTimed
<1> QED BY <1>2, <1>7, <1>8, TimedVote

\* A block whose signal had to wait.
LEMMA ResumeBlockTimed ==
  ASSUME ViewInv, IInv', NEW r \in Node, ResumeBlock(r)
  PROVE  ViewInv'
<1> DEFINE v == st[r].blocked
           s == [st[r] EXCEPT !.blocked = 0]
           sent == sendSignal(s, Continue, 0)
           t == commitAndVote(r, sent, block[v])
<1>1. Received(block[v])
  BY StartsTimed DEF ResumeBlock, CanResumeBlock, GoodReplica, Sound, KnownBlocks, Received
<1>2. st' = HandleVote([st EXCEPT ![r] = t], r, v) /\ block' = block /\ tmos' = tmos
  BY DEF ResumeBlock
<1> HIDE DEF v
<1>3. GoodReplica(r, s) /\ Same(st[r], s)
  BY StartsTimed, Leaves, OtherFields
<1> HIDE DEF s
<1>4. GoodReplica(r, sent) /\ Same(s, sent)
  <2>1. Continue \in {Continue, Drop} /\ 0 \in Nat
    OBVIOUS
  <2>2. GoodReplica(r, sent)
    BY <1>3, <2>1, sendSignalGood
  <2>3. Same(s, sent)
    BY <1>3, GoodType DEF sendSignal, Same, ReplicaState
  <2> QED BY <2>2, <2>3
<1> HIDE DEF sent
<1>5. Timed(sent) /\ GoodBlocks
  BY <1>3, <1>4, StartsTimed, SameTimed DEF ViewInv, IInv
<1>6. GoodReplica(r, t) /\ Timed(t)
  BY <1>1, <1>4, <1>5, commitAndVoteGood, commitAndVoteTimed
<1> HIDE DEF t
<1> QED BY <1>2, <1>6, TimedVote

\* A vote.
LEMMA ProcessVoteTimed ==
  ASSUME ViewInv, IInv', NEW r \in Node, NEW vote \in st[r].dual, ProcessVote(r, vote)
  PROVE  ViewInv'
<1> DEFINE X == st[r].dual \ {vote}
           s == [st[r] EXCEPT !.dual = X]
           t == addVote(s, vote[1], vote[2])
<1>1. st' = [st EXCEPT ![r] = t] /\ block' = block /\ tmos' = tmos
  BY DEF ProcessVote
<1>2. vote[1] \in Node /\ vote[2] \in Id /\ (vote[2] = 0 \/ Cast(vote[1], vote[2]))
  BY StartsTimed DEF ReplicaState, GoodReplica, Sound, KnownVotes
<1>3. X \in SUBSET st[r].dual
  OBVIOUS
<1> HIDE DEF X
<1>4. GoodReplica(r, s) /\ Same(st[r], s)
  BY <1>3, StartsTimed, Leaves, OtherFields
<1> HIDE DEF s
<1>5. GoodReplica(r, t) /\ Same(s, t)
  BY <1>2, <1>4, GoodType, addVoteGood, addVoteSame DEF ViewInv, IInv
<1> HIDE DEF t
<1>6. Timed(t)
  BY <1>4, <1>5, StartsTimed, SameTimed
<1> QED BY <1>1, <1>5, <1>6, TimedQuiet

\* A signal.
LEMMA ReceiveSignalTimed ==
  ASSUME ViewInv, IInv', NEW r \in Node, ReceiveSignal(r)
  PROVE  ViewInv'
<1> DEFINE c == Tail(st[r].proposeChan)
           sig == Head(st[r].proposeChan)
           qc == st[r].waiting
           rest == [st[r] EXCEPT !.proposeChan = c]
           free == [rest EXCEPT !.waiting = NoQC]
           t == IF sig.ope = Continue THEN applyQC(r, free, qc)
                ELSE IF sig.view > qc.view THEN free
                ELSE rest
<1>1. st' = [st EXCEPT ![r] = t] /\ block' = block /\ tmos' = tmos
  BY DEF ReceiveSignal
<1>2. qc \in QC /\ ValidQC(qc)
  BY StartsTimed DEF ReceiveSignal, CanReceiveSignal, ReplicaState, GoodReplica, Sound, ValidQCs
<1>3. c \in Seq(Signal)
  <2>1. st[r].proposeChan \in Seq(Signal) /\ st[r].proposeChan # <<>>
    BY StartsTimed DEF ReceiveSignal, CanReceiveSignal, ReplicaState
  <2> QED BY <2>1
<1> HIDE DEF c, sig, qc
<1>4. GoodReplica(r, rest) /\ Same(st[r], rest)
  BY <1>3, StartsTimed, Leaves, OtherFields
<1> HIDE DEF rest
<1>5. Timed(rest)
  BY <1>4, StartsTimed, SameTimed
<1>6. GoodReplica(r, free) /\ Same(rest, free)
  BY <1>4, GoodType, Leaves, OtherFields
<1> HIDE DEF free
<1>7. Timed(free)
  BY <1>5, <1>6, SameTimed
<1>8. GoodReplica(r, applyQC(r, free, qc)) /\ Timed(applyQC(r, free, qc))
  BY <1>2, <1>6, <1>7, applyQCGood, applyQCTimed DEF ViewInv, IInv
<1>9. GoodReplica(r, t) /\ Timed(t)
  BY <1>4, <1>5, <1>6, <1>7, <1>8
<1> HIDE DEF t
<1> QED BY <1>1, <1>9, TimedQuiet

\* A timeout message.
LEMMA RemoteTmoTimed ==
  ASSUME ViewInv, IInv', NEW r \in Node, NEW tmo \in tmos, ProcessRemoteTmo(r, tmo)
  PROVE  ViewInv'
<1> DEFINE s == processCertificate(r, st[r], tmo.highQC)
           t == IF tmo.view < s.curView THEN s ELSE addTmo(r, s, tmo)
<1>1. st' = [st EXCEPT ![r] = t] /\ block' = block /\ tmos' = tmos
  BY DEF ProcessRemoteTmo
<1>2. GoodBlocks /\ GoodTmos /\ TimedTmos
  BY DEF ViewInv, IInv
<1>3. tmo \in TMO /\ ValidQC(tmo.highQC) /\ tmo.sseq = tmo.fseq + 1
  BY <1>2 DEF GoodTmos, GoodTmo
<1>4. tmo.highQC \in QC
  BY <1>3 DEF TMO
<1>5. GoodReplica(r, s) /\ Timed(s)
  BY <1>2, <1>3, <1>4, StartsTimed, CertificateGood, CertificateTimed
<1> HIDE DEF s
<1>6. GoodReplica(r, addTmo(r, s, tmo)) /\ Timed(addTmo(r, s, tmo))
  BY <1>2, <1>3, <1>5, addTmoGood, addTmoTimed
<1>7. GoodReplica(r, t) /\ Timed(t)
  BY <1>5, <1>6
<1> HIDE DEF t
<1> QED BY <1>1, <1>7, TimedQuiet

\* The timer: the view and the sequence number of the message are read from one
\* state unless the read is torn.
LEMMA LocalTmoTimed ==
  ASSUME ViewInv, IInv', NEW r \in Node, ProcessLocalTmo(r)
  PROVE  ViewInv'
<1> DEFINE s == st[r]
<1>1. PICK view \in TimerViews \cap ({s.curView} \cup (IF TornRead THEN {s.prevView} ELSE {})) :
        tmos' = tmos \cup {[view |-> view + 1, fseq |-> s.curSeq, sseq |-> s.curSeq + 1,
                           node |-> r, highQC |-> s.highQC]}
  BY DEF ProcessLocalTmo
<1> DEFINE new == [view |-> view + 1, fseq |-> s.curSeq, sseq |-> s.curSeq + 1,
                   node |-> r, highQC |-> s.highQC]
<1>2. tmos' = tmos \cup {new} /\ st' = st /\ block' = block
  BY <1>1 DEF ProcessLocalTmo
<1>3. /\ ~ TornRead => view = s.curView
      /\ s.curView \in Nat
      /\ s.curSeq = IF s.curView = 0 THEN 0 ELSE s.curView + 1
  BY <1>1, StartsTimed DEF ReplicaState, Timed, TimedViews
<1>4. new.view = view + 1 /\ new.fseq = s.curSeq
  OBVIOUS
<1> HIDE DEF new, s
<1>5. TimedTmo(new)
  BY <1>3, <1>4 DEF TimedTmo
<1>6. \A tmo \in tmos' : TimedTmo(tmo)
  BY <1>2, <1>5 DEF ViewInv, TimedTmos
<1>7. \A q \in Node : Timed(st[q]) /\ Same(st[q], st'[q])
  BY <1>2, StartsTimed DEF Same
<1>8. Proposed' = Proposed
  BY <1>2 DEF Proposed
<1>9. \A v \in Proposed' : TimedBlock(block'[v])
  BY <1>2, <1>8 DEF ViewInv, TimedBlocks
<1> QED BY <1>2, <1>6, <1>7, <1>9, TimedStep

\* The history field nth does not matter.
LEMMA NumberedTimed ==
  ASSUME NEW b \in Block, NEW n, TimedBlock(b)
  PROVE  TimedBlock([b EXCEPT !.nth = n])
<1> DEFINE c == [b EXCEPT !.nth = n]
<1>1. c.view = b.view /\ c.seq = b.seq /\ c.tc = b.tc /\ c.tcs = b.tcs
  BY DEF Block
<1> HIDE DEF c
<1>2. TimedBlock(c)
  BY <1>1 DEF TimedBlock
<1> QED BY <1>2 DEF c

\* A leader publishes a timed block and is left in state t.
LEMMA TimedPublish ==
  ASSUME ViewInv, IInv', NEW r \in Node, NEW t, Timed(t), GoodReplica(r, t),
         NEW b \in Block, TimedBlock(b),
         st' = [st EXCEPT ![r] = t], block' = publish(b), tmos' = tmos
  PROVE  ViewInv'
<1> DEFINE U == [st EXCEPT ![r] = t]
           n == Cardinality({v \in View : block[v] # NoBlock})
           c == [b EXCEPT !.nth = n]
<1>1. /\ t \in ReplicaState /\ st \in [Node -> ReplicaState]
      /\ block \in [View -> Block \cup {NoBlock}] /\ b.view \in View
  BY GoodType DEF ViewInv, IInv, GoodBlocks, Block
<1>2. st' = U /\ \A q \in Node : U[q] = IF q = r THEN t ELSE st[q]
  BY <1>1
<1> HIDE DEF U
<1>3. \A q \in Node : Timed(U[q]) /\ Same(U[q], st'[q])
  BY <1>2, StartsTimed DEF Same
<1>4. block' = [block EXCEPT ![b.view] = c]
  BY DEF publish
<1> HIDE DEF n
<1>5. TimedBlock(c)
  BY NumberedTimed
<1> HIDE DEF c
<1>6. ASSUME NEW v \in Proposed' PROVE TimedBlock(block'[v])
  <2>1. v \in View /\ block'[v] # NoBlock
    BY DEF Proposed
  <2>2. CASE v = b.view
    BY <1>1, <1>4, <1>5, <2>2
  <2>3. CASE v # b.view
    BY <1>1, <1>4, <2>1, <2>3 DEF Proposed, ViewInv, TimedBlocks
  <2> QED BY <2>2, <2>3
<1>7. \A tmo \in tmos' : TimedTmo(tmo)
  BY DEF ViewInv, TimedTmos
<1> QED BY <1>3, <1>6, <1>7, TimedStep

\* MakeProposal builds a timed block.
LEMMA ProposalTimed ==
  ASSUME NEW s \in ReplicaState, Timed(s), NEW nv \in NewView, nv.seq = nv.view + 1
  PROVE  TimedBlock(proposal(s, nv))
<1> DEFINE b == proposal(s, nv)
           pair == <<s.secHighTC, s.highTC>>
           none == <<>>
<1>1. EvenTC(s.secHighTC) /\ EvenTC(s.highTC) /\ BackedTC(s.secHighTC) /\ EvenTC(NoTC)
  BY DEF Timed, TimedTCs, EvenTC, NoTC
<1>2. pair[1] = s.secHighTC /\ pair[2] = s.highTC
  OBVIOUS
<1>3. /\ b.view = nv.view /\ b.seq = nv.seq
      /\ b.tc \in {NoTC, s.secHighTC, s.highTC}
      /\ b.tcs \in {none, pair}
  BY DEF proposal, NewView, NoTimeout, TimeoutF, TimeoutS
<1>4. none = <<>>
  OBVIOUS
<1> HIDE DEF b, pair, none
<1>5. TimedBlock(b)
  BY <1>1, <1>2, <1>3, <1>4 DEF TimedBlock
<1> QED BY <1>5 DEF b

\* A proposal is published, with or without a signal, or held.
LEMMA MakeProposalTimed ==
  ASSUME ViewInv, IInv', NEW r \in Node, MakeProposal(r)
  PROVE  ViewInv'
<1> DEFINE nv == Head(st[r].newViews)
           q == Tail(st[r].newViews)
           p == [st[r] EXCEPT !.newViews = q]
           s == afterProposal(p, nv)
           b == proposal(st[r], nv)
<1>1. st[r] \in ReplicaState /\ GoodReplica(r, st[r]) /\ Timed(st[r])
  BY StartsTimed
<1>2. st[r].held = NoBlock /\ st[r].newViews # <<>> /\ nv.view <= MaxView /\ tmos' = tmos
  BY DEF MakeProposal, CanMakeProposal
<1>3. \/ /\ st' = [st EXCEPT ![r] = s]
         /\ block' = publish(b)
      \/ /\ st' = [st EXCEPT ![r] = sendSignal(s, Drop, nv.view)]
         /\ block' = publish(b)
      \/ /\ st' = [st EXCEPT ![r] = [s EXCEPT !.held = b]]
         /\ block' = block
  BY DEF MakeProposal
<1>4. nv \in NewView /\ q \in Seq(NewView) /\ GoodQueue(r, st[r].curView, NoBlock, q)
  BY <1>1, <1>2, NextView
<1>5. nv.seq = nv.view + 1 /\ TimedViews(st[r].curView, st[r].curSeq, q)
  <2> DEFINE all == st[r].newViews
  <2>1. all \in Seq(NewView) /\ all # <<>> /\ TimedViews(st[r].curView, st[r].curSeq, all)
    BY <1>1, <1>2 DEF Timed, ReplicaState
  <2> HIDE DEF all
  <2>2. /\ Head(all) = all[1] /\ Len(all) \in Nat /\ Len(all) >= 1 /\ Len(Tail(all)) = Len(all) - 1
        /\ \A i \in 1..Len(Tail(all)) : Tail(all)[i] = all[i + 1] /\ i + 1 \in 1..Len(all)
    BY <2>1
  <2>3. Head(all).seq = Head(all).view + 1 /\ TimedViews(st[r].curView, st[r].curSeq, Tail(all))
    BY <2>1, <2>2 DEF TimedViews
  <2> QED BY <2>3 DEF all
<1> HIDE DEF nv, q
<1>6. b \in Block /\ TimedBlock(b)
  BY <1>1, <1>2, <1>4, <1>5, ProposalGood, ProposalTimed
<1> HIDE DEF b
<1>7. p \in ReplicaState /\ p.held = NoBlock /\ p.newViews = q /\ p.curView = st[r].curView
  BY <1>1, <1>2, <1>4, PopType
<1>8. GoodReplica(r, p)
  BY <1>1, <1>4, <1>7, ZenonT(60) DEF GoodReplica, Sound, ReplicaState
<1>9. Timed(p)
  <2>1. /\ p.curSeq = st[r].curSeq /\ p.secHighTC = st[r].secHighTC /\ p.highTC = st[r].highTC
        /\ p.timeouts = st[r].timeouts
    BY <1>1 DEF ReplicaState
  <2> HIDE DEF p
  <2> QED BY <1>1, <1>5, <1>7, <2>1 DEF Timed, TimedHeld
<1> HIDE DEF p
<1>10. GoodReplica(r, s) /\ Timed(s)
  <2>1. GoodReplica(r, s)
    BY <1>8, afterProposalGood
  <2>2. Timed(updateHighTC(updateHighTC(p, NoTC), NoTC))
    BY <1>7, <1>9, NoTCsTimed, TwoTCsTimed
  <2> QED BY <1>9, <2>1, <2>2 DEF afterProposal
<1> HIDE DEF s
<1>11. s \in ReplicaState
  BY <1>10, GoodType
<1>12. CASE st' = [st EXCEPT ![r] = s] /\ block' = publish(b)
  BY <1>2, <1>6, <1>10, <1>12, TimedPublish
<1>13. CASE st' = [st EXCEPT ![r] = sendSignal(s, Drop, nv.view)] /\ block' = publish(b)
  <2> DEFINE t == sendSignal(s, Drop, nv.view)
  <2>1. Drop \in {Continue, Drop} /\ nv.view \in Nat
    BY <1>4 DEF NewView
  <2>2. GoodReplica(r, t)
    BY <1>10, <2>1, sendSignalGood
  <2>3. Same(s, t)
    BY <1>11 DEF sendSignal, Same, ReplicaState
  <2>4. st' = [st EXCEPT ![r] = t]
    BY <1>13
  <2> HIDE DEF t
  <2>5. Timed(t)
    BY <1>10, <2>3, SameTimed
  <2> QED BY <1>2, <1>6, <1>13, <2>2, <2>4, <2>5, TimedPublish
<1>14. CASE st' = [st EXCEPT ![r] = [s EXCEPT !.held = b]] /\ block' = block
  <2> DEFINE t == [s EXCEPT !.held = b]
  <2>1. t \in ReplicaState
    BY <1>6, <1>11, ZenonT(60) DEF ReplicaState
  <2>2. /\ t.curView = s.curView /\ t.curSeq = s.curSeq /\ t.newViews = s.newViews
        /\ t.secHighTC = s.secHighTC /\ t.highTC = s.highTC
        /\ t.held = b /\ t.timeouts = s.timeouts
    BY <1>11 DEF ReplicaState
  <2>3. st' = [st EXCEPT ![r] = t]
    BY <1>14
  <2> HIDE DEF t
  <2>4. Timed(t)
    BY <1>6, <1>10, <2>2 DEF Timed, TimedHeld
  <2>5. \A x \in Node : Same(IF x = r THEN t ELSE st[x], st'[x])
    BY <2>3 DEF Same, ViewInv, IInv
  <2> QED BY <1>2, <1>14, <2>1, <2>4, <2>5, TimedOne
<1> QED BY <1>3, <1>12, <1>13, <1>14

\* A held proposal is published.
LEMMA ResumeProposalTimed ==
  ASSUME ViewInv, IInv', NEW r \in Node, ResumeProposal(r)
  PROVE  ViewInv'
<1> DEFINE b == st[r].held
           s == [st[r] EXCEPT !.held = NoBlock]
           t == sendSignal(s, Drop, b.view)
<1>1. st[r] \in ReplicaState /\ GoodReplica(r, st[r]) /\ Timed(st[r])
  BY StartsTimed
<1>2. b # NoBlock /\ st' = [st EXCEPT ![r] = t] /\ block' = publish(b) /\ tmos' = tmos
  BY DEF ResumeProposal, CanResumeProposal
<1>3. b \in Block /\ TimedBlock(b) /\ b.view \in Nat
  BY <1>1, <1>2, MaxViewNat DEF Timed, TimedHeld, ReplicaState, Block, View
<1>4. GoodQueue(r, st[r].curView, NoBlock, st[r].newViews)
  BY <1>1 DEF GoodReplica, Sound, GoodQueue
<1> HIDE DEF b
<1>5. s \in ReplicaState /\ s.held = NoBlock /\ s.newViews = st[r].newViews /\ s.curView = st[r].curView
  BY <1>1, ZenonT(60) DEF ReplicaState
<1>6. GoodReplica(r, s)
  BY <1>1, <1>4, <1>5 DEF GoodReplica, Sound, ReplicaState
<1>7. Timed(s)
  <2>1. /\ s.curSeq = st[r].curSeq /\ s.secHighTC = st[r].secHighTC /\ s.highTC = st[r].highTC
        /\ s.timeouts = st[r].timeouts
    BY <1>1 DEF ReplicaState
  <2> HIDE DEF s
  <2> QED BY <1>1, <1>5, <2>1 DEF Timed, TimedHeld
<1> HIDE DEF s
<1>8. GoodReplica(r, t) /\ Same(s, t)
  <2>1. Drop \in {Continue, Drop}
    OBVIOUS
  <2>2. GoodReplica(r, t)
    BY <1>3, <1>6, <2>1, sendSignalGood
  <2>3. Same(s, t)
    BY <1>5 DEF sendSignal, Same, ReplicaState
  <2> QED BY <2>2, <2>3
<1> HIDE DEF t
<1>9. Timed(t)
  BY <1>7, <1>8, SameTimed
<1> QED BY <1>2, <1>3, <1>8, <1>9, TimedPublish

-----------------------------------------------------------------------------
(* The invariant is inductive *)

\* The initial states are timed.
LEMMA InitTimed ==
  ASSUME Init
  PROVE  ViewInv
<1> DEFINE s == InitReplica
<1>1. IInv
  BY InitGood
<1>2. st = [r \in Node |-> s] /\ tmos = {} /\ Proposed = {}
  BY DEF Init, Proposed
<1>3. /\ s.curView = 0 /\ s.curSeq = 0 /\ s.newViews = <<>>
      /\ s.secHighTC = NoTC /\ s.highTC = NoTC /\ s.held = NoBlock /\ s.timeouts = {}
  BY DEF InitReplica
<1> HIDE DEF s
<1>4. Timed(s)
  BY <1>3, NoTCsTimed DEF Timed, TimedViews, TimedHeld, Heard
<1>5. TimedReplicas /\ TimedBlocks /\ TimedTmos
  BY <1>2, <1>4 DEF TimedReplicas, TimedBlocks, TimedTmos
<1> QED BY <1>1, <1>5 DEF ViewInv

\* Every step keeps it.
LEMMA NextTimed ==
  ASSUME ViewInv, [Next]_vars
  PROVE  ViewInv'
<1>0. IInv'
  BY NextGood DEF ViewInv
<1>1. CASE UNCHANGED vars
  <2>1. st' = st /\ block' = block /\ tmos' = tmos
    BY <1>1 DEF vars
  <2>2. \A q \in Node : Timed(st[q]) /\ Same(st[q], st'[q])
    BY <2>1, StartsTimed DEF Same
  <2>3. \A tmo \in tmos' : TimedTmo(tmo)
    BY <2>1 DEF ViewInv, TimedTmos
  <2>4. Proposed' = Proposed
    BY <2>1 DEF Proposed
  <2>5. \A v \in Proposed' : TimedBlock(block'[v])
    BY <2>1, <2>4 DEF ViewInv, TimedBlocks
  <2> QED BY <1>0, <2>1, <2>2, <2>3, <2>5, TimedStep
<1>2. CASE Next
  <2>1. PICK r \in Node : \/ Step(r)
                          \/ ProcessLocalTmo(r)
                          \/ \E tmo \in tmos : ProcessRemoteTmo(r, tmo)
    BY <1>2 DEF Next
  <2>2. CASE Step(r)
    BY <1>0, <2>2, KickOffTimed, ProcessBlockTimed, ProcessBufferedTimed, ResumeBlockTimed,
       ProcessVoteTimed, ReceiveSignalTimed, MakeProposalTimed, ResumeProposalTimed DEF Step
  <2>3. CASE ProcessLocalTmo(r)
    BY <1>0, <2>3, LocalTmoTimed
  <2>4. CASE \E tmo \in tmos : ProcessRemoteTmo(r, tmo)
    BY <1>0, <2>4, RemoteTmoTimed
  <2> QED BY <2>1, <2>2, <2>3, <2>4
<1> QED BY <1>1, <1>2

\* Every behaviour keeps the views, the sequence numbers and the TCs together.
THEOREM ViewsInductive == Spec => []ViewInv
<1>1. Init => ViewInv
  BY InitTimed
<1>2. ViewInv /\ [Next]_vars => ViewInv'
  BY NextTimed
<1> QED BY <1>1, <1>2, PTL DEF Spec

-----------------------------------------------------------------------------
(* What it implies *)

\* Views and sequence numbers move together, for any replicas, timers and
\* Byzantine leaders, with torn reads or without (pacemaker.go AdvanceView,
\* timeoutController.go AddTmo, mhotstuff.go MakeProposal).
THEOREM ViewsFollowed == Spec => []SeqFollowsView
<1>1. ViewInv => SeqFollowsView
  <2> SUFFICES ASSUME ViewInv PROVE SeqFollowsView
    OBVIOUS
  <2>1. ASSUME NEW r \in Node, st[r].curView # 0 PROVE st[r].curSeq = st[r].curView + 1
    BY <2>1, StartsTimed DEF Timed, TimedViews
  <2>2. ASSUME NEW v \in Proposed PROVE block[v].seq = v + 1
    BY DEF ViewInv, TimedBlocks, TimedBlock, IInv, GoodBlocks
  <2> QED BY <2>1, <2>2 DEF SeqFollowsView
<1> QED BY <1>1, ViewsInductive, PTL

\* When the timer reads its view and its sequence number together, every TC that
\* is held was asked for by a supermajority (timeoutController.go AddTmo counts
\* the messages of a view, and takes the sequence number from the last one).
THEOREM TimeoutsBacked == ~ TornRead => (Spec => []TCBacked)
<1> SUFFICES ASSUME ~ TornRead PROVE Spec => []TCBacked
  OBVIOUS
<1>1. ViewInv => TCBacked
  <2> SUFFICES ASSUME ViewInv PROVE TCBacked
    OBVIOUS
  <2>1. ASSUME NEW r \in Node, st[r].secHighTC # NoTC
        PROVE  superMajority(Asked(st[r].secHighTC.seq))
    BY <2>1, StartsTimed DEF Timed, TimedTCs, BackedTC
  <2> QED BY <2>1 DEF TCBacked, Asked
<1> QED BY <1>1, ViewsInductive, PTL
=============================================================================
