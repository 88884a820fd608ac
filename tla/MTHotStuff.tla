----------------------------- MODULE MTHotStuff -----------------------------
(***************************************************************************)
(* The variant of mthotstuff/mthotstuff.go, on the same replica, pacemaker,*)
(* quorum and block store as MHotStuff, whose operators it uses wherever   *)
(* the two files agree.  It differs in four ways: a block commits as soon  *)
(* as it has one certified child; the lock is a certified block, and the   *)
(* lock before it is kept too; which of the two a vote respects depends on *)
(* how the view was entered; and that choice is made from a snapshot taken *)
(* before the rest of the handler moves the locks.                         *)
(***************************************************************************)
EXTENDS MHotStuff

\* types.StateContext without LastVotedSeq, which stays 0.
Context(s) == [voteType |-> s.voteType, preferredSeq |-> s.preferredSeq,
               secPreferredSeq |-> s.secPreferredSeq]
NoContext == [voteType |-> NoTimeout, preferredSeq |-> 0, secPreferredSeq |-> 0]

\* The fields MTchs adds; ctx keeps the snapshot while the handler waits.
MTInitReplica ==
  LET added == [secPreferredSeq |-> 0, voteType |-> NoTimeout, ctx |-> NoContext]
  IN  [f \in DOMAIN InitReplica \cup DOMAIN added |->
         IF f \in DOMAIN added THEN added[f] ELSE InitReplica[f]]

\* The replicas run this protocol: NewReplica was called with alg "mthotstuff".
MT == \A r \in Node : DOMAIN st[r] = DOMAIN MTInitReplica

-----------------------------------------------------------------------------
(* Certificates and locks *)

\* updatePreferredSeq returns no error.
MTPreferredKnown(s, qc) == qc.seq < 2 \/ GetBlockByID(s, qc.block)

\* Mutant: the lock is set to the block's parent, as in MHotStuff.
MTupdatePreferredSeqParent(s, qc) ==
  IF qc.seq >= 4 /\ block[qc.block].qc.seq > s.preferredSeq
    THEN [s EXCEPT !.secPreferredSeq = s.preferredSeq, !.preferredSeq = block[qc.block].qc.seq]
    ELSE s

\* Mutant: the old lock is saved after it has been overwritten.
MTupdatePreferredSeqSwapped(s, qc) ==
  IF qc.seq >= 2 /\ qc.seq > s.preferredSeq
    THEN [s EXCEPT !.preferredSeq = qc.seq, !.secPreferredSeq = qc.seq]
    ELSE s

MTupdatePreferredSeq(s, qc) ==
  IF qc.seq >= 2 /\ qc.seq > s.preferredSeq
    THEN [s EXCEPT !.secPreferredSeq = s.preferredSeq, !.preferredSeq = qc.seq]
    ELSE s

\* A leader under the strategy "fork" proposes on without the certificate.
MTprocessCertificate(r, s, qc) ==
  IF qc.view < s.curView THEN s
  ELSE IF r \in Forking /\ Leader(qc.view + 1) = r
    THEN AdvanceView(r, s, qc.view, qc.seq, NoTimeout)
  ELSE IF ~ MTPreferredKnown(s, qc) THEN [s EXCEPT !.bufferedQCs = @ \cup {qc}]
  ELSE AdvanceView(r, updateHighQC(MTupdatePreferredSeq(s, qc), qc), qc.view, qc.seq, NoTimeout)

-----------------------------------------------------------------------------
(* Main loop: blocks *)

\* Mutant: the second proposal of a timeout clears one TC of the two.
MTfollowTCOnce(r, s, b, curView) ==
  LET into(pt) == [AdvanceView(r, s, b.tc.view, b.tc.seq, pt) EXCEPT !.voteType = pt]
  IN  IF curView > b.tc.view THEN s
      ELSE IF b.tc.view < maxTC(b).view THEN into(TimeoutF)
      ELSE updateHighTC(into(TimeoutS), NoTC)

\* A validator takes over the view of a timeout proposal, as the first or as the
\* second of the pair; curView was read before the proposal's QC was processed.
MTfollowTC(r, s, b, curView) ==
  LET into(pt) == [AdvanceView(r, s, b.tc.view, b.tc.seq, pt) EXCEPT !.voteType = pt]
  IN  CASE curView > b.tc.view -> s
        [] curView <= b.tc.view /\ b.tc.view = maxTC(b).view - 1 -> into(TimeoutF)
        [] curView <= b.tc.view /\ b.tc.view = maxTC(b).view ->
             updateHighTC(updateHighTC(into(TimeoutS), NoTC), NoTC)
        [] OTHER -> s

\* The leader of the next view moves to the second proposal of a timeout.
MTsecondProposal(r, s, b) ==
  IF Leader(s.curView + 1) = r
    THEN [secondProposal(r, s, b) EXCEPT !.voteType = TimeoutS]
    ELSE s

\* Mutant: the certified block itself is committed.
MTCommitTargetChild(qc) == qc.block

\* b0 of commitRule: the parent, by certificates, of the certified block.
MTCommitTarget(qc) == block[qc.block].qc.block

MTcommitRule(s, qc) == GetBlockByID(s, qc.block) /\ GetBlockByID(s, MTCommitTarget(qc))

MTprocessBufferedQC(r, s, b) ==
  IF \E qc \in s.bufferedQCs : qc.block = b.view
    THEN LET qc == CHOOSE q \in s.bufferedQCs : q.block = b.view
         IN  [MTprocessCertificate(r, s, qc) EXCEPT !.bufferedQCs = {q \in @ : q.block # b.view}]
    ELSE s

\* The first proposal of a timeout is held to the older of the two locks.
MTvotingRule(s, b, ctx) ==
  \/ b.view < 3
  \/ /\ GetBlockByID(s, b.qc.block)
     /\ b.seq > lastVotedSeq
     /\ block[b.qc.block].seq >= IF ctx.voteType = TimeoutF THEN ctx.secPreferredSeq
                                 ELSE ctx.preferredSeq

MTfinishBlock(r, s, b, ctx) ==
  LET t == MTprocessBufferedQC(r, s, b)
  IN  IF MTvotingRule(t, b, ctx) THEN castVote(t, b) ELSE t

MTcommitAndVote(r, s, b, ctx) ==
  LET target == MTCommitTarget(b.qc)
      outcome == CommitOutcome(s.forest, block, target)
  IN  IF ~ (b.qc.view > 3 /\ b.qc.seq + 2 = b.seq) THEN MTfinishBlock(r, s, b, ctx)
      ELSE IF ~ MTcommitRule(s, b.qc) \/ outcome = "error" THEN s
      ELSE IF outcome = "ok" THEN MTfinishBlock(r, CommitBlock(s, target), b, ctx)
      ELSE [s EXCEPT !.crashed = TRUE]

MTacceptBlock(r, s, b) ==
  LET t == addBlock(s, b)
      ctx == Context(t)
  IN  IF ~ mustSignal(r, t, b) THEN MTcommitAndVote(r, MTsecondProposal(r, t, b), b, ctx)
      ELSE IF ~ hasRoom(t) THEN [t EXCEPT !.blocked = b.view, !.ctx = ctx]
      ELSE MTcommitAndVote(r, sendSignal(t, Continue, 0), b, ctx)

MTprocessBlock(r, s, b) ==
  LET own == Leader(b.view) = r
      certified == IF own THEN s ELSE MTprocessCertificate(r, s, b.qc)
      typed == IF b.tc = NoTC THEN [certified EXCEPT !.voteType = NoTimeout] ELSE certified
      followed == IF own \/ b.tc = NoTC THEN typed ELSE MTfollowTC(r, typed, b, s.curView)
  IN  IF b.view > s.curView + 1 THEN [s EXCEPT !.bufferedBlocks = @ \cup {b.view}]
      ELSE IF b.view < followed.curView THEN followed
      ELSE MTacceptBlock(r, followed, b)

-----------------------------------------------------------------------------
(* Actions: the guards, and the orders of arrival, are those of MHotStuff *)

MTProcessBlock(r, v) ==
  /\ MT /\ CanProcessBlock(r, v)
  /\ st' = HandleVote([st EXCEPT ![r] =
                 MTprocessBlock(r, [st[r] EXCEPT !.received = @ \cup {v}], block[v])], r, v)
  /\ UNCHANGED <<block, tmos>>

MTProcessBufferedBlock(r) ==
  LET v == st[r].recursive
  IN  /\ MT /\ CanProcessBuffered(r)
      /\ st' = HandleVote([st EXCEPT ![r] =
                     [MTprocessBlock(r, [st[r] EXCEPT !.recursive = 0], block[v])
                        EXCEPT !.bufferedBlocks = @ \ {v}]], r, v)
      /\ UNCHANGED <<block, tmos>>

MTResumeBlock(r) ==
  LET v == st[r].blocked
      sent == sendSignal([st[r] EXCEPT !.blocked = 0, !.ctx = NoContext], Continue, 0)
  IN  /\ MT /\ CanResumeBlock(r)
      /\ st' = HandleVote([st EXCEPT ![r] = MTcommitAndVote(r, sent, block[v], st[r].ctx)], r, v)
      /\ UNCHANGED <<block, tmos>>

MTapplyQC(r, s, qc) ==
  IF ~ GetBlockByID(s, qc.block) /\ qc.view # 1
    THEN [s EXCEPT !.bufferedQCs = @ \cup {qc}]
    ELSE MTprocessCertificate(r, s, qc)

\* The rest of ProcessVote: the collector of a QC waits for a signal.
MTReceiveSignal(r) ==
  LET s == st[r]
      sig == Head(s.proposeChan)
      rest == [s EXCEPT !.proposeChan = Tail(@)]
  IN  /\ MT /\ CanReceiveSignal(r)
      /\ st' = [st EXCEPT ![r] =
           IF sig.ope = Continue THEN MTapplyQC(r, [rest EXCEPT !.waiting = NoQC], s.waiting)
           ELSE IF sig.view > s.waiting.view THEN [rest EXCEPT !.waiting = NoQC]
           ELSE rest]
      /\ UNCHANGED <<block, tmos>>

\* processTC, with the TCs already stored.
MTprocessTC(r, s, tc) ==
  IF tc.view < s.curView THEN s
  ELSE [AdvanceView(r, s, tc.view, tc.seq, TimeoutF) EXCEPT !.voteType = TimeoutF]

MTaddTmo(r, s, tmo) ==
  LET nodesOf(timeouts) == {x \in Node : <<tmo.view, x>> \in timeouts}
      more == [s EXCEPT !.timeouts = @ \cup {<<tmo.view, tmo.node>>}]
      ftc == [view |-> tmo.fseq, seq |-> tmo.fseq]
      stc == [view |-> tmo.sseq, seq |-> tmo.sseq]
  IN  IF superMajority(nodesOf(s.timeouts)) THEN s
      ELSE IF ~ superMajority(nodesOf(more.timeouts)) THEN more
      ELSE MTprocessTC(r, updateHighTC(updateHighTC(more, ftc), stc), ftc)

MTProcessRemoteTmo(r, tmo) ==
  LET s == MTprocessCertificate(r, st[r], tmo.highQC)
  IN  /\ MT /\ Running(r)
      /\ MainIdle(r)
      /\ tmo.view >= st[r].curView
      /\ st' = [st EXCEPT ![r] = IF tmo.view < s.curView THEN s ELSE MTaddTmo(r, s, tmo)]
      /\ UNCHANGED <<block, tmos>>

-----------------------------------------------------------------------------

MTInit ==
  /\ st = [r \in Node |-> MTInitReplica]
  /\ block = [v \in View |-> NoBlock]
  /\ tmos = {}

MTStep(r) ==
  \/ KickOff(r)
  \/ \E v \in View : MTProcessBlock(r, v)
  \/ MTProcessBufferedBlock(r)
  \/ MTResumeBlock(r)
  \/ \E vote \in st[r].dual : ProcessVote(r, vote)
  \/ MTReceiveSignal(r)
  \/ MakeProposal(r)
  \/ ResumeProposal(r)

MTNext ==
  \E r \in Node :
    \/ MTStep(r)
    \/ ProcessLocalTmo(r)
    \/ \E tmo \in tmos : MTProcessRemoteTmo(r, tmo)

MTSpec == MTInit /\ [][MTNext]_vars

-----------------------------------------------------------------------------
(* Properties *)

CertifiedSeq(seq) == \E v \in Proposed : Certified(v) /\ block[v].seq = seq

\* Both locks are certified blocks and the second is older: what the first proposal
\* of a timeout is held to is always weaker, although the main loop and the
\* collector both move the locks (mthotstuff.go updatePreferredSeq).
LocksOrdered ==
  \A r \in Node :
    /\ st[r].preferredSeq # 0 => /\ CertifiedSeq(st[r].preferredSeq)
                                 /\ st[r].secPreferredSeq < st[r].preferredSeq
    /\ st[r].secPreferredSeq # 0 => CertifiedSeq(st[r].secPreferredSeq)

\* The block last committed is certified and has a certified child
\* (mthotstuff.go commitRule).
MTCommitBacked ==
  \A r \in Node : st[r].forest.lowest # 0 => TwoChain(st[r].forest.lowest)
=============================================================================
