------------------------------ MODULE MHotStuff ------------------------------
(***************************************************************************)
(* The two-pipeline HotStuff of mhotstuff/mhotstuff.go, with the parts of  *)
(* replica, pacemaker and blockchain it runs on: a set of replicas that    *)
(* exchange blocks, votes and timeout messages over a network that may     *)
(* lose, delay and reorder them.                                           *)
(*                                                                         *)
(* Each goroutine of a replica is represented by its own actions, and one  *)
(* action is one whole handler: the main loop (ProcessBlock,               *)
(* ProcessBufferedBlock, ProcessRemoteTmo), the vote loop (ProcessVote,    *)
(* then ReceiveSignal while it waits on proposeChan), the new-view loop    *)
(* (MakeProposal) and the timer (ProcessLocalTmo).  The methods are        *)
(* operators that take the replica's record s and return the changed one.  *)
(***************************************************************************)
EXTENDS LevelledForest, Sequences

CONSTANTS
  Node,        \* the replicas
  Leader(_),   \* Leader(v) leads view v (election/rotation.go)
  Silent,      \* Byzantine replicas under the strategy "silence"
  Forking,     \* Byzantine replicas under the strategy "fork"
  MaxView,     \* bound: no proposal is made for a later view
  TimerViews,  \* bound: the views in which a replica's timer may fire
  TornRead,    \* whether the timer's two reads may have one advance in between
  Ordered      \* whether each link delivers in order: TCP does; UDP and the
               \* delays of socket.Slow do not

ASSUME NodeFinite == IsFiniteSet(Node)
ASSUME MaxViewNat == MaxView \in Nat
ASSUME OrderedBool == Ordered \in BOOLEAN /\ TornRead \in BOOLEAN
ASSUME TimersNat == TimerViews \subseteq Nat
\* rotation.go: the last node leads the views up to 3, so that one replica
\* starts both pipelines.
ASSUME FirstLeader == Leader(2) = Leader(1) /\ Leader(3) = Leader(1)

VARIABLES
  st,          \* st[r]: the state of replica r
  block,       \* block[v]: the block proposed for view v, or NoBlock
  tmos         \* the timeout messages sent

vars == <<st, block, tmos>>

-----------------------------------------------------------------------------
(* Data.  A block's hash is represented by its view: a leader makes one     *)
(* proposal per view (property NoEquivocation), and 0 is the zero hash.     *)

View == 1..MaxView
Id == 0..MaxView

NoTimeout == 0
TimeoutF == 1
TimeoutS == 2
Continue == 0
Drop == 1

QC == [view : Nat, seq : Nat, block : Id]
GenesisQC == [view |-> 0, seq |-> 0, block |-> 0]
NoQC == [view |-> -1, seq |-> -1, block |-> 0]

TC == [view : Nat, seq : Nat]
NoTC == [view |-> -1, seq |-> -1]

Block == [view : View, seq : Nat, qc : QC, tc : TC \cup {NoTC},
          tcs : {<<>>} \cup ((TC \cup {NoTC}) \X (TC \cup {NoTC})), prev : Id,
          nth : Nat]    \* not a field of the code: how many blocks are older
NoBlock == [view |-> 0]

NewView == [view : Nat \ {0}, seq : Nat, pt : {NoTimeout, TimeoutF, TimeoutS}]
\* Only the view of a Drop is ever read; that of a Continue is left 0.
Signal == [ope : {Continue, Drop}, view : Nat]
SignalCap == 4     \* capacity of proposeChan
TMO == [view : Nat, fseq : Nat, sseq : Nat, node : Node, highQC : QC]

\* Mutant: one vote too many is asked for.
superMajorityTooLarge(S) == Cardinality(S) > (Cardinality(Node) * 2) \div 3 + 1

\* superMajority of quorum.go and of timeoutController.go.
superMajority(S) == Cardinality(S) > (Cardinality(Node) * 2) \div 3

\* What a replica keeps: the pacemaker's curView, curSeq, its queue of
\* new-view events and its timeouts; the fields of MHotStuff; the quorum's
\* votes; dualEventChan; and, as history, the last view left, the blocks received, voted for,
\* committed and reported as forked.
InitReplica ==
  [ curView |-> 0, curSeq |-> 0, prevView |-> 0, newViews |-> <<>>, timeouts |-> {},
    highQC |-> GenesisQC, secHighQC |-> GenesisQC,
    highTC |-> NoTC, secHighTC |-> NoTC,
    highBlock |-> 0, preferredSeq |-> 0,
    forest |-> NewLevelledForest,
    bufferedBlocks |-> {}, bufferedQCs |-> {}, recursive |-> 0, blocked |-> 0,
    votes |-> {}, dual |-> {}, waiting |-> NoQC,
    proposeChan |-> <<>>, held |-> NoBlock,
    received |-> {}, voted |-> {}, committed |-> {}, forked |-> {},
    crashed |-> FALSE ]

-----------------------------------------------------------------------------
(* Pacemaker *)

\* Mutant: the view reached is off by one, so that it can be announced again.
AdvanceViewShort(r, s, view, seq, pt) ==
  IF view < s.curView THEN s
  ELSE [s EXCEPT !.curView = view, !.prevView = s.curView,
                 !.curSeq = seq + 2,
                 !.newViews = IF Leader(view + 1) = r
                                THEN Append(@, [view |-> view + 1, seq |-> seq + 2, pt |-> pt])
                                ELSE @]

\* Every advance is announced; only the leader of the new view acts on it
\* (Replica.processNewView), so only its announcements are kept.
AdvanceView(r, s, view, seq, pt) ==
  IF view < s.curView THEN s
  ELSE [s EXCEPT !.curView = view + 1, !.prevView = s.curView,
                 !.curSeq = seq + 2,
                 !.newViews = IF Leader(view + 1) = r
                                THEN Append(@, [view |-> view + 1, seq |-> seq + 2, pt |-> pt])
                                ELSE @]

-----------------------------------------------------------------------------
(* Certificates and locks *)

\* Mutant: the two assignments are swapped.
updateHighQCSwapped(s, qc) ==
  IF qc.view > s.highQC.view THEN [s EXCEPT !.highQC = qc, !.secHighQC = qc] ELSE s

updateHighQC(s, qc) ==
  IF qc.view > s.highQC.view
    THEN [s EXCEPT !.secHighQC = s.highQC, !.highQC = qc]
    ELSE s

updateHighTC(s, tc) == [s EXCEPT !.secHighTC = s.highTC, !.highTC = tc]

\* GetBlockByID succeeds.
GetBlockByID(s, id) == GetVertex(s.forest, id)

\* updatePreferredSeq returns no error.
PreferredKnown(s, qc) ==
  \/ qc.seq < 4
  \/ GetBlockByID(s, qc.block) /\ GetBlockByID(s, block[qc.block].qc.block)

\* Mutant: the lock is set to the certified block, not to its parent.
updatePreferredSeqChild(s, qc) ==
  IF qc.seq >= 4 /\ qc.seq > s.preferredSeq THEN [s EXCEPT !.preferredSeq = qc.seq] ELSE s

\* Mutant: the lock lags one block further behind.
updatePreferredSeqLate(s, qc) ==
  LET late == block[block[block[qc.block].qc.block].qc.block].seq
  IN  IF qc.seq >= 8 /\ late > s.preferredSeq THEN [s EXCEPT !.preferredSeq = late] ELSE s

updatePreferredSeq(s, qc) ==
  LET grandParentSeq == block[block[qc.block].qc.block].seq
  IN  IF qc.seq >= 4 /\ grandParentSeq > s.preferredSeq
        THEN [s EXCEPT !.preferredSeq = grandParentSeq]
        ELSE s

\* A leader under the strategy "fork" moves on without the certificate, as if
\* it had timed out.
processCertificate(r, s, qc) ==
  IF qc.view < s.curView THEN s
  ELSE IF r \in Forking /\ Leader(qc.view + 1) = r
    THEN AdvanceView(r, s, qc.view, qc.seq, TimeoutF)
  ELSE IF ~ PreferredKnown(s, qc) THEN [s EXCEPT !.bufferedQCs = @ \cup {qc}]
  ELSE AdvanceView(r, updateHighQC(updatePreferredSeq(s, qc), qc), qc.view, qc.seq, NoTimeout)

-----------------------------------------------------------------------------
(* Main loop: blocks *)

maxTC(b) == IF b.tcs[2].view > b.tcs[1].view THEN b.tcs[2] ELSE b.tcs[1]

\* A validator takes over the view of a timeout proposal; curView was read
\* before the proposal's QC was processed.
followTC(r, s, b, curView) ==
  LET t == IF curView <= b.tc.view THEN AdvanceView(r, s, b.tc.view, b.tc.seq, TimeoutF) ELSE s
  IN  IF b.tc.view = maxTC(b).view THEN updateHighTC(updateHighTC(t, NoTC), NoTC) ELSE t

\* Mutant: no signal after the second proposal of a timeout.
mustSignalPlain(r, s, b) == Leader(s.curView + 1) = r /\ b.tc = NoTC

\* The leader of the next view lets its vote collector go on ...
mustSignal(r, s, b) ==
  /\ Leader(s.curView + 1) = r
  /\ b.tc = NoTC \/ s.curView > maxTC(b).view

\* ... or moves to the second proposal of a timeout.
secondProposal(r, s, b) ==
  IF Leader(s.curView + 1) = r
    THEN updateHighTC(updateHighTC(AdvanceView(r, s, maxTC(b).view, maxTC(b).seq, TimeoutS),
                                   b.tcs[1]), b.tcs[2])
    ELSE s

hasRoom(s) == Len(s.proposeChan) < SignalCap

sendSignal(s, ope, view) ==
  [s EXCEPT !.proposeChan = Append(@, [ope |-> ope, view |-> view])]

addBlock(s, b) ==
  [s EXCEPT !.forest = AddVertex(@, block, b.view),
            !.highBlock = IF b.view > @ THEN b.view ELSE @]

\* Mutant: the second block of the chain is committed.
CommitTargetTwoChain(qc) == block[qc.block].qc.block

\* b0 of commitRule: the third block of the chain of certificates from qc.
CommitTarget(qc) == block[block[qc.block].qc.block].qc.block

commitRule(s, qc) ==
  /\ GetBlockByID(s, qc.block)
  /\ GetBlockByID(s, block[qc.block].qc.block)
  /\ GetBlockByID(s, CommitTarget(qc))

\* CommitBlock: deliver the committed and the forked blocks, forget the votes
\* for the committed ones, prune.
CommitBlock(s, id) ==
  LET done == CommittedBlocks(s.forest, block, id)
  IN  [s EXCEPT !.forest = PruneUpToLevel(@, block[id].seq),
                !.committed = @ \cup done,
                !.forked = @ \cup ForkedBlocks(s.forest, block, block[id].seq),
                !.votes = {v \in @ : v[2] \notin done}]

\* A QC that was waiting for this block is processed and dropped.
processBufferedQC(r, s, b) ==
  IF \E qc \in s.bufferedQCs : qc.block = b.view
    THEN LET qc == CHOOSE q \in s.bufferedQCs : q.block = b.view
         IN  [processCertificate(r, s, qc) EXCEPT !.bufferedQCs = {q \in @ : q.block # b.view}]
    ELSE s

\* lastVotedSeq keeps its initial 0: nothing calls updateLastVotedSeq.
lastVotedSeq == 0

votingRule(s, b) ==
  \/ b.view < 5
  \/ /\ GetBlockByID(s, b.qc.block)
     /\ b.seq > lastVotedSeq
     /\ block[b.qc.block].seq >= s.preferredSeq

\* Mutant: the buffered block is forgotten.
castVoteForget(s, b) == [s EXCEPT !.voted = @ \cup {b.view}]

\* The vote is sent (HandleVote); then a block buffered for the next view is
\* processed.
castVote(s, b) ==
  [s EXCEPT !.voted = @ \cup {b.view},
            !.recursive = IF b.view + 1 \in s.bufferedBlocks THEN b.view + 1 ELSE 0]

finishBlock(r, s, b) ==
  LET t == processBufferedQC(r, s, b)
  IN  IF votingRule(t, b) THEN castVote(t, b) ELSE t

commitAndVote(r, s, b) ==
  LET target == CommitTarget(b.qc)
      outcome == CommitOutcome(s.forest, block, target)
  IN  IF ~ (b.qc.seq > 5 /\ b.qc.seq + 2 = b.seq) THEN finishBlock(r, s, b)
      ELSE IF ~ commitRule(s, b.qc) \/ outcome = "error" THEN s
      ELSE IF outcome = "ok" THEN finishBlock(r, CommitBlock(s, target), b)
      ELSE [s EXCEPT !.crashed = TRUE]

\* The main loop stops in the send when proposeChan is full (see ResumeBlock).
acceptBlock(r, s, b) ==
  LET t == addBlock(s, b)
  IN  IF ~ mustSignal(r, t, b) THEN commitAndVote(r, secondProposal(r, t, b), b)
      ELSE IF ~ hasRoom(t) THEN [t EXCEPT !.blocked = b.view]
      ELSE commitAndVote(r, sendSignal(t, Continue, 0), b)

processBlock(r, s, b) ==
  LET own == Leader(b.view) = r
      certified == IF own THEN s ELSE processCertificate(r, s, b.qc)
      followed == IF own \/ b.tc = NoTC THEN certified
                  ELSE followTC(r, certified, b, s.curView)
  IN  IF b.view > s.curView + 1 THEN [s EXCEPT !.bufferedBlocks = @ \cup {b.view}]
      ELSE IF b.view < followed.curView THEN followed
      ELSE acceptBlock(r, followed, b)

-----------------------------------------------------------------------------
(* Actions *)

MainIdle(r) == st[r].recursive = 0 /\ st[r].blocked = 0

Running(r) == r \notin Silent /\ ~ st[r].crashed

\* Replica.handleTxn / Replica.activate at the first leader.
CanKickOff(r) == Running(r) /\ st[r].curView = 0 /\ Leader(1) = r

KickOff(r) ==
  /\ CanKickOff(r)
  /\ st' = [st EXCEPT ![r] = [AdvanceView(r, st[r], 0, 0, NoTimeout)
                                EXCEPT !.dual = @ \cup {<<r, 0, 0>>}]]
  /\ UNCHANGED <<block, tmos>>

\* The vote that r may have just cast for block v goes to the leader two views
\* ahead: straight into dualEventChan when that is r, and else through
\* Replica.HandleVote, which discards it when the view has passed.  Network and
\* channel are one bag from which ProcessVote takes votes at any time, or never,
\* in any order the links allow; a vote is kept with its number among the votes
\* of its sender.  The view is compared when the vote is sent: views only grow,
\* so a vote that would pass the comparison later passes it now.
HandleVote(all, r, v) ==
  LET a == Leader(v + 2)
  IN  IF v \in all[r].voted /\ (a = r \/ block[v].seq >= all[a].curView)
        THEN [all EXCEPT ![a].dual = @ \cup {<<r, v, Cardinality(all[r].voted)>>}]
        ELSE all

\* gob refuses a slice with a nil element: such a block stays with its leader.
Encodable(b) == \A i \in DOMAIN b.tcs : b.tcs[i] # NoTC

\* A leader puts its own block in its eventChan before it sends it to anybody:
\* the block is processed before every block that is proposed after it.
OwnFirst(r, v) ==
  \A u \in View : Leader(u) = r /\ block[u] # NoBlock /\ u \notin st[r].received
                   => block[v].nth <= block[u].nth

\* The blocks of one leader arrive in the order it sent them.
LinkOrder(r, v) ==
  Ordered => \A u \in View : /\ Leader(u) = Leader(v) /\ u \notin st[r].received
                             /\ block[u] # NoBlock /\ Encodable(block[u])
                             => block[v].nth <= block[u].nth

\* A block reaches the main loop, once.
CanProcessBlock(r, v) ==
  /\ Running(r)
  /\ MainIdle(r)
  /\ block[v] # NoBlock
  /\ Leader(v) = r \/ Encodable(block[v])
  /\ v \notin st[r].received
  /\ OwnFirst(r, v)
  /\ LinkOrder(r, v)

ProcessBlock(r, v) ==
  /\ CanProcessBlock(r, v)
  /\ st' = HandleVote([st EXCEPT ![r] =
                 processBlock(r, [st[r] EXCEPT !.received = @ \cup {v}], block[v])], r, v)
  /\ UNCHANGED <<block, tmos>>

\* The recursive call at the end of ProcessBlock.
CanProcessBuffered(r) == Running(r) /\ st[r].recursive # 0

ProcessBufferedBlock(r) ==
  LET v == st[r].recursive
  IN  /\ CanProcessBuffered(r)
      /\ st' = HandleVote([st EXCEPT ![r] =
                     [processBlock(r, [st[r] EXCEPT !.recursive = 0], block[v])
                        EXCEPT !.bufferedBlocks = @ \ {v}]], r, v)
      /\ UNCHANGED <<block, tmos>>

\* The main loop's send on proposeChan goes through at last.
CanResumeBlock(r) == Running(r) /\ st[r].blocked # 0 /\ hasRoom(st[r])

ResumeBlock(r) ==
  LET v == st[r].blocked
      sent == sendSignal([st[r] EXCEPT !.blocked = 0], Continue, 0)
  IN  /\ CanResumeBlock(r)
      /\ st' = HandleVote([st EXCEPT ![r] = commitAndVote(r, sent, block[v])], r, v)
      /\ UNCHANGED <<block, tmos>>

\* Mutant: the voters of all blocks are counted together.
addVoteMixed(s, q, v) ==
  LET voters(votes) == {x \in Node : \E w \in Id : <<x, w>> \in votes}
      more == s.votes \cup {<<q, v>>}
  IN  IF v = 0 THEN [s EXCEPT !.waiting = [view |-> 1, seq |-> 1, block |-> 0]]
      ELSE [s EXCEPT !.votes = more,
                     !.waiting = IF superMajority(voters(more))
                                   THEN [view |-> block[v].seq, seq |-> block[v].seq, block |-> v]
                                   ELSE @]

\* Quorum.Add.  The vote for the zero id is the one that starts the protocol.
addVote(s, q, v) ==
  LET votersOf(votes) == {x \in Node : <<x, v>> \in votes}
      more == s.votes \cup {<<q, v>>}
  IN  IF v = 0 THEN [s EXCEPT !.waiting = [view |-> 1, seq |-> 1, block |-> 0]]
      ELSE IF superMajority(votersOf(s.votes)) THEN s
      ELSE [s EXCEPT !.votes = more,
                     !.waiting = IF superMajority(votersOf(more))
                                   THEN [view |-> block[v].seq, seq |-> block[v].seq, block |-> v]
                                   ELSE @]

\* The vote loop takes a vote, the starting vote first (it enters the channel
\* before the first block is made); when it completes a QC the loop waits for a
\* signal from the main or the new-view loop.
CanProcessVote(r, vote) ==
  /\ Running(r)
  /\ st[r].waiting = NoQC
  /\ vote[2] = 0 \/ <<r, 0, 0>> \notin st[r].dual
  /\ Ordered => \A other \in st[r].dual : other[1] = vote[1] => vote[3] <= other[3]

ProcessVote(r, vote) ==
  /\ CanProcessVote(r, vote)
  /\ st' = [st EXCEPT ![r] = addVote([st[r] EXCEPT !.dual = @ \ {vote}], vote[1], vote[2])]
  /\ UNCHANGED <<block, tmos>>

\* The rest of MHotStuff.ProcessVote, once the signal is Continue.
applyQC(r, s, qc) ==
  IF ~ GetBlockByID(s, qc.block) /\ qc.view # 1
    THEN [s EXCEPT !.bufferedQCs = @ \cup {qc}]
    ELSE processCertificate(r, s, qc)

\* Mutant: a signal is taken before there is a QC.
CanReceiveSignalEarly(r) == Running(r) /\ st[r].proposeChan # <<>>

CanReceiveSignal(r) == Running(r) /\ st[r].waiting # NoQC /\ st[r].proposeChan # <<>>

\* Mutant: the vote loop does not wait for the signal.
ReceiveSignalHasty(r) ==
  /\ Running(r)
  /\ st[r].waiting # NoQC
  /\ st' = [st EXCEPT ![r] = applyQC(r, [st[r] EXCEPT !.waiting = NoQC], st[r].waiting)]
  /\ UNCHANGED <<block, tmos>>

ReceiveSignal(r) ==
  LET s == st[r]
      sig == Head(s.proposeChan)
      rest == [s EXCEPT !.proposeChan = Tail(@)]
  IN  /\ CanReceiveSignal(r)
      /\ st' = [st EXCEPT ![r] =
           IF sig.ope = Continue THEN applyQC(r, [rest EXCEPT !.waiting = NoQC], s.waiting)
           ELSE IF sig.view > s.waiting.view THEN [rest EXCEPT !.waiting = NoQC]
           ELSE rest]
      /\ UNCHANGED <<block, tmos>>

\* The proposal for a new view, by its leader.
proposal(s, nv) ==
  LET make(qc, tc, tcs, prev) ==
        [view |-> nv.view, seq |-> nv.seq, qc |-> qc, tc |-> tc, tcs |-> tcs, prev |-> prev,
         nth |-> 0]
  IN  CASE nv.pt = NoTimeout -> make(s.highQC, NoTC, <<>>, s.highBlock)
        [] nv.pt = TimeoutF  -> make(s.secHighQC, s.secHighTC, <<s.secHighTC, s.highTC>>, s.highQC.block)
        [] nv.pt = TimeoutS  -> make(s.highQC, s.highTC, <<s.secHighTC, s.highTC>>, s.highBlock)

\* Mutant: one TC is cleared instead of two.
afterProposalOnce(s, nv) == IF nv.pt = TimeoutS THEN updateHighTC(s, NoTC) ELSE s

\* The second proposal of a timeout uses up the TCs.
afterProposal(s, nv) ==
  IF nv.pt = TimeoutS THEN updateHighTC(updateHighTC(s, NoTC), NoTC) ELSE s

\* Replica.proposeBlock, after MakeProposal has returned.
publish(b) == [block EXCEPT ![b.view] = [b EXCEPT !.nth = Cardinality({v \in View : block[v] # NoBlock})]]

\* The first proposal of a timeout also tells the vote collector to drop its
\* QC, and waits with what it has read while proposeChan is full.
CanMakeProposal(r) ==
  /\ Running(r)
  /\ st[r].held = NoBlock
  /\ st[r].newViews # <<>>
  /\ Head(st[r].newViews).view <= MaxView

MakeProposal(r) ==
  LET nv == Head(st[r].newViews)
      s == afterProposal([st[r] EXCEPT !.newViews = Tail(@)], nv)
      b == proposal(st[r], nv)
  IN  /\ CanMakeProposal(r)
      /\ \/ /\ nv.pt # TimeoutF
            /\ st' = [st EXCEPT ![r] = s]
            /\ block' = publish(b)
         \/ /\ nv.pt = TimeoutF
            /\ hasRoom(s)
            /\ st' = [st EXCEPT ![r] = sendSignal(s, Drop, nv.view)]
            /\ block' = publish(b)
         \/ /\ nv.pt = TimeoutF
            /\ ~ hasRoom(s)
            /\ st' = [st EXCEPT ![r] = [s EXCEPT !.held = b]]
            /\ UNCHANGED block
      /\ UNCHANGED tmos

CanResumeProposal(r) == Running(r) /\ st[r].held # NoBlock /\ hasRoom(st[r])

ResumeProposal(r) ==
  LET b == st[r].held
  IN  /\ CanResumeProposal(r)
      /\ st' = [st EXCEPT ![r] = sendSignal([st[r] EXCEPT !.held = NoBlock], Drop, b.view)]
      /\ block' = publish(b)
      /\ UNCHANGED tmos

\* The view timer fires: the timeout covers the current view and the next.  The
\* view is read before the sequence number, so it may be the one just left.
ProcessLocalTmo(r) ==
  LET s == st[r]
      readable == {s.curView} \cup (IF TornRead THEN {s.prevView} ELSE {})
  IN  /\ Running(r)
      /\ \E view \in TimerViews \cap readable :
           tmos' = tmos \cup {[view |-> view + 1, fseq |-> s.curSeq, sseq |-> s.curSeq + 1,
                              node |-> r, highQC |-> s.highQC]}
      /\ UNCHANGED <<st, block>>

\* Mutant: the TCs take their view from the message's View.
addTmoByView(r, s, tmo) ==
  LET nodesOf(timeouts) == {x \in Node : <<tmo.view, x>> \in timeouts}
      more == [s EXCEPT !.timeouts = @ \cup {<<tmo.view, tmo.node>>}]
      ftc == [view |-> tmo.view, seq |-> tmo.fseq]
      stc == [view |-> tmo.view + 1, seq |-> tmo.sseq]
  IN  IF superMajority(nodesOf(s.timeouts)) THEN s
      ELSE IF ~ superMajority(nodesOf(more.timeouts)) THEN more
      ELSE AdvanceView(r, updateHighTC(updateHighTC(more, ftc), stc), ftc.view, ftc.seq, TimeoutF)

\* Mutant: one timeout message is enough.
addTmoOne(r, s, tmo) ==
  LET ftc == [view |-> tmo.fseq, seq |-> tmo.fseq]
      stc == [view |-> tmo.sseq, seq |-> tmo.sseq]
  IN  AdvanceView(r, updateHighTC(updateHighTC(s, ftc), stc), ftc.view, ftc.seq, TimeoutF)

\* TimeoutController.AddTmo and what MHotStuff.ProcessRemoteTmo does with the
\* two TCs it builds.
addTmo(r, s, tmo) ==
  LET nodesOf(timeouts) == {x \in Node : <<tmo.view, x>> \in timeouts}
      more == [s EXCEPT !.timeouts = @ \cup {<<tmo.view, tmo.node>>}]
      ftc == [view |-> tmo.fseq, seq |-> tmo.fseq]
      stc == [view |-> tmo.sseq, seq |-> tmo.sseq]
  IN  IF superMajority(nodesOf(s.timeouts)) THEN s
      ELSE IF ~ superMajority(nodesOf(more.timeouts)) THEN more
      ELSE AdvanceView(r, updateHighTC(updateHighTC(more, ftc), stc), ftc.view, ftc.seq, TimeoutF)

ProcessRemoteTmo(r, tmo) ==
  LET s == processCertificate(r, st[r], tmo.highQC)
  IN  /\ Running(r)
      /\ MainIdle(r)
      /\ tmo.view >= st[r].curView
      /\ st' = [st EXCEPT ![r] = IF tmo.view < s.curView THEN s ELSE addTmo(r, s, tmo)]
      /\ UNCHANGED <<block, tmos>>

-----------------------------------------------------------------------------

Init ==
  /\ st = [r \in Node |-> InitReplica]
  /\ block = [v \in View |-> NoBlock]
  /\ tmos = {}

\* A step of one of the three loops of replica r, on something other than a
\* timeout.
Step(r) ==
  \/ KickOff(r)
  \/ \E v \in View : ProcessBlock(r, v)
  \/ ProcessBufferedBlock(r)
  \/ ResumeBlock(r)
  \/ \E vote \in st[r].dual : ProcessVote(r, vote)
  \/ ReceiveSignal(r)
  \/ MakeProposal(r)
  \/ ResumeProposal(r)

Next ==
  \E r \in Node :
    \/ Step(r)
    \/ ProcessLocalTmo(r)
    \/ \E tmo \in tmos : ProcessRemoteTmo(r, tmo)

Spec == Init /\ [][Next]_vars

-----------------------------------------------------------------------------
(* Type invariant *)

ReplicaState ==
  [ curView : Nat, curSeq : Nat, prevView : Nat, newViews : Seq(NewView), timeouts : SUBSET (Nat \X Node),
    highQC : QC, secHighQC : QC, highTC : TC \cup {NoTC}, secHighTC : TC \cup {NoTC},
    highBlock : Id, preferredSeq : Nat,
    forest : [vertices : SUBSET Container(Id), lowest : Nat],
    bufferedBlocks : SUBSET View, bufferedQCs : SUBSET QC, recursive : Id, blocked : Id,
    votes : SUBSET (Node \X Id), dual : SUBSET (Node \X Id \X Nat), waiting : QC \cup {NoQC},
    proposeChan : Seq(Signal), held : Block \cup {NoBlock},
    received : SUBSET View, voted : SUBSET View, committed : SUBSET View, forked : SUBSET View,
    crashed : BOOLEAN ]

TypeOK ==
  /\ st \in [Node -> ReplicaState]
  /\ block \in [View -> Block \cup {NoBlock}]
  /\ tmos \subseteq TMO

-----------------------------------------------------------------------------
(* Safety *)

Proposed == {v \in View : block[v] # NoBlock}

\* A supermajority of the replicas has voted for block v.
Certified(v) == superMajority({q \in Node : v \in st[q].voted})

\* What a QC stands for: a certified block, under that block's sequence number;
\* or one of the two certificates without votes that start the pipelines.
ValidQC(qc) ==
  /\ qc.view = qc.seq
  /\ IF qc.block = 0 THEN qc.view <= 1
     ELSE block[qc.block] # NoBlock /\ qc.seq = block[qc.block].seq /\ Certified(qc.block)

QCsOf(s) ==
  {s.highQC, s.secHighQC} \cup s.bufferedQCs
    \cup (IF s.waiting = NoQC THEN {} ELSE {s.waiting})
    \cup (IF s.held = NoBlock THEN {} ELSE {s.held.qc})

\* Every certificate a replica holds, proposes with or reports in a timeout was
\* voted for by a supermajority, although the votes are counted by one replica,
\* forgotten when their block is committed, and a QC may wait in bufferedQCs
\* or for a signal while the views move on (quorum.go Add, mhotstuff.go
\* ProcessVote and processCertificate).
QCBacked ==
  /\ \A r \in Node : \A qc \in QCsOf(st[r]) : ValidQC(qc)
  /\ \A v \in Proposed : ValidQC(block[v].qc)
  /\ \A tmo \in tmos : ValidQC(tmo.highQC)

\* A leader never makes two proposals for one view, although views are left by
\* certificates, by timeouts and by other leaders' proposals, the announcement
\* of a view waits in a channel, and the proposal itself may wait for room in
\* proposeChan (pacemaker.go AdvanceView, mhotstuff.go MakeProposal).
NoEquivocation == [][\A v \in View : block[v] # NoBlock => block'[v] = block[v]]_vars

\* The certificates a proposal can be built on are ordered, and older than the
\* view: MakeProposal reads highQC and secHighQC long after they were set.
QCOrder ==
  \A r \in Node :
    LET s == st[r]
    IN  \/ s.highQC = GenesisQC /\ s.secHighQC = GenesisQC
        \/ s.secHighQC.view < s.highQC.view /\ s.highQC.view < s.curView

\* The two TCs a replica holds are always the two of one timeout, also when
\* several timeouts and several timeout proposals overlap (updateHighTC shifts
\* one into the other).
TCPair ==
  \A r \in Node :
    \/ st[r].highTC = NoTC /\ st[r].secHighTC = NoTC
    \/ /\ st[r].highTC # NoTC /\ st[r].secHighTC # NoTC
       /\ st[r].highTC.view = st[r].secHighTC.view + 1

\* Some block of sequence number seq is the older of two certified blocks, or
\* the oldest of three, each certified in the next one.
TwoChain(seq) ==
  \E v \in Proposed :
    LET parent == block[v].qc.block
    IN  /\ Certified(v)
        /\ parent \in Proposed /\ Certified(parent)
        /\ block[parent].seq = seq

ThreeChain(seq) ==
  \E v2 \in Proposed :
    LET v1 == block[v2].qc.block
        v0 == block[v1].qc.block
    IN  /\ v1 \in Proposed /\ v0 \in Proposed
        /\ Certified(v2) /\ Certified(v1) /\ Certified(v0)
        /\ block[v0].seq = seq

\* A replica's lock is the sequence number of a certified block with a certified
\* child: it rests on two quorums, whatever order QCs and blocks arrive in
\* (mhotstuff.go updatePreferredSeq).
LockBacked ==
  \A r \in Node : st[r].preferredSeq # 0 => TwoChain(st[r].preferredSeq)

\* The block a replica last committed is the oldest of three certified blocks
\* in a chain of certificates (mhotstuff.go commitRule).
CommitBacked ==
  \A r \in Node : st[r].forest.lowest # 0 => ThreeChain(st[r].forest.lowest)

\* Every TC a replica holds is one that a supermajority asked for: the timeout
\* messages are counted by view, and the TCs take their sequence numbers from
\* whichever message completes the count (timeoutController.go AddTmo).
TCBacked ==
  \A r \in Node : st[r].secHighTC # NoTC =>
    superMajority({q \in Node : \E tmo \in tmos : tmo.node = q /\ tmo.fseq = st[r].secHighTC.seq})

\* "view=vote.seq=vote.view+1" (replica.go:123).  Views and sequence numbers move
\* together, although a QC's and a TC's view is a block's sequence number
\* and the two are advanced by different amounts from certificates, from timeouts
\* and from other leaders' proposals.
SeqFollowsView ==
  /\ \A r \in Node : st[r].curView # 0 => st[r].curSeq = st[r].curView + 1
  /\ \A v \in Proposed : block[v].seq = v + 1

\* When a block is committed, a supermajority is already locked on it or on a
\* later one, so that no quorum is left for a conflicting branch: the voters took
\* the lock from an earlier proposal than the one that commits, at different times
\* and possibly in a view entered by a timeout (mhotstuff.go updatePreferredSeq,
\* votingRule and commitRule).  It is also what a leader under the strategy "fork"
\* meets, whose blocks may be certified although it builds them on old
\* certificates (processCertificate).
CommitLocked ==
  \A r \in Node : st[r].forest.lowest # 0 =>
    superMajority({q \in Node : st[q].preferredSeq >= st[r].forest.lowest})

-----------------------------------------------------------------------------
(* Chains *)

\* A block and the blocks below it along PrevID.
Ancestors ==
  LET below[v \in Id] == IF v \in Proposed THEN {v} \cup below[block[v].prev] ELSE {}
  IN  [v \in {0} \cup Proposed |-> below[v]]

\* Replicas commit blocks of one chain.
Agreement ==
  LET anc == Ancestors
  IN  \A r, q \in Node : \A x \in st[r].committed, y \in st[q].committed :
        x \in anc[y] \/ y \in anc[x]

\* What a replica has committed has no holes.
CommittedPrefix ==
  LET anc == Ancestors
  IN  \A r \in Node : \A v \in st[r].committed : anc[v] \subseteq st[r].committed

\* The two pipelines take turns: a block extends the block of the view before
\* and certifies the one before that.  The collector of the votes for the one
\* and the main loop of the same leader, which receives the other, meet only
\* in proposeChan (mhotstuff.go ProcessBlock, ProcessVote).
PipelinesAlternate ==
  \A v \in Proposed : /\ block[v].prev = v - 1
                      /\ block[v].qc.block = (IF v <= 2 THEN 0 ELSE v - 2)

\* The walk of PruneUpToLevel neither dereferences a missing vertex nor goes
\* round for ever.
PruneTerminates == \A r \in Node : ~ st[r].crashed

\* While the vote loop waits for a signal that has not been sent, the votes on
\* their way to it fit into dualEventChan: neither the main loop, which votes
\* through that channel and which the signal comes from, nor the handler of network
\* messages, which the next block comes through, waits for the vote loop while the
\* vote loop waits for them (replica.go:85).
DualChanFits ==
  \A r \in Node : st[r].waiting # NoQC /\ st[r].proposeChan = <<>>
                   => Cardinality(st[r].dual) <= 2 * Cardinality(Node)

-----------------------------------------------------------------------------
(* The Ledger.  A call of CommitBlock is one delivery; the blocks it returns *)
(* are delivered in the order of the chain, which is that of their views.    *)

\* The members of a set of views, in increasing order.
InOrder(S) ==
  [i \in 1..Cardinality(S) |-> CHOOSE v \in S : Cardinality({u \in S : u < v}) = i - 1]

DeliveredLog == [r \in Node |-> InOrder(st[r].committed)]

Log == InOrder(UNION {st[r].committed : r \in Node})

Promise == INSTANCE Ledger WITH log <- Log, delivered <- DeliveredLog, Block <- View

\* The blocks replicas commit form one log that only grows at its end, of which
\* each has a prefix: no later commit, by whichever replica, puts a block below
\* or in place of one that was committed before (mhotstuff.go and mthotstuff.go
\* commitRule, blockchain.go CommitBlock).
LedgerSpec == Promise!Spec

-----------------------------------------------------------------------------
(* Liveness *)

\* Some loop of replica r has work.  Every action of Step changes the state, so
\* this is when Step is enabled.
Busy(r) ==
  \/ CanKickOff(r) \/ CanProcessBuffered(r) \/ CanResumeBlock(r)
  \/ CanReceiveSignal(r) \/ CanMakeProposal(r) \/ CanResumeProposal(r)
  \/ \E v \in View : CanProcessBlock(r, v)
  \/ \E vote \in st[r].dual : CanProcessVote(r, vote)

\* Every replica that is not silent commits every block that has six successors:
\* the vote collectors and the main loops never wait for each other for ever,
\* and a minority that does not vote is not waited for.
EventuallyCommitted ==
  \A r \in Node \ Silent : <>(1..(MaxView - 6) \subseteq st[r].committed)
=============================================================================
