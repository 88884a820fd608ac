--------------------------- MODULE MTHotStuffProofs ---------------------------
(***************************************************************************)
(* Safety of MTHotStuff, from that of MHotStuff.  A replica of mthotstuff  *)
(* is projected to one of mhotstuff: the fields that MTchs adds, the lock  *)
(* and LowestLevel are left out, which the two protocols set differently.  *)
(* What mthotstuff does to the rest is what mhotstuff does, so the lemmas  *)
(* about records of MHotStuff apply to the projection of a record, and     *)
(* those about its steps to the projected state.                           *)
(***************************************************************************)
EXTENDS MTHotStuff, MHotStuffProofs

CoreFields == DOMAIN InitReplica
AllFields == CoreFields \cup {"secPreferredSeq", "voteType", "ctx"}

\* A record with the fields of MTchs.
IsRecord(s) == s = [f \in AllFields |-> s[f]]

\* The record of MHotStuff in it, without lock and LowestLevel.
Core(s) ==
  [f \in CoreFields |-> IF f = "preferredSeq" THEN 0
                        ELSE IF f = "forest" THEN [s.forest EXCEPT !.lowest = 0]
                        ELSE s[f]]

\* The locks are certified and ordered, the last commit has a certified child.
GoodLocks(preferredSeq, secPreferredSeq, lowest) ==
  /\ preferredSeq \in Nat /\ secPreferredSeq \in Nat
  /\ preferredSeq # 0 => CertifiedSeq(preferredSeq) /\ secPreferredSeq < preferredSeq
  /\ secPreferredSeq # 0 => CertifiedSeq(secPreferredSeq)
  /\ lowest # 0 => TwoChain(lowest)

MTGood(r, s) ==
  /\ IsRecord(s)
  /\ GoodReplica(r, Core(s))
  /\ GoodForest(s.forest)
  /\ GoodLocks(s.preferredSeq, s.secPreferredSeq, s.forest.lowest)

-----------------------------------------------------------------------------
(* The projection *)

\* The fields of a replica of MHotStuff.
LEMMA FieldNames ==
  CoreFields =
    {"curView", "curSeq", "prevView", "newViews", "timeouts", "highQC", "secHighQC",
     "highTC", "secHighTC", "highBlock", "preferredSeq", "forest", "bufferedBlocks",
     "bufferedQCs", "recursive", "blocked", "votes", "dual", "waiting", "proposeChan",
     "held", "received", "voted", "committed", "forked", "crashed"}
BY DEF CoreFields, InitReplica

\* The projection keeps every field but two.
LEMMA CoreField ==
  ASSUME NEW s, NEW f \in CoreFields, f # "preferredSeq", f # "forest"
  PROVE  Core(s)[f] = s[f]
BY DEF Core

\* The same, field by field.
LEMMA CoreOf ==
  ASSUME NEW s
  PROVE  /\ Core(s).curView = s.curView /\ Core(s).curSeq = s.curSeq
         /\ Core(s).newViews = s.newViews /\ Core(s).held = s.held
         /\ Core(s).highQC = s.highQC /\ Core(s).secHighQC = s.secHighQC
         /\ Core(s).highTC = s.highTC /\ Core(s).secHighTC = s.secHighTC
         /\ Core(s).highBlock = s.highBlock /\ Core(s).voted = s.voted
         /\ Core(s).bufferedBlocks = s.bufferedBlocks /\ Core(s).bufferedQCs = s.bufferedQCs
         /\ Core(s).recursive = s.recursive /\ Core(s).blocked = s.blocked
         /\ Core(s).votes = s.votes /\ Core(s).dual = s.dual /\ Core(s).waiting = s.waiting
         /\ Core(s).timeouts = s.timeouts /\ Core(s).proposeChan = s.proposeChan
         /\ Core(s).committed = s.committed /\ Core(s).forked = s.forked
         /\ Core(s).received = s.received /\ Core(s).prevView = s.prevView
         /\ Core(s).crashed = s.crashed
<1>1. \A f \in CoreFields : f # "preferredSeq" /\ f # "forest" => Core(s)[f] = s[f]
  BY CoreField
<1>2. /\ Core(s).curView = s.curView /\ Core(s).curSeq = s.curSeq
      /\ Core(s).newViews = s.newViews /\ Core(s).held = s.held
      /\ Core(s).highQC = s.highQC /\ Core(s).secHighQC = s.secHighQC
  BY <1>1, FieldNames
<1>3. /\ Core(s).highTC = s.highTC /\ Core(s).secHighTC = s.secHighTC
      /\ Core(s).highBlock = s.highBlock /\ Core(s).voted = s.voted
      /\ Core(s).bufferedBlocks = s.bufferedBlocks /\ Core(s).bufferedQCs = s.bufferedQCs
  BY <1>1, FieldNames
<1>4. /\ Core(s).recursive = s.recursive /\ Core(s).blocked = s.blocked
      /\ Core(s).votes = s.votes /\ Core(s).dual = s.dual /\ Core(s).waiting = s.waiting
  BY <1>1, FieldNames
<1>5. /\ Core(s).timeouts = s.timeouts /\ Core(s).proposeChan = s.proposeChan
      /\ Core(s).committed = s.committed /\ Core(s).forked = s.forked
  BY <1>1, FieldNames
<1>6. /\ Core(s).received = s.received /\ Core(s).prevView = s.prevView
      /\ Core(s).crashed = s.crashed
  BY <1>1, FieldNames
<1> QED BY <1>2, <1>3, <1>4, <1>5, <1>6

\* t differs from s in what the projection c shows, and in nothing the locks
\* depend on.
Moves(s, t, c) ==
  /\ IsRecord(t)
  /\ Core(t) = c
  /\ t.forest = s.forest
  /\ t.preferredSeq = s.preferredSeq
  /\ t.secPreferredSeq = s.secPreferredSeq

\* A record is good when its projection is, and the locks did not change.
LEMMA MovesGood ==
  ASSUME NEW r, NEW s, MTGood(r, s), NEW t, NEW c, Moves(s, t, c), GoodReplica(r, c)
  PROVE  MTGood(r, t)
BY DEF Moves, MTGood

\* What an assignment to some fields of a record does.
LEMMA ExceptField ==
  ASSUME NEW s, IsRecord(s), NEW a \in AllFields, NEW X
  PROVE  LET t == [s EXCEPT ![a] = X]
         IN  IsRecord(t) /\ t[a] = X /\ \A f \in AllFields : f # a => t[f] = s[f]
BY DEF IsRecord

\* Records whose fields agree have the same projection.
LEMMA CoreExt ==
  ASSUME NEW s, NEW c, c = [f \in CoreFields |-> c[f]],
         c.preferredSeq = 0, c.forest = [s.forest EXCEPT !.lowest = 0],
         \A f \in CoreFields : f # "preferredSeq" /\ f # "forest" => c[f] = s[f]
  PROVE  Core(s) = c
<1>1. \A f \in CoreFields : Core(s)[f] = c[f]
  BY DEF Core
<1> QED BY <1>1, Zenon DEF Core

\* An assignment to a field that the projection shows.
LEMMA CoreExcept ==
  ASSUME NEW s, IsRecord(s), NEW a \in CoreFields, a # "preferredSeq", a # "forest", NEW X
  PROVE  Moves(s, [s EXCEPT ![a] = X], [Core(s) EXCEPT ![a] = X])
<1> DEFINE t == [s EXCEPT ![a] = X]
           c == [Core(s) EXCEPT ![a] = X]
<1>1. /\ "forest" \in CoreFields /\ "preferredSeq" \in CoreFields
      /\ CoreFields \subseteq AllFields /\ "secPreferredSeq" \in AllFields
      /\ "secPreferredSeq" \notin CoreFields
  BY FieldNames DEF AllFields
<1>2. IsRecord(t) /\ t[a] = X /\ \A f \in AllFields : f # a => t[f] = s[f]
  BY <1>1, ExceptField
<1>3. c = [f \in CoreFields |-> c[f]] /\ c[a] = X /\ \A f \in CoreFields : f # a => c[f] = Core(s)[f]
  BY DEF Core
<1>4. Core(s).preferredSeq = 0 /\ Core(s).forest = [s.forest EXCEPT !.lowest = 0]
  BY <1>1 DEF Core
<1>5. \A f \in CoreFields : f # "preferredSeq" /\ f # "forest" => Core(s)[f] = s[f]
  BY CoreField
<1> HIDE DEF t, c
<1>6. t.forest = s.forest /\ t.preferredSeq = s.preferredSeq /\ t.secPreferredSeq = s.secPreferredSeq
  BY <1>1, <1>2
<1>7. c.preferredSeq = 0 /\ c.forest = [t.forest EXCEPT !.lowest = 0]
  BY <1>1, <1>3, <1>4, <1>6
<1>8. \A f \in CoreFields : f # "preferredSeq" /\ f # "forest" => c[f] = t[f]
  BY <1>1, <1>2, <1>3, <1>5
<1>9. Core(t) = c
  BY <1>3, <1>7, <1>8, CoreExt
<1> QED BY <1>2, <1>6, <1>9 DEF Moves, t, c

\* Two such changes make one.
LEMMA MovesTrans ==
  ASSUME NEW s, NEW t, NEW c, NEW u, NEW d, Moves(s, t, c), Moves(t, u, d)
  PROVE  Moves(s, u, d)
BY DEF Moves

\* Assignments to two fields that the projection shows.
LEMMA CoreExceptTwo ==
  ASSUME NEW s, IsRecord(s), NEW a \in CoreFields, a # "preferredSeq", a # "forest", NEW X,
         NEW b \in CoreFields, b # "preferredSeq", b # "forest", NEW Y
  PROVE  Moves(s, [s EXCEPT ![a] = X, ![b] = Y], [Core(s) EXCEPT ![a] = X, ![b] = Y])
<1> DEFINE t == [s EXCEPT ![a] = X]
           c == [Core(s) EXCEPT ![a] = X]
<1>1. Moves(s, t, c)
  BY CoreExcept
<1>2. IsRecord(t) /\ Core(t) = c
  BY <1>1 DEF Moves
<1>3. [s EXCEPT ![a] = X, ![b] = Y] = [t EXCEPT ![b] = Y]
  OBVIOUS
<1>4. [Core(s) EXCEPT ![a] = X, ![b] = Y] = [c EXCEPT ![b] = Y]
  OBVIOUS
<1> HIDE DEF t, c
<1>5. Moves(t, [t EXCEPT ![b] = Y], [c EXCEPT ![b] = Y])
  BY <1>2, CoreExcept
<1> QED BY <1>1, <1>3, <1>4, <1>5, MovesTrans

\* An assignment to a field that the projection does not show.
LEMMA SideExcept ==
  ASSUME NEW s, IsRecord(s), NEW a \in {"voteType", "ctx"}, NEW X
  PROVE  Moves(s, [s EXCEPT ![a] = X], Core(s))
<1> DEFINE t == [s EXCEPT ![a] = X]
           c == Core(s)
<1>1. /\ "forest" \in CoreFields /\ "preferredSeq" \in CoreFields
      /\ CoreFields \subseteq AllFields /\ "secPreferredSeq" \in AllFields
      /\ a \in AllFields /\ a \notin CoreFields /\ a # "secPreferredSeq"
  BY FieldNames DEF AllFields
<1>2. IsRecord(t) /\ \A f \in AllFields : f # a => t[f] = s[f]
  BY <1>1, ExceptField
<1>3. c = [f \in CoreFields |-> c[f]]
  BY DEF Core
<1>4. c.preferredSeq = 0 /\ c.forest = [s.forest EXCEPT !.lowest = 0]
  BY <1>1 DEF Core
<1>5. \A f \in CoreFields : f # "preferredSeq" /\ f # "forest" => c[f] = s[f]
  BY CoreField
<1> HIDE DEF t, c
<1>6. t.forest = s.forest /\ t.preferredSeq = s.preferredSeq /\ t.secPreferredSeq = s.secPreferredSeq
  BY <1>1, <1>2
<1>7. \A f \in CoreFields : f # "preferredSeq" /\ f # "forest" => c[f] = t[f]
  BY <1>1, <1>2, <1>5
<1>8. Core(t) = c
  BY <1>3, <1>4, <1>6, <1>7, CoreExt
<1> QED BY <1>2, <1>6, <1>8 DEF Moves, t, c

-----------------------------------------------------------------------------
(* The operators that the two protocols share *)

\* AdvanceView.
LEMMA AdvanceMoves ==
  ASSUME NEW r, NEW s, IsRecord(s), NEW view, NEW seq, NEW pt
  PROVE  Moves(s, AdvanceView(r, s, view, seq, pt), AdvanceView(r, Core(s), view, seq, pt))
<1> DEFINE x == view + 1
           w == s.curView
           y == seq + 2
           q == IF Leader(view + 1) = r
                  THEN Append(s.newViews, [view |-> view + 1, seq |-> seq + 2, pt |-> pt])
                  ELSE s.newViews
           t1 == [s EXCEPT !.curView = x, !.prevView = w]
           c1 == [Core(s) EXCEPT !.curView = x, !.prevView = w]
           t2 == [t1 EXCEPT !.curSeq = y, !.newViews = q]
           c2 == [c1 EXCEPT !.curSeq = y, !.newViews = q]
<1>0. Core(s).curView = s.curView /\ Core(s).newViews = s.newViews
  BY CoreOf
<1>1. CASE view < s.curView
  BY <1>0, <1>1 DEF AdvanceView, Moves
<1>2. CASE ~ (view < s.curView)
  <2>1. AdvanceView(r, s, view, seq, pt) = t2
    BY <1>2 DEF AdvanceView
  <2>2. AdvanceView(r, Core(s), view, seq, pt) = c2
    BY <1>0, <1>2 DEF AdvanceView
  <2>3. /\ "curView" \in CoreFields /\ "prevView" \in CoreFields
        /\ "curSeq" \in CoreFields /\ "newViews" \in CoreFields
    BY FieldNames
  <2> HIDE DEF x, w, y, q
  <2>4. Moves(s, t1, c1)
    BY <2>3, CoreExceptTwo
  <2>5. IsRecord(t1) /\ Core(t1) = c1
    BY <2>4 DEF Moves
  <2> HIDE DEF t1, c1
  <2>6. Moves(t1, t2, c2)
    BY <2>3, <2>5, CoreExceptTwo
  <2> QED BY <2>1, <2>2, <2>4, <2>6, MovesTrans
<1> QED BY <1>1, <1>2

\* updateHighQC.
LEMMA HighQCMoves ==
  ASSUME NEW s, IsRecord(s), NEW qc
  PROVE  Moves(s, updateHighQC(s, qc), updateHighQC(Core(s), qc))
<1>1. Core(s).highQC = s.highQC
  BY CoreOf
<1>2. "highQC" \in CoreFields /\ "secHighQC" \in CoreFields
  BY FieldNames
<1>3. Moves(s, [s EXCEPT !.secHighQC = s.highQC, !.highQC = qc],
               [Core(s) EXCEPT !.secHighQC = s.highQC, !.highQC = qc])
  BY <1>2, CoreExceptTwo
<1>4. Moves(s, s, Core(s))
  BY DEF Moves
<1> QED BY <1>1, <1>3, <1>4 DEF updateHighQC

\* updateHighTC.
LEMMA HighTCMoves ==
  ASSUME NEW s, IsRecord(s), NEW tc
  PROVE  Moves(s, updateHighTC(s, tc), updateHighTC(Core(s), tc))
<1>1. Core(s).highTC = s.highTC
  BY CoreOf
<1>2. "highTC" \in CoreFields /\ "secHighTC" \in CoreFields
  BY FieldNames
<1>3. Moves(s, [s EXCEPT !.secHighTC = s.highTC, !.highTC = tc],
               [Core(s) EXCEPT !.secHighTC = s.highTC, !.highTC = tc])
  BY <1>2, CoreExceptTwo
<1> QED BY <1>1, <1>3 DEF updateHighTC

\* updateHighTC twice.
LEMMA TwoTCsMove ==
  ASSUME NEW s, IsRecord(s), NEW a, NEW b
  PROVE  Moves(s, updateHighTC(updateHighTC(s, a), b), updateHighTC(updateHighTC(Core(s), a), b))
<1> DEFINE t == updateHighTC(s, a)
           c == updateHighTC(Core(s), a)
<1>1. Moves(s, t, c)
  BY HighTCMoves
<1>2. IsRecord(t) /\ Core(t) = c
  BY <1>1 DEF Moves
<1> HIDE DEF t, c
<1>3. Moves(t, updateHighTC(t, b), updateHighTC(c, b))
  BY <1>2, HighTCMoves
<1>4. Moves(s, updateHighTC(t, b), updateHighTC(c, b))
  BY <1>1, <1>3, MovesTrans
<1> QED BY <1>4 DEF t, c

\* A send on proposeChan.
LEMMA SignalMoves ==
  ASSUME NEW s, IsRecord(s), NEW ope, NEW view
  PROVE  Moves(s, sendSignal(s, ope, view), sendSignal(Core(s), ope, view))
<1> DEFINE X == Append(s.proposeChan, [ope |-> ope, view |-> view])
<1>1. Core(s).proposeChan = s.proposeChan
  BY CoreOf
<1>2. "proposeChan" \in CoreFields
  BY FieldNames
<1>3. sendSignal(s, ope, view) = [s EXCEPT !.proposeChan = X]
  BY DEF sendSignal
<1>4. sendSignal(Core(s), ope, view) = [Core(s) EXCEPT !.proposeChan = X]
  BY <1>1 DEF sendSignal
<1> HIDE DEF X
<1>5. Moves(s, [s EXCEPT !.proposeChan = X], [Core(s) EXCEPT !.proposeChan = X])
  BY <1>2, CoreExcept
<1> QED BY <1>3, <1>4, <1>5

\* The vote.
LEMMA castVoteMoves ==
  ASSUME NEW s, IsRecord(s), NEW b
  PROVE  Moves(s, castVote(s, b), castVote(Core(s), b))
<1> DEFINE V == s.voted \cup {b.view}
           x == IF b.view + 1 \in s.bufferedBlocks THEN b.view + 1 ELSE 0
<1>1. Core(s).voted = s.voted /\ Core(s).bufferedBlocks = s.bufferedBlocks
  BY CoreOf
<1>2. "voted" \in CoreFields /\ "recursive" \in CoreFields
  BY FieldNames
<1>3. castVote(s, b) = [s EXCEPT !.voted = V, !.recursive = x]
  BY DEF castVote
<1>4. castVote(Core(s), b) = [Core(s) EXCEPT !.voted = V, !.recursive = x]
  BY <1>1 DEF castVote
<1> HIDE DEF V, x
<1>5. Moves(s, [s EXCEPT !.voted = V, !.recursive = x],
               [Core(s) EXCEPT !.voted = V, !.recursive = x])
  BY <1>2, CoreExceptTwo
<1> QED BY <1>3, <1>4, <1>5

\* Quorum.Add.
LEMMA addVoteMoves ==
  ASSUME NEW s, IsRecord(s), NEW q, NEW v
  PROVE  Moves(s, addVote(s, q, v), addVote(Core(s), q, v))
<1> DEFINE votersOf(votes) == {x \in Node : <<x, v>> \in votes}
           more == s.votes \cup {<<q, v>>}
           start == [view |-> 1, seq |-> 1, block |-> 0]
           qc == [view |-> block[v].seq, seq |-> block[v].seq, block |-> v]
           w == IF superMajority(votersOf(more)) THEN qc ELSE s.waiting
<1>1. Core(s).votes = s.votes /\ Core(s).waiting = s.waiting
  BY CoreOf
<1>2. "votes" \in CoreFields /\ "waiting" \in CoreFields
  BY FieldNames
<1>3. CASE v = 0
  <2>1. Moves(s, [s EXCEPT !.waiting = start], [Core(s) EXCEPT !.waiting = start])
    BY <1>2, CoreExcept
  <2> QED BY <1>3, <2>1 DEF addVote
<1>4. CASE v # 0 /\ superMajority(votersOf(s.votes))
  BY <1>1, <1>4 DEF addVote, Moves
<1>5. CASE v # 0 /\ ~ superMajority(votersOf(s.votes))
  <2>1. addVote(s, q, v) = [s EXCEPT !.votes = more, !.waiting = w]
    BY <1>5 DEF addVote
  <2>2. addVote(Core(s), q, v) = [Core(s) EXCEPT !.votes = more, !.waiting = w]
    BY <1>1, <1>5 DEF addVote
  <2> HIDE DEF more, w
  <2>3. Moves(s, [s EXCEPT !.votes = more, !.waiting = w],
                 [Core(s) EXCEPT !.votes = more, !.waiting = w])
    BY <1>2, CoreExceptTwo
  <2> QED BY <2>1, <2>2, <2>3
<1> QED BY <1>3, <1>4, <1>5

-----------------------------------------------------------------------------
(* They keep MTGood *)

\* AdvanceView.
LEMMA MTAdvanceGood ==
  ASSUME NEW r, NEW s, MTGood(r, s), NEW view \in Nat, NEW seq \in Nat, NEW pt \in {NoTimeout, TimeoutF, TimeoutS}
  PROVE  MTGood(r, AdvanceView(r, s, view, seq, pt))
<1>1. GoodReplica(r, AdvanceView(r, Core(s), view, seq, pt))
  BY AdvanceViewGood DEF MTGood
<1> QED BY <1>1, AdvanceMoves, MovesGood DEF MTGood

\* Two calls of updateHighTC.
LEMMA MTTwoTCsGood ==
  ASSUME NEW r, NEW s, MTGood(r, s),
         NEW a \in TC \cup {NoTC}, NEW b \in TC \cup {NoTC}, PairOfTCs(a, b)
  PROVE  MTGood(r, updateHighTC(updateHighTC(s, a), b))
<1>1. GoodReplica(r, updateHighTC(updateHighTC(Core(s), a), b))
  BY TwoTCsGood DEF MTGood
<1> QED BY <1>1, TwoTCsMove, MovesGood DEF MTGood

\* A signal to the vote loop.
LEMMA MTSignalGood ==
  ASSUME NEW r, NEW s, MTGood(r, s), NEW ope \in {Continue, Drop}, NEW view \in Nat
  PROVE  MTGood(r, sendSignal(s, ope, view))
<1>1. GoodReplica(r, sendSignal(Core(s), ope, view))
  BY sendSignalGood DEF MTGood
<1> QED BY <1>1, SignalMoves, MovesGood DEF MTGood

\* The vote.
LEMMA MTcastVoteGood ==
  ASSUME NEW r, NEW s, MTGood(r, s), GoodBlocks, NEW b, Received(b)
  PROVE  MTGood(r, castVote(s, b))
<1>1. GoodReplica(r, castVote(Core(s), b))
  BY castVoteGood DEF MTGood
<1> QED BY <1>1, castVoteMoves, MovesGood DEF MTGood

\* The fields of MTchs that only mthotstuff reads.
LEMMA MTSideGood ==
  ASSUME NEW r, NEW s, MTGood(r, s), NEW X
  PROVE  MTGood(r, [s EXCEPT !.voteType = X]) /\ MTGood(r, [s EXCEPT !.ctx = X])
BY SideExcept, MovesGood DEF MTGood

\* A QC put aside.
LEMMA MTBufferQCGood ==
  ASSUME NEW r, NEW s, MTGood(r, s), NEW qc \in QC, ValidQC(qc)
  PROVE  MTGood(r, [s EXCEPT !.bufferedQCs = @ \cup {qc}])
<1> DEFINE B == s.bufferedQCs \cup {qc}
<1>1. Core(s).bufferedQCs = s.bufferedQCs /\ "bufferedQCs" \in CoreFields
  BY CoreOf, FieldNames
<1>2. GoodReplica(r, [Core(s) EXCEPT !.bufferedQCs = @ \cup {qc}])
  BY BufferQCGood DEF MTGood
<1>3. GoodReplica(r, [Core(s) EXCEPT !.bufferedQCs = B])
  BY <1>1, <1>2
<1> HIDE DEF B
<1>4. Moves(s, [s EXCEPT !.bufferedQCs = B], [Core(s) EXCEPT !.bufferedQCs = B])
  BY <1>1, CoreExcept DEF MTGood
<1>5. MTGood(r, [s EXCEPT !.bufferedQCs = B])
  BY <1>3, <1>4, MovesGood
<1> QED BY <1>5 DEF B

\* Removals and resets that a handler makes first or last.
LEMMA MTLeaves ==
  ASSUME NEW r, NEW s, MTGood(r, s)
  PROVE  /\ \A X \in SUBSET View : MTGood(r, [s EXCEPT !.received = X])
         /\ \A X \in SUBSET s.bufferedBlocks : MTGood(r, [s EXCEPT !.bufferedBlocks = X])
         /\ MTGood(r, [s EXCEPT !.recursive = 0])
         /\ MTGood(r, [s EXCEPT !.blocked = 0])
         /\ MTGood(r, [s EXCEPT !.waiting = NoQC])
         /\ \A X \in Seq(Signal) : MTGood(r, [s EXCEPT !.proposeChan = X])
<1>1. /\ "received" \in CoreFields /\ "bufferedBlocks" \in CoreFields /\ "recursive" \in CoreFields
      /\ "blocked" \in CoreFields /\ "waiting" \in CoreFields /\ "proposeChan" \in CoreFields
  BY FieldNames
<1>2. Core(s).bufferedBlocks = s.bufferedBlocks
  BY CoreOf
<1>3. /\ \A X : Moves(s, [s EXCEPT !.received = X], [Core(s) EXCEPT !.received = X])
      /\ \A X : Moves(s, [s EXCEPT !.bufferedBlocks = X], [Core(s) EXCEPT !.bufferedBlocks = X])
      /\ Moves(s, [s EXCEPT !.recursive = 0], [Core(s) EXCEPT !.recursive = 0])
      /\ Moves(s, [s EXCEPT !.blocked = 0], [Core(s) EXCEPT !.blocked = 0])
      /\ Moves(s, [s EXCEPT !.waiting = NoQC], [Core(s) EXCEPT !.waiting = NoQC])
      /\ \A X : Moves(s, [s EXCEPT !.proposeChan = X], [Core(s) EXCEPT !.proposeChan = X])
  BY <1>1, CoreExcept DEF MTGood
<1>4. GoodReplica(r, Core(s))
  BY DEF MTGood
<1> QED BY <1>2, <1>3, <1>4, Leaves, MovesGood

-----------------------------------------------------------------------------
(* Certificates and locks *)

\* A valid certificate from the second one of a pipeline on names a certified block.
LEMMA CertifiedBlock ==
  ASSUME NEW qc \in QC, ValidQC(qc), qc.seq >= 2
  PROVE  /\ qc.block \in Proposed /\ Certified(qc.block) /\ block[qc.block].seq = qc.seq
         /\ CertifiedSeq(qc.seq)
<1>1. qc.block # 0
  BY DEF ValidQC, QC
<1>2. qc.block \in Proposed /\ Certified(qc.block) /\ block[qc.block].seq = qc.seq
  BY <1>1, MaxViewNat DEF ValidQC, QC, Id, Proposed, View
<1> QED BY <1>2 DEF CertifiedSeq

\* updatePreferredSeq.
LEMMA MTPreferredGood ==
  ASSUME NEW r, NEW s, MTGood(r, s), NEW qc \in QC, ValidQC(qc)
  PROVE  LET t == MTupdatePreferredSeq(s, qc)
         IN  MTGood(r, t) /\ Core(t) = Core(s)
<1> DEFINE x == s.preferredSeq
           y == qc.seq
           t == [s EXCEPT !.secPreferredSeq = x, !.preferredSeq = y]
<1>1. CASE ~ (qc.seq >= 2 /\ qc.seq > s.preferredSeq)
  BY <1>1 DEF MTupdatePreferredSeq
<1>2. CASE qc.seq >= 2 /\ qc.seq > s.preferredSeq
  <2>1. MTupdatePreferredSeq(s, qc) = t
    BY <1>2 DEF MTupdatePreferredSeq
  <2>2. GoodLocks(y, x, s.forest.lowest)
    BY <1>2, CertifiedBlock DEF GoodLocks, MTGood, QC
  <2> HIDE DEF x, y
  <2>3. /\ "forest" \in CoreFields /\ "preferredSeq" \in CoreFields
        /\ CoreFields \subseteq AllFields /\ "secPreferredSeq" \in AllFields
        /\ "secPreferredSeq" \notin CoreFields
    BY FieldNames DEF AllFields
  <2>4. /\ IsRecord(t) /\ t.preferredSeq = y /\ t.secPreferredSeq = x
        /\ \A f \in AllFields : f # "preferredSeq" /\ f # "secPreferredSeq" => t[f] = s[f]
    BY <2>3 DEF MTGood, IsRecord
  <2>5. Core(s) = [f \in CoreFields |-> Core(s)[f]]
    BY DEF Core
  <2>6. Core(s).preferredSeq = 0 /\ Core(s).forest = [s.forest EXCEPT !.lowest = 0]
    BY <2>3 DEF Core
  <2> HIDE DEF t
  <2>7. \A f \in CoreFields : f # "preferredSeq" /\ f # "forest" => Core(s)[f] = t[f]
    BY <2>3, <2>4, CoreField
  <2>8. t.forest = s.forest
    BY <2>3, <2>4
  <2>9. Core(t) = Core(s)
    BY <2>5, <2>6, <2>7, <2>8, CoreExt
  <2>10. MTGood(r, t)
    BY <2>2, <2>4, <2>8, <2>9 DEF MTGood
  <2> QED BY <2>1, <2>9, <2>10
<1> QED BY <1>1, <1>2

\* A certificate that is not behind the view, and the advance it causes.
LEMMA HighQCAdvanceGood ==
  ASSUME NEW r, NEW s, GoodReplica(r, s), NEW qc \in QC, ValidQC(qc), ~ (qc.view < s.curView)
  PROVE  GoodReplica(r, AdvanceView(r, updateHighQC(s, qc), qc.view, qc.seq, NoTimeout))
<1> DEFINE u == updateHighQC(s, qc)
           t == AdvanceView(r, u, qc.view, qc.seq, NoTimeout)
<1>1. Sound(r, s) /\ OrderedQCs(s.highQC, s.secHighQC, s.curView)
  BY DEF GoodReplica
<1>2. /\ Sound(r, u)
      /\ u.curView = s.curView
      /\ qc.view > s.highQC.view => u.highQC = qc /\ u.secHighQC = s.highQC
      /\ ~ (qc.view > s.highQC.view) => u = s
  BY <1>1, HighQCSound
<1> HIDE DEF u
<1>3. qc.view \in Nat /\ qc.seq \in Nat /\ NoTimeout \in {NoTimeout, TimeoutF, TimeoutS}
  BY DEF QC
<1>4. Sound(r, t) /\ Advanced(u, qc.view, t)
  BY <1>2, <1>3, AdvanceViewSound
<1> HIDE DEF t
<1>5. t.highQC = u.highQC /\ t.secHighQC = u.secHighQC /\ t.curView = qc.view + 1
  BY <1>2, <1>4 DEF Advanced
<1>6. s.highQC \in QC /\ s.secHighQC \in QC /\ s.curView \in Nat
  BY <1>1 DEF Sound, ReplicaState
<1>7. OrderedQCs(t.highQC, t.secHighQC, t.curView)
  BY <1>1, <1>2, <1>3, <1>5, <1>6 DEF OrderedQCs, QC, GenesisQC
<1>8. GoodReplica(r, t)
  BY <1>4, <1>7 DEF GoodReplica
<1> QED BY <1>8 DEF t, u

\* processCertificate.
LEMMA MTCertificateGood ==
  ASSUME NEW r, NEW s, MTGood(r, s), NEW qc \in QC, ValidQC(qc)
  PROVE  MTGood(r, MTprocessCertificate(r, s, qc))
<1> DEFINE p == MTupdatePreferredSeq(s, qc)
           u == updateHighQC(p, qc)
           t == AdvanceView(r, u, qc.view, qc.seq, NoTimeout)
<1>1. qc.view \in Nat /\ qc.seq \in Nat /\ NoTimeout \in {NoTimeout, TimeoutF, TimeoutS}
  BY DEF QC
<1>2. CASE qc.view < s.curView
  BY <1>2 DEF MTprocessCertificate
<1>3. MTGood(r, AdvanceView(r, s, qc.view, qc.seq, NoTimeout))
  BY <1>1, MTAdvanceGood
<1>4. MTGood(r, [s EXCEPT !.bufferedQCs = @ \cup {qc}])
  BY MTBufferQCGood
<1>5. CASE ~ (qc.view < s.curView)
  <2>1. MTGood(r, p) /\ Core(p) = Core(s)
    BY MTPreferredGood
  <2>2. ~ (qc.view < Core(p).curView) /\ GoodReplica(r, Core(p)) /\ IsRecord(p)
    BY <1>5, <2>1, CoreOf DEF MTGood
  <2> HIDE DEF p
  <2>3. GoodReplica(r, AdvanceView(r, updateHighQC(Core(p), qc), qc.view, qc.seq, NoTimeout))
    BY <2>2, HighQCAdvanceGood
  <2>4. Moves(p, u, updateHighQC(Core(p), qc))
    BY <2>2, HighQCMoves
  <2>5. IsRecord(u) /\ Core(u) = updateHighQC(Core(p), qc)
    BY <2>4 DEF Moves
  <2> HIDE DEF u
  <2>6. Moves(u, t, AdvanceView(r, Core(u), qc.view, qc.seq, NoTimeout))
    BY <2>5, AdvanceMoves
  <2>7. Moves(p, t, AdvanceView(r, Core(u), qc.view, qc.seq, NoTimeout))
    BY <2>4, <2>6, MovesTrans
  <2>8. MTGood(r, t)
    BY <2>1, <2>3, <2>5, <2>7, MovesGood
  <2> HIDE DEF t
  <2> QED BY <1>3, <1>4, <1>5, <2>8 DEF MTprocessCertificate, t, u, p
<1> QED BY <1>2, <1>5

-----------------------------------------------------------------------------
(* The main loop *)

\* A validator that takes over the view of a timeout proposal.
LEMMA MTfollowTCGood ==
  ASSUME NEW r, NEW s, MTGood(r, s), NEW b, Received(b), GoodBlocks, b.tc # NoTC, NEW curView
  PROVE  MTGood(r, MTfollowTC(r, s, b, curView))
<1> DEFINE into(pt) == [AdvanceView(r, s, b.tc.view, b.tc.seq, pt) EXCEPT !.voteType = pt]
           second == updateHighTC(updateHighTC(into(TimeoutS), NoTC), NoTC)
<1>1. b.tc.view \in Nat /\ b.tc.seq \in Nat
  BY ReceivedBlock DEF TC
<1>2. TimeoutF \in {NoTimeout, TimeoutF, TimeoutS} /\ TimeoutS \in {NoTimeout, TimeoutF, TimeoutS}
  OBVIOUS
<1>3. MTGood(r, into(TimeoutF)) /\ MTGood(r, into(TimeoutS))
  BY <1>1, <1>2, MTAdvanceGood, MTSideGood
<1>4. MTfollowTC(r, s, b, curView) \in {s, into(TimeoutF), second}
  BY DEF MTfollowTC
<1> HIDE DEF into
<1>5. NoTC \in TC \cup {NoTC} /\ PairOfTCs(NoTC, NoTC)
  BY DEF PairOfTCs
<1>6. MTGood(r, second)
  BY <1>3, <1>5, MTTwoTCsGood
<1> QED BY <1>3, <1>4, <1>6

\* The leader that moves to the second proposal of a timeout.
LEMMA MTsecondProposalGood ==
  ASSUME NEW r, NEW s, MTGood(r, s), NEW b, Received(b), GoodBlocks, ~ mustSignal(r, s, b)
  PROVE  MTGood(r, MTsecondProposal(r, s, b))
<1>1. CASE Leader(s.curView + 1) # r
  BY <1>1 DEF MTsecondProposal
<1>2. CASE Leader(s.curView + 1) = r
  <2> DEFINE m == maxTC(b)
             t == AdvanceView(r, s, m.view, m.seq, TimeoutS)
             u == updateHighTC(updateHighTC(t, b.tcs[1]), b.tcs[2])
  <2>1. b.tc # NoTC /\ ~ (s.curView > m.view)
    BY <1>2 DEF mustSignal
  <2>2. /\ b.tcs[1] \in TC \cup {NoTC} /\ b.tcs[2] \in TC \cup {NoTC}
        /\ PairOfTCs(b.tcs[1], b.tcs[2])
        /\ m \in TC \cup {NoTC}
    BY <2>1, TimeoutBlock
  <2>3. s.curView \in Nat
    BY CoreOf DEF MTGood, GoodReplica, Sound, ReplicaState
  <2>4. MTsecondProposal(r, s, b) = [u EXCEPT !.voteType = TimeoutS]
    BY <1>2 DEF MTsecondProposal, secondProposal
  <2> HIDE DEF m
  <2>5. m.view \in Nat /\ m.seq \in Nat
    BY <2>1, <2>2, <2>3 DEF TC, NoTC
  <2>6. TimeoutS \in {NoTimeout, TimeoutF, TimeoutS}
    OBVIOUS
  <2>7. MTGood(r, t)
    BY <2>5, <2>6, MTAdvanceGood
  <2> HIDE DEF t
  <2>8. MTGood(r, u)
    BY <2>2, <2>7, MTTwoTCsGood
  <2> HIDE DEF u
  <2>9. MTGood(r, [u EXCEPT !.voteType = TimeoutS])
    BY <2>8, MTSideGood
  <2> QED BY <2>4, <2>9, Zenon
<1> QED BY <1>1, <1>2

\* The forest without LowestLevel.
LEMMA BareForest ==
  ASSUME NEW f, GoodForest(f)
  PROVE  GoodForest([f EXCEPT !.lowest = 0]) /\ [f EXCEPT !.lowest = 0].lowest = 0
BY DEF GoodForest

\* AddBlock and updateHighBlock.
LEMMA MTaddBlockGood ==
  ASSUME NEW r, NEW s, MTGood(r, s), NEW b, Received(b), GoodBlocks
  PROVE  MTGood(r, addBlock(s, b))
<1> DEFINE f == AddVertex(s.forest, block, b.view)
           g == [f EXCEPT !.lowest = 0]
           h == IF b.view > s.highBlock THEN b.view ELSE s.highBlock
           t == [s EXCEPT !.forest = f, !.highBlock = h]
           c == [Core(s) EXCEPT !.forest = g, !.highBlock = h]
<1>1. /\ IsRecord(s) /\ GoodForest(s.forest) /\ GoodReplica(r, Core(s)) /\ Core(s) \in ReplicaState
      /\ GoodLocks(s.preferredSeq, s.secPreferredSeq, s.forest.lowest)
  BY DEF MTGood, GoodReplica, Sound
<1>2. b.view \in Proposed /\ b.view \in View
  BY ReceivedBlock
<1>3. GoodForest(f) /\ f.lowest = s.forest.lowest
  BY <1>1, <1>2, AddVertexGood
<1>4. h \in Id
  BY <1>1, <1>2, CoreOf, MaxViewNat DEF ReplicaState, View, Id
<1>5. addBlock(s, b) = t
  BY DEF addBlock
<1> HIDE DEF f, h
<1>6. GoodForest(g) /\ g.lowest = 0
  BY <1>3, BareForest
<1>7. Core(t) = c
  <2>1. "forest" \in CoreFields /\ "highBlock" \in CoreFields /\ "preferredSeq" \in CoreFields
    BY FieldNames
  <2>2. CoreFields \subseteq AllFields
    BY DEF AllFields
  <2>3. t.forest = f /\ t.highBlock = h
        /\ \A x \in AllFields : x # "forest" /\ x # "highBlock" => t[x] = s[x]
    BY <1>1, <2>1, <2>2 DEF IsRecord
  <2>4. /\ c = [x \in CoreFields |-> c[x]] /\ c.forest = g /\ c.highBlock = h
        /\ \A x \in CoreFields : x # "forest" /\ x # "highBlock" => c[x] = Core(s)[x]
    BY <2>1 DEF Core
  <2>5. Core(s).preferredSeq = 0
    BY <2>1 DEF Core
  <2> HIDE DEF t, c
  <2>6. c.preferredSeq = 0 /\ c.forest = [t.forest EXCEPT !.lowest = 0]
    BY <2>1, <2>3, <2>4, <2>5
  <2>7. \A x \in CoreFields : x # "preferredSeq" /\ x # "forest" => c[x] = t[x]
    BY <2>2, <2>3, <2>4, CoreField
  <2> QED BY <2>4, <2>6, <2>7, CoreExt
<1>8. /\ IsRecord(t) /\ t.forest = f /\ t.preferredSeq = s.preferredSeq
      /\ t.secPreferredSeq = s.secPreferredSeq
  BY <1>1, FieldNames DEF IsRecord, AllFields
<1> HIDE DEF g
<1>9. c \in ReplicaState
  BY <1>1, <1>4, <1>6, ZenonT(60) DEF ReplicaState, GoodForest
<1>10. KnownBlocks(g, Core(s).bufferedBlocks, Core(s).recursive, Core(s).blocked)
  BY <1>1, <1>6 DEF GoodReplica, Sound, KnownBlocks, GoodForest
<1>11. GoodReplica(r, c)
  <2>1. PICK k : k = Core(s)
    OBVIOUS
  <2>2. GoodReplica(r, k) /\ k \in ReplicaState /\ c = [k EXCEPT !.forest = g, !.highBlock = h]
    BY <1>1, <2>1
  <2> QED BY <1>6, <1>9, <1>10, <2>1, <2>2 DEF GoodReplica, Sound, ReplicaState
<1> HIDE DEF t, c
<1>12. MTGood(r, t)
  BY <1>1, <1>3, <1>7, <1>8, <1>11 DEF MTGood
<1> QED BY <1>5, <1>12

\* CommitBlock, of a certified block with a certified child.
LEMMA MTCommitBlockGood ==
  ASSUME NEW r, NEW s, MTGood(r, s), GoodBlocks, NEW id \in Proposed, TwoChain(block[id].seq)
  PROVE  MTGood(r, CommitBlock(s, id))
<1> DEFINE done == CommittedBlocks(s.forest, block, id)
           lost == ForkedBlocks(s.forest, block, block[id].seq)
           x == block[id].seq
           f == PruneUpToLevel(s.forest, x)
           g == [f EXCEPT !.lowest = 0]
           C == s.committed \cup done
           F == s.forked \cup lost
           V == {v \in s.votes : v[2] \notin done}
           t == [s EXCEPT !.forest = f, !.committed = C, !.forked = F, !.votes = V]
           c == [Core(s) EXCEPT !.forest = g, !.committed = C, !.forked = F, !.votes = V]
<1>1. /\ IsRecord(s) /\ GoodForest(s.forest) /\ GoodReplica(r, Core(s)) /\ Core(s) \in ReplicaState
      /\ GoodLocks(s.preferredSeq, s.secPreferredSeq, s.forest.lowest)
      /\ Core(s).committed = s.committed /\ Core(s).forked = s.forked /\ Core(s).votes = s.votes
  BY CoreOf DEF MTGood, GoodReplica, Sound
<1>2. CommitBlock(s, id) = t
  BY DEF CommitBlock
<1>3. x \in Nat
  BY DEF GoodBlocks, Proposed, Block
<1>4. done \subseteq View /\ lost \subseteq View
  BY <1>1, StoredProposed, CommittedStored, ForkedProposed DEF Proposed
<1> HIDE DEF done, lost
<1>5. C \in SUBSET View /\ F \in SUBSET View
  BY <1>1, <1>4 DEF ReplicaState
<1>6. V \subseteq s.votes /\ V \in SUBSET (Node \X Id)
  BY <1>1 DEF ReplicaState
<1>7. TwoChain(x)
  OBVIOUS
<1> HIDE DEF x
<1>8. GoodForest(f) /\ f.lowest = x
  BY <1>1, <1>3, PruneGood
<1> HIDE DEF f, C, F, V
<1>9. GoodForest(g) /\ g.lowest = 0
  BY <1>8, BareForest
<1>10. Core(t) = c
  <2>1. /\ "forest" \in CoreFields /\ "committed" \in CoreFields /\ "forked" \in CoreFields
        /\ "votes" \in CoreFields /\ "preferredSeq" \in CoreFields
    BY FieldNames
  <2>2. CoreFields \subseteq AllFields
    BY DEF AllFields
  <2>3. /\ t.forest = f
        /\ \A y \in AllFields : t[y] = IF y = "forest" THEN f ELSE IF y = "committed" THEN C
                                        ELSE IF y = "forked" THEN F ELSE IF y = "votes" THEN V ELSE s[y]
    BY <1>1, <2>1, <2>2 DEF IsRecord
  <2>4. /\ c = [y \in CoreFields |-> c[y]]
        /\ \A y \in CoreFields : c[y] = IF y = "forest" THEN g ELSE IF y = "committed" THEN C
                                         ELSE IF y = "forked" THEN F ELSE IF y = "votes" THEN V ELSE Core(s)[y]
    BY <2>1 DEF Core
  <2>5. Core(s).preferredSeq = 0
    BY <2>1 DEF Core
  <2> HIDE DEF t, c
  <2>6. c.preferredSeq = 0 /\ c.forest = [t.forest EXCEPT !.lowest = 0]
    BY <2>1, <2>3, <2>4, <2>5
  <2>7. \A y \in CoreFields : y # "preferredSeq" /\ y # "forest" => c[y] = t[y]
    BY <2>2, <2>3, <2>4, CoreField
  <2> QED BY <2>4, <2>6, <2>7, CoreExt
<1>11. /\ IsRecord(t) /\ t.forest = f /\ t.preferredSeq = s.preferredSeq
       /\ t.secPreferredSeq = s.secPreferredSeq
  BY <1>1, FieldNames DEF IsRecord, AllFields
<1> HIDE DEF g
<1>12. c \in ReplicaState
  BY <1>1, <1>5, <1>6, <1>9, ZenonT(60) DEF ReplicaState, GoodForest
<1>13. GoodReplica(r, c)
  <2>1. PICK k : k = Core(s)
    OBVIOUS
  <2>2. /\ GoodReplica(r, k) /\ k \in ReplicaState /\ k.votes = s.votes
        /\ c = [k EXCEPT !.forest = g, !.committed = C, !.forked = F, !.votes = V]
    BY <1>1, <2>1
  <2>3. KnownBlocks(g, k.bufferedBlocks, k.recursive, k.blocked)
    BY <1>9, <2>2 DEF GoodReplica, Sound, KnownBlocks, GoodForest
  <2>4. KnownVotes(V, k.dual)
    BY <1>6, <2>2 DEF GoodReplica, Sound, KnownVotes
  <2> DEFINE d == [k EXCEPT !.forest = g, !.committed = C, !.forked = F, !.votes = V]
  <2>5. c = d /\ d \in ReplicaState
    BY <1>12, <2>2
  <2> HIDE DEF c
  <2>6. GoodReplica(r, d)
    BY <1>9, <2>2, <2>3, <2>4, <2>5 DEF GoodReplica, Sound, ReplicaState
  <2> QED BY <2>5, <2>6
<1> HIDE DEF t, c
<1>14. MTGood(r, t)
  BY <1>1, <1>7, <1>8, <1>10, <1>11, <1>13 DEF MTGood, GoodLocks
<1> QED BY <1>2, <1>14

\* A QC that was waiting for this block.
LEMMA MTBufferedQCGood ==
  ASSUME NEW r, NEW s, MTGood(r, s), NEW b
  PROVE  MTGood(r, MTprocessBufferedQC(r, s, b))
<1>1. CASE ~ \E qc \in s.bufferedQCs : qc.block = b.view
  BY <1>1 DEF MTprocessBufferedQC
<1>2. CASE \E qc \in s.bufferedQCs : qc.block = b.view
  <2> DEFINE qc == CHOOSE q \in s.bufferedQCs : q.block = b.view
             p == MTprocessCertificate(r, s, qc)
             B == {q \in p.bufferedQCs : q.block # b.view}
             t == [p EXCEPT !.bufferedQCs = B]
  <2>1. qc \in s.bufferedQCs
    BY <1>2
  <2>2. MTprocessBufferedQC(r, s, b) = t
    BY <1>2 DEF MTprocessBufferedQC
  <2> HIDE DEF qc
  <2>3. qc \in QC /\ ValidQC(qc)
    BY <2>1, CoreOf DEF MTGood, GoodReplica, Sound, ValidQCs, ReplicaState
  <2>4. MTGood(r, p)
    BY <2>3, MTCertificateGood
  <2> HIDE DEF p
  <2>5. PICK c : c = Core(p)
    OBVIOUS
  <2>6. c \in ReplicaState /\ GoodReplica(r, c) /\ c.bufferedQCs = p.bufferedQCs /\ IsRecord(p)
    BY <2>4, <2>5, CoreOf DEF MTGood, GoodReplica, Sound
  <2>7. B \in SUBSET QC /\ B \subseteq c.bufferedQCs /\ "bufferedQCs" \in CoreFields
    BY <2>6, FieldNames DEF ReplicaState
  <2> HIDE DEF B
  <2>8. [c EXCEPT !.bufferedQCs = B] \in ReplicaState
    BY <2>6, <2>7, ZenonT(60) DEF ReplicaState
  <2>9. ValidQCs(c.highQC, c.secHighQC, B, c.waiting)
    BY <2>6, <2>7 DEF GoodReplica, Sound, ValidQCs
  <2>10. GoodReplica(r, [c EXCEPT !.bufferedQCs = B])
    BY <2>6, <2>8, <2>9, ZenonT(60) DEF GoodReplica, Sound, ReplicaState
  <2>11. Moves(p, t, [c EXCEPT !.bufferedQCs = B])
    BY <2>5, <2>6, <2>7, CoreExcept
  <2>12. MTGood(r, t)
    BY <2>4, <2>10, <2>11, MovesGood
  <2> QED BY <2>2, <2>12
<1> QED BY <1>1, <1>2

\* The end of ProcessBlock.
LEMMA MTfinishBlockGood ==
  ASSUME NEW r, NEW s, MTGood(r, s), GoodBlocks, NEW b, Received(b), NEW ctx
  PROVE  MTGood(r, MTfinishBlock(r, s, b, ctx))
<1> DEFINE t == MTprocessBufferedQC(r, s, b)
<1>1. MTGood(r, t)
  BY MTBufferedQCGood
<1> HIDE DEF t
<1>2. MTGood(r, castVote(t, b))
  BY <1>1, MTcastVoteGood
<1> QED BY <1>1, <1>2 DEF MTfinishBlock, t

\* commitRule finds a certified block with a certified child.
LEMMA MTCommitTargetGood ==
  ASSUME NEW s, GoodForest(s.forest), GoodBlocks, NEW qc \in QC, ValidQC(qc), MTcommitRule(s, qc)
  PROVE  MTCommitTarget(qc) \in Proposed /\ TwoChain(block[MTCommitTarget(qc)].seq)
<1> DEFINE v1 == qc.block
           v0 == block[v1].qc.block
<1>1. v1 \in Proposed /\ v0 \in Proposed /\ MTCommitTarget(qc) = v0
  BY DEF MTcommitRule, MTCommitTarget, GetBlockByID, GetVertex, GoodForest
<1>2. ValidQC(block[v1].qc)
  BY <1>1 DEF GoodBlocks, GoodBlock
<1>3. v1 # 0 /\ v0 # 0
  BY <1>1, MaxViewNat DEF Proposed, View
<1>4. Certified(v1) /\ Certified(v0)
  BY <1>2, <1>3 DEF ValidQC
<1> QED BY <1>1, <1>4 DEF TwoChain

\* ProcessBlock from the commit rule on.
LEMMA MTcommitAndVoteGood ==
  ASSUME NEW r, NEW s, MTGood(r, s), GoodBlocks, NEW b, Received(b), NEW ctx
  PROVE  MTGood(r, MTcommitAndVote(r, s, b, ctx))
<1> DEFINE target == MTCommitTarget(b.qc)
<1>1. MTGood(r, MTfinishBlock(r, s, b, ctx))
  BY MTfinishBlockGood
<1>2. ASSUME MTcommitRule(s, b.qc)
      PROVE  MTGood(r, MTfinishBlock(r, CommitBlock(s, target), b, ctx))
  <2>1. b.qc \in QC /\ ValidQC(b.qc)
    BY ReceivedBlock
  <2>2. target \in Proposed /\ TwoChain(block[target].seq)
    BY <1>2, <2>1, MTCommitTargetGood DEF MTGood
  <2> HIDE DEF target
  <2>3. MTGood(r, CommitBlock(s, target))
    BY <2>2, MTCommitBlockGood
  <2> QED BY <2>3, MTfinishBlockGood
<1>3. MTGood(r, [s EXCEPT !.crashed = TRUE])
  <2>1. PICK c : c = Core(s)
    OBVIOUS
  <2>2. c \in ReplicaState /\ GoodReplica(r, c) /\ IsRecord(s) /\ "crashed" \in CoreFields
    BY <2>1, FieldNames DEF MTGood, GoodReplica, Sound
  <2>3. [c EXCEPT !.crashed = TRUE] \in ReplicaState
    BY <2>2, ZenonT(60) DEF ReplicaState
  <2>4. GoodReplica(r, [c EXCEPT !.crashed = TRUE])
    BY <2>2, <2>3 DEF GoodReplica, Sound, ReplicaState
  <2>5. Moves(s, [s EXCEPT !.crashed = TRUE], [c EXCEPT !.crashed = TRUE])
    BY <2>1, <2>2, CoreExcept
  <2> QED BY <2>4, <2>5, MovesGood
<1> QED BY <1>1, <1>2, <1>3 DEF MTcommitAndVote

\* ProcessBlock from AddBlock on.
LEMMA MTacceptBlockGood ==
  ASSUME NEW r, NEW s, MTGood(r, s), GoodBlocks, NEW b, Received(b)
  PROVE  MTGood(r, MTacceptBlock(r, s, b))
<1> DEFINE t == addBlock(s, b)
           ctx == Context(t)
           x == b.view
<1>1. MTGood(r, t)
  BY MTaddBlockGood
<1>2. MTacceptBlock(r, s, b) =
        IF ~ mustSignal(r, t, b) THEN MTcommitAndVote(r, MTsecondProposal(r, t, b), b, ctx)
        ELSE IF ~ hasRoom(t) THEN [t EXCEPT !.blocked = x, !.ctx = ctx]
        ELSE MTcommitAndVote(r, sendSignal(t, Continue, 0), b, ctx)
  BY DEF MTacceptBlock
<1>3. x \in Proposed /\ x \in Id
  BY ReceivedBlock, MaxViewNat DEF View, Id
<1> HIDE DEF t, ctx, x
<1>4. ASSUME ~ mustSignal(r, t, b)
      PROVE  MTGood(r, MTcommitAndVote(r, MTsecondProposal(r, t, b), b, ctx))
  <2>1. MTGood(r, MTsecondProposal(r, t, b))
    BY <1>1, <1>4, MTsecondProposalGood
  <2> QED BY <2>1, MTcommitAndVoteGood
<1>5. MTGood(r, [t EXCEPT !.blocked = x, !.ctx = ctx])
  <2> DEFINE u == [t EXCEPT !.blocked = x]
  <2>1. PICK c : c = Core(t)
    OBVIOUS
  <2>2. c \in ReplicaState /\ GoodReplica(r, c) /\ IsRecord(t) /\ "blocked" \in CoreFields
    BY <1>1, <2>1, FieldNames DEF MTGood, GoodReplica, Sound
  <2>3. [c EXCEPT !.blocked = x] \in ReplicaState
    BY <1>3, <2>2, ZenonT(60) DEF ReplicaState
  <2>4. KnownBlocks(c.forest, c.bufferedBlocks, c.recursive, x)
    BY <1>3, <2>2 DEF GoodReplica, Sound, KnownBlocks
  <2>5. GoodReplica(r, [c EXCEPT !.blocked = x])
    BY <2>2, <2>3, <2>4, ZenonT(60) DEF GoodReplica, Sound, ReplicaState
  <2>6. Moves(t, u, [c EXCEPT !.blocked = x])
    BY <2>1, <2>2, CoreExcept
  <2>7. MTGood(r, u)
    BY <1>1, <2>5, <2>6, MovesGood
  <2>8. [t EXCEPT !.blocked = x, !.ctx = ctx] = [u EXCEPT !.ctx = ctx]
    OBVIOUS
  <2> HIDE DEF u
  <2> QED BY <2>7, <2>8, MTSideGood
<1>6. MTGood(r, MTcommitAndVote(r, sendSignal(t, Continue, 0), b, ctx))
  <2>1. Continue \in {Continue, Drop} /\ 0 \in Nat
    OBVIOUS
  <2>2. MTGood(r, sendSignal(t, Continue, 0))
    BY <1>1, <2>1, MTSignalGood
  <2> QED BY <2>2, MTcommitAndVoteGood
<1> QED BY <1>2, <1>4, <1>5, <1>6

\* ProcessBlock as a whole.
LEMMA MTprocessBlockGood ==
  ASSUME NEW r, NEW s, MTGood(r, s), GoodBlocks, NEW b, Received(b)
  PROVE  MTGood(r, MTprocessBlock(r, s, b))
<1> DEFINE own == Leader(b.view) = r
           certified == IF own THEN s ELSE MTprocessCertificate(r, s, b.qc)
           typed == IF b.tc = NoTC THEN [certified EXCEPT !.voteType = NoTimeout] ELSE certified
           followed == IF own \/ b.tc = NoTC THEN typed ELSE MTfollowTC(r, typed, b, s.curView)
           B == s.bufferedBlocks \cup {b.view}
           t == [s EXCEPT !.bufferedBlocks = B]
<1>1. b.view \in Proposed /\ b.view \in View /\ b.qc \in QC /\ ValidQC(b.qc)
  BY ReceivedBlock
<1>2. MTGood(r, certified)
  <2>1. MTGood(r, MTprocessCertificate(r, s, b.qc))
    BY <1>1, MTCertificateGood
  <2> QED BY <2>1
<1> HIDE DEF certified
<1>3. MTGood(r, typed)
  <2>1. MTGood(r, [certified EXCEPT !.voteType = NoTimeout])
    BY <1>2, MTSideGood
  <2> QED BY <1>2, <2>1, Zenon
<1> HIDE DEF typed
<1>4. MTGood(r, followed)
  <2>1. b.tc # NoTC => MTGood(r, MTfollowTC(r, typed, b, s.curView))
    BY <1>3, MTfollowTCGood
  <2> QED BY <1>3, <2>1
<1> HIDE DEF followed
<1>5. MTGood(r, MTacceptBlock(r, followed, b))
  BY <1>4, MTacceptBlockGood
<1>6. MTGood(r, t)
  <2>1. PICK c : c = Core(s)
    OBVIOUS
  <2>2. /\ c \in ReplicaState /\ GoodReplica(r, c) /\ c.bufferedBlocks = s.bufferedBlocks
        /\ IsRecord(s) /\ "bufferedBlocks" \in CoreFields
    BY <2>1, CoreOf, FieldNames DEF MTGood, GoodReplica, Sound
  <2>3. B \in SUBSET View /\ B \subseteq Proposed
    BY <1>1, <2>2 DEF ReplicaState, GoodReplica, Sound, KnownBlocks
  <2> HIDE DEF B
  <2>4. [c EXCEPT !.bufferedBlocks = B] \in ReplicaState
    BY <2>2, <2>3, ZenonT(60) DEF ReplicaState
  <2>5. KnownBlocks(c.forest, B, c.recursive, c.blocked)
    BY <2>2, <2>3 DEF GoodReplica, Sound, KnownBlocks
  <2>6. GoodReplica(r, [c EXCEPT !.bufferedBlocks = B])
    BY <2>2, <2>4, <2>5 DEF GoodReplica, Sound, ReplicaState
  <2>7. Moves(s, t, [c EXCEPT !.bufferedBlocks = B])
    BY <2>1, <2>2, CoreExcept
  <2> QED BY <2>6, <2>7, MovesGood
<1>7. MTprocessBlock(r, s, b) \in {t, followed, MTacceptBlock(r, followed, b)}
  BY Zenon DEF MTprocessBlock, followed, typed, certified
<1> QED BY <1>4, <1>5, <1>6, <1>7

-----------------------------------------------------------------------------
(* Votes and timeouts *)

\* Quorum.Add.
LEMMA MTaddVoteGood ==
  ASSUME NEW r, NEW s, MTGood(r, s), GoodBlocks,
         NEW q \in Node, NEW v \in Id, v = 0 \/ Cast(q, v)
  PROVE  MTGood(r, addVote(s, q, v))
<1>1. GoodReplica(r, addVote(Core(s), q, v))
  BY addVoteGood DEF MTGood
<1> QED BY <1>1, addVoteMoves, MovesGood DEF MTGood

\* ProcessVote after a Continue.
LEMMA MTapplyQCGood ==
  ASSUME NEW r, NEW s, MTGood(r, s), NEW qc \in QC, ValidQC(qc)
  PROVE  MTGood(r, MTapplyQC(r, s, qc))
BY MTBufferQCGood, MTCertificateGood DEF MTapplyQC

\* AddTmo, and processTC on the two TCs it makes.
LEMMA MTaddTmoGood ==
  ASSUME NEW r, NEW s, MTGood(r, s), NEW tmo \in TMO, tmo.sseq = tmo.fseq + 1
  PROVE  MTGood(r, MTaddTmo(r, s, tmo))
<1> DEFINE nodesOf(timeouts) == {x \in Node : <<tmo.view, x>> \in timeouts}
           T == s.timeouts \cup {<<tmo.view, tmo.node>>}
           more == [s EXCEPT !.timeouts = T]
           ftc == [view |-> tmo.fseq, seq |-> tmo.fseq]
           stc == [view |-> tmo.sseq, seq |-> tmo.sseq]
           u == updateHighTC(updateHighTC(more, ftc), stc)
           a == AdvanceView(r, u, ftc.view, ftc.seq, TimeoutF)
<1>1. MTaddTmo(r, s, tmo) \in {s, more, MTprocessTC(r, u, ftc)}
  BY DEF MTaddTmo
<1>2. MTGood(r, more)
  <2>1. PICK c : c = Core(s)
    OBVIOUS
  <2>2. /\ c \in ReplicaState /\ GoodReplica(r, c) /\ c.timeouts = s.timeouts
        /\ IsRecord(s) /\ "timeouts" \in CoreFields
    BY <2>1, CoreOf, FieldNames DEF MTGood, GoodReplica, Sound
  <2>3. T \in SUBSET (Nat \X Node)
    BY <2>2 DEF ReplicaState, TMO
  <2> HIDE DEF T
  <2>4. [c EXCEPT !.timeouts = T] \in ReplicaState
    BY <2>2, <2>3, ZenonT(60) DEF ReplicaState
  <2>5. GoodReplica(r, [c EXCEPT !.timeouts = T])
    BY <2>2, <2>4 DEF GoodReplica, Sound, ReplicaState
  <2>6. Moves(s, more, [c EXCEPT !.timeouts = T])
    BY <2>1, <2>2, CoreExcept
  <2> QED BY <2>5, <2>6, MovesGood
<1>3. ftc \in TC /\ stc \in TC /\ PairOfTCs(ftc, stc) /\ ftc.view \in Nat /\ ftc.seq \in Nat
  BY DEF TMO, TC, PairOfTCs, NoTC
<1> HIDE DEF more, ftc, stc
<1>4. MTGood(r, u)
  BY <1>2, <1>3, MTTwoTCsGood
<1> HIDE DEF u
<1>5. TimeoutF \in {NoTimeout, TimeoutF, TimeoutS}
  OBVIOUS
<1>6. MTGood(r, a)
  BY <1>3, <1>4, <1>5, MTAdvanceGood
<1>7. MTprocessTC(r, u, ftc) \in {u, [a EXCEPT !.voteType = TimeoutF]}
  BY Zenon DEF MTprocessTC
<1> HIDE DEF a
<1>8. MTGood(r, [a EXCEPT !.voteType = TimeoutF])
  BY <1>6, MTSideGood
<1> QED BY <1>1, <1>2, <1>4, <1>7, <1>8, Zenon

-----------------------------------------------------------------------------
(* The invariant, and what a step leaves of it *)

\* The record is named so that a step can be followed from one record to the next.
MTInv ==
  /\ st = [r \in Node |-> st[r]]
  /\ \A r \in Node : \A s \in {st[r]} : MTGood(r, s)
  /\ GoodBlocks
  /\ GoodTmos

\* Certified blocks, and with them the locks, stay.
LEMMA LocksGrow ==
  ASSUME Grows, NEW preferredSeq, NEW secPreferredSeq, NEW lowest,
         GoodLocks(preferredSeq, secPreferredSeq, lowest)
  PROVE  GoodLocks(preferredSeq, secPreferredSeq, lowest)'
<1>1. ASSUME NEW seq, CertifiedSeq(seq) PROVE CertifiedSeq(seq)'
  <2>1. PICK v \in Proposed : Certified(v) /\ block[v].seq = seq
    BY <1>1 DEF CertifiedSeq
  <2>2. Certified(v)' /\ v \in Proposed' /\ block'[v].seq = seq
    BY <2>1, CertifiedGrows, ProposedGrows DEF Grows
  <2> QED BY <2>2 DEF CertifiedSeq, Certified, superMajority
<1> QED BY <1>1, ChainGrows DEF GoodLocks

\* A record that was good before the step is good after it.
LEMMA MTGrows ==
  ASSUME Grows, NEW r \in Node, NEW s, MTGood(r, s), st'[r].voted \subseteq s.voted,
         GoodQueue(r, s.curView, s.held, s.newViews)'
  PROVE  MTGood(r, s)'
<1>1. PICK c : c = Core(s)
  OBVIOUS
<1>2. /\ GoodReplica(r, c) /\ c.voted = s.voted /\ c.curView = s.curView
      /\ c.held = s.held /\ c.newViews = s.newViews
  BY <1>1, CoreOf DEF MTGood
<1>3. GoodReplica(r, c)'
  BY <1>2, ReplicaGrows
<1>4. GoodForest(s.forest)'
  BY ProposedGrows DEF MTGood, GoodForest
<1>5. GoodLocks(s.preferredSeq, s.secPreferredSeq, s.forest.lowest)'
  BY LocksGrow DEF MTGood
<1>6. IsRecord(s)
  BY DEF MTGood
<1> QED BY <1>1, <1>3, <1>4, <1>5, <1>6 DEF MTGood

\* A vote that has been cast may be on its way to anybody.
LEMMA MTDualGrows ==
  ASSUME NEW q \in Node, NEW u, MTGood(q, u)',
         NEW vote \in Node \X Id \X Nat, vote[2] = 0 \/ Cast(vote[1], vote[2])'
  PROVE  MTGood(q, [u EXCEPT !.dual = @ \cup {vote}])'
<1> DEFINE D == u.dual \cup {vote}
           t == [u EXCEPT !.dual = D]
<1>1. PICK c : c = Core(u)
  OBVIOUS
<1>2. GoodReplica(q, c)' /\ c.dual = u.dual /\ IsRecord(u) /\ "dual" \in CoreFields
  BY <1>1, CoreOf, FieldNames DEF MTGood
<1>3. GoodReplica(q, [c EXCEPT !.dual = @ \cup {vote}])'
  BY <1>2, DualGrows
<1>4. [c EXCEPT !.dual = @ \cup {vote}] = [c EXCEPT !.dual = D]
  BY <1>2
<1> HIDE DEF D
<1>5. Moves(u, t, [c EXCEPT !.dual = D])
  BY <1>1, <1>2, CoreExcept
<1>6. /\ IsRecord(t) /\ Core(t) = [c EXCEPT !.dual = @ \cup {vote}] /\ t.forest = u.forest
      /\ t.preferredSeq = u.preferredSeq /\ t.secPreferredSeq = u.secPreferredSeq
  BY <1>4, <1>5 DEF Moves
<1> HIDE DEF t
<1>7. MTGood(q, t)'
  BY <1>3, <1>6 DEF MTGood
<1> QED BY <1>7 DEF t, D

\* U is what the handler leaves, before it sends its vote.
MTHandled(U) ==
  /\ U = [q \in Node |-> U[q]]
  /\ \A q \in Node : MTGood(q, U[q])

\* A step made of handlers that keep MTGood, and of votes on their way.
LEMMA MTHandledStep ==
  ASSUME MTInv, NEW U, MTHandled(U),
         st' = [q \in Node |-> st'[q]],
         \A q \in Node : st'[q].voted = U[q].voted,
         \A q \in Node : \A t : t = st'[q] => Delivers(q, U[q], t),
         block' = block, \A tmo \in tmos' : GoodTmo(tmo)
  PROVE  MTInv'
<1>1. Grows
  <2>1. \A q \in Node : st[q].voted \subseteq U[q].voted
    BY CoreOf DEF MTHandled, MTGood, GoodReplica, Sound
  <2> QED BY <2>1 DEF Grows
<1>2. Proposed' = Proposed
  BY DEF Proposed
<1>3. ASSUME NEW q \in Node, NEW t, t = st'[q]
      PROVE  MTGood(q, t)'
  <2>1. PICK u : u = U[q]
    OBVIOUS
  <2>2. MTGood(q, u) /\ st'[q].voted = u.voted
    BY <2>1 DEF MTHandled
  <2>3. GoodQueue(q, u.curView, u.held, u.newViews) /\ u.held \in Block \cup {NoBlock}
    BY <2>2, CoreOf DEF MTGood, GoodReplica, Sound, ReplicaState
  <2>4. GoodQueue(q, u.curView, u.held, u.newViews)'
    BY <1>1, <1>2, <2>3, QueueGrows
  <2>5. MTGood(q, u)'
    BY <1>1, <2>2, <2>4, MTGrows
  <2>6. Delivers(q, u, t)
    BY <1>3, <2>1
  <2>7. CASE t = u
    BY <2>5, <2>7
  <2>8. CASE t # u
    <3>1. PICK vote \in Node \X Id \X Nat :
             /\ vote[2] = 0 \/ Cast(vote[1], vote[2])'
             /\ t = [u EXCEPT !.dual = @ \cup {vote}]
      BY <2>6, <2>8 DEF Delivers
    <3>2. MTGood(q, [u EXCEPT !.dual = @ \cup {vote}])'
      BY <2>5, <3>1, MTDualGrows
    <3> QED BY <3>1, <3>2
  <2> QED BY <2>7, <2>8
<1>4. \A q \in Node : \A t \in {st'[q]} : MTGood(q, t)'
  BY <1>3
<1>5. GoodBlocks' /\ GoodTmos'
  BY <1>1, BlocksGrow, TmosGrow DEF MTInv
<1> QED BY <1>4, <1>5 DEF MTInv

\* The record a handler starts from.
LEMMA MTStartsGood ==
  ASSUME MTInv, NEW r \in Node
  PROVE  MTGood(r, st[r])
BY DEF MTInv

\* A handler of one replica.
LEMMA MTHandledOne ==
  ASSUME MTInv, NEW r \in Node, NEW t, MTGood(r, t)
  PROVE  MTHandled([st EXCEPT ![r] = t])
BY MTStartsGood DEF MTHandled, MTInv

\* A handler that sends no vote.
LEMMA MTOneStep ==
  ASSUME MTInv, NEW r \in Node, NEW t, MTGood(r, t), st' = [st EXCEPT ![r] = t],
         block' = block, tmos' = tmos
  PROVE  MTInv'
<1> DEFINE U == [st EXCEPT ![r] = t]
<1>1. MTHandled(U)
  BY MTHandledOne
<1>2. st' = U
  OBVIOUS
<1>3. \A tmo \in tmos' : GoodTmo(tmo)
  BY DEF MTInv, GoodTmos
<1> HIDE DEF U
<1> QED BY <1>1, <1>2, <1>3, MTHandledStep DEF MTHandled, Delivers

\* What the projection shows of a replica has the types of MHotStuff.
LEMMA MTTypes ==
  ASSUME NEW r, NEW s, MTGood(r, s)
  PROVE  /\ s.curView \in Nat /\ s.curSeq \in Nat /\ s.newViews \in Seq(NewView)
         /\ s.highQC \in QC /\ s.voted \in SUBSET View /\ s.received \in SUBSET View
         /\ s.dual \in SUBSET (Node \X Id \X Nat) /\ s.waiting \in QC \cup {NoQC}
         /\ s.proposeChan \in Seq(Signal) /\ s.held \in Block \cup {NoBlock}
<1>1. Core(s) \in ReplicaState
  BY DEF MTGood, GoodReplica, Sound
<1>2. PICK c \in ReplicaState : c = Core(s)
  BY <1>1
<1>3. /\ c.curView \in Nat /\ c.curSeq \in Nat /\ c.newViews \in Seq(NewView)
      /\ c.highQC \in QC /\ c.voted \in SUBSET View /\ c.received \in SUBSET View
      /\ c.dual \in SUBSET (Node \X Id \X Nat) /\ c.waiting \in QC \cup {NoQC}
      /\ c.proposeChan \in Seq(Signal) /\ c.held \in Block \cup {NoBlock}
  BY DEF ReplicaState
<1> QED BY <1>2, <1>3, CoreOf

\* An assignment to dual, of a record with the fields of MTchs.
LEMMA DualExcept ==
  ASSUME NEW s, IsRecord(s), NEW X
  PROVE  LET t == [s EXCEPT !.dual = X]
         IN  t.voted = s.voted /\ t.dual = X
<1>1. "dual" \in AllFields /\ "voted" \in AllFields
  BY FieldNames DEF AllFields
<1> QED BY <1>1, ExceptField

\* A handler of the main loop, which may vote for v.
LEMMA MTVoteStep ==
  ASSUME MTInv, NEW r \in Node, NEW t, MTGood(r, t), NEW v \in Proposed,
         st' = HandleVote([st EXCEPT ![r] = t], r, v), block' = block, tmos' = tmos
  PROVE  MTInv'
<1> DEFINE U == [st EXCEPT ![r] = t]
           a == Leader(v + 2)
           vote == <<r, v, Cardinality(U[r].voted)>>
           W == [U EXCEPT ![a].dual = @ \cup {vote}]
<1>1. MTHandled(U)
  BY MTHandledOne
<1>2. st' = U \/ (v \in U[r].voted /\ st' = W)
  BY DEF HandleVote
<1> HIDE DEF U
<1>3. \A tmo \in tmos' : GoodTmo(tmo)
  BY DEF MTInv, GoodTmos
<1>4. CASE st' = U
  BY <1>1, <1>3, <1>4, MTHandledStep DEF MTHandled, Delivers
<1>5. CASE v \in U[r].voted /\ st' = W
  <2>1. vote \in Node \X Id \X Nat
    <3>1. U[r].voted \in SUBSET View
      BY <1>1, MTTypes DEF MTHandled
    <3>2. IsFiniteSet(View)
      BY MaxViewNat, FS_Interval DEF View
    <3>3. Cardinality(U[r].voted) \in Nat
      BY <3>1, <3>2, FS_Subset, FS_CardinalityType
    <3> QED BY <3>3, MaxViewNat DEF Proposed, View, Id
  <2>2. PICK x \in Node \X Id \X Nat : x = vote /\ x[1] = r /\ x[2] = v
    BY <2>1
  <2> HIDE DEF vote, a
  <2>3. U = [q \in Node |-> U[q]] /\ \A q \in Node : IsRecord(U[q])
    BY <1>1 DEF MTHandled, MTGood
  <2>4. /\ W = [q \in Node |-> W[q]]
        /\ \A q \in Node : W[q] = U[q] \/ W[q] = [U[q] EXCEPT !.dual = @ \cup {vote}]
    BY <2>3
  <2>5. \A q \in Node : W[q].voted = U[q].voted
    BY <2>3, <2>4, DualExcept
  <2> HIDE DEF W
  <2>6. Cast(r, v)'
    <3>1. v \in st'[r].voted /\ v \in Proposed'
      BY <1>5, <2>5 DEF Proposed
    <3> QED BY <3>1 DEF Cast
  <2>7. Cast(x[1], x[2])'
    BY <2>2, <2>6 DEF Cast
  <2>8. \A q \in Node : \A w : w = st'[q] => Delivers(q, U[q], w)
    BY <1>5, <2>2, <2>4, <2>7 DEF Delivers
  <2> QED BY <1>1, <1>3, <1>5, <2>4, <2>5, <2>8, MTHandledStep
<1> QED BY <1>2, <1>4, <1>5

-----------------------------------------------------------------------------
(* The actions that leave the proposals alone *)

\* The first leader starts.
LEMMA MTKickOffStep ==
  ASSUME MTInv, NEW r \in Node, KickOff(r)
  PROVE  MTInv'
<1> DEFINE t == AdvanceView(r, st[r], 0, 0, NoTimeout)
           U == [st EXCEPT ![r] = t]
           vote == <<r, 0, 0>>
           w == [t EXCEPT !.dual = @ \cup {vote}]
<1>1. MTGood(r, t)
  <2>1. NoTimeout \in {NoTimeout, TimeoutF, TimeoutS} /\ 0 \in Nat
    OBVIOUS
  <2> QED BY <2>1, MTStartsGood, MTAdvanceGood
<1>2. st' = [st EXCEPT ![r] = w] /\ block' = block /\ tmos' = tmos
  BY DEF KickOff
<1>3. vote \in Node \X Id \X Nat /\ vote[2] = 0
  BY MaxViewNat DEF Id
<1> HIDE DEF t, vote
<1>4. w.voted = t.voted
  BY <1>1, DualExcept DEF MTGood
<1>5. Delivers(r, t, w)
  BY <1>3 DEF Delivers
<1> HIDE DEF w
<1>6. MTHandled(U)
  BY <1>1, MTHandledOne
<1>7. \A q \in Node : /\ q = r => st'[q] = w /\ U[q] = t
                      /\ q # r => st'[q] = st[q] /\ U[q] = st[q]
  BY <1>2 DEF MTInv
<1>8. st' = [q \in Node |-> st'[q]]
  BY <1>2 DEF MTInv
<1>9. \A q \in Node : st'[q].voted = U[q].voted
  BY <1>4, <1>7
<1>10. \A q \in Node : \A x : x = st'[q] => Delivers(q, U[q], x)
  <2> SUFFICES ASSUME NEW q \in Node, NEW x, x = st'[q]
               PROVE  Delivers(q, U[q], x)
    OBVIOUS
  <2>1. CASE q = r
    BY <2>1, <1>5, <1>7
  <2>2. CASE q # r
    BY <2>2, <1>7 DEF Delivers
  <2> QED BY <2>1, <2>2
<1>11. \A tmo \in tmos' : GoodTmo(tmo)
  BY <1>2 DEF MTInv, GoodTmos
<1> HIDE DEF U
<1> QED BY <1>2, <1>6, <1>8, <1>9, <1>10, <1>11, MTHandledStep

\* A block from the network.
LEMMA MTProcessBlockStep ==
  ASSUME MTInv, NEW r \in Node, NEW v \in View, MTProcessBlock(r, v)
  PROVE  MTInv'
<1> DEFINE X == st[r].received \cup {v}
           s == [st[r] EXCEPT !.received = X]
           t == MTprocessBlock(r, s, block[v])
<1>1. v \in Proposed /\ Received(block[v])
  BY DEF MTProcessBlock, CanProcessBlock, Proposed, Received
<1>2. X \in SUBSET View
  BY MTStartsGood, MTTypes
<1>3. st' = HandleVote([st EXCEPT ![r] = t], r, v) /\ block' = block /\ tmos' = tmos
  BY DEF MTProcessBlock
<1> HIDE DEF X
<1>4. MTGood(r, s)
  BY <1>2, MTStartsGood, MTLeaves
<1> HIDE DEF s
<1>5. MTGood(r, t)
  BY <1>1, <1>4, MTprocessBlockGood DEF MTInv
<1> HIDE DEF t
<1> QED BY <1>1, <1>3, <1>5, MTVoteStep

\* What the main loop has buffered or stopped at has been proposed.
LEMMA MTKnown ==
  ASSUME NEW r, NEW s, MTGood(r, s)
  PROVE  s.recursive \in Proposed \cup {0} /\ s.blocked \in Proposed \cup {0}
BY CoreOf DEF MTGood, GoodReplica, Sound, KnownBlocks

\* A block from the buffer.
LEMMA MTProcessBufferedStep ==
  ASSUME MTInv, NEW r \in Node, MTProcessBufferedBlock(r)
  PROVE  MTInv'
<1> DEFINE v == st[r].recursive
           s == [st[r] EXCEPT !.recursive = 0]
           p == MTprocessBlock(r, s, block[v])
           X == p.bufferedBlocks \ {v}
           t == [p EXCEPT !.bufferedBlocks = X]
<1>1. v \in Proposed /\ Received(block[v])
  BY MTStartsGood, MTKnown DEF MTProcessBufferedBlock, CanProcessBuffered, Received
<1>2. st' = HandleVote([st EXCEPT ![r] = t], r, v) /\ block' = block /\ tmos' = tmos
  BY DEF MTProcessBufferedBlock
<1> HIDE DEF v
<1>3. MTGood(r, s)
  BY MTStartsGood, MTLeaves
<1> HIDE DEF s
<1>4. MTGood(r, p)
  BY <1>1, <1>3, MTprocessBlockGood DEF MTInv
<1> HIDE DEF p
<1>5. X \in SUBSET p.bufferedBlocks
  OBVIOUS
<1> HIDE DEF X
<1>6. MTGood(r, t)
  BY <1>4, <1>5, MTLeaves
<1> HIDE DEF t
<1> QED BY <1>1, <1>2, <1>6, MTVoteStep

\* A block whose signal had to wait.
LEMMA MTResumeBlockStep ==
  ASSUME MTInv, NEW r \in Node, MTResumeBlock(r)
  PROVE  MTInv'
<1> DEFINE v == st[r].blocked
           ctx == st[r].ctx
           p == [st[r] EXCEPT !.blocked = 0]
           s == [p EXCEPT !.ctx = NoContext]
           sent == sendSignal(s, Continue, 0)
           t == MTcommitAndVote(r, sent, block[v], ctx)
<1>1. v \in Proposed /\ Received(block[v])
  BY MTStartsGood, MTKnown DEF MTResumeBlock, CanResumeBlock, Received
<1>2. st' = HandleVote([st EXCEPT ![r] = t], r, v) /\ block' = block /\ tmos' = tmos
  BY DEF MTResumeBlock
<1> HIDE DEF v, ctx
<1>3. MTGood(r, p)
  BY MTStartsGood, MTLeaves
<1> HIDE DEF p
<1>4. MTGood(r, s)
  BY <1>3, MTSideGood
<1> HIDE DEF s
<1>5. MTGood(r, sent)
  <2>1. Continue \in {Continue, Drop} /\ 0 \in Nat
    OBVIOUS
  <2> QED BY <1>4, <2>1, MTSignalGood
<1> HIDE DEF sent
<1>6. MTGood(r, t)
  BY <1>1, <1>5, MTcommitAndVoteGood DEF MTInv
<1> HIDE DEF t
<1> QED BY <1>1, <1>2, <1>6, MTVoteStep

\* A vote.
LEMMA MTProcessVoteStep ==
  ASSUME MTInv, NEW r \in Node, NEW vote \in st[r].dual, ProcessVote(r, vote)
  PROVE  MTInv'
<1> DEFINE X == st[r].dual \ {vote}
           s == [st[r] EXCEPT !.dual = X]
           t == addVote(s, vote[1], vote[2])
<1>1. st' = [st EXCEPT ![r] = t] /\ block' = block /\ tmos' = tmos
  BY DEF ProcessVote
<1>2. PICK c : c = Core(st[r])
  OBVIOUS
<1>3. /\ GoodReplica(r, c) /\ c \in ReplicaState /\ c.dual = st[r].dual
      /\ IsRecord(st[r]) /\ "dual" \in CoreFields
  BY <1>2, MTStartsGood, CoreOf, FieldNames DEF MTGood, GoodReplica, Sound
<1>4. vote[1] \in Node /\ vote[2] \in Id /\ (vote[2] = 0 \/ Cast(vote[1], vote[2]))
  BY <1>3 DEF ReplicaState, GoodReplica, Sound, KnownVotes
<1>5. X \in SUBSET c.dual
  BY <1>3
<1> HIDE DEF X
<1>6. GoodReplica(r, [c EXCEPT !.dual = X])
  BY <1>3, <1>5, Leaves
<1>7. Moves(st[r], s, [c EXCEPT !.dual = X])
  BY <1>2, <1>3, CoreExcept
<1> HIDE DEF s
<1>8. MTGood(r, s)
  BY <1>6, <1>7, MTStartsGood, MovesGood
<1>9. MTGood(r, t)
  BY <1>4, <1>8, MTaddVoteGood DEF MTInv
<1> HIDE DEF t
<1> QED BY <1>1, <1>9, MTOneStep

\* A signal.
LEMMA MTReceiveSignalStep ==
  ASSUME MTInv, NEW r \in Node, MTReceiveSignal(r)
  PROVE  MTInv'
<1> DEFINE c == Tail(st[r].proposeChan)
           sig == Head(st[r].proposeChan)
           qc == st[r].waiting
           rest == [st[r] EXCEPT !.proposeChan = c]
           free == [rest EXCEPT !.waiting = NoQC]
           t == IF sig.ope = Continue THEN MTapplyQC(r, free, qc)
                ELSE IF sig.view > qc.view THEN free
                ELSE rest
<1>1. st' = [st EXCEPT ![r] = t] /\ block' = block /\ tmos' = tmos
  BY DEF MTReceiveSignal
<1>2. qc # NoQC /\ st[r].proposeChan # <<>>
  BY DEF MTReceiveSignal, CanReceiveSignal
<1>3. qc \in QC /\ ValidQC(qc)
  BY <1>2, MTStartsGood, MTTypes, CoreOf DEF MTGood, GoodReplica, Sound, ValidQCs
<1>4. c \in Seq(Signal)
  <2>1. st[r].proposeChan \in Seq(Signal)
    BY MTStartsGood, MTTypes
  <2> QED BY <1>2, <2>1
<1> HIDE DEF c, sig, qc
<1>5. MTGood(r, rest)
  BY <1>4, MTStartsGood, MTLeaves
<1> HIDE DEF rest
<1>6. MTGood(r, free)
  BY <1>5, MTLeaves
<1> HIDE DEF free
<1>7. MTGood(r, MTapplyQC(r, free, qc))
  BY <1>3, <1>6, MTapplyQCGood
<1>8. MTGood(r, t)
  BY <1>5, <1>6, <1>7
<1> HIDE DEF t
<1> QED BY <1>1, <1>8, MTOneStep

\* A timeout message.
LEMMA MTRemoteTmoStep ==
  ASSUME MTInv, NEW r \in Node, NEW tmo \in tmos, MTProcessRemoteTmo(r, tmo)
  PROVE  MTInv'
<1> DEFINE s == MTprocessCertificate(r, st[r], tmo.highQC)
           t == IF tmo.view < s.curView THEN s ELSE MTaddTmo(r, s, tmo)
<1>1. st' = [st EXCEPT ![r] = t] /\ block' = block /\ tmos' = tmos
  BY DEF MTProcessRemoteTmo
<1>2. tmo \in TMO /\ ValidQC(tmo.highQC) /\ tmo.sseq = tmo.fseq + 1
  BY DEF MTInv, GoodTmos, GoodTmo
<1>3. tmo.highQC \in QC
  BY <1>2 DEF TMO
<1>4. MTGood(r, s)
  BY <1>2, <1>3, MTStartsGood, MTCertificateGood
<1> HIDE DEF s
<1>5. MTGood(r, MTaddTmo(r, s, tmo))
  BY <1>2, <1>4, MTaddTmoGood
<1>6. MTGood(r, t)
  BY <1>4, <1>5
<1> HIDE DEF t
<1> QED BY <1>1, <1>6, MTOneStep

\* Nothing happens to the replicas.
LEMMA MTSameReplicas ==
  ASSUME MTInv, st' = st, block' = block, \A tmo \in tmos' : GoodTmo(tmo)
  PROVE  MTInv'
<1>1. MTHandled(st)
  BY MTStartsGood DEF MTHandled, MTInv
<1> QED BY <1>1, MTHandledStep DEF MTHandled, Delivers

\* The timer.
LEMMA MTLocalTmoStep ==
  ASSUME MTInv, NEW r \in Node, ProcessLocalTmo(r)
  PROVE  MTInv'
<1> DEFINE s == st[r]
<1> PICK view \in TimerViews :
       tmos' = tmos \cup {[view |-> view + 1, fseq |-> s.curSeq, sseq |-> s.curSeq + 1,
                          node |-> r, highQC |-> s.highQC]}
  BY DEF ProcessLocalTmo
<1> DEFINE new == [view |-> view + 1, fseq |-> s.curSeq, sseq |-> s.curSeq + 1,
                   node |-> r, highQC |-> s.highQC]
<1>1. tmos' = tmos \cup {new} /\ st' = st /\ block' = block
  BY DEF ProcessLocalTmo
<1>2. view \in Nat /\ s.curSeq \in Nat /\ s.highQC \in QC /\ ValidQC(s.highQC)
  BY MTStartsGood, MTTypes, CoreOf, TimersNat DEF MTGood, GoodReplica, Sound, ValidQCs
<1> HIDE DEF s
<1>3. GoodTmo(new)
  BY <1>2 DEF GoodTmo, TMO
<1> HIDE DEF new
<1>4. \A tmo \in tmos' : GoodTmo(tmo)
  BY <1>1, <1>3 DEF MTInv, GoodTmos
<1> QED BY <1>1, <1>4, MTSameReplicas

\* Nothing.
LEMMA MTStutterStep ==
  ASSUME MTInv, UNCHANGED vars
  PROVE  MTInv'
BY MTSameReplicas DEF vars, MTInv, GoodTmos

-----------------------------------------------------------------------------
(* Proposals *)

\* The projection has the queue of the record.
LEMMA CoreQueue ==
  ASSUME NEW s
  PROVE  SameQueue(Core(s), s)
BY CoreOf DEF SameQueue

\* The step of a leader that publishes b and is left in state t.
LEMMA MTPublishStep ==
  ASSUME MTInv, NEW r \in Node, NEW t, MTGood(r, t), NEW b, Publishable(r, t, b),
         st' = [st EXCEPT ![r] = t], block' = publish(b), tmos' = tmos
  PROVE  MTInv' /\ Kept
<1> DEFINE U == [st EXCEPT ![r] = t]
<1>1. MTHandled(U) /\ st' = U
  BY MTHandledOne
<1> HIDE DEF U
<1>2. \A q \in Node : st[q].voted \subseteq st'[q].voted
  BY <1>1, CoreOf DEF MTHandled, MTGood, GoodReplica, Sound
<1>3. Kept /\ Grows /\ Proposed' = Proposed \cup {b.view} /\ GoodBlocks'
  BY <1>2, PublishGrows DEF MTInv
<1>4. ASSUME NEW q \in Node, NEW s, s = st'[q]
      PROVE  MTGood(q, s)'
  <2>1. MTGood(q, s) /\ st'[q].voted \subseteq s.voted
    BY <1>1, <1>4 DEF MTHandled
  <2>2. q = r => s = t
    BY <1>1, <1>4 DEF U, MTInv
  <2>3. PICK c : c = Core(s)
    OBVIOUS
  <2>4. GoodReplica(q, c) /\ SameQueue(c, s)
    BY <2>1, <2>3, CoreQueue DEF MTGood
  <2>5. q = r => SameQueue(t, c)
    BY <2>2, <2>4 DEF SameQueue
  <2>6. GoodQueue(q, c.curView, c.held, c.newViews)'
    BY <1>3, <2>4, <2>5, PublishQueue
  <2>7. GoodQueue(q, s.curView, s.held, s.newViews)'
    BY <2>4, <2>6 DEF SameQueue
  <2> QED BY <1>3, <2>1, <2>7, MTGrows
<1>5. \A q \in Node : \A s \in {st'[q]} : MTGood(q, s)'
  BY <1>4
<1>6. GoodTmos'
  BY <1>3, TmosGrow DEF MTInv, GoodTmos
<1>7. st' = [q \in Node |-> st'[q]]
  BY <1>1 DEF MTHandled
<1> QED BY <1>3, <1>5, <1>6, <1>7 DEF MTInv

\* The queue without its first announcement, which is proposed for or held.
LEMMA MTNextView ==
  ASSUME NEW r, NEW s, MTGood(r, s), s.held = NoBlock, s.newViews # <<>>
  PROVE  LET nv == Head(s.newViews)
             q == Tail(s.newViews)
         IN  /\ nv \in NewView /\ q \in Seq(NewView)
             /\ Leader(nv.view) = r
             /\ nv.view <= s.curView
             /\ \A v \in Proposed : Leader(v) = r => v < nv.view
             /\ \A i \in 1..Len(q) : nv.view < q[i].view
             /\ GoodQueue(r, s.curView, NoBlock, q)
<1>1. PICK c : c = Core(s)
  OBVIOUS
<1>2. /\ GoodReplica(r, c) /\ c.held = NoBlock /\ c.newViews # <<>>
      /\ c.newViews = s.newViews /\ c.curView = s.curView
  BY <1>1, CoreOf DEF MTGood
<1>3. LET nv == Head(c.newViews)
          q == Tail(c.newViews)
      IN  /\ nv \in NewView /\ q \in Seq(NewView)
          /\ Leader(nv.view) = r
          /\ nv.view <= c.curView
          /\ \A v \in Proposed : Leader(v) = r => v < nv.view
          /\ \A i \in 1..Len(q) : nv.view < q[i].view
          /\ GoodQueue(r, c.curView, NoBlock, q)
  BY <1>2, NextView
<1> QED BY <1>2, <1>3

\* MakeProposal builds a good block.
LEMMA MTProposalGood ==
  ASSUME NEW r, NEW s, MTGood(r, s), NEW nv \in NewView, nv.view <= MaxView
  PROVE  LET b == proposal(s, nv)
         IN  b \in Block /\ GoodBlock(b) /\ b.view = nv.view /\ b # NoBlock
<1>1. PICK c : c = Core(s)
  OBVIOUS
<1>2. /\ GoodReplica(r, c) /\ c.highQC = s.highQC /\ c.secHighQC = s.secHighQC
      /\ c.highTC = s.highTC /\ c.secHighTC = s.secHighTC /\ c.highBlock = s.highBlock
  BY <1>1, CoreOf DEF MTGood
<1>3. proposal(c, nv) = proposal(s, nv)
  BY <1>2 DEF proposal
<1> QED BY <1>2, <1>3, ProposalGood

\* Records with the same projection, or a change of it that leaves the queue alone.
LEMMA MovesQueue ==
  ASSUME NEW s, NEW t, NEW c, Moves(s, t, c), SameQueue(Core(s), c)
  PROVE  SameQueue(s, t)
<1>1. Core(t) = c
  BY DEF Moves
<1>2. SameQueue(Core(s), s) /\ SameQueue(Core(t), t)
  BY CoreQueue
<1> QED BY <1>1, <1>2 DEF SameQueue

\* The reset of the TCs after the second proposal of a timeout.
LEMMA MTafterProposalGood ==
  ASSUME NEW r, NEW s, MTGood(r, s), NEW nv
  PROVE  LET t == afterProposal(s, nv)
         IN  MTGood(r, t) /\ SameQueue(s, t)
<1> DEFINE t == updateHighTC(updateHighTC(s, NoTC), NoTC)
           c == updateHighTC(updateHighTC(Core(s), NoTC), NoTC)
<1>1. NoTC \in TC \cup {NoTC} /\ PairOfTCs(NoTC, NoTC)
  BY DEF PairOfTCs
<1>2. MTGood(r, t)
  BY <1>1, MTTwoTCsGood
<1>3. Moves(s, t, c)
  BY TwoTCsMove DEF MTGood
<1>4. SameQueue(Core(s), c)
  <2>1. PICK k : k = Core(s)
    OBVIOUS
  <2>2. k \in ReplicaState
    BY <2>1 DEF MTGood, GoodReplica, Sound
  <2>3. SameQueue(k, updateHighTC(updateHighTC(k, NoTC), NoTC))
    BY <2>2 DEF SameQueue, updateHighTC, ReplicaState
  <2> QED BY <2>1, <2>3
<1> HIDE DEF t, c
<1>5. SameQueue(s, t)
  BY <1>3, <1>4, MovesQueue
<1>6. SameQueue(s, s)
  BY DEF SameQueue
<1> QED BY <1>2, <1>5, <1>6 DEF afterProposal, t

\* A signal.
LEMMA MTSignalQueue ==
  ASSUME NEW r, NEW s, MTGood(r, s), NEW ope \in {Continue, Drop}, NEW view \in Nat
  PROVE  LET t == sendSignal(s, ope, view)
         IN  MTGood(r, t) /\ SameQueue(s, t)
<1>1. IsRecord(s) /\ Core(s) \in ReplicaState
  BY DEF MTGood, GoodReplica, Sound
<1>2. SameQueue(Core(s), sendSignal(Core(s), ope, view))
  BY <1>1, SignalSameQueue
<1> QED BY <1>1, <1>2, MTSignalGood, SignalMoves, MovesQueue

\* The queue or the held block is replaced.
LEMMA MTQueueGood ==
  ASSUME NEW r, NEW s, MTGood(r, s)
  PROVE  /\ \A q \in Seq(NewView) : GoodQueue(r, s.curView, s.held, q) =>
              LET t == [s EXCEPT !.newViews = q]
              IN  MTGood(r, t) /\ t.held = s.held /\ t.newViews = q /\ t.curView = s.curView
         /\ \A b \in Block \cup {NoBlock} : GoodQueue(r, s.curView, b, s.newViews) =>
              LET t == [s EXCEPT !.held = b]
              IN  MTGood(r, t) /\ t.held = b /\ t.newViews = s.newViews /\ t.curView = s.curView
<1>1. PICK c : c = Core(s)
  OBVIOUS
<1>2. /\ GoodReplica(r, c) /\ c \in ReplicaState /\ c.curView = s.curView
      /\ c.held = s.held /\ c.newViews = s.newViews
  BY <1>1, CoreOf DEF MTGood, GoodReplica, Sound
<1>3. /\ IsRecord(s) /\ "newViews" \in CoreFields /\ "held" \in CoreFields
      /\ "newViews" \in AllFields /\ "held" \in AllFields /\ "curView" \in AllFields
  BY FieldNames DEF MTGood, AllFields
<1>4. ASSUME NEW q \in Seq(NewView), GoodQueue(r, s.curView, s.held, q)
      PROVE  LET t == [s EXCEPT !.newViews = q]
             IN  MTGood(r, t) /\ t.held = s.held /\ t.newViews = q /\ t.curView = s.curView
  <2>1. [c EXCEPT !.newViews = q] \in ReplicaState
    BY <1>2, ZenonT(60) DEF ReplicaState
  <2>2. GoodReplica(r, [c EXCEPT !.newViews = q])
    BY <1>2, <1>4, <2>1, ZenonT(60) DEF GoodReplica, Sound, ReplicaState
  <2>3. Moves(s, [s EXCEPT !.newViews = q], [c EXCEPT !.newViews = q])
    BY <1>1, <1>3, CoreExcept
  <2> QED BY <1>3, <2>2, <2>3, MovesGood, ExceptField
<1>5. ASSUME NEW b \in Block \cup {NoBlock}, GoodQueue(r, s.curView, b, s.newViews)
      PROVE  LET t == [s EXCEPT !.held = b]
             IN  MTGood(r, t) /\ t.held = b /\ t.newViews = s.newViews /\ t.curView = s.curView
  <2>1. [c EXCEPT !.held = b] \in ReplicaState
    BY <1>2, ZenonT(60) DEF ReplicaState
  <2>2. GoodReplica(r, [c EXCEPT !.held = b])
    BY <1>2, <1>5, <2>1, ZenonT(60) DEF GoodReplica, Sound, ReplicaState
  <2>3. Moves(s, [s EXCEPT !.held = b], [c EXCEPT !.held = b])
    BY <1>1, <1>3, CoreExcept
  <2> QED BY <1>3, <2>2, <2>3, MovesGood, ExceptField
<1> QED BY <1>4, <1>5

\* A proposal is published, with or without a signal, or held.
LEMMA MTMakeProposalStep ==
  ASSUME MTInv, NEW r \in Node, MakeProposal(r)
  PROVE  MTInv' /\ Kept
<1> DEFINE nv == Head(st[r].newViews)
           q == Tail(st[r].newViews)
           p == [st[r] EXCEPT !.newViews = q]
           s == afterProposal(p, nv)
           b == proposal(st[r], nv)
<1>1. MTGood(r, st[r])
  BY MTStartsGood
<1>2. st[r].held = NoBlock /\ st[r].newViews # <<>> /\ nv.view <= MaxView /\ tmos' = tmos
  BY DEF MakeProposal, CanMakeProposal
<1>3. \/ /\ st' = [st EXCEPT ![r] = s]
         /\ block' = publish(b)
      \/ /\ st' = [st EXCEPT ![r] = sendSignal(s, Drop, nv.view)]
         /\ block' = publish(b)
      \/ /\ st' = [st EXCEPT ![r] = [s EXCEPT !.held = b]]
         /\ block' = block
  BY DEF MakeProposal
<1>4. /\ nv \in NewView /\ q \in Seq(NewView)
      /\ Leader(nv.view) = r
      /\ nv.view <= st[r].curView
      /\ \A v \in Proposed : Leader(v) = r => v < nv.view
      /\ \A i \in 1..Len(q) : nv.view < q[i].view
      /\ GoodQueue(r, st[r].curView, NoBlock, q)
  BY <1>1, <1>2, MTNextView
<1> HIDE DEF nv, q
<1>5. b \in Block /\ GoodBlock(b) /\ b.view = nv.view /\ b # NoBlock
  BY <1>1, <1>2, <1>4, MTProposalGood
<1> HIDE DEF b
<1>6. MTGood(r, p) /\ p.held = NoBlock /\ p.newViews = q /\ p.curView = st[r].curView
  BY <1>1, <1>2, <1>4, MTQueueGood
<1> HIDE DEF p
<1>7. MTGood(r, s) /\ SameQueue(p, s)
  BY <1>6, MTafterProposalGood
<1> HIDE DEF s
<1>8. s.held = NoBlock /\ s.newViews = q /\ s.curView = st[r].curView
  BY <1>6, <1>7 DEF SameQueue
<1>9. Publishable(r, s, b)
  BY <1>4, <1>5, <1>8 DEF Publishable
<1>10. CASE st' = [st EXCEPT ![r] = s] /\ block' = publish(b)
  BY <1>2, <1>7, <1>9, <1>10, MTPublishStep
<1>11. CASE st' = [st EXCEPT ![r] = sendSignal(s, Drop, nv.view)] /\ block' = publish(b)
  <2> DEFINE t == sendSignal(s, Drop, nv.view)
  <2>1. Drop \in {Continue, Drop} /\ nv.view \in Nat
    BY <1>4 DEF NewView
  <2>2. MTGood(r, t) /\ SameQueue(s, t)
    BY <1>7, <2>1, MTSignalQueue
  <2>3. st' = [st EXCEPT ![r] = t]
    BY <1>11
  <2> HIDE DEF t
  <2>4. Publishable(r, t, b)
    BY <1>9, <2>2 DEF Publishable, SameQueue
  <2> QED BY <1>2, <1>11, <2>2, <2>3, <2>4, MTPublishStep
<1>12. CASE st' = [st EXCEPT ![r] = [s EXCEPT !.held = b]] /\ block' = block
  <2> DEFINE t == [s EXCEPT !.held = b]
  <2>1. GoodQueue(r, s.curView, b, s.newViews)
    BY <1>4, <1>5, <1>8 DEF GoodQueue
  <2>2. MTGood(r, t)
    BY <1>5, <1>7, <2>1, MTQueueGood
  <2> HIDE DEF t
  <2>3. MTInv'
    BY <1>2, <1>12, <2>2, MTOneStep DEF t
  <2> QED BY <1>12, <2>3 DEF Kept
<1> QED BY <1>3, <1>10, <1>11, <1>12

\* A held proposal is published.
LEMMA MTResumeProposalStep ==
  ASSUME MTInv, NEW r \in Node, ResumeProposal(r)
  PROVE  MTInv' /\ Kept
<1> DEFINE b == st[r].held
           s == [st[r] EXCEPT !.held = NoBlock]
           t == sendSignal(s, Drop, b.view)
<1>1. MTGood(r, st[r])
  BY MTStartsGood
<1>2. b # NoBlock /\ st' = [st EXCEPT ![r] = t] /\ block' = publish(b) /\ tmos' = tmos
  BY DEF ResumeProposal, CanResumeProposal
<1>3. GoodQueue(r, st[r].curView, b, st[r].newViews) /\ b \in Block
  BY <1>1, <1>2, MTTypes, CoreOf DEF MTGood, GoodReplica, Sound
<1> HIDE DEF b
<1>4. GoodQueue(r, st[r].curView, NoBlock, st[r].newViews)
  BY <1>3 DEF GoodQueue
<1>5. /\ MTGood(r, s) /\ s.held = NoBlock /\ s.newViews = st[r].newViews
      /\ s.curView = st[r].curView
  BY <1>1, <1>4, MTQueueGood
<1>6. Publishable(r, s, b)
  BY <1>2, <1>3, <1>5 DEF GoodQueue, Publishable
<1> HIDE DEF s
<1>7. MTGood(r, t) /\ SameQueue(s, t)
  <2>1. Drop \in {Continue, Drop} /\ b.view \in Nat
    BY <1>3, MaxViewNat DEF Block, View
  <2> QED BY <1>5, <2>1, MTSignalQueue
<1> HIDE DEF t
<1>8. Publishable(r, t, b)
  BY <1>6, <1>7 DEF Publishable, SameQueue
<1> QED BY <1>2, <1>7, <1>8, MTPublishStep

-----------------------------------------------------------------------------
(* The invariant is inductive *)

\* The initial states are good.
LEMMA MTInitGood ==
  ASSUME MTInit
  PROVE  MTInv
<1> DEFINE s == MTInitReplica
<1>1. Proposed = {}
  BY DEF MTInit, Proposed
<1>2. IsRecord(s)
  BY DEF MTInitReplica, IsRecord, AllFields, CoreFields
<1>3. /\ s.preferredSeq = 0 /\ s.secPreferredSeq = 0 /\ s.voted = {}
      /\ s.forest = NewLevelledForest
      /\ \A f \in CoreFields : s[f] = InitReplica[f]
  BY FieldNames DEF MTInitReplica, CoreFields, InitReplica
<1>4. Core(s) = InitReplica
  <2>1. InitReplica = [f \in CoreFields |-> InitReplica[f]]
    BY DEF CoreFields, InitReplica
  <2>2. InitReplica.preferredSeq = 0 /\ InitReplica.forest = [s.forest EXCEPT !.lowest = 0]
    BY <1>3 DEF InitReplica, NewLevelledForest
  <2> HIDE DEF s
  <2> QED BY <1>3, <2>1, <2>2, CoreExt
<1>5. GoodForest(s.forest) /\ s.forest.lowest = 0
  BY <1>3 DEF GoodForest, NewLevelledForest
<1>6. GoodLocks(s.preferredSeq, s.secPreferredSeq, s.forest.lowest)
  BY <1>3, <1>5 DEF GoodLocks
<1>7. st = [r \in Node |-> s]
  BY DEF MTInit
<1> HIDE DEF s
<1>8. ASSUME NEW r \in Node PROVE MTGood(r, st[r])
  <2>1. st[r] = s /\ st[r].voted = {}
    BY <1>3, <1>7
  <2>2. GoodReplica(r, Core(s))
    BY <1>1, <1>4, <2>1, NewReplicaGood
  <2> QED BY <1>2, <1>5, <1>6, <2>1, <2>2 DEF MTGood
<1>9. GoodBlocks /\ GoodTmos
  BY <1>1 DEF MTInit, GoodBlocks, GoodTmos
<1> QED BY <1>7, <1>8, <1>9 DEF MTInv

\* Every step keeps the invariant and the proposals.
LEMMA MTNextGood ==
  ASSUME MTInv, [MTNext]_vars
  PROVE  MTInv' /\ Kept
<1>1. ASSUME NEW r \in Node, KickOff(r) PROVE MTInv' /\ Kept
  BY <1>1, MTKickOffStep DEF KickOff, Kept
<1>2. ASSUME NEW r \in Node, NEW v \in View, MTProcessBlock(r, v) PROVE MTInv' /\ Kept
  BY <1>2, MTProcessBlockStep DEF MTProcessBlock, Kept
<1>3. ASSUME NEW r \in Node, MTProcessBufferedBlock(r) PROVE MTInv' /\ Kept
  BY <1>3, MTProcessBufferedStep DEF MTProcessBufferedBlock, Kept
<1>4. ASSUME NEW r \in Node, MTResumeBlock(r) PROVE MTInv' /\ Kept
  BY <1>4, MTResumeBlockStep DEF MTResumeBlock, Kept
<1>5. ASSUME NEW r \in Node, NEW vote \in st[r].dual, ProcessVote(r, vote) PROVE MTInv' /\ Kept
  BY <1>5, MTProcessVoteStep DEF ProcessVote, Kept
<1>6. ASSUME NEW r \in Node, MTReceiveSignal(r) PROVE MTInv' /\ Kept
  BY <1>6, MTReceiveSignalStep DEF MTReceiveSignal, Kept
<1>7. ASSUME NEW r \in Node, MakeProposal(r) PROVE MTInv' /\ Kept
  BY <1>7, MTMakeProposalStep
<1>8. ASSUME NEW r \in Node, ResumeProposal(r) PROVE MTInv' /\ Kept
  BY <1>8, MTResumeProposalStep
<1>9. ASSUME NEW r \in Node, ProcessLocalTmo(r) PROVE MTInv' /\ Kept
  BY <1>9, MTLocalTmoStep DEF ProcessLocalTmo, Kept
<1>10. ASSUME NEW r \in Node, NEW tmo \in tmos, MTProcessRemoteTmo(r, tmo) PROVE MTInv' /\ Kept
  BY <1>10, MTRemoteTmoStep DEF MTProcessRemoteTmo, Kept
<1>11. CASE UNCHANGED vars
  BY <1>11, MTStutterStep DEF vars, Kept
<1>12. CASE MTNext
  BY <1>12, <1>1, <1>2, <1>3, <1>4, <1>5, <1>6, <1>7, <1>8, <1>9, <1>10 DEF MTNext, MTStep
<1> QED BY <1>11, <1>12

\* Every behaviour of the variant keeps the invariant: the steps of the three
\* loops and of the timer, in any interleaving (mthotstuff.go).
THEOREM MTInductive == MTSpec => []MTInv
<1>1. MTInit => MTInv
  BY MTInitGood
<1>2. MTInv /\ [MTNext]_vars => MTInv'
  BY MTNextGood
<1> QED BY <1>1, <1>2, PTL DEF MTSpec

-----------------------------------------------------------------------------
(* What it implies *)

\* Both locks are certified and the second is older, whether the main loop or the
\* collector moved them, and in whatever order certificates come (mthotstuff.go
\* updatePreferredSeq).
THEOREM TwoLocksOrdered == MTSpec => []LocksOrdered
<1>1. MTInv => LocksOrdered
  BY MTStartsGood DEF LocksOrdered, MTGood, GoodLocks
<1> QED BY <1>1, MTInductive, PTL

\* The last commit rests on two quorums (mthotstuff.go commitRule).
THEOREM MTCommitsBacked == MTSpec => []MTCommitBacked
<1>1. MTInv => MTCommitBacked
  BY MTStartsGood DEF MTCommitBacked, MTGood, GoodLocks
<1> QED BY <1>1, MTInductive, PTL

\* The two TCs held are those of one timeout, although processTC does not set
\* them itself (mthotstuff.go updateHighTC, ProcessRemoteTmo).
THEOREM MTTimeoutPairs == MTSpec => []TCPair
<1>1. ASSUME MTInv PROVE TCPair
  <2>1. ASSUME NEW r \in Node
        PROVE  PairOfTCs(st[r].secHighTC, st[r].highTC)
    BY <1>1, MTStartsGood, CoreOf DEF MTGood, GoodReplica, Sound
  <2> QED BY <2>1 DEF TCPair, PairOfTCs
<1> QED BY <1>1, MTInductive, PTL

\* Every certificate that is held, proposed with or reported rests on the votes
\* of a supermajority (quorum.go Add, mthotstuff.go processCertificate).
THEOREM MTCertificatesBacked == MTSpec => []QCBacked
<1>1. ASSUME MTInv PROVE QCBacked
  <2>1. ASSUME NEW r \in Node, NEW qc \in QCsOf(st[r]) PROVE ValidQC(qc)
    <3>1. PICK c : c = Core(st[r])
      OBVIOUS
    <3>2. GoodReplica(r, c) /\ QCsOf(c) = QCsOf(st[r])
      BY <1>1, <3>1, MTStartsGood, CoreOf DEF MTGood, QCsOf
    <3> QED BY <2>1, <3>2 DEF QCsOf, GoodReplica, Sound, ValidQCs, GoodQueue, GoodBlock
  <2>2. ASSUME NEW v \in Proposed PROVE ValidQC(block[v].qc)
    BY <1>1 DEF MTInv, GoodBlocks, GoodBlock
  <2>3. ASSUME NEW tmo \in tmos PROVE ValidQC(tmo.highQC)
    BY <1>1 DEF MTInv, GoodTmos, GoodTmo
  <2> QED BY <2>1, <2>2, <2>3 DEF QCBacked
<1> QED BY <1>1, MTInductive, PTL

\* highQC and secHighQC stay ordered and behind the view (updateHighQC).
THEOREM MTCertificatesOrdered == MTSpec => []QCOrder
<1>1. ASSUME MTInv PROVE QCOrder
  <2>1. ASSUME NEW r \in Node
        PROVE  OrderedQCs(st[r].highQC, st[r].secHighQC, st[r].curView)
    BY <1>1, MTStartsGood, CoreOf DEF MTGood, GoodReplica
  <2> QED BY <2>1 DEF QCOrder, OrderedQCs
<1> QED BY <1>1, MTInductive, PTL

\* No leader makes two proposals for one view (AdvanceView, MakeProposal).
THEOREM MTNoTwoProposals == MTSpec => NoEquivocation
<1>1. MTInv /\ [MTNext]_vars => [\A v \in View : block[v] # NoBlock => block'[v] = block[v]]_vars
  BY MTNextGood DEF Kept
<1> QED BY <1>1, MTInductive, PTL DEF MTSpec, NoEquivocation
=============================================================================
