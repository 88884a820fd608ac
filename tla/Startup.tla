------------------------------ MODULE Startup ------------------------------
(***************************************************************************)
(* How one replica starts: the goroutines of node/node.go that take        *)
(* messages from the socket and call the handlers, the handlers and the    *)
(* start of replica/replica.go, and the signal of mempool/producer.go.     *)
(* Whoever first sees that the replica is not started starts it; the main  *)
(* goroutine waits for that.  Consensus, which the event loops call once   *)
(* they run, is abstracted to: a block may advance the view.               *)
(***************************************************************************)
EXTENDS Integers, Sequences, FiniteSets, SequencesExt

CONSTANTS
  Traffic,      \* the sequences of message kinds that may arrive
  ChanCap,      \* ChanBufferSize
  EventCap,     \* buffer of eventChan (8)
  DualCap,      \* buffer of dualEventChan (2N)
  MaxView       \* bound of the views

ASSUME Kinds == Traffic \subseteq Seq({"block", "vote", "tmo", "tx"})
ASSUME Caps == {ChanCap, EventCap, DualCap} \subseteq Nat \ {0} /\ MaxView \in Nat

VARIABLES
  incoming,     \* the kinds of the messages that arrive, in order; never changes
  isLeader,     \* the replica leads view 1; never changes
  isByz,        \* it is Byzantine; never changes
  silent,       \* its strategy is "silence"; never changes
  arrived,      \* how many messages recv has taken from the socket
  MessageChan, TxChan, eventChan, dualEventChan,
  pc,           \* where the goroutines handle, txn and activate are
  work,         \* the message each of them is at (0: none)
  activated,    \* activateSignal is closed
  isStarted,    \* the flag startSignal tests and sets
  running,      \* Start has received the start signal
  curView,
  starts,       \* history: the starting votes
  handled       \* history: messages whose handler has returned

roleVars == <<incoming, isLeader, isByz, silent>>

vars == <<incoming, isLeader, isByz, silent, arrived, MessageChan, TxChan, eventChan,
          dualEventChan, pc, work, activated, isStarted, running, curView, starts, handled>>

chans == <<MessageChan, TxChan, eventChan, dualEventChan>>

Goroutine == {"handle", "txn", "activate"}

Kind(i) == incoming[i]

\* The starting vote in dualEventChan; other entries are message numbers.
StartingVote == 0

-----------------------------------------------------------------------------
(* node.go *)

toMessageChan(i) == Kind(i) # "tx"

\* recv: transactions have a channel of their own.
Recv ==
  LET i == arrived + 1
  IN  /\ i \in DOMAIN incoming /\ ~silent
      /\ arrived' = i
      /\ IF Kind(i) = "tx"
         THEN Len(TxChan) < ChanCap /\ TxChan' = Append(TxChan, i)
         ELSE UNCHANGED TxChan
      /\ IF toMessageChan(i)
         THEN Len(MessageChan) < ChanCap /\ MessageChan' = Append(MessageChan, i)
         ELSE UNCHANGED MessageChan
      /\ UNCHANGED <<roleVars, eventChan, dualEventChan, pc, work, activated, isStarted, running,
                     curView, starts, handled>>

\* A silent node takes messages and ignores them.
RecvSilent ==
  /\ silent /\ arrived < Len(incoming)
  /\ arrived' = arrived + 1
  /\ UNCHANGED <<roleVars, pc, work, activated, isStarted, running, curView, starts, handled>>
  /\ UNCHANGED chans

\* Seq of a vote is its view + 1; the votes and timeouts that arrive are for view 1.
stale(i) == \/ Kind(i) = "vote" /\ 2 < curView
            \/ Kind(i) = "tmo" /\ 1 < curView

\* handle calls HandleBlock, HandleVote or HandleTmo: a stale message is
\* dropped, and a timeout does not start the replica.
handle ==
  LET i == Head(MessageChan)
  IN  /\ pc["handle"] = "idle" /\ MessageChan # <<>>
      /\ MessageChan' = Tail(MessageChan)
      /\ IF stale(i)
         THEN /\ handled' = handled \cup {i}
              /\ UNCHANGED <<pc, work>>
         ELSE /\ pc' = [pc EXCEPT !["handle"] = IF Kind(i) = "tmo" THEN "put" ELSE "test"]
              /\ work' = [work EXCEPT !["handle"] = i]
              /\ UNCHANGED handled
      /\ UNCHANGED <<roleVars, arrived, TxChan, eventChan, dualEventChan, activated, isStarted,
                     running, curView, starts>>

\* txn calls handleTxn, which adds the transaction to the pool first (see Mempool).
txn ==
  /\ pc["txn"] = "idle" /\ TxChan # <<>>
  /\ TxChan' = Tail(TxChan)
  /\ pc' = [pc EXCEPT !["txn"] = "test"]
  /\ work' = [work EXCEPT !["txn"] = Head(TxChan)]
  /\ UNCHANGED <<roleVars, arrived, MessageChan, eventChan, dualEventChan, activated, isStarted,
                 running, curView, starts, handled>>

-----------------------------------------------------------------------------
(* The start signal *)

\* simulateTx closes the channel activate waits for; not at a Byzantine node.
SimulateTx ==
  /\ ~isByz /\ ~activated
  /\ activated' = TRUE
  /\ UNCHANGED <<roleVars, arrived, pc, work, isStarted, running, curView, starts, handled>>
  /\ UNCHANGED chans

Activate ==
  /\ activated /\ pc["activate"] = "idle"
  /\ pc' = [pc EXCEPT !["activate"] = "test"]
  /\ UNCHANGED <<roleVars, arrived, work, activated, isStarted, running, curView, starts, handled>>
  /\ UNCHANGED chans

\* What follows startSignal: activate and handleTxn test the view, the others
\* put their message into an event channel.
next(g) == IF g = "handle" THEN "put" ELSE "view"

\* Mutant: the test is the wrong way round.
mustBoostInverted == isStarted

mustBoost == ~isStarted

\* startSignal: the test ...
TestStarted(g) ==
  /\ pc[g] = "test"
  /\ pc' = [pc EXCEPT ![g] = IF mustBoost THEN "boost" ELSE next(g)]
  /\ UNCHANGED <<roleVars, arrived, work, activated, isStarted, running, curView, starts, handled>>
  /\ UNCHANGED chans

\* Mutant: the flag is set without the signal.
boostedQuietly(g) == next(g)

\* Where a goroutine is after it has set the flag.
boosted(g) == "signal"

\* ... the flag ...
StoreStarted(g) ==
  /\ pc[g] = "boost"
  /\ isStarted' = TRUE
  /\ pc' = [pc EXCEPT ![g] = boosted(g)]
  /\ UNCHANGED <<roleVars, arrived, work, activated, running, curView, starts, handled>>
  /\ UNCHANGED chans

\* ... and the signal: start has no buffer, and Start receives from it once.
Signal(g) ==
  /\ pc[g] = "signal" /\ ~running
  /\ running' = TRUE
  /\ pc' = [pc EXCEPT ![g] = next(g)]
  /\ UNCHANGED <<roleVars, arrived, work, activated, isStarted, curView, starts, handled>>
  /\ UNCHANGED chans

-----------------------------------------------------------------------------
(* After the signal *)

done(g) == IF g = "activate" THEN "done" ELSE "idle"

\* Mutant: the leader waits for view 1, which nobody else enters.
mayKickOffLate == curView = 1 /\ isLeader

\* The first leader kicks off the protocol.
mayKickOff == curView = 0 /\ isLeader

TestView(g) ==
  /\ pc[g] = "view"
  /\ IF mayKickOff
     THEN pc' = [pc EXCEPT ![g] = "kick"] /\ UNCHANGED handled
     ELSE /\ pc' = [pc EXCEPT ![g] = done(g)]
          /\ handled' = handled \cup ({work[g]} \ {0})
  /\ UNCHANGED <<roleVars, arrived, work, activated, isStarted, running, curView, starts>>
  /\ UNCHANGED chans

\* Mutant: view 1 is entered whatever the view is by then.
enteredAlways(view) == 1

\* pacemaker.AdvanceView(0, 0): a view that was left is not entered again.
entered(view) == IF view = 0 THEN 1 ELSE view

KickOff(g) ==
  /\ pc[g] = "kick"
  /\ curView' = entered(curView)
  /\ pc' = [pc EXCEPT ![g] = "vote"]
  /\ UNCHANGED <<roleVars, arrived, work, activated, isStarted, running, starts, handled>>
  /\ UNCHANGED chans

PutStartingVote(g) ==
  /\ pc[g] = "vote" /\ Len(dualEventChan) < DualCap
  /\ dualEventChan' = Append(dualEventChan, StartingVote)
  /\ starts' = starts + 1
  /\ pc' = [pc EXCEPT ![g] = done(g)]
  /\ handled' = handled \cup ({work[g]} \ {0})
  /\ UNCHANGED <<roleVars, arrived, MessageChan, TxChan, eventChan, work, activated, isStarted,
                 running, curView>>

\* HandleBlock, HandleVote and HandleTmo put the message into its event channel.
PutEvent ==
  LET i == work["handle"]
  IN  /\ pc["handle"] = "put"
      /\ \/ /\ Kind(i) = "vote" /\ Len(dualEventChan) < DualCap
            /\ dualEventChan' = Append(dualEventChan, i)
            /\ UNCHANGED eventChan
         \/ /\ Kind(i) # "vote" /\ Len(eventChan) < EventCap
            /\ eventChan' = Append(eventChan, i)
            /\ UNCHANGED dualEventChan
      /\ pc' = [pc EXCEPT !["handle"] = "idle"]
      /\ handled' = handled \cup {i}
      /\ UNCHANGED <<roleVars, arrived, MessageChan, TxChan, work, activated, isStarted, running,
                     curView, starts>>

\* The event loops of Start.
MainLoop ==
  /\ running /\ eventChan # <<>>
  /\ eventChan' = Tail(eventChan)
  /\ curView' \in {v \in {curView, curView + 1} :
                     v = curView \/ (Kind(Head(eventChan)) = "block" /\ v <= MaxView)}
  /\ UNCHANGED <<roleVars, arrived, MessageChan, TxChan, dualEventChan, pc, work, activated,
                 isStarted, running, starts, handled>>

VoteLoop ==
  /\ running /\ dualEventChan # <<>>
  /\ dualEventChan' = Tail(dualEventChan)
  /\ UNCHANGED <<roleVars, arrived, MessageChan, TxChan, eventChan, pc, work, activated,
                 isStarted, running, curView, starts, handled>>

-----------------------------------------------------------------------------

Init ==
  /\ incoming \in Traffic /\ isLeader \in BOOLEAN /\ isByz \in BOOLEAN
  /\ silent \in {FALSE, isByz}
  /\ arrived = 0
  /\ MessageChan = <<>> /\ TxChan = <<>> /\ eventChan = <<>> /\ dualEventChan = <<>>
  /\ pc = [g \in Goroutine |-> "idle"] /\ work = [g \in Goroutine |-> 0]
  /\ activated = FALSE /\ isStarted = FALSE /\ running = FALSE
  /\ curView = 0
  /\ starts = 0 /\ handled = {}

\* A step of startSignal or of what follows it, by goroutine g.
Starting(g) ==
  \/ TestStarted(g) \/ StoreStarted(g) \/ Signal(g)
  \/ TestView(g) \/ KickOff(g) \/ PutStartingVote(g)

Next ==
  \/ Recv \/ RecvSilent \/ handle \/ txn
  \/ SimulateTx \/ Activate
  \/ \E g \in Goroutine : Starting(g)
  \/ PutEvent
  \/ MainLoop \/ VoteLoop

\* The scheduler runs every goroutine that can go on, and messages arrive.
Fairness ==
  /\ WF_vars(Recv \/ RecvSilent) /\ WF_vars(handle \/ PutEvent) /\ WF_vars(txn)
  /\ WF_vars(SimulateTx) /\ WF_vars(Activate)
  /\ \A g \in Goroutine : WF_vars(Starting(g))
  /\ WF_vars(MainLoop) /\ WF_vars(VoteLoop)

Spec == Init /\ [][Next]_vars

FairSpec == Spec /\ Fairness

-----------------------------------------------------------------------------
(* Properties *)

\* A kick-off that comes late, after another goroutine's and after blocks that
\* have advanced the view, does not take the replica back (replica.go handleTxn
\* and activate test the view and then call AdvanceView).
ViewNeverFalls == [][curView' >= curView]_vars

\* A replica that is activated runs, whichever of its goroutines races for the start.
EventuallyRunning == activated ~> running

\* As long as nobody else proposes, the first leader kicks off, although one of
\* the two goroutines that would do it may wait for ever to signal the start a
\* second time.  (With a block a third goroutine may win, and both wait.)
EventuallyKickedOff ==
  (activated /\ isLeader /\ ToSet(incoming) \subseteq {"tx", "tmo"}) ~> starts > 0

Handled == \A i \in 1..arrived : i \in handled

\* The timeouts that arrive before anything else.
EarlyTimeouts == Cardinality({i \in DOMAIN incoming : \A j \in 1..i : Kind(j) = "tmo"})

\* Only handle starts the replica: it is Byzantine, and so not activated by
\* itself, and no client sends to it.
OneStarter == isByz /\ ~silent /\ "tx" \notin ToSet(incoming)

\* With one starter everything is handled as long as the timeouts that come first
\* fit into eventChan, which nobody reads before the start.  One more of them,
\* and handle waits for room in it instead of coming to the message that would
\* start the replica, which then never runs (replica.go:84 New and HandleTmo).
HandledByOneStarter ==
  /\ (OneStarter /\ EarlyTimeouts <= EventCap) ~> (arrived = Len(incoming) /\ Handled)
  /\ [](OneStarter /\ EarlyTimeouts > EventCap => ~running)

\* The most messages that may arrive.
MostMessages == CHOOSE k \in {Len(s) : s \in Traffic} : \A s \in Traffic : Len(s) <= k

\* node.go:141: every message that arrives is handled.
EveryMessageHandled ==
  \A i \in 1..MostMessages : (i <= arrived /\ ~silent) ~> (i \in handled)
=============================================================================
