---------------------------- MODULE StartupProofs ----------------------------
(***************************************************************************)
(* What the start of a replica never does, whatever arrives, whoever leads *)
(* and whichever of the three goroutines comes first.                      *)
(***************************************************************************)
EXTENDS Startup, TLAPS

\* Where a goroutine can be.
Place == {"idle", "test", "boost", "signal", "view", "kick", "vote", "put", "done"}

\* The flag is set by a goroutine that then signals, and Start takes the first
\* signal.
SignalPending ==
  /\ isStarted /\ ~ running => \E g \in Goroutine : pc[g] = "signal"
  /\ running => isStarted

\* Nobody goes past startSignal before the flag is set.
AfterTheFlag ==
  \A g \in Goroutine : pc[g] \in {"signal", "view", "kick", "vote"} => isStarted

StartInv ==
  /\ pc \in [Goroutine -> Place]
  /\ isStarted \in BOOLEAN /\ running \in BOOLEAN
  /\ curView \in Nat
  /\ SignalPending
  /\ AfterTheFlag

\* The invariant holds when the replica is created.
LEMMA InitStart == Init => StartInv
<1> SUFFICES ASSUME Init PROVE StartInv
  OBVIOUS
<1>1. pc \in [Goroutine -> Place] /\ curView \in Nat
  BY DEF Init, Place
<1>2. isStarted \in BOOLEAN /\ running \in BOOLEAN
  BY Zenon DEF Init
<1>3. SignalPending /\ AfterTheFlag
  BY DEF Init, SignalPending, AfterTheFlag
<1> QED BY <1>1, <1>2, <1>3 DEF StartInv

\* Every step of every goroutine keeps it, and the view does not fall.
LEMMA StepStart == StartInv /\ [Next]_vars => StartInv' /\ [curView' >= curView]_vars
<1> SUFFICES ASSUME StartInv, [Next]_vars
             PROVE  StartInv' /\ curView' >= curView
  OBVIOUS
<1> USE DEF StartInv, Place, Goroutine, SignalPending, AfterTheFlag
<1>1. CASE Recv
  BY <1>1 DEF Recv
<1>2. CASE RecvSilent
  BY <1>2 DEF RecvSilent
<1>3. CASE handle
  BY <1>3 DEF handle
<1>4. CASE txn
  BY <1>4 DEF txn
<1>5. CASE SimulateTx
  BY <1>5 DEF SimulateTx
<1>6. CASE Activate
  BY <1>6 DEF Activate
<1>7. ASSUME NEW g \in Goroutine, TestStarted(g)
      PROVE  StartInv' /\ curView' >= curView
  BY <1>7 DEF TestStarted, mustBoost, next
<1>8. ASSUME NEW g \in Goroutine, StoreStarted(g)
      PROVE  StartInv' /\ curView' >= curView
  BY <1>8 DEF StoreStarted, boosted
<1>9. ASSUME NEW g \in Goroutine, Signal(g)
      PROVE  StartInv' /\ curView' >= curView
  BY <1>9 DEF Signal, next
<1>10. ASSUME NEW g \in Goroutine, TestView(g)
       PROVE  StartInv' /\ curView' >= curView
  BY <1>10 DEF TestView, done
<1>11. ASSUME NEW g \in Goroutine, KickOff(g)
       PROVE  StartInv' /\ curView' >= curView
  BY <1>11 DEF KickOff, entered
<1>12. ASSUME NEW g \in Goroutine, PutStartingVote(g)
       PROVE  StartInv' /\ curView' >= curView
  BY <1>12 DEF PutStartingVote, done
<1>13. CASE PutEvent
  BY <1>13 DEF PutEvent
<1>14. CASE MainLoop
  BY <1>14 DEF MainLoop
<1>15. CASE VoteLoop
  BY <1>15 DEF VoteLoop
<1>16. CASE UNCHANGED vars
  BY <1>16 DEF vars
<1> QED BY <1>1, <1>2, <1>3, <1>4, <1>5, <1>6, <1>7, <1>8, <1>9, <1>10, <1>11, <1>12, <1>13,
           <1>14, <1>15, <1>16 DEF Next, Starting

\* The view of a replica never falls, although a kick-off tests the view in one
\* step and enters view 1 in another (replica.go handleTxn, activate).
THEOREM ViewsGrow == Spec => ViewNeverFalls
<1>1. Spec => []StartInv
  BY InitStart, StepStart, PTL DEF Spec
<1>2. StartInv /\ [Next]_vars => [curView' >= curView]_vars
  BY StepStart
<1> QED BY <1>1, <1>2, PTL DEF Spec, ViewNeverFalls

\* The start is never lost: once the flag says that somebody starts the replica,
\* Start has the signal or somebody is about to send it (replica.go startSignal).
THEOREM StartNotLost == Spec => []SignalPending
<1>1. Spec => []StartInv
  BY InitStart, StepStart, PTL DEF Spec
<1>2. StartInv => SignalPending
  BY DEF StartInv
<1> QED BY <1>1, <1>2, PTL
==============================================================================
