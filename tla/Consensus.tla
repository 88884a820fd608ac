----------------------------- MODULE Consensus -----------------------------
(***************************************************************************)
(* The replicas of a system under either protocol.  NewReplica             *)
(* (replica.go) chooses between mhotstuff and mthotstuff by its argument   *)
(* alg, the same at every node of a system; the protocol shows in the      *)
(* fields of the replicas.                                                 *)
(***************************************************************************)
EXTENDS MTHotStuff

\* The switch over alg.
ChosenInit == Init \/ MTInit

\* The actions of MHotStuff that MTHotStuff replaces by its own.
MStep(r) ==
  \/ \E v \in View : ProcessBlock(r, v)
  \/ ProcessBufferedBlock(r)
  \/ ResumeBlock(r)
  \/ ReceiveSignal(r)

\* The actions of MTStep that are not those of MHotStuff require MT themselves.
ChosenStep(r) == (~ MT /\ MStep(r)) \/ MTStep(r)

ChosenNext ==
  \/ \E r \in Node : ~ MT /\ (MStep(r) \/ \E tmo \in tmos : ProcessRemoteTmo(r, tmo))
  \/ MTNext

\* A replica whose loops have work goes on working, and the network delivers
\* (TCP, without the faults a test may inject): weak fairness of ChosenStep(r),
\* less than fairness of every goroutine, which the Go scheduler gives.  It is
\* written out because TLC evaluates Busy(r) much faster than ENABLED.
ChosenFairness == \A r \in Node : []<>(~ Busy(r)) \/ []<><<ChosenStep(r)>>_vars

ChosenSpec == ChosenInit /\ [][ChosenNext]_vars

ChosenFairSpec == ChosenSpec /\ ChosenFairness
=============================================================================
