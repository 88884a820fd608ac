------------------------------- MODULE Ledger -------------------------------
(***************************************************************************)
(* What the protocol promises to the users of a replica: there is one log  *)
(* of blocks, it only grows at its end, and every replica delivers a       *)
(* growing prefix of it.                                                   *)
(***************************************************************************)
EXTENDS Naturals, Sequences

CONSTANTS Node, Block

VARIABLES
  log,          \* the blocks any replica has delivered
  delivered     \* delivered[r]: what replica r has delivered

vars == <<log, delivered>>

Prefix(s, t) == Len(s) <= Len(t) /\ s = SubSeq(t, 1, Len(s))

Init == log = <<>> /\ delivered = [r \in Node |-> <<>>]

\* Replica r delivers one or more blocks: some of the log it has not delivered
\* yet, or all of the log and then new ones.
Deliver(r, next) ==
  /\ next # <<>>
  /\ delivered' = [delivered EXCEPT ![r] = @ \o next]
  /\ \/ Prefix(delivered'[r], log) /\ log' = log
     \/ Prefix(log, delivered'[r]) /\ log' = delivered'[r]

\* The blocks delivered by r in this step.
Delivered(r) == SubSeq(delivered'[r], Len(delivered[r]) + 1, Len(delivered'[r]))

Next == \E r \in Node : Delivered(r) \in Seq(Block) /\ Deliver(r, Delivered(r))

Spec == Init /\ [][Next]_vars
=============================================================================
