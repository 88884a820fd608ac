----------------------------- MODULE MCConsensus -----------------------------
(* Small instances of Consensus and of the protocols it extends. *)
EXTENDS Consensus

CONSTANTS n1, n2, n3, n4

OneNode == {n1}
TwoNodes == {n1, n2}
ThreeNodes == {n1, n2, n3}
FourNodes == {n1, n2, n3, n4}

\* election/rotation.go: the last node leads the views up to 3; from then on the
\* leader of view v is SHA-1(v + 1) modulo the number of nodes.  These are the
\* leaders of the views 4 to 23 among two and three nodes.
Rotation2(v) == IF v <= 3 THEN n2 ELSE
  <<n1, n1, n2, n2, n1, n2, n1, n1, n1, n2, n1, n2, n2, n2, n2, n2, n2, n2, n2, n1>>[v - 3]
Rotation3(v) == IF v <= 3 THEN n3 ELSE
  <<n3, n3, n1, n1, n1, n3, n2, n1, n2, n3, n1, n1, n1, n1, n2, n2, n2, n2, n3, n3>>[v - 3]

\* election/static.go: one leader for all views.
Static1(v) == n1
Static2(v) == n2
Static4(v) == n4
==============================================================================
