----------------------------- MODULE MCMempool -----------------------------
(* Small instances of Mempool. *)
EXTENDS Mempool, TLC

CONSTANTS n1, n2

TwoNodes == {n1, n2}

\* simulateTx creates transactions; others arrive over the network (handleTxn).
Both == {"simulateTx", "handleTxn"}

Work(a, b, c) ==
  (n1 :> (("simulateTx" :> a) @@ ("handleTxn" :> b)))
    @@ (n2 :> (("simulateTx" :> c) @@ ("handleTxn" :> <<>>)))

\* One goroutine adds at each node; or two add at n1, and n2 is Byzantine.
OneOrTwoSources ==
  {[incoming |-> Work(<<1, 2>>, <<>>, <<3>>), byz |-> {}],
   [incoming |-> Work(<<1, 2>>, <<3>>, <<>>), byz |-> {n2}]}
=============================================================================
