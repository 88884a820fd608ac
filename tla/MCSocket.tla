------------------------------ MODULE MCSocket ------------------------------
(* Small instances of Socket. *)
EXTENDS Socket, TLC

CONSTANTS n1, n2, n3

ThreeNodes == {n1, n2, n3}
TwoGoroutines == {"main", "timer"}

Sends(main1, timer1, main2) ==
  (n1 :> (("main" :> main1) @@ ("timer" :> timer1)))
    @@ (n2 :> (("main" :> main2) @@ ("timer" :> <<>>)))
    @@ (n3 :> (("main" :> <<>>) @@ ("timer" :> <<>>)))

\* One goroutine of n1 sends three messages; two send two each; n1 sends and
\* broadcasts and n2 answers.
AllScenarios ==
  {[script |-> Sends(<<{n2}, {n2}, {n2}>>, <<>>, <<>>),
    faults |-> {"crash", "drop", "halt", "reset"}],
   [script |-> Sends(<<{n2}, {n2}>>, <<{n2}, {n2}>>, <<>>), faults |-> {}],
   [script |-> Sends(<<{n2, n3}, {n2}>>, <<>>, <<{n1}>>),
    faults |-> {"drop", "flaky", "slow"}]}
=============================================================================
