-------------------------------- MODULE Link --------------------------------
(***************************************************************************)
(* What a node may rely on when it sends messages to another one, as long  *)
(* as one goroutine of it sends and none of the messages is delayed: they  *)
(* arrive at most once and in the order in which they were sent, and any   *)
(* of them may be lost, at any time until the receiver has seen it.        *)
(***************************************************************************)
EXTENDS Naturals, Sequences, SequencesExt

CONSTANTS Node, Message

VARIABLES
  queue,        \* queue[m][n]: messages on their way from m to n
  received      \* received[m][n]: messages of m that n has received

vars == <<queue, received>>

Init ==
  /\ queue = [m \in Node |-> [n \in Node |-> <<>>]]
  /\ received = [m \in Node |-> [n \in Node |-> <<>>]]

\* The messages on their way to n after one of them is lost.
Without(q, i) == RemoveAt(q, i)

Send(m, n, msg) ==
  /\ queue' = [queue EXCEPT ![m][n] = Append(@, msg)]
  /\ UNCHANGED received

Lose(m, n) ==
  /\ \E i \in DOMAIN queue[m][n] : queue' = [queue EXCEPT ![m][n] = Without(@, i)]
  /\ UNCHANGED received

Receive(m, n) ==
  /\ queue[m][n] # <<>>
  /\ queue' = [queue EXCEPT ![m][n] = Tail(@)]
  /\ received' = [received EXCEPT ![m][n] = Append(@, Head(queue[m][n]))]

Next ==
  \E m, n \in Node :
    \/ \E msg \in Message : Send(m, n, msg)
    \/ Lose(m, n)
    \/ Receive(m, n)

Spec == Init /\ [][Next]_vars
=============================================================================
