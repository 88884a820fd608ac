------------------------------- MODULE Socket -------------------------------
(***************************************************************************)
(* How messages travel between nodes: socket/socket.go (sending, receiving *)
(* and the injected faults) on top of transport/transport.go (one          *)
(* connection per dialled transport) and utils.Retry.                      *)
(*                                                                         *)
(* Several goroutines of a node call Send and Broadcast at the same time:  *)
(* the event loops and the timer.  A message is the triple of its sender,  *)
(* its goroutine and its number; script says to whom each one goes.        *)
(***************************************************************************)
EXTENDS Integers, Sequences, FiniteSets, SequencesExt

CONSTANTS
  Node,         \* the nodes with an address
  Goroutine,    \* the goroutines of a node that send
  Scenarios,    \* what there may be to send, and which faults may happen
  Attempts,     \* how often a peer is dialled
  Cap,          \* buffer of a transport's channels
  MaxFaults,    \* bound: injected faults
  MaxResets     \* bound: connections that break

ASSUME ScenarioShape ==
  \A c \in Scenarios :
    /\ c.script \in [Node -> [Goroutine -> Seq(SUBSET Node)]]
    /\ \A n \in Node, g \in Goroutine : \A k \in DOMAIN c.script[n][g] : n \notin c.script[n][g][k]
    /\ c.faults \subseteq {"crash", "drop", "slow", "flaky", "halt", "reset"}
ASSUME BoundsNat == {MaxFaults, MaxResets} \subseteq Nat /\ {Attempts, Cap} \subseteq Nat \ {0}

VARIABLES
  script,       \* script[n][g][k]: the receivers of the k-th message of g; never changes
  faults,       \* the kinds of fault that may happen; never changes
  listening,    \* the nodes whose socket exists
  panicked,     \* the nodes that gave up on a peer
  nodes,        \* nodes[n][m]: the transport from n to m (0: none)
  trans,        \* the dialled transports: owner, peer, send channel, connection
  inbox,        \* inbox[n]: the recv channel of the listener of n
  sender,       \* sender[n][g]: where goroutine g is in Send
  delayed,      \* messages that wait for the timer of a slow peer
  fault,        \* fault[n]: the <<kind, peer>> that are switched on at n
  timers,       \* pending timers: node, kind, peer and a number of their own
  injected, resets,
  sent, received \* histories: what was put on a transport; what Recv returned

scenario == <<script, faults>>

vars == <<script, faults, listening, panicked, nodes, trans, inbox, sender, delayed, fault,
          timers, injected, resets, sent, received>>

netVars == <<nodes, trans, inbox, sender, delayed, sent, received>>
faultVars == <<fault, timers, injected>>

\* The messages of the scenarios.
Message ==
  UNION {{<<n, g, k>> : k \in DOMAIN c.script[n][g]} :
           c \in Scenarios, n \in Node, g \in Goroutine}

-----------------------------------------------------------------------------
(* Sending.  A goroutine is between two messages ("idle"), or at the dial,   *)
(* the store or the put of Send.                                             *)

Receivers(n, g, k) == IF k \in DOMAIN script[n][g] THEN script[n][g][k] ELSE {}

Idle(n, g, k) == [pc |-> "idle", k |-> k, left |-> Receivers(n, g, k), to |-> n, via |-> 0, tries |-> 0]

\* Send has returned: Broadcast goes on with the next peer, and the goroutine
\* with its next message after the last one.
returned(n, g, to) ==
  LET s == sender[n][g]
      left == s.left \ {to}
  IN  IF left = {} THEN Idle(n, g, s.k + 1) ELSE [Idle(n, g, s.k) EXCEPT !.left = left]

Running(n) == n \in listening /\ n \notin panicked

\* The checks of crash, drop and flaky, which may end the call.
suppressed(n, to) == <<"crash", n>> \in fault[n] \/ <<"drop", to>> \in fault[n]

SuppressSend(n, g, to) ==
  /\ Running(n)
  /\ sender[n][g].pc = "idle" /\ to \in sender[n][g].left
  /\ suppressed(n, to) \/ <<"flaky", to>> \in fault[n]
  /\ sender' = [sender EXCEPT ![n][g] = returned(n, g, to)]
  /\ UNCHANGED <<scenario, listening, panicked, nodes, trans, inbox, delayed, sent, received, resets>>
  /\ UNCHANGED faultVars

\* The lookup of the transport, under the read lock.
Lookup(n, g, to) ==
  /\ Running(n)
  /\ sender[n][g].pc = "idle" /\ to \in sender[n][g].left
  /\ ~suppressed(n, to)
  /\ sender' = [sender EXCEPT ![n][g].to = to, ![n][g].via = nodes[n][to],
                              ![n][g].pc = IF nodes[n][to] = 0 THEN "dial" ELSE "put"]
  /\ UNCHANGED <<scenario, listening, panicked, nodes, trans, inbox, delayed, sent, received, resets>>
  /\ UNCHANGED faultVars

\* Mutant: one attempt more than asked for.
lastTryLate(tries) == tries >= Attempts

\* Retry gives up after this many failed calls.
lastTry(tries) == tries >= Attempts - 1

\* One attempt of Retry: a new connection to the listener of the peer, or an
\* error when there is none, not yet or no longer.
Dial(n, g) ==
  LET s == sender[n][g]
  IN  /\ Running(n)
      /\ s.pc = "dial"
      /\ IF Running(s.to)
         THEN /\ trans' = Append(trans, [from |-> n, to |-> s.to, queue |-> <<>>, up |-> TRUE])
              /\ sender' = [sender EXCEPT ![n][g].pc = "store", ![n][g].via = Len(trans) + 1]
              /\ UNCHANGED panicked
         ELSE /\ panicked' = IF lastTry(s.tries) THEN panicked \cup {n} ELSE panicked
              /\ sender' = [sender EXCEPT ![n][g].tries = @ + 1]
              /\ UNCHANGED trans
      /\ UNCHANGED <<scenario, listening, nodes, inbox, delayed, sent, received, resets>>
      /\ UNCHANGED faultVars

\* The last goroutine to store decides which transport later calls find.
stored(n, s) == [nodes EXCEPT ![n][s.to] = s.via]

Store(n, g) ==
  /\ Running(n)
  /\ sender[n][g].pc = "store"
  /\ nodes' = stored(n, sender[n][g])
  /\ sender' = [sender EXCEPT ![n][g].pc = "put"]
  /\ UNCHANGED <<scenario, listening, panicked, trans, inbox, delayed, sent, received, resets>>
  /\ UNCHANGED faultVars

\* Mutant: the newest message overtakes the ones in the channel.
enqueueFront(t, msg) == [trans EXCEPT ![t].queue = <<msg>> \o @]

\* transport.Send: the channel of the transport has room.
enqueue(t, msg) == [trans EXCEPT ![t].queue = Append(@, msg)]

room(t) == Len(trans[t].queue) < Cap

\* Mutant: a slow peer's message is sent at once as well (the early return is missing).
PutBoth(n, g) ==
  LET s == sender[n][g]
      msg == <<n, g, s.k>>
  IN  /\ Running(n)
      /\ s.pc = "put"
      /\ delayed' = IF <<"slow", s.to>> \in fault[n]
                    THEN delayed \cup {[via |-> s.via, msg |-> msg]} ELSE delayed
      /\ room(s.via)
      /\ trans' = enqueue(s.via, msg)
      /\ sender' = [sender EXCEPT ![n][g] = returned(n, g, s.to)]
      /\ sent' = [sent EXCEPT ![n][s.to] = Append(@, msg)]
      /\ UNCHANGED <<scenario, listening, panicked, nodes, inbox, received, resets>>
      /\ UNCHANGED faultVars

\* The message goes to the transport; for a slow peer another goroutine puts
\* it there later.
Put(n, g) ==
  LET s == sender[n][g]
      msg == <<n, g, s.k>>
  IN  /\ Running(n)
      /\ s.pc = "put"
      /\ IF <<"slow", s.to>> \in fault[n]
         THEN /\ delayed' = delayed \cup {[via |-> s.via, msg |-> msg]}
              /\ UNCHANGED trans
         ELSE /\ room(s.via)
              /\ trans' = enqueue(s.via, msg)
              /\ UNCHANGED delayed
      /\ sender' = [sender EXCEPT ![n][g] = returned(n, g, s.to)]
      /\ sent' = [sent EXCEPT ![n][s.to] = Append(@, msg)]
      /\ UNCHANGED <<scenario, listening, panicked, nodes, inbox, received, resets>>
      /\ UNCHANGED faultVars

PutDelayed(d) ==
  /\ Running(trans[d.via].from)
  /\ room(d.via)
  /\ trans' = enqueue(d.via, d.msg)
  /\ delayed' = delayed \ {d}
  /\ UNCHANGED <<scenario, listening, panicked, nodes, inbox, sender, sent, received, resets>>
  /\ UNCHANGED faultVars

-----------------------------------------------------------------------------
(* Transport and receiving.  The goroutine of Dial encodes what is in the    *)
(* send channel, the listener's goroutine of the connection decodes it into  *)
(* the recv channel that all connections share.  Nobody dials again when a   *)
(* connection breaks: encoding fails from then on, message by message.       *)

Transmit(t) ==
  LET c == trans[t]
  IN  /\ c.queue # <<>>
      /\ Running(c.from)
      /\ trans' = [trans EXCEPT ![t].queue = Tail(@)]
      /\ IF c.up /\ c.to \notin panicked
         THEN /\ Len(inbox[c.to]) < Cap
              /\ inbox' = [inbox EXCEPT ![c.to] = Append(@, Head(c.queue))]
         ELSE UNCHANGED inbox
      /\ UNCHANGED <<scenario, listening, panicked, nodes, sender, delayed, sent, received, resets>>
      /\ UNCHANGED faultVars

\* The network breaks a connection.
Reset(t) ==
  /\ "reset" \in faults /\ resets < MaxResets
  /\ trans[t].up
  /\ resets' = resets + 1
  /\ trans' = [trans EXCEPT ![t].up = FALSE]
  /\ UNCHANGED <<scenario, listening, panicked, nodes, inbox, sender, delayed, sent, received>>
  /\ UNCHANGED faultVars

\* Mutant: only a crashed node receives.
discardsUp(n) == <<"crash", n>> \notin fault[n]

\* A crashed node discards what arrives.
discards(n) == <<"crash", n>> \in fault[n]

Recv(n) ==
  LET msg == Head(inbox[n])
  IN  /\ Running(n)
      /\ inbox[n] # <<>>
      /\ inbox' = [inbox EXCEPT ![n] = Tail(@)]
      /\ received' = IF discards(n) THEN received
                     ELSE [received EXCEPT ![msg[1]][n] = Append(@, msg)]
      /\ UNCHANGED <<scenario, listening, panicked, nodes, trans, sender, delayed, sent, resets>>
      /\ UNCHANGED faultVars

\* NewSocket: the node listens.
NewSocket(n) ==
  /\ n \notin listening
  /\ listening' = listening \cup {n}
  /\ UNCHANGED <<scenario, panicked, resets>>
  /\ UNCHANGED netVars /\ UNCHANGED faultVars

-----------------------------------------------------------------------------
(* Fault injection.  Every call switches the fault on and starts a timer of  *)
(* its own that switches it off.                                             *)

peers(n, kind) == IF kind = "crash" THEN {n} ELSE Node \ {n}

\* Drop, Slow, Flaky and Crash with a positive time.
Inject(n, kind, to) ==
  /\ n \in listening /\ injected < MaxFaults
  /\ injected' = injected + 1
  /\ fault' = [fault EXCEPT ![n] = @ \cup {<<kind, to>>}]
  /\ timers' = timers \cup {[node |-> n, kind |-> kind, to |-> to, id |-> injected]}
  /\ UNCHANGED <<scenario, listening, panicked, resets>> /\ UNCHANGED netVars

\* Crash with time 0: no timer ends it.
CrashForever(n) ==
  /\ n \in listening /\ injected < MaxFaults
  /\ injected' = injected + 1
  /\ fault' = [fault EXCEPT ![n] = @ \cup {<<"crash", n>>}]
  /\ UNCHANGED <<scenario, listening, panicked, timers, resets>> /\ UNCHANGED netVars

\* The flag goes off whatever other timer still counts on it.
expired(timer) == [fault EXCEPT ![timer.node] = @ \ {<<timer.kind, timer.to>>}]

Expire(timer) ==
  /\ fault' = expired(timer)
  /\ timers' = timers \ {timer}
  /\ UNCHANGED <<scenario, listening, panicked, injected, resets>> /\ UNCHANGED netVars

-----------------------------------------------------------------------------

Init ==
  /\ \E c \in Scenarios : script = c.script /\ faults = c.faults
  /\ listening = {} /\ panicked = {}
  /\ nodes = [n \in Node |-> [m \in Node |-> 0]]
  /\ trans = <<>>
  /\ inbox = [n \in Node |-> <<>>]
  /\ sender = [n \in Node |-> [g \in Goroutine |-> Idle(n, g, 1)]]
  /\ delayed = {}
  /\ fault = [n \in Node |-> {}] /\ timers = {}
  /\ injected = 0 /\ resets = 0
  /\ sent = [n \in Node |-> [m \in Node |-> <<>>]]
  /\ received = [n \in Node |-> [m \in Node |-> <<>>]]

Sending(n, g) ==
  \/ \E to \in Node : SuppressSend(n, g, to) \/ Lookup(n, g, to)
  \/ Dial(n, g)
  \/ Store(n, g)
  \/ Put(n, g)

Next ==
  \/ \E n \in Node :
       \/ NewSocket(n)
       \/ Recv(n)
       \/ \E g \in Goroutine : Sending(n, g)
       \/ "halt" \in faults /\ CrashForever(n)
       \/ \E kind \in faults \ {"halt", "reset"} : \E to \in peers(n, kind) : Inject(n, kind, to)
  \/ \E d \in delayed : PutDelayed(d)
  \/ \E t \in DOMAIN trans : Transmit(t) \/ Reset(t)
  \/ \E timer \in timers : Expire(timer)

\* Every goroutine of a running node goes on, connections carry what is sent,
\* timers fire and every node is started.
Fairness ==
  /\ \A n \in Node :
       /\ WF_vars(NewSocket(n))
       /\ WF_vars(Recv(n))
       /\ \A g \in Goroutine : WF_vars(Sending(n, g))
  /\ WF_vars(\E d \in delayed : PutDelayed(d))
  /\ WF_vars(\E t \in DOMAIN trans : Transmit(t))
  /\ WF_vars(\E timer \in timers : Expire(timer))

Spec == Init /\ [][Next]_vars

FairSpec == Spec /\ Fairness

-----------------------------------------------------------------------------
(* Properties *)

\* Message x was sent before y, if one goroutine sent both.
Before(x, y) == x[2] = y[2] => x[3] < y[3]

Sorted(s) == \A i, j \in DOMAIN s : i < j => Before(s[i], s[j])

\* The connections there are from m to n.
dialled(m, n) == {t \in DOMAIN trans : trans[t].from = m /\ trans[t].to = n}

\* The shape of the state: the map holds transports of the right link, a dial
\* is tried at most Attempts times and no channel exceeds its buffer
\* (socket.go Send, utils.go Retry).
TypeOK ==
  /\ listening \subseteq Node /\ panicked \subseteq listening
  /\ \A n, m \in Node : nodes[n][m] # 0 =>
       trans[nodes[n][m]].from = n /\ trans[nodes[n][m]].to = m
  /\ \A n \in Node, g \in Goroutine :
       /\ sender[n][g].tries <= Attempts
       /\ sender[n][g].pc = "put" => sender[n][g].via \in DOMAIN trans
  /\ \A t \in DOMAIN trans : Len(trans[t].queue) <= Cap
  /\ \A n \in Node : Len(inbox[n]) <= Cap

\* No message is received twice, and none that was not sent to the node:
\* whatever dials, stores and delayed puts of several goroutines interleave.
AtMostOnce ==
  \A m, n \in Node :
    IsInjective(received[m][n]) /\ ToSet(received[m][n]) \subseteq ToSet(sent[m][n])

\* A goroutine's messages to a peer arrive in the order of its calls unless a
\* peer is slow or the link was dialled twice: then the later store moves the goroutine to
\* another connection while its earlier messages are still in the first.
OrderedUnlessRedialled ==
  \A m, n \in Node :
    "slow" \notin faults /\ Cardinality(dialled(m, n)) <= 1
      => Sorted(received[m][n])

\* Without faults, every message that Send has put on a transport is received,
\* unless one of the two nodes gives up on a peer: a second dial never strands
\* what is in the first connection (socket.go Send, transport.go Dial).
EventuallyReceived ==
  <>[](faults = {} =>
         \A m, n \in Node :
           {m, n} \cap panicked # {} \/ ToSet(sent[m][n]) = ToSet(received[m][n]))

\* At most one goroutine of a node sends, and no peer is slow.
InOrder ==
  "slow" \notin faults
    /\ \A n \in Node : \A g, h \in Goroutine : script[n][g] # <<>> /\ script[n][h] # <<>> => g = h

\* The messages of m in a sequence (a function, for the sake of the proofs).
MessagesOf(s, m) ==
  LET upTo[i \in 0..Len(s)] ==
        IF i = 0 THEN <<>>
        ELSE IF s[i][1] = m THEN Append(upTo[i - 1], s[i]) ELSE upTo[i - 1]
  IN  upTo[Len(s)]

\* What one link looks like from outside: the messages in its transport and
\* those already in the receiver's channel.
OnLink(m, n) ==
  MessagesOf(inbox[n], m) \o (IF nodes[m][n] = 0 THEN <<>> ELSE trans[nodes[m][n]].queue)

LinkQueue == [m \in Node |-> [n \in Node |-> IF InOrder THEN OnLink(m, n) ELSE <<>>]]

LinkReceived ==
  IF InOrder THEN received ELSE [m \in Node |-> [n \in Node |-> <<>>]]

L == INSTANCE Link WITH queue <- LinkQueue, received <- LinkReceived

\* With one sending goroutine per node and no slow peer, the sockets implement
\* lossy FIFO links, through dials, retries, broken connections and faults.
\* (Nothing is claimed of the other scenarios: InOrder never changes.)
LinkSpec == L!Spec
=============================================================================
