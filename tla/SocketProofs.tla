---------------------------- MODULE SocketProofs ----------------------------
(***************************************************************************)
(* What the sockets guarantee for every number of nodes, goroutines and    *)
(* messages, every buffer size and whatever faults are injected: no        *)
(* message is received twice, on a link that was dialled once none         *)
(* overtakes another, and where one goroutine sends the sockets implement  *)
(* the links of Link.                                                      *)
(***************************************************************************)
EXTENDS Socket, SequenceLemmas, FiniteSetTheorems, TLAPS

-----------------------------------------------------------------------------
(* The invariant *)

Msg == Node \X Goroutine \X Nat

Transport == [from : Node, to : Node, queue : Seq(Msg), up : BOOLEAN]

SenderState ==
  [pc : {"idle", "dial", "store", "put"}, k : Nat, left : SUBSET Node, to : Node, via : Nat,
   tries : Nat]

Types ==
  /\ script \in [Node -> [Goroutine -> Seq(SUBSET Node)]]
  /\ listening \subseteq Node /\ panicked \subseteq listening
  /\ nodes \in [Node -> [Node -> Nat]]
  /\ trans \in Seq(Transport)
  /\ inbox \in [Node -> Seq(Msg)]
  /\ sender \in [Node -> [Goroutine -> SenderState]]
  /\ delayed \subseteq [via : Nat, msg : Msg]
  /\ sent \in [Node -> [Node -> Seq(Msg)]]
  /\ received \in [Node -> [Node -> Seq(Msg)]]

\* t is a transport from n to m.
Joins(t, n, m) == t \in DOMAIN trans /\ trans[t].from = n /\ trans[t].to = m

\* What the map, the goroutines and the delayed messages hold are transports of
\* the right link.
GoodMap == \A n, m \in Node : nodes[n][m] # 0 => Joins(nodes[n][m], n, m)

GoodSender(n, g) ==
  LET s == sender[n][g]
  IN  /\ s.pc # "idle" => s.to \in s.left
      /\ s.pc \in {"store", "put"} => Joins(s.via, n, s.to)
      /\ s.tries <= Attempts
      /\ n \notin panicked => s.tries < Attempts

GoodSenders == \A n \in Node, g \in Goroutine : GoodSender(n, g)

GoodDelayed == \A d \in delayed : d.via \in DOMAIN trans

Bounded ==
  /\ \A t \in DOMAIN trans : Len(trans[t].queue) <= Cap
  /\ \A n \in Node : Len(inbox[n]) <= Cap

Shape == Types /\ GoodMap /\ GoodSenders /\ GoodDelayed /\ Bounded

\* Goroutine g of m is past message k for n.
Past(m, n, g, k) ==
  LET s == sender[m][g]
  IN  k < s.k \/ (k = s.k /\ n \notin s.left)

\* What was sent is past, so that what is being sent is new.
SentPast ==
  \A m, n \in Node : \A x \in ToSet(sent[m][n]) : x[1] = m /\ Past(m, n, x[2], x[3])

\* The messages in transport t, in the channel of n, and received by n.
Queued(t) == ToSet(trans[t].queue)
Arrived(n) == ToSet(inbox[n])

\* Whatever is on its way was sent, by the node its transport starts from.
OriginTrans == \A t \in DOMAIN trans : Queued(t) \subseteq ToSet(sent[trans[t].from][trans[t].to])
OriginDelayed ==
  \A d \in delayed : d.msg \in ToSet(sent[trans[d.via].from][trans[d.via].to])
OriginInbox == \A n \in Node : \A x \in Arrived(n) : x \in ToSet(sent[x[1]][n])
OriginReceived == \A m, n \in Node : ToSet(received[m][n]) \subseteq ToSet(sent[m][n])

Origin == OriginTrans /\ OriginDelayed /\ OriginInbox /\ OriginReceived

\* A message to a node is in one place only.
OnceQueued ==
  /\ \A t \in DOMAIN trans : IsInjective(trans[t].queue)
  /\ \A t, u \in DOMAIN trans :
       t # u /\ trans[t].to = trans[u].to => Queued(t) \cap Queued(u) = {}

OnceDelayed ==
  \A d \in delayed :
    LET n == trans[d.via].to
    IN  /\ \A e \in delayed : trans[e.via].to = n /\ e.msg = d.msg => e = d
        /\ \A t \in DOMAIN trans : trans[t].to = n => d.msg \notin Queued(t)
        /\ d.msg \notin Arrived(n)

OnceArrived ==
  \A n \in Node :
    /\ IsInjective(inbox[n])
    /\ \A t \in DOMAIN trans : trans[t].to = n => Queued(t) \cap Arrived(n) = {}

OnceReceived ==
  \A m, n \in Node :
    /\ IsInjective(received[m][n])
    /\ \A x \in ToSet(received[m][n]) :
         /\ x \notin Arrived(n)
         /\ \A t \in DOMAIN trans : trans[t].to = n => x \notin Queued(t)
         /\ \A d \in delayed : trans[d.via].to = n => x # d.msg

Once == OnceQueued /\ OnceDelayed /\ OnceArrived /\ OnceReceived

DeliveryInv == Shape /\ SentPast /\ Origin /\ Once

\* No peer is slow unless the scenario says so.
NoneSlow ==
  /\ DOMAIN fault = Node
  /\ \A n \in Node : \A p \in fault[n] : p[1] = "slow" => "slow" \in faults
  /\ "slow" \notin faults => delayed = {}

\* The link from m to n was dialled at most once.
Single(m, n) == \A t, u \in DOMAIN trans : Joins(t, m, n) /\ Joins(u, m, n) => t = u

\* The messages of m in s are sorted.
SortedFrom(s, m) ==
  \A i, j \in DOMAIN s : i < j /\ s[i][1] = m /\ s[j][1] = m => Before(s[i], s[j])

\* The messages of m to n, from the oldest received to the newest queued, in the
\* order in which each goroutine sent them.
InSequence(m, n) ==
  /\ Sorted(received[m][n])
  /\ SortedFrom(inbox[n], m)
  /\ \A x \in ToSet(received[m][n]), y \in Arrived(n) : y[1] = m => Before(x, y)
  /\ \A t \in DOMAIN trans : Joins(t, m, n) =>
       /\ Sorted(trans[t].queue)
       /\ \A x \in ToSet(received[m][n]), y \in Queued(t) : Before(x, y)
       /\ \A x \in Arrived(n), y \in Queued(t) : x[1] = m => Before(x, y)

OrderInv ==
  /\ NoneSlow
  /\ "slow" \notin faults => \A m, n \in Node : Single(m, n) => InSequence(m, n)

-----------------------------------------------------------------------------
(* Updates *)

\* One goroutine moves.
LEMMA MoveSender ==
  ASSUME NEW F \in [Node -> [Goroutine -> SenderState]], NEW n \in Node, NEW g \in Goroutine,
         NEW c \in SenderState
  PROVE  LET G == [F EXCEPT ![n][g] = c]
         IN  /\ G \in [Node -> [Goroutine -> SenderState]]
             /\ G[n][g] = c
             /\ \A x \in Node, y \in Goroutine : x # n \/ y # g => G[x][y] = F[x][y]
OBVIOUS

\* The parts of a transport.
LEMMA TransportAt ==
  ASSUME NEW T \in Seq(Transport), NEW t \in DOMAIN T
  PROVE  T[t] \in Transport /\ T[t].from \in Node /\ T[t].to \in Node /\ T[t].queue \in Seq(Msg)
<1>1. T[t] \in Transport
  OBVIOUS
<1> QED BY <1>1 DEF Transport

\* One queue changes.
LEMMA ChangeQueue ==
  ASSUME trans \in Seq(Transport), NEW t \in DOMAIN trans, NEW q \in Seq(Msg),
         trans' = [trans EXCEPT ![t].queue = q]
  PROVE  /\ trans' \in Seq(Transport) /\ DOMAIN trans' = DOMAIN trans
         /\ trans'[t].queue = q
         /\ \A u \in DOMAIN trans : trans'[u].from = trans[u].from /\ trans'[u].to = trans[u].to
         /\ \A u \in DOMAIN trans : u # t => trans'[u] = trans[u]
<1>pick. PICK c : c = [trans[t] EXCEPT !.queue = q]
  OBVIOUS
<1>0. trans' = [trans EXCEPT ![t] = c]
  BY <1>pick
<1>1. trans \in [1..Len(trans) -> Transport] /\ DOMAIN trans = 1..Len(trans) /\ Len(trans) \in Nat
  BY LenProperties
<1>2. trans[t] \in Transport
  BY <1>1
<1>3. /\ c \in Transport /\ c.queue = q
      /\ c.from = trans[t].from /\ c.to = trans[t].to
  BY <1>pick, <1>2 DEF Transport
<1>4. trans' \in Seq(Transport)
  BY <1>0, <1>1, <1>3, ExceptSeq
<1>5. \A u \in DOMAIN trans : trans'[u] = IF u = t THEN c ELSE trans[u]
  BY <1>0, <1>1
<1>6. DOMAIN trans' = DOMAIN trans
  BY <1>0
<1> QED BY <1>3, <1>4, <1>5, <1>6

\* What Send returns to: the goroutine has sent to one peer more, and it is past
\* everything it was past before.
LEMMA ReturnedPast ==
  ASSUME Types, NEW n \in Node, NEW g \in Goroutine, NEW to \in sender[n][g].left
  PROVE  LET s == sender[n][g]
             c == returned(n, g, to)
         IN  /\ c \in SenderState /\ c.pc = "idle" /\ c.tries = 0
             /\ \/ c.k = s.k + 1
                \/ c.k = s.k /\ c.left = s.left \ {to}
<1> DEFINE s == sender[n][g]
           left == s.left \ {to}
<1>0. s \in SenderState
  BY DEF Types
<1>1. s \in SenderState /\ s.k \in Nat /\ s.left \subseteq Node
  BY <1>0 DEF SenderState
<1>2. \A k \in Nat : Receivers(n, g, k) \subseteq Node
  <2> SUFFICES ASSUME NEW k \in Nat, k \in DOMAIN script[n][g]
               PROVE  script[n][g][k] \subseteq Node
    BY DEF Receivers
  <2>1. script[n][g] \in Seq(SUBSET Node)
    BY DEF Types
  <2> QED BY <2>1
<1>3. \A k \in Nat : Idle(n, g, k) \in SenderState
  BY <1>2 DEF Idle, SenderState
<1>4. CASE left = {}
  BY <1>1, <1>3, <1>4 DEF returned, Idle
<1>5. CASE left # {}
  <2>1. left \subseteq Node
    BY <1>1
  <2>2. returned(n, g, to) = [pc |-> "idle", k |-> s.k, left |-> left, to |-> n, via |-> 0, tries |-> 0]
    BY <1>5 DEF returned, Idle
  <2> QED BY <1>1, <2>1, <2>2 DEF SenderState
<1> QED BY <1>4, <1>5

\* Goroutines only move forward: to the next message, or to fewer peers.
Forward(F, G) ==
  \A m \in Node, h \in Goroutine :
    \/ G[m][h].k = F[m][h].k + 1
    \/ G[m][h].k = F[m][h].k /\ G[m][h].left \subseteq F[m][h].left

\* A goroutine stays past what it was past.
LEMMA StaysPast ==
  ASSUME Types, Types', Forward(sender, sender'),
         NEW m \in Node, NEW n \in Node, NEW g \in Goroutine, NEW k \in Nat, Past(m, n, g, k)
  PROVE  Past(m, n, g, k)'
<1>1. sender[m][g] \in SenderState /\ sender'[m][g] \in SenderState
  BY DEF Types
<1>2. sender[m][g].k \in Nat /\ sender'[m][g].k \in Nat
  BY <1>1 DEF SenderState
<1> QED BY <1>2 DEF Past, Forward

\* What was sent is past after a step that sends nothing.
LEMMA SentStaysPast ==
  ASSUME Types, Types', Forward(sender, sender'), SentPast, UNCHANGED sent
  PROVE  SentPast'
<1> SUFFICES ASSUME NEW m \in Node, NEW n \in Node, NEW x \in ToSet(sent[m][n])
             PROVE  x[1] = m /\ Past(m, n, x[2], x[3])'
  BY DEF SentPast
<1>1. sent[m][n] \in Seq(Msg)
  BY DEF Types
<1>2. x \in Msg
  BY <1>1, MemberIndex
<1>3. x[2] \in Goroutine /\ x[3] \in Nat
  BY <1>2 DEF Msg
<1> QED BY <1>3, StaysPast DEF SentPast

\* Nothing is sent, moved or received.
LEMMA QuietStep ==
  ASSUME DeliveryInv, Shape', Forward(sender, sender'),
         UNCHANGED <<trans, inbox, delayed, sent, received>>
  PROVE  DeliveryInv'
<1>1. SentPast'
  BY SentStaysPast DEF DeliveryInv, Shape
<1>2. Origin'
  BY DEF DeliveryInv, Origin, OriginTrans, OriginDelayed, OriginInbox, OriginReceived, Queued, Arrived
<1>3. OnceQueued' /\ OnceArrived'
  BY DEF DeliveryInv, Once, OnceQueued, OnceArrived, Queued, Arrived
<1>4. OnceDelayed'
  BY DEF DeliveryInv, Once, OnceDelayed, Queued, Arrived
<1>5. OnceReceived'
  BY DEF DeliveryInv, Once, OnceReceived, Queued, Arrived
<1> QED BY <1>1, <1>2, <1>3, <1>4, <1>5 DEF DeliveryInv, Once

-----------------------------------------------------------------------------
(* The steps of Send before the message is put into a channel *)

\* SuppressSend ends a call without a message.
LEMMA SuppressKeeps ==
  ASSUME DeliveryInv, NEW n \in Node, NEW g \in Goroutine, NEW to \in Node, SuppressSend(n, g, to)
  PROVE  DeliveryInv'
<1> DEFINE s == sender[n][g]
           c == returned(n, g, to)
<1>0. Types /\ Shape
  BY DEF DeliveryInv, Shape
<1>1. /\ s.pc = "idle" /\ to \in s.left
      /\ sender' = [sender EXCEPT ![n][g] = c]
      /\ UNCHANGED <<script, faults, listening, panicked, nodes, trans, inbox, delayed, sent, received>>
  BY DEF SuppressSend, scenario
<1>2. /\ c \in SenderState /\ c.pc = "idle" /\ c.tries = 0
      /\ c.k = s.k + 1 \/ (c.k = s.k /\ c.left = s.left \ {to})
  BY <1>0, <1>1, ReturnedPast
<1> HIDE DEF c
<1>3. /\ sender' \in [Node -> [Goroutine -> SenderState]]
      /\ sender'[n][g] = c
      /\ \A x \in Node, y \in Goroutine : x # n \/ y # g => sender'[x][y] = sender[x][y]
  BY <1>0, <1>1, <1>2, MoveSender DEF Types
<1>4. Types'
  BY <1>0, <1>1, <1>3 DEF Types
<1>5. GoodSenders'
  BY <1>0, <1>1, <1>2, <1>3, BoundsNat DEF Shape, GoodSenders, GoodSender, Joins
<1>6. Shape'
  BY <1>0, <1>1, <1>4, <1>5 DEF Shape, GoodMap, GoodDelayed, Bounded, Joins
<1>7. Forward(sender, sender')
  BY <1>2, <1>3 DEF Forward
<1> QED BY <1>1, <1>6, <1>7, QuietStep

\* Lookup finds a transport of the link or none.
LEMMA LookupKeeps ==
  ASSUME DeliveryInv, NEW n \in Node, NEW g \in Goroutine, NEW to \in Node, Lookup(n, g, to)
  PROVE  DeliveryInv'
<1> DEFINE s == sender[n][g]
           c == [s EXCEPT !.to = to, !.via = nodes[n][to],
                          !.pc = IF nodes[n][to] = 0 THEN "dial" ELSE "put"]
<1>0. Types /\ Shape
  BY DEF DeliveryInv, Shape
<1>1. /\ s.pc = "idle" /\ to \in s.left
      /\ sender' = [sender EXCEPT ![n][g] = c]
      /\ UNCHANGED <<script, faults, listening, panicked, nodes, trans, inbox, delayed, sent, received>>
  BY <1>0 DEF Lookup, scenario, Types
<1>2. s \in SenderState /\ nodes[n][to] \in Nat
  BY <1>0 DEF Types
<1>3. /\ c \in SenderState /\ c.k = s.k /\ c.left = s.left /\ c.to = to /\ c.via = nodes[n][to]
      /\ c.tries = s.tries /\ c.pc = IF nodes[n][to] = 0 THEN "dial" ELSE "put"
  BY <1>2 DEF SenderState
<1> HIDE DEF c
<1>4. /\ sender' \in [Node -> [Goroutine -> SenderState]]
      /\ sender'[n][g] = c
      /\ \A x \in Node, y \in Goroutine : x # n \/ y # g => sender'[x][y] = sender[x][y]
  BY <1>0, <1>1, <1>3, MoveSender DEF Types
<1>5. Types'
  BY <1>0, <1>1, <1>4 DEF Types
<1>6. GoodSenders'
  BY <1>0, <1>1, <1>3, <1>4 DEF Shape, GoodSenders, GoodSender, GoodMap, Joins
<1>7. Shape'
  BY <1>0, <1>1, <1>5, <1>6 DEF Shape, GoodMap, GoodDelayed, Bounded, Joins
<1>8. Forward(sender, sender')
  BY <1>3, <1>4 DEF Forward
<1> QED BY <1>1, <1>7, <1>8, QuietStep

\* Store puts a transport of the link into the map.
LEMMA StoreKeeps ==
  ASSUME DeliveryInv, NEW n \in Node, NEW g \in Goroutine, Store(n, g)
  PROVE  DeliveryInv'
<1> DEFINE s == sender[n][g]
           c == [s EXCEPT !.pc = "put"]
<1>0. Types /\ Shape
  BY DEF DeliveryInv, Shape
<1>1. /\ s.pc = "store"
      /\ sender' = [sender EXCEPT ![n][g] = c]
      /\ nodes' = [nodes EXCEPT ![n][s.to] = s.via]
      /\ UNCHANGED <<script, faults, listening, panicked, trans, inbox, delayed, sent, received>>
  BY <1>0 DEF Store, stored, scenario, Types
<1>2. s \in SenderState /\ sender \in [Node -> [Goroutine -> SenderState]]
  BY <1>0 DEF Types
<1>3. /\ c \in SenderState /\ c.k = s.k /\ c.left = s.left /\ c.to = s.to /\ c.via = s.via
      /\ c.tries = s.tries /\ c.pc = "put" /\ s.to \in Node /\ s.via \in Nat
  BY <1>2 DEF SenderState
<1>4. Joins(s.via, n, s.to)
  BY <1>0, <1>1 DEF Shape, GoodSenders, GoodSender
<1> HIDE DEF c
<1>5. /\ sender' \in [Node -> [Goroutine -> SenderState]]
      /\ sender'[n][g] = c
      /\ \A x \in Node, y \in Goroutine : x # n \/ y # g => sender'[x][y] = sender[x][y]
  BY <1>1, <1>2, <1>3, MoveSender
<1>6. /\ nodes' \in [Node -> [Node -> Nat]]
      /\ nodes'[n][s.to] = s.via
      /\ \A x, y \in Node : x # n \/ y # s.to => nodes'[x][y] = nodes[x][y]
  BY <1>0, <1>1, <1>3 DEF Types
<1>7. Types'
  BY <1>0, <1>1, <1>5, <1>6 DEF Types
<1>8. GoodSenders'
  BY <1>0, <1>1, <1>3, <1>4, <1>5 DEF Shape, GoodSenders, GoodSender, Joins
<1>9. GoodMap'
  BY <1>0, <1>1, <1>3, <1>4, <1>6 DEF Shape, GoodMap, Joins
<1>10. Shape'
  BY <1>0, <1>1, <1>7, <1>8, <1>9 DEF Shape, GoodDelayed, Bounded
<1>11. Forward(sender, sender')
  BY <1>3, <1>5 DEF Forward
<1> QED BY <1>1, <1>10, <1>11, QuietStep

\* A failed attempt is counted; the last one makes the node give up.
LEMMA DialFailsKeeps ==
  ASSUME DeliveryInv, NEW n \in Node, NEW g \in Goroutine, Dial(n, g), ~Running(sender[n][g].to)
  PROVE  DeliveryInv'
<1> DEFINE s == sender[n][g]
           c == [s EXCEPT !.tries = s.tries + 1]
<1>0. Types /\ Shape
  BY DEF DeliveryInv, Shape
<1>1. /\ s.pc = "dial" /\ n \in listening /\ n \notin panicked
      /\ sender' = [sender EXCEPT ![n][g] = c]
      /\ panicked' = IF s.tries >= Attempts - 1 THEN panicked \cup {n} ELSE panicked
      /\ UNCHANGED <<script, faults, listening, nodes, trans, inbox, delayed, sent, received>>
  BY <1>0 DEF Dial, Running, lastTry, scenario, Types
<1>2. s \in SenderState /\ sender \in [Node -> [Goroutine -> SenderState]]
  BY <1>0 DEF Types
<1>3. /\ c \in SenderState /\ c.k = s.k /\ c.left = s.left /\ c.to = s.to /\ c.via = s.via
      /\ c.tries = s.tries + 1 /\ c.pc = "dial" /\ s.tries \in Nat /\ s.tries < Attempts
      /\ s.to \in s.left
  <2>1. s.tries < Attempts /\ s.to \in s.left
    BY <1>0, <1>1 DEF Shape, GoodSenders, GoodSender
  <2>2. s.tries \in Nat /\ s.tries + 1 \in Nat
    BY <1>2 DEF SenderState
  <2> QED BY <1>1, <1>2, <2>1, <2>2 DEF SenderState
<1> HIDE DEF c
<1>4. /\ sender' \in [Node -> [Goroutine -> SenderState]]
      /\ sender'[n][g] = c
      /\ \A x \in Node, y \in Goroutine : x # n \/ y # g => sender'[x][y] = sender[x][y]
  BY <1>1, <1>2, <1>3, MoveSender
<1>5. Types'
  BY <1>0, <1>1, <1>4 DEF Types
<1>6. GoodSender(n, g)'
  BY <1>1, <1>3, <1>4, BoundsNat DEF GoodSender
<1>7. \A x \in Node, y \in Goroutine : x # n \/ y # g => GoodSender(x, y)'
  BY <1>0, <1>1, <1>4 DEF Shape, GoodSenders, GoodSender, Joins
<1>8. Shape'
  BY <1>0, <1>1, <1>5, <1>6, <1>7 DEF Shape, GoodMap, GoodSenders, GoodDelayed, Bounded, Joins
<1>9. Forward(sender, sender')
  BY <1>3, <1>4 DEF Forward
<1> QED BY <1>1, <1>8, <1>9, QuietStep

\* A new connection is empty, and no other transport changes.
LEMMA DialKeeps ==
  ASSUME DeliveryInv, NEW n \in Node, NEW g \in Goroutine, Dial(n, g), Running(sender[n][g].to)
  PROVE  DeliveryInv'
<1>new. PICK new : new = Len(trans) + 1
  OBVIOUS
<1> DEFINE s == sender[n][g]
           c == [s EXCEPT !.pc = "store", !.via = new]
           tr == [from |-> n, to |-> s.to, queue |-> <<>>, up |-> TRUE]
<1>0. Types /\ Shape
  BY DEF DeliveryInv, Shape
<1>1. /\ s.pc = "dial"
      /\ sender' = [sender EXCEPT ![n][g] = c]
      /\ trans' = Append(trans, tr)
      /\ UNCHANGED <<script, faults, listening, panicked, nodes, inbox, delayed, sent, received>>
  <2>1. /\ s.pc = "dial"
        /\ sender' = [sender EXCEPT ![n][g].pc = "store", ![n][g].via = new]
        /\ trans' = Append(trans, tr)
        /\ UNCHANGED <<script, faults, listening, panicked, nodes, inbox, delayed, sent, received>>
    BY <1>new, Zenon DEF Dial, scenario
  <2> QED BY <1>0, <2>1 DEF Types
<1>2. /\ s \in SenderState /\ sender \in [Node -> [Goroutine -> SenderState]]
      /\ trans \in Seq(Transport)
  BY <1>0 DEF Types
<1>3. s.to \in Node /\ tr \in Transport
  <2>1. s.to \in Node
    BY <1>2 DEF SenderState
  <2>2. <<>> \in Seq(Msg)
    OBVIOUS
  <2> QED BY <2>1, <2>2, Zenon DEF Transport
<1>4. new \in Nat
  BY <1>new, <1>2
<1>5. /\ tr.from = n /\ tr.to = s.to /\ tr.queue = <<>>
  OBVIOUS
<1>6. /\ c \in SenderState /\ c.k = s.k /\ c.left = s.left /\ c.to = s.to /\ c.via = new
      /\ c.tries = s.tries /\ c.pc = "store"
  BY <1>2, <1>4 DEF SenderState
<1> HIDE DEF c, tr
<1>7. /\ trans' \in Seq(Transport) /\ DOMAIN trans' = DOMAIN trans \cup {new} /\ new \notin DOMAIN trans
      /\ trans'[new] = tr
      /\ \A t \in DOMAIN trans : trans'[t] = trans[t]
  BY <1>new, <1>1, <1>2, <1>3
<1>8. /\ sender' \in [Node -> [Goroutine -> SenderState]]
      /\ sender'[n][g] = c
      /\ \A x \in Node, y \in Goroutine : x # n \/ y # g => sender'[x][y] = sender[x][y]
  BY <1>1, <1>2, <1>6, MoveSender
<1>9. Types'
  BY <1>0, <1>1, <1>7, <1>8 DEF Types
<1>10. Shape'
  <2>1. GoodSender(n, g)'
    BY <1>0, <1>1, <1>5, <1>6, <1>7, <1>8 DEF Shape, GoodSenders, GoodSender, Joins
  <2>2. \A x \in Node, y \in Goroutine : x # n \/ y # g => GoodSender(x, y)'
    BY <1>0, <1>1, <1>7, <1>8 DEF Shape, GoodSenders, GoodSender, Joins
  <2>3. GoodMap' /\ GoodDelayed'
    BY <1>0, <1>1, <1>7 DEF Shape, GoodMap, GoodDelayed, Joins
  <2>4. Bounded'
    BY <1>0, <1>1, <1>5, <1>7, BoundsNat DEF Shape, Bounded
  <2> QED BY <1>9, <2>1, <2>2, <2>3, <2>4 DEF Shape, GoodSenders
<1>11. Forward(sender, sender')
  BY <1>6, <1>8 DEF Forward
<1>12. SentPast'
  BY <1>0, <1>1, <1>9, <1>11, SentStaysPast DEF DeliveryInv
<1>13. /\ Queued(new)' = {} /\ IsInjective(trans'[new].queue)
       /\ \A t \in DOMAIN trans : Queued(t)' = Queued(t)
  BY <1>5, <1>7, EmptyMembers DEF Queued
<1>14. \A x \in Node : Arrived(x)' = Arrived(x)
  BY <1>1 DEF Arrived
<1>15. \A d \in delayed : d.via \in DOMAIN trans
  BY <1>0 DEF Shape, GoodDelayed
<1>16. Origin'
  <2>1. OriginTrans'
    BY <1>1, <1>7, <1>13 DEF DeliveryInv, Origin, OriginTrans, Queued
  <2>2. OriginDelayed'
    BY <1>1, <1>7, <1>15 DEF DeliveryInv, Origin, OriginDelayed
  <2>3. OriginInbox' /\ OriginReceived'
    BY <1>1 DEF DeliveryInv, Origin, OriginInbox, OriginReceived, Arrived
  <2> QED BY <2>1, <2>2, <2>3 DEF Origin
<1>17. OnceQueued' /\ OnceArrived'
  <2>1. \A t \in DOMAIN trans' : IsInjective(trans'[t].queue)
    BY <1>7, <1>13 DEF DeliveryInv, Once, OnceQueued
  <2>2. \A t, u \in DOMAIN trans' : t # u /\ trans'[t].to = trans'[u].to
                                    => Queued(t)' \cap Queued(u)' = {}
    BY <1>7, <1>13 DEF DeliveryInv, Once, OnceQueued, Queued
  <2>3. ASSUME NEW x \in Node, NEW t \in DOMAIN trans', trans'[t].to = x
        PROVE  Queued(t)' \cap Arrived(x)' = {}
    <3>1. CASE t = new
      BY <3>1, <1>13
    <3>2. CASE t \in DOMAIN trans
      <4>1. Queued(t) \cap Arrived(x) = {}
        BY <2>3, <3>2, <1>7 DEF DeliveryInv, Once, OnceArrived
      <4> QED BY <3>2, <4>1, <1>13, <1>14
    <3> QED BY <3>1, <3>2, <1>7
  <2>4. OnceArrived'
    BY <2>3, <1>1 DEF DeliveryInv, Once, OnceArrived
  <2> QED BY <2>1, <2>2, <2>4 DEF OnceQueued
<1>18. OnceDelayed'
  BY <1>1, <1>7, <1>13, <1>14, <1>15 DEF DeliveryInv, Once, OnceDelayed, Queued, Arrived
<1>19. OnceReceived'
  BY <1>1, <1>7, <1>13, <1>14, <1>15 DEF DeliveryInv, Once, OnceReceived, Queued, Arrived
<1> QED BY <1>10, <1>12, <1>16, <1>17, <1>18, <1>19 DEF DeliveryInv, Once

-----------------------------------------------------------------------------
(* The steps that move a message *)

\* A message is put into the channel of transport t.
LEMMA EnqueueEffect ==
  ASSUME Shape, NEW t \in DOMAIN trans, NEW msg \in Msg, room(t), trans' = enqueue(t, msg)
  PROVE  /\ trans' \in Seq(Transport) /\ DOMAIN trans' = DOMAIN trans
         /\ \A u \in DOMAIN trans : trans'[u].from = trans[u].from /\ trans'[u].to = trans[u].to
         /\ \A u \in DOMAIN trans : Len(trans'[u].queue) <= Cap
         /\ \A u \in DOMAIN trans : u # t => trans'[u] = trans[u]
         /\ trans'[t].queue = Append(trans[t].queue, msg)
         /\ Queued(t)' = Queued(t) \cup {msg}
         /\ IsInjective(trans[t].queue) /\ msg \notin Queued(t) => IsInjective(trans'[t].queue)
<1> DEFINE q == trans[t].queue
           a == Append(q, msg)
<1>0. trans \in Seq(Transport)
  BY DEF Shape, Types
<1>1. q \in Seq(Msg) /\ Len(q) < Cap
  BY <1>0, TransportAt DEF room
<1>2. /\ a \in Seq(Msg) /\ Len(a) = Len(q) + 1
      /\ ToSet(a) = ToSet(q) \cup {msg}
      /\ IsInjective(q) /\ msg \notin ToSet(q) => IsInjective(a)
  BY <1>1, AppendMember
<1>3. trans' = [trans EXCEPT ![t].queue = a]
  BY DEF enqueue
<1> HIDE DEF a
<1>4. /\ trans' \in Seq(Transport) /\ DOMAIN trans' = DOMAIN trans
      /\ trans'[t].queue = a
      /\ \A u \in DOMAIN trans : trans'[u].from = trans[u].from /\ trans'[u].to = trans[u].to
      /\ \A u \in DOMAIN trans : u # t => trans'[u] = trans[u]
  <2>1. a \in Seq(Msg) /\ t \in DOMAIN trans
    BY <1>2
  <2> QED BY <2>1, <1>0, <1>3, ChangeQueue
<1>5. Len(q) \in Nat /\ Cap \in Nat
  BY <1>1, BoundsNat
<1>6. \A u \in DOMAIN trans : Len(trans'[u].queue) <= Cap
  BY <1>1, <1>2, <1>4, <1>5 DEF Shape, Bounded
<1> QED BY <1>2, <1>4, <1>6 DEF Queued, a

\* The first message leaves the channel of transport t.
LEMMA DequeueEffect ==
  ASSUME DeliveryInv, NEW t \in DOMAIN trans, trans[t].queue # <<>>,
         trans' = [trans EXCEPT ![t].queue = Tail(@)]
  PROVE  /\ trans' \in Seq(Transport) /\ DOMAIN trans' = DOMAIN trans
         /\ \A u \in DOMAIN trans : trans'[u].from = trans[u].from /\ trans'[u].to = trans[u].to
         /\ \A u \in DOMAIN trans : Len(trans'[u].queue) <= Cap
         /\ \A u \in DOMAIN trans : u # t => trans'[u] = trans[u]
         /\ trans'[t].queue = Tail(trans[t].queue)
         /\ IsInjective(trans'[t].queue)
         /\ Head(trans[t].queue) \in Msg
         /\ Queued(t) = Queued(t)' \cup {Head(trans[t].queue)}
         /\ Head(trans[t].queue) \notin Queued(t)'
<1>pick. PICK a, q : a = Tail(q) /\ q = trans[t].queue
  OBVIOUS
<1>0. trans \in Seq(Transport)
  BY DEF DeliveryInv, Shape, Types
<1>1. q \in Seq(Msg) /\ q # <<>> /\ Len(q) <= Cap /\ IsInjective(q)
  BY <1>pick, <1>0, TransportAt DEF DeliveryInv, Shape, Bounded, Once, OnceQueued
<1>2. /\ Head(q) \in Msg /\ a \in Seq(Msg) /\ Len(a) = Len(q) - 1
      /\ ToSet(q) = ToSet(a) \cup {Head(q)}
      /\ IsInjective(a) /\ Head(q) \notin ToSet(a)
  BY <1>pick, <1>1, TailMembers
<1>3. trans' = [trans EXCEPT ![t].queue = a]
  BY <1>pick
<1>4. /\ trans' \in Seq(Transport) /\ DOMAIN trans' = DOMAIN trans
      /\ trans'[t].queue = a
      /\ \A u \in DOMAIN trans : trans'[u].from = trans[u].from /\ trans'[u].to = trans[u].to
      /\ \A u \in DOMAIN trans : u # t => trans'[u] = trans[u]
  <2>1. a \in Seq(Msg) /\ t \in DOMAIN trans
    BY <1>2
  <2> QED BY <2>1, <1>0, <1>3, ChangeQueue
<1>5. Len(q) \in Nat /\ Cap \in Nat
  BY <1>1, BoundsNat
<1>6. \A u \in DOMAIN trans : Len(trans'[u].queue) <= Cap
  BY <1>1, <1>2, <1>4, <1>5 DEF DeliveryInv, Shape, Bounded
<1>7. Queued(t)' = ToSet(a) /\ Queued(t) = ToSet(q)
  BY <1>pick, <1>4 DEF Queued
<1>8. trans'[t].queue = Tail(trans[t].queue)
  BY <1>pick, <1>4
<1> QED BY <1>pick, <1>2, <1>4, <1>6, <1>7, <1>8

\* Put hands a message to a channel or to the timer of a slow peer.  It is new:
\* no copy of it is on its way or received.
LEMMA PutKeeps ==
  ASSUME DeliveryInv, NEW n \in Node, NEW g \in Goroutine, Put(n, g)
  PROVE  DeliveryInv'
<1>pick. PICK to, via, k : to = sender[n][g].to /\ via = sender[n][g].via /\ k = sender[n][g].k
  OBVIOUS
<1> DEFINE s == sender[n][g]
           c == returned(n, g, to)
           msg == <<n, g, k>>
           slow == <<"slow", to>> \in fault[n]
<1>0. Types /\ Shape
  BY DEF DeliveryInv, Shape
<1>1. /\ s.pc = "put"
      /\ sender' = [sender EXCEPT ![n][g] = c]
      /\ sent' = [sent EXCEPT ![n][to] = Append(@, msg)]
      /\ UNCHANGED <<script, faults, listening, panicked, nodes, inbox, received>>
      /\ slow => delayed' = delayed \cup {[via |-> via, msg |-> msg]} /\ UNCHANGED trans
      /\ ~ slow => /\ Len(trans[via].queue) < Cap /\ UNCHANGED delayed
                   /\ trans' = [trans EXCEPT ![via].queue = Append(@, msg)]
  BY <1>pick DEF Put, room, enqueue, scenario
<1>2. /\ s \in SenderState /\ sender \in [Node -> [Goroutine -> SenderState]]
      /\ trans \in Seq(Transport)
  BY <1>0 DEF Types
<1>3. to \in s.left /\ to \in Node /\ k \in Nat /\ via \in Nat /\ Joins(via, n, to)
  <2>1. to \in s.left /\ Joins(via, n, to)
    BY <1>pick, <1>0, <1>1 DEF Shape, GoodSenders, GoodSender
  <2> QED BY <1>pick, <1>2, <2>1 DEF SenderState
<1>4. /\ c \in SenderState /\ c.pc = "idle" /\ c.tries = 0
      /\ c.k = s.k + 1 \/ (c.k = s.k /\ c.left = s.left \ {to})
  BY <1>0, <1>3, ReturnedPast
<1> HIDE DEF c
<1>5. /\ sender' \in [Node -> [Goroutine -> SenderState]]
      /\ sender'[n][g] = c
      /\ \A x \in Node, y \in Goroutine : x # n \/ y # g => sender'[x][y] = sender[x][y]
  BY <1>1, <1>2, <1>4, MoveSender
<1>6. msg \in Msg /\ msg[1] = n /\ msg[2] = g /\ msg[3] = k
  BY <1>3 DEF Msg
<1>7. msg \notin ToSet(sent[n][to])
  <2>1. ~ Past(n, to, g, k)
    <3>1. s.k \in Nat
      BY <1>2 DEF SenderState
    <3> QED BY <1>pick, <1>3, <3>1 DEF Past
  <2> QED BY <1>3, <1>6, <2>1 DEF DeliveryInv, SentPast
<1> HIDE DEF msg
<1>8. /\ sent[n][to] \in Seq(Msg)
      /\ ToSet(Append(sent[n][to], msg)) = ToSet(sent[n][to]) \cup {msg}
      /\ Append(sent[n][to], msg) \in Seq(Msg)
  <2>1. sent[n][to] \in Seq(Msg)
    BY <1>0, <1>3 DEF Types
  <2> QED BY <2>1, <1>6, AppendMember
<1>9. /\ sent' \in [Node -> [Node -> Seq(Msg)]]
      /\ ToSet(sent'[n][to]) = ToSet(sent[n][to]) \cup {msg}
      /\ \A x, y \in Node : x # n \/ y # to => sent'[x][y] = sent[x][y]
  BY <1>0, <1>1, <1>3, <1>8 DEF Types
<1>10. Forward(sender, sender')
  BY <1>4, <1>5 DEF Forward
\* The transports afterwards.
<1>11. /\ trans' \in Seq(Transport) /\ DOMAIN trans' = DOMAIN trans
       /\ \A t \in DOMAIN trans : trans'[t].from = trans[t].from /\ trans'[t].to = trans[t].to
       /\ \A t \in DOMAIN trans : Len(trans'[t].queue) <= Cap
       /\ \A t \in DOMAIN trans : t # via \/ slow => trans'[t] = trans[t]
       /\ ~ slow => Queued(via)' = Queued(via) \cup {msg}
       /\ ~ slow /\ msg \notin Queued(via) => IsInjective(trans'[via].queue)
  <2>1. CASE slow
    BY <1>0, <1>1, <1>2, <2>1 DEF Shape, Bounded
  <2>2. CASE ~ slow
    <3>1. via \in DOMAIN trans /\ room(via) /\ trans' = enqueue(via, msg)
      BY <1>1, <1>3, <2>2 DEF Joins, room, enqueue
    <3>2. IsInjective(trans[via].queue)
      BY <3>1 DEF DeliveryInv, Once, OnceQueued
    <3> QED BY <2>2, <3>1, <3>2, <1>0, <1>6, EnqueueEffect
  <2> QED BY <2>1, <2>2
<1>12. /\ delayed' \subseteq [via : Nat, msg : Msg]
       /\ \A d \in delayed' : d \in delayed \/ (slow /\ d.via = via /\ d.msg = msg)
       /\ \A d, e \in delayed' : d \notin delayed /\ e \notin delayed => d = e
       /\ \A d \in delayed' : d.via \in DOMAIN trans
  <2> DEFINE e == [via |-> via, msg |-> msg]
  <2>1. e \in [via : Nat, msg : Msg] /\ e.via = via /\ e.msg = msg
    BY <1>3, <1>6
  <2>2. delayed' = IF slow THEN delayed \cup {e} ELSE delayed
    BY <1>1
  <2> HIDE DEF e
  <2> QED BY <2>1, <2>2, <1>0, <1>3 DEF Types, Shape, GoodDelayed, Joins
<1>13. Types'
  BY <1>0, <1>1, <1>5, <1>9, <1>11, <1>12 DEF Types
<1>14. Shape'
  <2>1. GoodSenders'
    BY <1>0, <1>1, <1>4, <1>5, <1>11, BoundsNat DEF Shape, GoodSenders, GoodSender, Joins
  <2>2. GoodMap'
    BY <1>0, <1>1, <1>11 DEF Shape, GoodMap, Joins
  <2>3. GoodDelayed' /\ Bounded'
    BY <1>0, <1>1, <1>11, <1>12 DEF Shape, GoodDelayed, Bounded
  <2> QED BY <1>13, <2>1, <2>2, <2>3 DEF Shape
<1>15. SentPast'
  <2> SUFFICES ASSUME NEW m \in Node, NEW p \in Node, NEW x \in ToSet(sent'[m][p])
               PROVE  x[1] = m /\ Past(m, p, x[2], x[3])'
    BY DEF SentPast
  <2>1. CASE x \in ToSet(sent[m][p])
    <3>1. sent[m][p] \in Seq(Msg)
      BY <1>0 DEF Types
    <3>2. x \in Msg
      BY <2>1, <3>1, MemberIndex
    <3>3. x[2] \in Goroutine /\ x[3] \in Nat
      BY <3>2 DEF Msg
    <3>4. x[1] = m /\ Past(m, p, x[2], x[3])
      BY <2>1 DEF DeliveryInv, SentPast
    <3> QED BY <3>3, <3>4, <1>0, <1>10, <1>13, StaysPast
  <2>2. CASE m = n /\ p = to /\ x = msg
    <3>1. Past(n, to, g, k)'
      <4>1. s.k \in Nat /\ k = s.k
        BY <1>pick, <1>2 DEF SenderState
      <4> QED BY <1>4, <1>5, <4>1 DEF Past
    <3> QED BY <2>2, <3>1, <1>6
  <2>3. x \in ToSet(sent[m][p]) \/ (m = n /\ p = to /\ x = msg)
    <3>1. CASE m = n /\ p = to
      BY <3>1, <1>9
    <3>2. CASE m # n \/ p # to
      <4>1. sent'[m][p] = sent[m][p]
        BY <3>2, <1>9
      <4> QED BY <4>1
    <3> QED BY <3>1, <3>2
  <2> QED BY <2>1, <2>2, <2>3
\* Nobody else has the message.
<1>16. \A m \in Node : msg \notin ToSet(sent[m][to])
  BY <1>3, <1>6, <1>7 DEF DeliveryInv, SentPast
<1>17. \A t \in DOMAIN trans : trans[t].from \in Node /\ trans[t].to \in Node
  BY <1>2, TransportAt
<1>18. /\ \A t \in DOMAIN trans : trans[t].to = to => msg \notin Queued(t)
       /\ \A d \in delayed : d.via \in DOMAIN trans /\ (trans[d.via].to = to => d.msg # msg)
       /\ msg \notin Arrived(to)
       /\ \A m \in Node : msg \notin ToSet(received[m][to])
  <2>1. \A t \in DOMAIN trans : trans[t].to = to => msg \notin Queued(t)
    BY <1>16, <1>17 DEF DeliveryInv, Origin, OriginTrans
  <2>2. \A d \in delayed : d.via \in DOMAIN trans /\ (trans[d.via].to = to => d.msg # msg)
    BY <1>0, <1>16, <1>17 DEF DeliveryInv, Origin, OriginDelayed, Shape, GoodDelayed
  <2>3. msg \notin Arrived(to)
    BY <1>3, <1>6, <1>7 DEF DeliveryInv, Origin, OriginInbox
  <2>4. \A m \in Node : msg \notin ToSet(received[m][to])
    BY <1>3, <1>16 DEF DeliveryInv, Origin, OriginReceived
  <2> QED BY <2>1, <2>2, <2>3, <2>4
<1>19. via \in DOMAIN trans /\ trans[via].to = to /\ trans[via].from = n
  BY <1>3 DEF Joins
<1>20. /\ \A x, y \in Node : ToSet(sent[x][y]) \subseteq ToSet(sent'[x][y])
       /\ msg \in ToSet(sent'[n][to])
  BY <1>9
<1>21. \A t \in DOMAIN trans : Queued(t)' \subseteq Queued(t) \cup {x \in {msg} : t = via /\ ~ slow}
  BY <1>11 DEF Queued
<1>22. Origin'
  <2>1. OriginTrans'
    <3> SUFFICES ASSUME NEW t \in DOMAIN trans, NEW x \in Queued(t)'
                 PROVE  x \in ToSet(sent'[trans[t].from][trans[t].to])
      BY <1>11 DEF OriginTrans
    <3>1. CASE x \in Queued(t)
      BY <3>1, <1>17, <1>20 DEF DeliveryInv, Origin, OriginTrans
    <3>2. CASE x = msg /\ t = via
      BY <3>2, <1>19, <1>20
    <3> QED BY <3>1, <3>2, <1>21
  <2>2. OriginDelayed'
    <3> SUFFICES ASSUME NEW d \in delayed'
                 PROVE  d.msg \in ToSet(sent'[trans[d.via].from][trans[d.via].to])
      BY <1>11, <1>12 DEF OriginDelayed
    <3>1. CASE d \in delayed
      BY <3>1, <1>17, <1>18, <1>20 DEF DeliveryInv, Origin, OriginDelayed
    <3>2. CASE d.via = via /\ d.msg = msg
      BY <3>2, <1>19, <1>20
    <3> QED BY <3>1, <3>2, <1>12
  <2>3. OriginInbox'
    <3> SUFFICES ASSUME NEW p \in Node, NEW x \in Arrived(p)
                 PROVE  x \in ToSet(sent'[x[1]][p])
      BY <1>1 DEF OriginInbox, Arrived
    <3>1. inbox[p] \in Seq(Msg)
      BY <1>0 DEF Types
    <3>2. x[1] \in Node
      BY <3>1, MemberIndex DEF Arrived, Msg
    <3> QED BY <3>2, <1>20 DEF DeliveryInv, Origin, OriginInbox
  <2>4. OriginReceived'
    BY <1>1, <1>20 DEF DeliveryInv, Origin, OriginReceived
  <2> QED BY <2>1, <2>2, <2>3, <2>4 DEF Origin
<1>23. OnceQueued'
  <2>1. \A t \in DOMAIN trans' : IsInjective(trans'[t].queue)
    BY <1>11, <1>18, <1>19 DEF DeliveryInv, Once, OnceQueued
  <2>2. \A t, u \in DOMAIN trans' : t # u /\ trans'[t].to = trans'[u].to
                                    => Queued(t)' \cap Queued(u)' = {}
    BY <1>11, <1>18, <1>19, <1>21 DEF DeliveryInv, Once, OnceQueued
  <2> QED BY <2>1, <2>2 DEF OnceQueued
<1>24. OnceArrived'
  BY <1>1, <1>11, <1>18, <1>19, <1>21 DEF DeliveryInv, Once, OnceArrived, Arrived
<1>25. OnceReceived'
  <2>1. ASSUME NEW m \in Node, NEW p \in Node, NEW x \in ToSet(received[m][p])
        PROVE  /\ \A t \in DOMAIN trans' : trans'[t].to = p => x \notin Queued(t)'
               /\ \A d \in delayed' : trans'[d.via].to = p => x # d.msg
    <3>1. ASSUME NEW t \in DOMAIN trans', trans'[t].to = p PROVE x \notin Queued(t)'
      <4>1. t \in DOMAIN trans /\ trans[t].to = p
        BY <3>1, <1>11
      <4>2. x \notin Queued(t)
        BY <4>1 DEF DeliveryInv, Once, OnceReceived
      <4>3. t = via => x # msg
        BY <4>1, <1>18, <1>19
      <4> QED BY <4>1, <4>2, <4>3, <1>21
    <3>2. ASSUME NEW d \in delayed', trans'[d.via].to = p PROVE x # d.msg
      <4>1. trans[d.via].to = p
        BY <3>2, <1>11, <1>12
      <4>2. CASE d \in delayed
        BY <4>1, <4>2 DEF DeliveryInv, Once, OnceReceived
      <4>3. CASE d.via = via /\ d.msg = msg
        BY <4>1, <4>3, <1>18, <1>19
      <4> QED BY <4>2, <4>3, <1>12
    <3> QED BY <3>1, <3>2
  <2> QED BY <2>1, <1>1 DEF DeliveryInv, Once, OnceReceived, Arrived
<1>26. OnceDelayed'
  <2> SUFFICES ASSUME NEW d \in delayed'
               PROVE  /\ \A e \in delayed' : trans[e.via].to = trans[d.via].to /\ e.msg = d.msg => e = d
                      /\ \A t \in DOMAIN trans : trans[t].to = trans[d.via].to => d.msg \notin Queued(t)'
                      /\ d.msg \notin Arrived(trans[d.via].to)
    BY <1>1, <1>11, <1>12 DEF OnceDelayed, Arrived
  <2>1. CASE d \in delayed
    BY <2>1, <1>12, <1>18, <1>19, <1>21 DEF DeliveryInv, Once, OnceDelayed
  <2>2. CASE slow /\ d.via = via /\ d.msg = msg
    BY <2>2, <1>12, <1>18, <1>19, <1>21 DEF DeliveryInv, Once, OnceDelayed
  <2> QED BY <2>1, <2>2, <1>12
<1> QED BY <1>14, <1>15, <1>22, <1>23, <1>24, <1>25, <1>26 DEF DeliveryInv, Once

\* The parts of the shape that a change inside the transports leaves alone.
LEMMA ShapeOfQueues ==
  ASSUME Shape, trans' \in Seq(Transport), DOMAIN trans' = DOMAIN trans,
         \A u \in DOMAIN trans : trans'[u].from = trans[u].from /\ trans'[u].to = trans[u].to,
         UNCHANGED <<script, listening, panicked, nodes, sender, sent>>, received' \in [Node -> [Node -> Seq(Msg)]],
         delayed' \subseteq delayed, inbox' \in [Node -> Seq(Msg)], Bounded'
  PROVE  Shape'
<1>1. Types'
  BY DEF Shape, Types
<1>2. GoodSenders'
  BY DEF Shape, GoodSenders, GoodSender, Joins
<1>3. GoodMap' /\ GoodDelayed'
  BY DEF Shape, GoodMap, GoodDelayed, Joins
<1> QED BY <1>1, <1>2, <1>3 DEF Shape

\* A delayed message goes into the channel it was meant for.
LEMMA PutDelayedKeeps ==
  ASSUME DeliveryInv, NEW d \in delayed, PutDelayed(d)
  PROVE  DeliveryInv'
<1>pick. PICK via, msg, to : via = d.via /\ msg = d.msg /\ to = trans[d.via].to
  OBVIOUS
<1>0. Types /\ Shape
  BY DEF DeliveryInv, Shape
<1>1. /\ room(via) /\ trans' = enqueue(via, msg)
      /\ delayed' = delayed \ {d}
      /\ UNCHANGED <<script, faults, listening, panicked, nodes, inbox, sender, sent, received>>
  BY <1>pick DEF PutDelayed, scenario
<1>2. via \in DOMAIN trans /\ msg \in Msg /\ \A e \in delayed : e.via \in DOMAIN trans
  BY <1>pick, <1>0 DEF Shape, GoodDelayed, Types
<1>3. /\ \A t \in DOMAIN trans : trans[t].to = to => msg \notin Queued(t)
      /\ \A e \in delayed' : trans[e.via].to = to => e.msg # msg
      /\ msg \notin Arrived(to)
      /\ \A m \in Node : msg \notin ToSet(received[m][to])
      /\ msg \in ToSet(sent[trans[via].from][to])
      /\ to \in Node /\ to = trans[via].to
  <2>1. to \in Node /\ to = trans[via].to
    BY <1>pick, <1>0, <1>2, TransportAt DEF Types
  <2>2. /\ \A t \in DOMAIN trans : trans[t].to = to => msg \notin Queued(t)
        /\ \A e \in delayed' : trans[e.via].to = to => e.msg # msg
        /\ msg \notin Arrived(to)
    BY <1>pick, <1>1, <2>1 DEF DeliveryInv, Once, OnceDelayed
  <2>3. \A m \in Node : msg \notin ToSet(received[m][to])
    BY <1>pick, <2>1 DEF DeliveryInv, Once, OnceReceived
  <2>4. msg \in ToSet(sent[trans[via].from][to])
    BY <1>pick DEF DeliveryInv, Origin, OriginDelayed
  <2> QED BY <2>1, <2>2, <2>3, <2>4
<1>4. IsInjective(trans[via].queue)
  BY <1>2 DEF DeliveryInv, Once, OnceQueued
<1>5. /\ trans' \in Seq(Transport) /\ DOMAIN trans' = DOMAIN trans
      /\ \A u \in DOMAIN trans : trans'[u].from = trans[u].from /\ trans'[u].to = trans[u].to
      /\ \A u \in DOMAIN trans : Len(trans'[u].queue) <= Cap
      /\ \A u \in DOMAIN trans : u # via => trans'[u] = trans[u]
      /\ Queued(via)' = Queued(via) \cup {msg}
      /\ IsInjective(trans'[via].queue)
  BY <1>0, <1>1, <1>2, <1>3, <1>4, EnqueueEffect
<1>6. \A t \in DOMAIN trans : Queued(t)' \subseteq Queued(t) \cup {x \in {msg} : t = via}
  BY <1>5 DEF Queued
<1>7. Shape'
  <2>1. Bounded'
    BY <1>0, <1>1, <1>5 DEF Shape, Bounded
  <2>2. received' \in [Node -> [Node -> Seq(Msg)]] /\ inbox' \in [Node -> Seq(Msg)]
    BY <1>0, <1>1 DEF Types
  <2> QED BY <1>0, <1>1, <1>5, <2>1, <2>2, ShapeOfQueues
<1>8. SentPast'
  <2>1. Forward(sender, sender')
    BY <1>1 DEF Forward
  <2>2. Types'
    BY <1>7 DEF Shape
  <2> QED BY <2>1, <2>2, <1>0, <1>1, SentStaysPast DEF DeliveryInv
<1>9. Origin'
  <2>1. OriginTrans'
    <3> SUFFICES ASSUME NEW t \in DOMAIN trans, NEW x \in Queued(t)'
                 PROVE  x \in ToSet(sent[trans[t].from][trans[t].to])
      BY <1>1, <1>5 DEF OriginTrans
    <3>1. CASE x \in Queued(t)
      BY <3>1 DEF DeliveryInv, Origin, OriginTrans
    <3>2. CASE x = msg /\ t = via
      BY <3>2, <1>3
    <3> QED BY <3>1, <3>2, <1>6
  <2>2. OriginDelayed'
    BY <1>1, <1>2, <1>5 DEF DeliveryInv, Origin, OriginDelayed
  <2>3. OriginInbox' /\ OriginReceived'
    BY <1>1 DEF DeliveryInv, Origin, OriginInbox, OriginReceived, Arrived
  <2> QED BY <2>1, <2>2, <2>3 DEF Origin
<1>10. OnceQueued'
  <2>1. \A t \in DOMAIN trans' : IsInjective(trans'[t].queue)
    BY <1>5 DEF DeliveryInv, Once, OnceQueued
  <2>2. \A t, u \in DOMAIN trans' : t # u /\ trans'[t].to = trans'[u].to
                                    => Queued(t)' \cap Queued(u)' = {}
    BY <1>2, <1>3, <1>5, <1>6 DEF DeliveryInv, Once, OnceQueued
  <2> QED BY <2>1, <2>2 DEF OnceQueued
<1>11. OnceArrived'
  BY <1>1, <1>2, <1>3, <1>5, <1>6 DEF DeliveryInv, Once, OnceArrived, Arrived
<1>12. OnceReceived'
  <2>1. ASSUME NEW m \in Node, NEW p \in Node, NEW x \in ToSet(received[m][p]),
               NEW t \in DOMAIN trans', trans'[t].to = p
        PROVE  x \notin Queued(t)'
    <3>1. t \in DOMAIN trans /\ trans[t].to = p
      BY <2>1, <1>5
    <3>2. x \notin Queued(t)
      BY <3>1 DEF DeliveryInv, Once, OnceReceived
    <3>3. t = via => x # msg
      BY <3>1, <1>3
    <3> QED BY <3>1, <3>2, <3>3, <1>6
  <2>2. ASSUME NEW m \in Node, NEW p \in Node, NEW x \in ToSet(received[m][p]),
               NEW e \in delayed', trans'[e.via].to = p
        PROVE  x # e.msg
    <3>1. e \in delayed /\ trans[e.via].to = p
      BY <2>2, <1>1, <1>2, <1>5
    <3> QED BY <3>1 DEF DeliveryInv, Once, OnceReceived
  <2> QED BY <2>1, <2>2, <1>1 DEF DeliveryInv, Once, OnceReceived, Arrived
<1>13. OnceDelayed'
  <2> SUFFICES ASSUME NEW e \in delayed'
               PROVE  /\ \A f \in delayed' : trans[f.via].to = trans[e.via].to /\ f.msg = e.msg => f = e
                      /\ \A t \in DOMAIN trans : trans[t].to = trans[e.via].to => e.msg \notin Queued(t)'
                      /\ e.msg \notin Arrived(trans[e.via].to)
    BY <1>1, <1>2, <1>5 DEF OnceDelayed, Arrived
  <2>1. e \in delayed /\ delayed' \subseteq delayed
    BY <1>1
  <2> QED BY <2>1, <1>3, <1>6 DEF DeliveryInv, Once, OnceDelayed
<1> QED BY <1>7, <1>8, <1>9, <1>10, <1>11, <1>12, <1>13 DEF DeliveryInv, Once

\* The transport hands its first message to the peer's channel, or loses it when
\* the connection is broken.
LEMMA TransmitKeeps ==
  ASSUME DeliveryInv, NEW t \in DOMAIN trans, Transmit(t)
  PROVE  DeliveryInv'
<1>pick. PICK msg, to : msg = Head(trans[t].queue) /\ to = trans[t].to
  OBVIOUS
<1>0. Types /\ Shape
  BY DEF DeliveryInv, Shape
<1>1. /\ trans[t].queue # <<>> /\ trans' = [trans EXCEPT ![t].queue = Tail(@)]
      /\ \/ Len(inbox[to]) < Cap /\ inbox' = [inbox EXCEPT ![to] = Append(@, msg)]
         \/ inbox' = inbox
      /\ UNCHANGED <<script, faults, listening, panicked, nodes, sender, delayed, sent, received>>
  BY <1>pick DEF Transmit, scenario
<1>2. /\ trans' \in Seq(Transport) /\ DOMAIN trans' = DOMAIN trans
      /\ \A u \in DOMAIN trans : trans'[u].from = trans[u].from /\ trans'[u].to = trans[u].to
      /\ \A u \in DOMAIN trans : Len(trans'[u].queue) <= Cap
      /\ \A u \in DOMAIN trans : u # t => trans'[u] = trans[u]
      /\ IsInjective(trans'[t].queue)
      /\ msg \in Msg
      /\ Queued(t) = Queued(t)' \cup {msg}
      /\ msg \notin Queued(t)'
  BY <1>pick, <1>1, DequeueEffect
<1>3. /\ \A u \in DOMAIN trans : Queued(u)' \subseteq Queued(u)
      /\ msg \in Queued(t)
  BY <1>2 DEF Queued
<1>4. /\ to \in Node /\ to = trans[t].to /\ trans[t].from \in Node
      /\ inbox[to] \in Seq(Msg) /\ Cap \in Nat /\ Len(inbox[to]) \in Nat
  BY <1>pick, <1>0, BoundsNat, TransportAt DEF Types
\* Nobody but the transport has the message.
<1>5. /\ msg \notin Arrived(to)
      /\ \A u \in DOMAIN trans : trans[u].to = to => msg \notin Queued(u)'
      /\ \A m \in Node : msg \notin ToSet(received[m][to])
      /\ \A d \in delayed : trans[d.via].to = to => d.msg # msg
      /\ msg[1] \in Node /\ msg \in ToSet(sent[msg[1]][to])
  <2>1. msg \notin Arrived(to)
    BY <1>3, <1>4 DEF DeliveryInv, Once, OnceArrived
  <2>2. ASSUME NEW u \in DOMAIN trans, trans[u].to = to PROVE msg \notin Queued(u)'
    <3>1. CASE u = t
      BY <3>1, <1>2
    <3>2. CASE u # t
      BY <2>2, <3>2, <1>3, <1>4 DEF DeliveryInv, Once, OnceQueued
    <3> QED BY <3>1, <3>2
  <2>3. \A m \in Node : msg \notin ToSet(received[m][to])
    BY <1>3, <1>4 DEF DeliveryInv, Once, OnceReceived
  <2>4. \A d \in delayed : trans[d.via].to = to => d.msg # msg
    BY <1>3, <1>4 DEF DeliveryInv, Once, OnceDelayed
  <2>5. msg \in ToSet(sent[trans[t].from][to])
    BY <1>3, <1>4 DEF DeliveryInv, Origin, OriginTrans
  <2>6. msg[1] = trans[t].from
    BY <1>4, <2>5 DEF DeliveryInv, SentPast
  <2> QED BY <1>4, <2>1, <2>2, <2>3, <2>4, <2>5, <2>6
<1>6. /\ inbox' \in [Node -> Seq(Msg)] /\ IsInjective(inbox'[to]) /\ Len(inbox'[to]) <= Cap
      /\ Arrived(to)' \subseteq Arrived(to) \cup {msg}
      /\ \A p \in Node : p # to => inbox'[p] = inbox[p]
  <2>1. IsInjective(inbox[to]) /\ Len(inbox[to]) <= Cap /\ inbox \in [Node -> Seq(Msg)]
    BY <1>0, <1>4 DEF Shape, Bounded, DeliveryInv, Once, OnceArrived, Types
  <2>2. CASE inbox' = inbox
    BY <2>1, <2>2 DEF Arrived
  <2>3. CASE Len(inbox[to]) < Cap /\ inbox' = [inbox EXCEPT ![to] = Append(@, msg)]
    <3>1. /\ Append(inbox[to], msg) \in Seq(Msg) /\ Len(Append(inbox[to], msg)) = Len(inbox[to]) + 1
          /\ ToSet(Append(inbox[to], msg)) = ToSet(inbox[to]) \cup {msg}
          /\ IsInjective(Append(inbox[to], msg))
      BY <1>2, <1>4, <1>5, <2>1, AppendMember DEF Arrived
    <3> QED BY <1>4, <2>1, <2>3, <3>1 DEF Arrived
  <2> QED BY <1>1, <2>2, <2>3
<1>7. \A p \in Node : Arrived(p)' \subseteq Arrived(p) \cup {x \in {msg} : p = to}
  BY <1>6 DEF Arrived
<1>8. Shape'
  <2>1. Bounded'
    BY <1>0, <1>1, <1>2, <1>6 DEF Shape, Bounded
  <2>2. received' \in [Node -> [Node -> Seq(Msg)]]
    BY <1>0, <1>1 DEF Types
  <2> QED BY <1>0, <1>1, <1>2, <1>6, <2>1, <2>2, ShapeOfQueues
<1>9. SentPast'
  <2>1. Forward(sender, sender')
    BY <1>1 DEF Forward
  <2>2. Types'
    BY <1>8 DEF Shape
  <2> QED BY <2>1, <2>2, <1>0, <1>1, SentStaysPast DEF DeliveryInv
<1>10. \A d \in delayed : d.via \in DOMAIN trans
  BY <1>0 DEF Shape, GoodDelayed
<1>11. Origin'
  <2>1. OriginTrans'
    BY <1>1, <1>2, <1>3 DEF DeliveryInv, Origin, OriginTrans
  <2>2. OriginDelayed'
    BY <1>1, <1>2, <1>10 DEF DeliveryInv, Origin, OriginDelayed
  <2>3. OriginReceived'
    BY <1>1 DEF DeliveryInv, Origin, OriginReceived
  <2>4. OriginInbox'
    <3> SUFFICES ASSUME NEW p \in Node, NEW x \in Arrived(p)'
                 PROVE  x \in ToSet(sent[x[1]][p])
      BY <1>1 DEF OriginInbox
    <3>1. CASE x \in Arrived(p)
      BY <3>1 DEF DeliveryInv, Origin, OriginInbox
    <3>2. CASE x = msg /\ p = to
      BY <3>2, <1>5
    <3> QED BY <3>1, <3>2, <1>7
  <2> QED BY <2>1, <2>2, <2>3, <2>4 DEF Origin
<1>12. OnceQueued'
  <2>1. \A u \in DOMAIN trans' : IsInjective(trans'[u].queue)
    BY <1>2 DEF DeliveryInv, Once, OnceQueued
  <2>2. \A u, v \in DOMAIN trans' : u # v /\ trans'[u].to = trans'[v].to
                                    => Queued(u)' \cap Queued(v)' = {}
    BY <1>2, <1>3 DEF DeliveryInv, Once, OnceQueued
  <2> QED BY <2>1, <2>2 DEF OnceQueued
<1>13. OnceArrived'
  <2>1. \A p \in Node : IsInjective(inbox'[p])
    BY <1>6 DEF DeliveryInv, Once, OnceArrived
  <2>2. ASSUME NEW p \in Node, NEW u \in DOMAIN trans', trans'[u].to = p
        PROVE  Queued(u)' \cap Arrived(p)' = {}
    <3>1. u \in DOMAIN trans /\ trans[u].to = p
      BY <2>2, <1>2
    <3>2. Queued(u) \cap Arrived(p) = {}
      BY <3>1 DEF DeliveryInv, Once, OnceArrived
    <3> QED BY <3>1, <3>2, <1>3, <1>5, <1>7
  <2> QED BY <2>1, <2>2 DEF OnceArrived
<1>14. OnceReceived'
  <2>1. ASSUME NEW m \in Node, NEW p \in Node, NEW x \in ToSet(received[m][p])
        PROVE  /\ x \notin Arrived(p)'
               /\ \A u \in DOMAIN trans : trans[u].to = p => x \notin Queued(u)'
               /\ \A d \in delayed : trans[d.via].to = p => x # d.msg
    <3>1. /\ x \notin Arrived(p)
          /\ \A u \in DOMAIN trans : trans[u].to = p => x \notin Queued(u)
          /\ \A d \in delayed : trans[d.via].to = p => x # d.msg
      BY DEF DeliveryInv, Once, OnceReceived
    <3>2. x \notin Arrived(p)'
      BY <3>1, <1>5, <1>7
    <3> QED BY <3>1, <3>2, <1>3
  <2>2. ASSUME NEW m \in Node, NEW p \in Node, NEW x \in ToSet(received'[m][p])
        PROVE  /\ x \notin Arrived(p)'
               /\ \A u \in DOMAIN trans' : trans'[u].to = p => x \notin Queued(u)'
               /\ \A d \in delayed' : trans'[d.via].to = p => x # d.msg
    <3>1. x \in ToSet(received[m][p])
      BY <1>1
    <3>2. /\ x \notin Arrived(p)'
          /\ \A u \in DOMAIN trans : trans[u].to = p => x \notin Queued(u)'
          /\ \A d \in delayed : trans[d.via].to = p => x # d.msg
      BY <2>1, <3>1
    <3>3. \A d \in delayed' : d \in delayed /\ trans'[d.via].to = trans[d.via].to
      BY <1>1, <1>2, <1>10
    <3>4. \A u \in DOMAIN trans' : u \in DOMAIN trans /\ trans'[u].to = trans[u].to
      BY <1>2
    <3> QED BY <3>2, <3>3, <3>4
  <2>3. \A m, p \in Node : IsInjective(received'[m][p])
    BY <1>1 DEF DeliveryInv, Once, OnceReceived
  <2> QED BY <2>2, <2>3 DEF OnceReceived
<1>15. OnceDelayed'
  <2>1. ASSUME NEW d \in delayed, NEW p \in Node, p = trans[d.via].to
        PROVE  /\ \A e \in delayed : trans[e.via].to = p /\ e.msg = d.msg => e = d
               /\ \A u \in DOMAIN trans : trans[u].to = p => d.msg \notin Queued(u)'
               /\ d.msg \notin Arrived(p)'
    <3>1. /\ \A e \in delayed : trans[e.via].to = p /\ e.msg = d.msg => e = d
          /\ \A u \in DOMAIN trans : trans[u].to = p => d.msg \notin Queued(u)
          /\ d.msg \notin Arrived(p)
      BY <2>1 DEF DeliveryInv, Once, OnceDelayed
    <3>2. d.msg \notin Arrived(p)'
      BY <2>1, <3>1, <1>5, <1>7
    <3> QED BY <3>1, <3>2, <1>3
  <2>2. \A d \in delayed : trans[d.via].to \in Node
    BY <1>0, <1>10, TransportAt DEF Types
  <2> QED BY <2>1, <2>2, <1>1, <1>2, <1>10 DEF OnceDelayed, Arrived
<1> QED BY <1>8, <1>9, <1>11, <1>12, <1>13, <1>14, <1>15 DEF DeliveryInv, Once

\* Recv takes the first message of the channel; a crashed node drops it.
LEMMA RecvKeeps ==
  ASSUME DeliveryInv, NEW n \in Node, Recv(n)
  PROVE  DeliveryInv'
<1>pick. PICK msg : msg = Head(inbox[n])
  OBVIOUS
<1>0. Types /\ Shape
  BY DEF DeliveryInv, Shape
<1>1. /\ inbox[n] # <<>> /\ inbox' = [inbox EXCEPT ![n] = Tail(inbox[n])]
      /\ received' = received \/ received' = [received EXCEPT ![msg[1]][n] = Append(@, msg)]
      /\ UNCHANGED <<script, faults, listening, panicked, nodes, trans, sender, delayed, sent>>
  BY <1>pick DEF Recv, scenario
<1>2. /\ inbox \in [Node -> Seq(Msg)] /\ inbox[n] \in Seq(Msg)
      /\ received \in [Node -> [Node -> Seq(Msg)]] /\ IsInjective(inbox[n])
      /\ Len(inbox[n]) <= Cap /\ Cap \in Nat /\ Len(inbox[n]) \in Nat
  <2>1. inbox \in [Node -> Seq(Msg)] /\ received \in [Node -> [Node -> Seq(Msg)]]
    BY <1>0 DEF Types
  <2> QED BY <2>1, <1>0, BoundsNat DEF Shape, Bounded, DeliveryInv, Once, OnceArrived
<1>3. /\ msg \in Msg /\ Tail(inbox[n]) \in Seq(Msg) /\ Len(Tail(inbox[n])) = Len(inbox[n]) - 1
      /\ ToSet(inbox[n]) = ToSet(Tail(inbox[n])) \cup {msg}
      /\ IsInjective(Tail(inbox[n])) /\ msg \notin ToSet(Tail(inbox[n]))
  BY <1>pick, <1>1, <1>2, TailMembers
<1>4. /\ inbox' \in [Node -> Seq(Msg)] /\ inbox'[n] = Tail(inbox[n])
      /\ \A p \in Node : p # n => inbox'[p] = inbox[p]
  BY <1>1, <1>2, <1>3
<1>5. /\ Arrived(n) = Arrived(n)' \cup {msg} /\ msg \notin Arrived(n)'
      /\ \A p \in Node : Arrived(p)' \subseteq Arrived(p)
      /\ \A p \in Node : IsInjective(inbox'[p])
  <2>1. Arrived(n) = ToSet(inbox[n]) /\ Arrived(n)' = ToSet(Tail(inbox[n]))
    BY <1>4 DEF Arrived
  <2>2. \A p \in Node : p # n => Arrived(p)' = Arrived(p)
    BY <1>4 DEF Arrived
  <2>3. \A p \in Node : IsInjective(inbox'[p])
    BY <1>3, <1>4 DEF DeliveryInv, Once, OnceArrived
  <2> QED BY <1>3, <2>1, <2>2, <2>3
<1>pick2. PICK m : m = msg[1]
  OBVIOUS
<1>6. /\ m \in Node /\ msg \in ToSet(sent[m][n])
      /\ \A t \in DOMAIN trans : trans[t].to = n => msg \notin Queued(t)
      /\ \A d \in delayed : trans[d.via].to = n => d.msg # msg
      /\ \A p \in Node : msg \notin ToSet(received[p][n])
  <2>1. m \in Node
    BY <1>pick2, <1>3 DEF Msg
  <2>2. msg \in Arrived(n)
    BY <1>5
  <2>3. msg \in ToSet(sent[m][n])
    BY <1>pick2, <2>2 DEF DeliveryInv, Origin, OriginInbox
  <2>4. \A t \in DOMAIN trans : trans[t].to = n => msg \notin Queued(t)
    BY <2>2 DEF DeliveryInv, Once, OnceArrived
  <2>5. \A d \in delayed : trans[d.via].to = n => d.msg # msg
    BY <2>2 DEF DeliveryInv, Once, OnceDelayed
  <2>6. \A p \in Node : msg \notin ToSet(received[p][n])
    BY <2>2 DEF DeliveryInv, Once, OnceReceived
  <2> QED BY <2>1, <2>3, <2>4, <2>5, <2>6
<1>7. /\ received' \in [Node -> [Node -> Seq(Msg)]]
      /\ ToSet(received'[m][n]) \subseteq ToSet(received[m][n]) \cup {msg}
      /\ IsInjective(received'[m][n])
      /\ \A x, y \in Node : x # m \/ y # n => received'[x][y] = received[x][y]
  <2>1. received[m][n] \in Seq(Msg) /\ IsInjective(received[m][n])
    BY <1>2, <1>6 DEF DeliveryInv, Once, OnceReceived
  <2>2. CASE received' = received
    BY <1>2, <2>1, <2>2
  <2>3. CASE received' = [received EXCEPT ![m][n] = Append(@, msg)]
    <3> DEFINE a == Append(received[m][n], msg)
    <3>1. a \in Seq(Msg) /\ ToSet(a) = ToSet(received[m][n]) \cup {msg} /\ IsInjective(a)
      BY <1>3, <1>6, <2>1, AppendMember
    <3>2. received' = [received EXCEPT ![m][n] = a]
      BY <2>3
    <3> HIDE DEF a
    <3> QED BY <1>2, <1>6, <3>1, <3>2
  <2> QED BY <1>1, <1>pick2, <2>2, <2>3
<1>8. \A x, y \in Node : \A z \in ToSet(received'[x][y]) :
         z \in ToSet(received[x][y]) \/ (x = m /\ y = n /\ z = msg)
  <2> SUFFICES ASSUME NEW x \in Node, NEW y \in Node, NEW z \in ToSet(received'[x][y])
               PROVE  z \in ToSet(received[x][y]) \/ (x = m /\ y = n /\ z = msg)
    OBVIOUS
  <2>1. CASE x = m /\ y = n
    BY <2>1, <1>7
  <2>2. CASE x # m \/ y # n
    <3>1. received'[x][y] = received[x][y]
      BY <2>2, <1>7
    <3> QED BY <3>1
  <2> QED BY <2>1, <2>2
<1>9. Shape'
  <2>1. Bounded'
    BY <1>0, <1>1, <1>2, <1>3, <1>4 DEF Shape, Bounded
  <2>2. trans' \in Seq(Transport) /\ delayed' \subseteq delayed
    BY <1>0, <1>1 DEF Types
  <2> QED BY <1>0, <1>1, <1>4, <1>7, <2>1, <2>2, ShapeOfQueues
<1>10. SentPast'
  <2>1. Forward(sender, sender')
    BY <1>1 DEF Forward
  <2>2. Types'
    BY <1>9 DEF Shape
  <2> QED BY <2>1, <2>2, <1>0, <1>1, SentStaysPast DEF DeliveryInv
<1>11. Origin'
  <2>1. OriginTrans' /\ OriginDelayed'
    BY <1>1 DEF DeliveryInv, Origin, OriginTrans, OriginDelayed, Queued
  <2>2. OriginInbox'
    BY <1>1, <1>5 DEF DeliveryInv, Origin, OriginInbox
  <2>3. OriginReceived'
    <3> SUFFICES ASSUME NEW x \in Node, NEW y \in Node, NEW z \in ToSet(received'[x][y])
                 PROVE  z \in ToSet(sent[x][y])
      BY <1>1 DEF OriginReceived
    <3> QED BY <1>6, <1>8 DEF DeliveryInv, Origin, OriginReceived
  <2> QED BY <2>1, <2>2, <2>3 DEF Origin
<1>12. OnceQueued'
  BY <1>1 DEF DeliveryInv, Once, OnceQueued, Queued
<1>13. \A t \in DOMAIN trans : Queued(t)' = Queued(t)
  BY <1>1 DEF Queued
<1>14. OnceArrived'
  BY <1>1, <1>5, <1>13 DEF DeliveryInv, Once, OnceArrived
<1>15. OnceDelayed'
  <2>1. ASSUME NEW d \in delayed, NEW p \in Node, p = trans[d.via].to
        PROVE  /\ \A e \in delayed : trans[e.via].to = p /\ e.msg = d.msg => e = d
               /\ \A u \in DOMAIN trans : trans[u].to = p => d.msg \notin Queued(u)
               /\ d.msg \notin Arrived(p)'
    <3>1. /\ \A e \in delayed : trans[e.via].to = p /\ e.msg = d.msg => e = d
          /\ \A u \in DOMAIN trans : trans[u].to = p => d.msg \notin Queued(u)
          /\ d.msg \notin Arrived(p)
      BY <2>1 DEF DeliveryInv, Once, OnceDelayed
    <3> QED BY <3>1, <1>5
  <2>2. \A d \in delayed : trans[d.via].to \in Node
    BY <1>0, TransportAt DEF Types, Shape, GoodDelayed
  <2> QED BY <2>1, <2>2, <1>1 DEF OnceDelayed, Arrived, Queued
<1>16. OnceReceived'
  <2>1. ASSUME NEW x \in Node, NEW y \in Node, NEW z \in ToSet(received'[x][y])
        PROVE  /\ z \notin Arrived(y)'
               /\ \A u \in DOMAIN trans : trans[u].to = y => z \notin Queued(u)
               /\ \A d \in delayed : trans[d.via].to = y => z # d.msg
    <3>1. CASE z \in ToSet(received[x][y])
      BY <3>1, <1>5 DEF DeliveryInv, Once, OnceReceived
    <3>2. CASE x = m /\ y = n /\ z = msg
      BY <3>2, <1>5, <1>6
    <3> QED BY <3>1, <3>2, <1>8
  <2>2. \A x, y \in Node : IsInjective(received'[x][y])
    BY <1>7 DEF DeliveryInv, Once, OnceReceived
  <2> QED BY <2>1, <2>2, <1>1, <1>13 DEF OnceReceived
<1> QED BY <1>9, <1>10, <1>11, <1>12, <1>14, <1>15, <1>16 DEF DeliveryInv, Once

\* A broken connection keeps its messages.
LEMMA ResetKeeps ==
  ASSUME DeliveryInv, NEW t \in DOMAIN trans, Reset(t)
  PROVE  DeliveryInv'
<1>0. Types /\ Shape /\ trans \in Seq(Transport)
  BY DEF DeliveryInv, Shape, Types
<1>1. /\ trans' = [trans EXCEPT ![t].up = FALSE]
      /\ UNCHANGED <<script, faults, listening, panicked, nodes, inbox, sender, delayed, sent, received>>
  BY DEF Reset, scenario
<1>2. /\ trans' \in Seq(Transport) /\ DOMAIN trans' = DOMAIN trans
      /\ \A u \in DOMAIN trans : /\ trans'[u].from = trans[u].from /\ trans'[u].to = trans[u].to
                                 /\ trans'[u].queue = trans[u].queue
  <2> DEFINE c == [trans[t] EXCEPT !.up = FALSE]
  <2>1. trans[t] \in Transport
    BY <1>0, TransportAt
  <2>2. /\ c \in Transport /\ c.from = trans[t].from /\ c.to = trans[t].to
        /\ c.queue = trans[t].queue
    BY <2>1 DEF Transport
  <2>3. trans' = [trans EXCEPT ![t] = c]
    BY <1>1
  <2> HIDE DEF c
  <2>4. t \in 1..Len(trans)
    BY <1>0
  <2>5. trans' \in Seq(Transport)
    BY <1>0, <2>2, <2>3, <2>4, ExceptSeq
  <2>6. DOMAIN trans' = DOMAIN trans /\ \A u \in DOMAIN trans : trans'[u] = IF u = t THEN c ELSE trans[u]
    BY <2>3
  <2> QED BY <2>2, <2>5, <2>6
<1>3. Shape'
  <2>1. Bounded'
    BY <1>0, <1>1, <1>2 DEF Shape, Bounded
  <2>2. received' \in [Node -> [Node -> Seq(Msg)]] /\ inbox' \in [Node -> Seq(Msg)]
    BY <1>0, <1>1 DEF Types
  <2> QED BY <1>0, <1>1, <1>2, <2>1, <2>2, ShapeOfQueues
<1>4. SentPast'
  <2>1. Forward(sender, sender')
    BY <1>1 DEF Forward
  <2>2. Types'
    BY <1>3 DEF Shape
  <2> QED BY <2>1, <2>2, <1>0, <1>1, SentStaysPast DEF DeliveryInv
<1>5. \A d \in delayed : d.via \in DOMAIN trans
  BY <1>0 DEF Shape, GoodDelayed
<1>6. Origin'
  BY <1>1, <1>2, <1>5
     DEF DeliveryInv, Origin, OriginTrans, OriginDelayed, OriginInbox, OriginReceived, Queued, Arrived
<1>7. OnceQueued' /\ OnceArrived'
  <2>1. \A u \in DOMAIN trans' : IsInjective(trans'[u].queue)
    BY <1>2 DEF DeliveryInv, Once, OnceQueued
  <2>2. \A u, v \in DOMAIN trans' : u # v /\ trans'[u].to = trans'[v].to
                                    => Queued(u)' \cap Queued(v)' = {}
    BY <1>2 DEF DeliveryInv, Once, OnceQueued, Queued
  <2>3. OnceArrived'
    BY <1>1, <1>2 DEF DeliveryInv, Once, OnceArrived, Queued, Arrived
  <2> QED BY <2>1, <2>2, <2>3 DEF OnceQueued
<1>8. OnceDelayed'
  BY <1>1, <1>2, <1>5 DEF DeliveryInv, Once, OnceDelayed, Queued, Arrived
<1>9. OnceReceived'
  BY <1>1, <1>2, <1>5 DEF DeliveryInv, Once, OnceReceived, Queued, Arrived
<1> QED BY <1>3, <1>4, <1>6, <1>7, <1>8, <1>9 DEF DeliveryInv, Once

-----------------------------------------------------------------------------
(* The theorems on delivery *)

\* Nothing has been sent and no connection is open.
LEMMA InitDelivery ==
  ASSUME Init
  PROVE  DeliveryInv
<1>1. PICK c \in Scenarios : script = c.script
  BY DEF Init
<1>2. script \in [Node -> [Goroutine -> Seq(SUBSET Node)]]
  BY <1>1, ScenarioShape
<1>3. ASSUME NEW n \in Node, NEW g \in Goroutine
      PROVE  /\ Idle(n, g, 1) \in SenderState
             /\ Idle(n, g, 1).pc = "idle" /\ Idle(n, g, 1).tries = 0
  <2>1. Receivers(n, g, 1) \subseteq Node
    <3>1. script[n][g] \in Seq(SUBSET Node)
      BY <1>2
    <3> QED BY <3>1 DEF Receivers
  <2> QED BY <2>1 DEF Idle, SenderState
<1>4. /\ sender \in [Node -> [Goroutine -> SenderState]]
      /\ \A n \in Node, g \in Goroutine : sender[n][g].pc = "idle" /\ sender[n][g].tries = 0
  BY <1>3 DEF Init
<1>5. <<>> \in Seq(Msg) /\ <<>> \in Seq(Transport) /\ trans = <<>> /\ DOMAIN trans = {}
  BY DEF Init
<1>6. \A n, m \in Node : inbox[n] = <<>> /\ sent[n][m] = <<>> /\ received[n][m] = <<>> /\ nodes[n][m] = 0
  BY DEF Init
<1>7. Types
  BY <1>2, <1>4, <1>5 DEF Init, Types
<1>8. Shape
  <2>1. GoodSenders /\ GoodMap
    BY <1>4, <1>6, BoundsNat DEF GoodSenders, GoodSender, GoodMap
  <2>2. GoodDelayed /\ Bounded
    BY <1>5, <1>6, BoundsNat DEF Init, GoodDelayed, Bounded
  <2> QED BY <1>7, <2>1, <2>2 DEF Shape
<1>9. SentPast /\ Origin
  BY <1>5, <1>6, EmptyMembers
     DEF Init, SentPast, Origin, OriginTrans, OriginDelayed, OriginInbox, OriginReceived, Arrived
<1>10. Once
  BY <1>5, <1>6, EmptyMembers
     DEF Init, Once, OnceQueued, OnceDelayed, OnceArrived, OnceReceived, Arrived
<1> QED BY <1>8, <1>9, <1>10 DEF DeliveryInv

\* A step that leaves the messages alone: the start of a node, the faults and
\* their timers.
LEMMA OtherKeeps ==
  ASSUME DeliveryInv, UNCHANGED <<netVars, scenario, panicked>>,
         listening \subseteq listening', listening' \subseteq Node
  PROVE  DeliveryInv'
<1>1. UNCHANGED <<script, panicked, nodes, trans, inbox, sender, delayed, sent, received>>
  BY DEF netVars, scenario
<1>2. Shape'
  <2>1. Types'
    BY <1>1 DEF DeliveryInv, Shape, Types
  <2>2. GoodSenders' /\ GoodMap'
    BY <1>1 DEF DeliveryInv, Shape, GoodSenders, GoodSender, GoodMap, Joins
  <2>3. GoodDelayed' /\ Bounded'
    BY <1>1 DEF DeliveryInv, Shape, GoodDelayed, Bounded
  <2> QED BY <2>1, <2>2, <2>3 DEF Shape
<1>3. Forward(sender, sender')
  BY <1>1 DEF Forward
<1> QED BY <1>1, <1>2, <1>3, QuietStep

\* Every step of a sender, of a transport, of a fault or of a receiver keeps the
\* invariant of delivery.
LEMMA StepDelivery ==
  ASSUME DeliveryInv, [Next]_vars
  PROVE  DeliveryInv'
<1>0. listening \subseteq Node
  BY DEF DeliveryInv, Shape, Types
<1>1. ASSUME NEW n \in Node, NewSocket(n) PROVE DeliveryInv'
  <2>1. UNCHANGED <<netVars, scenario, panicked>> /\ listening' = listening \cup {n}
    BY <1>1 DEF NewSocket
  <2> QED BY <1>0, <2>1, OtherKeeps
<1>2. ASSUME NEW n \in Node, NEW g \in Goroutine, Sending(n, g) PROVE DeliveryInv'
  BY <1>2, SuppressKeeps, LookupKeeps, DialKeeps, DialFailsKeeps, StoreKeeps, PutKeeps DEF Sending
<1>3. ASSUME NEW n \in Node, NEW kind, NEW to, Inject(n, kind, to) \/ CrashForever(n) PROVE DeliveryInv'
  <2>1. UNCHANGED <<netVars, scenario, panicked, listening>>
    BY <1>3 DEF Inject, CrashForever
  <2> QED BY <1>0, <2>1, OtherKeeps
<1>4. ASSUME NEW timer \in timers, Expire(timer) PROVE DeliveryInv'
  <2>1. UNCHANGED <<netVars, scenario, panicked, listening>>
    BY <1>4 DEF Expire
  <2> QED BY <1>0, <2>1, OtherKeeps
<1>5. CASE UNCHANGED vars
  <2>1. UNCHANGED <<netVars, scenario, panicked, listening>>
    BY <1>5 DEF vars, netVars, scenario
  <2> QED BY <1>0, <2>1, OtherKeeps
<1>6. CASE Next
  BY <1>6, <1>1, <1>2, <1>3, <1>4, RecvKeeps, PutDelayedKeeps, TransmitKeeps, ResetKeeps DEF Next
<1> QED BY <1>5, <1>6

\* Whatever several goroutines of a node dial, store, put and delay at the same
\* time, the map and the goroutines hold transports of the right link, a peer is
\* dialled at most Attempts times and no channel exceeds its buffer.
THEOREM SocketTypes == Spec => []TypeOK
<1>1. DeliveryInv => TypeOK
  BY DEF DeliveryInv, Shape, Types, GoodMap, GoodSenders, GoodSender, Bounded, Joins, TypeOK
<1> QED BY <1>1, InitDelivery, StepDelivery, PTL DEF Spec

\* No message is received twice and none that was not sent to the node, for every
\* number of nodes, goroutines and messages and under every injected fault.
THEOREM DeliveredOnce == Spec => []AtMostOnce
<1>1. DeliveryInv => AtMostOnce
  BY DEF DeliveryInv, Once, OnceReceived, Origin, OriginReceived, AtMostOnce
<1> QED BY <1>1, InitDelivery, StepDelivery, PTL DEF Spec

-----------------------------------------------------------------------------
(* The order of the messages on a link that was dialled once *)

\* A later message at the end of a sequence keeps it sorted.
LEMMA AppendSorted ==
  ASSUME NEW s \in Seq(Msg), NEW x \in Msg, NEW m
  PROVE  /\ Sorted(s) /\ (\A y \in ToSet(s) : Before(y, x)) => Sorted(Append(s, x))
         /\ SortedFrom(s, m) /\ (x[1] = m => \A y \in ToSet(s) : y[1] = m => Before(y, x))
              => SortedFrom(Append(s, x), m)
<1>pick. PICK a : a = Append(s, x)
  OBVIOUS
<1>1. /\ DOMAIN a = 1..(Len(s) + 1) /\ DOMAIN s = 1..Len(s) /\ Len(s) \in Nat
      /\ \A i \in 1..Len(s) : a[i] = s[i]
      /\ a[Len(s) + 1] = x
  BY <1>pick, AppendProperties, LenProperties
<1>2. \A i \in DOMAIN s : s[i] \in ToSet(s)
  BY DEF ToSet
<1>3. ASSUME NEW i \in DOMAIN a, NEW j \in DOMAIN a, i < j
      PROVE  /\ i \in DOMAIN s /\ a[i] = s[i]
             /\ (j \in DOMAIN s /\ a[j] = s[j]) \/ a[j] = x
  BY <1>1, <1>3
<1>4. ASSUME Sorted(s), \A y \in ToSet(s) : Before(y, x) PROVE Sorted(a)
  <2> SUFFICES ASSUME NEW i \in DOMAIN a, NEW j \in DOMAIN a, i < j
               PROVE  Before(a[i], a[j])
    BY DEF Sorted
  <2> QED BY <1>2, <1>3, <1>4 DEF Sorted
<1>5. ASSUME SortedFrom(s, m), x[1] = m => \A y \in ToSet(s) : y[1] = m => Before(y, x)
      PROVE  SortedFrom(a, m)
  <2> SUFFICES ASSUME NEW i \in DOMAIN a, NEW j \in DOMAIN a, i < j, a[i][1] = m, a[j][1] = m
               PROVE  Before(a[i], a[j])
    BY DEF SortedFrom
  <2> QED BY <1>2, <1>3, <1>5 DEF SortedFrom
<1> QED BY <1>pick, <1>4, <1>5

\* The rest of a sorted sequence is sorted and comes after the head.
LEMMA TailSorted ==
  ASSUME NEW s \in Seq(Msg), s # <<>>, NEW m
  PROVE  /\ Sorted(s) => Sorted(Tail(s)) /\ \A y \in ToSet(Tail(s)) : Before(Head(s), y)
         /\ SortedFrom(s, m) =>
              /\ SortedFrom(Tail(s), m)
              /\ Head(s)[1] = m => \A y \in ToSet(Tail(s)) : y[1] = m => Before(Head(s), y)
<1>pick. PICK a, h : a = Tail(s) /\ h = Head(s)
  OBVIOUS
<1>1. /\ DOMAIN a = 1..(Len(s) - 1) /\ DOMAIN s = 1..Len(s) /\ Len(s) \in Nat \ {0}
      /\ \A i \in 1..(Len(s) - 1) : a[i] = s[i + 1]
      /\ h = s[1]
  BY <1>pick, HeadTailProperties, LenProperties, EmptySeq
<1>2. ASSUME NEW i \in DOMAIN a
      PROVE  i + 1 \in DOMAIN s /\ a[i] = s[i + 1] /\ 1 \in DOMAIN s /\ 1 < i + 1 /\ i \in Nat
  BY <1>1
<1>3. ASSUME Sorted(s) PROVE Sorted(a) /\ \A y \in ToSet(a) : Before(h, y)
  <2>1. ASSUME NEW i \in DOMAIN a, NEW j \in DOMAIN a, i < j PROVE Before(a[i], a[j])
    <3>1. i + 1 < j + 1
      BY <1>2, <2>1
    <3> QED BY <1>2, <1>3, <3>1 DEF Sorted
  <2>2. ASSUME NEW j \in DOMAIN a PROVE Before(h, a[j])
    BY <1>1, <1>2, <1>3 DEF Sorted
  <2> QED BY <2>1, <2>2 DEF Sorted, ToSet
<1>4. ASSUME SortedFrom(s, m)
      PROVE  SortedFrom(a, m) /\ (h[1] = m => \A y \in ToSet(a) : y[1] = m => Before(h, y))
  <2>1. ASSUME NEW i \in DOMAIN a, NEW j \in DOMAIN a, i < j, a[i][1] = m, a[j][1] = m
        PROVE  Before(a[i], a[j])
    <3>1. i + 1 < j + 1
      BY <1>2, <2>1
    <3> QED BY <1>2, <1>4, <2>1, <3>1 DEF SortedFrom
  <2>2. ASSUME h[1] = m, NEW j \in DOMAIN a, a[j][1] = m PROVE Before(h, a[j])
    BY <1>1, <1>2, <1>4, <2>2 DEF SortedFrom
  <2> QED BY <2>1, <2>2 DEF SortedFrom, ToSet
<1> QED BY <1>pick, <1>3, <1>4

\* Only a slow peer delays, and a peer is slow only where the scenario allows it.
LEMMA StepNoneSlow ==
  ASSUME NoneSlow, [Next]_vars
  PROVE  NoneSlow' /\ faults' = faults
<1>0. faults' = faults
  <2>1. ASSUME NEW n \in Node, NEW g \in Goroutine, Sending(n, g) PROVE faults' = faults
    BY <2>1 DEF Sending, SuppressSend, Lookup, Dial, Store, Put, scenario
  <2>2. ASSUME NEW n \in Node, NewSocket(n) \/ Recv(n) \/ CrashForever(n) PROVE faults' = faults
    BY <2>2 DEF NewSocket, Recv, CrashForever, scenario
  <2>3. ASSUME NEW n, NEW kind, NEW to, Inject(n, kind, to) PROVE faults' = faults
    BY <2>3 DEF Inject, scenario
  <2>4. ASSUME NEW d, PutDelayed(d) PROVE faults' = faults
    BY <2>4 DEF PutDelayed, scenario
  <2>5. ASSUME NEW t, Transmit(t) \/ Reset(t) PROVE faults' = faults
    BY <2>5 DEF Transmit, Reset, scenario
  <2>6. ASSUME NEW timer, Expire(timer) PROVE faults' = faults
    BY <2>6 DEF Expire, scenario
  <2>7. CASE UNCHANGED vars
    BY <2>7 DEF vars
  <2>8. CASE Next
    BY <2>8, <2>1, <2>2, <2>3, <2>4, <2>5, <2>6, Zenon DEF Next
  <2> QED BY <2>7, <2>8
<1>1. ASSUME NEW n \in Node, NEW kind \in faults, NEW to, Inject(n, kind, to) PROVE NoneSlow'
  BY <1>0, <1>1 DEF Inject, NoneSlow, netVars
<1>2. ASSUME NEW n \in Node, CrashForever(n) PROVE NoneSlow'
  BY <1>0, <1>2 DEF CrashForever, NoneSlow, netVars
<1>3. ASSUME NEW timer \in timers, Expire(timer) PROVE NoneSlow'
  BY <1>0, <1>3 DEF Expire, expired, NoneSlow, netVars
<1>4. ASSUME UNCHANGED fault, delayed' \subseteq delayed PROVE NoneSlow'
  BY <1>0, <1>4 DEF NoneSlow
<1>5. ASSUME NEW n \in Node, NEW g \in Goroutine, Put(n, g) PROVE NoneSlow'
  BY <1>0, <1>5 DEF Put, NoneSlow, faultVars
<1>6. ASSUME NEW n \in Node, NEW g \in Goroutine, Sending(n, g) PROVE NoneSlow'
  BY <1>4, <1>5, <1>6 DEF Sending, SuppressSend, Lookup, Dial, Store, faultVars
<1>7. ASSUME NEW n \in Node, NewSocket(n) \/ Recv(n) PROVE NoneSlow'
  BY <1>4, <1>7 DEF NewSocket, Recv, faultVars, netVars
<1>8. ASSUME NEW d \in delayed, PutDelayed(d) PROVE NoneSlow'
  BY <1>4, <1>8 DEF PutDelayed, faultVars
<1>9. ASSUME NEW t \in DOMAIN trans, Transmit(t) \/ Reset(t) PROVE NoneSlow'
  BY <1>4, <1>9 DEF Transmit, Reset, faultVars
<1>10. CASE UNCHANGED vars
  BY <1>4, <1>10 DEF vars
<1>11. ASSUME NEW n \in Node, NEW kind \in faults \ {"halt", "reset"}, NEW to, Inject(n, kind, to)
       PROVE  NoneSlow'
  <2>1. kind \in faults
    OBVIOUS
  <2> QED BY <2>1, <1>1, <1>11
<1>12. CASE Next
  BY <1>12, <1>0, <1>11, <1>2, <1>3, <1>6, <1>7, <1>8, <1>9 DEF Next
<1> QED BY <1>0, <1>10, <1>12

\* What is in a transport from m to n was sent by m, and what m has sent to n
\* comes before what it is about to send.
LEMMA SentBefore ==
  ASSUME DeliveryInv, NEW m \in Node, NEW n \in Node, NEW g \in Goroutine,
         n \in sender[m][g].left, NEW k \in Nat, k = sender[m][g].k,
         NEW x \in ToSet(sent[m][n])
  PROVE  Before(x, <<m, g, k>>)
<1>1. sent[m][n] \in Seq(Msg)
  BY DEF DeliveryInv, Shape, Types
<1>2. x[2] \in Goroutine /\ x[3] \in Nat
  BY <1>1, MemberIndex DEF Msg
<1>3. Past(m, n, x[2], x[3])
  BY DEF DeliveryInv, SentPast
<1> QED BY <1>2, <1>3 DEF Past, Before

\* A step that neither receives nor moves a message keeps the order.
LEMMA OrderQuiet ==
  ASSUME OrderInv, NoneSlow', faults' = faults, UNCHANGED <<inbox, received>>,
         DOMAIN trans \subseteq DOMAIN trans',
         \A t \in DOMAIN trans : /\ trans'[t].from = trans[t].from /\ trans'[t].to = trans[t].to
                                 /\ trans'[t].queue = trans[t].queue,
         \A t \in DOMAIN trans' : t \in DOMAIN trans \/ trans'[t].queue = <<>>
  PROVE  OrderInv'
<1> SUFFICES ASSUME "slow" \notin faults, NEW m \in Node, NEW n \in Node, Single(m, n)'
             PROVE  InSequence(m, n)'
  BY DEF OrderInv
<1>1. Single(m, n)
  BY DEF Single, Joins
<1>2. InSequence(m, n)
  BY <1>1 DEF OrderInv
<1>3. /\ Sorted(received'[m][n]) /\ SortedFrom(inbox'[n], m)
      /\ \A x \in ToSet(received'[m][n]), y \in Arrived(n)' : y[1] = m => Before(x, y)
  BY <1>2 DEF InSequence, Arrived
<1>4. ASSUME NEW t \in DOMAIN trans', Joins(t, m, n)'
      PROVE  /\ Sorted(trans'[t].queue)
             /\ \A x \in ToSet(received'[m][n]), y \in Queued(t)' : Before(x, y)
             /\ \A x \in Arrived(n)', y \in Queued(t)' : x[1] = m => Before(x, y)
  <2>1. CASE t \in DOMAIN trans
    <3>1. Joins(t, m, n) /\ trans'[t].queue = trans[t].queue
      BY <1>4, <2>1 DEF Joins
    <3> QED BY <1>2, <2>1, <3>1 DEF InSequence, Arrived, Queued
  <2>2. CASE trans'[t].queue = <<>>
    BY <2>2, EmptyMembers DEF Sorted, Queued
  <2> QED BY <2>1, <2>2
<1> QED BY <1>3, <1>4 DEF InSequence

\* Put appends the newest message of its goroutine.
LEMMA OrderPut ==
  ASSUME DeliveryInv, OrderInv, NoneSlow', faults' = faults,
         NEW n \in Node, NEW g \in Goroutine, Put(n, g)
  PROVE  OrderInv'
<1> SUFFICES ASSUME "slow" \notin faults, NEW m \in Node, NEW p \in Node, Single(m, p)'
             PROVE  InSequence(m, p)'
  BY DEF OrderInv
<1>pick. PICK to, via, k, msg : /\ to = sender[n][g].to /\ via = sender[n][g].via /\ k = sender[n][g].k
                                /\ msg = <<n, g, k>>
  OBVIOUS
<1>0. Shape /\ sender[n][g] \in SenderState
  <2>1. Shape
    BY DEF DeliveryInv
  <2>2. sender \in [Node -> [Goroutine -> SenderState]]
    BY DEF DeliveryInv, Shape, Types
  <2> QED BY <2>1, <2>2
<1>1. <<"slow", to>> \notin fault[n]
  BY DEF OrderInv, NoneSlow
<1>2. /\ sender[n][g].pc = "put" /\ room(via) /\ trans' = enqueue(via, msg)
      /\ UNCHANGED <<inbox, received>>
  BY <1>pick, <1>1 DEF Put
<1>3. to \in sender[n][g].left /\ Joins(via, n, to) /\ via \in DOMAIN trans
  BY <1>pick, <1>0, <1>2 DEF Shape, GoodSenders, GoodSender, Joins
<1>4. to \in Node /\ k \in Nat /\ msg \in Msg
  BY <1>pick, <1>0 DEF SenderState, Msg
<1>5. /\ trans' \in Seq(Transport) /\ DOMAIN trans' = DOMAIN trans
      /\ \A u \in DOMAIN trans : trans'[u].from = trans[u].from /\ trans'[u].to = trans[u].to
      /\ \A u \in DOMAIN trans : u # via => trans'[u] = trans[u]
      /\ trans'[via].queue = Append(trans[via].queue, msg)
      /\ Queued(via)' = Queued(via) \cup {msg}
  BY <1>0, <1>2, <1>3, <1>4, EnqueueEffect
<1>6. Single(m, p)
  BY <1>5 DEF Single, Joins
<1>7. InSequence(m, p)
  BY <1>6 DEF OrderInv
<1>8. /\ Sorted(received'[m][p]) /\ SortedFrom(inbox'[p], m)
      /\ \A x \in ToSet(received'[m][p]), y \in Arrived(p)' : y[1] = m => Before(x, y)
  BY <1>2, <1>7 DEF InSequence, Arrived
<1>9. ASSUME NEW t \in DOMAIN trans, Joins(t, m, p)
      PROVE  /\ Sorted(trans'[t].queue)
             /\ \A x \in ToSet(received[m][p]), y \in Queued(t)' : Before(x, y)
             /\ \A x \in Arrived(p), y \in Queued(t)' : x[1] = m => Before(x, y)
  <2>0. /\ Sorted(trans[t].queue)
        /\ \A x \in ToSet(received[m][p]), y \in Queued(t) : Before(x, y)
        /\ \A x \in Arrived(p), y \in Queued(t) : x[1] = m => Before(x, y)
    BY <1>7, <1>9 DEF InSequence
  <2>1. CASE t # via
    BY <2>0, <2>1, <1>5 DEF Queued
  <2>2. CASE t = via
    <3>1. m = n /\ p = to
      BY <2>2, <1>3, <1>9 DEF Joins
    <3>2. ASSUME NEW x \in ToSet(sent[m][p]) PROVE Before(x, msg)
      BY <1>pick, <1>3, <1>4, <3>1, <3>2, SentBefore
    <3>3. Queued(t) \subseteq ToSet(sent[m][p])
      BY <1>9 DEF DeliveryInv, Origin, OriginTrans, Joins
    <3>4. \A x \in Arrived(p) : x[1] = m => x \in ToSet(sent[m][p])
      BY DEF DeliveryInv, Origin, OriginInbox
    <3>5. ToSet(received[m][p]) \subseteq ToSet(sent[m][p])
      BY DEF DeliveryInv, Origin, OriginReceived
    <3>6. trans[t].queue \in Seq(Msg)
      BY <1>0, TransportAt DEF Shape, Types
    <3>7. \A y \in ToSet(trans[t].queue) : Before(y, msg)
      BY <3>2, <3>3 DEF Queued
    <3>8. Sorted(trans'[t].queue)
      BY <2>0, <2>2, <3>6, <3>7, <1>4, <1>5, AppendSorted
    <3>9. \A y \in Queued(t)' : y \in Queued(t) \/ y = msg
      BY <2>2, <1>5
    <3> QED BY <2>0, <3>2, <3>4, <3>5, <3>8, <3>9
  <2> QED BY <2>1, <2>2
<1>10. \A t \in DOMAIN trans' : t \in DOMAIN trans /\ (Joins(t, m, p)' => Joins(t, m, p))
  BY <1>5 DEF Joins
<1> QED BY <1>2, <1>8, <1>9, <1>10 DEF InSequence, Arrived

\* Transmit moves the oldest message of the transport behind the newest of the channel.
LEMMA OrderTransmit ==
  ASSUME DeliveryInv, OrderInv, NoneSlow', faults' = faults,
         NEW t \in DOMAIN trans, Transmit(t)
  PROVE  OrderInv'
<1> SUFFICES ASSUME "slow" \notin faults, NEW m \in Node, NEW n \in Node, Single(m, n)'
             PROVE  InSequence(m, n)'
  BY DEF OrderInv
<1>pick. PICK msg, from, to : msg = Head(trans[t].queue) /\ from = trans[t].from /\ to = trans[t].to
  OBVIOUS
<1>0. trans \in Seq(Transport) /\ inbox \in [Node -> Seq(Msg)]
  BY DEF DeliveryInv, Shape, Types
<1>1. /\ trans[t].queue # <<>> /\ trans' = [trans EXCEPT ![t].queue = Tail(@)]
      /\ \/ inbox' = [inbox EXCEPT ![to] = Append(@, msg)]
         \/ inbox' = inbox
      /\ UNCHANGED received
  BY <1>pick DEF Transmit
<1>2. /\ trans' \in Seq(Transport) /\ DOMAIN trans' = DOMAIN trans
      /\ \A u \in DOMAIN trans : trans'[u].from = trans[u].from /\ trans'[u].to = trans[u].to
      /\ \A u \in DOMAIN trans : u # t => trans'[u] = trans[u]
      /\ trans'[t].queue = Tail(trans[t].queue)
      /\ msg \in Msg
      /\ Queued(t) = Queued(t)' \cup {msg}
  BY <1>pick, <1>1, DequeueEffect
<1>3. from \in Node /\ to \in Node /\ trans[t].queue \in Seq(Msg) /\ inbox[to] \in Seq(Msg)
  BY <1>pick, <1>0, TransportAt
<1>4. msg[1] = from
  <2>1. msg \in ToSet(sent[from][to])
    BY <1>pick, <1>2 DEF DeliveryInv, Origin, OriginTrans
  <2> QED BY <1>3, <2>1 DEF DeliveryInv, SentPast
<1>5. Single(m, n)
  BY <1>2 DEF Single, Joins
<1>6. InSequence(m, n)
  BY <1>5 DEF OrderInv
<1>7. \A u \in DOMAIN trans : Queued(u)' \subseteq Queued(u)
  BY <1>2 DEF Queued
<1>8. \A u \in DOMAIN trans' : u \in DOMAIN trans /\ (Joins(u, m, n)' => Joins(u, m, n))
  BY <1>2 DEF Joins
\* What arrives: the message, when the transport leads to n.
<1>9. /\ Arrived(n)' \subseteq Arrived(n) \cup {x \in {msg} : to = n}
      /\ inbox'[n] = inbox[n] \/ (to = n /\ inbox'[n] = Append(inbox[n], msg))
  <2>1. inbox'[n] = inbox[n] \/ (to = n /\ inbox'[n] = Append(inbox[n], msg))
    BY <1>0, <1>1
  <2>2. CASE inbox'[n] = inbox[n]
    BY <2>2, <2>1 DEF Arrived
  <2>3. CASE to = n /\ inbox'[n] = Append(inbox[n], msg)
    <3>1. ToSet(Append(inbox[n], msg)) = ToSet(inbox[n]) \cup {msg}
      BY <1>2, <1>3, <2>3, AppendMember
    <3> QED BY <2>3, <3>1 DEF Arrived
  <2> QED BY <2>1, <2>2, <2>3
<1>10. to = n /\ msg[1] = m => Joins(t, m, n) /\ msg \in Queued(t)
  BY <1>pick, <1>2, <1>4 DEF Joins
<1>11. SortedFrom(inbox'[n], m)
  <2>1. CASE inbox'[n] = inbox[n]
    BY <2>1, <1>6 DEF InSequence
  <2>2. CASE to = n /\ inbox'[n] = Append(inbox[n], msg)
    <3>1. msg[1] = m => \A y \in ToSet(inbox[n]) : y[1] = m => Before(y, msg)
      BY <2>2, <1>6, <1>10 DEF InSequence, Arrived
    <3>2. SortedFrom(inbox[n], m)
      BY <1>6 DEF InSequence
    <3> QED BY <2>2, <3>1, <3>2, <1>2, <1>3, AppendSorted
  <2> QED BY <2>1, <2>2, <1>9
<1>12. \A x \in ToSet(received[m][n]), y \in Arrived(n)' : y[1] = m => Before(x, y)
  BY <1>6, <1>9, <1>10 DEF InSequence
<1>13. ASSUME NEW u \in DOMAIN trans, Joins(u, m, n)
       PROVE  /\ Sorted(trans'[u].queue)
              /\ \A x \in ToSet(received[m][n]), y \in Queued(u)' : Before(x, y)
              /\ \A x \in Arrived(n)', y \in Queued(u)' : x[1] = m => Before(x, y)
  <2>0. /\ Sorted(trans[u].queue)
        /\ \A x \in ToSet(received[m][n]), y \in Queued(u) : Before(x, y)
        /\ \A x \in Arrived(n), y \in Queued(u) : x[1] = m => Before(x, y)
    BY <1>6, <1>13 DEF InSequence
  <2>1. Sorted(trans'[u].queue) /\ (u = t => \A y \in Queued(u)' : Before(msg, y))
    <3>1. CASE u # t
      BY <3>1, <2>0, <1>2
    <3>2. CASE u = t
      BY <3>2, <2>0, <1>pick, <1>1, <1>2, <1>3, TailSorted DEF Queued
    <3> QED BY <3>1, <3>2
  <2>2. ASSUME NEW x \in Arrived(n)', NEW y \in Queued(u)', x[1] = m PROVE Before(x, y)
    <3>1. CASE x \in Arrived(n)
      BY <2>0, <2>2, <3>1, <1>7
    <3>2. CASE x = msg /\ to = n
      <4>1. u = t
        BY <1>5, <1>10, <1>13, <2>2, <3>2 DEF Single
      <4> QED BY <2>1, <3>2, <4>1
    <3> QED BY <3>1, <3>2, <1>9
  <2> QED BY <2>0, <2>1, <2>2, <1>7
<1>14. Sorted(received[m][n])
  BY <1>6 DEF InSequence
<1> QED BY <1>1, <1>8, <1>11, <1>12, <1>13, <1>14 DEF InSequence

\* Recv takes the oldest message of the channel.
LEMMA OrderRecv ==
  ASSUME DeliveryInv, OrderInv, NoneSlow', faults' = faults, NEW p \in Node, Recv(p)
  PROVE  OrderInv'
<1> SUFFICES ASSUME "slow" \notin faults, NEW m \in Node, NEW n \in Node, Single(m, n)'
             PROVE  InSequence(m, n)'
  BY DEF OrderInv
<1>pick. PICK msg : msg = Head(inbox[p])
  OBVIOUS
<1>0. inbox \in [Node -> Seq(Msg)] /\ received \in [Node -> [Node -> Seq(Msg)]]
  BY DEF DeliveryInv, Shape, Types
<1>1. /\ inbox[p] # <<>> /\ inbox' = [inbox EXCEPT ![p] = Tail(inbox[p])]
      /\ received' = received \/ received' = [received EXCEPT ![msg[1]][p] = Append(@, msg)]
      /\ UNCHANGED trans
  BY <1>pick DEF Recv
<1>2. /\ inbox'[p] = Tail(inbox[p]) /\ inbox[p] \in Seq(Msg)
      /\ n # p => inbox'[n] = inbox[n]
  BY <1>0, <1>1
<1>3. msg \in Msg /\ Arrived(p) = Arrived(p)' \cup {msg}
  BY <1>pick, <1>1, <1>2, TailMembers DEF Arrived
<1>4. Arrived(n)' \subseteq Arrived(n)
  BY <1>2, <1>3 DEF Arrived
<1>5. Single(m, n)
  BY <1>1 DEF Single, Joins
<1>6. InSequence(m, n)
  BY <1>5 DEF OrderInv
<1>7. /\ SortedFrom(inbox'[n], m)
      /\ n = p /\ msg[1] = m => \A y \in Arrived(n)' : y[1] = m => Before(msg, y)
  <2>1. CASE n # p
    BY <2>1, <1>2, <1>6 DEF InSequence
  <2>2. CASE n = p
    BY <2>2, <1>pick, <1>1, <1>2, <1>6, TailSorted DEF InSequence, Arrived
  <2> QED BY <2>1, <2>2
<1>8. \/ received'[m][n] = received[m][n]
      \/ n = p /\ msg[1] = m /\ received'[m][n] = Append(received[m][n], msg)
  <2>pick. PICK q : q = msg[1]
    OBVIOUS
  <2>1. CASE received' = [received EXCEPT ![q][p] = Append(@, msg)]
    <3>pick. PICK a : a = Append(received[q][p], msg)
      OBVIOUS
    <3>1. received' = [received EXCEPT ![q][p] = a]
      BY <3>pick, <2>1
    <3>2. m = q /\ n = p => received'[m][n] = a
      BY <3>1, <1>0
    <3>3. m # q \/ n # p => received'[m][n] = received[m][n]
      BY <3>1, <1>0
    <3> QED BY <2>pick, <3>pick, <3>2, <3>3
  <2> QED BY <2>pick, <2>1, <1>1
<1>9. n = p /\ msg[1] = m => \A x \in ToSet(received[m][n]) : Before(x, msg)
  BY <1>3, <1>6 DEF InSequence
<1>10. /\ Sorted(received'[m][n])
       /\ \A x \in ToSet(received'[m][n]) :
            x \in ToSet(received[m][n]) \/ (x = msg /\ n = p /\ msg[1] = m)
  <2>0. Sorted(received[m][n]) /\ received[m][n] \in Seq(Msg)
    BY <1>0, <1>6 DEF InSequence
  <2>1. CASE received'[m][n] = received[m][n]
    BY <2>0, <2>1
  <2>2. CASE n = p /\ msg[1] = m /\ received'[m][n] = Append(received[m][n], msg)
    <3>1. Sorted(Append(received[m][n], msg))
      BY <2>0, <2>2, <1>3, <1>9, AppendSorted
    <3>2. ToSet(Append(received[m][n], msg)) = ToSet(received[m][n]) \cup {msg}
      BY <2>0, <1>3, AppendMember
    <3> QED BY <2>2, <3>1, <3>2
  <2> QED BY <2>1, <2>2, <1>8
<1>11. \A x \in ToSet(received'[m][n]), y \in Arrived(n)' : y[1] = m => Before(x, y)
  BY <1>4, <1>6, <1>7, <1>10 DEF InSequence
<1>12. ASSUME NEW t \in DOMAIN trans, Joins(t, m, n)
       PROVE  /\ Sorted(trans[t].queue)
              /\ \A x \in ToSet(received'[m][n]), y \in Queued(t) : Before(x, y)
              /\ \A x \in Arrived(n)', y \in Queued(t) : x[1] = m => Before(x, y)
  <2>0. /\ Sorted(trans[t].queue)
        /\ \A x \in ToSet(received[m][n]), y \in Queued(t) : Before(x, y)
        /\ \A x \in Arrived(n), y \in Queued(t) : x[1] = m => Before(x, y)
    BY <1>6, <1>12 DEF InSequence
  <2>1. n = p => msg \in Arrived(n)
    BY <1>3
  <2> QED BY <2>0, <2>1, <1>4, <1>10
<1>13. \A t \in DOMAIN trans' : /\ t \in DOMAIN trans /\ (Joins(t, m, n)' => Joins(t, m, n))
                                /\ trans'[t] = trans[t] /\ Queued(t)' = Queued(t)
  BY <1>1 DEF Joins, Queued
<1> QED BY <1>7, <1>10, <1>11, <1>12, <1>13 DEF InSequence

\* At the start nothing is in flight.
LEMMA InitOrder ==
  ASSUME Init
  PROVE  OrderInv
<1>1. NoneSlow
  BY DEF Init, NoneSlow
<1>2. ASSUME NEW m \in Node, NEW n \in Node PROVE InSequence(m, n)
  <2>1. inbox[n] = <<>> /\ received[m][n] = <<>> /\ DOMAIN trans = {}
    BY DEF Init
  <2> QED BY <2>1, EmptyMembers DEF InSequence, Sorted, SortedFrom, Arrived
<1> QED BY <1>1, <1>2 DEF OrderInv

\* Every step keeps what one goroutine sends in sequence, while nothing is slow.
LEMMA StepOrder ==
  ASSUME DeliveryInv, OrderInv, [Next]_vars
  PROVE  OrderInv'
<1>0. NoneSlow' /\ faults' = faults
  BY StepNoneSlow DEF OrderInv
<1>1. ASSUME UNCHANGED <<inbox, received, trans>> PROVE OrderInv'
  BY <1>0, <1>1, OrderQuiet
<1>2. ASSUME NEW n \in Node, NEW g \in Goroutine, Dial(n, g) PROVE OrderInv'
  <2>1. CASE UNCHANGED trans
    BY <2>1, <1>1, <1>2 DEF Dial
  <2>2. CASE trans' = Append(trans, [from |-> n, to |-> sender[n][g].to, queue |-> <<>>, up |-> TRUE])
    <3>pick. PICK c : c = [from |-> n, to |-> sender[n][g].to, queue |-> <<>>, up |-> TRUE]
      OBVIOUS
    <3>1. c.queue = <<>> /\ trans' = Append(trans, c) /\ trans \in Seq(Transport)
      BY <3>pick, <2>2 DEF DeliveryInv, Shape, Types
    <3>2. /\ DOMAIN trans \subseteq DOMAIN trans'
          /\ \A t \in DOMAIN trans : trans'[t] = trans[t]
          /\ \A t \in DOMAIN trans' : t \in DOMAIN trans \/ trans'[t] = c
      BY <3>1
    <3>3. UNCHANGED <<inbox, received>>
      BY <1>2 DEF Dial
    <3> QED BY <3>1, <3>2, <3>3, <1>0, OrderQuiet
  <2> QED BY <1>2, <2>1, <2>2 DEF Dial
<1>3. ASSUME NEW t \in DOMAIN trans, Reset(t) PROVE OrderInv'
  <2>1. trans' = [trans EXCEPT ![t].up = FALSE] /\ UNCHANGED <<inbox, received>>
    BY <1>3 DEF Reset
  <2>2. trans \in Seq(Transport)
    BY DEF DeliveryInv, Shape, Types
  <2>3. trans[t] \in Transport
    BY <2>2, TransportAt
  <2>4. /\ DOMAIN trans' = DOMAIN trans
        /\ \A u \in DOMAIN trans : /\ trans'[u].from = trans[u].from /\ trans'[u].to = trans[u].to
                                   /\ trans'[u].queue = trans[u].queue
    BY <2>1, <2>3 DEF Transport
  <2> QED BY <2>1, <2>4, <1>0, OrderQuiet
<1>4. ASSUME NEW d \in delayed, PutDelayed(d) PROVE OrderInv'
  <2>1. "slow" \in faults
    BY DEF OrderInv, NoneSlow
  <2> QED BY <2>1, <1>0 DEF OrderInv
<1>5. ASSUME NEW n \in Node, NEW g \in Goroutine, Sending(n, g) PROVE OrderInv'
  <2>1. ASSUME NEW to \in Node, SuppressSend(n, g, to) \/ Lookup(n, g, to) PROVE OrderInv'
    BY <2>1, <1>1 DEF SuppressSend, Lookup
  <2>2. CASE Store(n, g)
    BY <2>2, <1>1 DEF Store
  <2>3. CASE Put(n, g)
    BY <2>3, <1>0, OrderPut
  <2> QED BY <1>2, <1>5, <2>1, <2>2, <2>3 DEF Sending
<1>6. ASSUME NEW n \in Node, NewSocket(n) \/ CrashForever(n) PROVE OrderInv'
  BY <1>6, <1>1 DEF NewSocket, CrashForever, netVars
<1>7. ASSUME NEW n, NEW kind, NEW to, Inject(n, kind, to) PROVE OrderInv'
  BY <1>7, <1>1 DEF Inject, netVars
<1>8. ASSUME NEW timer, Expire(timer) PROVE OrderInv'
  BY <1>8, <1>1 DEF Expire, netVars
<1>9. CASE UNCHANGED vars
  BY <1>9, <1>1 DEF vars
<1>10. CASE Next
  BY <1>10, <1>0, <1>3, <1>4, <1>5, <1>6, <1>7, <1>8, OrderRecv, OrderTransmit DEF Next
<1> QED BY <1>9, <1>10

\* A goroutine's messages to a peer arrive in the order of its calls, in every
\* instance: unless a peer is slow or the link was dialled twice, and through every
\* other fault and every broken connection.
THEOREM DeliveredInOrder == Spec => []OrderedUnlessRedialled
<1>1. DeliveryInv /\ OrderInv => OrderedUnlessRedialled
  <2> SUFFICES ASSUME DeliveryInv, OrderInv, NEW m \in Node, NEW n \in Node, "slow" \notin faults,
                      Cardinality(dialled(m, n)) <= 1
               PROVE  Sorted(received[m][n])
    BY DEF OrderedUnlessRedialled
  <2>1. trans \in Seq(Transport)
    BY DEF DeliveryInv, Shape, Types
  <2>2. IsFiniteSet(dialled(m, n))
    <3>1. DOMAIN trans = 1..Len(trans) /\ Len(trans) \in Nat
      BY <2>1
    <3>2. IsFiniteSet(1..Len(trans))
      BY <3>1, FS_Interval
    <3> QED BY <3>1, <3>2, FS_Subset DEF dialled
  <2>3. ASSUME NEW t \in DOMAIN trans, NEW u \in DOMAIN trans, Joins(t, m, n), Joins(u, m, n) PROVE t = u
    <3>1. t \in dialled(m, n) /\ u \in dialled(m, n)
      BY <2>3 DEF dialled, Joins
    <3>2. Cardinality(dialled(m, n)) = 1
      <4>1. Cardinality(dialled(m, n)) # 0
        BY <2>2, <3>1, FS_EmptySet
      <4>2. Cardinality(dialled(m, n)) \in Nat
        BY <2>2, FS_CardinalityType
      <4> QED BY <4>1, <4>2
    <3>3. \E x : dialled(m, n) = {x}
      BY <2>2, <3>2, FS_Singleton
    <3> QED BY <3>1, <3>3
  <2>4. InSequence(m, n)
    BY <2>3 DEF OrderInv, Single
  <2> QED BY <2>4 DEF InSequence
<1>2. Init => DeliveryInv /\ OrderInv
  BY InitDelivery, InitOrder
<1>3. DeliveryInv /\ OrderInv /\ [Next]_vars => (DeliveryInv /\ OrderInv)'
  BY StepDelivery, StepOrder
<1> QED BY <1>1, <1>2, <1>3, PTL DEF Spec

-----------------------------------------------------------------------------
(* The links *)

\* One step of MessagesOf.
Added(x, msg, m) == IF msg[1] = m THEN Append(x, msg) ELSE x

\* The walk of MessagesOf over the first n messages.
Walk(f, s, m, n) ==
  f = [i \in 0..n |-> IF i = 0 THEN <<>> ELSE Added(f[i - 1], s[i], m)]

\* It exists.
LEMMA WalkExists ==
  ASSUME NEW s \in Seq(Msg), NEW m
  PROVE  \A n \in 0..Len(s) : \E f : Walk(f, s, m, n)
<1> DEFINE T == {n \in 0..Len(s) : ~ \E f : Walk(f, s, m, n)}
<1> SUFFICES ASSUME T # {} PROVE FALSE
  OBVIOUS
<1>0. Len(s) \in Nat /\ T \subseteq Nat
  OBVIOUS
<1>1. PICK n \in T : \A k \in T : ~ (k < n)
  BY <1>0, LeastNat
<1>2. CASE n = 0
  <2>1. Walk([i \in 0..0 |-> <<>>], s, m, 0)
    BY DEF Walk
  <2> QED BY <1>1, <1>2, <2>1
<1>3. CASE n # 0
  <2>1. n - 1 \in 0..Len(s) /\ n - 1 < n /\ n \in Nat
    BY <1>0, <1>1, <1>3
  <2>2. PICK f : Walk(f, s, m, n - 1)
    BY <1>1, <2>1
  <2> DEFINE g == [i \in 0..n |-> IF i = n THEN Added(f[n - 1], s[n], m) ELSE f[i]]
  <2>3. \A i \in 0..(n - 1) : f[i] = IF i = 0 THEN <<>> ELSE Added(f[i - 1], s[i], m)
    BY <2>2 DEF Walk
  <2>4. \A i \in 0..(n - 1) : g[i] = f[i]
    BY <2>1
  <2>5. g[n] = Added(f[n - 1], s[n], m)
    BY <2>1
  <2>6. ASSUME NEW i \in 0..n
        PROVE  g[i] = IF i = 0 THEN <<>> ELSE Added(g[i - 1], s[i], m)
    <3> HIDE DEF g
    <3>1. CASE i = n
      <4>1. g[n - 1] = f[n - 1]
        BY <2>1, <2>4
      <4> QED BY <1>3, <2>5, <3>1, <4>1
    <3>2. CASE i # n
      <4>1. i \in 0..(n - 1) /\ (i # 0 => i - 1 \in 0..(n - 1))
        BY <2>1, <3>2
      <4>2. g[i] = f[i] /\ (i # 0 => g[i - 1] = f[i - 1])
        BY <2>4, <4>1
      <4> QED BY <2>3, <4>1, <4>2
    <3> QED BY <3>1, <3>2
  <2>7. g = [i \in 0..n |-> g[i]]
    OBVIOUS
  <2> HIDE DEF g
  <2>8. Walk(g, s, m, n)
    BY <2>6, <2>7 DEF Walk
  <2> QED BY <1>1, <2>8
<1> QED BY <1>2, <1>3

\* It is unique and gives sequences.
LEMMA WalkUnique ==
  ASSUME NEW s \in Seq(Msg), NEW t \in Seq(Msg), NEW m, NEW n \in 0..Len(s), NEW k \in 0..Len(t),
         n <= k, \A i \in 1..n : s[i] = t[i],
         NEW f, Walk(f, s, m, n), NEW g, Walk(g, t, m, k)
  PROVE  \A i \in 0..n : f[i] = g[i]
<1> DEFINE T == {i \in 0..n : f[i] # g[i]}
<1> SUFFICES ASSUME T # {} PROVE FALSE
  OBVIOUS
<1>0. n \in Nat /\ k \in Nat /\ T \subseteq Nat
  OBVIOUS
<1>1. PICK i \in T : \A j \in T : ~ (j < i)
  BY <1>0, LeastNat
<1>2. /\ f[i] = IF i = 0 THEN <<>> ELSE Added(f[i - 1], s[i], m)
      /\ g[i] = IF i = 0 THEN <<>> ELSE Added(g[i - 1], t[i], m)
  <2>1. i \in 0..n /\ i \in 0..k
    BY <1>0, <1>1
  <2> QED BY <2>1 DEF Walk
<1>3. i # 0
  BY <1>1, <1>2
<1>4. i - 1 \in 0..n /\ i - 1 < i /\ i \in 1..n
  BY <1>0, <1>1, <1>3
<1>5. f[i - 1] = g[i - 1]
  BY <1>1, <1>4
<1> QED BY <1>1, <1>2, <1>3, <1>4, <1>5

LEMMA WalkType ==
  ASSUME NEW s \in Seq(Msg), NEW m, NEW n \in 0..Len(s), NEW f, Walk(f, s, m, n)
  PROVE  \A i \in 0..n : f[i] \in Seq(Msg)
<1> DEFINE T == {i \in 0..n : f[i] \notin Seq(Msg)}
<1> SUFFICES ASSUME T # {} PROVE FALSE
  OBVIOUS
<1>0. n \in Nat /\ T \subseteq Nat
  OBVIOUS
<1>1. PICK i \in T : \A j \in T : ~ (j < i)
  BY <1>0, LeastNat
<1>2. f[i] = IF i = 0 THEN <<>> ELSE Added(f[i - 1], s[i], m)
  <2>1. i \in 0..n
    BY <1>1
  <2> QED BY <2>1 DEF Walk
<1>3. i # 0
  <2>1. <<>> \in Seq(Msg) /\ f[i] \notin Seq(Msg)
    BY <1>1
  <2> QED BY <1>2, <2>1
<1>4. i - 1 \in 0..n /\ i - 1 < i /\ i \in 1..Len(s)
  BY <1>0, <1>1, <1>3
<1>5. f[i - 1] \in Seq(Msg)
  BY <1>1, <1>4
<1>6. s[i] \in Msg
  BY <1>4
<1>7. Append(f[i - 1], s[i]) \in Seq(Msg)
  BY <1>5, <1>6, AppendProperties
<1>8. f[i] \in Seq(Msg)
  BY <1>2, <1>3, <1>5, <1>7 DEF Added
<1> QED BY <1>1, <1>8

LEMMA MessagesOfIs ==
  ASSUME NEW s \in Seq(Msg), NEW m, NEW f, Walk(f, s, m, Len(s))
  PROVE  MessagesOf(s, m) = f[Len(s)] /\ f[Len(s)] \in Seq(Msg)
<1> DEFINE upTo[i \in 0..Len(s)] ==
             IF i = 0 THEN <<>>
             ELSE IF s[i][1] = m THEN Append(upTo[i - 1], s[i]) ELSE upTo[i - 1]
<1>1. f = [i \in 0..Len(s) |-> IF i = 0 THEN <<>>
                              ELSE IF s[i][1] = m THEN Append(f[i - 1], s[i]) ELSE f[i - 1]]
  BY DEF Walk, Added
<1>2. upTo = [i \in 0..Len(s) |-> IF i = 0 THEN <<>>
                              ELSE IF s[i][1] = m THEN Append(upTo[i - 1], s[i]) ELSE upTo[i - 1]]
  BY <1>1
<1>3. MessagesOf(s, m) = upTo[Len(s)]
  BY DEF MessagesOf
<1> HIDE DEF upTo
<1>4. Walk(upTo, s, m, Len(s))
  BY <1>2 DEF Walk, Added
<1>5. Len(s) \in Nat /\ Len(s) \in 0..Len(s)
  OBVIOUS
<1>6. upTo[Len(s)] = f[Len(s)]
  BY <1>4, <1>5, WalkUnique
<1>7. f[Len(s)] \in Seq(Msg)
  BY <1>5, WalkType
<1> QED BY <1>3, <1>6, <1>7

\* MessagesOf goes through a sequence as SelectSeq does: from its end ...
LEMMA MessagesOfAppend ==
  ASSUME NEW s \in Seq(Msg), NEW m, NEW x \in Msg
  PROVE  /\ MessagesOf(s, m) \in Seq(Msg)
         /\ MessagesOf(Append(s, x), m) = Added(MessagesOf(s, m), x, m)
<1>pick. PICK t, l : t = Append(s, x) /\ l = Len(s)
  OBVIOUS
<1>1. /\ t \in Seq(Msg) /\ Len(t) = l + 1 /\ l \in Nat /\ t[l + 1] = x
      /\ \A i \in 1..l : t[i] = s[i]
  BY <1>pick, AppendProperties
<1>2. l \in 0..Len(s) /\ l + 1 \in 0..Len(t) /\ l \in 0..l /\ l + 1 \in 0..(l + 1)
  BY <1>pick, <1>1
<1>3. PICK f : Walk(f, s, m, l)
  BY <1>2, WalkExists
<1>4. PICK g : Walk(g, t, m, l + 1)
  BY <1>1, <1>2, WalkExists
<1>5. MessagesOf(s, m) = f[l] /\ f[l] \in Seq(Msg)
  BY <1>3, <1>pick, MessagesOfIs
<1>6. MessagesOf(t, m) = g[l + 1]
  BY <1>1, <1>4, MessagesOfIs
<1>7. l <= l + 1 /\ \A i \in 1..l : s[i] = t[i]
  BY <1>1
<1>8. \A i \in 0..l : f[i] = g[i]
  <2>pick. PICK k : k = l + 1
    OBVIOUS
  <2>1. l \in 0..Len(s) /\ k \in 0..Len(t) /\ l <= k /\ Walk(g, t, m, k)
    BY <2>pick, <1>2, <1>4, <1>7
  <2>2. t \in Seq(Msg) /\ \A i \in 1..l : s[i] = t[i]
    BY <1>1
  <2>3. ASSUME NEW i \in 0..l PROVE f[i] = g[i]
    BY <2>1, <2>2, <1>3, WalkUnique
  <2> QED BY <2>3
<1>9. g[l + 1] = Added(g[l], x, m)
  <2>1. l + 1 # 0 /\ (l + 1) - 1 = l
    BY <1>1
  <2>2. g[l + 1] = Added(g[(l + 1) - 1], t[l + 1], m)
    BY <1>2, <1>4, <2>1 DEF Walk
  <2> QED BY <1>1, <2>1, <2>2
<1> QED BY <1>pick, <1>2, <1>5, <1>6, <1>8, <1>9

\* ... as well as from its head.
LEMMA MessagesOfTail ==
  ASSUME NEW s \in Seq(Msg), NEW m, s # <<>>
  PROVE  /\ Head(s) \in Msg /\ Tail(s) \in Seq(Msg) /\ MessagesOf(Tail(s), m) \in Seq(Msg)
         /\ MessagesOf(s, m) = IF Head(s)[1] = m THEN <<Head(s)>> \o MessagesOf(Tail(s), m)
                               ELSE MessagesOf(Tail(s), m)
<1>pick. PICK h, t, l : h = Head(s) /\ t = Tail(s) /\ l = Len(t)
  OBVIOUS
<1>1. /\ h \in Msg /\ t \in Seq(Msg) /\ Len(s) = l + 1 /\ l \in Nat /\ s[1] = h
      /\ \A i \in 1..l : t[i] = s[i + 1]
  BY <1>pick, HeadTailProperties, LenProperties, EmptySeq
<1>2. l \in 0..Len(t) /\ l + 1 \in 0..Len(s) /\ l \in 0..l
  BY <1>pick, <1>1
<1>3. PICK f : Walk(f, t, m, l)
  BY <1>1, <1>2, WalkExists
<1>4. \A i \in 0..l : f[i] \in Seq(Msg)
  BY <1>1, <1>2, <1>3, WalkType
<1> DEFINE first == IF h[1] = m THEN <<h>> ELSE <<>>
           g == [i \in 0..(l + 1) |-> IF i = 0 THEN <<>> ELSE first \o f[i - 1]]
<1>5. first \in Seq(Msg) /\ first \o <<>> = first /\ first = Added(<<>>, h, m)
  BY <1>1 DEF Added
<1>6. \A i \in 1..l : f[i] = Added(f[i - 1], t[i], m)
  BY <1>1, <1>3 DEF Walk
<1>6a. f[0] = <<>>
  BY <1>1, <1>3 DEF Walk
<1>7. ASSUME NEW i \in 0..(l + 1)
      PROVE  g[i] = IF i = 0 THEN <<>> ELSE Added(g[i - 1], s[i], m)
  <2>1. CASE i = 0
    BY <2>1
  <2>2. CASE i = 1
    <3>1. g[1] = first \o f[0] /\ g[0] = <<>>
      <4>1. 0 \in 0..(l + 1) /\ 1 \in 0..(l + 1) /\ 1 - 1 = 0
        BY <1>1
      <4> HIDE DEF first
      <4> QED BY <4>1
    <3> HIDE DEF g, first
    <3> QED BY <2>2, <3>1, <1>1, <1>5, <1>6a
  <2>3. CASE i # 0 /\ i # 1
    <3>1. i - 1 \in 1..l /\ i - 1 \in 0..(l + 1) /\ (i - 1) - 1 \in 0..l /\ (i - 1) + 1 = i
      BY <1>1, <2>3
    <3>2. g[i] = first \o f[i - 1] /\ g[i - 1] = first \o f[(i - 1) - 1]
      <4>1. i - 1 # 0
        BY <3>1
      <4> HIDE DEF first
      <4> QED BY <2>3, <3>1, <4>1
    <3> HIDE DEF g, first
    <3>3. f[i - 1] = Added(f[(i - 1) - 1], s[i], m)
      BY <1>1, <1>6, <3>1
    <3>4. s[i] \in Msg
      BY <1>1, <2>3
    <3>5. first \o Append(f[(i - 1) - 1], s[i]) = Append(first \o f[(i - 1) - 1], s[i])
      BY <1>4, <1>5, <3>1, <3>4
    <3> QED BY <2>3, <3>2, <3>3, <3>5 DEF Added
  <2> QED BY <2>1, <2>2, <2>3
<1>8. g = [i \in 0..(l + 1) |-> g[i]]
  OBVIOUS
<1>9. g[l + 1] = first \o f[l]
  <2>1. l + 1 \in 0..(l + 1) /\ l + 1 # 0 /\ (l + 1) - 1 = l
    BY <1>1
  <2> HIDE DEF first
  <2> QED BY <2>1
<1> HIDE DEF g
<1>10. Walk(g, s, m, Len(s))
  BY <1>1, <1>7, <1>8 DEF Walk
<1>11. MessagesOf(s, m) = first \o f[l]
  BY <1>1, <1>9, <1>10, MessagesOfIs
<1>12. MessagesOf(t, m) = f[l] /\ f[l] \in Seq(Msg)
  BY <1>pick, <1>1, <1>3, MessagesOfIs
<1>13. <<>> \o f[l] = f[l]
  BY <1>12
<1> QED BY <1>pick, <1>1, <1>11, <1>12, <1>13

\* Nothing is of anybody in an empty sequence.
LEMMA MessagesOfEmpty ==
  ASSUME NEW m
  PROVE  MessagesOf(<<>>, m) = <<>>
<1>1. <<>> \in Seq(Msg) /\ Len(<<>>) = 0 /\ 0 \in 0..0
  OBVIOUS
<1>2. PICK f : Walk(f, <<>>, m, 0)
  BY <1>1, WalkExists
<1>3. f[0] = <<>>
  BY <1>1, <1>2 DEF Walk
<1> QED BY <1>1, <1>2, <1>3, MessagesOfIs

-----------------------------------------------------------------------------
(* What the mapping needs *)

\* The scenario is one of those given.
InScenario == \E c \in Scenarios : script = c.script

\* A goroutine that has peers left is at a message of its script.
Scripted ==
  \A n \in Node, g \in Goroutine :
    sender[n][g].left # {} => sender[n][g].k \in DOMAIN script[n][g]

\* A goroutine dials while the map has nothing, and puts into what the map has;
\* only what the map has is not empty.
MapAhead ==
  \A n \in Node, g \in Goroutine :
    /\ sender[n][g].pc \in {"dial", "store"} => nodes[n][sender[n][g].to] = 0
    /\ sender[n][g].pc = "put" => nodes[n][sender[n][g].to] = sender[n][g].via

MapFull ==
  \A t \in DOMAIN trans : trans[t].queue # <<>> => nodes[trans[t].from][trans[t].to] = t

LinkInv == InScenario /\ Scripted /\ (InOrder => MapAhead /\ MapFull)

\* What to send and which faults may happen does not change.
LEMMA ScenarioStays ==
  ASSUME [Next]_vars
  PROVE  UNCHANGED scenario
<1>1. ASSUME NEW n \in Node, NEW g \in Goroutine, Sending(n, g) PROVE UNCHANGED scenario
  BY <1>1 DEF Sending, SuppressSend, Lookup, Dial, Store, Put
<1>2. ASSUME NEW n \in Node, NewSocket(n) \/ Recv(n) \/ CrashForever(n) PROVE UNCHANGED scenario
  BY <1>2 DEF NewSocket, Recv, CrashForever
<1>3. ASSUME NEW n, NEW kind, NEW to, Inject(n, kind, to) PROVE UNCHANGED scenario
  BY <1>3 DEF Inject
<1>4. ASSUME NEW d, PutDelayed(d) PROVE UNCHANGED scenario
  BY <1>4 DEF PutDelayed
<1>5. ASSUME NEW t, Transmit(t) \/ Reset(t) PROVE UNCHANGED scenario
  BY <1>5 DEF Transmit, Reset
<1>6. ASSUME NEW timer, Expire(timer) PROVE UNCHANGED scenario
  BY <1>6 DEF Expire
<1>7. CASE UNCHANGED vars
  BY <1>7 DEF vars, scenario
<1>8. CASE Next
  BY <1>8, <1>1, <1>2, <1>3, <1>4, <1>5, <1>6, Zenon DEF Next
<1> QED BY <1>7, <1>8

\* When Send returns, its goroutine goes on with what the script has.
LEMMA ReturnedScripted ==
  ASSUME Types, Scripted, NEW n \in Node, NEW g \in Goroutine, NEW to \in sender[n][g].left
  PROVE  LET c == returned(n, g, to)
         IN  c.pc = "idle" /\ (c.left # {} => c.k \in DOMAIN script[n][g])
<1> DEFINE s == sender[n][g]
           left == s.left \ {to}
<1>1. CASE left = {}
  <2>1. returned(n, g, to) = Idle(n, g, s.k + 1)
    BY <1>1 DEF returned
  <2> QED BY <2>1 DEF Idle, Receivers
<1>2. CASE left # {}
  <2>1. returned(n, g, to) = [pc |-> "idle", k |-> s.k, left |-> left, to |-> n, via |-> 0, tries |-> 0]
    BY <1>2 DEF returned, Idle
  <2>2. s.k \in DOMAIN script[n][g]
    BY <1>2 DEF Scripted
  <2> QED BY <2>1, <2>2
<1> QED BY <1>1, <1>2

\* In order, one goroutine of a node sends.
LEMMA OneSends ==
  ASSUME Shape, Scripted, InOrder, NEW n \in Node, NEW g \in Goroutine, NEW h \in Goroutine,
         sender[n][g].left # {} \/ sender[n][g].pc # "idle",
         sender[n][h].left # {} \/ sender[n][h].pc # "idle"
  PROVE  g = h
<1>1. sender[n][g].left # {} /\ sender[n][h].left # {}
  BY DEF Shape, GoodSenders, GoodSender
<1>2. script[n][g] # <<>> /\ script[n][h] # <<>>
  BY <1>1 DEF Scripted
<1> QED BY <1>2 DEF InOrder

\* A goroutine moves, and neither the map nor the queues do.
LEMMA SenderMoves ==
  ASSUME Shape, LinkInv, UNCHANGED scenario, NEW n \in Node, NEW g \in Goroutine, NEW c \in SenderState,
         sender' = [sender EXCEPT ![n][g] = c],
         c.left # {} => c.k \in DOMAIN script[n][g]
  PROVE  /\ InScenario' /\ Scripted' /\ (InOrder' => InOrder)
         /\ InOrder /\ UNCHANGED nodes
              /\ (c.pc \in {"dial", "store"} => nodes[n][c.to] = 0)
              /\ (c.pc = "put" => nodes[n][c.to] = c.via)
              => MapAhead'
<1>1. /\ sender'[n][g] = c
      /\ \A x \in Node, y \in Goroutine : x # n \/ y # g => sender'[x][y] = sender[x][y]
  BY MoveSender DEF Shape, Types
<1>2. InScenario' /\ Scripted' /\ (InOrder' => InOrder)
  BY <1>1 DEF LinkInv, InScenario, Scripted, InOrder, scenario
<1>3. ASSUME InOrder, UNCHANGED nodes, c.pc \in {"dial", "store"} => nodes[n][c.to] = 0,
             c.pc = "put" => nodes[n][c.to] = c.via
      PROVE  MapAhead'
  BY <1>1, <1>3 DEF LinkInv, MapAhead
<1> QED BY <1>2, <1>3

-----------------------------------------------------------------------------
(* Steps of Link *)

LinkStep == [L!Next]_(L!vars)

\* Where InOrder does not hold, nothing happens on the links.
LEMMA LinkIdle ==
  ASSUME UNCHANGED scenario, ~ InOrder
  PROVE  LinkStep
<1>1. ~ InOrder'
  BY DEF InOrder, scenario
<1> QED BY <1>1 DEF LinkStep, L!vars, LinkQueue, LinkReceived

\* No link changes.
LEMMA LinkStutters ==
  ASSUME UNCHANGED scenario, UNCHANGED received,
         InOrder => \A m, n \in Node : OnLink(m, n)' = OnLink(m, n)
  PROVE  LinkStep
<1>1. InOrder' = InOrder
  BY DEF InOrder, scenario
<1>2. LinkQueue' = LinkQueue
  BY <1>1 DEF LinkQueue
<1>3. LinkReceived' = LinkReceived
  BY <1>1 DEF LinkReceived
<1> QED BY <1>2, <1>3 DEF LinkStep, L!vars

\* One link changes.
LEMMA LinkChanges ==
  ASSUME InOrder, UNCHANGED scenario, NEW p \in Node, NEW q \in Node, NEW s, OnLink(p, q)' = s,
         \A m, n \in Node : m # p \/ n # q => OnLink(m, n)' = OnLink(m, n)
  PROVE  /\ LinkQueue[p][q] = OnLink(p, q)
         /\ LinkQueue' = [LinkQueue EXCEPT ![p][q] = s]
         /\ LinkReceived = received /\ LinkReceived' = received'
<1>1. InOrder'
  BY DEF InOrder, scenario
<1> DEFINE Q == [m \in Node |-> [n \in Node |-> OnLink(m, n)]]
<1>2. LinkQueue = Q /\ LinkQueue' = Q'
  BY <1>1 DEF LinkQueue
<1>3. Q' = [Q EXCEPT ![p][q] = s]
  <2>1. ASSUME NEW m \in Node
        PROVE  [n \in Node |-> OnLink(m, n)'] = IF m = p THEN [[n \in Node |-> OnLink(p, n)] EXCEPT ![q] = s]
                                                ELSE [n \in Node |-> OnLink(m, n)]
    BY <2>1
  <2> QED BY <2>1
<1>4. LinkReceived = received /\ LinkReceived' = received'
  BY <1>1 DEF LinkReceived
<1> QED BY <1>2, <1>3, <1>4

LEMMA LinkSends ==
  ASSUME InOrder, UNCHANGED scenario, UNCHANGED received, NEW p \in Node, NEW q \in Node,
         NEW msg \in Message, OnLink(p, q)' = Append(OnLink(p, q), msg),
         \A m, n \in Node : m # p \/ n # q => OnLink(m, n)' = OnLink(m, n)
  PROVE  LinkStep
<1>1. L!Send(p, q, msg)
  BY LinkChanges DEF L!Send
<1> QED BY <1>1 DEF LinkStep, L!Next

LEMMA LinkLoses ==
  ASSUME InOrder, UNCHANGED scenario, UNCHANGED received, NEW p \in Node, NEW q \in Node,
         NEW i \in DOMAIN OnLink(p, q), OnLink(p, q)' = RemoveAt(OnLink(p, q), i),
         \A m, n \in Node : m # p \/ n # q => OnLink(m, n)' = OnLink(m, n)
  PROVE  LinkStep
<1>1. /\ LinkQueue[p][q] = OnLink(p, q)
      /\ LinkQueue' = [LinkQueue EXCEPT ![p][q] = RemoveAt(OnLink(p, q), i)]
      /\ LinkReceived = received /\ LinkReceived' = received'
  BY LinkChanges
<1>2. L!Without(OnLink(p, q), i) = RemoveAt(OnLink(p, q), i)
  BY DEF L!Without, L!RemoveAt, RemoveAt
<1>3. i \in DOMAIN LinkQueue[p][q] /\ LinkQueue' = [LinkQueue EXCEPT ![p][q] = L!Without(@, i)]
  <2>pick. PICK s : s = OnLink(p, q)
    OBVIOUS
  <2> QED BY <1>1, <1>2, <2>pick
<1>4. L!Lose(p, q)
  BY <1>1, <1>3 DEF L!Lose
<1> QED BY <1>4 DEF LinkStep, L!Next

LEMMA LinkReceives ==
  ASSUME InOrder, UNCHANGED scenario, NEW p \in Node, NEW q \in Node,
         OnLink(p, q) # <<>>, OnLink(p, q)' = Tail(OnLink(p, q)),
         received' = [received EXCEPT ![p][q] = Append(@, Head(OnLink(p, q)))],
         \A m, n \in Node : m # p \/ n # q => OnLink(m, n)' = OnLink(m, n)
  PROVE  LinkStep
<1>1. /\ LinkQueue[p][q] = OnLink(p, q)
      /\ LinkQueue' = [LinkQueue EXCEPT ![p][q] = Tail(OnLink(p, q))]
      /\ LinkReceived = received /\ LinkReceived' = received'
  BY LinkChanges
<1>2. L!Receive(p, q)
  BY <1>1 DEF L!Receive
<1> QED BY <1>2 DEF LinkStep, L!Next

-----------------------------------------------------------------------------
(* Moving messages along a link *)

LEMMA AlongLink ==
  ASSUME NEW F \in Seq(Msg), NEW Q \in Seq(Msg)
  PROVE  /\ \A x \in Msg : F \o Append(Q, x) = Append(F \o Q, x)
         /\ \A x \in Msg : /\ Head((<<x>> \o F) \o Q) = x /\ Tail((<<x>> \o F) \o Q) = F \o Q
                           /\ (<<x>> \o F) \o Q # <<>> /\ 1 \in DOMAIN ((<<x>> \o F) \o Q)
         /\ Q # <<>> => Append(F, Head(Q)) \o Tail(Q) = F \o Q
         /\ F \o <<>> = F
<1>1. ASSUME NEW x \in Msg PROVE F \o Append(Q, x) = Append(F \o Q, x)
  OBVIOUS
<1>2. ASSUME NEW x \in Msg
      PROVE  /\ Head((<<x>> \o F) \o Q) = x /\ Tail((<<x>> \o F) \o Q) = F \o Q
             /\ (<<x>> \o F) \o Q # <<>> /\ 1 \in DOMAIN ((<<x>> \o F) \o Q)
  <2>pick. PICK s : s = (<<x>> \o F) \o Q
    OBVIOUS
  <2>1. /\ s \in Seq(Msg) /\ Len(s) = 1 + Len(F) + Len(Q) /\ Len(F) \in Nat /\ Len(Q) \in Nat
        /\ s[1] = x
    BY <2>pick
  <2>2. Head(s) = x /\ s # <<>> /\ 1 \in DOMAIN s
    BY <2>1
  <2>3. Tail(s) = F \o Q
    BY <2>pick
  <2> QED BY <2>pick, <2>2, <2>3
<1>3. ASSUME Q # <<>> PROVE Append(F, Head(Q)) \o Tail(Q) = F \o Q
  BY <1>3
<1>4. F \o <<>> = F
  OBVIOUS
<1> QED BY <1>1, <1>2, <1>3, <1>4

\* Losing the first message, and the first of the transport.
LEMMA LoseFirst ==
  ASSUME NEW s \in Seq(Msg), s # <<>>
  PROVE  RemoveAt(s, 1) = Tail(s)
<1>1. SubSeq(s, 1, 1 - 1) = <<>> /\ SubSeq(s, 1 + 1, Len(s)) = Tail(s) /\ Tail(s) \in Seq(Msg)
  OBVIOUS
<1>2. <<>> \o Tail(s) = Tail(s)
  BY <1>1
<1> QED BY <1>1, <1>2 DEF RemoveAt

LEMMA LoseMiddle ==
  ASSUME NEW F \in Seq(Msg), NEW Q \in Seq(Msg), Q # <<>>
  PROVE  /\ Len(F) + 1 \in DOMAIN (F \o Q)
         /\ RemoveAt(F \o Q, Len(F) + 1) = F \o Tail(Q)
<1>pick. PICK s : s = F \o Q
  OBVIOUS
<1>1. /\ s \in Seq(Msg) /\ Len(s) = Len(F) + Len(Q) /\ Len(F) \in Nat /\ Len(Q) \in Nat \ {0}
      /\ \A i \in 1..Len(F) : s[i] = F[i]
      /\ \A i \in 1..Len(Q) : s[Len(F) + i] = Q[i]
  BY <1>pick, EmptySeq
<1>2. SubSeq(s, 1, (Len(F) + 1) - 1) = F
  <2>pick. PICK k, t : k = (Len(F) + 1) - 1 /\ t = SubSeq(s, 1, k)
    OBVIOUS
  <2>1. k = Len(F) /\ k \in Nat /\ k <= Len(s) /\ \A i \in 1..k : s[i] \in Msg
    BY <2>pick, <1>1
  <2>2. t \in Seq(Msg) /\ Len(t) = k /\ \A i \in 1..k : t[i] = s[i]
    BY <2>pick, <2>1, <1>1
  <2>3. t = F
    BY <2>1, <2>2, <1>1, SeqEqual
  <2> QED BY <2>pick, <2>3
<1>3. SubSeq(s, (Len(F) + 1) + 1, Len(s)) = Tail(Q)
  BY <1>1
<1>4. RemoveAt(s, Len(F) + 1) = F \o Tail(Q)
  BY <1>2, <1>3 DEF RemoveAt
<1> QED BY <1>pick, <1>1, <1>4

-----------------------------------------------------------------------------
(* The steps *)

\* The transport in the map.
InMap(m, n) == IF nodes[m][n] = 0 THEN <<>> ELSE trans[nodes[m][n]].queue

LEMMA OnLinkIs ==
  ASSUME Shape, NEW m \in Node, NEW n \in Node
  PROVE  /\ OnLink(m, n) = MessagesOf(inbox[n], m) \o InMap(m, n)
         /\ inbox[n] \in Seq(Msg) /\ MessagesOf(inbox[n], m) \in Seq(Msg)
         /\ InMap(m, n) \in Seq(Msg)
<1>1. inbox[n] \in Seq(Msg) /\ trans \in Seq(Transport)
  BY DEF Shape, Types
<1>2. MessagesOf(inbox[n], m) \in Seq(Msg)
  <2>1. Len(inbox[n]) \in Nat /\ Len(inbox[n]) \in 0..Len(inbox[n])
    BY <1>1
  <2>2. PICK f : Walk(f, inbox[n], m, Len(inbox[n]))
    BY <1>1, <2>1, WalkExists
  <2> QED BY <1>1, <2>2, MessagesOfIs
<1>3. InMap(m, n) \in Seq(Msg)
  <2>1. CASE nodes[m][n] = 0
    BY <2>1 DEF InMap
  <2>2. CASE nodes[m][n] # 0
    <3>1. nodes[m][n] \in DOMAIN trans
      BY <2>2 DEF Shape, GoodMap, Joins
    <3>2. trans[nodes[m][n]].queue \in Seq(Msg)
      BY <1>1, <3>1, TransportAt
    <3> QED BY <2>2, <3>2 DEF InMap
  <2> QED BY <2>1, <2>2
<1>4. OnLink(m, n) = MessagesOf(inbox[n], m) \o InMap(m, n)
  BY DEF OnLink, InMap
<1> QED BY <1>1, <1>2, <1>3, <1>4

\* The links stay when the channels and what is in the map do.
LEMMA SameLinks ==
  ASSUME UNCHANGED inbox, \A m, n \in Node : InMap(m, n)' = InMap(m, n)
  PROVE  \A m, n \in Node : OnLink(m, n)' = OnLink(m, n)
BY DEF OnLink, InMap

\* What Lookup remembers.
LEMMA LookupMoves ==
  ASSUME Types, NEW n \in Node, NEW g \in Goroutine, NEW to \in Node, Lookup(n, g, to)
  PROVE  \E c \in SenderState : /\ sender' = [sender EXCEPT ![n][g] = c]
                                /\ c.k = sender[n][g].k /\ c.left = sender[n][g].left
                                /\ c.to = to /\ c.via = nodes[n][to]
                                /\ c.pc = IF nodes[n][to] = 0 THEN "dial" ELSE "put"
<1> DEFINE s == sender[n][g]
           c == [s EXCEPT !.to = to, !.via = nodes[n][to],
                          !.pc = IF nodes[n][to] = 0 THEN "dial" ELSE "put"]
<1>1. sender' = [sender EXCEPT ![n][g] = c]
  BY DEF Lookup, Types
<1>2. s \in SenderState /\ nodes[n][to] \in Nat
  BY DEF Types
<1>3. /\ c \in SenderState /\ c.k = s.k /\ c.left = s.left /\ c.to = to /\ c.via = nodes[n][to]
      /\ c.pc = IF nodes[n][to] = 0 THEN "dial" ELSE "put"
  BY <1>2 DEF SenderState
<1> HIDE DEF c
<1> QED BY <1>1, <1>3

\* SuppressSend and Lookup move no message.
LEMMA LookupOnLink ==
  ASSUME DeliveryInv, LinkInv, UNCHANGED scenario, NEW n \in Node, NEW g \in Goroutine, NEW to \in Node,
         SuppressSend(n, g, to) \/ Lookup(n, g, to)
  PROVE  LinkInv' /\ LinkStep
<1>0. Shape /\ Types /\ LinkInv
  BY DEF DeliveryInv, Shape
<1>1. sender[n][g].pc = "idle" /\ to \in sender[n][g].left /\ UNCHANGED <<nodes, trans, inbox, received>>
  BY DEF SuppressSend, Lookup
<1>2. PICK c \in SenderState : /\ sender' = [sender EXCEPT ![n][g] = c]
                               /\ c.left # {} => c.k \in DOMAIN script[n][g]
                               /\ c.pc \in {"dial", "store"} => nodes[n][c.to] = 0
                               /\ c.pc = "put" => nodes[n][c.to] = c.via
  <2>1. CASE SuppressSend(n, g, to)
    <3> DEFINE c == returned(n, g, to)
    <3>1. c \in SenderState /\ c.pc = "idle" /\ (c.left # {} => c.k \in DOMAIN script[n][g])
      BY <1>0, <1>1, ReturnedPast, ReturnedScripted DEF LinkInv
    <3>2. sender' = [sender EXCEPT ![n][g] = c]
      BY <2>1 DEF SuppressSend
    <3> HIDE DEF c
    <3> QED BY <3>1, <3>2
  <2>2. CASE Lookup(n, g, to)
    <3>1. sender[n][g].left # {} => sender[n][g].k \in DOMAIN script[n][g]
      BY <1>0 DEF LinkInv, Scripted
    <3> QED BY <1>0, <2>2, <3>1, LookupMoves
  <2> QED BY <2>1, <2>2
<1>3. InScenario' /\ Scripted' /\ (InOrder' => InOrder) /\ (InOrder => MapAhead')
  BY <1>0, <1>1, <1>2, SenderMoves
<1>4. InOrder => MapFull'
  BY <1>1 DEF LinkInv, MapFull
<1>5. LinkInv'
  BY <1>3, <1>4 DEF LinkInv
<1>6. \A m, p \in Node : OnLink(m, p)' = OnLink(m, p)
  BY <1>1, SameLinks DEF InMap
<1> QED BY <1>1, <1>5, <1>6, LinkStutters

\* Neither does a dial: the new transport is empty and not in the map.
LEMMA DialOnLink ==
  ASSUME DeliveryInv, LinkInv, UNCHANGED scenario, NEW n \in Node, NEW g \in Goroutine, Dial(n, g)
  PROVE  LinkInv' /\ LinkStep
<1>0. Shape /\ Types /\ LinkInv
  BY DEF DeliveryInv, Shape
<1>new. PICK new, tr, s : /\ new = Len(trans) + 1 /\ s = sender[n][g]
                          /\ tr = [from |-> n, to |-> s.to, queue |-> <<>>, up |-> TRUE]
  OBVIOUS
<1>1. /\ s.pc = "dial" /\ UNCHANGED <<nodes, inbox, received>>
      /\ \/ /\ trans' = Append(trans, tr)
            /\ sender' = [sender EXCEPT ![n][g].pc = "store", ![n][g].via = new]
         \/ trans' = trans /\ sender' = [sender EXCEPT ![n][g].tries = @ + 1]
  BY <1>new DEF Dial
<1>2. s \in SenderState /\ sender \in [Node -> [Goroutine -> SenderState]] /\ trans \in Seq(Transport)
  BY <1>0, <1>new DEF Types
<1>3. new \in Nat /\ tr.queue = <<>>
  BY <1>2, <1>new
<1>4. PICK c \in SenderState : /\ sender' = [sender EXCEPT ![n][g] = c]
                               /\ c.left = s.left /\ c.k = s.k /\ c.to = s.to
                               /\ c.pc \in {"dial", "store"}
  <2> DEFINE d == [s EXCEPT !.pc = "store", !.via = new]
             e == [s EXCEPT !.tries = s.tries + 1]
  <2>1. sender' = [sender EXCEPT ![n][g] = d] \/ sender' = [sender EXCEPT ![n][g] = e]
    BY <1>1, <1>2, <1>new
  <2>2. /\ d \in SenderState /\ d.left = s.left /\ d.k = s.k /\ d.to = s.to /\ d.pc = "store"
    BY <1>2, <1>3 DEF SenderState
  <2>3. /\ e \in SenderState /\ e.left = s.left /\ e.k = s.k /\ e.to = s.to /\ e.pc = "dial"
    <3>0. s \in SenderState
      BY <1>2
    <3>1. s.tries \in Nat
      BY <3>0 DEF SenderState
    <3>2. s.tries + 1 \in Nat
      BY <3>1
    <3> QED BY <1>1, <3>0, <3>2 DEF SenderState
  <2> HIDE DEF d, e
  <2> QED BY <2>1, <2>2, <2>3
<1>5. s.left # {} => s.k \in DOMAIN script[n][g]
  BY <1>0, <1>new DEF LinkInv, Scripted
<1>6. InOrder => nodes[n][s.to] = 0
  BY <1>0, <1>1, <1>new DEF LinkInv, MapAhead
<1>7. InScenario' /\ Scripted' /\ (InOrder' => InOrder) /\ (InOrder => MapAhead')
  BY <1>0, <1>1, <1>4, <1>5, <1>6, SenderMoves
<1>8. /\ \A t \in DOMAIN trans : t \in DOMAIN trans' /\ trans'[t] = trans[t]
      /\ \A t \in DOMAIN trans' : t \in DOMAIN trans \/ trans'[t].queue = <<>>
  <2>1. CASE trans' = trans
    BY <2>1
  <2>2. CASE trans' = Append(trans, tr)
    <3>1. /\ \A t \in DOMAIN trans : t \in DOMAIN trans' /\ trans'[t] = trans[t]
          /\ \A t \in DOMAIN trans' : t \in DOMAIN trans \/ trans'[t] = tr
      BY <1>2, <2>2
    <3> QED BY <1>3, <3>1
  <2> QED BY <1>1, <2>1, <2>2
<1>9. InOrder => MapFull'
  BY <1>1, <1>8 DEF LinkInv, MapFull
<1>10. LinkInv'
  BY <1>7, <1>9 DEF LinkInv
<1>11. \A m, p \in Node : InMap(m, p)' = InMap(m, p)
  BY <1>0, <1>1, <1>8 DEF Shape, GoodMap, Joins, InMap
<1>12. \A m, p \in Node : OnLink(m, p)' = OnLink(m, p)
  BY <1>1, <1>11, SameLinks
<1> QED BY <1>1, <1>10, <1>12, LinkStutters

\* In order, the goroutine that stores a transport had the link to itself since it
\* found the map empty: what it replaces is nothing, and the new transport is empty.
LEMMA StoreOnLink ==
  ASSUME DeliveryInv, LinkInv, UNCHANGED scenario, NEW n \in Node, NEW g \in Goroutine, Store(n, g)
  PROVE  LinkInv' /\ LinkStep
<1>0. Shape /\ Types /\ LinkInv
  BY DEF DeliveryInv, Shape
<1>new. PICK to, via : to = sender[n][g].to /\ via = sender[n][g].via
  OBVIOUS
<1>1. /\ sender[n][g].pc = "store" /\ UNCHANGED <<trans, inbox, received>>
      /\ nodes' = [nodes EXCEPT ![n][to] = via]
      /\ sender' = [sender EXCEPT ![n][g].pc = "put"]
  BY <1>new DEF Store, stored
<1>2. /\ sender[n][g] \in SenderState /\ sender \in [Node -> [Goroutine -> SenderState]]
      /\ trans \in Seq(Transport) /\ nodes \in [Node -> [Node -> Nat]]
  BY <1>0 DEF Types
<1>3. to \in Node /\ via \in Nat /\ Joins(via, n, to)
  <2>1. to \in Node /\ via \in Nat
    BY <1>new, <1>2 DEF SenderState
  <2> QED BY <1>new, <1>0, <1>1, <2>1 DEF Shape, GoodSenders, GoodSender
<1>4. PICK c \in SenderState : /\ sender' = [sender EXCEPT ![n][g] = c]
                               /\ c.left = sender[n][g].left /\ c.k = sender[n][g].k
                               /\ c.to = to /\ c.via = via /\ c.pc = "put"
  <2> DEFINE s == sender[n][g]
             d == [s EXCEPT !.pc = "put"]
  <2>1. sender' = [sender EXCEPT ![n][g] = d]
    BY <1>1, <1>2
  <2>2. d \in SenderState /\ d.left = s.left /\ d.k = s.k /\ d.to = to /\ d.via = via /\ d.pc = "put"
    BY <1>new, <1>2 DEF SenderState
  <2> HIDE DEF d
  <2> QED BY <2>1, <2>2
<1>5. sender[n][g].left # {} => sender[n][g].k \in DOMAIN script[n][g]
  BY <1>0 DEF LinkInv, Scripted
<1>6. InScenario' /\ Scripted' /\ (InOrder' => InOrder)
  BY <1>0, <1>4, <1>5, SenderMoves
<1>7. /\ nodes'[n][to] = via
      /\ \A x, y \in Node : x # n \/ y # to => nodes'[x][y] = nodes[x][y]
  BY <1>1, <1>2, <1>3
<1>8. /\ sender'[n][g] = c
      /\ \A x \in Node, y \in Goroutine : x # n \/ y # g => sender'[x][y] = sender[x][y]
  BY <1>2, <1>4, MoveSender
<1>9. CASE ~ InOrder
  BY <1>6, <1>9, LinkIdle DEF LinkInv
<1>10. CASE InOrder
  <2>1. MapAhead /\ MapFull
    BY <1>0, <1>10 DEF LinkInv
  <2>2. nodes[n][to] = 0
    BY <1>new, <1>1, <2>1 DEF MapAhead
  <2>3. trans[via].queue = <<>>
    <3>1. via \in DOMAIN trans /\ via # 0
      BY <1>2, <1>3 DEF Joins
    <3> QED BY <1>3, <2>1, <2>2, <3>1 DEF MapFull, Joins
  <2>4. MapAhead'
    <3>1. ASSUME NEW x \in Node, NEW y \in Goroutine
          PROVE  /\ sender'[x][y].pc \in {"dial", "store"} => nodes'[x][sender'[x][y].to] = 0
                 /\ sender'[x][y].pc = "put" => nodes'[x][sender'[x][y].to] = sender'[x][y].via
      <4>1. CASE x = n /\ y = g
        BY <4>1, <1>4, <1>7, <1>8
      <4>2. CASE x = n /\ y # g
        <5>1. sender[x][y].pc = "idle"
          BY <4>2, <1>0, <1>1, <1>10, OneSends DEF LinkInv
        <5> QED BY <4>2, <5>1, <1>8
      <4>3. CASE x # n
        <5>1. sender'[x][y] = sender[x][y] /\ sender[x][y].to \in Node
          BY <4>3, <1>2, <1>8 DEF SenderState
        <5> QED BY <4>3, <5>1, <1>7, <2>1 DEF MapAhead
      <4> QED BY <4>1, <4>2, <4>3
    <3> QED BY <3>1 DEF MapAhead
  <2>5. MapFull'
    <3>1. ASSUME NEW t \in DOMAIN trans, trans[t].queue # <<>>
          PROVE  nodes'[trans[t].from][trans[t].to] = t
      <4>1. nodes[trans[t].from][trans[t].to] = t /\ t # 0
        BY <1>2, <3>1, <2>1 DEF MapFull
      <4>2. trans[t].from \in Node /\ trans[t].to \in Node
        BY <1>2, TransportAt
      <4> QED BY <4>1, <4>2, <1>7, <2>2
    <3> QED BY <1>1, <3>1 DEF MapFull
  <2>6. LinkInv'
    BY <1>6, <2>4, <2>5 DEF LinkInv
  <2>7. ASSUME NEW m \in Node, NEW p \in Node PROVE InMap(m, p)' = InMap(m, p)
    <3>1. CASE m = n /\ p = to
      <4>1. via # 0
        BY <1>2, <1>3 DEF Joins
      <4> QED BY <3>1, <4>1, <1>1, <1>7, <2>2, <2>3 DEF InMap
    <3>2. CASE m # n \/ p # to
      BY <3>2, <1>1, <1>7 DEF InMap
    <3> QED BY <3>1, <3>2
  <2>8. \A m, p \in Node : OnLink(m, p)' = OnLink(m, p)
    BY <1>1, <2>7, SameLinks
  <2> QED BY <1>1, <2>6, <2>8, LinkStutters
<1> QED BY <1>9, <1>10
\* A message is one of the scenario's.
LEMMA ScriptedMessage ==
  ASSUME Shape, InScenario, NEW n \in Node, NEW g \in Goroutine, NEW k \in DOMAIN script[n][g]
  PROVE  <<n, g, k>> \in Message
<1>1. PICK c \in Scenarios : script = c.script
  BY DEF InScenario
<1>2. <<n, g, k>> \in {<<n, g, j>> : j \in DOMAIN c.script[n][g]}
  BY <1>1
<1> DEFINE U == {{<<x, y, j>> : j \in DOMAIN d.script[x][y]} :
                   d \in Scenarios, x \in Node, y \in Goroutine}
<1>3. {<<n, g, j>> : j \in DOMAIN c.script[n][g]} \in U
  OBVIOUS
<1>4. Message = UNION U
  BY DEF Message
<1> HIDE DEF U
<1> QED BY <1>2, <1>3, <1>4

\* A message is put at the end of the link: nothing is delayed, and the channel
\* is the one that the map has.
LEMMA PutOnLink ==
  ASSUME DeliveryInv, OrderInv, LinkInv, UNCHANGED scenario, NEW n \in Node, NEW g \in Goroutine, Put(n, g)
  PROVE  LinkInv' /\ LinkStep
<1>0. Shape /\ Types /\ LinkInv
  BY DEF DeliveryInv, Shape
<1>new. PICK to, via, k, msg : /\ to = sender[n][g].to /\ via = sender[n][g].via /\ k = sender[n][g].k
                               /\ msg = <<n, g, k>>
  OBVIOUS
<1>1. /\ sender[n][g].pc = "put" /\ UNCHANGED <<nodes, inbox, received>>
      /\ sender' = [sender EXCEPT ![n][g] = returned(n, g, to)]
      /\ <<"slow", to>> \notin fault[n] => room(via) /\ trans' = enqueue(via, msg)
  BY <1>new DEF Put
<1>2. /\ sender[n][g] \in SenderState /\ trans \in Seq(Transport)
  BY <1>0 DEF Types
<1>3. to \in Node /\ k \in Nat /\ to \in sender[n][g].left /\ Joins(via, n, to)
  <2>1. to \in Node /\ k \in Nat
    BY <1>new, <1>2 DEF SenderState
  <2> QED BY <1>new, <1>0, <1>1, <2>1 DEF Shape, GoodSenders, GoodSender
<1>4. PICK c \in SenderState : /\ sender' = [sender EXCEPT ![n][g] = c]
                               /\ c.pc = "idle" /\ (c.left # {} => c.k \in DOMAIN script[n][g])
  <2> DEFINE d == returned(n, g, to)
  <2>1. d \in SenderState /\ d.pc = "idle"
    BY <1>0, <1>3, ReturnedPast
  <2>2. d.left # {} => d.k \in DOMAIN script[n][g]
    BY <1>0, <1>3, ReturnedScripted DEF LinkInv
  <2>3. sender' = [sender EXCEPT ![n][g] = d]
    BY <1>1
  <2> HIDE DEF d
  <2> QED BY <2>1, <2>2, <2>3
<1>5. InScenario' /\ Scripted' /\ (InOrder' => InOrder) /\ (InOrder => MapAhead')
  BY <1>0, <1>1, <1>4, SenderMoves
<1>6. CASE ~ InOrder
  BY <1>5, <1>6, LinkIdle DEF LinkInv
<1>7. CASE InOrder
  <2>1. MapAhead /\ MapFull
    BY <1>0, <1>7 DEF LinkInv
  <2>2. nodes[n][to] = via
    BY <1>new, <1>1, <2>1 DEF MapAhead
  <2>3. <<"slow", to>> \notin fault[n]
    BY <1>7 DEF OrderInv, NoneSlow, InOrder
  <2>4. via \in DOMAIN trans /\ via # 0 /\ trans[via].from = n /\ trans[via].to = to
    BY <1>2, <1>3 DEF Joins
  <2>5. msg \in Msg /\ msg \in Message
    <3>1. k \in DOMAIN script[n][g]
      BY <1>new, <1>0, <1>3 DEF LinkInv, Scripted
    <3> QED BY <1>new, <1>0, <1>3, <3>1, ScriptedMessage DEF LinkInv, Msg
  <2>6. /\ DOMAIN trans' = DOMAIN trans
        /\ \A u \in DOMAIN trans : trans'[u].from = trans[u].from /\ trans'[u].to = trans[u].to
        /\ \A u \in DOMAIN trans : u # via => trans'[u] = trans[u]
        /\ trans'[via].queue = Append(trans[via].queue, msg)
    BY <1>0, <1>1, <2>3, <2>4, <2>5, EnqueueEffect
  <2>7. MapFull'
    <3>1. ASSUME NEW t \in DOMAIN trans, trans'[t].queue # <<>>
          PROVE  nodes[trans[t].from][trans[t].to] = t
      <4>1. CASE t = via
        BY <4>1, <2>2, <2>4
      <4>2. CASE t # via
        BY <4>2, <3>1, <2>1, <2>6 DEF MapFull
      <4> QED BY <4>1, <4>2
    <3> QED BY <1>1, <2>6, <3>1 DEF MapFull
  <2>8. LinkInv'
    BY <1>5, <1>7, <2>7 DEF LinkInv
  <2>9. OnLink(n, to)' = Append(OnLink(n, to), msg)
    <3> DEFINE F == MessagesOf(inbox[to], n)
    <3>1. /\ OnLink(n, to) = F \o trans[via].queue
          /\ F \in Seq(Msg) /\ trans[via].queue \in Seq(Msg)
      BY <1>0, <1>3, <2>2, <2>4, OnLinkIs DEF InMap
    <3>2. OnLink(n, to)' = F \o Append(trans[via].queue, msg)
      BY <1>1, <2>2, <2>4, <2>6 DEF OnLink
    <3> HIDE DEF F
    <3>3. PICK Q : Q = trans[via].queue
      OBVIOUS
    <3>4. Q \in Seq(Msg)
      BY <3>1, <3>3
    <3>5. F \o Append(Q, msg) = Append(F \o Q, msg)
      BY <2>5, <3>1, <3>4, AlongLink
    <3> QED BY <3>1, <3>2, <3>3, <3>5
  <2>10. ASSUME NEW m \in Node, NEW p \in Node, m # n \/ p # to PROVE OnLink(m, p)' = OnLink(m, p)
    <3>1. nodes[m][p] # via \/ nodes[m][p] = 0
      BY <1>0, <2>4, <2>10 DEF Shape, GoodMap, Joins
    <3>2. nodes[m][p] # 0 => nodes[m][p] \in DOMAIN trans
      BY <1>0 DEF Shape, GoodMap, Joins
    <3> QED BY <1>1, <2>6, <3>1, <3>2 DEF OnLink
  <2>11. LinkStep
    BY <1>1, <1>3, <1>7, <2>5, <2>9, <2>10, LinkSends
  <2> QED BY <2>8, <2>11
<1> QED BY <1>6, <1>7
\* No goroutine moves and the map stays.
LEMMA SendersStay ==
  ASSUME LinkInv, UNCHANGED scenario, UNCHANGED <<sender, nodes>>, InOrder => MapFull'
  PROVE  LinkInv'
<1>1. UNCHANGED <<script, faults>>
  BY DEF scenario
<1>2. InScenario' /\ Scripted' /\ InOrder' = InOrder
  BY <1>1 DEF LinkInv, InScenario, Scripted, InOrder
<1>3. InOrder => MapAhead'
  BY DEF LinkInv, MapAhead
<1> QED BY <1>2, <1>3 DEF LinkInv

\* The connection takes the oldest message of the transport: it goes to the end of
\* the receiver's channel, which leaves the link as it is, or is lost.
LEMMA TransmitOnLink ==
  ASSUME DeliveryInv, LinkInv, UNCHANGED scenario, NEW t \in DOMAIN trans, Transmit(t)
  PROVE  LinkInv' /\ LinkStep
<1>0. Shape /\ Types /\ LinkInv
  BY DEF DeliveryInv, Shape
<1>new. PICK from, to, Q, msg : from = trans[t].from /\ to = trans[t].to /\ Q = trans[t].queue /\ msg = Head(Q)
  OBVIOUS
<1>1. /\ Q # <<>> /\ trans' = [trans EXCEPT ![t].queue = Tail(@)]
      /\ inbox' = [inbox EXCEPT ![to] = Append(@, msg)] \/ inbox' = inbox
      /\ UNCHANGED <<nodes, sender, received>>
  BY <1>new DEF Transmit
<1>2. /\ trans \in Seq(Transport) /\ inbox \in [Node -> Seq(Msg)]
      /\ from \in Node /\ to \in Node /\ Q \in Seq(Msg) /\ t # 0
  BY <1>new, <1>0, TransportAt DEF Types
<1>3. /\ DOMAIN trans' = DOMAIN trans
      /\ \A u \in DOMAIN trans : trans'[u].from = trans[u].from /\ trans'[u].to = trans[u].to
      /\ \A u \in DOMAIN trans : u # t => trans'[u] = trans[u]
      /\ msg \in Msg /\ Queued(t) = Queued(t)' \cup {msg}
  BY <1>new, <1>1, DequeueEffect
<1>4. trans'[t].queue = Tail(Q)
  <2>1. Tail(Q) \in Seq(Msg) /\ trans' = [trans EXCEPT ![t].queue = Tail(Q)]
    BY <1>new, <1>1, <1>2
  <2> QED BY <1>2, <2>1, ChangeQueue
<1>5. msg[1] = from
  <2>1. msg \in ToSet(sent[from][to])
    BY <1>new, <1>3 DEF DeliveryInv, Origin, OriginTrans
  <2> QED BY <1>2, <2>1 DEF DeliveryInv, SentPast
<1>6. MapFull => MapFull'
  <2> SUFFICES ASSUME MapFull, NEW u \in DOMAIN trans, trans'[u].queue # <<>>
               PROVE  nodes[trans[u].from][trans[u].to] = u
    BY <1>1, <1>3 DEF MapFull
  <2>1. trans[u].queue # <<>>
    BY <1>new, <1>1, <1>3
  <2> QED BY <2>1 DEF MapFull
<1>7. LinkInv'
  BY <1>0, <1>1, <1>6, SendersStay DEF LinkInv
<1>8. CASE ~ InOrder
  BY <1>7, <1>8, LinkIdle
<1>9. CASE InOrder
  <2> DEFINE F == MessagesOf(inbox[to], from)
  <2>1. nodes[from][to] = t
    BY <1>new, <1>0, <1>1, <1>9 DEF LinkInv, MapFull
  <2>2. OnLink(from, to) = F \o Q /\ F \in Seq(Msg)
    BY <1>new, <1>0, <1>2, <2>1, OnLinkIs DEF InMap
  <2>3. OnLink(from, to)' = MessagesOf(inbox'[to], from) \o Tail(Q)
    BY <1>1, <1>2, <1>4, <2>1 DEF OnLink
  <2>4. \A p \in Node : p # to => inbox'[p] = inbox[p]
    BY <1>1, <1>2
  <2>5. inbox'[to] = inbox[to] \/ inbox'[to] = Append(inbox[to], msg)
    BY <1>1, <1>2
  <2>6. inbox[to] \in Seq(Msg)
    BY <1>2
  <2>7. ASSUME NEW m \in Node, NEW p \in Node, m # from \/ p # to PROVE OnLink(m, p)' = OnLink(m, p)
    <3>1. nodes[m][p] # t \/ nodes[m][p] = 0
      BY <1>new, <1>0, <2>7 DEF Shape, GoodMap, Joins
    <3>2. nodes[m][p] # 0 => nodes[m][p] \in DOMAIN trans
      BY <1>0 DEF Shape, GoodMap, Joins
    <3>3. MessagesOf(inbox'[p], m) = MessagesOf(inbox[p], m)
      <4>1. CASE inbox'[p] = inbox[p]
        BY <4>1
      <4>2. CASE inbox'[p] # inbox[p]
        <5>1. p = to /\ inbox'[p] = Append(inbox[p], msg) /\ m # from
          BY <2>4, <2>5, <2>7, <4>2
        <5>2. MessagesOf(Append(inbox[p], msg), m) = Added(MessagesOf(inbox[p], m), msg, m)
          BY <1>3, <2>6, <5>1, MessagesOfAppend
        <5> QED BY <1>5, <5>1, <5>2 DEF Added
      <4> QED BY <4>1, <4>2
    <3> QED BY <1>1, <1>3, <3>1, <3>2, <3>3 DEF OnLink
  <2>8. CASE inbox'[to] = Append(inbox[to], msg)
    <3>1. MessagesOf(inbox'[to], from) = Append(F, msg)
      BY <1>3, <1>5, <2>6, <2>8, MessagesOfAppend DEF Added
    <3> HIDE DEF F
    <3>2. Append(F, Head(Q)) \o Tail(Q) = F \o Q
      BY <1>1, <1>2, <2>2, AlongLink
    <3>3. OnLink(from, to)' = OnLink(from, to)
      BY <1>new, <2>2, <2>3, <3>1, <3>2
    <3>4. \A m, p \in Node : OnLink(m, p)' = OnLink(m, p)
      BY <2>7, <3>3
    <3> QED BY <1>1, <1>7, <3>4, LinkStutters
  <2>9. CASE inbox'[to] = inbox[to]
    <3>1. OnLink(from, to)' = F \o Tail(Q)
      BY <2>3, <2>9
    <3> HIDE DEF F
    <3>2. /\ Len(F) + 1 \in DOMAIN (F \o Q)
          /\ RemoveAt(F \o Q, Len(F) + 1) = F \o Tail(Q)
      BY <1>1, <1>2, <2>2, LoseMiddle
    <3>3. PICK i : i = Len(F) + 1
      OBVIOUS
    <3>4. i \in DOMAIN OnLink(from, to) /\ OnLink(from, to)' = RemoveAt(OnLink(from, to), i)
      BY <2>2, <3>1, <3>2, <3>3
    <3>5. LinkStep
      BY <1>1, <1>2, <1>9, <2>7, <3>4, LinkLoses
    <3> QED BY <1>7, <3>5
  <2> QED BY <2>5, <2>8, <2>9
<1> QED BY <1>8, <1>9

\* Recv takes the oldest message of the channel, which is the oldest of its link.
LEMMA RecvOnLink ==
  ASSUME DeliveryInv, LinkInv, UNCHANGED scenario, NEW n \in Node, Recv(n)
  PROVE  LinkInv' /\ LinkStep
<1>0. Shape /\ Types /\ LinkInv
  BY DEF DeliveryInv, Shape
<1>new. PICK B, msg, m : B = inbox[n] /\ msg = Head(B) /\ m = msg[1]
  OBVIOUS
<1>1. /\ B # <<>> /\ inbox' = [inbox EXCEPT ![n] = Tail(B)]
      /\ received' = received \/ received' = [received EXCEPT ![m][n] = Append(@, msg)]
      /\ UNCHANGED <<nodes, trans, sender>>
  BY <1>new DEF Recv
<1>2. B \in Seq(Msg) /\ inbox \in [Node -> Seq(Msg)]
  BY <1>new, <1>0 DEF Types
<1>3. inbox'[n] = Tail(B) /\ \A p \in Node : p # n => inbox'[p] = inbox[p]
  BY <1>1, <1>2
<1>4. MapFull => MapFull'
  BY <1>1 DEF MapFull
<1>5. LinkInv'
  BY <1>0, <1>1, <1>4, SendersStay DEF LinkInv
<1>6. CASE ~ InOrder
  BY <1>5, <1>6, LinkIdle
<1>7. CASE InOrder
  <2>1. msg \in Msg /\ Tail(B) \in Seq(Msg)
    BY <1>new, <1>1, <1>2, MessagesOfTail
  <2>2. m \in Node
    BY <1>new, <2>1 DEF Msg
  <2>3. ASSUME NEW x \in Node, NEW p \in Node, x # m \/ p # n PROVE OnLink(x, p)' = OnLink(x, p)
    <3>1. MessagesOf(inbox'[p], x) = MessagesOf(inbox[p], x)
      <4>1. CASE p # n
        BY <4>1, <1>3
      <4>2. CASE p = n
        BY <4>2, <1>new, <1>1, <1>2, <1>3, <2>3, MessagesOfTail
      <4> QED BY <4>1, <4>2
    <3> QED BY <1>1, <3>1 DEF OnLink
  <2>pick. PICK F, Q, s : /\ F = MessagesOf(Tail(B), m) /\ Q = InMap(m, n)
                          /\ s = (<<msg>> \o F) \o Q
    OBVIOUS
  <2>4. F \in Seq(Msg) /\ MessagesOf(B, m) = <<msg>> \o F
    BY <2>pick, <1>new, <1>1, <1>2, MessagesOfTail
  <2>5. OnLink(m, n) = s /\ Q \in Seq(Msg)
    BY <2>pick, <1>new, <1>0, <2>2, <2>4, OnLinkIs
  <2>6. OnLink(m, n)' = F \o Q
    BY <2>pick, <1>1, <1>3 DEF OnLink, InMap
  <2>7. Head(s) = msg /\ Tail(s) = F \o Q /\ s # <<>> /\ 1 \in DOMAIN s /\ s \in Seq(Msg)
    <3>1. s \in Seq(Msg)
      BY <2>pick, <2>1, <2>4, <2>5
    <3> QED BY <2>pick, <2>1, <2>4, <2>5, <3>1, AlongLink
  <2>8. CASE received' = received
    <3>1. RemoveAt(s, 1) = F \o Q
      BY <2>7, LoseFirst
    <3>2. 1 \in DOMAIN OnLink(m, n) /\ OnLink(m, n)' = RemoveAt(OnLink(m, n), 1)
      BY <2>5, <2>6, <2>7, <3>1
    <3>3. LinkStep
      BY <1>7, <2>2, <2>3, <2>8, <3>2, LinkLoses
    <3> QED BY <1>5, <3>3
  <2>9. CASE received' = [received EXCEPT ![m][n] = Append(@, msg)]
    <3>1. /\ OnLink(m, n) # <<>> /\ OnLink(m, n)' = Tail(OnLink(m, n))
          /\ received' = [received EXCEPT ![m][n] = Append(@, Head(OnLink(m, n)))]
      BY <2>5, <2>6, <2>7, <2>9
    <3>2. LinkStep
      BY <1>7, <2>2, <2>3, <3>1, LinkReceives
    <3> QED BY <1>5, <3>2
  <2> QED BY <1>1, <2>8, <2>9
<1> QED BY <1>6, <1>7
\* Nothing happens to the messages: NewSocket, the injected faults and their timers,
\* and a connection that breaks.
LEMMA QuietOnLink ==
  ASSUME Shape, LinkInv, UNCHANGED scenario, UNCHANGED <<nodes, sender, inbox, received>>,
         DOMAIN trans' = DOMAIN trans,
         \A t \in DOMAIN trans : /\ trans'[t].from = trans[t].from /\ trans'[t].to = trans[t].to
                                 /\ trans'[t].queue = trans[t].queue
  PROVE  LinkInv' /\ LinkStep
<1>1. MapFull => MapFull'
  BY DEF MapFull
<1>2. LinkInv'
  BY <1>1, SendersStay DEF LinkInv
<1>3. ASSUME NEW m \in Node, NEW p \in Node PROVE InMap(m, p)' = InMap(m, p)
  <2>1. nodes[m][p] # 0 => nodes[m][p] \in DOMAIN trans
    BY DEF Shape, GoodMap, Joins
  <2> QED BY <2>1 DEF InMap
<1>4. \A m, p \in Node : OnLink(m, p)' = OnLink(m, p)
  BY <1>3, SameLinks
<1> QED BY <1>2, <1>4, LinkStutters

\* Nobody delays a message in order.
LEMMA DelayedOnLink ==
  ASSUME OrderInv, LinkInv, UNCHANGED scenario, NEW d \in delayed, PutDelayed(d)
  PROVE  LinkInv' /\ LinkStep
<1>1. ~ InOrder
  BY DEF OrderInv, NoneSlow, InOrder
<1>2. UNCHANGED <<sender, nodes>>
  BY DEF PutDelayed
<1>3. LinkInv'
  BY <1>1, <1>2, SendersStay
<1> QED BY <1>1, <1>3, LinkIdle

LEMMA InitOnLink ==
  ASSUME Init
  PROVE  LinkInv /\ L!Init
<1>1. InScenario
  BY DEF Init, InScenario
<1>2. script \in [Node -> [Goroutine -> Seq(SUBSET Node)]]
  BY <1>1, ScenarioShape DEF InScenario
<1>3. ASSUME NEW n \in Node, NEW g \in Goroutine
      PROVE  sender[n][g].pc = "idle" /\ sender[n][g].k = 1 /\ sender[n][g].left = Receivers(n, g, 1)
  BY DEF Init, Idle
<1>4. Scripted
  BY <1>3 DEF Scripted, Receivers
<1>5. MapAhead
  BY <1>3 DEF MapAhead
<1>6. MapFull
  BY DEF Init, MapFull
<1>7. LinkInv
  BY <1>1, <1>4, <1>5, <1>6 DEF LinkInv
<1>8. ASSUME NEW m \in Node, NEW n \in Node PROVE OnLink(m, n) = <<>>
  <2>1. inbox[n] = <<>> /\ nodes[m][n] = 0
    BY DEF Init
  <2>2. OnLink(m, n) = MessagesOf(<<>>, m) \o <<>>
    BY <2>1 DEF OnLink
  <2> QED BY <2>2, MessagesOfEmpty
<1>9. LinkQueue = [m \in Node |-> [n \in Node |-> <<>>]]
  BY <1>8 DEF LinkQueue
<1>10. LinkReceived = [m \in Node |-> [n \in Node |-> <<>>]]
  BY DEF Init, LinkReceived
<1> QED BY <1>7, <1>9, <1>10 DEF L!Init

LEMMA StepOnLink ==
  ASSUME DeliveryInv, OrderInv, LinkInv, [Next]_vars
  PROVE  LinkInv' /\ LinkStep
<1>0. Shape /\ UNCHANGED scenario
  BY ScenarioStays DEF DeliveryInv
<1>1. ASSUME UNCHANGED <<nodes, sender, inbox, received, trans>> PROVE LinkInv' /\ LinkStep
  BY <1>0, <1>1, QuietOnLink
<1>2. ASSUME NEW n \in Node, NEW g \in Goroutine, Sending(n, g) PROVE LinkInv' /\ LinkStep
  BY <1>0, <1>2, LookupOnLink, DialOnLink, StoreOnLink, PutOnLink DEF Sending
<1>3. ASSUME NEW n \in Node, NewSocket(n) \/ CrashForever(n) PROVE LinkInv' /\ LinkStep
  BY <1>1, <1>3 DEF NewSocket, CrashForever, netVars
<1>4. ASSUME NEW n, NEW kind, NEW to, Inject(n, kind, to) PROVE LinkInv' /\ LinkStep
  BY <1>1, <1>4 DEF Inject, netVars
<1>5. ASSUME NEW timer, Expire(timer) PROVE LinkInv' /\ LinkStep
  BY <1>1, <1>5 DEF Expire, netVars
<1>6. ASSUME NEW t \in DOMAIN trans, Reset(t) PROVE LinkInv' /\ LinkStep
  <2>1. trans' = [trans EXCEPT ![t].up = FALSE] /\ UNCHANGED <<nodes, sender, inbox, received>>
    BY <1>6 DEF Reset
  <2>2. trans \in Seq(Transport)
    BY <1>0 DEF Shape, Types
  <2>3. trans[t] \in Transport
    BY <2>2, TransportAt
  <2>4. /\ DOMAIN trans' = DOMAIN trans
        /\ \A u \in DOMAIN trans : /\ trans'[u].from = trans[u].from /\ trans'[u].to = trans[u].to
                                   /\ trans'[u].queue = trans[u].queue
    BY <2>1, <2>3 DEF Transport
  <2> QED BY <1>0, <2>1, <2>4, QuietOnLink
<1>7. CASE UNCHANGED vars
  BY <1>1, <1>7 DEF vars
<1>8. CASE Next
  <2>1. ASSUME NEW n \in Node, Recv(n) PROVE LinkInv' /\ LinkStep
    BY <1>0, <2>1, RecvOnLink
  <2>2. ASSUME NEW d \in delayed, PutDelayed(d) PROVE LinkInv' /\ LinkStep
    BY <1>0, <2>2, DelayedOnLink
  <2>3. ASSUME NEW t \in DOMAIN trans, Transmit(t) PROVE LinkInv' /\ LinkStep
    BY <1>0, <2>3, TransmitOnLink
  <2> HIDE DEF LinkStep
  <2> QED BY <1>8, <1>2, <1>3, <1>4, <1>5, <1>6, <2>1, <2>2, <2>3 DEF Next
<1> QED BY <1>7, <1>8

\* The sockets implement lossy FIFO links (Link), in every instance: as long as one
\* goroutine of a node sends and no peer is slow, what Send, Retry, the dials and the
\* broken connections of socket.go and transport.go do to the messages from one node
\* to another is to take one up at the end, to lose one or to hand the oldest over.
THEOREM LinkImplemented == Spec => LinkSpec
<1>1. Init => DeliveryInv /\ OrderInv /\ LinkInv /\ L!Init
  BY InitDelivery, InitOrder, InitOnLink
<1>2. DeliveryInv /\ OrderInv /\ LinkInv /\ [Next]_vars => (DeliveryInv /\ OrderInv /\ LinkInv)' /\ LinkStep
  BY StepDelivery, StepOrder, StepOnLink
<1> QED BY <1>1, <1>2, PTL DEF Spec, LinkSpec, L!Spec, LinkStep
=============================================================================
