----------------------------- MODULE MCStartup -----------------------------
(* Small instances of Startup. *)
EXTENDS Startup

\* Timeouts, then the first leader's block and votes.
Peers == <<"tmo", "tmo", "block", "vote", "block", "tmo">>

\* Transactions and a timeout reach the replica before the first block.
Mixed == <<"tx", "tmo", "block", "tx">>

\* They reach the first leader before it has proposed.
Clients == <<"tx", "tmo", "tx", "tx">>

\* More timeouts than eventChan holds, before the first block.
Late == <<"tmo", "tmo", "tmo", "block", "vote">>

PeersOnly == {Peers}
AllTraffic == {Peers, Mixed, Clients, Late}
=============================================================================
