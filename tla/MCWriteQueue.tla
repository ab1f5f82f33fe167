---------------------------- MODULE MCWriteQueue ----------------------------
(* WriteQueue on a small instance. *)
EXTENDS WriteQueue, TLC

CONSTANTS c1, c2, c3, tcp, ws

\* The limit is what the clients of one batch can add on top of the high mark,
\* and no more.
LimitForAll == HighWater + Cardinality(Clients) * Chunk

=============================================================================
