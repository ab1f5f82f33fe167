---------------------------- MODULE MCSerialPort ----------------------------
(* SerialPort on a small instance, and what is asked of it. *)
EXTENDS SerialPort

CONSTANTS tcp, tls, wa, wb, t1, w1, w2, w3

\* Every kind of server, an endpoint before and after a socket server, a change
\* that keeps one server, one that keeps none.
AllKinds == {<<tcp, wa, wb>>, <<wb, tls>>}
TwoEndpoints == {<<tls, wa, wb>>, <<wb>>}

=============================================================================
