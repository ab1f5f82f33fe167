---------------------------- MODULE MCPortConfig ----------------------------
EXTENDS PortConfig

E(id, core, rest) == [id |-> id, core |-> core, rest |-> rest]
F(ports, http) == [ports |-> ports, http |-> http]

\* Written by hand: an entry without an id, and one id twice, once for a port
\* and once for an HTTP server.
HandWritten == {F(<<E(NoId, "b", {"x"}), E(<<"a", 0>>, "a", {})>>, <<E(<<"a", 0>>, "a", {})>>)}

\* A port without an id, which differs from one of the file in its endpoint only
\* and from the other in its name, and an HTTP server that listens elsewhere and
\* asks for an id a port may have.
Asked ==
    [ports |-> {E(NoId, "b", {"y"})},
     http |-> {E(<<"b", 0>>, "b", {})}]
\* HTTP servers that are to stay where they are, with a setting and without.
AskedSettings ==
    [ports |-> {}, http |-> {E(NoId, "a", {"x"}), E(NoId, "a", {})}]
=============================================================================
