--------------------------- MODULE MCFilterStream ---------------------------
EXTENDS FilterStream

\* The escape, and bytes that mean something behind it.
MCData == {RTS_HIGH, SB, ESCAPE}

\* An empty frame, and one whose bytes mean something behind an IAC.
MCFrames == {<<>>, <<IAC, SE>>}

\* A control server that may do all, one whose clients may set one line and
\* neither read nor write, and the same two of TELNET.
MCSettings ==
    {[protocol |-> "control", rts |-> TRUE, dtr |-> TRUE, signals |-> {0, 2},
      canRead |-> TRUE, canWrite |-> TRUE],
     [protocol |-> "control", rts |-> FALSE, dtr |-> TRUE, signals |-> {0, 2},
      canRead |-> FALSE, canWrite |-> FALSE],
     [protocol |-> "telnet", rts |-> FALSE, dtr |-> FALSE, signals |-> {},
      canRead |-> TRUE, canWrite |-> TRUE],
     [protocol |-> "telnet", rts |-> FALSE, dtr |-> FALSE, signals |-> {},
      canRead |-> FALSE, canWrite |-> FALSE]}
=============================================================================
