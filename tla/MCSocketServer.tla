--------------------------- MODULE MCSocketServer ---------------------------
EXTENDS SocketServer

CONSTANTS c1, c2
=============================================================================
