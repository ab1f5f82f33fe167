--------------------------- MODULE MCReaderThread ---------------------------
EXTENDS ReaderThread
=============================================================================
