--------------------------- MODULE MCMonitorPeers ---------------------------
EXTENDS MonitorPeers

=============================================================================
