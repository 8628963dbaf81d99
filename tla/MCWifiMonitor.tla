--------------------------- MODULE MCWifiMonitor ---------------------------
EXTENDS WifiMonitor
=============================================================================
