--------------------------- MODULE MCSatTimeSpans ---------------------------
EXTENDS SatTimeSpans
=============================================================================
