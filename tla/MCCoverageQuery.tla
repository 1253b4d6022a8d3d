--------------------------- MODULE MCCoverageQuery ---------------------------
EXTENDS CoverageQuery
=============================================================================
