---------------------------- MODULE MCPersistence ----------------------------
EXTENDS Persistence

\* the coordinates of row 2, divided by the size of a cell, are less than 2
MCRounded == [row \in 1 .. 2 |-> 1]
=============================================================================
