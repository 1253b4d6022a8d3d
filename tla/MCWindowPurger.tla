--------------------------- MODULE MCWindowPurger ---------------------------
EXTENDS WindowPurger
=============================================================================
