------------------------- MODULE MCControlLiveness --------------------------
EXTENDS ControlLiveness
=============================================================================
