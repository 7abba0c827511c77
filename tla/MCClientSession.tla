--------------------------- MODULE MCClientSession ---------------------------
EXTENDS ClientSession
==============================================================================
