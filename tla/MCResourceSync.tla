--------------------------- MODULE MCResourceSync ---------------------------
EXTENDS ResourceSync, TLC
==============================================================================
