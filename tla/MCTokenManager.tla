--------------------------- MODULE MCTokenManager ---------------------------
EXTENDS TokenManager, TLC
==============================================================================
