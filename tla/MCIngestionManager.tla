------------------------- MODULE MCIngestionManager -------------------------
EXTENDS IngestionManager, TLC

\* Callers are interchangeable in the specification and in its safety properties.
CallerSymmetry == Permutations(Callers)
==============================================================================
