---------------------------- MODULE MCReconciler ----------------------------
EXTENDS Reconciler, TLC
==============================================================================
