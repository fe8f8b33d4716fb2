-------------------------- MODULE MCTransportClient --------------------------
EXTENDS TransportClient, TLC
==============================================================================
