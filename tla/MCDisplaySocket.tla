-------------------------- MODULE MCDisplaySocket --------------------------
EXTENDS DisplaySocket
=============================================================================
