--------------------------- MODULE MCOutputStream ---------------------------
EXTENDS OutputStream
=============================================================================
