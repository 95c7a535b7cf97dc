--------------------------- MODULE MCSerialDriver ---------------------------
EXTENDS SerialDriver
=============================================================================
