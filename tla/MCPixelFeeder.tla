---------------------------- MODULE MCPixelFeeder ---------------------------
EXTENDS PixelFeeder
=============================================================================
