---------------------------- MODULE MCPppFrames ----------------------------
EXTENDS PppFrames
MCTail == {<<HDLC_ESC>>}
=============================================================================
