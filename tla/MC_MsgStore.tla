---------------------------- MODULE MC_MsgStore ----------------------------
EXTENDS MsgStore
=============================================================================
