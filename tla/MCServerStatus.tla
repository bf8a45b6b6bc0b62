---------------------------- MODULE MCServerStatus ----------------------------
\* ServerStatus with a few posts and resets, for TLC.
EXTENDS ServerStatus
==============================================================================
