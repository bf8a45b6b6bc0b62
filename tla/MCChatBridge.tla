---------------------------- MODULE MCChatBridge ----------------------------
\* ChatBridge with two players, for TLC.
EXTENDS ChatBridge, TLC

CONSTANTS p1, p2, hello, c1

TwoPlayers == {p1, p2}

\* One channel for both factions.
Combined == (p1 :> c1) @@ (p2 :> c1)
==============================================================================
