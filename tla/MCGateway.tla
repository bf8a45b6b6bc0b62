------------------------------ MODULE MCGateway ------------------------------
\* Gateway with a few connections and payloads, for TLC.
EXTENDS Gateway
==============================================================================
