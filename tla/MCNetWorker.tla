----------------------------- MODULE MCNetWorker -----------------------------
\* NetWorker with a few requests, for TLC.
EXTENDS NetWorker
==============================================================================
