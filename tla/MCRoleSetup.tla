----------------------------- MODULE MCRoleSetup -----------------------------
\* RoleSetup with one setup of each kind, for TLC.
EXTENDS RoleSetup

CONSTANTS r1, r2, none
=============================================================================
