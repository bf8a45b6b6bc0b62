------------------------------- MODULE MCAdmin -------------------------------
\* Admin with a few users and configurations, for TLC.
EXTENDS Admin, TLC

CONSTANTS alice, bob, admin, lobby, office

Everything ==
  [enable |-> TRUE, channel |-> 0, timeout |-> 1, selfOnly |-> TRUE,
   users |-> {alice, bob}, roles |-> {admin}, groups |-> DOMAIN Group,
   rawConsole |-> TRUE]

\* Two users, each for himself; then anybody with the role, longer, from one channel.
SelfAndAny ==
  {Everything,
   [Everything EXCEPT !.selfOnly = FALSE, !.users = {}, !.timeout = 2,
      !.channel = office, !.rawConsole = FALSE]}

Plain == {Everything}

\* The users differ in nothing but their names.
Symmetry == Permutations(Users)
==============================================================================
