SPECIFICATION Spec
CONSTANTS
  alice = alice
  bob = bob
  admin = admin
  lobby = lobby
  office = office
  Users = {alice, bob}
  Roles = {admin}
  Channels = {lobby, office}
  Configs <- SelfAndAny
  Commands = {"server.restart", "player.level", "console", "config.reload", "setup.roles"}
  Values = {10}
  MaxLevel = 80
  MaxRequests = 2
  MaxTime = 2
  MaxRestarts = 1
INVARIANTS
  ResolvedOnce
  RunsAsApproved
  AuditMatches
PROPERTY ImplementsApproval
SYMMETRY Symmetry
CHECK_DEADLOCK FALSE
