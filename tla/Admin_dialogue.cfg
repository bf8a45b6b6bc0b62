SPECIFICATION Spec
CONSTANTS
  alice = alice
  bob = bob
  admin = admin
  lobby = lobby
  office = office
  Users = {alice, bob}
  Roles = {admin}
  Channels = {lobby, office}
  Configs <- Plain
  Commands = {"server.restart", "player.money", "player.level"}
  Values = {10}
  MaxLevel = 80
  MaxRequests = 1
  MaxTime = 1
  MaxRestarts = 0
PROPERTY DialogueHolds
CHECK_DEADLOCK FALSE
