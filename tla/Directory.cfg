\* Two clients in two loops, any of whose statements may fail.
SPECIFICATION FairSpec
CONSTANTS
  c1 = c1
  c2 = c2
  Clients = {c1, c2}
  Garbage = {0}
  MaxUsers = 2
  MaxGroups = 2
  MaxFriends = 1
  MaxMembers = 3
  MaxLogins = 3
  MaxFaults = 1
INVARIANTS
  TypeOK
  IdsAreOwn
  CreatorsMadeIt
  ListsSound
PROPERTIES
  GroupGetsCreator
  LoginCompletes
\* The users stop asking.
CHECK_DEADLOCK FALSE
