\* The friend lists of two clients.
SPECIFICATION Spec
CONSTANTS
  c1 = c1
  c2 = c2
  Clients = {c1, c2}
  Garbage = {0}
  MaxUsers = 2
  MaxGroups = 2
  MaxFriends = 1
  MaxMembers = 3
  MaxLogins = 3
  MaxFaults = 0
INVARIANTS
  FriendsShown
\* The users stop asking.
CHECK_DEADLOCK FALSE
