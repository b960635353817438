\* A client per user, each in a loop of its own; group messages hold the mutex,
\* statements fail, the server crashes, the operator presses ctrl+c.
SPECIFICATION Spec
CONSTANTS
  u1 = u1
  u2 = u2
  c1 = c1
  c2 = c2
  g1 = g1
  NoUser = NoUser
  NoConn = NoConn
  Users = {u1, u2}
  Groups = {g1}
  InitMembers <- FirstMember
  Conns = {c1, c2}
  LoopOf <- OwnLoops
  AccountsOf <- PrivateAccounts
  Quitters = {c2}
  Commands = {"groupchat"}
  MaxMsgs = 1
  MaxPipe = 1
  MaxJoins = 1
  MaxFaults = 1
  MaxCrashes = 1
  MayInterrupt = TRUE
INVARIANTS
  TypeOK
  LoggedInIsReachable
PROPERTIES
  ImplementsPresence
  ClientsFollowProtocol
