\* Private messages between two loops.
SPECIFICATION Spec
CONSTANTS
  u1 = u1
  u2 = u2
  c1 = c1
  c2 = c2
  g1 = g1
  NoUser = NoUser
  NoConn = NoConn
  Users = {u1, u2}
  Groups = {g1}
  InitMembers <- FirstMember
  Conns = {c1, c2}
  LoopOf <- OwnLoops
  AccountsOf <- PrivateAccounts
  Quitters = {c1, c2}
  Commands = {"chat"}
  MaxMsgs = 2
  MaxPipe = 2
  MaxJoins = 1
  MaxFaults = 0
  MaxCrashes = 0
  MayInterrupt = FALSE
PROPERTIES
  DeletesOnlyRead
