\* ctrl+c while a client logs in.
SPECIFICATION Spec
CONSTANTS
  u1 = u1
  u2 = u2
  c1 = c1
  c2 = c2
  g1 = g1
  NoUser = NoUser
  NoConn = NoConn
  Users = {u1}
  Groups = {g1}
  InitMembers <- FirstMember
  Conns = {c1}
  LoopOf <- OwnLoops
  AccountsOf <- AnyAccount
  Quitters = {c1}
  Commands = {}
  MaxMsgs = 1
  MaxPipe = 1
  MaxJoins = 1
  MaxFaults = 0
  MaxCrashes = 0
  MayInterrupt = TRUE
PROPERTIES
  StartsAllOffline
