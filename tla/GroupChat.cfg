\* Private and group messages between two loops; u1 has joined the group twice.
SPECIFICATION Spec
CONSTANTS
  u1 = u1
  u2 = u2
  c1 = c1
  c2 = c2
  g1 = g1
  NoUser = NoUser
  NoConn = NoConn
  Users = {u1, u2}
  Groups = {g1}
  InitMembers <- TwiceMember
  Conns = {c1, c2}
  LoopOf <- OwnLoops
  AccountsOf <- PrivateAccounts
  Quitters = {c2}
  Commands = {"chat", "groupchat", "addgroup"}
  MaxMsgs = 2
  MaxPipe = 1
  MaxJoins = 1
  MaxFaults = 0
  MaxCrashes = 0
  MayInterrupt = FALSE
INVARIANTS
  NothingLost
  InboxDrained
  WriterOrder
  NoDuplicates
  
PROPERTIES
  DeletesWhatItRead
