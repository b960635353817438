\* Both connections in one loop, u1 used from both clients; nothing fails.
SPECIFICATION FairSpec
CONSTANTS
  u1 = u1
  u2 = u2
  c1 = c1
  c2 = c2
  g1 = g1
  NoUser = NoUser
  NoConn = NoConn
  Users = {u1, u2}
  Groups = {g1}
  InitMembers <- FirstMember
  Conns = {c1, c2}
  LoopOf <- OneLoop
  AccountsOf <- SharedAccount
  Quitters = {c1, c2}
  Commands = {"chat"}
  MaxMsgs = 1
  MaxPipe = 1
  MaxJoins = 1
  MaxFaults = 0
  MaxCrashes = 0
  MayInterrupt = FALSE
INVARIANTS
  ExclusiveLogin
  NothingLost
  InboxDrained
  NoDuplicates
PROPERTIES
  
  DepartedGoesOffline
  
  DeadEntryIsSecond
