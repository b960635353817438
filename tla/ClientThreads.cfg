\* One client, its threads and its server.  Messages arrive one by one; the
\* server may go down and send may fail.
SPECIFICATION FairSpec
CONSTANTS
  u1 = u1
  u2 = u2
  NoUser = NoUser
  NoAnswer = NoAnswer
  Accounts = {u1, u2}
  MayGlue = FALSE
  MayReject = FALSE
  MayFall = TRUE
  MaxLogins = 3
  MaxCommands = 2
  MaxForwards = 2
  MaxSendFaults = 1
INVARIANTS
  TypeOK
  OneAnswerPerWait
  SessionsAgree
PROPERTIES
  ImplementsProtocol
  WaitEnds
\* The user quits.
CHECK_DEADLOCK FALSE
