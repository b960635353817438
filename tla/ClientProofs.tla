---------------------------- MODULE ClientProofs ----------------------------
(***************************************************************************)
(* The two threads of the client hand every answer over through rwsem, one *)
(* per wait: for any accounts and any number of logins, commands, forwards *)
(* and failing sends, whether messages are read together or not and        *)
(* whether the server goes down or not.                                    *)
(***************************************************************************)
EXTENDS ClientProperties, FiniteSetTheorems, TLAPS

AtMostOne(S) == \A i, j \in S : i = j

\* Where an answer may be, one place at a time, and the main thread then waits.
HandsOver ==
  /\ AtMostOne(Asked) /\ AtMostOne(Sent) /\ rwsem \in {0, 1}
  /\ Asked # {} => answer = NoAnswer /\ Sent = {} /\ ~Reading /\ rwsem = 0
  /\ answer # NoAnswer => Sent = {} /\ ~Reading /\ rwsem = 0
  /\ Sent # {} => ~Reading /\ rwsem = 0
  /\ Reading => rwsem = 0
  /\ (Asked # {} \/ answer # NoAnswer \/ Sent # {} \/ Reading \/ rwsem # 0)
       => (Waiting \/ main = "exited")
  /\ (main = "exited") <=> (reader = "exited")

ClientInv == TypeOK /\ HandsOver

-----------------------------------------------------------------------------
\* A message behind the others
LEMMA Sending ==
  ASSUME NEW S, NEW q \in Seq(S), NEW r \in S
  PROVE  /\ Append(q, r) \in Seq(S) /\ DOMAIN Append(q, r) = DOMAIN q \cup {Len(q) + 1}
         /\ Len(q) + 1 \notin DOMAIN q /\ Append(q, r)[Len(q) + 1] = r
         /\ \A i \in DOMAIN q : Append(q, r)[i] = q[i]
  OBVIOUS

\* The first n messages taken
LEMMA Taking ==
  ASSUME NEW S, NEW q \in Seq(S), q # <<>>, NEW n \in Read(q)
  PROVE  /\ n \in 1..Len(q) /\ Head(q) \in S /\ Head(q) = q[1] /\ 1 \in DOMAIN q
         /\ SubSeq(q, n + 1, Len(q)) \in Seq(S)
         /\ DOMAIN SubSeq(q, n + 1, Len(q)) = 1..(Len(q) - n)
         /\ \A i \in 1..(Len(q) - n) : i + n \in DOMAIN q /\ SubSeq(q, n + 1, Len(q))[i] = q[i + n]
  <1>1. n \in 1..Len(q)
    BY DEF Read
  <1> QED  BY <1>1

\* A request that is sent asks for one more answer, or for none.
LEMMA AskedBySending ==
  ASSUME TypeOK, NEW r \in Request, toServer' = Append(toServer, r)
  PROVE  Asked' = IF AsksForAnswer(r) THEN Asked \cup {Len(toServer) + 1} ELSE Asked
  <1>1. toServer \in Seq(Request)
    BY DEF TypeOK
  <1> QED  BY <1>1, Sending DEF Asked

\* What the server takes asks no more, and what follows in the same read neither.
LEMMA AskedByTaking ==
  ASSUME TypeOK, toServer # <<>>, NEW n \in Read(toServer),
         toServer' = SubSeq(toServer, n + 1, Len(toServer)), AtMostOne(Asked)
  PROVE  /\ AtMostOne(Asked') /\ (Asked = {} => Asked' = {})
         /\ AsksForAnswer(Head(toServer)) => Asked # {} /\ Asked' = {}
  <1>1. toServer \in Seq(Request)
    BY DEF TypeOK
  <1>2. n \in 1..Len(toServer) /\ Head(toServer) = toServer[1] /\ 1 \in DOMAIN toServer
    BY <1>1, Taking
  <1>3. Asked' = {i \in 1..(Len(toServer) - n) : i + n \in Asked}
    BY <1>1, Taking DEF Asked
  <1>4. \A i \in Asked' : i \in Int /\ i + n \in Asked /\ i + n # 1
    BY <1>1, <1>2, <1>3
  <1>5. AsksForAnswer(Head(toServer)) => 1 \in Asked
    BY <1>2 DEF Asked
  <1> QED  BY <1>2, <1>4, <1>5 DEF AtMostOne

\* The same of the answers in the other direction.
LEMMA SentBySending ==
  ASSUME TypeOK, NEW r \in Answer \cup {Forwarded}, fromServer' = Append(fromServer, r)
  PROVE  Sent' = IF IsAnswer(r) THEN Sent \cup {Len(fromServer) + 1} ELSE Sent
  <1>1. fromServer \in Seq(Answer \cup {Forwarded})
    BY DEF TypeOK
  <1> QED  BY <1>1, Sending DEF Sent

\* An answer that is read is no longer sent, nor is what was read with it.
LEMMA SentByTaking ==
  ASSUME TypeOK, fromServer # <<>>, NEW n \in Read(fromServer),
         fromServer' = SubSeq(fromServer, n + 1, Len(fromServer)), AtMostOne(Sent)
  PROVE  /\ AtMostOne(Sent') /\ (Sent = {} => Sent' = {})
         /\ IsAnswer(Head(fromServer)) => Sent # {} /\ Sent' = {}
  <1>1. fromServer \in Seq(Answer \cup {Forwarded})
    BY DEF TypeOK
  <1>2. n \in 1..Len(fromServer) /\ Head(fromServer) = fromServer[1] /\ 1 \in DOMAIN fromServer
    BY <1>1, Taking
  <1>3. Sent' = {i \in 1..(Len(fromServer) - n) : i + n \in Sent}
    BY <1>1, Taking DEF Sent
  <1>4. \A i \in Sent' : i \in Int /\ i + n \in Sent /\ i + n # 1
    BY <1>1, <1>2, <1>3
  <1>5. IsAnswer(Head(fromServer)) => 1 \in Sent
    BY <1>2 DEF Sent
  <1> QED  BY <1>2, <1>4, <1>5 DEF AtMostOne

\* What was posted is no answer.
LEMMA PendingKeepsAnswers ==
  ASSUME TypeOK, fromServer' = fromServer \o [i \in 1 .. posted |-> Forwarded]
  PROVE  /\ fromServer' \in Seq(Answer \cup {Forwarded})
         /\ Sent' = Sent /\ \A i \in Sent : fromServer'[i] = fromServer[i]
  <1>1. fromServer \in Seq(Answer \cup {Forwarded}) /\ posted \in Nat
    BY DEF TypeOK
  <1>2. PICK q \in Seq({Forwarded}) : q = [i \in 1 .. posted |-> Forwarded]
    <2>1. [i \in 1 .. posted |-> Forwarded] \in [1 .. posted -> {Forwarded}]
      OBVIOUS
    <2>2. [1 .. posted -> {Forwarded}] \subseteq Seq({Forwarded})
      BY <1>1
    <2> QED  BY <2>1, <2>2
  <1>3. PICK s \in Seq(Answer \cup {Forwarded}) : s = fromServer
    BY <1>1
  <1>4. q \in Seq(Answer \cup {Forwarded}) /\ fromServer' = s \o q
    <2>1. \A r \in Seq({Forwarded}) : r \in Seq(Answer \cup {Forwarded})
      OBVIOUS
    <2> QED  BY <1>2, <1>3, <2>1
  <1>5. /\ s \o q \in Seq(Answer \cup {Forwarded}) /\ DOMAIN (s \o q) = 1 .. Len(s) + Len(q)
        /\ \A i \in DOMAIN s : i \in DOMAIN (s \o q) /\ (s \o q)[i] = s[i]
        /\ \A i \in DOMAIN (s \o q) :
             i \notin DOMAIN s => i - Len(s) \in DOMAIN q /\ (s \o q)[i] = q[i - Len(s)]
    BY <1>4
  <1>6. \A i \in DOMAIN q : q[i] = Forwarded
    BY <1>2
  <1> QED  BY <1>3, <1>4, <1>5, <1>6 DEF Sent, IsAnswer

-----------------------------------------------------------------------------
\* What Send does to the types
LEMMA SendType ==
  ASSUME TypeOK, NEW r \in Request, NEW ok \in BOOLEAN, Send(r, ok)
  PROVE  toServer' \in Seq(Request) /\ sendFaults' \in Nat
  <1>1. toServer \in Seq(Request) /\ sendFaults \in Nat
    BY DEF TypeOK
  <1>2. Append(toServer, r) \in Seq(Request)
    BY <1>1, Sending
  <1> QED  BY <1>1, <1>2 DEF Send

\* The first state has its types, and nothing is on its way.
LEMMA Initially == Init => ClientInv
  <1> SUFFICES ASSUME Init PROVE ClientInv
    OBVIOUS
  <1>1. TypeOK
    <2>1. /\ <<>> \in Seq(Request) /\ <<>> \in Seq(Accounts)
          /\ <<>> \in Seq(Answer \cup {Forwarded})
      OBVIOUS
    <2>2. {logins, commands, forwards, sendFaults} \subseteq Nat /\ rwsem \in Nat
      BY DEF Init
    <2>3. /\ g_friends \in Seq(Accounts) /\ toServer \in Seq(Request)
          /\ fromServer \in Seq(Answer \cup {Forwarded})
      BY <2>1 DEF Init
    <2> QED  BY <2>2, <2>3 DEF Init, TypeOK
  <1>2. Asked = {} /\ Sent = {} /\ ~Reading
    BY DEF Init, Asked, Sent, Reading
  <1> QED  BY <1>1, <1>2 DEF Init, ClientInv, HandsOver, AtMostOne, Waiting

\* Every step keeps the types.
LEMMA TypeStep == TypeOK /\ [Next]_vars => TypeOK'
  <1> SUFFICES ASSUME TypeOK, [Next]_vars PROVE TypeOK'
    OBVIOUS
  <1> USE ConstantsAssumption DEF TypeOK, mainVars, readerVars, sharedVars, serverVars, counters
  <1>1. CASE Register
    <2>1. [type |-> "REG_MSG"] \in Request
      BY DEF Request
    <2>2. toServer' \in Seq(Request) /\ sendFaults' \in Nat
      BY <1>1, <2>1, SendType DEF Register
    <2> QED  BY <1>1, <2>2 DEF Register
  <1>2. ASSUME NEW u \in Accounts, ResetFlag(u) PROVE TypeOK'
    <2>1. logins' \in Nat /\ id' \in Accounts /\ g_isLoginSuccess' = FALSE
      BY <1>2 DEF ResetFlag
    <2> QED  BY <1>2, <2>1 DEF ResetFlag
  <1>3. CASE Command
    <2>1. [type |-> "COMMAND", user |-> g_currentUser] \in Request
      BY DEF Request
    <2>2. toServer' \in Seq(Request) /\ sendFaults' \in Nat
      BY <1>3, <2>1, SendType DEF Command
    <2> QED  BY <1>3, <2>2 DEF Command
  <1>4. CASE Loginout
    <2>1. [type |-> "LOGINOUT_MSG", user |-> g_currentUser] \in Request
      BY DEF Request
    <2>2. toServer' \in Seq(Request) /\ sendFaults' \in Nat
      BY <1>4, <2>1, SendType DEF Loginout
    <2> QED  BY <1>4, <2>2 DEF Loginout
  <1>5. CASE Quit \/ RecvEnd
    BY <1>5 DEF Quit, RecvEnd, EndProcess
  <1>6. CASE SendLogin
    <2>1. [type |-> "LOGIN_MSG", user |-> id] \in Request
      BY <1>6 DEF Request, SendLogin
    <2>2. toServer' \in Seq(Request) /\ sendFaults' \in Nat
      BY <1>6, <2>1, SendType DEF SendLogin
    <2> QED  BY <1>6, <2>2 DEF SendLogin
  <1>7. CASE SemWait
    BY <1>7 DEF SemWait
  <1>8. CASE CheckFlag \/ LeaveMainMenu
    BY <1>8 DEF CheckFlag, LeaveMainMenu
  <1>9. CASE Recv
    <2> PICK n \in Read(fromServer) : fromServer' = SubSeq(fromServer, n + 1, Len(fromServer))
      BY <1>9 DEF Recv
    <2>1. /\ fromServer' \in Seq(Answer \cup {Forwarded})
          /\ Head(fromServer) \in Answer \cup {Forwarded}
      BY <1>9, Taking DEF Recv
    <2>2. ASSUME Head(fromServer).type = "LOGIN_MSG_ACK" PROVE Head(fromServer) \in Answer
      BY <2>1, <2>2 DEF Forwarded
    <2>3. /\ reader' \in {"recv", "readErrno", "post"}
          /\ response' \in Answer \cup {NoAnswer}
          /\ reader' = "readErrno" => response' # NoAnswer /\ response'.type = "LOGIN_MSG_ACK"
      BY <1>9, <2>2, AnswersAssumption DEF Recv
    <2> QED  BY <1>9, <2>1, <2>3 DEF Recv
  <1>10. CASE ReadErrno
    <2>1. \A r : r = response => Succeeds(r) \subseteq BOOLEAN
      BY <1>10 DEF ReadErrno, Succeeds, Answer
    <2> QED  BY <1>10, <2>1 DEF ReadErrno
  <1>11. CASE SetUser
    <2>1. response.result = "granted" => response.user \in Accounts
      BY <1>11 DEF SetUser, Answer
    <2> QED  BY <1>11, <2>1 DEF SetUser
  <1>12. CASE PushFriends
    <2>1. response.result = "granted" => response.user \in Accounts
      BY <1>12 DEF PushFriends, Answer
    <2>2. g_friends' \in Seq(Accounts)
      BY <1>12, <2>1 DEF PushFriends
    <2> QED  BY <1>12, <2>2 DEF PushFriends
  <1>13. CASE Post
    BY <1>13 DEF Post
  <1>14. CASE Handle
    <2> PICK n \in Read(toServer) : toServer' = SubSeq(toServer, n + 1, Len(toServer))
      BY <1>14 DEF Handle
    <2> DEFINE r == Head(toServer)
    <2>1. toServer' \in Seq(Request) /\ r \in Request
      BY <1>14, Taking DEF Handle
    <2>2. r.type = "LOGIN_MSG" => r.user \in Accounts
      BY <2>1 DEF Request
    <2>3. \A result \in LoginResults(r.user) :
            r.type = "LOGIN_MSG" => Ack(result, r.user) \in Answer
      BY <2>2 DEF LoginResults, Ack, Answer
    <2>4. [type |-> "REG_MSG_ACK"] \in Answer
      BY DEF Answer
    <2>5. r.type = "LOGIN_MSG" =>
            \A result : \A recorded \in Recorded(result, r.user) : recorded \subseteq Accounts
      BY <2>2 DEF Recorded
    <2>6. answer' \in Answer \cup {NoAnswer} /\ sessions' \subseteq Accounts
      BY <1>14, <2>3, <2>4, <2>5 DEF Handle
    <2> QED  BY <1>14, <2>1, <2>6 DEF Handle
  <1>15. CASE Reply
    <2>1. fromServer' \in Seq(Answer \cup {Forwarded})
      BY <1>15, Sending DEF Reply
    <2> QED  BY <1>15, <2>1 DEF Reply
  <1>16. CASE Forward
    <2>1. fromServer' \in Seq(Answer \cup {Forwarded})
      <3>1. Append(fromServer, Forwarded) \in Seq(Answer \cup {Forwarded})
        BY Sending
      <3> QED  BY <1>16, <3>1 DEF Forward
    <2> QED  BY <1>16, <2>1 DEF Forward
  <1>17. CASE RunPending
    <2>1. fromServer' \in Seq(Answer \cup {Forwarded})
      BY <1>17, PendingKeepsAnswers DEF RunPending
    <2> QED  BY <1>17, <2>1 DEF RunPending
  <1>18. CASE Fall
    <2>1. toServer' \in Seq(Request)
      BY <1>18 DEF Fall
    <2> QED  BY <1>18, <2>1 DEF Fall
  <1>19. CASE UNCHANGED vars
    BY <1>19 DEF vars
  <1> QED  BY <1>1, <1>2, <1>3, <1>4, <1>5, <1>6, <1>7, <1>8, <1>9, <1>10, <1>11, <1>12, <1>13,
              <1>14, <1>15, <1>16, <1>17, <1>18, <1>19
     DEF Next, User, Main, readTaskHandler, Server

-----------------------------------------------------------------------------
\* Every step of the two threads and of the server leaves an answer in one
\* place at most, and only while the main thread waits for it.
LEMMA HandOverStep == ClientInv /\ [Next]_vars => HandsOver'
  <1> SUFFICES ASSUME TypeOK, HandsOver, [Next]_vars PROVE HandsOver'
    BY DEF ClientInv
  <1> USE DEF HandsOver, AtMostOne, Waiting
  <1>a. UNCHANGED toServer => Asked' = Asked
    BY DEF Asked
  <1>b. UNCHANGED fromServer => Sent' = Sent
    BY DEF Sent
  <1>c. UNCHANGED reader => Reading' = Reading
    BY DEF Reading
  <1>d. main \in {"menu", "sendLogin", "checkFlag", "mainMenu"} =>
          Asked = {} /\ answer = NoAnswer /\ Sent = {} /\ ~Reading /\ rwsem = 0
    OBVIOUS
  <1>1. CASE Register
    <2>1. Asked' = Asked \/ Asked' = Asked \cup {Len(toServer) + 1}
      <3>1. [type |-> "REG_MSG"] \in Request
        BY DEF Request
      <3> QED  BY <1>1, <1>a, <3>1, AskedBySending DEF Register, Send
    <2> QED  BY <1>1, <1>b, <1>c, <1>d, <2>1 DEF Register, readerVars, sharedVars, serverVars
  <1>2. ASSUME NEW u \in Accounts, ResetFlag(u) PROVE HandsOver'
    BY <1>2, <1>a, <1>b, <1>c, <1>d DEF ResetFlag, readerVars, serverVars
  <1>3. CASE Command
    <2>1. Asked' = Asked
      <3>1. [type |-> "COMMAND", user |-> g_currentUser] \in Request
        BY DEF Request, TypeOK
      <3> QED  BY <1>3, <1>a, <3>1, AskedBySending DEF Command, Send, AsksForAnswer
    <2> QED  BY <1>3, <1>b, <1>c, <1>d, <2>1
                DEF Command, mainVars, readerVars, sharedVars, serverVars
  <1>4. CASE Loginout
    <2>1. Asked' = Asked
      <3>1. [type |-> "LOGINOUT_MSG", user |-> g_currentUser] \in Request
        BY DEF Request, TypeOK
      <3> QED  BY <1>4, <1>a, <3>1, AskedBySending DEF Loginout, Send, AsksForAnswer
    <2> QED  BY <1>4, <1>b, <1>c, <1>d, <2>1 DEF Loginout, readerVars, sharedVars, serverVars
  <1>5. CASE Quit \/ RecvEnd
    <2>1. ~Reading'
      BY <1>5 DEF Quit, RecvEnd, EndProcess, Reading
    <2> QED  BY <1>5, <1>a, <1>b, <2>1 DEF Quit, RecvEnd, EndProcess, sharedVars, serverVars
  <1>6. CASE SendLogin
    <2>1. Asked' = Asked \/ Asked' = Asked \cup {Len(toServer) + 1}
      <3>1. [type |-> "LOGIN_MSG", user |-> id] \in Request
        BY <1>6 DEF Request, TypeOK, SendLogin
      <3> QED  BY <1>6, <1>a, <3>1, AskedBySending DEF SendLogin, Send
    <2> QED  BY <1>6, <1>b, <1>c, <1>d, <2>1 DEF SendLogin, readerVars, sharedVars, serverVars
  <1>7. CASE SemWait
    <2>1. rwsem = 1 /\ rwsem' = 0 /\ main' \in {"menu", "checkFlag"}
      BY <1>7 DEF SemWait
    <2>2. Asked' = {} /\ answer' = NoAnswer /\ Sent' = {} /\ ~Reading'
      BY <1>7, <1>a, <1>b, <1>c, <2>1 DEF SemWait, readerVars, serverVars
    <2> QED  BY <1>7, <2>1, <2>2 DEF SemWait, readerVars
  <1>8. CASE CheckFlag \/ LeaveMainMenu
    BY <1>8, <1>a, <1>b, <1>c, <1>d
       DEF CheckFlag, LeaveMainMenu, readerVars, sharedVars, serverVars
  <1>9. CASE Recv
    <2> PICK n \in Read(fromServer) : fromServer' = SubSeq(fromServer, n + 1, Len(fromServer))
      BY <1>9 DEF Recv
    <2>1. /\ AtMostOne(Sent') /\ (Sent = {} => Sent' = {})
          /\ IsAnswer(Head(fromServer)) => Sent # {} /\ Sent' = {}
      BY <1>9, SentByTaking DEF Recv
    <2>2. Asked' = Asked /\ answer' = answer /\ rwsem' = rwsem /\ main' = main
      BY <1>9, <1>a DEF Recv, mainVars, sharedVars, serverVars
    <2>3. CASE IsAnswer(Head(fromServer))
      <3>1. reader' \in {"readErrno", "post"}
        BY <1>9, <2>3 DEF Recv, IsAnswer
      <3> QED  BY <1>9, <2>1, <2>2, <2>3, <3>1 DEF Recv
    <2>4. CASE Head(fromServer) = Forwarded
      <3>1. reader' = reader
        BY <1>9, <2>4 DEF Recv, readerVars, Forwarded
      <3> QED  BY <1>9, <1>c, <2>1, <2>2, <3>1 DEF Recv
    <2> QED  BY <2>3, <2>4 DEF IsAnswer
  <1>10. CASE ReadErrno \/ SetUser \/ PushFriends
    <2>1. Reading /\ Reading' /\ reader' # "exited"
      BY <1>10 DEF ReadErrno, SetUser, PushFriends, Reading
    <2>2. Asked' = Asked /\ Sent' = Sent /\ answer' = answer /\ rwsem' = rwsem /\ main' = main
      BY <1>10, <1>a, <1>b DEF ReadErrno, SetUser, PushFriends, mainVars, sharedVars, serverVars
    <2> QED  BY <1>10, <2>1, <2>2 DEF ReadErrno, SetUser, PushFriends
  <1>11. CASE Post
    <2>1. Reading /\ ~Reading'
      BY <1>11 DEF Post, Reading
    <2>2. Asked' = Asked /\ Sent' = Sent /\ answer' = answer /\ main' = main /\ rwsem' = 1
      BY <1>11, <1>a, <1>b, <2>1 DEF Post, mainVars, serverVars
    <2> QED  BY <1>11, <2>1, <2>2 DEF Post
  <1>12. CASE Handle
    <2> PICK n \in Read(toServer) : toServer' = SubSeq(toServer, n + 1, Len(toServer))
      BY <1>12 DEF Handle
    <2>1. /\ AtMostOne(Asked') /\ (Asked = {} => Asked' = {})
          /\ AsksForAnswer(Head(toServer)) => Asked # {} /\ Asked' = {}
      BY <1>12, AskedByTaking DEF Handle
    <2>2. /\ Sent' = Sent /\ Reading' = Reading /\ rwsem' = rwsem
          /\ main' = main /\ reader' = reader
      BY <1>12, <1>b, <1>c DEF Handle, mainVars, readerVars, sharedVars
    <2>3. AsksForAnswer(Head(toServer)) \/ answer' = answer
      BY <1>12 DEF Handle, AsksForAnswer, serverVars
    <2> QED  BY <1>12, <2>1, <2>2, <2>3 DEF Handle
  <1>13. CASE Reply
    <2>1. Sent = {} /\ (Sent' = Sent \/ Sent' = Sent \cup {Len(fromServer) + 1})
      BY <1>13, SentBySending DEF Reply, TypeOK
    <2> QED  BY <1>13, <1>a, <1>c, <2>1 DEF Reply, mainVars, readerVars, sharedVars
  <1>14. CASE Forward
    <2>1. Sent' = Sent
      BY <1>14, <1>b, SentBySending DEF Forward, IsAnswer
    <2> QED  BY <1>14, <1>a, <1>c, <2>1
                DEF Forward, mainVars, readerVars, sharedVars
  <1>17. CASE RunPending
    <2>1. Sent' = Sent
      BY <1>17, PendingKeepsAnswers DEF RunPending
    <2> QED  BY <1>17, <1>a, <1>c, <2>1
                DEF RunPending, mainVars, readerVars, sharedVars
  <1>15. CASE Fall
    <2>1. Asked' = {} /\ answer' = NoAnswer
      BY <1>15 DEF Fall, Asked
    <2> QED  BY <1>15, <1>b, <1>c, <2>1 DEF Fall, mainVars, readerVars, sharedVars
  <1>16. CASE UNCHANGED vars
    BY <1>16, <1>a, <1>b, <1>c DEF vars, mainVars, readerVars, sharedVars, serverVars
  <1> QED  BY <1>1, <1>2, <1>3, <1>4, <1>5, <1>6, <1>7, <1>8, <1>9, <1>10, <1>11, <1>12, <1>13,
              <1>14, <1>15, <1>16, <1>17 DEF Next, User, Main, readTaskHandler, Server

-----------------------------------------------------------------------------
\* A set whose members are all the same counts for nought or for one.
LEMMA CountOfAtMostOne ==
  ASSUME NEW S, AtMostOne(S)
  PROVE  Cardinality(S) = One(S # {})
  <1>1. CASE S = {}
    BY <1>1, FS_EmptySet DEF One
  <1>2. CASE S # {}
    <2> PICK x : x \in S
      BY <1>2
    <2>1. S = {x}
      BY DEF AtMostOne
    <2> QED  BY <2>1, FS_Singleton DEF One
  <1> QED  BY <1>1, <1>2

\* The invariant counts one answer at most, and only while the main thread waits.
LEMMA HandsOverImplies == ClientInv => OneAnswerPerWait
  <1> SUFFICES ASSUME ClientInv PROVE OneAnswerPerWait
    OBVIOUS
  <1>1. Cardinality(Asked) = One(Asked # {}) /\ Cardinality(Sent) = One(Sent # {})
    BY CountOfAtMostOne DEF ClientInv, HandsOver
  <1> QED  BY <1>1 DEF ClientInv, HandsOver, OneAnswerPerWait, Due, One

\* Both parts of the invariant hold in every state.
THEOREM Invariance == Spec => []ClientInv
  <1>1. ClientInv /\ [Next]_vars => ClientInv'
    BY TypeStep, HandOverStep DEF ClientInv
  <1> QED  BY Initially, <1>1, PTL DEF Spec

\* The threads, the connection and the server keep their types, for any
\* accounts and bounds.
THEOREM TypeCorrect == Spec => []TypeOK
  <1>1. ClientInv => TypeOK
    BY DEF ClientInv
  <1> QED  BY Invariance, <1>1, PTL

\* Every sem_wait of the main thread ends with the answer to the request it
\* waits for, and the shared variables are never written while it runs on.
THEOREM OneAnswerPerWaitHolds == Spec => []OneAnswerPerWait
  BY Invariance, HandsOverImplies, PTL

-----------------------------------------------------------------------------
(***************************************************************************)
(* The client and its server agree on who is logged in, for any accounts   *)
(* and bounds, as long as messages are read one at a time and no account   *)
(* is online elsewhere.  It is false without either of the two: then a     *)
(* logout may be lost, or the answer to a login misread.                   *)
(***************************************************************************)

\* The logouts the server has yet to take
Leaving == {i \in DOMAIN toServer : toServer[i].type = "LOGINOUT_MSG"}

\* The user has not been let in, or has left: no login of theirs is answered.
LoggedOut ==
  \/ main \in {"menu", "waitReg", "sendLogin"}
  \/ main = "mainMenu" /\ ~isMainMenuRunning
  \/ main = "waitLogin" /\ answer = NoAnswer /\ Sent = {} /\ ~Reading /\ rwsem = 0

\* The session is there once the user is let in, until the logout is taken,
\* and the logout is taken before the next request that is answered.
LogoutsInOrder ==
  /\ LoggedOut /\ Leaving = {} => sessions = {}
  /\ Leaving # {} => LoggedOut
  /\ AtMostOne(Leaving) /\ \A i \in Leaving : sessions = {toServer[i].user}
  /\ \A i \in Leaving, j \in Asked : i < j
  /\ \A i \in Asked : toServer[i].type = IF main = "waitReg" THEN "REG_MSG" ELSE "LOGIN_MSG"

Decided(r) ==
  /\ r.type = "LOGIN_MSG_ACK"
  /\ \/ r.result = "granted" /\ sessions = {r.user}
     \/ r.result = "refused" /\ sessions = {}

FlagAgrees ==
  \/ g_isLoginSuccess /\ sessions = {g_currentUser}
  \/ ~g_isLoginSuccess /\ sessions = {}

\* What the server has decided is what the answer says wherever it is, and
\* what the flag and g_currentUser say once it has been read.
AnswerInOrder ==
  /\ answer # NoAnswer => Decided(answer)
  /\ \A i \in Sent : Decided(fromServer[i])
  /\ reader = "readErrno" => Decided(response)
  /\ reader = "setUser" => Decided(response) /\ response.result = "granted" /\ g_isLoginSuccess
  /\ reader = "pushFriends" \/ reader = "post" \/ rwsem # 0 => FlagAgrees

LoginsInOrder ==
  /\ main = "waitLogin" => AnswerInOrder
  /\ main = "checkFlag" => FlagAgrees
  /\ main = "mainMenu" /\ isMainMenuRunning => sessions = {g_currentUser}

InStep == up /\ main # "exited" => LogoutsInOrder /\ LoginsInOrder

-----------------------------------------------------------------------------
\* A request that is sent comes behind those on their way.
LEMMA Queueing ==
  ASSUME TypeOK, NEW r \in Request, toServer' = Append(toServer, r)
  PROVE  /\ Leaving' = IF r.type = "LOGINOUT_MSG" THEN Leaving \cup {Len(toServer) + 1} ELSE Leaving
         /\ \A i \in Leaving \cup Asked : i < Len(toServer) + 1 /\ toServer'[i] = toServer[i]
         /\ toServer'[Len(toServer) + 1] = r
  <1>1. toServer \in Seq(Request)
    BY DEF TypeOK
  <1>2. \A i \in Leaving \cup Asked : i \in DOMAIN toServer
    BY DEF Leaving, Asked
  <1> QED  BY <1>1, <1>2, Sending DEF Leaving

\* One request taken moves the others up.
LEMMA HandlingOne ==
  ASSUME TypeOK, toServer # <<>>, toServer' = SubSeq(toServer, 2, Len(toServer))
  PROVE  /\ Head(toServer) \in Request /\ Head(toServer) = toServer[1]
         /\ Head(toServer).type = "LOGINOUT_MSG" => 1 \in Leaving
         /\ AsksForAnswer(Head(toServer)) => 1 \in Asked
         /\ Head(toServer).type # "LOGINOUT_MSG" => 1 \notin Leaving
         /\ \A i \in Leaving : i \in Nat /\ i >= 1 /\ (i # 1 => i - 1 \in Leaving')
         /\ \A i \in Leaving' : i \in Nat /\ i >= 1 /\ i + 1 \in Leaving
         /\ \A i \in Asked' : i \in Nat /\ i >= 1 /\ i + 1 \in Asked
         /\ \A i \in Leaving' \cup Asked' : toServer'[i] = toServer[i + 1]
  <1>1. toServer \in Seq(Request)
    BY DEF TypeOK
  <1>2. /\ Head(toServer) \in Request /\ Head(toServer) = toServer[1] /\ 1 \in DOMAIN toServer
        /\ DOMAIN toServer = 1..Len(toServer) /\ Len(toServer) \in Nat
        /\ DOMAIN toServer' = 1..(Len(toServer) - 1)
        /\ \A i \in 1..(Len(toServer) - 1) : toServer'[i] = toServer[i + 1]
    BY <1>1
  <1> QED  BY <1>2 DEF Leaving, Asked

\* One message read moves the others up.
LEMMA ReadingOne ==
  ASSUME TypeOK, fromServer # <<>>, fromServer' = SubSeq(fromServer, 2, Len(fromServer))
  PROVE  /\ Head(fromServer) = fromServer[1]
         /\ IsAnswer(Head(fromServer)) => 1 \in Sent
         /\ Head(fromServer) = Forwarded => 1 \notin Sent
         /\ \A i \in Sent : i # 1 => i - 1 \in Sent'
         /\ \A i \in Sent' : /\ i \in Nat /\ i >= 1 /\ i + 1 \in Sent
                              /\ fromServer'[i] = fromServer[i + 1]
  <1>1. fromServer \in Seq(Answer \cup {Forwarded})
    BY DEF TypeOK
  <1>2. /\ Head(fromServer) = fromServer[1] /\ 1 \in DOMAIN fromServer
        /\ DOMAIN fromServer = 1..Len(fromServer) /\ Len(fromServer) \in Nat
        /\ DOMAIN fromServer' = 1..(Len(fromServer) - 1)
        /\ \A i \in 1..(Len(fromServer) - 1) : fromServer'[i] = fromServer[i + 1]
    BY <1>1
  <1> QED  BY <1>2 DEF Sent, IsAnswer

\* In the first state nobody is logged in and nothing is on its way.
LEMMA InStepInitially == Init => InStep
  <1> SUFFICES ASSUME Init PROVE InStep
    OBVIOUS
  <1>1. Leaving = {} /\ Asked = {} /\ Sent = {} /\ ~Reading
    BY DEF Init, Leaving, Asked, Sent, Reading
  <1> QED  BY <1>1 DEF Init, InStep, LogoutsInOrder, LoginsInOrder, AtMostOne

-----------------------------------------------------------------------------
\* The steps of the main thread
LEMMA MainInStep ==
  ASSUME ClientInv, InStep, User \/ Main
  PROVE  InStep'
  <1>0. main # "exited" /\ up' = up
    <2>1. CASE User
      BY <2>1 DEF User, Register, ResetFlag, Command, Loginout, Quit, EndProcess
    <2>2. CASE Main
      BY <2>2 DEF Main, SendLogin, SemWait, CheckFlag, LeaveMainMenu, Waiting
    <2> QED  BY <2>1, <2>2
  <1> SUFFICES ASSUME up, main # "exited", main' # "exited"
               PROVE  LogoutsInOrder' /\ LoginsInOrder'
    BY <1>0 DEF InStep
  <1> USE DEF ClientInv, HandsOver, InStep, LogoutsInOrder, LoginsInOrder, LoggedOut, AtMostOne
  <1>a. UNCHANGED toServer => Asked' = Asked /\ Leaving' = Leaving
    BY DEF Asked, Leaving
  <1>b. UNCHANGED fromServer => Sent' = Sent
    BY DEF Sent
  <1>c. UNCHANGED reader => Reading' = Reading
    BY DEF Reading
  <1>d. main \in {"menu", "sendLogin", "checkFlag", "mainMenu"} =>
          Asked = {} /\ answer = NoAnswer /\ Sent = {} /\ ~Reading /\ rwsem = 0
    BY DEF Waiting
  <1>1. CASE Register
    <2>1. [type |-> "REG_MSG"] \in Request
      BY DEF Request
    <2>2. /\ Leaving' = Leaving
          /\ \A i \in Leaving : toServer'[i] = toServer[i]
          /\ \A i \in Asked' : toServer'[i].type = "REG_MSG" /\ \A j \in Leaving : j < i
      BY <1>1, <1>a, <1>d, <2>1, Queueing, AskedBySending DEF Register, Send
    <2> QED  BY <1>1, <2>2 DEF Register, sharedVars, serverVars
  <1>2. ASSUME NEW u \in Accounts, ResetFlag(u) PROVE LogoutsInOrder' /\ LoginsInOrder'
    BY <1>2, <1>a, <1>d DEF ResetFlag, serverVars
  <1>3. CASE Command
    <2>1. [type |-> "COMMAND", user |-> g_currentUser] \in Request
      BY DEF Request, TypeOK
    <2>2. Leaving' = {} /\ Asked' = {}
      BY <1>3, <1>a, <1>d, <2>1, Queueing, AskedBySending DEF Command, Send, AsksForAnswer
    <2> QED  BY <1>3, <2>2 DEF Command, mainVars, sharedVars, serverVars
  <1>4. CASE Loginout
    <2> PICK ok \in BOOLEAN : /\ Send([type |-> "LOGINOUT_MSG", user |-> g_currentUser], ok)
                              /\ isMainMenuRunning' = ~ok
      BY <1>4 DEF Loginout
    <2>1. [type |-> "LOGINOUT_MSG", user |-> g_currentUser] \in Request
      BY DEF Request, TypeOK
    <2>2. Leaving = {} /\ Asked' = {} /\ sessions = {g_currentUser}
      BY <1>4, <1>a, <1>d, <2>1, AskedBySending DEF Loginout, Send, AsksForAnswer
    <2>3. CASE ok
      <3>1. /\ Leaving' = {Len(toServer) + 1}
            /\ toServer'[Len(toServer) + 1].user = g_currentUser
        BY <1>a, <2>1, <2>2, <2>3, Queueing DEF Send
      <3> QED  BY <1>4, <2>2, <2>3, <3>1 DEF Loginout, sharedVars, serverVars
    <2>4. CASE ~ok
      BY <1>4, <1>a, <2>2, <2>4 DEF Send, Loginout, sharedVars, serverVars
    <2> QED  BY <2>3, <2>4
  <1>5. CASE SendLogin
    <2>1. [type |-> "LOGIN_MSG", user |-> id] \in Request
      BY <1>5 DEF Request, TypeOK, SendLogin
    <2>2. /\ Leaving' = Leaving
          /\ \A i \in Leaving : toServer'[i] = toServer[i]
          /\ \A i \in Asked' : toServer'[i].type = "LOGIN_MSG" /\ \A j \in Leaving : j < i
      BY <1>5, <1>a, <1>d, <2>1, Queueing, AskedBySending DEF SendLogin, Send
    <2>3. answer' = NoAnswer /\ Sent' = {} /\ ~Reading' /\ rwsem' = 0 /\ reader' = reader
      BY <1>5, <1>b, <1>c, <1>d DEF SendLogin, readerVars, sharedVars, serverVars
    <2>4. AnswerInOrder'
      BY <2>3 DEF AnswerInOrder, Reading
    <2> QED  BY <1>5, <2>2, <2>3, <2>4 DEF SendLogin, serverVars
  <1>6. CASE SemWait
    <2>1. Asked = {} /\ rwsem # 0
      BY <1>6 DEF SemWait
    <2>2. CASE main = "waitReg"
      BY <1>6, <1>a, <2>1, <2>2 DEF SemWait, serverVars
    <2>3. CASE main = "waitLogin"
      <3>1. Leaving = {} /\ FlagAgrees
        BY <2>1, <2>3 DEF AnswerInOrder
      <3>2. FlagAgrees'
        BY <1>6, <3>1 DEF SemWait, FlagAgrees, serverVars
      <3> QED  BY <1>6, <1>a, <2>1, <2>3, <3>1, <3>2 DEF SemWait
    <2> QED  BY <1>6, <2>2, <2>3 DEF SemWait, Waiting
  <1>7. CASE CheckFlag
    <2>1. Leaving' = {} /\ Asked' = {} /\ FlagAgrees
      BY <1>7, <1>a, <1>d DEF CheckFlag
    <2> QED  BY <1>7, <2>1 DEF CheckFlag, FlagAgrees, sharedVars, serverVars
  <1>8. CASE LeaveMainMenu
    BY <1>8, <1>a, <1>d DEF LeaveMainMenu, sharedVars, serverVars
  <1>9. CASE Quit
    BY <1>9 DEF Quit, EndProcess
  <1> QED  BY <1>1, <1>2, <1>3, <1>4, <1>5, <1>6, <1>7, <1>8, <1>9 DEF User, Main

\* The steps of readTaskHandler, which reads one message at a time
LEMMA ReaderInStep ==
  ASSUME ~MayGlue, ClientInv, InStep, readTaskHandler
  PROVE  InStep'
  <1> SUFFICES ASSUME up, main # "exited", main' # "exited"
               PROVE  LogoutsInOrder' /\ LoginsInOrder'
    BY DEF InStep, readTaskHandler, Recv, RecvEnd, EndProcess, ReadErrno, SetUser, PushFriends,
           Post, mainVars
  <1> USE DEF ClientInv, HandsOver, InStep, LogoutsInOrder, LoginsInOrder, LoggedOut, AtMostOne
  <1>0. ~RecvEnd
    BY DEF RecvEnd, EndProcess
  <1>1. /\ Asked' = Asked /\ Leaving' = Leaving
        /\ UNCHANGED <<main, isMainMenuRunning, toServer, sessions, answer>>
    BY <1>0
       DEF readTaskHandler, Recv, ReadErrno, SetUser, PushFriends, Post, mainVars, serverVars,
                Asked, Leaving
  <1>2. CASE main # "waitLogin"
    <2>1. main \in {"checkFlag", "mainMenu"} => UNCHANGED <<g_isLoginSuccess, g_currentUser>>
      BY <1>0
         DEF readTaskHandler, Recv, ReadErrno, SetUser, PushFriends, Post, sharedVars, Reading,
                  Waiting
    <2> QED  BY <1>1, <1>2, <2>1 DEF FlagAgrees
  <1>3. CASE main = "waitLogin"
    <2> SUFFICES AnswerInOrder' /\ (LoggedOut' => LoggedOut) /\ (Leaving # {} => LoggedOut')
      BY <1>1, <1>3
    <2> USE DEF AnswerInOrder
    <2>1. CASE Recv
      <3>1. fromServer' = SubSeq(fromServer, 2, Len(fromServer)) /\ fromServer # <<>> /\ ~Reading
        BY <2>1 DEF Recv, Read, Reading
      <3>2. CASE IsAnswer(Head(fromServer))
        <4>1. 1 \in Sent /\ Head(fromServer) = fromServer[1] /\ Sent' = {}
          BY <3>1, <3>2, ReadingOne
        <4>2. Decided(Head(fromServer)) /\ Leaving = {} /\ rwsem = 0 /\ answer = NoAnswer
          BY <1>3, <4>1
        <4>3. response' = Head(fromServer) /\ reader' = "readErrno" /\ rwsem' = 0
          BY <2>1, <4>2 DEF Recv, Decided, Forwarded, sharedVars
        <4> QED  BY <1>1, <1>3, <4>1, <4>2, <4>3 DEF Decided, Reading
      <3>3. CASE Head(fromServer) = Forwarded
        <4>1. UNCHANGED <<reader, response, g_isLoginSuccess, g_currentUser, rwsem>>
          BY <2>1, <3>3 DEF Recv, Forwarded, readerVars, sharedVars
        <4>2. 1 \notin Sent /\ \A i \in Sent' : i + 1 \in Sent /\ fromServer'[i] = fromServer[i + 1]
          BY <3>1, <3>3, ReadingOne
        <4>3. Sent # {} => Sent' # {}
          BY <3>1, <4>2, ReadingOne
        <4> QED  BY <1>1, <1>3, <4>1, <4>2, <4>3 DEF Decided, FlagAgrees, Reading
      <3> QED  BY <3>2, <3>3 DEF IsAnswer
    <2>2. CASE ReadErrno
      <3>1. /\ Decided(response) /\ Sent = {} /\ Sent' = {} /\ answer = NoAnswer /\ rwsem' = 0
            /\ Leaving = {} /\ response' = response
        BY <1>3, <2>2 DEF ReadErrno, Reading, Sent
      <3>2. CASE response.result = "granted"
        <4>1. reader' = "setUser" /\ g_isLoginSuccess'
          BY <2>2, <3>2 DEF ReadErrno, Succeeds
        <4> QED  BY <1>1, <1>3, <3>1, <3>2, <4>1 DEF Decided, Reading
      <3>3. CASE response.result = "refused"
        <4>1. reader' = "post" /\ g_isLoginSuccess' = FALSE
          BY <2>2, <3>3 DEF ReadErrno, Succeeds
        <4> QED  BY <1>1, <1>3, <3>1, <3>3, <4>1 DEF Decided, FlagAgrees, Reading
      <3> QED  BY <3>1, <3>2, <3>3 DEF Decided
    <2>3. CASE SetUser
      <3>1. /\ Decided(response) /\ response.result = "granted" /\ g_isLoginSuccess
            /\ Sent = {} /\ Sent' = {} /\ answer = NoAnswer /\ rwsem' = 0 /\ Leaving = {}
        BY <1>3, <2>3 DEF SetUser, Reading, Sent
      <3>2. response.user \in Accounts /\ g_currentUser' = response.user /\ reader' = "pushFriends"
        BY <2>3, <3>1 DEF SetUser, TypeOK, Answer
      <3>3. FlagAgrees'
        BY <1>1, <2>3, <3>1, <3>2, ConstantsAssumption DEF SetUser, Decided, FlagAgrees
      <3> QED  BY <1>1, <1>3, <3>1, <3>2, <3>3 DEF Reading
    <2>4. CASE PushFriends
      <3>1. FlagAgrees /\ Sent = {} /\ Sent' = {} /\ answer = NoAnswer /\ rwsem' = 0 /\ Leaving = {}
        BY <1>3, <2>4 DEF PushFriends, Reading, Sent
      <3>2. FlagAgrees' /\ reader' = "post"
        BY <1>1, <2>4, <3>1 DEF PushFriends, FlagAgrees
      <3> QED  BY <1>1, <1>3, <3>1, <3>2 DEF Reading
    <2>5. CASE Post
      <3>1. FlagAgrees /\ Sent = {} /\ Sent' = {} /\ answer = NoAnswer /\ rwsem' = 1 /\ Leaving = {}
        BY <1>3, <2>5 DEF Post, Reading, Sent
      <3>2. FlagAgrees' /\ reader' = "recv"
        BY <1>1, <2>5, <3>1 DEF Post, FlagAgrees
      <3> QED  BY <1>1, <1>3, <3>1, <3>2 DEF Reading
    <2> QED  BY <1>0, <2>1, <2>2, <2>3, <2>4, <2>5 DEF readTaskHandler
  <1> QED  BY <1>2, <1>3

\* The steps of the server, which takes one request at a time and rejects none
LEMMA ServerInStep ==
  ASSUME ~MayGlue, ~MayReject, ClientInv, InStep, Server \/ Forward \/ Fall
  PROVE  InStep'
  <1> SUFFICES ASSUME up, up', main # "exited" PROVE LogoutsInOrder' /\ LoginsInOrder'
    BY DEF InStep, Server, Handle, Reply, RunPending, Forward, Fall, mainVars
  <1> USE DEF ClientInv, HandsOver, InStep, LogoutsInOrder, LoginsInOrder, LoggedOut, AtMostOne
  <1>0. ~Fall
    BY DEF Fall
  <1>b. UNCHANGED fromServer => Sent' = Sent
    BY DEF Sent
  <1>1. /\ UNCHANGED <<main, isMainMenuRunning, reader, response>>
        /\ UNCHANGED <<g_isLoginSuccess, g_currentUser, rwsem>>
        /\ Reading' = Reading
    BY <1>0 DEF Server, Handle, Reply, RunPending, Forward, mainVars, readerVars, sharedVars, Reading
  <1>2. CASE Handle
    <2> DEFINE r == Head(toServer)
    <2>1. /\ toServer' = SubSeq(toServer, 2, Len(toServer)) /\ toServer # <<>>
          /\ fromServer' = fromServer
      BY <1>2 DEF Handle, Read
    <2>2. Sent' = Sent
      BY <2>1 DEF Sent
    <2>0. /\ r \in Request /\ r = toServer[1]
          /\ r.type = "LOGINOUT_MSG" <=> 1 \in Leaving
          /\ AsksForAnswer(r) => 1 \in Asked
          /\ \A i \in Leaving : i \in Nat /\ i >= 1 /\ (i # 1 => i - 1 \in Leaving')
          /\ \A i \in Leaving' : i \in Nat /\ i >= 1 /\ i + 1 \in Leaving
          /\ \A i \in Asked' : i \in Nat /\ i >= 1 /\ i + 1 \in Asked
          /\ \A i \in Leaving' \cup Asked' : toServer'[i] = toServer[i + 1]
      BY <2>1, HandlingOne
    <2>3. CASE AsksForAnswer(r)
      <3>1. 1 \in Asked /\ Leaving = {} /\ Leaving' = {} /\ Asked' = {}
        BY <2>3, <2>0
      <3>2. /\ Waiting /\ answer = NoAnswer /\ Sent = {} /\ ~Reading /\ rwsem = 0
            /\ sessions = {}
            /\ r.type = IF main = "waitReg" THEN "REG_MSG" ELSE "LOGIN_MSG"
        BY <2>0, <3>1 DEF Waiting
      <3>3. CASE r.type = "REG_MSG"
        BY <1>1, <1>2, <2>2, <3>1, <3>2, <3>3 DEF Handle, Waiting
      <3>4. CASE r.type = "LOGIN_MSG"
        <4>1. r.user \in Accounts /\ r.user \notin sessions /\ main = "waitLogin"
          BY <2>0, <3>2, <3>4 DEF Request, Waiting
        <4>2. PICK result \in {"granted", "refused"} :
                /\ answer' = Ack(result, r.user)
                /\ sessions' = IF result = "granted" THEN {r.user} ELSE {}
          BY <1>2, <3>2, <3>4, <4>1 DEF Handle, LoginResults, Recorded
        <4>3. Ack(result, r.user) \in Answer
          BY <4>1 DEF Ack, Answer
        <4>4. Decided(answer)' /\ answer' # NoAnswer
          BY <3>2, <4>2, <4>3, AnswersAssumption DEF Decided, Ack
        <4>5. AnswerInOrder'
          BY <1>1, <2>2, <3>2, <4>4 DEF AnswerInOrder, Reading
        <4> QED  BY <1>1, <3>1, <4>1, <4>4, <4>5
      <3> QED  BY <2>3, <3>3, <3>4 DEF AsksForAnswer
    <2>4. CASE r.type = "LOGINOUT_MSG"
      <3>1. 1 \in Leaving /\ Leaving' = {} /\ LoggedOut /\ sessions = {r.user}
        BY <2>4, <2>0
      <3>2. sessions' = {} /\ answer' = answer
        BY <1>2, <2>4, <3>1 DEF Handle
      <3>3. main = "waitLogin" => AnswerInOrder'
        BY <1>1, <2>2, <3>1, <3>2 DEF AnswerInOrder, Reading
      <3>4. \A i \in Asked' : toServer'[i].type = toServer[i + 1].type /\ i + 1 \in Asked
        BY <2>0
      <3> QED  BY <1>1, <2>2, <3>1, <3>2, <3>3, <3>4
    <2>5. CASE r.type = "COMMAND"
      <3>1. UNCHANGED <<sessions, answer>>
        BY <1>2, <2>5 DEF Handle
      <3>2. main = "waitLogin" => AnswerInOrder'
        BY <1>1, <2>1, <2>2, <3>1 DEF AnswerInOrder, Decided, FlagAgrees
      <3>3. /\ Leaving' = {} <=> Leaving = {}
            /\ \A i \in Leaving' : sessions = {toServer'[i].user}
            /\ \A i, j \in Leaving' : i = j
            /\ \A i \in Leaving', j \in Asked' : i < j
        BY <2>5, <2>0
      <3>4. \A i \in Asked' : toServer'[i].type = toServer[i + 1].type /\ i + 1 \in Asked
        BY <2>0
      <3> QED  BY <1>1, <2>2, <3>1, <3>2, <3>3, <3>4 DEF FlagAgrees
    <2> QED  BY <2>3, <2>4, <2>5, <2>0 DEF Request, AsksForAnswer
  <1>3. CASE Reply
    <2>1. Asked' = Asked /\ Leaving' = Leaving /\ UNCHANGED <<toServer, sessions>>
      BY <1>3 DEF Reply, Asked, Leaving
    <2>2. CASE main # "waitLogin"
      BY <1>1, <2>1, <2>2 DEF FlagAgrees
    <2>3. CASE main = "waitLogin"
      <3>1. /\ Decided(answer) /\ Sent = {} /\ ~Reading /\ rwsem = 0 /\ Leaving = {}
            /\ fromServer \in Seq(Answer \cup {Forwarded}) /\ answer \in Answer
        BY <1>3, <2>3 DEF Reply, AnswerInOrder, TypeOK
      <3>2. answer # Forwarded
        BY <3>1 DEF Decided, Forwarded
      <3>3. Sent' = {Len(fromServer) + 1} /\ fromServer'[Len(fromServer) + 1] = answer
        BY <1>3, <3>1, <3>2, SentBySending, Sending DEF Reply, IsAnswer
      <3>4. AnswerInOrder'
        BY <1>1, <1>3, <2>1, <3>1, <3>3 DEF AnswerInOrder, Decided, Reply, Reading
      <3> QED  BY <1>1, <2>1, <2>3, <3>1, <3>3, <3>4
    <2> QED  BY <2>2, <2>3
  <1>4. CASE Forward \/ RunPending
    <2>1. Asked' = Asked /\ Leaving' = Leaving /\ UNCHANGED <<toServer, sessions, answer>>
      BY <1>4 DEF Forward, RunPending, Asked, Leaving
    <2>2. Sent' = Sent /\ \A i \in Sent : fromServer'[i] = fromServer[i]
      <3>1. fromServer \in Seq(Answer \cup {Forwarded}) /\ \A i \in Sent : i \in DOMAIN fromServer
        BY DEF TypeOK, Sent
      <3>2. CASE Forward
        BY <1>b, <3>1, <3>2, SentBySending, Sending DEF Forward, IsAnswer
      <3>3. CASE RunPending
        BY <3>3, PendingKeepsAnswers DEF RunPending
      <3> QED  BY <1>4, <3>2, <3>3
    <2>3. main = "waitLogin" => AnswerInOrder'
      BY <1>1, <2>1, <2>2 DEF AnswerInOrder, Decided, FlagAgrees
    <2> QED  BY <1>1, <2>1, <2>2, <2>3 DEF FlagAgrees
  <1> QED  BY <1>0, <1>2, <1>3, <1>4 DEF Server

\* Every step keeps client and server in step.
LEMMA InStepStep ==
  ASSUME ~MayGlue, ~MayReject, ClientInv, InStep, [Next]_vars
  PROVE  InStep'
  <1>1. CASE UNCHANGED vars
    BY <1>1 DEF vars, mainVars, readerVars, sharedVars, serverVars, InStep, LogoutsInOrder,
       LoginsInOrder, LoggedOut, AnswerInOrder, FlagAgrees, Decided, Leaving, Asked, Sent, Reading
  <1> QED  BY <1>1, MainInStep, ReaderInStep, ServerInStep DEF Next

-----------------------------------------------------------------------------
\* In the main menu the client speaks for the account ChatService has for its
\* connection, as long as a read takes one message and no login is rejected.
THEOREM SessionsAgreeHolds ==
  ASSUME ~MayGlue, ~MayReject
  PROVE  Spec => []SessionsAgree
  <1>1. ClientInv /\ InStep /\ [Next]_vars => InStep'
    BY InStepStep
  <1>2. InStep => SessionsAgree
    BY DEF InStep, LoginsInOrder, SessionsAgree
  <1>3. Spec => []InStep
    BY <1>1, Invariance, InStepInitially, PTL DEF Spec
  <1> QED  BY <1>2, <1>3, PTL
-----------------------------------------------------------------------------
(***************************************************************************)
(* The client implements ClientProtocol, for any accounts and bounds and   *)
(* whether the server goes down or not, as long as messages are read one   *)
(* at a time and no account is online elsewhere: a rejected client may     *)
(* believe it is logged in, in anybody's name or nobody's.                 *)
(***************************************************************************)

\* No login is rejected, and where the flag says that one succeeded the main thread finds
\* an account in g_currentUser by the time it may look.
NotRejected(r) == r # NoAnswer /\ r.type = "LOGIN_MSG_ACK" => r.result # "rejected"
GrantNamesUser ==
  main # "exited" =>
    /\ NotRejected(answer) /\ NotRejected(response)
    /\ \A i \in Sent : NotRejected(fromServer[i])
    /\ reader = "setUser" => response.result = "granted"
    /\ g_isLoginSuccess => g_currentUser \in Accounts \/ reader = "setUser"

\* The server has no session when it looks at a login: the logout came before.
LEMMA NoLoginInSession ==
  ASSUME ClientInv, InStep, up, main # "exited", toServer # <<>>,
         Head(toServer).type = "LOGIN_MSG"
  PROVE  sessions = {}
  <1>1. toServer \in Seq(Request) /\ Head(toServer) = toServer[1] /\ 1 \in DOMAIN toServer
    BY DEF ClientInv, TypeOK
  <1>2. 1 \in Asked
    BY <1>1 DEF Asked, AsksForAnswer
  <1>3. \A i \in DOMAIN toServer : i \in Nat /\ ~(i < 1)
    BY <1>1
  <1>4. Leaving = {}
    BY <1>2, <1>3 DEF InStep, LogoutsInOrder, Leaving
  <1>5. main = "waitLogin"
    BY <1>1, <1>2 DEF ClientInv, HandsOver, Waiting, InStep, LogoutsInOrder
  <1>6. LoggedOut
    BY <1>2, <1>5 DEF LoggedOut, ClientInv, HandsOver
  <1> QED  BY <1>4, <1>6 DEF InStep, LogoutsInOrder

\* Every step keeps it: the server rejects no login that it has no session for.
LEMMA GrantNamesUserStep ==
  ASSUME ~MayGlue, ~MayReject, ClientInv, InStep, GrantNamesUser, [Next]_vars
  PROVE  GrantNamesUser'
  <1> SUFFICES ASSUME main' # "exited" PROVE GrantNamesUser'
    BY DEF GrantNamesUser
  <1> USE DEF mainVars, readerVars, sharedVars, serverVars, counters
  <1>0. TypeOK
    BY DEF ClientInv
  <1>1. main # "exited"
    BY DEF Next, User, Register, ResetFlag, Command, Loginout, Quit, EndProcess, Main,
           SendLogin, SemWait, Waiting, CheckFlag, LeaveMainMenu, readTaskHandler, Recv,
           RecvEnd, ReadErrno, SetUser, PushFriends, Post, Server, Handle, Reply, RunPending,
           Forward, Fall, vars
  <1>2. CASE UNCHANGED <<fromServer, answer, response, reader, g_isLoginSuccess, g_currentUser>>
    BY <1>1, <1>2 DEF GrantNamesUser, NotRejected, Sent
  <1>3. ASSUME NEW u \in Accounts, ResetFlag(u) PROVE GrantNamesUser'
    BY <1>1, <1>3 DEF ResetFlag, GrantNamesUser, NotRejected, Sent
  <1>4. CASE User \/ Main \/ UNCHANGED vars
    BY <1>1, <1>2, <1>3, <1>4
    DEF User, Register, Command, Loginout, Quit, EndProcess, Main, SendLogin, SemWait,
        CheckFlag, LeaveMainMenu, vars
  <1>5. CASE Recv
    <2>1. fromServer # <<>> /\ fromServer' = SubSeq(fromServer, 2, Len(fromServer))
      BY <1>5 DEF Recv, Read
    <2>2. NotRejected(Head(fromServer))
      BY <1>0, <1>1, <2>1, ReadingOne DEF GrantNamesUser, IsAnswer, Forwarded, NotRejected
    <2>3. \A i \in Sent' : NotRejected(fromServer'[i])
      BY <1>0, <1>1, <2>1, ReadingOne DEF GrantNamesUser
    <2>4. NotRejected(answer)' /\ NotRejected(response)'
      BY <1>1, <1>5, <2>2 DEF Recv, GrantNamesUser, NotRejected
    <2>5. reader = "recv" /\ reader' # "setUser"
      BY <1>5 DEF Recv
    <2>6. UNCHANGED <<g_isLoginSuccess, g_currentUser>>
      BY <1>5 DEF Recv
    <2> QED  BY <1>1, <2>3, <2>4, <2>5, <2>6 DEF GrantNamesUser
  <1>6. CASE ReadErrno
    <2>1. UNCHANGED <<fromServer, answer, response, g_currentUser>> /\ reader = "readErrno"
      BY <1>6 DEF ReadErrno
    <2>2. response \in Answer /\ response.type = "LOGIN_MSG_ACK"
      BY <1>0, <2>1 DEF TypeOK
    <2>3. response.result \in {"granted", "refused"}
      BY <1>1, <2>1, <2>2, AnswersAssumption DEF GrantNamesUser, NotRejected, Answer
    <2>4. \/ g_isLoginSuccess' = FALSE /\ reader' = "post"
          \/ g_isLoginSuccess' = TRUE /\ reader' = "setUser" /\ response.result = "granted"
      <3>1. Succeeds(response) = IF response.result = "granted" THEN {TRUE} ELSE {FALSE}
        BY <2>3 DEF Succeeds
      <3>2. PICK ok \in Succeeds(response) :
               g_isLoginSuccess' = ok /\ reader' = IF ok THEN "setUser" ELSE "post"
        BY <1>6 DEF ReadErrno
      <3>3. ok = (response.result = "granted") /\ ok \in BOOLEAN
        BY <3>1
      <3> QED  BY <3>2, <3>3
    <2> QED  BY <1>1, <2>1, <2>4 DEF GrantNamesUser, NotRejected, Sent
  <1>7. CASE SetUser
    <2>1. response \in Answer /\ response.type = "LOGIN_MSG_ACK" /\ reader = "setUser"
      BY <1>0, <1>7 DEF TypeOK, SetUser
    <2>2. g_currentUser' \in Accounts
      BY <1>1, <1>7, <2>1 DEF SetUser, GrantNamesUser, Answer
    <2> QED  BY <1>1, <1>7, <2>2 DEF SetUser, GrantNamesUser, NotRejected, Sent
  <1>8. CASE PushFriends \/ Post
    BY <1>1, <1>8 DEF PushFriends, Post, GrantNamesUser, NotRejected, Sent
  <1>9. CASE RecvEnd
    BY <1>9 DEF RecvEnd, EndProcess
  <1>10. CASE Handle
    <2>1. UNCHANGED <<fromServer, response, reader, g_isLoginSuccess, g_currentUser>>
      BY <1>10 DEF Handle
    <2>2. NotRejected(answer')
      <3>1. CASE Head(toServer).type # "LOGIN_MSG"
        BY <1>1, <1>10, <3>1 DEF Handle, NotRejected, GrantNamesUser
      <3>2. CASE Head(toServer).type = "LOGIN_MSG"
        <4>1. sessions = {} /\ Head(toServer).user \in Accounts
          <5>1. toServer \in Seq(Request) /\ toServer # <<>> /\ Head(toServer) \in Request
            BY <1>0, <1>10 DEF TypeOK, Handle
          <5>2. sessions = {}
            BY <1>1, <1>10, <3>2, NoLoginInSession DEF Handle
          <5> QED  BY <3>2, <5>1, <5>2 DEF Request
        <4>2. \A result \in LoginResults(Head(toServer).user) : result # "rejected"
          BY <4>1, ConstantsAssumption DEF LoginResults
        <4> QED  BY <1>10, <3>2, <4>2 DEF Handle, Ack, NotRejected
      <3> QED  BY <3>1, <3>2
    <2> QED  BY <1>1, <2>1, <2>2 DEF GrantNamesUser, NotRejected, Sent
  <1>11. ASSUME NEW r \in Answer \cup {Forwarded}, fromServer' = Append(fromServer, r),
                IsAnswer(r) => NotRejected(r)
         PROVE  \A i \in Sent' : NotRejected(fromServer'[i])
    <2>1. fromServer \in Seq(Answer \cup {Forwarded}) /\ \A i \in Sent : i \in DOMAIN fromServer
      BY <1>0 DEF TypeOK, Sent
    <2> QED  BY <1>0, <1>1, <1>11, <2>1, SentBySending, Sending DEF GrantNamesUser
  <1>12. CASE Reply
    <2>1. answer \in Answer /\ NotRejected(answer)
      BY <1>0, <1>1, <1>12 DEF TypeOK, Reply, GrantNamesUser
    <2>2. \A i \in Sent' : NotRejected(fromServer'[i])
      BY <1>11, <1>12, <2>1 DEF Reply
    <2> QED  BY <1>1, <1>12, <2>2 DEF Reply, GrantNamesUser, NotRejected
  <1>13. CASE Forward
    <2>1. CASE UNCHANGED fromServer
      BY <1>2, <1>13, <2>1 DEF Forward
    <2>2. CASE fromServer' = Append(fromServer, Forwarded)
      <3>1. \A i \in Sent' : NotRejected(fromServer'[i])
        BY <1>11, <2>2 DEF IsAnswer
      <3> QED  BY <1>1, <1>13, <3>1 DEF Forward, GrantNamesUser, NotRejected
    <2> QED  BY <1>13, <2>1, <2>2 DEF Forward
  <1>15. CASE RunPending
    <2>1. \A i \in Sent' : NotRejected(fromServer'[i])
      BY <1>0, <1>1, <1>15, PendingKeepsAnswers DEF RunPending, GrantNamesUser
    <2> QED  BY <1>1, <1>15, <2>1 DEF RunPending, GrantNamesUser, NotRejected
  <1>14. CASE Fall
    BY <1>1, <1>14 DEF Fall, GrantNamesUser, NotRejected, Sent
  <1> QED  BY <1>4, <1>5, <1>6, <1>7, <1>8, <1>9, <1>10, <1>12, <1>13, <1>14, <1>15
           DEF Next, readTaskHandler, Server

\* What is sent is claimed last ...
LEMMA SentIsClaimed ==
  ASSUME TypeOK, NEW r \in Request, toServer' = Append(toServer, r)
  PROVE  Claims' = Append(Claims, Claim(r))
  <1>1. toServer \in Seq(Request)
    BY DEF TypeOK
  <1>2. /\ DOMAIN toServer' = 1 .. Len(toServer) + 1
        /\ \A i \in 1 .. Len(toServer) : toServer'[i] = toServer[i]
        /\ toServer'[Len(toServer) + 1] = r
    BY <1>1
  <1>3. Claims \in Seq({Claim(toServer[i]) : i \in DOMAIN toServer}) /\ Len(Claims) = Len(toServer)
    BY <1>1 DEF Claims
  <1> QED  BY <1>1, <1>2, <1>3 DEF Claims

\* ... when it is sent ...
LEMMA SendIsClaimed ==
  ASSUME TypeOK, NEW r \in Request, NEW ok \in BOOLEAN, Send(r, ok)
  PROVE  Claims' = IF ok THEN Append(Claims, Claim(r)) ELSE Claims
  <1>1. CASE ok
    BY <1>1, SentIsClaimed DEF Send
  <1>2. CASE ~ok
    BY <1>2 DEF Send, Claims
  <1> QED  BY <1>1, <1>2

\* ... and what is taken was claimed first.
LEMMA TakenWasClaimed ==
  ASSUME TypeOK, toServer # <<>>, toServer' = SubSeq(toServer, 2, Len(toServer))
  PROVE  ProtocolOf!TakeSome
  <1>1. toServer \in Seq(Request)
    BY DEF TypeOK
  <1>2. /\ DOMAIN toServer' = 1 .. Len(toServer) - 1
        /\ \A i \in 1 .. Len(toServer) - 1 : toServer'[i] = toServer[i + 1]
    BY <1>1
  <1>3. Claims \in Seq({Claim(toServer[i]) : i \in DOMAIN toServer}) /\ Len(Claims) = Len(toServer)
    BY <1>1 DEF Claims
  <1>4. 1 \in 1 .. Len(Claims) /\ Claims' = SubSeq(Claims, 2, Len(Claims))
    BY <1>1, <1>2, <1>3 DEF Claims
  <1> QED  BY <1>4 DEF ProtocolOf!TakeSome

Stays == UNCHANGED <<Status, Granted, Claims>>

\* A step of the reader, or of the server where it takes no request.
LEMMA OthersStay ==
  ASSUME TypeOK, UNCHANGED <<main, isMainMenuRunning, toServer>>,
         g_currentUser' = g_currentUser \/ main # "mainMenu"
  PROVE  Stays
  <1>1. Status' = Status /\ Claims' = Claims
    BY DEF Status, Claims
  <1>2. Status = "chatting" => main = "mainMenu"
    BY DEF Status, TypeOK
  <1> QED  BY <1>1, <1>2 DEF Stays, Granted

\* Every step of the client and its server is a step of the protocol, or none of it.
LEMMA ProtocolStep ==
  ASSUME ~MayGlue, ClientInv, GrantNamesUser, [Next]_vars
  PROVE  ProtocolOf!Next \/ Stays
  <1> USE DEF mainVars, readerVars, sharedVars, serverVars, counters, ProtocolOf!Next
  <1>0. TypeOK
    BY DEF ClientInv
  <1>1. CASE Register
    <2>1. \/ Claims' = Append(Claims, <<"register", NoUser>>)
          \/ Claims' = Claims
      <3> DEFINE r == [type |-> "REG_MSG"]
      <3>1. r \in Request
        BY DEF Request
      <3>2. Claim(r) = <<"register", NoUser>>
        BY DEF Claim
      <3>3. PICK ok \in BOOLEAN : Send(r, ok)
        BY <1>1 DEF Register
      <3> QED  BY <1>0, <3>1, <3>2, <3>3, SendIsClaimed
    <2>2. Status = "menu" /\ Status' = "registering" /\ Granted' = Granted
      BY <1>1 DEF Register, Status, Granted
    <2> QED  BY <2>1, <2>2 DEF ProtocolOf!Register
  <1>2. ASSUME NEW u \in Accounts, ResetFlag(u) PROVE Stays
    BY <1>2 DEF ResetFlag, Stays, Status, Granted, Claims
  <1>3. CASE SendLogin
    <2>1. id \in Accounts
      BY <1>0, <1>3 DEF TypeOK, SendLogin
    <2>2. \/ Claims' = Append(Claims, <<"login", id>>)
          \/ Claims' = Claims
      <3> DEFINE r == [type |-> "LOGIN_MSG", user |-> id]
      <3>1. r \in Request
        BY <2>1 DEF Request
      <3>2. Claim(r) = <<"login", id>>
        BY DEF Claim
      <3>3. PICK ok \in BOOLEAN : Send(r, ok)
        BY <1>3 DEF SendLogin
      <3> QED  BY <1>0, <3>1, <3>2, <3>3, SendIsClaimed
    <2>3. Status = "menu" /\ Status' = "waiting" /\ Granted' = Granted
      BY <1>3 DEF SendLogin, Status, Granted
    <2> QED  BY <2>1, <2>2, <2>3 DEF ProtocolOf!AskLogin
  <1>4. CASE SemWait
    <2>1. Granted' = Granted /\ Claims' = Claims
      BY <1>4 DEF SemWait, Waiting, Status, Granted, Claims
    <2>2. CASE main = "waitReg"
      BY <1>4, <2>1, <2>2 DEF SemWait, Status, ProtocolOf!Registered
    <2>3. CASE main = "waitLogin"
      BY <1>4, <2>1, <2>3 DEF SemWait, Status, Stays
    <2> QED  BY <1>4, <2>2, <2>3 DEF SemWait, Waiting
  <1>5. CASE CheckFlag
    <2>1. Status = "waiting" /\ Granted = NoUser /\ Claims' = Claims
      BY <1>5 DEF CheckFlag, Status, Granted, Claims
    <2>2. CASE g_isLoginSuccess
      <3>1. g_currentUser \in Accounts
        BY <1>5, <2>2
        DEF CheckFlag, GrantNamesUser, ClientInv, HandsOver, Reading, Waiting
      <3>2. Status' = "chatting" /\ Granted' = g_currentUser
        BY <1>5, <2>2 DEF CheckFlag, Status, Granted
      <3> QED  BY <2>1, <3>1, <3>2 DEF ProtocolOf!Granted
    <2>3. CASE ~g_isLoginSuccess
      <3>1. Status' = "menu" /\ Granted' = NoUser
        BY <1>5, <2>3 DEF CheckFlag, Status, Granted
      <3> QED  BY <2>1, <3>1 DEF ProtocolOf!Denied
    <2> QED  BY <2>2, <2>3
  <1>6. CASE Command
    <2>1. \/ Claims' = Append(Claims, <<"command", g_currentUser>>)
          \/ Claims' = Claims
      <3> DEFINE r == [type |-> "COMMAND", user |-> g_currentUser]
      <3>1. r \in Request
        BY <1>0 DEF Request, TypeOK
      <3>2. Claim(r) = <<"command", g_currentUser>>
        BY DEF Claim
      <3>3. PICK ok \in BOOLEAN : Send(r, ok)
        BY <1>6 DEF Command
      <3> QED  BY <1>0, <3>1, <3>2, <3>3, SendIsClaimed
    <2>2. Status = "chatting" /\ Status' = Status /\ Granted = g_currentUser /\ Granted' = Granted
      BY <1>6 DEF Command, Status, Granted
    <2> QED  BY <2>1, <2>2 DEF ProtocolOf!Say, Stays
  <1>7. CASE Loginout
    <2>1. Status = "chatting" /\ Granted = g_currentUser
      BY <1>7 DEF Loginout, Status, Granted
    <2>2. PICK ok \in BOOLEAN :
             /\ Send([type |-> "LOGINOUT_MSG", user |-> g_currentUser], ok)
             /\ isMainMenuRunning' = ~ok
      BY <1>7 DEF Loginout
    <2>3. CASE ok
      <3>1. [type |-> "LOGINOUT_MSG", user |-> g_currentUser] \in Request
        BY <1>0 DEF Request, TypeOK
      <3>2. Claims' = Append(Claims, <<"logout", g_currentUser>>)
        BY <1>0, <2>2, <2>3, <3>1, SendIsClaimed DEF Claim
      <3>3. Status' = "menu" /\ Granted' = NoUser
        BY <1>7, <2>2, <2>3 DEF Loginout, Status, Granted
      <3> QED  BY <2>1, <3>2, <3>3 DEF ProtocolOf!Leave
    <2>4. CASE ~ok
      BY <1>7, <2>2, <2>4 DEF Loginout, Send, Stays, Status, Granted, Claims
    <2> QED  BY <2>3, <2>4
  <1>8. CASE LeaveMainMenu
    BY <1>8 DEF LeaveMainMenu, Stays, Status, Granted, Claims
  <1>9. CASE EndProcess
    <2>1. Status' = "gone" /\ Granted' = NoUser /\ Claims' = Claims
      BY <1>9 DEF EndProcess, Status, Granted, Claims
    <2> QED  BY <2>1 DEF ProtocolOf!Quit
  <1>10. CASE Recv \/ ReadErrno \/ SetUser \/ PushFriends \/ Post
    <2>1. UNCHANGED <<main, isMainMenuRunning, toServer>>
      BY <1>10 DEF Recv, ReadErrno, SetUser, PushFriends, Post
    <2>2. g_currentUser' = g_currentUser \/ SetUser
      BY <1>10 DEF Recv, ReadErrno, PushFriends, Post
    <2>3. SetUser => main # "mainMenu"
      BY DEF SetUser, ClientInv, HandsOver, Reading, Waiting
    <2> QED  BY <1>0, <2>1, <2>2, <2>3, OthersStay
  <1>11. CASE Handle
    <2>1. toServer # <<>> /\ toServer' = SubSeq(toServer, 2, Len(toServer))
      BY <1>11 DEF Handle, Read
    <2>2. ProtocolOf!TakeSome
      BY <1>0, <2>1, TakenWasClaimed
    <2>3. Status' = Status /\ Granted' = Granted
      BY <1>11 DEF Handle, Status, Granted
    <2> QED  BY <2>2, <2>3 DEF ProtocolOf!Taken
  <1>12. CASE Reply \/ RunPending \/ Forward
    BY <1>0, <1>12, OthersStay DEF Reply, RunPending, Forward
  <1>13. CASE Fall
    <2>1. Claims' = <<>>
      BY <1>13 DEF Fall, Claims
    <2>2. Status' = Status /\ Granted' = Granted
      BY <1>13 DEF Fall, Status, Granted
    <2> QED  BY <2>1, <2>2 DEF ProtocolOf!Dropped
  <1>14. CASE UNCHANGED vars
    BY <1>0, <1>14, OthersStay DEF vars
  <1> QED
    BY <1>1, <1>2, <1>3, <1>4, <1>5, <1>6, <1>7, <1>8, <1>9, <1>10, <1>11, <1>12, <1>13, <1>14
    DEF Next, User, Main, readTaskHandler, Server, Quit, RecvEnd

\* The two threads with their flags and the semaphore are a client as ChatService takes
\* it to be: one registration or login at a time, then commands in the name of the account
\* that was granted, up to its logout.
THEOREM ProtocolImplemented ==
  ASSUME ~MayGlue, ~MayReject
  PROVE  Spec => ImplementsProtocol
  <1>1. Init => InStep /\ GrantNamesUser
    <2>1. Init => Sent = {}
      BY DEF Init, Sent
    <2> QED  BY <2>1, InStepInitially DEF Init, GrantNamesUser, NotRejected
  <1>2. ClientInv /\ InStep /\ [Next]_vars => InStep'
    BY InStepStep
  <1>3. ClientInv /\ InStep /\ GrantNamesUser /\ [Next]_vars => GrantNamesUser'
    BY GrantNamesUserStep
  <1>4. Init => ProtocolOf!Init
    BY DEF Init, ProtocolOf!Init, Status, Granted, Claims
  <1>5. ClientInv /\ GrantNamesUser /\ [Next]_vars => [ProtocolOf!Next]_(ProtocolOf!vars)
    BY ProtocolStep DEF Stays, ProtocolOf!vars
  <1>6. Spec => []ClientInv
    BY Invariance
  <1> QED  BY <1>1, <1>2, <1>3, <1>4, <1>5, <1>6, PTL DEF Spec, ImplementsProtocol, ProtocolOf!Spec
=============================================================================
