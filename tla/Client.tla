------------------------------- MODULE Client -------------------------------
(***************************************************************************)
(* The chat client, src/src/client/main.cpp: the main thread reads the     *)
(* user's choices and sends requests, readTaskHandler receives; rwsem lets *)
(* the main thread wait for the answer to a registration or a login.  The  *)
(* two threads share g_isLoginSuccess, g_currentUser and the friend list.  *)
(*                                                                         *)
(* The other end of the connection is ChatServer and ChatService with one  *)
(* client: a login is granted, refused (wrong password, no such user) or   *)
(* rejected (online already), a registration is answered, messages of      *)
(* others are forwarded at any time.  Neither end delimits its messages:   *)
(* a read may return several, and the JSON parser sees the first only.     *)
(***************************************************************************)
EXTENDS Naturals, Sequences

CONSTANTS
  Accounts,       \* the accounts the user logs in with
  NoUser,         \* User(): id -1
  NoAnswer,
  MayGlue,        \* whether a read may return more than one message
  MayReject,      \* whether an account may be online at another client
  MayFall,        \* whether the server may go down
  MaxLogins,      \* bound: logins asked for
  MaxCommands,    \* bound: registrations and chat commands
  MaxForwards,    \* bound: messages of others
  MaxSendFaults   \* bound: calls of send that return -1

ASSUME ConstantsAssumption ==
  /\ NoUser \notin Accounts
  /\ {MayGlue, MayReject, MayFall} \subseteq BOOLEAN
  /\ {MaxLogins, MaxCommands, MaxForwards, MaxSendFaults} \subseteq Nat

VARIABLES
  \* the main thread
  main,               \* where it stands
  id,                 \* the account typed in
  isMainMenuRunning,
  \* readTaskHandler
  reader,             \* where it stands
  response,           \* the answer it works on
  \* shared by the two
  g_isLoginSuccess, g_currentUser,
  g_friends,          \* g_currentUserFriendList: whose friends were pushed back
  rwsem,
  \* the connection and the server behind it
  up,                 \* the server is there
  toServer, fromServer,
  answer,             \* the answer the handler has yet to send
  sessions,           \* the accounts m_userConnMap has this connection for
  posted,             \* messages other loops have posted to the connection's loop
  called,             \* the connection was called back in this turn of its loop
  \* counters for the bounds
  logins, commands, forwards, sendFaults

mainVars == <<main, id, isMainMenuRunning>>
readerVars == <<reader, response>>
sharedVars == <<g_isLoginSuccess, g_currentUser, g_friends, rwsem>>
serverVars == <<answer, sessions, posted, called>>
counters == <<logins, commands, forwards, sendFaults>>
vars == <<mainVars, readerVars, sharedVars, up, toServer, fromServer, serverVars, counters>>

Request ==
       [type : {"REG_MSG"}]
  \cup [type : {"LOGIN_MSG"}, user : Accounts]
  \* COMMAND: chat, addfriend, creategroup, addgroup and groupchat
  \cup [type : {"LOGINOUT_MSG", "COMMAND"}, user : Accounts \cup {NoUser}]

Answer ==
       [type : {"REG_MSG_ACK"}]
  \cup [type : {"LOGIN_MSG_ACK"}, result : {"granted", "refused", "rejected"},
        user : Accounts]

ASSUME AnswersAssumption == NoAnswer \notin Answer

Forwarded == [type |-> "ONE_CHAT_MSG"]

Init ==
  /\ main = "menu"
  /\ id = NoUser
  /\ isMainMenuRunning = FALSE
  /\ reader = "recv"
  /\ response = NoAnswer
  /\ g_isLoginSuccess = FALSE
  /\ g_currentUser = NoUser
  /\ g_friends = <<>>
  /\ rwsem = 0
  /\ up = TRUE
  /\ toServer = <<>>
  /\ fromServer = <<>>
  /\ answer = NoAnswer
  /\ sessions = {}
  /\ posted = 0
  /\ called = FALSE
  /\ logins = 0 /\ commands = 0 /\ forwards = 0 /\ sendFaults = 0

-----------------------------------------------------------------------------
(***************************************************************************)
(* The main thread.                                                        *)
(***************************************************************************)

\* send(): the request is on its way, or -1 and a line on the terminal.
Send(r, ok) ==
  \/ ok /\ toServer' = Append(toServer, r) /\ UNCHANGED sendFaults
  \/ ~ok /\ sendFaults < MaxSendFaults /\ sendFaults' = sendFaults + 1 /\ UNCHANGED toServer

\* Choice 1: register, then wait, also when nothing was sent.
Register ==
  /\ main = "menu"
  /\ commands < MaxCommands
  /\ commands' = commands + 1
  /\ \E ok \in BOOLEAN : Send([type |-> "REG_MSG"], ok)
  /\ main' = "waitReg"
  /\ UNCHANGED <<id, isMainMenuRunning, readerVars, sharedVars, up, fromServer, serverVars,
                 logins, forwards>>

\* Choice 2: the flag is reset ...
ResetFlag(u) ==
  /\ main = "menu"
  /\ logins < MaxLogins
  /\ logins' = logins + 1
  /\ id' = u
  /\ g_isLoginSuccess' = FALSE
  /\ main' = "sendLogin"
  /\ UNCHANGED <<isMainMenuRunning, readerVars, g_currentUser, g_friends, rwsem, up,
                 toServer, fromServer, serverVars, commands, forwards, sendFaults>>

\* ... before the request is sent.
SendLogin ==
  /\ main = "sendLogin"
  /\ \E ok \in BOOLEAN : Send([type |-> "LOGIN_MSG", user |-> id], ok)
  /\ main' = "waitLogin"
  /\ UNCHANGED <<id, isMainMenuRunning, readerVars, sharedVars, up, fromServer, serverVars,
                 logins, commands, forwards>>

Waiting == main \in {"waitReg", "waitLogin"}

\* The semaphore is taken without looking whether it is there to take.
SemWaitBlindly ==
  /\ Waiting
  /\ rwsem' = rwsem - 1
  /\ main' = IF main = "waitLogin" THEN "checkFlag" ELSE "menu"
  /\ UNCHANGED <<id, isMainMenuRunning, readerVars, g_isLoginSuccess, g_currentUser,
                 g_friends, up, toServer, fromServer, serverVars, counters>>

\* sem_wait(&rwsem)
SemWait ==
  /\ Waiting
  /\ rwsem > 0
  /\ rwsem' = rwsem - 1
  /\ main' = IF main = "waitLogin" THEN "checkFlag" ELSE "menu"
  /\ UNCHANGED <<id, isMainMenuRunning, readerVars, g_isLoginSuccess, g_currentUser,
                 g_friends, up, toServer, fromServer, serverVars, counters>>

CheckFlag ==
  /\ main = "checkFlag"
  /\ \/ g_isLoginSuccess /\ main' = "mainMenu" /\ isMainMenuRunning' = TRUE
     \/ ~g_isLoginSuccess /\ main' = "menu" /\ UNCHANGED isMainMenuRunning
  /\ UNCHANGED <<id, readerVars, sharedVars, up, toServer, fromServer, serverVars, counters>>

\* The commands that send a request in the name of g_currentUser.
Command ==
  /\ main = "mainMenu"
  /\ isMainMenuRunning
  /\ commands < MaxCommands
  /\ commands' = commands + 1
  /\ \E ok \in BOOLEAN : Send([type |-> "COMMAND", user |-> g_currentUser], ok)
  /\ UNCHANGED <<mainVars, readerVars, sharedVars, up, fromServer, serverVars, logins,
                 forwards>>

\* The menu is left before anything is sent.
LoginoutUnsent ==
  /\ main = "mainMenu"
  /\ isMainMenuRunning
  /\ isMainMenuRunning' = FALSE
  /\ UNCHANGED <<main, id, readerVars, sharedVars, up, toServer, fromServer, serverVars,
                 counters>>

\* The main menu goes on after the logout.
LoginoutStays ==
  /\ main = "mainMenu"
  /\ isMainMenuRunning
  /\ \E ok \in BOOLEAN : Send([type |-> "LOGINOUT_MSG", user |-> g_currentUser], ok)
  /\ UNCHANGED <<mainVars, readerVars, sharedVars, up, fromServer, serverVars, logins,
                 commands, forwards>>

\* Command loginout: the main menu ends when the request could be sent.
Loginout ==
  /\ main = "mainMenu"
  /\ isMainMenuRunning
  /\ \E ok \in BOOLEAN :
       /\ Send([type |-> "LOGINOUT_MSG", user |-> g_currentUser], ok)
       /\ isMainMenuRunning' = ~ok
  /\ UNCHANGED <<main, id, readerVars, sharedVars, up, fromServer, serverVars, logins,
                 commands, forwards>>

LeaveMainMenu ==
  /\ main = "mainMenu"
  /\ ~isMainMenuRunning
  /\ main' = "menu"
  /\ UNCHANGED <<id, isMainMenuRunning, readerVars, sharedVars, up, toServer, fromServer,
                 serverVars, counters>>

\* exit() in one thread ends both.
EndProcess ==
  /\ main' = "exited"
  /\ reader' = "exited"
  /\ UNCHANGED <<id, isMainMenuRunning, response, sharedVars, up, toServer, fromServer,
                 serverVars, counters>>

\* Choice 3
Quit == main = "menu" /\ EndProcess

-----------------------------------------------------------------------------
(***************************************************************************)
(* readTaskHandler.                                                        *)
(***************************************************************************)

\* How many messages one read takes from a stream.
Read(stream) == IF MayGlue THEN 1 .. Len(stream) ELSE {1}

\* Every message is handed on to the semaphore.
RecvPostsAll ==
  /\ reader = "recv"
  /\ fromServer # <<>>
  /\ \E n \in Read(fromServer) : fromServer' = SubSeq(fromServer, n + 1, Len(fromServer))
  /\ LET r == Head(fromServer) IN
     \/ /\ r.type = "LOGIN_MSG_ACK"
        /\ reader' = "readErrno"
        /\ response' = r
     \/ /\ r.type # "LOGIN_MSG_ACK"
        /\ reader' = "post"
        /\ UNCHANGED response
  /\ UNCHANGED <<mainVars, sharedVars, up, toServer, serverVars, counters>>

\* recv and the dispatch on msgid; what follows the first message in the
\* buffer is lost.
Recv ==
  /\ reader = "recv"
  /\ fromServer # <<>>
  /\ \E n \in Read(fromServer) : fromServer' = SubSeq(fromServer, n + 1, Len(fromServer))
  /\ LET r == Head(fromServer) IN
     \/ /\ r.type = "LOGIN_MSG_ACK"
        /\ reader' = "readErrno"
        /\ response' = r
     \/ /\ r.type = "REG_MSG_ACK"
        /\ reader' = "post"
        /\ UNCHANGED response
     \/ /\ r = Forwarded
        /\ UNCHANGED readerVars
  /\ UNCHANGED <<mainVars, sharedVars, up, toServer, serverVars, counters>>

\* recv returns 0 or -1
RecvEnd ==
  /\ reader = "recv"
  /\ fromServer = <<>>
  /\ ~up
  /\ EndProcess

\* What errnumber holds after Get("errno"): the rejection carries "error"
\* instead, and the variable is not initialised.
Succeeds(r) ==
  CASE r.result = "granted" -> {TRUE}
    [] r.result = "refused" -> {FALSE}
    [] r.result = "rejected" -> BOOLEAN

\* A failed login is not passed on to the main thread.
ReadErrnoNoPost ==
  /\ reader = "readErrno"
  /\ \E ok \in Succeeds(response) :
       /\ g_isLoginSuccess' = ok
       /\ reader' = IF ok THEN "setUser" ELSE "recv"
  /\ UNCHANGED <<mainVars, response, g_currentUser, g_friends, rwsem, up, toServer, fromServer,
                 serverVars, counters>>

\* doLoginResponse: g_isLoginSuccess first ...
ReadErrno ==
  /\ reader = "readErrno"
  /\ \E ok \in Succeeds(response) :
       /\ g_isLoginSuccess' = ok
       /\ reader' = IF ok THEN "setUser" ELSE "post"
  /\ UNCHANGED <<mainVars, response, g_currentUser, g_friends, rwsem, up, toServer, fromServer,
                 serverVars, counters>>

\* ... then g_currentUser: a rejection names no id, and the variable it would
\* be read into is not initialised either ...
SetUser ==
  /\ reader = "setUser"
  /\ \E u \in IF response.result = "granted" THEN {response.user} ELSE Accounts \cup {NoUser} :
       g_currentUser' = u
  /\ reader' = "pushFriends"
  /\ UNCHANGED <<mainVars, response, g_isLoginSuccess, g_friends, rwsem, up, toServer,
                 fromServer, serverVars, counters>>

\* ... then the friends (the groups likewise), behind those already there.
PushFriends ==
  /\ reader = "pushFriends"
  /\ g_friends' = IF response.result = "granted"
                  THEN Append(g_friends, response.user) ELSE g_friends
  /\ reader' = "post"
  /\ UNCHANGED <<mainVars, response, g_isLoginSuccess, g_currentUser, rwsem, up, toServer,
                 fromServer, serverVars, counters>>

\* sem_post(&rwsem)
Post ==
  /\ reader = "post"
  /\ rwsem' = rwsem + 1
  /\ reader' = "recv"
  /\ response' = NoAnswer
  /\ UNCHANGED <<mainVars, g_isLoginSuccess, g_currentUser, g_friends, up, toServer,
                 fromServer, serverVars, counters>>

-----------------------------------------------------------------------------
(***************************************************************************)
(* The server: in a turn of its loop, onMessage takes what has arrived,    *)
(* parses the first request and runs its handler; at the end the sends     *)
(* other loops have posted are written.                                    *)
(***************************************************************************)

Ack(result, u) == [type |-> "LOGIN_MSG_ACK", result |-> result, user |-> u]

\* What login answers: rejected when the account is online, here or elsewhere.
LoginResults(u) ==
  IF u \in sessions THEN {"refused", "rejected"}
  ELSE {"granted", "refused"} \cup IF MayReject THEN {"rejected"} ELSE {}

\* m_userConnMap after the answer: a rejected login emplaces as well, and
\* emplace does nothing when the account has an entry already, another client's.
Recorded(result, u) ==
  IF result = "refused" THEN {sessions}
  ELSE {sessions \cup {u}} \cup IF MayReject THEN {sessions} ELSE {}

Handle ==
  /\ up
  /\ answer = NoAnswer
  /\ ~called
  /\ called' = TRUE
  /\ toServer # <<>>
  /\ \E n \in Read(toServer) : toServer' = SubSeq(toServer, n + 1, Len(toServer))
  /\ LET r == Head(toServer) IN
     \/ /\ r.type = "LOGIN_MSG"
        /\ \E result \in LoginResults(r.user) :
             /\ answer' = Ack(result, r.user)
             /\ sessions' \in Recorded(result, r.user)
     \/ /\ r.type = "REG_MSG"
        /\ answer' = [type |-> "REG_MSG_ACK"]
        /\ UNCHANGED sessions
     \/ /\ r.type = "LOGINOUT_MSG"
        /\ sessions' = sessions \ {r.user}
        /\ UNCHANGED answer
     \/ /\ r.type = "COMMAND"
        /\ UNCHANGED <<answer, sessions>>
  /\ UNCHANGED <<mainVars, readerVars, sharedVars, up, fromServer, posted, counters>>

\* conn->send at the end of login and reg
Reply ==
  /\ up
  /\ answer # NoAnswer
  /\ fromServer' = Append(fromServer, answer)
  /\ answer' = NoAnswer
  /\ UNCHANGED <<mainVars, readerVars, sharedVars, up, toServer, sessions, posted, called,
                 counters>>

\* oneChat or groupChat of somebody else finds this connection in the map: in
\* the same loop, between two callbacks of this connection, the message is
\* written at once; from another loop it is posted.
Forward ==
  /\ up
  /\ sessions # {}
  /\ forwards < MaxForwards
  /\ forwards' = forwards + 1
  /\ \/ /\ answer = NoAnswer
        /\ fromServer' = Append(fromServer, Forwarded)
        /\ UNCHANGED posted
     \/ posted' = posted + 1 /\ UNCHANGED fromServer
  /\ UNCHANGED <<mainVars, readerVars, sharedVars, up, toServer, answer, sessions, called,
                 logins, commands, sendFaults>>

\* doPendingFunctors, at the end of a turn of the loop
RunPending ==
  /\ up
  /\ answer = NoAnswer
  /\ called \/ posted > 0
  /\ fromServer' = fromServer \o [i \in 1 .. posted |-> Forwarded]
  /\ posted' = 0
  /\ called' = FALSE
  /\ UNCHANGED <<mainVars, readerVars, sharedVars, up, toServer, answer, sessions, counters>>

\* The server process ends.
Fall ==
  /\ MayFall
  /\ up
  /\ up' = FALSE
  /\ toServer' = <<>>
  /\ answer' = NoAnswer
  /\ sessions' = {}
  /\ posted' = 0
  /\ called' = FALSE
  /\ UNCHANGED <<mainVars, readerVars, sharedVars, fromServer, counters>>

-----------------------------------------------------------------------------
User == Register \/ (\E u \in Accounts : ResetFlag(u)) \/ Command \/ Loginout \/ Quit

\* The main thread between two choices of the user.
Main == SendLogin \/ SemWait \/ CheckFlag \/ LeaveMainMenu

readTaskHandler == Recv \/ RecvEnd \/ ReadErrno \/ SetUser \/ PushFriends \/ Post

Server == Handle \/ Reply \/ RunPending

Next == User \/ Main \/ readTaskHandler \/ Server \/ Forward \/ Fall

Spec == Init /\ [][Next]_vars

\* Threads that can go on do, and so does the server as long as it is up (see
\* LoginAnswered in ChatProperties); the user need not.
Fairness == WF_vars(Main) /\ WF_vars(readTaskHandler) /\ WF_vars(Server)

FairSpec == Spec /\ Fairness

-----------------------------------------------------------------------------
\* Every variable keeps its type; an account has been typed in where a login
\* is sent, and an answer is at hand where doLoginResponse works on it.
TypeOK ==
  /\ main \in {"menu", "waitReg", "sendLogin", "waitLogin", "checkFlag", "mainMenu", "exited"}
  /\ id \in Accounts \cup {NoUser}
  /\ main = "sendLogin" => id \in Accounts
  /\ isMainMenuRunning \in BOOLEAN
  /\ reader \in {"recv", "readErrno", "setUser", "pushFriends", "post", "exited"}
  /\ response \in Answer \cup {NoAnswer}
  /\ reader \in {"readErrno", "setUser", "pushFriends"} =>
       response # NoAnswer /\ response.type = "LOGIN_MSG_ACK"
  /\ g_isLoginSuccess \in BOOLEAN
  /\ g_currentUser \in Accounts \cup {NoUser}
  /\ g_friends \in Seq(Accounts)
  /\ rwsem \in Nat
  /\ up \in BOOLEAN
  /\ toServer \in Seq(Request)
  /\ fromServer \in Seq(Answer \cup {Forwarded})
  /\ answer \in Answer \cup {NoAnswer}
  /\ sessions \subseteq Accounts
  /\ posted \in Nat
  /\ called \in BOOLEAN
  /\ {logins, commands, forwards, sendFaults} \subseteq Nat
=============================================================================
