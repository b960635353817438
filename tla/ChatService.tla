----------------------------- MODULE ChatService -----------------------------
(***************************************************************************)
(* The chat server's business layer, src/src/server/chatservice.cpp, run   *)
(* by the event loops of muduo.  Every connection belongs to one event     *)
(* loop (one thread); a loop runs one callback at a time, and callbacks of *)
(* different loops interleave.  A callback is cut where another thread can *)
(* see the difference: at every SQL statement and every critical section   *)
(* of m_connMutex.  pc[c] is where the callback running for connection c   *)
(* stands, hUser, hMsgs and hTodo are its local variables.                 *)
(*                                                                         *)
(* The clients follow the protocol of src/src/client/main.cpp: one login   *)
(* request at a time, answered before anything else is sent; chat commands *)
(* and logout only while logged in; a client can go away at any time.      *)
(*                                                                         *)
(* onMessage takes all that has arrived on a connection and parses the     *)
(* first request of it: those behind are lost.  (That a request may also   *)
(* arrive in two parts is left out.)                                       *)
(***************************************************************************)
EXTENDS Naturals, FiniteSets, ChatStore

CONSTANTS
  Users,          \* registered accounts (ids of table `user`)
  Groups,         \* ids of table `allGroup`
  InitMembers,    \* rows of table `groupUser` at the start: Groups -> (Users -> Nat)
  Conns,          \* TcpConnection objects, each with the client at its end
  LoopOf,         \* the event loop a connection was assigned to
  AccountsOf,     \* the accounts the person at a client logs in with
  Quitters,       \* the clients that may close or die
  Commands,       \* the chat commands used: subset of AllCommands
  NoUser,         \* no account
  MaxMsgs,        \* bound: messages the clients write
  MaxPipe,        \* bound: requests waiting in one connection
  MaxJoins,       \* bound: rows of one user and group when the user joins
  MaxFaults,      \* bound: SQL statements that fail
  MaxCrashes,     \* bound: crashes of the server process
  MayInterrupt    \* whether the operator may press ctrl+c

AllCommands == {"chat", "groupchat", "addgroup"}

ASSUME ConstantsAssumption ==
  /\ InitMembers \in [Groups -> [Users -> Nat]]
  /\ DOMAIN LoopOf = Conns
  /\ AccountsOf \in [Conns -> SUBSET Users]
  /\ Quitters \subseteq Conns
  /\ Commands \subseteq AllCommands
  /\ NoUser \notin Users
  /\ NoConn \notin Conns
  /\ {MaxMsgs, MaxPipe, MaxJoins, MaxFaults, MaxCrashes} \subseteq Nat
  /\ MayInterrupt \in BOOLEAN

VARIABLES
  \* the database
  state,          \* column user.state
  offline,        \* table offlineMessage
  members,        \* table groupUser
  faults,         \* SQL statements that have failed
  \* ChatService
  running,        \* the server process is up
  exiting,        \* resetHandler has reset the users and not yet exited
  crashes,        \* crashes so far
  userConn,       \* m_userConnMap
  mutex,          \* owner of m_connMutex across steps: NoConn or groupChat's
  \* the callback of each connection
  pc, hUser, hMsgs, hTodo,
  \* muduo and the sockets
  conn,           \* TCP state the server knows: "none", "up", "down"
  req,            \* requests received and not yet handled
  queued,         \* sends posted to the connection's loop by other loops
  called,         \* connections called back in the present turn of their loop
  \* the clients
  client,         \* "gone", "menu", "waiting" (sem_wait), "chatting"
  account,        \* g_currentUser while chatting
  nextMsg,        \* number of the next message written
  \* history
  owed,           \* messages the server has set out to deliver, per recipient
  dropped,        \* messages handed to a connection whose client was gone
  received,       \* messages forwarded to the recipient's client, in order
  fetched,        \* stored messages that went to it in the answer to a login
  lost            \* the logins and logouts a read took behind another request

dbVars == <<state, offline, members, faults>>
svcVars == <<running, exiting, crashes, userConn, mutex>>
localVars == <<hUser, hMsgs, hTodo>>
netVars == <<conn, req, queued, called>>
clientVars == <<client, account, nextMsg>>
deliveryVars == <<owed, dropped, received, fetched>>
histVars == <<owed, dropped, received, fetched, lost>>
vars == <<dbVars, svcVars, pc, localVars, netVars, clientVars, histVars>>

-----------------------------------------------------------------------------
(***************************************************************************)
(* Requests.  A chat message is known by its kind, writer and number.      *)
(***************************************************************************)

Msg == [kind : {"chat", "groupchat"}, from : Users, n : 1 .. MaxMsgs]

Request ==
       [type : {"LOGIN_MSG"}, user : Users, pwdOk : BOOLEAN]
  \cup [type : {"LOGINOUT_MSG"}, user : Users]
  \cup [type : {"ONE_CHAT_MSG"}, to : Users, msg : Msg]
  \cup [type : {"GROUP_CHAT_MSG"}, user : Users, group : Groups, msg : Msg]
  \cup [type : {"ADD_GROUP_MSG"}, user : Users, group : Groups]

\* The requests that begin and end a session
SessionTypes == {"LOGIN_MSG", "LOGINOUT_MSG"}

PCs == {"idle",
        "emplace", "setOnline", "readOffline", "clearOffline", "reply", "reject",
        "logoutUpdate", "closeUpdate", "storeOffline", "groupLock", "groupLoop"}

\* Where the callback has a user, or a message, to go on with.
UserPCs == {"emplace", "setOnline", "readOffline", "clearOffline", "reply", "reject",
            "logoutUpdate", "closeUpdate", "storeOffline"}
MsgPCs == {"storeOffline", "groupLock", "groupLoop"}

NoQueue == [u \in Users |-> <<>>]
NoRows == [u \in Users |-> 0]

Init ==
  /\ state = [u \in Users |-> "offline"]
  /\ offline = [u \in Users |-> <<>>]
  /\ members = InitMembers
  /\ faults = 0
  /\ running = TRUE
  /\ exiting = FALSE
  /\ crashes = 0
  /\ userConn = [u \in Users |-> NoConn]
  /\ mutex = NoConn
  /\ pc = [c \in Conns |-> "idle"]
  /\ hUser = [c \in Conns |-> NoUser]
  /\ hMsgs = [c \in Conns |-> <<>>]
  /\ hTodo = [c \in Conns |-> NoRows]
  /\ conn = [c \in Conns |-> "none"]
  /\ req = [c \in Conns |-> <<>>]
  /\ queued = [c \in Conns |-> NoQueue]
  /\ called = {}
  /\ client = [c \in Conns |-> "gone"]
  /\ account = [c \in Conns |-> NoUser]
  /\ nextMsg = 1
  /\ owed = {}
  /\ dropped = {}
  /\ received = [u \in Users |-> <<>>]
  /\ fetched = [u \in Users |-> <<>>]
  /\ lost = {}

-----------------------------------------------------------------------------
(***************************************************************************)
(* The clients.                                                            *)
(***************************************************************************)

\* A client process starts and connects.  The name of a TcpConnection is not
\* reused while m_userConnMap still holds it.
Connect(c) ==
  /\ running
  /\ conn[c] = "none"
  /\ client[c] = "gone"
  /\ EntriesOf(userConn, c) = {}
  /\ conn' = [conn EXCEPT ![c] = "up"]
  /\ client' = [client EXCEPT ![c] = "menu"]
  /\ lost' = lost \ ({c} \X SessionTypes)
  /\ UNCHANGED <<dbVars, svcVars, pc, localVars, req, queued, called, account, nextMsg,
                 owed, dropped, received, fetched>>

Send(c, r) == req' = [req EXCEPT ![c] = Append(@, r)]

\* Menu entry 2: send the login request, then wait on the semaphore.
SendLogin(c, u, ok) ==
  /\ client[c] = "menu"
  /\ u \in AccountsOf[c]
  /\ Send(c, [type |-> "LOGIN_MSG", user |-> u, pwdOk |-> ok])
  /\ client' = [client EXCEPT ![c] = "waiting"]
  /\ UNCHANGED <<dbVars, svcVars, pc, localVars, conn, queued, called, account, nextMsg,
                 histVars>>

\* The client stays in the main menu.
SendLogoutStays(c) ==
  /\ client[c] = "chatting"
  /\ Send(c, [type |-> "LOGINOUT_MSG", user |-> account[c]])
  /\ UNCHANGED <<dbVars, svcVars, pc, localVars, conn, queued, called, clientVars, histVars>>

\* Command loginout: nothing is answered, the client is back at the menu.
SendLogout(c) ==
  /\ client[c] = "chatting"
  /\ Send(c, [type |-> "LOGINOUT_MSG", user |-> account[c]])
  /\ client' = [client EXCEPT ![c] = "menu"]
  /\ account' = [account EXCEPT ![c] = NoUser]
  /\ UNCHANGED <<dbVars, svcVars, pc, localVars, conn, queued, called, nextMsg,
                 histVars>>

\* Bounds of the three commands below: MaxPipe, MaxMsgs and MaxJoins.
CanCommand(c, command) ==
  /\ client[c] = "chatting"
  /\ command \in Commands
  /\ Len(req[c]) < MaxPipe

NewMsg(c, kind) == [kind |-> kind, from |-> account[c], n |-> nextMsg]

\* Command chat
SendOneChat(c, u) ==
  /\ CanCommand(c, "chat")
  /\ nextMsg <= MaxMsgs
  /\ Send(c, [type |-> "ONE_CHAT_MSG", to |-> u, msg |-> NewMsg(c, "chat")])
  /\ nextMsg' = nextMsg + 1
  /\ UNCHANGED <<dbVars, svcVars, pc, localVars, conn, queued, called, client, account,
                 histVars>>

\* Command groupchat
SendGroupChat(c, g) ==
  /\ CanCommand(c, "groupchat")
  /\ nextMsg <= MaxMsgs
  /\ Send(c, [type |-> "GROUP_CHAT_MSG", user |-> account[c], group |-> g,
              msg |-> NewMsg(c, "groupchat")])
  /\ nextMsg' = nextMsg + 1
  /\ UNCHANGED <<dbVars, svcVars, pc, localVars, conn, queued, called, client, account,
                 histVars>>

\* Command addgroup
SendAddGroup(c, g) ==
  /\ CanCommand(c, "addgroup")
  /\ members[g][account[c]] < MaxJoins
  /\ Send(c, [type |-> "ADD_GROUP_MSG", user |-> account[c], group |-> g])
  /\ UNCHANGED <<dbVars, svcVars, pc, localVars, conn, queued, called, clientVars, histVars>>

\* Menu entry 3, or the process is killed.  The server has yet to notice: it
\* reads the end of the stream behind the requests still under way, or a
\* reset that takes them with it.
Quit(c) ==
  /\ c \in Quitters
  /\ client[c] # "gone"
  /\ client' = [client EXCEPT ![c] = "gone"]
  /\ account' = [account EXCEPT ![c] = NoUser]
  /\ \/ UNCHANGED req
     \/ req' = [req EXCEPT ![c] = <<>>]
  /\ UNCHANGED <<dbVars, svcVars, pc, localVars, conn, queued, called, nextMsg,
                 histVars>>

-----------------------------------------------------------------------------
(***************************************************************************)
(* Parts of the callbacks.                                                 *)
(***************************************************************************)

\* The thread of c's event loop is between callbacks.
LoopFree(c) ==
  /\ running
  /\ \A d \in Conns : LoopOf[d] = LoopOf[c] => pc[d] = "idle"

\* handleEvent: in one turn, a loop calls a ready connection back once.
Ready(c) == LoopFree(c) /\ conn[c] = "up" /\ c \notin called

\* onMessage: the request at the head is handed to the handler of its type.
Handles(c, type) == Ready(c) /\ req[c] # <<>> /\ Head(req[c]).type = type

\* retrieveAllAsString: what the read took behind that request is gone.
Consume(c) ==
  \E k \in 1 .. Len(req[c]) :
    /\ req' = [req EXCEPT ![c] = SubSeq(@, k + 1, Len(@))]
    /\ lost' = lost \cup ({c} \X ({req[c][i].type : i \in 2 .. k} \cap SessionTypes))
    /\ called' = called \cup {c}

\* One SQL statement on a fresh connection: it succeeds, or mysql.connect()
\* or mysql_query() fails and the caller goes on without its effect.
DbCall(ok) ==
  \/ ok /\ UNCHANGED faults
  \/ ~ok /\ faults < MaxFaults /\ faults' = faults + 1

\* Entering the critical section: nobody holds the mutex.
MutexFree == mutex = NoConn

Goto(c, l) == pc' = [pc EXCEPT ![c] = l]

\* The callback ends and its locals with it.
Return(c) ==
  /\ Goto(c, "idle")
  /\ hUser' = [hUser EXCEPT ![c] = NoUser]
  /\ hMsgs' = [hMsgs EXCEPT ![c] = <<>>]
  /\ hTodo' = [hTodo EXCEPT ![c] = NoRows]

Pairs(u, ms) == {<<u, ms[i]>> : i \in DOMAIN ms}

\* A message written to c's socket: a client that is still there gets it.
Display(c, u, m) ==
  IF client[c] = "gone"
  THEN dropped' = dropped \cup {<<u, m>>} /\ UNCHANGED received
  ELSE received' = [received EXCEPT ![u] = Append(@, m)] /\ UNCHANGED dropped

\* it->second->send(js.ToString()) from the loop of connection c: written at
\* once when the target lives in the same loop, posted to its loop when it
\* lives in another, discarded when it is disconnected.
Forward(c, u, m) ==
  LET d == userConn[u] IN
  CASE conn[d] # "up" ->
         dropped' = dropped \cup {<<u, m>>} /\ UNCHANGED <<received, queued>>
    [] conn[d] = "up" /\ LoopOf[d] = LoopOf[c] ->
         Display(d, u, m) /\ UNCHANGED queued
    [] OTHER ->
         /\ queued' = [queued EXCEPT ![d][u] = Append(@, m)]
         /\ UNCHANGED <<received, dropped>>

-----------------------------------------------------------------------------
(***************************************************************************)
(* ChatService::login                                                      *)
(***************************************************************************)

\* The state test is left out.
LoginQueryUnchecked(c) ==
  /\ Handles(c, "LOGIN_MSG")
  /\ Head(req[c]).pwdOk
  /\ Consume(c)
  /\ hUser' = [hUser EXCEPT ![c] = Head(req[c]).user]
  /\ Goto(c, "emplace")
  /\ UNCHANGED <<dbVars, svcVars, hMsgs, hTodo, conn, queued, clientVars, deliveryVars>>

\* m_userModel.query(id) finds the account and the password agrees.
LoginQuery(c) ==
  /\ Handles(c, "LOGIN_MSG")
  /\ Head(req[c]).pwdOk
  /\ Consume(c)
  /\ hUser' = [hUser EXCEPT ![c] = Head(req[c]).user]
  /\ Goto(c, IF state[Head(req[c]).user] = "online" THEN "reject" ELSE "emplace")
  /\ UNCHANGED <<dbVars, svcVars, hMsgs, hTodo, conn, queued, clientVars, deliveryVars>>

\* The client's doLoginResponse and sem_post.
Answer(c, status, u) ==
  IF client[c] = "gone"
  THEN UNCHANGED <<client, account>>
  ELSE /\ client' = [client EXCEPT ![c] = status]
       /\ account' = [account EXCEPT ![c] = u]

\* The branch ends without conn->send.
LoginRefuseSilent(c) ==
  /\ Handles(c, "LOGIN_MSG")
  /\ \E ok \in BOOLEAN :
       /\ DbCall(ok)
       /\ ok => ~Head(req[c]).pwdOk
  /\ Consume(c)
  /\ UNCHANGED <<state, offline, members, svcVars, pc, localVars, conn, queued,
                 clientVars, deliveryVars>>

\* Wrong password, or the query failed and returned User().
LoginRefuse(c) ==
  /\ Handles(c, "LOGIN_MSG")
  /\ \E ok \in BOOLEAN :
       /\ DbCall(ok)
       /\ ok => ~Head(req[c]).pwdOk
  /\ Consume(c)
  /\ Answer(c, "menu", NoUser)
  /\ UNCHANGED <<state, offline, members, svcVars, pc, localVars, conn, queued,
                 nextMsg, deliveryVars>>

\* Already online: answer error 2, then emplace all the same.
LoginReject(c) ==
  /\ running
  /\ pc[c] = "reject"
  /\ MutexFree
  /\ userConn' = EmplaceConn(userConn, hUser[c], c)
  /\ Answer(c, "menu", NoUser)
  /\ Return(c)
  /\ UNCHANGED <<dbVars, running, exiting, crashes, mutex, netVars, nextMsg, histVars>>

\* The connection is not recorded.
LoginEmplaceForgotten(c) ==
  /\ running
  /\ pc[c] = "emplace"
  /\ MutexFree
  /\ Goto(c, "setOnline")
  /\ UNCHANGED <<dbVars, svcVars, localVars, netVars, clientVars, histVars>>

LoginEmplace(c) ==
  /\ running
  /\ pc[c] = "emplace"
  /\ MutexFree
  /\ userConn' = EmplaceConn(userConn, hUser[c], c)
  /\ Goto(c, "setOnline")
  /\ UNCHANGED <<dbVars, running, exiting, crashes, mutex, localVars, netVars,
                 clientVars, histVars>>

\* The result of updateState is not looked at.
LoginSetOnline(c) ==
  /\ running
  /\ pc[c] = "setOnline"
  /\ \E ok \in BOOLEAN :
       /\ DbCall(ok)
       /\ state' = IF ok THEN UpdateState(state, hUser[c], "online") ELSE state
  /\ Goto(c, "readOffline")
  /\ UNCHANGED <<offline, members, svcVars, localVars, netVars, clientVars, histVars>>

LoginReadOffline(c) ==
  /\ running
  /\ pc[c] = "readOffline"
  /\ \E ok \in BOOLEAN :
       /\ DbCall(ok)
       /\ \E msg \in IF ok THEN OfflineQuery(offline, hUser[c]) ELSE {<<>>} :
            /\ hMsgs' = [hMsgs EXCEPT ![c] = msg]
            /\ Goto(c, IF msg = <<>> THEN "reply" ELSE "clearOffline")
  /\ UNCHANGED <<state, offline, members, svcVars, hUser, hTodo, netVars,
                 clientVars, histVars>>

LoginClearOffline(c) ==
  /\ running
  /\ pc[c] = "clearOffline"
  /\ \E ok \in BOOLEAN :
       /\ DbCall(ok)
       /\ offline' = IF ok THEN OfflineRemove(offline, hUser[c]) ELSE offline
  /\ Goto(c, "reply")
  /\ UNCHANGED <<state, members, svcVars, localVars, netVars, clientVars, histVars>>

\* The friends and groups are read and only shown; the answer goes out with
\* the offline messages in it, as an array of strings.  The client asks each
\* item for the members of an object (main.cpp:275): nothing of the messages
\* comes out on its screen.
LoginReply(c) ==
  /\ running
  /\ pc[c] = "reply"
  /\ \/ /\ client[c] = "gone"
        /\ dropped' = dropped \cup Pairs(hUser[c], hMsgs[c])
        /\ UNCHANGED fetched
     \/ /\ client[c] # "gone"
        /\ fetched' = [fetched EXCEPT ![hUser[c]] = @ \o hMsgs[c]]
        /\ UNCHANGED dropped
  /\ Answer(c, "chatting", hUser[c])
  /\ Return(c)
  /\ UNCHANGED <<dbVars, svcVars, netVars, nextMsg, owed, received, lost>>

-----------------------------------------------------------------------------
(***************************************************************************)
(* ChatService::loginout and ChatService::clientCloseException             *)
(***************************************************************************)

\* The user that is set offline is left at its default id.
LogoutEraseNobody(c) ==
  /\ Handles(c, "LOGINOUT_MSG")
  /\ MutexFree
  /\ userConn' = EraseConn(userConn, Head(req[c]).user)
  /\ hUser' = [hUser EXCEPT ![c] = NoUser]
  /\ Consume(c)
  /\ Goto(c, "logoutUpdate")
  /\ UNCHANGED <<dbVars, running, exiting, crashes, mutex, hMsgs, hTodo, conn,
                 queued, clientVars, deliveryVars>>

LogoutErase(c) ==
  /\ Handles(c, "LOGINOUT_MSG")
  /\ MutexFree
  /\ LET u == Head(req[c]).user IN
       /\ userConn' = EraseConn(userConn, u)
       /\ hUser' = [hUser EXCEPT ![c] = u]
  /\ Consume(c)
  /\ Goto(c, "logoutUpdate")
  /\ UNCHANGED <<dbVars, running, exiting, crashes, mutex, hMsgs, hTodo, conn,
                 queued, clientVars, deliveryVars>>

\* loginout ends with the critical section.
LogoutUpdateForgotten(c) ==
  /\ running
  /\ pc[c] = "logoutUpdate"
  /\ Return(c)
  /\ UNCHANGED <<dbVars, svcVars, netVars, clientVars, histVars>>

\* updateState(offline), at the end of loginout
LogoutUpdate(c) ==
  /\ running
  /\ pc[c] = "logoutUpdate"
  /\ \E ok \in BOOLEAN :
       /\ DbCall(ok)
       /\ state' = IF ok THEN UpdateState(state, hUser[c], "offline") ELSE state
  /\ Return(c)
  /\ UNCHANGED <<offline, members, svcVars, netVars, clientVars, histVars>>

\* The server reads the end of the stream: what is still posted to the
\* connection is discarded, and one entry of the map that points to it, the
\* first the scan meets, is erased.
CloseErase(c) ==
  /\ Ready(c)
  /\ MutexFree
  /\ client[c] = "gone"
  /\ req[c] = <<>>
  /\ LET mine == EntriesOf(userConn, c) IN
     IF mine = {}
     THEN /\ conn' = [conn EXCEPT ![c] = "none"]
          /\ UNCHANGED <<userConn, pc, hUser>>
     ELSE \E u \in mine :
            /\ conn' = [conn EXCEPT ![c] = "down"]
            /\ userConn' = EraseConn(userConn, u)
            /\ Goto(c, "closeUpdate")
            /\ hUser' = [hUser EXCEPT ![c] = u]
  /\ queued' = [queued EXCEPT ![c] = NoQueue]
  /\ dropped' = dropped \cup UNION {Pairs(u, queued[c][u]) : u \in Users}
  /\ UNCHANGED <<dbVars, running, exiting, crashes, mutex, hMsgs, hTodo, req, called,
                 clientVars, owed, received, fetched, lost>>

\* The database is not told.
CloseUpdateForgotten(c) ==
  /\ running
  /\ pc[c] = "closeUpdate"
  /\ conn' = [conn EXCEPT ![c] = "none"]
  /\ Return(c)
  /\ UNCHANGED <<dbVars, svcVars, req, queued, called, clientVars, histVars>>

CloseUpdate(c) ==
  /\ running
  /\ pc[c] = "closeUpdate"
  /\ \E ok \in BOOLEAN :
       /\ DbCall(ok)
       /\ state' = IF ok THEN UpdateState(state, hUser[c], "offline") ELSE state
  /\ conn' = [conn EXCEPT ![c] = "none"]
  /\ Return(c)
  /\ UNCHANGED <<offline, members, svcVars, req, queued, called, clientVars, histVars>>

-----------------------------------------------------------------------------
(***************************************************************************)
(* ChatService::oneChat                                                    *)
(***************************************************************************)

\* The message is stored even after it was forwarded.
OneChatNoReturn(c) ==
  /\ Handles(c, "ONE_CHAT_MSG")
  /\ MutexFree
  /\ LET to == Head(req[c]).to
         m  == Head(req[c]).msg
     IN  /\ owed' = owed \cup {<<to, m>>}
         /\ IF userConn[to] # NoConn
            THEN Forward(c, to, m)
            ELSE UNCHANGED <<queued, received, dropped>>
         /\ Goto(c, "storeOffline")
         /\ hUser' = [hUser EXCEPT ![c] = to]
         /\ hMsgs' = [hMsgs EXCEPT ![c] = <<m>>]
  /\ Consume(c)
  /\ UNCHANGED <<dbVars, svcVars, hTodo, conn, clientVars, fetched>>

\* The sender's thread writes to the recipient's socket, whose loop may have
\* sends of its own to write first.
OneChatAtOnce(c) ==
  /\ Handles(c, "ONE_CHAT_MSG")
  /\ MutexFree
  /\ LET to == Head(req[c]).to
         m  == Head(req[c]).msg
     IN  /\ owed' = owed \cup {<<to, m>>}
         /\ \/ /\ userConn[to] # NoConn
               /\ Display(userConn[to], to, m)
               /\ UNCHANGED <<pc, hUser, hMsgs>>
            \/ /\ userConn[to] = NoConn
               /\ Goto(c, "storeOffline")
               /\ hUser' = [hUser EXCEPT ![c] = to]
               /\ hMsgs' = [hMsgs EXCEPT ![c] = <<m>>]
               /\ UNCHANGED <<received, dropped>>
  /\ Consume(c)
  /\ UNCHANGED <<dbVars, svcVars, hTodo, conn, queued, clientVars, fetched>>

\* Under the mutex: forward when the recipient has a connection.
OneChat(c) ==
  /\ Handles(c, "ONE_CHAT_MSG")
  /\ MutexFree
  /\ LET to == Head(req[c]).to
         m  == Head(req[c]).msg
     IN  /\ owed' = owed \cup {<<to, m>>}
         /\ \/ /\ userConn[to] # NoConn
               /\ Forward(c, to, m)
               /\ UNCHANGED <<pc, hUser, hMsgs>>
            \/ /\ userConn[to] = NoConn
               /\ Goto(c, "storeOffline")
               /\ hUser' = [hUser EXCEPT ![c] = to]
               /\ hMsgs' = [hMsgs EXCEPT ![c] = <<m>>]
               /\ UNCHANGED <<queued, received, dropped>>
  /\ Consume(c)
  /\ UNCHANGED <<dbVars, svcVars, hTodo, conn, clientVars, fetched>>

\* The sender's id is given to insert.
StoreOfflineForSender(c) ==
  /\ running
  /\ pc[c] = "storeOffline"
  /\ \E ok \in BOOLEAN :
       /\ DbCall(ok)
       /\ offline' = IF ok THEN OfflineInsert(offline, Head(hMsgs[c]).from, Head(hMsgs[c]))
                    ELSE offline
  /\ Return(c)
  /\ UNCHANGED <<state, members, svcVars, netVars, clientVars, histVars>>

\* After the mutex is released: store the message.
StoreOffline(c) ==
  /\ running
  /\ pc[c] = "storeOffline"
  /\ \E ok \in BOOLEAN :
       /\ DbCall(ok)
       /\ offline' = IF ok THEN OfflineInsert(offline, hUser[c], Head(hMsgs[c])) ELSE offline
  /\ Return(c)
  /\ UNCHANGED <<state, members, svcVars, netVars, clientVars, histVars>>

-----------------------------------------------------------------------------
(***************************************************************************)
(* ChatService::groupChat and ChatService::addGroup                        *)
(***************************************************************************)

\* queryGroupUsers, before the mutex is taken
GroupQuery(c) ==
  /\ Handles(c, "GROUP_CHAT_MSG")
  /\ LET r == Head(req[c])
         users == QueryGroupUsers(members, r.user, r.group)
     IN  /\ \E ok \in BOOLEAN :
              /\ DbCall(ok)
              /\ hTodo' = [hTodo EXCEPT ![c] = IF ok THEN users ELSE NoRows]
         /\ owed' = owed \cup {<<u, r.msg>> : u \in {v \in Users : users[v] > 0}}
         /\ hMsgs' = [hMsgs EXCEPT ![c] = <<r.msg>>]
  /\ Consume(c)
  /\ Goto(c, "groupLock")
  /\ UNCHANGED <<state, offline, members, svcVars, hUser, conn, queued, clientVars,
                 dropped, received, fetched>>

\* lock_guard for the rest of the handler
GroupLock(c) ==
  /\ running
  /\ pc[c] = "groupLock"
  /\ MutexFree
  /\ mutex' = c
  /\ Goto(c, "groupLoop")
  /\ UNCHANGED <<dbVars, running, exiting, crashes, userConn, localVars, netVars,
                 clientVars, histVars>>

\* The absent member's state is asked instead of taking the map's word.
GroupEachByState(c, u) ==
  /\ running
  /\ pc[c] = "groupLoop"
  /\ hTodo[c][u] > 0
  /\ LET m == Head(hMsgs[c]) IN
     \/ /\ userConn[u] # NoConn
        /\ Forward(c, u, m)
        /\ UNCHANGED offline
     \/ /\ userConn[u] = NoConn
        /\ offline' = IF state[u] = "offline" THEN OfflineInsert(offline, u, m) ELSE offline
        /\ UNCHANGED <<queued, received, dropped>>
  /\ hTodo' = [hTodo EXCEPT ![c][u] = @ - 1]
  /\ UNCHANGED <<state, faults, members, svcVars, pc, hUser, hMsgs, conn, req, called,
                 clientVars, owed, fetched, lost>>

\* One turn of the loop: one of the ids goes, its user is forwarded the
\* message or has it stored.  The lookup and the insert are one step: the map
\* cannot change between them while the mutex is held.
GroupEach(c, u) ==
  /\ running
  /\ pc[c] = "groupLoop"
  /\ hTodo[c][u] > 0
  /\ LET m == Head(hMsgs[c]) IN
     \/ /\ userConn[u] # NoConn
        /\ Forward(c, u, m)
        /\ UNCHANGED <<offline, faults>>
     \/ /\ userConn[u] = NoConn
        /\ \E ok \in BOOLEAN :
             /\ DbCall(ok)
             /\ offline' = IF ok THEN OfflineInsert(offline, u, m) ELSE offline
        /\ UNCHANGED <<queued, received, dropped>>
  /\ hTodo' = [hTodo EXCEPT ![c][u] = @ - 1]
  /\ UNCHANGED <<state, members, svcVars, pc, hUser, hMsgs, conn, req, called, clientVars,
                 owed, fetched, lost>>

GroupUnlock(c) ==
  /\ running
  /\ pc[c] = "groupLoop"
  /\ hTodo[c] = NoRows
  /\ mutex' = NoConn
  /\ Return(c)
  /\ UNCHANGED <<dbVars, running, exiting, crashes, userConn, netVars, clientVars,
                 histVars>>

AddGroup(c) ==
  /\ Handles(c, "ADD_GROUP_MSG")
  /\ LET r == Head(req[c]) IN
     \E ok \in BOOLEAN :
       /\ DbCall(ok)
       /\ members' = IF ok THEN AddMember(members, r.user, r.group) ELSE members
  /\ Consume(c)
  /\ UNCHANGED <<state, offline, svcVars, pc, localVars, conn, queued, clientVars,
                 deliveryVars>>

-----------------------------------------------------------------------------
(***************************************************************************)
(* The event loop and the process.                                         *)
(***************************************************************************)

\* doPendingFunctors, at the end of a turn of c's loop: the sends other loops
\* have posted to c are written, and the next turn may call c back again.
RunPending(c) ==
  /\ LoopFree(c)
  /\ c \in called \/ queued[c] # NoQueue
  /\ called' = called \ {c}
  /\ queued' = [queued EXCEPT ![c] = NoQueue]
  /\ IF client[c] = "gone"
     THEN /\ dropped' = dropped \cup UNION {Pairs(u, queued[c][u]) : u \in Users}
          /\ UNCHANGED received
     ELSE /\ received' = [u \in Users |-> received[u] \o queued[c][u]]
          /\ UNCHANGED dropped
  /\ UNCHANGED <<dbVars, svcVars, pc, localVars, conn, req, clientVars, owed,
                 fetched, lost>>

\* What is left when the server process is gone.  A client whose recv
\* returns 0 exits.
Down ==
  /\ running' = FALSE
  /\ exiting' = FALSE
  /\ userConn' = [u \in Users |-> NoConn]
  /\ mutex' = NoConn
  /\ pc' = [c \in Conns |-> "idle"]
  /\ hUser' = [c \in Conns |-> NoUser]
  /\ hMsgs' = [c \in Conns |-> <<>>]
  /\ hTodo' = [c \in Conns |-> NoRows]
  /\ conn' = [c \in Conns |-> "none"]
  /\ req' = [c \in Conns |-> <<>>]
  /\ queued' = [c \in Conns |-> NoQueue]
  /\ called' = {}
  /\ client' = [c \in Conns |-> "gone"]
  /\ account' = [c \in Conns |-> NoUser]
  /\ UNCHANGED <<nextMsg, histVars>>

\* SIGINT: ChatService::reset() while the loops go on.
Interrupt ==
  /\ MayInterrupt
  /\ running
  /\ ~exiting
  /\ \E ok \in BOOLEAN :
       /\ DbCall(ok)
       /\ state' = IF ok THEN ResetState(state) ELSE state
  /\ exiting' = TRUE
  /\ UNCHANGED <<offline, members, running, crashes, userConn, mutex, pc, localVars,
                 netVars, clientVars, histVars>>

\* exit(0) at the end of resetHandler
Exit ==
  /\ exiting
  /\ Down
  /\ UNCHANGED <<dbVars, crashes>>

\* The process dies without resetHandler; MaxCrashes bounds it.
Crash ==
  /\ running
  /\ crashes < MaxCrashes
  /\ Down
  /\ crashes' = crashes + 1
  /\ UNCHANGED dbVars

\* main() starts again: it does not touch the database.
Restart ==
  /\ ~running
  /\ running' = TRUE
  /\ UNCHANGED <<dbVars, exiting, crashes, userConn, mutex, pc, localVars, netVars,
                 clientVars, histVars>>

-----------------------------------------------------------------------------
Client(c) ==
  \/ Connect(c)
  \/ \E u \in Users, ok \in BOOLEAN : SendLogin(c, u, ok)
  \/ SendLogout(c)
  \/ \E u \in Users : SendOneChat(c, u)
  \/ \E g \in Groups : SendGroupChat(c, g) \/ SendAddGroup(c, g)
  \/ Quit(c)

Login(c) ==
  \/ LoginQuery(c) \/ LoginRefuse(c) \/ LoginReject(c)
  \/ LoginEmplace(c) \/ LoginSetOnline(c)
  \/ LoginReadOffline(c) \/ LoginClearOffline(c) \/ LoginReply(c)

Leave(c) ==
  \/ LogoutErase(c) \/ LogoutUpdate(c)
  \/ CloseErase(c) \/ CloseUpdate(c)

Chat(c) ==
  \/ OneChat(c) \/ StoreOffline(c)
  \/ GroupQuery(c) \/ GroupLock(c) \/ (\E u \in Users : GroupEach(c, u))
  \/ GroupUnlock(c) \/ AddGroup(c)

\* The steps of the thread of c's loop.
Loop(c) == Login(c) \/ Leave(c) \/ Chat(c) \/ RunPending(c)

Process == Interrupt \/ Exit \/ Crash \/ Restart

Next == (\E c \in Conns : Client(c) \/ Loop(c)) \/ Process

Spec == Init /\ [][Next]_vars

\* An event loop that has something to do for a connection does it: a
\* statement returns, m_connMutex is released by the handler that holds it,
\* and poll, which is level-triggered, reports a connection with unread input
\* in every turn, so that the others in the loop cannot starve it (hence SF;
\* with one connection in each loop WF is the same).  Nothing is promised of
\* the clients, the operator, failing statements or crashes.
Fairness == \A c \in Conns : SF_vars(Loop(c))

FairSpec == Spec /\ Fairness

-----------------------------------------------------------------------------
TypeDb ==
  /\ state \in [Users -> {"online", "offline"}]
  /\ offline \in [Users -> Seq(Msg)]
  /\ members \in [Groups -> [Users -> Nat]]
  /\ faults \in Nat

TypeService ==
  /\ running \in BOOLEAN
  /\ exiting \in BOOLEAN
  /\ crashes \in Nat
  /\ userConn \in [Users -> Conns \cup {NoConn}]
  /\ mutex \in Conns \cup {NoConn}

TypeCallback ==
  /\ pc \in [Conns -> PCs]
  /\ hUser \in [Conns -> Users \cup {NoUser}]
  /\ hMsgs \in [Conns -> Seq(Msg)]
  /\ hTodo \in [Conns -> [Users -> Nat]]
  \* the user and the message a callback goes on with are there
  /\ \A c \in Conns :
       /\ pc[c] \in UserPCs => hUser[c] \in Users
       /\ pc[c] \in MsgPCs => hMsgs[c] # <<>>

TypeNet ==
  /\ conn \in [Conns -> {"none", "up", "down"}]
  /\ req \in [Conns -> Seq(Request)]
  /\ queued \in [Conns -> [Users -> Seq(Msg)]]
  /\ called \subseteq Conns

TypeClient ==
  /\ client \in [Conns -> {"gone", "menu", "waiting", "chatting"}]
  /\ account \in [Conns -> Users \cup {NoUser}]
  /\ \A c \in Conns : client[c] = "chatting" <=> account[c] # NoUser
  /\ nextMsg \in 1 .. MaxMsgs + 1

TypeHistory ==
  /\ owed \subseteq Users \X Msg
  /\ dropped \subseteq Users \X Msg
  /\ received \in [Users -> Seq(Msg)]
  /\ fetched \in [Users -> Seq(Msg)]
  /\ lost \subseteq Conns \X SessionTypes

\* Every variable keeps its type, the handler's locals hold a user and a
\* message where the handler goes on to use them, and a client has an account
\* exactly while it chats.
TypeOK == TypeDb /\ TypeService /\ TypeCallback /\ TypeNet /\ TypeClient /\ TypeHistory

=============================================================================
