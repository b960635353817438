---------------------------- MODULE MessageProofs ----------------------------
(***************************************************************************)
(* What becomes of the messages, for any number of users, connections,     *)
(* groups and messages: none that is stored in turn with the recipient's   *)
(* logins is lost, or waits in offlineMessage for a user who is logged in, *)
(* or is deleted unread; none is sent twice to who joined the group once;  *)
(* and what one writer sends is forwarded in the order it was written.     *)
(***************************************************************************)
EXTENDS SessionProofs

-----------------------------------------------------------------------------
(***************************************************************************)
(* How a callback, the tables and the queues change in a step.             *)
(***************************************************************************)

\* The callback of d stays where it is, its locals as they are.
Same(d) ==
  /\ pc'[d] = pc[d]
  /\ hUser'[d] = hUser[d]
  /\ hMsgs'[d] = hMsgs[d]
  /\ hTodo'[d] = hTodo[d]

\* A step of one connection leaves the callbacks of the others alone.
LEMMA OthersSame ==
  ASSUME TypeOK, NEW c \in Conns, Client(c) \/ Loop(c), NEW d \in Conns \ {c}
  PROVE  Same(d)
  <1> USE DEF Same, dbVars, svcVars, localVars, netVars, clientVars, histVars
  <1>0. TypeCallback
    BY DEF TypeOK
  <1>1. ASSUME UNCHANGED <<pc, localVars>> PROVE Same(d)
    BY <1>1
  <1>2. ASSUME NEW l, NEW u, NEW ms, NEW us,
               \/ UNCHANGED pc
               \/ pc' = [pc EXCEPT ![c] = l],
               \/ UNCHANGED hUser
               \/ hUser' = [hUser EXCEPT ![c] = u],
               \/ UNCHANGED hMsgs
               \/ hMsgs' = [hMsgs EXCEPT ![c] = ms],
               \/ UNCHANGED hTodo
               \/ hTodo' = [hTodo EXCEPT ![c] = us]
        PROVE  Same(d)
    BY <1>0, <1>2 DEF TypeCallback
  <1>3. ASSUME Client(c) \/ RunPending(c) PROVE UNCHANGED <<pc, localVars>>
    BY <1>3 DEF Client, Connect, SendLogin, SendLogout, SendOneChat, SendGroupChat,
                SendAddGroup, Quit, RunPending
  <1>4. ASSUME LoginQuery(c) \/ LoginRefuse(c) \/ LoginReject(c) PROVE Same(d)
    BY <1>2, <1>4 DEF LoginQuery, LoginRefuse, LoginReject, Goto, Return
  <1>5. ASSUME LoginEmplace(c) \/ LoginSetOnline(c) \/ LoginReadOffline(c) PROVE Same(d)
    BY <1>2, <1>5 DEF LoginEmplace, LoginSetOnline, LoginReadOffline, Goto
  <1>6. ASSUME LoginClearOffline(c) \/ LoginReply(c) PROVE Same(d)
    BY <1>2, <1>6 DEF LoginClearOffline, LoginReply, Goto, Return
  <1>7. ASSUME Leave(c) PROVE Same(d)
    BY <1>2, <1>7 DEF Leave, LogoutErase, LogoutUpdate, CloseErase, CloseUpdate, Goto, Return
  <1>8. ASSUME OneChat(c) \/ StoreOffline(c) \/ GroupQuery(c) \/ GroupLock(c) PROVE Same(d)
    BY <1>2, <1>8 DEF OneChat, StoreOffline, GroupQuery, GroupLock, Goto, Return
  <1>9. ASSUME (\E u \in Users : GroupEach(c, u)) \/ GroupUnlock(c) \/ AddGroup(c)
        PROVE  Same(d)
    BY <1>2, <1>9 DEF GroupEach, GroupUnlock, AddGroup, Goto, Return
  <1> HIDE DEF Same
  <1> QED  BY <1>1, <1>3, <1>4, <1>5, <1>6, <1>7, <1>8, <1>9 DEF Loop, Login, Chat

\* A callback goes on by the steps of its own connection only.
LEMMA CallbackMoves ==
  ASSUME TypeOK, [Next]_vars, ~Exit, ~Crash, NEW d \in Conns
  PROVE  Same(d) \/ Login(d) \/ Leave(d) \/ Chat(d)
  <1>1. ASSUME UNCHANGED <<pc, localVars>> PROVE Same(d)
    BY <1>1 DEF Same, localVars
  <1>2. ASSUME Client(d) \/ RunPending(d) PROVE UNCHANGED <<pc, localVars>>
    BY <1>2 DEF Client, Connect, SendLogin, SendLogout, SendOneChat, SendGroupChat,
                SendAddGroup, Quit, RunPending
  <1>3. ASSUME Interrupt \/ Restart \/ UNCHANGED vars PROVE UNCHANGED <<pc, localVars>>
    BY <1>3 DEF Interrupt, Restart, vars
  <1> QED  BY <1>1, <1>2, <1>3, OthersSame DEF Next, Loop, Process

\* From where it goes on ...
LEMMA CallbackGoesOn ==
  ASSUME TypeOK, [Next]_vars, ~Exit, ~Crash, NEW d \in Conns
  PROVE  /\ pc[d] = "storeOffline" => Same(d) \/ StoreOffline(d)
         /\ pc[d] = "clearOffline" => Same(d) \/ LoginClearOffline(d)
         /\ pc[d] = "reply" => Same(d) \/ LoginReply(d)
         /\ pc[d] = "groupLock" => Same(d) \/ GroupLock(d)
         /\ pc[d] = "groupLoop" =>
              Same(d) \/ (\E u \in Users : GroupEach(d, u)) \/ GroupUnlock(d)
  <1> DEFINE here == {"storeOffline", "clearOffline", "reply", "groupLock", "groupLoop"}
  <1> SUFFICES ASSUME ~Same(d), pc[d] \in here
               PROVE  \/ pc[d] = "storeOffline" /\ StoreOffline(d)
                      \/ pc[d] = "clearOffline" /\ LoginClearOffline(d)
                      \/ pc[d] = "reply" /\ LoginReply(d)
                      \/ pc[d] = "groupLock" /\ GroupLock(d)
                      \/ /\ pc[d] = "groupLoop"
                         /\ (\E u \in Users : GroupEach(d, u)) \/ GroupUnlock(d)
    OBVIOUS
  <1>1. Login(d) \/ Leave(d) \/ Chat(d)
    BY CallbackMoves
  <1>2. ASSUME NEW type PROVE ~Handles(d, type) /\ ~Ready(d)
    BY DEF Handles, Ready, LoopFree
  <1>3. CASE Login(d)
    BY <1>2, <1>3 DEF Login, LoginQuery, LoginRefuse, LoginReject, LoginEmplace,
                LoginSetOnline, LoginReadOffline, LoginClearOffline, LoginReply
  <1>4. ~Leave(d)
    BY <1>2 DEF Leave, LogoutErase, LogoutUpdate, CloseErase, CloseUpdate
  <1>5. ASSUME Chat(d)
        PROVE  \/ pc[d] = "storeOffline" /\ StoreOffline(d)
               \/ pc[d] = "groupLock" /\ GroupLock(d)
               \/ /\ pc[d] = "groupLoop"
                  /\ (\E u \in Users : GroupEach(d, u)) \/ GroupUnlock(d)
    <2>1. ~OneChat(d) /\ ~GroupQuery(d) /\ ~AddGroup(d)
      BY <1>2 DEF OneChat, GroupQuery, AddGroup
    <2>2. StoreOffline(d) => pc[d] = "storeOffline"
      BY DEF StoreOffline
    <2>3. GroupLock(d) => pc[d] = "groupLock"
      BY DEF GroupLock
    <2>4. \A u : GroupEach(d, u) => pc[d] = "groupLoop"
      BY DEF GroupEach
    <2>5. GroupUnlock(d) => pc[d] = "groupLoop"
      BY DEF GroupUnlock
    <2> QED  BY <1>5, <2>1, <2>2, <2>3, <2>4, <2>5 DEF Chat
  <1> QED  BY <1>1, <1>3, <1>4, <1>5

\* ... and by which step it came there.
LEMMA CallbackComes ==
  ASSUME TypeOK, [Next]_vars, ~Exit, ~Crash, NEW d \in Conns
  PROVE  /\ pc'[d] = "storeOffline" => Same(d) \/ OneChat(d)
         /\ pc'[d] = "clearOffline" => Same(d) \/ LoginReadOffline(d)
         /\ pc'[d] = "reply" => Same(d) \/ LoginReadOffline(d) \/ LoginClearOffline(d)
         /\ pc'[d] = "groupLock" => Same(d) \/ GroupQuery(d)
         /\ pc'[d] = "groupLoop" =>
              Same(d) \/ GroupLock(d) \/ (\E u \in Users : GroupEach(d, u))
  <1> USE DEF dbVars, svcVars, localVars, netVars, clientVars, histVars, deliveryVars
  <1> DEFINE there == {"storeOffline", "clearOffline", "reply", "groupLock", "groupLoop"}
  <1>0. TypeCallback
    BY DEF TypeOK
  <1> SUFFICES ASSUME ~Same(d), pc'[d] \in there
               PROVE  \/ pc'[d] = "storeOffline" /\ OneChat(d)
                      \/ pc'[d] = "clearOffline" /\ LoginReadOffline(d)
                      \/ pc'[d] = "reply" /\ (LoginReadOffline(d) \/ LoginClearOffline(d))
                      \/ pc'[d] = "groupLock" /\ GroupQuery(d)
                      \/ /\ pc'[d] = "groupLoop"
                         /\ GroupLock(d) \/ (\E u \in Users : GroupEach(d, u))
    OBVIOUS
  <1>1. Login(d) \/ Leave(d) \/ Chat(d)
    BY CallbackMoves
  <1>2. \A l : Goto(d, l) => pc'[d] = l
    BY <1>0 DEF Goto, TypeCallback
  <1>3. UNCHANGED <<pc, localVars>> => Same(d)
    BY DEF Same
  <1>4. ~LoginQuery(d) /\ ~LoginReject(d) /\ ~LoginEmplace(d) /\ ~LoginSetOnline(d)
        /\ ~LoginReply(d) /\ ~LoginRefuse(d)
    BY <1>2, <1>3 DEF LoginQuery, LoginReject, LoginEmplace, LoginSetOnline, LoginReply,
                      LoginRefuse, Return
  <1>5. ~LogoutErase(d) /\ ~LogoutUpdate(d) /\ ~CloseUpdate(d)
    BY <1>2 DEF LogoutErase, LogoutUpdate, CloseUpdate, Return
  <1>6. ~CloseErase(d)
    <2>1. ASSUME CloseErase(d) PROVE pc'[d] \in {"idle", "closeUpdate"}
      BY <1>2, <2>1 DEF CloseErase, Ready, LoopFree
    <2> QED  BY <2>1
  <1>7. LoginReadOffline(d) => pc'[d] \in {"reply", "clearOffline"}
    BY <1>2 DEF LoginReadOffline
  <1>8. LoginClearOffline(d) => pc'[d] = "reply"
    BY <1>2 DEF LoginClearOffline
  <1>9. OneChat(d) => pc'[d] \in {"idle", "storeOffline"}
    BY <1>2 DEF OneChat, Handles, Ready, LoopFree
  <1>10. ~StoreOffline(d) /\ ~GroupUnlock(d) /\ ~AddGroup(d)
    BY <1>2, <1>3 DEF StoreOffline, GroupUnlock, AddGroup, Return
  <1>11. GroupQuery(d) => pc'[d] = "groupLock"
    BY <1>2 DEF GroupQuery
  <1>12. GroupLock(d) => pc'[d] = "groupLoop"
    BY <1>2 DEF GroupLock
  <1>13. \A u \in Users : GroupEach(d, u) => pc'[d] = "groupLoop"
    BY DEF GroupEach
  <1> HIDE DEF Same
  <1> QED  BY <1>1, <1>4, <1>5, <1>6, <1>7, <1>8, <1>9, <1>10, <1>11, <1>12, <1>13
           DEF Login, Leave, Chat

\* Some callbacks begin with a request, no other touches the queue of requests.
LEMMA WhatLoopHandles ==
  ASSUME NEW c \in Conns, Loop(c)
  PROVE  UNCHANGED req \/ \E type : Handles(c, type) /\ Consume(c)
  <1> USE DEF netVars
  <1>1. ASSUME \/ LoginQuery(c) \/ LoginRefuse(c) \/ LogoutErase(c)
               \/ OneChat(c) \/ GroupQuery(c) \/ AddGroup(c)
         PROVE  \E type : Handles(c, type) /\ Consume(c)
    BY <1>1 DEF LoginQuery, LoginRefuse, LogoutErase, OneChat, GroupQuery, AddGroup
  <1>2. ASSUME \/ LoginReject(c) \/ LoginEmplace(c) \/ LoginSetOnline(c)
               \/ LoginReadOffline(c) \/ LoginClearOffline(c) \/ LoginReply(c)
               \/ LogoutUpdate(c) \/ CloseErase(c) \/ CloseUpdate(c)
        PROVE  UNCHANGED req
    BY <1>2 DEF LoginReject, LoginEmplace, LoginSetOnline, LoginReadOffline,
                LoginClearOffline, LoginReply, LogoutUpdate, CloseErase, CloseUpdate
  <1>3. ASSUME \/ StoreOffline(c) \/ GroupLock(c) \/ (\E u \in Users : GroupEach(c, u))
               \/ GroupUnlock(c) \/ RunPending(c)
        PROVE  UNCHANGED req
    BY <1>3 DEF StoreOffline, GroupLock, GroupEach, GroupUnlock, RunPending
  <1> QED  BY <1>1, <1>2, <1>3 DEF Loop, Login, Leave, Chat

\* A login, the answer to it and the handlers of chat messages: what they do to the
\* messages stored for u.
LEMMA OfflineMoves ==
  ASSUME TypeOK, [Next]_vars, NEW u \in Users
  PROVE  \/ offline'[u] = offline[u]
         \/ \E c \in Conns :
               /\ StoreOffline(c) /\ hUser[c] = u
               /\ offline'[u] = Append(offline[u], Head(hMsgs[c]))
         \/ \E c \in Conns :
               /\ GroupEach(c, u) /\ userConn[u] = NoConn
               /\ offline'[u] = Append(offline[u], Head(hMsgs[c]))
         \/ \E c \in Conns :
               /\ LoginClearOffline(c) /\ hUser[c] = u
               /\ offline'[u] = <<>>
  <1> USE DEF dbVars, svcVars, localVars, netVars, clientVars, histVars, deliveryVars
  <1>0. TypeDb
    BY DEF TypeOK
  <1>1. ASSUME NEW c \in Conns, StoreOffline(c)
        PROVE  \/ offline'[u] = offline[u]
               \/ hUser[c] = u /\ offline'[u] = Append(offline[u], Head(hMsgs[c]))
    BY <1>0, <1>1 DEF StoreOffline, OfflineInsert, TypeDb
  <1>2. ASSUME NEW c \in Conns, NEW v \in Users, GroupEach(c, v)
        PROVE  \/ offline'[u] = offline[u]
               \/ /\ v = u /\ userConn[u] = NoConn
                  /\ offline'[u] = Append(offline[u], Head(hMsgs[c]))
    BY <1>0, <1>2 DEF GroupEach, OfflineInsert, TypeDb
  <1>3. ASSUME NEW c \in Conns, LoginClearOffline(c)
        PROVE  \/ offline'[u] = offline[u]
               \/ hUser[c] = u /\ offline'[u] = <<>>
    BY <1>0, <1>3 DEF LoginClearOffline, OfflineRemove, TypeDb
  <1>4. ASSUME NEW c \in Conns, Client(c) PROVE UNCHANGED offline
    BY <1>4 DEF Client, Connect, SendLogin, SendLogout, SendOneChat, SendGroupChat,
                SendAddGroup, Quit
  <1>5. ASSUME NEW c \in Conns, Login(c), ~LoginClearOffline(c) PROVE UNCHANGED offline
    BY <1>5 DEF Login, LoginQuery, LoginRefuse, LoginReject, LoginEmplace, LoginSetOnline,
                LoginReadOffline, LoginReply
  <1>6. ASSUME NEW c \in Conns, Leave(c) \/ RunPending(c) PROVE UNCHANGED offline
    BY <1>6 DEF Leave, LogoutErase, LogoutUpdate, CloseErase, CloseUpdate, RunPending
  <1>7. ASSUME NEW c \in Conns, Chat(c), ~StoreOffline(c), \A v \in Users : ~GroupEach(c, v)
        PROVE  UNCHANGED offline
    BY <1>7 DEF Chat, OneChat, GroupQuery, GroupLock, GroupUnlock, AddGroup
  <1>8. ASSUME Process \/ UNCHANGED vars PROVE UNCHANGED offline
    BY <1>8 DEF Process, Interrupt, Exit, Crash, Restart, vars
  <1> QED  BY <1>1, <1>2, <1>3, <1>4, <1>5, <1>6, <1>7, <1>8 DEF Next, Loop

\* m_userConnMap changes in emplace and in the two erases, and goes with the process.
LEMMA MapMoves ==
  ASSUME TypeOK, [Next]_vars, NEW u \in Users
  PROVE  \/ userConn'[u] = userConn[u]
         \/ userConn'[u] = NoConn
         \/ \E c \in Conns : pc[c] \in LoginPCs /\ hUser[c] = u
  <1> USE DEF dbVars, svcVars, localVars, netVars, clientVars, histVars, deliveryVars
  <1>0. TypeService
    BY DEF TypeOK
  <1>1. ASSUME NEW c \in Conns, Client(c) \/ Chat(c) \/ RunPending(c) PROVE UNCHANGED userConn
    BY <1>1 DEF Client, Connect, SendLogin, SendLogout, SendOneChat, SendGroupChat,
                SendAddGroup, Quit, Chat, OneChat, StoreOffline, GroupQuery, GroupLock,
                GroupEach, GroupUnlock, AddGroup, RunPending
  <1>2. ASSUME NEW c \in Conns, Login(c)
        PROVE  userConn'[u] = userConn[u] \/ (pc[c] \in LoginPCs /\ hUser[c] = u)
    <2>1. LoginEmplace(c) \/ LoginReject(c)
            => pc[c] \in LoginPCs /\ userConn' = EmplaceConn(userConn, hUser[c], c)
      BY DEF LoginEmplace, LoginReject, LoginPCs
    <2>2. LoginQuery(c) \/ LoginRefuse(c) \/ LoginSetOnline(c) \/ LoginReadOffline(c)
          \/ LoginClearOffline(c) \/ LoginReply(c) => UNCHANGED userConn
      BY DEF LoginQuery, LoginRefuse, LoginSetOnline, LoginReadOffline, LoginClearOffline,
             LoginReply
    <2> QED  BY <1>0, <1>2, <2>1, <2>2 DEF Login, EmplaceConn, TypeService
  <1>3. ASSUME NEW c \in Conns, Leave(c)
        PROVE  userConn'[u] = userConn[u] \/ userConn'[u] = NoConn
    BY <1>0, <1>3 DEF Leave, LogoutErase, LogoutUpdate, CloseErase, CloseUpdate, EraseConn,
                      TypeService
  <1>4. ASSUME Process \/ UNCHANGED vars
        PROVE  userConn'[u] = userConn[u] \/ userConn'[u] = NoConn
    BY <1>4 DEF Process, Interrupt, Exit, Crash, Restart, Down, vars
  <1> QED  BY <1>1, <1>2, <1>3, <1>4 DEF Next, Loop

\* What is new in a request: at most a message with the next number, from who is logged in.
CarriesNew(c, r) ==
  \/ r.type \notin {"ONE_CHAT_MSG", "GROUP_CHAT_MSG"} /\ UNCHANGED nextMsg
  \/ /\ \/ r.type = "ONE_CHAT_MSG" /\ r.msg.kind = "chat"
        \/ r.type = "GROUP_CHAT_MSG" /\ r.msg.kind = "groupchat"
     /\ r.msg.n = nextMsg /\ r.msg.from = account[c]
     /\ nextMsg' = nextMsg + 1
     /\ client[c] = "chatting" /\ Client(c)

\* What a step does to the requests that wait.
LEMMA RequestsMove ==
  ASSUME TypeOK, [Next]_vars
  PROVE  \/ (\A d \in Conns : req'[d] \in {req[d], <<>>}) /\ UNCHANGED nextMsg
         \/ \E c \in Conns : \E r : Send(c, r) /\ CarriesNew(c, r)
         \/ (\E c \in Conns : \E type : Handles(c, type) /\ Consume(c)) /\ UNCHANGED nextMsg
  <1> USE DEF netVars, clientVars
  <1>0. TypeNet
    BY DEF TypeOK
  <1>1. CASE Process \/ UNCHANGED vars
    BY <1>1 DEF Process, Interrupt, Exit, Crash, Restart, Down, vars
  <1>2. ASSUME NEW c \in Conns, Loop(c)
        PROVE  UNCHANGED nextMsg
    <2>1. CASE Login(c)
      BY <2>1 DEF Login, LoginQuery, LoginRefuse, LoginReject, LoginEmplace, LoginSetOnline,
                  LoginReadOffline, LoginClearOffline, LoginReply
    <2>2. CASE Leave(c) \/ RunPending(c)
      BY <2>2 DEF Leave, LogoutErase, LogoutUpdate, CloseErase, CloseUpdate, RunPending
    <2>3. CASE Chat(c)
      BY <2>3 DEF Chat, OneChat, StoreOffline, GroupQuery, GroupLock, GroupEach, GroupUnlock,
                  AddGroup
    <2> QED  BY <1>2, <2>1, <2>2, <2>3 DEF Loop
  <1>3. ASSUME NEW c \in Conns, Loop(c)
        PROVE  \/ UNCHANGED <<req, nextMsg>>
               \/ (\E type : Handles(c, type) /\ Consume(c)) /\ UNCHANGED nextMsg
    BY <1>2, <1>3, WhatLoopHandles
  <1>4. ASSUME NEW c \in Conns, Connect(c)
        PROVE  UNCHANGED <<req, nextMsg>>
    BY <1>4 DEF Connect
  <1>5. ASSUME NEW c \in Conns, Quit(c)
        PROVE  (\A d \in Conns : req'[d] \in {req[d], <<>>}) /\ UNCHANGED nextMsg
    BY <1>0, <1>5 DEF Quit, TypeNet
  <1>6. ASSUME NEW c \in Conns, NEW u \in Users, NEW ok \in BOOLEAN, SendLogin(c, u, ok)
        PROVE  \E r : Send(c, r) /\ CarriesNew(c, r)
    <2>1. PICK r : r = [type |-> "LOGIN_MSG", user |-> u, pwdOk |-> ok]
      OBVIOUS
    <2>2. r.type = "LOGIN_MSG"
      BY <2>1
    <2> QED  BY <1>6, <2>1, <2>2 DEF SendLogin, CarriesNew
  <1>7. ASSUME NEW c \in Conns, SendLogout(c)
        PROVE  \E r : Send(c, r) /\ CarriesNew(c, r)
    <2>1. PICK r : r = [type |-> "LOGINOUT_MSG", user |-> account[c]]
      OBVIOUS
    <2>2. r.type = "LOGINOUT_MSG"
      BY <2>1
    <2> QED  BY <1>7, <2>1, <2>2 DEF SendLogout, CarriesNew
  <1>8. ASSUME NEW c \in Conns, NEW u \in Users, SendOneChat(c, u)
        PROVE  \E r : Send(c, r) /\ CarriesNew(c, r)
    <2>1. PICK r : r = [type |-> "ONE_CHAT_MSG", to |-> u, msg |-> NewMsg(c, "chat")]
      OBVIOUS
    <2>2. /\ r.type = "ONE_CHAT_MSG" /\ r.msg.kind = "chat"
          /\ r.msg.n = nextMsg /\ r.msg.from = account[c]
      BY <2>1 DEF NewMsg
    <2> QED  BY <1>8, <2>1, <2>2 DEF SendOneChat, CarriesNew, CanCommand, Client
  <1>9. ASSUME NEW c \in Conns, NEW g \in Groups, SendGroupChat(c, g)
        PROVE  \E r : Send(c, r) /\ CarriesNew(c, r)
    <2>1. PICK r : r = [type |-> "GROUP_CHAT_MSG", user |-> account[c], group |-> g,
                        msg |-> NewMsg(c, "groupchat")]
      OBVIOUS
    <2>2. /\ r.type = "GROUP_CHAT_MSG" /\ r.msg.kind = "groupchat"
          /\ r.msg.n = nextMsg /\ r.msg.from = account[c]
      BY <2>1 DEF NewMsg
    <2> QED  BY <1>9, <2>1, <2>2 DEF SendGroupChat, CarriesNew, CanCommand, Client
  <1>10. ASSUME NEW c \in Conns, NEW g \in Groups, SendAddGroup(c, g)
         PROVE  \E r : Send(c, r) /\ CarriesNew(c, r)
    <2>1. PICK r : r = [type |-> "ADD_GROUP_MSG", user |-> account[c], group |-> g]
      OBVIOUS
    <2>2. r.type = "ADD_GROUP_MSG"
      BY <2>1
    <2> QED  BY <1>10, <2>1, <2>2 DEF SendAddGroup, CarriesNew
  <1>11. ASSUME NEW c \in Conns, Client(c)
         PROVE  \/ (\A d \in Conns : req'[d] \in {req[d], <<>>}) /\ UNCHANGED nextMsg
                \/ \E r : Send(c, r) /\ CarriesNew(c, r)
    BY <1>4, <1>5, <1>6, <1>7, <1>8, <1>9, <1>10, <1>11 DEF Client
  <1> QED  BY <1>1, <1>3, <1>11 DEF Next

-----------------------------------------------------------------------------
(***************************************************************************)
(* The offline messages of a user who is logged in.                        *)
(***************************************************************************)

\* The handlers of chat messages have one each.
OneMessage(c) == pc[c] \in MsgPCs => Len(hMsgs[c]) = 1

\* A chat message comes from an account of the client whose connection it was read
\* from, and is of the kind its handler is for.
OwnRequest(c, r) ==
  /\ r.type = "ONE_CHAT_MSG" => r.msg.kind = "chat" /\ r.msg.from \in AccountsOf[c]
  /\ r.type = "GROUP_CHAT_MSG" => r.msg.kind = "groupchat" /\ r.msg.from \in AccountsOf[c]
OwnInHand(c) ==
  /\ pc[c] \in MsgPCs => Head(hMsgs[c]).from \in AccountsOf[c]
  /\ pc[c] = "storeOffline" => Head(hMsgs[c]).kind = "chat"
  /\ pc[c] \in {"groupLock", "groupLoop"} => Head(hMsgs[c]).kind = "groupchat"
OwnMessages(c) == OwnInHand(c) /\ \A i \in DOMAIN req[c] : OwnRequest(c, req[c][i])

\* Login reads what is stored, all of it, and no handler that takes turns with it stores
\* behind its back: what it has yet to store is for a user without an entry.
AllInTurnRead(u, read) == \A m \in Entries(offline[u]) : InTurn(u, m) => m \in Entries(read)
InboxRead(c) ==
  /\ pc[c] = "clearOffline" => AllInTurnRead(hUser[c], hMsgs[c])
  /\ pc[c] = "reply" => \A m \in Entries(offline[hUser[c]]) : ~InTurn(hUser[c], m)
  /\ client[c] = "chatting" => \A m \in Entries(offline[account[c]]) : ~InTurn(account[c], m)
  /\ pc[c] = "storeOffline" /\ InTurn(hUser[c], Head(hMsgs[c])) => userConn[hUser[c]] = NoConn

InboxesRead ==
  /\ \A c \in Conns : OneMessage(c) /\ OwnMessages(c)
  /\ faults = 0 => \A c \in Conns : InboxRead(c)

\* A handler that has a message has one.
LEMMA OneMessageStep ==
  ASSUME TypeOK, \A c \in Conns : OneMessage(c), [Next]_vars, NEW d \in Conns
  PROVE  OneMessage(d)'
  <1> USE DEF dbVars, svcVars, localVars, netVars, clientVars, histVars, deliveryVars
  <1>0. TypeCallback
    BY DEF TypeOK
  <1>1. CASE Exit \/ Crash
    BY <1>1 DEF Exit, Crash, Down, OneMessage, MsgPCs
  <1>2. ASSUME ~Exit, ~Crash, pc'[d] \in MsgPCs PROVE Len(hMsgs'[d]) = 1
    <2>1. CASE Same(d)
      BY <1>2, <2>1 DEF OneMessage, Same
    <2>2. CASE OneChat(d) /\ pc'[d] = "storeOffline"
      <3>1. pc[d] = "idle"
        BY <2>2 DEF OneChat, Handles, Ready, LoopFree
      <3>2. \E m : hMsgs' = [hMsgs EXCEPT ![d] = <<m>>]
        BY <2>2, <3>1 DEF OneChat
      <3> QED  BY <1>0, <3>2 DEF TypeCallback
    <2>3. CASE GroupQuery(d)
      <3>1. \E m : hMsgs' = [hMsgs EXCEPT ![d] = <<m>>]
        BY <2>3 DEF GroupQuery
      <3> QED  BY <1>0, <3>1 DEF TypeCallback
    <2>4. CASE GroupLock(d) \/ \E u \in Users : GroupEach(d, u)
      BY <2>4 DEF GroupLock, GroupEach, OneMessage, MsgPCs
    <2> QED  BY <1>2, <2>1, <2>2, <2>3, <2>4, CallbackComes DEF MsgPCs
  <1> QED  BY <1>1, <1>2 DEF OneMessage

\* Clients write in their own name, and handlers keep to their requests.
LEMMA OwnMessagesStep ==
  ASSUME ConnsInOrder, \A c \in Conns : OwnMessages(c), [Next]_vars, NEW d \in Conns
  PROVE  OwnMessages(d)'
  <1> USE DEF dbVars, svcVars, localVars, netVars, clientVars, histVars, deliveryVars
  <1>0. TypeOK /\ TypeNet /\ TypeCallback /\ TypeClient
    BY DEF ConnsInOrder, TypeOK
  <1>a. ASSUME NEW c \in Conns, client[c] = "chatting"
        PROVE  account[c] \in AccountsOf[c]
    BY <1>0, <1>a DEF ConnsInOrder, ActsForItself, TypeClient
  <1>1. ASSUME NEW i \in DOMAIN req'[d] PROVE OwnRequest(d, req'[d][i])
    <2>1. CASE (\A c \in Conns : req'[c] \in {req[c], <<>>})
      BY <1>1, <2>1 DEF OwnMessages
    <2>2. ASSUME NEW c \in Conns, NEW r, Send(c, r), CarriesNew(c, r)
          PROVE  OwnRequest(d, req'[d][i])
      <3>1. \/ i \in DOMAIN req[d] /\ req'[d][i] = req[d][i]
            \/ d = c /\ i = Len(req[c]) + 1 /\ req'[d][i] = r
        BY <1>0, <1>1, <2>2, SendAppends
      <3>2. OwnRequest(c, r)
        BY <1>a, <2>2 DEF CarriesNew, OwnRequest
      <3> QED  BY <3>1, <3>2 DEF OwnMessages
    <2>3. ASSUME NEW c \in Conns, NEW type, Handles(c, type), Consume(c)
          PROVE  OwnRequest(d, req'[d][i])
      BY <1>0, <1>1, <2>3, RestWasThere DEF OwnMessages
    <2> QED  BY <1>0, <2>1, <2>2, <2>3, RequestsMove
  <1>2. CASE Exit \/ Crash
    BY <1>1, <1>2 DEF Exit, Crash, Down, OwnMessages, OwnInHand, MsgPCs
  <1>3. ASSUME ~Exit, ~Crash, pc'[d] \in MsgPCs PROVE OwnInHand(d)'
    <2>1. CASE Same(d)
      BY <2>1 DEF OwnMessages, OwnInHand, Same
    <2>2. ASSUME NEW type, Handles(d, type) PROVE OwnRequest(d, Head(req[d])) /\ pc[d] = "idle"
      <3>1. req[d] \in Seq(Request) /\ req[d] # <<>>
        BY <1>0, <2>2 DEF Handles, TypeNet
      <3>2. 1 \in DOMAIN req[d] /\ Head(req[d]) = req[d][1]
        BY <3>1
      <3>3. pc[d] = "idle"
        BY <2>2 DEF Handles, Ready, LoopFree
      <3> QED  BY <3>2, <3>3 DEF OwnMessages
    <2>3. CASE OneChat(d) /\ pc'[d] = "storeOffline"
      <3>1. OwnRequest(d, Head(req[d])) /\ pc[d] = "idle" /\ Head(req[d]).type = "ONE_CHAT_MSG"
        BY <2>2, <2>3 DEF OneChat, Handles
      <3>2. hMsgs' = [hMsgs EXCEPT ![d] = <<Head(req[d]).msg>>]
        BY <2>3, <3>1 DEF OneChat
      <3>3. Head(hMsgs'[d]) = Head(req[d]).msg
        BY <1>0, <3>2 DEF TypeCallback
      <3> QED  BY <2>3, <3>1, <3>3 DEF OwnInHand, OwnRequest
    <2>4. CASE GroupQuery(d)
      <3>1. OwnRequest(d, Head(req[d])) /\ Head(req[d]).type = "GROUP_CHAT_MSG"
        BY <2>2, <2>4 DEF GroupQuery, Handles
      <3>2. hMsgs' = [hMsgs EXCEPT ![d] = <<Head(req[d]).msg>>] /\ pc'[d] = "groupLock"
        BY <1>0, <2>4 DEF GroupQuery, Goto, TypeCallback
      <3>3. Head(hMsgs'[d]) = Head(req[d]).msg
        BY <1>0, <3>2 DEF TypeCallback
      <3> QED  BY <3>1, <3>2, <3>3 DEF OwnInHand, OwnRequest
    <2>5. CASE GroupLock(d) /\ pc'[d] = "groupLoop"
      BY <2>5 DEF GroupLock, OwnMessages, OwnInHand, MsgPCs
    <2>6. CASE (\E u \in Users : GroupEach(d, u)) /\ pc'[d] = "groupLoop"
      BY <2>6 DEF GroupEach, OwnMessages, OwnInHand, MsgPCs
    <2> QED  BY <1>0, <1>3, <2>1, <2>3, <2>4, <2>5, <2>6, CallbackComes DEF MsgPCs
  <1>4. pc'[d] \notin MsgPCs => OwnInHand(d)'
    BY DEF OwnInHand, MsgPCs
  <1>5. ~Exit /\ ~Crash => OwnInHand(d)'
    BY <1>3, <1>4
  <1> QED  BY <1>1, <1>2, <1>5 DEF OwnMessages

\* A client comes to be logged in when its login is answered.
LEMMA LoggedInByReply ==
  ASSUME TypeOK, [Next]_vars, NEW d \in Conns, client'[d] = "chatting"
  PROVE  \/ client[d] = "chatting" /\ account'[d] = account[d]
         \/ LoginReply(d) /\ account'[d] = hUser[d]
  <1> USE DEF dbVars, svcVars, localVars, netVars, clientVars, histVars, deliveryVars
  <1>0. TypeClient
    BY DEF TypeOK
  <1>1. ASSUME NEW c \in Conns, Client(c) PROVE client[d] = "chatting" /\ account'[d] = account[d]
    BY <1>0, <1>1 DEF Client, Connect, SendLogin, SendLogout, SendOneChat, SendGroupChat,
                      SendAddGroup, Quit, TypeClient
  <1>2. ASSUME NEW c \in Conns, LoginRefuse(c) \/ LoginReject(c)
        PROVE  client[d] = "chatting" /\ account'[d] = account[d]
    BY <1>0, <1>2 DEF LoginRefuse, LoginReject, Answer, TypeClient
  <1>3. ASSUME NEW c \in Conns, LoginReply(c)
        PROVE  \/ client[d] = "chatting" /\ account'[d] = account[d]
               \/ c = d /\ account'[d] = hUser[d]
    BY <1>0, <1>3 DEF LoginReply, Answer, TypeClient
  <1>4. ASSUME NEW c \in Conns,
               \/ LoginQuery(c) \/ LoginEmplace(c) \/ LoginSetOnline(c)
               \/ LoginReadOffline(c) \/ LoginClearOffline(c) \/ Leave(c)
        PROVE  UNCHANGED <<client, account>>
    BY <1>4 DEF LoginQuery, LoginEmplace, LoginSetOnline, LoginReadOffline,
                LoginClearOffline, Leave, LogoutErase, LogoutUpdate, CloseErase, CloseUpdate
  <1>5. ASSUME NEW c \in Conns, Chat(c) \/ RunPending(c) PROVE UNCHANGED <<client, account>>
    BY <1>5 DEF Chat, OneChat, StoreOffline, GroupQuery, GroupLock, GroupEach, GroupUnlock,
                AddGroup, RunPending
  <1>6. ASSUME Interrupt \/ Restart \/ UNCHANGED vars PROVE UNCHANGED <<client, account>>
    BY <1>6 DEF Interrupt, Restart, vars
  <1>7. ~Exit /\ ~Crash
    BY DEF Exit, Crash, Down
  <1> QED  BY <1>1, <1>2, <1>3, <1>4, <1>5, <1>6, <1>7 DEF Next, Loop, Login, Process

\* Appending to a sequence takes nothing from it and adds what is appended.
LEMMA EntriesAppend ==
  ASSUME NEW S, NEW ms \in Seq(S), NEW m \in S
  PROVE  Entries(Append(ms, m)) = Entries(ms) \cup {m}
  <1>1. ASSUME NEW e \in Entries(ms) PROVE e \in Entries(Append(ms, m))
    <2>1. PICK i \in DOMAIN ms : ms[i] = e
      BY <1>1 DEF Entries
    <2>2. i \in DOMAIN Append(ms, m) /\ Append(ms, m)[i] = e
      BY <2>1
    <2> QED  BY <2>2 DEF Entries
  <1>2. m \in Entries(Append(ms, m))
    <2>1. Len(ms) + 1 \in DOMAIN Append(ms, m) /\ Append(ms, m)[Len(ms) + 1] = m
      OBVIOUS
    <2> QED  BY <2>1 DEF Entries
  <1>3. ASSUME NEW e \in Entries(Append(ms, m)) PROVE e \in Entries(ms) \cup {m}
    <2>1. PICK i \in DOMAIN Append(ms, m) : Append(ms, m)[i] = e
      BY <1>3 DEF Entries
    <2>2. (i \in DOMAIN ms /\ ms[i] = e) \/ e = m
      BY <2>1
    <2> QED  BY <2>2 DEF Entries
  <1> QED  BY <1>1, <1>2, <1>3

\* What the query returns are the rows, each once, in some order.
LEMMA QueryReadsAll ==
  ASSUME NEW S, NEW q \in Seq(S), NEW s \in Orders(q)
  PROVE  Entries(s) = Entries(q)
  <1>1. PICK p \in Bijection(DOMAIN q, DOMAIN q) : s = [i \in DOMAIN q |-> q[p[i]]]
    BY DEF Orders
  <1>2. /\ p \in [DOMAIN q -> DOMAIN q]
        /\ \A j \in DOMAIN q : \E i \in DOMAIN q : p[i] = j
    BY DEF Bijection, Injection, Surjection
  <1>3. DOMAIN s = DOMAIN q /\ \A i \in DOMAIN q : s[i] = q[p[i]]
    BY <1>1
  <1> QED  BY <1>2, <1>3 DEF Entries

\* Which row comes into the table, and which handler puts it there.
LEMMA WhoStores ==
  ASSUME TypeOK, \A c \in Conns : OneMessage(c), [Next]_vars, NEW u \in Users,
         NEW m \in Entries(offline'[u]), m \notin Entries(offline[u])
  PROVE  \E c \in Conns :
            /\ m = Head(hMsgs[c])
            /\ \/ pc[c] = "storeOffline" /\ hUser[c] = u
               \/ userConn[u] = NoConn
  <1>0. TypeDb /\ TypeCallback
    BY DEF TypeOK
  <1>1. ASSUME NEW c \in Conns, pc[c] \in MsgPCs,
               offline'[u] = Append(offline[u], Head(hMsgs[c]))
        PROVE  m = Head(hMsgs[c])
    <2>1. hMsgs[c] \in Seq(Msg) /\ hMsgs[c] # <<>>
      BY <1>0, <1>1 DEF TypeCallback
    <2>2. Head(hMsgs[c]) \in Msg /\ offline[u] \in Seq(Msg)
      BY <1>0, <2>1 DEF TypeDb
    <2> QED  BY <1>1, <2>2, EntriesAppend
  <1>2. Entries(<<>>) = {}
    BY DEF Entries
  <1>3. \A c \in Conns : StoreOffline(c) => pc[c] = "storeOffline"
    BY DEF StoreOffline
  <1>4. \A c \in Conns : GroupEach(c, u) => pc[c] = "groupLoop"
    BY DEF GroupEach
  <1> QED  BY <1>1, <1>2, <1>3, <1>4, OfflineMoves DEF MsgPCs

\* Before the first statement has failed, what login has read stays all there is of what
\* is stored in turn, and what it has cleared stays clear of it.
LEMMA InboxReadStep ==
  ASSUME SharersShareLoop, ~MayInterrupt, ConnsInOrder, SessionsExclusive, SessionsAt,
         \A c \in Conns : OneMessage(c) /\ OwnMessages(c) /\ InboxRead(c), [Next]_vars,
         faults' = 0, NEW d \in Conns
  PROVE  InboxRead(d)'
  <1> USE DEF dbVars, svcVars, localVars, netVars, clientVars, histVars, deliveryVars
  <1>0. TypeOK /\ TypeDb /\ TypeCallback /\ TypeClient /\ TypeService
    BY DEF ConnsInOrder, TypeOK
  <1>a. \A c \in Conns, u \in Users : Holds(c, u) => userConn[u] = c
    BY DEF SessionsAt, HoldersHaveEntry
  <1>b. d # NoConn
    BY ConstantsAssumption DEF ConstantsAssumption
  \* while d has the session of u, nothing comes in turn
  <1>c. ASSUME NEW u \in Users, Holds(d, u), NEW m \in Entries(offline'[u]), InTurn(u, m)
        PROVE  m \in Entries(offline[u])
    <2>1. userConn[u] = d
      BY <1>a, <1>c
    <2>2. ASSUME NEW c \in Conns, pc[c] = "storeOffline", hUser[c] = u, m = Head(hMsgs[c])
          PROVE  FALSE
      BY <1>b, <1>c, <2>1, <2>2 DEF InboxRead
    <2> QED  BY <1>0, <1>b, <1>c, <2>1, <2>2, WhoStores
  <1>d. \A u \in Users : hUser[d] = u /\ pc[d] \in HoldingPCs => Holds(d, u)
    BY DEF Holds
  <1>e. pc[d] \in LoginPCs \cup {"storeOffline"} => hUser[d] \in Users
    BY <1>0 DEF TypeCallback, UserPCs, LoginPCs
  \* nobody else deletes
  <1>c2. ASSUME NEW u \in Users, Holds(d, u), NEW m \in Entries(offline[u])
         PROVE  m \in Entries(offline'[u]) \/ LoginClearOffline(d)
    <2>1. userConn[u] = d
      BY <1>a, <1>c2
    <2>2. \A c \in Conns : LoginClearOffline(c) /\ hUser[c] = u => c = d
      BY <1>a, <1>c2, <2>1 DEF LoginClearOffline, Holds, HoldingPCs
    <2>3. ASSUME NEW c \in Conns, StoreOffline(c) \/ GroupEach(c, u),
                 offline'[u] = Append(offline[u], Head(hMsgs[c]))
          PROVE  m \in Entries(offline'[u])
      <3>1. hMsgs[c] \in Seq(Msg) /\ hMsgs[c] # <<>>
        BY <1>0, <2>3 DEF StoreOffline, GroupEach, TypeCallback, MsgPCs
      <3>2. Head(hMsgs[c]) \in Msg /\ offline[u] \in Seq(Msg)
        BY <1>0, <3>1 DEF TypeDb
      <3> QED  BY <1>c2, <2>3, <3>2, EntriesAppend
    <2> QED  BY <1>0, <1>c2, <2>2, <2>3, OfflineMoves
  <1>f. ASSUME LoginReadOffline(d)
        PROVE  /\ UNCHANGED <<offline, hUser>> /\ pc[d] \in LoginPCs
               /\ Entries(hMsgs'[d]) = Entries(offline[hUser[d]])
               /\ pc'[d] = "reply" => hMsgs'[d] = <<>>
    <2>1. PICK msg \in Orders(offline[hUser[d]]) :
            /\ hMsgs' = [hMsgs EXCEPT ![d] = msg]
            /\ Goto(d, IF msg = <<>> THEN "reply" ELSE "clearOffline")
      BY <1>0, <1>f, DbCallWorks DEF LoginReadOffline, OfflineQuery, TypeDb
    <2>2. UNCHANGED <<offline, hUser>> /\ pc[d] \in LoginPCs /\ hUser[d] \in Users
      BY <1>e, <1>f DEF LoginReadOffline, LoginPCs
    <2>3. offline[hUser[d]] \in Seq(Msg)
      BY <1>0, <2>2 DEF TypeDb
    <2>4. Entries(msg) = Entries(offline[hUser[d]])
      BY <2>3, QueryReadsAll
    <2>5. hMsgs'[d] = msg /\ pc'[d] = (IF msg = <<>> THEN "reply" ELSE "clearOffline")
      BY <1>0, <2>1 DEF Goto, TypeCallback
    <2> QED  BY <2>2, <2>4, <2>5
  <1>g. LoginClearOffline(d) =>
          UNCHANGED hUser /\ pc[d] = "clearOffline" /\ pc'[d] = "reply" /\ offline'[hUser[d]] = <<>>
    <2>1. ASSUME LoginClearOffline(d) PROVE offline' = [offline EXCEPT ![hUser[d]] = <<>>]
      BY <1>0, <2>1, DbCallWorks DEF LoginClearOffline, OfflineRemove, TypeDb
    <2>2. LoginClearOffline(d) => hUser[d] \in Users
      BY <1>e DEF LoginClearOffline, LoginPCs
    <2>3. LoginClearOffline(d) => UNCHANGED hUser /\ pc[d] = "clearOffline" /\ Goto(d, "reply")
      BY DEF LoginClearOffline
    <2> QED  BY <1>0, <2>1, <2>2, <2>3 DEF Goto, TypeCallback, TypeDb
  <1>h. Entries(<<>>) = {}
    BY DEF Entries
  <1>1. CASE Crash
    BY <1>1 DEF Crash, Down, InboxRead
  <1>2. CASE ~Crash
    <2>0. ~Exit
      BY DEF SessionsExclusive, Exit
    <2>1. ASSUME pc'[d] = "clearOffline", NEW m \in Entries(offline'[hUser'[d]]),
                 InTurn(hUser'[d], m)
          PROVE  m \in Entries(hMsgs'[d])
      <3>1. CASE Same(d)
        <4>1. /\ pc[d] = "clearOffline" /\ hUser'[d] = hUser[d] /\ hMsgs'[d] = hMsgs[d]
              /\ hUser[d] \in Users
          BY <1>e, <2>1, <3>1 DEF Same, LoginPCs
        <4>2. Holds(d, hUser[d])
          BY <1>d, <4>1 DEF HoldingPCs
        <4>3. m \in Entries(offline[hUser[d]])
          BY <1>c, <2>1, <4>1, <4>2
        <4> QED  BY <2>1, <4>1, <4>3 DEF InboxRead, AllInTurnRead
      <3>2. CASE LoginReadOffline(d)
        BY <1>f, <2>1, <3>2
      <3> QED  BY <1>0, <1>2, <2>0, <2>1, <3>1, <3>2, CallbackComes
    <2>2. ASSUME pc'[d] = "reply", NEW m \in Entries(offline'[hUser'[d]])
          PROVE  ~InTurn(hUser'[d], m)
      <3>1. CASE Same(d)
        <4>1. pc[d] = "reply" /\ hUser'[d] = hUser[d] /\ hUser[d] \in Users
          BY <1>e, <2>2, <3>1 DEF Same, LoginPCs
        <4>2. Holds(d, hUser[d])
          BY <1>d, <4>1 DEF HoldingPCs
        <4>3. InTurn(hUser[d], m) => m \in Entries(offline[hUser[d]])
          BY <1>c, <2>2, <4>1, <4>2
        <4> QED  BY <4>1, <4>3 DEF InboxRead
      <3>2. CASE LoginReadOffline(d)
        BY <1>f, <1>h, <2>2, <3>2
      <3>3. CASE LoginClearOffline(d)
        BY <1>g, <1>h, <2>2, <3>3
      <3> QED  BY <1>0, <1>2, <2>0, <2>2, <3>1, <3>2, <3>3, CallbackComes
    <2>3. ASSUME client'[d] = "chatting", NEW m \in Entries(offline'[account'[d]])
          PROVE  ~InTurn(account'[d], m)
      <3>1. CASE client[d] = "chatting" /\ account'[d] = account[d]
        <4>1. account[d] \in Users /\ Holds(d, account[d])
          BY <1>0, <3>1 DEF TypeClient, Holds
        <4>2. InTurn(account[d], m) => m \in Entries(offline[account[d]])
          BY <1>c, <2>3, <3>1, <4>1
        <4> QED  BY <3>1, <4>2 DEF InboxRead
      <3>2. CASE LoginReply(d) /\ account'[d] = hUser[d]
        BY <2>3, <3>2 DEF LoginReply, InboxRead
      <3> QED  BY <1>0, <2>3, <3>1, <3>2, LoggedInByReply
    <2>4. ASSUME pc'[d] = "storeOffline", InTurn(hUser'[d], Head(hMsgs'[d]))
          PROVE  userConn'[hUser'[d]] = NoConn
      <3>1. CASE Same(d)
        <4>1. /\ hUser[d] \in Users /\ pc[d] = "storeOffline"
              /\ hUser'[d] = hUser[d] /\ hMsgs'[d] = hMsgs[d]
          BY <1>e, <2>4, <3>1 DEF Same
        <4>2. userConn[hUser[d]] = NoConn
          BY <2>4, <4>1 DEF InboxRead
        <4>3. ASSUME NEW c \in Conns, pc[c] \in LoginPCs, hUser[c] = hUser[d]
              PROVE  FALSE
          <5>1. Head(hMsgs[d]).kind = "chat" /\ Head(hMsgs[d]).from \in AccountsOf[d]
            BY <4>1 DEF OwnMessages, OwnInHand, MsgPCs
          <5>2. hUser[c] \in AccountsOf[c]
            BY <4>3 DEF ConnsInOrder, ActsForItself
          <5>3. LoopOf[c] = LoopOf[d]
            BY <2>4, <4>1, <4>3, <5>1, <5>2 DEF InTurn
          <5>4. c = d
            BY <4>1, <4>3, <5>3 DEF SessionsExclusive, OneCallback, LoginPCs
          <5> QED  BY <4>1, <4>3, <5>4 DEF LoginPCs
        <4> QED  BY <1>0, <4>1, <4>2, <4>3, MapMoves
      <3>2. CASE OneChat(d)
        <4>1. pc[d] = "idle" /\ UNCHANGED userConn
          BY <3>2 DEF OneChat, Handles, Ready, LoopFree
        <4>2. PICK to : userConn[to] = NoConn /\ hUser' = [hUser EXCEPT ![d] = to]
          BY <2>4, <3>2, <4>1 DEF OneChat
        <4> QED  BY <1>0, <4>1, <4>2 DEF TypeCallback
      <3> QED  BY <1>0, <1>2, <2>0, <2>4, <3>1, <3>2, CallbackComes
    <2> QED  BY <2>1, <2>2, <2>3, <2>4 DEF InboxRead, AllInTurnRead
  <1> QED  BY <1>1, <1>2

\* Nothing has been read at the start.
LEMMA InboxesReadInit == Init => InboxesRead
  BY DEF Init, InboxesRead, OwnMessages, OwnInHand, OneMessage, InboxRead, MsgPCs

\* Every step keeps the inboxes of those who are logged in read.
LEMMA InboxesReadStep ==
  ASSUME SharersShareLoop, ~MayInterrupt, ConnsInOrder, SessionsExclusive, InboxesRead,
         [Next]_vars
  PROVE  InboxesRead'
  <1>1. \A c \in Conns : OneMessage(c)' /\ OwnMessages(c)'
    BY OneMessageStep, OwnMessagesStep DEF InboxesRead, ConnsInOrder
  <1>2. ASSUME faults' = 0, NEW c \in Conns PROVE InboxRead(c)'
    <2>1. faults = 0
      BY <1>2, NoFaultBefore DEF ConnsInOrder
    <2>2. SessionsAt /\ \A d \in Conns : OneMessage(d) /\ OwnMessages(d) /\ InboxRead(d)
      BY <2>1 DEF SessionsExclusive, InboxesRead
    <2> QED  BY <1>2, <2>2, InboxReadStep
  <1> QED  BY <1>1, <1>2 DEF InboxesRead

\* What the theorems of this section and the next have in common.
MessagesInOrder == ConnsInOrder /\ SessionsExclusive /\ InboxesRead

\* So it is at the start ...
LEMMA MessagesInOrderInit == Init => MessagesInOrder
  BY SessionsInit, SessionsExclusiveInit, InboxesReadInit DEF MessagesInOrder

\* ... and remains.
LEMMA MessagesInOrderStep ==
  ASSUME SharersShareLoop, ~MayInterrupt
  PROVE  MessagesInOrder /\ [Next]_vars => MessagesInOrder'
  BY ConnsInOrderStep, SessionsExclusiveStep, InboxesReadStep DEF MessagesInOrder

\* As long as no statement has failed, no message of a group, and no private message
\* whose handler runs in the recipient's event loop, waits in offlineMessage for a user
\* who is logged in: login reads and deletes what is stored only after emplace, and from
\* then on the handlers find the entry and forward.  Any commands are in use, in any
\* number of loops.
THEOREM InboxDrainedHolds ==
  ASSUME SharersShareLoop, ~MayInterrupt
  PROVE  Spec => [](faults = 0 => InboxDrained)
  <1>1. MessagesInOrder => (faults = 0 => InboxDrained)
    BY DEF MessagesInOrder, InboxesRead, InboxRead, InboxDrained
  <1> QED  BY <1>1, MessagesInOrderInit, MessagesInOrderStep, PTL DEF Spec

\* Where no statement may fail, login deletes from offlineMessage no such message that it
\* has not read, though it reads and deletes with two statements between which other
\* handlers run, of any command and in any loop: whoever takes turns with login does not
\* store for a user who has an entry.
THEOREM DeletesWhatItReadHolds ==
  ASSUME SharersShareLoop, ~MayInterrupt, MaxFaults = 0
  PROVE  Spec => DeletesWhatItRead
  <1> DEFINE Inv == MessagesInOrder /\ faults = 0
             Deletes == \A c \in Conns, u \in Users :
                          pc[c] = "clearOffline" /\ pc'[c] = "reply" /\ hUser[c] = u
                            => \A m \in DeletesUnread(u, hMsgs[c]) : ~InTurn(u, m)
  <1>1. Init => Inv
    BY MessagesInOrderInit DEF Init
  <1>2. Inv /\ [Next]_vars => Inv'
    BY MessagesInOrderStep, FaultsCount
  <1>3. Inv => Deletes
    BY DEF MessagesInOrder, InboxesRead, InboxRead, AllInTurnRead, DeletesUnread
  <1> HIDE DEF Inv
  <1>4. Inv /\ [Next]_vars => [Deletes]_vars
    BY <1>3
  <1> QED  BY <1>1, <1>2, <1>4, PTL DEF Spec, DeletesWhatItRead

-----------------------------------------------------------------------------
(***************************************************************************)
(* No message is lost.                                                     *)
(***************************************************************************)

\* Where a message m on its way to u can be.
InGroup(c, u, m) ==
  pc[c] \in {"groupLock", "groupLoop"} /\ hTodo[c][u] > 0 /\ m \in Entries(hMsgs[c])
InHand(c, u, m) ==
  /\ pc[c] \in {"storeOffline", "clearOffline", "reply"}
  /\ hUser[c] = u
  /\ m \in Entries(hMsgs[c])
InQueue(c, u, m) == m \in Entries(queued[c][u])

Kept(u, m) ==
  \/ \E c \in Conns : InGroup(c, u, m) \/ InHand(c, u, m) \/ InQueue(c, u, m)
  \/ m \in Entries(offline[u])
  \/ m \in Entries(received[u])
  \/ m \in Entries(fetched[u])
  \/ <<u, m>> \in dropped

\* A pair is one of those of a sequence exactly when the message is in it.
LEMMA PairsEntries ==
  ASSUME NEW u, NEW v, NEW m, NEW ms
  PROVE  <<u, m>> \in Pairs(v, ms) <=> u = v /\ m \in Entries(ms)
  BY DEF Pairs, Entries

\* That is what the property says.
LEMMA KeptMeans ==
  ASSUME TypeOK
  PROVE  NothingLost <=>
           \A u \in Users, m \in Msg : <<u, m>> \in owed /\ InTurn(u, m) => Kept(u, m)
  <1>0. TypeHistory /\ TypeCallback
    BY DEF TypeOK
  <1>1. ASSUME NEW u \in Users, NEW m \in Msg
        PROVE  Kept(u, m) <=>
                 <<u, m>> \in InHands \cup Queued \cup Stored \cup Displayed \cup Fetched
                              \cup dropped
    <2>1. <<u, m>> \in InHands <=> \E c \in Conns : InGroup(c, u, m) \/ InHand(c, u, m)
      <3> DEFINE hands(c) ==
            CASE pc[c] \in {"groupLock", "groupLoop"} ->
                   {v \in Users : hTodo[c][v] > 0} \X Entries(hMsgs[c])
              [] pc[c] \in {"storeOffline", "clearOffline", "reply"} ->
                   {hUser[c]} \X Entries(hMsgs[c])
              [] OTHER -> {}
      <3>1. <<u, m>> \in InHands <=> \E c \in Conns : <<u, m>> \in hands(c)
        BY DEF InHands
      <3>2. ASSUME NEW c \in Conns
            PROVE  <<u, m>> \in hands(c) <=> InGroup(c, u, m) \/ InHand(c, u, m)
        BY DEF InGroup, InHand
      <3> HIDE DEF hands
      <3> QED  BY <3>1, <3>2
    <2>2. <<u, m>> \in Queued <=> \E c \in Conns : InQueue(c, u, m)
      BY PairsEntries DEF Queued, InQueue
    <2>3. <<u, m>> \in Stored <=> m \in Entries(offline[u])
      BY PairsEntries DEF Stored
    <2>4. <<u, m>> \in Displayed <=> m \in Entries(received[u])
      BY PairsEntries DEF Displayed
    <2>5. <<u, m>> \in Fetched <=> m \in Entries(fetched[u])
      BY PairsEntries DEF Fetched
    <2> QED  BY <2>1, <2>2, <2>3, <2>4, <2>5 DEF Kept
  <1>2. \A p \in owed : \E u \in Users, m \in Msg : p = <<u, m>>
    BY <1>0 DEF TypeHistory
  <1> QED  BY <1>1, <1>2 DEF NothingLost

\* Putting two sequences behind each other.
LEMMA EntriesConcat ==
  ASSUME NEW S, NEW ms \in Seq(S), NEW ns \in Seq(S)
  PROVE  Entries(ms \o ns) = Entries(ms) \cup Entries(ns)
  <1>1. ASSUME NEW e \in Entries(ms) PROVE e \in Entries(ms \o ns)
    <2>1. PICK i \in DOMAIN ms : ms[i] = e
      BY <1>1 DEF Entries
    <2>2. i \in DOMAIN (ms \o ns) /\ (ms \o ns)[i] = e
      BY <2>1
    <2> QED  BY <2>2 DEF Entries
  <1>2. ASSUME NEW e \in Entries(ns) PROVE e \in Entries(ms \o ns)
    <2>1. PICK i \in DOMAIN ns : ns[i] = e
      BY <1>2 DEF Entries
    <2>2. Len(ms) + i \in DOMAIN (ms \o ns) /\ (ms \o ns)[Len(ms) + i] = e
      BY <2>1
    <2> QED  BY <2>2 DEF Entries
  <1>3. ASSUME NEW e \in Entries(ms \o ns) PROVE e \in Entries(ms) \cup Entries(ns)
    <2>1. PICK i \in DOMAIN (ms \o ns) : (ms \o ns)[i] = e
      BY <1>3 DEF Entries
    <2>2. \/ i \in DOMAIN ms /\ ms[i] = e
          \/ i - Len(ms) \in DOMAIN ns /\ ns[i - Len(ms)] = e
      BY <2>1
    <2> QED  BY <2>2 DEF Entries
  <1> QED  BY <1>1, <1>2, <1>3

\* A handler with one message has no other than the first.
LEMMA EntriesOfOne ==
  ASSUME NEW S, NEW ms \in Seq(S), Len(ms) = 1
  PROVE  Entries(ms) = {Head(ms)} /\ Head(ms) \in S
  BY DEF Entries

\* Entries of a sequence of one.
LEMMA EntriesSingle ==
  ASSUME NEW m
  PROVE  Entries(<<m>>) = {m}
  BY DEF Entries

\* Display takes the message to the screen, or drops it.
LEMMA DisplayKeeps ==
  ASSUME TypeHistory, NEW c \in Conns, NEW v \in Users, NEW n \in Msg, Display(c, v, n),
         NEW u \in Users, NEW m
  PROVE  /\ m \in Entries(received[u]) => m \in Entries(received'[u])
         /\ dropped \subseteq dropped'
         /\ u = v /\ m = n => m \in Entries(received'[u]) \/ <<u, m>> \in dropped'
  <1>1. CASE client[c] = "gone"
    BY <1>1 DEF Display
  <1>2. CASE client[c] # "gone"
    <2>1. UNCHANGED dropped /\ received' = [received EXCEPT ![v] = Append(@, n)]
      BY <1>2 DEF Display
    <2>2. received'[u] = IF u = v THEN Append(received[u], n) ELSE received[u]
      BY <2>1 DEF TypeHistory
    <2>3. Entries(Append(received[u], n)) = Entries(received[u]) \cup {n}
      BY EntriesAppend DEF TypeHistory
    <2> QED  BY <2>1, <2>2, <2>3
  <1> QED  BY <1>1, <1>2

\* Forward brings the message to the screen or into the queue of the recipient's loop,
\* or drops it.
LEMMA ForwardKeeps ==
  ASSUME TypeHistory, TypeNet, TypeService, NEW c \in Conns, NEW v \in Users,
         userConn[v] # NoConn, NEW n \in Msg, Forward(c, v, n), NEW u \in Users, NEW m
  PROVE  /\ m \in Entries(received[u]) => m \in Entries(received'[u])
         /\ dropped \subseteq dropped'
         /\ \A d \in Conns : InQueue(d, u, m) => InQueue(d, u, m)'
         /\ u = v /\ m = n => \/ m \in Entries(received'[u])
                              \/ <<u, m>> \in dropped'
                              \/ \E d \in Conns : InQueue(d, u, m)'
  <1> DEFINE d == userConn[v]
  <1>0. d \in Conns
    BY DEF TypeService
  <1>1. CASE conn[d] # "up"
    BY <1>1 DEF Forward, InQueue
  <1>2. CASE conn[d] = "up" /\ LoopOf[d] = LoopOf[c]
    <2>1. Display(d, v, n) /\ UNCHANGED queued
      BY <1>2 DEF Forward
    <2> QED  BY <1>0, <2>1, DisplayKeeps DEF InQueue
  <1>3. CASE conn[d] = "up" /\ LoopOf[d] # LoopOf[c]
    <2>1. /\ queued' = [queued EXCEPT ![d][v] = Append(@, n)]
          /\ UNCHANGED <<received, dropped>>
      BY <1>3 DEF Forward
    <2>2. \A e \in Conns : queued'[e][u] = IF e = d /\ u = v THEN Append(queued[e][u], n)
                                                            ELSE queued[e][u]
      BY <1>0, <2>1 DEF TypeNet
    <2>3. \A e \in Conns : Entries(Append(queued[e][u], n)) = Entries(queued[e][u]) \cup {n}
      BY EntriesAppend DEF TypeNet
    <2> HIDE DEF d
    <2> QED  BY <1>0, <2>1, <2>2, <2>3 DEF InQueue
  <1> QED  BY <1>1, <1>2, <1>3

\* What oneChat does with the request.
LEMMA OneChatMoves ==
  ASSUME TypeOK, NEW c \in Conns, OneChat(c)
  PROVE  \E to \in Users, n \in Msg :
           /\ n = Head(req[c]).msg
           /\ owed' = owed \cup {<<to, n>>}
           /\ UNCHANGED offline
           /\ \/ /\ userConn[to] # NoConn /\ Forward(c, to, n)
                 /\ UNCHANGED <<pc, hUser, hMsgs, hTodo>>
              \/ /\ UNCHANGED <<queued, received, dropped, hTodo>>
                 /\ pc' = [pc EXCEPT ![c] = "storeOffline"]
                 /\ hUser' = [hUser EXCEPT ![c] = to]
                 /\ hMsgs' = [hMsgs EXCEPT ![c] = <<n>>]
  <1>1. Head(req[c]) \in Request /\ Head(req[c]).type = "ONE_CHAT_MSG"
    BY HandlesTypes DEF OneChat, TypeOK
  <1>2. Head(req[c]).to \in Users /\ Head(req[c]).msg \in Msg
    BY <1>1, RequestTypes
  <1> QED  BY <1>2 DEF OneChat, Goto, dbVars

\* What groupChat does with a member.
LEMMA GroupEachMoves ==
  ASSUME TypeOK, NEW c \in Conns, OneMessage(c), NEW v \in Users, GroupEach(c, v)
  PROVE  \E n \in Msg :
           /\ Entries(hMsgs[c]) = {n}
           /\ \/ /\ userConn[v] # NoConn /\ Forward(c, v, n)
                 /\ UNCHANGED offline
              \/ /\ userConn[v] = NoConn
                 /\ UNCHANGED <<queued, received, dropped>>
                 /\ \E ok \in BOOLEAN :
                      /\ DbCall(ok)
                      /\ offline' = IF ok THEN OfflineInsert(offline, v, n) ELSE offline
           /\ hTodo' = [hTodo EXCEPT ![c][v] = @ - 1]
           /\ UNCHANGED <<pc, hUser, hMsgs>>
  <1>1. pc[c] = "groupLoop"
    BY DEF GroupEach
  <1>2. hMsgs[c] \in Seq(Msg) /\ Len(hMsgs[c]) = 1
    BY <1>1 DEF TypeOK, TypeCallback, OneMessage, MsgPCs
  <1>3. Entries(hMsgs[c]) = {Head(hMsgs[c])} /\ Head(hMsgs[c]) \in Msg
    BY <1>2, EntriesOfOne
  <1> QED  BY <1>3 DEF GroupEach

\* What has been displayed, fetched, or dropped, stays so.
LEMMA ShownStays ==
  ASSUME TypeOK, \A c \in Conns : OneMessage(c), [Next]_vars, NEW u \in Users, NEW m
  PROVE  /\ m \in Entries(received[u]) => m \in Entries(received'[u])
         /\ m \in Entries(fetched[u]) => m \in Entries(fetched'[u])
         /\ dropped \subseteq dropped'
  <1> USE DEF dbVars, svcVars, localVars, netVars, clientVars, histVars, deliveryVars
  <1>0. TypeHistory /\ TypeNet /\ TypeService /\ TypeCallback
    BY DEF TypeOK
  <1> DEFINE stays == /\ m \in Entries(received[u]) => m \in Entries(received'[u])
                      /\ m \in Entries(fetched[u]) => m \in Entries(fetched'[u])
                      /\ dropped \subseteq dropped'
  <1>1. ASSUME UNCHANGED <<received, fetched, dropped>> PROVE stays
    BY <1>1
  <1>2. ASSUME NEW c \in Conns, OneChat(c) PROVE stays
    <2>1. PICK to \in Users, n \in Msg :
            \/ userConn[to] # NoConn /\ Forward(c, to, n)
            \/ UNCHANGED <<received, dropped>>
      BY <1>2, OneChatMoves
    <2>2. UNCHANGED fetched
      BY <1>2 DEF OneChat
    <2> QED  BY <1>0, <2>1, <2>2, ForwardKeeps
  <1>3. ASSUME NEW c \in Conns, NEW v \in Users, GroupEach(c, v) PROVE stays
    <2>1. PICK n \in Msg :
            \/ userConn[v] # NoConn /\ Forward(c, v, n)
            \/ UNCHANGED <<received, dropped>>
      BY <1>3, GroupEachMoves
    <2>2. UNCHANGED fetched
      BY <1>3 DEF GroupEach
    <2> QED  BY <1>0, <2>1, <2>2, ForwardKeeps
  <1>4. ASSUME NEW c \in Conns, LoginReply(c) PROVE stays
    <2>1. /\ UNCHANGED received
          /\ dropped \subseteq dropped'
          /\ UNCHANGED fetched \/ fetched' = [fetched EXCEPT ![hUser[c]] = @ \o hMsgs[c]]
      BY <1>4 DEF LoginReply
    <2>2. Entries(fetched[u] \o hMsgs[c]) = Entries(fetched[u]) \cup Entries(hMsgs[c])
      BY <1>0, EntriesConcat DEF TypeHistory, TypeCallback
    <2>3. fetched'[u] \in {fetched[u], fetched[u] \o hMsgs[c]}
      BY <1>0, <2>1 DEF TypeHistory
    <2> QED  BY <2>1, <2>2, <2>3
  <1>5. ASSUME NEW c \in Conns, RunPending(c) PROVE stays
    <2>1. Entries(received[u] \o queued[c][u]) = Entries(received[u]) \cup Entries(queued[c][u])
      BY <1>0, EntriesConcat DEF TypeHistory, TypeNet
    <2> QED  BY <1>5, <2>1 DEF RunPending
  <1>6. ASSUME NEW c \in Conns, CloseErase(c) PROVE stays
    BY <1>6 DEF CloseErase
  <1>7. ASSUME NEW c \in Conns, Client(c) PROVE UNCHANGED <<received, fetched, dropped>>
    BY <1>7 DEF Client, Connect, SendLogin, SendLogout, SendOneChat, SendGroupChat,
                SendAddGroup, Quit
  <1>8. ASSUME NEW c \in Conns, Login(c), ~LoginReply(c) PROVE UNCHANGED <<received, fetched, dropped>>
    BY <1>8 DEF Login, LoginQuery, LoginRefuse, LoginReject, LoginEmplace, LoginSetOnline,
                LoginReadOffline, LoginClearOffline
  <1>9. ASSUME NEW c \in Conns,
               \/ LogoutErase(c) \/ LogoutUpdate(c) \/ CloseUpdate(c)
               \/ StoreOffline(c) \/ GroupQuery(c) \/ GroupLock(c) \/ GroupUnlock(c) \/ AddGroup(c)
        PROVE  UNCHANGED <<received, fetched, dropped>>
    BY <1>9 DEF LogoutErase, LogoutUpdate, CloseUpdate, StoreOffline, GroupQuery, GroupLock,
                GroupUnlock, AddGroup
  <1>10. ASSUME Process \/ UNCHANGED vars PROVE UNCHANGED <<received, fetched, dropped>>
    BY <1>10 DEF Process, Interrupt, Exit, Crash, Restart, Down, vars
  <1> HIDE DEF stays
  <1>11. stays
    BY <1>1, <1>2, <1>3, <1>4, <1>5, <1>6, <1>7, <1>8, <1>9, <1>10
    DEF Next, Loop, Leave, Chat
  <1> QED  BY <1>11 DEF stays

\* What is in a send queue stays there until the loop writes it or the connection goes.
LEMMA QueueStays ==
  ASSUME TypeOK, \A c \in Conns : OneMessage(c), [Next]_vars, ~Exit, ~Crash,
         NEW u \in Users, NEW m, NEW d \in Conns, InQueue(d, u, m)
  PROVE  InQueue(d, u, m)' \/ m \in Entries(received'[u]) \/ <<u, m>> \in dropped'
  <1> USE DEF dbVars, svcVars, localVars, netVars, clientVars, histVars, deliveryVars
  <1>0. TypeHistory /\ TypeNet /\ TypeService /\ TypeCallback
    BY DEF TypeOK
  <1>1. ASSUME UNCHANGED queued PROVE InQueue(d, u, m)'
    BY <1>1 DEF InQueue
  <1>2. ASSUME NEW c \in Conns, OneChat(c) PROVE InQueue(d, u, m)'
    <2>1. PICK to \in Users, n \in Msg :
            \/ userConn[to] # NoConn /\ Forward(c, to, n)
            \/ UNCHANGED queued
      BY <1>2, OneChatMoves
    <2> QED  BY <1>0, <1>1, <2>1, ForwardKeeps
  <1>3. ASSUME NEW c \in Conns, NEW v \in Users, GroupEach(c, v) PROVE InQueue(d, u, m)'
    <2>1. PICK n \in Msg :
            \/ userConn[v] # NoConn /\ Forward(c, v, n)
            \/ UNCHANGED queued
      BY <1>3, GroupEachMoves
    <2> QED  BY <1>0, <1>1, <2>1, ForwardKeeps
  <1>4. ASSUME NEW c \in Conns, c # d, RunPending(c) \/ CloseErase(c) PROVE InQueue(d, u, m)'
    <2>1. queued'[d] = queued[d]
      BY <1>0, <1>4 DEF RunPending, CloseErase, TypeNet
    <2> QED  BY <2>1 DEF InQueue
  <1>5. ASSUME RunPending(d) PROVE m \in Entries(received'[u]) \/ <<u, m>> \in dropped'
    <2>1. Entries(received[u] \o queued[d][u]) = Entries(received[u]) \cup Entries(queued[d][u])
      BY <1>0, EntriesConcat DEF TypeHistory, TypeNet
    <2>2. <<u, m>> \in UNION {Pairs(v, queued[d][v]) : v \in Users}
      BY PairsEntries DEF InQueue
    <2> QED  BY <1>5, <2>1, <2>2 DEF RunPending, InQueue
  <1>6. ASSUME CloseErase(d) PROVE <<u, m>> \in dropped'
    <2>1. <<u, m>> \in UNION {Pairs(v, queued[d][v]) : v \in Users}
      BY PairsEntries DEF InQueue
    <2> QED  BY <1>6, <2>1 DEF CloseErase
  <1>7. ASSUME NEW c \in Conns, Client(c) \/ Login(c) PROVE UNCHANGED queued
    BY <1>7 DEF Client, Connect, SendLogin, SendLogout, SendOneChat, SendGroupChat,
                SendAddGroup, Quit, Login, LoginQuery, LoginRefuse, LoginReject, LoginEmplace,
                LoginSetOnline, LoginReadOffline, LoginClearOffline, LoginReply
  <1>8. ASSUME NEW c \in Conns,
               \/ LogoutErase(c) \/ LogoutUpdate(c) \/ CloseUpdate(c)
               \/ StoreOffline(c) \/ GroupQuery(c) \/ GroupLock(c) \/ GroupUnlock(c) \/ AddGroup(c)
        PROVE  UNCHANGED queued
    BY <1>8 DEF LogoutErase, LogoutUpdate, CloseUpdate, StoreOffline, GroupQuery, GroupLock,
                GroupUnlock, AddGroup
  <1>9. ASSUME Interrupt \/ Restart \/ UNCHANGED vars PROVE UNCHANGED queued
    BY <1>9 DEF Interrupt, Restart, vars
  <1> QED
    BY <1>1, <1>2, <1>3, <1>4, <1>5, <1>6, <1>7, <1>8, <1>9 DEF Next, Loop, Leave, Chat, Process

\* A message that is stored is there, and those before it.
LEMMA InsertKeeps ==
  ASSUME TypeDb, NEW v \in Users, NEW n \in Msg, NEW ok \in BOOLEAN, DbCall(ok), faults' = 0,
         offline' = (IF ok THEN OfflineInsert(offline, v, n) ELSE offline)
  PROVE  n \in Entries(offline'[v])
  <1>1. ok
    BY DbCallWorks DEF TypeDb
  <1>2. offline' = [offline EXCEPT ![v] = Append(@, n)]
    BY <1>1 DEF OfflineInsert
  <1>3. offline \in [Users -> Seq(Msg)]
    BY DEF TypeDb
  <1>4. offline'[v] = Append(offline[v], n)
    BY <1>2, <1>3
  <1>5. Entries(Append(offline[v], n)) = Entries(offline[v]) \cup {n}
    BY <1>3, EntriesAppend
  <1> QED  BY <1>4, <1>5

\* Before the first statement has failed, and while the server is up, no step loses a
\* message: where it leaves one place it comes to another.
LEMMA KeptStep ==
  ASSUME ConnsInOrder, \A c \in Conns : OneMessage(c) /\ InboxRead(c), [Next]_vars, ~Exit, ~Crash,
         faults' = 0, NEW u \in Users, NEW m \in Msg, InTurn(u, m), Kept(u, m)
  PROVE  Kept(u, m)'
  <1> USE DEF dbVars, svcVars, localVars, netVars, clientVars, histVars, deliveryVars
  <1>0. TypeOK /\ TypeHistory /\ TypeNet /\ TypeService /\ TypeCallback /\ TypeDb
    BY DEF ConnsInOrder, TypeOK
  <1>a. ASSUME NEW d \in Conns, InGroup(d, u, m)' \/ InHand(d, u, m)' \/ InQueue(d, u, m)'
        PROVE  Kept(u, m)'
    BY <1>a DEF Kept
  <1>b. ASSUME \/ m \in Entries(received'[u]) \/ m \in Entries(fetched'[u])
               \/ <<u, m>> \in dropped' \/ m \in Entries(offline'[u])
        PROVE  Kept(u, m)'
    BY <1>b DEF Kept
  <1>1. CASE m \in Entries(received[u]) \/ m \in Entries(fetched[u]) \/ <<u, m>> \in dropped
    BY <1>0, <1>1, <1>b, ShownStays
  <1>2. CASE \E d \in Conns : InQueue(d, u, m)
    BY <1>0, <1>2, <1>a, <1>b, QueueStays
  <1>3. CASE m \in Entries(offline[u])
    <2>1. CASE offline'[u] = offline[u]
      BY <1>3, <1>b, <2>1
    <2>2. CASE \E c \in Conns :
                 /\ StoreOffline(c)
                 /\ offline'[u] = Append(offline[u], Head(hMsgs[c]))
      <3>1. PICK c \in Conns : pc[c] = "storeOffline" /\ offline'[u] = Append(offline[u], Head(hMsgs[c]))
        BY <2>2 DEF StoreOffline
      <3>2. hMsgs[c] \in Seq(Msg) /\ hMsgs[c] # <<>>
        BY <1>0, <3>1 DEF TypeCallback, MsgPCs
      <3>3. Head(hMsgs[c]) \in Msg
        BY <3>2
      <3> QED  BY <1>0, <1>3, <1>b, <3>1, <3>3, EntriesAppend DEF TypeDb
    <2>3. CASE \E c \in Conns :
                 /\ GroupEach(c, u)
                 /\ offline'[u] = Append(offline[u], Head(hMsgs[c]))
      <3>1. PICK c \in Conns : pc[c] = "groupLoop" /\ offline'[u] = Append(offline[u], Head(hMsgs[c]))
        BY <2>3 DEF GroupEach
      <3>2. hMsgs[c] \in Seq(Msg) /\ hMsgs[c] # <<>>
        BY <1>0, <3>1 DEF TypeCallback, MsgPCs
      <3>3. Head(hMsgs[c]) \in Msg
        BY <3>2
      <3> QED  BY <1>0, <1>3, <1>b, <3>1, <3>3, EntriesAppend DEF TypeDb
    <2>4. CASE \E c \in Conns : LoginClearOffline(c) /\ hUser[c] = u
      <3>1. PICK c \in Conns : LoginClearOffline(c) /\ hUser[c] = u
        BY <2>4
      <3>2. UNCHANGED <<hMsgs, hUser>> /\ pc' = [pc EXCEPT ![c] = "reply"]
        BY <3>1 DEF LoginClearOffline, Goto
      <3>3. m \in Entries(hMsgs[c])
        BY <1>3, <3>1 DEF LoginClearOffline, InboxRead, AllInTurnRead
      <3>4. InHand(c, u, m)'
        BY <1>0, <3>1, <3>2, <3>3 DEF InHand, TypeCallback
      <3> QED  BY <1>a, <3>4
    <2> QED  BY <1>0, <2>1, <2>2, <2>3, <2>4, OfflineMoves
  <1>4. ASSUME NEW d \in Conns, InHand(d, u, m) PROVE Kept(u, m)'
    <2>1. CASE Same(d)
      BY <1>4, <1>a, <2>1 DEF Same, InHand
    <2>2. CASE StoreOffline(d)
      <3>1. pc[d] = "storeOffline" /\ hUser[d] = u /\ m \in Entries(hMsgs[d])
        BY <1>4, <2>2 DEF StoreOffline, InHand
      <3>2. hMsgs[d] \in Seq(Msg) /\ Len(hMsgs[d]) = 1
        BY <1>0, <3>1 DEF TypeCallback, OneMessage, MsgPCs
      <3>3. m = Head(hMsgs[d])
        BY <3>1, <3>2, EntriesOfOne
      <3>4. m \in Entries(offline'[u])
        BY <1>0, <2>2, <3>1, <3>3, InsertKeeps DEF StoreOffline
      <3> QED  BY <1>b, <3>4
    <2>3. CASE LoginClearOffline(d)
      <3>1. UNCHANGED <<hMsgs, hUser>> /\ pc' = [pc EXCEPT ![d] = "reply"]
        BY <2>3 DEF LoginClearOffline, Goto
      <3> QED  BY <1>0, <1>4, <1>a, <3>1 DEF InHand, TypeCallback
    <2>4. CASE LoginReply(d)
      <3>1. hUser[d] = u /\ m \in Entries(hMsgs[d])
        BY <1>4 DEF InHand
      <3>2. CASE dropped' = dropped \cup Pairs(u, hMsgs[d])
        BY <1>b, <3>1, <3>2, PairsEntries
      <3>3. CASE fetched' = [fetched EXCEPT ![u] = @ \o hMsgs[d]]
        <4>1. fetched'[u] = fetched[u] \o hMsgs[d]
          BY <1>0, <3>3 DEF TypeHistory
        <4> QED  BY <1>0, <1>b, <3>1, <4>1, EntriesConcat DEF TypeHistory, TypeCallback
      <3> QED  BY <2>4, <3>1, <3>2, <3>3 DEF LoginReply
    <2> QED  BY <1>0, <1>4, <2>1, <2>2, <2>3, <2>4, CallbackGoesOn DEF InHand
  <1>5. ASSUME NEW d \in Conns, InGroup(d, u, m) PROVE Kept(u, m)'
    <2>1. CASE Same(d)
      BY <1>5, <1>a, <2>1 DEF Same, InGroup
    <2>2. CASE GroupLock(d)
      <3>1. UNCHANGED localVars /\ pc' = [pc EXCEPT ![d] = "groupLoop"]
        BY <2>2 DEF GroupLock, Goto
      <3> QED  BY <1>0, <1>5, <1>a, <3>1 DEF InGroup, TypeCallback
    <2>3. ASSUME NEW v \in Users, GroupEach(d, v) PROVE Kept(u, m)'
      <3>1. PICK n \in Msg :
           /\ Entries(hMsgs[d]) = {n}
           /\ \/ /\ userConn[v] # NoConn /\ Forward(d, v, n)
                 /\ UNCHANGED offline
              \/ /\ UNCHANGED <<queued, received, dropped>>
                 /\ \E ok \in BOOLEAN :
                      /\ DbCall(ok)
                      /\ offline' = IF ok THEN OfflineInsert(offline, v, n) ELSE offline
           /\ hTodo' = [hTodo EXCEPT ![d][v] = @ - 1]
           /\ UNCHANGED <<pc, hUser, hMsgs>>
        BY <1>0, <2>3, GroupEachMoves
      <3>2. CASE v # u
        BY <1>0, <1>5, <1>a, <3>1, <3>2 DEF InGroup, TypeCallback
      <3>3. CASE v = u
        <4>1. m = n
          BY <1>5, <3>1 DEF InGroup
        <4>2. CASE userConn[v] # NoConn /\ Forward(d, v, n)
          BY <1>0, <1>a, <1>b, <3>3, <4>1, <4>2, ForwardKeeps
        <4>3. CASE \E ok \in BOOLEAN :
                     /\ DbCall(ok)
                     /\ offline' = IF ok THEN OfflineInsert(offline, v, n) ELSE offline
          BY <1>0, <1>b, <3>3, <4>1, <4>3, InsertKeeps
        <4> QED  BY <3>1, <4>2, <4>3
      <3> QED  BY <3>2, <3>3
    <2>4. ~GroupUnlock(d)
      BY <1>5 DEF InGroup, GroupUnlock, NoRows
    <2> QED  BY <1>0, <1>5, <2>1, <2>2, <2>3, <2>4, CallbackGoesOn DEF InGroup
  <1> QED  BY <1>1, <1>2, <1>3, <1>4, <1>5 DEF Kept

\* What the server sets out to deliver is kept from the start.
LEMMA OwedIsKept ==
  ASSUME ConnsInOrder, [Next]_vars, faults' = 0,
         NEW u \in Users, NEW m \in Msg, <<u, m>> \in owed', <<u, m>> \notin owed
  PROVE  Kept(u, m)'
  <1> USE DEF dbVars, svcVars, localVars, netVars, clientVars, histVars, deliveryVars
  <1>0. TypeOK /\ TypeHistory /\ TypeNet /\ TypeService /\ TypeCallback /\ TypeDb
    BY DEF ConnsInOrder, TypeOK
  <1>1. ASSUME NEW c \in Conns, OneChat(c) PROVE Kept(u, m)'
    <2>1. PICK to \in Users, n \in Msg :
           /\ owed' = owed \cup {<<to, n>>}
           /\ UNCHANGED offline
           /\ \/ /\ userConn[to] # NoConn /\ Forward(c, to, n)
                 /\ UNCHANGED <<pc, hUser, hMsgs, hTodo>>
              \/ /\ UNCHANGED <<queued, received, dropped, hTodo>>
                 /\ pc' = [pc EXCEPT ![c] = "storeOffline"]
                 /\ hUser' = [hUser EXCEPT ![c] = to]
                 /\ hMsgs' = [hMsgs EXCEPT ![c] = <<n>>]
      BY <1>0, <1>1, OneChatMoves
    <2>2. u = to /\ m = n
      BY <2>1
    <2>3. CASE userConn[to] # NoConn /\ Forward(c, to, n)
      BY <1>0, <2>2, <2>3, ForwardKeeps DEF Kept
    <2>4. CASE /\ pc' = [pc EXCEPT ![c] = "storeOffline"]
               /\ hUser' = [hUser EXCEPT ![c] = to]
               /\ hMsgs' = [hMsgs EXCEPT ![c] = <<n>>]
      <3>1. InHand(c, u, m)'
        BY <1>0, <2>2, <2>4, EntriesSingle DEF InHand, TypeCallback
      <3> QED  BY <3>1 DEF Kept
    <2> QED  BY <2>1, <2>3, <2>4
  <1>2. ASSUME NEW c \in Conns, GroupQuery(c) PROVE Kept(u, m)'
    <2> DEFINE r == Head(req[c])
               users == QueryGroupUsers(members, r.user, r.group)
    <2>1. /\ owed' = owed \cup {<<v, r.msg>> : v \in {w \in Users : users[w] > 0}}
          /\ hMsgs' = [hMsgs EXCEPT ![c] = <<r.msg>>]
          /\ pc' = [pc EXCEPT ![c] = "groupLock"]
          /\ hTodo' = [hTodo EXCEPT ![c] = users]
      BY <1>0, <1>2, DbCallWorks DEF GroupQuery, Goto, TypeDb
    <2> HIDE DEF users
    <2>2. users[u] > 0 /\ m = r.msg
      BY <2>1
    <2> HIDE DEF r
    <2>3. InGroup(c, u, m)'
      BY <1>0, <2>1, <2>2, EntriesSingle DEF InGroup, TypeCallback
    <2> QED  BY <2>3 DEF Kept
  <1>3. ASSUME NEW c \in Conns, Client(c) \/ Login(c) PROVE UNCHANGED owed
    BY <1>3 DEF Client, Connect, SendLogin, SendLogout, SendOneChat, SendGroupChat,
                SendAddGroup, Quit, Login, LoginQuery, LoginRefuse, LoginReject, LoginEmplace,
                LoginSetOnline, LoginReadOffline, LoginClearOffline, LoginReply
  <1>4. ASSUME NEW c \in Conns,
               \/ Leave(c) \/ StoreOffline(c) \/ GroupLock(c) \/ (\E v \in Users : GroupEach(c, v))
               \/ GroupUnlock(c) \/ AddGroup(c) \/ RunPending(c)
        PROVE  UNCHANGED owed
    BY <1>4 DEF Leave, LogoutErase, LogoutUpdate, CloseErase, CloseUpdate, StoreOffline,
                GroupLock, GroupEach, GroupUnlock, AddGroup, RunPending
  <1>5. ASSUME Process \/ UNCHANGED vars PROVE UNCHANGED owed
    BY <1>5 DEF Process, Interrupt, Exit, Crash, Restart, Down, vars
  <1> QED  BY <1>1, <1>2, <1>3, <1>4, <1>5 DEF Next, Loop, Chat

\* As long as no statement has failed and the server has neither crashed nor been
\* interrupted, no message that is stored in turn with the recipient's logins is lost:
\* wherever the recipient is in logging in or out, it is under way, stored, forwarded,
\* sent with the answer to a login, or has gone to a client that had just left.
THEOREM NothingLostHolds ==
  ASSUME SharersShareLoop, ~MayInterrupt
  PROVE  Spec => [](faults = 0 /\ crashes = 0 => NothingLost)
  <1> DEFINE AllKept == \A u \in Users, m \in Msg :
                          <<u, m>> \in owed /\ InTurn(u, m) => Kept(u, m)
             Inv == MessagesInOrder /\ (faults = 0 /\ crashes = 0 => AllKept)
  <1>1. Init => Inv
    BY MessagesInOrderInit DEF Init
  <1>2. Inv /\ [Next]_vars => Inv'
    <2> SUFFICES ASSUME Inv, [Next]_vars PROVE Inv'
      OBVIOUS
    <2>1. MessagesInOrder'
      BY MessagesInOrderStep
    <2>2. ASSUME faults' = 0, crashes' = 0 PROVE AllKept'
      <3>1. ConnsInOrder /\ TypeOK /\ \A c \in Conns : OneMessage(c)
        BY DEF MessagesInOrder, ConnsInOrder, InboxesRead
      <3>2. faults = 0 /\ crashes = 0 /\ ~Crash
        BY <2>2, <3>1, NoFaultBefore, NoCrashBefore
      <3>3. ~Exit
        BY DEF Exit, MessagesInOrder, SessionsExclusive
      <3>4. AllKept /\ \A c \in Conns : InboxRead(c)
        BY <3>2 DEF MessagesInOrder, InboxesRead
      <3> SUFFICES ASSUME NEW u \in Users, NEW m \in Msg, <<u, m>> \in owed', InTurn(u, m)
                   PROVE  Kept(u, m)'
        OBVIOUS
      <3>5. CASE <<u, m>> \in owed
        BY <2>2, <3>1, <3>2, <3>3, <3>4, <3>5, KeptStep
      <3>6. CASE <<u, m>> \notin owed
        BY <2>2, <3>1, <3>6, OwedIsKept
      <3> QED  BY <3>5, <3>6
    <2> QED  BY <2>1, <2>2
  <1>3. Inv => (faults = 0 /\ crashes = 0 => NothingLost)
    BY KeptMeans DEF MessagesInOrder, ConnsInOrder
  <1> QED  BY <1>1, <1>2, <1>3, PTL DEF Spec

-----------------------------------------------------------------------------
(***************************************************************************)
(* No message is displayed twice.                                          *)
(***************************************************************************)

\* The places a message m for u can be at: the i-th of a kind, at connection c where
\* the kind has one.  (What login has read and not yet deleted is a copy of what is
\* stored, and no place of its own.)
AtHand(k, c, i, u, m) ==
  /\ c \in Conns
  /\ \/ /\ k = "todo" /\ i \in 1 .. hTodo[c][u]
        /\ pc[c] \in {"groupLock", "groupLoop"} /\ m = Head(hMsgs[c])
     \/ /\ k = "store" /\ i = 1
        /\ pc[c] = "storeOffline" /\ hUser[c] = u /\ m = Head(hMsgs[c])
     \/ /\ k = "reply" /\ i \in DOMAIN hMsgs[c]
        /\ pc[c] = "reply" /\ hUser[c] = u /\ m = hMsgs[c][i]
AtQueue(c, i, u, m) == c \in Conns /\ i \in DOMAIN queued[c][u] /\ m = queued[c][u][i]
AtStore(i, u, m) == i \in DOMAIN offline[u] /\ m = offline[u][i]
AtScreen(i, u, m) == i \in DOMAIN received[u] /\ m = received[u][i]
AtFetched(i, u, m) == i \in DOMAIN fetched[u] /\ m = fetched[u][i]

At(k, c, i, u, m) ==
  \/ AtHand(k, c, i, u, m)
  \/ k = "queued" /\ AtQueue(c, i, u, m)
  \/ k = "stored" /\ c = NoConn /\ AtStore(i, u, m)
  \/ k = "shown" /\ c = NoConn /\ AtScreen(i, u, m)
  \/ k = "fetched" /\ c = NoConn /\ AtFetched(i, u, m)

Underway(u, m) == \E k, c, i : At(k, c, i, u, m)

AtMostOnce(u, m) ==
  \A k, c, i, l, d, j :
     At(k, c, i, u, m) /\ At(l, d, j, u, m) => k = l /\ c = d /\ i = j

\* What a step does to the places of a message: nothing new, or one new place.
Stays(u, m) == \A k, c, i : At(k, c, i, u, m)' => At(k, c, i, u, m)
NewAt(l, d, j, u, m) ==
  \A k, c, i : At(k, c, i, u, m)' => At(k, c, i, u, m) \/ (k = l /\ c = d /\ i = j)
OneNew(u, m) == \E l, d, j : NewAt(l, d, j, u, m)
Vacates(u, m) == \E k, c, i : At(k, c, i, u, m) /\ ~At(k, c, i, u, m)'

\* A handler takes up message m.
TakesUp(c, m) == (OneChat(c) \/ GroupQuery(c)) /\ Head(req[c]).msg = m

MovesOnce(u, m) ==
  Stays(u, m) \/ (OneNew(u, m) /\ (Vacates(u, m) \/ \E c \in Conns : TakesUp(c, m)))

\* One place for another, or the first one: at most one place remains.
LEMMA OnceRemains ==
  ASSUME NEW u, NEW m, AtMostOnce(u, m), MovesOnce(u, m),
         \A c \in Conns : TakesUp(c, m) => ~Underway(u, m)
  PROVE  AtMostOnce(u, m)'
  <1>1. CASE Stays(u, m)
    BY <1>1 DEF Stays, AtMostOnce
  <1>2. CASE OneNew(u, m) /\ Vacates(u, m)
    <2>1. PICK l, d, j : NewAt(l, d, j, u, m)
      BY <1>2 DEF OneNew
    <2>2. PICK l0, d0, j0 : At(l0, d0, j0, u, m) /\ ~At(l0, d0, j0, u, m)'
      BY <1>2 DEF Vacates
    <2>3. \A k, c, i : At(k, c, i, u, m)' => k = l /\ c = d /\ i = j
      BY <2>1, <2>2 DEF AtMostOnce, NewAt
    <2> QED  BY <2>3 DEF AtMostOnce
  <1>3. CASE OneNew(u, m) /\ \E c \in Conns : TakesUp(c, m)
    <2>1. PICK l, d, j : NewAt(l, d, j, u, m)
      BY <1>3 DEF OneNew
    <2>2. \A k, c, i : ~At(k, c, i, u, m)
      BY <1>3 DEF Underway
    <2>3. \A k, c, i : At(k, c, i, u, m)' => k = l /\ c = d /\ i = j
      BY <2>1, <2>2 DEF NewAt
    <2> QED  BY <2>3 DEF AtMostOnce
  <1> QED  BY <1>1, <1>2, <1>3 DEF MovesOnce

\* A message comes to be under way where a handler takes it up.
LEMMA UnderwayBefore ==
  ASSUME NEW u, NEW m, MovesOnce(u, m), Underway(u, m)'
  PROVE  Underway(u, m) \/ \E c \in Conns : TakesUp(c, m)
  BY DEF MovesOnce, Stays, OneNew, NewAt, Vacates, Underway

\* The handler of b puts a message for u behind those that are there: on the screen or
\* in the queue of u's connection, in the table, or in its hands.
AtEnd(b, l, d, j, u) ==
  \/ /\ l = "shown" /\ d = NoConn /\ j = Len(received[u]) + 1
     /\ userConn[u] \in Conns /\ LoopOf[userConn[u]] = LoopOf[b]
  \/ /\ l = "queued" /\ d = userConn[u] /\ j = Len(queued[d][u]) + 1
     /\ d \in Conns /\ LoopOf[d] # LoopOf[b]
  \/ /\ l = "stored" /\ d = NoConn /\ j = Len(offline[u]) + 1
     /\ userConn[u] = NoConn \/ pc[b] = "storeOffline"
  \/ l \in {"store", "todo"} /\ d = b /\ j = 1
Delivers(b, u, m) == \E l, d, j : AtEnd(b, l, d, j, u) /\ NewAt(l, d, j, u, m)

LEMMA DeliversOne == \A b, u, m : Delivers(b, u, m) => OneNew(u, m)
  BY DEF Delivers, OneNew

\* The places of each kind on their own.
HandsStay(u, m) == \A k, c, i : AtHand(k, c, i, u, m)' => AtHand(k, c, i, u, m)
QueuesStay(u, m) == \A c, i : AtQueue(c, i, u, m)' => AtQueue(c, i, u, m)
StoreStays(u, m) == \A i : AtStore(i, u, m)' => AtStore(i, u, m)
ScreenStays(u, m) == \A i : AtScreen(i, u, m)' => AtScreen(i, u, m)
FetchedStays(u, m) == \A i : AtFetched(i, u, m)' => AtFetched(i, u, m)

LEMMA PlacesStay ==
  ASSUME NEW u, NEW m, HandsStay(u, m), QueuesStay(u, m), StoreStays(u, m), ScreenStays(u, m),
         FetchedStays(u, m)
  PROVE  Stays(u, m)
  BY DEF HandsStay, QueuesStay, StoreStays, ScreenStays, FetchedStays, Stays, At

\* Only the answer to a login brings fetched messages.
LEMMA NothingFetched ==
  ASSUME UNCHANGED fetched, NEW u, NEW m
  PROVE  FetchedStays(u, m)
  BY DEF FetchedStays, AtFetched

\* Appending makes one place at the end.
LEMMA AppendPlaces ==
  ASSUME NEW ms \in Seq(Msg), NEW n \in Msg, NEW m, NEW i \in DOMAIN Append(ms, n),
         m = Append(ms, n)[i]
  PROVE  (i \in DOMAIN ms /\ m = ms[i]) \/ (i = Len(ms) + 1 /\ m = n)
  OBVIOUS

\* Putting messages behind others makes a place for each.
LEMMA ConcatPlaces ==
  ASSUME NEW ms \in Seq(Msg), NEW ns \in Seq(Msg), NEW m, NEW i \in DOMAIN (ms \o ns),
         m = (ms \o ns)[i]
  PROVE  \/ i \in DOMAIN ms /\ m = ms[i]
         \/ i - Len(ms) \in DOMAIN ns /\ m = ns[i - Len(ms)]
  OBVIOUS

\* One message more at the end of a queue, or in the table.
Enqueues(d, v, n) ==
  \A e \in Conns, u \in Users :
     queued'[e][u] = IF e = d /\ u = v THEN Append(queued[e][u], n) ELSE queued[e][u]
Stores(v, n) ==
  \A u \in Users : offline'[u] = IF u = v THEN Append(offline[u], n) ELSE offline[u]

\* It makes one new place.
LEMMA NewInQueue ==
  ASSUME TypeNet, NEW d, NEW v, NEW n \in Msg, NEW u \in Users, NEW m,
         Enqueues(d, v, n)
  PROVE  \A c, i : AtQueue(c, i, u, m)' =>
            AtQueue(c, i, u, m) \/ (c = d /\ u = v /\ m = n /\ i = Len(queued[d][v]) + 1)
  <1> SUFFICES ASSUME NEW c, NEW i, AtQueue(c, i, u, m)'
               PROVE  \/ AtQueue(c, i, u, m)
                      \/ c = d /\ u = v /\ m = n /\ i = Len(queued[d][v]) + 1
    OBVIOUS
  <1>1. c \in Conns /\ i \in DOMAIN queued'[c][u] /\ m = queued'[c][u][i]
    BY DEF AtQueue
  <1>2. queued'[c][u] = IF c = d /\ u = v THEN Append(queued[c][u], n) ELSE queued[c][u]
    BY <1>1 DEF Enqueues
  <1>3. queued[c][u] \in Seq(Msg)
    BY <1>1 DEF TypeNet
  <1>4. CASE c = d /\ u = v
    BY <1>1, <1>2, <1>3, <1>4, AppendPlaces DEF AtQueue
  <1>5. CASE ~(c = d /\ u = v)
    BY <1>1, <1>2, <1>5 DEF AtQueue
  <1> QED  BY <1>4, <1>5

\* So does the insert.
LEMMA NewInStore ==
  ASSUME TypeDb, NEW v, NEW n \in Msg, NEW u \in Users, NEW m, NEW i,
         Stores(v, n), AtStore(i, u, m)'
  PROVE  AtStore(i, u, m) \/ (u = v /\ m = n /\ i = Len(offline[v]) + 1)
  <1>1. i \in DOMAIN offline'[u] /\ m = offline'[u][i]
    BY DEF AtStore
  <1>2. offline[u] \in Seq(Msg)
    BY DEF TypeDb
  <1>3. offline'[u] = IF u = v THEN Append(offline[u], n) ELSE offline[u]
    BY DEF Stores
  <1>4. CASE u = v
    BY <1>1, <1>2, <1>3, <1>4, AppendPlaces DEF AtStore
  <1>5. CASE u # v
    BY <1>1, <1>3, <1>5 DEF AtStore
  <1> QED  BY <1>4, <1>5

\* Display puts the message behind those on the screen.
LEMMA NewAtEnd ==
  ASSUME TypeHistory, NEW c \in Conns, NEW v \in Users, NEW n \in Msg, Display(c, v, n),
         NEW u \in Users, NEW m, NEW i, AtScreen(i, u, m)'
  PROVE  AtScreen(i, u, m) \/ (u = v /\ m = n /\ i = Len(received[u]) + 1)
  <1>1. CASE client[c] = "gone"
    BY <1>1 DEF Display, AtScreen
  <1>2. CASE client[c] # "gone"
    <2>1. i \in DOMAIN received'[u] /\ m = received'[u][i]
      BY DEF AtScreen
    <2>2. received' = [received EXCEPT ![v] = Append(@, n)]
      BY <1>2 DEF Display
    <2>3. /\ received[u] \in Seq(Msg)
          /\ received'[u] = IF u = v THEN Append(received[u], n) ELSE received[u]
      BY <2>2 DEF TypeHistory
    <2>4. CASE u = v
      BY <2>1, <2>3, <2>4, AppendPlaces DEF AtScreen
    <2>5. CASE u # v
      BY <2>1, <2>3, <2>5 DEF AtScreen
    <2> QED  BY <2>4, <2>5
  <1> QED  BY <1>1, <1>2

\* Forward makes one new place at most, for its message and its recipient.
LEMMA ForwardPlaces ==
  ASSUME TypeHistory, TypeNet, TypeService, NEW b \in Conns, NEW v \in Users,
         userConn[v] # NoConn, NEW n \in Msg, Forward(b, v, n), NEW u \in Users, NEW m \in Msg,
         HandsStay(u, m), StoreStays(u, m), FetchedStays(u, m)
  PROVE  Stays(u, m) \/ (u = v /\ m = n /\ Delivers(b, u, m))
  <1>0. PICK d \in Conns : d = userConn[v]
    BY DEF TypeService
  <1>1. CASE conn[d] # "up"
    <2>1. UNCHANGED <<received, queued>>
      BY <1>0, <1>1 DEF Forward
    <2>2. QueuesStay(u, m) /\ ScreenStays(u, m)
      BY <2>1 DEF QueuesStay, ScreenStays, AtQueue, AtScreen
    <2> QED  BY <2>2, PlacesStay
  <1>2. CASE conn[d] = "up" /\ LoopOf[d] = LoopOf[b]
    <2>1. Display(d, v, n) /\ UNCHANGED queued
      BY <1>0, <1>2 DEF Forward
    <2>2. QueuesStay(u, m)
      BY <2>1 DEF QueuesStay, AtQueue
    <2>3. \A i : AtScreen(i, u, m)' =>
            AtScreen(i, u, m) \/ (u = v /\ m = n /\ i = Len(received[u]) + 1)
      BY <1>0, <2>1, NewAtEnd
    <2>4. CASE u = v /\ m = n
      <3> DEFINE j == Len(received[u]) + 1
      <3>1. ASSUME NEW k, NEW c, NEW i, At(k, c, i, u, m)'
            PROVE  At(k, c, i, u, m) \/ (k = "shown" /\ c = NoConn /\ i = j)
        BY <2>2, <2>3, <3>1 DEF HandsStay, QueuesStay, StoreStays, FetchedStays, At
      <3> HIDE DEF j
      <3>2. NewAt("shown", NoConn, j, u, m)
        BY <3>1 DEF NewAt
      <3>3. AtEnd(b, "shown", NoConn, j, u)
        BY <1>0, <1>2, <2>4 DEF AtEnd, j
      <3> QED  BY <2>4, <3>2, <3>3 DEF Delivers
    <2>5. CASE ~(u = v /\ m = n)
      <3>1. ScreenStays(u, m)
        BY <2>3, <2>5 DEF ScreenStays
      <3> QED  BY <2>2, <3>1, PlacesStay
    <2> QED  BY <2>4, <2>5
  <1>3. CASE conn[d] = "up" /\ LoopOf[d] # LoopOf[b]
    <2>1. /\ queued' = [queued EXCEPT ![d][v] = Append(@, n)]
          /\ UNCHANGED received
      BY <1>0, <1>3 DEF Forward
    <2>2. ScreenStays(u, m)
      BY <2>1 DEF ScreenStays, AtScreen
    <2>3. \A c, i : AtQueue(c, i, u, m)' =>
            AtQueue(c, i, u, m) \/ (c = d /\ u = v /\ m = n /\ i = Len(queued[d][v]) + 1)
      <3>1. Enqueues(d, v, n)
        BY <1>0, <2>1 DEF TypeNet, Enqueues
      <3> QED  BY <3>1, NewInQueue
    <2>4. CASE u = v /\ m = n
      <3> DEFINE j == Len(queued[d][v]) + 1
      <3>1. ASSUME NEW k, NEW c, NEW i, At(k, c, i, u, m)'
            PROVE  At(k, c, i, u, m) \/ (k = "queued" /\ c = d /\ i = j)
        BY <2>2, <2>3, <3>1 DEF HandsStay, ScreenStays, StoreStays, FetchedStays, At
      <3> HIDE DEF j
      <3>2. NewAt("queued", d, j, u, m)
        BY <3>1 DEF NewAt
      <3>3. AtEnd(b, "queued", d, j, u)
        BY <1>0, <1>3, <2>4 DEF AtEnd, j
      <3> QED  BY <2>4, <3>2, <3>3 DEF Delivers
    <2>5. CASE ~(u = v /\ m = n)
      <3>1. QueuesStay(u, m)
        BY <2>3, <2>5 DEF QueuesStay
      <3> QED  BY <2>2, <3>1, PlacesStay
    <2> QED  BY <2>4, <2>5
  <1> QED  BY <1>0, <1>1, <1>2, <1>3

\* A handler that ends, or goes on to something else, makes no new place of its own.
LEMMA HandsLetGo ==
  ASSUME TypeOK, NEW c \in Conns, Client(c) \/ Loop(c), NEW u, NEW m,
         \/ Same(c)
         \/ pc'[c] \notin {"groupLock", "groupLoop", "storeOffline", "reply"}
  PROVE  HandsStay(u, m)
  <1> SUFFICES ASSUME NEW k, NEW d \in Conns, NEW i, AtHand(k, d, i, u, m)'
               PROVE  AtHand(k, d, i, u, m)
    BY DEF HandsStay, AtHand
  <1>1. CASE Same(d)
    BY <1>1 DEF AtHand, Same
  <1>2. CASE d = c /\ ~Same(c)
    BY <1>2 DEF AtHand
  <1> QED  BY <1>1, <1>2, OthersSame

\* Whoever does not handle messages leaves every message where it is, or drops it.
LEMMA OthersLeaveMessages ==
  ASSUME TypeOK, NEW c \in Conns, NEW u \in Users, NEW m,
         \/ Client(c) \/ Leave(c) \/ (Login(c) /\ ~LoginClearOffline(c) /\ ~LoginReply(c))
         \/ AddGroup(c) \/ GroupLock(c) \/ GroupUnlock(c)
  PROVE  Stays(u, m)
  <1> USE DEF dbVars, svcVars, localVars, netVars, clientVars, histVars, deliveryVars
  <1>0. TypeNet /\ TypeCallback /\ (Client(c) \/ Loop(c))
    BY DEF TypeOK, Loop, Chat
  <1>1. UNCHANGED <<offline, received, fetched>>
    <2>1. CASE Client(c) \/ Leave(c)
      BY <2>1 DEF Client, Connect, SendLogin, SendLogout, SendOneChat, SendGroupChat,
                  SendAddGroup, Quit, Leave, LogoutErase, LogoutUpdate, CloseErase, CloseUpdate
    <2>2. CASE Login(c) /\ ~LoginClearOffline(c) /\ ~LoginReply(c)
      BY <2>2 DEF Login, LoginQuery, LoginRefuse, LoginReject, LoginEmplace, LoginSetOnline,
                  LoginReadOffline
    <2>3. CASE AddGroup(c) \/ GroupLock(c) \/ GroupUnlock(c)
      BY <2>3 DEF AddGroup, GroupLock, GroupUnlock
    <2> QED  BY <2>1, <2>2, <2>3
  <1>2. StoreStays(u, m) /\ ScreenStays(u, m) /\ FetchedStays(u, m)
    BY <1>1, NothingFetched DEF StoreStays, ScreenStays, AtStore, AtScreen
  <1>3. QueuesStay(u, m)
    <2>1. CASE UNCHANGED queued
      BY <2>1 DEF QueuesStay, AtQueue
    <2>2. CASE CloseErase(c)
      <3>1. \A d \in Conns : queued'[d][u] = IF d = c THEN <<>> ELSE queued[d][u]
        BY <1>0, <2>2 DEF CloseErase, NoQueue, TypeNet
      <3> QED  BY <3>1 DEF QueuesStay, AtQueue
    <2>3. CASE Client(c) \/ (Leave(c) /\ ~CloseErase(c))
      BY <2>1, <2>3 DEF Client, Connect, SendLogin, SendLogout, SendOneChat, SendGroupChat,
                        SendAddGroup, Quit, Leave, LogoutErase, LogoutUpdate, CloseUpdate
    <2>4. CASE Login(c) /\ ~LoginClearOffline(c) /\ ~LoginReply(c)
      BY <2>1, <2>4 DEF Login, LoginQuery, LoginRefuse, LoginReject, LoginEmplace,
                        LoginSetOnline, LoginReadOffline
    <2>5. CASE AddGroup(c) \/ GroupLock(c) \/ GroupUnlock(c)
      BY <2>1, <2>5 DEF AddGroup, GroupLock, GroupUnlock
    <2> QED  BY <2>2, <2>3, <2>4, <2>5
  <1>4. HandsStay(u, m)
    <2>1. \A l : Goto(c, l) => pc'[c] = l
      BY <1>0 DEF Goto, TypeCallback
    <2>2. UNCHANGED <<pc, localVars>> => Same(c)
      BY DEF Same
    <2>3. CASE Client(c) \/ AddGroup(c) \/ LoginRefuse(c)
      <3>1. UNCHANGED <<pc, localVars>>
        BY <2>3 DEF Client, Connect, SendLogin, SendLogout, SendOneChat, SendGroupChat,
                    SendAddGroup, Quit, AddGroup, LoginRefuse
      <3> QED  BY <1>0, <2>2, <3>1, HandsLetGo
    <2>4. CASE Leave(c)
      <3>1. pc'[c] \in {"idle", "logoutUpdate", "closeUpdate"}
        BY <2>1, <2>4 DEF Leave, LogoutErase, LogoutUpdate, CloseErase, CloseUpdate, Return,
                          Ready, LoopFree
      <3> QED  BY <1>0, <3>1, HandsLetGo
    <2>5. CASE LoginQuery(c) \/ LoginReject(c) \/ LoginEmplace(c) \/ LoginSetOnline(c)
      <3>1. pc'[c] \in {"idle", "reject", "emplace", "setOnline", "readOffline"}
        BY <2>1, <2>5 DEF LoginQuery, LoginReject, LoginEmplace, LoginSetOnline, Return
      <3> QED  BY <1>0, <3>1, HandsLetGo
    <2>6. CASE LoginReadOffline(c)
      <3>1. CASE pc'[c] = "clearOffline"
        BY <1>0, <3>1, HandsLetGo
      <3>2. CASE hMsgs'[c] = <<>> /\ pc'[c] = "reply"
        <4>1. ASSUME NEW k, NEW d \in Conns, NEW i, AtHand(k, d, i, u, m)'
              PROVE  AtHand(k, d, i, u, m)
          <5>1. CASE d # c
            BY <1>0, <4>1, <5>1, OthersSame DEF AtHand, Same
          <5>2. CASE d = c
            BY <3>2, <4>1, <5>2 DEF AtHand
          <5> QED  BY <5>1, <5>2
        <4> QED  BY <4>1 DEF HandsStay, AtHand
      <3>3. PICK msg : hMsgs' = [hMsgs EXCEPT ![c] = msg]
                       /\ Goto(c, IF msg = <<>> THEN "reply" ELSE "clearOffline")
        BY <2>6 DEF LoginReadOffline
      <3>4. pc'[c] = "clearOffline" \/ (hMsgs'[c] = <<>> /\ pc'[c] = "reply")
        BY <1>0, <2>1, <3>3 DEF TypeCallback
      <3> QED  BY <3>1, <3>2, <3>4
    <2>7. CASE GroupLock(c)
      <3>1. pc[c] = "groupLock" /\ pc'[c] = "groupLoop" /\ UNCHANGED localVars
        BY <2>1, <2>7 DEF GroupLock
      <3>2. ASSUME NEW k, NEW d \in Conns, NEW i, AtHand(k, d, i, u, m)'
            PROVE  AtHand(k, d, i, u, m)
        <4>1. CASE d # c
          BY <1>0, <3>2, <4>1, OthersSame DEF AtHand, Same
        <4>2. CASE d = c
          BY <3>1, <3>2, <4>2 DEF AtHand
        <4> QED  BY <4>1, <4>2
      <3> QED  BY <3>2 DEF HandsStay, AtHand
    <2>8. CASE GroupUnlock(c)
      <3>1. pc'[c] = "idle"
        BY <2>1, <2>8 DEF GroupUnlock, Return
      <3> QED  BY <1>0, <3>1, HandsLetGo
    <2> QED  BY <2>3, <2>4, <2>5, <2>6, <2>7, <2>8 DEF Login
  <1> QED  BY <1>2, <1>3, <1>4, PlacesStay

\* The process takes with it what it has in memory.
LEMMA ProcessLeavesMessages ==
  ASSUME TypeOK, NEW u \in Users, NEW m, Process \/ UNCHANGED vars
  PROVE  Stays(u, m)
  <1> USE DEF dbVars, svcVars, localVars, netVars, clientVars, histVars, deliveryVars
  <1>1. CASE Interrupt \/ Restart \/ UNCHANGED vars
    <2>1. UNCHANGED <<offline, received, fetched, queued, pc, hUser, hMsgs, hTodo>>
      BY <1>1 DEF Interrupt, Restart, vars
    <2> QED  BY <2>1 DEF Stays, At, AtHand, AtQueue, AtStore, AtScreen, AtFetched
  <1>2. CASE Exit \/ Crash
    <2>1. /\ UNCHANGED <<offline, received, fetched>>
          /\ \A c \in Conns : pc'[c] = "idle" /\ queued'[c][u] = <<>>
      BY <1>2 DEF Exit, Crash, Down, NoQueue
    <2>2. QueuesStay(u, m)
      BY <2>1 DEF QueuesStay, AtQueue
    <2>3. HandsStay(u, m)
      BY <2>1 DEF HandsStay, AtHand
    <2>4. StoreStays(u, m) /\ ScreenStays(u, m) /\ FetchedStays(u, m)
      BY <2>1, NothingFetched DEF StoreStays, ScreenStays, AtStore, AtScreen
    <2> QED  BY <2>2, <2>3, <2>4, PlacesStay
  <1> QED  BY <1>1, <1>2 DEF Process

\* oneChat forwards the message it takes up, or keeps it to be stored.
LEMMA OneChatPlaces ==
  ASSUME TypeOK, NEW c \in Conns, OneChat(c), NEW u \in Users, NEW m \in Msg
  PROVE  Stays(u, m) \/ (TakesUp(c, m) /\ Delivers(c, u, m))
  <1>0. /\ TypeNet /\ TypeCallback /\ TypeHistory /\ TypeService
        /\ Loop(c)
    BY DEF TypeOK, Loop, Chat
  <1>1. PICK to \in Users, n \in Msg :
            /\ n = Head(req[c]).msg
            /\ UNCHANGED offline
            /\ \/ /\ userConn[to] # NoConn /\ Forward(c, to, n)
                  /\ UNCHANGED <<pc, hUser, hMsgs, hTodo>>
               \/ /\ UNCHANGED <<queued, received, dropped, hTodo>>
                  /\ pc' = [pc EXCEPT ![c] = "storeOffline"]
                  /\ hUser' = [hUser EXCEPT ![c] = to]
                  /\ hMsgs' = [hMsgs EXCEPT ![c] = <<n>>]
    BY OneChatMoves
  <1>2. StoreStays(u, m) /\ FetchedStays(u, m)
    BY <1>1, NothingFetched DEF StoreStays, AtStore, OneChat
  <1>3. m = n => TakesUp(c, m)
    BY <1>1 DEF TakesUp
  <1>4. CASE /\ userConn[to] # NoConn /\ Forward(c, to, n)
             /\ UNCHANGED <<pc, hUser, hMsgs, hTodo>>
    <2>1. HandsStay(u, m)
      BY <1>4 DEF HandsStay, AtHand
    <2>2. Stays(u, m) \/ (u = to /\ m = n /\ Delivers(c, u, m))
      BY <1>0, <1>2, <1>4, <2>1, ForwardPlaces
    <2> QED  BY <1>3, <2>2
  <1>5. CASE /\ UNCHANGED <<queued, received, dropped, hTodo>>
             /\ pc' = [pc EXCEPT ![c] = "storeOffline"]
             /\ hUser' = [hUser EXCEPT ![c] = to]
             /\ hMsgs' = [hMsgs EXCEPT ![c] = <<n>>]
    <2>1. QueuesStay(u, m) /\ ScreenStays(u, m)
      BY <1>5 DEF QueuesStay, ScreenStays, AtQueue, AtScreen
    <2>2. pc'[c] = "storeOffline" /\ hMsgs'[c] = <<n>> /\ Head(hMsgs'[c]) = n
      BY <1>0, <1>5 DEF TypeCallback
    <2>3. ASSUME NEW k, NEW d, NEW i, AtHand(k, d, i, u, m)'
          PROVE  AtHand(k, d, i, u, m) \/ (k = "store" /\ d = c /\ i = 1 /\ m = n)
      <3>1. CASE d # c
        BY <1>0, <2>3, <3>1, OthersSame DEF AtHand, Same
      <3>2. CASE d = c
        BY <2>2, <2>3, <3>2 DEF AtHand
      <3> QED  BY <3>1, <3>2
    <2>4. CASE m = n
      <3>1. ASSUME NEW k, NEW d, NEW i, At(k, d, i, u, m)'
            PROVE  At(k, d, i, u, m) \/ (k = "store" /\ d = c /\ i = 1)
        BY <1>2, <2>1, <2>3, <3>1 DEF StoreStays, QueuesStay, ScreenStays, FetchedStays, At
      <3>2. NewAt("store", c, 1, u, m)
        BY <3>1 DEF NewAt
      <3>3. AtEnd(c, "store", c, 1, u)
        BY DEF AtEnd
      <3> QED  BY <1>3, <2>4, <3>2, <3>3 DEF Delivers
    <2>5. CASE m # n
      <3>1. HandsStay(u, m)
        BY <2>3, <2>5 DEF HandsStay
      <3> QED  BY <1>2, <2>1, <3>1, PlacesStay
    <2> QED  BY <2>4, <2>5
  <1> QED  BY <1>1, <1>4, <1>5

\* groupChat takes up the message and has yet to deliver it to the members.
LEMMA GroupQueryPlaces ==
  ASSUME TypeOK, NEW c \in Conns, OwnMessages(c), GroupQuery(c), NEW u \in Users,
         NEW m \in Msg, ~JoinedTwice(u, m)
  PROVE  Stays(u, m) \/ (TakesUp(c, m) /\ Delivers(c, u, m))
  <1>0. TypeCallback /\ TypeNet /\ TypeDb /\ Loop(c)
    BY DEF TypeOK, Loop, Chat
  <1>1. /\ UNCHANGED <<offline, queued, received, fetched>>
        /\ pc'[c] = "groupLock"
        /\ hMsgs'[c] = <<Head(req[c]).msg>>
    BY <1>0 DEF GroupQuery, Goto, TypeCallback
  <1>2. StoreStays(u, m) /\ QueuesStay(u, m) /\ ScreenStays(u, m) /\ FetchedStays(u, m)
    BY <1>1, NothingFetched DEF StoreStays, QueuesStay, ScreenStays, AtStore, AtQueue, AtScreen
  \* a member who joined once is on the list once
  <1>a. m = Head(req[c]).msg => hTodo'[c][u] \in {0, 1}
    <2> SUFFICES ASSUME m = Head(req[c]).msg PROVE hTodo'[c][u] \in {0, 1}
      OBVIOUS
    <2> DEFINE r == Head(req[c])
    <2>1. r \in Request /\ r.type = "GROUP_CHAT_MSG"
      BY <1>0, HandlesTypes DEF GroupQuery
    <2>2. r.group \in Groups /\ r.user \in Users
      BY <2>1, RequestTypes
    <2>3. m.kind = "groupchat"
      <3>1. req[c] \in Seq(Request) /\ req[c] # <<>>
        BY <1>0 DEF GroupQuery, Handles, TypeNet
      <3>2. 1 \in DOMAIN req[c] /\ r = req[c][1]
        BY <3>1
      <3> QED  BY <2>1, <3>2 DEF OwnMessages, OwnRequest
    <2>4. members[r.group][u] \in Nat /\ members[r.group][u] <= 1
      BY <1>0, <2>2, <2>3 DEF JoinedTwice, TypeDb
    <2>5. QueryGroupUsers(members, r.user, r.group)[u] \in {0, 1}
      BY <1>0, <2>2, <2>4 DEF QueryGroupUsers, TypeDb
    <2>6. hTodo'[c] = QueryGroupUsers(members, r.user, r.group) \/ hTodo'[c] = NoRows
      BY <1>0 DEF GroupQuery, TypeCallback
    <2> QED  BY <2>5, <2>6 DEF NoRows
  <1>3. ASSUME NEW k, NEW d, NEW i, AtHand(k, d, i, u, m)'
        PROVE  \/ AtHand(k, d, i, u, m)
               \/ k = "todo" /\ d = c /\ i = 1 /\ m = Head(req[c]).msg
    <2>1. CASE d # c
      BY <1>0, <1>3, <2>1, OthersSame DEF AtHand, Same
    <2>2. CASE d = c
      <3>1. k = "todo" /\ i \in 1 .. hTodo'[c][u] /\ m = Head(req[c]).msg
        BY <1>1, <1>3, <2>2 DEF AtHand
      <3> QED  BY <1>a, <2>2, <3>1
    <2> QED  BY <2>1, <2>2
  <1>4. CASE m = Head(req[c]).msg
    <2>1. ASSUME NEW k, NEW d, NEW i, At(k, d, i, u, m)'
          PROVE  At(k, d, i, u, m) \/ (k = "todo" /\ d = c /\ i = 1)
      BY <1>2, <1>3, <2>1 DEF StoreStays, QueuesStay, ScreenStays, FetchedStays, At
    <2>2. NewAt("todo", c, 1, u, m)
      BY <2>1 DEF NewAt
    <2>3. AtEnd(c, "todo", c, 1, u)
      BY DEF AtEnd
    <2> QED  BY <1>4, <2>2, <2>3 DEF Delivers, TakesUp
  <1>5. CASE m # Head(req[c]).msg
    <2>1. HandsStay(u, m)
      BY <1>3, <1>5 DEF HandsStay
    <2> QED  BY <1>2, <2>1, PlacesStay
  <1> QED  BY <1>4, <1>5

\* A turn of the loop moves the message from the list to where the member gets it.
LEMMA GroupEachPlaces ==
  ASSUME TypeOK, NEW c \in Conns, OneMessage(c), NEW v \in Users, GroupEach(c, v),
         NEW u \in Users, NEW m \in Msg
  PROVE  \/ Stays(u, m)
         \/ u = v /\ m = Head(hMsgs[c]) /\ Vacates(u, m) /\ Delivers(c, u, m)
  <1>0. /\ TypeNet /\ TypeCallback /\ TypeHistory /\ TypeService /\ TypeDb
        /\ Loop(c)
    BY DEF TypeOK, Loop, Chat
  <1>1. PICK n \in Msg :
            /\ Entries(hMsgs[c]) = {n}
            /\ \/ /\ userConn[v] # NoConn /\ Forward(c, v, n)
                  /\ UNCHANGED offline
               \/ /\ userConn[v] = NoConn
                  /\ UNCHANGED <<queued, received, dropped>>
                  /\ \E ok \in BOOLEAN :
                       /\ DbCall(ok)
                       /\ offline' = IF ok THEN OfflineInsert(offline, v, n) ELSE offline
            /\ hTodo' = [hTodo EXCEPT ![c][v] = @ - 1]
            /\ UNCHANGED <<pc, hUser, hMsgs>>
    BY GroupEachMoves
  <1>2. /\ pc[c] = "groupLoop" /\ hTodo[c][v] \in Nat /\ hTodo[c][v] > 0 /\ Len(hMsgs[c]) = 1
        /\ \A d \in Conns : \A w \in Users :
              hTodo'[d][w] = IF d = c /\ w = v THEN hTodo[c][v] - 1 ELSE hTodo[d][w]
    BY <1>0, <1>1 DEF GroupEach, OneMessage, MsgPCs, TypeCallback
  <1>3. n = Head(hMsgs[c])
    <2>1. hMsgs[c] \in Seq(Msg)
      BY <1>0 DEF TypeCallback
    <2> QED  BY <1>1, <1>2, <2>1, EntriesOfOne
  <1>a. FetchedStays(u, m)
    BY NothingFetched DEF GroupEach
  <1>4. HandsStay(u, m)
    <2> SUFFICES ASSUME NEW k, NEW d, NEW i, AtHand(k, d, i, u, m)'
                 PROVE  AtHand(k, d, i, u, m)
      BY DEF HandsStay
    <2>1. i \in 1 .. hTodo'[d][u] /\ d \in Conns => i \in 1 .. hTodo[d][u]
      BY <1>2
    <2> QED  BY <1>1, <2>1 DEF AtHand
  <1>5. u = v /\ m = n => Vacates(u, m)
    <2> SUFFICES ASSUME u = v, m = n
                 PROVE  Vacates(u, m)
      OBVIOUS
    <2>0. PICK h \in Nat : h = hTodo[c][v] /\ h > 0 /\ hTodo'[c][u] = h - 1
      BY <1>2
    <2>1. AtHand("todo", c, h, u, m)
      BY <1>2, <1>3, <2>0 DEF AtHand
    <2>2. ~AtHand("todo", c, h, u, m)'
      BY <2>0 DEF AtHand
    <2>3. At("todo", c, h, u, m) /\ ~At("todo", c, h, u, m)'
      BY <2>1, <2>2 DEF At
    <2> QED  BY <2>3 DEF Vacates
  <1>6. CASE userConn[v] # NoConn /\ Forward(c, v, n) /\ UNCHANGED offline
    <2>1. StoreStays(u, m)
      BY <1>6 DEF StoreStays, AtStore
    <2>2. Stays(u, m) \/ (u = v /\ m = n /\ Delivers(c, u, m))
      BY <1>0, <1>a, <1>4, <1>6, <2>1, ForwardPlaces
    <2> QED  BY <1>3, <1>5, <2>2
  <1>7. CASE /\ userConn[v] = NoConn
             /\ UNCHANGED <<queued, received>>
             /\ offline' = offline \/ Stores(v, n)
    <2>1. QueuesStay(u, m) /\ ScreenStays(u, m)
      BY <1>7 DEF QueuesStay, ScreenStays, AtQueue, AtScreen
    <2>2. CASE StoreStays(u, m)
      BY <1>a, <1>4, <2>1, <2>2, PlacesStay
    <2>3. CASE Stores(v, n) /\ u = v /\ m = n
      <3> DEFINE j == Len(offline[v]) + 1
      <3>1. \A i : AtStore(i, u, m)' => AtStore(i, u, m) \/ i = j
        BY <1>0, <2>3, NewInStore
      <3> HIDE DEF j
      <3>2. ASSUME NEW k, NEW d, NEW i, At(k, d, i, u, m)'
            PROVE  At(k, d, i, u, m) \/ (k = "stored" /\ d = NoConn /\ i = j)
        BY <1>a, <1>4, <2>1, <3>1, <3>2 DEF HandsStay, QueuesStay, ScreenStays, FetchedStays, At
      <3>3. NewAt("stored", NoConn, j, u, m)
        BY <3>2 DEF NewAt
      <3>4. AtEnd(c, "stored", NoConn, j, u)
        BY <1>7, <2>3 DEF AtEnd, j
      <3> QED  BY <1>3, <1>5, <2>3, <3>3, <3>4 DEF Delivers
    <2>4. Stores(v, n) /\ ~(u = v /\ m = n) => StoreStays(u, m)
      BY <1>0, NewInStore DEF StoreStays
    <2>5. offline' = offline => StoreStays(u, m)
      BY DEF StoreStays, AtStore
    <2> QED  BY <1>7, <2>2, <2>3, <2>4, <2>5
  <1>8. offline' = OfflineInsert(offline, v, n) => Stores(v, n)
    BY <1>0 DEF OfflineInsert, Stores, TypeDb
  <1> QED  BY <1>1, <1>6, <1>7, <1>8

\* oneChat's insert moves the message from the handler to the table.
LEMMA StoreOfflinePlaces ==
  ASSUME TypeOK, NEW c \in Conns, StoreOffline(c), NEW u \in Users, NEW m \in Msg
  PROVE  \/ Stays(u, m)
         \/ u = hUser[c] /\ m = Head(hMsgs[c]) /\ Vacates(u, m) /\ Delivers(c, u, m)
  <1>0. TypeCallback /\ TypeDb /\ Loop(c)
    BY DEF TypeOK, Loop, Chat
  <1>1. PICK v \in Users, n \in Msg : v = hUser[c] /\ n = Head(hMsgs[c])
    BY <1>0 DEF StoreOffline, TypeCallback, UserPCs, MsgPCs
  <1>2. /\ pc[c] = "storeOffline" /\ pc'[c] = "idle"
        /\ UNCHANGED <<queued, received>>
        /\ offline' = offline \/ offline' = OfflineInsert(offline, v, n)
    BY <1>0, <1>1 DEF StoreOffline, Return, Goto, TypeCallback, netVars, histVars
  <1>3. HandsStay(u, m)
    BY <1>0, <1>2, HandsLetGo
  <1>4. QueuesStay(u, m) /\ ScreenStays(u, m) /\ FetchedStays(u, m)
    BY <1>2, NothingFetched DEF QueuesStay, ScreenStays, AtQueue, AtScreen, StoreOffline, histVars
  <1>5. CASE StoreStays(u, m)
    BY <1>3, <1>4, <1>5, PlacesStay
  <1>6. CASE Stores(v, n) /\ u = v /\ m = n
    <2> DEFINE j == Len(offline[v]) + 1
    <2>1. \A i : AtStore(i, u, m)' => AtStore(i, u, m) \/ i = j
      BY <1>0, <1>6, NewInStore
    <2> HIDE DEF j
    <2>2. ASSUME NEW k, NEW d, NEW i, At(k, d, i, u, m)'
          PROVE  At(k, d, i, u, m) \/ (k = "stored" /\ d = NoConn /\ i = j)
      BY <1>3, <1>4, <2>1, <2>2 DEF HandsStay, QueuesStay, ScreenStays, FetchedStays, At
    <2>3. NewAt("stored", NoConn, j, u, m)
      BY <2>2 DEF NewAt
    <2>7. AtEnd(c, "stored", NoConn, j, u)
      BY <1>2, <1>6 DEF AtEnd, j
    <2>4. AtHand("store", c, 1, u, m) /\ ~AtHand("store", c, 1, u, m)'
      BY <1>1, <1>2, <1>6 DEF AtHand
    <2>5. At("store", c, 1, u, m) /\ ~At("store", c, 1, u, m)'
      BY <2>4 DEF At
    <2>6. Vacates(u, m)
      BY <2>5 DEF Vacates
    <2> QED  BY <1>1, <1>6, <2>3, <2>6, <2>7 DEF Delivers
  <1>7. Stores(v, n) /\ ~(u = v /\ m = n) => StoreStays(u, m)
    BY <1>0, NewInStore DEF StoreStays
  <1>8. offline' = offline => StoreStays(u, m)
    BY DEF StoreStays, AtStore
  <1>9. offline' = OfflineInsert(offline, v, n) => Stores(v, n)
    BY <1>0 DEF OfflineInsert, Stores, TypeDb
  <1> QED  BY <1>2, <1>5, <1>6, <1>7, <1>8, <1>9

\* While login holds what it read and has yet to delete, every message of it is still in
\* the table, at a place of its own: only the connections of the account's loop delete.
IsCopy(p, ms, rows) ==
  /\ \A i \in DOMAIN ms : p[i] \in DOMAIN rows /\ rows[p[i]] = ms[i]
  /\ \A i, j \in DOMAIN ms : p[i] = p[j] => i = j
CopyOf(c) ==
  pc[c] = "clearOffline" => \E p : IsCopy(p, hMsgs[c], offline[hUser[c]])

\* The delete makes the handler's copy the only one.
LEMMA LoginClearMoves ==
  ASSUME TypeOK, NEW c \in Conns, LoginClearOffline(c), faults' = 0,
         NEW p, IsCopy(p, hMsgs[c], offline[hUser[c]]),
         NEW u \in Users, NEW m \in Msg, NEW k, NEW d, NEW i, At(k, d, i, u, m)'
  PROVE  \/ At(k, d, i, u, m) /\ ~(k = "stored" /\ u = hUser[c])
         \/ /\ k = "reply" /\ d = c /\ u = hUser[c]
            /\ i \in DOMAIN hMsgs[c] /\ At("stored", NoConn, p[i], u, m)
  <1>0. TypeCallback /\ TypeDb /\ Loop(c)
    BY DEF TypeOK, Loop, Login
  <1>1. /\ pc[c] = "clearOffline" /\ pc'[c] = "reply"
        /\ UNCHANGED <<queued, received, fetched, hUser, hMsgs, hTodo>>
        /\ hUser[c] \in Users
    BY <1>0 DEF LoginClearOffline, Goto, TypeCallback, netVars, histVars, localVars, UserPCs
  <1>2. offline'[u] = IF u = hUser[c] THEN <<>> ELSE offline[u]
    <2>1. PICK ok \in BOOLEAN :
             /\ DbCall(ok)
             /\ offline' = IF ok THEN OfflineRemove(offline, hUser[c]) ELSE offline
      BY DEF LoginClearOffline
    <2>2. ok
      BY <1>0, <2>1, DbCallWorks DEF TypeDb
    <2> QED  BY <1>0, <2>1, <2>2 DEF OfflineRemove, TypeDb
  <1>3. CASE AtHand(k, d, i, u, m)'
    <2>1. CASE d # c
      BY <1>0, <1>3, <2>1, OthersSame DEF AtHand, Same, At
    <2>2. CASE d = c
      <3>1. k = "reply" /\ i \in DOMAIN hMsgs[c] /\ hUser[c] = u /\ m = hMsgs[c][i]
        BY <1>1, <1>3, <2>2 DEF AtHand
      <3>2. AtStore(p[i], u, m)
        BY <1>1, <3>1 DEF IsCopy, AtStore
      <3> QED  BY <2>2, <3>1, <3>2 DEF At
    <2> QED  BY <2>1, <2>2
  <1>4. CASE k = "queued" /\ AtQueue(d, i, u, m)'
    BY <1>1, <1>4 DEF AtQueue, At
  <1>5. CASE k = "stored" /\ d = NoConn /\ AtStore(i, u, m)'
    BY <1>2, <1>5 DEF AtStore, At
  <1>6. CASE k = "shown" /\ d = NoConn /\ AtScreen(i, u, m)'
    BY <1>1, <1>6 DEF AtScreen, At
  <1>7. CASE k = "fetched" /\ d = NoConn /\ AtFetched(i, u, m)'
    BY <1>1, <1>7 DEF AtFetched, At
  <1> QED  BY <1>3, <1>4, <1>5, <1>6, <1>7 DEF At

\* There is one place in the copy for one in the table.
LEMMA LoginClearPlaces ==
  ASSUME TypeOK, NEW c \in Conns, LoginClearOffline(c), CopyOf(c), faults' = 0,
         NEW u \in Users, NEW m \in Msg, AtMostOnce(u, m)
  PROVE  MovesOnce(u, m)
  <1>0. PICK p : IsCopy(p, hMsgs[c], offline[hUser[c]])
    BY DEF CopyOf, LoginClearOffline
  <1> DEFINE Comes(i) == i \in DOMAIN hMsgs[c] /\ At("stored", NoConn, p[i], u, m)
  <1>a. \A k, d, i : At(k, d, i, u, m)' =>
           \/ At(k, d, i, u, m) /\ ~(k = "stored" /\ u = hUser[c])
           \/ k = "reply" /\ d = c /\ u = hUser[c] /\ Comes(i)
    BY <1>0, LoginClearMoves
  <1> HIDE DEF Comes
  <1>1. CASE u = hUser[c] /\ \E j : Comes(j)
    <2>1. PICK j : Comes(j)
      BY <1>1
    <2>2. \A i : Comes(i) => i = j
      BY <1>0, <2>1 DEF Comes, AtMostOnce, IsCopy
    <2>3. NewAt("reply", c, j, u, m)
      BY <1>a, <2>2 DEF NewAt
    <2>4. At("stored", NoConn, p[j], u, m) /\ ~At("stored", NoConn, p[j], u, m)'
      BY <1>1, <1>a, <2>1 DEF Comes
    <2> QED  BY <2>3, <2>4 DEF MovesOnce, OneNew, Vacates
  <1>2. CASE ~(u = hUser[c] /\ \E j : Comes(j))
    BY <1>a, <1>2 DEF Stays, MovesOnce
  <1> QED  BY <1>1, <1>2

\* The messages of one kind at c go to the client, behind those of kind l that are there.
GoesTo(l, n, k0, c, u, m) ==
  \A k, d, i : At(k, d, i, u, m)' =>
     \/ At(k, d, i, u, m) /\ ~(k = k0 /\ d = c)
     \/ /\ k = l /\ d = NoConn
        /\ \E g \in Nat : g > 0 /\ i = n + g /\ At(k0, c, g, u, m)

LEMMA ShownOnce ==
  ASSUME NEW l \in {"shown", "fetched"}, NEW n, NEW k0 \in {"reply", "queued"}, NEW c, NEW u,
         NEW m, GoesTo(l, n, k0, c, u, m), AtMostOnce(u, m)
  PROVE  MovesOnce(u, m)
  <1>1. CASE \E g \in Nat : At(k0, c, g, u, m)
    <2>1. PICK g \in Nat : At(k0, c, g, u, m)
      BY <1>1
    <2>2. \A i : At(k0, c, i, u, m) => i = g
      BY <2>1 DEF AtMostOnce
    <2>3. PICK j : j = n + g
      OBVIOUS
    <2>4. NewAt(l, NoConn, j, u, m)
      BY <2>2, <2>3 DEF NewAt, GoesTo
    <2>5. ~At(k0, c, g, u, m)'
      BY DEF GoesTo
    <2> QED  BY <2>1, <2>4, <2>5 DEF MovesOnce, OneNew, Vacates
  <1>2. CASE ~\E g \in Nat : At(k0, c, g, u, m)
    BY <1>2 DEF GoesTo, Stays, MovesOnce
  <1> QED  BY <1>1, <1>2

\* The answer to the login takes the messages with it.
LEMMA LoginReplyMoves ==
  ASSUME TypeOK, NEW c \in Conns, LoginReply(c), NEW u \in Users, NEW m \in Msg
  PROVE  GoesTo("fetched", Len(fetched[u]), "reply", c, u, m)
  <1>0. TypeCallback /\ TypeHistory /\ Loop(c)
    BY DEF TypeOK, Loop, Login
  <1>1. PICK v \in Users, ms \in Seq(Msg) : v = hUser[c] /\ ms = hMsgs[c]
    BY <1>0 DEF LoginReply, TypeCallback, UserPCs
  <1>2. /\ pc[c] = "reply" /\ pc'[c] = "idle"
        /\ UNCHANGED <<queued, offline, received>>
        /\ UNCHANGED fetched \/ fetched' = [fetched EXCEPT ![v] = @ \o ms]
    BY <1>0, <1>1 DEF LoginReply, Return, Goto, TypeCallback, netVars, dbVars
  <1>3. HandsStay(u, m)
    BY <1>0, <1>2, HandsLetGo
  <1>4. QueuesStay(u, m) /\ StoreStays(u, m) /\ ScreenStays(u, m)
    BY <1>2 DEF QueuesStay, StoreStays, ScreenStays, AtQueue, AtStore, AtScreen
  <1>5. ASSUME NEW i, AtFetched(i, u, m)', ~AtFetched(i, u, m)
        PROVE  \E g \in Nat : g > 0 /\ i = Len(fetched[u]) + g /\ At("reply", c, g, u, m)
    <2>1. fetched[u] \in Seq(Msg) /\ i \in DOMAIN fetched'[u] /\ m = fetched'[u][i]
      BY <1>0, <1>5 DEF AtFetched, TypeHistory
    <2>2. u = v /\ fetched'[u] = fetched[u] \o ms
      BY <1>0, <1>2, <1>5 DEF AtFetched, TypeHistory
    <2>3. i - Len(fetched[u]) \in DOMAIN ms /\ m = ms[i - Len(fetched[u])]
      BY <1>5, <2>1, <2>2, ConcatPlaces DEF AtFetched
    <2>4. i \in Nat /\ Len(fetched[u]) \in Nat
      BY <2>1, <2>2
    <2>5. PICK g : g = i - Len(fetched[u])
      OBVIOUS
    <2>6. g \in Nat /\ g > 0 /\ i = Len(fetched[u]) + g
      BY <2>3, <2>4, <2>5
    <2>7. At("reply", c, g, u, m)
      BY <1>1, <1>2, <2>2, <2>3, <2>5 DEF At, AtHand
    <2> QED  BY <2>6, <2>7
  <1>6. \A i : ~At("reply", c, i, u, m)'
    BY <1>2 DEF At, AtHand
  <1> QED
    BY <1>3, <1>4, <1>5, <1>6 DEF GoesTo, HandsStay, QueuesStay, StoreStays, ScreenStays, At

\* doPendingFunctors takes the messages from the queue to the screen.
LEMMA RunPendingMoves ==
  ASSUME TypeOK, NEW c \in Conns, RunPending(c), NEW u \in Users, NEW m \in Msg
  PROVE  GoesTo("shown", Len(received[u]), "queued", c, u, m)
  <1>0. TypeNet /\ TypeHistory
    BY DEF TypeOK
  <1>1. /\ UNCHANGED <<pc, hUser, hMsgs, hTodo, offline, fetched>>
        /\ \A d \in Conns : queued'[d][u] = IF d = c THEN <<>> ELSE queued[d][u]
        /\ received' = received \/ received'[u] = received[u] \o queued[c][u]
    BY <1>0 DEF RunPending, localVars, dbVars, NoQueue, TypeNet
  <1>2. HandsStay(u, m) /\ StoreStays(u, m) /\ FetchedStays(u, m)
    BY <1>1, NothingFetched DEF HandsStay, StoreStays, AtHand, AtStore
  <1>3. QueuesStay(u, m) /\ \A i : ~At("queued", c, i, u, m)'
    BY <1>1 DEF QueuesStay, AtQueue, At, AtHand
  <1>4. ASSUME NEW i, AtScreen(i, u, m)', ~AtScreen(i, u, m)
        PROVE  \E g \in Nat : g > 0 /\ i = Len(received[u]) + g /\ At("queued", c, g, u, m)
    <2>1. PICK ms \in Seq(Msg) : ms = queued[c][u]
      BY <1>0 DEF TypeNet
    <2>2. received'[u] = received[u] \o ms /\ received[u] \in Seq(Msg)
      BY <1>0, <1>1, <1>4, <2>1 DEF AtScreen, TypeHistory
    <2>3. i \in DOMAIN (received[u] \o ms) /\ m = (received[u] \o ms)[i]
      BY <1>4, <2>2 DEF AtScreen
    <2>4. i - Len(received[u]) \in DOMAIN ms /\ m = ms[i - Len(received[u])]
      BY <1>4, <2>2, <2>3, ConcatPlaces DEF AtScreen
    <2>5. i \in Nat /\ Len(received[u]) \in Nat
      BY <2>2, <2>3
    <2>6. PICK g : g = i - Len(received[u])
      OBVIOUS
    <2>7. g \in Nat /\ g > 0 /\ i = Len(received[u]) + g
      BY <2>4, <2>5, <2>6
    <2>8. At("queued", c, g, u, m)
      BY <2>1, <2>4, <2>6 DEF At, AtQueue
    <2> QED  BY <2>7, <2>8
  <1> QED
    BY <1>2, <1>3, <1>4 DEF GoesTo, HandsStay, QueuesStay, StoreStays, FetchedStays, At

\* Every step moves a message that is in one place to another, drops it, or leaves it.
LEMMA MessageMoves ==
  ASSUME TypeOK, \A c \in Conns : OneMessage(c) /\ OwnMessages(c) /\ CopyOf(c), [Next]_vars,
         faults' = 0, NEW u \in Users, NEW m \in Msg, AtMostOnce(u, m), ~JoinedTwice(u, m)
  PROVE  MovesOnce(u, m)
  <1>1. CASE Process \/ UNCHANGED vars
    BY <1>1, ProcessLeavesMessages DEF MovesOnce
  <1>2. ASSUME NEW c \in Conns, Client(c) \/ Loop(c)
        PROVE  MovesOnce(u, m)
    <2>1. CASE Client(c) \/ Leave(c)
      BY <2>1, OthersLeaveMessages DEF MovesOnce
    <2>2. CASE Login(c)
      BY <2>2, OthersLeaveMessages, LoginClearPlaces, LoginReplyMoves, ShownOnce DEF MovesOnce
    <2>3. CASE Chat(c)
      <3>1. CASE AddGroup(c) \/ GroupLock(c) \/ GroupUnlock(c)
        BY <3>1, OthersLeaveMessages DEF MovesOnce
      <3>2. CASE OneChat(c) \/ StoreOffline(c) \/ GroupQuery(c)
        BY <3>2, OneChatPlaces, StoreOfflinePlaces, GroupQueryPlaces, DeliversOne DEF MovesOnce
      <3>3. ASSUME NEW v \in Users, GroupEach(c, v)
            PROVE  MovesOnce(u, m)
        BY <3>3, GroupEachPlaces, DeliversOne DEF MovesOnce
      <3> QED  BY <2>3, <3>1, <3>2, <3>3 DEF Chat
    <2>4. CASE RunPending(c)
      BY <2>4, RunPendingMoves, ShownOnce
    <2> QED  BY <1>2, <2>1, <2>2, <2>3, <2>4 DEF Loop
  <1> QED  BY <1>1, <1>2 DEF Next

\* The query reads each row once.
LEMMA QueryReadsEachOnce ==
  ASSUME NEW q, NEW s \in Orders(q)
  PROVE  \E p : IsCopy(p, s, q)
  <1>1. PICK p \in Bijection(DOMAIN q, DOMAIN q) : s = [i \in DOMAIN q |-> q[p[i]]]
    BY DEF Orders
  <1>2. /\ \A i \in DOMAIN q : p[i] \in DOMAIN q
        /\ \A i, j \in DOMAIN q : p[i] = p[j] => i = j
    BY DEF Bijection, Injection, Surjection, IsInjective
  <1> QED  BY <1>1, <1>2 DEF IsCopy

\* Nobody deletes behind a login's back: whoever deletes runs in the same loop.
LEMMA CopyOfStep ==
  ASSUME SharersShareLoop, ConnsInOrder, OneCallback, \A c \in Conns : CopyOf(c), [Next]_vars,
         NEW d \in Conns
  PROVE  CopyOf(d)'
  <1> SUFFICES ASSUME pc'[d] = "clearOffline"
               PROVE  \E p : IsCopy(p, hMsgs'[d], offline'[hUser'[d]])
    BY DEF CopyOf, IsCopy
  <1>0. TypeOK /\ TypeDb /\ TypeCallback
    BY DEF ConnsInOrder, TypeOK
  <1>1. ~Exit /\ ~Crash
    BY DEF Exit, Crash, Down
  <1>2. Same(d) \/ LoginReadOffline(d)
    BY <1>0, <1>1, CallbackComes
  <1>3. CASE LoginReadOffline(d)
    <2>1. hUser'[d] = hUser[d] /\ UNCHANGED offline /\ hUser[d] \in Users
      BY <1>0, <1>3 DEF LoginReadOffline, TypeCallback, UserPCs
    <2>2. offline[hUser[d]] \in Seq(Msg)
      BY <1>0, <2>1 DEF TypeDb
    <2>3. hMsgs'[d] \in Orders(offline[hUser[d]]) \/ hMsgs'[d] = <<>>
      BY <1>0, <1>3 DEF LoginReadOffline, OfflineQuery, TypeCallback
    <2>4. CASE hMsgs'[d] = <<>>
      BY <2>4 DEF IsCopy
    <2>5. CASE hMsgs'[d] \in Orders(offline[hUser[d]])
      BY <2>1, <2>5, QueryReadsEachOnce
    <2> QED  BY <2>3, <2>4, <2>5
  <1>4. CASE Same(d)
    <2>1. pc[d] = "clearOffline" /\ hUser'[d] = hUser[d] /\ hMsgs'[d] = hMsgs[d]
      BY <1>4 DEF Same
    <2>2. PICK u \in Users : u = hUser[d]
      BY <1>0, <2>1 DEF TypeCallback, UserPCs
    <2>3. PICK p : IsCopy(p, hMsgs[d], offline[u])
      BY <2>1, <2>2 DEF CopyOf
    <2>4. CASE offline'[u] = offline[u]
      BY <2>1, <2>2, <2>3, <2>4
    <2>5. ASSUME NEW n \in Msg, offline'[u] = Append(offline[u], n)
          PROVE  IsCopy(p, hMsgs[d], offline'[u])
      <3>1. offline[u] \in Seq(Msg)
        BY <1>0 DEF TypeDb
      <3>2. \A i \in DOMAIN offline[u] : i \in DOMAIN offline'[u] /\ offline'[u][i] = offline[u][i]
        BY <2>5, <3>1
      <3> QED  BY <2>3, <3>2 DEF IsCopy
    <2>6. ASSUME NEW c \in Conns, LoginClearOffline(c), hUser[c] = u
          PROVE  FALSE
      <3>1. pc[c] = "clearOffline" /\ pc'[c] = "reply"
        BY <1>0, <2>6 DEF LoginClearOffline, Goto, TypeCallback
      <3>2. u \in AccountsOf[c] /\ u \in AccountsOf[d]
        BY <2>1, <2>2, <2>6, <3>1 DEF ConnsInOrder, ActsForItself, LoginPCs
      <3>3. c = d
        BY <2>1, <3>1, <3>2 DEF SharersShareLoop, OneCallback
      <3> QED  BY <3>1, <3>3
    <2>7. ASSUME NEW c \in Conns, \/ StoreOffline(c)
                                  \/ \E v \in Users : GroupEach(c, v)
          PROVE  Head(hMsgs[c]) \in Msg
      BY <1>0, <2>7 DEF StoreOffline, GroupEach, TypeCallback, MsgPCs
    <2> QED  BY <1>0, <2>1, <2>2, <2>4, <2>5, <2>6, <2>7, OfflineMoves
  <1> QED  BY <1>2, <1>3, <1>4

\* A request that waits, with message m in it.
WaitsAt(c, i, m) ==
  /\ i \in DOMAIN req[c]
  /\ req[c][i].type \in {"ONE_CHAT_MSG", "GROUP_CHAT_MSG"}
  /\ req[c][i].msg = m
Waiting(m) == \E c \in Conns : \E i : WaitsAt(c, i, m)

\* Every message is sent once ...
WaitsOnce(m) ==
  \A c, d \in Conns : \A i, j : WaitsAt(c, i, m) /\ WaitsAt(d, j, m) => c = d /\ i = j
\* ... and has a number given out before.
Numbered(m) == m.n < nextMsg

\* A read takes some requests from the front.
LEMMA ConsumePrefix ==
  ASSUME TypeNet, NEW c \in Conns, NEW type, Handles(c, type), Consume(c)
  PROVE  \E h \in Nat :
            /\ h > 0
            /\ \A d \in Conns \ {c} : req'[d] = req[d]
            /\ \A i \in DOMAIN req'[c] :
                  i \in Nat /\ i > 0 /\ i + h \in DOMAIN req[c] /\ req'[c][i] = req[c][i + h]
  <1>0. Len(req[c]) \in Nat
    BY DEF TypeNet
  <1>1. PICK h \in 1 .. Len(req[c]) :
            /\ req' = [req EXCEPT ![c] = SubSeq(req[c], h + 1, Len(req[c]))]
            /\ DOMAIN req'[c] = 1 .. (Len(req[c]) - h)
            /\ \A i \in DOMAIN req'[c] : i + h \in DOMAIN req[c] /\ req'[c][i] = req[c][i + h]
    BY ConsumeTakes
  <1>2. h \in Nat /\ h > 0 /\ \A d \in Conns \ {c} : req'[d] = req[d]
    BY <1>0, <1>1 DEF TypeNet
  <1>3. ASSUME NEW i \in DOMAIN req'[c]
        PROVE  i \in Nat /\ i > 0 /\ i + h \in DOMAIN req[c] /\ req'[c][i] = req[c][i + h]
    BY <1>0, <1>1
  <1> QED  BY <1>2, <1>3

\* A message waits where it did, some places further up, or has the next number.
LEMMA WaitingStep ==
  ASSUME TypeOK, [Next]_vars, NEW m \in Msg, WaitsOnce(m), Waiting(m) => Numbered(m)
  PROVE  /\ WaitsOnce(m)'
         /\ Waiting(m)' => Waiting(m) \/ (m.n = nextMsg /\ nextMsg' = nextMsg + 1)
         /\ Numbered(m) => Numbered(m)'
  <1>0. TypeNet /\ nextMsg \in Nat /\ m.n \in Nat
    BY ConstantsAssumption DEF TypeOK, TypeClient, Msg
  <1>1. CASE (\A d \in Conns : req'[d] \in {req[d], <<>>}) /\ UNCHANGED nextMsg
    <2>1. \A d \in Conns : \A i : WaitsAt(d, i, m)' => WaitsAt(d, i, m)
      BY <1>1 DEF WaitsAt
    <2> QED  BY <1>1, <2>1 DEF WaitsOnce, Waiting, Numbered
  <1>2. ASSUME NEW c \in Conns, NEW r, Send(c, r), CarriesNew(c, r)
        PROVE  /\ WaitsOnce(m)'
               /\ Waiting(m)' => Waiting(m) \/ (m.n = nextMsg /\ nextMsg' = nextMsg + 1)
               /\ Numbered(m) => Numbered(m)'
    <2>1. \A d \in Conns : \A i : WaitsAt(d, i, m)' =>
             \/ WaitsAt(d, i, m)
             \/ d = c /\ i = Len(req[c]) + 1 /\ m.n = nextMsg /\ nextMsg' = nextMsg + 1
      <3> SUFFICES ASSUME NEW d \in Conns, NEW i, WaitsAt(d, i, m)'
                   PROVE  \/ WaitsAt(d, i, m)
                          \/ d = c /\ i = Len(req[c]) + 1 /\ m.n = nextMsg /\ nextMsg' = nextMsg + 1
        OBVIOUS
      <3>1. /\ i \in DOMAIN req'[d] /\ req'[d][i].msg = m
            /\ req'[d][i].type \in {"ONE_CHAT_MSG", "GROUP_CHAT_MSG"}
        BY DEF WaitsAt
      <3>2. \/ i \in DOMAIN req[d] /\ req'[d][i] = req[d][i]
            \/ d = c /\ i = Len(req[c]) + 1 /\ req'[d][i] = r
        BY <1>0, <1>2, <3>1, SendAppends
      <3> QED  BY <1>2, <3>1, <3>2 DEF WaitsAt, CarriesNew
    <2>2. Waiting(m)' => Waiting(m) \/ (m.n = nextMsg /\ nextMsg' = nextMsg + 1)
      BY <2>1 DEF Waiting
    <2>3. nextMsg' \in {nextMsg, nextMsg + 1} \/ UNCHANGED nextMsg
      BY <1>2 DEF CarriesNew
    <2>4. Numbered(m) => Numbered(m)'
      BY <1>0, <2>3 DEF Numbered
    <2>5. m.n = nextMsg => ~Waiting(m)
      BY <1>0 DEF Numbered
    <2>6. WaitsOnce(m)'
      BY <2>1, <2>5 DEF WaitsOnce, Waiting
    <2> QED  BY <2>2, <2>4, <2>6
  <1>3. ASSUME NEW c \in Conns, NEW type, Handles(c, type), Consume(c), UNCHANGED nextMsg
        PROVE  /\ WaitsOnce(m)'
               /\ Waiting(m)' => Waiting(m)
               /\ Numbered(m) => Numbered(m)'
    <2>0. PICK h \in Nat :
            /\ \A d \in Conns \ {c} : req'[d] = req[d]
            /\ \A i \in DOMAIN req'[c] :
                  i \in Nat /\ i + h \in DOMAIN req[c] /\ req'[c][i] = req[c][i + h]
      BY <1>0, <1>3, ConsumePrefix
    <2>1. ASSUME NEW d \in Conns, NEW i, WaitsAt(d, i, m)'
          PROVE  /\ d # c => WaitsAt(d, i, m)
                 /\ d = c => WaitsAt(c, i + h, m) /\ i \in Nat
      <3>1. /\ i \in DOMAIN req'[d] /\ req'[d][i].msg = m
            /\ req'[d][i].type \in {"ONE_CHAT_MSG", "GROUP_CHAT_MSG"}
        BY <2>1 DEF WaitsAt
      <3> QED  BY <2>0, <3>1 DEF WaitsAt
    <2>2. Waiting(m)' => Waiting(m)
      BY <2>1 DEF Waiting
    <2>3. Numbered(m) => Numbered(m)'
      BY <1>3 DEF Numbered
    <2>4. WaitsOnce(m)'
      <3> SUFFICES ASSUME NEW d \in Conns, NEW e \in Conns, NEW i, NEW j,
                          WaitsAt(d, i, m)', WaitsAt(e, j, m)'
                   PROVE  d = e /\ i = j
        BY DEF WaitsOnce
      <3>1. d = e
        BY <2>1 DEF WaitsOnce
      <3>2. CASE d = c
        <4>1. i + h = j + h /\ i \in Nat /\ j \in Nat
          BY <2>1, <3>1, <3>2 DEF WaitsOnce
        <4> QED  BY <3>1, <4>1
      <3>3. CASE d # c
        BY <2>1, <3>1, <3>3 DEF WaitsOnce
      <3> QED  BY <3>2, <3>3
    <2> QED  BY <2>2, <2>3, <2>4
  <1> QED  BY <1>1, <1>2, <1>3, RequestsMove

\* A message that a handler takes up waited, and waits no longer.
LEMMA TakenUp ==
  ASSUME TypeOK, NEW m \in Msg, WaitsOnce(m), NEW c \in Conns, TakesUp(c, m)
  PROVE  Waiting(m) /\ ~Waiting(m)'
  <1>0. TypeNet
    BY DEF TypeOK
  <1>1. PICK type \in {"ONE_CHAT_MSG", "GROUP_CHAT_MSG"} : Handles(c, type) /\ Consume(c)
    BY DEF TakesUp, OneChat, GroupQuery
  <1>2. req[c] \in Seq(Request) /\ req[c] # <<>> /\ Head(req[c]).type = type
    BY <1>0, <1>1 DEF Handles, TypeNet
  <1>3. 1 \in DOMAIN req[c] /\ req[c][1] = Head(req[c])
    BY <1>2
  <1>4. WaitsAt(c, 1, m)
    BY <1>1, <1>2, <1>3 DEF WaitsAt, TakesUp
  <1>5. ASSUME NEW d \in Conns, NEW i, WaitsAt(d, i, m)'
        PROVE  FALSE
    <2>1. /\ i \in DOMAIN req'[d] /\ req'[d][i].msg = m
          /\ req'[d][i].type \in {"ONE_CHAT_MSG", "GROUP_CHAT_MSG"}
      BY <1>5 DEF WaitsAt
    <2>2. PICK h \in Nat :
            /\ h > 0
            /\ \A e \in Conns \ {c} : req'[e] = req[e]
            /\ \A g \in DOMAIN req'[c] :
                  g \in Nat /\ g > 0 /\ g + h \in DOMAIN req[c] /\ req'[c][g] = req[c][g + h]
      BY <1>0, <1>1, ConsumePrefix
    <2>3. CASE d # c
      BY <1>4, <2>1, <2>2, <2>3 DEF WaitsAt, WaitsOnce
    <2>4. CASE d = c
      <3>1. WaitsAt(c, i + h, m) /\ i \in Nat
        BY <2>1, <2>2, <2>4 DEF WaitsAt
      <3>2. i + h = 1
        BY <1>4, <3>1 DEF WaitsOnce
      <3> QED  BY <2>1, <2>2, <2>4, <3>1, <3>2
    <2> QED  BY <2>3, <2>4
  <1> QED  BY <1>4, <1>5 DEF Waiting

\* What the theorem rests on: a message is in one request, or in one place for each
\* recipient who has not joined a group twice, not in both, and has a number given out
\* before.
OneRequestEach ==
  \A m \in Msg : WaitsOnce(m) /\ (Waiting(m) => Numbered(m))
OnePlaceEach ==
  \A u \in Users, m \in Msg : ~JoinedTwice(u, m) =>
     /\ AtMostOnce(u, m)
     /\ Underway(u, m) => Numbered(m) /\ ~Waiting(m)
MessagesApart ==
  /\ ConnsInOrder /\ OneCallback /\ OneRequestEach
  /\ \A c \in Conns : OneMessage(c) /\ OwnMessages(c) /\ CopyOf(c)
  /\ faults = 0 => OnePlaceEach

\* Nobody ever leaves a group.
LEMMA MembersStay ==
  ASSUME TypeOK, [Next]_vars, NEW u \in Users, NEW m, JoinedTwice(u, m)
  PROVE  JoinedTwice(u, m)'
  <1> USE DEF dbVars
  <1>0. TypeDb /\ TypeNet
    BY DEF TypeOK
  <1>1. PICK g \in Groups : m.kind = "groupchat" /\ members[g][u] > 1
    BY DEF JoinedTwice
  <1>2. ASSUME NEW c \in Conns, AddGroup(c) PROVE members'[g][u] > 1
    <2>1. PICK v, h : members' = AddMember(members, v, h) \/ UNCHANGED members
      BY <1>2 DEF AddGroup
    <2>2. members[g] \in [Users -> Nat] /\ DOMAIN members = Groups
      BY <1>0 DEF TypeDb
    <2>3. CASE members' = AddMember(members, v, h)
      <3>1. members'[g] = IF g = h THEN [members[g] EXCEPT ![v] = @ + 1] ELSE members[g]
        BY <2>2, <2>3 DEF AddMember
      <3>2. members'[g][u] \in {members[g][u], members[g][u] + 1}
        BY <2>2, <3>1
      <3>3. members[g][u] \in Nat
        BY <2>2
      <3> QED  BY <1>1, <3>2, <3>3
    <2> QED  BY <1>1, <2>1, <2>3
  <1>3. ASSUME NEW c \in Conns, Client(c) \/ Leave(c) \/ RunPending(c) PROVE UNCHANGED members
    BY <1>3 DEF Client, Connect, SendLogin, SendLogout, SendOneChat, SendGroupChat,
                SendAddGroup, Quit, Leave, LogoutErase, LogoutUpdate, CloseErase, CloseUpdate,
                RunPending
  <1>4. ASSUME NEW c \in Conns, Login(c) PROVE UNCHANGED members
    BY <1>4 DEF Login, LoginQuery, LoginRefuse, LoginReject, LoginEmplace, LoginSetOnline,
                LoginReadOffline, LoginClearOffline, LoginReply
  <1>5. ASSUME NEW c \in Conns, Chat(c), ~AddGroup(c) PROVE UNCHANGED members
    BY <1>5 DEF Chat, OneChat, StoreOffline, GroupQuery, GroupLock, GroupEach, GroupUnlock
  <1>6. ASSUME Process \/ UNCHANGED vars PROVE UNCHANGED members
    BY <1>6 DEF Process, Interrupt, Exit, Crash, Restart, vars
  <1>7. members'[g][u] > 1
    BY <1>1, <1>2, <1>3, <1>4, <1>5, <1>6 DEF Next, Loop
  <1> QED  BY <1>1, <1>7 DEF JoinedTwice

\* Nothing is under way at the start ...
LEMMA MessagesApartInit == Init => MessagesApart
  <1> SUFFICES ASSUME Init PROVE MessagesApart
    OBVIOUS
  <1>1. ConnsInOrder
    BY SessionsInit
  <1>2. OneCallback /\ \A c \in Conns : OneMessage(c) /\ OwnMessages(c) /\ CopyOf(c)
    BY DEF Init, OneCallback, OneMessage, OwnMessages, OwnInHand, CopyOf, MsgPCs
  <1>3. \A m \in Msg : ~Waiting(m) /\ WaitsOnce(m)
    BY DEF Init, Waiting, WaitsOnce, WaitsAt
  <1>4. ASSUME NEW u \in Users, NEW m \in Msg
        PROVE  ~Underway(u, m)
    <2>1. \A k, c, i : ~AtHand(k, c, i, u, m)
      BY DEF Init, AtHand
    <2>2. \A c, i : /\ ~AtQueue(c, i, u, m) /\ ~AtStore(i, u, m)
                    /\ ~AtScreen(i, u, m) /\ ~AtFetched(i, u, m)
      BY DEF Init, AtQueue, AtStore, AtScreen, AtFetched, NoQueue
    <2> QED  BY <2>1, <2>2 DEF Underway, At
  <1>5. OnePlaceEach
    BY <1>4 DEF OnePlaceEach, AtMostOnce, Underway
  <1> QED  BY <1>1, <1>2, <1>3, <1>5 DEF MessagesApart, OneRequestEach

\* ... and every step keeps the messages apart.
LEMMA MessagesApartStep ==
  ASSUME SharersShareLoop
  PROVE  MessagesApart /\ [Next]_vars => MessagesApart'
  <1> SUFFICES ASSUME MessagesApart, [Next]_vars PROVE MessagesApart'
    OBVIOUS
  <1>0. /\ ConnsInOrder /\ TypeOK /\ OneCallback
        /\ \A c \in Conns : OneMessage(c) /\ OwnMessages(c) /\ CopyOf(c)
    BY DEF MessagesApart, ConnsInOrder
  <1>1. /\ ConnsInOrder' /\ OneCallback'
        /\ \A c \in Conns : OneMessage(c)' /\ OwnMessages(c)' /\ CopyOf(c)'
    BY <1>0, ConnsInOrderStep, OneCallbackStep, OneMessageStep, OwnMessagesStep, CopyOfStep
  <1>2. ASSUME NEW m \in Msg
        PROVE  /\ WaitsOnce(m) /\ (Waiting(m) => Numbered(m))
               /\ WaitsOnce(m)'
               /\ Waiting(m)' => Waiting(m) \/ (m.n = nextMsg /\ nextMsg' = nextMsg + 1)
               /\ Numbered(m) => Numbered(m)'
    BY <1>0, WaitingStep DEF MessagesApart, OneRequestEach
  <1>3. nextMsg \in Nat
    BY <1>0, ConstantsAssumption DEF TypeOK, TypeClient
  <1>4. OneRequestEach'
    <2>1. ASSUME NEW m \in Msg, Waiting(m)'
          PROVE  Numbered(m)'
      <3>1. m.n = nextMsg /\ nextMsg' = nextMsg + 1 => Numbered(m)'
        BY <1>3 DEF Numbered
      <3> QED  BY <1>2, <2>1, <3>1
    <2> QED  BY <1>2, <2>1 DEF OneRequestEach
  <1>5. ASSUME faults' = 0, NEW u \in Users, NEW m \in Msg, ~JoinedTwice(u, m)'
        PROVE  /\ AtMostOnce(u, m)'
               /\ Underway(u, m)' => Numbered(m)' /\ ~Waiting(m)'
    <2>1. faults = 0
      BY <1>0, <1>5, NoFaultBefore
    <2>0. ~JoinedTwice(u, m)
      BY <1>0, <1>5, MembersStay
    <2>2. AtMostOnce(u, m) /\ (Underway(u, m) => Numbered(m) /\ ~Waiting(m))
      BY <2>0, <2>1 DEF MessagesApart, OnePlaceEach
    <2>3. MovesOnce(u, m)
      BY <1>0, <1>5, <2>0, <2>2, MessageMoves
    <2>4. ASSUME NEW c \in Conns, TakesUp(c, m)
          PROVE  Waiting(m) /\ ~Waiting(m)'
      BY <1>0, <1>2, <2>4, TakenUp
    <2>5. AtMostOnce(u, m)'
      <3>1. \A c \in Conns : TakesUp(c, m) => ~Underway(u, m)
        BY <2>2, <2>4
      <3> QED  BY <2>2, <2>3, <3>1, OnceRemains
    <2>6. ASSUME Underway(u, m)'
          PROVE  Numbered(m)' /\ ~Waiting(m)'
      <3>1. Underway(u, m) \/ \E c \in Conns : TakesUp(c, m)
        BY <2>3, <2>6, UnderwayBefore
      <3>2. CASE Underway(u, m)
        <4>1. m.n # nextMsg
          BY <1>3, <2>2, <3>2 DEF Numbered
        <4> QED  BY <1>2, <2>2, <3>2, <4>1
      <3>3. ASSUME NEW c \in Conns, TakesUp(c, m)
            PROVE  Numbered(m)' /\ ~Waiting(m)'
        BY <1>2, <2>4, <3>3
      <3> QED  BY <3>1, <3>2, <3>3
    <2> QED  BY <2>5, <2>6
  <1> QED  BY <1>1, <1>4, <1>5 DEF MessagesApart, OnePlaceEach

\* As long as no statement has failed, nobody is sent a message twice, forwarded or with
\* the answer to a login, whoever is logging in or out while it is delivered, and also when
\* the server crashes or is interrupted in between: a handler forwards the message or stores
\* it, and login sends what it has deleted.  Excepted are the members that groupUser holds
\* twice.  The account is used from one event loop only; two loops could both read the
\* message before either deletes it.
THEOREM NoDuplicatesHolds ==
  ASSUME SharersShareLoop
  PROVE  Spec => [](faults = 0 => NoDuplicates)
  <1>1. ASSUME MessagesApart, faults = 0
        PROVE  NoDuplicates
    <2> SUFFICES ASSUME NEW u \in Users, NEW i \in DOMAIN (received[u] \o fetched[u]),
                        NEW j \in DOMAIN (received[u] \o fetched[u]),
                        (received[u] \o fetched[u])[i] = (received[u] \o fetched[u])[j],
                        ~JoinedTwice(u, (received[u] \o fetched[u])[i])
                 PROVE  i = j
      BY DEF NoDuplicates
    <2>0. received[u] \in Seq(Msg) /\ fetched[u] \in Seq(Msg)
      BY <1>1 DEF MessagesApart, ConnsInOrder, TypeOK, TypeHistory
    <2>m. PICK m : m = (received[u] \o fetched[u])[i]
      OBVIOUS
    <2>1. m \in Msg /\ ~JoinedTwice(u, m)
      <3>1. received[u] \o fetched[u] \in Seq(Msg)
        BY <2>0
      <3>2. \A s \in Seq(Msg) : \A h \in DOMAIN s : s[h] \in Msg
        OBVIOUS
      <3> QED  BY <2>m, <3>1, <3>2
    <2>2. AtMostOnce(u, m)
      BY <1>1, <2>1 DEF MessagesApart, OnePlaceEach
    <2>3. ASSUME NEW h \in {i, j}
          PROVE  \/ h \in DOMAIN received[u] /\ At("shown", NoConn, h, u, m)
                 \/ /\ h - Len(received[u]) \in DOMAIN fetched[u]
                    /\ At("fetched", NoConn, h - Len(received[u]), u, m)
      <3>1. h \in DOMAIN (received[u] \o fetched[u]) /\ m = (received[u] \o fetched[u])[h]
        BY <2>m, <2>3
      <3>2. \/ h \in DOMAIN received[u] /\ m = received[u][h]
            \/ /\ h - Len(received[u]) \in DOMAIN fetched[u]
               /\ m = fetched[u][h - Len(received[u])]
        <4>1. PICK ms \in Seq(Msg), ns \in Seq(Msg) : ms = received[u] /\ ns = fetched[u]
          BY <2>0
        <4>2. h \in DOMAIN (ms \o ns) /\ m = (ms \o ns)[h]
          BY <3>1, <4>1
        <4>3. \/ h \in DOMAIN ms /\ m = ms[h]
              \/ h - Len(ms) \in DOMAIN ns /\ m = ns[h - Len(ms)]
          BY <4>2, ConcatPlaces
        <4> QED  BY <4>1, <4>3
      <3> QED  BY <3>2 DEF At, AtScreen, AtFetched
    <2>4. i \in Nat /\ j \in Nat /\ Len(received[u]) \in Nat
      BY <2>0
    <2>5. \/ i = j
          \/ i - Len(received[u]) = j - Len(received[u])
      BY <2>2, <2>3 DEF AtMostOnce
    <2> QED  BY <2>4, <2>5
  <1> QED  BY <1>1, MessagesApartInit, MessagesApartStep, PTL DEF Spec

-----------------------------------------------------------------------------
(***************************************************************************)
(* What one writer sends is forwarded in the order it was written.         *)
(***************************************************************************)

\* Message a is not younger than b, where both have one writer.
Before(a, b) == a.from = b.from => a.n <= b.n
Sorted(s) == \A i, j \in DOMAIN s : i < j => Before(s[i], s[j])

\* A message that connection c has yet to deal with, and where it stands in line: in a
\* callback that forwards it to a group, or in a request.
ComesAt(c, i, m) ==
  \/ i = 0 /\ pc[c] \in {"groupLock", "groupLoop"} /\ m = Head(hMsgs[c])
  \/ WaitsAt(c, i, m)
First(c, m) ==
  \/ ComesAt(c, 0, m)
  \/ ComesAt(c, 1, m) /\ pc[c] = "idle"

\* A message forwarded to u.
Sent(u, m) == m \in Entries(received[u]) \/ \E d \in Conns : InQueue(d, u, m)

\* What the theorem rests on: messages stand in line as they were written, what was
\* forwarded was before them, and numbers are given out in turn ...
ComesInOrder ==
  \A c \in Conns : \A i, j, a, b :
     ComesAt(c, i, a) /\ ComesAt(c, j, b) /\ i < j => Before(a, b)
SentBefore ==
  \A u \in Users, c \in Conns : \A i, a, b : Sent(u, a) /\ ComesAt(c, i, b) => Before(a, b)
AllNumbered ==
  \A m : (\E u \in Users : Sent(u, m)) \/ (\E c \in Conns : \E i : ComesAt(c, i, m))
            => Numbered(m)
\* ... and what is posted to u's connection came from another loop, and goes behind what
\* the client has.
PostedElsewhere ==
  \A u \in Users, d \in Conns : \A m : InQueue(d, u, m) =>
     /\ u \in AccountsOf[d]
     /\ \A c \in Conns : m.from \in AccountsOf[c] => LoopOf[c] # LoopOf[d]
SentInOrder ==
  \A u \in Users :
     /\ Sorted(received[u])
     /\ \A d \in Conns : Sorted(queued[d][u])
     /\ \A d \in Conns : \A a \in Entries(received[u]), b \in Entries(queued[d][u]) : Before(a, b)
WritersInOrder ==
  /\ ConnsInOrder /\ \A c \in Conns : OwnMessages(c)
  /\ ComesInOrder /\ SentBefore /\ AllNumbered /\ PostedElsewhere /\ SentInOrder

\* Messages stand in line at the numbers from 0.
LEMMA ComesTypes ==
  ASSUME TypeOK, NEW c \in Conns, NEW i, NEW m, ComesAt(c, i, m)
  PROVE  m \in Msg /\ i \in Nat /\ (i = 0 => pc[c] \in {"groupLock", "groupLoop"})
  <1>0. TypeNet /\ TypeCallback
    BY DEF TypeOK
  <1>1. CASE WaitsAt(c, i, m)
    <2>1. i \in Nat /\ i # 0 /\ req[c][i] \in Request
      BY <1>0, <1>1 DEF WaitsAt, TypeNet
    <2> QED  BY <1>1, <2>1, RequestTypes DEF WaitsAt
  <1>2. CASE i = 0 /\ pc[c] \in {"groupLock", "groupLoop"} /\ m = Head(hMsgs[c])
    <2>1. hMsgs[c] \in Seq(Msg) /\ hMsgs[c] # <<>>
      BY <1>0, <1>2 DEF TypeCallback, MsgPCs
    <2> QED  BY <1>2, <2>1
  <1> QED  BY <1>1, <1>2 DEF ComesAt

\* Where two stand at one place they are one.
LEMMA FirstIsBefore ==
  ASSUME TypeOK, ComesInOrder, NEW c \in Conns, NEW m, First(c, m), NEW i, NEW b,
         ComesAt(c, i, b)
  PROVE  Before(m, b)
  <1>0. i \in Nat /\ (i = 0 => pc[c] \in {"groupLock", "groupLoop"})
    BY ComesTypes
  <1>1. ASSUME NEW k \in {0, 1}, ComesAt(c, k, m), i = k PROVE Before(m, b)
    <2>1. TypeNet
      BY DEF TypeOK
    <2>2. 0 \notin DOMAIN req[c]
      BY <2>1 DEF TypeNet
    <2>3. m = b
      BY <1>1, <2>2 DEF ComesAt, WaitsAt
    <2>4. m \in Msg
      BY <1>1, ComesTypes
    <2> QED  BY <2>3, <2>4, ConstantsAssumption DEF Before, Msg
  <1>2. ASSUME NEW k \in {0, 1}, ComesAt(c, k, m), k < i PROVE Before(m, b)
    BY <1>2 DEF ComesInOrder
  <1> QED  BY <1>0, <1>1, <1>2 DEF First

\* A step leaves the line as it is, but for a message with the next number at the end, or
\* takes some away at the front.
LEMMA ComingMoves ==
  ASSUME TypeOK, [Next]_vars, NEW d \in Conns
  PROVE  \/ \A i, m : ComesAt(d, i, m)' =>
               ComesAt(d, i, m) \/ (i = Len(req[d]) + 1 /\ m.n = nextMsg /\ nextMsg' = nextMsg + 1)
         \/ \E h \in Nat : h > 0 /\ \A i, m : ComesAt(d, i, m)' =>
               (i > 0 /\ ComesAt(d, i + h, m)) \/ (i = 0 /\ ComesAt(d, 1, m))
  <1>0. TypeNet /\ TypeCallback
    BY DEF TypeOK
  <1>1. ASSUME NEW m, ~GroupQuery(d), pc'[d] \in {"groupLock", "groupLoop"}, m = Head(hMsgs'[d])
        PROVE  ComesAt(d, 0, m)
    <2>1. ~Exit /\ ~Crash
      BY <1>1 DEF Exit, Crash, Down
    <2>2. CASE Same(d)
      BY <1>1, <2>2 DEF Same, ComesAt
    <2>3. CASE GroupLock(d)
      BY <1>1, <2>3 DEF GroupLock, ComesAt, localVars
    <2>4. CASE \E u \in Users : GroupEach(d, u)
      BY <1>1, <2>4 DEF GroupEach, ComesAt
    <2> QED  BY <1>1, <2>1, <2>2, <2>3, <2>4, CallbackComes
  <1>2. ASSUME NEW type, Handles(d, type), Consume(d),
               \/ ~GroupQuery(d)
               \/ GroupQuery(d) /\ ComesAt(d, 1, Head(hMsgs'[d]))
        PROVE  \E h \in Nat : h > 0 /\ \A i, m : ComesAt(d, i, m)' =>
                 (i > 0 /\ ComesAt(d, i + h, m)) \/ (i = 0 /\ ComesAt(d, 1, m))
    <2>1. PICK h \in Nat :
            /\ h > 0
            /\ \A i \in DOMAIN req'[d] :
                  i \in Nat /\ i > 0 /\ i + h \in DOMAIN req[d] /\ req'[d][i] = req[d][i + h]
      BY <1>0, <1>2, ConsumePrefix
    <2>2. pc[d] = "idle"
      BY <1>2 DEF Handles, Ready, LoopFree
    <2>3. \A m : ~ComesAt(d, 0, m)
      BY <2>2, ComesTypes
    <2>4. ASSUME NEW i, NEW m, ComesAt(d, i, m)'
          PROVE  (i > 0 /\ ComesAt(d, i + h, m)) \/ (i = 0 /\ ComesAt(d, 1, m))
      <3>1. CASE WaitsAt(d, i, m)'
        BY <2>1, <3>1 DEF WaitsAt, ComesAt
      <3>2. CASE i = 0 /\ pc'[d] \in {"groupLock", "groupLoop"} /\ m = Head(hMsgs'[d])
        BY <1>1, <1>2, <2>3, <3>2
      <3> QED  BY <2>4, <3>1, <3>2 DEF ComesAt
    <2> QED  BY <2>1, <2>4
  <1>3. CASE GroupQuery(d)
    <2>1. Handles(d, "GROUP_CHAT_MSG") /\ Consume(d)
      BY <1>3 DEF GroupQuery
    <2>2. req[d] \in Seq(Request) /\ req[d] # <<>>
      BY <1>0, <2>1 DEF Handles, TypeNet
    <2>3. 1 \in DOMAIN req[d] /\ req[d][1] = Head(req[d])
      BY <2>2
    <2>4. Head(hMsgs'[d]) = Head(req[d]).msg
      BY <1>0, <1>3 DEF GroupQuery, TypeCallback
    <2>5. ComesAt(d, 1, Head(hMsgs'[d]))
      BY <2>1, <2>3, <2>4 DEF ComesAt, WaitsAt, Handles
    <2> QED  BY <1>2, <1>3, <2>1, <2>5
  <1>4. CASE ~GroupQuery(d)
    <2>1. ASSUME req'[d] \in {req[d], <<>>}, NEW i, NEW m, ComesAt(d, i, m)'
          PROVE  ComesAt(d, i, m)
      BY <1>1, <1>4, <2>1 DEF ComesAt, WaitsAt
    <2>2. ASSUME NEW c \in Conns, NEW r, Send(c, r), CarriesNew(c, r), NEW i, NEW m,
                 ComesAt(d, i, m)'
          PROVE  \/ ComesAt(d, i, m)
                 \/ i = Len(req[d]) + 1 /\ m.n = nextMsg /\ nextMsg' = nextMsg + 1
      <3>1. CASE i = 0 /\ pc'[d] \in {"groupLock", "groupLoop"} /\ m = Head(hMsgs'[d])
        BY <1>1, <1>4, <3>1
      <3>2. CASE WaitsAt(d, i, m)'
        <4>1. \/ i \in DOMAIN req[d] /\ req'[d][i] = req[d][i]
              \/ d = c /\ i = Len(req[c]) + 1 /\ req'[d][i] = r
          BY <1>0, <2>2, <3>2, SendAppends DEF WaitsAt
        <4> QED  BY <2>2, <3>2, <4>1 DEF WaitsAt, ComesAt, CarriesNew
      <3> QED  BY <2>2, <3>1, <3>2 DEF ComesAt
    <2>3. ASSUME NEW c \in Conns, NEW type, Handles(c, type), Consume(c), c # d
          PROVE  req'[d] = req[d]
      BY <1>0, <2>3, ConsumePrefix
    <2> QED  BY <1>2, <1>4, <2>1, <2>2, <2>3, RequestsMove
  <1> QED  BY <1>3, <1>4

\* The numbers go up.
LEMMA NumberedStays ==
  ASSUME TypeOK, [Next]_vars, NEW m \in Msg, Numbered(m)
  PROVE  Numbered(m)'
  <1>1. nextMsg \in Nat /\ m.n \in Nat
    BY ConstantsAssumption DEF TypeOK, TypeClient, Msg
  <1>2. nextMsg' \in {nextMsg, nextMsg + 1}
    BY RequestsMove DEF CarriesNew
  <1> QED  BY <1>1, <1>2 DEF Numbered

\* How a handler brings message m to v: at once, or by a post.
Writes(c, v, m) ==
  /\ LoopOf[userConn[v]] = LoopOf[c]
  /\ UNCHANGED queued
  /\ received' = [received EXCEPT ![v] = Append(@, m)]
Posts(c, v, m) ==
  /\ LoopOf[userConn[v]] # LoopOf[c]
  /\ UNCHANGED received
  /\ Enqueues(userConn[v], v, m)

\* Forward writes the message, posts it, or drops it.
LEMMA ForwardSends ==
  ASSUME TypeNet, TypeService, NEW c \in Conns, NEW v \in Users, userConn[v] # NoConn,
         NEW m \in Msg, Forward(c, v, m)
  PROVE  UNCHANGED <<received, queued>> \/ Writes(c, v, m) \/ Posts(c, v, m)
  <1>0. PICK d \in Conns : d = userConn[v]
    BY DEF TypeService
  <1>1. CASE conn[d] # "up"
    BY <1>0, <1>1 DEF Forward
  <1>2. CASE conn[d] = "up" /\ LoopOf[d] = LoopOf[c]
    BY <1>0, <1>2 DEF Forward, Display, Writes
  <1>3. CASE conn[d] = "up" /\ LoopOf[d] # LoopOf[c]
    <2>1. /\ queued' = [queued EXCEPT ![d][v] = Append(@, m)]
          /\ UNCHANGED received
      BY <1>0, <1>3 DEF Forward
    <2>2. Enqueues(d, v, m)
      BY <1>0, <2>1 DEF TypeNet, Enqueues
    <2> QED  BY <1>0, <1>3, <2>1, <2>2 DEF Posts
  <1> QED  BY <1>1, <1>2, <1>3

\* The ways in which what was forwarded changes.
Loses ==
  /\ UNCHANGED received
  /\ \A d \in Conns, u \in Users : queued'[d][u] \in {queued[d][u], <<>>}
Empties(c) ==
  \A u \in Users :
     /\ received'[u] = received[u] \o queued[c][u]
     /\ \A d \in Conns : queued'[d][u] = IF d = c THEN <<>> ELSE queued[d][u]

\* There is no other, and what is forwarded is the message its connection comes to first.
LEMMA SentMoves ==
  ASSUME TypeOK, [Next]_vars
  PROVE  \/ Loses
         \/ \E c \in Conns : Empties(c)
         \/ \E c \in Conns, v \in Users, m \in Msg :
               /\ userConn[v] # NoConn /\ First(c, m)
               /\ Writes(c, v, m) \/ Posts(c, v, m)
  <1> USE DEF dbVars, svcVars, localVars, netVars, clientVars, histVars, deliveryVars
  <1>0. TypeNet /\ TypeService /\ TypeCallback /\ TypeHistory
    BY DEF TypeOK
  <1>1. ASSUME UNCHANGED <<received, queued>> PROVE Loses
    BY <1>1 DEF Loses
  <1>2. ASSUME NEW c \in Conns, OneChat(c)
        PROVE  \/ Loses
               \/ \E v \in Users, m \in Msg :
                    /\ userConn[v] # NoConn /\ First(c, m)
                    /\ Writes(c, v, m) \/ Posts(c, v, m)
    <2>1. PICK v \in Users, m \in Msg :
            /\ m = Head(req[c]).msg
            /\ \/ userConn[v] # NoConn /\ Forward(c, v, m)
               \/ UNCHANGED <<received, queued>>
      BY <1>2, OneChatMoves
    <2>2. Handles(c, "ONE_CHAT_MSG")
      BY <1>2 DEF OneChat
    <2>3. req[c] \in Seq(Request) /\ req[c] # <<>>
      BY <1>0, <2>2 DEF Handles, TypeNet
    <2>4. 1 \in DOMAIN req[c] /\ req[c][1] = Head(req[c])
      BY <2>3
    <2>5. First(c, m)
      BY <2>1, <2>2, <2>4 DEF First, ComesAt, WaitsAt, Handles, Ready, LoopFree
    <2> QED  BY <1>0, <1>1, <2>1, <2>5, ForwardSends
  <1>3. ASSUME NEW c \in Conns, NEW v \in Users, GroupEach(c, v)
        PROVE  \/ Loses
               \/ \E m \in Msg :
                    /\ userConn[v] # NoConn /\ First(c, m)
                    /\ Writes(c, v, m) \/ Posts(c, v, m)
    <2>1. PICK m : m = Head(hMsgs[c])
      OBVIOUS
    <2>2. First(c, m)
      BY <1>3, <2>1 DEF GroupEach, First, ComesAt
    <2>3. m \in Msg
      BY <2>2, ComesTypes DEF First
    <2>4. \/ userConn[v] # NoConn /\ Forward(c, v, m)
          \/ UNCHANGED <<received, queued>>
      BY <1>3, <2>1 DEF GroupEach
    <2> QED  BY <1>0, <1>1, <2>2, <2>3, <2>4, ForwardSends
  <1>4. ASSUME NEW c \in Conns, RunPending(c) PROVE Loses \/ Empties(c)
    <2>1. \A d \in Conns, u \in Users : queued'[d][u] = IF d = c THEN <<>> ELSE queued[d][u]
      BY <1>0, <1>4 DEF RunPending, NoQueue, TypeNet
    <2> QED  BY <1>4, <2>1 DEF RunPending, Loses, Empties
  <1>5. ASSUME NEW c \in Conns, CloseErase(c) PROVE Loses
    <2>1. \A d \in Conns, u \in Users : queued'[d][u] = IF d = c THEN <<>> ELSE queued[d][u]
      BY <1>0, <1>5 DEF CloseErase, NoQueue, TypeNet
    <2> QED  BY <1>5, <2>1 DEF CloseErase, Loses
  <1>6. ASSUME NEW c \in Conns, Client(c) \/ Login(c) PROVE UNCHANGED <<received, queued>>
    BY <1>6 DEF Client, Connect, SendLogin, SendLogout, SendOneChat, SendGroupChat,
                SendAddGroup, Quit, Login, LoginQuery, LoginRefuse, LoginReject, LoginEmplace,
                LoginSetOnline, LoginReadOffline, LoginClearOffline, LoginReply
  <1>7. ASSUME NEW c \in Conns,
               \/ LogoutErase(c) \/ LogoutUpdate(c) \/ CloseUpdate(c)
               \/ StoreOffline(c) \/ GroupQuery(c) \/ GroupLock(c) \/ GroupUnlock(c) \/ AddGroup(c)
        PROVE  UNCHANGED <<received, queued>>
    BY <1>7 DEF LogoutErase, LogoutUpdate, CloseUpdate, StoreOffline, GroupQuery, GroupLock,
                GroupUnlock, AddGroup
  <1>8. ASSUME Interrupt \/ Restart \/ UNCHANGED vars PROVE UNCHANGED <<received, queued>>
    BY <1>8 DEF Interrupt, Restart, vars
  <1>9. ASSUME Exit \/ Crash PROVE Loses
    BY <1>9 DEF Exit, Crash, Down, NoQueue, Loses
  <1> QED
    BY <1>1, <1>2, <1>3, <1>4, <1>5, <1>6, <1>7, <1>8, <1>9
    DEF Next, Loop, Leave, Chat, Process

\* Behind those that are before it, a message keeps a sequence sorted.
LEMMA SortedAppend ==
  ASSUME NEW s \in Seq(Msg), NEW m \in Msg, Sorted(s), \A a \in Entries(s) : Before(a, m)
  PROVE  Sorted(Append(s, m))
  <1> SUFFICES ASSUME NEW i \in DOMAIN Append(s, m), NEW j \in DOMAIN Append(s, m), i < j
               PROVE  Before(Append(s, m)[i], Append(s, m)[j])
    BY DEF Sorted
  <1>1. i \in DOMAIN s /\ Append(s, m)[i] = s[i]
    OBVIOUS
  <1>2. CASE j \in DOMAIN s
    BY <1>1, <1>2 DEF Sorted
  <1>3. CASE j = Len(s) + 1
    <2>1. Append(s, m)[j] = m
      BY <1>3
    <2> QED  BY <1>1, <2>1 DEF Entries
  <1> QED  BY <1>2, <1>3

\* So does a sorted sequence of such.
LEMMA SortedConcat ==
  ASSUME NEW s \in Seq(Msg), NEW t \in Seq(Msg), Sorted(s), Sorted(t),
         \A a \in Entries(s), b \in Entries(t) : Before(a, b)
  PROVE  Sorted(s \o t)
  <1> SUFFICES ASSUME NEW i \in DOMAIN (s \o t), NEW j \in DOMAIN (s \o t), i < j
               PROVE  Before((s \o t)[i], (s \o t)[j])
    BY DEF Sorted
  <1>0. i \in Nat /\ j \in Nat /\ Len(s) \in Nat
    OBVIOUS
  <1>1. CASE i \in DOMAIN s /\ j \in DOMAIN s
    <2>1. (s \o t)[i] = s[i] /\ (s \o t)[j] = s[j]
      BY <1>1
    <2> QED  BY <1>1, <2>1 DEF Sorted
  <1>2. CASE i \in DOMAIN s /\ j \notin DOMAIN s
    <2>1. (s \o t)[i] = s[i] /\ j - Len(s) \in DOMAIN t /\ (s \o t)[j] = t[j - Len(s)]
      BY <1>2
    <2>2. s[i] \in Entries(s) /\ t[j - Len(s)] \in Entries(t)
      BY <1>2, <2>1 DEF Entries
    <2> QED  BY <2>1, <2>2
  <1>3. CASE i \notin DOMAIN s
    <2>1. PICK g, h : g = i - Len(s) /\ h = j - Len(s)
      OBVIOUS
    <2>2. /\ g \in DOMAIN t /\ (s \o t)[i] = t[g]
          /\ h \in DOMAIN t /\ (s \o t)[j] = t[h]
          /\ g < h
      BY <1>0, <1>3, <2>1
    <2> QED  BY <2>2 DEF Sorted
  <1> QED  BY <1>1, <1>2, <1>3

\* What the three ways do to the entries.
LEMMA SentByMoves ==
  ASSUME TypeOK, NEW u \in Users, NEW a
  PROVE  /\ Loses /\ Sent(u, a)' => Sent(u, a)
         /\ \A c \in Conns : Empties(c) /\ Sent(u, a)' => Sent(u, a)
         /\ \A c \in Conns, v \in Users, m \in Msg :
              (Writes(c, v, m) \/ Posts(c, v, m)) /\ Sent(u, a)' =>
                 Sent(u, a) \/ (u = v /\ a = m)
  <1>0. TypeNet /\ TypeHistory
    BY DEF TypeOK
  <1>e. Entries(<<>>) = {}
    BY DEF Entries
  <1>1. ASSUME Loses, Sent(u, a)' PROVE Sent(u, a)
    BY <1>1, <1>e DEF Loses, Sent, InQueue
  <1>2. ASSUME NEW c \in Conns, Empties(c), Sent(u, a)' PROVE Sent(u, a)
    <2>1. Entries(received[u] \o queued[c][u]) = Entries(received[u]) \cup Entries(queued[c][u])
      BY <1>0, EntriesConcat DEF TypeHistory, TypeNet
    <2> QED  BY <1>2, <1>e, <2>1 DEF Empties, Sent, InQueue
  <1>3. ASSUME NEW c \in Conns, NEW v \in Users, NEW m \in Msg, Writes(c, v, m), Sent(u, a)'
        PROVE  Sent(u, a) \/ (u = v /\ a = m)
    <2>1. received'[u] = IF u = v THEN Append(received[u], m) ELSE received[u]
      BY <1>0, <1>3 DEF Writes, TypeHistory
    <2>2. Entries(Append(received[u], m)) = Entries(received[u]) \cup {m}
      BY <1>0, EntriesAppend DEF TypeHistory
    <2> QED  BY <1>3, <2>1, <2>2 DEF Writes, Sent, InQueue
  <1>4. ASSUME NEW c \in Conns, NEW v \in Users, NEW m \in Msg, Posts(c, v, m), Sent(u, a)'
        PROVE  Sent(u, a) \/ (u = v /\ a = m)
    <2>1. \A d \in Conns : Entries(Append(queued[d][u], m)) = Entries(queued[d][u]) \cup {m}
      BY <1>0, EntriesAppend DEF TypeNet
    <2> QED  BY <1>4, <2>1 DEF Posts, Enqueues, Sent, InQueue
  <1> QED  BY <1>1, <1>2, <1>3, <1>4

\* Its writer is the connection's.
LEMMA ComesFromOwn ==
  ASSUME TypeOK, NEW c \in Conns, OwnMessages(c), NEW i, NEW m, ComesAt(c, i, m)
  PROVE  m.from \in AccountsOf[c]
  BY DEF OwnMessages, OwnInHand, OwnRequest, ComesAt, WaitsAt, MsgPCs

\* What comes after a step came before, or is new.
LEMMA ComesOrIsNew ==
  ASSUME TypeOK, [Next]_vars, NEW d \in Conns, NEW i, NEW m, ComesAt(d, i, m)'
  PROVE  (\E j : ComesAt(d, j, m)) \/ (m.n = nextMsg /\ nextMsg' = nextMsg + 1)
  BY ComingMoves

\* A message that is new is before none of those there were.
LEMMA NewIsLast ==
  ASSUME TypeOK, NEW a \in Msg, Numbered(a), NEW b, b.n = nextMsg
  PROVE  Before(a, b)
  <1>1. nextMsg \in Nat /\ a.n \in Nat
    BY ConstantsAssumption DEF TypeOK, TypeClient, Msg
  <1> QED  BY <1>1 DEF Before, Numbered

\* Messages keep standing in line as they were written.
LEMMA ComesInOrderStep ==
  ASSUME TypeOK, TypeOK', ComesInOrder, AllNumbered, [Next]_vars
  PROVE  ComesInOrder'
  <1> SUFFICES ASSUME NEW c \in Conns, NEW i, NEW j, NEW a, NEW b,
                      ComesAt(c, i, a)', ComesAt(c, j, b)', (i < j)
               PROVE  Before(a, b)
    BY DEF ComesInOrder, Before
  <1>1. i \in Nat /\ j \in Nat
    BY DEF ComesAt, WaitsAt, TypeOK, TypeNet
  <1>2. ASSUME NEW k, NEW m, ComesAt(c, k, m)
        PROVE  m \in Msg /\ Numbered(m) /\ k # Len(req[c]) + 1
    <2>1. m \in Msg /\ Numbered(m)
      BY <1>2, ComesTypes DEF AllNumbered
    <2>2. req[c] \in Seq(Request)
      BY DEF TypeOK, TypeNet
    <2>3. k = 0 \/ k \in DOMAIN req[c]
      BY <1>2 DEF ComesAt, WaitsAt
    <2> QED  BY <2>1, <2>2, <2>3
  <1>3. CASE \A k, m : ComesAt(c, k, m)' =>
                ComesAt(c, k, m) \/ (k = Len(req[c]) + 1 /\ m.n = nextMsg /\ nextMsg' = nextMsg + 1)
    <2>1. CASE ComesAt(c, i, a) /\ ComesAt(c, j, b)
      BY <2>1 DEF ComesInOrder
    <2>2. CASE ComesAt(c, i, a) /\ b.n = nextMsg
      BY <1>2, <2>2, NewIsLast
    <2>3. CASE i = Len(req[c]) + 1
      <3>1. j # Len(req[c]) + 1
        BY <1>1, <2>3
      <3>2. ComesAt(c, j, b)
        BY <1>3, <3>1
      <3>3. j = 0 \/ j \in 1 .. Len(req[c])
        BY <3>2 DEF ComesAt, WaitsAt, TypeOK, TypeNet
      <3>4. Len(req[c]) \in Nat
        BY DEF TypeOK, TypeNet
      <3> QED  BY <1>1, <2>3, <3>3, <3>4
    <2> QED  BY <1>3, <2>1, <2>2, <2>3
  <1>4. ASSUME NEW h \in Nat, h > 0,
               \A k, m : ComesAt(c, k, m)' =>
                  (k > 0 /\ ComesAt(c, k + h, m)) \/ (k = 0 /\ ComesAt(c, 1, m))
        PROVE  Before(a, b)
    <2>1. ComesAt(c, j + h, b)
      BY <1>1, <1>4
    <2>2. CASE i > 0 /\ ComesAt(c, i + h, a)
      <3>1. i + h < j + h
        BY <1>1, <1>4
      <3> QED  BY <2>1, <2>2, <3>1 DEF ComesInOrder
    <2>3. CASE i = 0 /\ ComesAt(c, 1, a)
      <3>1. 1 < j + h
        BY <1>1, <1>4, <2>3
      <3> QED  BY <2>1, <2>3, <3>1 DEF ComesInOrder
    <2> QED  BY <1>4, <2>2, <2>3
  <1> QED  BY <1>3, <1>4, ComingMoves

\* A message that is sent after a step was sent before, or its connection came to it first.
LEMMA SentOrFirst ==
  ASSUME TypeOK, [Next]_vars, NEW u \in Users, NEW a, Sent(u, a)'
  PROVE  Sent(u, a) \/ \E c \in Conns : First(c, a)
  BY SentMoves, SentByMoves

\* What was sent or comes has a type.
LEMMA SentTypes ==
  ASSUME TypeOK, NEW u \in Users, NEW a, Sent(u, a)
  PROVE  a \in Msg
  BY DEF TypeOK, TypeNet, TypeHistory, Sent, InQueue, Entries

\* Numbers are given out in turn.
LEMMA AllNumberedStep ==
  ASSUME TypeOK, AllNumbered, [Next]_vars
  PROVE  AllNumbered'
  <1> SUFFICES ASSUME NEW m, \/ \E u \in Users : Sent(u, m)'
                             \/ \E c \in Conns : \E i : ComesAt(c, i, m)'
               PROVE  Numbered(m)'
    BY DEF AllNumbered
  <1>1. CASE \/ \E u \in Users : Sent(u, m)
             \/ \E c \in Conns : \E i : ComesAt(c, i, m)
    <2>1. m \in Msg /\ Numbered(m)
      BY <1>1, SentTypes, ComesTypes DEF AllNumbered
    <2> QED  BY <2>1, NumberedStays
  <1>2. CASE m.n = nextMsg /\ nextMsg' = nextMsg + 1
    <2>1. nextMsg \in Nat
      BY DEF TypeOK, TypeClient
    <2> QED  BY <1>2, <2>1 DEF Numbered
  <1>3. \/ \E u \in Users : Sent(u, m)
        \/ \E c \in Conns : \E i : ComesAt(c, i, m)
        \/ m.n = nextMsg /\ nextMsg' = nextMsg + 1
    BY SentOrFirst, ComesOrIsNew DEF First
  <1> QED  BY <1>1, <1>2, <1>3

\* What was forwarded stays before what is still to come: one writer has one connection.
LEMMA SentBeforeStep ==
  ASSUME OneClientPerAccount, WritersInOrder, [Next]_vars
  PROVE  SentBefore'
  <1>0. TypeOK /\ AllNumbered /\ SentBefore /\ ComesInOrder /\ \A c \in Conns : OwnMessages(c)
    BY DEF WritersInOrder, ConnsInOrder
  <1> SUFFICES ASSUME NEW u \in Users, NEW c \in Conns, NEW i, NEW a, NEW b,
                      Sent(u, a)', ComesAt(c, i, b)'
               PROVE  Before(a, b)
    BY DEF SentBefore, Before
  <1>1. Sent(u, a) \/ \E d \in Conns : First(d, a)
    BY <1>0, SentOrFirst
  <1>2. a \in Msg /\ Numbered(a)
    BY <1>0, <1>1, SentTypes, ComesTypes DEF AllNumbered, First
  <1>3. CASE b.n = nextMsg
    BY <1>0, <1>2, <1>3, NewIsLast
  <1>4. ASSUME NEW j, ComesAt(c, j, b), Sent(u, a) PROVE Before(a, b)
    BY <1>0, <1>4 DEF SentBefore
  <1>5. ASSUME NEW j, ComesAt(c, j, b), NEW d \in Conns, First(d, a) PROVE Before(a, b)
    <2>1. CASE c = d
      BY <1>0, <1>5, <2>1, FirstIsBefore
    <2>2. CASE a.from # b.from
      BY <2>2 DEF Before
    <2>3. a.from \in AccountsOf[d] /\ b.from \in AccountsOf[c]
      BY <1>0, <1>5, ComesFromOwn DEF First
    <2> QED  BY <2>1, <2>2, <2>3 DEF OneClientPerAccount
  <1> QED  BY <1>0, <1>1, <1>3, <1>4, <1>5, ComesOrIsNew

\* A post goes to the connection of its user, from a loop of its writer.
LEMMA PostedElsewhereStep ==
  ASSUME OneClientPerAccount, WritersInOrder, [Next]_vars
  PROVE  PostedElsewhere'
  <1>0. /\ TypeOK /\ PostedElsewhere
        /\ \A c \in Conns : OwnMessages(c) /\ ActsForItself(c)
    BY DEF WritersInOrder, ConnsInOrder
  <1>e. Entries(<<>>) = {}
    BY DEF Entries
  <1> SUFFICES ASSUME NEW u \in Users, NEW d \in Conns, NEW m, InQueue(d, u, m)'
               PROVE  /\ u \in AccountsOf[d]
                      /\ \A c \in Conns : m.from \in AccountsOf[c] => LoopOf[c] # LoopOf[d]
    BY DEF PostedElsewhere
  <1>1. CASE InQueue(d, u, m)
    BY <1>0, <1>1 DEF PostedElsewhere
  <1>2. ASSUME \/ Loses
               \/ \E c \in Conns : Empties(c)
               \/ \E c \in Conns, v \in Users, n \in Msg : Writes(c, v, n)
        PROVE  InQueue(d, u, m)
    BY <1>e, <1>2 DEF Loses, Empties, Writes, InQueue
  <1>3. ASSUME NEW c \in Conns, NEW v \in Users, NEW n \in Msg,
               userConn[v] # NoConn, First(c, n), Posts(c, v, n), ~InQueue(d, u, m)
        PROVE  /\ u \in AccountsOf[d]
               /\ \A e \in Conns : m.from \in AccountsOf[e] => LoopOf[e] # LoopOf[d]
    <2>1. Entries(Append(queued[d][u], n)) = Entries(queued[d][u]) \cup {n}
      BY <1>0, EntriesAppend DEF TypeOK, TypeNet
    <2>2. d = userConn[v] /\ u = v /\ m = n
      BY <1>3, <2>1 DEF Posts, Enqueues, InQueue
    <2>3. u \in AccountsOf[d]
      BY <1>0, <2>2 DEF ActsForItself
    <2>4. m.from \in AccountsOf[c]
      BY <1>0, <1>3, <2>2, ComesFromOwn DEF First
    <2>5. LoopOf[c] # LoopOf[d]
      BY <1>3, <2>2 DEF Posts
    <2>6. ASSUME NEW e \in Conns, m.from \in AccountsOf[e] PROVE e = c
      BY <2>4, <2>6 DEF OneClientPerAccount
    <2> QED  BY <2>3, <2>5, <2>6
  <1> QED  BY <1>0, <1>1, <1>2, <1>3, SentMoves

\* What was forwarded stays in order.
LEMMA SentInOrderStep ==
  ASSUME OneClientPerAccount, WritersInOrder, [Next]_vars
  PROVE  SentInOrder'
  <1>0. /\ TypeOK /\ PostedElsewhere /\ SentInOrder /\ SentBefore
        /\ \A c \in Conns : OwnMessages(c) /\ ActsForItself(c)
    BY DEF WritersInOrder, ConnsInOrder
  <1>t. TypeNet /\ TypeHistory /\ TypeService
    BY <1>0 DEF TypeOK
  <1>e. Entries(<<>>) = {} /\ Sorted(<<>>)
    BY DEF Entries, Sorted
  <1> SUFFICES ASSUME NEW u \in Users
               PROVE  /\ Sorted(received'[u])
                      /\ \A d \in Conns : Sorted(queued'[d][u])
                      /\ \A d \in Conns :
                           \A a \in Entries(received'[u]), b \in Entries(queued'[d][u]) : Before(a, b)
    BY DEF SentInOrder, Sorted, Before, Entries
  <1>i. /\ Sorted(received[u])
        /\ \A d \in Conns : Sorted(queued[d][u])
        /\ \A d \in Conns :
             \A a \in Entries(received[u]), b \in Entries(queued[d][u]) : Before(a, b)
    BY <1>0 DEF SentInOrder
  <1>s. /\ received[u] \in Seq(Msg)
        /\ \A d \in Conns : queued[d][u] \in Seq(Msg)
    BY <1>t DEF TypeNet, TypeHistory
  <1>1. CASE Loses
    BY <1>e, <1>i, <1>1 DEF Loses
  <1>2. ASSUME NEW c \in Conns, Empties(c)
        PROVE  /\ Sorted(received'[u])
               /\ \A d \in Conns : Sorted(queued'[d][u])
               /\ \A d \in Conns :
                    \A a \in Entries(received'[u]), b \in Entries(queued'[d][u]) : Before(a, b)
    <2>1. received'[u] = received[u] \o queued[c][u]
      BY <1>2 DEF Empties
    <2>2. \A d \in Conns : queued'[d][u] = IF d = c THEN <<>> ELSE queued[d][u]
      BY <1>2 DEF Empties
    <2>3. Sorted(received'[u])
      BY <1>i, <1>s, <2>1, SortedConcat
    <2>4. Entries(received'[u]) = Entries(received[u]) \cup Entries(queued[c][u])
      BY <1>s, <2>1, EntriesConcat
    <2>5. ASSUME NEW d \in Conns, NEW a \in Entries(received'[u]), NEW b \in Entries(queued'[d][u])
          PROVE  Before(a, b)
      <3>1. d # c /\ b \in Entries(queued[d][u])
        BY <1>e, <2>2, <2>5
      <3>2. a \notin Entries(queued[c][u])
        BY <1>0, <3>1 DEF PostedElsewhere, InQueue, OneClientPerAccount
      <3> QED  BY <1>i, <2>4, <3>1, <3>2
    <2> QED  BY <1>e, <1>i, <2>2, <2>3, <2>5
  <1>3. ASSUME NEW c \in Conns, NEW v \in Users, NEW m \in Msg,
               userConn[v] # NoConn, First(c, m), Writes(c, v, m)
        PROVE  /\ Sorted(received'[u])
               /\ \A d \in Conns : Sorted(queued'[d][u])
               /\ \A d \in Conns :
                    \A a \in Entries(received'[u]), b \in Entries(queued'[d][u]) : Before(a, b)
    <2>1. queued' = queued /\ received'[u] = IF u = v THEN Append(received[u], m) ELSE received[u]
      BY <1>t, <1>3 DEF Writes, TypeHistory
    <2>2. CASE u # v
      BY <1>i, <2>1, <2>2
    <2>3. CASE u = v
      <3>1. \A a \in Entries(received[u]) : Before(a, m)
        BY <1>0, <1>3 DEF SentBefore, Sent, First
      <3>2. Sorted(received'[u])
        BY <1>i, <1>s, <2>1, <2>3, <3>1, SortedAppend
      <3>3. Entries(received'[u]) = Entries(received[u]) \cup {m}
        BY <1>s, <2>1, <2>3, EntriesAppend
      <3>4. ASSUME NEW d \in Conns, NEW b \in Entries(queued[d][u]) PROVE Before(m, b)
        <4>1. /\ u \in AccountsOf[d]
              /\ \A e \in Conns : b.from \in AccountsOf[e] => LoopOf[e] # LoopOf[d]
          BY <1>0, <3>4 DEF PostedElsewhere, InQueue
        <4>2. userConn[u] \in Conns /\ LoopOf[userConn[u]] = LoopOf[c]
          BY <1>t, <1>3, <2>3 DEF Writes, TypeService
        <4>3. userConn[u] = d
          BY <1>0, <4>1, <4>2 DEF ActsForItself, OneClientPerAccount
        <4>4. m.from \in AccountsOf[c]
          BY <1>0, <1>3, ComesFromOwn DEF First
        <4>5. m.from # b.from
          BY <4>1, <4>2, <4>3, <4>4
        <4> QED  BY <4>5 DEF Before
      <3> QED  BY <1>i, <2>1, <3>2, <3>3, <3>4
    <2> QED  BY <2>2, <2>3
  <1>4. ASSUME NEW c \in Conns, NEW v \in Users, NEW m \in Msg,
               First(c, m), Posts(c, v, m)
        PROVE  /\ Sorted(received'[u])
               /\ \A d \in Conns : Sorted(queued'[d][u])
               /\ \A d \in Conns :
                    \A a \in Entries(received'[u]), b \in Entries(queued'[d][u]) : Before(a, b)
    <2>1. received' = received
      BY <1>4 DEF Posts
    <2>2. ASSUME NEW d \in Conns
          PROVE  /\ Sorted(queued'[d][u])
                 /\ \A a \in Entries(received[u]), b \in Entries(queued'[d][u]) : Before(a, b)
      <3>1. CASE queued'[d][u] = queued[d][u]
        BY <1>i, <3>1
      <3>2. CASE u = v /\ queued'[d][u] = Append(queued[d][u], m)
        <4>1. \A a : Sent(u, a) => Before(a, m)
          BY <1>0, <1>4 DEF SentBefore, First
        <4>2. Sorted(queued'[d][u])
          BY <1>i, <1>s, <3>2, <4>1, SortedAppend DEF Sent, InQueue
        <4>3. Entries(queued'[d][u]) = Entries(queued[d][u]) \cup {m}
          BY <1>s, <3>2, EntriesAppend
        <4> QED  BY <1>i, <4>1, <4>2, <4>3 DEF Sent
      <3> QED  BY <1>4, <3>1, <3>2 DEF Posts, Enqueues
    <2> QED  BY <1>i, <2>1, <2>2
  <1> QED  BY <1>0, <1>1, <1>2, <1>3, <1>4, SentMoves

\* The invariant holds at the start ...
LEMMA WritersInOrderInit == Init => WritersInOrder
  <1> SUFFICES ASSUME Init PROVE WritersInOrder
    OBVIOUS
  <1>1. ConnsInOrder /\ InboxesRead
    BY SessionsInit, InboxesReadInit
  <1>2. \A c \in Conns : OwnMessages(c)
    BY <1>1 DEF InboxesRead
  <1>3. \A c \in Conns : \A i, m : ~ComesAt(c, i, m)
    BY DEF Init, ComesAt, WaitsAt
  <1>4. \A u \in Users : received[u] = <<>> /\ \A d \in Conns : queued[d][u] = <<>>
    BY DEF Init, NoQueue
  <1>5. Entries(<<>>) = {} /\ Sorted(<<>>)
    BY DEF Entries, Sorted
  <1>6. \A u \in Users : \A m : ~Sent(u, m) /\ \A d \in Conns : ~InQueue(d, u, m)
    BY <1>4, <1>5 DEF Sent, InQueue
  <1>7. SentInOrder
    BY <1>4, <1>5 DEF SentInOrder
  <1>8. ComesInOrder /\ SentBefore /\ AllNumbered /\ PostedElsewhere
    BY <1>3, <1>6 DEF ComesInOrder, SentBefore, AllNumbered, PostedElsewhere
  <1> QED  BY <1>1, <1>2, <1>7, <1>8 DEF WritersInOrder

\* ... and every step preserves it.
LEMMA WritersInOrderStep ==
  ASSUME OneClientPerAccount
  PROVE  WritersInOrder /\ [Next]_vars => WritersInOrder'
  <1> SUFFICES ASSUME WritersInOrder, [Next]_vars PROVE WritersInOrder'
    OBVIOUS
  <1>1. ConnsInOrder'
    BY ConnsInOrderStep DEF WritersInOrder
  <1>2. \A c \in Conns : OwnMessages(c)'
    BY OwnMessagesStep DEF WritersInOrder
  <1>3. ComesInOrder'
    BY <1>1, ComesInOrderStep DEF WritersInOrder, ConnsInOrder
  <1>4. AllNumbered'
    BY AllNumberedStep DEF WritersInOrder, ConnsInOrder
  <1> QED  BY <1>1, <1>2, <1>3, <1>4, SentBeforeStep, PostedElsewhereStep, SentInOrderStep
           DEF WritersInOrder

\* What one writer sends to a recipient, in person or to a group, is forwarded in the order
\* it was written, whatever fails and whoever crashes or is interrupted: a connection's
\* requests are handled in turn, and what is posted to another loop comes from that loop
\* only.  An account is used from one client; from two, its messages could overtake each
\* other on the way.
THEOREM WriterOrderHolds ==
  ASSUME OneClientPerAccount
  PROVE  Spec => []WriterOrder
  <1>1. ASSUME WritersInOrder PROVE WriterOrder
    BY <1>1 DEF WritersInOrder, SentInOrder, Sorted, Before, WriterOrder
  <1> QED  BY <1>1, WritersInOrderInit, WritersInOrderStep, PTL DEF Spec

=============================================================================
