---------------------------- MODULE SessionProofs ----------------------------
(***************************************************************************)
(* Type correctness of ChatService, for any number of users, groups,       *)
(* connections, loops, messages, faults and crashes, one lemma for each    *)
(* action; then its sessions, for any number of users, connections and     *)
(* loops.  With failing statements, crashes and ctrl+c: an entry of        *)
(* m_userConnMap comes to point to a closed connection only as the second  *)
(* entry of that connection, whoever uses which account where; and who is  *)
(* logged in is in the map, with one client for each account.  Then the    *)
(* database, the map and the clients on who is logged in: login writes the *)
(* map and then the database, loginout and clientCloseException erase and  *)
(* then update, so with one client for each account they agree whenever    *)
(* nothing is under way and no logout was lost behind another request.     *)
(* With one event loop an account shared by several clients is logged in   *)
(* once.  Both as long as no statement has failed; the first as long as    *)
(* the server has not crashed, which leaves the database behind.  Last,    *)
(* that ChatService implements the abstract sessions and the protocol of   *)
(* its clients.                                                            *)
(***************************************************************************)
EXTENDS ChatProperties, TLAPS

-----------------------------------------------------------------------------
\* A request of each type has the fields its handler reads.
LEMMA RequestTypes ==
  ASSUME NEW r \in Request
  PROVE  /\ r.type \in {"LOGIN_MSG", "LOGINOUT_MSG", "GROUP_CHAT_MSG", "ADD_GROUP_MSG"}
              => r.user \in Users
         /\ r.type = "LOGIN_MSG" => r.pwdOk \in BOOLEAN
         /\ r.type = "ONE_CHAT_MSG" => r.to \in Users /\ r.msg \in Msg
         /\ r.type = "GROUP_CHAT_MSG" => r.msg \in Msg
         /\ r.type \in {"GROUP_CHAT_MSG", "ADD_GROUP_MSG"} => r.group \in Groups
  BY DEF Request

\* What is left of a sequence behind its first n elements
LEMMA SubSeqRest ==
  ASSUME NEW S, NEW q \in Seq(S), NEW n \in 0..Len(q)
  PROVE  /\ Len(SubSeq(q, n + 1, Len(q))) = Len(q) - n
         /\ SubSeq(q, n + 1, Len(q)) \in Seq(S)
         /\ DOMAIN SubSeq(q, n + 1, Len(q)) = 1..(Len(q) - n)
         /\ \A i \in 1..(Len(q) - n) : i + n \in DOMAIN q /\ SubSeq(q, n + 1, Len(q))[i] = q[i + n]
  OBVIOUS

\* onMessage hands on a well-formed request of the type and leaves the rest queued.
LEMMA HandlesTypes ==
  ASSUME TypeNet, NEW c \in Conns, NEW type, Handles(c, type), Consume(c)
  PROVE  /\ Head(req[c]) \in Request
         /\ Head(req[c]).type = type
         /\ req' \in [Conns -> Seq(Request)]
         /\ called' \subseteq Conns
         /\ lost \subseteq Conns \X SessionTypes => lost' \subseteq Conns \X SessionTypes
  <1>1. req[c] \in Seq(Request) /\ req[c] # <<>>
    BY DEF TypeNet, Handles
  <1>2. Head(req[c]) \in Request /\ Len(req[c]) \in Nat
    BY <1>1
  <1>3. PICK k \in 1 .. Len(req[c]) : req' = [req EXCEPT ![c] = SubSeq(@, k + 1, Len(@))]
    BY DEF Consume
  <1>4. SubSeq(req[c], k + 1, Len(req[c])) \in Seq(Request)
    BY <1>1, SubSeqRest
  <1> QED  BY <1>2, <1>3, <1>4 DEF TypeNet, Handles, Consume

\* The end of a callback.
LEMMA ReturnTypes ==
  ASSUME TypeCallback, NEW c \in Conns, Return(c)
  PROVE  TypeCallback'
  <1>1. NoRows \in [Users -> Nat]
    BY DEF NoRows
  <1> QED  BY <1>1 DEF TypeCallback, Return, Goto, PCs, UserPCs, MsgPCs

\* The pairs of a recipient and a sequence of messages.
LEMMA PairsTypes ==
  ASSUME NEW u \in Users, NEW ms \in Seq(Msg)
  PROVE  Pairs(u, ms) \subseteq Users \X Msg
  BY DEF Pairs

\* A message written to a client.
LEMMA DisplayTypes ==
  ASSUME TypeHistory, NEW c \in Conns, NEW u \in Users, NEW m \in Msg,
         Display(c, u, m)
  PROVE  dropped' \subseteq Users \X Msg /\ received' \in [Users -> Seq(Msg)]
  <1>1. CASE client[c] = "gone"
    BY <1>1 DEF Display, TypeHistory
  <1>2. CASE client[c] # "gone"
    <2>1. Append(received[u], m) \in Seq(Msg)
      BY DEF TypeHistory
    <2> QED  BY <1>2, <2>1 DEF Display, TypeHistory
  <1> QED  BY <1>1, <1>2

\* TcpConnection::send, in all of its three cases.
LEMMA ForwardTypes ==
  ASSUME TypeNet, TypeService, TypeHistory,
         NEW c \in Conns, NEW u \in Users, NEW m \in Msg,
         userConn[u] # NoConn, Forward(c, u, m)
  PROVE  /\ dropped' \subseteq Users \X Msg
         /\ received' \in [Users -> Seq(Msg)]
         /\ queued' \in [Conns -> [Users -> Seq(Msg)]]
  <1> DEFINE d == userConn[u]
  <1>1. d \in Conns
    BY DEF TypeService
  <1>2. CASE conn[d] # "up"
    BY <1>2 DEF Forward, TypeHistory, TypeNet
  <1>3. CASE conn[d] = "up" /\ LoopOf[d] = LoopOf[c]
    <2>1. Display(d, u, m) /\ UNCHANGED queued
      BY <1>3 DEF Forward
    <2> QED  BY <1>1, <2>1, DisplayTypes DEF TypeNet
  <1>4. CASE conn[d] = "up" /\ LoopOf[d] # LoopOf[c]
    <2>1. /\ UNCHANGED <<received, dropped>>
          /\ queued' = [queued EXCEPT ![d][u] = Append(@, m)]
      BY <1>4 DEF Forward
    <2>2. Append(queued[d][u], m) \in Seq(Msg)
      BY <1>1 DEF TypeNet
    <2> QED  BY <1>1, <2>1, <2>2 DEF TypeNet, TypeHistory
  <1> QED  BY <1>2, <1>3, <1>4

\* What the end of the server process leaves behind.
LEMMA DownTypes ==
  ASSUME TypeOK, Down
  PROVE  /\ running' \in BOOLEAN
         /\ exiting' \in BOOLEAN
         /\ userConn' \in [Users -> Conns \cup {NoConn}]
         /\ mutex' \in Conns \cup {NoConn}
         /\ TypeCallback' /\ TypeNet' /\ TypeClient' /\ TypeHistory'
  <1> USE DEF Down, TypeOK
  <1>1. TypeCallback'
    <2>1. NoRows \in [Users -> Nat]
      BY DEF NoRows
    <2> QED  BY <2>1 DEF PCs, UserPCs, MsgPCs, TypeCallback
  <1>2. TypeNet'
    <2>1. NoQueue \in [Users -> Seq(Msg)]
      BY DEF NoQueue
    <2> QED  BY <2>1 DEF TypeNet
  <1>3. TypeClient'
    BY ConstantsAssumption DEF TypeClient, ConstantsAssumption
  <1>4. TypeHistory'
    BY DEF TypeHistory, histVars, deliveryVars
  <1> QED  BY <1>1, <1>2, <1>3, <1>4

\* The count of failed statements.
LEMMA DbCallTypes ==
  ASSUME TypeDb, NEW ok \in BOOLEAN, DbCall(ok)
  PROVE  faults' \in Nat
  BY DEF TypeDb, DbCall

\* UserModel::updateState, done or failed.
LEMMA UpdateStateTypes ==
  ASSUME TypeDb, NEW u, NEW s \in {"online", "offline"}, NEW ok \in BOOLEAN, DbCall(ok),
         state' = (IF ok THEN UpdateState(state, u, s) ELSE state),
         UNCHANGED <<offline, members>>
  PROVE  TypeDb'
  <1>1. state' \in [Users -> {"online", "offline"}]
    <2>1. CASE ok  BY <2>1 DEF TypeDb, UpdateState
    <2>2. CASE ~ok  BY <2>2 DEF TypeDb
    <2> QED  BY <2>1, <2>2
  <1> QED  BY <1>1, DbCallTypes DEF TypeDb

-----------------------------------------------------------------------------
\* The clients.

\* Connect keeps every variable in its type.
LEMMA ConnectType ==
  ASSUME TypeOK, NEW c \in Conns, Connect(c)
  PROVE  TypeOK'
  BY ConstantsAssumption
  DEF Connect, ConstantsAssumption, TypeOK, TypeDb, TypeService, TypeCallback, TypeNet,
      TypeClient, TypeHistory, dbVars, svcVars, localVars, netVars, clientVars, histVars, deliveryVars

\* SendLogin keeps every variable in its type.
LEMMA SendLoginType ==
  ASSUME TypeOK, NEW c \in Conns, NEW u \in Users, NEW ok \in BOOLEAN, SendLogin(c, u, ok)
  PROVE  TypeOK'
  <1> USE DEF SendLogin, TypeOK
  <1>1. TypeNet'
    <2>1. [type |-> "LOGIN_MSG", user |-> u, pwdOk |-> ok] \in Request
      BY DEF Request
    <2> QED  BY <2>1 DEF Send, TypeNet
  <1>2. TypeClient'
    BY ConstantsAssumption DEF TypeClient, ConstantsAssumption
  <1> QED  BY <1>1, <1>2
    DEF dbVars, svcVars, localVars, histVars, deliveryVars, TypeDb, TypeService, TypeCallback,
        TypeHistory

\* SendLogout keeps every variable in its type.
LEMMA SendLogoutType ==
  ASSUME TypeOK, NEW c \in Conns, SendLogout(c)
  PROVE  TypeOK'
  <1> USE DEF SendLogout, TypeOK
  <1>1. account[c] \in Users
    BY DEF TypeClient
  <1>2. TypeNet'
    <2>1. [type |-> "LOGINOUT_MSG", user |-> account[c]] \in Request
      BY <1>1 DEF Request
    <2> QED  BY <2>1 DEF Send, TypeNet
  <1>3. TypeClient'
    BY ConstantsAssumption DEF TypeClient, ConstantsAssumption
  <1> QED  BY <1>2, <1>3
    DEF dbVars, svcVars, localVars, histVars, deliveryVars, TypeDb, TypeService, TypeCallback,
        TypeHistory

\* SendOneChat keeps every variable in its type.
LEMMA SendOneChatType ==
  ASSUME TypeOK, NEW c \in Conns, NEW u \in Users, SendOneChat(c,u)
  PROVE  TypeOK'
  <1> USE ConstantsAssumption DEF SendOneChat, CanCommand, ConstantsAssumption, TypeOK
  <1>1. NewMsg(c, "chat") \in Msg
    BY DEF TypeClient, NewMsg, Msg
  <1>2. TypeNet'
    <2>1. [type |-> "ONE_CHAT_MSG", to |-> u, msg |-> NewMsg(c, "chat")] \in Request
      BY <1>1 DEF Request
    <2> QED  BY <2>1 DEF Send, TypeNet
  <1>3. TypeClient'
    BY DEF TypeClient
  <1> QED  BY <1>2, <1>3
    DEF dbVars, svcVars, localVars, histVars, deliveryVars, TypeDb, TypeService, TypeCallback,
        TypeHistory

\* SendGroupChat keeps every variable in its type.
LEMMA SendGroupChatType ==
  ASSUME TypeOK, NEW c \in Conns, NEW g \in Groups, SendGroupChat(c,g)
  PROVE  TypeOK'
  <1> USE ConstantsAssumption DEF SendGroupChat, CanCommand, ConstantsAssumption, TypeOK
  <1>1. NewMsg(c, "groupchat") \in Msg /\ account[c] \in Users
    BY DEF TypeClient, NewMsg, Msg
  <1>2. TypeNet'
    <2>1. [type |-> "GROUP_CHAT_MSG", user |-> account[c], group |-> g, msg |-> NewMsg(c, "groupchat")]
            \in Request
      BY <1>1 DEF Request
    <2> QED  BY <2>1 DEF Send, TypeNet
  <1>3. TypeClient'
    BY DEF TypeClient
  <1> QED  BY <1>2, <1>3
    DEF dbVars, svcVars, localVars, histVars, deliveryVars, TypeDb, TypeService, TypeCallback,
        TypeHistory

\* SendAddGroup keeps every variable in its type.
LEMMA SendAddGroupType ==
  ASSUME TypeOK, NEW c \in Conns, NEW g \in Groups, SendAddGroup(c, g)
  PROVE  TypeOK'
  <1> USE DEF SendAddGroup, CanCommand, TypeOK
  <1>1. account[c] \in Users
    BY DEF TypeClient
  <1>2. TypeNet'
    <2>1. [type |-> "ADD_GROUP_MSG", user |-> account[c], group |-> g] \in Request
      BY <1>1 DEF Request
    <2> QED  BY <2>1 DEF Send, TypeNet
  <1> QED  BY <1>2
    DEF dbVars, svcVars, localVars, clientVars, histVars, deliveryVars, TypeDb, TypeService,
        TypeCallback, TypeClient, TypeHistory

\* Quit keeps every variable in its type.
LEMMA QuitType ==
  ASSUME TypeOK, NEW c \in Conns, Quit(c)
  PROVE  TypeOK'
  <1> USE ConstantsAssumption DEF Quit, ConstantsAssumption, TypeOK
  <1>2. TypeNet'
    <2>1. CASE UNCHANGED req  BY <2>1 DEF TypeNet
    <2>2. CASE req' = [req EXCEPT ![c] = <<>>]  BY <2>2 DEF TypeNet
    <2> QED  BY <2>1, <2>2
  <1>3. TypeClient'
    BY DEF TypeClient
  <1> QED  BY <1>2, <1>3
    DEF dbVars, svcVars, localVars, histVars, deliveryVars, TypeDb, TypeService, TypeCallback,
        TypeHistory

-----------------------------------------------------------------------------
\* login.

\* LoginQuery keeps every variable in its type.
LEMMA LoginQueryType ==
  ASSUME TypeOK, NEW c \in Conns, LoginQuery(c)
  PROVE  TypeOK'
  <1> USE DEF LoginQuery, TypeOK
  <1>1. Handles(c, "LOGIN_MSG") /\ Consume(c) /\ Head(req[c]) \in Request /\ TypeNet'
    BY HandlesTypes DEF TypeNet
  <1>2. TypeCallback'
    <2>1. Head(req[c]).user \in Users
      BY <1>1, RequestTypes DEF Handles
    <2> QED  BY <2>1 DEF TypeCallback, Goto, PCs, UserPCs, MsgPCs
  <1>9. TypeHistory'
    BY HandlesTypes DEF TypeHistory, deliveryVars
  <1> QED  BY <1>9, <1>1, <1>2
    DEF dbVars, svcVars, clientVars, histVars, deliveryVars, TypeDb, TypeService, TypeClient,
        TypeHistory

\* LoginRefuse keeps every variable in its type.
LEMMA LoginRefuseType ==
  ASSUME TypeOK, NEW c \in Conns, LoginRefuse(c)
  PROVE  TypeOK'
  <1> USE DEF LoginRefuse, TypeOK
  <1>1. TypeNet'
    BY HandlesTypes DEF TypeNet
  <1>2. TypeClient'
    BY ConstantsAssumption DEF TypeClient, Answer, ConstantsAssumption
  <1>3. TypeDb'
    BY DEF TypeDb, DbCall
  <1>9. TypeHistory'
    BY HandlesTypes DEF TypeHistory, deliveryVars
  <1> QED  BY <1>9, <1>1, <1>2, <1>3
    DEF svcVars, localVars, histVars, deliveryVars, TypeService, TypeCallback, TypeHistory

\* LoginReject keeps every variable in its type.
LEMMA LoginRejectType ==
  ASSUME TypeOK, NEW c \in Conns, LoginReject(c)
  PROVE  TypeOK'
  <1> USE DEF LoginReject, TypeOK
  <1>1. TypeService'
    BY DEF TypeService, EmplaceConn
  <1>2. TypeClient'
    BY ConstantsAssumption DEF TypeClient, Answer, ConstantsAssumption
  <1>3. TypeCallback'
    BY ReturnTypes
  <1> QED  BY <1>1, <1>2, <1>3
    DEF dbVars, netVars, histVars, deliveryVars, TypeDb, TypeNet, TypeHistory

\* LoginEmplace keeps every variable in its type.
LEMMA LoginEmplaceType ==
  ASSUME TypeOK, NEW c \in Conns, LoginEmplace(c)
  PROVE  TypeOK'
  BY DEF LoginEmplace, EmplaceConn, Goto, PCs, UserPCs, MsgPCs, TypeOK, TypeDb,
         TypeService, TypeCallback, TypeNet, TypeClient, TypeHistory, dbVars, svcVars,
         localVars, netVars, clientVars, histVars, deliveryVars

\* LoginSetOnline keeps every variable in its type.
LEMMA LoginSetOnlineType ==
  ASSUME TypeOK, NEW c \in Conns, LoginSetOnline(c)
  PROVE  TypeOK'
  <1> USE DEF LoginSetOnline, TypeOK
  <1>1. TypeDb'
    BY UpdateStateTypes
  <1>2. TypeCallback'
    BY DEF TypeCallback, Goto, PCs, UserPCs, MsgPCs, localVars
  <1> QED  BY <1>1, <1>2
    DEF svcVars, netVars, clientVars, histVars, deliveryVars, TypeService, TypeNet, TypeClient,
        TypeHistory

\* The rows of a table in some order are as many messages.
LEMMA OrdersTypes ==
  ASSUME NEW S, NEW q \in Seq(S)
  PROVE  Orders(q) \subseteq Seq(S)
  <1> SUFFICES ASSUME NEW s \in Orders(q) PROVE s \in Seq(S)
    OBVIOUS
  <1>1. PICK p \in Bijection(DOMAIN q, DOMAIN q) : s = [i \in DOMAIN q |-> q[p[i]]]
    BY DEF Orders
  <1>2. p \in [DOMAIN q -> DOMAIN q]
    BY DEF Bijection, Injection
  <1>3. DOMAIN q = 1..Len(q) /\ Len(q) \in Nat
    OBVIOUS
  <1>4. s \in [1..Len(q) -> S]
    BY <1>1, <1>2, <1>3
  <1> QED  BY <1>3, <1>4

\* LoginReadOffline keeps every variable in its type.
LEMMA LoginReadOfflineType ==
  ASSUME TypeOK, NEW c \in Conns, LoginReadOffline(c)
  PROVE  TypeOK'
  <1> USE DEF LoginReadOffline, TypeOK
  <1>1. hUser[c] \in Users
    BY DEF TypeCallback, UserPCs
  <1>2. PICK msg \in Seq(Msg), ok \in BOOLEAN :
          /\ DbCall(ok)
          /\ hMsgs' = [hMsgs EXCEPT ![c] = msg]
          /\ Goto(c, IF msg = <<>> THEN "reply" ELSE "clearOffline")
    <2>1. PICK ok \in BOOLEAN :
            /\ DbCall(ok)
            /\ \E msg \in IF ok THEN OfflineQuery(offline, hUser[c]) ELSE {<<>>} :
                 /\ hMsgs' = [hMsgs EXCEPT ![c] = msg]
                 /\ Goto(c, IF msg = <<>> THEN "reply" ELSE "clearOffline")
      OBVIOUS
    <2>2. OfflineQuery(offline, hUser[c]) \subseteq Seq(Msg) /\ <<>> \in Seq(Msg)
      BY <1>1, OrdersTypes DEF OfflineQuery, TypeDb
    <2>3. CASE ok  BY <2>1, <2>2, <2>3
    <2>4. CASE ~ok  BY <2>1, <2>2, <2>4
    <2> QED  BY <2>3, <2>4
  <1>3. TypeDb'
    BY <1>2, DbCallTypes DEF TypeDb
  <1>4. TypeCallback'
    BY <1>2 DEF TypeCallback, Goto, PCs, UserPCs, MsgPCs
  <1> QED  BY <1>3, <1>4
    DEF svcVars, netVars, clientVars, histVars, deliveryVars, TypeService, TypeNet, TypeClient,
        TypeHistory

\* LoginClearOffline keeps every variable in its type.
LEMMA LoginClearOfflineType ==
  ASSUME TypeOK, NEW c \in Conns, LoginClearOffline(c)
  PROVE  TypeOK'
  <1> USE DEF LoginClearOffline, TypeOK
  <1>1. TypeDb'
    <2>1. PICK ok \in BOOLEAN :
            /\ DbCall(ok)
            /\ offline' = IF ok THEN OfflineRemove(offline, hUser[c]) ELSE offline
      OBVIOUS
    <2>2. offline' \in [Users -> Seq(Msg)]
      <3>1. OfflineRemove(offline, hUser[c]) \in [Users -> Seq(Msg)]
        <4>1. offline \in [Users -> Seq(Msg)] /\ <<>> \in Seq(Msg)
          BY DEF TypeDb
        <4> HIDE DEF TypeOK, LoginClearOffline
        <4> QED  BY <4>1 DEF OfflineRemove
      <3> QED  BY <2>1, <3>1 DEF TypeDb
    <2> QED  BY <2>1, <2>2, DbCallTypes DEF TypeDb
  <1>2. TypeCallback'
    BY DEF TypeCallback, Goto, PCs, UserPCs, MsgPCs, localVars
  <1> QED  BY <1>1, <1>2
    DEF svcVars, netVars, clientVars, histVars, deliveryVars, TypeService, TypeNet, TypeClient,
        TypeHistory

\* LoginReply keeps every variable in its type.
LEMMA LoginReplyType ==
  ASSUME TypeOK, NEW c \in Conns, LoginReply(c)
  PROVE  TypeOK'
  <1> USE DEF LoginReply, TypeOK
  <1>1. hUser[c] \in Users /\ hMsgs[c] \in Seq(Msg)
    BY DEF TypeCallback, UserPCs
  <1>2. TypeHistory'
    <2>1. fetched[hUser[c]] \o hMsgs[c] \in Seq(Msg)
      BY <1>1 DEF TypeHistory
    <2>2. Pairs(hUser[c], hMsgs[c]) \subseteq Users \X Msg
      BY <1>1, PairsTypes
    <2> QED  BY <2>1, <2>2 DEF TypeHistory
  <1>3. TypeClient'
    BY <1>1, ConstantsAssumption DEF TypeClient, Answer, ConstantsAssumption
  <1>4. TypeCallback'
    BY ReturnTypes
  <1> QED  BY <1>2, <1>3, <1>4
    DEF dbVars, svcVars, netVars, TypeDb, TypeService, TypeNet

-----------------------------------------------------------------------------
\* loginout and clientCloseException.

\* LogoutErase keeps every variable in its type.
LEMMA LogoutEraseType ==
  ASSUME TypeOK, NEW c \in Conns, LogoutErase(c)
  PROVE  TypeOK'
  <1> USE DEF LogoutErase, TypeOK
  <1>1. Head(req[c]).type = "LOGINOUT_MSG" /\ Head(req[c]) \in Request /\ TypeNet'
    BY HandlesTypes DEF TypeNet, Handles
  <1>2. Head(req[c]).user \in Users
    BY <1>1, RequestTypes
  <1>3. TypeCallback'
    BY <1>2 DEF TypeCallback, Goto, PCs, UserPCs, MsgPCs
  <1>4. TypeService'
    BY <1>2 DEF TypeService, EraseConn
  <1>9. TypeHistory'
    BY HandlesTypes DEF TypeHistory, deliveryVars
  <1> QED  BY <1>9, <1>1, <1>3, <1>4
    DEF dbVars, clientVars, histVars, deliveryVars, TypeDb, TypeClient, TypeHistory

\* LogoutUpdate keeps every variable in its type.
LEMMA LogoutUpdateType ==
  ASSUME TypeOK, NEW c \in Conns, LogoutUpdate(c)
  PROVE  TypeOK'
  <1> USE DEF LogoutUpdate, TypeOK
  <1>1. TypeDb'
    BY UpdateStateTypes
  <1>2. TypeCallback'
    BY ReturnTypes
  <1> QED  BY <1>1, <1>2
    DEF svcVars, netVars, clientVars, histVars, deliveryVars, TypeService, TypeNet, TypeClient,
        TypeHistory

\* CloseErase keeps every variable in its type.
LEMMA CloseEraseType ==
  ASSUME TypeOK, NEW c \in Conns, CloseErase(c)
  PROVE  TypeOK'
  <1> USE DEF CloseErase, TypeOK
  <1> DEFINE mine == EntriesOf(userConn, c)
  <1>1. queued' \in [Conns -> [Users -> Seq(Msg)]]
    <2>1. NoQueue \in [Users -> Seq(Msg)]
      BY DEF NoQueue
    <2> QED  BY <2>1 DEF TypeNet
  <1>2. TypeCallback' /\ TypeService' /\ TypeNet'
    <2>1. CASE mine = {}
      <3>1. conn' = [conn EXCEPT ![c] = "none"] /\ UNCHANGED <<userConn, pc, hUser>>
        BY <2>1
      <3> QED  BY <3>1, <1>1 DEF TypeCallback, TypeService, TypeNet
    <2>2. CASE mine # {}
      <3>1. PICK u \in mine : /\ conn' = [conn EXCEPT ![c] = "down"]
                              /\ userConn' = EraseConn(userConn, u)
                              /\ Goto(c, "closeUpdate")
                              /\ hUser' = [hUser EXCEPT ![c] = u]
        BY <2>2
      <3>2. u \in Users
        BY DEF EntriesOf, TypeService
      <3>3. TypeCallback'
        BY <3>1, <3>2 DEF TypeCallback, Goto, PCs, UserPCs, MsgPCs
      <3>4. TypeService'
        BY <3>1, <3>2 DEF TypeService, EraseConn
      <3> QED  BY <3>1, <3>3, <3>4, <1>1 DEF TypeNet
    <2> QED  BY <2>1, <2>2
  <1>3. TypeHistory'
    <2>1. ASSUME NEW u \in Users PROVE Pairs(u, queued[c][u]) \subseteq Users \X Msg
      BY PairsTypes DEF TypeNet
    <2> QED  BY <2>1 DEF TypeHistory
  <1> QED  BY <1>2, <1>3 DEF dbVars, clientVars, TypeDb, TypeClient

\* CloseUpdate keeps every variable in its type.
LEMMA CloseUpdateType ==
  ASSUME TypeOK, NEW c \in Conns, CloseUpdate(c)
  PROVE  TypeOK'
  <1> USE DEF CloseUpdate, TypeOK
  <1>1. TypeDb'
    BY UpdateStateTypes
  <1>2. TypeCallback'
    BY ReturnTypes
  <1>3. TypeNet'
    BY DEF TypeNet
  <1> QED  BY <1>1, <1>2, <1>3
    DEF svcVars, clientVars, histVars, deliveryVars, TypeService, TypeClient, TypeHistory

-----------------------------------------------------------------------------
\* oneChat, groupChat and addGroup.

\* OneChat keeps every variable in its type.
LEMMA OneChatType ==
  ASSUME TypeOK, NEW c \in Conns, OneChat(c)
  PROVE  TypeOK'
  <1> DEFINE to == Head(req[c]).to
             m == Head(req[c]).msg
  <1> USE DEF TypeOK
  <1>1. /\ Head(req[c]) \in Request /\ Head(req[c]).type = "ONE_CHAT_MSG"
        /\ req' \in [Conns -> Seq(Request)] /\ called' \subseteq Conns
    BY HandlesTypes DEF OneChat, Handles
  <1>2. to \in Users /\ m \in Msg
    BY <1>1, RequestTypes
  <1>3. CASE userConn[to] # NoConn /\ Forward(c, to, m) /\ UNCHANGED <<pc, hUser, hMsgs>>
    <2>1. TypeNet' /\ TypeHistory'
      <3>1. /\ dropped' \subseteq Users \X Msg
            /\ received' \in [Users -> Seq(Msg)]
            /\ queued' \in [Conns -> [Users -> Seq(Msg)]]
        BY <1>2, <1>3, ForwardTypes
      <3>2. owed' \subseteq Users \X Msg /\ UNCHANGED <<conn, fetched>>
        BY <1>2 DEF OneChat, TypeHistory
      <3>3. lost' \subseteq Conns \X SessionTypes
        BY HandlesTypes DEF OneChat, TypeHistory
      <3> QED  BY <1>1, <3>1, <3>2, <3>3 DEF TypeNet, TypeHistory
    <2>2. TypeCallback'
      <3>1. UNCHANGED <<pc, localVars>>
        BY <1>3 DEF OneChat, localVars
      <3> QED  BY <3>1 DEF TypeCallback, localVars
    <2> QED  BY <2>1, <2>2
      DEF OneChat, dbVars, svcVars, clientVars, TypeDb, TypeService, TypeClient
  <1>4. CASE /\ Goto(c, "storeOffline")
             /\ hUser' = [hUser EXCEPT ![c] = to] /\ hMsgs' = [hMsgs EXCEPT ![c] = <<m>>]
             /\ UNCHANGED <<queued, received, dropped>>
    <2>1. TypeNet' /\ TypeHistory'
      <3>1. lost' \subseteq Conns \X SessionTypes
        BY HandlesTypes DEF OneChat, TypeHistory
      <3> QED  BY <1>1, <1>2, <1>4, <3>1 DEF OneChat, TypeNet, TypeHistory
    <2>2. TypeCallback'
      BY <1>2, <1>4 DEF OneChat, TypeCallback, Goto, PCs, UserPCs, MsgPCs
    <2> QED  BY <2>1, <2>2
      DEF OneChat, dbVars, svcVars, clientVars, TypeDb, TypeService, TypeClient
  <1> QED  BY <1>3, <1>4 DEF OneChat

\* StoreOffline keeps every variable in its type.
LEMMA StoreOfflineType ==
  ASSUME TypeOK, NEW c \in Conns, StoreOffline(c)
  PROVE  TypeOK'
  <1> USE DEF StoreOffline, TypeOK
  <1>1. hUser[c] \in Users /\ Head(hMsgs[c]) \in Msg
    BY DEF TypeCallback, UserPCs, MsgPCs
  <1>2. TypeDb'
    BY <1>1 DEF TypeDb, DbCall, OfflineInsert
  <1>3. TypeCallback'
    BY ReturnTypes
  <1> QED  BY <1>2, <1>3
    DEF svcVars, netVars, clientVars, histVars, deliveryVars, TypeService, TypeNet, TypeClient,
        TypeHistory

\* GroupQuery keeps every variable in its type.
LEMMA GroupQueryType ==
  ASSUME TypeOK, NEW c \in Conns, GroupQuery(c)
  PROVE  TypeOK'
  <1> DEFINE r == Head(req[c])
             users == QueryGroupUsers(members, r.user, r.group)
  <1> USE DEF GroupQuery, TypeOK
  <1>1. r \in Request /\ r.type = "GROUP_CHAT_MSG" /\ TypeNet'
    BY HandlesTypes DEF TypeNet, Handles
  <1>2. r.msg \in Msg /\ users \in [Users -> Nat]
    BY <1>1, RequestTypes DEF QueryGroupUsers, TypeDb
  <1>3. TypeDb'
    BY DEF TypeDb, DbCall
  <1>4. TypeCallback'
    <2>1. hTodo' \in [Conns -> [Users -> Nat]]
      BY <1>2 DEF TypeCallback, NoRows
    <2>2. hMsgs' \in [Conns -> Seq(Msg)] /\ hMsgs'[c] # <<>>
      BY <1>2 DEF TypeCallback
    <2> QED  BY <2>1, <2>2 DEF TypeCallback, Goto, PCs, UserPCs, MsgPCs
  <1>5. TypeHistory'
    <2>1. lost' \subseteq Conns \X SessionTypes
      BY HandlesTypes DEF TypeHistory
    <2> QED  BY <1>2, <2>1 DEF TypeHistory
  <1> QED  BY <1>1, <1>3, <1>4, <1>5 DEF svcVars, clientVars, TypeService, TypeClient

\* GroupLock keeps every variable in its type.
LEMMA GroupLockType ==
  ASSUME TypeOK, NEW c \in Conns, GroupLock(c)
  PROVE  TypeOK'
  BY DEF GroupLock, Goto, PCs, UserPCs, MsgPCs, TypeOK, TypeDb, TypeService,
         TypeCallback, TypeNet, TypeClient, TypeHistory, dbVars, svcVars, localVars,
         netVars, clientVars, histVars, deliveryVars

\* GroupEach keeps every variable in its type.
LEMMA GroupEachType ==
  ASSUME TypeOK, NEW c \in Conns, NEW u \in Users, GroupEach(c, u)
  PROVE  TypeOK'
  <1> DEFINE m == Head(hMsgs[c])
  <1> USE DEF GroupEach, TypeOK
  <1>1. m \in Msg
    BY DEF TypeCallback, MsgPCs
  <1>2. TypeCallback'
    <2>1. hTodo[c] \in [Users -> Nat] /\ hTodo[c][u] - 1 \in Nat
      BY DEF TypeCallback
    <2>2. hTodo' \in [Conns -> [Users -> Nat]]
      BY <2>1 DEF TypeCallback
    <2> QED  BY <2>2 DEF TypeCallback
  <1>3. TypeService' /\ TypeClient'
    BY DEF svcVars, clientVars, TypeService, TypeClient
  <1>4. CASE userConn[u] # NoConn /\ Forward(c, u, m) /\ UNCHANGED <<offline, faults>>
    BY <1>1, <1>2, <1>3, <1>4, ForwardTypes DEF TypeDb, TypeNet, TypeHistory
  <1>5. CASE /\ \E ok \in BOOLEAN :
                  /\ DbCall(ok)
                  /\ offline' = IF ok THEN OfflineInsert(offline, u, m) ELSE offline
             /\ UNCHANGED <<queued, received, dropped>>
    <2>1. TypeDb'
      BY <1>1, <1>5 DEF TypeDb, DbCall, OfflineInsert
    <2> QED  BY <2>1, <1>2, <1>3, <1>5 DEF TypeNet, TypeHistory
  <1> QED  BY <1>4, <1>5

\* GroupUnlock keeps every variable in its type.
LEMMA GroupUnlockType ==
  ASSUME TypeOK, NEW c \in Conns, GroupUnlock(c)
  PROVE  TypeOK'
  <1>1. TypeCallback'
    BY ReturnTypes DEF GroupUnlock, TypeOK
  <1> QED  BY <1>1 DEF GroupUnlock, TypeOK, TypeDb, TypeService, TypeNet, TypeClient,
         TypeHistory, dbVars, svcVars, netVars, clientVars, histVars, deliveryVars

\* AddGroup keeps every variable in its type.
LEMMA AddGroupType ==
  ASSUME TypeOK, NEW c \in Conns, AddGroup(c)
  PROVE  TypeOK'
  <1> USE DEF AddGroup, TypeOK
  <1>1. Head(req[c]).type = "ADD_GROUP_MSG" /\ Head(req[c]) \in Request /\ TypeNet'
    BY HandlesTypes DEF TypeNet, Handles
  <1>2. Head(req[c]).user \in Users
    BY <1>1, RequestTypes
  <1>3. TypeDb'
    <2>1. PICK ok \in BOOLEAN :
            /\ DbCall(ok)
            /\ members' = IF ok THEN AddMember(members, Head(req[c]).user, Head(req[c]).group)
                                ELSE members
      OBVIOUS
    <2>2. members' \in [Groups -> [Users -> Nat]]
      <3>1. CASE ok
        <4>1. members \in [Groups -> [Users -> Nat]] /\ Head(req[c]).group \in Groups
          BY <1>1, RequestTypes DEF TypeDb
        <4>2. members[Head(req[c]).group][Head(req[c]).user] + 1 \in Nat
          BY <1>2, <4>1
        <4> HIDE DEF AddGroup, TypeOK
        <4> QED  BY <1>2, <2>1, <3>1, <4>1, <4>2 DEF AddMember
      <3>2. CASE ~ok  BY <2>1, <3>2 DEF TypeDb
      <3> QED  BY <3>1, <3>2
    <2> QED  BY <2>1, <2>2, DbCallTypes DEF TypeDb
  <1>9. TypeHistory'
    BY HandlesTypes DEF TypeHistory, deliveryVars
  <1> QED  BY <1>9, <1>1, <1>3
    DEF svcVars, localVars, clientVars, histVars, deliveryVars, TypeService, TypeCallback, TypeClient,
        TypeHistory

-----------------------------------------------------------------------------
\* The event loop and the process.

\* RunPending keeps every variable in its type.
LEMMA RunPendingType ==
  ASSUME TypeOK, NEW c \in Conns, RunPending(c)
  PROVE  TypeOK'
  <1> USE DEF RunPending, TypeOK
  <1>1. TypeNet'
    BY DEF TypeNet, NoQueue
  <1>2. TypeHistory'
    <2>1. ASSUME NEW u \in Users
          PROVE  /\ Pairs(u, queued[c][u]) \subseteq Users \X Msg
                 /\ received[u] \o queued[c][u] \in Seq(Msg)
      <3>1. queued[c][u] \in Seq(Msg) /\ received[u] \in Seq(Msg)
        BY DEF TypeNet, TypeHistory
      <3> QED  BY <3>1, PairsTypes
    <2>2. UNION {Pairs(u, queued[c][u]) : u \in Users} \subseteq Users \X Msg
      BY <2>1
    <2>3. [u \in Users |-> received[u] \o queued[c][u]] \in [Users -> Seq(Msg)]
      BY <2>1
    <2>4. CASE client[c] = "gone"  BY <2>2, <2>4 DEF TypeHistory
    <2>5. CASE client[c] # "gone"  BY <2>3, <2>5 DEF TypeHistory
    <2> QED  BY <2>4, <2>5
  <1> QED  BY <1>1, <1>2
    DEF dbVars, svcVars, localVars, clientVars, TypeDb, TypeService, TypeCallback,
        TypeClient

\* Interrupt keeps every variable in its type.
LEMMA InterruptType ==
  ASSUME TypeOK, Interrupt
  PROVE  TypeOK'
  BY DEF Interrupt, DbCall, ResetState, TypeOK, TypeDb, TypeService, TypeCallback,
         TypeNet, TypeClient, TypeHistory, dbVars, svcVars, localVars, netVars,
         clientVars, histVars, deliveryVars

\* Exit keeps every variable in its type.
LEMMA ExitType ==
  ASSUME TypeOK, Exit
  PROVE  TypeOK'
  BY DownTypes DEF Exit, dbVars, TypeOK, TypeDb, TypeService

\* Crash keeps every variable in its type.
LEMMA CrashType ==
  ASSUME TypeOK, Crash
  PROVE  TypeOK'
  BY DownTypes DEF Crash, dbVars, TypeOK, TypeDb, TypeService

\* Restart keeps every variable in its type.
LEMMA RestartType ==
  ASSUME TypeOK, Restart
  PROVE  TypeOK'
  BY DEF Restart, TypeOK, TypeDb, TypeService, TypeCallback, TypeNet, TypeClient,
         TypeHistory, dbVars, svcVars, localVars, netVars, clientVars, histVars, deliveryVars

-----------------------------------------------------------------------------
\* The state main() starts in has the types.
THEOREM TypeInit == Init => TypeOK
  <1> SUFFICES ASSUME Init PROVE TypeOK
    OBVIOUS
  <1> USE ConstantsAssumption DEF Init, ConstantsAssumption
  <1>1. TypeDb /\ TypeService
    <2>1. <<>> \in Seq(Msg)
      OBVIOUS
    <2> QED  BY <2>1 DEF TypeDb, TypeService
  <1>2. TypeCallback
    <2>1. NoRows \in [Users -> Nat]
      BY DEF NoRows
    <2> QED  BY <2>1 DEF TypeCallback, PCs, UserPCs, MsgPCs
  <1>3. TypeNet
    BY DEF TypeNet, NoQueue
  <1>4. TypeClient /\ TypeHistory
    BY DEF TypeClient, TypeHistory
  <1> QED  BY <1>1, <1>2, <1>3, <1>4 DEF TypeOK

\* No step of a client, a loop or the process leaves the types.
THEOREM TypeStep == TypeOK /\ [Next]_vars => TypeOK'
  <1> SUFFICES ASSUME TypeOK, [Next]_vars PROVE TypeOK'
    OBVIOUS
  <1>1. ASSUME NEW c \in Conns, Client(c) PROVE TypeOK'
    BY <1>1, ConnectType, SendLoginType, SendLogoutType, SendOneChatType,
       SendGroupChatType, SendAddGroupType, QuitType DEF Client
  <1>2. ASSUME NEW c \in Conns, Login(c) PROVE TypeOK'
    BY <1>2, LoginQueryType, LoginRefuseType, LoginRejectType, LoginEmplaceType,
       LoginSetOnlineType, LoginReadOfflineType, LoginClearOfflineType, LoginReplyType
    DEF Login
  <1>3. ASSUME NEW c \in Conns, Leave(c) PROVE TypeOK'
    BY <1>3, LogoutEraseType, LogoutUpdateType, CloseEraseType, CloseUpdateType
    DEF Leave
  <1>4. ASSUME NEW c \in Conns, Chat(c) PROVE TypeOK'
    BY <1>4, OneChatType, StoreOfflineType, GroupQueryType, GroupLockType, GroupEachType,
       GroupUnlockType, AddGroupType DEF Chat
  <1>5. ASSUME NEW c \in Conns, RunPending(c) PROVE TypeOK'
    BY <1>5, RunPendingType
  <1>6. CASE Process
    BY <1>6, InterruptType, ExitType, CrashType, RestartType DEF Process
  <1>7. CASE UNCHANGED vars
    BY <1>7 DEF vars, dbVars, svcVars, localVars, netVars, clientVars, histVars, deliveryVars, TypeOK,
       TypeDb, TypeService, TypeCallback, TypeNet, TypeClient, TypeHistory
  <1> QED  BY <1>1, <1>2, <1>3, <1>4, <1>5, <1>6, <1>7 DEF Next, Loop

\* Type correctness: whatever is interleaved, fails or crashes, a callback
\* that goes on with a user or a message has one, and a client has an account
\* exactly while it chats.
THEOREM TypeCorrect == Spec => []TypeOK
  BY TypeInit, TypeStep, PTL DEF Spec

-----------------------------------------------------------------------------
\* The requests of a connection after a client has sent r ...
LEMMA SendAppends ==
  ASSUME TypeNet, NEW c \in Conns, NEW r, Send(c, r), NEW d \in Conns,
         NEW i \in DOMAIN req'[d]
  PROVE  \/ i \in DOMAIN req[d] /\ req'[d][i] = req[d][i]
         \/ d = c /\ i = Len(req[c]) + 1 /\ i = Len(req'[c]) /\ req'[d][i] = r
  BY DEF TypeNet, Send

\* ... and after a read has taken the first, and perhaps others behind it.
LEMMA ConsumeTakes ==
  ASSUME TypeNet, NEW c \in Conns, NEW type, Handles(c, type), Consume(c)
  PROVE  \E k \in 1 .. Len(req[c]) :
            /\ req' = [req EXCEPT ![c] = SubSeq(req[c], k + 1, Len(req[c]))]
            /\ Len(req'[c]) = Len(req[c]) - k
            /\ DOMAIN req'[c] = 1 .. (Len(req[c]) - k)
            /\ \A i \in DOMAIN req'[c] : i + k \in DOMAIN req[c] /\ req'[c][i] = req[c][i + k]
            /\ \A i \in 2 .. k : req[c][i].type \in SessionTypes => <<c, req[c][i].type>> \in lost'
  <1>1. req[c] \in Seq(Request) /\ req[c] # <<>> /\ Len(req[c]) \in Nat
    BY DEF TypeNet, Handles
  <1>2. PICK k \in 1 .. Len(req[c]) :
          /\ req' = [req EXCEPT ![c] = SubSeq(@, k + 1, Len(@))]
          /\ lost' = lost \cup ({c} \X ({req[c][i].type : i \in 2 .. k} \cap SessionTypes))
    BY DEF Consume
  <1>3. req'[c] = SubSeq(req[c], k + 1, Len(req[c])) /\ k \in 0 .. Len(req[c])
    BY <1>1, <1>2 DEF TypeNet
  <1>4. /\ Len(req'[c]) = Len(req[c]) - k
        /\ DOMAIN req'[c] = 1 .. (Len(req[c]) - k)
        /\ \A i \in DOMAIN req'[c] : i + k \in DOMAIN req[c] /\ req'[c][i] = req[c][i + k]
    BY <1>1, <1>3, SubSeqRest
  <1>5. \A i \in 2 .. k : req[c][i].type \in SessionTypes => <<c, req[c][i].type>> \in lost'
    BY <1>2
  <1> QED  BY <1>2, <1>4, <1>5

\* What is left moves up.
LEMMA ConsumeShifts ==
  ASSUME TypeNet, NEW c \in Conns, NEW type, Handles(c, type), Consume(c), NEW d \in Conns,
         NEW i \in DOMAIN req'[d]
  PROVE  \/ d # c /\ i \in DOMAIN req[d] /\ req'[d][i] = req[d][i]
         \/ d = c /\ \E k \in 1 .. Len(req[c]) :
                        /\ i + k \in DOMAIN req[c] /\ req'[d][i] = req[c][i + k]
                        /\ Len(req'[c]) = Len(req[c]) - k
  BY ConsumeTakes DEF TypeNet

\* In short: no request appears but the one sent ...
LEMMA SentOrThere ==
  ASSUME TypeNet, NEW c \in Conns, NEW r, Send(c, r), NEW d \in Conns
  PROVE  \A i \in DOMAIN req'[d] :
            req'[d][i] = r \/ \E j \in DOMAIN req[d] : req'[d][i] = req[d][j]
  BY SendAppends

\* ... and none by handling one.
LEMMA RestWasThere ==
  ASSUME TypeNet, NEW c \in Conns, NEW type, Handles(c, type), Consume(c), NEW d \in Conns
  PROVE  \A i \in DOMAIN req'[d] : \E j \in DOMAIN req[d] : req'[d][i] = req[d][j]
  BY ConsumeShifts

-----------------------------------------------------------------------------
\* Whatever the step, a connection goes on to act for its client's accounts only.
LEMMA ActsForItselfStep ==
  ASSUME TypeOK, \A e \in Conns : ActsForItself(e), NEW d \in Conns,
         [Next]_vars
  PROVE  ActsForItself(d)'
  <1> USE ConstantsAssumption
      DEF PCs, UserPCs, TypeOK, TypeService, TypeCallback, TypeNet, TypeClient,
          ConstantsAssumption, ActsForItself, LoginPCs, vars, dbVars, svcVars,
          localVars, netVars, clientVars, histVars, deliveryVars
  <1>1. ASSUME NEW c \in Conns, Connect(c) PROVE ActsForItself(d)'
    BY <1>1 DEF Connect
  <1>2. ASSUME NEW c \in Conns, NEW u \in Users, NEW ok \in BOOLEAN, SendLogin(c, u, ok)
        PROVE  ActsForItself(d)'
    <2>1. PICK r : Send(c, r) /\ r.user \in AccountsOf[c]
      BY <1>2 DEF SendLogin
    <2>2. \A i \in DOMAIN req'[d] :
            \/ i \in DOMAIN req[d] /\ req'[d][i] = req[d][i]
            \/ req'[d][i].user \in AccountsOf[d]
      <3> HIDE DEF TypeNet
      <3> QED  BY <2>1, SendAppends
    <2> QED  BY <1>2, <2>2 DEF SendLogin
  <1>3. ASSUME NEW c \in Conns, SendLogout(c) PROVE ActsForItself(d)'
    <2>1. account[c] \in AccountsOf[c]
      BY <1>3 DEF SendLogout
    <2>2. PICK r : Send(c, r) /\ r.user \in AccountsOf[c]
      BY <1>3, <2>1 DEF SendLogout
    <2>3. \A i \in DOMAIN req'[d] :
            \/ i \in DOMAIN req[d] /\ req'[d][i] = req[d][i]
            \/ req'[d][i].user \in AccountsOf[d]
      <3> HIDE DEF TypeNet
      <3> QED  BY <2>2, SendAppends
    <2> QED  BY <1>3, <2>3 DEF SendLogout
  <1>4. ASSUME NEW c \in Conns, NEW u \in Users, SendOneChat(c, u)
        PROVE  ActsForItself(d)'
    <2>1. PICK r : Send(c, r) /\ r.type = "ONE_CHAT_MSG"
      BY <1>4 DEF SendOneChat
    <2>2. \A i \in DOMAIN req'[d] :
            req'[d][i].type \in {"LOGIN_MSG", "LOGINOUT_MSG"}
              => i \in DOMAIN req[d] /\ req'[d][i] = req[d][i]
      <3> HIDE DEF TypeNet
      <3> QED  BY <2>1, SendAppends
    <2> QED  BY <1>4, <2>2 DEF SendOneChat
  <1>5. ASSUME NEW c \in Conns, NEW g \in Groups, SendGroupChat(c, g)
        PROVE  ActsForItself(d)'
    <2>1. PICK r : Send(c, r) /\ r.type = "GROUP_CHAT_MSG"
      BY <1>5 DEF SendGroupChat
    <2>2. \A i \in DOMAIN req'[d] :
            req'[d][i].type \in {"LOGIN_MSG", "LOGINOUT_MSG"}
              => i \in DOMAIN req[d] /\ req'[d][i] = req[d][i]
      <3> HIDE DEF TypeNet
      <3> QED  BY <2>1, SendAppends
    <2> QED  BY <1>5, <2>2 DEF SendGroupChat
  <1>6. ASSUME NEW c \in Conns, NEW g \in Groups, SendAddGroup(c, g)
        PROVE  ActsForItself(d)'
    <2>1. PICK r : Send(c, r) /\ r.type = "ADD_GROUP_MSG"
      BY <1>6 DEF SendAddGroup
    <2>2. \A i \in DOMAIN req'[d] :
            req'[d][i].type \in {"LOGIN_MSG", "LOGINOUT_MSG"}
              => i \in DOMAIN req[d] /\ req'[d][i] = req[d][i]
      <3> HIDE DEF TypeNet
      <3> QED  BY <2>1, SendAppends
    <2> QED  BY <1>6, <2>2 DEF SendAddGroup
  <1>7. ASSUME NEW c \in Conns, Quit(c) PROVE ActsForItself(d)'
    BY <1>7 DEF Quit
  <1>8. ASSUME NEW c \in Conns, LoginQuery(c) PROVE ActsForItself(d)'
    <2>1. Handles(c, "LOGIN_MSG") /\ Consume(c)
      BY <1>8 DEF LoginQuery
    <2>2. \A i \in DOMAIN req'[d] : \E j \in DOMAIN req[d] : req'[d][i] = req[d][j]
      <3> HIDE DEF TypeNet
      <3> QED  BY <2>1, RestWasThere
    <2>3. Head(req[c]).user \in AccountsOf[c]
      <3>1. 1 \in DOMAIN req[c] /\ Head(req[c]) = req[c][1]
        BY <2>1 DEF Handles
      <3> QED  BY <2>1, <3>1 DEF Handles
    <2>4. pc'[d] \in LoginPCs \cup {"logoutUpdate"} => hUser'[d] \in AccountsOf[d]
      BY <1>8, <2>3 DEF LoginQuery, Goto
    <2>5. UNCHANGED <<account, userConn>>
      BY <1>8 DEF LoginQuery
    <2> QED  BY <2>2, <2>4, <2>5
  <1>9. ASSUME NEW c \in Conns, LoginRefuse(c) PROVE ActsForItself(d)'
    <2>1. \A i \in DOMAIN req'[d] : \E j \in DOMAIN req[d] : req'[d][i] = req[d][j]
      <3>1. Handles(c, "LOGIN_MSG") /\ Consume(c)
        BY <1>9 DEF LoginRefuse
      <3> HIDE DEF TypeNet
      <3> QED  BY <3>1, RestWasThere
    <2> QED  BY <1>9, <2>1 DEF LoginRefuse, Answer
  <1>10. ASSUME NEW c \in Conns, LoginReject(c) \/ LoginEmplace(c) PROVE ActsForItself(d)'
    <2>1. /\ UNCHANGED req /\ pc[c] \in {"reject", "emplace"}
          /\ userConn' = EmplaceConn(userConn, hUser[c], c)
      BY <1>10 DEF LoginReject, LoginEmplace
    <2>2. hUser[c] \in AccountsOf[c]
      BY <2>1
    <2>3. \A u \in Users : userConn'[u] = d => u \in AccountsOf[d]
      BY <2>1, <2>2 DEF EmplaceConn
    <2>4. account'[d] \in {account[d], NoUser}
      BY <1>10 DEF LoginReject, LoginEmplace, Answer
    <2>5. pc'[d] \in {pc[d], "idle", "setOnline"} /\ (d # c => pc'[d] = pc[d])
      BY <1>10 DEF LoginReject, LoginEmplace, Return, Goto
    <2>6. pc'[d] # "idle" => hUser'[d] = hUser[d]
      <3>1. CASE LoginReject(c)
        BY <3>1 DEF LoginReject, Return, Goto
      <3>2. CASE LoginEmplace(c)
        BY <3>2 DEF LoginEmplace
      <3> QED  BY <1>10, <3>1, <3>2
    <2>7. pc'[d] \in LoginPCs \cup {"logoutUpdate"} => hUser'[d] \in AccountsOf[d]
      BY <2>1, <2>2, <2>5, <2>6
    <2> QED  BY <2>1, <2>3, <2>4, <2>7
  <1>12. ASSUME NEW c \in Conns, LoginSetOnline(c) PROVE ActsForItself(d)'
    BY <1>12 DEF LoginSetOnline, Goto
  <1>13. ASSUME NEW c \in Conns, LoginReadOffline(c) PROVE ActsForItself(d)'
    BY <1>13, SMTT(30) DEF LoginReadOffline, Goto
  <1>14. ASSUME NEW c \in Conns, LoginClearOffline(c) PROVE ActsForItself(d)'
    BY <1>14 DEF LoginClearOffline, Goto
  <1>15. ASSUME NEW c \in Conns, LoginReply(c) PROVE ActsForItself(d)'
    <2>1. account'[d] \in AccountsOf[d] \cup {NoUser}
      <3>1. hUser[c] \in AccountsOf[c]
        BY <1>15 DEF LoginReply
      <3>2. account' = account \/ account' = [account EXCEPT ![c] = hUser[c]]
        BY <1>15 DEF LoginReply, Answer
      <3>3. CASE account' = account  BY <3>3
      <3>4. CASE account' = [account EXCEPT ![c] = hUser[c]]  BY <3>1, <3>4
      <3> QED  BY <3>2, <3>3, <3>4
    <2>2. pc'[d] \in LoginPCs \cup {"logoutUpdate"} => hUser'[d] \in AccountsOf[d]
      BY <1>15 DEF LoginReply, Return, Goto
    <2>3. UNCHANGED <<req, userConn>>
      BY <1>15 DEF LoginReply
    <2> QED  BY <2>1, <2>2, <2>3
  <1>16. ASSUME NEW c \in Conns, LogoutErase(c) PROVE ActsForItself(d)'
    <2>1. \A i \in DOMAIN req'[d] : \E j \in DOMAIN req[d] : req'[d][i] = req[d][j]
      <3>1. Handles(c, "LOGINOUT_MSG") /\ Consume(c)
        BY <1>16 DEF LogoutErase
      <3> HIDE DEF TypeNet
      <3> QED  BY <3>1, RestWasThere
    <2>2. Head(req[c]).user \in AccountsOf[c]
      <3>1. req[c] # <<>> /\ Head(req[c]).type = "LOGINOUT_MSG"
        BY <1>16 DEF LogoutErase, Handles
      <3>2. 1 \in DOMAIN req[c] /\ Head(req[c]) = req[c][1]
        BY <3>1
      <3> QED  BY <3>1, <3>2
    <2>3. \A u \in Users : userConn'[u] = d => userConn[u] = d
      BY <1>16, ConstantsAssumption DEF LogoutErase, EraseConn
    <2>4. pc'[d] \in LoginPCs \cup {"logoutUpdate"} => hUser'[d] \in AccountsOf[d]
      BY <1>16, <2>2 DEF LogoutErase, Goto
    <2>5. UNCHANGED account
      BY <1>16 DEF LogoutErase
    <2> QED  BY <2>1, <2>3, <2>4, <2>5
  <1>17. ASSUME NEW c \in Conns, LogoutUpdate(c) PROVE ActsForItself(d)'
    BY <1>17 DEF LogoutUpdate, Return, Goto
  <1>18. ASSUME NEW c \in Conns, CloseErase(c) PROVE ActsForItself(d)'
    BY <1>18, SMTT(30) DEF CloseErase, Ready, EntriesOf, EraseConn, Goto
  <1>19. ASSUME NEW c \in Conns, CloseUpdate(c) PROVE ActsForItself(d)'
    BY <1>19 DEF CloseUpdate, Return, Goto
  <1>20. ASSUME NEW c \in Conns, OneChat(c) PROVE ActsForItself(d)'
    <2>1. \A i \in DOMAIN req'[d] : \E j \in DOMAIN req[d] : req'[d][i] = req[d][j]
      <3>1. Handles(c, "ONE_CHAT_MSG") /\ Consume(c)
        BY <1>20 DEF OneChat
      <3> HIDE DEF TypeNet
      <3> QED  BY <3>1, RestWasThere
    <2>2. pc'[d] \in LoginPCs \cup {"logoutUpdate"} => hUser'[d] \in AccountsOf[d]
      <3>1. \/ UNCHANGED <<pc, hUser>>
            \/ Goto(c, "storeOffline") /\ \E u : hUser' = [hUser EXCEPT ![c] = u]
        BY <1>20 DEF OneChat
      <3> QED  BY <3>1 DEF Goto
    <2>3. UNCHANGED <<account, userConn>>
      BY <1>20 DEF OneChat
    <2> QED  BY <2>1, <2>2, <2>3
  <1>21. ASSUME NEW c \in Conns, StoreOffline(c) PROVE ActsForItself(d)'
    BY <1>21 DEF StoreOffline, Return, Goto
  <1>22. ASSUME NEW c \in Conns, GroupQuery(c) PROVE ActsForItself(d)'
    <2>1. \A i \in DOMAIN req'[d] : \E j \in DOMAIN req[d] : req'[d][i] = req[d][j]
      <3>1. Handles(c, "GROUP_CHAT_MSG") /\ Consume(c)
        BY <1>22 DEF GroupQuery
      <3> HIDE DEF TypeNet
      <3> QED  BY <3>1, RestWasThere
    <2> QED  BY <1>22, <2>1 DEF GroupQuery, Goto
  <1>23. ASSUME NEW c \in Conns, GroupLock(c) PROVE ActsForItself(d)'
    BY <1>23 DEF GroupLock, Goto
  <1>24. ASSUME NEW c \in Conns, NEW u \in Users, GroupEach(c, u)
         PROVE  ActsForItself(d)'
    BY <1>24 DEF GroupEach
  <1>25. ASSUME NEW c \in Conns, GroupUnlock(c) PROVE ActsForItself(d)'
    BY <1>25 DEF GroupUnlock, Return, Goto
  <1>26. ASSUME NEW c \in Conns, AddGroup(c) PROVE ActsForItself(d)'
    <2>1. \A i \in DOMAIN req'[d] : \E j \in DOMAIN req[d] : req'[d][i] = req[d][j]
      <3>1. Handles(c, "ADD_GROUP_MSG") /\ Consume(c)
        BY <1>26 DEF AddGroup
      <3> HIDE DEF TypeNet
      <3> QED  BY <3>1, RestWasThere
    <2> QED  BY <1>26, <2>1 DEF AddGroup
  <1>27. ASSUME NEW c \in Conns, RunPending(c) PROVE ActsForItself(d)'
    BY <1>27 DEF RunPending
  <1>28. CASE Interrupt
    BY <1>28 DEF Interrupt
  <1>29. CASE Exit
    BY <1>29 DEF Exit, Down
  <1>30. CASE Crash
    BY <1>30 DEF Crash, Down
  <1>31. CASE Restart
    BY <1>31 DEF Restart
  <1>32. CASE UNCHANGED vars
    BY <1>32
  <1> QED
    BY SMTT(30), <1>1, <1>2, <1>3, <1>4, <1>5, <1>6, <1>7, <1>8, <1>9, <1>10, <1>12,
       <1>13, <1>14, <1>15, <1>16, <1>17, <1>18, <1>19, <1>20, <1>21, <1>22,
       <1>23, <1>24, <1>25, <1>26, <1>27, <1>28, <1>29, <1>30, <1>31, <1>32
    DEF Next, Client, Loop, Login, Leave, Chat, Process

-----------------------------------------------------------------------------
\* Whatever the step, login runs on open connections only, and a closing connection
\* runs its last callback.
LEMMA CallbackMatchesConnStep ==
  ASSUME TypeOK, \A e \in Conns : CallbackMatchesConn(e), NEW d \in Conns,
         [Next]_vars
  PROVE  CallbackMatchesConn(d)'
  <1> USE ConstantsAssumption
      DEF PCs, UserPCs, TypeOK, TypeService, TypeCallback, TypeNet,
          ConstantsAssumption, CallbackMatchesConn, LoginPCs, vars, dbVars, svcVars,
          localVars, netVars, clientVars, histVars, deliveryVars
  <1>1. ASSUME NEW c \in Conns, Connect(c) PROVE CallbackMatchesConn(d)'
    BY <1>1 DEF Connect
  <1>2. ASSUME NEW c \in Conns, NEW u \in Users, NEW ok \in BOOLEAN, SendLogin(c, u, ok)
        PROVE  CallbackMatchesConn(d)'
    BY <1>2 DEF SendLogin, Send
  <1>3. ASSUME NEW c \in Conns, SendLogout(c) PROVE CallbackMatchesConn(d)'
    BY <1>3 DEF SendLogout, Send
  <1>4. ASSUME NEW c \in Conns, NEW u \in Users, SendOneChat(c, u)
        PROVE  CallbackMatchesConn(d)'
    BY <1>4 DEF SendOneChat, Send, CanCommand
  <1>5. ASSUME NEW c \in Conns, NEW g \in Groups, SendGroupChat(c, g)
        PROVE  CallbackMatchesConn(d)'
    BY <1>5 DEF SendGroupChat, Send, CanCommand
  <1>6. ASSUME NEW c \in Conns, NEW g \in Groups, SendAddGroup(c, g)
        PROVE  CallbackMatchesConn(d)'
    BY <1>6 DEF SendAddGroup, Send, CanCommand
  <1>7. ASSUME NEW c \in Conns, Quit(c) PROVE CallbackMatchesConn(d)'
    BY <1>7 DEF Quit
  <1>8. ASSUME NEW c \in Conns, LoginQuery(c) PROVE CallbackMatchesConn(d)'
    BY <1>8 DEF LoginQuery, Handles, Ready, Consume, Goto
  <1>9. ASSUME NEW c \in Conns, LoginRefuse(c) PROVE CallbackMatchesConn(d)'
    BY <1>9 DEF LoginRefuse, Handles, Ready, Consume, Answer
  <1>10. ASSUME NEW c \in Conns, LoginReject(c) PROVE CallbackMatchesConn(d)'
    BY <1>10 DEF LoginReject, Answer, EmplaceConn, Return, Goto
  <1>11. ASSUME NEW c \in Conns, LoginEmplace(c) PROVE CallbackMatchesConn(d)'
    BY <1>11 DEF LoginEmplace, EmplaceConn, Goto
  <1>12. ASSUME NEW c \in Conns, LoginSetOnline(c) PROVE CallbackMatchesConn(d)'
    BY <1>12 DEF LoginSetOnline, Goto
  <1>13. ASSUME NEW c \in Conns, LoginReadOffline(c) PROVE CallbackMatchesConn(d)'
    BY <1>13 DEF LoginReadOffline, Goto
  <1>14. ASSUME NEW c \in Conns, LoginClearOffline(c) PROVE CallbackMatchesConn(d)'
    BY <1>14 DEF LoginClearOffline, Goto
  <1>15. ASSUME NEW c \in Conns, LoginReply(c) PROVE CallbackMatchesConn(d)'
    BY <1>15 DEF LoginReply, Answer, Return, Goto
  <1>16. ASSUME NEW c \in Conns, LogoutErase(c) PROVE CallbackMatchesConn(d)'
    BY <1>16 DEF LogoutErase, Handles, Ready, Consume, EraseConn, Goto
  <1>17. ASSUME NEW c \in Conns, LogoutUpdate(c) PROVE CallbackMatchesConn(d)'
    BY <1>17 DEF LogoutUpdate, Return, Goto
  <1>18. ASSUME NEW c \in Conns, CloseErase(c) PROVE CallbackMatchesConn(d)'
    <2>1. pc[c] = "idle" /\ conn[c] = "up"
      BY <1>18 DEF CloseErase, Ready, LoopFree
    <2>2. CASE EntriesOf(userConn, c) = {}
      BY <1>18, <2>1, <2>2 DEF CloseErase
    <2>3. CASE EntriesOf(userConn, c) # {}
      <3>1. conn' = [conn EXCEPT ![c] = "down"] /\ Goto(c, "closeUpdate")
        BY <1>18, <2>3 DEF CloseErase
      <3> QED  BY <2>1, <3>1 DEF Goto
    <2> QED  BY <2>2, <2>3
  <1>19. ASSUME NEW c \in Conns, CloseUpdate(c) PROVE CallbackMatchesConn(d)'
    BY <1>19 DEF CloseUpdate, Return, Goto
  <1>20. ASSUME NEW c \in Conns, OneChat(c) PROVE CallbackMatchesConn(d)'
    BY <1>20 DEF OneChat, Handles, Ready, Consume, Goto
  <1>21. ASSUME NEW c \in Conns, StoreOffline(c) PROVE CallbackMatchesConn(d)'
    BY <1>21 DEF StoreOffline, Return, Goto
  <1>22. ASSUME NEW c \in Conns, GroupQuery(c) PROVE CallbackMatchesConn(d)'
    BY <1>22 DEF GroupQuery, Handles, Ready, Consume, Goto
  <1>23. ASSUME NEW c \in Conns, GroupLock(c) PROVE CallbackMatchesConn(d)'
    BY <1>23 DEF GroupLock, Goto
  <1>24. ASSUME NEW c \in Conns, NEW u \in Users, GroupEach(c, u)
         PROVE  CallbackMatchesConn(d)'
    BY <1>24 DEF GroupEach
  <1>25. ASSUME NEW c \in Conns, GroupUnlock(c) PROVE CallbackMatchesConn(d)'
    BY <1>25 DEF GroupUnlock, Return, Goto
  <1>26. ASSUME NEW c \in Conns, AddGroup(c) PROVE CallbackMatchesConn(d)'
    BY <1>26 DEF AddGroup, Handles, Ready, Consume
  <1>27. ASSUME NEW c \in Conns, RunPending(c) PROVE CallbackMatchesConn(d)'
    BY <1>27 DEF RunPending
  <1>28. CASE Interrupt
    BY <1>28 DEF Interrupt
  <1>29. CASE Exit
    BY <1>29 DEF Exit, Down
  <1>30. CASE Crash
    BY <1>30 DEF Crash, Down
  <1>31. CASE Restart
    BY <1>31 DEF Restart
  <1>32. CASE UNCHANGED vars
    BY <1>32
  <1> QED
    BY <1>1, <1>2, <1>3, <1>4, <1>5, <1>6, <1>7, <1>8, <1>9, <1>10, <1>11, <1>12,
       <1>13, <1>14, <1>15, <1>16, <1>17, <1>18, <1>19, <1>20, <1>21, <1>22,
       <1>23, <1>24, <1>25, <1>26, <1>27, <1>28, <1>29, <1>30, <1>31, <1>32
    DEF Next, Client, Loop, Login, Leave, Chat, Process

-----------------------------------------------------------------------------
\* A chat command joins the queue of a client that is logged in ...
LEMMA TurnsAfterCommand ==
  ASSUME TypeNet, \A e \in Conns : TakesTurns(e),
         NEW c \in Conns, NEW r, Send(c, r), r.type \notin {"LOGIN_MSG", "LOGINOUT_MSG"},
         client[c] = "chatting", UNCHANGED <<pc, conn, client>>, NEW d \in Conns
  PROVE  TakesTurns(d)'
  <1>1. CASE d # c
    <2>1. req'[d] = req[d]
      BY <1>1 DEF TypeNet, Send
    <2> QED  BY <2>1 DEF TakesTurns
  <1>2. CASE d = c
    <2>1. /\ pc[c] \notin LoginPCs
          /\ conn[c] = "up"
          /\ \A i \in DOMAIN req[c] : req[c][i].type \notin {"LOGIN_MSG", "LOGINOUT_MSG"}
      BY DEF TakesTurns
    <2>2. \A i \in DOMAIN req'[c] : req'[c][i].type \notin {"LOGIN_MSG", "LOGINOUT_MSG"}
      BY <2>1, SendAppends
    <2> QED  BY <1>2, <2>1, <2>2 DEF TakesTurns
  <1> QED  BY <1>1, <1>2

\* ... the request to log out ends the client's session ...
LEMMA TurnsAfterLogout ==
  ASSUME TypeNet, TypeClient, \A e \in Conns : TakesTurns(e),
         NEW c \in Conns, NEW r, Send(c, r), r.type = "LOGINOUT_MSG",
         client[c] = "chatting", client' = [client EXCEPT ![c] = "menu"],
         UNCHANGED <<pc, conn>>, NEW d \in Conns
  PROVE  TakesTurns(d)'
  <1>1. CASE d # c
    <2>1. req'[d] = req[d] /\ client'[d] = client[d]
      BY <1>1 DEF TypeNet, TypeClient, Send
    <2> QED  BY <2>1 DEF TakesTurns
  <1>2. CASE d = c
    <2>1. /\ pc[c] \notin LoginPCs
          /\ conn[c] = "up"
          /\ \A i \in DOMAIN req[c] : req[c][i].type # "LOGIN_MSG"
      BY DEF TakesTurns
    <2>2. \A i \in DOMAIN req'[c] : req'[c][i].type # "LOGIN_MSG"
      BY <2>1, SentOrThere
    <2>3. client'[c] = "menu"
      BY DEF TypeClient
    <2> QED  BY <1>2, <2>1, <2>2, <2>3 DEF TakesTurns
  <1> QED  BY <1>1, <1>2

\* ... the answer to a login, granted or not, finds nothing behind the request ...
LEMMA TurnsAfterAnswer ==
  ASSUME TypeCallback, NEW c \in Conns, NEW d \in Conns,
         TakesTurns(d), CallbackMatchesConn(d),
         pc[c] \in LoginPCs, pc' = [pc EXCEPT ![c] = "idle"], UNCHANGED <<req, conn>>,
         \/ client'[d] = client[d]
         \/ d = c /\ client'[d] \in {"menu", "chatting"}
  PROVE  TakesTurns(d)'
  <1>1. CASE d # c
    <2>1. pc'[d] = pc[d] /\ client'[d] = client[d]
      BY <1>1 DEF TypeCallback
    <2> QED  BY <2>1 DEF TakesTurns
  <1>2. CASE d = c
    <2>1. pc'[d] \notin LoginPCs
      BY <1>2 DEF TypeCallback, LoginPCs
    <2>2. req'[d] = <<>> /\ conn'[d] = "up"
      BY <1>2 DEF TakesTurns, CallbackMatchesConn
    <2> QED  BY <2>1, <2>2 DEF TakesTurns
  <1> QED  BY <1>1, <1>2

\* ... and a handler other than login takes its request from the queue.
LEMMA TurnsAfterHandling ==
  ASSUME TypeNet, \A e \in Conns : TakesTurns(e),
         NEW c \in Conns, NEW type, Handles(c, type), Consume(c),
         \A e \in Conns : pc'[e] \in LoginPCs => pc[e] \in LoginPCs /\ e # c,
         UNCHANGED <<conn, client>>, NEW d \in Conns
  PROVE  TakesTurns(d)'
  <1>1. CASE d # c
    <2>1. req'[d] = req[d]
      BY <1>1 DEF TypeNet, Consume
    <2> QED  BY <1>1, <2>1 DEF TakesTurns
  <1>2. CASE d = c
    <2>1. PICK k \in 1 .. Len(req[c]) :
            /\ DOMAIN req'[c] = 1 .. (Len(req[c]) - k) /\ Len(req'[c]) = Len(req[c]) - k
            /\ \A i \in DOMAIN req'[c] : i + k \in DOMAIN req[c] /\ req'[c][i] = req[c][i + k]
      BY ConsumeTakes
    <2>2. \A i \in DOMAIN req'[c] : i \in Nat
      BY <2>1
    <2>3. conn[c] = "up" /\ pc'[c] \notin LoginPCs
      BY DEF Handles, Ready
    <2>4. \A i \in DOMAIN req'[c] : req'[c][i].type = "LOGIN_MSG" => i = Len(req'[c])
      <3> SUFFICES ASSUME NEW i \in DOMAIN req'[c], req'[c][i].type = "LOGIN_MSG"
                   PROVE  i = Len(req'[c])
        OBVIOUS
      <3>1. i + k = Len(req[c])
        BY <2>1 DEF TakesTurns
      <3>2. Len(req[c]) \in Nat /\ k \in Nat
        BY DEF TypeNet
      <3> QED  BY <2>1, <2>2, <3>1, <3>2
    <2> QED  BY <1>2, <2>1, <2>3, <2>4 DEF TakesTurns
  <1> QED  BY <1>1, <1>2

\* The login request is the last one of its connection, and its client waits.
LEMMA LoginIsLast ==
  ASSUME TypeNet, TypeClient, NEW c \in Conns, TakesTurns(c),
         Handles(c, "LOGIN_MSG"), Consume(c)
  PROVE  /\ req'[c] = <<>>
         /\ conn[c] = "up"
         /\ pc[c] = "idle"
         /\ client[c] \in {"waiting", "gone"}
  <1>1. req[c] \in Seq(Request) /\ req[c] # <<>> /\ Head(req[c]).type = "LOGIN_MSG"
    BY DEF TypeNet, Handles
  <1>2. 1 \in DOMAIN req[c] /\ req[c][1].type = "LOGIN_MSG"
    BY <1>1
  <1>3. Len(req[c]) = 1 /\ client[c] \in {"waiting", "gone"}
    BY <1>1, <1>2 DEF TakesTurns, TypeClient
  <1>4. req'[c] = <<>>
    <2>1. PICK k \in 1 .. Len(req[c]) : Len(req'[c]) = Len(req[c]) - k
      BY ConsumeTakes
    <2>2. req'[c] \in Seq(Request)
      BY HandlesTypes
    <2> QED  BY <1>3, <2>1, <2>2
  <1> QED  BY <1>3, <1>4 DEF Handles, Ready, LoopFree

\* Whatever the step, the client and the server go on taking turns.
LEMMA TakesTurnsStep ==
  ASSUME TypeOK,
         \A e \in Conns : TakesTurns(e) /\ CallbackMatchesConn(e), NEW d \in Conns,
         [Next]_vars
  PROVE  TakesTurns(d)'
  <1> USE ConstantsAssumption
      DEF PCs, UserPCs, TypeOK, TypeService, TypeCallback, TypeNet, TypeClient,
          ConstantsAssumption, TakesTurns, CallbackMatchesConn, LoginPCs, vars,
          dbVars, svcVars, localVars, netVars, clientVars, histVars, deliveryVars
  <1>1. ASSUME NEW c \in Conns, Connect(c) PROVE TakesTurns(d)'
    BY <1>1 DEF Connect
  <1>2. ASSUME NEW c \in Conns, NEW u \in Users, NEW ok \in BOOLEAN, SendLogin(c, u, ok)
        PROVE  TakesTurns(d)'
    <2>1. PICK r : Send(c, r)
      BY <1>2 DEF SendLogin
    <2>2. CASE d # c
      <3>1. req'[d] = req[d] /\ client'[d] = client[d]
        BY <1>2, <2>2 DEF SendLogin, Send
      <3> QED  BY <1>2, <3>1 DEF SendLogin
    <2>3. CASE d = c
      <3>1. pc[c] \notin LoginPCs /\ conn[c] = "up" /\ client'[c] = "waiting"
        BY <1>2 DEF SendLogin
      <3>2. \A i \in DOMAIN req'[c] : req'[c][i].type = "LOGIN_MSG" => i = Len(req'[c])
        <4>1. \A i \in DOMAIN req[c] : req[c][i].type # "LOGIN_MSG"
          BY <1>2 DEF SendLogin
        <4> HIDE DEF TypeNet, TypeOK, TakesTurns
        <4>2. ASSUME NEW i \in DOMAIN req'[c]
              PROVE  \/ i \in DOMAIN req[c] /\ req'[c][i] = req[c][i]
                     \/ i = Len(req'[c])
          BY <2>1, SendAppends DEF TypeOK
        <4> QED  BY <4>1, <4>2
      <3> QED  BY <1>2, <2>3, <3>1, <3>2 DEF SendLogin
    <2> QED  BY <2>2, <2>3
  <1>3. ASSUME NEW c \in Conns, SendLogout(c) PROVE TakesTurns(d)'
    <2>1. PICK r : Send(c, r) /\ r.type = "LOGINOUT_MSG"
      BY <1>3 DEF SendLogout
    <2> QED  BY <1>3, <2>1, TurnsAfterLogout DEF SendLogout
  <1>4. ASSUME NEW c \in Conns, NEW u \in Users, SendOneChat(c, u) PROVE TakesTurns(d)'
    <2>1. PICK r : Send(c, r) /\ r.type = "ONE_CHAT_MSG"
      BY <1>4 DEF SendOneChat
    <2> QED  BY <1>4, <2>1, TurnsAfterCommand DEF SendOneChat, CanCommand
  <1>5. ASSUME NEW c \in Conns, NEW g \in Groups, SendGroupChat(c, g)
        PROVE  TakesTurns(d)'
    <2>1. PICK r : Send(c, r) /\ r.type = "GROUP_CHAT_MSG"
      BY <1>5 DEF SendGroupChat
    <2> QED  BY <1>5, <2>1, TurnsAfterCommand DEF SendGroupChat, CanCommand
  <1>6. ASSUME NEW c \in Conns, NEW g \in Groups, SendAddGroup(c, g)
        PROVE  TakesTurns(d)'
    <2>1. PICK r : Send(c, r) /\ r.type = "ADD_GROUP_MSG"
      BY <1>6 DEF SendAddGroup
    <2> QED  BY <1>6, <2>1, TurnsAfterCommand DEF SendAddGroup, CanCommand
  <1>7. ASSUME NEW c \in Conns, Quit(c) PROVE TakesTurns(d)'
    <2>1. client'[d] = (IF d = c THEN "gone" ELSE client[d]) /\ UNCHANGED <<pc, conn>>
      BY <1>7 DEF Quit
    <2>2. CASE req'[d] = req[d]
      BY <2>1, <2>2
    <2>3. CASE req'[d] = <<>>
      BY <2>1, <2>3
    <2> QED  BY <1>7, <2>2, <2>3 DEF Quit
  <1>8. ASSUME NEW c \in Conns, LoginQuery(c) PROVE TakesTurns(d)'
    <2>1. Handles(c, "LOGIN_MSG") /\ Consume(c) /\ UNCHANGED <<conn, client>>
      BY <1>8 DEF LoginQuery
    <2>2. CASE d # c
      <3>1. req'[d] = req[d] /\ pc'[d] = pc[d]
        BY <1>8, <2>2 DEF LoginQuery, Consume, Goto
      <3> QED  BY <2>1, <3>1
    <2>3. CASE d = c
      <3>1. /\ req'[c] = <<>>
            /\ conn[c] = "up"
            /\ client[c] \in {"waiting", "gone"}
        <4> HIDE DEF TypeNet, TypeClient, TakesTurns
        <4> QED  BY <2>1, LoginIsLast
      <3> QED  BY <2>1, <2>3, <3>1
    <2> QED  BY <2>2, <2>3
  <1>9. ASSUME NEW c \in Conns, LoginRefuse(c) PROVE TakesTurns(d)'
    <2>1. Handles(c, "LOGIN_MSG") /\ Consume(c) /\ UNCHANGED <<conn, pc>>
      BY <1>9 DEF LoginRefuse
    <2>2. CASE d # c
      <3>1. req'[d] = req[d] /\ client'[d] = client[d]
        BY <1>9, <2>2 DEF LoginRefuse, Consume, Answer
      <3> QED  BY <2>1, <3>1
    <2>3. CASE d = c
      <3>1. req'[c] = <<>> /\ conn[c] = "up" /\ pc[c] = "idle"
        BY <2>1, LoginIsLast
      <3>2. client'[c] \in {"menu", "gone"}
        BY <1>9 DEF LoginRefuse, Answer
      <3> QED  BY <2>1, <2>3, <3>1, <3>2
    <2> QED  BY <2>2, <2>3
  <1>10. ASSUME NEW c \in Conns, LoginReject(c) PROVE TakesTurns(d)'
    <2>1. UNCHANGED <<req, conn>> /\ pc[c] = "reject" /\ pc' = [pc EXCEPT ![c] = "idle"]
      BY <1>10 DEF LoginReject, Return, Goto
    <2>2. client'[d] = client[d] \/ (d = c /\ client'[d] = "menu")
      BY <1>10 DEF LoginReject, Answer
    <2>3. pc[c] \in LoginPCs
      BY <2>1
    <2> HIDE DEF TypeOK, TypeCallback, TakesTurns, CallbackMatchesConn, LoginPCs
    <2> QED  BY <2>1, <2>2, <2>3, TurnsAfterAnswer DEF TypeOK
  <1>11. ASSUME NEW c \in Conns, LoginEmplace(c) PROVE TakesTurns(d)'
    BY <1>11 DEF LoginEmplace, EmplaceConn, Goto
  <1>12. ASSUME NEW c \in Conns, LoginSetOnline(c) PROVE TakesTurns(d)'
    BY <1>12 DEF LoginSetOnline, Goto
  <1>13. ASSUME NEW c \in Conns, LoginReadOffline(c) PROVE TakesTurns(d)'
    BY <1>13 DEF LoginReadOffline, Goto
  <1>14. ASSUME NEW c \in Conns, LoginClearOffline(c) PROVE TakesTurns(d)'
    BY <1>14 DEF LoginClearOffline, Goto
  <1>15. ASSUME NEW c \in Conns, LoginReply(c) PROVE TakesTurns(d)'
    <2>1. UNCHANGED <<req, conn>> /\ pc[c] = "reply" /\ pc' = [pc EXCEPT ![c] = "idle"]
      BY <1>15 DEF LoginReply, Return, Goto
    <2>2. UNCHANGED client \/ client' = [client EXCEPT ![c] = "chatting"]
      BY <1>15 DEF LoginReply, Answer
    <2>3. pc[c] \in LoginPCs
      BY <2>1
    <2>4. client \in [Conns -> {"gone", "menu", "waiting", "chatting"}]
      OBVIOUS
    <2> HIDE DEF TypeOK, TypeCallback, TypeClient, TakesTurns, CallbackMatchesConn, LoginPCs
    <2>5. client'[d] = client[d] \/ (d = c /\ client'[d] = "chatting")
      BY <2>2, <2>4
    <2> QED  BY <2>1, <2>3, <2>5, TurnsAfterAnswer DEF TypeOK
  <1>16. ASSUME NEW c \in Conns, LogoutErase(c) PROVE TakesTurns(d)'
    <2>1. \A e \in Conns : pc'[e] \in LoginPCs => pc[e] \in LoginPCs /\ e # c
      BY <1>16 DEF LogoutErase, Handles, Ready, LoopFree, Goto
    <2> QED  BY <1>16, <2>1, TurnsAfterHandling DEF LogoutErase
  <1>17. ASSUME NEW c \in Conns, LogoutUpdate(c) PROVE TakesTurns(d)'
    BY <1>17 DEF LogoutUpdate, Return, Goto
  <1>18. ASSUME NEW c \in Conns, CloseErase(c) PROVE TakesTurns(d)'
    <2>1. client[c] = "gone" /\ req[c] = <<>> /\ UNCHANGED <<client, req>>
      BY <1>18 DEF CloseErase
    <2>2. /\ pc'[d] = pc[d] \/ pc'[d] = "closeUpdate"
          /\ d # c => pc'[d] = pc[d]
      BY <1>18 DEF CloseErase, Goto
    <2>3. d # c => conn'[d] = conn[d]
      BY <1>18 DEF CloseErase
    <2>4. pc[c] = "idle"
      BY <1>18 DEF CloseErase, Ready, LoopFree
    <2> HIDE DEF TypeOK, TypeService, TypeCallback, TypeNet, TypeClient
    <2>5. CASE d # c
      BY <2>1, <2>2, <2>3, <2>5
    <2>6. CASE d = c
      BY <2>1, <2>2, <2>4, <2>6
    <2> QED  BY <2>5, <2>6
  <1>19. ASSUME NEW c \in Conns, CloseUpdate(c) PROVE TakesTurns(d)'
    BY <1>19, SMTT(30) DEF CloseUpdate, Return, Goto
  <1>20. ASSUME NEW c \in Conns, OneChat(c) PROVE TakesTurns(d)'
    <2>1. \A e \in Conns : pc'[e] \in LoginPCs => pc[e] \in LoginPCs /\ e # c
      <3>1. pc[c] = "idle" /\ (UNCHANGED pc \/ Goto(c, "storeOffline"))
        BY <1>20 DEF OneChat, Handles, Ready, LoopFree
      <3> QED  BY <3>1 DEF Goto
    <2> QED  BY <1>20, <2>1, TurnsAfterHandling DEF OneChat
  <1>21. ASSUME NEW c \in Conns, StoreOffline(c) PROVE TakesTurns(d)'
    <2>1. pc'[d] \in LoginPCs => pc[d] \in LoginPCs
      BY <1>21 DEF StoreOffline, Return, Goto
    <2> QED  BY <1>21, <2>1, SMTT(30) DEF StoreOffline
  <1>22. ASSUME NEW c \in Conns, GroupQuery(c) PROVE TakesTurns(d)'
    <2>1. \A e \in Conns : pc'[e] \in LoginPCs => pc[e] \in LoginPCs /\ e # c
      BY <1>22 DEF GroupQuery, Handles, Ready, LoopFree, Goto
    <2> QED  BY <1>22, <2>1, TurnsAfterHandling DEF GroupQuery
  <1>23. ASSUME NEW c \in Conns, GroupLock(c) PROVE TakesTurns(d)'
    BY <1>23 DEF GroupLock, Goto
  <1>24. ASSUME NEW c \in Conns, NEW u \in Users, GroupEach(c, u) PROVE TakesTurns(d)'
    <2>1. UNCHANGED <<pc, req, conn, client>>
      BY <1>24 DEF GroupEach
    <2> QED  BY <2>1
  <1>25. ASSUME NEW c \in Conns, GroupUnlock(c) PROVE TakesTurns(d)'
    BY <1>25 DEF GroupUnlock, Return, Goto
  <1>26. ASSUME NEW c \in Conns, AddGroup(c) PROVE TakesTurns(d)'
    <2>1. \A e \in Conns : pc'[e] \in LoginPCs => pc[e] \in LoginPCs /\ e # c
      BY <1>26 DEF AddGroup, Handles, Ready, LoopFree
    <2> QED  BY <1>26, <2>1, TurnsAfterHandling DEF AddGroup
  <1>27. ASSUME NEW c \in Conns, RunPending(c) PROVE TakesTurns(d)'
    BY <1>27 DEF RunPending
  <1>28. CASE Interrupt
    BY <1>28 DEF Interrupt
  <1>29. CASE Exit
    BY <1>29 DEF Exit, Down
  <1>30. CASE Crash
    BY <1>30 DEF Crash, Down
  <1>31. CASE Restart
    BY <1>31 DEF Restart
  <1>32. CASE UNCHANGED vars
    BY <1>32
  <1> HIDE DEF TypeOK, TypeNet, TypeCallback, TakesTurns, CallbackMatchesConn, LoginPCs
  <1> QED
    BY <1>1, <1>2, <1>3, <1>4, <1>5, <1>6, <1>7, <1>8, <1>9, <1>10, <1>11, <1>12,
       <1>13, <1>14, <1>15, <1>16, <1>17, <1>18, <1>19, <1>20, <1>21, <1>22,
       <1>23, <1>24, <1>25, <1>26, <1>27, <1>28, <1>29, <1>30, <1>31, <1>32
    DEF Next, Client, Loop, Login, Leave, Chat, Process

-----------------------------------------------------------------------------
\* With one client per account, whatever the step, nobody takes the entry from a
\* login that has emplaced its connection.
LEMMA LoginHoldsEntryStep ==
  ASSUME OneClientPerAccount, TypeOK,
         \A e \in Conns : LoginHoldsEntry(e) /\ ActsForItself(e), NEW d \in Conns,
         [Next]_vars
  PROVE  LoginHoldsEntry(d)'
  <1> USE ConstantsAssumption
      DEF PCs, UserPCs, TypeOK, TypeService, TypeCallback, TypeNet,
          ConstantsAssumption, OneClientPerAccount, LoginHoldsEntry, ActsForItself,
          LoginPCs, vars, dbVars, svcVars, localVars, netVars, clientVars, histVars, deliveryVars
  <1>1. ASSUME NEW c \in Conns, Connect(c) PROVE LoginHoldsEntry(d)'
    BY <1>1 DEF Connect
  <1>2. ASSUME NEW c \in Conns, NEW u \in Users, NEW ok \in BOOLEAN, SendLogin(c, u, ok)
        PROVE  LoginHoldsEntry(d)'
    BY <1>2 DEF SendLogin, Send
  <1>3. ASSUME NEW c \in Conns, SendLogout(c) PROVE LoginHoldsEntry(d)'
    BY <1>3 DEF SendLogout, Send
  <1>4. ASSUME NEW c \in Conns, NEW u \in Users, SendOneChat(c, u)
        PROVE  LoginHoldsEntry(d)'
    BY <1>4 DEF SendOneChat, Send, CanCommand
  <1>5. ASSUME NEW c \in Conns, NEW g \in Groups, SendGroupChat(c, g)
        PROVE  LoginHoldsEntry(d)'
    BY <1>5 DEF SendGroupChat, Send, CanCommand
  <1>6. ASSUME NEW c \in Conns, NEW g \in Groups, SendAddGroup(c, g)
        PROVE  LoginHoldsEntry(d)'
    BY <1>6 DEF SendAddGroup, Send, CanCommand
  <1>7. ASSUME NEW c \in Conns, Quit(c) PROVE LoginHoldsEntry(d)'
    BY <1>7 DEF Quit
  <1>8. ASSUME NEW c \in Conns, LoginQuery(c) PROVE LoginHoldsEntry(d)'
    BY <1>8 DEF LoginQuery, Handles, Ready, Consume, Goto
  <1>9. ASSUME NEW c \in Conns, LoginRefuse(c) PROVE LoginHoldsEntry(d)'
    BY <1>9 DEF LoginRefuse, Handles, Ready, Consume, Answer
  <1>10. ASSUME NEW c \in Conns, LoginReject(c) PROVE LoginHoldsEntry(d)'
    BY <1>10 DEF LoginReject, Answer, EmplaceConn, Return, Goto
  <1>11. ASSUME NEW c \in Conns, LoginEmplace(c) PROVE LoginHoldsEntry(d)'
    BY <1>11 DEF LoginEmplace, EmplaceConn, Goto
  <1>12. ASSUME NEW c \in Conns, LoginSetOnline(c) PROVE LoginHoldsEntry(d)'
    BY <1>12 DEF LoginSetOnline, Goto
  <1>13. ASSUME NEW c \in Conns, LoginReadOffline(c) PROVE LoginHoldsEntry(d)'
    BY <1>13 DEF LoginReadOffline, Goto
  <1>14. ASSUME NEW c \in Conns, LoginClearOffline(c) PROVE LoginHoldsEntry(d)'
    BY <1>14 DEF LoginClearOffline, Goto
  <1>15. ASSUME NEW c \in Conns, LoginReply(c) PROVE LoginHoldsEntry(d)'
    BY <1>15 DEF LoginReply, Answer, Return, Goto
  <1>16. ASSUME NEW c \in Conns, LogoutErase(c) PROVE LoginHoldsEntry(d)'
    BY <1>16, SMTT(30) DEF LogoutErase, Handles, Ready, Consume, EraseConn, Goto
  <1>17. ASSUME NEW c \in Conns, LogoutUpdate(c) PROVE LoginHoldsEntry(d)'
    BY <1>17 DEF LogoutUpdate, Return, Goto
  <1>18. ASSUME NEW c \in Conns, CloseErase(c) PROVE LoginHoldsEntry(d)'
    BY <1>18, SMTT(30) DEF CloseErase, Ready, EntriesOf, EraseConn, Goto
  <1>19. ASSUME NEW c \in Conns, CloseUpdate(c) PROVE LoginHoldsEntry(d)'
    BY <1>19 DEF CloseUpdate, Return, Goto
  <1>20. ASSUME NEW c \in Conns, OneChat(c) PROVE LoginHoldsEntry(d)'
    <2>1. /\ UNCHANGED userConn
          /\ \/ UNCHANGED <<pc, hUser>>
             \/ /\ pc' = [pc EXCEPT ![c] = "storeOffline"]
                /\ \E u : hUser' = [hUser EXCEPT ![c] = u]
      BY <1>20 DEF OneChat, Goto
    <2> QED  BY <2>1
  <1>21. ASSUME NEW c \in Conns, StoreOffline(c) PROVE LoginHoldsEntry(d)'
    BY <1>21 DEF StoreOffline, Return, Goto
  <1>22. ASSUME NEW c \in Conns, GroupQuery(c) PROVE LoginHoldsEntry(d)'
    BY <1>22 DEF GroupQuery, Handles, Ready, Consume, Goto
  <1>23. ASSUME NEW c \in Conns, GroupLock(c) PROVE LoginHoldsEntry(d)'
    BY <1>23 DEF GroupLock, Goto
  <1>24. ASSUME NEW c \in Conns, NEW u \in Users, GroupEach(c, u)
         PROVE  LoginHoldsEntry(d)'
    BY <1>24 DEF GroupEach
  <1>25. ASSUME NEW c \in Conns, GroupUnlock(c) PROVE LoginHoldsEntry(d)'
    BY <1>25 DEF GroupUnlock, Return, Goto
  <1>26. ASSUME NEW c \in Conns, AddGroup(c) PROVE LoginHoldsEntry(d)'
    BY <1>26 DEF AddGroup, Handles, Ready, Consume
  <1>27. ASSUME NEW c \in Conns, RunPending(c) PROVE LoginHoldsEntry(d)'
    BY <1>27 DEF RunPending
  <1>28. CASE Interrupt
    BY <1>28 DEF Interrupt
  <1>29. CASE Exit
    BY <1>29 DEF Exit, Down
  <1>30. CASE Crash
    BY <1>30 DEF Crash, Down
  <1>31. CASE Restart
    BY <1>31 DEF Restart
  <1>32. CASE UNCHANGED vars
    BY <1>32
  <1> QED
    BY <1>1, <1>2, <1>3, <1>4, <1>5, <1>6, <1>7, <1>8, <1>9, <1>10, <1>11, <1>12,
       <1>13, <1>14, <1>15, <1>16, <1>17, <1>18, <1>19, <1>20, <1>21, <1>22,
       <1>23, <1>24, <1>25, <1>26, <1>27, <1>28, <1>29, <1>30, <1>31, <1>32
    DEF Next, Client, Loop, Login, Leave, Chat, Process

-----------------------------------------------------------------------------
\* With one client per account, whatever the step, who is told that the login
\* succeeded is in the map, and stays there until the client gives the session up.
LEMMA LoggedInIsReachableStep ==
  ASSUME OneClientPerAccount, TypeOK, LoggedInIsReachable,
         \A e \in Conns : LoginHoldsEntry(e) /\ ActsForItself(e) /\ TakesTurns(e),
         [Next]_vars
  PROVE  LoggedInIsReachable'
  <1> USE ConstantsAssumption
      DEF PCs, UserPCs, TypeOK, TypeService, TypeCallback, TypeNet, TypeClient,
          ConstantsAssumption, OneClientPerAccount, LoginHoldsEntry, ActsForItself,
          TakesTurns, LoggedInIsReachable, LoginPCs, vars, dbVars, svcVars, localVars,
          netVars, clientVars, histVars, deliveryVars
  <1>1. ASSUME NEW c \in Conns, Connect(c) PROVE LoggedInIsReachable'
    BY <1>1 DEF Connect
  <1>2. ASSUME NEW c \in Conns, NEW u \in Users, NEW ok \in BOOLEAN, SendLogin(c, u, ok)
        PROVE  LoggedInIsReachable'
    BY <1>2 DEF SendLogin, Send
  <1>3. ASSUME NEW c \in Conns, SendLogout(c) PROVE LoggedInIsReachable'
    BY <1>3 DEF SendLogout, Send
  <1>4. ASSUME NEW c \in Conns, NEW u \in Users, SendOneChat(c, u)
        PROVE  LoggedInIsReachable'
    BY <1>4 DEF SendOneChat, Send, CanCommand
  <1>5. ASSUME NEW c \in Conns, NEW g \in Groups, SendGroupChat(c, g)
        PROVE  LoggedInIsReachable'
    BY <1>5 DEF SendGroupChat, Send, CanCommand
  <1>6. ASSUME NEW c \in Conns, NEW g \in Groups, SendAddGroup(c, g)
        PROVE  LoggedInIsReachable'
    BY <1>6 DEF SendAddGroup, Send, CanCommand
  <1>7. ASSUME NEW c \in Conns, Quit(c) PROVE LoggedInIsReachable'
    BY <1>7 DEF Quit
  <1>8. ASSUME NEW c \in Conns, LoginQuery(c) PROVE LoggedInIsReachable'
    BY <1>8 DEF LoginQuery, Handles, Ready, Consume, Goto
  <1>9. ASSUME NEW c \in Conns, LoginRefuse(c) PROVE LoggedInIsReachable'
    BY <1>9 DEF LoginRefuse, Handles, Ready, Consume, Answer
  <1>10. ASSUME NEW c \in Conns, LoginReject(c) PROVE LoggedInIsReachable'
    BY <1>10 DEF LoginReject, Answer, EmplaceConn, Return, Goto
  <1>11. ASSUME NEW c \in Conns, LoginEmplace(c) PROVE LoggedInIsReachable'
    BY <1>11 DEF LoginEmplace, EmplaceConn, Goto
  <1>12. ASSUME NEW c \in Conns, LoginSetOnline(c) PROVE LoggedInIsReachable'
    BY <1>12 DEF LoginSetOnline, Goto
  <1>13. ASSUME NEW c \in Conns, LoginReadOffline(c) PROVE LoggedInIsReachable'
    BY <1>13 DEF LoginReadOffline, Goto
  <1>14. ASSUME NEW c \in Conns, LoginClearOffline(c) PROVE LoggedInIsReachable'
    BY <1>14 DEF LoginClearOffline, Goto
  <1>15. ASSUME NEW c \in Conns, LoginReply(c) PROVE LoggedInIsReachable'
    BY <1>15 DEF LoginReply, Answer, Return, Goto
  <1>16. ASSUME NEW c \in Conns, LogoutErase(c) PROVE LoggedInIsReachable'
    <2>1. PICK u \in AccountsOf[c] :
            /\ userConn' = EraseConn(userConn, u)
            /\ \E i \in DOMAIN req[c] : req[c][i].type = "LOGINOUT_MSG"
      <3>1. /\ 1 \in DOMAIN req[c] /\ Head(req[c]) = req[c][1]
            /\ req[c][1].type = "LOGINOUT_MSG"
        BY <1>16 DEF LogoutErase, Handles
      <3> QED  BY <1>16, <3>1 DEF LogoutErase
    <2>2. client[c] # "chatting" /\ UNCHANGED <<client, account>>
      BY <1>16, <2>1 DEF LogoutErase
    <2>3. \A e \in Conns : client[e] = "chatting" => account[e] # u
      <3> SUFFICES ASSUME NEW e \in Conns, client[e] = "chatting", account[e] = u
                   PROVE  FALSE
        OBVIOUS
      <3>1. u \in AccountsOf[e]
        BY <2>1
      <3> QED  BY <2>1, <2>2, <3>1
    <2> QED  BY <2>1, <2>2, <2>3 DEF EraseConn
  <1>17. ASSUME NEW c \in Conns, LogoutUpdate(c) PROVE LoggedInIsReachable'
    BY <1>17 DEF LogoutUpdate, Return, Goto
  <1>18. ASSUME NEW c \in Conns, CloseErase(c) PROVE LoggedInIsReachable'
    BY <1>18 DEF CloseErase, Ready, EntriesOf, EraseConn, Goto
  <1>19. ASSUME NEW c \in Conns, CloseUpdate(c) PROVE LoggedInIsReachable'
    BY <1>19 DEF CloseUpdate, Return, Goto
  <1>20. ASSUME NEW c \in Conns, OneChat(c) PROVE LoggedInIsReachable'
    BY <1>20 DEF OneChat, Handles, Ready, Consume, Goto
  <1>21. ASSUME NEW c \in Conns, StoreOffline(c) PROVE LoggedInIsReachable'
    BY <1>21 DEF StoreOffline, Return, Goto
  <1>22. ASSUME NEW c \in Conns, GroupQuery(c) PROVE LoggedInIsReachable'
    BY <1>22 DEF GroupQuery, Handles, Ready, Consume, Goto
  <1>23. ASSUME NEW c \in Conns, GroupLock(c) PROVE LoggedInIsReachable'
    BY <1>23 DEF GroupLock, Goto
  <1>24. ASSUME NEW c \in Conns, NEW u \in Users, GroupEach(c, u)
         PROVE  LoggedInIsReachable'
    BY <1>24 DEF GroupEach
  <1>25. ASSUME NEW c \in Conns, GroupUnlock(c) PROVE LoggedInIsReachable'
    BY <1>25 DEF GroupUnlock, Return, Goto
  <1>26. ASSUME NEW c \in Conns, AddGroup(c) PROVE LoggedInIsReachable'
    BY <1>26 DEF AddGroup, Handles, Ready, Consume
  <1>27. ASSUME NEW c \in Conns, RunPending(c) PROVE LoggedInIsReachable'
    BY <1>27 DEF RunPending
  <1>28. CASE Interrupt
    BY <1>28 DEF Interrupt
  <1>29. CASE Exit
    BY <1>29 DEF Exit, Down
  <1>30. CASE Crash
    BY <1>30 DEF Crash, Down
  <1>31. CASE Restart
    BY <1>31 DEF Restart
  <1>32. CASE UNCHANGED vars
    BY <1>32
  <1> QED
    BY <1>1, <1>2, <1>3, <1>4, <1>5, <1>6, <1>7, <1>8, <1>9, <1>10, <1>11, <1>12,
       <1>13, <1>14, <1>15, <1>16, <1>17, <1>18, <1>19, <1>20, <1>21, <1>22,
       <1>23, <1>24, <1>25, <1>26, <1>27, <1>28, <1>29, <1>30, <1>31, <1>32
    DEF Next, Client, Loop, Login, Leave, Chat, Process

-----------------------------------------------------------------------------
\* What holds of every connection, whoever shares an account.
ConnsInOrder ==
  TypeOK /\ \A c \in Conns : ActsForItself(c) /\ CallbackMatchesConn(c) /\ TakesTurns(c)

\* What holds besides when every account has one client.
KeepsSessions ==
  ConnsInOrder /\ LoggedInIsReachable /\ \A c \in Conns : LoginHoldsEntry(c)

\* Both hold at the start.
LEMMA SessionsInit == Init => ConnsInOrder /\ KeepsSessions
  <1> SUFFICES ASSUME Init PROVE KeepsSessions
    BY DEF KeepsSessions
  <1>1. TypeOK
    BY TypeInit
  <1>2. LoggedInIsReachable
    BY DEF Init, LoggedInIsReachable
  <1>3. ASSUME NEW c \in Conns
        PROVE  ActsForItself(c) /\ CallbackMatchesConn(c) /\ TakesTurns(c) /\ LoginHoldsEntry(c)
    BY <1>3, ConstantsAssumption
    DEF ConstantsAssumption, Init, ActsForItself, CallbackMatchesConn, TakesTurns,
        LoginHoldsEntry, LoginPCs
  <1> QED  BY <1>1, <1>2, <1>3 DEF ConnsInOrder, KeepsSessions

\* Every step keeps the first ...
LEMMA ConnsInOrderStep == ConnsInOrder /\ [Next]_vars => ConnsInOrder'
  <1> SUFFICES ASSUME ConnsInOrder, [Next]_vars PROVE ConnsInOrder'
    OBVIOUS
  <1>1. TypeOK'
    BY TypeStep DEF ConnsInOrder
  <1>2. ASSUME NEW d \in Conns
        PROVE  ActsForItself(d)' /\ CallbackMatchesConn(d)' /\ TakesTurns(d)'
    BY ActsForItselfStep, CallbackMatchesConnStep, TakesTurnsStep DEF ConnsInOrder
  <1> QED  BY <1>1, <1>2 DEF ConnsInOrder

\* ... and every step keeps the second.
LEMMA KeepsSessionsStep == OneClientPerAccount /\ KeepsSessions /\ [Next]_vars => KeepsSessions'
  <1> SUFFICES ASSUME OneClientPerAccount, KeepsSessions, [Next]_vars PROVE KeepsSessions'
    OBVIOUS
  <1>1. ConnsInOrder'
    BY ConnsInOrderStep DEF KeepsSessions
  <1>2. ASSUME NEW d \in Conns PROVE LoginHoldsEntry(d)'
    BY LoginHoldsEntryStep DEF KeepsSessions, ConnsInOrder
  <1>3. LoggedInIsReachable'
    BY LoggedInIsReachableStep DEF KeepsSessions, ConnsInOrder
  <1> QED  BY <1>1, <1>2, <1>3 DEF KeepsSessions

\* A step that changes neither the map nor a connection leaves every entry as it is.
LEMMA DeadSame ==
  ASSUME UNCHANGED <<userConn, conn>>, NEW u \in Users
  PROVE  Dead(u)' = Dead(u)
  BY DEF Dead

\* Whatever the step, an entry that comes to point to a closed connection is a second
\* one that the scan of clientCloseException has not reached.
LEMMA DeadEntryStep ==
  ASSUME ConnsInOrder, [Next]_vars, NEW u \in Users, ~Dead(u), Dead(u)'
  PROVE  /\ userConn'[u] = userConn[u]
         /\ \E v \in Users : userConn[v] = userConn[u] /\ userConn'[v] = NoConn
  <1> USE DEF vars, dbVars, svcVars, localVars, netVars, clientVars, histVars, deliveryVars
  <1>0. TypeService /\ TypeNet /\ TypeCallback
    BY DEF ConnsInOrder, TypeOK
  <1>1. ASSUME NEW c \in Conns, Connect(c) PROVE FALSE
    BY <1>0, <1>1 DEF Connect, Dead, TypeNet
  <1>2. ASSUME NEW c \in Conns, Client(c), ~Connect(c) PROVE FALSE
    BY <1>2, DeadSame DEF Client, SendLogin, SendLogout, SendOneChat, SendGroupChat,
                          SendAddGroup, Quit
  <1>3. ASSUME NEW c \in Conns, LoginReject(c) \/ LoginEmplace(c) PROVE FALSE
    <2>1. /\ UNCHANGED conn /\ userConn' = EmplaceConn(userConn, hUser[c], c)
          /\ pc[c] \in {"reject", "emplace"}
      BY <1>3 DEF LoginReject, LoginEmplace
    <2>2. conn[c] = "up"
      BY <2>1 DEF ConnsInOrder, CallbackMatchesConn, LoginPCs
    <2> QED  BY <1>0, <2>1, <2>2 DEF Dead, EmplaceConn, TypeService
  <1>4. ASSUME NEW c \in Conns, Login(c), ~LoginReject(c), ~LoginEmplace(c) PROVE FALSE
    BY <1>4, DeadSame DEF Login, LoginQuery, LoginRefuse, LoginSetOnline, LoginReadOffline,
                          LoginClearOffline, LoginReply
  <1>5. ASSUME NEW c \in Conns, LogoutErase(c) PROVE FALSE
    BY <1>0, <1>5 DEF LogoutErase, EraseConn, Dead, TypeService
  <1>6. ASSUME NEW c \in Conns, LogoutUpdate(c) PROVE FALSE
    BY <1>6, DeadSame DEF LogoutUpdate
  <1>7. ASSUME NEW c \in Conns, CloseErase(c)
        PROVE  /\ userConn'[u] = userConn[u]
               /\ \E v \in Users : userConn[v] = userConn[u] /\ userConn'[v] = NoConn
    <2>1. CASE EntriesOf(userConn, c) = {}
      <3>1. UNCHANGED userConn /\ conn' = [conn EXCEPT ![c] = "none"]
        BY <1>7, <2>1 DEF CloseErase
      <3> QED  BY <1>0, <2>1, <3>1 DEF Dead, EntriesOf, TypeService, TypeNet
    <2>2. CASE EntriesOf(userConn, c) # {}
      <3>1. PICK v \in EntriesOf(userConn, c) :
              /\ userConn' = [userConn EXCEPT ![v] = NoConn]
              /\ conn' = [conn EXCEPT ![c] = "down"]
        BY <1>7, <2>2 DEF CloseErase, EraseConn
      <3>2. v \in Users /\ userConn[v] = c /\ userConn'[v] = NoConn
        BY <1>0, <3>1 DEF EntriesOf, TypeService
      <3>3. userConn'[u] = userConn[u] /\ userConn[u] = c
        BY <1>0, <3>1, <3>2 DEF Dead, TypeService, TypeNet
      <3> QED  BY <3>2, <3>3
    <2> QED  BY <2>1, <2>2
  <1>8. ASSUME NEW c \in Conns, CloseUpdate(c) PROVE FALSE
    <2>1. UNCHANGED userConn /\ conn' = [conn EXCEPT ![c] = "none"] /\ pc[c] = "closeUpdate"
      BY <1>8 DEF CloseUpdate
    <2>2. conn[c] = "down"
      BY <2>1 DEF ConnsInOrder, CallbackMatchesConn
    <2> QED  BY <1>0, <2>1, <2>2 DEF Dead, TypeNet
  <1>9. ASSUME NEW c \in Conns, Chat(c) \/ RunPending(c) PROVE FALSE
    BY <1>9, DeadSame DEF Chat, OneChat, StoreOffline, GroupQuery, GroupLock, GroupEach,
                          GroupUnlock, AddGroup, RunPending
  <1>10. ASSUME Exit \/ Crash PROVE FALSE
    BY <1>10 DEF Exit, Crash, Down, Dead
  <1>11. ASSUME Interrupt \/ Restart \/ UNCHANGED vars PROVE FALSE
    BY <1>11, DeadSame DEF Interrupt, Restart
  <1> QED
    BY <1>1, <1>2, <1>3, <1>4, <1>5, <1>6, <1>7, <1>8, <1>9, <1>10, <1>11
    DEF Next, Loop, Leave, Process

\* Whoever uses which account where, whatever fails, crashes or is interrupted: no
\* login puts a closed connection into m_userConnMap, no close leaves the only entry
\* of its connection behind, and no logout or answer does either.
THEOREM DeadEntryIsSecondHolds == Spec => DeadEntryIsSecond
  <1> DEFINE Second == \A u \in Users :
                         ~Dead(u) /\ Dead(u)' =>
                           /\ userConn'[u] = userConn[u]
                           /\ \E v \in Users : userConn[v] = userConn[u] /\ userConn'[v] = NoConn
  <1>1. ConnsInOrder /\ [Next]_vars => [Second]_vars
    BY DeadEntryStep
  <1> QED  BY <1>1, SessionsInit, ConnsInOrderStep, PTL DEF Spec, DeadEntryIsSecond

\* As long as nobody uses an account from two clients, a client whose login was
\* acknowledged is the one that m_userConnMap sends its account's messages to.
THEOREM LoggedInIsReachableHolds ==
  ASSUME OneClientPerAccount
  PROVE  Spec => []LoggedInIsReachable
  <1>1. Init => KeepsSessions
    BY SessionsInit
  <1>2. KeepsSessions /\ [Next]_vars => KeepsSessions'
    BY KeepsSessionsStep
  <1>3. KeepsSessions => LoggedInIsReachable
    BY DEF KeepsSessions
  <1> QED  BY <1>1, <1>2, <1>3, PTL DEF Spec

-----------------------------------------------------------------------------
(***************************************************************************)
(* What is under way.                                                      *)
(***************************************************************************)

\* The callbacks whose connection is in the map, and those that have erased it and
\* have yet to tell the database.
HoldingPCs == {"setOnline", "readOffline", "clearOffline", "reply"}
ErasedPCs == {"logoutUpdate", "closeUpdate"}

\* A login, or the logout of u, waits among the requests of c.
LoginWaits(c) == \E i \in DOMAIN req[c] : req[c][i].type = "LOGIN_MSG"
LogoutWaits(c, u) ==
  \E i \in DOMAIN req[c] : req[c][i].type = "LOGINOUT_MSG" /\ req[c][i].user = u

\* No read has taken a logout of c behind another request.
NoneLost(c) == <<c, "LOGINOUT_MSG">> \notin lost

\* A step that leaves the requests alone.
LEMMA RequestsSame ==
  ASSUME UNCHANGED req
  PROVE  \A d \in Conns : /\ LoginWaits(d)' = LoginWaits(d)
                          /\ \A u \in Users : LogoutWaits(d, u)' = LogoutWaits(d, u)
  BY DEF LoginWaits, LogoutWaits

\* A request joins those under way ...
LEMMA RequestSent ==
  ASSUME TypeNet, NEW c \in Conns, NEW r, Send(c, r), NEW d \in Conns
  PROVE  /\ LoginWaits(d)' => LoginWaits(d) \/ (d = c /\ r.type = "LOGIN_MSG")
         /\ \A u \in Users :
              /\ LogoutWaits(d, u)' =>
                   LogoutWaits(d, u) \/ (d = c /\ r.type = "LOGINOUT_MSG" /\ r.user = u)
              /\ LogoutWaits(d, u) => LogoutWaits(d, u)'
         /\ d = c /\ r.type = "LOGINOUT_MSG" => LogoutWaits(d, r.user)'
  <1>1. LoginWaits(d)' => LoginWaits(d) \/ (d = c /\ r.type = "LOGIN_MSG")
    BY SendAppends DEF LoginWaits
  <1>2. \A u \in Users : LogoutWaits(d, u)' =>
                   LogoutWaits(d, u) \/ (d = c /\ r.type = "LOGINOUT_MSG" /\ r.user = u)
    BY SendAppends DEF LogoutWaits
  <1>3. \A i \in DOMAIN req[d] : i \in DOMAIN req'[d] /\ req'[d][i] = req[d][i]
    BY DEF TypeNet, Send
  <1>4. ASSUME NEW u \in Users, LogoutWaits(d, u) PROVE LogoutWaits(d, u)'
    BY <1>3, <1>4 DEF LogoutWaits
  <1>5. ASSUME d = c, r.type = "LOGINOUT_MSG" PROVE LogoutWaits(d, r.user)'
    <2>1. Len(req[c]) + 1 \in DOMAIN req'[c] /\ req'[c][Len(req[c]) + 1] = r
      BY DEF TypeNet, Send
    <2> QED  BY <1>5, <2>1 DEF LogoutWaits
  <1> QED  BY <1>1, <1>2, <1>4, <1>5

\* ... and the one that is handled leaves them, with those the read took behind it.
LEMMA RequestHandled ==
  ASSUME TypeNet, NEW c \in Conns, NEW type, Handles(c, type), Consume(c), NEW d \in Conns
  PROVE  /\ LoginWaits(d)' => LoginWaits(d)
         /\ \A u \in Users :
              /\ LogoutWaits(d, u)' => LogoutWaits(d, u)
              /\ LogoutWaits(d, u) /\ NoneLost(d)' =>
                   \/ LogoutWaits(d, u)'
                   \/ d = c /\ type = "LOGINOUT_MSG" /\ Head(req[c]).user = u
         /\ type = "LOGIN_MSG" => LoginWaits(c)
         /\ type = "LOGINOUT_MSG" => LogoutWaits(c, Head(req[c]).user)
  <1>1. LoginWaits(d)' => LoginWaits(d)
    BY RestWasThere DEF LoginWaits
  <1>2. \A u \in Users : LogoutWaits(d, u)' => LogoutWaits(d, u)
    BY RestWasThere DEF LogoutWaits
  <1>3. /\ 1 \in DOMAIN req[c] /\ req[c][1] = Head(req[c]) /\ Head(req[c]).type = type
        /\ d # c => req'[d] = req[d]
    BY DEF TypeNet, Handles, Consume
  <1>4. ASSUME NEW u \in Users, LogoutWaits(d, u), NoneLost(d)'
        PROVE  \/ LogoutWaits(d, u)'
               \/ d = c /\ type = "LOGINOUT_MSG" /\ Head(req[c]).user = u
    <2>1. CASE d # c
      BY <1>3, <1>4, <2>1 DEF LogoutWaits
    <2>2. CASE d = c
      <3>1. PICK i \in DOMAIN req[c] : req[c][i].type = "LOGINOUT_MSG" /\ req[c][i].user = u
        BY <1>4, <2>2 DEF LogoutWaits
      <3>2. PICK k \in 1 .. Len(req[c]) :
              /\ req' = [req EXCEPT ![c] = SubSeq(req[c], k + 1, Len(req[c]))]
              /\ \A n \in 2 .. k : req[c][n].type \in SessionTypes => <<c, req[c][n].type>> \in lost'
        BY ConsumeTakes
      <3>3. req[c] \in Seq(Request) /\ i \in 1 .. Len(req[c]) /\ Len(req[c]) \in Nat
        BY DEF TypeNet
      <3>4. CASE i = 1
        BY <1>3, <2>2, <3>1, <3>4
      <3>5. CASE i \in 2 .. k
        BY <1>4, <2>2, <3>1, <3>2, <3>5 DEF NoneLost, SessionTypes
      <3>6. CASE i > k
        <4>1. req'[c] = SubSeq(req[c], k + 1, Len(req[c])) /\ k \in 0 .. Len(req[c])
          BY <3>2, <3>3 DEF TypeNet
        <4>2. i - k \in 1 .. (Len(req[c]) - k) /\ (i - k) + k = i
          BY <3>3, <3>6
        <4>3. i - k \in DOMAIN req'[c] /\ req'[c][i - k] = req[c][i]
          BY <3>3, <4>1, <4>2, SubSeqRest
        <4> QED  BY <2>2, <3>1, <4>3 DEF LogoutWaits
      <3> QED  BY <3>3, <3>4, <3>5, <3>6
    <2> QED  BY <2>1, <2>2
  <1>5. /\ type = "LOGIN_MSG" => LoginWaits(c)
        /\ type = "LOGINOUT_MSG" => LogoutWaits(c, Head(req[c]).user)
    BY <1>3 DEF LoginWaits, LogoutWaits
  <1> QED  BY <1>1, <1>2, <1>4, <1>5

\* What TakesTurns says of them.
WaitsInTurn(c) ==
  /\ client[c] \in {"menu", "chatting"} => ~LoginWaits(c)
  /\ client[c] = "chatting" => \A u \in Users : ~LogoutWaits(c, u)
  /\ pc[c] \in LoginPCs => /\ client[c] \in {"waiting", "gone"}
                           /\ ~LoginWaits(c)
                           /\ \A u \in Users : ~LogoutWaits(c, u)
  /\ req[c] = <<>> => ~LoginWaits(c) /\ \A u \in Users : ~LogoutWaits(c, u)

LEMMA WhatWaits ==
  ASSUME TypeNet, NEW c \in Conns, TakesTurns(c)
  PROVE  WaitsInTurn(c)
  BY DEF WaitsInTurn, TakesTurns, LoginWaits, LogoutWaits

\* A chat command is neither a login nor a logout.
LEMMA CommandsSend ==
  ASSUME NEW c \in Conns,
         \/ \E u \in Users : SendOneChat(c, u)
         \/ \E g \in Groups : SendGroupChat(c, g) \/ SendAddGroup(c, g)
  PROVE  \E r : Send(c, r) /\ r.type \notin {"LOGIN_MSG", "LOGINOUT_MSG"}
  <1>1. ASSUME NEW u \in Users, SendOneChat(c, u)
        PROVE  \E r : Send(c, r) /\ r.type = "ONE_CHAT_MSG"
    BY <1>1 DEF SendOneChat
  <1>2. ASSUME NEW g \in Groups, SendGroupChat(c, g)
        PROVE  \E r : Send(c, r) /\ r.type = "GROUP_CHAT_MSG"
    BY <1>2 DEF SendGroupChat
  <1>3. ASSUME NEW g \in Groups, SendAddGroup(c, g)
        PROVE  \E r : Send(c, r) /\ r.type = "ADD_GROUP_MSG"
    BY <1>3 DEF SendAddGroup
  <1> QED  BY <1>1, <1>2, <1>3

\* What was lost stays so until the client connects anew.
LEMMA NoneLostBefore ==
  ASSUME [Next]_vars, NEW d \in Conns, NoneLost(d)'
  PROVE  NoneLost(d) \/ Connect(d)
  <1> USE DEF vars, histVars, deliveryVars
  <1>1. ASSUME lost \subseteq lost' PROVE NoneLost(d)
    BY <1>1 DEF NoneLost
  <1>2. ASSUME NEW c \in Conns, Connect(c), c # d PROVE NoneLost(d)
    BY <1>2 DEF Connect, NoneLost
  <1>3. ASSUME NEW c \in Conns, Consume(c) PROVE lost \subseteq lost'
    BY <1>3 DEF Consume
  <1>4. ASSUME NEW c \in Conns, Client(c), ~Connect(c) PROVE lost \subseteq lost'
    BY <1>4 DEF Client, SendLogin, SendLogout, SendOneChat, SendGroupChat, SendAddGroup, Quit
  <1>5. ASSUME NEW c \in Conns, Login(c) \/ Leave(c) PROVE lost \subseteq lost'
    BY <1>3, <1>5 DEF Login, Leave, LoginQuery, LoginRefuse, LoginReject, LoginEmplace,
                LoginSetOnline, LoginReadOffline, LoginClearOffline, LoginReply, LogoutErase,
                LogoutUpdate, CloseErase, CloseUpdate
  <1>6. ASSUME NEW c \in Conns, Chat(c) \/ RunPending(c) PROVE lost \subseteq lost'
    BY <1>3, <1>6 DEF Chat, OneChat, StoreOffline, GroupQuery, GroupLock, GroupEach, GroupUnlock,
                AddGroup, RunPending
  <1>7. ASSUME Process \/ UNCHANGED vars PROVE lost \subseteq lost'
    BY <1>7 DEF Process, Interrupt, Exit, Crash, Restart, Down
  <1> QED  BY <1>1, <1>2, <1>4, <1>5, <1>6, <1>7 DEF Next, Loop

\* While a login request is at the head, nothing else waits.
LEMMA LoginWaitsAlone ==
  ASSUME TypeNet, TypeClient, NEW c \in Conns, TakesTurns(c),
         Handles(c, "LOGIN_MSG"), Consume(c)
  PROVE  \A u \in Users : ~LogoutWaits(c, u)
  <1>1. req[c] \in Seq(Request) /\ req[c] # <<>> /\ Head(req[c]).type = "LOGIN_MSG"
    BY DEF TypeNet, Handles
  <1>2. DOMAIN req[c] = {1} /\ req[c][1].type = "LOGIN_MSG"
    <2>1. 1 \in DOMAIN req[c] /\ req[c][1].type = "LOGIN_MSG" /\ DOMAIN req[c] = 1 .. Len(req[c])
      BY <1>1
    <2>2. Len(req[c]) = 1
      BY <2>1 DEF TakesTurns
    <2> QED  BY <2>1, <2>2
  <1> QED  BY <1>2 DEF LogoutWaits

-----------------------------------------------------------------------------
(***************************************************************************)
(* Statements that fail, and crashes, are counted.                         *)
(***************************************************************************)

\* A statement after which none has failed did what it says.
LEMMA DbCallWorks ==
  ASSUME faults \in Nat, NEW ok \in BOOLEAN, DbCall(ok), faults' = 0
  PROVE  ok /\ faults = 0
  BY DEF DbCall

\* A step counts the statement that fails in it, up to the bound.
LEMMA FaultsCount ==
  ASSUME [Next]_vars
  PROVE  UNCHANGED faults \/ (faults < MaxFaults /\ faults' = faults + 1)
  <1> USE DEF vars, dbVars
  <1>1. ASSUME \E ok \in BOOLEAN : DbCall(ok)
        PROVE  UNCHANGED faults \/ (faults < MaxFaults /\ faults' = faults + 1)
    BY <1>1 DEF DbCall
  <1>2. ASSUME NEW c \in Conns, Client(c) PROVE UNCHANGED faults
    BY <1>2 DEF Client, Connect, SendLogin, SendLogout, SendOneChat, SendGroupChat,
                SendAddGroup, Quit
  <1>3. ASSUME NEW c \in Conns, Login(c) \/ Leave(c)
        PROVE  UNCHANGED faults \/ \E ok \in BOOLEAN : DbCall(ok)
    BY <1>3 DEF Login, Leave, LoginQuery, LoginRefuse, LoginReject, LoginEmplace,
                LoginSetOnline, LoginReadOffline, LoginClearOffline, LoginReply, LogoutErase,
                LogoutUpdate, CloseErase, CloseUpdate
  <1>4. ASSUME NEW c \in Conns, Chat(c) \/ RunPending(c)
        PROVE  UNCHANGED faults \/ \E ok \in BOOLEAN : DbCall(ok)
    BY <1>4 DEF Chat, OneChat, StoreOffline, GroupQuery, GroupLock, GroupEach, GroupUnlock,
                AddGroup, RunPending
  <1>5. ASSUME Process \/ UNCHANGED vars
        PROVE  UNCHANGED faults \/ \E ok \in BOOLEAN : DbCall(ok)
    BY <1>5 DEF Process, Interrupt, Exit, Crash, Restart
  <1> QED  BY <1>1, <1>2, <1>3, <1>4, <1>5 DEF Next, Loop

\* When no statement has failed after a step, none had before.
LEMMA NoFaultBefore ==
  ASSUME TypeOK, [Next]_vars, faults' = 0
  PROVE  faults = 0
  <1>1. faults \in Nat
    BY DEF TypeOK, TypeDb
  <1> QED  BY <1>1, FaultsCount

\* When the server has not crashed after a step, it had not before.
LEMMA NoCrashBefore ==
  ASSUME TypeOK, [Next]_vars, crashes' = 0
  PROVE  crashes = 0 /\ ~Crash
  <1> USE DEF vars, svcVars
  <1>0. crashes \in Nat
    BY DEF TypeOK, TypeService
  <1>1. ASSUME NEW c \in Conns, Client(c) PROVE UNCHANGED crashes
    BY <1>1 DEF Client, Connect, SendLogin, SendLogout, SendOneChat, SendGroupChat,
                SendAddGroup, Quit
  <1>2. ASSUME NEW c \in Conns, Login(c) \/ Leave(c) PROVE UNCHANGED crashes
    BY <1>2 DEF Login, Leave, LoginQuery, LoginRefuse, LoginReject, LoginEmplace,
                LoginSetOnline, LoginReadOffline, LoginClearOffline, LoginReply, LogoutErase,
                LogoutUpdate, CloseErase, CloseUpdate
  <1>3. ASSUME NEW c \in Conns, Chat(c) \/ RunPending(c) PROVE UNCHANGED crashes
    BY <1>3 DEF Chat, OneChat, StoreOffline, GroupQuery, GroupLock, GroupEach, GroupUnlock,
                AddGroup, RunPending
  <1>4. ASSUME Interrupt \/ Exit \/ Restart \/ UNCHANGED vars PROVE UNCHANGED crashes
    BY <1>4 DEF Interrupt, Exit, Restart
  <1>5. Crash => crashes' = crashes + 1
    BY DEF Crash
  <1> QED  BY <1>0, <1>1, <1>2, <1>3, <1>4, <1>5 DEF Next, Loop, Process

-----------------------------------------------------------------------------
(***************************************************************************)
(* The database, the map and the clients agree.                            *)
(***************************************************************************)

\* Every entry of connection c is explained: its client is logged in, or about to
\* be told so, or on the way out, or gone.
EntryExplained(c) ==
  \A u \in Users : userConn[u] = c =>
    \/ client[c] = "chatting" /\ account[c] = u
    \/ pc[c] \in HoldingPCs /\ hUser[c] = u
    \/ LogoutWaits(c, u)
    \/ client[c] = "gone" /\ ~LoginWaits(c) /\ pc[c] \notin LoginPCs

\* It has one entry at most, and none before emplace; nobody is rejected.
OneEntry(c) ==
  /\ \A u, v \in Users : userConn[u] = c /\ userConn[v] = c => u = v
  /\ pc[c] = "emplace" => \A u \in Users : userConn[u] # c
  /\ pc[c] # "reject"

\* The user of an entry is online, once the login has said so ...
EntryMeansOnline(c) ==
  \A u \in Users : userConn[u] = c =>
    /\ conn[c] = "up"
    /\ state[u] = "online" \/ (pc[c] = "setOnline" /\ hUser[c] = u)

\* ... and a user that is online has an entry, until it is erased.
OnlineMeansEntry(c) ==
  /\ \A u \in AccountsOf[c] : state[u] = "online" =>
       userConn[u] = c \/ (pc[c] \in ErasedPCs /\ hUser[c] = u)
  /\ pc[c] \in ErasedPCs => hUser[c] \in AccountsOf[c] /\ userConn[hUser[c]] # c

\* The first three as long as no logout of the connection was lost, the last always.
EntriesAgree(c) == EntryExplained(c) /\ OneEntry(c) /\ EntryMeansOnline(c)

Agrees ==
  faults = 0 /\ crashes = 0 =>
    /\ running /\ ~exiting
    /\ \A c \in Conns : OnlineMeansEntry(c) /\ (NoneLost(c) => EntriesAgree(c))

\* A callback that is not about sessions, and the reading of offlineMessage.
QuietPCs == PCs \ (LoginPCs \cup ErasedPCs)
ReadingPCs == {"readOffline", "clearOffline", "reply"}

\* What a step leaves alone that is not about sessions.
LEMMA AgreesQuietly ==
  ASSUME NEW d \in Conns, EntriesAgree(d), UNCHANGED <<userConn, state, conn, client, account>>,
         LoginWaits(d)' => LoginWaits(d),
         \A u \in Users : LogoutWaits(d, u) => LogoutWaits(d, u)',
         \/ pc'[d] = pc[d] /\ hUser'[d] = hUser[d]
         \/ pc[d] \in QuietPCs /\ pc'[d] \in QuietPCs
         \/ pc[d] \in ReadingPCs /\ pc'[d] \in ReadingPCs /\ hUser'[d] = hUser[d]
  PROVE  EntriesAgree(d)'
  <1> USE DEF QuietPCs, ReadingPCs, PCs, LoginPCs, ErasedPCs, HoldingPCs
  <1>1. EntryExplained(d)'
    BY DEF EntriesAgree, EntryExplained
  <1>2. OneEntry(d)'
    BY DEF EntriesAgree, OneEntry
  <1>3. EntryMeansOnline(d)'
    BY DEF EntriesAgree, EntryMeansOnline
  <1> QED  BY <1>1, <1>2, <1>3 DEF EntriesAgree

\* Without ctrl+c and crashes, the server stays up.
LEMMA StaysUp ==
  ASSUME ~MayInterrupt, TypeOK, Agrees, [Next]_vars, faults' = 0, crashes' = 0
  PROVE  /\ faults = 0 /\ crashes = 0 /\ ~Crash /\ ~Interrupt /\ ~Exit /\ ~Restart
         /\ running' /\ ~exiting'
         /\ \A c \in Conns : OnlineMeansEntry(c) /\ (NoneLost(c) => EntriesAgree(c))
  <1> USE DEF vars, svcVars
  <1>1. faults = 0 /\ crashes = 0 /\ ~Crash
    BY NoFaultBefore, NoCrashBefore
  <1>2. running /\ ~exiting /\ ~Interrupt /\ ~Exit /\ ~Restart
    BY <1>1 DEF Agrees, Interrupt, Exit, Restart
  <1>3. ASSUME NEW c \in Conns, Client(c) PROVE UNCHANGED <<running, exiting>>
    BY <1>3 DEF Client, Connect, SendLogin, SendLogout, SendOneChat, SendGroupChat,
                SendAddGroup, Quit
  <1>4. ASSUME NEW c \in Conns, Login(c) \/ Leave(c) PROVE UNCHANGED <<running, exiting>>
    BY <1>4 DEF Login, Leave, LoginQuery, LoginRefuse, LoginReject, LoginEmplace,
                LoginSetOnline, LoginReadOffline, LoginClearOffline, LoginReply,
                LogoutErase, LogoutUpdate, CloseErase, CloseUpdate
  <1>5. ASSUME NEW c \in Conns, Chat(c) \/ RunPending(c) PROVE UNCHANGED <<running, exiting>>
    BY <1>5 DEF Chat, OneChat, StoreOffline, GroupQuery, GroupLock, GroupEach,
                GroupUnlock, AddGroup, RunPending
  <1>6. UNCHANGED <<running, exiting>>
    BY <1>1, <1>2, <1>3, <1>4, <1>5 DEF Next, Loop, Process
  <1> QED  BY <1>1, <1>2, <1>6 DEF Agrees

\* What leaves OnlineMeansEntry alone.
LEMMA OnlineQuietly ==
  ASSUME NEW d \in Conns, OnlineMeansEntry(d), UNCHANGED <<userConn, state>>,
         \/ pc'[d] = pc[d] /\ hUser'[d] = hUser[d]
         \/ pc[d] \notin ErasedPCs /\ pc'[d] \notin ErasedPCs
  PROVE  OnlineMeansEntry(d)'
  BY DEF OnlineMeansEntry

\* Every step keeps what is known of who is online ...
LEMMA OnlineStep ==
  ASSUME OneClientPerAccount, ~MayInterrupt, KeepsSessions, Agrees, [Next]_vars,
         faults' = 0, crashes' = 0, NEW d \in Conns
  PROVE  OnlineMeansEntry(d)'
  <1> USE DEF dbVars, svcVars, localVars, netVars, clientVars, histVars, deliveryVars
  <1>0. TypeNet /\ TypeClient /\ TypeCallback /\ TypeService /\ TypeDb /\ TypeOK
    BY DEF KeepsSessions, ConnsInOrder, TypeOK
  <1>a. /\ ~Crash /\ ~Interrupt /\ ~Exit /\ ~Restart
        /\ \A c \in Conns : OnlineMeansEntry(c)
    BY <1>0, StaysUp
  <1>b. d # NoConn /\ \A v \in AccountsOf[d] : v \in Users
    BY ConstantsAssumption DEF ConstantsAssumption
  <1>c. \A e \in Conns : ActsForItself(e) /\ LoginHoldsEntry(e)
    BY DEF KeepsSessions, ConnsInOrder
  <1>1. ASSUME NEW c \in Conns, Client(c) PROVE OnlineMeansEntry(d)'
    <2>1. UNCHANGED <<userConn, state, pc, hUser>>
      BY <1>1 DEF Client, Connect, SendLogin, SendLogout, SendOneChat, SendGroupChat,
                  SendAddGroup, Quit
    <2> QED  BY <1>a, <2>1, OnlineQuietly
  <1>2. ASSUME NEW c \in Conns,
               \/ LoginQuery(c) \/ LoginRefuse(c) \/ LoginReadOffline(c)
               \/ LoginClearOffline(c) \/ LoginReply(c) \/ Chat(c) \/ RunPending(c)
        PROVE  OnlineMeansEntry(d)'
    <2>1. UNCHANGED <<userConn, state>>
      BY <1>2 DEF Chat, OneChat, StoreOffline, GroupQuery, GroupLock, GroupEach, GroupUnlock,
                  AddGroup, RunPending, LoginQuery, LoginRefuse, LoginReadOffline,
                  LoginClearOffline, LoginReply
    <2>2. \/ UNCHANGED <<pc, hUser>>
          \/ /\ pc[c] \notin ErasedPCs
             /\ \E l \in PCs \ ErasedPCs : pc' = [pc EXCEPT ![c] = l]
             /\ UNCHANGED hUser \/ \E u : hUser' = [hUser EXCEPT ![c] = u]
      <3> USE DEF ErasedPCs, PCs, Goto, Return
      <3>1. ASSUME LoginQuery(c) \/ LoginRefuse(c) PROVE <2>2!1 \/ <2>2!2
        BY <3>1 DEF LoginQuery, LoginRefuse, Handles, Ready, LoopFree
      <3>2. ASSUME LoginReadOffline(c) \/ LoginClearOffline(c) \/ LoginReply(c)
            PROVE  <2>2!1 \/ <2>2!2
        BY <3>2 DEF LoginReadOffline, LoginClearOffline, LoginReply
      <3>3. ASSUME OneChat(c) \/ GroupQuery(c) \/ AddGroup(c) PROVE <2>2!1 \/ <2>2!2
        BY <3>3 DEF OneChat, GroupQuery, AddGroup, Handles, Ready, LoopFree
      <3>4. ASSUME \/ StoreOffline(c) \/ GroupLock(c) \/ (\E u \in Users : GroupEach(c, u))
                   \/ GroupUnlock(c) \/ RunPending(c)
            PROVE  <2>2!1 \/ <2>2!2
        BY <3>4 DEF StoreOffline, GroupLock, GroupEach, GroupUnlock, RunPending
      <3> QED  BY <1>2, <3>1, <3>2, <3>3, <3>4 DEF Chat
    <2>3. \/ pc'[d] = pc[d] /\ hUser'[d] = hUser[d]
          \/ pc[d] \notin ErasedPCs /\ pc'[d] \notin ErasedPCs
      BY <1>0, <2>2 DEF TypeCallback
    <2> QED  BY <1>a, <2>1, <2>3, OnlineQuietly
  <1>3. ASSUME NEW c \in Conns, LoginReject(c) \/ LoginEmplace(c) PROVE OnlineMeansEntry(d)'
    <2>1. /\ UNCHANGED state /\ pc[c] \in {"reject", "emplace"}
          /\ userConn' = EmplaceConn(userConn, hUser[c], c)
          /\ \E l \in {"idle", "setOnline"} : pc' = [pc EXCEPT ![c] = l]
          /\ UNCHANGED hUser \/ hUser' = [hUser EXCEPT ![c] = NoUser]
      BY <1>3 DEF LoginReject, LoginEmplace, Return, Goto
    <2>2. \A v \in Users : userConn[v] = d => userConn'[v] = d
      BY <1>0, <1>b, <2>1 DEF TypeService, EmplaceConn
    <2>3. d # c => /\ pc'[d] = pc[d] /\ hUser'[d] = hUser[d]
                   /\ \A v \in Users : userConn'[v] = d => userConn[v] = d
      BY <1>0, <2>1 DEF TypeCallback, TypeService, EmplaceConn
    <2>4. d = c => pc[d] \notin ErasedPCs /\ pc'[d] \notin ErasedPCs
      BY <1>0, <2>1 DEF TypeCallback, ErasedPCs
    <2> QED  BY <1>a, <1>b, <2>1, <2>2, <2>3, <2>4 DEF OnlineMeansEntry
  <1>4. ASSUME NEW c \in Conns, LoginSetOnline(c) PROVE OnlineMeansEntry(d)'
    <2>1. /\ UNCHANGED <<userConn, hUser>>
          /\ pc[c] = "setOnline" /\ pc' = [pc EXCEPT ![c] = "readOffline"]
          /\ state' = [state EXCEPT ![hUser[c]] = "online"]
      BY <1>0, <1>4, DbCallWorks DEF LoginSetOnline, Goto, UpdateState, TypeDb
    <2>2. hUser[c] \in Users /\ hUser[c] \in AccountsOf[c] /\ userConn[hUser[c]] = c
      BY <1>0, <1>c, <2>1
      DEF TypeCallback, UserPCs, ActsForItself, LoginHoldsEntry, LoginPCs
    <2>3. pc'[d] = IF d = c THEN "readOffline" ELSE pc[d]
      BY <1>0, <2>1 DEF TypeCallback
    <2>4. \A u \in Users : state'[u] = IF u = hUser[c] THEN "online" ELSE state[u]
      BY <1>0, <2>1 DEF TypeDb
    <2>5. d # c => hUser[c] \notin AccountsOf[d]
      BY <2>2 DEF OneClientPerAccount
    <2> QED  BY <1>a, <1>b, <2>1, <2>2, <2>3, <2>4, <2>5 DEF OnlineMeansEntry, ErasedPCs
  <1>5. ASSUME NEW c \in Conns, NEW u \in AccountsOf[c], u \in Users, pc[c] = "idle",
               UNCHANGED state, userConn' = [userConn EXCEPT ![u] = NoConn],
               NEW l \in ErasedPCs, pc' = [pc EXCEPT ![c] = l],
               hUser' = [hUser EXCEPT ![c] = u]
        PROVE  OnlineMeansEntry(d)'
    <2>1. /\ pc'[d] = IF d = c THEN l ELSE pc[d]
          /\ hUser'[d] = IF d = c THEN u ELSE hUser[d]
      BY <1>0, <1>5 DEF TypeCallback
    <2>2. \A v \in Users : userConn'[v] = IF v = u THEN NoConn ELSE userConn[v]
      BY <1>0, <1>5 DEF TypeService
    <2>3. d # c => u \notin AccountsOf[d]
      BY <1>5 DEF OneClientPerAccount
    <2> QED  BY <1>a, <1>b, <1>5, <2>1, <2>2, <2>3 DEF OnlineMeansEntry, ErasedPCs
  <1>6. ASSUME NEW c \in Conns, LogoutErase(c) PROVE OnlineMeansEntry(d)'
    <2> DEFINE u == Head(req[c]).user
    <2>1. u \in AccountsOf[c] /\ u \in Users
      <3>1. req[c] # <<>> /\ req[c] \in Seq(Request) /\ Head(req[c]).type = "LOGINOUT_MSG"
        BY <1>0, <1>6 DEF LogoutErase, Handles, TypeNet
      <3>2. 1 \in DOMAIN req[c] /\ Head(req[c]) = req[c][1]
        BY <3>1
      <3> QED  BY <1>c, <3>1, <3>2, ConstantsAssumption DEF ActsForItself, ConstantsAssumption
    <2>2. /\ pc[c] = "idle" /\ pc' = [pc EXCEPT ![c] = "logoutUpdate"]
          /\ hUser' = [hUser EXCEPT ![c] = u]
          /\ userConn' = [userConn EXCEPT ![u] = NoConn] /\ UNCHANGED state
      BY <1>6 DEF LogoutErase, Goto, EraseConn, Handles, Ready, LoopFree
    <2>3. "logoutUpdate" \in ErasedPCs
      BY DEF ErasedPCs
    <2> HIDE DEF u
    <2> QED  BY <1>5, <2>1, <2>2, <2>3
  <1>7. ASSUME NEW c \in Conns, CloseErase(c) PROVE OnlineMeansEntry(d)'
    <2>1. pc[c] = "idle" /\ UNCHANGED state
      BY <1>7 DEF CloseErase, Ready, LoopFree
    <2>2. CASE EntriesOf(userConn, c) = {}
      <3>1. UNCHANGED <<userConn, pc, hUser>>
        BY <1>7, <2>2 DEF CloseErase
      <3> QED  BY <1>a, <2>1, <3>1, OnlineQuietly
    <2>3. CASE EntriesOf(userConn, c) # {}
      <3>1. PICK u \in EntriesOf(userConn, c) :
              /\ userConn' = [userConn EXCEPT ![u] = NoConn]
              /\ pc' = [pc EXCEPT ![c] = "closeUpdate"]
              /\ hUser' = [hUser EXCEPT ![c] = u]
        BY <1>7, <2>3 DEF CloseErase, Goto, EraseConn
      <3>2. u \in Users /\ u \in AccountsOf[c] /\ "closeUpdate" \in ErasedPCs
        BY <1>0, <1>c, <3>1 DEF EntriesOf, TypeService, ActsForItself, ErasedPCs
      <3> QED  BY <1>5, <2>1, <3>1, <3>2
    <2> QED  BY <2>2, <2>3
  <1>8. ASSUME NEW c \in Conns, LogoutUpdate(c) \/ CloseUpdate(c) PROVE OnlineMeansEntry(d)'
    <2>1. /\ UNCHANGED userConn
          /\ pc[c] \in ErasedPCs /\ pc' = [pc EXCEPT ![c] = "idle"]
          /\ hUser' = [hUser EXCEPT ![c] = NoUser]
          /\ state' = [state EXCEPT ![hUser[c]] = "offline"]
      BY <1>0, <1>8, DbCallWorks
      DEF LogoutUpdate, CloseUpdate, Return, Goto, UpdateState, TypeDb, ErasedPCs
    <2>2. hUser[c] \in AccountsOf[c] /\ hUser[c] \in Users
      BY <1>a, <2>1, ConstantsAssumption DEF OnlineMeansEntry, ConstantsAssumption
    <2>3. /\ pc'[d] = IF d = c THEN "idle" ELSE pc[d]
          /\ d # c => hUser'[d] = hUser[d]
      BY <1>0, <2>1 DEF TypeCallback
    <2>4. \A u \in Users : state'[u] = IF u = hUser[c] THEN "offline" ELSE state[u]
      BY <1>0, <2>1 DEF TypeDb
    <2> QED  BY <1>a, <1>b, <2>1, <2>2, <2>3, <2>4 DEF OnlineMeansEntry, ErasedPCs
  <1>9. ASSUME UNCHANGED vars PROVE OnlineMeansEntry(d)'
    BY <1>a, <1>9, OnlineQuietly DEF vars
  <1> QED
    BY <1>a, <1>1, <1>2, <1>3, <1>4, <1>6, <1>7, <1>8, <1>9
    DEF Next, Loop, Login, Leave, Process

\* ... and, as long as no logout of a connection was lost, what is known of its entry.
LEMMA EntriesStep ==
  ASSUME OneClientPerAccount, ~MayInterrupt, KeepsSessions, Agrees, [Next]_vars,
         faults' = 0, crashes' = 0, NEW d \in Conns, NoneLost(d)'
  PROVE  EntriesAgree(d)'
  <1> USE DEF dbVars, svcVars, localVars, netVars, clientVars, histVars, deliveryVars
  <1>0. TypeNet /\ TypeClient /\ TypeCallback /\ TypeService /\ TypeDb /\ TypeOK
    BY DEF KeepsSessions, ConnsInOrder, TypeOK
  <1>b. ~Crash /\ ~Interrupt /\ ~Exit /\ ~Restart
    BY <1>0, StaysUp
  <1>c. \A e \in Conns : ActsForItself(e)
    BY DEF KeepsSessions, ConnsInOrder
  <1>d. \A e \in Conns : TakesTurns(e) /\ CallbackMatchesConn(e) /\ LoginHoldsEntry(e)
    BY DEF KeepsSessions, ConnsInOrder
  <1>o. \A e \in Conns : OnlineMeansEntry(e)
    BY <1>0, StaysUp
  <1>g. \A e \in Conns : WaitsInTurn(e)
    BY <1>0, <1>d, WhatWaits
  <1>i. CASE Connect(d)
    <2>1. \A u \in Users : userConn[u] # d
      BY <1>0, <1>i DEF Connect, EntriesOf, TypeService
    <2>2. UNCHANGED <<userConn, pc>> /\ conn[d] = "none"
      BY <1>i DEF Connect
    <2>3. pc[d] # "reject"
      BY <1>d, <2>2 DEF CallbackMatchesConn, LoginPCs
    <2> QED  BY <2>1, <2>2, <2>3 DEF EntriesAgree, EntryExplained, OneEntry, EntryMeansOnline
  <1> SUFFICES ASSUME ~Connect(d) PROVE EntriesAgree(d)'
    BY <1>i
  <1>a. EntriesAgree(d)
    BY <1>0, StaysUp, NoneLostBefore
  <1>1. ASSUME NEW c \in Conns, Connect(c) PROVE EntriesAgree(d)'
    <2>1. c # d /\ UNCHANGED <<state, userConn, pc, hUser, req, account>>
      BY <1>1 DEF Connect
    <2>2. conn'[d] = conn[d] /\ client'[d] = client[d]
      BY <1>0, <1>1, <2>1 DEF Connect, TypeNet, TypeClient
    <2> QED  BY <1>a, <2>1, <2>2, RequestsSame
             DEF EntriesAgree, EntryExplained, OneEntry, EntryMeansOnline
  <1>2. ASSUME NEW c \in Conns, NEW u \in Users, NEW ok \in BOOLEAN, SendLogin(c, u, ok)
        PROVE  EntriesAgree(d)'
    <2>1. PICK r : Send(c, r)
      BY <1>2 DEF SendLogin
    <2>2. \A v \in Users : LogoutWaits(d, v) => LogoutWaits(d, v)'
      BY <1>0, <2>1, RequestSent
    <2>3. d # c => (LoginWaits(d)' => LoginWaits(d))
      BY <1>0, <2>1, RequestSent
    <2>4. /\ UNCHANGED <<state, userConn, pc, hUser, conn, account>>
          /\ client[c] = "menu"
          /\ client' = [client EXCEPT ![c] = "waiting"]
      BY <1>2 DEF SendLogin
    <2>5. EntryExplained(d)'
      BY <1>0, <1>a, <2>2, <2>3, <2>4 DEF TypeClient, EntriesAgree, EntryExplained
    <2> QED  BY <1>a, <2>4, <2>5 DEF EntriesAgree, OneEntry, EntryMeansOnline
  <1>3. ASSUME NEW c \in Conns, SendLogout(c) PROVE EntriesAgree(d)'
    <2>1. PICK r : Send(c, r) /\ r.type = "LOGINOUT_MSG" /\ r.user = account[c]
      BY <1>3 DEF SendLogout
    <2>2. \A v \in Users : LogoutWaits(d, v) => LogoutWaits(d, v)'
      BY <1>0, <2>1, RequestSent
    <2>3. LoginWaits(d)' => LoginWaits(d)
      BY <1>0, <2>1, RequestSent
    <2>4. LogoutWaits(c, r.user)'
      BY <1>0, <2>1, RequestSent
    <2>5. /\ UNCHANGED <<state, userConn, pc, hUser, conn>>
          /\ client[c] = "chatting"
          /\ client' = [client EXCEPT ![c] = "menu"]
          /\ account' = [account EXCEPT ![c] = NoUser]
      BY <1>3 DEF SendLogout
    <2>6. EntryExplained(d)'
      BY <1>0, <1>a, <2>1, <2>2, <2>3, <2>4, <2>5 DEF TypeClient, EntriesAgree, EntryExplained
    <2> QED  BY <1>a, <2>5, <2>6 DEF EntriesAgree, OneEntry, EntryMeansOnline
  <1>4. ASSUME NEW c \in Conns,
               \/ \E u \in Users : SendOneChat(c, u)
               \/ \E g \in Groups : SendGroupChat(c, g) \/ SendAddGroup(c, g)
        PROVE  EntriesAgree(d)'
    <2>1. PICK r : Send(c, r) /\ r.type \notin {"LOGIN_MSG", "LOGINOUT_MSG"}
      BY <1>4, CommandsSend
    <2>2. UNCHANGED <<userConn, state, conn, client, account, pc, hUser>>
      BY <1>4 DEF SendOneChat, SendGroupChat, SendAddGroup
    <2> QED  BY <1>0, <1>a, <2>1, <2>2, RequestSent, AgreesQuietly
  <1>5. ASSUME NEW c \in Conns, Quit(c) PROVE EntriesAgree(d)'
    <2>1. /\ UNCHANGED <<state, userConn, pc, hUser, conn>>
          /\ client' = [client EXCEPT ![c] = "gone"]
          /\ account' = [account EXCEPT ![c] = NoUser]
      BY <1>5 DEF Quit
    <2>2. CASE UNCHANGED req
      <3>1. EntryExplained(d)'
        BY <1>0, <1>a, <1>g, <2>1, <2>2, RequestsSame
        DEF TypeClient, WaitsInTurn, EntriesAgree, EntryExplained, HoldingPCs, LoginPCs
      <3> QED  BY <1>a, <2>1, <3>1
               DEF EntriesAgree, OneEntry, EntryMeansOnline
    <2>3. CASE req' = [req EXCEPT ![c] = <<>>]
      <3>1. /\ d # c => req'[d] = req[d]
            /\ d = c => ~LoginWaits(d)'
        BY <1>0, <2>3 DEF TypeNet, LoginWaits
      <3>2. d # c => /\ LoginWaits(d)' = LoginWaits(d)
                     /\ \A u \in Users : LogoutWaits(d, u)' = LogoutWaits(d, u)
        BY <3>1 DEF LoginWaits, LogoutWaits
      <3>3. EntryExplained(d)'
        BY <1>0, <1>a, <1>g, <2>1, <3>1, <3>2
        DEF TypeClient, WaitsInTurn, EntriesAgree, EntryExplained, HoldingPCs, LoginPCs
      <3> QED  BY <1>a, <2>1, <3>3
               DEF EntriesAgree, OneEntry, EntryMeansOnline
    <2> QED  BY <1>5, <2>2, <2>3 DEF Quit
  <1>6. ASSUME NEW c \in Conns, LoginQuery(c) PROVE EntriesAgree(d)'
    <2>1. Handles(c, "LOGIN_MSG") /\ Consume(c)
      BY <1>6 DEF LoginQuery
    <2> DEFINE u == Head(req[c]).user
    <2>2. u \in AccountsOf[c] /\ u \in Users
      <3>1. PICK i \in DOMAIN req[c] : req[c][i] = Head(req[c]) /\ req[c][i].type = "LOGIN_MSG"
        <4>1. req[c] # <<>> /\ req[c] \in Seq(Request) /\ Head(req[c]).type = "LOGIN_MSG"
          BY <1>0, <2>1 DEF Handles, TypeNet
        <4>2. 1 \in DOMAIN req[c] /\ Head(req[c]) = req[c][1]
          BY <4>1
        <4> QED  BY <4>1, <4>2
      <3> QED  BY <1>c, <3>1, ConstantsAssumption DEF ActsForItself, ConstantsAssumption
    <2>3. pc[c] = "idle" /\ client[c] \in {"waiting", "gone"}
      BY <1>0, <1>d, <2>1, LoginIsLast
    <2>4. LoginWaits(c) /\ \A v \in Users : ~LogoutWaits(c, v)
      BY <1>0, <1>d, <2>1, LoginWaitsAlone, RequestHandled
    <2>5. d = c => \A v \in Users : userConn[v] # c
      BY <1>a, <2>3, <2>4 DEF EntriesAgree, EntryExplained, HoldingPCs
    <2>6. d = c => state[u] # "online"
      BY <1>o, <2>2, <2>3, <2>5 DEF OnlineMeansEntry, ErasedPCs
    <2>7. /\ UNCHANGED <<state, userConn, conn, client, account>>
          /\ \E l : pc' = [pc EXCEPT ![c] = l]
          /\ d = c => pc' = [pc EXCEPT ![c] = "emplace"]
          /\ hUser' = [hUser EXCEPT ![c] = u]
      BY <1>6, <2>6 DEF LoginQuery, Goto
    <2>8. CASE d = c
      BY <1>0, <2>3, <2>5, <2>7, <2>8
      DEF TypeCallback, EntriesAgree, EntryExplained, OneEntry, EntryMeansOnline
    <2>9. CASE d # c
      <3>1. pc'[d] = pc[d] /\ hUser'[d] = hUser[d]
        BY <2>7, <2>9 DEF TypeCallback
      <3>2. /\ LoginWaits(d)' => LoginWaits(d)
            /\ \A v \in Users : LogoutWaits(d, v) => LogoutWaits(d, v)'
        BY <1>0, <2>1, <2>9, RequestHandled
      <3> QED  BY <1>a, <2>7, <3>1, <3>2, AgreesQuietly
    <2> QED  BY <2>8, <2>9
  <1>7. ASSUME NEW c \in Conns, LoginRefuse(c) PROVE EntriesAgree(d)'
    <2>1. Handles(c, "LOGIN_MSG") /\ Consume(c) /\ Answer(c, "menu", NoUser)
      BY <1>7 DEF LoginRefuse
    <2>2. UNCHANGED <<userConn, state, conn, pc, hUser>>
      BY <1>7 DEF LoginRefuse
    <2>3. client[c] \in {"waiting", "gone"} /\ pc[c] = "idle"
      BY <1>0, <1>d, <2>1, LoginIsLast
    <2>4. /\ LoginWaits(c) /\ \A v \in Users : ~LogoutWaits(c, v)
          /\ LoginWaits(d)' => LoginWaits(d)
          /\ \A v \in Users : LogoutWaits(d, v) => LogoutWaits(d, v)'
      BY <1>0, <1>d, <2>1, LoginWaitsAlone, RequestHandled
    <2>5. d = c => \A v \in Users : userConn[v] # c
      BY <1>a, <2>3, <2>4 DEF EntriesAgree, EntryExplained, HoldingPCs
    <2>6. d # c => client'[d] = client[d] /\ account'[d] = account[d]
      BY <1>0, <2>1 DEF Answer, TypeClient
    <2>7. EntryExplained(d)'
      BY <1>a, <2>2, <2>4, <2>5, <2>6 DEF EntriesAgree, EntryExplained
    <2> QED  BY <1>a, <2>2, <2>7
             DEF EntriesAgree, OneEntry, EntryMeansOnline
  <1>8. ASSUME NEW c \in Conns, LoginEmplace(c) PROVE EntriesAgree(d)'
    <2>1. /\ UNCHANGED <<state, conn, client, account, hUser, req>>
          /\ pc[c] = "emplace" /\ pc' = [pc EXCEPT ![c] = "setOnline"]
          /\ userConn' = EmplaceConn(userConn, hUser[c], c)
      BY <1>8 DEF LoginEmplace, Goto
    <2>2. hUser[c] \in Users /\ hUser[c] \in AccountsOf[c] /\ conn[c] = "up"
      BY <1>0, <1>c, <1>d, <2>1
      DEF TypeCallback, UserPCs, ActsForItself, CallbackMatchesConn, LoginPCs
    <2>3. d = c => \A u \in Users : userConn[u] # c
      BY <1>a, <2>1 DEF EntriesAgree, OneEntry
    <2>4. /\ LoginWaits(d)' = LoginWaits(d)
          /\ \A u \in Users : LogoutWaits(d, u)' = LogoutWaits(d, u)
      BY <2>1, RequestsSame
    <2>5. CASE d = c
      <3>1. \A u \in Users : userConn'[u] = c => u = hUser[c]
        BY <1>0, <2>1, <2>3, <2>5 DEF TypeService, EmplaceConn
      <3>2. pc'[c] = "setOnline"
        BY <1>0, <2>1 DEF TypeCallback
      <3>3. EntryExplained(d)'
        BY <2>1, <2>5, <3>1, <3>2 DEF EntryExplained, HoldingPCs
      <3>4. OneEntry(d)' /\ EntryMeansOnline(d)'
        BY <2>1, <2>2, <2>5, <3>1, <3>2 DEF OneEntry, EntryMeansOnline
      <3> QED  BY <3>3, <3>4 DEF EntriesAgree
    <2>6. CASE d # c
      <3>1. \A u \in Users : userConn'[u] = d <=> userConn[u] = d
        BY <1>0, <2>1, <2>6, ConstantsAssumption
        DEF TypeService, EmplaceConn, ConstantsAssumption
      <3>2. pc'[d] = pc[d]
        BY <1>0, <2>1, <2>6 DEF TypeCallback
      <3>5. EntryExplained(d)' /\ OneEntry(d)'
        BY <1>a, <2>1, <2>4, <3>1, <3>2 DEF EntriesAgree, EntryExplained, OneEntry
      <3>6. EntryMeansOnline(d)'
        BY <1>a, <2>1, <3>1, <3>2 DEF EntriesAgree, EntryMeansOnline
      <3> QED  BY <3>5, <3>6 DEF EntriesAgree
    <2> QED  BY <2>5, <2>6
  <1>9. ASSUME NEW c \in Conns, LoginSetOnline(c) PROVE EntriesAgree(d)'
    <2>1. /\ UNCHANGED <<userConn, conn, client, account, hUser, req>>
          /\ pc[c] = "setOnline" /\ pc' = [pc EXCEPT ![c] = "readOffline"]
          /\ state' = [state EXCEPT ![hUser[c]] = "online"]
      BY <1>0, <1>9, DbCallWorks DEF LoginSetOnline, Goto, UpdateState, TypeDb
    <2>2. hUser[c] \in Users /\ hUser[c] \in AccountsOf[c] /\ userConn[hUser[c]] = c
      BY <1>0, <1>c, <1>d, <2>1
      DEF TypeCallback, UserPCs, ActsForItself, LoginHoldsEntry, LoginPCs
    <2>3. /\ LoginWaits(d)' = LoginWaits(d)
          /\ \A u \in Users : LogoutWaits(d, u)' = LogoutWaits(d, u)
      BY <2>1, RequestsSame
    <2>4. pc'[d] = IF d = c THEN "readOffline" ELSE pc[d]
      BY <1>0, <2>1 DEF TypeCallback
    <2>5. \A u \in Users : state'[u] = IF u = hUser[c] THEN "online" ELSE state[u]
      BY <1>0, <2>1 DEF TypeDb
    <2>8. EntryExplained(d)' /\ OneEntry(d)'
      BY <1>a, <2>1, <2>3, <2>4
      DEF EntriesAgree, EntryExplained, OneEntry, HoldingPCs, LoginPCs
    <2>9. EntryMeansOnline(d)'
      BY <1>a, <2>1, <2>2, <2>4, <2>5 DEF EntriesAgree, EntryMeansOnline
    <2> QED  BY <2>8, <2>9 DEF EntriesAgree
  <1>10. ASSUME NEW c \in Conns, LoginReadOffline(c) \/ LoginClearOffline(c)
        PROVE  EntriesAgree(d)'
    <2>1. /\ UNCHANGED <<userConn, state, conn, client, account, hUser, req>>
          /\ pc[c] \in ReadingPCs
          /\ \E l \in ReadingPCs : pc' = [pc EXCEPT ![c] = l]
      BY <1>10 DEF LoginReadOffline, LoginClearOffline, Goto, ReadingPCs
    <2>2. pc'[d] = pc[d] \/ (pc[d] \in ReadingPCs /\ pc'[d] \in ReadingPCs)
      BY <1>0, <2>1 DEF TypeCallback
    <2> QED  BY <1>a, <2>1, <2>2, RequestsSame, AgreesQuietly
  <1>11. ASSUME NEW c \in Conns, LoginReply(c) PROVE EntriesAgree(d)'
    <2>1. /\ UNCHANGED <<userConn, state, conn, req>>
          /\ pc[c] = "reply" /\ pc' = [pc EXCEPT ![c] = "idle"]
          /\ hUser' = [hUser EXCEPT ![c] = NoUser]
          /\ Answer(c, "chatting", hUser[c])
      BY <1>11 DEF LoginReply, Return, Goto
    <2>2. /\ LoginWaits(d)' = LoginWaits(d)
          /\ \A u \in Users : LogoutWaits(d, u)' = LogoutWaits(d, u)
      BY <2>1, RequestsSame
    <2>3. /\ pc'[d] = IF d = c THEN "idle" ELSE pc[d]
          /\ d # c => hUser'[d] = hUser[d]
      BY <1>0, <2>1 DEF TypeCallback
    <2>4. /\ d # c => client'[d] = client[d] /\ account'[d] = account[d]
          /\ d = c /\ client[c] # "gone" => client'[d] = "chatting" /\ account'[d] = hUser[c]
          /\ d = c /\ client[c] = "gone" => client'[d] = "gone"
      BY <1>0, <2>1 DEF TypeClient, Answer
    <2>5. d = c => \A u \in Users : userConn[u] = c => u = hUser[c]
      BY <1>a, <1>g, <2>1
      DEF WaitsInTurn, EntriesAgree, EntryExplained, LoginPCs
    <2>6. EntryExplained(d)'
      BY <1>a, <1>g, <2>1, <2>2, <2>3, <2>4, <2>5
      DEF WaitsInTurn, EntriesAgree, EntryExplained, LoginPCs
    <2>7. OneEntry(d)' /\ EntryMeansOnline(d)'
      BY <1>a, <2>1, <2>3 DEF EntriesAgree, OneEntry, EntryMeansOnline
    <2> QED  BY <2>6, <2>7 DEF EntriesAgree
  <1>12. ASSUME NEW c \in Conns, LogoutErase(c) PROVE EntriesAgree(d)'
    <2>1. /\ Handles(c, "LOGINOUT_MSG") /\ Consume(c)
          /\ UNCHANGED <<state, conn, client, account>>
      BY <1>12 DEF LogoutErase
    <2> DEFINE u == Head(req[c]).user
    <2>2. u \in AccountsOf[c] /\ u \in Users
      <3>1. PICK i \in DOMAIN req[c] :
              req[c][i] = Head(req[c]) /\ req[c][i].type = "LOGINOUT_MSG"
        <4>1. req[c] # <<>> /\ req[c] \in Seq(Request) /\ Head(req[c]).type = "LOGINOUT_MSG"
          BY <1>0, <2>1 DEF Handles, TypeNet
        <4>2. 1 \in DOMAIN req[c] /\ Head(req[c]) = req[c][1]
          BY <4>1
        <4> QED  BY <4>1, <4>2
      <3> QED  BY <1>c, <3>1, ConstantsAssumption DEF ActsForItself, ConstantsAssumption
    <2>3. /\ pc[c] = "idle" /\ pc' = [pc EXCEPT ![c] = "logoutUpdate"]
          /\ hUser' = [hUser EXCEPT ![c] = u]
          /\ userConn' = [userConn EXCEPT ![u] = NoConn]
      BY <1>12 DEF LogoutErase, Goto, EraseConn, Handles, Ready, LoopFree
    <2>4. /\ LoginWaits(d)' => LoginWaits(d)
          /\ \A v \in Users : v # u \/ d # c => (LogoutWaits(d, v) => LogoutWaits(d, v)')
      BY <1>0, <2>1, RequestHandled
    <2>5. d # c => u \notin AccountsOf[d] /\ userConn[u] # d
      BY <1>c, <2>2 DEF OneClientPerAccount, ActsForItself
    <2> HIDE DEF u
    <2>6. /\ pc'[d] = IF d = c THEN "logoutUpdate" ELSE pc[d]
          /\ hUser'[d] = IF d = c THEN u ELSE hUser[d]
      BY <1>0, <2>3 DEF TypeCallback
    <2>7. \A v \in Users : userConn'[v] = IF v = u THEN NoConn ELSE userConn[v]
      BY <1>0, <2>3 DEF TypeService
    <2>8. d # NoConn
      BY ConstantsAssumption DEF ConstantsAssumption
    <2>9. EntryExplained(d)'
      BY <1>a, <2>1, <2>3, <2>4, <2>5, <2>6, <2>7, <2>8
      DEF EntriesAgree, EntryExplained, HoldingPCs, LoginPCs
    <2>10. OneEntry(d)' /\ EntryMeansOnline(d)'
      BY <1>a, <2>1, <2>3, <2>6, <2>7, <2>8 DEF EntriesAgree, OneEntry, EntryMeansOnline
    <2> QED  BY <2>9, <2>10 DEF EntriesAgree
  <1>13. ASSUME NEW c \in Conns, CloseErase(c) PROVE EntriesAgree(d)'
    <2>1. /\ UNCHANGED <<state, client, account, req>>
          /\ pc[c] = "idle" /\ client[c] = "gone" /\ req[c] = <<>>
      BY <1>13 DEF CloseErase, Ready, LoopFree
    <2>2. /\ LoginWaits(d)' = LoginWaits(d)
          /\ \A u \in Users : LogoutWaits(d, u)' = LogoutWaits(d, u)
      BY <2>1, RequestsSame
    <2>3. CASE EntriesOf(userConn, c) = {}
      <3>1. /\ UNCHANGED <<userConn, pc, hUser>>
            /\ d # c => conn'[d] = conn[d]
        BY <1>0, <1>13, <2>3 DEF CloseErase, TypeNet
      <3>2. \A u \in Users : userConn[u] # c
        BY <1>0, <2>3 DEF EntriesOf, TypeService
      <3> QED  BY <1>a, <2>1, <2>2, <3>1, <3>2
               DEF EntriesAgree, EntryExplained, OneEntry, EntryMeansOnline, OnlineMeansEntry
    <2>4. CASE EntriesOf(userConn, c) # {}
      <3>1. PICK u \in EntriesOf(userConn, c) :
              /\ userConn' = [userConn EXCEPT ![u] = NoConn]
              /\ pc' = [pc EXCEPT ![c] = "closeUpdate"]
              /\ hUser' = [hUser EXCEPT ![c] = u]
              /\ d # c => conn'[d] = conn[d]
        BY <1>0, <1>13, <2>4 DEF CloseErase, Goto, EraseConn, TypeNet
      <3>2. u \in Users /\ userConn[u] = c /\ u \in AccountsOf[c]
        BY <1>0, <1>c, <3>1 DEF EntriesOf, TypeService, ActsForItself
      <3>4. /\ pc'[d] = IF d = c THEN "closeUpdate" ELSE pc[d]
            /\ hUser'[d] = IF d = c THEN u ELSE hUser[d]
        BY <1>0, <3>1 DEF TypeCallback
      <3>5. \A v \in Users : userConn'[v] = IF v = u THEN NoConn ELSE userConn[v]
        BY <1>0, <3>1 DEF TypeService
      <3>6. d # NoConn
        BY ConstantsAssumption DEF ConstantsAssumption
      <3>7. d = c => \A v \in Users : userConn'[v] # c
        BY <1>a, <3>2, <3>5, ConstantsAssumption DEF EntriesAgree, OneEntry, ConstantsAssumption
      <3>8. EntryExplained(d)'
        BY <1>a, <2>1, <2>2, <3>4, <3>5, <3>6, <3>7 DEF EntriesAgree, EntryExplained
      <3>9. OneEntry(d)' /\ EntryMeansOnline(d)'
        BY <1>a, <2>1, <3>1, <3>4, <3>5, <3>6, <3>7 DEF EntriesAgree, OneEntry, EntryMeansOnline
      <3> QED  BY <3>8, <3>9 DEF EntriesAgree
    <2> QED  BY <2>3, <2>4
  <1>14. ASSUME NEW c \in Conns, LogoutUpdate(c) \/ CloseUpdate(c) PROVE EntriesAgree(d)'
    <2>1. /\ UNCHANGED <<userConn, client, account, req>>
          /\ pc[c] \in ErasedPCs /\ pc' = [pc EXCEPT ![c] = "idle"]
          /\ hUser' = [hUser EXCEPT ![c] = NoUser]
          /\ state' = [state EXCEPT ![hUser[c]] = "offline"]
      BY <1>0, <1>14, DbCallWorks
      DEF LogoutUpdate, CloseUpdate, Return, Goto, UpdateState, TypeDb, ErasedPCs
    <2>2. \/ UNCHANGED conn
          \/ pc[c] = "closeUpdate" /\ conn' = [conn EXCEPT ![c] = "none"]
      BY <1>14 DEF LogoutUpdate, CloseUpdate
    <2>3. \A u \in Users : userConn[u] = d => conn'[d] = "up"
      <3>1. \A u \in Users : userConn[u] = d => conn[d] = "up"
        BY <1>a DEF EntriesAgree, EntryMeansOnline
      <3>2. pc[c] = "closeUpdate" => conn[c] = "down"
        BY <1>d DEF CallbackMatchesConn
      <3> QED  BY <1>0, <2>2, <3>1, <3>2 DEF TypeNet
    <2>4. /\ LoginWaits(d)' = LoginWaits(d)
          /\ \A u \in Users : LogoutWaits(d, u)' = LogoutWaits(d, u)
      BY <2>1, RequestsSame
    <2>5. hUser[c] \in AccountsOf[c] /\ userConn[hUser[c]] # c /\ hUser[c] \in Users
      BY <1>o, <2>1, ConstantsAssumption DEF OnlineMeansEntry, ConstantsAssumption
    <2>6. d # c => hUser[c] \notin AccountsOf[d] /\ userConn[hUser[c]] # d
      BY <1>c, <2>5 DEF OneClientPerAccount, ActsForItself
    <2>7. /\ pc'[d] = IF d = c THEN "idle" ELSE pc[d]
          /\ d # c => hUser'[d] = hUser[d]
      BY <1>0, <2>1 DEF TypeCallback
    <2>8. \A u \in Users : state'[u] = IF u = hUser[c] THEN "offline" ELSE state[u]
      BY <1>0, <2>1 DEF TypeDb
    <2>10. EntryExplained(d)' /\ OneEntry(d)'
      BY <1>a, <2>1, <2>4, <2>7
      DEF EntriesAgree, EntryExplained, OneEntry, HoldingPCs, LoginPCs, ErasedPCs
    <2>11. EntryMeansOnline(d)'
      BY <1>a, <2>1, <2>3, <2>5, <2>6, <2>7, <2>8
      DEF EntriesAgree, EntryMeansOnline, ErasedPCs
    <2> QED  BY <2>10, <2>11 DEF EntriesAgree
  <1>15. ASSUME NEW c \in Conns, LoginReject(c) PROVE EntriesAgree(d)'
    <2>1. /\ UNCHANGED <<state, conn, req>> /\ c # d
          /\ userConn' = EmplaceConn(userConn, hUser[c], c)
          /\ pc' = [pc EXCEPT ![c] = "idle"] /\ hUser' = [hUser EXCEPT ![c] = NoUser]
          /\ Answer(c, "menu", NoUser)
      BY <1>a, <1>15 DEF LoginReject, EntriesAgree, OneEntry, Return, Goto
    <2>2. \A u \in Users : userConn'[u] = d <=> userConn[u] = d
      BY <1>0, <2>1, ConstantsAssumption DEF TypeService, EmplaceConn, ConstantsAssumption
    <2>3. /\ pc'[d] = pc[d] /\ hUser'[d] = hUser[d]
          /\ client'[d] = client[d] /\ account'[d] = account[d]
      BY <1>0, <2>1 DEF TypeCallback, TypeClient, Answer
    <2> QED  BY <1>a, <2>1, <2>2, <2>3, RequestsSame
             DEF EntriesAgree, EntryExplained, OneEntry, EntryMeansOnline
  <1>16. ASSUME NEW c \in Conns, OneChat(c) \/ GroupQuery(c) \/ AddGroup(c)
         PROVE  EntriesAgree(d)'
    <2>1. PICK type \in {"ONE_CHAT_MSG", "GROUP_CHAT_MSG", "ADD_GROUP_MSG"} :
            Handles(c, type) /\ Consume(c)
      BY <1>16 DEF OneChat, GroupQuery, AddGroup
    <2>2. UNCHANGED <<userConn, state, conn, client, account>>
      BY <1>16 DEF OneChat, GroupQuery, AddGroup
    <2>3. /\ pc[c] = "idle"
          /\ \/ UNCHANGED <<pc, hUser>>
             \/ /\ \E l \in {"storeOffline", "groupLock"} : pc' = [pc EXCEPT ![c] = l]
                /\ UNCHANGED hUser \/ \E u : hUser' = [hUser EXCEPT ![c] = u]
      BY <1>16, <2>1 DEF OneChat, GroupQuery, AddGroup, Goto, Handles, Ready, LoopFree
    <2>4. \/ pc'[d] = pc[d] /\ hUser'[d] = hUser[d]
          \/ pc[d] \in QuietPCs /\ pc'[d] \in QuietPCs
      BY <1>0, <2>3 DEF TypeCallback, QuietPCs, PCs, LoginPCs, ErasedPCs
    <2>5. /\ LoginWaits(d)' => LoginWaits(d)
          /\ \A v \in Users : LogoutWaits(d, v) => LogoutWaits(d, v)'
      BY <1>0, <2>1, RequestHandled
    <2> QED  BY <1>a, <2>2, <2>4, <2>5, AgreesQuietly
  <1>17. ASSUME NEW c \in Conns,
                \/ StoreOffline(c) \/ GroupLock(c) \/ (\E u \in Users : GroupEach(c, u))
                \/ GroupUnlock(c) \/ RunPending(c)
         PROVE  EntriesAgree(d)'
    <2>1. UNCHANGED <<userConn, state, conn, client, account, req>>
      BY <1>17 DEF StoreOffline, GroupLock, GroupEach, GroupUnlock, RunPending
    <2>2. \/ UNCHANGED <<pc, hUser>>
          \/ /\ pc[c] \in {"storeOffline", "groupLock", "groupLoop"}
             /\ \E l \in {"idle", "groupLoop"} : pc' = [pc EXCEPT ![c] = l]
             /\ UNCHANGED hUser \/ hUser' = [hUser EXCEPT ![c] = NoUser]
      BY <1>17 DEF StoreOffline, GroupLock, GroupEach, GroupUnlock, RunPending, Return, Goto
    <2>3. \/ pc'[d] = pc[d] /\ hUser'[d] = hUser[d]
          \/ pc[d] \in QuietPCs /\ pc'[d] \in QuietPCs
      BY <1>0, <2>2 DEF TypeCallback, QuietPCs, PCs, LoginPCs, ErasedPCs
    <2> QED  BY <1>a, <2>1, <2>3, RequestsSame, AgreesQuietly
  <1>18. ASSUME UNCHANGED vars PROVE EntriesAgree(d)'
    BY <1>a, <1>18, RequestsSame, AgreesQuietly DEF vars
  <1> QED
    BY <1>b, <1>1, <1>2, <1>3, <1>4, <1>5, <1>6, <1>7, <1>8, <1>9, <1>10,
       <1>11, <1>12, <1>13, <1>14, <1>15, <1>16, <1>17, <1>18
    DEF Next, Client, Loop, Login, Leave, Chat, Process

\* Every step keeps the agreement.
LEMMA AgreesStep ==
  ASSUME OneClientPerAccount, ~MayInterrupt, KeepsSessions, Agrees, [Next]_vars
  PROVE  Agrees'
  <1>1. TypeOK
    BY DEF KeepsSessions, ConnsInOrder
  <1> QED  BY <1>1, StaysUp, OnlineStep, EntriesStep DEF Agrees

\* It is there at the start.
LEMMA AgreesInit == Init => Agrees
  <1> USE ConstantsAssumption DEF ConstantsAssumption
  <1> SUFFICES ASSUME Init, NEW c \in Conns PROVE OnlineMeansEntry(c) /\ EntriesAgree(c)
    BY DEF Init, Agrees
  <1> QED  BY DEF Init, EntriesAgree, EntryExplained, OneEntry, EntryMeansOnline,
                  OnlineMeansEntry, ErasedPCs

\* And it is what the property asks of the clients that are settled.
LEMMA AgreesMeans ==
  ASSUME KeepsSessions, Agrees, faults = 0, crashes = 0
  PROVE  PresenceAgrees
  <1> SUFFICES ASSUME NEW c \in Conns, Settled(c), NoneLost(c), NEW u \in AccountsOf[c]
               PROVE  LET here == client[c] = "chatting" /\ account[c] = u
                      IN  (userConn[u] = c <=> here) /\ (state[u] = "online" <=> here)
    BY DEF PresenceAgrees, NoneLost
  <1>1. OnlineMeansEntry(c) /\ EntriesAgree(c) /\ TypeNet /\ TakesTurns(c)
    BY DEF Agrees, KeepsSessions, ConnsInOrder, TypeOK
  <1>2. u \in Users
    BY ConstantsAssumption DEF ConstantsAssumption
  <1>3. \A v \in Users : ~LogoutWaits(c, v)
    BY <1>1, WhatWaits DEF Settled, WaitsInTurn
  <1>4. userConn[u] = c => client[c] = "chatting" /\ account[c] = u
    BY <1>1, <1>2, <1>3
    DEF EntriesAgree, EntryExplained, EntryMeansOnline, Settled, HoldingPCs
  <1>5. client[c] = "chatting" /\ account[c] = u => userConn[u] = c
    BY DEF KeepsSessions, LoggedInIsReachable
  <1>6. state[u] = "online" <=> userConn[u] = c
    BY <1>1, <1>2
    DEF EntriesAgree, EntryMeansOnline, OnlineMeansEntry, Settled, ErasedPCs
  <1> QED  BY <1>4, <1>5, <1>6

\* As long as nobody uses an account from two clients, no statement has failed and
\* the server has neither crashed nor been interrupted: whenever the requests of a
\* client are worked off, and no read has taken its logout behind another request, its
\* accounts are online in the database, and have an entry in m_userConnMap, exactly
\* when the client is logged in with them.
THEOREM PresenceAgreesHolds ==
  ASSUME OneClientPerAccount, ~MayInterrupt
  PROVE  Spec => [](faults = 0 /\ crashes = 0 => PresenceAgrees)
  <1>1. Init => KeepsSessions /\ Agrees
    BY SessionsInit, AgreesInit
  <1>2. KeepsSessions /\ Agrees /\ [Next]_vars => KeepsSessions' /\ Agrees'
    BY KeepsSessionsStep, AgreesStep
  <1>3. KeepsSessions /\ Agrees => (faults = 0 /\ crashes = 0 => PresenceAgrees)
    BY AgreesMeans
  <1> QED  BY <1>1, <1>2, <1>3, PTL DEF Spec

-----------------------------------------------------------------------------
(***************************************************************************)
(* One login at a time.                                                    *)
(***************************************************************************)

\* A loop runs one callback at a time.
OneCallback ==
  \A c, d \in Conns : LoopOf[c] = LoopOf[d] /\ pc[c] # "idle" /\ pc[d] # "idle" => c = d

\* A client sends one logout before it asks for the next login.
OneLogout(c) ==
  \A i, j \in DOMAIN req[c] :
     req[c][i].type = "LOGINOUT_MSG" /\ req[c][j].type = "LOGINOUT_MSG" => i = j

\* Connection c has the session of u: its client is logged in, is about to be told
\* so, or has asked to end it.
Holds(c, u) ==
  \/ client[c] = "chatting" /\ account[c] = u
  \/ pc[c] \in HoldingPCs /\ hUser[c] = u
  \/ LogoutWaits(c, u)

\* Who has a session has the entry, and is online once the login has said so.
HoldersHaveEntry(c) ==
  \A u \in Users : Holds(c, u) => userConn[u] = c /\ (state[u] = "online" \/ pc[c] = "setOnline")

\* Who is offline has no entry, but for a login that has not yet said so.
OfflineHasNoEntry ==
  \A u \in Users : state[u] = "offline" /\ userConn[u] # NoConn =>
     \E c \in Conns : pc[c] = "setOnline" /\ hUser[c] = u

\* What a callback has seen or done at its last statement is still so.
StillSo(c) ==
  /\ pc[c] = "emplace" => state[hUser[c]] = "offline"
  /\ pc[c] = "reject" => state[hUser[c]] = "online"
  /\ pc[c] \in ErasedPCs => userConn[hUser[c]] = NoConn /\ hUser[c] \in AccountsOf[c]

SessionsAt == OfflineHasNoEntry /\ \A c \in Conns : HoldersHaveEntry(c) /\ StillSo(c)

SessionsExclusive ==
  /\ ~exiting
  /\ OneCallback
  /\ \A c \in Conns : OneLogout(c)
  /\ faults = 0 => SessionsAt

\* A callback starts when its loop is free.
LEMMA OneCallbackStep ==
  ASSUME TypeOK, OneCallback, [Next]_vars
  PROVE  OneCallback'
  <1> USE DEF OneCallback, dbVars, svcVars, localVars, netVars, clientVars, histVars, deliveryVars
  <1>0. TypeCallback
    BY DEF TypeOK
  <1>1. ASSUME UNCHANGED pc PROVE OneCallback'
    BY <1>1
  <1>2. ASSUME NEW c \in Conns, NEW l, Goto(c, l), pc[c] # "idle" \/ LoopFree(c)
        PROVE  OneCallback'
    BY <1>0, <1>2 DEF Goto, LoopFree, TypeCallback
  <1>3. ASSUME NEW c \in Conns, Client(c) PROVE UNCHANGED pc
    BY <1>3 DEF Client, Connect, SendLogin, SendLogout, SendOneChat, SendGroupChat,
                SendAddGroup, Quit
  <1>4. ASSUME NEW c \in Conns, Login(c)
        PROVE  \/ UNCHANGED pc
               \/ \E l : Goto(c, l) /\ (pc[c] # "idle" \/ LoopFree(c))
    BY <1>4 DEF Login, LoginQuery, LoginRefuse, LoginReject, LoginEmplace,
                LoginSetOnline, LoginReadOffline, LoginClearOffline, LoginReply,
                Return, Handles, Ready
  <1>5. ASSUME NEW c \in Conns, Leave(c)
        PROVE  \/ UNCHANGED pc
               \/ \E l : Goto(c, l) /\ (pc[c] # "idle" \/ LoopFree(c))
    BY <1>5 DEF Leave, LogoutErase, LogoutUpdate, CloseErase, CloseUpdate, Return, Handles,
                Ready
  <1>6. ASSUME NEW c \in Conns, Chat(c) \/ RunPending(c)
        PROVE  \/ UNCHANGED pc
               \/ \E l : Goto(c, l) /\ (pc[c] # "idle" \/ LoopFree(c))
    BY <1>6 DEF Chat, OneChat, StoreOffline, GroupQuery, GroupLock, GroupEach, GroupUnlock,
                AddGroup, RunPending, Return, Handles, Ready
  <1>7. ASSUME Interrupt \/ Restart \/ UNCHANGED vars PROVE UNCHANGED pc
    BY <1>7 DEF Interrupt, Restart, vars
  <1>8. ASSUME Exit \/ Crash PROVE OneCallback'
    BY <1>8 DEF Exit, Crash, Down
  <1> HIDE DEF OneCallback
  <1> QED  BY <1>1, <1>2, <1>3, <1>4, <1>5, <1>6, <1>7, <1>8 DEF Next, Loop, Process

\* Whatever the step, no second logout joins the first.
LEMMA OneLogoutStep ==
  ASSUME ConnsInOrder, \A c \in Conns : OneLogout(c), [Next]_vars, NEW d \in Conns
  PROVE  OneLogout(d)'
  <1> USE DEF dbVars, svcVars, localVars, netVars, clientVars, histVars, deliveryVars
  <1>0. TypeNet /\ TakesTurns(d)
    BY DEF ConnsInOrder, TypeOK
  <1>1. ASSUME req'[d] = req[d] PROVE OneLogout(d)'
    BY <1>1 DEF OneLogout
  <1>2. ASSUME req'[d] = <<>> PROVE OneLogout(d)'
    BY <1>2 DEF OneLogout
  <1>3. ASSUME NEW c \in Conns, NEW r, Send(c, r), r.type # "LOGINOUT_MSG"
        PROVE  OneLogout(d)'
    BY <1>0, <1>3, SendAppends DEF OneLogout
  <1>4. ASSUME NEW c \in Conns, SendLogout(c) PROVE OneLogout(d)'
    <2>1. PICK r : Send(c, r)
      BY <1>4 DEF SendLogout
    <2>2. CASE d # c
      BY <1>0, <1>1, <2>1, <2>2 DEF Send, TypeNet
    <2>3. CASE d = c
      <3>1. \A i \in DOMAIN req[c] : req[c][i].type # "LOGINOUT_MSG"
        BY <1>0, <1>4, <2>3 DEF SendLogout, TakesTurns
      <3>2. \A i \in DOMAIN req'[c] : req'[c][i].type = "LOGINOUT_MSG" => i = Len(req[c]) + 1
        BY <1>0, <2>1, <3>1, SendAppends
      <3> QED  BY <2>3, <3>2 DEF OneLogout
    <2> QED  BY <2>2, <2>3
  <1>5. ASSUME NEW c \in Conns, NEW type, Handles(c, type), Consume(c) PROVE OneLogout(d)'
    <2>1. CASE d # c
      BY <1>0, <1>1, <1>5, <2>1 DEF Consume, TypeNet
    <2>2. CASE d = c
      <3>1. PICK k \in 1 .. Len(req[c]) :
              /\ DOMAIN req'[c] = 1 .. (Len(req[c]) - k)
              /\ \A i \in DOMAIN req'[c] : i + k \in DOMAIN req[c] /\ req'[c][i] = req[c][i + k]
        BY <1>0, <1>5, ConsumeTakes
      <3>2. \A i \in DOMAIN req'[c] : i \in Nat
        BY <3>1
      <3>3. ASSUME NEW i \in DOMAIN req'[c], NEW j \in DOMAIN req'[c],
                   req'[c][i].type = "LOGINOUT_MSG", req'[c][j].type = "LOGINOUT_MSG"
            PROVE  i = j
        <4>1. i + k = j + k
          BY <3>1, <3>3 DEF OneLogout
        <4> QED  BY <3>2, <4>1
      <3> QED  BY <2>2, <3>3 DEF OneLogout
    <2> QED  BY <2>1, <2>2
  <1>6. ASSUME NEW c \in Conns, NEW u \in Users, NEW ok \in BOOLEAN, SendLogin(c, u, ok)
        PROVE  OneLogout(d)'
    <2>1. PICK r : Send(c, r) /\ r.type = "LOGIN_MSG"
      BY <1>6 DEF SendLogin
    <2> QED  BY <1>3, <2>1
  <1>7. ASSUME NEW c \in Conns,
               \/ \E u \in Users : SendOneChat(c, u)
               \/ \E g \in Groups : SendGroupChat(c, g) \/ SendAddGroup(c, g)
        PROVE  OneLogout(d)'
    BY <1>3, <1>7, CommandsSend
  <1>8. ASSUME NEW c \in Conns, Connect(c) PROVE UNCHANGED req
    BY <1>8 DEF Connect
  <1>9. ASSUME NEW c \in Conns, Quit(c) PROVE req'[d] = req[d] \/ req'[d] = <<>>
    BY <1>0, <1>9 DEF Quit, TypeNet
  <1>10. ASSUME NEW c \in Conns,
                \/ LoginQuery(c) \/ LoginRefuse(c) \/ LogoutErase(c)
                \/ OneChat(c) \/ GroupQuery(c) \/ AddGroup(c)
         PROVE  \E type : Handles(c, type) /\ Consume(c)
    BY <1>10 DEF LoginQuery, LoginRefuse, LogoutErase, OneChat, GroupQuery, AddGroup
  <1>11. ASSUME NEW c \in Conns,
                \/ LoginReject(c) \/ LoginEmplace(c) \/ LoginSetOnline(c)
                \/ LoginReadOffline(c) \/ LoginClearOffline(c) \/ LoginReply(c)
                \/ LogoutUpdate(c) \/ CloseErase(c) \/ CloseUpdate(c)
         PROVE  UNCHANGED req
    BY <1>11 DEF LoginReject, LoginEmplace, LoginSetOnline, LoginReadOffline,
                 LoginClearOffline, LoginReply, LogoutUpdate, CloseErase, CloseUpdate
  <1>12. ASSUME NEW c \in Conns,
                \/ StoreOffline(c) \/ GroupLock(c) \/ (\E u \in Users : GroupEach(c, u))
                \/ GroupUnlock(c) \/ RunPending(c)
         PROVE  UNCHANGED req
    BY <1>12 DEF StoreOffline, GroupLock, GroupEach, GroupUnlock, RunPending
  <1>13. ASSUME Interrupt \/ Restart \/ UNCHANGED vars PROVE UNCHANGED req
    BY <1>13 DEF Interrupt, Restart, vars
  <1>14. ASSUME Exit \/ Crash PROVE req'[d] = <<>>
    BY <1>14 DEF Exit, Crash, Down
  <1> QED
    BY <1>1, <1>2, <1>4, <1>5, <1>6, <1>7, <1>8, <1>9, <1>10, <1>11, <1>12, <1>13, <1>14
    DEF Next, Client, Loop, Login, Leave, Chat, Process

\* Nobody comes to hold a session but by emplace.
LEMMA HoldsStep ==
  ASSUME ConnsInOrder, [Next]_vars, NEW d \in Conns, NEW u \in Users, Holds(d, u)'
  PROVE  Holds(d, u) \/ (LoginEmplace(d) /\ hUser[d] = u)
  <1> USE DEF dbVars, svcVars, localVars, netVars, clientVars, histVars, deliveryVars
  <1>0. TypeNet /\ TypeClient /\ TypeCallback /\ u # NoUser
    BY ConstantsAssumption DEF ConnsInOrder, TypeOK, ConstantsAssumption
  <1>1. ASSUME client'[d] = client[d], account'[d] = account[d],
               LogoutWaits(d, u)' => LogoutWaits(d, u),
               pc'[d] \in HoldingPCs => pc[d] \in HoldingPCs /\ hUser'[d] = hUser[d]
        PROVE  Holds(d, u)
    BY <1>1 DEF Holds
  <1>2. ASSUME client'[d] = client[d], account'[d] = account[d],
               UNCHANGED req, pc'[d] \in HoldingPCs => pc[d] \in HoldingPCs /\ hUser'[d] = hUser[d]
        PROVE  Holds(d, u)
    BY <1>1, <1>2, RequestsSame
  <1>3. ASSUME NEW c \in Conns, NEW r, Send(c, r), r.type # "LOGINOUT_MSG",
               UNCHANGED <<pc, hUser>>, client'[d] \in {client[d], "waiting"}, UNCHANGED account
        PROVE  Holds(d, u)
    BY <1>0, <1>3, RequestSent DEF Holds
  <1>4. ASSUME NEW c \in Conns, NEW type, Handles(c, type), Consume(c),
               client'[d] = client[d], account'[d] = account[d],
               pc'[d] \in HoldingPCs => pc[d] \in HoldingPCs /\ hUser'[d] = hUser[d]
        PROVE  Holds(d, u)
    BY <1>0, <1>1, <1>4, RequestHandled
  <1>5. ASSUME NEW c \in Conns, Connect(c) PROVE Holds(d, u)
    <2>1. LogoutWaits(d, u)' = LogoutWaits(d, u)
      BY <1>5, RequestsSame DEF Connect
    <2> QED  BY <1>0, <1>5, <2>1 DEF Connect, Holds, TypeClient
  <1>6. ASSUME NEW c \in Conns, NEW v \in Users, NEW ok \in BOOLEAN, SendLogin(c, v, ok)
        PROVE  Holds(d, u)
    <2>1. PICK r : Send(c, r) /\ r.type = "LOGIN_MSG"
      BY <1>6 DEF SendLogin
    <2>2. client'[d] \in {client[d], "waiting"} /\ UNCHANGED <<pc, hUser, account>>
      BY <1>0, <1>6 DEF SendLogin, TypeClient
    <2> QED  BY <1>3, <2>1, <2>2
  <1>7. ASSUME NEW c \in Conns, SendLogout(c) PROVE Holds(d, u)
    <2>1. PICK r : Send(c, r) /\ r.type = "LOGINOUT_MSG" /\ r.user = account[c]
      BY <1>7 DEF SendLogout
    <2>2. LogoutWaits(d, u)' => LogoutWaits(d, u) \/ (d = c /\ account[c] = u)
      BY <1>0, <2>1, RequestSent
    <2> QED  BY <1>0, <1>7, <2>2 DEF SendLogout, Holds, TypeClient
  <1>8. ASSUME NEW c \in Conns,
               \/ \E v \in Users : SendOneChat(c, v)
               \/ \E g \in Groups : SendGroupChat(c, g) \/ SendAddGroup(c, g)
        PROVE  Holds(d, u)
    <2>1. PICK r : Send(c, r) /\ r.type # "LOGINOUT_MSG"
      BY <1>8, CommandsSend
    <2>2. UNCHANGED <<pc, hUser, client, account>>
      BY <1>8 DEF SendOneChat, SendGroupChat, SendAddGroup
    <2> QED  BY <1>3, <2>1, <2>2
  <1>9. ASSUME NEW c \in Conns, Quit(c) PROVE Holds(d, u)
    <2>1. LogoutWaits(d, u)' => LogoutWaits(d, u)
      <3>1. req'[d] = req[d] \/ req'[d] = <<>>
        BY <1>0, <1>9 DEF Quit, TypeNet
      <3> QED  BY <3>1 DEF LogoutWaits
    <2> QED  BY <1>0, <1>9, <2>1 DEF Quit, Holds, TypeClient
  <1>10. ASSUME NEW c \in Conns, LoginQuery(c) PROVE Holds(d, u)
    <2>1. Handles(c, "LOGIN_MSG") /\ Consume(c) /\ UNCHANGED <<client, account>>
      BY <1>10 DEF LoginQuery
    <2>2. pc'[d] \in HoldingPCs => pc[d] \in HoldingPCs /\ hUser'[d] = hUser[d]
      BY <1>0, <1>10 DEF LoginQuery, Goto, HoldingPCs, TypeCallback
    <2> QED  BY <1>4, <2>1, <2>2
  <1>11. ASSUME NEW c \in Conns, LoginRefuse(c) PROVE Holds(d, u)
    <2>1. /\ Handles(c, "LOGIN_MSG") /\ Consume(c) /\ UNCHANGED <<pc, hUser>>
          /\ Answer(c, "menu", NoUser)
      BY <1>11 DEF LoginRefuse
    <2>2. \/ client'[d] = client[d] /\ account'[d] = account[d]
          \/ client'[d] = "menu"
      BY <1>0, <2>1 DEF Answer, TypeClient
    <2>3. LogoutWaits(d, u)' => LogoutWaits(d, u)
      BY <1>0, <2>1, RequestHandled
    <2> QED  BY <2>1, <2>2, <2>3 DEF Holds
  <1>12. ASSUME NEW c \in Conns, LoginReject(c) PROVE Holds(d, u)
    <2>1. \/ client'[d] = client[d] /\ account'[d] = account[d]
          \/ client'[d] = "menu"
      BY <1>0, <1>12 DEF LoginReject, Answer, TypeClient
    <2>2. LogoutWaits(d, u)' = LogoutWaits(d, u)
      BY <1>12, RequestsSame DEF LoginReject
    <2>3. pc'[d] \in HoldingPCs => pc[d] \in HoldingPCs /\ hUser'[d] = hUser[d]
      BY <1>0, <1>12 DEF LoginReject, Return, Goto, HoldingPCs, TypeCallback
    <2> QED  BY <2>1, <2>2, <2>3 DEF Holds
  <1>13. ASSUME NEW c \in Conns, LoginEmplace(c)
         PROVE  Holds(d, u) \/ (LoginEmplace(d) /\ hUser[d] = u)
    <2>1. UNCHANGED <<client, account, hUser, req>> /\ Goto(c, "setOnline")
      BY <1>13 DEF LoginEmplace
    <2>2. LogoutWaits(d, u)' = LogoutWaits(d, u)
      BY <2>1, RequestsSame
    <2>3. d # c => pc'[d] = pc[d]
      BY <1>0, <2>1 DEF Goto, TypeCallback
    <2> QED  BY <1>13, <2>1, <2>2, <2>3 DEF Holds
  <1>14. ASSUME NEW c \in Conns, LoginSetOnline(c) \/ LoginReadOffline(c) \/ LoginClearOffline(c)
         PROVE  Holds(d, u)
    <2>1. UNCHANGED <<client, account, hUser, req>>
      BY <1>14 DEF LoginSetOnline, LoginReadOffline, LoginClearOffline
    <2>2. pc'[d] \in HoldingPCs => pc[d] \in HoldingPCs
      BY <1>0, <1>14
      DEF LoginSetOnline, LoginReadOffline, LoginClearOffline, Goto, HoldingPCs, TypeCallback
    <2> QED  BY <1>2, <2>1, <2>2
  <1>15. ASSUME NEW c \in Conns, LoginReply(c) PROVE Holds(d, u)
    <2>1. /\ pc[c] = "reply" /\ Return(c) /\ UNCHANGED req
          /\ Answer(c, "chatting", hUser[c])
      BY <1>15 DEF LoginReply
    <2>2. \/ client'[d] = client[d] /\ account'[d] = account[d]
          \/ d = c /\ account'[d] = hUser[c]
      BY <1>0, <2>1 DEF Answer, TypeClient
    <2>3. pc'[d] \in HoldingPCs => pc[d] \in HoldingPCs /\ hUser'[d] = hUser[d]
      BY <1>0, <2>1 DEF Return, Goto, HoldingPCs, TypeCallback
    <2>4. LogoutWaits(d, u)' = LogoutWaits(d, u)
      BY <2>1, RequestsSame
    <2> QED  BY <2>1, <2>2, <2>3, <2>4 DEF Holds, HoldingPCs
  <1>16. ASSUME NEW c \in Conns, LogoutErase(c) PROVE Holds(d, u)
    <2>1. Handles(c, "LOGINOUT_MSG") /\ Consume(c) /\ UNCHANGED <<client, account>>
      BY <1>16 DEF LogoutErase
    <2>2. pc'[d] \in HoldingPCs => pc[d] \in HoldingPCs /\ hUser'[d] = hUser[d]
      BY <1>0, <1>16 DEF LogoutErase, Goto, HoldingPCs, TypeCallback
    <2> QED  BY <1>4, <2>1, <2>2
  <1>17. ASSUME NEW c \in Conns, LogoutUpdate(c) \/ CloseUpdate(c) PROVE Holds(d, u)
    <2>1. UNCHANGED <<client, account, req>>
      BY <1>17 DEF LogoutUpdate, CloseUpdate
    <2>2. pc'[d] \in HoldingPCs => pc[d] \in HoldingPCs /\ hUser'[d] = hUser[d]
      BY <1>0, <1>17 DEF LogoutUpdate, CloseUpdate, Return, Goto, HoldingPCs, TypeCallback
    <2> QED  BY <1>2, <2>1, <2>2
  <1>18. ASSUME NEW c \in Conns, CloseErase(c) PROVE Holds(d, u)
    <2>1. UNCHANGED <<client, account, req>>
      BY <1>18 DEF CloseErase
    <2>2. pc'[d] \in HoldingPCs => pc[d] \in HoldingPCs /\ hUser'[d] = hUser[d]
      <3>1. \/ UNCHANGED <<pc, hUser>>
            \/ Goto(c, "closeUpdate") /\ \E v : hUser' = [hUser EXCEPT ![c] = v]
        BY <1>18 DEF CloseErase
      <3> QED  BY <1>0, <3>1 DEF Goto, HoldingPCs, TypeCallback
    <2> QED  BY <1>2, <2>1, <2>2
  <1>19. ASSUME NEW c \in Conns, OneChat(c) \/ GroupQuery(c) \/ AddGroup(c) PROVE Holds(d, u)
    <2>1. UNCHANGED <<client, account>> /\ \E type : Handles(c, type) /\ Consume(c)
      BY <1>19 DEF OneChat, GroupQuery, AddGroup
    <2>2. \/ UNCHANGED <<pc, hUser>>
          \/ /\ Goto(c, "storeOffline") \/ Goto(c, "groupLock")
             /\ \E v : hUser' = [hUser EXCEPT ![c] = v]
      <3>1. UNCHANGED hUser => hUser' = [hUser EXCEPT ![c] = hUser[c]]
        BY <1>0 DEF TypeCallback
      <3> QED  BY <1>19, <3>1 DEF OneChat, GroupQuery, AddGroup
    <2>3. pc'[d] \in HoldingPCs => pc[d] \in HoldingPCs /\ hUser'[d] = hUser[d]
      BY <1>0, <2>2 DEF Goto, HoldingPCs, TypeCallback
    <2> QED  BY <1>4, <2>1, <2>3
  <1>20. ASSUME NEW c \in Conns,
                \/ StoreOffline(c) \/ GroupLock(c) \/ (\E v \in Users : GroupEach(c, v))
                \/ GroupUnlock(c) \/ RunPending(c)
         PROVE  Holds(d, u)
    <2>1. UNCHANGED <<client, account, req>>
      BY <1>20 DEF StoreOffline, GroupLock, GroupEach, GroupUnlock, RunPending
    <2>2. \/ UNCHANGED <<pc, hUser>>
          \/ Goto(c, "groupLoop") /\ UNCHANGED hUser
          \/ Return(c)
      BY <1>20 DEF StoreOffline, GroupLock, GroupEach, GroupUnlock, RunPending
    <2>3. pc'[d] \in HoldingPCs => pc[d] \in HoldingPCs /\ hUser'[d] = hUser[d]
      BY <1>0, <2>2 DEF Return, Goto, HoldingPCs, TypeCallback
    <2> QED  BY <1>2, <2>1, <2>3
  <1>21. ASSUME Interrupt \/ Restart \/ UNCHANGED vars PROVE Holds(d, u)
    <2>1. UNCHANGED <<client, account, req, pc, hUser>>
      BY <1>21 DEF Interrupt, Restart, vars
    <2> QED  BY <1>2, <2>1
  <1>22. ~Exit /\ ~Crash
    BY DEF Exit, Crash, Down, Holds, LogoutWaits, HoldingPCs
  <1> QED
    BY <1>5, <1>6, <1>7, <1>8, <1>9, <1>10, <1>11, <1>12, <1>13, <1>14, <1>15, <1>16,
       <1>17, <1>18, <1>19, <1>20, <1>21, <1>22
    DEF Next, Client, Loop, Login, Leave, Chat, Process

\* The account of the login or logout that c handles is one of its client's.
LEMMA HeadIsOwn ==
  ASSUME TypeNet, NEW c \in Conns, ActsForItself(c),
         NEW type \in {"LOGIN_MSG", "LOGINOUT_MSG"}, Handles(c, type)
  PROVE  Head(req[c]).user \in AccountsOf[c] /\ Head(req[c]).user \in Users
  <1>1. req[c] # <<>> /\ req[c] \in Seq(Request) /\ Head(req[c]).type = type
    BY DEF Handles, TypeNet
  <1>2. 1 \in DOMAIN req[c] /\ Head(req[c]) = req[c][1]
    BY <1>1
  <1> QED  BY <1>1, <1>2, ConstantsAssumption DEF ActsForItself, ConstantsAssumption

\* What a step leaves alone that neither checks nor writes a session.
LEMMA SessionsQuietly ==
  ASSUME SessionsAt, UNCHANGED <<state, userConn>>,
         \A d \in Conns, u \in Users : Holds(d, u)' => Holds(d, u),
         \A d \in Conns :
            \/ pc'[d] = pc[d] /\ hUser'[d] = hUser[d]
            \/ pc[d] # "setOnline" /\ pc'[d] \notin {"emplace", "setOnline", "reject"} \cup ErasedPCs
  PROVE  SessionsAt'
  <1>1. OfflineHasNoEntry'
    BY DEF SessionsAt, OfflineHasNoEntry
  <1>2. ASSUME NEW d \in Conns PROVE HoldersHaveEntry(d)' /\ StillSo(d)'
    BY DEF SessionsAt, HoldersHaveEntry, StillSo
  <1> QED  BY <1>1, <1>2 DEF SessionsAt

\* Before the first statement has failed, every step keeps the sessions exclusive.
LEMMA SessionsAtStep ==
  ASSUME SharersShareLoop, ~MayInterrupt, ConnsInOrder, SessionsExclusive, SessionsAt,
         [Next]_vars, faults' = 0
  PROVE  SessionsAt'
  <1> USE DEF dbVars, svcVars, localVars, netVars, clientVars, histVars, deliveryVars
  <1>0. TypeNet /\ TypeClient /\ TypeCallback /\ TypeService /\ TypeDb
    BY DEF ConnsInOrder, TypeOK
  <1>a. OfflineHasNoEntry /\ \A d \in Conns : HoldersHaveEntry(d) /\ StillSo(d)
    BY DEF SessionsAt
  <1>b. ~Interrupt /\ ~Exit
    BY DEF SessionsExclusive, Interrupt, Exit
  <1>c. \A d \in Conns : ActsForItself(d) /\ TakesTurns(d) /\ OneLogout(d)
    BY DEF ConnsInOrder, SessionsExclusive
  <1>d. \A d \in Conns : d # NoConn /\ \A u \in AccountsOf[d] : u \in Users
    BY ConstantsAssumption DEF ConstantsAssumption
  <1>e. \A c, d \in Conns : \A u \in AccountsOf[c] :
          pc[c] # "idle" /\ pc[d] # "idle" /\ u \in AccountsOf[d] => c = d
    BY DEF SessionsExclusive, OneCallback, SharersShareLoop
  <1>f. \A c, d \in Conns : \A u \in AccountsOf[c] :
          LoopFree(c) /\ u \in AccountsOf[d] => pc[d] = "idle"
    BY DEF LoopFree, SharersShareLoop
  <1>g. \A d \in Conns : pc[d] \in LoginPCs \cup ErasedPCs =>
          hUser[d] \in AccountsOf[d] /\ hUser[d] \in Users
    BY <1>a, <1>c, <1>d DEF ActsForItself, StillSo, ErasedPCs
  <1>h. \A d \in Conns, u \in Users : Holds(d, u)' =>
          Holds(d, u) \/ (pc[d] = "emplace" /\ pc'[d] = "setOnline" /\ hUser[d] = u)
    BY <1>0, HoldsStep DEF LoginEmplace, Goto, TypeCallback
  <1>i. \A d \in Conns, u \in Users :
          pc[d] \in LoginPCs \ HoldingPCs \/ (client[d] # "chatting" /\ pc[d] \notin HoldingPCs /\ req[d] = <<>>)
             => ~Holds(d, u)
    <2>1. ASSUME NEW d \in Conns PROVE WaitsInTurn(d)
      BY <1>0, <1>c, <2>1, WhatWaits
    <2> QED  BY <2>1 DEF WaitsInTurn, Holds
  <1>1. ASSUME NEW c \in Conns, LoginQuery(c) PROVE SessionsAt'
    <2> DEFINE u == Head(req[c]).user
    <2>1. /\ UNCHANGED <<state, userConn>>
          /\ pc[c] = "idle"
          /\ pc' = [pc EXCEPT ![c] = IF state[u] = "online" THEN "reject" ELSE "emplace"]
          /\ hUser' = [hUser EXCEPT ![c] = u]
          /\ Handles(c, "LOGIN_MSG")
      BY <1>1 DEF LoginQuery, Goto, Handles, Ready, LoopFree
    <2>2. u \in AccountsOf[c] /\ u \in Users
      BY <1>0, <1>c, <2>1, HeadIsOwn
    <2>3. state[u] \in {"online", "offline"}
      BY <1>0, <2>2 DEF TypeDb
    <2> HIDE DEF u
    <2>4. \A d \in Conns : /\ pc'[d] = IF d # c THEN pc[d]
                                     ELSE IF state[u] = "online" THEN "reject" ELSE "emplace"
                         /\ hUser'[d] = IF d # c THEN hUser[d] ELSE u
      BY <1>0, <2>1 DEF TypeCallback
    <2>5. OfflineHasNoEntry'
      BY <1>a, <2>1, <2>4 DEF OfflineHasNoEntry
    <2>6. ASSUME NEW d \in Conns PROVE HoldersHaveEntry(d)' /\ StillSo(d)'
      BY <1>a, <1>h, <2>1, <2>3, <2>4 DEF HoldersHaveEntry, StillSo, ErasedPCs
    <2> QED  BY <2>5, <2>6 DEF SessionsAt
  <1>2. ASSUME NEW c \in Conns, LoginReject(c) PROVE SessionsAt'
    <2> DEFINE u == hUser[c]
    <2>1. /\ UNCHANGED state
          /\ pc[c] = "reject"
          /\ pc' = [pc EXCEPT ![c] = "idle"]
          /\ hUser' = [hUser EXCEPT ![c] = NoUser]
          /\ userConn' = EmplaceConn(userConn, u, c)
      BY <1>2 DEF LoginReject, Return, Goto
    <2>2. u \in AccountsOf[c] /\ u \in Users /\ state[u] = "online"
      BY <1>a, <1>g, <2>1 DEF LoginPCs, StillSo
    <2> HIDE DEF u
    <2>3. \A d \in Conns : /\ pc'[d] = IF d = c THEN "idle" ELSE pc[d]
                           /\ d # c => hUser'[d] = hUser[d]
      BY <1>0, <2>1 DEF TypeCallback
    <2>4. \A v \in Users : userConn'[v] = IF v = u /\ userConn[v] = NoConn THEN c ELSE userConn[v]
      BY <1>0, <2>1 DEF TypeService, EmplaceConn
    <2>5. OfflineHasNoEntry'
      BY <1>a, <2>1, <2>2, <2>3, <2>4 DEF OfflineHasNoEntry
    <2>6. ASSUME NEW d \in Conns PROVE HoldersHaveEntry(d)'
      BY <1>a, <1>d, <1>h, <2>1, <2>3, <2>4 DEF HoldersHaveEntry
    <2>7. ASSUME NEW d \in Conns PROVE StillSo(d)'
      <3>1. ASSUME d # c, pc[d] \in ErasedPCs PROVE hUser[d] # u /\ hUser[d] \in Users
        <4>1. pc[c] # "idle" /\ pc[d] # "idle"
          BY <2>1, <3>1 DEF ErasedPCs
        <4>2. hUser[d] \in AccountsOf[d] /\ hUser[d] \in Users
          BY <1>g, <3>1
        <4> QED  BY <1>e, <2>2, <3>1, <4>1, <4>2
      <3>2. StillSo(d) /\ state' = state
        BY <1>a, <2>1
      <3>3. CASE d = c
        BY <2>3, <3>3 DEF StillSo, ErasedPCs
      <3>4. CASE d # c
        BY <2>3, <2>4, <3>1, <3>2, <3>4 DEF StillSo
      <3> QED  BY <3>3, <3>4
    <2> QED  BY <2>5, <2>6, <2>7 DEF SessionsAt
  <1>3. ASSUME NEW c \in Conns, LoginEmplace(c) PROVE SessionsAt'
    <2> DEFINE u == hUser[c]
    <2>1. /\ UNCHANGED <<state, hUser>>
          /\ pc[c] = "emplace"
          /\ pc' = [pc EXCEPT ![c] = "setOnline"]
          /\ userConn' = EmplaceConn(userConn, u, c)
      BY <1>3 DEF LoginEmplace, Goto
    <2>2. u \in AccountsOf[c] /\ u \in Users /\ state[u] = "offline"
      BY <1>a, <1>g, <2>1 DEF LoginPCs, StillSo
    <2>3. userConn[u] = NoConn
      <3>1. ASSUME NEW d \in Conns, pc[d] = "setOnline", hUser[d] = u PROVE FALSE
        BY <1>e, <1>g, <2>1, <2>2, <3>1 DEF LoginPCs
      <3> QED  BY <1>a, <2>2, <3>1 DEF OfflineHasNoEntry
    <2> HIDE DEF u
    <2>4. \A d \in Conns : pc'[d] = IF d = c THEN "setOnline" ELSE pc[d]
      BY <1>0, <2>1 DEF TypeCallback
    <2>5. \A v \in Users : userConn'[v] = IF v = u THEN c ELSE userConn[v]
      BY <1>0, <2>1, <2>3 DEF TypeService, EmplaceConn
    <2>6. OfflineHasNoEntry'
      <3>1. hUser'[c] = u
        BY <2>1 DEF u
      <3> QED  BY <1>a, <2>1, <2>4, <2>5, <3>1 DEF OfflineHasNoEntry
    <2>7. ASSUME NEW d \in Conns PROVE HoldersHaveEntry(d)'
      <3>1. u = hUser[c]
        BY DEF u
      <3> QED  BY <1>a, <1>d, <1>h, <1>i, <2>1, <2>3, <2>4, <2>5, <3>1
               DEF HoldersHaveEntry, LoginPCs, HoldingPCs
    <2>8. ASSUME NEW d \in Conns PROVE StillSo(d)'
      BY <1>a, <1>e, <1>g, <2>1, <2>2, <2>4, <2>5 DEF StillSo, ErasedPCs
    <2> QED  BY <2>6, <2>7, <2>8 DEF SessionsAt
  <1>4. ASSUME NEW c \in Conns, LoginSetOnline(c) PROVE SessionsAt'
    <2> DEFINE u == hUser[c]
    <2>1. /\ UNCHANGED <<userConn, hUser>>
          /\ pc[c] = "setOnline"
          /\ pc' = [pc EXCEPT ![c] = "readOffline"]
          /\ state' = [state EXCEPT ![u] = "online"]
      BY <1>0, <1>4, DbCallWorks DEF LoginSetOnline, Goto, UpdateState, TypeDb
    <2>2. u \in AccountsOf[c] /\ u \in Users
      BY <1>g, <2>1 DEF LoginPCs
    <2>3. u = hUser[c]
      OBVIOUS
    <2> HIDE DEF u
    <2>4. \A d \in Conns : pc'[d] = IF d = c THEN "readOffline" ELSE pc[d]
      BY <1>0, <2>1 DEF TypeCallback
    <2>5. \A v \in Users : state'[v] = IF v = u THEN "online" ELSE state[v]
      BY <1>0, <2>1 DEF TypeDb
    <2>6. OfflineHasNoEntry'
      BY <1>a, <2>1, <2>3, <2>4, <2>5 DEF OfflineHasNoEntry
    <2>7. ASSUME NEW v \in Users, Holds(c, v) PROVE v = u
      <3>1. WaitsInTurn(c)
        BY <1>0, <1>c, WhatWaits
      <3> QED  BY <2>1, <2>3, <2>7, <3>1 DEF Holds, WaitsInTurn, LoginPCs
    <2>8. ASSUME NEW d \in Conns PROVE HoldersHaveEntry(d)'
      BY <1>a, <1>h, <2>1, <2>4, <2>5, <2>7 DEF HoldersHaveEntry
    <2>9. ASSUME NEW d \in Conns PROVE StillSo(d)'
      BY <1>a, <1>e, <1>g, <2>1, <2>2, <2>4, <2>5 DEF StillSo, ErasedPCs, LoginPCs
    <2> QED  BY <2>6, <2>8, <2>9 DEF SessionsAt
  <1>5. ASSUME NEW c \in Conns, LogoutErase(c) PROVE SessionsAt'
    <2>0. PICK u \in AccountsOf[c] : u = Head(req[c]).user
      BY <1>0, <1>c, <1>5, HeadIsOwn DEF LogoutErase
    <2>1. /\ UNCHANGED <<state, client>>
          /\ Handles(c, "LOGINOUT_MSG") /\ Consume(c) /\ LoopFree(c)
          /\ pc[c] = "idle"
          /\ pc' = [pc EXCEPT ![c] = "logoutUpdate"]
          /\ hUser' = [hUser EXCEPT ![c] = u]
          /\ userConn' = [userConn EXCEPT ![u] = NoConn]
      BY <1>5, <2>0 DEF LogoutErase, Goto, EraseConn, Handles, Ready, LoopFree
    <2>2. u \in AccountsOf[c] /\ u \in Users
      BY <1>d
    <2>3. LogoutWaits(c, u)
      BY <1>0, <2>0, <2>1, RequestHandled
    <2>4. userConn[u] = c
      BY <1>a, <2>2, <2>3 DEF HoldersHaveEntry, Holds
    <2>5. ~LogoutWaits(c, u)'
      <3>1. req[c] # <<>> /\ req[c] \in Seq(Request) /\ Head(req[c]).type = "LOGINOUT_MSG"
        BY <1>0, <2>1 DEF Handles, TypeNet
      <3>2. 1 \in DOMAIN req[c] /\ req[c][1].type = "LOGINOUT_MSG"
        BY <3>1
      <3>3. PICK k \in 1 .. Len(req[c]) :
              /\ DOMAIN req'[c] = 1 .. (Len(req[c]) - k)
              /\ \A i \in DOMAIN req'[c] : i + k \in DOMAIN req[c] /\ req'[c][i] = req[c][i + k]
        BY <1>0, <2>1, ConsumeTakes
      <3>4. ASSUME NEW i \in DOMAIN req'[c], req'[c][i].type = "LOGINOUT_MSG" PROVE FALSE
        <4>1. i + k \in DOMAIN req[c] /\ req'[c][i] = req[c][i + k]
          BY <3>3, <3>4
        <4>2. i + k = 1
          BY <1>c, <3>2, <3>4, <4>1 DEF OneLogout
        <4>3. i \in Nat /\ i > 0 /\ k \in Nat /\ k > 0
          BY <1>0, <3>3, <3>4 DEF TypeNet
        <4> QED  BY <4>2, <4>3
      <3> QED  BY <3>4 DEF LogoutWaits
    <2>6. ~Holds(c, u)'
      <3>1. client'[c] # "chatting"
        BY <1>0, <1>c, <2>1, <2>2, <2>3, WhatWaits DEF WaitsInTurn
      <3>2. pc'[c] = "logoutUpdate"
        BY <1>0, <2>1 DEF TypeCallback
      <3> QED  BY <2>5, <3>1, <3>2 DEF Holds, HoldingPCs
    <2>7. \A d \in Conns : /\ pc'[d] = IF d = c THEN "logoutUpdate" ELSE pc[d]
                           /\ hUser'[d] = IF d = c THEN u ELSE hUser[d]
      BY <1>0, <2>1 DEF TypeCallback
    <2>8. \A v \in Users : userConn'[v] = IF v = u THEN NoConn ELSE userConn[v]
      BY <1>0, <2>1 DEF TypeService
    <2>h. \A d \in Conns, v \in Users : Holds(d, v)' => Holds(d, v)
      BY <1>h, <2>7
    <2>9. OfflineHasNoEntry'
      BY <1>a, <2>1, <2>7, <2>8 DEF OfflineHasNoEntry
    <2>10. ASSUME NEW d \in Conns PROVE HoldersHaveEntry(d)'
      BY <1>a, <2>1, <2>4, <2>6, <2>7, <2>8, <2>h DEF HoldersHaveEntry
    <2>11. ASSUME NEW d \in Conns PROVE StillSo(d)'
      BY <1>a, <1>f, <2>1, <2>2, <2>7, <2>8 DEF StillSo, ErasedPCs
    <2> QED  BY <2>9, <2>10, <2>11 DEF SessionsAt
  <1>6. ASSUME NEW c \in Conns, CloseErase(c) PROVE SessionsAt'
    <2>1. /\ UNCHANGED <<state, client, req>>
          /\ pc[c] = "idle" /\ client[c] = "gone" /\ req[c] = <<>>
          /\ LoopFree(c)
      BY <1>6 DEF CloseErase, Ready, LoopFree
    <2>2. \A u \in Users : ~Holds(c, u)
      BY <1>i, <2>1 DEF HoldingPCs
    <2>3. CASE EntriesOf(userConn, c) = {}
      <3>1. UNCHANGED <<userConn, pc, hUser>>
        BY <1>6, <2>3 DEF CloseErase
      <3> QED  BY <1>h, <2>1, <3>1, SessionsQuietly
    <2>4. CASE EntriesOf(userConn, c) # {}
      <3>1. PICK u \in EntriesOf(userConn, c) :
              /\ userConn' = [userConn EXCEPT ![u] = NoConn]
              /\ pc' = [pc EXCEPT ![c] = "closeUpdate"]
              /\ hUser' = [hUser EXCEPT ![c] = u]
        BY <1>6, <2>4 DEF CloseErase, Goto, EraseConn
      <3>2. u \in Users /\ userConn[u] = c /\ u \in AccountsOf[c]
        BY <1>0, <1>c, <3>1 DEF EntriesOf, TypeService, ActsForItself
      <3>3. \A d \in Conns : /\ pc'[d] = IF d = c THEN "closeUpdate" ELSE pc[d]
                             /\ hUser'[d] = IF d = c THEN u ELSE hUser[d]
        BY <1>0, <3>1 DEF TypeCallback
      <3>4. \A v \in Users : userConn'[v] = IF v = u THEN NoConn ELSE userConn[v]
        BY <1>0, <3>1 DEF TypeService
      <3>5. OfflineHasNoEntry'
        BY <1>a, <2>1, <3>3, <3>4 DEF OfflineHasNoEntry
      <3>6. ASSUME NEW d \in Conns PROVE HoldersHaveEntry(d)'
        BY <1>a, <1>h, <2>1, <2>2, <3>2, <3>3, <3>4 DEF HoldersHaveEntry
      <3>7. ASSUME NEW d \in Conns PROVE StillSo(d)'
        BY <1>a, <1>g, <2>1, <3>2, <3>3, <3>4 DEF StillSo, ErasedPCs
      <3> QED  BY <3>5, <3>6, <3>7 DEF SessionsAt
    <2> QED  BY <2>3, <2>4
  <1>7. ASSUME NEW c \in Conns, LogoutUpdate(c) \/ CloseUpdate(c) PROVE SessionsAt'
    <2> DEFINE u == hUser[c]
    <2>1. /\ UNCHANGED userConn
          /\ pc[c] \in ErasedPCs
          /\ pc' = [pc EXCEPT ![c] = "idle"]
          /\ hUser' = [hUser EXCEPT ![c] = NoUser]
          /\ state' = [state EXCEPT ![u] = "offline"]
      BY <1>0, <1>7, DbCallWorks
      DEF LogoutUpdate, CloseUpdate, Return, Goto, UpdateState, TypeDb, ErasedPCs
    <2>2. u \in AccountsOf[c] /\ u \in Users /\ userConn[u] = NoConn
      BY <1>a, <1>g, <2>1 DEF StillSo
    <2> HIDE DEF u
    <2>3. \A d \in Conns : /\ pc'[d] = IF d = c THEN "idle" ELSE pc[d]
                           /\ d # c => hUser'[d] = hUser[d]
      BY <1>0, <2>1 DEF TypeCallback
    <2>4. \A v \in Users : state'[v] = IF v = u THEN "offline" ELSE state[v]
      BY <1>0, <2>1 DEF TypeDb
    <2>5. OfflineHasNoEntry'
      BY <1>a, <2>1, <2>2, <2>3, <2>4 DEF OfflineHasNoEntry, ErasedPCs
    <2>6. ASSUME NEW d \in Conns PROVE HoldersHaveEntry(d)'
      BY <1>a, <1>d, <1>h, <2>1, <2>2, <2>3, <2>4 DEF HoldersHaveEntry, ErasedPCs
    <2>7. ASSUME NEW d \in Conns PROVE StillSo(d)'
      <3>1. ASSUME d # c, pc[d] \in LoginPCs \cup ErasedPCs
            PROVE  hUser[d] # u /\ hUser[d] \in Users
        <4>1. pc[c] # "idle" /\ pc[d] # "idle"
          BY <2>1, <3>1 DEF LoginPCs, ErasedPCs
        <4>2. hUser[d] \in AccountsOf[d] /\ hUser[d] \in Users
          BY <1>g, <3>1
        <4> QED  BY <1>e, <2>2, <3>1, <4>1, <4>2
      <3>2. StillSo(d) /\ userConn' = userConn
        BY <1>a, <2>1
      <3>3. CASE d = c
        BY <2>3, <3>3 DEF StillSo, ErasedPCs
      <3>4. CASE d # c
        BY <2>3, <2>4, <3>1, <3>2, <3>4 DEF StillSo, LoginPCs
      <3> QED  BY <3>3, <3>4
    <2> QED  BY <2>5, <2>6, <2>7 DEF SessionsAt
  <1>8. CASE Crash
    BY <1>8 DEF Crash, Down, SessionsAt, OfflineHasNoEntry, HoldersHaveEntry, StillSo, Holds,
                LogoutWaits, HoldingPCs, ErasedPCs
  \* the steps that neither check nor write a session
  <1>9. ASSUME NEW c \in Conns, Client(c) PROVE SessionsAt'
    <2>1. UNCHANGED <<state, userConn, pc, hUser>>
      BY <1>9 DEF Client, Connect, SendLogin, SendLogout, SendOneChat, SendGroupChat,
                  SendAddGroup, Quit
    <2> QED  BY <1>h, <2>1, SessionsQuietly
  <1>10. ASSUME UNCHANGED <<state, userConn>>,
                NEW c \in Conns,
                \/ UNCHANGED <<pc, hUser>>
                \/ /\ \E l \in PCs \ ({"emplace", "setOnline", "reject"} \cup ErasedPCs) : Goto(c, l)
                   /\ pc[c] # "setOnline"
                   /\ \E v : hUser' = [hUser EXCEPT ![c] = v]
         PROVE  SessionsAt'
    <2>1. \A d \in Conns :
            \/ pc'[d] = pc[d] /\ hUser'[d] = hUser[d]
            \/ pc[d] # "setOnline" /\ pc'[d] \notin {"emplace", "setOnline", "reject"} \cup ErasedPCs
      BY <1>0, <1>10 DEF TypeCallback, Goto
    <2> QED  BY <1>h, <1>10, <2>1, SessionsQuietly
  <1>j. \A c \in Conns : UNCHANGED hUser => hUser' = [hUser EXCEPT ![c] = hUser[c]]
    BY <1>0 DEF TypeCallback
  <1>11. ASSUME NEW c \in Conns, LoginRefuse(c) \/ LoginReadOffline(c) \/ LoginClearOffline(c)
                                 \/ LoginReply(c)
         PROVE  SessionsAt'
    BY <1>10, <1>11, <1>j
    DEF LoginRefuse, LoginReadOffline, LoginClearOffline, LoginReply, Return, Goto, PCs, ErasedPCs
  <1>12. ASSUME NEW c \in Conns, Chat(c) \/ RunPending(c) PROVE SessionsAt'
    <2>1. UNCHANGED <<state, userConn>>
      BY <1>12 DEF Chat, OneChat, StoreOffline, GroupQuery, GroupLock, GroupEach, GroupUnlock,
                   AddGroup, RunPending
    <2>2. \/ UNCHANGED <<pc, hUser>>
          \/ /\ \E l \in {"storeOffline", "groupLock", "groupLoop", "idle"} : Goto(c, l)
             /\ pc[c] # "setOnline"
             /\ UNCHANGED hUser \/ \E v : hUser' = [hUser EXCEPT ![c] = v]
      BY <1>12 DEF Chat, OneChat, StoreOffline, GroupQuery, GroupLock, GroupEach, GroupUnlock,
                   AddGroup, RunPending, Handles, Ready, LoopFree, Return
    <2> QED  BY <1>10, <1>j, <2>1, <2>2 DEF PCs, ErasedPCs
  <1>13. ASSUME Restart \/ UNCHANGED vars PROVE SessionsAt'
    <2>1. UNCHANGED <<state, userConn, pc, hUser>>
      BY <1>13 DEF Restart, vars
    <2> QED  BY <1>h, <2>1, SessionsQuietly
  <1> QED
    BY <1>b, <1>1, <1>2, <1>3, <1>4, <1>5, <1>6, <1>7, <1>8, <1>9, <1>11, <1>12, <1>13
    DEF Next, Loop, Login, Leave, Process

\* Nobody has a session at the start.
LEMMA SessionsExclusiveInit == Init => SessionsExclusive
  <1> SUFFICES ASSUME Init PROVE SessionsExclusive
    OBVIOUS
  <1>1. ~exiting /\ OneCallback /\ \A c \in Conns : OneLogout(c)
    BY DEF Init, OneCallback, OneLogout
  <1>2. SessionsAt
    BY DEF Init, SessionsAt, OfflineHasNoEntry, HoldersHaveEntry, StillSo, Holds, LogoutWaits,
           HoldingPCs, ErasedPCs
  <1> QED  BY <1>1, <1>2 DEF SessionsExclusive

\* Every step keeps the sessions apart, as long as no statement has failed.
LEMMA SessionsExclusiveStep ==
  ASSUME SharersShareLoop, ~MayInterrupt, ConnsInOrder, SessionsExclusive, [Next]_vars
  PROVE  SessionsExclusive'
  <1>1. ~exiting'
    <2>1. ASSUME NEW c \in Conns, Client(c) \/ Login(c) PROVE UNCHANGED exiting
      BY <2>1 DEF Client, Connect, SendLogin, SendLogout, SendOneChat, SendGroupChat,
                  SendAddGroup, Quit, Login, LoginQuery, LoginRefuse, LoginReject, LoginEmplace,
                  LoginSetOnline, LoginReadOffline, LoginClearOffline, LoginReply, svcVars
    <2>2. ASSUME NEW c \in Conns, Leave(c) \/ Chat(c) \/ RunPending(c)
          PROVE  UNCHANGED exiting
      BY <2>2 DEF Leave, LogoutErase, LogoutUpdate, CloseErase, CloseUpdate, Chat, OneChat,
                  StoreOffline, GroupQuery, GroupLock, GroupEach, GroupUnlock, AddGroup,
                  RunPending, svcVars
    <2>3. ASSUME Process \/ UNCHANGED vars PROVE ~exiting'
      BY <2>3 DEF SessionsExclusive, Process, Interrupt, Exit, Crash, Restart, Down, vars, svcVars
    <2> QED  BY <2>1, <2>2, <2>3 DEF SessionsExclusive, Next, Loop
  <1>2. OneCallback'
    BY OneCallbackStep DEF SessionsExclusive, ConnsInOrder
  <1>3. \A c \in Conns : OneLogout(c)'
    BY OneLogoutStep DEF SessionsExclusive
  <1>4. ASSUME faults' = 0 PROVE SessionsAt'
    <2>1. faults = 0
      BY <1>4, NoFaultBefore DEF ConnsInOrder, TypeOK
    <2> QED  BY <1>4, <2>1, SessionsAtStep DEF SessionsExclusive
  <1> QED  BY <1>1, <1>2, <1>3, <1>4 DEF SessionsExclusive

\* When an account is used from one event loop only, no statement has failed and the
\* server has not been interrupted, login keeps what it promises (not allowed to log in
\* twice): no two clients are logged in with one account, and who is logged in is the
\* one its messages go to.  login asks the database whether the account is online
\* before it emplaces; what makes the two agree is that no other callback of the loop
\* comes in between.
THEOREM ExclusiveLoginHolds ==
  ASSUME SharersShareLoop, ~MayInterrupt
  PROVE  Spec => [](faults = 0 => ExclusiveLogin /\ LoggedInIsReachable)
  <1>1. Init => ConnsInOrder /\ SessionsExclusive
    BY SessionsInit, SessionsExclusiveInit
  <1>2. ConnsInOrder /\ SessionsExclusive /\ [Next]_vars => ConnsInOrder' /\ SessionsExclusive'
    BY ConnsInOrderStep, SessionsExclusiveStep
  <1>3. ASSUME ConnsInOrder, SessionsExclusive, faults = 0
        PROVE  ExclusiveLogin /\ LoggedInIsReachable
    <2>1. ASSUME NEW c \in Conns, client[c] = "chatting" PROVE userConn[account[c]] = c
      <3>1. account[c] \in Users
        BY <2>1, <1>3 DEF ConnsInOrder, TypeOK, TypeClient
      <3> QED  BY <1>3, <2>1, <3>1 DEF SessionsExclusive, SessionsAt, HoldersHaveEntry, Holds
    <2> QED  BY <2>1 DEF ExclusiveLogin, LoggedInIsReachable
  <1> QED  BY <1>1, <1>2, <1>3, PTL DEF Spec

-----------------------------------------------------------------------------
(***************************************************************************)
(* The abstract specifications that ChatService implements. login,         *)
(* loginout and clientCloseException implement the sessions of Presence:   *)
(* each step of ChatService is a step of Presence on m_userConnMap and     *)
(* g_currentUser, or leaves both alone.  This needs OneClientPerAccount,   *)
(* without which it does not hold (see the run duplicate_login).  Every    *)
(* client is one that ClientProtocol describes, whoever shares an account. *)
(***************************************************************************)
\* What an abstract step is, and the abstract state.
LEMMA AbstractStep ==
  ASSUME \/ \E u \in Users, c \in Conns :
              PresenceOf!Admit(u, c) \/ PresenceOf!Confirm(u, c) \/ PresenceOf!Release(u, c)
         \/ \E c \in Conns : PresenceOf!Forget(c)
         \/ PresenceOf!GoDown
         \/ UNCHANGED <<userConn, account>>
  PROVE  [PresenceOf!Next]_PresenceOf!vars
  BY DEF PresenceOf!Next, PresenceOf!vars

\* emplace admits the connection, or finds the user's entry taken.
LEMMA EmplaceAdmits ==
  ASSUME TypeService, NEW c \in Conns, NEW u \in Users,
         userConn' = EmplaceConn(userConn, u, c), UNCHANGED account
  PROVE  [PresenceOf!Next]_PresenceOf!vars
  <1>1. CASE userConn[u] = NoConn
    <2>1. PresenceOf!Admit(u, c)
      BY <1>1 DEF EmplaceConn, PresenceOf!Admit
    <2> QED  BY <2>1, AbstractStep
  <1>2. CASE userConn[u] # NoConn
    BY <1>2, AbstractStep DEF EmplaceConn
  <1> QED  BY <1>1, <1>2

\* erase releases the session of a client that gave it up, or finds no entry.
LEMMA EraseReleases ==
  ASSUME TypeService, NEW c \in Conns, NEW u \in Users, userConn[u] \in {c, NoConn},
         account[c] # u, userConn' = EraseConn(userConn, u), UNCHANGED account
  PROVE  [PresenceOf!Next]_PresenceOf!vars
  <1>1. CASE userConn[u] = c
    <2>1. PresenceOf!Release(u, c)
      BY <1>1 DEF EraseConn, PresenceOf!Release
    <2> QED  BY <2>1, AbstractStep
  <1>2. CASE userConn[u] = NoConn
    <2>1. userConn' = userConn
      BY <1>2 DEF TypeService, EraseConn
    <2> QED  BY <2>1, AbstractStep
  <1> QED  BY <1>1, <1>2

\* A client that logs out or goes away forgets its session, if it had one.
LEMMA LeavingForgets ==
  ASSUME TypeClient, NEW c \in Conns, account' = [account EXCEPT ![c] = NoUser],
         UNCHANGED userConn
  PROVE  [PresenceOf!Next]_PresenceOf!vars
  <1>1. CASE account[c] = NoUser
    <2>1. account' = account
      BY <1>1 DEF TypeClient
    <2> QED  BY <2>1, AbstractStep
  <1>2. CASE account[c] # NoUser
    <2>1. PresenceOf!Forget(c)
      BY <1>2 DEF PresenceOf!Forget
    <2> QED  BY <2>1, AbstractStep
  <1> QED  BY <1>1, <1>2

\* An answer other than a success finds a client without a session and leaves it so.
LEMMA RefusalTellsNothing ==
  ASSUME TypeClient, NEW c \in Conns, client[c] # "chatting", Answer(c, "menu", NoUser)
  PROVE  UNCHANGED account
  BY DEF TypeClient, Answer

\* The server process takes every session with it.
LEMMA DownGoesDown ==
  ASSUME Down
  PROVE  [PresenceOf!Next]_PresenceOf!vars
  <1>1. PresenceOf!GoDown
    BY DEF Down, PresenceOf!GoDown
  <1> QED  BY <1>1, AbstractStep

-----------------------------------------------------------------------------
\* While a connection has a login in hand, its client is not logged in.
LEMMA LoginNotChatting ==
  ASSUME KeepsSessions, NEW c \in Conns,
         \/ pc[c] \in LoginPCs
         \/ \E i \in DOMAIN req[c] : req[c][i].type \in {"LOGIN_MSG", "LOGINOUT_MSG"}
  PROVE  client[c] # "chatting" /\ account[c] = NoUser
  BY ConstantsAssumption
  DEF KeepsSessions, ConnsInOrder, TakesTurns, TypeOK, TypeClient, ConstantsAssumption

\* A request the connection handles is among its requests.
LEMMA HandledWasThere ==
  ASSUME TypeNet, NEW c \in Conns, NEW type, Handles(c, type)
  PROVE  \E i \in DOMAIN req[c] : req[c][i] = Head(req[c]) /\ req[c][i].type = type
  <1>1. req[c] # <<>> /\ req[c] \in Seq(Request) /\ Head(req[c]).type = type
    BY DEF Handles, TypeNet
  <1>2. 1 \in DOMAIN req[c] /\ Head(req[c]) = req[c][1]
    BY <1>1
  <1> QED  BY <1>1, <1>2

\* Every step of the service is a step of the sessions.
LEMMA PresenceStep ==
  ASSUME OneClientPerAccount, KeepsSessions, [Next]_vars
  PROVE  [PresenceOf!Next]_PresenceOf!vars
  <1> USE DEF dbVars, svcVars, localVars, netVars, clientVars, histVars, deliveryVars
  <1>0. TypeService /\ TypeCallback /\ TypeNet /\ TypeClient
    BY DEF KeepsSessions, ConnsInOrder, TypeOK
  \* the map and the accounts are left alone
  <1>1. ASSUME UNCHANGED <<userConn, account>> PROVE [PresenceOf!Next]_PresenceOf!vars
    BY <1>1, AbstractStep
  <1>2. ASSUME NEW c \in Conns, SendLogout(c) PROVE [PresenceOf!Next]_PresenceOf!vars
    BY <1>0, <1>2, LeavingForgets DEF SendLogout
  <1>3. ASSUME NEW c \in Conns, Quit(c) PROVE [PresenceOf!Next]_PresenceOf!vars
    BY <1>0, <1>3, LeavingForgets DEF Quit
  <1>4. ASSUME NEW c \in Conns, LoginRefuse(c) PROVE [PresenceOf!Next]_PresenceOf!vars
    <2>1. client[c] # "chatting"
      BY <1>0, <1>4, HandledWasThere, LoginNotChatting DEF LoginRefuse
    <2>2. UNCHANGED account
      BY <1>0, <1>4, <2>1, RefusalTellsNothing DEF LoginRefuse
    <2> QED  BY <1>4, <2>2, AbstractStep DEF LoginRefuse
  <1>5. ASSUME NEW c \in Conns, LoginReject(c) PROVE [PresenceOf!Next]_PresenceOf!vars
    <2>1. client[c] # "chatting" /\ hUser[c] \in Users
      BY <1>0, <1>5, LoginNotChatting DEF LoginReject, LoginPCs, TypeCallback, UserPCs
    <2>2. UNCHANGED account
      BY <1>0, <1>5, <2>1, RefusalTellsNothing DEF LoginReject
    <2> QED  BY <1>0, <1>5, <2>1, <2>2, EmplaceAdmits DEF LoginReject
  <1>6. ASSUME NEW c \in Conns, LoginEmplace(c) PROVE [PresenceOf!Next]_PresenceOf!vars
    <2>1. hUser[c] \in Users
      BY <1>0, <1>6 DEF LoginEmplace, TypeCallback, UserPCs
    <2> QED  BY <1>0, <1>6, <2>1, EmplaceAdmits DEF LoginEmplace
  <1>7. ASSUME NEW c \in Conns, LoginReply(c) PROVE [PresenceOf!Next]_PresenceOf!vars
    <2>1. /\ hUser[c] \in Users
          /\ account[c] = NoUser
          /\ userConn[hUser[c]] = c
      BY <1>0, <1>7, LoginNotChatting
      DEF LoginReply, TypeCallback, UserPCs, LoginPCs, KeepsSessions, LoginHoldsEntry
    <2>2. CASE client[c] = "gone"
      BY <1>7, <2>2, AbstractStep DEF LoginReply, Answer
    <2>3. CASE client[c] # "gone"
      <3>1. PresenceOf!Confirm(hUser[c], c)
        BY <1>7, <2>1, <2>3 DEF LoginReply, Answer, PresenceOf!Confirm
      <3> QED  BY <2>1, <3>1, AbstractStep
    <2> QED  BY <2>2, <2>3
  <1>8. ASSUME NEW c \in Conns, LogoutErase(c) PROVE [PresenceOf!Next]_PresenceOf!vars
    <2>1. PICK i \in DOMAIN req[c] :
            req[c][i] = Head(req[c]) /\ req[c][i].type = "LOGINOUT_MSG"
      BY <1>0, <1>8, HandledWasThere DEF LogoutErase
    <2> DEFINE u == Head(req[c]).user
    <2>2. u \in AccountsOf[c] /\ u \in Users
      BY <2>1, ConstantsAssumption
      DEF KeepsSessions, ConnsInOrder, ActsForItself, ConstantsAssumption
    <2>3. userConn[u] \in {c, NoConn}
      BY <1>0, <2>2
      DEF TypeService, KeepsSessions, ConnsInOrder, ActsForItself, OneClientPerAccount
    <2>4. account[c] = NoUser
      BY <2>1, LoginNotChatting
    <2>5. account[c] # u
      BY <2>2, <2>4, ConstantsAssumption DEF ConstantsAssumption
    <2>6. userConn' = EraseConn(userConn, u) /\ UNCHANGED account
      BY <1>8 DEF LogoutErase
    <2> HIDE DEF u
    <2> QED  BY <1>0, <2>2, <2>3, <2>5, <2>6, EraseReleases
  <1>9. ASSUME NEW c \in Conns, CloseErase(c) PROVE [PresenceOf!Next]_PresenceOf!vars
    <2>1. CASE EntriesOf(userConn, c) = {}
      BY <1>9, <2>1, AbstractStep DEF CloseErase
    <2>2. CASE EntriesOf(userConn, c) # {}
      <3>1. PICK u \in EntriesOf(userConn, c) : userConn' = EraseConn(userConn, u)
        BY <1>9, <2>2 DEF CloseErase
      <3>2. u \in Users /\ userConn[u] = c
        BY <1>0, <3>1 DEF EntriesOf, TypeService
      <3>3. account[c] # u /\ UNCHANGED account
        BY <1>0, <1>9, <3>2, ConstantsAssumption DEF CloseErase, TypeClient, ConstantsAssumption
      <3> QED  BY <1>0, <3>1, <3>2, <3>3, EraseReleases
    <2> QED  BY <2>1, <2>2
  <1>10. CASE Exit
    BY <1>10, DownGoesDown DEF Exit
  <1>11. CASE Crash
    BY <1>11, DownGoesDown DEF Crash
  \* the steps that touch neither
  <1>12. ASSUME NEW c \in Conns,
                \/ Connect(c) \/ \E u \in Users, ok \in BOOLEAN : SendLogin(c, u, ok)
                \/ \E u \in Users : SendOneChat(c, u)
                \/ \E g \in Groups : SendGroupChat(c, g) \/ SendAddGroup(c, g)
         PROVE  UNCHANGED <<userConn, account>>
    BY <1>12 DEF Connect, SendLogin, SendOneChat, SendGroupChat, SendAddGroup
  <1>13. ASSUME NEW c \in Conns,
                \/ LoginQuery(c) \/ LoginSetOnline(c) \/ LoginReadOffline(c)
                \/ LoginClearOffline(c) \/ LogoutUpdate(c) \/ CloseUpdate(c)
         PROVE  UNCHANGED <<userConn, account>>
    BY <1>13 DEF LoginQuery, LoginSetOnline, LoginReadOffline, LoginClearOffline,
                 LogoutUpdate, CloseUpdate
  <1>14. ASSUME NEW c \in Conns, Chat(c) \/ RunPending(c)
         PROVE  UNCHANGED <<userConn, account>>
    BY <1>14 DEF Chat, OneChat, StoreOffline, GroupQuery, GroupLock, GroupEach, GroupUnlock,
                 AddGroup, RunPending
  <1>15. ASSUME Interrupt \/ Restart \/ UNCHANGED vars
         PROVE  UNCHANGED <<userConn, account>>
    BY <1>15 DEF Interrupt, Restart, vars
  <1> QED
    BY <1>1, <1>2, <1>3, <1>4, <1>5, <1>6, <1>7, <1>8, <1>9, <1>10, <1>11, <1>12,
       <1>13, <1>14, <1>15
    DEF Next, Client, Loop, Login, Leave, Process

\* As long as nobody uses an account from two clients, the server and its clients
\* implement the abstract sessions: at most one session for an account, told only to
\* the client that holds it, ended only after that client gave it up or went away.
THEOREM PresenceImplemented ==
  ASSUME OneClientPerAccount
  PROVE  Spec => ImplementsPresence
  <1>1. Init => KeepsSessions
    BY SessionsInit
  <1>2. KeepsSessions /\ [Next]_vars => KeepsSessions'
    BY KeepsSessionsStep
  <1>3. Init => PresenceOf!Init
    BY DEF Init, PresenceOf!Init
  <1>4. KeepsSessions /\ [Next]_vars => [PresenceOf!Next]_PresenceOf!vars
    BY PresenceStep
  <1> QED  BY <1>1, <1>2, <1>3, <1>4, PTL DEF Spec, ImplementsPresence, PresenceOf!Spec

-----------------------------------------------------------------------------
(***************************************************************************)
(* The clients, as ClientProtocol sees them.  No assumption is made on who *)
(* uses which account.                                                     *)
(***************************************************************************)

\* What the requests of a client are for, and a step of a client.
ClaimsOf(c) == [i \in DOMAIN req[c] |-> Claim(req[c][i])]
FollowsProtocol(c) == ClientOf(c)!Next \/ UNCHANGED ClientOf(c)!vars

\* A step that leaves a client and its requests alone is no step of it.
LEMMA NotItsStep ==
  ASSUME NEW c \in Conns, client'[c] = client[c], account'[c] = account[c], req'[c] = req[c]
  PROVE  FollowsProtocol(c)
  BY DEF FollowsProtocol, ClientOf!vars

\* What is sent is claimed last ...
LEMMA SentIsClaimed ==
  ASSUME TypeNet, NEW c \in Conns, NEW r, Send(c, r)
  PROVE  ClaimsOf(c)' = Append(ClaimsOf(c), Claim(r))
  <1>1. req[c] \in Seq(Request) /\ req'[c] = Append(req[c], r)
    BY DEF TypeNet, Send
  <1>2. /\ DOMAIN req'[c] = 1 .. Len(req[c]) + 1
        /\ \A i \in 1 .. Len(req[c]) : req'[c][i] = req[c][i]
        /\ req'[c][Len(req[c]) + 1] = r
    BY <1>1
  <1>3. ClaimsOf(c) \in Seq({Claim(req[c][i]) : i \in DOMAIN req[c]}) /\ Len(ClaimsOf(c)) = Len(req[c])
    BY <1>1 DEF ClaimsOf
  <1> QED  BY <1>1, <1>2, <1>3 DEF ClaimsOf

\* ... and what a read takes was claimed first.
LEMMA HandledWasClaimed ==
  ASSUME TypeNet, NEW c \in Conns, NEW type, Handles(c, type), Consume(c)
  PROVE  \E n \in 1 .. Len(ClaimsOf(c)) :
            ClaimsOf(c)' = SubSeq(ClaimsOf(c), n + 1, Len(ClaimsOf(c)))
  <1> DEFINE S == {Claim(req[c][i]) : i \in DOMAIN req[c]}
  <1>1. /\ ClaimsOf(c) \in Seq(S)
        /\ Len(ClaimsOf(c)) = Len(req[c])
        /\ Len(req[c]) \in Nat
        /\ \A i \in DOMAIN req[c] : ClaimsOf(c)[i] = Claim(req[c][i])
    <2>1. req[c] \in Seq(Request)
      BY DEF TypeNet
    <2>2. DOMAIN req[c] = 1 .. Len(req[c]) /\ Len(req[c]) \in Nat
      BY <2>1
    <2> QED  BY <2>2 DEF ClaimsOf
  <1>2. PICK k \in 1 .. Len(req[c]) :
          /\ DOMAIN req'[c] = 1 .. (Len(req[c]) - k)
          /\ \A i \in DOMAIN req'[c] : i + k \in DOMAIN req[c] /\ req'[c][i] = req[c][i + k]
    BY ConsumeTakes
  <1> DEFINE rest == SubSeq(ClaimsOf(c), k + 1, Len(ClaimsOf(c)))
  <1>3. /\ rest \in Seq(S)
        /\ DOMAIN rest = 1 .. (Len(req[c]) - k)
        /\ \A i \in 1 .. (Len(req[c]) - k) : rest[i] = ClaimsOf(c)[i + k]
    BY <1>1, <1>2, SubSeqRest
  <1>4. ClaimsOf(c)' = [i \in 1 .. (Len(req[c]) - k) |-> Claim(req'[c][i])]
    BY <1>2 DEF ClaimsOf
  <1>5. \A i \in 1 .. (Len(req[c]) - k) : Claim(req'[c][i]) = rest[i]
    BY <1>1, <1>2, <1>3
  <1>6. ClaimsOf(c)' = rest
    <2>1. rest = [i \in DOMAIN rest |-> rest[i]]
      BY <1>3
    <2> HIDE DEF rest
    <2> QED  BY <1>3, <1>4, <1>5, <2>1
  <1> QED  BY <1>1, <1>2, <1>6

\* A client that is logged in says something in its own name.
LEMMA CommandIsSaid ==
  ASSUME TypeNet, NEW c \in Conns, NEW r, Send(c, r), client[c] = "chatting",
         Claim(r) = <<"command", account[c]>>, UNCHANGED <<client, account>>
  PROVE  \A d \in Conns : FollowsProtocol(d)
  <1>1. ASSUME NEW d \in Conns, d # c PROVE FollowsProtocol(d)
    BY <1>1, NotItsStep DEF TypeNet, Send
  <1>2. ClientOf(c)!Say
    BY SentIsClaimed DEF ClientOf!Say, ClaimsOf
  <1> QED  BY <1>1, <1>2 DEF FollowsProtocol, ClientOf!Next

\* A handler that leaves its client alone takes a request.
LEMMA RequestIsTaken ==
  ASSUME TypeNet, NEW c \in Conns, NEW type, Handles(c, type), Consume(c),
         UNCHANGED <<client, account>>
  PROVE  \A d \in Conns : FollowsProtocol(d)
  <1>1. ASSUME NEW d \in Conns, d # c PROVE FollowsProtocol(d)
    BY <1>1, NotItsStep DEF TypeNet, Consume
  <1>2. ClientOf(c)!Taken
    BY HandledWasClaimed DEF ClientOf!Taken, ClientOf!TakeSome, ClaimsOf
  <1> QED  BY <1>1, <1>2 DEF FollowsProtocol, ClientOf!Next

\* Every step of the service is, for each client, a step of ClientProtocol or none.
LEMMA ClientsStep ==
  ASSUME ConnsInOrder, [Next]_vars, NEW d \in Conns
  PROVE  FollowsProtocol(d)
  <1> USE DEF dbVars, svcVars, localVars, netVars, clientVars, histVars, deliveryVars
  <1>0. TypeNet /\ TypeClient /\ TypeCallback
    BY DEF ConnsInOrder, TypeOK
  <1>1. ASSUME NEW c \in Conns, Connect(c) PROVE FollowsProtocol(d)
    <2>1. CASE d # c
      BY <1>0, <1>1, <2>1, NotItsStep DEF Connect, TypeClient
    <2>2. CASE d = c
      <3>1. req[c] = <<>>
        BY <1>1 DEF Connect, ConnsInOrder, TakesTurns
      <3>2. ClientOf(c)!Connect
        BY <1>0, <1>1, <3>1 DEF Connect, ClientOf!Connect, TypeClient
      <3> QED  BY <2>2, <3>2 DEF FollowsProtocol, ClientOf!Next
    <2> QED  BY <2>1, <2>2
  <1>2. ASSUME NEW c \in Conns, NEW u \in Users, NEW ok \in BOOLEAN, SendLogin(c, u, ok)
        PROVE  FollowsProtocol(d)
    <2> DEFINE r == [type |-> "LOGIN_MSG", user |-> u, pwdOk |-> ok]
    <2>1. Send(c, r) /\ client[c] = "menu" /\ client' = [client EXCEPT ![c] = "waiting"]
      BY <1>2 DEF SendLogin
    <2>2. UNCHANGED account
      BY <1>2 DEF SendLogin
    <2>3. Claim(r) = <<"login", u>>
      BY DEF Claim
    <2> HIDE DEF r
    <2>4. CASE d # c
      BY <1>0, <2>1, <2>2, <2>4, NotItsStep DEF TypeNet, TypeClient, Send
    <2>5. CASE d = c
      <3>1. ClientOf(c)!AskLogin(u)
        <4>1. ClaimsOf(c)' = Append(ClaimsOf(c), <<"login", u>>)
          BY <1>0, <2>1, <2>3, SentIsClaimed
        <4>2. client'[c] = "waiting" /\ account'[c] = account[c]
          BY <1>0, <2>1, <2>2 DEF TypeClient
        <4> QED  BY <2>1, <4>1, <4>2 DEF ClientOf!AskLogin, ClaimsOf
      <3> QED  BY <2>5, <3>1 DEF FollowsProtocol, ClientOf!Next
    <2> QED  BY <2>4, <2>5
  <1>3. ASSUME NEW c \in Conns, SendLogout(c) PROVE FollowsProtocol(d)
    <2> DEFINE r == [type |-> "LOGINOUT_MSG", user |-> account[c]]
    <2>1. /\ Send(c, r)
          /\ client[c] = "chatting"
          /\ client' = [client EXCEPT ![c] = "menu"]
          /\ account' = [account EXCEPT ![c] = NoUser]
      BY <1>3 DEF SendLogout
    <2>2. Claim(r) = <<"logout", account[c]>>
      BY DEF Claim
    <2> HIDE DEF r
    <2>3. CASE d # c
      BY <1>0, <2>1, <2>3, NotItsStep DEF TypeNet, TypeClient, Send
    <2>4. CASE d = c
      <3>1. ClientOf(c)!Leave
        BY <1>0, <2>1, <2>2, SentIsClaimed DEF ClientOf!Leave, ClaimsOf, TypeClient
      <3> QED  BY <2>4, <3>1 DEF FollowsProtocol, ClientOf!Next
    <2> QED  BY <2>3, <2>4
  <1>4. ASSUME NEW c \in Conns, NEW u \in Users, SendOneChat(c, u) PROVE FollowsProtocol(d)
    <2> DEFINE r == [type |-> "ONE_CHAT_MSG", to |-> u, msg |-> NewMsg(c, "chat")]
    <2>1. Send(c, r) /\ client[c] = "chatting" /\ UNCHANGED <<client, account>>
      BY <1>4 DEF SendOneChat, CanCommand
    <2>2. Claim(r) = <<"command", account[c]>>
      BY DEF Claim, NewMsg
    <2> HIDE DEF r
    <2> QED  BY <1>0, <2>1, <2>2, CommandIsSaid
  <1>5. ASSUME NEW c \in Conns, NEW g \in Groups, SendGroupChat(c, g)
        PROVE  FollowsProtocol(d)
    <2> DEFINE r == [type |-> "GROUP_CHAT_MSG", user |-> account[c], group |-> g,
                     msg |-> NewMsg(c, "groupchat")]
    <2>1. Send(c, r) /\ client[c] = "chatting" /\ UNCHANGED <<client, account>>
      BY <1>5 DEF SendGroupChat, CanCommand
    <2>2. Claim(r) = <<"command", account[c]>>
      BY DEF Claim
    <2> HIDE DEF r
    <2> QED  BY <1>0, <2>1, <2>2, CommandIsSaid
  <1>6. ASSUME NEW c \in Conns, NEW g \in Groups, SendAddGroup(c, g)
        PROVE  FollowsProtocol(d)
    <2> DEFINE r == [type |-> "ADD_GROUP_MSG", user |-> account[c], group |-> g]
    <2>1. Send(c, r) /\ client[c] = "chatting" /\ UNCHANGED <<client, account>>
      BY <1>6 DEF SendAddGroup, CanCommand
    <2>2. Claim(r) = <<"command", account[c]>>
      BY DEF Claim
    <2> HIDE DEF r
    <2> QED  BY <1>0, <2>1, <2>2, CommandIsSaid
  <1>7. ASSUME NEW c \in Conns, Quit(c) PROVE FollowsProtocol(d)
    <2>1. CASE d # c
      BY <1>0, <1>7, <2>1, NotItsStep DEF Quit, TypeNet, TypeClient
    <2>2. CASE d = c
      <3>1. ClientOf(c)!Quit
        BY <1>0, <1>7 DEF Quit, ClientOf!Quit, TypeNet, TypeClient
      <3> QED  BY <2>2, <3>1 DEF FollowsProtocol, ClientOf!Next
    <2> QED  BY <2>1, <2>2
  <1>8. ASSUME NEW c \in Conns, LoginRefuse(c) PROVE FollowsProtocol(d)
    <2>1. Handles(c, "LOGIN_MSG") /\ Consume(c) /\ Answer(c, "menu", NoUser)
      BY <1>8 DEF LoginRefuse
    <2>2. client[c] \in {"waiting", "gone"}
      BY <1>0, <2>1, LoginIsLast DEF ConnsInOrder
    <2>3. CASE client[c] = "gone"
      BY <1>0, <2>1, <2>3, RequestIsTaken DEF Answer
    <2>4. CASE client[c] = "waiting" /\ d # c
      BY <1>0, <2>1, <2>4, NotItsStep DEF Answer, Consume, TypeNet, TypeClient
    <2>5. CASE client[c] = "waiting" /\ d = c
      <3>1. client'[c] = "menu" /\ account'[c] = account[c]
        BY <1>0, <2>1, <2>5 DEF Answer, TypeClient
      <3>2. ClientOf(c)!Denied
        BY <1>0, <2>1, <2>5, <3>1, HandledWasClaimed
        DEF ClientOf!Denied, ClientOf!TakeSome, ClaimsOf
      <3> QED  BY <2>5, <3>2 DEF FollowsProtocol, ClientOf!Next
    <2> QED  BY <2>2, <2>3, <2>4, <2>5
  <1>9. ASSUME NEW c \in Conns, LoginReject(c) PROVE FollowsProtocol(d)
    <2>1. Answer(c, "menu", NoUser) /\ UNCHANGED req
      BY <1>9 DEF LoginReject
    <2>2. client[c] \in {"waiting", "gone"}
      BY <1>9 DEF LoginReject, ConnsInOrder, TakesTurns, LoginPCs
    <2>3. CASE client[c] = "gone" \/ d # c
      BY <1>0, <2>1, <2>3, NotItsStep DEF Answer, TypeClient
    <2>4. CASE client[c] = "waiting" /\ d = c
      <3>1. client'[c] = "menu" /\ account'[c] = account[c]
        BY <1>0, <2>1, <2>4 DEF Answer, TypeClient
      <3>2. ClientOf(c)!Denied
        BY <2>1, <2>4, <3>1 DEF ClientOf!Denied
      <3> QED  BY <2>4, <3>2 DEF FollowsProtocol, ClientOf!Next
    <2> QED  BY <2>2, <2>3, <2>4
  <1>10. ASSUME NEW c \in Conns, LoginReply(c) PROVE FollowsProtocol(d)
    <2>1. Answer(c, "chatting", hUser[c]) /\ UNCHANGED req /\ hUser[c] \in Users
      BY <1>0, <1>10 DEF LoginReply, TypeCallback, UserPCs
    <2>2. client[c] \in {"waiting", "gone"}
      BY <1>10 DEF LoginReply, ConnsInOrder, TakesTurns, LoginPCs
    <2>3. CASE client[c] = "gone" \/ d # c
      BY <1>0, <2>1, <2>3, NotItsStep DEF Answer, TypeClient
    <2>4. CASE client[c] = "waiting" /\ d = c
      <3>1. client'[c] = "chatting" /\ account'[c] = hUser[c]
        BY <1>0, <2>1, <2>4 DEF Answer, TypeClient
      <3>2. ClientOf(c)!Granted(hUser[c])
        BY <2>1, <2>4, <3>1 DEF ClientOf!Granted
      <3> QED  BY <2>1, <2>4, <3>2 DEF FollowsProtocol, ClientOf!Next
    <2> QED  BY <2>2, <2>3, <2>4
  <1>11. CASE Exit \/ Crash
    <2>1. ClientOf(d)!Quit
      BY <1>11 DEF Exit, Crash, Down, ClientOf!Quit
    <2> QED  BY <2>1 DEF FollowsProtocol, ClientOf!Next
  \* the handlers that answer nothing
  <1>12. ASSUME NEW c \in Conns,
                \/ LoginQuery(c) \/ LogoutErase(c)
                \/ OneChat(c) \/ GroupQuery(c) \/ AddGroup(c)
         PROVE  FollowsProtocol(d)
    <2>1. \E type : Handles(c, type) /\ Consume(c)
      BY <1>12 DEF LoginQuery, LogoutErase, OneChat, GroupQuery, AddGroup
    <2>2. UNCHANGED <<client, account>>
      BY <1>12 DEF LoginQuery, LogoutErase, OneChat, GroupQuery, AddGroup
    <2> QED  BY <1>0, <2>1, <2>2, RequestIsTaken
  \* the steps that leave the clients and their requests alone
  <1>13. ASSUME UNCHANGED <<client, account, req>> PROVE FollowsProtocol(d)
    BY <1>13, NotItsStep
  <1>14. ASSUME NEW c \in Conns,
                \/ LoginEmplace(c) \/ LoginSetOnline(c) \/ LoginReadOffline(c)
                \/ LoginClearOffline(c) \/ LogoutUpdate(c) \/ CloseErase(c) \/ CloseUpdate(c)
         PROVE  UNCHANGED <<client, account, req>>
    BY <1>14 DEF LoginEmplace, LoginSetOnline, LoginReadOffline, LoginClearOffline,
                 LogoutUpdate, CloseErase, CloseUpdate
  <1>15. ASSUME NEW c \in Conns,
                \/ StoreOffline(c) \/ GroupLock(c) \/ (\E u \in Users : GroupEach(c, u))
                \/ GroupUnlock(c) \/ RunPending(c)
         PROVE  UNCHANGED <<client, account, req>>
    BY <1>15 DEF StoreOffline, GroupLock, GroupEach, GroupUnlock, RunPending
  <1>16. ASSUME Interrupt \/ Restart \/ UNCHANGED vars
         PROVE  UNCHANGED <<client, account, req>>
    BY <1>16 DEF Interrupt, Restart, vars
  <1> QED
    BY <1>1, <1>2, <1>3, <1>4, <1>5, <1>6, <1>7, <1>8, <1>9, <1>10, <1>11, <1>12,
       <1>13, <1>14, <1>15, <1>16
    DEF Next, Client, Loop, Login, Leave, Chat, Process

\* Whatever statement fails and whenever the server crashes or is interrupted, and
\* whoever shares an account: each client of the server is one that ClientProtocol
\* describes.  It is answered only while it waits, it speaks only in the name of the
\* account it was granted, and its session ends by its own logout or with it.
THEOREM ClientsFollow == Spec => ClientsFollowProtocol
  <1>1. Init => ConnsInOrder
    BY SessionsInit
  <1>2. ConnsInOrder /\ [Next]_vars => ConnsInOrder'
    BY ConnsInOrderStep
  <1>3. Init => \A c \in Conns : ClientOf(c)!Init
    BY DEF Init, ClientOf!Init
  <1>4. ConnsInOrder /\ [Next]_vars
          => [\A c \in Conns : ClientOf(c)!Next \/ UNCHANGED ClientOf(c)!vars]_vars
    BY ClientsStep DEF FollowsProtocol
  <1> QED  BY <1>1, <1>2, <1>3, <1>4, PTL DEF Spec, ClientsFollowProtocol

(***************************************************************************)
(* What the abstract sessions are worth                                    *)
(***************************************************************************)
PresenceInv ==
  /\ userConn \in [Users -> Conns \cup {NoConn}] /\ account \in [Conns -> Users \cup {NoUser}]
  /\ PresenceOf!ToldIsReachable

\* A step that leaves no client told of a session it does not hold: Release waits
\* for the client, Confirm needs the session, Admit finds none.
LEMMA PresenceInvStep ==
  ASSUME PresenceInv, [PresenceOf!Next]_PresenceOf!vars
  PROVE  PresenceInv'
  <1> USE ConstantsAssumption DEF PresenceInv, PresenceOf!ToldIsReachable
  <1>1. ASSUME NEW u \in Users, NEW c \in Conns, PresenceOf!Admit(u, c) PROVE PresenceInv'
    BY <1>1 DEF PresenceOf!Admit
  <1>2. ASSUME NEW u \in Users, NEW c \in Conns, PresenceOf!Confirm(u, c) PROVE PresenceInv'
    BY <1>2 DEF PresenceOf!Confirm
  <1>3. ASSUME NEW u \in Users, NEW c \in Conns, PresenceOf!Release(u, c) PROVE PresenceInv'
    BY <1>3 DEF PresenceOf!Release
  <1>4. ASSUME NEW c \in Conns, PresenceOf!Forget(c) PROVE PresenceInv'
    BY <1>4 DEF PresenceOf!Forget
  <1>5. CASE PresenceOf!GoDown
    BY <1>5 DEF PresenceOf!GoDown
  <1>6. CASE UNCHANGED PresenceOf!vars
    BY <1>6 DEF PresenceOf!vars
  <1> QED  BY <1>1, <1>2, <1>3, <1>4, <1>5, <1>6 DEF PresenceOf!Next

\* Whatever implements Presence: a client that believes it is logged in is the one
\* its account's messages go to, and no two believe it of one account.
THEOREM SessionsAreExclusive ==
  PresenceOf!Spec => [](PresenceOf!ToldIsReachable /\ PresenceOf!ExclusiveLogin)
  <1>1. PresenceOf!Init => PresenceInv
    BY ConstantsAssumption DEF PresenceOf!Init, PresenceInv, PresenceOf!ToldIsReachable
  <1>2. PresenceInv /\ [PresenceOf!Next]_PresenceOf!vars => PresenceInv'
    BY PresenceInvStep
  <1>3. PresenceInv => PresenceOf!ToldIsReachable /\ PresenceOf!ExclusiveLogin
    BY ConstantsAssumption DEF PresenceInv, PresenceOf!ToldIsReachable, PresenceOf!ExclusiveLogin
  <1> QED  BY <1>1, <1>2, <1>3, PTL DEF PresenceOf!Spec
=============================================================================
