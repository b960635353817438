--------------------------- MODULE ChatProperties ---------------------------
(***************************************************************************)
(* What makes the business layer correct, for the invariants and temporal  *)
(* properties of its runs.  TypeOK is in ChatService.                      *)
(***************************************************************************)
EXTENDS ChatService

Entries(s) == {s[i] : i \in DOMAIN s}

\* A client is used with one account only, and an account from one client only
\* or, more generally, from clients whose connections share an event loop.  (The
\* server ensures none of the three; instances without them are checked too.)
OneAccountPerClient ==
  \A c \in Conns : \A u, v \in AccountsOf[c] : u = v
OneClientPerAccount ==
  \A c, d \in Conns : AccountsOf[c] \cap AccountsOf[d] # {} => c = d
SharersShareLoop ==
  \A c, d \in Conns : AccountsOf[c] \cap AccountsOf[d] # {} => LoopOf[c] = LoopOf[d]

-----------------------------------------------------------------------------
(***************************************************************************)
(* Sessions.                                                               *)
(***************************************************************************)

\* What the two properties below rest on.  A connection acts for the accounts
\* of its client only: in the requests it sends, in the callbacks they start,
\* and in the map.
LoginPCs == {"emplace", "setOnline", "readOffline", "clearOffline", "reply", "reject"}

ActsForItself(c) ==
  /\ account[c] \in AccountsOf[c] \cup {NoUser}
  /\ \A i \in DOMAIN req[c] :
       req[c][i].type \in {"LOGIN_MSG", "LOGINOUT_MSG"} => req[c][i].user \in AccountsOf[c]
  /\ pc[c] \in LoginPCs \cup {"logoutUpdate"} => hUser[c] \in AccountsOf[c]
  /\ \A u \in Users : userConn[u] = c => u \in AccountsOf[c]

\* login runs on a connection that is up, and the callback of a closing
\* connection is the last.
CallbackMatchesConn(c) ==
  /\ pc[c] \in LoginPCs => conn[c] = "up"
  /\ pc[c] = "closeUpdate" => conn[c] = "down"

\* main() and readTaskHandler take turns: nothing follows a login request
\* until it is answered, and nothing of a logout is left once one is
\* answered.
TakesTurns(c) ==
  /\ \A i \in DOMAIN req[c] : req[c][i].type = "LOGIN_MSG" => i = Len(req[c])
  /\ pc[c] \in LoginPCs => req[c] = <<>> /\ client[c] \in {"waiting", "gone"}
  /\ client[c] \in {"menu", "chatting"} =>
       \A i \in DOMAIN req[c] : req[c][i].type # "LOGIN_MSG"
  /\ client[c] = "chatting" => \A i \in DOMAIN req[c] : req[c][i].type # "LOGINOUT_MSG"
  /\ conn[c] # "up" => client[c] = "gone" /\ req[c] = <<>>

\* From emplace to the answer, the login handler's connection is in the map.
LoginHoldsEntry(c) ==
  pc[c] \in {"setOnline", "readOffline", "clearOffline", "reply"} => userConn[hUser[c]] = c

\* oneChat and groupChat send to an entry of a closed connection what they should
\* store.  Whoever uses which account where, an entry comes to point to one only
\* in one way: the scan of clientCloseException, which stops at the first entry of
\* the connection, leaves its second behind.  No login, answered or rejected, puts
\* in a connection that has closed meanwhile, and no close leaves the only entry.
Dead(u) == userConn[u] # NoConn /\ conn[userConn[u]] # "up"
DeadEntryIsSecond ==
  [][\A u \in Users :
       ~Dead(u) /\ Dead(u)' =>
         /\ userConn'[u] = userConn[u]
         /\ \E v \in Users : userConn[v] = userConn[u] /\ userConn'[v] = NoConn]_vars

\* A client that was told its login succeeded is the one the map sends its
\* account's messages to.
LoggedInIsReachable ==
  \A c \in Conns : client[c] = "chatting" => userConn[account[c]] = c

\* No two clients are logged in with the same account (login: "not allowed
\* to log in twice").
ExclusiveLogin ==
  \A c, d \in Conns :
     client[c] = "chatting" /\ client[d] = "chatting" /\ account[c] = account[d]
       => c = d

\* The sessions of the abstract specification: m_userConnMap holds them, and
\* the clients' g_currentUser is what they were told.
PresenceOf == INSTANCE Presence WITH holder <- userConn, told <- account

\* login, loginout and clientCloseException implement the abstract sessions.
ImplementsPresence == PresenceOf!Spec

\* Nothing is under way for connection c or its client.
Settled(c) ==
  /\ pc[c] = "idle"
  /\ req[c] = <<>>
  /\ client[c] # "gone" \/ conn[c] = "none"

\* Once the requests of a client are worked off, and no read took its logout
\* behind another request, the database, the map and the client agree on
\* whether its user is online: login writes the map before the database,
\* loginout and close erase before they update.
PresenceAgrees ==
  \A c \in Conns : Settled(c) /\ <<c, "LOGINOUT_MSG">> \notin lost =>
     \A u \in AccountsOf[c] :
        LET here == client[c] = "chatting" /\ account[c] = u
        IN  (userConn[u] = c <=> here) /\ (state[u] = "online" <=> here)

\* Whenever the server starts again, after ctrl+c or a crash, nobody is online
\* in the database: reset() is for "abnormal exit of the server", and who is
\* online there cannot log in.
StartsAllOffline ==
  [][~running /\ running' => \A u \in Users : state[u] = "offline"]_vars

\* A client of ChatService as ClientProtocol sees it: what its requests under
\* way are for, and in whose name.
Claim(r) ==
  CASE r.type = "LOGIN_MSG" -> <<"login", r.user>>
    [] r.type = "LOGINOUT_MSG" -> <<"logout", r.user>>
    [] r.type = "ONE_CHAT_MSG" -> <<"command", r.msg.from>>
    [] OTHER -> <<"command", r.user>>

ClientOf(c) ==
  INSTANCE ClientProtocol
  WITH Accounts <- Users, status <- client[c], account <- account[c],
       out <- [i \in DOMAIN req[c] |-> Claim(req[c][i])]

\* The clients of ChatService follow ClientProtocol, which the threads of the
\* real client implement (ImplementsProtocol in ClientProperties): the server
\* never leaves one with an answer it did not ask for, nor with a session it
\* did not end.
ClientsFollowProtocol ==
  /\ \A c \in Conns : ClientOf(c)!Init
  /\ [][\A c \in Conns : ClientOf(c)!Next \/ UNCHANGED ClientOf(c)!vars]_vars

-----------------------------------------------------------------------------
(***************************************************************************)
(* Messages.                                                               *)
(***************************************************************************)

\* The pairs of recipient and message still on their way.
InHands ==
  UNION {CASE pc[c] \in {"groupLock", "groupLoop"} ->
                {u \in Users : hTodo[c][u] > 0} \X Entries(hMsgs[c])
           [] pc[c] \in {"storeOffline", "clearOffline", "reply"} ->
                {hUser[c]} \X Entries(hMsgs[c])
           [] OTHER -> {} : c \in Conns}
Queued == UNION {Pairs(u, queued[c][u]) : u \in Users, c \in Conns}
Stored == UNION {Pairs(u, offline[u]) : u \in Users}
Displayed == UNION {Pairs(u, received[u]) : u \in Users}
Fetched == UNION {Pairs(u, fetched[u]) : u \in Users}

\* The handlers that may store message m for user u take turns with u's logins:
\* groupChat stores under m_connMutex; oneChat, which stores after it has
\* released the mutex, does when it runs in the loop u logs in from.
InTurn(u, m) ==
  \/ m.kind = "groupchat"
  \/ \A c, d \in Conns :
       m.from \in AccountsOf[c] /\ u \in AccountsOf[d] => LoopOf[c] = LoopOf[d]

\* A message the server took for a recipient is in a handler, in a send
\* queue or in offlineMessage, has been forwarded or sent with the answer to
\* a login, or went to a client that had just left: groupChat keeps
\* m_connMutex from the lookup to the insert, so that no login can read
\* offlineMessage in between.
NothingLost ==
  \A p \in owed : InTurn(p[1], p[2]) =>
     p \in InHands \cup Queued \cup Stored \cup Displayed \cup Fetched \cup dropped

\* No message stored in turn waits for a user who is logged in and will not
\* read offlineMessage again before the next login.
InboxDrained ==
  \A c \in Conns : client[c] = "chatting" =>
     \A m \in Entries(offline[account[c]]) : ~InTurn(account[c], m)

\* What one writer sends is forwarded in the order it was written, also when
\* part of it was posted by another loop.  (A member of a group twice gets
\* its messages twice.)
WriterOrder ==
  \A u \in Users : \A i, j \in DOMAIN received[u] :
     i < j /\ received[u][i].from = received[u][j].from
       => received[u][i].n <= received[u][j].n

\* addGroup was called twice for a group: groupChat finds the user twice.
JoinedTwice(u, m) == m.kind = "groupchat" /\ \E g \in Groups : members[g][u] > 1

\* Nobody is sent a message twice: it is either forwarded or stored, and login
\* deletes what it has read.
NoDuplicates ==
  \A u \in Users :
     LET sent == received[u] \o fetched[u] IN
     \A i, j \in DOMAIN sent : sent[i] = sent[j] => i = j \/ JoinedTwice(u, sent[i])

\* login deletes no message it has not read, wherever handlers take turns with
\* it; in lost_offline they do not.
DeletesUnread(u, read) == {m \in Entries(offline[u]) : m \notin Entries(read)}
DeletesWhatItRead ==
  [][\A c \in Conns, u \in Users :
       pc[c] = "clearOffline" /\ pc'[c] = "reply" /\ hUser[c] = u
         => \A m \in DeletesUnread(u, hMsgs[c]) : ~InTurn(u, m)]_vars
DeletesOnlyRead ==
  [][\A c \in Conns, u \in Users :
       pc[c] = "clearOffline" /\ pc'[c] = "reply" /\ hUser[c] = u
         => DeletesUnread(u, hMsgs[c]) = {}]_vars

-----------------------------------------------------------------------------
(***************************************************************************)
(* Progress, under Fairness.                                               *)
(***************************************************************************)

\* The client's sem_wait after a login request ends: accepted, refused or
\* rejected, the request is answered unless a read took it behind another,
\* whatever the other connections of the loop do meanwhile.
LoginAnswered ==
  \A c \in Conns :
     client[c] = "waiting" ~> client[c] # "waiting" \/ <<c, "LOGIN_MSG">> \in lost

\* A session its client does not know of is confirmed or ends, unless a read
\* took the client's logout behind another request.
SessionsEnd ==
  \A c \in Conns, u \in Users :
     userConn[u] = c /\ account[c] # u
       ~> userConn[u] # c \/ account[c] = u \/ <<c, "LOGINOUT_MSG">> \in lost

\* A client that went away does not stay online: its connection's entry is
\* erased and its user set offline, unless the server goes down first or the
\* close scan left the entry (the case DeadEntryIsSecond speaks of).
DepartedGoesOffline ==
  \A c \in Conns, u \in Users :
     client[c] = "gone" /\ userConn[u] = c
       ~> state[u] = "offline" \/ Dead(u) \/ ~running
=============================================================================
