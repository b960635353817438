------------------------------ MODULE Presence ------------------------------
(***************************************************************************)
(* What the chat service promises about sessions, without saying how: an   *)
(* account has at most one session; a client is told that it is logged in  *)
(* only for a session it holds; and the session lasts at least as long as  *)
(* the client believes in it.                                              *)
(***************************************************************************)
CONSTANTS Users, Conns, NoUser, NoConn

VARIABLES
  holder,   \* the connection that has the session of each user
  told      \* the account each client believes it is logged in with

vars == <<holder, told>>

Init ==
  /\ holder = [u \in Users |-> NoConn]
  /\ told = [c \in Conns |-> NoUser]

\* A session begins; the client does not know yet.
Admit(u, c) ==
  /\ holder[u] = NoConn
  /\ holder' = [holder EXCEPT ![u] = c]
  /\ UNCHANGED told

\* The client learns of its session.
Confirm(u, c) ==
  /\ holder[u] = c
  /\ told[c] = NoUser
  /\ told' = [told EXCEPT ![c] = u]
  /\ UNCHANGED holder

\* The client logs out or goes away.
Forget(c) ==
  /\ told[c] # NoUser
  /\ told' = [told EXCEPT ![c] = NoUser]
  /\ UNCHANGED holder

\* The session ends, after its client.
Release(u, c) ==
  /\ holder[u] = c
  /\ told[c] # u
  /\ holder' = [holder EXCEPT ![u] = NoConn]
  /\ UNCHANGED told

\* The service goes down with every session and every client.
GoDown ==
  /\ holder' = [u \in Users |-> NoConn]
  /\ told' = [c \in Conns |-> NoUser]

Next ==
  \/ \E u \in Users, c \in Conns : Admit(u, c) \/ Confirm(u, c) \/ Release(u, c)
  \/ \E c \in Conns : Forget(c)
  \/ GoDown

Spec == Init /\ [][Next]_vars

-----------------------------------------------------------------------------
\* No two clients are told that they are logged in with the same account.
ExclusiveLogin ==
  \A c, d \in Conns : told[c] # NoUser /\ told[c] = told[d] => c = d

\* Who is told it is logged in can be reached.
ToldIsReachable ==
  \A c \in Conns : told[c] # NoUser => holder[told[c]] = c
=============================================================================
