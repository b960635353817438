-------------------------- MODULE ClientProperties --------------------------
(***************************************************************************)
(* What makes the client correct: the hand-over between its two threads,   *)
(* and the protocol that ChatService takes it to follow.                   *)
(***************************************************************************)
EXTENDS Client, FiniteSets

AsksForAnswer(r) == r.type \in {"REG_MSG", "LOGIN_MSG"}
IsAnswer(r) == r # Forwarded

One(b) == IF b THEN 1 ELSE 0

Asked == {i \in DOMAIN toServer : AsksForAnswer(toServer[i])}
Sent == {i \in DOMAIN fromServer : IsAnswer(fromServer[i])}
Reading == reader \notin {"recv", "exited"}

\* The answers on their way to the main thread: asked for, being prepared,
\* sent, being read, posted.
Due == Cardinality(Asked) + One(answer # NoAnswer) + Cardinality(Sent) + One(Reading) + rwsem

\* rwsem hands the shared variables over: an answer is only ever on its way
\* while the main thread waits, and never two.  So the main thread does not
\* read g_currentUser, the flag or the friend list while readTaskHandler
\* writes them, and no wait ends with the answer to an earlier request.
OneAnswerPerWait == Due <= 1 /\ (Due = 1 => Waiting \/ main = "exited")

\* In the main menu the client speaks for the account that ChatService has
\* for its connection: the login was granted, and not yet given up.
SessionsAgree ==
  up /\ main = "mainMenu" /\ isMainMenuRunning =>
     sessions = {g_currentUser}

\* sem_wait returns when an answer is on its way (main: "readTaskHandler
\* tells us when it has handled the answer").
WaitEnds == Waiting /\ Due > 0 ~> ~Waiting

-----------------------------------------------------------------------------
\* The client as its server sees it.
Status ==
  CASE main = "exited" -> "gone"
    [] main \in {"menu", "sendLogin"} -> "menu"
    [] main = "waitReg" -> "registering"
    [] main \in {"waitLogin", "checkFlag"} -> "waiting"
    [] main = "mainMenu" -> IF isMainMenuRunning THEN "chatting" ELSE "menu"

Claim(r) ==
  CASE r.type = "REG_MSG" -> <<"register", NoUser>>
    [] r.type = "LOGIN_MSG" -> <<"login", r.user>>
    [] r.type = "LOGINOUT_MSG" -> <<"logout", r.user>>
    [] r.type = "COMMAND" -> <<"command", r.user>>

Claims == [i \in DOMAIN toServer |-> Claim(toServer[i])]

\* The account in whose name the client speaks
Granted == IF Status = "chatting" THEN g_currentUser ELSE NoUser

ProtocolOf ==
  INSTANCE ClientProtocol
  WITH status <- Status, out <- Claims, account <- Granted

\* The two threads, their flags and the semaphore implement the protocol:
\* one registration or login at a time, then commands in the name of the account
\* that was granted, up to the logout.
ImplementsProtocol == ProtocolOf!Spec
=============================================================================
