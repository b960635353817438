--------------------------- MODULE ClientProtocol ---------------------------
(***************************************************************************)
(* What a chat client promises the server, without saying how: one         *)
(* registration or login at a time, answered before anything else is       *)
(* asked; commands and the logout only while logged in, in the name of the *)
(* account that was granted; nothing more after the client has gone.       *)
(* ChatService takes every client to be like this.                         *)
(***************************************************************************)
EXTENDS Naturals, Sequences

CONSTANTS Accounts, NoUser

VARIABLES
  status,    \* "gone", "menu", "registering", "waiting", "chatting"
  account,   \* the account granted, while chatting
  out        \* what the requests under way are for, and in whose name

vars == <<status, account, out>>

Init == status \in {"gone", "menu"} /\ account = NoUser /\ out = <<>>

Connect ==
  /\ status = "gone"
  /\ status' = "menu"
  /\ out' = <<>>
  /\ UNCHANGED account

\* The client waits for an answer, even when the request could not be sent.
Register ==
  /\ status = "menu"
  /\ status' = "registering"
  /\ out' \in {out, Append(out, <<"register", NoUser>>)}
  /\ UNCHANGED account

Registered ==
  /\ status = "registering"
  /\ status' = "menu"
  /\ UNCHANGED <<account, out>>

AskLogin(u) ==
  /\ status = "menu"
  /\ status' = "waiting"
  /\ out' \in {out, Append(out, <<"login", u>>)}
  /\ UNCHANGED account

Granted(u) ==
  /\ status = "waiting"
  /\ status' = "chatting"
  /\ account' = u
  /\ UNCHANGED out

\* The server takes the first request, and perhaps others behind it.
TakeSome == \E n \in 1 .. Len(out) : out' = SubSeq(out, n + 1, Len(out))

Taken == TakeSome /\ UNCHANGED <<status, account>>

\* A refusal may come while its request is taken.
Denied ==
  /\ status = "waiting"
  /\ status' = "menu"
  /\ UNCHANGED out \/ TakeSome
  /\ UNCHANGED account

Say ==
  /\ status = "chatting"
  /\ out' = Append(out, <<"command", account>>)
  /\ UNCHANGED <<status, account>>

Leave ==
  /\ status = "chatting"
  /\ status' = "menu"
  /\ account' = NoUser
  /\ out' = Append(out, <<"logout", account>>)

\* The client ends; the requests under way may be lost with it.
Quit ==
  /\ status' = "gone"
  /\ account' = NoUser
  /\ out' \in {out, <<>>}

\* The server ends, and what is under way is lost; the client sees it later.
Dropped ==
  /\ out' = <<>>
  /\ UNCHANGED <<status, account>>

Next ==
  \/ Connect \/ Register \/ Registered \/ Denied \/ Say \/ Leave \/ Taken \/ Quit \/ Dropped
  \/ \E u \in Accounts : AskLogin(u) \/ Granted(u)

Spec == Init /\ [][Next]_vars
=============================================================================
