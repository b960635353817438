---------------------------- MODULE MCChatService ----------------------------
(***************************************************************************)
(* Small instances of ChatService for TLC: who sits at which client and    *)
(* how the connections are spread over the event loops.                    *)
(***************************************************************************)
EXTENDS ChatProperties, TLC

CONSTANTS u1, u2, c1, c2, g1

\* setThreadNum(4): connections dealt out to different loops ...
OwnLoops == [c \in Conns |-> c]
\* ... or all on one.
OneLoop == [c \in Conns |-> "loop"]

\* Every client is used with its own account.
PrivateAccounts == c1 :> {u1} @@ c2 :> {u2}
\* u1 is used from both clients, u2 from one.
SharedAccount == c1 :> {u1} @@ c2 :> {u1, u2}
\* Everybody logs in everywhere.
AnyAccount == [c \in Conns |-> Users]

\* The group starts with one member ...
FirstMember == [g \in Groups |-> [u \in Users |-> IF u = u1 THEN 1 ELSE 0]]
\* ... who may have joined twice.
TwiceMember == [g \in Groups |-> [u \in Users |-> IF u = u1 THEN 2 ELSE 0]]
=============================================================================
