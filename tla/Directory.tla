------------------------------ MODULE Directory ------------------------------
(***************************************************************************)
(* Accounts, friends and groups: the handlers reg, addFriend, createGroup  *)
(* and addGroup, the statements of login that read the lists, and the      *)
(* lists the client keeps. Handlers of different clients run in different  *)
(* event loops and interleave between their SQL statements; the requests   *)
(* of one client are handled one after the other, so that a request which  *)
(* is not answered is taken to be sent when it is handled. Whether a login *)
(* is admitted is ChatService's matter: here every login is. The rows of a *)
(* query come in any order, and nothing depends on it: what a query and a  *)
(* list hold is a set.                                                     *)
(***************************************************************************)
EXTENDS Integers, Sequences, FiniteSets

CONSTANTS
  Clients,   \* the client processes
  Garbage,   \* what row[3] of a row of three columns may be read as
  MaxUsers, MaxGroups, MaxFriends, MaxMembers,  \* bounds on the rows of the tables
  MaxLogins, \* bound on the logins
  MaxFaults  \* bound on the statements that fail

ASSUME DirectoryAssumption ==
  /\ Garbage # {} /\ Garbage \subseteq Int
  /\ {MaxUsers, MaxGroups, MaxFriends, MaxMembers, MaxLogins, MaxFaults} \subseteq Nat

VARIABLES
  user,       \* table user, in the order of its ids: the name, here the client's
  friend,     \* table friend: rows [userid, friendid]
  allGroup,   \* table allGroup, in the order of its ids: the name, here its maker's id
  groupUser,  \* table groupUser: rows [groupid, userid, role]
  pc,         \* the statement the handler of a client is at
  job,        \* its locals: the user it is for, the id it got, the friends and groups
              \* of the answer, the rows of groupUser whose group is still to be read
  account,    \* g_currentUser while the main menu is shown, else 0
  known,      \* the ids whose registration the client was told of
  friendList, groupList,   \* g_currentUserFriendList, g_currentUserGroupList
  logins,     \* the logins so far
  faults      \* the statements that failed so far

tables == <<user, friend, allGroup, groupUser>>
screen == <<account, known, friendList, groupList, logins>>
vars == <<tables, pc, job, screen, faults>>

UserIds == 1..MaxUsers
GroupIds == 1..MaxGroups

NoJob == [user |-> 0, id |-> 0, friends |-> {}, groups |-> {}, todo |-> {}]

Init ==
  /\ user = <<>> /\ friend = <<>> /\ allGroup = <<>> /\ groupUser = <<>>
  /\ pc = [c \in Clients |-> "idle"] /\ job = [c \in Clients |-> NoJob]
  /\ account = [c \in Clients |-> 0] /\ known = [c \in Clients |-> {}]
  /\ friendList = [c \in Clients |-> {}] /\ groupList = [c \in Clients |-> {}]
  /\ logins = 0
  /\ faults = 0

Goto(c, at) == pc' = [pc EXCEPT ![c] = at]
Done(c) == Goto(c, "idle") /\ job' = [job EXCEPT ![c] = NoJob]

\* Connecting to MySQL or the statement itself fails.
Fails == faults < MaxFaults /\ faults' = faults + 1
Works == UNCHANGED faults

(***************************************************************************)
(* reg                                                                     *)
(***************************************************************************)
\* The name is stored; its id is read on the same connection.
Reg(c) ==
  /\ pc[c] = "idle" /\ account[c] = 0 /\ Len(user) < MaxUsers
  /\ \/ /\ Works
        /\ user' = Append(user, c)
        /\ job' = [job EXCEPT ![c].id = Len(user) + 1]
        /\ Goto(c, "registered")
     \/ Fails /\ UNCHANGED <<user, job, pc>>
  /\ UNCHANGED <<friend, allGroup, groupUser, screen>>

\* The id is the newest in the table.
RegAnswerNewest(c) ==
  /\ pc[c] = "registered"
  /\ known' = [known EXCEPT ![c] = @ \cup {Len(user)}]
  /\ Done(c)
  /\ UNCHANGED <<tables, account, friendList, groupList, logins, faults>>

\* mysql_insert_id, and the answer
RegAnswer(c) ==
  /\ pc[c] = "registered"
  /\ known' = [known EXCEPT ![c] = @ \cup {job[c].id}]
  /\ Done(c)
  /\ UNCHANGED <<tables, account, friendList, groupList, logins, faults>>

(***************************************************************************)
(* addFriend, createGroup and addGroup: nothing is answered. Any id may be *)
(* named, also one that nobody has yet.                                    *)
(***************************************************************************)
\* A row is kept for every handler that is between createGroup's statements.
RowLeft == Len(groupUser) + Cardinality({c \in Clients : pc[c] = "created"}) < MaxMembers

LoggedIn(c) == pc[c] = "idle" /\ account[c] # 0

AddFriend(c, f) ==
  /\ LoggedIn(c) /\ Len(friend) < MaxFriends
  /\ \/ Works /\ friend' = Append(friend, [userid |-> account[c], friendid |-> f])
     \/ Fails /\ UNCHANGED friend
  /\ UNCHANGED <<user, allGroup, groupUser, pc, job, screen>>

\* The id of the user is not kept for the second statement.
CreateGroupForgetful(c) ==
  /\ LoggedIn(c) /\ Len(allGroup) < MaxGroups /\ RowLeft
  /\ Works
  /\ allGroup' = Append(allGroup, account[c])
  /\ job' = [job EXCEPT ![c].id = Len(allGroup) + 1]
  /\ Goto(c, "created")
  /\ UNCHANGED <<user, friend, groupUser, screen>>

CreateGroup(c) ==
  /\ LoggedIn(c) /\ Len(allGroup) < MaxGroups /\ RowLeft
  /\ \/ /\ Works
        /\ allGroup' = Append(allGroup, account[c])
        /\ job' = [job EXCEPT ![c].user = account[c], ![c].id = Len(allGroup) + 1]
        /\ Goto(c, "created")
     \/ Fails /\ UNCHANGED <<allGroup, job, pc>>
  /\ UNCHANGED <<user, friend, groupUser, screen>>

Row(g, u, role) == [groupid |-> g, userid |-> u, role |-> role]

Join(row) ==
  \/ Works /\ groupUser' = Append(groupUser, row)
  \/ Fails /\ UNCHANGED groupUser

\* The creator gets the newest group.
AddCreatorNewest(c) ==
  /\ pc[c] = "created"
  /\ Join(Row(Len(allGroup), job[c].user, "creator"))
  /\ Done(c)
  /\ UNCHANGED <<user, friend, allGroup, screen>>

AddCreator(c) ==
  /\ pc[c] = "created"
  /\ Join(Row(job[c].id, job[c].user, "creator"))
  /\ Done(c)
  /\ UNCHANGED <<user, friend, allGroup, screen>>

AddGroup(c, g) ==
  /\ LoggedIn(c) /\ RowLeft
  /\ Join(Row(g, account[c], "normal"))
  /\ UNCHANGED <<user, friend, allGroup, pc, job, screen>>

(***************************************************************************)
(* login, from the moment it is admitted: the friends, the groups, then    *)
(* the members of one group after the other                                *)
(***************************************************************************)
Login(c, u) ==
  /\ pc[c] = "idle" /\ account[c] = 0 /\ u \in known[c] /\ logins < MaxLogins
  /\ logins' = logins + 1
  /\ job' = [job EXCEPT ![c].user = u]
  /\ Goto(c, "friends")
  /\ UNCHANGED <<tables, account, known, friendList, groupList, faults>>

\* The columns are id, name, state; name is set from the first, the id from a
\* fourth that is not there.
FriendRows(u) == {i \in DOMAIN friend : friend[i].userid = u /\ friend[i].friendid \in DOMAIN user}

QueryFriends(c) ==
  /\ pc[c] = "friends"
  /\ \/ /\ Works
        /\ \E junk \in [FriendRows(job[c].user) -> Garbage] :
             job' = [job EXCEPT ![c].friends =
                       {[id |-> junk[i], name |-> friend[i].friendid] : i \in FriendRows(job[c].user)}]
     \/ Fails /\ UNCHANGED job
  /\ Goto(c, "groups")
  /\ UNCHANGED <<tables, screen>>

\* One for every row that the user has in groupUser
GroupRows(u) ==
  {i \in DOMAIN groupUser : groupUser[i].userid = u /\ groupUser[i].groupid \in DOMAIN allGroup}

QueryGroups(c) ==
  /\ pc[c] = "groups"
  /\ \/ Works /\ job' = [job EXCEPT ![c].todo = GroupRows(job[c].user)]
     \/ Fails /\ UNCHANGED job
  /\ Goto(c, "members")
  /\ UNCHANGED <<tables, screen>>

Member(row) == [id |-> row.userid, role |-> row.role]

GroupMembers(g) ==
  {Member(groupUser[i]) : i \in {j \in DOMAIN groupUser :
     groupUser[j].groupid = g /\ groupUser[j].userid \in DOMAIN user}}

\* The group of row i is read, with the members given.
Gets(c, i, members) ==
  job' = [job EXCEPT ![c].groups = @ \cup {[id |-> groupUser[i].groupid, users |-> members]},
                     ![c].todo = @ \ {i}]

\* Every member the server has read so far goes to every group.
QueryMembersPiled(c) ==
  /\ pc[c] = "members"
  /\ \E i \in job[c].todo :
       \/ /\ Works
          /\ Gets(c, i, GroupMembers(groupUser[i].groupid) \cup UNION {g.users : g \in job[c].groups})
       \/ Fails /\ Gets(c, i, {})
  /\ UNCHANGED <<tables, pc, screen>>

\* A failed query ends the login without an answer.
QueryMembersGivesUp(c) ==
  /\ pc[c] = "members"
  /\ \E i \in job[c].todo :
       \/ Works /\ Gets(c, i, GroupMembers(groupUser[i].groupid)) /\ UNCHANGED pc
       \/ Fails /\ Done(c)
  /\ UNCHANGED <<tables, screen>>

QueryMembers(c) ==
  /\ pc[c] = "members"
  /\ \E i \in job[c].todo :
       \/ Works /\ Gets(c, i, GroupMembers(groupUser[i].groupid))
       \/ Fails /\ Gets(c, i, {})
  /\ UNCHANGED <<tables, pc, screen>>

\* The client appends what it gets to what it has.
LoginAnswer(c) ==
  /\ pc[c] = "members" /\ job[c].todo = {}
  /\ account' = [account EXCEPT ![c] = job[c].user]
  /\ friendList' = [friendList EXCEPT ![c] = @ \cup job[c].friends]
  /\ groupList' = [groupList EXCEPT ![c] = @ \cup job[c].groups]
  /\ Done(c)
  /\ UNCHANGED <<tables, known, logins, faults>>

Loginout(c) ==
  /\ LoggedIn(c)
  /\ account' = [account EXCEPT ![c] = 0]
  /\ UNCHANGED <<tables, pc, job, known, friendList, groupList, logins, faults>>

(***************************************************************************)
(* The specification: a handler that has begun goes on (its loop does      *)
(* nothing else until it returns).                                         *)
(***************************************************************************)
Handler(c) ==
  \/ RegAnswer(c) \/ AddCreator(c)
  \/ QueryFriends(c) \/ QueryGroups(c) \/ QueryMembers(c) \/ LoginAnswer(c)

Request(c) ==
  \/ Reg(c) \/ CreateGroup(c) \/ Loginout(c)
  \/ \E f \in UserIds : AddFriend(c, f)
  \/ \E g \in GroupIds : AddGroup(c, g)
  \/ \E u \in UserIds : Login(c, u)

Next == \E c \in Clients : Handler(c) \/ Request(c)

Spec == Init /\ [][Next]_vars

FairSpec == Spec /\ \A c \in Clients : WF_vars(Handler(c))
=============================================================================
