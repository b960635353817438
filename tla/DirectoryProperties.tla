------------------------ MODULE DirectoryProperties ------------------------
(***************************************************************************)
(* What users can rely on about accounts, friends and groups.              *)
(***************************************************************************)
EXTENDS Directory

Roles == {"creator", "normal"}

Members == SUBSET [id : UserIds, role : Roles]
Groups == SUBSET [id : GroupIds, users : Members]
Friends == SUBSET [id : Garbage, name : UserIds]

TablesOK ==
  /\ user \in Seq(Clients) /\ Len(user) <= MaxUsers
  /\ friend \in Seq([userid : UserIds, friendid : UserIds])
  /\ allGroup \in Seq(UserIds) /\ Len(allGroup) <= MaxGroups
  /\ groupUser \in Seq([groupid : GroupIds, userid : UserIds, role : Roles])

\* A handler that works for a user works for one its client was told of, and
\* keeps the id it needs for its next statement.
JobOK(c) ==
  /\ job[c] \in [user : UserIds \cup {0}, id : UserIds \cup GroupIds \cup {0},
                 friends : Friends, groups : Groups, todo : SUBSET Nat]
  /\ pc[c] \in {"created", "friends", "groups", "members"} => job[c].user \in known[c]
  /\ pc[c] = "registered" => job[c].id \in UserIds
  /\ pc[c] = "created" => job[c].id \in GroupIds
  /\ pc[c] # "members" => job[c].todo = {}
  /\ job[c].todo \subseteq DOMAIN groupUser

\* The tables hold rows of their columns, the lists what was read from them.
TypeOK ==
  /\ TablesOK
  /\ pc \in [Clients -> {"idle", "registered", "created", "friends", "groups", "members"}]
  /\ DOMAIN job = Clients
  /\ known \in [Clients -> SUBSET UserIds] /\ account \in [Clients -> UserIds \cup {0}]
  /\ \A c \in Clients : JobOK(c) /\ account[c] \in known[c] \cup {0}
  /\ friendList \in [Clients -> Friends] /\ groupList \in [Clients -> Groups]
  /\ logins \in 0..MaxLogins /\ faults \in 0..MaxFaults

\* Whoever is told an id by reg owns it: the row of that id holds the name it
\* registered, and nobody else was told it, however registrations in several
\* loops interleave between the insert and the read of its id.
IdsAreOwn == \A c \in Clients : \A u \in known[c] : u \in DOMAIN user /\ user[u] = c

\* A group has at most one creator, the user that made it (createGroup's two
\* statements use the id that the first one got).
CreatorsMadeIt ==
  \A i, j \in DOMAIN groupUser :
    LET r == groupUser[i]
        s == groupUser[j]
    IN r.role = "creator" =>
         /\ r.groupid \in DOMAIN allGroup /\ allGroup[r.groupid] = r.userid
         /\ (s.role = "creator" /\ s.groupid = r.groupid) => i = j

IsMember(g, m) == \E i \in DOMAIN groupUser : groupUser[i] = Row(g, m.id, m.role)

Sound(c, g) ==
  /\ \A m \in g.users : IsMember(g.id, m)
  /\ faults = 0 => \E m \in g.users : m.id \in known[c]

\* Every member a client shows under a group is one, in the role shown, and if
\* no statement failed the group shows the user it was read for, though groups
\* and members are read by different statements (queryGroups).
ListsSound == \A c \in Clients : \A g \in groupList[c] : Sound(c, g)

HasCreator(g) == \E i \in DOMAIN groupUser : groupUser[i].groupid = g /\ groupUser[i].role = "creator"

\* A group that was made gets its creator as a member, unless a statement fails
\* between (chatservice.cpp:318-322).
GroupGetsCreator == \A g \in GroupIds : (g \in DOMAIN allGroup) ~> (HasCreator(g) \/ faults > 0)

\* A login that was admitted is answered, after as many statements as the user
\* has groups, failing ones among them.
LoginCompletes == \A c \in Clients : (pc[c] = "friends") ~> (account[c] # 0)

\* src/src/client/main.cpp:35: the list holds the friends of the user who is logged in.
FriendsShown ==
  \A c \in Clients : account[c] # 0 =>
    \A f \in friendList[c] :
      \E j \in DOMAIN friend : friend[j] = [userid |-> account[c], friendid |-> f.id]
=============================================================================
