--------------------------- MODULE DirectoryProofs ---------------------------
(***************************************************************************)
(* Accounts are their owners', creators made their groups, and what a      *)
(* client shows of a group is true: for any clients, any number of users,  *)
(* groups, rows, logins and failing statements.                            *)
(***************************************************************************)
EXTENDS DirectoryProperties, TLAPS

Owns(c, u) == u \in DOMAIN user /\ user[u] = c

\* An id is its owner's already when reg has not yet answered.
IdsInv == IdsAreOwn /\ \A c \in Clients : pc[c] = "registered" => Owns(c, job[c].id)

\* Between createGroup's statements the group has no creator, and no other
\* handler is about to give it one.
Making(c) ==
  /\ job[c].id \in DOMAIN allGroup /\ allGroup[job[c].id] = job[c].user
  /\ ~HasCreator(job[c].id)
  /\ \A d \in Clients : pc[d] = "created" /\ job[d].id = job[c].id => d = c

CreatorsInv == CreatorsMadeIt /\ \A c \in Clients : pc[c] = "created" => Making(c)

\* What login has read so far is sound, and the rows it has still to go through
\* are its user's.
ListsInv ==
  /\ ListsSound
  /\ \A c \in Clients :
       /\ \A g \in job[c].groups : Sound(c, g)
       /\ \A i \in job[c].todo : groupUser[i].userid = job[c].user

DirectoryInv == TypeOK /\ IdsInv /\ CreatorsInv /\ ListsInv

-----------------------------------------------------------------------------
\* Nobody has an account at first, and no list holds anything.
LEMMA Begins == Init => DirectoryInv
  <1> SUFFICES ASSUME Init PROVE DirectoryInv
    OBVIOUS
  <1> USE DirectoryAssumption DEF Init, NoJob
  <1>1. TablesOK
    BY DEF TablesOK
  <1>2. \A c \in Clients : JobOK(c)
    BY DEF JobOK, Friends, Groups
  <1>3. TypeOK
    BY <1>1, <1>2 DEF TypeOK, Friends, Groups
  <1>4. IdsInv /\ CreatorsInv /\ ListsInv
    BY DEF IdsInv, IdsAreOwn, CreatorsInv, CreatorsMadeIt, ListsInv, ListsSound
  <1> QED  BY <1>3, <1>4 DEF DirectoryInv

\* A table to which at most one row is added keeps its rows and their columns.
LEMMA Extended ==
  ASSUME NEW S, NEW s \in Seq(S), NEW x \in S, NEW t, t = s \/ t = Append(s, x)
  PROVE  /\ t \in Seq(S) /\ Len(t) \in {Len(s), Len(s) + 1}
         /\ DOMAIN s \subseteq DOMAIN t
         /\ \A i \in DOMAIN s : t[i] = s[i]
  OBVIOUS

\* Adding a row gives it the next place.
LEMMA Appended ==
  ASSUME NEW S, NEW s \in Seq(S), NEW x
  PROVE  /\ DOMAIN Append(s, x) = DOMAIN s \cup {Len(s) + 1} /\ Len(s) + 1 \notin DOMAIN s
         /\ \A i \in DOMAIN s : Append(s, x)[i] = s[i]
         /\ Append(s, x)[Len(s) + 1] = x
  OBVIOUS

\* What a step does to the tables as every handler sees it: rows are added, at the
\* end, and a client is told more ids.
Grows ==
  /\ DOMAIN user \subseteq DOMAIN user' /\ \A u \in DOMAIN user : user'[u] = user[u]
  /\ DOMAIN allGroup \subseteq DOMAIN allGroup'
  /\ \A g \in DOMAIN allGroup : allGroup'[g] = allGroup[g]
  /\ DOMAIN groupUser \subseteq DOMAIN groupUser'
  /\ \A i \in DOMAIN groupUser : groupUser'[i] = groupUser[i]
  /\ \A c \in Clients : known[c] \subseteq known'[c]
  /\ faults' \in {faults, faults + 1}

\* A handler leaves the locals of the others alone.
OthersKeep(c) ==
  \A d \in Clients \ {c} :
    pc'[d] = pc[d] /\ job'[d] = job[d] /\ account'[d] = account[d]

\* Every action works on the locals of its own client.
LEMMA KeepsOthers ==
  ASSUME TypeOK, NEW c \in Clients, Handler(c) \/ Request(c)
  PROVE  OthersKeep(c)
  <1> USE DEF TypeOK, OthersKeep, Goto, Done, NoJob, Gets, screen, LoggedIn
  <1>1. CASE Reg(c) \/ CreateGroup(c) \/ Loginout(c)
    BY <1>1 DEF Reg, CreateGroup, Loginout
  <1>2. ASSUME NEW f \in UserIds, AddFriend(c, f) PROVE OthersKeep(c)
    BY <1>2 DEF AddFriend
  <1>3. ASSUME NEW g \in GroupIds, AddGroup(c, g) PROVE OthersKeep(c)
    BY <1>3 DEF AddGroup
  <1>4. ASSUME NEW u \in UserIds, Login(c, u) PROVE OthersKeep(c)
    BY <1>4 DEF Login
  <1>5. CASE RegAnswer(c) \/ AddCreator(c)
    BY <1>5 DEF RegAnswer, AddCreator
  <1>6. CASE QueryFriends(c) \/ QueryGroups(c) \/ QueryMembers(c) \/ LoginAnswer(c)
    BY <1>6 DEF QueryFriends, QueryGroups, QueryMembers, LoginAnswer
  <1> QED  BY <1>1, <1>2, <1>3, <1>4, <1>5, <1>6 DEF Handler, Request

Rows == [groupid : GroupIds, userid : UserIds, role : Roles]

\* groupUser gets at most one row, of its columns, from addGroup or after createGroup.
LEMMA OneRow ==
  ASSUME TypeOK, NEW c \in Clients, AddCreator(c) \/ \E g \in GroupIds : AddGroup(c, g)
  PROVE  \E row \in Rows : groupUser' = groupUser \/ groupUser' = Append(groupUser, row)
  <1> USE DEF TypeOK, Row, Rows, Roles, Join
  <1>1. CASE AddCreator(c)
    <2>1. Row(job[c].id, job[c].user, "creator") \in Rows
      BY <1>1 DEF AddCreator, JobOK
    <2> QED  BY <1>1, <2>1 DEF AddCreator
  <1>2. ASSUME NEW g \in GroupIds, AddGroup(c, g)
        PROVE  \E row \in Rows : groupUser' = groupUser \/ groupUser' = Append(groupUser, row)
    <2>1. Row(g, account[c], "normal") \in Rows
      BY <1>2 DEF AddGroup, LoggedIn
    <2> QED  BY <1>2, <2>1 DEF AddGroup
  <1> QED  BY <1>1, <1>2

\* Rows are added with what the columns hold and while there is room; none is
\* deleted or changed.
LEMMA TablesStep ==
  ASSUME TypeOK, NEW c \in Clients, Handler(c) \/ Request(c)
  PROVE  TablesOK' /\ Grows
  <1> USE DirectoryAssumption DEF tables, screen, Fails, Works
  <1>1. /\ user \in Seq(Clients) /\ Len(user) <= MaxUsers
        /\ friend \in Seq([userid : UserIds, friendid : UserIds])
        /\ allGroup \in Seq(UserIds) /\ Len(allGroup) <= MaxGroups
        /\ groupUser \in Seq(Rows)
        /\ known \in [Clients -> SUBSET UserIds]
    BY DEF TypeOK, TablesOK, Rows
  <1>2. CASE Reg(c)
    <2>1. user' = user \/ (user' = Append(user, c) /\ Len(user) < MaxUsers)
      BY <1>2 DEF Reg
    <2>2. /\ user' \in Seq(Clients) /\ Len(user') <= MaxUsers
          /\ DOMAIN user \subseteq DOMAIN user' /\ \A u \in DOMAIN user : user'[u] = user[u]
      BY <1>1, <2>1, Extended
    <2> QED  BY <1>1, <1>2, <2>2 DEF Reg, TablesOK, Grows, Rows
  <1>3. CASE CreateGroup(c)
    <2>1. /\ account[c] \in UserIds
          /\ allGroup' = allGroup \/ (allGroup' = Append(allGroup, account[c]) /\ Len(allGroup) < MaxGroups)
      BY <1>3 DEF CreateGroup, LoggedIn, TypeOK
    <2>2. /\ allGroup' \in Seq(UserIds) /\ Len(allGroup') <= MaxGroups
          /\ DOMAIN allGroup \subseteq DOMAIN allGroup'
          /\ \A g \in DOMAIN allGroup : allGroup'[g] = allGroup[g]
      BY <1>1, <2>1, Extended
    <2> QED  BY <1>1, <1>3, <2>2 DEF CreateGroup, TablesOK, Grows, Rows
  <1>4. ASSUME NEW f \in UserIds, AddFriend(c, f) PROVE TablesOK' /\ Grows
    <2> DEFINE row == [userid |-> account[c], friendid |-> f]
    <2>1. /\ row \in [userid : UserIds, friendid : UserIds]
          /\ friend' = friend \/ friend' = Append(friend, row)
      BY <1>4 DEF AddFriend, LoggedIn, TypeOK
    <2>2. friend' \in Seq([userid : UserIds, friendid : UserIds])
      <3> HIDE DEF row
      <3> QED  BY <1>1, <2>1, Extended
    <2> QED  BY <1>1, <1>4, <2>2 DEF AddFriend, TablesOK, Grows, Rows
  <1>5. CASE AddCreator(c) \/ \E g \in GroupIds : AddGroup(c, g)
    <2>1. PICK row \in Rows : groupUser' = groupUser \/ groupUser' = Append(groupUser, row)
      BY <1>5, OneRow
    <2>2. /\ groupUser' \in Seq(Rows) /\ DOMAIN groupUser \subseteq DOMAIN groupUser'
          /\ \A i \in DOMAIN groupUser : groupUser'[i] = groupUser[i]
      BY <1>1, <2>1, Extended
    <2>3. UNCHANGED <<user, friend, allGroup, known>> /\ (UNCHANGED faults \/ faults' = faults + 1)
      BY <1>5 DEF AddCreator, AddGroup, Join
    <2> QED  BY <1>1, <2>2, <2>3 DEF TablesOK, Grows, Rows
  <1>6. CASE \/ Loginout(c) \/ RegAnswer(c) \/ (\E u \in UserIds : Login(c, u))
             \/ QueryFriends(c) \/ QueryGroups(c) \/ QueryMembers(c) \/ LoginAnswer(c)
    <2>1. /\ UNCHANGED tables /\ (UNCHANGED faults \/ faults' = faults + 1)
          /\ UNCHANGED known \/ known' = [known EXCEPT ![c] = @ \cup {job[c].id}]
      BY <1>6 DEF Loginout, RegAnswer, Login, QueryFriends, QueryGroups, QueryMembers, LoginAnswer
    <2> QED  BY <1>1, <2>1 DEF TablesOK, Grows, Rows
  <1> QED  BY <1>2, <1>3, <1>4, <1>5, <1>6 DEF Handler, Request

-----------------------------------------------------------------------------
\* A handler that does not move stays typed: rows and ids it relies on stay.
LEMMA RestsTyped ==
  ASSUME TypeOK, Grows, NEW d \in Clients, pc'[d] = pc[d], job'[d] = job[d]
  PROVE  JobOK(d)'
  BY DEF TypeOK, Grows, JobOK

\* What a row holds.
LEMMA RowFields ==
  ASSUME TypeOK
  PROVE  /\ \A i \in DOMAIN groupUser :
              /\ i \in Nat /\ groupUser[i] \in Rows /\ groupUser[i].groupid \in GroupIds
              /\ groupUser[i].userid \in UserIds /\ groupUser[i].role \in Roles
         /\ \A i \in DOMAIN friend : friend[i].friendid \in UserIds
  <1>1. ASSUME NEW S, NEW s \in Seq(S), NEW i \in DOMAIN s PROVE i \in Nat /\ s[i] \in S
    OBVIOUS
  <1>2. groupUser \in Seq(Rows) /\ friend \in Seq([userid : UserIds, friendid : UserIds])
    BY DEF TypeOK, TablesOK, Rows
  <1>3. \A i \in DOMAIN groupUser : i \in Nat /\ groupUser[i] \in Rows
    BY <1>1, <1>2
  <1>4. \A i \in DOMAIN friend : friend[i] \in [userid : UserIds, friendid : UserIds]
    BY <1>1, <1>2
  <1> QED  BY <1>3, <1>4 DEF Rows

\* What the queries give is what the lists hold.
LEMMA RowsTyped ==
  ASSUME TypeOK
  PROVE  /\ \A u : \A junk \in [FriendRows(u) -> Garbage] :
              {[id |-> junk[i], name |-> friend[i].friendid] : i \in FriendRows(u)} \in Friends
         /\ \A u : GroupRows(u) \in SUBSET Nat /\ GroupRows(u) \subseteq DOMAIN groupUser
         /\ \A g : GroupMembers(g) \in Members
  BY RowFields DEF FriendRows, Friends, GroupRows, GroupMembers, Member, Members

\* Every statement leaves its handler with locals of their types.
LEMMA JobStep ==
  ASSUME TypeOK, Grows, NEW c \in Clients, Handler(c) \/ Request(c)
  PROVE  JobOK(c)' /\ DOMAIN job' = Clients
  <1> USE DirectoryAssumption DEF Goto, Done, Fails, Works, tables, screen
  <1>1. CASE Reg(c)
    <2>1. CASE UNCHANGED <<pc, job>>
      BY <2>1, RestsTyped DEF TypeOK
    <2>2. CASE Len(user) < MaxUsers /\ job' = [job EXCEPT ![c].id = Len(user) + 1] /\ Goto(c, "registered")
      <3>1. Len(user) + 1 \in UserIds
        BY <2>2 DEF TypeOK, TablesOK, UserIds
      <3>2. pc[c] = "idle" /\ UNCHANGED <<known, groupUser>>
        BY <1>1 DEF Reg
      <3> QED  BY <2>2, <3>1, <3>2 DEF TypeOK, JobOK
    <2> QED  BY <1>1, <2>1, <2>2 DEF Reg
  <1>2. CASE CreateGroup(c)
    <2>1. CASE UNCHANGED <<pc, job>>
      BY <2>1, RestsTyped DEF TypeOK
    <2>2. CASE /\ Len(allGroup) < MaxGroups /\ Goto(c, "created")
               /\ job' = [job EXCEPT ![c].user = account[c], ![c].id = Len(allGroup) + 1]
      <3>1. Len(allGroup) + 1 \in GroupIds
        BY <2>2 DEF TypeOK, TablesOK, GroupIds
      <3>2. account[c] \in known[c] /\ account[c] \in UserIds /\ known' = known /\ groupUser' = groupUser
        BY <1>2 DEF CreateGroup, LoggedIn, TypeOK
      <3>3. pc[c] = "idle"
        BY <1>2 DEF CreateGroup, LoggedIn
      <3> QED  BY <2>2, <3>1, <3>2, <3>3 DEF TypeOK, JobOK
    <2> QED  BY <1>2, <2>1, <2>2 DEF CreateGroup
  <1>3. CASE Loginout(c) \/ (\E f \in UserIds : AddFriend(c, f)) \/ \E g \in GroupIds : AddGroup(c, g)
    BY <1>3, RestsTyped DEF Loginout, AddFriend, AddGroup, TypeOK
  <1>4. ASSUME NEW u \in UserIds, Login(c, u) PROVE JobOK(c)' /\ DOMAIN job' = Clients
    BY <1>4 DEF Login, TypeOK, JobOK
  <1>5. CASE RegAnswer(c) \/ AddCreator(c) \/ LoginAnswer(c)
    <2>1. pc'[c] = "idle" /\ job'[c] = NoJob /\ DOMAIN job' = Clients
      BY <1>5 DEF RegAnswer, AddCreator, LoginAnswer, TypeOK
    <2> QED  BY <2>1 DEF JobOK, NoJob, Friends, Groups
  <1>6. CASE QueryFriends(c)
    <2>1. job' = job \/ \E rows \in Friends : job' = [job EXCEPT ![c].friends = rows]
      <3>1. ASSUME NEW junk \in [FriendRows(job[c].user) -> Garbage]
            PROVE  {[id |-> junk[i], name |-> friend[i].friendid] : i \in FriendRows(job[c].user)} \in Friends
        BY RowsTyped
      <3> QED  BY <1>6, <3>1, Zenon DEF QueryFriends
    <2>2. /\ pc[c] = "friends" /\ pc' = [pc EXCEPT ![c] = "groups"]
          /\ UNCHANGED <<known, groupUser>>
      BY <1>6 DEF QueryFriends
    <2> QED  BY <2>1, <2>2 DEF TypeOK, JobOK
  <1>7. CASE QueryGroups(c)
    <2> DEFINE rows == GroupRows(job[c].user)
    <2>1. rows \in SUBSET Nat /\ rows \subseteq DOMAIN groupUser
      BY RowsTyped
    <2>2. job' = job \/ job' = [job EXCEPT ![c].todo = rows]
      BY <1>7 DEF QueryGroups
    <2>3. /\ pc[c] = "groups" /\ pc' = [pc EXCEPT ![c] = "members"]
          /\ UNCHANGED <<known, groupUser>>
      BY <1>7 DEF QueryGroups
    <2> HIDE DEF rows
    <2> QED  BY <2>1, <2>2, <2>3 DEF TypeOK, JobOK
  <1>8. CASE QueryMembers(c)
    <2>1. PICK i \in job[c].todo, members \in Members : Gets(c, i, members)
      BY <1>8, RowsTyped DEF QueryMembers, Members
    <2>2. groupUser[i].groupid \in GroupIds
      BY RowFields DEF TypeOK, JobOK
    <2>3. [id |-> groupUser[i].groupid, users |-> members] \in [id : GroupIds, users : Members]
      BY <2>2
    <2> QED  BY <1>8, <2>1, <2>3 DEF QueryMembers, Gets, TypeOK, JobOK, Groups
  <1> QED  BY <1>1, <1>2, <1>3, <1>4, <1>5, <1>6, <1>7, <1>8 DEF Handler, Request

\* The tables, the handlers and the lists stay typed, step by step.
LEMMA TypeStep ==
  ASSUME TypeOK, [Next]_vars
  PROVE  TypeOK'
  <1>1. CASE UNCHANGED vars
    BY <1>1 DEF vars, tables, screen, TypeOK, TablesOK, JobOK
  <1>2. ASSUME NEW c \in Clients, Handler(c) \/ Request(c) PROVE TypeOK'
    <2>1. TablesOK' /\ Grows /\ JobOK(c)' /\ DOMAIN job' = Clients
      BY <1>2, TablesStep, JobStep
    <2>2. \A d \in Clients : JobOK(d)'
      BY <1>2, <2>1, KeepsOthers, RestsTyped DEF OthersKeep
    <2> USE DEF Goto, Done, tables, screen, Fails, Works, TypeOK, LoggedIn
    <2>3. pc' \in [Clients -> {"idle", "registered", "created", "friends", "groups", "members"}]
      BY <1>2 DEF Handler, Request, Reg, CreateGroup, Loginout, AddFriend, AddGroup, Login,
                  RegAnswer, AddCreator, QueryFriends, QueryGroups, QueryMembers, LoginAnswer
    <2>4. known' \in [Clients -> SUBSET UserIds]
      <3>1. \/ known' = known
            \/ pc[c] = "registered" /\ known' = [known EXCEPT ![c] = @ \cup {job[c].id}]
        BY <1>2 DEF Handler, Request, Reg, CreateGroup, Loginout, AddFriend, AddGroup, Login,
                    RegAnswer, AddCreator, QueryFriends, QueryGroups, QueryMembers, LoginAnswer
      <3> QED  BY <3>1 DEF JobOK
    <2>5. /\ friendList' \in [Clients -> Friends] /\ groupList' \in [Clients -> Groups]
          /\ account' \in [Clients -> UserIds \cup {0}]
      <3>1. CASE UNCHANGED <<account, friendList, groupList>>
        BY <3>1
      <3>2. CASE Loginout(c)
        BY <3>2 DEF Loginout
      <3>3. CASE LoginAnswer(c)
        <4>1. job[c].user \in UserIds \cup {0} /\ job[c].friends \in Friends /\ job[c].groups \in Groups
          BY DEF JobOK
        <4> QED  BY <3>3, <4>1 DEF LoginAnswer, Friends, Groups
      <3> QED  BY <1>2, <3>1, <3>2, <3>3
               DEF Handler, Request, Reg, CreateGroup, AddFriend, AddGroup, Login,
                   RegAnswer, AddCreator, QueryFriends, QueryGroups, QueryMembers
    <2>6. \A d \in Clients : account'[d] \in known'[d] \cup {0}
      <3>1. account'[c] \in {account[c], 0, job[c].user}
        BY <1>2 DEF Handler, Request, Reg, CreateGroup, Loginout, AddFriend, AddGroup, Login,
                    RegAnswer, AddCreator, QueryFriends, QueryGroups, QueryMembers, LoginAnswer
      <3>2. account'[c] = account[c] \/ account'[c] = 0 \/ pc[c] = "members"
        BY <1>2 DEF Handler, Request, Reg, CreateGroup, Loginout, AddFriend, AddGroup, Login,
                    RegAnswer, AddCreator, QueryFriends, QueryGroups, QueryMembers, LoginAnswer
      <3>3. account'[c] \in known[c] \cup {0}
        BY <3>1, <3>2 DEF JobOK
      <3> QED  BY <1>2, <2>1, <3>3, KeepsOthers DEF OthersKeep, Grows
    <2>7. logins' \in 0..MaxLogins /\ faults' \in 0..MaxFaults
      <3>1. logins' = logins \/ (logins < MaxLogins /\ logins' = logins + 1)
        BY <1>2 DEF Handler, Request, Reg, CreateGroup, Loginout, AddFriend, AddGroup, Login,
                    RegAnswer, AddCreator, QueryFriends, QueryGroups, QueryMembers, LoginAnswer
      <3>2. faults' = faults \/ (faults < MaxFaults /\ faults' = faults + 1)
        BY <1>2 DEF Handler, Request, Reg, CreateGroup, Loginout, AddFriend, AddGroup, Login, Join,
                    RegAnswer, AddCreator, QueryFriends, QueryGroups, QueryMembers, LoginAnswer
      <3> QED  BY <3>1, <3>2, DirectoryAssumption
    <2> QED  BY <2>1, <2>2, <2>3, <2>4, <2>5, <2>6, <2>7
  <1> QED  BY <1>1, <1>2 DEF Next

\* The tables hold rows of their columns, each handler the locals that its next
\* statement needs, and each client what it was sent.
THEOREM TypeCorrect == Spec => []TypeOK
  <1>1. Init => TypeOK
    BY Begins DEF DirectoryInv
  <1>2. TypeOK /\ [Next]_vars => TypeOK'
    BY TypeStep
  <1> QED  BY <1>1, <1>2, PTL DEF Spec

-----------------------------------------------------------------------------
\* An id read on the connection that inserted the row is the row's, whatever other
\* handlers insert in between; so nobody is told another's.
LEMMA IdsStep ==
  ASSUME TypeOK, IdsInv, [Next]_vars
  PROVE  IdsInv'
  <1>1. CASE UNCHANGED vars
    BY <1>1 DEF vars, tables, screen, IdsInv, IdsAreOwn, Owns
  <1>2. ASSUME NEW c \in Clients, Handler(c) \/ Request(c) PROVE IdsInv'
    <2> USE DEF TypeOK, tables, screen, Goto, Done, LoggedIn
    <2>1. Grows /\ OthersKeep(c) /\ TypeOK'
      BY <1>2, TablesStep, KeepsOthers, TypeStep DEF Next
    <2>2. ASSUME NEW d \in Clients, NEW u, Owns(d, u) PROVE Owns(d, u)'
      BY <2>1, <2>2 DEF Owns, Grows
    <2>3. pc'[c] = "registered" => Owns(c, job[c].id)'
      <3>1. CASE Reg(c)
        <4>1. CASE UNCHANGED <<user, job, pc>>
          BY <4>1 DEF IdsInv, Owns
        <4>2. CASE user' = Append(user, c) /\ job' = [job EXCEPT ![c].id = Len(user) + 1]
          <5>1. job'[c].id = Len(user) + 1
            BY <4>2 DEF JobOK
          <5>2. user \in Seq(Clients)
            BY DEF TablesOK
          <5> QED  BY <4>2, <5>1, <5>2 DEF Owns
        <4> QED  BY <3>1, <4>1, <4>2 DEF Reg
      <3>2. CASE ~Reg(c)
        <4>1. pc'[c] = "registered" => pc[c] = "registered" /\ job'[c].id = job[c].id
          BY <1>2, <3>2 DEF Handler, Request, CreateGroup, Loginout, AddFriend, AddGroup, Login,
                      RegAnswer, AddCreator, QueryFriends, QueryGroups, QueryMembers, LoginAnswer
        <4> QED  BY <4>1, <2>2 DEF IdsInv
      <3> QED  BY <3>1, <3>2
    <2>4. ASSUME NEW d \in Clients, pc'[d] = "registered" PROVE Owns(d, job[d].id)'
      BY <2>1, <2>2, <2>3, <2>4 DEF OthersKeep, IdsInv
    <2>5. \/ known' = known
          \/ pc[c] = "registered" /\ known' = [known EXCEPT ![c] = @ \cup {job[c].id}]
      BY <1>2 DEF Handler, Request, Reg, CreateGroup, Loginout, AddFriend, AddGroup, Login,
                  RegAnswer, AddCreator, QueryFriends, QueryGroups, QueryMembers, LoginAnswer
    <2>6. ASSUME NEW d \in Clients, NEW u \in known'[d] PROVE Owns(d, u)'
      <3>1. Owns(d, u)
        BY <2>5, <2>6 DEF IdsInv, IdsAreOwn, Owns
      <3> QED  BY <3>1, <2>2
    <2> QED  BY <2>4, <2>6 DEF IdsInv, IdsAreOwn, Owns
  <1> QED  BY <1>1, <1>2 DEF Next

\* A new group has a new id, which no row of groupUser with a creator names yet.
LEMMA NewGroupHasNoCreator ==
  ASSUME TypeOK, CreatorsInv
  PROVE  /\ Len(allGroup) + 1 \notin DOMAIN allGroup /\ ~HasCreator(Len(allGroup) + 1)
         /\ \A d \in Clients : pc[d] = "created" => job[d].id # Len(allGroup) + 1
  <1>1. Len(allGroup) + 1 \notin DOMAIN allGroup
    BY DEF TypeOK, TablesOK
  <1> QED  BY <1>1 DEF HasCreator, CreatorsInv, CreatorsMadeIt, Making

\* The two statements of createGroup are for one id, which nobody else uses; so the
\* row added is the group's first creator, and its maker.
LEMMA CreatorsStep ==
  ASSUME TypeOK, CreatorsInv, [Next]_vars
  PROVE  CreatorsInv'
  <1> USE DEF CreatorsInv, CreatorsMadeIt, Making, HasCreator
  <1>1. CASE UNCHANGED vars
    BY <1>1 DEF vars, tables, screen
  <1>2. ASSUME NEW c \in Clients, Handler(c) \/ Request(c) PROVE CreatorsInv'
    <2>1. Grows /\ OthersKeep(c)
      BY <1>2, TablesStep, KeepsOthers
    <2>2. CASE UNCHANGED <<allGroup, groupUser>> /\ ~CreateGroup(c)
      <3>1. pc'[c] = "created" => pc[c] = "created" /\ job'[c] = job[c]
        BY <1>2, <2>2 DEF Handler, Request, Reg, Loginout, AddFriend, AddGroup, Login, TypeOK, Goto, Done,
                    RegAnswer, AddCreator, QueryFriends, QueryGroups, QueryMembers, LoginAnswer
      <3> QED  BY <2>1, <2>2, <3>1 DEF OthersKeep
    <2>3. CASE CreateGroup(c)
      <3>1. CASE UNCHANGED <<allGroup, job, pc>>
        BY <2>3, <3>1 DEF CreateGroup
      <3>2. CASE /\ allGroup' = Append(allGroup, account[c]) /\ Goto(c, "created")
                 /\ job' = [job EXCEPT ![c].user = account[c], ![c].id = Len(allGroup) + 1]
        <4> DEFINE new == Len(allGroup) + 1
        <4>1. groupUser' = groupUser /\ allGroup \in Seq(UserIds)
          BY <2>3 DEF CreateGroup, TypeOK, TablesOK
        <4>2. /\ allGroup'[new] = account[c] /\ new \in DOMAIN allGroup'
          BY <3>2, <4>1, Appended
        <4>3. job'[c].id = new /\ job'[c].user = account[c]
          BY <3>2 DEF TypeOK, JobOK
        <4>4. Making(c)'
          BY <2>1, <4>1, <4>2, <4>3, NewGroupHasNoCreator DEF OthersKeep
        <4>5. ASSUME NEW d \in Clients \ {c}, pc'[d] = "created" PROVE Making(d)'
          <5>1. /\ pc[d] = "created" /\ job'[d] = job[d] /\ Making(d)
                /\ job[d].id # new
            BY <2>1, <4>5, NewGroupHasNoCreator DEF OthersKeep
          <5>2. \A e \in Clients : pc'[e] = "created" /\ job'[e].id = job[d].id => e = d
            BY <2>1, <4>3, <5>1 DEF OthersKeep
          <5> QED  BY <2>1, <4>1, <5>1, <5>2 DEF Grows
        <4>6. CreatorsMadeIt'
          BY <2>1, <4>1 DEF Grows
        <4> QED  BY <4>4, <4>5, <4>6
      <3> QED  BY <2>3, <3>1, <3>2 DEF CreateGroup
    <2>4. CASE AddCreator(c) /\ groupUser' = Append(groupUser, Row(job[c].id, job[c].user, "creator"))
      <3> DEFINE new == Len(groupUser) + 1
                 row == Row(job[c].id, job[c].user, "creator")
      <3>1. /\ pc[c] = "created" /\ pc'[c] = "idle" /\ allGroup' = allGroup
            /\ groupUser \in Seq(Rows)
        BY <2>4 DEF AddCreator, Done, Goto, TypeOK, TablesOK, Rows
      <3>2. /\ DOMAIN groupUser' = DOMAIN groupUser \cup {new} /\ new \notin DOMAIN groupUser
            /\ groupUser'[new] = row /\ \A i \in DOMAIN groupUser : groupUser'[i] = groupUser[i]
        BY <2>4, <3>1, Appended
      <3>3. row.groupid = job[c].id /\ row.userid = job[c].user /\ row.role = "creator"
        BY DEF Row
      <3>4. Making(c)
        BY <3>1
      <3> HIDE DEF new, row
      <3>5. CreatorsMadeIt'
        BY <3>1, <3>2, <3>3, <3>4
      <3>6. ASSUME NEW d \in Clients, pc'[d] = "created" PROVE Making(d)'
        <4>1. d # c /\ pc[d] = "created" /\ job'[d] = job[d] /\ Making(d)
          BY <2>1, <3>1, <3>6 DEF OthersKeep
        <4>2. job[d].id # job[c].id
          BY <3>1, <4>1
        <4>3. \A e \in Clients : pc'[e] = "created" => pc[e] = "created" /\ job'[e] = job[e]
          BY <2>1, <3>1 DEF OthersKeep
        <4> QED  BY <3>1, <3>2, <3>3, <4>1, <4>2, <4>3
      <3> QED  BY <3>5, <3>6
    <2>5. ASSUME NEW g \in GroupIds, AddGroup(c, g),
                 groupUser' = Append(groupUser, Row(g, account[c], "normal"))
          PROVE  CreatorsInv'
      <3> DEFINE new == Len(groupUser) + 1
                 row == Row(g, account[c], "normal")
      <3>1. UNCHANGED <<allGroup, pc, job>> /\ groupUser \in Seq(Rows)
        BY <2>5 DEF AddGroup, TypeOK, TablesOK, Rows
      <3>2. /\ DOMAIN groupUser' = DOMAIN groupUser \cup {new}
            /\ groupUser'[new] = row /\ \A i \in DOMAIN groupUser : groupUser'[i] = groupUser[i]
        BY <2>5, <3>1, Appended
      <3>3. row.role = "normal"
        BY DEF Row
      <3> HIDE DEF new, row
      <3>4. CreatorsMadeIt'
        BY <3>1, <3>2, <3>3
      <3>5. ASSUME NEW d \in Clients, pc'[d] = "created" PROVE Making(d)'
        BY <3>1, <3>2, <3>3, <3>5
      <3> QED  BY <3>4, <3>5
    <2> QED  BY <1>2, <2>2, <2>3, <2>4, <2>5
             DEF Handler, Request, Reg, Loginout, AddFriend, AddGroup, Login, AddCreator, Join, tables, screen,
                 RegAnswer, QueryFriends, QueryGroups, QueryMembers, LoginAnswer
  <1> QED  BY <1>1, <1>2 DEF Next

\* A member that was one stays one, and a client that knows an account goes on
\* knowing it.
LEMMA SoundStays ==
  ASSUME TypeOK, Grows, NEW c \in Clients, NEW g, Sound(c, g)
  PROVE  Sound(c, g)'
  <1>1. \A m : IsMember(g.id, m) => IsMember(g.id, m)'
    BY DEF IsMember, Grows, Row
  <1>2. faults' = 0 => faults = 0
    BY DirectoryAssumption DEF TypeOK, Grows
  <1> QED  BY <1>1, <1>2 DEF Sound, Grows

\* The members of a group are read after the rows that led to it: the row of the
\* user itself is still there.
LEMMA ReadsSound ==
  ASSUME TypeOK, IdsInv, ListsInv, NEW c \in Clients, NEW i \in job[c].todo
  PROVE  Sound(c, [id |-> groupUser[i].groupid, users |-> GroupMembers(groupUser[i].groupid)])
  <1> DEFINE g == groupUser[i].groupid
  <1>1. i \in DOMAIN groupUser /\ groupUser[i].userid \in known[c]
    <2>1. pc[c] = "members" /\ groupUser[i].userid = job[c].user /\ i \in DOMAIN groupUser
      BY DEF TypeOK, JobOK, ListsInv
    <2> QED  BY <2>1 DEF TypeOK, JobOK
  <1>2. groupUser[i].userid \in DOMAIN user
    BY <1>1 DEF IdsInv, IdsAreOwn
  <1>3. Member(groupUser[i]) \in GroupMembers(g)
    BY <1>1, <1>2 DEF GroupMembers
  <1>4. ASSUME NEW m \in GroupMembers(g) PROVE IsMember(g, m)
    <2>1. PICK j \in DOMAIN groupUser : groupUser[j].groupid = g /\ m = Member(groupUser[j])
      BY DEF GroupMembers
    <2>2. groupUser[j] = Row(g, m.id, m.role)
      <3>1. groupUser[j] \in Rows
        BY RowFields
      <3> QED  BY <2>1, <3>1 DEF Rows, Row, Member
    <2> QED  BY <2>2 DEF IsMember
  <1> QED  BY <1>1, <1>3, <1>4 DEF Sound, Member

\* What login has read stays sound while it goes on and when the client keeps it.
LEMMA ListsStep ==
  ASSUME TypeOK, IdsInv, ListsInv, [Next]_vars
  PROVE  ListsInv'
  <1>1. CASE UNCHANGED vars
    BY <1>1 DEF vars, tables, screen, ListsInv, ListsSound, Sound, IsMember
  <1>2. ASSUME NEW c \in Clients, Handler(c) \/ Request(c) PROVE ListsInv'
    <2>1. Grows /\ OthersKeep(c) /\ TypeOK'
      BY <1>2, TablesStep, KeepsOthers, TypeStep DEF Next
    <2>2. ASSUME NEW d \in Clients, NEW g, Sound(d, g) PROVE Sound(d, g)'
      BY <2>1, <2>2, SoundStays
    <2>3. \A g \in groupList'[c] : g \in groupList[c] \cup job[c].groups
      BY <1>2 DEF Handler, Request, Reg, CreateGroup, Loginout, AddFriend, AddGroup, Login, TypeOK, screen,
                  RegAnswer, AddCreator, QueryFriends, QueryGroups, QueryMembers, LoginAnswer
    <2>4. \A d \in Clients \ {c} : groupList'[d] = groupList[d]
      BY <1>2 DEF Handler, Request, Reg, CreateGroup, Loginout, AddFriend, AddGroup, Login, TypeOK, screen,
                  RegAnswer, AddCreator, QueryFriends, QueryGroups, QueryMembers, LoginAnswer
    <2>5. ListsSound'
      BY <2>2, <2>3, <2>4 DEF ListsInv, ListsSound
    <2>6. ASSUME NEW g \in job'[c].groups PROVE Sound(c, g)'
      <3>1. CASE g \in job[c].groups
        BY <2>2, <3>1 DEF ListsInv
      <3>2. CASE job'[c].groups \subseteq job[c].groups
        BY <2>6, <3>1, <3>2
      <3>3. CASE QueryMembers(c)
        <4>1. PICK i \in job[c].todo, members \in Members :
                /\ Gets(c, i, members) /\ UNCHANGED tables /\ known' = known
                /\ \/ members = GroupMembers(groupUser[i].groupid)
                   \/ members = {} /\ faults' = faults + 1
          BY <3>3, RowsTyped DEF QueryMembers, Members, Fails, screen
        <4> DEFINE new == [id |-> groupUser[i].groupid, users |-> members]
        <4>2. g \in job[c].groups \cup {new}
          BY <2>6, <4>1 DEF Gets, TypeOK, JobOK
        <4>3. CASE members = GroupMembers(groupUser[i].groupid)
          BY <2>2, <3>1, <4>2, <4>3, ReadsSound
        <4>4. CASE members = {} /\ faults' = faults + 1
          <5>1. faults' # 0
            BY <4>4, DirectoryAssumption DEF TypeOK
          <5> QED  BY <3>1, <4>2, <4>4, <5>1 DEF Sound
        <4> QED  BY <4>1, <4>3, <4>4
      <3>4. CASE \/ Reg(c) \/ CreateGroup(c) \/ Loginout(c) \/ (\E f \in UserIds : AddFriend(c, f))
                 \/ (\E gr \in GroupIds : AddGroup(c, gr)) \/ (\E u \in UserIds : Login(c, u))
        <4>1. \/ job' = job \/ job' = [job EXCEPT ![c].id = Len(user) + 1]
              \/ job' = [job EXCEPT ![c].user = account[c], ![c].id = Len(allGroup) + 1]
              \/ \E u \in UserIds : job' = [job EXCEPT ![c].user = u]
          BY <3>4 DEF Reg, CreateGroup, Loginout, AddFriend, AddGroup, Login
        <4> QED  BY <3>2, <4>1 DEF TypeOK, JobOK
      <3>5. CASE RegAnswer(c) \/ AddCreator(c) \/ LoginAnswer(c)
        BY <3>2, <3>5 DEF RegAnswer, AddCreator, LoginAnswer, Done, NoJob, TypeOK
      <3>6. CASE QueryFriends(c) \/ QueryGroups(c)
        BY <3>2, <3>6 DEF QueryFriends, QueryGroups, TypeOK, JobOK
      <3> QED  BY <1>2, <3>3, <3>4, <3>5, <3>6 DEF Handler, Request
    <2>7. ASSUME NEW i \in job'[c].todo PROVE groupUser'[i].userid = job'[c].user
      <3>1. CASE QueryGroups(c)
        <4>1. groupUser' = groupUser /\ job'[c].user = job[c].user /\ (i \in GroupRows(job[c].user) \/ i \in job[c].todo)
          BY <3>1 DEF QueryGroups, TypeOK, JobOK, tables
        <4> QED  BY <4>1 DEF GroupRows, ListsInv
      <3>2. CASE QueryMembers(c)
        <4>1. groupUser' = groupUser /\ job'[c].user = job[c].user /\ i \in job[c].todo
          BY <3>2 DEF QueryMembers, Gets, TypeOK, JobOK, tables
        <4> QED  BY <4>1 DEF ListsInv
      <3>3. CASE pc'[c] = "members" /\ ~QueryGroups(c) /\ ~QueryMembers(c)
        BY <1>2, <3>3 DEF Handler, Request, Reg, CreateGroup, Loginout, AddFriend, AddGroup, Login, TypeOK,
                      RegAnswer, AddCreator, QueryFriends, LoginAnswer, Done, Goto, LoggedIn
      <3>4. pc'[c] = "members"
        BY <2>1 DEF TypeOK, JobOK
      <3> QED  BY <3>1, <3>2, <3>3, <3>4
    <2>8. ASSUME NEW d \in Clients \ {c}
          PROVE  /\ \A g \in job'[d].groups : Sound(d, g)'
                 /\ \A i \in job'[d].todo : groupUser'[i].userid = job'[d].user
      BY <2>1, <2>2 DEF OthersKeep, ListsInv, Grows, TypeOK, JobOK
    <2> QED  BY <2>5, <2>6, <2>7, <2>8 DEF ListsInv
  <1> QED  BY <1>1, <1>2 DEF Next

-----------------------------------------------------------------------------
\* The invariant: what the tables and the lists hold, and what the handlers under
\* way may rely on.
LEMMA InvHolds == Spec => []DirectoryInv
  <1>1. DirectoryInv /\ [Next]_vars => DirectoryInv'
    BY TypeStep, IdsStep, CreatorsStep, ListsStep DEF DirectoryInv
  <1> QED  BY Begins, <1>1, PTL DEF Spec

\* Nobody is told an id that another registration got, however the inserts of
\* several loops interleave with the reads of their ids.
THEOREM IdsAreOwnHolds == Spec => []IdsAreOwn
  <1>1. DirectoryInv => IdsAreOwn
    BY DEF DirectoryInv, IdsInv
  <1> QED  BY InvHolds, <1>1, PTL

\* No group has two creators, nor one who did not make it, though createGroup
\* inserts the group and its creator with two statements.
THEOREM CreatorsMadeItHolds == Spec => []CreatorsMadeIt
  <1>1. DirectoryInv => CreatorsMadeIt
    BY DEF DirectoryInv, CreatorsInv
  <1> QED  BY InvHolds, <1>1, PTL

\* What a client shows of a group is true, though the groups and the members of
\* each are read by different statements, and any may fail.
THEOREM ListsSoundHolds == Spec => []ListsSound
  <1>1. DirectoryInv => ListsSound
    BY DEF DirectoryInv, ListsInv
  <1> QED  BY InvHolds, <1>1, PTL
=============================================================================
