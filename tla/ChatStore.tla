------------------------------ MODULE ChatStore ------------------------------
(***************************************************************************)
(* What the SQL statements of the model classes (src/src/server/model) do  *)
(* to the tables, and what the operations on m_userConnMap do to the map.  *)
(* A table is a function of its key; the row data a property never looks   *)
(* at (names, descriptions, roles, times) is left out.                     *)
(***************************************************************************)
EXTENDS Naturals, Sequences, Functions

CONSTANT NoConn   \* the value of the connection map at a user with no entry

(***************************************************************************)
(* Table `user`, column `state`.                                           *)
(***************************************************************************)

\* UserModel::updateState
UpdateState(user, u, s) == [user EXCEPT ![u] = s]

\* UserModel::resetState: ... set state = 'offline' where state = 'online'
ResetState(user) == [u \in DOMAIN user |-> "offline"]

(***************************************************************************)
(* Table `offlineMessage`: the rows of each user.                          *)
(***************************************************************************)

\* OfflineMsgModel::insert
OfflineInsert(msgs, u, m) == [msgs EXCEPT ![u] = Append(@, m)]

\* The rows of s in every order
Orders(s) == {[i \in DOMAIN s |-> s[p[i]]] : p \in Bijection(DOMAIN s, DOMAIN s)}

\* What OfflineMsgModel::query may return: the select names no order.
OfflineQuery(msgs, u) == Orders(msgs[u])

\* The delete statement leaves the rows in place.
OfflineRemoveNothing(msgs, u) == msgs

\* OfflineMsgModel::remove: every row of the user, not only those read before
OfflineRemove(msgs, u) == [msgs EXCEPT ![u] = <<>>]

(***************************************************************************)
(* Table `groupUser`: how many rows it has for each group and user.        *)
(***************************************************************************)

\* GroupModel::addGroup: a plain insert, one more row each time
AddMember(members, u, g) == [members EXCEPT ![g][u] = @ + 1]

\* GroupModel::queryGroupUsers: an id for each row of the group but the
\* sender's
QueryGroupUsers(members, u, g) == [members[g] EXCEPT ![u] = 0]

(***************************************************************************)
(* std::unordered_map<int, TcpConnectionPtr> m_userConnMap.                *)
(***************************************************************************)

\* emplace: does nothing when the user already has an entry
EmplaceConn(map, u, c) == IF map[u] = NoConn THEN [map EXCEPT ![u] = c] ELSE map

\* The iterator is not used to erase.
EraseNothing(map, u) == map

\* The range from the entry to the end is erased.
EraseFrom(map, u) == [v \in DOMAIN map |-> NoConn]

\* erase(find(u)), nothing when there is no entry
EraseConn(map, u) == [map EXCEPT ![u] = NoConn]

\* The users whose entry is connection c, what the loop of
\* clientCloseException scans for.
EntriesOf(map, c) == {u \in DOMAIN map : map[u] = c}

=============================================================================
