------------------------------- MODULE Friend -------------------------------
(***************************************************************************)
(* The friend domain: friend.ManagerActor and the three tables of          *)
(* dal.FriendStore.  There is one such actor, so a command is handled      *)
(* whole before the next; what is left to chance is the order of the       *)
(* commands of two users and of the devices of one, and which statement of *)
(* a transaction fails.  A command that changes nothing, and one whose     *)
(* store call fails, leaves the state as it is.                            *)
(***************************************************************************)
EXTENDS Naturals, Sequences

CONSTANTS Users,
          GroupNames,
          MaxRequests, \* bound: rows of friend_requests
          MaxGroups    \* bound: rows of friend_groups

ASSUME FriendAssumption == MaxRequests \in Nat /\ MaxGroups \in Nat

VARIABLES
  requests, \* friend_requests, the row with id n in place n
  friend,   \* friends.status of the row (user_id, friend_uid), if there is one
  groupOf,  \* friends.group_id of the same row
  groups    \* friend_groups, the row with id n in place n

vars == <<requests, friend, groupOf, groups>>

-----------------------------------------------------------------------------
RequestStatus == {"pending", "accepted", "rejected"}
EdgeStatus == {"none", "active", "deleted"}

\* Group 0: no group.
GroupIDs == 0..MaxGroups

Init ==
  /\ requests = <<>>
  /\ friend = [e \in Users \X Users |-> "none"]
  /\ groupOf = [e \in Users \X Users |-> 0]
  /\ groups = <<>>

-----------------------------------------------------------------------------
(* The queries of the store. *)

HasActiveFriend(u, v) == friend[<<u, v>>] = "active"

\* A query that asks only for the requests of the same direction.
HasPendingRequestTo(u, v) ==
  \E i \in DOMAIN requests :
    /\ requests[i].from = u /\ requests[i].to = v
    /\ requests[i].status = "pending"

\* A request of either to the other that nobody has answered.
HasPendingRequest(u, v) ==
  \E i \in DOMAIN requests :
    /\ {requests[i].from, requests[i].to} = {u, v}
    /\ requests[i].status = "pending"

SetStatus(id, s) == requests' = [requests EXCEPT ![id].status = s]

\* The insert with its conflict clause: rows that exist are active again
\* and keep their group.
UpsertOneEdge(u, v) == friend' = [friend EXCEPT ![<<u, v>>] = "active"]

UpsertFriendEdges(u, v) ==
  friend' = [e \in Users \X Users |->
               IF e \in {<<u, v>>, <<v, u>>} THEN "active" ELSE friend[e]]

\* One transaction: both happen or neither.
AcceptFriendRequest(id) ==
  /\ SetStatus(id, "accepted")
  /\ UpsertFriendEdges(requests[id].from, requests[id].to)

\* A deletion that forgets the row of the other user.
DeleteOneEdge(u, v) ==
  friend' = [e \in Users \X Users |->
               IF e = <<u, v>> /\ friend[e] # "none" THEN "deleted" ELSE friend[e]]

DeleteFriendBidirectional(u, v) ==
  friend' = [e \in Users \X Users |->
               IF e \in {<<u, v>>, <<v, u>>} /\ friend[e] # "none"
               THEN "deleted" ELSE friend[e]]

-----------------------------------------------------------------------------
(* Requests. *)

\* A friend can be asked again.
SendRequestToFriend(u, v) ==
  /\ u # v
  /\ ~HasPendingRequest(u, v)
  /\ Len(requests) < MaxRequests
  /\ requests' = Append(requests, [from |-> u, to |-> v, status |-> "pending"])
  /\ UNCHANGED <<friend, groupOf, groups>>

SendRequest(u, v) ==
  /\ u # v
  /\ ~HasActiveFriend(u, v)
  /\ ~HasPendingRequest(u, v)
  /\ Len(requests) < MaxRequests
  /\ requests' = Append(requests, [from |-> u, to |-> v, status |-> "pending"])
  /\ UNCHANGED <<friend, groupOf, groups>>

\* handleRequest asks whose request it is, not whether it has been answered:
\* an old request may be answered again, and the last answer stands.
Accept(u, id) ==
  /\ requests[id].to = u
  /\ AcceptFriendRequest(id)
  /\ UNCHANGED <<groupOf, groups>>

Reject(u, id) ==
  /\ requests[id].to = u
  /\ SetStatus(id, "rejected")
  /\ UNCHANGED <<friend, groupOf, groups>>

-----------------------------------------------------------------------------
(* Friends and groups. *)

DeleteFriend(u, v) ==
  /\ DeleteFriendBidirectional(u, v)
  /\ UNCHANGED <<requests, groupOf, groups>>

\* UpdateFriend writes the rows it finds, deleted ones too; nobody tests
\* that there is such a group, or whose it is.
MoveGroup(u, v, g) ==
  /\ friend[<<u, v>>] # "none"
  /\ groupOf' = [groupOf EXCEPT ![<<u, v>>] = g]
  /\ UNCHANGED <<requests, friend, groups>>

\* The unique index of (user_id, name) counts deleted groups.
NameFree(u, n) == \A i \in DOMAIN groups : groups[i].user = u => groups[i].name # n

CreateGroup(u, n) ==
  /\ NameFree(u, n)
  /\ Len(groups) < MaxGroups
  /\ groups' = Append(groups, [user |-> u, name |-> n, deleted |-> FALSE])
  /\ UNCHANGED <<requests, friend, groupOf>>

RenameGroup(u, g, n) ==
  /\ groups[g].user = u
  /\ \A i \in DOMAIN groups \ {g} : groups[i].user = u => groups[i].name # n
  /\ groups' = [groups EXCEPT ![g].name = n]
  /\ UNCHANGED <<requests, friend, groupOf>>

\* The deletion handleDeleteGroup seems to have in mind: its UpdateFriend
\* would put every friend of the user back into no group.
DeleteGroupEmptying(u, g) ==
  /\ groups[g].user = u
  /\ groups' = [groups EXCEPT ![g].deleted = TRUE]
  /\ groupOf' = [e \in Users \X Users |-> IF e[1] = u THEN 0 ELSE groupOf[e]]
  /\ UNCHANGED <<requests, friend>>

\* UpdateFriend(uid, 0, ...) finds no row: no user has the id 0.
DeleteGroup(u, g) ==
  /\ groups[g].user = u
  /\ groups' = [groups EXCEPT ![g].deleted = TRUE]
  /\ UNCHANGED <<requests, friend, groupOf>>

-----------------------------------------------------------------------------
\* What the actor does for user u.
Receive(u) ==
  \/ \E v \in Users :
       SendRequest(u, v) \/ DeleteFriend(u, v) \/ \E g \in GroupIDs : MoveGroup(u, v, g)
  \/ \E id \in DOMAIN requests : Accept(u, id) \/ Reject(u, id)
  \/ \E n \in GroupNames : CreateGroup(u, n)
  \/ \E g \in DOMAIN groups : DeleteGroup(u, g) \/ \E n \in GroupNames : RenameGroup(u, g, n)

\* The router makes a frame a command in the name of its connection's user.
Next == \E u \in Users : Receive(u)

Spec == Init /\ [][Next]_vars

-----------------------------------------------------------------------------
Request == [from: Users, to: Users, status: RequestStatus]
Group == [user: Users, name: GroupNames, deleted: BOOLEAN]

TypeOK ==
  /\ requests \in Seq(Request)
  /\ friend \in [Users \X Users -> EdgeStatus]
  /\ groupOf \in [Users \X Users -> GroupIDs]
  /\ groups \in Seq(Group)

(* The two rows of a friendship agree, through requests answered twice,
   deletions by both at once and friends made again: a user never sees a
   friend who does not see him, and never himself (AcceptFriendRequest and
   DeleteFriendBidirectional against each other). *)
FriendsMutual ==
  \A u, v \in Users : friend[<<u, v>>] = friend[<<v, u>>] /\ (u = v => friend[<<u, v>>] = "none")

(* Two users never have two open requests, whoever sent them and whatever
   became of the earlier ones: nobody has to answer the same user twice. *)
OnePending ==
  \A i, j \in DOMAIN requests :
    /\ requests[i].status = "pending" /\ requests[j].status = "pending"
    /\ {requests[i].from, requests[i].to} = {requests[j].from, requests[j].to}
    => i = j

(* The group a user has put a friend in is changed only by that user's
   moving that friend: not by parting and becoming friends again, and not
   by the deletion of the group ("friends in it are not affected"). *)
GroupsKept ==
  [][ \A e \in Users \X Users :
        groupOf'[e] # groupOf[e] => /\ friend[e] # "none"
                                    /\ \A f \in Users \X Users : f # e => groupOf'[f] = groupOf[f]
                                    /\ UNCHANGED groups ]_vars

-----------------------------------------------------------------------------
(* The tables implement the promise of module Friendship: whoever is a
   friend has agreed to a request of the other, or the other to his. *)
Abs == INSTANCE Friendship WITH
         sent <- {<<requests[i].from, requests[i].to>> : i \in DOMAIN requests},
         friends <- {{e[1], e[2]} : e \in {d \in Users \X Users : friend[d] = "active"}}

ImplementsFriendship == Abs!Spec
=============================================================================
