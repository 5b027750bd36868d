---------------------------- MODULE FriendProofs ----------------------------
(***************************************************************************)
(* Theorems about module Friend, for any users, names and bounds.          *)
(*                                                                         *)
(* FriendsMutual says too that nobody is a friend of himself, so it needs  *)
(* to know that nobody has asked himself; OnePending needs only the types. *)
(* That a friendship rests on a request needs FriendsMutual: the abstract  *)
(* pair is there as soon as one of its two rows is.                        *)
(***************************************************************************)
EXTENDS Friend, TLAPS

USE FriendAssumption DEF HasActiveFriend

NoSelfRequest == \A i \in DOMAIN requests : requests[i].from # requests[i].to

IInv == TypeOK /\ NoSelfRequest /\ FriendsMutual /\ OnePending

-----------------------------------------------------------------------------
(* A step of Next is one of these; the proofs below take them in turn. *)
LEMMA Steps ==
  ASSUME [Next]_vars
  PROVE  \/ \E u, v \in Users : \/ SendRequest(u, v) \/ DeleteFriend(u, v)
                                \/ \E g \in GroupIDs : MoveGroup(u, v, g)
         \/ \E u \in Users, id \in DOMAIN requests : Accept(u, id) \/ Reject(u, id)
         \/ \E u \in Users, n \in GroupNames : CreateGroup(u, n)
         \/ \E u \in Users, g \in DOMAIN groups : \/ DeleteGroup(u, g)
                                                  \/ \E n \in GroupNames : RenameGroup(u, g, n)
         \/ UNCHANGED vars
  BY DEF Next, Receive

LEMMA RequestTypes ==
  ASSUME TypeOK, NEW id \in DOMAIN requests
  PROVE  requests[id] \in Request /\ requests[id].from \in Users /\ requests[id].to \in Users
  <1>1. requests[id] \in Request
    BY DEF TypeOK
  <1> QED
    BY <1>1 DEF Request

\* SetStatus writes one column of one row.
LEMMA SetStatusFacts ==
  ASSUME TypeOK, NEW id \in DOMAIN requests, NEW s \in RequestStatus, SetStatus(id, s)
  PROVE  /\ requests' \in Seq(Request)
         /\ DOMAIN requests' = DOMAIN requests
         /\ \A i \in DOMAIN requests :
              /\ requests'[i].from = requests[i].from
              /\ requests'[i].to = requests[i].to
              /\ requests'[i].status = IF i = id THEN s ELSE requests[i].status
  <1>1. requests \in Seq(Request)
    BY DEF TypeOK
  <1>2. \A i \in DOMAIN requests : requests[i] \in Request
    BY <1>1
  <1>3. [requests[id] EXCEPT !.status = s] \in Request
    BY <1>2 DEF Request
  <1>4. requests' = [requests EXCEPT ![id] = [requests[id] EXCEPT !.status = s]]
    BY DEF SetStatus
  <1>5. requests' \in Seq(Request) /\ DOMAIN requests' = DOMAIN requests
    BY <1>1, <1>3, <1>4
  <1>6. \A i \in DOMAIN requests : requests'[i] = IF i = id THEN [requests[id] EXCEPT !.status = s]
                                                            ELSE requests[i]
    BY <1>1, <1>4
  <1>7. /\ [requests[id] EXCEPT !.status = s].from = requests[id].from
        /\ [requests[id] EXCEPT !.status = s].to = requests[id].to
        /\ [requests[id] EXCEPT !.status = s].status = s
    BY <1>2 DEF Request
  <1> QED
    BY <1>5, <1>6, <1>7

\* What SendRequest appends.
LEMMA SendFacts ==
  ASSUME TypeOK, NEW u \in Users, NEW v \in Users, SendRequest(u, v)
  PROVE  /\ requests' \in Seq(Request)
         /\ DOMAIN requests' = DOMAIN requests \cup {Len(requests) + 1}
         /\ \A i \in DOMAIN requests : requests'[i] = requests[i]
         /\ requests'[Len(requests) + 1].from = u
         /\ requests'[Len(requests) + 1].to = v
  <1> DEFINE new == [from |-> u, to |-> v, status |-> "pending"]
  <1>1. requests \in Seq(Request) /\ Len(requests) \in Nat
    BY DEF TypeOK
  <1>2. new \in Request /\ new.from = u /\ new.to = v
    BY DEF Request, RequestStatus
  <1>3. requests' = Append(requests, new)
    BY DEF SendRequest
  <1> HIDE DEF new
  <1>4. requests' \in Seq(Request) /\ requests'[Len(requests) + 1] = new
    BY <1>1, <1>2, <1>3
  <1>5. DOMAIN requests' = DOMAIN requests \cup {Len(requests) + 1}
    BY <1>1, <1>3
  <1>6. \A i \in DOMAIN requests : requests'[i] = requests[i]
    BY <1>1, <1>3
  <1> QED
    BY <1>2, <1>4, <1>5, <1>6

-----------------------------------------------------------------------------
(* The tables start empty. *)
LEMMA InitInv == Init => IInv
  <1> SUFFICES ASSUME Init PROVE IInv
    OBVIOUS
  <1>1. TypeOK
    BY DEF Init, TypeOK, EdgeStatus, GroupIDs
  <1>2. NoSelfRequest /\ FriendsMutual /\ OnePending
    BY DEF Init, NoSelfRequest, FriendsMutual, OnePending
  <1> QED
    BY <1>1, <1>2 DEF IInv

-----------------------------------------------------------------------------
(* Every command keeps the tables' columns in their types. *)
LEMMA TypeStep == TypeOK /\ [Next]_vars => TypeOK'
  <1> SUFFICES ASSUME TypeOK, [Next]_vars PROVE TypeOK'
    OBVIOUS
  <1>1. ASSUME NEW u \in Users, NEW v \in Users, SendRequest(u, v) PROVE TypeOK'
    BY <1>1, SendFacts DEF SendRequest, TypeOK
  <1>2. ASSUME NEW u \in Users, NEW v \in Users, DeleteFriend(u, v) PROVE TypeOK'
    BY <1>2 DEF DeleteFriend, DeleteFriendBidirectional, TypeOK, EdgeStatus
  <1>3. ASSUME NEW u \in Users, NEW v \in Users, NEW g \in GroupIDs, MoveGroup(u, v, g)
        PROVE  TypeOK'
    BY <1>3 DEF MoveGroup, TypeOK
  <1>4. ASSUME NEW u \in Users, NEW id \in DOMAIN requests, Accept(u, id) PROVE TypeOK'
    <2>1. requests' \in Seq(Request)
      BY <1>4, SetStatusFacts DEF Accept, AcceptFriendRequest, RequestStatus
    <2> QED
      BY <1>4, <2>1 DEF Accept, AcceptFriendRequest, UpsertFriendEdges, TypeOK, EdgeStatus
  <1>5. ASSUME NEW u \in Users, NEW id \in DOMAIN requests, Reject(u, id) PROVE TypeOK'
    <2>1. requests' \in Seq(Request)
      BY <1>5, SetStatusFacts DEF Reject, RequestStatus
    <2> QED
      BY <1>5, <2>1 DEF Reject, TypeOK
  <1>6. ASSUME NEW u \in Users, NEW n \in GroupNames, CreateGroup(u, n) PROVE TypeOK'
    <2>1. [user |-> u, name |-> n, deleted |-> FALSE] \in Group
      BY DEF Group
    <2>2. groups' \in Seq(Group)
      BY <1>6, <2>1 DEF CreateGroup, TypeOK
    <2> QED
      BY <1>6, <2>2 DEF CreateGroup, TypeOK
  <1>7. ASSUME NEW u \in Users, NEW g \in DOMAIN groups,
               DeleteGroup(u, g) \/ \E n \in GroupNames : RenameGroup(u, g, n)
        PROVE  TypeOK'
    <2>1. groups \in Seq(Group) /\ groups[g] \in Group
      BY DEF TypeOK
    <2>2. /\ [groups[g] EXCEPT !.deleted = TRUE] \in Group
          /\ \A n \in GroupNames : [groups[g] EXCEPT !.name = n] \in Group
      BY <2>1 DEF Group
    <2>3. \E r \in Group : groups' = [groups EXCEPT ![g] = r]
      BY <1>7, <2>2 DEF DeleteGroup, RenameGroup
    <2>4. groups' \in Seq(Group)
      BY <2>1, <2>3
    <2> QED
      BY <1>7, <2>4 DEF DeleteGroup, RenameGroup, TypeOK
  <1>8. CASE UNCHANGED vars
    BY <1>8 DEF vars, TypeOK
  <1> QED
    BY <1>1, <1>2, <1>3, <1>4, <1>5, <1>6, <1>7, <1>8, Steps

(* Both rows of a friendship are written by the same command. *)
LEMMA MutualStep == IInv /\ [Next]_vars => FriendsMutual'
  <1> SUFFICES ASSUME IInv, [Next]_vars PROVE FriendsMutual'
    OBVIOUS
  <1> USE DEF IInv
  <1>1. ASSUME UNCHANGED friend PROVE FriendsMutual'
    BY <1>1 DEF FriendsMutual
  <1>2. ASSUME NEW u \in Users, NEW v \in Users, DeleteFriend(u, v) PROVE FriendsMutual'
    BY <1>2 DEF DeleteFriend, DeleteFriendBidirectional, FriendsMutual
  <1>3. ASSUME NEW u \in Users, NEW id \in DOMAIN requests, Accept(u, id) PROVE FriendsMutual'
    <2>1. PICK f \in Users, t \in Users : UpsertFriendEdges(f, t) /\ f = requests[id].from
                                                                 /\ t = requests[id].to
      BY <1>3, RequestTypes DEF Accept, AcceptFriendRequest
    <2>2. f # t
      BY <2>1 DEF NoSelfRequest
    <2> QED
      BY <2>1, <2>2 DEF UpsertFriendEdges, FriendsMutual
  <1> QED
    BY <1>1, <1>2, <1>3, Steps
       DEF SendRequest, MoveGroup, Reject, CreateGroup, DeleteGroup, RenameGroup, vars

(* A new request is the only one between its two users that is open; an
   answer opens none. *)
LEMMA RequestsStep == IInv /\ [Next]_vars => NoSelfRequest' /\ OnePending'
  <1> SUFFICES ASSUME IInv, [Next]_vars PROVE NoSelfRequest' /\ OnePending'
    OBVIOUS
  <1> USE DEF IInv
  <1>1. ASSUME UNCHANGED requests PROVE NoSelfRequest' /\ OnePending'
    BY <1>1 DEF NoSelfRequest, OnePending
  <1>2. ASSUME NEW u \in Users, NEW v \in Users, SendRequest(u, v)
        PROVE  NoSelfRequest' /\ OnePending'
    <2>1. /\ DOMAIN requests' = DOMAIN requests \cup {Len(requests) + 1}
          /\ \A i \in DOMAIN requests : requests'[i] = requests[i]
          /\ requests'[Len(requests) + 1].from = u
          /\ requests'[Len(requests) + 1].to = v
      BY <1>2, SendFacts
    <2>2. u # v /\ ~HasPendingRequest(u, v)
      BY <1>2 DEF SendRequest
    <2>3. NoSelfRequest'
      BY <2>1, <2>2 DEF NoSelfRequest
    <2>4. OnePending'
      <3>1. \A i \in DOMAIN requests :
              ~(requests'[i].status = "pending"
                /\ {requests'[i].from, requests'[i].to} = {u, v})
        BY <2>1, <2>2 DEF HasPendingRequest
      <3> QED
        BY <2>1, <3>1 DEF OnePending
    <2> QED
      BY <2>3, <2>4
  <1>3. ASSUME NEW id \in DOMAIN requests, NEW s \in RequestStatus \ {"pending"}, SetStatus(id, s)
        PROVE  NoSelfRequest' /\ OnePending'
    <2>1. /\ DOMAIN requests' = DOMAIN requests
          /\ \A i \in DOMAIN requests :
               /\ requests'[i].from = requests[i].from
               /\ requests'[i].to = requests[i].to
               /\ requests'[i].status = "pending" => requests[i].status = "pending"
      BY <1>3, SetStatusFacts
    <2> QED
      BY <2>1 DEF NoSelfRequest, OnePending
  <1>4. ASSUME NEW u \in Users, NEW id \in DOMAIN requests, Accept(u, id) \/ Reject(u, id)
        PROVE  NoSelfRequest' /\ OnePending'
    BY <1>3, <1>4 DEF Accept, AcceptFriendRequest, Reject, RequestStatus
  <1> QED
    BY <1>1, <1>2, <1>4, Steps DEF DeleteFriend, DeleteFriendBidirectional, MoveGroup, CreateGroup, DeleteGroup, RenameGroup, vars

-----------------------------------------------------------------------------
(* The inductive invariant holds in every state. *)
THEOREM Invariance == Spec => []IInv
  <1>1. Init => IInv
    BY InitInv
  <1>2. IInv /\ [Next]_vars => IInv'
    BY TypeStep, MutualStep, RequestsStep DEF IInv
  <1> QED
    BY <1>1, <1>2, PTL DEF Spec

(* The columns keep their types, for any number of users, requests, groups. *)
THEOREM FriendTypes == Spec => []TypeOK
  <1>1. IInv => TypeOK
    BY DEF IInv
  <1> QED
    BY <1>1, Invariance, PTL

(* Friendship is mutual in every state: after any commands in any order. *)
THEOREM FriendshipMutual == Spec => []FriendsMutual
  <1>1. IInv => FriendsMutual
    BY DEF IInv
  <1> QED
    BY <1>1, Invariance, PTL

(* Two users never have two open requests. *)
THEOREM AtMostOnePending == Spec => []OnePending
  <1>1. IInv => OnePending
    BY DEF IInv
  <1> QED
    BY <1>1, Invariance, PTL

(* Only the owner's MoveGroup changes the group of a friend. *)
THEOREM GroupsAreKept == Spec => GroupsKept
  <1>1. IInv /\ [Next]_vars =>
          [\A e \in Users \X Users :
             groupOf'[e] # groupOf[e] => /\ friend[e] # "none"
                                         /\ \A f \in Users \X Users : f # e => groupOf'[f] = groupOf[f]
                                         /\ UNCHANGED groups]_vars
    <2> SUFFICES ASSUME IInv, [Next]_vars, NEW e \in Users \X Users, groupOf'[e] # groupOf[e]
                 PROVE  /\ friend[e] # "none"
                        /\ \A f \in Users \X Users : f # e => groupOf'[f] = groupOf[f]
                        /\ UNCHANGED groups
      OBVIOUS
    <2>1. ASSUME NEW u \in Users, NEW v \in Users, NEW g \in GroupIDs, MoveGroup(u, v, g)
          PROVE  /\ friend[e] # "none"
                 /\ \A f \in Users \X Users : f # e => groupOf'[f] = groupOf[f]
                 /\ UNCHANGED groups
      BY <2>1 DEF MoveGroup, IInv, TypeOK
    <2>2. ASSUME UNCHANGED groupOf PROVE FALSE
      BY <2>2
    <2> QED
      BY <2>1, <2>2, Steps
         DEF SendRequest, DeleteFriend, Accept, Reject, CreateGroup, DeleteGroup, RenameGroup, vars
  <1> QED
    BY <1>1, Invariance, PTL DEF Spec, GroupsKept

-----------------------------------------------------------------------------
(* The refinement. *)

\* The two state functions of the abstract specification.
Sent == {<<requests[i].from, requests[i].to>> : i \in DOMAIN requests}
Pairs(f) == {{e[1], e[2]} : e \in {d \in Users \X Users : f[d] = "active"}}
Friends == Pairs(friend)

\* A pair is abstractly there if, and only if, either row is.
LEMMA PairsMember ==
  ASSUME NEW f, \A u, v \in Users : f[<<u, v>>] = f[<<v, u>>]
  PROVE  /\ \A u, v \in Users : {u, v} \in Pairs(f) <=> f[<<u, v>>] = "active"
         /\ \A p \in Pairs(f) : \E u, v \in Users : p = {u, v}
  <1> DEFINE active == {d \in Users \X Users : f[d] = "active"}
  <1>1. ASSUME NEW u \in Users, NEW v \in Users, f[<<u, v>>] = "active" PROVE {u, v} \in Pairs(f)
    <2>1. <<u, v>> \in active
      BY <1>1
    <2> QED
      BY <2>1 DEF Pairs
  <1>2. ASSUME NEW u \in Users, NEW v \in Users, {u, v} \in Pairs(f) PROVE f[<<u, v>>] = "active"
    <2>1. PICK e \in active : {u, v} = {e[1], e[2]}
      BY <1>2 DEF Pairs
    <2>2. e = <<e[1], e[2]>> /\ f[e] = "active"
      BY <2>1
    <2>3. <<u, v>> = e \/ <<v, u>> = e
      BY <2>1, <2>2
    <2> QED
      BY <2>2, <2>3
  <1>3. \A p \in Pairs(f) : \E u, v \in Users : p = {u, v}
    BY DEF Pairs
  <1> QED
    BY <1>1, <1>2, <1>3

LEMMA FriendsMember ==
  ASSUME IInv, IInv'
  PROVE  /\ \A u, v \in Users : {u, v} \in Friends <=> friend[<<u, v>>] = "active"
         /\ \A u, v \in Users : {u, v} \in Friends' <=> friend'[<<u, v>>] = "active"
         /\ \A p \in Friends \cup Friends' : \E u, v \in Users : p = {u, v}
  <1>1. /\ \A u, v \in Users : friend[<<u, v>>] = friend[<<v, u>>]
        /\ \A u, v \in Users : friend'[<<u, v>>] = friend'[<<v, u>>]
    BY DEF IInv, FriendsMutual
  <1>2. /\ \A u, v \in Users : {u, v} \in Friends <=> friend[<<u, v>>] = "active"
        /\ \A p \in Friends : \E u, v \in Users : p = {u, v}
    BY <1>1, PairsMember DEF Friends
  <1>3. /\ \A u, v \in Users : {u, v} \in Friends' <=> friend'[<<u, v>>] = "active"
        /\ \A p \in Friends' : \E u, v \in Users : p = {u, v}
    BY <1>1, PairsMember DEF Friends
  <1> QED
    BY <1>2, <1>3

\* An answer changes neither who asked nor whom.
LEMMA SentKept ==
  ASSUME IInv, NEW u \in Users, NEW id \in DOMAIN requests, Accept(u, id) \/ Reject(u, id)
  PROVE  Sent' = Sent
  <1>1. \E s \in RequestStatus : SetStatus(id, s)
    BY DEF Accept, AcceptFriendRequest, Reject, RequestStatus
  <1>2. /\ DOMAIN requests' = DOMAIN requests
        /\ \A i \in DOMAIN requests : /\ requests'[i].from = requests[i].from
                                      /\ requests'[i].to = requests[i].to
    BY <1>1, SetStatusFacts DEF IInv
  <1> QED
    BY <1>2 DEF Sent

\* Requests are never taken back.
LEMMA SentStep ==
  ASSUME IInv, IInv', [Next]_vars
  PROVE  \/ Sent' = Sent
         \/ \E u, v \in Users : SendRequest(u, v) /\ Sent' = Sent \cup {<<u, v>>}
  <1>1. ASSUME NEW u \in Users, NEW v \in Users, SendRequest(u, v)
        PROVE  Sent' = Sent \cup {<<u, v>>}
    <2>1. /\ DOMAIN requests' = DOMAIN requests \cup {Len(requests) + 1}
          /\ \A i \in DOMAIN requests : requests'[i] = requests[i]
          /\ requests'[Len(requests) + 1].from = u
          /\ requests'[Len(requests) + 1].to = v
      BY <1>1, SendFacts DEF IInv
    <2> QED
      BY <2>1 DEF Sent
  <1>3. ASSUME NEW u \in Users, NEW id \in DOMAIN requests, Accept(u, id) \/ Reject(u, id)
        PROVE  Sent' = Sent
    BY <1>3, SentKept
  <1>4. ASSUME UNCHANGED requests PROVE Sent' = Sent
    BY <1>4 DEF Sent
  <1> QED
    BY <1>1, <1>3, <1>4, Steps
       DEF DeleteFriend, DeleteFriendBidirectional, MoveGroup, CreateGroup, DeleteGroup, RenameGroup, vars

\* What the two commands that write the rows of a friendship make of it.
LEMMA FriendsStep ==
  ASSUME IInv, IInv', [Next]_vars
  PROVE  \/ Friends' = Friends
         \/ \E u, v \in Users : /\ <<u, v>> \in Sent
                                /\ Friends' = Friends \cup {{u, v}}
                                /\ UNCHANGED Sent
         \/ \E u, v \in Users : Friends' = Friends \ {{u, v}} /\ UNCHANGED Sent
  <1>1. ASSUME NEW u \in Users, NEW v \in Users, DeleteFriend(u, v)
        PROVE  Friends' = Friends \ {{u, v}}
    <2>1. \A a, b \in Users : friend'[<<a, b>>] = "active"
                                <=> friend[<<a, b>>] = "active" /\ {a, b} # {u, v}
      <3> SUFFICES ASSUME NEW a \in Users, NEW b \in Users
                   PROVE  friend'[<<a, b>>] = "active"
                            <=> friend[<<a, b>>] = "active" /\ {a, b} # {u, v}
        OBVIOUS
      <3>1. {a, b} = {u, v} <=> <<a, b>> \in {<<u, v>>, <<v, u>>}
        OBVIOUS
      <3> QED
        BY <1>1, <3>1 DEF DeleteFriend, DeleteFriendBidirectional
    <2>2. \A a, b \in Users : {a, b} \in Friends' <=> {a, b} \in Friends /\ {a, b} # {u, v}
      <3> SUFFICES ASSUME NEW a \in Users, NEW b \in Users
                   PROVE  {a, b} \in Friends' <=> {a, b} \in Friends /\ {a, b} # {u, v}
        OBVIOUS
      <3>1. {a, b} \in Friends' <=> friend'[<<a, b>>] = "active"
        BY FriendsMember
      <3>2. {a, b} \in Friends <=> friend[<<a, b>>] = "active"
        BY FriendsMember
      <3> QED
        BY <2>1, <3>1, <3>2
    <2>3. \A p : p \in Friends' <=> p \in Friends \ {{u, v}}
      BY <2>2, FriendsMember
    <2> QED
      BY <2>3
  <1>2. ASSUME NEW u \in Users, NEW id \in DOMAIN requests, Accept(u, id)
        PROVE  \E f, t \in Users : <<f, t>> \in Sent /\ Friends' = Friends \cup {{f, t}}
    <2>1. PICK f \in Users, t \in Users : UpsertFriendEdges(f, t) /\ f = requests[id].from
                                                                 /\ t = requests[id].to
      BY <1>2, RequestTypes DEF Accept, AcceptFriendRequest, IInv
    <2>2. \A a, b \in Users : friend'[<<a, b>>] = "active"
                                <=> friend[<<a, b>>] = "active" \/ {a, b} = {f, t}
      <3> SUFFICES ASSUME NEW a \in Users, NEW b \in Users
                   PROVE  friend'[<<a, b>>] = "active"
                            <=> friend[<<a, b>>] = "active" \/ {a, b} = {f, t}
        OBVIOUS
      <3>1. {a, b} = {f, t} <=> <<a, b>> \in {<<f, t>>, <<t, f>>}
        OBVIOUS
      <3> QED
        BY <2>1, <3>1 DEF UpsertFriendEdges
    <2>3. \A a, b \in Users : {a, b} \in Friends' <=> {a, b} \in Friends \/ {a, b} = {f, t}
      <3> SUFFICES ASSUME NEW a \in Users, NEW b \in Users
                   PROVE  {a, b} \in Friends' <=> {a, b} \in Friends \/ {a, b} = {f, t}
        OBVIOUS
      <3>1. {a, b} \in Friends' <=> friend'[<<a, b>>] = "active"
        BY FriendsMember
      <3>2. {a, b} \in Friends <=> friend[<<a, b>>] = "active"
        BY FriendsMember
      <3> QED
        BY <2>2, <3>1, <3>2
    <2>4. Friends' = Friends \cup {{f, t}}
      <3>1. \A p : p \in Friends' <=> p \in Friends \cup {{f, t}}
        <4>1. ASSUME NEW p \in Friends' \cup Friends \cup {{f, t}}
              PROVE  p \in Friends' <=> p \in Friends \cup {{f, t}}
          <5>1. PICK a \in Users, b \in Users : p = {a, b}
            BY FriendsMember
          <5> QED
            BY <2>3, <5>1
        <4> QED
          BY <4>1
      <3> QED
        BY <3>1
    <2>5. <<f, t>> \in Sent
      BY <2>1 DEF Sent
    <2> QED
      BY <2>4, <2>5
  <1>3. ASSUME UNCHANGED friend PROVE Friends' = Friends
    BY <1>3 DEF Friends
  <1>4. ASSUME NEW u \in Users, NEW id \in DOMAIN requests, Accept(u, id) PROVE Sent' = Sent
    BY <1>4, SentKept
  <1>5. ASSUME NEW u \in Users, NEW v \in Users, DeleteFriend(u, v) PROVE Sent' = Sent
    BY <1>5 DEF DeleteFriend, DeleteFriendBidirectional, Sent
  <1> QED
    BY <1>1, <1>2, <1>3, <1>4, <1>5, Steps
       DEF SendRequest, MoveGroup, Reject, CreateGroup, DeleteGroup, RenameGroup, vars

(* The tables of the friend domain keep the promise of module Friendship. *)
THEOREM Refinement == Spec => ImplementsFriendship
  <1>1. Init => Abs!Init
    <2> SUFFICES ASSUME Init PROVE Abs!Init
      OBVIOUS
    <2>1. Sent = {} /\ Friends = {}
      BY DEF Init, Sent, Friends, Pairs
    <2> QED
      BY <2>1 DEF Abs!Init, Sent, Friends, Pairs
  <1>2. IInv /\ IInv' /\ [Next]_vars => [Abs!Next]_(Abs!friendshipVars)
    <2> SUFFICES ASSUME IInv, IInv', [Next]_vars
                 PROVE  Abs!Next \/ UNCHANGED Abs!friendshipVars
      OBVIOUS
    <2>1. ASSUME NEW u \in Users, NEW v \in Users, SendRequest(u, v),
                 Sent' = Sent \cup {<<u, v>>}
          PROVE  Abs!Next
      <3>1. u # v /\ friend[<<u, v>>] # "active" /\ UNCHANGED friend
        BY <2>1 DEF SendRequest
      <3>2. {u, v} \notin Friends /\ Friends' = Friends
        BY <3>1, FriendsMember DEF Friends
      <3>3. Abs!Request(u, v)
        BY <2>1, <3>1, <3>2 DEF Abs!Request, Sent, Friends, Pairs
      <3> QED
        BY <3>3 DEF Abs!Next
    <2>2. ASSUME NEW u \in Users, NEW v \in Users, <<u, v>> \in Sent,
                 Friends' = Friends \cup {{u, v}}, UNCHANGED Sent
          PROVE  Abs!Next
      <3>1. Abs!Agree(u, v)
        BY <2>2 DEF Abs!Agree, Sent, Friends, Pairs
      <3> QED
        BY <3>1 DEF Abs!Next
    <2>3. ASSUME NEW u \in Users, NEW v \in Users, Friends' = Friends \ {{u, v}}, UNCHANGED Sent
          PROVE  Abs!Next
      <3>1. Abs!Part(u, v)
        BY <2>3 DEF Abs!Part, Sent, Friends, Pairs
      <3> QED
        BY <3>1 DEF Abs!Next
    <2>4. ASSUME Sent' = Sent, Friends' = Friends PROVE UNCHANGED Abs!friendshipVars
      BY <2>4 DEF Abs!friendshipVars, Sent, Friends, Pairs
    <2> QED
      BY <2>1, <2>2, <2>3, <2>4, SentStep, FriendsStep
  <1> QED
    BY <1>1, <1>2, Invariance, PTL DEF Spec, ImplementsFriendship, Abs!Spec
=============================================================================
