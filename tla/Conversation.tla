---------------------------- MODULE Conversation ----------------------------
(***************************************************************************)
(* One conversation: its rows in the database, the conversation actor with *)
(* its copy of them, and the manager actor, which creates conversations    *)
(* and marks them read past the conversation actor.                        *)
(*                                                                         *)
(* A handler of the conversation actor tests its copy, runs one database   *)
(* transaction, and then changes the copy, publishes and replies: an       *)
(* action each, with the manager's transactions and a crash of the server  *)
(* in between.  A command that is refused, or whose transaction fails,     *)
(* changes nothing, so it is no action.                                    *)
(*                                                                         *)
(* Every user may send every command at any time, and again when no answer *)
(* comes, so what waits in the actor's mailbox says nothing about which    *)
(* command comes next, and the mailbox is not modelled, except for the     *)
(* PoisonPill, behind which nothing is handled.                            *)
(***************************************************************************)
EXTENDS Integers, Sequences, FiniteSets

CONSTANTS Users,
          Cids,       \* client ids, chosen by the client that sends
          None,       \* no client id, no owner
          Limits,     \* member limits an administrator may set
          GroupLimit, \* the limit of a new group, 500
          MaxSeq      \* bound: messages in the conversation

ASSUME ConversationAssumption ==
  /\ IsFiniteSet(Users)
  /\ None \notin Users \cup Cids
  /\ Limits \subseteq Nat
  /\ GroupLimit \in Nat
  /\ MaxSeq \in Nat

VARIABLES
  conv,     \* the conversation's row; kind "" before there is one
  row,      \* the members' rows
  unread,   \* unread_count of the users' rows for this conversation
  messages, \* the message rows
  making,   \* what the manager has left to do of creating the conversation
  loop,     \* where the conversation actor is; "none" when there is none
  cache,    \* the conversation actor's copy
  after,    \* what its handler does after its transaction
  pill,     \* a PoisonPill is in its mailbox
  acks,     \* history: replies to SendMessageCmd
  pushed    \* history: the numbers of the messages published, in order

store == <<conv, row, unread, messages>>
actor == <<loop, cache, after, pill>>
vars == <<store, making, actor, acks, pushed>>

-----------------------------------------------------------------------------
Roles == {"regular", "admin", "owner"}
Assignable == {"regular", "admin"}

NoRow == [status |-> "none", role |-> "regular", lastRead |-> 0]
NewRow(r) == [status |-> "active", role |-> r, lastRead |-> 0]
NobodyIn == [u \in Users |-> "none"]

\* Before OnStart, and when it could not load the conversation.
NoCache == [kind |-> "", owner |-> None, maxSeq |-> 0, limit |-> 0, role |-> NobodyIn]
NoAfter == [cache |-> NoCache, push |-> 0, ack |-> {}, pill |-> FALSE]

Init ==
  /\ conv = [kind |-> "", status |-> "active", owner |-> None, maxSeq |-> 0, limit |-> 0]
  /\ row = [u \in Users |-> NoRow]
  /\ unread = [u \in Users |-> 0]
  /\ messages = {}
  /\ making = "nothing"
  /\ loop = "none" /\ cache = NoCache /\ after = NoAfter /\ pill = FALSE
  /\ acks = {} /\ pushed = <<>>

\* What GetMembers answers: the active rows.
RoleOf(u) == IF row[u].status = "active" THEN row[u].role ELSE "none"
StoredRoles == [u \in Users |-> RoleOf(u)]

-----------------------------------------------------------------------------
(* The store. *)

\* The message of this client id, if the unique index has one.
Sent(u, c) == {m \in messages : c # None /\ m.sender = u /\ m.cid = c}

\* CommitMessage's transaction: insert (unique in seq), set max_seq, count
\* the message as unread for the audience but its sender.
Commit(n, u, c, audience) ==
  /\ n <= MaxSeq
  /\ \A m \in messages : m.seq # n
  /\ messages' = messages \cup {[seq |-> n, sender |-> u, cid |-> c, revoked |-> FALSE]}
  /\ conv' = [conv EXCEPT !.maxSeq = n]
  /\ unread' = [v \in Users |-> IF v \in audience \ {u} THEN unread[v] + 1 ELSE unread[v]]
  /\ UNCHANGED row

\* A revocation that forgets the unread counters.
RevokeRowOnly(m) ==
  /\ messages' = (messages \ {m}) \cup {[m EXCEPT !.revoked = TRUE]}
  /\ UNCHANGED <<conv, row, unread>>

\* A revocation that counts down below zero.
RevokeUnguarded(m) ==
  /\ messages' = (messages \ {m}) \cup {[m EXCEPT !.revoked = TRUE]}
  /\ unread' = [v \in Users |->
       IF v # m.sender /\ row[v].status = "active" /\ row[v].lastRead < m.seq
       THEN unread[v] - 1 ELSE unread[v]]
  /\ UNCHANGED <<conv, row>>

\* RevokeMessage's transaction: one unread less for those who have not read it.
Revoke(m) ==
  /\ messages' = (messages \ {m}) \cup {[m EXCEPT !.revoked = TRUE]}
  /\ unread' = [v \in Users |->
       IF v # m.sender /\ unread[v] > 0 /\ row[v].status = "active" /\ row[v].lastRead < m.seq
       THEN unread[v] - 1 ELSE unread[v]]
  /\ UNCHANGED <<conv, row>>

SetRow(u, r) == row' = [row EXCEPT ![u] = r] /\ UNCHANGED <<conv, unread, messages>>

-----------------------------------------------------------------------------
(* The conversation manager. *)

\* handleCreatePrivate's transaction.
CreatePrivate(u, v) ==
  /\ conv.kind = ""
  /\ u # v
  /\ conv' = [conv EXCEPT !.kind = "private", !.owner = u, !.limit = 2]
  /\ row' = [w \in Users |-> IF w \in {u, v} THEN NewRow("regular") ELSE NoRow]
  /\ making' = "spawn"
  /\ UNCHANGED <<unread, messages, actor, acks, pushed>>

\* handleCreateGroup's first transaction.
CreateGroup(u, S) ==
  /\ conv.kind = ""
  /\ conv' = [conv EXCEPT !.kind = "group", !.owner = u, !.limit = GroupLimit]
  /\ row' = [w \in Users |-> IF w = u THEN NewRow("owner")
                             ELSE IF w \in S THEN NewRow("regular") ELSE NoRow]
  /\ making' = "message"
  /\ UNCHANGED <<unread, messages, actor, acks, pushed>>

\* appendGroupCreatedSystemMessage, which may fail.
CreateMessage ==
  /\ making = "message"
  /\ \/ /\ Commit(1, conv.owner, None, {u \in Users : RoleOf(u) # "none"})
        /\ making' = "spawn"
     \/ making' = "nothing" /\ UNCHANGED store
  /\ UNCHANGED <<actor, acks, pushed>>

\* GetOrCreate: nothing happens to an actor that is there.
GetOrCreate == loop' = IF loop = "none" THEN "start" ELSE loop

\* spawnConvActor and the reply.
CreateSpawn ==
  /\ making = "spawn"
  /\ GetOrCreate
  /\ making' = IF conv.kind = "group" THEN "publish" ELSE "nothing"
  /\ UNCHANGED <<store, cache, after, pill, acks, pushed>>

\* publishGroupCreated, after the reply.
CreatePublish ==
  /\ making = "publish"
  /\ pushed' = Append(pushed, 1)
  /\ making' = "nothing"
  /\ UNCHANGED <<store, actor, acks>>

\* A read mark that leaves the counter to someone else.
MarkSeqOnly(u, n) ==
  /\ row' = IF n > 0 /\ row[u].status # "none" THEN [row EXCEPT ![u].lastRead = n] ELSE row
  /\ UNCHANGED unread

\* MarkConversationRead's transaction; without a number it is what
\* handleReadAll does to this conversation.
MarkRead(u, n) ==
  /\ unread' = [unread EXCEPT ![u] = 0]
  /\ row' = IF n > 0 /\ row[u].status # "none" THEN [row EXCEPT ![u].lastRead = n] ELSE row

\* handleRead and handleReadAll: the number is of a message the client has
\* seen, not of the last one.
Read(u) ==
  /\ making = "nothing"
  /\ conv.kind # ""
  /\ \E n \in 0..conv.maxSeq : MarkRead(u, n)
  /\ UNCHANGED <<conv, messages, making, actor, acks, pushed>>

-----------------------------------------------------------------------------
(* The conversation actor. *)

\* ConvService.ConvRef, for a command of a client that knows the
\* conversation: the manager tells nobody before it has spawned the actor.
Reach ==
  /\ conv.kind # ""
  /\ making \in {"nothing", "publish"}
  /\ loop = "none"
  /\ GetOrCreate
  /\ UNCHANGED <<store, making, cache, after, pill, acks, pushed>>

Loaded == [kind |-> conv.kind, owner |-> conv.owner, maxSeq |-> conv.maxSeq,
           limit |-> conv.limit, role |-> StoredRoles]

\* OnStart; an actor that cannot load tells itself a PoisonPill.
OnStart ==
  /\ loop = "start"
  /\ loop' = "idle"
  /\ \/ /\ conv.status = "active"
        /\ cache' = Loaded
        /\ UNCHANGED pill
     \/ cache' = NoCache /\ pill' = TRUE
     \/ /\ conv.status = "active"
        /\ cache' = [Loaded EXCEPT !.role = NobodyIn]
        /\ pill' = TRUE
  /\ UNCHANGED <<store, making, after, acks, pushed>>

\* The end of the guards of a handler: what it does after its transaction.
Then(next) ==
  /\ loop = "idle"
  /\ loop' = "busy"
  /\ after' = next
  /\ UNCHANGED <<making, cache, pill, acks, pushed>>

Changed(new) == [NoAfter EXCEPT !.cache = new]

Member(u) == cache.role[u] # "none"
requireAdmin(u) == cache.role[u] \in {"admin", "owner"}
requireOwner(u) == u = cache.owner
requireGroup == cache.kind = "group"
CachedMembers == {u \in Users : Member(u)}

\* A duplicate that is answered with the number a new message would have had.
RepeatedNextSeq(u, c, m) ==
  [NoAfter EXCEPT !.cache = cache, !.ack = {[by |-> u, cid |-> c, seq |-> cache.maxSeq + 1]}]

\* What handleSendMessage does after CommitMessage: a duplicate is answered
\* with the message that is there and not published again.
Repeated(u, c, m) == [NoAfter EXCEPT !.cache = cache, !.ack = {[by |-> u, cid |-> c, seq |-> m.seq]}]
Stored(u, c, n) ==
  [NoAfter EXCEPT !.cache = [cache EXCEPT !.maxSeq = n], !.push = n,
                  !.ack = {[by |-> u, cid |-> c, seq |-> n]}]

\* A retry that is stored again.
SendMessageTwice(u, c) ==
  /\ Member(u)
  /\ Commit(cache.maxSeq + 1, u, c, CachedMembers)
  /\ Then(Stored(u, c, cache.maxSeq + 1))

\* A retry that is published again.
SendMessagePushedTwice(u, c) ==
  /\ Member(u)
  /\ IF Sent(u, c) # {}
     THEN \E m \in Sent(u, c) : Then([Repeated(u, c, m) EXCEPT !.push = m.seq]) /\ UNCHANGED store
     ELSE /\ Commit(cache.maxSeq + 1, u, c, CachedMembers)
          /\ Then(Stored(u, c, cache.maxSeq + 1))

\* A number that is used up although the transaction fails.
SendMessageCountsFirst(u, c) ==
  /\ Member(u)
  /\ Sent(u, c) = {}
  /\ \/ Commit(cache.maxSeq + 1, u, c, CachedMembers)
     \/ UNCHANGED store
  /\ Then(Stored(u, c, cache.maxSeq + 1))

SendMessage(u, c) ==
  /\ Member(u)
  /\ IF Sent(u, c) # {}
     THEN \E m \in Sent(u, c) : Then(Repeated(u, c, m)) /\ UNCHANGED store
     ELSE /\ Commit(cache.maxSeq + 1, u, c, CachedMembers)
          /\ Then(Stored(u, c, cache.maxSeq + 1))

\* handleAppendCallRecord: told by a call actor for the private conversation
\* of caller u; no client id, no reply.
AppendCallRecord(u) ==
  /\ conv.kind = "private" /\ row[u].status = "active"
  /\ CachedMembers # {}
  /\ Commit(cache.maxSeq + 1, u, None, CachedMembers)
  /\ Then([Stored(u, None, cache.maxSeq + 1) EXCEPT !.ack = {}])

RevokeMessage(by, m) ==
  /\ Member(by)
  /\ ~m.revoked
  /\ m.sender = by \/ requireAdmin(by)
  /\ Revoke(m)
  /\ Then(Changed(cache))

\* handleUpdateInfo, as far as the member limit goes.
UpdateInfo(by, n) ==
  /\ requireGroup /\ requireAdmin(by)
  /\ n >= Cardinality(CachedMembers)
  /\ conv' = [conv EXCEPT !.limit = n]
  /\ UNCHANGED <<row, unread, messages>>
  /\ Then(Changed([cache EXCEPT !.limit = n]))

\* One member more than the limit allows.
AddMemberOverLimit(by, u, r) ==
  /\ requireGroup /\ requireAdmin(by)
  /\ r \in Assignable
  /\ ~Member(u)
  /\ cache.limit = 0 \/ Cardinality(CachedMembers) <= cache.limit
  /\ row[u].status = "none"
  /\ SetRow(u, NewRow(r))
  /\ Then(Changed([cache EXCEPT !.role[u] = r]))

\* CreateMember inserts: a user who was a member before still has a row.
AddMember(by, u, r) ==
  /\ requireGroup /\ requireAdmin(by)
  /\ r \in Assignable
  /\ ~Member(u)
  /\ cache.limit = 0 \/ Cardinality(CachedMembers) < cache.limit
  /\ row[u].status = "none"
  /\ SetRow(u, NewRow(r))
  /\ Then(Changed([cache EXCEPT !.role[u] = r]))

DeleteMember(u) == SetRow(u, [row[u] EXCEPT !.status = "gone"])

\* A removal that the copy is not told of.
RemoveMemberKeepCopy(by, u) ==
  /\ requireGroup /\ requireAdmin(by)
  /\ Member(u) /\ u # cache.owner
  /\ DeleteMember(u)
  /\ Then(Changed(cache))

RemoveMember(by, u) ==
  /\ requireGroup /\ requireAdmin(by)
  /\ Member(u) /\ u # cache.owner
  /\ DeleteMember(u)
  /\ Then(Changed([cache EXCEPT !.role[u] = "none"]))

\* A departure that is not denied to the owner.
LeaveAnyone(u) ==
  /\ requireGroup /\ Member(u)
  /\ DeleteMember(u)
  /\ Then(Changed([cache EXCEPT !.role[u] = "none"]))

Leave(u) ==
  /\ requireGroup /\ Member(u) /\ u # cache.owner
  /\ DeleteMember(u)
  /\ Then(Changed([cache EXCEPT !.role[u] = "none"]))

SetRole(by, u, r) ==
  /\ requireGroup /\ requireOwner(by)
  /\ r \in Assignable
  /\ Member(u) /\ u # cache.owner
  /\ SetRow(u, [row[u] EXCEPT !.role = r])
  /\ Then(Changed([cache EXCEPT !.role[u] = r]))

\* The owner may name itself: first it becomes regular, then owner.
TransferOwner(by, u) ==
  /\ requireGroup /\ requireOwner(by)
  /\ Member(u)
  /\ row' = [row EXCEPT ![by].role = "regular", ![u].role = "owner"]
  /\ conv' = [conv EXCEPT !.owner = u]
  /\ UNCHANGED <<unread, messages>>
  /\ Then(Changed([cache EXCEPT !.role[by] = "regular", !.role[u] = "owner", !.owner = u]))

\* The copy keeps the members; the PoisonPill goes to the end of the mailbox.
Dissolve(by) ==
  /\ requireGroup /\ requireOwner(by)
  /\ row' = [u \in Users |-> IF row[u].status = "none" THEN row[u]
                             ELSE [row[u] EXCEPT !.status = "gone"]]
  /\ conv' = [conv EXCEPT !.status = "dissolved"]
  /\ UNCHANGED <<unread, messages>>
  /\ Then([Changed(cache) EXCEPT !.pill = TRUE])

\* The rest of a handler: change the copy, publish, reply.
Settle ==
  /\ loop = "busy"
  /\ loop' = "idle"
  /\ cache' = after.cache
  /\ pushed' = IF after.push > 0 THEN Append(pushed, after.push) ELSE pushed
  /\ acks' = acks \cup after.ack
  /\ pill' = (pill \/ after.pill)
  /\ after' = NoAfter
  /\ UNCHANGED <<store, making>>

\* IdleTimeout: six hours without a message.
Idle ==
  /\ loop = "idle"
  /\ pill' = TRUE
  /\ UNCHANGED <<store, making, loop, cache, after, acks, pushed>>

\* The loop takes the PoisonPill; until it has unregistered itself, commands
\* still reach its mailbox and are lost.
TakePill ==
  /\ loop = "idle"
  /\ pill
  /\ loop' = "stopping"
  /\ UNCHANGED <<store, making, cache, after, pill, acks, pushed>>

Gone == cache' = NoCache /\ after' = NoAfter /\ pill' = FALSE /\ loop' = "none"

Unregister ==
  /\ loop = "stopping"
  /\ Gone
  /\ UNCHANGED <<store, making, acks, pushed>>

\* The server dies and is started again: the database is what is left.
Crash ==
  /\ loop # "none" \/ making # "nothing"
  /\ Gone
  /\ making' = "nothing"
  /\ UNCHANGED <<store, acks, pushed>>

-----------------------------------------------------------------------------
Command(by) ==
  \/ \E c \in Cids \cup {None} : SendMessage(by, c)
  \/ AppendCallRecord(by)
  \/ \E m \in messages : RevokeMessage(by, m)
  \/ \E n \in Limits : UpdateInfo(by, n)
  \/ \E u \in Users, r \in Roles : AddMember(by, u, r) \/ SetRole(by, u, r)
  \/ \E u \in Users : RemoveMember(by, u) \/ TransferOwner(by, u)
  \/ Leave(by)
  \/ Dissolve(by)

Manager ==
  \/ \E u, v \in Users : CreatePrivate(u, v)
  \/ \E u \in Users, S \in SUBSET Users : CreateGroup(u, S)
  \/ CreateMessage \/ CreateSpawn \/ CreatePublish
  \/ \E u \in Users : Read(u)

Next ==
  \/ Manager
  \/ Reach \/ OnStart
  \/ \E by \in Users : Command(by)
  \/ Settle \/ Idle \/ TakePill \/ Unregister
  \/ Crash

Spec == Init /\ [][Next]_vars

-----------------------------------------------------------------------------
CacheType == [kind: {"", "private", "group"}, owner: Users \cup {None}, maxSeq: Nat,
              limit: Nat, role: [Users -> Roles \cup {"none"}]]
AckType == [by: Users, cid: Cids \cup {None}, seq: Nat]

TypeOK ==
  /\ conv \in [kind: {"", "private", "group"}, status: {"active", "dissolved"},
               owner: Users \cup {None}, maxSeq: Nat, limit: Nat]
  /\ row \in [Users -> [status: {"none", "active", "gone"}, role: Roles, lastRead: Nat]]
  /\ unread \in [Users -> Nat]
  /\ messages \subseteq [seq: Nat, sender: Users, cid: Cids \cup {None}, revoked: BOOLEAN]
  /\ making \in {"nothing", "message", "spawn", "publish"}
  /\ loop \in {"none", "start", "idle", "busy", "stopping"}
  /\ cache \in CacheType
  /\ after \in [cache: CacheType, push: Nat, ack: SUBSET AckType, pill: BOOLEAN]
  /\ pill \in BOOLEAN
  /\ acks \subseteq AckType
  /\ pushed \in Seq(Nat)

\* The copy once the handler in progress has settled.
Copy == IF loop = "busy" THEN after.cache ELSE cache

(* The copy of a conversation actor agrees with the rows, whatever failed,
   crashed or was reloaded: the number of the last message always, the rest
   until the group is dissolved.  An actor that could not load the members
   knows none and has its PoisonPill. *)
CacheMatchesStore ==
  loop \in {"idle", "busy"} /\ Copy.kind # "" =>
    /\ Copy.kind = conv.kind
    /\ Copy.maxSeq = conv.maxSeq
    /\ conv.status = "active" =>
         /\ Copy.owner = conv.owner
         /\ Copy.limit = conv.limit
         /\ Copy.role = StoredRoles \/ (Copy.role = NobodyIn /\ pill)

(* Messages are numbered 1, 2, ... without a gap or a double, and max_seq is
   the last number: through retries, crashes, reloads of the actor and the
   manager's own message. *)
SeqContinuity ==
  /\ {m.seq : m \in messages} = 1..conv.maxSeq
  /\ \A m1, m2 \in messages : m1.seq = m2.seq => m1 = m2

(* A client id names one message: a retry after a lost answer, a crash or a
   reload stores nothing (CommitMessage). *)
OncePerClientId ==
  \A m1, m2 \in messages :
    m1.cid # None /\ m1.cid = m2.cid /\ m1.sender = m2.sender => m1.seq = m2.seq

(* What a client was answered is in the database, under that number. *)
AckedIsStored ==
  \A a \in acks : \E m \in messages : m.seq = a.seq /\ m.sender = a.by /\ m.cid = a.cid

(* No message is pushed twice, and the conversation actor pushes in order;
   the manager's message of a new group may come late. *)
PushedOnceInOrder ==
  \A i, j \in DOMAIN pushed :
    i < j => pushed[i] # pushed[j] /\ (pushed[j] # 1 => pushed[i] < pushed[j])

(* A group has one owner: the conversation's row and the members' rows name
   the same user, through transfers, departures and failures. *)
OneOwner ==
  conv.kind = "group" /\ conv.status = "active" =>
    {u \in Users : RoleOf(u) = "owner"} = {conv.owner}

(* A member's counter never shows more than there is: at most the messages
   of others after its read mark that are not revoked, though the read mark
   and the counter are written by the manager and the rest by the actor. *)
UnreadNeverOvercounts ==
  \A u \in Users : row[u].status = "active" =>
    unread[u] <= Cardinality({m \in messages : /\ m.sender # u
                                               /\ ~m.revoked
                                               /\ m.seq > row[u].lastRead})

-----------------------------------------------------------------------------
(* The rows, the actor and the manager implement the room of module Room. *)
Abs == INSTANCE Room WITH
  kind <- conv.kind, open <- conv.status = "active", owner <- conv.owner,
  limit <- conv.limit, role <- StoredRoles, last <- conv.maxSeq, log <- messages

ImplementsRoom == Abs!Spec
=============================================================================
