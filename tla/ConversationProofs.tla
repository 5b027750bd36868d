------------------------- MODULE ConversationProofs -------------------------
(***************************************************************************)
(* Theorems about Conversation, for any finite set of users, any client    *)
(* ids, limits and number of messages: type correctness, that the actor's  *)
(* copy agrees with the rows, the numbering of messages, that a client id  *)
(* names one message, that a group has one owner, that all of it           *)
(* implements the Room; and about what it shows its clients: what was      *)
(* answered is stored, what is pushed is pushed once and in order, and     *)
(* counters never show more than there is to read.                         *)
(***************************************************************************)
EXTENDS Conversation, FiniteSetTheorems, TLAPS

\* The store's fields that the actor's steps rely on, by name.
ConvType == [kind: {"", "private", "group"}, status: {"active", "dissolved"},
             owner: Users \cup {None}, maxSeq: Nat, limit: Nat]
RowType == [status: {"none", "active", "gone"}, role: Roles, lastRead: Nat]
MessageType == [seq: Nat, sender: Users, cid: Cids \cup {None}, revoked: BOOLEAN]
AfterType == [cache: CacheType, push: Nat, ack: SUBSET AckType, pill: BOOLEAN]

-----------------------------------------------------------------------------
\* The records before anything is loaded have their types.
LEMMA EmptyRecords ==
  /\ NoRow \in RowType
  /\ NobodyIn \in [Users -> Roles \cup {"none"}]
  /\ NoCache \in CacheType
  /\ NoAfter \in AfterType
  /\ NoCache.kind = "" /\ NoCache.role = NobodyIn
  /\ NoAfter.cache = NoCache /\ NoAfter.push = 0 /\ NoAfter.ack = {} /\ NoAfter.pill = FALSE
  <1>1. NoRow \in RowType
    BY DEF NoRow, RowType, Roles
  <1>2. NobodyIn \in [Users -> Roles \cup {"none"}]
    BY DEF NobodyIn
  <1>3. NoCache \in CacheType /\ NoCache.kind = "" /\ NoCache.role = NobodyIn
    BY <1>2 DEF NoCache, CacheType
  <1>4. NoAfter \in AfterType /\ NoAfter.cache = NoCache /\ NoAfter.push = 0
        /\ NoAfter.ack = {} /\ NoAfter.pill = FALSE
    BY <1>3 DEF NoAfter, AfterType
  <1> QED
    BY <1>1, <1>2, <1>3, <1>4

\* What is loaded has the type of the copy.
LEMMA LoadedType ==
  ASSUME TypeOK
  PROVE  /\ StoredRoles \in [Users -> Roles \cup {"none"}]
         /\ Loaded \in CacheType
         /\ [Loaded EXCEPT !.role = NobodyIn] \in CacheType
  <1>1. StoredRoles \in [Users -> Roles \cup {"none"}]
    BY DEF TypeOK, StoredRoles, RoleOf
  <1>2. Loaded \in CacheType
    BY <1>1 DEF TypeOK, Loaded, CacheType
  <1> QED
    BY <1>1, <1>2, EmptyRecords DEF CacheType

\* The initial state is well typed.
LEMMA TypeInit == Init => TypeOK
  <1> SUFFICES ASSUME Init PROVE TypeOK
    OBVIOUS
  <1>1. conv \in ConvType
    BY DEF Init, ConvType
  <1>2. row \in [Users -> RowType] /\ unread \in [Users -> Nat] /\ messages \subseteq MessageType
    BY EmptyRecords DEF Init
  <1>3. cache \in CacheType /\ after \in AfterType
    BY EmptyRecords DEF Init
  <1>4. acks \subseteq AckType
    BY DEF Init
  <1>5. pushed \in Seq(Nat)
    <2>1. pushed = <<>>
      BY DEF Init
    <2> QED
      BY <2>1
  <1> QED
    BY <1>1, <1>2, <1>3, <1>4, <1>5 DEF Init, TypeOK, ConvType, RowType, MessageType, AfterType

\* CommitMessage keeps the types of the store.
LEMMA CommitType ==
  ASSUME TypeOK, NEW n \in Nat, NEW u \in Users, NEW c \in Cids \cup {None}, NEW A,
         Commit(n, u, c, A)
  PROVE  conv' \in ConvType /\ row' \in [Users -> RowType] /\ unread' \in [Users -> Nat]
         /\ messages' \subseteq MessageType
  <1>1. conv' \in ConvType
    BY DEF TypeOK, Commit, ConvType
  <1>2. unread' \in [Users -> Nat]
    <2>1. unread' = [v \in Users |-> IF v \in A \ {u} THEN unread[v] + 1 ELSE unread[v]]
      BY DEF Commit
    <2>2. unread \in [Users -> Nat]
      BY DEF TypeOK
    <2> QED
      BY <2>1, <2>2
  <1>3. messages' \subseteq MessageType
    <2>1. messages' = messages \cup {[seq |-> n, sender |-> u, cid |-> c, revoked |-> FALSE]}
      BY DEF Commit
    <2>2. messages \subseteq MessageType
      BY DEF TypeOK, MessageType
    <2>3. [seq |-> n, sender |-> u, cid |-> c, revoked |-> FALSE] \in MessageType
      BY DEF MessageType
    <2> QED
      BY <2>1, <2>2, <2>3
  <1> QED
    BY <1>1, <1>2, <1>3 DEF TypeOK, Commit, RowType

\* So does RevokeMessage.
LEMMA RevokeType ==
  ASSUME TypeOK, NEW m \in messages, Revoke(m)
  PROVE  conv' \in ConvType /\ row' \in [Users -> RowType] /\ unread' \in [Users -> Nat]
         /\ messages' \subseteq MessageType
  <1>1. unread' \in [Users -> Nat]
    <2>1. ASSUME NEW v \in Users
          PROVE  unread'[v] \in {unread[v], unread[v] - 1} /\ (unread'[v] # unread[v] => unread[v] > 0)
      <3>1. unread' = [w \in Users |->
              IF w # m.sender /\ unread[w] > 0 /\ row[w].status = "active" /\ row[w].lastRead < m.seq
              THEN unread[w] - 1 ELSE unread[w]]
        BY DEF Revoke
      <3> QED
        BY <3>1
    <2>2. unread \in [Users -> Nat] /\ unread' = [v \in Users |-> unread'[v]]
      BY DEF TypeOK, Revoke
    <2> QED
      BY <2>1, <2>2
  <1>2. messages' \subseteq MessageType
    <2>1. messages' = (messages \ {m}) \cup {[m EXCEPT !.revoked = TRUE]}
      BY DEF Revoke
    <2>2. messages \subseteq MessageType
      BY DEF TypeOK, MessageType
    <2>3. [m EXCEPT !.revoked = TRUE] \in MessageType
      BY <2>2 DEF MessageType
    <2> QED
      BY <2>1, <2>2, <2>3
  <1> QED
    BY <1>1, <1>2 DEF TypeOK, Revoke, RowType, ConvType

\* A changed copy is something a handler may leave to be done.
LEMMA ChangedType ==
  ASSUME NEW new \in CacheType
  PROVE  /\ Changed(new) \in AfterType
         /\ Changed(new).cache = new
         /\ [Changed(new) EXCEPT !.pill = TRUE] \in AfterType
         /\ [Changed(new) EXCEPT !.pill = TRUE].cache = new
  BY EmptyRecords DEF Changed, AfterType

\* So is what follows a CommitMessage.
LEMMA SentType ==
  ASSUME TypeOK, NEW u \in Users, NEW c \in Cids \cup {None}
  PROVE  /\ \A n \in Nat :
              /\ Stored(u, c, n) \in AfterType
              /\ [Stored(u, c, n) EXCEPT !.ack = {}] \in AfterType
              /\ Stored(u, c, n).cache = [cache EXCEPT !.maxSeq = n]
              /\ [Stored(u, c, n) EXCEPT !.ack = {}].cache = [cache EXCEPT !.maxSeq = n]
         /\ \A m \in messages : /\ Repeated(u, c, m) \in AfterType
                                /\ Repeated(u, c, m).cache = cache
  <1>1. ASSUME NEW n \in Nat
        PROVE  [cache EXCEPT !.maxSeq = n] \in CacheType /\ [by |-> u, cid |-> c, seq |-> n] \in AckType
    BY DEF TypeOK, CacheType, AckType
  <1>2. ASSUME NEW m \in messages
        PROVE  cache \in CacheType /\ [by |-> u, cid |-> c, seq |-> m.seq] \in AckType
    BY DEF TypeOK, AckType
  <1> QED
    BY <1>1, <1>2, EmptyRecords DEF Stored, Repeated, AfterType

-----------------------------------------------------------------------------
\* The copy that follows a CommitMessage.
LEMMA StoredCache ==
  ASSUME TypeOK, NEW u \in Users, NEW c \in Cids \cup {None}, NEW n \in Nat
  PROVE  Stored(u, c, n).cache = [cache EXCEPT !.maxSeq = n]
  BY EmptyRecords DEF Stored, AfterType

\* What a handler does to the actor, once its guards hold.
LEMMA ThenType ==
  ASSUME TypeOK, NEW next \in AfterType, Then(next)
  PROVE  /\ loop = "idle" /\ loop' = "busy" /\ after' \in AfterType
         /\ UNCHANGED <<making, cache, pill, acks, pushed>>
  BY DEF Then

\* The store after a transaction that touches one row of a member.
LEMMA SetRowType ==
  ASSUME TypeOK, NEW u \in Users, NEW r \in RowType, SetRow(u, r)
  PROVE  /\ conv' \in ConvType /\ row' \in [Users -> RowType] /\ unread' \in [Users -> Nat]
         /\ messages' \subseteq MessageType
  BY DEF TypeOK, SetRow, ConvType, RowType, MessageType

StoreType ==
  /\ conv \in ConvType
  /\ row \in [Users -> RowType]
  /\ unread \in [Users -> Nat]
  /\ messages \subseteq MessageType

\* A handler whose transaction and copy are typed leaves everything typed.
LEMMA HandlerType ==
  ASSUME TypeOK, StoreType', NEW next \in AfterType, Then(next)
  PROVE  TypeOK'
  <1>1. /\ loop' = "busy" /\ after' \in AfterType
        /\ UNCHANGED <<making, cache, pill, acks, pushed>>
    BY DEF Then
  <1> QED
    BY <1>1 DEF TypeOK, StoreType, ConvType, RowType, MessageType, AfterType

\* Every handler of a command keeps the types.
LEMMA TypeCommand ==
  ASSUME TypeOK, NEW by \in Users, Command(by)
  PROVE  TypeOK'
  <1>t. cache \in CacheType /\ cache.maxSeq + 1 \in Nat
    <2>1. cache \in CacheType
      BY DEF TypeOK
    <2>2. cache.maxSeq \in Nat
      BY <2>1 DEF CacheType
    <2> QED
      BY <2>1, <2>2
  <1>r. row \in [Users -> RowType] /\ StoreType
    BY DEF TypeOK, StoreType, ConvType, RowType, MessageType
  <1>1. ASSUME NEW c \in Cids \cup {None}, SendMessage(by, c) PROVE TypeOK'
    <2>1. CASE Sent(by, c) # {}
      <3>1. PICK m \in Sent(by, c) : Then(Repeated(by, c, m)) /\ UNCHANGED store
        BY <1>1, <2>1 DEF SendMessage
      <3>2. m \in messages /\ StoreType'
        BY <1>r, <3>1 DEF Sent, store, StoreType
      <3> QED
        BY <3>1, <3>2, SentType, HandlerType
    <2>2. CASE Sent(by, c) = {}
      <3>1. Commit(cache.maxSeq + 1, by, c, CachedMembers) /\ Then(Stored(by, c, cache.maxSeq + 1))
        BY <1>1, <2>2 DEF SendMessage
      <3>2. StoreType'
        BY <1>t, <3>1, CommitType DEF StoreType
      <3> QED
        BY <1>t, <3>1, <3>2, SentType, HandlerType
    <2> QED
      BY <2>1, <2>2
  <1>2. CASE AppendCallRecord(by)
    <2>1. /\ Commit(cache.maxSeq + 1, by, None, CachedMembers)
          /\ Then([Stored(by, None, cache.maxSeq + 1) EXCEPT !.ack = {}])
      BY <1>2 DEF AppendCallRecord
    <2>2. StoreType'
      BY <1>t, <2>1, CommitType DEF StoreType
    <2> QED
      BY <1>t, <2>1, <2>2, SentType, HandlerType
  <1>3. ASSUME NEW m \in messages, RevokeMessage(by, m) PROVE TypeOK'
    <2>1. Revoke(m) /\ Then(Changed(cache))
      BY <1>3 DEF RevokeMessage
    <2>2. StoreType'
      BY <2>1, RevokeType DEF StoreType
    <2> QED
      BY <1>t, <2>1, <2>2, ChangedType, HandlerType
  <1>4. ASSUME NEW n \in Limits, UpdateInfo(by, n) PROVE TypeOK'
    <2>1. n \in Nat
      BY ConversationAssumption
    <2>2. /\ conv' = [conv EXCEPT !.limit = n] /\ UNCHANGED <<row, unread, messages>>
          /\ Then(Changed([cache EXCEPT !.limit = n]))
      BY <1>4 DEF UpdateInfo
    <2>3. StoreType'
      BY <1>r, <2>1, <2>2 DEF StoreType, ConvType
    <2>4. [cache EXCEPT !.limit = n] \in CacheType
      BY <1>t, <2>1 DEF CacheType
    <2> QED
      BY <2>2, <2>3, <2>4, ChangedType, HandlerType
  <1>5. ASSUME NEW u \in Users, NEW r \in Roles, AddMember(by, u, r) PROVE TypeOK'
    <2>1. NewRow(r) \in RowType
      BY DEF NewRow, RowType
    <2>2. SetRow(u, NewRow(r)) /\ Then(Changed([cache EXCEPT !.role[u] = r]))
      BY <1>5 DEF AddMember
    <2>3. StoreType'
      BY <2>1, <2>2, SetRowType DEF StoreType
    <2>4. [cache EXCEPT !.role[u] = r] \in CacheType
      BY <1>t DEF CacheType
    <2> QED
      BY <2>2, <2>3, <2>4, ChangedType, HandlerType
  <1>6. ASSUME NEW u \in Users, NEW r \in Roles, SetRole(by, u, r) PROVE TypeOK'
    <2>1. [row[u] EXCEPT !.role = r] \in RowType
      BY <1>r DEF RowType
    <2>2. SetRow(u, [row[u] EXCEPT !.role = r]) /\ Then(Changed([cache EXCEPT !.role[u] = r]))
      BY <1>6 DEF SetRole
    <2>3. StoreType'
      BY <2>1, <2>2, SetRowType DEF StoreType
    <2>4. [cache EXCEPT !.role[u] = r] \in CacheType
      BY <1>t DEF CacheType
    <2> QED
      BY <2>2, <2>3, <2>4, ChangedType, HandlerType
  <1>7. ASSUME NEW u \in Users, RemoveMember(by, u) \/ Leave(by) PROVE TypeOK'
    <2>1. PICK v \in Users : DeleteMember(v) /\ Then(Changed([cache EXCEPT !.role[v] = "none"]))
      BY <1>7 DEF RemoveMember, Leave
    <2>2. [row[v] EXCEPT !.status = "gone"] \in RowType
      BY <1>r DEF RowType
    <2>3. StoreType'
      BY <2>1, <2>2, SetRowType DEF StoreType, DeleteMember
    <2>4. [cache EXCEPT !.role[v] = "none"] \in CacheType
      BY <1>t DEF CacheType
    <2> QED
      BY <2>1, <2>3, <2>4, ChangedType, HandlerType
  <1>8. ASSUME NEW u \in Users, TransferOwner(by, u) PROVE TypeOK'
    <2>1. /\ row' = [row EXCEPT ![by].role = "regular", ![u].role = "owner"]
          /\ conv' = [conv EXCEPT !.owner = u] /\ UNCHANGED <<unread, messages>>
          /\ Then(Changed([cache EXCEPT !.role[by] = "regular", !.role[u] = "owner", !.owner = u]))
      BY <1>8 DEF TransferOwner
    <2>2. row' \in [Users -> RowType]
      BY <1>r, <2>1 DEF RowType, Roles
    <2>3. StoreType'
      BY <1>r, <2>1, <2>2 DEF StoreType, ConvType
    <2>4. [cache EXCEPT !.role[by] = "regular", !.role[u] = "owner", !.owner = u] \in CacheType
      BY <1>t DEF CacheType, Roles
    <2> QED
      BY <2>1, <2>3, <2>4, ChangedType, HandlerType
  <1>9. CASE Dissolve(by)
    <2>1. /\ row' = [u \in Users |-> IF row[u].status = "none" THEN row[u]
                                     ELSE [row[u] EXCEPT !.status = "gone"]]
          /\ conv' = [conv EXCEPT !.status = "dissolved"] /\ UNCHANGED <<unread, messages>>
          /\ Then([Changed(cache) EXCEPT !.pill = TRUE])
      BY <1>9 DEF Dissolve
    <2>2. StoreType'
      BY <1>r, <2>1 DEF StoreType, ConvType, RowType
    <2> QED
      BY <1>t, <2>1, <2>2, ChangedType, HandlerType
  <1> QED
    BY <1>1, <1>2, <1>3, <1>4, <1>5, <1>6, <1>7, <1>8, <1>9 DEF Command

(* What creating a conversation leaves to its later steps: nothing is there
   before the first of them, and there is no actor before the last. *)
CreationInv ==
  /\ conv.kind = "" => /\ making = "nothing" /\ loop = "none"
                       /\ messages = {} /\ conv.maxSeq = 0
  /\ making \in {"message", "spawn"} => loop = "none"
  /\ making = "message" => /\ conv.kind = "group" /\ conv.owner \in Users
                           /\ messages = {} /\ conv.maxSeq = 0

\* Every step keeps the types.
LEMMA TypeStep == TypeOK /\ CreationInv /\ [Next]_vars => TypeOK'
  <1> SUFFICES ASSUME TypeOK, CreationInv, [Next]_vars PROVE TypeOK'
    OBVIOUS
  <1>r. StoreType
    BY DEF TypeOK, StoreType, ConvType, RowType, MessageType
  <1>1. ASSUME NEW u \in Users, NEW v \in Users, CreatePrivate(u, v) PROVE TypeOK'
    <2>1. conv' \in ConvType
      BY <1>r, <1>1 DEF CreatePrivate, StoreType, ConvType
    <2>2. row' \in [Users -> RowType]
      BY <1>1, EmptyRecords DEF CreatePrivate, NewRow, RowType, Roles
    <2>3. making' = "spawn" /\ UNCHANGED <<unread, messages, actor, acks, pushed>>
      BY <1>1 DEF CreatePrivate
    <2> QED
      BY <2>1, <2>2, <2>3 DEF TypeOK, ConvType, RowType, actor
  <1>2. ASSUME NEW u \in Users, NEW S \in SUBSET Users, CreateGroup(u, S) PROVE TypeOK'
    <2>1. conv' \in ConvType
      BY <1>r, <1>2, ConversationAssumption DEF CreateGroup, StoreType, ConvType
    <2>2. row' \in [Users -> RowType]
      BY <1>2, EmptyRecords DEF CreateGroup, NewRow, RowType, Roles
    <2>3. making' = "message" /\ UNCHANGED <<unread, messages, actor, acks, pushed>>
      BY <1>2 DEF CreateGroup
    <2> QED
      BY <2>1, <2>2, <2>3 DEF TypeOK, ConvType, RowType, actor
  <1>3. CASE CreateMessage
    <2>1. conv.owner \in Users /\ making' \in {"spawn", "nothing"} /\ UNCHANGED <<actor, acks, pushed>>
      BY <1>3 DEF CreateMessage, CreationInv
    <2>2. StoreType'
      <3>1. CASE Commit(1, conv.owner, None, {u \in Users : RoleOf(u) # "none"})
        BY <2>1, <3>1, CommitType DEF StoreType
      <3>2. CASE UNCHANGED store
        BY <1>r, <3>2 DEF StoreType, store
      <3> QED
        BY <1>3, <3>1, <3>2 DEF CreateMessage
    <2> QED
      BY <2>1, <2>2 DEF TypeOK, StoreType, ConvType, RowType, MessageType, actor
  <1>4. CASE CreateSpawn \/ CreatePublish
    <2>1. pushed' \in {pushed, Append(pushed, 1)} /\ loop' \in {loop, "start"}
      BY <1>4 DEF CreateSpawn, CreatePublish, GetOrCreate, actor
    <2>2. making' \in {"nothing", "publish"} /\ UNCHANGED <<store, cache, after, pill, acks>>
      BY <1>4 DEF CreateSpawn, CreatePublish, actor
    <2>3. pushed \in Seq(Nat)
      BY DEF TypeOK
    <2>4. pushed' \in Seq(Nat)
      BY <2>1, <2>3
    <2> QED
      BY <2>1, <2>2, <2>4 DEF TypeOK, store
  <1>5. ASSUME NEW u \in Users, Read(u) PROVE TypeOK'
    <2>1. PICK n \in 0..conv.maxSeq : MarkRead(u, n)
      BY <1>5 DEF Read
    <2>2. n \in Nat
      OBVIOUS
    <2>3. row' \in [Users -> RowType]
      BY <1>r, <2>1, <2>2 DEF MarkRead, StoreType, RowType
    <2>4. unread' \in [Users -> Nat]
      BY <1>r, <2>1 DEF MarkRead, StoreType
    <2> QED
      BY <1>5, <2>3, <2>4 DEF Read, TypeOK, RowType, actor
  <1>6. CASE Reach
    BY <1>6 DEF Reach, GetOrCreate, TypeOK, store
  <1>7. CASE OnStart
    <2>1. cache' \in CacheType /\ pill' \in BOOLEAN
      BY <1>7, EmptyRecords, LoadedType DEF OnStart, TypeOK
    <2>2. loop' = "idle" /\ UNCHANGED <<store, making, after, acks, pushed>>
      BY <1>7 DEF OnStart
    <2> QED
      BY <2>1, <2>2 DEF TypeOK, store
  <1>8. ASSUME NEW by \in Users, Command(by) PROVE TypeOK'
    BY <1>8, TypeCommand
  <1>9. CASE Settle
    <2>1. after \in AfterType
      BY DEF TypeOK, AfterType
    <2>2. cache' \in CacheType /\ acks' \subseteq AckType /\ pill' \in BOOLEAN
      BY <1>9, <2>1 DEF Settle, TypeOK, AfterType
    <2>4. pushed' \in Seq(Nat)
      <3>1. pushed' \in {pushed, Append(pushed, after.push)}
        BY <1>9 DEF Settle
      <3>2. pushed \in Seq(Nat) /\ after.push \in Nat
        BY <2>1 DEF TypeOK, AfterType
      <3> QED
        BY <3>1, <3>2
    <2>3. after' \in AfterType /\ loop' = "idle" /\ UNCHANGED <<store, making>>
      BY <1>9, EmptyRecords DEF Settle
    <2> QED
      BY <2>2, <2>3, <2>4 DEF TypeOK, AfterType, store
  <1>10. CASE Idle \/ TakePill
    BY <1>10 DEF Idle, TakePill, TypeOK, store
  <1>11. CASE Unregister \/ Crash
    <2>1. cache' \in CacheType /\ after' \in AfterType /\ pill' = FALSE /\ loop' = "none"
      BY <1>11, EmptyRecords DEF Unregister, Crash, Gone
    <2>2. making' \in {making, "nothing"} /\ UNCHANGED <<store, acks, pushed>>
      BY <1>11 DEF Unregister, Crash
    <2> QED
      BY <2>1, <2>2 DEF TypeOK, AfterType, store
  <1>12. CASE UNCHANGED vars
    BY <1>12 DEF TypeOK, vars, store, actor
  <1> QED
    BY <1>1, <1>2, <1>3, <1>4, <1>5, <1>6, <1>7, <1>8, <1>9, <1>10, <1>11, <1>12 DEF Next, Manager

-----------------------------------------------------------------------------
\* What no command changes, and how the transactions look.
LEMMA CommandFrame ==
  ASSUME TypeOK, NEW by \in Users, Command(by)
  PROVE  /\ loop = "idle" /\ loop' = "busy"
         /\ UNCHANGED <<making, cache, pill, acks, pushed>>
         /\ conv'.kind = conv.kind
         /\ conv.status = "dissolved" => conv'.status = "dissolved"
  <1>1. loop = "idle" /\ loop' = "busy" /\ UNCHANGED <<making, cache, pill, acks, pushed>>
    BY DEF Command, SendMessage, AppendCallRecord, RevokeMessage, UpdateInfo, AddMember, SetRole,
           RemoveMember, Leave, TransferOwner, Dissolve, Then
  <1>2. \/ UNCHANGED conv
        \/ \E n \in Nat : conv' = [conv EXCEPT !.maxSeq = n]
        \/ \E n \in Nat : conv' = [conv EXCEPT !.limit = n]
        \/ \E u \in Users : conv' = [conv EXCEPT !.owner = u]
        \/ conv' = [conv EXCEPT !.status = "dissolved"]
    <2>0. cache \in CacheType
      BY DEF TypeOK
    <2>1. cache.maxSeq + 1 \in Nat
      <3>1. cache.maxSeq \in Nat
        BY <2>0 DEF CacheType
      <3> QED
        BY <3>1
    <2>2. ASSUME NEW n \in Limits PROVE n \in Nat
      BY ConversationAssumption
    <2> QED
      BY <2>1, <2>2 DEF Command, SendMessage, AppendCallRecord, RevokeMessage, UpdateInfo, AddMember,
           SetRole, RemoveMember, Leave, TransferOwner, Dissolve, Commit, Revoke, SetRow,
           DeleteMember, store
  <1>3. conv \in ConvType
    BY DEF TypeOK, ConvType
  <1> QED
    BY <1>1, <1>2, <1>3 DEF ConvType

\* Creation goes step by step.
LEMMA CreationStep == TypeOK /\ CreationInv /\ [Next]_vars => CreationInv'
  <1> SUFFICES ASSUME TypeOK, CreationInv, [Next]_vars PROVE CreationInv'
    OBVIOUS
  <1>r. conv \in ConvType
    BY DEF TypeOK, ConvType
  <1>1. ASSUME NEW u \in Users, NEW v \in Users, CreatePrivate(u, v) PROVE CreationInv'
    <2>1. conv'.kind = "private" /\ making' = "spawn" /\ loop' = "none"
      BY <1>r, <1>1 DEF CreatePrivate, CreationInv, ConvType, actor
    <2> QED
      BY <2>1 DEF CreationInv
  <1>2. ASSUME NEW u \in Users, NEW S \in SUBSET Users, CreateGroup(u, S) PROVE CreationInv'
    <2>1. /\ conv'.kind = "group" /\ conv'.owner = u /\ conv'.maxSeq = 0 /\ making' = "message"
          /\ messages' = {} /\ loop' = "none"
      BY <1>r, <1>2 DEF CreateGroup, CreationInv, ConvType, actor
    <2> QED
      BY <2>1 DEF CreationInv
  <1>3. CASE CreateMessage
    <2>1. conv.kind = "group" /\ loop = "none" /\ making' \in {"spawn", "nothing"} /\ loop' = loop
      BY <1>3 DEF CreateMessage, CreationInv, actor
    <2>2. conv'.kind = conv.kind
      BY <1>3, <1>r DEF CreateMessage, Commit, store, ConvType
    <2> QED
      BY <2>1, <2>2 DEF CreationInv
  <1>4. CASE CreateSpawn \/ CreatePublish
    <2>1. making \in {"spawn", "publish"} /\ making' \in {"publish", "nothing"} /\ UNCHANGED store
      BY <1>4 DEF CreateSpawn, CreatePublish
    <2> QED
      BY <2>1 DEF CreationInv, store
  <1>5. ASSUME NEW u \in Users, Read(u) PROVE CreationInv'
    BY <1>5 DEF Read, CreationInv, actor
  <1>6. CASE Reach
    BY <1>6 DEF Reach, CreationInv, store
  <1>7. CASE OnStart
    BY <1>7 DEF OnStart, CreationInv, store
  <1>8. ASSUME NEW by \in Users, Command(by) PROVE CreationInv'
    BY <1>8, CommandFrame DEF CreationInv
  <1>9. CASE Settle \/ Idle \/ TakePill
    BY <1>9 DEF Settle, Idle, TakePill, CreationInv, store
  <1>10. CASE Unregister \/ Crash
    BY <1>10 DEF Unregister, Crash, Gone, CreationInv, store
  <1>11. CASE UNCHANGED vars
    BY <1>11 DEF CreationInv, vars, store, actor
  <1> QED
    BY <1>1, <1>2, <1>3, <1>4, <1>5, <1>6, <1>7, <1>8, <1>9, <1>10, <1>11 DEF Next, Manager

-----------------------------------------------------------------------------
\* The next message extends the numbers by one, and names a new client id.
LEMMA CommitEffect ==
  ASSUME TypeOK, SeqContinuity, OncePerClientId,
         NEW u \in Users, NEW c \in Cids \cup {None}, NEW A,
         Sent(u, c) = {}, Commit(conv.maxSeq + 1, u, c, A)
  PROVE  /\ SeqContinuity' /\ OncePerClientId'
         /\ conv' = [conv EXCEPT !.maxSeq = conv.maxSeq + 1] /\ conv'.maxSeq = conv.maxSeq + 1
         /\ StoredRoles' = StoredRoles
         /\ messages' = messages \cup
              {[seq |-> conv.maxSeq + 1, sender |-> u, cid |-> c, revoked |-> FALSE]}
  <1> DEFINE n == conv.maxSeq + 1
             x == [seq |-> n, sender |-> u, cid |-> c, revoked |-> FALSE]
  <1>1. messages' = messages \cup {x} /\ conv' = [conv EXCEPT !.maxSeq = n] /\ row' = row
        /\ \A m \in messages : m.seq # n
    BY DEF Commit
  <1>2. conv.maxSeq \in Nat /\ conv'.maxSeq = n
    BY <1>1 DEF TypeOK
  <1>3. x.seq = n /\ x.sender = u /\ x.cid = c
    OBVIOUS
  <1> HIDE DEF x
  <1>4. SeqContinuity'
    <2>1. {m.seq : m \in messages'} = {m.seq : m \in messages} \cup {n}
      BY <1>1, <1>3
    <2>2. 1..conv'.maxSeq = 1..conv.maxSeq \cup {n}
      BY <1>2
    <2>3. \A m1, m2 \in messages' : m1.seq = m2.seq => m1 = m2
      BY <1>1, <1>3 DEF SeqContinuity
    <2> QED
      BY <2>1, <2>2, <2>3 DEF SeqContinuity
  <1>5. OncePerClientId'
    <2>1. ASSUME NEW m \in messages, c # None PROVE ~(m.sender = u /\ m.cid = c)
      BY <2>1 DEF Sent
    <2> QED
      BY <1>1, <1>3, <2>1 DEF OncePerClientId
  <1>6. StoredRoles' = StoredRoles
    BY <1>1 DEF StoredRoles, RoleOf
  <1> QED
    BY <1>1, <1>2, <1>4, <1>5, <1>6 DEF x

\* A revocation keeps the numbers and the client ids.
LEMMA RevokeEffect ==
  ASSUME TypeOK, SeqContinuity, OncePerClientId, NEW m \in messages, Revoke(m)
  PROVE  /\ SeqContinuity' /\ OncePerClientId'
         /\ conv' = conv /\ StoredRoles' = StoredRoles
         /\ messages' = (messages \ {m}) \cup {[m EXCEPT !.revoked = TRUE]}
  <1> DEFINE x == [m EXCEPT !.revoked = TRUE]
  <1>1. messages' = (messages \ {m}) \cup {x} /\ UNCHANGED <<conv, row>>
    BY DEF Revoke
  <1>2. m \in MessageType
    BY DEF TypeOK, MessageType
  <1>3. x.seq = m.seq /\ x.sender = m.sender /\ x.cid = m.cid
    BY <1>2 DEF MessageType
  <1> HIDE DEF x
  <1>4. SeqContinuity'
    <2>1. {k.seq : k \in messages'} = {k.seq : k \in messages}
      BY <1>1, <1>3
    <2>2. \A m1, m2 \in messages' : m1.seq = m2.seq => m1 = m2
      BY <1>1, <1>3 DEF SeqContinuity
    <2> QED
      BY <1>1, <2>1, <2>2 DEF SeqContinuity
  <1>5. OncePerClientId'
    BY <1>1, <1>3 DEF OncePerClientId
  <1>6. StoredRoles' = StoredRoles
    BY <1>1 DEF StoredRoles, RoleOf
  <1> QED
    BY <1>1, <1>4, <1>5, <1>6 DEF x

\* What a written row does to the roles.
LEMMA SetRowEffect ==
  ASSUME TypeOK, NEW u \in Users, NEW r \in RowType, SetRow(u, r)
  PROVE  /\ StoredRoles' = [StoredRoles EXCEPT ![u] = IF r.status = "active" THEN r.role ELSE "none"]
         /\ UNCHANGED <<conv, messages>>
  BY DEF TypeOK, SetRow, StoredRoles, RoleOf

-----------------------------------------------------------------------------
\* An actor that could not load its conversation knows no members.
CopyInv == loop \in {"idle", "busy"} => (Copy.kind = "" => Copy.role = NobodyIn)

IInv ==
  /\ TypeOK /\ CreationInv
  /\ CopyInv /\ CacheMatchesStore
  /\ SeqContinuity /\ OncePerClientId
  /\ OneOwner

RoomStep == [Abs!Next]_(Abs!roomVars)

\* A handler that finds a member in its copy, or a group, can rely on it.
LEMMA Trusted ==
  ASSUME IInv, loop = "idle", cache.kind # "" \/ \E u \in Users : Member(u)
  PROVE  /\ cache.kind # "" /\ cache.kind = conv.kind /\ cache.maxSeq = conv.maxSeq
         /\ conv.status = "active" =>
              /\ cache.owner = conv.owner /\ cache.limit = conv.limit
              /\ cache.role = StoredRoles \/ (cache.role = NobodyIn /\ pill)
              /\ (\E u \in Users : Member(u)) => cache.role = StoredRoles
  <1>1. Copy = cache
    BY DEF Copy
  <1>2. ASSUME NEW u \in Users, cache.role = NobodyIn PROVE ~Member(u)
    BY <1>2 DEF Member, NobodyIn
  <1> QED
    BY <1>1, <1>2 DEF IInv, CopyInv, CacheMatchesStore

\* The copy a handler leaves behind is right when it matches what it wrote.
LEMMA HandlerCopy ==
  ASSUME TypeOK, NEW by \in Users, Command(by),
         after'.cache.kind # "", after'.cache.kind = conv.kind, after'.cache.maxSeq = conv'.maxSeq,
         conv'.status = "active" =>
           /\ after'.cache.owner = conv'.owner /\ after'.cache.limit = conv'.limit
           /\ after'.cache.role = StoredRoles' \/ (after'.cache.role = NobodyIn /\ pill)
  PROVE  CopyInv' /\ CacheMatchesStore'
  <1>1. loop' = "busy" /\ pill' = pill /\ conv'.kind = conv.kind
    BY CommandFrame
  <1>2. Copy' = after'.cache
    BY <1>1 DEF Copy
  <1> QED
    BY <1>1, <1>2 DEF CopyInv, CacheMatchesStore

\* The owner stays who it is when neither the roles nor the row change it.
LEMMA SameOwner ==
  ASSUME OneOwner, StoredRoles' = StoredRoles, conv'.kind = conv.kind, conv'.owner = conv.owner,
         conv'.status = "active" => conv.status = "active"
  PROVE  OneOwner'
  <1>1. ASSUME NEW u \in Users PROVE RoleOf(u)' = RoleOf(u)
    <2>1. StoredRoles[u] = RoleOf(u) /\ StoredRoles'[u] = RoleOf(u)'
      BY DEF StoredRoles
    <2> QED
      BY <2>1
  <1> QED
    BY <1>1 DEF OneOwner

\* A step that leaves the rows of the conversation and its members alone.
LEMMA RoomStutter ==
  ASSUME conv' = conv, StoredRoles' = StoredRoles, messages' = messages
  PROVE  RoomStep
  BY DEF RoomStep, Abs!roomVars

\* A message that is stored for a member is a Post of the room.
LEMMA PostStep ==
  ASSUME TypeOK, SeqContinuity, OncePerClientId, conv.status = "active",
         NEW u \in Users, NEW c \in Cids \cup {None}, NEW A,
         Sent(u, c) = {}, Commit(conv.maxSeq + 1, u, c, A), RoleOf(u) # "none"
  PROVE  RoomStep
  <1>1. /\ conv' = [conv EXCEPT !.maxSeq = conv.maxSeq + 1] /\ StoredRoles' = StoredRoles
        /\ messages' = messages \cup
              {[seq |-> conv.maxSeq + 1, sender |-> u, cid |-> c, revoked |-> FALSE]}
    BY CommitEffect
  <1>2. conv \in ConvType
    BY DEF TypeOK, ConvType
  <1>3. /\ conv'.kind = conv.kind /\ conv'.status = conv.status /\ conv'.owner = conv.owner
        /\ conv'.limit = conv.limit /\ conv'.maxSeq = conv.maxSeq + 1
    BY <1>1, <1>2 DEF ConvType
  <1>4. StoredRoles[u] # "none"
    BY DEF StoredRoles
  <1>5. c = None \/ ~\E m \in messages : m.sender = u /\ m.cid = c
    BY DEF Sent
  <1>6. Abs!Post(u, c)
    BY <1>1, <1>3, <1>4, <1>5 DEF Abs!Post, Abs!In, Abs!rules
  <1> QED
    BY <1>6 DEF RoomStep, Abs!Next, Abs!Act

(* What a command does, beyond its types. *)
Effect ==
  /\ SeqContinuity' /\ OncePerClientId'
  /\ CopyInv' /\ CacheMatchesStore'
  /\ OneOwner'
  /\ conv.status = "active" => RoomStep

\* A message that a handler stores, for a member of the copy.
LEMMA CommitHandler ==
  ASSUME IInv, NEW by \in Users, Command(by), NEW u \in Users, NEW c \in Cids \cup {None}, NEW A,
         \E v \in Users : Member(v), conv.status = "active" => RoleOf(u) # "none",
         Sent(u, c) = {}, Commit(cache.maxSeq + 1, u, c, A),
         after'.cache = [cache EXCEPT !.maxSeq = cache.maxSeq + 1]
  PROVE  Effect
  <1>1. loop = "idle" /\ conv.status = "dissolved" => conv'.status = "dissolved"
    BY CommandFrame DEF IInv
  <1>2. /\ cache.kind # "" /\ cache.kind = conv.kind /\ cache.maxSeq = conv.maxSeq
        /\ conv.status = "active" =>
             cache.owner = conv.owner /\ cache.limit = conv.limit /\ cache.role = StoredRoles
    BY CommandFrame, Trusted DEF IInv
  <1>3. Commit(conv.maxSeq + 1, u, c, A)
    BY <1>2
  <1>4. /\ SeqContinuity' /\ OncePerClientId' /\ StoredRoles' = StoredRoles
        /\ conv' = [conv EXCEPT !.maxSeq = conv.maxSeq + 1]
    BY <1>3, CommitEffect DEF IInv
  <1>5. conv \in ConvType /\ cache \in CacheType
    BY DEF IInv, TypeOK, ConvType
  <1>6. /\ conv'.kind = conv.kind /\ conv'.status = conv.status /\ conv'.owner = conv.owner
        /\ conv'.limit = conv.limit /\ conv'.maxSeq = conv.maxSeq + 1
    BY <1>4, <1>5 DEF ConvType
  <1>7. /\ after'.cache.kind = cache.kind /\ after'.cache.owner = cache.owner
        /\ after'.cache.limit = cache.limit /\ after'.cache.role = cache.role
        /\ after'.cache.maxSeq = cache.maxSeq + 1
    BY <1>5 DEF CacheType
  <1>8. CopyInv' /\ CacheMatchesStore'
    BY <1>2, <1>4, <1>6, <1>7, HandlerCopy DEF IInv
  <1>9. OneOwner'
    BY <1>4, <1>6, SameOwner DEF IInv
  <1>10. conv.status = "active" => RoomStep
    BY <1>3, PostStep DEF IInv
  <1> QED
    BY <1>4, <1>8, <1>9, <1>10 DEF Effect

\* A handler that touches nothing in the database.
LEMMA QuietHandler ==
  ASSUME IInv, NEW by \in Users, Command(by), \E v \in Users : Member(v),
         UNCHANGED store, after'.cache = cache
  PROVE  Effect
  <1>1. /\ cache.kind # "" /\ cache.kind = conv.kind /\ cache.maxSeq = conv.maxSeq
        /\ conv.status = "active" =>
             cache.owner = conv.owner /\ cache.limit = conv.limit /\ cache.role = StoredRoles
    BY CommandFrame, Trusted DEF IInv
  <1>2. conv' = conv /\ messages' = messages /\ StoredRoles' = StoredRoles
    BY DEF store, StoredRoles, RoleOf
  <1>3. CopyInv' /\ CacheMatchesStore'
    BY <1>1, <1>2, HandlerCopy DEF IInv
  <1>4. OneOwner'
    BY <1>2, SameOwner DEF IInv
  <1>5. SeqContinuity' /\ OncePerClientId'
    BY <1>2 DEF IInv, SeqContinuity, OncePerClientId
  <1> QED
    BY <1>2, <1>3, <1>4, <1>5, RoomStutter DEF Effect

\* handleSendMessage: a repeated client id touches nothing, another one is a Post.
LEMMA SendEffect ==
  ASSUME IInv, NEW by \in Users, NEW c \in Cids \cup {None}, Command(by), SendMessage(by, c)
  PROVE  Effect
  <1>1. Member(by) /\ loop = "idle"
    BY CommandFrame DEF SendMessage, IInv
  <1>2. CASE Sent(by, c) # {}
    <2>1. PICK m \in Sent(by, c) : Then(Repeated(by, c, m)) /\ UNCHANGED store
      BY <1>2 DEF SendMessage
    <2>2. m \in messages
      BY DEF Sent
    <2>3. after'.cache = cache
      BY <2>1, <2>2, SentType DEF Then, IInv
    <2> QED
      BY <1>1, <2>1, <2>3, QuietHandler
  <1>3. CASE Sent(by, c) = {}
    <2>1. Commit(cache.maxSeq + 1, by, c, CachedMembers) /\ Then(Stored(by, c, cache.maxSeq + 1))
      BY <1>3 DEF SendMessage
    <2>2. cache.maxSeq \in Nat /\ cache.maxSeq + 1 \in Nat
      <3>1. cache.maxSeq = conv.maxSeq /\ conv \in ConvType
        BY <1>1, Trusted DEF IInv, TypeOK, ConvType
      <3>2. conv.maxSeq \in Nat
        BY <3>1 DEF ConvType
      <3> QED
        BY <3>1, <3>2
    <2>3. after'.cache = [cache EXCEPT !.maxSeq = cache.maxSeq + 1]
      <3>1. TypeOK /\ after' = Stored(by, c, cache.maxSeq + 1)
        BY <2>1 DEF Then, IInv
      <3>2. ASSUME NEW n \in Nat PROVE Stored(by, c, n).cache = [cache EXCEPT !.maxSeq = n]
        BY <3>1, StoredCache
      <3> QED
        BY <2>2, <3>1, <3>2
    <2>4. conv.status = "active" => RoleOf(by) # "none"
      <3>1. conv.status = "active" => cache.role = StoredRoles
        BY <1>1, Trusted
      <3> QED
        BY <1>1, <3>1 DEF Member, StoredRoles
    <2> QED
      BY <1>1, <1>3, <2>1, <2>3, <2>4, CommitHandler
  <1> QED
    BY <1>2, <1>3

\* handleAppendCallRecord: a Post in the caller's name.
LEMMA AppendEffect ==
  ASSUME IInv, NEW by \in Users, Command(by), AppendCallRecord(by)
  PROVE  Effect
  <1>1. loop = "idle" /\ \E v \in Users : Member(v)
    BY CommandFrame DEF AppendCallRecord, CachedMembers, IInv
  <1>2. RoleOf(by) # "none"
    BY DEF AppendCallRecord, RoleOf, IInv, TypeOK, Roles
  <1>3. /\ Commit(cache.maxSeq + 1, by, None, CachedMembers)
        /\ Then([Stored(by, None, cache.maxSeq + 1) EXCEPT !.ack = {}])
    BY DEF AppendCallRecord
  <1>4. cache.maxSeq \in Nat /\ cache.maxSeq + 1 \in Nat
    <2>1. cache.maxSeq = conv.maxSeq /\ conv \in ConvType
      BY <1>1, Trusted DEF IInv, TypeOK, ConvType
    <2>2. conv.maxSeq \in Nat
      BY <2>1 DEF ConvType
    <2> QED
      BY <2>1, <2>2
  <1>5. after'.cache = [cache EXCEPT !.maxSeq = cache.maxSeq + 1]
    BY <1>3, <1>4, SentType DEF Then, IInv
  <1>6. Sent(by, None) = {}
    BY DEF Sent
  <1> QED
    BY <1>1, <1>2, <1>3, <1>5, <1>6, CommitHandler

\* handleRevokeMessage is a Retract of the room.
LEMMA RevokeMessageEffect ==
  ASSUME IInv, NEW by \in Users, NEW m \in messages, Command(by), RevokeMessage(by, m)
  PROVE  Effect
  <1>1. /\ Member(by) /\ Revoke(m) /\ after' = Changed(cache) /\ loop = "idle"
        /\ m.sender = by \/ requireAdmin(by)
    BY DEF RevokeMessage, Then
  <1>2. /\ cache.kind # "" /\ cache.kind = conv.kind /\ cache.maxSeq = conv.maxSeq
        /\ conv.status = "active" =>
             cache.owner = conv.owner /\ cache.limit = conv.limit /\ cache.role = StoredRoles
    BY <1>1, Trusted DEF IInv
  <1>3. after'.cache = cache
    BY <1>1, ChangedType DEF IInv, TypeOK
  <1>4. /\ SeqContinuity' /\ OncePerClientId' /\ conv' = conv /\ StoredRoles' = StoredRoles
        /\ messages' = (messages \ {m}) \cup {[m EXCEPT !.revoked = TRUE]}
    BY <1>1, RevokeEffect DEF IInv
  <1>5. CopyInv' /\ CacheMatchesStore'
    BY <1>2, <1>3, <1>4, HandlerCopy DEF IInv
  <1>6. OneOwner'
    BY <1>4, SameOwner DEF IInv
  <1>7. ASSUME conv.status = "active" PROVE RoomStep
    <2>1. Abs!Retract(by, m)
      BY <1>1, <1>2, <1>4, <1>7 DEF Abs!Retract, Abs!In, Abs!Staff, Abs!rules, Member, requireAdmin
    <2> QED
      BY <1>7, <2>1 DEF RoomStep, Abs!Next, Abs!Act
  <1> QED
    BY <1>4, <1>5, <1>6, <1>7 DEF Effect

\* handleUpdateInfo is a Limit of the room: the limit stays above the members.
LEMMA UpdateInfoEffect ==
  ASSUME IInv, NEW by \in Users, NEW n \in Limits, Command(by), UpdateInfo(by, n)
  PROVE  Effect
  <1>1. /\ requireGroup /\ requireAdmin(by) /\ n >= Cardinality(CachedMembers)
        /\ conv' = [conv EXCEPT !.limit = n] /\ UNCHANGED <<row, unread, messages>>
        /\ after' = Changed([cache EXCEPT !.limit = n]) /\ loop = "idle"
    BY DEF UpdateInfo, Then
  <1>2. Member(by)
    BY <1>1 DEF requireAdmin, Member
  <1>3. /\ cache.kind = "group" /\ conv.kind = "group" /\ cache.maxSeq = conv.maxSeq
        /\ conv.status = "active" => cache.owner = conv.owner /\ cache.role = StoredRoles
    BY <1>1, <1>2, Trusted DEF IInv, requireGroup
  <1>4. conv \in ConvType /\ cache \in CacheType /\ n \in Nat
    BY ConversationAssumption DEF IInv, TypeOK, ConvType
  <1>5. /\ conv'.kind = conv.kind /\ conv'.status = conv.status /\ conv'.owner = conv.owner
        /\ conv'.limit = n /\ conv'.maxSeq = conv.maxSeq
    BY <1>1, <1>4 DEF ConvType
  <1>6. [cache EXCEPT !.limit = n] \in CacheType
    BY <1>4 DEF CacheType
  <1>7. after'.cache = [cache EXCEPT !.limit = n]
    BY <1>1, <1>6, ChangedType
  <1>8. /\ after'.cache.kind = cache.kind /\ after'.cache.owner = cache.owner
        /\ after'.cache.limit = n /\ after'.cache.role = cache.role
        /\ after'.cache.maxSeq = cache.maxSeq
    BY <1>4, <1>7 DEF CacheType
  <1>9. StoredRoles' = StoredRoles /\ messages' = messages
    BY <1>1 DEF StoredRoles, RoleOf
  <1>10. CopyInv' /\ CacheMatchesStore'
    BY <1>3, <1>5, <1>8, <1>9, HandlerCopy DEF IInv
  <1>11. OneOwner'
    BY <1>5, <1>9, SameOwner DEF IInv
  <1>12. SeqContinuity' /\ OncePerClientId'
    BY <1>5, <1>9 DEF IInv, SeqContinuity, OncePerClientId
  <1>13. ASSUME conv.status = "active" PROVE RoomStep
    <2>1. CachedMembers = Abs!Members
      <3>1. cache.role = StoredRoles
        BY <1>3, <1>13
      <3>2. \A u \in Users : Member(u) <=> Abs!In(u)
        BY <3>1 DEF Member, Abs!In
      <3> QED
        BY <3>2 DEF CachedMembers, Abs!Members
    <2>2. Abs!Limit(by)
      BY <1>1, <1>3, <1>4, <1>5, <1>9, <1>13, <2>1 DEF Abs!Limit, Abs!Staff, requireAdmin,
             Abs!Cardinality, Cardinality
    <2> QED
      BY <1>13, <2>2 DEF RoomStep, Abs!Next, Abs!Act
  <1> QED
    BY <1>10, <1>11, <1>12, <1>13 DEF Effect

\* The owner of a group that is not dissolved is a member of it.
LEMMA OwnerIn ==
  ASSUME OneOwner, conv.kind = "group", conv.status = "active"
  PROVE  conv.owner \in Users /\ RoleOf(conv.owner) = "owner" /\ StoredRoles[conv.owner] = "owner"
  <1>1. conv.owner \in {u \in Users : RoleOf(u) = "owner"}
    BY DEF OneOwner
  <1> QED
    BY <1>1 DEF StoredRoles

\* A handler that writes the row of one member or one who becomes a member.
LEMMA RowHandler ==
  ASSUME IInv, NEW by \in Users, Command(by), requireGroup, \E v \in Users : Member(v),
         NEW u \in Users, NEW r \in RowType, SetRow(u, r),
         NEW new \in Roles \cup {"none"}, new = (IF r.status = "active" THEN r.role ELSE "none"),
         after'.cache = [cache EXCEPT !.role[u] = new],
         conv.status = "active" => u # conv.owner /\ new # "owner"
  PROVE  /\ SeqContinuity' /\ OncePerClientId'
         /\ CopyInv' /\ CacheMatchesStore'
         /\ OneOwner'
         /\ StoredRoles' = [StoredRoles EXCEPT ![u] = new]
         /\ UNCHANGED <<conv, messages>>
  <1>1. /\ cache.kind = "group" /\ conv.kind = "group" /\ cache.maxSeq = conv.maxSeq
        /\ conv.status = "active" =>
             cache.owner = conv.owner /\ cache.limit = conv.limit /\ cache.role = StoredRoles
    BY CommandFrame, Trusted DEF IInv, requireGroup
  <1>2. StoredRoles' = [StoredRoles EXCEPT ![u] = new] /\ UNCHANGED <<conv, messages>>
    BY SetRowEffect DEF IInv
  <1>3. cache \in CacheType
    BY DEF IInv, TypeOK
  <1>4. /\ after'.cache.kind = cache.kind /\ after'.cache.owner = cache.owner
        /\ after'.cache.limit = cache.limit /\ after'.cache.maxSeq = cache.maxSeq
        /\ after'.cache.role = [cache.role EXCEPT ![u] = new]
    BY <1>3 DEF CacheType
  <1>5. CopyInv' /\ CacheMatchesStore'
    BY <1>1, <1>2, <1>4, HandlerCopy DEF IInv
  <1>6. SeqContinuity' /\ OncePerClientId'
    BY <1>2 DEF IInv, SeqContinuity, OncePerClientId
  <1>7. OneOwner'
    <2>1. ASSUME conv.status = "active", NEW v \in Users
          PROVE  (StoredRoles'[v] = "owner") <=> (StoredRoles[v] = "owner")
      <3>1. StoredRoles \in [Users -> Roles \cup {"none"}]
        BY LoadedType DEF IInv
      <3>2. StoredRoles[u] # "owner"
        BY <1>1, <2>1 DEF IInv, OneOwner, StoredRoles
      <3> QED
        BY <1>2, <2>1, <3>1, <3>2
    <2>2. ASSUME NEW v \in Users PROVE StoredRoles'[v] = RoleOf(v)' /\ StoredRoles[v] = RoleOf(v)
      BY DEF StoredRoles
    <2> QED
      BY <1>2, <2>1, <2>2 DEF OneOwner, IInv
  <1> QED
    BY <1>2, <1>5, <1>6, <1>7

\* handleAddMember is a Join of the room, with room for one more.
LEMMA AddMemberEffect ==
  ASSUME IInv, NEW by \in Users, NEW u \in Users, NEW r \in Roles, Command(by), AddMember(by, u, r)
  PROVE  Effect
  <1>1. /\ requireGroup /\ requireAdmin(by) /\ r \in {"regular", "admin"} /\ ~Member(u)
        /\ cache.limit = 0 \/ Cardinality(CachedMembers) < cache.limit
        /\ SetRow(u, NewRow(r)) /\ after' = Changed([cache EXCEPT !.role[u] = r])
    BY DEF AddMember, Then, Assignable
  <1>2. loop = "idle" /\ Member(by)
    BY <1>1, CommandFrame DEF requireAdmin, Member, IInv
  <1>3. /\ conv.kind = "group"
        /\ conv.status = "active" =>
             cache.owner = conv.owner /\ cache.limit = conv.limit /\ cache.role = StoredRoles
    BY <1>1, <1>2, Trusted DEF IInv, requireGroup
  <1>4. NewRow(r) \in RowType /\ r = (IF NewRow(r).status = "active" THEN NewRow(r).role ELSE "none")
    BY DEF NewRow, RowType
  <1>5. [cache EXCEPT !.role[u] = r] \in CacheType
    <2>1. cache \in CacheType
      BY DEF IInv, TypeOK
    <2> QED
      BY <2>1 DEF CacheType
  <1>6. after'.cache = [cache EXCEPT !.role[u] = r]
    BY <1>1, <1>5, ChangedType
  <1>7. conv.status = "active" => u # conv.owner /\ r # "owner"
    BY <1>1, <1>3, OwnerIn DEF IInv, Member
  <1>8. /\ SeqContinuity' /\ OncePerClientId' /\ CopyInv' /\ CacheMatchesStore' /\ OneOwner'
        /\ StoredRoles' = [StoredRoles EXCEPT ![u] = r] /\ UNCHANGED <<conv, messages>>
    BY <1>1, <1>2, <1>4, <1>6, <1>7, RowHandler
  <1>9. ASSUME conv.status = "active" PROVE RoomStep
    <2>1. \A v \in Users : Member(v) <=> Abs!In(v)
      BY <1>3, <1>9 DEF Member, Abs!In
    <2>2. CachedMembers = Abs!Members
      BY <2>1 DEF CachedMembers, Abs!Members
    <2>3. Abs!Staff(by) /\ ~Abs!In(u)
      BY <1>1, <1>3, <1>9, <2>1 DEF Abs!Staff, requireAdmin
    <2>4. Abs!Join(by, u, r)
      BY <1>1, <1>3, <1>8, <1>9, <2>2, <2>3
         DEF Abs!Join, Abs!rules, Abs!Cardinality, Cardinality
    <2> QED
      BY <1>1, <1>9, <2>4 DEF RoomStep, Abs!Next, Abs!Act
  <1> QED
    BY <1>8, <1>9 DEF Effect

\* handleSetRole is an Appoint of the room; the owner keeps its role.
LEMMA SetRoleEffect ==
  ASSUME IInv, NEW by \in Users, NEW u \in Users, NEW r \in Roles, Command(by), SetRole(by, u, r)
  PROVE  Effect
  <1>1. /\ requireGroup /\ by = cache.owner /\ r \in {"regular", "admin"}
        /\ Member(u) /\ u # cache.owner
        /\ SetRow(u, [row[u] EXCEPT !.role = r]) /\ after' = Changed([cache EXCEPT !.role[u] = r])
    BY DEF SetRole, Then, Assignable, requireOwner
  <1>2. loop = "idle"
    BY CommandFrame DEF IInv
  <1>3. /\ conv.kind = "group"
        /\ conv.status = "active" =>
             cache.owner = conv.owner /\ cache.limit = conv.limit /\ cache.role = StoredRoles
    BY <1>1, <1>2, Trusted DEF IInv, requireGroup
  <1>4. row[u] \in RowType
    BY DEF IInv, TypeOK, RowType
  <1>5. [cache EXCEPT !.role[u] = r] \in CacheType
    <2>1. cache \in CacheType
      BY DEF IInv, TypeOK
    <2> QED
      BY <2>1 DEF CacheType
  <1>6. after'.cache = [cache EXCEPT !.role[u] = r]
    BY <1>1, <1>5, ChangedType
  <1>7. CASE conv.status = "active"
    <2>1. row[u].status = "active"
      BY <1>1, <1>3, <1>7 DEF Member, StoredRoles, RoleOf
    <2> DEFINE x == [row[u] EXCEPT !.role = r]
    <2>2. x \in RowType /\ x.status = "active" /\ x.role = r /\ SetRow(u, x)
      BY <1>1, <1>4, <2>1 DEF RowType
    <2> HIDE DEF x
    <2>3. u # conv.owner /\ r # "owner"
      BY <1>1, <1>3, <1>7
    <2>4. /\ SeqContinuity' /\ OncePerClientId' /\ CopyInv' /\ CacheMatchesStore' /\ OneOwner'
          /\ StoredRoles' = [StoredRoles EXCEPT ![u] = r] /\ UNCHANGED <<conv, messages>>
      BY <1>1, <1>6, <2>2, <2>3, RowHandler
    <2>5. Abs!In(u)
      BY <1>1, <1>3, <1>7 DEF Abs!In, Member
    <2>6. Abs!Appoint(by, u, r)
      BY <1>1, <1>3, <1>7, <2>3, <2>4, <2>5 DEF Abs!Appoint, Abs!rules
    <2> QED
      BY <1>1, <1>7, <2>4, <2>6 DEF Effect, RoomStep, Abs!Next, Abs!Act
  <1>8. CASE conv.status # "active"
    <2>1. UNCHANGED <<conv, messages>>
      BY <1>1 DEF SetRow
    <2>2. after'.cache.kind = cache.kind /\ after'.cache.maxSeq = cache.maxSeq
      <3>1. cache \in CacheType
        BY DEF IInv, TypeOK
      <3> QED
        BY <1>6, <3>1 DEF CacheType
    <2>3. cache.kind # "" /\ cache.kind = conv.kind /\ cache.maxSeq = conv.maxSeq
      BY <1>1, <1>2, Trusted
    <2>4. CopyInv' /\ CacheMatchesStore'
      BY <1>8, <2>1, <2>2, <2>3, HandlerCopy DEF IInv
    <2>5. SeqContinuity' /\ OncePerClientId'
      BY <2>1 DEF IInv, SeqContinuity, OncePerClientId
    <2>6. OneOwner'
      BY <1>8, <2>1 DEF OneOwner
    <2> QED
      BY <1>8, <2>4, <2>5, <2>6 DEF Effect
  <1> QED
    BY <1>7, <1>8

\* A member whose row is deleted, by itself or by an administrator.
LEMMA PartEffect ==
  ASSUME IInv, NEW by \in Users, NEW u \in Users, Command(by), RemoveMember(by, u) \/ (Leave(by) /\ u = by)
  PROVE  Effect
  <1>1. /\ requireGroup /\ Member(u) /\ u # cache.owner /\ (by = u \/ requireAdmin(by))
        /\ SetRow(u, [row[u] EXCEPT !.status = "gone"])
        /\ after' = Changed([cache EXCEPT !.role[u] = "none"])
    BY DEF RemoveMember, Leave, DeleteMember, Then
  <1>2. loop = "idle"
    BY CommandFrame DEF IInv
  <1>3. /\ conv.kind = "group"
        /\ conv.status = "active" =>
             cache.owner = conv.owner /\ cache.limit = conv.limit /\ cache.role = StoredRoles
    BY <1>1, <1>2, Trusted DEF IInv, requireGroup
  <1>4. /\ [row[u] EXCEPT !.status = "gone"] \in RowType
        /\ [row[u] EXCEPT !.status = "gone"].status = "gone"
    <2>1. row[u] \in RowType
      BY DEF IInv, TypeOK, RowType
    <2> QED
      BY <2>1 DEF RowType
  <1>5. [cache EXCEPT !.role[u] = "none"] \in CacheType
    <2>1. cache \in CacheType
      BY DEF IInv, TypeOK
    <2> QED
      BY <2>1 DEF CacheType
  <1>6. after'.cache = [cache EXCEPT !.role[u] = "none"]
    BY <1>1, <1>5, ChangedType
  <1>7. conv.status = "active" => u # conv.owner
    BY <1>1, <1>3
  <1>8. /\ SeqContinuity' /\ OncePerClientId' /\ CopyInv' /\ CacheMatchesStore' /\ OneOwner'
        /\ StoredRoles' = [StoredRoles EXCEPT ![u] = "none"] /\ UNCHANGED <<conv, messages>>
    BY <1>1, <1>4, <1>6, <1>7, RowHandler
  <1>9. ASSUME conv.status = "active" PROVE RoomStep
    <2>1. Abs!In(u) /\ (by = u \/ Abs!Staff(by))
      BY <1>1, <1>3, <1>9 DEF Abs!In, Abs!Staff, Member, requireAdmin
    <2>2. Abs!Part(by, u)
      BY <1>3, <1>7, <1>8, <1>9, <2>1 DEF Abs!Part, Abs!rules
    <2> QED
      BY <1>9, <2>2 DEF RoomStep, Abs!Next, Abs!Act
  <1> QED
    BY <1>8, <1>9 DEF Effect

\* handleTransferOwner is a HandOver: both tables name the new owner.
LEMMA TransferEffect ==
  ASSUME IInv, NEW by \in Users, NEW u \in Users, Command(by), TransferOwner(by, u)
  PROVE  Effect
  <1>1. /\ requireGroup /\ by = cache.owner /\ Member(u)
        /\ row' = [row EXCEPT ![by].role = "regular", ![u].role = "owner"]
        /\ conv' = [conv EXCEPT !.owner = u] /\ UNCHANGED <<unread, messages>>
        /\ after' = Changed([cache EXCEPT !.role[by] = "regular", !.role[u] = "owner", !.owner = u])
    BY DEF TransferOwner, Then, requireOwner
  <1>2. loop = "idle"
    BY CommandFrame DEF IInv
  <1>3. /\ cache.kind = "group" /\ conv.kind = "group" /\ cache.maxSeq = conv.maxSeq
        /\ conv.status = "active" =>
             cache.owner = conv.owner /\ cache.limit = conv.limit /\ cache.role = StoredRoles
    BY <1>1, <1>2, Trusted DEF IInv, requireGroup
  <1>4. cache \in CacheType /\ conv \in ConvType /\ row \in [Users -> RowType]
    BY DEF IInv, TypeOK, ConvType, RowType
  <1>5. [cache EXCEPT !.role[by] = "regular", !.role[u] = "owner", !.owner = u] \in CacheType
    BY <1>4 DEF CacheType, Roles
  <1>6. after'.cache = [cache EXCEPT !.role[by] = "regular", !.role[u] = "owner", !.owner = u]
    BY <1>1, <1>5, ChangedType
  <1>7. /\ after'.cache.kind = cache.kind /\ after'.cache.owner = u
        /\ after'.cache.limit = cache.limit /\ after'.cache.maxSeq = cache.maxSeq
        /\ after'.cache.role = [cache.role EXCEPT ![by] = "regular", ![u] = "owner"]
    BY <1>4, <1>6 DEF CacheType
  <1>8. /\ conv'.kind = conv.kind /\ conv'.status = conv.status /\ conv'.owner = u
        /\ conv'.limit = conv.limit /\ conv'.maxSeq = conv.maxSeq
    BY <1>1, <1>4 DEF ConvType
  <1>9. ASSUME conv.status = "active"
        PROVE  StoredRoles' = [StoredRoles EXCEPT ![by] = "regular", ![u] = "owner"]
    <2>1. row[by].status = "active"
      BY <1>1, <1>3, <1>9, OwnerIn DEF IInv, RoleOf
    <2>2. row[u].status = "active"
      BY <1>1, <1>3, <1>9 DEF Member, StoredRoles, RoleOf
    <2>3. ASSUME NEW v \in Users
          PROVE  /\ row'[v].status = row[v].status
                 /\ row'[v].role = IF v = u THEN "owner" ELSE IF v = by THEN "regular" ELSE row[v].role
      BY <1>1, <1>4 DEF RowType
    <2> QED
      BY <2>1, <2>2, <2>3 DEF StoredRoles, RoleOf
  <1>10. CopyInv' /\ CacheMatchesStore'
    BY <1>3, <1>7, <1>8, <1>9, HandlerCopy DEF IInv
  <1>11. SeqContinuity' /\ OncePerClientId'
    BY <1>1, <1>8 DEF IInv, SeqContinuity, OncePerClientId
  <1>12. OneOwner'
    <2>1. ASSUME conv.status = "active", NEW v \in Users PROVE StoredRoles'[v] = "owner" <=> v = u
      <3>1. StoredRoles[v] = "owner" <=> v = by
        BY <1>1, <1>3, <2>1 DEF IInv, OneOwner, StoredRoles
      <3>2. StoredRoles \in [Users -> Roles \cup {"none"}]
        BY LoadedType DEF IInv
      <3> QED
        BY <1>9, <2>1, <3>1, <3>2
    <2>2. ASSUME NEW v \in Users PROVE StoredRoles'[v] = RoleOf(v)'
      BY DEF StoredRoles
    <2> QED
      BY <1>8, <2>1, <2>2 DEF OneOwner
  <1>13. ASSUME conv.status = "active" PROVE RoomStep
    <2>1. Abs!In(u)
      BY <1>1, <1>3, <1>13 DEF Abs!In, Member
    <2>2. Abs!HandOver(by, u)
      BY <1>1, <1>3, <1>8, <1>9, <1>13, <2>1 DEF Abs!HandOver
    <2> QED
      BY <1>13, <2>2 DEF RoomStep, Abs!Next, Abs!Act
  <1> QED
    BY <1>10, <1>11, <1>12, <1>13 DEF Effect

\* handleDissolve is a Dissolve of the room: nobody is a member any more.
LEMMA DissolveEffect ==
  ASSUME IInv, NEW by \in Users, Command(by), Dissolve(by)
  PROVE  Effect
  <1>1. /\ requireGroup /\ by = cache.owner
        /\ row' = [u \in Users |-> IF row[u].status = "none" THEN row[u]
                                   ELSE [row[u] EXCEPT !.status = "gone"]]
        /\ conv' = [conv EXCEPT !.status = "dissolved"] /\ UNCHANGED <<unread, messages>>
        /\ after' = [Changed(cache) EXCEPT !.pill = TRUE]
    BY DEF Dissolve, Then, requireOwner
  <1>2. loop = "idle"
    BY CommandFrame DEF IInv
  <1>3. /\ cache.kind = "group" /\ conv.kind = "group" /\ cache.maxSeq = conv.maxSeq
        /\ conv.status = "active" => cache.owner = conv.owner
    BY <1>1, <1>2, Trusted DEF IInv, requireGroup
  <1>4. cache \in CacheType /\ conv \in ConvType /\ row \in [Users -> RowType]
    BY DEF IInv, TypeOK, ConvType, RowType
  <1>5. after'.cache = cache
    BY <1>1, <1>4, ChangedType
  <1>6. /\ conv'.kind = conv.kind /\ conv'.status = "dissolved" /\ conv'.owner = conv.owner
        /\ conv'.limit = conv.limit /\ conv'.maxSeq = conv.maxSeq
    BY <1>1, <1>4 DEF ConvType
  <1>7. StoredRoles' = [u \in Users |-> "none"]
    <2>1. ASSUME NEW u \in Users PROVE row'[u].status # "active"
      BY <1>1, <1>4 DEF RowType
    <2> QED
      BY <2>1 DEF StoredRoles, RoleOf
  <1>8. CopyInv' /\ CacheMatchesStore'
    BY <1>3, <1>5, <1>6, HandlerCopy DEF IInv
  <1>9. SeqContinuity' /\ OncePerClientId'
    BY <1>1, <1>6 DEF IInv, SeqContinuity, OncePerClientId
  <1>10. OneOwner'
    BY <1>6 DEF OneOwner
  <1>11. ASSUME conv.status = "active" PROVE RoomStep
    <2>1. Abs!Dissolve(by)
      BY <1>1, <1>3, <1>6, <1>7, <1>11 DEF Abs!Dissolve
    <2> QED
      BY <1>11, <2>1 DEF RoomStep, Abs!Next, Abs!Act
  <1> QED
    BY <1>8, <1>9, <1>10, <1>11 DEF Effect

\* Every command, by its handler.
LEMMA CommandEffect ==
  ASSUME IInv, NEW by \in Users, Command(by)
  PROVE  Effect
  BY SendEffect, AppendEffect, RevokeMessageEffect, UpdateInfoEffect, AddMemberEffect, SetRoleEffect,
     PartEffect, TransferEffect, DissolveEffect DEF Command

-----------------------------------------------------------------------------
\* What every step does, beyond its types and the course of the creation.
StepEffect ==
  /\ SeqContinuity' /\ OncePerClientId'
  /\ CopyInv' /\ CacheMatchesStore'
  /\ OneOwner'
  /\ RoomStep

\* After the dissolution every step is one of the room.
LEMMA DissolvedStep ==
  ASSUME TypeOK, conv.status # "active", conv'.status # "active"
  PROVE  RoomStep
  BY DEF RoomStep, Abs!Next, Abs!Afterwards

\* A step that does not touch the rows the room is made of needs to keep the
\* copy right only.
LEMMA OutsideStep ==
  ASSUME IInv, conv' = conv, StoredRoles' = StoredRoles, messages' = messages,
         CopyInv', CacheMatchesStore'
  PROVE  StepEffect
  <1>1. SeqContinuity' /\ OncePerClientId'
    BY DEF IInv, SeqContinuity, OncePerClientId
  <1>2. OneOwner'
    BY SameOwner DEF IInv
  <1> QED
    BY <1>1, <1>2, RoomStutter DEF StepEffect

\* As long as there is no actor, there is no copy to be wrong.
LEMMA NoActor ==
  ASSUME loop' \notin {"idle", "busy"}
  PROVE  CopyInv' /\ CacheMatchesStore'
  BY DEF CopyInv, CacheMatchesStore

\* A command on a dissolved conversation is a step of the room as well.
LEMMA CommandStep ==
  ASSUME IInv, NEW by \in Users, Command(by)
  PROVE  StepEffect
  <1>1. Effect
    BY CommandEffect
  <1>2. conv.status # "active" => conv'.status # "active"
    <2>1. conv.status # "active" => conv.status = "dissolved"
      BY DEF IInv, TypeOK
    <2> QED
      BY <2>1, CommandFrame DEF IInv
  <1>3. RoomStep
    BY <1>1, <1>2, DissolvedStep DEF Effect, IInv
  <1> QED
    BY <1>1, <1>3 DEF Effect, StepEffect

\* handleCreatePrivate is an OpenPrivate of the room.
LEMMA CreatePrivateStep ==
  ASSUME IInv, NEW u \in Users, NEW v \in Users, CreatePrivate(u, v)
  PROVE  StepEffect
  <1>1. /\ conv.kind = "" /\ u # v /\ messages' = messages /\ loop' = loop
        /\ conv' = [conv EXCEPT !.kind = "private", !.owner = u, !.limit = 2]
        /\ row' = [w \in Users |-> IF w \in {u, v} THEN NewRow("regular") ELSE NoRow]
    BY DEF CreatePrivate, actor
  <1>2. loop = "none"
    BY <1>1 DEF IInv, CreationInv
  <1>3. conv \in ConvType
    BY DEF IInv, TypeOK, ConvType
  <1>4. /\ conv'.kind = "private" /\ conv'.status = conv.status /\ conv'.owner = u
        /\ conv'.limit = 2 /\ conv'.maxSeq = conv.maxSeq
    BY <1>1, <1>3 DEF ConvType
  <1>5. StoredRoles' = [w \in Users |-> IF w \in {u, v} THEN "regular" ELSE "none"]
    BY <1>1 DEF StoredRoles, RoleOf, NewRow, NoRow
  <1>6. SeqContinuity' /\ OncePerClientId'
    BY <1>1, <1>4 DEF IInv, SeqContinuity, OncePerClientId
  <1>7. OneOwner'
    BY <1>4 DEF OneOwner
  <1>8. Abs!OpenPrivate(u, v)
    BY <1>1, <1>4, <1>5 DEF Abs!OpenPrivate
  <1> QED
    BY <1>1, <1>2, <1>6, <1>7, <1>8, NoActor DEF StepEffect, RoomStep, Abs!Next

\* The first transaction of handleCreateGroup is an OpenGroup of the room.
LEMMA CreateGroupStep ==
  ASSUME IInv, NEW u \in Users, NEW S \in SUBSET Users, CreateGroup(u, S)
  PROVE  StepEffect
  <1>1. /\ conv.kind = "" /\ messages' = messages /\ loop' = loop
        /\ conv' = [conv EXCEPT !.kind = "group", !.owner = u, !.limit = GroupLimit]
        /\ row' = [w \in Users |-> IF w = u THEN NewRow("owner")
                                   ELSE IF w \in S THEN NewRow("regular") ELSE NoRow]
    BY DEF CreateGroup, actor
  <1>2. loop = "none"
    BY <1>1 DEF IInv, CreationInv
  <1>3. conv \in ConvType
    BY DEF IInv, TypeOK, ConvType
  <1>4. /\ conv'.kind = "group" /\ conv'.status = conv.status /\ conv'.owner = u
        /\ conv'.limit = GroupLimit /\ conv'.maxSeq = conv.maxSeq
    BY <1>1, <1>3 DEF ConvType
  <1>5. StoredRoles' = [w \in Users |-> IF w = u THEN "owner" ELSE IF w \in S THEN "regular" ELSE "none"]
    BY <1>1 DEF StoredRoles, RoleOf, NewRow, NoRow
  <1>6. SeqContinuity' /\ OncePerClientId'
    BY <1>1, <1>4 DEF IInv, SeqContinuity, OncePerClientId
  <1>7. OneOwner'
    <2>1. ASSUME NEW w \in Users PROVE RoleOf(w)' = "owner" <=> w = u
      <3>1. StoredRoles'[w] = RoleOf(w)'
        BY DEF StoredRoles
      <3> QED
        BY <1>5, <3>1
    <2> QED
      BY <1>4, <2>1 DEF OneOwner
  <1>8. Abs!OpenGroup(u, S)
    BY <1>1, <1>4, <1>5, ConversationAssumption DEF Abs!OpenGroup
  <1> QED
    BY <1>1, <1>2, <1>6, <1>7, <1>8, NoActor DEF StepEffect, RoomStep, Abs!Next

\* appendGroupCreatedSystemMessage is a Post of the owner's.
LEMMA CreateMessageStep ==
  ASSUME IInv, CreateMessage
  PROVE  StepEffect
  <1>1. making = "message" /\ loop' = loop
    BY DEF CreateMessage, actor
  <1>2. loop = "none" /\ conv.kind = "group" /\ conv.owner \in Users /\ conv.maxSeq = 0
    BY <1>1 DEF IInv, CreationInv
  <1>3. CopyInv' /\ CacheMatchesStore'
    BY <1>1, <1>2, NoActor
  <1>4. CASE Commit(1, conv.owner, None, {u \in Users : RoleOf(u) # "none"})
    <2>1. Commit(conv.maxSeq + 1, conv.owner, None, {u \in Users : RoleOf(u) # "none"})
      BY <1>2, <1>4
    <2>2. Sent(conv.owner, None) = {}
      BY DEF Sent
    <2>3. /\ SeqContinuity' /\ OncePerClientId' /\ StoredRoles' = StoredRoles
          /\ conv' = [conv EXCEPT !.maxSeq = conv.maxSeq + 1]
      BY <1>2, <2>1, <2>2, CommitEffect DEF IInv
    <2>4. conv'.kind = conv.kind /\ conv'.status = conv.status /\ conv'.owner = conv.owner
      <3>1. conv \in ConvType
        BY DEF IInv, TypeOK, ConvType
      <3> QED
        BY <2>3, <3>1 DEF ConvType
    <2>5. OneOwner'
      BY <2>3, <2>4, SameOwner DEF IInv
    <2>6. CASE conv.status = "active"
      <3>1. RoleOf(conv.owner) # "none"
        BY <1>2, <2>6, OwnerIn DEF IInv
      <3>2. RoomStep
        BY <1>2, <2>1, <2>2, <2>6, <3>1, PostStep DEF IInv
      <3> QED
        BY <1>3, <2>3, <2>5, <3>2 DEF StepEffect
    <2>7. CASE conv.status # "active"
      BY <1>3, <2>3, <2>4, <2>5, <2>7, DissolvedStep DEF StepEffect, IInv
    <2> QED
      BY <2>6, <2>7
  <1>5. CASE UNCHANGED store
    BY <1>3, <1>5, OutsideStep DEF store, StoredRoles, RoleOf
  <1> QED
    BY <1>4, <1>5 DEF CreateMessage

\* A read mark changes no membership, and no copy.
LEMMA ReadStep ==
  ASSUME IInv, NEW u \in Users, Read(u)
  PROVE  StepEffect
  <1>1. UNCHANGED <<conv, messages, making, actor, acks, pushed>>
    BY DEF Read
  <1>2. PICK n \in 0..conv.maxSeq : MarkRead(u, n)
    BY DEF Read
  <1>3. row' = row \/ row' = [row EXCEPT ![u].lastRead = n]
    BY <1>2 DEF MarkRead
  <1>4. ASSUME NEW v \in Users PROVE row'[v].status = row[v].status /\ row'[v].role = row[v].role
    <2>1. row \in [Users -> RowType]
      BY DEF IInv, TypeOK, RowType
    <2> QED
      BY <1>3, <2>1 DEF RowType
  <1>5. StoredRoles' = StoredRoles
    BY <1>4 DEF StoredRoles, RoleOf
  <1>6. CopyInv'
    BY <1>1 DEF IInv, CopyInv, Copy, actor
  <1>7. CacheMatchesStore'
    BY <1>1, <1>5 DEF IInv, CacheMatchesStore, Copy, actor
  <1> QED
    BY <1>1, <1>5, <1>6, <1>7, OutsideStep

\* OnStart loads the rows, or leaves an actor that knows no members.
LEMMA OnStartStep ==
  ASSUME IInv, OnStart
  PROVE  StepEffect
  <1>1. conv' = conv /\ messages' = messages /\ StoredRoles' = StoredRoles /\ loop' = "idle"
    BY DEF OnStart, store, StoredRoles, RoleOf
  <1>2. Copy' = cache'
    BY <1>1 DEF Copy
  <1>3. conv.kind # ""
    BY DEF OnStart, IInv, CreationInv
  <1>4. CASE conv.status = "active" /\ cache' = Loaded
    <2>1. /\ cache'.kind = conv.kind /\ cache'.maxSeq = conv.maxSeq /\ cache'.owner = conv.owner
          /\ cache'.limit = conv.limit /\ cache'.role = StoredRoles
      BY <1>4 DEF Loaded
    <2> QED
      BY <1>1, <1>2, <1>3, <2>1, OutsideStep DEF CopyInv, CacheMatchesStore
  <1>5. CASE cache' = NoCache
    BY <1>1, <1>2, <1>5, EmptyRecords, OutsideStep DEF CopyInv, CacheMatchesStore
  <1>6. CASE conv.status = "active" /\ cache' = [Loaded EXCEPT !.role = NobodyIn] /\ pill' = TRUE
    <2>1. /\ cache'.kind = conv.kind /\ cache'.maxSeq = conv.maxSeq /\ cache'.owner = conv.owner
          /\ cache'.limit = conv.limit /\ cache'.role = NobodyIn
      BY <1>6 DEF Loaded
    <2> QED
      BY <1>1, <1>2, <1>6, <2>1, OutsideStep DEF CopyInv, CacheMatchesStore
  <1> QED
    BY <1>4, <1>5, <1>6 DEF OnStart

\* The other steps of the actor and its registry change no row.
LEMMA ActorStep ==
  ASSUME IInv, CreateSpawn \/ CreatePublish \/ Reach \/ Settle \/ Idle \/ TakePill
               \/ Unregister \/ Crash \/ UNCHANGED vars
  PROVE  StepEffect
  <1>1. conv' = conv /\ row' = row /\ messages' = messages
    BY DEF CreateSpawn, CreatePublish, Reach, Settle, Idle, TakePill, Unregister, Crash, vars, store
  <1>2. StoredRoles' = StoredRoles
    BY <1>1 DEF StoredRoles, RoleOf
  <1>3. CASE CreatePublish \/ Idle \/ UNCHANGED vars
    <2>1. UNCHANGED <<loop, cache, after>> /\ (pill => pill')
      BY <1>3 DEF CreatePublish, Idle, vars, actor
    <2>2. CopyInv' /\ CacheMatchesStore'
      BY <1>1, <1>2, <2>1 DEF IInv, CopyInv, CacheMatchesStore, Copy
    <2> QED
      BY <1>1, <1>2, <2>2, OutsideStep
  <1>4. CASE Settle
    <2>1. loop = "busy" /\ loop' = "idle" /\ cache' = after.cache /\ (pill => pill')
      BY <1>4 DEF Settle
    <2>2. Copy' = Copy
      BY <2>1 DEF Copy
    <2>3. CopyInv' /\ CacheMatchesStore'
      BY <1>1, <1>2, <2>1, <2>2 DEF IInv, CopyInv, CacheMatchesStore
    <2> QED
      BY <1>1, <1>2, <2>3, OutsideStep
  <1>5. CASE CreateSpawn \/ Reach \/ TakePill \/ Unregister \/ Crash
    <2>1. loop' \notin {"idle", "busy"}
      BY <1>5 DEF CreateSpawn, Reach, TakePill, Unregister, Crash, GetOrCreate, Gone, IInv, CreationInv
    <2> QED
      BY <1>1, <1>2, <2>1, NoActor, OutsideStep
  <1> QED
    BY <1>3, <1>4, <1>5

\* Every step, from a state of the invariant.
LEMMA AnyStep == IInv /\ [Next]_vars => StepEffect
  BY CommandStep, CreatePrivateStep, CreateGroupStep, CreateMessageStep, ReadStep, OnStartStep,
     ActorStep DEF Next, Manager

\* The invariant holds at first.
LEMMA InitIInv == Init => IInv
  <1> SUFFICES ASSUME Init PROVE IInv
    OBVIOUS
  <1>1. /\ conv = [kind |-> "", status |-> "active", owner |-> None, maxSeq |-> 0, limit |-> 0]
        /\ messages = {} /\ making = "nothing" /\ loop = "none"
    BY DEF Init
  <1>2. TypeOK
    BY TypeInit
  <1>3. CreationInv
    BY <1>1 DEF CreationInv
  <1>4. CopyInv /\ CacheMatchesStore
    BY <1>1 DEF CopyInv, CacheMatchesStore
  <1>5. SeqContinuity /\ OncePerClientId
    <2>1. conv.maxSeq = 0 /\ messages = {}
      BY <1>1
    <2>2. {m.seq : m \in messages} = {} /\ 1..conv.maxSeq = {}
      BY <2>1
    <2> QED
      BY <2>1, <2>2 DEF SeqContinuity, OncePerClientId
  <1>6. OneOwner
    BY <1>1 DEF OneOwner
  <1> QED
    BY <1>2, <1>3, <1>4, <1>5, <1>6 DEF IInv

\* Every step keeps the invariant.
LEMMA StepIInv == IInv /\ [Next]_vars => IInv'
  BY TypeStep, CreationStep, AnyStep DEF IInv, StepEffect

-----------------------------------------------------------------------------
(* Type correctness: in particular no unread counter goes below zero, however
   revocations and read marks follow each other (RevokeMessage's test of
   unread_count > 0). *)
THEOREM TypeCorrectness == Spec => []TypeOK
  <1>1. IInv => TypeOK
    BY DEF IInv
  <1> QED
    BY <1>1, InitIInv, StepIInv, PTL DEF Spec

(* The conversation actor's copy agrees with the rows, through every
   interleaving with the manager, failures, reloads and crashes. *)
THEOREM CopyIsCorrect == Spec => []CacheMatchesStore
  <1>1. IInv => CacheMatchesStore
    BY DEF IInv
  <1> QED
    BY <1>1, InitIInv, StepIInv, PTL DEF Spec

(* The messages of a conversation are numbered without a gap or a double. *)
THEOREM NumbersHaveNoGap == Spec => []SeqContinuity
  <1>1. IInv => SeqContinuity
    BY DEF IInv
  <1> QED
    BY <1>1, InitIInv, StepIInv, PTL DEF Spec

(* A client id names one message of its sender, however often it is sent. *)
THEOREM ClientIdNamesOneMessage == Spec => []OncePerClientId
  <1>1. IInv => OncePerClientId
    BY DEF IInv
  <1> QED
    BY <1>1, InitIInv, StepIInv, PTL DEF Spec

(* A group that is not dissolved has one owner, in both tables. *)
THEOREM GroupHasOneOwner == Spec => []OneOwner
  <1>1. IInv => OneOwner
    BY DEF IInv
  <1> QED
    BY <1>1, InitIInv, StepIInv, PTL DEF Spec

(* The database, the conversation actor with its copy and the manager
   implement the room. *)
THEOREM ConversationImplementsRoom == Spec => ImplementsRoom
  <1>1. Init => Abs!Init
    <2> SUFFICES ASSUME Init PROVE Abs!Init
      OBVIOUS
    <2>1. row = [u \in Users |-> NoRow] /\ messages = {}
          /\ conv = [kind |-> "", status |-> "active", owner |-> None, maxSeq |-> 0, limit |-> 0]
      BY DEF Init
    <2>2. StoredRoles = [u \in Users |-> "none"]
      BY <2>1 DEF StoredRoles, RoleOf, NoRow
    <2> QED
      BY <2>1, <2>2 DEF Abs!Init
  <1>2. IInv /\ [Next]_vars => [Abs!Next]_(Abs!roomVars)
    BY AnyStep DEF StepEffect, RoomStep
  <1> QED
    BY <1>1, <1>2, InitIInv, StepIInv, PTL DEF Spec, ImplementsRoom, Abs!Spec

-----------------------------------------------------------------------------
(* What clients see.  All of it stands on the invariant above: a handler
   takes the next number, and whom to count it for, from its copy. *)

\* The message an answer names.
HeldFor(a) == \E m \in messages : m.seq = a.seq /\ m.sender = a.by /\ m.cid = a.cid

\* Answers given, and the one a handler is about to give.
AckInv == \A a \in acks \cup after.ack : HeldFor(a)

(* A handler pushes the last number there is, which nobody has pushed; the
   manager's message of a new group has the number 1 and has been stored
   before the first handler runs. *)
PushInv ==
  /\ PushedOnceInOrder
  /\ \A i \in DOMAIN pushed : pushed[i] \in 1..conv.maxSeq
  /\ after.push # 0 => /\ after.push <= conv.maxSeq
                       /\ \A i \in DOMAIN pushed : pushed[i] < after.push
  /\ making # "nothing" => after.push # 1 /\ \A i \in DOMAIN pushed : pushed[i] # 1
  /\ making = "publish" \/ (making = "spawn" /\ conv.kind = "group") => conv.maxSeq >= 1

\* What a member has still to read.
ToRead(u) == {m \in messages : m.sender # u /\ ~m.revoked /\ m.seq > row[u].lastRead}

(* Who was never a member has no counter, and nobody has read what is not
   there yet. *)
CountInv ==
  /\ IsFiniteSet(messages)
  /\ \A u \in Users : /\ row[u].status = "active" => unread[u] <= Cardinality(ToRead(u))
                      /\ row[u].status = "none" \/ conv.kind = "" => unread[u] = 0
                      /\ row[u].lastRead <= conv.maxSeq

(* Those an actor's copy knows, its owner among them, have a row, also after
   the dissolution. *)
KnownInv ==
  loop \in {"idle", "busy"} =>
    \A u \in Users : Copy.role[u] # "none" \/ (Copy.kind = "group" /\ Copy.owner = u)
                       => row[u].status # "none"

CInv == IInv /\ AckInv /\ PushInv /\ CountInv /\ KnownInv

-----------------------------------------------------------------------------
(* What a command does for the clients. *)

\* A message is stored under the next number, pushed, and answered or not.
Posts ==
  \E u \in Users, c \in Cids \cup {None} :
    /\ Commit(conv.maxSeq + 1, u, c, CachedMembers)
    /\ after'.push = conv.maxSeq + 1
    /\ after'.ack \subseteq {[by |-> u, cid |-> c, seq |-> conv.maxSeq + 1]}

\* A message is found that was sent before, and answered again.
Repeats ==
  /\ UNCHANGED store
  /\ after'.push = 0
  /\ \E m \in messages : after'.ack = {[by |-> m.sender, cid |-> m.cid, seq |-> m.seq]}

Silent == after'.push = 0 /\ after'.ack = {}

Revokes == Silent /\ \E m \in messages : ~m.revoked /\ Revoke(m)

\* Rows stay, but for a first one; a row that ended does not come back.
RowsFollow ==
  \A v \in Users :
    /\ row'[v].status = "none" => row[v].status = "none"
    /\ row'[v].lastRead \in {0, row[v].lastRead}
    /\ row'[v].status = "active" => \/ row[v].status = "active" /\ row'[v].lastRead = row[v].lastRead
                                    \/ row[v].status = "none"

Rules ==
  /\ Silent
  /\ UNCHANGED <<messages, unread>>
  /\ conv'.maxSeq = conv.maxSeq
  /\ RowsFollow

\* What a handler that only changes its copy leaves to be done.
LEMMA ChangedIsSilent ==
  ASSUME NEW new, after' = Changed(new) \/ after' = [Changed(new) EXCEPT !.pill = TRUE]
  PROVE  Silent
  BY DEF Changed, NoAfter, Silent

\* Rows with one of them written.
LEMMA SetRowFollows ==
  ASSUME TypeOK, NEW u \in Users, NEW r \in RowType, SetRow(u, r),
         \/ r.lastRead = row[u].lastRead /\ r.status \in {row[u].status, "gone"}
         \/ row[u].status = "none" /\ r.lastRead = 0 /\ r.status = "active"
  PROVE  RowsFollow /\ UNCHANGED <<messages, unread, conv>>
  <1>1. row \in [Users -> RowType] /\ row' = [row EXCEPT ![u] = r] /\ UNCHANGED <<messages, unread, conv>>
    BY DEF TypeOK, RowType, SetRow
  <1>2. ASSUME NEW v \in Users, v # u PROVE row'[v] = row[v]
    BY <1>1, <1>2
  <1>3. row'[u] = r
    BY <1>1
  <1> QED
    BY <1>1, <1>2, <1>3 DEF RowsFollow

\* Every command is one of these.
LEMMA CommandKinds ==
  ASSUME IInv, NEW by \in Users, Command(by)
  PROVE  Posts \/ Repeats \/ Revokes \/ Rules
  <1>t. /\ conv \in ConvType /\ row \in [Users -> RowType] /\ TypeOK
        /\ loop = "idle" /\ conv.maxSeq \in Nat
    <2>1. conv \in ConvType
      BY DEF IInv, TypeOK, ConvType
    <2> QED
      BY <2>1, CommandFrame DEF IInv, TypeOK, RowType, ConvType
  <1>1. ASSUME NEW c \in Cids \cup {None}, SendMessage(by, c) PROVE Posts \/ Repeats
    <2>1. CASE Sent(by, c) # {}
      <3>1. PICK m \in Sent(by, c) : after' = Repeated(by, c, m) /\ UNCHANGED store
        BY <1>1, <2>1 DEF SendMessage, Then
      <3>2. m \in messages /\ m.sender = by /\ m.cid = c
        BY DEF Sent
      <3> QED
        BY <3>1, <3>2 DEF Repeats, Repeated, NoAfter
    <2>2. CASE Sent(by, c) = {}
      <3>1. /\ Commit(cache.maxSeq + 1, by, c, CachedMembers)
            /\ after' = Stored(by, c, cache.maxSeq + 1)
        BY <1>1, <2>2 DEF SendMessage, Then
      <3>2. cache.maxSeq = conv.maxSeq
        BY <1>1, <1>t, Trusted DEF SendMessage
      <3> QED
        BY <3>1, <3>2 DEF Posts, Stored, NoAfter
    <2> QED
      BY <2>1, <2>2
  <1>2. CASE AppendCallRecord(by)
    <2>1. /\ Commit(cache.maxSeq + 1, by, None, CachedMembers)
          /\ after' = [Stored(by, None, cache.maxSeq + 1) EXCEPT !.ack = {}]
      BY <1>2 DEF AppendCallRecord, Then
    <2>2. cache.maxSeq = conv.maxSeq
      BY <1>2, <1>t, Trusted DEF AppendCallRecord, CachedMembers
    <2>3. after'.push = conv.maxSeq + 1 /\ after'.ack = {}
      BY <2>1, <2>2 DEF Stored, NoAfter
    <2> QED
      BY <2>1, <2>2, <2>3 DEF Posts
  <1>3. ASSUME NEW m \in messages, RevokeMessage(by, m) PROVE Revokes
    BY <1>3, ChangedIsSilent DEF RevokeMessage, Then, Revokes
  <1>4. ASSUME NEW n \in Limits, UpdateInfo(by, n) PROVE Rules
    <2>1. Silent
      BY <1>4, ChangedIsSilent DEF UpdateInfo, Then
    <2>2. UNCHANGED <<row, unread, messages>> /\ conv'.maxSeq = conv.maxSeq
      BY <1>t, <1>4 DEF UpdateInfo, ConvType
    <2> QED
      BY <2>1, <2>2 DEF Rules, RowsFollow
  <1>5. ASSUME NEW u \in Users, NEW r \in Roles, AddMember(by, u, r) PROVE Rules
    <2>1. Silent
      BY <1>5, ChangedIsSilent DEF AddMember, Then
    <2>2. /\ SetRow(u, NewRow(r)) /\ row[u].status = "none" /\ NewRow(r) \in RowType
          /\ NewRow(r).lastRead = 0 /\ NewRow(r).status = "active"
      BY <1>5 DEF AddMember, NewRow, RowType
    <2> QED
      BY <1>t, <2>1, <2>2, SetRowFollows DEF Rules
  <1>6. ASSUME NEW u \in Users, NEW r \in Roles, SetRole(by, u, r) PROVE Rules
    <2>1. Silent
      BY <1>6, ChangedIsSilent DEF SetRole, Then
    <2>2. SetRow(u, [row[u] EXCEPT !.role = r])
      BY <1>6 DEF SetRole
    <2>3. /\ [row[u] EXCEPT !.role = r] \in RowType
          /\ [row[u] EXCEPT !.role = r].lastRead = row[u].lastRead
          /\ [row[u] EXCEPT !.role = r].status = row[u].status
      BY <1>t DEF RowType
    <2> QED
      BY <1>t, <2>1, <2>2, <2>3, SetRowFollows DEF Rules
  <1>7. ASSUME NEW u \in Users, RemoveMember(by, u) \/ Leave(by) PROVE Rules
    <2>1. Silent
      BY <1>7, ChangedIsSilent DEF RemoveMember, Leave, Then
    <2>2. PICK v \in Users : SetRow(v, [row[v] EXCEPT !.status = "gone"])
      BY <1>7 DEF RemoveMember, Leave, DeleteMember
    <2>3. /\ [row[v] EXCEPT !.status = "gone"] \in RowType
          /\ [row[v] EXCEPT !.status = "gone"].lastRead = row[v].lastRead
          /\ [row[v] EXCEPT !.status = "gone"].status = "gone"
      BY <1>t DEF RowType
    <2> QED
      BY <1>t, <2>1, <2>2, <2>3, SetRowFollows DEF Rules
  <1>8. ASSUME NEW u \in Users, TransferOwner(by, u) PROVE Rules
    <2>1. Silent
      BY <1>8, ChangedIsSilent DEF TransferOwner, Then
    <2>2. /\ row' = [row EXCEPT ![by].role = "regular", ![u].role = "owner"]
          /\ UNCHANGED <<unread, messages>> /\ conv'.maxSeq = conv.maxSeq
      BY <1>t, <1>8 DEF TransferOwner, ConvType
    <2>3. ASSUME NEW v \in Users PROVE row'[v].status = row[v].status /\ row'[v].lastRead = row[v].lastRead
      BY <1>t, <2>2 DEF RowType
    <2> QED
      BY <2>1, <2>2, <2>3 DEF Rules, RowsFollow
  <1>9. CASE Dissolve(by)
    <2>1. Silent
      BY <1>9, ChangedIsSilent DEF Dissolve, Then
    <2>2. /\ row' = [u \in Users |-> IF row[u].status = "none" THEN row[u]
                                     ELSE [row[u] EXCEPT !.status = "gone"]]
          /\ UNCHANGED <<unread, messages>> /\ conv'.maxSeq = conv.maxSeq
      BY <1>t, <1>9 DEF Dissolve, ConvType
    <2>3. ASSUME NEW v \in Users
          PROVE  /\ row'[v].status = (IF row[v].status = "none" THEN "none" ELSE "gone")
                 /\ row'[v].lastRead = row[v].lastRead
      BY <1>t, <2>2 DEF RowType
    <2> QED
      BY <2>1, <2>2, <2>3 DEF Rules, RowsFollow
  <1> QED
    BY <1>1, <1>2, <1>3, <1>4, <1>5, <1>6, <1>7, <1>8, <1>9 DEF Command

-----------------------------------------------------------------------------
(* Answers. *)

\* A message stays what it is but for its revocation.
LEMMA MessagesStay ==
  ASSUME IInv, [Next]_vars
  PROVE  \A a : HeldFor(a) => HeldFor(a)'
  <1>1. CASE messages \subseteq messages'
    BY <1>1 DEF HeldFor
  <1>2. ASSUME NEW m \in messages, Revoke(m) PROVE \A a : HeldFor(a) => HeldFor(a)'
    <2> DEFINE x == [m EXCEPT !.revoked = TRUE]
    <2>1. messages' = (messages \ {m}) \cup {x}
      BY <1>2 DEF Revoke
    <2>2. x.seq = m.seq /\ x.sender = m.sender /\ x.cid = m.cid
      BY DEF IInv, TypeOK
    <2> HIDE DEF x
    <2> QED
      BY <2>1, <2>2 DEF HeldFor
  <1>3. ASSUME NEW by \in Users, Command(by)
        PROVE  messages \subseteq messages' \/ \E m \in messages : Revoke(m)
    BY <1>3, CommandKinds DEF Posts, Repeats, Revokes, Rules, Commit, store
  <1>4. CASE Manager \/ Reach \/ OnStart \/ Settle \/ Idle \/ TakePill \/ Unregister \/ Crash \/ UNCHANGED vars
    <2>1. messages \subseteq messages'
      BY <1>4 DEF Manager, CreatePrivate, CreateGroup, CreateMessage, CreateSpawn, CreatePublish, Read,
                  Reach, OnStart, Settle, Idle, TakePill, Unregister, Crash, Commit, vars, store
    <2> QED
      BY <1>1, <2>1
  <1> QED
    BY <1>1, <1>2, <1>3, <1>4 DEF Next

\* Every step keeps what was answered, and what is about to be.
LEMMA AckStep == IInv /\ AckInv /\ [Next]_vars => AckInv'
  <1> SUFFICES ASSUME IInv, AckInv, [Next]_vars PROVE AckInv'
    OBVIOUS
  <1>1. ASSUME acks' \cup after'.ack \subseteq acks \cup after.ack PROVE AckInv'
    BY <1>1, MessagesStay DEF AckInv
  <1>2. ASSUME NEW by \in Users, Command(by) PROVE AckInv'
    <2>1. acks' = acks
      BY <1>2, CommandFrame DEF IInv
    <2>2. CASE Posts
      <3>1. PICK u \in Users, c \in Cids \cup {None} :
                 /\ Commit(conv.maxSeq + 1, u, c, CachedMembers)
                 /\ after'.ack \subseteq {[by |-> u, cid |-> c, seq |-> conv.maxSeq + 1]}
        BY <2>2 DEF Posts
      <3>2. [seq |-> conv.maxSeq + 1, sender |-> u, cid |-> c, revoked |-> FALSE] \in messages'
        BY <3>1 DEF Commit
      <3>3. \A a \in after'.ack : HeldFor(a)'
        BY <3>1, <3>2 DEF HeldFor
      <3> QED
        BY <2>1, <3>3, MessagesStay DEF AckInv
    <2>3. CASE Repeats
      <3>1. \A a \in after'.ack : HeldFor(a)
        BY <2>3 DEF Repeats, HeldFor
      <3> QED
        BY <2>1, <3>1, MessagesStay DEF AckInv
    <2>4. CASE Revokes \/ Rules
      BY <1>1, <2>1, <2>4 DEF Revokes, Rules, Silent
    <2> QED
      BY <1>2, <2>2, <2>3, <2>4, CommandKinds
  <1>3. CASE Settle
    BY <1>1, <1>3, EmptyRecords DEF Settle
  <1>4. CASE Unregister \/ Crash
    BY <1>1, <1>4, EmptyRecords DEF Unregister, Crash, Gone
  <1>5. CASE Manager \/ Reach \/ OnStart \/ Idle \/ TakePill \/ UNCHANGED vars
    <2>1. UNCHANGED <<acks, after>>
      BY <1>5 DEF Manager, CreatePrivate, CreateGroup, CreateMessage, CreateSpawn, CreatePublish, Read,
                  Reach, OnStart, Idle, TakePill, vars, actor
    <2> QED
      BY <1>1, <2>1
  <1> QED
    BY <1>2, <1>3, <1>4, <1>5 DEF Next

-----------------------------------------------------------------------------
(* Pushes. *)

\* The numbers are numbers.
LEMMA NatNumbers ==
  ASSUME TypeOK
  PROVE  /\ conv.maxSeq \in Nat /\ after.push \in Nat /\ pushed \in Seq(Nat)
         /\ \A i \in DOMAIN pushed : pushed[i] \in Nat
  <1>1. conv \in ConvType /\ after \in AfterType /\ pushed \in Seq(Nat)
    BY DEF TypeOK, ConvType, AfterType
  <1>2. conv.maxSeq \in Nat
    BY <1>1 DEF ConvType
  <1>3. after.push \in Nat
    BY <1>1 DEF AfterType
  <1> QED
    BY <1>1, <1>2, <1>3

\* As long as nothing is pushed and nothing new waits to be.
LEMMA PushesStay ==
  ASSUME TypeOK, PushInv, pushed' = pushed, after'.push \in {0, after.push},
         conv'.maxSeq \in Nat, conv.maxSeq <= conv'.maxSeq,
         making' \in {making, "nothing"}, conv'.kind = conv.kind
  PROVE  PushInv'
  <1>1. conv.maxSeq \in Nat /\ \A i \in DOMAIN pushed : pushed[i] \in 1..conv.maxSeq /\ pushed[i] \in Nat
    BY NatNumbers DEF PushInv
  <1>2. PushedOnceInOrder'
    BY DEF PushInv, PushedOnceInOrder
  <1>3. after'.push # 0 => /\ after'.push <= conv'.maxSeq
                          /\ \A i \in DOMAIN pushed' : pushed'[i] < after'.push
    BY NatNumbers DEF PushInv
  <1>4. \A i \in DOMAIN pushed' : pushed'[i] \in 1..conv'.maxSeq
    BY <1>1
  <1>5. making' # "nothing" => after'.push # 1 /\ \A i \in DOMAIN pushed' : pushed'[i] # 1
    BY DEF PushInv
  <1>6. making' = "publish" \/ (making' = "spawn" /\ conv'.kind = "group") => conv'.maxSeq >= 1
    BY <1>1 DEF PushInv
  <1> QED
    BY <1>2, <1>3, <1>4, <1>5, <1>6 DEF PushInv

\* A number that is later than all, or the late 1, is added.
LEMMA PushAppends ==
  ASSUME pushed \in Seq(Nat), PushedOnceInOrder, NEW n \in Nat, pushed' = Append(pushed, n),
         \/ \A i \in DOMAIN pushed : pushed[i] < n
         \/ n = 1 /\ \A i \in DOMAIN pushed : pushed[i] # 1
  PROVE  /\ PushedOnceInOrder'
         /\ \A i \in DOMAIN pushed' : pushed'[i] = n \/ \E j \in DOMAIN pushed : pushed'[i] = pushed[j]
  <1>1. /\ Len(pushed) \in Nat /\ DOMAIN pushed = 1..Len(pushed)
        /\ DOMAIN pushed' = 1..(Len(pushed) + 1)
        /\ \A i \in 1..Len(pushed) : pushed'[i] = pushed[i] /\ pushed[i] \in Nat
        /\ pushed'[Len(pushed) + 1] = n
    OBVIOUS
  <1>2. ASSUME NEW i \in DOMAIN pushed', NEW j \in DOMAIN pushed', i < j
        PROVE  pushed'[i] # pushed'[j] /\ (pushed'[j] # 1 => pushed'[i] < pushed'[j])
    <2>1. i \in 1..Len(pushed)
      BY <1>1, <1>2
    <2>2. CASE j \in 1..Len(pushed)
      BY <1>1, <1>2, <2>1, <2>2 DEF PushedOnceInOrder
    <2>3. CASE j = Len(pushed) + 1
      <3>1. pushed'[i] = pushed[i] /\ pushed'[j] = n /\ pushed[i] \in Nat /\ i \in DOMAIN pushed
        BY <1>1, <2>1, <2>3
      <3> QED
        BY <3>1
    <2> QED
      BY <1>1, <2>2, <2>3
  <1>3. ASSUME NEW i \in DOMAIN pushed'
        PROVE  pushed'[i] = n \/ \E j \in DOMAIN pushed : pushed'[i] = pushed[j]
    BY <1>1
  <1> QED
    BY <1>2, <1>3 DEF PushedOnceInOrder

\* Commands leave it to Settle to push.
LEMMA CommandPushes ==
  ASSUME IInv, PushInv, NEW by \in Users, Command(by)
  PROVE  PushInv'
  <1>1. /\ TypeOK /\ loop = "idle" /\ making' = making /\ pushed' = pushed /\ conv'.kind = conv.kind
        /\ conv.maxSeq \in Nat /\ \A i \in DOMAIN pushed : pushed[i] \in 1..conv.maxSeq
    BY CommandFrame, NatNumbers DEF IInv, PushInv
  <1>2. CASE Posts
    <2>1. after'.push = conv.maxSeq + 1 /\ conv'.maxSeq = conv.maxSeq + 1
      <3>1. conv \in ConvType
        BY <1>1 DEF TypeOK, ConvType
      <3> QED
        BY <1>2, <3>1 DEF Posts, Commit, ConvType
    <2>2. making # "nothing" => making = "publish" /\ conv.maxSeq >= 1
      BY <1>1 DEF IInv, CreationInv, PushInv, TypeOK
    <2>3. PushedOnceInOrder'
      BY <1>1 DEF PushInv, PushedOnceInOrder
    <2>4. \A i \in DOMAIN pushed' : /\ pushed'[i] \in 1..conv'.maxSeq
                                    /\ pushed'[i] < after'.push
      BY <1>1, <2>1
    <2>5. making' # "nothing" => /\ after'.push # 1
                                 /\ \A i \in DOMAIN pushed' : pushed'[i] # 1
      BY <1>1, <2>1, <2>2 DEF PushInv
    <2>6. after'.push <= conv'.maxSeq
      BY <1>1, <2>1
    <2>7. conv'.maxSeq >= 1
      BY <1>1, <2>1
    <2> QED
      BY <2>3, <2>4, <2>5, <2>6, <2>7 DEF PushInv
  <1>3. CASE Repeats \/ Revokes \/ Rules
    <2>1. after'.push = 0 /\ conv'.maxSeq = conv.maxSeq
      BY <1>3 DEF Repeats, Revokes, Rules, Silent, Revoke, store
    <2> QED
      BY <1>1, <2>1, PushesStay
  <1> QED
    BY <1>2, <1>3, CommandKinds

\* Before the first message is stored nothing can have been pushed.
LEMMA NothingPushed ==
  ASSUME TypeOK, PushInv, conv.maxSeq = 0
  PROVE  DOMAIN pushed = {} /\ after.push = 0
  <1>1. \A i \in DOMAIN pushed : pushed[i] \in 1..0
    BY DEF PushInv
  <1> QED
    BY <1>1, NatNumbers DEF PushInv

\* Every step keeps the pushes in order.
LEMMA PushStep == IInv /\ PushInv /\ [Next]_vars => PushInv'
  <1> SUFFICES ASSUME IInv, PushInv, [Next]_vars PROVE PushInv'
    OBVIOUS
  <1>t. TypeOK /\ TypeOK' /\ CreationInv
    BY StepIInv DEF IInv
  <1>1. CASE (\E u, v \in Users : CreatePrivate(u, v)) \/ (\E u \in Users, S \in SUBSET Users : CreateGroup(u, S))
    <2>1. /\ conv.maxSeq = 0 /\ UNCHANGED <<pushed, after>>
          /\ (making' = "spawn" /\ conv'.kind = "private") \/ making' = "message"
      <3>1. conv \in ConvType
        BY <1>t DEF TypeOK, ConvType
      <3> QED
        BY <1>1, <1>t, <3>1 DEF CreatePrivate, CreateGroup, CreationInv, actor, ConvType
    <2> QED
      BY <1>t, <2>1, NothingPushed DEF PushInv, PushedOnceInOrder
  <1>2. CASE CreateMessage
    <2>1. /\ conv.maxSeq = 0 /\ conv.kind = "group" /\ UNCHANGED <<pushed, after>>
      BY <1>2, <1>t DEF CreateMessage, CreationInv, actor
    <2>2. \/ making' = "spawn" /\ conv'.maxSeq = 1
          \/ making' = "nothing" /\ conv' = conv
      <3>1. conv \in ConvType
        BY <1>t DEF TypeOK, ConvType
      <3> QED
        BY <1>2, <3>1 DEF CreateMessage, Commit, store, ConvType
    <2> QED
      BY <1>t, <2>1, <2>2, NothingPushed DEF PushInv, PushedOnceInOrder
  <1>3. CASE CreateSpawn
    <2>1. /\ making = "spawn" /\ UNCHANGED <<pushed, after, conv>>
          /\ making' = IF conv.kind = "group" THEN "publish" ELSE "nothing"
      BY <1>3 DEF CreateSpawn, store
    <2> QED
      BY <2>1 DEF PushInv, PushedOnceInOrder
  <1>4. CASE CreatePublish
    <2>1. /\ making = "publish" /\ making' = "nothing" /\ pushed' = Append(pushed, 1)
          /\ UNCHANGED <<after, conv>>
      BY <1>4 DEF CreatePublish, store, actor
    <2>2. /\ conv.maxSeq >= 1 /\ after.push # 1 /\ \A i \in DOMAIN pushed : pushed[i] # 1
      BY <2>1 DEF PushInv
    <2>3. /\ PushedOnceInOrder'
          /\ \A i \in DOMAIN pushed' : pushed'[i] = 1 \/ \E j \in DOMAIN pushed : pushed'[i] = pushed[j]
      BY <1>t, <2>1, <2>2, NatNumbers, PushAppends DEF PushInv
    <2>4. \A i \in DOMAIN pushed' : pushed'[i] \in 1..conv'.maxSeq
      BY <1>t, <2>1, <2>2, <2>3, NatNumbers DEF PushInv
    <2>5. after'.push # 0 => /\ after'.push <= conv'.maxSeq
                             /\ \A i \in DOMAIN pushed' : pushed'[i] < after'.push
      BY <1>t, <2>1, <2>2, <2>3, NatNumbers DEF PushInv
    <2> QED
      BY <2>1, <2>3, <2>4, <2>5 DEF PushInv
  <1>5. CASE Settle
    <2>1. /\ after'.push = 0 /\ UNCHANGED <<making, conv>>
          /\ pushed' = IF after.push > 0 THEN Append(pushed, after.push) ELSE pushed
      BY <1>5, EmptyRecords DEF Settle, store
    <2>2. CASE after.push = 0
      BY <1>t, <2>1, <2>2, NatNumbers, PushesStay
    <2>3. CASE after.push # 0
      <3>1. /\ pushed' = Append(pushed, after.push) /\ after.push \in 1..conv.maxSeq
            /\ \A i \in DOMAIN pushed : pushed[i] < after.push
        BY <1>t, <2>1, <2>3, NatNumbers DEF PushInv
      <3>2. /\ PushedOnceInOrder'
            /\ \A i \in DOMAIN pushed' :
                 pushed'[i] = after.push \/ \E j \in DOMAIN pushed : pushed'[i] = pushed[j]
        BY <1>t, <3>1, NatNumbers, PushAppends DEF PushInv
      <3>3. \A i \in DOMAIN pushed' : pushed'[i] \in 1..conv'.maxSeq
        BY <2>1, <3>1, <3>2 DEF PushInv
      <3>4. making' # "nothing" => \A i \in DOMAIN pushed' : pushed'[i] # 1
        BY <2>1, <3>2 DEF PushInv
      <3> QED
        BY <2>1, <3>2, <3>3, <3>4 DEF PushInv
    <2> QED
      BY <2>2, <2>3
  <1>6. ASSUME NEW by \in Users, Command(by) PROVE PushInv'
    BY <1>6, CommandPushes
  <1>7. CASE (\E u \in Users : Read(u)) \/ Reach \/ OnStart \/ Idle \/ TakePill \/ Unregister \/ Crash
             \/ UNCHANGED vars
    <2>1. /\ UNCHANGED <<pushed, conv>> /\ making' \in {making, "nothing"}
          /\ after' \in {after, NoAfter}
      BY <1>7 DEF Read, Reach, OnStart, Idle, TakePill, Unregister, Crash, Gone, vars, actor, store
    <2>2. after'.push \in {0, after.push}
      BY <2>1, EmptyRecords
    <2> QED
      BY <1>t, <2>1, <2>2, NatNumbers, PushesStay
  <1> QED
    BY <1>1, <1>2, <1>3, <1>4, <1>5, <1>6, <1>7 DEF Next, Manager

-----------------------------------------------------------------------------
(* Counters. *)

\* The sets to be counted are finite.
LEMMA ToReadFinite ==
  ASSUME IsFiniteSet(messages), NEW v
  PROVE  IsFiniteSet(ToRead(v)) /\ Cardinality(ToRead(v)) \in Nat
  <1>1. ToRead(v) \subseteq messages
    BY DEF ToRead
  <1> QED
    BY <1>1, FS_Subset, FS_CardinalityType

\* The fields that counting reads have their types.
LEMMA CountTypes ==
  ASSUME TypeOK
  PROVE  /\ conv.maxSeq \in Nat /\ \A m \in messages : m.seq \in Nat
         /\ \A v \in Users : unread[v] \in Nat /\ row[v].lastRead \in Nat
                             /\ row[v].status \in {"none", "active", "gone"}
  <1>1. conv \in ConvType /\ row \in [Users -> RowType] /\ messages \subseteq MessageType
        /\ unread \in [Users -> Nat]
    BY DEF TypeOK, ConvType, RowType, MessageType
  <1>2. conv.maxSeq \in Nat
    BY <1>1 DEF ConvType
  <1>3. \A m \in messages : m.seq \in Nat
    BY <1>1 DEF MessageType
  <1>4. \A v \in Users : row[v].lastRead \in Nat /\ row[v].status \in {"none", "active", "gone"}
    BY <1>1 DEF RowType
  <1> QED
    BY <1>1, <1>2, <1>3, <1>4

Created == conv.kind # ""

\* A new message is one more to read for those it is counted for.
LEMMA CommitCounts ==
  ASSUME TypeOK, CountInv, NEW u \in Users, NEW c \in Cids \cup {None}, NEW A,
         Commit(conv.maxSeq + 1, u, c, A), Created,
         \A v \in Users : v \in A => row[v].status # "none"
  PROVE  CountInv'
  <1> DEFINE n == conv.maxSeq + 1
             x == [seq |-> n, sender |-> u, cid |-> c, revoked |-> FALSE]
  <1>1. /\ messages' = messages \cup {x} /\ row' = row /\ \A m \in messages : m.seq # n
        /\ conv' = [conv EXCEPT !.maxSeq = n]
        /\ unread' = [v \in Users |-> IF v \in A \ {u} THEN unread[v] + 1 ELSE unread[v]]
    BY DEF Commit
  <1>2. x.seq = n /\ x.sender = u /\ x.revoked = FALSE
    OBVIOUS
  <1>3. /\ conv.maxSeq \in Nat
        /\ \A v \in Users : unread[v] \in Nat /\ row[v].lastRead \in Nat
    BY CountTypes
  <1>n. n \in Nat /\ conv.maxSeq < n
    BY <1>3
  <1>4. conv'.kind = conv.kind /\ conv'.maxSeq = n
    <2>1. conv \in ConvType
      BY DEF TypeOK, ConvType
    <2> QED
      BY <1>1, <1>3, <2>1 DEF ConvType
  <1> HIDE DEF x
  <1>5. x \notin messages
    BY <1>1, <1>2
  <1>6. IsFiniteSet(messages')
    BY <1>1, FS_AddElement DEF CountInv
  <1>7. ASSUME NEW v \in Users, row[v].status = "active" PROVE unread'[v] <= Cardinality(ToRead(v)')
    <2>1. IsFiniteSet(ToRead(v)) /\ Cardinality(ToRead(v)) \in Nat
      BY ToReadFinite DEF CountInv
    <2>2. unread[v] <= Cardinality(ToRead(v)) /\ row[v].lastRead <= conv.maxSeq
      BY <1>7 DEF CountInv
    <2>n. row[v].lastRead < n /\ unread[v] \in Nat
      BY <1>3, <2>2
    <2>3. CASE v \in A \ {u}
      <3>1. ToRead(v)' = ToRead(v) \cup {x}
        BY <1>1, <1>2, <2>n, <2>3 DEF ToRead
      <3>2. x \notin ToRead(v)
        BY <1>5 DEF ToRead
      <3>3. Cardinality(ToRead(v)') = Cardinality(ToRead(v)) + 1
        BY <2>1, <3>1, <3>2, FS_AddElement
      <3> QED
        BY <1>1, <1>3, <2>1, <2>2, <2>3, <3>3
    <2>4. CASE v \notin A \ {u}
      <3>1. ToRead(v) \subseteq ToRead(v)' /\ ToRead(v)' \subseteq messages'
        BY <1>1 DEF ToRead
      <3>2. IsFiniteSet(ToRead(v)')
        BY <1>6, <3>1, FS_Subset
      <3>3. Cardinality(ToRead(v)) <= Cardinality(ToRead(v)') /\ Cardinality(ToRead(v)') \in Nat
        BY <3>1, <3>2, FS_Subset, FS_CardinalityType
      <3>4. unread'[v] = unread[v]
        BY <1>1, <2>4
      <3> QED
        BY <1>3, <2>1, <2>2, <3>3, <3>4
    <2> QED
      BY <2>3, <2>4
  <1>8. ASSUME NEW v \in Users, row[v].status = "none" PROVE unread'[v] = 0
    BY <1>1, <1>8 DEF CountInv
  <1>9. \A v \in Users : row[v].lastRead <= n
    <2>1. \A v \in Users : row[v].lastRead <= conv.maxSeq
      BY DEF CountInv
    <2> QED
      BY <1>3, <1>n, <2>1
  <1> QED
    BY <1>1, <1>4, <1>6, <1>7, <1>8, <1>9 DEF CountInv, Created

\* A revoked message is one less to read, and is counted off at most once.
LEMMA RevokeCounts ==
  ASSUME TypeOK, CountInv, NEW m \in messages, ~m.revoked, Revoke(m)
  PROVE  CountInv'
  <1> DEFINE x == [m EXCEPT !.revoked = TRUE]
             Off(v) == v # m.sender /\ unread[v] > 0 /\ row[v].status = "active" /\ row[v].lastRead < m.seq
  <1>1. /\ messages' = (messages \ {m}) \cup {x} /\ UNCHANGED <<conv, row>>
        /\ unread' = [v \in Users |-> IF Off(v) THEN unread[v] - 1 ELSE unread[v]]
    BY DEF Revoke
  <1>2. x.revoked = TRUE
    BY DEF TypeOK
  <1> HIDE DEF x
  <1>3. m.seq \in Nat /\ \A v \in Users : unread[v] \in Nat /\ row[v].lastRead \in Nat
    BY CountTypes
  <1>4. IsFiniteSet(messages')
    <2>1. IsFiniteSet(messages \ {m})
      BY FS_Subset DEF CountInv
    <2> QED
      BY <1>1, <2>1, FS_AddElement
  <1>5. ASSUME NEW v \in Users, row[v].status = "active" PROVE unread'[v] <= Cardinality(ToRead(v)')
    <2>1. IsFiniteSet(ToRead(v)) /\ Cardinality(ToRead(v)) \in Nat
      BY ToReadFinite DEF CountInv
    <2>2. ToRead(v)' = ToRead(v) \ {m}
      BY <1>1, <1>2 DEF ToRead
    <2>3. unread[v] <= Cardinality(ToRead(v))
      BY <1>5 DEF CountInv
    <2>4. CASE m \in ToRead(v)
      <3>1. Cardinality(ToRead(v)') = Cardinality(ToRead(v)) - 1
        BY <2>1, <2>2, <2>4, FS_RemoveElement
      <3>2. v # m.sender /\ row[v].lastRead < m.seq
        BY <1>3, <2>4 DEF ToRead
      <3>3. Cardinality(ToRead(v)) # 0
        BY <2>1, <2>4, FS_EmptySet
      <3>4. unread'[v] = IF unread[v] > 0 THEN unread[v] - 1 ELSE unread[v]
        BY <1>1, <1>5, <3>2
      <3> QED
        BY <1>3, <2>1, <2>3, <3>1, <3>3, <3>4
    <2>5. CASE m \notin ToRead(v)
      <3>1. ToRead(v)' = ToRead(v)
        BY <2>2, <2>5
      <3>2. unread'[v] \in {unread[v], unread[v] - 1}
        BY <1>1
      <3> QED
        BY <1>3, <2>1, <2>3, <3>1, <3>2
    <2> QED
      BY <2>4, <2>5
  <1>6. ASSUME NEW v \in Users, unread[v] = 0 PROVE unread'[v] = 0
    BY <1>1, <1>6
  <1> QED
    BY <1>1, <1>4, <1>5, <1>6 DEF CountInv

\* Rows that follow the rules of membership.
LEMMA RulesCount ==
  ASSUME TypeOK, CountInv, RowsFollow, UNCHANGED <<messages, unread>>,
         conv'.maxSeq = conv.maxSeq, conv'.kind = conv.kind
  PROVE  CountInv'
  <1>1. /\ conv.maxSeq \in Nat
        /\ \A v \in Users : unread[v] \in Nat /\ row[v].lastRead \in Nat
    BY CountTypes
  <1>2. ASSUME NEW v \in Users, row'[v].status = "active" PROVE unread'[v] <= Cardinality(ToRead(v)')
    <2>1. CASE row'[v].lastRead = row[v].lastRead /\ row[v].status = "active"
      <3>1. ToRead(v)' = ToRead(v)
        BY <2>1 DEF ToRead
      <3> QED
        BY <2>1, <3>1 DEF CountInv
    <2>2. CASE row[v].status = "none"
      <3>1. ToRead(v)' \subseteq messages
        BY DEF ToRead
      <3>2. Cardinality(ToRead(v)') \in Nat
        BY <3>1, FS_Subset, FS_CardinalityType DEF CountInv
      <3>3. unread'[v] = 0
        BY <2>2 DEF CountInv
      <3> QED
        BY <3>2, <3>3
    <2> QED
      BY <1>2, <2>1, <2>2 DEF RowsFollow
  <1>3. \A v \in Users : row'[v].lastRead <= conv'.maxSeq
    <2> SUFFICES ASSUME NEW v \in Users PROVE row'[v].lastRead <= conv.maxSeq
      OBVIOUS
    <2>1. row'[v].lastRead \in {0, row[v].lastRead} /\ row[v].lastRead <= conv.maxSeq
      BY DEF RowsFollow, CountInv
    <2> QED
      BY <1>1, <2>1
  <1>4. \A v \in Users : row'[v].status = "none" \/ conv'.kind = "" => unread'[v] = 0
    BY DEF RowsFollow, CountInv
  <1>5. IsFiniteSet(messages')
    BY DEF CountInv
  <1> QED
    BY <1>2, <1>3, <1>4, <1>5 DEF CountInv

\* A read mark sets the counter to zero in the same transaction.
LEMMA ReadCounts ==
  ASSUME TypeOK, CountInv, NEW u \in Users, Read(u)
  PROVE  CountInv'
  <1>1. /\ UNCHANGED <<conv, messages>> /\ conv.kind # "" /\ unread' = [unread EXCEPT ![u] = 0]
    BY DEF Read, MarkRead
  <1>2. PICK n \in 0..conv.maxSeq : row' = IF n > 0 /\ row[u].status # "none" THEN [row EXCEPT ![u].lastRead = n] ELSE row
    BY DEF Read, MarkRead
  <1>t. row \in [Users -> RowType] /\ unread \in [Users -> Nat]
    BY DEF TypeOK, RowType
  <1>3. ASSUME NEW v \in Users, v # u PROVE row'[v] = row[v] /\ unread'[v] = unread[v]
    BY <1>1, <1>2, <1>3, <1>t
  <1>4. /\ row'[u].lastRead \in {row[u].lastRead, n} /\ unread'[u] = 0
    BY <1>1, <1>2, <1>t DEF RowType
  <1>5. n <= conv.maxSeq
    BY <1>2
  <1>6. IsFiniteSet(messages') /\ Cardinality(ToRead(u)') \in Nat
    <2>1. ToRead(u)' \subseteq messages
      BY <1>1 DEF ToRead
    <2> QED
      BY <1>1, <2>1, FS_Subset, FS_CardinalityType DEF CountInv
  <1>7. ASSUME NEW v \in Users, v # u
        PROVE  /\ row'[v].status = "active" => unread'[v] <= Cardinality(ToRead(v)')
               /\ row'[v].status = "none" \/ conv'.kind = "" => unread'[v] = 0
               /\ row'[v].lastRead <= conv'.maxSeq
    <2>1. row'[v] = row[v] /\ unread'[v] = unread[v]
      BY <1>3, <1>7
    <2>2. ToRead(v)' = ToRead(v)
      BY <1>1, <2>1 DEF ToRead
    <2> QED
      BY <1>1, <2>1, <2>2 DEF CountInv
  <1>8. unread'[u] <= Cardinality(ToRead(u)')
    BY <1>4, <1>6
  <1>9. row'[u].lastRead <= conv'.maxSeq
    <2>1. row[u].lastRead <= conv.maxSeq
      BY DEF CountInv
    <2>2. conv' = conv
      BY <1>1
    <2> QED
      BY <1>4, <1>5, <2>1, <2>2
  <1> QED
    BY <1>4, <1>6, <1>7, <1>8, <1>9 DEF CountInv

\* What does not touch the rows leaves the counters as they are.
LEMMA CountStays == CountInv /\ UNCHANGED store => CountInv'
  BY DEF CountInv, ToRead, store

\* A conversation is created with counters at zero, and marks at zero.
LEMMA CreateCounts ==
  ASSUME TypeOK, CountInv, ~Created, UNCHANGED <<unread, messages>>, conv'.maxSeq = conv.maxSeq,
         \A v \in Users : row'[v].lastRead = 0
  PROVE  CountInv'
  <1>1. conv.maxSeq \in Nat
    BY CountTypes
  <1>2. \A v \in Users : unread'[v] = 0
    BY DEF CountInv, Created
  <1>3. IsFiniteSet(messages')
    BY DEF CountInv
  <1>4. ASSUME NEW v \in Users PROVE unread'[v] <= Cardinality(ToRead(v)')
    <2>1. ToRead(v)' \subseteq messages'
      BY DEF ToRead
    <2>2. Cardinality(ToRead(v)') \in Nat
      BY <1>3, <2>1, FS_Subset, FS_CardinalityType
    <2> QED
      BY <1>2, <2>2
  <1>5. \A v \in Users : row'[v].lastRead <= conv'.maxSeq
    <2>1. 0 <= conv'.maxSeq
      BY <1>1
    <2> QED
      BY <2>1
  <1> QED
    BY <1>2, <1>3, <1>4, <1>5 DEF CountInv

\* Every step keeps the counters below what there is to read.
LEMMA CountStep == IInv /\ CountInv /\ KnownInv /\ [Next]_vars => CountInv'
  <1> SUFFICES ASSUME IInv, CountInv, KnownInv, [Next]_vars PROVE CountInv'
    OBVIOUS
  <1>t. TypeOK /\ CreationInv /\ conv \in ConvType
    BY DEF IInv, TypeOK, ConvType
  <1>1. ASSUME NEW u \in Users, NEW v \in Users, CreatePrivate(u, v) PROVE CountInv'
    <2>1. ~Created /\ UNCHANGED <<unread, messages>> /\ conv'.maxSeq = conv.maxSeq
      BY <1>t, <1>1 DEF CreatePrivate, ConvType, Created
    <2>2. \A w \in Users : row'[w].lastRead = 0
      BY <1>1 DEF CreatePrivate, NewRow, NoRow
    <2> QED
      BY <1>t, <2>1, <2>2, CreateCounts
  <1>2. ASSUME NEW u \in Users, NEW S \in SUBSET Users, CreateGroup(u, S) PROVE CountInv'
    <2>1. ~Created /\ UNCHANGED <<unread, messages>> /\ conv'.maxSeq = conv.maxSeq
      BY <1>t, <1>2 DEF CreateGroup, ConvType, Created
    <2>2. \A w \in Users : row'[w].lastRead = 0
      BY <1>2 DEF CreateGroup, NewRow, NoRow
    <2> QED
      BY <1>t, <2>1, <2>2, CreateCounts
  <1>3. CASE CreateMessage
    <2> DEFINE A == {u \in Users : RoleOf(u) # "none"}
    <2>1. conv.maxSeq = 0 /\ conv.owner \in Users /\ Created
      BY <1>t, <1>3 DEF CreateMessage, CreationInv, Created
    <2>2. \A v \in Users : v \in A => row[v].status # "none"
      BY DEF RoleOf
    <2>3. CASE Commit(1, conv.owner, None, A)
      <3> HIDE DEF A
      <3>1. conv.maxSeq + 1 = 1
        BY <2>1
      <3>2. Commit(conv.maxSeq + 1, conv.owner, None, A)
        BY <2>3, <3>1
      <3> QED
        BY <1>t, <2>1, <2>2, <3>2, CommitCounts
    <2> QED
      BY <1>3, <2>3, CountStays DEF CreateMessage
  <1>4. ASSUME NEW u \in Users, Read(u) PROVE CountInv'
    BY <1>t, <1>4, ReadCounts
  <1>5. ASSUME NEW by \in Users, Command(by) PROVE CountInv'
    <2>1. loop = "idle" /\ conv'.kind = conv.kind /\ Created
      BY <1>t, <1>5, CommandFrame DEF CreationInv, Created
    <2>2. CASE Posts
      <3>1. PICK u \in Users, c \in Cids \cup {None} : Commit(conv.maxSeq + 1, u, c, CachedMembers)
        BY <2>2 DEF Posts
      <3>2. \A v \in Users : v \in CachedMembers => row[v].status # "none"
        BY <2>1 DEF KnownInv, Copy, CachedMembers, Member
      <3> QED
        BY <1>t, <2>1, <3>1, <3>2, CommitCounts
    <2>3. CASE Repeats
      BY <2>3, CountStays DEF Repeats
    <2>4. CASE Revokes
      BY <1>t, <2>4, RevokeCounts DEF Revokes
    <2>5. CASE Rules
      BY <1>t, <2>1, <2>5, RulesCount DEF Rules
    <2> QED
      BY <1>5, <2>2, <2>3, <2>4, <2>5, CommandKinds
  <1>6. CASE CreateSpawn \/ CreatePublish \/ Reach \/ OnStart \/ Settle \/ Idle \/ TakePill \/ Unregister
             \/ Crash \/ UNCHANGED vars
    <2>1. UNCHANGED store
      BY <1>6 DEF CreateSpawn, CreatePublish, Reach, OnStart, Settle, Idle, TakePill, Unregister, Crash,
                  vars, store
    <2> QED
      BY <2>1, CountStays
  <1> QED
    BY <1>1, <1>2, <1>3, <1>4, <1>5, <1>6 DEF Next, Manager

-----------------------------------------------------------------------------
(* Whom an actor's copy knows. *)

\* Those who are in it, and the owner of a group.
KnownIn(c, u) == c.role[u] # "none" \/ (c.kind = "group" /\ c.owner = u)

\* A handler adds to its copy only the one it writes a row for.
LEMMA CommandKnows ==
  ASSUME IInv, NEW by \in Users, Command(by), NEW v \in Users, KnownIn(after'.cache, v)
  PROVE  KnownIn(cache, v) \/ row'[v].status # "none"
  <1>t. TypeOK /\ cache \in CacheType /\ row \in [Users -> RowType]
    BY DEF IInv, TypeOK, RowType
  <1>1. ASSUME after'.cache = cache PROVE KnownIn(cache, v)
    BY <1>1
  <1>2. ASSUME NEW n \in Nat, after'.cache = [cache EXCEPT !.maxSeq = n] PROVE KnownIn(cache, v)
    BY <1>t, <1>2 DEF KnownIn, CacheType
  <1>n. PICK n \in Nat : cache.maxSeq + 1 = n
    <2>1. cache.maxSeq \in Nat
      BY <1>t DEF CacheType
    <2> QED
      BY <2>1
  <1>3. ASSUME NEW l, after'.cache = [cache EXCEPT !.limit = l] PROVE KnownIn(cache, v)
    BY <1>t, <1>3 DEF KnownIn, CacheType
  <1>4. ASSUME NEW u \in Users, NEW r, after'.cache = [cache EXCEPT !.role[u] = r],
               r = "none" \/ Member(u) \/ row'[u].status # "none"
        PROVE  KnownIn(cache, v) \/ row'[v].status # "none"
    <2>1. /\ after'.cache.role = [cache.role EXCEPT ![u] = r]
          /\ after'.cache.kind = cache.kind /\ after'.cache.owner = cache.owner
      BY <1>t, <1>4 DEF CacheType
    <2>2. cache.role \in [Users -> Roles \cup {"none"}]
      BY <1>t DEF CacheType
    <2> QED
      BY <1>4, <2>1, <2>2 DEF KnownIn, Member
  <1>5. ASSUME NEW c \in Cids \cup {None}, SendMessage(by, c) PROVE KnownIn(cache, v)
    <2>1. CASE Sent(by, c) # {}
      <3>1. PICK m \in Sent(by, c) : after' = Repeated(by, c, m)
        BY <1>5, <2>1 DEF SendMessage, Then
      <3>2. m \in messages
        BY DEF Sent
      <3> QED
        BY <1>t, <1>1, <3>1, <3>2, SentType
    <2>2. CASE Sent(by, c) = {}
      <3>1. after' = Stored(by, c, cache.maxSeq + 1)
        BY <1>5, <2>2 DEF SendMessage, Then
      <3>2. after' = Stored(by, c, n)
        BY <1>n, <3>1
      <3>3. after'.cache = [cache EXCEPT !.maxSeq = n]
        BY <1>t, <3>2, StoredCache
      <3> QED
        BY <1>2, <3>3
    <2> QED
      BY <2>1, <2>2
  <1>6. CASE AppendCallRecord(by)
    <2>1. after' = [Stored(by, None, cache.maxSeq + 1) EXCEPT !.ack = {}]
      BY <1>6 DEF AppendCallRecord, Then
    <2>2. after'.cache = [cache EXCEPT !.maxSeq = n]
      BY <1>t, <1>n, <2>1, SentType
    <2> QED
      BY <1>2, <2>2
  <1>7. ASSUME NEW m \in messages, RevokeMessage(by, m) PROVE KnownIn(cache, v)
    BY <1>t, <1>1, <1>7, ChangedType DEF RevokeMessage, Then
  <1>8. ASSUME NEW l \in Limits, UpdateInfo(by, l) PROVE KnownIn(cache, v)
    <2>1. [cache EXCEPT !.limit = l] \in CacheType
      BY <1>t, ConversationAssumption DEF CacheType
    <2> QED
      BY <1>3, <1>8, <2>1, ChangedType DEF UpdateInfo, Then
  <1>9. ASSUME NEW u \in Users, NEW r \in Roles \cup {"none"}, after' = Changed([cache EXCEPT !.role[u] = r]),
               r = "none" \/ Member(u) \/ row'[u].status # "none"
        PROVE  KnownIn(cache, v) \/ row'[v].status # "none"
    <2>1. [cache EXCEPT !.role[u] = r] \in CacheType
      BY <1>t DEF CacheType
    <2> QED
      BY <1>4, <1>9, <2>1, ChangedType
  <1>10. ASSUME NEW u \in Users, NEW r \in Roles, AddMember(by, u, r)
         PROVE  KnownIn(cache, v) \/ row'[v].status # "none"
    <2>1. row'[u].status = "active"
      BY <1>t, <1>10 DEF AddMember, SetRow, NewRow
    <2> QED
      BY <1>9, <1>10, <2>1 DEF AddMember, Then
  <1>11. ASSUME NEW u \in Users, NEW r \in Roles, SetRole(by, u, r)
         PROVE  KnownIn(cache, v) \/ row'[v].status # "none"
    BY <1>9, <1>11 DEF SetRole, Then
  <1>12. ASSUME NEW u \in Users, RemoveMember(by, u) \/ (Leave(by) /\ u = by)
         PROVE  KnownIn(cache, v) \/ row'[v].status # "none"
    BY <1>9, <1>12 DEF RemoveMember, Leave, Then
  <1>13. ASSUME NEW u \in Users, TransferOwner(by, u) PROVE KnownIn(cache, v)
    <2> DEFINE new == [cache EXCEPT !.role[by] = "regular", !.role[u] = "owner", !.owner = u]
    <2>1. /\ after' = Changed(new) /\ cache.kind = "group" /\ by = cache.owner /\ Member(u)
      BY <1>13 DEF TransferOwner, Then, requireGroup, requireOwner
    <2>2. new \in CacheType /\ new.kind = cache.kind /\ new.owner = u
      BY <1>t DEF CacheType, Roles
    <2>3. new.role = [cache.role EXCEPT ![by] = "regular", ![u] = "owner"]
      BY <1>t DEF CacheType
    <2>4. cache.role \in [Users -> Roles \cup {"none"}]
      BY <1>t DEF CacheType
    <2>5. after'.cache = new
      BY <2>1, <2>2, ChangedType
    <2> HIDE DEF new
    <2>6. v # by /\ v # u => new.role[v] = cache.role[v]
      BY <2>3, <2>4
    <2> QED
      BY <2>1, <2>2, <2>5, <2>6 DEF KnownIn, Member
  <1>14. CASE Dissolve(by)
    BY <1>t, <1>1, <1>14, ChangedType DEF Dissolve, Then
  <1> QED
    BY <1>5, <1>6, <1>7, <1>8, <1>10, <1>11, <1>12, <1>13, <1>14 DEF Command

\* Every step keeps a row for those an actor knows.
LEMMA KnownStep == IInv /\ KnownInv /\ [Next]_vars => KnownInv'
  <1> SUFFICES ASSUME IInv, KnownInv, [Next]_vars PROVE KnownInv'
    OBVIOUS
  <1>t. TypeOK /\ CreationInv /\ OneOwner /\ row \in [Users -> RowType] /\ conv \in ConvType
    BY DEF IInv, TypeOK, RowType, ConvType
  <1>k. KnownInv <=> (loop \in {"idle", "busy"} => \A u \in Users : KnownIn(Copy, u) => row[u].status # "none")
    BY DEF KnownInv, KnownIn
  <1>kk. KnownInv' <=> (loop' \in {"idle", "busy"} =>
                          \A u \in Users : KnownIn(Copy', u) => row'[u].status # "none")
    BY DEF KnownInv, KnownIn
  <1>1. ASSUME NEW by \in Users, Command(by) PROVE KnownInv'
    <2>1. loop = "idle" /\ Copy = cache /\ loop' = "busy" /\ Copy' = after'.cache
      BY <1>t, <1>1, CommandFrame DEF Copy
    <2>2. ASSUME NEW v \in Users, row[v].status # "none" PROVE row'[v].status # "none"
      BY <1>1, <2>2, CommandKinds DEF Posts, Repeats, Revokes, Rules, RowsFollow, Commit, Revoke, store
    <2> QED
      BY <1>1, <1>k, <1>kk, <2>1, <2>2, CommandKnows
  <1>2. CASE OnStart
    <2>1. row' = row /\ Copy' = cache' /\ loop' = "idle"
      BY <1>2 DEF OnStart, store, Copy
    <2>2. CASE cache' = NoCache
      <3>1. \A u \in Users : ~KnownIn(NoCache, u)
        BY DEF KnownIn, NoCache, NobodyIn
      <3> QED
        BY <1>kk, <2>1, <2>2, <3>1
    <2>3. CASE conv.status = "active" /\ cache' \in {Loaded, [Loaded EXCEPT !.role = NobodyIn]}
      <3>1. ASSUME NEW u \in Users, conv.kind = "group", conv.owner = u PROVE row[u].status # "none"
        BY <1>t, <2>3, <3>1, OwnerIn DEF RoleOf
      <3>2. ASSUME NEW u \in Users, StoredRoles[u] # "none" PROVE row[u].status # "none"
        BY <3>2 DEF StoredRoles, RoleOf
      <3>3. /\ cache'.kind = conv.kind /\ cache'.owner = conv.owner
            /\ cache'.role = StoredRoles \/ cache'.role = NobodyIn
        BY <2>3 DEF Loaded
      <3>4. ASSUME NEW u \in Users PROVE NobodyIn[u] = "none"
        BY DEF NobodyIn
      <3> QED
        BY <1>kk, <2>1, <3>1, <3>2, <3>3, <3>4 DEF KnownIn
    <2> QED
      BY <1>2, <2>2, <2>3 DEF OnStart
  <1>3. CASE Settle
    <2>1. loop = "busy" /\ Copy = after.cache /\ Copy' = after.cache /\ row' = row
      BY <1>3 DEF Settle, Copy, store
    <2> QED
      BY <1>k, <1>kk, <2>1
  <1>4. ASSUME NEW u \in Users, Read(u) PROVE KnownInv'
    <2>1. UNCHANGED <<loop, Copy>>
      BY <1>4 DEF Read, actor, Copy
    <2>2. PICK n : row' \in {row, [row EXCEPT ![u].lastRead = n]}
      BY <1>4 DEF Read, MarkRead
    <2>3. ASSUME NEW v \in Users PROVE row'[v].status = row[v].status
      BY <1>t, <2>2 DEF RowType
    <2> QED
      BY <1>k, <1>kk, <2>1, <2>3
  <1>5. CASE (\E u, v \in Users : CreatePrivate(u, v)) \/ (\E u \in Users, S \in SUBSET Users : CreateGroup(u, S))
    <2>1. loop' = "none"
      BY <1>t, <1>5 DEF CreatePrivate, CreateGroup, CreationInv, actor
    <2> QED
      BY <1>kk, <2>1
  <1>6. CASE CreateMessage \/ CreateSpawn \/ Reach \/ TakePill \/ Unregister \/ Crash
    <2>1. loop' \notin {"idle", "busy"}
      BY <1>t, <1>6 DEF CreateMessage, CreateSpawn, Reach, GetOrCreate, TakePill, Unregister, Crash, Gone,
                        CreationInv, actor
    <2> QED
      BY <1>kk, <2>1
  <1>7. CASE CreatePublish \/ Idle \/ UNCHANGED vars
    <2>1. UNCHANGED <<loop, Copy, row>>
      BY <1>7 DEF CreatePublish, Idle, vars, actor, store, Copy
    <2> QED
      BY <1>k, <1>kk, <2>1
  <1> QED
    BY <1>1, <1>2, <1>3, <1>4, <1>5, <1>6, <1>7 DEF Next, Manager

-----------------------------------------------------------------------------
LEMMA InitCInv == Init => CInv
  <1> SUFFICES ASSUME Init PROVE CInv
    OBVIOUS
  <1>1. /\ messages = {} /\ acks = {} /\ pushed = <<>> /\ making = "nothing" /\ loop = "none"
        /\ unread = [u \in Users |-> 0] /\ after = NoAfter /\ row = [u \in Users |-> NoRow]
    BY DEF Init
  <1>m. conv.maxSeq = 0
    BY DEF Init
  <1>2. AckInv
    BY <1>1, EmptyRecords DEF AckInv
  <1>3. PushInv
    <2>1. DOMAIN pushed = {} /\ after.push = 0
      <3>1. pushed = <<>>
        BY <1>1
      <3>2. DOMAIN pushed = {}
        BY <3>1
      <3>3. after.push = 0
        BY <1>1, EmptyRecords
      <3> QED
        BY <3>2, <3>3
    <2>2. making = "nothing"
      BY <1>1
    <2>3. PushedOnceInOrder
      BY <2>1 DEF PushedOnceInOrder
    <2> QED
      BY <2>1, <2>2, <2>3 DEF PushInv
  <1>4. CountInv
    <2>1. IsFiniteSet(messages)
      BY <1>1, FS_EmptySet
    <2>2. \A u \in Users : row[u].status = "none" /\ row[u].lastRead = 0
      BY <1>1 DEF NoRow
    <2>3. \A u \in Users : unread[u] = 0
      BY <1>1
    <2>4. \A u \in Users : row[u].lastRead <= conv.maxSeq
      <3>1. 0 <= conv.maxSeq
        BY <1>m
      <3> QED
        BY <2>2, <3>1
    <2> QED
      BY <2>1, <2>2, <2>3, <2>4 DEF CountInv
  <1>5. KnownInv
    BY <1>1 DEF KnownInv
  <1> QED
    BY <1>2, <1>3, <1>4, <1>5, InitIInv DEF CInv

LEMMA StepCInv == CInv /\ [Next]_vars => CInv'
  BY StepIInv, AckStep, PushStep, CountStep, KnownStep DEF CInv

(* What a client was answered is in the database under that number, also
   after a crash between the transaction and the answer to a retry
   (handleSendMessage, CommitMessage). *)
THEOREM AnswersAreStored == Spec => []AckedIsStored
  <1>1. CInv => AckedIsStored
    BY DEF CInv, AckInv, HeldFor, AckedIsStored
  <1> QED
    BY <1>1, InitCInv, StepCInv, PTL DEF Spec

(* No message is pushed twice, and what the conversation actor pushes is in
   the order of the numbers, through retries, reloads and crashes
   (handleSendMessage, handleAppendCallRecord, publishGroupCreated). *)
THEOREM PushesAreInOrder == Spec => []PushedOnceInOrder
  <1>1. CInv => PushedOnceInOrder
    BY DEF CInv, PushInv
  <1> QED
    BY <1>1, InitCInv, StepCInv, PTL DEF Spec

(* The counter of an active member is at most the number of messages it has
   to read, though the actor counts up, a revocation counts down and the
   manager resets it (CommitMessage, RevokeMessage, MarkConversationRead). *)
THEOREM CountersNeverOvercount == Spec => []UnreadNeverOvercounts
  <1>1. CInv => UnreadNeverOvercounts
    BY DEF CInv, CountInv, ToRead, UnreadNeverOvercounts
  <1> QED
    BY <1>1, InitCInv, StepCInv, PTL DEF Spec

=============================================================================
