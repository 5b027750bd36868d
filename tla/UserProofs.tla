----------------------------- MODULE UserProofs -----------------------------
(***************************************************************************)
(* Theorems about module User, for any names, passwords, commands, stored  *)
(* table and bounds.                                                       *)
(*                                                                         *)
(* That each command takes effect at one moment rests on one fact about    *)
(* the session that holds a request between its two calls of the store:    *)
(* the password is still the one it has compared.  It is, because there is *)
(* one session actor of a user and only it writes his password; for that   *)
(* the registry and the mailboxes have to agree on whose request is whose. *)
(* The same makes the nickname the one asked for last.                     *)
(***************************************************************************)
EXTENDS User, TLAPS

\* Request r waits for the session of user u, or is held by it.
OfSession(r, u) ==
  /\ r \in DOMAIN requests
  /\ requests[r].cmd \in SessionCmd
  /\ requests[r].cmd.uid = u

\* The registry names the one session actor of a user.
OneSession ==
  /\ \A a \in DOMAIN actors : session[actors[a].uid] = a
  /\ \A u \in UserIDs : session[u] # 0 => actors[session[u]].uid = u

RightMailbox ==
  /\ \A r \in DOMAIN requests : Known(requests[r].cmd)
  /\ \A r \in manager : requests[r].cmd \in ManagerCmd
  /\ \A a \in DOMAIN actors : \A r \in actors[a].box : OfSession(r, actors[a].uid)

\* Request r, its old password and its new one found to be right, is still so.
StillRight(r, u) ==
  LET cmd == requests[r].cmd
  IN /\ OfSession(r, u)
     /\ cmd.kind = "change" /\ cmd.new \in Strong
     /\ users[cmd.uid].password = cmd.old

HeldIsCurrent ==
  \A a \in DOMAIN actors : actors[a].held # NotHeld =>
    /\ StillRight(actors[a].held.req, actors[a].uid)
    /\ actors[a].held.req \notin actors[a].box

IInv == TypeOK /\ OneSession /\ RightMailbox /\ HeldIsCurrent

-----------------------------------------------------------------------------
(* Commands. *)

LEMMA CommandKinds ==
  ASSUME NEW cmd \in Command
  PROVE  /\ cmd \in ManagerCmd <=> cmd.kind \in {"register", "login", "get", "byname", "online"}
         /\ cmd \in SessionCmd <=> cmd.kind \in {"profile", "update", "change"}
         /\ cmd.kind = "register" => cmd.name \in Names /\ cmd.password \in Passwords /\ cmd.nick \in Nicknames
         /\ cmd.kind \in {"login", "byname"} => cmd.name \in Names
         /\ cmd.kind \in {"get", "online", "profile", "update", "change"} => cmd.uid \in UserIDs
         /\ cmd.kind = "online" => cmd.at \in Times
         /\ cmd.kind = "update" => cmd.nick \in Nicknames \cup {NoName}
         /\ cmd.kind = "change" => cmd.old \in Passwords /\ cmd.new \in Passwords
  BY DEF Command, ManagerCmd, SessionCmd

-----------------------------------------------------------------------------
(* Sequences. *)

LEMMA UpdateInSeq ==
  ASSUME NEW S, NEW s \in Seq(S), NEW i \in DOMAIN s, NEW e \in S
  PROVE  /\ [s EXCEPT ![i] = e] \in Seq(S)
         /\ Len([s EXCEPT ![i] = e]) = Len(s)
         /\ DOMAIN [s EXCEPT ![i] = e] = DOMAIN s
  OBVIOUS

LEMMA AppendInSeq ==
  ASSUME NEW S, NEW s \in Seq(S), NEW e \in S
  PROVE  /\ Append(s, e) \in Seq(S)
         /\ Len(Append(s, e)) = Len(s) + 1
         /\ DOMAIN Append(s, e) = DOMAIN s \cup {Len(s) + 1}
         /\ Len(s) + 1 \notin DOMAIN s
         /\ \A i \in DOMAIN s : Append(s, e)[i] = s[i]
         /\ Append(s, e)[Len(s) + 1] = e
  OBVIOUS

\* Reply changes the outcome of one request, and whether its caller waits.
LEMMA ReplyFacts ==
  ASSUME TypeOK, NEW r \in DOMAIN requests, NEW o \in Outcome, Reply(r, o)
  PROVE  /\ requests' \in Seq(RequestRecord)
         /\ DOMAIN requests' = DOMAIN requests
         /\ \A q \in DOMAIN requests :
              /\ requests'[q].cmd = requests[q].cmd
              /\ requests'[q].outcome = IF q = r THEN o ELSE requests[q].outcome
  <1> DEFINE e == [cmd |-> requests[r].cmd, outcome |-> o,
                   caller |-> IF requests[r].caller = "waiting" THEN "answered"
                              ELSE requests[r].caller]
  <1>1. requests \in Seq(RequestRecord) /\ requests[r] \in RequestRecord
    BY DEF TypeOK
  <1>2. /\ e \in RequestRecord
        /\ e.cmd = requests[r].cmd /\ e.outcome = o
    BY <1>1 DEF RequestRecord
  <1>3. requests' = [requests EXCEPT ![r] = e]
    BY <1>1 DEF Reply
  <1> HIDE DEF e
  <1>4. requests' \in Seq(RequestRecord) /\ DOMAIN requests' = DOMAIN requests
    BY <1>1, <1>2, <1>3, UpdateInSeq
  <1> QED
    BY <1>1, <1>2, <1>3, <1>4

-----------------------------------------------------------------------------
(* What the records hold. *)
LEMMA Records ==
  ASSUME TypeOK
  PROVE  /\ \A u \in DOMAIN users : users[u] \in Row
         /\ \A r \in DOMAIN requests : requests[r].cmd \in Command /\ requests[r].outcome \in Outcome
         /\ \A a \in DOMAIN actors :
              /\ actors[a] \in ActorRecord
              /\ actors[a].uid \in UserIDs
              /\ actors[a].box \subseteq DOMAIN requests
              /\ actors[a].held \in HeldRecord
              /\ actors[a].held # NotHeld => /\ actors[a].held.req \in DOMAIN requests
                                             /\ actors[a].held.row \in Row
  <1>1. \A u \in DOMAIN users : users[u] \in Row
    BY DEF TypeOK
  <1>2. \A r \in DOMAIN requests : requests[r] \in RequestRecord
    BY DEF TypeOK
  <1>3. \A a \in DOMAIN actors : actors[a] \in ActorRecord
    BY DEF TypeOK
  <1>4. \A h \in HeldRecord : h # NotHeld => h.req \in DOMAIN requests /\ h.row \in Row
    BY DEF HeldRecord
  <1> QED
    BY <1>1, <1>2, <1>3, <1>4 DEF RequestRecord, ActorRecord

\* Accounts stay, and so do their passwords and nicknames but for what u's
\* session writes.
UsersStay(u) ==
  /\ users' \in Seq(Row) /\ DOMAIN users' \subseteq UserIDs
  /\ DOMAIN users \subseteq DOMAIN users'
  /\ \A v \in DOMAIN users \ {u} : /\ users'[v].password = users[v].password
                                  /\ users'[v].nick = users[v].nick

RequestsStay ==
  /\ requests' \in Seq(RequestRecord)
  /\ DOMAIN requests \subseteq DOMAIN requests'
  /\ \A r \in DOMAIN requests : requests'[r].cmd = requests[r].cmd

\* Session actor k of user u has been given the messages of box.
Given(u, box, k) ==
  /\ DOMAIN actors' = DOMAIN actors \cup {k}
  /\ actors'[k].uid = u
  /\ \A a \in DOMAIN actors : a # k => actors'[a] = actors[a]
  /\ IF k \in DOMAIN actors
     THEN /\ actors[k].uid = u
          /\ actors'[k].box = actors[k].box \cup box
          /\ actors'[k].held = actors[k].held
     ELSE actors'[k].box = box /\ actors'[k].held = NotHeld

LEMMA HeldStays ==
  ASSUME DOMAIN requests \subseteq DOMAIN requests'
  PROVE  HeldRecord \subseteq HeldRecord' /\ ActorRecord \subseteq ActorRecord'
  BY DEF HeldRecord, ActorRecord, NotHeld

LEMMA GetOrCreate ==
  ASSUME TypeOK, OneSession, RequestsStay, NEW u \in UserIDs, NEW box \in SUBSET DOMAIN requests',
         GetOrCreateSession(u, box)
  PROVE  /\ actors' \in Seq(ActorRecord')
         /\ session' \in [UserIDs -> 0..Len(actors')]
         /\ OneSession'
         /\ \E k \in DOMAIN actors' : Given(u, box, k)
  <1>0. /\ actors \in Seq(ActorRecord) /\ actors \in Seq(ActorRecord')
        /\ session \in [UserIDs -> 0..Len(actors)]
    BY HeldStays DEF TypeOK, RequestsStay
  <1>1. CASE session[u] = 0
    <2> DEFINE new == [uid |-> u, box |-> box, held |-> NotHeld]
               k == Len(actors) + 1
    <2>1. actors' = Append(actors, new) /\ session' = [session EXCEPT ![u] = k]
      BY <1>1 DEF GetOrCreateSession, SpawnSession
    <2>2. new \in ActorRecord'
      BY DEF ActorRecord, HeldRecord
    <2>3. new.uid = u /\ new.box = box /\ new.held = NotHeld
      OBVIOUS
    <2> HIDE DEF new
    <2>4. /\ actors' \in Seq(ActorRecord')
          /\ Len(actors') = k /\ DOMAIN actors' = DOMAIN actors \cup {k}
          /\ k \notin DOMAIN actors
          /\ \A a \in DOMAIN actors : actors'[a] = actors[a]
          /\ actors'[k] = new
      BY <1>0, <2>1, <2>2, AppendInSeq
    <2>5. session' \in [UserIDs -> 0..Len(actors')]
      BY <1>0, <2>1, <2>4
    <2>6. \A a \in DOMAIN actors : actors[a].uid # u
      BY <1>0, <1>1 DEF OneSession
    <2>7. OneSession'
      <3>1. \A a \in DOMAIN actors : actors'[a].uid = actors[a].uid /\ actors[a].uid \in UserIDs
        BY <2>4, Records
      <3>2. actors'[k].uid = u
        BY <2>3, <2>4
      <3>3. \A v \in UserIDs : session'[v] = IF v = u THEN k ELSE session[v]
        BY <1>0, <2>1
      <3>4. (\A v \in UserIDs : session[v] # 0 => session[v] \in DOMAIN actors) /\ k # 0
        BY <1>0
      <3> QED
        BY <2>4, <2>6, <3>1, <3>2, <3>3, <3>4 DEF OneSession
    <2>8. Given(u, box, k)
      BY <2>3, <2>4 DEF Given
    <2> QED
      BY <2>4, <2>5, <2>7, <2>8
  <1>2. CASE session[u] # 0
    <2> DEFINE k == session[u]
               new == [actors[k] EXCEPT !.box = @ \cup box]
    <2>1. actors' = [actors EXCEPT ![k] = new] /\ session' = session
      BY <1>2 DEF GetOrCreateSession
    <2>2. k \in DOMAIN actors /\ actors[k].uid = u
      BY <1>0, <1>2 DEF OneSession
    <2>3. new \in ActorRecord' /\ new.uid = u /\ new.box = actors[k].box \cup box /\ new.held = actors[k].held
      <3>1. actors[k] \in ActorRecord'
        BY <1>0, <2>2
      <3> HIDE DEF k
      <3> QED
        BY <2>2, <3>1 DEF ActorRecord
    <2> HIDE DEF new
    <2>4. /\ actors' \in Seq(ActorRecord')
          /\ Len(actors') = Len(actors) /\ DOMAIN actors' = DOMAIN actors
          /\ \A a \in DOMAIN actors : actors'[a] = IF a = k THEN new ELSE actors[a]
      BY <1>0, <2>1, <2>2, <2>3, UpdateInSeq
    <2>5. OneSession'
      BY <2>1, <2>2, <2>3, <2>4 DEF OneSession
    <2>6. Given(u, box, k)
      BY <2>2, <2>3, <2>4 DEF Given
    <2> QED
      BY <1>0, <2>1, <2>2, <2>4, <2>5, <2>6
  <1> QED
    BY <1>1, <1>2

LEMMA SessionStays ==
  ASSUME RequestsStay, NEW r, NEW u, OfSession(r, u)
  PROVE  OfSession(r, u)'
  BY DEF OfSession, RequestsStay

LEMMA KnownStays ==
  ASSUME NEW cmd, Known(cmd), DOMAIN users \subseteq DOMAIN users'
  PROVE  Known(cmd)'
  BY DEF Known

\* A command of the next number has come in.
Asked(cmd) ==
  LET n == Len(requests) + 1
  IN /\ RequestsStay
     /\ DOMAIN requests' = DOMAIN requests \cup {n} /\ n \notin DOMAIN requests
     /\ requests'[n].cmd = cmd /\ requests'[n].outcome = "none"
     /\ \A r \in DOMAIN requests : r < n /\ requests'[r].outcome = requests[r].outcome

LEMMA RequestFacts ==
  ASSUME Request
  PROVE  \E waits \in BOOLEAN :
           \/ \E cmd \in ManagerCmd : Known(cmd) /\ AskManager(cmd, waits)
           \/ \E cmd \in SessionCmd : Known(cmd) /\ AskSession(cmd, waits)
  <1>1. PICK cmd : Known(cmd) /\ (OverHTTP(cmd) \/ OverWebSocket(cmd) \/ ComesOnline(cmd))
    BY DEF Request
  <1>2. CASE OverHTTP(cmd)
    BY <1>1, <1>2 DEF OverHTTP
  <1>3. CASE OverWebSocket(cmd)
    <2>1. (cmd.kind \notin Untold) \in BOOLEAN
      OBVIOUS
    <2> QED
      BY <1>1, <1>3, <2>1 DEF OverWebSocket
  <1>4. CASE ComesOnline(cmd)
    BY <1>1, <1>4 DEF ComesOnline
  <1> QED
    BY <1>1, <1>2, <1>3, <1>4

LEMMA EnlistFacts ==
  ASSUME TypeOK, NEW cmd \in Command, NEW waits \in BOOLEAN, Enlist(cmd, waits)
  PROVE  Asked(cmd)
  <1> DEFINE e == [cmd |-> cmd, outcome |-> "none", caller |-> IF waits THEN "waiting" ELSE "gone"]
  <1>1. requests \in Seq(RequestRecord)
    BY DEF TypeOK
  <1>2. e \in RequestRecord /\ e.cmd = cmd /\ e.outcome = "none"
    BY DEF RequestRecord, Outcome
  <1>3. requests' = Append(requests, e)
    BY DEF Enlist
  <1> HIDE DEF e
  <1>4. /\ requests' \in Seq(RequestRecord)
        /\ DOMAIN requests' = DOMAIN requests \cup {Len(requests) + 1}
        /\ Len(requests) + 1 \notin DOMAIN requests
        /\ \A r \in DOMAIN requests : requests'[r] = requests[r]
        /\ requests'[Len(requests) + 1] = e
    BY <1>1, <1>2, <1>3, AppendInSeq
  <1>5. \A r \in DOMAIN requests : r < Len(requests) + 1
    BY <1>1
  <1> QED
    BY <1>2, <1>4, <1>5 DEF Asked, RequestsStay

\* The outcome of request r is o, and nothing else has changed.
Replied(r, o) ==
  /\ RequestsStay
  /\ DOMAIN requests' = DOMAIN requests
  /\ \A q \in DOMAIN requests : requests'[q].outcome = IF q = r THEN o ELSE requests[q].outcome

LEMMA ReplyReplied ==
  ASSUME TypeOK, NEW r \in DOMAIN requests, NEW o \in Outcome, Reply(r, o)
  PROVE  Replied(r, o)
  BY ReplyFacts DEF Replied, RequestsStay

\* The callers' giving up changes no command and no outcome.
LEMMA TimeoutFacts ==
  ASSUME TypeOK, AskTimeout
  PROVE  /\ RequestsStay /\ DOMAIN requests' = DOMAIN requests
         /\ \A r \in DOMAIN requests : requests'[r].outcome = requests[r].outcome
         /\ UNCHANGED <<users, manager, session, actors, crashes>>
  <1>1. PICK r \in DOMAIN requests : requests' = [requests EXCEPT ![r].caller = "gone"]
    BY DEF AskTimeout
  <1>2. requests \in Seq(RequestRecord) /\ requests[r] \in RequestRecord
    BY DEF TypeOK
  <1> DEFINE e == [requests[r] EXCEPT !.caller = "gone"]
  <1>3. /\ e \in RequestRecord /\ e.cmd = requests[r].cmd /\ e.outcome = requests[r].outcome
        /\ requests' = [requests EXCEPT ![r] = e]
    BY <1>1, <1>2 DEF RequestRecord
  <1> HIDE DEF e
  <1>4. /\ requests' \in Seq(RequestRecord) /\ DOMAIN requests' = DOMAIN requests
        /\ \A q \in DOMAIN requests : requests'[q] = IF q = r THEN e ELSE requests[q]
    BY <1>2, <1>3, UpdateInSeq
  <1> QED
    BY <1>3, <1>4 DEF AskTimeout, RequestsStay

LEMMA CrashFacts ==
  ASSUME TypeOK, Crash
  PROVE  /\ RequestsStay /\ DOMAIN requests' = DOMAIN requests
         /\ \A r \in DOMAIN requests : requests'[r].outcome = requests[r].outcome
  <1> DEFINE e(r) == [requests[r] EXCEPT !.caller = IF @ = "waiting" THEN "gone" ELSE @]
  <1>1. requests \in Seq(RequestRecord) /\ \A r \in DOMAIN requests : requests[r] \in RequestRecord
    BY DEF TypeOK
  <1>2. \A r \in DOMAIN requests :
          e(r) \in RequestRecord /\ e(r).cmd = requests[r].cmd /\ e(r).outcome = requests[r].outcome
    BY <1>1 DEF RequestRecord
  <1>3. requests' = [r \in DOMAIN requests |-> e(r)]
    BY DEF Crash
  <1> HIDE DEF e
  <1>4. DOMAIN requests = 1..Len(requests) /\ Len(requests) \in Nat
    BY <1>1
  <1>5. requests' \in Seq(RequestRecord)
    BY <1>2, <1>3, <1>4
  <1> QED
    BY <1>2, <1>3, <1>5 DEF RequestsStay

-----------------------------------------------------------------------------
(* What the steps do, as far as the invariant tells. *)

LEMMA RowWritten ==
  ASSUME TypeOK, NEW u \in DOMAIN users, NEW row \in Row, users' = [users EXCEPT ![u] = row]
  PROVE  /\ users' \in Seq(Row) /\ DOMAIN users' = DOMAIN users
         /\ users'[u] = row
         /\ \A v \in DOMAIN users \ {u} : users'[v] = users[v]
  <1>1. users \in Seq(Row)
    BY DEF TypeOK
  <1> QED
    BY <1>1, UpdateInSeq

LEMMA RegisterFacts ==
  ASSUME TypeOK, NEW r \in DOMAIN requests, requests[r].cmd.kind = "register",
         Register(r, requests[r].cmd)
  PROVE  UsersStay(0) /\ \E o \in Outcome : Replied(r, o)
  <1> DEFINE cmd == requests[r].cmd
  <1>1. cmd \in Command /\ users \in Seq(Row) /\ DOMAIN users \subseteq UserIDs
    BY Records DEF TypeOK
  <1>2. {"ok", "refused", "failed"} \subseteq Outcome
    BY DEF Outcome
  <1>3. \E o \in Outcome : Reply(r, o)
    BY <1>2 DEF Register, WriteFails
  <1>4. UNCHANGED users => UsersStay(0)
    BY <1>1 DEF UsersStay
  <1>5. ASSUME CanRegister(cmd), Len(users) + 1 \in UserIDs,
               NEW now \in Times, users' = Append(users, NewUser(cmd, now))
        PROVE  UsersStay(0)
    <2>1. NewUser(cmd, now) \in Row
      BY <1>1, <1>5, CommandKinds DEF NewUser, Row, CanRegister
    <2>2. /\ users' \in Seq(Row) /\ DOMAIN users' = DOMAIN users \cup {Len(users) + 1}
          /\ \A v \in DOMAIN users : users'[v] = users[v]
      BY <1>1, <1>5, <2>1, AppendInSeq
    <2> QED
      BY <1>1, <1>5, <2>2 DEF UsersStay
  <1> QED
    BY <1>3, <1>4, <1>5, ReplyReplied DEF Register, WriteFails

LEMMA AnswerFacts ==
  ASSUME TypeOK, NEW r \in DOMAIN requests, NEW found \in SUBSET DOMAIN users, Answer(r, found)
  PROVE  users' = users /\ \E o \in Outcome : Reply(r, o) /\ Replied(r, o)
  <1>1. \A u \in found : users[u].nick \in Outcome
    BY Records DEF Row, Outcome
  <1>2. "refused" \in Outcome
    BY DEF Outcome
  <1> QED
    BY <1>1, <1>2, ReplyReplied DEF Answer

LEMMA OnlineFacts ==
  ASSUME IInv, NEW r \in DOMAIN requests, requests[r].cmd.kind = "online",
         UpdateLastOnline(r, requests[r].cmd)
  PROVE  UsersStay(0) /\ \E o \in Outcome : Replied(r, o)
  <1> DEFINE cmd == requests[r].cmd
  <1>1. TypeOK /\ cmd \in Command /\ users \in Seq(Row) /\ DOMAIN users \subseteq UserIDs
    BY Records DEF IInv, TypeOK
  <1>2. {"ok", "failed"} \subseteq Outcome
    BY DEF Outcome
  <1>3. \E o \in Outcome : Reply(r, o)
    BY <1>2 DEF UpdateLastOnline, WriteFails
  <1>4. UNCHANGED users => UsersStay(0)
    BY <1>1 DEF UsersStay
  <1>5. ASSUME users' = [users EXCEPT ![cmd.uid].seen = cmd.at] PROVE UsersStay(0)
    <2> DEFINE row == [users[cmd.uid] EXCEPT !.seen = cmd.at]
    <2>1. cmd.uid \in DOMAIN users /\ cmd.at \in Times
      BY <1>1, CommandKinds DEF IInv, RightMailbox, Known
    <2>2. users[cmd.uid] \in Row
      BY <1>1, <2>1
    <2>3. /\ row \in Row /\ row.password = users[cmd.uid].password /\ row.nick = users[cmd.uid].nick
          /\ users' = [users EXCEPT ![cmd.uid] = row]
      BY <1>5, <2>1, <2>2 DEF Row
    <2> HIDE DEF row
    <2> QED
      BY <1>1, <2>1, <2>3, RowWritten DEF UsersStay
  <1> QED
    BY <1>1, <1>3, <1>4, <1>5, ReplyReplied DEF UpdateLastOnline, WriteFails

LEMMA ManagerFacts ==
  ASSUME IInv, ManagerReceive
  PROVE  \E r \in manager :
           /\ manager' = manager \ {r}
           /\ \E o \in Outcome : Replied(r, o)
           /\ UsersStay(0)
           /\ \/ UNCHANGED <<session, actors>>
              \/ \E u \in UserIDs : GetOrCreateSession(u, {})
           /\ UNCHANGED crashes
  <1>0. TypeOK /\ manager \subseteq DOMAIN requests /\ users \in Seq(Row) /\ DOMAIN users \subseteq UserIDs
    BY DEF IInv, TypeOK
  <1>1. PICK r \in manager :
          /\ manager' = manager \ {r}
          /\ LET cmd == requests[r].cmd
             IN \/ cmd.kind = "login" /\ Login(r, cmd) /\ UNCHANGED users
                \/ /\ \/ cmd.kind = "register" /\ Register(r, cmd)
                      \/ cmd.kind = "get" /\ Answer(r, DOMAIN users \cap {cmd.uid})
                      \/ cmd.kind = "byname" /\ Answer(r, IDsOf(cmd.name))
                      \/ cmd.kind = "online" /\ UpdateLastOnline(r, cmd)
                   /\ UNCHANGED <<session, actors>>
          /\ UNCHANGED crashes
    BY DEF ManagerReceive
  <1> DEFINE cmd == requests[r].cmd
  <1>2. \A name : IDsOf(name) \subseteq DOMAIN users
    BY DEF IDsOf
  <1>3. UNCHANGED users => UsersStay(0)
    BY <1>0 DEF UsersStay
  <1>4. CASE cmd.kind = "login" /\ Login(r, cmd) /\ UNCHANGED users
    <2>1. {"ok", "refused"} \subseteq Outcome
      BY DEF Outcome
    <2>2. /\ \E o \in Outcome : Reply(r, o)
          /\ UNCHANGED <<session, actors>> \/ \E u \in UserIDs : GetOrCreateSession(u, {})
      BY <1>0, <1>2, <1>4, <2>1 DEF Login
    <2> QED
      BY <1>0, <1>1, <1>3, <1>4, <2>2, ReplyReplied
  <1>5. CASE cmd.kind = "register" /\ Register(r, cmd) /\ UNCHANGED <<session, actors>>
    BY <1>0, <1>1, <1>5, RegisterFacts
  <1>6. CASE cmd.kind = "get" /\ Answer(r, DOMAIN users \cap {cmd.uid}) /\ UNCHANGED <<session, actors>>
    BY <1>0, <1>1, <1>3, <1>6, AnswerFacts
  <1>7. CASE cmd.kind = "byname" /\ Answer(r, IDsOf(cmd.name)) /\ UNCHANGED <<session, actors>>
    BY <1>0, <1>1, <1>2, <1>3, <1>7, AnswerFacts
  <1>8. CASE cmd.kind = "online" /\ UpdateLastOnline(r, cmd) /\ UNCHANGED <<session, actors>>
    BY <1>0, <1>1, <1>8, OnlineFacts
  <1> QED
    BY <1>1, <1>4, <1>5, <1>6, <1>7, <1>8

\* Actor a has pulled r and now holds h.
Pulled(a, r, h) ==
  /\ actors[a].held = NotHeld
  /\ Oldest(r, actors[a].box)
  /\ actors' \in Seq(ActorRecord') /\ DOMAIN actors' = DOMAIN actors /\ Len(actors') = Len(actors)
  /\ \A b \in DOMAIN actors \ {a} : actors'[b] = actors[b]
  /\ actors'[a].uid = actors[a].uid
  /\ actors'[a].box = actors[a].box \ {r}
  /\ actors'[a].held = h
  /\ UNCHANGED <<manager, session, crashes>>

LEMMA PullFacts ==
  ASSUME TypeOK, DOMAIN requests' = DOMAIN requests,
         NEW a \in DOMAIN actors, NEW r \in actors[a].box, NEW h \in HeldRecord, Pulls(a, r, h)
  PROVE  Pulled(a, r, h)
  <1> DEFINE e == [uid |-> actors[a].uid, box |-> actors[a].box \ {r}, held |-> h]
  <1>1. actors \in Seq(ActorRecord) /\ actors \in Seq(ActorRecord')
    BY HeldStays DEF TypeOK
  <1>2. actors[a] \in ActorRecord
    BY <1>1
  <1>3. h \in HeldRecord'
    BY HeldStays
  <1>4. e \in ActorRecord' /\ e.uid = actors[a].uid /\ e.box = actors[a].box \ {r} /\ e.held = h
    BY <1>2, <1>3 DEF ActorRecord
  <1>5. actors' = [actors EXCEPT ![a] = e]
    BY <1>1 DEF Pulls
  <1> HIDE DEF e
  <1>6. /\ actors' \in Seq(ActorRecord') /\ DOMAIN actors' = DOMAIN actors /\ Len(actors') = Len(actors)
        /\ \A b \in DOMAIN actors : actors'[b] = IF b = a THEN e ELSE actors[b]
    BY <1>1, <1>4, <1>5, UpdateInSeq
  <1> QED
    BY <1>4, <1>6 DEF Pulls, Pulled

\* The nicknames after request r with outcome o has been handled for user u.
NickWritten(r, o, u) ==
  LET cmd == requests[r].cmd
  IN users'[u].nick = IF cmd.kind = "update" /\ o = "ok" /\ cmd.nick # NoName
                      THEN cmd.nick ELSE users[u].nick

PasswordsStay == \A v \in DOMAIN users : users'[v].password = users[v].password

\* Actor a has handled request r whole, with outcome o.
Handled(a, r, o) ==
  /\ Pulled(a, r, NotHeld) /\ Replied(r, o)
  /\ UsersStay(actors[a].uid) /\ PasswordsStay
  /\ NickWritten(r, o, actors[a].uid)

LEMMA ProfileFacts ==
  ASSUME IInv, NEW a \in DOMAIN actors, SessionReceive(a)
  PROVE  \E r \in actors[a].box, o \in Outcome : Handled(a, r, o)
  <1>1. PICK r \in actors[a].box :
          /\ Pulls(a, r, NotHeld)
          /\ \/ requests[r].cmd.kind = "profile" /\ Profile(r, requests[r].cmd)
             \/ requests[r].cmd.kind = "update" /\ UpdateProfile(r, requests[r].cmd)
    BY DEF SessionReceive
  <1> DEFINE cmd == requests[r].cmd
             u == actors[a].uid
  <1>2. /\ TypeOK /\ users \in Seq(Row) /\ DOMAIN users \subseteq UserIDs
        /\ r \in DOMAIN requests /\ cmd \in Command /\ OfSession(r, u)
    <2>1. TypeOK /\ users \in Seq(Row) /\ DOMAIN users \subseteq UserIDs
      BY DEF IInv, TypeOK
    <2>2. OfSession(r, u)
      BY <1>1 DEF IInv, RightMailbox
    <2> QED
      BY <2>1, <2>2, Records DEF OfSession
  <1>3. cmd.uid = u /\ u \in DOMAIN users
    BY <1>2, <1>1 DEF OfSession, IInv, RightMailbox, Known
  <1>4. Pulled(a, r, NotHeld) \/ ~(DOMAIN requests' = DOMAIN requests)
    BY <1>1, <1>2, PullFacts DEF HeldRecord
  <1>5. {"ok", "failed"} \subseteq Outcome
    BY DEF Outcome
  <1>6. CASE cmd.kind = "profile" /\ Profile(r, cmd)
    <2>1. users' = users /\ \E o \in Outcome : Replied(r, o)
      BY <1>2, <1>6, AnswerFacts DEF Profile
    <2>2. UsersStay(u) /\ PasswordsStay /\ \A o : NickWritten(r, o, u)
      BY <1>2, <1>6, <2>1 DEF UsersStay, PasswordsStay, NickWritten
    <2> QED
      BY <1>4, <2>1, <2>2 DEF Replied, Handled
  <1>7. CASE WriteFails(r)
    <2>1. UsersStay(u) /\ PasswordsStay /\ NickWritten(r, "failed", u)
      BY <1>2, <1>7 DEF WriteFails, UsersStay, PasswordsStay, NickWritten
    <2>2. Replied(r, "failed")
      BY <1>2, <1>5, <1>7, ReplyReplied DEF WriteFails
    <2> QED
      BY <1>4, <1>5, <2>1, <2>2 DEF Replied, Handled
  <1>8. CASE /\ cmd.kind = "update"
             /\ users' = [users EXCEPT ![cmd.uid].nick = UpdatedNick(cmd, @)]
             /\ Reply(r, "ok")
    <2> DEFINE nick == UpdatedNick(cmd, users[u].nick)
               row == [users[u] EXCEPT !.nick = nick]
    <2>1. users[u] \in Row
      BY <1>2, <1>3
    <2>2. nick \in Nicknames /\ nick = IF cmd.nick # NoName THEN cmd.nick ELSE users[u].nick
      BY <1>2, <1>8, <2>1, CommandKinds DEF UpdatedNick, Row
    <2>3. users' = [users EXCEPT ![u] = row]
      BY <1>3, <1>8
    <2>4. row \in Row /\ row.password = users[u].password /\ row.nick = nick
      BY <2>1, <2>2 DEF Row
    <2> HIDE DEF row, nick
    <2>5. UsersStay(u) /\ PasswordsStay /\ NickWritten(r, "ok", u)
      BY <1>2, <1>3, <1>8, <2>2, <2>3, <2>4, RowWritten DEF UsersStay, PasswordsStay, NickWritten
    <2>6. Replied(r, "ok")
      BY <1>2, <1>5, <1>8, ReplyReplied
    <2> QED
      BY <1>4, <1>5, <2>5, <2>6 DEF Replied, Handled
  <1> QED
    BY <1>1, <1>6, <1>7, <1>8 DEF UpdateProfile

\* Actor a holds request r, whose old password it has found to be right.
Compared(a, r) ==
  /\ Pulled(a, r, [req |-> r, row |-> users[actors[a].uid]])
  /\ requests' = requests /\ users' = users
  /\ requests[r].cmd.kind = "change" /\ requests[r].cmd.new \in Strong
  /\ users[actors[a].uid].password = requests[r].cmd.old

LEMMA ReadFacts ==
  ASSUME IInv, NEW a \in DOMAIN actors, ChangePasswordRead(a)
  PROVE  \E r \in actors[a].box : Compared(a, r) \/ \E o \in Outcome : Handled(a, r, o)
  <1>1. PICK r \in actors[a].box :
          LET cmd == requests[r].cmd
              row == users[cmd.uid]
          IN /\ cmd.kind = "change"
             /\ \/ /\ row.password = cmd.old /\ cmd.new \in Strong
                   /\ Pulls(a, r, [req |-> r, row |-> row])
                   /\ UNCHANGED requests
                \/ Pulls(a, r, NotHeld) /\ Reply(r, "refused")
             /\ UNCHANGED users
    BY DEF ChangePasswordRead, RefuseChange
  <1> DEFINE cmd == requests[r].cmd
             u == actors[a].uid
             h == [req |-> r, row |-> users[u]]
  <1>2. /\ TypeOK /\ users \in Seq(Row) /\ DOMAIN users \subseteq UserIDs
        /\ OfSession(r, u) /\ Known(cmd)
    BY <1>1 DEF IInv, TypeOK, RightMailbox, OfSession
  <1>3. r \in DOMAIN requests /\ cmd.uid = u /\ u \in DOMAIN users
    BY <1>1, <1>2 DEF OfSession, Known
  <1>4. CASE /\ users[u].password = cmd.old /\ cmd.new \in Strong
             /\ Pulls(a, r, h) /\ UNCHANGED requests
    <2>1. h \in HeldRecord
      BY <1>2, <1>3 DEF HeldRecord
    <2> HIDE DEF h
    <2>2. Pulled(a, r, h)
      BY <1>2, <1>4, <2>1, PullFacts
    <2> USE DEF h
    <2> QED
      BY <1>1, <1>3, <1>4, <2>2 DEF Compared
  <1>5. CASE Pulls(a, r, NotHeld) /\ Reply(r, "refused")
    <2>1. "refused" \in Outcome
      BY DEF Outcome
    <2>2. Replied(r, "refused")
      BY <1>2, <1>3, <1>5, <2>1, ReplyReplied
    <2>3. Pulled(a, r, NotHeld)
      BY <1>2, <1>5, <2>2, PullFacts DEF Replied, HeldRecord
    <2>4. UsersStay(u) /\ PasswordsStay /\ NickWritten(r, "refused", u)
      BY <1>1, <1>2 DEF UsersStay, PasswordsStay, NickWritten
    <2> QED
      BY <2>1, <2>2, <2>3, <2>4 DEF Handled
  <1> QED
    BY <1>1, <1>3, <1>4, <1>5

\* Actor a has written, or failed to write, what it held.
Finished(a, o) ==
  /\ Replied(actors[a].held.req, o)
  /\ actors' \in Seq(ActorRecord') /\ DOMAIN actors' = DOMAIN actors /\ Len(actors') = Len(actors)
  /\ \A b \in DOMAIN actors \ {a} : actors'[b] = actors[b]
  /\ actors'[a].uid = actors[a].uid
  /\ actors'[a].box = actors[a].box
  /\ actors'[a].held = NotHeld
  /\ UsersStay(actors[a].uid)
  /\ \A v \in DOMAIN users : users'[v].nick = users[v].nick
  /\ UNCHANGED <<manager, session, crashes>>

LEMMA WriteFacts ==
  ASSUME IInv, NEW a \in DOMAIN actors, ChangePasswordWrite(a)
  PROVE  actors[a].held # NotHeld /\ \E o \in Outcome : Finished(a, o)
  <1> DEFINE r == actors[a].held.req
             cmd == requests[r].cmd
             u == actors[a].uid
             e == [actors[a] EXCEPT !.held = NotHeld]
  <1>1. /\ TypeOK /\ users \in Seq(Row) /\ DOMAIN users \subseteq UserIDs
        /\ actors \in Seq(ActorRecord) /\ actors[a].held # NotHeld
    BY DEF IInv, TypeOK, ChangePasswordWrite
  <1>2. OfSession(r, u) /\ cmd.kind = "change" /\ cmd.new \in Strong
    BY <1>1 DEF IInv, HeldIsCurrent, StillRight
  <1>3. r \in DOMAIN requests /\ cmd.uid = u /\ u \in DOMAIN users
    BY <1>2 DEF OfSession, IInv, RightMailbox, Known
  <1>4. {"ok", "failed"} \subseteq Outcome
    BY DEF Outcome
  <1>5. \E o \in Outcome : Replied(r, o)
    BY <1>1, <1>3, <1>4, ReplyReplied DEF ChangePasswordWrite, WriteFails
  <1>6. UsersStay(u) /\ \A v \in DOMAIN users : users'[v].nick = users[v].nick
    <2>1. CASE UNCHANGED users
      BY <1>1, <2>1 DEF UsersStay
    <2>2. CASE users' = [users EXCEPT ![cmd.uid].password = cmd.new]
      <3> DEFINE row == [users[u] EXCEPT !.password = cmd.new]
      <3>1. users[u] \in Row
        BY <1>1, <1>3
      <3>2. row \in Row /\ row.nick = users[u].nick /\ users' = [users EXCEPT ![u] = row]
        BY <1>2, <1>3, <2>2, <3>1 DEF Row
      <3> HIDE DEF row
      <3> QED
        BY <1>1, <1>3, <3>2, RowWritten DEF UsersStay
    <2> QED
      BY <2>1, <2>2 DEF ChangePasswordWrite, SetPassword, WriteFails
  <1>7. actors[a] \in ActorRecord /\ actors \in Seq(ActorRecord')
    BY <1>1, <1>5, HeldStays DEF Replied
  <1>8. actors[a] \in ActorRecord'
    BY <1>7
  <1>9. e \in ActorRecord' /\ e.uid = u /\ e.box = actors[a].box /\ e.held = NotHeld
    BY <1>7, <1>8 DEF ActorRecord, HeldRecord
  <1>10. actors' = [actors EXCEPT ![a] = e] /\ UNCHANGED <<manager, session, crashes>>
    BY <1>1 DEF ChangePasswordWrite
  <1> HIDE DEF e
  <1>11. /\ actors' \in Seq(ActorRecord') /\ DOMAIN actors' = DOMAIN actors /\ Len(actors') = Len(actors)
         /\ \A b \in DOMAIN actors : actors'[b] = IF b = a THEN e ELSE actors[b]
    BY <1>7, <1>9, <1>10, UpdateInSeq
  <1> QED
    BY <1>1, <1>5, <1>6, <1>9, <1>10, <1>11 DEF Finished

LEMMA InitInv == Init => IInv
  <1> SUFFICES ASSUME Init PROVE IInv
    OBVIOUS
  <1>1. users \in Seq(Row) /\ DOMAIN users \subseteq UserIDs /\ requests = <<>> /\ actors = <<>> /\ manager = {} /\ crashes = 0
    BY UserAssumption DEF Init
  <1>2. DOMAIN requests = {} /\ DOMAIN actors = {} /\ Len(actors) = 0
    BY <1>1
  <1>3. requests \in Seq(RequestRecord) /\ actors \in Seq(ActorRecord)
    BY <1>1
  <1>4. session \in [UserIDs -> 0..Len(actors)] /\ \A u \in UserIDs : session[u] = 0
    BY <1>2 DEF Init
  <1>5. TypeOK
    BY <1>1, <1>2, <1>3, <1>4, UserAssumption DEF TypeOK
  <1>6. OneSession /\ RightMailbox /\ HeldIsCurrent
    BY <1>1, <1>2, <1>4 DEF OneSession, RightMailbox, HeldIsCurrent
  <1> QED
    BY <1>5, <1>6 DEF IInv

-----------------------------------------------------------------------------
(* The invariant. *)

LEMMA AskInv ==
  ASSUME IInv, Request
  PROVE  IInv'
  <1>1. PICK waits \in BOOLEAN :
          \/ \E cmd \in ManagerCmd : Known(cmd) /\ AskManager(cmd, waits)
          \/ \E cmd \in SessionCmd : Known(cmd) /\ AskSession(cmd, waits)
    BY RequestFacts
  <1>0. PICK n : n = Len(requests) + 1
    OBVIOUS
  <1>2. TypeOK /\ OneSession /\ users' = users
    BY <1>1 DEF IInv, AskManager, AskSession
  <1>3. PICK cmd \in Command :
          /\ Known(cmd)
          /\ Asked(cmd)
          /\ \/ cmd \in ManagerCmd /\ AskManager(cmd, waits)
             \/ cmd \in SessionCmd /\ AskSession(cmd, waits)
    BY <1>1, <1>2, EnlistFacts DEF AskManager, AskSession, Command
  <1>4. /\ RequestsStay /\ DOMAIN requests' = DOMAIN requests \cup {n} /\ n \notin DOMAIN requests
        /\ requests'[n].cmd = cmd
    BY <1>0, <1>3 DEF Asked
  <1>5. \A r \in DOMAIN requests : Known(requests[r].cmd)
    BY DEF IInv, RightMailbox
  <1>6. (\A r \in DOMAIN requests : Known(requests[r].cmd))'
    BY <1>2, <1>3, <1>4, <1>5 DEF Known, RequestsStay
  <1>7. manager \subseteq DOMAIN requests /\ \A r \in manager : requests[r].cmd \in ManagerCmd
    BY DEF IInv, TypeOK, RightMailbox
  <1>8. CASE cmd \in ManagerCmd /\ AskManager(cmd, waits)
    <2>1. manager' = manager \cup {n} /\ UNCHANGED <<users, session, actors, crashes>>
      BY <1>0, <1>8 DEF AskManager
    <2>2. manager' \subseteq DOMAIN requests' /\ \A r \in manager' : requests'[r].cmd \in ManagerCmd
      BY <1>4, <1>7, <1>8, <2>1 DEF RequestsStay
    <2>3. actors \in Seq(ActorRecord')
      BY <1>2, <1>4, HeldStays DEF TypeOK
    <2>4. TypeOK'
      BY <1>2, <1>4, <2>1, <2>2, <2>3 DEF TypeOK, RequestsStay
    <2>5. OneSession'
      BY <1>2, <2>1 DEF OneSession
    <2>6. (\A a \in DOMAIN actors : \A r \in actors[a].box : OfSession(r, actors[a].uid))'
      BY <1>4, <2>1, SessionStays DEF IInv, RightMailbox
    <2>7. HeldIsCurrent'
      BY <1>4, <2>1, SessionStays DEF IInv, HeldIsCurrent, StillRight, OfSession, RequestsStay
    <2> QED
      BY <1>6, <2>2, <2>4, <2>5, <2>6, <2>7 DEF IInv, RightMailbox
  <1>9. CASE cmd \in SessionCmd /\ AskSession(cmd, waits)
    <2> DEFINE u == cmd.uid
    <2>1. GetOrCreateSession(u, {n}) /\ UNCHANGED <<users, manager, crashes>>
      BY <1>0, <1>9 DEF AskSession
    <2>2. u \in UserIDs
      BY <1>9, CommandKinds
    <2>3. /\ actors' \in Seq(ActorRecord') /\ session' \in [UserIDs -> 0..Len(actors')] /\ OneSession'
          /\ \E k \in DOMAIN actors' : Given(u, {n}, k)
      BY <1>2, <1>4, <2>1, <2>2, GetOrCreate
    <2>4. PICK k \in DOMAIN actors' : Given(u, {n}, k)
      BY <2>3
    <2>5. manager' \subseteq DOMAIN requests' /\ \A r \in manager' : requests'[r].cmd \in ManagerCmd
      BY <1>4, <1>7, <2>1 DEF RequestsStay
    <2>6. TypeOK'
      BY <1>2, <1>4, <2>1, <2>3, <2>5 DEF TypeOK, RequestsStay
    <2>7. OfSession(n, u)'
      BY <1>4, <1>9 DEF OfSession
    <2>8. (\A a \in DOMAIN actors : \A r \in actors[a].box : OfSession(r, actors[a].uid))'
      BY <1>4, <2>4, <2>7, SessionStays DEF IInv, RightMailbox, Given
    <2>9. HeldIsCurrent'
      <3>1. ASSUME NEW a \in DOMAIN actors', actors'[a].held # NotHeld
            PROVE  /\ a \in DOMAIN actors /\ actors'[a].uid = actors[a].uid /\ actors'[a].held = actors[a].held
                   /\ \A q \in actors'[a].box : q \in actors[a].box \/ q = n
        BY <2>4, <3>1 DEF Given
      <3>2. ASSUME NEW a \in DOMAIN actors, actors[a].held # NotHeld, NEW q, q = actors[a].held.req
            PROVE  StillRight(q, actors[a].uid) /\ q \notin actors[a].box
        BY <3>2 DEF IInv, HeldIsCurrent
      <3>3. ASSUME NEW q, NEW v, StillRight(q, v) PROVE StillRight(q, v)' /\ q # n
        BY <1>4, <2>1, <3>3 DEF StillRight, OfSession, RequestsStay
      <3>4. ASSUME NEW a \in DOMAIN actors', actors'[a].held # NotHeld
            PROVE  StillRight(actors[a].held.req, actors[a].uid)' /\ actors'[a].held.req \notin actors'[a].box
        <4>1. PICK q : q = actors[a].held.req
          OBVIOUS
        <4>2. PICK v : v = actors[a].uid
          OBVIOUS
        <4>3. StillRight(q, v) /\ q \notin actors[a].box
          BY <3>1, <3>2, <3>4, <4>1, <4>2
        <4>4. StillRight(q, v)' /\ q # n
          BY <3>3, <4>3
        <4> QED
          BY <3>1, <3>4, <4>1, <4>2, <4>3, <4>4 DEF StillRight, OfSession
      <3> QED
        BY <3>4 DEF HeldIsCurrent
    <2> QED
      BY <1>6, <2>3, <2>5, <2>6, <2>8, <2>9 DEF IInv, RightMailbox
  <1> QED
    BY <1>3, <1>8, <1>9

LEMMA QuietInv ==
  ASSUME IInv, UNCHANGED vars \/ AskTimeout
  PROVE  IInv'
  <1>1. /\ RequestsStay /\ DOMAIN requests' = DOMAIN requests
        /\ UNCHANGED <<users, manager, session, actors, crashes>>
    BY TimeoutFacts DEF IInv, TypeOK, RequestsStay, vars
  <1>2. TypeOK /\ actors \in Seq(ActorRecord')
    BY <1>1, HeldStays DEF IInv, TypeOK
  <1>3. TypeOK'
    BY <1>1, <1>2 DEF TypeOK, RequestsStay
  <1>4. OneSession'
    BY <1>1 DEF IInv, OneSession
  <1>5. RightMailbox'
    BY <1>1, SessionStays DEF IInv, TypeOK, RightMailbox, RequestsStay, Known
  <1>6. HeldIsCurrent'
    BY <1>1, SessionStays DEF IInv, HeldIsCurrent, StillRight, OfSession, RequestsStay
  <1> QED
    BY <1>3, <1>4, <1>5, <1>6 DEF IInv

LEMMA CrashInv ==
  ASSUME IInv, Crash
  PROVE  IInv'
  <1>1. /\ TypeOK
        /\ RequestsStay /\ DOMAIN requests' = DOMAIN requests
        /\ users' = users /\ manager' = {} /\ actors' = <<>> /\ crashes' \in 0..MaxCrashes
        /\ session' = [u \in UserIDs |-> 0]
    BY CrashFacts, UserAssumption DEF IInv, TypeOK, Crash
  <1>2. actors' \in Seq(ActorRecord') /\ DOMAIN actors' = {} /\ Len(actors') = 0
    BY <1>1
  <1>3. TypeOK'
    BY <1>1, <1>2 DEF TypeOK, RequestsStay
  <1>4. OneSession' /\ HeldIsCurrent'
    BY <1>1, <1>2 DEF OneSession, HeldIsCurrent
  <1>5. RightMailbox'
    BY <1>1, <1>2 DEF IInv, RightMailbox, RequestsStay, Known
  <1> QED
    BY <1>3, <1>4, <1>5 DEF IInv
\* Who has compared the password of user u need not fear what is done for others.
LEMMA RightStays ==
  ASSUME TypeOK, RightMailbox, RequestsStay, NEW v, UsersStay(v),
         NEW a \in DOMAIN actors, actors'[a].held = actors[a].held, actors'[a].uid = actors[a].uid,
         StillRight(actors[a].held.req, actors[a].uid),
         actors[a].uid # v \/ v \notin DOMAIN users
  PROVE  StillRight(actors[a].held.req, actors[a].uid)'
  <1>1. PICK q : q = actors[a].held.req
    OBVIOUS
  <1>2. PICK u : u = actors[a].uid
    OBVIOUS
  <1>3. /\ OfSession(q, u)
        /\ requests[q].cmd.kind = "change" /\ requests[q].cmd.new \in Strong
        /\ users[requests[q].cmd.uid].password = requests[q].cmd.old
    BY <1>1, <1>2 DEF StillRight
  <1>4. /\ requests'[q].cmd = requests[q].cmd
        /\ requests[q].cmd.uid \in DOMAIN users /\ requests[q].cmd.uid = u
    BY <1>3 DEF OfSession, RequestsStay, RightMailbox, Known
  <1>5. users'[u].password = users[u].password
    BY <1>2, <1>4 DEF UsersStay
  <1>6. OfSession(q, u)'
    BY <1>3 DEF OfSession, RequestsStay
  <1> QED
    BY <1>1, <1>2, <1>3, <1>4, <1>5, <1>6 DEF StillRight

LEMMA ManagerInv ==
  ASSUME IInv, ManagerReceive
  PROVE  IInv'
  <1>1. PICK r \in manager :
           /\ manager' = manager \ {r}
           /\ \E o \in Outcome : Replied(r, o)
           /\ UsersStay(0)
           /\ \/ UNCHANGED <<session, actors>>
              \/ \E u \in UserIDs : GetOrCreateSession(u, {})
           /\ UNCHANGED crashes
    BY ManagerFacts
  <1>2. /\ TypeOK /\ OneSession /\ RightMailbox /\ HeldIsCurrent
        /\ RequestsStay /\ DOMAIN requests' = DOMAIN requests
    BY <1>1 DEF IInv, Replied
  <1>3. /\ actors' \in Seq(ActorRecord') /\ session' \in [UserIDs -> 0..Len(actors')] /\ OneSession'
        /\ \/ actors' = actors
           \/ \E u \in UserIDs : \E k \in DOMAIN actors' : Given(u, {}, k)
    <2>1. CASE UNCHANGED <<session, actors>>
      BY <1>2, <2>1, HeldStays DEF TypeOK, OneSession
    <2>2. CASE \E u \in UserIDs : GetOrCreateSession(u, {})
      BY <1>2, <2>2, GetOrCreate
    <2> QED
      BY <1>1, <2>1, <2>2
  <1>4. TypeOK'
    BY <1>1, <1>2, <1>3 DEF TypeOK, UsersStay, RequestsStay
  <1>5. /\ (\A q \in DOMAIN requests : Known(requests[q].cmd))'
        /\ \A q \in manager' : requests'[q].cmd \in ManagerCmd
    BY <1>1, <1>2 DEF RightMailbox, Known, UsersStay, RequestsStay, TypeOK
  <1>6. \A a \in DOMAIN actors' :
          /\ \A q \in actors'[a].box : a \in DOMAIN actors /\ q \in actors[a].box
          /\ actors'[a].held # NotHeld => a \in DOMAIN actors /\ actors'[a].held = actors[a].held
          /\ a \in DOMAIN actors => actors'[a].uid = actors[a].uid /\ actors'[a].box = actors[a].box
    BY <1>3 DEF Given
  <1>7. ASSUME NEW a \in DOMAIN actors', NEW q \in actors'[a].box
        PROVE  OfSession(q, actors[a].uid)'
    <2>1. OfSession(q, actors[a].uid) /\ actors'[a].uid = actors[a].uid
      BY <1>2, <1>6 DEF RightMailbox
    <2> QED
      BY <1>2, <2>1 DEF OfSession, RequestsStay
  <1>8. ASSUME NEW a \in DOMAIN actors', actors'[a].held # NotHeld
        PROVE  StillRight(actors[a].held.req, actors[a].uid)' /\ actors'[a].held.req \notin actors'[a].box
    <2>1. /\ a \in DOMAIN actors /\ actors'[a].held = actors[a].held
          /\ actors'[a].uid = actors[a].uid /\ actors'[a].box = actors[a].box
      BY <1>6, <1>8
    <2>2. StillRight(actors[a].held.req, actors[a].uid) /\ actors[a].held.req \notin actors[a].box
      BY <1>2, <1>8, <2>1 DEF HeldIsCurrent
    <2>3. StillRight(actors[a].held.req, actors[a].uid)'
      <3>1. 0 \notin DOMAIN users
        BY <1>2 DEF TypeOK
      <3> QED
        BY <1>1, <1>2, <2>1, <2>2, <3>1, RightStays
    <2> QED
      BY <2>1, <2>2, <2>3
  <1>9. RightMailbox'
    BY <1>5, <1>7 DEF RightMailbox
  <1>10. HeldIsCurrent'
    BY <1>8 DEF HeldIsCurrent
  <1> QED
    BY <1>3, <1>4, <1>9, <1>10 DEF IInv

\* A step of one session: what it holds afterwards decides.
LEMMA SessionInv ==
  ASSUME IInv, NEW a \in DOMAIN actors, Session(a)
  PROVE  IInv'
  <1>1. \/ \E r \in actors[a].box : Compared(a, r) \/ \E o \in Outcome : Handled(a, r, o)
        \/ actors[a].held # NotHeld /\ \E o \in Outcome : Finished(a, o)
    BY ProfileFacts, ReadFacts, WriteFacts DEF Session
  <1>2. TypeOK /\ OneSession /\ RightMailbox /\ HeldIsCurrent
    BY DEF IInv
  <1>3. /\ RequestsStay /\ DOMAIN requests' = DOMAIN requests
        /\ UsersStay(actors[a].uid)
        /\ actors' \in Seq(ActorRecord') /\ DOMAIN actors' = DOMAIN actors /\ Len(actors') = Len(actors)
        /\ \A b \in DOMAIN actors \ {a} : actors'[b] = actors[b]
        /\ actors'[a].uid = actors[a].uid
        /\ actors'[a].box \subseteq actors[a].box
        /\ UNCHANGED manager /\ UNCHANGED session /\ UNCHANGED crashes
    <2>1. UNCHANGED <<users, requests>> => RequestsStay /\ UsersStay(actors[a].uid)
      BY <1>2 DEF TypeOK, RequestsStay, UsersStay
    <2> QED
      BY <1>1, <2>1 DEF Compared, Handled, Finished, Pulled, Replied
  <1>4. \/ actors'[a].held = NotHeld
        \/ \E r \in actors[a].box : Compared(a, r)
    BY <1>1 DEF Handled, Finished, Pulled
  <1>5. TypeOK'
    <2>1. session' \in [UserIDs -> 0..Len(actors')]
      BY <1>2, <1>3 DEF TypeOK
    <2> QED
      BY <1>2, <1>3, <2>1 DEF TypeOK, UsersStay, RequestsStay
  <1>6. \A b \in DOMAIN actors : actors'[b].uid = actors[b].uid
    BY <1>3
  <1>7. OneSession'
    <2>1. \A u \in UserIDs : session[u] # 0 => session[u] \in DOMAIN actors
      BY <1>2 DEF TypeOK
    <2> QED
      BY <1>2, <1>3, <1>6, <2>1 DEF OneSession
  <1>8. RightMailbox'
    <2>1. (\A q \in DOMAIN requests : Known(requests[q].cmd))'
      BY <1>2, <1>3 DEF RightMailbox, Known, UsersStay, RequestsStay, TypeOK
    <2>2. \A q \in manager' : requests'[q].cmd \in ManagerCmd
      BY <1>2, <1>3 DEF RightMailbox, RequestsStay, TypeOK
    <2>3. ASSUME NEW b \in DOMAIN actors', NEW q \in actors'[b].box
          PROVE  OfSession(q, actors[b].uid)'
      <3>1. q \in actors[b].box /\ b \in DOMAIN actors
        BY <1>3
      <3>2. OfSession(q, actors[b].uid)
        BY <1>2, <3>1 DEF RightMailbox
      <3> QED
        BY <1>3, <1>6, <3>1, <3>2 DEF OfSession, RequestsStay
    <2> QED
      BY <2>1, <2>2, <2>3 DEF RightMailbox
  <1>9. ASSUME NEW b \in DOMAIN actors, actors'[b].held # NotHeld
        PROVE  StillRight(actors[b].held.req, actors[b].uid)' /\ actors'[b].held.req \notin actors'[b].box
    <2>1. CASE b # a
      <3>1. actors'[b] = actors[b]
        BY <1>3, <2>1
      <3>2. StillRight(actors[b].held.req, actors[b].uid) /\ actors[b].held.req \notin actors[b].box
        BY <1>2, <1>9, <3>1 DEF HeldIsCurrent
      <3>3. actors[b].uid # actors[a].uid
        BY <1>2, <2>1 DEF OneSession
      <3>4. StillRight(actors[b].held.req, actors[b].uid)'
        BY <1>2, <1>3, <3>1, <3>2, <3>3, RightStays
      <3> QED
        BY <3>1, <3>2, <3>4
    <2>2. CASE b = a
      <3>1. PICK r \in actors[a].box : Compared(a, r)
        BY <1>4, <1>9, <2>2
      <3>2. /\ actors'[a].held.req = r /\ r \notin actors'[a].box /\ requests' = requests /\ users' = users
            /\ requests[r].cmd.kind = "change" /\ requests[r].cmd.new \in Strong
            /\ users[actors[a].uid].password = requests[r].cmd.old
        BY <3>1 DEF Compared, Pulled
      <3>3. OfSession(r, actors[a].uid) /\ requests[r].cmd.uid = actors[a].uid
        BY <1>2 DEF RightMailbox, OfSession
      <3>4. StillRight(actors[a].held.req, actors[a].uid)'
        BY <1>3, <3>2, <3>3 DEF StillRight, OfSession
      <3> QED
        BY <2>2, <3>2, <3>4
    <2> QED
      BY <2>1, <2>2
  <1>10. HeldIsCurrent'
    BY <1>3, <1>9 DEF HeldIsCurrent
  <1> QED
    BY <1>5, <1>7, <1>8, <1>10 DEF IInv

(* The registry and the mailboxes agree on whose request is whose, and the
   password a session has compared is still the user's when it writes the
   new one, whatever the manager and other sessions do in between. *)
THEOREM Invariant == Spec => []IInv
  <1>1. IInv /\ [Next]_vars => IInv'
    BY AskInv, QuietInv, ManagerInv, SessionInv, CrashInv DEF Next
  <1> QED
    BY InitInv, <1>1, PTL DEF Spec
-----------------------------------------------------------------------------
(* The nickname is the one asked for last. *)

\* What waits for a session has been asked for after all it has written.
UpdatesInOrder ==
  \A a \in DOMAIN actors : \A r \in actors[a].box : \A q \in DOMAIN requests :
    Written(q, actors[a].uid) => q < r

UpdateInv == IInv /\ UpdatesInOrder /\ LatestUpdateStands

\* Only a user who is there is given a nickname.
LEMMA WrittenKnown ==
  ASSUME RightMailbox, NEW r \in DOMAIN requests, NEW u, Written(r, u)
  PROVE  u \in DOMAIN users
  BY DEF Written, RightMailbox, Known

\* Nobody is given a nickname: who has one keeps it, and so does the order.
LEMMA NobodyRenamed ==
  ASSUME UpdateInv,
         DOMAIN requests \subseteq DOMAIN requests',
         \A u : \A q \in DOMAIN requests' : Written(q, u)' => q \in DOMAIN requests /\ Written(q, u),
         \A u : \A q \in DOMAIN requests : Written(q, u) => Written(q, u)',
         \A q \in DOMAIN requests : requests'[q].cmd = requests[q].cmd,
         \A u \in DOMAIN users : users'[u].nick = users[u].nick,
         \A a \in DOMAIN actors' : \A r \in actors'[a].box :
           \/ /\ a \in DOMAIN actors /\ r \in actors[a].box
              /\ actors'[a].uid = actors[a].uid
           \/ \A q \in DOMAIN requests : q < r
  PROVE  UpdatesInOrder' /\ LatestUpdateStands'
  <1>1. UpdatesInOrder'
    BY DEF UpdateInv, UpdatesInOrder
  <1>2. ASSUME NEW u \in DOMAIN users', NEW r \in DOMAIN requests', Written(r, u)',
               \A q \in DOMAIN requests' : Written(q, u)' => q <= r
        PROVE  users'[u].nick = requests'[r].cmd.nick
    <2>1. r \in DOMAIN requests /\ Written(r, u)
      BY <1>2
    <2>2. u \in DOMAIN users
      BY <2>1, WrittenKnown DEF UpdateInv, IInv
    <2>3. \A q \in DOMAIN requests : Written(q, u) => q <= r
      BY <1>2
    <2>4. users[u].nick = requests[r].cmd.nick
      BY <2>1, <2>2, <2>3 DEF UpdateInv, LatestUpdateStands
    <2> QED
      BY <2>1, <2>2, <2>4
  <1>3. LatestUpdateStands'
    BY <1>2 DEF LatestUpdateStands
  <1> QED
    BY <1>1, <1>3

\* Commands and outcomes that stay leave what has been written as it is.
LEMMA SameWritten ==
  ASSUME DOMAIN requests \subseteq DOMAIN requests',
         \A q \in DOMAIN requests : requests'[q].cmd = requests[q].cmd /\ requests'[q].outcome = requests[q].outcome
  PROVE  \A u : \A q \in DOMAIN requests : Written(q, u)' <=> Written(q, u)
  BY DEF Written

\* So does an answer to a command that gives no nickname.
LEMMA OtherWritten ==
  ASSUME NEW r \in DOMAIN requests, NEW o, Replied(r, o), requests[r].cmd.kind # "update"
  PROVE  \A u : \A q \in DOMAIN requests : Written(q, u)' <=> Written(q, u)
  BY DEF Written, Replied, RequestsStay

LEMMA AskOrder ==
  ASSUME UpdateInv, Request
  PROVE  UpdatesInOrder' /\ LatestUpdateStands'
  <1>0. PICK n : n = Len(requests) + 1
    OBVIOUS
  <1>1. PICK waits \in BOOLEAN :
          \/ \E cmd \in ManagerCmd : AskManager(cmd, waits)
          \/ \E cmd \in SessionCmd : AskSession(cmd, waits)
    BY RequestFacts
  <1>2. TypeOK /\ OneSession
    BY DEF UpdateInv, IInv
  <1>3. PICK cmd \in Command :
          /\ Asked(cmd) /\ users' = users
          /\ \/ actors' = actors
             \/ cmd \in SessionCmd /\ GetOrCreateSession(cmd.uid, {n})
    BY <1>0, <1>1, <1>2, EnlistFacts DEF AskManager, AskSession, Command
  <1>4. /\ RequestsStay /\ DOMAIN requests' = DOMAIN requests \cup {n}
        /\ requests'[n].outcome = "none"
        /\ \A q \in DOMAIN requests : q < n /\ requests'[q].outcome = requests[q].outcome
                                            /\ requests'[q].cmd = requests[q].cmd
    BY <1>0, <1>3 DEF Asked, RequestsStay
  <1>5. actors' = actors \/ \E k \in DOMAIN actors' : Given(cmd.uid, {n}, k)
    BY <1>2, <1>3, <1>4, CommandKinds, GetOrCreate
  <1>6. ASSUME NEW k \in DOMAIN actors', Given(cmd.uid, {n}, k), NEW a \in DOMAIN actors', NEW r \in actors'[a].box
        PROVE  \/ a \in DOMAIN actors /\ r \in actors[a].box /\ actors'[a].uid = actors[a].uid
               \/ r = n
    BY <1>6 DEF Given
  <1>7. \A u : \A q \in DOMAIN requests : Written(q, u)' <=> Written(q, u)
    BY <1>4, SameWritten
  <1>8. \A u : ~Written(n, u)'
    BY <1>4 DEF Written
  <1>9. \A a \in DOMAIN actors' : \A r \in actors'[a].box :
          \/ /\ a \in DOMAIN actors /\ r \in actors[a].box
             /\ actors'[a].uid = actors[a].uid
          \/ r = n
    BY <1>5, <1>6
  <1> QED
    BY <1>3, <1>4, <1>7, <1>8, <1>9, NobodyRenamed

LEMMA QuietOrder ==
  ASSUME UpdateInv, UNCHANGED vars \/ AskTimeout
  PROVE  UpdatesInOrder' /\ LatestUpdateStands'
  <1>1. /\ DOMAIN requests' = DOMAIN requests
        /\ \A r \in DOMAIN requests : requests'[r].cmd = requests[r].cmd /\ requests'[r].outcome = requests[r].outcome
        /\ users' = users /\ actors' = actors
    BY TimeoutFacts DEF UpdateInv, IInv, RequestsStay, vars
  <1>2. \A u : \A q \in DOMAIN requests : Written(q, u)' <=> Written(q, u)
    BY <1>1, SameWritten
  <1> QED
    BY <1>1, <1>2, NobodyRenamed

LEMMA CrashOrder ==
  ASSUME UpdateInv, Crash
  PROVE  UpdatesInOrder' /\ LatestUpdateStands'
  <1>1. /\ DOMAIN requests' = DOMAIN requests
        /\ \A r \in DOMAIN requests : requests'[r].cmd = requests[r].cmd /\ requests'[r].outcome = requests[r].outcome
    BY CrashFacts DEF UpdateInv, IInv, RequestsStay
  <1>2. DOMAIN actors' = {} /\ users' = users
    BY DEF Crash
  <1>3. \A u : \A q \in DOMAIN requests : Written(q, u)' <=> Written(q, u)
    BY <1>1, SameWritten
  <1> QED
    BY <1>1, <1>2, <1>3, NobodyRenamed

\* The manager gives nobody a nickname who has an account.
LEMMA ManagerOrder ==
  ASSUME UpdateInv, ManagerReceive
  PROVE  UpdatesInOrder' /\ LatestUpdateStands'
  <1>1. IInv /\ TypeOK /\ OneSession /\ RightMailbox
    BY DEF UpdateInv, IInv
  <1>2. PICK r \in manager :
           /\ \E o \in Outcome : Replied(r, o)
           /\ UsersStay(0)
           /\ \/ UNCHANGED <<session, actors>>
              \/ \E u \in UserIDs : GetOrCreateSession(u, {})
    BY <1>1, ManagerFacts
  <1>3. r \in DOMAIN requests /\ requests[r].cmd.kind # "update"
    <2>1. r \in DOMAIN requests /\ requests[r].cmd \in ManagerCmd
      BY <1>1 DEF RightMailbox, TypeOK
    <2>2. requests[r].cmd \in Command
      BY <1>1, <2>1, Records
    <2> QED
      BY <2>1, <2>2, CommandKinds
  <1>4. \A u : \A q \in DOMAIN requests : Written(q, u)' <=> Written(q, u)
    BY <1>2, <1>3, OtherWritten
  <1>5. RequestsStay /\ DOMAIN requests' = DOMAIN requests
    BY <1>2 DEF Replied
  <1>6. \A u \in DOMAIN users : users'[u].nick = users[u].nick
    <2>1. 0 \notin DOMAIN users
      BY <1>1 DEF TypeOK
    <2> QED
      BY <1>2, <2>1 DEF UsersStay
  <1>7. actors' = actors \/ \E u \in UserIDs : \E k \in DOMAIN actors' : Given(u, {}, k)
    BY <1>1, <1>2, <1>5, GetOrCreate
  <1>8. ASSUME NEW u \in UserIDs, NEW k \in DOMAIN actors', Given(u, {}, k),
               NEW a \in DOMAIN actors', NEW q \in actors'[a].box
        PROVE  a \in DOMAIN actors /\ q \in actors[a].box /\ actors'[a].uid = actors[a].uid
    BY <1>8 DEF Given
  <1>9. \A a \in DOMAIN actors' : \A q \in actors'[a].box :
          a \in DOMAIN actors /\ q \in actors[a].box /\ actors'[a].uid = actors[a].uid
    BY <1>7, <1>8
  <1> QED
    BY <1>4, <1>5, <1>6, <1>9, NobodyRenamed DEF RequestsStay

\* A session that has handled its oldest request has written the latest update
\* of its user, if it has written one.
LEMMA HandledOrder ==
  ASSUME UpdateInv, NEW a \in DOMAIN actors, NEW r \in actors[a].box, NEW o \in Outcome, Handled(a, r, o)
  PROVE  UpdatesInOrder' /\ LatestUpdateStands'
  <1>1. PICK u : u = actors[a].uid
    OBVIOUS
  <1>2. /\ IInv /\ TypeOK /\ OneSession /\ RightMailbox /\ UpdatesInOrder /\ LatestUpdateStands
        /\ RequestsStay /\ DOMAIN requests' = DOMAIN requests
    BY DEF UpdateInv, IInv, Handled, Replied
  <1>3. r \in DOMAIN requests /\ requests[r].cmd.uid = u /\ u \in DOMAIN users
    <2>1. OfSession(r, u) /\ requests[r].cmd \in Command
      BY <1>1, <1>2, Records DEF RightMailbox, OfSession
    <2> QED
      BY <1>2, <2>1, CommandKinds DEF OfSession, RightMailbox, Known
  <1>4. /\ \A v : \A q \in DOMAIN requests : q # r \/ v # u => (Written(q, v)' <=> Written(q, v))
        /\ Written(r, u)' <=> /\ requests[r].cmd.kind = "update" /\ requests[r].cmd.nick # NoName
                              /\ o = "ok"
    BY <1>2, <1>3 DEF Handled, Replied, RequestsStay, Written
  <1>5. \A q \in DOMAIN requests : Written(q, u) => q < r
    BY <1>1, <1>2 DEF UpdatesInOrder
  <1>6. /\ DOMAIN actors' = DOMAIN actors
        /\ \A b \in DOMAIN actors : actors'[b].uid = actors[b].uid
        /\ \A b \in DOMAIN actors \ {a} : actors'[b].box = actors[b].box
        /\ actors'[a].box = actors[a].box \ {r}
        /\ \A q \in actors[a].box : r <= q
    BY DEF Handled, Pulled, Oldest
  <1>7. \A b \in DOMAIN actors \ {a} : actors[b].uid # u
    BY <1>1, <1>2 DEF OneSession
  <1>8. DOMAIN requests \subseteq Nat /\ actors[a].box \subseteq DOMAIN requests
    BY <1>2, Records DEF TypeOK
  <1>9. UpdatesInOrder'
    <2>1. ASSUME NEW b \in DOMAIN actors, NEW s \in actors'[b].box, NEW q \in DOMAIN requests,
                 Written(q, actors[b].uid)'
          PROVE  q < s
      <3>1. CASE b = a /\ q = r
        BY <1>6, <1>8, <3>1
      <3>2. CASE b = a /\ q # r
        BY <1>1, <1>2, <1>4, <1>6, <2>1, <3>2 DEF UpdatesInOrder
      <3>3. CASE b # a
        BY <1>2, <1>4, <1>6, <1>7, <2>1, <3>3 DEF UpdatesInOrder
      <3> QED
        BY <3>1, <3>2, <3>3
    <2> QED
      BY <1>2, <1>6, <2>1 DEF UpdatesInOrder
  <1>10. ASSUME NEW v \in DOMAIN users', NEW x \in DOMAIN requests, Written(x, v)',
                \A q \in DOMAIN requests : Written(q, v)' => q <= x
         PROVE  users'[v].nick = requests'[x].cmd.nick
    <2>1. CASE v # u
      <3>1. Written(x, v) /\ \A q \in DOMAIN requests : Written(q, v) => q <= x
        BY <1>4, <1>10, <2>1
      <3>2. v \in DOMAIN users
        BY <1>2, <3>1, WrittenKnown
      <3>3. users'[v].nick = users[v].nick
        BY <1>1, <2>1, <3>2 DEF Handled, UsersStay
      <3> QED
        BY <1>2, <3>1, <3>2, <3>3 DEF LatestUpdateStands, RequestsStay
    <2>2. CASE v = u /\ Written(r, u)'
      <3>1. x = r
        BY <1>3, <1>4, <1>5, <1>8, <1>10, <2>2
      <3>2. users'[u].nick = requests[r].cmd.nick
        BY <1>1, <1>4, <2>2 DEF Handled, NickWritten
      <3> QED
        BY <1>2, <1>3, <2>2, <3>1, <3>2 DEF RequestsStay
    <2>3. CASE v = u /\ ~Written(r, u)'
      <3>1. Written(x, u) /\ \A q \in DOMAIN requests : q # r /\ Written(q, u) => q <= x
        BY <1>4, <1>10, <2>3
      <3>2. ~Written(r, u)
        BY <1>3, <1>5, <1>8
      <3>3. users[u].nick = requests[x].cmd.nick
        BY <1>2, <1>3, <3>1, <3>2 DEF LatestUpdateStands
      <3>4. users'[u].nick = users[u].nick
        BY <1>1, <1>4, <2>3 DEF Handled, NickWritten
      <3> QED
        BY <1>2, <2>3, <3>3, <3>4 DEF RequestsStay
    <2> QED
      BY <2>1, <2>2, <2>3
  <1>11. LatestUpdateStands'
    BY <1>2, <1>10 DEF LatestUpdateStands
  <1> QED
    BY <1>9, <1>11

\* The two calls of a password change: neither gives a nickname.
LEMMA ChangeOrder ==
  ASSUME UpdateInv, NEW a \in DOMAIN actors,
         \/ \E r \in actors[a].box : Compared(a, r)
         \/ actors[a].held # NotHeld /\ \E o \in Outcome : Finished(a, o)
  PROVE  UpdatesInOrder' /\ LatestUpdateStands'
  <1>1. \A b \in DOMAIN actors' : \A q \in actors'[b].box :
          b \in DOMAIN actors /\ q \in actors[b].box /\ actors'[b].uid = actors[b].uid
    BY DEF Compared, Pulled, Finished
  <1>2. CASE \E r \in actors[a].box : Compared(a, r)
    <2>1. requests' = requests /\ users' = users
      BY <1>2 DEF Compared
    <2>2. \A u : \A q \in DOMAIN requests : Written(q, u)' <=> Written(q, u)
      BY <2>1, SameWritten
    <2> QED
      BY <1>1, <2>1, <2>2, NobodyRenamed
  <1>3. CASE actors[a].held # NotHeld /\ \E o \in Outcome : Finished(a, o)
    <2>1. PICK r : r = actors[a].held.req
      OBVIOUS
    <2>2. r \in DOMAIN requests /\ requests[r].cmd.kind = "change"
      BY <1>3, <2>1 DEF UpdateInv, IInv, HeldIsCurrent, StillRight, OfSession
    <2>3. /\ \E o \in Outcome : Replied(r, o)
          /\ \A v \in DOMAIN users : users'[v].nick = users[v].nick
      BY <1>3, <2>1 DEF Finished
    <2>4. \A u : \A q \in DOMAIN requests : Written(q, u)' <=> Written(q, u)
      BY <2>2, <2>3, OtherWritten
    <2>5. RequestsStay /\ DOMAIN requests' = DOMAIN requests
      BY <2>3 DEF Replied
    <2> QED
      BY <1>1, <2>3, <2>4, <2>5, NobodyRenamed DEF RequestsStay
  <1> QED
    BY <1>2, <1>3

LEMMA UpdateInit == Init => UpdateInv
  <1> SUFFICES ASSUME Init PROVE UpdateInv
    OBVIOUS
  <1>1. DOMAIN requests = {} /\ DOMAIN actors = {}
    BY DEF Init
  <1> QED
    BY <1>1, InitInv DEF UpdateInv, UpdatesInOrder, LatestUpdateStands

(* The nickname of a user is the one asked for last of those written: his
   session handles its mailbox oldest first, and what still waits in it has
   been asked for after all that has been written. *)
THEOREM NicknameIsTheLatest == Spec => []LatestUpdateStands
  <1>1. UpdateInv /\ [Next]_vars => UpdatesInOrder' /\ LatestUpdateStands'
    <2> SUFFICES ASSUME UpdateInv, [Next]_vars PROVE UpdatesInOrder' /\ LatestUpdateStands'
      OBVIOUS
    <2>1. CASE UNCHANGED vars \/ AskTimeout
      BY <2>1, QuietOrder
    <2>2. CASE Request
      BY <2>2, AskOrder
    <2>3. CASE ManagerReceive
      BY <2>3, ManagerOrder
    <2>4. ASSUME NEW a \in DOMAIN actors, Session(a)
          PROVE  UpdatesInOrder' /\ LatestUpdateStands'
      BY <2>4, ProfileFacts, ReadFacts, WriteFacts, HandledOrder, ChangeOrder DEF Session, UpdateInv
    <2>5. CASE Crash
      BY <2>5, CrashOrder
    <2> QED
      BY <2>1, <2>2, <2>3, <2>4, <2>5 DEF Next
  <1>2. IInv' /\ UpdatesInOrder' /\ LatestUpdateStands' => UpdateInv'
    BY DEF UpdateInv
  <1>3. UpdateInv => LatestUpdateStands
    BY DEF UpdateInv
  <1> QED
    BY Invariant, UpdateInit, <1>1, <1>2, <1>3, PTL DEF Spec

-----------------------------------------------------------------------------
(* The refinement of Accounts. *)

AskedOf == [r \in DOMAIN requests |-> [cmd |-> requests[r].cmd, outcome |-> requests[r].outcome]]

LEMMA SameCommands == Abs!Command = Command
  BY DEF Abs!Command, Abs!ManagerCmd, Abs!SessionCmd, Command, ManagerCmd, SessionCmd

LEMMA InitRefines == Init => Abs!Init
  <1> SUFFICES ASSUME Init PROVE Abs!Init
    OBVIOUS
  <1>1. users \in Seq(Row) /\ requests = <<>> /\ manager = {} /\ actors = <<>>
    BY UserAssumption DEF Init
  <1>2. DOMAIN requests = {}
    BY <1>1
  <1>3. AskedOf = <<>>
    BY <1>2 DEF AskedOf
  <1>4. Unsettled = {}
    BY <1>2 DEF Unsettled
  <1> QED
    BY <1>1, <1>3, <1>4 DEF Abs!Init, Abs!Account, Row, AskedOf

LEMMA AskedAppends ==
  ASSUME TypeOK, NEW cmd, Asked(cmd)
  PROVE  AskedOf' = Append(AskedOf, [cmd |-> cmd, outcome |-> "none"]) /\ Len(AskedOf) = Len(requests)
  <1>1. /\ requests \in Seq(RequestRecord) /\ requests' \in Seq(RequestRecord)
        /\ DOMAIN requests = 1..Len(requests) /\ Len(requests) \in Nat
        /\ DOMAIN requests' = 1..(Len(requests) + 1)
    BY DEF TypeOK, Asked, RequestsStay
  <1>2. AskedOf \in Seq({AskedOf[r] : r \in DOMAIN requests}) /\ Len(AskedOf) = Len(requests)
    BY <1>1 DEF AskedOf
  <1>3. \A r \in 1..(Len(requests) + 1) :
          AskedOf'[r] = IF r = Len(requests) + 1 THEN [cmd |-> cmd, outcome |-> "none"] ELSE AskedOf[r]
    BY <1>1 DEF AskedOf, Asked, RequestsStay
  <1>4. AskedOf' = [r \in 1..(Len(requests) + 1) |-> AskedOf'[r]]
    BY <1>1 DEF AskedOf
  <1> HIDE DEF AskedOf
  <1> QED
    BY <1>1, <1>2, <1>3, <1>4

LEMMA RepliedSettles ==
  ASSUME NEW r \in DOMAIN requests, NEW o, Replied(r, o), Unsettled' = Unsettled \ {r}
  PROVE  Abs!Settle(r, o)
  <1>1. AskedOf' = [AskedOf EXCEPT ![r].outcome = o]
    BY DEF AskedOf, Replied, RequestsStay
  <1> QED
    BY <1>1 DEF Abs!Settle, AskedOf

\* Nobody's commands have changed, nor their outcomes.
LEMMA AskedStays ==
  ASSUME DOMAIN requests' = DOMAIN requests,
         \A r \in DOMAIN requests : requests'[r].cmd = requests[r].cmd /\ requests'[r].outcome = requests[r].outcome
  PROVE  AskedOf' = AskedOf
  BY DEF AskedOf

\* Actor a still has to settle request r.
Has(a, r) == r \in actors[a].box \/ (actors[a].held # NotHeld /\ r = actors[a].held.req)

UnsettledIs == \A r : r \in Unsettled <=> r \in manager \/ \E a \in DOMAIN actors : Has(a, r)

LEMMA UnsettledHas == IInv => UnsettledIs
  <1> SUFFICES ASSUME IInv PROVE UnsettledIs
    OBVIOUS
  <1>1. TypeOK /\ HeldIsCurrent
    BY DEF IInv
  <1>2. manager \subseteq DOMAIN requests /\ 0 \notin DOMAIN requests
    BY <1>1 DEF TypeOK
  <1>3. ASSUME NEW a \in DOMAIN actors, NEW r
        PROVE  Has(a, r) <=> r \in DOMAIN requests /\ (r \in actors[a].box \/ r = actors[a].held.req)
    <2>1. actors[a].box \subseteq DOMAIN requests
      BY <1>1, Records
    <2>2. actors[a].held # NotHeld => actors[a].held.req \in DOMAIN requests
      BY <1>1, Records
    <2>3. actors[a].held = NotHeld => actors[a].held.req \notin DOMAIN requests
      BY <1>2 DEF NotHeld
    <2> QED
      BY <2>1, <2>2, <2>3 DEF Has
  <1> QED
    BY <1>2, <1>3 DEF UnsettledIs, Unsettled

\* A request is in one place only.
LEMMA OnePlace ==
  ASSUME IInv, NEW a \in DOMAIN actors, NEW r, Has(a, r)
  PROVE  /\ r \in DOMAIN requests /\ r \notin manager
         /\ \A b \in DOMAIN actors : Has(b, r) => b = a
         /\ actors[a].held # NotHeld => actors[a].held.req \notin actors[a].box
  <1>1. TypeOK /\ OneSession /\ RightMailbox /\ HeldIsCurrent
    BY DEF IInv
  <1>2. \A b \in DOMAIN actors : Has(b, r) => OfSession(r, actors[b].uid)
    BY <1>1 DEF Has, HeldIsCurrent, StillRight, RightMailbox
  <1>3. r \in DOMAIN requests /\ r \notin manager
    <2>1. r \in DOMAIN requests /\ requests[r].cmd \in SessionCmd
      BY <1>2 DEF OfSession
    <2>2. requests[r].cmd \notin ManagerCmd
      BY <1>1, <2>1, Records, CommandKinds
    <2> QED
      BY <1>1, <2>1, <2>2 DEF RightMailbox
  <1>4. \A b \in DOMAIN actors : Has(b, r) => b = a
    BY <1>1, <1>2 DEF OneSession, OfSession
  <1> QED
    BY <1>1, <1>3, <1>4 DEF HeldIsCurrent

\* What actor a has pulled and answered is settled, the rest is as it was.
LEMMA HandledSettles ==
  ASSUME IInv, IInv', NEW a \in DOMAIN actors, NEW r \in actors[a].box,
         Pulled(a, r, NotHeld), DOMAIN requests' = DOMAIN requests
  PROVE  r \in Unsettled /\ Unsettled' = Unsettled \ {r}
  <1>1. \A b \in DOMAIN actors : \A q : Has(b, q)' <=> Has(b, q) /\ (b # a \/ q # r)
    BY DEF Has, Pulled
  <1>2. Has(a, r) /\ r \notin manager /\ \A b \in DOMAIN actors : Has(b, r) => b = a
    BY OnePlace DEF Has
  <1>3. \A b \in DOMAIN actors : \A q : Has(b, q)' <=> Has(b, q) /\ q # r
    BY <1>1, <1>2
  <1>4. DOMAIN actors' = DOMAIN actors /\ manager' = manager
    BY DEF Pulled
  <1>5. UnsettledIs /\ UnsettledIs'
    BY UnsettledHas, PTL
  <1> QED
    BY <1>2, <1>3, <1>4, <1>5 DEF UnsettledIs

LEMMA FinishedSettles ==
  ASSUME IInv, IInv', NEW a \in DOMAIN actors, actors[a].held # NotHeld, NEW o, Finished(a, o)
  PROVE  actors[a].held.req \in Unsettled /\ Unsettled' = Unsettled \ {actors[a].held.req}
  <1>1. PICK r : r = actors[a].held.req
    OBVIOUS
  <1>2. Has(a, r)
    BY <1>1 DEF Has
  <1>3. /\ r \notin manager /\ r \notin actors[a].box
        /\ \A b \in DOMAIN actors : Has(b, r) => b = a
    BY <1>1, <1>2, OnePlace
  <1>4. \A b \in DOMAIN actors : \A q : Has(b, q)' <=> Has(b, q) /\ q # r
    BY <1>1, <1>3 DEF Has, Finished
  <1>5. DOMAIN actors' = DOMAIN actors /\ manager' = manager
    BY DEF Finished
  <1>6. UnsettledIs /\ UnsettledIs'
    BY UnsettledHas, PTL
  <1> QED
    BY <1>1, <1>2, <1>3, <1>4, <1>5, <1>6 DEF UnsettledIs

\* What actor a holds is still to be settled.
LEMMA ComparedKeeps ==
  ASSUME IInv, IInv', NEW a \in DOMAIN actors, NEW r \in actors[a].box, Compared(a, r)
  PROVE  Unsettled' = Unsettled
  <1>1. \A b \in DOMAIN actors : \A q : Has(b, q)' <=> Has(b, q)
    <2>1. actors[a].held = NotHeld /\ actors'[a].box = actors[a].box \ {r}
      BY DEF Compared, Pulled
    <2>2. actors'[a].held # NotHeld /\ actors'[a].held.req = r
      <3>1. TypeOK /\ r \in DOMAIN requests
        <4>1. TypeOK
          BY DEF IInv
        <4> QED
          BY <4>1, Records
      <3>2. r # 0
        BY <3>1 DEF TypeOK
      <3> QED
        BY <3>2 DEF Compared, Pulled, NotHeld
    <2>3. \A b \in DOMAIN actors \ {a} : actors'[b] = actors[b]
      BY DEF Compared, Pulled
    <2> QED
      BY <2>1, <2>2, <2>3 DEF Has
  <1>2. DOMAIN actors' = DOMAIN actors /\ manager' = manager
    BY DEF Compared, Pulled
  <1>3. UnsettledIs /\ UnsettledIs'
    BY UnsettledHas, PTL
  <1> QED
    BY <1>1, <1>2, <1>3 DEF UnsettledIs

LEMMA ManagerSettles ==
  ASSUME IInv, IInv', NEW r \in manager, manager' = manager \ {r},
         \/ actors' = actors
         \/ \E u \in UserIDs : \E k \in DOMAIN actors' : Given(u, {}, k)
  PROVE  r \in Unsettled /\ Unsettled' = Unsettled \ {r}
  <1>1. \A q : (\E a \in DOMAIN actors : Has(a, q))' <=> (\E a \in DOMAIN actors : Has(a, q))
    <2>1. CASE actors' = actors
      BY <2>1 DEF Has
    <2>2. ASSUME NEW u \in UserIDs, NEW k \in DOMAIN actors', Given(u, {}, k)
          PROVE  \A q : (\E a \in DOMAIN actors : Has(a, q))' <=> (\E a \in DOMAIN actors : Has(a, q))
      <3>1. \A a \in DOMAIN actors : \A q : Has(a, q)' <=> Has(a, q)
        BY <2>2 DEF Has, Given
      <3>2. k \notin DOMAIN actors => \A q : ~Has(k, q)'
        BY <2>2 DEF Has, Given
      <3> QED
        BY <2>2, <3>1, <3>2 DEF Given
    <2> QED
      BY <2>1, <2>2
  <1>2. \A a \in DOMAIN actors : ~Has(a, r)
    BY OnePlace
  <1>3. UnsettledIs /\ UnsettledIs'
    BY UnsettledHas, PTL
  <1> QED
    BY <1>1, <1>2, <1>3 DEF UnsettledIs

\* A command that has come in is open.
LEMMA AskRefines ==
  ASSUME IInv, IInv', Request
  PROVE  Abs!Next
  <1>0. PICK n : n = Len(requests) + 1
    OBVIOUS
  <1>1. PICK waits \in BOOLEAN :
          \/ \E cmd \in ManagerCmd : AskManager(cmd, waits)
          \/ \E cmd \in SessionCmd : AskSession(cmd, waits)
    BY RequestFacts
  <1>2. TypeOK /\ OneSession
    BY DEF IInv
  <1>3. PICK cmd \in Command :
          /\ Asked(cmd) /\ users' = users
          /\ \/ manager' = manager \cup {n} /\ actors' = actors
             \/ cmd \in SessionCmd /\ manager' = manager /\ GetOrCreateSession(cmd.uid, {n})
    BY <1>0, <1>1, <1>2, EnlistFacts DEF AskManager, AskSession, Command
  <1>4. RequestsStay /\ n \in DOMAIN requests'
    BY <1>0, <1>3 DEF Asked
  <1>5. \/ manager' = manager \cup {n} /\ actors' = actors
        \/ manager' = manager /\ \E k \in DOMAIN actors' : Given(cmd.uid, {n}, k)
    BY <1>2, <1>3, <1>4, CommandKinds, GetOrCreate
  <1>6. /\ \A a \in DOMAIN actors : a \in DOMAIN actors' /\ \A q : Has(a, q) => Has(a, q)'
        /\ \A a \in DOMAIN actors' : \A q : Has(a, q)' => q = n \/ (a \in DOMAIN actors /\ Has(a, q))
        /\ n \in manager' \/ \E a \in DOMAIN actors' : Has(a, n)'
    BY <1>5 DEF Has, Given
  <1>7. UnsettledIs /\ UnsettledIs'
    BY UnsettledHas, PTL
  <1>8. Unsettled' = Unsettled \cup {n}
    BY <1>5, <1>6, <1>7 DEF UnsettledIs
  <1>9. AskedOf' = Append(AskedOf, [cmd |-> cmd, outcome |-> "none"]) /\ Len(AskedOf) = Len(requests)
    BY <1>2, <1>3, AskedAppends
  <1>10. Abs!Ask(cmd)
    BY <1>0, <1>3, <1>8, <1>9 DEF Abs!Ask, AskedOf
  <1> QED
    BY <1>10, SameCommands DEF Abs!Next

\* The commands that need not be followed by others: how one takes effect.
LEMMA Effects ==
  ASSUME NEW r \in DOMAIN requests
  PROVE  LET cmd == requests[r].cmd
         IN /\ cmd.kind = "register" => (Abs!TakeEffect(r) <=> Abs!Register(r, cmd))
            /\ cmd.kind = "login" => (Abs!TakeEffect(r) <=> Abs!Login(r, cmd))
            /\ cmd.kind \in {"get", "profile"} => (Abs!TakeEffect(r) <=> Abs!Read(r, DOMAIN users \cap {cmd.uid}))
            /\ cmd.kind = "byname" =>
                 (Abs!TakeEffect(r) <=> Abs!Read(r, {u \in DOMAIN users : Abs!Owns(u, cmd.name)}))
            /\ cmd.kind = "update" => (Abs!TakeEffect(r) <=> Abs!Update(r, cmd))
            /\ cmd.kind = "change" => (Abs!TakeEffect(r) <=> Abs!Change(r, cmd))
            /\ cmd.kind = "online" => (Abs!TakeEffect(r) <=> Abs!Online(r, cmd))
  BY DEF Abs!TakeEffect

LEMMA Settles ==
  ASSUME TypeOK, NEW r \in Unsettled, NEW o \in Outcome, Reply(r, o), Unsettled' = Unsettled \ {r}
  PROVE  Abs!Settle(r, o)
  BY ReplyReplied, RepliedSettles DEF Unsettled

LEMMA FailRefines ==
  ASSUME TypeOK, NEW r \in Unsettled, WriteFails(r), Unsettled' = Unsettled \ {r},
         requests[r].cmd.kind \in {"register", "update", "change", "online"}
  PROVE  Abs!Next
  <1>1. Abs!Settle(r, "failed")
    BY Settles DEF WriteFails, Outcome
  <1> QED
    BY <1>1 DEF Abs!Next, Abs!Fail, WriteFails, Unsettled

LEMMA AnswerRefines ==
  ASSUME TypeOK, NEW r \in Unsettled, NEW found \in SUBSET DOMAIN users, Answer(r, found),
         Unsettled' = Unsettled \ {r}
  PROVE  Abs!Read(r, found)
  <1>1. \A u \in found : users[u].nick \in Outcome
    BY Records DEF Row, Outcome
  <1>2. "refused" \in Outcome
    BY DEF Outcome
  <1>3. \A o \in Outcome : Reply(r, o) => Abs!Settle(r, o)
    BY Settles
  <1>4. CASE \E u \in found : Reply(r, users[u].nick)
    <2>1. PICK u \in found : Reply(r, users[u].nick)
      BY <1>4
    <2>2. PICK o \in Outcome : o = users[u].nick
      BY <1>1
    <2>3. Abs!Settle(r, o)
      BY <1>3, <2>1, <2>2
    <2>4. users' = users
      BY DEF Answer
    <2> QED
      BY <2>2, <2>3, <2>4 DEF Abs!Read, Abs!Settle
  <1>5. CASE found = {} /\ Reply(r, "refused")
    BY <1>2, <1>3, <1>5 DEF Abs!Read, Answer
  <1> QED
    BY <1>4, <1>5 DEF Answer

LEMMA RegisterRefines ==
  ASSUME TypeOK, NEW r \in Unsettled, requests[r].cmd.kind = "register",
         Register(r, requests[r].cmd), Unsettled' = Unsettled \ {r}
  PROVE  Abs!Next
  <1> DEFINE cmd == requests[r].cmd
  <1>1. {"ok", "refused"} \subseteq Outcome /\ r \in DOMAIN requests
    BY DEF Outcome, Unsettled
  <1>2. (CanRegister(cmd) /\ IDsOf(cmd.name) = {})
          <=> (Abs!CanRegister(cmd) /\ \A u \in DOMAIN users : ~Abs!Owns(u, cmd.name))
    BY DEF CanRegister, Abs!CanRegister, IDsOf, Abs!Owns
  <1>3. CASE /\ CanRegister(cmd) /\ IDsOf(cmd.name) = {}
             /\ \E now \in Times : users' = Append(users, NewUser(cmd, now))
             /\ Reply(r, "ok")
    <2>1. Abs!Settle(r, "ok")
      BY <1>1, <1>3, Settles
    <2>2. Abs!Register(r, cmd)
      BY <1>2, <1>3, <2>1 DEF Abs!Register, Abs!NewUser, NewUser
    <2> QED
      BY <1>1, <2>2, Effects DEF Abs!Next
  <1>4. CASE ~(CanRegister(cmd) /\ IDsOf(cmd.name) = {}) /\ Reply(r, "refused") /\ UNCHANGED users
    <2>1. Abs!Settle(r, "refused")
      BY <1>1, <1>4, Settles
    <2>2. Abs!Register(r, cmd)
      BY <1>2, <1>4, <2>1 DEF Abs!Register
    <2> QED
      BY <1>1, <2>2, Effects DEF Abs!Next
  <1>5. CASE WriteFails(r)
    BY <1>5, FailRefines
  <1>6. \/ /\ CanRegister(cmd) /\ IDsOf(cmd.name) = {}
           /\ \E now \in Times : users' = Append(users, NewUser(cmd, now))
           /\ Reply(r, "ok")
        \/ ~(CanRegister(cmd) /\ IDsOf(cmd.name) = {}) /\ Reply(r, "refused") /\ UNCHANGED users
        \/ WriteFails(r)
    BY DEF Register
  <1> HIDE DEF cmd
  <1> QED
    BY <1>3, <1>4, <1>5, <1>6

LEMMA ManagerRefines ==
  ASSUME IInv, IInv', ManagerReceive
  PROVE  Abs!Next
  <1>0. TypeOK /\ OneSession /\ manager \subseteq DOMAIN requests
    BY DEF IInv, TypeOK
  <1>1. PICK r \in manager :
          /\ manager' = manager \ {r}
          /\ LET cmd == requests[r].cmd
             IN \/ cmd.kind = "login" /\ Login(r, cmd) /\ UNCHANGED users
                \/ /\ \/ cmd.kind = "register" /\ Register(r, cmd)
                      \/ cmd.kind = "get" /\ Answer(r, DOMAIN users \cap {cmd.uid})
                      \/ cmd.kind = "byname" /\ Answer(r, IDsOf(cmd.name))
                      \/ cmd.kind = "online" /\ UpdateLastOnline(r, cmd)
                   /\ UNCHANGED <<session, actors>>
    BY DEF ManagerReceive
  <1> DEFINE cmd == requests[r].cmd
  <1>2. {"ok", "refused"} \subseteq Outcome
    BY DEF Outcome
  <1>3. UNCHANGED actors => r \in Unsettled /\ Unsettled' = Unsettled \ {r}
    BY <1>1, ManagerSettles
  <1>4. CASE cmd.kind = "login" /\ Login(r, cmd) /\ UNCHANGED users
    <2>1. PICK o \in {"ok", "refused"} :
            /\ Reply(r, o)
            /\ o = "ok" <=> Authenticate(cmd.name, cmd.password)
            /\ UNCHANGED actors \/ \E u \in IDsOf(cmd.name) : GetOrCreateSession(u, {})
      BY <1>4 DEF Login
    <2>2. RequestsStay /\ IDsOf(cmd.name) \subseteq UserIDs
      BY <1>0, <1>2, <2>1, ReplyReplied DEF Replied, IDsOf, TypeOK
    <2>3. UNCHANGED actors \/ \E u \in UserIDs : \E k \in DOMAIN actors' : Given(u, {}, k)
      BY <1>0, <2>1, <2>2, GetOrCreate
    <2>4. r \in Unsettled /\ Unsettled' = Unsettled \ {r}
      BY <1>1, <2>3, ManagerSettles
    <2>5. Abs!Settle(r, o)
      BY <1>0, <1>2, <2>1, <2>4, Settles
    <2>6. Authenticate(cmd.name, cmd.password)
            <=> \E u \in DOMAIN users : Abs!Owns(u, cmd.name) /\ users[u].password = cmd.password
      BY DEF Authenticate, IDsOf, Abs!Owns
    <2>7. Abs!Login(r, cmd)
      BY <1>4, <2>1, <2>5, <2>6 DEF Abs!Login
    <2> QED
      BY <1>0, <1>4, <2>4, <2>7, Effects DEF Abs!Next
  <1>5. CASE cmd.kind = "register" /\ Register(r, cmd) /\ UNCHANGED actors
    BY <1>0, <1>3, <1>5, RegisterRefines
  <1>6. CASE cmd.kind = "get" /\ Answer(r, DOMAIN users \cap {cmd.uid}) /\ UNCHANGED actors
    <2>1. Abs!Read(r, DOMAIN users \cap {cmd.uid})
      BY <1>0, <1>3, <1>6, AnswerRefines
    <2> QED
      BY <1>0, <1>3, <1>6, <2>1, Effects DEF Abs!Next
  <1>7. CASE cmd.kind = "byname" /\ Answer(r, IDsOf(cmd.name)) /\ UNCHANGED actors
    <2>1. IDsOf(cmd.name) = {u \in DOMAIN users : Abs!Owns(u, cmd.name)}
      BY DEF IDsOf, Abs!Owns
    <2>2. Abs!Read(r, IDsOf(cmd.name))
      BY <1>0, <1>3, <1>7, <2>1, AnswerRefines
    <2> QED
      BY <1>0, <1>3, <1>7, <2>1, <2>2, Effects DEF Abs!Next
  <1>8. CASE cmd.kind = "online" /\ UpdateLastOnline(r, cmd) /\ UNCHANGED actors
    <2>1. CASE users' = [users EXCEPT ![cmd.uid].seen = cmd.at] /\ Reply(r, "ok")
      <3>1. Abs!Settle(r, "ok")
        BY <1>0, <1>2, <1>3, <1>8, <2>1, Settles
      <3>2. Abs!Online(r, cmd)
        BY <2>1, <3>1 DEF Abs!Online
      <3> QED
        BY <1>0, <1>3, <1>8, <3>2, Effects DEF Abs!Next
    <2>2. CASE WriteFails(r)
      BY <1>0, <1>3, <1>8, <2>2, FailRefines
    <2> QED
      BY <1>8, <2>1, <2>2 DEF UpdateLastOnline
  <1> QED
    BY <1>1, <1>4, <1>5, <1>6, <1>7, <1>8

\* A session's step settles one command, or has compared a password.
LEMMA ReceiveRefines ==
  ASSUME IInv, IInv', NEW a \in DOMAIN actors, SessionReceive(a)
  PROVE  Abs!Next
  <1>0. TypeOK
    BY DEF IInv
  <1>1. PICK r \in actors[a].box :
          /\ Pulls(a, r, NotHeld)
          /\ \/ requests[r].cmd.kind = "profile" /\ Profile(r, requests[r].cmd)
             \/ requests[r].cmd.kind = "update" /\ UpdateProfile(r, requests[r].cmd)
    BY DEF SessionReceive
  <1> DEFINE cmd == requests[r].cmd
  <1>2. {"ok", "failed"} \subseteq Outcome /\ r \in DOMAIN requests
    BY <1>0, Records DEF Outcome
  <1>3. ASSUME NEW o \in Outcome, Reply(r, o)
        PROVE  r \in Unsettled /\ Unsettled' = Unsettled \ {r}
    <2>1. DOMAIN requests' = DOMAIN requests
      BY <1>0, <1>2, <1>3, ReplyReplied DEF Replied
    <2>2. Pulled(a, r, NotHeld)
      BY <1>0, <1>1, <2>1, PullFacts DEF HeldRecord
    <2> QED
      BY <2>1, <2>2, HandledSettles
  <1>4. CASE cmd.kind = "profile" /\ Profile(r, cmd)
    <2>1. \E o \in Outcome : Reply(r, o)
      BY <1>0, <1>2, <1>4, AnswerFacts DEF Profile
    <2>2. Abs!Read(r, DOMAIN users \cap {cmd.uid})
      BY <1>0, <1>3, <1>4, <2>1, AnswerRefines DEF Profile
    <2> QED
      BY <1>2, <1>3, <1>4, <2>1, <2>2, Effects DEF Abs!Next
  <1>5. CASE cmd.kind = "update" /\ WriteFails(r)
    <2>1. r \in Unsettled /\ Unsettled' = Unsettled \ {r}
      BY <1>2, <1>3, <1>5 DEF WriteFails
    <2> QED
      BY <1>0, <1>5, <2>1, FailRefines
  <1>6. CASE /\ cmd.kind = "update"
             /\ users' = [users EXCEPT ![cmd.uid].nick = UpdatedNick(cmd, @)]
             /\ Reply(r, "ok")
    <2>1. r \in Unsettled /\ Unsettled' = Unsettled \ {r}
      BY <1>2, <1>3, <1>6
    <2>2. Abs!Settle(r, "ok")
      BY <1>0, <1>2, <1>6, <2>1, Settles
    <2>3. Abs!Update(r, cmd)
      BY <1>6, <2>2 DEF Abs!Update, Abs!UpdatedNick, UpdatedNick
    <2> QED
      BY <1>2, <1>6, <2>1, <2>3, Effects DEF Abs!Next
  <1> QED
    BY <1>1, <1>4, <1>5, <1>6 DEF UpdateProfile

LEMMA ReadRefines ==
  ASSUME IInv, IInv', NEW a \in DOMAIN actors, ChangePasswordRead(a)
  PROVE  Abs!Next \/ UNCHANGED Abs!accountsVars
  <1>1. PICK r \in actors[a].box :
          LET cmd == requests[r].cmd
              row == users[cmd.uid]
          IN /\ cmd.kind = "change"
             /\ \/ /\ row.password = cmd.old /\ cmd.new \in Strong
                   /\ Pulls(a, r, [req |-> r, row |-> row])
                   /\ UNCHANGED requests
                \/ /\ ~(row.password = cmd.old /\ cmd.new \in Strong)
                   /\ Pulls(a, r, NotHeld) /\ Reply(r, "refused")
             /\ UNCHANGED users
    BY DEF ChangePasswordRead, RefuseChange
  <1> DEFINE cmd == requests[r].cmd
             u == actors[a].uid
             h == [req |-> r, row |-> users[u]]
  <1>2. /\ TypeOK /\ users \in Seq(Row)
        /\ OfSession(r, u) /\ Known(cmd)
    BY <1>1 DEF IInv, TypeOK, RightMailbox, OfSession
  <1>3. r \in DOMAIN requests /\ cmd.uid = u /\ u \in DOMAIN users
    BY <1>1, <1>2 DEF OfSession, Known
  <1>4. CASE /\ users[u].password = cmd.old /\ cmd.new \in Strong
             /\ Pulls(a, r, h) /\ UNCHANGED requests
    <2>1. h \in HeldRecord
      BY <1>2, <1>3 DEF HeldRecord
    <2> HIDE DEF h
    <2>2. Pulled(a, r, h)
      BY <1>2, <1>4, <2>1, PullFacts
    <2> USE DEF h
    <2>3. Compared(a, r)
      BY <1>1, <1>3, <1>4, <2>2 DEF Compared
    <2>4. Unsettled' = Unsettled
      BY <2>3, ComparedKeeps
    <2>5. AskedOf' = AskedOf
      BY <1>4 DEF AskedOf
    <2> QED
      BY <1>1, <2>4, <2>5 DEF Abs!accountsVars, AskedOf
  <1>5. CASE /\ ~(users[u].password = cmd.old /\ cmd.new \in Strong)
             /\ Pulls(a, r, NotHeld) /\ Reply(r, "refused")
    <2>1. "refused" \in Outcome
      BY DEF Outcome
    <2>2. DOMAIN requests' = DOMAIN requests
      BY <1>2, <1>3, <1>5, <2>1, ReplyReplied DEF Replied
    <2>3. Pulled(a, r, NotHeld)
      BY <1>2, <1>5, <2>2, PullFacts DEF HeldRecord
    <2>4. r \in Unsettled /\ Unsettled' = Unsettled \ {r}
      BY <2>2, <2>3, HandledSettles
    <2>5. Abs!Settle(r, "refused")
      BY <1>2, <1>5, <2>1, <2>4, Settles
    <2>6. Abs!Change(r, cmd)
      BY <1>1, <1>3, <1>5, <2>5 DEF Abs!Change
    <2> QED
      BY <1>1, <1>3, <2>4, <2>6, Effects DEF Abs!Next
  <1> QED
    BY <1>1, <1>3, <1>4, <1>5

LEMMA WriteRefines ==
  ASSUME IInv, IInv', NEW a \in DOMAIN actors, ChangePasswordWrite(a)
  PROVE  Abs!Next
  <1>1. PICK r : r = actors[a].held.req
    OBVIOUS
  <1>2. PICK u : u = actors[a].uid
    OBVIOUS
  <1> DEFINE cmd == requests[r].cmd
  <1>3. TypeOK /\ actors[a].held # NotHeld
    BY DEF IInv, ChangePasswordWrite
  <1>4. /\ r \in DOMAIN requests /\ cmd.uid = u
        /\ cmd.kind = "change" /\ cmd.new \in Strong /\ users[u].password = cmd.old
    BY <1>1, <1>2, <1>3 DEF IInv, HeldIsCurrent, StillRight, OfSession
  <1>5. r \in Unsettled /\ Unsettled' = Unsettled \ {r}
    BY <1>1, WriteFacts, FinishedSettles
  <1>6. CASE users' = [users EXCEPT ![cmd.uid].password = cmd.new] /\ Reply(r, "ok")
    <2>1. Abs!Settle(r, "ok")
      BY <1>3, <1>5, <1>6, Settles DEF Outcome
    <2>2. Abs!Change(r, cmd)
      BY <1>4, <1>6, <2>1 DEF Abs!Change
    <2> QED
      BY <1>4, <1>5, <2>2, Effects DEF Abs!Next
  <1>7. CASE WriteFails(r)
    BY <1>3, <1>4, <1>5, <1>7, FailRefines
  <1> QED
    BY <1>1, <1>6, <1>7 DEF ChangePasswordWrite, SetPassword

LEMMA CrashRefines ==
  ASSUME IInv, IInv', Crash
  PROVE  Abs!Next
  <1>1. /\ DOMAIN requests' = DOMAIN requests
        /\ \A r \in DOMAIN requests : requests'[r].cmd = requests[r].cmd /\ requests'[r].outcome = requests[r].outcome
    BY CrashFacts DEF IInv, RequestsStay
  <1>2. manager' = {} /\ DOMAIN actors' = {} /\ users' = users
    BY DEF Crash
  <1>3. UnsettledIs'
    BY UnsettledHas, PTL
  <1>4. Unsettled' = {}
    BY <1>2, <1>3 DEF UnsettledIs
  <1> QED
    BY <1>1, <1>2, <1>4, AskedStays DEF Abs!Next, Abs!Forget, AskedOf

LEMMA QuietRefines ==
  ASSUME IInv, UNCHANGED vars \/ AskTimeout
  PROVE  UNCHANGED Abs!accountsVars
  <1>1. /\ DOMAIN requests' = DOMAIN requests
        /\ \A r \in DOMAIN requests : requests'[r].cmd = requests[r].cmd /\ requests'[r].outcome = requests[r].outcome
        /\ users' = users /\ manager' = manager /\ actors' = actors
    BY TimeoutFacts DEF IInv, RequestsStay, vars
  <1>2. Unsettled' = Unsettled
    BY <1>1 DEF Unsettled
  <1> QED
    BY <1>1, <1>2, AskedStays DEF Abs!accountsVars, AskedOf

(* Every command that is asked of the user domain takes effect at one moment,
   whole or not at all, and a password is replaced only by who knows it:
   what the actors do with their mailboxes, the registry, the two calls of
   the store of a password change and the end of the process implements
   module Accounts. *)
THEOREM Refinement == Spec => ImplementsAccounts
  <1>1. IInv /\ IInv' /\ [Next]_vars => [Abs!Next]_(Abs!accountsVars)
    <2> SUFFICES ASSUME IInv, IInv', [Next]_vars
                 PROVE  Abs!Next \/ UNCHANGED Abs!accountsVars
      OBVIOUS
    <2>1. CASE UNCHANGED vars \/ AskTimeout
      BY <2>1, QuietRefines
    <2>2. CASE Request
      BY <2>2, AskRefines
    <2>3. CASE ManagerReceive
      BY <2>3, ManagerRefines
    <2>4. CASE \E a \in DOMAIN actors : Session(a)
      BY <2>4, ReceiveRefines, ReadRefines, WriteRefines DEF Session
    <2>5. CASE Crash
      BY <2>5, CrashRefines
    <2> QED
      BY <2>1, <2>2, <2>3, <2>4, <2>5 DEF Next
  <1> QED
    BY Invariant, InitRefines, <1>1, PTL DEF Spec, ImplementsAccounts, Abs!Spec
=============================================================================
