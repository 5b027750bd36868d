-------------------------------- MODULE User --------------------------------
(***************************************************************************)
(* The user domain: one manager actor, one session actor per user created  *)
(* when it is first needed, and the table of users, of which no actor      *)
(* keeps a copy.  A session changes a password in two calls of the store,  *)
(* between which the manager goes on writing.  Callers wait for an answer  *)
(* at most askTimeout, some do not wait at all, and the process may end.   *)
(*                                                                         *)
(* Requests are numbered as they come into a mailbox; a mailbox is the set *)
(* of the numbers in it, and its oldest message the smallest of them (the  *)
(* order module Mailbox keeps).                                            *)
(***************************************************************************)
EXTENDS UserCommands, Sequences

CONSTANTS Stored,      \* the table an earlier run of the server has left
          Themes,      \* bound: sets of commands; one run asks commands of one set
          MaxRequests, \* bound: commands asked
          MaxCrashes   \* bound: ends of the process

Row == [name: Numeric, password: Strong, nick: Nicknames, seen: Times]

ASSUME UserAssumption ==
  /\ Stored \in Seq(Row) /\ DOMAIN Stored \subseteq UserIDs
  /\ \A u, v \in DOMAIN Stored : Stored[u].name = Stored[v].name => u = v
  /\ Themes \subseteq SUBSET Command
  /\ MaxRequests \in Nat
  /\ MaxCrashes \in Nat

VARIABLES
  users,    \* the table, the row with id n in place n
  requests, \* [cmd, caller, outcome], in the order they came into a mailbox
  manager,  \* mailbox of user-manager
  session,  \* the registered actor "session:<uid>", or 0
  actors,   \* session actors: [uid, box, held]
  crashes   \* ends of the process so far

vars == <<users, requests, manager, session, actors, crashes>>

\* What a session holds between its calls of the store: nothing, or a request
\* and the row it has read for it.
NotHeld == [req |-> 0]

Init ==
  /\ users = Stored
  /\ requests = <<>>
  /\ manager = {}
  /\ session = [u \in UserIDs |-> 0]
  /\ actors = <<>>
  /\ crashes = 0

-----------------------------------------------------------------------------
(* The store. *)

IDsOf(name) == {u \in DOMAIN users : users[u].name = name}

Authenticate(name, password) ==
  \E u \in IDsOf(name) : users[u].password = password

\* The row as it was read is saved with one column changed.
SavePassword(u, row, password) == users' = [users EXCEPT ![u] = [row EXCEPT !.password = password]]

\* An update of one column: the others stay what they are now.
SetPassword(u, row, password) == users' = [users EXCEPT ![u].password = password]

-----------------------------------------------------------------------------
(* Asking. *)

\* A caller that waits has a future.
Enlist(cmd, waits) ==
  requests' = Append(requests, [cmd |-> cmd, outcome |-> "none",
                                caller |-> IF waits THEN "waiting" ELSE "gone"])

AskManager(cmd, waits) ==
  /\ Enlist(cmd, waits)
  /\ manager' = manager \cup {Len(requests) + 1}
  /\ UNCHANGED <<users, session, actors, crashes>>

\* A session actor of its own for every request.
SpawnSession(u, box) ==
  /\ actors' = Append(actors, [uid |-> u, box |-> box, held |-> NotHeld])
  /\ session' = [session EXCEPT ![u] = Len(actors) + 1]

\* GetOrCreate of the session, and the messages put into its mailbox.
GetOrCreateSession(u, box) ==
  IF session[u] = 0
  THEN SpawnSession(u, box)
  ELSE /\ actors' = [actors EXCEPT ![session[u]].box = @ \cup box]
       /\ UNCHANGED session

\* AskSession, and TellSession of a WebSocket frame.
AskSession(cmd, waits) ==
  /\ Enlist(cmd, waits)
  /\ GetOrCreateSession(cmd.uid, {Len(requests) + 1})
  /\ UNCHANGED <<users, manager, crashes>>

\* Only a user who has logged in has a session, and a connection.
Known(cmd) == cmd.kind \in {"profile", "update", "change", "online"} => cmd.uid \in DOMAIN users

OverHTTP(cmd) ==
  \/ cmd \in ManagerCmd /\ cmd.kind # "online" /\ AskManager(cmd, TRUE)
  \/ cmd \in SessionCmd /\ AskSession(cmd, TRUE)

\* A frame that changes the user is acknowledged before it is handled.
OverWebSocket(cmd) ==
  \/ cmd \in ManagerCmd /\ cmd.kind \notin {"byname", "online"} /\ AskManager(cmd, TRUE)
  \/ cmd \in SessionCmd /\ AskSession(cmd, cmd.kind \notin Untold)

\* The event of a new connection.
ComesOnline(cmd) == cmd \in ManagerCmd /\ cmd.kind = "online" /\ AskManager(cmd, FALSE)

Request ==
  /\ Len(requests) < MaxRequests
  /\ \E t \in Themes :
       /\ \A r \in DOMAIN requests : requests[r].cmd \in t
       /\ \E cmd \in t :
            /\ Known(cmd)
            /\ OverHTTP(cmd) \/ OverWebSocket(cmd) \/ ComesOnline(cmd)

\* ctx.Reply: a caller that has gone does not hear it.
Reply(r, outcome) ==
  requests' = [requests EXCEPT ![r] =
                 [cmd |-> @.cmd, outcome |-> outcome,
                  caller |-> IF @.caller = "waiting" THEN "answered" ELSE @.caller]]

\* The future's timer.
AskTimeout ==
  \E r \in DOMAIN requests :
    /\ requests[r].caller = "waiting"
    /\ requests' = [requests EXCEPT ![r].caller = "gone"]
    /\ UNCHANGED <<users, manager, session, actors, crashes>>

\* r is the message a loop pulls next.
Oldest(r, box) == r \in box /\ \A q \in box : r <= q

\* SQLite refuses a write; the handler passes the error on.
WriteFails(r) ==
  /\ Reply(r, "failed")
  /\ UNCHANGED users

-----------------------------------------------------------------------------
(* The manager handles a command with one call of the store, and answers. *)

Register(r, cmd) ==
  \/ /\ CanRegister(cmd) /\ IDsOf(cmd.name) = {}
     /\ Len(users) + 1 \in UserIDs
     /\ \E now \in Times : users' = Append(users, NewUser(cmd, now))
     /\ Reply(r, "ok")
  \/ /\ ~(CanRegister(cmd) /\ IDsOf(cmd.name) = {})
     /\ Reply(r, "refused")
     /\ UNCHANGED users
  \/ WriteFails(r)

\* A login leaves an idle session behind.
Login(r, cmd) ==
  IF Authenticate(cmd.name, cmd.password)
  THEN /\ Reply(r, "ok")
       /\ \E u \in IDsOf(cmd.name) : GetOrCreateSession(u, {})
  ELSE Reply(r, "refused") /\ UNCHANGED <<session, actors>>

\* The row found, for whose data the nickname stands.
Answer(r, found) ==
  /\ \/ \E u \in found : Reply(r, users[u].nick)
     \/ found = {} /\ Reply(r, "refused")
  /\ UNCHANGED users

UpdateLastOnline(r, cmd) ==
  \/ /\ users' = [users EXCEPT ![cmd.uid].seen = cmd.at]
     /\ Reply(r, "ok")
  \/ WriteFails(r)

ManagerReceive ==
  \E r \in manager :
    /\ Oldest(r, manager)
    /\ manager' = manager \ {r}
    /\ LET cmd == requests[r].cmd
       IN \/ cmd.kind = "login" /\ Login(r, cmd) /\ UNCHANGED users
          \/ /\ \/ cmd.kind = "register" /\ Register(r, cmd)
                \/ cmd.kind = "get" /\ Answer(r, DOMAIN users \cap {cmd.uid})
                \/ cmd.kind = "byname" /\ Answer(r, IDsOf(cmd.name))
                \/ cmd.kind = "online" /\ UpdateLastOnline(r, cmd)
             /\ UNCHANGED <<session, actors>>
    /\ UNCHANGED crashes

-----------------------------------------------------------------------------
(* A session handles one command after the other. *)

\* Actor a pulls request r and keeps held for its next call of the store.
Pulls(a, r, held) ==
  /\ actors[a].held = NotHeld
  /\ Oldest(r, actors[a].box)
  /\ actors' = [actors EXCEPT ![a] = [uid |-> @.uid, box |-> @.box \ {r}, held |-> held]]
  /\ UNCHANGED <<manager, session, crashes>>

Profile(r, cmd) == Answer(r, DOMAIN users \cap {cmd.uid})

\* The columns that are not empty are written.
UpdateProfile(r, cmd) ==
  \/ /\ users' = [users EXCEPT ![cmd.uid].nick = UpdatedNick(cmd, @)]
     /\ Reply(r, "ok")
  \/ WriteFails(r)

SessionReceive(a) ==
  \E r \in actors[a].box :
    /\ Pulls(a, r, NotHeld)
    /\ LET cmd == requests[r].cmd
       IN \/ cmd.kind = "profile" /\ Profile(r, cmd)
          \/ cmd.kind = "update" /\ UpdateProfile(r, cmd)

\* A refusal the handler does not answer with.
RefuseSilently(r) == requests' = [requests EXCEPT ![r].outcome = "refused"]

RefuseChange(r) == Reply(r, "refused")

\* handleChangePassword up to its second call of the store: the old password
\* and the new one are tested on the row the first has read.
ChangePasswordRead(a) ==
  \E r \in actors[a].box :
    LET cmd == requests[r].cmd
        row == users[cmd.uid]
    IN /\ cmd.kind = "change"
       /\ \/ /\ row.password = cmd.old /\ cmd.new \in Strong
             /\ Pulls(a, r, [req |-> r, row |-> row])
             /\ UNCHANGED requests
          \/ /\ ~(row.password = cmd.old /\ cmd.new \in Strong)
             /\ Pulls(a, r, NotHeld)
             /\ RefuseChange(r)
       /\ UNCHANGED users

ChangePasswordWrite(a) ==
  /\ actors[a].held # NotHeld
  /\ LET r == actors[a].held.req
         cmd == requests[r].cmd
     IN \/ SetPassword(cmd.uid, actors[a].held.row, cmd.new) /\ Reply(r, "ok")
        \/ WriteFails(r)
  /\ actors' = [actors EXCEPT ![a].held = NotHeld]
  /\ UNCHANGED <<manager, session, crashes>>

Session(a) == SessionReceive(a) \/ ChangePasswordRead(a) \/ ChangePasswordWrite(a)

-----------------------------------------------------------------------------
\* The process ends and starts again: mailboxes and sessions are gone.
Crash ==
  /\ crashes < MaxCrashes
  /\ crashes' = crashes + 1
  /\ manager' = {}
  /\ actors' = <<>>
  /\ session' = [u \in UserIDs |-> 0]
  /\ requests' = [r \in DOMAIN requests |->
                    [requests[r] EXCEPT !.caller = IF @ = "waiting" THEN "gone" ELSE @]]
  /\ UNCHANGED users

Next ==
  \/ Request
  \/ AskTimeout
  \/ ManagerReceive
  \/ \E a \in DOMAIN actors : Session(a)
  \/ Crash

\* The dispatcher runs every actor that has something to do; nothing is asked
\* of callers and timers.
Fairness ==
  /\ WF_vars(ManagerReceive)
  /\ \A a \in 1..MaxRequests : WF_vars(a \in DOMAIN actors /\ Session(a))

Spec == Init /\ [][Next]_vars /\ Fairness

-----------------------------------------------------------------------------
Outcome == {"none", "ok", "refused", "failed"} \cup Nicknames

RequestRecord == [cmd: Command, caller: {"waiting", "answered", "gone"}, outcome: Outcome]
HeldRecord == {NotHeld} \cup [req: DOMAIN requests, row: Row]
ActorRecord == [uid: UserIDs, box: SUBSET DOMAIN requests, held: HeldRecord]

TypeOK ==
  /\ users \in Seq(Row) /\ DOMAIN users \subseteq UserIDs
  /\ requests \in Seq(RequestRecord)
  /\ manager \subseteq DOMAIN requests
  /\ session \in [UserIDs -> 0..Len(actors)]
  /\ actors \in Seq(ActorRecord)
  /\ crashes \in 0..MaxCrashes

\* Request r has given user u a nickname.
Written(r, u) ==
  /\ requests[r].cmd.kind = "update" /\ requests[r].cmd.uid = u
  /\ requests[r].cmd.nick # NoName
  /\ requests[r].outcome = "ok"

(* The nickname of a user is the one asked for last of those written,
   though updates come from several devices, some are told and some asked,
   and callers that have given up waiting ask again: a late update never
   hides a later one (GetOrCreateSession, UpdateProfile). *)
LatestUpdateStands ==
  \A u \in DOMAIN users : \A r \in DOMAIN requests :
    Written(r, u) /\ (\A q \in DOMAIN requests : Written(q, u) => q <= r)
      => users[u].nick = requests[r].cmd.nick

(* Whoever waits gets an answer, or gives up: a refusal is an answer too,
   and no command keeps later ones of its user waiting for ever
   (handleChangePassword, handleRegister). *)
CallersAnswered ==
  \A r \in 1..MaxRequests :
    (r \in DOMAIN requests /\ requests[r].caller = "waiting")
      ~> (r \in DOMAIN requests /\ requests[r].caller # "waiting")

\* What may still take effect.
Unsettled ==
  {r \in DOMAIN requests :
     r \in manager \/ \E a \in DOMAIN actors : r \in actors[a].box \/ r = actors[a].held.req}

Abs == INSTANCE Accounts WITH
         accounts <- users,
         asked <- [r \in DOMAIN requests |->
                     [cmd |-> requests[r].cmd, outcome |-> requests[r].outcome]],
         open <- Unsettled

(* The commands implement the promise of module Accounts: each takes effect
   at one moment, and a password is changed only by one who knows it, while
   two devices change it at once, the manager writes the time of a new
   connection into the same row, callers give up and the process ends. *)
ImplementsAccounts == Abs!Spec
=============================================================================
