---------------------------- MODULE UserCommands ----------------------------
(***************************************************************************)
(* What may be asked of the user domain, over HTTP or over a WebSocket,    *)
(* and the rules a name, a password and a profile obey.                    *)
(***************************************************************************)
EXTENDS Naturals

CONSTANTS Names,     \* user names that are asked for
          Numeric,   \* those of digits only
          Passwords,
          Strong,    \* those long and varied enough
          Nicknames,
          NoName,    \* the nickname left empty
          UserIDs,   \* bound: ids there can be
          Times      \* clock readings

ASSUME UserCommandsAssumption ==
  /\ Numeric \subseteq Names
  /\ Strong \subseteq Passwords
  /\ NoName \notin Nicknames
  /\ UserIDs \subseteq Nat
  /\ Times \subseteq Nat

\* For the manager: who has no account, or does not ask about his own.
ManagerCmd ==
  [kind: {"register"}, name: Names, password: Passwords, nick: Nicknames]
    \cup [kind: {"login"}, name: Names, password: Passwords]
    \cup [kind: {"get"}, uid: UserIDs]
    \cup [kind: {"byname"}, name: Names]
    \cup [kind: {"online"}, uid: UserIDs, at: Times]

\* For the session of user uid.
SessionCmd ==
  [kind: {"profile"}, uid: UserIDs]
    \cup [kind: {"update"}, uid: UserIDs, nick: Nicknames \cup {NoName}]
    \cup [kind: {"change"}, uid: UserIDs, old: Passwords, new: Passwords]

Command == ManagerCmd \cup SessionCmd

\* A WebSocket frame tells these to the session: nobody waits for the outcome.
Untold == {"update", "change"}

\* A new account: the row a registration inserts.
NewUser(cmd, now) ==
  [name |-> cmd.name, password |-> cmd.password, nick |-> cmd.nick, seen |-> now]

CanRegister(cmd) == cmd.name \in Numeric /\ cmd.password \in Strong

\* The nickname after an update: an empty one is not written.
UpdatedNick(cmd, nick) == IF cmd.nick = NoName THEN nick ELSE cmd.nick
=============================================================================
