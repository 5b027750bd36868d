------------------------------ MODULE Accounts ------------------------------
(***************************************************************************)
(* What the user domain promises, whatever actors, mailboxes and database  *)
(* calls carry it out: every command takes effect at one moment after it   *)
(* is asked and before its outcome is known, whole or not at all; as long  *)
(* as the outcome is not known it may still take effect, or never.  A      *)
(* password is replaced only by one who knows the password it replaces.    *)
(***************************************************************************)
EXTENDS UserCommands, Sequences

VARIABLES
  accounts, \* rows [name, password, nick, seen], the user with id n in place n
  asked,    \* every command with its outcome, in the order they were asked
  open      \* the numbers of those that may still take effect

accountsVars == <<accounts, asked, open>>

Account == [name: Numeric, password: Strong, nick: Nicknames, seen: Times]
Outcome == {"none", "ok", "refused", "failed"} \cup Nicknames

Init ==
  /\ accounts \in Seq(Account)
  /\ asked = <<>>
  /\ open = {}

Ask(cmd) ==
  /\ asked' = Append(asked, [cmd |-> cmd, outcome |-> "none"])
  /\ open' = open \cup {Len(asked) + 1}
  /\ UNCHANGED accounts

Settle(c, outcome) ==
  /\ asked' = [asked EXCEPT ![c].outcome = outcome]
  /\ open' = open \ {c}

Owns(uid, name) == uid \in DOMAIN accounts /\ accounts[uid].name = name

Register(c, cmd) ==
  IF CanRegister(cmd) /\ \A u \in DOMAIN accounts : ~Owns(u, cmd.name)
  THEN /\ Settle(c, "ok")
       /\ \E now \in Times : accounts' = Append(accounts, NewUser(cmd, now))
  ELSE Settle(c, "refused") /\ UNCHANGED accounts

Login(c, cmd) ==
  /\ UNCHANGED accounts
  /\ IF \E u \in DOMAIN accounts : Owns(u, cmd.name) /\ accounts[u].password = cmd.password
     THEN Settle(c, "ok") ELSE Settle(c, "refused")

\* The nickname stands for all that is read of a user.
Read(c, meant) ==
  /\ UNCHANGED accounts
  /\ \/ \E u \in meant : Settle(c, accounts[u].nick)
     \/ meant = {} /\ Settle(c, "refused")

Update(c, cmd) ==
  /\ accounts' = [accounts EXCEPT ![cmd.uid].nick = UpdatedNick(cmd, @)]
  /\ Settle(c, "ok")

\* Compare and swap.
Change(c, cmd) ==
  IF accounts[cmd.uid].password = cmd.old /\ cmd.new \in Strong
  THEN /\ accounts' = [accounts EXCEPT ![cmd.uid].password = cmd.new]
       /\ Settle(c, "ok")
  ELSE Settle(c, "refused") /\ UNCHANGED accounts

Online(c, cmd) ==
  /\ accounts' = [accounts EXCEPT ![cmd.uid].seen = cmd.at]
  /\ Settle(c, "ok")

TakeEffect(c) ==
  LET cmd == asked[c].cmd
  IN CASE cmd.kind = "register" -> Register(c, cmd)
       [] cmd.kind = "login" -> Login(c, cmd)
       [] cmd.kind \in {"get", "profile"} -> Read(c, DOMAIN accounts \cap {cmd.uid})
       [] cmd.kind = "byname" -> Read(c, {u \in DOMAIN accounts : Owns(u, cmd.name)})
       [] cmd.kind = "update" -> Update(c, cmd)
       [] cmd.kind = "change" -> Change(c, cmd)
       [] cmd.kind = "online" -> Online(c, cmd)

\* A write the database refuses changes nothing.
Fail(c) ==
  /\ asked[c].cmd.kind \in {"register", "update", "change", "online"}
  /\ Settle(c, "failed")
  /\ UNCHANGED accounts

\* The process ends: what has not taken effect never will.
Forget ==
  /\ open' = {}
  /\ UNCHANGED <<accounts, asked>>

Next ==
  \/ \E cmd \in Command : Ask(cmd)
  \/ \E c \in open : TakeEffect(c) \/ Fail(c)
  \/ Forget

Spec == Init /\ [][Next]_accountsVars
=============================================================================
