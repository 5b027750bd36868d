------------------------------- MODULE MCUser -------------------------------
(* A small instance of User for TLC. *)
EXTENDS User, TLC

CONSTANTS n1, n2, odd, p1, p2, weak, a1, a2

ThreeNames == {n1, n2, odd}
DigitsOnly == {n1, n2}
ThreePasswords == {p1, p2, weak}
StrongOnes == {p1, p2}
TwoNicks == {a1, a2}
TwoIDs == {1, 2}
TwoTimes == {1, 2}

\* One user has registered before.
OneUser == <<[name |-> n1, password |-> p1, nick |-> a1, seen |-> 1]>>

Connected == [kind |-> "online", uid |-> 1, at |-> 2]
LogIn(p) == [kind |-> "login", name |-> n1, password |-> p]
Change(p, q) == [kind |-> "change", uid |-> 1, old |-> p, new |-> q]
Update(a) == [kind |-> "update", uid |-> 1, nick |-> a]
NewAccount(n, p, a) == [kind |-> "register", name |-> n, password |-> p, nick |-> a]

\* The password, the profile, and a new user.
ThreeThemes ==
  { {Change(p1, p2), Change(p2, p1), Change(p1, weak), LogIn(p1), LogIn(p2), Connected},
    {Update(a1), Update(a2), Update(NoName), Change(p1, p2), Connected,
     [kind |-> "profile", uid |-> 1], [kind |-> "byname", name |-> n1]},
    {NewAccount(n2, p1, a1), NewAccount(n2, p2, a2), NewAccount(n2, weak, a1), NewAccount(odd, p1, a1),
     [kind |-> "login", name |-> n2, password |-> p1], [kind |-> "get", uid |-> 2],
     [kind |-> "update", uid |-> 2, nick |-> a1]} }
=============================================================================
