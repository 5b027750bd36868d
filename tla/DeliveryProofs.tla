--------------------------- MODULE DeliveryProofs ---------------------------
(***************************************************************************)
(* Theorems about Delivery, for any users, connections, friends, sizes of  *)
(* mailbox and bounds.                                                     *)
(***************************************************************************)
EXTENDS Delivery, FiniteSetTheorems, SequenceTheorems, TLAPS

-----------------------------------------------------------------------------
(* Queues. *)

LEMMA AppendFacts ==
  ASSUME NEW S, NEW s \in Seq(S), NEW x \in S
  PROVE  /\ Append(s, x) \in Seq(S) /\ Append(s, x) # <<>>
         /\ Len(s) \in Nat /\ DOMAIN s = 1..Len(s)
         /\ DOMAIN Append(s, x) = 1..(Len(s) + 1)
         /\ \A i \in 1..Len(s) : Append(s, x)[i] = s[i]
         /\ Append(s, x)[Len(s) + 1] = x
  OBVIOUS

LEMMA TailFacts ==
  ASSUME NEW S, NEW s \in Seq(S), s # <<>>
  PROVE  /\ Tail(s) \in Seq(S) /\ Head(s) \in S /\ Head(s) = s[1]
         /\ Len(s) \in Nat /\ Len(s) >= 1 /\ DOMAIN s = 1..Len(s)
         /\ DOMAIN Tail(s) = 1..(Len(s) - 1)
         /\ \A i \in 1..(Len(s) - 1) : Tail(s)[i] = s[i + 1]
  OBVIOUS

LEMMA ConcatFacts ==
  ASSUME NEW S, NEW s \in Seq(S), NEW t \in Seq(S)
  PROVE  /\ s \o t \in Seq(S)
         /\ Len(s) \in Nat /\ Len(t) \in Nat /\ DOMAIN s = 1..Len(s) /\ DOMAIN t = 1..Len(t)
         /\ DOMAIN (s \o t) = 1..(Len(s) + Len(t))
         /\ \A i \in 1..Len(s) : (s \o t)[i] = s[i]
         /\ \A i \in 1..Len(t) : (s \o t)[Len(s) + i] = t[i]
  OBVIOUS

LEMMA MapIsSeq ==
  ASSUME NEW S, NEW n \in Nat, NEW f, f \in [1..n -> S]
  PROVE  f \in Seq(S) /\ Len(f) = n
  OBVIOUS

LEMMA ConcatShort ==
  ASSUME NEW x, NEW y
  PROVE  <<x>> \o <<>> = <<x>> /\ <<>> \o <<x>> = <<x>> /\ <<x>> \o <<y>> = <<x, y>>
  <1>1. <<x>> \in Seq({x, y}) /\ <<y>> \in Seq({x, y}) /\ <<x, y>> \in Seq({x, y})
    OBVIOUS
  <1>2. <<x>> \o <<>> = <<x>> /\ <<>> \o <<x>> = <<x>>
    BY <1>1, ConcatEmptySeq
  <1>3. /\ <<x>> \o <<y>> \in Seq({x, y}) /\ Len(<<x>> \o <<y>>) = 2
        /\ (<<x>> \o <<y>>)[1] = x /\ (<<x>> \o <<y>>)[2] = y
    BY <1>1
  <1>4. <<x>> \o <<y>> = <<x, y>>
    <2> DEFINE s == <<x>> \o <<y>>
               t == <<x, y>>
    <2>1. s \in Seq({x, y}) /\ t \in Seq({x, y}) /\ Len(s) = 2 /\ Len(t) = 2
      BY <1>1, <1>3
    <2>2. s[1] = t[1] /\ s[2] = t[2]
      BY <1>3
    <2> HIDE DEF s, t
    <2>3. Len(s) = Len(t) /\ \A i \in 1..Len(s) : s[i] = t[i]
      BY <2>1, <2>2
    <2>4. s = t
      BY <2>1, <2>3, SeqEqual
    <2> QED
      BY <2>4 DEF s, t
  <1> QED
    BY <1>2, <1>4

\* A map over one of the Orders of a set.
LEMMA OrdersFacts ==
  ASSUME NEW S, IsFiniteSet(S), NEW s \in Orders(S)
  PROVE  /\ Cardinality(S) \in Nat /\ DOMAIN s = 1..Cardinality(S)
         /\ \A i \in DOMAIN s : s[i] \in S
         /\ \A x \in S : \E i \in DOMAIN s : s[i] = x
  <1>1. Cardinality(S) \in Nat
    BY FS_CardinalityType
  <1>2. s \in Injection(1..Cardinality(S), S)
    BY DEF Orders, Injection, IsInjective
  <1>3. Cardinality(1..Cardinality(S)) = Cardinality(S)
    BY <1>1, FS_Interval
  <1>4. s \in Surjection(1..Cardinality(S), S)
    BY <1>2, <1>3, FS_Injection
  <1> QED
    BY <1>1, <1>2, <1>4 DEF Injection, Surjection

-----------------------------------------------------------------------------
(* Who is told what, and which calls each actor makes. *)

FriendNews == [ev: {"online", "offline"}, user: Users]
Heard == FriendNews \cup [ev: {"message"}, n: Nat]

\* What a device of u may be pushed: messages, and news of friends.
DataFor(u) == {e \in Heard : e \in FriendNews => e.user \in Friends[u]}

MailOf(a) ==
  CASE a = "presence" -> Message
    [] a = "bus"      -> Heard \cup [ev: {"login"}, user: Users]
    [] a = "push"     -> Heard
    [] OTHER          -> [m: {"closed", "pill"}] \cup [m: {"request"}, type: {"presence", "msg"}]
                           \cup [m: {"push"}, data: DataFor(OwnerOf[a])]

Connected(g) == Tell("presence", [m |-> "connected", gate |-> g])
Login(g) == Publish(Event("login", OwnerOf[g]))
Pill(g) == Tell(g, [m |-> "pill"])
Asks(g) == [do |-> "batch", user |-> OwnerOf[g]]
Gone(g) == Tell("presence", [m |-> "disconnected", gate |-> g])
Done == [do |-> "done"]

PushTells == {Tell(p[1], [m |-> "push", data |-> p[2]]) :
                p \in {q \in Gateways \X Heard : q[2] \in DataFor(OwnerOf[q[1]])}}
PushAsks == {[do |-> "gateways", user |-> p[1], data |-> p[2]] :
               p \in {q \in Users \X Heard : q[2] \in DataFor(q[1])}}

CallsOf(a) ==
  CASE a = "presence" -> [do: {"watch", "unwatch"}, gate: Gateways] \cup {Publish(e) : e \in FriendNews}
    [] a = "bus"      -> {Tell("push", e) : e \in Heard}
    [] a = "push"     -> PushTells \cup PushAsks \cup [do: {"batch"}, user: Users]
    [] OTHER          -> {Connected(a), Login(a), Pill(a), Asks(a), Gone(a), Done}

\* A gateway's calls follow its life.
GatewayInv(g) ==
  /\ life[g] = "new" => reader[g] = "off" /\ todo[g] = <<>>
  /\ life[g] = "up" /\ reader[g] = "off"
       => todo[g] \in {<<Connected(g)>>, <<Connected(g), Login(g)>>, <<Login(g)>>}
  /\ life[g] = "up" /\ reader[g] # "off" => todo[g] \in {<<>>, <<Pill(g)>>, <<Asks(g)>>}
  /\ life[g] = "ending" => todo[g] \in {<<Gone(g), Done>>, <<Done>>} /\ reader[g] # "off"
  /\ life[g] = "done" => todo[g] = <<>> /\ reader[g] # "off"

BoxInv == /\ box = [a \in Actors |-> box[a]]
          /\ \A a \in Actors : box[a] \in Seq(MailOf(a))

TodoInv == /\ todo = [a \in Actors |-> todo[a]]
           /\ \A a \in Actors : todo[a] \in Seq(CallsOf(a))

MapType ==
  /\ online \subseteq Users
  /\ gateways \in [Users -> SUBSET Gateways]
  /\ \A u \in Users : \A g \in gateways[u] : OwnerOf[g] = u
  /\ gatewayUID \in [Gateways -> Users \cup {None}]
  /\ \A g \in Gateways : gatewayUID[g] \in {OwnerOf[g], None}
  /\ monitor \in [Gateways -> {"none", "wait", "tell"}]
  /\ changes \in [Users -> Nat]

LifeType ==
  /\ life \in [Gateways -> {"new", "up", "ending", "done"}]
  /\ reader \in [Gateways -> {"off", "hello", "reading", "gone"}]
  /\ idled \subseteq Gateways
  /\ view \in [Gateways -> SUBSET Users]
  /\ \A g \in Gateways : view[g] \subseteq Friends[OwnerOf[g]]
  /\ asked \subseteq Gateways
  /\ \A g \in Gateways : GatewayInv(g)

QueryAt(i, a) == box["presence"][i] = [m |-> "query", by |-> a]

\* An asker's message is in presence's mailbox once, and nobody else's.
AskInv ==
  /\ asking \subseteq Actors
  /\ \A a \in asking : todo[a] # <<>> /\ Call(a).do \in {"gateways", "batch"}
  /\ \A i \in DOMAIN box["presence"] : \A a \in Actors :
       QueryAt(i, a) => a \in asking /\ \A j \in DOMAIN box["presence"] : QueryAt(j, a) => j = i

RestType ==
  /\ news \in [taken: Nat, published: Nat]
  /\ gaveUp \in BOOLEAN
  /\ story \in Stories

TypeInv == BoxInv /\ TodoInv /\ MapType /\ LifeType /\ AskInv /\ RestType

-----------------------------------------------------------------------------
(* Kinds of actors and of calls. *)

LEMMA Names ==
  /\ {"presence", "bus", "push"} \subseteq Actors /\ Gateways \subseteq Actors
  /\ \A a \in Actors : a \in Gateways <=> a \notin {"presence", "bus", "push"}
  /\ None \notin Actors /\ None \notin Users
  BY DeliveryAssumption DEF Actors

LEMMA Mails ==
  /\ MailOf("presence") = Message
  /\ MailOf("bus") = Heard \cup [ev: {"login"}, user: Users]
  /\ MailOf("push") = Heard
  /\ \A g \in Gateways : MailOf(g) = [m: {"closed", "pill"}] \cup [m: {"request"}, type: {"presence", "msg"}]
                                       \cup [m: {"push"}, data: DataFor(OwnerOf[g])]
  BY DeliveryAssumption DEF MailOf

LEMMA CallKinds ==
  /\ CallsOf("presence") = [do: {"watch", "unwatch"}, gate: Gateways] \cup {Publish(e) : e \in FriendNews}
  /\ CallsOf("bus") = {Tell("push", e) : e \in Heard}
  /\ CallsOf("push") = PushTells \cup PushAsks \cup [do: {"batch"}, user: Users]
  /\ \A g \in Gateways : CallsOf(g) = {Connected(g), Login(g), Pill(g), Asks(g), Gone(g), Done}
  BY DeliveryAssumption DEF CallsOf

\* The calls, one kind after the other.
LEMMA PresenceCalls ==
  ASSUME NEW c \in CallsOf("presence")
  PROVE  \/ c.do \in {"watch", "unwatch"} /\ c.gate \in Gateways
         \/ c.do = "tell" /\ c.to = "bus" /\ \E e \in FriendNews : c.msg = e /\ c = Publish(e)
  BY CallKinds DEF Publish, Tell

LEMMA BusCalls ==
  ASSUME NEW c \in CallsOf("bus")
  PROVE  c.do = "tell" /\ c.to = "push" /\ c.msg \in Heard /\ c = Tell("push", c.msg)
  BY CallKinds DEF Tell

LEMMA PushCalls ==
  ASSUME NEW c \in CallsOf("push")
  PROVE  \/ /\ c.do = "tell" /\ c.to \in Gateways
            /\ \E e \in DataFor(OwnerOf[c.to]) : c.msg = [m |-> "push", data |-> e]
         \/ c.do = "gateways" /\ c.user \in Users /\ c.data \in DataFor(c.user)
         \/ c.do = "batch" /\ c.user \in Users
  <1>1. CASE c \in PushTells
    BY <1>1 DEF PushTells, Tell
  <1>2. CASE c \in PushAsks
    BY <1>2 DEF PushAsks
  <1>3. CASE c \in [do: {"batch"}, user: Users]
    BY <1>3
  <1> QED
    BY <1>1, <1>2, <1>3, CallKinds

LEMMA GatewayCallKinds ==
  ASSUME NEW g \in Gateways, NEW c \in CallsOf(g)
  PROVE  \/ c.do = "tell" /\ c.to = "presence" /\ c.msg \in {[m |-> "connected", gate |-> g],
                                                             [m |-> "disconnected", gate |-> g]}
         \/ c.do = "tell" /\ c.to = "bus" /\ c.msg = Event("login", OwnerOf[g])
         \/ c.do = "tell" /\ c.to = g /\ c.msg = [m |-> "pill"]
         \/ c.do = "batch" /\ c.user = OwnerOf[g]
         \/ c.do = "done"
  BY CallKinds DEF Connected, Login, Pill, Asks, Gone, Done, Publish, Tell

LEMMA HeardFacts ==
  /\ \A u \in Users : DataFor(u) \subseteq Heard
  /\ \A e \in FriendNews : e.ev \in {"online", "offline"} /\ e.user \in Users /\ e = Event(e.ev, e.user)
  /\ \A e \in Heard : e \in FriendNews \/ e.ev = "message"
  /\ \A e \in Heard : e \in FriendNews <=> e.ev # "message"
  BY DEF DataFor, Heard, FriendNews, Event

LEMMA TellCalls ==
  ASSUME NEW a \in Actors, NEW c \in CallsOf(a), c.do = "tell"
  PROVE  c.to \in Actors /\ c.msg \in MailOf(c.to)
  <1>1. CASE a = "presence"
    <2>1. c.to = "bus" /\ c.msg \in FriendNews
      BY <1>1, PresenceCalls
    <2> QED
      BY <2>1, Mails, Names DEF Heard
  <1>2. CASE a = "bus"
    BY <1>2, BusCalls, Mails, Names
  <1>3. CASE a = "push"
    <2>1. c.to \in Gateways /\ \E e \in DataFor(OwnerOf[c.to]) : c.msg = [m |-> "push", data |-> e]
      BY <1>3, PushCalls
    <2> QED
      BY <2>1, Mails, Names
  <1>4. CASE a \in Gateways
    <2>1. CASE c.to = "presence" /\ c.msg \in {[m |-> "connected", gate |-> a], [m |-> "disconnected", gate |-> a]}
      BY <1>4, <2>1, Mails, Names DEF Message
    <2>2. CASE c.to = "bus" /\ c.msg = Event("login", OwnerOf[a])
      BY <1>4, <2>2, Mails, Names, DeliveryAssumption DEF Event
    <2>3. CASE c.to = a /\ c.msg = [m |-> "pill"]
      BY <1>4, <2>3, Mails, Names
    <2> QED
      BY <1>4, <2>1, <2>2, <2>3, GatewayCallKinds
  <1> QED
    BY <1>1, <1>2, <1>3, <1>4, Names

LEMMA AskCalls ==
  ASSUME NEW a \in Actors, NEW c \in CallsOf(a), c.do \in {"gateways", "batch"}
  PROVE  /\ c.user \in Users
         /\ c.do = "gateways" => a = "push" /\ c.data \in DataFor(c.user)
         /\ a = "push" \/ (a \in Gateways /\ c.user = OwnerOf[a])
  <1>1. CASE a = "presence"
    BY <1>1, PresenceCalls
  <1>2. CASE a = "bus"
    BY <1>2, BusCalls
  <1>3. CASE a = "push"
    BY <1>3, PushCalls
  <1>4. CASE a \in Gateways
    BY <1>4, GatewayCallKinds, DeliveryAssumption
  <1> QED
    BY <1>1, <1>2, <1>3, <1>4, Names

LEMMA WatchCalls ==
  ASSUME NEW a \in Actors, NEW c \in CallsOf(a)
  PROVE  /\ c.do \in {"watch", "unwatch"} => a = "presence" /\ c.gate \in Gateways
         /\ c.do = "done" => a \in Gateways
  <1>1. CASE a = "presence"
    BY <1>1, PresenceCalls
  <1>2. CASE a = "bus"
    BY <1>2, BusCalls
  <1>3. CASE a = "push"
    BY <1>3, PushCalls
  <1>4. CASE a \in Gateways
    BY <1>4, GatewayCallKinds
  <1> QED
    BY <1>1, <1>2, <1>3, <1>4, Names

\* The first call of an actor that has one.
LEMMA FirstCall ==
  ASSUME TodoInv, NEW a \in Actors, todo[a] # <<>>
  PROVE  Call(a) \in CallsOf(a) /\ Call(a) = todo[a][1]
  BY TailFacts DEF TodoInv, Call

-----------------------------------------------------------------------------
(* What becomes of a mailbox. *)

LEMMA DeliverBox ==
  ASSUME BoxInv, NEW a \in Actors, NEW m \in MailOf(a), Deliver(a, m)
  PROVE  /\ BoxInv'
         /\ box' = box \/ (Open(a) /\ box' = [box EXCEPT ![a] = Append(box[a], m)])
  <1>1. CASE box' = box
    BY <1>1 DEF BoxInv
  <1>2. CASE Open(a) /\ box' = [box EXCEPT ![a] = Append(box[a], m)]
    <2>1. Append(box[a], m) \in Seq(MailOf(a))
      BY AppendFacts DEF BoxInv
    <2> QED
      BY <1>2, <2>1 DEF BoxInv
  <1> QED
    BY <1>1, <1>2 DEF Deliver

LEMMA PullBox ==
  ASSUME BoxInv, NEW a \in Actors, box[a] # <<>>, Pulled(a)
  PROVE  BoxInv' /\ Head(box[a]) \in MailOf(a)
  <1>1. Tail(box[a]) \in Seq(MailOf(a)) /\ Head(box[a]) \in MailOf(a)
    BY TailFacts DEF BoxInv
  <1> QED
    BY <1>1 DEF BoxInv, Pulled

LEMMA MadeTodo ==
  ASSUME TodoInv, NEW a \in Actors, todo[a] # <<>>, Made(a)
  PROVE  TodoInv'
  <1>1. Tail(todo[a]) \in Seq(CallsOf(a))
    BY TailFacts DEF TodoInv
  <1> QED
    BY <1>1 DEF TodoInv, Made

LEMMA NewTodo ==
  ASSUME TodoInv, NEW a \in Actors, NEW calls \in Seq(CallsOf(a)), todo' = [todo EXCEPT ![a] = calls]
  PROVE  TodoInv'
  BY DEF TodoInv

LEMMA TimeoutBox ==
  ASSUME BoxInv, NEW a \in Actors, Timeout(a)
  PROVE  /\ BoxInv'
         /\ \A b \in Actors \ {"presence"} : box'[b] = box[b]
         /\ DOMAIN box'["presence"] = DOMAIN box["presence"]
         /\ \A i \in DOMAIN box["presence"] :
              box'["presence"][i] = IF box["presence"][i] = [m |-> "query", by |-> a]
                                    THEN [m |-> "query", by |-> None] ELSE box["presence"][i]
  <1> DEFINE p == box["presence"]
             q == [i \in DOMAIN p |-> IF p[i] = [m |-> "query", by |-> a]
                                      THEN [m |-> "query", by |-> None] ELSE p[i]]
  <1>1. box' = [box EXCEPT !["presence"] = q]
    BY DEF Timeout
  <1>2. p \in Seq(Message) /\ Len(p) \in Nat /\ DOMAIN p = 1..Len(p)
    BY Names, Mails DEF BoxInv
  <1>3. [m |-> "query", by |-> None] \in Message
    BY DEF Message
  <1>4. \A i \in 1..Len(p) : q[i] \in Message
    BY <1>2, <1>3
  <1>5. q \in Seq(Message)
    BY <1>2, <1>4, MapIsSeq
  <1>6. q = box'["presence"] /\ \A b \in Actors \ {"presence"} : box'[b] = box[b]
    BY <1>1, Names DEF BoxInv
  <1>7. box' = [b \in Actors |-> box'[b]]
    BY <1>1, Names DEF BoxInv
  <1> QED
    BY <1>5, <1>6, <1>7, Mails DEF BoxInv

LEMMA StepCases ==
  ASSUME [Next]_vars
  PROVE  \/ UNCHANGED vars
         \/ \E a \in Actors : MakeCall(a) \/ Timeout(a)
         \/ Presence \/ Query \/ Bus \/ Push \/ Published
         \/ \E g \in Gateways : Gateway(g) \/ Monitor(g) \/ OnStart(g) \/ Client(g)
  BY DEF Next, Server, Step

\* Which message a gateway's step, or that of its client, adds or takes.
LEMMA NoticeType ==
  ASSUME NEW g \in Gateways
  PROVE  /\ [m |-> "terminated", gate |-> g] \in MailOf("presence")
         /\ [m |-> "closed"] \in MailOf(g) /\ [m |-> "pill"] \in MailOf(g)
         /\ [m |-> "request", type |-> "presence"] \in MailOf(g)
         /\ [m |-> "request", type |-> "msg"] \in MailOf(g)
  BY Mails DEF Message

LEMMA MakeCallBox ==
  ASSUME TypeInv, NEW a \in Actors, MakeCall(a)
  PROVE  BoxInv'
  <1> USE DEF TypeInv
  <1>1. PICK c \in CallsOf(a) : c = Call(a) /\ todo[a] # <<>>
    BY FirstCall DEF MakeCall
  <1>2. CASE CallTell(a)
    BY <1>1, <1>2, TellCalls, DeliverBox DEF CallTell
  <1>3. CASE CallAsk(a)
    <2>1. [m |-> "query", by |-> a] \in MailOf("presence")
      BY Mails DEF Message
    <2> QED
      BY <1>3, <2>1, Names, DeliverBox DEF CallAsk
  <1>4. CASE CallWatch(a)
    <2>1. c.gate \in Gateways
      BY <1>1, <1>4, WatchCalls DEF CallWatch
    <2>2. CASE UNCHANGED box
      BY <2>2 DEF BoxInv
    <2>3. CASE Deliver("presence", [m |-> "terminated", gate |-> c.gate])
      BY <2>1, <2>3, Names, NoticeType, DeliverBox
    <2> QED
      BY <1>1, <1>4, <2>2, <2>3 DEF CallWatch
  <1>5. CASE UNCHANGED box
    BY <1>5 DEF BoxInv
  <1>6. CASE box' = [box EXCEPT ![a] = <<>>]
    BY <1>6 DEF BoxInv
  <1> QED
    BY <1>2, <1>3, <1>4, <1>5, <1>6 DEF MakeCall, CallUnwatch, CallDone

LEMMA BoxStep ==
  ASSUME TypeInv, [Next]_vars
  PROVE  BoxInv'
  <1> USE DEF TypeInv
  <1>1. CASE UNCHANGED vars
    BY <1>1 DEF vars, BoxInv
  <1>2. ASSUME NEW a \in Actors, MakeCall(a) \/ Timeout(a) PROVE BoxInv'
    BY <1>2, MakeCallBox, TimeoutBox
  <1>3. ASSUME NEW a \in Actors, box[a] # <<>>, Pulled(a) PROVE BoxInv'
    BY <1>3, PullBox
  <1>4. CASE Presence \/ Query \/ Bus \/ Push
    <2>1. \E a \in {"presence", "bus", "push"} : box[a] # <<>> /\ Pulled(a)
      <3>1. CASE Presence
        BY <3>1 DEF Presence, Pulls
      <3>2. CASE Query
        BY <3>2 DEF Query, Pulls
      <3>3. CASE Bus
        BY <3>3 DEF Bus, Pulls
      <3>4. CASE Push
        BY <3>4 DEF Push, Pulls
      <3> QED
        BY <1>4, <3>1, <3>2, <3>3, <3>4
    <2> QED
      BY <1>3, <2>1, Names
  <1>5. CASE Published
    <2>1. [ev |-> "message", n |-> news.published + 1] \in MailOf("bus")
      BY Mails DEF Heard, RestType
    <2> QED
      BY <1>5, <2>1, Names, DeliverBox DEF Published
  <1>6. ASSUME NEW g \in Gateways, Gateway(g) PROVE BoxInv'
    BY <1>3, <1>6, Names DEF Gateway, ReceiveClosed, OnStop, ReceiveFriends, ReceiveSend, ReceivePush, Received, Pulls
  <1>7. ASSUME NEW g \in Gateways, Monitor(g) PROVE BoxInv'
    BY <1>7, Names, NoticeType, DeliverBox DEF Monitor, MonitorWakes, MonitorTells, BoxInv
  <1>8. ASSUME NEW g \in Gateways, OnStart(g) PROVE BoxInv'
    BY <1>8 DEF OnStart, BoxInv
  <1>9. ASSUME NEW g \in Gateways, Client(g) PROVE BoxInv'
    <2>1. PICK m \in MailOf(g) : Deliver(g, m)
      BY <1>9, NoticeType DEF Client, ClientAsks, ClientSends, ClientGoes, IdleTimeout, Sends
    <2> QED
      BY <2>1, Names, DeliverBox
  <1> QED
    BY <1>1, <1>2, <1>4, <1>5, <1>6, <1>7, <1>8, <1>9, StepCases

-----------------------------------------------------------------------------
(* What an actor has still to do. *)

\* The handlers of presence.
LEMMA PresenceHandles ==
  ASSUME TypeInv, Presence
  PROVE  \E g \in Gateways :
           /\ box["presence"] # <<>> /\ todo["presence"] = <<>> /\ Pulled("presence")
           /\ \/ Head(box["presence"]) = [m |-> "connected", gate |-> g] /\ handleConnected(g)
              \/ Head(box["presence"]) = [m |-> "disconnected", gate |-> g] /\ handleDisconnected(g)
              \/ Head(box["presence"]) = [m |-> "terminated", gate |-> g] /\ handleTerminated(g)
  BY DEF Presence, Pulls

\* What presence does of g to its maps, and the calls it leaves.
LEMMA PresenceLeaves ==
  ASSUME TypeInv, NEW g \in Gateways,
         handleConnected(g) \/ handleDisconnected(g) \/ handleTerminated(g)
  PROVE  \/ UNCHANGED <<presenceVars, todo>> /\ gatewayUID[g] = None
         \/ /\ gateways' = [gateways EXCEPT ![OwnerOf[g]] = @ \cup {g}]
            /\ gatewayUID' = [gatewayUID EXCEPT ![g] = OwnerOf[g]]
            /\ online' = online \cup {OwnerOf[g]}
            /\ handleConnected(g)
            /\ todo' = [todo EXCEPT !["presence"] =
                          IF OwnerOf[g] \in online THEN <<[do |-> "watch", gate |-> g]>>
                          ELSE <<[do |-> "watch", gate |-> g], Publish(Event("online", OwnerOf[g]))>>]
         \/ /\ gateways' = [gateways EXCEPT ![OwnerOf[g]] = @ \ {g}]
            /\ gatewayUID' = [gatewayUID EXCEPT ![g] = None]
            /\ online' = IF gateways[OwnerOf[g]] \ {g} = {} THEN online \ {OwnerOf[g]} ELSE online
            /\ handleDisconnected(g) \/ (handleTerminated(g) /\ gatewayUID[g] # None)
            /\ \E after \in {<<>>, <<[do |-> "unwatch", gate |-> g]>>} :
                 todo' = [todo EXCEPT !["presence"] =
                            IF gateways[OwnerOf[g]] \ {g} = {}
                            THEN <<Publish(Event("offline", OwnerOf[g]))>> \o after ELSE after]
  <1>1. CASE handleConnected(g)
    <2>1. /\ <<[do |-> "watch", gate |-> g]>> \o <<>> = <<[do |-> "watch", gate |-> g]>>
          /\ <<[do |-> "watch", gate |-> g]>> \o <<Publish(Event("online", OwnerOf[g]))>>
               = <<[do |-> "watch", gate |-> g], Publish(Event("online", OwnerOf[g]))>>
      BY ConcatShort
    <2> QED
      BY <1>1, <2>1 DEF handleConnected, Leaves
  <1>2. CASE handleDisconnected(g)
    <2>1. removeGateway(OwnerOf[g], g, <<[do |-> "unwatch", gate |-> g]>>)
      BY <1>2 DEF handleDisconnected
    <2>2. <<>> \o <<[do |-> "unwatch", gate |-> g]>> = <<[do |-> "unwatch", gate |-> g]>>
      OBVIOUS
    <2> QED
      BY <1>2, <2>1, <2>2 DEF removeGateway, Leaves
  <1>3. CASE handleTerminated(g) /\ gatewayUID[g] # None
    <2>1. removeGateway(OwnerOf[g], g, <<>>)
      BY <1>3 DEF handleTerminated, TypeInv, MapType
    <2> QED
      BY <1>3, <2>1 DEF removeGateway, Leaves
  <1>4. CASE handleTerminated(g) /\ gatewayUID[g] = None
    BY <1>4 DEF handleTerminated
  <1> QED
    BY <1>1, <1>2, <1>3, <1>4

\* Who asks, when presence has the question before it.
LEMMA AskerKnown ==
  ASSUME TypeInv, NEW a \in Actors, box["presence"] # <<>>, Head(box["presence"]) = [m |-> "query", by |-> a]
  PROVE  /\ a \in asking /\ todo[a] # <<>> /\ Call(a) = todo[a][1]
         /\ Call(a) \in CallsOf(a) /\ Call(a).do \in {"gateways", "batch"}
         /\ Call(a).user \in Users
         /\ Call(a).do = "gateways" => a = "push" /\ Call(a).data \in DataFor(Call(a).user)
         /\ a = "push" \/ (a \in Gateways /\ Call(a).user = OwnerOf[a])
  <1>1. 1 \in DOMAIN box["presence"] /\ box["presence"][1] = [m |-> "query", by |-> a]
    BY TailFacts, Names DEF TypeInv, BoxInv
  <1>2. a \in asking
    BY <1>1 DEF TypeInv, AskInv, QueryAt
  <1>3. todo[a] # <<>> /\ Call(a).do \in {"gateways", "batch"}
    BY <1>2 DEF TypeInv, AskInv
  <1>4. Call(a) \in CallsOf(a) /\ Call(a) = todo[a][1]
    BY <1>3, FirstCall DEF TypeInv
  <1>5. PICK c \in CallsOf(a) : c = Call(a)
    BY <1>4
  <1> QED
    BY <1>2, <1>3, <1>4, <1>5, AskCalls

\* pushToUser, answered: one Tell for each of the user's gateways.
LEMMA GatewaysAnswered ==
  ASSUME TypeInv, box["presence"] # <<>>, Head(box["presence"]) = [m |-> "query", by |-> "push"],
         AnswerGateways("push"), NEW u \in Users, NEW e \in Heard,
         u = Call("push").user, e = Call("push").data
  PROVE  \E calls \in Seq(PushTells) :
           /\ todo' = [todo EXCEPT !["push"] = calls \o Tail(todo["push"])]
           /\ \A i \in DOMAIN calls : \E h \in gateways[u] : calls[i] = Tell(h, [m |-> "push", data |-> e])
           /\ \A h \in gateways[u] : \E i \in DOMAIN calls : calls[i] = Tell(h, [m |-> "push", data |-> e])
  <1>1. Call("push").do = "gateways" /\ e \in DataFor(u)
    BY AskerKnown, Names DEF AnswerGateways
  <1>2. gateways[u] \in SUBSET Gateways /\ \A h \in gateways[u] : OwnerOf[h] = u
    BY DEF TypeInv, MapType
  <1>3. IsFiniteSet(gateways[u])
    BY <1>2, DeliveryAssumption, FS_Subset
  <1>4. PICK s \in Orders(gateways[u]) :
          todo' = [todo EXCEPT !["push"] =
                     [i \in DOMAIN s |-> Tell(s[i], [m |-> "push", data |-> Call("push").data])] \o Tail(@)]
    BY DEF AnswerGateways
  <1> DEFINE calls == [i \in DOMAIN s |-> Tell(s[i], [m |-> "push", data |-> e])]
  <1>5. /\ Cardinality(gateways[u]) \in Nat /\ DOMAIN s = 1..Cardinality(gateways[u])
        /\ \A i \in DOMAIN s : s[i] \in gateways[u]
        /\ \A h \in gateways[u] : \E i \in DOMAIN s : s[i] = h
    BY <1>3, <1>4, OrdersFacts
  <1>6. \A i \in DOMAIN s : calls[i] \in PushTells
    <2> SUFFICES ASSUME NEW i \in DOMAIN s PROVE Tell(s[i], [m |-> "push", data |-> e]) \in PushTells
      OBVIOUS
    <2>1. s[i] \in Gateways /\ OwnerOf[s[i]] = u
      BY <1>2, <1>5
    <2>2. <<s[i], e>> \in {q \in Gateways \X Heard : q[2] \in DataFor(OwnerOf[q[1]])}
      BY <1>1, <2>1
    <2>3. PICK p \in {q \in Gateways \X Heard : q[2] \in DataFor(OwnerOf[q[1]])} : p = <<s[i], e>>
      BY <2>2
    <2>4. Tell(p[1], [m |-> "push", data |-> p[2]]) \in PushTells
      BY <2>3 DEF PushTells
    <2>5. p[1] = s[i] /\ p[2] = e
      BY <2>3
    <2> QED
      BY <2>4, <2>5
  <1>7. calls \in Seq(PushTells) /\ DOMAIN calls = DOMAIN s
    BY <1>5, <1>6, MapIsSeq
  <1>8. todo' = [todo EXCEPT !["push"] = calls \o Tail(todo["push"])]
    BY <1>4
  <1>9. /\ \A i \in DOMAIN calls : \E h \in gateways[u] : calls[i] = Tell(h, [m |-> "push", data |-> e])
        /\ \A h \in gateways[u] : \E i \in DOMAIN calls : calls[i] = Tell(h, [m |-> "push", data |-> e])
    BY <1>5
  <1> HIDE DEF calls
  <1> QED
    BY <1>7, <1>8, <1>9

\* Which of a user's friends are there, asked by the push actor: one pushToUser
\* for each.
LEMMA BatchAnswered ==
  ASSUME TypeInv, box["presence"] # <<>>, Head(box["presence"]) = [m |-> "query", by |-> "push"],
         AnswerBatch("push"), NEW u \in Users, u = Call("push").user
  PROVE  \E calls \in Seq(PushAsks) :
           /\ todo' = [todo EXCEPT !["push"] = calls \o Tail(todo["push"])]
           /\ \A i \in DOMAIN calls : \E f \in Friends[u] \cap online :
                calls[i] = [do |-> "gateways", user |-> u, data |-> Event("online", f)]
  <1> DEFINE there == Friends[u] \cap online
  <1>2. there \in SUBSET Users /\ IsFiniteSet(there)
    BY DeliveryAssumption, FS_Subset
  <1>4. PICK s \in Orders(there) :
          todo' = [todo EXCEPT !["push"] =
                     [i \in DOMAIN s |-> [do |-> "gateways", user |-> Call("push").user,
                                          data |-> Event("online", s[i])]] \o Tail(@)]
    BY DEF AnswerBatch
  <1> DEFINE calls == [i \in DOMAIN s |-> [do |-> "gateways", user |-> u, data |-> Event("online", s[i])]]
  <1>5. /\ Cardinality(there) \in Nat /\ DOMAIN s = 1..Cardinality(there)
        /\ \A i \in DOMAIN s : s[i] \in there
    BY <1>2, <1>4, OrdersFacts
  <1>6. \A i \in DOMAIN s : calls[i] \in PushAsks
    <2> SUFFICES ASSUME NEW i \in DOMAIN s
                 PROVE  [do |-> "gateways", user |-> u, data |-> Event("online", s[i])] \in PushAsks
      OBVIOUS
    <2>1. s[i] \in Friends[u] /\ s[i] \in Users
      BY <1>2, <1>5
    <2>2. Event("online", s[i]) \in FriendNews /\ Event("online", s[i]).user = s[i]
      BY <2>1 DEF Event, FriendNews
    <2>3. Event("online", s[i]) \in Heard /\ Event("online", s[i]) \in DataFor(u)
      BY <2>1, <2>2 DEF DataFor, Heard
    <2>4. <<u, Event("online", s[i])>> \in {q \in Users \X Heard : q[2] \in DataFor(q[1])}
      BY <2>3
    <2> QED
      BY <2>4 DEF PushAsks
  <1>7. calls \in Seq(PushAsks) /\ DOMAIN calls = DOMAIN s
    BY <1>5, <1>6, MapIsSeq
  <1>8. todo' = [todo EXCEPT !["push"] = calls \o Tail(todo["push"])]
    BY <1>4
  <1>9. \A i \in DOMAIN calls : \E f \in Friends[u] \cap online :
                calls[i] = [do |-> "gateways", user |-> u, data |-> Event("online", f)]
    BY <1>5
  <1> HIDE DEF calls
  <1> QED
    BY <1>7, <1>8, <1>9

\* pushToUser for each of some users.
LEMMA PushToFacts ==
  ASSUME NEW users \in SUBSET Users, NEW e \in Heard, \A u \in users : e \in DataFor(u),
         NEW calls \in PushTo(users, e)
  PROVE  /\ calls \in Seq(PushAsks)
         /\ \A i \in DOMAIN calls : \E u \in users : calls[i] = [do |-> "gateways", user |-> u, data |-> e]
         /\ \A u \in users : \E i \in DOMAIN calls : calls[i] = [do |-> "gateways", user |-> u, data |-> e]
  <1>1. IsFiniteSet(users)
    BY DeliveryAssumption, FS_Subset
  <1>2. PICK s \in Orders(users) : calls = [i \in DOMAIN s |-> [do |-> "gateways", user |-> s[i], data |-> e]]
    BY DEF PushTo
  <1>3. /\ Cardinality(users) \in Nat /\ DOMAIN s = 1..Cardinality(users)
        /\ \A i \in DOMAIN s : s[i] \in users
        /\ \A u \in users : \E i \in DOMAIN s : s[i] = u
    BY <1>1, <1>2, OrdersFacts
  <1>4. \A i \in DOMAIN s : calls[i] \in PushAsks
    <2> SUFFICES ASSUME NEW i \in DOMAIN s PROVE [do |-> "gateways", user |-> s[i], data |-> e] \in PushAsks
      BY <1>2
    <2>1. <<s[i], e>> \in {q \in Users \X Heard : q[2] \in DataFor(q[1])}
      BY <1>3
    <2> QED
      BY <2>1 DEF PushAsks
  <1>5. calls \in Seq(PushAsks)
    BY <1>2, <1>3, <1>4, MapIsSeq
  <1> QED
    BY <1>2, <1>3, <1>5

LEMMA HandleEventFacts ==
  ASSUME NEW e \in Heard, NEW calls \in handleEvent(e)
  PROVE  /\ calls \in Seq(PushAsks \cup [do: {"batch"}, user: Users])
         /\ \A i \in DOMAIN calls :
              \/ \E u \in Users : calls[i] = [do |-> "gateways", user |-> u, data |-> e]
              \/ \E u \in Users : calls[i] = [do |-> "batch", user |-> u]
         /\ e \in FriendNews => \A u \in Friends[e.user] : \E i \in DOMAIN calls :
                                  calls[i] = [do |-> "gateways", user |-> u, data |-> e]
  <1> DEFINE Both == PushAsks \cup [do: {"batch"}, user: Users]
  <1>1. CASE e \notin FriendNews
    <2>1. e.ev = "message" /\ \A u \in Users : e \in DataFor(u)
      BY <1>1, HeardFacts DEF DataFor
    <2>2. calls \in PushTo(Users, e)
      BY <2>1 DEF handleEvent
    <2>3. calls \in Seq(PushAsks)
          /\ \A i \in DOMAIN calls : \E u \in Users : calls[i] = [do |-> "gateways", user |-> u, data |-> e]
      <3>1. Users \in SUBSET Users
        OBVIOUS
      <3> QED
        BY <2>1, <2>2, <3>1, PushToFacts
    <2> QED
      BY <1>1, <2>3, SeqMonotonic
  <1>2. CASE e \in FriendNews
    <2>1. e.user \in Users /\ Friends[e.user] \in SUBSET Users /\ e.ev # "message"
      BY <1>2, HeardFacts, DeliveryAssumption
    <2>2. \A u \in Friends[e.user] : e \in DataFor(u)
      BY <1>2, <2>1, DeliveryAssumption DEF DataFor
    <2>3. ASSUME NEW c \in PushTo(Friends[e.user], e)
          PROVE  /\ c \in Seq(Both)
                 /\ \A i \in DOMAIN c : \E u \in Users : c[i] = [do |-> "gateways", user |-> u, data |-> e]
                 /\ \A u \in Friends[e.user] : \E i \in DOMAIN c : c[i] = [do |-> "gateways", user |-> u, data |-> e]
      <3>1. c \in Seq(PushAsks)
            /\ (\A i \in DOMAIN c : \E u \in Friends[e.user] : c[i] = [do |-> "gateways", user |-> u, data |-> e])
            /\ \A u \in Friends[e.user] : \E i \in DOMAIN c : c[i] = [do |-> "gateways", user |-> u, data |-> e]
        BY <2>1, <2>2, PushToFacts
      <3> QED
        BY <2>1, <3>1, SeqMonotonic
    <2>4. CASE e.ev # "online"
      BY <2>1, <2>3, <2>4 DEF handleEvent, handlePresenceChange
    <2>5. CASE e.ev = "online"
      <3>1. PICK c \in PushTo(Friends[e.user], e) : calls = c \o <<[do |-> "batch", user |-> e.user]>>
        BY <2>1, <2>5 DEF handleEvent, handlePresenceChange
      <3> DEFINE b == [do |-> "batch", user |-> e.user]
      <3>2. b \in Both /\ <<b>> \in Seq(Both) /\ Len(<<b>>) = 1 /\ <<b>>[1] = b
        BY <2>1
      <3>3. /\ c \in Seq(Both)
            /\ \A i \in DOMAIN c : \E u \in Users : c[i] = [do |-> "gateways", user |-> u, data |-> e]
            /\ \A u \in Friends[e.user] : \E i \in DOMAIN c : c[i] = [do |-> "gateways", user |-> u, data |-> e]
        BY <2>3
      <3> HIDE DEF b, Both
      <3>4. /\ c \o <<b>> \in Seq(Both)
            /\ Len(c) \in Nat /\ DOMAIN c = 1..Len(c) /\ DOMAIN (c \o <<b>>) = 1..(Len(c) + 1)
            /\ \A i \in 1..Len(c) : (c \o <<b>>)[i] = c[i]
            /\ (c \o <<b>>)[Len(c) + 1] = b
        BY <3>2, <3>3, ConcatFacts
      <3>5. ASSUME NEW i \in DOMAIN (c \o <<b>>)
            PROVE  \/ \E u \in Users : (c \o <<b>>)[i] = [do |-> "gateways", user |-> u, data |-> e]
                   \/ \E u \in Users : (c \o <<b>>)[i] = [do |-> "batch", user |-> u]
        <4>1. CASE i \in DOMAIN c
          BY <3>3, <3>4, <4>1
        <4>2. CASE i = Len(c) + 1
          BY <2>1, <3>4, <4>2 DEF b
        <4>3. i \in DOMAIN c \/ i = Len(c) + 1
          BY <3>4
        <4> QED
          BY <4>1, <4>2, <4>3
      <3>6. ASSUME NEW u \in Friends[e.user]
            PROVE  \E i \in DOMAIN (c \o <<b>>) : (c \o <<b>>)[i] = [do |-> "gateways", user |-> u, data |-> e]
        <4>1. PICK i \in DOMAIN c : c[i] = [do |-> "gateways", user |-> u, data |-> e]
          BY <3>3
        <4>2. i \in DOMAIN (c \o <<b>>) /\ (c \o <<b>>)[i] = c[i]
          BY <3>4
        <4> QED
          BY <4>1, <4>2
      <3>7. calls = c \o <<b>>
        BY <3>1 DEF b
      <3> QED
        BY <3>4, <3>5, <3>6, <3>7 DEF Both
    <2> QED
      BY <2>4, <2>5
  <1> QED
    BY <1>1, <1>2

\* What a query that presence answers does for who asked.
LEMMA QueryHandles ==
  ASSUME TypeInv, Query
  PROVE  /\ box["presence"] # <<>> /\ todo["presence"] = <<>> /\ Pulled("presence")
         /\ \/ /\ Head(box["presence"]) = [m |-> "query", by |-> None]
               /\ asking' = asking \ {None} /\ UNCHANGED <<todo, view, asked>>
            \/ \E a \in Actors :
                 /\ Head(box["presence"]) = [m |-> "query", by |-> a] /\ asking' = asking \ {a}
                 /\ \/ a = "push" /\ (AnswerGateways("push") \/ AnswerBatch("push")) /\ UNCHANGED <<view, asked>>
                    \/ /\ a \in Gateways /\ Call(a).do = "batch" /\ Call(a).user = OwnerOf[a] /\ Made(a)
                       /\ view' = [view EXCEPT ![a] = Friends[OwnerOf[a]] \cap online]
                       /\ asked' = asked \cup {a}
  <1>1. PICK a \in Actors \cup {None} :
          /\ Pulls("presence", [m |-> "query", by |-> a])
          /\ Pulled("presence")
          /\ asking' = asking \ {a}
          /\ IF a = None THEN UNCHANGED <<todo, view, asked>> ELSE AnswerGateways(a) \/ AnswerBatch(a)
    BY DEF Query
  <1>2. box["presence"] # <<>> /\ todo["presence"] = <<>> /\ Head(box["presence"]) = [m |-> "query", by |-> a]
    BY <1>1 DEF Pulls
  <1>3. CASE a = None
    BY <1>1, <1>2, <1>3
  <1>4. CASE a # None
    <2>1. a \in Actors /\ (AnswerGateways(a) \/ AnswerBatch(a))
      BY <1>1, <1>4
    <2>2. Call(a).do = "gateways" => a = "push"
      BY <1>2, <2>1, AskerKnown
    <2>3. a = "push" \/ (a \in Gateways /\ Call(a).user = OwnerOf[a])
      BY <1>2, <2>1, AskerKnown
    <2>4. CASE a = "push"
      <3>1. AnswerGateways("push") \/ AnswerBatch("push")
        BY <2>1, <2>4
      <3>2. UNCHANGED <<view, asked>>
        BY <3>1 DEF AnswerGateways, AnswerBatch
      <3> QED
        BY <1>1, <1>2, <2>1, <2>4, <3>1, <3>2
    <2>5. CASE a # "push"
      <3>1. a \in Gateways /\ Call(a).user = OwnerOf[a] /\ AnswerBatch(a)
        BY <2>1, <2>2, <2>3, <2>5 DEF AnswerGateways
      <3>2. /\ Call(a).do = "batch" /\ Made(a) /\ asked' = asked \cup {a}
            /\ view' = [view EXCEPT ![a] = Friends[OwnerOf[a]] \cap online]
        BY <2>5, <3>1 DEF AnswerBatch
      <3> QED
        BY <1>1, <1>2, <2>1, <3>1, <3>2
    <2> QED
      BY <2>4, <2>5
  <1> QED
    BY <1>3, <1>4

LEMMA QueryTodo ==
  ASSUME TypeInv, Query
  PROVE  TodoInv'
  <1> USE DEF TypeInv
  <1>1. CASE UNCHANGED todo
    BY <1>1 DEF TodoInv
  <1>2. ASSUME NEW a \in Actors, Head(box["presence"]) = [m |-> "query", by |-> a], Made(a)
        PROVE  TodoInv'
    BY <1>2, QueryHandles, AskerKnown, MadeTodo
  <1>3. ASSUME Head(box["presence"]) = [m |-> "query", by |-> "push"], AnswerGateways("push") \/ AnswerBatch("push")
        PROVE  TodoInv'
    <2>1. PICK u \in Users : u = Call("push").user
      BY <1>3, Names, QueryHandles, AskerKnown
    <2>2. PICK calls \in Seq(CallsOf("push")) : todo' = [todo EXCEPT !["push"] = calls \o Tail(todo["push"])]
      <3>1. CASE AnswerGateways("push")
        <4>1. PICK e \in Heard : e = Call("push").data
          BY <1>3, <2>1, <3>1, Names, QueryHandles, AskerKnown, HeardFacts DEF AnswerGateways
        <4>2. PICK c \in Seq(PushTells) : todo' = [todo EXCEPT !["push"] = c \o Tail(todo["push"])]
          BY <1>3, <2>1, <3>1, <4>1, QueryHandles, GatewaysAnswered
        <4>3. c \in Seq(CallsOf("push"))
          BY <4>2, CallKinds, SeqMonotonic
        <4> QED
          BY <4>2, <4>3
      <3>2. CASE AnswerBatch("push")
        <4>1. PICK c \in Seq(PushAsks) : todo' = [todo EXCEPT !["push"] = c \o Tail(todo["push"])]
          BY <1>3, <2>1, <3>2, QueryHandles, BatchAnswered
        <4>2. c \in Seq(CallsOf("push"))
          BY <4>1, CallKinds, SeqMonotonic
        <4> QED
          BY <4>1, <4>2
      <3> QED
        BY <1>3, <3>1, <3>2
    <2>3. todo["push"] # <<>> /\ todo["push"] \in Seq(CallsOf("push"))
      BY <1>3, Names, QueryHandles, AskerKnown DEF TodoInv
    <2>4. calls \o Tail(todo["push"]) \in Seq(CallsOf("push"))
      BY <2>2, <2>3, TailFacts, ConcatFacts
    <2>5. PICK new \in Seq(CallsOf("push")) : new = calls \o Tail(todo["push"])
      BY <2>4
    <2> QED
      BY <2>2, <2>5, Names, NewTodo
  <1> QED
    BY <1>1, <1>2, <1>3, QueryHandles

LEMMA PresenceTodo ==
  ASSUME TypeInv, Presence
  PROVE  TodoInv'
  <1> USE DEF TypeInv
  <1>1. PICK g \in Gateways : handleConnected(g) \/ handleDisconnected(g) \/ handleTerminated(g)
    BY PresenceHandles
  <1>2. CASE UNCHANGED todo
    BY <1>2 DEF TodoInv
  <1>3. ASSUME NEW calls \in Seq(CallsOf("presence")), todo' = [todo EXCEPT !["presence"] = calls]
        PROVE  TodoInv'
    BY <1>3, Names, NewTodo
  <1>4. [do |-> "watch", gate |-> g] \in CallsOf("presence") /\ [do |-> "unwatch", gate |-> g] \in CallsOf("presence")
    BY CallKinds
  <1>5. /\ Publish(Event("online", OwnerOf[g])) \in CallsOf("presence")
        /\ Publish(Event("offline", OwnerOf[g])) \in CallsOf("presence")
    <2>1. Event("online", OwnerOf[g]) \in FriendNews /\ Event("offline", OwnerOf[g]) \in FriendNews
      BY DeliveryAssumption DEF Event, FriendNews
    <2> QED
      BY <2>1, CallKinds
  <1>6. \E calls \in Seq(CallsOf("presence")) : todo' = todo \/ todo' = [todo EXCEPT !["presence"] = calls]
    <2> DEFINE w == [do |-> "watch", gate |-> g]
               n == [do |-> "unwatch", gate |-> g]
               on == Publish(Event("online", OwnerOf[g]))
               off == Publish(Event("offline", OwnerOf[g]))
               C == CallsOf("presence")
    <2>1. w \in C /\ n \in C /\ on \in C /\ off \in C
      BY <1>4, <1>5
    <2>2. \/ UNCHANGED todo
          \/ todo' = [todo EXCEPT !["presence"] = <<w>>] \/ todo' = [todo EXCEPT !["presence"] = <<w, on>>]
          \/ \E after \in {<<>>, <<n>>} :
               todo' = [todo EXCEPT !["presence"] = <<off>> \o after] \/ todo' = [todo EXCEPT !["presence"] = after]
      BY <1>1, PresenceLeaves
    <2> HIDE DEF w, n, on, off, C
    <2>3. <<w>> \in Seq(C) /\ <<w, on>> \in Seq(C) /\ <<>> \in Seq(C) /\ <<n>> \in Seq(C) /\ <<off>> \in Seq(C)
      BY <2>1
    <2>4. \A after \in {<<>>, <<n>>} : <<off>> \o after \in Seq(C)
      BY <2>3, ConcatFacts
    <2>5. \E calls \in Seq(C) : todo' = todo \/ todo' = [todo EXCEPT !["presence"] = calls]
      BY <2>2, <2>3, <2>4
    <2> QED
      BY <2>5 DEF C
  <1> QED
    BY <1>2, <1>3, <1>6

LEMMA BusHandles ==
  ASSUME TypeInv, Bus
  PROVE  /\ box["bus"] # <<>> /\ todo["bus"] = <<>> /\ Pulled("bus") /\ Head(box["bus"]) \in MailOf("bus")
         /\ \/ Head(box["bus"]).ev = "login" /\ todo' = [todo EXCEPT !["bus"] = <<>>]
            \/ Head(box["bus"]) \in Heard /\ todo' = [todo EXCEPT !["bus"] = <<Tell("push", Head(box["bus"]))>>]
  <1>1. PICK e : /\ Pulls("bus", e) /\ Pulled("bus")
                 /\ todo' = [todo EXCEPT !["bus"] = [i \in DOMAIN Subscribers(e) |-> Tell(Subscribers(e)[i], e)]]
    BY DEF Bus
  <1>2. box["bus"] # <<>> /\ todo["bus"] = <<>> /\ e = Head(box["bus"])
    BY <1>1 DEF Pulls
  <1>3. e \in MailOf("bus")
    BY <1>2, TailFacts, Names DEF TypeInv, BoxInv
  <1>4. CASE e.ev = "login"
    <2>1. Subscribers(e) = <<>> /\ DOMAIN Subscribers(e) = {}
      BY <1>4 DEF Subscribers
    <2>2. [i \in DOMAIN Subscribers(e) |-> Tell(Subscribers(e)[i], e)] = <<>>
      BY <2>1
    <2> QED
      BY <1>1, <1>2, <1>3, <1>4, <2>2
  <1>5. CASE e.ev # "login"
    <2>1. e \in Heard
      BY <1>3, <1>5, Mails
    <2>2. Subscribers(e) = <<"push">>
      BY <1>5 DEF Subscribers
    <2>3. [i \in DOMAIN Subscribers(e) |-> Tell(Subscribers(e)[i], e)] = <<Tell("push", e)>>
      BY <2>2
    <2> QED
      BY <1>1, <1>2, <1>3, <2>1, <2>3
  <1> QED
    BY <1>4, <1>5

LEMMA PushHandles ==
  ASSUME TypeInv, Push
  PROVE  /\ box["push"] # <<>> /\ todo["push"] = <<>> /\ Pulled("push") /\ Head(box["push"]) \in Heard
         /\ \/ (\E calls \in handleEvent(Head(box["push"])) : todo' = [todo EXCEPT !["push"] = calls]) /\ UNCHANGED gaveUp
            \/ UNCHANGED todo /\ gaveUp'
  <1>1. PICK e : /\ Pulls("push", e) /\ Pulled("push")
                 /\ \/ (\E calls \in handleEvent(e) : todo' = [todo EXCEPT !["push"] = calls]) /\ UNCHANGED gaveUp
                    \/ e.ev # "message" /\ FriendsUnanswered /\ UNCHANGED todo
    BY DEF Push
  <1>2. box["push"] # <<>> /\ todo["push"] = <<>> /\ e = Head(box["push"])
    BY <1>1 DEF Pulls
  <1>3. e \in MailOf("push")
    BY <1>2, TailFacts, Names DEF TypeInv, BoxInv
  <1> QED
    BY <1>1, <1>2, <1>3, Mails DEF FriendsUnanswered

\* A gateway's own steps: what it does to its calls, life and question.
LEMMA GatewayHandles ==
  ASSUME TypeInv, NEW g \in Gateways, Gateway(g)
  PROVE  /\ box[g] # <<>> /\ todo[g] = <<>> /\ Pulled(g) /\ life[g] = "up"
         /\ UNCHANGED <<presenceVars, monitor, asking, reader, idled, asked, story>>
         /\ \/ todo' = todo /\ life' = life
            \/ todo' = [todo EXCEPT ![g] = <<Pill(g)>>] /\ life' = life
            \/ todo' = [todo EXCEPT ![g] = <<Asks(g)>>] /\ life' = life
            \/ todo' = [todo EXCEPT ![g] = <<Gone(g), Done>>] /\ life' = [life EXCEPT ![g] = "ending"]
  <1>1. life[g] = "up"
    BY DEF Gateway
  <1>2. CASE ReceiveClosed(g)
    BY <1>1, <1>2 DEF ReceiveClosed, Received, Pulls, GatewayCalls, Pill
  <1>3. CASE OnStop(g)
    BY <1>1, <1>3 DEF OnStop, Received, Pulls, GatewayCalls, Gone, Done
  <1>4. CASE ReceiveFriends(g)
    BY <1>1, <1>4 DEF ReceiveFriends, Pulls, GatewayCalls, Asks, clientVars
  <1>5. CASE ReceiveSend(g)
    BY <1>1, <1>5 DEF ReceiveSend, Received, Pulls
  <1>6. CASE ReceivePush(g)
    BY <1>1, <1>6 DEF ReceivePush, Received, Pulls
  <1> QED
    BY <1>2, <1>3, <1>4, <1>5, <1>6 DEF Gateway

LEMMA StartHandles ==
  ASSUME TypeInv, NEW g \in Gateways, OnStart(g)
  PROVE  /\ life[g] = "new" /\ life' = [life EXCEPT ![g] = "up"]
         /\ UNCHANGED <<presenceVars, monitor, box, asking, clientVars, news, gaveUp, story>>
         /\ \/ todo' = [todo EXCEPT ![g] = <<Connected(g)>>]
            \/ todo' = [todo EXCEPT ![g] = <<Connected(g), Login(g)>>]
  BY ConcatShort DEF OnStart, GatewayCalls, Connected, Login

LEMMA MakeCallTodo ==
  ASSUME TypeInv, NEW a \in Actors, MakeCall(a)
  PROVE  todo[a] # <<>> /\ (Made(a) \/ UNCHANGED todo) /\ TodoInv'
  <1> USE DEF TypeInv
  <1>1. todo[a] # <<>> /\ (Made(a) \/ UNCHANGED todo)
    BY DEF MakeCall, CallTell, CallAsk, CallWatch, CallUnwatch, CallDone
  <1>2. CASE UNCHANGED todo
    BY <1>1, <1>2 DEF TodoInv
  <1>3. CASE Made(a)
    BY <1>1, <1>3, MadeTodo
  <1> QED
    BY <1>1, <1>2, <1>3

LEMMA TodoStep ==
  ASSUME TypeInv, [Next]_vars
  PROVE  TodoInv'
  <1> USE DEF TypeInv
  <1>1. CASE UNCHANGED todo
    BY <1>1 DEF TodoInv
  <1>2. ASSUME NEW a \in Actors, MakeCall(a) \/ Timeout(a) PROVE TodoInv'
    BY <1>2, MakeCallTodo, MadeTodo DEF Timeout, AskInv
  <1>3. CASE Presence \/ Query
    BY <1>3, PresenceTodo, QueryTodo
  <1>4. CASE Bus
    <2>1. PICK e \in MailOf("bus") : e = Head(box["bus"])
      BY <1>4, BusHandles
    <2>2. CASE todo' = [todo EXCEPT !["bus"] = <<>>]
      <3>1. <<>> \in Seq(CallsOf("bus"))
        OBVIOUS
      <3> QED
        BY <2>2, <3>1, Names, NewTodo
    <2>3. CASE e \in Heard /\ todo' = [todo EXCEPT !["bus"] = <<Tell("push", e)>>]
      <3>1. Tell("push", e) \in CallsOf("bus")
        BY <2>3, CallKinds
      <3>2. <<Tell("push", e)>> \in Seq(CallsOf("bus"))
        BY <3>1
      <3> QED
        BY <2>3, <3>2, Names, NewTodo
    <2> QED
      BY <1>4, <2>1, <2>2, <2>3, BusHandles
  <1>5. CASE Push
    <2>1. PICK e \in Heard : e = Head(box["push"])
      BY <1>5, PushHandles
    <2>2. ASSUME NEW calls \in handleEvent(e), todo' = [todo EXCEPT !["push"] = calls] PROVE TodoInv'
      <3>1. calls \in Seq(CallsOf("push"))
        BY HandleEventFacts, CallKinds, SeqMonotonic
      <3> QED
        BY <2>2, <3>1, Names, NewTodo
    <2> QED
      BY <1>1, <1>5, <2>1, <2>2, PushHandles
  <1>6. ASSUME NEW g \in Gateways, Gateway(g) \/ OnStart(g) PROVE TodoInv'
    <2> DEFINE C == CallsOf(g)
    <2>1. Connected(g) \in C /\ Login(g) \in C /\ Pill(g) \in C /\ Asks(g) \in C /\ Gone(g) \in C /\ Done \in C
      BY CallKinds
    <2>2. \E calls \in {<<Pill(g)>>, <<Asks(g)>>, <<Gone(g), Done>>, <<Connected(g)>>, <<Connected(g), Login(g)>>} :
            todo' = todo \/ todo' = [todo EXCEPT ![g] = calls]
      BY <1>6, GatewayHandles, StartHandles
    <2> HIDE DEF C
    <2>3. {<<Pill(g)>>, <<Asks(g)>>, <<Gone(g), Done>>, <<Connected(g)>>, <<Connected(g), Login(g)>>} \subseteq Seq(C)
      BY <2>1
    <2>4. \E calls \in Seq(C) : todo' = todo \/ todo' = [todo EXCEPT ![g] = calls]
      BY <2>2, <2>3
    <2> QED
      BY <1>1, <2>4, Names, NewTodo DEF C
  <1>7. UNCHANGED vars \/ Published \/ (\E g \in Gateways : Monitor(g) \/ Client(g)) => UNCHANGED todo
    BY DEF vars, Published, Monitor, MonitorWakes, MonitorTells, Client, ClientAsks, ClientSends, ClientGoes,
           IdleTimeout, Sends
  <1> QED
    BY <1>1, <1>2, <1>3, <1>4, <1>5, <1>6, <1>7, StepCases

-----------------------------------------------------------------------------
(* The maps, the gateways and the questions. *)

LEMMA MapStep ==
  ASSUME TypeInv, [Next]_vars
  PROVE  MapType'
  <1> USE DEF TypeInv
  <1>1. CASE UNCHANGED <<presenceVars, monitor>>
    BY <1>1 DEF MapType, presenceVars
  <1>2. ASSUME UNCHANGED presenceVars, NEW g \in Gateways, NEW k \in {"none", "wait", "tell"},
               monitor' = [monitor EXCEPT ![g] = k]
        PROVE  MapType'
    BY <1>2 DEF MapType, presenceVars
  <1>3. CASE Presence
    <2>1. PICK g \in Gateways : handleConnected(g) \/ handleDisconnected(g) \/ handleTerminated(g)
      BY <1>3, PresenceHandles
    <2>2. monitor' = monitor
      BY <1>3 DEF Presence
    <2>3. OwnerOf[g] \in Users
      BY DeliveryAssumption
    <2>4. CASE UNCHANGED presenceVars
      BY <1>1, <2>2, <2>4
    <2>5. CASE handleConnected(g)
      BY <2>2, <2>3, <2>5 DEF MapType, handleConnected
    <2>6. ASSUME NEW after, removeGateway(OwnerOf[g], g, after) PROVE MapType'
      BY <2>2, <2>3, <2>6, Names DEF MapType, removeGateway
    <2>7. CASE handleDisconnected(g)
      BY <2>6, <2>7 DEF handleDisconnected
    <2>8. CASE handleTerminated(g)
      BY <2>4, <2>6, <2>8 DEF handleTerminated, MapType
    <2> QED
      BY <2>1, <2>5, <2>7, <2>8
  <1>4. ASSUME NEW a \in Actors, MakeCall(a) \/ Timeout(a) PROVE MapType'
    <2>1. CASE UNCHANGED <<presenceVars, monitor>>
      BY <1>1, <2>1
    <2>2. CASE MakeCall(a) /\ monitor' # monitor
      <3>1. PICK c \in CallsOf(a) : c = Call(a)
        BY <2>2, FirstCall DEF MakeCall
      <3>2. /\ UNCHANGED presenceVars /\ c.do \in {"watch", "unwatch"}
            /\ \E k \in {"none", "wait", monitor[c.gate]} : monitor' = [monitor EXCEPT ![c.gate] = k]
        BY <2>2, <3>1 DEF MakeCall, CallTell, CallAsk, CallWatch, CallUnwatch, CallDone
      <3>3. PICK g \in Gateways : g = c.gate
        BY <3>2, WatchCalls
      <3>4. \E k \in {"none", "wait", "tell"} : monitor' = [monitor EXCEPT ![g] = k]
        BY <3>2, <3>3 DEF MapType
      <3> QED
        BY <1>2, <3>2, <3>4
    <2>3. UNCHANGED presenceVars /\ (Timeout(a) => UNCHANGED monitor)
      BY <1>4 DEF MakeCall, CallTell, CallAsk, CallWatch, CallUnwatch, CallDone, Timeout
    <2> QED
      BY <1>4, <2>1, <2>2, <2>3
  <1>5. ASSUME NEW g \in Gateways, Monitor(g) PROVE MapType'
    BY <1>2, <1>5 DEF Monitor, MonitorWakes, MonitorTells
  <1>6. UNCHANGED vars \/ Query \/ Bus \/ Push \/ Published
          \/ (\E g \in Gateways : Gateway(g) \/ OnStart(g) \/ Client(g)) => UNCHANGED <<presenceVars, monitor>>
    BY GatewayHandles, StartHandles
       DEF vars, Query, Bus, Push, Published, Client, ClientAsks, ClientSends, ClientGoes, IdleTimeout, Sends
  <1> QED
    BY <1>1, <1>3, <1>4, <1>5, <1>6, StepCases

\* Nobody else makes a gateway's calls.
LEMMA GatewayTodo ==
  ASSUME TypeInv, [Next]_vars, NEW g \in Gateways
  PROVE  \/ UNCHANGED todo[g]
         \/ MakeCall(g) \/ Timeout(g) \/ Gateway(g) \/ OnStart(g)
         \/ g \in asking /\ todo[g] # <<>> /\ Call(g).do = "batch" /\ todo'[g] = Tail(todo[g]) /\ Query
            /\ UNCHANGED <<life, reader>>
  <1> USE DEF TypeInv
  <1>1. g \notin {"presence", "bus", "push"}
    BY Names
  <1>2. ASSUME NEW a \in Actors, a # g, MakeCall(a) \/ Timeout(a) PROVE UNCHANGED todo[g]
    BY <1>2, MakeCallTodo, Names DEF Made, Timeout, TodoInv
  <1>3. CASE Presence
    BY <1>1, <1>3, Names, PresenceHandles, PresenceLeaves DEF TodoInv
  <1>4. CASE Query
    <2>1. CASE UNCHANGED todo
      BY <2>1
    <2>2. CASE AnswerGateways("push") \/ AnswerBatch("push")
      BY <1>1, <2>2, Names DEF AnswerGateways, AnswerBatch, TodoInv
    <2>3. ASSUME NEW a \in Gateways, Head(box["presence"]) = [m |-> "query", by |-> a], Made(a), Call(a).do = "batch"
          PROVE  UNCHANGED todo[g] \/ (a = g /\ g \in asking /\ todo[g] # <<>> /\ todo'[g] = Tail(todo[g]))
      BY <1>4, <2>3, Names, QueryHandles, AskerKnown DEF Made, TodoInv
    <2>4. UNCHANGED <<life, reader>>
      BY <1>4 DEF Query
    <2> QED
      BY <1>4, <2>1, <2>2, <2>3, <2>4, QueryHandles
  <1>5. CASE Bus
    BY <1>1, <1>5, Names, BusHandles DEF TodoInv
  <1>6. CASE Push
    BY <1>1, <1>6, Names, PushHandles DEF TodoInv
  <1>7. ASSUME NEW h \in Gateways, h # g, Gateway(h) \/ OnStart(h) PROVE UNCHANGED todo[g]
    BY <1>7, Names, GatewayHandles, StartHandles DEF TodoInv
  <1>8. UNCHANGED vars \/ Published \/ (\E h \in Gateways : Monitor(h) \/ Client(h)) => UNCHANGED todo[g]
    BY DEF vars, Published, Monitor, MonitorWakes, MonitorTells, Client, ClientAsks, ClientSends, ClientGoes,
           IdleTimeout, Sends
  <1> QED
    BY <1>2, <1>3, <1>4, <1>5, <1>6, <1>7, <1>8, StepCases, Names

LEMMA TailShort ==
  ASSUME NEW x, NEW y
  PROVE  /\ Tail(<<x>>) = <<>> /\ Tail(<<x, y>>) = <<y>> /\ Head(<<x>>) = x /\ Head(<<x, y>>) = x
         /\ <<x>> # <<>> /\ <<y>> # <<>> /\ <<x, y>> # <<>>
  <1> DEFINE t == Tail(<<x, y>>)
             u == Tail(<<x>>)
  <1>1. <<x>> \in Seq({x, y}) /\ <<x, y>> \in Seq({x, y}) /\ <<y>> \in Seq({x, y}) /\ <<>> \in Seq({x, y})
    OBVIOUS
  <1>2. /\ t \in Seq({x, y}) /\ Len(t) = 1 /\ t[1] = y /\ u \in Seq({x, y}) /\ Len(u) = 0
        /\ Head(<<x>>) = x /\ Head(<<x, y>>) = x /\ <<x>> # <<>> /\ <<y>> # <<>> /\ <<x, y>> # <<>>
    BY <1>1
  <1> DEFINE v == <<y>>
             e == <<>>
  <1>3. v \in Seq({x, y}) /\ Len(v) = 1 /\ v[1] = y /\ e \in Seq({x, y}) /\ Len(e) = 0
    BY <1>1
  <1> HIDE DEF t, u, v, e
  <1>4. t = v
    <2>1. Len(t) = Len(v) /\ \A i \in 1..Len(t) : t[i] = v[i]
      BY <1>2, <1>3
    <2> QED
      BY <1>2, <1>3, <2>1, SeqEqual
  <1>5. u = e
    <2>1. Len(u) = Len(e) /\ \A i \in 1..Len(u) : u[i] = e[i]
      BY <1>2, <1>3
    <2> QED
      BY <1>2, <1>3, <2>1, SeqEqual
  <1> QED
    BY <1>2, <1>4, <1>5 DEF t, u, v, e

\* Whose life and reader a step changes.
LEMMA LifeMoves ==
  ASSUME TypeInv, [Next]_vars, NEW g \in Gateways
  PROVE  \/ UNCHANGED <<life[g], reader[g]>>
         \/ MakeCall(g) \/ Gateway(g) \/ OnStart(g)
         \/ /\ UNCHANGED <<life, todo>> /\ life[g] \in {"up", "ending"}
            /\ reader[g] \in {"hello", "reading"} /\ reader'[g] \in {"reading", "gone"}
  <1> USE DEF TypeInv
  <1>1. ASSUME NEW a \in Actors, a # g, MakeCall(a) PROVE UNCHANGED <<life[g], reader[g]>>
    <2>1. CASE CallDone(a)
      BY <1>1, <2>1 DEF CallDone, LifeType
    <2>2. CASE CallTell(a)
      BY <1>1, <2>2 DEF CallTell, LifeType
    <2>3. CASE CallAsk(a) \/ CallWatch(a) \/ CallUnwatch(a)
      BY <2>3 DEF CallAsk, CallWatch, CallUnwatch, clientVars
    <2> QED
      BY <1>1, <2>1, <2>2, <2>3 DEF MakeCall
  <1>2. ASSUME NEW a \in Actors, Timeout(a) PROVE UNCHANGED <<life, reader>>
    BY <1>2 DEF Timeout, clientVars
  <1>3. ASSUME NEW h \in Gateways, h # g, Gateway(h) \/ OnStart(h) PROVE UNCHANGED <<life[g], reader[g]>>
    BY <1>3, GatewayHandles, StartHandles DEF LifeType, clientVars
  <1>4. ASSUME NEW h \in Gateways, Client(h)
        PROVE  \/ UNCHANGED <<life[g], reader[g]>>
               \/ /\ UNCHANGED <<life, todo>> /\ life[g] \in {"up", "ending"}
                  /\ reader[g] \in {"hello", "reading"} /\ reader'[g] \in {"reading", "gone"}
    <2>1. /\ UNCHANGED <<life, todo>> /\ life[h] \in {"up", "ending"} /\ reader[h] \in {"hello", "reading"}
          /\ \E next \in {"reading", "gone"} : reader' = [reader EXCEPT ![h] = next]
      BY <1>4 DEF Client, ClientAsks, ClientSends, ClientGoes, IdleTimeout, Sends
    <2> QED
      BY <2>1 DEF LifeType
  <1>5. UNCHANGED vars \/ Published \/ Presence \/ Query \/ Bus \/ Push \/ (\E h \in Gateways : Monitor(h))
          => UNCHANGED <<life, reader>>
    BY DEF vars, clientVars, Published, Presence, Query, Bus, Push, Monitor, MonitorWakes, MonitorTells
  <1> QED
    BY <1>1, <1>2, <1>3, <1>4, <1>5, StepCases, Names

LEMMA OwnCalls ==
  ASSUME TypeInv, NEW g \in Gateways, MakeCall(g)
  PROVE  GatewayInv(g)'
  <1> USE DEF TypeInv
  <1>1. /\ todo[g] # <<>> /\ Call(g) = Head(todo[g]) /\ GatewayInv(g) /\ life[g] \in {"new", "up", "ending", "done"}
        /\ g \in Actors
    BY MakeCallTodo, Names DEF Call, LifeType
  <1>2. ASSUME CallTell(g)
        PROVE  /\ todo'[g] = Tail(todo[g]) /\ life'[g] = life[g]
               /\ reader[g] # "off" => reader'[g] # "off"
               /\ reader[g] = "off" /\ todo'[g] # <<>> => reader'[g] = "off"
               /\ reader[g] = "off" /\ todo'[g] = <<>> => reader'[g] # "off"
    BY <1>1, <1>2 DEF CallTell, Made, TodoInv, LifeType
  <1>3. ASSUME CallAsk(g) PROVE UNCHANGED <<todo[g], life[g], reader[g]>> 
    BY <1>3 DEF CallAsk, clientVars
  <1>4. ASSUME CallWatch(g) \/ CallUnwatch(g) PROVE FALSE
    BY <1>1, <1>4, FirstCall, WatchCalls, Names DEF CallWatch, CallUnwatch
  <1>5. ASSUME CallDone(g) PROVE todo'[g] = Tail(todo[g]) /\ life'[g] = "done" /\ reader'[g] = "gone"
    BY <1>1, <1>5 DEF CallDone, Made, TodoInv, LifeType
  <1>6. \/ todo[g] = <<Connected(g)>> /\ life[g] = "up" /\ reader[g] = "off" /\ Call(g).do = "tell"
        \/ todo[g] = <<Connected(g), Login(g)>> /\ life[g] = "up" /\ reader[g] = "off" /\ Call(g).do = "tell"
        \/ todo[g] = <<Login(g)>> /\ life[g] = "up" /\ reader[g] = "off" /\ Call(g).do = "tell"
        \/ todo[g] = <<Pill(g)>> /\ life[g] = "up" /\ reader[g] # "off" /\ Call(g).do = "tell"
        \/ todo[g] = <<Asks(g)>> /\ life[g] = "up" /\ reader[g] # "off" /\ Call(g).do = "batch"
        \/ todo[g] = <<Gone(g), Done>> /\ life[g] = "ending" /\ reader[g] # "off" /\ Call(g).do = "tell"
        \/ todo[g] = <<Done>> /\ life[g] = "ending" /\ reader[g] # "off" /\ Call(g).do = "done"
    BY <1>1, TailShort DEF GatewayInv, Connected, Login, Pill, Asks, Gone, Done, Tell, Publish
  <1>7. CASE CallAsk(g)
    BY <1>1, <1>3, <1>7 DEF GatewayInv
  <1>8. CASE CallDone(g)
    <2>1. todo[g] = <<Done>>
      BY <1>6, <1>8 DEF CallDone
    <2>2. todo'[g] = <<>>
      BY <1>5, <1>8, <2>1, TailShort
    <2> QED
      BY <1>5, <1>8, <2>2 DEF GatewayInv
  <1>9. CASE CallTell(g)
    <2>1. \/ todo[g] = <<Connected(g)>> /\ life[g] = "up" /\ reader[g] = "off" /\ todo'[g] = <<>>
          \/ todo[g] = <<Connected(g), Login(g)>> /\ life[g] = "up" /\ reader[g] = "off" /\ todo'[g] = <<Login(g)>>
          \/ todo[g] = <<Login(g)>> /\ life[g] = "up" /\ reader[g] = "off" /\ todo'[g] = <<>>
          \/ todo[g] = <<Pill(g)>> /\ life[g] = "up" /\ reader[g] # "off" /\ todo'[g] = <<>>
          \/ todo[g] = <<Gone(g), Done>> /\ life[g] = "ending" /\ reader[g] # "off" /\ todo'[g] = <<Done>>
      <3>1. Call(g).do = "tell" /\ todo'[g] = Tail(todo[g])
        BY <1>2, <1>9 DEF CallTell
      <3>2. /\ Tail(<<Connected(g)>>) = <<>> /\ Tail(<<Connected(g), Login(g)>>) = <<Login(g)>>
            /\ Tail(<<Login(g)>>) = <<>> /\ Tail(<<Pill(g)>>) = <<>> /\ Tail(<<Gone(g), Done>>) = <<Done>>
        BY TailShort
      <3> QED
        BY <1>6, <3>1, <3>2
    <2>2. <<Login(g)>> # <<>>
      BY TailShort
    <2>3. CASE life[g] = "up"
      BY <1>2, <1>9, <2>1, <2>2, <2>3 DEF GatewayInv
    <2>4. CASE life[g] = "ending"
      BY <1>2, <1>9, <2>1, <2>4 DEF GatewayInv
    <2> QED
      BY <2>1, <2>3, <2>4
  <1> QED
    BY <1>4, <1>7, <1>8, <1>9 DEF MakeCall

LEMMA GatewayStep ==
  ASSUME TypeInv, [Next]_vars, NEW g \in Gateways
  PROVE  GatewayInv(g)'
  <1> USE DEF TypeInv
  <1>1. GatewayInv(g) /\ life[g] \in {"new", "up", "ending", "done"}
    BY DEF LifeType
  <1>2. CASE MakeCall(g)
    BY <1>2, OwnCalls
  <1>3. CASE Gateway(g)
    <2>1. life[g] = "up" /\ todo[g] = <<>> /\ reader' = reader
      BY <1>3, GatewayHandles
    <2>2. reader[g] # "off"
      BY <1>1, <2>1, TailShort DEF GatewayInv
    <2>3. \/ todo'[g] = <<>> /\ life'[g] = "up"
          \/ todo'[g] = <<Pill(g)>> /\ life'[g] = "up"
          \/ todo'[g] = <<Asks(g)>> /\ life'[g] = "up"
          \/ todo'[g] = <<Gone(g), Done>> /\ life'[g] = "ending"
      <3>1. /\ todo' = todo => todo'[g] = <<>>
            /\ \A c : todo' = [todo EXCEPT ![g] = c] => todo'[g] = c
        BY <2>1, Names DEF TodoInv
      <3>2. /\ life' = life => life'[g] = "up"
            /\ life' = [life EXCEPT ![g] = "ending"] => life'[g] = "ending"
        BY <2>1 DEF LifeType
      <3> QED
        BY <1>3, <3>1, <3>2, GatewayHandles
    <2> QED
      BY <2>1, <2>2, <2>3 DEF GatewayInv
  <1>4. CASE OnStart(g)
    <2>1. life'[g] = "up" /\ reader'[g] = "off" /\ todo'[g] \in {<<Connected(g)>>, <<Connected(g), Login(g)>>}
      <3>1. \A c : todo' = [todo EXCEPT ![g] = c] => todo'[g] = c
        BY Names DEF TodoInv
      <3>2. life' = [life EXCEPT ![g] = "up"] => life'[g] = "up"
        BY DEF LifeType
      <3>3. life[g] = "new" /\ UNCHANGED reader
        BY <1>4, StartHandles DEF clientVars
      <3>4. reader[g] = "off"
        BY <1>1, <3>3 DEF GatewayInv
      <3> QED
        BY <1>4, <3>1, <3>2, <3>3, <3>4, StartHandles
    <2> QED
      BY <2>1 DEF GatewayInv
  <1>5. CASE Timeout(g) \/ (g \in asking /\ todo[g] # <<>> /\ Call(g).do = "batch" /\ todo'[g] = Tail(todo[g]) /\ Query
                            /\ UNCHANGED <<life, reader>>)
    <2>1. /\ g \in asking /\ todo[g] # <<>> /\ Call(g).do \in {"gateways", "batch"}
          /\ todo'[g] = Tail(todo[g]) /\ UNCHANGED <<life, reader>>
      BY <1>5, Names DEF Timeout, AskInv, Made, TodoInv, clientVars
    <2>2. todo[g] = <<Asks(g)>> /\ life[g] = "up" /\ reader[g] # "off"
      BY <1>1, <2>1, TailShort DEF GatewayInv, Call, Connected, Login, Pill, Asks, Gone, Done, Tell, Publish
    <2>3. todo'[g] = <<>>
      BY <2>1, <2>2, TailShort
    <2> QED
      BY <2>1, <2>2, <2>3 DEF GatewayInv
  <1>6. CASE UNCHANGED todo[g] /\ UNCHANGED <<life[g], reader[g]>>
    BY <1>1, <1>6 DEF GatewayInv
  <1>7. CASE /\ UNCHANGED <<life, todo>> /\ life[g] \in {"up", "ending"}
             /\ reader[g] \in {"hello", "reading"} /\ reader'[g] \in {"reading", "gone"}
    BY <1>1, <1>7 DEF GatewayInv
  <1>8. Timeout(g) => UNCHANGED <<life[g], reader[g]>>
    BY DEF Timeout, clientVars
  <1> QED
    BY <1>2, <1>3, <1>4, <1>5, <1>6, <1>7, GatewayTodo, LifeMoves

\* What a push does to the view of its device.
LEMMA PushApplied ==
  ASSUME TypeInv, NEW g \in Gateways, ReceivePush(g)
  PROVE  \E e \in DataFor(OwnerOf[g]) :
           /\ Head(box[g]) = [m |-> "push", data |-> e]
           /\ \/ e.ev = "online" /\ view' = [view EXCEPT ![g] = view[g] \cup {e.user}]
              \/ e.ev = "offline" /\ view' = [view EXCEPT ![g] = view[g] \ {e.user}]
              \/ e \notin FriendNews /\ view' = view
  <1>1. PICK e : /\ Pulls(g, [m |-> "push", data |-> e])
                 /\ view' = [view EXCEPT ![g] = CASE e.ev = "online"  -> @ \cup {e.user}
                                                  [] e.ev = "offline" -> @ \ {e.user}
                                                  [] OTHER            -> @]
    BY DEF ReceivePush
  <1>2. Head(box[g]) = [m |-> "push", data |-> e] /\ box[g] # <<>>
    BY <1>1 DEF Pulls
  <1>3. Head(box[g]) \in MailOf(g)
    BY <1>2, TailFacts, Names DEF TypeInv, BoxInv
  <1>4. [m |-> "push", data |-> e] \in MailOf(g)
    BY <1>2, <1>3
  <1>5. e \in DataFor(OwnerOf[g])
    <2>1. [m |-> "push", data |-> e] \notin [m: {"closed", "pill"}] \cup [m: {"request"}, type: {"presence", "msg"}]
      OBVIOUS
    <2>2. [m |-> "push", data |-> e] \in [m: {"push"}, data: DataFor(OwnerOf[g])]
      BY <1>4, <2>1, Mails
    <2> QED
      BY <2>2
  <1>6. view = [view EXCEPT ![g] = view[g]]
    BY DEF TypeInv, LifeType
  <1>7. e.ev = "online" => view' = [view EXCEPT ![g] = view[g] \cup {e.user}]
    BY <1>1
  <1>8. e.ev = "offline" => view' = [view EXCEPT ![g] = view[g] \ {e.user}]
    BY <1>1
  <1>9. e.ev \notin {"online", "offline"} => view' = view /\ e \notin FriendNews
    BY <1>1, <1>6, HeardFacts
  <1> QED
    BY <1>2, <1>5, <1>7, <1>8, <1>9

LEMMA ViewStep ==
  ASSUME TypeInv, [Next]_vars
  PROVE  /\ view' \in [Gateways -> SUBSET Users]
         /\ \A g \in Gateways : view'[g] \subseteq Friends[OwnerOf[g]]
         /\ asked' \subseteq Gateways
  <1> USE DEF TypeInv, LifeType
  <1>1. CASE UNCHANGED <<view, asked>>
    BY <1>1
  <1>2. ASSUME NEW g \in Gateways, NEW v \in SUBSET Friends[OwnerOf[g]], view' = [view EXCEPT ![g] = v],
               asked' \in {asked, asked \cup {g}}
        PROVE  /\ view' \in [Gateways -> SUBSET Users]
               /\ \A h \in Gateways : view'[h] \subseteq Friends[OwnerOf[h]]
               /\ asked' \subseteq Gateways
    BY <1>2, DeliveryAssumption
  <1>3. CASE Query
    <2>1. ASSUME NEW a \in Gateways, view' = [view EXCEPT ![a] = Friends[OwnerOf[a]] \cap online], asked' = asked \cup {a}
          PROVE  \E v \in SUBSET Friends[OwnerOf[a]] : view' = [view EXCEPT ![a] = v]
      BY <2>1
    <2>2. \/ UNCHANGED <<view, asked>>
          \/ \E a \in Gateways : view' = [view EXCEPT ![a] = Friends[OwnerOf[a]] \cap online] /\ asked' = asked \cup {a}
      BY <1>3, QueryHandles
    <2> QED
      BY <1>1, <1>2, <2>1, <2>2
  <1>4. ASSUME NEW g \in Gateways, Gateway(g) PROVE UNCHANGED <<view, asked>> \/ ReceivePush(g)
    BY <1>4 DEF Gateway, ReceiveClosed, OnStop, ReceiveFriends, ReceiveSend, clientVars
  <1>5. ASSUME NEW g \in Gateways, Gateway(g), ReceivePush(g)
        PROVE  \E v \in SUBSET Friends[OwnerOf[g]] : view' = [view EXCEPT ![g] = v]
    <2>1. PICK e \in DataFor(OwnerOf[g]) :
            \/ e.ev = "online" /\ view' = [view EXCEPT ![g] = view[g] \cup {e.user}]
            \/ e.ev = "offline" /\ view' = [view EXCEPT ![g] = view[g] \ {e.user}]
            \/ e \notin FriendNews /\ view' = view
      BY <1>5, PushApplied
    <2>2. e.ev = "online" => e.user \in Friends[OwnerOf[g]]
      BY HeardFacts DEF DataFor
    <2>3. view = [view EXCEPT ![g] = view[g]]
      OBVIOUS
    <2> QED
      BY <2>1, <2>2, <2>3
  <1>6. ASSUME NEW a \in Actors, MakeCall(a) \/ Timeout(a) PROVE UNCHANGED <<view, asked>>
    BY <1>6 DEF MakeCall, CallTell, CallAsk, CallWatch, CallUnwatch, CallDone, Timeout, clientVars
  <1>7. UNCHANGED vars \/ Published \/ Presence \/ Bus \/ Push
          \/ (\E g \in Gateways : Monitor(g) \/ OnStart(g) \/ Client(g)) => UNCHANGED <<view, asked>>
    BY DEF vars, clientVars, Published, Presence, Bus, Push, Monitor, MonitorWakes, MonitorTells, OnStart,
           Client, ClientAsks, ClientSends, ClientGoes, IdleTimeout, Sends
  <1>8. ASSUME NEW g \in Gateways, Gateway(g), ReceivePush(g) PROVE asked' = asked
    BY <1>8, GatewayHandles
  <1> QED
    BY <1>1, <1>2, <1>3, <1>4, <1>5, <1>6, <1>7, <1>8, StepCases

LEMMA LifeStep ==
  ASSUME TypeInv, [Next]_vars
  PROVE  LifeType'
  <1> USE DEF TypeInv
  <1>1. life' \in [Gateways -> {"new", "up", "ending", "done"}]
    <2>1. \/ life' = life
          \/ \E g \in Gateways : \E k \in {"up", "ending", "done"} : life' = [life EXCEPT ![g] = k]
      <3>1. ASSUME NEW a \in Actors, MakeCall(a) \/ Timeout(a)
            PROVE  life' = life \/ \E g \in Gateways : life' = [life EXCEPT ![g] = "done"]
        <4>1. CASE CallDone(a)
          <5>1. PICK c \in CallsOf(a) : c = Call(a)
            BY <3>1, <4>1, FirstCall DEF MakeCall, Timeout, AskInv
          <5>2. a \in Gateways
            BY <4>1, <5>1, WatchCalls DEF CallDone
          <5> QED
            BY <4>1, <5>2 DEF CallDone
        <4> QED
          BY <3>1, <4>1 DEF MakeCall, CallTell, CallAsk, CallWatch, CallUnwatch, Timeout
      <3>2. ASSUME NEW g \in Gateways, Gateway(g) \/ OnStart(g)
            PROVE  life' = life \/ \E k \in {"up", "ending", "done"} : life' = [life EXCEPT ![g] = k]
        BY <3>2, GatewayHandles, StartHandles
      <3>3. UNCHANGED vars \/ Published \/ Presence \/ Query \/ Bus \/ Push
              \/ (\E g \in Gateways : Monitor(g) \/ Client(g)) => life' = life
        BY DEF vars, Published, Presence, Query, Bus, Push, Monitor, MonitorWakes, MonitorTells,
               Client, ClientAsks, ClientSends, ClientGoes, IdleTimeout, Sends
      <3> QED
        BY <3>1, <3>2, <3>3, StepCases
    <2> QED
      BY <2>1 DEF LifeType
  <1>2. reader' \in [Gateways -> {"off", "hello", "reading", "gone"}] /\ idled' \subseteq Gateways
    <2>1. CASE UNCHANGED <<reader, idled>>
      BY <2>1 DEF LifeType
    <2>2. ASSUME NEW g \in Gateways, NEW k \in {"hello", "reading", "gone"}, reader' = [reader EXCEPT ![g] = k],
                 idled' \in {idled, idled \cup {g}}
          PROVE  reader' \in [Gateways -> {"off", "hello", "reading", "gone"}] /\ idled' \subseteq Gateways
      BY <2>2 DEF LifeType
    <2>3. ASSUME NEW a \in Actors, MakeCall(a)
          PROVE  reader' \in [Gateways -> {"off", "hello", "reading", "gone"}] /\ idled' \subseteq Gateways
      <3>1. CASE CallTell(a)
        BY <3>1 DEF CallTell, LifeType
      <3>2. CASE CallDone(a)
        <4>1. reader' = [reader EXCEPT ![a] = "gone"] /\ idled' = idled
          BY <3>2 DEF CallDone
        <4> QED
          BY <4>1 DEF LifeType
      <3> QED
        BY <2>1, <2>3, <3>1, <3>2 DEF MakeCall, CallAsk, CallWatch, CallUnwatch, clientVars
    <2>4. ASSUME NEW g \in Gateways, Client(g)
          PROVE  reader' \in [Gateways -> {"off", "hello", "reading", "gone"}] /\ idled' \subseteq Gateways
      BY <2>2, <2>4 DEF Client, ClientAsks, ClientSends, ClientGoes, IdleTimeout, Sends
    <2>5. UNCHANGED vars \/ Published \/ Presence \/ Query \/ Bus \/ Push \/ (\E a \in Actors : Timeout(a))
            \/ (\E g \in Gateways : Monitor(g) \/ Gateway(g) \/ OnStart(g)) => UNCHANGED <<reader, idled>>
      BY GatewayHandles, StartHandles
         DEF vars, clientVars, Published, Presence, Query, Bus, Push, Timeout, Monitor, MonitorWakes, MonitorTells
    <2> QED
      BY <2>1, <2>3, <2>4, <2>5, StepCases
  <1> QED
    BY <1>1, <1>2, ViewStep, GatewayStep DEF LifeType

LEMMA RestStep ==
  ASSUME TypeInv, [Next]_vars
  PROVE  RestType'
  <1> USE DEF TypeInv, RestType
  <1>1. story' = story
    <2>1. ASSUME NEW a \in Actors, MakeCall(a) \/ Timeout(a) PROVE story' = story
      BY <2>1 DEF MakeCall, CallTell, CallAsk, CallWatch, CallUnwatch, CallDone, Timeout
    <2>2. ASSUME NEW g \in Gateways, Gateway(g) \/ OnStart(g) PROVE story' = story
      BY <2>2, GatewayHandles, StartHandles
    <2>3. UNCHANGED vars \/ Published \/ Presence \/ Query \/ Bus \/ Push
            \/ (\E g \in Gateways : Monitor(g) \/ Client(g)) => story' = story
      BY DEF vars, Published, Presence, Query, Bus, Push, Monitor, MonitorWakes, MonitorTells,
             Client, ClientAsks, ClientSends, ClientGoes, IdleTimeout, Sends
    <2> QED
      BY <2>1, <2>2, <2>3, StepCases
  <1>2. gaveUp' \in {gaveUp, TRUE}
    <2>1. ASSUME NEW a \in Actors, MakeCall(a) \/ Timeout(a) PROVE gaveUp' \in {gaveUp, TRUE}
      BY <2>1 DEF MakeCall, CallTell, CallAsk, CallWatch, CallUnwatch, CallDone, Timeout
    <2>2. ASSUME NEW g \in Gateways, Gateway(g) \/ OnStart(g) PROVE gaveUp' \in {gaveUp, TRUE}
      BY <2>2, StartHandles
         DEF Gateway, ReceiveClosed, OnStop, ReceiveFriends, ReceiveSend, ReceivePush, Received, FriendsUnanswered
    <2>3. UNCHANGED vars \/ Published \/ Presence \/ Query \/ Bus \/ Push
            \/ (\E g \in Gateways : Monitor(g) \/ Client(g)) => gaveUp' \in {gaveUp, TRUE}
      BY DEF vars, Published, Presence, Query, Bus, Push, FriendsUnanswered, Monitor, MonitorWakes, MonitorTells,
             Client, ClientAsks, ClientSends, ClientGoes, IdleTimeout, Sends
    <2> QED
      BY <2>1, <2>2, <2>3, StepCases
  <1>3. news' \in [taken: Nat, published: Nat]
    <2>1. ASSUME NEW a \in Actors, MakeCall(a) \/ Timeout(a) PROVE news' = news
      BY <2>1 DEF MakeCall, CallTell, CallAsk, CallWatch, CallUnwatch, CallDone, Timeout
    <2>2. ASSUME NEW g \in Gateways, Gateway(g) \/ OnStart(g)
          PROVE  news' = news \/ news' = [news EXCEPT !.taken = @ + 1]
      BY <2>2, StartHandles
         DEF Gateway, ReceiveClosed, OnStop, ReceiveFriends, ReceiveSend, ReceivePush
    <2>3. UNCHANGED vars \/ Presence \/ Query \/ Bus \/ Push
            \/ (\E g \in Gateways : Monitor(g) \/ Client(g)) => news' = news
      BY DEF vars, Presence, Query, Bus, Push, FriendsUnanswered, Monitor, MonitorWakes, MonitorTells,
             Client, ClientAsks, ClientSends, ClientGoes, IdleTimeout, Sends
    <2>4. Published => news' = [news EXCEPT !.published = @ + 1]
      BY DEF Published
    <2>5. \/ news' = news \/ news' = [news EXCEPT !.taken = @ + 1] \/ news' = [news EXCEPT !.published = @ + 1]
      BY <2>1, <2>2, <2>3, <2>4, StepCases
    <2> QED
      BY <2>5
  <1> QED
    BY <1>1, <1>2, <1>3

-----------------------------------------------------------------------------
(* What comes to presence, and what it answers. *)

LEMMA DeliverOther ==
  ASSUME BoxInv, NEW a \in Actors, NEW m \in MailOf(a), Deliver(a, m), NEW b \in Actors, a # b
  PROVE  UNCHANGED box[b]
  BY DeliverBox DEF BoxInv

LEMMA DeliverPresence ==
  ASSUME BoxInv, NEW m \in Message, Deliver("presence", m)
  PROVE  box'["presence"] = Append(box["presence"], m)
  <1>1. Open("presence")
    BY Names DEF Open
  <1> QED
    BY <1>1, Names DEF Deliver, BoxInv

LEMMA PresenceMail ==
  ASSUME TypeInv, [Next]_vars
  PROVE  \/ UNCHANGED <<box["presence"], presenceVars, asking>>
         \/ \E a \in Actors : Timeout(a)
         \/ Presence \/ Query
         \/ \E g \in Gateways : \E m \in {[m |-> "connected", gate |-> g], [m |-> "disconnected", gate |-> g]} :
              /\ MakeCall(g) /\ CallTell(g) /\ Call(g) = Tell("presence", m)
              /\ box'["presence"] = Append(box["presence"], m) /\ UNCHANGED <<presenceVars, asking>>
         \/ \E a \in Actors : /\ MakeCall(a) /\ CallAsk(a) /\ UNCHANGED <<presenceVars, todo>>
                              /\ box'["presence"] = Append(box["presence"], [m |-> "query", by |-> a])
         \/ \E g \in Gateways : /\ life[g] = "done" \/ monitor[g] = "tell"
                                /\ box'["presence"] = Append(box["presence"], [m |-> "terminated", gate |-> g])
                                /\ UNCHANGED <<presenceVars, asking, life>>
                                /\ \/ MakeCall("presence") \/ Monitor(g)
  <1> USE DEF TypeInv
  <1>1. ASSUME NEW a \in Actors, MakeCall(a), CallTell(a)
        PROVE  \/ UNCHANGED <<box["presence"], presenceVars, asking>>
               \/ /\ a \in Gateways
                  /\ \E m \in {[m |-> "connected", gate |-> a], [m |-> "disconnected", gate |-> a]} :
                       /\ Call(a) = Tell("presence", m)
                       /\ box'["presence"] = Append(box["presence"], m) /\ UNCHANGED <<presenceVars, asking>>
    <2>1. PICK c \in CallsOf(a) : c = Call(a)
      BY <1>1, FirstCall DEF MakeCall
    <2>2. /\ c.do = "tell" /\ Deliver(c.to, c.msg) /\ UNCHANGED <<presenceVars, asking>>
          /\ c.to \in Actors /\ c.msg \in MailOf(c.to)
      BY <1>1, <2>1, TellCalls DEF CallTell
    <2>3. CASE c.to # "presence"
      BY <2>2, <2>3, Names, DeliverOther
    <2>4. CASE c.to = "presence"
      <3>1. a \in Gateways
        BY <2>2, <2>4, PresenceCalls, BusCalls, PushCalls, Names
      <3>2. c \in {Connected(a), Login(a), Pill(a), Asks(a), Gone(a), Done}
        BY <3>1, CallKinds
      <3>3. c \in {Connected(a), Gone(a)}
        BY <2>2, <2>4, <3>1, <3>2, Names DEF Login, Pill, Asks, Done, Tell, Publish
      <3>4. PICK m \in {[m |-> "connected", gate |-> a], [m |-> "disconnected", gate |-> a]} : c = Tell("presence", m)
        BY <3>3 DEF Connected, Gone
      <3>5. c.msg = m /\ m \in Message
        BY <3>1, <3>4 DEF Tell, Message
      <3>6. box'["presence"] = Append(box["presence"], m)
        BY <2>2, <2>4, <3>5, DeliverPresence
      <3> QED
        BY <2>1, <2>2, <3>1, <3>4, <3>6
    <2> QED
      BY <2>3, <2>4
  <1>2. ASSUME NEW a \in Actors, CallAsk(a)
        PROVE  /\ UNCHANGED <<presenceVars, todo>>
               /\ box'["presence"] = Append(box["presence"], [m |-> "query", by |-> a])
    <2>1. [m |-> "query", by |-> a] \in Message
      BY DEF Message
    <2>2. Deliver("presence", [m |-> "query", by |-> a]) /\ UNCHANGED <<presenceVars, todo>>
      BY <1>2 DEF CallAsk
    <2> QED
      BY <2>1, <2>2, DeliverPresence
  <1>3. ASSUME NEW a \in Actors, MakeCall(a), CallWatch(a)
        PROVE  \/ UNCHANGED <<box["presence"], presenceVars, asking>>
               \/ /\ a = "presence"
                  /\ \E g \in Gateways : /\ life[g] = "done" /\ UNCHANGED <<presenceVars, asking, life>>
                                         /\ box'["presence"] = Append(box["presence"], [m |-> "terminated", gate |-> g])
    <2>1. PICK c \in CallsOf(a) : c = Call(a)
      BY <1>3, FirstCall DEF MakeCall
    <2>2. PICK g \in Gateways : g = c.gate
      BY <1>3, <2>1, WatchCalls DEF CallWatch
    <2>3. a = "presence"
      BY <1>3, <2>1, WatchCalls DEF CallWatch
    <2>4. /\ UNCHANGED <<presenceVars, asking, life>>
          /\ \/ UNCHANGED box
             \/ life[g] = "done" /\ Deliver("presence", [m |-> "terminated", gate |-> g])
      BY <1>3, <2>1, <2>2 DEF CallWatch
    <2>5. [m |-> "terminated", gate |-> g] \in Message
      BY DEF Message
    <2> QED
      BY <2>3, <2>4, <2>5, DeliverPresence
  <1>4. ASSUME NEW a \in Actors, MakeCall(a), CallUnwatch(a) \/ CallDone(a)
        PROVE  UNCHANGED <<box["presence"], presenceVars, asking>>
    <2>1. CASE CallUnwatch(a)
      BY <2>1 DEF CallUnwatch
    <2>2. CASE CallDone(a)
      <3>1. PICK c \in CallsOf(a) : c = Call(a)
        BY <1>4, FirstCall DEF MakeCall
      <3>2. a \in Gateways
        BY <2>2, <3>1, WatchCalls DEF CallDone
      <3> QED
        BY <2>2, <3>2, Names DEF CallDone, BoxInv
    <2> QED
      BY <1>4, <2>1, <2>2
  <1>5. ASSUME NEW g \in Gateways, Monitor(g)
        PROVE  \/ UNCHANGED <<box["presence"], presenceVars, asking>>
               \/ /\ monitor[g] = "tell" /\ UNCHANGED <<presenceVars, asking, life>>
                  /\ box'["presence"] = Append(box["presence"], [m |-> "terminated", gate |-> g])
    <2>1. [m |-> "terminated", gate |-> g] \in Message
      BY DEF Message
    <2>2. CASE MonitorTells(g)
      BY <2>1, <2>2, DeliverPresence DEF MonitorTells
    <2>3. CASE MonitorWakes(g)
      BY <2>3 DEF MonitorWakes
    <2> QED
      BY <1>5, <2>2, <2>3 DEF Monitor
  <1>6. Bus \/ Push => UNCHANGED <<box["presence"], presenceVars, asking>>
    BY BusHandles, PushHandles, Names DEF Bus, Push, Pulled, BoxInv
  <1>7. ASSUME Published PROVE UNCHANGED <<box["presence"], presenceVars, asking>>
    <2>1. [ev |-> "message", n |-> news.published + 1] \in MailOf("bus")
      BY Mails DEF Heard, RestType
    <2> QED
      BY <1>7, <2>1, Names, DeliverOther DEF Published
  <1>8. ASSUME NEW g \in Gateways, Gateway(g) \/ OnStart(g)
        PROVE  UNCHANGED <<box["presence"], presenceVars, asking>>
    <2>1. CASE Gateway(g)
      <3>1. Pulled(g) /\ UNCHANGED <<presenceVars, asking>>
        BY <2>1, GatewayHandles
      <3>2. "presence" \in Actors /\ "presence" # g
        BY Names
      <3> QED
        BY <3>1, <3>2 DEF Pulled, BoxInv
    <2>2. CASE OnStart(g)
      BY <2>2, StartHandles
    <2> QED
      BY <1>8, <2>1, <2>2
  <1>9. ASSUME NEW g \in Gateways, Client(g) PROVE UNCHANGED <<box["presence"], presenceVars, asking>>
    <2>1. PICK m \in MailOf(g) : Deliver(g, m)
      BY <1>9, NoticeType DEF Client, ClientAsks, ClientSends, ClientGoes, IdleTimeout, Sends
    <2>2. UNCHANGED box["presence"]
      BY <2>1, Names, DeliverOther
    <2> QED
      BY <1>9, <2>2 DEF Client, ClientAsks, ClientSends, ClientGoes, IdleTimeout, Sends
  <1>10. UNCHANGED vars => UNCHANGED <<box["presence"], presenceVars, asking>>
    BY DEF vars
  <1>11. ASSUME NEW a \in Actors, MakeCall(a)
         PROVE  CallTell(a) \/ CallAsk(a) \/ CallWatch(a) \/ CallUnwatch(a) \/ CallDone(a)
    BY <1>11 DEF MakeCall
  <1> QED
    BY <1>1, <1>2, <1>3, <1>4, <1>5, <1>6, <1>7, <1>8, <1>9, <1>10, <1>11, StepCases

LEMMA AskersStay ==
  ASSUME TypeInv, [Next]_vars, NEW a \in asking, a \in asking'
  PROVE  UNCHANGED todo[a]
  <1> USE DEF TypeInv
  <1>1. a \in Actors /\ todo[a] # <<>> /\ Call(a).do \in {"gateways", "batch"}
    BY DEF AskInv
  <1>2. PICK c \in CallsOf(a) : c = Call(a)
    BY <1>1, FirstCall
  <1>3. a \notin {"presence", "bus"}
    BY <1>1, <1>2, PresenceCalls, BusCalls
  <1>4. ASSUME NEW b \in Actors, MakeCall(b) \/ Timeout(b) PROVE UNCHANGED todo[a]
    <2>1. b # a /\ (Made(b) \/ UNCHANGED todo)
      BY <1>4, MakeCallTodo DEF MakeCall, Timeout
    <2> QED
      BY <1>1, <2>1 DEF Made, TodoInv
  <1>5. CASE Presence
    BY <1>1, <1>3, <1>5, Names, PresenceHandles, PresenceLeaves DEF TodoInv
  <1>6. CASE Query
    <2>1. CASE UNCHANGED todo
      BY <2>1
    <2>2. ASSUME NEW b \in Actors, asking' = asking \ {b}, Made(b) PROVE UNCHANGED todo[a]
      BY <1>1, <2>2 DEF Made, TodoInv
    <2>3. ASSUME asking' = asking \ {"push"}, AnswerGateways("push") \/ AnswerBatch("push") PROVE UNCHANGED todo[a]
      <3>1. a # "push"
        BY <2>3
      <3>2. \E t : todo' = [todo EXCEPT !["push"] = t]
        BY <2>3 DEF AnswerGateways, AnswerBatch
      <3> QED
        BY <1>1, <3>1, <3>2, Names DEF TodoInv
    <2> QED
      BY <1>6, <2>1, <2>2, <2>3, QueryHandles
  <1>7. CASE Bus
    BY <1>1, <1>3, <1>7, Names, BusHandles DEF TodoInv
  <1>8. CASE Push
    <2>1. a # "push"
      BY <1>1, <1>8, PushHandles
    <2> QED
      BY <1>1, <2>1, <1>8, Names, PushHandles DEF TodoInv
  <1>9. ASSUME NEW g \in Gateways, Gateway(g) \/ OnStart(g) PROVE UNCHANGED todo[a]
    <2>1. todo[g] = <<>>
      BY <1>9, GatewayHandles, StartHandles DEF LifeType, GatewayInv
    <2>2. a # g
      BY <1>1, <2>1
    <2> QED
      BY <1>1, <1>9, <2>2, Names, GatewayHandles, StartHandles DEF TodoInv
  <1>10. UNCHANGED vars \/ Published \/ (\E h \in Gateways : Monitor(h) \/ Client(h)) => UNCHANGED todo[a]
    BY DEF vars, Published, Monitor, MonitorWakes, MonitorTells, Client, ClientAsks, ClientSends, ClientGoes,
           IdleTimeout, Sends
  <1> QED
    BY <1>4, <1>5, <1>6, <1>7, <1>8, <1>9, <1>10, StepCases

LEMMA AskStep ==
  ASSUME TypeInv, [Next]_vars
  PROVE  AskInv'
  <1> USE DEF TypeInv
  <1>1. \/ asking' = asking
        \/ \E a \in Actors \cup {None} : asking' = asking \ {a}
        \/ \E a \in Actors : MakeCall(a) /\ CallAsk(a) /\ asking' = asking \cup {a}
    <2>1. Presence => asking' = asking
      BY DEF Presence
    <2>2. Query => \E a \in Actors \cup {None} : asking' = asking \ {a}
      BY DEF Query
    <2>3. \A a \in Actors : /\ Timeout(a) => asking' = asking \ {a}
                            /\ CallAsk(a) => asking' = asking \cup {a}
      BY DEF Timeout, CallAsk
    <2> QED
      BY <2>1, <2>2, <2>3, PresenceMail
  <1>2. asking' \subseteq Actors
    BY <1>1 DEF AskInv
  <1>3. ASSUME NEW a \in asking' PROVE todo'[a] # <<>> /\ Call(a)'.do \in {"gateways", "batch"}
    <2>1. CASE a \in asking
      BY <1>3, <2>1, AskersStay DEF AskInv, Call
    <2>2. CASE a \notin asking
      <3>1. MakeCall(a) /\ CallAsk(a)
        BY <1>1, <1>3, <2>2
      <3> QED
        BY <3>1 DEF MakeCall, CallAsk, Call
    <2> QED
      BY <2>1, <2>2
  <1> DEFINE q == box["presence"]
             r == box'["presence"]
             X(a) == [m |-> "query", by |-> a]
             Fine == \A i \in DOMAIN r : \A a \in Actors :
                       r[i] = X(a) => a \in asking' /\ \A j \in DOMAIN r : r[j] = X(a) => j = i
  <1>4. q \in Seq(Message) /\ BoxInv'
    BY Names, Mails, BoxStep DEF BoxInv
  <1>5. \A i \in DOMAIN q : \A a \in Actors : q[i] = X(a) => a \in asking /\ \A j \in DOMAIN q : q[j] = X(a) => j = i
    BY DEF AskInv, QueryAt
  <1>6. \A a, b : X(a) = X(b) => a = b
    <2> SUFFICES ASSUME NEW a, NEW b, X(a) = X(b) PROVE a = b
      OBVIOUS
    <2>1. X(a).by = a /\ X(b).by = b
      OBVIOUS
    <2> QED
      BY <2>1
  <1>7. ASSUME r = q, asking' = asking PROVE Fine
    BY <1>5, <1>7
  <1>8. ASSUME NEW m \in Message, r = Append(q, m), asking' = asking, \A a : m # X(a) PROVE Fine
    <2> HIDE DEF X
    <2>1. /\ Len(q) \in Nat /\ DOMAIN q = 1..Len(q) /\ DOMAIN r = 1..(Len(q) + 1)
          /\ \A i \in 1..Len(q) : r[i] = q[i]
          /\ r[Len(q) + 1] = m
      BY <1>4, <1>8, AppendFacts
    <2>2. \A i \in DOMAIN r : i \in DOMAIN q \/ i = Len(q) + 1
      BY <2>1
    <2>3. \A i \in DOMAIN r : \A a : r[i] = X(a) => i \in DOMAIN q /\ q[i] = X(a)
      BY <1>8, <2>1, <2>2
    <2> HIDE DEF q, r
    <2> QED
      BY <1>5, <1>8, <2>3
  <1>9. ASSUME NEW b \in Actors, b \notin asking, r = Append(q, X(b)), asking' = asking \cup {b} PROVE Fine
    <2>1. X(b) \in Message
      BY DEF Message
    <2> HIDE DEF X
    <2>2. /\ Len(q) \in Nat /\ DOMAIN q = 1..Len(q) /\ DOMAIN r = 1..(Len(q) + 1)
          /\ \A i \in 1..Len(q) : r[i] = q[i]
          /\ r[Len(q) + 1] = X(b)
      BY <1>4, <1>9, <2>1, AppendFacts
    <2>3. \A i \in DOMAIN r : (i \in DOMAIN q /\ r[i] = q[i]) \/ (i = Len(q) + 1 /\ r[i] = X(b))
      BY <2>2
    <2>4. \A i \in DOMAIN q : q[i] # X(b)
      BY <1>5, <1>9
    <2> HIDE DEF q, r
    <2>5. \A i \in DOMAIN r : r[i] = X(b) => i = Len(q) + 1
      BY <2>3, <2>4
    <2>6. \A i \in DOMAIN r : \A a \in Actors : r[i] = X(a) /\ a # b => i \in DOMAIN q /\ q[i] = X(a)
      BY <1>6, <2>3
    <2> QED
      BY <1>5, <1>9, <2>5, <2>6
  <1>10. ASSUME q # <<>>, r = Tail(q), NEW b, q[1] = X(b), asking' = asking \ {b} PROVE Fine
    <2> HIDE DEF X
    <2>1. /\ Len(q) \in Nat /\ DOMAIN q = 1..Len(q) /\ DOMAIN r = 1..(Len(q) - 1) /\ 1 \in DOMAIN q
          /\ \A i \in 1..(Len(q) - 1) : r[i] = q[i + 1]
      BY <1>4, <1>10, TailFacts
    <2>2. \A i \in DOMAIN r : i + 1 \in DOMAIN q /\ r[i] = q[i + 1] /\ i + 1 # 1 /\ i \in Int
      BY <2>1
    <2> HIDE DEF q, r
    <2>3. ASSUME NEW i \in DOMAIN r, NEW a \in Actors, r[i] = X(a)
          PROVE  a \in asking' /\ \A j \in DOMAIN r : r[j] = X(a) => j = i
      <3>1. a \in asking /\ \A j \in DOMAIN r : r[j] = X(a) => j + 1 = i + 1
        BY <1>5, <2>2, <2>3
      <3>2. a # b
        BY <1>5, <1>10, <2>1, <2>2, <2>3
      <3> QED
        BY <1>10, <2>2, <3>1, <3>2
    <2> QED
      BY <2>3
  <1>11. ASSUME q # <<>>, r = Tail(q), \A b : q[1] # X(b), asking' = asking PROVE Fine
    <2> HIDE DEF X
    <2>1. /\ Len(q) \in Nat /\ DOMAIN q = 1..Len(q) /\ DOMAIN r = 1..(Len(q) - 1) /\ 1 \in DOMAIN q
          /\ \A i \in 1..(Len(q) - 1) : r[i] = q[i + 1]
      BY <1>4, <1>11, TailFacts
    <2>2. \A i \in DOMAIN r : i + 1 \in DOMAIN q /\ r[i] = q[i + 1] /\ i \in Int
      BY <2>1
    <2> HIDE DEF q, r
    <2>3. ASSUME NEW i \in DOMAIN r, NEW a \in Actors, r[i] = X(a)
          PROVE  a \in asking' /\ \A j \in DOMAIN r : r[j] = X(a) => j = i
      <3>1. a \in asking /\ \A j \in DOMAIN r : r[j] = X(a) => j + 1 = i + 1
        BY <1>5, <2>2, <2>3
      <3> QED
        BY <1>11, <2>2, <3>1
    <2> QED
      BY <2>3
  <1>12. ASSUME NEW b \in Actors, Timeout(b) PROVE Fine
    <2>1. DOMAIN r = DOMAIN q /\ \A i \in DOMAIN q : r[i] = IF q[i] = X(b) THEN X(None) ELSE q[i]
      BY <1>12, TimeoutBox
    <2>2. asking' = asking \ {b}
      BY <1>12 DEF Timeout
    <2> HIDE DEF q, r, X
    <2>3. \A i \in DOMAIN q : \A a \in Actors : r[i] = X(a) => q[i] = X(a) /\ a # b
      BY <1>6, <2>1, Names
    <2> QED
      BY <1>5, <2>1, <2>2, <2>3
  <1>13. Fine
    <2>1. CASE Presence
      <3>1. q # <<>> /\ r = Tail(q) /\ asking' = asking /\ Head(q) = q[1]
        BY <1>4, <2>1, PresenceHandles, TailFacts, Names DEF Presence, Pulled, BoxInv
      <3>2. \A b : Head(q) # X(b)
        <4>1. PICK g \in Gateways, k \in {"connected", "disconnected", "terminated"} : Head(q) = [m |-> k, gate |-> g]
          BY <2>1, PresenceHandles
        <4>2. Head(q).m # "query"
          BY <4>1
        <4> QED
          BY <4>2
      <3> QED
        BY <1>11, <3>1, <3>2
    <2>2. CASE Query
      <3>1. q # <<>> /\ r = Tail(q) /\ Head(q) = q[1]
        BY <1>4, <2>2, QueryHandles, TailFacts, Names DEF Pulled, BoxInv
      <3>2. \E b : Head(q) = X(b) /\ asking' = asking \ {b}
        BY <2>2, QueryHandles
      <3> QED
        BY <1>10, <3>1, <3>2
    <2>3. ASSUME NEW g \in Gateways, NEW k \in {"connected", "disconnected", "terminated"}, asking' = asking,
                 r = Append(q, [m |-> k, gate |-> g])
          PROVE  Fine
      <3>1. [m |-> k, gate |-> g] \in Message /\ \A a : [m |-> k, gate |-> g] # X(a)
        BY DEF Message
      <3> QED
        BY <1>8, <2>3, <3>1
    <2>4. ASSUME NEW a \in Actors, MakeCall(a), CallAsk(a), r = Append(q, X(a)) PROVE Fine
      BY <1>9, <2>4 DEF MakeCall, CallAsk
    <2> HIDE DEF Fine
    <2> QED
      BY <1>7, <1>12, <2>1, <2>2, <2>3, <2>4, PresenceMail DEF Fine
  <1>14. \A i \in DOMAIN r : \A a \in Actors : QueryAt(i, a)' => a \in asking' /\ \A j \in DOMAIN r : QueryAt(j, a)' => j = i
    BY <1>13 DEF QueryAt
  <1> QED
    BY <1>2, <1>3, <1>14 DEF AskInv

LEMMA TypeStep ==
  ASSUME TypeInv, [Next]_vars
  PROVE  TypeInv'
  BY BoxStep, TodoStep, MapStep, LifeStep, AskStep, RestStep DEF TypeInv

LEMMA TypeInit == Init => TypeInv
  <1> SUFFICES ASSUME Init PROVE TypeInv
    OBVIOUS
  <1> USE DEF Init
  <1>1. BoxInv /\ TodoInv
    BY DEF BoxInv, TodoInv
  <1>2. MapType
    BY DEF MapType
  <1>3. LifeType
    BY Names DEF LifeType, GatewayInv
  <1>4. AskInv
    BY Names DEF AskInv
  <1>5. RestType
    BY DEF RestType
  <1> QED
    BY <1>1, <1>2, <1>3, <1>4, <1>5 DEF TypeInv

\* Every call is one its actor makes, and a gateway's calls follow its life.
THEOREM TypeInvariant == Spec => []TypeInv
  <1>1. Init => TypeInv
    BY TypeInit
  <1>2. TypeInv /\ [Next]_vars => TypeInv'
    BY TypeStep
  <1> QED
    BY <1>1, <1>2, PTL DEF Spec

-----------------------------------------------------------------------------
(* Who waits for whom. *)

LEMMA Waits ==
  ASSUME TodoInv, NEW a \in Actors, WaitsFor(a) # None
  PROVE  /\ a = "presence" => WaitsFor(a) \in {"presence", "bus"}
         /\ a = "bus" => WaitsFor(a) = "push"
         /\ a = "push" => WaitsFor(a) \in Gateways \cup {"presence"}
         /\ a \in Gateways => WaitsFor(a) \in {"presence", "bus", a}
  <1>1. todo[a] # <<>> /\ WaitsFor(a) = Target(a) /\ Target(a) # None
    BY DEF WaitsFor
  <1>2. PICK c \in CallsOf(a) : c = Call(a)
    BY <1>1, FirstCall
  <1>3. \/ c.do = "tell" /\ Target(a) = c.to
        \/ c.do # "tell" /\ Target(a) = "presence" /\ c.do \in {"gateways", "batch", "watch"}
    BY <1>1, <1>2 DEF Target
  <1>4. CASE a = "presence"
    BY <1>1, <1>2, <1>3, <1>4, PresenceCalls, Names
  <1>5. CASE a = "bus"
    BY <1>1, <1>2, <1>3, <1>5, BusCalls, Names
  <1>6. CASE a = "push"
    BY <1>1, <1>2, <1>3, <1>6, PushCalls, Names
  <1>7. CASE a \in Gateways
    BY <1>1, <1>2, <1>3, <1>7, GatewayCallKinds, Names
  <1> QED
    BY <1>4, <1>5, <1>6, <1>7, Names

LEMMA RingsClose == TypeInv => DeadlocksNamed
  <1> SUFFICES ASSUME TypeInv, NEW S \in Rings, \A a \in S : WaitsFor(a) # a
               PROVE  "bus" \in S /\ WaitsFor("bus") = "push"
    BY DEF DeadlocksNamed
  <1>1. S # {} /\ \A a \in S : a \in Actors /\ WaitsFor(a) # None /\ WaitsFor(a) \in S
    BY DEF Rings
  <1>2. "presence" \in S => "bus" \in S
    BY <1>1, Waits DEF TypeInv
  <1>3. \A g \in Gateways : g \in S => "bus" \in S
    BY <1>1, <1>2, Waits DEF TypeInv
  <1>4. "push" \in S => "bus" \in S
    BY <1>1, <1>2, <1>3, Waits DEF TypeInv
  <1>5. "bus" \in S
    BY <1>1, <1>2, <1>3, <1>4, Names
  <1>6. WaitsFor("bus") = "push"
    BY <1>1, <1>5, Waits DEF TypeInv
  <1> QED
    BY <1>5, <1>6

\* Actors can stop each other only where one tells itself before its own full
\* mailbox, or where the bus waits for the push actor.
THEOREM DeadlocksAreNamed == Spec => []DeadlocksNamed
  BY TypeInvariant, RingsClose, PTL

-----------------------------------------------------------------------------
(* What presence knows. *)

\* Presence has been told that g is there, and that it is gone.
Told(g) == life[g] # "new" /\ todo[g] \notin {<<Connected(g)>>, <<Connected(g), Login(g)>>}
Left(g) == life[g] = "done" \/ todo[g] = <<Done>>

Coming(g) == [m |-> "connected", gate |-> g]
Leaving(g) == [m |-> "disconnected", gate |-> g]
Ended(g) == [m |-> "terminated", gate |-> g]
QueryBy(g) == [m |-> "query", by |-> g]

\* In presence's mailbox the coming of g is before all else of it, and its
\* leaving before its end; each of the two is there once.
InOrder(g, q) ==
  \A i, j \in DOMAIN q :
    /\ q[i] = Coming(g) /\ q[j] \in {Coming(g), Leaving(g), Ended(g), QueryBy(g)} => i <= j
    /\ q[i] = Leaving(g) /\ q[j] \in {Leaving(g), Ended(g)} => i <= j

Has(q, m) == \E i \in DOMAIN q : q[i] = m

Known(g) == Told(g) /\ ~Has(box["presence"], Coming(g)) /\ (Left(g) => Has(box["presence"], Leaving(g)))

NoticeInv(g) ==
  /\ Has(box["presence"], Coming(g)) => Told(g) /\ (Left(g) => Has(box["presence"], Leaving(g)))
  /\ Has(box["presence"], Leaving(g)) => Left(g)
  /\ Has(box["presence"], Ended(g)) \/ monitor[g] = "tell" => life[g] = "done"
  /\ InOrder(g, box["presence"])
  /\ gatewayUID[g] = IF Known(g) THEN OwnerOf[g] ELSE None

MapInv == \A u \in Users : /\ gateways[u] = {g \in Gateways : gatewayUID[g] = u}
                           /\ u \in online <=> gateways[u] # {}

PresenceInv == TypeInv /\ MapInv /\ \A g \in Gateways : NoticeInv(g)

\* Mailboxes that grow and shrink.
LEMMA HasAppend ==
  ASSUME NEW S, NEW q \in Seq(S), NEW x \in S, NEW m
  PROVE  Has(Append(q, x), m) <=> x = m \/ Has(q, m)
  <1>1. /\ Len(q) \in Nat /\ DOMAIN q = 1..Len(q) /\ DOMAIN Append(q, x) = 1..(Len(q) + 1)
        /\ \A i \in 1..Len(q) : Append(q, x)[i] = q[i]
        /\ Append(q, x)[Len(q) + 1] = x
    BY AppendFacts
  <1> DEFINE r == Append(q, x)
             n == Len(q)
  <1>2. n \in Nat /\ DOMAIN q = 1..n /\ DOMAIN r = 1..(n + 1) /\ (\A i \in 1..n : r[i] = q[i]) /\ r[n + 1] = x
    BY <1>1
  <1> HIDE DEF r, n
  <1>3. n + 1 \in DOMAIN r /\ DOMAIN q \subseteq DOMAIN r /\ \A i \in DOMAIN r : i \in DOMAIN q \/ i = n + 1
    BY <1>2
  <1>4. Has(r, m) <=> x = m \/ Has(q, m)
    BY <1>2, <1>3 DEF Has
  <1> QED
    BY <1>4 DEF r

LEMMA HasTail ==
  ASSUME NEW S, NEW q \in Seq(S), q # <<>>, NEW m
  PROVE  Has(q, m) <=> Head(q) = m \/ Has(Tail(q), m)
  <1> DEFINE r == Tail(q)
             n == Len(q)
  <1>1. /\ n \in Nat /\ n >= 1 /\ DOMAIN q = 1..n /\ DOMAIN r = 1..(n - 1) /\ Head(q) = q[1]
        /\ \A i \in 1..(n - 1) : r[i] = q[i + 1]
    BY TailFacts
  <1> HIDE DEF r, n
  <1>2. 1 \in DOMAIN q /\ \A i \in DOMAIN r : i + 1 \in DOMAIN q /\ r[i] = q[i + 1]
    BY <1>1
  <1>3. \A i \in DOMAIN q : i = 1 \/ (i - 1 \in DOMAIN r /\ r[i - 1] = q[i])
    BY <1>1
  <1>4. Has(q, m) <=> Head(q) = m \/ Has(r, m)
    BY <1>1, <1>2, <1>3 DEF Has
  <1> QED
    BY <1>4 DEF r

LEMMA OrderAppend ==
  ASSUME NEW S, NEW q \in Seq(S), NEW x \in S, NEW g, InOrder(g, q),
         x = Coming(g) => \A y \in {Coming(g), Leaving(g), Ended(g), QueryBy(g)} : ~Has(q, y),
         x = Leaving(g) => \A y \in {Leaving(g), Ended(g)} : ~Has(q, y)
  PROVE  InOrder(g, Append(q, x))
  <1> DEFINE r == Append(q, x)
             n == Len(q)
  <1>1. n \in Nat /\ DOMAIN q = 1..n /\ DOMAIN r = 1..(n + 1) /\ (\A i \in 1..n : r[i] = q[i]) /\ r[n + 1] = x
    BY AppendFacts
  <1> HIDE DEF r, n
  <1>2. \A i \in DOMAIN r : (i \in DOMAIN q /\ r[i] = q[i] /\ i <= n + 1) \/ (i = n + 1 /\ r[i] = x)
    BY <1>1
  <1>3. InOrder(g, r)
    <2> SUFFICES ASSUME NEW i \in DOMAIN r, NEW j \in DOMAIN r
                 PROVE  /\ r[i] = Coming(g) /\ r[j] \in {Coming(g), Leaving(g), Ended(g), QueryBy(g)} => i <= j
                        /\ r[i] = Leaving(g) /\ r[j] \in {Leaving(g), Ended(g)} => i <= j
      BY DEF InOrder
    <2>1. CASE i \in DOMAIN q /\ r[i] = q[i] /\ j \in DOMAIN q /\ r[j] = q[j]
      BY <2>1 DEF InOrder
    <2>2. CASE i \in DOMAIN r /\ i <= n + 1 /\ j = n + 1
      BY <2>2
    <2>3. CASE i = n + 1 /\ r[i] = x /\ j \in DOMAIN q /\ r[j] = q[j]
      <3>1. \A y : r[j] = y => Has(q, y)
        BY <2>3 DEF Has
      <3> QED
        BY <2>3, <3>1
    <2>4. i <= n + 1
      BY <1>1
    <2> QED
      BY <1>2, <2>1, <2>2, <2>3, <2>4
  <1> QED
    BY <1>3 DEF r

LEMMA OrderTail ==
  ASSUME NEW S, NEW q \in Seq(S), q # <<>>, NEW g, InOrder(g, q)
  PROVE  /\ InOrder(g, Tail(q))
         /\ Head(q) \in {Coming(g), Leaving(g), Ended(g), QueryBy(g)} => ~Has(Tail(q), Coming(g))
         /\ Head(q) \in {Leaving(g), Ended(g)} => ~Has(Tail(q), Leaving(g))
  <1> DEFINE r == Tail(q)
             n == Len(q)
  <1>1. /\ n \in Nat /\ n >= 1 /\ DOMAIN q = 1..n /\ DOMAIN r = 1..(n - 1) /\ Head(q) = q[1]
        /\ \A i \in 1..(n - 1) : r[i] = q[i + 1]
    BY TailFacts
  <1> HIDE DEF r, n
  <1>2. 1 \in DOMAIN q /\ \A i \in DOMAIN r : i \in Int /\ i + 1 > 1 /\ i + 1 \in DOMAIN q /\ r[i] = q[i + 1]
    BY <1>1
  <1>3. InOrder(g, r)
    <2> SUFFICES ASSUME NEW i \in DOMAIN r, NEW j \in DOMAIN r
                 PROVE  /\ r[i] = Coming(g) /\ r[j] \in {Coming(g), Leaving(g), Ended(g), QueryBy(g)} => i <= j
                        /\ r[i] = Leaving(g) /\ r[j] \in {Leaving(g), Ended(g)} => i <= j
      BY DEF InOrder
    <2>1. /\ q[i + 1] = Coming(g) /\ q[j + 1] \in {Coming(g), Leaving(g), Ended(g), QueryBy(g)} => i + 1 <= j + 1
          /\ q[i + 1] = Leaving(g) /\ q[j + 1] \in {Leaving(g), Ended(g)} => i + 1 <= j + 1
      BY <1>2 DEF InOrder
    <2>2. i + 1 <= j + 1 => i <= j
      BY <1>2
    <2> QED
      BY <1>2, <2>1, <2>2
  <1>4. ASSUME NEW j \in DOMAIN r
        PROVE  /\ q[1] \in {Coming(g), Leaving(g), Ended(g), QueryBy(g)} => r[j] # Coming(g)
               /\ q[1] \in {Leaving(g), Ended(g)} => r[j] # Leaving(g)
    <2>1. /\ q[j + 1] = Coming(g) /\ q[1] \in {Coming(g), Leaving(g), Ended(g), QueryBy(g)} => j + 1 <= 1
          /\ q[j + 1] = Leaving(g) /\ q[1] \in {Leaving(g), Ended(g)} => j + 1 <= 1
      BY <1>2 DEF InOrder
    <2>2. ~(j + 1 <= 1)
      BY <1>2
    <2> QED
      BY <1>2, <2>1, <2>2
  <1>5. InOrder(g, Tail(q))
    BY <1>3 DEF r
  <1>6. Head(q) \in {Coming(g), Leaving(g), Ended(g), QueryBy(g)} => ~Has(r, Coming(g))
    BY <1>1, <1>4 DEF Has
  <1>7. Head(q) \in {Leaving(g), Ended(g)} => ~Has(r, Leaving(g))
    BY <1>1, <1>4 DEF Has
  <1> QED
    BY <1>5, <1>6, <1>7 DEF r

\* A gateway's calls, told apart.
LEMMA TodoShapes ==
  ASSUME NEW g \in Gateways
  PROVE  LET before == {<<Connected(g)>>, <<Connected(g), Login(g)>>}
         IN  /\ \A s \in {<<>>, <<Login(g)>>, <<Pill(g)>>, <<Asks(g)>>, <<Gone(g), Done>>, <<Done>>} : s \notin before
             /\ \A s \in before \cup {<<>>, <<Login(g)>>, <<Pill(g)>>, <<Asks(g)>>, <<Gone(g), Done>>} : s # <<Done>>
  <1>1. /\ Login(g) # Connected(g) /\ Pill(g) # Connected(g) /\ Asks(g) # Connected(g) /\ Done # Connected(g)
        /\ Login(g) # Done /\ Pill(g) # Done /\ Asks(g) # Done /\ Gone(g) # Done
    BY Names DEF Connected, Login, Pill, Asks, Gone, Done, Tell, Publish
  <1>2. Gone(g) # Connected(g)
    <2>1. Gone(g).msg = [m |-> "disconnected", gate |-> g] /\ Connected(g).msg = [m |-> "connected", gate |-> g]
      BY DEF Gone, Connected, Tell
    <2>2. [m |-> "disconnected", gate |-> g] # [m |-> "connected", gate |-> g]
      OBVIOUS
    <2> QED
      BY <2>1, <2>2
  <1> DEFINE c == Connected(g)
             l == Login(g)
             p == Pill(g)
             a == Asks(g)
             n == Gone(g)
             d == Done
  <1>3. l # c /\ p # c /\ a # c /\ d # c /\ n # c /\ l # d /\ p # d /\ a # d /\ n # d
    BY <1>1, <1>2
  <1> HIDE DEF c, l, p, a, n, d
  <1>4. /\ Head(<<l>>) = l /\ Head(<<p>>) = p /\ Head(<<a>>) = a /\ Head(<<n, d>>) = n /\ Head(<<d>>) = d
        /\ Head(<<c>>) = c /\ Head(<<c, l>>) = c /\ <<c>> # <<>> /\ <<c, l>> # <<>> /\ <<d>> # <<>>
    BY TailShort
  <1>5. /\ \A s \in {<<>>, <<l>>, <<p>>, <<a>>, <<n, d>>, <<d>>} : s \notin {<<c>>, <<c, l>>}
        /\ \A s \in {<<c>>, <<c, l>>} \cup {<<>>, <<l>>, <<p>>, <<a>>, <<n, d>>} : s # <<d>>
    BY <1>3, <1>4
  <1> QED
    BY <1>5 DEF c, l, p, a, n, d

LEMMA FirstOfGateway ==
  ASSUME TypeInv, NEW g \in Gateways, todo[g] # <<>>
  PROVE  \/ todo[g] = <<Connected(g)>> /\ life[g] = "up" /\ reader[g] = "off" /\ Call(g) = Connected(g)
         \/ todo[g] = <<Connected(g), Login(g)>> /\ life[g] = "up" /\ reader[g] = "off" /\ Call(g) = Connected(g)
         \/ todo[g] = <<Login(g)>> /\ life[g] = "up" /\ reader[g] = "off" /\ Call(g) = Login(g)
         \/ todo[g] = <<Pill(g)>> /\ life[g] = "up" /\ reader[g] # "off" /\ Call(g) = Pill(g)
         \/ todo[g] = <<Asks(g)>> /\ life[g] = "up" /\ reader[g] # "off" /\ Call(g) = Asks(g)
         \/ todo[g] = <<Gone(g), Done>> /\ life[g] = "ending" /\ reader[g] # "off" /\ Call(g) = Gone(g)
         \/ todo[g] = <<Done>> /\ life[g] = "ending" /\ reader[g] # "off" /\ Call(g) = Done
  <1>1. GatewayInv(g) /\ life[g] \in {"new", "up", "ending", "done"}
    BY DEF TypeInv, LifeType
  <1>2. /\ Head(<<Connected(g)>>) = Connected(g) /\ Head(<<Connected(g), Login(g)>>) = Connected(g)
        /\ Head(<<Login(g)>>) = Login(g) /\ Head(<<Pill(g)>>) = Pill(g) /\ Head(<<Asks(g)>>) = Asks(g)
        /\ Head(<<Gone(g), Done>>) = Gone(g) /\ Head(<<Done>>) = Done
    BY TailShort
  <1> QED
    BY <1>1, <1>2 DEF GatewayInv, Call

\* A gateway makes the call c.
Makes(g, c) == MakeCall(g) /\ CallTell(g) /\ Call(g) = c

LEMMA ToldMoves ==
  ASSUME TypeInv, [Next]_vars, NEW g \in Gateways
  PROVE  /\ Left(g) => Told(g)
         /\ Makes(g, Connected(g)) => ~Told(g) /\ Told(g)' /\ ~Left(g) /\ ~Left(g)'
         /\ Makes(g, Gone(g)) => Told(g) /\ Told(g)' /\ ~Left(g) /\ Left(g)'
         /\ ~Makes(g, Connected(g)) /\ ~Makes(g, Gone(g)) => (Told(g)' <=> Told(g)) /\ (Left(g)' <=> Left(g))
         /\ life[g] = "done" => life'[g] = "done"
  <1> USE DEF TypeInv
  <1> DEFINE before == {<<Connected(g)>>, <<Connected(g), Login(g)>>}
  <1>1. /\ \A s \in {<<>>, <<Login(g)>>, <<Pill(g)>>, <<Asks(g)>>, <<Gone(g), Done>>, <<Done>>} : s \notin before
        /\ \A s \in before \cup {<<>>, <<Login(g)>>, <<Pill(g)>>, <<Asks(g)>>, <<Gone(g), Done>>} : s # <<Done>>
    BY TodoShapes
  <1>2. /\ GatewayInv(g) /\ life[g] \in {"new", "up", "ending", "done"}
        /\ todo' = [a \in Actors |-> todo'[a]] /\ g \in Actors
    BY TodoStep, Names DEF LifeType, TodoInv
  <1>3. Left(g) => Told(g)
    BY <1>1, <1>2 DEF GatewayInv, Left, Told
  <1>4. Connected(g) # Gone(g) /\ Connected(g).do = "tell" /\ Gone(g).do = "tell" /\ Login(g).do = "tell"
        /\ Pill(g).do = "tell" /\ Asks(g).do = "batch" /\ Done.do = "done"
    <2>1. Gone(g).msg = [m |-> "disconnected", gate |-> g] /\ Connected(g).msg = [m |-> "connected", gate |-> g]
      BY DEF Gone, Connected, Tell
    <2>2. [m |-> "disconnected", gate |-> g] # [m |-> "connected", gate |-> g]
      OBVIOUS
    <2>3. Gone(g) # Connected(g)
      BY <2>1, <2>2
    <2> QED
      BY <2>3 DEF Connected, Gone, Login, Pill, Asks, Done, Tell, Publish
  <1>5. /\ Tail(<<Connected(g)>>) = <<>> /\ Tail(<<Connected(g), Login(g)>>) = <<Login(g)>>
        /\ Tail(<<Login(g)>>) = <<>> /\ Tail(<<Pill(g)>>) = <<>> /\ Tail(<<Gone(g), Done>>) = <<Done>>
        /\ Tail(<<Asks(g)>>) = <<>> /\ Tail(<<Done>>) = <<>>
    BY TailShort
  <1>6. ASSUME MakeCall(g), CallTell(g)
        PROVE  todo'[g] = Tail(todo[g]) /\ life'[g] = life[g] /\ Call(g).do = "tell" /\ todo[g] # <<>>
    BY <1>2, <1>6 DEF MakeCall, CallTell, Made, TodoInv
  <1>7. Makes(g, Connected(g)) => ~Told(g) /\ Told(g)' /\ ~Left(g) /\ ~Left(g)'
    <2> SUFFICES ASSUME Makes(g, Connected(g)) PROVE ~Told(g) /\ Told(g)' /\ ~Left(g) /\ ~Left(g)'
      OBVIOUS
    <2>1. MakeCall(g) /\ CallTell(g) /\ Call(g) = Connected(g)
      BY DEF Makes
    <2>2. life[g] = "up" /\ todo[g] \in before
      BY <1>4, <1>6, <2>1, FirstOfGateway, <1>1, TailShort
    <2>3. life'[g] = "up" /\ todo'[g] \in {<<>>, <<Login(g)>>}
      BY <1>5, <1>6, <2>1, <2>2
    <2> QED
      BY <1>1, <2>2, <2>3 DEF Told, Left
  <1>8. Makes(g, Gone(g)) => Told(g) /\ Told(g)' /\ ~Left(g) /\ Left(g)'
    <2> SUFFICES ASSUME Makes(g, Gone(g)) PROVE Told(g) /\ Told(g)' /\ ~Left(g) /\ Left(g)'
      OBVIOUS
    <2>1. MakeCall(g) /\ CallTell(g) /\ Call(g) = Gone(g)
      BY DEF Makes
    <2>2. life[g] = "ending" /\ todo[g] = <<Gone(g), Done>>
      <3>1. Gone(g) # Login(g) /\ Gone(g) # Pill(g)
        BY Names DEF Gone, Login, Pill, Tell, Publish
      <3> QED
        BY <1>4, <1>6, <2>1, <3>1, FirstOfGateway
    <2>3. life'[g] = "ending" /\ todo'[g] = <<Done>>
      BY <1>5, <1>6, <2>1, <2>2
    <2> QED
      BY <1>1, <2>2, <2>3 DEF Told, Left
  <1> DEFINE Same == (Told(g)' <=> Told(g)) /\ (Left(g)' <=> Left(g)) /\ (life[g] = "done" => life'[g] = "done")
  <1>9. ASSUME MakeCall(g), ~Makes(g, Connected(g)), ~Makes(g, Gone(g)) PROVE Same
    <2>1. CASE CallTell(g)
      <3>1. Call(g) # Connected(g) /\ Call(g) # Gone(g)
        BY <1>9, <2>1 DEF Makes
      <3>2. life[g] = "up" /\ todo[g] \in {<<Login(g)>>, <<Pill(g)>>} /\ todo'[g] = <<>> /\ life'[g] = "up"
        BY <1>4, <1>5, <1>6, <1>9, <2>1, <3>1, FirstOfGateway
      <3> QED
        BY <1>1, <3>2 DEF Told, Left
    <2>2. CASE CallAsk(g)
      BY <2>2 DEF CallAsk, Told, Left
    <2>3. CASE CallWatch(g) \/ CallUnwatch(g)
      <3>1. todo[g] # <<>> /\ Call(g).do \in {"watch", "unwatch"}
        BY <1>9, <2>3 DEF MakeCall, CallWatch, CallUnwatch
      <3> QED
        BY <1>4, <3>1, FirstOfGateway
    <2>4. CASE CallDone(g)
      <3>1. Call(g).do = "done" /\ todo[g] # <<>> /\ Made(g) /\ life' = [life EXCEPT ![g] = "done"]
        BY <1>9, <2>4 DEF MakeCall, CallDone
      <3>2. todo[g] = <<Done>> /\ life[g] = "ending"
        BY <1>4, <3>1, FirstOfGateway
      <3>3. todo'[g] = <<>> /\ life'[g] = "done"
        BY <1>2, <1>5, <3>1, <3>2 DEF Made, LifeType, TodoInv
      <3> QED
        BY <1>1, <3>2, <3>3 DEF Told, Left
    <2> QED
      BY <1>9, <2>1, <2>2, <2>3, <2>4 DEF MakeCall
  <1>10. CASE Gateway(g)
    <2>1. life[g] = "up" /\ todo[g] = <<>>
      BY <1>10, GatewayHandles
    <2>2. \/ todo'[g] = <<>> /\ life'[g] = "up"
          \/ todo'[g] = <<Pill(g)>> /\ life'[g] = "up"
          \/ todo'[g] = <<Asks(g)>> /\ life'[g] = "up"
          \/ todo'[g] = <<Gone(g), Done>> /\ life'[g] = "ending"
      <3>1. /\ todo' = todo => todo'[g] = <<>>
            /\ \A c : todo' = [todo EXCEPT ![g] = c] => todo'[g] = c
        BY <2>1, <1>2 DEF TodoInv
      <3>2. /\ life' = life => life'[g] = "up"
            /\ life' = [life EXCEPT ![g] = "ending"] => life'[g] = "ending"
        BY <2>1 DEF LifeType
      <3> QED
        BY <1>10, <3>1, <3>2, GatewayHandles
    <2>3. Same
      BY <1>1, <2>1, <2>2 DEF Told, Left
    <2>4. ~MakeCall(g)
      BY <2>1 DEF MakeCall
    <2> QED
      BY <2>3, <2>4, <1>3 DEF Makes
  <1>11. CASE OnStart(g)
    <2>1. life[g] = "new" /\ todo[g] = <<>>
      BY <1>2, <1>11, StartHandles DEF GatewayInv
    <2>2. life'[g] = "up" /\ todo'[g] \in before
      <3>1. \A c : todo' = [todo EXCEPT ![g] = c] => todo'[g] = c
        BY <1>2 DEF TodoInv
      <3>2. life' = [life EXCEPT ![g] = "up"] => life'[g] = "up"
        BY DEF LifeType
      <3> QED
        BY <1>11, <3>1, <3>2, StartHandles
    <2>3. Same
      BY <1>1, <2>1, <2>2 DEF Told, Left
    <2>4. ~MakeCall(g)
      BY <2>1 DEF MakeCall
    <2> QED
      BY <2>3, <2>4, <1>3 DEF Makes
  <1>12. CASE Timeout(g) \/ (g \in asking /\ todo[g] # <<>> /\ Call(g).do = "batch" /\ todo'[g] = Tail(todo[g]) /\ Query
                             /\ UNCHANGED <<life, reader>>)
    <2>1. /\ g \in asking /\ todo[g] # <<>> /\ Call(g).do \in {"gateways", "batch"}
          /\ todo'[g] = Tail(todo[g]) /\ UNCHANGED life
      BY <1>2, <1>12 DEF Timeout, AskInv, Made, TodoInv
    <2>2. todo[g] = <<Asks(g)>> /\ life[g] = "up"
      BY <1>4, <2>1, FirstOfGateway
    <2>3. todo'[g] = <<>> /\ life'[g] = "up"
      BY <1>5, <2>1, <2>2
    <2>4. Same
      BY <1>1, <2>2, <2>3 DEF Told, Left
    <2>5. ~MakeCall(g)
      BY <2>1 DEF MakeCall
    <2> QED
      BY <2>4, <2>5, <1>3 DEF Makes
  <1>13. CASE UNCHANGED <<todo[g], life[g]>> /\ ~MakeCall(g)
    BY <1>3, <1>13 DEF Told, Left, Makes
  <1>14. CASE MakeCall(g)
    <2>1. life[g] # "done"
      BY <1>2, <1>14 DEF MakeCall, GatewayInv
    <2> QED
      BY <1>3, <1>7, <1>8, <1>9, <1>14, <2>1
  <1> QED
    BY <1>10, <1>11, <1>12, <1>13, <1>14, GatewayTodo, LifeMoves

LEMMA Notices ==
  \A g, h : /\ Coming(g) # Leaving(h) /\ Coming(g) # Ended(h) /\ Coming(g) # QueryBy(h)
            /\ Leaving(g) # Ended(h) /\ Leaving(g) # QueryBy(h) /\ Ended(g) # QueryBy(h)
            /\ Coming(g) = Coming(h) => g = h
            /\ Leaving(g) = Leaving(h) => g = h
            /\ Ended(g) = Ended(h) => g = h
  <1> SUFFICES ASSUME NEW g, NEW h
      PROVE /\ Coming(g) # Leaving(h) /\ Coming(g) # Ended(h) /\ Coming(g) # QueryBy(h)
            /\ Leaving(g) # Ended(h) /\ Leaving(g) # QueryBy(h) /\ Ended(g) # QueryBy(h)
            /\ Coming(g) = Coming(h) => g = h
            /\ Leaving(g) = Leaving(h) => g = h
            /\ Ended(g) = Ended(h) => g = h
    OBVIOUS
  <1>1. \A x : /\ Coming(x).m = "connected" /\ Leaving(x).m = "disconnected" /\ Ended(x).m = "terminated"
               /\ QueryBy(x).m = "query" /\ Coming(x).gate = x /\ Leaving(x).gate = x /\ Ended(x).gate = x
    BY DEF Coming, Leaving, Ended, QueryBy
  <1> QED
    BY <1>1

\* A monitor tells of a gateway only when that one is done.
LEMMA TellsWhenDone ==
  ASSUME TypeInv, [Next]_vars, NEW g \in Gateways, monitor'[g] = "tell"
  PROVE  monitor[g] = "tell" \/ life[g] = "done"
  <1> USE DEF TypeInv
  <1>1. ASSUME NEW a \in Actors, MakeCall(a)
        PROVE  \/ monitor' = monitor
               \/ \E h \in Gateways : \E k \in {"none", "wait", monitor[h]} : monitor' = [monitor EXCEPT ![h] = k]
    <2>1. PICK c \in CallsOf(a) : c = Call(a)
      BY <1>1, FirstCall DEF MakeCall
    <2>2. CASE CallWatch(a) \/ CallUnwatch(a)
      <3>1. PICK h \in Gateways : h = c.gate
        BY <2>1, <2>2, WatchCalls DEF CallWatch, CallUnwatch
      <3> QED
        BY <2>1, <2>2, <3>1 DEF CallWatch, CallUnwatch
    <2> QED
      BY <1>1, <2>2 DEF MakeCall, CallTell, CallAsk, CallDone
  <1>2. ASSUME NEW h \in Gateways, Monitor(h)
        PROVE  \/ \E k \in {"none"} : monitor' = [monitor EXCEPT ![h] = k]
               \/ life[h] = "done" /\ monitor' = [monitor EXCEPT ![h] = "tell"]
    BY <1>2 DEF Monitor, MonitorWakes, MonitorTells
  <1>3. UNCHANGED vars \/ Presence \/ Query \/ Bus \/ Push \/ Published
          \/ (\E a \in Actors : Timeout(a)) \/ (\E h \in Gateways : Gateway(h) \/ OnStart(h) \/ Client(h)) => monitor' = monitor
    BY GatewayHandles, StartHandles
       DEF vars, Presence, Query, Bus, Push, Published, Timeout, Client, ClientAsks, ClientSends, ClientGoes, IdleTimeout, Sends
  <1>4. CASE monitor' = monitor
    BY <1>4
  <1>5. ASSUME NEW h \in Gateways, NEW k \in {"none", "wait", monitor[h]}, monitor' = [monitor EXCEPT ![h] = k]
        PROVE  monitor[g] = "tell"
    BY <1>5 DEF MapType
  <1>6. ASSUME NEW h \in Gateways, life[h] = "done", monitor' = [monitor EXCEPT ![h] = "tell"]
        PROVE  monitor[g] = "tell" \/ life[g] = "done"
    BY <1>6 DEF MapType
  <1> QED
    BY <1>1, <1>2, <1>3, <1>4, <1>5, <1>6, StepCases

LEMMA TimeoutMail ==
  ASSUME TypeInv, NEW a \in Actors, Timeout(a), NEW g \in Gateways
  PROVE  /\ \A m \in {Coming(g), Leaving(g), Ended(g)} : Has(box'["presence"], m) <=> Has(box["presence"], m)
         /\ InOrder(g, box["presence"]) => InOrder(g, box'["presence"])
  <1> DEFINE q == box["presence"]
             r == box'["presence"]
  <1>1. DOMAIN r = DOMAIN q /\ \A i \in DOMAIN q : r[i] = IF q[i] = QueryBy(a) THEN QueryBy(None) ELSE q[i]
    BY TimeoutBox DEF TypeInv, QueryBy
  <1>2. QueryBy(None) \notin {Coming(g), Leaving(g), Ended(g)} /\ QueryBy(a) \notin {Coming(g), Leaving(g), Ended(g)}
    BY Notices
  <1>3. QueryBy(None) # QueryBy(g)
    <2>1. QueryBy(None).by = None /\ QueryBy(g).by = g
      BY DEF QueryBy
    <2> QED
      BY <2>1, Names
  <1> HIDE DEF q, r
  <1>4. \A i \in DOMAIN q : \A m \in {Coming(g), Leaving(g), Ended(g)} : r[i] = m <=> q[i] = m
    BY <1>1, <1>2
  <1>5. \A i \in DOMAIN q : r[i] = QueryBy(g) => q[i] = QueryBy(g)
    BY <1>1, <1>3
  <1>6. \A m \in {Coming(g), Leaving(g), Ended(g)} : Has(r, m) <=> Has(q, m)
    BY <1>1, <1>4 DEF Has
  <1>7. InOrder(g, q) => InOrder(g, r)
    BY <1>1, <1>4, <1>5 DEF InOrder
  <1> QED
    BY <1>6, <1>7 DEF q, r

LEMMA NoticeStep ==
  ASSUME PresenceInv, [Next]_vars, NEW g \in Gateways
  PROVE  NoticeInv(g)'
  <1> USE DEF PresenceInv
  <1> DEFINE q == box["presence"]
             r == box'["presence"]
  <1>1. q \in Seq(Message) /\ TypeInv
    BY Names, Mails DEF TypeInv, BoxInv
  <1>2. /\ Left(g) => Told(g)
        /\ Makes(g, Connected(g)) => ~Told(g) /\ Told(g)' /\ ~Left(g) /\ ~Left(g)'
        /\ Makes(g, Gone(g)) => Told(g) /\ Told(g)' /\ ~Left(g) /\ Left(g)'
        /\ ~Makes(g, Connected(g)) /\ ~Makes(g, Gone(g)) => (Told(g)' <=> Told(g)) /\ (Left(g)' <=> Left(g))
        /\ life[g] = "done" => life'[g] = "done"
    BY ToldMoves
  <1>3. monitor'[g] = "tell" => life'[g] = "done"
    BY <1>2, TellsWhenDone DEF NoticeInv
  <1>4. life[g] = "done" => Left(g)
    BY DEF Left
  <1>5. /\ Has(q, Coming(g)) => Told(g) /\ (Left(g) => Has(q, Leaving(g)))
        /\ Has(q, Leaving(g)) => Left(g)
        /\ Has(q, Ended(g)) => life[g] = "done"
        /\ InOrder(g, q)
        /\ gatewayUID[g] = IF Known(g) THEN OwnerOf[g] ELSE None
    BY DEF NoticeInv
  <1>6. Known(g) <=> Told(g) /\ ~Has(q, Coming(g)) /\ (Left(g) => Has(q, Leaving(g)))
    BY DEF Known
  <1> DEFINE Fine == /\ Has(r, Coming(g)) => Told(g)' /\ (Left(g)' => Has(r, Leaving(g)))
                     /\ Has(r, Leaving(g)) => Left(g)'
                     /\ Has(r, Ended(g)) => life'[g] = "done"
                     /\ InOrder(g, r)
                     /\ gatewayUID'[g] = IF Told(g)' /\ ~Has(r, Coming(g)) /\ (Left(g)' => Has(r, Leaving(g)))
                                         THEN OwnerOf[g] ELSE None
  <1>7. ASSUME Fine PROVE NoticeInv(g)'
    BY <1>3, <1>7 DEF NoticeInv, Known
  <1>8. ASSUME NEW m, r = Append(q, m), m \in Message PROVE \A n : Has(r, n) <=> m = n \/ Has(q, n)
    BY <1>1, <1>8, HasAppend
  <1>9. ASSUME Makes(g, Connected(g)), r = Append(q, Coming(g)), gatewayUID' = gatewayUID PROVE Fine
    <2>1. ~Told(g) /\ Told(g)' /\ ~Left(g) /\ ~Left(g)'
      BY <1>2, <1>9
    <2>2. ~Has(q, Coming(g)) /\ ~Has(q, Leaving(g)) /\ ~Has(q, Ended(g))
      BY <1>4, <1>5, <2>1
    <2>3. ~Has(q, QueryBy(g))
      <3>1. SUFFICES ASSUME NEW i \in DOMAIN q, q[i] = QueryBy(g) PROVE FALSE
        BY DEF Has
      <3>2. g \in asking
        BY <3>1, Names DEF TypeInv, AskInv, QueryAt, QueryBy
      <3> QED
        BY <1>9, <3>2 DEF Makes, MakeCall
    <2>4. Coming(g) \in Message /\ Coming(g) # Leaving(g) /\ Coming(g) # Ended(g)
      BY Notices DEF Message, Coming
    <2>5. InOrder(g, r)
      BY <1>1, <1>5, <1>9, <2>2, <2>3, <2>4, OrderAppend
    <2>6. \A n : Has(r, n) <=> Coming(g) = n \/ Has(q, n)
      BY <1>8, <1>9, <2>4
    <2> HIDE DEF q, r
    <2> QED
      BY <1>5, <1>6, <1>9, <2>1, <2>2, <2>4, <2>5, <2>6
  <1>10. ASSUME Makes(g, Gone(g)), r = Append(q, Leaving(g)), gatewayUID' = gatewayUID PROVE Fine
    <2>1. Told(g) /\ Told(g)' /\ ~Left(g) /\ Left(g)'
      BY <1>2, <1>10
    <2>2. ~Has(q, Leaving(g)) /\ ~Has(q, Ended(g))
      BY <1>4, <1>5, <2>1
    <2>4. Leaving(g) \in Message /\ Coming(g) # Leaving(g) /\ Leaving(g) # Ended(g)
      BY Notices DEF Message, Leaving
    <2>5. InOrder(g, r)
      BY <1>1, <1>5, <1>10, <2>2, <2>4, OrderAppend
    <2>6. \A n : Has(r, n) <=> Leaving(g) = n \/ Has(q, n)
      BY <1>8, <1>10, <2>4
    <2> HIDE DEF q, r
    <2> QED
      BY <1>5, <1>6, <1>10, <2>1, <2>2, <2>4, <2>5, <2>6
  <1> DEFINE Quietly == ~Makes(g, Connected(g)) /\ ~Makes(g, Gone(g))
  <1>11. ASSUME Quietly, gatewayUID' = gatewayUID, InOrder(g, r), Has(r, Ended(g)) => life[g] = "done",
                \A m \in {Coming(g), Leaving(g)} : Has(r, m) <=> Has(q, m)
         PROVE  Fine
    <2>1. (Told(g)' <=> Told(g)) /\ (Left(g)' <=> Left(g))
      BY <1>2, <1>11
    <2> HIDE DEF q, r
    <2> QED
      BY <1>2, <1>5, <1>6, <1>11, <2>1
  <1>12. ASSUME Quietly, gatewayUID' = gatewayUID, NEW m \in Message, r = Append(q, m),
                m \notin {Coming(g), Leaving(g)}, m = Ended(g) => life[g] = "done"
         PROVE  Fine
    <2>1. \A n : Has(r, n) <=> m = n \/ Has(q, n)
      BY <1>8, <1>12
    <2>2. InOrder(g, r)
      BY <1>1, <1>5, <1>12, OrderAppend
    <2> HIDE DEF q, r, Fine, Quietly
    <2> QED
      BY <1>5, <1>11, <1>12, <2>1, <2>2
  <1>13. ASSUME q # <<>>, r = Tail(q)
         PROVE  /\ \A n : Has(q, n) <=> Head(q) = n \/ Has(r, n)
                /\ InOrder(g, r)
                /\ Head(q) \in {Coming(g), Leaving(g), Ended(g), QueryBy(g)} => ~Has(r, Coming(g))
                /\ Head(q) \in {Leaving(g), Ended(g)} => ~Has(r, Leaving(g))
    <2>1. \A n : Has(q, n) <=> Head(q) = n \/ Has(Tail(q), n)
      BY <1>1, <1>13, HasTail
    <2>2. /\ InOrder(g, Tail(q))
          /\ Head(q) \in {Coming(g), Leaving(g), Ended(g), QueryBy(g)} => ~Has(Tail(q), Coming(g))
          /\ Head(q) \in {Leaving(g), Ended(g)} => ~Has(Tail(q), Leaving(g))
      BY <1>1, <1>5, <1>13, OrderTail
    <2> HIDE DEF q, r
    <2> QED
      BY <1>13, <2>1, <2>2
  <1>14. ASSUME Quietly, q # <<>>, r = Tail(q), gatewayUID' = gatewayUID,
                Head(q) \notin {Coming(g), Leaving(g), Ended(g)}
         PROVE  Fine
    <2> HIDE DEF q, r, Fine, Quietly
    <2> QED
      BY <1>5, <1>11, <1>13, <1>14
  <1>15. ASSUME Quietly, Presence PROVE Fine
    <2>1. PICK h \in Gateways :
            /\ q # <<>> /\ Pulled("presence")
            /\ \/ Head(q) = Coming(h) /\ handleConnected(h)
               \/ Head(q) = Leaving(h) /\ handleDisconnected(h)
               \/ Head(q) = Ended(h) /\ handleTerminated(h)
      BY <1>15, PresenceHandles DEF Coming, Leaving, Ended
    <2>2. r = Tail(q)
      BY <2>1, Names DEF Pulled, TypeInv, BoxInv
    <2>3. /\ \A n : Has(q, n) <=> Head(q) = n \/ Has(r, n)
          /\ InOrder(g, r)
          /\ Head(q) \in {Coming(g), Leaving(g), Ended(g), QueryBy(g)} => ~Has(r, Coming(g))
          /\ Head(q) \in {Leaving(g), Ended(g)} => ~Has(r, Leaving(g))
      BY <1>13, <2>1, <2>2
    <2>4. (Told(g)' <=> Told(g)) /\ (Left(g)' <=> Left(g))
      BY <1>2, <1>15
    <2>5. gatewayUID \in [Gateways -> Users \cup {None}] /\ gatewayUID[h] \in {OwnerOf[h], None}
      BY DEF TypeInv, MapType
    <2>6. /\ Coming(g) # Leaving(g) /\ Coming(g) # Ended(g) /\ Leaving(g) # Ended(g)
          /\ Coming(h) # Leaving(g) /\ Coming(h) # Ended(g) /\ Leaving(h) # Ended(g)
          /\ Leaving(h) # Coming(g) /\ Ended(h) # Coming(g) /\ Ended(h) # Leaving(g)
          /\ Coming(h) = Coming(g) => h = g
          /\ Leaving(h) = Leaving(g) => h = g
          /\ Ended(h) = Ended(g) => h = g
      BY Notices
    <2> HIDE DEF q, r
    <2>7. CASE h # g
      <3>1. gatewayUID'[g] = gatewayUID[g]
        BY <2>1, <2>5, <2>7 DEF handleConnected, handleDisconnected, handleTerminated, removeGateway, presenceVars
      <3>2. Head(q) \notin {Coming(g), Leaving(g), Ended(g)}
        BY <2>1, <2>6, <2>7
      <3>3. \A n \in {Coming(g), Leaving(g), Ended(g)} : Has(q, n) <=> Has(r, n)
        BY <2>3, <3>2
      <3> QED
        BY <1>2, <1>5, <1>6, <2>3, <2>4, <3>1, <3>3
    <2>8. CASE h = g /\ Head(q) = Coming(g) /\ handleConnected(g)
      <3>1. gatewayUID'[g] = OwnerOf[g]
        BY <2>5, <2>8 DEF handleConnected
      <3>2. Has(q, Coming(g)) /\ ~Has(r, Coming(g)) /\ (Has(q, Leaving(g)) <=> Has(r, Leaving(g)))
            /\ (Has(q, Ended(g)) <=> Has(r, Ended(g)))
        BY <2>3, <2>6, <2>8
      <3> QED
        BY <1>2, <1>5, <2>3, <2>4, <3>1, <3>2
    <2>9. CASE h = g /\ Head(q) = Leaving(g) /\ handleDisconnected(g)
      <3>1. gatewayUID'[g] = None
        BY <2>5, <2>9 DEF handleDisconnected, removeGateway
      <3>2. Has(q, Leaving(g)) /\ ~Has(r, Coming(g)) /\ ~Has(r, Leaving(g)) /\ (Has(q, Ended(g)) <=> Has(r, Ended(g)))
        BY <2>3, <2>6, <2>9
      <3> QED
        BY <1>2, <1>5, <2>3, <2>4, <3>1, <3>2
    <2>10. CASE h = g /\ Head(q) = Ended(g) /\ handleTerminated(g)
      <3>1. Has(q, Ended(g)) /\ ~Has(r, Coming(g)) /\ ~Has(r, Leaving(g)) /\ ~Has(q, Leaving(g))
        BY <2>3, <2>6, <2>10
      <3>2. Left(g) /\ gatewayUID[g] = None
        BY <1>4, <1>5, <1>6, <3>1
      <3>3. gatewayUID'[g] = None
        BY <2>10, <3>2 DEF handleTerminated, presenceVars
      <3> QED
        BY <1>2, <1>5, <2>3, <2>4, <3>1, <3>2, <3>3
    <2> QED
      BY <2>1, <2>7, <2>8, <2>9, <2>10
  <1>16. ASSUME Quietly, Query PROVE Fine
    <2>1. q # <<>> /\ r = Tail(q) /\ gatewayUID' = gatewayUID
      BY <1>16, QueryHandles, Names DEF Query, Pulled, TypeInv, BoxInv, presenceVars
    <2>2. \E b : Head(q) = QueryBy(b)
      BY <1>16, QueryHandles DEF QueryBy
    <2>3. Head(q) \notin {Coming(g), Leaving(g), Ended(g)}
      BY <2>2, Notices
    <2> HIDE DEF q, r, Fine, Quietly
    <2> QED
      BY <1>14, <1>16, <2>1, <2>3
  <1>17. ASSUME Quietly, NEW a \in Actors, Timeout(a) PROVE Fine
    <2>1. /\ \A m \in {Coming(g), Leaving(g), Ended(g)} : Has(r, m) <=> Has(q, m)
          /\ InOrder(g, r) /\ gatewayUID' = gatewayUID
      BY <1>5, <1>17, TimeoutMail DEF Timeout, presenceVars
    <2> HIDE DEF q, r, Fine, Quietly
    <2> QED
      BY <1>5, <1>11, <1>17, <2>1
  <1>18. ASSUME Quietly, NEW h \in Gateways, NEW m \in {[m |-> "connected", gate |-> h], [m |-> "disconnected", gate |-> h]},
                MakeCall(h), CallTell(h), Call(h) = Tell("presence", m), r = Append(q, m), UNCHANGED presenceVars
         PROVE  Fine
    <2>1. h # g
      <3>1. Tell("presence", m) \in {Connected(h), Gone(h)}
        BY DEF Connected, Gone
      <3> QED
        BY <1>18, <3>1 DEF Makes
    <2>2. m \in {Coming(h), Leaving(h)}
      BY DEF Coming, Leaving
    <2>3. m \in Message /\ m \notin {Coming(g), Leaving(g), Ended(g)}
      <3>1. m \in Message
        BY <1>18 DEF Message
      <3>2. \A x : x \in {Coming(h), Leaving(h)} => x \notin {Coming(g), Leaving(g), Ended(g)}
        BY <2>1, Notices
      <3> QED
        BY <2>2, <3>1, <3>2
    <2>4. gatewayUID' = gatewayUID
      BY <1>18 DEF presenceVars
    <2> HIDE DEF q, r, Fine, Quietly
    <2> QED
      BY <1>12, <1>18, <2>3, <2>4
  <1>19. ASSUME Quietly, NEW a \in Actors, UNCHANGED presenceVars, r = Append(q, QueryBy(a)) PROVE Fine
    <2>1. QueryBy(a) \in Message /\ QueryBy(a) \notin {Coming(g), Leaving(g), Ended(g)}
      BY Notices DEF Message, QueryBy
    <2>2. gatewayUID' = gatewayUID
      BY <1>19 DEF presenceVars
    <2> HIDE DEF q, r, Fine, Quietly
    <2> QED
      BY <1>12, <1>19, <2>1, <2>2
  <1>20. ASSUME Quietly, NEW h \in Gateways, life[h] = "done" \/ monitor[h] = "tell", UNCHANGED presenceVars,
                r = Append(q, Ended(h))
         PROVE  Fine
    <2>1. Ended(h) \in Message /\ Ended(h) \notin {Coming(g), Leaving(g)} /\ (Ended(h) = Ended(g) => h = g)
      BY Notices DEF Message, Ended
    <2>2. gatewayUID' = gatewayUID
      BY <1>20 DEF presenceVars
    <2>3. life[h] = "done"
      BY <1>20 DEF NoticeInv
    <2> HIDE DEF q, r, Fine, Quietly
    <2> QED
      BY <1>12, <1>20, <2>1, <2>2, <2>3
  <1>21. ASSUME Quietly, r = q, UNCHANGED presenceVars PROVE Fine
    <2>1. gatewayUID' = gatewayUID
      BY <1>21 DEF presenceVars
    <2> HIDE DEF q, r, Fine, Quietly
    <2> QED
      BY <1>5, <1>11, <1>21, <2>1
  <1>22. ASSUME NEW m \in Message, Makes(g, Tell("presence", m)) PROVE r = Append(q, m) /\ gatewayUID' = gatewayUID
    <2>1. Deliver("presence", m) /\ UNCHANGED presenceVars
      BY <1>22 DEF Makes, CallTell, Tell
    <2> QED
      BY <1>1, <2>1, DeliverPresence DEF TypeInv, presenceVars
  <1>23. CASE Makes(g, Connected(g))
    <2>1. Coming(g) \in Message /\ Connected(g) = Tell("presence", Coming(g))
      BY DEF Message, Coming, Connected
    <2> QED
      BY <1>7, <1>9, <1>22, <1>23, <2>1
  <1>24. CASE Makes(g, Gone(g))
    <2>1. Leaving(g) \in Message /\ Gone(g) = Tell("presence", Leaving(g))
      BY DEF Message, Leaving, Gone
    <2> QED
      BY <1>7, <1>10, <1>22, <1>24, <2>1
  <1>25. CASE Quietly
    <2> HIDE DEF Fine, Quietly
    <2>1. \A h : QueryBy(h) = [m |-> "query", by |-> h] /\ Ended(h) = [m |-> "terminated", gate |-> h]
      BY DEF QueryBy, Ended
    <2>2. Fine
      BY <1>1, <1>15, <1>16, <1>17, <1>18, <1>19, <1>20, <1>21, <1>25, <2>1, PresenceMail
    <2> QED
      BY <1>7, <2>2
  <1> QED
    BY <1>23, <1>24, <1>25

LEMMA MapInvStep ==
  ASSUME TypeInv, MapInv, [Next]_vars
  PROVE  MapInv'
  <1>1. CASE UNCHANGED presenceVars
    BY <1>1 DEF MapInv, presenceVars
  <1>2. CASE Presence
    <2>1. PICK g \in Gateways : handleConnected(g) \/ handleDisconnected(g) \/ handleTerminated(g)
      BY <1>2, PresenceHandles
    <2>2. OwnerOf[g] \in Users /\ MapType
      BY DeliveryAssumption DEF TypeInv
    <2>3. ASSUME gateways' = [gateways EXCEPT ![OwnerOf[g]] = @ \cup {g}],
                 gatewayUID' = [gatewayUID EXCEPT ![g] = OwnerOf[g]],
                 online' = online \cup {OwnerOf[g]}
          PROVE  MapInv'
      BY <2>2, <2>3 DEF MapInv, MapType
    <2>4. ASSUME gateways' = [gateways EXCEPT ![OwnerOf[g]] = @ \ {g}],
                 gatewayUID' = [gatewayUID EXCEPT ![g] = None],
                 online' = IF gateways[OwnerOf[g]] \ {g} = {} THEN online \ {OwnerOf[g]} ELSE online
          PROVE  MapInv'
      BY <2>2, <2>4, Names DEF MapInv, MapType
    <2> QED
      BY <1>1, <2>1, <2>3, <2>4, PresenceLeaves
  <1> QED
    BY <1>1, <1>2, PresenceMail DEF Timeout, Query

LEMMA PresenceInit == Init => PresenceInv
  <1> SUFFICES ASSUME Init PROVE PresenceInv
    OBVIOUS
  <1>1. TypeInv
    BY TypeInit
  <1>2. MapInv
    BY Names DEF MapInv, Init
  <1>3. ASSUME NEW g \in Gateways PROVE NoticeInv(g)
    <2>1. box["presence"] = <<>> /\ life[g] = "new" /\ monitor[g] = "none" /\ gatewayUID[g] = None
      BY Names DEF Init
    <2>2. \A m : ~Has(box["presence"], m)
      BY <2>1 DEF Has
    <2>3. InOrder(g, box["presence"])
      BY <2>1 DEF InOrder
    <2> QED
      BY <2>1, <2>2, <2>3 DEF NoticeInv, Known, Told
  <1> QED
    BY <1>1, <1>2, <1>3 DEF PresenceInv

LEMMA PresenceInvStep ==
  ASSUME PresenceInv, [Next]_vars
  PROVE  PresenceInv'
  <1>1. TypeInv' /\ MapInv'
    BY TypeStep, MapInvStep DEF PresenceInv
  <1>2. ASSUME NEW g \in Gateways PROVE NoticeInv(g)'
    BY NoticeStep
  <1> QED
    BY <1>1, <1>2 DEF PresenceInv

THEOREM PresenceInvariant == Spec => []PresenceInv
  <1>1. PresenceInv /\ [Next]_vars => PresenceInv'
    BY PresenceInvStep
  <1> QED
    BY <1>1, PresenceInit, PTL DEF Spec

LEMMA PresenceKnows == PresenceInv => PresenceTrue
  <1> SUFFICES ASSUME PresenceInv PROVE PresenceTrue
    OBVIOUS
  <1> USE DEF PresenceInv
  <1>1. ASSUME NEW u \in Users
        PROVE  gateways[u] = {g \in Gateways : gatewayUID[g] = u} /\ (u \in online <=> gateways[u] # {})
    BY DEF MapInv
  <1>2. ASSUME NEW g \in Gateways
        PROVE  /\ gatewayUID[g] # None /\ life[g] = "done" => NoticeOf(g)
               /\ life[g] = "up" /\ reader[g] # "off"
                    => gatewayUID[g] = OwnerOf[g] \/ InBox("presence", [m |-> "connected", gate |-> g])
    <2>1. gatewayUID[g] = IF Known(g) THEN OwnerOf[g] ELSE None
      BY DEF NoticeInv
    <2>2. /\ Has(box["presence"], Leaving(g)) => InBox("presence", [m |-> "disconnected", gate |-> g])
          /\ Has(box["presence"], Coming(g)) => InBox("presence", [m |-> "connected", gate |-> g])
      BY DEF Has, InBox, Leaving, Coming
    <2>3. gatewayUID[g] # None /\ life[g] = "done" => NoticeOf(g)
      BY <2>1, <2>2 DEF NoticeOf, Known, Left
    <2>4. ASSUME life[g] = "up", reader[g] # "off" PROVE Told(g) /\ ~Left(g)
      <3>1. todo[g] \in {<<>>, <<Pill(g)>>, <<Asks(g)>>}
        BY <2>4 DEF TypeInv, LifeType, GatewayInv
      <3> QED
        BY <2>4, <3>1, TodoShapes DEF Told, Left
    <2> QED
      BY <2>1, <2>2, <2>3, <2>4 DEF Known
  <1> QED
    BY <1>1, <1>2 DEF PresenceTrue

\* Presence knows who is there.
THEOREM PresenceIsTrue == Spec => []PresenceTrue
  BY PresenceInvariant, PresenceKnows, PTL

-----------------------------------------------------------------------------
(* Presence keeps the promise of Roster. *)

\* What presence does of g, by the notice it has before it.
LEMMA PresenceOf ==
  ASSUME PresenceInv, Presence
  PROVE  \E g \in Gateways :
           \/ UNCHANGED presenceVars
           \/ handleConnected(g) /\ gatewayUID[g] = None
           \/ handleDisconnected(g) /\ gatewayUID[g] = OwnerOf[g]
  <1> USE DEF PresenceInv
  <1> DEFINE q == box["presence"]
  <1>1. PICK g \in Gateways :
          /\ q # <<>> /\ Pulled("presence")
          /\ \/ Head(q) = Coming(g) /\ handleConnected(g)
             \/ Head(q) = Leaving(g) /\ handleDisconnected(g)
             \/ Head(q) = Ended(g) /\ handleTerminated(g)
    BY PresenceHandles DEF Coming, Leaving, Ended
  <1>2. q \in Seq(Message) /\ InOrder(g, q) /\ NoticeInv(g)
    BY Names, Mails DEF TypeInv, BoxInv, NoticeInv
  <1>3. Coming(g) # Leaving(g) /\ Coming(g) # Ended(g) /\ Leaving(g) # Ended(g)
    BY Notices
  <1> HIDE DEF q
  <1>4. /\ \A n : Has(q, n) <=> Head(q) = n \/ Has(Tail(q), n)
        /\ Head(q) \in {Coming(g), Leaving(g), Ended(g)} => ~Has(Tail(q), Coming(g)) 
        /\ Head(q) \in {Leaving(g), Ended(g)} => ~Has(Tail(q), Leaving(g))
    BY <1>1, <1>2, HasTail, OrderTail
  <1>5. /\ Has(q, Coming(g)) => Told(g) /\ (Left(g) => Has(q, Leaving(g)))
        /\ Has(q, Leaving(g)) => Left(g)
        /\ Has(q, Ended(g)) => life[g] = "done"
        /\ gatewayUID[g] = IF Told(g) /\ ~Has(q, Coming(g)) /\ (Left(g) => Has(q, Leaving(g)))
                           THEN OwnerOf[g] ELSE None
    BY <1>2 DEF NoticeInv, Known, q
  <1>6. CASE Head(q) = Coming(g) /\ handleConnected(g)
    BY <1>4, <1>5, <1>6
  <1>7. CASE Head(q) = Leaving(g) /\ handleDisconnected(g)
    <2>1. Has(q, Leaving(g)) /\ ~Has(q, Coming(g)) /\ Left(g)
      BY <1>3, <1>4, <1>5, <1>7
    <2>2. Told(g)
      BY <2>1, TodoShapes DEF TypeInv, LifeType, GatewayInv, Left, Told
    <2> QED
      BY <1>5, <1>7, <2>1, <2>2
  <1>8. CASE Head(q) = Ended(g) /\ handleTerminated(g)
    <2>1. Has(q, Ended(g)) /\ ~Has(q, Leaving(g))
      BY <1>3, <1>4, <1>8
    <2>2. Left(g) /\ gatewayUID[g] = None
      BY <1>5, <2>1 DEF Left
    <2> QED
      BY <1>8, <2>2 DEF handleTerminated
  <1> QED
    BY <1>1, <1>6, <1>7, <1>8

LEMMA RosterInit == Init => Abs!Init
  BY DEF Init, Abs!Init

LEMMA RosterStep ==
  ASSUME PresenceInv, [Next]_vars
  PROVE  [Abs!Next]_Abs!rosterVars
  <1> USE DEF PresenceInv
  <1> DEFINE P == {g \in Gateways : gatewayUID[g] # None}
  <1>1. CASE UNCHANGED presenceVars
    BY <1>1 DEF presenceVars, Abs!rosterVars
  <1>2. CASE Presence
    <2>1. PICK g \in Gateways : \/ UNCHANGED presenceVars
                                \/ handleConnected(g) /\ gatewayUID[g] = None
                                \/ handleDisconnected(g) /\ gatewayUID[g] = OwnerOf[g]
      BY <1>2, PresenceOf
    <2>2. OwnerOf[g] \in Users /\ MapType /\ None \notin Users
      BY DeliveryAssumption, Names DEF TypeInv
    <2>3. Abs!Others(g) = gateways[OwnerOf[g]] \ {g}
      BY <2>2, DeliveryAssumption, Names DEF MapInv, MapType, Abs!Others
    <2>4. CASE handleConnected(g) /\ gatewayUID[g] = None
      <3>1. OwnerOf[g] \notin online <=> Abs!Others(g) = {}
        <4>1. g \notin gateways[OwnerOf[g]]
          BY <2>2, <2>4 DEF MapInv
        <4> QED
          BY <2>2, <2>3, <4>1 DEF MapInv
      <3>2. changes' = [changes EXCEPT ![OwnerOf[g]] = IF Abs!Others(g) = {} THEN @ + 1 ELSE @]
        BY <2>4, <3>1 DEF handleConnected
      <3>3. {h \in Gateways : gatewayUID'[h] # None} = P \cup {g} /\ g \notin P
        BY <2>2, <2>4 DEF handleConnected, MapType
      <3>4. Abs!Come(g)
        BY <3>2, <3>3 DEF Abs!Come, Abs!Announce
      <3> QED
        BY <3>4 DEF Abs!Next
    <2>5. CASE handleDisconnected(g) /\ gatewayUID[g] = OwnerOf[g]
      <3>2. changes' = [changes EXCEPT ![OwnerOf[g]] = IF Abs!Others(g) = {} THEN @ + 1 ELSE @]
        BY <2>3, <2>5 DEF handleDisconnected, removeGateway
      <3>3. {h \in Gateways : gatewayUID'[h] # None} = P \ {g} /\ g \in P
        BY <2>2, <2>5 DEF handleDisconnected, removeGateway, MapType
      <3>4. Abs!Go(g)
        BY <3>2, <3>3 DEF Abs!Go, Abs!Announce
      <3> QED
        BY <3>4 DEF Abs!Next
    <2> QED
      BY <1>1, <2>1, <2>4, <2>5
  <1> QED
    BY <1>1, <1>2, PresenceMail DEF Timeout, Query

\* Each user is announced when his first device comes and when his last goes,
\* once each time.
THEOREM RefinesRoster == Spec => ImplementsRoster
  <1>1. PresenceInv /\ [Next]_vars => [Abs!Next]_Abs!rosterVars
    BY RosterStep
  <1> QED
    BY <1>1, RosterInit, PresenceInvariant, PTL DEF Spec, ImplementsRoster, Abs!Spec

-----------------------------------------------------------------------------
(* Old news and new news in the queues between presence and a device. *)

\* One of R is in q; one of W is there that none of R follows.
Some(q, R) == \E i \in DOMAIN q : q[i] \in R
Loose(q, R, W) == \E i \in DOMAIN q : q[i] \in W /\ \A j \in DOMAIN q : j > i => q[j] \notin R

LEMMA NothingLoose ==
  ASSUME NEW q, NEW R, NEW W, \A i \in DOMAIN q : q[i] \notin W
  PROVE  ~Loose(q, R, W)
  BY DEF Loose

LEMMA NothingQueued ==
  ASSUME NEW R, NEW W
  PROVE  ~Some(<<>>, R) /\ ~Loose(<<>>, R, W)
  BY DEF Some, Loose

LEMMA AppendNews ==
  ASSUME NEW S, NEW q \in Seq(S), NEW x \in S, NEW R, NEW W, R \cap W = {}
  PROVE  /\ Some(Append(q, x), R) <=> x \in R \/ Some(q, R)
         /\ Loose(Append(q, x), R, W) <=> x \in W \/ (x \notin R /\ Loose(q, R, W))
  <1> DEFINE p == Append(q, x)
             n == Len(q)
  <1>1. n \in Nat /\ DOMAIN q = 1..n /\ DOMAIN p = 1..(n + 1) /\ (\A i \in 1..n : p[i] = q[i]) /\ p[n + 1] = x
    BY AppendFacts
  <1> HIDE DEF p, n
  <1>2. n + 1 \in DOMAIN p /\ \A i \in DOMAIN q : i \in DOMAIN p /\ p[i] = q[i] /\ i < n + 1 /\ ~(n + 1 < i)
    BY <1>1
  <1>3. \A i \in DOMAIN p : i \in DOMAIN q \/ i = n + 1
    BY <1>1
  <1>4. \A i \in DOMAIN p : ~(i > n + 1)
    BY <1>1
  <1>5. Some(p, R) <=> x \in R \/ Some(q, R)
    BY <1>1, <1>2, <1>3 DEF Some
  <1>6. ASSUME x \in W PROVE Loose(p, R, W)
    BY <1>1, <1>2, <1>4, <1>6 DEF Loose
  <1>7. ASSUME x \notin W, Loose(p, R, W) PROVE x \notin R /\ Loose(q, R, W)
    <2>1. PICK i \in DOMAIN p : p[i] \in W /\ \A j \in DOMAIN p : j > i => p[j] \notin R
      BY <1>7 DEF Loose
    <2>2. i \in DOMAIN q /\ q[i] \in W
      BY <1>1, <1>2, <1>3, <1>7, <2>1
    <2>3. n + 1 > i
      BY <1>1, <2>2
    <2>4. x \notin R
      BY <1>1, <1>2, <2>1, <2>3
    <2>5. \A j \in DOMAIN q : j > i => q[j] \notin R
      BY <1>2, <2>1
    <2> QED
      BY <2>2, <2>4, <2>5 DEF Loose
  <1>8. ASSUME x \notin R, Loose(q, R, W) PROVE Loose(p, R, W)
    <2>1. PICK i \in DOMAIN q : q[i] \in W /\ \A j \in DOMAIN q : j > i => q[j] \notin R
      BY <1>8 DEF Loose
    <2>2. \A j \in DOMAIN p : j > i => p[j] \notin R
      BY <1>1, <1>2, <1>3, <1>8, <2>1
    <2> QED
      BY <1>2, <2>1, <2>2 DEF Loose
  <1>9. Loose(p, R, W) <=> x \in W \/ (x \notin R /\ Loose(q, R, W))
    BY <1>6, <1>7, <1>8
  <1> QED
    BY <1>5, <1>9 DEF p

LEMMA ConcatNews ==
  ASSUME NEW S, NEW s \in Seq(S), NEW t \in Seq(S), NEW R, NEW W
  PROVE  /\ Some(s \o t, R) <=> Some(s, R) \/ Some(t, R)
         /\ Loose(s \o t, R, W) <=> Loose(t, R, W) \/ (Loose(s, R, W) /\ ~Some(t, R))
  <1> DEFINE p == s \o t
             n == Len(s)
             k == Len(t)
  <1>1. /\ n \in Nat /\ k \in Nat /\ DOMAIN s = 1..n /\ DOMAIN t = 1..k /\ DOMAIN p = 1..(n + k)
        /\ (\A i \in 1..n : p[i] = s[i]) /\ (\A i \in 1..k : p[n + i] = t[i])
    BY ConcatFacts
  <1> HIDE DEF p, n, k
  <1>2. \A i \in DOMAIN s : i \in DOMAIN p /\ p[i] = s[i] /\ i \in Int /\ \A j \in DOMAIN t : n + j > i
    BY <1>1
  <1>3. \A i \in DOMAIN t : /\ i \in Int /\ n + i \in DOMAIN p /\ p[n + i] = t[i]
                            /\ \A j \in DOMAIN t : n + j > n + i <=> j > i
    BY <1>1
  <1>4. \A i \in DOMAIN p : i \in DOMAIN s \/ (i - n \in DOMAIN t /\ n + (i - n) = i)
    BY <1>1
  <1>5. Some(p, R) <=> Some(s, R) \/ Some(t, R)
    <2>1. Some(s, R) \/ Some(t, R) => Some(p, R)
      BY <1>2, <1>3 DEF Some
    <2>2. ASSUME Some(p, R) PROVE Some(s, R) \/ Some(t, R)
      <3>1. PICK i \in DOMAIN p : p[i] \in R
        BY <2>2 DEF Some
      <3>2. CASE i \in DOMAIN s
        BY <1>2, <3>1, <3>2 DEF Some
      <3>3. CASE i - n \in DOMAIN t /\ n + (i - n) = i
        BY <1>3, <3>1, <3>3 DEF Some
      <3> QED
        BY <1>4, <3>2, <3>3
    <2> QED
      BY <2>1, <2>2
  <1>6. ASSUME Loose(t, R, W) PROVE Loose(p, R, W)
    <2>1. PICK i \in DOMAIN t : t[i] \in W /\ \A j \in DOMAIN t : j > i => t[j] \notin R
      BY <1>6 DEF Loose
    <2>2. ASSUME NEW j \in DOMAIN p, j > n + i PROVE p[j] \notin R
      <3>1. j - n \in DOMAIN t /\ n + (j - n) = j /\ j - n > i
        BY <1>1, <2>2
      <3> QED
        BY <1>3, <2>1, <3>1
    <2> QED
      BY <1>3, <2>1, <2>2 DEF Loose
  <1>7. ASSUME Loose(s, R, W), ~Some(t, R) PROVE Loose(p, R, W)
    <2>1. PICK i \in DOMAIN s : s[i] \in W /\ \A j \in DOMAIN s : j > i => s[j] \notin R
      BY <1>7 DEF Loose
    <2>2. ASSUME NEW j \in DOMAIN p, j > i PROVE p[j] \notin R
      <3>1. CASE j \in DOMAIN s
        BY <1>2, <2>1, <2>2, <3>1
      <3>2. CASE j - n \in DOMAIN t /\ n + (j - n) = j
        BY <1>3, <1>7, <3>2 DEF Some
      <3> QED
        BY <1>4, <3>1, <3>2
    <2> QED
      BY <1>2, <2>1, <2>2 DEF Loose
  <1>8. ASSUME Loose(p, R, W) PROVE Loose(t, R, W) \/ (Loose(s, R, W) /\ ~Some(t, R))
    <2>1. PICK i \in DOMAIN p : p[i] \in W /\ \A j \in DOMAIN p : j > i => p[j] \notin R
      BY <1>8 DEF Loose
    <2>2. CASE i \in DOMAIN s
      <3>1. \A j \in DOMAIN s : j > i => s[j] \notin R
        BY <1>2, <2>1
      <3>2. ~Some(t, R)
        BY <1>2, <1>3, <2>1, <2>2 DEF Some
      <3> QED
        BY <1>2, <2>1, <2>2, <3>1, <3>2 DEF Loose
    <2>3. CASE i - n \in DOMAIN t /\ n + (i - n) = i
      <3>1. PICK k1 \in DOMAIN t : k1 = i - n /\ n + k1 = i
        BY <2>3
      <3>2. \A j \in DOMAIN t : j > k1 => t[j] \notin R
        BY <1>3, <2>1, <3>1
      <3> QED
        BY <1>3, <2>1, <3>1, <3>2 DEF Loose
    <2> QED
      BY <1>4, <2>2, <2>3
  <1>9. Loose(p, R, W) <=> Loose(t, R, W) \/ (Loose(s, R, W) /\ ~Some(t, R))
    BY <1>6, <1>7, <1>8
  <1> QED
    BY <1>5, <1>9 DEF p

LEMMA OneNews ==
  ASSUME NEW x, NEW R, NEW W
  PROVE  /\ Some(<<x>>, R) <=> x \in R
         /\ Loose(<<x>>, R, W) <=> x \in W
  <1>1. DOMAIN <<x>> = {1} /\ <<x>>[1] = x
    OBVIOUS
  <1> QED
    BY <1>1 DEF Some, Loose

LEMMA TailNews ==
  ASSUME NEW S, NEW q \in Seq(S), q # <<>>, NEW R, NEW W
  PROVE  /\ Some(q, R) <=> Head(q) \in R \/ Some(Tail(q), R)
         /\ Loose(q, R, W) <=> Loose(Tail(q), R, W) \/ (Head(q) \in W /\ ~Some(Tail(q), R))
  <1> DEFINE h == <<Head(q)>>
             t == Tail(q)
  <1>1. h \in Seq(S) /\ t \in Seq(S)
    BY TailFacts
  <1>2. q = h \o t
    <2>1. /\ q \in Seq(S) /\ h \o t \in Seq(S) /\ Len(q) = Len(h \o t)
          /\ \A i \in 1..Len(q) : q[i] = (h \o t)[i]
      OBVIOUS
    <2> HIDE DEF h, t
    <2> QED
      BY <1>1, <2>1, SeqEqual
  <1>3. /\ Some(h \o t, R) <=> Some(h, R) \/ Some(t, R)
        /\ Loose(h \o t, R, W) <=> Loose(t, R, W) \/ (Loose(h, R, W) /\ ~Some(t, R))
    BY <1>1, ConcatNews
  <1>4. (Some(h, R) <=> Head(q) \in R) /\ (Loose(h, R, W) <=> Head(q) \in W)
    BY OneNews
  <1> HIDE DEF h, t
  <1>5. /\ Some(q, R) <=> Head(q) \in R \/ Some(t, R)
        /\ Loose(q, R, W) <=> Loose(t, R, W) \/ (Head(q) \in W /\ ~Some(t, R))
    BY <1>2, <1>3, <1>4
  <1> QED
    BY <1>5 DEF t

\* The queues that news passes from presence to the device of g, in order, and
\* the form in which the event e for g is in each.
Where(k, g) ==
  CASE k = 1 -> todo["presence"] [] k = 2 -> box["bus"] [] k = 3 -> todo["bus"]
    [] k = 4 -> box["push"] [] k = 5 -> todo["push"] [] k = 6 -> box[g]

As(k, g, e) ==
  CASE k = 1 -> {Publish(e)} [] k = 2 -> {e} [] k = 3 -> {Tell("push", e)} [] k = 4 -> {e}
    [] k = 5 -> {[do |-> "gateways", user |-> OwnerOf[g], data |-> e], Tell(g, [m |-> "push", data |-> e])}
    [] k = 6 -> {[m |-> "push", data |-> e]}

\* Queue k holds the news r for g; it holds w with no r after it.
Right(k, g, r) == Some(Where(k, g), As(k, g, r))
Wrong(k, g, r, w) == Loose(Where(k, g), As(k, g, r), As(k, g, w))

Anywhere(g, r) ==
  Right(1, g, r) \/ Right(2, g, r) \/ Right(3, g, r) \/ Right(4, g, r) \/ Right(5, g, r) \/ Right(6, g, r)

\* What is wrong is followed by what is right.
Settling(g, r, w) ==
  /\ ~Wrong(1, g, r, w)
  /\ Wrong(2, g, r, w) => Right(1, g, r)
  /\ Wrong(3, g, r, w) => Right(1, g, r) \/ Right(2, g, r)
  /\ Wrong(4, g, r, w) => Right(1, g, r) \/ Right(2, g, r) \/ Right(3, g, r)
  /\ Wrong(5, g, r, w) => Right(1, g, r) \/ Right(2, g, r) \/ Right(3, g, r) \/ Right(4, g, r)
  /\ Wrong(6, g, r, w) => Right(1, g, r) \/ Right(2, g, r) \/ Right(3, g, r) \/ Right(4, g, r) \/ Right(5, g, r)

\* What a step does to queue k; and to j and k, when it takes the head of j
\* and puts it at the end of k.
Same(k, g, r, w) == (Right(k, g, r)' <=> Right(k, g, r)) /\ (Wrong(k, g, r, w)' <=> Wrong(k, g, r, w))

Passed(j, k, g, r, w) ==
  \/ Same(j, g, r, w) /\ Same(k, g, r, w)
  \/ /\ Right(j, g, r) /\ Right(k, g, r)' /\ ~Wrong(k, g, r, w)'
     /\ Wrong(j, g, r, w)' => Wrong(j, g, r, w)
  \/ /\ (Right(j, g, r)' <=> Right(j, g, r)) /\ (Right(k, g, r)' <=> Right(k, g, r))
     /\ Wrong(j, g, r, w)' \/ ~Right(j, g, r)' => Wrong(j, g, r, w)

Flowed(g, r, w) ==
  \/ /\ Passed(1, 2, g, r, w)
     /\ Same(3, g, r, w) /\ Same(4, g, r, w) /\ Same(5, g, r, w) /\ Same(6, g, r, w)
  \/ /\ Passed(2, 3, g, r, w)
     /\ Same(1, g, r, w) /\ Same(4, g, r, w) /\ Same(5, g, r, w) /\ Same(6, g, r, w)
  \/ /\ Passed(3, 4, g, r, w)
     /\ Same(1, g, r, w) /\ Same(2, g, r, w) /\ Same(5, g, r, w) /\ Same(6, g, r, w)
  \/ /\ Passed(4, 5, g, r, w)
     /\ Same(1, g, r, w) /\ Same(2, g, r, w) /\ Same(3, g, r, w) /\ Same(6, g, r, w)
  \/ /\ Passed(5, 6, g, r, w)
     /\ Same(1, g, r, w) /\ Same(2, g, r, w) /\ Same(3, g, r, w) /\ Same(4, g, r, w)

LEMMA FlowKeeps ==
  ASSUME NEW g, NEW r, NEW w, Settling(g, r, w), Flowed(g, r, w)
  PROVE  Settling(g, r, w)' /\ (Anywhere(g, r) => Anywhere(g, r)')
  <1>1. CASE Passed(1, 2, g, r, w) /\ Same(3, g, r, w) /\ Same(4, g, r, w) /\ Same(5, g, r, w) /\ Same(6, g, r, w)
    BY <1>1 DEF Settling, Anywhere, Passed, Same
  <1>2. CASE Passed(2, 3, g, r, w) /\ Same(1, g, r, w) /\ Same(4, g, r, w) /\ Same(5, g, r, w) /\ Same(6, g, r, w)
    BY <1>2 DEF Settling, Anywhere, Passed, Same
  <1>3. CASE Passed(3, 4, g, r, w) /\ Same(1, g, r, w) /\ Same(2, g, r, w) /\ Same(5, g, r, w) /\ Same(6, g, r, w)
    BY <1>3 DEF Settling, Anywhere, Passed, Same
  <1>4. CASE Passed(4, 5, g, r, w) /\ Same(1, g, r, w) /\ Same(2, g, r, w) /\ Same(3, g, r, w) /\ Same(6, g, r, w)
    BY <1>4 DEF Settling, Anywhere, Passed, Same
  <1>5. CASE Passed(5, 6, g, r, w) /\ Same(1, g, r, w) /\ Same(2, g, r, w) /\ Same(3, g, r, w) /\ Same(4, g, r, w)
    BY <1>5 DEF Settling, Anywhere, Passed, Same
  <1> QED
    BY <1>1, <1>2, <1>3, <1>4, <1>5 DEF Flowed

LEMMA AsFacts ==
  ASSUME NEW g \in Gateways, NEW r \in FriendNews, NEW w \in FriendNews, r # w
  PROVE  /\ As(1, g, r) \cap As(1, g, w) = {} /\ As(2, g, r) \cap As(2, g, w) = {}
         /\ As(3, g, r) \cap As(3, g, w) = {} /\ As(4, g, r) \cap As(4, g, w) = {}
         /\ As(5, g, r) \cap As(5, g, w) = {} /\ As(6, g, r) \cap As(6, g, w) = {}
  <1>1. /\ As(1, g, r) \cap As(1, g, w) = {} /\ As(2, g, r) \cap As(2, g, w) = {}
        /\ As(3, g, r) \cap As(3, g, w) = {} /\ As(4, g, r) \cap As(4, g, w) = {}
        /\ As(6, g, r) \cap As(6, g, w) = {}
    BY DEF As, Publish, Tell
  <1>2. As(5, g, r) \cap As(5, g, w) = {}
    BY DEF As, Tell
  <1> QED
    BY <1>1, <1>2

LEMMA AsItems ==
  ASSUME NEW g \in Gateways, NEW e \in FriendNews
  PROVE  /\ \A x : Publish(x) \in As(1, g, e) <=> x = e
         /\ \A x : x \in As(2, g, e) <=> x = e
         /\ \A x : Tell("push", x) \in As(3, g, e) <=> x = e
         /\ \A x : x \in As(4, g, e) <=> x = e
         /\ \A u, x : [do |-> "gateways", user |-> u, data |-> x] \in As(5, g, e) <=> u = OwnerOf[g] /\ x = e
         /\ \A h, x : Tell(h, [m |-> "push", data |-> x]) \in As(5, g, e) <=> h = g /\ x = e
         /\ \A x : [m |-> "push", data |-> x] \in As(6, g, e) <=> x = e
         /\ \A x \in As(1, g, e) : x.do = "tell"
         /\ \A x \in As(5, g, e) : x.do \in {"tell", "gateways"}
         /\ \A x \in As(6, g, e) : x.m = "push"
  <1>1. /\ \A x : Publish(x) \in As(1, g, e) <=> x = e
        /\ \A x : x \in As(2, g, e) <=> x = e
        /\ \A x : Tell("push", x) \in As(3, g, e) <=> x = e
        /\ \A x : x \in As(4, g, e) <=> x = e
    BY DEF As, Publish, Tell
  <1>2. \A u, x : [do |-> "gateways", user |-> u, data |-> x] \in As(5, g, e) <=> u = OwnerOf[g] /\ x = e
    BY DEF As, Tell
  <1>3. \A h, x : Tell(h, [m |-> "push", data |-> x]) \in As(5, g, e) <=> h = g /\ x = e
    BY DEF As, Tell
  <1>4. \A x : [m |-> "push", data |-> x] \in As(6, g, e) <=> x = e
    BY DEF As
  <1>5. /\ \A x \in As(1, g, e) : x.do = "tell"
        /\ \A x \in As(5, g, e) : x.do \in {"tell", "gateways"}
        /\ \A x \in As(6, g, e) : x.m = "push"
    BY DEF As, Publish, Tell
  <1> QED
    BY <1>1, <1>2, <1>3, <1>4, <1>5

\* Steps that leave a queue alone, or what is said of g's user there.
LEMMA Unmoved ==
  ASSUME NEW k, NEW g, NEW r, NEW w, Where(k, g)' = Where(k, g)
  PROVE  Same(k, g, r, w)
  BY DEF Same, Right, Wrong

LEMMA Added ==
  ASSUME NEW k, NEW g, NEW r, NEW w, NEW S, Where(k, g) \in Seq(S), NEW x \in S, As(k, g, r) \cap As(k, g, w) = {},
         Where(k, g)' = Append(Where(k, g), x), x \notin As(k, g, r), x \notin As(k, g, w)
  PROVE  Same(k, g, r, w)
  <1>1. /\ Some(Append(Where(k, g), x), As(k, g, r)) <=> Some(Where(k, g), As(k, g, r))
        /\ Loose(Append(Where(k, g), x), As(k, g, r), As(k, g, w)) <=> Loose(Where(k, g), As(k, g, r), As(k, g, w))
    <2>1. PICK q \in Seq(S) : q = Where(k, g)
      OBVIOUS
    <2>2. PICK R : R = As(k, g, r)
      OBVIOUS
    <2>3. PICK W : W = As(k, g, w)
      OBVIOUS
    <2>4. /\ Some(Append(q, x), R) <=> x \in R \/ Some(q, R)
          /\ Loose(Append(q, x), R, W) <=> x \in W \/ (x \notin R /\ Loose(q, R, W))
      BY <2>2, <2>3, AppendNews
    <2> QED
      BY <2>1, <2>2, <2>3, <2>4
  <1> QED
    BY <1>1 DEF Same, Right, Wrong

LEMMA Removed ==
  ASSUME NEW k, NEW g, NEW r, NEW w, NEW S, Where(k, g) \in Seq(S), Where(k, g) # <<>>,
         Where(k, g)' = Tail(Where(k, g)), Head(Where(k, g)) \notin As(k, g, r), Head(Where(k, g)) \notin As(k, g, w)
  PROVE  Same(k, g, r, w)
  <1>1. /\ Some(Tail(Where(k, g)), As(k, g, r)) <=> Some(Where(k, g), As(k, g, r))
        /\ Loose(Tail(Where(k, g)), As(k, g, r), As(k, g, w)) <=> Loose(Where(k, g), As(k, g, r), As(k, g, w))
    <2>1. PICK q \in Seq(S) : q = Where(k, g)
      OBVIOUS
    <2>2. PICK R : R = As(k, g, r)
      OBVIOUS
    <2>3. PICK W : W = As(k, g, w)
      OBVIOUS
    <2>4. /\ Some(q, R) <=> Head(q) \in R \/ Some(Tail(q), R)
          /\ Loose(q, R, W) <=> Loose(Tail(q), R, W) \/ (Head(q) \in W /\ ~Some(Tail(q), R))
      BY <2>1, TailNews
    <2> QED
      BY <2>1, <2>2, <2>3, <2>4
  <1> QED
    BY <1>1 DEF Same, Right, Wrong

LEMMA PassedOn ==
  ASSUME NEW j, NEW k, NEW g, NEW r, NEW w, NEW S, NEW T, Where(j, g) \in Seq(S), Where(j, g) # <<>>,
         Where(k, g) \in Seq(T), NEW y \in T,
         As(j, g, r) \cap As(j, g, w) = {}, As(k, g, r) \cap As(k, g, w) = {},
         Where(j, g)' = Tail(Where(j, g)), Where(k, g)' = Append(Where(k, g), y),
         Head(Where(j, g)) \in As(j, g, r) <=> y \in As(k, g, r),
         Head(Where(j, g)) \in As(j, g, w) <=> y \in As(k, g, w)
  PROVE  Passed(j, k, g, r, w)
  <1>1. PICK q \in Seq(S) : q = Where(j, g)
    OBVIOUS
  <1>2. PICK p \in Seq(T) : p = Where(k, g)
    OBVIOUS
  <1>3. PICK R1 : R1 = As(j, g, r)
    OBVIOUS
  <1>4. PICK W1 : W1 = As(j, g, w)
    OBVIOUS
  <1>5. PICK R2 : R2 = As(k, g, r)
    OBVIOUS
  <1>6. PICK W2 : W2 = As(k, g, w)
    OBVIOUS
  <1>7. \/ /\ (Some(Tail(q), R1) <=> Some(q, R1)) /\ (Loose(Tail(q), R1, W1) <=> Loose(q, R1, W1))
           /\ (Some(Append(p, y), R2) <=> Some(p, R2)) /\ (Loose(Append(p, y), R2, W2) <=> Loose(p, R2, W2))
        \/ /\ Some(q, R1) /\ Some(Append(p, y), R2) /\ ~Loose(Append(p, y), R2, W2)
           /\ Loose(Tail(q), R1, W1) => Loose(q, R1, W1)
        \/ /\ (Some(Tail(q), R1) <=> Some(q, R1)) /\ (Some(Append(p, y), R2) <=> Some(p, R2))
           /\ Loose(Tail(q), R1, W1) \/ ~Some(Tail(q), R1) => Loose(q, R1, W1)
    <2>1. /\ q # <<>> /\ R1 \cap W1 = {} /\ R2 \cap W2 = {}
          /\ (Head(q) \in R1 <=> y \in R2) /\ (Head(q) \in W1 <=> y \in W2)
      BY <1>1, <1>2, <1>3, <1>4, <1>5, <1>6
    <2>2. /\ Some(q, R1) <=> Head(q) \in R1 \/ Some(Tail(q), R1)
          /\ Loose(q, R1, W1) <=> Loose(Tail(q), R1, W1) \/ (Head(q) \in W1 /\ ~Some(Tail(q), R1))
      BY <1>1, <2>1, TailNews
    <2>3. /\ Some(Append(p, y), R2) <=> y \in R2 \/ Some(p, R2)
          /\ Loose(Append(p, y), R2, W2) <=> y \in W2 \/ (y \notin R2 /\ Loose(p, R2, W2))
      BY <1>2, <2>1, AppendNews
    <2>4. ~(Head(q) \in R1 /\ Head(q) \in W1)
      BY <2>1
    <2> QED
      BY <2>1, <2>2, <2>3, <2>4
  <1>8. /\ Right(j, g, r) = Some(q, R1) /\ Right(j, g, r)' = Some(Tail(q), R1)
        /\ Wrong(j, g, r, w) = Loose(q, R1, W1) /\ Wrong(j, g, r, w)' = Loose(Tail(q), R1, W1)
    BY <1>1, <1>3, <1>4 DEF Right, Wrong
  <1>9. /\ Right(k, g, r) = Some(p, R2) /\ Right(k, g, r)' = Some(Append(p, y), R2)
        /\ Wrong(k, g, r, w) = Loose(p, R2, W2) /\ Wrong(k, g, r, w)' = Loose(Append(p, y), R2, W2)
    BY <1>2, <1>5, <1>6 DEF Right, Wrong
  <1> QED
    BY <1>7, <1>8, <1>9 DEF Passed, Same

-----------------------------------------------------------------------------
(* How the queues move. *)

Still(k, g) == Where(k, g)' = Where(k, g)
Takes(k, g, x) == Where(k, g) # <<>> /\ Head(Where(k, g)) = x /\ Where(k, g)' = Tail(Where(k, g))
Puts(k, g, x) == Where(k, g)' = Append(Where(k, g), x)

LEMMA DeliverTo ==
  ASSUME BoxInv, NEW a \in Actors, NEW m, Deliver(a, m), Open(a)
  PROVE  box'[a] = Append(box[a], m) /\ \A b \in Actors \ {a} : box'[b] = box[b]
  BY DEF BoxInv, Deliver

LEMMA DeliverElsewhere ==
  ASSUME BoxInv, NEW a \in Actors, NEW m, Deliver(a, m)
  PROVE  \A b \in Actors \ {a} : box'[b] = box[b]
  BY DEF BoxInv, Deliver

LEMMA NewOne ==
  ASSUME TodoInv, NEW a \in Actors, NEW c, todo' = [todo EXCEPT ![a] = c]
  PROVE  todo'[a] = c /\ \A b \in Actors \ {a} : todo'[b] = todo[b]
  BY DEF TodoInv

LEMMA MadeOne ==
  ASSUME TodoInv, NEW a \in Actors, Made(a)
  PROVE  todo'[a] = Tail(todo[a]) /\ \A b \in Actors \ {a} : todo'[b] = todo[b]
  BY DEF TodoInv, Made

LEMMA PulledOne ==
  ASSUME BoxInv, NEW a \in Actors, Pulled(a)
  PROVE  box'[a] = Tail(box[a]) /\ \A b \in Actors \ {a} : box'[b] = box[b]
  BY DEF BoxInv, Pulled

\* What each queue holds.
LEMMA Queues ==
  ASSUME TypeInv, NEW g \in Gateways
  PROVE  /\ Where(1, g) = todo["presence"] /\ Where(1, g) \in Seq(CallsOf("presence"))
         /\ Where(2, g) = box["bus"] /\ Where(2, g) \in Seq(MailOf("bus"))
         /\ Where(3, g) = todo["bus"] /\ Where(3, g) \in Seq(CallsOf("bus"))
         /\ Where(4, g) = box["push"] /\ Where(4, g) \in Seq(Heard)
         /\ Where(5, g) = todo["push"] /\ Where(5, g) \in Seq(CallsOf("push"))
         /\ Where(6, g) = box[g] /\ Where(6, g) \in Seq(MailOf(g))
         /\ {"presence", "bus", "push", g} \subseteq Actors
         /\ g \notin {"presence", "bus", "push"}
  <1>1. {"presence", "bus", "push", g} \subseteq Actors /\ g \notin {"presence", "bus", "push"}
    BY Names
  <1>2. /\ todo["presence"] \in Seq(CallsOf("presence")) /\ box["bus"] \in Seq(MailOf("bus"))
        /\ todo["bus"] \in Seq(CallsOf("bus")) /\ box["push"] \in Seq(MailOf("push"))
        /\ todo["push"] \in Seq(CallsOf("push")) /\ box[g] \in Seq(MailOf(g))
    BY <1>1 DEF TypeInv, BoxInv, TodoInv
  <1> QED
    BY <1>1, <1>2, Mails DEF Where

\* The queues of presence, the bus and the push actor are no gateway's.
LEMMA StillCalls ==
  ASSUME NEW g \in Gateways, \A b \in {"presence", "bus", "push"} : todo'[b] = todo[b]
  PROVE  Still(1, g) /\ Still(3, g) /\ Still(5, g)
  BY DEF Still, Where

LEMMA StillBoxes ==
  ASSUME NEW g \in Gateways, \A b \in {"bus", "push", g} : box'[b] = box[b]
  PROVE  Still(2, g) /\ Still(4, g) /\ Still(6, g)
  BY DEF Still, Where

AllStill(g) == Still(1, g) /\ Still(2, g) /\ Still(3, g) /\ Still(4, g) /\ Still(5, g) /\ Still(6, g)

\* A gateway that comes or stays has an open mailbox.
LEMMA StaysOpen ==
  ASSUME TypeInv, [Next]_vars, NEW g \in Gateways, life'[g] # "done"
  PROVE  Open(g) /\ ~CallDone(g)
  <1>1. life[g] # "done"
    BY ToldMoves
  <1>2. ~CallDone(g)
    BY DEF CallDone, TypeInv, LifeType
  <1> QED
    BY <1>1, <1>2 DEF Open

LEMMA CallMoves ==
  ASSUME TypeInv, [Next]_vars, NEW g \in Gateways, life'[g] # "done", NEW a \in Actors, MakeCall(a)
  PROVE  \/ AllStill(g)
         \/ \E e \in FriendNews : /\ Takes(1, g, Publish(e)) /\ Puts(2, g, e)
                                  /\ Still(3, g) /\ Still(4, g) /\ Still(5, g) /\ Still(6, g)
         \/ \E x : /\ x.do \in {"watch", "unwatch"} /\ Takes(1, g, x)
                   /\ Still(2, g) /\ Still(3, g) /\ Still(4, g) /\ Still(5, g) /\ Still(6, g)
         \/ \E e \in Heard : /\ Takes(3, g, Tell("push", e)) /\ Puts(4, g, e)
                             /\ Still(1, g) /\ Still(2, g) /\ Still(5, g) /\ Still(6, g)
         \/ \E e \in Heard : /\ Takes(5, g, Tell(g, [m |-> "push", data |-> e])) /\ Puts(6, g, [m |-> "push", data |-> e])
                             /\ Still(1, g) /\ Still(2, g) /\ Still(3, g) /\ Still(4, g)
         \/ \E e \in Heard, h \in Gateways \ {g} :
              /\ Takes(5, g, Tell(h, [m |-> "push", data |-> e]))
              /\ Still(1, g) /\ Still(2, g) /\ Still(3, g) /\ Still(4, g) /\ Still(6, g)
         \/ /\ Puts(2, g, Event("login", OwnerOf[a])) /\ a \in Gateways
            /\ Still(1, g) /\ Still(3, g) /\ Still(4, g) /\ Still(5, g) /\ Still(6, g)
         \/ /\ Puts(6, g, [m |-> "pill"])
            /\ Still(1, g) /\ Still(2, g) /\ Still(3, g) /\ Still(4, g) /\ Still(5, g)
  <1> USE DEF TypeInv
  <1>1. PICK c \in CallsOf(a) : c = Call(a) /\ todo[a] # <<>> /\ c = Head(todo[a])
    BY FirstCall DEF MakeCall, Call
  <1>2. /\ Where(1, g) = todo["presence"] /\ Where(2, g) = box["bus"] /\ Where(3, g) = todo["bus"]
        /\ Where(4, g) = box["push"] /\ Where(5, g) = todo["push"] /\ Where(6, g) = box[g]
        /\ {"presence", "bus", "push", g} \subseteq Actors /\ g \notin {"presence", "bus", "push"}
    BY Queues
  <1>3. Open(g) /\ ~CallDone(g) /\ Open("bus") /\ Open("push") /\ Open("presence")
    BY StaysOpen, Names DEF Open
  <1>4. CASE CallTell(a)
    <2>1. c.do = "tell" /\ Deliver(c.to, c.msg) /\ Made(a) /\ c.to \in Actors
      BY <1>1, <1>4, TellCalls DEF CallTell
    <2>2. todo'[a] = Tail(todo[a]) /\ \A b \in Actors \ {a} : todo'[b] = todo[b]
      BY <2>1, MadeOne
    <2>3. \A b \in Actors \ {c.to} : box'[b] = box[b]
      BY <2>1, DeliverElsewhere
    <2>4. c.to \in {"presence", "bus", "push", g} => box'[c.to] = Append(box[c.to], c.msg)
      BY <1>3, <2>1, DeliverTo
    <2>5. CASE a = "presence"
      <3>1. PICK e \in FriendNews : c = Publish(e) /\ c.to = "bus" /\ c.msg = e
        BY <2>1, <2>5, PresenceCalls
      <3>2. Takes(1, g, Publish(e))
        BY <1>1, <2>2, <2>5, <3>1 DEF Takes, Where
      <3>3. Puts(2, g, e)
        BY <2>4, <3>1 DEF Puts, Where
      <3>4. Still(3, g) /\ Still(4, g) /\ Still(5, g) /\ Still(6, g)
        BY <1>2, <2>2, <2>3, <2>5, <3>1 DEF Still, Where
      <3> QED
        BY <3>2, <3>3, <3>4
    <2>6. CASE a = "bus"
      <3>1. PICK e \in Heard : c = Tell("push", e) /\ c.to = "push" /\ c.msg = e
        BY <2>6, BusCalls
      <3>2. Takes(3, g, Tell("push", e))
        BY <1>1, <2>2, <2>6, <3>1 DEF Takes, Where
      <3>3. Puts(4, g, e)
        BY <2>4, <3>1 DEF Puts, Where
      <3>4. Still(1, g) /\ Still(2, g) /\ Still(5, g) /\ Still(6, g)
        BY <1>2, <2>2, <2>3, <2>6, <3>1 DEF Still, Where
      <3> QED
        BY <3>2, <3>3, <3>4
    <2>7. CASE a = "push"
      <3>1. c \in PushTells
        BY <2>1, <2>7, CallKinds DEF PushAsks
      <3>2. PICK p \in {q \in Gateways \X Heard : q[2] \in DataFor(OwnerOf[q[1]])} :
              c = Tell(p[1], [m |-> "push", data |-> p[2]])
        BY <3>1 DEF PushTells
      <3>3. PICK h \in Gateways : h = p[1]
        BY <3>2
      <3>4. PICK e \in Heard : e = p[2]
        BY <3>2
      <3>5. c = Tell(h, [m |-> "push", data |-> e]) /\ c.to = h /\ c.msg = [m |-> "push", data |-> e]
        BY <3>2, <3>3, <3>4 DEF Tell
      <3>6. Takes(5, g, Tell(h, [m |-> "push", data |-> e]))
        BY <1>1, <2>2, <2>7, <3>5 DEF Takes, Where
      <3>7. h \notin {"presence", "bus", "push"}
        BY Names
      <3>8. Still(1, g) /\ Still(2, g) /\ Still(3, g) /\ Still(4, g)
        BY <1>2, <2>2, <2>3, <2>7, <3>5, <3>7 DEF Still, Where
      <3>9. CASE h = g
        <4>2. box'[g] = Append(box[g], [m |-> "push", data |-> e])
          BY <2>4, <3>5, <3>9
        <4>1. Puts(6, g, [m |-> "push", data |-> e])
          BY <4>2 DEF Puts, Where
        <4> QED
          BY <3>6, <3>8, <3>9, <4>1
      <3>10. CASE h # g
        <4>1. Still(6, g)
          BY <1>2, <2>3, <3>5, <3>10 DEF Still, Where
        <4> QED
          BY <3>6, <3>8, <3>10, <4>1
      <3> QED
        BY <3>9, <3>10
    <2>8. CASE a \in Gateways
      <3>1. a \notin {"presence", "bus", "push"}
        BY <2>8, Names
      <3>2. Still(1, g) /\ Still(3, g) /\ Still(5, g)
        BY <1>2, <2>2, <3>1 DEF Still, Where
      <3>3. CASE c.to = "presence"
        <4>1. Still(2, g) /\ Still(4, g) /\ Still(6, g)
          BY <1>2, <2>3, <3>3 DEF Still, Where
        <4> QED
          BY <3>2, <4>1 DEF AllStill
      <3>4. CASE c.to = "bus" /\ c.msg = Event("login", OwnerOf[a])
        <4>1. Still(4, g) /\ Still(6, g)
          BY <1>2, <2>3, <3>4 DEF Still, Where
        <4>2. Puts(2, g, Event("login", OwnerOf[a]))
          BY <2>4, <3>4 DEF Puts, Where
        <4> QED
          BY <2>8, <3>2, <4>1, <4>2
      <3>5. CASE c.to = a /\ c.msg = [m |-> "pill"]
        <4>1. Still(2, g) /\ Still(4, g)
          BY <1>2, <2>3, <3>1, <3>5 DEF Still, Where
        <4>2. CASE a = g
          <5>1. Puts(6, g, [m |-> "pill"])
            BY <2>4, <3>5, <4>2 DEF Puts, Where
          <5> QED
            BY <3>2, <4>1, <5>1
        <4>3. CASE a # g
          <5>1. Still(6, g)
            BY <1>2, <2>3, <3>5, <4>3 DEF Still, Where
          <5> QED
            BY <3>2, <4>1, <5>1 DEF AllStill
        <4> QED
          BY <4>2, <4>3
      <3> QED
        BY <2>1, <2>8, <3>3, <3>4, <3>5, GatewayCallKinds
    <2> QED
      BY <2>5, <2>6, <2>7, <2>8, Names
  <1>5. CASE CallAsk(a)
    <2>1. Deliver("presence", [m |-> "query", by |-> a]) /\ UNCHANGED todo
      BY <1>5 DEF CallAsk
    <2>2. \A b \in Actors \ {"presence"} : box'[b] = box[b]
      BY <1>2, <2>1, DeliverElsewhere
    <2> QED
      BY <1>2, <2>1, <2>2, StillCalls, StillBoxes DEF AllStill
  <1>6. CASE CallWatch(a) \/ CallUnwatch(a)
    <2>1. c.do \in {"watch", "unwatch"} /\ a = "presence" /\ Made(a)
      BY <1>1, <1>6, WatchCalls DEF CallWatch, CallUnwatch
    <2>2. UNCHANGED box \/ Deliver("presence", [m |-> "terminated", gate |-> c.gate])
      BY <1>1, <1>6 DEF CallWatch, CallUnwatch
    <2>3. \A b \in Actors \ {"presence"} : box'[b] = box[b]
      BY <1>2, <2>2, DeliverElsewhere
    <2>4. todo'[a] = Tail(todo[a]) /\ \A b \in Actors \ {a} : todo'[b] = todo[b]
      BY <2>1, MadeOne
    <2>5. Takes(1, g, c)
      BY <1>1, <2>1, <2>4 DEF Takes, Where
    <2>6. Still(2, g) /\ Still(4, g) /\ Still(6, g)
      BY <1>2, <2>3, StillBoxes
    <2>7. Still(3, g) /\ Still(5, g)
      BY <1>2, <2>1, <2>4 DEF Still, Where
    <2> QED
      BY <2>1, <2>5, <2>6, <2>7
  <1>7. CASE CallDone(a)
    <2>1. a \in Gateways /\ a # g
      BY <1>1, <1>3, <1>7, WatchCalls DEF CallDone
    <2>2. Made(a) /\ box' = [box EXCEPT ![a] = <<>>] /\ a \notin {"presence", "bus", "push"}
      BY <1>7, <2>1, Names DEF CallDone
    <2>3. todo'[a] = Tail(todo[a]) /\ \A b \in Actors \ {a} : todo'[b] = todo[b]
      BY <2>2, MadeOne
    <2>4. \A b \in Actors \ {a} : box'[b] = box[b]
      BY <2>2 DEF BoxInv
    <2> QED
      BY <1>2, <2>1, <2>2, <2>3, <2>4, StillCalls, StillBoxes DEF AllStill
  <1> QED
    BY <1>4, <1>5, <1>6, <1>7 DEF MakeCall

LEMMA OtherMoves ==
  ASSUME TypeInv, [Next]_vars, NEW g \in Gateways, life'[g] # "done"
  PROVE  \/ AllStill(g)
         \/ \E a \in Actors : MakeCall(a) \/ Timeout(a)
         \/ Presence \/ Query \/ Bus \/ Push \/ Gateway(g)
         \/ /\ \E n \in Nat : Puts(2, g, [ev |-> "message", n |-> n])
            /\ Still(1, g) /\ Still(3, g) /\ Still(4, g) /\ Still(5, g) /\ Still(6, g)
         \/ /\ \E x \in MailOf(g) : x.m # "push" /\ Puts(6, g, x)
            /\ Still(1, g) /\ Still(2, g) /\ Still(3, g) /\ Still(4, g) /\ Still(5, g)
  <1> USE DEF TypeInv
  <1>1. /\ Where(1, g) = todo["presence"] /\ Where(2, g) = box["bus"] /\ Where(3, g) = todo["bus"]
        /\ Where(4, g) = box["push"] /\ Where(5, g) = todo["push"] /\ Where(6, g) = box[g]
        /\ {"presence", "bus", "push", g} \subseteq Actors /\ g \notin {"presence", "bus", "push"}
    BY Queues
  <1>2. Open(g) /\ Open("bus")
    BY StaysOpen, Names DEF Open
  <1>3. UNCHANGED todo => Still(1, g) /\ Still(3, g) /\ Still(5, g)
    BY StillCalls
  <1>4. UNCHANGED vars => AllStill(g)
    BY StillCalls, StillBoxes DEF vars, AllStill
  <1>5. ASSUME NEW h \in Gateways, Gateway(h), h # g PROVE AllStill(g)
    <2>1. Pulled(h)
      BY <1>5, GatewayHandles
    <2>2. \A b \in Actors \ {h} : box'[b] = box[b]
      BY <2>1, Names, PulledOne
    <2>3. \A b \in Actors \ {h} : todo'[b] = todo[b]
      BY <1>5, GatewayHandles, NewOne, Names
    <2>4. h \notin {"presence", "bus", "push", g}
      BY <1>5, Names
    <2> QED
      BY <1>1, <2>2, <2>3, <2>4, StillCalls, StillBoxes DEF AllStill
  <1>6. ASSUME NEW h \in Gateways, OnStart(h) PROVE AllStill(g)
    <2>1. UNCHANGED box
      BY <1>6, StartHandles
    <2>2. \A b \in Actors \ {h} : todo'[b] = todo[b]
      BY <1>6, StartHandles, NewOne, Names
    <2>3. h \notin {"presence", "bus", "push"}
      BY Names
    <2> QED
      BY <1>1, <2>1, <2>2, <2>3, StillCalls, StillBoxes DEF AllStill
  <1>7. ASSUME NEW h \in Gateways, Monitor(h) PROVE AllStill(g)
    <2>1. UNCHANGED todo /\ (UNCHANGED box \/ Deliver("presence", [m |-> "terminated", gate |-> h]))
      BY <1>7 DEF Monitor, MonitorWakes, MonitorTells
    <2>2. \A b \in Actors \ {"presence"} : box'[b] = box[b]
      BY <1>1, <2>1, DeliverElsewhere
    <2> QED
      BY <1>1, <1>3, <2>1, <2>2, StillBoxes DEF AllStill
  <1>8. ASSUME Published
        PROVE  /\ \E n \in Nat : Puts(2, g, [ev |-> "message", n |-> n])
               /\ Still(1, g) /\ Still(3, g) /\ Still(4, g) /\ Still(5, g) /\ Still(6, g)
    <2>1. PICK n \in Nat : n = news.published + 1
      BY DEF RestType
    <2>2. UNCHANGED todo /\ Deliver("bus", [ev |-> "message", n |-> n])
      BY <1>8, <2>1 DEF Published
    <2>3. box'["bus"] = Append(box["bus"], [ev |-> "message", n |-> n]) /\ \A b \in Actors \ {"bus"} : box'[b] = box[b]
      BY <1>1, <1>2, <2>2, DeliverTo
    <2>4. Puts(2, g, [ev |-> "message", n |-> n])
      BY <2>3 DEF Puts, Where
    <2>5. Still(4, g) /\ Still(6, g)
      BY <1>1, <2>3 DEF Still, Where
    <2> QED
      BY <1>3, <2>2, <2>4, <2>5
  <1>9. ASSUME NEW h \in Gateways, Client(h)
        PROVE  \/ AllStill(g)
               \/ /\ \E x \in MailOf(g) : x.m # "push" /\ Puts(6, g, x)
                  /\ Still(1, g) /\ Still(2, g) /\ Still(3, g) /\ Still(4, g) /\ Still(5, g)
    <2>1. PICK x \in MailOf(h) : Deliver(h, x) /\ x.m # "push" /\ UNCHANGED todo
      <3>1. /\ [m |-> "closed"] \in MailOf(h)
            /\ [m |-> "request", type |-> "presence"] \in MailOf(h)
            /\ [m |-> "request", type |-> "msg"] \in MailOf(h)
        BY NoticeType
      <3>2. CASE ClientAsks(h)
        BY <3>1, <3>2 DEF ClientAsks, Sends
      <3>3. CASE ClientSends(h)
        BY <3>1, <3>3 DEF ClientSends, Sends
      <3>4. CASE ClientGoes(h) \/ IdleTimeout(h)
        BY <3>1, <3>4 DEF ClientGoes, IdleTimeout, Sends
      <3> QED
        BY <1>9, <3>2, <3>3, <3>4 DEF Client
    <2>2. h \notin {"presence", "bus", "push"} /\ h \in Actors
      BY Names
    <2>3. CASE h = g
      <3>1. box'[g] = Append(box[g], x) /\ \A b \in Actors \ {g} : box'[b] = box[b]
        BY <1>1, <1>2, <2>1, <2>3, DeliverTo
      <3>2. Puts(6, g, x)
        BY <3>1 DEF Puts, Where
      <3>3. Still(2, g) /\ Still(4, g)
        BY <1>1, <3>1 DEF Still, Where
      <3> QED
        BY <1>3, <2>1, <2>3, <3>2, <3>3
    <2>4. CASE h # g
      <3>1. \A b \in Actors \ {h} : box'[b] = box[b]
        BY <2>1, <2>2, DeliverElsewhere
      <3> QED
        BY <1>1, <1>3, <2>1, <2>2, <2>4, <3>1, StillBoxes DEF AllStill
    <2> QED
      BY <2>3, <2>4
  <1> QED
    BY <1>4, <1>5, <1>6, <1>7, <1>8, <1>9, StepCases

LEMMA BusMoves ==
  ASSUME TypeInv, Bus, NEW g \in Gateways
  PROVE  /\ Still(1, g) /\ Still(4, g) /\ Still(5, g) /\ Still(6, g)
         /\ \/ \E e \in Heard : Takes(2, g, e) /\ Where(3, g) = <<>> /\ Where(3, g)' = <<Tell("push", e)>>
            \/ \E e \in MailOf("bus") : e.ev = "login" /\ Takes(2, g, e) /\ Still(3, g)
  <1> USE DEF TypeInv
  <1>1. /\ Where(1, g) = todo["presence"] /\ Where(2, g) = box["bus"] /\ Where(3, g) = todo["bus"]
        /\ Where(4, g) = box["push"] /\ Where(5, g) = todo["push"] /\ Where(6, g) = box[g]
        /\ {"presence", "bus", "push", g} \subseteq Actors /\ g \notin {"presence", "bus", "push"}
    BY Queues
  <1>2. /\ box["bus"] # <<>> /\ todo["bus"] = <<>> /\ Pulled("bus") /\ Head(box["bus"]) \in MailOf("bus")
        /\ \/ Head(box["bus"]).ev = "login" /\ todo' = [todo EXCEPT !["bus"] = <<>>]
           \/ Head(box["bus"]) \in Heard /\ todo' = [todo EXCEPT !["bus"] = <<Tell("push", Head(box["bus"]))>>]
    BY BusHandles
  <1>3. PICK e \in MailOf("bus") : e = Head(box["bus"])
    BY <1>2
  <1>4. box'["bus"] = Tail(box["bus"]) /\ \A b \in Actors \ {"bus"} : box'[b] = box[b]
    BY <1>1, <1>2, PulledOne
  <1>5. Takes(2, g, e)
    BY <1>2, <1>3, <1>4 DEF Takes, Where
  <1>6. Still(4, g) /\ Still(6, g)
    BY <1>1, <1>4 DEF Still, Where
  <1>7. \A c : todo' = [todo EXCEPT !["bus"] = c] => todo'["bus"] = c /\ \A b \in Actors \ {"bus"} : todo'[b] = todo[b]
    BY <1>1, NewOne
  <1>8. \A b \in Actors \ {"bus"} : todo'[b] = todo[b]
    BY <1>2, <1>7
  <1>9. Still(1, g) /\ Still(5, g)
    BY <1>1, <1>8 DEF Still, Where
  <1>10. CASE e.ev = "login" /\ todo' = [todo EXCEPT !["bus"] = <<>>]
    <2>1. Still(3, g)
      BY <1>2, <1>7, <1>10 DEF Still, Where
    <2> QED
      BY <1>5, <1>6, <1>9, <1>10, <2>1
  <1>11. CASE e \in Heard /\ todo' = [todo EXCEPT !["bus"] = <<Tell("push", e)>>]
    <2>1. todo'["bus"] = <<Tell("push", e)>>
      BY <1>7, <1>11
    <2>2. Where(3, g)' = <<Tell("push", e)>> /\ Where(3, g) = <<>>
      BY <1>2, <2>1 DEF Where
    <2> QED
      BY <1>5, <1>6, <1>9, <1>11, <2>2
  <1> QED
    BY <1>2, <1>3, <1>10, <1>11

LEMMA PushMoves ==
  ASSUME TypeInv, Push, NEW g \in Gateways
  PROVE  /\ Still(1, g) /\ Still(2, g) /\ Still(3, g) /\ Still(6, g)
         /\ Where(5, g) = <<>>
         /\ \E e \in Heard : /\ Takes(4, g, e)
                             /\ \/ Where(5, g)' \in handleEvent(e)
                                \/ Still(5, g) /\ gaveUp'
  <1> USE DEF TypeInv
  <1>1. /\ Where(1, g) = todo["presence"] /\ Where(2, g) = box["bus"] /\ Where(3, g) = todo["bus"]
        /\ Where(4, g) = box["push"] /\ Where(5, g) = todo["push"] /\ Where(6, g) = box[g]
        /\ {"presence", "bus", "push", g} \subseteq Actors /\ g \notin {"presence", "bus", "push"}
    BY Queues
  <1>2. /\ box["push"] # <<>> /\ todo["push"] = <<>> /\ Pulled("push") /\ Head(box["push"]) \in Heard
        /\ \/ (\E calls \in handleEvent(Head(box["push"])) : todo' = [todo EXCEPT !["push"] = calls]) /\ UNCHANGED gaveUp
           \/ UNCHANGED todo /\ gaveUp'
    BY PushHandles
  <1>3. PICK e \in Heard : e = Head(box["push"])
    BY <1>2
  <1>4. box'["push"] = Tail(box["push"]) /\ \A b \in Actors \ {"push"} : box'[b] = box[b]
    BY <1>1, <1>2, PulledOne
  <1>5. Takes(4, g, e)
    BY <1>2, <1>3, <1>4 DEF Takes, Where
  <1>6. Still(2, g) /\ Still(6, g)
    BY <1>1, <1>4 DEF Still, Where
  <1>7. \A c : todo' = [todo EXCEPT !["push"] = c] => todo'["push"] = c /\ \A b \in Actors \ {"push"} : todo'[b] = todo[b]
    BY <1>1, NewOne
  <1>8. \A b \in Actors \ {"push"} : todo'[b] = todo[b]
    BY <1>2, <1>7
  <1>9. Still(1, g) /\ Still(3, g)
    BY <1>1, <1>8 DEF Still, Where
  <1>10. todo'["push"] \in handleEvent(e) \/ (UNCHANGED todo /\ gaveUp')
    BY <1>2, <1>3, <1>7
  <1>11. Where(5, g)' \in handleEvent(e) \/ (Still(5, g) /\ gaveUp')
    BY <1>10 DEF Where, Still
  <1> QED
    BY <1>1, <1>2, <1>5, <1>6, <1>9, <1>11

\* What the push actor is answered.
LEMMA QueryMoves ==
  ASSUME TypeInv, Query, NEW g \in Gateways
  PROVE  /\ Still(1, g) /\ Still(2, g) /\ Still(3, g) /\ Still(4, g) /\ Still(6, g)
         /\ \/ Still(5, g)
            \/ \E u \in Users, e \in Heard : \E calls \in Seq(PushTells) :
                 /\ Where(5, g) # <<>> /\ Head(Where(5, g)) = [do |-> "gateways", user |-> u, data |-> e]
                 /\ Where(5, g)' = calls \o Tail(Where(5, g)) /\ UNCHANGED <<view, asked>>
                 /\ \A i \in DOMAIN calls : \E h \in gateways[u] : calls[i] = Tell(h, [m |-> "push", data |-> e])
                 /\ \A h \in gateways[u] : \E i \in DOMAIN calls : calls[i] = Tell(h, [m |-> "push", data |-> e])
            \/ \E u \in Users : \E calls \in Seq(PushAsks) :
                 /\ Where(5, g) # <<>> /\ Head(Where(5, g)).do = "batch"
                 /\ Where(5, g)' = calls \o Tail(Where(5, g)) /\ UNCHANGED <<view, asked>>
                 /\ \A i \in DOMAIN calls : \E f \in Friends[u] \cap online :
                      calls[i] = [do |-> "gateways", user |-> u, data |-> Event("online", f)]
  <1> USE DEF TypeInv
  <1>1. /\ Where(1, g) = todo["presence"] /\ Where(2, g) = box["bus"] /\ Where(3, g) = todo["bus"]
        /\ Where(4, g) = box["push"] /\ Where(5, g) = todo["push"] /\ Where(6, g) = box[g]
        /\ {"presence", "bus", "push", g} \subseteq Actors /\ g \notin {"presence", "bus", "push"}
    BY Queues
  <1>2. box["presence"] # <<>> /\ Pulled("presence")
    BY QueryHandles
  <1>3. \A b \in Actors \ {"presence"} : box'[b] = box[b]
    BY <1>1, <1>2, PulledOne
  <1>4. Still(2, g) /\ Still(4, g) /\ Still(6, g)
    BY <1>1, <1>3, StillBoxes
  <1>5. CASE \A b \in {"presence", "bus", "push"} : todo'[b] = todo[b]
    BY <1>4, <1>5, StillCalls
  <1>6. ASSUME NEW a \in Gateways, Made(a) PROVE \A b \in {"presence", "bus", "push"} : todo'[b] = todo[b]
    BY <1>6, MadeOne, Names
  <1>7. ASSUME Head(box["presence"]) = [m |-> "query", by |-> "push"]
        PROVE  /\ todo["push"] # <<>> /\ Call("push") = Head(todo["push"]) /\ Call("push") \in CallsOf("push")
               /\ Call("push").user \in Users
               /\ Call("push").do = "gateways" => Call("push").data \in DataFor(Call("push").user)
    BY <1>1, <1>2, <1>7, AskerKnown DEF Call
  <1>8. \A c : todo' = [todo EXCEPT !["push"] = c] => todo'["push"] = c /\ \A b \in Actors \ {"push"} : todo'[b] = todo[b]
    BY <1>1, NewOne
  <1>9. ASSUME Head(box["presence"]) = [m |-> "query", by |-> "push"], AnswerGateways("push")
        PROVE  /\ Still(1, g) /\ Still(3, g)
               /\ \E u \in Users, e \in Heard : \E calls \in Seq(PushTells) :
                    /\ Where(5, g) # <<>> /\ Head(Where(5, g)) = [do |-> "gateways", user |-> u, data |-> e]
                    /\ Where(5, g)' = calls \o Tail(Where(5, g)) /\ UNCHANGED <<view, asked>>
                    /\ \A i \in DOMAIN calls : \E h \in gateways[u] : calls[i] = Tell(h, [m |-> "push", data |-> e])
                    /\ \A h \in gateways[u] : \E i \in DOMAIN calls : calls[i] = Tell(h, [m |-> "push", data |-> e])
    <2>1. PICK u \in Users : u = Call("push").user
      BY <1>7, <1>9
    <2>2. PICK e \in Heard : e = Call("push").data /\ Call("push").do = "gateways"
      BY <1>7, <1>9, HeardFacts DEF AnswerGateways
    <2>3. PICK calls \in Seq(PushTells) :
            /\ todo' = [todo EXCEPT !["push"] = calls \o Tail(todo["push"])]
            /\ \A i \in DOMAIN calls : \E h \in gateways[u] : calls[i] = Tell(h, [m |-> "push", data |-> e])
            /\ \A h \in gateways[u] : \E i \in DOMAIN calls : calls[i] = Tell(h, [m |-> "push", data |-> e])
      BY <1>2, <1>9, <2>1, <2>2, GatewaysAnswered
    <2>4. todo'["push"] = calls \o Tail(todo["push"]) /\ \A b \in Actors \ {"push"} : todo'[b] = todo[b]
      BY <1>8, <2>3
    <2>5. Still(1, g) /\ Still(3, g)
      BY <1>1, <2>4 DEF Still, Where
    <2>6. Call("push") = [do |-> "gateways", user |-> u, data |-> e]
      <3>1. Call("push") \in CallsOf("push") /\ Call("push").do = "gateways"
        BY <1>7, <1>9, <2>2
      <3>2. Call("push") \in PushAsks
        BY <3>1, CallKinds DEF PushTells, Tell
      <3> QED
        BY <2>1, <2>2, <3>2 DEF PushAsks
    <2>7. Where(5, g)' = calls \o Tail(Where(5, g))
      BY <1>1, <2>4 DEF Where
    <2>8. UNCHANGED <<view, asked>>
      BY <1>9 DEF AnswerGateways
    <2>9. Where(5, g) # <<>> /\ Head(Where(5, g)) = [do |-> "gateways", user |-> u, data |-> e]
      BY <1>1, <1>7, <1>9, <2>6
    <2> QED
      BY <2>3, <2>5, <2>7, <2>8, <2>9
  <1>10. ASSUME Head(box["presence"]) = [m |-> "query", by |-> "push"], AnswerBatch("push")
         PROVE  /\ Still(1, g) /\ Still(3, g)
                /\ \E u \in Users : \E calls \in Seq(PushAsks) :
                     /\ Where(5, g) # <<>> /\ Head(Where(5, g)).do = "batch"
                     /\ Where(5, g)' = calls \o Tail(Where(5, g)) /\ UNCHANGED <<view, asked>>
                     /\ \A i \in DOMAIN calls : \E f \in Friends[u] \cap online :
                          calls[i] = [do |-> "gateways", user |-> u, data |-> Event("online", f)]
    <2>1. PICK u \in Users : u = Call("push").user
      BY <1>7, <1>10
    <2>2. Call("push").do = "batch"
      BY <1>10 DEF AnswerBatch
    <2>3. PICK calls \in Seq(PushAsks) :
            /\ todo' = [todo EXCEPT !["push"] = calls \o Tail(todo["push"])]
            /\ \A i \in DOMAIN calls : \E f \in Friends[u] \cap online :
                 calls[i] = [do |-> "gateways", user |-> u, data |-> Event("online", f)]
      BY <1>2, <1>10, <2>1, <2>2, BatchAnswered
    <2>4. todo'["push"] = calls \o Tail(todo["push"]) /\ \A b \in Actors \ {"push"} : todo'[b] = todo[b]
      BY <1>8, <2>3
    <2>5. Still(1, g) /\ Still(3, g)
      BY <1>1, <2>4 DEF Still, Where
    <2>7. Where(5, g)' = calls \o Tail(Where(5, g))
      BY <1>1, <2>4 DEF Where
    <2>8. UNCHANGED <<view, asked>>
      BY <1>10 DEF AnswerBatch
    <2> QED
      BY <1>1, <1>7, <1>10, <2>2, <2>3, <2>5, <2>7, <2>8
  <1> QED
    BY <1>4, <1>5, <1>6, <1>9, <1>10, QueryHandles
-----------------------------------------------------------------------------
(* Who is reached, and what his device shows. *)

\* The registration of g has reached presence.
Met(g) == Told(g) /\ ~Has(box["presence"], Coming(g))

Pushes == [m: {"push"}, data: Heard]
TellsTo(g) == {Tell(g, x) : x \in Pushes}

\* g has been answered, or something is on its last way to g.
Reached(g) == g \in asked \/ Some(box[g], Pushes) \/ Some(todo["push"], TellsTo(g))

MetInv == \A g \in Gateways : life[g] # "done" /\ Reached(g) => Met(g)

NewsOf(f, on) == Event(IF on THEN "online" ELSE "offline", f)

\* What device g shows of its friend f is true, f being online or not, or the truth is on its way;
\* and whatever else is on its way is followed by it.
Tidy(g, f, on) ==
  /\ Settling(g, NewsOf(f, on), NewsOf(f, ~on))
  /\ g \in asked => (f \in view[g] <=> on) \/ Anywhere(g, NewsOf(f, on))

ViewInv == \A g \in Gateways : \A f \in Friends[OwnerOf[g]] : \A on \in BOOLEAN :
             life[g] \in {"new", "up"} /\ ~gaveUp /\ (on <=> f \in online) => Tidy(g, f, on)

\* The invariant of the theorem on the devices' views.
ShownInv == PresenceInv /\ MetInv /\ ViewInv

\* Which steps change what presence knows, and what the devices show.
LEMMA WhoChanges ==
  ASSUME TypeInv, [Next]_vars
  PROVE  /\ UNCHANGED presenceVars \/ Presence
         /\ \/ UNCHANGED <<view, asked>>
            \/ Query
            \/ \E g \in Gateways : Gateway(g) /\ ReceivePush(g) /\ UNCHANGED asked
         /\ gaveUp => gaveUp'
  <1>1. ASSUME NEW g \in Gateways, Gateway(g)
        PROVE  /\ UNCHANGED presenceVars
               /\ UNCHANGED <<view, asked>> \/ (ReceivePush(g) /\ UNCHANGED asked)
               /\ gaveUp => gaveUp'
    <2>1. UNCHANGED presenceVars /\ UNCHANGED asked
      BY <1>1, GatewayHandles
    <2>2. UNCHANGED view \/ ReceivePush(g)
      BY <1>1 DEF Gateway, ReceiveClosed, OnStop, ReceiveFriends, ReceiveSend, clientVars
    <2>3. gaveUp => gaveUp'
      BY <1>1 DEF Gateway, ReceiveClosed, OnStop, ReceiveFriends, ReceiveSend, ReceivePush, Received, FriendsUnanswered
    <2> QED
      BY <2>1, <2>2, <2>3
  <1>2. ASSUME NEW a \in Actors, MakeCall(a) \/ Timeout(a)
        PROVE  UNCHANGED presenceVars /\ UNCHANGED <<view, asked>> /\ (gaveUp => gaveUp')
    BY <1>2 DEF MakeCall, CallTell, CallAsk, CallWatch, CallUnwatch, CallDone, Timeout, clientVars
  <1>3. /\ UNCHANGED vars => UNCHANGED presenceVars /\ UNCHANGED <<view, asked>> /\ UNCHANGED gaveUp
        /\ Published => UNCHANGED presenceVars /\ UNCHANGED <<view, asked>> /\ UNCHANGED gaveUp
        /\ \A g \in Gateways : Monitor(g) => UNCHANGED presenceVars /\ UNCHANGED <<view, asked>> /\ UNCHANGED gaveUp
        /\ \A g \in Gateways : OnStart(g) => UNCHANGED presenceVars /\ UNCHANGED <<view, asked>> /\ UNCHANGED gaveUp
    BY DEF vars, clientVars, Published, Monitor, MonitorWakes, MonitorTells, OnStart
  <1>7. ASSUME NEW g \in Gateways, Client(g)
        PROVE  UNCHANGED presenceVars /\ UNCHANGED <<view, asked>> /\ UNCHANGED gaveUp
    BY <1>7 DEF Client, ClientAsks, ClientSends, ClientGoes, IdleTimeout, Sends
  <1>4. Presence => UNCHANGED <<view, asked>> /\ (gaveUp => gaveUp')
    BY DEF Presence, clientVars
  <1>5. Bus \/ Push => UNCHANGED presenceVars /\ UNCHANGED <<view, asked>> /\ (gaveUp => gaveUp')
    BY DEF Bus, Push, clientVars, FriendsUnanswered
  <1>6. Query => UNCHANGED presenceVars /\ (gaveUp => gaveUp')
    BY DEF Query
  <1> QED
    BY <1>1, <1>2, <1>3, <1>4, <1>5, <1>6, <1>7, StepCases

\* Once met, always met.
LEMMA MetStays ==
  ASSUME PresenceInv, [Next]_vars, NEW g \in Gateways, Met(g)
  PROVE  Met(g)'
  <1> USE DEF PresenceInv
  <1> DEFINE q == box["presence"]
             r == box'["presence"]
  <1>1. q \in Seq(Message) /\ TypeInv
    BY Names, Mails DEF TypeInv, BoxInv
  <1>2. Told(g)' /\ ~Makes(g, Connected(g)) /\ Told(g) /\ ~Has(q, Coming(g))
    BY ToldMoves DEF Met
  <1>3. ASSUME NEW m \in Message, r = Append(q, m), m # Coming(g) PROVE ~Has(r, Coming(g))
    BY <1>1, <1>2, <1>3, HasAppend
  <1>4. ~Has(r, Coming(g))
    <2>1. CASE r = q
      BY <1>2, <2>1
    <2>2. ASSUME NEW a \in Actors, Timeout(a) PROVE ~Has(r, Coming(g))
      BY <1>2, <2>2, TimeoutMail
    <2>3. CASE Presence \/ Query
      <3>1. q # <<>> /\ Pulled("presence") /\ "presence" \in Actors
        BY <2>3, PresenceHandles, QueryHandles, Names
      <3>2. r = Tail(q)
        BY <3>1, PulledOne DEF TypeInv
      <3>3. Has(q, Coming(g)) <=> Head(q) = Coming(g) \/ Has(Tail(q), Coming(g))
        BY <1>1, <3>1, HasTail
      <3> HIDE DEF q, r
      <3> QED
        BY <1>2, <3>2, <3>3
    <2>4. ASSUME NEW h \in Gateways, NEW m \in {Coming(h), Leaving(h)}, MakeCall(h), CallTell(h),
                 Call(h) = Tell("presence", m), r = Append(q, m)
          PROVE  ~Has(r, Coming(g))
      <3>1. m \in Message
        BY DEF Coming, Leaving, Message
      <3>2. m = Coming(g) => h = g /\ Call(h) = Connected(g)
        BY <2>4, Notices DEF Connected, Coming
      <3> QED
        BY <1>2, <1>3, <2>4, <3>1, <3>2 DEF Makes
    <2>5. ASSUME NEW a \in Actors, r = Append(q, QueryBy(a)) PROVE ~Has(r, Coming(g))
      <3>1. QueryBy(a) \in Message /\ QueryBy(a) # Coming(g)
        BY Notices DEF QueryBy, Message
      <3> QED
        BY <1>3, <2>5, <3>1
    <2>6. ASSUME NEW h \in Gateways, r = Append(q, Ended(h)) PROVE ~Has(r, Coming(g))
      <3>1. Ended(h) \in Message /\ Ended(h) # Coming(g)
        BY Notices DEF Ended, Message
      <3> QED
        BY <1>3, <2>6, <3>1
    <2> QED
      BY <1>1, <2>1, <2>2, <2>3, <2>4, <2>5, <2>6, PresenceMail DEF Coming, Leaving, QueryBy, Ended
  <1> QED
    BY <1>2, <1>4 DEF Met

\* Presence knows the gateways it has met, while they have not left.
LEMMA MetKnown ==
  ASSUME PresenceInv, NEW u \in Users, NEW g \in Gateways
  PROVE  /\ g \in gateways[u] => Met(g) /\ u = OwnerOf[g]
         /\ Met(g) /\ life[g] \in {"new", "up"} => g \in gateways[OwnerOf[g]]
  <1> USE DEF PresenceInv
  <1>1. /\ OwnerOf[g] \in Users /\ None \notin Users
        /\ gateways[u] = {h \in Gateways : gatewayUID[h] = u}
        /\ gateways[OwnerOf[g]] = {h \in Gateways : gatewayUID[h] = OwnerOf[g]}
    BY DeliveryAssumption DEF MapInv
  <1>2. gatewayUID[g] = IF Known(g) THEN OwnerOf[g] ELSE None
    BY DEF NoticeInv
  <1>3. life[g] \in {"new", "up"} => ~Left(g)
    <2>1. GatewayInv(g)
      BY DEF TypeInv, LifeType
    <2> QED
      BY <2>1, TodoShapes DEF GatewayInv, Left
  <1> QED
    BY <1>1, <1>2, <1>3 DEF Known, Met

LEMMA SomeMoves ==
  ASSUME NEW k, NEW g, NEW R, NEW S, Where(k, g) \in Seq(S), NEW x
  PROVE  /\ Still(k, g) => (Some(Where(k, g)', R) <=> Some(Where(k, g), R))
         /\ Takes(k, g, x) => (Some(Where(k, g), R) <=> x \in R \/ Some(Where(k, g)', R))
         /\ x \in S /\ Puts(k, g, x) => (Some(Where(k, g)', R) <=> x \in R \/ Some(Where(k, g), R))
  <1>1. PICK q \in Seq(S) : q = Where(k, g)
    OBVIOUS
  <1>2. PICK W : W = {}
    OBVIOUS
  <1>3. R \cap W = {}
    BY <1>2
  <1>4. q # <<>> => (Some(q, R) <=> Head(q) \in R \/ Some(Tail(q), R))
    BY TailNews
  <1>5. x \in S => (Some(Append(q, x), R) <=> x \in R \/ Some(q, R))
    BY <1>3, AppendNews
  <1>6. Still(k, g) => (Some(Where(k, g)', R) <=> Some(Where(k, g), R))
    BY DEF Still
  <1>7. Takes(k, g, x) => (Some(Where(k, g), R) <=> x \in R \/ Some(Where(k, g)', R))
    BY <1>1, <1>4 DEF Takes
  <1>8. x \in S /\ Puts(k, g, x) => (Some(Where(k, g)', R) <=> x \in R \/ Some(Where(k, g), R))
    BY <1>1, <1>5 DEF Puts
  <1> QED
    BY <1>6, <1>7, <1>8

\* What a gateway's own step does to its queues.
LEMMA OwnMoves ==
  ASSUME TypeInv, NEW g \in Gateways, Gateway(g)
  PROVE  /\ Still(1, g) /\ Still(2, g) /\ Still(3, g) /\ Still(4, g) /\ Still(5, g)
         /\ life[g] = "up"
         /\ \/ \E x \in MailOf(g) : x.m # "push" /\ Takes(6, g, x) /\ UNCHANGED <<view, asked>>
            \/ \E e \in DataFor(OwnerOf[g]) :
                 /\ Takes(6, g, [m |-> "push", data |-> e]) /\ UNCHANGED asked
                 /\ \/ e.ev = "online" /\ view' = [view EXCEPT ![g] = view[g] \cup {e.user}]
                    \/ e.ev = "offline" /\ view' = [view EXCEPT ![g] = view[g] \ {e.user}]
                    \/ e \notin FriendNews /\ view' = view
  <1> USE DEF TypeInv
  <1>1. /\ Where(1, g) = todo["presence"] /\ Where(2, g) = box["bus"] /\ Where(3, g) = todo["bus"]
        /\ Where(4, g) = box["push"] /\ Where(5, g) = todo["push"] /\ Where(6, g) = box[g]
        /\ {"presence", "bus", "push", g} \subseteq Actors /\ g \notin {"presence", "bus", "push"}
        /\ Where(6, g) \in Seq(MailOf(g))
    BY Queues
  <1>2. box[g] # <<>> /\ Pulled(g) /\ life[g] = "up" /\ UNCHANGED asked
    BY GatewayHandles
  <1>3. box'[g] = Tail(box[g]) /\ \A b \in Actors \ {g} : box'[b] = box[b]
    BY <1>1, <1>2, PulledOne
  <1>4. \A b \in Actors \ {g} : todo'[b] = todo[b]
    BY <1>1, GatewayHandles, NewOne
  <1>5. Still(1, g) /\ Still(3, g) /\ Still(5, g)
    BY <1>1, <1>4, StillCalls
  <1>6. Still(2, g) /\ Still(4, g)
    BY <1>1, <1>3 DEF Still, Where
  <1>7. Takes(6, g, Head(box[g]))
    BY <1>2, <1>3 DEF Takes, Where
  <1>8. CASE ReceivePush(g)
    <2>1. PICK e \in DataFor(OwnerOf[g]) :
            /\ Head(box[g]) = [m |-> "push", data |-> e]
            /\ \/ e.ev = "online" /\ view' = [view EXCEPT ![g] = view[g] \cup {e.user}]
               \/ e.ev = "offline" /\ view' = [view EXCEPT ![g] = view[g] \ {e.user}]
               \/ e \notin FriendNews /\ view' = view
      BY <1>8, PushApplied
    <2>2. Takes(6, g, [m |-> "push", data |-> e])
      BY <1>7, <2>1
    <2> QED
      BY <1>2, <1>5, <1>6, <2>1, <2>2
  <1>9. CASE ~ReceivePush(g)
    <2>1. Head(box[g]) \in {[m |-> "closed"], [m |-> "pill"], [m |-> "request", type |-> "presence"],
                            [m |-> "request", type |-> "msg"]} /\ UNCHANGED view
      BY <1>9 DEF Gateway, ReceiveClosed, OnStop, ReceiveFriends, ReceiveSend, Pulls, clientVars
    <2>2. PICK x : x = Head(box[g])
      OBVIOUS
    <2>3. x.m # "push"
      BY <2>1, <2>2
    <2>4. x \in MailOf(g)
      BY <2>1, <2>2, NoticeType
    <2> QED
      BY <1>2, <1>5, <1>6, <1>7, <2>1, <2>2, <2>3, <2>4
  <1> QED
    BY <1>8, <1>9

LEMMA ReachedItems ==
  ASSUME NEW g \in Gateways
  PROVE  /\ \A x : x.m # "push" => x \notin Pushes
         /\ \A e \in Heard : [m |-> "push", data |-> e] \in Pushes
         /\ \A e \in Heard : Tell(g, [m |-> "push", data |-> e]) \in TellsTo(g)
         /\ \A h, x : h # g => Tell(h, x) \notin TellsTo(g)
         /\ \A c \in TellsTo(g) : c.do = "tell"
  <1>1. \A x : x.m # "push" => x \notin Pushes
    BY DEF Pushes
  <1>2. \A e \in Heard : [m |-> "push", data |-> e] \in Pushes
    BY DEF Pushes
  <1>3. \A e \in Heard : Tell(g, [m |-> "push", data |-> e]) \in TellsTo(g)
    BY <1>2 DEF TellsTo
  <1>4. \A h, x : Tell(h, x).to = h /\ Tell(h, x).do = "tell"
    BY DEF Tell
  <1>5. \A h, x : h # g => Tell(h, x) \notin TellsTo(g)
    <2> SUFFICES ASSUME NEW h, NEW x, Tell(h, x) \in TellsTo(g) PROVE h = g
      OBVIOUS
    <2>1. PICK y \in Pushes : Tell(h, x) = Tell(g, y)
      BY DEF TellsTo
    <2> QED
      BY <1>4, <2>1
  <1>6. \A c \in TellsTo(g) : c.do = "tell"
    BY <1>4 DEF TellsTo
  <1> QED
    BY <1>1, <1>2, <1>3, <1>5, <1>6

LEMMA MetStep ==
  ASSUME PresenceInv, MetInv, [Next]_vars, NEW g \in Gateways, life'[g] # "done", Reached(g)'
  PROVE  Met(g)'
  <1> USE DEF PresenceInv
  <1>1. /\ Where(5, g) = todo["push"] /\ Where(5, g)' = todo'["push"] /\ Where(6, g) = box[g] /\ Where(6, g)' = box'[g]
        /\ Where(5, g) \in Seq(CallsOf("push")) /\ Where(6, g) \in Seq(MailOf(g))
    BY Queues DEF Where
  <1>2. life[g] # "done"
    BY ToldMoves
  <1> DEFINE Box == Some(Where(6, g), Pushes)
             Calls == Some(Where(5, g), TellsTo(g))
  <1>3. Reached(g) <=> g \in asked \/ Box \/ Calls
    BY <1>1 DEF Reached
  <1>4. Reached(g)' <=> g \in asked' \/ Some(Where(6, g)', Pushes) \/ Some(Where(5, g)', TellsTo(g))
    BY <1>1 DEF Reached
  <1>5. Reached(g) => Met(g)'
    BY <1>2, MetStays DEF MetInv
  <1>6. ASSUME NEW x, NEW k \in {5, 6}
        PROVE  /\ Still(k, g) => (Some(Where(k, g)', Pushes) <=> Some(Where(k, g), Pushes))
                                 /\ (Some(Where(k, g)', TellsTo(g)) <=> Some(Where(k, g), TellsTo(g)))
               /\ Takes(k, g, x) => (Some(Where(k, g), Pushes) <=> x \in Pushes \/ Some(Where(k, g)', Pushes))
                                    /\ (Some(Where(k, g), TellsTo(g)) <=> x \in TellsTo(g) \/ Some(Where(k, g)', TellsTo(g)))
    BY <1>1, SomeMoves
  <1>7. \A x \in MailOf(g) : Puts(6, g, x) => (Some(Where(6, g)', Pushes) <=> x \in Pushes \/ Box)
    BY <1>1, SomeMoves
  <1> HIDE DEF Box, Calls
  <1>8. ASSUME NEW x, Still(5, g) \/ Takes(5, g, x), Still(6, g) \/ Takes(6, g, x), UNCHANGED asked
        PROVE  Met(g)'
    BY <1>3, <1>4, <1>5, <1>6, <1>8 DEF Box, Calls
  <1>9. ASSUME NEW x \in MailOf(g), x.m # "push", Puts(6, g, x), Still(5, g), UNCHANGED asked
        PROVE  Met(g)'
    <2>1. x \notin Pushes
      BY <1>9, ReachedItems
    <2> QED
      BY <1>3, <1>4, <1>5, <1>6, <1>7, <1>9, <2>1 DEF Box, Calls
  <1>10. ASSUME ~Query PROVE UNCHANGED asked
    BY <1>10, WhoChanges
  <1>11. ASSUME NEW a \in Actors, MakeCall(a) PROVE Met(g)'
    <2>1. UNCHANGED asked
      BY <1>11 DEF MakeCall, CallTell, CallAsk, CallWatch, CallUnwatch, CallDone, clientVars
    <2>2. ASSUME NEW e \in Heard, Takes(5, g, Tell(g, [m |-> "push", data |-> e])) PROVE Met(g)'
      <3>1. Calls
        BY <1>6, <2>2, ReachedItems DEF Calls
      <3> QED
        BY <1>3, <1>5, <3>1
    <2>3. ASSUME Puts(6, g, [m |-> "pill"]), Still(5, g) PROVE Met(g)'
      <3>1. PICK x \in MailOf(g) : x = [m |-> "pill"]
        BY NoticeType
      <3>2. x.m # "push"
        BY <3>1
      <3> QED
        BY <1>9, <2>1, <2>3, <3>1, <3>2
    <2> QED
      BY <1>8, <1>11, <2>1, <2>2, <2>3, CallMoves DEF AllStill
  <1>12. CASE Push
    <2>1. PICK e \in Heard : Where(5, g)' \in handleEvent(e) \/ Still(5, g)
      BY <1>12, PushMoves
    <2>2. Still(6, g)
      BY <1>12, PushMoves
    <2>3. UNCHANGED asked
      BY <1>12 DEF Push, clientVars
    <2>4. CASE Where(5, g)' \in handleEvent(e)
      <3>1. PICK calls \in handleEvent(e) : calls = Where(5, g)'
        BY <2>4
      <3>2. \A i \in DOMAIN calls : calls[i] \notin TellsTo(g)
        <4>1. \A i \in DOMAIN calls : calls[i].do # "tell"
          BY HandleEventFacts
        <4> QED
          BY <4>1, ReachedItems
      <3>3. ~Some(Where(5, g)', TellsTo(g))
        BY <3>1, <3>2 DEF Some
      <3> QED
        BY <1>3, <1>4, <1>5, <1>6, <2>2, <2>3, <3>3 DEF Box
    <2> QED
      BY <1>8, <2>1, <2>2, <2>3, <2>4
  <1>13. CASE Query /\ g \in asked' /\ g \notin asked
    <2> DEFINE q == box["presence"]
    <2>1. /\ q # <<>> /\ Pulled("presence") /\ Head(q) = QueryBy(g) /\ Call(g).do = "batch" /\ UNCHANGED presenceVars
      BY <1>13, QueryHandles DEF QueryBy, Query
    <2>2. q \in Seq(Message) /\ InOrder(g, q) /\ "presence" \in Actors /\ box'["presence"] = Tail(q)
      BY <2>1, PulledOne, Names, Mails DEF TypeInv, BoxInv, NoticeInv
    <2>3. ~Has(box'["presence"], Coming(g))
      BY <2>1, <2>2, OrderTail
    <2>4. QueryAt(1, g)
      BY <2>1, <2>2 DEF QueryAt, QueryBy
    <2>5. 1 \in DOMAIN box["presence"] /\ g \in Actors
      BY <2>1, <2>2, Names
    <2>6. g \in asking
      BY <2>4, <2>5 DEF TypeInv, AskInv
    <2>7. todo[g] # <<>>
      BY <2>6 DEF TypeInv, AskInv
    <2>8. todo[g] = <<Asks(g)>> /\ life[g] = "up"
      <3>1. /\ Connected(g).do = "tell" /\ Gone(g).do = "tell" /\ Login(g).do = "tell"
            /\ Pill(g).do = "tell" /\ Done.do = "done"
        BY DEF Connected, Gone, Login, Pill, Done, Tell, Publish
      <3> HIDE DEF q
      <3>2. Call(g) \notin {Connected(g), Gone(g), Login(g), Pill(g), Done}
        BY <2>1, <3>1
      <3> QED
        BY <2>7, <3>2, FirstOfGateway
    <2>9. Told(g)
      BY <2>8, TodoShapes DEF Told
    <2>10. ~Makes(g, Connected(g))
      BY <2>9, ToldMoves
    <2>11. Told(g)'
      BY <2>9, <2>10, ToldMoves
    <2> QED
      BY <2>3, <2>11 DEF Met
  <1>14. CASE Query /\ (g \in asked' => g \in asked)
    <2>1. Still(6, g)
      BY <1>14, QueryMoves
    <2>2. CASE Still(5, g)
      BY <1>3, <1>4, <1>5, <1>6, <1>14, <2>1, <2>2 DEF Box, Calls
    <2>3. ASSUME NEW S, NEW calls \in Seq(S), CallsOf("push") \subseteq S, Where(5, g) # <<>>,
                 Where(5, g)' = calls \o Tail(Where(5, g)), \A i \in DOMAIN calls : calls[i] \notin TellsTo(g)
          PROVE  Met(g)'
      <3>1. PICK q \in Seq(CallsOf("push")) : q = Where(5, g)
        BY <1>1
      <3>2. PICK W : W = TellsTo(g)
        OBVIOUS
      <3>3. q \in Seq(S) /\ Tail(q) \in Seq(S)
        BY <2>3, <3>1, TailFacts, SeqMonotonic
      <3>4. /\ Some(q, W) <=> Head(q) \in W \/ Some(Tail(q), W)
            /\ Loose(q, W, W) <=> Loose(Tail(q), W, W) \/ (Head(q) \in W /\ ~Some(Tail(q), W))
        BY <2>3, <3>1, TailNews
      <3>5. Some(calls \o Tail(q), W) <=> Some(calls, W) \/ Some(Tail(q), W)
        BY <3>3, ConcatNews
      <3>6. ~Some(calls, W)
        BY <2>3, <3>2 DEF Some
      <3>7. Some(Where(5, g)', TellsTo(g)) => Calls
        BY <2>3, <3>1, <3>2, <3>4, <3>5, <3>6 DEF Calls
      <3> QED
        BY <1>3, <1>4, <1>5, <1>6, <1>14, <2>1, <3>7 DEF Box
    <2>4. ASSUME NEW u \in Users, NEW e \in Heard, NEW calls \in Seq(PushTells), Where(5, g) # <<>>,
                 Where(5, g)' = calls \o Tail(Where(5, g)),
                 \A i \in DOMAIN calls : \E h \in gateways[u] : calls[i] = Tell(h, [m |-> "push", data |-> e])
          PROVE  Met(g)'
      <3>1. CASE g \in gateways[u]
        BY <3>1, MetKnown, MetStays
      <3>2. CASE g \notin gateways[u]
        <4>1. \A i \in DOMAIN calls : calls[i] \notin TellsTo(g)
          BY <2>4, <3>2, ReachedItems
        <4>2. calls \in Seq(CallsOf("push"))
          BY CallKinds, SeqMonotonic
        <4> QED
          BY <2>3, <2>4, <4>1, <4>2
      <3> QED
        BY <3>1, <3>2
    <2>5. ASSUME NEW u \in Users, NEW calls \in Seq(PushAsks), Where(5, g) # <<>>,
                 Where(5, g)' = calls \o Tail(Where(5, g)),
                 \A i \in DOMAIN calls : \E f \in Friends[u] \cap online :
                   calls[i] = [do |-> "gateways", user |-> u, data |-> Event("online", f)]
          PROVE  Met(g)'
      <3>1. \A i \in DOMAIN calls : calls[i].do # "tell"
        BY <2>5
      <3>2. \A i \in DOMAIN calls : calls[i] \notin TellsTo(g)
        BY <3>1, ReachedItems
      <3>3. calls \in Seq(CallsOf("push"))
        BY CallKinds, SeqMonotonic
      <3> QED
        BY <2>3, <2>5, <3>2, <3>3
    <2> QED
      BY <1>14, <2>2, <2>4, <2>5, QueryMoves
  <1>15. CASE Presence
    <2>1. PICK h \in Gateways : /\ Pulled("presence")
                                /\ handleConnected(h) \/ handleDisconnected(h) \/ handleTerminated(h)
      BY <1>15, PresenceHandles
    <2>2. box'[g] = box[g] /\ todo'["push"] = todo["push"]
      <3>1. g \in Actors /\ "push" \in Actors /\ "presence" \in Actors /\ g # "presence"
        BY Names
      <3>2. \A c : todo' = [todo EXCEPT !["presence"] = c] => todo'["push"] = todo["push"]
        BY <3>1, NewOne DEF TypeInv
      <3>3. todo'["push"] = todo["push"]
        BY <2>1, <3>2, PresenceLeaves
      <3> QED
        BY <2>1, <3>1, <3>3, PulledOne DEF TypeInv
    <2>3. Still(5, g) /\ Still(6, g)
      BY <1>1, <2>2 DEF Still
    <2>4. UNCHANGED asked
      BY <1>15 DEF Presence, clientVars
    <2> QED
      BY <1>8, <2>3, <2>4
  <1>16. CASE Bus
    <2>1. Still(5, g) /\ Still(6, g)
      BY <1>16, BusMoves
    <2>2. UNCHANGED asked
      BY <1>16 DEF Bus, clientVars
    <2> QED
      BY <1>8, <2>1, <2>2
  <1>17. CASE Gateway(g)
    <2>1. Still(5, g) /\ (\E x : Takes(6, g, x)) /\ UNCHANGED asked
      BY <1>17, OwnMoves
    <2> QED
      BY <1>8, <2>1
  <1> QED
    <2>1. ASSUME NEW a \in Actors, Timeout(a) PROVE Met(g)'
      <3>1. UNCHANGED asked /\ Made(a) /\ a \in asking
        BY <2>1 DEF Timeout, clientVars
      <3>2. PICK x : x = Head(todo["push"])
        OBVIOUS
      <3>3. Still(5, g) \/ Takes(5, g, x)
        <4>1. todo[a] # <<>>
          BY <3>1 DEF TypeInv, AskInv
        <4>2. todo'[a] = Tail(todo[a]) /\ \A b \in Actors \ {a} : todo'[b] = todo[b]
          BY <3>1, MadeOne DEF TypeInv
        <4>3. CASE a = "push"
          BY <1>1, <3>2, <4>1, <4>2, <4>3 DEF Takes
        <4>4. CASE a # "push"
          BY <1>1, <4>2, <4>4, Names DEF Still
        <4> QED
          BY <4>3, <4>4
      <3>4. Still(6, g)
        <4>1. box'[g] = box[g]
          BY <2>1, Names DEF Timeout, TypeInv, BoxInv
        <4> QED
          BY <1>1, <4>1 DEF Still
      <3> QED
        BY <1>8, <3>1, <3>3, <3>4
    <2>2. \A n : Puts(2, g, n) /\ Still(5, g) /\ Still(6, g) /\ ~Query => Met(g)'
      BY <1>8, <1>10
    <2>3. CASE Query
      BY <1>13, <1>14, <2>3
    <2>4. CASE ~Query
      BY <1>8, <1>9, <1>10, <1>11, <1>12, <1>15, <1>16, <1>17, <2>1, <2>2, <2>4, OtherMoves DEF AllStill
    <2> QED
      BY <2>3, <2>4

-----------------------------------------------------------------------------
(* The news flows. *)

LEMMA Takings ==
  ASSUME NEW k, NEW g, NEW r, NEW w, NEW S, Where(k, g) \in Seq(S), NEW x,
         Takes(k, g, x), x \notin As(k, g, r), x \notin As(k, g, w)
  PROVE  Same(k, g, r, w)
  BY Removed DEF Takes

LEMMA Puttings ==
  ASSUME NEW k, NEW g, NEW r, NEW w, NEW S, Where(k, g) \in Seq(S), NEW x \in S, As(k, g, r) \cap As(k, g, w) = {},
         Puts(k, g, x), x \notin As(k, g, r), x \notin As(k, g, w)
  PROVE  Same(k, g, r, w)
  BY Added DEF Puts

LEMMA Passings ==
  ASSUME NEW j, NEW k, NEW g, NEW r, NEW w, NEW S, NEW T, Where(j, g) \in Seq(S), Where(k, g) \in Seq(T),
         NEW x, NEW y \in T, As(j, g, r) \cap As(j, g, w) = {}, As(k, g, r) \cap As(k, g, w) = {},
         Takes(j, g, x), Puts(k, g, y),
         x \in As(j, g, r) <=> y \in As(k, g, r), x \in As(j, g, w) <=> y \in As(k, g, w)
  PROVE  Passed(j, k, g, r, w)
  BY PassedOn DEF Takes, Puts

\* A step that leaves each queue as it is, or as it is for r and w.
LEMMA Steady ==
  ASSUME NEW g, NEW r, NEW w,
         Still(1, g) \/ Same(1, g, r, w), Still(2, g) \/ Same(2, g, r, w), Still(3, g) \/ Same(3, g, r, w),
         Still(4, g) \/ Same(4, g, r, w), Still(5, g) \/ Same(5, g, r, w), Still(6, g) \/ Same(6, g, r, w)
  PROVE  Flowed(g, r, w)
  <1>1. \A k : Still(k, g) => Same(k, g, r, w)
    BY Unmoved DEF Still
  <1> QED
    BY <1>1 DEF Flowed, Passed

LEMMA CallFlows ==
  ASSUME TypeInv, [Next]_vars, NEW g \in Gateways, life'[g] # "done", NEW a \in Actors, MakeCall(a),
         NEW r \in FriendNews, NEW w \in FriendNews, r # w
  PROVE  Flowed(g, r, w)
  <1>1. /\ Where(1, g) \in Seq(CallsOf("presence")) /\ Where(2, g) \in Seq(MailOf("bus"))
        /\ Where(3, g) \in Seq(CallsOf("bus")) /\ Where(4, g) \in Seq(Heard)
        /\ Where(5, g) \in Seq(CallsOf("push")) /\ Where(6, g) \in Seq(MailOf(g))
    BY Queues
  <1>2. /\ As(1, g, r) \cap As(1, g, w) = {} /\ As(2, g, r) \cap As(2, g, w) = {}
        /\ As(3, g, r) \cap As(3, g, w) = {} /\ As(4, g, r) \cap As(4, g, w) = {}
        /\ As(5, g, r) \cap As(5, g, w) = {} /\ As(6, g, r) \cap As(6, g, w) = {}
    BY AsFacts
  <1>3. ASSUME NEW e \in {r, w}
        PROVE  /\ \A x : Publish(x) \in As(1, g, e) <=> x = e
               /\ \A x : x \in As(2, g, e) <=> x = e
               /\ \A x : Tell("push", x) \in As(3, g, e) <=> x = e
               /\ \A x : x \in As(4, g, e) <=> x = e
               /\ \A h, x : Tell(h, [m |-> "push", data |-> x]) \in As(5, g, e) <=> h = g /\ x = e
               /\ \A x : [m |-> "push", data |-> x] \in As(6, g, e) <=> x = e
               /\ \A x \in As(1, g, e) : x.do = "tell"
               /\ \A x \in As(6, g, e) : x.m = "push"
    BY AsItems
  <1>4. \A k : Still(k, g) => Same(k, g, r, w)
    BY Unmoved DEF Still
  <1>5. CASE AllStill(g)
    BY <1>5, Steady DEF AllStill
  <1>6. ASSUME NEW e \in FriendNews, Takes(1, g, Publish(e)), Puts(2, g, e),
               Still(3, g), Still(4, g), Still(5, g), Still(6, g)
        PROVE  Flowed(g, r, w)
    <2>1. e \in MailOf("bus")
      BY Mails DEF Heard
    <2>2. Passed(1, 2, g, r, w)
      BY <1>1, <1>2, <1>3, <1>6, <2>1, Passings
    <2> QED
      BY <1>4, <1>6, <2>2 DEF Flowed
  <1>7. ASSUME NEW x, x.do \in {"watch", "unwatch"}, Takes(1, g, x),
               Still(2, g), Still(3, g), Still(4, g), Still(5, g), Still(6, g)
        PROVE  Flowed(g, r, w)
    <2>1. x \notin As(1, g, r) /\ x \notin As(1, g, w)
      BY <1>3, <1>7
    <2>2. Same(1, g, r, w)
      BY <1>1, <1>7, <2>1, Takings
    <2> QED
      BY <1>7, <2>2, Steady
  <1>8. ASSUME NEW e \in Heard, Takes(3, g, Tell("push", e)), Puts(4, g, e),
               Still(1, g), Still(2, g), Still(5, g), Still(6, g)
        PROVE  Flowed(g, r, w)
    <2>1. Passed(3, 4, g, r, w)
      BY <1>1, <1>2, <1>3, <1>8, Passings
    <2> QED
      BY <1>4, <1>8, <2>1 DEF Flowed
  <1>9. ASSUME NEW e \in Heard, Takes(5, g, Tell(g, [m |-> "push", data |-> e])), Puts(6, g, [m |-> "push", data |-> e]),
               Still(1, g), Still(2, g), Still(3, g), Still(4, g)
        PROVE  Flowed(g, r, w)
    <2>1. Tell(g, [m |-> "push", data |-> e]) \in CallsOf("push")
      <3>1. PICK q \in Seq(CallsOf("push")) : q = Where(5, g)
        BY <1>1
      <3>2. q # <<>> /\ Head(q) = Tell(g, [m |-> "push", data |-> e])
        BY <1>9, <3>1 DEF Takes
      <3> QED
        BY <3>2, TailFacts
    <2>2. e \in DataFor(OwnerOf[g])
      <3>1. PICK c \in CallsOf("push") : c = Tell(g, [m |-> "push", data |-> e])
        BY <2>1
      <3>2. c.do = "tell" /\ c.to = g /\ c.msg = [m |-> "push", data |-> e]
        BY <3>1 DEF Tell
      <3>3. PICK x \in DataFor(OwnerOf[g]) : c.msg = [m |-> "push", data |-> x]
        BY <3>2, PushCalls
      <3>4. c.msg.data = e /\ c.msg.data = x
        BY <3>2, <3>3
      <3> QED
        BY <3>3, <3>4
    <2>3. [m |-> "push", data |-> e] \in MailOf(g)
      BY <2>2, Mails
    <2>4. PICK x, y : x = Tell(g, [m |-> "push", data |-> e]) /\ y = [m |-> "push", data |-> e]
      OBVIOUS
    <2>5. /\ y \in MailOf(g) /\ Takes(5, g, x) /\ Puts(6, g, y)
          /\ x \in As(5, g, r) <=> y \in As(6, g, r)
          /\ x \in As(5, g, w) <=> y \in As(6, g, w)
      BY <1>3, <1>9, <2>3, <2>4
    <2>6. Passed(5, 6, g, r, w)
      BY <1>1, <1>2, <2>5, Passings
    <2> QED
      BY <1>4, <1>9, <2>6 DEF Flowed
  <1>10. ASSUME NEW e \in Heard, NEW h \in Gateways \ {g}, Takes(5, g, Tell(h, [m |-> "push", data |-> e])),
                Still(1, g), Still(2, g), Still(3, g), Still(4, g), Still(6, g)
         PROVE  Flowed(g, r, w)
    <2>1. Same(5, g, r, w)
      BY <1>1, <1>3, <1>10, Takings
    <2> QED
      BY <1>10, <2>1, Steady
  <1>11. ASSUME a \in Gateways, Puts(2, g, Event("login", OwnerOf[a])),
                Still(1, g), Still(3, g), Still(4, g), Still(5, g), Still(6, g)
         PROVE  Flowed(g, r, w)
    <2>1. PICK x : x = Event("login", OwnerOf[a])
      OBVIOUS
    <2>2. x \in MailOf("bus") /\ x \notin FriendNews
      BY <1>11, <2>1, Mails, DeliveryAssumption DEF Event, FriendNews
    <2>3. x \notin As(2, g, r) /\ x \notin As(2, g, w) /\ Puts(2, g, x)
      BY <1>3, <1>11, <2>1, <2>2
    <2>4. Same(2, g, r, w)
      BY <1>1, <1>2, <2>2, <2>3, Puttings
    <2> QED
      BY <1>11, <2>4, Steady
  <1>12. ASSUME Puts(6, g, [m |-> "pill"]), Still(1, g), Still(2, g), Still(3, g), Still(4, g), Still(5, g)
         PROVE  Flowed(g, r, w)
    <2>1. PICK x \in MailOf(g) : x = [m |-> "pill"] /\ x.m # "push"
      BY NoticeType
    <2>2. Same(6, g, r, w)
      BY <1>1, <1>2, <1>3, <1>12, <2>1, Puttings
    <2> QED
      BY <1>12, <2>2, Steady
  <1>13. (\E e \in FriendNews : /\ Takes(1, g, Publish(e)) /\ Puts(2, g, e)
                                /\ Still(3, g) /\ Still(4, g) /\ Still(5, g) /\ Still(6, g))
         => Flowed(g, r, w)
    BY <1>6
  <1>14. (\E x : /\ x.do \in {"watch", "unwatch"} /\ Takes(1, g, x)
                 /\ Still(2, g) /\ Still(3, g) /\ Still(4, g) /\ Still(5, g) /\ Still(6, g))
         => Flowed(g, r, w)
    BY <1>7
  <1>15. (\E e \in Heard : /\ Takes(3, g, Tell("push", e)) /\ Puts(4, g, e)
                           /\ Still(1, g) /\ Still(2, g) /\ Still(5, g) /\ Still(6, g))
         => Flowed(g, r, w)
    BY <1>8
  <1>16. (\E e \in Heard : /\ Takes(5, g, Tell(g, [m |-> "push", data |-> e])) /\ Puts(6, g, [m |-> "push", data |-> e])
                           /\ Still(1, g) /\ Still(2, g) /\ Still(3, g) /\ Still(4, g))
         => Flowed(g, r, w)
    BY <1>9
  <1>17. (\E e \in Heard, h \in Gateways \ {g} :
              /\ Takes(5, g, Tell(h, [m |-> "push", data |-> e]))
              /\ Still(1, g) /\ Still(2, g) /\ Still(3, g) /\ Still(4, g) /\ Still(6, g))
         => Flowed(g, r, w)
    BY <1>10
  <1> QED
    BY <1>5, <1>11, <1>12, <1>13, <1>14, <1>15, <1>16, <1>17, CallMoves

LEMMA Better ==
  ASSUME NEW g, NEW r, NEW w, Settling(g, r, w),
         \A k \in {1, 2, 3, 4, 5, 6} : (Right(k, g, r) => Right(k, g, r)') /\ (Wrong(k, g, r, w)' => Wrong(k, g, r, w))
  PROVE  Settling(g, r, w)' /\ (Anywhere(g, r) => Anywhere(g, r)')
  BY DEF Settling, Anywhere

LEMMA BusFlows ==
  ASSUME TypeInv, Bus, NEW g \in Gateways, NEW r \in FriendNews, NEW w \in FriendNews, r # w
  PROVE  Flowed(g, r, w)
  <1>1. /\ Where(2, g) \in Seq(MailOf("bus")) /\ Where(3, g) \in Seq(CallsOf("bus"))
        /\ As(2, g, r) \cap As(2, g, w) = {} /\ As(3, g, r) \cap As(3, g, w) = {}
    BY Queues, AsFacts
  <1>2. Still(1, g) /\ Still(4, g) /\ Still(5, g) /\ Still(6, g)
    BY BusMoves
  <1>3. ASSUME NEW e \in {r, w}
        PROVE  (\A x : x \in As(2, g, e) <=> x = e) /\ (\A x : Tell("push", x) \in As(3, g, e) <=> x = e)
    BY AsItems
  <1>4. ASSUME NEW e \in Heard, Takes(2, g, e), Where(3, g) = <<>>, Where(3, g)' = <<Tell("push", e)>>
        PROVE  Flowed(g, r, w)
    <2>1. PICK y \in CallsOf("bus") : y = Tell("push", e)
      BY CallKinds
    <2>2. \A x : Append(<<>>, x) = <<x>>
      BY ConcatShort
    <2>3. Puts(3, g, y)
      BY <1>4, <2>1, <2>2 DEF Puts
    <2>4. (e \in As(2, g, r) <=> y \in As(3, g, r)) /\ (e \in As(2, g, w) <=> y \in As(3, g, w))
      BY <1>3, <2>1
    <2>5. Passed(2, 3, g, r, w)
      BY <1>1, <1>4, <2>3, <2>4, Passings
    <2>6. \A k : Still(k, g) => Same(k, g, r, w)
      BY Unmoved DEF Still
    <2> QED
      BY <1>2, <2>5, <2>6 DEF Flowed
  <1>5. ASSUME NEW e \in MailOf("bus"), e.ev = "login", Takes(2, g, e), Still(3, g)
        PROVE  Flowed(g, r, w)
    <2>1. e \notin FriendNews
      BY <1>5, HeardFacts
    <2>2. e \notin As(2, g, r) /\ e \notin As(2, g, w)
      BY <1>3, <2>1
    <2>3. Same(2, g, r, w)
      BY <1>1, <1>5, <2>2, Takings
    <2> QED
      BY <1>2, <1>5, <2>3, Steady
  <1> QED
    BY <1>4, <1>5, BusMoves

\* The push actor asks for the gateways of the friends of whom it is told.
LEMMA PushFlows ==
  ASSUME TypeInv, Push, ~gaveUp', NEW g \in Gateways, NEW f \in Friends[OwnerOf[g]],
         NEW r \in FriendNews, NEW w \in FriendNews, r # w, r.user = f, w.user = f
  PROVE  Flowed(g, r, w)
  <1>1. PICK e \in Heard : Takes(4, g, e) /\ Where(5, g)' \in handleEvent(e)
    BY PushMoves
  <1>2. Still(1, g) /\ Still(2, g) /\ Still(3, g) /\ Still(6, g) /\ Where(5, g) = <<>>
    BY PushMoves
  <1>3. PICK calls \in handleEvent(e) : calls = Where(5, g)'
    BY <1>1
  <1>4. /\ Where(4, g) \in Seq(Heard)
        /\ As(4, g, r) \cap As(4, g, w) = {} /\ As(5, g, r) \cap As(5, g, w) = {}
    BY Queues, AsFacts
  <1>5. ASSUME NEW x \in {r, w}
        PROVE  /\ \A y : y \in As(4, g, x) <=> y = x
               /\ \A u, y : [do |-> "gateways", user |-> u, data |-> y] \in As(5, g, x) <=> u = OwnerOf[g] /\ y = x
               /\ \A y \in As(5, g, x) : y.do \in {"tell", "gateways"}
    BY AsItems
  <1>6. \A i \in DOMAIN calls :
          \/ \E u \in Users : calls[i] = [do |-> "gateways", user |-> u, data |-> e]
          \/ \E u \in Users : calls[i] = [do |-> "batch", user |-> u]
    BY HandleEventFacts
  <1>7. ASSUME NEW x \in {r, w}, e # x PROVE \A i \in DOMAIN calls : calls[i] \notin As(5, g, x)
    <2> SUFFICES ASSUME NEW i \in DOMAIN calls PROVE calls[i] \notin As(5, g, x)
      OBVIOUS
    <2>1. ASSUME NEW u \in Users, calls[i] = [do |-> "gateways", user |-> u, data |-> e] PROVE calls[i] \notin As(5, g, x)
      BY <1>5, <1>7, <2>1
    <2>2. ASSUME NEW u \in Users, calls[i] = [do |-> "batch", user |-> u] PROVE calls[i] \notin As(5, g, x)
      <3>1. calls[i].do = "batch"
        BY <2>2
      <3> QED
        BY <1>5, <3>1
    <2> QED
      BY <1>6, <2>1, <2>2
  <1>8. PICK q \in Seq(Heard) : q = Where(4, g)
    BY <1>4
  <1>9. q # <<>> /\ Head(q) = e /\ Where(4, g)' = Tail(q)
    BY <1>1, <1>8 DEF Takes
  <1>10. PICK R4, W4, R5, W5 : R4 = As(4, g, r) /\ W4 = As(4, g, w) /\ R5 = As(5, g, r) /\ W5 = As(5, g, w)
    OBVIOUS
  <1>11. /\ Some(q, R4) <=> Head(q) \in R4 \/ Some(Tail(q), R4)
         /\ Loose(q, R4, W4) <=> Loose(Tail(q), R4, W4) \/ (Head(q) \in W4 /\ ~Some(Tail(q), R4))
    BY <1>9, TailNews
  <1>12. /\ Right(4, g, r) = Some(q, R4) /\ Right(4, g, r)' = Some(Tail(q), R4)
         /\ Wrong(4, g, r, w) = Loose(q, R4, W4) /\ Wrong(4, g, r, w)' = Loose(Tail(q), R4, W4)
         /\ Right(5, g, r)' = Some(calls, R5) /\ Wrong(5, g, r, w)' = Loose(calls, R5, W5)
    BY <1>3, <1>8, <1>9, <1>10 DEF Right, Wrong
  <1>13. ~Right(5, g, r) /\ ~Wrong(5, g, r, w)
    BY <1>2, NothingQueued DEF Right, Wrong
  <1>14. e # r => ~Some(calls, R5)
    BY <1>7, <1>10 DEF Some
  <1>15. e # w => ~Loose(calls, R5, W5)
    BY <1>7, <1>10 DEF Loose
  <1>16. e = r => Some(calls, R5)
    <2>1. OwnerOf[g] \in Friends[f]
      BY DeliveryAssumption
    <2> SUFFICES ASSUME e = r PROVE Some(calls, R5)
      OBVIOUS
    <2>2. PICK i \in DOMAIN calls : calls[i] = [do |-> "gateways", user |-> OwnerOf[g], data |-> e]
      BY <2>1, HandleEventFacts
    <2>3. calls[i] \in R5
      BY <1>5, <1>10, <2>2
    <2> QED
      BY <2>3 DEF Some
  <1>17. (Head(q) \in R4 <=> e = r) /\ (Head(q) \in W4 <=> e = w)
    BY <1>5, <1>9, <1>10
  <1>18. Passed(4, 5, g, r, w)
    <2>1. CASE e = r
      <3>1. Right(4, g, r) /\ Right(5, g, r)' /\ ~Wrong(5, g, r, w)' /\ (Wrong(4, g, r, w)' => Wrong(4, g, r, w))
        BY <1>11, <1>12, <1>15, <1>16, <1>17, <2>1
      <3> QED
        BY <3>1 DEF Passed
    <2>2. CASE e # r
      <3>1. /\ Right(4, g, r)' <=> Right(4, g, r)
            /\ Right(5, g, r)' <=> Right(5, g, r)
        BY <1>11, <1>12, <1>13, <1>14, <1>17, <2>2
      <3>2. CASE e = w
        <4>1. Wrong(4, g, r, w)' \/ ~Right(4, g, r)' => Wrong(4, g, r, w)
          BY <1>11, <1>12, <1>17, <3>2
        <4> QED
          BY <3>1, <4>1 DEF Passed
      <3>3. CASE e # w
        <4>1. (Wrong(4, g, r, w)' <=> Wrong(4, g, r, w)) /\ (Wrong(5, g, r, w)' <=> Wrong(5, g, r, w))
          BY <1>11, <1>12, <1>13, <1>15, <1>17, <3>3
        <4> QED
          BY <3>1, <4>1 DEF Passed, Same
      <3> QED
        BY <3>2, <3>3
    <2> QED
      BY <2>1, <2>2
  <1>19. \A k : Still(k, g) => Same(k, g, r, w)
    BY Unmoved DEF Still
  <1> QED
    BY <1>2, <1>18, <1>19 DEF Flowed

LEMMA NewsFacts ==
  ASSUME NEW f \in Users, NEW on \in BOOLEAN
  PROVE  /\ NewsOf(f, on) \in FriendNews /\ NewsOf(f, ~on) \in FriendNews /\ NewsOf(f, on) # NewsOf(f, ~on)
         /\ NewsOf(f, on).user = f /\ NewsOf(f, ~on).user = f
         /\ \A e \in FriendNews : e.user = f => e \in {NewsOf(f, on), NewsOf(f, ~on)}
         /\ \A v : Event("online", v) = NewsOf(f, on) <=> v = f /\ on
         /\ \A v : Event("online", v) = NewsOf(f, ~on) <=> v = f /\ ~on
         /\ \A v : Event("offline", v) = NewsOf(f, on) <=> v = f /\ ~on
         /\ \A v : Event("offline", v) = NewsOf(f, ~on) <=> v = f /\ on
  <1>1. CASE on
    BY <1>1 DEF NewsOf, Event, FriendNews
  <1>2. CASE ~on
    BY <1>2 DEF NewsOf, Event, FriendNews
  <1> QED
    BY <1>1, <1>2

\* Where the first call of the push actor becomes others.
LEMMA Replaced ==
  ASSUME NEW g, NEW r, NEW w, NEW S, Where(5, g) \in Seq(S), Where(5, g) # <<>>, NEW calls \in Seq(S),
         Where(5, g)' = calls \o Tail(Where(5, g))
  PROVE  /\ (Head(Where(5, g)) \in As(5, g, r) => Some(calls, As(5, g, r))) => (Right(5, g, r) => Right(5, g, r)')
         /\ (Loose(calls, As(5, g, r), As(5, g, w)) => Head(Where(5, g)) \in As(5, g, w))
              => (Wrong(5, g, r, w)' => Wrong(5, g, r, w))
  <1>1. PICK q \in Seq(S) : q = Where(5, g)
    OBVIOUS
  <1>2. PICK R, W : R = As(5, g, r) /\ W = As(5, g, w)
    OBVIOUS
  <1>3. /\ Some(q, R) <=> Head(q) \in R \/ Some(Tail(q), R)
        /\ Loose(q, R, W) <=> Loose(Tail(q), R, W) \/ (Head(q) \in W /\ ~Some(Tail(q), R))
    BY <1>1, TailNews
  <1>4. Tail(q) \in Seq(S)
    BY <1>1, TailFacts
  <1>5. /\ Some(calls \o Tail(q), R) <=> Some(calls, R) \/ Some(Tail(q), R)
        /\ Loose(calls \o Tail(q), R, W) <=> Loose(Tail(q), R, W) \/ (Loose(calls, R, W) /\ ~Some(Tail(q), R))
    BY <1>4, ConcatNews
  <1>6. /\ Right(5, g, r) = Some(q, R) /\ Right(5, g, r)' = Some(calls \o Tail(q), R)
        /\ Wrong(5, g, r, w) = Loose(q, R, W) /\ Wrong(5, g, r, w)' = Loose(calls \o Tail(q), R, W)
    BY <1>1, <1>2 DEF Right, Wrong
  <1> QED
    BY <1>1, <1>2, <1>3, <1>5, <1>6

LEMMA StillSame ==
  ASSUME NEW k, NEW g, NEW r, NEW w, Still(k, g)
  PROVE  (Right(k, g, r)' <=> Right(k, g, r)) /\ (Wrong(k, g, r, w)' <=> Wrong(k, g, r, w))
  BY DEF Still, Right, Wrong

\* Presence answers: a question for the gateways of a friend, for the states of all.
LEMMA QuerySettles ==
  ASSUME PresenceInv, MetInv, Query, NEW g \in Gateways, life[g] \in {"new", "up"},
         NEW f \in Friends[OwnerOf[g]], NEW on \in BOOLEAN, on <=> f \in online, Tidy(g, f, on)
  PROVE  Tidy(g, f, on)'
  <1> USE DEF PresenceInv
  <1>1. f \in Users
    BY DeliveryAssumption
  <1>2. PICK r \in FriendNews, w \in FriendNews : r = NewsOf(f, on) /\ w = NewsOf(f, ~on)
    BY <1>1, NewsFacts
  <1>3. r # w
    BY <1>1, <1>2, NewsFacts
  <1>4. Settling(g, r, w) /\ (g \in asked => (f \in view[g] <=> on) \/ Anywhere(g, r))
    BY <1>2 DEF Tidy
  <1>5. Still(1, g) /\ Still(2, g) /\ Still(3, g) /\ Still(4, g) /\ Still(6, g)
    BY QueryMoves
  <1>6. Settling(g, r, w)' /\ (g \in asked' => (f \in view'[g] <=> on) \/ Anywhere(g, r)') => Tidy(g, f, on)'
    BY <1>2 DEF Tidy
  <1>7. Where(5, g) \in Seq(CallsOf("push"))
    BY Queues
  <1>8. ASSUME NEW x \in {r, w}
        PROVE  /\ \A u, y : [do |-> "gateways", user |-> u, data |-> y] \in As(5, g, x) <=> u = OwnerOf[g] /\ y = x
               /\ \A h, y : Tell(h, [m |-> "push", data |-> y]) \in As(5, g, x) <=> h = g /\ y = x
               /\ \A y \in As(5, g, x) : y.do \in {"tell", "gateways"}
               /\ \A y : y \in As(6, g, x) => y.m = "push"
    BY AsItems
  <1>9. ASSUME Right(5, g, r) => Right(5, g, r)', Wrong(5, g, r, w)' => Wrong(5, g, r, w), UNCHANGED <<view, asked>>
        PROVE  Tidy(g, f, on)'
    <2>1. \A k \in {1, 2, 3, 4, 6} : (Right(k, g, r)' <=> Right(k, g, r)) /\ (Wrong(k, g, r, w)' <=> Wrong(k, g, r, w))
      BY <1>5, StillSame
    <2>2. Settling(g, r, w)' /\ (Anywhere(g, r) => Anywhere(g, r)')
      BY <1>4, <1>9, <2>1, Better
    <2> QED
      BY <1>4, <1>6, <1>9, <2>2
  <1>10. CASE Still(5, g)
    <2>1. Settling(g, r, w)' /\ (Anywhere(g, r) => Anywhere(g, r)')
      BY <1>4, <1>5, <1>10, Steady, FlowKeeps
    <2>2. \/ UNCHANGED <<view, asked>>
          \/ \E a \in Gateways : view' = [view EXCEPT ![a] = Friends[OwnerOf[a]] \cap online] /\ asked' = asked \cup {a}
      BY QueryHandles
    <2>3. ASSUME NEW a \in Gateways, view' = [view EXCEPT ![a] = Friends[OwnerOf[a]] \cap online], asked' = asked \cup {a}
          PROVE  \/ view'[g] = view[g] /\ (g \in asked' => g \in asked)
                 \/ f \in view'[g] <=> on
      BY <2>3 DEF TypeInv, LifeType
    <2> QED
      BY <1>4, <1>6, <2>1, <2>2, <2>3
  <1>11. ASSUME NEW u \in Users, NEW e \in Heard, NEW calls \in Seq(PushTells), UNCHANGED <<view, asked>>,
                Where(5, g) # <<>>, Head(Where(5, g)) = [do |-> "gateways", user |-> u, data |-> e],
                Where(5, g)' = calls \o Tail(Where(5, g)),
                \A i \in DOMAIN calls : \E h \in gateways[u] : calls[i] = Tell(h, [m |-> "push", data |-> e]),
                \A h \in gateways[u] : \E i \in DOMAIN calls : calls[i] = Tell(h, [m |-> "push", data |-> e])
         PROVE  Tidy(g, f, on)'
    <2>1. calls \in Seq(CallsOf("push"))
      BY CallKinds, SeqMonotonic
    <2>6. /\ [do |-> "gateways", user |-> u, data |-> e] \in As(5, g, r) <=> u = OwnerOf[g] /\ e = r
          /\ [do |-> "gateways", user |-> u, data |-> e] \in As(5, g, w) <=> u = OwnerOf[g] /\ e = w
      BY <1>8
    <2>7. /\ Head(Where(5, g)) \in As(5, g, r) <=> u = OwnerOf[g] /\ e = r
          /\ Head(Where(5, g)) \in As(5, g, w) <=> u = OwnerOf[g] /\ e = w
      BY <1>11, <2>6
    <2>2. Loose(calls, As(5, g, r), As(5, g, w)) => Head(Where(5, g)) \in As(5, g, w)
      <3> SUFFICES ASSUME Loose(calls, As(5, g, r), As(5, g, w)) PROVE Head(Where(5, g)) \in As(5, g, w)
        OBVIOUS
      <3>1. PICK i \in DOMAIN calls : calls[i] \in As(5, g, w)
        BY DEF Loose
      <3>2. PICK h \in gateways[u] : calls[i] = Tell(h, [m |-> "push", data |-> e])
        BY <1>11
      <3>3. h = g /\ e = w
        BY <1>8, <3>1, <3>2
      <3>4. u = OwnerOf[g]
        BY <3>2, <3>3, MetKnown
      <3> QED
        BY <2>7, <3>3, <3>4
    <2>3. Wrong(5, g, r, w)' => Wrong(5, g, r, w)
      BY <1>7, <1>11, <2>1, <2>2, Replaced
    <2>4. CASE g \in gateways[OwnerOf[g]]
      <3>1. Head(Where(5, g)) \in As(5, g, r) => Some(calls, As(5, g, r))
        <4> SUFFICES ASSUME Head(Where(5, g)) \in As(5, g, r) PROVE Some(calls, As(5, g, r))
          OBVIOUS
        <4>1. u = OwnerOf[g] /\ e = r
          BY <2>7
        <4>2. PICK i \in DOMAIN calls : calls[i] = Tell(g, [m |-> "push", data |-> e])
          BY <1>11, <2>4, <4>1
        <4>3. calls[i] \in As(5, g, r)
          BY <1>8, <4>1, <4>2
        <4> QED
          BY <4>3 DEF Some
      <3>2. Right(5, g, r) => Right(5, g, r)'
        BY <1>7, <1>11, <2>1, <3>1, Replaced
      <3> QED
        BY <1>9, <1>11, <2>3, <3>2
    <2>5. CASE g \notin gateways[OwnerOf[g]]
      <3>1. ~Reached(g)
        BY <2>5, MetKnown, DeliveryAssumption DEF MetInv
      <3>2. g \notin asked /\ ~Some(box[g], Pushes)
        BY <3>1 DEF Reached
      <3>3. ~Wrong(6, g, r, w)
        <4>1. Where(6, g) = box[g] /\ Where(6, g) \in Seq(MailOf(g))
          BY Queues
        <4>2. ASSUME NEW i \in DOMAIN box[g], box[g][i] \in As(6, g, w) PROVE FALSE
          <5>1. box[g][i] = [m |-> "push", data |-> w]
            BY <4>2 DEF As
          <5>2. w \in Heard
            BY DEF Heard
          <5>3. box[g][i] \in Pushes
            BY <5>1, <5>2, ReachedItems
          <5> QED
            BY <3>2, <5>3 DEF Some
        <4> QED
          BY <4>1, <4>2 DEF Wrong, Loose
      <3>4. \A k \in {1, 2, 3, 4, 6} : (Right(k, g, r)' <=> Right(k, g, r)) /\ (Wrong(k, g, r, w)' <=> Wrong(k, g, r, w))
        BY <1>5, StillSame
      <3>5. Settling(g, r, w)'
        BY <1>4, <2>3, <3>3, <3>4 DEF Settling
      <3> QED
        BY <1>6, <1>11, <3>2, <3>5
    <2> QED
      BY <2>4, <2>5
  <1>12. ASSUME NEW u \in Users, NEW calls \in Seq(PushAsks), UNCHANGED <<view, asked>>,
                Where(5, g) # <<>>, Head(Where(5, g)).do = "batch", Where(5, g)' = calls \o Tail(Where(5, g)),
                \A i \in DOMAIN calls : \E v \in Friends[u] \cap online :
                  calls[i] = [do |-> "gateways", user |-> u, data |-> Event("online", v)]
         PROVE  Tidy(g, f, on)'
    <2>1. calls \in Seq(CallsOf("push"))
      BY CallKinds, SeqMonotonic
    <2>2. Head(Where(5, g)) \notin As(5, g, r)
      BY <1>8, <1>12
    <2>3. ~Loose(calls, As(5, g, r), As(5, g, w))
      <3> SUFFICES ASSUME NEW i \in DOMAIN calls, calls[i] \in As(5, g, w) PROVE FALSE
        BY DEF Loose
      <3>1. PICK v \in Friends[u] \cap online :
              calls[i] = [do |-> "gateways", user |-> u, data |-> Event("online", v)]
        BY <1>12
      <3>2. Event("online", v) = w
        BY <1>8, <3>1
      <3> QED
        BY <1>1, <1>2, <3>2, NewsFacts
    <2>4. Right(5, g, r) => Right(5, g, r)'
      BY <1>7, <1>12, <2>1, <2>2, Replaced
    <2>5. Wrong(5, g, r, w)' => Wrong(5, g, r, w)
      BY <1>7, <1>12, <2>1, <2>3, Replaced
    <2> QED
      BY <1>9, <1>12, <2>4, <2>5
  <1>13. (\E u \in Users, e \in Heard : \E calls \in Seq(PushTells) :
             /\ Where(5, g) # <<>> /\ Head(Where(5, g)) = [do |-> "gateways", user |-> u, data |-> e]
             /\ Where(5, g)' = calls \o Tail(Where(5, g)) /\ UNCHANGED <<view, asked>>
             /\ \A i \in DOMAIN calls : \E h \in gateways[u] : calls[i] = Tell(h, [m |-> "push", data |-> e])
             /\ \A h \in gateways[u] : \E i \in DOMAIN calls : calls[i] = Tell(h, [m |-> "push", data |-> e]))
         => Tidy(g, f, on)'
    BY <1>11
  <1>14. (\E u \in Users : \E calls \in Seq(PushAsks) :
             /\ Where(5, g) # <<>> /\ Head(Where(5, g)).do = "batch"
             /\ Where(5, g)' = calls \o Tail(Where(5, g)) /\ UNCHANGED <<view, asked>>
             /\ \A i \in DOMAIN calls : \E v \in Friends[u] \cap online :
                  calls[i] = [do |-> "gateways", user |-> u, data |-> Event("online", v)])
         => Tidy(g, f, on)'
    BY <1>12
  <1> QED
    BY <1>10, <1>13, <1>14, QueryMoves

LEMMA ShortNews ==
  ASSUME NEW R, NEW x, NEW y
  PROVE  ~Some(<<>>, R) /\ (Some(<<x>>, R) <=> x \in R) /\ (Some(<<x, y>>, R) <=> x \in R \/ y \in R)
  <1>1. DOMAIN <<x>> = {1} /\ <<x>>[1] = x
    OBVIOUS
  <1>2. DOMAIN <<x, y>> = {1, 2} /\ <<x, y>>[1] = x /\ <<x, y>>[2] = y
    OBVIOUS
  <1>3. Some(<<x>>, R) <=> x \in R
    BY <1>1 DEF Some
  <1>4. Some(<<x, y>>, R) <=> x \in R \/ y \in R
    BY <1>2 DEF Some
  <1>5. ~Some(<<>>, R)
    BY DEF Some
  <1> QED
    BY <1>3, <1>4, <1>5

\* What presence announces is what it has come to believe.
LEMMA PresenceNews ==
  ASSUME PresenceInv, Presence, NEW g \in Gateways, NEW f \in Users, NEW on \in BOOLEAN, on <=> f \in online'
  PROVE  /\ Where(1, g) = <<>>
         /\ Still(2, g) /\ Still(3, g) /\ Still(4, g) /\ Still(5, g) /\ Still(6, g)
         /\ ~Some(Where(1, g)', As(1, g, NewsOf(f, ~on)))
         /\ (f \in online <=> on) \/ Some(Where(1, g)', As(1, g, NewsOf(f, on)))
  <1> USE DEF PresenceInv
  <1>1. /\ Where(1, g) = todo["presence"] /\ Where(2, g) = box["bus"] /\ Where(3, g) = todo["bus"]
        /\ Where(4, g) = box["push"] /\ Where(5, g) = todo["push"] /\ Where(6, g) = box[g]
        /\ {"presence", "bus", "push", g} \subseteq Actors /\ g \notin {"presence", "bus", "push"}
    BY Queues
  <1>2. PICK h \in Gateways : /\ Pulled("presence") /\ todo["presence"] = <<>>
                              /\ handleConnected(h) \/ handleDisconnected(h) \/ handleTerminated(h)
    BY PresenceHandles
  <1>3. \A b \in Actors \ {"presence"} : box'[b] = box[b]
    BY <1>1, <1>2, PulledOne DEF TypeInv
  <1>4. Still(2, g) /\ Still(4, g) /\ Still(6, g)
    BY <1>1, <1>3, StillBoxes
  <1>5. \A c : todo' = [todo EXCEPT !["presence"] = c]
               => todo'["presence"] = c /\ \A b \in Actors \ {"presence"} : todo'[b] = todo[b]
    BY <1>1, NewOne DEF TypeInv
  <1>6. \A b \in Actors \ {"presence"} : todo'[b] = todo[b]
    BY <1>2, <1>5, PresenceLeaves
  <1>7. Still(3, g) /\ Still(5, g)
    BY <1>1, <1>6 DEF Still, Where
  <1>8. Where(1, g) = <<>> /\ Where(1, g)' = todo'["presence"]
    BY <1>1, <1>2 DEF Where
  <1>9. PICK r \in FriendNews, w \in FriendNews : r = NewsOf(f, on) /\ w = NewsOf(f, ~on)
    BY NewsFacts
  <1>10. PICK R, W : R = As(1, g, r) /\ W = As(1, g, w)
    OBVIOUS
  <1>11. (\A x : Publish(x) \in R <=> x = r) /\ (\A x : Publish(x) \in W <=> x = w)
    BY <1>10, AsItems
  <1>12. (\A x \in R : x.do = "tell") /\ (\A x \in W : x.do = "tell")
    BY <1>10, AsItems
  <1>13. PICK v \in Users : v = OwnerOf[h]
    BY DeliveryAssumption
  <1>14. PICK came, went : came = Publish(Event("online", v)) /\ went = Publish(Event("offline", v))
    OBVIOUS
  <1>15. PICK c, d : c = [do |-> "watch", gate |-> h] /\ d = [do |-> "unwatch", gate |-> h]
    OBVIOUS
  <1>16. c.do = "watch" /\ d.do = "unwatch"
    BY <1>15
  <1>17. c \notin R \cup W /\ d \notin R \cup W
    BY <1>12, <1>16
  <1>18. /\ came \in R <=> v = f /\ on
         /\ came \in W <=> v = f /\ ~on
         /\ went \in R <=> v = f /\ ~on
         /\ went \in W <=> v = f /\ on
    BY <1>9, <1>11, <1>14, NewsFacts
  <1>19. PICK calls : calls = todo'["presence"]
    OBVIOUS
  <1>20. \/ calls = <<>> /\ online' = online
         \/ calls = <<c>> /\ online' = online
         \/ calls = <<c, came>> /\ online' = online \cup {v}
         \/ calls \in {<<went>>, <<went, d>>} /\ online' = online \ {v}
         \/ calls = <<d>> /\ online' = online
    <2>1. <<went>> \o <<>> = <<went>> /\ <<went>> \o <<d>> = <<went, d>>
      BY ConcatShort
    <2>2. CASE UNCHANGED <<presenceVars, todo>>
      BY <1>2, <1>19, <2>2 DEF presenceVars
    <2>3. CASE /\ online' = online \cup {OwnerOf[h]}
               /\ todo' = [todo EXCEPT !["presence"] =
                            IF OwnerOf[h] \in online THEN <<[do |-> "watch", gate |-> h]>>
                            ELSE <<[do |-> "watch", gate |-> h], Publish(Event("online", OwnerOf[h]))>>]
      <3>1. calls = IF v \in online THEN <<c>> ELSE <<c, came>>
        BY <1>5, <1>13, <1>14, <1>15, <1>19, <2>3
      <3>2. online' = online \cup {v}
        BY <1>13, <2>3
      <3>3. v \in online => online \cup {v} = online
        OBVIOUS
      <3> QED
        BY <3>1, <3>2, <3>3
    <2>4. CASE /\ online' = IF gateways[OwnerOf[h]] \ {h} = {} THEN online \ {OwnerOf[h]} ELSE online
               /\ \E after \in {<<>>, <<[do |-> "unwatch", gate |-> h]>>} :
                    todo' = [todo EXCEPT !["presence"] =
                               IF gateways[OwnerOf[h]] \ {h} = {}
                               THEN <<Publish(Event("offline", OwnerOf[h]))>> \o after ELSE after]
      <3>1. PICK after \in {<<>>, <<d>>} :
              todo' = [todo EXCEPT !["presence"] =
                         IF gateways[OwnerOf[h]] \ {h} = {}
                         THEN <<Publish(Event("offline", OwnerOf[h]))>> \o after ELSE after]
        BY <1>15, <2>4
      <3>2. calls = IF gateways[v] \ {h} = {} THEN <<went>> \o after ELSE after
        BY <1>5, <1>13, <1>14, <1>19, <3>1
      <3>3. online' = IF gateways[v] \ {h} = {} THEN online \ {v} ELSE online
        BY <1>13, <2>4
      <3> QED
        BY <2>1, <3>2, <3>3
    <2> QED
      BY <1>2, <2>2, <2>3, <2>4, PresenceLeaves
  <1>21. ~Some(calls, W) /\ ((f \in online <=> on) \/ Some(calls, R))
    <2>1. ~Some(<<>>, W) /\ (Some(<<c>>, W) <=> c \in W) /\ (Some(<<c, came>>, W) <=> c \in W \/ came \in W)
      BY ShortNews
    <2>2. (Some(<<went>>, W) <=> went \in W) /\ (Some(<<went, d>>, W) <=> went \in W \/ d \in W) /\ (Some(<<d>>, W) <=> d \in W)
      BY ShortNews
    <2>3. (Some(<<c, came>>, R) <=> c \in R \/ came \in R) /\ (Some(<<went>>, R) <=> went \in R)
          /\ (Some(<<went, d>>, R) <=> went \in R \/ d \in R)
      BY ShortNews
    <2>4. CASE calls \in {<<>>, <<c>>, <<d>>} /\ online' = online
      BY <1>17, <2>1, <2>2, <2>4
    <2>5. CASE calls = <<c, came>> /\ online' = online \cup {v}
      BY <1>17, <1>18, <2>1, <2>3, <2>5
    <2>6. CASE calls \in {<<went>>, <<went, d>>} /\ online' = online \ {v}
      BY <1>17, <1>18, <2>2, <2>3, <2>6
    <2> QED
      BY <1>20, <2>4, <2>5, <2>6
  <1> QED
    BY <1>4, <1>7, <1>8, <1>9, <1>10, <1>19, <1>21

LEMMA PresenceSettles ==
  ASSUME PresenceInv, Presence, NEW g \in Gateways, NEW f \in Friends[OwnerOf[g]],
         NEW was \in BOOLEAN, was <=> f \in online, Tidy(g, f, was), NEW on \in BOOLEAN, on <=> f \in online'
  PROVE  Tidy(g, f, on)'
  <1>1. f \in Users
    BY DeliveryAssumption
  <1>2. PICK r \in FriendNews, w \in FriendNews : r = NewsOf(f, on) /\ w = NewsOf(f, ~on)
    BY <1>1, NewsFacts
  <1>3. /\ Where(1, g) = <<>>
        /\ Still(2, g) /\ Still(3, g) /\ Still(4, g) /\ Still(5, g) /\ Still(6, g)
        /\ ~Some(Where(1, g)', As(1, g, w))
        /\ (f \in online <=> on) \/ Some(Where(1, g)', As(1, g, r))
    BY <1>1, <1>2, PresenceNews
  <1>4. UNCHANGED <<view, asked>>
    BY DEF Presence, clientVars
  <1>5. ~Wrong(1, g, r, w)'
    BY <1>3 DEF Wrong, Loose, Some
  <1>6. CASE Right(1, g, r)'
    <2>1. Settling(g, r, w)' /\ Anywhere(g, r)'
      BY <1>5, <1>6 DEF Settling, Anywhere
    <2> QED
      BY <1>2, <2>1 DEF Tidy
  <1>7. CASE ~Right(1, g, r)'
    <2>1. on = was
      BY <1>3, <1>7 DEF Right
    <2>2. Settling(g, r, w) /\ (g \in asked => (f \in view[g] <=> on) \/ Anywhere(g, r))
      BY <1>2, <2>1 DEF Tidy
    <2>3. ~Right(1, g, r) /\ ~Wrong(1, g, r, w)
      BY <1>3, NothingQueued DEF Right, Wrong
    <2>4. Same(1, g, r, w)
      BY <1>5, <1>7, <2>3 DEF Same
    <2>5. Flowed(g, r, w)
      BY <1>3, <2>4, Steady
    <2>6. Settling(g, r, w)' /\ (Anywhere(g, r) => Anywhere(g, r)')
      BY <2>2, <2>5, FlowKeeps
    <2> QED
      BY <1>2, <1>4, <2>2, <2>6 DEF Tidy
  <1> QED
    BY <1>6, <1>7

\* A device shows what it is pushed.
LEMMA GatewaySettles ==
  ASSUME TypeInv, NEW g \in Gateways, Gateway(g), NEW f \in Friends[OwnerOf[g]], NEW on \in BOOLEAN, Tidy(g, f, on)
  PROVE  Tidy(g, f, on)'
  <1>1. f \in Users
    BY DeliveryAssumption
  <1>2. PICK r \in FriendNews, w \in FriendNews : r = NewsOf(f, on) /\ w = NewsOf(f, ~on)
    BY <1>1, NewsFacts
  <1>3. /\ r # w /\ r.user = f /\ w.user = f
        /\ \A e \in FriendNews : e.user = f => e \in {r, w}
    BY <1>1, <1>2, NewsFacts
  <1>4. Settling(g, r, w) /\ (g \in asked => (f \in view[g] <=> on) \/ Anywhere(g, r))
    BY <1>2 DEF Tidy
  <1>5. Still(1, g) /\ Still(2, g) /\ Still(3, g) /\ Still(4, g) /\ Still(5, g)
    BY OwnMoves
  <1>6. Settling(g, r, w)' /\ (g \in asked' => (f \in view'[g] <=> on) \/ Anywhere(g, r)') => Tidy(g, f, on)'
    BY <1>2 DEF Tidy
  <1>7. Where(6, g) \in Seq(MailOf(g))
    BY Queues
  <1>8. ASSUME NEW x \in {r, w}
        PROVE  /\ \A y : [m |-> "push", data |-> y] \in As(6, g, x) <=> y = x
               /\ \A y \in As(6, g, x) : y.m = "push"
    BY AsItems
  <1>9. ASSUME Same(6, g, r, w), view'[g] \cap {f} = view[g] \cap {f}, UNCHANGED asked PROVE Tidy(g, f, on)'
    <2>1. Settling(g, r, w)' /\ (Anywhere(g, r) => Anywhere(g, r)')
      BY <1>4, <1>5, <1>9, Steady, FlowKeeps
    <2>2. f \in view'[g] <=> f \in view[g]
      BY <1>9
    <2> QED
      BY <1>4, <1>6, <1>9, <2>1, <2>2
  <1>10. ASSUME NEW x \in MailOf(g), x.m # "push", Takes(6, g, x), UNCHANGED <<view, asked>> PROVE Tidy(g, f, on)'
    <2>1. x \notin As(6, g, r) /\ x \notin As(6, g, w)
      BY <1>8, <1>10
    <2>2. Same(6, g, r, w)
      BY <1>7, <1>10, <2>1, Takings
    <2> QED
      BY <1>9, <1>10, <2>2
  <1>11. ASSUME NEW e \in DataFor(OwnerOf[g]), Takes(6, g, [m |-> "push", data |-> e]), UNCHANGED asked,
                \/ e.ev = "online" /\ view' = [view EXCEPT ![g] = view[g] \cup {e.user}]
                \/ e.ev = "offline" /\ view' = [view EXCEPT ![g] = view[g] \ {e.user}]
                \/ e \notin FriendNews /\ view' = view
         PROVE  Tidy(g, f, on)'
    <2>1. PICK x : x = [m |-> "push", data |-> e]
      OBVIOUS
    <2>2. Takes(6, g, x) /\ (x \in As(6, g, r) <=> e = r) /\ (x \in As(6, g, w) <=> e = w)
      BY <1>8, <1>11, <2>1
    <2>3. e \in Heard /\ (e.ev \in {"online", "offline"} => e \in FriendNews)
      <3>1. e \in Heard
        BY HeardFacts, DeliveryAssumption
      <3> QED
        BY <3>1, HeardFacts
    <2>4. /\ e.ev = "online" => view'[g] = view[g] \cup {e.user}
          /\ e.ev = "offline" => view'[g] = view[g] \ {e.user}
          /\ e \notin FriendNews => view'[g] = view[g]
      <3>1. view \in [Gateways -> SUBSET Users]
        BY DEF TypeInv, LifeType
      <3>2. e.ev \in {"online", "offline"} => e \in FriendNews
        BY <2>3
      <3>3. e \in FriendNews => e.ev \in {"online", "offline"}
        BY HeardFacts
      <3> QED
        BY <1>11, <3>1, <3>2, <3>3
    <2>5. PICK q \in Seq(MailOf(g)) : q = Where(6, g)
      BY <1>7
    <2>6. q # <<>> /\ Head(q) = x /\ Where(6, g)' = Tail(q)
      BY <2>2, <2>5 DEF Takes
    <2>7. PICK R, W : R = As(6, g, r) /\ W = As(6, g, w)
      OBVIOUS
    <2>8. /\ Some(q, R) <=> Head(q) \in R \/ Some(Tail(q), R)
          /\ Loose(q, R, W) <=> Loose(Tail(q), R, W) \/ (Head(q) \in W /\ ~Some(Tail(q), R))
      BY <2>6, TailNews
    <2>9. /\ Right(6, g, r) = Some(q, R) /\ Right(6, g, r)' = Some(Tail(q), R)
          /\ Wrong(6, g, r, w) = Loose(q, R, W) /\ Wrong(6, g, r, w)' = Loose(Tail(q), R, W)
      BY <2>5, <2>6, <2>7 DEF Right, Wrong
    <2>10. \A k \in {1, 2, 3, 4, 5} : (Right(k, g, r)' <=> Right(k, g, r)) /\ (Wrong(k, g, r, w)' <=> Wrong(k, g, r, w))
      BY <1>5, StillSame
    <2>11. Settling(g, r, w)'
      <3>1. Wrong(6, g, r, w)' => Wrong(6, g, r, w)
        BY <2>8, <2>9
      <3> QED
        BY <1>4, <2>10, <3>1 DEF Settling
    <2>12. CASE e \notin {r, w}
      <3>1. Same(6, g, r, w)
        BY <1>7, <2>2, <2>12, Takings
      <3>2. e \in FriendNews => e.user # f
        BY <1>3, <2>12
      <3>3. view'[g] \cap {f} = view[g] \cap {f}
        BY <2>4, <3>2, HeardFacts
      <3> QED
        BY <1>9, <1>11, <3>1, <3>3
    <2>13. CASE e = r
      <3>1. f \in view'[g] <=> on
        <4>1. e.ev = (IF on THEN "online" ELSE "offline") /\ e.user = f
          BY <1>2, <2>13 DEF NewsOf, Event
        <4> QED
          BY <2>4, <4>1
      <3> QED
        BY <1>6, <2>11, <3>1
    <2>14. CASE e = w
      <3>1. Anywhere(g, r)'
        <4>1. CASE Some(Tail(q), R)
          BY <2>9, <4>1 DEF Anywhere
        <4>2. CASE ~Some(Tail(q), R)
          <5>1. Wrong(6, g, r, w)
            BY <2>2, <2>6, <2>7, <2>8, <2>9, <2>14, <4>2
          <5> QED
            BY <1>4, <2>10, <5>1 DEF Settling, Anywhere
        <4> QED
          BY <4>1, <4>2
      <3> QED
        BY <1>6, <2>11, <3>1
    <2> QED
      BY <2>12, <2>13, <2>14
  <1> QED
    BY <1>10, <1>11, OwnMoves

\* What a gateway is, before and after.
LEMMA LifeBefore ==
  ASSUME TypeInv, [Next]_vars, NEW g \in Gateways, life'[g] \in {"new", "up"}
  PROVE  life[g] \in {"new", "up"}
  <1> USE DEF TypeInv, LifeType
  <1>1. CASE MakeCall(g)
    <2>1. CASE CallDone(g)
      BY <2>1 DEF CallDone
    <2>2. CASE ~CallDone(g)
      BY <1>1, <2>2 DEF MakeCall, CallTell, CallAsk, CallWatch, CallUnwatch
    <2> QED
      BY <2>1, <2>2
  <1>2. CASE Gateway(g) \/ OnStart(g)
    BY <1>2, GatewayHandles, StartHandles
  <1> QED
    BY <1>1, <1>2, LifeMoves

LEMMA ViewInvStep ==
  ASSUME PresenceInv, MetInv, ViewInv, [Next]_vars
  PROVE  ViewInv'
  <1> USE DEF PresenceInv
  <1> SUFFICES ASSUME NEW g \in Gateways, NEW f \in Friends[OwnerOf[g]], NEW on \in BOOLEAN,
                      life'[g] \in {"new", "up"}, ~gaveUp', on <=> f \in online'
               PROVE  Tidy(g, f, on)'
    BY DEF ViewInv
  <1>1. f \in Users
    BY DeliveryAssumption
  <1>2. life[g] \in {"new", "up"} /\ ~gaveUp /\ life'[g] # "done"
    BY LifeBefore, WhoChanges
  <1>3. PICK was \in BOOLEAN : was <=> f \in online
    OBVIOUS
  <1>4. Tidy(g, f, was)
    BY <1>2, <1>3 DEF ViewInv
  <1>5. CASE Presence
    BY <1>3, <1>4, <1>5, PresenceSettles
  <1>6. ASSUME ~Presence PROVE was = on
    BY <1>3, <1>6, WhoChanges DEF presenceVars
  <1>7. CASE Query
    <2>1. UNCHANGED online
      BY <1>7 DEF Query, presenceVars
    <2>2. was = on
      BY <1>3, <2>1
    <2> QED
      BY <1>2, <1>3, <1>4, <1>7, <2>2, QuerySettles
  <1>8. CASE Gateway(g)
    <2>1. UNCHANGED online
      BY <1>8, GatewayHandles DEF presenceVars
    <2>2. was = on
      BY <1>3, <2>1
    <2> QED
      BY <1>4, <1>8, <2>2, GatewaySettles
  <1>9. CASE ~Presence /\ ~Query /\ ~Gateway(g)
    <2>1. was = on
      BY <1>6, <1>9
    <2>2. view'[g] = view[g] /\ asked' = asked
      <3>1. ASSUME NEW h \in Gateways, Gateway(h), ReceivePush(h) PROVE view'[g] = view[g]
        <4>1. h # g
          BY <1>9, <3>1
        <4>2. \E v : view' = [view EXCEPT ![h] = v]
          BY <3>1 DEF ReceivePush
        <4> QED
          BY <4>1, <4>2 DEF TypeInv, LifeType
      <3> QED
        BY <1>9, <3>1, WhoChanges
    <2>3. PICK r \in FriendNews, w \in FriendNews : r = NewsOf(f, on) /\ w = NewsOf(f, ~on)
      BY <1>1, NewsFacts
    <2>4. r # w /\ r.user = f /\ w.user = f
      BY <1>1, <2>3, NewsFacts
    <2>5. Settling(g, r, w) /\ (g \in asked => (f \in view[g] <=> on) \/ Anywhere(g, r))
      BY <1>4, <2>1, <2>3 DEF Tidy
    <2>6. ASSUME Flowed(g, r, w) PROVE Tidy(g, f, on)'
      <3>1. Settling(g, r, w)' /\ (Anywhere(g, r) => Anywhere(g, r)')
        BY <2>5, <2>6, FlowKeeps
      <3> QED
        BY <2>2, <2>3, <2>5, <3>1 DEF Tidy
    <2>7. AllStill(g) => Flowed(g, r, w)
      BY Steady DEF AllStill
    <2>8. ASSUME NEW a \in Actors, MakeCall(a) PROVE Flowed(g, r, w)
      BY <1>2, <2>4, <2>8, CallFlows
    <2>9. ASSUME NEW a \in Actors, Timeout(a) PROVE FALSE
      BY <2>9 DEF Timeout
    <2>10. Bus => Flowed(g, r, w)
      BY <2>4, BusFlows
    <2>11. Push => Flowed(g, r, w)
      BY <2>4, PushFlows
    <2>12. /\ Where(2, g) \in Seq(MailOf("bus")) /\ Where(6, g) \in Seq(MailOf(g))
           /\ As(2, g, r) \cap As(2, g, w) = {} /\ As(6, g, r) \cap As(6, g, w) = {}
      BY <2>4, Queues, AsFacts
    <2>13. ASSUME NEW n \in Nat, Puts(2, g, [ev |-> "message", n |-> n]),
                  Still(1, g), Still(3, g), Still(4, g), Still(5, g), Still(6, g)
           PROVE  Flowed(g, r, w)
      <3>1. PICK x : x = [ev |-> "message", n |-> n]
        OBVIOUS
      <3>2. x \in Heard /\ x.ev = "message"
        BY <3>1 DEF Heard
      <3>3. x \in MailOf("bus")
        BY <3>2, Mails
      <3>4. x # r /\ x # w
        BY <3>2, HeardFacts
      <3>5. x \notin As(2, g, r) /\ x \notin As(2, g, w)
        BY <3>4, AsItems
      <3>6. Same(2, g, r, w)
        BY <2>12, <2>13, <3>1, <3>3, <3>5, Puttings
      <3> QED
        BY <2>13, <3>6, Steady
    <2>14. ASSUME NEW x \in MailOf(g), x.m # "push", Puts(6, g, x),
                  Still(1, g), Still(2, g), Still(3, g), Still(4, g), Still(5, g)
           PROVE  Flowed(g, r, w)
      <3>1. x \notin As(6, g, r) /\ x \notin As(6, g, w)
        BY <2>14, AsItems
      <3>2. Same(6, g, r, w)
        BY <2>12, <2>14, <3>1, Puttings
      <3> QED
        BY <2>14, <3>2, Steady
    <2>15. Flowed(g, r, w)
      BY <1>2, <1>9, <2>7, <2>8, <2>9, <2>10, <2>11, <2>13, <2>14, OtherMoves
    <2> QED
      BY <2>6, <2>15
  <1> QED
    BY <1>5, <1>7, <1>8, <1>9

LEMMA ShownInit == Init => ShownInv
  <1> SUFFICES ASSUME Init PROVE ShownInv
    OBVIOUS
  <1>1. PresenceInv
    BY PresenceInit
  <1>2. ASSUME NEW g \in Gateways
        PROVE  /\ Where(1, g) = <<>> /\ Where(2, g) = <<>> /\ Where(3, g) = <<>>
               /\ Where(4, g) = <<>> /\ Where(5, g) = <<>> /\ Where(6, g) = <<>>
               /\ box[g] = <<>> /\ todo["push"] = <<>> /\ asked = {}
    BY Names DEF Init, Where
  <1>3. MetInv
    BY <1>2, NothingQueued DEF MetInv, Reached
  <1>4. ASSUME NEW g \in Gateways, NEW f \in Friends[OwnerOf[g]], NEW on \in BOOLEAN PROVE Tidy(g, f, on)
    <2>1. \A k \in {1, 2, 3, 4, 5, 6} : ~Wrong(k, g, NewsOf(f, on), NewsOf(f, ~on))
      BY <1>2, NothingQueued DEF Wrong
    <2> QED
      BY <1>2, <2>1 DEF Tidy, Settling
  <1> QED
    BY <1>1, <1>3, <1>4 DEF ShownInv, ViewInv

\* What each device shows is true, or will be by what is on its way to it, and nothing on its
\* way is older than that: the invariant of the answers and the pushes, for any number of
\* users, friends and devices.
THEOREM ShownInvariant == Spec => []ShownInv
  <1>1. ShownInv /\ [Next]_vars => ShownInv'
    <2> SUFFICES ASSUME ShownInv, [Next]_vars PROVE ShownInv'
      OBVIOUS
    <2>1. PresenceInv /\ MetInv /\ ViewInv
      BY DEF ShownInv
    <2>2. PresenceInv' /\ ViewInv'
      BY <2>1, PresenceInvStep, ViewInvStep
    <2>3. MetInv'
      <3> SUFFICES ASSUME NEW g \in Gateways, life'[g] # "done", Reached(g)' PROVE Met(g)'
        BY DEF MetInv
      <3> QED
        BY <2>1, MetStep
    <2> QED
      BY <2>2, <2>3 DEF ShownInv
  <1> QED
    BY <1>1, ShownInit, PTL DEF Spec

LEMMA ShownTrue == ShownInv => ViewsSettle
  <1> SUFFICES ASSUME ShownInv, Quiet, ~gaveUp, NEW g \in asked, life[g] = "up"
               PROVE  view[g] = Friends[OwnerOf[g]] \cap online
    BY DEF ViewsSettle
  <1>1. g \in Gateways /\ view[g] \subseteq Friends[OwnerOf[g]]
    BY DEF ShownInv, PresenceInv, TypeInv, LifeType
  <1>2. /\ Where(1, g) = <<>> /\ Where(2, g) = <<>> /\ Where(3, g) = <<>>
        /\ Where(4, g) = <<>> /\ Where(5, g) = <<>> /\ Where(6, g) = <<>>
    BY <1>1, Names DEF Quiet, Where
  <1>3. ASSUME NEW f \in Friends[OwnerOf[g]] PROVE f \in view[g] <=> f \in online
    <2>1. PICK on \in BOOLEAN : on <=> f \in online
      OBVIOUS
    <2>2. Tidy(g, f, on)
      BY <1>1, <2>1 DEF ShownInv, ViewInv
    <2>3. ~Anywhere(g, NewsOf(f, on))
      BY <1>2, NothingQueued DEF Anywhere, Right
    <2> QED
      BY <2>1, <2>2, <2>3 DEF Tidy
  <1> QED
    BY <1>1, <1>3

\* When nothing is on its way any more and no question was given up, every device that has
\* asked shows exactly which of its user's friends are online (handlePresenceChange,
\* pushToUser, handleBatchOnline).
THEOREM ViewsDoSettle == Spec => []ViewsSettle
  BY ShownInvariant, ShownTrue, PTL

=============================================================================
