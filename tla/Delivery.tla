------------------------------ MODULE Delivery ------------------------------
(***************************************************************************)
(* How a user's being online, and what is sent to him, reaches devices:    *)
(* the gateway actor of each connection, the presence actor, the event bus *)
(* and the push actor, with their bounded mailboxes.                       *)
(*                                                                         *)
(* A handler changes its actor's own state at once and leaves behind the   *)
(* calls it makes, in order, in todo: a Tell waits while the mailbox it    *)
(* goes to is full, and an Ask waits in the same way before it waits for   *)
(* the answer.  Until its calls are made an actor pulls no message.        *)
(*                                                                         *)
(* Around them: the clients, which connect, ask for their friends' state,  *)
(* send messages and go; the conversations, which publish what is sent     *)
(* (module Conversation); the friend lists (module Friend), here fixed.    *)
(***************************************************************************)
EXTENDS Integers, Sequences, FiniteSets

CONSTANTS Users, Gateways,
          OwnerOf,   \* the user of a connection
          Friends,   \* the friends of a user
          MaxSends,  \* bound: messages sent by the clients
          Stories,   \* bound: the size of every mailbox, whether an answer may
                     \* be late, and what happens on the connections, see Parts
          None

\* A connection comes, or comes after another of its user has gone; its user's
\* login is told; its client asks for the friends' state, sends messages, goes;
\* its idle timer fires.
Parts == {"come", "again", "login", "ask", "send", "go", "idle"}

Actors == {"presence", "bus", "push"} \cup Gateways

\* Friends are friends of each other (Friendship, module Friend).
ASSUME DeliveryAssumption ==
  /\ IsFiniteSet(Users) /\ IsFiniteSet(Gateways)
  /\ OwnerOf \in [Gateways -> Users]
  /\ Friends \in [Users -> SUBSET Users]
  /\ \A u, v \in Users : u \in Friends[v] => v \in Friends[u]
  /\ MaxSends \in Nat
  /\ \A s \in Stories : /\ s.size \in Nat \ {0} /\ s.late \in BOOLEAN
                        /\ s.on \in [Gateways -> SUBSET Parts]
  /\ \A g \in Gateways : g \notin {"presence", "bus", "push"}
  /\ None \notin Users \cup Actors

VARIABLES
  online,     \* presence: users with a gateway
  gateways,   \* presence: the gateways of each user
  gatewayUID, \* presence: the user of each gateway it knows
  monitor,    \* of each gateway's watch by presence: none, waits, or tells
  box,        \* the mailboxes, oldest message first
  todo,       \* the calls a handler has still to make
  asking,     \* those whose first call is an Ask that has been delivered
  life,       \* of a gateway: new, up, ending (OnStop), done
  reader,     \* its reading goroutine: off, hello, reading, gone
  idled,      \* gateways whose idle timer has fired
  view,       \* the friends each device shows as online
  asked,      \* devices whose question for their friends was answered
  news,       \* messages the conversations have taken, and have published
  changes,    \* history: announcements by presence of each user
  gaveUp,     \* history: some Ask has timed out
  story       \* which of Stories this behaviour is; never changes

presenceVars == <<online, gateways, gatewayUID, changes>>
clientVars == <<reader, idled, view, asked>>
vars == <<presenceVars, monitor, box, todo, asking, life, clientVars, news, gaveUp, story>>

-----------------------------------------------------------------------------
Init ==
  /\ story \in Stories
  /\ online = {}
  /\ gateways = [u \in Users |-> {}]
  /\ gatewayUID = [g \in Gateways |-> None]
  /\ monitor = [g \in Gateways |-> "none"]
  /\ box = [a \in Actors |-> <<>>]
  /\ todo = [a \in Actors |-> <<>>]
  /\ asking = {}
  /\ life = [g \in Gateways |-> "new"]
  /\ reader = [g \in Gateways |-> "off"]
  /\ idled = {}
  /\ view = [g \in Gateways |-> {}]
  /\ asked = {}
  /\ news = [taken |-> 0, published |-> 0]
  /\ changes = [u \in Users |-> 0]
  /\ gaveUp = FALSE

\* A call of todo.
Tell(a, m) == [do |-> "tell", to |-> a, msg |-> m]
Publish(e) == Tell("bus", e)

Open(a) == a \in Gateways => life[a] # "done"
RoomForOneMore(a) == Len(box[a]) <= story.size
Room(a) == Len(box[a]) < story.size

\* Actor a pulls its next message: it has none of its calls left to make.
Pulls(a, m) ==
  /\ todo[a] = <<>>
  /\ box[a] # <<>>
  /\ m = Head(box[a])

Pulled(a) == box' = [box EXCEPT ![a] = Tail(@)]

\* The sequences in which a map's elements may come.
Orders(S) == {s \in [1..Cardinality(S) -> S] : \A i, j \in DOMAIN s : s[i] = s[j] => i = j}

-----------------------------------------------------------------------------
(* Calls.  a makes the first call of todo[a]. *)

Call(a) == Head(todo[a])
Made(a) == todo' = [todo EXCEPT ![a] = Tail(@)]

\* deliver: room, or a dead letter where the mailbox is stopped.
Deliver(a, m) ==
  IF Open(a) THEN Room(a) /\ box' = [box EXCEPT ![a] = Append(@, m)]
  ELSE UNCHANGED box

\* After the last call of OnStart the connection is read.
CallTell(a) ==
  /\ Call(a).do = "tell"
  /\ Deliver(Call(a).to, Call(a).msg)
  /\ Made(a)
  /\ reader' = [g \in Gateways |-> IF g = a /\ reader[g] = "off" /\ Tail(todo[g]) = <<>>
                                   THEN IF "ask" \in story.on[g] THEN "hello" ELSE "reading"
                                   ELSE reader[g]]
  /\ UNCHANGED <<presenceVars, monitor, asking, life, idled, view, asked, news, gaveUp, story>>

\* Ask: only after the delivery does its timeout begin.
CallAsk(a) ==
  /\ Call(a).do \in {"gateways", "batch"}
  /\ Deliver("presence", [m |-> "query", by |-> a])
  /\ asking' = asking \cup {a}
  /\ UNCHANGED <<presenceVars, monitor, todo, life, clientVars, news, gaveUp, story>>

\* ctx.Watch: of a gateway that is done, presence tells itself.
CallWatch(a) ==
  /\ Call(a).do = "watch"
  /\ LET g == Call(a).gate
     IN  IF life[g] = "done"
         THEN Deliver("presence", [m |-> "terminated", gate |-> g]) /\ UNCHANGED monitor
         ELSE monitor' = [monitor EXCEPT ![g] = "wait"] /\ UNCHANGED box
  /\ Made(a)
  /\ UNCHANGED <<presenceVars, asking, life, clientVars, news, gaveUp, story>>

\* ctx.Unwatch: too late for a monitor that is telling.
CallUnwatch(a) ==
  /\ Call(a).do = "unwatch"
  /\ monitor' = [monitor EXCEPT ![Call(a).gate] = IF @ = "wait" THEN "none" ELSE @]
  /\ Made(a)
  /\ UNCHANGED <<presenceVars, box, asking, life, clientVars, news, gaveUp, story>>

\* The end of processLoop; what is left in the mailbox is lost.
CallDone(a) ==
  /\ Call(a).do = "done"
  /\ life' = [life EXCEPT ![a] = "done"]
  /\ box' = [box EXCEPT ![a] = <<>>]
  /\ reader' = [reader EXCEPT ![a] = "gone"]
  /\ Made(a)
  /\ UNCHANGED <<presenceVars, monitor, asking, idled, view, asked, news, gaveUp, story>>

MakeCall(a) ==
  /\ todo[a] # <<>> /\ a \notin asking
  /\ \/ CallTell(a) \/ CallAsk(a) \/ CallWatch(a) \/ CallUnwatch(a)
     \/ CallDone(a)

\* The asker gives up; nobody waits for the answer any more.
Timeout(a) ==
  /\ story.late /\ a \in asking
  /\ asking' = asking \ {a}
  /\ Made(a)
  /\ box' = [box EXCEPT !["presence"] =
               [i \in DOMAIN @ |-> IF @[i] = [m |-> "query", by |-> a]
                                   THEN [m |-> "query", by |-> None] ELSE @[i]]]
  /\ gaveUp' = TRUE
  /\ UNCHANGED <<presenceVars, monitor, life, clientVars, news, story>>

-----------------------------------------------------------------------------
(* The presence actor. *)

Leaves(calls) == todo' = [todo EXCEPT !["presence"] = calls]
Event(ev, u) == [ev |-> ev, user |-> u]

\* A registration that is announced although the user has another device.
handleConnectedEachTime(g) ==
  LET u == OwnerOf[g]
  IN  /\ gateways' = [gateways EXCEPT ![u] = @ \cup {g}]
      /\ gatewayUID' = [gatewayUID EXCEPT ![g] = u]
      /\ online' = online \cup {u}
      /\ changes' = [changes EXCEPT ![u] = @ + 1]
      /\ Leaves(<<[do |-> "watch", gate |-> g], Publish(Event("online", u))>>)

handleConnected(g) ==
  LET u == OwnerOf[g]
      first == u \notin online
  IN  /\ gateways' = [gateways EXCEPT ![u] = @ \cup {g}]
      /\ gatewayUID' = [gatewayUID EXCEPT ![g] = u]
      /\ online' = online \cup {u}
      /\ changes' = [changes EXCEPT ![u] = IF first THEN @ + 1 ELSE @]
      /\ Leaves(<<[do |-> "watch", gate |-> g]>>
                  \o IF first THEN <<Publish(Event("online", u))>> ELSE <<>>)

\* A removal that takes the user for offline although he has another device.
removeGatewayForAll(u, g, after) ==
  /\ gatewayUID' = [gatewayUID EXCEPT ![g] = None]
  /\ gateways' = [gateways EXCEPT ![u] = @ \ {g}]
  /\ online' = online \ {u}
  /\ changes' = [changes EXCEPT ![u] = @ + 1]
  /\ Leaves(<<Publish(Event("offline", u))>> \o after)

\* removeGateway for a known user, and what its caller does after it.
removeGateway(u, g, after) ==
  LET last == gateways[u] \ {g} = {}
  IN  /\ gatewayUID' = [gatewayUID EXCEPT ![g] = None]
      /\ gateways' = [gateways EXCEPT ![u] = @ \ {g}]
      /\ online' = IF last THEN online \ {u} ELSE online
      /\ changes' = [changes EXCEPT ![u] = IF last THEN @ + 1 ELSE @]
      /\ Leaves((IF last THEN <<Publish(Event("offline", u))>> ELSE <<>>) \o after)

handleDisconnected(g) == removeGateway(OwnerOf[g], g, <<[do |-> "unwatch", gate |-> g]>>)

handleTerminated(g) ==
  IF gatewayUID[g] = None
  THEN UNCHANGED <<presenceVars, todo>>
  ELSE removeGateway(gatewayUID[g], g, <<>>)

\* Whoever registers or goes: the other messages of presence.
Presence ==
  \E g \in Gateways :
    /\ \/ Pulls("presence", [m |-> "connected", gate |-> g]) /\ handleConnected(g)
       \/ Pulls("presence", [m |-> "disconnected", gate |-> g]) /\ handleDisconnected(g)
       \/ Pulls("presence", [m |-> "terminated", gate |-> g]) /\ handleTerminated(g)
    /\ Pulled("presence")
    /\ UNCHANGED <<monitor, asking, life, clientVars, news, gaveUp, story>>

\* handleGetGateways, and the asker goes on: pushToUser tells each gateway.
AnswerGateways(a) ==
  /\ Call(a).do = "gateways"
  /\ \E s \in Orders(gateways[Call(a).user]) :
       todo' = [todo EXCEPT ![a] =
                  [i \in DOMAIN s |-> Tell(s[i], [m |-> "push", data |-> Call(a).data])] \o Tail(@)]
  /\ UNCHANGED <<view, asked>>

\* handleBatchOnline, and the asker goes on: the push actor pushes to the
\* user each friend that is online; a gateway writes the map to its device.
AnswerBatch(a) ==
  /\ Call(a).do = "batch"
  /\ LET there == Friends[Call(a).user] \cap online
     IN  IF a = "push"
         THEN /\ \E s \in Orders(there) :
                   todo' = [todo EXCEPT ![a] =
                              [i \in DOMAIN s |-> [do |-> "gateways", user |-> Call(a).user,
                                                   data |-> Event("online", s[i])]] \o Tail(@)]
              /\ UNCHANGED <<view, asked>>
         ELSE /\ view' = [view EXCEPT ![a] = there]
              /\ asked' = asked \cup {a}
              /\ Made(a)

\* A presence that leaves who asks for an absent user's gateways without answer.
QueryUnanswered ==
  \E a \in Actors :
    /\ Pulls("presence", [m |-> "query", by |-> a])
    /\ Pulled("presence")
    /\ IF Call(a).do = "gateways" /\ gateways[Call(a).user] = {}
       THEN UNCHANGED <<asking, todo, view, asked>>
       ELSE asking' = asking \ {a} /\ (AnswerGateways(a) \/ AnswerBatch(a))
    /\ UNCHANGED <<presenceVars, monitor, life, reader, idled, news, gaveUp, story>>

Query ==
  \E a \in Actors \cup {None} :
    /\ Pulls("presence", [m |-> "query", by |-> a])
    /\ Pulled("presence")
    /\ asking' = asking \ {a}
    /\ IF a = None THEN UNCHANGED <<todo, view, asked>> ELSE AnswerGateways(a) \/ AnswerBatch(a)
    /\ UNCHANGED <<presenceVars, monitor, life, reader, idled, news, gaveUp, story>>

\* watchManager.monitor: first it takes its watch out of the table.
MonitorWakes(g) ==
  /\ monitor[g] = "wait" /\ life[g] = "done"
  /\ monitor' = [monitor EXCEPT ![g] = "tell"]
  /\ UNCHANGED <<presenceVars, box, todo, asking, life, clientVars, news, gaveUp, story>>

MonitorTells(g) ==
  /\ monitor[g] = "tell"
  /\ Deliver("presence", [m |-> "terminated", gate |-> g])
  /\ monitor' = [monitor EXCEPT ![g] = "none"]
  /\ UNCHANGED <<presenceVars, todo, asking, life, clientVars, news, gaveUp, story>>

-----------------------------------------------------------------------------
(* The event bus and the push actor. *)

\* The friend-manager does not answer in time: there is nothing to do then.
FriendsUnanswered == story.late /\ gaveUp' = TRUE

\* Presence hears of itself.
SubscribersAndPresence(e) == <<"presence", "push">>

\* publish: the push actor subscribes to everything but a login, which goes
\* to user-manager; that one takes what it is told and tells nobody.
Subscribers(e) == IF e.ev = "login" THEN <<>> ELSE <<"push">>

Bus ==
  \E e \in {box["bus"][i] : i \in DOMAIN box["bus"]} :
    /\ Pulls("bus", e)
    /\ Pulled("bus")
    /\ todo' = [todo EXCEPT !["bus"] =
                  [i \in DOMAIN Subscribers(e) |-> Tell(Subscribers(e)[i], e)]]
    /\ UNCHANGED <<presenceVars, monitor, asking, life, clientVars, news, gaveUp, story>>

\* pushToUser for each of the users, in some order.
PushTo(users, e) ==
  {[i \in DOMAIN s |-> [do |-> "gateways", user |-> s[i], data |-> e]] : s \in Orders(users)}

\* A push of a friend's coming only.
handlePresenceChangeOnline(e) == IF e.ev = "online" THEN PushTo(Friends[e.user], e) ELSE {<<>>}

handlePresenceChange(e) ==
  IF e.ev = "online"
  THEN {calls \o <<[do |-> "batch", user |-> e.user]>> : calls \in PushTo(Friends[e.user], e)}
  ELSE PushTo(Friends[e.user], e)

\* handleEvent: a message goes to every member of its conversation.
handleEvent(e) == IF e.ev = "message" THEN PushTo(Users, e) ELSE handlePresenceChange(e)

Push ==
  \E e \in {box["push"][i] : i \in DOMAIN box["push"]} :
    /\ Pulls("push", e)
    /\ Pulled("push")
    /\ \/ /\ \E calls \in handleEvent(e) : todo' = [todo EXCEPT !["push"] = calls]
          /\ UNCHANGED gaveUp
       \/ e.ev # "message" /\ FriendsUnanswered /\ UNCHANGED todo
    /\ UNCHANGED <<presenceVars, monitor, asking, life, clientVars, news, story>>

-----------------------------------------------------------------------------
(* The gateway of a connection. *)

GatewayCalls(g, calls) == todo' = [todo EXCEPT ![g] = calls]

OnStart(g) ==
  /\ life[g] = "new"
  /\ \/ "come" \in story.on[g]
     \/ /\ "again" \in story.on[g]
        /\ \E h \in Gateways \ {g} : OwnerOf[h] = OwnerOf[g] /\ reader[h] = "gone"
  /\ life' = [life EXCEPT ![g] = "up"]
  /\ GatewayCalls(g, <<Tell("presence", [m |-> "connected", gate |-> g])>>
                       \o IF "login" \in story.on[g] THEN <<Publish(Event("login", OwnerOf[g]))>>
                          ELSE <<>>)
  /\ UNCHANGED <<presenceVars, monitor, box, asking, clientVars, news, gaveUp, story>>

Received(g) == Pulled(g) /\ UNCHANGED <<presenceVars, monitor, asking, reader, idled, gaveUp, story>>

\* WSDisconnected and IdleTimeout: the gateway tells itself a PoisonPill.
ReceiveClosed(g) ==
  /\ Pulls(g, [m |-> "closed"])
  /\ Received(g)
  /\ GatewayCalls(g, <<Tell(g, [m |-> "pill"])>>)
  /\ UNCHANGED <<life, view, asked, news>>

OnStop(g) ==
  /\ Pulls(g, [m |-> "pill"])
  /\ Received(g)
  /\ life' = [life EXCEPT ![g] = "ending"]
  /\ GatewayCalls(g, <<Tell("presence", [m |-> "disconnected", gate |-> g]), [do |-> "done"]>>)
  /\ UNCHANGED <<view, asked, news>>

\* The router of presence: the friends are asked for, then their states.
ReceiveFriends(g) ==
  /\ Pulls(g, [m |-> "request", type |-> "presence"])
  /\ Pulled(g)
  /\ \/ GatewayCalls(g, <<[do |-> "batch", user |-> OwnerOf[g]]>>) /\ UNCHANGED gaveUp
     \/ FriendsUnanswered /\ UNCHANGED todo
  /\ UNCHANGED <<presenceVars, monitor, asking, life, clientVars, news, story>>

\* A message to send is a frame of type "msg"; allowSend is asked for frames
\* of type "message" only, which the dispatcher does not know.
ReceiveSend(g) ==
  /\ Pulls(g, [m |-> "request", type |-> "msg"])
  /\ Received(g)
  /\ news' = [news EXCEPT !.taken = @ + 1]
  /\ UNCHANGED <<todo, life, view, asked>>

\* PushCmd: written to the connection, where the client applies it.
ReceivePush(g) ==
  \E e \in {box[g][i].data : i \in {j \in DOMAIN box[g] : box[g][j].m = "push"}} :
    /\ Pulls(g, [m |-> "push", data |-> e])
    /\ Received(g)
    /\ view' = [view EXCEPT ![g] = CASE e.ev = "online"  -> @ \cup {e.user}
                                     [] e.ev = "offline" -> @ \ {e.user}
                                     [] OTHER            -> @]
    /\ UNCHANGED <<todo, life, asked, news>>

Gateway(g) ==
  /\ life[g] = "up"
  /\ \/ ReceiveClosed(g) \/ OnStop(g) \/ ReceiveFriends(g) \/ ReceiveSend(g) \/ ReceivePush(g)

-----------------------------------------------------------------------------
(* Around them.  A goroutine that tells waits for room as well. *)

Sends(g, m, next) ==
  /\ life[g] \in {"up", "ending"}
  /\ Deliver(g, m)
  /\ reader' = [reader EXCEPT ![g] = next]
  /\ UNCHANGED <<presenceVars, monitor, todo, asking, life, view, asked, gaveUp, story>>

\* The client asks for its friends' state as soon as it is connected.
ClientAsks(g) ==
  /\ reader[g] = "hello"
  /\ Sends(g, [m |-> "request", type |-> "presence"], "reading")
  /\ UNCHANGED <<idled, news>>

\* Bound: messages on their way count as well.
OnTheirWay == {p \in Gateways \X (1..story.size) :
                 p[2] \in DOMAIN box[p[1]] /\ box[p[1]][p[2]] = [m |-> "request", type |-> "msg"]}
Sending == Cardinality(OnTheirWay)

ClientSends(g) ==
  /\ "send" \in story.on[g] /\ reader[g] = "reading"
  /\ news.taken + Sending < MaxSends
  /\ Sends(g, [m |-> "request", type |-> "msg"], "reading")
  /\ UNCHANGED <<idled, news>>

ClientGoes(g) ==
  /\ "go" \in story.on[g]
  /\ reader[g] \in {"hello", "reading"}
  /\ Sends(g, [m |-> "closed"], "gone")
  /\ UNCHANGED <<idled, news>>

IdleTimeout(g) ==
  /\ "idle" \in story.on[g] /\ g \notin idled
  /\ reader[g] = "reading"
  /\ Sends(g, [m |-> "closed"], "reading")
  /\ idled' = idled \cup {g}
  /\ UNCHANGED news

\* A conversation publishes the next message it has taken.
Published ==
  /\ news.published < news.taken
  /\ Deliver("bus", [ev |-> "message", n |-> news.published + 1])
  /\ news' = [news EXCEPT !.published = @ + 1]
  /\ UNCHANGED <<presenceVars, monitor, todo, asking, life, clientVars, gaveUp, story>>

Client(g) == ClientAsks(g) \/ ClientSends(g) \/ ClientGoes(g) \/ IdleTimeout(g)

\* A step of actor a, by the goroutine that runs its loop.
Step(a) ==
  \/ MakeCall(a)
  \/ a = "presence" /\ (Presence \/ Query)
  \/ a = "bus" /\ Bus
  \/ a = "push" /\ Push
  \/ a \in Gateways /\ Gateway(a)

Monitor(g) == MonitorWakes(g) \/ MonitorTells(g)

Server ==
  \/ \E a \in Actors : Step(a) \/ Timeout(a)
  \/ \E g \in Gateways : Monitor(g)

Next ==
  \/ Server
  \/ Published
  \/ \E g \in Gateways : OnStart(g) \/ Client(g)

Spec == Init /\ [][Next]_vars

\* While the server has a goroutine that can run or a timer that can fire,
\* one of them does; which one is left open.  Clients need not do anything.
Fairness == WF_vars(Server)

FairSpec == Spec /\ Fairness

-----------------------------------------------------------------------------
Message ==
  [m: {"connected", "disconnected", "terminated"}, gate: Gateways]
    \cup [m: {"query"}, by: Actors \cup {None}]

Change == [ev: {"online", "offline", "login"}, user: Users]
News == [ev: {"message"}, n: 1..MaxSends]

GatewayMessage ==
  [m: {"closed", "pill"}] \cup [m: {"request"}, type: {"presence", "msg"}]
    \cup [m: {"push"}, data: Change \cup News]

AnyCall ==
  [do: {"tell"}, to: Actors, msg: Message \cup Change \cup News \cup GatewayMessage]
    \cup [do: {"gateways"}, user: Users, data: Change \cup News]
    \cup [do: {"batch"}, user: Users] \cup [do: {"watch", "unwatch"}, gate: Gateways]
    \cup [do: {"done"}]

TypeOK ==
  /\ online \subseteq Users
  /\ gateways \in [Users -> SUBSET Gateways]
  /\ gatewayUID \in [Gateways -> Users \cup {None}]
  /\ monitor \in [Gateways -> {"none", "wait", "tell"}]
  /\ box \in [Actors -> Seq(Message \cup Change \cup News \cup GatewayMessage)]
  /\ \A a \in Actors : Len(box[a]) <= story.size
  /\ todo \in [Actors -> Seq(AnyCall)]
  /\ asking \subseteq Actors
  /\ life \in [Gateways -> {"new", "up", "ending", "done"}]
  /\ reader \in [Gateways -> {"off", "hello", "reading", "gone"}]
  /\ idled \subseteq Gateways
  /\ view \in [Gateways -> SUBSET Users]
  /\ asked \subseteq Gateways
  /\ news \in [taken: Nat, published: Nat]
  /\ changes \in [Users -> Nat]
  /\ gaveUp \in BOOLEAN
  /\ story \in Stories

InBox(a, m) == \E i \in DOMAIN box[a] : box[a][i] = m

\* A notice about gateway g is on its way to presence.
NoticeOf(g) ==
  \/ InBox("presence", [m |-> "disconnected", gate |-> g])
  \/ InBox("presence", [m |-> "terminated", gate |-> g])
  \/ monitor[g] \in {"wait", "tell"}
  \/ \E i \in DOMAIN todo["presence"] : todo["presence"][i] = [do |-> "watch", gate |-> g]

(* Presence knows who is there.  Its three maps agree; a gateway that is
   done is known only while a notice about it is on its way, so no user
   stays online without a device; and one that runs is known as soon as its
   registration has been handled, whatever notices of the user's earlier
   connections, twice told, come after it. *)
PresenceTrue ==
  /\ \A u \in Users : /\ gateways[u] = {g \in Gateways : gatewayUID[g] = u}
                      /\ u \in online <=> gateways[u] # {}
  /\ \A g \in Gateways :
       /\ gatewayUID[g] # None /\ life[g] = "done" => NoticeOf(g)
       /\ life[g] = "up" /\ reader[g] # "off"
            => gatewayUID[g] = OwnerOf[g] \/ InBox("presence", [m |-> "connected", gate |-> g])

Quiet ==
  /\ \A a \in Actors : box[a] = <<>> /\ todo[a] = <<>>
  /\ \A g \in Gateways : monitor[g] # "tell" /\ ~(monitor[g] = "wait" /\ life[g] = "done")

(* When nothing is under way and no Ask has timed out, every device that
   has asked for its friends' state shows who is online: the answers of
   presence, the pushes of older and of newer events, and the pushes of
   another device's answers may reach it in any order the actors allow. *)
ViewsSettle ==
  Quiet /\ ~gaveUp =>
    \A g \in asked : life[g] = "up" => view[g] = Friends[OwnerOf[g]] \cap online

-----------------------------------------------------------------------------
(* Who waits for whom. *)

\* The mailbox to which a's first call delivers.
Target(a) ==
  LET c == Call(a)
  IN  CASE c.do = "tell" -> c.to
        [] c.do \in {"gateways", "batch"} -> "presence"
        [] c.do = "watch" /\ life[c.gate] = "done" -> "presence"
        [] OTHER -> None

\* The actor that has to make room before a can move; none for one that asks
\* and has its message delivered, since its timeout has begun.
WaitsFor(a) ==
  IF /\ a \notin asking /\ todo[a] # <<>>
     /\ Target(a) # None /\ Open(Target(a)) /\ ~Room(Target(a))
  THEN Target(a) ELSE None

\* Sets of actors each of whom waits for another of them, or for himself.
Rings ==
  LET waiting == {a \in Actors : WaitsFor(a) # None}
  IN  {S \in (SUBSET waiting) \ {{}} : \A a \in S : WaitsFor(a) \in S}

(* The actors stop each other only where somebody tells himself before his
   own full mailbox, or where the bus waits for room with the push actor:
   the rings of presence, bus and push, and of bus, push and gateway, close there. *)
DeadlocksNamed ==
  \A S \in Rings :
    (\E a \in S : WaitsFor(a) = a) \/ ("bus" \in S /\ WaitsFor("bus") = "push")

(* Short of such a ring of full mailboxes every call returns: each Tell gets
   its room and each Ask its answer, every message is handled
   and every watch of a gateway that is done is told, until all is quiet. *)
CallsReturn == <>[](Quiet \/ Rings # {})

-----------------------------------------------------------------------------
(* Presence keeps the promise of module Roster. *)
Abs == INSTANCE Roster WITH Devices <- Gateways, UserOf <- OwnerOf,
                            present <- {g \in Gateways : gatewayUID[g] # None}

ImplementsRoster == Abs!Spec
=============================================================================
