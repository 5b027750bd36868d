----------------------------- MODULE CallProofs -----------------------------
(***************************************************************************)
(* Theorems about Call, for any users, devices, call ids, faults and       *)
(* number of commands: its variables keep their types, the busy marks and  *)
(* the call actors agree, the call log tells what was announced, and every *)
(* step is one of the call service of CallSession.                         *)
(***************************************************************************)
EXTENDS Call, TLAPS

ManagerMessage == CommandType \cup [op: {"terminated"}, call: Calls]
RecordType == [status: {"completed", "missed"}, reason: Reasons]
EventNames == {"incoming", "calling", "accepted", "answered_elsewhere", "rejected", "cancelled",
               "timeout", "ended"}
Lives == {"unborn", "start", "ring", "idle", "accept", "poison", "stopping", "done"}

\* The parts of the type invariant, with the mailboxes as sequences.
GatewayType ==
  /\ gw \in [Gateways -> {"off", "up", "stopping", "done"}]
  /\ registered \subseteq Gateways
  /\ out \in [Gateways -> 0..MaxCmds]
  /\ sent \in 0..MaxCmds

ManagerType ==
  /\ mbox \in Seq(ManagerMessage)
  /\ cmd \in CommandType \cup {None}
  /\ busy \in [Users -> Calls \cup {None}]
  /\ refs \subseteq Calls

ActorType ==
  /\ call \in [Calls -> CallType \cup {None}]
  /\ loop \in [Calls -> Lives]
  /\ \A c \in Calls : IF Born(c) THEN call[c] \in CallType ELSE call[c] = None
  /\ inbox \in [Calls -> Seq(ActorMessageType)]
  /\ timer \in [Calls -> {"off", "armed"}]
  /\ watch \in [Calls -> SUBSET Gateways]

WorldType ==
  /\ due \subseteq Gateways \X Calls
  /\ told \subseteq Calls
  /\ events \in [Calls -> Seq(EventNames)]
  /\ record \in [Calls -> RecordType \cup {None}]

\* The command a call actor is in the middle of is still in its mailbox.
HeadInv == \A c \in Calls : loop[c] = "accept" => inbox[c] # <<>> /\ Head(inbox[c]) \in CommandType

TypeInv == GatewayType /\ ManagerType /\ ActorType /\ WorldType /\ HeadInv

(* What the manager and the call actors know of each other: the two of a
   command in the middle of an initiate are free, and the end of a call
   reaches the manager only after it. *)
EndsAreTold == \A m \in Elements(mbox) : m.op = "terminated" => loop[m.call] = "done"

TwoAreFree ==
  cmd # None /\ cmd.op = "initiate" =>
    cmd.uid # cmd.to /\ busy[cmd.uid] = None /\ busy[cmd.to] = None

BusyInv ==
  /\ TwoAreFree
  /\ EndsAreTold
  /\ \A c \in refs : Born(c)
  /\ BusyTracksCalls

\* Before anything is announced, and after the last has been.
Quiet(c) == loop[c] \in {"unborn", "start", "ring"}
Ended(c) == loop[c] \in {"stopping", "done"}
HasPill(c) == \E m \in Elements(inbox[c]) : m.op = "pill"

(* One call: its fields, what was announced and what was stored say the
   same, whatever its actor is in the middle of. *)
CallSays(c) ==
  /\ call[c].reason = "" <=> call[c].status # "ended"
  /\ call[c].status = "ringing" => ~call[c].answered
  /\ call[c].status = "connected" => call[c].answered
  /\ HasPill(c) \/ loop[c] = "poison" \/ Ended(c) => call[c].status = "ended"
  /\ loop[c] = "accept" => call[c].status = "connected"
  /\ Quiet(c) => events[c] = <<>> /\ call[c].status = "ringing"
  /\ call[c].reason \in {"rejected", "cancelled", "timeout"} => ~call[c].answered

OnlyLastEnds(e) == \A i \in DOMAIN e : e[i] \in {"ended", "timeout"} <=> i = Len(e)

EventsSay(c) ==
  /\ Published(c, "accepted") <=> call[c].answered /\ loop[c] # "accept"
  /\ Published(c, "rejected") <=> call[c].reason = "rejected"
  /\ call[c].reason = "cancelled" => Published(c, "cancelled")
  /\ Published(c, "cancelled") => call[c].reason \in {"cancelled", "disconnect"} /\ ~call[c].answered
  /\ Published(c, "timeout") <=> Ended(c) /\ call[c].reason = "timeout"
  /\ Published(c, "ended") => Ended(c)
  /\ Ended(c) => OnlyLastEnds(events[c])

RecordSays(c) == record[c] # None => Ended(c) /\ record[c] = RecordOf(c)

CallLog(c) == IF Born(c) THEN CallSays(c) /\ EventsSay(c) /\ RecordSays(c)
                         ELSE record[c] = None /\ events[c] = <<>> /\ ~HasPill(c)

LogInv == \A c \in Calls : CallLog(c)

IInv == TypeInv /\ BusyInv /\ LogInv

-----------------------------------------------------------------------------
(* Mailboxes. *)

LEMMA AppendElements ==
  ASSUME NEW S, NEW q \in Seq(S), NEW m \in S
  PROVE  /\ Append(q, m) \in Seq(S) /\ Elements(Append(q, m)) = Elements(q) \cup {m}
         /\ Append(q, m) # <<>> /\ (q # <<>> => Head(Append(q, m)) = Head(q))
  <1>1. /\ DOMAIN q = 1..Len(q) /\ Len(q) \in Nat
        /\ DOMAIN Append(q, m) = 1..(Len(q) + 1)
        /\ \A i \in 1..Len(q) : Append(q, m)[i] = q[i]
        /\ Append(q, m)[Len(q) + 1] = m
    OBVIOUS
  <1>2. ASSUME NEW x \in Elements(Append(q, m)) PROVE x \in Elements(q) \cup {m}
    <2>1. PICK i \in DOMAIN Append(q, m) : x = Append(q, m)[i]
      BY DEF Elements
    <2>2. i = Len(q) + 1 \/ i \in 1..Len(q)
      BY <1>1, <2>1
    <2> QED
      BY <1>1, <2>1, <2>2 DEF Elements
  <1>3. ASSUME NEW x \in Elements(q) PROVE x \in Elements(Append(q, m))
    <2>1. PICK i \in DOMAIN q : x = q[i]
      BY DEF Elements
    <2>2. i \in DOMAIN Append(q, m) /\ Append(q, m)[i] = x
      BY <1>1, <2>1
    <2> QED
      BY <2>2 DEF Elements
  <1>4. m \in Elements(Append(q, m))
    <2>1. Len(q) + 1 \in DOMAIN Append(q, m)
      BY <1>1
    <2> QED
      BY <1>1, <2>1 DEF Elements
  <1>5. Append(q, m) \in Seq(S) /\ Append(q, m) # <<>>
    <2>1. Append(q, m) \in Seq(S) /\ Len(Append(q, m)) = Len(q) + 1
      OBVIOUS
    <2>2. Len(<<>>) = 0
      OBVIOUS
    <2> QED
      BY <1>1, <2>1, <2>2
  <1>6. q # <<>> => Head(Append(q, m)) = Head(q)
    <2>1. SUFFICES ASSUME q # <<>> PROVE Head(Append(q, m)) = Head(q)
      OBVIOUS
    <2>2. Len(q) >= 1 /\ Head(q) = q[1]
      BY <2>1
    <2>3. Append(q, m)[1] = q[1]
      BY <1>1, <2>2
    <2>4. Head(Append(q, m)) = Append(q, m)[1]
      BY <1>5
    <2> QED
      BY <2>2, <2>3, <2>4
  <1> QED
    BY <1>2, <1>3, <1>4, <1>5, <1>6

LEMMA TakeElements ==
  ASSUME NEW S, NEW q \in Seq(S), q # <<>>
  PROVE  /\ Tail(q) \in Seq(S) /\ Elements(Tail(q)) \subseteq Elements(q)
         /\ Head(q) \in S /\ Head(q) \in Elements(q)
  <1>1. /\ DOMAIN q = 1..Len(q) /\ Len(q) \in Nat /\ Len(q) >= 1 /\ Head(q) = q[1]
        /\ DOMAIN Tail(q) = 1..(Len(q) - 1)
        /\ \A i \in 1..(Len(q) - 1) : Tail(q)[i] = q[i + 1]
    OBVIOUS
  <1>2. ASSUME NEW x \in Elements(Tail(q)) PROVE x \in Elements(q)
    <2>1. PICK i \in DOMAIN Tail(q) : x = Tail(q)[i]
      BY DEF Elements
    <2>2. i + 1 \in DOMAIN q /\ q[i + 1] = x
      BY <1>1, <2>1
    <2> QED
      BY <2>2 DEF Elements
  <1>3. Head(q) \in Elements(q)
    <2>1. 1 \in DOMAIN q
      BY <1>1
    <2> QED
      BY <1>1, <2>1 DEF Elements
  <1>4. Tail(q) \in Seq(S) /\ Head(q) \in S
    OBVIOUS
  <1> QED
    BY <1>2, <1>3, <1>4

\* What is in a mailbox has the type of its messages.
LEMMA ElementsTyped ==
  ASSUME NEW S, NEW q \in Seq(S)
  PROVE  Elements(q) \subseteq S
  BY DEF Elements

\* What the fields of a message of the manager are.
LEMMA ManagerMessages ==
  ASSUME NEW m \in ManagerMessage
  PROVE  /\ m.op \in CallOps \cup {"initiate", "terminated"}
         /\ m.op # "terminated" => m \in CommandType
         /\ m.op = "terminated" => m.call \in Calls
  BY DEF ManagerMessage, CommandType, CallOps

LEMMA CommandFields ==
  ASSUME NEW m \in CommandType
  PROVE  /\ m.by \in Gateways /\ m.id \in 1..MaxCmds /\ m.uid \in Users
         /\ m.op \in CallOps \cup {"initiate"}
         /\ m.op = "initiate" => m.to \in Users
         /\ m.op \in CallOps => m.call \in Calls /\ m \in ActorMessageType
  BY DEF CommandType, CallOps, ActorMessageType

-----------------------------------------------------------------------------
(* Types. *)

LEMMA AnswerType ==
  ASSUME GatewayType, NEW m \in CommandType, Answer(m)
  PROVE  out' \in [Gateways -> 0..MaxCmds]
  <1>1. 0 \in 0..MaxCmds
    BY CallAssumption
  <1> QED
    BY <1>1 DEF GatewayType, Answer

\* The gateways and the clients leave all but their own and a mailbox alone.
LEMMA ClientType ==
  ASSUME TypeInv, Client \/ \E g \in Gateways : CloseGateway(g)
  PROVE  TypeInv'
  <1>1. ASSUME NEW g \in Gateways, Connect(g) \/ Disconnect(g) \/ CloseGateway(g) PROVE TypeInv'
    <2>1. UNCHANGED <<out, sent, managerVars, actorVars, due, told, worldVars>>
      BY <1>1 DEF Connect, Disconnect, CloseGateway
    <2>2. /\ gw' \in [Gateways -> {"off", "up", "stopping", "done"}]
          /\ registered' \subseteq Gateways
      BY <1>1 DEF Connect, Disconnect, CloseGateway, TypeInv, GatewayType
    <2> QED
      BY <2>1, <2>2 DEF TypeInv, GatewayType, ManagerType, ActorType, WorldType, HeadInv, Born,
                        managerVars, actorVars, worldVars
  <1>2. ASSUME NEW g \in Gateways, SendCmd(g) PROVE TypeInv'
    <2>1. PICK m \in Commands(g) : mbox' = Append(mbox, m)
      BY <1>2 DEF SendCmd
    <2>2. sent \in 0..MaxCmds /\ sent + 1 \in 1..MaxCmds /\ sent + 1 \in 0..MaxCmds
      BY <1>2, CallAssumption DEF SendCmd, TypeInv, GatewayType
    <2>3. OwnerOf[g] \in Users /\ KnownCalls(OwnerOf[g]) \subseteq Calls
      BY CallAssumption DEF KnownCalls
    <2>4. m \in CommandType
      BY <2>2, <2>3 DEF Commands, CommandType
    <2>5. mbox' \in Seq(ManagerMessage)
      BY <2>1, <2>4, AppendElements DEF TypeInv, ManagerType, ManagerMessage
    <2>6. sent' \in 0..MaxCmds /\ out' \in [Gateways -> 0..MaxCmds]
      BY <1>2, <2>2 DEF SendCmd, TypeInv, GatewayType
    <2>7. UNCHANGED <<gw, registered, cmd, busy, refs, actorVars, due, told, worldVars>>
      BY <1>2 DEF SendCmd
    <2> QED
      BY <2>5, <2>6, <2>7 DEF TypeInv, GatewayType, ManagerType, ActorType, WorldType, HeadInv, Born,
                        managerVars, actorVars, worldVars
  <1>3. ASSUME NEW g \in Gateways, GatewayGivesUp(g) PROVE TypeInv'
    <2>1. 0 \in 0..MaxCmds
      BY CallAssumption
    <2>2. out' \in [Gateways -> 0..MaxCmds]
      BY <1>3, <2>1 DEF GatewayGivesUp, TypeInv, GatewayType
    <2>3. UNCHANGED <<gw, registered, sent, managerVars, actorVars, due, told, worldVars>>
      BY <1>3 DEF GatewayGivesUp
    <2> QED
      BY <2>2, <2>3 DEF TypeInv, GatewayType, ManagerType, ActorType, WorldType, HeadInv, Born,
                        managerVars, actorVars, worldVars
  <1> QED
    BY <1>1, <1>2, <1>3 DEF Client

\* Whom presence names is a gateway.
LEMMA NamedGateway ==
  ASSUME TypeInv, NEW u, NEW answer \in AskGateways(u)
  PROVE  /\ FirstOf(answer) \subseteq Gateways \cup {None}
         /\ \A g \in Gateways \cup {None} : Lookup(g, answer) \in Gateways \cup {None}
         /\ answer # NoAnswer => answer \subseteq Gateways
  <1>1. answer = NoAnswer \/ answer \subseteq Gateways
    BY DEF AskGateways, GatewaysOf, TypeInv, GatewayType
  <1> QED
    BY <1>1 DEF FirstOf, Lookup

LEMMA NewCallType ==
  ASSUME NEW u \in Users, NEW v \in Users, NEW g \in Gateways \cup {None}
  PROVE  /\ NewCall(u, v, g) \in CallType
         /\ NewCall(u, v, g).caller = u /\ NewCall(u, v, g).callee = v
         /\ NewCall(u, v, g).status = "ringing" /\ NewCall(u, v, g).reason = ""
         /\ NewCall(u, v, g).answered = FALSE
  BY DEF NewCall, CallType

\* The manager takes a message.
LEMMA ManagerTakes ==
  ASSUME TypeInv, mbox # <<>>
  PROVE  /\ Tail(mbox) \in Seq(ManagerMessage) /\ Elements(Tail(mbox)) \subseteq Elements(mbox)
         /\ Head(mbox) \in ManagerMessage /\ Head(mbox) \in Elements(mbox)
  BY TakeElements DEF TypeInv, ManagerType

\* A message is put into a call actor's mailbox, or taken out of it.
LEMMA InboxAppend ==
  ASSUME TypeInv, NEW c \in Calls, NEW m \in ActorMessageType,
         inbox' = [inbox EXCEPT ![c] = Append(@, m)]
  PROVE  /\ inbox' \in [Calls -> Seq(ActorMessageType)]
         /\ Elements(inbox'[c]) = Elements(inbox[c]) \cup {m}
         /\ inbox[c] # <<>> => inbox'[c] # <<>> /\ Head(inbox'[c]) = Head(inbox[c])
         /\ \A d \in Calls \ {c} : inbox'[d] = inbox[d]
  <1>1. inbox \in [Calls -> Seq(ActorMessageType)] /\ inbox[c] \in Seq(ActorMessageType)
    BY DEF TypeInv, ActorType
  <1>2. inbox'[c] = Append(inbox[c], m) /\ \A d \in Calls \ {c} : inbox'[d] = inbox[d]
    BY <1>1
  <1>3. Append(inbox[c], m) \in Seq(ActorMessageType)
        /\ Elements(Append(inbox[c], m)) = Elements(inbox[c]) \cup {m}
    BY <1>1, AppendElements
  <1>4. inbox' \in [Calls -> Seq(ActorMessageType)]
    BY <1>1, <1>3
  <1>5. inbox[c] # <<>> => inbox'[c] # <<>> /\ Head(inbox'[c]) = Head(inbox[c])
    BY <1>1, <1>2, AppendElements
  <1>6. Elements(inbox'[c]) = Elements(inbox[c]) \cup {m}
    BY <1>2, <1>3
  <1> QED
    BY <1>2, <1>4, <1>5, <1>6

LEMMA InboxTake ==
  ASSUME TypeInv, NEW c \in Calls, inbox[c] # <<>>, Dequeue(c)
  PROVE  /\ inbox' \in [Calls -> Seq(ActorMessageType)]
         /\ Elements(inbox'[c]) \subseteq Elements(inbox[c])
         /\ \A d \in Calls \ {c} : inbox'[d] = inbox[d]
  <1>1. inbox \in [Calls -> Seq(ActorMessageType)] /\ inbox[c] \in Seq(ActorMessageType)
    BY DEF TypeInv, ActorType
  <1>2. inbox'[c] = Tail(inbox[c]) /\ \A d \in Calls \ {c} : inbox'[d] = inbox[d]
    BY <1>1 DEF Dequeue
  <1>3. Tail(inbox[c]) \in Seq(ActorMessageType) /\ Elements(Tail(inbox[c])) \subseteq Elements(inbox[c])
    BY <1>1, TakeElements
  <1>4. inbox' \in [Calls -> Seq(ActorMessageType)]
    BY <1>1, <1>3 DEF Dequeue
  <1> QED
    BY <1>2, <1>3, <1>4

LEMMA ManagerTypeStep ==
  ASSUME TypeInv, Manager
  PROVE  TypeInv'
  <1>1. CASE ManagerInitiate
    <2>1. Head(mbox) \in CommandType /\ mbox' \in Seq(ManagerMessage)
      BY <1>1, ManagerTakes, ManagerMessages DEF ManagerInitiate
    <2>2. cmd' \in CommandType \cup {None}
      BY <1>1, <2>1 DEF ManagerInitiate, TypeInv, ManagerType
    <2>3. out' \in [Gateways -> 0..MaxCmds]
      BY <1>1, <2>1, AnswerType DEF ManagerInitiate, TypeInv, GatewayType
    <2>4. UNCHANGED <<gw, registered, sent, busy, refs, actorVars, due, told, worldVars>>
      BY <1>1 DEF ManagerInitiate
    <2> QED
      BY <2>1, <2>2, <2>3, <2>4 DEF TypeInv, GatewayType, ManagerType, ActorType, WorldType, HeadInv, Born,
                                   actorVars, worldVars
  <1>2. CASE ManagerSpawn
    <2>1. cmd \in CommandType /\ cmd.op = "initiate"
      BY <1>2 DEF ManagerSpawn, TypeInv, ManagerType
    <2>a. PICK answer \in AskGateways(cmd.uid) :
            \E g \in FirstOf(answer), c \in {d \in Calls : ~Born(d)} :
              /\ call' = [call EXCEPT ![c] = NewCall(cmd.uid, cmd.to, g)]
              /\ loop' = [loop EXCEPT ![c] = "start"]
              /\ busy' = [busy EXCEPT ![cmd.uid] = c, ![cmd.to] = c]
              /\ refs' = refs \cup {c}
      BY <1>2 DEF ManagerSpawn
    <2>2. PICK g \in FirstOf(answer), c \in {d \in Calls : ~Born(d)} :
            /\ call' = [call EXCEPT ![c] = NewCall(cmd.uid, cmd.to, g)]
            /\ loop' = [loop EXCEPT ![c] = "start"]
            /\ busy' = [busy EXCEPT ![cmd.uid] = c, ![cmd.to] = c]
            /\ refs' = refs \cup {c}
      BY <2>a
    <2>3. NewCall(cmd.uid, cmd.to, g) \in CallType
      BY <2>1, NewCallType, NamedGateway, CommandFields
    <2>4. call' \in [Calls -> CallType \cup {None}] /\ loop' \in [Calls -> Lives]
      BY <2>2, <2>3 DEF TypeInv, ActorType, Lives
    <2>5. ASSUME NEW d \in Calls PROVE IF Born(d)' THEN call'[d] \in CallType ELSE call'[d] = None
      BY <2>2, <2>3 DEF TypeInv, ActorType, Born
    <2>h. HeadInv'
      BY <1>2, <2>2 DEF ManagerSpawn, TypeInv, ActorType, HeadInv
    <2>6. busy' \in [Users -> Calls \cup {None}] /\ refs' \subseteq Calls
      BY <2>2 DEF TypeInv, ManagerType
    <2>7. out' \in [Gateways -> 0..MaxCmds]
      BY <1>2, <2>1, AnswerType DEF ManagerSpawn, TypeInv
    <2>8. cmd' = None /\ UNCHANGED <<gw, registered, sent, mbox, inbox, timer, watch, due, told, worldVars>>
      BY <1>2 DEF ManagerSpawn
    <2> QED
      BY <2>4, <2>5, <2>6, <2>7, <2>8, <2>h DEF TypeInv, GatewayType, ManagerType, ActorType, WorldType,
                                             worldVars
  <1>3. CASE ManagerForward
    <2>1. /\ Head(mbox) \in CommandType /\ Head(mbox).op \in CallOps /\ mbox' \in Seq(ManagerMessage)
      BY <1>3, ManagerTakes, ManagerMessages DEF ManagerForward, CallOps
    <2>2. Head(mbox).call \in Calls /\ Head(mbox) \in ActorMessageType
      BY <2>1, CommandFields
    <2>3. inbox' \in [Calls -> Seq(ActorMessageType)] /\ HeadInv'
      <3>f. loop' = loop
        BY <1>3 DEF ManagerForward
      <3>1. CASE inbox' = inbox
        BY <3>f, <3>1 DEF TypeInv, ActorType, HeadInv
      <3>2. CASE inbox' = [inbox EXCEPT ![Head(mbox).call] = Append(@, Head(mbox))]
        <4>1. /\ inbox' \in [Calls -> Seq(ActorMessageType)]
              /\ \A d \in Calls : inbox[d] # <<>> => inbox'[d] # <<>> /\ Head(inbox'[d]) = Head(inbox[d])
          BY <2>2, <3>2, InboxAppend
        <4> QED
          BY <3>f, <4>1 DEF TypeInv, HeadInv
      <3> QED
        BY <1>3, <3>1, <3>2 DEF ManagerForward
    <2>4. cmd' \in CommandType \cup {None}
      BY <1>3, <2>1 DEF ManagerForward, TypeInv, ManagerType
    <2>5. out' \in [Gateways -> 0..MaxCmds]
      BY <1>3, <2>1, AnswerType DEF ManagerForward, TypeInv, GatewayType
    <2>6. UNCHANGED <<gw, registered, sent, busy, refs, call, loop, timer, watch, due, told, worldVars>>
      BY <1>3 DEF ManagerForward
    <2> QED
      BY <2>1, <2>3, <2>4, <2>5, <2>6 DEF TypeInv, GatewayType, ManagerType, ActorType, WorldType, HeadInv, Born,
                                         worldVars
  <1>4. CASE ManagerTimeout
    <2>1. cmd \in CommandType
      BY <1>4 DEF ManagerTimeout, TypeInv, ManagerType
    <2>2. out' \in [Gateways -> 0..MaxCmds]
      BY <1>4, <2>1, AnswerType DEF ManagerTimeout, TypeInv
    <2>3. cmd' = None /\ UNCHANGED <<gw, registered, sent, mbox, busy, refs, actorVars, due, told, worldVars>>
      BY <1>4 DEF ManagerTimeout
    <2> QED
      BY <2>2, <2>3 DEF TypeInv, GatewayType, ManagerType, ActorType, WorldType, HeadInv, Born, actorVars, worldVars
  <1>5. CASE ManagerTerminated
    <2>1. mbox' \in Seq(ManagerMessage)
      BY <1>5, ManagerTakes DEF ManagerTerminated
    <2>2. busy' \in [Users -> Calls \cup {None}] /\ refs' \subseteq Calls
      BY <1>5 DEF ManagerTerminated, FreeParties, TypeInv, ManagerType
    <2>3. UNCHANGED <<gatewayVars, cmd, actorVars, due, told, worldVars>>
      BY <1>5 DEF ManagerTerminated
    <2> QED
      BY <2>1, <2>2, <2>3 DEF TypeInv, GatewayType, ManagerType, ActorType, WorldType, HeadInv, Born,
                              gatewayVars, actorVars, worldVars
  <1> QED
    BY <1>1, <1>2, <1>3, <1>4, <1>5 DEF Manager

\* A call actor's handler is at work on c.
Acts(c) ==
  /\ Born(c)
  /\ call'[c] \in CallType
  /\ loop'[c] \in Lives \ {"unborn"}
  /\ call'[c].caller = call[c].caller /\ call'[c].callee = call[c].callee
  /\ \A d \in Calls \ {c} : call'[d] = call[d] /\ loop'[d] = loop[d]

\* What it writes of a call.
LEMMA WritesCall ==
  ASSUME TypeInv, NEW c \in Calls, Born(c),
         NEW s \in {"ringing", "connected", "ended"}, NEW r \in Reasons \cup {""},
         call' = [call EXCEPT ![c].status = s, ![c].reason = r]
  PROVE  /\ call' \in [Calls -> CallType \cup {None}] /\ call'[c] \in CallType
         /\ call'[c].status = s /\ call'[c].reason = r
         /\ call'[c].answered = call[c].answered
         /\ call'[c].caller = call[c].caller /\ call'[c].callee = call[c].callee
         /\ \A d \in Calls \ {c} : call'[d] = call[d]
  <1>1. call \in [Calls -> CallType \cup {None}] /\ call[c] \in CallType
    BY DEF TypeInv, ActorType
  <1>2. call'[c] = [call[c] EXCEPT !.status = s, !.reason = r] /\ \A d \in Calls \ {c} : call'[d] = call[d]
    BY <1>1
  <1>3. /\ call'[c] \in CallType /\ call'[c].status = s /\ call'[c].reason = r
        /\ call'[c].answered = call[c].answered
        /\ call'[c].caller = call[c].caller /\ call'[c].callee = call[c].callee
    BY <1>1, <1>2 DEF CallType
  <1>4. call' \in [Calls -> CallType \cup {None}]
    BY <1>1, <1>3
  <1> QED
    BY <1>2, <1>3, <1>4

\* Or of the gateways it holds.
LEMMA WritesGateways ==
  ASSUME TypeInv, NEW c \in Calls, Born(c), call' = [call EXCEPT ![c] = call'[c]],
         \/ \E g \in Gateways \cup {None} : call'[c] = [call[c] EXCEPT !.callerRef = g]
         \/ \E g \in Gateways \cup {None} : call'[c] = [call[c] EXCEPT !.calleeRef = g]
         \/ \E G \in SUBSET Gateways : call'[c] = [call[c] EXCEPT !.ringRefs = G]
  PROVE  /\ call' \in [Calls -> CallType \cup {None}] /\ call'[c] \in CallType
         /\ call'[c].status = call[c].status /\ call'[c].reason = call[c].reason
         /\ call'[c].answered = call[c].answered
         /\ call'[c].caller = call[c].caller /\ call'[c].callee = call[c].callee
         /\ \A d \in Calls \ {c} : call'[d] = call[d]
  <1>1. call \in [Calls -> CallType \cup {None}] /\ call[c] \in CallType
    BY DEF TypeInv, ActorType
  <1>2. \A d \in Calls \ {c} : call'[d] = call[d]
    BY <1>1
  <1>3. /\ call'[c] \in CallType /\ call'[c].status = call[c].status /\ call'[c].reason = call[c].reason
        /\ call'[c].answered = call[c].answered
        /\ call'[c].caller = call[c].caller /\ call'[c].callee = call[c].callee
    BY <1>1 DEF CallType
  <1>4. call' \in [Calls -> CallType \cup {None}]
    BY <1>1, <1>3
  <1> QED
    BY <1>2, <1>3, <1>4

\* Or that it is answered.
LEMMA WritesAnswer ==
  ASSUME TypeInv, NEW c \in Calls, Born(c), NEW g \in Gateways \cup {None},
         call' = [call EXCEPT ![c].status = "connected", ![c].answered = TRUE,
                              ![c].calleeGW = g, ![c].ringRefs = {}]
  PROVE  /\ call' \in [Calls -> CallType \cup {None}] /\ call'[c] \in CallType
         /\ call'[c].status = "connected" /\ call'[c].reason = call[c].reason
         /\ call'[c].answered = TRUE
         /\ call'[c].caller = call[c].caller /\ call'[c].callee = call[c].callee
         /\ \A d \in Calls \ {c} : call'[d] = call[d]
  <1>1. call \in [Calls -> CallType \cup {None}] /\ call[c] \in CallType
    BY DEF TypeInv, ActorType
  <1>2. /\ call'[c] = [call[c] EXCEPT !.status = "connected", !.answered = TRUE, !.calleeGW = g, !.ringRefs = {}]
        /\ \A d \in Calls \ {c} : call'[d] = call[d]
    BY <1>1
  <1>3. /\ call'[c] \in CallType /\ call'[c].status = "connected" /\ call'[c].reason = call[c].reason
        /\ call'[c].answered = TRUE
        /\ call'[c].caller = call[c].caller /\ call'[c].callee = call[c].callee
    BY <1>1, <1>2 DEF CallType
  <1>4. call' \in [Calls -> CallType \cup {None}]
    BY <1>1, <1>3
  <1> QED
    BY <1>2, <1>3, <1>4

-----------------------------------------------------------------------------
(* What a turn of a call actor does to its call. *)

\* Nothing that is told or stored.
Moves(c) ==
  /\ call'[c].status = call[c].status /\ call'[c].reason = call[c].reason
  /\ call'[c].answered = call[c].answered
  /\ events'[c] = events[c] /\ record'[c] = record[c]
  /\ \/ loop'[c] = loop[c]
     \/ loop[c] = "start" /\ loop'[c] = "ring"
     \/ loop[c] = "poison" /\ loop'[c] = "idle"
     \/ loop[c] = "stopping" /\ loop'[c] = "done"
  /\ HasPill(c)' => HasPill(c) \/ loop[c] = "poison"

SamePills(c) == HasPill(c)' => HasPill(c)

Rings(c) ==
  /\ loop[c] = "ring" /\ loop'[c] = "idle"
  /\ call'[c].status = call[c].status /\ call'[c].reason = call[c].reason
  /\ call'[c].answered = call[c].answered
  /\ events'[c] = events[c] \o <<"incoming", "calling">>
  /\ record'[c] = record[c]
  /\ SamePills(c)

IsAnswered(c) ==
  /\ loop[c] = "idle" /\ loop'[c] = "accept"
  /\ call[c].status = "ringing" /\ call'[c].status = "connected"
  /\ call'[c].reason = call[c].reason /\ call'[c].answered = TRUE
  /\ events'[c] = events[c] /\ record'[c] = record[c]
  /\ SamePills(c)

Announces(c) ==
  /\ loop[c] = "accept" /\ loop'[c] = "idle"
  /\ call'[c].status = call[c].status /\ call'[c].reason = call[c].reason
  /\ call'[c].answered = call[c].answered
  /\ events'[c] = events[c] \o <<"accepted", "answered_elsewhere">>
  /\ record'[c] = record[c]
  /\ SamePills(c)

\* The call ends, for a reason that is announced so.
EndsAs(c, r, e) == call'[c].reason = r /\ events'[c] = events[c] \o e

Ends(c) ==
  /\ loop[c] = "idle" /\ loop'[c] = "poison"
  /\ call[c].status # "ended" /\ call'[c].status = "ended"
  /\ call'[c].answered = call[c].answered
  /\ \/ call[c].status = "ringing" /\ EndsAs(c, "rejected", <<"rejected">>)
     \/ call[c].status = "ringing" /\ EndsAs(c, "cancelled", <<"cancelled">>)
     \/ call[c].status = "ringing" /\ EndsAs(c, "timeout", <<>>)
     \/ call[c].status = "ringing" /\ EndsAs(c, "disconnect", <<"cancelled">>)
     \/ call[c].status = "connected" /\ EndsAs(c, "disconnect", <<>>)
     \/ EndsAs(c, "hangup", <<>>)
  /\ record'[c] = record[c]
  /\ SamePills(c)

Stops(c) ==
  /\ loop[c] = "idle" /\ loop'[c] = "stopping" /\ HasPill(c)
  /\ call' = call
  /\ events'[c] = events[c] \o <<IF RecordOf(c).reason = "timeout" THEN "timeout" ELSE "ended">>
  /\ record'[c] \in {RecordOf(c), record[c]}
  /\ SamePills(c)

Turn(c) == Moves(c) \/ Rings(c) \/ IsAnswered(c) \/ Announces(c) \/ Ends(c) \/ Stops(c)

\* The calls of the other actors.
OthersStay(c) ==
  \A d \in Calls \ {c} : /\ events'[d] = events[d] /\ record'[d] = record[d]
                         /\ inbox'[d] = inbox[d]

\* The manager and the gateways, but for an answer that is waited for.
Around ==
  /\ UNCHANGED <<gw, registered, sent, mbox, busy, refs, due, told>>
  /\ UNCHANGED <<cmd, out>> \/ cmd' = None

CallsTyped == call \in [Calls -> CallType \cup {None}] /\ loop \in [Calls -> Lives]
              /\ inbox \in [Calls -> Seq(ActorMessageType)]

Effect(c) == Acts(c) /\ Turn(c) /\ OthersStay(c) /\ Around /\ CallsTyped'

\* Facts of an actor at work.
LEMMA AtWork ==
  ASSUME TypeInv, NEW c \in Calls, Born(c)
  PROVE  /\ call \in [Calls -> CallType \cup {None}] /\ call[c] \in CallType
         /\ loop \in [Calls -> Lives] /\ loop[c] \in Lives \ {"unborn"}
         /\ inbox \in [Calls -> Seq(ActorMessageType)]
         /\ events \in [Calls -> Seq(EventNames)] /\ record \in [Calls -> RecordType \cup {None}]
  BY DEF TypeInv, ActorType, WorldType, Born

LEMMA GoesTo ==
  ASSUME TypeInv, NEW c \in Calls, Born(c), NEW l \in Lives \ {"unborn"}, Goto(c, l)
  PROVE  /\ loop' \in [Calls -> Lives] /\ loop'[c] = l
         /\ \A d \in Calls \ {c} : loop'[d] = loop[d]
  BY AtWork DEF Goto

LEMMA Publishes ==
  ASSUME TypeInv, NEW c \in Calls, NEW e, Publish(c, e)
  PROVE  events'[c] = events[c] \o e /\ \A d \in Calls \ {c} : events'[d] = events[d]
  BY DEF Publish, TypeInv, WorldType

LEMMA ReplyAround ==
  ASSUME NEW m, Reply(m)
  PROVE  UNCHANGED <<cmd, out>> \/ cmd' = None
  BY DEF Reply

\* Fewer messages, no new pill.
LEMMA TakesPills ==
  ASSUME NEW c \in Calls, Elements(inbox'[c]) \subseteq Elements(inbox[c])
  PROVE  SamePills(c)
  BY DEF SamePills, HasPill

\* A handler has a message to take.
LEMMA TakesMessage ==
  ASSUME TypeInv, NEW c \in Calls, NEW op, Takes(c, op)
  PROVE  /\ Born(c) /\ loop[c] = "idle" /\ inbox[c] # <<>>
         /\ Head(inbox[c]) \in ActorMessageType /\ Head(inbox[c]) \in Elements(inbox[c])
  <1>1. inbox[c] \in Seq(ActorMessageType)
    BY DEF TypeInv, ActorType
  <1> QED
    BY <1>1, TakeElements DEF Takes, Born

LEMMA StartTurn ==
  ASSUME TypeInv, NEW c \in Calls, Start(c)
  PROVE  Effect(c)
  <1>1. loop[c] = "start" /\ Born(c) /\ UNCHANGED <<gatewayVars, managerVars, inbox, due, told, worldVars>>
    BY DEF Start, Born
  <1>2. loop' \in [Calls -> Lives] /\ loop'[c] = "ring" /\ \A d \in Calls \ {c} : loop'[d] = loop[d]
    BY <1>1, GoesTo DEF Start, Lives
  <1>3. PICK answer \in AskGateways(call[c].caller) :
          call' = [call EXCEPT ![c].callerRef = Lookup(call[c].callerGW, answer)]
    BY DEF Start
  <1>4. Lookup(call[c].callerGW, answer) \in Gateways \cup {None}
    BY <1>1, AtWork, NamedGateway DEF CallType
  <1>5. /\ call'[c] = [call[c] EXCEPT !.callerRef = Lookup(call[c].callerGW, answer)]
        /\ call' = [call EXCEPT ![c] = call'[c]]
    BY <1>1, <1>3, AtWork
  <1>6. /\ call' \in [Calls -> CallType \cup {None}] /\ call'[c] \in CallType
        /\ call'[c].status = call[c].status /\ call'[c].reason = call[c].reason
        /\ call'[c].answered = call[c].answered
        /\ call'[c].caller = call[c].caller /\ call'[c].callee = call[c].callee
        /\ \A d \in Calls \ {c} : call'[d] = call[d]
    BY <1>1, <1>4, <1>5, WritesGateways
  <1>7. Acts(c)
    BY <1>1, <1>2, <1>6 DEF Acts, Lives
  <1>8. Moves(c)
    BY <1>1, <1>2, <1>6 DEF Moves, HasPill, worldVars
  <1>9. OthersStay(c) /\ Around
    BY <1>1 DEF OthersStay, Around, gatewayVars, managerVars, worldVars
  <1> QED
    BY <1>1, <1>2, <1>6, <1>7, <1>8, <1>9, AtWork DEF Effect, Turn, CallsTyped

LEMMA RingTurn ==
  ASSUME TypeInv, NEW c \in Calls, Ring(c)
  PROVE  Effect(c)
  <1>1. loop[c] = "ring" /\ Born(c) /\ UNCHANGED <<gatewayVars, managerVars, inbox, timer, due, told, record>>
    BY DEF Ring, Born
  <1>2. loop' \in [Calls -> Lives] /\ loop'[c] = "idle" /\ \A d \in Calls \ {c} : loop'[d] = loop[d]
    BY <1>1, GoesTo DEF Ring, Lives
  <1>3. PICK answer \in AskGateways(call[c].callee) :
          call' = [call EXCEPT ![c].ringRefs = IF answer = NoAnswer THEN {} ELSE answer]
    BY DEF Ring
  <1>4. PICK G \in SUBSET Gateways : G = IF answer = NoAnswer THEN {} ELSE answer
    BY NamedGateway
  <1>5. call'[c] = [call[c] EXCEPT !.ringRefs = G] /\ call' = [call EXCEPT ![c] = call'[c]]
    BY <1>1, <1>3, <1>4, AtWork
  <1>6. /\ call' \in [Calls -> CallType \cup {None}] /\ call'[c] \in CallType
        /\ call'[c].status = call[c].status /\ call'[c].reason = call[c].reason
        /\ call'[c].answered = call[c].answered
        /\ call'[c].caller = call[c].caller /\ call'[c].callee = call[c].callee
        /\ \A d \in Calls \ {c} : call'[d] = call[d]
    BY <1>1, <1>5, WritesGateways
  <1>7. Acts(c)
    BY <1>1, <1>2, <1>6 DEF Acts, Lives
  <1>8. /\ events'[c] = events[c] \o <<"incoming", "calling">>
        /\ \A d \in Calls \ {c} : events'[d] = events[d]
    BY Publishes DEF Ring
  <1>9. Rings(c)
    BY <1>1, <1>2, <1>6, <1>8 DEF Rings, SamePills, HasPill
  <1>10. OthersStay(c) /\ Around
    BY <1>1, <1>8 DEF OthersStay, Around, gatewayVars, managerVars
  <1> QED
    BY <1>1, <1>2, <1>6, <1>7, <1>9, <1>10, AtWork DEF Effect, Turn, CallsTyped

\* A handler that refuses only takes its message.
LEMMA RefuseTurn ==
  ASSUME TypeInv, NEW c \in Calls, Born(c), inbox[c] # <<>>, Dequeue(c),
         UNCHANGED <<call, loop, events, record>>, Around
  PROVE  Effect(c)
  <1>1. /\ inbox' \in [Calls -> Seq(ActorMessageType)]
        /\ Elements(inbox'[c]) \subseteq Elements(inbox[c])
        /\ \A d \in Calls \ {c} : inbox'[d] = inbox[d]
    BY InboxTake
  <1>2. Acts(c)
    BY AtWork DEF Acts
  <1>3. Moves(c)
    BY <1>1, TakesPills DEF Moves, SamePills
  <1>4. OthersStay(c)
    BY <1>1 DEF OthersStay
  <1> QED
    BY <1>1, <1>2, <1>3, <1>4, AtWork DEF Effect, Turn, CallsTyped

LEMMA AcceptTurn ==
  ASSUME TypeInv, NEW c \in Calls, Accept(c)
  PROVE  Effect(c)
  <1> DEFINE m == Head(inbox[c])
  <1>1. Born(c) /\ loop[c] = "idle" /\ inbox[c] # <<>>
    BY TakesMessage DEF Accept
  <1>2. UNCHANGED <<events, record>> /\ UNCHANGED <<gw, registered, sent, mbox, busy, refs, due, told>>
    BY DEF Accept, ReplyFrame
  <1>3. CASE MayAccept(c, m)
    <2>1. PICK answer \in AskGateways(call[c].callee) : \E g \in FirstOf(answer) :
            call' = [call EXCEPT ![c].status = "connected", ![c].answered = TRUE,
                                 ![c].calleeGW = g, ![c].ringRefs = {}]
      BY <1>3 DEF Accept
    <2>2. PICK g \in FirstOf(answer) :
            call' = [call EXCEPT ![c].status = "connected", ![c].answered = TRUE,
                                 ![c].calleeGW = g, ![c].ringRefs = {}]
      BY <2>1
    <2>3. g \in Gateways \cup {None}
      BY NamedGateway
    <2>4. /\ call' \in [Calls -> CallType \cup {None}] /\ call'[c] \in CallType
          /\ call'[c].status = "connected" /\ call'[c].reason = call[c].reason
          /\ call'[c].answered = TRUE
          /\ call'[c].caller = call[c].caller /\ call'[c].callee = call[c].callee
          /\ \A d \in Calls \ {c} : call'[d] = call[d]
      BY <1>1, <2>2, <2>3, WritesAnswer
    <2>5. Goto(c, "accept") /\ UNCHANGED <<inbox, cmd, out>> /\ call[c].status = "ringing"
      BY <1>3 DEF Accept, MayAccept
    <2>6. /\ loop' \in [Calls -> Lives] /\ loop'[c] = "accept"
          /\ \A d \in Calls \ {c} : loop'[d] = loop[d]
      BY <1>1, <2>5, GoesTo DEF Lives
    <2>7. Acts(c)
      BY <1>1, <2>4, <2>6 DEF Acts, Lives
    <2>8. IsAnswered(c)
      BY <1>1, <1>2, <2>4, <2>5, <2>6 DEF IsAnswered, SamePills, HasPill
    <2>9. OthersStay(c) /\ Around
      BY <1>2, <2>5 DEF OthersStay, Around
    <2> QED
      BY <1>1, <2>4, <2>5, <2>6, <2>7, <2>8, <2>9, AtWork DEF Effect, Turn, CallsTyped
  <1>4. CASE ~MayAccept(c, m)
    <2>1. Dequeue(c) /\ Reply(m) /\ UNCHANGED <<call, loop>>
      BY <1>4 DEF Accept
    <2>2. Around
      BY <1>2, <2>1, ReplyAround DEF Around
    <2> QED
      BY <1>1, <1>2, <2>1, <2>2, RefuseTurn
  <1> QED
    BY <1>3, <1>4

LEMMA AcceptDoneTurn ==
  ASSUME TypeInv, NEW c \in Calls, AcceptDone(c)
  PROVE  Effect(c)
  <1>1. /\ loop[c] = "accept" /\ Born(c) /\ Dequeue(c) /\ Reply(Head(inbox[c])) /\ UNCHANGED record
        /\ UNCHANGED <<gw, registered, sent, mbox, busy, refs, due, told>>
    BY DEF AcceptDone, ReplyFrame, Born
  <1>2. loop' \in [Calls -> Lives] /\ loop'[c] = "idle" /\ \A d \in Calls \ {c} : loop'[d] = loop[d]
    BY <1>1, GoesTo DEF AcceptDone, Lives
  <1>3. PICK answer \in AskGateways(call[c].callee) :
          call' = [call EXCEPT ![c].calleeRef = Lookup(call[c].calleeGW, answer)]
    BY DEF AcceptDone
  <1>4. Lookup(call[c].calleeGW, answer) \in Gateways \cup {None}
    BY <1>1, AtWork, NamedGateway DEF CallType
  <1>5. /\ call'[c] = [call[c] EXCEPT !.calleeRef = Lookup(call[c].calleeGW, answer)]
        /\ call' = [call EXCEPT ![c] = call'[c]]
    BY <1>1, <1>3, AtWork
  <1>6. /\ call' \in [Calls -> CallType \cup {None}] /\ call'[c] \in CallType
        /\ call'[c].status = call[c].status /\ call'[c].reason = call[c].reason
        /\ call'[c].answered = call[c].answered
        /\ call'[c].caller = call[c].caller /\ call'[c].callee = call[c].callee
        /\ \A d \in Calls \ {c} : call'[d] = call[d]
    BY <1>1, <1>4, <1>5, WritesGateways
  <1>7. Acts(c)
    BY <1>1, <1>2, <1>6 DEF Acts, Lives
  <1>8. /\ events'[c] = events[c] \o <<"accepted", "answered_elsewhere">>
        /\ \A d \in Calls \ {c} : events'[d] = events[d]
    BY Publishes DEF AcceptDone
  <1>9. inbox[c] # <<>>
    BY <1>1 DEF TypeInv, HeadInv
  <1>10. /\ inbox' \in [Calls -> Seq(ActorMessageType)]
         /\ SamePills(c)
         /\ \A d \in Calls \ {c} : inbox'[d] = inbox[d]
    BY <1>1, <1>9, InboxTake, TakesPills
  <1>11. Announces(c)
    BY <1>1, <1>2, <1>6, <1>8, <1>10 DEF Announces
  <1>12. OthersStay(c) /\ Around
    BY <1>1, <1>8, <1>10, ReplyAround DEF OthersStay, Around
  <1> QED
    BY <1>1, <1>2, <1>6, <1>7, <1>10, <1>11, <1>12, AtWork DEF Effect, Turn, CallsTyped

\* A handler that ends the call.
LEMMA EndTurn ==
  ASSUME TypeInv, NEW c \in Calls, Born(c), loop[c] = "idle", inbox[c] # <<>>, Dequeue(c),
         Goto(c, "poison"), UNCHANGED record, Around, NEW r \in Reasons, NEW e, Publish(c, e),
         call' = [call EXCEPT ![c].status = "ended", ![c].reason = r],
         call[c].status # "ended",
         \/ r = "rejected" /\ e = <<"rejected">> /\ call[c].status = "ringing"
         \/ r = "cancelled" /\ e = <<"cancelled">> /\ call[c].status = "ringing"
         \/ r = "timeout" /\ e = <<>> /\ call[c].status = "ringing"
         \/ r = "disconnect" /\ e = <<"cancelled">> /\ call[c].status = "ringing"
         \/ r = "disconnect" /\ e = <<>> /\ call[c].status = "connected"
         \/ r = "hangup" /\ e = <<>>
  PROVE  Effect(c)
  <1>1. /\ inbox' \in [Calls -> Seq(ActorMessageType)]
        /\ SamePills(c)
        /\ \A d \in Calls \ {c} : inbox'[d] = inbox[d]
    BY InboxTake, TakesPills
  <1>2. loop' \in [Calls -> Lives] /\ loop'[c] = "poison" /\ \A d \in Calls \ {c} : loop'[d] = loop[d]
    BY GoesTo DEF Lives
  <1>3. /\ call' \in [Calls -> CallType \cup {None}] /\ call'[c] \in CallType
        /\ call'[c].status = "ended" /\ call'[c].reason = r
        /\ call'[c].answered = call[c].answered
        /\ call'[c].caller = call[c].caller /\ call'[c].callee = call[c].callee
        /\ \A d \in Calls \ {c} : call'[d] = call[d]
    BY WritesCall
  <1>4. events'[c] = events[c] \o e /\ \A d \in Calls \ {c} : events'[d] = events[d]
    BY Publishes
  <1>5. Acts(c)
    BY <1>2, <1>3 DEF Acts, Lives
  <1>6. Ends(c)
    BY <1>1, <1>2, <1>3, <1>4 DEF Ends, EndsAs
  <1>7. OthersStay(c)
    BY <1>1, <1>4 DEF OthersStay
  <1> QED
    BY <1>1, <1>2, <1>3, <1>5, <1>6, <1>7 DEF Effect, Turn, CallsTyped

LEMMA CloseTurn ==
  ASSUME TypeInv, NEW c \in Calls, CloseCall(c)
  PROVE  Effect(c)
  <1> DEFINE m == Head(inbox[c])
  <1>1. PICK op \in {"reject", "cancel", "end"} :
          /\ Takes(c, op)
          /\ IF MayClose(c, m)
             THEN /\ call' = [call EXCEPT ![c].status = "ended", ![c].reason = CloseReason[op]]
                  /\ Publish(c, CloseEvents[op])
                  /\ Goto(c, "poison")
             ELSE UNCHANGED <<call, events, loop>>
    BY DEF CloseCall
  <1>2. /\ Born(c) /\ loop[c] = "idle" /\ inbox[c] # <<>> /\ m.op = op
    BY <1>1, TakesMessage DEF Takes
  <1>3. Dequeue(c) /\ UNCHANGED record /\ Around
    BY ReplyAround DEF CloseCall, ReplyFrame, Around
  <1>4. CASE MayClose(c, m)
    <2>1. /\ call[c].status # "ended"
          /\ op = "reject" \/ op = "cancel" => call[c].status = "ringing"
      BY <1>2, <1>4 DEF MayClose
    <2>2. CASE op = "reject"
      <3>1. CloseReason[op] = "rejected" /\ CloseEvents[op] = <<"rejected">>
        BY <2>2 DEF CloseReason, CloseEvents
      <3> QED
        BY <1>1, <1>2, <1>3, <1>4, <2>1, <2>2, <3>1, EndTurn DEF Reasons
    <2>3. CASE op = "cancel"
      <3>1. CloseReason[op] = "cancelled" /\ CloseEvents[op] = <<"cancelled">>
        BY <2>3 DEF CloseReason, CloseEvents
      <3> QED
        BY <1>1, <1>2, <1>3, <1>4, <2>1, <2>3, <3>1, EndTurn DEF Reasons
    <2>4. CASE op = "end"
      <3>1. CloseReason[op] = "hangup" /\ CloseEvents[op] = <<>>
        BY <2>4 DEF CloseReason, CloseEvents
      <3> QED
        BY <1>1, <1>2, <1>3, <1>4, <2>1, <2>4, <3>1, EndTurn DEF Reasons
    <2> QED
      BY <2>2, <2>3, <2>4
  <1>5. CASE ~MayClose(c, m)
    BY <1>1, <1>2, <1>3, <1>5, RefuseTurn
  <1> QED
    BY <1>4, <1>5

LEMMA PoisonTurn ==
  ASSUME TypeInv, NEW c \in Calls, Poison(c)
  PROVE  Effect(c)
  <1>1. loop[c] = "poison" /\ Born(c)
        /\ UNCHANGED <<gatewayVars, managerVars, call, timer, watch, due, told, worldVars>>
    BY DEF Poison, Born
  <1>2. loop' \in [Calls -> Lives] /\ loop'[c] = "idle" /\ \A d \in Calls \ {c} : loop'[d] = loop[d]
    BY <1>1, GoesTo DEF Poison, Lives
  <1>3. [op |-> "pill"] \in ActorMessageType
    BY DEF ActorMessageType
  <1>4. inbox' \in [Calls -> Seq(ActorMessageType)] /\ \A d \in Calls \ {c} : inbox'[d] = inbox[d]
    BY <1>3, InboxAppend DEF Poison
  <1>5. Acts(c)
    BY <1>1, <1>2, AtWork DEF Acts, Lives
  <1>6. Moves(c)
    BY <1>1, <1>2 DEF Moves, worldVars
  <1>7. OthersStay(c) /\ Around
    BY <1>1, <1>4 DEF OthersStay, Around, gatewayVars, managerVars, worldVars
  <1> QED
    BY <1>1, <1>2, <1>4, <1>5, <1>6, <1>7, AtWork DEF Effect, Turn, CallsTyped

LEMMA TimeoutTurn ==
  ASSUME TypeInv, NEW c \in Calls, Timeout(c)
  PROVE  Effect(c)
  <1>1. Born(c) /\ loop[c] = "idle" /\ inbox[c] # <<>>
    BY TakesMessage DEF Timeout
  <1>2. Dequeue(c) /\ UNCHANGED <<events, record>> /\ Around
    BY DEF Timeout, Around, gatewayVars, managerVars, worldVars
  <1>3. CASE TimesOut(c)
    <2>1. /\ call' = [call EXCEPT ![c].status = "ended", ![c].reason = "timeout"]
          /\ Goto(c, "poison") /\ call[c].status = "ringing"
      BY <1>3 DEF Timeout, TimesOut
    <2>2. Publish(c, <<>>)
      <3>1. events \in [Calls -> Seq(EventNames)] /\ events[c] \in Seq(EventNames)
        BY <1>1, AtWork
      <3>2. events[c] \o <<>> = events[c]
        BY <3>1
      <3> QED
        BY <1>2, <3>1, <3>2 DEF Publish
    <2> QED
      BY <1>1, <1>2, <2>1, <2>2, EndTurn DEF Reasons
  <1>4. CASE ~TimesOut(c)
    BY <1>1, <1>2, <1>4, RefuseTurn DEF Timeout
  <1> QED
    BY <1>3, <1>4

LEMMA TerminatedTurn ==
  ASSUME TypeInv, NEW c \in Calls, Terminated(c)
  PROVE  Effect(c)
  <1>1. Born(c) /\ loop[c] = "idle" /\ inbox[c] # <<>>
    BY TakesMessage DEF Terminated
  <1>2. Dequeue(c) /\ UNCHANGED record /\ Around
    BY DEF Terminated, Around, gatewayVars, managerVars
  <1>3. PICK answer \in AskGateways(call[c].callee) :
          IF LosesCall(c, Head(inbox[c]).gateway, answer)
          THEN /\ call' = [call EXCEPT ![c].status = "ended", ![c].reason = "disconnect"]
               /\ Publish(c, IF call[c].status = "ringing" THEN <<"cancelled">> ELSE <<>>)
               /\ Goto(c, "poison")
          ELSE UNCHANGED <<call, events, loop>>
    BY DEF Terminated
  <1>4. CASE LosesCall(c, Head(inbox[c]).gateway, answer)
    <2>1. call[c].status \in {"ringing", "connected"}
      BY <1>4 DEF LosesCall
    <2>2. CASE call[c].status = "ringing"
      <3>1. Publish(c, <<"cancelled">>)
        BY <1>3, <1>4, <2>2
      <3> QED
        BY <1>1, <1>2, <1>3, <1>4, <2>2, <3>1, EndTurn DEF Reasons
    <2>3. CASE call[c].status = "connected"
      <3>1. Publish(c, <<>>)
        BY <1>3, <1>4, <2>3
      <3> QED
        BY <1>1, <1>2, <1>3, <1>4, <2>3, <3>1, EndTurn DEF Reasons
    <2> QED
      BY <2>1, <2>2, <2>3
  <1>5. CASE ~LosesCall(c, Head(inbox[c]).gateway, answer)
    BY <1>1, <1>2, <1>3, <1>5, RefuseTurn
  <1> QED
    BY <1>4, <1>5

LEMMA StopTurn ==
  ASSUME TypeInv, NEW c \in Calls, Stop(c)
  PROVE  Effect(c)
  <1>1. Born(c) /\ loop[c] = "idle" /\ inbox[c] # <<>> /\ HasPill(c)
    BY TakesMessage DEF Stop, Takes, HasPill
  <1>2. Dequeue(c) /\ call' = call /\ Around
    BY DEF Stop, Around, gatewayVars, managerVars
  <1>3. /\ inbox' \in [Calls -> Seq(ActorMessageType)]
        /\ SamePills(c)
        /\ \A d \in Calls \ {c} : inbox'[d] = inbox[d]
    BY <1>1, <1>2, InboxTake, TakesPills
  <1>4. loop' \in [Calls -> Lives] /\ loop'[c] = "stopping" /\ \A d \in Calls \ {c} : loop'[d] = loop[d]
    BY <1>1, GoesTo DEF Stop, Lives
  <1>5. record'[c] \in {RecordOf(c), record[c]} /\ \A d \in Calls \ {c} : record'[d] = record[d]
    BY <1>1, AtWork DEF Stop
  <1>6. /\ events'[c] = events[c] \o (IF RecordOf(c).reason = "timeout" THEN <<"timeout">> ELSE <<"ended">>)
        /\ \A d \in Calls \ {c} : events'[d] = events[d]
    BY Publishes DEF Stop
  <1>7. events'[c] = events[c] \o <<IF RecordOf(c).reason = "timeout" THEN "timeout" ELSE "ended">>
    BY <1>6
  <1>8. Acts(c)
    BY <1>1, <1>2, <1>4, AtWork DEF Acts, Lives
  <1>9. Stops(c)
    BY <1>1, <1>2, <1>3, <1>4, <1>5, <1>7 DEF Stops
  <1>10. OthersStay(c)
    BY <1>3, <1>5, <1>6 DEF OthersStay
  <1> QED
    BY <1>1, <1>2, <1>3, <1>4, <1>8, <1>9, <1>10, AtWork DEF Effect, Turn, CallsTyped

LEMMA FinishTurn ==
  ASSUME TypeInv, NEW c \in Calls, Finish(c)
  PROVE  Effect(c)
  <1>1. loop[c] = "stopping" /\ Born(c) /\ inbox' = [inbox EXCEPT ![c] = <<>>]
        /\ UNCHANGED <<gatewayVars, managerVars, call, timer, due, told, worldVars>>
    BY DEF Finish, Born
  <1>2. loop' \in [Calls -> Lives] /\ loop'[c] = "done" /\ \A d \in Calls \ {c} : loop'[d] = loop[d]
    BY <1>1, GoesTo DEF Finish, Lives
  <1>3. /\ inbox' \in [Calls -> Seq(ActorMessageType)] /\ inbox'[c] = <<>>
        /\ \A d \in Calls \ {c} : inbox'[d] = inbox[d]
    BY <1>1, AtWork
  <1>4. SamePills(c)
    BY <1>3 DEF SamePills, HasPill, Elements
  <1>5. Acts(c)
    BY <1>1, <1>2, AtWork DEF Acts, Lives
  <1>6. Moves(c)
    BY <1>1, <1>2, <1>4 DEF Moves, SamePills, worldVars
  <1>7. OthersStay(c) /\ Around
    BY <1>1, <1>3 DEF OthersStay, Around, gatewayVars, managerVars, worldVars
  <1> QED
    BY <1>1, <1>2, <1>3, <1>5, <1>6, <1>7, AtWork DEF Effect, Turn, CallsTyped

LEMMA CallActorTurn ==
  ASSUME TypeInv, NEW c \in Calls, CallActor(c)
  PROVE  Effect(c)
  BY StartTurn, RingTurn, AcceptTurn, AcceptDoneTurn, CloseTurn, PoisonTurn, TimeoutTurn, TerminatedTurn,
     StopTurn, FinishTurn DEF CallActor


-----------------------------------------------------------------------------
(* The types of what else a turn writes. *)
RestTyped ==
  /\ timer \in [Calls -> {"off", "armed"}]
  /\ watch \in [Calls -> SUBSET Gateways]
  /\ events \in [Calls -> Seq(EventNames)]
  /\ record \in [Calls -> RecordType \cup {None}]
  /\ out \in [Gateways -> 0..MaxCmds]
  /\ cmd \in CommandType \cup {None}

Headed(c) == loop[c] = "accept" => inbox[c] # <<>> /\ Head(inbox[c]) \in CommandType

LEMMA RestHolds ==
  ASSUME TypeInv
  PROVE  RestTyped
  BY DEF TypeInv, RestTyped, GatewayType, ManagerType, ActorType, WorldType

LEMMA PublishType ==
  ASSUME TypeInv, NEW c \in Calls, NEW e \in Seq(EventNames), Publish(c, e)
  PROVE  events' \in [Calls -> Seq(EventNames)]
  <1>1. events \in [Calls -> Seq(EventNames)] /\ events[c] \in Seq(EventNames)
    BY DEF TypeInv, WorldType
  <1>2. events[c] \o e \in Seq(EventNames)
    BY <1>1
  <1> QED
    BY <1>1, <1>2 DEF Publish

LEMMA ReplyType ==
  ASSUME TypeInv, NEW m \in CommandType, Reply(m)
  PROVE  out' \in [Gateways -> 0..MaxCmds] /\ cmd' \in CommandType \cup {None}
  <1>1. CASE Answer(m) /\ cmd' = None
    BY <1>1, AnswerType DEF TypeInv
  <1>2. CASE UNCHANGED <<cmd, out>>
    BY <1>2 DEF TypeInv, GatewayType, ManagerType
  <1> QED
    BY <1>1, <1>2 DEF Reply

\* A call actor answers commands only.
LEMMA RepliesToCommand ==
  ASSUME TypeInv, NEW c \in Calls, NEW op \in CallOps, Takes(c, op)
  PROVE  Head(inbox[c]) \in CommandType
  <1>1. Head(inbox[c]) \in ActorMessageType /\ Head(inbox[c]).op \in CallOps
    BY TakesMessage DEF Takes
  <1> QED
    BY <1>1 DEF ActorMessageType, CommandType, CallOps

LEMMA WatchType ==
  ASSUME TypeInv, NEW c \in Calls, NEW G \in SUBSET Gateways,
         watch' = [watch EXCEPT ![c] = G]
  PROVE  watch' \in [Calls -> SUBSET Gateways]
  BY DEF TypeInv, ActorType

LEMMA RecordOfType ==
  ASSUME TypeInv, NEW c \in Calls, Born(c)
  PROVE  RecordOf(c) \in RecordType
  <1>1. call[c] \in CallType
    BY AtWork
  <1>2. call[c].reason \in Reasons \cup {""}
    BY <1>1 DEF CallType
  <1> QED
    BY <1>2 DEF RecordOf, RecordType, Reasons

LEMMA StartRest ==
  ASSUME TypeInv, NEW c \in Calls, Start(c)
  PROVE  RestTyped' /\ Headed(c)'
  <1>1. PICK answer \in AskGateways(call[c].caller) :
          watch' = [watch EXCEPT ![c] = @ \cup ({Lookup(call[c].callerGW, answer)} \ {None})]
    BY DEF Start
  <1>2. Born(c) /\ Goto(c, "ring") /\ timer' = [timer EXCEPT ![c] = "armed"]
    BY DEF Start, Born
  <1>3. Lookup(call[c].callerGW, answer) \in Gateways \cup {None}
    BY <1>2, AtWork, NamedGateway DEF CallType
  <1>4. watch[c] \cup ({Lookup(call[c].callerGW, answer)} \ {None}) \in SUBSET Gateways
    BY <1>3 DEF TypeInv, ActorType
  <1>5. watch' \in [Calls -> SUBSET Gateways]
    BY <1>1, <1>4, WatchType
  <1>6. loop'[c] = "ring"
    BY <1>2, GoesTo DEF Lives
  <1>7. UNCHANGED <<out, cmd, events, record>>
    BY DEF Start, gatewayVars, managerVars, worldVars
  <1>8. timer' \in [Calls -> {"off", "armed"}]
    BY <1>2, RestHolds DEF RestTyped
  <1> QED
    BY <1>5, <1>6, <1>7, <1>8, RestHolds DEF RestTyped, Headed

LEMMA RingRest ==
  ASSUME TypeInv, NEW c \in Calls, Ring(c)
  PROVE  RestTyped' /\ Headed(c)'
  <1>1. PICK answer \in AskGateways(call[c].callee) :
          watch' = [watch EXCEPT ![c] = @ \cup (IF answer = NoAnswer THEN {} ELSE answer)]
    BY DEF Ring
  <1>2. Born(c) /\ Goto(c, "idle") /\ Publish(c, <<"incoming", "calling">>)
    BY DEF Ring, Born
  <1>3. watch[c] \cup (IF answer = NoAnswer THEN {} ELSE answer) \in SUBSET Gateways
    BY NamedGateway DEF TypeInv, ActorType
  <1>4. watch' \in [Calls -> SUBSET Gateways]
    BY <1>1, <1>3, WatchType
  <1>5. loop'[c] = "idle"
    BY <1>2, GoesTo DEF Lives
  <1>6. events' \in [Calls -> Seq(EventNames)]
    <2>1. <<"incoming", "calling">> \in Seq(EventNames)
      BY DEF EventNames
    <2> QED
      BY <1>2, <2>1, PublishType
  <1>7. UNCHANGED <<out, cmd, timer, record>>
    BY DEF Ring, gatewayVars, managerVars
  <1> QED
    BY <1>4, <1>5, <1>6, <1>7, RestHolds DEF RestTyped, Headed

LEMMA AcceptRest ==
  ASSUME TypeInv, NEW c \in Calls, Accept(c)
  PROVE  RestTyped' /\ Headed(c)'
  <1>1. Takes(c, "accept") /\ UNCHANGED <<timer, events, record>>
    BY DEF Accept, ReplyFrame
  <1>2. Head(inbox[c]) \in CommandType /\ inbox[c] # <<>> /\ loop[c] = "idle"
    BY <1>1, RepliesToCommand DEF Takes, CallOps
  <1>3. CASE MayAccept(c, Head(inbox[c]))
    <2>1. UNCHANGED <<inbox, cmd, out>> /\ watch' = [watch EXCEPT ![c] = @ \ call[c].ringRefs]
      BY <1>3 DEF Accept
    <2>2. watch[c] \ call[c].ringRefs \in SUBSET Gateways
      BY DEF TypeInv, ActorType
    <2>3. watch' \in [Calls -> SUBSET Gateways]
      BY <2>1, <2>2, WatchType
    <2> QED
      BY <1>1, <1>2, <2>1, <2>3, RestHolds DEF RestTyped, Headed
  <1>4. CASE ~MayAccept(c, Head(inbox[c]))
    <2>1. Reply(Head(inbox[c])) /\ UNCHANGED <<watch, loop>>
      BY <1>4 DEF Accept
    <2>2. out' \in [Gateways -> 0..MaxCmds] /\ cmd' \in CommandType \cup {None}
      BY <1>2, <2>1, ReplyType
    <2>3. loop'[c] # "accept"
      BY <1>2, <2>1
    <2> QED
      BY <1>1, <2>1, <2>2, <2>3, RestHolds DEF RestTyped, Headed
  <1> QED
    BY <1>3, <1>4

LEMMA AcceptDoneRest ==
  ASSUME TypeInv, NEW c \in Calls, AcceptDone(c)
  PROVE  RestTyped' /\ Headed(c)'
  <1>1. /\ loop[c] = "accept" /\ Born(c) /\ Reply(Head(inbox[c])) /\ UNCHANGED record
        /\ timer' = [timer EXCEPT ![c] = "off"] /\ Goto(c, "idle")
        /\ Publish(c, <<"accepted", "answered_elsewhere">>)
    BY DEF AcceptDone, ReplyFrame, Born
  <1>2. PICK answer \in AskGateways(call[c].callee) :
          watch' = [watch EXCEPT ![c] = @ \cup ({Lookup(call[c].calleeGW, answer)} \ {None})]
    BY DEF AcceptDone
  <1>3. Lookup(call[c].calleeGW, answer) \in Gateways \cup {None}
    BY <1>1, AtWork, NamedGateway DEF CallType
  <1>4. watch[c] \cup ({Lookup(call[c].calleeGW, answer)} \ {None}) \in SUBSET Gateways
    BY <1>3 DEF TypeInv, ActorType
  <1>5. watch' \in [Calls -> SUBSET Gateways]
    BY <1>2, <1>4, WatchType
  <1>6. Head(inbox[c]) \in CommandType
    BY <1>1 DEF TypeInv, HeadInv
  <1>7. out' \in [Gateways -> 0..MaxCmds] /\ cmd' \in CommandType \cup {None}
    BY <1>1, <1>6, ReplyType
  <1>8. events' \in [Calls -> Seq(EventNames)]
    <2>1. <<"accepted", "answered_elsewhere">> \in Seq(EventNames)
      BY DEF EventNames
    <2> QED
      BY <1>1, <2>1, PublishType
  <1>9. loop'[c] = "idle"
    BY <1>1, GoesTo DEF Lives
  <1>10. timer' \in [Calls -> {"off", "armed"}]
    BY <1>1, RestHolds DEF RestTyped
  <1> QED
    BY <1>1, <1>5, <1>7, <1>8, <1>9, <1>10, RestHolds DEF RestTyped, Headed

LEMMA CloseRest ==
  ASSUME TypeInv, NEW c \in Calls, CloseCall(c)
  PROVE  RestTyped' /\ Headed(c)'
  <1>1. PICK op \in {"reject", "cancel", "end"} :
          /\ Takes(c, op)
          /\ \/ Publish(c, CloseEvents[op]) /\ Goto(c, "poison")
             \/ UNCHANGED <<events, loop>>
    BY DEF CloseCall
  <1>2. Head(inbox[c]) \in CommandType /\ loop[c] = "idle" /\ Born(c)
    BY <1>1, RepliesToCommand, TakesMessage DEF CallOps
  <1>3. UNCHANGED <<timer, watch, record>> /\ Reply(Head(inbox[c]))
    BY DEF CloseCall, ReplyFrame
  <1>4. out' \in [Gateways -> 0..MaxCmds] /\ cmd' \in CommandType \cup {None}
    BY <1>2, <1>3, ReplyType
  <1>5. events' \in [Calls -> Seq(EventNames)]
    <2>1. CASE op = "reject"
      <3>1. CloseEvents[op] = <<"rejected">> /\ <<"rejected">> \in Seq(EventNames)
        BY <2>1 DEF CloseEvents, EventNames
      <3> QED
        BY <1>1, <3>1, PublishType, RestHolds DEF RestTyped
    <2>2. CASE op = "cancel"
      <3>1. CloseEvents[op] = <<"cancelled">> /\ <<"cancelled">> \in Seq(EventNames)
        BY <2>2 DEF CloseEvents, EventNames
      <3> QED
        BY <1>1, <3>1, PublishType, RestHolds DEF RestTyped
    <2>3. CASE op = "end"
      <3>1. CloseEvents[op] = <<>> /\ <<>> \in Seq(EventNames)
        BY <2>3 DEF CloseEvents, EventNames
      <3> QED
        BY <1>1, <3>1, PublishType, RestHolds DEF RestTyped
    <2> QED
      BY <2>1, <2>2, <2>3
  <1>6. loop'[c] # "accept"
    BY <1>1, <1>2, GoesTo DEF Lives
  <1> QED
    BY <1>3, <1>4, <1>5, <1>6, RestHolds DEF RestTyped, Headed

LEMMA TerminatedRest ==
  ASSUME TypeInv, NEW c \in Calls, Terminated(c)
  PROVE  RestTyped' /\ Headed(c)'
  <1>1. \/ Publish(c, <<"cancelled">>) /\ Goto(c, "poison")
        \/ Publish(c, <<>>) /\ Goto(c, "poison")
        \/ UNCHANGED <<events, loop>>
    BY DEF Terminated
  <1>2. loop[c] = "idle" /\ Born(c)
    BY TakesMessage DEF Terminated
  <1>3. UNCHANGED <<timer, watch, record, out, cmd>>
    BY DEF Terminated, gatewayVars, managerVars
  <1>4. events' \in [Calls -> Seq(EventNames)]
    <2>1. <<"cancelled">> \in Seq(EventNames) /\ <<>> \in Seq(EventNames)
      BY DEF EventNames
    <2> QED
      BY <1>1, <2>1, PublishType, RestHolds DEF RestTyped
  <1>5. loop'[c] # "accept"
    BY <1>1, <1>2, GoesTo DEF Lives
  <1> QED
    BY <1>3, <1>4, <1>5, RestHolds DEF RestTyped, Headed

LEMMA StopRest ==
  ASSUME TypeInv, NEW c \in Calls, Stop(c)
  PROVE  RestTyped' /\ Headed(c)'
  <1>1. loop[c] = "idle" /\ Born(c)
    BY TakesMessage DEF Stop
  <1>2. /\ timer' = [timer EXCEPT ![c] = "off"] /\ UNCHANGED <<watch, out, cmd>> /\ Goto(c, "stopping")
        /\ Publish(c, IF RecordOf(c).reason = "timeout" THEN <<"timeout">> ELSE <<"ended">>)
    BY DEF Stop, gatewayVars, managerVars
  <1>3. record' \in [Calls -> RecordType \cup {None}]
    BY <1>1, RecordOfType, RestHolds DEF Stop, RestTyped
  <1>4. events' \in [Calls -> Seq(EventNames)]
    <2>1. <<"timeout">> \in Seq(EventNames) /\ <<"ended">> \in Seq(EventNames)
      BY DEF EventNames
    <2> QED
      BY <1>2, <2>1, PublishType
  <1>5. loop'[c] # "accept"
    BY <1>1, <1>2, GoesTo DEF Lives
  <1>6. timer' \in [Calls -> {"off", "armed"}]
    BY <1>2, RestHolds DEF RestTyped
  <1> QED
    BY <1>2, <1>3, <1>4, <1>5, <1>6, RestHolds DEF RestTyped, Headed

LEMMA CallActorRest ==
  ASSUME TypeInv, NEW c \in Calls, CallActor(c)
  PROVE  RestTyped' /\ Headed(c)'
  <1>1. CASE Poison(c)
    <2>1. Born(c) /\ Goto(c, "idle") /\ UNCHANGED <<timer, watch, events, record, out, cmd>>
      BY <1>1 DEF Poison, Born, gatewayVars, managerVars, worldVars
    <2> QED
      BY <2>1, GoesTo, RestHolds DEF RestTyped, Headed, Lives
  <1>2. CASE Timeout(c)
    <2>1. /\ Born(c) /\ loop[c] = "idle"
          /\ UNCHANGED <<timer, watch, events, record, out, cmd>>
          /\ Goto(c, "poison") \/ UNCHANGED loop
      BY <1>2, TakesMessage DEF Timeout, gatewayVars, managerVars, worldVars
    <2>2. loop'[c] # "accept"
      BY <2>1, GoesTo DEF Lives
    <2> QED
      BY <2>1, <2>2, RestHolds DEF RestTyped, Headed
  <1>3. CASE Finish(c)
    <2>1. /\ Born(c) /\ Goto(c, "done") /\ watch' = [watch EXCEPT ![c] = {}]
          /\ UNCHANGED <<timer, events, record, out, cmd>>
      BY <1>3 DEF Finish, Born, gatewayVars, managerVars, worldVars
    <2>2. watch' \in [Calls -> SUBSET Gateways]
      BY <2>1, WatchType
    <2>3. loop'[c] # "accept"
      BY <2>1, GoesTo DEF Lives
    <2> QED
      BY <2>1, <2>2, <2>3, RestHolds DEF RestTyped, Headed
  <1> QED
    BY <1>1, <1>2, <1>3, StartRest, RingRest, AcceptRest, AcceptDoneRest, CloseRest, TerminatedRest,
       StopRest DEF CallActor

LEMMA CallActorType ==
  ASSUME TypeInv, NEW c \in Calls, CallActor(c)
  PROVE  TypeInv'
  <1>1. Effect(c) /\ RestTyped' /\ Headed(c)'
    BY CallActorTurn, CallActorRest
  <1>2. Acts(c) /\ OthersStay(c) /\ Around /\ CallsTyped'
    BY <1>1 DEF Effect
  <1>3. GatewayType' /\ ManagerType'
    BY <1>1, <1>2 DEF Around, RestTyped, TypeInv, GatewayType, ManagerType
  <1>4. ActorType'
    <2>1. ASSUME NEW d \in Calls
          PROVE  IF loop'[d] # "unborn" THEN call'[d] \in CallType ELSE call'[d] = None
      BY <1>2 DEF Acts, TypeInv, ActorType, Born
    <2> QED
      BY <1>1, <1>2, <2>1 DEF RestTyped, CallsTyped, ActorType, Born
  <1>5. HeadInv'
    BY <1>1, <1>2 DEF Headed, HeadInv, Acts, OthersStay, TypeInv
  <1>6. WorldType'
    BY <1>1, <1>2 DEF RestTyped, Around, TypeInv, WorldType
  <1> QED
    BY <1>3, <1>4, <1>5, <1>6 DEF TypeInv

\* A message from elsewhere comes behind the ones a mailbox holds.
LEMMA MailType ==
  ASSUME TypeInv, NEW c \in Calls, NEW m \in ActorMessageType,
         inbox' = [inbox EXCEPT ![c] = Append(@, m)], UNCHANGED loop
  PROVE  inbox' \in [Calls -> Seq(ActorMessageType)] /\ HeadInv'
  <1>1. /\ inbox' \in [Calls -> Seq(ActorMessageType)]
        /\ \A d \in Calls : inbox[d] # <<>> => inbox'[d] # <<>> /\ Head(inbox'[d]) = Head(inbox[d])
    BY InboxAppend
  <1> QED
    BY <1>1 DEF TypeInv, HeadInv

LEMMA SignalType ==
  ASSUME TypeInv, Monitors \/ \E c \in Calls : TimerFires(c) \/ MonitorCall(c)
  PROVE  TypeInv'
  <1>1. ASSUME NEW c \in Calls, TimerFires(c) PROVE TypeInv'
    <2>1. /\ inbox' = [inbox EXCEPT ![c] = Append(@, [op |-> "timeout"])]
          /\ timer' = [timer EXCEPT ![c] = "off"]
          /\ UNCHANGED <<gatewayVars, managerVars, call, loop, watch, due, told, worldVars>>
      BY <1>1 DEF TimerFires
    <2>2. [op |-> "timeout"] \in ActorMessageType
      BY DEF ActorMessageType
    <2>3. inbox' \in [Calls -> Seq(ActorMessageType)] /\ HeadInv'
      BY <2>1, <2>2, MailType
    <2>4. timer' \in [Calls -> {"off", "armed"}]
      BY <2>1 DEF TypeInv, ActorType
    <2> QED
      BY <2>1, <2>3, <2>4 DEF TypeInv, GatewayType, ManagerType, ActorType, WorldType, Born,
                              gatewayVars, managerVars, worldVars
  <1>2. ASSUME NEW c \in Calls, MonitorCall(c) PROVE TypeInv'
    <2>1. /\ told' = told \cup {c} /\ mbox' = Append(mbox, [op |-> "terminated", call |-> c])
          /\ UNCHANGED <<gatewayVars, cmd, busy, refs, actorVars, due, worldVars>>
      BY <1>2 DEF MonitorCall
    <2>2. [op |-> "terminated", call |-> c] \in ManagerMessage
      BY DEF ManagerMessage
    <2>3. mbox' \in Seq(ManagerMessage)
      BY <2>1, <2>2, AppendElements DEF TypeInv, ManagerType
    <2> QED
      BY <2>1, <2>3 DEF TypeInv, GatewayType, ManagerType, ActorType, WorldType, HeadInv, Born,
                        gatewayVars, actorVars, worldVars
  <1>3. ASSUME NEW g \in Gateways, Monitor(g) PROVE TypeInv'
    <2>1. /\ due' = due \cup {<<g, c>> : c \in {c \in Calls : g \in watch[c]}}
          /\ watch' = [c \in Calls |-> watch[c] \ {g}]
          /\ UNCHANGED <<gatewayVars, managerVars, call, loop, inbox, timer, told, worldVars>>
      BY <1>3 DEF Monitor
    <2>2. due' \subseteq Gateways \X Calls
      BY <2>1 DEF TypeInv, WorldType
    <2>3. watch' \in [Calls -> SUBSET Gateways]
      BY <2>1 DEF TypeInv, ActorType
    <2> QED
      BY <2>1, <2>2, <2>3 DEF TypeInv, GatewayType, ManagerType, ActorType, WorldType, HeadInv, Born,
                              gatewayVars, managerVars, worldVars
  <1>4. ASSUME NEW g \in Gateways, NEW c \in Calls, MonitorTell(g, c) PROVE TypeInv'
    <2>1. /\ inbox' = IF loop[c] = "done" THEN inbox
                      ELSE [inbox EXCEPT ![c] = Append(@, [op |-> "terminated", gateway |-> g])]
          /\ due' \subseteq due
          /\ UNCHANGED <<gatewayVars, managerVars, call, loop, timer, watch, told, worldVars>>
      BY <1>4 DEF MonitorTell
    <2>2. [op |-> "terminated", gateway |-> g] \in ActorMessageType
      BY DEF ActorMessageType
    <2>3. inbox' \in [Calls -> Seq(ActorMessageType)] /\ HeadInv'
      <3>1. CASE inbox' = inbox
        BY <2>1, <3>1 DEF TypeInv, ActorType, HeadInv
      <3>2. CASE inbox' = [inbox EXCEPT ![c] = Append(@, [op |-> "terminated", gateway |-> g])]
        BY <2>1, <2>2, <3>2, MailType
      <3> QED
        BY <2>1, <3>1, <3>2
    <2> QED
      BY <2>1, <2>3 DEF TypeInv, GatewayType, ManagerType, ActorType, WorldType, Born,
                        gatewayVars, managerVars, worldVars
  <1> QED
    BY <1>1, <1>2, <1>3, <1>4 DEF Monitors

LEMMA TypeStep ==
  ASSUME TypeInv, [Next]_vars
  PROVE  TypeInv'
  <1>1. CASE UNCHANGED vars
    BY <1>1 DEF vars, gatewayVars, managerVars, actorVars, worldVars, TypeInv, GatewayType, ManagerType,
                ActorType, WorldType, HeadInv, Born
  <1> QED
    BY <1>1, ClientType, ManagerTypeStep, CallActorType, SignalType DEF Next

LEMMA TypeInit ==
  ASSUME Init
  PROVE  TypeInv
  <1>1. GatewayType
    BY CallAssumption DEF Init, GatewayType
  <1>2. ManagerType /\ ActorType /\ WorldType /\ HeadInv
    BY DEF Init, ManagerType, ActorType, WorldType, HeadInv, Born, Lives
  <1> QED
    BY <1>1, <1>2 DEF TypeInv

LEMMA TypeInvImpliesTypeOK ==
  ASSUME TypeInv
  PROVE  TypeOK
  <1>1. Elements(mbox) \subseteq CommandType \cup [op: {"terminated"}, call: Calls]
    BY ElementsTyped DEF TypeInv, ManagerType, ManagerMessage
  <1>2. \A c \in Calls : Elements(inbox[c]) \subseteq ActorMessageType
    BY ElementsTyped DEF TypeInv, ActorType
  <1> QED
    BY <1>1, <1>2 DEF TypeInv, GatewayType, ManagerType, ActorType, WorldType, RecordType, Lives, TypeOK

(* Type correctness, for any users, devices, calls and faults: in particular
   an actor that stopped between two questions of its handler still has that
   command at the head of its mailbox, and only commands are answered. *)
THEOREM TypeCorrectness == Spec => []TypeOK
  <1>1. Init => TypeInv
    BY TypeInit
  <1>2. TypeInv /\ [Next]_vars => TypeInv'
    BY TypeStep
  <1>3. TypeInv => TypeOK
    BY TypeInvImpliesTypeOK
  <1> QED
    BY <1>1, <1>2, <1>3, PTL DEF Spec

-----------------------------------------------------------------------------
(* The marks of the manager. *)

\* What no step but the manager's own does: give birth, change the two of a
\* call, or bring an ended actor back.
CallsGoOn ==
  \A c \in Calls : /\ loop'[c] # "unborn" <=> loop[c] # "unborn"
                   /\ loop[c] = "done" => loop'[c] = "done"
                   /\ Born(c) => call'[c].caller = call[c].caller /\ call'[c].callee = call[c].callee

LEMMA MarksStay ==
  ASSUME TypeInv, BusyInv, CallsGoOn, UNCHANGED <<busy, refs>>
  PROVE  BusyTracksCalls' /\ \A c \in refs' : Born(c)'
  <1>1. ASSUME NEW c \in Calls, Born(c)' PROVE Born(c) /\ Parties(c)' = Parties(c)
    BY <1>1 DEF CallsGoOn, Born, Parties
  <1>2. ASSUME NEW c \in Calls, Born(c)', loop'[c] # "done"
        PROVE  c \in refs' /\ \A u \in Parties(c)' : busy'[u] = c
    <2>1. loop[c] # "done" /\ Born(c) /\ Parties(c)' = Parties(c)
      BY <1>1, <1>2 DEF CallsGoOn
    <2> QED
      BY <2>1 DEF BusyInv, BusyTracksCalls
  <1>3. ASSUME NEW c \in refs PROVE Born(c)'
    BY <1>3 DEF BusyInv, CallsGoOn, Born, TypeInv, ManagerType
  <1>4. ASSUME NEW u \in Users, busy'[u] # None PROVE busy'[u] \in refs' /\ u \in Parties(busy[u])'
    <2>1. busy[u] \in refs /\ u \in Parties(busy[u]) /\ busy[u] \in Calls
      BY <1>4 DEF BusyInv, BusyTracksCalls, TypeInv, ManagerType
    <2>2. PICK c \in Calls : c = busy[u]
      BY <2>1
    <2>3. Parties(c)' = Parties(c)
      BY <1>1, <1>3, <2>1, <2>2
    <2> QED
      BY <2>1, <2>2, <2>3 DEF Parties
  <1> QED
    BY <1>2, <1>3, <1>4 DEF BusyTracksCalls

\* A notice in the manager's mailbox tells of a call that exists.
LEMMA NoticeOfCall ==
  ASSUME TypeInv, NEW m \in Elements(mbox), m.op = "terminated"
  PROVE  m.call \in Calls
  BY ElementsTyped, ManagerMessages DEF TypeInv, ManagerType

LEMMA BusyFrame ==
  ASSUME TypeInv, BusyInv, CallsGoOn, UNCHANGED <<busy, refs>>, TwoAreFree',
         \A m \in Elements(mbox') :
           m \in Elements(mbox) \/ m.op # "terminated" \/ loop'[m.call] = "done"
  PROVE  BusyInv'
  <1>1. EndsAreTold'
    BY NoticeOfCall DEF BusyInv, EndsAreTold, CallsGoOn
  <1> QED
    BY <1>1, MarksStay DEF BusyInv

\* Who ends the waiting for an answer, or waits for another, leaves the two of
\* an initiate as they were.
LEMMA FreeStay ==
  ASSUME BusyInv, UNCHANGED busy, cmd' = cmd \/ cmd' = None \/ cmd'.op \in CallOps
  PROVE  TwoAreFree'
  BY DEF BusyInv, TwoAreFree, CallOps

LEMMA BusyActor ==
  ASSUME TypeInv, BusyInv, NEW c \in Calls, CallActor(c)
  PROVE  BusyInv'
  <1>1. Acts(c) /\ Turn(c) /\ Around
    BY CallActorTurn DEF Effect
  <1>2. loop'[c] # "unborn" /\ loop[c] # "unborn"
    BY <1>1 DEF Acts, Born
  <1>3. loop[c] = "done" => loop'[c] = "done"
    BY <1>1 DEF Turn, Moves, Rings, IsAnswered, Announces, Ends, Stops
  <1>4. CallsGoOn
    BY <1>1, <1>2, <1>3 DEF Acts, CallsGoOn
  <1>5. UNCHANGED <<mbox, busy, refs>> /\ (cmd' = cmd \/ cmd' = None)
    BY <1>1 DEF Around
  <1> QED
    BY <1>4, <1>5, BusyFrame, FreeStay

LEMMA BusySpawn ==
  ASSUME TypeInv, BusyInv, ManagerSpawn
  PROVE  BusyInv'
  <1>1. /\ cmd \in CommandType /\ cmd.uid \in Users /\ cmd.to \in Users
        /\ cmd.uid # cmd.to /\ busy[cmd.uid] = None /\ busy[cmd.to] = None
    BY CommandFields DEF ManagerSpawn, TypeInv, ManagerType, BusyInv, TwoAreFree
  <1>2. PICK answer \in AskGateways(cmd.uid) :
          \E g \in FirstOf(answer), c \in {d \in Calls : ~Born(d)} :
            /\ call' = [call EXCEPT ![c] = NewCall(cmd.uid, cmd.to, g)]
            /\ loop' = [loop EXCEPT ![c] = "start"]
            /\ busy' = [busy EXCEPT ![cmd.uid] = c, ![cmd.to] = c]
            /\ refs' = refs \cup {c}
    BY DEF ManagerSpawn
  <1>3. PICK g \in FirstOf(answer), c \in {d \in Calls : ~Born(d)} :
          /\ call' = [call EXCEPT ![c] = NewCall(cmd.uid, cmd.to, g)]
          /\ loop' = [loop EXCEPT ![c] = "start"]
          /\ busy' = [busy EXCEPT ![cmd.uid] = c, ![cmd.to] = c]
          /\ refs' = refs \cup {c}
    BY <1>2
  <1>4. c \in Calls /\ ~Born(c) /\ c \notin refs
    BY <1>3 DEF BusyInv
  <1>5. /\ \A u \in Users : busy'[u] = IF u \in {cmd.uid, cmd.to} THEN c ELSE busy[u]
        /\ loop'[c] = "start" /\ call'[c].caller = cmd.uid /\ call'[c].callee = cmd.to
        /\ \A d \in Calls \ {c} : loop'[d] = loop[d] /\ call'[d] = call[d]
    BY <1>1, <1>3, <1>4 DEF TypeInv, ManagerType, ActorType, NewCall
  <1>6. cmd' = None /\ mbox' = mbox
    BY DEF ManagerSpawn
  <1>7. Parties(c)' = {cmd.uid, cmd.to} /\ \A d \in Calls \ {c} : Parties(d)' = Parties(d)
    BY <1>5 DEF Parties
  <1>8. ASSUME NEW d \in Calls, Born(d)', loop'[d] # "done"
        PROVE  d \in refs' /\ \A u \in Parties(d)' : busy'[u] = d
    <2>1. CASE d = c
      BY <1>1, <1>3, <1>5, <1>7, <2>1
    <2>2. CASE d # c
      <3>1. Born(d) /\ loop[d] # "done"
        BY <1>5, <1>8, <2>2 DEF Born
      <3>2. d \in refs /\ \A u \in Parties(d) : busy[u] = d
        BY <3>1 DEF BusyInv, BusyTracksCalls
      <3>3. Parties(d) \subseteq Users
        BY <3>1, AtWork DEF Parties, CallType
      <3>4. d # None
        BY CallAssumption
      <3>5. ASSUME NEW u \in Parties(d) PROVE busy'[u] = d
        <4>1. busy[u] = d /\ u \in Users
          BY <3>2, <3>3, <3>5
        <4>2. u \notin {cmd.uid, cmd.to}
          BY <1>1, <3>4, <4>1
        <4> QED
          BY <1>5, <4>1, <4>2
      <3>6. Parties(d)' = Parties(d)
        BY <1>7, <2>2
      <3> QED
        BY <1>3, <3>2, <3>5, <3>6
    <2> QED
      BY <2>1, <2>2
  <1>9. ASSUME NEW u \in Users, busy'[u] # None PROVE busy'[u] \in refs' /\ u \in Parties(busy[u])'
    <2>1. CASE u \in {cmd.uid, cmd.to}
      <3>1. busy'[u] = c
        BY <1>5, <2>1
      <3>2. u \in {call'[busy'[u]].caller, call'[busy'[u]].callee}
        BY <1>5, <2>1, <3>1
      <3> QED
        BY <1>3, <3>1, <3>2 DEF Parties
    <2>2. CASE u \notin {cmd.uid, cmd.to}
      <3>1. busy'[u] = busy[u] /\ busy[u] \in refs /\ u \in Parties(busy[u])
        BY <1>5, <1>9, <2>2 DEF BusyInv, BusyTracksCalls
      <3>2. PICK d \in Calls \ {c} : d = busy[u]
        BY <1>4, <3>1 DEF TypeInv, ManagerType
      <3>3. Parties(d)' = Parties(d)
        BY <1>7, <3>2
      <3> QED
        BY <1>3, <3>1, <3>2, <3>3 DEF Parties
    <2> QED
      BY <2>1, <2>2
  <1>10. TwoAreFree'
    BY <1>6 DEF TwoAreFree
  <1>11. EndsAreTold'
    BY <1>4, <1>5, <1>6, NoticeOfCall DEF BusyInv, EndsAreTold, Born
  <1>12. ASSUME NEW d \in refs' PROVE Born(d)'
    <2>1. d \in Calls
      BY <1>3, <1>4, <1>12 DEF TypeInv, ManagerType
    <2> QED
      BY <1>3, <1>5, <1>12, <2>1 DEF BusyInv, Born
  <1> QED
    BY <1>8, <1>9, <1>10, <1>11, <1>12 DEF BusyInv, BusyTracksCalls

LEMMA BusyFreed ==
  ASSUME TypeInv, BusyInv, ManagerTerminated
  PROVE  BusyInv'
  <1>1. PICK c \in Calls : c = Head(mbox).call /\ loop[c] = "done"
    BY ManagerTakes, ManagerMessages DEF ManagerTerminated, BusyInv, EndsAreTold
  <1>2. /\ refs' = refs \ {c} /\ busy' = [u \in Users |-> IF busy[u] = c THEN None ELSE busy[u]]
        /\ UNCHANGED <<cmd, call, loop>> /\ Elements(mbox') \subseteq Elements(mbox)
    BY <1>1, ManagerTakes DEF ManagerTerminated, FreeParties, actorVars
  <1>3. \A d \in Calls : (Born(d)' <=> Born(d)) /\ Parties(d)' = Parties(d)
    BY <1>2 DEF Born, Parties
  <1>4. ASSUME NEW d \in Calls, Born(d), loop[d] # "done"
        PROVE  d \in refs' /\ \A u \in Parties(d) : busy'[u] = d
    <2>1. d \in refs /\ \A u \in Parties(d) : busy[u] = d
      BY <1>4 DEF BusyInv, BusyTracksCalls
    <2>2. Parties(d) \subseteq Users /\ d # c
      BY <1>1, <1>4, AtWork DEF Parties, CallType
    <2> QED
      BY <1>2, <2>1, <2>2
  <1>5. ASSUME NEW u \in Users, busy'[u] # None PROVE busy'[u] \in refs' /\ u \in Parties(busy[u])'
    <2>1. busy'[u] = busy[u] /\ busy[u] # c /\ busy[u] # None
      BY <1>2, <1>5
    <2>2. busy[u] \in refs /\ u \in Parties(busy[u])
      BY <2>1 DEF BusyInv, BusyTracksCalls
    <2> QED
      BY <1>2, <2>1, <2>2 DEF Parties
  <1>6. BusyTracksCalls'
    BY <1>2, <1>3, <1>4, <1>5 DEF BusyTracksCalls
  <1>7. TwoAreFree'
    <2>1. cmd \in CommandType \cup {None} /\ cmd' = cmd
      BY <1>2 DEF TypeInv, ManagerType
    <2> QED
      BY <1>2, <2>1, CommandFields DEF BusyInv, TwoAreFree
  <1>8. EndsAreTold' /\ \A d \in refs' : Born(d)'
    BY <1>2, <1>3 DEF BusyInv, EndsAreTold, TypeInv, ManagerType
  <1> QED
    BY <1>6, <1>7, <1>8 DEF BusyInv

LEMMA BusyManager ==
  ASSUME TypeInv, BusyInv, Manager
  PROVE  BusyInv'
  <1>1. CASE ManagerInitiate
    <2>1. /\ UNCHANGED <<busy, refs, call, loop>> /\ Elements(mbox') \subseteq Elements(mbox)
      BY <1>1, ManagerTakes DEF ManagerInitiate, actorVars
    <2>2. PICK answer \in AskGateways(Head(mbox).to) :
            IF InitiateRefused(Head(mbox), answer \notin {NoAnswer, {}})
            THEN UNCHANGED cmd ELSE cmd' = Head(mbox)
      BY <1>1 DEF ManagerInitiate
    <2>3. TwoAreFree'
      <3>1. CASE UNCHANGED cmd
        BY <2>1, <3>1, FreeStay
      <3>2. CASE cmd' = Head(mbox) /\ ~InitiateRefused(Head(mbox), answer \notin {NoAnswer, {}})
        BY <2>1, <3>2 DEF InitiateRefused, TwoAreFree
      <3> QED
        BY <2>2, <3>1, <3>2
    <2>4. CallsGoOn
      BY <2>1 DEF CallsGoOn
    <2> QED
      BY <2>1, <2>3, <2>4, BusyFrame
  <1>2. CASE ManagerForward
    <2>1. /\ UNCHANGED <<busy, refs, call, loop>> /\ Elements(mbox') \subseteq Elements(mbox)
          /\ cmd' = cmd \/ cmd'.op \in CallOps
      BY <1>2, ManagerTakes DEF ManagerForward
    <2>2. CallsGoOn
      BY <2>1 DEF CallsGoOn
    <2> QED
      BY <2>1, <2>2, BusyFrame, FreeStay
  <1>3. CASE ManagerTimeout
    <2>1. UNCHANGED <<busy, refs, call, loop, mbox>> /\ cmd' = None
      BY <1>3 DEF ManagerTimeout, actorVars
    <2>2. CallsGoOn
      BY <2>1 DEF CallsGoOn
    <2> QED
      BY <2>1, <2>2, BusyFrame, FreeStay
  <1> QED
    BY <1>1, <1>2, <1>3, BusySpawn, BusyFreed DEF Manager

LEMMA BusyOthers ==
  ASSUME TypeInv, BusyInv,
         \/ Client \/ Monitors
         \/ \E g \in Gateways : CloseGateway(g)
         \/ \E c \in Calls : TimerFires(c) \/ MonitorCall(c)
         \/ UNCHANGED vars
  PROVE  BusyInv'
  <1>1. UNCHANGED <<busy, refs, call, loop, cmd>>
    BY DEF Client, Monitors, Connect, Disconnect, SendCmd, GatewayGivesUp, CloseGateway, Monitor,
           MonitorTell, TimerFires, MonitorCall, vars, gatewayVars, managerVars, actorVars
  <1>2. CallsGoOn /\ TwoAreFree'
    BY <1>1, FreeStay DEF CallsGoOn
  <1>3. ASSUME NEW m \in Elements(mbox')
        PROVE  m \in Elements(mbox) \/ m.op # "terminated" \/ loop'[m.call] = "done"
    <2>1. CASE mbox' = mbox
      BY <1>3, <2>1
    <2>2. CASE \E g \in Gateways : SendCmd(g)
      <3>1. PICK g \in Gateways : SendCmd(g)
        BY <2>2
      <3>2. PICK k \in Commands(g) : mbox' = Append(mbox, k)
        BY <3>1 DEF SendCmd
      <3>3. k.op # "terminated"
        BY DEF Commands, CallOps
      <3>4. mbox \in Seq(ManagerMessage \cup {k}) /\ k \in ManagerMessage \cup {k}
        BY DEF TypeInv, ManagerType
      <3>5. Elements(Append(mbox, k)) = Elements(mbox) \cup {k}
        BY <3>4, AppendElements
      <3> QED
        BY <1>3, <3>2, <3>3, <3>5
    <2>3. CASE \E c \in Calls : MonitorCall(c)
      <3>1. PICK c \in Calls : MonitorCall(c)
        BY <2>3
      <3>2. mbox' = Append(mbox, [op |-> "terminated", call |-> c]) /\ loop[c] = "done"
        BY <3>1 DEF MonitorCall
      <3>3. [op |-> "terminated", call |-> c] \in ManagerMessage
        BY DEF ManagerMessage
      <3>4. Elements(mbox') = Elements(mbox) \cup {[op |-> "terminated", call |-> c]}
        BY <3>2, <3>3, AppendElements DEF TypeInv, ManagerType
      <3> QED
        BY <1>1, <1>3, <3>2, <3>4
    <2> QED
      BY <2>1, <2>2, <2>3 DEF Client, Monitors, Connect, Disconnect, GatewayGivesUp, CloseGateway, Monitor,
           MonitorTell, TimerFires, vars, managerVars
  <1> QED
    BY <1>1, <1>2, <1>3, BusyFrame

LEMMA BusyStep ==
  ASSUME TypeInv, BusyInv, [Next]_vars
  PROVE  BusyInv'
  BY BusyManager, BusyActor, BusyOthers DEF Next

LEMMA BusyInit ==
  ASSUME Init
  PROVE  BusyInv
  BY DEF Init, BusyInv, TwoAreFree, EndsAreTold, Elements, BusyTracksCalls, Born, Parties

(* Both parties of a call are marked busy with it as long as its actor lives,
   and no mark outlives the manager's knowledge of the call, for any users,
   devices, calls and faults: nobody is in two calls, however the commands,
   the answers, the ends and the notices of them interleave. *)
THEOREM MarksFollowCalls == Spec => []BusyTracksCalls
  <1>1. Init => TypeInv /\ BusyInv
    BY TypeInit, BusyInit
  <1>2. TypeInv /\ BusyInv /\ [Next]_vars => TypeInv' /\ BusyInv'
    BY TypeStep, BusyStep
  <1>3. BusyInv => BusyTracksCalls
    BY DEF BusyInv
  <1> QED
    BY <1>1, <1>2, <1>3, PTL DEF Spec

-----------------------------------------------------------------------------
(* The announcements and the row of a call. *)

LEMMA ConcatElements ==
  ASSUME NEW S, NEW e \in Seq(S), NEW f \in Seq(S)
  PROVE  Elements(e \o f) = Elements(e) \cup Elements(f)
  <1>1. /\ DOMAIN e = 1..Len(e) /\ Len(e) \in Nat /\ DOMAIN f = 1..Len(f) /\ Len(f) \in Nat
        /\ DOMAIN (e \o f) = 1..(Len(e) + Len(f))
        /\ \A i \in 1..Len(e) : (e \o f)[i] = e[i]
        /\ \A i \in 1..Len(f) : (e \o f)[Len(e) + i] = f[i]
    OBVIOUS
  <1>2. ASSUME NEW x \in Elements(e \o f) PROVE x \in Elements(e) \cup Elements(f)
    <2>1. PICK i \in DOMAIN (e \o f) : x = (e \o f)[i]
      BY DEF Elements
    <2>2. CASE i \in 1..Len(e)
      BY <1>1, <2>1, <2>2 DEF Elements
    <2>3. CASE i \notin 1..Len(e)
      <3>1. i - Len(e) \in DOMAIN f /\ Len(e) + (i - Len(e)) = i
        BY <1>1, <2>1, <2>3
      <3>2. x = f[i - Len(e)]
        BY <1>1, <2>1, <3>1
      <3> QED
        BY <3>1, <3>2 DEF Elements
    <2> QED
      BY <2>2, <2>3
  <1>3. ASSUME NEW x \in Elements(e) PROVE x \in Elements(e \o f)
    <2>1. PICK i \in DOMAIN e : x = e[i]
      BY DEF Elements
    <2>2. i \in DOMAIN (e \o f) /\ (e \o f)[i] = x
      BY <1>1, <2>1
    <2> QED
      BY <2>2 DEF Elements
  <1>4. ASSUME NEW x \in Elements(f) PROVE x \in Elements(e \o f)
    <2>1. PICK i \in DOMAIN f : x = f[i]
      BY DEF Elements
    <2>2. Len(e) + i \in DOMAIN (e \o f) /\ (e \o f)[Len(e) + i] = x
      BY <1>1, <2>1
    <2> QED
      BY <2>2 DEF Elements
  <1> QED
    BY <1>2, <1>3, <1>4

LEMMA OneElement ==
  ASSUME NEW a
  PROVE  Elements(<<a>>) = {a} /\ Elements(<<>>) = {}
  BY DEF Elements

LEMMA TwoElements ==
  ASSUME NEW a, NEW b
  PROVE  Elements(<<a, b>>) = {a, b}
  <1>1. DOMAIN <<a, b>> = {1, 2} /\ <<a, b>>[1] = a /\ <<a, b>>[2] = b
    OBVIOUS
  <1> QED
    BY <1>1 DEF Elements

\* The first that ends, put behind events of which none does.
LEMMA LastEnds ==
  ASSUME NEW e \in Seq(EventNames), NEW a \in {"ended", "timeout"},
         "ended" \notin Elements(e), "timeout" \notin Elements(e)
  PROVE  OnlyLastEnds(e \o <<a>>)
  <1>1. /\ DOMAIN e = 1..Len(e) /\ Len(e) \in Nat /\ Len(e \o <<a>>) = Len(e) + 1
        /\ DOMAIN (e \o <<a>>) = 1..(Len(e) + 1)
        /\ \A i \in 1..Len(e) : (e \o <<a>>)[i] = e[i]
        /\ (e \o <<a>>)[Len(e) + 1] = a
    OBVIOUS
  <1>2. ASSUME NEW i \in DOMAIN (e \o <<a>>)
        PROVE  (e \o <<a>>)[i] \in {"ended", "timeout"} <=> i = Len(e \o <<a>>)
    <2>1. CASE i = Len(e) + 1
      <3>1. (e \o <<a>>)[i] = a /\ i = Len(e \o <<a>>)
        BY <1>1, <2>1
      <3> QED
        BY <3>1
    <2>2. CASE i # Len(e) + 1
      <3>1. i \in DOMAIN e /\ (e \o <<a>>)[i] = e[i] /\ i # Len(e \o <<a>>)
        BY <1>1, <1>2, <2>2
      <3>2. e[i] \in Elements(e)
        BY <3>1 DEF Elements
      <3>3. (e \o <<a>>)[i] \notin {"ended", "timeout"}
        BY <3>1, <3>2
      <3> QED
        BY <3>1, <3>3
    <2> QED
      BY <2>1, <2>2
  <1> QED
    BY <1>2 DEF OnlyLastEnds

\* A call whose actor does not run, or does nothing that is told.
LEMMA SaysStays ==
  ASSUME NEW c \in Calls, CallLog(c), call'[c] = call[c], loop'[c] = loop[c],
         events'[c] = events[c], record'[c] = record[c], HasPill(c)' => HasPill(c)
  PROVE  CallLog(c)'
  BY DEF CallLog, CallSays, EventsSay, RecordSays, RecordOf, Born, Quiet, Ended, Published

\* What is announced next is announced behind what was.
LEMMA PublishedNext ==
  ASSUME TypeInv, NEW c \in Calls, NEW e \in Seq(EventNames), events'[c] = events[c] \o e, NEW x
  PROVE  Published(c, x)' <=> Published(c, x) \/ x \in Elements(e)
  <1>1. events[c] \in Seq(EventNames)
    BY DEF TypeInv, WorldType
  <1>2. Elements(events'[c]) = Elements(events[c]) \cup Elements(e)
    BY <1>1, ConcatElements
  <1> QED
    BY <1>2 DEF Published

LEMMA LogMoves ==
  ASSUME NEW c \in Calls, Born(c), loop'[c] # "unborn", CallLog(c), Moves(c)
  PROVE  CallLog(c)'
  <1>1. CallSays(c)'
    BY DEF CallLog, CallSays, Moves, Quiet, Ended
  <1>2. EventsSay(c)'
    BY DEF CallLog, CallSays, EventsSay, Moves, Quiet, Ended, Published
  <1>3. RecordSays(c)'
    BY DEF CallLog, RecordSays, RecordOf, Moves, Ended
  <1> QED
    BY <1>1, <1>2, <1>3 DEF CallLog, Born

LEMMA LogRings ==
  ASSUME TypeInv, NEW c \in Calls, Born(c), CallLog(c), Rings(c)
  PROVE  CallLog(c)'
  <1>1. CallSays(c) /\ EventsSay(c) /\ RecordSays(c)
    BY DEF CallLog
  <1>2. CallSays(c)'
    BY <1>1 DEF CallSays, Rings, SamePills, Quiet, Ended
  <1>3. \A x : Published(c, x)' <=> Published(c, x) \/ x \in {"incoming", "calling"}
    <2>1. <<"incoming", "calling">> \in Seq(EventNames)
      BY DEF EventNames
    <2> QED
      BY <2>1, PublishedNext, TwoElements DEF Rings
  <1>4. EventsSay(c)'
    BY <1>1, <1>3 DEF EventsSay, Rings, Ended
  <1>5. RecordSays(c)'
    BY <1>1 DEF RecordSays, Rings, Ended
  <1> QED
    BY <1>2, <1>4, <1>5 DEF CallLog, Born, Rings

LEMMA LogAnswered ==
  ASSUME NEW c \in Calls, Born(c), CallLog(c), IsAnswered(c)
  PROVE  CallLog(c)'
  <1>1. CallSays(c) /\ EventsSay(c) /\ RecordSays(c)
    BY DEF CallLog
  <1>2. CallSays(c)'
    BY <1>1 DEF CallSays, IsAnswered, SamePills, Quiet, Ended
  <1>3. EventsSay(c)'
    BY <1>1 DEF CallSays, EventsSay, IsAnswered, Ended, Published
  <1>4. RecordSays(c)'
    BY <1>1 DEF RecordSays, IsAnswered, Ended
  <1> QED
    BY <1>2, <1>3, <1>4 DEF CallLog, Born, IsAnswered

LEMMA LogAnnounces ==
  ASSUME TypeInv, NEW c \in Calls, Born(c), CallLog(c), Announces(c)
  PROVE  CallLog(c)'
  <1>1. CallSays(c) /\ EventsSay(c) /\ RecordSays(c)
    BY DEF CallLog
  <1>2. CallSays(c)'
    BY <1>1 DEF CallSays, Announces, SamePills, Quiet, Ended
  <1>3. \A x : Published(c, x)' <=> Published(c, x) \/ x \in {"accepted", "answered_elsewhere"}
    <2>1. <<"accepted", "answered_elsewhere">> \in Seq(EventNames)
      BY DEF EventNames
    <2> QED
      BY <2>1, PublishedNext, TwoElements DEF Announces
  <1>4. EventsSay(c)'
    <2>1. /\ loop[c] = "accept" /\ loop'[c] = "idle" /\ call[c].status = "connected"
          /\ call[c].answered /\ call'[c].answered /\ call'[c].reason = call[c].reason /\ call[c].reason = ""
      BY <1>1 DEF CallSays, Announces
    <2>2. Published(c, "accepted")' /\ \A x \in {"rejected", "cancelled", "timeout", "ended"} :
            Published(c, x)' <=> Published(c, x)
      BY <1>3
    <2>3. ~Published(c, "timeout") /\ ~Published(c, "ended") /\ ~Published(c, "rejected")
          /\ ~Published(c, "cancelled")
      BY <1>1, <2>1 DEF EventsSay, Ended
    <2> QED
      BY <2>1, <2>2, <2>3 DEF EventsSay, Ended
  <1>5. RecordSays(c)'
    BY <1>1 DEF RecordSays, Announces, Ended
  <1> QED
    BY <1>2, <1>4, <1>5 DEF CallLog, Born, Announces

LEMMA LogEnds ==
  ASSUME TypeInv, NEW c \in Calls, Born(c), CallLog(c), Ends(c)
  PROVE  CallLog(c)'
  <1>1. CallSays(c) /\ EventsSay(c) /\ RecordSays(c)
    BY DEF CallLog
  <1>2. call[c].status \in {"ringing", "connected"}
    BY AtWork DEF Ends, CallType
  <1>3. CallSays(c)'
    BY <1>1, <1>2 DEF CallSays, Ends, EndsAs, SamePills, Quiet, Ended
  <1>4. EventsSay(c)'
    <2>1. ASSUME NEW e \in Seq(EventNames), NEW r \in Reasons, EndsAs(c, r, e),
                 \A x : x \in Elements(e) <=>
                          \/ x = "rejected" /\ r = "rejected"
                          \/ x = "cancelled" /\ (\/ r = "cancelled"
                                                 \/ r = "disconnect" /\ call[c].status = "ringing"),
                 r \in {"rejected", "cancelled", "timeout"} => call[c].status = "ringing"
          PROVE  EventsSay(c)'
      <3>1. /\ \A x : Published(c, x)' <=> Published(c, x) \/ x \in Elements(e)
            /\ call'[c].reason = r
        BY <2>1, PublishedNext DEF EndsAs
      <3> QED
        <4>1. /\ loop[c] = "idle" /\ loop'[c] = "poison" /\ call[c].reason = ""
              /\ call'[c].answered = call[c].answered
              /\ call[c].status = "ringing" => ~call[c].answered
          BY <1>1, <1>2 DEF CallSays, Ends
        <4>2. /\ ~Published(c, "timeout") /\ ~Published(c, "ended") /\ ~Published(c, "rejected")
              /\ ~Published(c, "cancelled")
              /\ Published(c, "accepted") <=> call[c].answered
          BY <1>1, <4>1 DEF EventsSay, Ended
        <4>3. /\ Published(c, "accepted")' <=> call'[c].answered
              /\ Published(c, "rejected")' <=> r = "rejected"
              /\ Published(c, "cancelled")' <=> r = "cancelled" \/ (r = "disconnect" /\ call[c].status = "ringing")
              /\ ~Published(c, "timeout")' /\ ~Published(c, "ended")'
          <5>1. /\ "accepted" \notin Elements(e) /\ "timeout" \notin Elements(e) /\ "ended" \notin Elements(e)
                /\ "rejected" \in Elements(e) <=> r = "rejected"
                /\ "cancelled" \in Elements(e) <=>
                     r = "cancelled" \/ (r = "disconnect" /\ call[c].status = "ringing")
            BY <2>1
          <5>2. Published(c, "accepted")' <=> call'[c].answered
            BY <3>1, <4>1, <4>2, <5>1
          <5> QED
            BY <3>1, <4>2, <5>1, <5>2
        <4>4. r \in {"cancelled"} => ~call'[c].answered
          BY <2>1, <4>1
        <4>5. r = "disconnect" /\ call[c].status = "ringing" => ~call'[c].answered
          BY <4>1
        <4> QED
          BY <3>1, <4>1, <4>3, <4>4, <4>5 DEF EventsSay, Ended
    <2>2. <<"rejected">> \in Seq(EventNames) /\ <<"cancelled">> \in Seq(EventNames) /\ <<>> \in Seq(EventNames)
      BY DEF EventNames
    <2>3. CASE call[c].status = "ringing" /\ EndsAs(c, "rejected", <<"rejected">>)
      BY <2>1, <2>2, <2>3, OneElement DEF Reasons
    <2>4. CASE call[c].status = "ringing" /\ EndsAs(c, "cancelled", <<"cancelled">>)
      BY <2>1, <2>2, <2>4, OneElement DEF Reasons
    <2>5. CASE call[c].status = "ringing" /\ EndsAs(c, "timeout", <<>>)
      BY <2>1, <2>2, <2>5, OneElement DEF Reasons
    <2>6. CASE call[c].status = "ringing" /\ EndsAs(c, "disconnect", <<"cancelled">>)
      BY <2>1, <2>2, <2>6, OneElement DEF Reasons
    <2>7. CASE call[c].status = "connected" /\ EndsAs(c, "disconnect", <<>>)
      BY <2>1, <2>2, <2>7, OneElement DEF Reasons
    <2>8. CASE EndsAs(c, "hangup", <<>>)
      BY <2>1, <2>2, <2>8, OneElement DEF Reasons
    <2> QED
      BY <2>3, <2>4, <2>5, <2>6, <2>7, <2>8 DEF Ends
  <1>5. RecordSays(c)'
    BY <1>1 DEF RecordSays, Ends, Ended
  <1> QED
    BY <1>3, <1>4, <1>5 DEF CallLog, Born, Ends

LEMMA LogStops ==
  ASSUME TypeInv, NEW c \in Calls, Born(c), CallLog(c), Stops(c)
  PROVE  CallLog(c)'
  <1>1. CallSays(c) /\ EventsSay(c) /\ RecordSays(c)
    BY DEF CallLog
  <1>2. call[c].status = "ended" /\ call'[c] = call[c] /\ loop'[c] = "stopping"
    BY <1>1 DEF CallSays, Stops
  <1>3. CallSays(c)'
    BY <1>1, <1>2 DEF CallSays, Stops, SamePills, Quiet, Ended
  <1> DEFINE a == IF call[c].reason = "timeout" THEN "timeout" ELSE "ended"
  <1>4. events'[c] = events[c] \o <<a>> /\ <<a>> \in Seq(EventNames) /\ a \in {"ended", "timeout"}
    <2>1. RecordOf(c).reason = "timeout" <=> call[c].reason = "timeout"
      BY DEF RecordOf
    <2>2. events'[c] = events[c] \o <<a>>
      BY <2>1 DEF Stops
    <2>3. a \in {"ended", "timeout"} /\ a \in EventNames
      BY DEF EventNames
    <2>4. <<a>> \in Seq(EventNames)
      <3> HIDE DEF a
      <3> QED
        BY <2>3
    <2> QED
      BY <2>2, <2>3, <2>4
  <1>5. \A x : Published(c, x)' <=> Published(c, x) \/ x = a
    <2> HIDE DEF a
    <2> QED
      BY <1>4, PublishedNext, OneElement
  <1>6. ~Published(c, "timeout") /\ ~Published(c, "ended")
    BY <1>1 DEF EventsSay, Stops, Ended
  <1>7. OnlyLastEnds(events'[c])
    <2>1. events[c] \in Seq(EventNames)
      BY DEF TypeInv, WorldType
    <2>2. "ended" \notin Elements(events[c]) /\ "timeout" \notin Elements(events[c])
      BY <1>6 DEF Published
    <2> HIDE DEF a
    <2> QED
      BY <1>4, <2>1, <2>2, LastEnds
  <1>8. EventsSay(c)'
    BY <1>1, <1>2, <1>5, <1>6, <1>7 DEF EventsSay, Stops, Ended
  <1>9. RecordSays(c)'
    BY <1>1, <1>2 DEF RecordSays, RecordOf, Stops, Ended
  <1> QED
    BY <1>3, <1>8, <1>9 DEF CallLog, Born, Stops

LEMMA LogActor ==
  ASSUME TypeInv, LogInv, NEW c \in Calls, CallActor(c)
  PROVE  LogInv'
  <1>1. Acts(c) /\ Turn(c) /\ OthersStay(c)
    BY CallActorTurn DEF Effect
  <1>2. Born(c) /\ loop'[c] # "unborn" /\ CallLog(c)
    BY <1>1 DEF Acts, LogInv
  <1>3. CallLog(c)'
    BY <1>1, <1>2, LogMoves, LogRings, LogAnswered, LogAnnounces, LogEnds, LogStops DEF Turn
  <1>4. ASSUME NEW d \in Calls \ {c} PROVE CallLog(d)'
    <2>1. /\ call'[d] = call[d] /\ loop'[d] = loop[d] /\ events'[d] = events[d] /\ record'[d] = record[d]
          /\ inbox'[d] = inbox[d]
      BY <1>1 DEF Acts, OthersStay
    <2>2. CallLog(d) /\ (HasPill(d)' => HasPill(d))
      BY <2>1 DEF LogInv, HasPill
    <2> QED
      BY <2>1, <2>2, SaysStays
  <1> QED
    BY <1>3, <1>4 DEF LogInv

\* Nobody but a call actor puts a pill into its mailbox.
LEMMA LogMail ==
  ASSUME TypeInv, LogInv, UNCHANGED <<call, loop, events, record>>,
         \/ inbox' = inbox
         \/ \E c \in Calls : \E m \in ActorMessageType :
              m.op # "pill" /\ inbox' = [inbox EXCEPT ![c] = Append(@, m)]
  PROVE  LogInv'
  <1>1. ASSUME NEW d \in Calls PROVE HasPill(d)' => HasPill(d)
    <2>1. CASE inbox' = inbox
      BY <2>1 DEF HasPill
    <2>2. CASE \E c \in Calls : \E m \in ActorMessageType :
                 m.op # "pill" /\ inbox' = [inbox EXCEPT ![c] = Append(@, m)]
      <3>1. PICK c \in Calls : \E m \in ActorMessageType :
              m.op # "pill" /\ inbox' = [inbox EXCEPT ![c] = Append(@, m)]
        BY <2>2
      <3>2. PICK m \in ActorMessageType : m.op # "pill" /\ inbox' = [inbox EXCEPT ![c] = Append(@, m)]
        BY <3>1
      <3>3. Elements(inbox'[d]) \subseteq Elements(inbox[d]) \cup {m}
        BY <3>2, InboxAppend
      <3> QED
        BY <3>2, <3>3 DEF HasPill
    <2> QED
      BY <2>1, <2>2
  <1>2. ASSUME NEW d \in Calls PROVE CallLog(d)'
    BY <1>1, SaysStays DEF LogInv
  <1> QED
    BY <1>2 DEF LogInv

LEMMA LogSpawn ==
  ASSUME TypeInv, LogInv, ManagerSpawn
  PROVE  LogInv'
  <1>1. PICK answer \in AskGateways(cmd.uid) :
          \E g \in FirstOf(answer), c \in {d \in Calls : ~Born(d)} :
            /\ call' = [call EXCEPT ![c] = NewCall(cmd.uid, cmd.to, g)]
            /\ loop' = [loop EXCEPT ![c] = "start"]
    BY DEF ManagerSpawn
  <1>2. PICK g \in FirstOf(answer), c \in {d \in Calls : ~Born(d)} :
          /\ call' = [call EXCEPT ![c] = NewCall(cmd.uid, cmd.to, g)]
          /\ loop' = [loop EXCEPT ![c] = "start"]
    BY <1>1
  <1>3. UNCHANGED <<inbox, events, record>>
    BY DEF ManagerSpawn, worldVars
  <1>4. /\ call'[c].status = "ringing" /\ call'[c].reason = "" /\ call'[c].answered = FALSE
        /\ loop'[c] = "start"
        /\ \A d \in Calls \ {c} : call'[d] = call[d] /\ loop'[d] = loop[d]
    BY <1>2 DEF TypeInv, ActorType, NewCall
  <1>5. record[c] = None /\ events[c] = <<>> /\ ~HasPill(c)
    BY <1>2 DEF LogInv, CallLog
  <1>6. CallLog(c)'
    <2>1. CallSays(c)'
      BY <1>3, <1>4, <1>5 DEF CallSays, HasPill, Ended
    <2>2. \A x : ~Published(c, x)'
      BY <1>3, <1>5, OneElement DEF Published
    <2>3. EventsSay(c)'
      BY <1>4, <2>2 DEF EventsSay, Ended
    <2>4. RecordSays(c)'
      BY <1>3, <1>5 DEF RecordSays
    <2> QED
      BY <1>4, <2>1, <2>3, <2>4 DEF CallLog, Born
  <1>7. ASSUME NEW d \in Calls \ {c} PROVE CallLog(d)'
    BY <1>3, <1>4, SaysStays DEF LogInv, HasPill
  <1> QED
    BY <1>6, <1>7 DEF LogInv

LEMMA LogStep ==
  ASSUME TypeInv, LogInv, [Next]_vars
  PROVE  LogInv'
  <1>1. CASE Client \/ (\E g \in Gateways : CloseGateway(g)) \/ UNCHANGED vars
             \/ (\E c \in Calls : MonitorCall(c)) \/ (\E g \in Gateways : Monitor(g))
    <2>1. UNCHANGED <<call, loop, events, record, inbox>>
      BY <1>1 DEF Client, Connect, Disconnect, SendCmd, GatewayGivesUp, CloseGateway, MonitorCall, Monitor,
                  vars, actorVars, worldVars
    <2> QED
      BY <2>1, LogMail
  <1>2. CASE ManagerInitiate \/ ManagerTimeout \/ ManagerTerminated
    <2>1. UNCHANGED <<call, loop, events, record, inbox>>
      BY <1>2 DEF ManagerInitiate, ManagerTimeout, ManagerTerminated, actorVars, worldVars
    <2> QED
      BY <2>1, LogMail
  <1>3. CASE ManagerForward
    <2>1. /\ Head(mbox) \in CommandType /\ Head(mbox).op \in CallOps
      BY <1>3, ManagerTakes, ManagerMessages DEF ManagerForward, CallOps
    <2>2. Head(mbox).call \in Calls /\ Head(mbox) \in ActorMessageType /\ Head(mbox).op # "pill"
      BY <2>1, CommandFields DEF CallOps
    <2>3. UNCHANGED <<call, loop, events, record>>
      BY <1>3 DEF ManagerForward, worldVars
    <2>4. \/ inbox' = inbox
          \/ inbox' = [inbox EXCEPT ![Head(mbox).call] = Append(@, Head(mbox))]
      BY <1>3 DEF ManagerForward
    <2> QED
      BY <2>2, <2>3, <2>4, LogMail
  <1>4. ASSUME NEW c \in Calls, TimerFires(c) PROVE LogInv'
    <2>1. [op |-> "timeout"] \in ActorMessageType /\ [op |-> "timeout"].op # "pill"
      BY DEF ActorMessageType
    <2>2. /\ inbox' = [inbox EXCEPT ![c] = Append(@, [op |-> "timeout"])]
          /\ UNCHANGED <<call, loop, events, record>>
      BY <1>4 DEF TimerFires, worldVars
    <2> QED
      BY <2>1, <2>2, LogMail
  <1>5. ASSUME NEW g \in Gateways, NEW c \in Calls, MonitorTell(g, c) PROVE LogInv'
    <2>1. [op |-> "terminated", gateway |-> g] \in ActorMessageType
          /\ [op |-> "terminated", gateway |-> g].op # "pill"
      BY DEF ActorMessageType
    <2>2. /\ \/ inbox' = inbox
             \/ inbox' = [inbox EXCEPT ![c] = Append(@, [op |-> "terminated", gateway |-> g])]
          /\ UNCHANGED <<call, loop, events, record>>
      BY <1>5 DEF MonitorTell, worldVars
    <2> QED
      BY <2>1, <2>2, LogMail
  <1> QED
    BY <1>1, <1>2, <1>3, <1>4, <1>5, LogSpawn, LogActor DEF Next, Manager, Monitors

LEMMA LogInit ==
  ASSUME Init
  PROVE  LogInv
  BY OneElement DEF Init, LogInv, CallLog, Born, HasPill

LEMMA LogInvImplies ==
  ASSUME TypeInv, LogInv
  PROVE  RecordMatchesEvents
  <1>1. ASSUME NEW c \in Calls, record[c] # None
        PROVE  /\ Born(c) /\ CallSays(c) /\ EventsSay(c) /\ record[c] = RecordOf(c) /\ Ended(c)
               /\ call[c].status = "ended" /\ call[c].reason # ""
    BY <1>1 DEF LogInv, CallLog, RecordSays, CallSays
  <1>2. ASSUME NEW c \in Calls, record[c] # None
        PROVE  /\ record[c].status = "completed" <=> call[c].answered
               /\ record[c].reason = call[c].reason
    <2>1. /\ record[c].status = IF call[c].answered THEN "completed" ELSE "missed"
          /\ record[c].reason = IF call[c].reason = "" THEN "hangup" ELSE call[c].reason
      <3>1. /\ RecordOf(c).status = IF call[c].answered THEN "completed" ELSE "missed"
            /\ RecordOf(c).reason = IF call[c].reason = "" THEN "hangup" ELSE call[c].reason
        BY DEF RecordOf
      <3> QED
        BY <1>1, <1>2, <3>1
    <2>2. call[c].reason # ""
      BY <1>1, <1>2
    <2> QED
      BY <2>1, <2>2
  <1> QED
    <2>1. ASSUME NEW c \in Calls, record[c] # None
          PROVE  /\ record[c].status = "completed" <=> Published(c, "accepted")
                 /\ record[c].reason = "rejected" <=> Published(c, "rejected")
                 /\ record[c].reason = "timeout" <=> Published(c, "timeout")
                 /\ record[c].reason = "cancelled" => Published(c, "cancelled")
                 /\ Published(c, "cancelled") => record[c].reason \in {"cancelled", "disconnect"}
                                                  /\ ~Published(c, "accepted")
                 /\ OnlyLastEnds(events[c])
      <3>1. loop[c] # "accept"
        BY <1>1, <2>1 DEF Ended
      <3>2. EventsSay(c) /\ Ended(c)
        BY <1>1, <2>1
      <3>3. record[c].status = "completed" <=> Published(c, "accepted")
        BY <1>2, <2>1, <3>1, <3>2 DEF EventsSay
      <3>4. record[c].reason = call[c].reason
        BY <1>2, <2>1
      <3> QED
        BY <3>2, <3>3, <3>4 DEF EventsSay
    <2> QED
      BY <2>1 DEF OnlyLastEnds, RecordMatchesEvents

(* The stored row of a call says what its clients were told, for any users,
   devices, calls and faults: whichever of a command, the timer and the end of
   a device comes first, and whatever is still in the mailbox when the call
   ends.  Inductive is that the fields of the call, the events and the row
   agree at every point of every handler (LogInv). *)
THEOREM LogTellsTheTruth == Spec => []RecordMatchesEvents
  <1>1. Init => TypeInv /\ LogInv
    BY TypeInit, LogInit
  <1>2. TypeInv /\ LogInv /\ [Next]_vars => TypeInv' /\ LogInv'
    BY TypeStep, LogStep
  <1>3. TypeInv /\ LogInv => RecordMatchesEvents
    BY LogInvImplies
  <1> QED
    BY <1>1, <1>2, <1>3, PTL DEF Spec

-----------------------------------------------------------------------------
(* The actors as the call service of CallSession. *)

\* What the refinement mapping makes of the calls.
PhaseOf == [c \in Calls |-> IF ~Born(c) THEN "none"
                            ELSE IF call[c].status = "ended" THEN "over"
                            ELSE call[c].status]
AnsweredOf == [c \in Calls |-> Born(c) /\ call[c].answered]
OutcomeOf == [c \in Calls |-> IF Born(c) THEN call[c].reason ELSE ""]

SameSession == UNCHANGED <<PhaseOf, AnsweredOf, OutcomeOf, busy, record>>

LEMMA SessionStutters ==
  ASSUME SameSession
  PROVE  UNCHANGED Session!sessionVars
  BY DEF SameSession, PhaseOf, AnsweredOf, OutcomeOf, Session!sessionVars

LEMMA SessionRings ==
  ASSUME NEW c \in Calls, NEW u \in Users, NEW v \in Users,
         PhaseOf[c] = "none", u # v, busy[u] = None, busy[v] = None,
         PhaseOf' = [PhaseOf EXCEPT ![c] = "ringing"], busy' = [busy EXCEPT ![u] = c, ![v] = c],
         UNCHANGED <<AnsweredOf, OutcomeOf, record>>
  PROVE  Session!Next
  <1>1. Session!Ring(c, u, v)
    BY DEF PhaseOf, AnsweredOf, OutcomeOf, Session!Ring
  <1> QED
    BY <1>1 DEF Session!Next

LEMMA SessionAnswers ==
  ASSUME NEW c \in Calls, PhaseOf[c] = "ringing", PhaseOf' = [PhaseOf EXCEPT ![c] = "connected"],
         AnsweredOf' = [AnsweredOf EXCEPT ![c] = TRUE], UNCHANGED <<OutcomeOf, busy, record>>
  PROVE  Session!Next
  <1>1. Session!Answer(c)
    BY DEF PhaseOf, AnsweredOf, OutcomeOf, Session!Answer
  <1> QED
    BY <1>1 DEF Session!Next

LEMMA SessionEnds ==
  ASSUME NEW c \in Calls, NEW why \in Reasons,
         PhaseOf[c] \in {"ringing", "connected"},
         why \in IF PhaseOf[c] = "ringing" THEN Session!Unanswered ELSE Session!Answered,
         OutcomeOf' = [OutcomeOf EXCEPT ![c] = why], PhaseOf' = [PhaseOf EXCEPT ![c] = "over"],
         UNCHANGED <<AnsweredOf, busy, record>>
  PROVE  Session!Next
  <1>1. Session!End(c)
    BY DEF PhaseOf, AnsweredOf, OutcomeOf, Session!End
  <1> QED
    BY <1>1 DEF Session!Next

LEMMA SessionLogs ==
  ASSUME NEW c \in Calls, PhaseOf[c] = "over", record[c] = None,
         record' = [record EXCEPT ![c] = [status |-> IF AnsweredOf[c] THEN "completed" ELSE "missed",
                                          reason |-> OutcomeOf[c]]],
         UNCHANGED <<PhaseOf, AnsweredOf, OutcomeOf, busy>>
  PROVE  Session!Next
  <1>1. Session!Log(c)
    BY DEF PhaseOf, AnsweredOf, OutcomeOf, Session!Log
  <1> QED
    BY <1>1 DEF Session!Next

LEMMA SessionReleases ==
  ASSUME NEW c \in Calls, PhaseOf[c] = "over", \E u \in Users : busy[u] = c,
         busy' = [u \in Users |-> IF busy[u] = c THEN None ELSE busy[u]],
         UNCHANGED <<PhaseOf, AnsweredOf, OutcomeOf, record>>
  PROVE  Session!Next
  <1>1. Session!Release(c)
    BY DEF PhaseOf, AnsweredOf, OutcomeOf, Session!Release
  <1> QED
    BY <1>1 DEF Session!Next

\* A call as the service sees it.
LEMMA SeenAs ==
  ASSUME NEW c \in Calls, Born(c)
  PROVE  /\ PhaseOf[c] = IF call[c].status = "ended" THEN "over" ELSE call[c].status
         /\ AnsweredOf[c] <=> call[c].answered
         /\ OutcomeOf[c] = call[c].reason
  BY DEF PhaseOf, AnsweredOf, OutcomeOf

LEMMA SessionTurn ==
  ASSUME TypeInv, TypeInv', LogInv, NEW c \in Calls, CallActor(c)
  PROVE  Session!Next \/ UNCHANGED Session!sessionVars
  <1>1. Acts(c) /\ Turn(c) /\ OthersStay(c) /\ UNCHANGED busy
    BY CallActorTurn DEF Effect, Around
  <1>2. /\ Born(c) /\ Born(c)' /\ CallLog(c) /\ CallSays(c)
        /\ call[c].status \in {"ringing", "connected", "ended"}
        /\ call[c].answered \in BOOLEAN /\ call'[c].answered \in BOOLEAN
    BY <1>1, AtWork DEF Acts, Born, LogInv, CallLog, CallType
  <1>3. \A d \in Calls \ {c} :
          PhaseOf'[d] = PhaseOf[d] /\ AnsweredOf'[d] = AnsweredOf[d] /\ OutcomeOf'[d] = OutcomeOf[d]
    BY <1>1 DEF Acts, PhaseOf, AnsweredOf, OutcomeOf, Born
  <1>4. /\ PhaseOf[c] = IF call[c].status = "ended" THEN "over" ELSE call[c].status
        /\ AnsweredOf[c] = call[c].answered /\ OutcomeOf[c] = call[c].reason
        /\ PhaseOf'[c] = IF call'[c].status = "ended" THEN "over" ELSE call'[c].status
        /\ AnsweredOf'[c] = call'[c].answered /\ OutcomeOf'[c] = call'[c].reason
    BY <1>2 DEF PhaseOf, AnsweredOf, OutcomeOf
  <1>5. /\ PhaseOf = [d \in Calls |-> PhaseOf[d]] /\ PhaseOf' = [d \in Calls |-> PhaseOf'[d]]
        /\ AnsweredOf = [d \in Calls |-> AnsweredOf[d]] /\ AnsweredOf' = [d \in Calls |-> AnsweredOf'[d]]
        /\ OutcomeOf = [d \in Calls |-> OutcomeOf[d]] /\ OutcomeOf' = [d \in Calls |-> OutcomeOf'[d]]
        /\ record = [d \in Calls |-> record[d]] /\ record' = [d \in Calls |-> record'[d]]
    BY DEF PhaseOf, AnsweredOf, OutcomeOf, TypeInv, WorldType
  <1>6. \A d \in Calls \ {c} : record'[d] = record[d]
    BY <1>1 DEF OthersStay
  <1>7. CASE Moves(c) \/ Rings(c) \/ Announces(c)
    <2>1. /\ call'[c].status = call[c].status /\ call'[c].reason = call[c].reason
          /\ call'[c].answered = call[c].answered /\ record'[c] = record[c]
      BY <1>7 DEF Moves, Rings, Announces
    <2>2. \A d \in Calls : /\ PhaseOf'[d] = PhaseOf[d] /\ AnsweredOf'[d] = AnsweredOf[d]
                           /\ OutcomeOf'[d] = OutcomeOf[d] /\ record'[d] = record[d]
      BY <1>3, <1>4, <1>6, <2>1
    <2>3. SameSession
      BY <1>1, <1>5, <2>2 DEF SameSession
    <2> QED
      BY <2>3, SessionStutters
  <1>8. CASE IsAnswered(c)
    <2>1. /\ call[c].status = "ringing" /\ call'[c].status = "connected" /\ call'[c].answered = TRUE
          /\ call'[c].reason = call[c].reason /\ record'[c] = record[c]
      BY <1>8 DEF IsAnswered
    <2>2. PhaseOf[c] = "ringing" /\ PhaseOf' = [PhaseOf EXCEPT ![c] = "connected"]
      BY <1>3, <1>4, <1>5, <2>1
    <2>3. AnsweredOf' = [AnsweredOf EXCEPT ![c] = TRUE]
      BY <1>3, <1>4, <1>5, <2>1
    <2>4. UNCHANGED <<OutcomeOf, busy, record>>
      BY <1>1, <1>3, <1>4, <1>5, <1>6, <2>1
    <2> QED
      BY <2>2, <2>3, <2>4, SessionAnswers
  <1>9. CASE Ends(c)
    <2>1. /\ call[c].status \in {"ringing", "connected"} /\ call'[c].status = "ended"
          /\ call'[c].answered = call[c].answered /\ record'[c] = record[c]
      BY <1>2, <1>9 DEF Ends
    <2>2. /\ call[c].status = "ringing" => call'[c].reason \in Session!Unanswered
          /\ call[c].status = "connected" => call'[c].reason \in Session!Answered
      BY <1>9 DEF Ends, EndsAs, Session!Unanswered, Session!Answered
    <2>3. PhaseOf[c] = call[c].status /\ PhaseOf' = [PhaseOf EXCEPT ![c] = "over"]
      BY <1>3, <1>4, <1>5, <2>1
    <2>4. OutcomeOf' = [OutcomeOf EXCEPT ![c] = call'[c].reason]
      BY <1>3, <1>4, <1>5
    <2>5. UNCHANGED <<AnsweredOf, busy, record>>
      BY <1>1, <1>3, <1>4, <1>5, <1>6, <2>1
    <2> QED
      <3>1. PhaseOf[c] \in {"ringing", "connected"}
        BY <2>1, <2>3
      <3>2. call'[c].reason \in IF PhaseOf[c] = "ringing" THEN Session!Unanswered ELSE Session!Answered
        BY <2>1, <2>2, <2>3
      <3>3. PICK why \in Reasons : why = call'[c].reason
        BY <1>9 DEF Ends, EndsAs, Reasons
      <3>4. why \in IF PhaseOf[c] = "ringing" THEN Session!Unanswered ELSE Session!Answered
        BY <3>2, <3>3
      <3>5. OutcomeOf' = [OutcomeOf EXCEPT ![c] = why]
        BY <2>4, <3>3
      <3>6. Session!Next
        BY <2>3, <2>5, <3>1, <3>4, <3>5, SessionEnds
      <3> QED
        BY <3>6
  <1>10. CASE Stops(c)
    <2>1. /\ call[c].status = "ended" /\ call'[c] = call[c] /\ call[c].reason # ""
          /\ record'[c] \in {RecordOf(c), record[c]} /\ record[c] = None
      BY <1>2, <1>10 DEF CallSays, CallLog, RecordSays, Ended, Stops
    <2>2. UNCHANGED <<PhaseOf, AnsweredOf, OutcomeOf, busy>>
      <3>1. /\ PhaseOf'[c] = PhaseOf[c] /\ AnsweredOf'[c] = AnsweredOf[c]
            /\ OutcomeOf'[c] = OutcomeOf[c]
        BY <1>4, <2>1
      <3>2. PhaseOf' = PhaseOf
        BY <1>3, <1>5, <3>1
      <3>3. AnsweredOf' = AnsweredOf
        BY <1>3, <1>5, <3>1
      <3>4. OutcomeOf' = OutcomeOf
        BY <1>3, <1>5, <3>1
      <3> QED
        BY <1>1, <3>2, <3>3, <3>4
    <2>3. CASE record'[c] = record[c]
      <3>1. SameSession
        BY <1>5, <1>6, <2>2, <2>3 DEF SameSession
      <3> QED
        BY <3>1, SessionStutters
    <2>4. CASE record'[c] = RecordOf(c)
      <3>1. RecordOf(c) = [status |-> IF AnsweredOf[c] THEN "completed" ELSE "missed",
                           reason |-> OutcomeOf[c]]
        BY <1>4, <2>1 DEF RecordOf
      <3>2. record' = [record EXCEPT ![c] = RecordOf(c)]
        BY <1>5, <1>6, <2>4
      <3>3. PhaseOf[c] = "over"
        BY <1>4, <2>1
      <3> QED
        BY <2>1, <2>2, <3>1, <3>2, <3>3, SessionLogs
    <2> QED
      BY <2>1, <2>3, <2>4
  <1> QED
    BY <1>1, <1>7, <1>8, <1>9, <1>10 DEF Turn

LEMMA SessionSpawn ==
  ASSUME TypeInv, BusyInv, ManagerSpawn
  PROVE  Session!Next
  <1>1. /\ cmd.uid \in Users /\ cmd.to \in Users
        /\ cmd.uid # cmd.to /\ busy[cmd.uid] = None /\ busy[cmd.to] = None
    BY CommandFields DEF ManagerSpawn, TypeInv, ManagerType, BusyInv, TwoAreFree
  <1>2. PICK answer \in AskGateways(cmd.uid) :
          \E g \in FirstOf(answer), c \in {d \in Calls : ~Born(d)} :
            /\ call' = [call EXCEPT ![c] = NewCall(cmd.uid, cmd.to, g)]
            /\ loop' = [loop EXCEPT ![c] = "start"]
            /\ busy' = [busy EXCEPT ![cmd.uid] = c, ![cmd.to] = c]
    BY DEF ManagerSpawn
  <1>3. PICK g \in FirstOf(answer), c \in {d \in Calls : ~Born(d)} :
          /\ call' = [call EXCEPT ![c] = NewCall(cmd.uid, cmd.to, g)]
          /\ loop' = [loop EXCEPT ![c] = "start"]
          /\ busy' = [busy EXCEPT ![cmd.uid] = c, ![cmd.to] = c]
    BY <1>2
  <1>4. /\ call'[c].status = "ringing" /\ call'[c].reason = "" /\ call'[c].answered = FALSE
        /\ loop'[c] = "start" /\ loop[c] = "unborn"
        /\ \A d \in Calls \ {c} : call'[d] = call[d] /\ loop'[d] = loop[d]
    BY <1>3 DEF TypeInv, ActorType, NewCall, Born
  <1>5. PhaseOf[c] = "none" /\ PhaseOf' = [PhaseOf EXCEPT ![c] = "ringing"]
    <2>1. PhaseOf[c] = "none" /\ PhaseOf'[c] = "ringing"
      BY <1>3, <1>4 DEF PhaseOf, Born
    <2>2. \A d \in Calls \ {c} : PhaseOf'[d] = PhaseOf[d]
      BY <1>4 DEF PhaseOf, Born
    <2>3. PhaseOf = [d \in Calls |-> PhaseOf[d]] /\ PhaseOf' = [d \in Calls |-> PhaseOf'[d]]
      BY DEF PhaseOf
    <2> QED
      BY <2>1, <2>2, <2>3
  <1>6. UNCHANGED AnsweredOf
    BY <1>3, <1>4 DEF AnsweredOf, Born
  <1>7. UNCHANGED OutcomeOf
    <2>1. \A d \in Calls \ {c} : OutcomeOf'[d] = OutcomeOf[d]
      BY <1>4 DEF OutcomeOf, Born
    <2>3. OutcomeOf'[c] = "" /\ OutcomeOf[c] = ""
      BY <1>3, <1>4 DEF OutcomeOf, Born
    <2>2. OutcomeOf = [d \in Calls |-> OutcomeOf[d]] /\ OutcomeOf' = [d \in Calls |-> OutcomeOf'[d]]
      BY DEF OutcomeOf
    <2> QED
      BY <2>1, <2>2, <2>3
  <1>8. UNCHANGED record
    BY DEF ManagerSpawn, worldVars
  <1> QED
    BY <1>1, <1>3, <1>5, <1>6, <1>7, <1>8, SessionRings

LEMMA SessionFreed ==
  ASSUME TypeInv, BusyInv, LogInv, ManagerTerminated
  PROVE  Session!Next \/ UNCHANGED Session!sessionVars
  <1>1. PICK c \in Calls : c = Head(mbox).call /\ loop[c] = "done"
    BY ManagerTakes, ManagerMessages DEF ManagerTerminated, BusyInv, EndsAreTold
  <1>2. /\ busy' = [u \in Users |-> IF busy[u] = c THEN None ELSE busy[u]]
        /\ UNCHANGED <<call, loop, record>>
    BY <1>1 DEF ManagerTerminated, FreeParties, actorVars, worldVars
  <1>3. UNCHANGED <<PhaseOf, AnsweredOf, OutcomeOf, record>>
    BY <1>2 DEF PhaseOf, AnsweredOf, OutcomeOf, Born
  <1>4. PhaseOf[c] = "over"
    BY <1>1 DEF PhaseOf, Born, LogInv, CallLog, CallSays, Ended
  <1>5. CASE \E u \in Users : busy[u] = c
    BY <1>2, <1>3, <1>4, <1>5, SessionReleases
  <1>6. CASE ~\E u \in Users : busy[u] = c
    <2>1. busy' = busy
      BY <1>2, <1>6 DEF TypeInv, ManagerType
    <2> QED
      BY <1>3, <2>1, SessionStutters DEF SameSession
  <1> QED
    BY <1>5, <1>6

LEMMA SessionStep ==
  ASSUME IInv, TypeInv', [Next]_vars
  PROVE  Session!Next \/ UNCHANGED Session!sessionVars
  <1>1. CASE /\ ~\E c \in Calls : CallActor(c)
             /\ ~ManagerSpawn /\ ~ManagerTerminated
    <2>1. UNCHANGED <<call, loop, busy, record>>
      BY <1>1 DEF Next, Client, Monitors, Manager, Connect, Disconnect, SendCmd, GatewayGivesUp, CloseGateway,
           Monitor, MonitorTell, TimerFires, MonitorCall, ManagerInitiate, ManagerForward, ManagerTimeout,
           vars, gatewayVars, managerVars, actorVars, worldVars
    <2>2. UNCHANGED <<PhaseOf, AnsweredOf, OutcomeOf>>
      BY <2>1 DEF PhaseOf, AnsweredOf, OutcomeOf, Born
    <2> QED
      BY <2>1, <2>2, SessionStutters DEF SameSession
  <1> QED
    BY <1>1, SessionTurn, SessionSpawn, SessionFreed DEF IInv

LEMMA SessionInit ==
  ASSUME Init
  PROVE  Session!Init
  BY DEF Init, Born, Session!Init

(* The manager, the call actors, their mailboxes, timers and watches do
   nothing but what the call service of CallSession does, for any users,
   devices, calls and faults: a user is engaged in one call at most, a call is
   answered once and while it rings, ends once and for one reason, is logged
   after its end with what happened, and its two are free only after it. *)
THEOREM ActorsImplementCallService == Spec => Session!Safety
  <1>1. Init => IInv /\ Session!Init
    BY TypeInit, BusyInit, LogInit, SessionInit DEF IInv
  <1>2. IInv /\ [Next]_vars => IInv'
    BY TypeStep, BusyStep, LogStep DEF IInv
  <1>3. IInv /\ IInv' /\ [Next]_vars => [Session!Next]_(Session!sessionVars)
    BY SessionStep DEF IInv
  <1> QED
    BY <1>1, <1>2, <1>3, PTL DEF Spec, Session!Safety
=============================================================================
