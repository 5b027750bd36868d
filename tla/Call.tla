-------------------------------- MODULE Call --------------------------------
(***************************************************************************)
(* Voice and video calls: the call manager actor, one call actor per call, *)
(* the gateways (one per connected device) with their registration in the  *)
(* presence actor, the ring timer, and the watch monitors that tell an     *)
(* actor of another one's end.                                             *)
(*                                                                         *)
(* One action is what an actor does between two points where it gives      *)
(* others the chance to run: taking a message, an Ask, an answer.  The     *)
(* presence actor answers queries in the order of its mailbox, behind the  *)
(* registrations sent before, and says nothing unasked; so a registration  *)
(* takes effect and a query is answered at the moment it is sent, while    *)
(* the asker goes on with the answer in a step of its own.                 *)
(***************************************************************************)
EXTENDS Naturals, Sequences, FiniteSets

CONSTANTS Users, Gateways,
          OwnerOf,   \* the user a gateway is connected for
          Calls,     \* the call ids GenerateCallID may produce
          None,      \* no gateway, no call: the empty string, nil
          NoAnswer,  \* an Ask that ended in an error
          MaxCmds,   \* bound: commands the clients send in all
          Faults     \* which of "ask" (an Ask times out) and "store" (an
                     \* insert fails) may happen

ASSUME CallAssumption ==
  /\ OwnerOf \in [Gateways -> Users]
  /\ None \notin Gateways \cup Calls
  /\ MaxCmds \in Nat
  /\ Faults \subseteq {"ask", "store"}

VARIABLES
  gw,         \* the gateway actors: "off", "up", "stopping", "done"
  registered, \* PresenceActor.gateways
  out,        \* the command whose answer a gateway's Ask waits for, or 0
  sent,       \* how many commands the clients have sent
  mbox,       \* the call manager's mailbox
  cmd,        \* the command the manager is in the middle of, or None
  busy,       \* CallManagerActor.busy
  refs,       \* the keys of CallManagerActor.callActorRefs
  call,       \* the fields of the call actors
  loop,       \* where a call actor's goroutine is
  inbox,      \* the call actors' mailboxes
  timer,      \* the ring timers: "off", "armed"
  watch,      \* the gateways each call actor watches
  due,        \* <<gateway, call>>: monitors about to tell Terminated
  told,       \* calls whose end the manager has been told of
  events,     \* history: the events each call actor published
  record      \* the row of each call in the call store

gatewayVars == <<gw, registered, out, sent>>
managerVars == <<mbox, cmd, busy, refs>>
actorVars == <<call, loop, inbox, timer, watch>>
worldVars == <<events, record>>
vars == <<gatewayVars, managerVars, actorVars, due, told, worldVars>>

-----------------------------------------------------------------------------
Reasons == {"hangup", "rejected", "cancelled", "timeout", "disconnect"}

NewCall(caller, callee, g) ==
  [caller |-> caller, callee |-> callee, status |-> "ringing", reason |-> "",
   answered |-> FALSE, callerGW |-> g, calleeGW |-> None, callerRef |-> None,
   calleeRef |-> None, ringRefs |-> {}]

CallOps == {"accept", "reject", "cancel", "end"}

Init ==
  /\ gw = [g \in Gateways |-> "off"]
  /\ registered = {}
  /\ out = [g \in Gateways |-> 0]
  /\ sent = 0
  /\ mbox = <<>> /\ cmd = None
  /\ busy = [u \in Users |-> None]
  /\ refs = {}
  /\ call = [c \in Calls |-> None]
  /\ loop = [c \in Calls |-> "unborn"]
  /\ inbox = [c \in Calls |-> <<>>]
  /\ timer = [c \in Calls |-> "off"]
  /\ watch = [c \in Calls |-> {}]
  /\ due = {} /\ told = {}
  /\ events = [c \in Calls |-> <<>>]
  /\ record = [c \in Calls |-> None]

Parties(c) == {call[c].caller, call[c].callee}
Born(c) == loop[c] # "unborn"

-----------------------------------------------------------------------------
(* Presence: what GetGatewaysQuery and BatchOnlineQuery answer. *)
GatewaysOf(u) == {g \in registered : OwnerOf[g] = u}
AskGateways(u) == {GatewaysOf(u)} \cup (IF "ask" \in Faults THEN {NoAnswer} ELSE {})

\* A careless caller that takes the first of an empty list.
FirstOfUntested(answer) ==
  IF answer = NoAnswer THEN {None} ELSE IF answer = {} THEN {NoAnswer} ELSE answer

\* The first gateway of an answer, which lists a Go map in any order.
FirstOf(answer) == IF answer \in {NoAnswer, {}} THEN {None} ELSE answer

\* The gateway of that name in an answer.
Lookup(g, answer) == IF answer # NoAnswer /\ g \in answer THEN g ELSE None

-----------------------------------------------------------------------------
(* The gateways and the clients behind them. *)

\* GatewayActor.OnStart: registers with presence.
Connect(g) ==
  /\ gw[g] = "off"
  /\ gw' = [gw EXCEPT ![g] = "up"]
  /\ registered' = registered \cup {g}
  /\ UNCHANGED <<out, sent, managerVars, actorVars, due, told, worldVars>>

\* WSDisconnected or IdleTimeout, then OnStop: a gateway that waits for the
\* manager's answer handles neither.
Disconnect(g) ==
  /\ gw[g] = "up"
  /\ out[g] = 0
  /\ gw' = [gw EXCEPT ![g] = "stopping"]
  /\ registered' = registered \ {g}
  /\ UNCHANGED <<out, sent, managerVars, actorVars, due, told, worldVars>>

\* processLoop closes the gateway's done channel.
CloseGateway(g) ==
  /\ gw[g] = "stopping"
  /\ gw' = [gw EXCEPT ![g] = "done"]
  /\ UNCHANGED <<registered, out, sent, managerVars, actorVars, due, told, worldVars>>

\* Bound: no more initiate commands on their way than call ids left.
SpareCall ==
  Cardinality({c \in Calls : ~Born(c)})
    > Cardinality({i \in DOMAIN mbox : mbox[i].op = "initiate"})
        + (IF cmd # None /\ cmd.op = "initiate" THEN 1 ELSE 0)

\* A call id reaches its caller in the answer to initiate, others by the
\* incoming event; nobody can guess one.
KnownCalls(u) == {c \in Calls : Born(c) /\ (u = call[c].caller \/ events[c] # <<>>)}

Commands(g) ==
  [op: {"initiate"}, uid: {OwnerOf[g]}, to: Users, by: {g}, id: {sent + 1}]
    \cup [op: CallOps, uid: {OwnerOf[g]}, call: KnownCalls(OwnerOf[g]),
          by: {g}, id: {sent + 1}]

\* A client's command: callRouter asks the manager and waits.
SendCmd(g) ==
  /\ gw[g] = "up"
  /\ out[g] = 0
  /\ sent < MaxCmds
  /\ \E m \in Commands(g) :
       /\ m.op = "initiate" => SpareCall
       /\ mbox' = Append(mbox, m)
  /\ sent' = sent + 1
  /\ out' = [out EXCEPT ![g] = sent + 1]
  /\ UNCHANGED <<gw, registered, cmd, busy, refs, actorVars, due, told, worldVars>>

\* The gateway's Ask to the manager times out; the command stays queued.
GatewayGivesUp(g) ==
  /\ "ask" \in Faults
  /\ out[g] # 0
  /\ out' = [out EXCEPT ![g] = 0]
  /\ UNCHANGED <<gw, registered, sent, managerVars, actorVars, due, told, worldVars>>

-----------------------------------------------------------------------------
(* The call manager. *)

\* The answer to m frees the gateway that still waits for it.
Answer(m) == out' = [out EXCEPT ![m.by] = IF @ = m.id THEN 0 ELSE @]

\* Without the test of the callee's mark.
InitiateNoCalleeTest(m, online) ==
  m.uid = m.to \/ busy[m.uid] # None \/ ~online

\* handleInitiate's refusals, given what presence says of the callee.
InitiateRefused(m, online) ==
  \/ m.uid = m.to
  \/ busy[m.uid] # None
  \/ ~online
  \/ busy[m.to] # None

\* handleInitiate up to its second Ask.
ManagerInitiate ==
  /\ cmd = None
  /\ mbox # <<>>
  /\ LET m == Head(mbox)
     IN  /\ m.op = "initiate"
         /\ \E answer \in AskGateways(m.to) :
              IF InitiateRefused(m, answer \notin {NoAnswer, {}})
              THEN Answer(m) /\ UNCHANGED cmd
              ELSE cmd' = m /\ UNCHANGED out
  /\ mbox' = Tail(mbox)
  /\ UNCHANGED <<gw, registered, sent, busy, refs, actorVars, due, told, worldVars>>

\* The rest of handleInitiate: name the caller's gateway, Spawn, mark both
\* busy, Watch, reply.
ManagerSpawn ==
  /\ cmd # None
  /\ cmd.op = "initiate"
  /\ \E answer \in AskGateways(cmd.uid) :
     \E g \in FirstOf(answer), c \in {d \in Calls : ~Born(d)} :
       /\ call' = [call EXCEPT ![c] = NewCall(cmd.uid, cmd.to, g)]
       /\ loop' = [loop EXCEPT ![c] = "start"]
       /\ busy' = [busy EXCEPT ![cmd.uid] = c, ![cmd.to] = c]
       /\ refs' = refs \cup {c}
  /\ Answer(cmd)
  /\ cmd' = None
  /\ UNCHANGED <<gw, registered, sent, mbox, inbox, timer, watch, due, told, worldVars>>

\* forwardToCallActor: the manager waits for the call actor's answer.
ManagerForward ==
  /\ cmd = None
  /\ mbox # <<>>
  /\ LET m == Head(mbox)
     IN  /\ m.op \in CallOps
         /\ IF m.call \in refs /\ loop[m.call] # "done"
            THEN /\ inbox' = [inbox EXCEPT ![m.call] = Append(@, m)]
                 /\ cmd' = m
                 /\ UNCHANGED out
            ELSE Answer(m) /\ UNCHANGED <<cmd, inbox>>
  /\ mbox' = Tail(mbox)
  /\ UNCHANGED <<gw, registered, sent, busy, refs, call, loop, timer, watch, due, told,
                 worldVars>>

\* The manager's Ask times out: nobody answers for a dead call actor, and a
\* live one may be too slow.
ManagerTimeout ==
  /\ cmd # None
  /\ cmd.op \in CallOps
  /\ loop[cmd.call] = "done" \/ "ask" \in Faults
  /\ Answer(cmd)
  /\ cmd' = None
  /\ UNCHANGED <<gw, registered, sent, mbox, busy, refs, actorVars, due, told, worldVars>>

\* cleanupCall.
FreeParties(c) == busy' = [u \in Users |-> IF busy[u] = c THEN None ELSE busy[u]]

\* handleTerminated: a call actor has ended.
ManagerTerminated ==
  /\ cmd = None
  /\ mbox # <<>>
  /\ Head(mbox).op = "terminated"
  /\ LET c == Head(mbox).call
     IN  /\ refs' = refs \ {c}
         /\ FreeParties(c)
  /\ mbox' = Tail(mbox)
  /\ UNCHANGED <<gatewayVars, cmd, actorVars, due, told, worldVars>>

\* The watch manager's goroutine for call actor c tells the manager.
MonitorCall(c) ==
  /\ loop[c] = "done"
  /\ c \notin told
  /\ told' = told \cup {c}
  /\ mbox' = Append(mbox, [op |-> "terminated", call |-> c])
  /\ UNCHANGED <<gatewayVars, cmd, busy, refs, actorVars, due, worldVars>>

-----------------------------------------------------------------------------
(* The call actors. *)

\* The call actor's Reply, relayed by the manager if it still waits.
Reply(m) ==
  IF cmd = m
  THEN cmd' = None /\ Answer(m)
  ELSE UNCHANGED <<cmd, out>>

\* What a handler that replies leaves alone.
ReplyFrame == UNCHANGED <<gw, registered, sent, mbox, busy, refs, due, told, record>>

Publish(c, e) == events' = [events EXCEPT ![c] = @ \o e]
Dequeue(c) == inbox' = [inbox EXCEPT ![c] = Tail(@)]
Goto(c, l) == loop' = [loop EXCEPT ![c] = l]
Takes(c, op) == loop[c] = "idle" /\ inbox[c] # <<>> /\ Head(inbox[c]).op = op

\* OnStart, first half: arm the timer, find and watch the caller's gateway.
Start(c) ==
  /\ loop[c] = "start"
  /\ timer' = [timer EXCEPT ![c] = "armed"]
  /\ \E answer \in AskGateways(call[c].caller) :
       LET g == Lookup(call[c].callerGW, answer)
       IN  /\ call' = [call EXCEPT ![c].callerRef = g]
           /\ watch' = [watch EXCEPT ![c] = @ \cup ({g} \ {None})]
  /\ Goto(c, "ring")
  /\ UNCHANGED <<gatewayVars, managerVars, inbox, due, told, worldVars>>

\* OnStart, second half: watch every gateway of the callee, announce.
Ring(c) ==
  /\ loop[c] = "ring"
  /\ \E answer \in AskGateways(call[c].callee) :
       LET G == IF answer = NoAnswer THEN {} ELSE answer
       IN  /\ call' = [call EXCEPT ![c].ringRefs = G]
           /\ watch' = [watch EXCEPT ![c] = @ \cup G]
  /\ Publish(c, <<"incoming", "calling">>)
  /\ Goto(c, "idle")
  /\ UNCHANGED <<gatewayVars, managerVars, inbox, timer, due, told, record>>

\* handleAccept's guards.
MayAccept(c, m) == m.uid = call[c].callee /\ call[c].status = "ringing"

\* handleAccept up to its second Ask: the router names no gateway, so the
\* accepting one is taken to be the callee's first; unwatch the ringing ones.
Accept(c) ==
  /\ Takes(c, "accept")
  /\ LET m == Head(inbox[c])
     IN  IF MayAccept(c, m)
         THEN /\ \E answer \in AskGateways(call[c].callee) : \E g \in FirstOf(answer) :
                   call' = [call EXCEPT ![c].status = "connected", ![c].answered = TRUE,
                                        ![c].calleeGW = g, ![c].ringRefs = {}]
              /\ watch' = [watch EXCEPT ![c] = @ \ call[c].ringRefs]
              /\ Goto(c, "accept")
              /\ UNCHANGED <<inbox, cmd, out>>
         ELSE /\ Dequeue(c)
              /\ Reply(m)
              /\ UNCHANGED <<call, watch, loop>>
  /\ ReplyFrame
  /\ UNCHANGED <<timer, events>>

\* Without the Watch of the accepting gateway.
AcceptNoWatch(c) ==
  /\ loop[c] = "accept"
  /\ \E answer \in AskGateways(call[c].callee) :
       call' = [call EXCEPT ![c].calleeRef = Lookup(call[c].calleeGW, answer)]
  /\ timer' = [timer EXCEPT ![c] = "off"]
  /\ Publish(c, <<"accepted", "answered_elsewhere">>)
  /\ Dequeue(c)
  /\ Reply(Head(inbox[c]))
  /\ Goto(c, "idle")
  /\ ReplyFrame
  /\ UNCHANGED watch

\* The rest of handleAccept: watch that gateway if it is still registered,
\* cancel the timer, reply, announce.
AcceptDone(c) ==
  /\ loop[c] = "accept"
  /\ \E answer \in AskGateways(call[c].callee) :
       LET g == Lookup(call[c].calleeGW, answer)
       IN  /\ call' = [call EXCEPT ![c].calleeRef = g]
           /\ watch' = [watch EXCEPT ![c] = @ \cup ({g} \ {None})]
  /\ timer' = [timer EXCEPT ![c] = "off"]
  /\ Publish(c, <<"accepted", "answered_elsewhere">>)
  /\ Dequeue(c)
  /\ Reply(Head(inbox[c]))
  /\ Goto(c, "idle")
  /\ ReplyFrame

\* Guards that look at who sends and not at the state of the call.
MayCloseAlways(c, m) ==
  \/ m.op = "reject" /\ m.uid = call[c].callee
  \/ m.op = "cancel" /\ m.uid = call[c].caller
  \/ m.op = "end" /\ m.uid \in Parties(c)

\* The guards of handleReject, handleCancel and handleEnd, with the reason
\* and the event of each.
MayClose(c, m) ==
  \/ m.op = "reject" /\ m.uid = call[c].callee /\ call[c].status = "ringing"
  \/ m.op = "cancel" /\ m.uid = call[c].caller /\ call[c].status = "ringing"
  \/ m.op = "end" /\ m.uid \in Parties(c) /\ call[c].status # "ended"

CloseReason == [reject |-> "rejected", cancel |-> "cancelled", end |-> "hangup"]
CloseEvents == [reject |-> <<"rejected">>, cancel |-> <<"cancelled">>, end |-> <<>>]

\* handleReject, handleCancel, handleEnd: reply; the PoisonPill comes next.
CloseCall(c) ==
  /\ \E op \in {"reject", "cancel", "end"} :
       /\ Takes(c, op)
       /\ IF MayClose(c, Head(inbox[c]))
          THEN /\ call' = [call EXCEPT ![c].status = "ended", ![c].reason = CloseReason[op]]
               /\ Publish(c, CloseEvents[op])
               /\ Goto(c, "poison")
          ELSE UNCHANGED <<call, events, loop>>
  /\ Reply(Head(inbox[c]))
  /\ Dequeue(c)
  /\ ReplyFrame
  /\ UNCHANGED <<timer, watch>>

\* ctx.Self().Tell(PoisonPill{}) at the end of a handler.
Poison(c) ==
  /\ loop[c] = "poison"
  /\ inbox' = [inbox EXCEPT ![c] = Append(@, [op |-> "pill"])]
  /\ Goto(c, "idle")
  /\ UNCHANGED <<gatewayVars, managerVars, call, timer, watch, due, told, worldVars>>

\* The ring timer fires (30 s after OnStart).
TimerFires(c) ==
  /\ timer[c] = "armed"
  /\ timer' = [timer EXCEPT ![c] = "off"]
  /\ inbox' = [inbox EXCEPT ![c] = Append(@, [op |-> "timeout"])]
  /\ UNCHANGED <<gatewayVars, managerVars, call, loop, watch, due, told, worldVars>>

\* A timeout that believes its timer was cancelled in time.
TimesOutUnended(c) == call[c].status # "ended"

TimesOut(c) == call[c].status = "ringing"

\* handleTimeout.
Timeout(c) ==
  /\ Takes(c, "timeout")
  /\ IF TimesOut(c)
     THEN /\ call' = [call EXCEPT ![c].status = "ended", ![c].reason = "timeout"]
          /\ Goto(c, "poison")
     ELSE UNCHANGED <<call, loop>>
  /\ Dequeue(c)
  /\ UNCHANGED <<gatewayVars, managerVars, timer, watch, due, told, worldVars>>

\* calleeOnlineCount = 0, where a failed query counts as one gateway.
CalleeGone(answer) == answer = {}

\* handleTerminated: what the end of gateway g does to the call.
LosesCall(c, g, answer) ==
  \/ call[c].status = "ringing" /\ g = call[c].callerGW
  \/ call[c].status = "ringing" /\ g # call[c].callerGW /\ CalleeGone(answer)
  \/ call[c].status = "connected" /\ g \in {call[c].callerGW, call[c].calleeGW}

Terminated(c) ==
  /\ Takes(c, "terminated")
  /\ \E answer \in AskGateways(call[c].callee) :
       IF LosesCall(c, Head(inbox[c]).gateway, answer)
       THEN /\ call' = [call EXCEPT ![c].status = "ended", ![c].reason = "disconnect"]
            /\ Publish(c, IF call[c].status = "ringing" THEN <<"cancelled">> ELSE <<>>)
            /\ Goto(c, "poison")
       ELSE UNCHANGED <<call, events, loop>>
  /\ Dequeue(c)
  /\ UNCHANGED <<gatewayVars, managerVars, timer, watch, due, told, record>>

\* The row OnStop writes.
RecordOf(c) == [status |-> IF call[c].answered THEN "completed" ELSE "missed",
                reason |-> IF call[c].reason = "" THEN "hangup" ELSE call[c].reason]

\* The PoisonPill: OnStop writes the record, tells the conversation of the two
\* if there is one (AppendCallRecord of module Conversation) and announces
\* the end.
Stop(c) ==
  /\ Takes(c, "pill")
  /\ timer' = [timer EXCEPT ![c] = "off"]
  /\ \/ record' = [record EXCEPT ![c] = RecordOf(c)]
     \/ "store" \in Faults /\ UNCHANGED record
  /\ Publish(c, IF RecordOf(c).reason = "timeout" THEN <<"timeout">> ELSE <<"ended">>)
  /\ Dequeue(c)
  /\ Goto(c, "stopping")
  /\ UNCHANGED <<gatewayVars, managerVars, call, watch, due, told>>

\* processLoop's deferred function: the mailbox is stopped with what is left
\* in it, and done is closed.
Finish(c) ==
  /\ loop[c] = "stopping"
  /\ Goto(c, "done")
  /\ watch' = [watch EXCEPT ![c] = {}]
  /\ inbox' = [inbox EXCEPT ![c] = <<>>]
  /\ UNCHANGED <<gatewayVars, managerVars, call, timer, due, told, worldVars>>

-----------------------------------------------------------------------------
(* The watch manager's goroutine for gateway g: take the watchers, then tell
   them one after the other. *)
Monitor(g) ==
  /\ gw[g] = "done"
  /\ LET watchers == {c \in Calls : g \in watch[c]}
     IN  /\ watchers # {}
         /\ due' = due \cup {<<g, c>> : c \in watchers}
  /\ watch' = [c \in Calls |-> watch[c] \ {g}]
  /\ UNCHANGED <<gatewayVars, managerVars, call, loop, inbox, timer, told, worldVars>>

MonitorTell(g, c) ==
  /\ <<g, c>> \in due
  /\ due' = due \ {<<g, c>>}
  /\ inbox' = IF loop[c] = "done" THEN inbox
              ELSE [inbox EXCEPT ![c] = Append(@, [op |-> "terminated", gateway |-> g])]
  /\ UNCHANGED <<gatewayVars, managerVars, call, loop, timer, watch, told, worldVars>>

-----------------------------------------------------------------------------
Client == \E g \in Gateways : Connect(g) \/ Disconnect(g) \/ SendCmd(g) \/ GatewayGivesUp(g)

Manager == ManagerInitiate \/ ManagerSpawn \/ ManagerForward \/ ManagerTimeout
             \/ ManagerTerminated

CallActor(c) ==
  \/ Start(c) \/ Ring(c) \/ Accept(c) \/ AcceptDone(c) \/ CloseCall(c) \/ Poison(c)
  \/ Timeout(c) \/ Terminated(c) \/ Stop(c) \/ Finish(c)

Monitors == \E g \in Gateways : Monitor(g) \/ (\E c \in Calls : MonitorTell(g, c))

Next ==
  \/ Client
  \/ \E g \in Gateways : CloseGateway(g)
  \/ Manager
  \/ Monitors
  \/ \E c \in Calls : CallActor(c) \/ TimerFires(c) \/ MonitorCall(c)

\* Goroutines run and timers fire; clients do as they please.
Fairness ==
  /\ WF_vars(Manager)
  /\ WF_vars(Monitors)
  /\ \A g \in Gateways : WF_vars(CloseGateway(g))
  /\ \A c \in Calls : /\ WF_vars(CallActor(c))
                      /\ WF_vars(TimerFires(c))
                      /\ WF_vars(MonitorCall(c))

Spec == Init /\ [][Next]_vars
FairSpec == Spec /\ Fairness

-----------------------------------------------------------------------------
CommandType ==
  [op: {"initiate"}, uid: Users, to: Users, by: Gateways, id: 1..MaxCmds]
    \cup [op: CallOps, uid: Users, call: Calls, by: Gateways, id: 1..MaxCmds]

ActorMessageType ==
  [op: CallOps, uid: Users, call: Calls, by: Gateways, id: 1..MaxCmds]
    \cup [op: {"pill", "timeout"}] \cup [op: {"terminated"}, gateway: Gateways]

CallType ==
  [caller: Users, callee: Users, status: {"ringing", "connected", "ended"},
   reason: Reasons \cup {""}, answered: BOOLEAN, callerGW: Gateways \cup {None},
   calleeGW: Gateways \cup {None}, callerRef: Gateways \cup {None},
   calleeRef: Gateways \cup {None}, ringRefs: SUBSET Gateways]

Elements(q) == {q[i] : i \in DOMAIN q}

TypeOK ==
  /\ gw \in [Gateways -> {"off", "up", "stopping", "done"}]
  /\ registered \subseteq Gateways
  /\ out \in [Gateways -> 0..MaxCmds]
  /\ sent \in 0..MaxCmds
  /\ Elements(mbox) \subseteq CommandType \cup [op: {"terminated"}, call: Calls]
  /\ cmd \in CommandType \cup {None}
  /\ busy \in [Users -> Calls \cup {None}]
  /\ refs \subseteq Calls
  /\ \A c \in Calls : IF Born(c) THEN call[c] \in CallType ELSE call[c] = None
  /\ loop \in [Calls -> {"unborn", "start", "ring", "idle", "accept", "poison",
                         "stopping", "done"}]
  /\ \A c \in Calls : Elements(inbox[c]) \subseteq ActorMessageType
  /\ timer \in [Calls -> {"off", "armed"}]
  /\ watch \in [Calls -> SUBSET Gateways]
  /\ due \subseteq Gateways \X Calls
  /\ told \subseteq Calls
  /\ record \in [Calls -> [status: {"completed", "missed"}, reason: Reasons] \cup {None}]

(* The manager's table and the call actors agree: both parties of a call are
   marked busy with it as long as its actor lives, so nobody is in two calls,
   and a mark never outlives the manager's knowledge of the call
   (handleInitiate, handleTerminated, cleanupCall). *)
BusyTracksCalls ==
  /\ \A c \in Calls :
       Born(c) /\ loop[c] # "done" => c \in refs /\ \A u \in Parties(c) : busy[u] = c
  /\ \A u \in Users :
       busy[u] # None => busy[u] \in refs /\ u \in Parties(busy[u])

Published(c, e) == e \in Elements(events[c])

(* The stored row of a call says what the clients were told: "completed" iff
   the call was announced as accepted, the reason the one announced, and the
   end announced once and last (OnStop against the handlers' events). *)
RecordMatchesEvents ==
  \A c \in Calls : record[c] # None =>
    LET r == record[c]
        e == events[c]
    IN  /\ r.status = "completed" <=> Published(c, "accepted")
        /\ r.reason = "rejected" <=> Published(c, "rejected")
        /\ r.reason = "timeout" <=> Published(c, "timeout")
        /\ r.reason = "cancelled" => Published(c, "cancelled")
        /\ Published(c, "cancelled") => r.reason \in {"cancelled", "disconnect"}
                                         /\ ~Published(c, "accepted")
        /\ \A i \in DOMAIN e : e[i] \in {"ended", "timeout"} <=> i = Len(e)

(* When a gateway the call actor holds a reference to ends, the call ends,
   also when the gateway ended while its Terminated, a command or the timer
   was still on its way (handleTerminated, Watch and Unwatch in handleAccept). *)
HeldGatewayEndsCall ==
  \A c \in Calls :
    (/\ Born(c)
     /\ call[c].status = "connected"
     /\ \E g \in {call[c].callerRef, call[c].calleeRef} \ {None} : gw[g] = "done")
      ~> (Born(c) /\ call[c].status = "ended")

(* What the requirements say of a call in progress: losing the network ends
   it.  A connected call whose caller or callee has no device left ends. *)
Deserted(c) ==
  /\ Born(c)
  /\ call[c].status = "connected"
  /\ \E u \in Parties(c) : \A g \in Gateways : OwnerOf[g] = u => gw[g] = "done"

DisconnectEndsCall ==
  \A c \in Calls : Deserted(c) ~> (Born(c) /\ call[c].status = "ended")

-----------------------------------------------------------------------------
(* The actors implement the call service of module CallSession. *)
Session ==
  INSTANCE CallSession WITH
    phase <- [c \in Calls |-> IF ~Born(c) THEN "none"
                              ELSE IF call[c].status = "ended" THEN "over"
                              ELSE call[c].status],
    answered <- [c \in Calls |-> Born(c) /\ call[c].answered],
    outcome <- [c \in Calls |-> IF Born(c) THEN call[c].reason ELSE ""],
    engaged <- busy,
    log <- record

ImplementsCallSession == Session!Spec
=============================================================================
