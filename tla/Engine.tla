------------------------------- MODULE Engine -------------------------------
(***************************************************************************)
(* The actor engine: the registry of names, the life of each actor         *)
(* instance from Spawn to the closing of its done channel, what a panic    *)
(* does under each supervision strategy, Stop and Shutdown.                *)
(*                                                                         *)
(* Callers are goroutines that use the engine, handlers of actors among    *)
(* them.  A call is as many actions as it takes and releases the engine's  *)
(* lock; so is the end of an instance in processLoop's deferred function.  *)
(* Of a mailbox (module Mailbox) it matters here whether it is stopped,    *)
(* how many messages are in it, and whether a PoisonPill is; their order   *)
(* is left open.                                                           *)
(***************************************************************************)
EXTENDS Integers, FiniteSets

CONSTANTS Names,
          Instances,   \* actor instances, one per successful Spawn
          Callers,
          None,        \* no instance, no name
          Strategies,  \* the supervision strategies an engine may have
          MaxRestarts, \* restarts allowed in a window; none or less: any number
          MaxBacklog   \* bound: ordinary messages in a mailbox

ASSUME EngineAssumption ==
  /\ None \notin Instances \cup Names
  /\ Strategies \subseteq {"resume", "stop", "restart"}
  /\ MaxRestarts \in Int
  /\ MaxBacklog \in Nat

VARIABLES
  actors,   \* e.actors
  name,     \* the name each instance was spawned under
  loop,     \* where its processLoop is
  stopped,  \* the instances whose mailbox is stopped
  pill,     \* those with a PoisonPill in it
  backlog,  \* the other messages in it
  restarts, \* the length of restartHistory
  objects,  \* history: OnStart calls less OnStop calls of an instance
  strategy, \* e.supervision.Strategy
  shutdown, \* e.shutdown
  call      \* what each caller is in the middle of

loopVars == <<loop, pill, backlog, restarts, objects>>
vars == <<actors, name, stopped, loopVars, strategy, shutdown, call>>

-----------------------------------------------------------------------------
Idle == [op |-> "none"]

Init ==
  /\ actors = [n \in Names |-> None]
  /\ name = [i \in Instances |-> None]
  /\ loop = [i \in Instances |-> "unborn"]
  /\ stopped = {} /\ pill = {}
  /\ backlog = [i \in Instances |-> 0]
  /\ restarts = [i \in Instances |-> 0]
  /\ objects = [i \in Instances |-> 0]
  /\ strategy \in Strategies
  /\ shutdown = FALSE
  /\ call = [c \in Callers |-> Idle]

Born(i) == loop[i] # "unborn"

Goto(i, l) == loop' = [loop EXCEPT ![i] = l]
Goes(c, next) == call' = [call EXCEPT ![c] = next]

-----------------------------------------------------------------------------
(* The engine's callers. *)

\* Bound: never more calls on their way to Spawn than instances left.
Spare ==
  Cardinality({i \in Instances : ~Born(i)})
    > Cardinality({c \in Callers : call[c].op \in {"look", "spawn"}})

\* GetOrCreate reads the flag without the lock.
GetOrCreate(c, n) ==
  /\ call[c] = Idle
  /\ ~shutdown
  /\ Spare
  /\ Goes(c, [op |-> "look", name |-> n])
  /\ UNCHANGED <<actors, name, stopped, loopVars, strategy, shutdown>>

\* It looks for the name under the read lock.
Look(c) ==
  /\ call[c].op = "look"
  /\ Goes(c, IF actors[call[c].name] = None
             THEN [op |-> "spawn", name |-> call[c].name] ELSE Idle)
  /\ UNCHANGED <<actors, name, stopped, loopVars, strategy, shutdown>>

\* A Spawn that relies on the tests GetOrCreate has made.
SpawnUnchecked(c) ==
  /\ call[c].op = "spawn"
  /\ LET n == call[c].name
     IN  \E i \in Instances :
           /\ ~Born(i)
           /\ actors' = [actors EXCEPT ![n] = i]
           /\ name' = [name EXCEPT ![i] = n]
           /\ Goto(i, "start")
  /\ Goes(c, Idle)
  /\ UNCHANGED <<stopped, pill, backlog, restarts, objects, strategy, shutdown>>

\* Spawn, from GetOrCreate or called alone.
Spawn(c) ==
  /\ call[c].op = "spawn"
  /\ LET n == call[c].name
     IN  IF shutdown \/ actors[n] # None
         THEN /\ Goes(c, IF shutdown THEN Idle ELSE [op |-> "again", name |-> n])
              /\ UNCHANGED <<actors, name, loop>>
         ELSE \E i \in Instances :
                /\ ~Born(i)
                /\ actors' = [actors EXCEPT ![n] = i]
                /\ name' = [name EXCEPT ![i] = n]
                /\ Goto(i, "start")
                /\ Goes(c, Idle)
  /\ UNCHANGED <<stopped, pill, backlog, restarts, objects, strategy, shutdown>>

\* ErrActorExists: GetOrCreate looks again, and fails if the name is free now.
Again(c) ==
  /\ call[c].op = "again"
  /\ Goes(c, Idle)
  /\ UNCHANGED <<actors, name, stopped, loopVars, strategy, shutdown>>

\* A Stop that does not ask whether there was such an actor.
StopUnchecked(c, n) ==
  /\ call[c] = Idle
  /\ actors' = [actors EXCEPT ![n] = None]
  /\ Goes(c, [op |-> "stop", inst |-> actors[n]])
  /\ UNCHANGED <<name, stopped, loopVars, strategy, shutdown>>

\* Stop: removeActor, and in a step of its own the mailbox.
Stop(c, n) ==
  /\ call[c] = Idle
  /\ actors[n] # None
  /\ actors' = [actors EXCEPT ![n] = None]
  /\ Goes(c, [op |-> "stop", inst |-> actors[n]])
  /\ UNCHANGED <<name, stopped, loopVars, strategy, shutdown>>

StopMailbox(c) ==
  /\ call[c].op = "stop"
  /\ stopped' = stopped \cup {call[c].inst}
  /\ Goes(c, Idle)
  /\ UNCHANGED <<actors, name, loopVars, strategy, shutdown>>

\* ShutdownWithContext: flag and registry under the lock.
Shutdown(c) ==
  /\ call[c] = Idle
  /\ shutdown' = TRUE
  /\ LET instances == {actors[n] : n \in Names} \ {None}
     IN  Goes(c, [op |-> "shutdown", left |-> instances, wait |-> instances])
  /\ actors' = [n \in Names |-> None]
  /\ UNCHANGED <<name, stopped, loopVars, strategy>>

\* Its first loop stops one mailbox after the other.
ShutdownStop(c) ==
  /\ call[c].op = "shutdown"
  /\ \E i \in call[c].left :
       /\ stopped' = stopped \cup {i}
       /\ Goes(c, [call[c] EXCEPT !.left = @ \ {i}])
  /\ UNCHANGED <<actors, name, loopVars, strategy, shutdown>>

\* Its second loop waits for the done channels.
ShutdownReturn(c) ==
  /\ call[c].op = "shutdown"
  /\ call[c].left = {}
  /\ \A i \in call[c].wait : loop[i] = "done"
  /\ Goes(c, Idle)
  /\ UNCHANGED <<actors, name, stopped, loopVars, strategy, shutdown>>

\* The context of the caller ends first: ShutdownTimeoutError.
ShutdownTimeout(c) ==
  /\ call[c].op = "shutdown"
  /\ call[c].left = {}
  /\ Goes(c, Idle)
  /\ UNCHANGED <<actors, name, stopped, loopVars, strategy, shutdown>>

-----------------------------------------------------------------------------
(* Messages for an instance: whoever has its reference may send them. *)

Tell(i) ==
  /\ Born(i) /\ i \notin stopped
  /\ backlog[i] < MaxBacklog
  /\ backlog' = [backlog EXCEPT ![i] = @ + 1]
  /\ UNCHANGED <<actors, name, stopped, loop, pill, restarts, objects, strategy, shutdown, call>>

TellPoisonPill(i) ==
  /\ Born(i) /\ i \notin stopped
  /\ pill' = pill \cup {i}
  /\ UNCHANGED <<actors, name, stopped, loop, backlog, restarts, objects, strategy, shutdown, call>>

-----------------------------------------------------------------------------
(* processLoop. *)

OnStart(i) ==
  /\ loop[i] = "start"
  /\ objects' = [objects EXCEPT ![i] = @ + 1]
  /\ Goto(i, "pull")
  /\ UNCHANGED <<actors, name, stopped, pill, backlog, restarts, strategy, shutdown, call>>

Pulls(i) ==
  /\ loop[i] = "pull"
  /\ backlog[i] > 0
  /\ backlog' = [backlog EXCEPT ![i] = @ - 1]

\* A handler that returns, and one that panics under StrategyResume.
Handle(i) ==
  /\ Pulls(i)
  /\ UNCHANGED <<actors, name, stopped, loop, pill, restarts, objects, strategy, shutdown, call>>

\* dispatchAndSupervise answers false.
PanicStops(i) ==
  /\ Pulls(i)
  /\ strategy = "stop"
  /\ Goto(i, "stop")
  /\ UNCHANGED <<actors, name, stopped, pill, restarts, objects, strategy, shutdown, call>>

\* allowRestart, given how many of the recorded restarts are in the window.
allowRestart(kept) == MaxRestarts <= 0 \/ kept < MaxRestarts

\* A restart that ends the old object before it knows whether it may.
PanicRestartsEarly(i) ==
  /\ Pulls(i)
  /\ strategy = "restart"
  /\ \E kept \in 0..restarts[i] :
       /\ restarts' = [restarts EXCEPT ![i] = IF MaxRestarts > 0 /\ kept < MaxRestarts
                                              THEN kept + 1 ELSE kept]
       /\ objects' = [objects EXCEPT ![i] = @ - 1]
       /\ Goto(i, IF allowRestart(kept) THEN "restart" ELSE "stop")
  /\ UNCHANGED <<actors, name, stopped, pill, strategy, shutdown, call>>

\* restart: no factory, too many restarts, no new object, or OnStop of the
\* old object.  The history is counted only where it has a limit.
PanicRestarts(i) ==
  /\ Pulls(i)
  /\ strategy = "restart"
  /\ \/ Goto(i, "stop") /\ UNCHANGED <<restarts, objects>>
     \/ \E kept \in 0..restarts[i] :
          /\ restarts' = [restarts EXCEPT ![i] = IF MaxRestarts > 0 /\ kept < MaxRestarts
                                                 THEN kept + 1 ELSE kept]
          /\ \/ Goto(i, "stop") /\ UNCHANGED objects
             \/ /\ allowRestart(kept)
                /\ objects' = [objects EXCEPT ![i] = @ - 1]
                /\ Goto(i, "restart")
  /\ UNCHANGED <<actors, name, stopped, pill, strategy, shutdown, call>>

\* After the backoff: the new object, with the old mailbox.
Restarted(i) ==
  /\ loop[i] = "restart"
  /\ objects' = [objects EXCEPT ![i] = @ + 1]
  /\ Goto(i, "pull")
  /\ UNCHANGED <<actors, name, stopped, pill, backlog, restarts, strategy, shutdown, call>>

TakePill(i) ==
  /\ loop[i] = "pull"
  /\ i \in pill
  /\ pill' = pill \ {i}
  /\ Goto(i, "stop")
  /\ UNCHANGED <<actors, name, stopped, backlog, restarts, objects, strategy, shutdown, call>>

\* Pull answers false: the mailbox is stopped and empty.
PullEnd(i) ==
  /\ loop[i] = "pull"
  /\ i \in stopped /\ i \notin pill /\ backlog[i] = 0
  /\ Goto(i, "stop")
  /\ UNCHANGED <<actors, name, stopped, pill, backlog, restarts, objects, strategy, shutdown, call>>

\* beginStop: OnStop.
OnStop(i) ==
  /\ loop[i] = "stop"
  /\ objects' = [objects EXCEPT ![i] = @ - 1]
  /\ Goto(i, "unregister")
  /\ UNCHANGED <<actors, name, stopped, pill, backlog, restarts, strategy, shutdown, call>>

\* The end of an instance that frees its name whoever has it now.
unregisterAnyone(i) ==
  /\ loop[i] = "unregister"
  /\ actors' = [actors EXCEPT ![name[i]] = None]
  /\ Goto(i, "close")
  /\ UNCHANGED <<name, stopped, pill, backlog, restarts, objects, strategy, shutdown, call>>

\* The deferred function: the name, the mailbox, the done channel.
unregisterIfCurrent(i) ==
  /\ loop[i] = "unregister"
  /\ actors' = [n \in Names |-> IF n = name[i] /\ actors[n] = i THEN None ELSE actors[n]]
  /\ Goto(i, "close")
  /\ UNCHANGED <<name, stopped, pill, backlog, restarts, objects, strategy, shutdown, call>>

CloseMailbox(i) ==
  /\ loop[i] = "close"
  /\ stopped' = stopped \cup {i}
  /\ Goto(i, "closed")
  /\ UNCHANGED <<actors, name, pill, backlog, restarts, objects, strategy, shutdown, call>>

Done(i) ==
  /\ loop[i] = "closed"
  /\ Goto(i, "done")
  /\ UNCHANGED <<actors, name, stopped, pill, backlog, restarts, objects, strategy, shutdown, call>>

-----------------------------------------------------------------------------
Begin(c) ==
  \/ \E n \in Names : GetOrCreate(c, n) \/ Stop(c, n)
  \/ Shutdown(c)
  \/ ShutdownTimeout(c)

Continue(c) ==
  \/ Look(c) \/ Spawn(c) \/ Again(c)
  \/ StopMailbox(c)
  \/ ShutdownStop(c) \/ ShutdownReturn(c)

processLoop(i) ==
  \/ OnStart(i) \/ Handle(i) \/ PanicStops(i) \/ PanicRestarts(i) \/ Restarted(i)
  \/ TakePill(i) \/ PullEnd(i) \/ OnStop(i)
  \/ unregisterIfCurrent(i) \/ CloseMailbox(i) \/ Done(i)

Next ==
  \/ \E c \in Callers : Begin(c) \/ Continue(c)
  \/ \E i \in Instances : Tell(i) \/ TellPoisonPill(i) \/ processLoop(i)

\* Calls that have begun go on, and handlers return.
Fairness ==
  /\ \A c \in Callers : WF_vars(Continue(c))
  /\ \A i \in Instances : WF_vars(processLoop(i))

Spec == Init /\ [][Next]_vars
FairSpec == Spec /\ Fairness

-----------------------------------------------------------------------------
Loops == {"unborn", "start", "pull", "restart", "stop", "unregister", "close", "closed", "done"}

CallType ==
  {Idle} \cup [op: {"look", "spawn", "again"}, name: Names] \cup [op: {"stop"}, inst: Instances]
    \cup [op: {"shutdown"}, left: SUBSET Instances, wait: SUBSET Instances]

TypeOK ==
  /\ actors \in [Names -> Instances \cup {None}]
  /\ name \in [Instances -> Names \cup {None}]
  /\ loop \in [Instances -> Loops]
  /\ stopped \subseteq Instances
  /\ pill \subseteq Instances
  /\ backlog \in [Instances -> Nat]
  /\ restarts \in [Instances -> Nat]
  /\ objects \in [Instances -> Int]
  /\ strategy \in Strategies
  /\ shutdown \in BOOLEAN
  /\ call \in [Callers -> CallType]

\* A caller has taken the name of i and has its mailbox still to stop.
Stopping(i) ==
  \E c \in Callers : \/ call[c].op = "stop" /\ call[c].inst = i
                     \/ call[c].op = "shutdown" /\ i \in call[c].left

(* The registry and the instances agree.  A name leads to an instance
   spawned under it that has not given it up, so a dead reference is never
   found for good; and an instance that runs and that nobody is stopping is
   found under its name, so two that are not being stopped never share one
   (Spawn, Stop, Shutdown and unregisterIfCurrent against each other). *)
RegistryExact ==
  /\ \A n \in Names : actors[n] # None =>
       name[actors[n]] = n /\ loop[actors[n]] \notin {"unborn", "close", "closed", "done"}
  /\ \A i \in Instances :
       loop[i] \in {"start", "pull", "restart", "stop", "unregister"} /\ i \notin stopped
         => Stopping(i) \/ actors[name[i]] = i

(* Every actor object that OnStart has begun is ended by one OnStop, before
   its successor begins and before the instance is done: through panics,
   restarts that are refused, PoisonPills and Stop. *)
HooksPaired ==
  \A i \in Instances : objects[i] = IF loop[i] \in {"pull", "stop"} THEN 1 ELSE 0

(* Once the engine is shut down every actor comes to its end, those that
   were being spawned or stopped at that moment too. *)
EverythingStops == shutdown ~> \A i \in Instances : loop[i] \in {"unborn", "done"}

-----------------------------------------------------------------------------
(* The registry implements the directory of module Directory. *)
Abs == INSTANCE Directory WITH bound <- actors, shut <- shutdown,
                               used <- {i \in Instances : Born(i)}

ImplementsDirectory == Abs!Spec
=============================================================================
