------------------------------ MODULE Signals ------------------------------
(***************************************************************************)
(* Timers and watches together: what actors are told by goroutines that    *)
(* are nobody's loop, while they themselves, and those they watch, end.    *)
(***************************************************************************)
EXTENDS Timers, Watch

CONSTANTS MaxCalls, \* bound: calls of Watch by one actor about another
          Plans     \* bound: who may watch whom, schedule timers, and end

ASSUME SignalsAssumption ==
  /\ MaxCalls \in Nat
  /\ \A p \in Plans : /\ p.watch \subseteq Actors \X Actors
                      /\ p.schedule \subseteq Actors /\ p.end \subseteq Actors

VARIABLE plan \* which of Plans this behaviour is; never changes

vars == <<life, inbox, closed, timerVars, watchVars, plan>>

Init == LifeInit /\ TimersInit /\ WatchInit /\ plan \in Plans

\* a's loop is in its handler, or takes a message.
Loop(a) == life[a] = "up" /\ Runs(a)

HandlesTimer(a) ==
  /\ Loop(a)
  /\ \E t \in Timers : (a \in plan.schedule /\ Schedule(a, t)) \/ Cancel(a, t)
  /\ UNCHANGED <<life, inbox, closed, watchVars, plan>>

HandlesWatch(a) ==
  /\ Loop(a)
  /\ \E x \in Actors :
       \/ <<a, x>> \in plan.watch /\ calls[a][x] < MaxCalls /\ WatchActor(a, x)
       \/ Unwatch(a, x)
  /\ UNCHANGED <<life, closed, timerVars, plan>>

Pulls(a) ==
  /\ Loop(a) /\ inbox[a] # <<>>
  /\ inbox' = [inbox EXCEPT ![a] = Tail(@)]
  /\ IF "who" \in DOMAIN Head(inbox[a]) THEN Notice(a, Head(inbox[a]).who) ELSE UNCHANGED watchVars
  /\ UNCHANGED <<life, closed, timerVars, plan>>

\* Engine.Stop
StopInbox(a) ==
  /\ a \in plan.end /\ life[a] = "up"
  /\ closed' = closed \cup {a}
  /\ UNCHANGED <<life, inbox, timerVars, watchVars, plan>>

\* The loop ends, and the deferred function begins with the timers.
Ends(a) ==
  /\ Loop(a)
  /\ Moves(a, "up", "cancelling")
  /\ CancelOwner(a)
  /\ UNCHANGED <<inbox, closed, watchVars, plan>>

\* A PoisonPill, or a panic.
Quits(a) == a \in plan.end /\ Ends(a)

\* Pull answers false.
Drained(a) == a \in closed /\ inbox[a] = <<>> /\ Ends(a)

Cancels(a) ==
  /\ life[a] = "cancelling"
  /\ \/ (\E t \in Timers : CancelNext(a, t)) /\ UNCHANGED life
     \/ stopping[a] = {} /\ Moves(a, "cancelling", "cleaning") /\ UNCHANGED timerVars
  /\ UNCHANGED <<inbox, closed, watchVars, plan>>

Cleans(a) ==
  /\ Moves(a, "cleaning", "leaving")
  /\ Cleanup(a)
  /\ UNCHANGED <<closed, timerVars, plan>>

Leaves(a) == (Leave(a) \/ Finish(a)) /\ UNCHANGED <<timerVars, watchVars, plan>>

Counts(a) == life[a] = "up" /\ Count(a) /\ UNCHANGED <<life, closed, timerVars, plan>>

AddReturns == AddTells /\ UNCHANGED <<life, closed, timerVars, plan>>

Monitors(s) == Monitor(s) /\ UNCHANGED <<life, closed, timerVars, plan>>

Fires(t) == Fire(t) /\ UNCHANGED <<life, inbox, closed, watchVars, plan>>

TimerRuns(t) ==
  /\ (FireFinish(t) /\ UNCHANGED inbox) \/ FireTell(t)
  /\ UNCHANGED <<life, closed, watchVars, plan>>

\* The goroutines that go on by themselves.
Server ==
  \/ \E a \in Actors : Pulls(a) \/ Drained(a) \/ Cancels(a) \/ Cleans(a) \/ Leaves(a) \/ Counts(a)
  \/ AddReturns
  \/ \E s \in States : Monitors(s)
  \/ \E t \in Timers : TimerRuns(t)

Next ==
  \/ Server
  \/ \E a \in Actors : HandlesTimer(a) \/ HandlesWatch(a) \/ StopInbox(a) \/ Quits(a)
  \/ \E t \in Timers : Fires(t)

Spec == Init /\ [][Next]_vars

\* While a goroutine of the server can run one does; which one is left open.
\* Nobody has to call anything, and no actor has to end.
FairSpec == Spec /\ WF_vars(Server)

-----------------------------------------------------------------------------
StateType ==
  [of: Actors \cup {None}, watchers: SUBSET Actors, monitor: {"none", "waits", "tells", "over"},
   stop: BOOLEAN, left: SUBSET Actors, at: Actors \cup {None}]

TypeOK ==
  /\ life \in [Actors -> {"up", "cancelling", "cleaning", "leaving", "stopped", "done"}]
  /\ inbox \in [Actors -> Seq([timer: Timers] \cup [who: Actors])]
  /\ closed \subseteq Actors
  /\ timer \in [Timers -> {"unused", "armed", "fired", "tells", "told", "stopped"}]
  /\ owner \in [Timers -> Actors \cup {None}]
  /\ timers \in [Actors -> SUBSET Timers]
  /\ stopping \in [Actors -> SUBSET Timers]
  /\ tally \in [Actors -> [scheduled: Nat, fired: Nat, cancelled: Nat]]
  /\ watches \in [Actors -> States \cup {None}]
  /\ state \in [States -> StateType]
  /\ lock \subseteq Actors \X Actors /\ Cardinality(lock) <= 1
  /\ owes \in [Actors -> {-1, 0, 1}]
  /\ active \in [Actors -> Int]
  /\ asked \in [Actors -> SUBSET Actors]
  /\ calls \in [Actors -> [Actors -> Nat]]
  /\ told \in [Actors -> [Actors -> Nat]]
  /\ plan \in Plans

(* Nobody waits in vain and nobody is told too often.  While an actor runs
   that wants to be told of another one's end, the end is still ahead or not
   yet noticed and the actor is in the table, or its notice is on its way;
   and it gets at most one notice for each of its calls of Watch, whatever
   ends, calls and monitors come in between. *)
NoticesDue ==
  \A a, x \in Actors :
    /\ life[a] = "up" /\ a \notin closed /\ x \in asked[a]
         => \/ Watching(a, x) \/ InMailbox(a, x) # {}
            \/ WithMonitor(a, x) # {} \/ WithAdd(a, x) # {}
    /\ told[a][x] + Cardinality(InMailbox(a, x)) + Cardinality(WithMonitor(a, x))
         + Cardinality(WithAdd(a, x)) + (IF Watching(a, x) THEN 1 ELSE 0) <= calls[a][x]

(* No timer outlives its owner: when the watches are cleaned up none is left
   that could fire, only those that fired before have still to tell.  A timer
   that was stopped in time never tells; the others tell once; and the table
   has exactly those of a running owner that may still come. *)
NoTimerOutlives ==
  /\ \A a \in Actors :
       /\ life[a] \notin {"up", "cancelling"} => Of(a, {"armed"}) = {}
       /\ timers[a] = IF life[a] = "up" THEN Of(a, {"armed", "fired"}) ELSE {}
       /\ life[a] = "cancelling" => Of(a, {"armed"}) \subseteq stopping[a]
  /\ \A a \in Actors, t \in Timers :
       OnItsWay(a, t) => owner[t] = a /\ timer[t] = "told"

(* The metrics are exact: what the loops and monitors have still to count
   put aside, ActiveWatches is the number of an actor's watches in the table,
   and every timer scheduled is pending or was counted once, as fired or as
   cancelled. *)
MetricsExact ==
  \A a \in Actors :
    /\ active[a] + owes[a] = Cardinality({x \in Actors : Watching(a, x)})
                             + Cardinality({s \in States : a \in state[s].left})
    /\ tally[a].scheduled = tally[a].fired + tally[a].cancelled
                            + Cardinality(Of(a, {"armed", "fired"}))

\* An add tells its caller before the caller's own full mailbox, for ever.
Stuck == \E add \in lock : ~CanTell(add[1])

(* Whoever wants to be told of an end is told, in so far as he goes on
   running and nobody is stuck in an add with the lock. *)
WatchTold ==
  <>[](Stuck \/ \A a \in Actors : life[a] = "up" => \A x \in asked[a] : ~Ended(x))
=============================================================================
