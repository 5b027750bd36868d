------------------------------- MODULE Timers -------------------------------
(***************************************************************************)
(* The timers actors schedule for themselves (timerManager): the runtime   *)
(* fires a timer in a goroutine of its own, which takes it out of the      *)
(* table and tells the owner, while the owner may cancel it or end.        *)
(***************************************************************************)
EXTENDS Lifetime

CONSTANT Timers

VARIABLES
  timer,    \* unused, armed, fired (its goroutine runs), tells, told, stopped
  owner,    \* whose timer it is
  timers,   \* timerManager.timers
  stopping, \* those cancelOwner has taken out of the table and not yet stopped
  tally     \* the metrics: timers scheduled, fired and cancelled

timerVars == <<timer, owner, timers, stopping, tally>>

TimersInit ==
  /\ timer = [t \in Timers |-> "unused"]
  /\ owner = [t \in Timers |-> None]
  /\ timers = [a \in Actors |-> {}]
  /\ stopping = [a \in Actors |-> {}]
  /\ tally = [a \in Actors |-> [scheduled |-> 0, fired |-> 0, cancelled |-> 0]]

\* TimerScheduled, TimerFired, TimerCanceled
Tally(a, what) == tally' = [tally EXCEPT ![a][what] = @ + 1]

\* The owner's loop schedules; the table has the timer before it is started.
Schedule(a, t) ==
  /\ timer[t] = "unused"
  /\ timer' = [timer EXCEPT ![t] = "armed"]
  /\ owner' = [owner EXCEPT ![t] = a]
  /\ timers' = [timers EXCEPT ![a] = @ \cup {t}]
  /\ Tally(a, "scheduled")
  /\ UNCHANGED stopping

Fire(t) ==
  /\ timer[t] = "armed"
  /\ timer' = [timer EXCEPT ![t] = "fired"]
  /\ UNCHANGED <<owner, timers, stopping, tally>>

\* finish: unregister, once.
FireFinish(t) ==
  /\ timer[t] = "fired"
  /\ timer' = [timer EXCEPT ![t] = "tells"]
  /\ timers' = [timers EXCEPT ![owner[t]] = @ \ {t}]
  /\ Tally(owner[t], "fired")
  /\ UNCHANGED <<owner, stopping>>

FireTell(t) ==
  /\ timer[t] = "tells"
  /\ Tell(owner[t], [timer |-> t])
  /\ timer' = [timer EXCEPT ![t] = "told"]
  /\ UNCHANGED <<owner, timers, stopping, tally>>

\* time.Timer.Stop answers whether it has stopped the timer before it fired.
StopsInTime(t) == timer[t] = "armed"

\* Cancel by the owner, and finish.
Cancel(a, t) ==
  /\ owner[t] = a
  /\ StopsInTime(t)
  /\ timer' = [timer EXCEPT ![t] = "stopped"]
  /\ timers' = [timers EXCEPT ![a] = @ \ {t}]
  /\ Tally(a, "cancelled")
  /\ UNCHANGED <<owner, stopping>>

\* A cancelOwner that trusts the table to be enough.
CancelOwnerTable(a) ==
  /\ timers' = [timers EXCEPT ![a] = {}]
  /\ UNCHANGED <<timer, owner, stopping, tally>>

\* cancelOwner first takes the owner's timers out of the table ...
CancelOwner(a) ==
  /\ stopping' = [stopping EXCEPT ![a] = timers[a]]
  /\ timers' = [timers EXCEPT ![a] = {}]
  /\ UNCHANGED <<timer, owner, tally>>

\* ... and then stops each of them, except those that have fired.
CancelNext(a, t) ==
  /\ t \in stopping[a]
  /\ stopping' = [stopping EXCEPT ![a] = @ \ {t}]
  /\ IF StopsInTime(t)
     THEN /\ timer' = [timer EXCEPT ![t] = "stopped"]
          /\ Tally(a, "cancelled")
     ELSE UNCHANGED <<timer, tally>>
  /\ UNCHANGED <<owner, timers>>

Of(a, phases) == {t \in Timers : owner[t] = a /\ timer[t] \in phases}
OnItsWay(a, t) == \E i \in DOMAIN inbox[a] : inbox[a][i] = [timer |-> t]
=============================================================================
