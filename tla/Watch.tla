------------------------------- MODULE Watch -------------------------------
(***************************************************************************)
(* Who is told of whose end (watchManager): one table under one lock, one  *)
(* state per watched actor with its watchers and a monitor goroutine.      *)
(* Whoever holds the lock gives it back in the same step, but for add: it  *)
(* tells its caller at once of an actor that has ended, and waits with the *)
(* lock in its hands while the caller's own mailbox is full.               *)
(***************************************************************************)
EXTENDS Lifetime

CONSTANT States \* the watchedStates that may be made

ASSUME WatchAssumption == None \notin States

VARIABLES
  watches, \* the state of a watched actor, or None
  state,   \* the states: whom they are of, their watchers, their monitor (none,
           \* waits, tells, over), whether stopCh is closed, whom the monitor
           \* has still to count out and tell, and whom it tells now
  lock,    \* the add that holds the lock, if one does: by whom, and of whom
  owes,    \* what an actor's loop has still to add to its gauge
  active,  \* the gauge ActiveWatches
  asked,   \* history: whom each actor wants to be told of
  calls,   \* history: how often it called Watch
  told     \* history: how often it has handled a notice

watchVars == <<watches, state, lock, owes, active, asked, calls, told>>

Unmade == [of |-> None, watchers |-> {}, monitor |-> "none", stop |-> FALSE, left |-> {}, at |-> None]

WatchInit ==
  /\ watches = [x \in Actors |-> None]
  /\ state = [s \in States |-> Unmade]
  /\ lock = {}
  /\ owes = [a \in Actors |-> 0]
  /\ active = [a \in Actors |-> 0]
  /\ asked = [a \in Actors |-> {}]
  /\ calls = [a \in Actors |-> [x \in Actors |-> 0]]
  /\ told = [a \in Actors |-> [x \in Actors |-> 0]]

\* WatchAdded and WatchRemoved
Gauge(a, n) == active' = [active EXCEPT ![a] = @ + n]

Terminated(x) == [who |-> x]

\* a's loop can go on: it does not wait in an add and has kept its gauge.
Runs(a) == /\ owes[a] = 0
           /\ \A add \in lock : add[1] # a

Watching(a, x) == watches[x] # None /\ a \in state[watches[x]].watchers

\* add, of an actor that has ended.
AddEnded(a, x) ==
  /\ Ended(x)
  /\ IF CanTell(a) THEN Tell(a, Terminated(x)) /\ UNCHANGED lock
     ELSE lock' = {<<a, x>>} /\ UNCHANGED inbox
  /\ UNCHANGED <<watches, state, owes>>

\* An add that counts a watcher it has already.
AddAgain(a, x) ==
  /\ ~Ended(x)
  /\ IF watches[x] = None
     THEN \E s \in States :
            /\ state[s] = Unmade
            /\ state' = [state EXCEPT ![s] = [Unmade EXCEPT !.of = x, !.watchers = {a},
                                                            !.monitor = "waits"]]
            /\ watches' = [watches EXCEPT ![x] = s]
     ELSE /\ state' = [state EXCEPT ![watches[x]].watchers = @ \cup {a}]
          /\ UNCHANGED watches
  /\ owes' = [owes EXCEPT ![a] = 1]
  /\ UNCHANGED <<inbox, lock>>

\* add, of one that has not: a new state with a monitor, or one more watcher.
Add(a, x) ==
  /\ ~Ended(x)
  /\ IF watches[x] = None
     THEN \E s \in States :
            /\ state[s] = Unmade
            /\ state' = [state EXCEPT ![s] = [Unmade EXCEPT !.of = x, !.watchers = {a},
                                                            !.monitor = "waits"]]
            /\ watches' = [watches EXCEPT ![x] = s]
     ELSE /\ state' = [state EXCEPT ![watches[x]].watchers = @ \cup {a}]
          /\ UNCHANGED watches
  /\ owes' = [owes EXCEPT ![a] = IF Watching(a, x) THEN 0 ELSE 1]
  /\ UNCHANGED <<inbox, lock>>

WatchActor(a, x) ==
  /\ lock = {}
  /\ AddEnded(a, x) \/ Add(a, x)
  /\ asked' = [asked EXCEPT ![a] = @ \cup {x}]
  /\ calls' = [calls EXCEPT ![a][x] = @ + 1]
  /\ UNCHANGED <<active, told>>

\* There is room now for what add tells.
AddTells ==
  /\ \E add \in lock : Tell(add[1], Terminated(add[2]))
  /\ lock' = {}
  /\ UNCHANGED <<watches, state, owes, active, asked, calls, told>>

\* Without a; the last watcher closes stopCh and leaves the table.
Without(a, s) ==
  LET rest == state[s].watchers \ {a}
  IN  [state[s] EXCEPT !.watchers = rest, !.stop = rest = {}]

Unwatch(a, x) ==
  /\ lock = {}
  /\ Watching(a, x)
  /\ state' = [state EXCEPT ![watches[x]] = Without(a, watches[x])]
  /\ watches' = [watches EXCEPT ![x] = IF state[@].watchers = {a} THEN None ELSE @]
  /\ owes' = [owes EXCEPT ![a] = -1]
  /\ asked' = [asked EXCEPT ![a] = @ \ {x}]
  /\ UNCHANGED <<inbox, lock, active, calls, told>>

\* WatchAdded or WatchRemoved, after add or remove has returned.
Count(a) ==
  /\ owes[a] # 0
  /\ Gauge(a, owes[a])
  /\ owes' = [owes EXCEPT ![a] = 0]
  /\ UNCHANGED <<inbox, watches, state, lock, asked, calls, told>>

\* cleanupForWatcher
Cleanup(a) ==
  /\ lock = {}
  /\ LET mine == {x \in Actors : Watching(a, x)}
     IN  /\ state' = [s \in States |-> IF \E x \in mine : watches[x] = s
                                       THEN Without(a, s) ELSE state[s]]
         /\ watches' = [x \in Actors |-> IF x \in mine /\ state[watches[x]].watchers = {a}
                                         THEN None ELSE watches[x]]
         /\ Gauge(a, -Cardinality(mine))
  /\ UNCHANGED <<inbox, lock, owes, asked, calls, told>>

\* monitor: stopCh is closed; when the watched actor has ended as well, the
\* select may take either case.
MonitorStops(s) ==
  /\ state[s].monitor = "waits" /\ state[s].stop
  /\ state' = [state EXCEPT ![s].monitor = "over"]
  /\ UNCHANGED <<inbox, watches, lock, owes, active, asked, calls, told>>

\* A monitor that takes whatever is in the table for its own state.
MonitorWakesUnchecked(s) ==
  /\ state[s].monitor = "waits" /\ Ended(state[s].of)
  /\ lock = {}
  /\ state' = [state EXCEPT ![s].monitor = "tells", ![s].left = state[s].watchers]
  /\ watches' = [watches EXCEPT ![state[s].of] = None]
  /\ UNCHANGED <<inbox, lock, owes, active, asked, calls, told>>

MonitorWakes(s) ==
  /\ state[s].monitor = "waits" /\ Ended(state[s].of)
  /\ lock = {}
  /\ IF watches[state[s].of] # s
     THEN state' = [state EXCEPT ![s].monitor = "over"] /\ UNCHANGED watches
     ELSE /\ state' = [state EXCEPT ![s].monitor = "tells", ![s].left = state[s].watchers]
          /\ watches' = [watches EXCEPT ![state[s].of] = None]
  /\ UNCHANGED <<inbox, lock, owes, active, asked, calls, told>>

\* WatchRemoved of the next watcher, whom it then tells.
MonitorCounts(s) ==
  /\ state[s].monitor = "tells" /\ state[s].at = None
  /\ \E a \in state[s].left :
       /\ state' = [state EXCEPT ![s].left = @ \ {a}, ![s].at = a]
       /\ Gauge(a, -1)
  /\ UNCHANGED <<inbox, watches, lock, owes, asked, calls, told>>

\* A monitor that returns after its first notice.
MonitorTellsFirst(s) ==
  /\ state[s].at # None
  /\ Tell(state[s].at, Terminated(state[s].of))
  /\ state' = [state EXCEPT ![s].at = None, ![s].monitor = "over"]
  /\ UNCHANGED <<watches, lock, owes, active, asked, calls, told>>

MonitorTells(s) ==
  /\ state[s].at # None
  /\ Tell(state[s].at, Terminated(state[s].of))
  /\ state' = [state EXCEPT ![s].at = None,
                            ![s].monitor = IF state[s].left = {} THEN "over" ELSE "tells"]
  /\ UNCHANGED <<watches, lock, owes, active, asked, calls, told>>

\* The watcher's loop handles a notice.
Notice(a, x) ==
  /\ asked' = [asked EXCEPT ![a] = @ \ {x}]
  /\ told' = [told EXCEPT ![a][x] = @ + 1]
  /\ UNCHANGED <<watches, state, lock, owes, active, calls>>

Monitor(s) == MonitorStops(s) \/ MonitorWakes(s) \/ MonitorCounts(s) \/ MonitorTells(s)

\* The notices of x's end that are on their way to a, by where they are.
InMailbox(a, x) == {i \in DOMAIN inbox[a] : inbox[a][i] = Terminated(x)}
WithMonitor(a, x) == {s \in States : state[s].of = x /\ a \in state[s].left \cup {state[s].at}}
WithAdd(a, x) == {add \in lock : add = <<a, x>>}
=============================================================================
