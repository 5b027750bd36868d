--------------------------- MODULE SignalsProofs ---------------------------
(***************************************************************************)
(* Theorems about Signals, for any actors, timers, watched states, plans   *)
(* and sizes of mailbox: its variables keep their types, no timer outlives *)
(* its owner, the metrics are exact, and every notice is due and on its    *)
(* way once.                                                               *)
(***************************************************************************)
EXTENDS Signals, FiniteSetTheorems, TLAPS

Message == [timer: Timers] \cup [who: Actors]
Lives == {"up", "cancelling", "cleaning", "leaving", "stopped", "done"}
Phases == {"unused", "armed", "fired", "tells", "told", "stopped"}
TallyType == [scheduled: Nat, fired: Nat, cancelled: Nat]

\* The type invariant by module; a timer in use has an owner.
LifeType ==
  /\ life \in [Actors -> Lives]
  /\ inbox \in [Actors -> Seq(Message)]
  /\ closed \subseteq Actors

TimerType ==
  /\ timer \in [Timers -> Phases]
  /\ owner \in [Timers -> Actors \cup {None}]
  /\ \A t \in Timers : timer[t] # "unused" => owner[t] \in Actors
  /\ timers \in [Actors -> SUBSET Timers]
  /\ stopping \in [Actors -> SUBSET Timers]
  /\ tally \in [Actors -> TallyType]

TableType ==
  /\ watches \in [Actors -> States \cup {None}]
  /\ state \in [States -> StateType]
  /\ \A s \in States : state[s].monitor # "none" => state[s].of \in Actors
  /\ \A s \in States : state[s].at # None => state[s].of \in Actors

LoopType ==
  /\ lock \subseteq Actors \X Actors /\ Cardinality(lock) <= 1
  /\ owes \in [Actors -> {-1, 0, 1}]
  /\ active \in [Actors -> Int]
  /\ asked \in [Actors -> SUBSET Actors]
  /\ calls \in [Actors -> [Actors -> Nat]]
  /\ told \in [Actors -> [Actors -> Nat]]

TypeInv == LifeType /\ TimerType /\ TableType /\ LoopType /\ plan \in Plans

-----------------------------------------------------------------------------
(* Mailboxes. *)

LEMMA TellType ==
  ASSUME LifeType, NEW a \in Actors, NEW m \in Message, Tell(a, m)
  PROVE  inbox' \in [Actors -> Seq(Message)]
  <1>1. inbox \in [Actors -> Seq(Message)] /\ inbox[a] \in Seq(Message)
    BY DEF LifeType
  <1>2. Append(inbox[a], m) \in Seq(Message)
    BY <1>1
  <1> QED
    BY <1>1, <1>2 DEF Tell

LEMMA PullType ==
  ASSUME LifeType, NEW a \in Actors, inbox[a] # <<>>, inbox' = [inbox EXCEPT ![a] = Tail(@)]
  PROVE  inbox' \in [Actors -> Seq(Message)] /\ Head(inbox[a]) \in Message
  <1>1. inbox \in [Actors -> Seq(Message)] /\ inbox[a] \in Seq(Message)
    BY DEF LifeType
  <1>2. Tail(inbox[a]) \in Seq(Message) /\ Head(inbox[a]) \in Message
    BY <1>1
  <1> QED
    BY <1>1, <1>2

\* What a notice tells.
LEMMA NoticeFields ==
  ASSUME NEW m \in Message
  PROVE  /\ "who" \in DOMAIN m => m.who \in Actors /\ m = Terminated(m.who)
         /\ "who" \notin DOMAIN m => \E t \in Timers : m = [timer |-> t]
  BY DEF Message, Terminated

LEMMA TerminatedType ==
  ASSUME NEW x \in Actors
  PROVE  Terminated(x) \in Message /\ \A t \in Timers : Terminated(x) # [timer |-> t]
  <1>1. Terminated(x) \in Message
    BY DEF Terminated, Message
  <1>2. ASSUME NEW t \in Timers PROVE Terminated(x) # [timer |-> t]
    <2>1. DOMAIN Terminated(x) = {"who"} /\ DOMAIN [timer |-> t] = {"timer"}
      BY DEF Terminated
    <2> QED
      BY <2>1
  <1> QED
    BY <1>1, <1>2

-----------------------------------------------------------------------------
(* Types of the timers. *)

LEMMA TallyStep ==
  ASSUME TimerType, NEW a \in Actors, NEW what \in {"scheduled", "fired", "cancelled"}, Tally(a, what)
  PROVE  /\ tally' \in [Actors -> TallyType]
         /\ tally'[a][what] = tally[a][what] + 1
         /\ \A w \in {"scheduled", "fired", "cancelled"} \ {what} : tally'[a][w] = tally[a][w]
         /\ \A b \in Actors \ {a} : tally'[b] = tally[b]
  <1>1. tally \in [Actors -> TallyType] /\ tally[a] \in TallyType
    BY DEF TimerType
  <1>2. tally'[a] = [tally[a] EXCEPT ![what] = tally[a][what] + 1] /\ \A b \in Actors \ {a} : tally'[b] = tally[b]
    BY <1>1 DEF Tally
  <1>3. tally[a] = [w \in {"scheduled", "fired", "cancelled"} |-> tally[a][w]]
        /\ \A w \in {"scheduled", "fired", "cancelled"} : tally[a][w] \in Nat
    BY <1>1 DEF TallyType
  <1>4. tally'[a] \in TallyType /\ tally'[a][what] = tally[a][what] + 1
        /\ \A w \in {"scheduled", "fired", "cancelled"} \ {what} : tally'[a][w] = tally[a][w]
    BY <1>1, <1>2, <1>3 DEF TallyType
  <1> QED
    BY <1>1, <1>2, <1>4 DEF Tally

LEMMA ScheduleType ==
  ASSUME TimerType, NEW a \in Actors, NEW t \in Timers, Schedule(a, t)
  PROVE  TimerType'
  <1>1. tally' \in [Actors -> TallyType]
    BY TallyStep DEF Schedule
  <1>2. /\ timer' = [timer EXCEPT ![t] = "armed"] /\ owner' = [owner EXCEPT ![t] = a]
        /\ timers' = [timers EXCEPT ![a] = @ \cup {t}] /\ stopping' = stopping
    BY DEF Schedule
  <1>3. timer' \in [Timers -> Phases] /\ owner' \in [Timers -> Actors \cup {None}]
    BY <1>2 DEF TimerType, Phases
  <1>4. \A u \in Timers : timer'[u] # "unused" => owner'[u] \in Actors
    BY <1>2 DEF TimerType
  <1>5. timers' \in [Actors -> SUBSET Timers]
    BY <1>2 DEF TimerType
  <1> QED
    BY <1>1, <1>2, <1>3, <1>4, <1>5 DEF TimerType

LEMMA FireType ==
  ASSUME TimerType, NEW t \in Timers, Fire(t) \/ FireFinish(t) \/ FireTell(t)
  PROVE  TimerType' /\ owner[t] \in Actors
  <1>1. timer[t] # "unused" /\ owner' = owner /\ stopping' = stopping
    BY DEF Fire, FireFinish, FireTell
  <1>2. owner[t] \in Actors
    BY <1>1 DEF TimerType
  <1>3. \E p \in Phases \ {"unused"} : timer' = [timer EXCEPT ![t] = p]
    BY DEF Fire, FireFinish, FireTell, Phases
  <1>4. PICK p \in Phases \ {"unused"} : timer' = [timer EXCEPT ![t] = p]
    BY <1>3
  <1>5. timer' \in [Timers -> Phases] /\ \A u \in Timers : timer'[u] # "unused" => owner'[u] \in Actors
    BY <1>1, <1>2, <1>4 DEF TimerType
  <1>6. timers' \in [Actors -> SUBSET Timers]
    BY <1>2 DEF TimerType, Fire, FireFinish, FireTell
  <1>7. tally' \in [Actors -> TallyType]
    <2>1. CASE FireFinish(t)
      BY <1>2, <2>1, TallyStep DEF FireFinish
    <2>2. CASE tally' = tally
      BY <2>2 DEF TimerType
    <2> QED
      BY <2>1, <2>2 DEF Fire, FireTell
  <1> QED
    BY <1>1, <1>2, <1>5, <1>6, <1>7 DEF TimerType

LEMMA CancelType ==
  ASSUME TimerType, NEW a \in Actors, NEW t \in Timers, Cancel(a, t) \/ CancelNext(a, t)
  PROVE  TimerType'
  <1>1. tally' \in [Actors -> TallyType]
    <2>1. CASE Tally(a, "cancelled")
      BY <2>1, TallyStep
    <2>2. CASE tally' = tally
      BY <2>2 DEF TimerType
    <2> QED
      BY <2>1, <2>2 DEF Cancel, CancelNext
  <1>2. owner' = owner /\ timer' \in {timer, [timer EXCEPT ![t] = "stopped"]}
        /\ (timer' # timer => timer[t] = "armed")
    BY DEF Cancel, CancelNext, StopsInTime
  <1>3. timer' \in [Timers -> Phases] /\ \A u \in Timers : timer'[u] # "unused" => owner'[u] \in Actors
    <2>1. CASE timer' = timer
      BY <1>2, <2>1 DEF TimerType
    <2>2. CASE timer' # timer
      BY <1>2, <2>2 DEF TimerType, Phases
    <2> QED
      BY <2>1, <2>2
  <1>4. timers' \in [Actors -> SUBSET Timers] /\ stopping' \in [Actors -> SUBSET Timers]
    BY DEF TimerType, Cancel, CancelNext
  <1> QED
    BY <1>1, <1>2, <1>3, <1>4 DEF TimerType

LEMMA CancelOwnerType ==
  ASSUME TimerType, NEW a \in Actors, CancelOwner(a)
  PROVE  TimerType'
  BY DEF TimerType, CancelOwner

\* What a step of the timers may be.
LEMMA TimerTypeStep ==
  ASSUME TypeInv, [Next]_vars
  PROVE  TimerType'
  <1>1. CASE UNCHANGED timerVars
    BY <1>1 DEF TypeInv, TimerType, timerVars
  <1>2. ASSUME NEW a \in Actors, NEW t \in Timers, Schedule(a, t) \/ Cancel(a, t) \/ CancelNext(a, t)
        PROVE  TimerType'
    BY <1>2, ScheduleType, CancelType DEF TypeInv
  <1>3. ASSUME NEW t \in Timers, Fire(t) \/ FireFinish(t) \/ FireTell(t) PROVE TimerType'
    BY <1>3, FireType DEF TypeInv
  <1>4. ASSUME NEW a \in Actors, CancelOwner(a) PROVE TimerType'
    BY <1>4, CancelOwnerType DEF TypeInv
  <1>5. \/ UNCHANGED timerVars
        \/ \E a \in Actors, t \in Timers : Schedule(a, t) \/ Cancel(a, t) \/ CancelNext(a, t)
        \/ \E t \in Timers : Fire(t) \/ FireFinish(t) \/ FireTell(t)
        \/ \E a \in Actors : CancelOwner(a)
    BY DEF Next, Server, Pulls, Drained, Quits, Ends, Cancels, Cleans, Leaves, Counts, AddReturns, Monitors,
           TimerRuns, Fires, HandlesTimer, HandlesWatch, StopInbox, vars
  <1> QED
    BY <1>1, <1>2, <1>3, <1>4, <1>5

-----------------------------------------------------------------------------
(* No timer outlives its owner. *)

\* Of one actor and of one timer.
OwnsWhatComes(a) ==
  /\ life[a] \notin {"up", "cancelling"} => \A t \in Timers : owner[t] = a => timer[t] # "armed"
  /\ life[a] = "up" => \A t \in Timers : t \in timers[a] <=> owner[t] = a /\ timer[t] \in {"armed", "fired"}
  /\ life[a] # "up" => timers[a] = {}
  /\ life[a] = "cancelling" => \A t \in Timers : owner[t] = a /\ timer[t] = "armed" => t \in stopping[a]
  /\ \A t \in stopping[a] : owner[t] = a /\ timer[t] # "unused"

Mailed == \A a \in Actors, t \in Timers : OnItsWay(a, t) => owner[t] = a /\ timer[t] = "told"

TimerInv == (\A a \in Actors : OwnsWhatComes(a)) /\ Mailed

\* What is in a mailbox after a Tell, and after a Pull.
LEMMA TellMails ==
  ASSUME LifeType, NEW a \in Actors, NEW m \in Message, Tell(a, m), NEW b \in Actors, NEW t \in Timers,
         OnItsWay(b, t)'
  PROVE  OnItsWay(b, t) \/ (b = a /\ m = [timer |-> t])
  <1>1. inbox \in [Actors -> Seq(Message)] /\ inbox[a] \in Seq(Message)
    BY DEF LifeType
  <1>2. CASE inbox'[b] = inbox[b]
    BY <1>2 DEF OnItsWay
  <1>3. CASE b = a /\ inbox'[a] = Append(inbox[a], m)
    <2>1. PICK i \in DOMAIN Append(inbox[a], m) : Append(inbox[a], m)[i] = [timer |-> t]
      BY <1>3 DEF OnItsWay
    <2>2. /\ DOMAIN inbox[a] = 1..Len(inbox[a]) /\ Len(inbox[a]) \in Nat
          /\ DOMAIN Append(inbox[a], m) = 1..(Len(inbox[a]) + 1)
          /\ \A j \in 1..Len(inbox[a]) : Append(inbox[a], m)[j] = inbox[a][j]
          /\ Append(inbox[a], m)[Len(inbox[a]) + 1] = m
      BY <1>1
    <2>3. (i \in DOMAIN inbox[a] /\ inbox[a][i] = [timer |-> t]) \/ m = [timer |-> t]
      BY <2>1, <2>2
    <2> QED
      BY <1>3, <2>3 DEF OnItsWay
  <1> QED
    BY <1>1, <1>2, <1>3 DEF Tell

LEMMA PullMails ==
  ASSUME LifeType, NEW a \in Actors, inbox[a] # <<>>, inbox' = [inbox EXCEPT ![a] = Tail(@)],
         NEW b \in Actors, NEW t \in Timers, OnItsWay(b, t)'
  PROVE  OnItsWay(b, t)
  <1>1. inbox \in [Actors -> Seq(Message)] /\ inbox[a] \in Seq(Message)
    BY DEF LifeType
  <1>2. CASE inbox'[b] = inbox[b]
    BY <1>2 DEF OnItsWay
  <1>3. CASE b = a /\ inbox'[a] = Tail(inbox[a])
    <2>1. PICK i \in DOMAIN Tail(inbox[a]) : Tail(inbox[a])[i] = [timer |-> t]
      BY <1>3 DEF OnItsWay
    <2>2. /\ DOMAIN inbox[a] = 1..Len(inbox[a]) /\ Len(inbox[a]) \in Nat /\ Len(inbox[a]) >= 1
          /\ DOMAIN Tail(inbox[a]) = 1..(Len(inbox[a]) - 1)
          /\ \A j \in 1..(Len(inbox[a]) - 1) : Tail(inbox[a])[j] = inbox[a][j + 1]
      BY <1>1
    <2>3. i + 1 \in DOMAIN inbox[a] /\ inbox[a][i + 1] = [timer |-> t]
      BY <2>1, <2>2
    <2> QED
      BY <1>3, <2>3 DEF OnItsWay
  <1> QED
    BY <1>1, <1>2, <1>3

LEMMA TimerInit ==
  ASSUME Init
  PROVE  TimerInv
  BY DEF Init, LifeInit, TimersInit, TimerInv, OwnsWhatComes, Mailed, OnItsWay

LEMMA ToldStays ==
  ASSUME TypeInv, [Next]_vars, NEW t \in Timers, timer[t] = "told"
  PROVE  timer'[t] = "told" /\ owner'[t] = owner[t]
  <1>1. \/ UNCHANGED <<timer, owner>>
        \/ \E a \in Actors, u \in Timers : Schedule(a, u) \/ Cancel(a, u) \/ CancelNext(a, u)
        \/ \E u \in Timers : Fire(u) \/ FireFinish(u) \/ FireTell(u)
    BY DEF Next, Server, Pulls, Drained, Quits, Ends, Cancels, Cleans, Leaves, Counts, AddReturns, Monitors,
           TimerRuns, Fires, HandlesTimer, HandlesWatch, StopInbox, CancelOwner, vars, timerVars
  <1>2. ASSUME NEW a \in Actors, NEW u \in Timers, Schedule(a, u) \/ Cancel(a, u) \/ CancelNext(a, u)
        PROVE  timer'[t] = "told" /\ owner'[t] = owner[t]
    BY <1>2 DEF Schedule, Cancel, CancelNext, StopsInTime, TypeInv, TimerType
  <1>3. ASSUME NEW u \in Timers, Fire(u) \/ FireFinish(u) \/ FireTell(u)
        PROVE  timer'[t] = "told" /\ owner'[t] = owner[t]
    BY <1>3 DEF Fire, FireFinish, FireTell, TypeInv, TimerType
  <1> QED
    BY <1>1, <1>2, <1>3

\* Whoever tells of an end does not tell of a timer.
LEMMA NoticesAreNoTimers ==
  ASSUME TypeInv, NEW b \in Actors, NEW t \in Timers, OnItsWay(b, t)',
         \/ inbox' = inbox
         \/ \E a \in Actors : \E x \in Actors : Tell(a, Terminated(x))
         \/ \E a \in Actors : inbox[a] # <<>> /\ inbox' = [inbox EXCEPT ![a] = Tail(@)]
         \/ \E a \in Actors : inbox' = [inbox EXCEPT ![a] = <<>>]
  PROVE  OnItsWay(b, t)
  <1>1. CASE inbox' = inbox
    BY <1>1 DEF OnItsWay
  <1>2. ASSUME NEW a \in Actors, NEW x \in Actors, Tell(a, Terminated(x)) PROVE OnItsWay(b, t)
    BY <1>2, TerminatedType, TellMails DEF TypeInv
  <1>3. ASSUME NEW a \in Actors, inbox[a] # <<>>, inbox' = [inbox EXCEPT ![a] = Tail(@)] PROVE OnItsWay(b, t)
    BY <1>3, PullMails DEF TypeInv
  <1>4. ASSUME NEW a \in Actors, inbox' = [inbox EXCEPT ![a] = <<>>] PROVE OnItsWay(b, t)
    BY <1>4 DEF OnItsWay, TypeInv, LifeType
  <1> QED
    BY <1>1, <1>2, <1>3, <1>4

\* What may happen to the mailboxes.
LEMMA MailSteps ==
  ASSUME TypeInv, [Next]_vars
  PROVE  \/ inbox' = inbox
         \/ \E a \in Actors : \E x \in Actors : Tell(a, Terminated(x))
         \/ \E a \in Actors : inbox[a] # <<>> /\ inbox' = [inbox EXCEPT ![a] = Tail(@)]
         \/ \E a \in Actors : inbox' = [inbox EXCEPT ![a] = <<>>]
         \/ \E u \in Timers : FireTell(u)
  <1> DEFINE Goal == \/ inbox' = inbox
                     \/ \E a \in Actors : \E x \in Actors : Tell(a, Terminated(x))
                     \/ \E a \in Actors : inbox[a] # <<>> /\ inbox' = [inbox EXCEPT ![a] = Tail(@)]
                     \/ \E a \in Actors : inbox' = [inbox EXCEPT ![a] = <<>>]
                     \/ \E u \in Timers : FireTell(u)
  <1>1. ASSUME NEW a \in Actors, HandlesWatch(a) PROVE Goal
    BY <1>1 DEF HandlesWatch, WatchActor, AddEnded, Add, Unwatch
  <1>2. CASE AddReturns
    <2>1. PICK add \in lock : Tell(add[1], Terminated(add[2]))
      BY <1>2 DEF AddReturns, AddTells
    <2>2. add[1] \in Actors /\ add[2] \in Actors
      BY DEF TypeInv, LoopType
    <2> QED
      BY <2>1, <2>2
  <1>3. ASSUME NEW s \in States, Monitors(s) PROVE Goal
    <2>1. CASE MonitorTells(s)
      <3>1. state[s].at \in Actors /\ state[s].of \in Actors
        BY <2>1 DEF MonitorTells, TypeInv, TableType, StateType
      <3> QED
        BY <2>1, <3>1 DEF MonitorTells
    <2>2. CASE inbox' = inbox
      BY <2>2
    <2> QED
      BY <1>3, <2>1, <2>2 DEF Monitors, Monitor, MonitorStops, MonitorWakes, MonitorCounts
  <1>4. ASSUME NEW a \in Actors, Pulls(a) \/ Leaves(a) PROVE Goal
    BY <1>4 DEF Pulls, Leaves, Leave, Finish
  <1>5. ASSUME NEW t \in Timers, TimerRuns(t) \/ Fires(t) PROVE Goal
    BY <1>5 DEF TimerRuns, Fires
  <1>6. ASSUME NEW a \in Actors, Drained(a) \/ Cancels(a) \/ Cleans(a) \/ Counts(a) \/ HandlesTimer(a)
                                   \/ StopInbox(a) \/ Quits(a)
        PROVE  Goal
    BY <1>6 DEF Drained, Quits, Ends, Cancels, Cleans, Cleanup, Counts, Count, HandlesTimer, StopInbox
  <1> QED
    BY <1>1, <1>2, <1>3, <1>4, <1>5, <1>6 DEF Next, Server, vars

LEMMA MailedStep ==
  ASSUME TypeInv, Mailed, [Next]_vars
  PROVE  Mailed'
  <1>1. ASSUME NEW b \in Actors, NEW t \in Timers, OnItsWay(b, t)'
        PROVE  owner'[t] = b /\ timer'[t] = "told"
    <2>1. CASE OnItsWay(b, t)
      BY <2>1, ToldStays DEF Mailed
    <2>2. CASE \E u \in Timers : FireTell(u)
      <3>1. PICK u \in Timers : FireTell(u)
        BY <2>2
      <3>2. owner[u] \in Actors /\ Tell(owner[u], [timer |-> u]) /\ [timer |-> u] \in Message
        BY <3>1, FireType DEF FireTell, TypeInv, Message
      <3>3. OnItsWay(b, t) \/ (b = owner[u] /\ [timer |-> u] = [timer |-> t])
        BY <1>1, <3>2, TellMails DEF TypeInv
      <3>4. CASE b = owner[u] /\ [timer |-> u] = [timer |-> t]
        <4>1. u = t
          <5>1. [timer |-> u].timer = [timer |-> t].timer
            BY <3>4
          <5> QED
            BY <5>1
        <4> QED
          BY <3>1, <3>4, <4>1 DEF FireTell, TypeInv, TimerType
      <3> QED
        BY <2>1, <3>3, <3>4
    <2> QED
      BY <1>1, <2>1, <2>2, MailSteps, NoticesAreNoTimers
  <1> QED
    BY <1>1 DEF Mailed

\* What the owner's loop and the runtime do to the timers of b.
LEMMA OwnStays ==
  ASSUME NEW b \in Actors, OwnsWhatComes(b), UNCHANGED <<timer, owner, timers, stopping>>,
         life'[b] = life[b] \/ (life[b] \in {"cleaning", "leaving", "stopped"}
                                  /\ life'[b] \in {"leaving", "stopped", "done"})
  PROVE  OwnsWhatComes(b)'
  BY DEF OwnsWhatComes

LEMMA OwnSchedules ==
  ASSUME TypeInv, NEW a \in Actors, NEW b \in Actors, NEW t \in Timers, OwnsWhatComes(b), UNCHANGED life,
         life[a] = "up", Schedule(a, t)
  PROVE  OwnsWhatComes(b)'
  <1>1. /\ timer[t] = "unused" /\ timer' = [timer EXCEPT ![t] = "armed"]
        /\ owner' = [owner EXCEPT ![t] = a] /\ timers' = [timers EXCEPT ![a] = @ \cup {t}]
        /\ stopping' = stopping
    BY DEF Schedule
  <1>2. CASE b = a
    BY <1>1, <1>2 DEF OwnsWhatComes, TypeInv, TimerType
  <1>3. CASE b # a
    <2>1. t \notin timers[b] \/ life[b] # "up"
      BY <1>1 DEF OwnsWhatComes
    <2> QED
      BY <1>1, <1>3, <2>1 DEF OwnsWhatComes, TypeInv, TimerType
  <1> QED
    BY <1>2, <1>3

LEMMA OwnCancels ==
  ASSUME TypeInv, NEW a \in Actors, NEW b \in Actors, NEW t \in Timers, OwnsWhatComes(b), UNCHANGED life,
         life[a] = "up", Cancel(a, t)
  PROVE  OwnsWhatComes(b)'
  <1>1. /\ owner[t] = a /\ timer' = [timer EXCEPT ![t] = "stopped"]
        /\ timers' = [timers EXCEPT ![a] = @ \ {t}]
        /\ UNCHANGED <<owner, stopping>>
    BY DEF Cancel
  <1> QED
    BY <1>1 DEF OwnsWhatComes, TypeInv, TimerType

LEMMA OwnFires ==
  ASSUME TypeInv, NEW b \in Actors, NEW t \in Timers, OwnsWhatComes(b), UNCHANGED life,
         Fire(t) \/ FireFinish(t) \/ FireTell(t)
  PROVE  OwnsWhatComes(b)'
  <1>1. UNCHANGED <<owner, stopping>> /\ owner[t] \in Actors
    BY FireType DEF Fire, FireFinish, FireTell, TypeInv
  <1>2. CASE Fire(t) \/ FireTell(t)
    BY <1>1, <1>2 DEF Fire, FireTell, OwnsWhatComes, TypeInv, TimerType
  <1>3. CASE FireFinish(t)
    BY <1>1, <1>3 DEF FireFinish, OwnsWhatComes, TypeInv, TimerType
  <1> QED
    BY <1>2, <1>3

LEMMA OwnEnds ==
  ASSUME TypeInv, NEW a \in Actors, NEW b \in Actors, OwnsWhatComes(b), Ends(a)
  PROVE  OwnsWhatComes(b)'
  <1>1. /\ life[a] = "up" /\ life' = [life EXCEPT ![a] = "cancelling"]
        /\ stopping' = [stopping EXCEPT ![a] = timers[a]] /\ timers' = [timers EXCEPT ![a] = {}]
        /\ UNCHANGED <<timer, owner>>
    BY DEF Ends, Moves, CancelOwner
  <1> QED
    BY <1>1 DEF OwnsWhatComes, TypeInv, TimerType, LifeType

LEMMA OwnStops ==
  ASSUME TypeInv, NEW a \in Actors, NEW b \in Actors, OwnsWhatComes(b), OwnsWhatComes(a), Cancels(a)
  PROVE  OwnsWhatComes(b)'
  <1>1. CASE \E t \in Timers : CancelNext(a, t) /\ UNCHANGED life
    <2>1. PICK t \in Timers : CancelNext(a, t) /\ UNCHANGED life
      BY <1>1
    <2>2. /\ stopping' = [stopping EXCEPT ![a] = @ \ {t}] /\ UNCHANGED <<owner, timers>>
          /\ IF timer[t] = "armed" THEN timer' = [timer EXCEPT ![t] = "stopped"] ELSE timer' = timer
      BY <2>1 DEF CancelNext, StopsInTime
    <2>3. life[a] = "cancelling"
      BY DEF Cancels
    <2>4. owner[t] = a
      BY <2>1 DEF OwnsWhatComes, CancelNext
    <2> QED
      BY <2>1, <2>2, <2>3, <2>4 DEF OwnsWhatComes, TypeInv, TimerType
  <1>2. CASE stopping[a] = {} /\ Moves(a, "cancelling", "cleaning") /\ UNCHANGED timerVars
    BY <1>2 DEF OwnsWhatComes, Moves, timerVars, TypeInv, TimerType, LifeType
  <1> QED
    BY <1>1, <1>2 DEF Cancels

LEMMA OwnStep ==
  ASSUME TypeInv, TimerInv, [Next]_vars, NEW b \in Actors
  PROVE  OwnsWhatComes(b)'
  <1>1. ASSUME NEW a \in Actors, HandlesTimer(a) PROVE OwnsWhatComes(b)'
    <2>1. PICK t \in Timers : Schedule(a, t) \/ Cancel(a, t)
      BY <1>1 DEF HandlesTimer
    <2> QED
      BY <1>1, <2>1, OwnSchedules, OwnCancels DEF HandlesTimer, Loop, TimerInv
  <1>2. ASSUME NEW t \in Timers, Fires(t) \/ TimerRuns(t) PROVE OwnsWhatComes(b)'
    BY <1>2, OwnFires DEF Fires, TimerRuns, TimerInv
  <1>3. ASSUME NEW a \in Actors, Drained(a) \/ Quits(a) PROVE OwnsWhatComes(b)'
    BY <1>3, OwnEnds DEF Drained, Quits, TimerInv
  <1>4. ASSUME NEW a \in Actors, Cancels(a) PROVE OwnsWhatComes(b)'
    BY <1>4, OwnStops DEF TimerInv
  <1>5. ASSUME NEW a \in Actors, Cleans(a) \/ Leaves(a) PROVE OwnsWhatComes(b)'
    <2>1. UNCHANGED <<timer, owner, timers, stopping>>
      BY <1>5 DEF Cleans, Leaves, timerVars
    <2>2. life'[b] = life[b] \/ (life[b] \in {"cleaning", "leaving", "stopped"}
                                   /\ life'[b] \in {"leaving", "stopped", "done"})
      BY <1>5 DEF Cleans, Leaves, Leave, Finish, Moves, TypeInv, LifeType
    <2> QED
      BY <2>1, <2>2, OwnStays DEF TimerInv
  <1>6. CASE UNCHANGED <<life, timerVars>>
    BY <1>6, OwnStays DEF timerVars, TimerInv
  <1>7. ASSUME NEW a \in Actors, Pulls(a) \/ Counts(a) \/ HandlesWatch(a) \/ StopInbox(a)
        PROVE  UNCHANGED <<life, timerVars>>
    BY <1>7 DEF Pulls, Counts, HandlesWatch, StopInbox
  <1> QED
    BY <1>1, <1>2, <1>3, <1>4, <1>5, <1>6, <1>7 DEF Next, Server, AddReturns, Monitors, vars

LEMMA TimerStep ==
  ASSUME TypeInv, TimerInv, [Next]_vars
  PROVE  TimerInv'
  BY OwnStep, MailedStep DEF TimerInv

LEMMA TimerInvImplies ==
  ASSUME TypeInv, TimerInv
  PROVE  NoTimerOutlives
  <1>1. ASSUME NEW a \in Actors
        PROVE  /\ life[a] \notin {"up", "cancelling"} => Of(a, {"armed"}) = {}
               /\ timers[a] = IF life[a] = "up" THEN Of(a, {"armed", "fired"}) ELSE {}
               /\ life[a] = "cancelling" => Of(a, {"armed"}) \subseteq stopping[a]
    BY DEF TimerInv, OwnsWhatComes, Of, TypeInv, TimerType
  <1> QED
    BY <1>1 DEF TimerInv, Mailed, NoTimerOutlives

-----------------------------------------------------------------------------
(* Types of the loops and of the table. *)

LEMMA LifeTypeStep ==
  ASSUME TypeInv, [Next]_vars
  PROVE  LifeType'
  <1>1. life' \in [Actors -> Lives]
    <2>1. \/ life' = life
          \/ \E a \in Actors : \E l \in Lives : life' = [life EXCEPT ![a] = l]
      BY DEF Next, Server, Pulls, Drained, Quits, Ends, Cancels, Cleans, Leaves, Leave, Finish, Counts, AddReturns,
             Monitors, TimerRuns, Fires, HandlesTimer, HandlesWatch, StopInbox, Moves, vars, Lives
    <2> QED
      BY <2>1 DEF TypeInv, LifeType
  <1>2. closed' \subseteq Actors
    BY DEF Next, Server, Pulls, Drained, Quits, Ends, Cancels, Cleans, Leaves, Leave, Finish, Counts, AddReturns,
           Monitors, TimerRuns, Fires, HandlesTimer, HandlesWatch, StopInbox, Moves, vars, TypeInv, LifeType
  <1>3. inbox' \in [Actors -> Seq(Message)]
    <2>1. CASE inbox' = inbox
      BY <2>1 DEF TypeInv, LifeType
    <2>2. ASSUME NEW a \in Actors, NEW x \in Actors, Tell(a, Terminated(x)) PROVE inbox' \in [Actors -> Seq(Message)]
      BY <2>2, TellType, TerminatedType DEF TypeInv
    <2>3. ASSUME NEW a \in Actors, inbox[a] # <<>>, inbox' = [inbox EXCEPT ![a] = Tail(@)]
          PROVE  inbox' \in [Actors -> Seq(Message)]
      BY <2>3, PullType DEF TypeInv
    <2>4. ASSUME NEW a \in Actors, inbox' = [inbox EXCEPT ![a] = <<>>] PROVE inbox' \in [Actors -> Seq(Message)]
      BY <2>4 DEF TypeInv, LifeType
    <2>5. ASSUME NEW t \in Timers, FireTell(t) PROVE inbox' \in [Actors -> Seq(Message)]
      <3>1. owner[t] \in Actors /\ [timer |-> t] \in Message
        BY <2>5, FireType DEF TypeInv, Message
      <3> QED
        BY <2>5, <3>1, TellType DEF FireTell, TypeInv
    <2> QED
      BY <2>1, <2>2, <2>3, <2>4, <2>5, MailSteps
  <1> QED
    BY <1>1, <1>2, <1>3 DEF LifeType

\* A write of one watched state.
Sound(r) == /\ r \in StateType
            /\ r.monitor # "none" => r.of \in Actors
            /\ r.at # None => r.of \in Actors

LEMMA StateWrite ==
  ASSUME TableType, NEW s \in States, state' = [state EXCEPT ![s] = state'[s]], Sound(state'[s]),
         watches' \in [Actors -> States \cup {None}]
  PROVE  TableType'
  <1>1. state' \in [States -> StateType]
    BY DEF TableType, Sound
  <1>2. \A u \in States : (state'[u].monitor # "none" => state'[u].of \in Actors)
                          /\ (state'[u].at # None => state'[u].of \in Actors)
    BY DEF TableType, Sound
  <1> QED
    BY <1>1, <1>2 DEF TableType

LEMMA StateIsSound ==
  ASSUME TableType, NEW s \in States
  PROVE  Sound(state[s])
  BY DEF TableType, Sound

LEMMA AddTable ==
  ASSUME TableType, NEW a \in Actors, NEW x \in Actors, Add(a, x)
  PROVE  TableType'
  <1>1. CASE watches[x] = None
    <2>1. PICK s \in States :
            /\ state[s] = Unmade
            /\ state' = [state EXCEPT ![s] = [Unmade EXCEPT !.of = x, !.watchers = {a}, !.monitor = "waits"]]
            /\ watches' = [watches EXCEPT ![x] = s]
      BY <1>1 DEF Add
    <2>2. state'[s] = [Unmade EXCEPT !.of = x, !.watchers = {a}, !.monitor = "waits"]
          /\ state' = [state EXCEPT ![s] = state'[s]]
      BY <2>1 DEF TableType
    <2>3. Sound(state'[s])
      <3>1. state'[s] = [of |-> x, watchers |-> {a}, monitor |-> "waits", stop |-> FALSE, left |-> {}, at |-> None]
        BY <2>2 DEF Unmade
      <3>2. state'[s] \in StateType
        BY <3>1 DEF StateType
      <3> QED
        BY <3>1, <3>2 DEF Sound
    <2>4. watches' \in [Actors -> States \cup {None}]
      BY <2>1 DEF TableType
    <2> QED
      BY <2>2, <2>3, <2>4, StateWrite
  <1>2. CASE watches[x] # None
    <2>1. PICK s \in States : s = watches[x]
      BY <1>2 DEF TableType
    <2>2. state' = [state EXCEPT ![s].watchers = @ \cup {a}] /\ watches' = watches
      BY <1>2, <2>1 DEF Add
    <2>3. state'[s] = [state[s] EXCEPT !.watchers = @ \cup {a}] /\ state' = [state EXCEPT ![s] = state'[s]]
      BY <2>2 DEF TableType
    <2>4. Sound(state'[s])
      BY <2>3, StateIsSound DEF Sound, StateType
    <2> QED
      BY <2>2, <2>3, <2>4, StateWrite DEF TableType
  <1> QED
    BY <1>1, <1>2

LEMMA WithoutIsSound ==
  ASSUME TableType, NEW a \in Actors, NEW s \in States
  PROVE  Sound(Without(a, s))
  BY StateIsSound DEF Without, Sound, StateType

LEMMA UnwatchTable ==
  ASSUME TableType, NEW a \in Actors, NEW x \in Actors, Unwatch(a, x)
  PROVE  TableType'
  <1>1. PICK s \in States : s = watches[x]
    BY DEF Unwatch, Watching, TableType
  <1>2. state' = [state EXCEPT ![s] = Without(a, s)]
    BY <1>1 DEF Unwatch
  <1>3. state'[s] = Without(a, s) /\ state' = [state EXCEPT ![s] = state'[s]]
    BY <1>2 DEF TableType
  <1>4. watches' \in [Actors -> States \cup {None}]
    BY DEF Unwatch, TableType
  <1> QED
    BY <1>3, <1>4, WithoutIsSound, StateWrite

LEMMA CleanupTable ==
  ASSUME TableType, NEW a \in Actors, Cleanup(a)
  PROVE  TableType'
  <1>1. ASSUME NEW s \in States PROVE Sound(state'[s])
    BY WithoutIsSound, StateIsSound DEF Cleanup
  <1>2. watches' \in [Actors -> States \cup {None}]
    BY DEF Cleanup, TableType
  <1>3. state' = [s \in States |-> state'[s]]
    BY DEF Cleanup
  <1> QED
    BY <1>1, <1>2, <1>3 DEF TableType, Sound

LEMMA MonitorTable ==
  ASSUME TableType, NEW s \in States, Monitor(s)
  PROVE  TableType'
  <1>1. CASE MonitorStops(s)
    <2>1. state'[s] = [state[s] EXCEPT !.monitor = "over"] /\ state' = [state EXCEPT ![s] = state'[s]]
          /\ watches' = watches /\ state[s].monitor = "waits"
      BY <1>1 DEF MonitorStops, TableType
    <2>2. Sound(state'[s])
      BY <2>1, StateIsSound DEF Sound, StateType
    <2> QED
      BY <2>1, <2>2, StateWrite DEF TableType
  <1>2. CASE MonitorWakes(s)
    <2>1. /\ state[s].monitor = "waits"
          /\ watches' = watches \/ watches' = [watches EXCEPT ![state[s].of] = None]
          /\ \/ state' = [state EXCEPT ![s].monitor = "over"]
             \/ state' = [state EXCEPT ![s].monitor = "tells", ![s].left = state[s].watchers]
      BY <1>2 DEF MonitorWakes
    <2>2. /\ \/ state'[s] = [state[s] EXCEPT !.monitor = "over"]
             \/ state'[s] = [state[s] EXCEPT !.monitor = "tells", !.left = state[s].watchers]
          /\ state' = [state EXCEPT ![s] = state'[s]]
      BY <2>1 DEF TableType
    <2>3. Sound(state'[s])
      BY <2>1, <2>2, StateIsSound DEF Sound, StateType
    <2>4. watches' \in [Actors -> States \cup {None}]
      BY <2>1 DEF TableType
    <2> QED
      BY <2>2, <2>3, <2>4, StateWrite
  <1>3. CASE MonitorCounts(s)
    <2>1. PICK a \in state[s].left : state' = [state EXCEPT ![s].left = @ \ {a}, ![s].at = a]
      BY <1>3 DEF MonitorCounts
    <2>2. /\ state'[s] = [state[s] EXCEPT !.left = @ \ {a}, !.at = a]
          /\ state' = [state EXCEPT ![s] = state'[s]] /\ watches' = watches /\ state[s].monitor = "tells"
      BY <1>3, <2>1 DEF MonitorCounts, TableType
    <2>3. a \in Actors
      BY <2>1, StateIsSound DEF Sound, StateType
    <2>4. Sound(state'[s])
      <3>1. PICK r \in StateType : r = state[s]
        BY StateIsSound DEF Sound
      <3>2. state'[s] = [r EXCEPT !.left = r.left \ {a}, !.at = a] /\ r.of \in Actors
        BY <2>2, <3>1, StateIsSound DEF Sound
      <3>3. PICK left \in SUBSET Actors : left = r.left \ {a}
        BY <3>1 DEF StateType
      <3>4. state'[s] = [r EXCEPT !.left = left, !.at = a]
        BY <3>2, <3>3
      <3>5. state'[s] \in StateType /\ state'[s].of = r.of
        BY <2>3, <3>1, <3>4 DEF StateType
      <3> QED
        BY <3>2, <3>5 DEF Sound
    <2> QED
      BY <2>2, <2>4, StateWrite DEF TableType
  <1>4. CASE MonitorTells(s)
    <2>1. /\ state' = [state EXCEPT ![s].at = None, ![s].monitor = IF state[s].left = {} THEN "over" ELSE "tells"]
          /\ watches' = watches /\ state[s].at # None
      BY <1>4 DEF MonitorTells
    <2>2. /\ state'[s] = [state[s] EXCEPT !.at = None, !.monitor = IF state[s].left = {} THEN "over" ELSE "tells"]
          /\ state' = [state EXCEPT ![s] = state'[s]]
      BY <2>1 DEF TableType
    <2>3. Sound(state'[s])
      <3>1. PICK m \in {"over", "tells"} : state'[s] = [state[s] EXCEPT !.at = None, !.monitor = m]
        BY <2>2
      <3>2. state[s] \in StateType /\ state[s].of \in Actors
        BY <2>1, StateIsSound DEF Sound
      <3>3. state'[s] \in StateType /\ state'[s].of = state[s].of
        BY <3>1, <3>2 DEF StateType
      <3> QED
        BY <3>2, <3>3 DEF Sound
    <2> QED
      BY <2>1, <2>2, <2>3, StateWrite DEF TableType
  <1> QED
    BY <1>1, <1>2, <1>3, <1>4 DEF Monitor

LEMMA TableTypeStep ==
  ASSUME TypeInv, [Next]_vars
  PROVE  TableType'
  <1>1. CASE UNCHANGED <<watches, state>>
    BY <1>1 DEF TypeInv, TableType
  <1>2. ASSUME NEW a \in Actors, NEW x \in Actors, WatchActor(a, x) \/ Unwatch(a, x) PROVE TableType'
    BY <1>1, <1>2, AddTable, UnwatchTable DEF WatchActor, AddEnded, TypeInv
  <1>3. ASSUME NEW s \in States, Monitors(s) PROVE TableType'
    BY <1>3, MonitorTable DEF Monitors, TypeInv
  <1>4. ASSUME NEW a \in Actors, Cleans(a) PROVE TableType'
    BY <1>4, CleanupTable DEF Cleans, TypeInv
  <1>5. \/ UNCHANGED <<watches, state>>
        \/ \E a \in Actors, x \in Actors : WatchActor(a, x) \/ Unwatch(a, x)
        \/ \E s \in States : Monitors(s)
        \/ \E a \in Actors : Cleans(a)
    BY DEF Next, Server, Pulls, Notice, Drained, Quits, Ends, Cancels, Leaves, Counts, Count, AddReturns, AddTells,
           TimerRuns, Fires, HandlesTimer, HandlesWatch, StopInbox, vars, watchVars
  <1> QED
    BY <1>1, <1>2, <1>3, <1>4, <1>5

\* One add at a time holds the lock.
LEMMA LockMoves ==
  ASSUME [Next]_vars
  PROVE  lock' = lock \/ lock' = {} \/ \E a \in Actors : \E x \in Actors : lock' = {<<a, x>>}
  <1>1. ASSUME NEW a \in Actors, HandlesWatch(a)
        PROVE  lock' = lock \/ \E x \in Actors : lock' = {<<a, x>>}
    BY <1>1 DEF HandlesWatch, WatchActor, AddEnded, Add, Unwatch
  <1>2. ASSUME NEW a \in Actors, Pulls(a) \/ Cleans(a) \/ Leaves(a) PROVE lock' = lock
    BY <1>2 DEF Pulls, Notice, Cleans, Cleanup, Leaves, watchVars
  <1>3. AddReturns => lock' = {}
    BY DEF AddReturns, AddTells
  <1>4. ASSUME NEW s \in States, Monitors(s) PROVE lock' = lock
    BY <1>4 DEF Monitors, Monitor, MonitorStops, MonitorWakes, MonitorCounts, MonitorTells
  <1>5. ASSUME NEW t \in Timers, TimerRuns(t) \/ Fires(t) PROVE lock' = lock
    BY <1>5 DEF TimerRuns, Fires, watchVars
  <1>6. ASSUME NEW a \in Actors,
               \/ Drained(a) \/ Cancels(a) \/ Counts(a)
               \/ HandlesTimer(a) \/ StopInbox(a) \/ Quits(a)
        PROVE  lock' = lock
    BY <1>6 DEF Drained, Cancels, Counts, Count, HandlesTimer, StopInbox, Quits, Ends, watchVars
  <1>7. UNCHANGED vars => lock' = lock
    BY DEF vars, watchVars
  <1>8. CASE UNCHANGED vars \/ Server
    BY <1>2, <1>3, <1>4, <1>5, <1>6, <1>7, <1>8 DEF Server
  <1>9. CASE ~(UNCHANGED vars \/ Server)
    BY <1>1, <1>5, <1>6, <1>9 DEF Next
  <1> QED
    BY <1>8, <1>9

LEMMA LockType ==
  ASSUME TypeInv, [Next]_vars
  PROVE  lock' \subseteq Actors \X Actors /\ Cardinality(lock') <= 1
  <1>1. CASE lock' = lock
    BY <1>1 DEF TypeInv, LoopType
  <1>2. CASE lock' = {}
    BY <1>2, FS_EmptySet
  <1>3. ASSUME NEW a \in Actors, NEW x \in Actors, lock' = {<<a, x>>}
        PROVE  lock' \subseteq Actors \X Actors /\ Cardinality(lock') <= 1
    BY <1>3, FS_Singleton
  <1> QED
    BY <1>1, <1>2, <1>3, LockMoves

LEMMA GaugeType ==
  ASSUME TypeInv, [Next]_vars
  PROVE  active' \in [Actors -> Int] /\ owes' \in [Actors -> {-1, 0, 1}]
  <1>1. ASSUME NEW a \in Actors, NEW n \in Int, Gauge(a, n) PROVE active' \in [Actors -> Int]
    BY <1>1 DEF Gauge, TypeInv, LoopType
  <1>2. ASSUME NEW a \in Actors, Cleanup(a) PROVE active' \in [Actors -> Int]
    <2>1. PICK mine \in SUBSET Actors : Gauge(a, -Cardinality(mine))
      BY <1>2 DEF Cleanup
    <2>2. Cardinality(mine) \in Nat
      BY LifetimeAssumption, FS_Subset, FS_CardinalityType
    <2> QED
      BY <1>1, <2>1, <2>2
  <1>3. ASSUME NEW s \in States, MonitorCounts(s) PROVE active' \in [Actors -> Int]
    <2>1. PICK a \in state[s].left : Gauge(a, -1)
      BY <1>3 DEF MonitorCounts
    <2>2. a \in Actors
      BY <2>1 DEF TypeInv, TableType, StateType
    <2> QED
      BY <1>1, <2>1, <2>2
  <1>4. ASSUME NEW a \in Actors, Count(a) PROVE active' \in [Actors -> Int]
    <2>1. owes[a] \in Int
      BY DEF TypeInv, LoopType
    <2> QED
      BY <1>1, <1>4, <2>1 DEF Count
  <1>5. \/ active' = active
        \/ \E a \in Actors : Cleanup(a) \/ Count(a)
        \/ \E s \in States : MonitorCounts(s)
    BY DEF Next, Server, Pulls, Notice, Drained, Quits, Ends, Cancels, Cleans, Leaves, Counts,
           AddReturns, AddTells, Monitors, Monitor, MonitorStops, MonitorWakes, MonitorTells,
           TimerRuns, Fires, HandlesTimer, HandlesWatch, WatchActor, AddEnded, Add, Unwatch, StopInbox,
           vars, watchVars
  <1>6. \/ owes' = owes
        \/ \E a \in Actors : \E n \in {-1, 0, 1} : owes' = [owes EXCEPT ![a] = n]
    <2>1. ASSUME NEW a \in Actors, HandlesWatch(a)
          PROVE  owes' = owes \/ \E n \in {-1, 0, 1} : owes' = [owes EXCEPT ![a] = n]
      BY <2>1 DEF HandlesWatch, WatchActor, AddEnded, Add, Unwatch
    <2>2. ASSUME NEW a \in Actors, Counts(a) \/ Cleans(a)
          PROVE  owes' = owes \/ \E n \in {-1, 0, 1} : owes' = [owes EXCEPT ![a] = n]
      BY <2>2 DEF Counts, Count, Cleans, Cleanup
    <2>3. ASSUME NEW a \in Actors,
                 \/ Pulls(a) \/ Drained(a) \/ Cancels(a) \/ Leaves(a)
                 \/ HandlesTimer(a) \/ StopInbox(a) \/ Quits(a)
          PROVE  owes' = owes
      BY <2>3 DEF Pulls, Notice, Drained, Cancels, Leaves, HandlesTimer, StopInbox, Quits, Ends, watchVars
    <2>4. AddReturns => owes' = owes
      BY DEF AddReturns, AddTells
    <2>5. ASSUME NEW s \in States, Monitors(s) PROVE owes' = owes
      BY <2>5 DEF Monitors, Monitor, MonitorStops, MonitorWakes, MonitorCounts, MonitorTells
    <2>6. ASSUME NEW t \in Timers, TimerRuns(t) \/ Fires(t) PROVE owes' = owes
      BY <2>6 DEF TimerRuns, Fires, watchVars
    <2>7. UNCHANGED vars => owes' = owes
      BY DEF vars, watchVars
    <2>8. CASE UNCHANGED vars \/ Server
      BY <2>2, <2>3, <2>4, <2>5, <2>6, <2>7, <2>8 DEF Server
    <2>9. CASE ~(UNCHANGED vars \/ Server)
      BY <2>1, <2>3, <2>6, <2>9 DEF Next
    <2> QED
      BY <2>8, <2>9
  <1>7. active' \in [Actors -> Int]
    BY <1>2, <1>3, <1>4, <1>5 DEF TypeInv, LoopType
  <1>8. owes' \in [Actors -> {-1, 0, 1}]
    BY <1>6 DEF TypeInv, LoopType
  <1> QED
    BY <1>7, <1>8

LEMMA HistoryType ==
  ASSUME TypeInv, [Next]_vars
  PROVE  /\ asked' \in [Actors -> SUBSET Actors]
         /\ calls' \in [Actors -> [Actors -> Nat]]
         /\ told' \in [Actors -> [Actors -> Nat]]
  <1>1. /\ asked \in [Actors -> SUBSET Actors]
        /\ calls \in [Actors -> [Actors -> Nat]]
        /\ told \in [Actors -> [Actors -> Nat]]
    BY DEF TypeInv, LoopType
  <1>2. CASE UNCHANGED <<asked, calls, told>>
    BY <1>1, <1>2
  <1>3. ASSUME NEW a \in Actors, NEW x \in Actors, WatchActor(a, x)
        PROVE  /\ asked' \in [Actors -> SUBSET Actors]
               /\ calls' \in [Actors -> [Actors -> Nat]] /\ told' = told
    <2>1. /\ asked' = [asked EXCEPT ![a] = @ \cup {x}] /\ told' = told
          /\ calls' = [calls EXCEPT ![a] = [calls[a] EXCEPT ![x] = calls[a][x] + 1]]
      BY <1>3 DEF WatchActor
    <2>2. calls[a][x] + 1 \in Nat /\ [calls[a] EXCEPT ![x] = calls[a][x] + 1] \in [Actors -> Nat]
      BY <1>1
    <2> QED
      BY <1>1, <2>1, <2>2
  <1>4. ASSUME NEW a \in Actors, NEW x \in Actors, Unwatch(a, x)
        PROVE  asked' \in [Actors -> SUBSET Actors] /\ UNCHANGED <<calls, told>>
    BY <1>1, <1>4 DEF Unwatch
  <1>5. ASSUME NEW a \in Actors, NEW x \in Actors, Notice(a, x)
        PROVE  /\ asked' \in [Actors -> SUBSET Actors]
               /\ told' \in [Actors -> [Actors -> Nat]] /\ calls' = calls
    <2>1. /\ asked' = [asked EXCEPT ![a] = @ \ {x}] /\ calls' = calls
          /\ told' = [told EXCEPT ![a] = [told[a] EXCEPT ![x] = told[a][x] + 1]]
      BY <1>5 DEF Notice
    <2>2. told[a][x] + 1 \in Nat /\ [told[a] EXCEPT ![x] = told[a][x] + 1] \in [Actors -> Nat]
      BY <1>1
    <2> QED
      BY <1>1, <2>1, <2>2
  <1>6. ASSUME NEW a \in Actors, Pulls(a)
        PROVE  UNCHANGED <<asked, calls, told>> \/ \E x \in Actors : Notice(a, x)
    BY <1>6, PullType, NoticeFields DEF Pulls, TypeInv, watchVars
  <1>7. \/ UNCHANGED <<asked, calls, told>>
        \/ \E a \in Actors, x \in Actors : WatchActor(a, x) \/ Unwatch(a, x)
        \/ \E a \in Actors : Pulls(a)
    BY DEF Next, Server, Drained, Quits, Ends, Cancels, Cleans, Cleanup, Leaves, Counts, Count,
           AddReturns, AddTells, Monitors, Monitor, MonitorStops, MonitorWakes, MonitorCounts, MonitorTells,
           TimerRuns, Fires, HandlesTimer, HandlesWatch, StopInbox, vars, watchVars
  <1> QED
    BY <1>1, <1>2, <1>3, <1>4, <1>5, <1>6, <1>7

LEMMA TypeStep ==
  ASSUME TypeInv, [Next]_vars
  PROVE  TypeInv'
  <1>1. plan' = plan
    BY DEF Next, Server, Pulls, Drained, Quits, Ends, Cancels, Cleans, Leaves, Counts, AddReturns, Monitors,
           TimerRuns, Fires, HandlesTimer, HandlesWatch, StopInbox, vars
  <1>2. LoopType'
    BY LockType, GaugeType, HistoryType DEF LoopType
  <1> QED
    BY <1>1, <1>2, LifeTypeStep, TimerTypeStep, TableTypeStep DEF TypeInv

LEMMA TypeInit ==
  ASSUME Init
  PROVE  TypeInv
  <1>1. LifeType
    BY DEF Init, LifeInit, LifeType, Lives
  <1>2. TimerType
    BY DEF Init, TimersInit, TimerType, TallyType, Phases
  <1>3. TableType
    <2>1. Unmade \in StateType /\ Unmade.monitor = "none" /\ Unmade.at = None
      BY DEF Unmade, StateType
    <2> QED
      BY <2>1 DEF Init, WatchInit, TableType
  <1>4. LoopType
    BY FS_EmptySet DEF Init, WatchInit, LoopType
  <1> QED
    BY <1>1, <1>2, <1>3, <1>4 DEF Init, TypeInv

LEMMA TypeInvImplies ==
  ASSUME TypeInv
  PROVE  TypeOK
  BY DEF TypeInv, LifeType, TimerType, TableType, LoopType, Message, Lives, Phases, TallyType, TypeOK

(* Type correctness, for any actors, timers, watched states and plans: a
   timer in use has an owner whom it tells, and a monitor that tells has an
   actor it tells of. *)
THEOREM TypeCorrectness == Spec => []TypeOK
  <1>1. Init => TypeInv
    BY TypeInit
  <1>2. TypeInv /\ [Next]_vars => TypeInv'
    BY TypeStep
  <1>3. TypeInv => TypeOK
    BY TypeInvImplies
  <1> QED
    BY <1>1, <1>2, <1>3, PTL DEF Spec

(* No timer outlives its owner, for any actors and timers: cancelOwner empties
   the table and then stops the timers one by one while they may fire, and
   still none that was armed is left when the actor's watches are cleaned up,
   and only the owner is told, of those that fired in time. *)
THEOREM TimersEndWithOwner == Spec => []NoTimerOutlives
  <1>1. Init => TypeInv /\ TimerInv
    BY TypeInit, TimerInit
  <1>2. TypeInv /\ TimerInv /\ [Next]_vars => TypeInv' /\ TimerInv'
    BY TypeStep, TimerStep
  <1>3. TypeInv /\ TimerInv => NoTimerOutlives
    BY TimerInvImplies
  <1> QED
    BY <1>1, <1>2, <1>3, PTL DEF Spec
-----------------------------------------------------------------------------
(* What is in the table, and whom the monitors have still to tell. *)

\* Those whom a watches, and the monitors that have still to count a out.
Held(a) == {x \in Actors : Watching(a, x)}
Left(a) == {s \in States : a \in state[s].left}

\* Of an actor in the table, and of a monitor.
EntryInv(x) == LET r == state[watches[x]] IN r.of = x /\ r.monitor = "waits" /\ ~r.stop
MonitorInv(r) == /\ r.monitor # "tells" => r.left = {} /\ r.at = None
                 /\ r.at \notin r.left

TableInv == /\ \A x \in Actors : watches[x] # None => EntryInv(x)
            /\ \A s \in States : MonitorInv(state[s])

LockInv == lock = {} \/ \E a \in Actors : \E x \in Actors : lock = {<<a, x>>}

LEMMA Entry ==
  ASSUME TypeInv, TableInv, NEW x \in Actors, watches[x] # None
  PROVE  /\ watches[x] \in States
         /\ state[watches[x]].of = x /\ state[watches[x]].monitor = "waits" /\ ~state[watches[x]].stop
         /\ state[watches[x]].left = {} /\ state[watches[x]].at = None
  <1>1. watches[x] \in States
    BY DEF TypeInv, TableType
  <1>2. EntryInv(x) /\ MonitorInv(state[watches[x]])
    BY <1>1 DEF TableInv
  <1> QED
    BY <1>1, <1>2 DEF EntryInv, MonitorInv

\* Two actors have two entries.
LEMMA OneEntry ==
  ASSUME TypeInv, TableInv, NEW x \in Actors, NEW y \in Actors, watches[x] # None, watches[y] = watches[x]
  PROVE  x = y
  <1>1. state[watches[x]].of = x /\ state[watches[y]].of = y
    BY Entry
  <1> QED
    BY <1>1

\* Who is told, where one state changes that has nobody to tell before and after.
LEMMA NobodyTold ==
  ASSUME TypeInv, NEW s \in States, state' = [state EXCEPT ![s] = state'[s]],
         state[s].left = {}, state[s].at = None, state'[s].left = {}, state'[s].at = None
  PROVE  /\ \A b \in Actors : Left(b)' = Left(b)
         /\ \A b, y \in Actors : WithMonitor(b, y)' = WithMonitor(b, y)
  <1>1. None \notin Actors
    BY LifetimeAssumption
  <1>2. \A u \in States : u # s => state'[u] = state[u]
    BY DEF TypeInv, TableType
  <1>3. \A b \in Actors : \A u \in States : b \in state'[u].left <=> b \in state[u].left
    BY <1>2
  <1>4. \A b, y \in Actors : \A u \in States :
          (state'[u].of = y /\ b \in state'[u].left \cup {state'[u].at})
            <=> (state[u].of = y /\ b \in state[u].left \cup {state[u].at})
    BY <1>1, <1>2
  <1> QED
    BY <1>3, <1>4 DEF Left, WithMonitor

\* One more watcher of x.
LEMMA AddEffect ==
  ASSUME TypeInv, TableInv, NEW a \in Actors, NEW x \in Actors, Add(a, x)
  PROVE  /\ TableInv'
         /\ \A b, y \in Actors : Watching(b, y)' <=> Watching(b, y) \/ (b = a /\ y = x)
         /\ \A b \in Actors : Left(b)' = Left(b)
         /\ \A b, y \in Actors : WithMonitor(b, y)' = WithMonitor(b, y)
  <1> DEFINE Goal == /\ TableInv'
                     /\ \A b, y \in Actors : Watching(b, y)' <=> Watching(b, y) \/ (b = a /\ y = x)
                     /\ \A b \in Actors : Left(b)' = Left(b)
                     /\ \A b, y \in Actors : WithMonitor(b, y)' = WithMonitor(b, y)
  <1>1. CASE watches[x] = None
    <2>1. PICK s \in States :
            /\ state[s] = Unmade
            /\ state' = [state EXCEPT ![s] = [Unmade EXCEPT !.of = x, !.watchers = {a}, !.monitor = "waits"]]
            /\ watches' = [watches EXCEPT ![x] = s]
      BY <1>1 DEF Add
    <2>2. state[s].left = {} /\ state[s].at = None /\ state[s].monitor = "none"
      BY <2>1 DEF Unmade
    <2>3. state'[s] = [Unmade EXCEPT !.of = x, !.watchers = {a}, !.monitor = "waits"]
      BY <2>1 DEF TypeInv, TableType
    <2>4. /\ state'[s].of = x /\ state'[s].watchers = {a} /\ state'[s].monitor = "waits" /\ ~state'[s].stop
          /\ state'[s].left = {} /\ state'[s].at = None
      BY <2>3 DEF Unmade
    <2>5. state' = [state EXCEPT ![s] = state'[s]] /\ \A u \in States : u # s => state'[u] = state[u]
      BY <2>1, <2>3 DEF TypeInv, TableType
    <2>6. watches'[x] = s /\ \A y \in Actors : y # x => watches'[y] = watches[y] /\ watches[y] # s
      <3>1. watches'[x] = s /\ \A y \in Actors : y # x => watches'[y] = watches[y]
        BY <2>1 DEF TypeInv, TableType
      <3>2. ASSUME NEW y \in Actors PROVE watches[y] # s
        <4>1. CASE watches[y] # None
          BY <2>2, <4>1, Entry
        <4>2. CASE watches[y] = None
          BY <4>2, WatchAssumption
        <4> QED
          BY <4>1, <4>2
      <3> QED
        BY <3>1, <3>2
    <2>7. ASSUME NEW y \in Actors, watches'[y] # None PROVE EntryInv(y)'
      <3>1. CASE y = x
        BY <2>4, <2>6, <3>1 DEF EntryInv
      <3>2. CASE y # x
        <4>1. watches'[y] = watches[y] /\ watches[y] \in States /\ watches[y] # s
          BY <2>6, <2>7, <3>2 DEF TypeInv, TableType
        <4>2. state'[watches'[y]] = state[watches[y]]
          BY <2>5, <4>1
        <4> QED
          BY <2>7, <4>1, <4>2, Entry DEF EntryInv
      <3> QED
        BY <3>1, <3>2
    <2>8. \A u \in States : MonitorInv(state'[u])
      BY <2>4, <2>5 DEF TableInv, MonitorInv
    <2>9. ASSUME NEW b \in Actors, NEW y \in Actors
          PROVE  Watching(b, y)' <=> Watching(b, y) \/ (b = a /\ y = x)
      <3>1. CASE y = x
        BY <1>1, <2>4, <2>6, <3>1, WatchAssumption DEF Watching
      <3>2. CASE y # x
        BY <2>5, <2>6, <3>2 DEF Watching, TypeInv, TableType
      <3> QED
        BY <3>1, <3>2
    <2>10. TableInv'
      BY <2>7, <2>8 DEF TableInv
    <2> QED
      BY <2>2, <2>4, <2>5, <2>9, <2>10, NobodyTold
  <1>2. CASE watches[x] # None
    <2>1. PICK s \in States : s = watches[x]
      BY <1>2, Entry
    <2>2. /\ state[s].of = x /\ state[s].monitor = "waits" /\ ~state[s].stop
          /\ state[s].left = {} /\ state[s].at = None
      BY <1>2, <2>1, Entry
    <2>3. state' = [state EXCEPT ![s].watchers = @ \cup {a}] /\ watches' = watches
      BY <1>2, <2>1 DEF Add
    <2>4. state'[s] = [state[s] EXCEPT !.watchers = @ \cup {a}] /\ state' = [state EXCEPT ![s] = state'[s]]
          /\ \A u \in States : u # s => state'[u] = state[u]
      BY <2>3 DEF TypeInv, TableType
    <2>5. state[s] \in StateType
      BY DEF TypeInv, TableType
    <2>6. /\ state'[s].of = x /\ state'[s].monitor = "waits" /\ ~state'[s].stop
          /\ state'[s].watchers = state[s].watchers \cup {a}
          /\ state'[s].left = {} /\ state'[s].at = None
      BY <2>2, <2>4, <2>5 DEF StateType
    <2>7. ASSUME NEW y \in Actors, watches'[y] # None PROVE EntryInv(y)'
      BY <2>1, <2>3, <2>4, <2>6, <2>7, Entry, OneEntry DEF EntryInv
    <2>8. \A u \in States : MonitorInv(state'[u])
      BY <2>4, <2>6 DEF TableInv, MonitorInv
    <2>9. ASSUME NEW b \in Actors, NEW y \in Actors
          PROVE  Watching(b, y)' <=> Watching(b, y) \/ (b = a /\ y = x)
      <3>1. CASE y = x
        BY <1>2, <2>1, <2>3, <2>6, <3>1 DEF Watching
      <3>2. CASE y # x
        <4>1. watches[y] # None => watches[y] # s /\ watches[y] \in States
          BY <2>1, <3>2, <1>2, OneEntry, Entry
        <4> QED
          BY <2>3, <2>4, <3>2, <4>1 DEF Watching
      <3> QED
        BY <3>1, <3>2
    <2>10. TableInv'
      BY <2>7, <2>8 DEF TableInv
    <2> QED
      BY <2>2, <2>4, <2>6, <2>9, <2>10, NobodyTold
  <1> QED
    BY <1>1, <1>2

\* One watcher of x fewer; the last one takes x out of the table.
LEMMA UnwatchEffect ==
  ASSUME TypeInv, TableInv, NEW a \in Actors, NEW x \in Actors, Unwatch(a, x)
  PROVE  /\ TableInv'
         /\ \A b, y \in Actors : Watching(b, y)' <=> Watching(b, y) /\ ~(b = a /\ y = x)
         /\ \A b \in Actors : Left(b)' = Left(b)
         /\ \A b, y \in Actors : WithMonitor(b, y)' = WithMonitor(b, y)
  <1>1. watches[x] # None /\ a \in state[watches[x]].watchers
    BY DEF Unwatch, Watching
  <1>2. PICK s \in States : s = watches[x]
    BY <1>1, Entry
  <1>3. /\ state[s].of = x /\ state[s].monitor = "waits" /\ ~state[s].stop
        /\ state[s].left = {} /\ state[s].at = None
    BY <1>1, <1>2, Entry
  <1>4. /\ state' = [state EXCEPT ![s] = Without(a, s)]
        /\ watches' = [watches EXCEPT ![x] = IF state[s].watchers = {a} THEN None ELSE s]
    BY <1>2 DEF Unwatch
  <1>5. /\ state'[s] = Without(a, s) /\ state' = [state EXCEPT ![s] = state'[s]]
        /\ \A u \in States : u # s => state'[u] = state[u]
    BY <1>4 DEF TypeInv, TableType
  <1>6. state[s] \in StateType
    BY DEF TypeInv, TableType
  <1>7. /\ state'[s].of = x /\ state'[s].monitor = "waits" /\ state'[s].left = {} /\ state'[s].at = None
        /\ state'[s].watchers = state[s].watchers \ {a}
        /\ state'[s].stop <=> state[s].watchers \ {a} = {}
    BY <1>3, <1>5, <1>6 DEF Without, StateType
  <1>8. /\ watches'[x] = IF state[s].watchers = {a} THEN None ELSE s
        /\ \A y \in Actors : y # x => watches'[y] = watches[y]
    BY <1>4 DEF TypeInv, TableType
  <1>9. state[s].watchers = {a} <=> state[s].watchers \ {a} = {}
    BY <1>1, <1>2
  <1>10. ASSUME NEW y \in Actors, y # x, watches[y] # None
         PROVE  watches[y] \in States /\ watches[y] # s /\ state'[watches[y]] = state[watches[y]]
    BY <1>1, <1>2, <1>5, <1>10, Entry, OneEntry
  <1>11. ASSUME NEW y \in Actors, watches'[y] # None PROVE EntryInv(y)'
    <2>1. CASE y = x
      BY <1>7, <1>8, <1>9, <1>11, <2>1 DEF EntryInv
    <2>2. CASE y # x
      BY <1>8, <1>10, <1>11, <2>2, Entry DEF EntryInv
    <2> QED
      BY <2>1, <2>2
  <1>12. \A u \in States : MonitorInv(state'[u])
    BY <1>5, <1>7 DEF TableInv, MonitorInv
  <1>13. ASSUME NEW b \in Actors, NEW y \in Actors
         PROVE  Watching(b, y)' <=> Watching(b, y) /\ ~(b = a /\ y = x)
    <2>1. CASE y = x
      <3>1. Watching(b, x) <=> b \in state[s].watchers
        BY <1>1, <1>2 DEF Watching
      <3>2. Watching(b, x)' <=> state[s].watchers # {a} /\ b \in state[s].watchers \ {a}
        BY <1>2, <1>7, <1>8, WatchAssumption DEF Watching
      <3> QED
        BY <1>1, <1>2, <2>1, <3>1, <3>2
    <2>2. CASE y # x
      BY <1>8, <1>10, <2>2 DEF Watching
    <2> QED
      BY <2>1, <2>2
  <1>14. TableInv'
    BY <1>11, <1>12 DEF TableInv
  <1> QED
    BY <1>3, <1>5, <1>7, <1>13, <1>14, NobodyTold

\* a watches nobody any more.
LEMMA CleanupEffect ==
  ASSUME TypeInv, TableInv, NEW a \in Actors, Cleanup(a)
  PROVE  /\ TableInv'
         /\ \A b, y \in Actors : Watching(b, y)' <=> Watching(b, y) /\ b # a
         /\ \A b \in Actors : Left(b)' = Left(b)
         /\ \A b, y \in Actors : WithMonitor(b, y)' = WithMonitor(b, y)
         /\ active' = [active EXCEPT ![a] = @ - Cardinality(Held(a))]
  <1>1. /\ \A s \in States : state'[s] = IF \E x \in Held(a) : watches[x] = s THEN Without(a, s) ELSE state[s]
        /\ \A x \in Actors : watches'[x] = IF x \in Held(a) /\ state[watches[x]].watchers = {a}
                                           THEN None ELSE watches[x]
        /\ Gauge(a, -Cardinality(Held(a)))
    BY DEF Cleanup, Held
  <1>2. ASSUME NEW s \in States
        PROVE  /\ state'[s].of = state[s].of /\ state'[s].monitor = state[s].monitor
               /\ state'[s].left = state[s].left /\ state'[s].at = state[s].at
    <2>1. PICK r \in StateType : r = state[s]
      BY DEF TypeInv, TableType
    <2>2. CASE \E x \in Held(a) : watches[x] = s
      <3>1. state'[s] = Without(a, s)
        BY <1>1, <2>2
      <3> QED
        BY <2>1, <3>1 DEF Without, StateType
    <2>3. CASE ~(\E x \in Held(a) : watches[x] = s)
      BY <1>1, <2>3
    <2> QED
      BY <2>2, <2>3
  <1>3. ASSUME NEW y \in Actors, watches[y] # None
        PROVE  /\ watches'[y] = IF state[watches[y]].watchers = {a} THEN None ELSE watches[y]
               /\ state'[watches[y]].watchers = state[watches[y]].watchers \ {a}
               /\ state[watches[y]].watchers # {a} => ~state'[watches[y]].stop
    <2>1. PICK s \in States : s = watches[y]
      BY <1>3, Entry
    <2>2. state[s] \in StateType /\ ~state[s].stop
      BY <1>3, <2>1, Entry DEF TypeInv, TableType
    <2>3. CASE a \in state[s].watchers
      <3>1. y \in Held(a)
        BY <1>3, <2>1, <2>3 DEF Held, Watching
      <3>2. state'[s] = Without(a, s) /\ watches'[y] = IF state[watches[y]].watchers = {a} THEN None ELSE watches[y]
        BY <1>1, <2>1, <3>1
      <3> QED
        BY <2>1, <2>2, <2>3, <3>2 DEF Without, StateType
    <2>4. CASE a \notin state[s].watchers
      <3>1. \A x \in Held(a) : watches[x] # s
        BY <2>4 DEF Held, Watching
      <3>2. state'[s] = state[s] /\ y \notin Held(a)
        BY <1>1, <2>1, <3>1
      <3> QED
        BY <1>1, <2>1, <2>2, <2>4, <3>2
    <2> QED
      BY <2>3, <2>4
  <1>4. ASSUME NEW y \in Actors, watches[y] = None PROVE watches'[y] = None
    BY <1>1, <1>4
  <1>5. ASSUME NEW y \in Actors, watches'[y] # None PROVE EntryInv(y)'
    <2>1. watches[y] # None /\ watches'[y] = watches[y] /\ state[watches[y]].watchers # {a}
      BY <1>3, <1>4, <1>5
    <2> QED
      BY <1>2, <1>3, <2>1, Entry DEF EntryInv
  <1>6. ASSUME NEW b \in Actors, NEW y \in Actors
        PROVE  Watching(b, y)' <=> Watching(b, y) /\ b # a
    <2>1. CASE watches[y] = None
      BY <1>4, <2>1 DEF Watching
    <2>2. CASE watches[y] # None
      BY <1>3, <2>2 DEF Watching
    <2> QED
      BY <2>1, <2>2
  <1>7. TableInv'
    BY <1>2, <1>5 DEF TableInv, MonitorInv
  <1>8. \A b \in Actors : Left(b)' = Left(b)
    BY <1>2 DEF Left
  <1>9. \A b, y \in Actors : WithMonitor(b, y)' = WithMonitor(b, y)
    BY <1>2 DEF WithMonitor
  <1>10. active' = [active EXCEPT ![a] = @ - Cardinality(Held(a))]
    <2>1. active[a] \in Int /\ active' = [active EXCEPT ![a] = active[a] + (-Cardinality(Held(a)))]
      BY <1>1 DEF Gauge, TypeInv, LoopType
    <2>2. Cardinality(Held(a)) \in Nat
      BY LifetimeAssumption, FS_Subset, FS_CardinalityType DEF Held
    <2>3. active[a] + (-Cardinality(Held(a))) = active[a] - Cardinality(Held(a))
      BY <2>1, <2>2
    <2> QED
      BY <2>1, <2>3
  <1> QED
    BY <1>6, <1>7, <1>8, <1>9, <1>10

\* A monitor that stops, or finds another state in the table, tells nobody.
LEMMA OverEffect ==
  ASSUME TypeInv, TableInv, NEW s \in States, state[s].monitor = "waits",
         \A x \in Actors : watches[x] # s,
         state' = [state EXCEPT ![s].monitor = "over"], watches' = watches
  PROVE  /\ TableInv'
         /\ \A b, y \in Actors : Watching(b, y)' <=> Watching(b, y)
         /\ \A b \in Actors : Left(b)' = Left(b)
         /\ \A b, y \in Actors : WithMonitor(b, y)' = WithMonitor(b, y)
  <1>1. /\ state'[s] = [state[s] EXCEPT !.monitor = "over"] /\ state' = [state EXCEPT ![s] = state'[s]]
        /\ \A u \in States : u # s => state'[u] = state[u]
    BY DEF TypeInv, TableType
  <1>2. state[s] \in StateType /\ state[s].left = {} /\ state[s].at = None
    BY DEF TypeInv, TableType, TableInv, MonitorInv
  <1>3. state'[s].monitor = "over" /\ state'[s].left = {} /\ state'[s].at = None
    BY <1>1, <1>2 DEF StateType
  <1>4. ASSUME NEW y \in Actors, watches[y] # None
        PROVE  watches[y] \in States /\ state'[watches[y]] = state[watches[y]]
    BY <1>1, <1>4, Entry
  <1>5. \A y \in Actors : watches'[y] # None => EntryInv(y)'
    BY <1>4, Entry DEF EntryInv
  <1>6. \A u \in States : MonitorInv(state'[u])
    BY <1>1, <1>3 DEF TableInv, MonitorInv
  <1>7. \A b, y \in Actors : Watching(b, y)' <=> Watching(b, y)
    BY <1>4 DEF Watching
  <1>8. TableInv'
    BY <1>5, <1>6 DEF TableInv
  <1> QED
    BY <1>1, <1>2, <1>3, <1>7, <1>8, NobodyTold

\* MonitorWakes where the table has its state: those who watch are left to be told.
WakesOf(s, x) ==
  /\ state[s].of = x /\ watches[x] = s
  /\ state' = [state EXCEPT ![s].monitor = "tells", ![s].left = state[s].watchers]
  /\ watches' = [watches EXCEPT ![x] = None]

LEMMA WakesEffect ==
  ASSUME TypeInv, TableInv, NEW s \in States, NEW x \in Actors, WakesOf(s, x)
  PROVE  /\ TableInv'
         /\ \A b, y \in Actors : Watching(b, y)' <=> Watching(b, y) /\ y # x
         /\ \A b \in Actors : s \notin Left(b) /\ Left(b)' = IF Watching(b, x) THEN Left(b) \cup {s} ELSE Left(b)
         /\ \A b, y \in Actors :
              /\ s \notin WithMonitor(b, y)
              /\ WithMonitor(b, y)' = IF y = x /\ Watching(b, x) THEN WithMonitor(b, y) \cup {s}
                                                                 ELSE WithMonitor(b, y)
  <1>1. watches[x] = s /\ watches[x] # None
    BY WatchAssumption DEF WakesOf
  <1>2. /\ state[s].of = x /\ state[s].left = {} /\ state[s].at = None
        /\ \A b \in Actors : b \in state[s].watchers <=> Watching(b, x)
    BY <1>1, Entry DEF Watching
  <1>3. /\ state'[s] = [state[s] EXCEPT !.monitor = "tells", !.left = state[s].watchers]
        /\ \A u \in States : u # s => state'[u] = state[u]
        /\ watches'[x] = None /\ \A y \in Actors : y # x => watches'[y] = watches[y]
    BY DEF WakesOf, TypeInv, TableType
  <1>4. state[s] \in StateType /\ None \notin Actors
    BY LifetimeAssumption DEF TypeInv, TableType
  <1>5. /\ state'[s].of = x /\ state'[s].monitor = "tells"
        /\ state'[s].left = state[s].watchers /\ state'[s].at = None
    BY <1>2, <1>3, <1>4 DEF StateType
  <1>6. None \notin state[s].watchers
    BY <1>4 DEF StateType
  <1>7. ASSUME NEW y \in Actors, y # x, watches[y] # None
        PROVE  watches[y] \in States /\ watches[y] # s /\ state'[watches[y]] = state[watches[y]]
    BY <1>1, <1>3, <1>7, Entry, OneEntry
  <1>8. \A y \in Actors : watches'[y] # None => EntryInv(y)'
    BY <1>3, <1>7, Entry DEF EntryInv
  <1>9. \A u \in States : MonitorInv(state'[u])
    <2>1. \A u \in States : MonitorInv(state[u])
      BY DEF TableInv
    <2>2. MonitorInv(state'[s])
      BY <1>5, <1>6 DEF MonitorInv
    <2> QED
      BY <1>3, <2>1, <2>2
  <1>10. TableInv'
    BY <1>8, <1>9 DEF TableInv
  <1>11. \A b, y \in Actors : Watching(b, y)' <=> Watching(b, y) /\ y # x
    BY <1>3, <1>7 DEF Watching
  <1>12. ASSUME NEW b \in Actors
         PROVE  s \notin Left(b) /\ Left(b)' = IF Watching(b, x) THEN Left(b) \cup {s} ELSE Left(b)
    BY <1>2, <1>3, <1>5 DEF Left
  <1>13. ASSUME NEW b \in Actors, NEW y \in Actors
         PROVE  /\ s \notin WithMonitor(b, y)
                /\ WithMonitor(b, y)' = IF y = x /\ Watching(b, x) THEN WithMonitor(b, y) \cup {s}
                                                                   ELSE WithMonitor(b, y)
    <2>1. \A u \in States : u # s => state'[u] = state[u]
      BY <1>3
    <2>2. ~(state[s].of = y /\ b \in state[s].left \cup {state[s].at})
      BY <1>2, <1>4
    <2>3. (state'[s].of = y /\ b \in state'[s].left \cup {state'[s].at}) <=> y = x /\ Watching(b, x)
      BY <1>2, <1>4, <1>5
    <2> QED
      BY <2>1, <2>2, <2>3 DEF WithMonitor
  <1> QED
    BY <1>10, <1>11, <1>12, <1>13

\* A monitor counts a out, and has still to tell it.
CountsOf(s, a) ==
  /\ state[s].monitor = "tells" /\ state[s].at = None /\ a \in state[s].left
  /\ state' = [state EXCEPT ![s].left = @ \ {a}, ![s].at = a]
  /\ watches' = watches

LEMMA CountsEffect ==
  ASSUME TypeInv, TableInv, NEW s \in States, NEW a \in Actors, CountsOf(s, a)
  PROVE  /\ TableInv'
         /\ \A b, y \in Actors : Watching(b, y)' <=> Watching(b, y)
         /\ s \in Left(a) /\ Left(a)' = Left(a) \ {s}
         /\ \A b \in Actors : b # a => Left(b)' = Left(b)
         /\ \A b, y \in Actors : WithMonitor(b, y)' = WithMonitor(b, y)
  <1>1. /\ \A u \in States : u # s => state'[u] = state[u]
        /\ state[s].monitor = "tells" /\ state[s].at = None /\ a \in state[s].left /\ watches' = watches
    BY DEF CountsOf, TypeInv, TableType
  <1>2. state[s] \in StateType /\ None \notin Actors
    BY LifetimeAssumption DEF TypeInv, TableType
  <1>3. /\ state'[s].of = state[s].of /\ state'[s].monitor = "tells"
        /\ state'[s].left = state[s].left \ {a} /\ state'[s].at = a
    <2>1. PICK r \in StateType : r = state[s]
      BY <1>2
    <2>2. state'[s] = [r EXCEPT !.left = r.left \ {a}, !.at = a]
      BY <2>1 DEF CountsOf, TypeInv, TableType
    <2>3. r.monitor = "tells"
      BY <1>1, <2>1
    <2>4. /\ state'[s].of = r.of /\ state'[s].monitor = r.monitor
          /\ state'[s].left = r.left \ {a} /\ state'[s].at = a
      BY <2>2 DEF StateType
    <2> QED
      BY <2>1, <2>3, <2>4
  <1>4. ASSUME NEW y \in Actors, watches[y] # None
        PROVE  watches[y] \in States /\ state'[watches[y]] = state[watches[y]] /\ watches'[y] = watches[y]
    BY <1>1, <1>4, Entry
  <1>5. \A y \in Actors : watches'[y] # None => EntryInv(y)'
    BY <1>1, <1>4, Entry DEF EntryInv
  <1>6. \A u \in States : MonitorInv(state'[u])
    BY <1>1, <1>3 DEF TableInv, MonitorInv
  <1>7. \A b, y \in Actors : Watching(b, y)' <=> Watching(b, y)
    BY <1>1, <1>4 DEF Watching
  <1>8. TableInv'
    BY <1>5, <1>6 DEF TableInv
  <1>9. s \in Left(a) /\ Left(a)' = Left(a) \ {s}
    BY <1>1, <1>3 DEF Left
  <1>10. \A b \in Actors : b # a => Left(b)' = Left(b)
    BY <1>1, <1>3 DEF Left
  <1>11. \A b, y \in Actors : WithMonitor(b, y)' = WithMonitor(b, y)
    BY <1>1, <1>2, <1>3 DEF WithMonitor
  <1> QED
    BY <1>7, <1>8, <1>9, <1>10, <1>11

\* A monitor tells a of the end of x.
TellsOf(s, a, x) ==
  /\ state[s].at = a /\ state[s].of = x
  /\ state' = [state EXCEPT ![s].at = None, ![s].monitor = IF state[s].left = {} THEN "over" ELSE "tells"]
  /\ watches' = watches

LEMMA TellsEffect ==
  ASSUME TypeInv, TableInv, NEW s \in States, NEW a \in Actors, NEW x \in Actors, TellsOf(s, a, x)
  PROVE  /\ TableInv'
         /\ \A b, y \in Actors : Watching(b, y)' <=> Watching(b, y)
         /\ \A b \in Actors : Left(b)' = Left(b)
         /\ s \in WithMonitor(a, x) /\ WithMonitor(a, x)' = WithMonitor(a, x) \ {s}
         /\ \A b, y \in Actors : ~(b = a /\ y = x) => WithMonitor(b, y)' = WithMonitor(b, y)
  <1>1. /\ \A u \in States : u # s => state'[u] = state[u]
        /\ state[s].at = a /\ state[s].of = x /\ watches' = watches
    BY DEF TellsOf, TypeInv, TableType
  <1>2. state[s] \in StateType /\ None \notin Actors /\ MonitorInv(state[s])
    BY LifetimeAssumption DEF TypeInv, TableType, TableInv
  <1>3. /\ state'[s].of = x /\ state'[s].left = state[s].left /\ state'[s].at = None
        /\ state'[s].monitor # "tells" => state'[s].left = {}
    <2>1. PICK r \in StateType : r = state[s]
      BY <1>2
    <2>2. PICK m \in {"over", "tells"} : m = IF r.left = {} THEN "over" ELSE "tells"
      OBVIOUS
    <2>3. state'[s] = [r EXCEPT !.at = None, !.monitor = m]
      BY <2>1, <2>2 DEF TellsOf, TypeInv, TableType
    <2>4. /\ state'[s].of = r.of /\ state'[s].monitor = m
          /\ state'[s].left = r.left /\ state'[s].at = None
      BY <2>3 DEF StateType
    <2>5. m # "tells" => r.left = {}
      BY <2>2
    <2> QED
      BY <1>1, <2>1, <2>4, <2>5
  <1>4. ASSUME NEW y \in Actors, watches[y] # None
        PROVE  watches[y] \in States /\ state'[watches[y]] = state[watches[y]] /\ watches'[y] = watches[y]
    BY <1>1, <1>2, <1>4, Entry, LifetimeAssumption
  <1>5. \A y \in Actors : watches'[y] # None => EntryInv(y)'
    BY <1>1, <1>4, Entry DEF EntryInv
  <1>6. None \notin state[s].left /\ a \notin state[s].left
    BY <1>1, <1>2 DEF MonitorInv, StateType
  <1>7. \A u \in States : MonitorInv(state'[u])
    BY <1>1, <1>3, <1>6 DEF TableInv, MonitorInv
  <1>8. \A b, y \in Actors : Watching(b, y)' <=> Watching(b, y)
    BY <1>1, <1>4 DEF Watching
  <1>9. TableInv'
    BY <1>5, <1>7 DEF TableInv
  <1>10. \A b \in Actors : Left(b)' = Left(b)
    BY <1>1, <1>3 DEF Left
  <1>11. s \in WithMonitor(a, x) /\ WithMonitor(a, x)' = WithMonitor(a, x) \ {s}
    BY <1>1, <1>2, <1>3, <1>6 DEF WithMonitor
  <1>12. ASSUME NEW b \in Actors, NEW y \in Actors, ~(b = a /\ y = x)
         PROVE  WithMonitor(b, y)' = WithMonitor(b, y)
    BY <1>1, <1>2, <1>3, <1>12 DEF WithMonitor
  <1> QED
    BY <1>8, <1>9, <1>10, <1>11, <1>12

OverOf(s) ==
  /\ state[s].monitor = "waits" /\ \A x \in Actors : watches[x] # s
  /\ state' = [state EXCEPT ![s].monitor = "over"]
  /\ watches' = watches

\* What a monitor's step is.
LEMMA MonitorKinds ==
  ASSUME TypeInv, TableInv, NEW s \in States, Monitor(s)
  PROVE  /\ UNCHANGED <<lock, owes, asked, calls, told>>
         /\ \/ OverOf(s) /\ UNCHANGED <<inbox, active>>
            \/ \E x \in Actors : WakesOf(s, x) /\ UNCHANGED <<inbox, active>>
            \/ \E a \in Actors : CountsOf(s, a) /\ Gauge(a, -1) /\ UNCHANGED inbox
            \/ \E a \in Actors : \E x \in Actors : TellsOf(s, a, x) /\ Tell(a, Terminated(x)) /\ UNCHANGED active
  <1>1. UNCHANGED <<lock, owes, asked, calls, told>>
    BY DEF Monitor, MonitorStops, MonitorWakes, MonitorCounts, MonitorTells
  <1>2. state[s] \in StateType /\ (state[s].monitor # "none" => state[s].of \in Actors)
        /\ (state[s].at # None => state[s].of \in Actors)
    BY DEF TypeInv, TableType
  <1>3. CASE MonitorStops(s)
    <2>1. state[s].monitor = "waits" /\ state[s].stop /\ state' = [state EXCEPT ![s].monitor = "over"]
          /\ UNCHANGED <<inbox, watches, active>>
      BY <1>3 DEF MonitorStops
    <2>2. \A x \in Actors : watches[x] # s
      BY <2>1, Entry, WatchAssumption
    <2> QED
      BY <1>1, <2>1, <2>2 DEF OverOf
  <1>4. CASE MonitorWakes(s)
    <2>1. state[s].monitor = "waits" /\ UNCHANGED <<inbox, active>>
      BY <1>4 DEF MonitorWakes
    <2>2. state[s].of \in Actors
      BY <1>2, <2>1
    <2>3. CASE watches[state[s].of] = s
      <3>1. /\ state' = [state EXCEPT ![s].monitor = "tells", ![s].left = state[s].watchers]
            /\ watches' = [watches EXCEPT ![state[s].of] = None]
        BY <1>4, <2>3 DEF MonitorWakes
      <3>2. PICK x \in Actors : x = state[s].of
        BY <2>2
      <3>3. WakesOf(s, x)
        BY <2>3, <3>1, <3>2 DEF WakesOf
      <3> QED
        BY <1>1, <2>1, <3>3
    <2>4. CASE watches[state[s].of] # s
      <3>1. state' = [state EXCEPT ![s].monitor = "over"] /\ watches' = watches
        BY <1>4, <2>4 DEF MonitorWakes
      <3>2. \A x \in Actors : watches[x] # s
        BY <2>4, Entry, WatchAssumption
      <3> QED
        BY <1>1, <2>1, <3>1, <3>2 DEF OverOf
    <2> QED
      BY <2>3, <2>4
  <1>5. CASE MonitorCounts(s)
    <2>1. state[s].monitor = "tells" /\ state[s].at = None /\ inbox' = inbox /\ watches' = watches
      BY <1>5 DEF MonitorCounts
    <2>2. PICK a \in state[s].left : state' = [state EXCEPT ![s].left = @ \ {a}, ![s].at = a] /\ Gauge(a, -1)
      BY <1>5 DEF MonitorCounts
    <2>3. a \in Actors
      BY <1>2, <2>2 DEF StateType
    <2>4. CountsOf(s, a)
      BY <2>1, <2>2 DEF CountsOf
    <2> QED
      BY <1>1, <2>1, <2>2, <2>3, <2>4
  <1>6. CASE MonitorTells(s)
    <2>1. /\ state[s].at # None /\ Tell(state[s].at, Terminated(state[s].of)) /\ active' = active
          /\ watches' = watches
          /\ state' = [state EXCEPT ![s].at = None, ![s].monitor = IF state[s].left = {} THEN "over" ELSE "tells"]
      BY <1>6 DEF MonitorTells
    <2>2. PICK x \in Actors : x = state[s].of
      BY <1>2, <2>1
    <2>3. PICK a \in Actors : a = state[s].at
      BY <1>2, <2>1 DEF StateType
    <2>4. TellsOf(s, a, x) /\ Tell(a, Terminated(x))
      BY <2>1, <2>2, <2>3 DEF TellsOf
    <2> QED
      BY <1>1, <2>1, <2>4
  <1> QED
    BY <1>3, <1>4, <1>5, <1>6 DEF Monitor

\* Every step keeps the table.
LEMMA TableInvStep ==
  ASSUME TypeInv, TableInv, [Next]_vars
  PROVE  TableInv'
  <1>1. CASE UNCHANGED <<watches, state>>
    BY <1>1 DEF TableInv, EntryInv, MonitorInv
  <1>2. ASSUME NEW a \in Actors, NEW x \in Actors, WatchActor(a, x) \/ Unwatch(a, x) PROVE TableInv'
    <2>1. CASE Add(a, x)
      BY <2>1, AddEffect
    <2>2. CASE Unwatch(a, x)
      BY <2>2, UnwatchEffect
    <2> QED
      BY <1>1, <1>2, <2>1, <2>2 DEF WatchActor, AddEnded
  <1>3. ASSUME NEW s \in States, Monitor(s) PROVE TableInv'
    <2>1. CASE OverOf(s)
      BY <2>1, OverEffect DEF OverOf
    <2>2. ASSUME NEW x \in Actors, WakesOf(s, x) PROVE TableInv'
      BY <2>2, WakesEffect
    <2>3. ASSUME NEW a \in Actors, CountsOf(s, a) PROVE TableInv'
      BY <2>3, CountsEffect
    <2>4. ASSUME NEW a \in Actors, NEW x \in Actors, TellsOf(s, a, x) PROVE TableInv'
      BY <2>4, TellsEffect
    <2> QED
      BY <1>3, <2>1, <2>2, <2>3, <2>4, MonitorKinds
  <1>4. ASSUME NEW a \in Actors, Cleans(a) PROVE TableInv'
    BY <1>4, CleanupEffect DEF Cleans
  <1>5. \/ UNCHANGED <<watches, state>>
        \/ \E a \in Actors, x \in Actors : WatchActor(a, x) \/ Unwatch(a, x)
        \/ \E s \in States : Monitor(s)
        \/ \E a \in Actors : Cleans(a)
    BY DEF Next, Server, Pulls, Notice, Drained, Quits, Ends, Cancels, Leaves, Counts, Count, AddReturns, AddTells,
           Monitors, TimerRuns, Fires, HandlesTimer, HandlesWatch, StopInbox, vars, watchVars
  <1> QED
    BY <1>1, <1>2, <1>3, <1>4, <1>5

-----------------------------------------------------------------------------
(* The metrics. *)

GaugeInv(b) == /\ IsFiniteSet(Left(b))
               /\ active[b] + owes[b] = Cardinality(Held(b)) + Cardinality(Left(b))

TallyInv(b) == /\ IsFiniteSet(Of(b, {"armed", "fired"}))
               /\ tally[b].scheduled = tally[b].fired + tally[b].cancelled
                                       + Cardinality(Of(b, {"armed", "fired"}))

LEMMA GaugeTypes ==
  ASSUME TypeInv, NEW b \in Actors
  PROVE  /\ active[b] \in Int /\ owes[b] \in {-1, 0, 1}
         /\ IsFiniteSet(Held(b)) /\ Cardinality(Held(b)) \in Nat
         /\ GaugeInv(b) => Cardinality(Left(b)) \in Nat
  <1>1. IsFiniteSet(Held(b)) /\ Cardinality(Held(b)) \in Nat
    BY LifetimeAssumption, FS_Subset, FS_CardinalityType DEF Held
  <1>2. GaugeInv(b) => Cardinality(Left(b)) \in Nat
    BY FS_CardinalityType DEF GaugeInv
  <1> QED
    BY <1>1, <1>2 DEF TypeInv, LoopType

LEMMA GaugeStays ==
  ASSUME NEW b \in Actors, GaugeInv(b), active'[b] + owes'[b] = active[b] + owes[b],
         \A y \in Actors : Watching(b, y)' <=> Watching(b, y), Left(b)' = Left(b)
  PROVE  GaugeInv(b)'
  <1>1. Held(b)' = Held(b)
    BY DEF Held
  <1> QED
    BY <1>1 DEF GaugeInv

LEMMA AddGauge ==
  ASSUME TypeInv, TableInv, NEW a \in Actors, NEW x \in Actors, Add(a, x), owes[a] = 0, active' = active,
         NEW b \in Actors, GaugeInv(b)
  PROVE  GaugeInv(b)'
  <1>1. /\ \A c, y \in Actors : Watching(c, y)' <=> Watching(c, y) \/ (c = a /\ y = x)
        /\ Left(b)' = Left(b)
    BY AddEffect
  <1>2. owes' = [owes EXCEPT ![a] = IF Watching(a, x) THEN 0 ELSE 1]
    BY DEF Add
  <1>3. CASE b # a
    BY <1>1, <1>2, <1>3, GaugeStays DEF TypeInv, LoopType
  <1>4. CASE b = a /\ Watching(a, x)
    BY <1>1, <1>2, <1>4, GaugeStays DEF TypeInv, LoopType
  <1>5. CASE b = a /\ ~Watching(a, x)
    <2>1. Held(b)' = Held(b) \cup {x} /\ x \notin Held(b)
      BY <1>1, <1>5 DEF Held
    <2>2. IsFiniteSet(Held(b)) /\ Cardinality(Held(b)) \in Nat /\ Cardinality(Left(b)) \in Nat /\ active[b] \in Int
      BY GaugeTypes
    <2>3. Cardinality(Held(b) \cup {x}) = Cardinality(Held(b)) + 1
      BY <2>1, <2>2, FS_AddElement
    <2>4. owes'[b] = 1 /\ owes[b] = 0 /\ active'[b] = active[b]
      BY <1>2, <1>5 DEF TypeInv, LoopType
    <2>5. active'[b] + owes'[b] = Cardinality(Held(b)') + Cardinality(Left(b)')
      BY <1>1, <2>1, <2>2, <2>3, <2>4 DEF GaugeInv
    <2> QED
      BY <1>1, <2>5 DEF GaugeInv
  <1> QED
    BY <1>3, <1>4, <1>5

LEMMA UnwatchGauge ==
  ASSUME TypeInv, TableInv, NEW a \in Actors, NEW x \in Actors, Unwatch(a, x), owes[a] = 0,
         NEW b \in Actors, GaugeInv(b)
  PROVE  GaugeInv(b)'
  <1>1. /\ \A c, y \in Actors : Watching(c, y)' <=> Watching(c, y) /\ ~(c = a /\ y = x)
        /\ Left(b)' = Left(b)
    BY UnwatchEffect
  <1>2. owes' = [owes EXCEPT ![a] = -1] /\ active' = active /\ Watching(a, x)
    BY DEF Unwatch
  <1>3. CASE b # a
    BY <1>1, <1>2, <1>3, GaugeStays DEF TypeInv, LoopType
  <1>4. CASE b = a
    <2>1. Held(b)' = Held(b) \ {x} /\ x \in Held(b)
      BY <1>1, <1>2, <1>4 DEF Held
    <2>2. IsFiniteSet(Held(b)) /\ Cardinality(Held(b)) \in Nat /\ Cardinality(Left(b)) \in Nat /\ active[b] \in Int
      BY GaugeTypes
    <2>3. Cardinality(Held(b) \ {x}) = Cardinality(Held(b)) - 1
      BY <2>1, <2>2, FS_RemoveElement
    <2>4. owes'[b] = -1 /\ owes[b] = 0 /\ active'[b] = active[b]
      BY <1>2, <1>4 DEF TypeInv, LoopType
    <2>5. active'[b] + owes'[b] = Cardinality(Held(b)') + Cardinality(Left(b)')
      BY <1>1, <2>1, <2>2, <2>3, <2>4 DEF GaugeInv
    <2> QED
      BY <1>1, <2>5 DEF GaugeInv
  <1> QED
    BY <1>3, <1>4

LEMMA CleanupGauge ==
  ASSUME TypeInv, TableInv, NEW a \in Actors, Cleanup(a), NEW b \in Actors, GaugeInv(b)
  PROVE  GaugeInv(b)'
  <1>1. /\ \A c, y \in Actors : Watching(c, y)' <=> Watching(c, y) /\ c # a
        /\ Left(b)' = Left(b)
        /\ active' = [active EXCEPT ![a] = @ - Cardinality(Held(a))]
    BY CleanupEffect
  <1>2. owes' = owes
    BY DEF Cleanup
  <1>3. CASE b # a
    BY <1>1, <1>2, <1>3, GaugeStays DEF TypeInv, LoopType
  <1>4. CASE b = a
    <2>1. Held(b)' = {}
      BY <1>1, <1>4 DEF Held
    <2>2. Cardinality(Held(b)) \in Nat /\ Cardinality(Left(b)) \in Nat /\ active[b] \in Int
          /\ owes[b] \in {-1, 0, 1}
      BY GaugeTypes
    <2>3. active'[b] = active[b] - Cardinality(Held(b)) /\ owes'[b] = owes[b]
      BY <1>1, <1>2, <1>4 DEF TypeInv, LoopType
    <2>4. Cardinality(Held(b)') = 0
      BY <2>1, FS_EmptySet
    <2>5. active'[b] + owes'[b] = Cardinality(Held(b)') + Cardinality(Left(b)')
      BY <1>1, <2>2, <2>3, <2>4 DEF GaugeInv
    <2> QED
      BY <1>1, <2>5 DEF GaugeInv
  <1> QED
    BY <1>3, <1>4

LEMMA CountGauge ==
  ASSUME TypeInv, NEW a \in Actors, Count(a), NEW b \in Actors, GaugeInv(b)
  PROVE  GaugeInv(b)'
  <1>1. /\ active' = [active EXCEPT ![a] = @ + owes[a]] /\ owes' = [owes EXCEPT ![a] = 0]
        /\ UNCHANGED <<watches, state>>
    BY DEF Count, Gauge
  <1>2. active[b] \in Int /\ owes[b] \in {-1, 0, 1}
    BY GaugeTypes
  <1>3. active'[b] + owes'[b] = active[b] + owes[b]
    BY <1>1, <1>2 DEF TypeInv, LoopType
  <1>4. \A y \in Actors : Watching(b, y)' <=> Watching(b, y)
    BY <1>1 DEF Watching
  <1>5. Left(b)' = Left(b)
    BY <1>1 DEF Left
  <1> QED
    BY <1>3, <1>4, <1>5, GaugeStays

\* A watch that leaves the table is counted out by the monitor.
LEMMA WakesGauge ==
  ASSUME TypeInv, TableInv, NEW s \in States, NEW x \in Actors, WakesOf(s, x), UNCHANGED <<active, owes>>,
         NEW b \in Actors, GaugeInv(b)
  PROVE  GaugeInv(b)'
  <1>1. /\ \A c, y \in Actors : Watching(c, y)' <=> Watching(c, y) /\ y # x
        /\ s \notin Left(b) /\ Left(b)' = IF Watching(b, x) THEN Left(b) \cup {s} ELSE Left(b)
    BY WakesEffect
  <1>2. CASE ~Watching(b, x)
    BY <1>1, <1>2, GaugeStays
  <1>3. CASE Watching(b, x)
    <2>1. Held(b)' = Held(b) \ {x} /\ x \in Held(b)
      BY <1>1, <1>3 DEF Held
    <2>2. IsFiniteSet(Held(b)) /\ Cardinality(Held(b)) \in Nat /\ Cardinality(Left(b)) \in Nat
          /\ active[b] \in Int /\ owes[b] \in {-1, 0, 1}
      BY GaugeTypes
    <2>3. Cardinality(Held(b) \ {x}) = Cardinality(Held(b)) - 1
      BY <2>1, <2>2, FS_RemoveElement
    <2>4. IsFiniteSet(Left(b) \cup {s}) /\ Cardinality(Left(b) \cup {s}) = Cardinality(Left(b)) + 1
      BY <1>1, FS_AddElement DEF GaugeInv
    <2>5. active'[b] + owes'[b] = Cardinality(Held(b)') + Cardinality(Left(b)')
      BY <1>1, <1>3, <2>1, <2>2, <2>3, <2>4 DEF GaugeInv
    <2> QED
      BY <1>1, <1>3, <2>4, <2>5 DEF GaugeInv
  <1> QED
    BY <1>2, <1>3

LEMMA CountsGauge ==
  ASSUME TypeInv, TableInv, NEW s \in States, NEW a \in Actors, CountsOf(s, a), Gauge(a, -1), owes' = owes,
         NEW b \in Actors, GaugeInv(b)
  PROVE  GaugeInv(b)'
  <1>1. /\ \A c, y \in Actors : Watching(c, y)' <=> Watching(c, y)
        /\ s \in Left(a) /\ Left(a)' = Left(a) \ {s}
        /\ b # a => Left(b)' = Left(b)
    BY CountsEffect
  <1>2. active' = [active EXCEPT ![a] = @ + -1]
    BY DEF Gauge
  <1>3. CASE b # a
    BY <1>1, <1>2, <1>3, GaugeStays DEF TypeInv, LoopType
  <1>4. CASE b = a
    <2>1. Held(b)' = Held(b)
      BY <1>1 DEF Held
    <2>2. Cardinality(Held(b)) \in Nat /\ Cardinality(Left(b)) \in Nat /\ active[b] \in Int
          /\ owes[b] \in {-1, 0, 1}
      BY GaugeTypes
    <2>3. IsFiniteSet(Left(b) \ {s}) /\ Cardinality(Left(b) \ {s}) = Cardinality(Left(b)) - 1
      BY <1>1, <1>4, FS_RemoveElement DEF GaugeInv
    <2>4. active'[b] = active[b] - 1 /\ owes'[b] = owes[b]
      BY <1>2, <1>4, <2>2 DEF TypeInv, LoopType
    <2>5. Left(b)' = Left(b) \ {s} /\ active[b] + owes[b] = Cardinality(Held(b)) + Cardinality(Left(b))
      BY <1>1, <1>4 DEF GaugeInv
    <2>6. active'[b] + owes'[b] = Cardinality(Held(b)') + Cardinality(Left(b)')
      BY <2>1, <2>2, <2>3, <2>4, <2>5
    <2> QED
      BY <2>3, <2>5, <2>6 DEF GaugeInv
  <1> QED
    BY <1>3, <1>4

LEMMA MonitorGauge ==
  ASSUME TypeInv, TableInv, NEW s \in States, Monitor(s), NEW b \in Actors, GaugeInv(b)
  PROVE  GaugeInv(b)'
  <1>1. owes' = owes
    BY MonitorKinds
  <1>2. ASSUME OverOf(s), active' = active PROVE GaugeInv(b)'
    BY <1>1, <1>2, OverEffect, GaugeStays DEF OverOf
  <1>3. ASSUME NEW x \in Actors, WakesOf(s, x), active' = active PROVE GaugeInv(b)'
    BY <1>1, <1>3, WakesGauge
  <1>4. ASSUME NEW a \in Actors, CountsOf(s, a), Gauge(a, -1) PROVE GaugeInv(b)'
    BY <1>1, <1>4, CountsGauge
  <1>5. ASSUME NEW a \in Actors, NEW x \in Actors, TellsOf(s, a, x), active' = active PROVE GaugeInv(b)'
    <2>1. (\A c, y \in Actors : Watching(c, y)' <=> Watching(c, y)) /\ \A c \in Actors : Left(c)' = Left(c)
      BY <1>5, TellsEffect
    <2> QED
      BY <1>1, <1>5, <2>1, GaugeStays
  <1> QED
    BY <1>2, <1>3, <1>4, <1>5, MonitorKinds

LEMMA GaugeStep ==
  ASSUME TypeInv, TableInv, [Next]_vars, NEW b \in Actors, GaugeInv(b)
  PROVE  GaugeInv(b)'
  <1>1. CASE UNCHANGED <<watches, state, owes, active>>
    BY <1>1, GaugeStays DEF Watching, Left
  <1>2. ASSUME NEW a \in Actors, HandlesWatch(a) PROVE GaugeInv(b)'
    <2>1. PICK x \in Actors : WatchActor(a, x) \/ Unwatch(a, x)
      BY <1>2 DEF HandlesWatch
    <2>2. owes[a] = 0
      BY <1>2 DEF HandlesWatch, Loop, Runs
    <2>3. CASE Unwatch(a, x)
      BY <2>2, <2>3, UnwatchGauge
    <2>4. CASE Add(a, x) /\ active' = active
      BY <2>2, <2>4, AddGauge
    <2> QED
      BY <1>1, <2>1, <2>3, <2>4 DEF WatchActor, AddEnded
  <1>3. ASSUME NEW s \in States, Monitor(s) PROVE GaugeInv(b)'
    BY <1>3, MonitorGauge
  <1>4. ASSUME NEW a \in Actors, Cleans(a) PROVE GaugeInv(b)'
    BY <1>4, CleanupGauge DEF Cleans
  <1>5. ASSUME NEW a \in Actors, Counts(a) PROVE GaugeInv(b)'
    BY <1>5, CountGauge DEF Counts
  <1>6. \/ UNCHANGED <<watches, state, owes, active>>
        \/ \E a \in Actors : HandlesWatch(a) \/ Cleans(a) \/ Counts(a)
        \/ \E s \in States : Monitor(s)
    BY DEF Next, Server, Pulls, Notice, Drained, Quits, Ends, Cancels, Leaves, AddReturns, AddTells,
           Monitors, TimerRuns, Fires, HandlesTimer, StopInbox, vars, watchVars
  <1> QED
    BY <1>1, <1>2, <1>3, <1>4, <1>5, <1>6

\* Of one timer that enters or leaves those pending.
Pending(b) == Of(b, {"armed", "fired"})

LEMMA TallyTypes ==
  ASSUME TypeInv, NEW b \in Actors
  PROVE  /\ tally[b].scheduled \in Nat /\ tally[b].fired \in Nat /\ tally[b].cancelled \in Nat
         /\ TallyInv(b) => Cardinality(Pending(b)) \in Nat
  <1>1. tally[b] \in TallyType
    BY DEF TypeInv, TimerType
  <1> QED
    BY <1>1, FS_CardinalityType DEF TallyType, TallyInv, Pending

LEMMA TallyStays ==
  ASSUME NEW b \in Actors, TallyInv(b), tally'[b] = tally[b], Pending(b)' = Pending(b)
  PROVE  TallyInv(b)'
  BY DEF TallyInv, Pending

LEMMA ScheduleTally ==
  ASSUME TypeInv, NEW a \in Actors, NEW t \in Timers, Schedule(a, t), NEW b \in Actors, TallyInv(b)
  PROVE  TallyInv(b)'
  <1>1. /\ timer[t] = "unused" /\ timer' = [timer EXCEPT ![t] = "armed"] /\ owner' = [owner EXCEPT ![t] = a]
        /\ Tally(a, "scheduled")
    BY DEF Schedule
  <1>2. Pending(b)' = (IF b = a THEN Pending(b) \cup {t} ELSE Pending(b)) /\ t \notin Pending(b)
    BY <1>1 DEF Pending, Of, TypeInv, TimerType
  <1>3. /\ tally'[a].scheduled = tally[a].scheduled + 1 /\ tally'[a].fired = tally[a].fired
        /\ tally'[a].cancelled = tally[a].cancelled
        /\ b # a => tally'[b] = tally[b]
    <2>1. /\ tally'[a]["scheduled"] = tally[a]["scheduled"] + 1
          /\ \A w \in {"scheduled", "fired", "cancelled"} \ {"scheduled"} : tally'[a][w] = tally[a][w]
          /\ \A c \in Actors \ {a} : tally'[c] = tally[c]
      BY <1>1, TallyStep DEF TypeInv
    <2> QED
      BY <2>1
  <1>4. CASE b # a
    BY <1>2, <1>3, <1>4, TallyStays
  <1>5. CASE b = a
    <2>1. IsFiniteSet(Pending(b) \cup {t}) /\ Cardinality(Pending(b) \cup {t}) = Cardinality(Pending(b)) + 1
      BY <1>2, FS_AddElement DEF TallyInv, Pending
    <2>2. /\ tally[b].scheduled \in Nat /\ tally[b].fired \in Nat /\ tally[b].cancelled \in Nat
          /\ Cardinality(Pending(b)) \in Nat
          /\ tally[b].scheduled = tally[b].fired + tally[b].cancelled + Cardinality(Pending(b))
      BY TallyTypes DEF TallyInv, Pending
    <2>3. /\ IsFiniteSet(Pending(b)')
          /\ tally'[b].scheduled = tally'[b].fired + tally'[b].cancelled + Cardinality(Pending(b)')
      BY <1>2, <1>3, <1>5, <2>1, <2>2
    <2> QED
      BY <2>3 DEF TallyInv, Pending
  <1> QED
    BY <1>4, <1>5

\* A timer that fired, or was cancelled, is counted as such.
LEMMA EndTally ==
  ASSUME TypeInv, NEW a \in Actors, NEW t \in Timers, NEW what \in {"fired", "cancelled"}, Tally(a, what),
         owner[t] = a, timer[t] \in {"armed", "fired"}, NEW p \in {"tells", "stopped"},
         timer' = [timer EXCEPT ![t] = p], owner' = owner, NEW b \in Actors, TallyInv(b)
  PROVE  TallyInv(b)'
  <1>1. Pending(b)' = (IF b = a THEN Pending(b) \ {t} ELSE Pending(b)) /\ (b = a => t \in Pending(b))
    BY DEF Pending, Of, TypeInv, TimerType
  <1>2. /\ tally'[a].scheduled = tally[a].scheduled
        /\ \/ tally'[a].fired = tally[a].fired + 1 /\ tally'[a].cancelled = tally[a].cancelled
           \/ tally'[a].fired = tally[a].fired /\ tally'[a].cancelled = tally[a].cancelled + 1
        /\ b # a => tally'[b] = tally[b]
    <2>1. /\ tally'[a][what] = tally[a][what] + 1
          /\ \A w \in {"scheduled", "fired", "cancelled"} \ {what} : tally'[a][w] = tally[a][w]
          /\ \A c \in Actors \ {a} : tally'[c] = tally[c]
      BY TallyStep DEF TypeInv
    <2>2. CASE what = "fired"
      BY <2>1, <2>2
    <2>3. CASE what = "cancelled"
      BY <2>1, <2>3
    <2> QED
      BY <2>2, <2>3
  <1>3. CASE b # a
    BY <1>1, <1>2, <1>3, TallyStays
  <1>4. CASE b = a
    <2>1. IsFiniteSet(Pending(b) \ {t}) /\ Cardinality(Pending(b) \ {t}) = Cardinality(Pending(b)) - 1
      BY <1>1, <1>4, FS_RemoveElement DEF TallyInv, Pending
    <2>2. /\ tally[b].scheduled \in Nat /\ tally[b].fired \in Nat /\ tally[b].cancelled \in Nat
          /\ Cardinality(Pending(b)) \in Nat
          /\ tally[b].scheduled = tally[b].fired + tally[b].cancelled + Cardinality(Pending(b))
      BY TallyTypes DEF TallyInv, Pending
    <2>3. /\ IsFiniteSet(Pending(b)')
          /\ tally'[b].scheduled = tally'[b].fired + tally'[b].cancelled + Cardinality(Pending(b)')
      BY <1>1, <1>2, <1>4, <2>1, <2>2
    <2> QED
      BY <2>3 DEF TallyInv, Pending
  <1> QED
    BY <1>3, <1>4

LEMMA TallyInvStep ==
  ASSUME TypeInv, TimerInv, [Next]_vars, NEW b \in Actors, TallyInv(b)
  PROVE  TallyInv(b)'
  <1>1. ASSUME UNCHANGED <<timer, owner, tally>> PROVE TallyInv(b)'
    BY <1>1, TallyStays DEF Pending, Of
  <1>2. ASSUME NEW a \in Actors, NEW t \in Timers, Schedule(a, t) PROVE TallyInv(b)'
    BY <1>2, ScheduleTally
  <1>3. ASSUME NEW a \in Actors, NEW t \in Timers, Cancel(a, t) PROVE TallyInv(b)'
    BY <1>3, EndTally DEF Cancel, StopsInTime
  <1>4. ASSUME NEW a \in Actors, NEW t \in Timers, CancelNext(a, t) PROVE TallyInv(b)'
    <2>1. owner[t] = a
      BY <1>4 DEF CancelNext, TimerInv, OwnsWhatComes
    <2> QED
      BY <1>1, <1>4, <2>1, EndTally DEF CancelNext, StopsInTime
  <1>5. ASSUME NEW t \in Timers, Fire(t) \/ FireTell(t) PROVE TallyInv(b)'
    <2>1. Pending(b)' = Pending(b)
      BY <1>5 DEF Fire, FireTell, Pending, Of, TypeInv, TimerType
    <2> QED
      BY <1>5, <2>1, TallyStays DEF Fire, FireTell
  <1>6. ASSUME NEW t \in Timers, FireFinish(t) PROVE TallyInv(b)'
    <2>1. PICK a \in Actors : a = owner[t]
      BY <1>6, FireType DEF TypeInv
    <2> QED
      BY <1>6, <2>1, EndTally DEF FireFinish
  <1>7. \/ UNCHANGED <<timer, owner, tally>>
        \/ \E a \in Actors, t \in Timers : Schedule(a, t) \/ Cancel(a, t) \/ CancelNext(a, t)
        \/ \E t \in Timers : Fire(t) \/ FireFinish(t) \/ FireTell(t)
    BY DEF Next, Server, Pulls, Drained, Quits, Ends, CancelOwner, Cancels, Cleans, Leaves, Counts, AddReturns,
           Monitors, TimerRuns, Fires, HandlesTimer, HandlesWatch, StopInbox, vars, timerVars
  <1> QED
    BY <1>1, <1>2, <1>3, <1>4, <1>5, <1>6, <1>7

MetricsInv == TypeInv /\ TimerInv /\ TableInv /\ \A a \in Actors : GaugeInv(a) /\ TallyInv(a)

LEMMA TableInit ==
  ASSUME Init
  PROVE  TableInv /\ LockInv
  BY DEF Init, WatchInit, Unmade, TableInv, MonitorInv, LockInv

LEMMA MetricsInit ==
  ASSUME Init, NEW a \in Actors
  PROVE  GaugeInv(a) /\ TallyInv(a)
  <1>1. Held(a) = {} /\ Left(a) = {} /\ Of(a, {"armed", "fired"}) = {}
    BY DEF Init, WatchInit, TimersInit, Unmade, Held, Watching, Left, Of
  <1>2. IsFiniteSet({}) /\ Cardinality({}) = 0
    BY FS_EmptySet
  <1>3. GaugeInv(a)
    BY <1>1, <1>2 DEF Init, WatchInit, GaugeInv
  <1>4. TallyInv(a)
    BY <1>1, <1>2 DEF Init, TimersInit, TallyInv
  <1> QED
    BY <1>3, <1>4

(* The metrics are exact, for any actors, timers and watched states: every
   watch that leaves the table is counted out once, by the loop that gave it
   up, by the clean-up of its watcher or by the monitor, and every timer
   scheduled is pending or counted once, however firing, cancelling and the
   owner's end interleave. *)
THEOREM MetricsAreExact == Spec => []MetricsExact
  <1>1. Init => MetricsInv
    BY TypeInit, TimerInit, TableInit, MetricsInit DEF MetricsInv
  <1>2. MetricsInv /\ [Next]_vars => MetricsInv'
    BY TypeStep, TimerStep, TableInvStep, GaugeStep, TallyInvStep DEF MetricsInv
  <1>3. MetricsInv => MetricsExact
    BY DEF MetricsInv, GaugeInv, TallyInv, MetricsExact, Held, Left
  <1> QED
    BY <1>1, <1>2, <1>3, PTL DEF Spec

-----------------------------------------------------------------------------
(* The notices. *)

\* How many notices of y's end are on their way to b, and how many may come.
Mails(b, y) == Cardinality(InMailbox(b, y))
Mons(b, y) == Cardinality(WithMonitor(b, y))
Adds(b, y) == IF <<b, y>> \in lock THEN 1 ELSE 0
Watches(b, y) == IF Watching(b, y) THEN 1 ELSE 0
Coming(b, y) == Mails(b, y) + Mons(b, y) + Adds(b, y) + Watches(b, y)

Awaits(b, y) == life[b] = "up" /\ b \notin closed /\ y \in asked[b]

DueInv(b, y) == /\ IsFiniteSet(WithMonitor(b, y))
                /\ told[b][y] + Coming(b, y) <= calls[b][y]
                /\ Awaits(b, y) => Coming(b, y) > 0

LEMMA MailTypes ==
  ASSUME TypeInv, NEW b \in Actors, NEW y \in Actors
  PROVE  IsFiniteSet(InMailbox(b, y)) /\ Mails(b, y) \in Nat
  <1>1. inbox[b] \in Seq(Message)
    BY DEF TypeInv, LifeType
  <1>2. DOMAIN inbox[b] = 1..Len(inbox[b]) /\ Len(inbox[b]) \in Nat
    BY <1>1
  <1>3. IsFiniteSet(DOMAIN inbox[b])
    BY <1>2, FS_Interval
  <1>4. IsFiniteSet(InMailbox(b, y))
    BY <1>3, FS_Subset DEF InMailbox
  <1> QED
    BY <1>4, FS_CardinalityType DEF Mails

LEMMA ComingTypes ==
  ASSUME TypeInv, NEW b \in Actors, NEW y \in Actors, IsFiniteSet(WithMonitor(b, y))
  PROVE  /\ Mails(b, y) \in Nat /\ Mons(b, y) \in Nat /\ Adds(b, y) \in {0, 1} /\ Watches(b, y) \in {0, 1}
         /\ Coming(b, y) \in Nat /\ told[b][y] \in Nat /\ calls[b][y] \in Nat
  <1>1. Mails(b, y) \in Nat /\ Mons(b, y) \in Nat
    BY MailTypes, FS_CardinalityType DEF Mons
  <1>2. Adds(b, y) \in {0, 1} /\ Watches(b, y) \in {0, 1}
    BY DEF Adds, Watches
  <1>3. Coming(b, y) \in Nat
    BY <1>1, <1>2 DEF Coming
  <1> QED
    BY <1>1, <1>2, <1>3 DEF TypeInv, LoopType

LEMMA Notices ==
  ASSUME NEW x \in Actors, NEW y \in Actors, Terminated(x) = Terminated(y)
  PROVE  x = y
  <1>1. [who |-> x].who = [who |-> y].who
    BY DEF Terminated
  <1> QED
    BY <1>1

\* A Tell adds one notice, to a mailbox that is open.
LEMMA TellCount ==
  ASSUME TypeInv, NEW a \in Actors, NEW m \in Message, Tell(a, m), NEW b \in Actors, NEW y \in Actors
  PROVE  Mails(b, y)' = IF b = a /\ a \notin closed /\ m = Terminated(y) THEN Mails(b, y) + 1 ELSE Mails(b, y)
  <1>1. inbox \in [Actors -> Seq(Message)] /\ inbox[a] \in Seq(Message)
    BY DEF TypeInv, LifeType
  <1>2. CASE b # a \/ a \in closed
    <2>1. inbox'[b] = inbox[b]
      BY <1>1, <1>2 DEF Tell
    <2>2. InMailbox(b, y)' = InMailbox(b, y)
      BY <2>1 DEF InMailbox
    <2> QED
      BY <1>2, <2>2 DEF Mails
  <1>3. CASE b = a /\ a \notin closed
    <2>1. inbox'[b] = Append(inbox[b], m)
      BY <1>1, <1>3 DEF Tell
    <2> DEFINE n == Len(inbox[b])
    <2>2. /\ n \in Nat /\ DOMAIN inbox[b] = 1..n /\ DOMAIN inbox'[b] = 1..(n + 1)
          /\ (\A j \in 1..n : inbox'[b][j] = inbox[b][j]) /\ inbox'[b][n + 1] = m
      BY <1>1, <1>3, <2>1
    <2> HIDE DEF n
    <2>3. IsFiniteSet(InMailbox(b, y)) /\ n + 1 \notin InMailbox(b, y)
      <3>1. InMailbox(b, y) \subseteq 1..n
        BY <2>2 DEF InMailbox
      <3> QED
        BY <2>2, <3>1, MailTypes
    <2>4. CASE m = Terminated(y)
      <3>1. InMailbox(b, y)' = InMailbox(b, y) \cup {n + 1}
        BY <2>2, <2>4 DEF InMailbox
      <3>2. Cardinality(InMailbox(b, y) \cup {n + 1}) = Cardinality(InMailbox(b, y)) + 1
        BY <2>3, FS_AddElement
      <3> QED
        BY <1>3, <2>4, <3>1, <3>2 DEF Mails
    <2>5. CASE m # Terminated(y)
      <3>1. InMailbox(b, y)' = InMailbox(b, y)
        BY <2>2, <2>5 DEF InMailbox
      <3> QED
        BY <1>3, <2>5, <3>1 DEF Mails
    <2> QED
      BY <2>4, <2>5
  <1> QED
    BY <1>2, <1>3

\* A Pull takes the first message.
LEMMA PullCount ==
  ASSUME TypeInv, NEW a \in Actors, inbox[a] # <<>>, inbox' = [inbox EXCEPT ![a] = Tail(@)],
         NEW b \in Actors, NEW y \in Actors
  PROVE  Mails(b, y)' = IF b = a /\ Head(inbox[a]) = Terminated(y) THEN Mails(b, y) - 1 ELSE Mails(b, y)
  <1>1. inbox \in [Actors -> Seq(Message)] /\ inbox[a] \in Seq(Message)
    BY DEF TypeInv, LifeType
  <1>2. CASE b # a
    <2>1. InMailbox(b, y)' = InMailbox(b, y)
      BY <1>1, <1>2 DEF InMailbox
    <2> QED
      BY <1>2, <2>1 DEF Mails
  <1>3. CASE b = a
    <2>1. inbox'[b] = Tail(inbox[b])
      BY <1>1, <1>3
    <2> DEFINE n == Len(inbox[b])
               S == InMailbox(b, y)
               T == {i \in DOMAIN Tail(inbox[b]) : Tail(inbox[b])[i] = Terminated(y)}
               f == [i \in T |-> i + 1]
    <2>2. /\ n \in Nat /\ n >= 1 /\ DOMAIN inbox[b] = 1..n /\ DOMAIN Tail(inbox[b]) = 1..(n - 1)
          /\ (\A j \in 1..(n - 1) : Tail(inbox[b])[j] = inbox[b][j + 1]) /\ Head(inbox[b]) = inbox[b][1]
      BY <1>1, <1>3
    <2>3. IsFiniteSet(S) /\ InMailbox(b, y)' = T
      BY <2>1, MailTypes DEF InMailbox
    <2>4. S \subseteq 1..n /\ T \subseteq 1..(n - 1) /\ (1 \in S <=> Head(inbox[b]) = Terminated(y))
          /\ \A i \in 1..(n - 1) : i \in T <=> i + 1 \in S
      BY <2>2 DEF InMailbox
    <2>5. IsFiniteSet(S \ {1}) /\ Cardinality(S \ {1}) = IF 1 \in S THEN Cardinality(S) - 1 ELSE Cardinality(S)
      BY <2>3, FS_RemoveElement
    <2> HIDE DEF n, S, T
    <2>6. f \in Injection(T, S \ {1})
      BY <2>2, <2>4 DEF Injection, IsInjective
    <2>7. \A j \in S \ {1} : \E i \in T : f[i] = j
      <3>1. ASSUME NEW j \in S \ {1} PROVE \E i \in T : f[i] = j
        <4>1. j - 1 \in 1..(n - 1) /\ (j - 1) + 1 = j
          BY <2>2, <2>4
        <4>2. j - 1 \in T
          BY <2>4, <4>1
        <4> QED
          BY <4>1, <4>2
      <3> QED
        BY <3>1
    <2>8. f \in Surjection(T, S \ {1})
      BY <2>6, <2>7 DEF Injection, Surjection
    <2>9. Cardinality(T) = Cardinality(S \ {1})
      <3> HIDE DEF f
      <3> QED
        BY <2>5, <2>6, <2>8, FS_Injection
    <2> QED
      BY <1>3, <2>3, <2>4, <2>5, <2>9 DEF Mails, S
  <1> QED
    BY <1>2, <1>3

\* Where what is on its way does not change, or b asks no more.
LEMMA DueKept ==
  ASSUME TypeInv, NEW b \in Actors, NEW y \in Actors, DueInv(b, y), TypeInv', IsFiniteSet(WithMonitor(b, y)'),
         told'[b][y] = told[b][y], calls'[b][y] = calls[b][y], Awaits(b, y)' => Awaits(b, y),
         \/ Coming(b, y)' = Coming(b, y)
         \/ Coming(b, y)' <= Coming(b, y) /\ ~Awaits(b, y)'
  PROVE  DueInv(b, y)'
  <1>1. Coming(b, y) \in Nat /\ Coming(b, y)' \in Nat /\ told[b][y] \in Nat /\ calls[b][y] \in Nat
    <2>1. Coming(b, y) \in Nat /\ told[b][y] \in Nat /\ calls[b][y] \in Nat
      BY ComingTypes DEF DueInv
    <2>2. (TypeInv /\ IsFiniteSet(WithMonitor(b, y)) => Coming(b, y) \in Nat)'
      BY ComingTypes, PTL
    <2> QED
      BY <2>1, <2>2
  <1> QED
    BY <1>1 DEF DueInv

\* Who has ended does not come back.
LEMMA AwaitsLess ==
  ASSUME TypeInv, [Next]_vars, NEW b \in Actors, NEW y \in Actors, asked'[b] \subseteq asked[b], Awaits(b, y)'
  PROVE  Awaits(b, y)
  <1>1. closed \subseteq closed'
    BY DEF Next, Server, Pulls, Drained, Quits, Ends, Cancels, Cleans, Leaves, Leave, Finish, Counts, AddReturns,
           Monitors, TimerRuns, Fires, HandlesTimer, HandlesWatch, StopInbox, vars
  <1>2. \/ life' = life
        \/ \E a \in Actors : \E l \in Lives \ {"up"} : life' = [life EXCEPT ![a] = l]
    BY DEF Next, Server, Pulls, Drained, Quits, Ends, Cancels, Cleans, Leaves, Leave, Finish, Counts, AddReturns,
           Monitors, TimerRuns, Fires, HandlesTimer, HandlesWatch, StopInbox, Moves, vars, Lives
  <1>3. life'[b] = "up" => life[b] = "up"
    BY <1>2 DEF TypeInv, LifeType
  <1> QED
    BY <1>1, <1>3 DEF Awaits

\* A call of Watch, of an actor that has ended or of one that has not.
LEMMA WatchDue ==
  ASSUME TypeInv, TableInv, LockInv, NEW a \in Actors, NEW x \in Actors, WatchActor(a, x),
         UNCHANGED <<life, closed>>, TypeInv', NEW b \in Actors, NEW y \in Actors, DueInv(b, y)
  PROVE  DueInv(b, y)'
  <1>1. /\ lock = {} /\ told' = told
        /\ asked' = [asked EXCEPT ![a] = @ \cup {x}]
        /\ calls' = [calls EXCEPT ![a] = [calls[a] EXCEPT ![x] = calls[a][x] + 1]]
        /\ AddEnded(a, x) \/ Add(a, x)
    BY DEF WatchActor
  <1>2. /\ Mails(b, y) \in Nat /\ Mons(b, y) \in Nat /\ Adds(b, y) = 0 /\ Watches(b, y) \in {0, 1}
        /\ Coming(b, y) \in Nat /\ told[b][y] \in Nat /\ calls[b][y] \in Nat
    BY <1>1, ComingTypes DEF DueInv, Adds
  <1>3. calls'[b][y] = IF b = a /\ y = x THEN calls[b][y] + 1 ELSE calls[b][y]
    BY <1>1 DEF TypeInv, LoopType
  <1>4. WithMonitor(b, y)' = WithMonitor(b, y)
    BY <1>1, AddEffect DEF AddEnded, WithMonitor
  <1>5. Mons(b, y)' = Mons(b, y) /\ IsFiniteSet(WithMonitor(b, y)')
    BY <1>4 DEF Mons, DueInv
  <1>6. ~(b = a /\ y = x) => (Awaits(b, y)' => Awaits(b, y))
    BY <1>1 DEF Awaits, TypeInv, LoopType
  <1>7. CASE Add(a, x)
    <2>1. Mails(b, y)' = Mails(b, y) /\ Adds(b, y)' = Adds(b, y)
      BY <1>7 DEF Add, Mails, InMailbox, Adds
    <2>2. Watches(b, y)' = IF b = a /\ y = x THEN 1 ELSE Watches(b, y)
      BY <1>7, AddEffect DEF Watches
    <2>3. CASE b = a /\ y = x
      <3>1. Coming(b, y)' > 0 /\ Coming(b, y)' <= Coming(b, y) + 1
        BY <1>2, <1>5, <2>1, <2>2, <2>3 DEF Coming
      <3>2. Coming(b, y)' \in Nat
        BY <1>2, <1>5, <2>1, <2>2, <2>3 DEF Coming
      <3> QED
        BY <1>1, <1>2, <1>3, <1>5, <2>3, <3>1, <3>2 DEF DueInv
    <2>4. CASE ~(b = a /\ y = x)
      <3>1. Coming(b, y)' = Coming(b, y)
        BY <1>5, <2>1, <2>2, <2>4 DEF Coming
      <3> QED
        BY <1>1, <1>3, <1>5, <1>6, <2>4, <3>1, DueKept
    <2> QED
      BY <2>3, <2>4
  <1>8. CASE AddEnded(a, x)
    <2>1. Watches(b, y)' = Watches(b, y)
      BY <1>8 DEF AddEnded, Watches, Watching
    <2>2. CASE CanTell(a)
      <3>1. Tell(a, Terminated(x)) /\ lock' = lock
        BY <1>8, <2>2 DEF AddEnded
      <3>2. Mails(b, y)' = IF b = a /\ a \notin closed /\ Terminated(x) = Terminated(y)
                           THEN Mails(b, y) + 1 ELSE Mails(b, y)
        BY <3>1, TellCount, TerminatedType
      <3>3. Adds(b, y)' = Adds(b, y)
        BY <3>1 DEF Adds
      <3>4. CASE b = a /\ y = x /\ a \notin closed
        <4>1. Coming(b, y)' = Coming(b, y) + 1
          BY <1>2, <1>5, <2>1, <3>2, <3>3, <3>4 DEF Coming
        <4> QED
          BY <1>1, <1>2, <1>3, <1>5, <3>4, <4>1 DEF DueInv
      <3>5. CASE ~(b = a /\ y = x /\ a \notin closed)
        <4>1. Coming(b, y)' = Coming(b, y)
          BY <1>5, <2>1, <3>2, <3>3, <3>5, Notices DEF Coming
        <4>2. Awaits(b, y)' => Awaits(b, y)
          BY <1>6, <3>5 DEF Awaits
        <4>3. told'[b][y] = told[b][y] /\ calls'[b][y] >= calls[b][y]
          BY <1>1, <1>2, <1>3
        <4> QED
          BY <1>2, <1>3, <1>5, <4>1, <4>2, <4>3 DEF DueInv
      <3> QED
        BY <3>4, <3>5
    <2>3. CASE ~CanTell(a)
      <3>1. lock' = {<<a, x>>} /\ inbox' = inbox
        BY <1>8, <2>3 DEF AddEnded
      <3>2. Mails(b, y)' = Mails(b, y)
        BY <3>1 DEF Mails, InMailbox
      <3>3. Adds(b, y)' = IF b = a /\ y = x THEN 1 ELSE 0
        BY <3>1 DEF Adds
      <3>4. CASE b = a /\ y = x
        <4>1. Coming(b, y)' = Coming(b, y) + 1
          BY <1>2, <1>5, <2>1, <3>2, <3>3, <3>4 DEF Coming
        <4> QED
          BY <1>1, <1>2, <1>3, <1>5, <3>4, <4>1 DEF DueInv
      <3>5. CASE ~(b = a /\ y = x)
        <4>1. Coming(b, y)' = Coming(b, y)
          BY <1>2, <1>5, <2>1, <3>2, <3>3, <3>5 DEF Coming
        <4> QED
          BY <1>1, <1>3, <1>5, <1>6, <3>5, <4>1, DueKept
      <3> QED
        BY <3>4, <3>5
    <2> QED
      BY <2>2, <2>3
  <1> QED
    BY <1>1, <1>7, <1>8

LEMMA UnwatchDue ==
  ASSUME TypeInv, TableInv, NEW a \in Actors, NEW x \in Actors, Unwatch(a, x), UNCHANGED <<life, closed>>, TypeInv',
         NEW b \in Actors, NEW y \in Actors, DueInv(b, y)
  PROVE  DueInv(b, y)'
  <1>1. /\ UNCHANGED <<inbox, lock, calls, told>> /\ asked' = [asked EXCEPT ![a] = @ \ {x}] /\ Watching(a, x)
    BY DEF Unwatch
  <1>2. /\ WithMonitor(b, y)' = WithMonitor(b, y)
        /\ Watches(b, y)' = IF b = a /\ y = x THEN 0 ELSE Watches(b, y)
    BY UnwatchEffect DEF Watches
  <1>3. /\ Mails(b, y)' = Mails(b, y) /\ Mons(b, y)' = Mons(b, y) /\ Adds(b, y)' = Adds(b, y)
        /\ IsFiniteSet(WithMonitor(b, y)')
    BY <1>1, <1>2 DEF Mails, InMailbox, Mons, Adds, DueInv
  <1>4. /\ Mails(b, y) \in Nat /\ Mons(b, y) \in Nat /\ Adds(b, y) \in {0, 1} /\ Watches(b, y) \in {0, 1}
    BY ComingTypes DEF DueInv
  <1>5. CASE b = a /\ y = x
    <2>1. ~Awaits(b, y)' /\ Coming(b, y)' <= Coming(b, y)
      BY <1>1, <1>2, <1>3, <1>4, <1>5 DEF Awaits, Coming, TypeInv, LoopType
    <2> QED
      BY <1>1, <1>3, <2>1, DueKept
  <1>6. CASE ~(b = a /\ y = x)
    <2>1. Coming(b, y)' = Coming(b, y) /\ (Awaits(b, y)' => Awaits(b, y))
      BY <1>1, <1>2, <1>3, <1>6 DEF Awaits, Coming, TypeInv, LoopType
    <2> QED
      BY <1>1, <1>3, <2>1, DueKept
  <1> QED
    BY <1>5, <1>6

\* What is on its way does not change where the table does not, nor the lock and the notices.
LEMMA DueStays ==
  ASSUME TypeInv, [Next]_vars, TypeInv', UNCHANGED <<lock, asked, calls, told>>,
         NEW b \in Actors, NEW y \in Actors, DueInv(b, y), Mails(b, y)' = Mails(b, y),
         Watching(b, y)' <=> Watching(b, y), WithMonitor(b, y)' = WithMonitor(b, y)
  PROVE  DueInv(b, y)'
  <1>1. Coming(b, y)' = Coming(b, y)
    BY DEF Coming, Mons, Adds, Watches
  <1>2. Awaits(b, y)' => Awaits(b, y)
    BY AwaitsLess
  <1> QED
    BY <1>1, <1>2, DueKept DEF DueInv

LEMMA CleanupDue ==
  ASSUME TypeInv, TableInv, [Next]_vars, NEW a \in Actors, Cleans(a), TypeInv',
         NEW b \in Actors, NEW y \in Actors, DueInv(b, y)
  PROVE  DueInv(b, y)'
  <1>1. /\ Cleanup(a) /\ UNCHANGED <<inbox, lock, asked, calls, told>> /\ life'[a] # "up"
    BY DEF Cleans, Cleanup, Moves, TypeInv, LifeType
  <1>2. /\ WithMonitor(b, y)' = WithMonitor(b, y)
        /\ Watching(b, y)' <=> Watching(b, y) /\ b # a
    BY <1>1, CleanupEffect
  <1>3. Mails(b, y)' = Mails(b, y) /\ Adds(b, y)' = Adds(b, y) /\ Mons(b, y)' = Mons(b, y)
    BY <1>1, <1>2 DEF Mails, InMailbox, Adds, Mons
  <1>4. CASE b # a
    BY <1>1, <1>2, <1>3, <1>4, DueStays
  <1>5. CASE b = a
    <2>1. Mails(b, y) \in Nat /\ Mons(b, y) \in Nat /\ Adds(b, y) \in {0, 1} /\ Watches(b, y) \in {0, 1}
      BY ComingTypes DEF DueInv
    <2>2. Watches(b, y)' = 0
      BY <1>2, <1>5 DEF Watches
    <2>3. Coming(b, y)' <= Coming(b, y) /\ ~Awaits(b, y)'
      BY <1>1, <1>3, <1>5, <2>1, <2>2 DEF Coming, Awaits
    <2> QED
      BY <1>1, <1>2, <2>3, DueKept DEF DueInv
  <1> QED
    BY <1>4, <1>5

\* The mailbox is stopped, and what was in it is lost.
LEMMA LeaveDue ==
  ASSUME TypeInv, [Next]_vars, NEW a \in Actors, Leave(a), UNCHANGED watchVars, TypeInv',
         NEW b \in Actors, NEW y \in Actors, DueInv(b, y)
  PROVE  DueInv(b, y)'
  <1>1. /\ inbox' = [inbox EXCEPT ![a] = <<>>] /\ closed' = closed \cup {a}
        /\ UNCHANGED <<watches, state, lock, asked, calls, told>>
    BY DEF Leave, watchVars
  <1>2. (Watching(b, y)' <=> Watching(b, y)) /\ WithMonitor(b, y)' = WithMonitor(b, y)
    BY <1>1 DEF Watching, WithMonitor
  <1>3. CASE b # a
    <2>1. Mails(b, y)' = Mails(b, y)
      BY <1>1, <1>3 DEF Mails, InMailbox, TypeInv, LifeType
    <2> QED
      BY <1>1, <1>2, <2>1, DueStays
  <1>4. CASE b = a
    <2>1. Mails(b, y) \in Nat /\ Mons(b, y) \in Nat /\ Adds(b, y) \in {0, 1} /\ Watches(b, y) \in {0, 1}
      BY ComingTypes DEF DueInv
    <2>2. inbox'[b] = <<>>
      BY <1>1, <1>4 DEF TypeInv, LifeType
    <2>3. InMailbox(b, y)' = {}
      BY <2>2 DEF InMailbox
    <2>4. Mails(b, y)' = 0
      BY <2>3, FS_EmptySet DEF Mails
    <2>5. Adds(b, y)' = Adds(b, y) /\ Mons(b, y)' = Mons(b, y) /\ Watches(b, y)' = Watches(b, y)
      BY <1>1, <1>2 DEF Adds, Mons, Watches
    <2>6. Coming(b, y)' <= Coming(b, y) /\ ~Awaits(b, y)'
      BY <1>1, <1>4, <2>1, <2>4, <2>5 DEF Coming, Awaits
    <2> QED
      BY <1>1, <1>2, <2>6, DueKept DEF DueInv
  <1> QED
    BY <1>3, <1>4

\* A message is handled: a notice counts as told.
LEMMA PullDue ==
  ASSUME TypeInv, [Next]_vars, NEW a \in Actors, Pulls(a), TypeInv',
         NEW b \in Actors, NEW y \in Actors, DueInv(b, y)
  PROVE  DueInv(b, y)'
  <1>1. inbox[a] # <<>> /\ inbox' = [inbox EXCEPT ![a] = Tail(@)]
    BY DEF Pulls
  <1>2. Head(inbox[a]) \in Message
    BY <1>1, PullType DEF TypeInv
  <1>3. Mails(b, y)' = IF b = a /\ Head(inbox[a]) = Terminated(y) THEN Mails(b, y) - 1 ELSE Mails(b, y)
    BY <1>1, PullCount
  <1>4. CASE "who" \in DOMAIN Head(inbox[a])
    <2>1. PICK x \in Actors : x = Head(inbox[a]).who /\ Head(inbox[a]) = Terminated(x)
      BY <1>2, <1>4, NoticeFields
    <2>2. Notice(a, x)
      BY <1>4, <2>1 DEF Pulls
    <2>3. /\ UNCHANGED <<watches, state, lock, calls>> /\ asked' = [asked EXCEPT ![a] = @ \ {x}]
          /\ told' = [told EXCEPT ![a] = [told[a] EXCEPT ![x] = told[a][x] + 1]]
      BY <2>2 DEF Notice
    <2>4. (Watching(b, y)' <=> Watching(b, y)) /\ WithMonitor(b, y)' = WithMonitor(b, y)
      BY <2>3 DEF Watching, WithMonitor
    <2>5. Adds(b, y)' = Adds(b, y) /\ Mons(b, y)' = Mons(b, y) /\ Watches(b, y)' = Watches(b, y)
      BY <2>3, <2>4 DEF Adds, Mons, Watches
    <2>6. asked'[b] \subseteq asked[b] /\ (b = a => x \notin asked'[b])
      BY <2>3 DEF TypeInv, LoopType
    <2>7. Awaits(b, y)' => Awaits(b, y)
      BY <2>6, AwaitsLess
    <2>8. told'[b][y] = IF b = a /\ y = x THEN told[b][y] + 1 ELSE told[b][y]
      BY <2>3 DEF TypeInv, LoopType
    <2>9. CASE b = a /\ y = x
      <3>1. /\ Mails(b, y) \in Nat /\ Mons(b, y) \in Nat /\ Adds(b, y) \in {0, 1} /\ Watches(b, y) \in {0, 1}
            /\ told[b][y] \in Nat /\ calls[b][y] \in Nat
        BY ComingTypes DEF DueInv
      <3>2. Coming(b, y)' = Coming(b, y) - 1
        BY <1>3, <2>1, <2>5, <2>9, <3>1 DEF Coming
      <3>3. Coming(b, y) \in Nat
        BY <3>1 DEF Coming
      <3>4. ~Awaits(b, y)'
        BY <2>6, <2>9 DEF Awaits
      <3>5. told'[b][y] + Coming(b, y)' <= calls'[b][y]
        BY <2>3, <2>8, <2>9, <3>1, <3>2, <3>3 DEF DueInv
      <3> QED
        BY <2>4, <3>4, <3>5 DEF DueInv
    <2>10. CASE ~(b = a /\ y = x)
      <3>1. Mails(b, y)' = Mails(b, y)
        BY <1>3, <2>1, <2>10, Notices
      <3>2. Coming(b, y)' = Coming(b, y)
        BY <2>5, <3>1 DEF Coming
      <3> QED
        BY <2>3, <2>4, <2>7, <2>8, <2>10, <3>2, DueKept DEF DueInv
    <2> QED
      BY <2>9, <2>10
  <1>5. CASE "who" \notin DOMAIN Head(inbox[a])
    <2>1. UNCHANGED watchVars
      BY <1>5 DEF Pulls
    <2>2. PICK t \in Timers : Head(inbox[a]) = [timer |-> t]
      BY <1>2, <1>5, NoticeFields
    <2>3. Mails(b, y)' = Mails(b, y)
      BY <1>3, <2>2, TerminatedType
    <2>4. (Watching(b, y)' <=> Watching(b, y)) /\ WithMonitor(b, y)' = WithMonitor(b, y)
      BY <2>1 DEF Watching, WithMonitor, watchVars
    <2> QED
      BY <2>1, <2>3, <2>4, DueStays DEF watchVars
  <1> QED
    BY <1>4, <1>5

\* There is room for what an add tells.
LEMMA AddTellsDue ==
  ASSUME TypeInv, LockInv, [Next]_vars, AddTells, UNCHANGED <<life, closed>>, TypeInv',
         NEW b \in Actors, NEW y \in Actors, DueInv(b, y)
  PROVE  DueInv(b, y)'
  <1>1. PICK add \in lock : Tell(add[1], Terminated(add[2]))
    BY DEF AddTells
  <1>2. PICK a \in Actors : \E x \in Actors : lock = {<<a, x>>}
    BY <1>1 DEF LockInv
  <1>3. PICK x \in Actors : lock = {<<a, x>>}
    BY <1>2
  <1>4. add = <<a, x>>
    BY <1>1, <1>3
  <1>5. Tell(a, Terminated(x))
    BY <1>1, <1>4
  <1>6. lock' = {} /\ UNCHANGED <<watches, state, asked, calls, told>>
    BY DEF AddTells
  <1>7. Mails(b, y)' = IF b = a /\ a \notin closed /\ Terminated(x) = Terminated(y)
                       THEN Mails(b, y) + 1 ELSE Mails(b, y)
    BY <1>5, TellCount, TerminatedType
  <1>8. Adds(b, y)' = 0 /\ Adds(b, y) = (IF b = a /\ y = x THEN 1 ELSE 0)
    BY <1>3, <1>6 DEF Adds
  <1>9. WithMonitor(b, y)' = WithMonitor(b, y) /\ Watches(b, y)' = Watches(b, y)
    BY <1>6 DEF WithMonitor, Watches, Watching
  <1>10. Mons(b, y)' = Mons(b, y)
    BY <1>9 DEF Mons
  <1>11. /\ Mails(b, y) \in Nat /\ Mons(b, y) \in Nat /\ Watches(b, y) \in {0, 1}
    BY ComingTypes DEF DueInv
  <1>12. Awaits(b, y)' => Awaits(b, y)
    BY <1>6 DEF Awaits
  <1>13. CASE b = a /\ y = x /\ a \in closed
    <2>1. Coming(b, y)' <= Coming(b, y) /\ ~Awaits(b, y)'
      BY <1>7, <1>8, <1>9, <1>10, <1>11, <1>13 DEF Coming, Awaits
    <2> QED
      BY <1>6, <1>9, <2>1, DueKept DEF DueInv
  <1>14. CASE ~(b = a /\ y = x /\ a \in closed)
    <2>1. Coming(b, y)' = Coming(b, y)
      BY <1>7, <1>8, <1>9, <1>10, <1>11, <1>14, Notices DEF Coming
    <2> QED
      BY <1>6, <1>9, <1>12, <2>1, DueKept DEF DueInv
  <1> QED
    BY <1>13, <1>14

\* A watch leaves the table, and its monitor has its notice.
LEMMA WakesDue ==
  ASSUME TypeInv, TableInv, [Next]_vars, NEW s \in States, NEW x \in Actors, WakesOf(s, x),
         UNCHANGED <<inbox, lock, asked, calls, told>>, TypeInv',
         NEW b \in Actors, NEW y \in Actors, DueInv(b, y)
  PROVE  DueInv(b, y)'
  <1>1. /\ Watching(b, y)' <=> Watching(b, y) /\ y # x
        /\ s \notin WithMonitor(b, y)
        /\ WithMonitor(b, y)' = IF y = x /\ Watching(b, x) THEN WithMonitor(b, y) \cup {s}
                                                           ELSE WithMonitor(b, y)
    BY WakesEffect
  <1>2. Mails(b, y)' = Mails(b, y) /\ Adds(b, y)' = Adds(b, y)
    BY DEF Mails, InMailbox, Adds
  <1>3. CASE ~(y = x /\ Watching(b, x))
    BY <1>1, <1>2, <1>3, DueStays
  <1>4. CASE y = x /\ Watching(b, x)
    <2>1. IsFiniteSet(WithMonitor(b, y) \cup {s})
          /\ Cardinality(WithMonitor(b, y) \cup {s}) = Cardinality(WithMonitor(b, y)) + 1
      BY <1>1, FS_AddElement DEF DueInv
    <2>2. Mons(b, y)' = Mons(b, y) + 1 /\ Watches(b, y) = 1 /\ Watches(b, y)' = 0
      BY <1>1, <1>4, <2>1 DEF Mons, Watches
    <2>3. Mails(b, y) \in Nat /\ Mons(b, y) \in Nat /\ Adds(b, y) \in {0, 1}
      BY ComingTypes DEF DueInv
    <2>4. Coming(b, y)' = Coming(b, y)
      BY <1>2, <2>2, <2>3 DEF Coming
    <2>5. Awaits(b, y)' => Awaits(b, y)
      BY AwaitsLess
    <2> QED
      BY <1>1, <1>4, <2>1, <2>4, <2>5, DueKept
  <1> QED
    BY <1>3, <1>4

\* The notice goes from the monitor to the mailbox.
LEMMA TellsDue ==
  ASSUME TypeInv, TableInv, [Next]_vars, NEW s \in States, NEW a \in Actors, NEW x \in Actors, TellsOf(s, a, x),
         Tell(a, Terminated(x)), UNCHANGED <<lock, asked, calls, told>>, TypeInv',
         NEW b \in Actors, NEW y \in Actors, DueInv(b, y)
  PROVE  DueInv(b, y)'
  <1>1. /\ Watching(b, y)' <=> Watching(b, y)
        /\ s \in WithMonitor(a, x) /\ WithMonitor(a, x)' = WithMonitor(a, x) \ {s}
        /\ ~(b = a /\ y = x) => WithMonitor(b, y)' = WithMonitor(b, y)
    BY TellsEffect
  <1>2. Mails(b, y)' = IF b = a /\ a \notin closed /\ Terminated(x) = Terminated(y)
                       THEN Mails(b, y) + 1 ELSE Mails(b, y)
    BY TellCount, TerminatedType
  <1>3. CASE ~(b = a /\ y = x)
    BY <1>1, <1>2, <1>3, Notices, DueStays
  <1>4. CASE b = a /\ y = x
    <2>1. IsFiniteSet(WithMonitor(b, y) \ {s})
          /\ Cardinality(WithMonitor(b, y) \ {s}) = Cardinality(WithMonitor(b, y)) - 1
      BY <1>1, <1>4, FS_RemoveElement DEF DueInv
    <2>2. Mons(b, y)' = Mons(b, y) - 1 /\ Watches(b, y)' = Watches(b, y) /\ Adds(b, y)' = Adds(b, y)
      BY <1>1, <1>4, <2>1 DEF Mons, Watches, Adds
    <2>3. Mails(b, y) \in Nat /\ Mons(b, y) \in Nat /\ Adds(b, y) \in {0, 1} /\ Watches(b, y) \in {0, 1}
      BY ComingTypes DEF DueInv
    <2>4. Awaits(b, y)' => Awaits(b, y) /\ a \notin closed
      BY <1>4, AwaitsLess DEF Awaits
    <2>5. CASE a \notin closed
      <3>1. Coming(b, y)' = Coming(b, y)
        BY <1>2, <1>4, <2>2, <2>3, <2>5 DEF Coming
      <3> QED
        BY <1>1, <1>4, <2>1, <2>4, <3>1, DueKept
    <2>6. CASE a \in closed
      <3>1. Coming(b, y)' <= Coming(b, y) /\ ~Awaits(b, y)'
        BY <1>2, <1>4, <2>2, <2>3, <2>4, <2>6 DEF Coming
      <3> QED
        BY <1>1, <1>4, <2>1, <2>4, <3>1, DueKept
    <2> QED
      BY <2>5, <2>6
  <1> QED
    BY <1>3, <1>4

LEMMA MonitorDue ==
  ASSUME TypeInv, TableInv, [Next]_vars, NEW s \in States, Monitor(s), TypeInv',
         NEW b \in Actors, NEW y \in Actors, DueInv(b, y)
  PROVE  DueInv(b, y)'
  <1>1. UNCHANGED <<lock, asked, calls, told>>
    BY MonitorKinds
  <1>2. ASSUME OverOf(s), inbox' = inbox PROVE DueInv(b, y)'
    <2>1. (\A c, z \in Actors : Watching(c, z)' <=> Watching(c, z))
          /\ \A c, z \in Actors : WithMonitor(c, z)' = WithMonitor(c, z)
      BY <1>2, OverEffect DEF OverOf
    <2>2. Mails(b, y)' = Mails(b, y)
      BY <1>2 DEF Mails, InMailbox
    <2> QED
      BY <1>1, <2>1, <2>2, DueStays
  <1>3. ASSUME NEW x \in Actors, WakesOf(s, x), inbox' = inbox PROVE DueInv(b, y)'
    BY <1>1, <1>3, WakesDue
  <1>4. ASSUME NEW a \in Actors, CountsOf(s, a), inbox' = inbox PROVE DueInv(b, y)'
    <2>1. (\A c, z \in Actors : Watching(c, z)' <=> Watching(c, z))
          /\ \A c, z \in Actors : WithMonitor(c, z)' = WithMonitor(c, z)
      BY <1>4, CountsEffect
    <2>2. Mails(b, y)' = Mails(b, y)
      BY <1>4 DEF Mails, InMailbox
    <2> QED
      BY <1>1, <2>1, <2>2, DueStays
  <1>5. ASSUME NEW a \in Actors, NEW x \in Actors, TellsOf(s, a, x), Tell(a, Terminated(x)) PROVE DueInv(b, y)'
    BY <1>1, <1>5, TellsDue
  <1> QED
    BY <1>2, <1>3, <1>4, <1>5, MonitorKinds

LEMMA LockInvStep ==
  ASSUME LockInv, [Next]_vars
  PROVE  LockInv'
  BY LockMoves DEF LockInv

LEMMA DueStep ==
  ASSUME TypeInv, TableInv, LockInv, [Next]_vars, TypeInv', NEW b \in Actors, NEW y \in Actors, DueInv(b, y)
  PROVE  DueInv(b, y)'
  <1>1. ASSUME UNCHANGED <<watches, state, lock, asked, calls, told>>, Mails(b, y)' = Mails(b, y)
        PROVE  DueInv(b, y)'
    <2>1. (Watching(b, y)' <=> Watching(b, y)) /\ WithMonitor(b, y)' = WithMonitor(b, y)
      BY <1>1 DEF Watching, WithMonitor
    <2> QED
      BY <1>1, <2>1, DueStays
  <1>2. CASE UNCHANGED <<inbox, watches, state, lock, asked, calls, told>>
    BY <1>1, <1>2 DEF Mails, InMailbox
  <1>3. ASSUME NEW a \in Actors, HandlesWatch(a) PROVE DueInv(b, y)'
    BY <1>3, WatchDue, UnwatchDue DEF HandlesWatch
  <1>4. ASSUME NEW a \in Actors, Pulls(a) PROVE DueInv(b, y)'
    BY <1>4, PullDue
  <1>5. ASSUME NEW a \in Actors, Cleans(a) PROVE DueInv(b, y)'
    BY <1>5, CleanupDue
  <1>6. ASSUME NEW a \in Actors, Leaves(a) PROVE DueInv(b, y)'
    <2>1. CASE Leave(a)
      BY <1>6, <2>1, LeaveDue DEF Leaves
    <2>2. CASE Finish(a)
      BY <1>2, <1>6, <2>2 DEF Leaves, Finish, watchVars
    <2> QED
      BY <1>6, <2>1, <2>2 DEF Leaves
  <1>7. CASE AddReturns
    BY <1>7, AddTellsDue DEF AddReturns
  <1>8. ASSUME NEW s \in States, Monitor(s) PROVE DueInv(b, y)'
    BY <1>8, MonitorDue
  <1>9. ASSUME NEW t \in Timers, FireTell(t), UNCHANGED watchVars PROVE DueInv(b, y)'
    <2>1. PICK a \in Actors : a = owner[t]
      BY <1>9, FireType DEF TypeInv
    <2>2. Tell(a, [timer |-> t]) /\ [timer |-> t] \in Message
      BY <1>9, <2>1 DEF FireTell, Message
    <2>3. Terminated(y) # [timer |-> t]
      BY TerminatedType
    <2>4. Mails(b, y)' = Mails(b, y)
      BY <2>2, <2>3, TellCount
    <2> QED
      BY <1>1, <1>9, <2>4 DEF watchVars
  <1>10. \/ UNCHANGED <<inbox, watches, state, lock, asked, calls, told>>
         \/ \E a \in Actors : HandlesWatch(a) \/ Pulls(a) \/ Cleans(a) \/ Leaves(a)
         \/ AddReturns
         \/ \E s \in States : Monitor(s)
         \/ \E t \in Timers : FireTell(t) /\ UNCHANGED watchVars
    BY DEF Next, Server, Drained, Quits, Ends, Cancels, Counts, Count, Monitors, TimerRuns, Fires, HandlesTimer,
           StopInbox, vars, watchVars
  <1> QED
    BY <1>2, <1>3, <1>4, <1>5, <1>6, <1>7, <1>8, <1>9, <1>10

NoticeInv == TypeInv /\ TableInv /\ LockInv /\ \A b, y \in Actors : DueInv(b, y)

LEMMA DueInit ==
  ASSUME Init, NEW b \in Actors, NEW y \in Actors
  PROVE  DueInv(b, y)
  <1>1. InMailbox(b, y) = {}
    BY DEF Init, LifeInit, InMailbox
  <1>2. WithMonitor(b, y) = {}
    BY LifetimeAssumption DEF Init, WatchInit, Unmade, WithMonitor
  <1>3. Adds(b, y) = 0 /\ Watches(b, y) = 0
    BY DEF Init, WatchInit, Adds, Watches, Watching
  <1>4. Coming(b, y) = 0 /\ IsFiniteSet(WithMonitor(b, y))
    BY <1>1, <1>2, <1>3, FS_EmptySet DEF Coming, Mails, Mons
  <1>5. told[b][y] = 0 /\ calls[b][y] = 0 /\ ~Awaits(b, y)
    BY DEF Init, WatchInit, Awaits
  <1> QED
    BY <1>4, <1>5 DEF DueInv

LEMMA NoticeInvImplies ==
  ASSUME NoticeInv
  PROVE  NoticesDue
  <1> SUFFICES ASSUME NEW a \in Actors, NEW x \in Actors
               PROVE  /\ life[a] = "up" /\ a \notin closed /\ x \in asked[a]
                           => \/ Watching(a, x) \/ InMailbox(a, x) # {}
                              \/ WithMonitor(a, x) # {} \/ WithAdd(a, x) # {}
                      /\ told[a][x] + Cardinality(InMailbox(a, x)) + Cardinality(WithMonitor(a, x))
                           + Cardinality(WithAdd(a, x)) + (IF Watching(a, x) THEN 1 ELSE 0) <= calls[a][x]
    BY DEF NoticesDue
  <1>1. DueInv(a, x) /\ TypeInv
    BY DEF NoticeInv
  <1>2. /\ Mails(a, x) \in Nat /\ Mons(a, x) \in Nat /\ Adds(a, x) \in {0, 1} /\ Watches(a, x) \in {0, 1}
        /\ told[a][x] \in Nat /\ calls[a][x] \in Nat
    BY <1>1, ComingTypes DEF DueInv
  <1>3. WithAdd(a, x) = IF <<a, x>> \in lock THEN {<<a, x>>} ELSE {}
    BY DEF WithAdd
  <1>4. Cardinality(WithAdd(a, x)) = Adds(a, x) /\ (Adds(a, x) # 0 => WithAdd(a, x) # {})
    BY <1>3, FS_EmptySet, FS_Singleton DEF Adds
  <1>5. Mails(a, x) # 0 => InMailbox(a, x) # {}
    BY FS_EmptySet DEF Mails
  <1>6. Mons(a, x) # 0 => WithMonitor(a, x) # {}
    BY FS_EmptySet DEF Mons
  <1>7. Watches(a, x) # 0 => Watching(a, x)
    BY DEF Watches
  <1>8. Awaits(a, x) => Mails(a, x) # 0 \/ Mons(a, x) # 0 \/ Adds(a, x) # 0 \/ Watches(a, x) # 0
    BY <1>1, <1>2 DEF DueInv, Coming
  <1>9. told[a][x] + Mails(a, x) + Mons(a, x) + Adds(a, x) + Watches(a, x) <= calls[a][x]
    BY <1>1, <1>2 DEF DueInv, Coming
  <1> QED
    BY <1>4, <1>5, <1>6, <1>7, <1>8, <1>9 DEF Awaits, Mails, Mons, Watches

(* Nobody waits in vain and nobody is told too often, for any actors, watched
   states and sizes of mailbox: what a running actor has asked for is in the
   table, with a monitor, with an add that waits for room or in its mailbox,
   and these places together hold at most one notice for each of its calls. *)
THEOREM NoticesAreDue == Spec => []NoticesDue
  <1>1. Init => NoticeInv
    BY TypeInit, TableInit, DueInit DEF NoticeInv
  <1>2. NoticeInv /\ [Next]_vars => NoticeInv'
    BY TypeStep, TableInvStep, LockInvStep, DueStep DEF NoticeInv
  <1>3. NoticeInv => NoticesDue
    BY NoticeInvImplies
  <1> QED
    BY <1>1, <1>2, <1>3, PTL DEF Spec
=============================================================================
