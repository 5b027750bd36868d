---------------------------- MODULE EngineProofs ----------------------------
(***************************************************************************)
(* Theorems about module Engine, for any sets of names, instances and      *)
(* callers, any strategies and limits.                                     *)
(*                                                                         *)
(* RegistryExact relates an instance to its name, so it needs to know that *)
(* what has been born has a name (NamesInv).  HooksPaired needs nothing    *)
(* but itself.                                                             *)
(***************************************************************************)
EXTENDS Engine, TLAPS

USE EngineAssumption DEF Born, Idle

NamesInv == \A i \in Instances : Born(i) => name[i] \in Names

IInv == TypeOK /\ NamesInv /\ RegistryExact /\ HooksPaired

-----------------------------------------------------------------------------
(* The engine starts with an empty registry and no instance. *)
LEMMA InitInv == Init => IInv
  <1> SUFFICES ASSUME Init PROVE IInv
    OBVIOUS
  <1>1. TypeOK
    <2>1. Idle \in CallType
      BY DEF CallType
    <2>2. call \in [Callers -> CallType]
      BY <2>1 DEF Init
    <2>3. actors \in [Names -> Instances \cup {None}] /\ name \in [Instances -> Names \cup {None}]
      BY DEF Init
    <2>4. loop \in [Instances -> Loops]
      BY DEF Init, Loops
    <2>5. stopped \subseteq Instances /\ pill \subseteq Instances /\ strategy \in Strategies
             /\ shutdown \in BOOLEAN
      BY DEF Init
    <2>6. /\ backlog \in [Instances -> Nat] /\ restarts \in [Instances -> Nat]
          /\ objects \in [Instances -> Int]
      BY DEF Init
    <2> QED
      BY <2>2, <2>3, <2>4, <2>5, <2>6 DEF TypeOK
  <1>2. NamesInv /\ HooksPaired
    BY DEF Init, NamesInv, HooksPaired
  <1>3. RegistryExact
    BY DEF Init, RegistryExact
  <1> QED
    BY <1>1, <1>2, <1>3 DEF IInv

(* What a caller is in the middle of has the type its op says. *)
LEMMA CallTypes ==
  ASSUME TypeOK, NEW c \in Callers
  PROVE  /\ call[c].op \in {"look", "spawn", "again"} =>
              /\ call[c] = [op |-> call[c].op, name |-> call[c].name]
              /\ call[c].name \in Names
         /\ call[c].op = "stop" =>
              /\ call[c] = [op |-> "stop", inst |-> call[c].inst]
              /\ call[c].inst \in Instances
         /\ call[c].op = "shutdown" =>
              /\ call[c] = [op |-> "shutdown", left |-> call[c].left, wait |-> call[c].wait]
              /\ call[c].left \in SUBSET Instances /\ call[c].wait \in SUBSET Instances
  <1>1. call[c] \in CallType
    BY DEF TypeOK
  <1> QED
    BY <1>1 DEF CallType
(* A step of Next is one of these; the proofs below take them in turn. *)
LEMMA Steps ==
  ASSUME [Next]_vars
  PROVE  \/ \E c \in Callers, n \in Names : GetOrCreate(c, n) \/ Stop(c, n)
         \/ \E c \in Callers : \/ Look(c) \/ Spawn(c) \/ Again(c) \/ StopMailbox(c)
                               \/ Shutdown(c) \/ ShutdownStop(c)
                               \/ ShutdownReturn(c) \/ ShutdownTimeout(c)
         \/ \E i \in Instances : Tell(i) \/ TellPoisonPill(i) \/ processLoop(i)
         \/ UNCHANGED vars
  BY DEF Next, Begin, Continue

-----------------------------------------------------------------------------
(* Type correctness. *)

LEMMA CallerTypes ==
  ASSUME TypeOK, NEW c \in Callers,
         \/ \E n \in Names : GetOrCreate(c, n) \/ Stop(c, n)
         \/ Look(c) \/ Spawn(c) \/ Again(c) \/ StopMailbox(c)
         \/ Shutdown(c) \/ ShutdownStop(c) \/ ShutdownReturn(c) \/ ShutdownTimeout(c)
  PROVE  TypeOK'
  <1> USE DEF Goes
  <1>0. Idle \in CallType
    BY DEF CallType
  <1>1. ASSUME NEW n \in Names, GetOrCreate(c, n) PROVE TypeOK'
    <2>1. [op |-> "look", name |-> n] \in CallType
      BY DEF CallType
    <2> QED
      BY <1>1, <2>1 DEF GetOrCreate, TypeOK, loopVars
  <1>2. ASSUME NEW n \in Names, Stop(c, n) PROVE TypeOK'
    <2>1. actors[n] \in Instances
      BY <1>2 DEF Stop, TypeOK
    <2>2. [op |-> "stop", inst |-> actors[n]] \in CallType
      BY <2>1 DEF CallType
    <2> QED
      BY <1>2, <2>2 DEF Stop, TypeOK, loopVars
  <1>3. ASSUME Look(c) PROVE TypeOK'
    <2>1. call[c].name \in Names
      BY <1>3, CallTypes DEF Look
    <2>2. [op |-> "spawn", name |-> call[c].name] \in CallType
      BY <2>1 DEF CallType
    <2> QED
      BY <1>0, <1>3, <2>2 DEF Look, TypeOK, loopVars
  <1>4. ASSUME Spawn(c) PROVE TypeOK'
    <2> DEFINE n == call[c].name
    <2>1. n \in Names
      BY <1>4, CallTypes DEF Spawn
    <2>2. [op |-> "again", name |-> n] \in CallType
      BY <2>1 DEF CallType
    <2>3. "start" \in Loops
      BY DEF Loops
    <2>4. call' \in [Callers -> CallType]
      BY <1>0, <1>4, <2>2 DEF Spawn, TypeOK
    <2>5. loop' \in [Instances -> Loops]
      BY <1>4, <2>3 DEF Spawn, Goto, TypeOK
    <2>6. /\ actors' \in [Names -> Instances \cup {None}]
          /\ name' \in [Instances -> Names \cup {None}]
      BY <1>4, <2>1 DEF Spawn, TypeOK
    <2> QED
      BY <1>4, <2>4, <2>5, <2>6 DEF Spawn, TypeOK
  <1>5. ASSUME Again(c) \/ ShutdownReturn(c) \/ ShutdownTimeout(c) PROVE TypeOK'
    BY <1>0, <1>5 DEF Again, ShutdownReturn, ShutdownTimeout, TypeOK, loopVars
  <1>6. ASSUME StopMailbox(c) PROVE TypeOK'
    BY <1>0, <1>6, CallTypes DEF StopMailbox, TypeOK, loopVars
  <1>7. ASSUME Shutdown(c) PROVE TypeOK'
    <2> DEFINE instances == {actors[n] : n \in Names} \ {None}
    <2>1. instances \subseteq Instances
      BY DEF TypeOK
    <2>2. [op |-> "shutdown", left |-> instances, wait |-> instances] \in CallType
      BY <2>1 DEF CallType
    <2> QED
      BY <1>7, <2>2 DEF Shutdown, TypeOK, loopVars
  <1>8. ASSUME ShutdownStop(c) PROVE TypeOK'
    <2>1. PICK i \in call[c].left : /\ stopped' = stopped \cup {i}
                                  /\ Goes(c, [call[c] EXCEPT !.left = @ \ {i}])
      BY <1>8 DEF ShutdownStop
    <2>2. /\ call[c] = [op |-> "shutdown", left |-> call[c].left, wait |-> call[c].wait]
          /\ call[c].left \in SUBSET Instances /\ call[c].wait \in SUBSET Instances
      BY <1>8, CallTypes DEF ShutdownStop
    <2>3. [op |-> "shutdown", left |-> call[c].left \ {i}, wait |-> call[c].wait] \in CallType
      BY <2>2 DEF CallType
    <2>4. [call[c] EXCEPT !.left = @ \ {i}] \in CallType
      BY <2>2, <2>3
    <2> QED
      BY <1>8, <2>1, <2>2, <2>4 DEF ShutdownStop, TypeOK, loopVars
  <1> QED
    BY <1>1, <1>2, <1>3, <1>4, <1>5, <1>6, <1>7, <1>8

LEMMA LoopTypes ==
  ASSUME TypeOK, NEW i \in Instances, Tell(i) \/ TellPoisonPill(i) \/ processLoop(i)
  PROVE  TypeOK'
  <1> USE DEF TypeOK, Loops, Goto, Pulls
  <1>1. CASE Tell(i) \/ TellPoisonPill(i)
    BY <1>1 DEF Tell, TellPoisonPill
  <1>2. CASE OnStart(i) \/ Restarted(i) \/ OnStop(i)
    BY <1>2 DEF OnStart, Restarted, OnStop
  <1>3. CASE Handle(i) \/ PanicStops(i)
    BY <1>3 DEF Handle, PanicStops
  <1>4. CASE PanicRestarts(i)
    <2>1. loop' \in [Instances -> Loops] /\ backlog' \in [Instances -> Nat]
      BY <1>4 DEF PanicRestarts
    <2>2. restarts' \in [Instances -> Nat] /\ objects' \in [Instances -> Int]
      BY <1>4 DEF PanicRestarts
    <2> QED
      BY <1>4, <2>1, <2>2 DEF PanicRestarts
  <1>5. CASE TakePill(i) \/ PullEnd(i)
    BY <1>5 DEF TakePill, PullEnd
  <1>6. CASE unregisterIfCurrent(i)
    BY <1>6 DEF unregisterIfCurrent
  <1>7. CASE CloseMailbox(i) \/ Done(i)
    BY <1>7 DEF CloseMailbox, Done
  <1> QED
    BY <1>1, <1>2, <1>3, <1>4, <1>5, <1>6, <1>7 DEF processLoop

LEMMA TypeStep == TypeOK /\ [Next]_vars => TypeOK'
  <1> SUFFICES ASSUME TypeOK, [Next]_vars PROVE TypeOK'
    OBVIOUS
  <1>1. CASE UNCHANGED vars
    BY <1>1 DEF vars, loopVars, TypeOK
  <1> QED
    BY <1>1, Steps, CallerTypes, LoopTypes
-----------------------------------------------------------------------------
(* Names and hooks: neither needs anything of the other but the types. *)

LEMMA NamesStep == TypeOK /\ NamesInv /\ [Next]_vars => NamesInv'
  <1> SUFFICES ASSUME TypeOK, NamesInv, [Next]_vars PROVE NamesInv'
    OBVIOUS
  <1> USE DEF NamesInv, Goto, Pulls
  <1>1. CASE UNCHANGED <<name, loop>>
    BY <1>1
  <1>2. ASSUME NEW c \in Callers, Spawn(c) PROVE NamesInv'
    <2>1. call[c].name \in Names
      BY <1>2, CallTypes DEF Spawn
    <2> QED
      BY <1>2, <2>1 DEF Spawn, TypeOK
  <1>3. ASSUME NEW i \in Instances, processLoop(i) PROVE NamesInv'
    <2>1. Born(i) /\ UNCHANGED name /\ \A j \in Instances \ {i} : loop'[j] = loop[j]
      BY <1>3 DEF processLoop, OnStart, Handle, PanicStops, PanicRestarts, Restarted, TakePill,
                  PullEnd, OnStop, unregisterIfCurrent, CloseMailbox, Done, TypeOK
    <2> QED
      BY <2>1
  <1> QED
    BY <1>1, <1>2, <1>3, Steps
       DEF GetOrCreate, Stop, Look, Again, StopMailbox, Shutdown, ShutdownStop, ShutdownReturn,
           ShutdownTimeout, Tell, TellPoisonPill, vars, loopVars

LEMMA HooksStep == TypeOK /\ HooksPaired /\ [Next]_vars => HooksPaired'
  <1> SUFFICES ASSUME TypeOK, HooksPaired, [Next]_vars PROVE HooksPaired'
    OBVIOUS
  <1> USE DEF HooksPaired, TypeOK, Goto, Pulls
  <1>1. CASE UNCHANGED <<loop, objects>>
    BY <1>1
  <1>2. ASSUME NEW c \in Callers, Spawn(c) PROVE HooksPaired'
    BY <1>2 DEF Spawn
  <1>3. ASSUME NEW i \in Instances, processLoop(i) PROVE HooksPaired'
    <2>1. CASE OnStart(i) \/ Restarted(i) \/ OnStop(i)
      BY <2>1 DEF OnStart, Restarted, OnStop
    <2>2. CASE PanicRestarts(i)
      BY <2>2 DEF PanicRestarts
    <2>3. CASE \/ Handle(i) \/ PanicStops(i) \/ TakePill(i) \/ PullEnd(i)
               \/ unregisterIfCurrent(i) \/ CloseMailbox(i) \/ Done(i)
      BY <2>3 DEF Handle, PanicStops, TakePill, PullEnd, unregisterIfCurrent, CloseMailbox, Done
    <2> QED
      BY <1>3, <2>1, <2>2, <2>3 DEF processLoop
  <1> QED
    BY <1>1, <1>2, <1>3, Steps
       DEF GetOrCreate, Stop, Look, Again, StopMailbox, Shutdown, ShutdownStop, ShutdownReturn,
           ShutdownTimeout, Tell, TellPoisonPill, vars, loopVars

-----------------------------------------------------------------------------
(* The registry is exact. *)

\* What a name leads to, and where an instance that runs is found.
Found(n) ==
  actors[n] # None =>
    name[actors[n]] = n /\ loop[actors[n]] \notin {"unborn", "close", "closed", "done"}

Running(i) == loop[i] \in {"start", "pull", "restart", "stop", "unregister"} /\ i \notin stopped

(* A caller that was not stopping anything and begins no matter what takes no
   instance out of the hands of those who are; nor does one that ends. *)
LEMMA StoppingKept ==
  ASSUME TypeOK, NEW c \in Callers, NEW next, Goes(c, next), NEW i \in Instances, Stopping(i),
         call[c].op \notin {"stop", "shutdown"}
  PROVE  Stopping(i)'
  BY DEF Goes, Stopping, TypeOK

LEMMA CallerRegistry ==
  ASSUME IInv, NEW c \in Callers,
         \/ \E n \in Names : GetOrCreate(c, n) \/ Stop(c, n)
         \/ Look(c) \/ Spawn(c) \/ Again(c) \/ StopMailbox(c)
         \/ Shutdown(c) \/ ShutdownStop(c) \/ ShutdownReturn(c) \/ ShutdownTimeout(c)
  PROVE  RegistryExact'
  <1> USE DEF IInv, RegistryExact
  <1>0. TypeOK
    OBVIOUS
  <1>1. ASSUME UNCHANGED <<actors, name, loop, stopped>>, NEW next, Goes(c, next),
               call[c].op \notin {"stop", "shutdown"}
        PROVE  RegistryExact'
    BY <1>0, <1>1, StoppingKept
  <1>2. ASSUME (\E n \in Names : GetOrCreate(c, n)) \/ Look(c) \/ Again(c) PROVE RegistryExact'
    <2>1. UNCHANGED <<actors, name, loop, stopped>>
      BY <1>2 DEF GetOrCreate, Look, Again, loopVars
    <2>2. call[c].op \in {"none", "look", "again"}
      <3>1. ASSUME NEW n \in Names, GetOrCreate(c, n) PROVE call[c].op = "none"
        BY <3>1 DEF GetOrCreate
      <3>2. CASE Look(c) \/ Again(c)
        BY <3>2 DEF Look, Again
      <3> QED
        BY <1>2, <3>1, <3>2
    <2>3. \E next : Goes(c, next)
      BY <1>2 DEF GetOrCreate, Look, Again
    <2> QED
      BY <1>1, <2>1, <2>2, <2>3
  <1>3. ASSUME NEW n \in Names, Stop(c, n) PROVE RegistryExact'
    <2>1. actors' = [actors EXCEPT ![n] = None] /\ UNCHANGED <<name, loop, stopped>>
      BY <1>3 DEF Stop, loopVars
    <2>2. \A i \in Instances : i = actors[n] => Stopping(i)'
      BY <1>3 DEF Stop, Goes, Stopping, TypeOK
    <2>3. \A i \in Instances : Stopping(i) => Stopping(i)'
      BY <1>0, <1>3, StoppingKept DEF Stop
    <2> QED
      BY <2>1, <2>2, <2>3 DEF TypeOK, NamesInv
  <1>4. ASSUME Spawn(c) PROVE RegistryExact'
    <2> DEFINE n == call[c].name
    <2>1. n \in Names
      BY <1>0, <1>4, CallTypes DEF Spawn
    <2>2. \A i \in Instances : Stopping(i) => Stopping(i)'
      BY <1>0, <1>4, StoppingKept DEF Spawn
    <2>3. CASE shutdown \/ actors[n] # None
      BY <1>4, <2>2, <2>3 DEF Spawn
    <2>4. CASE ~(shutdown \/ actors[n] # None)
      <3>1. PICK i \in Instances : /\ ~Born(i)
                                 /\ actors' = [actors EXCEPT ![n] = i]
                                 /\ name' = [name EXCEPT ![i] = n]
                                 /\ Goto(i, "start")
        BY <1>4, <2>4 DEF Spawn
      <3>2. stopped' = stopped
        BY <1>4 DEF Spawn
      <3>3. \A m \in Names : Found(m)'
        BY <2>1, <3>1 DEF Found, Goto, TypeOK
      <3>4. \A j \in Instances : Running(j)' => Stopping(j)' \/ actors'[name'[j]] = j
        <4> SUFFICES ASSUME NEW j \in Instances, Running(j)'
                     PROVE  Stopping(j)' \/ actors'[name'[j]] = j
          OBVIOUS
        <4>1. CASE j = i
          BY <2>1, <3>1, <4>1 DEF TypeOK
        <4>2. CASE j # i
          <5>1. Running(j) /\ name'[j] = name[j] /\ name[j] \in Names
            BY <3>1, <3>2, <4>2 DEF Running, Goto, TypeOK, NamesInv
          <5>2. Stopping(j) \/ (actors[name[j]] = j /\ name[j] # n)
            BY <2>4, <5>1 DEF Running
          <5> QED
            BY <2>2, <3>1, <5>1, <5>2 DEF TypeOK
        <4> QED
          BY <4>1, <4>2
      <3> QED
        BY <3>3, <3>4 DEF Found, Running
    <2> QED
      BY <2>3, <2>4
  <1>5. ASSUME StopMailbox(c) PROVE RegistryExact'
    <2>1. /\ stopped' = stopped \cup {call[c].inst} /\ call[c].op = "stop"
          /\ call' = [call EXCEPT ![c] = Idle] /\ UNCHANGED <<actors, name, loop>>
      BY <1>5 DEF StopMailbox, Goes, loopVars
    <2>2. \A i \in Instances : Stopping(i) => Stopping(i)' \/ i \in stopped'
      BY <2>1 DEF Stopping, TypeOK
    <2> QED
      BY <2>1, <2>2
  <1>6. ASSUME Shutdown(c) PROVE RegistryExact'
    <2> DEFINE instances == {actors[n] : n \in Names} \ {None}
    <2>1. /\ actors' = [n \in Names |-> None] /\ UNCHANGED <<name, loop, stopped>>
          /\ Goes(c, [op |-> "shutdown", left |-> instances, wait |-> instances])
          /\ call[c] = Idle
      BY <1>6 DEF Shutdown, loopVars
    <2>2. \A i \in instances : Stopping(i)'
      BY <2>1 DEF Goes, Stopping, TypeOK
    <2>3. \A i \in Instances : Stopping(i) => Stopping(i)'
      BY <1>0, <2>1, StoppingKept
    <2>4. \A i \in Instances : Running(i) /\ actors[name[i]] = i => i \in instances
      BY DEF Running, NamesInv
    <2> QED
      BY <2>1, <2>2, <2>3, <2>4 DEF Running
  <1>7. ASSUME ShutdownStop(c) PROVE RegistryExact'
    <2>1. PICK i \in call[c].left : /\ stopped' = stopped \cup {i}
                                  /\ Goes(c, [call[c] EXCEPT !.left = @ \ {i}])
      BY <1>7 DEF ShutdownStop
    <2>2. /\ call[c] = [op |-> "shutdown", left |-> call[c].left, wait |-> call[c].wait]
          /\ UNCHANGED <<actors, name, loop>>
      BY <1>0, <1>7, CallTypes DEF ShutdownStop, loopVars
    <2>3. [call[c] EXCEPT !.left = @ \ {i}]
            = [op |-> "shutdown", left |-> call[c].left \ {i}, wait |-> call[c].wait]
      BY <2>2
    <2>4. \A j \in Instances : Stopping(j) => Stopping(j)' \/ j \in stopped'
      BY <2>1, <2>2, <2>3 DEF Stopping, Goes, TypeOK
    <2> QED
      BY <2>1, <2>2, <2>4
  <1>8. ASSUME ShutdownReturn(c) \/ ShutdownTimeout(c) PROVE RegistryExact'
    <2>1. /\ call[c].op = "shutdown" /\ call[c].left = {}
          /\ call' = [call EXCEPT ![c] = Idle] /\ UNCHANGED <<actors, name, loop, stopped>>
      BY <1>8 DEF ShutdownReturn, ShutdownTimeout, Goes, loopVars
    <2>2. \A j \in Instances : Stopping(j) => Stopping(j)'
      BY <2>1 DEF Stopping, TypeOK
    <2> QED
      BY <2>1, <2>2
  <1> QED
    BY <1>2, <1>3, <1>4, <1>5, <1>6, <1>7, <1>8
LEMMA LoopRegistry ==
  ASSUME IInv, NEW i \in Instances, Tell(i) \/ TellPoisonPill(i) \/ processLoop(i)
  PROVE  RegistryExact'
  <1> USE DEF IInv, RegistryExact, Goto, Pulls
  <1>0. call' = call /\ name' = name /\ \A j \in Instances : Stopping(j)' = Stopping(j)
    <2>1. call' = call /\ name' = name
      BY DEF Tell, TellPoisonPill, processLoop, OnStart, Handle, PanicStops, PanicRestarts,
             Restarted, TakePill, PullEnd, OnStop, unregisterIfCurrent, CloseMailbox, Done
    <2> QED
      BY <2>1 DEF Stopping
  <1>1. CASE UNCHANGED <<actors, loop, stopped>>
    BY <1>0, <1>1
  <1>2. ASSUME UNCHANGED <<actors, stopped>>, NEW l, Goto(i, l),
               Running(i) \/ i \in stopped, loop[i] \notin {"unborn", "close", "closed", "done"},
               l \in {"pull", "restart", "stop", "unregister"}
        PROVE  RegistryExact'
    BY <1>0, <1>2 DEF Running, TypeOK
  <1>3. CASE \/ OnStart(i) \/ PanicStops(i) \/ PanicRestarts(i) \/ Restarted(i)
             \/ TakePill(i) \/ PullEnd(i) \/ OnStop(i)
    <2>1. /\ UNCHANGED <<actors, stopped>>
          /\ loop[i] \in {"start", "pull", "restart", "stop"}
          /\ \E l \in {"pull", "restart", "stop", "unregister"} : Goto(i, l)
      BY <1>3 DEF OnStart, PanicStops, PanicRestarts, Restarted, TakePill, PullEnd, OnStop
    <2> QED
      BY <1>2, <2>1 DEF Running
  <1>4. CASE Tell(i) \/ TellPoisonPill(i) \/ Handle(i)
    BY <1>1, <1>4 DEF Tell, TellPoisonPill, Handle
  <1>5. CASE unregisterIfCurrent(i)
    <2>1. /\ actors' = [n \in Names |-> IF n = name[i] /\ actors[n] = i THEN None ELSE actors[n]]
          /\ loop' = [loop EXCEPT ![i] = "close"] /\ stopped' = stopped
      BY <1>5 DEF unregisterIfCurrent
    <2>2. \A n \in Names : actors'[n] # i
      BY <2>1
    <2>3. \A n \in Names : Found(n)'
      BY <1>0, <2>1, <2>2 DEF Found, TypeOK
    <2>4. \A j \in Instances : Running(j)' => j # i /\ Running(j) /\ name[j] \in Names
      BY <2>1 DEF Running, NamesInv, TypeOK
    <2>5. \A j \in Instances : Running(j)' => Stopping(j)' \/ actors'[name'[j]] = j
      BY <1>0, <2>1, <2>4 DEF Running
    <2> QED
      BY <2>3, <2>5 DEF Found, Running
  <1>6. CASE CloseMailbox(i) \/ Done(i)
    <2>1. /\ UNCHANGED actors /\ loop[i] \in {"close", "closed"}
          /\ stopped' \in {stopped, stopped \cup {i}}
          /\ loop' \in {[loop EXCEPT ![i] = "closed"], [loop EXCEPT ![i] = "done"]}
      BY <1>6 DEF CloseMailbox, Done
    <2>2. \A n \in Names : Found(n)'
      BY <1>0, <2>1 DEF Found, TypeOK
    <2>3. \A j \in Instances : Running(j)' => Running(j)
      BY <2>1 DEF Running, TypeOK
    <2> QED
      BY <1>0, <2>1, <2>2, <2>3 DEF Found, Running
  <1> QED
    BY <1>3, <1>4, <1>5, <1>6 DEF processLoop

LEMMA StepInv == IInv /\ [Next]_vars => IInv'
  <1> SUFFICES ASSUME IInv, [Next]_vars PROVE IInv'
    OBVIOUS
  <1>1. TypeOK' /\ NamesInv' /\ HooksPaired'
    BY TypeStep, NamesStep, HooksStep DEF IInv
  <1>2. RegistryExact'
    <2>1. CASE UNCHANGED vars
      BY <2>1 DEF vars, loopVars, IInv, RegistryExact, Stopping
    <2> QED
      BY <2>1, Steps, CallerRegistry, LoopRegistry
  <1> QED
    BY <1>1, <1>2 DEF IInv

-----------------------------------------------------------------------------
LEMMA Invariance == Spec => []IInv
  BY InitInv, StepInv, PTL DEF Spec

(* The engine's state keeps its types: in particular no Stop holds an
   instance that is not there, and no name leads to anything but one. *)
THEOREM TypeCorrectness == Spec => []TypeOK
  BY Invariance, PTL DEF IInv

(* What a name leads to was spawned under it and has not given it up, and an
   instance that runs and that nobody is stopping is found under its name,
   with any number of goroutines in Spawn, GetOrCreate, Stop and Shutdown. *)
THEOREM RegistryIsExact == Spec => []RegistryExact
  BY Invariance, PTL DEF IInv

(* No object of an actor is started twice, left without OnStop, or stopped
   twice, whatever the strategy and its limits. *)
THEOREM HooksArePaired == Spec => []HooksPaired
  BY Invariance, PTL DEF IInv

(* The registry implements the directory: a name is taken only when it is
   free, by an instance that never had one, and never after Shutdown. *)
THEOREM EngineImplementsDirectory == Spec => ImplementsDirectory
  <1> USE DEF Abs!dirVars
  <1>1. Init => Abs!Init
    BY DEF Init, Abs!Init
  <1>2. IInv /\ [Next]_vars => [Abs!Next]_(Abs!dirVars)
    <2> SUFFICES ASSUME IInv, [Next]_vars PROVE [Abs!Next]_(Abs!dirVars)
      OBVIOUS
    <2> DEFINE used == {i \in Instances : Born(i)}
    <2>1. CASE UNCHANGED <<actors, loop, shutdown>>
      BY <2>1
    <2>2. ASSUME NEW c \in Callers, NEW n \in Names, Stop(c, n) PROVE Abs!Free(n)
      BY <2>2 DEF Stop, loopVars, Abs!Free
    <2>3. ASSUME NEW c \in Callers, Shutdown(c) PROVE Abs!Close
      BY <2>3 DEF Shutdown, loopVars, Abs!Close
    <2>4. ASSUME NEW c \in Callers, Spawn(c) PROVE [Abs!Next]_(Abs!dirVars)
      <3> DEFINE n == call[c].name
      <3>1. CASE shutdown \/ actors[n] # None
        BY <2>4, <3>1 DEF Spawn
      <3>2. CASE ~(shutdown \/ actors[n] # None)
        <4>1. PICK i \in Instances : /\ ~Born(i)
                                   /\ actors' = [actors EXCEPT ![n] = i]
                                   /\ Goto(i, "start")
          BY <2>4, <3>2 DEF Spawn
        <4>2. used' = used \cup {i}
          BY <4>1 DEF Goto, IInv, TypeOK
        <4>3. n \in Names
          BY <2>4, CallTypes DEF Spawn, IInv
        <4>4. Abs!Bind(n, i)
          BY <2>4, <3>2, <4>1, <4>2 DEF Spawn, Abs!Bind
        <4> QED
          BY <4>3, <4>4 DEF Abs!Next
      <3> QED
        BY <3>1, <3>2
    <2>5. ASSUME NEW i \in Instances, processLoop(i) PROVE [Abs!Next]_(Abs!dirVars)
      <3>1. used' = used /\ shutdown' = shutdown
        BY <2>5 DEF processLoop, OnStart, Handle, PanicStops, PanicRestarts, Restarted, TakePill,
                    PullEnd, OnStop, unregisterIfCurrent, CloseMailbox, Done, Goto, Pulls,
                    IInv, TypeOK
      <3>2. CASE actors' = actors
        BY <3>1, <3>2
      <3>3. CASE unregisterIfCurrent(i)
        <4>1. name[i] \in Names
          BY <3>3 DEF unregisterIfCurrent, IInv, NamesInv
        <4>2. actors' = IF actors[name[i]] = i THEN [actors EXCEPT ![name[i]] = None] ELSE actors
          BY <3>3, <4>1 DEF unregisterIfCurrent, IInv, TypeOK
        <4> QED
          BY <3>1, <4>1, <4>2 DEF Abs!Next, Abs!Free
      <3> QED
        BY <2>5, <3>2, <3>3
           DEF processLoop, OnStart, Handle, PanicStops, PanicRestarts, Restarted, TakePill,
               PullEnd, OnStop, CloseMailbox, Done
    <2> QED
      BY <2>1, <2>2, <2>3, <2>4, <2>5, Steps
         DEF GetOrCreate, Look, Again, StopMailbox, ShutdownStop, ShutdownReturn, ShutdownTimeout,
             Tell, TellPoisonPill, vars, loopVars, Abs!Next
  <1> QED
    BY <1>1, <1>2, Invariance, PTL DEF Spec, ImplementsDirectory, Abs!Spec
=============================================================================
