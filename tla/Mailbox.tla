------------------------------ MODULE Mailbox ------------------------------
(***************************************************************************)
(* The mailbox of one actor, actor.ChanMailbox, at the grain of its mutex: *)
(* goroutines that Tell the actor, the actor's processLoop that pulls, and *)
(* Stop.  One action is what one goroutine does between taking the mutex   *)
(* and releasing it, either by returning or inside sync.Cond.Wait.         *)
(*                                                                         *)
(* A goroutine in Wait is in a wait set; Signal moves one of them, any     *)
(* one, to the runnable ones, Broadcast all.  A runnable one competes for  *)
(* the mutex with everybody else and runs its loop's test again.           *)
(***************************************************************************)
EXTENDS Integers, Sequences, FiniteSets

CONSTANTS Senders,   \* goroutines that Tell this actor
          Size,      \* the size NewChanMailboxWithPolicy is given
          Policies,  \* actions the policy's OnFull may answer with
          MaxSends,  \* bound: how many messages one sender sends
          Pills      \* the messages that are PoisonPills

\* A message is the n-th one of its sender.
Messages == Senders \X (1..MaxSends)

ASSUME MailboxAssumption ==
  /\ IsFiniteSet(Senders)
  /\ Size \in Int
  /\ Policies \subseteq {"Block", "DropOldest", "DropNewest", "Reject"}
  /\ MaxSends \in Nat
  /\ Pills \subseteq Messages

VARIABLES
  queue,     \* m.queue
  stopped,   \* m.stopped
  waiting,   \* senders inside notFull.Wait
  woken,     \* senders that notFull woke and that have not run yet
  loop,      \* where processLoop is
  sent,      \* how many messages each sender has begun to send
  received,  \* history: the messages Pull returned, oldest first
  dead       \* history: the messages given to emitDeadLetter

vars == <<queue, stopped, waiting, woken, loop, sent, received, dead>>

-----------------------------------------------------------------------------
\* size <= 0 becomes 1.
Capacity == IF Size <= 0 THEN 1 ELSE Size

LoopStates == {"running", "waiting", "woken", "stopping", "done"}

Init ==
  /\ queue = <<>>
  /\ stopped = FALSE
  /\ waiting = {}
  /\ woken = {}
  /\ loop = "running"
  /\ sent = [s \in Senders |-> 0]
  /\ received = <<>>
  /\ dead = {}

-----------------------------------------------------------------------------
(* The senders: ActorRef.Tell -> newDeliver -> Push. *)

\* notEmpty.Signal(): only the processLoop ever waits there.
SignalNotEmpty == loop' = IF loop = "waiting" THEN "woken" ELSE loop

\* One pass of Push's loop for sender s with message m; the sender is
\* neither in the wait set nor woken afterwards, unless the pass waits.
Returns(s) == woken' = woken \ {s} /\ UNCHANGED waiting

PushStopped(s, m) ==
  /\ stopped
  /\ dead' = dead \cup {m}
  /\ Returns(s)
  /\ UNCHANGED <<queue, stopped, loop, received>>

\* A careless Push: the woken sender trusts the signal and does not test
\* for room again (if in the place of for).
PushRoomNoRetest(s, m) ==
  /\ ~stopped
  /\ s \in woken \/ Len(queue) < Capacity
  /\ queue' = Append(queue, m)
  /\ SignalNotEmpty
  /\ Returns(s)
  /\ UNCHANGED <<stopped, received, dead>>

PushRoom(s, m) ==
  /\ ~stopped
  /\ Len(queue) < Capacity
  /\ queue' = Append(queue, m)
  /\ SignalNotEmpty
  /\ Returns(s)
  /\ UNCHANGED <<stopped, received, dead>>

PushBlock(s) ==
  /\ "Block" \in Policies
  /\ waiting' = waiting \cup {s}
  /\ woken' = woken \ {s}
  /\ UNCHANGED <<queue, stopped, loop, received, dead>>

PushRefuse(s, m) ==
  /\ Policies \cap {"DropNewest", "Reject"} # {}
  /\ dead' = dead \cup {m}
  /\ Returns(s)
  /\ UNCHANGED <<queue, stopped, loop, received>>

PushEvictSilently(s, m) ==
  /\ "DropOldest" \in Policies
  /\ queue' = Append(Tail(queue), m)
  /\ SignalNotEmpty
  /\ Returns(s)
  /\ UNCHANGED <<stopped, received, dead>>

PushEvict(s, m) ==
  /\ "DropOldest" \in Policies
  /\ dead' = dead \cup {Head(queue)}
  /\ queue' = Append(Tail(queue), m)
  /\ SignalNotEmpty
  /\ Returns(s)
  /\ UNCHANGED <<stopped, received>>

PushFull(s, m) ==
  /\ ~stopped
  /\ Len(queue) >= Capacity
  /\ PushBlock(s) \/ PushRefuse(s, m) \/ PushEvict(s, m)

PushPass(s, m) == PushStopped(s, m) \/ PushRoom(s, m) \/ PushFull(s, m)

\* A sender calls Tell with its next message.
Tell(s) ==
  /\ s \notin waiting \cup woken
  /\ sent[s] < MaxSends
  /\ sent' = [sent EXCEPT ![s] = @ + 1]
  /\ PushPass(s, <<s, sent[s] + 1>>)

\* A sender returns from notFull.Wait and goes round Push's loop again.
Retry(s) ==
  /\ s \in woken
  /\ UNCHANGED sent
  /\ PushPass(s, <<s, sent[s]>>)

-----------------------------------------------------------------------------
(* The actor's goroutine: processLoop -> Pull. *)

CanPull == loop \in {"running", "woken"}

PullWait ==
  /\ CanPull
  /\ queue = <<>>
  /\ ~stopped
  /\ loop' = "waiting"
  /\ UNCHANGED <<queue, stopped, waiting, woken, sent, received, dead>>

\* notFull.Signal().
SignalNotFull ==
  IF waiting = {}
  THEN UNCHANGED <<waiting, woken>>
  ELSE \E s \in waiting : waiting' = waiting \ {s} /\ woken' = woken \cup {s}

PullMessageUnsignalled ==
  /\ CanPull
  /\ queue # <<>>
  /\ received' = Append(received, Head(queue))
  /\ queue' = Tail(queue)
  /\ loop' = IF Head(queue) \in Pills THEN "stopping" ELSE "running"
  /\ UNCHANGED <<stopped, waiting, woken, sent, dead>>

\* A careless Pull that takes the youngest message.
PullMessageYoungest ==
  /\ CanPull
  /\ queue # <<>>
  /\ received' = Append(received, queue[Len(queue)])
  /\ queue' = SubSeq(queue, 1, Len(queue) - 1)
  /\ loop' = IF queue[Len(queue)] \in Pills THEN "stopping" ELSE "running"
  /\ SignalNotFull
  /\ UNCHANGED <<stopped, sent, dead>>

PullMessage ==
  /\ CanPull
  /\ queue # <<>>
  /\ received' = Append(received, Head(queue))
  /\ queue' = Tail(queue)
  /\ loop' = IF Head(queue) \in Pills THEN "stopping" ELSE "running"
  /\ SignalNotFull
  /\ UNCHANGED <<stopped, sent, dead>>

PullEndEager ==
  /\ CanPull
  /\ stopped
  /\ loop' = "stopping"
  /\ UNCHANGED <<queue, stopped, waiting, woken, sent, received, dead>>

\* Pull answers (_, false) once the mailbox is stopped and drained.
PullEnd ==
  /\ CanPull
  /\ queue = <<>>
  /\ stopped
  /\ loop' = "stopping"
  /\ UNCHANGED <<queue, stopped, waiting, woken, sent, received, dead>>

\* Stop sets the flag once and wakes everybody.
StopMailbox ==
  /\ stopped' = TRUE
  /\ IF stopped
     THEN UNCHANGED <<waiting, woken>>
     ELSE waiting' = {} /\ woken' = woken \cup waiting

\* Engine.Stop and ShutdownWithContext, from any goroutine.
Stop ==
  /\ StopMailbox
  /\ loop' = IF loop = "waiting" /\ ~stopped THEN "woken" ELSE loop
  /\ UNCHANGED <<queue, sent, received, dead>>

\* processLoop's deferred function: mailbox.Stop(), close(done).
Finish ==
  /\ loop = "stopping"
  /\ StopMailbox
  /\ loop' = "done"
  /\ UNCHANGED <<queue, sent, received, dead>>

-----------------------------------------------------------------------------
Pull == PullWait \/ PullMessage \/ PullEnd

Next ==
  \/ \E s \in Senders : Tell(s) \/ Retry(s)
  \/ Pull
  \/ Finish
  \/ Stop

\* Receive handlers return, so processLoop keeps pulling; a runnable sender
\* gets the mutex in the end.  Nobody has to send or to stop the actor.
Fairness == WF_vars(Pull) /\ WF_vars(Finish) /\ \A s \in Senders : WF_vars(Retry(s))

Spec == Init /\ [][Next]_vars
FairSpec == Spec /\ Fairness

-----------------------------------------------------------------------------
Elements(q) == {q[i] : i \in DOMAIN q}

\* The message whose Push has not returned yet, of a sender that has one.
Pending(s) == IF s \in waiting \cup woken THEN {<<s, sent[s]>>} ELSE {}

TypeOK ==
  /\ queue \in Seq(Messages)
  /\ Len(queue) <= Capacity
  /\ stopped \in BOOLEAN
  /\ waiting \subseteq Senders
  /\ woken \subseteq Senders
  /\ loop \in LoopStates
  /\ sent \in [Senders -> 0..MaxSends]
  /\ received \in Seq(Messages)
  /\ dead \subseteq Messages

(* No goroutine sleeps through the event it sleeps for: a sender waits only
   on an open mailbox in which as many woken senders as there are free
   places have still to run, and the processLoop waits only on an open and
   empty mailbox (the Signal and Broadcast calls of Push, Pull and Stop). *)
NoLostWakeup ==
  /\ waiting # {} => ~stopped /\ Len(queue) + Cardinality(woken) >= Capacity
  /\ loop = "waiting" => ~stopped /\ queue = <<>>

(* Each message told to the actor is in exactly one place: with its sender,
   in the queue, handled, or dead.  Nothing is lost and nothing doubled in
   the passes of Push and Pull, however they interleave. *)
ExactlyOnePlace ==
  \A s \in Senders, n \in 1..MaxSends :
    LET m == <<s, n>>
        places == [pending |-> m \in Pending(s), queued |-> m \in Elements(queue),
                   handled |-> m \in Elements(received), dead |-> m \in dead]
    IN  Cardinality({p \in DOMAIN places : places[p]}) = (IF n <= sent[s] THEN 1 ELSE 0)

(* The actor handles one sender's messages in the order that sender sent
   them, also when the sender had to wait for room and others overtook it. *)
SenderOrder ==
  LET all == received \o queue
  IN  \A i, j \in DOMAIN all :
        i < j /\ all[i][1] = all[j][1] => all[i][2] < all[j][2]

(* A Tell that waits for room returns: with the message queued once the
   actor has made room, or turned away once the mailbox is stopped. *)
TellReturns == \A s \in Senders : s \in waiting ~> s \notin waiting \cup woken

(* What the mailbox has accepted is handled, or becomes a dead letter of the
   policy, also when Stop comes first; only a PoisonPill may leave it behind. *)
StopDrains ==
  \A m \in Messages :
    m \in Elements(queue)
      ~> (m \in Elements(received) \cup dead \/ Pills \cap Elements(received) # {})

-----------------------------------------------------------------------------
(* The mailbox implements the inbox of module Inbox. *)
Abs == INSTANCE Inbox WITH Bound <- Capacity, buffer <- queue,
                           handled <- received, closed <- stopped

ImplementsInbox == Abs!Spec
=============================================================================
