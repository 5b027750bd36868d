--------------------------- MODULE MailboxProofs ---------------------------
(***************************************************************************)
(* Theorems about Mailbox, for any finite set of senders, any size, any    *)
(* policy and any PoisonPills: type correctness, that no wakeup is lost,   *)
(* that the mailbox implements the Inbox, that it keeps the order of each  *)
(* sender, and that each message is in one place.                          *)
(***************************************************************************)
EXTENDS Mailbox, FiniteSetTheorems, TLAPS

\* The capacity of a mailbox is at least one, whatever size was asked for.
LEMMA CapacityPositive == Capacity \in Nat /\ Capacity >= 1
  BY MailboxAssumption DEF Capacity

(* What an accepted, handled or dead message can be: one its sender has
   begun to send, and not the one that sender still waits with. *)
Settled(m) ==
  /\ m[2] <= sent[m[1]]
  /\ m[1] \in waiting \cup woken => m[2] < sent[m[1]]

SettledInv ==
  \A m \in Messages :
    m \in Elements(queue) \cup Elements(received) \cup dead => Settled(m)

\* A sender is in one wait state at most, and has begun a message if in one.
WaitersInv ==
  /\ waiting \cap woken = {}
  /\ \A s \in waiting \cup woken : sent[s] \in 1..MaxSends

IInv == TypeOK /\ NoLostWakeup /\ WaitersInv /\ SettledInv

-----------------------------------------------------------------------------
\* Facts about sequences as sets of their elements.
LEMMA AppendElements ==
  ASSUME NEW S, NEW q \in Seq(S), NEW m \in S
  PROVE  Append(q, m) \in Seq(S) /\ Elements(Append(q, m)) = Elements(q) \cup {m}
  <1>1. Append(q, m) \in Seq(S)
    OBVIOUS
  <1>2. Elements(Append(q, m)) \subseteq Elements(q) \cup {m}
    BY DEF Elements
  <1>3. ASSUME NEW x \in Elements(q) PROVE x \in Elements(Append(q, m))
    <2>1. PICK i \in DOMAIN q : x = q[i]
      BY DEF Elements
    <2>2. i \in DOMAIN Append(q, m) /\ Append(q, m)[i] = x
      BY <2>1
    <2> QED
      BY <2>2 DEF Elements
  <1>4. m \in Elements(Append(q, m))
    <2>1. Len(q) + 1 \in DOMAIN Append(q, m) /\ Append(q, m)[Len(q) + 1] = m
      OBVIOUS
    <2> QED
      BY <2>1 DEF Elements
  <1> QED
    BY <1>1, <1>2, <1>3, <1>4

\* Taking the first message leaves messages that were there.
LEMMA TailElements ==
  ASSUME NEW S, NEW q \in Seq(S), q # <<>>
  PROVE  /\ Head(q) \in S
         /\ Head(q) \in Elements(q)
         /\ Tail(q) \in Seq(S)
         /\ Len(Tail(q)) = Len(q) - 1
         /\ Elements(Tail(q)) \subseteq Elements(q)
  <1>1. Len(q) \in Nat /\ Len(q) >= 1 /\ 1 \in DOMAIN q /\ Head(q) = q[1]
    OBVIOUS
  <1>2. Tail(q) \in Seq(S) /\ Len(Tail(q)) = Len(q) - 1
    OBVIOUS
  <1>3. \A i \in DOMAIN Tail(q) : i + 1 \in DOMAIN q /\ Tail(q)[i] = q[i + 1]
    OBVIOUS
  <1> QED
    BY <1>1, <1>2, <1>3 DEF Elements

\* Taking the first message and adding one (DropOldest).
LEMMA ShiftElements ==
  ASSUME NEW S, NEW q \in Seq(S), q # <<>>, NEW m \in S
  PROVE  /\ Append(Tail(q), m) \in Seq(S)
         /\ Len(Append(Tail(q), m)) = Len(q)
         /\ Elements(Append(Tail(q), m)) \subseteq Elements(q) \cup {m}
  <1> DEFINE r == Tail(q)
  <1>1. r \in Seq(S) /\ Len(r) = Len(q) - 1 /\ Elements(r) \subseteq Elements(q)
    BY TailElements
  <1> HIDE DEF r
  <1>2. Append(r, m) \in Seq(S) /\ Elements(Append(r, m)) = Elements(r) \cup {m}
    BY <1>1, AppendElements
  <1>3. Len(Append(r, m)) = Len(q)
    BY <1>1
  <1> QED
    BY <1>1, <1>2, <1>3 DEF r

\* The sets of senders are finite, so that woken senders can be counted.
LEMMA WokenCount ==
  ASSUME TypeOK, NEW s \in Senders
  PROVE  /\ Cardinality(woken) \in Nat
         /\ Cardinality(woken \ {s}) \in Nat
         /\ Cardinality(woken \ {s}) >= Cardinality(woken) - 1
         /\ s \notin woken => Cardinality(woken \cup {s}) = Cardinality(woken) + 1
  <1>1. IsFiniteSet(woken)
    BY MailboxAssumption, FS_Subset DEF TypeOK
  <1>2. IsFiniteSet(woken \ {s}) /\ IsFiniteSet(woken \cup {s})
    BY <1>1, FS_RemoveElement, FS_AddElement
  <1>3. Cardinality(woken) \in Nat /\ Cardinality(woken \ {s}) \in Nat
    BY <1>1, <1>2, FS_CardinalityType
  <1>4. Cardinality(woken \ {s}) >= Cardinality(woken) - 1
    BY <1>1, <1>3, FS_RemoveElement
  <1>5. s \notin woken => Cardinality(woken \cup {s}) = Cardinality(woken) + 1
    BY <1>1, FS_AddElement
  <1> QED
    BY <1>3, <1>4, <1>5

-----------------------------------------------------------------------------
\* The invariant holds at first.
LEMMA InitIInv == Init => IInv
  <1> SUFFICES ASSUME Init PROVE IInv
    OBVIOUS
  <1> USE DEF Init
  <1>1. TypeOK
    <2>1. queue \in Seq(Messages) /\ received \in Seq(Messages) /\ Len(queue) <= Capacity
      BY CapacityPositive
    <2>2. sent \in [Senders -> 0..MaxSends] /\ dead \subseteq Messages
      BY MailboxAssumption
    <2> QED
      BY <2>1, <2>2 DEF TypeOK, LoopStates
  <1>2. NoLostWakeup
    BY DEF NoLostWakeup
  <1>3. WaitersInv /\ SettledInv
    BY DEF WaitersInv, SettledInv, Elements
  <1> QED
    BY <1>1, <1>2, <1>3 DEF IInv

(* One pass of Push by a sender that is not in the wait set, with the message
   it has begun to send: the step common to Tell and Retry. *)
Passing(s, m) ==
  /\ s \in Senders \ waiting
  /\ sent' \in [Senders -> 0..MaxSends]
  /\ sent'[s] \in 1..MaxSends
  /\ m = <<s, sent'[s]>>
  /\ sent[s] = IF s \in woken THEN sent'[s] ELSE sent'[s] - 1
  /\ \A t \in Senders \ {s} : sent'[t] = sent[t]
  /\ PushPass(s, m)

\* The first turn of a Push is a pass.
LEMMA TellPasses ==
  ASSUME IInv, NEW s \in Senders, Tell(s)
  PROVE  Passing(s, <<s, sent[s] + 1>>)
  BY MailboxAssumption DEF Tell, Passing, IInv, TypeOK

\* So is the turn of a sender that was woken.
LEMMA RetryPasses ==
  ASSUME IInv, NEW s \in Senders, Retry(s)
  PROVE  Passing(s, <<s, sent[s]>>)
  BY MailboxAssumption DEF Retry, Passing, IInv, TypeOK, WaitersInv

\* The message of a pass is a message and is settled nowhere yet.
LEMMA PassingFresh ==
  ASSUME IInv, NEW s, NEW m, Passing(s, m)
  PROVE  /\ s \in Senders
         /\ m \in Messages
         /\ m \notin Elements(queue) \cup Elements(received) \cup dead
  <1>1. s \in Senders /\ m \in Messages /\ m[1] = s /\ m[2] = sent'[s]
    BY DEF Passing, Messages
  <1>2. ~Settled(m)
    BY <1>1 DEF Passing, Settled, IInv, TypeOK
  <1> QED
    BY <1>1, <1>2 DEF IInv, SettledInv

\* A pass keeps the types, the capacity among them.
LEMMA PassingTypeOK ==
  ASSUME IInv, NEW s, NEW m, Passing(s, m)
  PROVE  TypeOK'
  <1>1. s \in Senders /\ m \in Messages
    BY PassingFresh
  <1>2. TypeOK /\ sent' \in [Senders -> 0..MaxSends]
    BY DEF IInv, Passing
  <1> USE DEF TypeOK, LoopStates, Returns, SignalNotEmpty
  <1>3. CASE PushStopped(s, m)
    BY <1>1, <1>2, <1>3 DEF PushStopped
  <1>4. CASE PushRoom(s, m)
    BY <1>1, <1>2, <1>4, AppendElements, CapacityPositive DEF PushRoom
  <1>5. CASE PushFull(s, m)
    <2>1. queue # <<>> /\ Len(queue) = Capacity
      BY <1>2, <1>5, CapacityPositive DEF PushFull
    <2>2. CASE PushBlock(s)
      BY <1>1, <1>2, <2>2 DEF PushBlock
    <2>3. CASE PushRefuse(s, m)
      BY <1>1, <1>2, <2>3 DEF PushRefuse
    <2>4. CASE PushEvict(s, m)
      <3>1. Head(queue) \in Messages /\ Tail(queue) \in Seq(Messages)
              /\ Len(Tail(queue)) = Capacity - 1
        BY <1>2, <2>1, TailElements
      <3>2. queue' \in Seq(Messages) /\ Len(queue') = Capacity
        BY <1>1, <2>4, <3>1, CapacityPositive DEF PushEvict
      <3> QED
        BY <1>1, <1>2, <2>4, <3>1, <3>2, CapacityPositive DEF PushEvict
    <2> QED
      BY <1>5, <2>2, <2>3, <2>4 DEF PushFull
  <1> QED
    BY <1>3, <1>4, <1>5 DEF Passing, PushPass

\* A pass leaves nobody asleep who should be awake.
LEMMA PassingNoLostWakeup ==
  ASSUME IInv, NEW s, NEW m, Passing(s, m)
  PROVE  NoLostWakeup'
  <1>1. s \in Senders /\ m \in Messages /\ s \notin waiting
    BY PassingFresh DEF Passing
  <1>2. TypeOK /\ NoLostWakeup /\ Len(queue) \in Nat /\ Capacity \in Nat /\ Capacity >= 1
    BY CapacityPositive DEF IInv, TypeOK
  <1>3. /\ Cardinality(woken) \in Nat
        /\ Cardinality(woken \ {s}) \in Nat
        /\ Cardinality(woken \ {s}) >= Cardinality(woken) - 1
    BY <1>1, <1>2, WokenCount
  <1> USE DEF NoLostWakeup, Returns, SignalNotEmpty
  <1>4. CASE PushStopped(s, m)
    BY <1>1, <1>2, <1>4 DEF PushStopped
  <1>5. CASE PushRoom(s, m)
    <2>1. Len(queue') = Len(queue) + 1
      BY <1>1, <1>2, <1>5 DEF PushRoom, TypeOK
    <2> QED
      BY <1>1, <1>2, <1>3, <1>5, <2>1 DEF PushRoom
  <1>6. CASE PushFull(s, m)
    <2>1. ~stopped /\ Len(queue) = Capacity /\ queue # <<>>
      BY <1>2, <1>6 DEF PushFull, TypeOK
    <2>2. CASE PushBlock(s)
      BY <1>2, <1>3, <2>1, <2>2 DEF PushBlock
    <2>3. CASE PushRefuse(s, m)
      BY <1>2, <1>3, <2>1, <2>3 DEF PushRefuse
    <2>4. CASE PushEvict(s, m)
      <3>1. Len(queue') = Capacity
        BY <1>1, <1>2, <2>1, <2>4, TailElements DEF PushEvict, TypeOK
      <3> QED
        BY <1>2, <1>3, <2>1, <2>4, <3>1 DEF PushEvict
    <2> QED
      BY <1>6, <2>2, <2>3, <2>4 DEF PushFull
  <1> QED
    BY <1>4, <1>5, <1>6 DEF Passing, PushPass

\* A pass keeps a sender in one wait state, and its message in one place.
LEMMA PassingWaitersSettled ==
  ASSUME IInv, NEW s, NEW m, Passing(s, m)
  PROVE  WaitersInv' /\ SettledInv'
  <1>1. s \in Senders /\ m \in Messages /\ s \notin waiting /\ m[1] = s /\ m[2] = sent'[s]
    BY PassingFresh DEF Passing
  <1>2. TypeOK /\ WaitersInv /\ SettledInv
    BY DEF IInv
  <1>3. \A t \in Senders : sent[t] \in Nat /\ sent'[t] \in Nat /\ sent[t] <= sent'[t]
    BY <1>2 DEF Passing, TypeOK
  \* A sender other than s keeps its state; s is left waiting by PushBlock only.
  <1>4. /\ waiting' \subseteq waiting \cup {s}
        /\ woken' = woken \ {s}
    BY DEF Passing, PushPass, PushStopped, PushRoom, PushFull, PushBlock, PushRefuse,
           PushEvict, Returns
  <1>5. WaitersInv'
    BY <1>1, <1>2, <1>4 DEF WaitersInv, Passing, TypeOK
  \* What is placed after the pass was placed before it, or is m itself, and
  \* then s has returned.
  <1>6. ASSUME NEW x \in Elements(queue') \cup Elements(received') \cup dead'
        PROVE  \/ x \in Elements(queue) \cup Elements(received) \cup dead
               \/ x = m /\ s \notin waiting' \cup woken'
    <2> USE DEF Returns
    <2>1. CASE PushStopped(s, m)
      BY <1>1, <1>6, <2>1 DEF PushStopped
    <2>2. CASE PushRoom(s, m)
      BY <1>1, <1>2, <1>6, <2>2, AppendElements DEF PushRoom, TypeOK
    <2>3. CASE PushFull(s, m)
      <3>1. queue # <<>>
        BY <1>2, <2>3, CapacityPositive DEF PushFull, TypeOK
      <3>2. CASE PushBlock(s)
        BY <1>6, <3>2 DEF PushBlock
      <3>3. CASE PushRefuse(s, m)
        BY <1>1, <1>6, <3>3 DEF PushRefuse
      <3>4. CASE PushEvict(s, m)
        <4>1. Elements(Append(Tail(queue), m)) \subseteq Elements(queue) \cup {m}
          BY <1>1, <1>2, <3>1, ShiftElements DEF TypeOK
        <4>2. Head(queue) \in Elements(queue)
          BY <1>2, <3>1, TailElements DEF TypeOK
        <4> QED
          BY <1>1, <1>6, <3>4, <4>1, <4>2 DEF PushEvict
      <3> QED
        BY <2>3, <3>2, <3>3, <3>4 DEF PushFull
    <2> QED
      BY <2>1, <2>2, <2>3 DEF Passing, PushPass
  <1>7. ASSUME NEW x \in Messages,
               x \in Elements(queue') \cup Elements(received') \cup dead'
        PROVE  Settled(x)'
    <2>1. x[1] \in Senders /\ x[2] \in Nat
      BY MailboxAssumption DEF Messages
    <2>2. CASE x = m /\ s \notin waiting' \cup woken'
      BY <1>1, <1>3, <2>2 DEF Settled
    <2>3. CASE x \in Elements(queue) \cup Elements(received) \cup dead
      <3>1. Settled(x)
        BY <1>2, <2>3 DEF SettledInv
      <3>2. CASE x[1] = s
        BY <1>1, <2>1, <3>1, <3>2 DEF Settled, Passing, TypeOK
      <3>3. CASE x[1] # s
        BY <1>1, <1>4, <2>1, <3>1, <3>3 DEF Settled, Passing
      <3> QED
        BY <3>2, <3>3
    <2> QED
      BY <1>6, <1>7, <2>2, <2>3
  <1> QED
    BY <1>5, <1>7 DEF SettledInv

\* A pass keeps the invariant.
LEMMA PassingIInv ==
  ASSUME IInv, NEW s, NEW m, Passing(s, m)
  PROVE  IInv'
  BY PassingTypeOK, PassingNoLostWakeup, PassingWaitersSettled DEF IInv

\* Taking a message and waking one sender keeps the invariant.
LEMMA PullMessageIInv ==
  ASSUME IInv, PullMessage
  PROVE  IInv'
  <1>1. /\ TypeOK /\ NoLostWakeup /\ WaitersInv /\ SettledInv
        /\ queue # <<>> /\ queue \in Seq(Messages) /\ received \in Seq(Messages)
        /\ Len(queue) \in Nat /\ Capacity \in Nat
    BY CapacityPositive DEF IInv, PullMessage, TypeOK
  <1>2. /\ Head(queue) \in Messages
        /\ Head(queue) \in Elements(queue)
        /\ queue' \in Seq(Messages)
        /\ Len(queue') = Len(queue) - 1
        /\ Elements(queue') \subseteq Elements(queue)
    BY <1>1, TailElements DEF PullMessage
  <1>3. /\ received' \in Seq(Messages)
        /\ Elements(received') = Elements(received) \cup {Head(queue)}
    BY <1>1, <1>2, AppendElements DEF PullMessage
  <1>4. \/ waiting = {} /\ waiting' = {} /\ woken' = woken
        \/ \E s \in waiting : waiting' = waiting \ {s} /\ woken' = woken \cup {s}
    BY DEF PullMessage, SignalNotFull
  <1>5. TypeOK'
    BY <1>1, <1>2, <1>3, <1>4 DEF TypeOK, PullMessage, LoopStates
  <1>6. NoLostWakeup'
    <2>1. CASE waiting = {} /\ waiting' = {} /\ woken' = woken
      BY <2>1 DEF NoLostWakeup, PullMessage
    <2>2. ASSUME NEW s \in waiting, waiting' = waiting \ {s}, woken' = woken \cup {s}
          PROVE  NoLostWakeup'
      <3>1. s \in Senders /\ s \notin woken
        BY <1>1, <2>2 DEF TypeOK, WaitersInv
      <3>2. Cardinality(woken') = Cardinality(woken) + 1 /\ Cardinality(woken) \in Nat
        BY <1>1, <2>2, <3>1, WokenCount
      <3>3. ~stopped /\ Len(queue) + Cardinality(woken) >= Capacity
        BY <1>1, <2>2 DEF NoLostWakeup
      <3> QED
        BY <1>1, <1>2, <3>2, <3>3 DEF NoLostWakeup, PullMessage
    <2> QED
      BY <1>4, <2>1, <2>2
  <1>7. WaitersInv'
    BY <1>1, <1>4 DEF WaitersInv, PullMessage
  <1>8. SettledInv'
    <2>1. waiting' \cup woken' = waiting \cup woken /\ sent' = sent /\ dead' = dead
      BY <1>4 DEF PullMessage
    <2> QED
      BY <1>1, <1>2, <1>3, <2>1 DEF SettledInv, Settled
  <1> QED
    BY <1>5, <1>6, <1>7, <1>8 DEF IInv

\* Stop and the loop's end: the queue and the histories stay, waiters wake.
LEMMA StopIInv ==
  ASSUME IInv, Stop \/ Finish
  PROVE  IInv'
  <1>1. /\ TypeOK /\ NoLostWakeup /\ WaitersInv /\ SettledInv
        /\ UNCHANGED <<queue, sent, received, dead>>
        /\ StopMailbox
    BY DEF IInv, Stop, Finish
  <1>2. waiting' = {} /\ woken' = woken \cup waiting /\ stopped' = TRUE
    BY <1>1 DEF StopMailbox, NoLostWakeup
  <1>3. loop' \in LoopStates /\ loop' # "waiting"
    BY <1>1 DEF Stop, Finish, TypeOK, LoopStates, NoLostWakeup
  <1>4. TypeOK'
    BY <1>1, <1>2, <1>3 DEF TypeOK
  <1>5. NoLostWakeup' /\ WaitersInv'
    BY <1>1, <1>2, <1>3 DEF NoLostWakeup, WaitersInv
  <1>6. SettledInv'
    BY <1>1, <1>2 DEF SettledInv, Settled
  <1> QED
    BY <1>4, <1>5, <1>6 DEF IInv

\* Every step keeps the invariant.
LEMMA NextIInv == IInv /\ [Next]_vars => IInv'
  <1> SUFFICES ASSUME IInv, [Next]_vars PROVE IInv'
    OBVIOUS
  <1>1. ASSUME NEW s \in Senders, Tell(s) PROVE IInv'
    BY <1>1, TellPasses, PassingIInv
  <1>2. ASSUME NEW s \in Senders, Retry(s) PROVE IInv'
    BY <1>2, RetryPasses, PassingIInv
  <1>3. CASE PullWait
    BY <1>3 DEF PullWait, IInv, TypeOK, LoopStates, NoLostWakeup, WaitersInv,
                SettledInv, Settled
  <1>4. CASE PullMessage
    BY <1>4, PullMessageIInv
  <1>5. CASE PullEnd
    BY <1>5 DEF PullEnd, IInv, TypeOK, LoopStates, NoLostWakeup, WaitersInv,
                SettledInv, Settled
  <1>6. CASE Finish
    BY <1>6, StopIInv
  <1>7. CASE Stop
    BY <1>7, StopIInv
  <1>8. CASE UNCHANGED vars
    BY <1>8 DEF vars, IInv, TypeOK, NoLostWakeup, WaitersInv, SettledInv, Settled
  <1> QED
    BY <1>1, <1>2, <1>3, <1>4, <1>5, <1>6, <1>7, <1>8 DEF Next, Pull

\* The invariant holds always.
LEMMA Invariance == Spec => []IInv
  BY InitIInv, NextIInv, PTL DEF Spec

-----------------------------------------------------------------------------
(* Every value a mailbox holds has its type and the queue never outgrows its
   capacity (Push tests for room again after every wait). *)
THEOREM TypeCorrectness == Spec => []TypeOK
  BY Invariance, PTL DEF IInv

(* No goroutine waits on a mailbox that can serve it, unless a goroutine that
   was already woken is still to run: the condition-variable protocol of
   Push, Pull and Stop loses no wakeup. *)
THEOREM WakeupsAreNotLost == Spec => []NoLostWakeup
  BY Invariance, PTL DEF IInv

(* The mailbox implements the inbox: each pass of Push accepts, displaces or
   refuses a message that had not ended before, or waits; each Pull handles
   the oldest message. *)
THEOREM MailboxImplementsInbox == Spec => ImplementsInbox
  <1>1. Init => Abs!Init
    BY DEF Init, Abs!Init
  <1>2. ASSUME IInv, [Next]_vars
        PROVE  [Abs!Next]_(Abs!vars)
    <2> USE DEF Abs!vars
    <2>1. ASSUME NEW s, NEW m, Passing(s, m)
          PROVE  [Abs!Next]_(Abs!vars)
      <3>1. m \in Messages /\ Abs!Fresh(m)
        BY <1>2, <2>1, PassingFresh DEF Abs!Fresh, Abs!Elements, Elements
      <3>2. CASE PushStopped(s, m)
        <4>1. Abs!Refuse(m)
          BY <3>1, <3>2 DEF PushStopped, Abs!Refuse
        <4> QED
          BY <3>1, <4>1 DEF Abs!Next
      <3>3. CASE PushRoom(s, m)
        <4>1. Abs!Accept(m)
          BY <3>1, <3>3 DEF PushRoom, Abs!Accept
        <4> QED
          BY <3>1, <4>1 DEF Abs!Next
      <3>4. CASE PushFull(s, m)
        <4>1. Len(queue) = Capacity
          BY <1>2, <3>4, CapacityPositive DEF PushFull, IInv, TypeOK
        <4>2. CASE PushBlock(s)
          BY <4>2 DEF PushBlock
        <4>3. CASE PushRefuse(s, m)
          <5>1. Abs!Refuse(m)
            BY <3>1, <4>1, <4>3 DEF PushRefuse, Abs!Refuse
          <5> QED
            BY <3>1, <5>1 DEF Abs!Next
        <4>4. CASE PushEvict(s, m)
          <5>1. Abs!Displace(m)
            BY <3>1, <3>4, <4>1, <4>4 DEF PushFull, PushEvict, Abs!Displace
          <5> QED
            BY <3>1, <5>1 DEF Abs!Next
        <4> QED
          BY <3>4, <4>2, <4>3, <4>4 DEF PushFull
      <3> QED
        BY <2>1, <3>2, <3>3, <3>4 DEF Passing, PushPass
    <2>2. ASSUME NEW s \in Senders, Tell(s) \/ Retry(s)
          PROVE  [Abs!Next]_(Abs!vars)
      BY <1>2, <2>1, <2>2, TellPasses, RetryPasses
    <2>3. CASE PullMessage
      <3>1. Abs!Handle
        BY <2>3 DEF PullMessage, Abs!Handle
      <3> QED
        BY <3>1 DEF Abs!Next
    <2>4. CASE Stop \/ Finish
      <3>1. Abs!Close
        BY <2>4 DEF Stop, Finish, StopMailbox, Abs!Close
      <3> QED
        BY <3>1 DEF Abs!Next
    <2>5. CASE PullWait \/ PullEnd \/ UNCHANGED vars
      BY <2>5 DEF PullWait, PullEnd, vars
    <2> QED
      BY <1>2, <2>2, <2>3, <2>4, <2>5 DEF Next, Pull
  <1> QED
    BY <1>1, <1>2, Invariance, PTL DEF Spec, ImplementsInbox, Abs!Spec
-----------------------------------------------------------------------------
(* Places and order.  What follows rests on IInv and on nothing it says of  *)
(* waits: the queue is sorted for each sender, after what was handled, and  *)
(* a message that was begun is somewhere.                                   *)

Sorted(q) == \A i, j \in DOMAIN q : i < j /\ q[i][1] = q[j][1] => q[i][2] < q[j][2]

\* Of each sender, the messages of A come before those of B.
Before(A, B) == \A a \in A, b \in B : a[1] = b[1] => a[2] < b[2]

OrderInv ==
  /\ Sorted(received)
  /\ Sorted(queue)
  /\ Before(Elements(received), Elements(queue))

Somewhere(m) == m \in Pending(m[1]) \cup Elements(queue) \cup Elements(received) \cup dead

PlacesInv ==
  /\ dead \cap (Elements(queue) \cup Elements(received)) = {}
  /\ \A m \in Messages : m[2] <= sent[m[1]] => Somewhere(m)

HInv == OrderInv /\ PlacesInv

\* A message later than all of its sender can be put at the end.
LEMMA SortedAppend ==
  ASSUME NEW q \in Seq(Messages), NEW m \in Messages, Sorted(q), Before(Elements(q), {m})
  PROVE  Sorted(Append(q, m))
  <1> DEFINE r == Append(q, m)
  <1>1. /\ Len(q) \in Nat /\ DOMAIN q = 1..Len(q)
        /\ DOMAIN r = 1..(Len(q) + 1)
        /\ \A i \in 1..Len(q) : r[i] = q[i]
        /\ r[Len(q) + 1] = m
    OBVIOUS
  <1>2. \A i \in 1..Len(q) : q[i] \in Elements(q)
    BY <1>1 DEF Elements
  <1> HIDE DEF r
  <1>3. ASSUME NEW i \in DOMAIN r, NEW j \in DOMAIN r, i < j, r[i][1] = r[j][1]
        PROVE  r[i][2] < r[j][2]
    <2>1. i \in 1..Len(q)
      BY <1>1, <1>3
    <2>2. CASE j \in 1..Len(q)
      BY <1>1, <1>3, <2>1, <2>2 DEF Sorted
    <2>3. CASE j = Len(q) + 1
      BY <1>1, <1>2, <1>3, <2>1, <2>3 DEF Before
    <2> QED
      BY <1>1, <2>2, <2>3
  <1> QED
    BY <1>3 DEF Sorted, r

\* The first message of a sorted queue comes before the others.
LEMMA SortedTail ==
  ASSUME NEW q \in Seq(Messages), q # <<>>, Sorted(q)
  PROVE  /\ Sorted(Tail(q))
         /\ Elements(q) = {Head(q)} \cup Elements(Tail(q))
         /\ Before({Head(q)}, Elements(Tail(q)))
         /\ Head(q) \notin Elements(Tail(q))
  <1> DEFINE r == Tail(q)
  <1>1. /\ Len(q) \in Nat /\ Len(q) >= 1 /\ DOMAIN q = 1..Len(q)
        /\ r \in Seq(Messages) /\ Len(r) = Len(q) - 1 /\ DOMAIN r = 1..(Len(q) - 1)
        /\ Head(q) = q[1]
    OBVIOUS
  <1>2. \A i \in DOMAIN r : i + 1 \in DOMAIN q /\ r[i] = q[i + 1]
    OBVIOUS
  <1> HIDE DEF r
  <1>3. Sorted(r)
    BY <1>1, <1>2 DEF Sorted
  <1>4. Elements(q) = {Head(q)} \cup Elements(r)
    <2>1. ASSUME NEW i \in DOMAIN q, i # 1 PROVE q[i] \in Elements(r)
      <3>1. i - 1 \in DOMAIN r /\ r[i - 1] = q[i]
        BY <1>1, <1>2, <2>1
      <3> QED
        BY <3>1 DEF Elements
    <2>2. Elements(q) \subseteq {Head(q)} \cup Elements(r)
      BY <1>1, <2>1 DEF Elements
    <2>3. {Head(q)} \cup Elements(r) \subseteq Elements(q)
      BY <1>1, <1>2 DEF Elements
    <2> QED
      BY <2>2, <2>3
  <1>5. Before({Head(q)}, Elements(r))
    <2> SUFFICES ASSUME NEW b \in Elements(r), Head(q)[1] = b[1]
                 PROVE  Head(q)[2] < b[2]
      BY DEF Before
    <2>1. PICK i \in DOMAIN r : b = r[i]
      BY DEF Elements
    <2>2. 1 \in DOMAIN q /\ i + 1 \in DOMAIN q /\ 1 < i + 1 /\ b = q[i + 1]
      BY <1>1, <1>2, <2>1
    <2> QED
      BY <1>1, <2>2 DEF Sorted
  <1>6. Head(q) \notin Elements(r)
    <2>1. Head(q)[2] \in Int
      BY <1>1, MailboxAssumption DEF Messages
    <2> QED
      BY <1>5, <2>1 DEF Before
  <1> QED
    BY <1>3, <1>4, <1>5, <1>6 DEF r

\* The message of a pass comes after whatever has been settled.
LEMMA PassingIsLater ==
  ASSUME IInv, NEW s, NEW m, Passing(s, m)
  PROVE  Before(Elements(queue) \cup Elements(received) \cup dead, {m})
  <1>1. s \in Senders /\ m \in Messages /\ m[1] = s /\ m[2] = sent'[s] /\ sent'[s] \in Nat
    BY PassingFresh DEF Passing
  <1> SUFFICES ASSUME NEW a \in Elements(queue) \cup Elements(received) \cup dead, a[1] = s
               PROVE  a[2] < m[2]
    BY <1>1 DEF Before
  <1>2. a \in Messages
    BY DEF IInv, TypeOK, Elements
  <1>3. Settled(a) /\ a[2] \in Nat
    BY <1>2, MailboxAssumption DEF IInv, SettledInv, Messages
  <1> QED
    BY <1>1, <1>3 DEF Settled, Passing

\* Who has a message under way after a pass.
LEMMA PassingPending ==
  ASSUME IInv, NEW s, NEW m, Passing(s, m)
  PROVE  /\ \A t \in Senders \ {s} : Pending(t)' = Pending(t)
         /\ s \in waiting' => Pending(s)' = {m}
  <1>1. waiting' \cup woken' \subseteq waiting \cup woken \cup {s}
    BY DEF Passing, PushPass, PushStopped, PushRoom, PushFull, PushBlock, PushRefuse, PushEvict, Returns
  <1>2. (waiting \cup woken) \ {s} \subseteq waiting' \cup woken'
    BY DEF Passing, PushPass, PushStopped, PushRoom, PushFull, PushBlock, PushRefuse, PushEvict, Returns
  <1> QED
    BY <1>1, <1>2 DEF Pending, Passing

(* After a pass every message that was begun is somewhere, when the message
   of the pass is and what was settled still is. *)
LEMMA PassingSomewhere ==
  ASSUME IInv, PlacesInv, NEW s, NEW m, Passing(s, m), Somewhere(m)',
         Elements(queue) \cup Elements(received) \cup dead
           \subseteq Elements(queue') \cup Elements(received') \cup dead'
  PROVE  \A x \in Messages : x[2] <= sent'[x[1]] => Somewhere(x)'
  <1>1. s \in Senders /\ m = <<s, sent'[s]>> /\ sent'[s] \in Nat /\ sent[s] \in Nat
    BY PassingFresh DEF Passing, IInv, TypeOK
  <1> SUFFICES ASSUME NEW x \in Messages, x[2] <= sent'[x[1]], x # m PROVE Somewhere(x)'
    OBVIOUS
  <1>2. x[1] \in Senders /\ x[2] \in Nat /\ x = <<x[1], x[2]>>
    BY MailboxAssumption DEF Messages
  <1>3. CASE x[1] = s
    <2>1. x[2] < sent'[s]
      BY <1>1, <1>2, <1>3
    <2>2. x[2] <= sent[s] /\ x \notin Pending(s)
      BY <1>1, <1>2, <1>3, <2>1 DEF Passing, Pending
    <2> QED
      BY <1>3, <2>2 DEF PlacesInv, Somewhere
  <1>4. CASE x[1] # s
    <2>1. x[2] <= sent[x[1]] /\ Pending(x[1])' = Pending(x[1])
      BY <1>2, <1>4, PassingPending DEF Passing
    <2> QED
      BY <2>1 DEF PlacesInv, Somewhere
  <1> QED
    BY <1>3, <1>4

\* A pass keeps order and places.
LEMMA PassingHInv ==
  ASSUME IInv, HInv, NEW s, NEW m, Passing(s, m)
  PROVE  HInv'
  <1>1. /\ s \in Senders /\ m \in Messages
        /\ m \notin Elements(queue) \cup Elements(received) \cup dead
    BY PassingFresh
  <1>2. queue \in Seq(Messages) /\ received \in Seq(Messages) /\ OrderInv /\ PlacesInv
    BY DEF IInv, TypeOK, HInv
  <1>3. Before(Elements(queue), {m}) /\ Before(Elements(received), {m})
    BY PassingIsLater DEF Before
  <1> USE DEF Somewhere
  <1>4. CASE PushStopped(s, m) \/ PushRefuse(s, m)
    <2>1. UNCHANGED <<queue, received>> /\ dead' = dead \cup {m}
      BY <1>4 DEF PushStopped, PushRefuse
    <2>2. OrderInv'
      BY <1>2, <2>1 DEF OrderInv
    <2>3. PlacesInv'
      BY <1>1, <1>2, <2>1, PassingSomewhere DEF PlacesInv
    <2> QED
      BY <2>2, <2>3 DEF HInv
  <1>5. CASE PushRoom(s, m)
    <2>1. UNCHANGED <<received, dead>> /\ queue' = Append(queue, m)
      BY <1>5 DEF PushRoom
    <2>2. Elements(queue') = Elements(queue) \cup {m}
      BY <1>1, <1>2, <2>1, AppendElements
    <2>3. Sorted(queue')
      BY <1>1, <1>2, <1>3, <2>1, SortedAppend DEF OrderInv
    <2>4. Before(Elements(received'), Elements(queue'))
      BY <1>2, <1>3, <2>1, <2>2 DEF OrderInv, Before
    <2>5. PlacesInv'
      BY <1>1, <1>2, <2>1, <2>2, PassingSomewhere DEF PlacesInv
    <2> QED
      BY <1>2, <2>1, <2>3, <2>4, <2>5 DEF HInv, OrderInv
  <1>6. CASE PushFull(s, m) /\ PushBlock(s)
    <2>1. UNCHANGED <<queue, received, dead>> /\ s \in waiting'
      BY <1>6 DEF PushBlock
    <2>2. m[1] = s /\ m \in Pending(s)'
      BY <2>1, PassingPending DEF Passing
    <2>3. OrderInv'
      BY <1>2, <2>1 DEF OrderInv
    <2>4. PlacesInv'
      BY <1>1, <1>2, <2>1, <2>2, PassingSomewhere DEF PlacesInv
    <2> QED
      BY <2>3, <2>4 DEF HInv
  <1>7. CASE PushFull(s, m) /\ PushEvict(s, m)
    <2>1. queue # <<>>
      BY <1>2, <1>7, CapacityPositive DEF PushFull
    <2>2. /\ received' = received
          /\ queue' = Append(Tail(queue), m)
          /\ dead' = dead \cup {Head(queue)}
      BY <1>7 DEF PushEvict
    <2>3. /\ Sorted(Tail(queue))
          /\ Elements(queue) = {Head(queue)} \cup Elements(Tail(queue))
          /\ Head(queue) \notin Elements(Tail(queue))
      BY <1>2, <2>1, SortedTail DEF OrderInv
    <2>4. Tail(queue) \in Seq(Messages) /\ Head(queue) \in Messages
      BY <1>2, <2>1, TailElements
    <2>5. Before(Elements(Tail(queue)), {m})
      BY <1>3, <2>3 DEF Before
    <2>6. Elements(queue') = Elements(Tail(queue)) \cup {m}
      BY <1>1, <2>2, <2>4, AppendElements
    <2>7. Sorted(queue')
      BY <1>1, <2>2, <2>3, <2>4, <2>5, SortedAppend
    <2>8. Before(Elements(received'), Elements(queue'))
      BY <1>2, <1>3, <2>2, <2>3, <2>6 DEF OrderInv, Before
    <2>9. Head(queue) \notin Elements(received)
      <3>1. Head(queue)[2] \in Int
        BY <2>4, MailboxAssumption DEF Messages
      <3> QED
        BY <1>2, <2>3, <3>1 DEF OrderInv, Before
    <2>10. PlacesInv'
      BY <1>1, <1>2, <2>2, <2>3, <2>6, <2>9, PassingSomewhere DEF PlacesInv
    <2> QED
      BY <1>2, <2>2, <2>7, <2>8, <2>10 DEF HInv, OrderInv
  <1> QED
    BY <1>4, <1>5, <1>6, <1>7 DEF Passing, PushPass, PushFull

\* So does a Pull: the first message of the queue comes after what was handled.
LEMMA PullMessageHInv ==
  ASSUME IInv, HInv, PullMessage
  PROVE  HInv'
  <1>1. /\ queue \in Seq(Messages) /\ received \in Seq(Messages) /\ queue # <<>>
        /\ OrderInv /\ PlacesInv
    BY DEF IInv, TypeOK, HInv, PullMessage
  <1>2. /\ received' = Append(received, Head(queue)) /\ queue' = Tail(queue)
        /\ UNCHANGED <<sent, dead>>
        /\ waiting' \cup woken' = waiting \cup woken
    BY DEF PullMessage, SignalNotFull
  <1>3. Head(queue) \in Messages
    BY <1>1, TailElements
  <1>4. /\ Sorted(queue')
        /\ Elements(queue) = {Head(queue)} \cup Elements(queue')
        /\ Before({Head(queue)}, Elements(queue'))
    BY <1>1, <1>2, SortedTail DEF OrderInv
  <1>5. Elements(received') = Elements(received) \cup {Head(queue)}
    BY <1>1, <1>2, <1>3, AppendElements
  <1>6. Before(Elements(received), {Head(queue)}) /\ Before(Elements(received), Elements(queue'))
    BY <1>1, <1>4 DEF OrderInv, Before
  <1>7. Sorted(received')
    BY <1>1, <1>2, <1>3, <1>6, SortedAppend DEF OrderInv
  <1>8. OrderInv'
    BY <1>4, <1>5, <1>6, <1>7 DEF OrderInv, Before
  <1>9. PlacesInv'
    BY <1>1, <1>2, <1>4, <1>5 DEF PlacesInv, Somewhere, Pending
  <1> QED
    BY <1>8, <1>9 DEF HInv

\* Every step keeps order and places; those but a pass and a Pull move no
\* message, and leave the same senders with one under way.
LEMMA NextHInv == IInv /\ HInv /\ [Next]_vars => HInv'
  <1> SUFFICES ASSUME IInv, HInv, [Next]_vars PROVE HInv'
    OBVIOUS
  <1>1. ASSUME NEW s \in Senders, Tell(s) \/ Retry(s) PROVE HInv'
    BY <1>1, TellPasses, RetryPasses, PassingHInv
  <1>2. CASE PullMessage
    BY <1>2, PullMessageHInv
  <1>3. CASE PullWait \/ PullEnd \/ Stop \/ Finish \/ UNCHANGED vars
    <2>1. /\ UNCHANGED <<queue, received, dead, sent>>
          /\ waiting' \cup woken' = waiting \cup woken
      BY <1>3 DEF PullWait, PullEnd, Stop, Finish, StopMailbox, vars
    <2> QED
      BY <2>1 DEF HInv, OrderInv, PlacesInv, Somewhere, Pending
  <1> QED
    BY <1>1, <1>2, <1>3 DEF Next, Pull

LEMMA HInvariance == Spec => []HInv
  <1>1. Init => HInv
    <2> SUFFICES ASSUME Init PROVE HInv
      OBVIOUS
    <2>1. Elements(queue) = {} /\ Elements(received) = {} /\ Sorted(queue) /\ Sorted(received)
      BY DEF Init, Elements, Sorted
    <2>2. ASSUME NEW x \in Messages PROVE ~(x[2] <= sent[x[1]])
      BY MailboxAssumption DEF Init, Messages
    <2> QED
      BY <2>1, <2>2 DEF Init, HInv, OrderInv, PlacesInv, Before
  <1> QED
    BY <1>1, NextHInv, Invariance, PTL DEF Spec

(* The actor handles the messages of one sender in the order they were sent
   in, and those in the queue come after those it has handled: waiting for
   room and being overtaken, displaced or refused never turns two of them. *)
THEOREM SendersKeepOrder == Spec => []SenderOrder
  <1>1. IInv /\ HInv => SenderOrder
    <2> SUFFICES ASSUME IInv, HInv PROVE SenderOrder
      OBVIOUS
    <2> DEFINE all == received \o queue
    <2>1. queue \in Seq(Messages) /\ received \in Seq(Messages)
      BY DEF IInv, TypeOK
    <2>2. /\ Len(received) \in Nat /\ Len(queue) \in Nat
          /\ DOMAIN received = 1..Len(received) /\ DOMAIN queue = 1..Len(queue)
          /\ DOMAIN all = 1..(Len(received) + Len(queue))
          /\ \A i \in 1..Len(received) : all[i] = received[i]
          /\ \A i \in DOMAIN all : i > Len(received) => all[i] = queue[i - Len(received)]
      BY <2>1
    <2> HIDE DEF all
    <2>3. ASSUME NEW i \in DOMAIN all, NEW j \in DOMAIN all, i < j, all[i][1] = all[j][1]
          PROVE  all[i][2] < all[j][2]
      <3>1. CASE j <= Len(received)
        BY <2>2, <2>3, <3>1 DEF HInv, OrderInv, Sorted
      <3>2. CASE i <= Len(received) /\ j > Len(received)
        <4>1. all[i] \in Elements(received) /\ all[j] \in Elements(queue)
          BY <2>2, <3>2 DEF Elements
        <4> QED
          BY <2>3, <4>1 DEF HInv, OrderInv, Before
      <3>3. CASE i > Len(received)
        <4> DEFINE a == i - Len(received)
                   b == j - Len(received)
        <4>1. a \in DOMAIN queue /\ b \in DOMAIN queue /\ a < b /\ all[i] = queue[a] /\ all[j] = queue[b]
          BY <2>2, <2>3, <3>3
        <4> HIDE DEF a, b
        <4> QED
          BY <2>3, <4>1 DEF HInv, OrderInv, Sorted
      <3> QED
        BY <2>2, <3>1, <3>2, <3>3
    <2> QED
      BY <2>3 DEF SenderOrder, all
  <1> QED
    BY <1>1, Invariance, HInvariance, PTL

(* A message a sender has begun to send is under way, queued, handled or
   dead, and only one of these; another is nowhere.  The passes of Push and
   Pull lose none and double none, whatever the policy answers. *)
THEOREM EachMessageHasOnePlace == Spec => []ExactlyOnePlace
  <1>1. IInv /\ HInv => ExactlyOnePlace
    <2> SUFFICES ASSUME IInv, HInv, NEW s \in Senders, NEW n \in 1..MaxSends
                 PROVE  LET m == <<s, n>>
                            places == [pending |-> m \in Pending(s), queued |-> m \in Elements(queue),
                                       handled |-> m \in Elements(received), dead |-> m \in dead]
                        IN  Cardinality({p \in DOMAIN places : places[p]}) = (IF n <= sent[s] THEN 1 ELSE 0)
      BY DEF ExactlyOnePlace
    <2> DEFINE m == <<s, n>>
               places == [pending |-> m \in Pending(s), queued |-> m \in Elements(queue),
                          handled |-> m \in Elements(received), dead |-> m \in dead]
               P == {p \in DOMAIN places : places[p]}
    <2>1. m \in Messages /\ m[1] = s /\ m[2] = n /\ n \in Int /\ sent[s] \in Int
      BY MailboxAssumption DEF Messages, IInv, TypeOK
    <2>2. /\ "pending" \in P <=> m \in Pending(s)
          /\ "queued" \in P <=> m \in Elements(queue)
          /\ "handled" \in P <=> m \in Elements(received)
          /\ "dead" \in P <=> m \in dead
          /\ P \subseteq {"pending", "queued", "handled", "dead"}
      OBVIOUS
    <2> HIDE DEF P
    <2>3. m \in Pending(s) => n = sent[s] /\ s \in waiting \cup woken
      BY DEF Pending
    <2>4. m \in Elements(queue) \cup Elements(received) \cup dead
            => n <= sent[s] /\ (s \in waiting \cup woken => n < sent[s])
      BY <2>1 DEF IInv, SettledInv, Settled
    <2>5. ~(m \in Elements(received) /\ m \in Elements(queue))
      BY <2>1 DEF HInv, OrderInv, Before
    <2>6. ~(m \in dead /\ (m \in Elements(queue) \/ m \in Elements(received)))
      BY DEF HInv, PlacesInv
    <2>7. CASE n <= sent[s]
      <3>1. m \in Pending(s) \cup Elements(queue) \cup Elements(received) \cup dead
        BY <2>1, <2>7 DEF HInv, PlacesInv, Somewhere
      <3>2. P = {"pending"} \/ P = {"queued"} \/ P = {"handled"} \/ P = {"dead"}
        <4>1. CASE m \in Pending(s)
          <5>1. "pending" \in P /\ P \cap {"queued", "handled", "dead"} = {}
            BY <2>1, <2>2, <2>3, <2>4, <2>5, <2>6, <4>1
          <5> QED
            BY <2>2, <5>1
        <4>2. CASE m \in Elements(queue)
          <5>1. "queued" \in P /\ P \cap {"pending", "handled", "dead"} = {}
            BY <2>1, <2>2, <2>3, <2>4, <2>5, <2>6, <4>2
          <5> QED
            BY <2>2, <5>1
        <4>3. CASE m \in Elements(received)
          <5>1. "handled" \in P /\ P \cap {"pending", "queued", "dead"} = {}
            BY <2>1, <2>2, <2>3, <2>4, <2>5, <2>6, <4>3
          <5> QED
            BY <2>2, <5>1
        <4>4. CASE m \in dead
          <5>1. "dead" \in P /\ P \cap {"pending", "queued", "handled"} = {}
            BY <2>1, <2>2, <2>3, <2>4, <2>5, <2>6, <4>4
          <5> QED
            BY <2>2, <5>1
        <4> QED
          BY <3>1, <4>1, <4>2, <4>3, <4>4
      <3> QED
        BY <2>7, <3>2, FS_Singleton DEF P
    <2>8. CASE ~(n <= sent[s])
      <3>1. P = {}
        BY <2>1, <2>2, <2>3, <2>4, <2>8
      <3> QED
        BY <2>8, <3>1, FS_EmptySet DEF P
    <2> QED
      BY <2>7, <2>8
  <1> QED
    BY <1>1, Invariance, HInvariance, PTL
=============================================================================
