-------------------------- MODULE EventQueueProofs --------------------------
(***************************************************************************)
(* Proofs about EventQueue for every queue size and every set of events:   *)
(* the ring buffer implements a bounded FIFO.                              *)
(***************************************************************************)
EXTENDS EventQueue, SequenceTheorems, TLAPS

(* Advancing an index by one modulo the size of the ring. *)
LEMMA WrapOne ==
  ASSUME NEW t \in Index
  PROVE  (t + 1) % QueueSize = IF t + 1 = QueueSize THEN 0 ELSE t + 1
  BY QueueAssumption DEF Index

(* The head's wrap, done with a comparison, is the tail's wrap, done with a
   remainder: the two indices run round the same ring. *)
LEMMA NextHeadWraps ==
  ASSUME NEW h \in Index
  PROVE  /\ NextHead(h) = IF h + 1 = QueueSize THEN 0 ELSE h + 1
         /\ NextHead(h) \in Index
  BY QueueAssumption DEF Index, NextHead

LEMMA InitTypeOK == Init => TypeOK
  BY QueueAssumption DEF Init, TypeOK, Index

LEMMA NextTypeOK == TypeOK /\ [Next]_vars => TypeOK'
  <1> SUFFICES ASSUME TypeOK, [Next]_vars PROVE TypeOK'
    OBVIOUS
  <1>1. ASSUME NEW evt \in Events, push_event(evt) PROVE TypeOK'
    BY <1>1, NextHeadWraps DEF push_event, TypeOK
  <1>2. CASE get_next_event
    BY <1>2, WrapOne, QueueAssumption DEF get_next_event, TypeOK, Index
  <1>3. CASE reset_event_queue
    BY <1>3, QueueAssumption DEF reset_event_queue, TypeOK, Index
  <1>4. CASE UNCHANGED vars
    BY <1>4 DEF vars, TypeOK
  <1>5. QED
    BY <1>1, <1>2, <1>3, <1>4 DEF Next

(* The indices of event_queue.c never leave the array. *)
THEOREM TypeCorrect == Spec => []TypeOK
  BY InitTypeOK, NextTypeOK, PTL DEF Spec

-----------------------------------------------------------------------------
(* What Used counts: a number from zero to one less than the array's size. *)
LEMMA UsedBounds ==
  ASSUME TypeOK
  PROVE  Used \in 0..(QueueSize - 1)
  BY QueueAssumption DEF TypeOK, Used, Index

LEMMA QueuedType ==
  ASSUME TypeOK
  PROVE  /\ Queued \in Seq(Events \cup {NoEvent})
         /\ Len(Queued) = Used
         /\ Used \in Nat
         /\ \A i \in 1..Used : Queued[i] = event_queue[SlotAfter(i - 1)]
         /\ \A i \in 1..Used : SlotAfter(i - 1) \in Index
  <1>1. \A i \in 1..Used : SlotAfter(i - 1) \in Index
    BY UsedBounds, QueueAssumption DEF SlotAfter, TypeOK, Index
  <1>2. Used \in Nat
    BY UsedBounds, QueueAssumption
  <1>3. \A i \in 1..Used : event_queue[SlotAfter(i - 1)] \in Events \cup {NoEvent}
    BY <1>1 DEF TypeOK
  <1>4. QED
    BY <1>1, <1>2, <1>3 DEF Queued

(* A push on a full ring leaves the queue alone; on any other it appends. *)
LEMMA PushAppends ==
  ASSUME TypeOK, NEW evt \in Events, push_event(evt)
  PROVE  Fifo!Put(evt)
  <1> USE QueueAssumption
  <1>1. TypeOK'
    BY NextTypeOK DEF Next
  <1>2. CASE Full
    <2>1. Used = QueueSize - 1
      <3>1. queue_tail = IF queue_head + 1 = QueueSize THEN 0 ELSE queue_head + 1
        BY <1>2, NextHeadWraps DEF Full, TypeOK
      <3>2. QED
        BY <3>1 DEF Used, TypeOK, Index
    <2>2. Queued' = Queued
      BY <1>2 DEF push_event, Queued, Used, SlotAfter
    <2>3. ~(Len(Queued) < QueueSize - 1)
      BY <2>1, QueuedType
    <2>4. QED
      BY <2>2, <2>3 DEF Fifo!Put, push_event
  <1>3. CASE ~Full
    <2>1. Used < QueueSize - 1 /\ Used' = Used + 1
      <3>1. /\ queue_head' = IF queue_head + 1 = QueueSize THEN 0 ELSE queue_head + 1
            /\ queue_head' # queue_tail
            /\ queue_tail' = queue_tail
        BY <1>3, NextHeadWraps DEF Full, TypeOK, push_event
      <3>2. QED
        BY <3>1 DEF Used, TypeOK, Index
    <2>2. SlotAfter(Used) = queue_head
      BY DEF SlotAfter, Used, TypeOK, Index
    <2>3. \A i \in 1..Used : SlotAfter(i - 1) # queue_head
      BY DEF SlotAfter, Used, TypeOK, Index
    <2>4. \A i \in 1..Used' : SlotAfter(i - 1)' = SlotAfter(i - 1)
      BY DEF SlotAfter, push_event
    <2>5. \A i \in 1..Used' : Queued'[i] = Append(Queued, evt)[i]
      <3>1. event_queue' = [event_queue EXCEPT ![queue_head] = evt]
        BY <1>3 DEF push_event
      <3>2. TAKE i \in 1..Used'
      <3>3. Queued'[i] = event_queue'[SlotAfter(i - 1)]
        BY <1>1, <2>4, QueuedType DEF Queued
      <3>4. CASE i = Used + 1
        <4>1. Queued'[i] = evt
          BY <3>1, <3>3, <3>4, <2>2, QueuedType DEF TypeOK
        <4>2. Append(Queued, evt)[i] = evt
          BY <3>4, QueuedType
        <4>3. QED
          BY <4>1, <4>2
      <3>5. CASE i \in 1..Used
        <4>1. Queued'[i] = event_queue[SlotAfter(i - 1)]
          BY <3>1, <3>3, <3>5, <2>3, QueuedType DEF TypeOK
        <4>2. Append(Queued, evt)[i] = Queued[i]
          BY <3>5, QueuedType
        <4>3. QED
          BY <4>1, <4>2, <3>5, QueuedType
      <3>6. QED
        BY <3>4, <3>5, <2>1, QueuedType
    <2>6. Queued' = Append(Queued, evt)
      <3>1. Queued' = [i \in 1..(Used + 1) |-> Queued'[i]]
        BY <2>1 DEF Queued
      <3>2. Append(Queued, evt) = [i \in 1..(Used + 1) |-> Append(Queued, evt)[i]]
        <4>1. /\ Append(Queued, evt) \in Seq(Events \cup {NoEvent})
              /\ Len(Append(Queued, evt)) = Used + 1
          BY QueuedType, AppendProperties
        <4>2. Append(Queued, evt) \in [1..(Used + 1) -> Events \cup {NoEvent}]
          BY <4>1, LenProperties
        <4>3. QED
          BY <4>2
      <3>3. QED
        BY <3>1, <3>2, <2>5, <2>1
    <2>7. Len(Queued) < QueueSize - 1
      BY <2>1, QueuedType
    <2>8. QED
      BY <2>6, <2>7 DEF Fifo!Put, push_event
  <1>4. QED
    BY <1>2, <1>3

(* A pop answers event_none exactly when the queue is empty, and otherwise
   takes the oldest event. *)
LEMMA PopTakesOldest ==
  ASSUME TypeOK, get_next_event
  PROVE  Fifo!Get
  <1> USE QueueAssumption
  <1>1. CASE queue_tail = queue_head
    <2>1. Used = 0
      BY <1>1 DEF Used, TypeOK, Index
    <2>2. Queued = <<>>
      BY <2>1, QueuedType
    <2>3. Queued' = Queued
      BY <1>1 DEF get_next_event, Queued, Used, SlotAfter
    <2>4. QED
      BY <1>1, <2>2, <2>3 DEF Fifo!Get, get_next_event
  <1>2. CASE queue_tail # queue_head
    <2>1. TypeOK'
      BY NextTypeOK DEF Next
    <2>2. queue_tail' = IF queue_tail + 1 = QueueSize THEN 0 ELSE queue_tail + 1
      BY <1>2, WrapOne DEF get_next_event, TypeOK
    <2>3. Used \in 1..(QueueSize - 1) /\ Used' = Used - 1
      BY <1>2, <2>2 DEF Used, TypeOK, Index, get_next_event
    <2>4. Queued # <<>> /\ Head(Queued) = event_queue[queue_tail]
      <3>1. SlotAfter(0) = queue_tail
        BY DEF SlotAfter, TypeOK, Index
      <3>2. Queued[1] = event_queue[queue_tail]
        BY <2>3, <3>1, QueuedType
      <3>3. QED
        BY <3>2, <2>3, QueuedType
    <2>5. \A i \in 1..(Used - 1) : SlotAfter(i - 1)' = SlotAfter(i)
      BY <2>2, <2>3 DEF SlotAfter, TypeOK, Index
    <2>6. Queued' = Tail(Queued)
      <3>1. Queued' = [i \in 1..(Used - 1) |-> event_queue[SlotAfter(i - 1)']]
        BY <2>3, <1>2 DEF Queued, get_next_event
      <3>2. Tail(Queued) = [i \in 1..(Used - 1) |-> Queued[i + 1]]
        <4>1. /\ Tail(Queued) \in Seq(Events \cup {NoEvent})
              /\ Len(Tail(Queued)) = Used - 1
              /\ \A i \in 1..(Used - 1) : Tail(Queued)[i] = Queued[i + 1]
          BY <2>4, QueuedType, HeadTailProperties
        <4>2. Tail(Queued) \in [1..(Used - 1) -> Events \cup {NoEvent}]
          BY <4>1, LenProperties
        <4>3. QED
          BY <4>1, <4>2
      <3>3. \A i \in 1..(Used - 1) : Queued[i + 1] = event_queue[SlotAfter(i)]
        <4>1. \A i \in 1..(Used - 1) : i + 1 \in 1..Used /\ (i + 1) - 1 = i
          BY <2>3
        <4>2. QED
          BY <4>1, QueuedType
      <3>4. QED
        BY <3>1, <3>2, <3>3, <2>5
    <2>7. QED
      BY <1>2, <2>4, <2>6 DEF Fifo!Get, get_next_event
  <1>3. QED
    BY <1>1, <1>2

LEMMA ResetForgets ==
  ASSUME TypeOK, reset_event_queue
  PROVE  Fifo!Forget
  <1>1. Used' = 0 /\ TypeOK'
    BY NextTypeOK DEF reset_event_queue, Used, Next
  <1>2. Queued' = <<>>
    BY <1>1 DEF Queued
  <1>3. QED
    BY <1>2 DEF Fifo!Forget, reset_event_queue

(* event_queue.c implements the bounded FIFO, whatever the queue size: this
   is the property ImplementsFifo of the run event_queue. *)
THEOREM RingImplementsFifo == Spec => ImplementsFifo
  <1>1. Init => Fifo!FifoInit
    <2> SUFFICES ASSUME Init PROVE Fifo!FifoInit
      OBVIOUS
    <2>1. Used = 0
      BY DEF Init, Used
    <2>2. Queued = <<>>
      BY <2>1 DEF Queued
    <2>3. QED
      BY <2>2 DEF Init, Fifo!FifoInit
  <1>2. TypeOK /\ [Next]_vars => [Fifo!FifoNext]_Fifo!fifoVars
    <2> SUFFICES ASSUME TypeOK, [Next]_vars
                 PROVE  [Fifo!FifoNext]_Fifo!fifoVars
      OBVIOUS
    <2>1. ASSUME NEW evt \in Events, push_event(evt) PROVE Fifo!FifoNext
      BY <2>1, PushAppends DEF Fifo!FifoNext
    <2>2. CASE get_next_event
      BY <2>2, PopTakesOldest DEF Fifo!FifoNext
    <2>3. CASE reset_event_queue
      BY <2>3, ResetForgets DEF Fifo!FifoNext
    <2>4. CASE UNCHANGED vars
      BY <2>4 DEF vars, Fifo!fifoVars, Queued, Used, SlotAfter
    <2>5. QED
      BY <2>1, <2>2, <2>3, <2>4 DEF Next
  <1>3. QED
    BY <1>1, <1>2, TypeCorrect, PTL DEF Spec, ImplementsFifo, Fifo!FifoSpec
-----------------------------------------------------------------------------
(* QueuedAreEvents, read as a statement about the sequence the ring holds. *)
LEMMA QueuedInSeq ==
  TypeOK => (QueuedAreEvents <=> Queued \in Seq(Events))
  <1> SUFFICES ASSUME TypeOK
               PROVE  QueuedAreEvents <=> Queued \in Seq(Events)
    OBVIOUS
  <1>1. QueuedAreEvents => Queued \in Seq(Events)
    BY QueuedType DEF QueuedAreEvents, Queued
  <1>2. Queued \in Seq(Events) => QueuedAreEvents
    BY QueuedType, ElementOfSeq DEF QueuedAreEvents
  <1>3. QED
    BY <1>1, <1>2

(* Whatever is between tail and head was pushed since the last reset: no slot
   left over from an earlier lap of the ring is ever delivered. *)
THEOREM OnlyPushedEvents == Spec => []QueuedAreEvents
  <1>1. Init => QueuedAreEvents
    BY DEF Init, QueuedAreEvents, Used
  <1>2. TypeOK /\ TypeOK' /\ QueuedAreEvents /\ [Next]_vars => QueuedAreEvents'
    <2> SUFFICES ASSUME TypeOK, TypeOK', Queued \in Seq(Events), [Next]_vars
                 PROVE  Queued' \in Seq(Events)
      <3>1. (TypeOK => (QueuedAreEvents <=> Queued \in Seq(Events)))'
        BY QueuedInSeq, PTL
      <3>2. QED
        BY <3>1, QueuedInSeq
    <2>1. ASSUME NEW evt \in Events, push_event(evt)
          PROVE  Queued' \in Seq(Events)
      BY <2>1, PushAppends, AppendProperties DEF Fifo!Put
    <2>2. CASE get_next_event
      BY <2>2, PopTakesOldest, HeadTailProperties DEF Fifo!Get
    <2>3. CASE reset_event_queue
      BY <2>3, ResetForgets DEF Fifo!Forget
    <2>4. CASE UNCHANGED vars
      BY <2>4 DEF vars, Queued, Used, SlotAfter
    <2>5. QED
      BY <2>1, <2>2, <2>3, <2>4 DEF Next
  <1>3. QED
    BY <1>1, <1>2, TypeCorrect, PTL DEF Spec
=============================================================================
