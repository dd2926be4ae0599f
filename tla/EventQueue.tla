----------------------------- MODULE EventQueue -----------------------------
(***************************************************************************)
(* src/events/event_queue.c: the ring buffer between the hotkey processor  *)
(* and whoever drains keyboard events.  The head is where the next event   *)
(* is written and the tail where the oldest is read; one slot stays free,  *)
(* so that head = tail means empty.                                        *)
(***************************************************************************)
EXTENDS Naturals, Sequences

CONSTANTS Events,      \* keyboard events that are pushed
          NoEvent,     \* the event_none record
          QueueSize    \* queue_size, 32 in the source

(* queue_head and queue_tail are uint8_t, so the source's arithmetic is
   right only while every index of the array is one. *)
ASSUME QueueAssumption == QueueSize \in 2..255 /\ NoEvent \notin Events

VARIABLES event_queue, queue_head, queue_tail,
          returned,    \* result of the last get_next_event
          resets       \* parity of the calls of reset_event_queue, which
                       \* tells a reset from an event that was lost

vars == <<event_queue, queue_head, queue_tail, returned, resets>>

Index == 0..(QueueSize - 1)

(* A static array starts zeroed, and a zeroed keyboard_event is event_none. *)
Init ==
  /\ event_queue = [i \in Index |-> NoEvent]
  /\ queue_head = 0
  /\ queue_tail = 0
  /\ returned = NoEvent
  /\ resets = 0

reset_event_queue ==
  /\ queue_head' = 0
  /\ queue_tail' = 0
  /\ resets' = 1 - resets
  /\ UNCHANGED <<event_queue, returned>>

(* Mutant of NextHead: the index runs on past the end of the array. *)
NextHeadPastEnd(head) ==
  LET next == (head + 1) % 256
  IN  IF next > QueueSize THEN 0 ELSE next

(* (uint8_t)(queue_head + 1), wrapped by the comparison with queue_size. *)
NextHead(head) ==
  LET next == (head + 1) % 256
  IN  IF next = QueueSize THEN 0 ELSE next

Full == NextHead(queue_head) = queue_tail

(* Mutant of push_event: no test for a full ring, so the head runs over the tail. *)
PushOverTail(evt) ==
  /\ event_queue' = [event_queue EXCEPT ![queue_head] = evt]
  /\ queue_head' = NextHead(queue_head)
  /\ UNCHANGED <<queue_tail, returned, resets>>

push_event(evt) ==
  /\ IF Full
     THEN UNCHANGED <<event_queue, queue_head>>
     ELSE /\ event_queue' = [event_queue EXCEPT ![queue_head] = evt]
          /\ queue_head' = NextHead(queue_head)
  /\ UNCHANGED <<queue_tail, returned, resets>>

get_next_event ==
  /\ IF queue_tail = queue_head
     THEN /\ returned' = NoEvent
          /\ UNCHANGED queue_tail
     ELSE /\ returned' = event_queue[queue_tail]
          /\ queue_tail' = (queue_tail + 1) % QueueSize
  /\ UNCHANGED <<event_queue, queue_head, resets>>

Next ==
  \/ \E evt \in Events : push_event(evt)
  \/ get_next_event
  \/ reset_event_queue

Spec == Init /\ [][Next]_vars

-----------------------------------------------------------------------------
(* How many events lie between the tail and the head, going round the ring. *)
Used ==
  IF queue_head >= queue_tail
  THEN queue_head - queue_tail
  ELSE QueueSize - queue_tail + queue_head

(* The slot i places after the tail. *)
SlotAfter(i) ==
  IF queue_tail + i < QueueSize THEN queue_tail + i ELSE queue_tail + i - QueueSize

(* The events the ring holds, oldest first. *)
Queued == [i \in 1..Used |-> event_queue[SlotAfter(i - 1)]]

(* Type invariant: the indices stay inside the array. *)
TypeOK ==
  /\ event_queue \in [Index -> Events \cup {NoEvent}]
  /\ queue_head \in Index
  /\ queue_tail \in Index
  /\ returned \in Events \cup {NoEvent}
  /\ resets \in {0, 1}

(* No stale slot is ever taken for an event: everything between the tail and
   the head was pushed by a caller of push_event since the last reset. *)
QueuedAreEvents == \A i \in 1..Used : Queued[i] \in Events

(* event_queue.c implements a bounded first-in first-out queue that holds one
   event less than the array has slots: nothing is reordered, duplicated,
   overwritten when the ring wraps, or invented by a pop of an empty ring. *)
Fifo == INSTANCE BoundedFifo
          WITH fifo <- Queued, answer <- returned, lap <- resets,
               Capacity <- QueueSize - 1

ImplementsFifo == Fifo!FifoSpec
=============================================================================
