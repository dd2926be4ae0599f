---------------------------- MODULE BoundedFifo ----------------------------
(***************************************************************************)
(* What event_queue.h promises its callers: a first-in first-out queue of  *)
(* at most Capacity keyboard events.  A push on a full queue is dropped    *)
(* without a trace, a pop of an empty queue returns NoEvent (event_none),  *)
(* and a reset forgets everything that was queued.                         *)
(***************************************************************************)
EXTENDS Naturals, Sequences

CONSTANTS Events,     \* the keyboard events a hotkey can push
          NoEvent,    \* the event_none answer of an empty queue
          Capacity    \* how many events fit

VARIABLES fifo,       \* the queued events, oldest first
          answer,     \* what the last get_next_event returned
          lap         \* changes with every reset, and with nothing else

fifoVars == <<fifo, answer, lap>>

FifoInit == fifo = <<>> /\ answer = NoEvent /\ lap = 0

Put(e) ==
  /\ fifo' = IF Len(fifo) < Capacity THEN Append(fifo, e) ELSE fifo
  /\ UNCHANGED <<answer, lap>>

Get ==
  \/ /\ fifo = <<>>
     /\ answer' = NoEvent
     /\ UNCHANGED <<fifo, lap>>
  \/ /\ fifo # <<>>
     /\ answer' = Head(fifo)
     /\ fifo' = Tail(fifo)
     /\ UNCHANGED lap

Forget == fifo' = <<>> /\ lap' = 1 - lap /\ UNCHANGED answer

FifoNext == (\E e \in Events : Put(e)) \/ Get \/ Forget

FifoSpec == FifoInit /\ [][FifoNext]_fifoVars
=============================================================================
