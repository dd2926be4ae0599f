--------------------------- MODULE CoopScheduler ---------------------------
(***************************************************************************)
(* The process table of src/process/process.c and the scheduler of         *)
(* src/process/process_scheduler.c as the PC builds them: one thread, no   *)
(* mutex, and a scheduler that runs a process by calling its entry point.  *)
(* Each function is one action.  What the entry point does while           *)
(* scheduler_run is still on the stack (create, terminate, block, yield)   *)
(* are the actions that follow it.                                         *)
(***************************************************************************)
EXTENDS Integers, FiniteSets

CONSTANTS
  MaxProcesses,   \* max_processes, 16 in the source
  PidValues,      \* how many values a process_id_t has, 256 in the source
  Priorities,     \* priorities given to process_create, of 0..2
  SetStates       \* states callers give a process by process_set_state

States == {"ready", "running", "waiting", "blocked", "terminated"}

ASSUME SchedulerAssumption ==
  /\ MaxProcesses \in 1..255
  /\ PidValues \in 2..256
  /\ Priorities \subseteq 0..2
  /\ SetStates \subseteq States

VARIABLES
  process_table,  \* the PCBs: pid, state, priority, active
  next_pid,
  process_count,
  current_pid,
  expired,        \* schedule_quantum_ms have passed since the last switch
  strays          \* history, read by no action: the slots whose state may not
                  \* be the scheduler's doing, because another live process had
                  \* the same pid or because a caller set the state to running

vars == <<process_table, next_pid, process_count, current_pid, expired, strays>>

Slot == 0..(MaxProcesses - 1)
Pids == 0..(PidValues - 1)

Init ==
  /\ process_table = [s \in Slot |-> [pid |-> 0, state |-> "terminated",
                                      priority |-> 1, active |-> FALSE]]
  /\ next_pid = 1
  /\ process_count = 0
  /\ current_pid = 0
  /\ expired = FALSE
  /\ strays = {}

FreeSlots == {s \in Slot : ~process_table[s].active}
Least(S) == CHOOSE s \in S : \A t \in S : s <= t

(* The live processes that have a pid, and the one of them process_set_state,
   process_get_pcb and process_terminate find: the one in the first slot. *)
SlotsOf(pid) == {s \in Slot : process_table[s].active /\ process_table[s].pid = pid}
Found(pid) == Least(SlotsOf(pid))

(* process_set_state, which does nothing for a pid nobody has *)
WithState(pid, state) ==
  [s \in Slot |-> IF SlotsOf(pid) # {} /\ s = Found(pid)
                  THEN [process_table[s] EXCEPT !.state = state]
                  ELSE process_table[s]]

-----------------------------------------------------------------------------
(* next_pid is a uint8_t and is not compared with anything: it comes round to
   0, "invalid" in line 9, and to pids that live processes have. *)
process_create(priority) ==
  /\ process_count < MaxProcesses
  /\ FreeSlots # {}
  /\ process_table' = [process_table EXCEPT ![Least(FreeSlots)] =
                         [pid |-> next_pid, state |-> "ready",
                          priority |-> priority, active |-> TRUE]]
  /\ next_pid' = (next_pid + 1) % PidValues
  /\ process_count' = process_count + 1
  /\ strays' = (strays \ {Least(FreeSlots)})
                 \cup (IF SlotsOf(next_pid) = {} THEN {}
                       ELSE SlotsOf(next_pid) \cup {Least(FreeSlots)})
  /\ UNCHANGED <<current_pid, expired>>

(* Mutant of process_terminate: the count is taken off again for a pid that
   is not in the table. *)
TerminateCountsUnknown(pid) ==
  /\ process_table' = [s \in Slot |-> IF s \in SlotsOf(pid)
                         THEN [process_table[s] EXCEPT !.state = "terminated", !.active = FALSE]
                         ELSE process_table[s]]
  /\ process_count' = process_count - 1
  /\ UNCHANGED <<next_pid, current_pid, expired, strays>>

(* current_pid is not cleared when the current process is terminated. *)
process_terminate(pid) ==
  /\ SlotsOf(pid) # {}
  /\ process_table' = [process_table EXCEPT ![Found(pid)].state = "terminated",
                                            ![Found(pid)].active = FALSE]
  /\ process_count' = process_count - 1
  /\ UNCHANGED <<next_pid, current_pid, expired, strays>>

(* Every state is accepted, "running" too, and current_pid stays. *)
process_set_state(pid, state) ==
  /\ SlotsOf(pid) # {}
  /\ process_table' = WithState(pid, state)
  /\ strays' = IF state = "running" THEN strays \cup {Found(pid)} ELSE strays
  /\ UNCHANGED <<next_pid, process_count, current_pid, expired>>

(* Whatever state the current process is in, a blocked one too, it is ready. *)
process_yield ==
  /\ current_pid # 0
  /\ process_table' = WithState(current_pid, "ready")
  /\ current_pid' = 0
  /\ UNCHANGED <<next_pid, process_count, expired, strays>>

-----------------------------------------------------------------------------
CurrentRuns ==
  /\ current_pid # 0 /\ SlotsOf(current_pid) # {}
  /\ process_table[Found(current_pid)].state = "running"

(* The current process goes back to ready when its time slice is over. *)
AfterSlice == IF CurrentRuns THEN WithState(current_pid, "ready") ELSE process_table

ReadySlots(table) == {s \in Slot : table[s].active /\ table[s].state = "ready"}

(* Mutant of find_next_ready: the first ready process, whatever its priority. *)
FirstReady(table) ==
  IF ReadySlots(table) = {} THEN 0 ELSE table[Least(ReadySlots(table))].pid


(* find_next_ready_process: of the ready processes with the highest priority
   the one in the first slot; 0 when none is ready, and when that one's pid is 0 *)
find_next_ready(table) ==
  LET top == {s \in ReadySlots(table) :
                \A t \in ReadySlots(table) : table[t].priority <= table[s].priority}
  IN  IF top = {} THEN 0 ELSE table[Least(top)].pid

scheduler_idle ==
  /\ find_next_ready(AfterSlice) = 0
  /\ current_pid' = 0
  /\ process_table' = AfterSlice
  /\ UNCHANGED expired

(* Line 134: the process that was current is not run again. *)
scheduler_keeps ==
  /\ current_pid # 0
  /\ find_next_ready(AfterSlice) = current_pid
  /\ process_table' = AfterSlice
  /\ UNCHANGED <<current_pid, expired>>

(* Mutant of scheduler_switch: the process whose slice is over stays running. *)
SwitchWithoutSlice ==
  LET next == find_next_ready(process_table)
  IN  /\ next \notin {0, current_pid}
      /\ process_table' = WithState(next, "running")
      /\ current_pid' = next
      /\ expired' = FALSE

(* AfterSlice moves no pid, so the slot set running is the one found before:
   with a shared pid not always the one find_next_ready_process chose. *)
scheduler_switch ==
  LET next == find_next_ready(AfterSlice)
  IN  /\ next \notin {0, current_pid}
      /\ process_table' = [AfterSlice EXCEPT ![Found(next)].state = "running"]
      /\ current_pid' = next
      /\ expired' = FALSE

scheduler_run ==
  /\ CurrentRuns => expired
  /\ scheduler_idle \/ scheduler_keeps \/ scheduler_switch
  /\ UNCHANGED <<next_pid, process_count, strays>>

(* get_time_ms() moves past the time slice. *)
quantum_passes ==
  /\ ~expired
  /\ expired' = TRUE
  /\ UNCHANGED <<process_table, next_pid, process_count, current_pid, strays>>

Next ==
  \/ \E p \in Priorities : process_create(p)
  \/ \E pid \in Pids : process_terminate(pid)
  \/ \E pid \in Pids : \E state \in SetStates : process_set_state(pid, state)
  \/ process_yield
  \/ scheduler_run
  \/ quantum_passes

(* No fairness: the PC program's main loop waits in the keyboard's read() and
   never calls the scheduler; only the tests do. *)
Spec == Init /\ [][Next]_vars

(* What the header asks of whoever uses the scheduler: scheduler_tick, which does
   no more than scheduler_run, is "called periodically" (process_scheduler.h:16),
   while the clock goes on. *)
CalledPeriodically == Spec /\ WF_vars(scheduler_run) /\ WF_vars(quantum_passes)

-----------------------------------------------------------------------------
(* The counter process_create consults is the number of slots in use. *)
CountMatches == process_count = MaxProcesses - Cardinality(FreeSlots)

(* Type invariant. *)
TypeOK ==
  /\ process_table \in [Slot -> [pid : Pids, state : States,
                                 priority : Priorities \cup {1}, active : BOOLEAN]]
  /\ next_pid \in Pids
  /\ CountMatches
  /\ current_pid \in Pids
  /\ expired \in BOOLEAN
  /\ strays \subseteq Slot

(* One thread: a process that is marked running is the current one, however
   processes are created, ended, blocked, yielded and switched.  Two things let
   the mark stay on a process the scheduler has turned from: a caller that set it
   by process_set_state, and a pid that came round to another live process. *)
RunningIsCurrent ==
  \A s \in Slot \ strays :
    process_table[s].active /\ process_table[s].state = "running" =>
      process_table[s].pid = current_pid

(* "higher priority processes get scheduled first" (line 89): when the scheduler
   turns to a process, and no other live process has its pid, no process of a
   higher priority is ready. *)
PriorityRespected ==
  [][current_pid' \notin {0, current_pid} =>
       \A s \in Slot : SlotsOf(current_pid') = {s} =>
         \A t \in ReadySlots(process_table) :
           process_table[t].priority <= process_table[s].priority]_vars

(* "simple round-robin scheduler with priority" (line 88): processes of one
   priority take turns, so none of them stays ready for ever, even before pids
   come round. *)
TakesTurns ==
  Cardinality(Priorities) = 1 /\ [](next_pid # 0) =>
    \A s \in Slot : s \in ReadySlots(process_table) ~> s \notin ReadySlots(process_table)
=============================================================================
