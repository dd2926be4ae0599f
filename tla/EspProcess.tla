----------------------------- MODULE EspProcess -----------------------------
(***************************************************************************)
(* src/process/process.c as the ESP32 firmware builds it: the process      *)
(* table, process_create and the wrapper every process runs in, with both  *)
(* cores and the FreeRTOS scheduler free to interleave them.  A critical   *)
(* section under process_table_mutex is one action; what process.c does    *)
(* outside the mutex is a step of its own.                                 *)
(*                                                                         *)
(* External: xTaskCreate, thread-local storage and vTaskDelete.  A handle  *)
(* is the address of a task control block, so it comes back into use after *)
(* its task was deleted.  process_terminate is not modelled: the firmware  *)
(* never calls it.                                                         *)
(***************************************************************************)
EXTENDS Integers, FiniteSets

CONSTANTS
  Creators,      \* tasks that call process_create (the Arduino loop task)
  Handles,       \* control blocks FreeRTOS has memory for
  MaxProcesses,  \* max_processes, 16 in the source
  PidModulus,    \* 256: process_id_t is a uint8_t
  NULL

(* process_count is a uint8_t: it must tell a full table from one below zero. *)
ASSUME ProcessAssumption ==
  /\ MaxProcesses \in 1..127
  /\ PidModulus \in Nat \ {0}
  /\ IsFiniteSet(Creators) /\ IsFiniteSet(Handles) /\ Creators \cap Handles = {}
  /\ NULL \notin Creators \cup Handles \cup Int

VARIABLES
  process_table,  \* the PCBs: pid, state, active, entry_point, task_handle
  next_pid,
  process_count,
  creator,        \* where each creator is in process_create, and its locals
  task,           \* where each FreeRTOS task is in process_task_wrapper
  tls             \* thread-local storage 0 of every task

vars == <<process_table, next_pid, process_count, creator, task, tls>>

CountModulus == 256   \* process_count is a uint8_t

Slot == 0..(MaxProcesses - 1)

FreePcb == [pid |-> 0, state |-> "terminated", active |-> FALSE,
            entry_point |-> FALSE, task_handle |-> NULL]

(* `made' is the pid the creator gave its process, `answer' what process_create
   returned, `seen' the handle it tested before it set the storage. *)
IdleCreator == [pc |-> "idle", slot |-> 0, seen |-> NULL, made |-> 0, answer |-> 0]

(* A control block not in use; `slot' is pvParameters, `pid' that of the
   process the task was created for. *)
NoTask == [pc |-> "none", slot |-> 0, pid |-> 0]

Init ==
  /\ process_table = [s \in Slot |-> FreePcb]
  /\ next_pid = 1 % PidModulus
  /\ process_count = 0
  /\ creator = [c \in Creators |-> IdleCreator]
  /\ task = [h \in Handles |-> NoTask]
  /\ tls = [t \in Creators \cup Handles |-> NULL]

(* Mutant of FreeSlots: a slot without a task is taken for free. *)
SlotsWithoutTask == {s \in Slot : process_table[s].task_handle = NULL}

FreeSlots == {s \in Slot : ~process_table[s].active}
Least(S) == CHOOSE s \in S : \A t \in S : s <= t

-----------------------------------------------------------------------------
(* process_create, up to where the mutex is given back for xTaskCreate *)
Refuses == process_count >= MaxProcesses \/ FreeSlots = {}

create_refused(c) ==
  /\ creator[c].pc = "idle"
  /\ Refuses
  /\ creator' = [creator EXCEPT ![c] = IdleCreator]
  /\ UNCHANGED <<process_table, next_pid, process_count, task, tls>>

(* Mutant of Reserved: the slot is marked in use only when it is counted. *)
ReservedLate(pid) == [FreePcb EXCEPT !.pid = pid, !.entry_point = TRUE]

Reserved(pid) ==
  [pid |-> pid, state |-> "ready", active |-> TRUE, entry_point |-> TRUE,
   task_handle |-> NULL]

create_reserve(c) ==
  /\ creator[c].pc = "idle"
  /\ ~Refuses
  /\ LET s == Least(FreeSlots)
     IN  /\ process_table' = [process_table EXCEPT ![s] = Reserved(next_pid)]
         /\ creator' = [creator EXCEPT ![c] = [IdleCreator EXCEPT
                          !.pc = "reserved", !.slot = s, !.made = next_pid]]
  /\ next_pid' = (next_pid + 1) % PidModulus
  /\ UNCHANGED <<process_count, task, tls>>

(* xTaskCreate stores the handle before the new task can run. *)
create_task(c) ==
  /\ creator[c].pc = "reserved"
  /\ \E h \in Handles :
       /\ task[h].pc = "none"
       /\ task' = [task EXCEPT ![h] =
                     [pc |-> "created", slot |-> creator[c].slot, pid |-> creator[c].made]]
       /\ tls' = [tls EXCEPT ![h] = NULL]
       /\ process_table' = [process_table EXCEPT ![creator[c].slot].task_handle = h]
  /\ creator' = [creator EXCEPT ![c].pc = "made"]
  /\ UNCHANGED <<next_pid, process_count>>

(* There may be no memory for the stack at any time. *)
create_task_fails(c) ==
  /\ creator[c].pc = "reserved"
  /\ creator' = [creator EXCEPT ![c].pc = "failed"]
  /\ UNCHANGED <<process_table, next_pid, process_count, task, tls>>

(* Line 170: the handle is tested, outside the mutex. *)
create_test_handle(c) ==
  /\ creator[c].pc = "made"
  /\ LET seen == process_table[creator[c].slot].task_handle
     IN  creator' = [creator EXCEPT ![c].seen = seen,
                                    ![c].pc = IF seen = NULL THEN "count" ELSE "store"]
  /\ UNCHANGED <<process_table, next_pid, process_count, task, tls>>

(* Lines 171-172: and read again, unless the compiler kept the first value.
   FreeRTOS takes a NULL handle for the calling task. *)
create_store_tls(c) ==
  /\ creator[c].pc = "store"
  /\ \E h \in {creator[c].seen, process_table[creator[c].slot].task_handle} :
       tls' = [tls EXCEPT ![IF h = NULL THEN c ELSE h] = creator[c].slot]
  /\ creator' = [creator EXCEPT ![c] = [@ EXCEPT !.pc = "count", !.seen = NULL]]
  /\ UNCHANGED <<process_table, next_pid, process_count, task>>

create_count(c) ==
  /\ creator[c].pc = "count"
  /\ process_count' = (process_count + 1) % CountModulus
  /\ creator' = [creator EXCEPT ![c] = [IdleCreator EXCEPT
                   !.answer = process_table[creator[c].slot].pid]]
  /\ UNCHANGED <<process_table, next_pid, task, tls>>

(* Lines 177-183: the slot keeps its entry point and its state. *)
create_undo(c) ==
  /\ creator[c].pc = "failed"
  /\ process_table' = [process_table EXCEPT
                         ![creator[c].slot] = [@ EXCEPT !.active = FALSE, !.pid = 0]]
  /\ creator' = [creator EXCEPT ![c] = IdleCreator]
  /\ UNCHANGED <<next_pid, process_count, task, tls>>

-----------------------------------------------------------------------------
(* process_task_wrapper.  A task function that returns ends in a panic. *)
wrapper_start(h) ==
  /\ task[h].pc = "created"
  /\ task' = [task EXCEPT ![h].pc =
                IF process_table[task[h].slot].entry_point THEN "started" ELSE "panic"]
  /\ UNCHANGED <<process_table, next_pid, process_count, creator, tls>>

wrapper_set_running(h) ==
  /\ task[h].pc = "started"
  /\ process_table' = [process_table EXCEPT ![task[h].slot].state = "running"]
  /\ task' = [task EXCEPT ![h].pc = "running"]
  /\ UNCHANGED <<next_pid, process_count, creator, tls>>

(* The pid stays in the slot. *)
Finished(pcb) ==
  [pcb EXCEPT !.state = "terminated", !.active = FALSE, !.entry_point = FALSE,
              !.task_handle = NULL]

(* Mutants of OneLess: the count stops at zero; it has a sign; the process
   that ends is not taken off it. *)
OneLessNotBelowZero(n) == IF n = 0 THEN 0 ELSE n - 1
OneLessSigned(n) == n - 1
OneLessForgotten(n) == n

(* process_count--, of a uint8_t *)
OneLess(n) == (n - 1) % CountModulus

(* The entry point returned, which system_idle_task never does. *)
wrapper_finish(h) ==
  /\ task[h].pc = "running"
  /\ process_table' = [process_table EXCEPT ![task[h].slot] = Finished(@)]
  /\ process_count' = OneLess(process_count)
  /\ task' = [task EXCEPT ![h].pc = "ended"]
  /\ UNCHANGED <<next_pid, creator, tls>>

(* vTaskDelete(NULL): the control block goes back to the heap. *)
wrapper_delete(h) ==
  /\ task[h].pc = "ended"
  /\ task' = [task EXCEPT ![h] = NoTask]
  /\ UNCHANGED <<process_table, next_pid, process_count, creator, tls>>

process_create(c) ==
  \/ create_refused(c) \/ create_reserve(c)
  \/ create_task(c) \/ create_task_fails(c)
  \/ create_test_handle(c) \/ create_store_tls(c)
  \/ create_count(c) \/ create_undo(c)

process_task_wrapper(h) ==
  \/ wrapper_start(h) \/ wrapper_set_running(h)
  \/ wrapper_finish(h) \/ wrapper_delete(h)

Next ==
  \/ \E c \in Creators : process_create(c)
  \/ \E h \in Handles : process_task_wrapper(h)

Spec == Init /\ [][Next]_vars

-----------------------------------------------------------------------------
(* scheduler_get_current of process_scheduler.c, called in task t: the PCB the
   storage points to, or without one the PCB that has the handle. *)

(* Mutant of scheduler_get_current: the storage is trusted. *)
get_current_unverified(t) ==
  IF tls[t] # NULL /\ process_table[tls[t]].active THEN process_table[tls[t]].pid ELSE 0

IsOf(s, t) == process_table[s].active /\ process_table[s].task_handle = t

scheduler_get_current(t) ==
  LET mine == IF tls[t] # NULL THEN {tls[t]} ELSE Slot
      hits == {s \in mine : IsOf(s, t)}
  IN  IF hits = {} THEN 0 ELSE process_table[Least(hits)].pid

-----------------------------------------------------------------------------
Living == {"created", "started", "running"}

(* Tasks that have not given their slot back. *)
Live == {h \in Handles : task[h].pc \in Living}

(* Creators whose task exists and is not counted yet. *)
Uncounted == {c \in Creators : creator[c].pc \in {"made", "store", "count"}}

Pid == 0..(PidModulus - 1)

(* process_control_block_t, as far as the ESP32 build uses it *)
Pcb == [pid : Pid, state : {"ready", "running", "terminated"}, active : BOOLEAN,
        entry_point : BOOLEAN, task_handle : Handles \cup {NULL}]

CreatorState ==
  [pc : {"idle", "reserved", "made", "store", "count", "failed"},
   slot : Slot, seen : Handles \cup {NULL}, made : Pid, answer : Pid]

TaskState == [pc : {"none", "ended", "panic"} \cup Living, slot : Slot, pid : Pid]

(* Type invariant. *)
TypeOK ==
  /\ process_table \in [Slot -> Pcb]
  /\ next_pid \in Pid
  /\ process_count \in 0..(CountModulus - 1)
  /\ creator \in [Creators -> CreatorState]
  /\ task \in [Handles -> TaskState]
  /\ tls \in [Creators \cup Handles -> Slot \cup {NULL}]

(* From xTaskCreate until its entry point has returned a process owns its PCB:
   no creator reuses the slot, undoes it or takes its pid away, although the
   mutex is released half way through process_create (line 158). *)
TaskOwnsSlot ==
  \A h \in Live :
    LET pcb == process_table[task[h].slot]
    IN  pcb.active /\ pcb.entry_point /\ pcb.task_handle = h /\ pcb.pid = task[h].pid

(* Between its two critical sections a creator whose task does not exist is the
   only one that knows its slot: no task runs in it, no creator shares it. *)
CreatorOwnsSlot ==
  \A c \in Creators : creator[c].pc \in {"reserved", "failed"} =>
    /\ process_table[creator[c].slot].active
    /\ process_table[creator[c].slot].entry_point
    /\ process_table[creator[c].slot].pid = creator[c].made
    /\ \A h \in Live : task[h].slot # creator[c].slot
    /\ \A d \in Creators \ {c} : creator[d].pc \in {"reserved", "failed"} =>
         creator[d].slot # creator[c].slot

(* process_count lags behind the table by exactly the creators that have not
   counted their task yet.  A process that ends before it was counted takes the
   counter below zero, to 255, and the late count brings it back. *)
CountExact ==
  (process_count + Cardinality(Uncounted)) % CountModulus = Cardinality(Live)

(* process_create never refuses for want of room while a slot is free, except
   in the instant when another creator's process has ended uncounted. *)
RefusedOnlyWhenFull ==
  process_count >= MaxProcesses /\ FreeSlots # {} => Uncounted # {}

(* A process that asks who it is learns its own pid or 0, and the creating
   tasks, which are not processes, learn 0: never the pid of another, even when
   lines 170-173 stored the PCB in the wrong task. *)
CurrentNeverForeign ==
  /\ \A h \in Live : scheduler_get_current(h) \in {task[h].pid, 0}
  /\ \A c \in Creators : scheduler_get_current(c) = 0

(* "start at 1, 0 is invalid" (line 9): no process has pid 0. *)
PidValid == \A s \in Slot : process_table[s].active => process_table[s].pid # 0
=============================================================================
