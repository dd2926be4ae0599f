-------------------------- MODULE EspProcessProofs --------------------------
(***************************************************************************)
(* Proofs about EspProcess for any number of creating tasks, control       *)
(* blocks and slots: who owns a PCB while the mutex is free, and what      *)
(* process_count is worth.                                                 *)
(***************************************************************************)
EXTENDS EspProcess, WellFoundedInduction, FiniteSetTheorems, TLAPS

(* A nonempty set of naturals has a least element. *)
LEMMA LeastNatural ==
  ASSUME NEW S \in SUBSET Nat, S # {}
  PROVE  \E m \in S : \A k \in S : m <= k
  <1>1. PICK m \in S : \A k \in S : ~(<<k, m>> \in {ij \in Nat \X Nat : ij[1] < ij[2]})
    BY NatLessThanWellFounded, WFMin DEF OpToRel
  <1>2. \A k \in S : ~(k < m)
    BY <1>1
  <1>3. QED
    BY <1>2

(* Counting pids round their modulus stays below it. *)
LEMMA PidBelowModulus ==
  ASSUME NEW n \in Nat
  PROVE  n % PidModulus \in 0..(PidModulus - 1)
  BY ProcessAssumption

(* process_count-- stays in a byte. *)
LEMMA OneLessInByte ==
  ASSUME NEW n \in 0..(CountModulus - 1)
  PROVE  OneLess(n) \in 0..(CountModulus - 1)
  BY DEF OneLess, CountModulus

(* A PCB that is given back, by its process or by its creator, is a PCB. *)
LEMMA GivenBackPcb ==
  ASSUME NEW pcb \in Pcb
  PROVE  /\ Finished(pcb) \in Pcb
         /\ [pcb EXCEPT !.active = FALSE, !.pid = 0] \in Pcb
  <1>1. Finished(pcb) \in Pcb
    BY Zenon DEF Finished, Pcb
  <1>2. 0 \in Pid
    BY ProcessAssumption DEF Pid
  <1>3. [pcb EXCEPT !.active = FALSE, !.pid = 0] \in Pcb
    BY <1>2, Zenon DEF Pcb
  <1>4. QED
    BY <1>1, <1>3

LEMMA LeastFreeSlot ==
  ASSUME FreeSlots # {}
  PROVE  Least(FreeSlots) \in FreeSlots
  <1>1. FreeSlots \subseteq Nat
    BY DEF FreeSlots, Slot
  <1>2. PICK n \in FreeSlots : \A m \in FreeSlots : n <= m
    BY <1>1, LeastNatural
  <1>3. QED
    BY <1>2 DEF Least
-----------------------------------------------------------------------------
LEMMA InitTypeOK == Init => TypeOK
  <1> SUFFICES ASSUME Init PROVE TypeOK
    OBVIOUS
  <1>1. 0 \in Slot /\ 0 \in Pid /\ next_pid \in Pid
    BY ProcessAssumption, PidBelowModulus DEF Slot, Pid, Init
  <1>2. FreePcb \in Pcb /\ IdleCreator \in CreatorState /\ NoTask \in TaskState
    BY <1>1 DEF FreePcb, Pcb, IdleCreator, CreatorState, NoTask, TaskState
  <1>3. QED
    BY <1>1, <1>2 DEF Init, TypeOK, CountModulus

LEMMA NextTypeOK == TypeOK /\ [Next]_vars => TypeOK'
  <1> SUFFICES ASSUME TypeOK, [Next]_vars PROVE TypeOK'
    OBVIOUS
  <1> USE DEF Living
  <1>0. 0 \in Slot /\ 0 \in Pid
    BY ProcessAssumption DEF Slot, Pid
  <1>i. IdleCreator \in CreatorState /\ NoTask \in TaskState
    BY <1>0 DEF IdleCreator, CreatorState, NoTask, TaskState
  <1>1. ASSUME NEW c \in Creators, create_refused(c) PROVE TypeOK'
    BY <1>1, <1>i DEF create_refused, TypeOK
  <1>2. ASSUME NEW c \in Creators, create_reserve(c) PROVE TypeOK'
    <2>1. Least(FreeSlots) \in Slot
      BY <1>2, LeastFreeSlot DEF create_reserve, Refuses, FreeSlots
    <2>2. Reserved(next_pid) \in Pcb
      BY DEF Reserved, Pcb, TypeOK
    <2>3. [IdleCreator EXCEPT !.pc = "reserved", !.slot = Least(FreeSlots), !.made = next_pid]
            \in CreatorState
      BY <2>1, <1>0 DEF IdleCreator, CreatorState, TypeOK
    <2>4. next_pid' \in Pid
      <3>1. next_pid + 1 \in Nat
        BY ProcessAssumption DEF TypeOK, Pid
      <3>2. QED
        BY <1>2, <3>1, PidBelowModulus DEF create_reserve, Pid
    <2>5. process_table' \in [Slot -> Pcb] /\ creator' \in [Creators -> CreatorState]
      BY <1>2, <2>1, <2>2, <2>3 DEF create_reserve, TypeOK
    <2>6. QED
      BY <1>2, <2>4, <2>5 DEF create_reserve, TypeOK
  <1>3. ASSUME NEW c \in Creators, create_task(c) PROVE TypeOK'
    <2>1. PICK h \in Handles :
            /\ task' = [task EXCEPT ![h] =
                 [pc |-> "created", slot |-> creator[c].slot, pid |-> creator[c].made]]
            /\ tls' = [tls EXCEPT ![h] = NULL]
            /\ process_table' = [process_table EXCEPT ![creator[c].slot].task_handle = h]
      BY <1>3 DEF create_task
    <2>2. creator[c] \in CreatorState
      BY DEF TypeOK
    <2>3. process_table' \in [Slot -> Pcb]
      <3>1. creator[c].slot \in Slot
        BY <2>2 DEF CreatorState
      <3>2. [process_table[creator[c].slot] EXCEPT !.task_handle = h] \in Pcb
        BY <3>1 DEF TypeOK, Pcb
      <3>3. QED
        BY <2>1, <3>1, <3>2 DEF TypeOK
    <2>4. creator' \in [Creators -> CreatorState]
      BY <1>3 DEF create_task, TypeOK, CreatorState
    <2>5. task' \in [Handles -> TaskState]
      BY <2>1, <2>2 DEF TypeOK, TaskState, CreatorState
    <2>6. tls' \in [Creators \cup Handles -> Slot \cup {NULL}]
      BY <2>1 DEF TypeOK
    <2>7. QED
      BY <1>3, <2>3, <2>4, <2>5, <2>6 DEF create_task, TypeOK
  <1>4. ASSUME NEW c \in Creators, create_task_fails(c) PROVE TypeOK'
    BY <1>4 DEF create_task_fails, TypeOK, CreatorState
  <1>5. ASSUME NEW c \in Creators, create_test_handle(c) PROVE TypeOK'
    BY <1>5 DEF create_test_handle, TypeOK, CreatorState, Pcb
  <1>6. ASSUME NEW c \in Creators, create_store_tls(c) PROVE TypeOK'
    <2>1. PICK h \in {creator[c].seen, process_table[creator[c].slot].task_handle} :
            tls' = [tls EXCEPT ![IF h = NULL THEN c ELSE h] = creator[c].slot]
      BY <1>6 DEF create_store_tls
    <2>2. tls' \in [Creators \cup Handles -> Slot \cup {NULL}]
      BY <2>1 DEF TypeOK, CreatorState, Pcb
    <2>3. [creator[c] EXCEPT !.pc = "count", !.seen = NULL] \in CreatorState
      BY DEF TypeOK, CreatorState
    <2>4. QED
      BY <1>6, <2>2, <2>3 DEF create_store_tls, TypeOK
  <1>7. ASSUME NEW c \in Creators, create_count(c) PROVE TypeOK'
    <2>1. process_count' \in 0..(CountModulus - 1)
      BY <1>7 DEF create_count, TypeOK, CountModulus
    <2>2. process_table[creator[c].slot].pid \in Pid
      BY DEF TypeOK, CreatorState, Pcb
    <2>3. [IdleCreator EXCEPT !.answer = process_table[creator[c].slot].pid] \in CreatorState
      BY <2>2, <1>0 DEF IdleCreator, CreatorState
    <2>4. QED
      BY <1>7, <2>1, <2>3 DEF create_count, TypeOK
  <1>8. ASSUME NEW c \in Creators, create_undo(c) PROVE TypeOK'
    <2>0. creator[c].slot \in Slot
      BY DEF TypeOK, CreatorState
    <2>1. process_table' \in [Slot -> Pcb]
      <3>1. [process_table[creator[c].slot] EXCEPT !.active = FALSE, !.pid = 0] \in Pcb
        BY <2>0, GivenBackPcb DEF TypeOK
      <3>2. QED
        BY <1>8, <2>0, <3>1 DEF create_undo, TypeOK
    <2>2. QED
      BY <1>8, <1>i, <2>1 DEF create_undo, TypeOK
  <1>9. ASSUME NEW h \in Handles, wrapper_start(h) PROVE TypeOK'
    BY <1>9 DEF wrapper_start, TypeOK, TaskState
  <1>10. ASSUME NEW h \in Handles, wrapper_set_running(h) PROVE TypeOK'
    <2>1. process_table' \in [Slot -> Pcb]
      <3>1. task[h].slot \in Slot
        BY DEF TypeOK, TaskState
      <3>2. [process_table[task[h].slot] EXCEPT !.state = "running"] \in Pcb
        BY <3>1 DEF TypeOK, Pcb
      <3>3. QED
        BY <1>10, <3>1, <3>2 DEF wrapper_set_running, TypeOK
    <2>2. QED
      BY <1>10, <2>1 DEF wrapper_set_running, TypeOK, TaskState
  <1>11. ASSUME NEW h \in Handles, wrapper_finish(h) PROVE TypeOK'
    <2>1. process_table' \in [Slot -> Pcb]
      <3>1. task[h].slot \in Slot
        BY DEF TypeOK, TaskState
      <3>2. Finished(process_table[task[h].slot]) \in Pcb
        BY <3>1, GivenBackPcb DEF TypeOK
      <3>3. QED
        BY <1>11, <3>1, <3>2 DEF wrapper_finish, TypeOK
    <2>2. process_count' \in 0..(CountModulus - 1)
      BY <1>11, OneLessInByte DEF wrapper_finish, TypeOK
    <2>3. QED
      BY <1>11, <2>1, <2>2 DEF wrapper_finish, TypeOK, TaskState
  <1>12. ASSUME NEW h \in Handles, wrapper_delete(h) PROVE TypeOK'
    BY <1>12, <1>i DEF wrapper_delete, TypeOK
  <1>13. CASE UNCHANGED vars
    BY <1>13 DEF vars, TypeOK
  <1>14. QED
    BY <1>1, <1>2, <1>3, <1>4, <1>5, <1>6, <1>7, <1>8, <1>9, <1>10, <1>11, <1>12, <1>13
       DEF Next, process_create, process_task_wrapper

(* Every step keeps the table, the counters and the tasks' locals in range. *)
THEOREM TypeCorrect == Spec => []TypeOK
  BY InitTypeOK, NextTypeOK, PTL DEF Spec
-----------------------------------------------------------------------------
(* What the ownership of slots rests on: the handle in a PCB in use is that of
   a living task, and the task knows the PCB as its own. *)
HandlesLive ==
  \A s \in Slot : process_table[s].active /\ process_table[s].task_handle # NULL =>
    /\ process_table[s].task_handle \in Live
    /\ task[process_table[s].task_handle].slot = s

Owned == TaskOwnsSlot /\ CreatorOwnsSlot /\ HandlesLive

LEMMA InitOwned == Init => Owned
  BY DEF Init, Owned, TaskOwnsSlot, CreatorOwnsSlot, HandlesLive, Live, Living,
         IdleCreator, NoTask, FreePcb

(* Steps that change no PCB and leave every task and every reservation as it
   was (or start and end one that owns nothing) disturb no ownership. *)
LEMMA QuietSteps ==
  ASSUME TypeOK, Owned,
         process_table' = process_table,
         Live' = Live,
         \A h \in Live : task'[h].slot = task[h].slot /\ task'[h].pid = task[h].pid,
         \A c \in Creators : creator'[c].pc \in {"reserved", "failed"} =>
           /\ creator[c].pc \in {"reserved", "failed"}
           /\ creator'[c].slot = creator[c].slot
           /\ creator'[c].made = creator[c].made
  PROVE  Owned'
  <1>1. TaskOwnsSlot'
    BY DEF Owned, TaskOwnsSlot
  <1>2. CreatorOwnsSlot'
    BY DEF Owned, CreatorOwnsSlot
  <1>3. HandlesLive'
    BY DEF Owned, HandlesLive
  <1>4. QED
    BY <1>1, <1>2, <1>3 DEF Owned

LEMMA ReserveOwned ==
  ASSUME TypeOK, Owned, NEW c \in Creators, create_reserve(c)
  PROVE  Owned'
  <1> USE DEF Owned
  <1>1. PICK s \in FreeSlots :
          /\ process_table' = [process_table EXCEPT ![s] = Reserved(next_pid)]
          /\ creator' = [creator EXCEPT ![c] = [IdleCreator EXCEPT
               !.pc = "reserved", !.slot = s, !.made = next_pid]]
    BY LeastFreeSlot DEF create_reserve, Refuses
  <1>2. s \in Slot /\ ~process_table[s].active
    BY DEF FreeSlots
  <1>3. \A h \in Live : task[h].slot # s
    BY <1>2 DEF TaskOwnsSlot
  <1>4. task' = task /\ Live' = Live
    BY DEF create_reserve, Live
  <1>5. TaskOwnsSlot'
    BY <1>1, <1>3, <1>4 DEF TaskOwnsSlot, TypeOK
  <1>6. CreatorOwnsSlot'
    <2>1. creator'[c].slot = s /\ creator'[c].made = next_pid
      BY <1>1 DEF IdleCreator, TypeOK
    <2>2. \A d \in Creators \ {c} : creator'[d] = creator[d]
      BY <1>1 DEF TypeOK
    <2>3. process_table'[s] = Reserved(next_pid)
      BY <1>1, <1>2 DEF TypeOK
    <2>4. \A d \in Creators \ {c} : creator[d].pc \in {"reserved", "failed"} =>
            creator[d].slot # s
      BY <1>2 DEF CreatorOwnsSlot
    <2>5. \A d \in Creators \ {c} : creator[d].pc \in {"reserved", "failed"} =>
            process_table'[creator[d].slot] = process_table[creator[d].slot]
      BY <1>1, <2>4 DEF TypeOK, CreatorState
    <2>6. QED
      BY <1>3, <1>4, <2>1, <2>2, <2>3, <2>4, <2>5 DEF CreatorOwnsSlot, Reserved
  <1>7. HandlesLive'
    BY <1>1, <1>2, <1>4 DEF HandlesLive, Reserved, TypeOK
  <1>8. QED
    BY <1>5, <1>6, <1>7

LEMMA CreateTaskOwned ==
  ASSUME TypeOK, Owned, NEW c \in Creators, create_task(c)
  PROVE  Owned'
  <1> USE DEF Owned
  <1>1. PICK h \in Handles :
          /\ task[h].pc = "none"
          /\ task' = [task EXCEPT ![h] =
               [pc |-> "created", slot |-> creator[c].slot, pid |-> creator[c].made]]
          /\ process_table' = [process_table EXCEPT ![creator[c].slot].task_handle = h]
    BY DEF create_task
  <1>2. /\ creator[c].pc = "reserved" /\ creator[c].slot \in Slot
        /\ creator' = [creator EXCEPT ![c].pc = "made"]
    BY DEF create_task, TypeOK, CreatorState
  <1>3. /\ process_table[creator[c].slot].active
        /\ process_table[creator[c].slot].entry_point
        /\ process_table[creator[c].slot].pid = creator[c].made
    BY <1>2 DEF CreatorOwnsSlot
  <1>4. Live' = Live \cup {h} /\ h \notin Live
    BY <1>1 DEF Live, Living, TypeOK
  <1>5. TaskOwnsSlot'
    BY <1>1, <1>2, <1>3, <1>4
       DEF TaskOwnsSlot, CreatorOwnsSlot, TypeOK, TaskState, Pcb, Live
  <1>6. CreatorOwnsSlot'
    BY <1>1, <1>2, <1>3, <1>4 DEF CreatorOwnsSlot, TypeOK, CreatorState, Pcb
  <1>7. HandlesLive'
    BY <1>1, <1>2, <1>3, <1>4 DEF HandlesLive, CreatorOwnsSlot, TypeOK, Pcb, Live
  <1>8. QED
    BY <1>5, <1>6, <1>7

LEMMA UndoOwned ==
  ASSUME TypeOK, Owned, NEW c \in Creators, create_undo(c)
  PROVE  Owned'
  <1> USE DEF Owned
  <1>1. /\ creator[c].pc = "failed" /\ creator[c].slot \in Slot
        /\ creator' = [creator EXCEPT ![c] = IdleCreator]
        /\ process_table' = [process_table EXCEPT
             ![creator[c].slot] = [@ EXCEPT !.active = FALSE, !.pid = 0]]
        /\ task' = task /\ Live' = Live
    BY DEF create_undo, TypeOK, CreatorState, Live
  <1>2. \A h \in Live : task[h].slot # creator[c].slot
    BY <1>1 DEF CreatorOwnsSlot
  <1>3. ~process_table'[creator[c].slot].active
    BY <1>1, Zenon DEF TypeOK, Pcb
  <1>4. \A s \in Slot \ {creator[c].slot} : process_table'[s] = process_table[s]
    BY <1>1 DEF TypeOK
  <1>5. TaskOwnsSlot'
    BY <1>1, <1>2, <1>4 DEF TaskOwnsSlot, TypeOK, TaskState, Live
  <1>6. CreatorOwnsSlot'
    <2>1. creator'[c].pc = "idle" /\ \A d \in Creators \ {c} : creator'[d] = creator[d]
      BY <1>1 DEF IdleCreator, TypeOK
    <2>2. \A d \in Creators \ {c} : creator[d].pc \in {"reserved", "failed"} =>
            creator[d].slot \in Slot \ {creator[c].slot}
      BY <1>1 DEF CreatorOwnsSlot, TypeOK, CreatorState
    <2>3. QED
      BY <1>1, <1>4, <2>1, <2>2 DEF CreatorOwnsSlot
  <1>7. HandlesLive'
    BY <1>1, <1>3, <1>4 DEF HandlesLive
  <1>8. QED
    BY <1>5, <1>6, <1>7

LEMMA SetRunningOwned ==
  ASSUME TypeOK, Owned, NEW h \in Handles, wrapper_set_running(h)
  PROVE  Owned'
  <1> USE DEF Owned
  <1>1. /\ process_table' = [process_table EXCEPT ![task[h].slot].state = "running"]
        /\ task' = [task EXCEPT ![h].pc = "running"]
        /\ creator' = creator
        /\ task[h].slot \in Slot
    BY DEF wrapper_set_running, TypeOK, TaskState
  <1>2. Live' = Live
    BY <1>1 DEF wrapper_set_running, Live, Living, TypeOK, TaskState
  <1>3. \A s \in Slot :
          /\ process_table'[s].active <=> process_table[s].active
          /\ process_table'[s].entry_point <=> process_table[s].entry_point
    BY <1>1, Zenon DEF TypeOK, Pcb
  <1>4. \A s \in Slot :
          /\ process_table'[s].pid = process_table[s].pid
          /\ process_table'[s].task_handle = process_table[s].task_handle
    BY <1>1 DEF TypeOK, Pcb
  <1>5. \A g \in Live : task'[g].slot = task[g].slot /\ task'[g].pid = task[g].pid
                       /\ task[g].slot \in Slot
    BY <1>1 DEF TypeOK, TaskState, Live
  <1>6. TaskOwnsSlot'
    BY <1>2, <1>3, <1>4, <1>5 DEF TaskOwnsSlot
  <1>7. CreatorOwnsSlot'
    BY <1>1, <1>2, <1>3, <1>4, <1>5 DEF CreatorOwnsSlot, TypeOK, CreatorState
  <1>8. HandlesLive'
    BY <1>2, <1>3, <1>4, <1>5 DEF HandlesLive
  <1>9. QED
    BY <1>6, <1>7, <1>8

LEMMA FinishOwned ==
  ASSUME TypeOK, Owned, NEW h \in Handles, wrapper_finish(h)
  PROVE  Owned'
  <1> USE DEF Owned
  <1>1. /\ process_table' = [process_table EXCEPT ![task[h].slot] = Finished(@)]
        /\ task' = [task EXCEPT ![h].pc = "ended"]
        /\ creator' = creator
        /\ task[h].slot \in Slot
    BY DEF wrapper_finish, TypeOK, TaskState
  <1>2. h \in Live /\ Live' = Live \ {h}
    BY <1>1 DEF wrapper_finish, Live, Living, TypeOK, TaskState
  <1>3. ~process_table'[task[h].slot].active
    BY <1>1, Zenon DEF TypeOK, Pcb, Finished
  <1>4. \A s \in Slot \ {task[h].slot} : process_table'[s] = process_table[s]
    BY <1>1 DEF TypeOK
  <1>5. \A g \in Live' : /\ task'[g] = task[g]
                        /\ task[g].slot \in Slot \ {task[h].slot}
    BY <1>1, <1>2 DEF TaskOwnsSlot, TypeOK, TaskState, Live
  <1>6. TaskOwnsSlot'
    BY <1>2, <1>4, <1>5 DEF TaskOwnsSlot
  <1>7. CreatorOwnsSlot'
    <2>1. \A c \in Creators : creator[c].pc \in {"reserved", "failed"} =>
            creator[c].slot \in Slot \ {task[h].slot}
      BY <1>2 DEF CreatorOwnsSlot, TypeOK, CreatorState
    <2>2. QED
      BY <1>1, <1>2, <1>4, <1>5, <2>1 DEF CreatorOwnsSlot
  <1>8. HandlesLive'
    <2> SUFFICES ASSUME NEW s \in Slot, process_table'[s].active,
                        process_table'[s].task_handle # NULL
                 PROVE  /\ process_table'[s].task_handle \in Live'
                        /\ task'[process_table'[s].task_handle].slot = s
      BY DEF HandlesLive
    <2>1. s # task[h].slot /\ process_table'[s] = process_table[s]
      BY <1>3, <1>4
    <2>2. process_table[s].task_handle \in Live' /\ task[process_table[s].task_handle].slot = s
      BY <1>2, <2>1 DEF HandlesLive
    <2>3. QED
      BY <1>5, <2>1, <2>2
  <1>9. QED
    BY <1>6, <1>7, <1>8

LEMMA NextOwned == TypeOK /\ Owned /\ [Next]_vars => Owned'
  <1> SUFFICES ASSUME TypeOK, Owned, [Next]_vars PROVE Owned'
    OBVIOUS
  <1>1. ASSUME NEW c \in Creators, create_refused(c) PROVE Owned'
    BY <1>1, QuietSteps DEF create_refused, Live, IdleCreator, TypeOK
  <1>2. ASSUME NEW c \in Creators, create_task_fails(c) PROVE Owned'
    BY <1>2, QuietSteps DEF create_task_fails, Live, TypeOK, CreatorState
  <1>3. ASSUME NEW c \in Creators, create_test_handle(c) PROVE Owned'
    BY <1>3, QuietSteps DEF create_test_handle, Live, TypeOK, CreatorState
  <1>4. ASSUME NEW c \in Creators, create_store_tls(c) PROVE Owned'
    BY <1>4, QuietSteps DEF create_store_tls, Live, TypeOK, CreatorState
  <1>5. ASSUME NEW c \in Creators, create_count(c) PROVE Owned'
    BY <1>5, QuietSteps DEF create_count, Live, IdleCreator, TypeOK
  <1>6. ASSUME NEW h \in Handles, wrapper_start(h) PROVE Owned'
    <2>1. h \in Live
      BY <1>6 DEF wrapper_start, Live, Living
    <2>2. process_table[task[h].slot].entry_point
      BY <2>1 DEF Owned, TaskOwnsSlot
    <2>3. task' = [task EXCEPT ![h].pc = "started"]
      BY <1>6, <2>2 DEF wrapper_start
    <2>4. Live' = Live
      BY <1>6, <2>3 DEF wrapper_start, Live, Living, TypeOK, TaskState
    <2>5. QED
      BY <1>6, <2>3, <2>4, QuietSteps DEF wrapper_start, TypeOK, TaskState, Live
  <1>7. ASSUME NEW h \in Handles, wrapper_delete(h) PROVE Owned'
    <2>1. task' = [task EXCEPT ![h] = NoTask] /\ h \notin Live
      BY <1>7 DEF wrapper_delete, Live, Living
    <2>2. Live' = Live
      BY <2>1 DEF Live, Living, NoTask, TypeOK
    <2>3. QED
      BY <1>7, <2>1, <2>2, QuietSteps DEF wrapper_delete, TypeOK, Live
  <1>8. CASE UNCHANGED vars
    BY <1>8, QuietSteps DEF vars, Live
  <1>9. QED
    BY <1>1, <1>2, <1>3, <1>4, <1>5, <1>6, <1>7, <1>8, ReserveOwned, CreateTaskOwned,
       UndoOwned, SetRunningOwned, FinishOwned
       DEF Next, process_create, process_task_wrapper

(* While the mutex is free half way through process_create, a living process
   keeps its PCB and a creator without a task keeps its slot to itself. *)
THEOREM SlotsAreOwned == Spec => [](TaskOwnsSlot /\ CreatorOwnsSlot)
  <1>1. Owned => TaskOwnsSlot /\ CreatorOwnsSlot
    BY DEF Owned
  <1>2. Spec => []Owned
    BY InitOwned, NextOwned, TypeCorrect, PTL DEF Spec
  <1>3. QED
    BY <1>1, <1>2, PTL

(* A slot that process_create has taken is its own until the task is made. *)
THEOREM ReservationsAreOwned == Spec => []CreatorOwnsSlot
  BY SlotsAreOwned, PTL

(* Whoever asks scheduler_get_current never gets the pid of another process. *)
THEOREM CurrentIsOwn == Spec => []CurrentNeverForeign
  <1>1. TypeOK /\ Owned => CurrentNeverForeign
    <2> SUFFICES ASSUME TypeOK, Owned PROVE CurrentNeverForeign
      OBVIOUS
    <2>1. ASSUME NEW t \in Creators \cup Handles, NEW s \in Slot, IsOf(s, t)
          PROVE  t \in Live /\ process_table[s].pid = task[t].pid
      <3>1. process_table[s].active /\ process_table[s].task_handle = t /\ t # NULL
        BY <2>1, ProcessAssumption DEF IsOf
      <3>2. t \in Live /\ task[t].slot = s
        BY <3>1 DEF Owned, HandlesLive
      <3>3. QED
        BY <3>2 DEF Owned, TaskOwnsSlot
    <2>2. ASSUME NEW t \in Creators \cup Handles
          PROVE  scheduler_get_current(t) = 0 \/
                 (t \in Live /\ scheduler_get_current(t) = task[t].pid)
      <3> DEFINE mine == IF tls[t] # NULL THEN {tls[t]} ELSE Slot
                 hits == {s \in mine : IsOf(s, t)}
      <3>1. mine \subseteq Slot
        BY <2>2 DEF TypeOK
      <3>2. hits \subseteq Nat
        BY <3>1 DEF Slot
      <3>3. CASE hits = {}
        BY <3>3 DEF scheduler_get_current
      <3>4. CASE hits # {}
        <4>1. PICK n \in hits : \A m \in hits : n <= m
          BY <3>2, <3>4, LeastNatural
        <4>2. Least(hits) \in hits
          BY <4>1 DEF Least
        <4>3. t \in Live /\ process_table[Least(hits)].pid = task[t].pid
          BY <2>1, <3>1, <4>2
        <4>4. QED
          BY <3>4, <4>3 DEF scheduler_get_current
      <3>5. QED
        BY <3>3, <3>4
    <2>3. Creators \cap Live = {}
      BY ProcessAssumption DEF Live
    <2>4. QED
      BY <2>2, <2>3 DEF CurrentNeverForeign, Live
  <1>2. Spec => []Owned
    BY InitOwned, NextOwned, TypeCorrect, PTL DEF Spec
  <1>3. QED
    BY <1>1, <1>2, TypeCorrect, PTL
-----------------------------------------------------------------------------
LEMMA SlotCardinality == IsFiniteSet(Slot) /\ Cardinality(Slot) = MaxProcesses
  BY FS_Interval, ProcessAssumption DEF Slot

(* Living processes are at most as many as slots, and when they are as many
   every slot is in use. *)
LEMMA LiveBounded ==
  ASSUME TypeOK, Owned
  PROVE  /\ IsFiniteSet(Live)
         /\ Cardinality(Live) \in 0..MaxProcesses
         /\ Cardinality(Live) = MaxProcesses => FreeSlots = {}
  <1> DEFINE slotOf == [h \in Live |-> task[h].slot]
  <1>1. slotOf \in [Live -> Slot]
    BY DEF TypeOK, TaskState, Live
  <1>2. \A g, h \in Live : slotOf[g] = slotOf[h] => g = h
    BY DEF Owned, TaskOwnsSlot
  <1>3. slotOf \in Injection(Live, Slot)
    BY <1>1, <1>2 DEF Injection, IsInjective
  <1> HIDE DEF slotOf
  <1>4. /\ IsFiniteSet(Live)
        /\ Cardinality(Live) <= MaxProcesses
        /\ Cardinality(Live) = MaxProcesses => slotOf \in Surjection(Live, Slot)
    BY <1>3, SlotCardinality, FS_Injection
  <1>5. Cardinality(Live) \in 0..MaxProcesses
    BY <1>4, FS_CardinalityType, ProcessAssumption
  <1>6. ASSUME slotOf \in Surjection(Live, Slot) PROVE FreeSlots = {}
    <2>1. \A s \in Slot : \E h \in Live : task[h].slot = s
      BY <1>6 DEF Surjection, slotOf
    <2>2. QED
      BY <2>1 DEF Owned, TaskOwnsSlot, FreeSlots
  <1>7. QED
    BY <1>4, <1>5, <1>6

LEMMA UncountedFinite ==
  IsFiniteSet(Uncounted) /\ Cardinality(Uncounted) \in Nat
  BY ProcessAssumption, FS_Subset, FS_CardinalityType DEF Uncounted

LEMMA NotEmptyCounts ==
  ASSUME NEW S, NEW x \in S, IsFiniteSet(S)
  PROVE  Cardinality(S) > 0
  <1>1. Cardinality(S) # 0
    BY FS_EmptySet
  <1>2. QED
    BY <1>1, FS_CardinalityType

LEMMA InitCountExact == Init => CountExact
  <1> SUFFICES ASSUME Init PROVE CountExact
    OBVIOUS
  <1>1. Live = {} /\ Uncounted = {}
    BY DEF Init, Live, Living, NoTask, Uncounted, IdleCreator
  <1>2. QED
    BY <1>1, FS_EmptySet DEF Init, CountExact, CountModulus

LEMMA NextCountExact ==
  TypeOK /\ Owned /\ Owned' /\ TypeOK' /\ CountExact /\ [Next]_vars => CountExact'
  <1> SUFFICES ASSUME TypeOK, Owned, CountExact, [Next]_vars PROVE CountExact'
    OBVIOUS
  <1> USE DEF CountModulus
  <1>n. /\ process_count \in 0..255
        /\ Cardinality(Uncounted) \in Nat /\ IsFiniteSet(Uncounted)
        /\ Cardinality(Live) \in 0..127 /\ IsFiniteSet(Live)
        /\ (process_count + Cardinality(Uncounted)) % 256 = Cardinality(Live)
    BY UncountedFinite, LiveBounded, ProcessAssumption DEF TypeOK, CountExact
  <1>u. PICK u \in Nat : u = Cardinality(Uncounted)
    BY <1>n
  <1>l. PICK l \in 0..127 : l = Cardinality(Live)
    BY <1>n
  <1>p. process_count \in 0..255
    BY <1>n
  <1>b. (process_count + u) % 256 = l
    BY <1>n, <1>u, <1>l
  <1>q. ASSUME process_count' = process_count, Uncounted' = Uncounted, Live' = Live
        PROVE  CountExact'
    BY <1>q DEF CountExact
  <1>1. ASSUME NEW c \in Creators,
               create_refused(c) \/ create_reserve(c) \/ create_task_fails(c)
                 \/ create_test_handle(c) \/ create_store_tls(c) \/ create_undo(c)
        PROVE  CountExact'
    <2>1. process_count' = process_count /\ task' = task
      BY <1>1 DEF create_refused, create_reserve, create_task_fails, create_test_handle,
                  create_store_tls, create_undo
    <2>2. \A d \in Creators \ {c} : creator'[d] = creator[d]
      BY <1>1 DEF create_refused, create_reserve, create_task_fails, create_test_handle,
                  create_store_tls, create_undo, TypeOK
    <2>3. creator'[c].pc \in {"made", "store", "count"}
            <=> creator[c].pc \in {"made", "store", "count"}
      <3>1. CASE create_refused(c)
        BY <3>1 DEF create_refused, IdleCreator, TypeOK
      <3>2. CASE create_reserve(c)
        BY <3>2 DEF create_reserve, IdleCreator, TypeOK
      <3>3. CASE create_task_fails(c)
        BY <3>3 DEF create_task_fails, TypeOK, CreatorState
      <3>4. CASE create_test_handle(c)
        BY <3>4 DEF create_test_handle, TypeOK, CreatorState
      <3>5. CASE create_store_tls(c)
        BY <3>5 DEF create_store_tls, TypeOK, CreatorState
      <3>6. CASE create_undo(c)
        BY <3>6 DEF create_undo, IdleCreator, TypeOK
      <3>7. QED
        BY <1>1, <3>1, <3>2, <3>3, <3>4, <3>5, <3>6
    <2>4. Uncounted' = Uncounted
      BY <2>2, <2>3 DEF Uncounted
    <2>5. QED
      BY <2>1, <2>4, <1>q DEF Live
  <1>2. ASSUME NEW c \in Creators, create_task(c) PROVE CountExact'
    <2>1. PICK h \in Handles : task[h].pc = "none" /\ task' = [task EXCEPT ![h] =
                 [pc |-> "created", slot |-> creator[c].slot, pid |-> creator[c].made]]
      BY <1>2 DEF create_task
    <2>2. Live' = Live \cup {h} /\ h \notin Live
      BY <2>1 DEF Live, Living, TypeOK
    <2>3. Uncounted' = Uncounted \cup {c} /\ c \notin Uncounted
      BY <1>2 DEF create_task, Uncounted, TypeOK, CreatorState
    <2>4. /\ Cardinality(Live') = Cardinality(Live) + 1
          /\ Cardinality(Uncounted') = Cardinality(Uncounted) + 1
      BY <1>n, <2>2, <2>3, FS_AddElement
    <2>5. process_count' = process_count
      BY <1>2 DEF create_task
    <2>6. (process_count + (u + 1)) % 256 = l + 1
      BY <1>p, <1>b
    <2>7. QED
      BY <1>u, <1>l, <2>4, <2>5, <2>6 DEF CountExact
  <1>3. ASSUME NEW c \in Creators, create_count(c) PROVE CountExact'
    <2>1. Uncounted' = Uncounted \ {c} /\ c \in Uncounted
      BY <1>3 DEF create_count, Uncounted, IdleCreator, TypeOK
    <2>2. Cardinality(Uncounted') = Cardinality(Uncounted) - 1 /\ Cardinality(Uncounted) > 0
      BY <1>n, <2>1, FS_RemoveElement, NotEmptyCounts
    <2>3. process_count' = (process_count + 1) % 256 /\ Live' = Live
      BY <1>3 DEF create_count, Live
    <2>4. u > 0 => (((process_count + 1) % 256) + (u - 1)) % 256 = l
      BY <1>p, <1>b
    <2>5. QED
      BY <1>u, <1>l, <2>2, <2>3, <2>4 DEF CountExact
  <1>4. ASSUME NEW h \in Handles,
               wrapper_start(h) \/ wrapper_set_running(h) \/ wrapper_delete(h)
        PROVE  CountExact'
    <2>1. process_count' = process_count /\ Uncounted' = Uncounted
      BY <1>4 DEF wrapper_start, wrapper_set_running, wrapper_delete, Uncounted
    <2>2. \A g \in Handles \ {h} : task'[g] = task[g]
      BY <1>4 DEF wrapper_start, wrapper_set_running, wrapper_delete, TypeOK
    <2>3. task'[h].pc \in Living <=> task[h].pc \in Living
      <3>1. CASE wrapper_start(h)
        <4>1. process_table[task[h].slot].entry_point
          BY <3>1 DEF wrapper_start, Owned, TaskOwnsSlot, Live, Living
        <4>2. QED
          BY <3>1, <4>1 DEF wrapper_start, Living, TypeOK, TaskState
      <3>2. CASE wrapper_set_running(h)
        BY <3>2 DEF wrapper_set_running, Living, TypeOK, TaskState
      <3>3. CASE wrapper_delete(h)
        BY <3>3 DEF wrapper_delete, Living, NoTask, TypeOK
      <3>4. QED
        BY <1>4, <3>1, <3>2, <3>3
    <2>4. Live' = Live
      BY <2>2, <2>3 DEF Live
    <2>5. QED
      BY <2>1, <2>4, <1>q
  <1>5. ASSUME NEW h \in Handles, wrapper_finish(h) PROVE CountExact'
    <2>1. Live' = Live \ {h} /\ h \in Live
      BY <1>5 DEF wrapper_finish, Live, Living, TypeOK, TaskState
    <2>2. Cardinality(Live') = Cardinality(Live) - 1 /\ Cardinality(Live) > 0
      BY <1>n, <2>1, FS_RemoveElement, NotEmptyCounts
    <2>3. process_count' = (process_count - 1) % 256 /\ Uncounted' = Uncounted
      BY <1>5 DEF wrapper_finish, OneLess, Uncounted
    <2>4. l > 0 => (((process_count - 1) % 256) + u) % 256 = l - 1
      BY <1>p, <1>b
    <2>5. QED
      BY <1>u, <1>l, <2>2, <2>3, <2>4 DEF CountExact
  <1>6. CASE UNCHANGED vars
    BY <1>6, <1>q DEF vars, Uncounted, Live
  <1>7. QED
    BY <1>1, <1>2, <1>3, <1>4, <1>5, <1>6 DEF Next, process_create, process_task_wrapper

(* The byte process_count, with its excursions below zero, is exact up to the
   creators that are between xTaskCreate and process_count++. *)
THEOREM CountIsExact == Spec => []CountExact
  <1>1. Spec => []Owned
    BY InitOwned, NextOwned, TypeCorrect, PTL DEF Spec
  <1>2. QED
    BY InitCountExact, NextCountExact, <1>1, TypeCorrect, PTL DEF Spec

(* process_create refuses a process while there is room for it only if some
   other creator has not counted its own yet: never with a single creator. *)
THEOREM RefusalsAreFounded == Spec => []RefusedOnlyWhenFull
  <1>1. TypeOK /\ Owned /\ CountExact => RefusedOnlyWhenFull
    <2> SUFFICES ASSUME TypeOK, Owned, CountExact,
                        process_count >= MaxProcesses, Uncounted = {}
                 PROVE  FreeSlots = {}
      BY DEF RefusedOnlyWhenFull
    <2>1. Cardinality(Uncounted) = 0
      BY FS_EmptySet
    <2>2. process_count = Cardinality(Live)
      BY <2>1, LiveBounded DEF CountExact, CountModulus, TypeOK
    <2>3. Cardinality(Live) = MaxProcesses
      BY <2>2, LiveBounded, ProcessAssumption
    <2>4. QED
      BY <2>3, LiveBounded
  <1>2. Spec => []Owned
    BY InitOwned, NextOwned, TypeCorrect, PTL DEF Spec
  <1>3. QED
    BY <1>1, <1>2, TypeCorrect, CountIsExact, PTL
=============================================================================
