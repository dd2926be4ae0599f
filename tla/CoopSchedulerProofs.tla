------------------------ MODULE CoopSchedulerProofs ------------------------
(***************************************************************************)
(* Proofs about CoopScheduler for any number of slots, priorities and      *)
(* values of a pid: the table is counted right, only the current process   *)
(* runs, and none starts before one of a higher priority, as far as this   *)
(* can hold when pids come round.                                          *)
(***************************************************************************)
EXTENDS CoopScheduler, WellFoundedInduction, FiniteSetTheorems, TLAPS

(* A nonempty set of naturals has a least element. *)
LEMMA LeastNatural ==
  ASSUME NEW S \in SUBSET Nat, S # {}
  PROVE  \E m \in S : \A k \in S : m <= k
  <1>1. PICK m \in S : \A k \in S : ~(<<k, m>> \in {ij \in Nat \X Nat : ij[1] < ij[2]})
    BY NatLessThanWellFounded, WFMin DEF OpToRel
  <1>2. \A k \in S : ~(k < m)
    BY <1>1
  <1>3. QED
    BY <1>2

(* A pid is handed out again while its process lives; what is left is that a
   process that has not met another one of its pid has it for itself. *)
PidsIdentify ==
  \A s \in Slot \ strays, t \in Slot :
    process_table[s].active /\ process_table[t].active
      /\ process_table[s].pid = process_table[t].pid => s = t

(* find_next_ready_process cannot answer pid 0, so the scheduler runs nobody of
   that pid: scheduler_run would not take the processor from it. *)
RunnerHasPid ==
  \A s \in Slot \ strays :
    process_table[s].active /\ process_table[s].state = "running" => process_table[s].pid # 0

Inv == TypeOK /\ PidsIdentify /\ RunnerHasPid /\ RunningIsCurrent

Pcb == [pid : Pids, state : States, priority : Priorities \cup {1}, active : BOOLEAN]

-----------------------------------------------------------------------------
LEMMA LeastIsFirst ==
  ASSUME NEW S \in SUBSET Slot, S # {}
  PROVE  Least(S) \in S
  <1>1. S \subseteq Nat
    BY DEF Slot
  <1>2. PICK n \in S : \A m \in S : n <= m
    BY <1>1, LeastNatural
  <1>3. QED
    BY <1>2 DEF Least

(* A pid somebody has is found in one of its slots. *)
LEMMA FoundSlot ==
  ASSUME NEW pid, SlotsOf(pid) # {}
  PROVE  Found(pid) \in SlotsOf(pid) /\ Found(pid) \in Slot
  <1>1. SlotsOf(pid) \in SUBSET Slot
    BY DEF SlotsOf
  <1>2. QED
    BY <1>1, LeastIsFirst DEF Found

(* A process that is not astray is the one its pid finds. *)
LEMMA OwnSlot ==
  ASSUME PidsIdentify, NEW s \in Slot \ strays, process_table[s].active
  PROVE  SlotsOf(process_table[s].pid) = {s} /\ Found(process_table[s].pid) = s
  <1>1. s \in SlotsOf(process_table[s].pid)
    BY DEF SlotsOf
  <1>2. SlotsOf(process_table[s].pid) = {s}
    BY <1>1 DEF SlotsOf, PidsIdentify
  <1>3. QED
    BY <1>1, <1>2, FoundSlot

LEMMA FreeSlotsFinite == IsFiniteSet(FreeSlots) /\ Cardinality(Slot) = MaxProcesses
  <1>1. IsFiniteSet(Slot) /\ Cardinality(Slot) = MaxProcesses
    BY SchedulerAssumption, FS_Interval DEF Slot
  <1>2. QED
    BY <1>1, FS_Subset DEF FreeSlots

(* What a step may do to a table without disturbing who is where: states may
   change, pids, priorities and slots in use may not. *)
SamePlaces(before, after) ==
  /\ after \in [Slot -> Pcb]
  /\ \A s \in Slot : /\ after[s].pid = before[s].pid
                     /\ after[s].priority = before[s].priority
                     /\ after[s].active = before[s].active

LEMMA WithStateKeepsPlaces ==
  ASSUME process_table \in [Slot -> Pcb], NEW pid, NEW state \in States
  PROVE  SamePlaces(process_table, WithState(pid, state))
  <1>1. ASSUME NEW s \in Slot, NEW q \in States
        PROVE  /\ [process_table[s] EXCEPT !.state = q] \in Pcb
               /\ [process_table[s] EXCEPT !.state = q].pid = process_table[s].pid
               /\ [process_table[s] EXCEPT !.state = q].priority = process_table[s].priority
               /\ [process_table[s] EXCEPT !.state = q].active = process_table[s].active
    BY Zenon DEF Pcb
  <1>2. \A s \in Slot : WithState(pid, state)[s] \in {process_table[s], [process_table[s] EXCEPT !.state = state]}
    BY DEF WithState
  <1>3. WithState(pid, state) = [s \in Slot |-> WithState(pid, state)[s]]
    BY DEF WithState
  <1> DEFINE after == WithState(pid, state)
  <1> HIDE DEF after
  <1>4. ASSUME NEW s \in Slot
        PROVE  /\ after[s] \in Pcb
               /\ after[s].pid = process_table[s].pid
               /\ after[s].priority = process_table[s].priority
               /\ after[s].active = process_table[s].active
    <2>1. after[s] = process_table[s] \/ after[s] = [process_table[s] EXCEPT !.state = state]
      BY <1>2 DEF after
    <2>2. QED
      BY <1>1, <2>1
  <1>5. after \in [Slot -> Pcb]
    BY <1>3, <1>4 DEF after
  <1>6. SamePlaces(process_table, after)
    BY <1>4, <1>5 DEF SamePlaces
  <1>7. QED
    BY <1>6 DEF after

(* The state is changed in the slot found for the pid and in no other. *)
LEMMA WithStateStates ==
  ASSUME process_table \in [Slot -> Pcb], NEW pid, NEW state \in States, NEW s \in Slot
  PROVE  WithState(pid, state)[s].state =
           IF SlotsOf(pid) # {} /\ s = Found(pid) THEN state ELSE process_table[s].state
  <1>1. CASE SlotsOf(pid) # {} /\ s = Found(pid)
    <2>1. [process_table[s] EXCEPT !.state = state].state = state
      BY Zenon DEF Pcb
    <2>2. QED
      BY <1>1, <2>1 DEF WithState
  <1>2. CASE ~(SlotsOf(pid) # {} /\ s = Found(pid))
    BY <1>2 DEF WithState
  <1>3. QED
    BY <1>1, <1>2

(* A step that keeps everybody in place keeps the count and the pids. *)
LEMMA PlacesKeepPids ==
  ASSUME TypeOK, PidsIdentify, SamePlaces(process_table, process_table'),
         UNCHANGED <<next_pid, process_count>>, current_pid' \in Pids, expired' \in BOOLEAN,
         strays \subseteq strays', strays' \subseteq Slot
  PROVE  TypeOK' /\ PidsIdentify'
  <1>1. FreeSlots' = FreeSlots
    BY DEF SamePlaces, FreeSlots
  <1>2. CountMatches'
    BY <1>1 DEF TypeOK, CountMatches
  <1>3. TypeOK'
    BY <1>2 DEF TypeOK, SamePlaces, Pcb
  <1>4. PidsIdentify'
    BY DEF PidsIdentify, SamePlaces
  <1>5. QED
    BY <1>3, <1>4

-----------------------------------------------------------------------------
(* When the slice is over the process that ran is ready: nobody runs, the
   processes astray aside. *)
LEMMA NobodyRunsAfterSlice ==
  ASSUME Inv
  PROVE  /\ SamePlaces(process_table, AfterSlice)
         /\ \A s \in Slot \ strays : AfterSlice[s].active => AfterSlice[s].state # "running"
         /\ \A s \in Slot : process_table[s].active /\ process_table[s].state = "ready"
                              => AfterSlice[s].state = "ready"
  <1>1. process_table \in [Slot -> Pcb]
    BY DEF Inv, TypeOK, Pcb
  <1>2. PidsIdentify /\ RunningIsCurrent /\ RunnerHasPid
    BY DEF Inv
  <1>3. CASE CurrentRuns
    <2>1. AfterSlice = WithState(current_pid, "ready")
      BY <1>3 DEF AfterSlice
    <2>2. SamePlaces(process_table, AfterSlice)
      BY <1>1, <2>1, WithStateKeepsPlaces DEF States
    <2>3. \A s \in Slot : AfterSlice[s].state =
            IF SlotsOf(current_pid) # {} /\ s = Found(current_pid) THEN "ready"
            ELSE process_table[s].state
      BY <1>1, <2>1, WithStateStates DEF States
    <2>4. ASSUME NEW s \in Slot \ strays, AfterSlice[s].active PROVE AfterSlice[s].state # "running"
      <3>1. process_table[s].active
        BY <2>2, <2>4 DEF SamePlaces
      <3>2. CASE process_table[s].pid = current_pid
        BY <1>2, <2>3, <3>1, <3>2, OwnSlot
      <3>3. CASE process_table[s].pid # current_pid
        <4>1. process_table[s].state # "running"
          BY <1>2, <3>1, <3>3 DEF RunningIsCurrent
        <4>2. QED
          BY <2>3, <4>1
      <3>4. QED
        BY <3>2, <3>3
    <2>5. QED
      BY <2>2, <2>3, <2>4
  <1>4. CASE ~CurrentRuns
    <2>1. AfterSlice = process_table
      BY <1>4 DEF AfterSlice
    <2>2. ASSUME NEW s \in Slot \ strays, process_table[s].active, process_table[s].state = "running"
          PROVE  FALSE
      <3>1. process_table[s].pid = current_pid /\ current_pid # 0
        BY <1>2, <2>2 DEF RunningIsCurrent, RunnerHasPid
      <3>2. SlotsOf(current_pid) = {s} /\ Found(current_pid) = s
        BY <1>2, <2>2, <3>1, OwnSlot
      <3>3. QED
        BY <1>4, <2>2, <3>1, <3>2 DEF CurrentRuns
    <2>3. QED
      BY <1>1, <2>1, <2>2 DEF SamePlaces
  <1>5. QED
    BY <1>3, <1>4

(* The slot that is switched to has the pid of a ready process no ready process
   is above, and is that process's when no other has the pid. *)
Chosen == Found(find_next_ready(AfterSlice))

LEMMA ChosenIsBest ==
  ASSUME Inv, find_next_ready(AfterSlice) # 0
  PROVE  /\ Chosen \in Slot
         /\ process_table[Chosen].active
         /\ process_table[Chosen].pid = find_next_ready(AfterSlice)
         /\ \A s \in Slot : SlotsOf(find_next_ready(AfterSlice)) = {s} =>
              \A t \in ReadySlots(AfterSlice) : AfterSlice[t].priority <= AfterSlice[s].priority
  <1> DEFINE top == {s \in ReadySlots(AfterSlice) :
                       \A t \in ReadySlots(AfterSlice) : AfterSlice[t].priority <= AfterSlice[s].priority}
  <1> DEFINE next == find_next_ready(AfterSlice)
  <1>1. top # {} /\ next = AfterSlice[Least(top)].pid
    BY DEF find_next_ready
  <1>2. top \in SUBSET Slot
    BY DEF ReadySlots
  <1>3. Least(top) \in top
    BY <1>1, <1>2, LeastIsFirst
  <1>4. Least(top) \in SlotsOf(next)
    BY <1>1, <1>3, NobodyRunsAfterSlice DEF SamePlaces, SlotsOf, ReadySlots
  <1>5. Chosen \in SlotsOf(next)
    BY <1>4, FoundSlot DEF Chosen
  <1>6. QED
    BY <1>3, <1>4, <1>5 DEF SlotsOf

-----------------------------------------------------------------------------
LEMMA InitInv == Init => Inv
  <1> SUFFICES ASSUME Init PROVE Inv
    OBVIOUS
  <1>1. FreeSlots = Slot
    BY DEF Init, FreeSlots
  <1>2. CountMatches
    BY <1>1, FreeSlotsFinite, SchedulerAssumption DEF Init, CountMatches
  <1>3. [pid |-> 0, state |-> "terminated", priority |-> 1, active |-> FALSE] \in Pcb
    BY SchedulerAssumption DEF Pcb, States, Pids
  <1>4. process_table \in [Slot -> Pcb]
    BY <1>3 DEF Init
  <1>5. TypeOK
    <2>1. next_pid \in Pids /\ current_pid \in Pids
      <3>1. next_pid = 1 /\ current_pid = 0
        BY DEF Init
      <3>2. QED
        BY <3>1, SchedulerAssumption DEF Pids
    <2>2. expired \in BOOLEAN
      BY Zenon DEF Init
    <2>3. strays \subseteq Slot
      BY DEF Init
    <2>4. QED
      BY <1>2, <1>4, <2>1, <2>2, <2>3 DEF TypeOK, Pcb
  <1>6. QED
    BY <1>5 DEF Init, Inv, PidsIdentify, RunnerHasPid, RunningIsCurrent

LEMMA CreateInv ==
  ASSUME Inv, NEW p \in Priorities, process_create(p)
  PROVE  Inv'
  <1> DEFINE s == Least(FreeSlots)
             pcb == [pid |-> next_pid, state |-> "ready", priority |-> p, active |-> TRUE]
  <1>1. s \in FreeSlots /\ s \in Slot /\ ~process_table[s].active
    <2>1. FreeSlots \in SUBSET Slot /\ FreeSlots # {}
      BY DEF FreeSlots, process_create
    <2>2. QED
      BY <2>1, LeastIsFirst DEF FreeSlots
  <1>2. pcb \in Pcb
    BY DEF Inv, TypeOK, Pcb, States, process_create
  <1> HIDE DEF s, pcb
  <1>3. process_table' = [process_table EXCEPT ![s] = pcb]
    BY DEF process_create, s, pcb
  <1>4. \A t \in Slot : process_table'[t] = IF t = s THEN pcb ELSE process_table[t]
    BY <1>3 DEF Inv, TypeOK
  <1>5. pcb.pid = next_pid /\ pcb.state = "ready" /\ pcb.active
    BY DEF pcb
  <1>6. FreeSlots' = FreeSlots \ {s}
    BY <1>1, <1>4, <1>5 DEF FreeSlots
  <1>7. Cardinality(FreeSlots') = Cardinality(FreeSlots) - 1
    BY <1>1, <1>6, FreeSlotsFinite, FS_RemoveElement
  <1>8. Cardinality(FreeSlots) \in Nat
    BY FreeSlotsFinite, FS_CardinalityType
  <1>9. CountMatches'
    BY <1>7, <1>8, SchedulerAssumption DEF process_create, Inv, TypeOK, CountMatches
  <1>10. process_table' \in [Slot -> Pcb]
    BY <1>1, <1>2, <1>3 DEF Inv, TypeOK, Pcb
  <1>11. TypeOK'
    <2>1. next_pid' \in Pids
      BY SchedulerAssumption DEF process_create, Inv, TypeOK, Pids
    <2>2. strays' \subseteq Slot
      BY <1>1 DEF process_create, Inv, TypeOK, SlotsOf, s
    <2>3. QED
      BY <1>9, <1>10, <2>1, <2>2 DEF process_create, Inv, TypeOK, Pcb
  <1> DEFINE same == SlotsOf(next_pid)
  <1>12. ASSUME NEW t \in Slot, t \notin strays'
         PROVE  (t = s /\ same = {}) \/ (t # s /\ t \notin strays /\ t \notin same)
    <2>1. strays' = (strays \ {s}) \cup (IF same = {} THEN {} ELSE same \cup {s})
      BY DEF process_create, s
    <2> HIDE DEF same
    <2>2. QED
      BY <1>12, <2>1
  <1>13. \A t \in Slot : t \in same <=> process_table[t].active /\ process_table[t].pid = next_pid
    BY DEF SlotsOf
  <1> HIDE DEF same
  <1>14. PidsIdentify'
    BY <1>1, <1>4, <1>5, <1>12, <1>13 DEF Inv, PidsIdentify
  <1>15. RunningIsCurrent' /\ RunnerHasPid'
    BY <1>4, <1>5, <1>12 DEF Inv, RunningIsCurrent, RunnerHasPid, process_create
  <1>16. QED
    BY <1>11, <1>14, <1>15 DEF Inv

LEMMA TerminateInv ==
  ASSUME Inv, NEW pid \in Pids, process_terminate(pid)
  PROVE  Inv'
  <1> DEFINE s == Found(pid)
  <1>1. s \in Slot /\ process_table[s].active
    BY FoundSlot DEF Inv, process_terminate, SlotsOf
  <1> HIDE DEF s
  <1>2. process_table \in [Slot -> Pcb]
    BY DEF Inv, TypeOK, Pcb
  <1>3. process_table' = [process_table EXCEPT ![s].state = "terminated", ![s].active = FALSE]
    BY DEF process_terminate, s
  <1>4. process_table' \in [Slot -> Pcb]
    <2>1. "terminated" \in States
      BY DEF States
    <2>2. QED
      BY <1>1, <1>2, <1>3, <2>1, Zenon DEF Pcb
  <1>5. \A t \in Slot : t # s => process_table'[t] = process_table[t]
    BY <1>2, <1>3
  <1>6. ~process_table'[s].active
    BY <1>1, <1>2, <1>3 DEF Pcb
  <1>7. s \notin FreeSlots /\ FreeSlots' = FreeSlots \cup {s}
    BY <1>1, <1>5, <1>6, SMTT(30) DEF FreeSlots
  <1>8. Cardinality(FreeSlots') = Cardinality(FreeSlots) + 1
    BY <1>7, FreeSlotsFinite, FS_AddElement
  <1>9. Cardinality(FreeSlots) \in Nat
    BY FreeSlotsFinite, FS_CardinalityType
  <1>10. CountMatches'
    BY <1>8, <1>9, SchedulerAssumption DEF process_terminate, Inv, TypeOK, CountMatches
  <1>11. TypeOK'
    BY <1>4, <1>10, SMTT(40) DEF process_terminate, Inv, TypeOK, Pcb
  <1>12. PidsIdentify' /\ RunningIsCurrent' /\ RunnerHasPid'
    BY <1>5, <1>6, ZenonT(40) DEF Inv, PidsIdentify, RunningIsCurrent, RunnerHasPid, process_terminate
  <1>13. QED
    BY <1>11, <1>12 DEF Inv

LEMMA SetStateInv ==
  ASSUME Inv, NEW pid \in Pids, NEW state \in SetStates, process_set_state(pid, state)
  PROVE  Inv'
  <1>1. state \in States
    BY SchedulerAssumption
  <1>2. process_table \in [Slot -> Pcb] /\ PidsIdentify
    BY DEF Inv, TypeOK, Pcb
  <1>3. SamePlaces(process_table, process_table')
    BY <1>1, <1>2, WithStateKeepsPlaces DEF process_set_state
  <1>4. \A s \in Slot : process_table'[s].state = IF s = Found(pid) THEN state ELSE process_table[s].state
    BY <1>1, <1>2, WithStateStates DEF process_set_state
  <1>5. strays \subseteq strays' /\ strays' \subseteq Slot
    BY FoundSlot DEF process_set_state, Inv, TypeOK
  <1>6. TypeOK' /\ PidsIdentify'
    BY <1>3, <1>5, PlacesKeepPids DEF Inv, TypeOK, process_set_state
  <1>7. ASSUME NEW s \in Slot \ strays', process_table'[s].state = "running"
        PROVE  process_table[s].state = "running" /\ s \notin strays
    BY <1>4, <1>5, <1>7 DEF process_set_state
  <1>8. RunningIsCurrent' /\ RunnerHasPid'
    BY <1>3, <1>7 DEF Inv, RunningIsCurrent, RunnerHasPid, SamePlaces, process_set_state
  <1>9. QED
    BY <1>6, <1>8 DEF Inv

LEMMA YieldInv ==
  ASSUME Inv, process_yield
  PROVE  Inv'
  <1>1. "ready" \in States
    BY DEF States
  <1>2. process_table \in [Slot -> Pcb] /\ PidsIdentify
    BY DEF Inv, TypeOK, Pcb
  <1>3. SamePlaces(process_table, process_table')
    BY <1>1, <1>2, WithStateKeepsPlaces DEF process_yield
  <1>4. \A s \in Slot : process_table'[s].state =
          IF SlotsOf(current_pid) # {} /\ s = Found(current_pid) THEN "ready" ELSE process_table[s].state
    BY <1>1, <1>2, WithStateStates DEF process_yield
  <1>5. current_pid' \in Pids /\ strays' = strays
    BY SchedulerAssumption DEF process_yield, Pids
  <1>6. TypeOK' /\ PidsIdentify'
    BY <1>3, <1>5, PlacesKeepPids DEF Inv, TypeOK, process_yield
  <1>7. ASSUME NEW s \in Slot \ strays, process_table'[s].active, process_table'[s].state = "running"
        PROVE  FALSE
    <2>1. process_table[s].active /\ process_table[s].state = "running"
      BY <1>3, <1>4, <1>7 DEF SamePlaces
    <2>2. process_table[s].pid = current_pid
      BY <2>1 DEF Inv, RunningIsCurrent
    <2>3. QED
      BY <1>2, <1>4, <1>7, <2>1, <2>2, OwnSlot
  <1>8. QED
    BY <1>5, <1>6, <1>7 DEF Inv, RunningIsCurrent, RunnerHasPid

(* With nobody to run, and with the current process still the one to run. *)
LEMMA NoSwitchInv ==
  ASSUME Inv, process_table' = AfterSlice, current_pid' \in Pids,
         UNCHANGED <<next_pid, process_count, expired, strays>>
  PROVE  Inv'
  <1>1. SamePlaces(process_table, process_table')
    BY NobodyRunsAfterSlice
  <1>2. TypeOK' /\ PidsIdentify'
    BY <1>1, PlacesKeepPids DEF Inv, TypeOK
  <1>3. RunningIsCurrent' /\ RunnerHasPid'
    BY NobodyRunsAfterSlice DEF RunningIsCurrent, RunnerHasPid
  <1>4. QED
    BY <1>2, <1>3 DEF Inv

(* What the table is after a switch. *)
LEMMA SwitchTable ==
  ASSUME Inv, scheduler_switch
  PROVE  /\ Chosen \in Slot
         /\ SamePlaces(process_table, process_table')
         /\ process_table'[Chosen].state = "running"
         /\ \A s \in Slot \ {Chosen} : process_table'[s].state = AfterSlice[s].state
  <1>1. Chosen \in Slot
    BY ChosenIsBest DEF scheduler_switch
  <1>2. process_table' = [AfterSlice EXCEPT ![Chosen].state = "running"]
    BY DEF scheduler_switch, Chosen
  <1>3. SamePlaces(process_table, AfterSlice) /\ AfterSlice \in [Slot -> Pcb]
    BY NobodyRunsAfterSlice DEF SamePlaces
  <1>4. AfterSlice[Chosen] \in Pcb /\ "running" \in States
    BY <1>1, <1>3 DEF States
  <1> DEFINE pcb == [AfterSlice[Chosen] EXCEPT !.state = "running"]
  <1>5. /\ pcb \in Pcb /\ pcb.state = "running"
        /\ pcb.pid = AfterSlice[Chosen].pid /\ pcb.priority = AfterSlice[Chosen].priority
        /\ pcb.active = AfterSlice[Chosen].active
    BY <1>4, Zenon DEF Pcb
  <1>6. process_table' = [AfterSlice EXCEPT ![Chosen] = pcb]
    BY <1>2
  <1> HIDE DEF pcb
  <1>7. QED
    BY <1>1, <1>3, <1>5, <1>6 DEF SamePlaces

LEMMA SwitchInv ==
  ASSUME Inv, scheduler_switch, UNCHANGED <<next_pid, process_count, strays>>
  PROVE  Inv'
  <1>1. /\ Chosen \in Slot /\ process_table[Chosen].active
        /\ process_table[Chosen].pid = current_pid' /\ current_pid' # 0
    BY ChosenIsBest DEF scheduler_switch
  <1>2. current_pid' \in Pids
    BY <1>1 DEF Inv, TypeOK
  <1>3. TypeOK' /\ PidsIdentify'
    BY <1>2, SwitchTable, PlacesKeepPids DEF Inv, TypeOK, scheduler_switch
  <1>4. ASSUME NEW s \in Slot \ strays, process_table'[s].active, process_table'[s].state = "running"
        PROVE  process_table'[s].pid = current_pid' /\ current_pid' # 0
    <2>1. CASE s = Chosen
      BY <1>1, <2>1, SwitchTable DEF SamePlaces
    <2>2. CASE s # Chosen
      BY <1>4, <2>2, SwitchTable, NobodyRunsAfterSlice DEF SamePlaces
    <2>3. QED
      BY <2>1, <2>2
  <1>5. QED
    BY <1>3, <1>4 DEF Inv, RunningIsCurrent, RunnerHasPid

LEMMA NextInv == Inv /\ [Next]_vars => Inv'
  <1> SUFFICES ASSUME Inv, [Next]_vars PROVE Inv'
    OBVIOUS
  <1>1. ASSUME NEW p \in Priorities, process_create(p) PROVE Inv'
    BY <1>1, CreateInv
  <1>2. ASSUME NEW pid \in Pids, process_terminate(pid) PROVE Inv'
    BY <1>2, TerminateInv
  <1>3. ASSUME NEW pid \in Pids, NEW state \in SetStates, process_set_state(pid, state) PROVE Inv'
    BY <1>3, SetStateInv
  <1>4. CASE process_yield
    BY <1>4, YieldInv
  <1>5. CASE scheduler_run
    <2>1. CASE scheduler_idle
      BY <1>5, <2>1, NoSwitchInv, SchedulerAssumption DEF scheduler_run, scheduler_idle, Pids
    <2>2. CASE scheduler_keeps
      BY <1>5, <2>2, NoSwitchInv DEF scheduler_run, scheduler_keeps, Inv, TypeOK
    <2>3. CASE scheduler_switch
      BY <1>5, <2>3, SwitchInv DEF scheduler_run
    <2>4. QED
      BY <1>5, <2>1, <2>2, <2>3 DEF scheduler_run
  <1>6. CASE quantum_passes
    BY <1>6 DEF quantum_passes, Inv, TypeOK, CountMatches, FreeSlots, PidsIdentify, RunnerHasPid, RunningIsCurrent
  <1>7. CASE UNCHANGED vars
    BY <1>7 DEF vars, Inv, TypeOK, CountMatches, FreeSlots, PidsIdentify, RunnerHasPid, RunningIsCurrent
  <1>8. QED
    BY <1>1, <1>2, <1>3, <1>4, <1>5, <1>6, <1>7 DEF Next

(* The process table is well formed, and process_count is the number of slots
   in use, for any number of slots and of pid values. *)
THEOREM TypeCorrect == Spec => []TypeOK
  <1>1. Inv => TypeOK
    BY DEF Inv
  <1>2. QED
    BY <1>1, InitInv, NextInv, PTL DEF Spec

(* Whatever callers create, end, block and yield, a process that is marked
   running is the current one, unless a caller set the mark or its pid came round
   to another live process: for any number of slots and pid values, wrap included. *)
THEOREM OnlyCurrentRuns == Spec => []RunningIsCurrent
  <1>1. Inv => RunningIsCurrent
    BY DEF Inv
  <1>2. QED
    BY <1>1, InitInv, NextInv, PTL DEF Spec

-----------------------------------------------------------------------------
Prefers ==
  current_pid' \notin {0, current_pid} =>
    \A s \in Slot : SlotsOf(current_pid') = {s} =>
      \A t \in ReadySlots(process_table) : process_table[t].priority <= process_table[s].priority

LEMMA StepPrefers == Inv /\ [Next]_vars => [Prefers]_vars
  <1> SUFFICES ASSUME Inv, [Next]_vars PROVE Prefers
    OBVIOUS
  <1>1. CASE scheduler_run
    <2>1. CASE scheduler_idle \/ scheduler_keeps
      BY <2>1 DEF scheduler_idle, scheduler_keeps, Prefers
    <2>2. CASE scheduler_switch
      <3>1. ASSUME NEW s \in Slot, SlotsOf(current_pid') = {s}, NEW t \in ReadySlots(process_table)
            PROVE  process_table[t].priority <= process_table[s].priority
        <4>1. t \in ReadySlots(AfterSlice) /\ t \in Slot
          BY <3>1, NobodyRunsAfterSlice DEF ReadySlots, SamePlaces
        <4>2. AfterSlice[t].priority <= AfterSlice[s].priority
          BY <2>2, <3>1, <4>1, ChosenIsBest DEF scheduler_switch
        <4>3. QED
          BY <4>1, <4>2, NobodyRunsAfterSlice DEF SamePlaces
      <3>2. QED
        BY <3>1 DEF Prefers
    <2>3. QED
      BY <1>1, <2>1, <2>2 DEF scheduler_run
  <1>2. CASE ~scheduler_run
    BY <1>2 DEF Next, process_create, process_terminate, process_set_state, process_yield,
                quantum_passes, vars, Prefers
  <1>3. QED
    BY <1>1, <1>2

(* When the scheduler turns to a process that has its pid for itself, no ready
   process has a higher priority. *)
THEOREM HigherPriorityFirst == Spec => PriorityRespected
  <1>1. [Prefers]_vars => [current_pid' \notin {0, current_pid} =>
          \A s \in Slot : SlotsOf(current_pid') = {s} =>
            \A t \in ReadySlots(process_table) :
              process_table[t].priority <= process_table[s].priority]_vars
    BY DEF Prefers
  <1>2. QED
    BY <1>1, InitInv, NextInv, StepPrefers, PTL DEF Spec, PriorityRespected
=============================================================================
