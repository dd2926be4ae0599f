---------------------------- MODULE MCEspProcess ----------------------------
(* EspProcess for TLC.  Neither the creating tasks nor the control blocks are
   told apart by anything but their identity.  The view leaves out what no
   later step and no property reads: what process_create returned, the pid and
   state of a slot that was given back, and the storage of a freed control
   block, which xTaskCreate clears. *)
EXTENDS EspProcess, TLC

Interchangeable == Permutations(Creators) \cup Permutations(Handles)

Read ==
  <<[s \in Slot |-> IF process_table[s].active
                    THEN process_table[s]
                    ELSE [process_table[s] EXCEPT !.pid = 0, !.state = "terminated"]],
    next_pid, process_count, task,
    [c \in Creators |-> [creator[c] EXCEPT !.answer = 0]],
    [t \in DOMAIN tls |-> IF t \in Handles /\ task[t].pc = "none" THEN NULL ELSE tls[t]]>>
=============================================================================
