---------------------------- MODULE TerminalText ----------------------------
(***************************************************************************)
(* What is typed and what runs in the terminal: the line editor of the     *)
(* windows, and the two programs that Enter may start and that then have   *)
(* the terminal to themselves - nano until it is left, a script until its  *)
(* end.                                                                    *)
(*                                                                         *)
(* Windows that open and close under a program are ShellSessions'.         *)
(***************************************************************************)
EXTENDS LineEditor, NanoEditor, ScriptRunner

CONSTANT Program   \* the command line that starts nano, or a script

vars == <<lineVars, nanoVars, scriptVars>>

(* Bound: between two starts of nano its file and the size of its window are
   not told apart; a start picks both. *)
NanoRests == nano = NanoOff /\ height = Max(Heights) /\ file = NoFile /\ cut = FALSE

Init == LineInit /\ NanoRests /\ NoScript

AtPrompt == NanoRests /\ script = <<>>

(* Bound: programs are started in the first window, with nothing to remember,
   where no history file is.  They do not look at any of this. *)
ProgramBound ==
  /\ active_terminal = 0 /\ Live = {0} /\ term[active_terminal].history = <<>>
  /\ term[active_terminal].line = Program
  /\ histfile = [n \in Names |-> NULL]

(* A command line that starts a program is a command line like any other. *)
NanoTarget ==
  /\ AtPrompt /\ ProgramBound
  /\ height' \in Heights /\ file' \in Files
  /\ UNCHANGED <<lineVars, nano, cut, scriptVars>>

StartNano ==
  /\ ~nano.active /\ file # NoFile /\ ProgramBound
  /\ terminal_handle_enter
  /\ cmd_nano
  /\ UNCHANGED scriptVars

NanoLeft ==
  /\ ~nano.active /\ ~NanoRests /\ ~ProgramBound
  /\ nano' = NanoOff /\ height' = Max(Heights) /\ file' = NoFile /\ cut' = FALSE
  /\ UNCHANGED <<lineVars, scriptVars>>

StartScript ==
  /\ AtPrompt /\ ProgramBound
  /\ terminal_handle_enter
  /\ cmd_run
  /\ UNCHANGED nanoVars

Next ==
  \/ AtPrompt /\ LineNext /\ UNCHANGED <<nanoVars, scriptVars>>
  \/ NanoTarget \/ StartNano \/ NanoLeft \/ StartScript
  \/ NanoKey /\ UNCHANGED <<lineVars, scriptVars>>
  \/ nano.active /\ WindowResized /\ UNCHANGED <<lineVars, scriptVars>>
  \/ ScriptStep /\ UNCHANGED <<lineVars, nanoVars>>

Spec == Init /\ [][Next]_vars

(* Type invariant, of all three. *)
TypeOK == LineTypeOK /\ NanoTypeOK /\ ScriptTypeOK

=============================================================================
