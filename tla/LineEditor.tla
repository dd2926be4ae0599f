----------------------------- MODULE LineEditor -----------------------------
(***************************************************************************)
(* The line every window edits (terminal.c): the text and its cursor, the  *)
(* commands the window remembers, the end of one of them it suggests, and  *)
(* the history file the windows share.                                     *)
(*                                                                         *)
(* Names of the module carry no prefix of their own except those that      *)
(* TerminalText, which composes it with the programs that take the keys,   *)
(* needs apart.                                                            *)
(***************************************************************************)
EXTENDS Naturals, FiniteSets, Sequences, SequencesExt

CONSTANTS
  Windows,     \* 0..max_windows-1
  Chars,       \* printable characters
  Cols,        \* terminal_cols: a line has one character less
  MaxHistory,  \* max_input_history
  Typed,       \* bound: the lines a typed character may make
  Commands,    \* bound: the lines Enter comes after
  Saved,       \* bound: the history files a line is added to
  Template,    \* the name used while /etc/passwd names nobody: "user"
  Account,     \* the name first boot writes there
  GoOnAfterFault, \* bound: whether anything but power going follows a fault
  NULL

Lines == UNION {[1..n -> Chars] : n \in 0..(Cols - 1)}

ASSUME LineAssumption ==
  /\ Cardinality(Windows) \in Nat \ {0} /\ Windows = 0..(Cardinality(Windows) - 1)
  /\ Cols \in Nat \ {0, 1} /\ MaxHistory \in Nat \ {0}
  /\ Commands \subseteq Lines \ {<<>>}
  /\ GoOnAfterFault \in BOOLEAN
  /\ Template # Account /\ NULL \notin {Template, Account}

VARIABLES
  term,             \* the windows
  active_terminal,
  passwd,           \* the name in /etc/passwd, or NULL
  history_path,     \* whose history file this is the path of
  histfile,         \* the lines of the history file in the home of a name, as a window would
                    \* read them, NULL if there is no file
  torn,             \* whether the last of them has no end
  missed            \* history variable: since power came a line was written or read in part

fileVars == <<histfile, torn, missed>>
lineVars == <<term, active_terminal, passwd, history_path, fileVars>>

Names == {Template, Account}

Live == {w \in Windows : term[w].active}

-----------------------------------------------------------------------------
(* What a window remembers. *)

(* terminal_history_push: the oldest goes when the ring is full. *)
terminal_history_push(t, line) ==
  LET kept == IF Len(t.history) < MaxHistory THEN t.history ELSE Tail(t.history)
  IN  IF line = <<>> THEN t
      ELSE [t EXCEPT !.history = Append(kept, line), !.history_pos = Len(kept) + 1]

(* The path is made when boot opens its window, and kept until power goes; a
   card error reads like a passwd that names nobody. *)
terminal_history_get_path == {Template, IF passwd = NULL THEN Template ELSE passwd}

(* terminal_history_load, into a window that remembers nothing yet: the last
   of the lines read. *)
LastLines(lines) ==
  SubSeq(lines, IF Len(lines) < MaxHistory THEN 1 ELSE Len(lines) - MaxHistory + 1, Len(lines))

terminal_history_load(t, lines) ==
  IF lines = NULL THEN t
  ELSE [t EXCEPT !.history = LastLines(lines), !.history_pos = Len(LastLines(lines))]

(* It reads nothing when the file cannot be opened, and after a read error what
   came before, perhaps with a part of a line. *)
ReadInPart(file) ==
  {NULL, <<>>} \cup
  UNION {{Append(SubSeq(file, 1, i - 1), SubSeq(file[i], 1, n)) : n \in 1..Len(file[i])} : i \in DOMAIN file}

MayRead(file) == {file} \cup IF file = NULL THEN {} ELSE ReadInPart(file)

(* Opened for append: sd_open asks for FILE_WRITE, which begins the file anew in
   some versions of the library.  A line without an end goes on with the next. *)
AddsToTorn(kept) == torn[history_path] /\ kept # <<>>

Written(kept, text, ended) ==
  LET line == IF AddsToTorn(kept) THEN Last(kept) \o text ELSE text
      seen == SubSeq(line, 1, IF Len(line) < Cols THEN Len(line) ELSE Cols - 1)
      before == IF AddsToTorn(kept) THEN Front(kept) ELSE kept
  IN  /\ histfile' = [histfile EXCEPT ![history_path] = IF seen = <<>> THEN before ELSE Append(before, seen)]
      /\ torn' = [torn EXCEPT ![history_path] = seen # <<>> /\ ~ended]

(* The file is written if it is there: vfs_open does not create it.  Nobody looks
   whether it was opened, the line written, and its end. *)
terminal_history_append_persistent(line) ==
  \/ /\ line = <<>> \/ histfile[history_path] = NULL
     /\ UNCHANGED fileVars
  \/ /\ line # <<>> /\ histfile[history_path] # NULL
     /\ missed' = TRUE
     /\ UNCHANGED <<histfile, torn>>
  \/ /\ line # <<>> /\ histfile[history_path] # NULL
     /\ \E kept \in {histfile[history_path], <<>>} :
          \/ Written(kept, line, TRUE) /\ missed' = (missed \/ AddsToTorn(kept))
          \/ /\ missed' = TRUE
             /\ \E n \in 0..Len(line), ended \in BOOLEAN :
                  (n < Len(line) \/ ~ended) /\ Written(kept, SubSeq(line, 1, n), ended)

-----------------------------------------------------------------------------
(* What a window suggests: the rest of the last command that starts as the
   line does. *)
Fits(line, cmd) == Len(cmd) > Len(line) /\ IsPrefix(line, cmd)

terminal_update_autocomplete(t) ==
  LET fitting == {i \in DOMAIN t.history : t.line # <<>> /\ Fits(t.line, t.history[i])}
      last == CHOOSE i \in fitting : \A j \in fitting : j <= i
  IN  [t EXCEPT !.base_len = Len(t.line), !.applied = FALSE,
                !.suffix = IF fitting = {} THEN <<>>
                           ELSE SubSeq(t.history[last], Len(t.line) + 1, Len(t.history[last]))]

ClosedWindow ==
  [active |-> FALSE, line |-> <<>>, pos |-> 0, history |-> <<>>, history_pos |-> 0,
   suffix |-> <<>>, base_len |-> 0, applied |-> FALSE]

NewWindow(lines) == terminal_history_load([ClosedWindow EXCEPT !.active = TRUE], lines)

(* A card with an account or, before first boot, with the template home. *)
LineInit ==
  /\ passwd \in {NULL, Account}
  /\ \E file \in {NULL} \cup {<<l>> : l \in Commands} :
       histfile = [n \in Names |-> IF n = (IF passwd = NULL THEN Template ELSE passwd) THEN file ELSE NULL]
  /\ torn = [n \in Names |-> FALSE] /\ missed = FALSE
  /\ active_terminal = 0
  /\ history_path = IF passwd = NULL THEN Template ELSE passwd
  /\ term = [w \in Windows |-> IF w = 0 THEN NewWindow(histfile[history_path]) ELSE ClosedWindow]

-----------------------------------------------------------------------------
(* Keys that reach the shell (terminal_input.c:138): none before first boot
   has made an account. *)
ShellHasKeys == term[active_terminal].active /\ passwd # NULL

Edit(t) ==
  /\ term' = [term EXCEPT ![active_terminal] = t]
  /\ UNCHANGED <<active_terminal, passwd, history_path, fileVars>>

(* Mutant of terminal_handle_key: the last column is typed into as well. *)
KeyInLastColumn(c) ==
  LET t == term[active_terminal]
  IN  /\ ShellHasKeys
      /\ Len(t.line) <= Cols - 1
      /\ Edit(terminal_update_autocomplete(
                [t EXCEPT !.line = InsertAt(t.line, t.pos + 1, c), !.pos = @ + 1]))

terminal_handle_key(c) ==
  LET t == term[active_terminal]
      line == InsertAt(t.line, t.pos + 1, c)
  IN  /\ ShellHasKeys
      /\ Len(t.line) < Cols - 1 /\ line \in Typed
      /\ Edit(terminal_update_autocomplete([t EXCEPT !.line = line, !.pos = @ + 1]))

(* Mutant of terminal_handle_backspace: the suggestion is not looked up again. *)
BackspaceKeepsSuggestion ==
  LET t == term[active_terminal]
  IN  /\ ShellHasKeys
      /\ t.pos > 0
      /\ Edit([t EXCEPT !.line = RemoveAt(t.line, t.pos), !.pos = @ - 1])

terminal_handle_backspace ==
  LET t == term[active_terminal]
  IN  /\ ShellHasKeys
      /\ t.pos > 0
      /\ Edit(terminal_update_autocomplete(
                [t EXCEPT !.line = RemoveAt(t.line, t.pos), !.pos = @ - 1]))

Recalled(t, i) ==
  LET line == IF i < Len(t.history) THEN t.history[i + 1] ELSE <<>>
  IN  terminal_update_autocomplete([t EXCEPT !.history_pos = i, !.line = line, !.pos = Len(line)])

terminal_handle_arrow_up ==
  LET t == term[active_terminal]
  IN  /\ ShellHasKeys
      /\ t.history_pos > 0
      /\ Edit(Recalled(t, t.history_pos - 1))

terminal_handle_arrow_down ==
  LET t == term[active_terminal]
  IN  /\ ShellHasKeys
      /\ t.history_pos < Len(t.history)
      /\ Edit(Recalled(t, t.history_pos + 1))

(* Left takes a suggestion back that Right accepted, and else moves. *)
terminal_handle_arrow_left ==
  LET t == term[active_terminal]
      takesBack == /\ t.applied /\ t.pos = Len(t.line)
                   /\ Len(t.line) = t.base_len + Len(t.suffix)
  IN  /\ ShellHasKeys
      /\ \/ /\ takesBack
            /\ Edit(terminal_update_autocomplete(
                      [t EXCEPT !.line = SubSeq(@, 1, t.base_len), !.pos = t.base_len]))
         \/ /\ ~takesBack /\ t.pos > 0
            /\ Edit([t EXCEPT !.pos = @ - 1])

terminal_handle_arrow_right ==
  LET t == term[active_terminal]
      room == Cols - 1 - Len(t.line)
      added == SubSeq(t.suffix, 1, IF Len(t.suffix) > room THEN room ELSE Len(t.suffix))
      accepts == t.pos = Len(t.line) /\ ~t.applied /\ added # <<>>
  IN  /\ ShellHasKeys
      /\ \/ /\ accepts
            /\ Edit([t EXCEPT !.line = @ \o added, !.pos = Len(t.line \o added),
                              !.suffix = added, !.applied = TRUE])
         \/ /\ ~accepts /\ t.pos < Len(t.line)
            /\ Edit([t EXCEPT !.pos = @ + 1])

(* Enter: the line is remembered by every open window and in the file, and
   taken off the window; then it is executed. *)
LineEntered(t) ==
  [t EXCEPT !.line = <<>>, !.pos = 0, !.suffix = <<>>, !.base_len = 0, !.applied = FALSE]

Remembered(line) ==
  [w \in Windows |->
     IF w = active_terminal THEN LineEntered(terminal_history_push(term[w], line))
     ELSE IF term[w].active THEN terminal_history_push(term[w], line)
     ELSE term[w]]

EnterBound(line) ==
  LET file == histfile[history_path]
  IN  line # <<>> => line \in Commands /\ file \in Saved \cup {NULL}

(* Mutant of terminal_handle_enter: the other windows are not told. *)
EnterOwnWindow ==
  LET line == term[active_terminal].line
  IN  /\ ShellHasKeys /\ EnterBound(line)
      /\ term' = [term EXCEPT ![active_terminal] = LineEntered(terminal_history_push(@, line))]
      /\ terminal_history_append_persistent(line)
      /\ UNCHANGED <<active_terminal, passwd, history_path>>

terminal_handle_enter ==
  LET line == term[active_terminal].line
  IN  /\ ShellHasKeys /\ EnterBound(line)
      /\ term' = Remembered(line)
      /\ terminal_history_append_persistent(line)
      /\ UNCHANGED <<active_terminal, passwd, history_path>>

(* Commands that matter here: clear forgets what its own window remembers,
   touch makes the history file of the account. *)
cmd_clear ==
  LET line == term[active_terminal].line
  IN  /\ ShellHasKeys /\ line # <<>> /\ EnterBound(line)
      /\ term' = [Remembered(line) EXCEPT ![active_terminal].history = <<>>,
                                          ![active_terminal].history_pos = 0]
      /\ terminal_history_append_persistent(line)
      /\ UNCHANGED <<active_terminal, passwd, history_path>>

TouchHistory ==
  LET line == term[active_terminal].line
  IN  /\ ShellHasKeys /\ line \in Commands /\ histfile[passwd] = NULL
      /\ term' = Remembered(line)
      /\ histfile' = [histfile EXCEPT ![passwd] = <<>>]
      /\ UNCHANGED <<active_terminal, passwd, history_path, torn, missed>>

-----------------------------------------------------------------------------
(* Windows, first boot and power. *)
OpenWindow ==
  LET w == CHOOSE w \in Windows \ Live : \A v \in Windows \ Live : w <= v
      file == histfile[history_path]
  IN  /\ Live # Windows
      /\ \E lines \in MayRead(file) :
           /\ missed' = (missed \/ lines # file)
           /\ term' = [term EXCEPT ![w] = NewWindow(lines)]
      /\ active_terminal' = w
      /\ UNCHANGED <<passwd, history_path, histfile, torn>>

(* What a closed window holds is not read again: the slot is wiped when it is
   used next. *)
CloseWindow ==
  LET left == Live \ {active_terminal}
  IN  /\ Live # {}
      /\ term' = [term EXCEPT ![active_terminal] = ClosedWindow]
      /\ active_terminal' = IF left = {} THEN 0 ELSE CHOOSE w \in left : \A v \in left : w <= v
      /\ UNCHANGED <<passwd, history_path, fileVars>>

SelectWindow ==
  /\ active_terminal' \in Live \ {active_terminal}
  /\ UNCHANGED <<term, passwd, history_path, fileVars>>

(* First boot renames the template home to the account's. *)
FirstbootDone ==
  /\ passwd = NULL /\ term[active_terminal].active
  /\ passwd' = Account
  /\ histfile' = [histfile EXCEPT ![Account] = histfile[Template], ![Template] = NULL]
  /\ torn' = [torn EXCEPT ![Account] = torn[Template], ![Template] = FALSE]
  /\ UNCHANGED <<term, active_terminal, history_path, missed>>

(* Power goes and comes back; boot opens a window. *)
Reboot ==
  /\ active_terminal' = 0
  /\ history_path' \in terminal_history_get_path
  /\ \E lines \in MayRead(histfile[history_path']) :
       /\ missed' = (lines # histfile[history_path'])
       /\ term' = [w \in Windows |-> IF w = 0 THEN NewWindow(lines) ELSE ClosedWindow]
  /\ UNCHANGED <<passwd, histfile, torn>>

LineKey ==
  \/ \E c \in Chars : terminal_handle_key(c)
  \/ terminal_handle_backspace
  \/ terminal_handle_arrow_up \/ terminal_handle_arrow_down
  \/ terminal_handle_arrow_left \/ terminal_handle_arrow_right
  \/ terminal_handle_enter \/ cmd_clear \/ TouchHistory

LineNext ==
  \/ /\ missed => GoOnAfterFault
     /\ LineKey \/ OpenWindow \/ CloseWindow \/ SelectWindow \/ FirstbootDone
  \/ Reboot

-----------------------------------------------------------------------------
(* Type invariant. *)
Windowed ==
  [active : BOOLEAN, line : Lines, pos : 0..(Cols - 1),
   history : UNION {[1..n -> Lines \ {<<>>}] : n \in 0..MaxHistory}, history_pos : 0..MaxHistory,
   suffix : Lines, base_len : 0..(Cols - 1), applied : BOOLEAN]

LineTypeOK ==
  /\ \A w \in Windows :
       /\ term[w].active \in BOOLEAN /\ term[w].applied \in BOOLEAN
       /\ term[w].line \in Lines /\ term[w].suffix \in Lines
       /\ term[w].pos \in 0..Len(term[w].line)
       /\ \A i \in DOMAIN term[w].history : term[w].history[i] \in Lines \ {<<>>}
       /\ Len(term[w].history) <= MaxHistory
       /\ term[w].history_pos \in 0..Len(term[w].history)
       /\ term[w].base_len \in 0..(Cols - 1)
  /\ active_terminal \in Windows
  /\ passwd \in Names \cup {NULL} /\ history_path \in Names
  /\ \A n \in Names :
       histfile[n] # NULL => \A i \in DOMAIN histfile[n] : histfile[n][i] \in Lines \ {<<>>}
  /\ torn \in [Names -> BOOLEAN] /\ missed \in BOOLEAN

(* A suggestion always fits the line it is shown after or was added to: what
   Left takes off the line is exactly what Right put there, whatever keys and
   whatever other windows' commands came between. *)
SuggestionFits ==
  \A w \in Windows :
    LET t == term[w]
    IN  t.suffix # <<>> =>
          IF t.applied THEN /\ t.pos = Len(t.line)
                            /\ Len(t.line) = t.base_len + Len(t.suffix)
                            /\ IsSuffix(t.suffix, t.line)
          ELSE Len(t.line) = t.base_len /\ Len(t.line) + Len(t.suffix) < Cols

(* The shorter of two histories is the end of the longer. *)
EndsAlike(s, t) == IsSuffix(s, t) \/ IsSuffix(t, s)

(* As long as every line since power came went whole to the history file, not
   behind one an earlier fault left without an end, and every window read what
   the file had, the open windows remember the same last commands, and the
   account's file has them too, so that the next window and the next boot find
   them: faults before power went leave no trace in this.  The file is not meant
   where the path leads to another home, because first boot had not yet named the
   account when it was made, or the card failed (terminal.c:214). *)
HistoriesAgree ==
  ~missed =>
    /\ \A v, w \in Live : EndsAlike(term[v].history, term[w].history)
    /\ passwd # NULL /\ history_path = passwd /\ histfile[passwd] # NULL =>
         \A w \in Live : EndsAlike(term[w].history, histfile[passwd])

LineSpec == LineInit /\ [][LineNext]_lineVars
=============================================================================
