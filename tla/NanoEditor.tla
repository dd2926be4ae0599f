----------------------------- MODULE NanoEditor -----------------------------
(***************************************************************************)
(* nano (nano.c): a buffer with a cursor, the part of it the window shows, *)
(* and the dialogue that leaves it - Ctrl-X, or Ctrl-P x, then y or n,     *)
(* then Enter - over one file of the card.                                 *)
(***************************************************************************)
EXTENDS Naturals, FiniteSets, FiniteSetsExt, Sequences, SequencesExt

CONSTANTS
  TextChars,   \* bound: the characters typed into the text
  NL,          \* end of line
  MaxBuffer,   \* NANO_MAX_BUFFER: the buffer holds one character less
  MaxPrompt,   \* NANO_PROMPT_MAX
  Width,       \* columns of a row left by the line number
  Heights,     \* rows of text a window has room for, 0 in the smallest
  Files,       \* what the file may hold at first
  NanoFaults,  \* {FALSE}, or {FALSE, TRUE} if the card may fail
  NoFile

ASSUME NanoAssumption ==
  /\ NL \notin TextChars /\ TextChars # {}
  /\ MaxBuffer \in Nat \ {0} /\ MaxPrompt \in Nat \ {0} /\ Width \in Nat \ {0}
  /\ Heights \subseteq Nat /\ \E tallest \in Heights : \A h \in Heights : h <= tallest
  /\ Files \subseteq Seq(TextChars \cup {NL})
  /\ NanoFaults \in SUBSET BOOLEAN /\ FALSE \in NanoFaults

VARIABLES
  nano,     \* nano_state, and the rows and the cursor's row of its last nano_render
  height,   \* rows of text the window has room for now
  file,     \* what the card has of the file, NoFile when it has not
  cut       \* nano counts the buffer as saved and the file may hold something else

nanoVars == <<nano, height, file, cut>>

NanoOff ==
  [active |-> FALSE, buffer |-> <<>>, cursor |-> 0, dirty |-> FALSE, scroll_row |-> 0,
   prompt |-> "none", prompt_len |-> 0, pending_save |-> FALSE, rows |-> 0, cursor_row |-> 0]

NanoInit ==
  /\ nano = NanoOff
  /\ height \in Heights
  /\ file \in Files
  /\ cut = FALSE

-----------------------------------------------------------------------------
(* Lines of the buffer.  Positions count characters before them, as in C. *)
Newlines(buffer, pos) == Cardinality({i \in 1..pos : buffer[i] = NL})

nano_line_start(buffer, pos) == Max({0} \cup {i \in 1..pos : buffer[i] = NL})

nano_line_end(buffer, pos) ==
  Min({Len(buffer)} \cup {i \in pos..(Len(buffer) - 1) : buffer[i + 1] = NL})

LineStart(buffer, line) ==
  Min({Len(buffer)} \cup {i \in 0..Len(buffer) : /\ Newlines(buffer, i) = line
                                                 /\ i = nano_line_start(buffer, i)})

TotalLines(buffer) == IF buffer = <<>> THEN 0 ELSE Newlines(buffer, Len(buffer)) + 1

Lesser(a, b) == IF a < b THEN a ELSE b

(* Mutant of ScrollTo: the cursor's line is left just below the last row. *)
ScrollShort(n) ==
  LET line == Newlines(n.buffer, n.cursor)
      top == IF n.scroll_row > TotalLines(n.buffer) - 1 THEN TotalLines(n.buffer) - 1 ELSE n.scroll_row
  IN  IF n.buffer = <<>> THEN 0
      ELSE IF line < top THEN line
      ELSE IF line >= top + height + 1 THEN line - height
      ELSE top

(* The first line shown: moved as little as brings the cursor's line in. *)
ScrollTo(n) ==
  LET line == Newlines(n.buffer, n.cursor)
      top == Lesser(n.scroll_row, TotalLines(n.buffer) - 1)
  IN  IF n.buffer = <<>> THEN 0
      ELSE IF line < top THEN line
      ELSE IF line >= top + height THEN line - height + 1
      ELSE top

(* nano_render, as far as it decides what is shown. *)
nano_render(n) ==
  LET scroll == ScrollTo(n)
      row == 1 + Newlines(n.buffer, n.cursor) - scroll
  IN  [n EXCEPT !.scroll_row = IF n.buffer = <<>> THEN 0 ELSE Lesser(scroll, TotalLines(n.buffer) - 1),
                !.rows = height,
                !.cursor_row = Lesser(row, height)]

(* Where in the buffer the text of each row starts.  A line that is wider than
   a row goes on in the next one, under the next line's number. *)
RowStart(n) ==
  LET start[r \in 0..n.rows] ==
        IF r = 0 THEN LineStart(n.buffer, n.scroll_row)
        ELSE LET from == start[r - 1]
                 end == nano_line_end(n.buffer, from)
             IN  IF n.scroll_row + r - 1 >= TotalLines(n.buffer) THEN from
                 ELSE IF end - from > Width THEN from + Width
                 ELSE Lesser(end + 1, Len(n.buffer))
  IN  start

-----------------------------------------------------------------------------
NanoKeeps(n) == nano' = nano_render(n) /\ UNCHANGED <<height, file, cut>>

nano_reset_prompt(n) == [n EXCEPT !.prompt = "none", !.prompt_len = 0, !.pending_save = FALSE]

(* cmd_nano and nano_load_file: what fits, and no more than could be read. *)
cmd_nano ==
  /\ ~nano.active
  /\ file # NoFile
  /\ \E fault \in NanoFaults :
       \E n \in IF fault THEN 0..Lesser(Len(file), MaxBuffer - 1) ELSE {Lesser(Len(file), MaxBuffer - 1)} :
         /\ nano' = nano_render([NanoOff EXCEPT !.active = TRUE, !.buffer = SubSeq(file, 1, n)])
         /\ cut' = (n < Len(file))
  /\ UNCHANGED <<height, file>>

nano_exit_to_shell == nano' = NanoOff /\ cut' = FALSE /\ UNCHANGED height

(* nano_save_file looks the file up, removes it, makes it again and writes it:
   on a card that fails it is left as it was, or gone, or holds a part.  Once
   it is gone it is not found, and no later save succeeds. *)
SaveFails ==
  \/ file = NoFile /\ UNCHANGED file
  \/ /\ file # NoFile /\ TRUE \in NanoFaults
     /\ file' \in {file, NoFile} \cup {SubSeq(nano.buffer, 1, n) : n \in 0..Len(nano.buffer)}

InText == nano.active /\ nano.prompt = "none"

(* Mutant of nano_insert_char: the change is not noted. *)
InsertUnnoted(c) ==
  /\ InText
  /\ Len(nano.buffer) < MaxBuffer - 1
  /\ NanoKeeps([nano EXCEPT !.buffer = InsertAt(@, nano.cursor + 1, c), !.cursor = @ + 1])

nano_insert_char(c) ==
  /\ InText
  /\ Len(nano.buffer) < MaxBuffer - 1
  /\ NanoKeeps([nano EXCEPT !.buffer = InsertAt(@, nano.cursor + 1, c), !.cursor = @ + 1, !.dirty = TRUE])

nano_backspace ==
  /\ InText
  /\ nano.cursor > 0
  /\ NanoKeeps([nano EXCEPT !.buffer = RemoveAt(@, nano.cursor), !.cursor = @ - 1, !.dirty = TRUE])

nano_move_left == InText /\ nano.cursor > 0 /\ NanoKeeps([nano EXCEPT !.cursor = @ - 1])

nano_move_right ==
  InText /\ nano.cursor < Len(nano.buffer) /\ NanoKeeps([nano EXCEPT !.cursor = @ + 1])

(* Up and down keep the column, or go to the end of a shorter line. *)
nano_move_up ==
  LET start == nano_line_start(nano.buffer, nano.cursor)
      above == nano_line_start(nano.buffer, start - 1)
  IN  /\ InText /\ start > 0
      /\ NanoKeeps([nano EXCEPT !.cursor = above + Lesser(nano.cursor - start, start - 1 - above)])

nano_move_down ==
  LET start == nano_line_start(nano.buffer, nano.cursor)
      below == nano_line_end(nano.buffer, nano.cursor) + 1
  IN  /\ InText /\ below <= Len(nano.buffer)
      /\ NanoKeeps([nano EXCEPT !.cursor =
                      below + Lesser(nano.cursor - start, nano_line_end(nano.buffer, below) - below)])

(* Ctrl-X, in whatever state the dialogue is. *)
CtrlX ==
  /\ nano.active
  /\ \/ ~nano.dirty /\ nano_exit_to_shell /\ UNCHANGED file
     \/ nano.dirty /\ NanoKeeps([nano EXCEPT !.prompt = "save choice"])

CtrlP ==
  /\ nano.active
  /\ NanoKeeps(IF nano.prompt = "none" THEN [nano EXCEPT !.prompt = "cmd", !.prompt_len = 0]
               ELSE nano_reset_prompt(nano))

(* The command line of nano knows one command, x, taken as soon as it is typed. *)
PromptX ==
  /\ nano.active /\ nano.prompt = "cmd" /\ nano.prompt_len = 0
  /\ NanoKeeps([nano EXCEPT !.prompt = "save choice"])

PromptOther ==
  /\ nano.active /\ nano.prompt = "cmd" /\ nano.prompt_len < MaxPrompt - 1
  /\ NanoKeeps([nano EXCEPT !.prompt_len = @ + 1])

PromptLeave ==
  /\ nano.active /\ nano.prompt = "cmd"
  /\ NanoKeeps(nano_reset_prompt(nano))

SaveChoice(answer) ==
  /\ nano.active /\ nano.prompt = "save choice"
  /\ NanoKeeps([nano EXCEPT !.pending_save = answer, !.prompt = "confirm"])

(* Enter on "Press Enter to confirm".  A save that fails leads back to the text. *)
Confirm ==
  /\ nano.active /\ nano.prompt = "confirm"
  /\ \/ /\ nano.pending_save /\ file # NoFile
        /\ file' = nano.buffer
        /\ nano_exit_to_shell
     \/ /\ nano.pending_save
        /\ SaveFails
        /\ cut' = (cut \/ ~nano.dirty)
        /\ nano' = nano_render(nano_reset_prompt(nano))
        /\ UNCHANGED height
     \/ /\ ~nano.pending_save
        /\ nano_exit_to_shell
        /\ UNCHANGED file

(* Any other key, and one that finds nothing to do, draws all the same. *)
IdleKey ==
  /\ nano.active /\ nano.prompt # "confirm"
  /\ NanoKeeps(nano)

(* The window is split, widened or zoomed; nano draws again at the next key. *)
WindowResized ==
  /\ height' \in Heights \ {height}
  /\ UNCHANGED <<nano, file, cut>>

NanoKey ==
  \/ \E c \in TextChars \cup {NL} : nano_insert_char(c)
  \/ nano_backspace
  \/ nano_move_left \/ nano_move_right \/ nano_move_up \/ nano_move_down
  \/ CtrlX \/ CtrlP \/ PromptX \/ PromptOther \/ PromptLeave
  \/ \E answer \in BOOLEAN : SaveChoice(answer)
  \/ Confirm \/ IdleKey

NanoNext == cmd_nano \/ NanoKey \/ WindowResized

-----------------------------------------------------------------------------
NanoTypeOK ==
  /\ nano.buffer \in Seq(TextChars \cup {NL}) /\ Len(nano.buffer) < MaxBuffer
  /\ nano.cursor \in 0..Len(nano.buffer)
  /\ nano.dirty \in BOOLEAN /\ nano.pending_save \in BOOLEAN /\ nano.active \in BOOLEAN
  /\ nano.prompt \in {"none", "cmd", "save choice", "confirm"}
  /\ nano.prompt_len \in 0..(MaxPrompt - 1)
  /\ nano.scroll_row \in 0..(MaxBuffer - 1) /\ nano.rows \in Heights \cup {0}
  /\ nano.cursor_row \in 0..nano.rows
  /\ height \in Heights
  /\ cut \in BOOLEAN

(* The row nano puts the cursor in shows the line the cursor is in, however
   the text and the window changed - if the window has a row for text (at the
   highest zoom a small one has none, nano.c:240) and no line above the cursor
   in the window is wider than a row (nano.c:338 goes on in the next row). *)
CursorShown ==
  nano.active /\ nano.rows > 0 =>
    LET line == Newlines(nano.buffer, nano.cursor)
        narrow == \A l \in nano.scroll_row..(line - 1) :
                    LineStart(nano.buffer, l + 1) - LineStart(nano.buffer, l) - 1 <= Width
    IN  narrow => /\ nano.cursor_row >= 1
                  /\ nano.scroll_row + nano.cursor_row - 1 = line
                  /\ RowStart(nano)[nano.cursor_row - 1] = nano_line_start(nano.buffer, nano.cursor)

(* When nano is left the file holds the text as it was on the screen, or the
   user answered "n" - unless nano never had the whole file, or the save of an
   unchanged buffer failed: nano still counts it as saved then (nano.c:563). *)
EditsKept ==
  [][nano.active /\ ~nano'.active /\ ~cut =>
       \/ file' = nano.buffer
       \/ nano.prompt = "confirm" /\ ~nano.pending_save /\ file' = file]_nanoVars

NanoSpec == NanoInit /\ [][NanoNext]_nanoVars
=============================================================================
