# TILIXI in TLA+

TILIXI is a small desktop for an ESP32 with a keyboard matrix, a TFT screen and
an SD card: tiled terminal windows, a shell with files, users and scripts, and a
process table over FreeRTOS. The same C code is also built for the PC, where the
tests run, with a cooperative scheduler instead of FreeRTOS.

This directory holds TLA+ modules of the parts that keep state, TLC configurations
that check them on small instances, and theorems about them for all instances,
whose proofs TLAPS checks. Paths below are relative to the repository; `lines`
refer to them.

## The system

One task, the Arduino loop (`src/platform/esp32/main_esp32.cpp`), scans the
keyboard and runs whatever a key leads to to its end: a hotkey, a line-editor
key, a shell command, a dialogue step. Boot processes and scripts run in
FreeRTOS tasks of their own, on either core, and meet the loop task in the
process table only. So most components are sequential, and what is hard about
them is long sequences of legal calls, stale state, full tables and calls that
fail half way. The process table is truly concurrent.

| component | state | operations | interacts with |
|---|---|---|---|
| event queue `events/event_queue.c` | ring of 32, head, tail | push, get, reset | hotkey processor pushes; nothing in the firmware takes |
| hotkeys and actions `events/hotkey.c`, `event_processor*.c`, `actions/action_manager.c` | two constant tables | register, find, execute | keyboard calls it; calls windows, zoom, process actions |
| windows `actions/terminal/terminal_layout.c` | 8 windows: active, geometry; selected, active, count | open, close, select by arrow | hotkeys and `exit` call it; resolves directories in the VFS |
| line editor `actions/terminal/terminal.c` | per window: line, cursor, history, autocomplete; history file | one handler per key | input routing calls it; calls the shell |
| input routing, modal programs `terminal_input.c`, `nano.c`, `qimgv.c` | who is modal, in which window | key event | windows, dialogues, line editor |
| accounts `login.c`, `firstboot.c`, `passwd.c` | dialogue step, inputs; `/etc/passwd`, `/home` | begin, key event | input routing; VFS |
| command line `shell/*.c`, `terminal_pipe.c`, `terminal_cmd.c` | capture buffer, command table | execute, pipe | line editor; commands |
| file commands `shell/cmds/*.c` | none beyond a call | rm, mv, mkdir, cat, ... | VFS nodes, iterators, files |
| script interpreter `shell/cmds/exec.c` | variables, blocks under way, break and continue | run | commands |
| processes `process/process.c` | table of 16 PCBs, next pid, count | create, terminate, state, iterate; the task wrapper | boot, scripts; FreeRTOS |
| scheduler `process/process_scheduler.c` | current pid, slice | run, yield, current | process table |
| script processes `process/process_script.c` | shared contexts with a reference count | execute, clean up | process table |
| boot `boot/boot_sequence.c` | step results, boot processes | ten steps, once | everything |
| VFS on SD `filesystem/vfs/vfs_sd.cpp` | 32 nodes with counts, 4 iterators | resolve, release, create, remove, rename, open, close, iterate | shell, accounts, history; SD library |
| VFS stub `vfs_stub.c`, keyboard drivers, display, platform glue | - | - | - |

What makes each correct, and what is hard about it:

* **Event queue**: first in, first out, nothing lost but what a full ring refuses.
  Hard: wrapping by two different arithmetics, full against empty.
* **Windows**: they do not overlap, stay on the screen, can all be reached with
  the keyboard, and keys go to a live one. Hard: layouts are histories of halvings
  and regroupings; opening can be abandoned after half its assignments.
* **Line editor**: cursor and length stay inside the line; history is what was typed.
  Hard: autocomplete and capture change the line under the cursor.
* **Modal programs**: exactly one program gets a key, and it belongs to a live
  window. Hard: windows close and open under a running dialogue.
* **Accounts**: there is always a readable account once one was made, and the home
  directory fits it. Hard: power loss and card errors between two writes.
* **Processes**: a running task owns its slot, the count is that of the table, a
  task learns its own pid. Hard: creation gives the mutex back half way.
* **Scheduler (PC)**: only the current process runs, priorities hold, nobody starves.
  Hard: processes are found by their pid, which has eight bits and comes round.
* **File commands**: they give back every node and iterator on every way out, report
  what they did, and lose no file they were not told to. Hard: five to ten exits per
  command, any of which a card error may take.
* **Scripts**: the next line is the one that the nesting of the blocks says. Hard: the
  blocks are found while the script runs, by three scanners that must agree.
* **nano**: what is shown is where the cursor is; what was typed is in the file or the
  user was told. Hard: wrapped rows, windows that change their size, saves that fail.
* **Script contexts**: freed once, after the last user. Hard: the count is set late.
* **VFS**: counts balance, a held node stays what it is, resolution tells the
  truth. Hard: a table that caches a card that changes; twenty callers.

## The modules

| module | models | run, configuration |
|---|---|---|
| `BoundedFifo` | what the event queue promises (abstract) | used by `EventQueue` |
| `EventQueue` | `event_queue.c` | `EventQueue.cfg` |
| `TerminalLayout`, `MCTerminalLayout` | `terminal_layout.c` | `TerminalLayout.cfg`, `TerminalLayoutGaps.cfg` |
| `VfsNodeCache`, `MCVfsNodeCache` | `vfs_sd.cpp`, node table | `VfsNodeCache.cfg`, `VfsStaleAnswer.cfg` |
| `EspProcess`, `MCEspProcess` | `process.c` with FreeRTOS, `scheduler_get_current` | `EspProcess.cfg`, `EspProcessPids.cfg` |
| `CoopScheduler` | `process.c`, `process_scheduler.c` on the PC | `CoopScheduler.cfg`, `CoopSchedulerTurns.cfg` |
| `AccountStore` | what a user is promised about the account (abstract) | used by `ShellSessions` |
| `AccountCard` | `/etc/passwd` and `/home`, and what writes them | extended by `ShellSessions` |
| `ShellSessions`, `MCShellSessions` | boot, windows, who gets the keys, login, first boot, passwd, nano, images, command lines | `ShellSessions.cfg` |
| `LineEditor` | `terminal.c`: line, history, suggestions | extended by `TerminalText` |
| `NanoEditor` | `nano.c` | extended by `TerminalText` |
| `ScriptFlow` | what a script promises (abstract) | used by `ScriptRunner` |
| `ScriptRunner` | `exec.c`: blocks, branches, loops | extended by `TerminalText` |
| `TerminalText`, `MCTerminalText` | the three together | `TerminalText.cfg` |
| `CardTree` | card, nodes and iterators of `vfs_sd.cpp` | extended by `FileCommands` |
| `FileCommands`, `MCFileCommands` | `shell/cmds/`: rm, rmdir, mv, mkdir, touch, ls, cat, grep, wc, cd | `FileCommands.cfg` |
| `*Proofs` | theorems about the module of that name | |

Variables, actions and helpers keep the names of the source. Operators called
`Mutant of ...` are small errors planted in an operation; with one in place the
property it is meant for fails, which shows that the property depends on the code.
They are used by no specification.

### EventQueue

`push_event`, `get_next_event` and `reset_event_queue` are one action each, over
the array and its two indices with their `uint8_t` arithmetic. `Queued` reads the
ring from tail to head; with it as the refinement mapping every behaviour of the
ring is one of `BoundedFifo` (`ImplementsFifo`). `resets` is a history variable that
tells a reset from a queue that lost its events. Four slots and two events
wrap, fill and drain the ring in every offset.

### TerminalLayout

`new_terminal`, `close_terminal` and `terminal_select_direction` are one action
each: the task that runs them is never interrupted by another user of the table.
Geometry is modelled exactly, since every property is about it: halves and
borders, the limit of four in a row, the grid after a close. `new_terminal` has
three outcomes: first window, split, and the abort of lines 280-287, which keeps
the selection it may have moved. The run uses the real screen and six of eight
windows: six is the least number at which a close leaves more than one row of
grid (five windows), after which splits start from both rows, and already gives
112 594 states.
The view leaves the stale geometry of closed slots out, but for `y`, the only
part the code reads again (a new slot counts into its old row, line 239).
Directories, text buffers and drawing are left out.

`CloseFillsGaps` fails: five windows in a grid of four columns leave three of
eight cells empty (61 percent covered), although line 507 says that gaps are filled and line
86 calls less than 70 percent invalid. The code's own check does not notice,
because it computes areas in `int16_t`.

### VfsNodeCache

The node table, the pointers the shell holds (`ref`), its open files (`file`) and
the card itself (`card`, a tree of paths: the SD library, external). A call is an
action with all its outcomes: found in the table, found on the card, absent,
table full, card failed (`CardFaults`). Opening with truncation removes the old
file first (lines 371-376), and `vfs_open` resolves before it opens, so it never
makes a file. `vfs_dir_create_node` goes to the card twice, with `SD.exists` and then to make
the entry, and either may fail alone: an entry that is there may be made again. `share_cwd` is the place where commands raise a count themselves.
`answer` records the last resolution, for the properties about it.

Paths are sequences of names; the run has two directories `a` and `b`, the
paths `/a/a` and `/b/a`, so that directories can be removed, or renamed into each
other, under a held node. Two slots for three pointers and a file overflow the
table. Pointers and files are interchangeable (symmetry); no temporal property
but a step property is checked with it.

`RefcountExact`, `HeldNodeStable` and `WrongAnswersExplained` hold, the last
saying exactly when a resolution may be wrong. `AnswerMatchesCard`, what
`vfs.h:223` says, fails without any card fault: a path that was removed still
resolves while somebody holds its node (resolve, create, remove, resolve again).

### EspProcess

`process_create` gives the mutex back before `xTaskCreate` (line 158) and takes it
again to count the process (line 175). The model has a step for each critical
section and for each access outside one: reserve, create or fail, test the
handle, store it in thread-local storage, count, undo; the task wrapper starts,
sets the state, finishes, deletes itself. Steps of all tasks interleave freely.
The handle is read twice (lines 170-171); the compiler may use either value, and
the second may be NULL by then, which FreeRTOS takes for the calling task: the
model has all these outcomes. What a vTaskSetThreadLocalStoragePointer on the
memory of a deleted task would do beyond that storage is not modelled. The mutex
is taken to exist; were it not created at boot, `ENTER_CRITICAL` would do nothing.

The firmware today has one creating task, the loop; the mutex comment (line 17)
promises more, so the run has two creators, two control blocks that are reused,
two slots and three pids (so that pids wrap): 2.9 million states with symmetry
and a view that leaves out what nothing reads any more.

The task may end before it is counted; the counter then passes through 255.
`CountExact` and `RefusedOnlyWhenFull` say that this heals and what it costs: a
refusal of another creator in that instant. `CurrentNeverForeign` says that the
storage written into a wrong task is caught by the verification in lines 67-70.
`PidValid` fails with the real width of `process_id_t`: the 256th slot reserved gets pid
0, which `process_create` returns as a failure.

### CoopScheduler

The PC build: one thread, a call of each function is an action. The entry point
runs while `scheduler_run` is on the stack; whatever it calls are the actions that
follow. Time is one bit, `expired`: the slice of 10 ms is over.

`next_pid` is a `uint8_t` that `process_create` increments and compares with nothing. It comes
round to 0, which means "none" to the scheduler, and to pids that live processes still have.
Every other function looks a process up by its pid and takes the first slot that has it. The
model does the same with `PidValues` values, and callers may set any state, "running" too, as
the tests do. So neither promise of the scheduler holds without exception:

* `RunningIsCurrent` leaves out the slots in `strays`, a history variable that no action reads:
  those that met another live process of their pid, and those that a caller set running. A slot
  leaves it when it is given to a process with a pid of its own.
* `PriorityRespected` speaks of the moment the scheduler turns to a process whose pid no other
  live one has. A ready process of pid 0 is taken for none: while it is the best one the scheduler
  idles, whatever else is ready. That nothing starts before its betters still holds; that
  anything starts does not, and no property claims it.

`Spec` has no fairness: the main loop of the PC program (`main.c`, `keyboard_pc.c`) waits in the
keyboard's `read()` and reaches neither `scheduler_run` nor `scheduler_tick`; only the tests do.
`CalledPeriodically` is `Spec` with what the header asks of a user of the scheduler, that
`scheduler_tick` is "called periodically" (`process_scheduler.h:16`), and that the clock advances;
callers who create, terminate and set states owe nothing. It is used only to refute `TakesTurns`,
which is what line 88 calls round-robin: when a slice ends the same process is found again (first
slot of the highest priority), and since it equals `current_pid` it is not even run (line 134). The
property looks at processes of one priority before pids come round, so that only the order of the
search is to blame.

### AccountStore, AccountCard, ShellSessions

One run from power on to power off, over and over. `boot_start_desktop` opens a
window and begins a login, or a first boot, as the account file says; hotkeys open,
close and select windows whoever has the keys (`event_processor.c:14`); every other key goes
to the first of login, first boot, passwd, nano and the shell that is on
(`terminal_input.c:118`), and is the operator `...Keys` that guards each handler. Typing is
left to `LineEditor`: here an input is simply there when Enter comes.

A dialogue belongs to no window, so windows come and go under it. A command line keeps
its window in `running` until it ends: a script may close that window, open
others, start nano and move on. Directories are counted (`refs`), since
`close_terminal` does not release the one of its window and `new_terminal` overwrites it: a
leak, but one that `DirectoryHeld` depends on, because a command and nano still work
in the directory of a closed window.

`AccountCard` has the writes to the card as trails, the list of cards before,
between and after the steps of a call. `WriteAccount` takes a trail to its end, or stops anywhere in
it because the card fails (the dialogue says so) or power goes (`PowerOff`). One line of
`/etc/passwd` is less than a sector and is on the card whole or not at all.
Whether a card error is met, and whether `damaged` is therefore set, is chosen per call
(`CardFaults`).

A user may have any name that `username_is_valid` takes: the run has an ordinary one, one
with a colon, and `users`, which is also the name of a template directory. `SD.rename` is
taken to refuse a name that another directory has, and to accept a directory's own name; the
source shows neither. `cd` moves a window between the root, which is also where `cd` alone
goes, and the home directories (`Places`).

What holds:

* No command runs before the password was given (`ShellNeedsLogin`).
* The account file, read as the dialogues read it, is an `AccountStore`, which changes whole and
  loses the account only after the card failed or power was cut in the middle
  (`ImplementsAccountStore`).
* What the user was told is set is what the next login compares with (`ToldIsTrue`), unless the
  name has a colon, which `firstboot.c:67` lets pass and `read_passwd_entry` then splits at: such
  a user can never log in again, and no property covers that. "Told" means told after a write.
  When the rename of the home fails, first boot prints an error, skips the write and still ends
  with 'Setup complete.' (`firstboot.c:338-342`); the model does not count that line as telling the
  user what is set.
* An account has its home directory through every cut, because of the order of `firstboot.c:338`
  (`AccountHasHome`). A user named like a template has it only as long as the card did not fail:
  after an error at boot, a first boot that did not see the account may take its home for the
  template and rename it, and if power goes before the new account is written the old one has none.
* The directory of a live window, and of the window nano or a command line works in, keeps its node
  (`DirectoryHeld`); nano saves where it read from, or its window was closed or moved meanwhile
  (`SavesWhereItRead`).
* A window becomes a picture, deaf to all but hotkeys, only when qimgv made it or could not make
  one (`ImageOnlyInViewers`). In the second case the picture takes the window that is active,
  a user's own; the property does not cover that.

### LineEditor

One action per key of `terminal.c`. A suggestion is the rest of the last remembered command
that starts as the line does; Right takes as much of it as fits, Left gives it
back. `SuggestionFits` is the arithmetic that connects them: the length kept at
one key is used at a later one, after Backspace, recalls and commands of other windows.
Enter pushes the line to the history of every open window and to the history file.
The file is written only if it is there (`vfs_open` never makes one), so `TouchHistory`,
which is `touch` by hand, is the only way to have one. Appending asks for
`FILE_WRITE`, which in some versions of the library begins the file anew: the model allows both.

Nobody looks whether the file was opened, how much of the line was written, or why reading it
ended (`terminal.c:221-226`, 247). So an append may leave the file alone, or write a part of the
line with or without its end (`torn`: the next line then goes on behind it); a window that opens
may read nothing, or the beginning of the file up to a part of a line; and a card error while the
path is made gives the template's. `missed` is a history variable: since power came a line was
written in part, not at all or behind a torn one, or was read in part.

`HistoriesAgree` says that rings of different age, and the account's file, end alike while nothing
was missed. After the next boot it speaks again, whatever earlier faults left in the file. It does
not speak of the file when the path leads to another home: it is made once, before first boot or
on a card error it names the template home, and it stays that way until power goes. Other writers
of the file (nano, `cat >`) are left out: they change it behind every window's back.

### NanoEditor

Buffer, cursor, first line shown, and the dialogue that leaves (Ctrl-X, or Ctrl-P x,
then y or n, then Enter), in every order the keys allow. Every handler ends in
`nano_render`, so the model does too, and keeps the rows and the cursor's row it
drew. `RowStart` computes where in the buffer each drawn row starts, from the code that draws
it; `CursorShown` compares the two. Its two exceptions are real: a window without a row for text
(highest zoom), and a wide line above the cursor, which goes on in the next line's row.
`EditsKept`: after nano the file holds the text or the user answered n. `cut` marks
the exceptions: the file was longer than the buffer or was read only in part, or the save of
an unchanged buffer failed, which `nano.c:563` counts as saved although the file was emptied.

### ScriptFlow, ScriptRunner

`ScriptFlow` is written from the nesting of the lines alone: `Level` counts the blocks a line is
in, `Reached` where control gets to from it, and `Follows` which line that does something comes
after which outcome. `ScriptRunner` is `exec.c`: a stack of the calls of
`execute_block_until`, `execute_if`, `execute_while` and `execute_for` under way, the functions
that skip what does not run, `find_matching_done`, and the two flags of break and
continue. Conditions come out either way, so every path through every script is
explored. `ImplementsFlow` is the refinement: the same script, and the last line that did something.
`Skipped` is where skipping from each line ends: `SkipBlock` is `execute_block_until` without
`execute`, `PastLine` the calls of `skip_if`, `skip_while` and `skip_for` in it, `SkipArms` the rest of
an if. Scripts are well formed (`ScriptsAssumption`, `WellFormed`): every block is closed by its own
keyword, an else is the last arm, `then` and `do` are where they are looked for, break and continue
stand in loops. On any other script the interpreter prints an error and goes on somewhere; that is left out.
The run takes every well-formed script of up to six lines, with `then` and `do` inline
or on a line of their own: an if with elif and else, a loop in a loop, a
break under an if in a loop.

### TerminalText

The line editor and the two programs Enter may start, nano and a script. A
program has the terminal to itself until it ends (windows that open and close under it are in
`ShellSessions`), so the state spaces add up instead of multiplying. The bound `ProgramBound`
starts programs only in the first window, alone, with nothing remembered and no history file: they read none of this.

### CardTree, FileCommands

Files with contents, directories with what they hold, nodes and iterators, and the ten commands
on them step by step: every access to the card may fail (`Faults`, chosen for each access) and
power may go between any two steps. Making an entry is two accesses, `SD.exists` and then
`SD.mkdir` or `SD.open`, and the first may fail alone. An entry that is there is then made again:
of a directory `SD.mkdir` takes that for success, a file opened for writing is emptied, the other
kind is refused. An access that fails is taken to have left the card as it was, but for writes,
which may be short; and a failing read is negative, as the commands test it: a library that
answered 0 would make `cat` take the rest of its input for read.

`run` is the command with its operands and how far it is, `calls` the recursion of `rm -r` with
the entries each level has still to see, `before` the card as the command found it, `leaked` the
references that were forgotten since power came. `rm`, `rmdir`, `touch`, `mkdir` and `mv` into a
directory go through their operands and stop at the first that fails (`NextOperand`); the
properties are asked after each operand, against the card as it was before that one. `cd` alone is
`cd` to the root, which is one of `Places`.

`GivesBack` is the balance over all exits: what is held at the prompt are the directories of
the windows and what is in `leaked`, and only three places put something there:
`mv` of a directory onto a name with an extension (`mv.c:207`), `touch` (`touch.c:73`)
and `ls` (`ls.c:53`) in a window without a directory.
`ToldIsDone` reads a command's report against `before` and `card`. It holds with the
exceptions that its text names, each of which TLC insists on: `rm -f` reports success whatever it did;
`mkdir` reports it for a file that the card did not show when it was looked up;
`cat a > a` empties `a` and reports success; a
directory moved into itself may be gone.
`LossExplained` is the promise a user cares for: no file changes or goes but the ones a command was
told to touch. `mv` removes the file in its way before it knows that the
rename works, so it may lose that file and move nothing. And `touch` may empty the file it is given: when
the card fails as it is looked up and again in `SD.exists`, the file is taken for one to be made
(`vfs_sd.cpp:218`, 232).

`VfsNodeCache` and `CardTree` model the same table from two sides: the first
call by call, with slots, stale types and arbitrary callers; the second at the level of paths, so
that a command of several calls fits into a run and a proof.

## The runs

| run | what it shows | distinct states |
|---|---|---|
| `event_queue` | the ring implements the bounded FIFO | 1 690 |
| `terminal_layout` | layouts are sound, selectable, counted | 112 594 |
| `terminal_layout_gaps` | violated: gaps after a close | |
| `vfs_node_cache` | counts, stability, causes of wrong answers | 110 430 |
| `vfs_stale_answer` | violated: a removed path resolves | |
| `esp_process` | slots, count, identity in all interleavings | 2.9 million |
| `esp_process_pids` | violated: pid 0 after 256 reservations | |
| `coop_scheduler` | single runner and priorities while pids come round | 640 784 |
| `coop_scheduler_turns` | violated: starvation | |
| `shell_sessions` | login, account, directories and programs over power cycles and card errors | 1 593 132 |
| `terminal_text` | line editing and history, nano, every short script | 1 089 108 |
| `file_commands` | nodes given back, reports true, losses explained | 502 012 |

The safety runs need no fairness. A
`violation` run checks one property that the repository's own comments state and the code does not have.

Deadlock is checked everywhere.

Bounds that are not in the code:

| bound | where | why it is enough |
|---|---|---|
| `PidValues` = 3 (256 in the code) | `CoopScheduler` | pids 1 and 2 and the invalid 0 in three slots: two processes with one pid, and one with none, come up at once; a pid that is alone also does |
| `PidValues` = 4, two slots, one priority | `CoopSchedulerTurns` | two processes of one priority starve each other before pids come round |
| `MaxRefs` = 2 | `ShellSessions` | references held at once in one power cycle: two windows, or one that was closed, keeps its reference, and is opened again in the same slot; `cd` gives back what it takes |
| two windows | `ShellSessions`, `TerminalText` | a program's own window and one that is not; two histories that must agree |
| an ordinary name, a template's and one with a colon, two passwords | `ShellSessions` | right, wrong, changed; whatever `username_is_valid` takes that the code treats apart |
| `Places` | `ShellSessions` | the root and two homes: a window moves away, back, and to where another is |
| `Cols` = 3, two characters | `LineEditor` | lines of 0, 1 and the most characters, suggestions that fit exactly |
| `Commands`, `Typed`, `Saved`, `MaxHistory` = 2 | `LineEditor` | two commands, one the beginning of the other; rings that overflow, a file longer than a ring once another line is added |
| `GoOnAfterFault` = FALSE | `LineEditor` | after a line was missed nothing but power going follows: `HistoriesAgree` says nothing until then, and what the fault left in the file is there for the next boot. The proof has no such bound |
| `MaxBuffer` = 4, `Width` = 1, `Heights` | `NanoEditor` | files that do not fit, lines wider than a row, windows with no, one and two rows |
| `MaxLines` = 6, `MaxItems` = 2 | `ScriptRunner` | every construct inside every other, once |
| `NanoRests`, `ProgramBound`, `Program` | `TerminalText` | a program starts from one state of the editor it does not read |
| seven paths three deep, 4 nodes, 2 iterators | `FileCommands` | `rm -r` deeper than there are iterators; moves across and into directories; node table that is full |
| `Places`, `Inputs`, `Texts`, `MaxText`, `MoveBounded` | `FileCommands` | the root and one directory to move to, one operand and two, contents of one unit, destinations inside the paths |
| `MaxLeaks` = 1 | `FileCommands` | no command line is given once a reference has leaked; the proof is for any number |

## The theorems

All are about `Spec` with arbitrary constants, under the assumption named in the
module (`QueueAssumption`, `LayoutAssumption`, `CacheAssumption`, `ProcessAssumption`,
`SchedulerAssumption`, `SessionsAssumption`, `TreeAssumption`, `CommandsAssumption`, `ScriptsAssumption` and those of the editors), which TLC also evaluates in the runs.

* `EventQueueProofs`: `TypeCorrect`; `RingImplementsFifo`, the refinement, for any
  size a `uint8_t` can index; `OnlyPushedEvents`. One lemma per operation says what it does to
  `Queued` (a push appends, a pop takes the oldest, a reset forgets); the steps of the
  refinement follow. The type invariant is the only invariant needed.
* `TerminalLayoutProofs`: `TypeCorrect`, `CountIsLiveWindows`,
  `InputGoesToLiveWindow`, for any number of windows and any screen of 60 to 3000
  pixels a side, from one inductive invariant. The step that needs work is the arrow: that
  the best candidate exists, since "better" is a strict order on a finite set.
  `WindowsApart`: the invariant is `NoOverlap` with the sizes non-negative. A split replaces a
  rectangle by two disjoint ones inside it; a close lays a grid, whose cells are shown
  disjoint from the division that makes them. `WindowsOnScreen` needs more than the
  code ensures for every table and screen: `GridFits`, that a grid of as many cells as there are slots
  has room for its borders. The real screen with eight windows fits.
* `VfsNodeCacheProofs`: `RefcountsAreExact` with the type invariant is inductive.
  Every call is one of a few table steps (gain a holder, lose one, fill a free
  slot, nothing), and each kind is shown once to keep the counts and to leave
  held nodes alone; `ResolvedNodesAreStable` and `WrongAnswersAreExplained`
  follow from the same lemmas. Any table, any set of paths closed under
  parents, any finite sets of pointers and files.
* `EspProcessProofs`: `SlotsAreOwned` is the inductive invariant (`TaskOwnsSlot` and
  `CreatorOwnsSlot` support each other: a creator between its critical sections
  must not find a task in its slot, and the other way round). From it `CurrentIsOwn`, and
  with one arithmetic lemma `CountIsExact` (modulo 256) and `RefusalsAreFounded`, for any number of
  creators, control blocks, slots (up to 127, so that a full table and a
  count below zero can be told apart) and pids.
* `CoopSchedulerProofs`: `TypeCorrect`, `OnlyCurrentRuns` and `HigherPriorityFirst`, for any number of slots and
  any width of the pid up to eight bits. The calls find a process by its pid, not by its slot, and pids
  are shared once they come round. What is left of uniqueness, and inductive, is `PidsIdentify`: a
  live process that is not among `strays` shares its pid with nobody; with `RunnerHasPid`, none of
  those runs with pid 0, it gives `RunningIsCurrent`. The work is in `process_create`, which may
  put two slots astray at once and takes the reused slot out. `HigherPriorityFirst` needs no invariant but the
  types: the slot chosen is of the highest priority that is ready, which exists because
  priorities are finitely many, and it is the one its pid finds when no other has that pid.
* `ShellSessionsProofs`: every invariant of the run, and the refinement, for any number of
  windows, users, passwords and template directories, with and without card
  errors; users and templates may share names. Four inductive invariants:
  `AccountInv` (an account of a name that no template has has its home on the card, what the dialogues hold of it has
  one too, and every card on a trail of writes keeps both);
  `SessionInv` (which dialogues exclude each other, and that a command line excludes
  those of the start: `NoShellBeforeLogin`);
  `AgreeInv` (unless the card failed, a first boot runs only where there is no
  account, passwd changes the account whose name it read, and what the
  user was told is what the card holds: `ToldStaysTrue`; an account of a template's name
  has its home as long as the card is undamaged, which with `AccountInv` is `AccountsHaveHomes`), whose step shows what each
  action may do to the account, which are the steps of `AccountStore`:
  `DialoguesImplementTheStore`; and `WindowInv` (a directory is counted at least once for every window
  in it, *live or not*, and nano's window, once closed, may be reused only after nano was
  noted as adrift: `DirectoriesHeld`, `NanoSavesWhereItRead`, `ImagesOnlyInViewers`).
  `TypeCorrect` combines them.

* `TerminalTextProofs`: for the editors, one inductive invariant in three parts, each proved per key.
  `LineIInv` types the windows and keeps each suggestion fitting (`SuggestionsFit`); looking
  one up sets it right whatever was there, so the work is in the keys that do not.
  `HistoriesAgree` is not inductive: a window that opens before first boot has named the account reads the
  template's file, so `HistoriesInv` adds which file the path can lead to at which time
  (`HistoriesStayAlike`). Every fault of an append or a load sets `missed`, and nothing clears it but
  power, after which the one window there is has read the file whole, or has missed something again. Two histories are compared from the end, `FromEnd`, where the
  ring that drops its oldest and the one that does not look the same.
  `NanoIInv` says that a clean buffer is what the file holds (`EditsAreKept`) and where the last
  drawing put the cursor. `CursorIsShown` then follows from where newlines are in a text: that
  every line has one start, that the next one starts after its newline, and that the rows, a recursive
  function, start where the lines do, by a least counterexample.
  Terminals, histories, texts and windows of any size. `TextTyped` has all the types of the run.

  `ScriptsFollowTheFlow` is the refinement of `ScriptFlow`, for every well-formed script of any
  length and any number of items. The interpreter never sees a block as a whole: it finds the end of one by
  searching forward with counters or by skipping calls, and comes back through calls that hold a
  line number each. So the promise, which speaks of levels, needs an invariant that ties the calls to the
  blocks. `ScriptIInv` is that: each frame of `calls` was called from the one below it
  (`CalledFrom`: a loop's frame holds its head and its own done, a block ends one line before that),
  stands directly in the block whose opener the frames below hold (`Placed`), and has around it just the loops
  under way (`LoopsBelow`); a request to break or continue is pending only while blocks inside a
  loop are left; and what may follow the last event is what the call on top is about to do (`Expected`).
  The argument has three parts. Blocks nest (`BlocksNest`, `OneBlock`, `ClosesOnce`), and `Reached`, a
  recursive function, comes to the same place when a block is left by its end (`ReachedIs`, `ReachedBody`).
  The searches agree with the nesting: between an opener and its closer openers
  and closers balance, so the counters of `find_matching_done` are both zero first at the loop's own done
  (`FindsCloser`), and skipping from a line in a block ends at the next line that
  divides or closes that block (`SkipsAreRight`, by a last counterexample, since what is skipped from a line
  depends on later lines). Then one lemma per step: it keeps the frames and moves from one expected line to
  the next, or does nothing a reader of events can see.
* `FileCommandsProofs`: every property of the run, for any set of paths that has the parent
  of each of its paths, any windows, any limits of the node table and the iterators, and a card that may fail
  at every access and lose power at every step. None of the four properties is inductive. `IInv` is: the
  card is a tree (`CardOK`); the command line is one that can be given, at a step of its own
  (`LineOK`); every node is held once for each window whose directory it is, once for each
  reference that was forgotten, and once for each that the running command will still give back,
  which `Holding` reads off the step it is at (`NodesOK`: a mistake on one exit makes a count wrong for good);
  the calls of `rm -r` are as many as the iterators in use and below the
  operand (`CallsOK`); and until a command tells, the card is what it was
  but for the entry in hand, and what has been copied is the beginning of the inputs (`AwayOK`).
  There is one lemma per action. `FilesTyped`, `TakenIsGivenBack` and `ToldIsTrue` follow;
  `LossIsExplained`, an action property, is shown per command from the same invariant. The lemmas
  underneath say what the calls of the VFS do: a hold and a release to the counts
  (`Release` of several nodes takes from each as many as it was held), a create, a remove and a rename to the tree, with
  the arithmetic of prefixes that brings everything under the new name. TLC checked `IInv` on
  the run's instance before it was proved.

Only model-checked: `ArrowsReachAll`, which is about the layouts that can come up on the real
screen and not about all; and the refutation of `TakesTurns`, since liveness under
fairness is beyond the prover.

## Plan

What is left, in this order:

1. `ScriptContext`: `process_script.c` has a reference count that is set after the tasks that lower
   it were created (line 194). It has no caller in the firmware yet.
2. The capture buffer of `terminal_pipe.c` and `terminal_io.c` with pipes inside scripts;
   a 33rd variable, which `exec.c:144` drops.
3. Path normalisation of `vfs_sd.cpp` as a function against a reference definition.

## Not modelled

* Drawing (`terminal_graphics.c`, `boot_splash.cpp`), decoding of pictures, keyboard scanning and key maps, the
  SPI wrappers and the upload tool: hardware and output, no state that other parts depend on.
* `vfs_stub.c`: a stand-in for the PC's tests; the firmware does not contain it.
* `pwd`, `echo`, `fastfetch`, `reload`, `kill`, the colour configuration, zoom: they print or redraw.
* How a command line is cut into words, quotes, paths with `.` and `..`: operands are
  what is left after that. The capture buffer: what a pipe gives `cat` is any text of `Texts`.
* In scripts: variables and substitution (a test comes out either way), several
  commands on one line, scripts that are not well formed, a script that runs another.
* Power loss in nano and in scripts: `nano` keeps nothing but its file, whose
  steps `FileCommands` has for `cat`, which writes it the same way.
* `validate_terminal_layout`, whose areas overflow `int16_t` on the real screen: its
  answer only decides how often the screen is drawn.
* `process_terminate`, `process_set_state` and `init_process_system` on the ESP32 after boot:
  nothing there calls them (`kill` says that it is not implemented); line 245 would race with the task
  wrapper if it did. The pid that `process_create` returns is read from the slot after its task may
  have ended (line 187): the one caller that keeps a pid creates a process that never ends.
* The dependencies of boot processes: one is registered, and it has none.
