--------------------------- MODULE ShellSessions ---------------------------
(***************************************************************************)
(* From power on to power off: the boot sequence, windows, and whatever    *)
(* takes the keys in them - login, first boot, passwd, nano, an image, the *)
(* shell - over the account file and /home on the card.                    *)
(*                                                                         *)
(* The loop task does one thing at a time: a key event, or one command of  *)
(* a script.  Typing is the input that is there when Enter comes.  Where   *)
(* windows lie on the screen is TerminalLayout's.  The shell commands here *)
(* are those that start a program, close a window or move to a directory.  *)
(***************************************************************************)
EXTENDS AccountCard

CONSTANTS
  Windows,     \* 0..max_windows-1
  MaxNodes,    \* slots of the node table
  CardFaults,  \* {FALSE}, or {FALSE, TRUE} if the card may fail
  MaxRefs,     \* bound: references to directories while the power is on
  Places,      \* bound: the directories cd goes to
  NULL

ASSUME SessionsAssumption ==
  /\ IsFiniteSet(Windows) /\ Windows = 0..(Cardinality(Windows) - 1) /\ Windows # {}
  /\ Users \cap ColonUsers = {} /\ ColonUsers \cap ToSet(Templates) = {}
  /\ Templates \in Seq(ToSet(Templates)) \ {<<>>}
  /\ Passwords \cap {"none", "empty", "missing"} = {}
  /\ CardFaults \in SUBSET BOOLEAN /\ FALSE \in CardFaults
  /\ MaxNodes \in Nat \ {0, 1} /\ MaxRefs \in Nat
  /\ Places \subseteq {"/"} \cup Names \cup ToSet(Templates)
  /\ NULL \notin Windows /\ NULL \notin {"/"} \cup Names \cup ToSet(Templates)

VARIABLES
  power,            \* "off", "booting" (the card is ready) or "on"
  card,             \* [passwd, home]
  damaged,          \* the card failed or power was lost since it was new
  told,             \* the account the user was last told is set, with no failure told as well
  term,             \* the windows: active, image_view_active, cwd, how they came
  active_terminal,
  refs,             \* the reference count of every directory's node
  running,          \* the window whose command line is being executed
  login, firstboot, passwd, nano,
  accepted          \* since power on, a login was asked for, and passed

screen == <<term, active_terminal, refs>>
programs == <<login, firstboot, passwd, nano>>
vars == <<power, card, damaged, told, term, active_terminal, refs, running,
          login, firstboot, passwd, nano, accepted>>

Root == "/"
Dirs == {Root} \cup Names \cup ToSet(Templates)

(* `viewer' says that qimgv made the window, `crowded' that it wanted one and
   got none.  `adrift': the window nano was started in was closed, or moved to
   another directory, since. *)
Closed == [active |-> FALSE, image |-> FALSE, cwd |-> NULL, viewer |-> FALSE, crowded |-> FALSE]
NoLogin == [on |-> FALSE, entry |-> NoEntry]
NoFirstboot == [on |-> FALSE, step |-> "username", user |-> NULL, pass |-> NULL]
NoPasswd == [on |-> FALSE, step |-> "current", entry |-> NoEntry, new |-> NULL]
NoNano == [on |-> FALSE, term |-> NULL, dir |-> Root, adrift |-> FALSE]

Init ==
  /\ power = "off"
  /\ card \in [passwd : {Empty, Missing}, home : {{}, ToSet(Templates)}]
  /\ damaged = FALSE /\ told = NoEntry
  /\ term = [w \in Windows |-> Closed] /\ active_terminal = 0
  /\ refs = [d \in Dirs |-> 0]
  /\ running = NULL
  /\ login = NoLogin /\ firstboot = NoFirstboot /\ passwd = NoPasswd /\ nano = NoNano
  /\ accepted = "not asked"

PowerOff ==
  /\ power' = "off"
  /\ term' = [w \in Windows |-> Closed] /\ active_terminal' = 0
  /\ refs' = [d \in Dirs |-> 0]
  /\ running' = NULL
  /\ login' = NoLogin /\ firstboot' = NoFirstboot /\ passwd' = NoPasswd /\ nano' = NoNano
  /\ accepted' = "not asked"

-----------------------------------------------------------------------------
(* Directories and the slots of their nodes (VfsNodeCache has the rest). *)
Least(S) == CHOOSE s \in S : \A t \in S : s <= t

HasSlot(r) == Cardinality({d \in Dirs : r[d] > 0}) < MaxNodes
Resolvable(r, d) == r[d] > 0 \/ (HasSlot(r) /\ d \in card.home \cup {Root})

Held(r, d) == IF d = NULL THEN r ELSE [r EXCEPT ![d] = @ + 1]

(* Mutant of Given: released twice. *)
GivenTwice(r, d) == IF d = NULL THEN r ELSE [r EXCEPT ![d] = @ - 2]
Given(r, d) == IF d = NULL THEN r ELSE [r EXCEPT ![d] = @ - 1]

RefsBound ==
  Cardinality({x \in Dirs \X (1..MaxRefs) : x[2] <= refs[x[1]]}) < MaxRefs

(* What a new window starts in: the root, given back again for the home of the
   name in /etc/passwd when there is one (set_cwd_from_passwd). *)
set_cwd_from_passwd(root) ==
  LET owner == read_passwd_entry(card.passwd).user
      held == Held(refs, root)
  IN  IF owner \in card.home /\ HasSlot(held) /\ Resolvable(held, owner) THEN owner ELSE root

StartDirs(fault) ==
  LET root == IF Resolvable(refs, Root) THEN Root ELSE NULL
  IN  IF fault THEN {NULL, root, set_cwd_from_passwd(root)} ELSE {set_cwd_from_passwd(root)}

-----------------------------------------------------------------------------
(* Windows. *)
Live == {w \in Windows : term[w].active}
NewSlot == Least(Windows \ Live)

(* new_terminal: refused when there are no slots; or a window in the first
   free one; or, the selected window being too small to split, a slot left
   closed with the directory it had already resolved (lines 191, 281). *)
new_terminal(fault, viewer) ==
  \/ Live = Windows /\ UNCHANGED screen
  \/ /\ Live # Windows /\ RefsBound
     /\ \E d \in StartDirs(fault) :
          /\ refs' = Held(refs, d)
          /\ \/ /\ term' = [term EXCEPT ![NewSlot] =
                              [Closed EXCEPT !.active = TRUE, !.cwd = d, !.viewer = viewer]]
                /\ active_terminal' = NewSlot
             \/ /\ Live # {}
                /\ term' = [term EXCEPT ![NewSlot] = [Closed EXCEPT !.cwd = d]]
                /\ UNCHANGED active_terminal

(* Mutant of close_terminal: the window gives its directory back. *)
CloseReleases ==
  /\ Live # {}
  /\ term' = [term EXCEPT ![active_terminal].active = FALSE]
  /\ active_terminal' = IF Live = {active_terminal} THEN 0 ELSE Least(Live \ {active_terminal})
  /\ refs' = Given(refs, term[active_terminal].cwd)
  /\ nano' = [nano EXCEPT !.adrift = @ \/ nano.term = active_terminal]

(* close_terminal: the selected window, whoever asked.  Its directory is not
   released, and a program that runs in it is not told. *)
close_terminal ==
  /\ Live # {}
  /\ term' = [term EXCEPT ![active_terminal].active = FALSE]
  /\ active_terminal' = IF Live = {active_terminal} THEN 0 ELSE Least(Live \ {active_terminal})
  /\ nano' = [nano EXCEPT !.adrift = @ \/ nano.term = active_terminal]
  /\ UNCHANGED refs

Faulty(fault) == damaged' = (damaged \/ fault)

(* Hotkeys are looked up before anything else gets the key (event_processor.c:14). *)
Hotkeys == power = "on" /\ running = NULL

HotkeyNew ==
  /\ Hotkeys
  /\ \E fault \in CardFaults : new_terminal(fault, FALSE) /\ Faulty(fault)
  /\ UNCHANGED <<power, card, told, running, programs, accepted>>

HotkeyClose ==
  /\ Hotkeys
  /\ close_terminal
  /\ UNCHANGED <<power, card, damaged, told, running, login, firstboot, passwd, accepted>>

HotkeySelect ==
  /\ Hotkeys
  /\ active_terminal' \in Live
  /\ UNCHANGED <<power, card, damaged, told, term, refs, running, programs, accepted>>

-----------------------------------------------------------------------------
(* Power and boot. *)
PowerLoss ==
  /\ power # "off"
  /\ PowerOff
  /\ UNCHANGED <<card, damaged, told>>

(* Step 5 of boot_sequence_run.  What it cannot make it leaves out. *)
BootFilesystem ==
  /\ power = "off"
  /\ power' = "booting"
  /\ \E fault \in CardFaults :
       /\ Faulty(fault)
       /\ LET whole == boot_init_sd_filesystem(card)
          IN  \/ card' = whole
              \/ fault /\ card' \in {[card EXCEPT !.passwd = whole.passwd], card}
  /\ UNCHANGED <<told, screen, running, programs, accepted>>

(* A login is asked for when an account can be read; `unread' if the card failed. *)
login_begin_if_needed(unread) ==
  LET entry == IF unread THEN NoEntry ELSE read_passwd_entry(card.passwd)
  IN  /\ login' = IF entry # NoEntry THEN [on |-> TRUE, entry |-> entry] ELSE NoLogin
      /\ accepted' = IF entry # NoEntry THEN "asked" ELSE "not asked"

(* A first boot is due when no account file with content can be read. *)
firstboot_begin_if_needed(blank) ==
  firstboot' = [NoFirstboot EXCEPT !.on = ~login'.on /\ (blank \/ card.passwd \notin Lines)]

boot_start_desktop ==
  /\ power = "booting"
  /\ power' = "on"
  /\ \E fault, unread, blank \in CardFaults :
       /\ new_terminal(fault, FALSE)
       /\ Faulty(fault \/ unread \/ blank)
       /\ login_begin_if_needed(unread)
       /\ firstboot_begin_if_needed(blank)
  /\ UNCHANGED <<card, told, running, passwd, nano>>

-----------------------------------------------------------------------------
(* Who gets the key (terminal_handle_key_event). *)
Keys ==
  /\ power = "on" /\ running = NULL
  /\ term[active_terminal].active
  /\ ~term[active_terminal].image

(* Mutant of ShellKeys: the login keeps only the keys of its own window. *)
ShellKeysBesideLogin ==
  Keys /\ ~(login.on /\ active_terminal = 0) /\ ~firstboot.on /\ ~passwd.on /\ ~nano.on

LoginKeys == Keys /\ login.on
FirstbootKeys == Keys /\ ~login.on /\ firstboot.on
PasswdKeys == Keys /\ ~login.on /\ ~firstboot.on /\ passwd.on
NanoKeys == Keys /\ ~login.on /\ ~firstboot.on /\ ~passwd.on /\ nano.on
ShellKeys == Keys /\ ~login.on /\ ~firstboot.on /\ ~passwd.on /\ ~nano.on

(* login_handle_key_event, Enter on this input: one that is wrong asks again. *)
login_enter(input) ==
  /\ LoginKeys
  /\ input = login.entry.pass
  /\ login' = NoLogin
  /\ accepted' = "passed"
  /\ UNCHANGED <<power, card, damaged, told, screen, running, firstboot, passwd, nano>>

(* An account is written along the trail, and the user told that what was
   typed is now set.  When the card fails on the way the dialogue ends too,
   and says so; when power goes everything ends. *)
WriteAccount(trail, line, typed, ends) ==
  \/ /\ card' = Last(trail)
     /\ told' = IF Last(trail).passwd = line THEN typed ELSE told
     /\ ends
     /\ UNCHANGED <<power, damaged, screen, running, accepted>>
  \/ \E i \in 1..(Len(trail) - 1) :
       /\ card' = trail[i]
       /\ damaged' = TRUE
       /\ UNCHANGED told
       /\ \/ TRUE \in CardFaults /\ ends /\ UNCHANGED <<power, screen, running, accepted>>
          \/ PowerOff

FirstbootUsername(name) ==
  /\ FirstbootKeys /\ firstboot.step = "username"
  /\ firstboot' = [firstboot EXCEPT !.user = name, !.step = "password"]
  /\ UNCHANGED <<power, card, damaged, told, screen, running, login, passwd, nano, accepted>>

FirstbootPassword(input) ==
  /\ FirstbootKeys /\ firstboot.step = "password"
  /\ firstboot' = [firstboot EXCEPT !.pass = input, !.step = "confirm"]
  /\ UNCHANGED <<power, card, damaged, told, screen, running, login, passwd, nano, accepted>>

FirstbootMismatch(input) ==
  /\ FirstbootKeys /\ firstboot.step = "confirm" /\ input # firstboot.pass
  /\ firstboot' = [firstboot EXCEPT !.step = "password"]
  /\ UNCHANGED <<power, card, damaged, told, screen, running, login, passwd, nano, accepted>>

FirstbootConfirm(input) ==
  /\ FirstbootKeys /\ firstboot.step = "confirm" /\ input = firstboot.pass
  /\ LET line == [user |-> firstboot.user, pass |-> firstboot.pass]
         there == ToSet(Templates) \cap card.home
         ends == firstboot' = NoFirstboot /\ UNCHANGED <<login, passwd, nano>>
     IN  \/ WriteAccount(firstboot_trail(card, there, line), line, line, ends)
         \/ /\ TRUE \in CardFaults
            /\ \E seen \in SUBSET there : card' = Last(firstboot_trail(card, seen, line))
            /\ told' = IF card'.passwd = line THEN line ELSE told
            /\ damaged' = TRUE
            /\ ends
            /\ UNCHANGED <<power, screen, running, accepted>>

PasswdCurrent(input) ==
  /\ PasswdKeys /\ passwd.step = "current" /\ input = passwd.entry.pass
  /\ passwd' = [passwd EXCEPT !.step = "new"]
  /\ UNCHANGED <<power, card, damaged, told, screen, running, login, firstboot, nano, accepted>>

PasswdNew(input) ==
  /\ PasswdKeys /\ passwd.step = "new"
  /\ passwd' = [passwd EXCEPT !.new = input, !.step = "confirm"]
  /\ UNCHANGED <<power, card, damaged, told, screen, running, login, firstboot, nano, accepted>>

PasswdMismatch(input) ==
  /\ PasswdKeys /\ passwd.step = "confirm" /\ input # passwd.new
  /\ passwd' = [passwd EXCEPT !.step = "new"]
  /\ UNCHANGED <<power, card, damaged, told, screen, running, login, firstboot, nano, accepted>>

PasswdSet(input) ==
  LET line == [user |-> passwd.entry.user, pass |-> passwd.new]
  IN  WriteAccount(write_passwd_trail(card, line), line, [line EXCEPT !.pass = input],
                   passwd' = NoPasswd /\ UNCHANGED <<login, firstboot, nano>>)

(* Mutant of PasswdConfirm: the second password is not compared. *)
PasswdUnconfirmed(input) ==
  /\ PasswdKeys /\ passwd.step = "confirm"
  /\ PasswdSet(input)

PasswdConfirm(input) ==
  /\ PasswdKeys /\ passwd.step = "confirm" /\ input = passwd.new
  /\ PasswdSet(input)

(* nano_exit_to_shell, whichever key leads to it (see NanoEditor) *)
nano_exit_to_shell ==
  /\ NanoKeys
  /\ nano' = NoNano
  /\ UNCHANGED <<power, card, damaged, told, screen, running, login, firstboot, passwd, accepted>>

-----------------------------------------------------------------------------
(* The shell.  A command line, and a script, runs its commands one by one in
   the window it was typed in, whatever they do to that window and whatever
   program they start. *)
terminal_handle_enter ==
  /\ ShellKeys
  /\ running' = active_terminal
  /\ UNCHANGED <<power, card, damaged, told, screen, programs, accepted>>

CommandLineEnds ==
  /\ running # NULL
  /\ running' = NULL
  /\ UNCHANGED <<power, card, damaged, told, screen, programs, accepted>>

(* The directory of a window is the root when it has none. *)
Directory(w) == IF term[w].cwd = NULL THEN Root ELSE term[w].cwd

cmd_exit ==
  /\ running # NULL
  /\ close_terminal
  /\ UNCHANGED <<power, card, damaged, told, running, login, firstboot, passwd, accepted>>

(* The card is unmounted first, and no call is under way. *)
cmd_reboot == running # NULL /\ PowerOff /\ UNCHANGED <<card, damaged, told>>
cmd_shutdown == running # NULL /\ PowerOff /\ UNCHANGED <<card, damaged, told>>

cmd_cd(d) ==
  /\ running # NULL
  /\ term[running].cwd = NULL => RefsBound
  /\ Resolvable(refs, d)
  /\ term' = [term EXCEPT ![running].cwd = d]
  /\ refs' = Given(Held(refs, d), term[running].cwd)
  /\ nano' = [nano EXCEPT !.adrift = @ \/ (nano.term = running /\ Directory(running) # d)]
  /\ UNCHANGED <<power, card, damaged, told, active_terminal, running, login, firstboot,
                 passwd, accepted>>

(* Mutant of cmd_qimgv: the selected window becomes the viewer first. *)
ViewerBeforeWindow ==
  /\ running # NULL /\ HasSlot(refs) /\ term[active_terminal].active
  /\ term' = [term EXCEPT ![active_terminal].image = TRUE]
  /\ UNCHANGED <<power, card, damaged, told, active_terminal, refs, running, programs, accepted>>

(* qimgv opens a window and shows the image in the one selected afterwards,
   which is the shell's own when no window could be opened. *)
cmd_qimgv ==
  /\ running # NULL /\ HasSlot(refs)
  /\ \E fault \in CardFaults :
       /\ Faulty(fault)
       /\ \/ /\ Live = Windows
             /\ term' = [term EXCEPT ![active_terminal].image = TRUE, ![active_terminal].crowded = TRUE]
             /\ UNCHANGED <<active_terminal, refs>>
          \/ /\ Live # Windows /\ RefsBound
             /\ \E d \in StartDirs(fault) :
                  LET made == [Closed EXCEPT !.cwd = d]
                      shown == [made EXCEPT !.active = TRUE, !.image = TRUE, !.viewer = TRUE]
                  IN  /\ refs' = Held(refs, d)
                      /\ \/ term' = [term EXCEPT ![NewSlot] = shown] /\ active_terminal' = NewSlot
                         \/ /\ Live # {}
                            /\ term' = [term EXCEPT ![NewSlot] = made, ![active_terminal].image = TRUE,
                                                    ![active_terminal].crowded = TRUE]
                            /\ UNCHANGED active_terminal
  /\ UNCHANGED <<power, card, told, running, programs, accepted>>

cmd_passwd ==
  /\ running # NULL /\ HasSlot(refs)
  /\ read_passwd_entry(card.passwd) # NoEntry
  /\ passwd' = [NoPasswd EXCEPT !.on = TRUE, !.entry = read_passwd_entry(card.passwd)]
  /\ UNCHANGED <<power, card, damaged, told, screen, running, login, firstboot, nano, accepted>>

(* Mutant of cmd_nano: the file is looked up from the root. *)
NanoFromRoot ==
  /\ running # NULL /\ HasSlot(refs)
  /\ nano' = [on |-> TRUE, term |-> running, dir |-> Root, adrift |-> ~term[running].active]
  /\ UNCHANGED <<power, card, damaged, told, screen, running, login, firstboot, passwd, accepted>>

(* cmd_nano: nano starts on a file of this directory; when the file then cannot
   be read, whatever nano had open is gone. *)
cmd_nano ==
  /\ running # NULL /\ HasSlot(refs)
  /\ \E fault \in CardFaults :
       /\ Faulty(fault)
       /\ nano' = IF fault THEN NoNano
                  ELSE [on |-> TRUE, term |-> running, dir |-> Directory(running),
                        adrift |-> ~term[running].active]
  /\ UNCHANGED <<power, card, told, screen, running, login, firstboot, passwd, accepted>>

-----------------------------------------------------------------------------
DialogueKey ==
  \/ \E input \in Passwords :
       \/ login_enter(input)
       \/ FirstbootPassword(input) \/ FirstbootMismatch(input) \/ FirstbootConfirm(input)
       \/ PasswdCurrent(input) \/ PasswdNew(input) \/ PasswdMismatch(input) \/ PasswdConfirm(input)
  \/ \E name \in Names : FirstbootUsername(name)
  \/ nano_exit_to_shell

Command ==
  \/ cmd_exit \/ cmd_reboot \/ cmd_shutdown \/ cmd_qimgv \/ cmd_passwd \/ cmd_nano
  \/ \E d \in Places : cmd_cd(d)

Next ==
  \/ PowerLoss \/ BootFilesystem \/ boot_start_desktop
  \/ HotkeyNew \/ HotkeyClose \/ HotkeySelect
  \/ DialogueKey
  \/ terminal_handle_enter \/ Command \/ CommandLineEnds

Spec == Init /\ [][Next]_vars

-----------------------------------------------------------------------------
(* Type invariant. *)
TypeOK ==
  /\ power \in {"off", "booting", "on"}
  /\ card \in Cards
  /\ damaged \in BOOLEAN
  /\ told \in Lines \cup {NoEntry}
  /\ term \in [Windows -> [active : BOOLEAN, image : BOOLEAN, cwd : Dirs \cup {NULL},
                           viewer : BOOLEAN, crowded : BOOLEAN]]
  /\ active_terminal \in Windows
  /\ refs \in [Dirs -> Nat]
  /\ running \in Windows \cup {NULL}
  /\ login.on \in BOOLEAN
  /\ firstboot \in [on : BOOLEAN, step : {"username", "password", "confirm"},
                    user : Names \cup {NULL}, pass : Passwords \cup {NULL}]
  /\ passwd.step \in {"current", "new", "confirm"} /\ passwd.new \in Passwords \cup {NULL}
  /\ nano \in [on : BOOLEAN, term : Windows \cup {NULL}, dir : Dirs, adrift : BOOLEAN]
  /\ accepted \in {"not asked", "asked", "passed"}

(* Once boot has asked for a password no command runs before it was given,
   whatever windows are opened, closed and selected meanwhile: the dialogue
   belongs to no window (terminal_input.c:118). *)
ShellNeedsLogin == running # NULL => accepted # "asked"

(* What the user was last told is set is what the next login compares with -
   as long as the card did not fail, power did not go while it was written,
   and the name has no colon (firstboot.c:67 lets those pass; the login then
   takes part of the name for the hash, and nobody can log in again). *)
ToldIsTrue ==
  ~damaged /\ told # NoEntry /\ told.user \notin ColonUsers =>
    read_passwd_entry(card.passwd) = told

(* The account on the card has its home directory, cut writes and card errors
   or not: firstboot.c renames the directory before it writes the account.
   Nothing keeps a user from the name of a template, though (firstboot.c:61):
   once the card has failed such an account may lose its home, as a first boot
   that did not see the account takes it for the template. *)
AccountHasHome ==
  card.passwd \in Lines /\ (card.passwd.user \in ToSet(Templates) => ~damaged) =>
    card.passwd.user \in card.home

(* The directory a live window is in, and that of the window nano or a command
   line works in, is never freed under it - not even when that window has
   been closed, since close_terminal does not release it. *)
DirectoryHeld ==
  \A d \in Dirs :
    refs[d] >= Cardinality({w \in Windows : /\ term[w].cwd = d
                                            /\ \/ term[w].active
                                               \/ running = w
                                               \/ nano.on /\ nano.term = w})

(* nano resolves the file again when it saves (nano.c:190), from the directory
   the window is in by then.  That is the directory it read the file from,
   unless the window was closed or a script moved it on. *)
SavesWhereItRead ==
  nano.on /\ Directory(nano.term) # nano.dir => nano.adrift

(* A window turns into an image, deaf to all keys but the hotkeys, only if
   qimgv made it or could not make one (qimgv.c:74-86). *)
ImageOnlyInViewers ==
  \A w \in Windows : term[w].active /\ term[w].image => term[w].viewer \/ term[w].crowded

(* The account file, read as the dialogues read it, is an AccountStore. *)
HeldAccount == IF card.passwd \in Lines THEN card.passwd ELSE NoEntry
LineUser(a) == a.user
Store == INSTANCE AccountStore WITH
           Accounts <- Lines, NoAccount <- NoEntry, UserOf <- LineUser,
           account <- HeldAccount, damaged <- damaged
ImplementsAccountStore == Store!Spec
=============================================================================
