---------------------------- MODULE AccountCard ----------------------------
(***************************************************************************)
(* /etc/passwd and /home on the card, and the calls on them that the       *)
(* dialogues and the boot sequence make.  A call that changes the card in  *)
(* several steps is its trail: the card before, between and after them.    *)
(* It stops early when the card fails or power goes.  One line is less     *)
(* than a sector: the card has it whole or not at all.                     *)
(***************************************************************************)
EXTENDS Naturals, Sequences, FiniteSets, SequencesExt

CONSTANTS
  Users,       \* names that may be typed and hold no colon
  ColonUsers,  \* names with a colon, which username_is_valid lets pass
  Passwords,
  Templates    \* <<"users", "user">>: home directories a first boot renames

Names == Users \cup ColonUsers

Empty == [user |-> "none", pass |-> "empty"]     \* a file with nothing in it
Missing == [user |-> "none", pass |-> "missing"]

Lines == [user : Names, pass : Passwords]
PasswdFiles == Lines \cup {Empty, Missing}
Cards == [passwd : PasswdFiles, home : SUBSET (Names \cup ToSet(Templates))]

(* read_passwd_entry: the line is cut at its first colon.  Of a name with a
   colon the rest is read as the hash, and no password has that hash. *)
NoEntry == [user |-> "none", pass |-> "none"]
Stub(name) == <<"before colon", name>>
read_passwd_entry(passwd) ==
  IF passwd \notin Lines THEN NoEntry
  ELSE IF passwd.user \in ColonUsers THEN [user |-> Stub(passwd.user), pass |-> "none"]
  ELSE passwd

(* open(WRITE | TRUNC | CREATE), write, close.  vfs_open resolves first, so a
   file that is missing is never made; one that is there is removed before
   it is made again (vfs_sd.cpp:371). *)
write_passwd_trail(c, line) ==
  IF c.passwd = Missing THEN <<c>>
  ELSE <<c, [c EXCEPT !.passwd = Missing], [c EXCEPT !.passwd = Empty],
         [c EXCEPT !.passwd = line]>>

(* rename_home_dir.  `seen' are the templates that resolved: all there are,
   unless the card failed.  vfs_dir_create_node resolves what exists.  SD.rename
   refuses a name that another directory has, and the result is FALSE; a
   directory may be renamed to its own name. *)
rename_home_dir(c, seen, name) ==
  LET from == {i \in DOMAIN Templates : Templates[i] \in seen}
      old == Templates[Min(from)]
  IN  IF from = {} THEN [ok |-> TRUE, card |-> [c EXCEPT !.home = @ \cup {name}]]
      ELSE IF name \in c.home \ {old} THEN [ok |-> FALSE, card |-> c]
      ELSE [ok |-> TRUE, card |-> [c EXCEPT !.home = (@ \ {old}) \cup {name}]]

(* Mutant of firstboot_trail: the account is written first. *)
AccountFirst(c, seen, line) ==
  LET written == write_passwd_trail(c, line)
  IN  Append(written, rename_home_dir(Last(written), seen, line.user).card)

(* firstboot_accept_input, lines 338-344: the directory, then the account. *)
firstboot_trail(c, seen, line) ==
  LET renamed == rename_home_dir(c, seen, line.user)
  IN  IF renamed.ok THEN <<c>> \o write_passwd_trail(renamed.card, line) ELSE <<c>>

(* Mutant of boot_init_sd_filesystem: a file that is there is made anew. *)
MadeAnew(c) ==
  [passwd |-> Empty, home |-> IF c.home = {} THEN {Last(Templates)} ELSE c.home]

(* boot_init_sd_filesystem, as far as the accounts see it *)
boot_init_sd_filesystem(c) ==
  [passwd |-> IF c.passwd = Missing THEN Empty ELSE c.passwd,
   home   |-> IF c.home = {} THEN {Last(Templates)} ELSE c.home]
=============================================================================
