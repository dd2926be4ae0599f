------------------------- MODULE ShellSessionsProofs -------------------------
(***************************************************************************)
(* Proofs about ShellSessions for any windows, users, passwords, template  *)
(* directories and bounds: the account and its home, the login, and the    *)
(* directories and windows that programs work in.                          *)
(***************************************************************************)
EXTENDS ShellSessions, WellFoundedInduction, SequenceTheorems, FiniteSetTheorems, TLAPS

(* A nonempty set of naturals has a least element. *)
LEMMA LeastNatural ==
  ASSUME NEW S \in SUBSET Nat, S # {}
  PROVE  \E m \in S : \A k \in S : m <= k
  <1>1. PICK m \in S : \A k \in S : ~(<<k, m>> \in {ij \in Nat \X Nat : ij[1] < ij[2]})
    BY NatLessThanWellFounded, WFMin DEF OpToRel
  <1>2. \A k \in S : ~(k < m)
    BY <1>1
  <1>3. QED
    BY <1>2

HomeNames == Names \cup ToSet(Templates)

(* Names that no first boot takes for a template's. *)
OwnNames == Names \ ToSet(Templates)

LEMMA PlacesAreDirs == Places \subseteq Dirs
  BY SessionsAssumption DEF Dirs, Root

(* An account of such a name has its home directory on the card. *)
Housed(file, home) == file \in Lines /\ file.user \in OwnNames => file.user \in home
Whole(c) == c \in Cards /\ Housed(c.passwd, c.home)

(* Whatever a write does to a card, such homes stay. *)
KeepsHomes(c, e) == \A name \in OwnNames : name \in c.home => name \in e.home

-----------------------------------------------------------------------------
(* The trails. *)
LEMMA EmptyFiles ==
  /\ Empty \in PasswdFiles /\ Missing \in PasswdFiles /\ Lines \subseteq PasswdFiles
  /\ Empty \notin Lines /\ Missing \notin Lines /\ NoEntry \notin Lines
  <1>1. Empty.pass \notin Passwords /\ Missing.pass \notin Passwords /\ NoEntry.pass \notin Passwords
    BY SessionsAssumption DEF Empty, Missing, NoEntry
  <1>2. QED
    BY <1>1 DEF PasswdFiles, Lines

(* A card whose account file is replaced. *)
LEMMA FileReplaced ==
  ASSUME NEW c, Whole(c), NEW f \in PasswdFiles, Housed(f, c.home)
  PROVE  /\ Whole([c EXCEPT !.passwd = f])
         /\ [c EXCEPT !.passwd = f].home = c.home
         /\ [c EXCEPT !.passwd = f].passwd = f
  BY DEF Whole, Cards, Housed

(* Every card on the way of a write is whole. *)
LEMMA WriteTrail ==
  ASSUME NEW c, Whole(c), NEW line \in Lines, Housed(line, c.home)
  PROVE  /\ write_passwd_trail(c, line) \in Seq(Cards) \ {<<>>}
         /\ \A i \in 1..Len(write_passwd_trail(c, line)) :
              /\ Whole(write_passwd_trail(c, line)[i])
              /\ write_passwd_trail(c, line)[i].home = c.home
              /\ write_passwd_trail(c, line)[i].passwd \in {c.passwd, Missing, Empty, line}
  <1> DEFINE c2 == [c EXCEPT !.passwd = Missing]
             c3 == [c EXCEPT !.passwd = Empty]
             c4 == [c EXCEPT !.passwd = line]
  <1>1. \A e \in {c, c2, c3, c4} :
          /\ Whole(e) /\ e.home = c.home /\ e.passwd \in {c.passwd, Missing, Empty, line}
    <2>1. Whole(c2) /\ c2.home = c.home /\ c2.passwd = Missing
      BY FileReplaced, EmptyFiles DEF Housed
    <2>2. Whole(c3) /\ c3.home = c.home /\ c3.passwd = Empty
      BY FileReplaced, EmptyFiles DEF Housed
    <2>3. Whole(c4) /\ c4.home = c.home /\ c4.passwd = line
      BY FileReplaced, EmptyFiles
    <2> HIDE DEF c2, c3, c4
    <2>4. QED
      BY <2>1, <2>2, <2>3
  <1>2. c \in Cards /\ c2 \in Cards /\ c3 \in Cards /\ c4 \in Cards
    BY <1>1 DEF Whole
  <1> HIDE DEF c2, c3, c4
  <1>3. CASE c.passwd = Missing
    <2>1. write_passwd_trail(c, line) = <<c>>
      BY <1>3 DEF write_passwd_trail
    <2>2. QED
      BY <1>1, <1>2, <2>1
  <1>4. CASE c.passwd # Missing
    <2>1. write_passwd_trail(c, line) = <<c, c2, c3, c4>>
      BY <1>4 DEF write_passwd_trail, c2, c3, c4
    <2>2. QED
      BY <1>1, <1>2, <2>1
  <1>5. QED
    BY <1>3, <1>4

(* A renamed home: the account's name is there, no other user's is gone. *)
LEMMA HomeRenamed ==
  ASSUME NEW c, Whole(c), NEW seen, NEW name \in Names
  PROVE  /\ Whole(rename_home_dir(c, seen, name).card)
         /\ KeepsHomes(c, rename_home_dir(c, seen, name).card)
         /\ rename_home_dir(c, seen, name).card.passwd = c.passwd
         /\ rename_home_dir(c, seen, name).ok => name \in rename_home_dir(c, seen, name).card.home
  <1> DEFINE from == {i \in DOMAIN Templates : Templates[i] \in seen}
             made == [c EXCEPT !.home = @ \cup {name}]
             old == Templates[Min(from)]
             renamed == [c EXCEPT !.home = (@ \ {old}) \cup {name}]
  <1>1. c.home \subseteq HomeNames /\ c \in Cards /\ Names \subseteq HomeNames
    BY DEF Whole, Cards, HomeNames
  <1>2. /\ made \in Cards /\ made.home = c.home \cup {name} /\ made.passwd = c.passwd
    BY <1>1 DEF Cards, HomeNames
  <1>3. CASE from = {}
    <2>1. rename_home_dir(c, seen, name) = [ok |-> TRUE, card |-> made]
      BY <1>3 DEF rename_home_dir
    <2>2. Whole(made) /\ KeepsHomes(c, made) /\ name \in made.home
      BY <1>2 DEF Whole, KeepsHomes, Housed
    <2> HIDE DEF made
    <2>3. rename_home_dir(c, seen, name).card = made
      BY <2>1
    <2>4. QED
      BY <1>2, <2>2, <2>3
  <1>4. CASE from # {} /\ name \in c.home \ {old}
    <2>1. rename_home_dir(c, seen, name) = [ok |-> FALSE, card |-> c]
      BY <1>4 DEF rename_home_dir
    <2>2. QED
      BY <2>1 DEF KeepsHomes
  <1>5. CASE from # {} /\ name \notin c.home \ {old}
    <2>1. rename_home_dir(c, seen, name) = [ok |-> TRUE, card |-> renamed]
      BY <1>5 DEF rename_home_dir
    <2>2. old \in ToSet(Templates)
      <3>1. from \in SUBSET Nat
        BY SessionsAssumption, LenProperties
      <3>2. PICK m \in from : \A k \in from : m <= k
        BY <1>5, <3>1, LeastNatural
      <3>3. Min(from) \in from
        BY <3>2 DEF Min
      <3>4. QED
        BY <3>3 DEF ToSet
    <2> HIDE DEF old
    <2>3. old \notin OwnNames
      BY <2>2 DEF OwnNames
    <2>4. /\ renamed \in Cards /\ renamed.home = (c.home \ {old}) \cup {name} /\ renamed.passwd = c.passwd
      BY <1>1 DEF Cards, HomeNames
    <2>5. KeepsHomes(c, renamed)
      BY <2>3, <2>4 DEF KeepsHomes
    <2>6. Housed(renamed.passwd, renamed.home)
      BY <2>4, <2>5 DEF Whole, Housed, KeepsHomes
    <2>7. Whole(renamed) /\ name \in renamed.home
      BY <2>4, <2>6 DEF Whole
    <2> HIDE DEF renamed
    <2>8. rename_home_dir(c, seen, name).card = renamed
      BY <2>1
    <2>9. QED
      BY <2>4, <2>5, <2>7, <2>8
  <1>6. QED
    BY <1>3, <1>4, <1>5

(* First boot: the home comes before the account, so that no card on the way
   has an account without one. *)
LEMMA FirstbootTrail ==
  ASSUME NEW c, Whole(c), NEW seen, NEW line \in Lines
  PROVE  /\ firstboot_trail(c, seen, line) \in Seq(Cards) \ {<<>>}
         /\ \A i \in 1..Len(firstboot_trail(c, seen, line)) :
              /\ Whole(firstboot_trail(c, seen, line)[i])
              /\ KeepsHomes(c, firstboot_trail(c, seen, line)[i])
              /\ firstboot_trail(c, seen, line)[i].passwd \in {c.passwd, Missing, Empty, line}
  <1> DEFINE renamed == rename_home_dir(c, seen, line.user)
             written == write_passwd_trail(renamed.card, line)
  <1>1. line.user \in Names
    BY DEF Lines
  <1>2. /\ Whole(renamed.card) /\ KeepsHomes(c, renamed.card) /\ renamed.card.passwd = c.passwd
        /\ renamed.ok => line.user \in renamed.card.home
    BY <1>1, HomeRenamed
  <1>3. c \in Cards /\ KeepsHomes(c, c)
    BY DEF Whole, KeepsHomes
  <1>4. CASE ~renamed.ok
    <2>1. firstboot_trail(c, seen, line) = <<c>>
      BY <1>4 DEF firstboot_trail
    <2>2. QED
      BY <1>3, <2>1
  <1>5. CASE renamed.ok
    <2>1. firstboot_trail(c, seen, line) = <<c>> \o written
      BY <1>5 DEF firstboot_trail
    <2>2. /\ written \in Seq(Cards) \ {<<>>}
          /\ \A i \in 1..Len(written) :
               /\ Whole(written[i]) /\ written[i].home = renamed.card.home
               /\ written[i].passwd \in {c.passwd, Missing, Empty, line}
      BY <1>2, <1>5, WriteTrail DEF Housed
    <2>3. \A i \in 1..Len(written) : KeepsHomes(c, written[i])
      BY <1>2, <2>2 DEF KeepsHomes
    <2> HIDE DEF written
    <2>4. <<c>> \in Seq(Cards) /\ Len(<<c>>) = 1 /\ <<c>>[1] = c
      BY <1>3
    <2>5. /\ <<c>> \o written \in Seq(Cards)
          /\ Len(<<c>> \o written) = 1 + Len(written)
          /\ \A i \in 1..(1 + Len(written)) : (<<c>> \o written)[i] = IF i <= 1 THEN c ELSE written[i - 1]
      BY <2>2, <2>4, ConcatProperties
    <2>6. Len(written) \in Nat
      BY <2>2, LenProperties
    <2>7. \A i \in 1..(1 + Len(written)) : i <= 1 \/ i - 1 \in 1..Len(written)
      BY <2>6
    <2>8. QED
      BY <1>3, <2>1, <2>2, <2>3, <2>5, <2>6, <2>7
  <1>6. QED
    BY <1>4, <1>5

-----------------------------------------------------------------------------
(* What the dialogues hold of the account. *)
EntryFits(c) ==
  /\ Housed(passwd.entry, c.home)
  /\ passwd.entry \in Lines \/ passwd.entry.pass = "none"

PasswdTyped ==
  /\ passwd \in [on : BOOLEAN, step : {"current", "new", "confirm"}, entry : {passwd.entry},
                 new : Passwords \cup {NULL}]
  /\ passwd.step # "current" => passwd.entry \in Lines
  /\ passwd.step = "confirm" => passwd.new \in Passwords

FirstbootTyped ==
  /\ firstboot \in [on : BOOLEAN, step : {"username", "password", "confirm"},
                    user : Names \cup {NULL}, pass : Passwords \cup {NULL}]
  /\ firstboot.step # "username" => firstboot.user \in Names
  /\ firstboot.step = "confirm" => firstboot.pass \in Passwords

AccountInv == Whole(card) /\ EntryFits(card) /\ PasswdTyped /\ FirstbootTyped

(* What a step makes of the card: one that is as whole, with no home lost. *)
CardKept == Whole(card') /\ KeepsHomes(card, card')

LEMMA NothingBegun ==
  /\ passwd' = NoPasswd => PasswdTyped' /\ EntryFits(card)' /\ ~passwd'.on
  /\ firstboot' = NoFirstboot => FirstbootTyped' /\ ~firstboot'.on
  <1>1. NoEntry \notin Lines /\ NoEntry.pass = "none"
    BY EmptyFiles DEF NoEntry
  <1>2. NoPasswd \in [on : BOOLEAN, step : {"current", "new", "confirm"}, entry : {NoEntry},
                      new : Passwords \cup {NULL}]
    BY DEF NoPasswd
  <1>3. NoPasswd.entry = NoEntry /\ NoPasswd.step = "current" /\ NoPasswd.on = FALSE
    BY DEF NoPasswd
  <1>4. NoFirstboot \in [on : BOOLEAN, step : {"username", "password", "confirm"},
                         user : Names \cup {NULL}, pass : Passwords \cup {NULL}]
    BY DEF NoFirstboot
  <1>5. NoFirstboot.step = "username" /\ NoFirstboot.on = FALSE
    BY DEF NoFirstboot
  <1>6. QED
    BY <1>1, <1>2, <1>3, <1>4, <1>5 DEF PasswdTyped, EntryFits, FirstbootTyped, Housed

LEMMA SameDialogues ==
  ASSUME AccountInv, CardKept, UNCHANGED passwd
  PROVE  PasswdTyped' /\ EntryFits(card)'
  <1>1. PasswdTyped'
    BY DEF AccountInv, PasswdTyped
  <1>2. QED
    BY <1>1 DEF AccountInv, EntryFits, CardKept, KeepsHomes, Housed

(* What WriteAccount makes of the card and the dialogues. *)
LEMMA TrailWritten ==
  ASSUME NEW trail, trail \in Seq(Cards) \ {<<>>},
         \A i \in 1..Len(trail) : Whole(trail[i]) /\ KeepsHomes(card, trail[i]),
         NEW line, NEW typed, NEW ends \in BOOLEAN, WriteAccount(trail, line, typed, ends)
  PROVE  CardKept /\ (ends \/ PowerOff)
  <1>1. Len(trail) \in Nat \ {0} /\ Last(trail) = trail[Len(trail)]
    BY EmptySeq DEF Last
  <1>2. CASE card' = Last(trail) /\ ends
    BY <1>1, <1>2 DEF CardKept
  <1>3. CASE \E i \in 1..(Len(trail) - 1) : card' = trail[i] /\ (ends \/ PowerOff)
    <2>1. PICK i \in 1..(Len(trail) - 1) : card' = trail[i] /\ (ends \/ PowerOff)
      BY <1>3
    <2>2. i \in 1..Len(trail)
      BY <1>1
    <2>3. QED
      BY <2>1, <2>2 DEF CardKept
  <1>4. (card' = Last(trail) /\ ends) \/ \E i \in 1..(Len(trail) - 1) : card' = trail[i] /\ (ends \/ PowerOff)
    BY Zenon DEF WriteAccount
  <1>5. QED
    BY <1>2, <1>3, <1>4

LEMMA CardUntouched == Whole(card) /\ UNCHANGED card => CardKept
  BY DEF Whole, CardKept, KeepsHomes

LEMMA BootKeepsCard ==
  ASSUME Whole(card), BootFilesystem
  PROVE  /\ CardKept
         /\ card'.passwd = card.passwd \/ (card.passwd = Missing /\ card'.passwd = Empty)
         /\ card.home \subseteq card'.home
  <1> DEFINE whole == boot_init_sd_filesystem(card)
             half == [card EXCEPT !.passwd = whole.passwd]
  <1>1. card \in Cards /\ Last(Templates) \in ToSet(Templates)
    <2>1. Len(Templates) \in Nat \ {0} /\ DOMAIN Templates = 1..Len(Templates)
      BY SessionsAssumption, EmptySeq, LenProperties
    <2>2. QED
      BY <2>1 DEF Whole, Last, ToSet
  <1>2. /\ whole.passwd = IF card.passwd = Missing THEN Empty ELSE card.passwd
        /\ whole.home = IF card.home = {} THEN {Last(Templates)} ELSE card.home
        /\ whole \in Cards
    BY <1>1, EmptyFiles DEF boot_init_sd_filesystem, Cards
  <1>3. whole.passwd \in Lines => whole.passwd = card.passwd /\ card.passwd \in Lines
    BY <1>2, EmptyFiles
  <1>4. card.home \subseteq whole.home
    BY <1>2
  <1>5. Whole(whole) /\ KeepsHomes(card, whole)
    BY <1>2, <1>3, <1>4 DEF Whole, KeepsHomes, Housed
  <1>6. whole.passwd \in PasswdFiles
    BY <1>2 DEF Cards
  <1> HIDE DEF whole
  <1>7. Whole(half) /\ half.home = card.home /\ half.passwd = whole.passwd
    BY <1>3, <1>6, FileReplaced DEF Whole, Housed
  <1>8. KeepsHomes(card, half)
    BY <1>7 DEF KeepsHomes
  <1>9. card' = whole \/ card' = half \/ card' = card
    BY DEF BootFilesystem, whole
  <1>10. KeepsHomes(card, card)
    BY DEF KeepsHomes
  <1> HIDE DEF half
  <1>11. QED
    BY <1>2, <1>4, <1>5, <1>7, <1>8, <1>9, <1>10 DEF CardKept

-----------------------------------------------------------------------------
(* The dialogues, step by step. *)
LEMMA FirstbootConfirmInv ==
  ASSUME AccountInv, NEW input \in Passwords, FirstbootConfirm(input)
  PROVE  AccountInv' /\ CardKept
  <1> DEFINE line == [user |-> firstboot.user, pass |-> firstboot.pass]
             there == ToSet(Templates) \cap card.home
             ends == firstboot' = NoFirstboot /\ UNCHANGED <<login, passwd, nano>>
  <1>1. line \in Lines
    BY DEF AccountInv, FirstbootTyped, FirstbootConfirm, Lines
  <1>2. Whole(card)
    BY DEF AccountInv
  <1> HIDE DEF line, there
  <1>3. ASSUME NEW seen
        PROVE  /\ firstboot_trail(card, seen, line) \in Seq(Cards) \ {<<>>}
               /\ \A i \in 1..Len(firstboot_trail(card, seen, line)) :
                    /\ Whole(firstboot_trail(card, seen, line)[i])
                    /\ KeepsHomes(card, firstboot_trail(card, seen, line)[i])
    BY <1>1, <1>2, FirstbootTrail
  <1>4. CardKept /\ (ends \/ PowerOff)
    <2>1. CASE WriteAccount(firstboot_trail(card, there, line), line, line, ends)
      <3>1. ends \in BOOLEAN
        OBVIOUS
      <3> HIDE DEF ends
      <3>2. QED
        BY <1>3, <2>1, <3>1, TrailWritten
    <2>2. CASE ends /\ \E seen \in SUBSET there : card' = Last(firstboot_trail(card, seen, line))
      <3>1. PICK seen \in SUBSET there : card' = Last(firstboot_trail(card, seen, line))
        BY <2>2
      <3> DEFINE trail == firstboot_trail(card, seen, line)
      <3>2. trail \in Seq(Cards) \ {<<>>} /\ \A i \in 1..Len(trail) : Whole(trail[i]) /\ KeepsHomes(card, trail[i])
        BY <1>3
      <3> HIDE DEF trail
      <3>3. Len(trail) \in Nat \ {0} /\ Last(trail) = trail[Len(trail)]
        BY <3>2, EmptySeq DEF Last
      <3>4. card' = Last(trail)
        BY <3>1 DEF trail
      <3>5. QED
        BY <2>2, <3>2, <3>3, <3>4 DEF CardKept
    <2>3. QED
      BY <2>1, <2>2, Zenon DEF FirstbootConfirm, line, there
  <1>5. CASE ends
    <2>1. firstboot' = NoFirstboot /\ UNCHANGED passwd
      BY <1>5
    <2>2. QED
      BY <1>4, <2>1, NothingBegun, SameDialogues DEF AccountInv, CardKept
  <1>6. CASE PowerOff
    BY <1>4, <1>6, NothingBegun DEF PowerOff, AccountInv, CardKept
  <1>7. QED
    BY <1>4, <1>5, <1>6

LEMMA EntryKept ==
  ASSUME AccountInv, NEW input \in Passwords,
         \/ PasswdCurrent(input) \/ PasswdNew(input) \/ PasswdMismatch(input)
  PROVE  passwd'.entry = passwd.entry
  <1>1. PICK T : passwd \in [on : BOOLEAN, step : {"current", "new", "confirm"}, entry : T,
                            new : Passwords \cup {NULL}]
    BY DEF AccountInv, PasswdTyped
  <1>2. \/ passwd' = [passwd EXCEPT !.step = "new"]
        \/ passwd' = [passwd EXCEPT !.new = input, !.step = "confirm"]
    BY DEF PasswdCurrent, PasswdNew, PasswdMismatch
  <1>3. QED
    BY <1>1, <1>2

LEMMA PasswdKeysInv ==
  ASSUME AccountInv, NEW input \in Passwords,
         \/ PasswdCurrent(input) \/ PasswdNew(input) \/ PasswdMismatch(input)
  PROVE  AccountInv'
  <1>1. Whole(card') /\ UNCHANGED <<card, firstboot>>
    BY DEF AccountInv, PasswdCurrent, PasswdNew, PasswdMismatch
  <1>2. passwd'.entry = passwd.entry
    BY EntryKept
  <1>3. EntryFits(card)'
    BY <1>1, <1>2 DEF AccountInv, EntryFits
  <1>4. passwd.entry.pass = input => passwd.entry \in Lines
    BY SessionsAssumption DEF AccountInv, EntryFits
  <1>5. PasswdTyped'
    BY <1>2, <1>4 DEF AccountInv, PasswdTyped, PasswdCurrent, PasswdNew, PasswdMismatch
  <1>6. FirstbootTyped'
    BY <1>1 DEF AccountInv, FirstbootTyped
  <1>7. QED
    BY <1>1, <1>3, <1>5, <1>6 DEF AccountInv

LEMMA PasswdConfirmInv ==
  ASSUME AccountInv, NEW input \in Passwords, PasswdConfirm(input)
  PROVE  AccountInv' /\ CardKept
  <1> DEFINE line == [user |-> passwd.entry.user, pass |-> passwd.new]
             ends == passwd' = NoPasswd /\ UNCHANGED <<login, firstboot, nano>>
             trail == write_passwd_trail(card, line)
             typed == [line EXCEPT !.pass = input]
  <1>1. line \in Lines /\ line.user \in Names /\ Housed(line, card.home)
    BY DEF AccountInv, EntryFits, PasswdTyped, PasswdConfirm, Lines, Housed
  <1>2. Whole(card)
    BY DEF AccountInv
  <1>3. WriteAccount(trail, line, typed, ends)
    BY Zenon DEF PasswdConfirm, PasswdSet
  <1> HIDE DEF line, typed
  <1>4. trail \in Seq(Cards) \ {<<>>} /\ \A i \in 1..Len(trail) : Whole(trail[i]) /\ trail[i].home = card.home
    BY <1>1, <1>2, WriteTrail
  <1>5. ends \in BOOLEAN
    OBVIOUS
  <1> HIDE DEF trail
  <1>6. \A i \in 1..Len(trail) : KeepsHomes(card, trail[i])
    BY <1>4 DEF KeepsHomes
  <1>7. CardKept /\ (ends \/ PowerOff)
    <2> HIDE DEF ends
    <2>1. QED
      BY <1>3, <1>4, <1>5, <1>6, TrailWritten
  <1>8. CASE ends
    BY <1>7, <1>8, NothingBegun DEF AccountInv, CardKept, FirstbootTyped
  <1>9. CASE PowerOff
    BY <1>7, <1>9, NothingBegun DEF PowerOff, AccountInv, CardKept
  <1>10. QED
    BY <1>7, <1>8, <1>9

(* Steps that neither write to the card nor take part in a dialogue that does. *)
LEMMA AccountsApart ==
  ASSUME AccountInv, UNCHANGED <<card, passwd, firstboot>>
  PROVE  AccountInv' /\ CardKept
  <1>1. CardKept
    BY CardUntouched DEF AccountInv
  <1>2. QED
    BY <1>1, SameDialogues DEF AccountInv, FirstbootTyped, CardKept

LEMMA PowerOffInv ==
  ASSUME AccountInv, PowerOff, UNCHANGED card
  PROVE  AccountInv' /\ CardKept
  <1>1. CardKept
    BY CardUntouched DEF AccountInv
  <1>2. QED
    BY <1>1, NothingBegun DEF PowerOff, AccountInv, CardKept

LEMMA DesktopInv ==
  ASSUME AccountInv, boot_start_desktop
  PROVE  AccountInv' /\ CardKept
  <1>1. UNCHANGED <<card, passwd>>
    BY DEF boot_start_desktop
  <1>2. \E on \in BOOLEAN : firstboot' = [NoFirstboot EXCEPT !.on = on]
    BY DEF boot_start_desktop, firstboot_begin_if_needed
  <1>3. FirstbootTyped'
    BY <1>2 DEF FirstbootTyped, NoFirstboot
  <1>4. CardKept
    BY <1>1, CardUntouched DEF AccountInv
  <1>5. QED
    BY <1>1, <1>3, <1>4, SameDialogues DEF AccountInv, CardKept

LEMMA EntryRead ==
  ASSUME Whole(card)
  PROVE  LET entry == read_passwd_entry(card.passwd)
         IN  /\ entry \in Lines => entry = card.passwd
             /\ entry \in Lines \/ entry.pass = "none"
  <1>1. CASE card.passwd \notin Lines
    BY <1>1, EmptyFiles DEF read_passwd_entry, NoEntry
  <1>2. CASE card.passwd \in Lines /\ card.passwd.user \in ColonUsers
    <2> DEFINE stub == [user |-> Stub(card.passwd.user), pass |-> "none"]
    <2>1. read_passwd_entry(card.passwd) = stub
      BY <1>2 DEF read_passwd_entry
    <2>2. stub.pass = "none"
      OBVIOUS
    <2>3. stub \notin Lines
      BY <2>2, SessionsAssumption DEF Lines
    <2>4. QED
      BY <2>1, <2>2, <2>3
  <1>3. CASE card.passwd \in Lines /\ card.passwd.user \notin ColonUsers
    BY <1>3 DEF read_passwd_entry
  <1>4. QED
    BY <1>1, <1>2, <1>3

LEMMA PasswdBegins ==
  ASSUME AccountInv, cmd_passwd
  PROVE  AccountInv' /\ CardKept
  <1> DEFINE entry == read_passwd_entry(card.passwd)
  <1>1. UNCHANGED <<card, firstboot>> /\ passwd' = [NoPasswd EXCEPT !.on = TRUE, !.entry = entry]
    BY DEF cmd_passwd
  <1>2. (entry \in Lines => entry = card.passwd) /\ (entry \in Lines \/ entry.pass = "none")
    BY EntryRead DEF AccountInv
  <1> HIDE DEF entry
  <1>3. /\ passwd' \in [on : BOOLEAN, step : {"current", "new", "confirm"}, entry : {entry},
                        new : Passwords \cup {NULL}]
        /\ passwd'.entry = entry /\ passwd'.step = "current"
    BY <1>1 DEF NoPasswd
  <1>4. PasswdTyped' /\ EntryFits(card)'
    BY <1>1, <1>2, <1>3 DEF PasswdTyped, EntryFits, AccountInv, Whole, Housed
  <1>5. CardKept
    BY <1>1, CardUntouched DEF AccountInv
  <1>6. QED
    BY <1>1, <1>4, <1>5 DEF AccountInv, FirstbootTyped, CardKept

LEMMA BootInv ==
  ASSUME AccountInv, BootFilesystem
  PROVE  AccountInv' /\ CardKept
  <1>1. UNCHANGED <<passwd, firstboot>>
    BY DEF BootFilesystem, programs
  <1>2. CardKept
    BY BootKeepsCard DEF AccountInv
  <1>3. QED
    BY <1>1, <1>2, SameDialogues DEF AccountInv, FirstbootTyped, CardKept

LEMMA InitAccountInv == Init => AccountInv
  <1> SUFFICES ASSUME Init PROVE AccountInv
    OBVIOUS
  <1>1. card.passwd \in {Empty, Missing} /\ card \in Cards
    BY EmptyFiles DEF Init, Cards
  <1>2. Whole(card)
    BY <1>1, EmptyFiles DEF Whole, Housed
  <1>3. passwd = NoPasswd /\ firstboot = NoFirstboot
    BY DEF Init
  <1>4. PasswdTyped /\ EntryFits(card) /\ FirstbootTyped
    BY <1>3, EmptyFiles DEF PasswdTyped, EntryFits, FirstbootTyped, NoPasswd, NoFirstboot, NoEntry, Housed
  <1>5. QED
    BY <1>2, <1>4 DEF AccountInv

LEMMA NextAccountInv == AccountInv /\ [Next]_vars => AccountInv' /\ CardKept
  <1> SUFFICES ASSUME AccountInv, [Next]_vars PROVE AccountInv' /\ CardKept
    OBVIOUS
  <1>1. CASE PowerLoss \/ cmd_reboot \/ cmd_shutdown
    BY <1>1, PowerOffInv DEF PowerLoss, cmd_reboot, cmd_shutdown
  <1>2. CASE BootFilesystem
    BY <1>2, BootInv
  <1>3. CASE boot_start_desktop
    BY <1>3, DesktopInv
  <1>4. CASE HotkeyNew \/ HotkeyClose \/ HotkeySelect
    BY <1>4, AccountsApart DEF HotkeyNew, HotkeyClose, HotkeySelect, programs
  <1>5. CASE DialogueKey
    <2>1. ASSUME NEW input \in Passwords, login_enter(input) PROVE AccountInv' /\ CardKept
      BY <2>1, AccountsApart DEF login_enter
    <2>2. ASSUME NEW input \in Passwords, FirstbootPassword(input) \/ FirstbootMismatch(input)
          PROVE  AccountInv' /\ CardKept
      <3>1. UNCHANGED <<card, passwd>> /\ FirstbootTyped'
        BY <2>2 DEF AccountInv, FirstbootTyped, FirstbootPassword, FirstbootMismatch
      <3>2. QED
        BY <3>1, CardUntouched, SameDialogues DEF AccountInv, CardKept
    <2>3. ASSUME NEW input \in Passwords, FirstbootConfirm(input) PROVE AccountInv' /\ CardKept
      BY <2>3, FirstbootConfirmInv
    <2>4. ASSUME NEW input \in Passwords, PasswdCurrent(input) \/ PasswdNew(input) \/ PasswdMismatch(input)
          PROVE  AccountInv' /\ CardKept
      BY <2>4, PasswdKeysInv, CardUntouched DEF AccountInv, PasswdCurrent, PasswdNew, PasswdMismatch
    <2>5. ASSUME NEW input \in Passwords, PasswdConfirm(input) PROVE AccountInv' /\ CardKept
      BY <2>5, PasswdConfirmInv
    <2>6. ASSUME NEW name \in Names, FirstbootUsername(name) PROVE AccountInv' /\ CardKept
      <3>1. UNCHANGED <<card, passwd>> /\ FirstbootTyped'
        BY <2>6 DEF AccountInv, FirstbootTyped, FirstbootUsername
      <3>2. QED
        BY <3>1, CardUntouched, SameDialogues DEF AccountInv, CardKept
    <2>7. CASE nano_exit_to_shell
      BY <2>7, AccountsApart DEF nano_exit_to_shell
    <2>8. QED
      BY <1>5, <2>1, <2>2, <2>3, <2>4, <2>5, <2>6, <2>7 DEF DialogueKey
  <1>6. CASE terminal_handle_enter \/ CommandLineEnds \/ cmd_exit \/ cmd_qimgv \/ cmd_nano
    BY <1>6, AccountsApart DEF terminal_handle_enter, CommandLineEnds, cmd_exit, cmd_qimgv, cmd_nano, programs
  <1>7. ASSUME NEW d \in Dirs, cmd_cd(d) PROVE AccountInv' /\ CardKept
    BY <1>7, AccountsApart DEF cmd_cd
  <1>8. CASE cmd_passwd
    BY <1>8, PasswdBegins
  <1>9. CASE UNCHANGED vars
    BY <1>9, AccountsApart DEF vars
  <1>10. QED
    BY <1>1, <1>2, <1>3, <1>4, <1>5, <1>6, <1>7, <1>8, <1>9, PlacesAreDirs DEF Next, Command

-----------------------------------------------------------------------------
(* Who may act: a command line only where no dialogue of the start is on, and
   passwd only after them. *)
SessionInv ==
  /\ power # "on" => running = NULL /\ ~passwd.on /\ ~firstboot.on
  /\ running # NULL => ~login.on /\ ~firstboot.on
  /\ passwd.on => ~firstboot.on
  /\ accepted = "asked" => login.on

LEMMA NothingIsOn == ~NoPasswd.on /\ ~NoFirstboot.on /\ ~NoLogin.on
  BY DEF NoPasswd, NoFirstboot, NoLogin

LEMMA InitSessionInv == Init => SessionInv
  <1> SUFFICES ASSUME Init PROVE SessionInv
    OBVIOUS
  <1>1. passwd = NoPasswd /\ firstboot = NoFirstboot /\ running = NULL /\ accepted = "not asked"
    BY DEF Init
  <1>2. QED
    BY <1>1, NothingIsOn DEF SessionInv

LEMMA PowerOffSession == PowerOff => SessionInv'
  <1> SUFFICES ASSUME PowerOff PROVE SessionInv'
    OBVIOUS
  <1>1. passwd' = NoPasswd /\ firstboot' = NoFirstboot /\ running' = NULL /\ accepted' = "not asked"
    BY DEF PowerOff
  <1>2. QED
    BY <1>1, NothingIsOn DEF SessionInv

LEMMA SameSession ==
  ASSUME SessionInv, UNCHANGED <<power, login, accepted>>,
         running' = NULL \/ running' = running,
         passwd'.on => passwd.on, firstboot'.on => firstboot.on
  PROVE  SessionInv'
  BY DEF SessionInv

LEMMA DesktopSession ==
  ASSUME SessionInv, boot_start_desktop
  PROVE  SessionInv'
  <1>1. power' = "on" /\ running' = NULL /\ ~passwd'.on
    BY DEF SessionInv, boot_start_desktop
  <1>2. accepted' = "asked" => login'.on
    BY DEF boot_start_desktop, login_begin_if_needed
  <1>3. QED
    BY <1>1, <1>2 DEF SessionInv

LEMMA NextSessionInv == AccountInv /\ SessionInv /\ [Next]_vars => SessionInv'
  <1> SUFFICES ASSUME AccountInv, SessionInv, [Next]_vars PROVE SessionInv'
    OBVIOUS
  <1>1. CASE PowerLoss \/ cmd_reboot \/ cmd_shutdown
    BY <1>1, PowerOffSession DEF PowerLoss, cmd_reboot, cmd_shutdown
  <1>2. CASE BootFilesystem
    BY <1>2 DEF BootFilesystem, programs, SessionInv
  <1>3. CASE boot_start_desktop
    BY <1>3, DesktopSession
  <1>4. CASE HotkeyNew \/ HotkeyClose \/ HotkeySelect
    BY <1>4, SameSession DEF HotkeyNew, HotkeyClose, HotkeySelect, programs
  <1>5. CASE DialogueKey
    <2>1. ASSUME NEW input \in Passwords, login_enter(input) PROVE SessionInv'
      BY <2>1 DEF login_enter, SessionInv, LoginKeys, Keys, NoLogin
    <2>2. ASSUME NEW input \in Passwords, FirstbootPassword(input) \/ FirstbootMismatch(input)
          PROVE  SessionInv'
      <3>1. firstboot'.on => firstboot.on
        BY <2>2 DEF FirstbootPassword, FirstbootMismatch, FirstbootKeys
      <3>2. QED
        BY <2>2, <3>1, SameSession DEF FirstbootPassword, FirstbootMismatch
    <2>3. ASSUME NEW input \in Passwords, FirstbootConfirm(input) PROVE SessionInv'
      <3>1. PowerOff \/ (firstboot' = NoFirstboot /\ UNCHANGED <<power, running, accepted, login, passwd>>)
        BY <2>3 DEF FirstbootConfirm, WriteAccount
      <3>2. QED
        BY <3>1, PowerOffSession, NothingBegun, SameSession
    <2>4. ASSUME NEW input \in Passwords, PasswdCurrent(input) \/ PasswdNew(input) \/ PasswdMismatch(input)
          PROVE  SessionInv'
      <3>1. passwd'.on => passwd.on
        BY <2>4 DEF PasswdCurrent, PasswdNew, PasswdMismatch, PasswdKeys
      <3>2. QED
        BY <2>4, <3>1, SameSession DEF PasswdCurrent, PasswdNew, PasswdMismatch
    <2>5. ASSUME NEW input \in Passwords, PasswdConfirm(input) PROVE SessionInv'
      <3>1. PowerOff \/ (passwd' = NoPasswd /\ UNCHANGED <<power, running, accepted, login, firstboot>>)
        BY <2>5 DEF PasswdConfirm, PasswdSet, WriteAccount
      <3>2. QED
        BY <3>1, PowerOffSession, NothingBegun, SameSession
    <2>6. ASSUME NEW name \in Names, FirstbootUsername(name) PROVE SessionInv'
      <3>1. firstboot'.on => firstboot.on
        BY <2>6 DEF FirstbootUsername, FirstbootKeys
      <3>2. QED
        BY <2>6, <3>1, SameSession DEF FirstbootUsername
    <2>7. CASE nano_exit_to_shell
      BY <2>7, SameSession DEF nano_exit_to_shell
    <2>8. QED
      BY <1>5, <2>1, <2>2, <2>3, <2>4, <2>5, <2>6, <2>7 DEF DialogueKey
  <1>6. CASE terminal_handle_enter
    <2>1. power = "on" /\ ~login.on /\ ~firstboot.on
      BY <1>6 DEF terminal_handle_enter, ShellKeys, Keys
    <2>2. UNCHANGED <<power, login, firstboot, passwd, accepted>>
      BY <1>6 DEF terminal_handle_enter, programs
    <2>3. QED
      BY <2>1, <2>2 DEF SessionInv
  <1>7. CASE CommandLineEnds \/ cmd_exit \/ cmd_qimgv \/ cmd_nano
    BY <1>7, SameSession DEF CommandLineEnds, cmd_exit, cmd_qimgv, cmd_nano, programs
  <1>8. ASSUME NEW d \in Dirs, cmd_cd(d) PROVE SessionInv'
    BY <1>8, SameSession DEF cmd_cd
  <1>9. CASE cmd_passwd
    BY <1>9 DEF cmd_passwd, SessionInv
  <1>10. CASE UNCHANGED vars
    BY <1>10, SameSession DEF vars
  <1>11. QED
    BY <1>1, <1>2, <1>3, <1>4, <1>5, <1>6, <1>7, <1>8, <1>9, <1>10, PlacesAreDirs DEF Next, Command

(* No command runs before the password that boot asked for was given. *)
THEOREM NoShellBeforeLogin == Spec => []ShellNeedsLogin
  <1>1. SessionInv => ShellNeedsLogin
    BY DEF SessionInv, ShellNeedsLogin
  <1>2. QED
    BY <1>1, InitAccountInv, NextAccountInv, InitSessionInv, NextSessionInv, PTL DEF Spec

-----------------------------------------------------------------------------
(* While the card has not failed, the dialogues know what is on it. *)
AgreeInv ==
  /\ damaged \in BOOLEAN
  /\ told \in Lines \cup {NoEntry}
  /\ ~damaged =>
       /\ firstboot.on => card.passwd \notin Lines
       /\ passwd.on /\ passwd.entry \in Lines =>
            card.passwd \in Lines /\ card.passwd.user = passwd.entry.user
       /\ told # NoEntry => card.passwd = told
       /\ card.passwd \in Lines => card.passwd.user \in card.home

(* A write that ends has written, unless the file was missing. *)
LEMMA TrailEnds ==
  ASSUME NEW c, Whole(c), NEW line \in Lines
  PROVE  /\ c.passwd # Missing => Last(write_passwd_trail(c, line)).passwd = line
         /\ c.passwd = Missing => Last(write_passwd_trail(c, line)) = c
  <1> DEFINE c2 == [c EXCEPT !.passwd = Missing]
             c3 == [c EXCEPT !.passwd = Empty]
             c4 == [c EXCEPT !.passwd = line]
  <1>1. c4.passwd = line
    BY DEF Whole, Cards
  <1> HIDE DEF c2, c3, c4
  <1>2. CASE c.passwd = Missing
    BY <1>2 DEF write_passwd_trail, Last
  <1>3. CASE c.passwd # Missing
    <2>1. write_passwd_trail(c, line) = <<c, c2, c3, c4>>
      BY <1>3 DEF write_passwd_trail, c2, c3, c4
    <2>2. QED
      BY <1>1, <1>3, <2>1 DEF Last
  <1>4. QED
    BY <1>2, <1>3

(* What each step does to the account. *)
Changes ==
  /\ damaged' \in BOOLEAN /\ (damaged => damaged')
  /\ \/ damaged'
     \/ HeldAccount' = HeldAccount
     \/ HeldAccount = NoEntry /\ HeldAccount' \in Lines
     \/ /\ HeldAccount \in Lines /\ HeldAccount' \in Lines
        /\ HeldAccount'.user = HeldAccount.user

LEMMA Apart ==
  ASSUME AgreeInv, UNCHANGED <<card, told>>, damaged' \in BOOLEAN, damaged => damaged',
         ~damaged' => /\ firstboot'.on => firstboot.on
                      /\ passwd'.on => passwd.on /\ passwd'.entry = passwd.entry
  PROVE  AgreeInv' /\ Changes
  <1>1. HeldAccount' = HeldAccount
    BY DEF HeldAccount
  <1>2. AgreeInv'
    BY DEF AgreeInv
  <1>3. QED
    BY <1>1, <1>2 DEF Changes

LEMMA PowerOffAgrees ==
  ASSUME AgreeInv, PowerOff, UNCHANGED <<card, damaged, told>>
  PROVE  AgreeInv' /\ Changes
  <1>1. ~passwd'.on /\ ~firstboot'.on
    BY NothingIsOn DEF PowerOff
  <1>2. HeldAccount' = HeldAccount
    BY DEF HeldAccount
  <1>3. AgreeInv'
    BY <1>1 DEF AgreeInv
  <1>4. QED
    BY <1>2, <1>3 DEF Changes, AgreeInv

LEMMA FaultNoted ==
  ASSUME damaged \in BOOLEAN, NEW fault \in BOOLEAN, Faulty(fault)
  PROVE  damaged' \in BOOLEAN /\ (damaged => damaged') /\ (fault => damaged')
  BY DEF Faulty

LEMMA FaultsBoolean == \A fault \in CardFaults : fault \in BOOLEAN
  BY SessionsAssumption

LEMMA BootAgrees ==
  ASSUME AccountInv, AgreeInv, BootFilesystem
  PROVE  AgreeInv' /\ Changes
  <1>1. /\ card'.passwd = card.passwd \/ (card.passwd = Missing /\ card'.passwd = Empty)
        /\ card.home \subseteq card'.home
    BY BootKeepsCard DEF AccountInv
  <1>2. damaged' \in BOOLEAN /\ (damaged => damaged')
    BY FaultNoted, FaultsBoolean DEF BootFilesystem, AgreeInv
  <1>3. UNCHANGED <<told, firstboot, passwd>>
    BY DEF BootFilesystem, programs
  <1>4. HeldAccount' = HeldAccount
    BY <1>1, EmptyFiles DEF HeldAccount
  <1>5. Missing # NoEntry /\ Missing \notin Lines
    BY EmptyFiles DEF Missing, NoEntry
  <1>6. AgreeInv'
    BY <1>1, <1>2, <1>3, <1>5, EmptyFiles DEF AgreeInv
  <1>7. QED
    BY <1>2, <1>4, <1>6 DEF Changes

LEMMA DesktopAgrees ==
  ASSUME SessionInv, AgreeInv, boot_start_desktop
  PROVE  AgreeInv' /\ Changes
  <1>1. PICK fault \in CardFaults, unread \in CardFaults, blank \in CardFaults :
          Faulty(fault \/ unread \/ blank) /\ firstboot_begin_if_needed(blank)
    BY DEF boot_start_desktop
  <1>2. UNCHANGED <<card, told, passwd>> /\ ~passwd.on
    BY DEF boot_start_desktop, SessionInv
  <1>3. blank \in BOOLEAN /\ (fault \/ unread \/ blank) \in BOOLEAN
    BY FaultsBoolean
  <1>4. damaged' \in BOOLEAN /\ (damaged => damaged') /\ (blank => damaged')
    BY <1>1, <1>3, FaultNoted DEF AgreeInv
  <1>5. firstboot'.on => blank \/ card.passwd \notin Lines
    BY <1>1 DEF firstboot_begin_if_needed, NoFirstboot
  <1>6. AgreeInv'
    BY <1>2, <1>4, <1>5 DEF AgreeInv
  <1>7. HeldAccount' = HeldAccount
    BY <1>2 DEF HeldAccount
  <1>8. QED
    BY <1>4, <1>6, <1>7 DEF Changes

(* What the user is told when a write ends, and that a cut one is noted. *)
LEMMA WriteTold ==
  ASSUME NEW trail, NEW line, NEW typed, NEW ends \in BOOLEAN, WriteAccount(trail, line, typed, ends)
  PROVE  \/ /\ card' = Last(trail) /\ ends /\ UNCHANGED damaged
            /\ told' = IF Last(trail).passwd = line THEN typed ELSE told
         \/ damaged' = TRUE /\ UNCHANGED told
  BY Zenon DEF WriteAccount

(* A write that was cut, or met a failed card. *)
LEMMA DamageAgrees ==
  ASSUME damaged' = TRUE, told' \in Lines \cup {NoEntry}
  PROVE  AgreeInv' /\ Changes
  BY DEF AgreeInv, Changes

LEMMA FirstbootConfirmAgrees ==
  ASSUME AccountInv, SessionInv, AgreeInv, NEW input \in Passwords, FirstbootConfirm(input)
  PROVE  AgreeInv' /\ Changes
  <1> DEFINE line == [user |-> firstboot.user, pass |-> firstboot.pass]
             there == ToSet(Templates) \cap card.home
             ends == firstboot' = NoFirstboot /\ UNCHANGED <<login, passwd, nano>>
             trail == firstboot_trail(card, there, line)
             renamed == rename_home_dir(card, there, line.user)
  <1>1. line \in Lines /\ line.user \in Names
    BY DEF AccountInv, FirstbootTyped, FirstbootConfirm, Lines
  <1>2. firstboot.on /\ ~passwd.on
    BY DEF FirstbootConfirm, FirstbootKeys, SessionInv
  <1>3. told \in Lines \cup {NoEntry} /\ damaged \in BOOLEAN
    BY DEF AgreeInv
  <1>4. Whole(card)
    BY DEF AccountInv
  <1>5. \/ WriteAccount(trail, line, line, ends)
        \/ damaged' = TRUE /\ told' = IF card'.passwd = line THEN line ELSE told
    BY Zenon DEF FirstbootConfirm
  <1> HIDE DEF line, there
  <1>6. /\ Whole(renamed.card) /\ renamed.card.passwd = card.passwd
        /\ trail = IF renamed.ok THEN <<card>> \o write_passwd_trail(renamed.card, line) ELSE <<card>>
        /\ renamed.ok => line.user \in renamed.card.home
    BY <1>1, <1>4, HomeRenamed DEF firstboot_trail
  <1>7. \/ Last(trail) = card
        \/ /\ Last(trail).passwd = card.passwd \/ Last(trail).passwd = line
           /\ line.user \in Last(trail).home
    <2>1. CASE ~renamed.ok
      BY <1>6, <2>1 DEF Last
    <2>2. CASE renamed.ok
      <3> DEFINE written == write_passwd_trail(renamed.card, line)
      <3>1. /\ written \in Seq(Cards) \ {<<>>}
            /\ \A i \in 1..Len(written) : written[i].home = renamed.card.home
        BY <1>1, <1>6, <2>2, WriteTrail DEF Housed
      <3>2. Last(written).passwd = card.passwd \/ Last(written).passwd = line
        BY <1>1, <1>6, TrailEnds
      <3>3. trail = <<card>> \o written
        BY <1>6, <2>2
      <3> HIDE DEF written, trail
      <3>4. Len(written) \in Nat \ {0} /\ Last(written) = written[Len(written)]
        BY <3>1, EmptySeq DEF Last
      <3>5. <<card>> \in Seq(Cards) /\ Len(<<card>>) = 1
        BY <1>4 DEF Whole
      <3>6. Len(trail) = 1 + Len(written) /\ trail[1 + Len(written)] = written[Len(written)]
        BY <3>1, <3>3, <3>4, <3>5, ConcatProperties
      <3>7. written[Len(written)].home = renamed.card.home
        BY <3>1, <3>4
      <3>8. QED
        BY <1>6, <2>2, <3>2, <3>4, <3>6, <3>7 DEF Last
    <2>3. QED
      BY <2>1, <2>2
  <1>8. CASE WriteAccount(trail, line, line, ends)
    <2> HIDE DEF trail
    <2>1. ends \in BOOLEAN
      OBVIOUS
    <2> HIDE DEF ends
    <2>2. CASE /\ card' = Last(trail) /\ ends /\ UNCHANGED damaged
               /\ told' = IF Last(trail).passwd = line THEN line ELSE told
      <3>1. firstboot' = NoFirstboot /\ UNCHANGED passwd
        BY <2>2 DEF ends
      <3>2. CASE damaged
        BY <1>1, <1>3, <2>2, <3>2, DamageAgrees
      <3>3. CASE ~damaged
        <4>1. card.passwd \notin Lines /\ told = NoEntry /\ HeldAccount = NoEntry
          BY <1>2, <1>3, <3>3 DEF AgreeInv, HeldAccount
        <4>2. HeldAccount' = NoEntry \/ HeldAccount' \in Lines
          BY DEF HeldAccount
        <4>3. told' # NoEntry => card'.passwd = told'
          BY <2>2, <4>1
        <4>4. told' \in Lines \cup {NoEntry}
          BY <1>1, <1>3, <2>2
        <4>5. card'.passwd \in Lines => card'.passwd.user \in card'.home
          BY <1>7, <2>2, <4>1
        <4>6. AgreeInv'
          BY <1>2, <1>3, <2>2, <3>1, <4>3, <4>4, <4>5, NothingIsOn DEF AgreeInv
        <4>7. QED
          BY <1>3, <2>2, <4>1, <4>2, <4>6 DEF Changes
      <3>4. QED
        BY <1>3, <3>2, <3>3
    <2>3. CASE damaged' = TRUE /\ UNCHANGED told
      BY <1>3, <2>3, DamageAgrees
    <2>4. QED
      BY <1>8, <2>1, <2>2, <2>3, WriteTold
  <1>9. CASE damaged' = TRUE /\ told' = IF card'.passwd = line THEN line ELSE told
    BY <1>1, <1>3, <1>9, DamageAgrees
  <1>10. QED
    BY <1>5, <1>8, <1>9

LEMMA PasswdConfirmAgrees ==
  ASSUME AccountInv, SessionInv, AgreeInv, NEW input \in Passwords, PasswdConfirm(input)
  PROVE  AgreeInv' /\ Changes
  <1> DEFINE line == [user |-> passwd.entry.user, pass |-> passwd.new]
             ends == passwd' = NoPasswd /\ UNCHANGED <<login, firstboot, nano>>
             trail == write_passwd_trail(card, line)
             typed == [line EXCEPT !.pass = input]
  <1>1. line \in Lines /\ typed = line /\ passwd.entry \in Lines /\ line.user = passwd.entry.user
    BY DEF AccountInv, EntryFits, PasswdTyped, PasswdConfirm, Lines
  <1>2. passwd.on /\ ~firstboot.on
    BY DEF PasswdConfirm, PasswdKeys
  <1>3. told \in Lines \cup {NoEntry} /\ damaged \in BOOLEAN
    BY DEF AgreeInv
  <1>4. WriteAccount(trail, line, typed, ends)
    BY Zenon DEF PasswdConfirm, PasswdSet
  <1>5. Whole(card)
    BY DEF AccountInv
  <1> HIDE DEF line, typed
  <1>6. /\ card.passwd \in Lines => Last(trail).passwd = line
        /\ Last(trail).home = card.home
    <2>1. card.passwd \in Lines => Last(trail).passwd = line
      BY <1>1, <1>5, TrailEnds, EmptyFiles
    <2>2. Housed(line, card.home)
      BY <1>1 DEF AccountInv, EntryFits, Housed
    <2>3. trail \in Seq(Cards) \ {<<>>} /\ \A i \in 1..Len(trail) : trail[i].home = card.home
      BY <1>1, <1>5, <2>2, WriteTrail
    <2> HIDE DEF trail
    <2>4. Len(trail) \in Nat \ {0} /\ Last(trail) = trail[Len(trail)]
      BY <2>3, EmptySeq DEF Last
    <2>5. QED
      BY <2>1, <2>3, <2>4
  <1>7. ends \in BOOLEAN
    OBVIOUS
  <1> HIDE DEF trail, ends
  <1>8. CASE /\ card' = Last(trail) /\ ends /\ UNCHANGED damaged
             /\ told' = IF Last(trail).passwd = line THEN typed ELSE told
    <2>1. passwd' = NoPasswd /\ UNCHANGED firstboot
      BY <1>8 DEF ends
    <2>2. CASE damaged
      BY <1>1, <1>3, <1>8, <2>2, DamageAgrees
    <2>3. CASE ~damaged
      <3>1. card.passwd \in Lines /\ card.passwd.user = line.user
        BY <1>1, <1>2, <2>3 DEF AgreeInv
      <3>2. card'.passwd = line /\ told' = line /\ line.user \in card'.home
        BY <1>1, <1>6, <1>8, <2>3, <3>1 DEF AgreeInv
      <3>3. HeldAccount = card.passwd /\ HeldAccount' = line
        BY <1>1, <3>1, <3>2 DEF HeldAccount
      <3>4. AgreeInv'
        BY <1>1, <1>2, <1>3, <1>8, <2>1, <3>2, NothingIsOn DEF AgreeInv
      <3>5. QED
        BY <1>1, <1>3, <1>8, <3>1, <3>3, <3>4 DEF Changes
    <2>4. QED
      BY <1>3, <2>2, <2>3
  <1>9. CASE damaged' = TRUE /\ UNCHANGED told
    BY <1>3, <1>9, DamageAgrees
  <1>10. QED
    BY <1>4, <1>7, <1>8, <1>9, WriteTold

LEMMA PasswdBeginsAgrees ==
  ASSUME AccountInv, SessionInv, AgreeInv, cmd_passwd
  PROVE  AgreeInv' /\ Changes
  <1> DEFINE entry == read_passwd_entry(card.passwd)
  <1>1. /\ UNCHANGED <<card, damaged, told, firstboot>> /\ ~firstboot.on
        /\ passwd' = [NoPasswd EXCEPT !.on = TRUE, !.entry = entry] /\ entry # NoEntry
    BY DEF cmd_passwd, SessionInv
  <1>2. entry \in Lines => entry = card.passwd
    BY EntryRead DEF AccountInv
  <1> HIDE DEF entry
  <1>3. passwd'.entry = entry
    BY <1>1 DEF NoPasswd
  <1>4. HeldAccount' = HeldAccount
    BY <1>1 DEF HeldAccount
  <1>5. AgreeInv'
    BY <1>1, <1>2, <1>3 DEF AgreeInv
  <1>6. QED
    BY <1>1, <1>4, <1>5 DEF Changes, AgreeInv

LEMMA InitAgreeInv == Init => AgreeInv /\ HeldAccount = NoEntry /\ damaged = FALSE
  <1> SUFFICES ASSUME Init PROVE AgreeInv /\ HeldAccount = NoEntry /\ damaged = FALSE
    OBVIOUS
  <1>1. card.passwd \in {Empty, Missing} /\ passwd = NoPasswd /\ firstboot = NoFirstboot
        /\ damaged = FALSE /\ told = NoEntry
    BY DEF Init
  <1>2. QED
    BY <1>1, EmptyFiles, NothingIsOn DEF AgreeInv, HeldAccount

LEMMA NextAgreeInv ==
  AccountInv /\ SessionInv /\ AgreeInv /\ [Next]_vars => AgreeInv' /\ Changes
  <1> SUFFICES ASSUME AccountInv, SessionInv, AgreeInv, [Next]_vars PROVE AgreeInv' /\ Changes
    OBVIOUS
  <1>1. CASE PowerLoss \/ cmd_reboot \/ cmd_shutdown
    BY <1>1, PowerOffAgrees DEF PowerLoss, cmd_reboot, cmd_shutdown
  <1>2. CASE BootFilesystem
    BY <1>2, BootAgrees
  <1>3. CASE boot_start_desktop
    BY <1>3, DesktopAgrees
  <1>4. CASE HotkeyNew
    <2>1. PICK fault \in CardFaults : Faulty(fault)
      BY <1>4 DEF HotkeyNew
    <2>2. damaged' \in BOOLEAN /\ (damaged => damaged')
      BY <2>1, FaultNoted, FaultsBoolean DEF AgreeInv
    <2>3. QED
      BY <1>4, <2>2, Apart DEF HotkeyNew, programs
  <1>5. CASE HotkeyClose \/ HotkeySelect
    BY <1>5, Apart DEF HotkeyClose, HotkeySelect, programs, AgreeInv
  <1>6. CASE DialogueKey
    <2>1. ASSUME NEW input \in Passwords, login_enter(input) PROVE AgreeInv' /\ Changes
      BY <2>1, Apart DEF login_enter, AgreeInv
    <2>2. ASSUME NEW input \in Passwords, FirstbootPassword(input) \/ FirstbootMismatch(input)
          PROVE  AgreeInv' /\ Changes
      <3>1. firstboot.on /\ UNCHANGED <<card, told, damaged, passwd>>
        BY <2>2 DEF FirstbootPassword, FirstbootMismatch, FirstbootKeys
      <3>2. QED
        BY <3>1, Apart DEF AgreeInv
    <2>3. ASSUME NEW input \in Passwords, FirstbootConfirm(input) PROVE AgreeInv' /\ Changes
      BY <2>3, FirstbootConfirmAgrees
    <2>4. ASSUME NEW input \in Passwords, PasswdCurrent(input) \/ PasswdNew(input) \/ PasswdMismatch(input)
          PROVE  AgreeInv' /\ Changes
      <3>1. passwd.on /\ UNCHANGED <<card, told, damaged, firstboot>>
        BY <2>4 DEF PasswdCurrent, PasswdNew, PasswdMismatch, PasswdKeys
      <3>2. passwd'.entry = passwd.entry
        BY <2>4, EntryKept
      <3>3. QED
        BY <3>1, <3>2, Apart DEF AgreeInv
    <2>5. ASSUME NEW input \in Passwords, PasswdConfirm(input) PROVE AgreeInv' /\ Changes
      BY <2>5, PasswdConfirmAgrees
    <2>6. ASSUME NEW name \in Names, FirstbootUsername(name) PROVE AgreeInv' /\ Changes
      <3>1. firstboot.on /\ UNCHANGED <<card, told, damaged, passwd>>
        BY <2>6 DEF FirstbootUsername, FirstbootKeys
      <3>2. QED
        BY <3>1, Apart DEF AgreeInv
    <2>7. CASE nano_exit_to_shell
      BY <2>7, Apart DEF nano_exit_to_shell, AgreeInv
    <2>8. QED
      BY <1>6, <2>1, <2>2, <2>3, <2>4, <2>5, <2>6, <2>7 DEF DialogueKey
  <1>7. CASE terminal_handle_enter \/ CommandLineEnds \/ cmd_exit
    BY <1>7, Apart DEF terminal_handle_enter, CommandLineEnds, cmd_exit, programs, AgreeInv
  <1>8. CASE cmd_qimgv \/ cmd_nano
    <2>1. PICK fault \in CardFaults : Faulty(fault)
      BY <1>8 DEF cmd_qimgv, cmd_nano
    <2>2. damaged' \in BOOLEAN /\ (damaged => damaged')
      BY <2>1, FaultNoted, FaultsBoolean DEF AgreeInv
    <2>3. QED
      BY <1>8, <2>2, Apart DEF cmd_qimgv, cmd_nano, programs
  <1>9. ASSUME NEW d \in Dirs, cmd_cd(d) PROVE AgreeInv' /\ Changes
    BY <1>9, Apart DEF cmd_cd, AgreeInv
  <1>10. CASE cmd_passwd
    BY <1>10, PasswdBeginsAgrees
  <1>11. CASE UNCHANGED vars
    BY <1>11, Apart DEF vars, AgreeInv
  <1>12. QED
    BY <1>1, <1>2, <1>3, <1>4, <1>5, <1>6, <1>7, <1>8, <1>9, <1>10, <1>11, PlacesAreDirs DEF Next, Command

(* The account on the card has its home directory through every cut write and
   card error - unless its name is a template's, which a first boot renames: it
   then has it while the card has not failed. *)
THEOREM AccountsHaveHomes == Spec => []AccountHasHome
  <1>1. AccountInv /\ AgreeInv => AccountHasHome
    <2> SUFFICES ASSUME AccountInv, AgreeInv, card.passwd \in Lines,
                        card.passwd.user \in ToSet(Templates) => ~damaged
                 PROVE  card.passwd.user \in card.home
      BY DEF AccountHasHome
    <2>1. CASE card.passwd.user \in ToSet(Templates)
      BY <2>1 DEF AgreeInv
    <2>2. CASE card.passwd.user \notin ToSet(Templates)
      <3>1. card.passwd.user \in OwnNames
        BY <2>2 DEF OwnNames, Lines
      <3>2. QED
        BY <3>1 DEF AccountInv, Whole, Housed
    <2>3. QED
      BY <2>1, <2>2
  <1>2. QED
    BY <1>1, InitAccountInv, NextAccountInv, InitSessionInv, NextSessionInv, InitAgreeInv,
       NextAgreeInv, PTL DEF Spec

(* What the user was last told is set is what the login compares with. *)
THEOREM ToldStaysTrue == Spec => []ToldIsTrue
  <1>1. AgreeInv => ToldIsTrue
    BY DEF AgreeInv, ToldIsTrue, read_passwd_entry
  <1>2. QED
    BY <1>1, InitAccountInv, NextAccountInv, InitSessionInv, NextSessionInv, InitAgreeInv,
       NextAgreeInv, PTL DEF Spec

(* The dialogues implement the account of AccountStore: whatever the order in
   which boots, windows, commands, cut writes and card errors come. *)
THEOREM DialoguesImplementTheStore == Spec => ImplementsAccountStore
  <1>1. Init => Store!Init
    BY InitAgreeInv DEF Store!Init
  <1>2. AgreeInv /\ Changes => [Store!Next]_<<HeldAccount, damaged>>
    <2> SUFFICES ASSUME AgreeInv, Changes PROVE Store!Next \/ UNCHANGED <<HeldAccount, damaged>>
      OBVIOUS
    <2>1. HeldAccount' \in Lines \cup {NoEntry}
      BY DEF HeldAccount
    <2>2. CASE damaged'
      BY <2>1, <2>2 DEF Store!Next, Store!Damage
    <2>3. ~damaged' => damaged' = damaged
      BY DEF Changes, AgreeInv
    <2>4. CASE ~damaged' /\ HeldAccount' = HeldAccount
      BY <2>3, <2>4
    <2>5. CASE ~damaged' /\ HeldAccount = NoEntry /\ HeldAccount' \in Lines
      BY <2>3, <2>5 DEF Store!Next, Store!Create
    <2>6. CASE /\ ~damaged' /\ HeldAccount \in Lines /\ HeldAccount' \in Lines
               /\ HeldAccount'.user = HeldAccount.user
      <3>1. HeldAccount' \in {a \in Lines : LineUser(a) = LineUser(HeldAccount)}
        BY <2>6 DEF LineUser
      <3>2. HeldAccount # NoEntry
        BY <2>6, EmptyFiles
      <3>3. QED
        BY <2>3, <2>6, <3>1, <3>2 DEF Store!Next, Store!ChangePassword
    <2>7. QED
      BY <2>2, <2>4, <2>5, <2>6 DEF Changes
  <1>3. AccountInv /\ SessionInv /\ AgreeInv /\ [Next]_vars => [Store!Next]_<<HeldAccount, damaged>>
    BY <1>2, NextAgreeInv
  <1>4. QED
    BY <1>1, <1>3, InitAccountInv, NextAccountInv, InitSessionInv, NextSessionInv, InitAgreeInv,
       NextAgreeInv, PTL DEF Spec, ImplementsAccountStore, Store!Spec

-----------------------------------------------------------------------------
(* Windows, the directories they are in, and nano in one of them. *)
WindowRecords == [active : BOOLEAN, image : BOOLEAN, cwd : Dirs \cup {NULL}, viewer : BOOLEAN,
                  crowded : BOOLEAN]

Inside(t, d) == {w \in Windows : t[w].cwd = d}

(* The invariant about counts: a window counts in the directory it is in
   whether it is live or not. *)
Counted == \A d \in Dirs : Cardinality(Inside(term, d)) <= refs[d]

(* A window that was closed under nano can come back with another directory. *)
NanoKnows ==
  nano.on => /\ nano.term \in Windows
             /\ ~term[nano.term].active \/ Directory(nano.term) # nano.dir => nano.adrift

WindowsTyped ==
  /\ term \in [Windows -> WindowRecords]
  /\ active_terminal \in Windows
  /\ refs \in [Dirs -> Nat]
  /\ running \in Windows \cup {NULL}
  /\ nano \in [on : BOOLEAN, term : Windows \cup {NULL}, dir : Dirs, adrift : BOOLEAN]

WindowInv == WindowsTyped /\ Counted /\ NanoKnows /\ ImageOnlyInViewers

LEMMA DirsAndNull ==
  /\ NULL \notin Dirs /\ NULL \notin Windows /\ Root \in Dirs /\ HomeNames \subseteq Dirs
  /\ 0 \in Windows /\ Windows \subseteq Nat
  <1>1. NULL \notin Dirs /\ NULL \notin Windows /\ Root \in Dirs /\ HomeNames \subseteq Dirs
    BY SessionsAssumption DEF Dirs, Root, HomeNames
  <1>2. Cardinality(Windows) \in Nat
    BY SessionsAssumption, FS_CardinalityType
  <1>3. QED
    BY <1>1, <1>2, SessionsAssumption

LEMMA InsideFinite ==
  ASSUME NEW t, NEW d
  PROVE  IsFiniteSet(Inside(t, d)) /\ Cardinality(Inside(t, d)) \in Nat
  <1>1. Inside(t, d) \subseteq Windows
    BY DEF Inside
  <1>2. QED
    BY <1>1, SessionsAssumption, FS_Subset, FS_CardinalityType

(* One window changes its directory. *)
LEMMA OneMoves ==
  ASSUME NEW t, NEW u, NEW w \in Windows, \A v \in Windows \ {w} : u[v].cwd = t[v].cwd, NEW d
  PROVE  /\ Cardinality(Inside(u, d)) <= Cardinality(Inside(t, d)) + 1
         /\ u[w].cwd # d => Cardinality(Inside(u, d)) <= Cardinality(Inside(t, d))
         /\ u[w].cwd # d /\ t[w].cwd = d => Cardinality(Inside(u, d)) = Cardinality(Inside(t, d)) - 1
         /\ u[w].cwd = t[w].cwd => Cardinality(Inside(u, d)) = Cardinality(Inside(t, d))
  <1>1. IsFiniteSet(Inside(t, d)) /\ Cardinality(Inside(t, d)) \in Nat
    BY InsideFinite
  <1>2. /\ Cardinality(Inside(t, d) \cup {w}) = IF w \in Inside(t, d) THEN Cardinality(Inside(t, d))
                                                ELSE Cardinality(Inside(t, d)) + 1
        /\ Cardinality(Inside(t, d) \ {w}) = IF w \in Inside(t, d) THEN Cardinality(Inside(t, d)) - 1
                                             ELSE Cardinality(Inside(t, d))
    BY <1>1, FS_AddElement, FS_RemoveElement
  <1>3. Inside(u, d) = IF u[w].cwd = d THEN Inside(t, d) \cup {w} ELSE Inside(t, d) \ {w}
    BY DEF Inside
  <1>4. w \in Inside(t, d) <=> t[w].cwd = d
    BY DEF Inside
  <1>5. QED
    BY <1>1, <1>2, <1>3, <1>4

(* A window that moves to a directory, whose count goes up with it. *)
LEMMA MovedIn ==
  ASSUME WindowsTyped, Counted, NEW w \in Windows, NEW d \in Dirs \cup {NULL},
         \A v \in Windows \ {w} : term'[v].cwd = term[v].cwd, term'[w].cwd = d, refs' = Held(refs, d)
  PROVE  Counted' /\ refs' \in [Dirs -> Nat]
  <1>1. refs' \in [Dirs -> Nat] /\ \A e \in Dirs : refs'[e] = IF e = d THEN refs[e] + 1 ELSE refs[e]
    BY DirsAndNull DEF WindowsTyped, Held
  <1>2. ASSUME NEW e \in Dirs PROVE Cardinality(Inside(term', e)) <= refs'[e]
    <2>1. Cardinality(Inside(term, e)) \in Nat /\ Cardinality(Inside(term', e)) \in Nat
      BY InsideFinite
    <2>2. /\ Cardinality(Inside(term', e)) <= Cardinality(Inside(term, e)) + 1
          /\ d # e => Cardinality(Inside(term', e)) <= Cardinality(Inside(term, e))
      BY OneMoves
    <2>3. Cardinality(Inside(term, e)) <= refs[e] /\ refs[e] \in Nat
      BY DEF Counted, WindowsTyped
    <2>4. QED
      BY <1>1, <2>1, <2>2, <2>3
  <1>3. \A e : Inside(term, e)' = Inside(term', e)
    BY DEF Inside
  <1>4. QED
    BY <1>1, <1>2, <1>3 DEF Counted

(* No window moves. *)
LEMMA NoneMoves ==
  ASSUME Counted, UNCHANGED refs, \A v \in Windows : term'[v].cwd = term[v].cwd
  PROVE  Counted'
  <1>1. \A e : Inside(term, e)' = Inside(term, e)
    BY DEF Inside
  <1>2. QED
    BY <1>1 DEF Counted

(* The first closed window, and the window that becomes the selected one. *)
LEMMA LeastOf ==
  ASSUME NEW S \in SUBSET Windows, S # {}
  PROVE  Least(S) \in S
  <1>1. PICK m \in S : \A k \in S : m <= k
    BY DirsAndNull, LeastNatural
  <1>2. QED
    BY <1>1 DEF Least

LEMMA StartsIn ==
  ASSUME Whole(card), NEW fault
  PROVE  StartDirs(fault) \subseteq Dirs \cup {NULL}
  <1>1. ASSUME NEW root \in Dirs \cup {NULL} PROVE set_cwd_from_passwd(root) \in Dirs \cup {NULL}
    <2>1. card.home \subseteq Dirs
      BY DirsAndNull DEF Whole, Cards, HomeNames
    <2>2. QED
      BY <2>1 DEF set_cwd_from_passwd
  <1>2. QED
    BY <1>1, DirsAndNull DEF StartDirs

(* A closed window on nano's side: what is known of nano does not depend on it. *)
LEMMA NanoKept ==
  ASSUME WindowsTyped, NanoKnows, UNCHANGED nano,
         \A v \in Windows : term[v].active =>
           term'[v].active = term[v].active /\ term'[v].cwd = term[v].cwd
  PROVE  NanoKnows'
  BY DEF NanoKnows, Directory, WindowsTyped

LEMMA NewWindow ==
  ASSUME WindowInv, Whole(card), NEW fault, NEW viewer \in BOOLEAN, new_terminal(fault, viewer),
         UNCHANGED nano, running' = running
  PROVE  WindowInv'
  <1>1. CASE UNCHANGED screen
    BY <1>1, NoneMoves DEF WindowInv, WindowsTyped, NanoKnows, ImageOnlyInViewers, Directory, screen
  <1>2. CASE Live # Windows /\ ~UNCHANGED screen
    <2>1. NewSlot \in Windows \ Live
      BY <1>2, LeastOf DEF NewSlot, Live
    <2>2. PICK d \in StartDirs(fault) :
            /\ refs' = Held(refs, d)
            /\ \/ /\ term' = [term EXCEPT ![NewSlot] =
                                [Closed EXCEPT !.active = TRUE, !.cwd = d, !.viewer = viewer]]
                  /\ active_terminal' = NewSlot
               \/ /\ term' = [term EXCEPT ![NewSlot] = [Closed EXCEPT !.cwd = d]]
                  /\ UNCHANGED active_terminal
      BY <1>2 DEF new_terminal
    <2>3. d \in Dirs \cup {NULL}
      BY <2>2, StartsIn
    <2> DEFINE n == NewSlot
    <2> HIDE DEF n
    <2>4. n \in Windows \ Live /\ term \in [Windows -> WindowRecords]
      BY <2>1 DEF n, WindowInv, WindowsTyped
    <2>5. PICK rec \in WindowRecords : term' = [term EXCEPT ![n] = rec] /\ rec.cwd = d /\ ~rec.image
      <3> DEFINE shut == [Closed EXCEPT !.cwd = d]
                 made == [Closed EXCEPT !.active = TRUE, !.cwd = d, !.viewer = viewer]
      <3>1. shut \in WindowRecords /\ shut.cwd = d /\ ~shut.image
        BY <2>3 DEF WindowRecords, Closed
      <3>2. made \in WindowRecords /\ made.cwd = d /\ ~made.image
        BY <2>3 DEF WindowRecords, Closed
      <3>3. term' = [term EXCEPT ![n] = made] \/ term' = [term EXCEPT ![n] = shut]
        BY <2>2 DEF n
      <3> HIDE DEF shut, made
      <3>4. QED
        BY <3>1, <3>2, <3>3
    <2>6. /\ term' \in [Windows -> WindowRecords] /\ term'[n] = rec
          /\ \A v \in Windows \ {n} : term'[v] = term[v]
      BY <2>4, <2>5
    <2>7. Counted' /\ refs' \in [Dirs -> Nat]
      BY <2>2, <2>3, <2>4, <2>5, <2>6, MovedIn DEF WindowInv
    <2>8. active_terminal' \in Windows
      BY <2>2, <2>4 DEF n, WindowInv, WindowsTyped
    <2>9. WindowsTyped'
      BY <2>6, <2>7, <2>8 DEF WindowInv, WindowsTyped
    <2>10. \A v \in Windows : term[v].active => term'[v] = term[v]
      BY <2>4, <2>6 DEF Live
    <2>11. NanoKnows'
      BY <2>10, NanoKept DEF WindowInv
    <2>12. ImageOnlyInViewers'
      BY <2>5, <2>6 DEF WindowInv, ImageOnlyInViewers
    <2>13. QED
      BY <2>7, <2>9, <2>11, <2>12 DEF WindowInv
  <1>3. QED
    BY <1>1, <1>2 DEF new_terminal

LEMMA CloseWindow ==
  ASSUME WindowInv, close_terminal, running' = running
  PROVE  WindowInv'
  <1> DEFINE a == active_terminal
  <1>1. a \in Windows /\ term \in [Windows -> WindowRecords]
    BY DEF WindowInv, WindowsTyped
  <1>2. term' = [term EXCEPT ![a].active = FALSE]
    BY DEF close_terminal
  <1>3. active_terminal' \in Windows
    <2>1. Live \ {a} # {} => Least(Live \ {a}) \in Live \ {a}
      BY LeastOf DEF Live
    <2>2. QED
      BY <2>1, DirsAndNull DEF close_terminal, Live
  <1>4. /\ nano' = [nano EXCEPT !.adrift = @ \/ nano.term = a]
        /\ nano \in [on : BOOLEAN, term : Windows \cup {NULL}, dir : Dirs, adrift : BOOLEAN]
    BY DEF close_terminal, WindowInv, WindowsTyped
  <1>5. UNCHANGED refs
    BY DEF close_terminal
  <1> HIDE DEF a
  <1>6. /\ term' \in [Windows -> WindowRecords] /\ ~term'[a].active
        /\ \A v \in Windows : term'[v].cwd = term[v].cwd
        /\ \A v \in Windows \ {a} : term'[v] = term[v]
    BY <1>1, <1>2 DEF WindowRecords
  <1>7. /\ nano' \in [on : BOOLEAN, term : Windows \cup {NULL}, dir : Dirs, adrift : BOOLEAN]
        /\ nano'.on = nano.on /\ nano'.term = nano.term /\ nano'.dir = nano.dir
        /\ nano.adrift => nano'.adrift
        /\ nano.term = a => nano'.adrift
    BY <1>4
  <1>8. WindowsTyped'
    BY <1>3, <1>5, <1>6, <1>7 DEF WindowInv, WindowsTyped
  <1>9. Counted'
    BY <1>5, <1>6, NoneMoves DEF WindowInv
  <1>10. NanoKnows'
    BY <1>6, <1>7 DEF WindowInv, NanoKnows, Directory
  <1>11. ImageOnlyInViewers'
    BY <1>6 DEF WindowInv, ImageOnlyInViewers
  <1>12. QED
    BY <1>8, <1>9, <1>10, <1>11 DEF WindowInv

LEMMA PowerOffWindows ==
  ASSUME WindowInv, PowerOff
  PROVE  WindowInv'
  <1>1. Closed \in WindowRecords /\ Closed.cwd = NULL /\ ~Closed.active
    BY DEF Closed, WindowRecords
  <1>2. /\ NoNano \in [on : BOOLEAN, term : Windows \cup {NULL}, dir : Dirs, adrift : BOOLEAN]
        /\ ~NoNano.on
    BY DirsAndNull DEF NoNano
  <1>3. /\ term' \in [Windows -> WindowRecords]
        /\ \A v \in Windows : term'[v].cwd = NULL /\ ~term'[v].active
        /\ refs' = [d \in Dirs |-> 0] /\ nano' = NoNano /\ active_terminal' = 0 /\ running' = NULL
    BY <1>1 DEF PowerOff
  <1>4. Counted'
    <2>1. \A d \in Dirs : Inside(term, d)' = {}
      BY <1>3, DirsAndNull DEF Inside
    <2>2. QED
      BY <1>3, <2>1, FS_EmptySet DEF Counted
  <1>5. WindowsTyped' /\ NanoKnows' /\ ImageOnlyInViewers'
    BY <1>2, <1>3, DirsAndNull DEF WindowsTyped, NanoKnows, ImageOnlyInViewers
  <1>6. QED
    BY <1>4, <1>5 DEF WindowInv

(* Steps that leave the windows alone. *)
LEMMA WindowsApart ==
  ASSUME WindowInv, UNCHANGED <<term, refs, nano>>, active_terminal' \in Windows,
         running' \in Windows \cup {NULL}
  PROVE  WindowInv'
  BY NoneMoves DEF WindowInv, WindowsTyped, NanoKnows, ImageOnlyInViewers, Directory

LEMMA MoveTo ==
  ASSUME WindowInv, NEW d \in Dirs, cmd_cd(d)
  PROVE  WindowInv'
  <1> DEFINE r == running
             old == term[running].cwd
  <1>1. r \in Windows /\ term \in [Windows -> WindowRecords] /\ refs \in [Dirs -> Nat]
    BY DirsAndNull DEF cmd_cd, WindowInv, WindowsTyped
  <1>2. old \in Dirs \cup {NULL}
    BY <1>1 DEF WindowRecords
  <1>3. term' = [term EXCEPT ![r].cwd = d] /\ refs' = Given(Held(refs, d), old)
    BY DEF cmd_cd
  <1>4. /\ nano' = [nano EXCEPT !.adrift = @ \/ (nano.term = r /\ Directory(r) # d)]
        /\ nano \in [on : BOOLEAN, term : Windows \cup {NULL}, dir : Dirs, adrift : BOOLEAN]
    BY DEF cmd_cd, WindowInv, WindowsTyped
  <1>5. UNCHANGED <<active_terminal, running>>
    BY DEF cmd_cd
  <1>6. old = term[r].cwd
    OBVIOUS
  <1> HIDE DEF r, old
  <1>7. /\ term' \in [Windows -> WindowRecords] /\ term'[r].cwd = d
        /\ \A v \in Windows \ {r} : term'[v] = term[v]
        /\ \A v \in Windows : /\ term'[v].active = term[v].active /\ term'[v].image = term[v].image
                              /\ term'[v].viewer = term[v].viewer /\ term'[v].crowded = term[v].crowded
    BY <1>1, <1>3 DEF WindowRecords
  <1>8. /\ nano' \in [on : BOOLEAN, term : Windows \cup {NULL}, dir : Dirs, adrift : BOOLEAN]
        /\ nano'.on = nano.on /\ nano'.term = nano.term /\ nano'.dir = nano.dir
        /\ nano.adrift => nano'.adrift
        /\ nano.term = r /\ Directory(r) # d => nano'.adrift
    BY <1>4
  <1>9. \A e \in Dirs : Cardinality(Inside(term, e)) \in Nat /\ Cardinality(Inside(term', e)) \in Nat
                        /\ Cardinality(Inside(term, e)) <= refs[e] /\ refs[e] \in Nat
    BY <1>1, InsideFinite DEF WindowInv, Counted
  <1>10. old \in Dirs => Cardinality(Inside(term, old)) > 0
    <2>1. SUFFICES ASSUME old \in Dirs PROVE Cardinality(Inside(term, old)) # 0
      BY <1>9
    <2>2. r \in Inside(term, old)
      BY <1>1, <1>6 DEF Inside
    <2>3. QED
      BY <2>2, InsideFinite, FS_EmptySet
  <1>11. /\ refs' \in [Dirs -> Nat]
         /\ old = NULL => \A e \in Dirs : refs'[e] = IF e = d THEN refs[e] + 1 ELSE refs[e]
         /\ old = d => refs' = refs
         /\ old \in Dirs /\ old # d =>
              \A e \in Dirs : refs'[e] = IF e = d THEN refs[e] + 1
                                         ELSE IF e = old THEN refs[e] - 1 ELSE refs[e]
    <2> DEFINE held == [refs EXCEPT ![d] = @ + 1]
    <2>1. /\ held \in [Dirs -> Nat]
          /\ \A e \in Dirs : held[e] = IF e = d THEN refs[e] + 1 ELSE refs[e]
      BY <1>1
    <2>2. refs' = IF old = NULL THEN held ELSE [held EXCEPT ![old] = @ - 1]
      BY <1>3, DirsAndNull DEF Held, Given
    <2> HIDE DEF held
    <2>3. old \in Dirs => held[old] - 1 \in Nat
      BY <1>9, <1>10, <2>1
    <2>4. old \in Dirs => /\ refs' \in [Dirs -> Nat]
                          /\ \A e \in Dirs : refs'[e] = IF e = old THEN held[e] - 1 ELSE held[e]
      BY <2>1, <2>2, <2>3, DirsAndNull
    <2>5. old = d => \A e \in Dirs : refs'[e] = refs[e]
      BY <1>9, <2>1, <2>4
    <2>6. QED
      BY <1>1, <1>2, <2>1, <2>2, <2>4, <2>5, DirsAndNull
  <1>12. Counted'
    <2>1. ASSUME NEW e \in Dirs PROVE Cardinality(Inside(term', e)) <= refs'[e]
      <3>1. /\ Cardinality(Inside(term', e)) <= Cardinality(Inside(term, e)) + 1
            /\ d # e => Cardinality(Inside(term', e)) <= Cardinality(Inside(term, e))
            /\ d # e /\ old = e => Cardinality(Inside(term', e)) = Cardinality(Inside(term, e)) - 1
            /\ d = old => Cardinality(Inside(term', e)) = Cardinality(Inside(term, e))
        BY <1>1, <1>6, <1>7, OneMoves
      <3>2. QED
        BY <1>2, <1>9, <1>11, <3>1
    <2>2. \A e : Inside(term, e)' = Inside(term', e)
      BY DEF Inside
    <2>3. QED
      BY <2>1, <2>2 DEF Counted
  <1>13. WindowsTyped'
    BY <1>5, <1>7, <1>8, <1>11 DEF WindowInv, WindowsTyped
  <1>14. NanoKnows'
    <2>1. CASE nano.term = r
      BY <1>1, <1>7, <1>8, <2>1, DirsAndNull DEF WindowInv, NanoKnows, Directory
    <2>2. CASE nano.term # r
      BY <1>7, <1>8, <2>2 DEF WindowInv, NanoKnows, Directory
    <2>3. QED
      BY <2>1, <2>2
  <1>15. ImageOnlyInViewers'
    BY <1>7 DEF WindowInv, ImageOnlyInViewers
  <1>16. QED
    BY <1>12, <1>13, <1>14, <1>15 DEF WindowInv

LEMMA NanoBegins ==
  ASSUME WindowInv, cmd_nano
  PROVE  WindowInv'
  <1> DEFINE begun == [on |-> TRUE, term |-> running, dir |-> Directory(running),
                       adrift |-> ~term[running].active]
  <1>1. running \in Windows /\ term \in [Windows -> WindowRecords]
    BY DirsAndNull DEF cmd_nano, WindowInv, WindowsTyped
  <1>2. Directory(running) \in Dirs
    BY <1>1, DirsAndNull DEF Directory, WindowRecords
  <1>3. nano' = NoNano \/ nano' = begun
    BY DEF cmd_nano
  <1>4. UNCHANGED <<term, refs, active_terminal, running>>
    BY DEF cmd_nano, screen
  <1>5. /\ NoNano \in [on : BOOLEAN, term : Windows \cup {NULL}, dir : Dirs, adrift : BOOLEAN]
        /\ ~NoNano.on
    BY DirsAndNull DEF NoNano
  <1>6. begun \in [on : BOOLEAN, term : Windows \cup {NULL}, dir : Dirs, adrift : BOOLEAN]
    BY <1>1, <1>2 DEF WindowRecords
  <1>7. begun.term = running /\ begun.dir = Directory(running) /\ begun.adrift = ~term[running].active
    OBVIOUS
  <1> HIDE DEF begun
  <1>8. WindowsTyped' /\ ImageOnlyInViewers'
    BY <1>3, <1>4, <1>5, <1>6 DEF WindowInv, WindowsTyped, ImageOnlyInViewers
  <1>9. Counted'
    BY <1>4, NoneMoves DEF WindowInv
  <1>10. NanoKnows'
    BY <1>1, <1>3, <1>4, <1>5, <1>7 DEF NanoKnows, Directory
  <1>11. QED
    BY <1>8, <1>9, <1>10 DEF WindowInv

(* The image goes to the window selected. *)
Showing(t, a) == [t EXCEPT ![a].image = TRUE, ![a].crowded = TRUE]

LEMMA ImageShown ==
  ASSUME NEW t \in [Windows -> WindowRecords], NEW a \in Windows
  PROVE  /\ Showing(t, a) \in [Windows -> WindowRecords]
         /\ Showing(t, a)[a].crowded
         /\ \A v \in Windows : /\ Showing(t, a)[v].cwd = t[v].cwd
                               /\ Showing(t, a)[v].active = t[v].active
                               /\ v # a => Showing(t, a)[v] = t[v]
  BY DEF WindowRecords, Showing

LEMMA ViewerOpens ==
  ASSUME WindowInv, Whole(card), cmd_qimgv
  PROVE  WindowInv'
  <1> DEFINE a == active_terminal
             n == NewSlot
  <1>1. a \in Windows /\ term \in [Windows -> WindowRecords] /\ running' = running /\ UNCHANGED nano
    BY DEF WindowInv, WindowsTyped, cmd_qimgv, programs
  <1>2. CASE /\ term' = [term EXCEPT ![a].image = TRUE, ![a].crowded = TRUE]
             /\ UNCHANGED <<active_terminal, refs>>
    <2> HIDE DEF a
    <2>0. term' = Showing(term, a)
      BY <1>2 DEF Showing
    <2>1. /\ term' \in [Windows -> WindowRecords] /\ term'[a].crowded
          /\ \A v \in Windows : /\ term'[v].cwd = term[v].cwd /\ term'[v].active = term[v].active
                                /\ v # a => term'[v] = term[v]
      BY <1>1, <2>0, ImageShown
    <2>2. WindowsTyped'
      BY <1>1, <1>2, <2>1 DEF WindowInv, WindowsTyped
    <2>3. Counted'
      BY <1>2, <2>1, NoneMoves DEF WindowInv
    <2>4. NanoKnows'
      BY <1>1, <2>1, NanoKept DEF WindowInv
    <2>5. ImageOnlyInViewers'
      BY <2>1 DEF WindowInv, ImageOnlyInViewers
    <2>6. QED
      BY <2>2, <2>3, <2>4, <2>5 DEF WindowInv
  <1>3. ASSUME Live # Windows, NEW fault, NEW d \in StartDirs(fault),
               LET made == [Closed EXCEPT !.cwd = d]
                   shown == [made EXCEPT !.active = TRUE, !.image = TRUE, !.viewer = TRUE]
               IN  /\ refs' = Held(refs, d)
                   /\ \/ term' = [term EXCEPT ![n] = shown] /\ active_terminal' = n
                      \/ /\ term' = [term EXCEPT ![n] = made, ![a].image = TRUE, ![a].crowded = TRUE]
                         /\ UNCHANGED active_terminal
        PROVE  WindowInv'
    <2>1. n \in Windows \ Live
      BY <1>3, LeastOf DEF NewSlot, Live
    <2> DEFINE made == [Closed EXCEPT !.cwd = d]
               shown == [made EXCEPT !.active = TRUE, !.image = TRUE, !.viewer = TRUE]
    <2>3. d \in Dirs \cup {NULL}
      BY StartsIn
    <2>4. /\ made \in WindowRecords /\ made.cwd = d /\ ~made.image /\ ~made.active
          /\ shown \in WindowRecords /\ shown.cwd = d /\ shown.viewer
      BY <2>3 DEF WindowRecords, Closed
    <2>5. /\ refs' = Held(refs, d)
          /\ \/ term' = [term EXCEPT ![n] = shown] /\ active_terminal' = n
             \/ /\ term' = [term EXCEPT ![n] = made, ![a].image = TRUE, ![a].crowded = TRUE]
                /\ UNCHANGED active_terminal
      BY <1>3
    <2> HIDE DEF made, shown, a, n
    <2>6. /\ term' \in [Windows -> WindowRecords] /\ active_terminal' \in Windows
          /\ \A v \in Windows \ {n} : term'[v].cwd = term[v].cwd /\ term'[v].active = term[v].active
          /\ term'[n].cwd = d
          /\ \A v \in Windows :
               \/ term'[v] = term[v] \/ term'[v].viewer \/ term'[v].crowded \/ ~term'[v].image
      <3>1. CASE term' = [term EXCEPT ![n] = shown] /\ active_terminal' = n
        BY <1>1, <2>1, <2>4, <3>1
      <3>2. CASE /\ term' = [term EXCEPT ![n] = made, ![a].image = TRUE, ![a].crowded = TRUE]
                 /\ UNCHANGED active_terminal
        <4> DEFINE t == [term EXCEPT ![n] = made]
        <4>1. term' = Showing(t, a)
          BY <3>2 DEF Showing
        <4>2. /\ t \in [Windows -> WindowRecords] /\ t[n] = made
              /\ \A v \in Windows \ {n} : t[v] = term[v]
          BY <1>1, <2>1, <2>4
        <4> HIDE DEF t
        <4>3. /\ term' \in [Windows -> WindowRecords] /\ term'[a].crowded
              /\ \A v \in Windows : /\ term'[v].cwd = t[v].cwd /\ term'[v].active = t[v].active
                                    /\ v # a => term'[v] = t[v]
          BY <1>1, <4>1, <4>2, ImageShown
        <4>4. QED
          BY <1>1, <2>1, <2>4, <3>2, <4>2, <4>3 DEF a
      <3>3. QED
        BY <2>5, <3>1, <3>2
    <2>7. Counted' /\ refs' \in [Dirs -> Nat]
      BY <2>1, <2>3, <2>5, <2>6, MovedIn DEF WindowInv
    <2>8. WindowsTyped'
      BY <1>1, <2>6, <2>7 DEF WindowInv, WindowsTyped
    <2>9. NanoKnows'
      BY <1>1, <2>1, <2>6, NanoKept DEF WindowInv, Live
    <2>10. ImageOnlyInViewers'
      <3>1. \A v \in Windows : term'[v].active /\ term'[v] = term[v] => term[v].active
        OBVIOUS
      <3>2. QED
        BY <2>6, <3>1 DEF WindowInv, ImageOnlyInViewers
    <2>11. QED
      BY <2>7, <2>8, <2>9, <2>10 DEF WindowInv
  <1>4. QED
    BY <1>2, <1>3 DEF cmd_qimgv

LEMMA NanoEnds ==
  ASSUME WindowInv, nano_exit_to_shell
  PROVE  WindowInv'
  <1>1. /\ NoNano \in [on : BOOLEAN, term : Windows \cup {NULL}, dir : Dirs, adrift : BOOLEAN]
        /\ ~NoNano.on
    BY DirsAndNull DEF NoNano
  <1>2. nano' = NoNano /\ UNCHANGED <<term, refs, active_terminal, running>>
    BY DEF nano_exit_to_shell, screen
  <1>3. Counted'
    BY <1>2, NoneMoves DEF WindowInv
  <1>4. QED
    BY <1>1, <1>2, <1>3 DEF WindowInv, WindowsTyped, NanoKnows, ImageOnlyInViewers

LEMMA InitWindowInv == Init => WindowInv
  <1> SUFFICES ASSUME Init PROVE WindowInv
    OBVIOUS
  <1>1. Closed \in WindowRecords /\ Closed.cwd = NULL /\ ~Closed.active
    BY DEF Closed, WindowRecords
  <1>2. /\ NoNano \in [on : BOOLEAN, term : Windows \cup {NULL}, dir : Dirs, adrift : BOOLEAN]
        /\ ~NoNano.on
    BY DirsAndNull DEF NoNano
  <1>3. /\ term \in [Windows -> WindowRecords]
        /\ \A v \in Windows : term[v].cwd = NULL /\ ~term[v].active
        /\ refs = [d \in Dirs |-> 0] /\ nano = NoNano /\ active_terminal = 0 /\ running = NULL
    BY <1>1 DEF Init
  <1>4. \A d \in Dirs : Inside(term, d) = {}
    BY <1>3, DirsAndNull DEF Inside
  <1>5. ASSUME NEW d \in Dirs PROVE Cardinality(Inside(term, d)) <= refs[d]
    <2>1. refs[d] = 0 /\ Cardinality({}) = 0
      BY <1>3, FS_EmptySet
    <2>2. QED
      BY <1>4, <2>1
  <1>6. WindowsTyped /\ NanoKnows /\ ImageOnlyInViewers
    BY <1>2, <1>3, DirsAndNull DEF WindowsTyped, NanoKnows, ImageOnlyInViewers
  <1>7. QED
    BY <1>5, <1>6 DEF WindowInv, Counted

LEMMA NextWindowInv == AccountInv /\ WindowInv /\ [Next]_vars => WindowInv'
  <1> SUFFICES ASSUME AccountInv, WindowInv, [Next]_vars PROVE WindowInv'
    OBVIOUS
  <1>1. CASE PowerLoss \/ cmd_reboot \/ cmd_shutdown
    BY <1>1, PowerOffWindows DEF PowerLoss, cmd_reboot, cmd_shutdown
  <1>2. Whole(card) /\ active_terminal \in Windows /\ running \in Windows \cup {NULL}
    BY DEF AccountInv, WindowInv, WindowsTyped
  <1>3. CASE BootFilesystem
    BY <1>2, <1>3, WindowsApart DEF BootFilesystem, screen, programs
  <1>4. CASE boot_start_desktop
    <2>1. PICK fault \in CardFaults : new_terminal(fault, FALSE)
      BY <1>4 DEF boot_start_desktop
    <2>2. QED
      BY <1>2, <1>4, <2>1, NewWindow DEF boot_start_desktop
  <1>5. CASE HotkeyNew
    <2>1. PICK fault \in CardFaults : new_terminal(fault, FALSE)
      BY <1>5 DEF HotkeyNew
    <2>2. QED
      BY <1>2, <1>5, <2>1, NewWindow DEF HotkeyNew, programs
  <1>6. CASE HotkeyClose \/ cmd_exit
    BY <1>6, CloseWindow DEF HotkeyClose, cmd_exit
  <1>7. CASE HotkeySelect
    BY <1>2, <1>7, WindowsApart DEF HotkeySelect, programs, Live
  <1>8. CASE DialogueKey
    <2>1. PowerOff \/ nano_exit_to_shell \/ UNCHANGED <<term, active_terminal, refs, running, nano>>
      <3>1. ASSUME NEW input \in Passwords, FirstbootConfirm(input)
            PROVE  PowerOff \/ UNCHANGED <<term, active_terminal, refs, running, nano>>
        BY <3>1 DEF FirstbootConfirm, WriteAccount, screen
      <3>2. ASSUME NEW input \in Passwords, PasswdConfirm(input)
            PROVE  PowerOff \/ UNCHANGED <<term, active_terminal, refs, running, nano>>
        BY <3>2 DEF PasswdConfirm, PasswdSet, WriteAccount, screen
      <3>3. ASSUME NEW input \in Passwords,
                   \/ login_enter(input) \/ FirstbootPassword(input) \/ FirstbootMismatch(input)
                   \/ PasswdCurrent(input) \/ PasswdNew(input) \/ PasswdMismatch(input)
            PROVE  UNCHANGED <<term, active_terminal, refs, running, nano>>
        BY <3>3 DEF login_enter, FirstbootPassword, FirstbootMismatch, PasswdCurrent, PasswdNew,
                    PasswdMismatch, screen
      <3>4. ASSUME NEW name \in Names, FirstbootUsername(name)
            PROVE  UNCHANGED <<term, active_terminal, refs, running, nano>>
        BY <3>4 DEF FirstbootUsername, screen
      <3>5. QED
        BY <1>8, <3>1, <3>2, <3>3, <3>4 DEF DialogueKey
    <2>2. QED
      BY <1>2, <2>1, PowerOffWindows, NanoEnds, WindowsApart
  <1>9. CASE terminal_handle_enter \/ CommandLineEnds \/ cmd_passwd
    BY <1>2, <1>9, WindowsApart DEF terminal_handle_enter, CommandLineEnds, cmd_passwd, screen, programs
  <1>10. CASE cmd_qimgv
    BY <1>2, <1>10, ViewerOpens
  <1>11. CASE cmd_nano
    BY <1>11, NanoBegins
  <1>12. ASSUME NEW d \in Dirs, cmd_cd(d) PROVE WindowInv'
    BY <1>12, MoveTo
  <1>13. CASE UNCHANGED vars
    BY <1>2, <1>13, WindowsApart DEF vars
  <1>14. QED
    BY <1>1, <1>3, <1>4, <1>5, <1>6, <1>7, <1>8, <1>9, <1>10, <1>11, <1>12, <1>13, PlacesAreDirs DEF Next, Command

(* No directory is freed under a window, a command line or nano. *)
THEOREM DirectoriesHeld == Spec => []DirectoryHeld
  <1>1. WindowInv => DirectoryHeld
    <2> SUFFICES ASSUME WindowInv, NEW d \in Dirs
                 PROVE  refs[d] >= Cardinality({w \in Windows : /\ term[w].cwd = d
                                                                /\ \/ term[w].active
                                                                   \/ running = w
                                                                   \/ nano.on /\ nano.term = w})
      BY DEF DirectoryHeld
    <2> DEFINE needed == {w \in Windows : /\ term[w].cwd = d
                                          /\ \/ term[w].active
                                             \/ running = w
                                             \/ nano.on /\ nano.term = w}
    <2>1. needed \subseteq Inside(term, d)
      BY DEF Inside
    <2>2. IsFiniteSet(Inside(term, d)) /\ Cardinality(Inside(term, d)) \in Nat
      BY InsideFinite
    <2>3. Cardinality(Inside(term, d)) <= refs[d] /\ refs[d] \in Nat
      BY DEF WindowInv, WindowsTyped, Counted
    <2> HIDE DEF needed
    <2>4. Cardinality(needed) <= Cardinality(Inside(term, d)) /\ Cardinality(needed) \in Nat
      BY <2>1, <2>2, FS_Subset, FS_CardinalityType
    <2>5. refs[d] >= Cardinality(needed)
      BY <2>2, <2>3, <2>4
    <2>6. QED
      BY <2>5 DEF needed
  <1>2. QED
    BY <1>1, InitAccountInv, NextAccountInv, InitWindowInv, NextWindowInv, PTL DEF Spec

(* nano saves where it read, or the window it was started in was closed or
   moved by a script. *)
THEOREM NanoSavesWhereItRead == Spec => []SavesWhereItRead
  <1>1. WindowInv => SavesWhereItRead
    BY DEF WindowInv, NanoKnows, SavesWhereItRead
  <1>2. QED
    BY <1>1, InitAccountInv, NextAccountInv, InitWindowInv, NextWindowInv, PTL DEF Spec

(* A shell becomes an image only where qimgv found no room. *)
THEOREM ImagesOnlyInViewers == Spec => []ImageOnlyInViewers
  <1>1. WindowInv => ImageOnlyInViewers
    BY DEF WindowInv
  <1>2. QED
    BY <1>1, InitAccountInv, NextAccountInv, InitWindowInv, NextWindowInv, PTL DEF Spec

-----------------------------------------------------------------------------
(* What the other invariants leave of the type. *)
ModesTyped ==
  /\ power \in {"off", "booting", "on"}
  /\ login.on \in BOOLEAN
  /\ accepted \in {"not asked", "asked", "passed"}

LEMMA InitModesTyped == Init => ModesTyped
  <1>1. NoLogin.on = FALSE
    BY DEF NoLogin
  <1>2. QED
    BY <1>1 DEF Init, ModesTyped

LEMMA NextModesTyped == ModesTyped /\ [Next]_vars => ModesTyped'
  <1> SUFFICES ASSUME ModesTyped, [Next]_vars PROVE ModesTyped'
    OBVIOUS
  <1>0. NoLogin.on = FALSE /\ \A entry : [on |-> TRUE, entry |-> entry].on = TRUE
    BY DEF NoLogin
  <1>1. PowerOff => ModesTyped'
    BY <1>0 DEF PowerOff, ModesTyped
  <1>2. CASE PowerLoss \/ cmd_reboot \/ cmd_shutdown
    BY <1>1, <1>2 DEF PowerLoss, cmd_reboot, cmd_shutdown
  <1>3. CASE BootFilesystem
    BY <1>3 DEF BootFilesystem, programs, ModesTyped
  <1>4. CASE boot_start_desktop
    BY <1>0, <1>4 DEF boot_start_desktop, login_begin_if_needed, ModesTyped
  <1>5. CASE HotkeyNew \/ HotkeyClose \/ HotkeySelect
    BY <1>5 DEF HotkeyNew, HotkeyClose, HotkeySelect, programs, ModesTyped
  <1>6. CASE DialogueKey
    <2>1. ASSUME NEW input \in Passwords, login_enter(input) PROVE ModesTyped'
      BY <1>0, <2>1 DEF login_enter, ModesTyped
    <2>2. ASSUME NEW input \in Passwords, FirstbootConfirm(input) \/ PasswdConfirm(input)
          PROVE  ModesTyped'
      <3>1. PowerOff \/ UNCHANGED <<power, login, accepted>>
        BY <2>2 DEF FirstbootConfirm, PasswdConfirm, PasswdSet, WriteAccount
      <3>2. QED
        BY <1>1, <3>1 DEF ModesTyped
    <2>3. ASSUME NEW input \in Passwords,
                 \/ FirstbootPassword(input) \/ FirstbootMismatch(input)
                 \/ PasswdCurrent(input) \/ PasswdNew(input) \/ PasswdMismatch(input)
          PROVE  ModesTyped'
      BY <2>3 DEF FirstbootPassword, FirstbootMismatch, PasswdCurrent, PasswdNew, PasswdMismatch,
                  ModesTyped
    <2>4. ASSUME NEW name \in Names, FirstbootUsername(name) PROVE ModesTyped'
      BY <2>4 DEF FirstbootUsername, ModesTyped
    <2>5. CASE nano_exit_to_shell
      BY <2>5 DEF nano_exit_to_shell, ModesTyped
    <2>6. QED
      BY <1>6, <2>1, <2>2, <2>3, <2>4, <2>5 DEF DialogueKey
  <1>7. CASE \/ terminal_handle_enter \/ CommandLineEnds \/ cmd_exit \/ cmd_qimgv \/ cmd_passwd
             \/ cmd_nano
    BY <1>7 DEF terminal_handle_enter, CommandLineEnds, cmd_exit, cmd_qimgv, cmd_passwd, cmd_nano,
                programs, ModesTyped
  <1>8. ASSUME NEW d \in Dirs, cmd_cd(d) PROVE ModesTyped'
    BY <1>8 DEF cmd_cd, ModesTyped
  <1>9. CASE UNCHANGED vars
    BY <1>9 DEF vars, ModesTyped
  <1>10. QED
    BY <1>2, <1>3, <1>4, <1>5, <1>6, <1>7, <1>8, <1>9, PlacesAreDirs DEF Next, Command

(* The variables keep their types. *)
THEOREM TypeCorrect == Spec => []TypeOK
  <1>1. AccountInv /\ AgreeInv /\ WindowInv /\ ModesTyped => TypeOK
    <2> SUFFICES ASSUME AccountInv, AgreeInv, WindowInv, ModesTyped PROVE TypeOK
      OBVIOUS
    <2>1. card \in Cards /\ damaged \in BOOLEAN /\ told \in Lines \cup {NoEntry}
      BY DEF AccountInv, Whole, AgreeInv
    <2>2. /\ term \in [Windows -> WindowRecords] /\ active_terminal \in Windows
          /\ refs \in [Dirs -> Nat] /\ running \in Windows \cup {NULL}
          /\ nano \in [on : BOOLEAN, term : Windows \cup {NULL}, dir : Dirs, adrift : BOOLEAN]
      BY DEF WindowInv, WindowsTyped
    <2>3. firstboot \in [on : BOOLEAN, step : {"username", "password", "confirm"},
                         user : Names \cup {NULL}, pass : Passwords \cup {NULL}]
      BY DEF AccountInv, FirstbootTyped
    <2>4. passwd.step \in {"current", "new", "confirm"} /\ passwd.new \in Passwords \cup {NULL}
      <3>1. PICK T : passwd \in [on : BOOLEAN, step : {"current", "new", "confirm"}, entry : T,
                                new : Passwords \cup {NULL}]
        BY DEF AccountInv, PasswdTyped
      <3>2. QED
        BY <3>1
    <2>5. QED
      BY <2>1, <2>2, <2>3, <2>4 DEF TypeOK, ModesTyped, WindowRecords
  <1>2. QED
    BY <1>1, InitAccountInv, NextAccountInv, InitSessionInv, NextSessionInv, InitAgreeInv,
       NextAgreeInv, InitWindowInv, NextWindowInv, InitModesTyped, NextModesTyped, PTL DEF Spec
=============================================================================
