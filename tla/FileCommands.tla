---------------------------- MODULE FileCommands ----------------------------
(***************************************************************************)
(* The shell's commands on files and directories - rm, rmdir, mv, mkdir,   *)
(* touch, ls, cat, grep, wc, cd - on an SD card that may fail and lose     *)
(* power under them.  Each looks its operands up, works on the card by     *)
(* path and gives back what it took, on every way out.                     *)
(*                                                                         *)
(* Operands are paths without "." and ".."; how they are written is left   *)
(* out.                                                                    *)
(***************************************************************************)
EXTENDS CardTree

CONSTANTS
  Dotted,     \* the names that have an extension
  Texts,      \* bound: what a pipe may have for cat
  Windows,
  Faults,     \* {FALSE}, or {FALSE, TRUE} if the card may fail
  Places,     \* bound: the paths given to cd; cd alone is cd to the root
  Inputs,     \* bound: the lists of paths given to one command
  MaxText,    \* bound: how much is given to cat
  MaxLeaks,   \* bound: references forgotten until the next boot
  NULL

ASSUME CommandsAssumption ==
  /\ Places \subseteq Paths
  /\ Inputs \subseteq Seq(Paths \ {Root}) \ {<<>>} /\ MaxText \in Nat /\ MaxLeaks \in Nat
  /\ Faults \in SUBSET BOOLEAN /\ FALSE \in Faults
  /\ NULL \notin Paths /\ IsFiniteSet(Windows)
  /\ Texts \subseteq Seq(UNION {Range(t) : t \in Texts})

VARIABLES
  cwd,     \* the directory of each window, or NULL
  run,     \* the command that runs, how far it is and what it told
  calls,   \* rm -r: the calls of rm_dir_contents under way
  before,  \* the card as the command found it
  leaked   \* references that nobody will give back

vars == <<card, nodes, iters, cwd, run, calls, before, leaked>>

-----------------------------------------------------------------------------
(* Command lines. *)
Prompt == [cmd |-> "none", at |-> "prompt", w |-> NULL, from |-> <<>>, to |-> NULL, flags |-> {},
           copied |-> 0, ok |-> FALSE]

Line(cmd, w, from, to, flags) ==
  [cmd |-> cmd, at |-> "start", w |-> w, from |-> from, to |-> to, flags |-> flags,
   copied |-> 0, ok |-> FALSE]

Entries == Paths \ {Root}

TextBounded(from) == Len(FlattenSeq([i \in DOMAIN from |-> card[from[i]].text])) <= MaxText

(* A directory is moved only to where what it holds has a path of Paths. *)
MoveBounded(p, q) ==
  \A dst \in {q, Append(q, Last(p))} \cap Paths :
    \A r \in Within(p) : Kind(r) = "none" \/ IsPrefix(p, dst) \/ Moved(p, dst, r) \in Paths

Operands == {<<p>> : p \in Entries} \cup Inputs

CommandLine(w) ==
  \/ \E from \in Operands, flags \in SUBSET {"r", "f"} : run' = Line("rm", w, from, NULL, flags)
  \/ \E c \in {"rmdir", "touch"}, from \in Operands : run' = Line(c, w, from, NULL, {})
  \/ \E p \in Places : run' = Line("cd", w, <<p>>, NULL, {})
  \/ \E from \in Operands, flags \in SUBSET {"p"} : run' = Line("mkdir", w, from, NULL, flags)
  \/ \E from \in {<<>>} \cup {<<p>> : p \in Paths} : run' = Line("ls", w, from, NULL, {})
  \/ \E from \in Operands, q \in Paths : MoveBounded(from[1], q) /\ run' = Line("mv", w, from, q, {})
  \/ \E from \in Inputs : run' = Line("read", w, from, NULL, {})
  \/ \E from \in {<<>>} \cup {files \in Inputs : TextBounded(files)}, q \in Entries :
       run' = Line("cat", w, from, q, {})

(* Only the directories of the windows have nodes. *)
HeldBy(cwds) ==
  [p \in Paths |-> LET n == Cardinality({w \in Windows : cwds[w] = p})
                   IN  IF n = 0 THEN NoNode ELSE [type |-> "dir", refs |-> n]]

Init ==
  /\ card = [p \in Paths |-> IF p = Root THEN Directory ELSE Absent]
  /\ cwd \in [Windows -> {Root, NULL}] /\ nodes = HeldBy(cwd)
  /\ iters = 0 /\ run = Prompt /\ calls = <<>> /\ before = card
  /\ leaked = [p \in Paths |-> 0]

(* Power is lost and comes back: the card stays as it is. *)
PowerLoss ==
  /\ cwd' \in [Windows -> {Root, NULL}] /\ nodes' = HeldBy(cwd')
  /\ iters' = 0 /\ run' = Prompt /\ calls' = <<>> /\ before' = card
  /\ leaked' = [p \in Paths |-> 0]
  /\ UNCHANGED card

LeakBound == MapThenSumSet(LAMBDA p : leaked[p], Paths) < MaxLeaks

CommandGiven ==
  /\ run = Prompt /\ LeakBound
  /\ \E w \in Windows : CommandLine(w)
  /\ before' = card
  /\ UNCHANGED <<card, nodes, iters, cwd, calls, leaked>>

(* The command is done with its operands, or with the first of them. *)
Told(ok) == run' = [run EXCEPT !.at = "told", !.ok = ok]

(* rm, rmdir, touch, mkdir and mv go through their operands until one fails; mv
   of several has a directory to move them into. *)
GoesOn == run.ok /\ run.cmd \in {"rm", "rmdir", "touch", "mkdir", "mv"} /\ Len(run.from) > 1

NextOperand ==
  LET target == IF run.cmd = "mv" THEN Front(run.to) ELSE NULL
  IN  /\ run.at = "told" /\ GoesOn
      /\ run.cmd = "mv" => MoveBounded(run.from[2], target)
      /\ run' = [Line(run.cmd, run.w, Tail(run.from), target, run.flags)
                   EXCEPT !.flags = IF run.cmd = "mv" THEN {"into"} ELSE @]
      /\ before' = card
      /\ UNCHANGED <<card, nodes, iters, cwd, calls, leaked>>

PromptBack ==
  /\ run.at = "told" /\ ~GoesOn
  /\ run' = Prompt /\ before' = card
  /\ UNCHANGED <<card, nodes, iters, cwd, calls, leaked>>

At(cmd, at) == run.cmd = cmd /\ run.at = at
Operand == run.from[1]

(* What a command leaves alone that does no more than look things up. *)
OnlyLooks == UNCHANGED <<card, nodes, iters, cwd, calls, before, leaked>>
SameRest == UNCHANGED <<iters, cwd, calls, before, leaked>>

-----------------------------------------------------------------------------
(* rm: the parent of the operand is held until the end, and every directory
   that is being emptied with an iterator on it. *)
Forced(ok) == ok \/ "f" \in run.flags

cmd_rm ==
  /\ At("rm", "start")
  /\ \E fault \in Faults :
       \/ /\ ~vfs_resolve(nodes, Front(Operand), fault)
          /\ Told(Forced(FALSE)) /\ OnlyLooks
       \/ /\ vfs_resolve(nodes, Front(Operand), fault)
          /\ ~FindsDir(nodes, Front(Operand), fault)
          /\ Told(FALSE) /\ OnlyLooks
       \/ /\ FindsDir(nodes, Front(Operand), fault)
          /\ nodes' = Hold(nodes, Front(Operand))
          /\ run' = [run EXCEPT !.at = "entry", !.to = Operand]
          /\ UNCHANGED card /\ SameRest

\* Mutant: an error on the way down forgets the directories that are held.
EntryReturnsForgets(ok, ns, frames) ==
  IF ok /\ frames # <<>>
  THEN /\ run' = [run EXCEPT !.at = "contents", !.to = NULL]
       /\ nodes' = ns /\ calls' = frames /\ iters' = Len(frames)
  ELSE Told(ok) /\ nodes' = vfs_node_release(ns, Front(Operand)) /\ calls' = <<>> /\ iters' = iters - Len(calls)

(* An entry is dealt with: the directory it is in goes on, or everything
   returns. *)
EntryReturns(ok, ns, frames) ==
  IF ok /\ frames # <<>>
  THEN /\ run' = [run EXCEPT !.at = "contents", !.to = NULL]
       /\ nodes' = ns /\ calls' = frames /\ iters' = Len(frames)
  ELSE /\ Told(ok)
       /\ nodes' = Release(ns, Append([i \in DOMAIN frames |-> frames[i].dir], Front(Operand)))
       /\ calls' = <<>> /\ iters' = iters - Len(calls)

rm_entry_from_parent ==
  LET p == run.to
  IN  /\ At("rm", "entry")
      /\ \E fault \in Faults :
           \/ /\ ~vfs_resolve(nodes, p, fault)
              /\ EntryReturns(Forced(FALSE), nodes, calls)
              /\ UNCHANGED card
           \/ /\ vfs_resolve(nodes, p, FALSE)
              /\ IsDir(Hold(nodes, p), p)
              /\ \/ /\ "r" \in run.flags /\ sd_dir_iter_create(p, fault)
                    /\ nodes' = Hold(nodes, p)
                    /\ calls' = Append(calls, [dir |-> p, left |-> Children(p)])
                    /\ iters' = iters + 1
                    /\ run' = [run EXCEPT !.at = "contents", !.to = NULL]
                 \/ /\ "r" \notin run.flags \/ ~sd_dir_iter_create(p, fault)
                    /\ EntryReturns(FALSE, nodes, calls)
              /\ UNCHANGED card
           \/ /\ vfs_resolve(nodes, p, FALSE)
              /\ ~IsDir(Hold(nodes, p), p)
              /\ LET ok == Removable(p) /\ ~fault
                 IN  /\ card' = IF ok THEN [card EXCEPT ![p] = Absent] ELSE card
                     /\ EntryReturns(Forced(ok), nodes, calls)
      /\ UNCHANGED <<cwd, before, leaked>>

(* The iterator comes to the next entry, in any order ... *)
rm_dir_contents ==
  /\ At("rm", "contents")
  /\ \E p \in Last(calls).left :
       /\ calls' = [calls EXCEPT ![Len(calls)].left = @ \ {p}]
       /\ run' = [run EXCEPT !.at = "entry", !.to = p]
  /\ UNCHANGED <<card, nodes, iters, cwd, before, leaked>>

(* ... or to the end, which a card that fails looks like as well. *)
rm_dir_emptied ==
  LET p == Last(calls).dir
  IN  /\ At("rm", "contents")
      /\ \E fault \in Faults :
           /\ Last(calls).left = {} \/ fault
           /\ LET ok == Removable(p) /\ ~fault
              IN  /\ card' = IF ok THEN [card EXCEPT ![p] = Absent] ELSE card
                  /\ EntryReturns(Forced(ok), vfs_node_release(nodes, p), Front(calls))
      /\ UNCHANGED <<cwd, before, leaked>>

-----------------------------------------------------------------------------
(* rmdir. *)
cmd_rmdir ==
  LET dir == Front(Operand)
      ns == Hold(nodes, dir)
  IN  /\ At("rmdir", "start")
      /\ \E lookFault, fault \in Faults :
           LET empty == /\ FindsDir(nodes, dir, lookFault) /\ FindsDir(ns, Operand, lookFault)
                        /\ sd_dir_iter_create(Operand, lookFault) /\ Children(Operand) = {}
               ok == empty /\ Removable(Operand) /\ ~fault
           IN  /\ card' = IF ok THEN [card EXCEPT ![Operand] = Absent] ELSE card
               /\ Told(ok)
      /\ UNCHANGED nodes /\ SameRest

-----------------------------------------------------------------------------
(* mkdir goes down the path and holds the directory it is in; with -p it makes
   what is missing on the way. *)
cmd_mkdir ==
  /\ At("mkdir", "start")
  /\ \E base \in {Root, cwd[run.w]} \ {NULL}, fault \in Faults :
       /\ IsStrictPrefix(base, Operand)
       /\ \/ /\ vfs_resolve(nodes, base, fault)
             /\ nodes' = Hold(nodes, base)
             /\ run' = [run EXCEPT !.at = "walk", !.to = base]
          \/ /\ ~vfs_resolve(nodes, base, fault)
             /\ Told(FALSE) /\ UNCHANGED nodes
  /\ UNCHANGED card /\ SameRest

(* The next directory is held instead of this one, or the walk ends. *)
Enters(ns, next) ==
  /\ run' = IF next = Operand THEN [run EXCEPT !.at = "told", !.ok = TRUE, !.to = next]
            ELSE [run EXCEPT !.to = next]
  /\ nodes' = Release(ns, IF next = Operand THEN <<run.to, next>> ELSE <<run.to>>)
Turns == Told(FALSE) /\ nodes' = vfs_node_release(nodes, run.to)

mkdir_single ==
  LET next == SubSeq(Operand, 1, Len(run.to) + 1)
      mayMake == ("p" \in run.flags \/ next = Operand) /\ Last(next) \notin Dotted
  IN  /\ At("mkdir", "walk")
      /\ \E lookFault, existsFault, fault \in Faults :
           \/ /\ vfs_resolve(nodes, next, lookFault)
              /\ \/ /\ IsDir(Hold(nodes, next), next) /\ (next # Operand \/ "p" \in run.flags)
                    /\ Enters(Hold(nodes, next), next)
                 \/ /\ ~IsDir(Hold(nodes, next), next) \/ (next = Operand /\ "p" \notin run.flags)
                    /\ Turns
              /\ UNCHANGED card
           \/ /\ ~vfs_resolve(nodes, next, lookFault)
              /\ mayMake /\ IsDir(nodes, run.to)
              /\ LET made == sd_dir_create(nodes, next, "dir", existsFault, fault)
                 IN  /\ card' = made.card
                     /\ IF made.ok THEN Enters(made.nodes, next) ELSE Turns
           \/ /\ ~vfs_resolve(nodes, next, lookFault)
              /\ ~mayMake \/ ~IsDir(nodes, run.to)
              /\ Turns /\ UNCHANGED card
      /\ SameRest

-----------------------------------------------------------------------------
(* touch.  In a window without a directory a name alone is looked for in the
   root, which is then held twice and given back once. *)
LeaksRoot == cwd[run.w] = NULL /\ Len(Operand) = 1

touch_found ==
  /\ At("touch", "start")
  /\ \E fault \in Faults : vfs_resolve(nodes, Operand, fault)
  /\ Told(~IsDir(Hold(nodes, Operand), Operand)) /\ OnlyLooks

cmd_touch ==
  LET dir == Front(Operand)
  IN  /\ At("touch", "start")
      /\ \E lookFault, dirFault, existsFault, fault \in Faults, nameAlone \in {FALSE, LeaksRoot} :
           /\ ~vfs_resolve(nodes, Operand, lookFault)
           /\ \/ /\ ~FindsDir(nodes, dir, dirFault)
                 /\ Told(FALSE) /\ UNCHANGED <<card, nodes, leaked>>
              \/ /\ FindsDir(nodes, dir, dirFault)
                 /\ LET made == sd_dir_create(Hold(nodes, dir), Operand, "file", existsFault, fault)
                        ns == IF made.ok THEN vfs_node_release(made.nodes, Operand) ELSE made.nodes
                    IN  /\ card' = made.card /\ Told(made.ok)
                        /\ nodes' = IF nameAlone THEN ns ELSE vfs_node_release(ns, dir)
                        /\ leaked' = IF nameAlone THEN [leaked EXCEPT ![Root] = @ + 1] ELSE leaked
      /\ UNCHANGED <<iters, cwd, calls, before>>

-----------------------------------------------------------------------------
(* mv: onto a name, or into a directory that is there under it.  A file that is
   there is removed first; then the source is renamed. *)
MvHeld(dst) == <<Front(dst), Front(Operand), Operand>>

(* What is looked up first, and still held when the target is. *)
MvLooks(dst, fault) ==
  LET ns == Hold(nodes, Operand)
  IN  /\ dst # Root
      /\ vfs_resolve(nodes, Operand, fault) /\ FindsDir(ns, Front(Operand), fault)
      /\ FindsDir(Hold(ns, Front(Operand)), Front(dst), fault)

cmd_mv ==
  /\ At("mv", "start")
  /\ \E targetFault, fault, dstFault \in Faults :
       LET into == "into" \in run.flags \/ FindsDir(nodes, run.to, targetFault)
           dst == IF into THEN Append(run.to, Last(Operand)) ELSE run.to
           looks == MvLooks(dst, fault) /\ (into \/ Len(run.from) = 1)
           ns == Hold(Hold(Hold(nodes, Operand), Front(Operand)), Front(dst))
           found == dst \in Paths /\ vfs_resolve(ns, dst, dstFault)
           dirToFile == IsDir(ns, Operand) /\ Last(dst) \in Dotted
       IN  \/ /\ ~looks
              /\ Told(FALSE) /\ UNCHANGED <<nodes, leaked>>
           \/ /\ looks /\ dirToFile
              /\ Told(FALSE)
              /\ nodes' = IF found THEN Hold(nodes, dst) ELSE nodes
              /\ leaked' = IF found THEN [leaked EXCEPT ![dst] = @ + 1] ELSE leaked
           \/ /\ looks /\ ~dirToFile /\ ~found
              /\ run' = [run EXCEPT !.at = "rename", !.to = dst]
              /\ nodes' = ns /\ UNCHANGED leaked
           \/ /\ looks /\ ~dirToFile /\ found
              /\ \/ /\ dst = Operand \/ IsDir(Hold(ns, dst), dst) \/ IsDir(ns, Operand)
                    /\ run' = [run EXCEPT !.at = "told", !.to = dst, !.ok = (dst = Operand)]
                    /\ UNCHANGED nodes
                 \/ /\ dst # Operand /\ ~IsDir(Hold(ns, dst), dst) /\ ~IsDir(ns, Operand)
                    /\ run' = [run EXCEPT !.at = "replace", !.to = dst]
                    /\ nodes' = ns
              /\ UNCHANGED leaked
  /\ UNCHANGED <<card, iters, cwd, calls, before>>

\* Mutant: the name that makes room is the source's.
MvRemovesSource ==
  /\ At("mv", "replace")
  /\ card' = [card EXCEPT ![Operand] = Absent]
  /\ run' = [run EXCEPT !.at = "rename"]
  /\ UNCHANGED nodes /\ SameRest

mv_replace ==
  /\ At("mv", "replace")
  /\ \E fault \in Faults :
       IF Removable(run.to) /\ ~fault
       THEN /\ card' = [card EXCEPT ![run.to] = Absent]
            /\ run' = [run EXCEPT !.at = "rename"] /\ UNCHANGED nodes
       ELSE Told(FALSE) /\ nodes' = Release(nodes, MvHeld(run.to)) /\ UNCHANGED card
  /\ SameRest

\* Mutant: the result of the rename is not looked at.
MvTellsOk ==
  /\ At("mv", "rename")
  /\ \E fault \in Faults : \E outcome \in Renames(Operand, run.to, fault) : card' = outcome.card /\ Told(TRUE)
  /\ nodes' = Release(nodes, MvHeld(run.to))
  /\ SameRest

mv_single ==
  /\ At("mv", "rename")
  /\ \E fault \in Faults : \E outcome \in Renames(Operand, run.to, fault) :
       card' = outcome.card /\ Told(outcome.ok)
  /\ nodes' = Release(nodes, MvHeld(run.to))
  /\ SameRest

-----------------------------------------------------------------------------
(* Commands that only look: ls - which keeps the root in a window without a
   directory - grep and wc, and cat to the screen. *)
cmd_ls ==
  LET dir == IF run.from # <<>> THEN Operand ELSE IF cwd[run.w] # NULL THEN cwd[run.w] ELSE Root
      keeps == run.from = <<>> /\ cwd[run.w] = NULL
      held == run.from = <<>> /\ cwd[run.w] # NULL
  IN  /\ At("ls", "start")
      /\ \E lookFault, fault \in Faults :
           LET found == held \/ FindsDir(nodes, dir, lookFault)
           IN  /\ Told(found /\ sd_dir_iter_create(dir, fault))
               /\ nodes' = IF found /\ keeps THEN Hold(nodes, Root) ELSE nodes
               /\ leaked' = IF found /\ keeps THEN [leaked EXCEPT ![Root] = @ + 1] ELSE leaked
      /\ UNCHANGED <<card, iters, cwd, calls, before>>

Readable(ns, p, fault) ==
  vfs_resolve(ns, p, fault) /\ ~IsDir(Hold(ns, p), p) /\ Kind(p) = "file" /\ ~fault

cmd_read ==
  /\ At("read", "start")
  /\ \E fault \in Faults : Told(\A i \in DOMAIN run.from : Readable(nodes, run.from[i], fault))
  /\ OnlyLooks

(* cd: the new directory is held before the old one is given back. *)
cmd_cd ==
  /\ At("cd", "start")
  /\ \E fault \in Faults :
       IF FindsDir(nodes, Operand, fault)
       THEN /\ cwd' = [cwd EXCEPT ![run.w] = Operand]
            /\ nodes' = Release(Hold(nodes, Operand), IF cwd[run.w] = NULL THEN <<>> ELSE <<cwd[run.w]>>)
            /\ Told(TRUE)
       ELSE Told(FALSE) /\ UNCHANGED <<cwd, nodes>>
  /\ UNCHANGED <<card, iters, calls, before, leaked>>

-----------------------------------------------------------------------------
(* cat into a file: the file is found or made, emptied - removed and made anew -
   and only then the first input is looked for. *)
cat_output ==
  LET out == run.to
      opened == [run EXCEPT !.at = "truncate"]
  IN  /\ At("cat", "start")
      /\ \E lookFault, dirFault, existsFault, fault \in Faults :
           \/ /\ vfs_resolve(nodes, out, lookFault)
              /\ IF IsDir(Hold(nodes, out), out) THEN Told(FALSE) /\ UNCHANGED nodes
                 ELSE run' = opened /\ nodes' = Hold(nodes, out)
              /\ UNCHANGED card
           \/ /\ ~vfs_resolve(nodes, out, lookFault)
              /\ ~FindsDir(nodes, Front(out), dirFault)
              /\ Told(FALSE) /\ UNCHANGED <<card, nodes>>
           \/ /\ ~vfs_resolve(nodes, out, lookFault)
              /\ FindsDir(nodes, Front(out), dirFault)
              /\ LET made == sd_dir_create(Hold(nodes, Front(out)), out, "file", existsFault, fault)
                     isFile == made.ok /\ ~IsDir(made.nodes, out)
                 IN  /\ card' = made.card
                     /\ IF isFile THEN run' = opened ELSE Told(FALSE)
                     /\ nodes' = Release(made.nodes, IF made.ok /\ ~isFile THEN <<out, Front(out)>>
                                                     ELSE <<Front(out)>>)
      /\ SameRest

cat_truncate ==
  /\ At("cat", "truncate")
  /\ \E fault \in Faults :
       card' = IF Removable(run.to) /\ ~fault THEN [card EXCEPT ![run.to] = Absent] ELSE card
  /\ run' = [run EXCEPT !.at = "open"]
  /\ UNCHANGED nodes /\ SameRest

cat_open ==
  LET out == run.to
  IN  /\ At("cat", "open")
      /\ \E fault \in Faults :
           IF (Kind(out) = "file" \/ Creatable(out)) /\ ~fault
           THEN card' = [card EXCEPT ![out] = File(<<>>)] /\ run' = [run EXCEPT !.at = "copy"] /\ UNCHANGED nodes
           ELSE UNCHANGED card /\ Told(FALSE) /\ nodes' = vfs_node_release(nodes, out)
      /\ SameRest

(* A write that fails leaves what it wrote of the text, and the command ends. *)
Copied(text) ==
  \E fault \in Faults, n \in 0..Len(text) :
    /\ fault \/ n = Len(text)
    /\ card' = [card EXCEPT ![run.to].text = @ \o SubSeq(text, 1, n)]
    /\ IF ~fault /\ run.copied + 1 < Len(run.from)
       THEN run' = [run EXCEPT !.copied = @ + 1] /\ UNCHANGED nodes
       ELSE Told(~fault) /\ nodes' = vfs_node_release(nodes, run.to)

cat_piped ==
  /\ At("cat", "copy") /\ run.from = <<>>
  /\ \E text \in Texts : Copied(text)
  /\ SameRest

cmd_cat ==
  /\ At("cat", "copy") /\ run.copied < Len(run.from)
  /\ LET input == run.from[run.copied + 1]
     IN  \E fault \in Faults :
           \/ Readable(nodes, input, fault) /\ Copied(card[input].text)
           \/ /\ ~Readable(nodes, input, fault)
              /\ Told(FALSE) /\ nodes' = vfs_node_release(nodes, run.to) /\ UNCHANGED card
  /\ SameRest

-----------------------------------------------------------------------------
RmStep == cmd_rm \/ rm_entry_from_parent \/ rm_dir_contents \/ rm_dir_emptied
MkdirStep == cmd_mkdir \/ mkdir_single
TouchStep == touch_found \/ cmd_touch
MvStep == cmd_mv \/ mv_replace \/ mv_single
CatStep == cat_output \/ cat_truncate \/ cat_open \/ cat_piped \/ cmd_cat

CommandStep == RmStep \/ cmd_rmdir \/ MkdirStep \/ TouchStep \/ MvStep \/ cmd_ls \/ cmd_read \/ cmd_cd \/ CatStep

Next == CommandGiven \/ CommandStep \/ NextOperand \/ PromptBack \/ PowerLoss

Spec == Init /\ [][Next]_vars

-----------------------------------------------------------------------------
(* Every entry is in a directory, and no more iterators are used than there are. *)
TypeOK ==
  /\ \A p \in Paths : /\ Kind(p) \in {"none", "dir", "file"} /\ nodes[p].refs \in Nat
                      /\ p # Root /\ Kind(p) # "none" => Kind(Front(p)) = "dir"
  /\ iters \in 0..Iterators /\ Len(calls) = iters
  /\ cwd \in [Windows -> Paths \cup {NULL}]

(* Whatever way a command went out, with the card failing at any point, it has
   given back every node and iterator it took: what is held after it are the
   windows' directories - and what ls, touch and mv forget (leaked), so that
   nothing else fills the node cache. *)
GivesBack ==
  run.at \in {"prompt", "told"} =>
    \A p \in Paths : /\ nodes[p].refs = Cardinality({w \in Windows : cwd[w] = p}) + leaked[p]
                    /\ iters = 0 /\ calls = <<>>

(* A command that reports success, or goes on to its next operand, did what it
   was asked to - as far as it can know: a path whose node is still cached is taken to be there, and a file that
   the card did not show at first is taken for what was to be made. *)
SeemsThere(p) == Kind(p) # "none" \/ Cached(nodes, p)

IntoItself == IsPrefix(Operand, run.to)

Done ==
  CASE run.cmd = "rm" -> Kind(Operand) = "none" \/ "f" \in run.flags
    [] run.cmd = "rmdir" -> /\ before[Operand].kind = "dir"
                            /\ card = [before EXCEPT ![Operand] = Absent]
    [] run.cmd = "mkdir" -> \/ Kind(Operand) = "dir" \/ Cached(nodes, Operand)
                            \/ before[Operand].kind = "file"
    [] run.cmd = "touch" -> SeemsThere(Operand)
    [] run.cmd = "mv" -> \/ IntoItself
                         \/ \A p \in Within(Operand) :
                              /\ before[p] # Absent => card[Moved(Operand, run.to, p)] = before[p]
                              /\ Kind(p) = "none"
    [] run.cmd = "cat" -> \/ \E i \in DOMAIN run.from : run.from[i] = run.to
                          \/ run.from = <<>> /\ card[run.to].text \in Texts
                          \/ /\ run.from # <<>>
                             /\ card[run.to] = File(FlattenSeq([i \in DOMAIN run.from |-> before[run.from[i]].text]))
    [] OTHER -> card = before

ToldIsDone == run.at = "told" /\ run.ok => Done

(* No command loses a file that it was not told to: rm removes its operand, and
   what is in it only with -r; mv its source, once it is under the new name, and
   a file of that name; cat the file it writes to.  What is lost against that: a
   directory moved into itself, with all it holds; the file of that name, when the
   source is there no more but has a node that was never given back; and, on a card
   that fails, the text of the file that touch takes for one to be made. *)
Lost(p) == Kind(p) = "file" /\ card'[p] # card[p]

Explained(p) ==
  CASE run.cmd = "rm" -> p = Operand \/ ("r" \in run.flags /\ IsPrefix(Operand, p))
    [] run.cmd = "mv" -> \/ /\ p = run.to /\ card'[Operand] = card[Operand]
                            /\ Kind(Operand) = "file" \/ leaked[Operand] > 0
                         \/ /\ IsPrefix(Operand, p)
                            /\ IntoItself \/ card'[Moved(Operand, run.to, p)] = card[p]
    [] run.cmd = "cat" -> p = run.to
    [] run.cmd = "touch" -> p = Operand /\ card'[p] = File(<<>>) /\ TRUE \in Faults
    [] OTHER -> FALSE

LossExplained == [][\A p \in Paths : Lost(p) => Explained(p)]_vars
=============================================================================
