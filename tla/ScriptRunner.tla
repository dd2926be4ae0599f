---------------------------- MODULE ScriptRunner ----------------------------
(***************************************************************************)
(* run (exec.c): a script is a list of lines, and blocks, branches and     *)
(* loops are found while it runs.  The calls of execute_block_until,       *)
(* execute_if, execute_while and execute_for that are under way are the    *)
(* frames of `calls'; skipping what does not run has no effect and is a    *)
(* function.                                                               *)
(*                                                                         *)
(* Conditions come out either way.  Scripts are well formed: every block   *)
(* is closed, and break and continue stand in loops.                       *)
(***************************************************************************)
EXTENDS Naturals, Sequences, SequencesExt, FiniteSets, FiniteSetsExt

CONSTANTS
  Scripts,    \* what may be run: sequences of lines
  MaxItems    \* bound: items of a for

VARIABLES
  script,     \* the lines of the script, <<>> when none runs
  calls,      \* the calls under way, the innermost last
  break_requested, continue_requested,
  event       \* the last line that did something, and how it came out

scriptVars == <<script, calls, break_requested, continue_requested, event>>

Flow == INSTANCE ScriptFlow

ASSUME ScriptsAssumption ==
  /\ \A s \in Scripts : Flow!WellFormed(s)
  /\ MaxItems \in Nat \ {0}

(* The keywords that end a block, by what is looked for (stop_mask). *)
StopsAt ==
  [arms |-> {"else", "elif", "fi"}, fi |-> {"fi"}, done |-> {"done"}, none |-> {}]

Kind(s, i) == s[i].kind

(* A line that opens an arm or a loop may have its "then" or "do" after it. *)
AfterOpener(s, i) == IF s[i].inline THEN i + 1 ELSE i + 2

(* Mutant of find_matching_done: an inner loop's done is taken. *)
FirstDone(s, start) == Min({i \in DOMAIN s : i >= start /\ Kind(s, i) = "done"})

(* find_matching_done: the done that closes no loop and no if opened since. *)
find_matching_done(s, start) ==
  LET Count(i, kinds) == Cardinality({j \in start..(i - 1) : Kind(s, j) \in kinds})
  IN  Min({i \in DOMAIN s : /\ i >= start /\ Kind(s, i) = "done"
                           /\ Count(i, {"while", "for"}) = Count(i, {"done"})
                           /\ Count(i, {"if"}) = Count(i, {"fi"})})

(* What is not executed.  From each line, to where it is skipped: the keyword
   that ends the block and the line after it; "endif" is the rest of an if, arm by
   arm.  Inner ifs and loops go as a whole (skip_if, skip_while, skip_for). *)

(* Mutant of PastLine: an if that is skipped is not skipped as a whole. *)
PastLineFlat(s, to, i) ==
  IF Kind(s, i) \in {"while", "for"} THEN to[AfterOpener(s, i)]["done"].idx ELSE i + 1

PastLine(s, to, i) ==
  IF Kind(s, i) = "if" THEN to[AfterOpener(s, i)]["endif"].idx
  ELSE IF Kind(s, i) \in {"while", "for"} THEN to[AfterOpener(s, i)]["done"].idx
  ELSE i + 1

SkipBlock(s, to, i, goal) ==
  IF i > Len(s) THEN [end |-> "none", idx |-> i]
  ELSE IF Kind(s, i) \in StopsAt[goal] THEN [end |-> Kind(s, i), idx |-> i + 1]
  ELSE to[PastLine(s, to, i)][goal]

SkipArms(s, to, i) ==
  LET r == SkipBlock(s, to, i, "arms")
  IN  IF r.end = "elif" THEN to[AfterOpener(s, r.idx - 1)]["endif"]
      ELSE IF r.end = "else" THEN to[r.idx]["fi"]
      ELSE r

Skipped(s) ==
  LET to[i \in 1..(Len(s) + 2)] ==
        [goal \in {"arms", "fi", "done", "endif"} |->
           IF goal = "endif" THEN SkipArms(s, to, i) ELSE SkipBlock(s, to, i, goal)]
  IN  to

-----------------------------------------------------------------------------
(* Calls.  A block executes lines idx..limit until a keyword it stops at; an
   if tests the condition of line idx, then waits in "branch" for the block of
   its arm; a loop has its head in idx and its done in limit. *)
Block(idx, limit, stop) == [call |-> "block", idx |-> idx, limit |-> limit, stop |-> stop, left |-> 0]
Test(idx, limit) == [call |-> "if", idx |-> idx, limit |-> limit, stop |-> "none", left |-> 0]
Branch(limit) == [call |-> "branch", idx |-> 0, limit |-> limit, stop |-> "none", left |-> 0]
Loop(head, done, left) == [call |-> "loop", idx |-> head, limit |-> done, stop |-> "none", left |-> left]

Top == Last(calls)
Under == Front(calls)

(* *idx of the block below, when a call hands it back. *)
Resumed(below, idx) == [below EXCEPT ![Len(below)].idx = idx]

Nothing == [line |-> 0, outcome |-> "start"]
NoScript ==
  /\ script = <<>> /\ calls = <<>> /\ event = Nothing
  /\ break_requested = FALSE /\ continue_requested = FALSE

Did(line, outcome) == event' = [line |-> line, outcome |-> outcome]
SameFlags == UNCHANGED <<break_requested, continue_requested>>

(* cmd_run, on a script that could be read *)
cmd_run ==
  /\ script = <<>>
  /\ script' \in Scripts
  /\ calls' = <<Block(1, Len(script'), "none")>>
  /\ event' = Nothing
  /\ SameFlags

Requested == break_requested \/ continue_requested

(* The next line of a block that is executed. *)
NextLine(kinds) ==
  /\ calls # <<>> /\ Top.call = "block" /\ Top.idx <= Top.limit /\ ~Requested
  /\ Kind(script, Top.idx) \in kinds

execute_simple_line ==
  /\ NextLine({"cmd", "break", "continue"})
  /\ Did(Top.idx, "ran")
  /\ break_requested' = (Kind(script, Top.idx) = "break")
  /\ continue_requested' = (Kind(script, Top.idx) = "continue")
  /\ calls' = Resumed(calls, Top.idx + 1)
  /\ UNCHANGED script

execute_if ==
  /\ NextLine({"if"})
  /\ calls' = Append(calls, Test(Top.idx, Top.limit))
  /\ SameFlags /\ UNCHANGED <<script, event>>

(* execute_condition, and the arm that follows from it. *)
ConditionTrue ==
  /\ calls # <<>> /\ Top.call = "if"
  /\ Did(Top.idx, "true")
  /\ calls' = Under \o <<Branch(Top.limit), Block(AfterOpener(script, Top.idx), Top.limit, "arms")>>
  /\ SameFlags /\ UNCHANGED script

ConditionFalse ==
  /\ calls # <<>> /\ Top.call = "if"
  /\ Did(Top.idx, "false")
  /\ LET r == Skipped(script)[AfterOpener(script, Top.idx)]["arms"]
     IN  calls' = IF r.end = "elif" THEN Append(Under, Test(r.idx - 1, Top.limit))
                  ELSE IF r.end = "else" THEN Under \o <<Branch(Top.limit), Block(r.idx, Top.limit, "fi")>>
                  ELSE Resumed(Under, r.idx)
  /\ SameFlags /\ UNCHANGED script

(* execute_while and execute_for find the end of their body first. *)
execute_while ==
  /\ NextLine({"while"})
  /\ calls' = Append(calls, Loop(Top.idx, find_matching_done(script, AfterOpener(script, Top.idx)), 0))
  /\ SameFlags /\ UNCHANGED <<script, event>>

execute_for ==
  /\ NextLine({"for"})
  /\ \E items \in 1..MaxItems :
       calls' = Append(calls, Loop(Top.idx, find_matching_done(script, AfterOpener(script, Top.idx)), items))
  /\ SameFlags /\ UNCHANGED <<script, event>>

LoopTurns ==
  /\ calls # <<>> /\ Top.call = "loop"
  /\ Kind(script, Top.idx) = "for" => Top.left > 0
  /\ Did(Top.idx, "true")
  /\ calls' = Under \o <<[Top EXCEPT !.left = IF @ = 0 THEN 0 ELSE @ - 1],
                         Block(AfterOpener(script, Top.idx), Top.limit - 1, "none")>>
  /\ SameFlags /\ UNCHANGED script

LoopEnds ==
  /\ calls # <<>> /\ Top.call = "loop"
  /\ Kind(script, Top.idx) = "for" => Top.left = 0
  /\ Did(Top.idx, "false")
  /\ calls' = Resumed(Under, Top.limit + 1)
  /\ SameFlags /\ UNCHANGED script

(* execute_block_until hands back how it ended and where.  An if then skips the
   rest of its arms, a loop leaves or turns, and run is over. *)
Returned(end, idx) ==
  LET below == Last(Under)
      outer == Front(Under)
  IN  \/ /\ below.call = "branch"
         /\ calls' = Resumed(outer, IF end = "elif" THEN Skipped(script)[AfterOpener(script, idx - 1)]["endif"].idx
                                    ELSE IF end = "else" THEN Skipped(script)[idx]["fi"].idx
                                    ELSE idx)
         /\ SameFlags /\ UNCHANGED <<script, event>>
      \/ /\ below.call = "loop"
         /\ calls' = IF break_requested THEN Resumed(outer, below.limit + 1) ELSE Under
         /\ break_requested' = FALSE /\ continue_requested' = FALSE
         /\ UNCHANGED <<script, event>>

BlockStops ==
  /\ NextLine(StopsAt[Top.stop])
  /\ Returned(Kind(script, Top.idx), Top.idx + 1)

BlockRunsOut ==
  /\ Len(calls) > 1 /\ Top.call = "block"
  /\ Top.idx > Top.limit \/ Requested
  /\ Returned("none", Top.idx)

RunEnds ==
  /\ Len(calls) = 1 /\ Top.idx > Top.limit
  /\ Did(Len(script) + 1, "end")
  /\ calls' = <<>>
  /\ SameFlags /\ UNCHANGED script

(* cmd_run frees the lines and the caller shows its prompt. *)
RunOver ==
  /\ script # <<>> /\ calls = <<>>
  /\ script' = <<>> /\ event' = Nothing
  /\ SameFlags /\ UNCHANGED calls

ScriptStep ==
  \/ execute_simple_line
  \/ execute_if \/ ConditionTrue \/ ConditionFalse
  \/ execute_while \/ execute_for \/ LoopTurns \/ LoopEnds
  \/ BlockStops \/ BlockRunsOut \/ RunEnds \/ RunOver

-----------------------------------------------------------------------------
ScriptTypeOK ==
  /\ break_requested \in BOOLEAN /\ continue_requested \in BOOLEAN
  /\ \A i \in DOMAIN calls :
       /\ calls[i].call \in {"block", "if", "branch", "loop"}
       /\ calls[i].stop \in DOMAIN StopsAt
       /\ calls[i].idx \in 0..(Len(script) + 1) /\ calls[i].limit \in 0..Len(script)
       /\ calls[i].left \in 0..MaxItems

(* Whatever lines the conditions choose, the interpreter goes from one to the
   next as the nesting of the blocks says, and past the last one. *)
ImplementsFlow == Flow!FlowSpec

ScriptSpec == NoScript /\ [][cmd_run \/ ScriptStep]_scriptVars
=============================================================================
