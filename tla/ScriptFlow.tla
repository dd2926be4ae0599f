----------------------------- MODULE ScriptFlow -----------------------------
(***************************************************************************)
(* What a shell script promises: from one line that does something to the  *)
(* next.  A line that does something is a command, a condition that is     *)
(* tested or a for that takes its next item.  A script s is a sequence of  *)
(* lines, each with its keyword and whether the "then" or "do" that goes   *)
(* with it stands behind it.                                               *)
(***************************************************************************)
EXTENDS Naturals, Sequences, FiniteSets, FiniteSetsExt

VARIABLES
  script,   \* the lines
  event     \* the last line that did something, and how it came out

flowVars == <<script, event>>

Openers == {"if", "while", "for"}
Closers == {"fi", "done"}
Loops == {"while", "for"}
Arms == {"elif", "else", "fi"}
Tested == {"if", "elif", "while", "for"}
Kinds == Openers \cup Closers \cup Arms \cup {"cmd", "break", "continue", "then", "do"}

Kind(s, i) == s[i].kind

(* How many blocks a line is in, its own not counted. *)
Level(s, i) ==
  Cardinality({j \in 1..(i - 1) : Kind(s, j) \in Openers})
    - Cardinality({j \in 1..(i - 1) : Kind(s, j) \in Closers})

Inside(s, i) == IF Kind(s, i) \in Openers THEN Level(s, i) + 1 ELSE Level(s, i)

(* The lines of the block that h opens, with the one that closes it. *)
Holds(s, h, i) == h < i /\ \A k \in (h + 1)..i : Level(s, k) > Level(s, h)
Directly(s, h, i) == Holds(s, h, i) /\ Level(s, i) = Level(s, h) + 1
Closes(s, h, i) ==
  Directly(s, h, i) /\ Kind(s, i) = IF Kind(s, h) = "if" THEN "fi" ELSE "done"

WellFormed(s) ==
  /\ s \in Seq([kind : Kinds, inline : BOOLEAN]) /\ s # <<>>
  /\ \A i \in DOMAIN s :
       /\ Kind(s, i) \in Openers => \E j \in DOMAIN s : Closes(s, i, j)
       /\ Kind(s, i) \in Closers => \E h \in DOMAIN s : Kind(s, h) \in Openers /\ Closes(s, h, i)
       /\ Kind(s, i) \in {"elif", "else"} =>
            \E h \in DOMAIN s : Kind(s, h) = "if" /\ Directly(s, h, i)
                                /\ \A k \in h..i : Kind(s, k) = "else" /\ Directly(s, h, k) => k = i
       /\ Kind(s, i) \in {"break", "continue"} => \E h \in DOMAIN s : Kind(s, h) \in Loops /\ Holds(s, h, i)
       /\ Kind(s, i) \in Tested /\ ~s[i].inline =>
            i < Len(s) /\ Kind(s, i + 1) = IF Kind(s, i) \in Loops THEN "do" ELSE "then"
       /\ Kind(s, i) \in {"then", "do"} => i > 1 /\ Kind(s, i - 1) \in Tested /\ ~s[i - 1].inline

-----------------------------------------------------------------------------
(* The next of these lines that belongs to the block i opens or divides. *)
NextOf(s, i, kinds) ==
  Min({j \in DOMAIN s : j > i /\ Level(s, j) = Inside(s, i) /\ Kind(s, j) \in kinds})

(* The loop a line is in, and the loop a done ends. *)
Encloses(s, h, i) == Kind(s, h) \in Loops /\ h < i /\ NextOf(s, h, {"done"}) >= i
LoopOf(s, i) == Max({h \in DOMAIN s : Encloses(s, h, i)})

(* Where control comes to when it gets to a line. *)
Reached(s) ==
  LET at[i \in 1..(Len(s) + 1)] ==
        IF i > Len(s) THEN i
        ELSE IF Kind(s, i) \in {"elif", "else"} THEN at[NextOf(s, i, {"fi"}) + 1]
        ELSE IF Kind(s, i) \in {"fi", "then", "do"} THEN at[i + 1]
        ELSE IF Kind(s, i) = "done" THEN LoopOf(s, i)
        ELSE i
  IN  at

Outcomes(s, i) ==
  IF i > Len(s) THEN {"end"}
  ELSE IF Kind(s, i) \in {"cmd", "break", "continue"} THEN {"ran"}
  ELSE {"true", "false"}

At(s, i) == [line : {i}, outcome : Outcomes(s, i)]

Follows(s, e) ==
  LET i == e.line
  IN  IF e.outcome = "end" THEN {e}
      ELSE IF e.outcome = "start" THEN At(s, Reached(s)[1])
      ELSE IF Kind(s, i) = "break" THEN At(s, Reached(s)[NextOf(s, LoopOf(s, i), {"done"}) + 1])
      ELSE IF Kind(s, i) = "continue" THEN At(s, LoopOf(s, i))
      ELSE IF e.outcome # "false" THEN At(s, Reached(s)[i + 1])
      ELSE IF Kind(s, i) \in Loops THEN At(s, Reached(s)[NextOf(s, i, {"done"}) + 1])
      ELSE LET arm == NextOf(s, i, Arms)
           IN  IF Kind(s, arm) = "elif" THEN At(s, arm) ELSE At(s, Reached(s)[arm + 1])

Nothing == [line |-> 0, outcome |-> "start"]

FlowInit == script = <<>> /\ event = Nothing

(* A script starts where none runs, and is over only past its last line. *)
FlowStart == script = <<>> /\ event' = Nothing

FlowStep == script # <<>> /\ event' \in Follows(script, event) /\ UNCHANGED script

FlowOver == event.outcome = "end" /\ script' = <<>> /\ event' = Nothing

FlowNext == FlowStart \/ FlowStep \/ FlowOver

FlowSpec == FlowInit /\ [][FlowNext]_flowVars
=============================================================================
