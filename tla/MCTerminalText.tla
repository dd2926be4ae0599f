--------------------------- MODULE MCTerminalText ---------------------------
(***************************************************************************)
(* TerminalText on a small terminal.  The scripts are all well-formed ones *)
(* up to MaxLines lines, with "then" and "do" at the end of a line or on   *)
(* one of their own.                                                       *)
(***************************************************************************)
EXTENDS TerminalText

CONSTANTS a, b, MaxLines

MCWindows == 0..1
MCCommands == {<<a>>, <<a, b>>}
MCSaved == {<<>>, <<<<a>>>>, <<<<a, b>>>>, <<<<a, b>>, <<a>>>>}
MCTyped == MCCommands
MCProgram == <<a>>
MCFiles == {<<>>, <<a, a, NL, a>>}

Line(kind) == [kind |-> kind, inline |-> TRUE]
Pieces ==
  {<<Line(k)>> : k \in {"cmd", "break", "continue", "if", "elif", "else", "fi", "while", "for", "done"}}
  \cup {<<[kind |-> k, inline |-> FALSE], Line("then")>> : k \in {"if", "elif"}}
  \cup {<<[kind |-> k, inline |-> FALSE], Line("do")>> : k \in {"while", "for"}}

(* The beginning of a script: its lines, and the blocks that are open. *)
NoLines == [lines |-> <<>>, open |-> <<>>]

MayFollow(p, piece) ==
  LET kind == Head(piece).kind
      in == IF p.open = <<>> THEN "none" ELSE Last(p.open)
  IN  CASE kind \in {"break", "continue"} -> "loop" \in ToSet(p.open)
        [] kind \in {"elif", "else"}      -> in = "if"
        [] kind = "fi"                    -> in \in {"if", "else"}
        [] kind = "done"                  -> in = "loop"
        [] OTHER                          -> TRUE

Followed(p, piece) ==
  LET kind == Head(piece).kind
  IN  [lines |-> p.lines \o piece,
       open |-> CASE kind = "if"                -> Append(p.open, "if")
                  [] kind \in {"while", "for"}  -> Append(p.open, "loop")
                  [] kind = "else"              -> Append(Front(p.open), "else")
                  [] kind \in {"fi", "done"}    -> Front(p.open)
                  [] OTHER                      -> p.open]

MCScripts ==
  LET begun[n \in 0..MaxLines] ==
        IF n = 0 THEN {NoLines}
        ELSE {p \in {Followed(x[1], x[2]) : x \in {x \in begun[n - 1] \X Pieces : MayFollow(x[1], x[2])}} :
                Len(p.lines) + Len(p.open) <= MaxLines}
  IN  UNION {{p.lines : p \in {q \in begun[n] : q.open = <<>>}} : n \in 1..MaxLines}
=============================================================================
