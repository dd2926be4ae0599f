-------------------------- MODULE MCTerminalLayout --------------------------
(* TerminalLayout for TLC. *)
EXTENDS TerminalLayout

(* Of a closed slot the code reads nothing but y (count_horizontal_terminals_
   at_y, when the slot is used again and not yet placed), and only whether it
   lies within Tolerance of a live row.  The rest of its stale geometry is left
   out of the fingerprint, so that histories that differ in it alone are one
   state. *)
LayoutView ==
  <<active, selected_terminal, active_terminal, window_count,
    [i \in Slot |-> IF active[i] THEN geom[i] ELSE Rect(0, geom[i].y, 0, 0)]>>
=============================================================================
