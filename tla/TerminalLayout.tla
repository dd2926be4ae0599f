--------------------------- MODULE TerminalLayout ---------------------------
(***************************************************************************)
(* src/actions/terminal/terminal_layout.c: the table of terminal windows.  *)
(* A new window takes half of the selected one, a closed window makes the  *)
(* survivors fall into a grid, and the control-arrow hotkeys move the      *)
(* selection to the nearest window on one side.  Each operation runs to    *)
(* its end in the task that scans the keyboard, so each is one action.     *)
(***************************************************************************)
EXTENDS Integers, FiniteSetsExt

CONSTANTS
  MaxWindows,     \* max_windows, 8 in terminal.h
  ScreenWidth,    \* boot_tft_get_width(): 480 after tft.setRotation(3)
  ScreenHeight,   \* boot_tft_get_height(): 320
  Arduino         \* TRUE for the firmware; the PC build keeps no geometry

ASSUME LayoutAssumption ==
  /\ MaxWindows \in Nat \ {0}
  /\ ScreenWidth \in 60..3000
  /\ ScreenHeight \in 60..3000
  /\ Arduino \in BOOLEAN

VARIABLES
  active,              \* terminals[i].active
  geom,                \* terminals[i].x, y, width, height
  active_terminal,     \* where key events go
  selected_terminal,   \* what the hotkeys split and close
  window_count

vars == <<active, geom, active_terminal, selected_terminal, window_count>>

Slot == 0..(MaxWindows - 1)

margin == 5
border == 2
MinSide == 50
MAX_HORIZONTAL_TERMINALS == 4
Tolerance == 5

Rect(x, y, w, h) == [x |-> x, y |-> y, width |-> w, height |-> h]

NoRect == Rect(0, 0, 0, 0)

FullScreen ==
  Rect(margin, margin, ScreenWidth - margin * 2, ScreenHeight - margin * 2)

ActiveSlots == {i \in Slot : active[i]}

Lowest(S) == CHOOSE i \in S : \A j \in S : i <= j

Init ==
  /\ active = [i \in Slot |-> FALSE]
  /\ geom = [i \in Slot |-> NoRect]
  /\ active_terminal = 0
  /\ selected_terminal = 0
  /\ window_count = 0

-----------------------------------------------------------------------------
(* new_terminal.  The new slot is already marked active when the window to
   split is looked for and when the windows of its row are counted, so a slot
   that was never used, at y = 0, counts into the first row. *)
CountAtY(open, y) ==
  Cardinality({i \in open : geom[i].y >= y - Tolerance /\ geom[i].y <= y + Tolerance})

SplitTarget(open) ==
  IF selected_terminal \in open THEN selected_terminal ELSE Lowest(open)

(* Mutant of Half: the borders are not taken off. *)
HalfWithoutBorder(side) == side \div 2

(* half_width or half_height of a side that is cut in two *)
Half(side) == side \div 2 - border

CutsVertically(open, r) ==
  /\ CountAtY(open, r.y) < MAX_HORIZONTAL_TERMINALS
  /\ r.width > r.height
  /\ Half(r.width) >= MinSide

(* Too small to be cut in either direction: the window is not opened. *)
Unsplittable(open, r) == ~CutsVertically(open, r) /\ Half(r.height) < MinSide

NewHalf(open, r) ==
  IF CutsVertically(open, r)
  THEN Rect(r.x, r.y, Half(r.width), r.height)
  ELSE Rect(r.x, r.y, r.width, Half(r.height))

(* Mutant of OldHalf: the lower half stays at the top (line 294 missing). *)
OldHalfNotMoved(open, r) ==
  IF CutsVertically(open, r)
  THEN Rect(r.x + Half(r.width) + border * 2, r.y, Half(r.width), r.height)
  ELSE Rect(r.x, r.y, r.width, Half(r.height))

OldHalf(open, r) ==
  IF CutsVertically(open, r)
  THEN Rect(r.x + Half(r.width) + border * 2, r.y, Half(r.width), r.height)
  ELSE Rect(r.x, r.y + Half(r.height) + border * 2, r.width, Half(r.height))

OpenedAt(new) ==
  /\ active' = [active EXCEPT ![new] = TRUE]
  /\ active_terminal' = new
  /\ selected_terminal' = new
  /\ window_count' = window_count + 1

NewFirst(new) ==
  /\ window_count = 0 \/ ~Arduino
  /\ OpenedAt(new)
  /\ geom' = [geom EXCEPT ![new] = IF Arduino THEN FullScreen ELSE NoRect]

(* Mutant of SplitAborted: line 283 is forgotten. *)
AbortKeepsSlot(new) ==
  /\ active' = [active EXCEPT ![new] = TRUE]
  /\ UNCHANGED window_count

(* Line 283: the slot is given back before the count was raised. *)
SplitAborted(new) == UNCHANGED <<active, window_count>>

NewBySplit(new) ==
  LET open   == ActiveSlots \cup {new}
      target == SplitTarget(open)
      r      == geom[target]
  IN  /\ window_count > 0 /\ Arduino
      /\ \/ /\ Unsplittable(open, r)
            /\ SplitAborted(new)
            /\ selected_terminal' = target
            /\ UNCHANGED <<geom, active_terminal>>
         \/ /\ ~Unsplittable(open, r)
            /\ OpenedAt(new)
            /\ geom' = [[geom EXCEPT ![new] = NewHalf(open, r)]
                             EXCEPT ![target] = OldHalf(open, r)]

new_terminal ==
  /\ window_count < MaxWindows
  /\ ActiveSlots # Slot
  /\ LET new == Lowest(Slot \ ActiveSlots) IN NewFirst(new) \/ NewBySplit(new)

-----------------------------------------------------------------------------
(* close_terminal.  The survivors, in slot order, fill a grid row by row. *)
Columns(n) == IF n > MAX_HORIZONTAL_TERMINALS THEN MAX_HORIZONTAL_TERMINALS ELSE n
Rows(n) == (n + Columns(n) - 1) \div Columns(n)

AtLeastMin(side) == IF side < MinSide THEN MinSide ELSE side

CellWidth(n) ==
  AtLeastMin((ScreenWidth - margin * 2 - border * (Columns(n) - 1)) \div Columns(n))
CellHeight(n) ==
  AtLeastMin((ScreenHeight - margin * 2 - border * (Rows(n) - 1)) \div Rows(n))

(* The window's place in active_indices. *)
Rank(left, i) == Cardinality({j \in left : j < i})

Cell(left, i) ==
  LET n   == Cardinality(left)
      col == Rank(left, i) % Columns(n)
      row == Rank(left, i) \div Columns(n)
  IN  IF n = 1
      THEN FullScreen
      ELSE Rect(margin + col * (CellWidth(n) + border),
                margin + row * (CellHeight(n) + border),
                CellWidth(n), CellHeight(n))

Relayout(left) == [i \in Slot |-> IF i \in left THEN Cell(left, i) ELSE geom[i]]

ToClose == IF active[selected_terminal] THEN selected_terminal ELSE active_terminal

(* Mutants of NextSelected: the search's result is used unchecked; the
   selection always goes back to the first slot. *)
NextSelectedUnchecked(left) == IF left = {} THEN MaxWindows ELSE Lowest(left)
NextSelectedFirst(left) == 0

NextSelected(left) == IF left = {} THEN 0 ELSE Lowest(left)

close_terminal ==
  /\ window_count > 0
  /\ active[ToClose]
  /\ LET left == ActiveSlots \ {ToClose}
     IN  /\ active' = [active EXCEPT ![ToClose] = FALSE]
         /\ window_count' = window_count - 1
         /\ selected_terminal' = NextSelected(left)
         /\ active_terminal' = NextSelected(left)
         /\ geom' = IF Arduino THEN Relayout(left) ELSE geom

-----------------------------------------------------------------------------
(* terminal_select_direction.  Beyond(d, c, r): window c lies wholly on side d
   of window r; Gap and Offset are how far along that side and across it. *)
Directions == {"left", "right", "up", "down"}

Right(r) == r.x + r.width
Bottom(r) == r.y + r.height

Gap(d, c, r) ==
  CASE d = "left"  -> r.x - Right(c)
    [] d = "right" -> c.x - Right(r)
    [] d = "up"    -> r.y - Bottom(c)
    [] d = "down"  -> c.y - Bottom(r)

Beyond(d, c, r) == Gap(d, c, r) >= 0

SharesRows(c, r) == ~(Bottom(c) <= r.y \/ c.y >= Bottom(r))
SharesColumns(c, r) == ~(Right(c) <= r.x \/ c.x >= Right(r))

Faces(d, c, r) ==
  IF d \in {"left", "right"} THEN SharesRows(c, r) ELSE SharesColumns(c, r)

Offset(d, c, r) ==
  IF Faces(d, c, r) THEN 0
  ELSE IF d \in {"left", "right"}
       THEN IF Bottom(c) <= r.y THEN r.y - Bottom(c) ELSE c.y - Bottom(r)
       ELSE IF Right(c) <= r.x THEN r.x - Right(c) ELSE c.x - Right(r)

(* Mutant of Better: the farthest window wins. *)
BetterFar(d, c1, c2, r) ==
  \/ Faces(d, c1, r) /\ ~Faces(d, c2, r)
  \/ Faces(d, c1, r) = Faces(d, c2, r) /\ Gap(d, c1, r) > Gap(d, c2, r)

(* A facing window is preferred, then the nearest, then the least offset. *)
Better(d, c1, c2, r) ==
  \/ Faces(d, c1, r) /\ ~Faces(d, c2, r)
  \/ /\ Faces(d, c1, r) <=> Faces(d, c2, r)
     /\ \/ Gap(d, c1, r) < Gap(d, c2, r)
        \/ Gap(d, c1, r) = Gap(d, c2, r) /\ Offset(d, c1, r) < Offset(d, c2, r)

Candidates(d, from) ==
  {i \in ActiveSlots \ {from} : Beyond(d, geom[i], geom[from])}

Best(d, from) ==
  LET cand == Candidates(d, from)
  IN  Lowest({i \in cand : \A j \in cand : ~Better(d, geom[j], geom[i], geom[from])})

(* Where the selection goes from window `from'; it stays when nothing is there. *)
SelectFrom(d, from) == IF Candidates(d, from) = {} THEN from ELSE Best(d, from)

terminal_select_direction(d) ==
  /\ window_count > 0
  /\ Candidates(d, selected_terminal) # {}
  /\ selected_terminal' = Best(d, selected_terminal)
  /\ active_terminal' = Best(d, selected_terminal)
  /\ UNCHANGED <<active, geom, window_count>>

Next ==
  \/ new_terminal
  \/ close_terminal
  \/ \E d \in Directions : terminal_select_direction(d)

Spec == Init /\ [][Next]_vars

-----------------------------------------------------------------------------
(* Type invariant: the selection indexes the table and the count is a count. *)
TypeOK ==
  /\ active \in [Slot -> BOOLEAN]
  /\ geom \in [Slot -> [x : Int, y : Int, width : Int, height : Int]]
  /\ active_terminal \in Slot
  /\ selected_terminal \in Slot
  /\ window_count \in 0..MaxWindows

(* The counter that every operation consults instead of the table agrees with
   the table, also after an open that was abandoned half way (lines 280-287). *)
CountMatches == window_count = Cardinality(ActiveSlots)

(* While a window is open, key events and hotkeys go to one and the same live
   window: neither index is left behind on a closed slot. *)
SelectionLive ==
  /\ selected_terminal = active_terminal
  /\ window_count > 0 => active[selected_terminal]

Disjoint(r, s) ==
  \/ Right(r) <= s.x \/ Right(s) <= r.x
  \/ Bottom(r) <= s.y \/ Bottom(s) <= r.y

(* On the screen no open window covers another, whatever mixture of splits
   and relayouts produced the layout. *)
NoOverlap ==
  Arduino => \A i, j \in ActiveSlots : i # j => Disjoint(geom[i], geom[j])

(* Every open window lies inside the margins and is at least 50 by 50: what
   validate_terminal_layout (lines 52-71) looks for after each change. *)
OnScreen ==
  Arduino => \A i \in ActiveSlots :
    /\ geom[i].x >= margin /\ Right(geom[i]) <= ScreenWidth - margin
    /\ geom[i].y >= margin /\ Bottom(geom[i]) <= ScreenHeight - margin
    /\ geom[i].width >= MinSide /\ geom[i].height >= MinSide

(* Windows the arrow hotkeys lead to from the selected one; goes holds where each
   hotkey leads from each window. *)
WithinArrows ==
  LET goes == UNION {{<<i, SelectFrom(d, i)>> : d \in Directions} : i \in ActiveSlots}
      reach[n \in 0..MaxWindows] ==
        IF n = 0 THEN {selected_terminal}
        ELSE LET near == reach[n - 1] IN near \cup {g[2] : g \in {h \in goes : h[1] \in near}}
  IN  reach[MaxWindows]

(* No open window is out of reach of the four arrow hotkeys, the only way to
   select one. *)
ArrowsReachAll == window_count > 0 => ActiveSlots \subseteq WithinArrows

area(r) == r.width * r.height
TotalArea == MapThenSumSet(LAMBDA i : area(geom[i]), ActiveSlots)

(* "rebuild layout for remaining terminals to fill gaps" (line 507): with less
   than 70 percent of the screen covered validate_terminal_layout itself speaks
   of large gaps (line 86). *)
CloseFillsGaps ==
  [][window_count' < window_count /\ window_count' > 1 /\ Arduino =>
       TotalArea' * 100 >= 70 * area(FullScreen)]_vars
=============================================================================
