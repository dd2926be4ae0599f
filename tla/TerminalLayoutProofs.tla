------------------------ MODULE TerminalLayoutProofs ------------------------
(***************************************************************************)
(* Proofs about TerminalLayout for every table size and screen: the count  *)
(* is the number of live windows, input never goes to a closed one, and no *)
(* two windows overlap or leave the screen.                                *)
(***************************************************************************)
EXTENDS TerminalLayout, WellFoundedInduction, FiniteSetTheorems, TLAPS

(* A nonempty set of naturals has a least element. *)
LEMMA LeastNatural ==
  ASSUME NEW S \in SUBSET Nat, S # {}
  PROVE  \E m \in S : \A k \in S : m <= k
  <1>1. PICK m \in S : \A k \in S : ~(<<k, m>> \in {ij \in Nat \X Nat : ij[1] < ij[2]})
    BY NatLessThanWellFounded, WFMin DEF OpToRel
  <1>2. \A k \in S : ~(k < m)
    BY <1>1
  <1>3. QED
    BY <1>2

LEMMA LowestIn ==
  ASSUME NEW S \in SUBSET Slot, S # {}
  PROVE  Lowest(S) \in S /\ \A j \in S : Lowest(S) <= j
  <1>1. S \in SUBSET Nat
    BY LayoutAssumption DEF Slot
  <1>2. \E i \in S : \A j \in S : i <= j
    BY <1>1, LeastNatural
  <1>3. QED
    BY <1>2 DEF Lowest

LEMMA SlotsAreFinite ==
  ASSUME NEW S \in SUBSET Slot
  PROVE  /\ IsFiniteSet(S)
         /\ Cardinality(S) \in 0..MaxWindows
  <1>1. IsFiniteSet(Slot) /\ Cardinality(Slot) = MaxWindows
    BY FS_Interval, LayoutAssumption DEF Slot
  <1>2. IsFiniteSet(S) /\ Cardinality(S) <= MaxWindows
    BY <1>1, FS_Subset
  <1>3. QED
    BY <1>2, FS_CardinalityType, LayoutAssumption

-----------------------------------------------------------------------------
(* The direction keys.  Better is a lexicographic order, so among finitely
   many candidates one is beaten by no other: facing first, then the least
   gap, then the least offset. *)
Rects == [x : Int, y : Int, width : Int, height : Int]

LEMMA GapAndOffset ==
  ASSUME NEW d \in Directions, NEW c \in Rects, NEW r \in Rects, Beyond(d, c, r)
  PROVE  Gap(d, c, r) \in Nat /\ Offset(d, c, r) \in Nat /\ Faces(d, c, r) \in BOOLEAN
  <1>1. Gap(d, c, r) \in Nat
    BY DEF Directions, Rects, Beyond, Gap, Right, Bottom
  <1>2. Faces(d, c, r) \in BOOLEAN
    BY DEF Faces, SharesRows, SharesColumns
  <1>3. CASE d \in {"left", "right"}
    BY <1>1, <1>2, <1>3 DEF Rects, Offset, Faces, SharesRows, Right, Bottom
  <1>4. CASE d \in {"up", "down"}
    BY <1>1, <1>2, <1>4 DEF Rects, Offset, Faces, SharesColumns, Right, Bottom
  <1>5. QED
    BY <1>3, <1>4 DEF Directions

LEMMA SomeoneUnbeaten ==
  ASSUME TypeOK, NEW d \in Directions, NEW from \in Slot, Candidates(d, from) # {}
  PROVE  \E i \in Candidates(d, from) : \A j \in Candidates(d, from) :
           ~Better(d, geom[j], geom[i], geom[from])
  <1> DEFINE C == Candidates(d, from)
             F(i) == Faces(d, geom[i], geom[from])
             G(i) == Gap(d, geom[i], geom[from])
             O(i) == Offset(d, geom[i], geom[from])
             C1 == IF \E i \in C : F(i) THEN {i \in C : F(i)} ELSE C
  <1>1. \A i \in C : G(i) \in Nat /\ O(i) \in Nat /\ F(i) \in BOOLEAN
    BY GapAndOffset DEF Candidates, ActiveSlots, TypeOK, Rects
  <1> HIDE DEF C, F, G, O
  <1>2. C # {}
    BY DEF C
  <1>3. C1 # {} /\ C1 \subseteq C
    BY <1>2
  <1>4. PICK g \in {G(i) : i \in C1} : \A k \in {G(i) : i \in C1} : g <= k
    <2>1. {G(i) : i \in C1} \in SUBSET Nat /\ {G(i) : i \in C1} # {}
      BY <1>1, <1>3
    <2> QED
      BY <2>1, LeastNatural
  <1> DEFINE C2 == {i \in C1 : G(i) = g}
  <1>5. PICK o \in {O(i) : i \in C2} : \A k \in {O(i) : i \in C2} : o <= k
    <2>1. {O(i) : i \in C2} \in SUBSET Nat /\ {O(i) : i \in C2} # {}
      BY <1>1, <1>3, <1>4
    <2> QED
      BY <2>1, LeastNatural
  <1>6. PICK i \in C2 : O(i) = o
    BY <1>5
  <1>7. i \in C /\ G(i) = g
    BY <1>3, <1>6
  <1>8. ASSUME NEW j \in C
        PROVE  /\ F(j) => F(i)
               /\ F(j) = F(i) => G(i) <= G(j)
               /\ F(j) = F(i) /\ G(i) = G(j) => O(i) <= O(j)
    <2>1. F(j) => F(i)
      BY <1>8, <1>6
    <2>2. F(j) = F(i) => j \in C1
      BY <1>8, <1>6, <1>1
    <2>3. j \in C1 => G(i) <= G(j)
      BY <1>4, <1>7
    <2>4. j \in C1 /\ G(i) = G(j) => j \in C2
      BY <1>7
    <2>5. j \in C2 => O(i) <= O(j)
      BY <1>5, <1>6
    <2> QED
      BY <2>1, <2>2, <2>3, <2>4, <2>5
  <1>9. ASSUME NEW j \in C PROVE ~Better(d, geom[j], geom[i], geom[from])
    <2>1. /\ F(j) => F(i)
          /\ F(j) = F(i) => ~(G(j) < G(i))
          /\ F(j) = F(i) /\ G(i) = G(j) => ~(O(j) < O(i))
      BY <1>8, <1>9, <1>7, <1>1
    <2> QED
      BY <2>1, <1>1, <1>7, <1>9 DEF Better, F, G, O
  <1>10. QED
    BY <1>7, <1>9 DEF C

LEMMA BestIsCandidate ==
  ASSUME TypeOK, NEW d \in Directions, NEW from \in Slot, Candidates(d, from) # {}
  PROVE  Best(d, from) \in Candidates(d, from)
  <1> DEFINE U == {i \in Candidates(d, from) : \A j \in Candidates(d, from) :
                     ~Better(d, geom[j], geom[i], geom[from])}
  <1>1. U # {} /\ U \in SUBSET Slot
    BY SomeoneUnbeaten DEF Candidates, ActiveSlots
  <1>2. Lowest(U) \in U
    BY <1>1, LowestIn
  <1>3. Best(d, from) = Lowest(U)
    BY DEF Best
  <1>4. QED
    BY <1>2, <1>3

-----------------------------------------------------------------------------
(* The inductive invariant.  None of the three parts is inductive alone: the
   count stays in range because it counts the table, and the table is closed
   only where the selection points. *)
IInv == TypeOK /\ CountMatches /\ SelectionLive

LEMMA InitIInv == Init => IInv
  <1> SUFFICES ASSUME Init PROVE IInv
    OBVIOUS
  <1>1. 0 \in Slot
    BY LayoutAssumption DEF Slot
  <1>2. ActiveSlots = {}
    BY DEF Init, ActiveSlots
  <1>3. Cardinality(ActiveSlots) = 0
    BY <1>2, FS_EmptySet
  <1>4. TypeOK
    BY <1>1, LayoutAssumption DEF Init, TypeOK, NoRect, Rect
  <1>5. QED
    BY <1>3, <1>4 DEF Init, IInv, CountMatches, SelectionLive

(* Geometry keeps its type: every rectangle computed is one of integers. *)
LEMMA HalvesAreRects ==
  ASSUME NEW open, NEW r \in Rects
  PROVE  NewHalf(open, r) \in Rects /\ OldHalf(open, r) \in Rects
  BY DEF Rects, NewHalf, OldHalf, Half, Rect, border

LEMMA CellsAreRects ==
  ASSUME NEW left \in SUBSET Slot, NEW i \in left
  PROVE  Cell(left, i) \in Rects
  <1> DEFINE n == Cardinality(left)
  <1>1. n \in Nat \ {0}
    BY SlotsAreFinite, FS_EmptySet
  <1>2. Columns(n) \in 1..4
    BY <1>1 DEF Columns, MAX_HORIZONTAL_TERMINALS
  <1>3. Rank(left, i) \in Nat
    <2>1. {j \in left : j < i} \in SUBSET Slot
      OBVIOUS
    <2> QED
      BY <2>1, SlotsAreFinite DEF Rank
  <1>4. Rows(n) \in Nat /\ Rows(n) > 0
    BY <1>1, <1>2 DEF Rows
  <1>5. CellWidth(n) \in Int
    BY <1>1, <1>2, LayoutAssumption DEF CellWidth, AtLeastMin, margin, border, MinSide
  <1>6. CellHeight(n) \in Int
    BY <1>4, LayoutAssumption DEF CellHeight, AtLeastMin, margin, border, MinSide
  <1>7. Rank(left, i) % Columns(n) \in Int /\ Rank(left, i) \div Columns(n) \in Int
    BY <1>2, <1>3
  <1>8. FullScreen \in Rects
    BY LayoutAssumption DEF FullScreen, Rects, Rect, margin
  <1>9. \A col, row, w, h \in Int :
          Rect(margin + col * (w + border), margin + row * (h + border), w, h) \in Rects
    BY DEF Rects, Rect, margin, border
  <1> HIDE DEF n
  <1>10. Rect(margin + (Rank(left, i) % Columns(n)) * (CellWidth(n) + border),
              margin + (Rank(left, i) \div Columns(n)) * (CellHeight(n) + border),
              CellWidth(n), CellHeight(n)) \in Rects
    BY <1>5, <1>6, <1>7, <1>9
  <1>11. QED
    BY <1>8, <1>10 DEF Cell, n

(* A slot that is opened raises the number of live windows by one. *)
LEMMA OpenedKeeps ==
  ASSUME IInv, NEW new \in Slot, ~active[new], OpenedAt(new), window_count < MaxWindows,
         geom' \in [Slot -> Rects]
  PROVE  IInv'
  <1>1. ActiveSlots' = ActiveSlots \cup {new} /\ new \notin ActiveSlots
    BY DEF ActiveSlots, OpenedAt, IInv, TypeOK
  <1>2. Cardinality(ActiveSlots') = Cardinality(ActiveSlots) + 1
    <2>1. IsFiniteSet(ActiveSlots)
      BY SlotsAreFinite DEF ActiveSlots
    <2> QED
      BY <1>1, <2>1, FS_AddElement
  <1>3. TypeOK'
    <2>1. window_count' \in 0..MaxWindows
      BY LayoutAssumption DEF IInv, TypeOK, OpenedAt
    <2>2. active' \in [Slot -> BOOLEAN]
      BY DEF IInv, TypeOK, OpenedAt
    <2>3. active_terminal' \in Slot /\ selected_terminal' \in Slot
      BY DEF OpenedAt
    <2> QED
      BY <2>1, <2>2, <2>3 DEF TypeOK, Rects
  <1>4. CountMatches'
    BY <1>2 DEF IInv, CountMatches, OpenedAt
  <1>5. SelectionLive'
    BY DEF IInv, SelectionLive, OpenedAt, TypeOK
  <1>6. QED
    BY <1>3, <1>4, <1>5 DEF IInv

LEMMA NewTerminalKeeps == IInv /\ new_terminal => IInv'
  <1> SUFFICES ASSUME IInv, new_terminal PROVE IInv'
    OBVIOUS
  <1> DEFINE new == Lowest(Slot \ ActiveSlots)
             open == ActiveSlots \cup {new}
             r == geom[SplitTarget(open)]
  <1>1. new \in Slot /\ ~active[new]
    BY LowestIn DEF new_terminal, ActiveSlots
  <1>2. window_count < MaxWindows /\ (NewFirst(new) \/ NewBySplit(new))
    BY DEF new_terminal
  <1>3. SplitTarget(open) \in Slot
    <2>1. open \in SUBSET Slot /\ open # {}
      BY <1>1 DEF ActiveSlots
    <2> QED
      BY <2>1, LowestIn DEF SplitTarget
  <1>4. r \in Rects /\ geom \in [Slot -> Rects]
    BY <1>3 DEF IInv, TypeOK, Rects
  <1> HIDE DEF new
  <1>5. CASE NewFirst(new)
    <2>1. FullScreen \in Rects /\ NoRect \in Rects
      BY LayoutAssumption DEF FullScreen, NoRect, Rects, Rect, margin
    <2>2. geom' \in [Slot -> Rects]
      BY <1>4, <1>5, <2>1 DEF NewFirst
    <2> QED
      BY <1>1, <1>2, <1>5, <2>2, OpenedKeeps DEF NewFirst
  <1>6. CASE NewBySplit(new) /\ ~Unsplittable(open, r)
    <2>1. geom' = [[geom EXCEPT ![new] = NewHalf(open, r)]
                        EXCEPT ![SplitTarget(open)] = OldHalf(open, r)]
      BY <1>6 DEF NewBySplit
    <2>2. geom' \in [Slot -> Rects]
      BY <2>1, <1>4, HalvesAreRects
    <2>3. OpenedAt(new)
      BY <1>6 DEF NewBySplit
    <2> QED
      BY <1>1, <1>2, <2>2, <2>3, OpenedKeeps
  <1>7. CASE NewBySplit(new) /\ Unsplittable(open, r)
    <2>1. /\ UNCHANGED <<active, window_count, geom, active_terminal>>
          /\ selected_terminal' = SplitTarget(open)
          /\ window_count > 0
      BY <1>7 DEF NewBySplit, SplitAborted
    <2>2. SplitTarget(open) = selected_terminal
      BY <2>1 DEF SplitTarget, ActiveSlots, IInv, SelectionLive, TypeOK
    <2> QED
      BY <2>1, <2>2 DEF IInv, TypeOK, CountMatches, SelectionLive, ActiveSlots
  <1>8. QED
    BY <1>2, <1>5, <1>6, <1>7

LEMMA CloseTerminalKeeps == IInv /\ close_terminal => IInv'
  <1> SUFFICES ASSUME IInv, close_terminal PROVE IInv'
    OBVIOUS
  <1> DEFINE left == ActiveSlots \ {ToClose}
  <1>1. ToClose \in ActiveSlots
    BY DEF close_terminal, ToClose, ActiveSlots, IInv, TypeOK
  <1>2. ActiveSlots' = left
    BY DEF close_terminal, ActiveSlots, IInv, TypeOK
  <1>3. Cardinality(left) = Cardinality(ActiveSlots) - 1
    <2>1. IsFiniteSet(ActiveSlots)
      BY SlotsAreFinite DEF ActiveSlots
    <2> QED
      BY <1>1, <2>1, FS_RemoveElement
  <1>4. left \in SUBSET Slot
    BY DEF ActiveSlots
  <1>5. geom' \in [Slot -> Rects]
    <2>1. geom \in [Slot -> Rects]
      BY DEF IInv, TypeOK, Rects
    <2>2. Relayout(left) \in [Slot -> Rects]
      BY <1>4, <2>1, CellsAreRects DEF Relayout
    <2> QED
      BY <2>1, <2>2 DEF close_terminal
  <1>6. NextSelected(left) \in Slot /\ (left # {} => NextSelected(left) \in left)
    <2>1. 0 \in Slot
      BY LayoutAssumption DEF Slot
    <2> QED
      BY <1>4, <2>1, LowestIn DEF NextSelected
  <1>7. /\ window_count' = window_count - 1 /\ window_count > 0
        /\ selected_terminal' = NextSelected(left)
        /\ active_terminal' = NextSelected(left)
        /\ active' = [active EXCEPT ![ToClose] = FALSE]
    BY DEF close_terminal
  <1> HIDE DEF left
  <1>8. CountMatches'
    BY <1>2, <1>3, <1>7 DEF IInv, CountMatches
  <1>9. TypeOK'
    <2>1. window_count' \in 0..MaxWindows
      BY <1>7, LayoutAssumption DEF IInv, TypeOK
    <2>2. active' \in [Slot -> BOOLEAN]
      BY <1>7 DEF IInv, TypeOK
    <2> QED
      BY <1>5, <1>6, <1>7, <2>1, <2>2 DEF TypeOK, Rects
  <1>10. window_count' > 0 => left # {}
    BY <1>2, <1>8, FS_EmptySet DEF CountMatches
  <1>11. SelectionLive'
    BY <1>2, <1>6, <1>7, <1>10 DEF SelectionLive, ActiveSlots
  <1>12. QED
    BY <1>8, <1>9, <1>11 DEF IInv

LEMMA SelectKeeps ==
  ASSUME NEW d \in Directions, IInv, terminal_select_direction(d)
  PROVE  IInv'
  <1>1. Best(d, selected_terminal) \in ActiveSlots
    BY BestIsCandidate DEF IInv, TypeOK, terminal_select_direction, Candidates
  <1>2. QED
    BY <1>1 DEF IInv, TypeOK, CountMatches, SelectionLive, ActiveSlots,
                terminal_select_direction

LEMMA NextIInv == IInv /\ [Next]_vars => IInv'
  <1> SUFFICES ASSUME IInv, [Next]_vars PROVE IInv'
    OBVIOUS
  <1>1. CASE new_terminal
    BY <1>1, NewTerminalKeeps
  <1>2. CASE close_terminal
    BY <1>2, CloseTerminalKeeps
  <1>3. ASSUME NEW d \in Directions, terminal_select_direction(d) PROVE IInv'
    BY <1>3, SelectKeeps
  <1>4. CASE UNCHANGED vars
    BY <1>4 DEF vars, IInv, TypeOK, CountMatches, SelectionLive, ActiveSlots
  <1>5. QED
    BY <1>1, <1>2, <1>3, <1>4 DEF Next

LEMMA Invariance == Spec => []IInv
  BY InitIInv, NextIInv, PTL DEF Spec

(* The table and its indices keep their types, for every table and screen. *)
THEOREM TypeCorrect == Spec => []TypeOK
  BY Invariance, PTL DEF IInv

(* new_terminal, with its abandoned splits, and close_terminal keep
   window_count equal to the number of live windows. *)
THEOREM CountIsLiveWindows == Spec => []CountMatches
  BY Invariance, PTL DEF IInv

(* Key events and hotkeys always go to one live window. *)
THEOREM InputGoesToLiveWindow == Spec => []SelectionLive
  BY Invariance, PTL DEF IInv

-----------------------------------------------------------------------------
(* Geometry.  A split keeps the two halves apart and inside the window that
   was cut; a grid keeps its cells apart because no two survivors have the
   same rank. *)
Within(s, r) ==
  s.x >= r.x /\ Right(s) <= Right(r) /\ s.y >= r.y /\ Bottom(s) <= Bottom(r)

LEMMA HalvesWithin ==
  ASSUME NEW open, NEW r \in Rects
  PROVE  /\ ~Unsplittable(open, r) /\ r.width >= MinSide /\ r.height >= MinSide =>
              /\ Within(NewHalf(open, r), r) /\ Within(OldHalf(open, r), r)
              /\ NewHalf(open, r).width >= MinSide /\ NewHalf(open, r).height >= MinSide
              /\ OldHalf(open, r).width >= MinSide /\ OldHalf(open, r).height >= MinSide
         /\ Disjoint(NewHalf(open, r), OldHalf(open, r))
  <1>1. CASE CutsVertically(open, r)
    BY <1>1 DEF Rects, Unsplittable, CutsVertically, NewHalf, OldHalf, Half, Rect, Within, Disjoint,
                Right, Bottom, border, MinSide
  <1>2. CASE ~CutsVertically(open, r)
    BY <1>2 DEF Rects, Unsplittable, NewHalf, OldHalf, Half, Rect, Within, Disjoint,
                Right, Bottom, border, MinSide
  <1>3. QED
    BY <1>1, <1>2

LEMMA RankGrows ==
  ASSUME NEW left \in SUBSET Slot, NEW i \in left, NEW j \in left, i < j
  PROVE  Rank(left, i) < Rank(left, j)
  <1> DEFINE A == {k \in left : k < i}
             B == {k \in left : k < j}
  <1>1. i \in Int /\ j \in Int /\ \A k \in left : k \in Int
    BY LayoutAssumption DEF Slot
  <1>2. i \notin A /\ A \cup {i} \in SUBSET B /\ B \in SUBSET Slot /\ A \in SUBSET Slot
    <2>1. \A k \in left : k < i => k < j
      BY <1>1
    <2>2. ~(i < i)
      BY <1>1
    <2> QED
      BY <2>1, <2>2, Zenon
  <1>3. IsFiniteSet(A) /\ IsFiniteSet(B) /\ Cardinality(A) \in Nat /\ Cardinality(B) \in Nat
    BY <1>2, SlotsAreFinite
  <1>4. Cardinality(A \cup {i}) = Cardinality(A) + 1
    BY <1>2, <1>3, FS_AddElement
  <1>5. Cardinality(A \cup {i}) <= Cardinality(B)
    BY <1>2, <1>3, FS_Subset
  <1>6. QED
    BY <1>3, <1>4, <1>5 DEF Rank

LEMMA RankInRange ==
  ASSUME NEW left \in SUBSET Slot, NEW i \in left
  PROVE  /\ Cardinality(left) \in 1..MaxWindows
         /\ Rank(left, i) \in 0..(Cardinality(left) - 1)
  <1> DEFINE A == {k \in left : k < i}
  <1>1. IsFiniteSet(left) /\ Cardinality(left) \in 0..MaxWindows
    BY SlotsAreFinite
  <1>2. Cardinality(left) # 0
    BY <1>1, FS_EmptySet
  <1>3. A \in SUBSET (left \ {i}) /\ A \in SUBSET Slot
    <2>1. ~(i < i)
      BY LayoutAssumption DEF Slot
    <2> QED
      BY <2>1, Zenon
  <1>4. Cardinality(left \ {i}) = Cardinality(left) - 1 /\ IsFiniteSet(left \ {i})
    BY <1>1, FS_RemoveElement
  <1>5. Cardinality(A) <= Cardinality(left \ {i}) /\ Cardinality(A) \in Nat
    BY <1>3, <1>4, FS_Subset, SlotsAreFinite
  <1>6. QED
    BY <1>1, <1>2, <1>4, <1>5, LayoutAssumption DEF Rank

LEMMA ColumnsType == ASSUME NEW n \in Nat \ {0} PROVE Columns(n) \in 1..4
  BY DEF Columns, MAX_HORIZONTAL_TERMINALS

LEMMA StepsApart ==
  ASSUME NEW a \in Nat, NEW b \in Nat, NEW s \in Nat, a < b
  PROVE  a * s + s <= b * s
  <1>1. (a + 1) * s <= b * s
    <2>1. PICK d \in Nat : b = a + 1 + d
      <3>1. b - (a + 1) \in Nat /\ b = a + 1 + (b - (a + 1))
        OBVIOUS
      <3> QED
        BY <3>1
    <2>2. b * s = (a + 1) * s + d * s /\ d * s >= 0
      BY <2>1
    <2> QED
      BY <2>2
  <1> QED
    BY <1>1

LEMMA CellSizes ==
  ASSUME NEW left \in SUBSET Slot, left # {}
  PROVE  /\ CellWidth(Cardinality(left)) \in Nat /\ CellWidth(Cardinality(left)) >= MinSide
         /\ CellHeight(Cardinality(left)) \in Nat /\ CellHeight(Cardinality(left)) >= MinSide
         /\ FullScreen.width >= MinSide /\ FullScreen.height >= MinSide
  <1> DEFINE n == Cardinality(left)
  <1>1. n \in Nat \ {0}
    BY SlotsAreFinite, FS_EmptySet
  <1>2. Columns(n) \in 1..4
    BY <1>1, ColumnsType
  <1>3. Rows(n) \in Nat \ {0}
    BY <1>1, <1>2 DEF Rows
  <1>4. \A s \in Int : AtLeastMin(s) \in Nat /\ AtLeastMin(s) >= MinSide
    BY DEF AtLeastMin, MinSide
  <1>5. CellWidth(n) \in Nat /\ CellWidth(n) >= MinSide
    BY <1>2, <1>4, LayoutAssumption DEF CellWidth, margin, border
  <1>6. CellHeight(n) \in Nat /\ CellHeight(n) >= MinSide
    BY <1>3, <1>4, LayoutAssumption DEF CellHeight, margin, border
  <1>7. FullScreen.width >= MinSide /\ FullScreen.height >= MinSide
    BY LayoutAssumption DEF FullScreen, Rect, margin, MinSide
  <1>8. QED
    BY <1>5, <1>6, <1>7

LEMMA CellsApart ==
  ASSUME NEW left \in SUBSET Slot, NEW i \in left, NEW j \in left, i < j
  PROVE  Disjoint(Cell(left, i), Cell(left, j))
  <1> DEFINE n == Cardinality(left)
             c == Columns(n)
             a == Rank(left, i)
             b == Rank(left, j)
             w == CellWidth(n)
             h == CellHeight(n)
  <1>1. a \in Nat /\ b \in Nat /\ a < b /\ n \in Nat /\ b <= n - 1
    BY RankGrows, RankInRange, LayoutAssumption
  <1>2. n # 1 /\ c \in 1..4
    BY <1>1, ColumnsType
  <1>3. w \in Nat /\ h \in Nat
    BY CellSizes
  <1>4. /\ Cell(left, i) = Rect(margin + (a % c) * (w + border), margin + (a \div c) * (h + border), w, h)
        /\ Cell(left, j) = Rect(margin + (b % c) * (w + border), margin + (b \div c) * (h + border), w, h)
    BY <1>2 DEF Cell
  <1> HIDE DEF n, c, a, b, w, h
  <1>5. /\ a % c \in Nat /\ b % c \in Nat /\ a \div c \in Nat /\ b \div c \in Nat
        /\ a % c < b % c \/ a \div c < b \div c
    BY <1>1, <1>2
  <1>6. w + border \in Nat /\ h + border \in Nat
    BY <1>3 DEF border
  <1>7. CASE a % c < b % c
    <2>1. (a % c) * (w + border) + (w + border) <= (b % c) * (w + border)
      BY <1>5, <1>6, <1>7, StepsApart
    <2>2. Right(Cell(left, i)) <= Cell(left, j).x
      <3> DEFINE x == (a % c) * (w + border)
                 y == (b % c) * (w + border)
      <3>1. x \in Int /\ y \in Int
        BY <1>5, <1>6
      <3> HIDE DEF x, y
      <3> QED
        BY <1>3, <1>4, <2>1, <3>1 DEF Right, Rect, margin, border, x, y
    <2> QED
      BY <2>2 DEF Disjoint
  <1>8. CASE a \div c < b \div c
    <2>1. (a \div c) * (h + border) + (h + border) <= (b \div c) * (h + border)
      BY <1>5, <1>6, <1>8, StepsApart
    <2>2. Bottom(Cell(left, i)) <= Cell(left, j).y
      BY <1>3, <1>4, <1>5, <1>6, <2>1 DEF Bottom, Rect, margin, border
    <2> QED
      BY <2>2 DEF Disjoint
  <1>9. QED
    BY <1>5, <1>7, <1>8

(* NoOverlap is not inductive alone: two halves of a window that is too small
   would lie over each other.  No open window is. *)
Sized ==
  Arduino => \A i \in ActiveSlots : geom[i].width >= MinSide /\ geom[i].height >= MinSide

Geometry == Sized /\ NoOverlap

LEMMA ApartWithin ==
  ASSUME NEW r \in Rects, NEW s \in Rects, NEW t \in Rects, Disjoint(r, t), Within(s, r)
  PROVE  Disjoint(s, t) /\ Disjoint(t, s)
  BY DEF Rects, Within, Disjoint, Right, Bottom

LEMMA InitGeometry == Init => Geometry
  BY DEF Init, Geometry, Sized, NoOverlap, ActiveSlots

(* What a split does to the table. *)
LEMMA SplitFacts ==
  ASSUME IInv, Arduino, NEW new \in Slot, ~active[new], NewBySplit(new),
         ~Unsplittable(ActiveSlots \cup {new}, geom[SplitTarget(ActiveSlots \cup {new})])
  PROVE  LET r == geom[selected_terminal]
             open == ActiveSlots \cup {new}
         IN  /\ selected_terminal \in ActiveSlots /\ selected_terminal # new /\ r \in Rects
             /\ ~Unsplittable(open, r)
             /\ ActiveSlots' = ActiveSlots \cup {new}
             /\ geom'[new] = NewHalf(open, r)
             /\ geom'[selected_terminal] = OldHalf(open, r)
             /\ \A i \in Slot \ {new, selected_terminal} : geom'[i] = geom[i]
  <1>1. selected_terminal \in ActiveSlots /\ selected_terminal # new
    BY DEF IInv, SelectionLive, NewBySplit, ActiveSlots, TypeOK
  <1>2. SplitTarget(ActiveSlots \cup {new}) = selected_terminal
    BY <1>1 DEF SplitTarget
  <1>3. geom[selected_terminal] \in Rects /\ geom \in [Slot -> Rects]
    BY DEF IInv, TypeOK, Rects
  <1>4. /\ OpenedAt(new)
        /\ geom' = [[geom EXCEPT ![new] = NewHalf(ActiveSlots \cup {new}, geom[selected_terminal])]
                         EXCEPT ![selected_terminal] = OldHalf(ActiveSlots \cup {new}, geom[selected_terminal])]
    BY <1>2 DEF NewBySplit
  <1>5. ActiveSlots' = ActiveSlots \cup {new}
    BY <1>4 DEF ActiveSlots, OpenedAt, IInv, TypeOK
  <1>6. selected_terminal \in Slot
    BY DEF IInv, TypeOK
  <1>7. QED
    BY <1>1, <1>2, <1>3, <1>4, <1>5, <1>6

LEMMA SplitKeepsGeometry ==
  ASSUME IInv, Geometry, Arduino, NEW new \in Slot, ~active[new], NewBySplit(new),
         ~Unsplittable(ActiveSlots \cup {new}, geom[SplitTarget(ActiveSlots \cup {new})])
  PROVE  Geometry'
  <1> DEFINE s == selected_terminal
             r == geom[s]
             open == ActiveSlots \cup {new}
             p == NewHalf(open, r)
             q == OldHalf(open, r)
  <1>1. /\ s \in ActiveSlots /\ s # new /\ r \in Rects /\ ~Unsplittable(open, r)
        /\ ActiveSlots' = ActiveSlots \cup {new}
        /\ geom'[new] = p /\ geom'[s] = q
        /\ \A i \in Slot \ {new, s} : geom'[i] = geom[i]
    BY SplitFacts
  <1>2. r.width >= MinSide /\ r.height >= MinSide
    BY <1>1 DEF Geometry, Sized
  <1>3. /\ p \in Rects /\ q \in Rects /\ Within(p, r) /\ Within(q, r)
        /\ Disjoint(p, q) /\ Disjoint(q, p)
        /\ p.width >= MinSide /\ p.height >= MinSide /\ q.width >= MinSide /\ q.height >= MinSide
    <2>1. p \in Rects /\ q \in Rects
      BY <1>1, HalvesAreRects
    <2>2. Disjoint(p, q) => Disjoint(q, p)
      BY <2>1 DEF Disjoint
    <2> QED
      BY <1>1, <1>2, <2>1, <2>2, HalvesWithin
  <1> HIDE DEF p, q
  <1>4. \A i \in ActiveSlots \ {s} : i \in Slot /\ i # new /\ geom[i] \in Rects /\ Disjoint(r, geom[i])
    BY <1>1 DEF Geometry, NoOverlap, IInv, TypeOK, Rects, ActiveSlots
  <1>5. \A i \in ActiveSlots \ {s} :
          /\ Disjoint(p, geom[i]) /\ Disjoint(geom[i], p)
          /\ Disjoint(q, geom[i]) /\ Disjoint(geom[i], q)
    BY <1>1, <1>3, <1>4, ApartWithin
  <1>6. Sized'
    <2> SUFFICES ASSUME NEW i \in ActiveSlots' PROVE geom'[i].width >= MinSide /\ geom'[i].height >= MinSide
      BY DEF Sized
    <2>1. CASE i \in ActiveSlots \ {s}
      BY <1>1, <1>4, <2>1 DEF Geometry, Sized
    <2> QED
      BY <1>1, <1>3, <2>1
  <1>7. NoOverlap'
    <2> SUFFICES ASSUME NEW i \in ActiveSlots', NEW j \in ActiveSlots', i # j
                 PROVE  Disjoint(geom'[i], geom'[j])
      BY DEF NoOverlap, Disjoint, Right, Bottom
    <2>1. CASE i \in ActiveSlots \ {s} /\ j \in ActiveSlots \ {s}
      <3>1. Disjoint(geom[i], geom[j])
        BY <2>1 DEF Geometry, NoOverlap
      <3> QED
        BY <1>1, <1>4, <2>1, <3>1
    <2>2. CASE i \in ActiveSlots \ {s} /\ j \in {s, new}
      BY <1>1, <1>4, <1>5, <2>2
    <2>3. CASE i \in {s, new} /\ j \in ActiveSlots \ {s}
      BY <1>1, <1>4, <1>5, <2>3
    <2>4. CASE i \in {s, new} /\ j \in {s, new}
      BY <1>1, <1>3, <2>4
    <2> QED
      BY <1>1, <2>1, <2>2, <2>3, <2>4
  <1>8. QED
    BY <1>6, <1>7 DEF Geometry

LEMMA FirstKeepsGeometry ==
  ASSUME IInv, NEW new \in Slot, ~active[new], NewFirst(new)
  PROVE  Geometry'
  <1>1. CASE ~Arduino
    BY <1>1 DEF Geometry, Sized, NoOverlap
  <1>2. CASE Arduino
    <2>1. IsFiniteSet(ActiveSlots) /\ Cardinality(ActiveSlots) = 0
      BY <1>2, SlotsAreFinite DEF NewFirst, IInv, CountMatches, ActiveSlots
    <2>2. ActiveSlots = {}
      BY <2>1, FS_EmptySet
    <2>3. ActiveSlots' = {new}
      BY <2>2 DEF ActiveSlots, NewFirst, OpenedAt, IInv, TypeOK
    <2>4. geom'[new] = FullScreen
      BY <1>2 DEF NewFirst, IInv, TypeOK
    <2>5. FullScreen.width >= MinSide /\ FullScreen.height >= MinSide
      BY LayoutAssumption DEF FullScreen, Rect, margin, MinSide
    <2> QED
      BY <2>3, <2>4, <2>5 DEF Geometry, Sized, NoOverlap
  <1>3. QED
    BY <1>1, <1>2

LEMMA NewTerminalKeepsGeometry == IInv /\ Geometry /\ new_terminal => Geometry'
  <1> SUFFICES ASSUME IInv, Geometry, new_terminal PROVE Geometry'
    OBVIOUS
  <1> DEFINE new == Lowest(Slot \ ActiveSlots)
             r == geom[SplitTarget(ActiveSlots \cup {new})]
  <1>1. new \in Slot /\ ~active[new]
    BY LowestIn DEF new_terminal, ActiveSlots
  <1>2. NewFirst(new) \/ NewBySplit(new)
    BY DEF new_terminal
  <1> HIDE DEF new
  <1>3. CASE NewFirst(new)
    BY <1>1, <1>3, FirstKeepsGeometry
  <1>4. CASE NewBySplit(new) /\ Unsplittable(ActiveSlots \cup {new}, r)
    BY <1>4 DEF NewBySplit, SplitAborted, Geometry, Sized, NoOverlap, ActiveSlots
  <1>5. CASE NewBySplit(new) /\ ~Unsplittable(ActiveSlots \cup {new}, r)
    BY <1>1, <1>5, SplitKeepsGeometry DEF NewBySplit
  <1>6. QED
    BY <1>2, <1>3, <1>4, <1>5

LEMMA CloseFacts ==
  ASSUME IInv, Arduino, close_terminal
  PROVE  /\ ActiveSlots' = ActiveSlots \ {ToClose}
         /\ ActiveSlots' \in SUBSET Slot
         /\ \A i \in ActiveSlots' : geom'[i] = Cell(ActiveSlots', i)
  <1>1. ActiveSlots' = ActiveSlots \ {ToClose}
    BY DEF close_terminal, ActiveSlots, IInv, TypeOK
  <1>2. geom' = Relayout(ActiveSlots \ {ToClose})
    BY DEF close_terminal
  <1>3. ActiveSlots \ {ToClose} \in SUBSET Slot
    BY DEF ActiveSlots
  <1>4. QED
    BY <1>1, <1>2, <1>3 DEF Relayout

LEMMA CloseTerminalKeepsGeometry == IInv /\ close_terminal => Geometry'
  <1> SUFFICES ASSUME IInv, close_terminal, Arduino PROVE Geometry'
    BY DEF Geometry, Sized, NoOverlap
  <1> DEFINE left == ActiveSlots'
  <1>1. left \in SUBSET Slot /\ \A i \in left : geom'[i] = Cell(left, i)
    BY CloseFacts
  <1> HIDE DEF left
  <1>2. \A i \in left : Cell(left, i).width >= MinSide /\ Cell(left, i).height >= MinSide
    BY <1>1, CellSizes DEF Cell, Rect
  <1>3. \A i, j \in left : i # j => Disjoint(Cell(left, i), Cell(left, j))
    <2> SUFFICES ASSUME NEW i \in left, NEW j \in left, i # j PROVE Disjoint(Cell(left, i), Cell(left, j))
      OBVIOUS
    <2>1. i < j \/ j < i
      BY <1>1, LayoutAssumption DEF Slot
    <2>2. CASE i < j
      BY <1>1, <2>2, CellsApart
    <2>3. CASE j < i
      BY <1>1, <2>3, CellsApart DEF Disjoint
    <2> QED
      BY <2>1, <2>2, <2>3
  <1>4. QED
    BY <1>1, <1>2, <1>3 DEF left, Geometry, Sized, NoOverlap, Disjoint, Right, Bottom

LEMMA NextGeometry == IInv /\ Geometry /\ [Next]_vars => Geometry'
  <1> SUFFICES ASSUME IInv, Geometry, [Next]_vars PROVE Geometry'
    OBVIOUS
  <1>1. CASE new_terminal
    BY <1>1, NewTerminalKeepsGeometry
  <1>2. CASE close_terminal
    BY <1>2, CloseTerminalKeepsGeometry
  <1>3. ASSUME NEW d \in Directions, terminal_select_direction(d) PROVE Geometry'
    BY <1>3 DEF terminal_select_direction, Geometry, Sized, NoOverlap, ActiveSlots
  <1>4. CASE UNCHANGED vars
    BY <1>4 DEF vars, Geometry, Sized, NoOverlap, ActiveSlots
  <1>5. QED
    BY <1>1, <1>2, <1>3, <1>4 DEF Next

(* No open window lies over another, whatever was split and closed before, on a
   screen of any size and with a table of any size. *)
THEOREM WindowsApart == Spec => []NoOverlap
  <1>1. Init => Geometry
    BY InitGeometry
  <1>2. IInv /\ Geometry /\ [Next]_vars => Geometry'
    BY NextGeometry
  <1>3. Spec => []Geometry
    BY <1>1, <1>2, Invariance, PTL DEF Spec
  <1>4. Geometry => NoOverlap
    BY DEF Geometry
  <1>5. QED
    BY <1>3, <1>4, PTL

-----------------------------------------------------------------------------
(* The grid has room for as many windows as there are slots.  It has on the
   firmware's 480 by 320 screen with 8 of them: two rows of four. *)
GridFits ==
  /\ ScreenWidth - margin * 2 >= MinSide * 4 + border * 3
  /\ ScreenHeight - margin * 2 >= MinSide * Rows(MaxWindows) + border * (Rows(MaxWindows) - 1)

OnScreenRect(r) ==
  /\ r.x >= margin /\ Right(r) <= ScreenWidth - margin
  /\ r.y >= margin /\ Bottom(r) <= ScreenHeight - margin

LEMMA WithinOnScreen ==
  ASSUME NEW r \in Rects, NEW s \in Rects, Within(s, r), OnScreenRect(r)
  PROVE  OnScreenRect(s)
  BY LayoutAssumption DEF Rects, Within, OnScreenRect, Right, Bottom, margin

LEMMA RowsGrow ==
  ASSUME NEW n \in Nat \ {0}, n <= MaxWindows
  PROVE  Rows(n) \in Nat \ {0} /\ Rows(n) <= Rows(MaxWindows)
  <1>1. CASE n <= 4
    <2>1. Columns(n) = n
      BY <1>1 DEF Columns, MAX_HORIZONTAL_TERMINALS
    <2>2. Rows(n) = (n + n - 1) \div n
      BY <2>1 DEF Rows
    <2>3. Rows(n) = 1
      <3>1. n \in {1, 2, 3, 4}
        BY <1>1
      <3> QED
        BY <2>2, <3>1
    <2>4. Rows(MaxWindows) >= 1
      <3>1. Columns(MaxWindows) \in 1..4 /\ Columns(MaxWindows) <= MaxWindows
        BY LayoutAssumption DEF Columns, MAX_HORIZONTAL_TERMINALS
      <3> QED
        BY <3>1, LayoutAssumption DEF Rows
    <2> QED
      BY <2>3, <2>4
  <1>2. CASE n > 4
    <2>1. Columns(n) = 4 /\ Columns(MaxWindows) = 4
      BY <1>2, LayoutAssumption DEF Columns, MAX_HORIZONTAL_TERMINALS
    <2> QED
      BY <1>2, <2>1, LayoutAssumption DEF Rows
  <1>3. QED
    BY <1>1, <1>2

(* A side cut in `parts' equal cells with borders between them: the last one
   ends inside it. *)
LEMMA CellsFit ==
  ASSUME NEW side \in Int, NEW parts \in Nat \ {0}, NEW k \in 0..(parts - 1),
         side >= MinSide * parts + border * (parts - 1)
  PROVE  LET cell == (side - border * (parts - 1)) \div parts
         IN  /\ AtLeastMin(cell) = cell
             /\ k * (cell + border) \in Nat
             /\ k * (cell + border) + cell <= side
  <1> DEFINE rest == side - border * (parts - 1)
             cell == rest \div parts
  <1>1. rest \in Int /\ rest >= MinSide * parts
    BY DEF border, MinSide
  <1> HIDE DEF rest
  <1>2. cell \in Int /\ cell * parts <= rest /\ cell >= MinSide
    BY <1>1 DEF MinSide
  <1> HIDE DEF cell
  <1>3. AtLeastMin(cell) = cell
    BY <1>2 DEF AtLeastMin, MinSide
  <1>4. cell + border \in Nat /\ k \in Nat
    BY <1>2 DEF border, MinSide
  <1>5. k * (cell + border) + (cell + border) <= parts * (cell + border)
    BY <1>4, StepsApart
  <1>6. parts * (cell + border) = cell * parts + border * parts
    BY <1>2 DEF border
  <1>7. k * (cell + border) \in Nat
    BY <1>4
  <1>8. rest = side - border * (parts - 1)
    BY DEF rest
  <1>9. k * (cell + border) + cell <= side
    BY <1>2, <1>5, <1>6, <1>7, <1>8 DEF border
  <1>10. QED
    BY <1>3, <1>7, <1>9 DEF cell, rest

LEMMA CellOnScreen ==
  ASSUME GridFits, NEW left \in SUBSET Slot, NEW i \in left
  PROVE  OnScreenRect(Cell(left, i))
  <1> DEFINE n == Cardinality(left)
             c == Columns(n)
             a == Rank(left, i)
  <1>1. n \in Nat \ {0} /\ n <= MaxWindows /\ a \in 0..(n - 1)
    BY RankInRange, LayoutAssumption
  <1>2. c \in 1..4 /\ Rows(n) \in Nat \ {0} /\ Rows(n) <= Rows(MaxWindows)
    BY <1>1, ColumnsType, RowsGrow
  <1>3. CASE n = 1
    BY <1>3, LayoutAssumption DEF Cell, FullScreen, OnScreenRect, Right, Bottom, Rect, margin
  <1>4. CASE n # 1
    <2> DEFINE w == CellWidth(n)
               h == CellHeight(n)
               x == (a % c) * (w + border)
               y == (a \div c) * (h + border)
    <2>1. Cell(left, i) = Rect(margin + x, margin + y, w, h)
      BY <1>4 DEF Cell
    <2>2. a % c \in 0..(c - 1)
      BY <1>1, <1>2
    <2>3. a \div c \in 0..(Rows(n) - 1)
      <3> HIDE DEF a
      <3>1. Rows(n) = (n + c - 1) \div c
        BY DEF Rows
      <3> HIDE DEF n, c
      <3> QED
        BY <1>1, <1>2, <3>1
    <2>4. x \in Nat /\ x + w <= ScreenWidth - margin * 2 /\ w \in Int
      <3>1. ScreenWidth - margin * 2 >= MinSide * c + border * (c - 1)
        BY <1>2, LayoutAssumption DEF GridFits, margin, MinSide, border
      <3>2. ScreenWidth - margin * 2 \in Int
        BY LayoutAssumption DEF margin
      <3>3. w = AtLeastMin((ScreenWidth - margin * 2 - border * (c - 1)) \div c)
        BY DEF CellWidth
      <3>4. (ScreenWidth - margin * 2 - border * (c - 1)) \div c \in Int
        BY <1>2, <3>2 DEF border
      <3> HIDE DEF a, c, w
      <3> QED
        BY <1>2, <2>2, <3>1, <3>2, <3>3, <3>4, CellsFit
    <2>5. y \in Nat /\ y + h <= ScreenHeight - margin * 2 /\ h \in Int
      <3>1. ScreenHeight - margin * 2 >= MinSide * Rows(n) + border * (Rows(n) - 1)
        <4> HIDE DEF n
        <4>1. Rows(MaxWindows) \in Int
          BY RowsGrow, LayoutAssumption
        <4> QED
          BY <1>2, <4>1, LayoutAssumption DEF GridFits, margin, MinSide, border
      <3>2. ScreenHeight - margin * 2 \in Int
        BY LayoutAssumption DEF margin
      <3>3. h = AtLeastMin((ScreenHeight - margin * 2 - border * (Rows(n) - 1)) \div Rows(n))
        BY DEF CellHeight
      <3>4. (ScreenHeight - margin * 2 - border * (Rows(n) - 1)) \div Rows(n) \in Int
        BY <1>2, <3>2 DEF border
      <3> HIDE DEF a, c, n, h
      <3> QED
        BY <1>2, <2>3, <3>1, <3>2, <3>3, <3>4, CellsFit
    <2> HIDE DEF x, y, w, h
    <2> QED
      BY <2>1, <2>4, <2>5, LayoutAssumption DEF OnScreenRect, Right, Bottom, Rect, margin
  <1>5. QED
    BY <1>3, <1>4

LEMMA NextOnScreen ==
  ASSUME GridFits, IInv, Geometry, OnScreen, [Next]_vars
  PROVE  OnScreen'
  <1> SUFFICES ASSUME Arduino, NEW i \in ActiveSlots' PROVE OnScreenRect(geom'[i])
    BY NextGeometry DEF OnScreen, OnScreenRect, Geometry, Sized, Right, Bottom
  <1>1. \A j \in ActiveSlots : OnScreenRect(geom[j]) /\ geom[j] \in Rects
    BY DEF OnScreen, OnScreenRect, IInv, TypeOK, Rects, ActiveSlots
  <1>2. FullScreen \in Rects /\ OnScreenRect(FullScreen)
    BY LayoutAssumption DEF FullScreen, Rects, Rect, OnScreenRect, Right, Bottom, margin
  <1>3. CASE new_terminal
    <2> DEFINE new == Lowest(Slot \ ActiveSlots)
               r == geom[SplitTarget(ActiveSlots \cup {new})]
    <2>1. new \in Slot /\ ~active[new]
      BY <1>3, LowestIn DEF new_terminal, ActiveSlots
    <2>2. NewFirst(new) \/ NewBySplit(new)
      BY <1>3 DEF new_terminal
    <2> HIDE DEF new
    <2>3. CASE NewFirst(new)
      <3>1. i = new \/ i \in ActiveSlots
        BY <2>1, <2>3 DEF ActiveSlots, NewFirst, OpenedAt, IInv, TypeOK
      <3>2. geom'[new] = FullScreen /\ (i # new => geom'[i] = geom[i])
        BY <2>1, <2>3 DEF NewFirst, IInv, TypeOK
      <3> QED
        BY <1>1, <1>2, <3>1, <3>2
    <2>4. CASE NewBySplit(new) /\ Unsplittable(ActiveSlots \cup {new}, r)
      BY <1>1, <2>4 DEF NewBySplit, SplitAborted, ActiveSlots
    <2>5. CASE NewBySplit(new) /\ ~Unsplittable(ActiveSlots \cup {new}, r)
      <3> DEFINE s == selected_terminal
                 open == ActiveSlots \cup {new}
      <3>1. /\ s \in ActiveSlots /\ geom[s] \in Rects /\ ~Unsplittable(open, geom[s])
            /\ ActiveSlots' = ActiveSlots \cup {new}
            /\ geom'[new] = NewHalf(open, geom[s]) /\ geom'[s] = OldHalf(open, geom[s])
            /\ \A j \in Slot \ {new, s} : geom'[j] = geom[j]
        BY <2>1, <2>5, SplitFacts
      <3>2. Within(NewHalf(open, geom[s]), geom[s]) /\ Within(OldHalf(open, geom[s]), geom[s])
        BY <3>1, HalvesWithin DEF Geometry, Sized
      <3>3. OnScreenRect(NewHalf(open, geom[s])) /\ OnScreenRect(OldHalf(open, geom[s]))
        BY <1>1, <3>1, <3>2, WithinOnScreen, HalvesAreRects
      <3>4. i \in {new, s} \/ (i \in ActiveSlots /\ i \in Slot \ {new, s})
        BY <3>1 DEF ActiveSlots
      <3> QED
        BY <1>1, <3>1, <3>3, <3>4
    <2> QED
      BY <2>2, <2>3, <2>4, <2>5
  <1>4. CASE close_terminal
    BY <1>4, CloseFacts, CellOnScreen
  <1>5. ASSUME NEW d \in Directions, terminal_select_direction(d) PROVE OnScreenRect(geom'[i])
    BY <1>1, <1>5 DEF terminal_select_direction, ActiveSlots
  <1>6. CASE UNCHANGED vars
    BY <1>1, <1>6 DEF vars, ActiveSlots
  <1>7. QED
    BY <1>3, <1>4, <1>5, <1>6 DEF Next

(* Where the grid has room for every slot, as on the firmware's screen, every
   open window lies on the screen and is at least 50 by 50. *)
THEOREM WindowsOnScreen == GridFits => (Spec => []OnScreen)
  <1> SUFFICES ASSUME GridFits PROVE Spec => []OnScreen
    OBVIOUS
  <1>1. Init => Geometry /\ OnScreen
    BY InitGeometry DEF Init, OnScreen, ActiveSlots
  <1>2. IInv /\ Geometry /\ OnScreen /\ [Next]_vars => (Geometry /\ OnScreen)'
    BY NextGeometry, NextOnScreen
  <1>3. QED
    BY <1>1, <1>2, Invariance, PTL DEF Spec
=============================================================================
