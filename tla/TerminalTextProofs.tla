------------------------- MODULE TerminalTextProofs -------------------------
(***************************************************************************)
(* Proofs about TerminalText, for terminals of any size, any number of     *)
(* windows and texts of any length: what the line editor suggests fits the *)
(* line, the windows remember the same commands, nano shows where the      *)
(* cursor is and keeps the text.  And about scripts of any length: whatever *)
(* is called, skipped and searched, the lines come in the order their      *)
(* nesting gives.                                                          *)
(***************************************************************************)
EXTENDS TerminalText, WellFoundedInduction, SequenceTheorems, FiniteSetTheorems, TLAPS

(* A nonempty set of naturals has a least element. *)
LEMMA LeastNatural ==
  ASSUME NEW S \in SUBSET Nat, S # {}
  PROVE  \E m \in S : \A k \in S : m <= k
  <1>1. PICK m \in S : \A k \in S : ~(<<k, m>> \in {ij \in Nat \X Nat : ij[1] < ij[2]})
    BY NatLessThanWellFounded, WFMin DEF OpToRel
  <1>2. \A k \in S : ~(k < m)
    BY <1>1
  <1>3. QED
    BY <1>2

-----------------------------------------------------------------------------
(* Sequences: what the operators of SequencesExt that the editors use do to
   length and elements. *)
LEMMA PartOfSeq ==
  ASSUME NEW S, NEW s \in Seq(S), NEW m \in Nat \ {0}, NEW n \in Nat, m <= n + 1, n <= Len(s)
  PROVE  /\ SubSeq(s, m, n) \in Seq(S)
         /\ Len(SubSeq(s, m, n)) = n - m + 1
         /\ \A i \in 1..(n - m + 1) : SubSeq(s, m, n)[i] = s[m + i - 1]
  <1>1. Len(s) \in Nat
    BY LenProperties
  <1>2. m \in Int /\ n \in Int /\ \A i \in m..n : s[i] \in S
    BY <1>1, ElementOfSeq
  <1>3. /\ SubSeq(s, m, n) \in Seq(S)
        /\ Len(SubSeq(s, m, n)) = IF m <= n THEN n - m + 1 ELSE 0
        /\ \A i \in 1..(n - m + 1) : SubSeq(s, m, n)[i] = s[m + i - 1]
    BY <1>2, SubSeqProperties
  <1>4. (IF m <= n THEN n - m + 1 ELSE 0) = n - m + 1
    OBVIOUS
  <1>5. QED
    BY <1>3, <1>4

LEMMA InsertAtProperties ==
  ASSUME NEW S, NEW s \in Seq(S), NEW p \in 0..Len(s), NEW e \in S
  PROVE  InsertAt(s, p + 1, e) \in Seq(S) /\ Len(InsertAt(s, p + 1, e)) = Len(s) + 1
  <1> DEFINE a == SubSeq(s, 1, p)
             b == SubSeq(s, p + 1, Len(s))
  <1>1. Len(s) \in Nat /\ \A i \in 1..Len(s) : s[i] \in S
    BY LenProperties, ElementOfSeq
  <1>2. a \in Seq(S) /\ Len(a) = p
    <2>1. \A i \in 1..p : s[i] \in S
      BY <1>1
    <2> QED
      BY <1>1, <2>1, SubSeqProperties
  <1>3. b \in Seq(S) /\ Len(b) = Len(s) - p
    <2>1. \A i \in (p + 1)..Len(s) : s[i] \in S
      BY <1>1
    <2> QED
      BY <1>1, <2>1, SubSeqProperties
  <1>4. <<e>> \in Seq(S) /\ Len(<<e>>) = 1
    OBVIOUS
  <1>5. InsertAt(s, p + 1, e) = (a \o <<e>>) \o b
    <2>1. (p + 1) - 1 = p
      BY <1>1
    <2> QED
      BY <2>1, Zenon DEF InsertAt
  <1> DEFINE c == a \o <<e>>
  <1> HIDE DEF a, b
  <1>6. c \in Seq(S) /\ Len(c) = p + 1
    BY <1>2, <1>4, ConcatProperties
  <1> HIDE DEF c
  <1>7. c \o b \in Seq(S) /\ Len(c \o b) = Len(c) + Len(b)
    BY <1>3, <1>6, ConcatProperties
  <1>8. InsertAt(s, p + 1, e) = c \o b
    BY <1>5 DEF c
  <1>9. Len(c) + Len(b) = Len(s) + 1
    BY <1>1, <1>3, <1>6
  <1>10. QED
    BY <1>7, <1>8, <1>9

LEMMA RemoveAtProperties ==
  ASSUME NEW S, NEW s \in Seq(S), NEW p \in 1..Len(s)
  PROVE  RemoveAt(s, p) \in Seq(S) /\ Len(RemoveAt(s, p)) = Len(s) - 1
  <1> DEFINE a == SubSeq(s, 1, p - 1)
             b == SubSeq(s, p + 1, Len(s))
  <1>1. Len(s) \in Nat /\ \A i \in 1..Len(s) : s[i] \in S
    BY LenProperties, ElementOfSeq
  <1>2. a \in Seq(S) /\ Len(a) = p - 1
    <2>1. \A i \in 1..(p - 1) : s[i] \in S
      BY <1>1
    <2> QED
      BY <1>1, <2>1, SubSeqProperties
  <1>3. b \in Seq(S) /\ Len(b) = Len(s) - p
    <2>1. \A i \in (p + 1)..Len(s) : s[i] \in S
      BY <1>1
    <2> QED
      BY <1>1, <2>1, SubSeqProperties
  <1>4. RemoveAt(s, p) = a \o b
    BY DEF RemoveAt
  <1> HIDE DEF a, b
  <1>5. QED
    BY <1>1, <1>2, <1>3, <1>4, ConcatProperties

(* A suffix is the same sequence read from the end. *)
LEMMA SuffixFromEnd ==
  ASSUME NEW S, NEW s \in Seq(S), NEW t \in Seq(S)
  PROVE  IsSuffix(s, t) <=> /\ Len(s) <= Len(t)
                            /\ \A k \in 0..(Len(s) - 1) : s[Len(s) - k] = t[Len(t) - k]
  <1> DEFINE r == Reverse(s)
             q == Reverse(t)
  <1>1. Len(s) \in Nat /\ Len(t) \in Nat
    BY LenProperties
  <1>2. /\ r \in Seq(S) /\ Len(r) = Len(s) /\ \A i \in 1..Len(s) : r[i] = s[Len(s) - i + 1]
        /\ q \in Seq(S) /\ Len(q) = Len(t) /\ \A i \in 1..Len(t) : q[i] = t[Len(t) - i + 1]
    <2>1. \A i \in 1..Len(s) : s[Len(s) - i + 1] \in S
      BY <1>1, ElementOfSeq
    <2>2. \A i \in 1..Len(t) : t[Len(t) - i + 1] \in S
      BY <1>1, ElementOfSeq
    <2> QED
      BY <1>1, <2>1, <2>2 DEF Reverse
  <1> HIDE DEF r, q
  <1>3. ASSUME Len(s) <= Len(t)
        PROVE  SubSeq(r, 1, Len(s)) = SubSeq(q, 1, Len(s))
                 <=> \A i \in 1..Len(s) : r[i] = q[i]
    <2> DEFINE a == SubSeq(r, 1, Len(s))
               b == SubSeq(q, 1, Len(s))
    <2>1. \A i \in 1..Len(s) : r[i] \in S /\ q[i] \in S
      BY <1>1, <1>2, <1>3, ElementOfSeq
    <2>2. a \in Seq(S) /\ Len(a) = Len(s) /\ \A i \in 1..Len(s) : a[i] = r[i]
      BY <1>1, <2>1, SubSeqProperties
    <2>3. b \in Seq(S) /\ Len(b) = Len(s) /\ \A i \in 1..Len(s) : b[i] = q[i]
      BY <1>1, <2>1, SubSeqProperties
    <2> HIDE DEF a, b
    <2>4. (\A i \in 1..Len(s) : r[i] = q[i]) => a = b
      BY <2>2, <2>3, SeqEqual
    <2>5. a = b => \A i \in 1..Len(s) : r[i] = q[i]
      BY <2>2, <2>3
    <2> QED
      BY <2>4, <2>5 DEF a, b
  <1>4. ASSUME Len(s) <= Len(t)
        PROVE  (\A i \in 1..Len(s) : r[i] = q[i])
                 <=> \A k \in 0..(Len(s) - 1) : s[Len(s) - k] = t[Len(t) - k]
    <2>1. ASSUME \A i \in 1..Len(s) : r[i] = q[i], NEW k \in 0..(Len(s) - 1)
          PROVE  s[Len(s) - k] = t[Len(t) - k]
      <3>1. k + 1 \in 1..Len(s) /\ k + 1 \in 1..Len(t)
        BY <1>1, <1>4
      <3>2. Len(s) - (k + 1) + 1 = Len(s) - k /\ Len(t) - (k + 1) + 1 = Len(t) - k
        BY <1>1
      <3> QED
        BY <1>2, <2>1, <3>1, <3>2
    <2>2. ASSUME \A k \in 0..(Len(s) - 1) : s[Len(s) - k] = t[Len(t) - k], NEW i \in 1..Len(s)
          PROVE  r[i] = q[i]
      <3>1. i - 1 \in 0..(Len(s) - 1) /\ i \in 1..Len(t)
        BY <1>1, <1>4
      <3>2. Len(s) - (i - 1) = Len(s) - i + 1 /\ Len(t) - (i - 1) = Len(t) - i + 1
        BY <1>1
      <3> QED
        BY <1>2, <2>2, <3>1, <3>2
    <2> QED
      BY <2>1, <2>2
  <1>5. QED
    BY <1>2, <1>3, <1>4 DEF IsSuffix, IsPrefix, r, q

LEMMA SuffixOfConcat ==
  ASSUME NEW S, NEW s \in Seq(S), NEW t \in Seq(S)
  PROVE  IsSuffix(t, s \o t)
  <1>1. Len(s) \in Nat /\ Len(t) \in Nat
    BY LenProperties
  <1>2. /\ s \o t \in Seq(S) /\ Len(s \o t) = Len(s) + Len(t)
        /\ \A i \in 1..(Len(s) + Len(t)) : (s \o t)[i] = IF i <= Len(s) THEN s[i] ELSE t[i - Len(s)]
    BY ConcatProperties
  <1>3. ASSUME NEW k \in 0..(Len(t) - 1)
        PROVE  t[Len(t) - k] = (s \o t)[Len(s \o t) - k]
    <2>1. Len(s) + Len(t) - k \in 1..(Len(s) + Len(t)) /\ ~(Len(s) + Len(t) - k <= Len(s))
      BY <1>1
    <2>2. Len(s) + Len(t) - k - Len(s) = Len(t) - k
      BY <1>1
    <2> QED
      BY <1>2, <2>1, <2>2
  <1> DEFINE u == s \o t
  <1> HIDE DEF u
  <1>4. u \in Seq(S) /\ Len(t) <= Len(u)
    BY <1>1, <1>2 DEF u
  <1>5. \A k \in 0..(Len(t) - 1) : t[Len(t) - k] = u[Len(u) - k]
    BY <1>3 DEF u
  <1>6. IsSuffix(t, u)
    BY <1>4, <1>5, SuffixFromEnd
  <1>7. QED
    BY <1>6 DEF u

-----------------------------------------------------------------------------
(* The windows of the line editor. *)
FullLines == Lines \ {<<>>}

LEMMA LinesAreSeqs == \A s : s \in Lines <=> s \in Seq(Chars) /\ Len(s) < Cols
  <1> TAKE s
  <1>1. ASSUME s \in Lines PROVE s \in Seq(Chars) /\ Len(s) < Cols
    <2>1. PICK n \in 0..(Cols - 1) : s \in [1..n -> Chars]
      BY <1>1 DEF Lines
    <2>2. n \in Nat /\ n < Cols
      BY LineAssumption
    <2>3. s \in Seq(Chars) /\ Len(s) = n
      BY <2>1, <2>2
    <2> QED
      BY <2>2, <2>3
  <1>2. ASSUME s \in Seq(Chars), Len(s) < Cols PROVE s \in Lines
    <2>1. Len(s) \in 0..(Cols - 1) /\ s \in [1..Len(s) -> Chars]
      BY <1>2, LenProperties, LineAssumption
    <2> QED
      BY <2>1 DEF Lines
  <1>3. QED
    BY <1>1, <1>2

WindowRecords ==
  [active : BOOLEAN, line : Seq(Chars), pos : Nat, history : Seq(FullLines), history_pos : Nat,
   suffix : Seq(Chars), base_len : Nat, applied : BOOLEAN]

(* A window apart from what it suggests, and what it suggests. *)
WindowBase(t) ==
  /\ t \in WindowRecords
  /\ Len(t.line) < Cols /\ t.pos <= Len(t.line)
  /\ Len(t.history) <= MaxHistory /\ t.history_pos <= Len(t.history)

Suggests(t) ==
  /\ t.base_len < Cols /\ Len(t.suffix) < Cols
  /\ t.suffix # <<>> =>
       IF t.applied THEN /\ t.pos = Len(t.line)
                         /\ Len(t.line) = t.base_len + Len(t.suffix)
                         /\ IsSuffix(t.suffix, t.line)
       ELSE Len(t.line) = t.base_len /\ Len(t.line) + Len(t.suffix) < Cols

WindowOK(t) == WindowBase(t) /\ Suggests(t)

(* Looking a suggestion up again sets it right, whatever was there before. *)
LEMMA AutocompleteOK ==
  ASSUME NEW t, WindowBase(t)
  PROVE  WindowOK(terminal_update_autocomplete(t))
  <1> DEFINE fitting == {i \in DOMAIN t.history : t.line # <<>> /\ Fits(t.line, t.history[i])}
             last == CHOOSE i \in fitting : \A j \in fitting : j <= i
             cmd == t.history[last]
             suffix == IF fitting = {} THEN <<>> ELSE SubSeq(cmd, Len(t.line) + 1, Len(cmd))
             u == terminal_update_autocomplete(t)
  <1>1. /\ t \in WindowRecords /\ t.line \in Seq(Chars) /\ Len(t.line) \in Nat /\ Len(t.line) < Cols
        /\ t.history \in Seq(FullLines) /\ Len(t.history) \in Nat /\ DOMAIN t.history = 1..Len(t.history)
    BY LenProperties DEF WindowBase, WindowRecords
  <1>2. u = [t EXCEPT !.base_len = Len(t.line), !.applied = FALSE, !.suffix = suffix]
    BY DEF terminal_update_autocomplete
  <1>3. ASSUME fitting # {}
        PROVE  /\ cmd \in Seq(Chars) /\ Len(cmd) \in Nat /\ Len(cmd) < Cols /\ Len(cmd) > Len(t.line)
    <2> DEFINE G == {Len(t.history) - i : i \in fitting}
    <2>1. G \in SUBSET Nat /\ G # {}
      BY <1>1, <1>3
    <2>2. PICK g \in G : \A k \in G : g <= k
      BY <2>1, LeastNatural
    <2>3. PICK i \in fitting : g = Len(t.history) - i
      BY <2>2
    <2>4. \A j \in fitting : j <= i
      <3> SUFFICES ASSUME NEW j \in fitting PROVE j <= i
        OBVIOUS
      <3>1. Len(t.history) - i <= Len(t.history) - j
        BY <2>2, <2>3
      <3>2. i \in Nat /\ j \in Nat
        BY <1>1
      <3> QED
        BY <1>1, <3>1, <3>2
    <2>5. last \in fitting
      BY <2>4
    <2>6. cmd \in FullLines /\ Len(cmd) > Len(t.line)
      BY <1>1, <2>5, ElementOfSeq DEF Fits
    <2> QED
      BY <2>6, LinesAreSeqs, LenProperties DEF FullLines
  <1> HIDE DEF cmd
  <1>4. suffix \in Seq(Chars) /\ (suffix # <<>> => Len(t.line) + Len(suffix) < Cols)
    <2>1. CASE fitting = {}
      BY <2>1, EmptySeq
    <2>2. CASE fitting # {}
      <3>1. \A i \in (Len(t.line) + 1)..Len(cmd) : cmd[i] \in Chars
        BY <1>1, <1>3, <2>2, ElementOfSeq
      <3>2. suffix = SubSeq(cmd, Len(t.line) + 1, Len(cmd))
        BY <2>2
      <3> DEFINE from == Len(t.line) + 1
      <3>3. from \in Nat /\ Len(cmd) \in Nat /\ from <= Len(cmd) /\ Len(cmd) < Cols /\ from = Len(t.line) + 1
        BY <1>1, <1>3, <2>2
      <3> HIDE DEF fitting, suffix
      <3>4. from \in Nat \ {0} /\ from <= Len(cmd) + 1 /\ Len(cmd) <= Len(cmd) /\ cmd \in Seq(Chars)
        BY <1>1, <1>3, <2>2, <3>3
      <3>5. SubSeq(cmd, from, Len(cmd)) \in Seq(Chars) /\ Len(SubSeq(cmd, from, Len(cmd))) = Len(cmd) - from + 1
        BY <3>3, <3>4, PartOfSeq, ZenonT(40)
      <3>6. Len(t.line) + (Len(cmd) - from + 1) < Cols
        BY <1>1, <3>3, LineAssumption
      <3>7. suffix = SubSeq(cmd, from, Len(cmd))
        BY <3>2 DEF from
      <3> QED
        BY <3>5, <3>6, <3>7
    <2> QED
      BY <2>1, <2>2
  <1> HIDE DEF suffix, u
  <1>5. u \in WindowRecords
    BY <1>1, <1>2, <1>4 DEF WindowRecords
  <1>6. /\ u.line = t.line /\ u.pos = t.pos /\ u.history = t.history /\ u.history_pos = t.history_pos
        /\ u.base_len = Len(t.line) /\ u.applied = FALSE /\ u.suffix = suffix
    BY <1>1, <1>2 DEF WindowRecords
  <1>7. WindowBase(u)
    BY <1>5, <1>6 DEF WindowBase
  <1>8. Len(suffix) < Cols
    BY <1>1, <1>4, LenProperties, LineAssumption
  <1>9. Suggests(u)
    BY <1>1, <1>4, <1>6, <1>8 DEF Suggests
  <1>10. QED
    BY <1>7, <1>9 DEF WindowOK, u

(* A command that is remembered changes no suggestion. *)
LEMMA PushOK ==
  ASSUME NEW t, WindowOK(t), NEW line \in Lines
  PROVE  WindowOK(terminal_history_push(t, line))
  <1> DEFINE kept == IF Len(t.history) < MaxHistory THEN t.history ELSE Tail(t.history)
             u == [t EXCEPT !.history = Append(kept, line), !.history_pos = Len(kept) + 1]
  <1>1. CASE line = <<>>
    BY <1>1 DEF terminal_history_push
  <1>2. CASE line # <<>>
    <2>1. /\ t \in WindowRecords /\ t.history \in Seq(FullLines) /\ Len(t.history) \in Nat
          /\ Len(t.history) <= MaxHistory /\ line \in FullLines
      BY <1>2, LenProperties DEF WindowOK, WindowBase, WindowRecords, FullLines
    <2>2. kept \in Seq(FullLines) /\ Len(kept) \in Nat /\ Len(kept) < MaxHistory
      <3>1. CASE Len(t.history) < MaxHistory
        BY <2>1, <3>1
      <3>2. CASE ~(Len(t.history) < MaxHistory)
        <4>1. t.history # <<>> /\ Len(t.history) = MaxHistory
          BY <2>1, <3>2, EmptySeq, LineAssumption
        <4> QED
          BY <2>1, <3>2, <4>1, HeadTailProperties, LineAssumption
      <3> QED
        BY <3>1, <3>2
    <2> HIDE DEF kept
    <2>3. Append(kept, line) \in Seq(FullLines) /\ Len(Append(kept, line)) = Len(kept) + 1
      BY <2>1, <2>2, AppendProperties
    <2>4. u \in WindowRecords
      <3> DEFINE h == Append(kept, line)
                 p == Len(kept) + 1
      <3>1. h \in Seq(FullLines) /\ p \in Nat
        BY <2>2, <2>3
      <3> HIDE DEF h, p
      <3>2. [t EXCEPT !.history = h, !.history_pos = p] \in WindowRecords
        BY <2>1, <3>1 DEF WindowRecords
      <3> QED
        BY <3>2 DEF h, p
    <2>5. /\ u.line = t.line /\ u.pos = t.pos /\ u.base_len = t.base_len /\ u.applied = t.applied
          /\ u.suffix = t.suffix /\ u.history = Append(kept, line) /\ u.history_pos = Len(kept) + 1
      BY <2>1 DEF WindowRecords
    <2> HIDE DEF u
    <2>6. Len(u.history) <= MaxHistory /\ u.history_pos <= Len(u.history)
      BY <2>2, <2>3, <2>5, LineAssumption
    <2>7. WindowOK(u)
      BY <2>4, <2>5, <2>6 DEF WindowOK, WindowBase, Suggests
    <2> QED
      BY <1>2, <2>7 DEF terminal_history_push, u, kept
  <1>3. QED
    BY <1>1, <1>2

LEMMA EnteredOK ==
  ASSUME NEW t, WindowOK(t)
  PROVE  WindowOK(LineEntered(t))
  <1> DEFINE u == LineEntered(t)
  <1>1. <<>> \in Seq(Chars) /\ Len(<<>>) = 0
    BY EmptySeq
  <1>2. /\ u \in WindowRecords
        /\ u.line = <<>> /\ u.pos = 0 /\ u.suffix = <<>> /\ u.base_len = 0
        /\ u.history = t.history /\ u.history_pos = t.history_pos
    BY <1>1 DEF LineEntered, WindowOK, WindowBase, WindowRecords
  <1> HIDE DEF u
  <1>3. WindowOK(u)
    BY <1>1, <1>2, LineAssumption DEF WindowOK, WindowBase, Suggests
  <1>4. QED
    BY <1>3 DEF u

LEMMA ClosedOK == WindowOK(ClosedWindow)
  <1>1. <<>> \in Seq(Chars) /\ <<>> \in Seq(FullLines) /\ Len(<<>>) = 0
    BY EmptySeq
  <1>2. QED
    BY <1>1, LineAssumption DEF ClosedWindow, WindowOK, WindowBase, Suggests, WindowRecords

(* The last lines of a file fill the ring. *)
LEMMA LastLinesProperties ==
  ASSUME NEW S, NEW lines \in Seq(S)
  PROVE  /\ LastLines(lines) \in Seq(S) /\ Len(LastLines(lines)) <= MaxHistory
         /\ Len(LastLines(lines)) <= Len(lines)
         /\ \A k \in 0..(Len(LastLines(lines)) - 1) :
              LastLines(lines)[Len(LastLines(lines)) - k] = lines[Len(lines) - k]
  <1> DEFINE from == IF Len(lines) < MaxHistory THEN 1 ELSE Len(lines) - MaxHistory + 1
             s == SubSeq(lines, from, Len(lines))
             n == Len(lines) - from + 1
  <1>1. Len(lines) \in Nat /\ MaxHistory \in Nat \ {0}
    BY LenProperties, LineAssumption
  <1>2. from \in Nat \ {0} /\ n \in Nat /\ n <= MaxHistory /\ n <= Len(lines)
    BY <1>1
  <1> HIDE DEF from
  <1>3. \A i \in from..Len(lines) : lines[i] \in S
    BY <1>1, <1>2, ElementOfSeq
  <1>4. s \in Seq(S) /\ Len(s) = n /\ \A i \in 1..n : s[i] = lines[from + i - 1]
    <2>1. Len(s) = IF from <= Len(lines) THEN n ELSE 0
      BY <1>1, <1>2, <1>3, SubSeqProperties
    <2> QED
      BY <1>1, <1>2, <1>3, <2>1, SubSeqProperties
  <1> HIDE DEF s
  <1>5. ASSUME NEW k \in 0..(n - 1) PROVE s[n - k] = lines[Len(lines) - k]
    <2>1. n - k \in 1..n /\ from + (n - k) - 1 = Len(lines) - k
      BY <1>1, <1>2
    <2> QED
      BY <1>4, <2>1
  <1>6. LastLines(lines) = s
    BY DEF LastLines, s, from
  <1>7. QED
    BY <1>2, <1>4, <1>5, <1>6

LEMMA NewWindowOK ==
  ASSUME NEW saved \in Seq(FullLines) \cup {NULL}
  PROVE  /\ WindowOK(NewWindow(saved)) /\ NewWindow(saved).active = TRUE
         /\ NewWindow(saved).history = IF saved = NULL THEN <<>> ELSE LastLines(saved)
  <1> DEFINE t == [ClosedWindow EXCEPT !.active = TRUE]
  <1>1. <<>> \in Seq(Chars) /\ <<>> \in Seq(FullLines) /\ Len(<<>>) = 0
    BY EmptySeq
  <1>2. /\ t \in WindowRecords /\ t.active = TRUE /\ t.line = <<>> /\ t.pos = 0 /\ t.history = <<>>
        /\ t.history_pos = 0 /\ t.suffix = <<>> /\ t.base_len = 0 /\ t.applied = FALSE
    BY <1>1 DEF ClosedWindow, WindowRecords
  <1>3. NewWindow(saved) = terminal_history_load(t, saved)
    BY DEF NewWindow
  <1> HIDE DEF t
  <1>4. CASE saved = NULL
    <2>1. WindowOK(t)
      BY <1>1, <1>2, LineAssumption DEF WindowOK, WindowBase, Suggests
    <2> QED
      BY <1>2, <1>3, <1>4, <2>1 DEF terminal_history_load
  <1>5. CASE saved # NULL
    <2> DEFINE h == LastLines(saved)
               p == Len(h)
               u == [t EXCEPT !.history = h, !.history_pos = p]
    <2>1. h \in Seq(FullLines) /\ p \in Nat /\ Len(h) <= MaxHistory /\ p = Len(h)
      BY <1>5, LastLinesProperties, LenProperties
    <2>2. NewWindow(saved) = u
      BY <1>3, <1>5 DEF terminal_history_load
    <2> HIDE DEF h, p
    <2>3. u \in WindowRecords
      BY <1>2, <2>1 DEF WindowRecords
    <2>4. /\ u.active = TRUE /\ u.line = <<>> /\ u.pos = 0 /\ u.history = h /\ u.history_pos = p
          /\ u.suffix = <<>> /\ u.base_len = 0
      BY <1>2 DEF WindowRecords
    <2> HIDE DEF u
    <2>5. WindowOK(u)
      BY <1>1, <2>1, <2>3, <2>4, LineAssumption DEF WindowOK, WindowBase, Suggests
    <2> QED
      BY <1>5, <2>2, <2>4, <2>5 DEF h
  <1>6. QED
    BY <1>4, <1>5

LEMMA ForgetOK ==
  ASSUME NEW t, WindowOK(t)
  PROVE  WindowOK([t EXCEPT !.history = <<>>, !.history_pos = 0])
  <1> DEFINE u == [t EXCEPT !.history = <<>>, !.history_pos = 0]
  <1>1. <<>> \in Seq(FullLines) /\ Len(<<>>) = 0
    BY EmptySeq
  <1>2. /\ u \in WindowRecords /\ u.line = t.line /\ u.pos = t.pos /\ u.history = <<>> /\ u.history_pos = 0
        /\ u.suffix = t.suffix /\ u.base_len = t.base_len /\ u.applied = t.applied
    BY <1>1 DEF WindowOK, WindowBase, WindowRecords
  <1> HIDE DEF u
  <1>3. WindowBase(u)
    BY <1>1, <1>2, LineAssumption DEF WindowOK, WindowBase
  <1>4. Suggests(u)
    BY <1>2 DEF WindowOK, Suggests
  <1>5. QED
    BY <1>3, <1>4 DEF WindowOK, u

(* The inductive invariant of the editor. *)
LineIInv ==
  /\ term \in [Windows -> WindowRecords]
  /\ \A w \in Windows : WindowOK(term[w])
  /\ active_terminal \in Windows
  /\ passwd \in {NULL, Account} /\ history_path \in Names
  /\ histfile \in [Names -> Seq(FullLines) \cup {NULL}]
  /\ torn \in [Names -> BOOLEAN] /\ missed \in BOOLEAN

LEMMA WindowsAreNaturals == Windows \in SUBSET Nat /\ 0 \in Windows
  BY LineAssumption

LEMMA LeastWindow ==
  ASSUME NEW S \in SUBSET Windows, S # {}
  PROVE  (CHOOSE w \in S : \A v \in S : w <= v) \in S
  <1>1. \E w \in S : \A v \in S : w <= v
    BY WindowsAreNaturals, LeastNatural
  <1>2. QED
    BY <1>1

LEMMA TypingOK ==
  ASSUME LineIInv, NEW t, WindowBase(t), NEW line \in Lines, NEW pos \in Nat, pos <= Len(line)
  PROVE  WindowOK(terminal_update_autocomplete([t EXCEPT !.line = line, !.pos = pos]))
  <1> DEFINE u == [t EXCEPT !.line = line, !.pos = pos]
  <1>1. line \in Seq(Chars) /\ Len(line) < Cols
    BY LinesAreSeqs
  <1>2. /\ u \in WindowRecords /\ u.line = line /\ u.pos = pos
        /\ u.history = t.history /\ u.history_pos = t.history_pos
    BY <1>1 DEF WindowBase, WindowRecords
  <1> HIDE DEF u
  <1>3. WindowBase(u)
    BY <1>1, <1>2 DEF WindowBase
  <1>4. WindowOK(terminal_update_autocomplete(u))
    BY <1>3, AutocompleteOK
  <1>5. QED
    BY <1>4 DEF u

LEMMA EditOK ==
  ASSUME LineIInv, NEW t, WindowOK(t), Edit(t)
  PROVE  LineIInv'
  <1>1. term' \in [Windows -> WindowRecords]
    BY DEF LineIInv, Edit, WindowOK, WindowBase
  <1>2. \A w \in Windows : term'[w] = IF w = active_terminal THEN t ELSE term[w]
    BY DEF LineIInv, Edit
  <1>3. \A w \in Windows : WindowOK(term'[w])
    BY <1>2 DEF LineIInv
  <1>4. QED
    BY <1>1, <1>3 DEF LineIInv, Edit, WindowOK, WindowBase, Suggests, fileVars

LEMMA ActiveWindow ==
  ASSUME LineIInv
  PROVE  LET t == term[active_terminal]
         IN  /\ WindowOK(t) /\ t \in WindowRecords /\ t.line \in Seq(Chars) /\ Len(t.line) \in Nat
             /\ Len(t.line) < Cols /\ t.line \in Lines /\ t.pos \in Nat /\ t.pos <= Len(t.line)
             /\ t.suffix \in Seq(Chars) /\ Len(t.suffix) \in Nat /\ t.base_len \in Nat
             /\ t.history \in Seq(FullLines) /\ Len(t.history) \in Nat /\ t.history_pos \in Nat
             /\ t.applied \in BOOLEAN
  <1> DEFINE t == term[active_terminal]
  <1>1. WindowOK(t) /\ t \in WindowRecords
    BY DEF LineIInv
  <1> HIDE DEF t
  <1>2. /\ t.line \in Seq(Chars) /\ t.pos \in Nat /\ t.suffix \in Seq(Chars) /\ t.base_len \in Nat
        /\ t.history \in Seq(FullLines) /\ t.history_pos \in Nat /\ t.applied \in BOOLEAN
    BY <1>1 DEF WindowRecords
  <1>3. Len(t.line) \in Nat /\ Len(t.suffix) \in Nat /\ Len(t.history) \in Nat
    BY <1>2, LenProperties
  <1>4. Len(t.line) < Cols /\ t.pos <= Len(t.line)
    BY <1>1 DEF WindowOK, WindowBase
  <1>5. QED
    BY <1>1, <1>2, <1>3, <1>4, LinesAreSeqs DEF t

LEMMA KeyOK ==
  ASSUME LineIInv, NEW c \in Chars, terminal_handle_key(c)
  PROVE  LineIInv'
  <1> DEFINE t == term[active_terminal]
             line == InsertAt(t.line, t.pos + 1, c)
  <1>1. /\ WindowOK(t) /\ t.line \in Seq(Chars) /\ Len(t.line) \in Nat
        /\ t.pos \in Nat /\ t.pos <= Len(t.line) /\ t \in WindowRecords
    BY ActiveWindow
  <1>2. Len(t.line) < Cols - 1
    BY DEF terminal_handle_key
  <1>3. line \in Seq(Chars) /\ Len(line) = Len(t.line) + 1
    <2>1. t.pos \in 0..Len(t.line)
      BY <1>1
    <2> HIDE DEF t
    <2> QED
      BY <1>1, <2>1, InsertAtProperties
  <1>4. line \in Lines /\ t.pos + 1 \in Nat /\ t.pos + 1 <= Len(line)
    <2> HIDE DEF t, line
    <2> QED
      BY <1>1, <1>2, <1>3, LinesAreSeqs, LineAssumption, SMTT(40)
  <1>5. Edit(terminal_update_autocomplete([t EXCEPT !.line = line, !.pos = t.pos + 1]))
    BY DEF terminal_handle_key
  <1> HIDE DEF t, line
  <1>6. WindowOK(terminal_update_autocomplete([t EXCEPT !.line = line, !.pos = t.pos + 1]))
    BY <1>1, <1>4, TypingOK DEF WindowOK
  <1>7. QED
    BY <1>5, <1>6, EditOK

LEMMA BackspaceOK ==
  ASSUME LineIInv, terminal_handle_backspace
  PROVE  LineIInv'
  <1> DEFINE t == term[active_terminal]
             line == RemoveAt(t.line, t.pos)
  <1>1. /\ WindowOK(t) /\ t.line \in Seq(Chars) /\ Len(t.line) \in Nat /\ Len(t.line) < Cols
        /\ t.pos \in Nat /\ t.pos <= Len(t.line)
    BY ActiveWindow
  <1>2. t.pos > 0
    BY DEF terminal_handle_backspace
  <1>3. line \in Seq(Chars) /\ Len(line) = Len(t.line) - 1
    BY <1>1, <1>2, RemoveAtProperties
  <1>4. line \in Lines /\ t.pos - 1 \in Nat /\ t.pos - 1 <= Len(line)
    <2> HIDE DEF t, line
    <2> QED
      BY <1>1, <1>2, <1>3, LinesAreSeqs, LineAssumption, SMTT(40)
  <1>5. Edit(terminal_update_autocomplete([t EXCEPT !.line = line, !.pos = t.pos - 1]))
    BY DEF terminal_handle_backspace
  <1> HIDE DEF t, line
  <1>6. WindowOK(terminal_update_autocomplete([t EXCEPT !.line = line, !.pos = t.pos - 1]))
    BY <1>1, <1>4, TypingOK DEF WindowOK
  <1>7. QED
    BY <1>5, <1>6, EditOK

LEMMA RecalledOK ==
  ASSUME LineIInv, NEW i \in Nat, i <= Len(term[active_terminal].history),
         Edit(Recalled(term[active_terminal], i))
  PROVE  LineIInv'
  <1> DEFINE t == term[active_terminal]
             line == IF i < Len(t.history) THEN t.history[i + 1] ELSE <<>>
             u == [t EXCEPT !.history_pos = i, !.line = line, !.pos = Len(line)]
  <1>1. WindowOK(t) /\ t \in WindowRecords /\ t.history \in Seq(FullLines) /\ Len(t.history) \in Nat
    BY ActiveWindow
  <1>2. line \in Lines
    <2>1. CASE i < Len(t.history)
      <3>1. i + 1 \in 1..Len(t.history)
        BY <1>1, <2>1
      <3> QED
        BY <1>1, <2>1, <3>1, ElementOfSeq DEF FullLines
    <2>2. CASE ~(i < Len(t.history))
      <3>1. <<>> \in Seq(Chars) /\ Len(<<>>) < Cols
        BY EmptySeq, LineAssumption
      <3> QED
        BY <2>2, <3>1, LinesAreSeqs
    <2> QED
      BY <2>1, <2>2
  <1>3. Recalled(t, i) = terminal_update_autocomplete(u)
    BY DEF Recalled
  <1> HIDE DEF line
  <1>4. line \in Seq(Chars) /\ Len(line) \in Nat /\ Len(line) < Cols
    BY <1>2, LinesAreSeqs, LenProperties
  <1>5. i <= Len(t.history)
    OBVIOUS
  <1>6. Len(t.history) <= MaxHistory
    BY <1>1 DEF WindowOK, WindowBase
  <1>7. Edit(Recalled(t, i))
    OBVIOUS
  <1> HIDE DEF t
  <1>8. /\ u \in WindowRecords /\ u.line = line /\ u.pos = Len(line)
        /\ u.history = t.history /\ u.history_pos = i
    BY <1>1, <1>4 DEF WindowRecords
  <1> HIDE DEF u
  <1>9. WindowBase(u)
    BY <1>4, <1>5, <1>6, <1>8 DEF WindowBase
  <1>10. WindowOK(Recalled(t, i))
    BY <1>3, <1>9, AutocompleteOK
  <1>11. QED
    BY <1>7, <1>10, EditOK

LEMMA ArrowUpDownOK == LineIInv /\ (terminal_handle_arrow_up \/ terminal_handle_arrow_down) => LineIInv'
  <1> SUFFICES ASSUME LineIInv, terminal_handle_arrow_up \/ terminal_handle_arrow_down PROVE LineIInv'
    OBVIOUS
  <1> DEFINE t == term[active_terminal]
  <1>1. t.history_pos \in Nat /\ Len(t.history) \in Nat /\ t.history_pos <= Len(t.history)
    BY ActiveWindow DEF WindowOK, WindowBase
  <1>2. CASE terminal_handle_arrow_up
    <2>1. t.history_pos > 0 /\ Edit(Recalled(t, t.history_pos - 1))
      BY <1>2 DEF terminal_handle_arrow_up
    <2>2. t.history_pos - 1 \in Nat /\ t.history_pos - 1 <= Len(t.history)
      BY <1>1, <2>1
    <2> QED
      BY <2>1, <2>2, RecalledOK
  <1>3. CASE terminal_handle_arrow_down
    <2>1. t.history_pos < Len(t.history) /\ Edit(Recalled(t, t.history_pos + 1))
      BY <1>3 DEF terminal_handle_arrow_down
    <2>2. t.history_pos + 1 \in Nat /\ t.history_pos + 1 <= Len(t.history)
      BY <1>1, <2>1
    <2> QED
      BY <2>1, <2>2, RecalledOK
  <1>4. QED
    BY <1>2, <1>3

(* Left takes back what Right accepted, or goes left over nothing accepted. *)
LEMMA ArrowLeftOK == LineIInv /\ terminal_handle_arrow_left => LineIInv'
  <1> SUFFICES ASSUME LineIInv, terminal_handle_arrow_left PROVE LineIInv'
    OBVIOUS
  <1> DEFINE t == term[active_terminal]
             takesBack == t.applied /\ t.pos = Len(t.line) /\ Len(t.line) = t.base_len + Len(t.suffix)
             back == [t EXCEPT !.line = SubSeq(@, 1, t.base_len), !.pos = t.base_len]
             left == [t EXCEPT !.pos = @ - 1]
  <1>1. /\ WindowOK(t) /\ t \in WindowRecords /\ t.line \in Seq(Chars) /\ Len(t.line) \in Nat
        /\ Len(t.line) < Cols /\ t.pos \in Nat /\ t.pos <= Len(t.line)
        /\ t.suffix \in Seq(Chars) /\ Len(t.suffix) \in Nat /\ t.base_len \in Nat
    BY ActiveWindow
  <1>2. \/ takesBack /\ Edit(terminal_update_autocomplete(back))
        \/ ~takesBack /\ t.pos > 0 /\ Edit(left)
    BY DEF terminal_handle_arrow_left
  <1> HIDE DEF t
  <1>3. CASE takesBack /\ Edit(terminal_update_autocomplete(back))
    <2> DEFINE line == SubSeq(t.line, 1, t.base_len)
    <2>1. t.base_len <= Len(t.line) /\ 1 <= t.base_len + 1
      BY <1>1, <1>3
    <2>2. line \in Seq(Chars) /\ Len(line) = t.base_len
      BY <1>1, <2>1, PartOfSeq
    <2>3. line \in Lines /\ t.base_len <= Len(line)
      <3> HIDE DEF line
      <3>1. Len(line) < Cols
        BY <1>1, <2>1, <2>2, LineAssumption
      <3> QED
        BY <1>1, <2>2, <3>1, LinesAreSeqs
    <2>4. Edit(terminal_update_autocomplete([t EXCEPT !.line = line, !.pos = t.base_len]))
      BY <1>3
    <2> HIDE DEF line
    <2>5. WindowOK(terminal_update_autocomplete([t EXCEPT !.line = line, !.pos = t.base_len]))
      BY <1>1, <2>3, TypingOK DEF WindowOK
    <2> QED
      BY <2>4, <2>5, EditOK
  <1>4. CASE ~takesBack /\ t.pos > 0 /\ Edit(left)
    <2>1. /\ left \in WindowRecords /\ left.pos = t.pos - 1 /\ left.line = t.line
          /\ left.history = t.history /\ left.history_pos = t.history_pos
          /\ left.suffix = t.suffix /\ left.base_len = t.base_len /\ left.applied = t.applied
      <3> HIDE DEF takesBack
      <3>1. t.pos - 1 \in Nat
        BY <1>1, <1>4
      <3> QED
        BY <1>1, <3>1 DEF WindowRecords
    <2> HIDE DEF left
    <2>2. WindowBase(left)
      BY <1>1, <2>1 DEF WindowOK, WindowBase
    <2>3. Suggests(left)
      BY <1>1, <1>4, <2>1 DEF WindowOK, Suggests
    <2>4. Edit(left)
      BY <1>4
    <2> QED
      BY <2>2, <2>3, <2>4, EditOK DEF WindowOK
  <1>5. QED
    BY <1>2, <1>3, <1>4

(* Right accepts the whole suggestion: one that does not fit was never made. *)
LEMMA ArrowRightOK == LineIInv /\ terminal_handle_arrow_right => LineIInv'
  <1> SUFFICES ASSUME LineIInv, terminal_handle_arrow_right PROVE LineIInv'
    OBVIOUS
  <1> DEFINE t == term[active_terminal]
             room == Cols - 1 - Len(t.line)
             added == SubSeq(t.suffix, 1, IF Len(t.suffix) > room THEN room ELSE Len(t.suffix))
             accepts == t.pos = Len(t.line) /\ ~t.applied /\ added # <<>>
             more == [t EXCEPT !.line = @ \o added, !.pos = Len(t.line \o added),
                               !.suffix = added, !.applied = TRUE]
             right == [t EXCEPT !.pos = @ + 1]
  <1>1. /\ WindowOK(t) /\ t \in WindowRecords /\ t.line \in Seq(Chars) /\ Len(t.line) \in Nat
        /\ Len(t.line) < Cols /\ t.pos \in Nat /\ t.pos <= Len(t.line)
        /\ t.suffix \in Seq(Chars) /\ Len(t.suffix) \in Nat /\ t.base_len \in Nat /\ t.applied \in BOOLEAN
    BY ActiveWindow
  <1>2. \/ accepts /\ Edit(more)
        \/ ~accepts /\ t.pos < Len(t.line) /\ Edit(right)
    BY DEF terminal_handle_arrow_right
  <1> HIDE DEF t
  <1>3. CASE accepts /\ Edit(more)
    <2>1. t.suffix # <<>>
      <3>1. CASE t.suffix = <<>>
        <4>1. Len(t.suffix) = 0 /\ room >= 0
          BY <1>1, <3>1, EmptySeq, LineAssumption
        <4>2. added = SubSeq(t.suffix, 1, 0)
          <5>1. room \in Int
            BY <1>1, LineAssumption
          <5> HIDE DEF room
          <5>2. ~(Len(t.suffix) > room)
            BY <4>1, <5>1
          <5> QED
            BY <4>1, <5>2
        <4>3. SubSeq(t.suffix, 1, 0) = <<>>
          <5>1. 1 \in Int /\ 0 \in Int /\ 0 < 1
            OBVIOUS
          <5> QED
            BY <5>1, SubSeqEmpty
        <4> QED
          BY <1>3, <4>2, <4>3
      <3> QED
        BY <3>1
    <2>2. Len(t.line) = t.base_len /\ Len(t.line) + Len(t.suffix) < Cols /\ t.base_len < Cols
      BY <1>1, <1>3, <2>1 DEF WindowOK, Suggests
    <2>3. added = t.suffix
      <3>1. ~(Len(t.suffix) > room)
        BY <1>1, <2>2, LineAssumption
      <3>2. added = SubSeq(t.suffix, 1, Len(t.suffix))
        BY <3>1
      <3> QED
        BY <1>1, <3>2, SubSeqFull
    <2> DEFINE line == t.line \o t.suffix
    <2>4. line \in Seq(Chars) /\ Len(line) = Len(t.line) + Len(t.suffix)
      BY <1>1, ConcatProperties
    <2>5. IsSuffix(t.suffix, line)
      BY <1>1, SuffixOfConcat
    <2>6. more = [t EXCEPT !.line = line, !.pos = Len(line), !.suffix = t.suffix, !.applied = TRUE]
      BY <2>3
    <2> HIDE DEF line
    <2>7. Len(line) \in Nat
      BY <2>4, LenProperties
    <2>8. /\ more \in WindowRecords /\ more.line = line /\ more.pos = Len(line) /\ more.suffix = t.suffix
          /\ more.applied = TRUE /\ more.base_len = t.base_len
          /\ more.history = t.history /\ more.history_pos = t.history_pos
      <3> HIDE DEF more
      <3> QED
        BY <1>1, <2>4, <2>6, <2>7 DEF WindowRecords
    <2>9. Edit(more)
      BY <1>3
    <2> HIDE DEF more
    <2>10. WindowBase(more)
      BY <1>1, <2>2, <2>4, <2>7, <2>8 DEF WindowOK, WindowBase
    <2>11. Suggests(more)
      BY <1>1, <2>2, <2>4, <2>5, <2>8 DEF WindowOK, Suggests
    <2> QED
      BY <2>9, <2>10, <2>11, EditOK DEF WindowOK
  <1>4. CASE ~accepts /\ t.pos < Len(t.line) /\ Edit(right)
    <2>1. /\ right \in WindowRecords /\ right.pos = t.pos + 1 /\ right.line = t.line
          /\ right.history = t.history /\ right.history_pos = t.history_pos
          /\ right.suffix = t.suffix /\ right.base_len = t.base_len /\ right.applied = t.applied
      <3>1. t.pos + 1 \in Nat
        BY <1>1
      <3> QED
        BY <1>1, <3>1 DEF WindowRecords
    <2> HIDE DEF right
    <2>2. WindowBase(right)
      BY <1>1, <1>4, <2>1 DEF WindowOK, WindowBase
    <2>3. Suggests(right)
      <3>1. Suggests(t) /\ (t.suffix # <<>> /\ t.applied => t.pos = Len(t.line))
        BY <1>1 DEF WindowOK, Suggests
      <3>2. ~(t.suffix # <<>> /\ t.applied)
        BY <1>1, <1>4, <3>1
      <3> QED
        BY <2>1, <3>1, <3>2 DEF Suggests
    <2>4. Edit(right)
      BY <1>4
    <2> QED
      BY <2>2, <2>3, <2>4, EditOK DEF WindowOK
  <1>5. QED
    BY <1>2, <1>3, <1>4

(* Enter and what follows from it. *)
LEMMA RememberedOK ==
  ASSUME LineIInv, NEW line \in Lines
  PROVE  /\ Remembered(line) \in [Windows -> WindowRecords]
         /\ \A w \in Windows : WindowOK(Remembered(line)[w])
  <1>1. ASSUME NEW w \in Windows PROVE WindowOK(Remembered(line)[w])
    <2>1. WindowOK(term[w]) /\ WindowOK(terminal_history_push(term[w], line))
      BY PushOK DEF LineIInv
    <2>2. WindowOK(LineEntered(terminal_history_push(term[w], line)))
      BY <2>1, EnteredOK
    <2> QED
      BY <2>1, <2>2 DEF Remembered
  <1>2. \A w \in Windows : Remembered(line)[w] \in WindowRecords
    BY <1>1 DEF WindowOK, WindowBase
  <1>3. QED
    BY <1>1, <1>2 DEF Remembered

(* What is written to the history file, or read from it, in whole or in part, is
   lines a window can hold. *)
LEMMA LineParts ==
  ASSUME NEW s \in Seq(Chars), NEW n \in 0..Len(s)
  PROVE  /\ SubSeq(s, 1, n) \in Seq(Chars) /\ Len(SubSeq(s, 1, n)) = n
         /\ n > 0 => SubSeq(s, 1, n) # <<>>
  <1>1. Len(s) \in Nat
    BY LenProperties
  <1>2. n \in Nat /\ 1 \in Nat \ {0} /\ 1 <= n + 1 /\ n <= Len(s) /\ n - 1 + 1 = n
    BY <1>1
  <1>3. SubSeq(s, 1, n) \in Seq(Chars) /\ Len(SubSeq(s, 1, n)) = n
    BY <1>2, PartOfSeq
  <1>4. QED
    BY <1>2, <1>3, EmptySeq

LEMMA WholeLine ==
  ASSUME NEW s \in Seq(Chars)
  PROVE  SubSeq(s, 1, Len(s)) = s
  <1>1. Len(s) \in Nat
    BY LenProperties
  <1>2. Len(s) \in 0..Len(s)
    BY <1>1
  <1>3. SubSeq(s, 1, Len(s)) \in Seq(Chars) /\ Len(SubSeq(s, 1, Len(s))) = Len(s)
    BY <1>2, LineParts
  <1>4. \A i \in 1..Len(s) : SubSeq(s, 1, Len(s))[i] = s[i]
    BY <1>1, PartOfSeq
  <1>5. QED
    BY <1>3, <1>4, SeqEqual

LEMMA WrittenOK ==
  ASSUME LineIInv, NEW kept \in {histfile[history_path], <<>>}, histfile[history_path] # NULL,
         NEW text \in Lines, NEW ended \in BOOLEAN, Written(kept, text, ended)
  PROVE  /\ histfile' \in [Names -> Seq(FullLines) \cup {NULL}]
         /\ torn' \in [Names -> BOOLEAN]
         /\ \A n \in Names : histfile[n] = NULL => histfile'[n] = NULL
  <1> DEFINE line == IF AddsToTorn(kept) THEN Last(kept) \o text ELSE text
             n == IF Len(line) < Cols THEN Len(line) ELSE Cols - 1
             seen == SubSeq(line, 1, n)
             before == IF AddsToTorn(kept) THEN Front(kept) ELSE kept
             after == IF seen = <<>> THEN before ELSE Append(before, seen)
  <1>1. kept \in Seq(FullLines) /\ text \in Seq(Chars) /\ history_path \in Names
    BY EmptySeq, LinesAreSeqs DEF LineIInv
  <1>2. line \in Seq(Chars) /\ before \in Seq(FullLines)
    <2>1. CASE AddsToTorn(kept)
      <3>1. kept # <<>> /\ Len(kept) \in Nat
        BY <1>1, <2>1, LenProperties DEF AddsToTorn
      <3>2. Len(kept) > 0 /\ Len(kept) \in 1..Len(kept) /\ Len(kept) - 1 \in Nat
        BY <1>1, <3>1, EmptySeq
      <3>3. Last(kept) \in Seq(Chars)
        BY <1>1, <3>2, ElementOfSeq, LinesAreSeqs DEF Last, FullLines
      <3>4. Front(kept) \in Seq(FullLines)
        BY <1>1, <3>2, PartOfSeq DEF Front
      <3> QED
        BY <1>1, <2>1, <3>3, <3>4, ConcatProperties
    <2>2. CASE ~AddsToTorn(kept)
      BY <1>1, <2>2
    <2> QED
      BY <2>1, <2>2
  <1>3. histfile' = [histfile EXCEPT ![history_path] = after]
        /\ torn' = [torn EXCEPT ![history_path] = seen # <<>> /\ ~ended]
    BY DEF Written
  <1> HIDE DEF line, before
  <1>4. Len(line) \in Nat
    BY <1>2, LenProperties
  <1>5. n \in 0..Len(line) /\ n < Cols
    BY <1>4, LineAssumption
  <1> HIDE DEF n
  <1>6. seen \in Seq(Chars) /\ Len(seen) < Cols
    BY <1>2, <1>5, LineParts
  <1> HIDE DEF seen
  <1>7. seen # <<>> => seen \in FullLines
    BY <1>6, LinesAreSeqs DEF FullLines
  <1>8. after \in Seq(FullLines)
    BY <1>2, <1>7, AppendProperties
  <1> HIDE DEF after
  <1>9. QED
    BY <1>1, <1>3, <1>8 DEF LineIInv

LEMMA AppendedOK ==
  ASSUME LineIInv, NEW line \in Lines, terminal_history_append_persistent(line)
  PROVE  /\ histfile' \in [Names -> Seq(FullLines) \cup {NULL}]
         /\ torn' \in [Names -> BOOLEAN] /\ missed' \in BOOLEAN
         /\ \A n \in Names : histfile[n] = NULL => histfile'[n] = NULL
  <1>1. ASSUME histfile' = histfile, torn' = torn, missed' \in {missed, TRUE}
        PROVE  /\ histfile' \in [Names -> Seq(FullLines) \cup {NULL}]
               /\ torn' \in [Names -> BOOLEAN] /\ missed' \in BOOLEAN
               /\ \A n \in Names : histfile[n] = NULL => histfile'[n] = NULL
    BY <1>1 DEF LineIInv
  <1>2. ASSUME histfile[history_path] # NULL, NEW kept \in {histfile[history_path], <<>>},
               Written(kept, line, TRUE), missed' = (missed \/ AddsToTorn(kept))
        PROVE  missed' \in BOOLEAN
    BY <1>2 DEF LineIInv
  <1>3. \A n \in 0..Len(line) : SubSeq(line, 1, n) \in Lines
    <2> TAKE n \in 0..Len(line)
    <2>1. line \in Seq(Chars) /\ Len(line) \in Nat /\ Len(line) < Cols
      BY LinesAreSeqs, LenProperties
    <2>2. SubSeq(line, 1, n) \in Seq(Chars) /\ Len(SubSeq(line, 1, n)) < Cols
      BY <2>1, LineParts, LineAssumption
    <2> QED
      BY <2>2, LinesAreSeqs
  <1>4. CASE UNCHANGED fileVars
    BY <1>1, <1>4 DEF fileVars
  <1>5. CASE missed' = TRUE /\ UNCHANGED <<histfile, torn>>
    BY <1>1, <1>5
  <1>6. ASSUME histfile[history_path] # NULL, NEW kept \in {histfile[history_path], <<>>},
               \/ Written(kept, line, TRUE) /\ missed' = (missed \/ AddsToTorn(kept))
               \/ /\ missed' = TRUE
                  /\ \E n \in 0..Len(line), ended \in BOOLEAN : Written(kept, SubSeq(line, 1, n), ended)
        PROVE  /\ histfile' \in [Names -> Seq(FullLines) \cup {NULL}]
               /\ torn' \in [Names -> BOOLEAN] /\ missed' \in BOOLEAN
               /\ \A n \in Names : histfile[n] = NULL => histfile'[n] = NULL
    <2>1. missed' \in BOOLEAN
      BY <1>2, <1>6
    <2>2. PICK text \in Lines, ended \in BOOLEAN : Written(kept, text, ended)
      BY <1>3, <1>6
    <2> QED
      BY <1>6, <2>1, <2>2, WrittenOK
  <1>7. QED
    BY <1>4, <1>5, <1>6 DEF terminal_history_append_persistent

LEMMA MayReadOK ==
  ASSUME NEW saved \in Seq(FullLines) \cup {NULL}, NEW lines \in MayRead(saved)
  PROVE  lines \in Seq(FullLines) \cup {NULL}
  <1>1. CASE lines = saved \/ lines = NULL \/ lines = <<>>
    BY <1>1, EmptySeq
  <1>2. ASSUME saved # NULL, NEW i \in DOMAIN saved, NEW n \in 1..Len(saved[i]),
               lines = Append(SubSeq(saved, 1, i - 1), SubSeq(saved[i], 1, n))
        PROVE  lines \in Seq(FullLines)
    <2>1. saved \in Seq(FullLines) /\ Len(saved) \in Nat /\ i \in 1..Len(saved)
      BY <1>2, LenProperties
    <2>2. i - 1 \in Nat /\ 1 \in Nat \ {0} /\ 1 <= (i - 1) + 1 /\ i - 1 <= Len(saved)
      BY <2>1
    <2>3. SubSeq(saved, 1, i - 1) \in Seq(FullLines)
      BY <2>1, <2>2, PartOfSeq
    <2>4. saved[i] \in Seq(Chars) /\ Len(saved[i]) < Cols /\ Len(saved[i]) \in Nat
      BY <2>1, ElementOfSeq, LinesAreSeqs, LenProperties DEF FullLines
    <2>5. n \in 0..Len(saved[i]) /\ n > 0 /\ n < Cols
      BY <1>2, <2>4, LineAssumption
    <2> DEFINE part == SubSeq(saved[i], 1, n)
    <2>6. part \in Seq(Chars) /\ Len(part) < Cols /\ part # <<>>
      BY <2>4, <2>5, LineParts
    <2> HIDE DEF part
    <2>7. part \in FullLines
      BY <2>6, LinesAreSeqs DEF FullLines
    <2> QED
      BY <1>2, <2>3, <2>7, AppendProperties DEF part
  <1>3. CASE saved # NULL /\ lines \notin {NULL, <<>>, saved}
    <2>1. lines \in UNION {{Append(SubSeq(saved, 1, i - 1), SubSeq(saved[i], 1, n)) : n \in 1..Len(saved[i])}
                            : i \in DOMAIN saved}
      BY <1>3 DEF MayRead, ReadInPart
    <2>2. PICK i \in DOMAIN saved :
            lines \in {Append(SubSeq(saved, 1, i - 1), SubSeq(saved[i], 1, n)) : n \in 1..Len(saved[i])}
      BY <2>1, Zenon
    <2> QED
      BY <1>2, <1>3, <2>2
  <1>4. CASE saved = NULL
    BY <1>1, <1>4 DEF MayRead
  <1>5. QED
    BY <1>1, <1>3, <1>4

LEMMA EnterOK == LineIInv /\ terminal_handle_enter => LineIInv'
  <1> SUFFICES ASSUME LineIInv, terminal_handle_enter PROVE LineIInv'
    OBVIOUS
  <1> DEFINE line == term[active_terminal].line
  <1>1. line \in Lines
    BY ActiveWindow
  <1>2. term' = Remembered(line) /\ terminal_history_append_persistent(line)
        /\ UNCHANGED <<active_terminal, passwd, history_path>>
    BY DEF terminal_handle_enter
  <1> HIDE DEF line
  <1>3. term' \in [Windows -> WindowRecords] /\ \A w \in Windows : WindowOK(term'[w])
    BY <1>1, <1>2, RememberedOK
  <1>4. /\ histfile' \in [Names -> Seq(FullLines) \cup {NULL}]
        /\ torn' \in [Names -> BOOLEAN] /\ missed' \in BOOLEAN
    BY <1>1, <1>2, AppendedOK
  <1>5. QED
    BY <1>2, <1>3, <1>4 DEF LineIInv, WindowOK, WindowBase, Suggests

LEMMA ClearOK == LineIInv /\ cmd_clear => LineIInv'
  <1> SUFFICES ASSUME LineIInv, cmd_clear PROVE LineIInv'
    OBVIOUS
  <1> DEFINE line == term[active_terminal].line
             r == Remembered(line)
             a == active_terminal
  <1>1. line \in Lines /\ a \in Windows
    BY ActiveWindow DEF LineIInv
  <1>2. /\ term' = [r EXCEPT ![a].history = <<>>, ![a].history_pos = 0]
        /\ terminal_history_append_persistent(line)
        /\ UNCHANGED <<active_terminal, passwd, history_path>>
    BY DEF cmd_clear
  <1>3. r \in [Windows -> WindowRecords] /\ \A w \in Windows : WindowOK(r[w])
    BY <1>1, RememberedOK
  <1> HIDE DEF line, r
  <1>4. term' = [r EXCEPT ![a] = [r[a] EXCEPT !.history = <<>>, !.history_pos = 0]]
    BY <1>1, <1>2, <1>3 DEF WindowRecords
  <1>5. WindowOK([r[a] EXCEPT !.history = <<>>, !.history_pos = 0])
    BY <1>1, <1>3, ForgetOK
  <1> DEFINE u == [r[a] EXCEPT !.history = <<>>, !.history_pos = 0]
  <1>6. u \in WindowRecords
    BY <1>5 DEF WindowOK, WindowBase
  <1> HIDE DEF u
  <1>7. term' = [r EXCEPT ![a] = u] /\ WindowOK(u)
    BY <1>4, <1>5 DEF u
  <1>8. term' \in [Windows -> WindowRecords] /\ \A w \in Windows : WindowOK(term'[w])
    BY <1>1, <1>3, <1>6, <1>7
  <1>9. /\ histfile' \in [Names -> Seq(FullLines) \cup {NULL}]
        /\ torn' \in [Names -> BOOLEAN] /\ missed' \in BOOLEAN
    BY <1>1, <1>2, AppendedOK
  <1>10. QED
    BY <1>2, <1>8, <1>9 DEF LineIInv, WindowOK, WindowBase, Suggests

LEMMA TouchOK == LineIInv /\ TouchHistory => LineIInv'
  <1> SUFFICES ASSUME LineIInv, TouchHistory PROVE LineIInv'
    OBVIOUS
  <1> DEFINE line == term[active_terminal].line
  <1>1. line \in Lines
    BY ActiveWindow
  <1>2. /\ term' = Remembered(line) /\ passwd = Account
        /\ histfile' = [histfile EXCEPT ![passwd] = <<>>]
        /\ UNCHANGED <<active_terminal, passwd, history_path, torn, missed>>
    BY DEF TouchHistory, ShellHasKeys, LineIInv
  <1> HIDE DEF line
  <1>3. term' \in [Windows -> WindowRecords] /\ \A w \in Windows : WindowOK(term'[w])
    BY <1>1, <1>2, RememberedOK
  <1>4. histfile' \in [Names -> Seq(FullLines) \cup {NULL}]
    <2>1. <<>> \in Seq(FullLines) /\ passwd \in Names
      BY <1>2, EmptySeq DEF Names
    <2> QED
      BY <1>2, <2>1 DEF LineIInv
  <1>5. QED
    BY <1>2, <1>3, <1>4 DEF LineIInv, WindowOK, WindowBase, Suggests

(* Windows come and go. *)
LEMMA OpenWindowOK == LineIInv /\ OpenWindow => LineIInv'
  <1> SUFFICES ASSUME LineIInv, OpenWindow PROVE LineIInv'
    OBVIOUS
  <1> DEFINE w == CHOOSE w \in Windows \ Live : \A v \in Windows \ Live : w <= v
             saved == histfile[history_path]
  <1>1. w \in Windows
    <2>1. Windows \ Live # {} /\ Windows \ Live \in SUBSET Windows
      BY DEF OpenWindow, Live
    <2> QED
      BY <2>1, LeastWindow
  <1>2. PICK lines \in MayRead(saved) :
          /\ term' = [term EXCEPT ![w] = NewWindow(lines)] /\ missed' = (missed \/ lines # saved)
          /\ active_terminal' = w /\ UNCHANGED <<passwd, history_path, histfile, torn>>
    BY DEF OpenWindow
  <1> DEFINE new == NewWindow(lines)
  <1>3. WindowOK(new) /\ new \in WindowRecords
    <2>1. saved \in Seq(FullLines) \cup {NULL}
      BY DEF LineIInv
    <2> HIDE DEF saved
    <2>2. lines \in Seq(FullLines) \cup {NULL}
      BY <2>1, MayReadOK
    <2> QED
      BY <2>2, NewWindowOK DEF WindowOK, WindowBase
  <1>4. /\ term' = [term EXCEPT ![w] = new] /\ active_terminal' = w /\ missed' \in BOOLEAN
        /\ UNCHANGED <<passwd, history_path, histfile, torn>>
    BY <1>2 DEF LineIInv
  <1> HIDE DEF w, new
  <1>5. term' \in [Windows -> WindowRecords] /\ \A v \in Windows : WindowOK(term'[v])
    BY <1>1, <1>3, <1>4 DEF LineIInv
  <1>6. QED
    BY <1>1, <1>4, <1>5 DEF LineIInv, WindowOK, WindowBase, Suggests

LEMMA CloseWindowOK == LineIInv /\ CloseWindow => LineIInv'
  <1> SUFFICES ASSUME LineIInv, CloseWindow PROVE LineIInv'
    OBVIOUS
  <1> DEFINE left == Live \ {active_terminal}
             next == IF left = {} THEN 0 ELSE CHOOSE w \in left : \A v \in left : w <= v
  <1>1. next \in Windows
    <2>1. left \in SUBSET Windows
      BY DEF Live
    <2> QED
      BY <2>1, LeastWindow, WindowsAreNaturals
  <1>2. /\ term' = [term EXCEPT ![active_terminal] = ClosedWindow] /\ active_terminal' = next
        /\ UNCHANGED <<passwd, history_path, histfile, torn, missed>>
    BY DEF CloseWindow, fileVars
  <1> HIDE DEF next
  <1>3. term' \in [Windows -> WindowRecords] /\ \A v \in Windows : WindowOK(term'[v])
    BY <1>2, ClosedOK DEF LineIInv, WindowOK, WindowBase
  <1>4. QED
    BY <1>1, <1>2, <1>3 DEF LineIInv, WindowOK, WindowBase, Suggests

LEMMA RebootOK ==
  ASSUME NEW saved \in Seq(FullLines) \cup {NULL},
         term' = [w \in Windows |-> IF w = 0 THEN NewWindow(saved) ELSE ClosedWindow]
  PROVE  term' \in [Windows -> WindowRecords] /\ \A w \in Windows : WindowOK(term'[w])
  <1>1. WindowOK(NewWindow(saved)) /\ WindowOK(ClosedWindow)
    BY NewWindowOK, ClosedOK
  <1>2. NewWindow(saved) \in WindowRecords /\ ClosedWindow \in WindowRecords
    BY <1>1 DEF WindowOK, WindowBase
  <1>3. QED
    BY <1>1, <1>2

LEMMA LineInitOK == LineInit => LineIInv
  <1> SUFFICES ASSUME LineInit PROVE LineIInv
    OBVIOUS
  <1>1. PICK saved \in {NULL} \cup {<<l>> : l \in Commands} :
          histfile = [n \in Names |-> IF n = (IF passwd = NULL THEN Template ELSE passwd) THEN saved ELSE NULL]
    BY DEF LineInit
  <1>2. saved \in Seq(FullLines) \cup {NULL}
    <2>1. ASSUME NEW l \in Commands PROVE <<l>> \in Seq(FullLines)
      <3>1. l \in FullLines
        BY LineAssumption DEF FullLines
      <3> QED
        BY <3>1
    <2> QED
      BY <2>1
  <1>3. histfile \in [Names -> Seq(FullLines) \cup {NULL}]
    BY <1>1, <1>2
  <1>4. passwd \in {NULL, Account} /\ history_path \in Names /\ active_terminal = 0
    BY DEF LineInit, Names
  <1>5. histfile[history_path] \in Seq(FullLines) \cup {NULL}
    BY <1>3, <1>4
  <1>6. /\ term = [w \in Windows |-> IF w = 0 THEN NewWindow(histfile[history_path]) ELSE ClosedWindow]
        /\ WindowOK(NewWindow(histfile[history_path])) /\ WindowOK(ClosedWindow)
    BY <1>5, NewWindowOK, ClosedOK DEF LineInit
  <1>7. term \in [Windows -> WindowRecords] /\ \A w \in Windows : WindowOK(term[w])
    BY <1>6 DEF WindowOK, WindowBase
  <1>8. torn \in [Names -> BOOLEAN] /\ missed \in BOOLEAN
    BY DEF LineInit
  <1>9. QED
    BY <1>3, <1>4, <1>7, <1>8, WindowsAreNaturals DEF LineIInv

LEMMA LineNextOK == LineIInv /\ LineNext => LineIInv'
  <1> SUFFICES ASSUME LineIInv, LineNext PROVE LineIInv'
    OBVIOUS
  <1>1. ASSUME NEW c \in Chars, terminal_handle_key(c) PROVE LineIInv'
    BY <1>1, KeyOK
  <1>2. CASE SelectWindow
    BY <1>2 DEF SelectWindow, LineIInv, Live, WindowOK, WindowBase, Suggests, fileVars
  <1>3. CASE FirstbootDone
    <2>1. /\ histfile' \in [Names -> Seq(FullLines) \cup {NULL}] /\ torn' \in [Names -> BOOLEAN]
        BY <1>3, LineAssumption DEF FirstbootDone, LineIInv, Names
    <2> QED
      BY <1>3, <2>1 DEF FirstbootDone, LineIInv, WindowOK, WindowBase, Suggests
  <1>4. CASE Reboot
    <2>1. PICK lines \in MayRead(histfile[history_path']) :
            /\ active_terminal' = 0 /\ history_path' \in Names /\ UNCHANGED <<passwd, histfile, torn>>
            /\ missed' \in BOOLEAN
            /\ term' = [w \in Windows |-> IF w = 0 THEN NewWindow(lines) ELSE ClosedWindow]
      BY <1>4 DEF Reboot, LineIInv, Names, terminal_history_get_path
    <2>2. lines \in Seq(FullLines) \cup {NULL}
      <3>1. histfile[history_path'] \in Seq(FullLines) \cup {NULL}
        BY <2>1 DEF LineIInv
      <3> QED
        BY <3>1, MayReadOK
    <2>3. term' \in [Windows -> WindowRecords] /\ \A w \in Windows : WindowOK(term'[w])
      BY <2>1, <2>2, RebootOK
    <2> QED
      BY <2>1, <2>3, WindowsAreNaturals DEF LineIInv, WindowOK, WindowBase, Suggests
  <1>5. QED
    BY <1>1, <1>2, <1>3, <1>4, BackspaceOK, ArrowUpDownOK, ArrowLeftOK, ArrowRightOK, EnterOK, ClearOK,
       TouchOK, OpenWindowOK, CloseWindowOK DEF LineNext, LineKey

-----------------------------------------------------------------------------
(* Histories.  Read from the end, two histories agree as far as the shorter
   one goes: it is cut, and grows, at ends where that does not matter. *)
FromEnd(s, t) == \A k \in Nat : k < Len(s) /\ k < Len(t) => s[Len(s) - k] = t[Len(t) - k]

IsEndOf(e, s) == Len(e) <= Len(s) /\ \A k \in Nat : k < Len(e) => e[Len(e) - k] = s[Len(s) - k]

LEMMA AlikeFromEnd ==
  ASSUME NEW S, NEW s \in Seq(S), NEW t \in Seq(S), FromEnd(s, t)
  PROVE  EndsAlike(s, t)
  <1>1. Len(s) \in Nat /\ Len(t) \in Nat
    BY LenProperties
  <1>2. CASE Len(s) <= Len(t)
    <2>1. ASSUME NEW k \in 0..(Len(s) - 1) PROVE s[Len(s) - k] = t[Len(t) - k]
      <3>1. k \in Nat /\ k < Len(s) /\ k < Len(t)
        BY <1>1, <1>2
      <3> QED
        BY <3>1 DEF FromEnd
    <2> QED
      BY <1>2, <2>1, SuffixFromEnd DEF EndsAlike
  <1>3. CASE Len(t) <= Len(s)
    <2>1. ASSUME NEW k \in 0..(Len(t) - 1) PROVE t[Len(t) - k] = s[Len(s) - k]
      <3>1. k \in Nat /\ k < Len(s) /\ k < Len(t)
        BY <1>1, <1>3
      <3> QED
        BY <3>1 DEF FromEnd
    <2> QED
      BY <1>3, <2>1, SuffixFromEnd DEF EndsAlike
  <1>4. QED
    BY <1>1, <1>2, <1>3

LEMMA FromEndSymmetric == ASSUME NEW s, NEW t, FromEnd(s, t) PROVE FromEnd(t, s)
  BY DEF FromEnd

LEMMA FromEndReflexive == ASSUME NEW s PROVE FromEnd(s, s)
  BY DEF FromEnd

LEMMA FromEndEmpty == ASSUME NEW s PROVE FromEnd(<<>>, s) /\ FromEnd(s, <<>>)
  <1>1. \A k \in Nat : ~(k < Len(<<>>))
    BY EmptySeq
  <1>2. QED
    BY <1>1 DEF FromEnd

LEMMA FromEndOfEnd ==
  ASSUME NEW S, NEW e \in Seq(S), NEW s \in Seq(S), NEW t \in Seq(S), IsEndOf(e, s), FromEnd(s, t)
  PROVE  FromEnd(e, t)
  <1>1. Len(e) \in Nat /\ Len(s) \in Nat
    BY LenProperties
  <1>2. ASSUME NEW k \in Nat, k < Len(e), k < Len(t) PROVE e[Len(e) - k] = t[Len(t) - k]
    <2>1. k < Len(s)
      BY <1>1, <1>2 DEF IsEndOf
    <2> QED
      BY <1>2, <2>1 DEF FromEnd, IsEndOf
  <1>3. QED
    BY <1>2 DEF FromEnd

LEMMA FromEndAppend ==
  ASSUME NEW S, NEW s \in Seq(S), NEW t \in Seq(S), NEW x \in S, FromEnd(s, t)
  PROVE  FromEnd(Append(s, x), Append(t, x))
  <1> DEFINE u == Append(s, x)
             v == Append(t, x)
  <1>1. Len(s) \in Nat /\ Len(t) \in Nat
    BY LenProperties
  <1>2. /\ Len(u) = Len(s) + 1 /\ u[Len(s) + 1] = x /\ \A i \in 1..Len(s) : u[i] = s[i]
        /\ Len(v) = Len(t) + 1 /\ v[Len(t) + 1] = x /\ \A i \in 1..Len(t) : v[i] = t[i]
    BY AppendProperties
  <1> HIDE DEF u, v
  <1>3. ASSUME NEW k \in Nat, k < Len(u), k < Len(v) PROVE u[Len(u) - k] = v[Len(v) - k]
    <2>1. CASE k = 0
      <3>1. Len(u) - k = Len(s) + 1 /\ Len(v) - k = Len(t) + 1
        BY <1>1, <1>2, <2>1
      <3> QED
        BY <1>2, <3>1
    <2>2. CASE k # 0
      <3>1. k - 1 \in Nat /\ k - 1 < Len(s) /\ k - 1 < Len(t)
        BY <1>1, <1>2, <1>3, <2>2
      <3>2. s[Len(s) - (k - 1)] = t[Len(t) - (k - 1)]
        BY <3>1 DEF FromEnd
      <3>3. /\ Len(u) - k = Len(s) - (k - 1) /\ Len(s) - (k - 1) \in 1..Len(s)
            /\ Len(v) - k = Len(t) - (k - 1) /\ Len(t) - (k - 1) \in 1..Len(t)
        BY <1>1, <1>2, <2>2, <3>1
      <3> QED
        BY <1>2, <3>2, <3>3
    <2> QED
      BY <2>1, <2>2
  <1>4. QED
    BY <1>3 DEF FromEnd, u, v

(* What a window remembers after a command: an end of what it remembered, and
   the command. *)
Kept(t) == IF Len(t.history) < MaxHistory THEN t.history ELSE Tail(t.history)

LEMMA KeptIsEnd ==
  ASSUME NEW t, WindowOK(t)
  PROVE  Kept(t) \in Seq(FullLines) /\ IsEndOf(Kept(t), t.history)
  <1>1. t.history \in Seq(FullLines) /\ Len(t.history) \in Nat /\ Len(t.history) <= MaxHistory
    BY LenProperties DEF WindowOK, WindowBase, WindowRecords
  <1>2. CASE Len(t.history) < MaxHistory
    BY <1>1, <1>2 DEF Kept, IsEndOf
  <1>3. CASE ~(Len(t.history) < MaxHistory)
    <2> DEFINE h == t.history
    <2>1. h # <<>>
      BY <1>1, <1>3, EmptySeq, LineAssumption
    <2> HIDE DEF h
    <2>2. h \in Seq(FullLines) /\ Len(h) \in Nat
      BY <1>1 DEF h
    <2>3. /\ Tail(h) \in Seq(FullLines) /\ Len(Tail(h)) = Len(h) - 1
          /\ \A i \in 1..Len(Tail(h)) : Tail(h)[i] = h[i + 1]
      BY <2>1, <2>2, HeadTailProperties
    <2>4. ASSUME NEW k \in Nat, k < Len(Tail(h)) PROVE Tail(h)[Len(Tail(h)) - k] = h[Len(h) - k]
      <3>1. Len(Tail(h)) - k \in 1..Len(Tail(h)) /\ (Len(Tail(h)) - k) + 1 = Len(h) - k
        BY <2>2, <2>3, <2>4
      <3> QED
        BY <2>3, <3>1
    <2>5. Len(Tail(h)) <= Len(h)
      BY <2>2, <2>3
    <2> QED
      BY <1>3, <2>3, <2>4, <2>5 DEF Kept, IsEndOf, h
  <1>4. QED
    BY <1>2, <1>3

LEMMA PushHistory ==
  ASSUME NEW t, WindowOK(t), NEW line \in FullLines
  PROVE  /\ terminal_history_push(t, line).history = Append(Kept(t), line)
         /\ terminal_history_push(t, line).active = t.active
  <1>1. line # <<>> /\ t \in WindowRecords
    BY DEF FullLines, WindowOK, WindowBase
  <1>2. terminal_history_push(t, line)
          = [t EXCEPT !.history = Append(Kept(t), line), !.history_pos = Len(Kept(t)) + 1]
    BY <1>1 DEF terminal_history_push, Kept
  <1>3. QED
    BY <1>1, <1>2 DEF WindowRecords

LEMMA PushAlike ==
  ASSUME NEW t, WindowOK(t), NEW s \in Seq(FullLines), NEW line \in FullLines, FromEnd(t.history, s)
  PROVE  FromEnd(terminal_history_push(t, line).history, Append(s, line))
  <1>1. t.history \in Seq(FullLines)
    BY DEF WindowOK, WindowBase, WindowRecords
  <1>2. Kept(t) \in Seq(FullLines) /\ FromEnd(Kept(t), s)
    BY <1>1, KeptIsEnd, FromEndOfEnd
  <1>3. QED
    BY <1>2, FromEndAppend, PushHistory

LEMMA PushesAlike ==
  ASSUME NEW t, WindowOK(t), NEW u, WindowOK(u), NEW line \in FullLines, FromEnd(t.history, u.history)
  PROVE  FromEnd(terminal_history_push(t, line).history, terminal_history_push(u, line).history)
  <1>1. t.history \in Seq(FullLines) /\ u.history \in Seq(FullLines)
    BY DEF WindowOK, WindowBase, WindowRecords
  <1>2. Kept(u) \in Seq(FullLines) /\ FromEnd(t.history, Kept(u))
    BY <1>1, KeptIsEnd, FromEndOfEnd, FromEndSymmetric
  <1>3. FromEnd(terminal_history_push(t, line).history, Append(Kept(u), line))
    BY <1>2, PushAlike
  <1>4. QED
    BY <1>3, PushHistory

(* HistoriesAgree alone is not inductive: a window that is opened before first
   boot has named the account reads the template home's file, and what is left
   of that home afterwards must not be read. *)
HistoriesAlike ==
  /\ \A v, w \in Live : FromEnd(term[v].history, term[w].history)
  /\ histfile[history_path] # NULL =>
       \A w \in Live : FromEnd(term[w].history, histfile[history_path])

HistoriesInv ==
  /\ ~missed => HistoriesAlike
  /\ passwd = NULL => history_path = Template
  /\ passwd = Account => histfile[Template] = NULL

LEMMA HistoryTypes ==
  ASSUME LineIInv
  PROVE  /\ \A w \in Windows : term[w].history \in Seq(FullLines)
         /\ \A n \in Names : histfile[n] # NULL => histfile[n] \in Seq(FullLines)
         /\ history_path \in Names
  BY DEF LineIInv, WindowRecords

LEMMA HistoriesInvAgree == LineIInv /\ HistoriesInv => HistoriesAgree
  <1> SUFFICES ASSUME LineIInv, HistoriesInv, ~missed
               PROVE  /\ \A v, w \in Live : EndsAlike(term[v].history, term[w].history)
                      /\ passwd # NULL /\ history_path = passwd /\ histfile[passwd] # NULL =>
                           \A w \in Live : EndsAlike(term[w].history, histfile[passwd])
    BY DEF HistoriesAgree
  <1>1. ASSUME NEW v \in Live, NEW w \in Live PROVE EndsAlike(term[v].history, term[w].history)
    <2>1. term[v].history \in Seq(FullLines) /\ term[w].history \in Seq(FullLines)
      BY HistoryTypes DEF Live
    <2>2. FromEnd(term[v].history, term[w].history)
      BY DEF HistoriesInv, HistoriesAlike
    <2> QED
      BY <2>1, <2>2, AlikeFromEnd
  <1>2. ASSUME history_path = passwd, histfile[passwd] # NULL, NEW w \in Live
        PROVE  EndsAlike(term[w].history, histfile[passwd])
    <2>1. term[w].history \in Seq(FullLines) /\ histfile[passwd] \in Seq(FullLines)
      BY <1>2, HistoryTypes DEF Live
    <2>2. FromEnd(term[w].history, histfile[passwd])
      BY <1>2 DEF HistoriesInv, HistoriesAlike
    <2> QED
      BY <2>1, <2>2, AlikeFromEnd
  <1>3. QED
    BY <1>1, <1>2

(* Keys that only edit a line leave what is remembered alone. *)
LEMMA EditKeepsHistories ==
  ASSUME HistoriesInv, NEW t, Edit(t), LineIInv,
         t.history = term[active_terminal].history, t.active = term[active_terminal].active
  PROVE  HistoriesInv'
  <1>1. \A w \in Windows : term'[w].history = term[w].history /\ term'[w].active = term[w].active
    BY DEF Edit, LineIInv
  <1>2. Live' = Live
    BY <1>1 DEF Live
  <1>3. ~missed => \A v, w \in Live : FromEnd(term'[v].history, term'[w].history)
    BY <1>1 DEF HistoriesInv, HistoriesAlike, Live
  <1>4. ~missed /\ histfile[history_path] # NULL =>
          \A w \in Live : FromEnd(term'[w].history, histfile[history_path])
    BY <1>1 DEF HistoriesInv, HistoriesAlike, Live
  <1>5. UNCHANGED <<passwd, history_path, histfile, missed>>
    BY DEF Edit, fileVars
  <1>6. ~missed' => (\A v, w \in Live : FromEnd(term[v].history, term[w].history))'
    BY <1>2, <1>3, <1>5 DEF FromEnd
  <1>7. ~missed' => (histfile[history_path] # NULL =>
                      \A w \in Live : FromEnd(term[w].history, histfile[history_path]))'
    BY <1>2, <1>4, <1>5 DEF FromEnd
  <1>8. ~missed' => HistoriesAlike'
    BY <1>6, <1>7 DEF HistoriesAlike
  <1>9. QED
    BY <1>5, <1>8 DEF HistoriesInv

LEMMA AutocompleteKeeps ==
  ASSUME NEW t \in WindowRecords
  PROVE  /\ terminal_update_autocomplete(t).history = t.history
         /\ terminal_update_autocomplete(t).active = t.active
  BY DEF terminal_update_autocomplete, WindowRecords

LEMMA TypingKeeps ==
  ASSUME NEW t \in WindowRecords, NEW line \in Seq(Chars), NEW pos \in Nat, NEW i \in Nat
  PROVE  LET u == terminal_update_autocomplete([t EXCEPT !.line = line, !.pos = pos])
             r == terminal_update_autocomplete([t EXCEPT !.history_pos = i, !.line = line, !.pos = pos])
         IN  u.history = t.history /\ u.active = t.active /\ r.history = t.history /\ r.active = t.active
  <1> DEFINE u == [t EXCEPT !.line = line, !.pos = pos]
             r == [t EXCEPT !.history_pos = i, !.line = line, !.pos = pos]
  <1>1. /\ u \in WindowRecords /\ u.history = t.history /\ u.active = t.active
        /\ r \in WindowRecords /\ r.history = t.history /\ r.active = t.active
    BY DEF WindowRecords
  <1> HIDE DEF u, r
  <1>2. /\ terminal_update_autocomplete(u).history = t.history
        /\ terminal_update_autocomplete(u).active = t.active
        /\ terminal_update_autocomplete(r).history = t.history
        /\ terminal_update_autocomplete(r).active = t.active
    BY <1>1, AutocompleteKeeps
  <1>3. QED
    BY <1>2 DEF u, r

LEMMA KeyKeepsHistories ==
  ASSUME LineIInv, HistoriesInv, NEW c \in Chars, terminal_handle_key(c)
  PROVE  HistoriesInv'
  <1> DEFINE t == term[active_terminal]
             line == InsertAt(t.line, t.pos + 1, c)
             u == terminal_update_autocomplete([t EXCEPT !.line = line, !.pos = t.pos + 1])
  <1>1. t \in WindowRecords /\ t.line \in Seq(Chars) /\ t.pos \in Nat /\ t.pos <= Len(t.line) /\ Len(t.line) \in Nat
    BY ActiveWindow
  <1>2. Edit(u)
    BY DEF terminal_handle_key
  <1>3. line \in Seq(Chars)
    <2>1. t.pos \in 0..Len(t.line)
      BY <1>1
    <2> HIDE DEF t
    <2> QED
      BY <1>1, <2>1, InsertAtProperties
  <1>4. t.pos + 1 \in Nat
    BY <1>1
  <1> HIDE DEF line
  <1>5. u.history = t.history /\ u.active = t.active
    BY <1>1, <1>3, <1>4, TypingKeeps, ZenonT(40)
  <1> HIDE DEF u
  <1>6. QED
    BY <1>2, <1>5, EditKeepsHistories

LEMMA BackspaceKeepsHistories ==
  ASSUME LineIInv, HistoriesInv, terminal_handle_backspace
  PROVE  HistoriesInv'
  <1> DEFINE t == term[active_terminal]
             line == RemoveAt(t.line, t.pos)
             u == terminal_update_autocomplete([t EXCEPT !.line = line, !.pos = t.pos - 1])
  <1>1. t \in WindowRecords /\ t.line \in Seq(Chars) /\ t.pos \in Nat /\ t.pos <= Len(t.line)
    BY ActiveWindow
  <1>2. Edit(u) /\ t.pos > 0
    BY DEF terminal_handle_backspace
  <1>3. line \in Seq(Chars) /\ t.pos - 1 \in Nat
    BY <1>1, <1>2, RemoveAtProperties
  <1> HIDE DEF line
  <1>4. u.history = t.history /\ u.active = t.active
    BY <1>1, <1>3, TypingKeeps, ZenonT(40)
  <1> HIDE DEF u
  <1>5. QED
    BY <1>2, <1>4, EditKeepsHistories

LEMMA RecallKeepsHistories ==
  ASSUME LineIInv, HistoriesInv, terminal_handle_arrow_up \/ terminal_handle_arrow_down
  PROVE  HistoriesInv'
  <1> DEFINE t == term[active_terminal]
  <1>1. t \in WindowRecords /\ t.history \in Seq(FullLines) /\ t.history_pos \in Nat /\ Len(t.history) \in Nat
    BY ActiveWindow
  <1>2. PICK i \in Nat : Edit(Recalled(t, i))
    <2>1. CASE terminal_handle_arrow_up
      <3>1. t.history_pos > 0 /\ Edit(Recalled(t, t.history_pos - 1))
        BY <2>1 DEF terminal_handle_arrow_up
      <3>2. t.history_pos - 1 \in Nat
        BY <1>1, <3>1
      <3> QED
        BY <3>1, <3>2
    <2>2. CASE terminal_handle_arrow_down
      <3>1. t.history_pos + 1 \in Nat /\ Edit(Recalled(t, t.history_pos + 1))
        BY <1>1, <2>2 DEF terminal_handle_arrow_down
      <3> QED
        BY <3>1
    <2> QED
      BY <2>1, <2>2
  <1> DEFINE line == IF i < Len(t.history) THEN t.history[i + 1] ELSE <<>>
  <1>3. line \in Seq(Chars) /\ Len(line) \in Nat
    <2>1. CASE i < Len(t.history)
      <3>1. i + 1 \in 1..Len(t.history)
        BY <1>1, <2>1
      <3>2. t.history[i + 1] \in FullLines
        BY <1>1, <3>1, ElementOfSeq
      <3> QED
        BY <2>1, <3>2, LinesAreSeqs, LenProperties DEF FullLines
    <2>2. CASE ~(i < Len(t.history))
      BY <2>2, EmptySeq
    <2> QED
      BY <2>1, <2>2
  <1>4. Recalled(t, i) = terminal_update_autocomplete(
                            [t EXCEPT !.history_pos = i, !.line = line, !.pos = Len(line)])
    BY DEF Recalled
  <1>5. Edit(Recalled(t, i))
    BY <1>2
  <1> HIDE DEF t, line
  <1>6. Recalled(t, i).history = t.history /\ Recalled(t, i).active = t.active
    <2> DEFINE n == Len(line)
               u == terminal_update_autocomplete([t EXCEPT !.history_pos = i, !.line = line, !.pos = n])
    <2>1. t \in WindowRecords /\ line \in Seq(Chars) /\ n \in Nat /\ i \in Nat
      BY <1>1, <1>3
    <2>2. Recalled(t, i) = u
      BY <1>4
    <2> HIDE DEF n
    <2>3. u.history = t.history /\ u.active = t.active
      BY <2>1, TypingKeeps, ZenonT(40)
    <2> HIDE DEF u
    <2> QED
      BY <2>2, <2>3
  <1>7. QED
    BY <1>5, <1>6, EditKeepsHistories DEF t

LEMMA LeftKeepsHistories ==
  ASSUME LineIInv, HistoriesInv, terminal_handle_arrow_left
  PROVE  HistoriesInv'
  <1> DEFINE t == term[active_terminal]
             line == SubSeq(t.line, 1, t.base_len)
             back == terminal_update_autocomplete([t EXCEPT !.line = line, !.pos = t.base_len])
             left == [t EXCEPT !.pos = @ - 1]
  <1>1. /\ t \in WindowRecords /\ t.line \in Seq(Chars) /\ Len(t.line) \in Nat /\ t.base_len \in Nat
        /\ Len(t.suffix) \in Nat
    BY ActiveWindow
  <1>2. \/ Len(t.line) = t.base_len + Len(t.suffix) /\ Edit(back)
        \/ Edit(left)
    BY DEF terminal_handle_arrow_left
  <1>3. ASSUME Len(t.line) = t.base_len + Len(t.suffix), Edit(back) PROVE HistoriesInv'
    <2>1. line \in Seq(Chars)
      <3>1. t.base_len <= Len(t.line) 
        BY <1>1, <1>3
      <3>2. 1 \in Nat /\ 1 <= 1
        OBVIOUS
      <3> HIDE DEF t
      <3>3. \A i \in 1..t.base_len : t.line[i] \in Chars
        <4> TAKE i \in 1..t.base_len
        <4>1. i \in 1..Len(t.line)
          BY <1>1, <3>1
        <4> QED
          BY <1>1, <4>1, ElementOfSeq
      <3> QED
        BY <1>1, <3>3, SubSeqProperties
    <2> HIDE DEF line
    <2>2. back.history = t.history /\ back.active = t.active
      BY <1>1, <2>1, TypingKeeps, ZenonT(40)
    <2> HIDE DEF back
    <2> QED
      BY <1>3, <2>2, EditKeepsHistories
  <1>4. ASSUME Edit(left) PROVE HistoriesInv'
    <2>1. left.history = t.history /\ left.active = t.active
      BY <1>1 DEF WindowRecords
    <2> HIDE DEF left
    <2> QED
      BY <1>4, <2>1, EditKeepsHistories
  <1>5. QED
    BY <1>2, <1>3, <1>4

LEMMA RightKeepsHistories ==
  ASSUME LineIInv, HistoriesInv, terminal_handle_arrow_right
  PROVE  HistoriesInv'
  <1> DEFINE t == term[active_terminal]
             room == Cols - 1 - Len(t.line)
             added == SubSeq(t.suffix, 1, IF Len(t.suffix) > room THEN room ELSE Len(t.suffix))
             accepted == [t EXCEPT !.line = @ \o added, !.pos = Len(t.line \o added),
                                   !.suffix = added, !.applied = TRUE]
             right == [t EXCEPT !.pos = @ + 1]
  <1>1. t \in WindowRecords
    BY ActiveWindow
  <1>2. Edit(accepted) \/ Edit(right)
    BY DEF terminal_handle_arrow_right
  <1> HIDE DEF added
  <1>3. /\ accepted.history = t.history /\ accepted.active = t.active
        /\ right.history = t.history /\ right.active = t.active
    BY <1>1 DEF WindowRecords
  <1> HIDE DEF accepted, right
  <1>4. QED
    BY <1>2, <1>3, EditKeepsHistories

(* A command reaches every open window and the file. *)
LEMMA RememberedHistory ==
  ASSUME LineIInv, NEW line \in FullLines, NEW w \in Windows
  PROVE  /\ Remembered(line)[w].active = term[w].active
         /\ term[w].active => Remembered(line)[w].history = terminal_history_push(term[w], line).history
  <1> DEFINE u == terminal_history_push(term[w], line)
  <1>1. WindowOK(term[w]) /\ line \in Lines
    BY DEF LineIInv, FullLines
  <1>2. u.active = term[w].active /\ u \in WindowRecords
    BY <1>1, PushHistory, PushOK DEF WindowOK, WindowBase
  <1> HIDE DEF u
  <1>3. LineEntered(u).history = u.history /\ LineEntered(u).active = u.active
    BY <1>2 DEF LineEntered, WindowRecords
  <1>4. Remembered(line)[w] = IF w = active_terminal THEN LineEntered(u)
                              ELSE IF term[w].active THEN u ELSE term[w]
    BY DEF Remembered, u
  <1>5. QED
    BY <1>2, <1>3, <1>4 DEF u

LEMMA RememberedAlike ==
  ASSUME LineIInv, HistoriesAlike, NEW line \in FullLines
  PROVE  /\ \A v, w \in Live : FromEnd(Remembered(line)[v].history, Remembered(line)[w].history)
         /\ histfile[history_path] # NULL =>
              \A w \in Live, kept \in {histfile[history_path], <<>>} :
                FromEnd(Remembered(line)[w].history, Append(kept, line))
  <1> DEFINE Pushed(w) == terminal_history_push(term[w], line)
  <1>1. \A w \in Live : w \in Windows /\ WindowOK(term[w]) /\ Remembered(line)[w].history = Pushed(w).history
    BY RememberedHistory DEF LineIInv, Live
  <1>2. \A v, w \in Live : FromEnd(Pushed(v).history, Pushed(w).history)
    BY <1>1, PushesAlike DEF HistoriesAlike
  <1>3. ASSUME histfile[history_path] # NULL, NEW w \in Live, NEW kept \in {histfile[history_path], <<>>}
        PROVE  FromEnd(Pushed(w).history, Append(kept, line))
    <2>1. kept \in Seq(FullLines)
      BY <1>3, HistoryTypes, EmptySeq
    <2>2. FromEnd(term[w].history, kept)
      BY <1>3, FromEndEmpty DEF HistoriesAlike
    <2> QED
      BY <1>1, <2>1, <2>2, PushAlike
  <1>4. QED
    BY <1>1, <1>2, <1>3

(* What every window whose command it was not remembers, and what the one
   that has cleared it does. *)
LEMMA CommandHistories ==
  ASSUME LineIInv, HistoriesInv, NEW line \in FullLines, terminal_history_append_persistent(line),
         UNCHANGED <<passwd, history_path>>,
         \A w \in Windows : term'[w].active = term[w].active,
         \A w \in Live : term'[w].history \in {Remembered(line)[w].history, <<>>}
  PROVE  HistoriesInv'
  <1>1. line \in Lines /\ line # <<>> /\ Live' = Live
    BY DEF FullLines, Live
  <1>2. histfile[Template] = NULL => histfile'[Template] = NULL
    BY <1>1, AppendedOK DEF Names
  <1>3. ASSUME HistoriesAlike PROVE \A v, w \in Live : FromEnd(term'[v].history, term'[w].history)
    BY <1>3, RememberedAlike, FromEndEmpty
  <1>4. ASSUME HistoriesAlike, histfile' = histfile, histfile[history_path] = NULL
        PROVE  HistoriesAlike'
    BY <1>1, <1>3, <1>4 DEF HistoriesAlike, FromEnd
  <1>5. ASSUME HistoriesAlike, histfile[history_path] # NULL, NEW kept \in {histfile[history_path], <<>>},
               Written(kept, line, TRUE), ~AddsToTorn(kept)
        PROVE  HistoriesAlike'
    <2>1. line \in Seq(Chars) /\ Len(line) < Cols
      BY <1>1, LinesAreSeqs
    <2>2. SubSeq(line, 1, IF Len(line) < Cols THEN Len(line) ELSE Cols - 1) = line
      BY <2>1, WholeLine
    <2>3. histfile' = [histfile EXCEPT ![history_path] = Append(kept, line)]
      BY <1>1, <1>5, <2>2 DEF Written
    <2>4. histfile'[history_path] = Append(kept, line)
      BY <2>3 DEF LineIInv
    <2>5. \A w \in Live : FromEnd(term'[w].history, Append(kept, line))
      BY <1>5, RememberedAlike, FromEndEmpty
    <2> QED
      BY <1>1, <1>3, <1>5, <2>4, <2>5 DEF HistoriesAlike, FromEnd
  <1>6. ~missed' => HistoriesAlike'
    <2> SUFFICES ASSUME ~missed' PROVE HistoriesAlike'
      OBVIOUS
    <2>1. CASE histfile[history_path] = NULL /\ UNCHANGED fileVars
      BY <1>4, <2>1 DEF HistoriesInv, fileVars
    <2>2. ASSUME histfile[history_path] # NULL, NEW kept \in {histfile[history_path], <<>>},
                 Written(kept, line, TRUE), missed' = (missed \/ AddsToTorn(kept))
          PROVE  HistoriesAlike'
      BY <1>5, <2>2 DEF HistoriesInv
    <2> QED
      BY <1>1, <2>1, <2>2 DEF terminal_history_append_persistent
  <1>7. QED
    BY <1>2, <1>6 DEF HistoriesInv

LEMMA HistoriesStay ==
  ASSUME HistoriesInv, UNCHANGED <<passwd, history_path, fileVars>>,
         \A w \in Windows : term'[w].active => term[w].active /\ term'[w].history = term[w].history
  PROVE  HistoriesInv'
  <1>1. \A w \in Live' : w \in Live /\ term'[w].history = term[w].history
    BY DEF Live
  <1>2. HistoriesAlike => \A v, w \in Live' : FromEnd(term'[v].history, term'[w].history)
    BY <1>1 DEF HistoriesAlike
  <1>3. HistoriesAlike /\ histfile[history_path] # NULL =>
          \A w \in Live' : FromEnd(term'[w].history, histfile[history_path])
    BY <1>1 DEF HistoriesAlike
  <1>4. HistoriesAlike => HistoriesAlike'
    BY <1>2, <1>3 DEF HistoriesAlike, FromEnd, fileVars
  <1>5. QED
    BY <1>4 DEF HistoriesInv, fileVars

LEMMA EnterHistories == LineIInv /\ HistoriesInv /\ terminal_handle_enter => HistoriesInv'
  <1> SUFFICES ASSUME LineIInv, HistoriesInv, terminal_handle_enter PROVE HistoriesInv'
    OBVIOUS
  <1> DEFINE line == term[active_terminal].line
  <1>1. line \in Lines
    BY ActiveWindow
  <1>2. term' = Remembered(line) /\ terminal_history_append_persistent(line)
        /\ UNCHANGED <<active_terminal, passwd, history_path>>
    BY DEF terminal_handle_enter
  <1> HIDE DEF line
  <1>3. CASE line = <<>>
    <2>1. UNCHANGED fileVars
      BY <1>2, <1>3 DEF terminal_history_append_persistent
    <2>2. ASSUME NEW w \in Windows
          PROVE  term'[w].active = term[w].active /\ term'[w].history = term[w].history
      <3>1. terminal_history_push(term[w], line) = term[w]
        BY <1>3 DEF terminal_history_push
      <3>2. LineEntered(term[w]).active = term[w].active /\ LineEntered(term[w]).history = term[w].history
        BY DEF LineEntered, LineIInv, WindowRecords
      <3>3. term'[w] = LineEntered(term[w]) \/ term'[w] = term[w]
        BY <1>2, <3>1 DEF Remembered
      <3> QED
        BY <3>2, <3>3
    <2> QED
      BY <1>2, <2>1, <2>2, HistoriesStay
  <1>4. CASE line # <<>>
    <2>1. line \in FullLines
      BY <1>1, <1>4 DEF FullLines
    <2>2. \A w \in Windows : term'[w].active = term[w].active
      BY <1>2, <2>1, RememberedHistory
    <2> QED
      BY <1>2, <2>1, <2>2, CommandHistories
  <1>5. QED
    BY <1>3, <1>4

LEMMA ClearHistories == LineIInv /\ HistoriesInv /\ cmd_clear => HistoriesInv'
  <1> SUFFICES ASSUME LineIInv, HistoriesInv, cmd_clear PROVE HistoriesInv'
    OBVIOUS
  <1> DEFINE line == term[active_terminal].line
             r == Remembered(line)
             a == active_terminal
  <1>1. line \in FullLines /\ a \in Windows
    BY ActiveWindow DEF cmd_clear, FullLines, LineIInv
  <1>2. /\ term' = [r EXCEPT ![a].history = <<>>, ![a].history_pos = 0]
        /\ terminal_history_append_persistent(line) /\ UNCHANGED <<passwd, history_path>>
    BY DEF cmd_clear
  <1>3. r \in [Windows -> WindowRecords]
    BY <1>1, RememberedOK DEF FullLines
  <1>4. \A w \in Windows : r[w].active = term[w].active
    BY <1>1, RememberedHistory
  <1> HIDE DEF line
  <1>5. ASSUME NEW w \in Windows
        PROVE  term'[w].active = term[w].active /\ term'[w].history \in {r[w].history, <<>>}
    <2> HIDE DEF r
    <2>1. term'[w] = IF w = a THEN [r[w] EXCEPT !.history = <<>>, !.history_pos = 0] ELSE r[w]
      BY <1>1, <1>2, <1>3 DEF WindowRecords
    <2>2. r[w] \in WindowRecords
      BY <1>3
    <2> DEFINE u == r[w]
    <2>3. [u EXCEPT !.history = <<>>, !.history_pos = 0].active = u.active
          /\ [u EXCEPT !.history = <<>>, !.history_pos = 0].history = <<>>
      BY <2>2 DEF WindowRecords
    <2> QED
      BY <1>4, <2>1, <2>3
  <1>6. \A w \in Live : term'[w].history \in {Remembered(line)[w].history, <<>>}
    BY <1>5 DEF Live
  <1>7. QED
    BY <1>1, <1>2, <1>5, <1>6, CommandHistories

LEMMA TouchHistories == LineIInv /\ HistoriesInv /\ TouchHistory => HistoriesInv'
  <1> SUFFICES ASSUME LineIInv, HistoriesInv, TouchHistory PROVE HistoriesInv'
    OBVIOUS
  <1> DEFINE line == term[active_terminal].line
  <1>1. line \in FullLines
    BY LineAssumption DEF TouchHistory, FullLines
  <1>2. /\ term' = Remembered(line) /\ UNCHANGED <<passwd, history_path, missed>>
        /\ passwd = Account /\ histfile' = [histfile EXCEPT ![Account] = <<>>]
    BY DEF TouchHistory, ShellHasKeys, LineIInv
  <1>3. histfile \in [Names -> Seq(FullLines) \cup {NULL}] /\ Template \in Names /\ Account \in Names
    BY DEF LineIInv, Names
  <1>4. histfile'[Template] = NULL /\ histfile'[Account] = <<>>
    BY <1>2, <1>3, LineAssumption DEF HistoriesInv
  <1> HIDE DEF line
  <1>5. \A w \in Windows : term'[w].active = term[w].active
    BY <1>1, <1>2, RememberedHistory
  <1>6. Live' = Live
    BY <1>5 DEF Live
  <1>7. ASSUME HistoriesAlike PROVE (\A v, w \in Live : FromEnd(term[v].history, term[w].history))'
    <2>1. \A v, w \in Live : FromEnd(term'[v].history, term'[w].history)
      BY <1>1, <1>2, <1>7, RememberedAlike
    <2> QED
      BY <1>6, <2>1 DEF FromEnd
  <1>8. (histfile[history_path] # NULL => \A w \in Live : FromEnd(term[w].history, histfile[history_path]))'
    <2>1. CASE history_path = Template
      BY <1>2, <1>4, <2>1
    <2>2. CASE history_path = Account
      <3>1. histfile'[history_path'] = <<>>
        BY <1>2, <1>4, <2>2
      <3>2. \A w \in Live : FromEnd(term'[w].history, <<>>)
        BY FromEndEmpty
      <3> QED
        BY <1>6, <3>1, <3>2 DEF FromEnd
    <2> QED
      BY <2>1, <2>2 DEF LineIInv, Names
  <1>9. HistoriesAlike => HistoriesAlike'
    BY <1>7, <1>8 DEF HistoriesAlike
  <1>10. QED
    BY <1>2, <1>4, <1>9, LineAssumption DEF HistoriesInv

(* A window that opens remembers what the file has, and so what the others
   remember. *)
LEMMA FreshAlike ==
  ASSUME NEW saved \in Seq(FullLines) \cup {NULL}
  PROVE  LET h == NewWindow(saved).history
         IN  /\ saved # NULL => FromEnd(h, saved)
             /\ \A s \in Seq(FullLines) : (saved # NULL => FromEnd(s, saved)) => FromEnd(h, s) /\ FromEnd(s, h)
  <1> DEFINE h == NewWindow(saved).history
  <1>1. h = IF saved = NULL THEN <<>> ELSE LastLines(saved)
    BY NewWindowOK
  <1> HIDE DEF h
  <1>2. CASE saved = NULL
    BY <1>1, <1>2, FromEndEmpty DEF h
  <1>3. CASE saved # NULL
    <2>1. saved \in Seq(FullLines) /\ h = LastLines(saved)
      BY <1>1, <1>3
    <2>2. h \in Seq(FullLines) /\ IsEndOf(h, saved)
      <3>1. /\ h \in Seq(FullLines) /\ Len(h) <= Len(saved)
            /\ \A k \in 0..(Len(h) - 1) : h[Len(h) - k] = saved[Len(saved) - k]
        BY <2>1, LastLinesProperties
      <3>2. Len(h) \in Nat
        BY <3>1, LenProperties
      <3>3. \A k \in Nat : k < Len(h) => k \in 0..(Len(h) - 1)
        BY <3>2
      <3> QED
        BY <3>1, <3>3 DEF IsEndOf
    <2>3. FromEnd(h, saved)
      BY <2>1, <2>2, FromEndOfEnd, FromEndReflexive
    <2>4. ASSUME NEW s \in Seq(FullLines), FromEnd(s, saved) PROVE FromEnd(h, s) /\ FromEnd(s, h)
      <3>1. FromEnd(saved, s)
        BY <2>4, FromEndSymmetric
      <3>2. FromEnd(h, s)
        BY <2>1, <2>2, <3>1, FromEndOfEnd
      <3> QED
        BY <3>2, FromEndSymmetric
    <2> QED
      BY <1>3, <2>3, <2>4 DEF h
  <1>4. QED
    BY <1>2, <1>3

LEMMA OpenHistories == LineIInv /\ HistoriesInv /\ OpenWindow => HistoriesInv'
  <1> SUFFICES ASSUME LineIInv, HistoriesInv, OpenWindow PROVE HistoriesInv'
    OBVIOUS
  <1> DEFINE n == CHOOSE w \in Windows \ Live : \A v \in Windows \ Live : w <= v
             saved == histfile[history_path]
             new == NewWindow(saved)
  <1>1. n \in Windows \ Live
    <2>1. Windows \ Live # {} /\ Windows \ Live \in SUBSET Windows
      BY DEF OpenWindow, Live
    <2> QED
      BY <2>1, LeastWindow
  <1>2. saved \in Seq(FullLines) \cup {NULL}
    BY DEF LineIInv
  <1>3. PICK lines \in MayRead(saved) :
          /\ term' = [term EXCEPT ![n] = NewWindow(lines)] /\ missed' = (missed \/ lines # saved)
          /\ UNCHANGED <<history_path, passwd, histfile>>
    BY DEF OpenWindow
  <1> HIDE DEF n
  <1>4. ASSUME ~missed' PROVE HistoriesAlike /\ term' = [term EXCEPT ![n] = new]
    BY <1>3, <1>4 DEF HistoriesInv
  <1>5. ASSUME HistoriesAlike, term' = [term EXCEPT ![n] = new] PROVE HistoriesAlike'
    <2>1. term' = [w \in Windows |-> IF w = n THEN new ELSE term[w]]
      BY <1>1, <1>5 DEF LineIInv
    <2>2. Live' \subseteq Live \cup {n} /\ n \in Windows /\ n \notin Live /\ Live \subseteq Windows
      BY <1>1, <2>1 DEF Live
    <2>3. \A w \in Live : term'[w] = term[w] /\ term[w].history \in Seq(FullLines)
      BY <2>1, <2>2, HistoryTypes
    <2>4. term'[n] = new
      BY <2>1, <2>2
    <2>5. /\ saved # NULL => FromEnd(new.history, saved)
          /\ \A w \in Live : FromEnd(new.history, term[w].history) /\ FromEnd(term[w].history, new.history)
      <3>1. \A w \in Live : term[w].history \in Seq(FullLines) /\ (saved # NULL => FromEnd(term[w].history, saved))
        BY <1>5, <2>3 DEF HistoriesAlike
      <3> HIDE DEF saved
      <3> QED
        BY <1>2, <3>1, FreshAlike
    <2> HIDE DEF new
    <2>6. FromEnd(new.history, new.history)
      BY FromEndReflexive
    <2>7. \A v, w \in Live \cup {n} : FromEnd(term'[v].history, term'[w].history)
      BY <1>5, <2>3, <2>4, <2>5, <2>6 DEF HistoriesAlike
    <2>8. saved # NULL => \A w \in Live \cup {n} : FromEnd(term'[w].history, saved)
      BY <1>5, <2>3, <2>4, <2>5 DEF HistoriesAlike
    <2> QED
      BY <1>3, <2>2, <2>7, <2>8 DEF HistoriesAlike, FromEnd
  <1>6. QED
    BY <1>3, <1>4, <1>5 DEF HistoriesInv

LEMMA CloseHistories == LineIInv /\ HistoriesInv /\ CloseWindow => HistoriesInv'
  <1> SUFFICES ASSUME LineIInv, HistoriesInv, CloseWindow PROVE HistoriesInv'
    OBVIOUS
  <1>1. /\ term' = [term EXCEPT ![active_terminal] = ClosedWindow]
        /\ UNCHANGED <<passwd, history_path, fileVars>>
    BY DEF CloseWindow
  <1>2. \A w \in Windows : term'[w].active => term[w].active /\ term'[w].history = term[w].history
    BY <1>1 DEF LineIInv, ClosedWindow
  <1>3. QED
    BY <1>1, <1>2, HistoriesStay

LEMMA RebootHistories == LineIInv /\ HistoriesInv /\ Reboot => HistoriesInv'
  <1> SUFFICES ASSUME LineIInv, HistoriesInv, Reboot PROVE HistoriesInv'
    OBVIOUS
  <1> DEFINE saved == histfile[history_path']
  <1>1. /\ history_path' \in terminal_history_get_path /\ UNCHANGED <<passwd, histfile>>
        /\ ~missed' => term' = [w \in Windows |-> IF w = 0 THEN NewWindow(saved) ELSE ClosedWindow]
    BY DEF Reboot
  <1>2. history_path' \in Names /\ saved \in Seq(FullLines) \cup {NULL}
    BY <1>1 DEF LineIInv, Names, terminal_history_get_path
  <1>3. ASSUME ~missed'
        PROVE  /\ \A v, w \in Live' : FromEnd(term'[v].history, term'[w].history)
               /\ saved # NULL => \A w \in Live' : FromEnd(term'[w].history, saved)
    <2> HIDE DEF saved
    <2>1. \A w \in Live' : term'[w] = NewWindow(saved)
      BY <1>1, <1>3 DEF Live, ClosedWindow
    <2> DEFINE h == NewWindow(saved).history
    <2>2. saved # NULL => FromEnd(h, saved)
      BY <1>2, FreshAlike
    <2>3. \A w \in Live' : term'[w].history = h
      BY <2>1
    <2> HIDE DEF h
    <2> QED
      BY <2>2, <2>3, FromEndReflexive
  <1>4. histfile'[history_path'] = saved
    BY <1>1
  <1> HIDE DEF saved
  <1>5. /\ passwd' = NULL => history_path' = Template
        /\ passwd' = Account => histfile'[Template] = NULL
    BY <1>1 DEF HistoriesInv, terminal_history_get_path
  <1>6. ~missed' => HistoriesAlike'
    BY <1>3, <1>4 DEF HistoriesAlike, FromEnd
  <1>7. QED
    BY <1>5, <1>6 DEF HistoriesInv

LEMMA FirstbootHistories == LineIInv /\ HistoriesInv /\ FirstbootDone => HistoriesInv'
  <1> SUFFICES ASSUME LineIInv, HistoriesInv, FirstbootDone PROVE HistoriesInv'
    OBVIOUS
  <1>1. /\ passwd' = Account /\ history_path' = Template /\ term' = term /\ missed' = missed
        /\ histfile' = [histfile EXCEPT ![Account] = histfile[Template], ![Template] = NULL]
    BY DEF FirstbootDone, HistoriesInv
  <1>2. histfile'[Template] = NULL
    BY <1>1 DEF LineIInv, Names
  <1>3. HistoriesAlike => \A v, w \in Live' : FromEnd(term'[v].history, term'[w].history)
    BY <1>1 DEF HistoriesAlike, Live
  <1>4. HistoriesAlike => HistoriesAlike'
    BY <1>1, <1>2, <1>3 DEF HistoriesAlike, FromEnd
  <1>5. QED
    BY <1>1, <1>2, <1>4, LineAssumption DEF HistoriesInv

LEMMA HistoriesInit == LineInit => HistoriesInv
  <1> SUFFICES ASSUME LineInit PROVE HistoriesInv
    OBVIOUS
  <1> DEFINE saved == histfile[history_path]
  <1>1. LineIInv
    BY LineInitOK
  <1>2. /\ history_path = (IF passwd = NULL THEN Template ELSE passwd)
        /\ term = [w \in Windows |-> IF w = 0 THEN NewWindow(saved) ELSE ClosedWindow]
    BY DEF LineInit
  <1>3. saved \in Seq(FullLines) \cup {NULL}
    BY <1>1 DEF LineIInv
  <1>4. passwd = Account => histfile[Template] = NULL
    BY LineAssumption DEF LineInit, Names
  <1> HIDE DEF saved
  <1>5. \A w \in Live : term[w] = NewWindow(saved)
    BY <1>2 DEF Live, ClosedWindow
  <1> DEFINE h == NewWindow(saved).history
  <1>6. saved # NULL => FromEnd(h, saved)
    BY <1>3, FreshAlike
  <1>7. \A w \in Live : term[w].history = h
    BY <1>5
  <1> HIDE DEF h
  <1>8. \A w \in Live : saved # NULL => FromEnd(term[w].history, saved)
    BY <1>6, <1>7
  <1>9. \A v, w \in Live : FromEnd(term[v].history, term[w].history)
    BY <1>7, FromEndReflexive
  <1>10. QED
    BY <1>2, <1>4, <1>8, <1>9, LineAssumption DEF HistoriesInv, HistoriesAlike, saved

LEMMA HistoriesNext == LineIInv /\ HistoriesInv /\ LineNext => HistoriesInv'
  <1> SUFFICES ASSUME LineIInv, HistoriesInv, LineNext PROVE HistoriesInv'
    OBVIOUS
  <1>1. CASE SelectWindow
    <2>1. UNCHANGED <<term, passwd, history_path, fileVars>>
      BY <1>1 DEF SelectWindow
    <2> QED
      BY <2>1, HistoriesStay
  <1>2. QED
    BY <1>1, KeyKeepsHistories, BackspaceKeepsHistories, RecallKeepsHistories, LeftKeepsHistories,
       RightKeepsHistories, EnterHistories, ClearHistories, TouchHistories, OpenHistories,
       CloseHistories, FirstbootHistories, RebootHistories DEF LineNext, LineKey

-----------------------------------------------------------------------------
(* nano.  Positions in the text: newlines are counted, and looked for. *)
Text == TextChars \cup {NL}

LEMMA NewlinesProperties ==
  ASSUME NEW b \in Seq(Text), NEW p \in 0..Len(b)
  PROVE  /\ Newlines(b, p) \in Nat /\ Newlines(b, p) <= p
         /\ \A q \in 0..p : Newlines(b, q) \in Nat /\ Newlines(b, q) <= Newlines(b, p)
  <1> DEFINE At(q) == {i \in 1..q : b[i] = NL}
  <1>1. ASSUME NEW q \in Nat
        PROVE  /\ IsFiniteSet(At(q)) /\ Cardinality(At(q)) \in Nat /\ Cardinality(At(q)) <= q
    <2>1. IsFiniteSet(1..q) /\ Cardinality(1..q) = q
      BY FS_Interval
    <2>2. At(q) \in SUBSET (1..q)
      OBVIOUS
    <2> QED
      BY <2>1, <2>2, FS_Subset, FS_CardinalityType
  <1>2. p \in Nat
    BY LenProperties
  <1>3. ASSUME NEW q \in 0..p PROVE Cardinality(At(q)) <= Cardinality(At(p))
    <2>1. At(q) \in SUBSET At(p)
      BY <1>2
    <2> QED
      BY <1>1, <1>2, <2>1, FS_Subset
  <1>4. \A q \in Nat : Newlines(b, q) = Cardinality(At(q))
    BY DEF Newlines
  <1> HIDE DEF At
  <1>5. \A q \in 0..p : q \in Nat
    OBVIOUS
  <1>6. QED
    BY <1>1, <1>2, <1>3, <1>4, <1>5

LEMMA NewlinesStep ==
  ASSUME NEW b \in Seq(Text), NEW p \in Nat
  PROVE  Newlines(b, p + 1) = IF b[p + 1] = NL THEN Newlines(b, p) + 1 ELSE Newlines(b, p)
  <1> DEFINE S == {i \in 1..p : b[i] = NL}
             T == {i \in 1..(p + 1) : b[i] = NL}
  <1>1. IsFiniteSet(S)
    <2>1. IsFiniteSet(1..p) /\ S \in SUBSET (1..p)
      BY FS_Interval
    <2> QED
      BY <2>1, FS_Subset
  <1>2. (p + 1) \notin S
    OBVIOUS
  <1>3. T = IF b[p + 1] = NL THEN S \cup {p + 1} ELSE S
    OBVIOUS
  <1>4. Newlines(b, p + 1) = Cardinality(T) /\ Newlines(b, p) = Cardinality(S)
    BY DEF Newlines
  <1> HIDE DEF S, T
  <1>5. Cardinality(S \cup {p + 1}) = Cardinality(S) + 1
    BY <1>1, <1>2, FS_AddElement
  <1>6. QED
    BY <1>3, <1>4, <1>5

(* A bounded set of naturals has a greatest element. *)
LEMMA GreatestNatural ==
  ASSUME NEW n \in Nat, NEW S \in SUBSET (0..n), S # {}
  PROVE  Max(S) \in S /\ \A y \in S : y <= Max(S)
  <1> DEFINE R == {n - x : x \in S}
  <1>1. R \in SUBSET Nat /\ R # {}
    <2>1. \A x \in S : n - x \in Nat
      OBVIOUS
    <2> QED
      BY <2>1
  <1>2. PICK m \in R : \A k \in R : m <= k
    BY <1>1, LeastNatural
  <1>3. PICK x \in S : m = n - x
    BY <1>2
  <1>4. \A y \in S : x >= y
    <2> TAKE y \in S
    <2>1. n - y \in R
      OBVIOUS
    <2>2. n - x <= n - y
      BY <1>2, <1>3, <2>1
    <2>3. x \in Nat /\ y \in Nat
      OBVIOUS
    <2> HIDE DEF R
    <2> QED
      BY <2>2, <2>3
  <1>5. Max(S) \in S /\ \A y \in S : Max(S) >= y
    BY <1>4 DEF Max
  <1>6. QED
    BY <1>5

LEMMA LeastOfSome ==
  ASSUME NEW S \in SUBSET Nat, S # {}
  PROVE  Min(S) \in S /\ \A y \in S : Min(S) <= y
  BY LeastNatural DEF Min

LEMMA LineStartProperties ==
  ASSUME NEW b \in Seq(Text), NEW p \in 0..Len(b)
  PROVE  LET start == nano_line_start(b, p)
         IN  /\ start \in 0..p /\ (start = 0 \/ b[start] = NL)
             /\ \A i \in (start + 1)..p : b[i] # NL
  <1> DEFINE S == {0} \cup {i \in 1..p : b[i] = NL}
             start == Max(S)
  <1>1. p \in Nat
    BY LenProperties
  <1>2. S \in SUBSET (0..p) /\ S # {}
    BY <1>1
  <1>3. start \in S /\ \A y \in S : y <= start
    <2> HIDE DEF S
    <2> QED
      BY <1>1, <1>2, GreatestNatural
  <1>4. nano_line_start(b, p) = start
    BY DEF nano_line_start
  <1> HIDE DEF start
  <1>5. start \in 0..p /\ (start = 0 \/ b[start] = NL)
    BY <1>1, <1>3
  <1>6. ASSUME NEW i \in (start + 1)..p PROVE b[i] # NL
    BY <1>1, <1>3, <1>5
  <1>7. QED
    BY <1>4, <1>5, <1>6

LEMMA LineEndProperties ==
  ASSUME NEW b \in Seq(Text), NEW p \in 0..Len(b)
  PROVE  LET end == nano_line_end(b, p)
         IN  /\ end \in p..Len(b) /\ (end = Len(b) \/ b[end + 1] = NL)
             /\ \A i \in (p + 1)..end : b[i] # NL
  <1> DEFINE S == {Len(b)} \cup {i \in p..(Len(b) - 1) : b[i + 1] = NL}
             end == Min(S)
  <1>1. Len(b) \in Nat /\ p \in Nat
    BY LenProperties
  <1>2. S \in SUBSET Nat /\ S # {}
    BY <1>1
  <1>3. end \in S /\ \A y \in S : end <= y
    <2> HIDE DEF S
    <2> QED
      BY <1>2, LeastOfSome
  <1>4. nano_line_end(b, p) = end
    BY DEF nano_line_end
  <1> HIDE DEF end
  <1>5. end \in p..Len(b) /\ (end = Len(b) \/ b[end + 1] = NL)
    BY <1>1, <1>3
  <1>6. ASSUME NEW i \in (p + 1)..end PROVE b[i] # NL
    <2>1. i - 1 \in p..(Len(b) - 1) /\ (i - 1) + 1 = i /\ ~(end <= i - 1)
      BY <1>1, <1>5
    <2> QED
      BY <1>3, <2>1
  <1>7. QED
    BY <1>4, <1>5, <1>6

NanoPrompts == {"none", "cmd", "save choice", "confirm"}

NanoRecords ==
  [active : BOOLEAN, buffer : Seq(Text), cursor : Nat, dirty : BOOLEAN, scroll_row : Nat,
   prompt : NanoPrompts, prompt_len : Nat, pending_save : BOOLEAN, rows : Nat, cursor_row : Nat]

(* What a key may make of nano before it is drawn, and what is drawn then. *)
NanoText(n) ==
  /\ n \in NanoRecords
  /\ Len(n.buffer) < MaxBuffer /\ n.cursor <= Len(n.buffer) /\ n.prompt_len < MaxPrompt
  /\ n.scroll_row < MaxBuffer /\ n.rows \in Heights \cup {0} /\ n.cursor_row <= n.rows

SameText(n, m) ==
  /\ n.active = m.active /\ n.buffer = m.buffer /\ n.cursor = m.cursor /\ n.dirty = m.dirty
  /\ n.prompt = m.prompt /\ n.prompt_len = m.prompt_len /\ n.pending_save = m.pending_save

(* The cursor's line is one of the rows - if there is one. *)
LEMMA ScrollProperties ==
  ASSUME NEW n, NanoText(n), height \in Heights
  PROVE  LET line == Newlines(n.buffer, n.cursor)
             last == Newlines(n.buffer, Len(n.buffer))
         IN  /\ line \in Nat /\ last \in Nat /\ line <= last /\ last <= Len(n.buffer) /\ height \in Nat
             /\ n.buffer # <<>> => TotalLines(n.buffer) = last + 1
             /\ n.buffer = <<>> => line = 0 /\ last = 0
             /\ ScrollTo(n) \in 0..(line + 1)
             /\ height > 0 => ScrollTo(n) <= line /\ line < ScrollTo(n) + height
  <1> DEFINE b == n.buffer
             line == Newlines(b, n.cursor)
             last == Newlines(b, Len(b))
             total == TotalLines(b)
             top == Lesser(n.scroll_row, total - 1)
  <1>1. /\ b \in Seq(Text) /\ Len(b) \in Nat /\ n.cursor \in 0..Len(b) /\ n.scroll_row \in Nat
        /\ height \in Nat
    BY LenProperties, NanoAssumption DEF NanoText, NanoRecords
  <1> HIDE DEF b
  <1>2. last \in Nat /\ last <= Len(b) /\ line \in Nat /\ line <= last
    <2>1. Len(b) \in 0..Len(b)
      BY <1>1
    <2> QED
      BY <1>1, <2>1, NewlinesProperties
  <1>3. b # <<>> => total = last + 1
    BY DEF TotalLines
  <1>4. b = <<>> => line = 0 /\ last = 0
    BY <1>2, EmptySeq
  <1> HIDE DEF line, last, total
  <1>5. ScrollTo(n) = IF b = <<>> THEN 0
                      ELSE IF line < top THEN line
                      ELSE IF line >= top + height THEN line - height + 1
                      ELSE top
    BY DEF ScrollTo, line, total, b
  <1>6. CASE b = <<>>
    BY <1>1, <1>2, <1>3, <1>4, <1>5, <1>6 DEF b, line, last, total
  <1>7. CASE b # <<>>
    <2>1. top \in Nat /\ top <= last
      BY <1>1, <1>2, <1>3, <1>7 DEF Lesser
    <2> HIDE DEF top
    <2>2. ScrollTo(n) \in 0..(line + 1) /\ (height > 0 => ScrollTo(n) <= line /\ line < ScrollTo(n) + height)
      BY <1>1, <1>2, <1>5, <1>7, <2>1
    <2> QED
      BY <1>1, <1>2, <1>3, <1>7, <2>2 DEF b, line, last, total
  <1>8. QED
    BY <1>6, <1>7

LEMMA RenderOK ==
  ASSUME NEW n, NanoText(n), height \in Heights
  PROVE  LET m == nano_render(n)
         IN  /\ NanoText(m) /\ SameText(m, n) /\ m.rows = height
             /\ height > 0 => /\ m.scroll_row = ScrollTo(n)
                              /\ m.cursor_row = 1 + Newlines(n.buffer, n.cursor) - m.scroll_row
  <1> DEFINE line == Newlines(n.buffer, n.cursor)
             last == Newlines(n.buffer, Len(n.buffer))
             scroll == ScrollTo(n)
             s == IF n.buffer = <<>> THEN 0 ELSE Lesser(scroll, TotalLines(n.buffer) - 1)
             c == Lesser(1 + line - scroll, height)
             m == [n EXCEPT !.scroll_row = s, !.rows = height, !.cursor_row = c]
  <1>1. nano_render(n) = m
    BY DEF nano_render
  <1>2. n \in NanoRecords /\ Len(n.buffer) < MaxBuffer /\ MaxBuffer \in Nat /\ Len(n.buffer) \in Nat
    BY LenProperties, NanoAssumption DEF NanoText, NanoRecords
  <1>3. /\ line \in Nat /\ last \in Nat /\ line <= last /\ last <= Len(n.buffer) /\ height \in Nat
        /\ n.buffer # <<>> => TotalLines(n.buffer) = last + 1
        /\ n.buffer = <<>> => line = 0 /\ last = 0 
        /\ scroll \in 0..(line + 1)
        /\ height > 0 => scroll <= line /\ line < scroll + height
    BY ScrollProperties
  <1> HIDE DEF line, last, scroll
  <1>4. s \in Nat /\ s < MaxBuffer /\ (height > 0 => s = scroll)
    BY <1>2, <1>3 DEF Lesser
  <1>5. c \in Nat /\ c <= height /\ (height > 0 => c = 1 + line - scroll)
    BY <1>3 DEF Lesser
  <1> HIDE DEF s, c
  <1>6. /\ m \in NanoRecords /\ SameText(m, n)
        /\ m.scroll_row = s /\ m.rows = height /\ m.cursor_row = c
    BY <1>2, <1>3, <1>4, <1>5 DEF NanoRecords, SameText
  <1> HIDE DEF m
  <1>7. NanoText(m)
    BY <1>3, <1>4, <1>5, <1>6 DEF NanoText, SameText
  <1>8. QED
    BY <1>1, <1>4, <1>5, <1>6, <1>7 DEF line, scroll

(* The inductive invariant of nano.  That a clean buffer is what the file holds
   is what makes leaving without a question safe. *)
NanoKept == nano.active /\ ~nano.dirty /\ ~cut => file = nano.buffer

NanoDrawn ==
  nano.active /\ nano.rows > 0 =>
    /\ nano.scroll_row <= Newlines(nano.buffer, nano.cursor)
    /\ nano.cursor_row = 1 + Newlines(nano.buffer, nano.cursor) - nano.scroll_row

NanoIInv ==
  /\ NanoText(nano) /\ height \in Heights /\ cut \in BOOLEAN /\ file \in Seq(Text) \cup {NoFile}
  /\ NanoKept /\ NanoDrawn

LEMMA NanoIsOffOK ==
  /\ NanoText(NanoOff) /\ NanoOff \in NanoRecords /\ Max(Heights) \in Heights
  /\ NanoOff.active = FALSE /\ NanoOff.dirty = FALSE
  <1>1. <<>> \in Seq(Text) /\ Len(<<>>) = 0
    BY EmptySeq
  <1>2. NanoOff \in NanoRecords
    BY <1>1 DEF NanoOff, NanoRecords, NanoPrompts
  <1>3. NanoText(NanoOff)
    BY <1>1, <1>2, NanoAssumption DEF NanoText, NanoOff
  <1>4. Max(Heights) \in Heights
    <2>1. PICK tallest \in Heights : \A h \in Heights : h <= tallest
      BY NanoAssumption
    <2>2. \A h \in Heights : tallest >= h
      BY <2>1, NanoAssumption
    <2> QED
      BY <2>2 DEF Max
  <1>5. QED
    BY <1>2, <1>3, <1>4 DEF NanoOff

(* A nano that has been drawn is one that stands. *)
LEMMA DrawnOK ==
  ASSUME NEW n, NanoText(n), height \in Heights, UNCHANGED height, nano' = nano_render(n),
         file' \in Seq(Text) \cup {NoFile}, cut' \in BOOLEAN,
         ~n.dirty /\ ~cut' => file' = n.buffer
  PROVE  NanoIInv' /\ nano'.active = n.active
  <1> DEFINE m == nano_render(n)
             line == Newlines(n.buffer, n.cursor)
  <1>1. /\ NanoText(m) /\ SameText(m, n) /\ m.rows = height
        /\ height > 0 => /\ m.scroll_row = ScrollTo(n)
                         /\ m.cursor_row = 1 + line - m.scroll_row
    BY RenderOK
  <1>2. height > 0 => ScrollTo(n) <= line
    BY ScrollProperties
  <1> HIDE DEF m
  <1>3. nano' = m /\ height' = height
    BY DEF m
  <1>4. nano'.buffer = n.buffer /\ nano'.cursor = n.cursor /\ nano'.active = n.active /\ nano'.dirty = n.dirty
    BY <1>1, <1>3 DEF SameText
  <1>5. NanoText(nano)'
    BY <1>1, <1>3 DEF NanoText
  <1>6. NanoKept'
    BY <1>4 DEF NanoKept
  <1>7. NanoDrawn'
    <2>1. Newlines(nano.buffer, nano.cursor)' = line
      BY <1>4 DEF Newlines
    <2> QED
      BY <1>1, <1>2, <1>3, <2>1 DEF NanoDrawn
  <1>8. QED
    BY <1>3, <1>4, <1>5, <1>6, <1>7 DEF NanoIInv

LEMMA KeepsOK ==
  ASSUME NanoIInv, nano.active, NEW n, NanoText(n), NanoKeeps(n), n.active = TRUE,
         n.dirty \/ (n.dirty = nano.dirty /\ n.buffer = nano.buffer)
  PROVE  NanoIInv' /\ nano'.active
  <1>1. /\ nano' = nano_render(n) /\ UNCHANGED <<height, file, cut>> /\ height \in Heights
        /\ file' \in Seq(Text) \cup {NoFile} /\ cut' \in BOOLEAN
    BY DEF NanoKeeps, NanoIInv
  <1>2. ~n.dirty /\ ~cut' => file' = n.buffer
    BY <1>1 DEF NanoIInv, NanoKept
  <1>3. QED
    BY <1>1, <1>2, DrawnOK

LEMMA NanoTypes ==
  ASSUME NanoIInv
  PROVE  /\ nano \in NanoRecords /\ nano.buffer \in Seq(Text) /\ Len(nano.buffer) \in Nat
         /\ nano.cursor \in Nat /\ nano.cursor <= Len(nano.buffer) /\ nano.cursor \in 0..Len(nano.buffer)
         /\ Len(nano.buffer) < MaxBuffer /\ MaxBuffer \in Nat /\ MaxPrompt \in Nat \ {0}
         /\ nano.prompt_len \in Nat /\ nano.prompt_len < MaxPrompt
  <1>1. nano \in NanoRecords /\ nano.buffer \in Seq(Text) /\ nano.cursor \in Nat /\ nano.prompt_len \in Nat
    BY DEF NanoIInv, NanoText, NanoRecords
  <1>2. Len(nano.buffer) \in Nat
    BY <1>1, LenProperties
  <1>3. /\ nano.cursor <= Len(nano.buffer) /\ Len(nano.buffer) < MaxBuffer
        /\ nano.prompt_len < MaxPrompt
    BY DEF NanoIInv, NanoText
  <1>4. QED
    BY <1>1, <1>2, <1>3, NanoAssumption

(* Keys that change the text, move in it, and talk to the dialogue. *)
LEMMA RewrittenOK ==
  ASSUME NanoIInv, nano.active, NEW b \in Seq(Text), Len(b) < MaxBuffer, NEW p \in Nat, p <= Len(b),
         NanoKeeps([nano EXCEPT !.buffer = b, !.cursor = p, !.dirty = TRUE])
  PROVE  NanoIInv' /\ nano'.active
  <1> DEFINE n == [nano EXCEPT !.buffer = b, !.cursor = p, !.dirty = TRUE]
  <1>1. /\ n \in NanoRecords /\ n.buffer = b /\ n.cursor = p /\ n.dirty = TRUE /\ n.active = nano.active
        /\ n.prompt_len = nano.prompt_len /\ n.scroll_row = nano.scroll_row /\ n.rows = nano.rows
        /\ n.cursor_row = nano.cursor_row /\ n.active = TRUE
    BY NanoTypes DEF NanoRecords
  <1> HIDE DEF n
  <1>2. NanoText(n)
    BY <1>1 DEF NanoText, NanoIInv
  <1>3. QED
    BY <1>1, <1>2, KeepsOK DEF n

LEMMA MovedOK ==
  ASSUME NanoIInv, nano.active, NEW p \in Nat, p <= Len(nano.buffer),
         NanoKeeps([nano EXCEPT !.cursor = p])
  PROVE  NanoIInv' /\ nano'.active
  <1> DEFINE n == [nano EXCEPT !.cursor = p]
  <1>1. /\ n \in NanoRecords /\ n.buffer = nano.buffer /\ n.cursor = p /\ n.dirty = nano.dirty
        /\ n.prompt_len = nano.prompt_len /\ n.scroll_row = nano.scroll_row /\ n.rows = nano.rows
        /\ n.cursor_row = nano.cursor_row /\ n.active = TRUE
    BY NanoTypes DEF NanoRecords
  <1> HIDE DEF n
  <1>2. NanoText(n)
    BY <1>1 DEF NanoText, NanoIInv
  <1>3. QED
    BY <1>1, <1>2, KeepsOK DEF n

LEMMA PromptedOK ==
  ASSUME NanoIInv, NEW prompt \in NanoPrompts, NEW len \in Nat, len < MaxPrompt, NEW save \in BOOLEAN
  PROVE  LET n == [nano EXCEPT !.prompt = prompt, !.prompt_len = len, !.pending_save = save]
         IN  /\ NanoText(n) /\ n.active = nano.active /\ n.dirty = nano.dirty /\ n.buffer = nano.buffer
             /\ nano.active /\ NanoKeeps(n) => NanoIInv' /\ nano'.active
  <1> DEFINE n == [nano EXCEPT !.prompt = prompt, !.prompt_len = len, !.pending_save = save]
  <1>1. /\ n \in NanoRecords /\ n.buffer = nano.buffer /\ n.cursor = nano.cursor /\ n.dirty = nano.dirty
        /\ n.prompt_len = len /\ n.scroll_row = nano.scroll_row /\ n.rows = nano.rows
        /\ n.cursor_row = nano.cursor_row /\ n.active = nano.active /\ nano.active \in BOOLEAN
    BY NanoTypes DEF NanoRecords
  <1> HIDE DEF n
  <1>2. NanoText(n)
    BY <1>1 DEF NanoText, NanoIInv
  <1>3. nano.active /\ NanoKeeps(n) => NanoIInv' /\ nano'.active
    BY <1>1, <1>2, KeepsOK
  <1>4. QED
    BY <1>1, <1>2, <1>3 DEF n

LEMMA InsertCharOK ==
  ASSUME NanoIInv, NEW c \in Text, nano_insert_char(c)
  PROVE  NanoIInv' /\ nano'.active
  <1> DEFINE b == InsertAt(nano.buffer, nano.cursor + 1, c)
  <1>1. nano.active /\ Len(nano.buffer) < MaxBuffer - 1
    BY DEF nano_insert_char, InText
  <1>2. b \in Seq(Text) /\ Len(b) = Len(nano.buffer) + 1
    BY NanoTypes, InsertAtProperties, ZenonT(40)
  <1>3. NanoKeeps([nano EXCEPT !.buffer = b, !.cursor = nano.cursor + 1, !.dirty = TRUE])
    BY DEF nano_insert_char
  <1> HIDE DEF b
  <1>4. Len(b) < MaxBuffer /\ nano.cursor + 1 \in Nat /\ nano.cursor + 1 <= Len(b)
    BY <1>1, <1>2, NanoTypes
  <1>5. QED
    BY <1>1, <1>2, <1>3, <1>4, RewrittenOK

LEMMA NanoBackspaceOK ==
  ASSUME NanoIInv, nano_backspace
  PROVE  NanoIInv' /\ nano'.active
  <1> DEFINE b == RemoveAt(nano.buffer, nano.cursor)
  <1>1. nano.active /\ nano.cursor > 0
    BY DEF nano_backspace, InText
  <1>2. b \in Seq(Text) /\ Len(b) = Len(nano.buffer) - 1
    <2>1. nano.cursor \in 1..Len(nano.buffer)
      BY <1>1, NanoTypes
    <2> QED
      BY <2>1, NanoTypes, RemoveAtProperties
  <1>3. NanoKeeps([nano EXCEPT !.buffer = b, !.cursor = nano.cursor - 1, !.dirty = TRUE])
    BY DEF nano_backspace
  <1> HIDE DEF b
  <1>4. Len(b) < MaxBuffer /\ nano.cursor - 1 \in Nat /\ nano.cursor - 1 <= Len(b)
    BY <1>1, <1>2, NanoTypes
  <1>5. QED
    BY <1>1, <1>2, <1>3, <1>4, RewrittenOK

LEMMA MovesOK ==
  ASSUME NanoIInv, nano_move_left \/ nano_move_right \/ nano_move_up \/ nano_move_down
  PROVE  NanoIInv' /\ nano'.active
  <1> DEFINE b == nano.buffer
             p == nano.cursor
  <1>1. nano.active
    BY DEF nano_move_left, nano_move_right, nano_move_up, nano_move_down, InText
  <1>2. b \in Seq(Text) /\ Len(b) \in Nat /\ p \in Nat /\ p <= Len(b) /\ p \in 0..Len(b)
    BY NanoTypes
  <1>3. CASE nano_move_left
    <2>1. p > 0 /\ NanoKeeps([nano EXCEPT !.cursor = p - 1])
      BY <1>3 DEF nano_move_left
    <2>2. p - 1 \in Nat /\ p - 1 <= Len(b)
      BY <1>2, <2>1
    <2> QED
      BY <1>1, <2>1, <2>2, MovedOK
  <1>4. CASE nano_move_right
    <2>1. p < Len(b) /\ NanoKeeps([nano EXCEPT !.cursor = p + 1])
      BY <1>4 DEF nano_move_right
    <2>2. p + 1 \in Nat /\ p + 1 <= Len(b)
      BY <1>2, <2>1
    <2> QED
      BY <1>1, <2>1, <2>2, MovedOK
  <1>5. CASE nano_move_up
    <2> DEFINE start == nano_line_start(b, p)
               above == nano_line_start(b, start - 1)
               to == above + Lesser(p - start, start - 1 - above)
    <2>1. start > 0 /\ NanoKeeps([nano EXCEPT !.cursor = to])
      BY <1>5 DEF nano_move_up
    <2>2. start \in 0..p
      BY <1>2, LineStartProperties
    <2> HIDE DEF start
    <2>3. start - 1 \in 0..Len(b)
      BY <1>2, <2>1, <2>2
    <2>4. above \in 0..(start - 1)
      BY <1>2, <2>3, LineStartProperties
    <2> HIDE DEF above
    <2>5. to \in Nat /\ to <= Len(b)
      BY <1>2, <2>1, <2>2, <2>4 DEF Lesser
    <2> HIDE DEF to
    <2> QED
      BY <1>1, <2>1, <2>5, MovedOK
  <1>6. CASE nano_move_down
    <2> DEFINE start == nano_line_start(b, p)
               below == nano_line_end(b, p) + 1
               end == nano_line_end(b, below)
               to == below + Lesser(p - start, end - below)
    <2>1. below <= Len(b) /\ NanoKeeps([nano EXCEPT !.cursor = to])
      BY <1>6 DEF nano_move_down
    <2>2. start \in 0..p
      BY <1>2, LineStartProperties
    <2> HIDE DEF start
    <2>3. below \in 0..Len(b)
      <3> DEFINE e == nano_line_end(b, p)
      <3>1. e \in p..Len(b)
        BY <1>2, LineEndProperties
      <3> HIDE DEF e
      <3>2. below = e + 1
        BY DEF e
      <3> HIDE DEF below
      <3> QED
        BY <1>2, <2>1, <3>1, <3>2
    <2> HIDE DEF below
    <2>4. end \in below..Len(b)
      BY <1>2, <2>3, LineEndProperties
    <2> HIDE DEF end
    <2>5. to \in Nat /\ to <= Len(b)
      BY <1>2, <2>2, <2>3, <2>4 DEF Lesser
    <2> HIDE DEF to
    <2> QED
      BY <1>1, <2>1, <2>5, MovedOK
  <1>7. QED
    BY <1>3, <1>4, <1>5, <1>6

LEMMA PromptsEqual ==
  ASSUME NanoIInv, NEW p \in NanoPrompts, NEW save \in BOOLEAN, NEW k \in Nat
  PROVE  LET Prompted(prompt, len, keep) ==
               [nano EXCEPT !.prompt = prompt, !.prompt_len = len, !.pending_save = keep]
         IN  /\ [nano EXCEPT !.prompt = p] = Prompted(p, nano.prompt_len, nano.pending_save)
             /\ [nano EXCEPT !.prompt = p, !.prompt_len = k] = Prompted(p, k, nano.pending_save)
             /\ [nano EXCEPT !.prompt_len = k] = Prompted(nano.prompt, k, nano.pending_save)
             /\ [nano EXCEPT !.pending_save = save, !.prompt = p] = Prompted(p, nano.prompt_len, save)
             /\ nano = Prompted(nano.prompt, nano.prompt_len, nano.pending_save)
             /\ nano_reset_prompt(nano) = Prompted("none", 0, FALSE)
             /\ nano.prompt \in NanoPrompts /\ nano.pending_save \in BOOLEAN
  BY NanoTypes DEF NanoRecords, nano_reset_prompt

LEMMA ExitOK ==
  ASSUME NanoIInv, nano_exit_to_shell, file' \in Seq(Text) \cup {NoFile}
  PROVE  NanoIInv' /\ ~nano'.active
  <1>1. nano' = NanoOff /\ cut' = FALSE /\ height' = height
    BY DEF nano_exit_to_shell
  <1>2. NanoText(nano)'
    BY <1>1, NanoIsOffOK DEF NanoText
  <1>3. QED
    BY <1>1, <1>2, NanoIsOffOK DEF NanoIInv, NanoKept, NanoDrawn

LEMMA PromptKeysOK ==
  ASSUME NanoIInv, nano.active, NEW prompt \in NanoPrompts, NEW len \in Nat, len < MaxPrompt, NEW save \in BOOLEAN,
         NEW n, n = [nano EXCEPT !.prompt = prompt, !.prompt_len = len, !.pending_save = save],
         NanoKeeps(n)
  PROVE  NanoIInv' /\ nano'.active
  BY PromptedOK

LEMMA CtrlXOK == ASSUME NanoIInv, CtrlX PROVE NanoIInv'
  <1>1. nano.active
    BY DEF CtrlX
  <1>2. CASE nano_exit_to_shell /\ UNCHANGED file
    BY <1>2, ExitOK DEF NanoIInv
  <1>3. CASE NanoKeeps([nano EXCEPT !.prompt = "save choice"])
    <2>1. "save choice" \in NanoPrompts
      BY DEF NanoPrompts
    <2>2. [nano EXCEPT !.prompt = "save choice"] =
            [nano EXCEPT !.prompt = "save choice", !.prompt_len = nano.prompt_len, !.pending_save = nano.pending_save]
      BY <2>1, PromptsEqual, 0 \in Nat, TRUE \in BOOLEAN
    <2>3. nano.pending_save \in BOOLEAN
      BY PromptsEqual, <2>1, 0 \in Nat, TRUE \in BOOLEAN
    <2> QED
      BY <1>1, <1>3, <2>1, <2>2, <2>3, NanoTypes, PromptKeysOK
  <1>4. QED
    BY <1>2, <1>3 DEF CtrlX

LEMMA DialogueOK ==
  ASSUME NanoIInv, CtrlP \/ PromptX \/ PromptOther \/ PromptLeave \/ (\E answer \in BOOLEAN : SaveChoice(answer))
  PROVE  NanoIInv' /\ nano'.active
  <1> DEFINE Prompted(prompt, len, keep) ==
               [nano EXCEPT !.prompt = prompt, !.prompt_len = len, !.pending_save = keep]
  <1>1. nano.active
    BY DEF CtrlP, PromptX, PromptOther, PromptLeave, SaveChoice
  <1>2. PICK prompt \in NanoPrompts, len \in Nat, keep \in BOOLEAN :
          len < MaxPrompt /\ NanoKeeps(Prompted(prompt, len, keep))
    <2>1. /\ "none" \in NanoPrompts /\ "cmd" \in NanoPrompts /\ "save choice" \in NanoPrompts
          /\ "confirm" \in NanoPrompts
      BY DEF NanoPrompts
    <2>2. nano.prompt \in NanoPrompts /\ nano.pending_save \in BOOLEAN
      BY <2>1, PromptsEqual, 0 \in Nat, TRUE \in BOOLEAN
    <2>3. nano.prompt_len \in Nat /\ nano.prompt_len < MaxPrompt /\ 0 < MaxPrompt /\ 0 \in Nat
          /\ nano.prompt_len + 1 \in Nat
      BY NanoTypes
    <2>4. nano_reset_prompt(nano) = Prompted("none", 0, FALSE)
      BY <2>1, PromptsEqual, 0 \in Nat, TRUE \in BOOLEAN
    <2>5. [nano EXCEPT !.prompt = "cmd", !.prompt_len = 0] = Prompted("cmd", 0, nano.pending_save)
      BY <2>1, <2>3, PromptsEqual, TRUE \in BOOLEAN, ZenonT(40)
    <2>6. [nano EXCEPT !.prompt = "save choice"] = Prompted("save choice", nano.prompt_len, nano.pending_save)
      BY <2>1, <2>3, PromptsEqual, TRUE \in BOOLEAN
    <2>7. \A k \in Nat : [nano EXCEPT !.prompt_len = k] = Prompted(nano.prompt, k, nano.pending_save)
      BY <2>1, PromptsEqual, TRUE \in BOOLEAN
    <2>8. \A save \in BOOLEAN :
            [nano EXCEPT !.pending_save = save, !.prompt = "confirm"] = Prompted("confirm", nano.prompt_len, save)
      BY <2>1, <2>3, PromptsEqual
    <2>9. CASE CtrlP
      <3>1. NanoKeeps([nano EXCEPT !.prompt = "cmd", !.prompt_len = 0]) \/ NanoKeeps(nano_reset_prompt(nano))
        BY <2>9 DEF CtrlP
      <3>2. NanoKeeps(Prompted("cmd", 0, nano.pending_save)) \/ NanoKeeps(Prompted("none", 0, FALSE))
        BY <2>4, <2>5, <3>1, Zenon
      <3> QED
        BY <2>1, <2>2, <2>3, <3>2
    <2>10. CASE PromptX
      <3>1. NanoKeeps([nano EXCEPT !.prompt = "save choice"])
        BY <2>10 DEF PromptX
      <3>2. NanoKeeps(Prompted("save choice", nano.prompt_len, nano.pending_save))
        BY <2>6, <3>1, Zenon
      <3> QED
        BY <2>1, <2>2, <2>3, <3>2
    <2>11. CASE PromptOther
      <3>1. nano.prompt_len < MaxPrompt - 1 /\ NanoKeeps([nano EXCEPT !.prompt_len = nano.prompt_len + 1])
        BY <2>11 DEF PromptOther
      <3>2. NanoKeeps(Prompted(nano.prompt, nano.prompt_len + 1, nano.pending_save))
        BY <2>3, <2>7, <3>1, Zenon
      <3>3. nano.prompt_len + 1 < MaxPrompt
        BY <2>3, <3>1, NanoTypes
      <3> QED
        BY <2>2, <2>3, <3>2, <3>3
    <2>12. CASE PromptLeave
      <3>1. NanoKeeps(nano_reset_prompt(nano))
        BY <2>12 DEF PromptLeave
      <3>2. NanoKeeps(Prompted("none", 0, FALSE))
        BY <2>4, <3>1, Zenon
      <3> QED
        BY <2>1, <2>3, <3>2
    <2>13. ASSUME NEW answer \in BOOLEAN, SaveChoice(answer)
           PROVE  NanoKeeps(Prompted("confirm", nano.prompt_len, answer))
      <3>1. NanoKeeps([nano EXCEPT !.pending_save = answer, !.prompt = "confirm"])
        BY <2>13 DEF SaveChoice
      <3> QED
        BY <2>8, <3>1, Zenon
    <2>14. CASE \E answer \in BOOLEAN : SaveChoice(answer)
      BY <2>1, <2>3, <2>13, <2>14
    <2> QED
      BY <2>9, <2>10, <2>11, <2>12, <2>14
  <1>3. QED
    BY <1>1, <1>2, PromptKeysOK

LEMMA ConfirmOK == ASSUME NanoIInv, Confirm PROVE NanoIInv'
  <1>1. nano.active /\ nano.buffer \in Seq(Text) /\ height \in Heights
    BY NanoTypes DEF Confirm, NanoIInv
  <1>2. CASE file' = nano.buffer /\ nano_exit_to_shell
    BY <1>1, <1>2, ExitOK
  <1>3. CASE nano_exit_to_shell /\ UNCHANGED file
    BY <1>3, ExitOK DEF NanoIInv
  <1>4. CASE SaveFails /\ cut' = (cut \/ ~nano.dirty) /\ nano' = nano_render(nano_reset_prompt(nano)) /\ UNCHANGED height
    <2>1. file' \in Seq(Text) \cup {NoFile}
      <3>1. ASSUME NEW k \in 0..Len(nano.buffer) PROVE SubSeq(nano.buffer, 1, k) \in Seq(Text)
        <4>1. k \in Nat /\ 1 <= k + 1 /\ k <= Len(nano.buffer) /\ 1 \in Nat \ {0}
          BY NanoTypes
        <4> QED
          BY <1>1, <4>1, PartOfSeq
      <3>2. \/ file' = file
            \/ file' = NoFile
            \/ \E k \in 0..Len(nano.buffer) : file' = SubSeq(nano.buffer, 1, k)
        BY <1>4 DEF SaveFails
      <3> QED
        BY <3>1, <3>2 DEF NanoIInv
    <2> DEFINE n == nano_reset_prompt(nano)
    <2>2. NanoText(n) /\ n.active = nano.active /\ n.dirty = nano.dirty /\ n.buffer = nano.buffer
      <3>1. "none" \in NanoPrompts /\ FALSE \in BOOLEAN /\ 0 \in Nat /\ 0 < MaxPrompt
        BY NanoTypes DEF NanoPrompts
      <3> QED
        BY <3>1, PromptedOK DEF nano_reset_prompt
    <2>3. cut' \in BOOLEAN /\ (~cut' => ~cut /\ nano.dirty)
      BY <1>4 DEF NanoIInv
    <2> HIDE DEF n
    <2>4. nano' = nano_render(n) /\ UNCHANGED height
      BY <1>4 DEF n
    <2>5. ~n.dirty /\ ~cut' => file' = n.buffer
      BY <2>2, <2>3
    <2> QED
      BY <1>1, <2>1, <2>2, <2>3, <2>4, <2>5, DrawnOK
  <1>5. QED
    BY <1>2, <1>3, <1>4 DEF Confirm

LEMMA IdleKeyOK == ASSUME NanoIInv, IdleKey PROVE NanoIInv' /\ nano'.active
  <1>1. nano.active /\ nano.active = TRUE /\ NanoKeeps(nano) /\ NanoText(nano)
    BY NanoTypes DEF IdleKey, NanoIInv, NanoRecords
  <1>2. QED
    BY <1>1, KeepsOK

LEMMA ResizedOK == ASSUME NanoIInv, WindowResized PROVE NanoIInv'
  BY DEF NanoIInv, WindowResized, NanoText, NanoKept, NanoDrawn, Newlines

LEMMA LoadOK == ASSUME NanoIInv, cmd_nano PROVE NanoIInv'
  <1>1. PICK k \in 0..Lesser(Len(file), MaxBuffer - 1) :
          /\ nano' = nano_render([NanoOff EXCEPT !.active = TRUE, !.buffer = SubSeq(file, 1, k)])
          /\ cut' = (k < Len(file))
    <2>1. PICK fault \in NanoFaults :
            \E k \in IF fault THEN 0..Lesser(Len(file), MaxBuffer - 1) ELSE {Lesser(Len(file), MaxBuffer - 1)} :
              /\ nano' = nano_render([NanoOff EXCEPT !.active = TRUE, !.buffer = SubSeq(file, 1, k)])
              /\ cut' = (k < Len(file))
      BY DEF cmd_nano
    <2>2. file \in Seq(Text)
      BY DEF cmd_nano, NanoIInv
    <2>3. Lesser(Len(file), MaxBuffer - 1) \in 0..Lesser(Len(file), MaxBuffer - 1)
      <3>1. Len(file) \in Nat /\ MaxBuffer \in Nat \ {0}
        BY <2>2, LenProperties, NanoAssumption
      <3> QED
        BY <3>1 DEF Lesser
    <2> QED
      BY <2>1, <2>3
  <1>2. file \in Seq(Text) /\ Len(file) \in Nat /\ MaxBuffer \in Nat \ {0}
    BY LenProperties, NanoAssumption DEF cmd_nano, NanoIInv
  <1>3. k \in Nat /\ k <= Len(file) /\ k < MaxBuffer
    BY <1>2 DEF Lesser
  <1> DEFINE b == SubSeq(file, 1, k)
             n == [NanoOff EXCEPT !.active = TRUE, !.buffer = b]
  <1>4. b \in Seq(Text) /\ Len(b) = k /\ (k = Len(file) => b = file)
    <2>1. 1 \in Nat \ {0} /\ 1 <= k + 1 /\ k - 1 + 1 = k
      BY <1>3
    <2>2. b \in Seq(Text) /\ Len(b) = k /\ \A i \in 1..k : b[i] = file[1 + i - 1]
      BY <1>2, <1>3, <2>1, PartOfSeq
    <2> HIDE DEF b
    <2>3. \A i \in 1..k : b[i] = file[i]
      BY <1>3, <2>2
    <2> QED
      BY <1>2, <2>2, <2>3, SeqEqual
  <1> HIDE DEF b
  <1>5. /\ n \in NanoRecords /\ n.active = TRUE /\ n.buffer = b /\ n.cursor = 0 /\ n.prompt_len = 0
        /\ n.scroll_row = 0 /\ n.rows = 0 /\ n.cursor_row = 0
    BY <1>4, NanoIsOffOK DEF NanoOff, NanoRecords
  <1> HIDE DEF n
  <1>6. NanoText(n)
    BY <1>3, <1>4, <1>5, NanoAssumption DEF NanoText
  <1>7. nano' = nano_render(n) /\ cut' \in BOOLEAN /\ UNCHANGED <<height, file>>
    BY <1>1 DEF n, b, cmd_nano
  <1>8. ~n.dirty /\ ~cut' => file' = n.buffer
    <2>1. cut' = (k < Len(file))
      BY <1>1
    <2>2. ~cut' => ~(k < Len(file))
      BY <2>1, Zenon
    <2>3. ~cut' => k = Len(file)
      BY <1>2, <1>3, <2>2
    <2> QED
      BY <1>4, <1>5, <1>7, <2>3
  <1>9. QED
    BY <1>2, <1>6, <1>7, <1>8, DrawnOK DEF NanoIInv

LEMMA NanoKeyOK == NanoIInv /\ NanoKey => NanoIInv'
  BY InsertCharOK, NanoBackspaceOK, MovesOK, CtrlXOK, DialogueOK, ConfirmOK, IdleKeyOK DEF NanoKey, Text

-----------------------------------------------------------------------------
(* The editor and the programs it starts, together. *)
IInv == LineIInv /\ HistoriesInv /\ NanoIInv

LEMMA SameLine ==
  ASSUME LineIInv, HistoriesInv, UNCHANGED lineVars
  PROVE  LineIInv' /\ HistoriesInv'
  <1>1. LineIInv'
    BY DEF LineIInv, lineVars, fileVars, WindowOK, WindowBase, Suggests
  <1>2. HistoriesInv'
    BY HistoriesStay DEF lineVars
  <1>3. QED
    BY <1>1, <1>2

LEMMA SameNano ==
  ASSUME NanoIInv, UNCHANGED nanoVars
  PROVE  NanoIInv'
  BY DEF NanoIInv, nanoVars, NanoText, NanoKept, NanoDrawn, Newlines

LEMMA RestsOK ==
  ASSUME nano' = NanoOff, height' \in Heights, file' \in Seq(Text) \cup {NoFile}, cut' = FALSE
  PROVE  NanoIInv'
  <1>1. NanoText(nano)'
    BY NanoIsOffOK DEF NanoText
  <1>2. QED
    BY <1>1, NanoIsOffOK DEF NanoIInv, NanoKept, NanoDrawn

LEMMA IInvInit == Init => IInv
  <1> SUFFICES ASSUME Init PROVE IInv
    OBVIOUS
  <1>1. LineIInv /\ HistoriesInv
    BY LineInitOK, HistoriesInit DEF Init
  <1>2. NanoIInv
    BY NanoIsOffOK DEF Init, NanoRests, NanoIInv, NanoKept, NanoDrawn
  <1>3. QED
    BY <1>1, <1>2 DEF IInv

LEMMA IInvNext == IInv /\ [Next]_vars => IInv'
  <1> SUFFICES ASSUME IInv, [Next]_vars PROVE IInv'
    OBVIOUS
  <1>1. LineIInv /\ HistoriesInv /\ NanoIInv
    BY DEF IInv
  <1>2. ASSUME terminal_handle_enter PROVE LineIInv' /\ HistoriesInv'
    BY <1>1, <1>2, EnterOK, EnterHistories
  <1>3. CASE AtPrompt /\ LineNext /\ UNCHANGED <<nanoVars, scriptVars>>
    BY <1>1, <1>3, LineNextOK, HistoriesNext, SameNano DEF IInv
  <1>4. CASE NanoTarget
    <2>1. /\ nano' = NanoOff /\ height' \in Heights /\ file' \in Files /\ cut' = FALSE /\ UNCHANGED lineVars
      BY <1>4 DEF NanoTarget, AtPrompt, NanoRests
    <2>2. file' \in Seq(Text)
      BY <2>1, NanoAssumption DEF Text
    <2> QED
      BY <1>1, <2>1, <2>2, RestsOK, SameLine DEF IInv
  <1>5. CASE StartNano
    BY <1>1, <1>2, <1>5, LoadOK DEF StartNano, IInv
  <1>6. CASE NanoLeft
    <2>1. nano' = NanoOff /\ height' = Max(Heights) /\ file' = NoFile /\ cut' = FALSE /\ UNCHANGED lineVars
      BY <1>6 DEF NanoLeft
    <2> QED
      BY <1>1, <2>1, RestsOK, NanoIsOffOK, SameLine DEF IInv
  <1>7. CASE StartScript
    BY <1>1, <1>2, <1>7, SameNano DEF StartScript, IInv
  <1>8. CASE NanoKey /\ UNCHANGED <<lineVars, scriptVars>>
    BY <1>1, <1>8, NanoKeyOK, SameLine DEF IInv
  <1>9. CASE nano.active /\ WindowResized /\ UNCHANGED <<lineVars, scriptVars>>
    BY <1>1, <1>9, ResizedOK, SameLine DEF IInv
  <1>10. CASE UNCHANGED <<lineVars, nanoVars>>
    BY <1>1, <1>10, SameLine, SameNano DEF IInv
  <1>11. QED
    BY <1>3, <1>4, <1>5, <1>6, <1>7, <1>8, <1>9, <1>10 DEF Next, vars

LEMMA IInvHolds == Spec => []IInv
  BY IInvInit, IInvNext, PTL DEF Spec

LEMMA LineTypes == LineIInv => LineTypeOK
  <1> SUFFICES ASSUME LineIInv PROVE LineTypeOK
    OBVIOUS
  <1>1. ASSUME NEW w \in Windows
        PROVE  /\ term[w].active \in BOOLEAN /\ term[w].applied \in BOOLEAN
               /\ term[w].line \in Lines /\ term[w].suffix \in Lines
               /\ term[w].pos \in 0..Len(term[w].line)
               /\ \A i \in DOMAIN term[w].history : term[w].history[i] \in Lines \ {<<>>}
               /\ Len(term[w].history) <= MaxHistory
               /\ term[w].history_pos \in 0..Len(term[w].history)
               /\ term[w].base_len \in 0..(Cols - 1)
    <2> DEFINE t == term[w]
    <2>1. WindowOK(t) /\ t \in WindowRecords
      BY DEF LineIInv
    <2> HIDE DEF t
    <2>2. /\ t.active \in BOOLEAN /\ t.applied \in BOOLEAN /\ t.line \in Seq(Chars) /\ t.suffix \in Seq(Chars)
          /\ t.pos \in Nat /\ t.history \in Seq(FullLines) /\ t.history_pos \in Nat /\ t.base_len \in Nat
      BY <2>1 DEF WindowRecords
    <2>3. /\ Len(t.line) < Cols /\ Len(t.suffix) < Cols /\ t.base_len < Cols /\ t.pos <= Len(t.line)
          /\ Len(t.history) <= MaxHistory /\ t.history_pos <= Len(t.history)
      BY <2>1 DEF WindowOK, WindowBase, Suggests
    <2>4. Len(t.line) \in Nat /\ Len(t.history) \in Nat /\ Cols \in Nat
      BY <2>2, LenProperties, LineAssumption
    <2>5. \A i \in DOMAIN t.history : t.history[i] \in Lines \ {<<>>}
      <3> TAKE i \in DOMAIN t.history
      <3>1. i \in 1..Len(t.history)
        BY <2>2, LenProperties
      <3> QED
        BY <2>2, <3>1, ElementOfSeq DEF FullLines
    <2>6. t.line \in Lines /\ t.suffix \in Lines
      BY <2>2, <2>3, LinesAreSeqs
    <2>7. t.pos \in 0..Len(t.line) /\ t.history_pos \in 0..Len(t.history) /\ t.base_len \in 0..(Cols - 1)
      BY <2>2, <2>3, <2>4
    <2> QED
      BY <2>2, <2>3, <2>5, <2>6, <2>7 DEF t
  <1>2. ASSUME NEW n \in Names, histfile[n] # NULL, NEW i \in DOMAIN histfile[n]
        PROVE  histfile[n][i] \in Lines \ {<<>>}
    <2>1. histfile[n] \in Seq(FullLines)
      BY <1>2, HistoryTypes
    <2>2. i \in 1..Len(histfile[n])
      BY <2>1, LenProperties
    <2> QED
      BY <2>1, <2>2, ElementOfSeq DEF FullLines
  <1>3. QED
    BY <1>1, <1>2 DEF LineTypeOK, LineIInv, Names

LEMMA NanoTypesHold == NanoIInv => NanoTypeOK
  <1> SUFFICES ASSUME NanoIInv PROVE NanoTypeOK
    OBVIOUS
  <1>1. /\ nano \in NanoRecords /\ Len(nano.buffer) < MaxBuffer /\ nano.cursor \in 0..Len(nano.buffer)
        /\ nano.prompt_len \in 0..(MaxPrompt - 1)
    BY NanoTypes
  <1>2. /\ nano.scroll_row < MaxBuffer /\ nano.rows \in Heights \cup {0} /\ nano.cursor_row <= nano.rows
        /\ height \in Heights /\ cut \in BOOLEAN
    BY DEF NanoIInv, NanoText
  <1>3. /\ nano.buffer \in Seq(Text) /\ nano.dirty \in BOOLEAN /\ nano.pending_save \in BOOLEAN
        /\ nano.active \in BOOLEAN /\ nano.prompt \in NanoPrompts
        /\ nano.scroll_row \in Nat /\ nano.rows \in Nat /\ nano.cursor_row \in Nat
    BY <1>1 DEF NanoRecords
  <1>4. nano.scroll_row \in 0..(MaxBuffer - 1) /\ nano.cursor_row \in 0..nano.rows
    BY <1>2, <1>3, NanoAssumption
  <1>5. QED
    BY <1>1, <1>2, <1>3, <1>4 DEF NanoTypeOK, NanoPrompts, Text

(* What a window suggests fits the line it is shown after, and Left takes off
   the line what Right has put there, whatever happens in between. *)
THEOREM SuggestionsFit == Spec => []SuggestionFits
  <1>1. IInv => SuggestionFits
    BY DEF IInv, LineIInv, WindowOK, Suggests, SuggestionFits
  <1>2. QED
    BY <1>1, IInvHolds, PTL

(* Until the history file is written or read in part, the windows remember the
   same last commands, and so does the file the next window will read: power
   going clears every earlier fault. *)
THEOREM HistoriesStayAlike == Spec => []HistoriesAgree
  <1>1. IInv => HistoriesAgree
    BY HistoriesInvAgree DEF IInv
  <1>2. QED
    BY <1>1, IInvHolds, PTL

LEMMA LeavesSaved ==
  ASSUME IInv, Next, nano.active, ~nano'.active, ~cut
  PROVE  \/ file' = nano.buffer
         \/ nano.prompt = "confirm" /\ ~nano.pending_save /\ file' = file
  <1>1. NanoIInv
    BY DEF IInv
  <1>2. nano # NanoOff /\ nano' # nano
    BY NanoIsOffOK
  <1>3. NanoKey
    BY <1>2 DEF Next, AtPrompt, NanoRests, NanoTarget, StartNano, NanoLeft, StartScript, WindowResized,
                nanoVars
  <1>4. CtrlX \/ Confirm
    BY <1>1, <1>3, InsertCharOK, NanoBackspaceOK, MovesOK, DialogueOK, IdleKeyOK DEF NanoKey, Text
  <1>5. CASE CtrlX
    <2>1. ~nano.dirty /\ file' = file
      <3>1. ASSUME NanoKeeps([nano EXCEPT !.prompt = "save choice"]) PROVE FALSE
        <4> DEFINE n == [nano EXCEPT !.prompt = "save choice"]
        <4>1. "save choice" \in NanoPrompts /\ 0 \in Nat /\ TRUE \in BOOLEAN
          BY DEF NanoPrompts
        <4>2. n = [nano EXCEPT !.prompt = "save choice", !.prompt_len = nano.prompt_len,
                               !.pending_save = nano.pending_save]
              /\ nano.pending_save \in BOOLEAN
          BY <1>1, <4>1, PromptsEqual
        <4>3. nano.prompt_len \in Nat /\ nano.prompt_len < MaxPrompt
          BY <1>1, NanoTypes
        <4>4. NanoKeeps(n)
          BY <3>1
        <4> HIDE DEF n
        <4> QED
          BY <1>1, <4>1, <4>2, <4>3, <4>4, PromptKeysOK
      <3> QED
        BY <1>5, <3>1 DEF CtrlX
    <2> QED
      BY <1>1, <2>1 DEF NanoIInv, NanoKept
  <1>6. CASE Confirm
    <2>1. ASSUME nano' = nano_render(nano_reset_prompt(nano)) PROVE FALSE
      <3>1. "none" \in NanoPrompts /\ FALSE \in BOOLEAN /\ 0 \in Nat /\ 0 < MaxPrompt
        BY <1>1, NanoTypes DEF NanoPrompts
      <3> DEFINE n == nano_reset_prompt(nano)
      <3>2. NanoText(n) /\ n.active = nano.active
        BY <1>1, <3>1, PromptedOK DEF nano_reset_prompt
      <3>3. nano' = nano_render(n)
        BY <2>1
      <3> HIDE DEF n
      <3>4. nano'.active = nano.active
        BY <1>1, <3>2, <3>3, RenderOK DEF NanoIInv, SameText
      <3> QED
        BY <3>4
    <2> QED
      BY <1>6, <2>1 DEF Confirm
  <1>7. QED
    BY <1>4, <1>5, <1>6

(* nano is left with its text in the file or on the user's word, whatever was
   typed, and whatever saves failed before. *)
THEOREM EditsAreKept == Spec => EditsKept
  <1>1. IInv /\ [Next]_vars =>
          [nano.active /\ ~nano'.active /\ ~cut =>
             \/ file' = nano.buffer
             \/ nano.prompt = "confirm" /\ ~nano.pending_save /\ file' = file]_nanoVars
    BY LeavesSaved DEF vars
  <1>2. QED
    BY <1>1, IInvHolds, PTL DEF Spec, EditsKept

-----------------------------------------------------------------------------
(* Where the lines of the text start. *)
StartsLine(b, i, l) == i \in 0..Len(b) /\ Newlines(b, i) = l /\ (i = 0 \/ b[i] = NL)

LEMMA NewlinesBetween ==
  ASSUME NEW b, NEW p \in Nat, NEW q \in Nat, p <= q, \A i \in (p + 1)..q : b[i] # NL
  PROVE  Newlines(b, q) = Newlines(b, p)
  <1>1. {i \in 1..q : b[i] = NL} = {i \in 1..p : b[i] = NL}
    <2>1. ASSUME NEW i \in 1..q, b[i] = NL PROVE i \in 1..p
      BY <2>1
    <2>2. \A i \in 1..p : i \in 1..q
      OBVIOUS
    <2> QED
      BY <2>1, <2>2
  <1>2. QED
    BY <1>1 DEF Newlines

LEMMA NewlinesGrow ==
  ASSUME NEW b \in Seq(Text), NEW p \in 0..Len(b), NEW q \in 0..Len(b), p < q, b[q] = NL
  PROVE  Newlines(b, p) < Newlines(b, q)
  <1>1. Len(b) \in Nat /\ p \in Nat /\ q - 1 \in Nat /\ q - 1 \in 0..Len(b) /\ p \in 0..(q - 1) /\ (q - 1) + 1 = q
    BY LenProperties
  <1>2. /\ Newlines(b, q - 1) \in Nat /\ Newlines(b, p) \in Nat
        /\ Newlines(b, p) <= Newlines(b, q - 1)
    BY <1>1, NewlinesProperties
  <1>3. Newlines(b, q) = Newlines(b, q - 1) + 1
    BY <1>1, NewlinesStep
  <1>4. QED
    BY <1>2, <1>3

LEMMA StartsLineItself ==
  ASSUME NEW b \in Seq(Text), NEW i \in 0..Len(b)
  PROVE  i = nano_line_start(b, i) <=> (i = 0 \/ b[i] = NL)
  <1> DEFINE start == nano_line_start(b, i)
  <1>1. /\ start \in 0..i /\ (start = 0 \/ b[start] = NL)
        /\ \A j \in (start + 1)..i : b[j] # NL
    BY LineStartProperties
  <1> HIDE DEF start
  <1>2. i \in Nat
    OBVIOUS
  <1>3. ASSUME start # i PROVE i # 0 /\ b[i] # NL
    <2>1. i \in (start + 1)..i /\ i # 0
      BY <1>1, <1>2, <1>3
    <2> QED
      BY <1>1, <2>1
  <1>4. QED
    BY <1>1, <1>3 DEF start

LEMMA OneStart ==
  ASSUME NEW b \in Seq(Text), NEW l, NEW i, NEW j, StartsLine(b, i, l), StartsLine(b, j, l)
  PROVE  i = j
  <1>1. i \in 0..Len(b) /\ j \in 0..Len(b) /\ i \in Nat /\ j \in Nat
    BY DEF StartsLine
  <1>2. Newlines(b, i) \in Nat /\ Newlines(b, i) = l /\ Newlines(b, j) = l
    BY <1>1, NewlinesProperties DEF StartsLine
  <1>3. ~(i < j)
    <2> SUFFICES ASSUME i < j PROVE FALSE
      OBVIOUS
    <2>1. b[j] = NL
      BY <1>1 DEF StartsLine
    <2> QED
      BY <1>1, <1>2, <2>1, NewlinesGrow
  <1>4. ~(j < i)
    <2> SUFFICES ASSUME j < i PROVE FALSE
      OBVIOUS
    <2>1. b[i] = NL
      BY <1>1 DEF StartsLine
    <2> QED
      BY <1>1, <1>2, <2>1, NewlinesGrow
  <1>5. QED
    BY <1>1, <1>3, <1>4

LEMMA LineStartIs ==
  ASSUME NEW b \in Seq(Text), NEW l, NEW i, StartsLine(b, i, l)
  PROVE  LineStart(b, l) = i
  <1> DEFINE S == {j \in 0..Len(b) : Newlines(b, j) = l /\ j = nano_line_start(b, j)}
  <1>1. S = {i}
    <2>1. i \in S
      BY StartsLineItself DEF StartsLine
    <2>2. ASSUME NEW j \in S PROVE j = i
      <3>1. StartsLine(b, j, l)
        BY StartsLineItself DEF StartsLine
      <3> QED
        BY <3>1, OneStart
    <2> QED
      BY <2>1, <2>2
  <1>2. LineStart(b, l) = Min({Len(b)} \cup S)
    BY DEF LineStart
  <1> HIDE DEF S
  <1>3. Len(b) \in Nat /\ i \in Nat /\ i <= Len(b)
    BY LenProperties DEF StartsLine
  <1>4. LineStart(b, l) = Min({Len(b), i})
    BY <1>1, <1>2
  <1>5. {Len(b), i} \in SUBSET Nat /\ {Len(b), i} # {}
    BY <1>3
  <1>6. Min({Len(b), i}) \in {Len(b), i} /\ \A y \in {Len(b), i} : Min({Len(b), i}) <= y
    BY <1>5, LeastOfSome
  <1>7. QED
    BY <1>3, <1>4, <1>6

LEMMA NextLineStarts ==
  ASSUME NEW b \in Seq(Text), NEW l \in Nat, NEW i, StartsLine(b, i, l), NEW p \in 0..Len(b), l < Newlines(b, p)
  PROVE  LET end == nano_line_end(b, i)
         IN  end \in Nat /\ i <= end /\ end < Len(b) /\ StartsLine(b, end + 1, l + 1)
  <1> DEFINE end == nano_line_end(b, i)
  <1>1. i \in 0..Len(b) /\ Newlines(b, i) = l /\ Len(b) \in Nat /\ i \in Nat
    BY LenProperties DEF StartsLine
  <1>2. end \in i..Len(b) /\ (end = Len(b) \/ b[end + 1] = NL) /\ \A j \in (i + 1)..end : b[j] # NL
    BY <1>1, LineEndProperties
  <1> HIDE DEF end
  <1>3. end \in Nat /\ i <= end /\ end <= Len(b)
    BY <1>1, <1>2
  <1>4. Newlines(b, end) = l
    BY <1>1, <1>2, <1>3, NewlinesBetween
  <1>5. end # Len(b)
    <2>1. Len(b) \in 0..Len(b) /\ p \in 0..Len(b)
      BY <1>1
    <2>2. Newlines(b, p) <= Newlines(b, Len(b)) /\ Newlines(b, p) \in Nat
      BY <2>1, NewlinesProperties
    <2> QED
      BY <1>4, <2>2
  <1>6. Newlines(b, end + 1) = l + 1 /\ b[end + 1] = NL
    BY <1>2, <1>3, <1>4, <1>5, NewlinesStep
  <1>7. end < Len(b) /\ end + 1 \in 0..Len(b)
    BY <1>1, <1>3, <1>5
  <1>8. QED
    BY <1>3, <1>6, <1>7 DEF StartsLine, end

LEMMA FirstLineStarts == ASSUME NEW b \in Seq(Text) PROVE StartsLine(b, 0, 0)
  <1>1. 0 \in 0..Len(b)
    BY LenProperties
  <1>2. Newlines(b, 0) \in Nat /\ Newlines(b, 0) <= 0
    BY <1>1, NewlinesProperties
  <1>3. QED
    BY <1>1, <1>2 DEF StartsLine

LEMMA LinesStart ==
  ASSUME NEW b \in Seq(Text), NEW p \in 0..Len(b), NEW l \in 0..Newlines(b, p)
  PROVE  StartsLine(b, LineStart(b, l), l)
  <1> DEFINE S == {k \in 0..Newlines(b, p) : ~ \E i : StartsLine(b, i, k)}
  <1>1. Newlines(b, p) \in Nat
    BY NewlinesProperties
  <1>2. S = {}
    <2> SUFFICES ASSUME S # {} PROVE FALSE
      OBVIOUS
    <2>1. S \in SUBSET Nat
      BY <1>1
    <2>2. PICK m \in S : \A k \in S : m <= k
      BY <2>1, LeastNatural
    <2>3. m \in Nat /\ m <= Newlines(b, p) /\ ~ \E i : StartsLine(b, i, m)
      BY <1>1, <2>2
    <2>4. m # 0
      BY <2>3, FirstLineStarts
    <2>5. m - 1 \in Nat /\ m - 1 \in 0..Newlines(b, p) /\ m - 1 < Newlines(b, p) /\ (m - 1) + 1 = m
      BY <1>1, <2>3, <2>4
    <2>6. m - 1 \notin S
      BY <2>2, <2>3, <2>5
    <2>7. PICK i : StartsLine(b, i, m - 1)
      BY <2>5, <2>6
    <2>8. StartsLine(b, nano_line_end(b, i) + 1, (m - 1) + 1)
      BY <2>5, <2>7, NextLineStarts
    <2> QED
      BY <2>3, <2>5, <2>8
  <1>3. PICK i : StartsLine(b, i, l)
    BY <1>2
  <1>4. QED
    BY <1>3, LineStartIs

LEMMA CursorLineStarts ==
  ASSUME NEW b \in Seq(Text), NEW p \in 0..Len(b)
  PROVE  LineStart(b, Newlines(b, p)) = nano_line_start(b, p)
  <1> DEFINE start == nano_line_start(b, p)
  <1>1. start \in 0..p /\ (start = 0 \/ b[start] = NL) /\ \A i \in (start + 1)..p : b[i] # NL
    BY LineStartProperties
  <1> HIDE DEF start
  <1>2. start \in Nat /\ p \in Nat /\ start <= p /\ start \in 0..Len(b)
    BY <1>1, LenProperties
  <1>3. Newlines(b, p) = Newlines(b, start)
    BY <1>1, <1>2, NewlinesBetween
  <1>4. StartsLine(b, start, Newlines(b, p))
    BY <1>1, <1>2, <1>3 DEF StartsLine
  <1>5. QED
    BY <1>4, LineStartIs DEF start

(* The text that goes into row r, from that of the row before. *)
RowAfter(n, r, from) ==
  LET end == nano_line_end(n.buffer, from)
  IN  IF n.scroll_row + r - 1 >= TotalLines(n.buffer) THEN from
      ELSE IF end - from > Width THEN from + Width
      ELSE Lesser(end + 1, Len(n.buffer))

RowsUpTo(n, f, k) ==
  f = [r \in 0..k |-> IF r = 0 THEN LineStart(n.buffer, n.scroll_row) ELSE RowAfter(n, r, f[r - 1])]

LEMMA RowsExist ==
  ASSUME NEW n, NEW rows \in Nat
  PROVE  \E f : RowsUpTo(n, f, rows)
  <1> DEFINE S == {k \in 0..rows : ~ \E f : RowsUpTo(n, f, k)}
  <1> SUFFICES ASSUME S # {} PROVE FALSE
    OBVIOUS
  <1>1. S \in SUBSET Nat
    OBVIOUS
  <1>2. PICK m \in S : \A k \in S : m <= k
    BY <1>1, LeastNatural
  <1>3. m \in Nat /\ m <= rows /\ ~ \E f : RowsUpTo(n, f, m)
    BY <1>2
  <1>4. m # 0
    <2> SUFFICES ASSUME m = 0 PROVE FALSE
      OBVIOUS
    <2> DEFINE base == LineStart(n.buffer, n.scroll_row)
               f == [r \in 0..0 |-> base]
    <2>1. \A r \in 0..0 : r = 0
      OBVIOUS
    <2>2. f = [r \in 0..0 |-> IF r = 0 THEN base ELSE RowAfter(n, r, f[r - 1])]
      <3> HIDE DEF base
      <3> QED
        BY <2>1
    <2> HIDE DEF f
    <2>3. RowsUpTo(n, f, 0)
      BY <2>2 DEF RowsUpTo
    <2> QED
      BY <1>3, <2>3
  <1>5. m - 1 \in Nat /\ m - 1 \in 0..rows /\ m - 1 < m
    BY <1>3, <1>4
  <1>6. m - 1 \notin S
    BY <1>2, <1>3, <1>5
  <1>7. PICK g : RowsUpTo(n, g, m - 1)
    BY <1>5, <1>6
  <1> DEFINE base == LineStart(n.buffer, n.scroll_row)
             last == RowAfter(n, m, g[m - 1])
             f == [r \in 0..m |-> IF r = m THEN last ELSE g[r]]
  <1>8. \A r \in 0..(m - 1) : g[r] = IF r = 0 THEN base ELSE RowAfter(n, r, g[r - 1])
    BY <1>7, Zenon DEF RowsUpTo
  <1> HIDE DEF base
  <1>9. ASSUME NEW r \in 0..m PROVE f[r] = IF r = 0 THEN base ELSE RowAfter(n, r, f[r - 1])
    <2>1. CASE r = m
      <3>1. m - 1 \in 0..m /\ m - 1 # m
        BY <1>3, <1>5
      <3>2. f[r - 1] = g[m - 1]
        BY <2>1, <3>1
      <3>3. f[r] = last
        BY <2>1
      <3> QED
        BY <1>4, <2>1, <3>2, <3>3
    <2>2. CASE r # m
      <3>1. r \in 0..(m - 1) /\ f[r] = g[r]
        BY <1>3, <2>2
      <3>2. CASE r = 0
        BY <1>8, <3>1, <3>2
      <3>3. CASE r # 0
        <4>1. r - 1 \in 0..m /\ r - 1 # m
          BY <1>3, <2>2, <3>1, <3>3
        <4>2. f[r - 1] = g[r - 1]
          BY <4>1
        <4> QED
          BY <1>8, <3>1, <3>3, <4>2
      <3> QED
        BY <3>2, <3>3
    <2> QED
      BY <2>1, <2>2
  <1>10. DOMAIN f = 0..m /\ f = [r \in 0..m |-> f[r]]
    BY Zenon
  <1> HIDE DEF f, last
  <1>11. f = [r \in 0..m |-> IF r = 0 THEN base ELSE RowAfter(n, r, f[r - 1])]
    BY <1>9, <1>10, Zenon
  <1>12. RowsUpTo(n, f, m)
    BY <1>11, Zenon DEF RowsUpTo, base
  <1>13. QED
    BY <1>3, <1>12

LEMMA RowStartIs ==
  ASSUME NEW n, n.rows \in Nat
  PROVE  \A r \in 0..n.rows :
           RowStart(n)[r] = IF r = 0 THEN LineStart(n.buffer, n.scroll_row)
                            ELSE RowAfter(n, r, RowStart(n)[r - 1])
  <1> DEFINE start == CHOOSE f : RowsUpTo(n, f, n.rows)
  <1>1. RowStart(n) = start
    BY Zenon DEF RowStart, RowsUpTo, RowAfter
  <1>2. RowsUpTo(n, start, n.rows)
    BY RowsExist
  <1> HIDE DEF start
  <1>3. \A r \in 0..n.rows : start[r] = IF r = 0 THEN LineStart(n.buffer, n.scroll_row)
                                        ELSE RowAfter(n, r, start[r - 1])
    BY <1>2, Zenon DEF RowsUpTo
  <1>4. QED
    BY <1>1, <1>3

(* Above the cursor every line has a row of its own if none is too wide. *)
LEMMA RowsAreLines ==
  ASSUME NEW n, NanoText(n),
         n.scroll_row <= Newlines(n.buffer, n.cursor),
         1 + Newlines(n.buffer, n.cursor) - n.scroll_row <= n.rows,
         \A l \in n.scroll_row..(Newlines(n.buffer, n.cursor) - 1) :
           LineStart(n.buffer, l + 1) - LineStart(n.buffer, l) - 1 <= Width,
         NEW r \in 0..(Newlines(n.buffer, n.cursor) - n.scroll_row)
  PROVE  RowStart(n)[r] = LineStart(n.buffer, n.scroll_row + r)
  <1> DEFINE b == n.buffer
             p == n.cursor
             s == n.scroll_row
             line == Newlines(b, p)
             S == {k \in 0..(line - s) : RowStart(n)[k] # LineStart(b, s + k)}
  <1>1. /\ b \in Seq(Text) /\ Len(b) \in Nat /\ p \in 0..Len(b) /\ s \in Nat /\ n.rows \in Nat
        /\ Width \in Nat
    BY LenProperties, NanoAssumption DEF NanoText, NanoRecords
  <1>2. line \in Nat /\ s <= line /\ 1 + line - s <= n.rows
    BY <1>1, NewlinesProperties
  <1>3. \A k \in 0..n.rows : RowStart(n)[k] = IF k = 0 THEN LineStart(b, s) ELSE RowAfter(n, k, RowStart(n)[k - 1])
    BY <1>1, RowStartIs
  <1>4. \A l \in s..(line - 1) : LineStart(b, l + 1) - LineStart(b, l) - 1 <= Width
    OBVIOUS
  <1>5. \A k \in 0..(line - s) : k \in Nat /\ k \in 0..n.rows
    BY <1>1, <1>2
  <1> HIDE DEF line
  <1>6. S = {}
    <2> SUFFICES ASSUME S # {} PROVE FALSE
      OBVIOUS
    <2>1. S \in SUBSET Nat
      BY <1>5
    <2>2. PICK m \in S : \A k \in S : m <= k
      BY <2>1, LeastNatural
    <2>3. m \in 0..(line - s) /\ m \in Nat /\ m \in 0..n.rows /\ RowStart(n)[m] # LineStart(b, s + m)
      BY <1>5, <2>2
    <2>4. m # 0
      <3>1. s + 0 = s
        BY <1>1
      <3> QED
        BY <1>3, <2>3, <3>1
    <2> DEFINE l == s + (m - 1)
               i == LineStart(b, l)
               end == nano_line_end(b, i)
    <2>5. m - 1 \in 0..(line - s) /\ ~(m <= m - 1)
      BY <1>1, <1>2, <2>3, <2>4
    <2>6. RowStart(n)[m - 1] = i
      BY <2>2, <2>5
    <2>7. l \in Nat /\ l < line /\ l + 1 = s + m /\ l \in s..(line - 1) /\ l \in 0..line
      <3> HIDE DEF s
      <3>1. s \in Nat /\ m - 1 \in Nat /\ m <= line - s
        BY <1>1, <1>2, <2>3, <2>4
      <3>2. l \in Nat /\ l < line /\ l + 1 = s + m /\ s <= l
        BY <1>2, <2>3, <3>1
      <3> HIDE DEF l
      <3> QED
        BY <1>2, <3>1, <3>2
    <2> HIDE DEF l
    <2>8. StartsLine(b, i, l)
      BY <1>1, <2>7, LinesStart DEF line
    <2>9. end \in Nat /\ i <= end /\ end < Len(b) /\ StartsLine(b, end + 1, l + 1)
      BY <1>1, <2>7, <2>8, NextLineStarts DEF line
    <2>10. LineStart(b, s + m) = end + 1
      BY <1>1, <2>7, <2>9, LineStartIs
    <2>11. i \in Nat
      BY <1>1, <2>8 DEF StartsLine
    <2>12. end - i <= Width
      <3>1. LineStart(b, l + 1) - i - 1 <= Width
        BY <1>4, <2>7
      <3>2. LineStart(b, l + 1) = end + 1
        BY <2>7, <2>10
      <3> HIDE DEF i, end
      <3> QED
        BY <1>1, <2>9, <2>11, <3>1, <3>2
    <2>13. TotalLines(b) \in Nat /\ line < TotalLines(b)
      <3>1. b # <<>>
        BY <1>1, <2>9, EmptySeq
      <3>2. Len(b) \in 0..Len(b)
        BY <1>1
      <3>3. Newlines(b, Len(b)) \in Nat /\ line <= Newlines(b, Len(b))
        BY <1>1, <3>2, NewlinesProperties DEF line
      <3> QED
        BY <1>2, <3>1, <3>3 DEF TotalLines
    <2>14. RowAfter(n, m, i) = end + 1
      <3>1. RowAfter(n, m, i) = IF s + m - 1 >= TotalLines(b) THEN i
                                ELSE IF end - i > Width THEN i + Width
                                ELSE Lesser(end + 1, Len(b))
        BY DEF RowAfter
      <3> DEFINE total == TotalLines(b)
                 length == Len(b)
      <3>2. total \in Nat /\ line < total /\ length \in Nat /\ end < length
        BY <1>1, <2>9, <2>13
      <3> HIDE DEF i, end, total, length
      <3>3. ~(s + m - 1 >= total)
        BY <1>1, <1>2, <2>3, <3>2
      <3>4. ~(end - i > Width)
        BY <1>1, <2>9, <2>11, <2>12
      <3>5. Lesser(end + 1, length) = end + 1
        BY <2>9, <3>2 DEF Lesser
      <3> QED
        BY <3>1, <3>3, <3>4, <3>5 DEF total, length
    <2>15. RowStart(n)[m] = end + 1
      BY <1>3, <2>3, <2>4, <2>6, <2>14
    <2> QED
      BY <2>3, <2>10, <2>15
  <1>7. r \in 0..(line - s)
    BY DEF line
  <1>8. QED
    BY <1>6, <1>7

LEMMA NanoShows == NanoIInv => CursorShown
  <1> SUFFICES ASSUME NanoIInv, nano.active, nano.rows > 0,
                      \A l \in nano.scroll_row..(Newlines(nano.buffer, nano.cursor) - 1) :
                        LineStart(nano.buffer, l + 1) - LineStart(nano.buffer, l) - 1 <= Width
               PROVE  /\ nano.cursor_row >= 1
                      /\ nano.scroll_row + nano.cursor_row - 1 = Newlines(nano.buffer, nano.cursor)
                      /\ RowStart(nano)[nano.cursor_row - 1] = nano_line_start(nano.buffer, nano.cursor)
    BY DEF CursorShown
  <1> DEFINE b == nano.buffer
             line == Newlines(b, nano.cursor)
             s == nano.scroll_row
  <1>1. /\ b \in Seq(Text) /\ nano.cursor \in 0..Len(b) /\ s \in Nat /\ nano.rows \in Nat /\ NanoText(nano)
        /\ nano.cursor_row \in Nat /\ nano.cursor_row <= nano.rows
    BY NanoTypes DEF NanoIInv, NanoText, NanoRecords
  <1>2. line \in Nat
    BY <1>1, NewlinesProperties
  <1>3. s <= line /\ nano.cursor_row = 1 + line - s
    BY DEF NanoIInv, NanoDrawn
  <1>4. line - s \in 0..(line - s) /\ 1 + line - s <= nano.rows
    BY <1>1, <1>2, <1>3
  <1>5. RowStart(nano)[line - s] = LineStart(b, s + (line - s))
    BY <1>1, <1>3, <1>4, RowsAreLines
  <1>6. LineStart(b, line) = nano_line_start(b, nano.cursor)
    BY <1>1, CursorLineStarts
  <1> HIDE DEF line
  <1>7. s + (line - s) = line /\ nano.cursor_row - 1 = line - s /\ nano.cursor_row >= 1
        /\ s + nano.cursor_row - 1 = line
    BY <1>1, <1>2, <1>3
  <1>8. QED
    BY <1>5, <1>6, <1>7 DEF line

(* The row nano puts the cursor in is the one that shows the cursor's line, for
   texts, windows and rows of any size. *)
THEOREM CursorIsShown == Spec => []CursorShown
  <1>1. IInv => CursorShown
    BY NanoShows DEF IInv
  <1>2. QED
    BY <1>1, IInvHolds, PTL

-----------------------------------------------------------------------------
(* Scripts: the lines, their levels and the blocks they make. *)

LEMMA ScriptLines ==
  ASSUME NEW s, Flow!WellFormed(s)
  PROVE  /\ Len(s) \in Nat \ {0} /\ DOMAIN s = 1..Len(s)
         /\ \A i \in 1..Len(s) : Flow!Kind(s, i) \in Flow!Kinds /\ s[i].inline \in BOOLEAN
  <1>1. s \in Seq([kind : Flow!Kinds, inline : BOOLEAN]) /\ s # <<>>
    BY Zenon DEF Flow!WellFormed
  <1>2. Len(s) \in Nat /\ Len(s) # 0 /\ DOMAIN s = 1..Len(s)
    BY <1>1, LenProperties, EmptySeq
  <1>3. \A i \in 1..Len(s) : s[i] \in [kind : Flow!Kinds, inline : BOOLEAN]
    BY <1>1, ElementOfSeq
  <1>4. \A i \in 1..Len(s) : s[i].kind \in Flow!Kinds /\ s[i].inline \in BOOLEAN
    BY <1>3
  <1>5. QED
    BY <1>2, <1>4 DEF Flow!Kind

(* How many lines before line i have one of these keywords. *)
Before(s, i, kinds) == Cardinality({j \in 1..(i - 1) : Flow!Kind(s, j) \in kinds})

LEMMA BeforeStep ==
  ASSUME NEW s, NEW kinds, NEW i \in Nat \ {0}
  PROVE  /\ Before(s, i, kinds) \in Nat /\ Before(s, 1, kinds) = 0
         /\ Before(s, i + 1, kinds) = Before(s, i, kinds) + (IF Flow!Kind(s, i) \in kinds THEN 1 ELSE 0)
  <1> DEFINE P(n) == {j \in 1..(n - 1) : Flow!Kind(s, j) \in kinds}
  <1>1. \A n \in Nat : IsFiniteSet(P(n)) /\ Cardinality(P(n)) \in Nat
    <2> TAKE n \in Nat
    <2>1. IsFiniteSet(1..(n - 1))
      BY FS_Interval
    <2>2. P(n) \in SUBSET (1..(n - 1))
      OBVIOUS
    <2> HIDE DEF P
    <2> QED
      BY <2>1, <2>2, FS_Subset, FS_CardinalityType
  <1>2. P(1) = {}
    OBVIOUS
  <1>3. i \in Nat /\ i + 1 \in Nat /\ 1 \in Nat
    OBVIOUS
  <1>4. i \notin P(i)
    OBVIOUS
  <1>5. P(i + 1) = IF Flow!Kind(s, i) \in kinds THEN P(i) \cup {i} ELSE P(i)
    <2>1. 1..(i + 1 - 1) = 1..(i - 1) \cup {i}
      OBVIOUS
    <2> QED
      BY <2>1
  <1>6. \A n : Before(s, n, kinds) = Cardinality(P(n))
    BY DEF Before
  <1> HIDE DEF P
  <1>7. Cardinality(P(i) \cup {i}) = Cardinality(P(i)) + 1
    BY <1>1, <1>3, <1>4, FS_AddElement
  <1>8. Cardinality(P(1)) = 0
    BY <1>2, FS_EmptySet
  <1>9. QED
    BY <1>1, <1>3, <1>5, <1>6, <1>7, <1>8

LEMMA Alike == \A S : Flow!Cardinality(S) = Cardinality(S) /\ Flow!Min(S) = Min(S) /\ Flow!Max(S) = Max(S)
  BY Zenon DEF Flow!Cardinality, Cardinality, Flow!Min, Min, Flow!Max, Max

LEMMA LevelIs == ASSUME NEW s, NEW i PROVE Flow!Level(s, i) = Before(s, i, Flow!Openers) - Before(s, i, Flow!Closers)
  BY Alike, Zenon DEF Flow!Level, Before

LEMMA LevelStep ==
  ASSUME NEW s, NEW i \in Nat \ {0}
  PROVE  /\ Flow!Level(s, i) \in Int /\ Flow!Level(s, 1) = 0
         /\ Flow!Kind(s, i) \in Flow!Openers => Flow!Level(s, i + 1) = Flow!Level(s, i) + 1
         /\ Flow!Kind(s, i) \in Flow!Closers => Flow!Level(s, i + 1) = Flow!Level(s, i) - 1
         /\ Flow!Kind(s, i) \notin Flow!Openers \cup Flow!Closers => Flow!Level(s, i + 1) = Flow!Level(s, i)
  <1>1. \A k \in Flow!Openers : k \notin Flow!Closers
    BY DEF Flow!Openers, Flow!Closers
  <1> DEFINE up(n) == Before(s, n, Flow!Openers)
             down(n) == Before(s, n, Flow!Closers)
  <1>2. \A n : Flow!Level(s, n) = up(n) - down(n)
    BY LevelIs
  <1>3. /\ up(i) \in Nat /\ up(1) = 0 /\ up(i + 1) = up(i) + (IF Flow!Kind(s, i) \in Flow!Openers THEN 1 ELSE 0)
        /\ down(i) \in Nat /\ down(1) = 0 /\ down(i + 1) = down(i) + (IF Flow!Kind(s, i) \in Flow!Closers THEN 1 ELSE 0)
    BY BeforeStep
  <1> HIDE DEF up, down
  <1>4. QED
    BY <1>1, <1>2, <1>3

(* The line that closes the block of h. *)
CloserOf(s, h) == CHOOSE j \in DOMAIN s : Flow!Closes(s, h, j)

LEMMA OpenerCloses ==
  ASSUME NEW s, Flow!WellFormed(s), NEW h \in 1..Len(s), Flow!Kind(s, h) \in Flow!Openers
  PROVE  /\ CloserOf(s, h) \in 1..Len(s) /\ h < CloserOf(s, h) /\ Flow!Closes(s, h, CloserOf(s, h))
         /\ Flow!Kind(s, CloserOf(s, h)) = IF Flow!Kind(s, h) = "if" THEN "fi" ELSE "done"
         /\ Flow!Kind(s, CloserOf(s, h)) \in Flow!Closers
         /\ Flow!Level(s, CloserOf(s, h)) = Flow!Level(s, h) + 1
         /\ Flow!Level(s, CloserOf(s, h) + 1) = Flow!Level(s, h)
         /\ \A j \in 1..(Len(s) + 1) : Flow!Holds(s, h, j) <=> h < j /\ j <= CloserOf(s, h)
         /\ \A j \in 1..(Len(s) + 1) : h < j /\ j <= CloserOf(s, h) => Flow!Level(s, j) > Flow!Level(s, h)
  <1> DEFINE c == CloserOf(s, h)
  <1>1. DOMAIN s = 1..Len(s) /\ Len(s) \in Nat
    BY ScriptLines
  <1>2. \E j \in DOMAIN s : Flow!Closes(s, h, j)
    BY <1>1, Zenon DEF Flow!WellFormed
  <1>3. c \in DOMAIN s /\ Flow!Closes(s, h, c)
    BY <1>2, Zenon DEF CloserOf
  <1> HIDE DEF c
  <1>4. /\ Flow!Holds(s, h, c) /\ Flow!Level(s, c) = Flow!Level(s, h) + 1
        /\ Flow!Kind(s, c) = IF Flow!Kind(s, h) = "if" THEN "fi" ELSE "done"
    BY <1>3, Zenon DEF Flow!Closes, Flow!Directly
  <1>5. Flow!Kind(s, c) \in Flow!Closers
    BY <1>4 DEF Flow!Closers
  <1>6. h < c /\ \A k \in (h + 1)..c : Flow!Level(s, k) > Flow!Level(s, h)
    BY <1>4, Zenon DEF Flow!Holds
  <1>7. \A n \in 1..(Len(s) + 1) : Flow!Level(s, n) \in Int
    BY <1>1, LevelStep
  <1>8. Flow!Level(s, c + 1) = Flow!Level(s, h)
    BY <1>1, <1>3, <1>4, <1>5, <1>7, LevelStep
  <1>9. ASSUME NEW j \in 1..(Len(s) + 1)
        PROVE  /\ Flow!Holds(s, h, j) <=> h < j /\ j <= c
               /\ h < j /\ j <= c => Flow!Level(s, j) > Flow!Level(s, h)
    <2>1. ASSUME h < j, j <= c PROVE Flow!Holds(s, h, j) /\ Flow!Level(s, j) > Flow!Level(s, h)
      <3>1. \A k \in (h + 1)..j : k \in (h + 1)..c
        BY <1>1, <1>3, <2>1
      <3>2. j \in (h + 1)..c
        BY <1>1, <1>3, <2>1
      <3> QED
        BY <1>6, <2>1, <3>1, <3>2 DEF Flow!Holds
    <2>2. ASSUME Flow!Holds(s, h, j), j > c PROVE FALSE
      <3>1. c + 1 \in (h + 1)..j
        BY <1>1, <1>3, <1>6, <2>2
      <3>2. Flow!Level(s, c + 1) > Flow!Level(s, h)
        BY <2>2, <3>1, Zenon DEF Flow!Holds
      <3> QED
        BY <1>1, <1>7, <1>8, <3>2
    <2>3. Flow!Holds(s, h, j) => h < j
      BY DEF Flow!Holds
    <2> QED
      BY <1>1, <1>3, <2>1, <2>2, <2>3
  <1>10. QED
    BY <1>1, <1>3, <1>4, <1>5, <1>6, <1>8, <1>9 DEF c

LEMMA NoLevelBelow ==
  ASSUME NEW s, Flow!WellFormed(s), NEW i \in 1..(Len(s) + 1)
  PROVE  Flow!Level(s, i) \in Nat
  <1> DEFINE S == {k \in 1..(Len(s) + 1) : ~(Flow!Level(s, k) >= 0)}
  <1>1. Len(s) \in Nat /\ \A k \in 1..(Len(s) + 1) : Flow!Level(s, k) \in Int
    BY ScriptLines, LevelStep
  <1>2. S = {}
    <2> SUFFICES ASSUME S # {} PROVE FALSE
      OBVIOUS
    <2>1. S \in SUBSET Nat
      OBVIOUS
    <2>2. PICK m \in S : \A k \in S : m <= k
      BY <2>1, LeastNatural
    <2>3. m \in 1..(Len(s) + 1) /\ Flow!Level(s, m) < 0 /\ \A k \in 1..(m - 1) : Flow!Level(s, k) >= 0
      BY <1>1, <2>2
    <2>4. m # 1
      BY <2>3, LevelStep
    <2>5. m - 1 \in 1..Len(s) /\ m - 1 \in Nat \ {0} /\ m - 1 + 1 = m /\ m - 1 \in 1..(m - 1)
      BY <1>1, <2>3, <2>4
    <2>6. Flow!Level(s, m - 1) >= 0 /\ Flow!Level(s, m - 1) \in Int
      BY <1>1, <2>3, <2>5
    <2>7. Flow!Kind(s, m - 1) \in Flow!Closers /\ Flow!Level(s, m - 1) = 0
      <3>1. \/ Flow!Level(s, m) = Flow!Level(s, m - 1) + 1
            \/ Flow!Level(s, m) = Flow!Level(s, m - 1)
            \/ Flow!Kind(s, m - 1) \in Flow!Closers /\ Flow!Level(s, m) = Flow!Level(s, m - 1) - 1
        BY <2>5, LevelStep
      <3> QED
        BY <2>3, <2>6, <3>1
    <2>8. PICK h \in DOMAIN s : Flow!Closes(s, h, m - 1)
      <3>1. \A k \in DOMAIN s : Flow!Kind(s, k) \in Flow!Closers => \E h \in DOMAIN s : Flow!Closes(s, h, k)
        BY Zenon DEF Flow!WellFormed
      <3>2. m - 1 \in DOMAIN s
        BY <2>5, ScriptLines
      <3> QED
        BY <2>7, <3>1, <3>2
    <2>9. h < m - 1 /\ Flow!Level(s, m - 1) = Flow!Level(s, h) + 1 /\ h \in 1..Len(s)
      BY <2>8, ScriptLines, Zenon DEF Flow!Closes, Flow!Directly, Flow!Holds
    <2>10. Flow!Level(s, h) >= 0 /\ Flow!Level(s, h) \in Int
      BY <1>1, <2>3, <2>9
    <2>11. QED
      BY <2>7, <2>9, <2>10
  <1>3. QED
    BY <1>1, <1>2

(* Of two blocks one is in the other or they are apart. *)
LEMMA BlocksNest ==
  ASSUME NEW s, Flow!WellFormed(s), NEW h \in 1..Len(s), NEW g \in 1..Len(s),
         Flow!Kind(s, h) \in Flow!Openers, Flow!Kind(s, g) \in Flow!Openers, h < g, g <= CloserOf(s, h)
  PROVE  CloserOf(s, g) < CloserOf(s, h)
  <1> DEFINE c == CloserOf(s, h)
             d == CloserOf(s, g)
             lv(i) == Flow!Level(s, i)
  <1>1. Len(s) \in Nat /\ \A k \in 1..(Len(s) + 1) : lv(k) \in Int
    BY ScriptLines, LevelStep
  <1>2. /\ c \in 1..Len(s) /\ lv(c) = lv(h) + 1 /\ lv(c + 1) = lv(h)
        /\ \A j \in 1..(Len(s) + 1) : h < j /\ j <= c => lv(j) > lv(h)
    BY OpenerCloses
  <1>3. /\ d \in 1..Len(s) /\ lv(d) = lv(g) + 1 /\ g < d
        /\ \A j \in 1..(Len(s) + 1) : g < j /\ j <= d => lv(j) > lv(g)
    BY OpenerCloses
  <1>4. Flow!Kind(s, c) \in Flow!Closers
    BY OpenerCloses
  <1>5. g # c
    BY <1>4 DEF Flow!Openers, Flow!Closers
  <1> HIDE DEF c, d, lv
  <1>6. lv(g) > lv(h) /\ g < c + 1 /\ c + 1 \in 1..(Len(s) + 1) /\ lv(g) \in Int /\ lv(h) \in Int
    BY <1>1, <1>2, <1>5 DEF c
  <1>7. ~(c + 1 <= d)
    BY <1>2, <1>3, <1>6
  <1>8. d # c
    BY <1>2, <1>3, <1>6
  <1>9. QED
    BY <1>1, <1>2, <1>3, <1>7, <1>8 DEF c, d

LEMMA DirectlyIn ==
  ASSUME NEW s, Flow!WellFormed(s), NEW h \in 1..Len(s), Flow!Kind(s, h) \in Flow!Openers,
         NEW i \in 1..(Len(s) + 1)
  PROVE  /\ Flow!Directly(s, h, i) <=> h < i /\ i <= CloserOf(s, h) /\ Flow!Level(s, i) = Flow!Level(s, h) + 1
         /\ Flow!Directly(s, h, i) => i \in 1..Len(s)
         /\ Flow!Directly(s, h, CloserOf(s, h))
  <1>1. CloserOf(s, h) \in 1..Len(s) /\ Flow!Closes(s, h, CloserOf(s, h))
    BY OpenerCloses
  <1>2. Flow!Holds(s, h, i) <=> h < i /\ i <= CloserOf(s, h)
    BY OpenerCloses
  <1>3. Flow!Directly(s, h, i) <=> h < i /\ i <= CloserOf(s, h) /\ Flow!Level(s, i) = Flow!Level(s, h) + 1
    BY <1>2, Zenon DEF Flow!Directly
  <1>4. Len(s) \in Nat
    BY ScriptLines
  <1>5. Flow!Directly(s, h, i) => i \in 1..Len(s)
    BY <1>1, <1>3, <1>4
  <1>6. QED
    BY <1>1, <1>3, <1>5, Zenon DEF Flow!Closes

LEMMA LeastIs ==
  ASSUME NEW S \in SUBSET Int, NEW m \in S, \A k \in S : m <= k
  PROVE  Flow!Min(S) = m /\ Min(S) = m
  <1>1. \A x \in S : (\A k \in S : x <= k) => x = m
    <2> TAKE x \in S
    <2>1. x \in Int /\ m \in Int
      OBVIOUS
    <2> QED
      BY <2>1
  <1>2. Min(S) = CHOOSE x \in S : \A k \in S : x <= k
    BY Zenon DEF Min
  <1>3. Min(S) = m
    BY <1>1, <1>2
  <1>4. QED
    BY <1>3, Alike

LEMMA GreatestIs ==
  ASSUME NEW S \in SUBSET Int, NEW m \in S, \A k \in S : k <= m
  PROVE  Flow!Max(S) = m
  <1>1. \A x \in S : (\A k \in S : k <= x) => x = m
    <2> TAKE x \in S
    <2>1. x \in Int /\ m \in Int
      OBVIOUS
    <2> QED
      BY <2>1
  <1>2. Flow!Max(S) = CHOOSE x \in S : \A k \in S : x >= k
    BY Zenon DEF Flow!Max
  <1>3. \E x \in S : \A k \in S : x >= k
    <2>1. \A k \in S : m >= k
      OBVIOUS
    <2> QED
      BY <2>1
  <1>4. QED
    BY <1>1, <1>2, <1>3

(* A line belongs to one block, which one closer ends. *)
LEMMA OneBlock ==
  ASSUME NEW s, Flow!WellFormed(s), NEW h \in 1..Len(s), NEW g \in 1..Len(s), NEW i \in 1..Len(s),
         Flow!Kind(s, h) \in Flow!Openers, Flow!Kind(s, g) \in Flow!Openers,
         Flow!Directly(s, h, i), Flow!Directly(s, g, i)
  PROVE  h = g
  <1> DEFINE lv(k) == Flow!Level(s, k)
             c(k) == CloserOf(s, k)
  <1>1. Len(s) \in Nat /\ \A k \in 1..(Len(s) + 1) : lv(k) \in Int
    BY ScriptLines, LevelStep
  <1>2. i \in 1..(Len(s) + 1)
    BY <1>1
  <1>3. h < i /\ i <= c(h) /\ lv(i) = lv(h) + 1 /\ g < i /\ i <= c(g) /\ lv(i) = lv(g) + 1
    BY <1>2, DirectlyIn
  <1>4. /\ \A j \in 1..(Len(s) + 1) : h < j /\ j <= c(h) => lv(j) > lv(h)
        /\ \A j \in 1..(Len(s) + 1) : g < j /\ j <= c(g) => lv(j) > lv(g)
        /\ c(h) \in 1..Len(s) /\ c(g) \in 1..Len(s)
    BY OpenerCloses
  <1> HIDE DEF lv, c
  <1>5. ~(h < g)
    BY <1>1, <1>3, <1>4
  <1>6. ~(g < h)
    BY <1>1, <1>3, <1>4
  <1>7. QED
    BY <1>5, <1>6

LEMMA ClosesOnce ==
  ASSUME NEW s, Flow!WellFormed(s), NEW h \in 1..Len(s), Flow!Kind(s, h) \in Flow!Openers,
         NEW i \in 1..Len(s), Flow!Directly(s, h, i), Flow!Kind(s, i) \in Flow!Closers
  PROVE  i = CloserOf(s, h)
  <1> DEFINE lv(k) == Flow!Level(s, k)
             c == CloserOf(s, h)
  <1>1. Len(s) \in Nat /\ \A k \in 1..(Len(s) + 1) : lv(k) \in Int
    BY ScriptLines, LevelStep
  <1>2. i \in 1..(Len(s) + 1)
    BY <1>1
  <1>3. h < i /\ i <= c /\ lv(i) = lv(h) + 1
    BY <1>2, DirectlyIn
  <1>4. lv(i + 1) = lv(i) - 1
    BY <1>1, LevelStep
  <1>5. c \in 1..Len(s) /\ \A j \in 1..(Len(s) + 1) : h < j /\ j <= c => lv(j) > lv(h)
    BY OpenerCloses
  <1> HIDE DEF lv, c
  <1>6. ~(i < c)
    BY <1>1, <1>3, <1>4, <1>5
  <1>7. QED
    BY <1>3, <1>5, <1>6 DEF c

(* A line of the block that h opens, or of none: h is 0, its lines are those on
   level 0 and the end. *)
InBlock(s, h, i) ==
  IF h = 0 THEN i \in 1..(Len(s) + 1) /\ Flow!Level(s, i) = 0
  ELSE i \in DOMAIN s /\ Flow!Directly(s, h, i)

Opens(s, h) == h = 0 \/ (h \in 1..Len(s) /\ Flow!Kind(s, h) \in Flow!Openers)

LEMMA CloserHere ==
  ASSUME NEW s, Flow!WellFormed(s), NEW h, Opens(s, h), NEW i \in 1..Len(s), InBlock(s, h, i)
  PROVE  /\ Flow!Kind(s, i) \in Flow!Closers => h # 0 /\ i = CloserOf(s, h)
         /\ Flow!Kind(s, i) \in {"elif", "else"} =>
              /\ h # 0 /\ Flow!Kind(s, h) = "if"
              /\ \A k \in h..i : Flow!Kind(s, k) = "else" /\ Flow!Directly(s, h, k) => k = i
  <1>1. DOMAIN s = 1..Len(s) /\ Len(s) \in Nat /\ \A k \in 1..(Len(s) + 1) : Flow!Level(s, k) \in Nat
    BY ScriptLines, NoLevelBelow
  <1>2. ASSUME NEW g \in DOMAIN s, Flow!Kind(s, g) \in Flow!Openers, Flow!Directly(s, g, i) PROVE h = g
    <2>1. g \in 1..Len(s) /\ Flow!Level(s, i) = Flow!Level(s, g) + 1
      BY <1>1, <1>2, Zenon DEF Flow!Directly
    <2>2. Flow!Level(s, g) \in Nat
      BY <1>1, <2>1
    <2>3. Flow!Level(s, i) # 0
      BY <2>1, <2>2
    <2>4. h # 0 /\ h \in 1..Len(s) /\ Flow!Kind(s, h) \in Flow!Openers /\ Flow!Directly(s, h, i)
      BY <2>3, Zenon DEF InBlock, Opens
    <2> QED
      BY <1>2, <2>1, <2>4, OneBlock
  <1>3. ASSUME Flow!Kind(s, i) \in Flow!Closers PROVE h # 0 /\ i = CloserOf(s, h)
    <2>1. PICK g \in DOMAIN s : Flow!Kind(s, g) \in Flow!Openers /\ Flow!Closes(s, g, i)
      BY <1>1, <1>3, Zenon DEF Flow!WellFormed
    <2>2. Flow!Directly(s, g, i)
      BY <2>1, Zenon DEF Flow!Closes
    <2>3. h = g /\ g \in 1..Len(s)
      BY <1>1, <1>2, <2>1, <2>2
    <2>4. i = CloserOf(s, g)
      BY <1>3, <2>1, <2>2, <2>3, ClosesOnce
    <2> QED
      BY <2>3, <2>4
  <1>4. ASSUME Flow!Kind(s, i) \in {"elif", "else"}
        PROVE  /\ h # 0 /\ Flow!Kind(s, h) = "if"
               /\ \A k \in h..i : Flow!Kind(s, k) = "else" /\ Flow!Directly(s, h, k) => k = i
    <2>1. PICK g \in DOMAIN s : /\ Flow!Kind(s, g) = "if" /\ Flow!Directly(s, g, i)
                                /\ \A k \in g..i : Flow!Kind(s, k) = "else" /\ Flow!Directly(s, g, k) => k = i
      BY <1>1, <1>4, Zenon DEF Flow!WellFormed
    <2>2. Flow!Kind(s, g) \in Flow!Openers
      BY <2>1 DEF Flow!Openers
    <2>3. h = g /\ g # 0
      BY <1>1, <1>2, <2>1, <2>2
    <2> QED
      BY <2>1, <2>3
  <1>5. QED
    BY <1>3, <1>4

(* From line to line of a block: over what an inner block holds. *)
LEMMA LineAfter ==
  ASSUME NEW s, Flow!WellFormed(s), NEW h, Opens(s, h), NEW i \in 1..Len(s), InBlock(s, h, i),
         Flow!Kind(s, i) \notin Flow!Closers
  PROVE  /\ Flow!Kind(s, i) \notin Flow!Openers => InBlock(s, h, i + 1)
         /\ Flow!Kind(s, i) \in Flow!Openers => InBlock(s, h, CloserOf(s, i) + 1)
  <1> DEFINE lv(k) == Flow!Level(s, k)
             c(k) == CloserOf(s, k)
  <1>1. DOMAIN s = 1..Len(s) /\ Len(s) \in Nat /\ \A k \in 1..(Len(s) + 1) : lv(k) \in Int
    BY ScriptLines, LevelStep
  <1>2. Flow!Kind(s, i) \notin Flow!Openers => lv(i + 1) = lv(i)
    BY LevelStep
  <1>3. Flow!Kind(s, i) \in Flow!Openers => c(i) \in 1..Len(s) /\ i < c(i) /\ lv(c(i) + 1) = lv(i)
    BY OpenerCloses
  <1>4. CASE h = 0
    <2>1. lv(i) = 0
      BY <1>4 DEF InBlock
    <2> HIDE DEF lv, c
    <2>2. Flow!Kind(s, i) \notin Flow!Openers => i + 1 \in 1..(Len(s) + 1) /\ lv(i + 1) = 0
      BY <1>1, <1>2, <2>1
    <2>3. Flow!Kind(s, i) \in Flow!Openers => c(i) + 1 \in 1..(Len(s) + 1) /\ lv(c(i) + 1) = 0
      BY <1>1, <1>3, <2>1
    <2> QED
      BY <1>4, <2>2, <2>3, Zenon DEF InBlock, c, lv
  <1>5. CASE h # 0
    <2>1. h \in 1..Len(s) /\ Flow!Kind(s, h) \in Flow!Openers /\ Flow!Directly(s, h, i)
      BY <1>5, Zenon DEF InBlock, Opens
    <2>2. h < i /\ i <= c(h) /\ lv(i) = lv(h) + 1
      <3>1. i \in 1..(Len(s) + 1)
        BY <1>1
      <3> QED
        BY <2>1, <3>1, DirectlyIn
    <2>3. c(h) \in 1..Len(s) /\ Flow!Kind(s, c(h)) \in Flow!Closers
      BY <2>1, OpenerCloses
    <2>4. i # c(h)
      BY <2>3
    <2>5. Flow!Kind(s, i) \in Flow!Openers => c(i) < c(h)
      BY <2>1, <2>2, BlocksNest
    <2> HIDE DEF lv, c
    <2>6. i + 1 \in 1..(Len(s) + 1) /\ i + 1 <= c(h) /\ h < i + 1
      BY <1>1, <2>1, <2>2, <2>3, <2>4
    <2>7. Flow!Kind(s, i) \notin Flow!Openers => Flow!Directly(s, h, i + 1) /\ i + 1 \in 1..Len(s)
      <3>1. Flow!Kind(s, i) \notin Flow!Openers => Flow!Level(s, i + 1) = Flow!Level(s, h) + 1
        BY <1>2, <2>2 DEF lv
      <3> QED
        BY <2>1, <2>6, <3>1, DirectlyIn DEF c
    <2>8. Flow!Kind(s, i) \in Flow!Openers => Flow!Directly(s, h, c(i) + 1) /\ c(i) + 1 \in 1..Len(s)
      <3>1. Flow!Kind(s, i) \in Flow!Openers => Flow!Level(s, c(i) + 1) = Flow!Level(s, h) + 1
        BY <1>3, <2>2 DEF lv
      <3>2. Flow!Kind(s, i) \in Flow!Openers => c(i) + 1 \in 1..(Len(s) + 1) /\ h < c(i) + 1 /\ c(i) + 1 <= c(h)
        BY <1>1, <1>3, <2>1, <2>2, <2>3, <2>5
      <3> QED
        BY <2>1, <3>1, <3>2, DirectlyIn DEF c
    <2> QED
      BY <1>1, <1>5, <2>7, <2>8, Zenon DEF InBlock, c
  <1>6. QED
    BY <1>4, <1>5

(* The block an opener opens, and the arms of an if, end at the same line. *)
LEMMA NextCloser ==
  ASSUME NEW s, Flow!WellFormed(s), NEW h \in 1..Len(s), Flow!Kind(s, h) \in Flow!Openers,
         NEW i \in 1..Len(s), NEW kinds, h <= i, i < CloserOf(s, h),
         Flow!Inside(s, i) = Flow!Level(s, h) + 1, kinds = {Flow!Kind(s, CloserOf(s, h))}
  PROVE  Flow!NextOf(s, i, kinds) = CloserOf(s, h)
  <1> DEFINE c == CloserOf(s, h)
             S == {j \in DOMAIN s : j > i /\ Flow!Level(s, j) = Flow!Inside(s, i) /\ Flow!Kind(s, j) \in kinds}
  <1>1. DOMAIN s = 1..Len(s) /\ Len(s) \in Nat
    BY ScriptLines
  <1>2. /\ c \in 1..Len(s) /\ Flow!Kind(s, c) \in Flow!Closers
        /\ Flow!Level(s, c) = Flow!Level(s, h) + 1
    BY OpenerCloses
  <1>3. c \in S
    BY <1>1, <1>2
  <1>4. ASSUME NEW j \in S PROVE c <= j
    <2>1. SUFFICES ASSUME j < c PROVE FALSE
      BY <1>1, <1>2
    <2>2. j \in 1..Len(s) /\ j \in 1..(Len(s) + 1) /\ h < j /\ j <= c
      BY <1>1, <1>2, <2>1
    <2>3. Flow!Level(s, j) = Flow!Level(s, h) + 1 /\ Flow!Kind(s, j) \in Flow!Closers
      BY <1>2
    <2>4. Flow!Directly(s, h, j)
      BY <2>2, <2>3, DirectlyIn
    <2>5. j = c
      BY <2>2, <2>3, <2>4, ClosesOnce
    <2> QED
      BY <2>1, <2>5, <1>2
  <1>5. S \in SUBSET Int
    BY <1>1
  <1>6. Flow!NextOf(s, i, kinds) = Flow!Min(S)
    BY Zenon DEF Flow!NextOf
  <1> HIDE DEF S
  <1>7. QED
    BY <1>3, <1>4, <1>5, <1>6, LeastIs

LEMMA OpenersNext ==
  ASSUME NEW s, Flow!WellFormed(s), NEW h \in 1..Len(s), Flow!Kind(s, h) \in Flow!Openers
  PROVE  /\ Flow!Kind(s, h) \in Flow!Loops => Flow!NextOf(s, h, {"done"}) = CloserOf(s, h)
         /\ \A i \in 1..Len(s) : Flow!Directly(s, h, i) /\ Flow!Kind(s, i) \in {"elif", "else"} =>
              Flow!NextOf(s, i, {"fi"}) = CloserOf(s, h)
  <1>1. /\ CloserOf(s, h) \in 1..Len(s) /\ h < CloserOf(s, h) /\ Flow!Kind(s, CloserOf(s, h)) \in Flow!Closers
        /\ Flow!Kind(s, CloserOf(s, h)) = IF Flow!Kind(s, h) = "if" THEN "fi" ELSE "done"
    BY OpenerCloses
  <1>2. ASSUME Flow!Kind(s, h) \in Flow!Loops PROVE Flow!NextOf(s, h, {"done"}) = CloserOf(s, h)
    <2>1. {"done"} = {Flow!Kind(s, CloserOf(s, h))}
      BY <1>1, <1>2 DEF Flow!Loops
    <2>2. Flow!Inside(s, h) = Flow!Level(s, h) + 1
      BY DEF Flow!Inside
    <2> QED
      BY <1>1, <2>1, <2>2, NextCloser
  <1>3. ASSUME NEW i \in 1..Len(s), Flow!Directly(s, h, i), Flow!Kind(s, i) \in {"elif", "else"}
        PROVE  Flow!NextOf(s, i, {"fi"}) = CloserOf(s, h)
    <2>1. h # 0 /\ Opens(s, h) /\ InBlock(s, h, i)
      BY <1>3, ScriptLines DEF Opens, InBlock
    <2>2. Flow!Kind(s, h) = "if"
      BY <1>3, <2>1, CloserHere
    <2>3. {"fi"} = {Flow!Kind(s, CloserOf(s, h))}
      BY <1>1, <2>2
    <2>4. i \in 1..(Len(s) + 1)
      BY ScriptLines
    <2>5. h < i /\ i <= CloserOf(s, h) /\ Flow!Level(s, i) = Flow!Level(s, h) + 1
      BY <1>3, <2>4, DirectlyIn
    <2>6. Flow!Kind(s, i) \notin Flow!Openers /\ i # CloserOf(s, h)
      BY <1>1, <1>3 DEF Flow!Openers, Flow!Closers
    <2>7. Flow!Inside(s, i) = Flow!Level(s, h) + 1
      BY <2>5, <2>6 DEF Flow!Inside
    <2>8. h <= i /\ i < CloserOf(s, h)
      BY <1>1, <2>5, <2>6
    <2> QED
      BY <2>3, <2>7, <2>8, NextCloser
  <1>4. QED
    BY <1>2, <1>3

(* The loops a line is in. *)
LoopsAround(s, i) == {h \in DOMAIN s : Flow!Encloses(s, h, i)}

LEMMA LoopsAroundAre ==
  ASSUME NEW s, Flow!WellFormed(s), NEW i \in 1..(Len(s) + 1), NEW h
  PROVE  h \in LoopsAround(s, i) <=> h \in 1..Len(s) /\ Flow!Kind(s, h) \in Flow!Loops /\ h < i /\ i <= CloserOf(s, h)
  <1>1. DOMAIN s = 1..Len(s) /\ Len(s) \in Nat
    BY ScriptLines
  <1>2. h \in LoopsAround(s, i) <=> h \in 1..Len(s) /\ Flow!Encloses(s, h, i)
    BY <1>1 DEF LoopsAround
  <1>3. ASSUME h \in 1..Len(s)
        PROVE  Flow!Encloses(s, h, i) <=> Flow!Kind(s, h) \in Flow!Loops /\ h < i /\ i <= CloserOf(s, h)
    <2>1. Flow!Encloses(s, h, i) <=> Flow!Kind(s, h) \in Flow!Loops /\ h < i /\ Flow!NextOf(s, h, {"done"}) >= i
      BY Zenon DEF Flow!Encloses
    <2>2. ASSUME Flow!Kind(s, h) \in Flow!Loops
          PROVE  Flow!NextOf(s, h, {"done"}) = CloserOf(s, h) /\ CloserOf(s, h) \in 1..Len(s)
      <3>1. Flow!Kind(s, h) \in Flow!Openers
        BY <2>2 DEF Flow!Openers, Flow!Loops
      <3> QED
        BY <1>3, <2>2, <3>1, OpenersNext, OpenerCloses
    <2>3. ASSUME Flow!Kind(s, h) \in Flow!Loops
          PROVE  (Flow!NextOf(s, h, {"done"}) >= i) <=> (i <= CloserOf(s, h))
      BY <1>1, <2>2, <2>3
    <2> QED
      BY <2>1, <2>3
  <1>4. QED
    BY <1>2, <1>3

LEMMA LoopsDirectly ==
  ASSUME NEW s, Flow!WellFormed(s), NEW h \in 1..Len(s), Flow!Kind(s, h) \in Flow!Openers,
         NEW i \in 1..Len(s), Flow!Directly(s, h, i)
  PROVE  LoopsAround(s, i) = LoopsAround(s, h) \cup (IF Flow!Kind(s, h) \in Flow!Loops THEN {h} ELSE {})
  <1> DEFINE lv(k) == Flow!Level(s, k)
             c(k) == CloserOf(s, k)
  <1>1. Len(s) \in Nat /\ i \in 1..(Len(s) + 1) /\ h \in 1..(Len(s) + 1) /\ \A k \in 1..(Len(s) + 1) : lv(k) \in Int
    BY ScriptLines, LevelStep
  <1>2. h < i /\ i <= c(h) /\ lv(i) = lv(h) + 1
    BY <1>1, DirectlyIn
  <1>3. \A k \in 1..Len(s) : Flow!Kind(s, k) \in Flow!Loops => Flow!Kind(s, k) \in Flow!Openers
    BY DEF Flow!Loops, Flow!Openers
  <1>4. \A j \in 1..(Len(s) + 1) : h < j /\ j <= c(h) => lv(j) > lv(h)
    BY OpenerCloses
  <1>5. ASSUME NEW g \in 1..Len(s), Flow!Kind(s, g) \in Flow!Loops, g # h
        PROVE  (g < i /\ i <= c(g)) <=> (g < h /\ h <= c(g))
    <2>1. Flow!Kind(s, g) \in Flow!Openers
      BY <1>3, <1>5
    <2>2. c(g) \in 1..Len(s) /\ c(h) \in 1..Len(s) /\ \A j \in 1..(Len(s) + 1) : g < j /\ j <= c(g) => lv(j) > lv(g)
      BY <2>1, OpenerCloses
    <2>3. g < h /\ h <= c(g) => c(h) < c(g)
      BY <2>1, BlocksNest
    <2> HIDE DEF lv, c
    <2>4. ASSUME g < i, i <= c(g) PROVE g < h
      <3>1. SUFFICES ASSUME h < g PROVE FALSE
        BY <1>5
      <3>2. g \in 1..(Len(s) + 1) /\ g <= c(h)
        BY <1>1, <1>2, <2>2, <2>4
      <3>3. lv(g) > lv(h) /\ lv(i) > lv(g)
        BY <1>1, <1>4, <2>2, <2>4, <3>1, <3>2
      <3> QED
        BY <1>1, <1>2, <3>2, <3>3
    <2> QED
      BY <1>1, <1>2, <2>2, <2>3, <2>4
  <1>6. \A g : g \in LoopsAround(s, i) <=> g \in 1..Len(s) /\ Flow!Kind(s, g) \in Flow!Loops /\ g < i /\ i <= c(g)
    BY <1>1, LoopsAroundAre
  <1>7. \A g : g \in LoopsAround(s, h) <=> g \in 1..Len(s) /\ Flow!Kind(s, g) \in Flow!Loops /\ g < h /\ h <= c(g)
    BY <1>1, LoopsAroundAre
  <1> HIDE DEF lv, c
  <1>8. QED
    BY <1>2, <1>5, <1>6, <1>7

LEMMA LoopsAfter ==
  ASSUME NEW s, Flow!WellFormed(s), NEW i \in 1..Len(s), Flow!Kind(s, i) \notin Flow!Closers
  PROVE  /\ Flow!Kind(s, i) \notin Flow!Openers => LoopsAround(s, i + 1) = LoopsAround(s, i)
         /\ Flow!Kind(s, i) \in Flow!Openers => LoopsAround(s, CloserOf(s, i) + 1) = LoopsAround(s, i)
  <1> DEFINE c(k) == CloserOf(s, k)
  <1>1. Len(s) \in Nat /\ i \in 1..(Len(s) + 1) /\ i + 1 \in 1..(Len(s) + 1)
    BY ScriptLines
  <1>2. \A k \in 1..Len(s) : Flow!Kind(s, k) \in Flow!Loops => Flow!Kind(s, k) \in Flow!Openers
    BY DEF Flow!Loops, Flow!Openers
  <1>3. \A g \in 1..Len(s) : Flow!Kind(s, g) \in Flow!Loops =>
          c(g) \in 1..Len(s) /\ Flow!Kind(s, c(g)) \in Flow!Closers /\ g < c(g)
    BY <1>2, OpenerCloses
  <1>4. \A g : g \in LoopsAround(s, i) <=> g \in 1..Len(s) /\ Flow!Kind(s, g) \in Flow!Loops /\ g < i /\ i <= c(g)
    BY <1>1, LoopsAroundAre
  <1>5. ASSUME Flow!Kind(s, i) \notin Flow!Openers PROVE LoopsAround(s, i + 1) = LoopsAround(s, i)
    <2>1. \A g : g \in LoopsAround(s, i + 1) <=> g \in 1..Len(s) /\ Flow!Kind(s, g) \in Flow!Loops /\ g < i + 1 /\ i + 1 <= c(g)
      BY <1>1, LoopsAroundAre
    <2>2. ASSUME NEW g \in 1..Len(s), Flow!Kind(s, g) \in Flow!Loops PROVE g # i /\ c(g) # i /\ c(g) \in 1..Len(s)
      BY <1>2, <1>3, <1>5, <2>2
    <2> HIDE DEF c
    <2>3. ASSUME NEW g \in 1..Len(s), Flow!Kind(s, g) \in Flow!Loops
          PROVE  (g < i + 1 /\ i + 1 <= c(g)) <=> (g < i /\ i <= c(g))
      BY <2>2, <2>3
    <2> QED
      BY <1>4, <2>1, <2>3
  <1>6. ASSUME Flow!Kind(s, i) \in Flow!Openers PROVE LoopsAround(s, CloserOf(s, i) + 1) = LoopsAround(s, i)
    <2>1. c(i) \in 1..Len(s) /\ c(i) + 1 \in 1..(Len(s) + 1) /\ i < c(i) /\ Flow!Kind(s, c(i)) \in Flow!Closers
      BY <1>1, <1>6, OpenerCloses
    <2>2. \A g : g \in LoopsAround(s, c(i) + 1) <=>
            g \in 1..Len(s) /\ Flow!Kind(s, g) \in Flow!Loops /\ g < c(i) + 1 /\ c(i) + 1 <= c(g)
      BY <2>1, LoopsAroundAre
    <2>3. ASSUME NEW g \in 1..Len(s), Flow!Kind(s, g) \in Flow!Loops
          PROVE  (g < c(i) + 1 /\ c(i) + 1 <= c(g)) <=> (g < i /\ i <= c(g))
      <3>1. Flow!Kind(s, g) \in Flow!Openers /\ c(g) \in 1..Len(s)
        BY <1>2, <1>3, <2>3
      <3>2. g < i /\ i <= c(g) => c(i) < c(g)
        BY <1>6, <3>1, BlocksNest
      <3>3. i < g /\ g <= c(i) => c(g) < c(i)
        BY <1>6, <3>1, BlocksNest
      <3> HIDE DEF c
      <3> QED
        BY <2>1, <3>1, <3>2, <3>3
    <2>4. LoopsAround(s, c(i) + 1) = LoopsAround(s, i)
      <3> HIDE DEF c
      <3> QED
        BY <1>4, <2>2, <2>3
    <2> QED
      BY <2>4
  <1>7. QED
    BY <1>5, <1>6

(* Behind a line that tests, past its then or do, is a line of the block it opens
   or divides. *)
LEMMA ThenOrDo ==
  ASSUME NEW s, Flow!WellFormed(s), NEW i \in 1..Len(s), Flow!Kind(s, i) \in Flow!Tested
  PROVE  /\ i + 1 \in 1..(Len(s) + 1)
         /\ s[i].inline => AfterOpener(s, i) = i + 1
         /\ ~s[i].inline => /\ AfterOpener(s, i) = i + 1 + 1 /\ i + 1 \in 1..Len(s)
                            /\ Flow!Kind(s, i + 1) \in {"then", "do"}
  <1>1. DOMAIN s = 1..Len(s) /\ Len(s) \in Nat /\ s[i].inline \in BOOLEAN
    BY ScriptLines
  <1>2. ~s[i].inline => i < Len(s) /\ Flow!Kind(s, i + 1) = IF Flow!Kind(s, i) \in Flow!Loops THEN "do" ELSE "then"
    BY <1>1, Zenon DEF Flow!WellFormed
  <1>3. i + 1 + 1 = i + 2
    OBVIOUS
  <1>4. QED
    BY <1>1, <1>2, <1>3 DEF AfterOpener

LEMMA BodyStarts ==
  ASSUME NEW s, Flow!WellFormed(s), NEW h \in 1..Len(s), Flow!Kind(s, h) \in Flow!Openers,
         NEW i \in 1..Len(s), Flow!Kind(s, i) \in Flow!Tested,
         i = h \/ (Flow!Directly(s, h, i) /\ Flow!Kind(s, i) = "elif")
  PROVE  LET j == AfterOpener(s, i) IN
         /\ InBlock(s, h, i + 1) /\ InBlock(s, h, j) /\ j \in 1..Len(s) /\ i < j
         /\ LoopsAround(s, j) = LoopsAround(s, h) \cup (IF Flow!Kind(s, h) \in Flow!Loops THEN {h} ELSE {})
  <1> DEFINE j == AfterOpener(s, i)
  <1>1. DOMAIN s = 1..Len(s) /\ Len(s) \in Nat /\ h # 0 /\ Opens(s, h)
    BY ScriptLines DEF Opens
  <1>2. CloserOf(s, h) \in 1..Len(s) /\ h < CloserOf(s, h)
    BY OpenerCloses
  <1>3. InBlock(s, h, i + 1)
    <2>1. CASE i = h
      <3>1. h + 1 \in 1..(Len(s) + 1) /\ h < h + 1 /\ h + 1 <= CloserOf(s, h)
        BY <1>1, <1>2
      <3>2. Flow!Level(s, h + 1) = Flow!Level(s, h) + 1
        BY LevelStep
      <3>3. Flow!Directly(s, h, h + 1) /\ h + 1 \in 1..Len(s)
        BY <3>1, <3>2, DirectlyIn
      <3> QED
        BY <1>1, <2>1, <3>3 DEF InBlock
    <2>2. CASE i # h
      <3>1. InBlock(s, h, i) /\ Flow!Kind(s, i) = "elif"
        BY <1>1, <2>2 DEF InBlock
      <3>2. Flow!Kind(s, i) \notin Flow!Openers /\ Flow!Kind(s, i) \notin Flow!Closers
        BY <3>1 DEF Flow!Openers, Flow!Closers
      <3> QED
        BY <1>1, <3>1, <3>2, LineAfter
    <2> QED
      BY <2>1, <2>2
  <1>4. InBlock(s, h, j) /\ i < j
    <2>1. CASE s[i].inline
      BY <1>3, <2>1, ThenOrDo
    <2>2. CASE ~s[i].inline
      <3>1. j = i + 1 + 1 /\ i + 1 \in 1..Len(s) /\ Flow!Kind(s, i + 1) \in {"then", "do"}
        BY <2>2, ThenOrDo
      <3>2. Flow!Kind(s, i + 1) \notin Flow!Openers /\ Flow!Kind(s, i + 1) \notin Flow!Closers
        BY <3>1 DEF Flow!Openers, Flow!Closers
      <3>3. InBlock(s, h, i + 1 + 1)
        BY <1>1, <1>3, <3>1, <3>2, LineAfter
      <3> QED
        BY <3>1, <3>3
    <2> QED
      BY <2>1, <2>2, <1>1, ScriptLines
  <1>5. j \in 1..Len(s) /\ Flow!Directly(s, h, j)
    BY <1>1, <1>4, Zenon DEF InBlock
  <1>6. LoopsAround(s, j) = LoopsAround(s, h) \cup (IF Flow!Kind(s, h) \in Flow!Loops THEN {h} ELSE {})
    BY <1>5, LoopsDirectly
  <1>7. QED
    BY <1>3, <1>4, <1>5, <1>6

-----------------------------------------------------------------------------
(* Where control comes to: the recursive function of the lines exists. *)
Came(s, i, at) ==
  IF i > Len(s) THEN i
  ELSE IF Flow!Kind(s, i) \in {"elif", "else"} THEN at[Flow!NextOf(s, i, {"fi"}) + 1]
  ELSE IF Flow!Kind(s, i) \in {"fi", "then", "do"} THEN at[i + 1]
  ELSE IF Flow!Kind(s, i) = "done" THEN Flow!LoopOf(s, i)
  ELSE i

(* From line k on. *)
CameFrom(s, k, at) == at = [i \in k..(Len(s) + 1) |-> Came(s, i, at)]

LEMMA FiAfter ==
  ASSUME NEW s, Flow!WellFormed(s), NEW i \in 1..Len(s), Flow!Kind(s, i) \in {"elif", "else"}
  PROVE  Flow!NextOf(s, i, {"fi"}) \in (i + 1)..Len(s)
  <1>1. DOMAIN s = 1..Len(s) /\ Len(s) \in Nat
    BY ScriptLines
  <1>2. PICK h \in DOMAIN s : Flow!Kind(s, h) = "if" /\ Flow!Directly(s, h, i)
    BY <1>1, Zenon DEF Flow!WellFormed
  <1>3. h \in 1..Len(s) /\ Flow!Kind(s, h) \in Flow!Openers /\ i \in 1..(Len(s) + 1)
    BY <1>1, <1>2 DEF Flow!Openers
  <1>4. Flow!NextOf(s, i, {"fi"}) = CloserOf(s, h)
    BY <1>2, <1>3, OpenersNext
  <1>5. i <= CloserOf(s, h)
    BY <1>2, <1>3, DirectlyIn
  <1>6. Flow!Kind(s, CloserOf(s, h)) \in Flow!Closers /\ CloserOf(s, h) \in 1..Len(s)
    BY <1>3, OpenerCloses
  <1>7. i # CloserOf(s, h)
    BY <1>6 DEF Flow!Closers
  <1>8. QED
    BY <1>1, <1>4, <1>5, <1>6, <1>7

LEMMA CameAgrees ==
  ASSUME NEW s, Flow!WellFormed(s), NEW i \in 1..(Len(s) + 1), NEW f, NEW g,
         \A k \in (i + 1)..(Len(s) + 1) : f[k] = g[k]
  PROVE  Came(s, i, f) = Came(s, i, g)
  <1>1. Len(s) \in Nat
    BY ScriptLines
  <1>2. CASE i > Len(s)
    BY <1>2 DEF Came
  <1>3. CASE ~(i > Len(s))
    <2>1. i \in 1..Len(s) /\ i + 1 \in (i + 1)..(Len(s) + 1)
      BY <1>1, <1>3
    <2>2. Flow!Kind(s, i) \in {"elif", "else"} => Flow!NextOf(s, i, {"fi"}) + 1 \in (i + 1)..(Len(s) + 1)
      BY <1>1, <2>1, FiAfter
    <2>3. f[i + 1] = g[i + 1]
      BY <2>1
    <2>4. Flow!Kind(s, i) \in {"elif", "else"} => f[Flow!NextOf(s, i, {"fi"}) + 1] = g[Flow!NextOf(s, i, {"fi"}) + 1]
      BY <2>2
    <2> QED
      BY <2>3, <2>4, Zenon DEF Came
  <1>4. QED
    BY <1>2, <1>3

LEMMA CameExists ==
  ASSUME NEW s, Flow!WellFormed(s)
  PROVE  \E at : CameFrom(s, 1, at)
  <1> DEFINE last == Len(s) + 1
             S == {d \in 0..Len(s) : ~ \E f : CameFrom(s, last - d, f)}
  <1>1. Len(s) \in Nat \ {0}
    BY ScriptLines
  <1>2. S = {}
    <2> SUFFICES ASSUME S # {} PROVE FALSE
      OBVIOUS
    <2>1. S \in SUBSET Nat
      OBVIOUS
    <2>2. PICK m \in S : \A k \in S : m <= k
      BY <2>1, LeastNatural
    <2>3. m \in 0..Len(s) /\ ~ \E f : CameFrom(s, last - m, f)
      BY <2>2
    <2> DEFINE k == last - m
    <2>4. k \in 1..last /\ (m = 0 => k = last)
      BY <1>1, <2>3
    <2>5. PICK g : \A i \in (k + 1)..last : g[i] = Came(s, i, g)
      <3>1. CASE m = 0
        <4>1. (k + 1)..last = {}
          BY <1>1, <2>4, <3>1
        <4> QED
          BY <4>1
      <3>2. CASE m # 0
        <4>1. m - 1 \in 0..Len(s) /\ ~(m <= m - 1)
          BY <1>1, <2>3, <3>2
        <4>2. m - 1 \notin S
          BY <2>2, <4>1
        <4>3. PICK g : CameFrom(s, last - (m - 1), g)
          BY <4>1, <4>2
        <4>4. last - (m - 1) = k + 1
          BY <1>1, <2>3
        <4>5. g = [i \in (k + 1)..(Len(s) + 1) |-> Came(s, i, g)]
          BY <4>3, <4>4, Zenon DEF CameFrom
        <4>6. \A i \in (k + 1)..last : g[i] = Came(s, i, g)
          BY <4>5, Zenon
        <4> QED
          BY <4>6
      <3> QED
        BY <3>1, <3>2
    <2> DEFINE v == Came(s, k, g)
               f == [i \in k..last |-> IF i = k THEN v ELSE g[i]]
    <2> HIDE DEF k
    <2>6. \A i \in (k + 1)..last : f[i] = g[i]
      <3> HIDE DEF v
      <3> QED
        BY <1>1, <2>4
    <2>7. f[k] = v
      <3> HIDE DEF v
      <3> QED
        BY <1>1, <2>4
    <2>8. ASSUME NEW i \in k..last PROVE f[i] = Came(s, i, f)
      <3>1. i \in 1..(Len(s) + 1) /\ \A n \in (i + 1)..(Len(s) + 1) : n \in (k + 1)..last
        BY <1>1, <2>4
      <3> HIDE DEF f, v
      <3>2. Came(s, i, f) = Came(s, i, g)
        BY <2>6, <3>1, CameAgrees
      <3>3. CASE i = k
        BY <2>7, <3>2, <3>3 DEF v
      <3>4. CASE i # k
        <4>1. i \in (k + 1)..last
          BY <1>1, <2>4, <3>4
        <4> QED
          BY <2>5, <2>6, <3>2, <4>1
      <3> QED
        BY <3>3, <3>4
    <2>9. f = [i \in k..last |-> f[i]]
      BY Zenon
    <2> HIDE DEF f
    <2>10. f = [i \in k..last |-> Came(s, i, f)]
      BY <2>8, <2>9, Zenon
    <2>11. CameFrom(s, k, f)
      BY <2>10, Zenon DEF CameFrom
    <2> QED
      BY <2>3, <2>11 DEF k
  <1>3. Len(s) \in 0..Len(s) /\ last - Len(s) = 1
    BY <1>1
  <1>4. \E f : CameFrom(s, last - Len(s), f)
    BY <1>2, <1>3
  <1>5. QED
    BY <1>3, <1>4

LEMMA ReachedIs ==
  ASSUME NEW s, Flow!WellFormed(s), NEW i \in 1..(Len(s) + 1)
  PROVE  Flow!Reached(s)[i] = Came(s, i, Flow!Reached(s))
  <1> DEFINE at == CHOOSE f : CameFrom(s, 1, f)
  <1>1. Flow!Reached(s) = at
    BY Zenon DEF Flow!Reached, CameFrom, Came
  <1>2. CameFrom(s, 1, at)
    BY CameExists
  <1> HIDE DEF at
  <1>3. at = [k \in 1..(Len(s) + 1) |-> Came(s, k, at)]
    BY <1>2, Zenon DEF CameFrom
  <1>4. at[i] = Came(s, i, at)
    BY <1>3, Zenon
  <1>5. QED
    BY <1>1, <1>4

LEMMA LoopOfIs ==
  ASSUME NEW s, Flow!WellFormed(s), NEW h \in 1..Len(s), Flow!Kind(s, h) \in Flow!Loops,
         NEW i \in 1..(Len(s) + 1), LoopsAround(s, i) = LoopsAround(s, h) \cup {h}
  PROVE  Flow!LoopOf(s, i) = h
  <1>1. Len(s) \in Nat /\ h \in 1..(Len(s) + 1)
    BY ScriptLines
  <1>2. \A g \in LoopsAround(s, h) : g \in 1..Len(s) /\ g < h
    BY <1>1, LoopsAroundAre
  <1>3. \A g \in LoopsAround(s, i) : g \in Int /\ g <= h
    BY <1>2
  <1>4. h \in LoopsAround(s, i) /\ LoopsAround(s, i) \in SUBSET Int
    BY <1>3
  <1>5. Flow!Max(LoopsAround(s, i)) = h
    BY <1>3, <1>4, GreatestIs
  <1>6. QED
    BY <1>5, Zenon DEF Flow!LoopOf, LoopsAround

LEMMA ReachedOf ==
  ASSUME NEW s, Flow!WellFormed(s)
  PROVE  /\ Flow!Reached(s)[Len(s) + 1] = Len(s) + 1
         /\ \A i \in 1..Len(s) :
              /\ Flow!Kind(s, i) \notin {"elif", "else", "fi", "then", "do", "done"} => Flow!Reached(s)[i] = i
              /\ Flow!Kind(s, i) \in {"fi", "then", "do"} => Flow!Reached(s)[i] = Flow!Reached(s)[i + 1]
  <1>1. Len(s) \in Nat
    BY ScriptLines
  <1>2. Len(s) + 1 \in 1..(Len(s) + 1) /\ Len(s) + 1 > Len(s)
    BY <1>1
  <1>3. Flow!Reached(s)[Len(s) + 1] = Len(s) + 1
    BY <1>2, ReachedIs DEF Came
  <1>4. ASSUME NEW i \in 1..Len(s)
        PROVE /\ Flow!Kind(s, i) \notin {"elif", "else", "fi", "then", "do", "done"} => Flow!Reached(s)[i] = i
              /\ Flow!Kind(s, i) \in {"fi", "then", "do"} => Flow!Reached(s)[i] = Flow!Reached(s)[i + 1]
    <2>1. i \in 1..(Len(s) + 1) /\ ~(i > Len(s))
      BY <1>1
    <2>2. Flow!Reached(s)[i] = Came(s, i, Flow!Reached(s))
      BY <2>1, ReachedIs
    <2> QED
      BY <2>1, <2>2 DEF Came
  <1>5. QED
    BY <1>3, <1>4

LEMMA ReachedArm ==
  ASSUME NEW s, Flow!WellFormed(s), NEW h \in 1..Len(s), Flow!Kind(s, h) \in Flow!Openers,
         NEW i \in 1..Len(s), Flow!Directly(s, h, i), Flow!Kind(s, i) \in {"elif", "else", "fi"}
  PROVE  Flow!Reached(s)[i] = Flow!Reached(s)[CloserOf(s, h) + 1]
  <1>1. Len(s) \in Nat
    BY ScriptLines
  <1>2. i \in 1..(Len(s) + 1) /\ ~(i > Len(s))
    BY <1>1
  <1>3. CASE Flow!Kind(s, i) = "fi"
    <2>1. i = CloserOf(s, h)
      BY <1>3, ClosesOnce DEF Flow!Closers
    <2> QED
      BY <1>3, <2>1, ReachedOf
  <1>4. CASE Flow!Kind(s, i) \in {"elif", "else"}
    <2>1. Flow!Reached(s)[i] = Flow!Reached(s)[Flow!NextOf(s, i, {"fi"}) + 1]
      <3>1. Flow!Reached(s)[i] = Came(s, i, Flow!Reached(s))
        BY <1>2, ReachedIs
      <3> QED
        BY <1>2, <1>4, <3>1 DEF Came
    <2> QED
      BY <1>4, <2>1, OpenersNext
  <1>5. QED
    BY <1>3, <1>4

LEMMA ReachedDone ==
  ASSUME NEW s, Flow!WellFormed(s), NEW h \in 1..Len(s), Flow!Kind(s, h) \in Flow!Loops
  PROVE  Flow!Reached(s)[CloserOf(s, h)] = h
  <1> DEFINE i == CloserOf(s, h)
  <1>1. Len(s) \in Nat /\ Flow!Kind(s, h) \in Flow!Openers
    BY ScriptLines DEF Flow!Loops, Flow!Openers
  <1>2. i \in 1..Len(s) /\ Flow!Kind(s, i) = IF Flow!Kind(s, h) = "if" THEN "fi" ELSE "done"
    BY <1>1, OpenerCloses
  <1>3. Flow!Kind(s, i) = "done"
    BY <1>2 DEF Flow!Loops
  <1> HIDE DEF i
  <1>4. i \in 1..(Len(s) + 1) /\ ~(i > Len(s))
    BY <1>1, <1>2
  <1>5. Flow!Directly(s, h, i)
    BY <1>1, <1>4, DirectlyIn DEF i
  <1>6. LoopsAround(s, i) = LoopsAround(s, h) \cup {h}
    BY <1>1, <1>2, <1>5, LoopsDirectly
  <1>7. Flow!LoopOf(s, i) = h
    BY <1>4, <1>6, LoopOfIs
  <1>8. Flow!Reached(s)[i] = Came(s, i, Flow!Reached(s))
    BY <1>4, ReachedIs
  <1>9. Flow!Reached(s)[i] = Flow!LoopOf(s, i)
    BY <1>3, <1>4, <1>8 DEF Came
  <1>10. QED
    BY <1>7, <1>9 DEF i

LEMMA ReachedBody ==
  ASSUME NEW s, Flow!WellFormed(s), NEW i \in 1..Len(s), Flow!Kind(s, i) \in Flow!Tested
  PROVE  Flow!Reached(s)[AfterOpener(s, i)] = Flow!Reached(s)[i + 1]
  <1>1. CASE s[i].inline
    BY <1>1, ThenOrDo
  <1>2. CASE ~s[i].inline
    BY <1>2, ThenOrDo, ReachedOf
  <1>3. QED
    BY <1>1, <1>2

-----------------------------------------------------------------------------
(* The done a loop finds is its own.  Between the head of a block and its other
   lines, loops and dones balance, and so do ifs and fis. *)
Excess(s, i, opening, closing) == Before(s, i, opening) - Before(s, i, closing)

Pairs == {<<Flow!Loops, {"done"}>>, <<{"if"}, {"fi"}>>}

LEMMA ExcessStep ==
  ASSUME NEW s, NEW i \in Nat \ {0}, NEW pr \in Pairs
  PROVE  /\ Excess(s, i, pr[1], pr[2]) \in Int
         /\ Excess(s, i + 1, pr[1], pr[2]) = Excess(s, i, pr[1], pr[2])
              + (IF Flow!Kind(s, i) \in pr[1] THEN 1 ELSE 0) - (IF Flow!Kind(s, i) \in pr[2] THEN 1 ELSE 0)
  <1> DEFINE up(k) == Before(s, k, pr[1])
             down(k) == Before(s, k, pr[2])
  <1>1. /\ up(i) \in Nat /\ up(i + 1) = up(i) + (IF Flow!Kind(s, i) \in pr[1] THEN 1 ELSE 0)
        /\ down(i) \in Nat /\ down(i + 1) = down(i) + (IF Flow!Kind(s, i) \in pr[2] THEN 1 ELSE 0)
    BY BeforeStep
  <1>2. Excess(s, i, pr[1], pr[2]) = up(i) - down(i) /\ Excess(s, i + 1, pr[1], pr[2]) = up(i + 1) - down(i + 1)
    BY DEF Excess
  <1> HIDE DEF up, down
  <1>3. QED
    BY <1>1, <1>2

LEMMA PairKinds ==
  ASSUME NEW pr \in Pairs
  PROVE  /\ \A k : k \in pr[1] => k \in Flow!Openers /\ k \notin pr[2]
         /\ \A k : k \in pr[2] => k \in Flow!Closers
         /\ \A k \in Flow!Openers : k \in pr[1] <=> (IF k = "if" THEN "fi" ELSE "done") \in pr[2]
  <1>1. CASE pr = <<Flow!Loops, {"done"}>>
    <2>1. pr[1] = Flow!Loops /\ pr[2] = {"done"}
      BY <1>1
    <2> QED
      BY <2>1 DEF Flow!Openers, Flow!Closers, Flow!Loops
  <1>2. CASE pr = <<{"if"}, {"fi"}>>
    <2>1. pr[1] = {"if"} /\ pr[2] = {"fi"}
      BY <1>2
    <2> QED
      BY <2>1 DEF Flow!Openers, Flow!Closers
  <1>3. QED
    BY <1>1, <1>2 DEF Pairs

LEMMA BlocksBalance ==
  ASSUME NEW s, Flow!WellFormed(s), NEW pr \in Pairs, NEW h \in 1..Len(s), Flow!Kind(s, h) \in Flow!Openers,
         NEW i \in 1..Len(s), Flow!Directly(s, h, i)
  PROVE  Excess(s, i, pr[1], pr[2]) = Excess(s, h + 1, pr[1], pr[2])
  <1> DEFINE x(k) == Excess(s, k, pr[1], pr[2])
             lv(k) == Flow!Level(s, k)
             c(k) == CloserOf(s, k)
             S == {k \in 1..Len(s) : \E g \in 1..Len(s) :
                     Flow!Kind(s, g) \in Flow!Openers /\ Flow!Directly(s, g, k) /\ x(k) # x(g + 1)}
  <1>1. DOMAIN s = 1..Len(s) /\ Len(s) \in Nat /\ \A k \in 1..(Len(s) + 1) : lv(k) \in Int /\ x(k) \in Int
    <2>1. DOMAIN s = 1..Len(s) /\ Len(s) \in Nat
      BY ScriptLines
    <2>2. \A k \in Nat \ {0} : lv(k) \in Int
      BY LevelStep
    <2>3. \A k \in Nat \ {0} : x(k) \in Int
      BY ExcessStep
    <2>4. \A k \in 1..(Len(s) + 1) : k \in Nat \ {0}
      OBVIOUS
    <2> HIDE DEF lv, x
    <2> QED
      BY <2>1, <2>2, <2>3, <2>4
  <1>2. S = {}
    <2> SUFFICES ASSUME S # {} PROVE FALSE
      OBVIOUS
    <2>1. S \in SUBSET Nat
      OBVIOUS
    <2>2. PICK m \in S : \A k \in S : m <= k
      BY <2>1, LeastNatural
    <2>3. PICK g \in 1..Len(s) : Flow!Kind(s, g) \in Flow!Openers /\ Flow!Directly(s, g, m) /\ x(m) # x(g + 1)
      BY <2>2
    <2>4. m \in 1..Len(s) /\ m \in 1..(Len(s) + 1)
      BY <1>1
    <2>5. ASSUME NEW k \in 1..Len(s), NEW f \in 1..Len(s), k < m,
                 Flow!Kind(s, f) \in Flow!Openers, Flow!Directly(s, f, k)
          PROVE  x(k) = x(f + 1)
      <3>1. k \notin S
        BY <2>2, <2>4, <2>5
      <3> HIDE DEF x
      <3> QED
        BY <2>5, <3>1
    <2> HIDE DEF x
    <2>6. g < m /\ m <= c(g) /\ lv(m) = lv(g) + 1
      BY <2>3, <2>4, DirectlyIn
    <2>7. c(g) \in 1..Len(s) /\ \A j \in 1..(Len(s) + 1) : g < j /\ j <= c(g) => lv(j) > lv(g)
      BY <2>3, OpenerCloses
    <2>8. m # g + 1
      BY <2>3
    <2> DEFINE n == m - 1
    <2>9. n \in 1..Len(s) /\ n \in Nat \ {0} /\ n + 1 = m /\ g < n /\ n <= c(g) /\ n < m /\ n \in 1..(Len(s) + 1) /\ n < c(g)
      BY <1>1, <2>4, <2>6, <2>7, <2>8
    <2> HIDE DEF n
    <2>10. lv(n) > lv(g)
      BY <2>7, <2>9
    <2>11. Flow!Kind(s, n) \notin Flow!Openers
      <3>1. Flow!Kind(s, n) \in Flow!Openers => lv(m) = lv(n) + 1
        BY <2>9, LevelStep
      <3>2. lv(n) \in Int /\ lv(g) \in Int
        BY <1>1, <2>9
      <3> HIDE DEF lv
      <3> QED
        BY <2>6, <2>10, <3>1, <3>2
    <2>12. CASE Flow!Kind(s, n) \notin Flow!Closers
      <3>1. lv(m) = lv(n)
        BY <2>9, <2>11, <2>12, LevelStep
      <3>2. Flow!Directly(s, g, n)
        BY <2>3, <2>6, <2>9, <3>1, DirectlyIn
      <3>3. x(n) = x(g + 1)
        BY <2>3, <2>5, <2>9, <3>2
      <3>4. Flow!Kind(s, n) \notin pr[1] /\ Flow!Kind(s, n) \notin pr[2]
        BY <2>11, <2>12, PairKinds
      <3>5. x(n + 1) = x(n) + (IF Flow!Kind(s, n) \in pr[1] THEN 1 ELSE 0) - (IF Flow!Kind(s, n) \in pr[2] THEN 1 ELSE 0)
        BY <2>9, ExcessStep DEF x
      <3>6. x(n) \in Int
        BY <1>1, <2>9 DEF x
      <3>7. x(n + 1) = x(n)
        BY <3>4, <3>5, <3>6
      <3>8. x(m) = x(n + 1)
        BY <2>9
      <3> QED
        BY <2>3, <3>3, <3>7, <3>8
    <2>13. CASE Flow!Kind(s, n) \in Flow!Closers
      <3>1. PICK f \in DOMAIN s : Flow!Kind(s, f) \in Flow!Openers /\ Flow!Closes(s, f, n)
        BY <1>1, <2>9, <2>13, Zenon DEF Flow!WellFormed
      <3>2. f \in 1..Len(s) /\ Flow!Directly(s, f, n)
        BY <1>1, <3>1, Zenon DEF Flow!Closes
      <3>3. n = c(f)
        BY <2>9, <2>13, <3>1, <3>2, ClosesOnce
      <3>4. /\ f < n /\ lv(n) = lv(f) + 1
            /\ Flow!Kind(s, n) = IF Flow!Kind(s, f) = "if" THEN "fi" ELSE "done"
        BY <3>1, <3>2, <3>3, OpenerCloses
      <3>5. f # g
        BY <2>9, <3>3
      <3>6. ~(f < g)
        <4>1. f < g /\ g <= c(f) => c(g) < c(f)
          BY <2>3, <3>1, <3>2, BlocksNest
        <4>2. c(f) = n /\ c(g) \in Int /\ n \in Int /\ g < n /\ n < c(g) /\ g \in Int
          BY <2>7, <2>9, <3>3
        <4> HIDE DEF c, lv, S
        <4> QED
          BY <4>1, <4>2
      <3>7. g < f
        BY <3>2, <3>5, <3>6
      <3>8. lv(m) = lv(n) - 1
        BY <2>9, <2>13, LevelStep
      <3>9. f \in 1..(Len(s) + 1) /\ f <= c(g) /\ f < m
        <4>1. Len(s) \in Nat /\ c(g) \in 1..Len(s)
          BY <1>1, <2>7
        <4>2. n < c(g) /\ n < m /\ n \in 1..Len(s) /\ m \in 1..Len(s)
          BY <2>4, <2>9
        <4>3. f < n
          BY <3>4
        <4> HIDE DEF c, lv, S
        <4> QED
          BY <3>2, <4>1, <4>2, <4>3
      <3>10. lv(f) = lv(g) + 1
        <4>1. lv(f) \in Int /\ lv(n) \in Int /\ lv(g) \in Int /\ lv(m) \in Int
          <5>1. g \in 1..(Len(s) + 1)
            BY <1>1
          <5> HIDE DEF lv
          <5> QED
            BY <1>1, <2>4, <2>9, <3>9, <5>1
        <4>2. lv(n) = lv(f) + 1 /\ lv(m) = lv(n) - 1 /\ lv(m) = lv(g) + 1
          BY <2>6, <3>4, <3>8
        <4> HIDE DEF lv, c, S
        <4> QED
          BY <4>1, <4>2
      <3>11. Flow!Directly(s, g, f)
        BY <2>3, <3>7, <3>9, <3>10, DirectlyIn
      <3>12. x(f) = x(g + 1) /\ x(n) = x(f + 1)
        BY <2>3, <2>5, <2>9, <3>1, <3>2, <3>9, <3>11
      <3>13. /\ x(n + 1) = x(n) + (IF Flow!Kind(s, n) \in pr[1] THEN 1 ELSE 0) - (IF Flow!Kind(s, n) \in pr[2] THEN 1 ELSE 0)
             /\ x(f + 1) = x(f) + (IF Flow!Kind(s, f) \in pr[1] THEN 1 ELSE 0) - (IF Flow!Kind(s, f) \in pr[2] THEN 1 ELSE 0)
        <4>1. f \in Nat \ {0} /\ n \in Nat \ {0}
          BY <2>9, <3>2
        <4> QED
          BY <4>1, ExcessStep DEF x
      <3>14. /\ Flow!Kind(s, n) \notin pr[1] /\ Flow!Kind(s, f) \notin pr[2]
             /\ Flow!Kind(s, f) \in pr[1] <=> Flow!Kind(s, n) \in pr[2]
        <4>1. \A k \in Flow!Openers : k \notin Flow!Closers
          BY DEF Flow!Openers, Flow!Closers
        <4> QED
          BY <2>11, <3>1, <3>4, <4>1, PairKinds
      <3>15. x(n) \in Int /\ x(f) \in Int
        BY <1>1, <2>9, <3>9 DEF x
      <3>16. x(m) = x(n) - (IF Flow!Kind(s, n) \in pr[2] THEN 1 ELSE 0)
        <4>1. x(n + 1) = x(n) - (IF Flow!Kind(s, n) \in pr[2] THEN 1 ELSE 0)
          BY <3>13, <3>14, <3>15
        <4>2. x(m) = x(n + 1)
          BY <2>9
        <4> QED
          BY <4>1, <4>2
      <3>17. x(f + 1) = x(f) + (IF Flow!Kind(s, f) \in pr[1] THEN 1 ELSE 0)
        BY <3>13, <3>14, <3>15
      <3>18. x(m) = x(f)
        <4>1. x(n) = x(f) + (IF Flow!Kind(s, n) \in pr[2] THEN 1 ELSE 0)
          BY <3>12, <3>14, <3>17
        <4> QED
          BY <3>15, <3>16, <4>1
      <3> QED
        BY <2>3, <3>12, <3>18
    <2> QED
      BY <2>12, <2>13
  <1> HIDE DEF x
  <1>3. x(i) = x(h + 1)
    BY <1>2
  <1>4. QED
    BY <1>3 DEF x

LEMMA BeforeSum ==
  ASSUME NEW s, NEW i \in Nat \ {0}, NEW ka, NEW kb, ka \cap kb = {}
  PROVE  Before(s, i, ka \cup kb) = Before(s, i, ka) + Before(s, i, kb)
  <1> DEFINE P(kinds) == {j \in 1..(i - 1) : Flow!Kind(s, j) \in kinds}
  <1>1. \A kinds : IsFiniteSet(P(kinds)) /\ Cardinality(P(kinds)) \in Nat
    <2> TAKE kinds
    <2>1. IsFiniteSet(1..(i - 1))
      BY FS_Interval
    <2>2. P(kinds) \in SUBSET (1..(i - 1))
      OBVIOUS
    <2> HIDE DEF P
    <2> QED
      BY <2>1, <2>2, FS_Subset, FS_CardinalityType
  <1>2. P(ka \cup kb) = P(ka) \cup P(kb) /\ P(ka) \cap P(kb) = {}
    OBVIOUS
  <1>3. \A kinds : Before(s, i, kinds) = Cardinality(P(kinds))
    BY DEF Before
  <1> HIDE DEF P
  <1>4. Cardinality(P(ka) \cup P(kb)) = Cardinality(P(ka)) + Cardinality(P(kb)) - Cardinality(P(ka) \cap P(kb))
    BY <1>1, FS_Union
  <1>5. Cardinality(P(ka) \cap P(kb)) = 0
    BY <1>2, FS_EmptySet
  <1>6. Cardinality(P(ka)) \in Nat /\ Cardinality(P(kb)) \in Nat
    BY <1>1
  <1>7. Cardinality(P(ka \cup kb)) = Cardinality(P(ka)) + Cardinality(P(kb))
    <2>1. Cardinality(P(ka \cup kb)) = Cardinality(P(ka)) + Cardinality(P(kb)) - 0
      BY <1>2, <1>4, <1>5, Zenon
    <2> QED
      BY <1>6, <2>1
  <1>8. /\ Before(s, i, ka) = Cardinality(P(ka)) /\ Before(s, i, kb) = Cardinality(P(kb))
        /\ Before(s, i, ka \cup kb) = Cardinality(P(ka \cup kb))
    BY <1>3
  <1>9. QED
    BY <1>7, <1>8

LEMMA LevelIsExcess ==
  ASSUME NEW s, NEW i \in Nat \ {0}
  PROVE  Flow!Level(s, i) = Excess(s, i, Flow!Loops, {"done"}) + Excess(s, i, {"if"}, {"fi"})
  <1>1. Flow!Openers = Flow!Loops \cup {"if"} /\ Flow!Loops \cap {"if"} = {}
    BY DEF Flow!Openers, Flow!Loops
  <1>2. Flow!Closers = {"done"} \cup {"fi"} /\ {"done"} \cap {"fi"} = {}
    BY DEF Flow!Closers
  <1>3. Before(s, i, Flow!Openers) = Before(s, i, Flow!Loops) + Before(s, i, {"if"})
    BY <1>1, BeforeSum
  <1>4. Before(s, i, Flow!Closers) = Before(s, i, {"done"}) + Before(s, i, {"fi"})
    BY <1>2, BeforeSum
  <1>5. \A kinds : Before(s, i, kinds) \in Nat
    BY BeforeStep
  <1>6. QED
    BY <1>3, <1>4, <1>5, LevelIs DEF Excess

LEMMA CountedFrom ==
  ASSUME NEW s, NEW start \in Nat \ {0}, NEW i \in Nat \ {0}, start <= i, NEW kinds
  PROVE  Cardinality({j \in start..(i - 1) : Kind(s, j) \in kinds}) = Before(s, i, kinds) - Before(s, start, kinds)
  <1> DEFINE P == {j \in 1..(i - 1) : Flow!Kind(s, j) \in kinds}
             Q == {j \in 1..(start - 1) : Flow!Kind(s, j) \in kinds}
             R == {j \in start..(i - 1) : Flow!Kind(s, j) \in kinds}
  <1>1. IsFiniteSet(1..(start - 1)) /\ IsFiniteSet(start..(i - 1))
    BY FS_Interval
  <1>2. Q \in SUBSET (1..(start - 1)) /\ R \in SUBSET (start..(i - 1))
    OBVIOUS
  <1>3. P = Q \cup R /\ Q \cap R = {}
    OBVIOUS
  <1>4. {j \in start..(i - 1) : Kind(s, j) \in kinds} = R
    BY DEF Kind, Flow!Kind
  <1>5. Before(s, i, kinds) = Cardinality(P) /\ Before(s, start, kinds) = Cardinality(Q)
    BY DEF Before
  <1> HIDE DEF P, Q, R
  <1>6. IsFiniteSet(Q) /\ IsFiniteSet(R) /\ Cardinality(Q) \in Nat /\ Cardinality(R) \in Nat
    BY <1>1, <1>2, FS_Subset, FS_CardinalityType
  <1>7. Cardinality(P) = Cardinality(Q) + Cardinality(R)
    BY <1>3, <1>6, FS_Union, FS_EmptySet
  <1>8. QED
    BY <1>4, <1>5, <1>6, <1>7

(* The done that find_matching_done finds for a loop is the one that closes it. *)
LEMMA FindsCloser ==
  ASSUME NEW s, Flow!WellFormed(s), NEW h \in 1..Len(s), Flow!Kind(s, h) \in Flow!Loops
  PROVE  find_matching_done(s, AfterOpener(s, h)) = CloserOf(s, h)
  <1> DEFINE start == AfterOpener(s, h)
             c == CloserOf(s, h)
             x(i) == Excess(s, i, Flow!Loops, {"done"})
             y(i) == Excess(s, i, {"if"}, {"fi"})
             Count(i, kinds) == Cardinality({j \in start..(i - 1) : Kind(s, j) \in kinds})
             S == {i \in DOMAIN s : /\ i >= start /\ Kind(s, i) = "done"
                                    /\ Count(i, {"while", "for"}) = Count(i, {"done"})
                                    /\ Count(i, {"if"}) = Count(i, {"fi"})}
  <1>1. DOMAIN s = 1..Len(s) /\ Len(s) \in Nat /\ h # 0
    BY ScriptLines
  <1>2. Flow!Kind(s, h) \in Flow!Openers /\ Flow!Kind(s, h) \in Flow!Tested
    BY DEF Flow!Openers, Flow!Tested, Flow!Loops
  <1>3. InBlock(s, h, start) /\ start \in 1..Len(s) /\ h < start
    BY <1>2, BodyStarts
  <1>4. Flow!Directly(s, h, start)
    BY <1>1, <1>3, Zenon DEF InBlock
  <1>5. /\ c \in 1..Len(s) /\ Flow!Directly(s, h, c)
        /\ Flow!Kind(s, c) = IF Flow!Kind(s, h) = "if" THEN "fi" ELSE "done"
    BY <1>1, <1>2, OpenerCloses, DirectlyIn
  <1>6. Flow!Kind(s, c) = "done"
    BY <1>5 DEF Flow!Loops
  <1>7. ASSUME NEW i \in 1..Len(s), i >= start, Kind(s, i) = "done"
        PROVE  i \in S <=> x(i) = x(start) /\ y(i) = y(start)
    <2>1. \A kinds : Count(i, kinds) = Before(s, i, kinds) - Before(s, start, kinds)
      BY <1>3, <1>7, CountedFrom
    <2>2. \A kinds : Before(s, i, kinds) \in Nat /\ Before(s, start, kinds) \in Nat
      <3>1. i \in Nat \ {0} /\ start \in Nat \ {0}
        BY <1>3
      <3> QED
        BY <3>1, BeforeStep
    <2>3. i \in S <=> Count(i, {"while", "for"}) = Count(i, {"done"}) /\ Count(i, {"if"}) = Count(i, {"fi"})
      BY <1>1, <1>7
    <2> HIDE DEF Count, S
    <2>4. ASSUME NEW ka, NEW kb
          PROVE  Count(i, ka) = Count(i, kb) <=> Excess(s, i, ka, kb) = Excess(s, start, ka, kb)
      <3>1. Count(i, ka) = Before(s, i, ka) - Before(s, start, ka) /\ Count(i, kb) = Before(s, i, kb) - Before(s, start, kb)
        BY <2>1
      <3>2. /\ Before(s, i, ka) \in Nat /\ Before(s, start, ka) \in Nat
            /\ Before(s, i, kb) \in Nat /\ Before(s, start, kb) \in Nat
        BY <2>2
      <3> QED
        BY <3>1, <3>2 DEF Excess
    <2> QED
      BY <2>3, <2>4 DEF Flow!Loops
  <1>8. ASSUME NEW i \in 1..Len(s), Flow!Directly(s, h, i) PROVE x(i) = x(h + 1) /\ y(i) = y(h + 1)
    <2>1. <<Flow!Loops, {"done"}>> \in Pairs /\ <<{"if"}, {"fi"}>> \in Pairs
      BY DEF Pairs
    <2>2. \A pr \in Pairs : Excess(s, i, pr[1], pr[2]) = Excess(s, h + 1, pr[1], pr[2])
      BY <1>2, <1>8, BlocksBalance
    <2> QED
      BY <2>1, <2>2
  <1>9. c >= start
    <2>1. c \in 1..(Len(s) + 1) /\ start \in 1..(Len(s) + 1)
      BY <1>1, <1>3, <1>5
    <2>2. start <= c
      BY <1>2, <1>4, <2>1, DirectlyIn
    <2> HIDE DEF c, start
    <2> QED
      BY <2>1, <2>2
  <1>10. c \in S
    <2>1. Kind(s, c) = "done"
      BY <1>6 DEF Kind, Flow!Kind
    <2>2. x(c) = x(start) /\ y(c) = y(start)
      BY <1>3, <1>4, <1>5, <1>8
    <2> HIDE DEF S, x, y, c, start
    <2> QED
      BY <1>5, <1>7, <1>9, <2>1, <2>2
  <1>11. ASSUME NEW i \in S PROVE c <= i
    <2>1. i \in 1..Len(s) /\ i >= start /\ Kind(s, i) = "done" /\ Flow!Kind(s, i) = "done"
      BY <1>1 DEF Kind, Flow!Kind
    <2>2. x(i) = x(start) /\ y(i) = y(start)
      BY <1>7, <2>1
    <2>3. Flow!Level(s, i) = Flow!Level(s, start)
      BY <1>3, <2>1, <2>2, LevelIsExcess
    <2>4. SUFFICES ASSUME i < c PROVE FALSE
      BY <1>1, <1>5, <2>1
    <2>5. i \in 1..(Len(s) + 1) /\ start \in 1..(Len(s) + 1)
      BY <1>1, <1>3, <2>1
    <2>6. Flow!Level(s, start) = Flow!Level(s, h) + 1
      BY <1>2, <1>4, <2>5, DirectlyIn
    <2>7. h < i /\ i <= c
      BY <1>3, <1>5, <2>1, <2>4
    <2>8. Flow!Directly(s, h, i)
      BY <1>2, <2>3, <2>5, <2>6, <2>7, DirectlyIn
    <2>9. i = c
      BY <1>2, <2>1, <2>8, ClosesOnce DEF Flow!Closers
    <2> QED
      BY <1>5, <2>4, <2>9
  <1>12. S \in SUBSET Int
    BY <1>1
  <1>13. find_matching_done(s, start) = Min(S)
    BY Zenon DEF find_matching_done
  <1> HIDE DEF S
  <1>14. QED
    BY <1>10, <1>11, <1>12, <1>13, LeastIs

-----------------------------------------------------------------------------
(* What is skipped: the recursive function exists, and goes on from each line. *)
SkipValue(s, i, to) ==
  [goal \in {"arms", "fi", "done", "endif"} |->
     IF goal = "endif" THEN SkipArms(s, to, i) ELSE SkipBlock(s, to, i, goal)]

(* From line k on. *)
SkipFrom(s, k, to) == to = [i \in k..(Len(s) + 2) |-> SkipValue(s, i, to)]

(* Skipping from i comes to a line after it, past a keyword or past the end. *)
Comes(s, i, r) ==
  /\ r.idx \in i..(Len(s) + 2)
  /\ r.end # "none" => r.idx \in (i + 1)..(Len(s) + 1)

GoesOn(s, i, to) ==
  \A k \in i..(Len(s) + 2) : \A goal \in {"arms", "fi", "done", "endif"} : Comes(s, k, to[k][goal])

LEMMA PastLineLater ==
  ASSUME NEW s, Len(s) \in Nat, NEW i \in 1..Len(s), NEW f, GoesOn(s, i + 1, f), NEW g,
         \A k \in (i + 1)..(Len(s) + 2) : f[k] = g[k]
  PROVE  PastLine(s, f, i) \in (i + 1)..(Len(s) + 2) /\ PastLine(s, f, i) = PastLine(s, g, i)
  <1>1. AfterOpener(s, i) \in (i + 1)..(Len(s) + 2)
    BY DEF AfterOpener
  <1>2. f[AfterOpener(s, i)] = g[AfterOpener(s, i)]
    BY <1>1
  <1>3. PastLine(s, f, i) = PastLine(s, g, i)
    BY <1>2, Zenon DEF PastLine
  <1>4. /\ f[AfterOpener(s, i)]["endif"].idx \in AfterOpener(s, i)..(Len(s) + 2)
        /\ f[AfterOpener(s, i)]["done"].idx \in AfterOpener(s, i)..(Len(s) + 2)
    BY <1>1 DEF GoesOn, Comes
  <1>5. /\ f[AfterOpener(s, i)]["endif"].idx \in (i + 1)..(Len(s) + 2)
        /\ f[AfterOpener(s, i)]["done"].idx \in (i + 1)..(Len(s) + 2)
    BY <1>1, <1>4
  <1>6. i + 1 \in (i + 1)..(Len(s) + 2)
    OBVIOUS
  <1>7. QED
    BY <1>3, <1>5, <1>6 DEF PastLine

LEMMA SkipBlockLater ==
  ASSUME NEW s, Len(s) \in Nat, NEW i \in 1..(Len(s) + 2), NEW f, GoesOn(s, i + 1, f), NEW g,
         \A k \in (i + 1)..(Len(s) + 2) : f[k] = g[k], NEW goal \in {"arms", "fi", "done"}
  PROVE  Comes(s, i, SkipBlock(s, f, i, goal)) /\ SkipBlock(s, f, i, goal) = SkipBlock(s, g, i, goal)
  <1>1. CASE i > Len(s)
    <2>1. SkipBlock(s, f, i, goal) = [end |-> "none", idx |-> i] /\ SkipBlock(s, g, i, goal) = [end |-> "none", idx |-> i]
      BY <1>1, Zenon DEF SkipBlock
    <2>2. Comes(s, i, [end |-> "none", idx |-> i])
      BY DEF Comes
    <2> QED
      BY <2>1, <2>2
  <1>2. CASE ~(i > Len(s)) /\ Kind(s, i) \in StopsAt[goal]
    <2>1. SkipBlock(s, f, i, goal) = [end |-> Kind(s, i), idx |-> i + 1] /\ SkipBlock(s, g, i, goal) = [end |-> Kind(s, i), idx |-> i + 1]
      BY <1>2, Zenon DEF SkipBlock
    <2>2. i + 1 \in (i + 1)..(Len(s) + 1) /\ i + 1 \in i..(Len(s) + 2)
      BY <1>2
    <2>3. Comes(s, i, [end |-> Kind(s, i), idx |-> i + 1])
      BY <2>2 DEF Comes
    <2> QED
      BY <2>1, <2>3
  <1>3. CASE ~(i > Len(s)) /\ Kind(s, i) \notin StopsAt[goal]
    <2>1. i \in 1..Len(s)
      BY <1>3
    <2>2. PastLine(s, f, i) \in (i + 1)..(Len(s) + 2) /\ PastLine(s, f, i) = PastLine(s, g, i)
      BY <2>1, PastLineLater
    <2> DEFINE p == PastLine(s, f, i)
    <2>3. SkipBlock(s, f, i, goal) = f[p][goal] /\ SkipBlock(s, g, i, goal) = g[p][goal]
      BY <1>3, <2>2, Zenon DEF SkipBlock
    <2>4. f[p] = g[p]
      BY <2>2
    <2>5. Comes(s, p, f[p][goal])
      BY <2>2 DEF GoesOn
    <2> HIDE DEF p
    <2>6. Comes(s, i, f[p][goal])
      <3>1. p \in (i + 1)..(Len(s) + 2)
        BY <2>2 DEF p
      <3> QED
        BY <2>5, <3>1 DEF Comes
    <2> QED
      BY <2>3, <2>4, <2>6
  <1>4. QED
    BY <1>1, <1>2, <1>3

LEMMA SkipArmsLater ==
  ASSUME NEW s, Len(s) \in Nat, NEW i \in 1..(Len(s) + 2), NEW f, GoesOn(s, i + 1, f), NEW g,
         \A k \in (i + 1)..(Len(s) + 2) : f[k] = g[k]
  PROVE  Comes(s, i, SkipArms(s, f, i)) /\ SkipArms(s, f, i) = SkipArms(s, g, i)
  <1> DEFINE r == SkipBlock(s, f, i, "arms")
             n == AfterOpener(s, r.idx - 1)
  <1>1. Comes(s, i, r) /\ r = SkipBlock(s, g, i, "arms")
    BY SkipBlockLater
  <1>2. CASE r.end = "elif"
    <2>1. r.idx \in (i + 1)..(Len(s) + 1)
      BY <1>1, <1>2 DEF Comes
    <2> HIDE DEF r
    <2>2. n \in (i + 1)..(Len(s) + 2)
      BY <2>1 DEF AfterOpener
    <2>3. f[n] = g[n] /\ Comes(s, n, f[n]["endif"])
      BY <2>2 DEF GoesOn
    <2> HIDE DEF n
    <2>4. Comes(s, i, f[n]["endif"])
      BY <2>2, <2>3 DEF Comes
    <2>5. SkipArms(s, f, i) = f[n]["endif"]
      BY <1>2, Zenon DEF SkipArms, r, n
    <2>6. SkipArms(s, g, i) = g[n]["endif"]
      BY <1>1, <1>2, Zenon DEF SkipArms, r, n
    <2> QED
      BY <2>3, <2>4, <2>5, <2>6
  <1>3. CASE r.end = "else"
    <2>1. r.idx \in (i + 1)..(Len(s) + 1)
      BY <1>1, <1>3 DEF Comes
    <2> HIDE DEF r, n
    <2>2. r.idx \in (i + 1)..(Len(s) + 2)
      BY <2>1
    <2>3. f[r.idx] = g[r.idx] /\ Comes(s, r.idx, f[r.idx]["fi"])
      BY <2>2 DEF GoesOn
    <2>4. Comes(s, i, f[r.idx]["fi"])
      BY <2>2, <2>3 DEF Comes
    <2>5. SkipArms(s, f, i) = f[r.idx]["fi"]
      BY <1>3, Zenon DEF SkipArms, r
    <2>6. SkipArms(s, g, i) = g[r.idx]["fi"]
      BY <1>1, <1>3, Zenon DEF SkipArms, r
    <2> QED
      BY <2>3, <2>4, <2>5, <2>6
  <1>4. CASE r.end # "elif" /\ r.end # "else"
    <2>1. SkipArms(s, f, i) = r
      BY <1>4, Zenon DEF SkipArms
    <2>2. SkipArms(s, g, i) = r
      BY <1>1, <1>4, Zenon DEF SkipArms
    <2> QED
      BY <1>1, <2>1, <2>2
  <1>5. QED
    BY <1>2, <1>3, <1>4

LEMMA SkipLater ==
  ASSUME NEW s, Len(s) \in Nat, NEW i \in 1..(Len(s) + 2), NEW f, GoesOn(s, i + 1, f), NEW g,
         \A k \in (i + 1)..(Len(s) + 2) : f[k] = g[k]
  PROVE  /\ SkipValue(s, i, f) = SkipValue(s, i, g)
         /\ \A goal \in {"arms", "fi", "done", "endif"} : Comes(s, i, SkipValue(s, i, f)[goal])
  <1>1. Comes(s, i, SkipArms(s, f, i)) /\ SkipArms(s, f, i) = SkipArms(s, g, i)
    BY SkipArmsLater
  <1>2. \A goal \in {"arms", "fi", "done"} :
          Comes(s, i, SkipBlock(s, f, i, goal)) /\ SkipBlock(s, f, i, goal) = SkipBlock(s, g, i, goal)
    BY SkipBlockLater
  <1>3. ASSUME NEW goal \in {"arms", "fi", "done", "endif"}
        PROVE  /\ (IF goal = "endif" THEN SkipArms(s, f, i) ELSE SkipBlock(s, f, i, goal))
                    = (IF goal = "endif" THEN SkipArms(s, g, i) ELSE SkipBlock(s, g, i, goal))
               /\ Comes(s, i, IF goal = "endif" THEN SkipArms(s, f, i) ELSE SkipBlock(s, f, i, goal))
    <2>1. CASE goal = "endif"
      BY <1>1, <2>1
    <2>2. CASE goal # "endif"
      <3>1. goal \in {"arms", "fi", "done"}
        BY <2>2
      <3> QED
        BY <1>2, <2>2, <3>1
    <2> QED
      BY <2>1, <2>2
  <1>4. SkipValue(s, i, f) = SkipValue(s, i, g)
    BY <1>3, Zenon DEF SkipValue
  <1>5. \A goal \in {"arms", "fi", "done", "endif"} :
          SkipValue(s, i, f)[goal] = IF goal = "endif" THEN SkipArms(s, f, i) ELSE SkipBlock(s, f, i, goal)
    BY Zenon DEF SkipValue
  <1>6. QED
    BY <1>3, <1>4, <1>5

LEMMA SkipExists ==
  ASSUME NEW s, Len(s) \in Nat
  PROVE  \E f : SkipFrom(s, 1, f) /\ GoesOn(s, 1, f)
  <1> DEFINE last == Len(s) + 2
             S == {d \in 0..(Len(s) + 1) : ~ \E f : SkipFrom(s, last - d, f) /\ GoesOn(s, last - d, f)}
  <1>1. S = {}
    <2> SUFFICES ASSUME S # {} PROVE FALSE
      OBVIOUS
    <2>1. S \in SUBSET Nat
      OBVIOUS
    <2>2. PICK m \in S : \A k \in S : m <= k
      BY <2>1, LeastNatural
    <2>3. m \in 0..(Len(s) + 1) /\ ~ \E f : SkipFrom(s, last - m, f) /\ GoesOn(s, last - m, f)
      BY <2>2
    <2> DEFINE k == last - m
    <2>4. k \in 1..last /\ (m = 0 => k = last)
      BY <2>3
    <2>5. PICK g : GoesOn(s, k + 1, g) /\ \A i \in (k + 1)..last : g[i] = SkipValue(s, i, g)
      <3>1. CASE m = 0
        <4>1. (k + 1)..last = {}
          BY <2>4, <3>1
        <4> QED
          BY <4>1 DEF GoesOn
      <3>2. CASE m # 0
        <4>1. m - 1 \in 0..(Len(s) + 1) /\ ~(m <= m - 1)
          BY <2>3, <3>2
        <4>2. m - 1 \notin S
          BY <2>2, <4>1
        <4>3. PICK g : SkipFrom(s, last - (m - 1), g) /\ GoesOn(s, last - (m - 1), g)
          BY <4>1, <4>2
        <4>4. last - (m - 1) = k + 1
          BY <2>3
        <4>5. g = [i \in (k + 1)..(Len(s) + 2) |-> SkipValue(s, i, g)] /\ GoesOn(s, k + 1, g)
          BY <4>3, <4>4, Zenon DEF SkipFrom
        <4>6. \A i \in (k + 1)..last : g[i] = SkipValue(s, i, g)
          BY <4>5, Zenon
        <4> QED
          BY <4>5, <4>6
      <3> QED
        BY <3>1, <3>2
    <2> DEFINE v == SkipValue(s, k, g)
               f == [i \in k..last |-> IF i = k THEN v ELSE g[i]]
    <2> HIDE DEF k
    <2>6. \A i \in (k + 1)..last : f[i] = g[i]
      <3> HIDE DEF v
      <3> QED
        BY <2>4
    <2>7. f[k] = v
      <3> HIDE DEF v
      <3> QED
        BY <2>4
    <2>8. ASSUME NEW i \in k..last
          PROVE  /\ f[i] = SkipValue(s, i, f)
                 /\ \A goal \in {"arms", "fi", "done", "endif"} : Comes(s, i, f[i][goal])
      <3>1. i \in 1..(Len(s) + 2) /\ \A n \in (i + 1)..(Len(s) + 2) : n \in (k + 1)..last
        BY <2>4
      <3> HIDE DEF f, v
      <3>2. GoesOn(s, i + 1, g) /\ \A n \in (i + 1)..(Len(s) + 2) : g[n] = f[n]
        BY <2>5, <2>6, <3>1 DEF GoesOn
      <3>3. /\ SkipValue(s, i, g) = SkipValue(s, i, f)
            /\ \A goal \in {"arms", "fi", "done", "endif"} : Comes(s, i, SkipValue(s, i, g)[goal])
        BY <3>1, <3>2, SkipLater
      <3>4. f[i] = SkipValue(s, i, g)
        <4>1. CASE i = k
          BY <2>7, <4>1 DEF v
        <4>2. CASE i # k
          <5>1. i \in (k + 1)..last
            BY <2>4, <4>2
          <5> QED
            BY <2>5, <2>6, <5>1
        <4> QED
          BY <4>1, <4>2
      <3> QED
        BY <3>3, <3>4
    <2>9. f = [i \in k..last |-> f[i]]
      BY Zenon
    <2> HIDE DEF f
    <2>10. f = [i \in k..last |-> SkipValue(s, i, f)]
      BY <2>8, <2>9, Zenon
    <2>11. SkipFrom(s, k, f) /\ GoesOn(s, k, f)
      BY <2>8, <2>10, Zenon DEF SkipFrom, GoesOn
    <2> QED
      BY <2>3, <2>11 DEF k
  <1>2. Len(s) + 1 \in 0..(Len(s) + 1) /\ last - (Len(s) + 1) = 1
    OBVIOUS
  <1>3. \E f : SkipFrom(s, last - (Len(s) + 1), f) /\ GoesOn(s, last - (Len(s) + 1), f)
    BY <1>1, <1>2
  <1>4. QED
    BY <1>2, <1>3

LEMMA SkippedIs ==
  ASSUME NEW s, Len(s) \in Nat, NEW i \in 1..(Len(s) + 2)
  PROVE  /\ Skipped(s)[i]["endif"] = SkipArms(s, Skipped(s), i)
         /\ \A goal \in {"arms", "fi", "done"} : Skipped(s)[i][goal] = SkipBlock(s, Skipped(s), i, goal)
  <1> DEFINE to == CHOOSE f : SkipFrom(s, 1, f)
  <1>1. Skipped(s) = to
    BY Zenon DEF Skipped, SkipFrom, SkipValue
  <1>2. SkipFrom(s, 1, to)
    BY SkipExists
  <1> HIDE DEF to
  <1>3. to = [k \in 1..(Len(s) + 2) |-> SkipValue(s, k, to)]
    BY <1>2, Zenon DEF SkipFrom
  <1>4. to[i] = SkipValue(s, i, to)
    BY <1>3, Zenon
  <1>5. \A goal \in {"arms", "fi", "done", "endif"} :
          to[i][goal] = IF goal = "endif" THEN SkipArms(s, to, i) ELSE SkipBlock(s, to, i, goal)
    BY <1>4, Zenon DEF SkipValue
  <1>6. QED
    BY <1>1, <1>5

(* From a line of h's block that is not its closer, a line of the same block is
   the next. *)
LEMMA SkipsToNext ==
  ASSUME NEW s, Flow!WellFormed(s), NEW h \in 1..Len(s), Flow!Kind(s, h) \in Flow!Openers,
         NEW i \in 1..Len(s), Flow!Directly(s, h, i), Flow!Kind(s, i) \notin Flow!Closers, NEW p \in Int,
         Flow!Kind(s, i) \in Flow!Openers => p = CloserOf(s, i) + 1,
         Flow!Kind(s, i) \notin Flow!Openers => p = i + 1
  PROVE  /\ p \in (i + 1)..Len(s) /\ Flow!Directly(s, h, p)
         /\ \A k \in (i + 1)..(p - 1) : ~Flow!Directly(s, h, k)
  <1>1. DOMAIN s = 1..Len(s) /\ Len(s) \in Nat /\ h # 0 /\ Opens(s, h) /\ InBlock(s, h, i)
    BY ScriptLines DEF Opens, InBlock
  <1>2. InBlock(s, h, p)
    BY <1>1, LineAfter
  <1>3. p \in 1..Len(s) /\ Flow!Directly(s, h, p)
    BY <1>1, <1>2, Zenon DEF InBlock
  <1>4. CASE Flow!Kind(s, i) \notin Flow!Openers
    <2>1. p = i + 1 /\ (i + 1)..(p - 1) = {}
      BY <1>4
    <2> QED
      BY <1>3, <2>1
  <1>5. CASE Flow!Kind(s, i) \in Flow!Openers
    <2>1. /\ CloserOf(s, i) \in 1..Len(s) /\ i < CloserOf(s, i)
          /\ \A j \in 1..(Len(s) + 1) : i < j /\ j <= CloserOf(s, i) => Flow!Level(s, j) > Flow!Level(s, i)
      BY <1>5, OpenerCloses
    <2>2. Flow!Level(s, i) = Flow!Level(s, h) + 1
      BY Zenon DEF Flow!Directly
    <2>3. Flow!Level(s, i) \in Int
      BY LevelStep
    <2>4. ASSUME NEW k \in (i + 1)..(p - 1) PROVE ~Flow!Directly(s, h, k)
      <3>1. k \in 1..(Len(s) + 1) /\ i < k /\ k <= CloserOf(s, i)
        BY <1>1, <1>5, <2>1
      <3>2. Flow!Level(s, k) > Flow!Level(s, i)
        BY <2>1, <3>1
      <3>3. Flow!Level(s, k) # Flow!Level(s, h) + 1
        BY <2>2, <2>3, <3>2
      <3> QED
        BY <3>3, Zenon DEF Flow!Directly
    <2>5. p \in (i + 1)..Len(s)
      BY <1>1, <1>3, <1>5, <2>1
    <2> QED
      BY <1>3, <2>4, <2>5
  <1>6. QED
    BY <1>4, <1>5

(* The first line that divides or ends the if of h, from line i on. *)
FirstArm(s, h, i, arm) ==
  /\ arm \in i..Len(s) /\ Flow!Directly(s, h, arm) /\ Flow!Kind(s, arm) \in Flow!Arms
  /\ \A k \in i..(arm - 1) : Flow!Directly(s, h, k) => Flow!Kind(s, k) \notin Flow!Arms

(* From a line of a block, skipping ends where the block does. *)
SkipsTo(s, h, i) ==
  /\ Flow!Kind(s, h) \in Flow!Loops => Skipped(s)[i]["done"] = [end |-> "done", idx |-> CloserOf(s, h) + 1]
  /\ Flow!Kind(s, h) = "if" =>
       /\ Skipped(s)[i]["fi"] = [end |-> "fi", idx |-> CloserOf(s, h) + 1]
       /\ Skipped(s)[i]["endif"].idx = CloserOf(s, h) + 1
       /\ \E arm \in i..Len(s) : /\ FirstArm(s, h, i, arm)
                                 /\ Skipped(s)[i]["arms"] = [end |-> Flow!Kind(s, arm), idx |-> arm + 1]

SkipsRight(s, i) ==
  \A h \in 1..Len(s) : Flow!Kind(s, h) \in Flow!Openers /\ Flow!Directly(s, h, i) => SkipsTo(s, h, i)

LEMMA PastLineIs ==
  ASSUME NEW s, Flow!WellFormed(s), NEW i \in 1..Len(s), \A k \in (i + 1)..Len(s) : SkipsRight(s, k)
  PROVE  /\ Flow!Kind(s, i) \in Flow!Openers => PastLine(s, Skipped(s), i) = CloserOf(s, i) + 1
         /\ Flow!Kind(s, i) \notin Flow!Openers => PastLine(s, Skipped(s), i) = i + 1
  <1>1. Kind(s, i) = Flow!Kind(s, i) /\ DOMAIN s = 1..Len(s) /\ i # 0
    BY ScriptLines DEF Kind, Flow!Kind
  <1>2. ASSUME Flow!Kind(s, i) \notin Flow!Openers PROVE PastLine(s, Skipped(s), i) = i + 1
    <2>1. Kind(s, i) # "if" /\ Kind(s, i) \notin {"while", "for"}
      BY <1>1, <1>2 DEF Flow!Openers
    <2> QED
      BY <2>1 DEF PastLine
  <1>3. ASSUME Flow!Kind(s, i) \in Flow!Openers PROVE PastLine(s, Skipped(s), i) = CloserOf(s, i) + 1
    <2> DEFINE j == AfterOpener(s, i)
    <2>1. Flow!Kind(s, i) \in Flow!Tested
      BY <1>3 DEF Flow!Openers, Flow!Tested
    <2>2. InBlock(s, i, j) /\ j \in 1..Len(s) /\ i < j
      BY <1>3, <2>1, BodyStarts
    <2>3. Flow!Directly(s, i, j) /\ j \in (i + 1)..Len(s)
      BY <1>1, <2>2, ScriptLines DEF InBlock
    <2> HIDE DEF j
    <2>4. SkipsTo(s, i, j)
      BY <1>3, <2>3 DEF SkipsRight
    <2>5. CASE Flow!Kind(s, i) = "if"
      <3>1. PastLine(s, Skipped(s), i) = Skipped(s)[j]["endif"].idx
        BY <1>1, <2>5, Zenon DEF PastLine, j
      <3> QED
        BY <2>4, <2>5, <3>1 DEF SkipsTo
    <2>6. CASE Flow!Kind(s, i) \in Flow!Loops
      <3>1. PastLine(s, Skipped(s), i) = Skipped(s)[j]["done"].idx
        BY <1>1, <2>6 DEF PastLine, j, Flow!Loops
      <3> QED
        BY <2>4, <2>6, <3>1 DEF SkipsTo
    <2> QED
      BY <1>3, <2>5, <2>6 DEF Flow!Openers, Flow!Loops
  <1>4. QED
    BY <1>2, <1>3

LEMMA SkipStep ==
  ASSUME NEW s, Flow!WellFormed(s), NEW i \in 1..Len(s), \A k \in (i + 1)..Len(s) : SkipsRight(s, k)
  PROVE  SkipsRight(s, i)
  <1> SUFFICES ASSUME NEW h \in 1..Len(s), Flow!Kind(s, h) \in Flow!Openers, Flow!Directly(s, h, i)
               PROVE  SkipsTo(s, h, i)
    BY DEF SkipsRight
  <1> DEFINE to == Skipped(s)
             c == CloserOf(s, h)
             p == PastLine(s, to, i)
  <1>1. DOMAIN s = 1..Len(s) /\ Len(s) \in Nat /\ h # 0 /\ Opens(s, h) /\ InBlock(s, h, i) /\ \A k : Kind(s, k) = Flow!Kind(s, k)
    BY ScriptLines DEF Opens, InBlock, Kind, Flow!Kind
  <1>2. c \in 1..Len(s) /\ Flow!Kind(s, c) = IF Flow!Kind(s, h) = "if" THEN "fi" ELSE "done"
    BY OpenerCloses
  <1>3. Flow!Kind(s, i) \in Flow!Closers => i = c
    BY ClosesOnce
  <1>4. ASSUME Flow!Kind(s, i) \notin Flow!Closers
        PROVE  /\ p \in (i + 1)..Len(s) /\ Flow!Directly(s, h, p) /\ SkipsTo(s, h, p)
               /\ \A k \in (i + 1)..(p - 1) : ~Flow!Directly(s, h, k)
    <2>1. Flow!Kind(s, i) \in Flow!Openers => p = CloserOf(s, i) + 1 /\ CloserOf(s, i) \in 1..Len(s)
      BY PastLineIs, OpenerCloses
    <2>2. Flow!Kind(s, i) \notin Flow!Openers => p = i + 1
      BY PastLineIs
    <2> HIDE DEF p
    <2>3. p \in Int
      BY <2>1, <2>2
    <2>4. p \in (i + 1)..Len(s) /\ Flow!Directly(s, h, p) /\ \A k \in (i + 1)..(p - 1) : ~Flow!Directly(s, h, k)
      BY <1>4, <2>1, <2>2, <2>3, SkipsToNext
    <2>5. SkipsTo(s, h, p)
      BY <2>4 DEF SkipsRight
    <2> QED
      BY <2>4, <2>5
  <1>5. i \in 1..(Len(s) + 2) /\ ~(i > Len(s))
    BY <1>1
  <1>6. \A goal \in {"arms", "fi", "done"} :
          to[i][goal] = IF Flow!Kind(s, i) \in StopsAt[goal] THEN [end |-> Flow!Kind(s, i), idx |-> i + 1] ELSE to[p][goal]
    <2> TAKE goal \in {"arms", "fi", "done"}
    <2>1. to[i][goal] = SkipBlock(s, to, i, goal)
      BY <1>1, <1>5, SkippedIs
    <2>2. Kind(s, i) = Flow!Kind(s, i)
      BY <1>1
    <2> HIDE DEF to
    <2> QED
      BY <1>5, <2>1, <2>2, Zenon DEF SkipBlock
  <1>7. /\ StopsAt["done"] = {"done"} /\ StopsAt["fi"] = {"fi"} /\ StopsAt["arms"] = Flow!Arms
        /\ "done" \in Flow!Closers /\ "fi" \in Flow!Closers /\ "fi" \in Flow!Arms
    BY DEF StopsAt, Flow!Closers, Flow!Arms
  <1> HIDE DEF to, c, p
  <1>8. ASSUME Flow!Kind(s, h) \in Flow!Loops PROVE to[i]["done"] = [end |-> "done", idx |-> c + 1]
    <2>1. Flow!Kind(s, c) = "done"
      BY <1>2, <1>8 DEF Flow!Loops
    <2>2. CASE i = c
      BY <1>6, <1>7, <2>1, <2>2
    <2>3. CASE i # c
      <3>1. Flow!Kind(s, i) \notin Flow!Closers
        BY <1>3, <2>3
      <3>2. to[p]["done"] = [end |-> "done", idx |-> c + 1]
        BY <1>4, <1>8, <3>1 DEF SkipsTo, to, c
      <3>3. Flow!Kind(s, i) \notin StopsAt["done"]
        BY <1>7, <3>1
      <3> QED
        BY <1>6, <3>2, <3>3
    <2> QED
      BY <2>2, <2>3
  <1>9. ASSUME Flow!Kind(s, h) = "if"
        PROVE  /\ to[i]["fi"] = [end |-> "fi", idx |-> c + 1]
               /\ to[i]["endif"].idx = c + 1
               /\ \E arm \in i..Len(s) : /\ FirstArm(s, h, i, arm)
                                         /\ to[i]["arms"] = [end |-> Flow!Kind(s, arm), idx |-> arm + 1]
    <2>1. Flow!Kind(s, c) = "fi"
      BY <1>2, <1>9
    <2>2. to[i]["fi"] = [end |-> "fi", idx |-> c + 1]
      <3>1. CASE i = c
        BY <1>6, <1>7, <2>1, <3>1
      <3>2. CASE i # c
        <4>1. Flow!Kind(s, i) \notin Flow!Closers
          BY <1>3, <3>2
        <4>2. to[p]["fi"] = [end |-> "fi", idx |-> c + 1]
          BY <1>4, <1>9, <4>1 DEF SkipsTo, to, c
        <4>3. Flow!Kind(s, i) \notin StopsAt["fi"]
          BY <1>7, <4>1
        <4> QED
          BY <1>6, <4>2, <4>3
      <3> QED
        BY <3>1, <3>2
    <2>3. PICK arm \in i..Len(s) : FirstArm(s, h, i, arm) /\ to[i]["arms"] = [end |-> Flow!Kind(s, arm), idx |-> arm + 1]
      <3>1. CASE Flow!Kind(s, i) \in Flow!Arms
        <4>1. to[i]["arms"] = [end |-> Flow!Kind(s, i), idx |-> i + 1]
          BY <1>6, <1>7, <3>1
        <4>2. i \in i..Len(s) /\ i..(i - 1) = {}
          BY <1>1
        <4>3. FirstArm(s, h, i, i)
          BY <3>1, <4>2 DEF FirstArm
        <4> QED
          BY <4>1, <4>2, <4>3
      <3>2. CASE Flow!Kind(s, i) \notin Flow!Arms
        <4>1. Flow!Kind(s, i) \notin Flow!Closers
          BY <1>3, <1>7, <2>1, <3>2
        <4>2. to[i]["arms"] = to[p]["arms"]
          BY <1>6, <1>7, <3>2
        <4>3. PICK arm \in p..Len(s) : FirstArm(s, h, p, arm) /\ to[p]["arms"] = [end |-> Flow!Kind(s, arm), idx |-> arm + 1]
          BY <1>4, <1>9, <4>1 DEF SkipsTo, to
        <4>4. p \in (i + 1)..Len(s) /\ \A k \in (i + 1)..(p - 1) : ~Flow!Directly(s, h, k)
          BY <1>4, <4>1
        <4>5. arm \in i..Len(s) /\ \A k \in i..(arm - 1) : k = i \/ k \in (i + 1)..(p - 1) \/ k \in p..(arm - 1)
          BY <1>1, <4>3, <4>4
        <4>6. FirstArm(s, h, i, arm)
          BY <3>2, <4>3, <4>4, <4>5 DEF FirstArm
        <4> QED
          BY <4>2, <4>3, <4>5, <4>6
      <3> QED
        BY <3>1, <3>2
    <2>4. arm \in 1..Len(s) /\ Flow!Directly(s, h, arm) /\ Flow!Kind(s, arm) \in {"elif", "else", "fi"} /\ InBlock(s, h, arm)
      BY <1>1, <2>3 DEF FirstArm, InBlock, Flow!Arms
    <2> DEFINE r == SkipBlock(s, to, i, "arms")
    <2>5. r.end = Flow!Kind(s, arm) /\ r.idx = arm + 1 /\ r.idx - 1 = arm
      <3>1. r = to[i]["arms"]
        BY <1>5, <1>1, SkippedIs DEF to
      <3>2. r = [end |-> Flow!Kind(s, arm), idx |-> arm + 1]
        BY <2>3, <3>1
      <3> HIDE DEF r
      <3> QED
        BY <2>4, <3>2
    <2>6. to[i]["endif"] = SkipArms(s, to, i)
      BY <1>5, <1>1, SkippedIs DEF to
    <2> HIDE DEF r
    <2>7. to[i]["endif"].idx = c + 1
      <3>1. CASE Flow!Kind(s, arm) = "elif"
        <4> DEFINE j == AfterOpener(s, arm)
        <4>1. SkipArms(s, to, i) = to[j]["endif"]
          BY <2>5, <3>1, Zenon DEF SkipArms, r
        <4>2. Flow!Kind(s, arm) \in Flow!Tested
          BY <3>1 DEF Flow!Tested
        <4>3. InBlock(s, h, j) /\ j \in 1..Len(s) /\ arm < j
          BY <2>4, <3>1, <4>2, BodyStarts
        <4>4. Flow!Directly(s, h, j) /\ j \in (i + 1)..Len(s)
          BY <1>1, <2>3, <4>3 DEF InBlock
        <4> HIDE DEF j
        <4>5. to[j]["endif"].idx = c + 1
          BY <1>9, <4>4 DEF SkipsRight, SkipsTo, to, c
        <4> QED
          BY <2>6, <4>1, <4>5
      <3>2. CASE Flow!Kind(s, arm) = "else"
        <4>1. SkipArms(s, to, i) = to[r.idx]["fi"]
          BY <2>5, <3>2, Zenon DEF SkipArms, r
        <4>2. Flow!Kind(s, arm) \notin Flow!Openers /\ Flow!Kind(s, arm) \notin Flow!Closers
          BY <3>2 DEF Flow!Openers, Flow!Closers
        <4>3. InBlock(s, h, arm + 1)
          BY <1>1, <2>4, <4>2, LineAfter
        <4>4. Flow!Directly(s, h, arm + 1) /\ arm + 1 \in 1..Len(s)
          BY <1>1, <4>3, Zenon DEF InBlock
        <4>5. arm + 1 \in (i + 1)..Len(s)
          BY <2>3, <4>4
        <4>6. to[arm + 1]["fi"] = [end |-> "fi", idx |-> c + 1]
          BY <1>9, <4>4, <4>5 DEF SkipsRight, SkipsTo, to, c
        <4> QED
          BY <2>5, <2>6, <4>1, <4>6
      <3>3. CASE Flow!Kind(s, arm) = "fi"
        <4>1. SkipArms(s, to, i) = r
          BY <2>5, <3>3 DEF SkipArms, r
        <4>2. arm = c
          BY <1>7, <2>4, <3>3, ClosesOnce DEF c
        <4> QED
          BY <2>5, <2>6, <4>1, <4>2
      <3> QED
        BY <2>4, <3>1, <3>2, <3>3
    <2> QED
      BY <2>2, <2>3, <2>7
  <1>10. QED
    BY <1>8, <1>9 DEF SkipsTo, to, c

LEMMA SkipsAreRight ==
  ASSUME NEW s, Flow!WellFormed(s), NEW i \in 1..Len(s)
  PROVE  SkipsRight(s, i)
  <1> DEFINE S == {d \in 0..(Len(s) - 1) : ~SkipsRight(s, Len(s) - d)}
  <1>1. Len(s) \in Nat \ {0}
    BY ScriptLines
  <1>2. S = {}
    <2> SUFFICES ASSUME S # {} PROVE FALSE
      OBVIOUS
    <2>1. S \in SUBSET Nat
      OBVIOUS
    <2>2. PICK m \in S : \A k \in S : m <= k
      BY <2>1, LeastNatural
    <2>3. m \in 0..(Len(s) - 1) /\ ~SkipsRight(s, Len(s) - m) /\ Len(s) - m \in 1..Len(s)
      BY <1>1, <2>2
    <2>4. ASSUME NEW k \in (Len(s) - m + 1)..Len(s) PROVE SkipsRight(s, k)
      <3>1. Len(s) - k \in 0..(Len(s) - 1) /\ ~(m <= Len(s) - k) /\ Len(s) - (Len(s) - k) = k
        BY <1>1, <2>3
      <3>2. Len(s) - k \notin S
        BY <2>2, <3>1
      <3> QED
        BY <3>1, <3>2
    <2> QED
      BY <2>3, <2>4, SkipStep
  <1>3. Len(s) - i \in 0..(Len(s) - 1) /\ Len(s) - (Len(s) - i) = i
    BY <1>1
  <1>4. QED
    BY <1>2, <1>3

(* What ends an arm that does not run is the next line that divides the if. *)
LEMMA ArmsNext ==
  ASSUME NEW s, Flow!WellFormed(s), NEW h \in 1..Len(s), Flow!Kind(s, h) = "if",
         NEW i \in 1..Len(s), i = h \/ (Flow!Directly(s, h, i) /\ Flow!Kind(s, i) = "elif"),
         NEW arm, FirstArm(s, h, AfterOpener(s, i), arm)
  PROVE  Flow!NextOf(s, i, Flow!Arms) = arm
  <1> DEFINE S == {j \in DOMAIN s : j > i /\ Flow!Level(s, j) = Flow!Inside(s, i) /\ Flow!Kind(s, j) \in Flow!Arms}
             n == AfterOpener(s, i)
  <1>1. DOMAIN s = 1..Len(s) /\ Len(s) \in Nat /\ Flow!Kind(s, h) \in Flow!Openers /\ Flow!Kind(s, i) \in Flow!Tested
    BY ScriptLines DEF Flow!Openers, Flow!Tested
  <1>2. n \in 1..Len(s) /\ i < n
    BY <1>1, BodyStarts
  <1>3. h <= i /\ Flow!Inside(s, i) = Flow!Level(s, h) + 1
    <2>1. CASE i = h
      BY <1>1, <2>1 DEF Flow!Inside
    <2>2. CASE i # h
      <3>1. Flow!Kind(s, i) \notin Flow!Openers
        BY <2>2 DEF Flow!Openers
      <3>2. Flow!Level(s, i) = Flow!Level(s, h) + 1 /\ h < i
        BY <2>2, Zenon DEF Flow!Directly, Flow!Holds
      <3> QED
        BY <3>1, <3>2 DEF Flow!Inside
    <2> QED
      BY <2>1, <2>2
  <1>4. /\ arm \in n..Len(s) /\ Flow!Directly(s, h, arm) /\ Flow!Kind(s, arm) \in Flow!Arms
        /\ \A k \in n..(arm - 1) : Flow!Directly(s, h, k) => Flow!Kind(s, k) \notin Flow!Arms
    BY DEF FirstArm
  <1> HIDE DEF n
  <1>5. arm \in S
    <2>1. Flow!Level(s, arm) = Flow!Level(s, h) + 1
      BY <1>4, Zenon DEF Flow!Directly
    <2> QED
      BY <1>1, <1>2, <1>3, <1>4, <2>1
  <1>6. ASSUME NEW j \in S PROVE arm <= j
    <2>1. SUFFICES ASSUME j < arm PROVE FALSE
      BY <1>1, <1>2, <1>4
    <2>2. j \in 1..Len(s) /\ i < j /\ Flow!Level(s, j) = Flow!Level(s, h) + 1 /\ Flow!Kind(s, j) \in Flow!Arms
      BY <1>1, <1>3
    <2>3. n <= j
      <3>1. CASE s[i].inline
        BY <1>1, <2>2, <3>1, ThenOrDo DEF n
      <3>2. CASE ~s[i].inline
        <4>1. n = i + 1 + 1 /\ Flow!Kind(s, i + 1) \in {"then", "do"}
          BY <1>1, <3>2, ThenOrDo DEF n
        <4>2. j # i + 1
          BY <2>2, <4>1 DEF Flow!Arms
        <4> QED
          BY <2>2, <4>1, <4>2
      <3> QED
        BY <3>1, <3>2
    <2>4. arm \in 1..(Len(s) + 1) /\ j \in 1..(Len(s) + 1)
      BY <1>1, <1>2, <1>4, <2>2
    <2>5. arm <= CloserOf(s, h) /\ CloserOf(s, h) \in 1..Len(s)
      BY <1>1, <1>4, <2>4, DirectlyIn, OpenerCloses
    <2>6. h < j /\ j <= CloserOf(s, h)
      BY <1>3, <2>1, <2>2, <2>4, <2>5
    <2>7. Flow!Directly(s, h, j)
      BY <1>1, <2>2, <2>4, <2>6, DirectlyIn
    <2>8. j \in n..(arm - 1)
      BY <1>2, <2>1, <2>2, <2>3, <2>4
    <2> QED
      BY <1>4, <2>2, <2>7, <2>8
  <1>7. S \in SUBSET Int
    BY <1>1
  <1>8. Flow!NextOf(s, i, Flow!Arms) = Flow!Min(S)
    BY Zenon DEF Flow!NextOf
  <1> HIDE DEF S
  <1>9. QED
    BY <1>5, <1>6, <1>7, <1>8, LeastIs

-----------------------------------------------------------------------------
(* The calls under way. *)
Frames(s) == [call : {"block", "if", "branch", "loop"}, idx : 0..(Len(s) + 1), limit : 0..Len(s),
              stop : DOMAIN StopsAt, left : 0..MaxItems]

(* The line that opened the block of a call; 0 for the whole script. *)
Opener(cs, m) == IF m < 3 THEN 0 ELSE cs[m - 2].idx

LoopsBelow(cs, m) == {cs[k].idx : k \in {n \in 1..m : cs[n].call = "loop"}}

(* What is called from where. *)
CalledFrom(s, c, below) ==
  /\ c.call = "block" =>
       \/ below.call = "loop" /\ c.limit = below.limit - 1 /\ c.stop = "none"
       \/ below.call = "branch" /\ c.limit = below.limit /\ c.stop \in {"arms", "fi"}
  /\ c.call = "loop" =>
       /\ below.call = "block" /\ below.idx = c.idx /\ c.idx \in 1..Len(s) /\ Flow!Kind(s, c.idx) \in Flow!Loops
       /\ c.limit = CloserOf(s, c.idx) /\ c.limit <= below.limit
  /\ c.call \in {"if", "branch"} =>
       /\ below.call = "block" /\ below.idx \in 1..Len(s) /\ Flow!Kind(s, below.idx) = "if"
       /\ c.limit = below.limit /\ CloserOf(s, below.idx) <= below.limit
  /\ c.call = "if" =>
       /\ c.idx \in 1..Len(s)
       /\ c.idx = below.idx \/ (Flow!Kind(s, c.idx) = "elif" /\ Flow!Directly(s, below.idx, c.idx))

(* The loops a block is in are those that are under way. *)
CallOK(s, cs, m) ==
  /\ cs[m] \in Frames(s)
  /\ m = 1 => cs[m].call = "block" /\ cs[m].limit = Len(s) /\ cs[m].stop = "none"
  /\ m # 1 => CalledFrom(s, cs[m], cs[m - 1])
  /\ cs[m].call = "block" => cs[m].idx >= 1 /\ LoopsAround(s, cs[m].idx) = LoopsBelow(cs, m)

(* A block that goes on stands at a line of its own; behind an else no arm comes. *)
Placed(s, cs, m) ==
  /\ InBlock(s, Opener(cs, m), cs[m].idx)
  /\ cs[m].stop = "fi" =>
       \A k \in 1..Len(s) : k >= cs[m].idx /\ Flow!Directly(s, Opener(cs, m), k) => Flow!Kind(s, k) \notin {"elif", "else"}

(* While a break or continue is on its way out, the blocks it leaves stand where
   it was. *)
Stack(s, cs, requested) ==
  /\ cs \in Seq(Frames(s)) /\ cs # <<>>
  /\ \A m \in 1..Len(cs) : CallOK(s, cs, m)
  /\ \A m \in 1..Len(cs) : cs[m].call = "block" /\ (m # Len(cs) \/ ~requested) => Placed(s, cs, m)
  /\ \A m \in 1..Len(cs) : cs[m].call = "if" => m = Len(cs)
  /\ cs[Len(cs)].call # "branch"
  /\ requested => cs[Len(cs)].call = "block" /\ LoopsBelow(cs, Len(cs)) # {}

LEMMA LoopsBelowStep ==
  ASSUME NEW cs, NEW m \in Nat
  PROVE  LoopsBelow(cs, m + 1) = LoopsBelow(cs, m) \cup (IF cs[m + 1].call = "loop" THEN {cs[m + 1].idx} ELSE {})
  <1>1. 1..(m + 1) = 1..m \cup {m + 1}
    OBVIOUS
  <1>2. {n \in 1..(m + 1) : cs[n].call = "loop"} = {n \in 1..m : cs[n].call = "loop"} \cup (IF cs[m + 1].call = "loop" THEN {m + 1} ELSE {})
    BY <1>1
  <1>3. QED
    BY <1>2 DEF LoopsBelow

(* The lower part of a stack says all about its calls. *)
LEMMA LowerCalls ==
  ASSUME NEW s, NEW cs, NEW bs, NEW m \in Nat \ {0}, \A k \in 1..m : bs[k] = cs[k]
  PROVE  /\ CallOK(s, cs, m) => CallOK(s, bs, m)
         /\ Placed(s, cs, m) => Placed(s, bs, m)
         /\ LoopsBelow(bs, m) = LoopsBelow(cs, m)
  <1>1. bs[m] = cs[m] /\ (m # 1 => bs[m - 1] = cs[m - 1])
    OBVIOUS
  <1>2. Opener(bs, m) = Opener(cs, m)
    BY DEF Opener
  <1>3. {n \in 1..m : bs[n].call = "loop"} = {n \in 1..m : cs[n].call = "loop"}
    OBVIOUS
  <1>4. LoopsBelow(bs, m) = LoopsBelow(cs, m)
    BY <1>3 DEF LoopsBelow
  <1>5. CallOK(s, cs, m) => CallOK(s, bs, m)
    BY <1>1, <1>4, Zenon DEF CallOK
  <1>6. Placed(s, cs, m) => Placed(s, bs, m)
    BY <1>1, <1>2, Zenon DEF Placed
  <1>7. QED
    BY <1>4, <1>5, <1>6

(* The n lowest calls. *)
Base(s, bs, cs, n) ==
  bs \in Seq(Frames(s)) /\ Len(bs) = n /\ n \in 1..Len(cs) /\ \A k \in 1..n : bs[k] = cs[k]

LEMMA BaseCalls ==
  ASSUME NEW s, NEW cs, NEW requested, Stack(s, cs, requested), NEW bs, NEW n, Base(s, bs, cs, n)
  PROVE  /\ n \in Nat \ {0} /\ n <= Len(cs) /\ Len(cs) \in Nat
         /\ \A m \in 1..n : CallOK(s, bs, m)
         /\ \A m \in 1..n : bs[m].call = "block" /\ (m # Len(cs) \/ ~requested) => Placed(s, bs, m)
         /\ \A m \in 1..n : bs[m].call = "if" => m = Len(cs)
  <1>1. cs \in Seq(Frames(s)) /\ Len(bs) = n /\ n \in 1..Len(cs) /\ \A k \in 1..n : bs[k] = cs[k]
    BY DEF Base, Stack
  <1>2. Len(cs) \in Nat
    BY <1>1, LenProperties
  <1>3. n \in Nat \ {0} /\ n <= Len(cs)
    BY <1>1, <1>2
  <1>4. ASSUME NEW m \in 1..n
        PROVE  /\ CallOK(s, bs, m)
               /\ bs[m].call = "block" /\ (m # Len(cs) \/ ~requested) => Placed(s, bs, m)
               /\ bs[m].call = "if" => m = Len(cs)
    <2>1. m \in 1..Len(cs) /\ m \in Nat \ {0} /\ bs[m] = cs[m] /\ \A k \in 1..m : bs[k] = cs[k]
      BY <1>1, <1>3
    <2>2. /\ CallOK(s, cs, m)
          /\ cs[m].call = "block" /\ (m # Len(cs) \/ ~requested) => Placed(s, cs, m)
          /\ cs[m].call = "if" => m = Len(cs)
      BY <2>1, Zenon DEF Stack
    <2> QED
      BY <2>1, <2>2, LowerCalls
  <1>5. QED
    BY <1>2, <1>3, <1>4

LEMMA BlockOpener ==
  ASSUME NEW s, NEW cs, NEW requested, Stack(s, cs, requested), NEW m \in 1..Len(cs), cs[m].call = "block"
  PROVE  /\ Opens(s, Opener(cs, m))
         /\ m # 1 => /\ m - 1 \in 1..Len(cs) /\ m - 2 \in 1..Len(cs) /\ m >= 3
                     /\ CalledFrom(s, cs[m], cs[m - 1]) /\ CalledFrom(s, cs[m - 1], cs[m - 2])
                     /\ cs[m - 2].call = "block" /\ cs[m - 1].call \in {"loop", "branch"}
                     /\ Opener(cs, m) = cs[m - 2].idx /\ cs[m - 2].idx \in 1..Len(s)
                     /\ Flow!Kind(s, cs[m - 2].idx) \in Flow!Openers
                     /\ cs[m - 1].call = "branch" => Flow!Kind(s, cs[m - 2].idx) = "if"
                     /\ cs[m - 1].call = "loop" => Flow!Kind(s, cs[m - 2].idx) \in Flow!Loops /\ cs[m - 2].idx = cs[m - 1].idx
  <1>1. CASE m = 1
    BY <1>1 DEF Opens, Opener
  <1>2. CASE m # 1
    <2>1. Len(cs) \in Nat /\ \A k \in 1..Len(cs) : CallOK(s, cs, k)
      BY LenProperties DEF Stack
    <2>2. m - 1 \in 1..Len(cs)
      BY <1>2, <2>1
    <2>3. CallOK(s, cs, m) /\ CallOK(s, cs, m - 1)
      BY <2>1, <2>2
    <2>4. CalledFrom(s, cs[m], cs[m - 1])
      BY <1>2, <2>3, Zenon DEF CallOK
    <2>5. cs[m - 1].call \in {"loop", "branch"}
      BY <2>4 DEF CalledFrom
    <2>6. m - 1 # 1
      <3>1. m - 1 = 1 => cs[m - 1].call = "block"
        BY <2>3, Zenon DEF CallOK
      <3> QED
        BY <2>5, <3>1
    <2>7. m - 2 \in 1..Len(cs) /\ m >= 3 /\ m - 1 - 1 = m - 2 /\ ~(m < 3)
      BY <1>2, <2>1, <2>6
    <2>8. CalledFrom(s, cs[m - 1], cs[m - 2])
      <3>1. CalledFrom(s, cs[m - 1], cs[m - 1 - 1])
        BY <2>3, <2>6, Zenon DEF CallOK
      <3> QED
        BY <2>7, <3>1
    <2>9. Opener(cs, m) = cs[m - 2].idx
      BY <2>7 DEF Opener
    <2>10. /\ cs[m - 2].call = "block" /\ cs[m - 2].idx \in 1..Len(s)
           /\ cs[m - 1].call = "branch" => Flow!Kind(s, cs[m - 2].idx) = "if"
           /\ cs[m - 1].call = "loop" => Flow!Kind(s, cs[m - 2].idx) \in Flow!Loops /\ cs[m - 2].idx = cs[m - 1].idx
      BY <2>5, <2>8 DEF CalledFrom
    <2>11. Flow!Kind(s, cs[m - 2].idx) \in Flow!Openers
      BY <2>5, <2>10 DEF Flow!Loops, Flow!Openers
    <2> QED
      BY <2>2, <2>4, <2>5, <2>7, <2>8, <2>9, <2>10, <2>11 DEF Opens
  <1>3. QED
    BY <1>1, <1>2

(* The parts of the stack that the steps leave. *)
LEMMA StackBases ==
  ASSUME NEW s, NEW cs, NEW requested, Stack(s, cs, requested)
  PROVE  /\ Len(cs) \in Nat \ {0} /\ cs \in Seq(Frames(s)) /\ Base(s, cs, cs, Len(cs)) /\ Last(cs) = cs[Len(cs)]
         /\ Len(cs) > 1 => /\ Base(s, Front(cs), cs, Len(cs) - 1)
                           /\ Last(Front(cs)) = cs[Len(cs) - 1]
         /\ Len(cs) > 2 => Base(s, Front(Front(cs)), cs, Len(cs) - 2)
  <1> DEFINE n == Len(cs)
  <1>1. cs \in Seq(Frames(s)) /\ cs # <<>>
    BY DEF Stack
  <1>2. n \in Nat \ {0}
    BY <1>1, LenProperties, EmptySeq
  <1>3. Base(s, cs, cs, n)
    BY <1>1, <1>2 DEF Base
  <1>4. ASSUME n > 1 PROVE Base(s, Front(cs), cs, n - 1) /\ Last(Front(cs)) = cs[n - 1]
    <2>1. Front(cs) = SubSeq(cs, 1, n - 1)
      BY Zenon DEF Front
    <2>2. 1 \in Nat \ {0} /\ n - 1 \in Nat /\ 1 <= n - 1 + 1 /\ n - 1 <= Len(cs)
      BY <1>2, <1>4
    <2>3. /\ SubSeq(cs, 1, n - 1) \in Seq(Frames(s)) /\ Len(SubSeq(cs, 1, n - 1)) = n - 1 - 1 + 1
          /\ \A i \in 1..(n - 1 - 1 + 1) : SubSeq(cs, 1, n - 1)[i] = cs[1 + i - 1]
      <3> HIDE DEF n
      <3> QED
        BY <1>1, <2>2, PartOfSeq
    <2>4. Len(Front(cs)) = n - 1 /\ \A i \in 1..(n - 1) : Front(cs)[i] = cs[i]
      BY <1>2, <2>1, <2>3
    <2>5. Base(s, Front(cs), cs, n - 1)
      BY <1>2, <1>4, <2>1, <2>3, <2>4 DEF Base
    <2>6. Last(Front(cs)) = Front(cs)[n - 1]
      BY <2>4, Zenon DEF Last
    <2> QED
      BY <1>2, <1>4, <2>4, <2>5, <2>6
  <1>5. ASSUME n > 2 PROVE Base(s, Front(Front(cs)), cs, n - 2)
    <2> DEFINE bs == Front(cs)
    <2>1. bs \in Seq(Frames(s)) /\ Len(bs) = n - 1 /\ \A k \in 1..(n - 1) : bs[k] = cs[k]
      BY <1>2, <1>4, <1>5 DEF Base
    <2>2. Front(bs) = SubSeq(bs, 1, n - 2)
      <3>1. Front(bs) = SubSeq(bs, 1, Len(bs) - 1)
        BY Zenon DEF Front
      <3>2. Len(bs) - 1 = n - 2
        BY <1>2, <2>1
      <3> QED
        BY <3>1, <3>2
    <2> HIDE DEF bs
    <2>3. 1 \in Nat \ {0} /\ n - 2 \in Nat /\ 1 <= n - 2 + 1 /\ n - 2 <= Len(bs)
      BY <1>2, <1>5, <2>1
    <2>4. /\ SubSeq(bs, 1, n - 2) \in Seq(Frames(s)) /\ Len(SubSeq(bs, 1, n - 2)) = n - 2 - 1 + 1
          /\ \A i \in 1..(n - 2 - 1 + 1) : SubSeq(bs, 1, n - 2)[i] = bs[1 + i - 1]
      BY <2>1, <2>3, PartOfSeq
    <2>5. Front(bs) \in Seq(Frames(s)) /\ Len(Front(bs)) = n - 2 /\ \A i \in 1..(n - 2) : Front(bs)[i] = bs[i]
      BY <1>2, <2>2, <2>4
    <2>6. n - 2 \in 1..n /\ \A k \in 1..(n - 2) : Front(bs)[k] = cs[k]
      BY <1>2, <1>5, <2>1, <2>5
    <2> QED
      BY <2>5, <2>6 DEF Base, bs
  <1>6. QED
    BY <1>1, <1>2, <1>3, <1>4, <1>5, Zenon DEF Last

OnTop(s, cs, t) == Stack(s, cs, FALSE) /\ cs # <<>> /\ Last(cs) = t

(* A block is on top, at a line. *)
GoesOnAt(s, cs, idx, requested) ==
  Stack(s, cs, requested) /\ cs # <<>> /\ Last(cs).call = "block" /\ Last(cs).idx = idx

(* A block goes on at a line with the same loops around it. *)
LEMMA StackResumes ==
  ASSUME NEW s, NEW cs, NEW requested \in BOOLEAN, Stack(s, cs, requested), NEW bs, NEW n, Base(s, bs, cs, n),
         cs[n].call = "block", NEW idx \in 1..(Len(s) + 1), Len(s) \in Nat,
         LoopsAround(s, idx) = LoopsAround(s, cs[n].idx),
         NEW later \in BOOLEAN,
         ~later => InBlock(s, Opener(cs, n), idx) /\ cs[n].idx <= idx /\ (n # Len(cs) \/ ~requested),
         later => LoopsBelow(cs, n) # {}
  PROVE  GoesOnAt(s, Resumed(bs, idx), idx, later)
  <1> DEFINE f == [cs[n] EXCEPT !.idx = idx]
             ns == Resumed(bs, idx)
  <1>1. /\ n \in Nat \ {0} /\ n <= Len(cs) /\ Len(cs) \in Nat
        /\ \A m \in 1..n : CallOK(s, bs, m)
        /\ \A m \in 1..n : bs[m].call = "block" /\ (m # Len(cs) \/ ~requested) => Placed(s, bs, m)
        /\ \A m \in 1..n : bs[m].call = "if" => m = Len(cs)
    BY BaseCalls
  <1>2. bs \in Seq(Frames(s)) /\ Len(bs) = n /\ \A k \in 1..n : bs[k] = cs[k]
    BY DEF Base
  <1>3. bs[n] = cs[n] /\ CallOK(s, bs, n) /\ cs[n] \in Frames(s)
    BY <1>1, <1>2 DEF CallOK
  <1>4. /\ f \in Frames(s) /\ f.idx = idx /\ f.call = cs[n].call /\ f.limit = cs[n].limit /\ f.stop = cs[n].stop
    BY <1>3 DEF Frames
  <1>5. ns = [bs EXCEPT ![n] = f]
    <2>1. ns = [bs EXCEPT ![n] = [bs[n] EXCEPT !.idx = idx]]
      BY <1>2, Zenon DEF Resumed
    <2> QED
      BY <1>3, <2>1
  <1> HIDE DEF f, ns
  <1>6. ns \in Seq(Frames(s)) /\ Len(ns) = n /\ ns[n] = f /\ \A k \in 1..(n - 1) : ns[k] = bs[k]
    <2>1. ns \in Seq(Frames(s)) /\ Len(ns) = Len(bs) /\ \A k \in 1..Len(bs) : ns[k] = IF k = n THEN f ELSE bs[k]
      BY <1>1, <1>2, <1>4, <1>5, ExceptSeq
    <2> QED
      BY <1>1, <1>2, <2>1
  <1>7. ASSUME NEW m \in 1..(n - 1)
        PROVE  /\ CallOK(s, ns, m) /\ ns[m].call # "if"
               /\ ns[m].call = "block" => Placed(s, ns, m)
    <2>1. m \in Nat \ {0} /\ m \in 1..n /\ m # Len(cs) /\ \A k \in 1..m : ns[k] = bs[k]
      BY <1>1, <1>6
    <2>2. CallOK(s, ns, m) /\ (Placed(s, bs, m) => Placed(s, ns, m))
      BY <1>1, <2>1, LowerCalls
    <2> QED
      BY <1>1, <2>1, <2>2
  <1>8. LoopsBelow(ns, n) = LoopsBelow(cs, n)
    <2>1. \A k \in 1..n : ns[k].call = cs[k].call /\ (cs[k].call = "loop" => ns[k] = cs[k])
      BY <1>1, <1>2, <1>3, <1>4, <1>6
    <2>2. {k \in 1..n : ns[k].call = "loop"} = {k \in 1..n : cs[k].call = "loop"}
      BY <2>1
    <2>3. {ns[k].idx : k \in {k \in 1..n : cs[k].call = "loop"}} = {cs[k].idx : k \in {k \in 1..n : cs[k].call = "loop"}}
      BY <2>1
    <2> QED
      BY <2>2, <2>3 DEF LoopsBelow
  <1>9. n # 1 => n - 1 \in 1..(n - 1) /\ ns[n - 1] = bs[n - 1]
    BY <1>1, <1>6
  <1>10. CallOK(s, ns, n)
    <2>1. LoopsBelow(bs, n) = LoopsBelow(cs, n) /\ LoopsAround(s, cs[n].idx) = LoopsBelow(bs, n)
      <3>1. LoopsBelow(bs, n) = LoopsBelow(cs, n)
        BY <1>1, <1>2, LowerCalls
      <3> QED
        BY <1>3, <3>1 DEF CallOK
    <2>2. n # 1 => CalledFrom(s, ns[n], ns[n - 1])
      <3>1. n # 1 => CalledFrom(s, bs[n], bs[n - 1])
        BY <1>3, Zenon DEF CallOK
      <3>2. n # 1 => CalledFrom(s, f, bs[n - 1])
        BY <1>3, <1>4, <3>1 DEF CalledFrom
      <3> QED
        BY <1>6, <1>9, <3>2
    <2>3. n = 1 => ns[n].call = "block" /\ ns[n].limit = Len(s) /\ ns[n].stop = "none"
      BY <1>3, <1>4, <1>6 DEF CallOK
    <2>4. ns[n].idx >= 1 /\ LoopsAround(s, ns[n].idx) = LoopsBelow(ns, n)
      BY <1>4, <1>6, <1>8, <2>1
    <2> QED
      BY <1>4, <1>6, <2>2, <2>3, <2>4 DEF CallOK
  <1>11. ASSUME ~later PROVE Placed(s, ns, n)
    <2>1. Opener(ns, n) = Opener(cs, n) /\ Opener(bs, n) = Opener(cs, n)
      <3>1. ~(n < 3) => n - 2 \in 1..(n - 1) /\ n - 2 \in 1..n
        BY <1>1
      <3> QED
        BY <1>2, <1>6, <3>1 DEF Opener
    <2>2. Placed(s, bs, n)
      BY <1>1, <1>3, <1>11
    <2>3. InBlock(s, Opener(cs, n), idx) /\ cs[n].idx <= idx /\ cs[n].idx \in Int
      BY <1>3, <1>11 DEF Frames
    <2>4. cs[n].stop = "fi" =>
            \A k \in 1..Len(s) : k >= cs[n].idx /\ Flow!Directly(s, Opener(cs, n), k) => Flow!Kind(s, k) \notin {"elif", "else"}
      BY <1>3, <2>1, <2>2 DEF Placed
    <2>5. \A k \in 1..Len(s) : k >= idx => k >= cs[n].idx
      BY <2>3
    <2> QED
      BY <1>4, <1>6, <2>1, <2>3, <2>4, <2>5 DEF Placed
  <1>12. ns # <<>>
    BY <1>1, <1>6, EmptySeq
  <1>13. \A m \in 1..n : m \in 1..(n - 1) \/ m = n
    BY <1>1
  <1>14. ns[n].call = "block" /\ f = ns[n]
    BY <1>4, <1>6
  <1>15. Stack(s, ns, later)
    <2>1. \A m \in 1..Len(ns) : CallOK(s, ns, m) /\ (ns[m].call = "if" => m = Len(ns))
      BY <1>6, <1>7, <1>10, <1>13
    <2>2. \A m \in 1..Len(ns) : ns[m].call = "block" /\ (m # Len(ns) \/ ~later) => Placed(s, ns, m)
      BY <1>6, <1>7, <1>11, <1>13
    <2>3. later => LoopsBelow(ns, Len(ns)) # {}
      BY <1>6, <1>8
    <2>4. ns[Len(ns)].call = "block"
      BY <1>6, <1>14
    <2> QED
      BY <1>6, <1>12, <2>1, <2>2, <2>3, <2>4 DEF Stack
  <1>16. Last(ns) = f
    BY <1>6, Zenon DEF Last
  <1>17. QED
    BY <1>4, <1>12, <1>14, <1>15, <1>16 DEF GoesOnAt, ns

LEMMA StackKeeps ==
  ASSUME NEW s, NEW cs, NEW requested \in BOOLEAN, Stack(s, cs, requested), NEW bs, NEW n, Base(s, bs, cs, n),
         n # Len(cs), cs[n].call = "loop"
  PROVE  OnTop(s, bs, cs[n])
  <1>1. /\ n \in Nat \ {0} /\ n <= Len(cs) /\ Len(cs) \in Nat
        /\ \A m \in 1..n : CallOK(s, bs, m)
        /\ \A m \in 1..n : bs[m].call = "block" /\ (m # Len(cs) \/ ~requested) => Placed(s, bs, m)
        /\ \A m \in 1..n : bs[m].call = "if" => m = Len(cs)
    BY BaseCalls
  <1>2. bs \in Seq(Frames(s)) /\ Len(bs) = n /\ bs[n] = cs[n]
    BY <1>1 DEF Base
  <1>3. bs # <<>>
    BY <1>1, <1>2, EmptySeq
  <1>4. \A m \in 1..n : m # Len(cs)
    BY <1>1
  <1>5. Stack(s, bs, FALSE)
    BY <1>1, <1>2, <1>3, <1>4 DEF Stack
  <1>6. QED
    BY <1>2, <1>3, <1>5, Zenon DEF Last, OnTop

(* Calls on top of others. *)
OneMore(s, ns, bs, c) ==
  /\ ns \in Seq(Frames(s)) /\ Len(ns) = Len(bs) + 1 /\ ns[Len(bs) + 1] = c
  /\ \A k \in 1..Len(bs) : ns[k] = bs[k]

TwoMore(s, ns, bs, c, d) ==
  /\ ns \in Seq(Frames(s)) /\ Len(ns) = Len(bs) + 2 /\ ns[Len(bs) + 1] = c /\ ns[Len(bs) + 2] = d
  /\ \A k \in 1..Len(bs) : ns[k] = bs[k]

LEMMA AppendIsOneMore ==
  ASSUME NEW s, NEW bs \in Seq(Frames(s)), NEW c \in Frames(s)
  PROVE  OneMore(s, Append(bs, c), bs, c)
  <1>1. /\ Append(bs, c) \in Seq(Frames(s)) /\ Len(Append(bs, c)) = Len(bs) + 1
        /\ Append(bs, c)[Len(bs) + 1] = c /\ \A k \in 1..Len(bs) : Append(bs, c)[k] = bs[k]
    BY AppendProperties
  <1>2. QED
    BY <1>1, Zenon DEF OneMore

LEMMA ConcatIsTwoMore ==
  ASSUME NEW s, NEW bs \in Seq(Frames(s)), NEW c \in Frames(s), NEW d \in Frames(s)
  PROVE  TwoMore(s, bs \o <<c, d>>, bs, c, d)
  <1> DEFINE ns == bs \o <<c, d>>
             n == Len(bs)
  <1>1. <<c, d>> \in Seq(Frames(s)) /\ Len(<<c, d>>) = 2 /\ <<c, d>>[1] = c /\ <<c, d>>[2] = d /\ n \in Nat
    BY LenProperties
  <1>2. /\ ns \in Seq(Frames(s)) /\ Len(ns) = Len(bs) + 2
        /\ \A i \in 1..(Len(bs) + 2) : ns[i] = IF i <= Len(bs) THEN bs[i] ELSE <<c, d>>[i - Len(bs)]
    BY <1>1, ConcatProperties
  <1> HIDE DEF ns
  <1>3. n + 1 \in 1..(n + 2) /\ n + 2 \in 1..(n + 2) /\ n + 1 - n = 1 /\ n + 2 - n = 2 /\ ~(n + 1 <= n) /\ ~(n + 2 <= n)
        /\ \A k \in 1..n : k \in 1..(n + 2) /\ k <= n
    BY <1>1
  <1>4. ns[n + 1] = <<c, d>>[1] /\ ns[n + 2] = <<c, d>>[2] /\ \A k \in 1..n : ns[k] = bs[k]
    BY <1>2, <1>3
  <1>5. TwoMore(s, ns, bs, c, d)
    BY <1>1, <1>2, <1>4, Zenon DEF TwoMore
  <1>6. QED
    BY <1>5 DEF ns

(* The calls from which a block that runs calls on. *)
Standing(s, bs, n) ==
  /\ n \in Nat \ {0} /\ bs \in Seq(Frames(s)) /\ Len(bs) = n /\ bs[n].call = "block"
  /\ \A m \in 1..n : CallOK(s, bs, m) /\ bs[m].call # "if" /\ (bs[m].call = "block" => Placed(s, bs, m))

LEMMA StackStands ==
  ASSUME NEW s, NEW cs, NEW requested, Stack(s, cs, requested), NEW bs, NEW n, Base(s, bs, cs, n),
         cs[n].call = "block", n # Len(cs) \/ ~requested
  PROVE  Standing(s, bs, n) /\ bs[n] = cs[n]
  <1>1. /\ n \in Nat \ {0} /\ n <= Len(cs) /\ Len(cs) \in Nat
        /\ \A m \in 1..n : CallOK(s, bs, m)
        /\ \A m \in 1..n : bs[m].call = "block" /\ (m # Len(cs) \/ ~requested) => Placed(s, bs, m)
        /\ \A m \in 1..n : bs[m].call = "if" => m = Len(cs)
    BY BaseCalls
  <1>2. bs \in Seq(Frames(s)) /\ Len(bs) = n /\ bs[n] = cs[n]
    BY <1>1 DEF Base
  <1>3. ASSUME NEW m \in 1..n PROVE bs[m].call # "if" /\ (bs[m].call = "block" => Placed(s, bs, m))
    <2>1. m = Len(cs) => m = n
      BY <1>1
    <2> QED
      BY <1>1, <1>2, <2>1
  <1>4. QED
    BY <1>1, <1>2, <1>3 DEF Standing

LEMMA StandingUnder ==
  ASSUME NEW s, NEW bs, NEW n, Standing(s, bs, n), NEW ns, \A k \in 1..n : ns[k] = bs[k]
  PROVE  \A m \in 1..n : /\ CallOK(s, ns, m) /\ ns[m].call # "if"
                         /\ ns[m].call = "block" => Placed(s, ns, m)
  <1>1. n \in Nat
    BY DEF Standing
  <1>2. ASSUME NEW m \in 1..n
        PROVE  /\ CallOK(s, ns, m) /\ ns[m].call # "if"
               /\ ns[m].call = "block" => Placed(s, ns, m)
    <2>1. m \in Nat \ {0} /\ \A k \in 1..m : ns[k] = bs[k]
      BY <1>1
    <2>2. CallOK(s, bs, m) /\ bs[m].call # "if" /\ (bs[m].call = "block" => Placed(s, bs, m))
      BY DEF Standing
    <2>3. (CallOK(s, bs, m) => CallOK(s, ns, m)) /\ (Placed(s, bs, m) => Placed(s, ns, m))
      BY <2>1, LowerCalls
    <2>4. ns[m] = bs[m]
      BY <1>1
    <2> QED
      BY <2>2, <2>3, <2>4
  <1>3. QED
    BY <1>2

(* A call on top of a block: a condition to test, or a loop. *)
LEMMA StackPushes ==
  ASSUME NEW s, NEW bs, NEW n, Standing(s, bs, n),
         NEW c \in Frames(s), c.call \in {"if", "loop"}, CalledFrom(s, c, bs[n]),
         NEW ns, OneMore(s, ns, bs, c)
  PROVE  OnTop(s, ns, c)
  <1>1. n \in Nat \ {0} /\ Len(bs) = n
    BY DEF Standing
  <1>3. ns \in Seq(Frames(s)) /\ Len(ns) = n + 1 /\ ns[n + 1] = c /\ \A k \in 1..n : ns[k] = bs[k]
    BY <1>1, Zenon DEF OneMore
  <1>4. \A m \in 1..n : CallOK(s, ns, m) /\ ns[m].call # "if" /\ (ns[m].call = "block" => Placed(s, ns, m))
    BY <1>3, StandingUnder
  <1>5. CallOK(s, ns, n + 1)
    <2>1. n + 1 # 1 /\ n + 1 - 1 = n /\ n \in 1..n
      BY <1>1
    <2>2. ns[n] = bs[n]
      BY <1>3, <2>1
    <2> QED
      BY <1>3, <2>1, <2>2 DEF CallOK
  <1>6. \A m \in 1..(n + 1) : m \in 1..n \/ m = n + 1
    BY <1>1
  <1>7. ns # <<>> /\ Last(ns) = c
    BY <1>1, <1>3, EmptySeq DEF Last
  <1>8. Stack(s, ns, FALSE)
    <2>1. \A m \in 1..Len(ns) : CallOK(s, ns, m) /\ (ns[m].call = "if" => m = Len(ns))
      BY <1>3, <1>4, <1>5, <1>6
    <2>2. \A m \in 1..Len(ns) : ns[m].call = "block" => Placed(s, ns, m)
      BY <1>3, <1>4, <1>6
    <2>3. ns[Len(ns)].call # "branch"
      BY <1>3
    <2> QED
      BY <1>3, <1>7, <2>1, <2>2, <2>3 DEF Stack
  <1>9. QED
    BY <1>7, <1>8 DEF OnTop

LEMMA AboveFirst ==
  ASSUME NEW s, NEW cs, NEW m, m # 1, cs[m] \in Frames(s), CalledFrom(s, cs[m], cs[m - 1]),
         cs[m].call = "block" => cs[m].idx >= 1 /\ LoopsAround(s, cs[m].idx) = LoopsBelow(cs, m)
  PROVE  CallOK(s, cs, m)
  BY DEF CallOK

(* An arm or the body of a loop is executed. *)
Enters(s, below, c, d) ==
  /\ c \in Frames(s) /\ c.call \in {"branch", "loop"} /\ CalledFrom(s, c, below)
  /\ d \in Frames(s) /\ d.call = "block" /\ CalledFrom(s, d, c) /\ d.idx >= 1
  /\ InBlock(s, below.idx, d.idx)
  /\ d.stop = "fi" =>
       \A k \in 1..Len(s) : k >= d.idx /\ Flow!Directly(s, below.idx, k) => Flow!Kind(s, k) \notin {"elif", "else"}
  /\ LoopsAround(s, d.idx) = LoopsAround(s, below.idx) \cup (IF c.call = "loop" THEN {c.idx} ELSE {})

LEMMA StackEnters ==
  ASSUME NEW s, NEW bs, NEW n, Standing(s, bs, n), NEW c, NEW d, Enters(s, bs[n], c, d),
         NEW ns, TwoMore(s, ns, bs, c, d)
  PROVE  OnTop(s, ns, d)
  <1>0. /\ c \in Frames(s) /\ c.call \in {"branch", "loop"} /\ CalledFrom(s, c, bs[n])
        /\ d \in Frames(s) /\ d.call = "block" /\ CalledFrom(s, d, c) /\ d.idx >= 1
        /\ InBlock(s, bs[n].idx, d.idx)
        /\ d.stop = "fi" =>
             \A k \in 1..Len(s) : k >= d.idx /\ Flow!Directly(s, bs[n].idx, k) => Flow!Kind(s, k) \notin {"elif", "else"}
        /\ LoopsAround(s, d.idx) = LoopsAround(s, bs[n].idx) \cup (IF c.call = "loop" THEN {c.idx} ELSE {})
    BY DEF Enters
  <1>1. n \in Nat \ {0} /\ Len(bs) = n
    BY DEF Standing
  <1>3. ns \in Seq(Frames(s)) /\ Len(ns) = n + 2 /\ ns[n + 1] = c /\ ns[n + 2] = d /\ \A k \in 1..n : ns[k] = bs[k]
    BY <1>1, Zenon DEF TwoMore
  <1>4. \A m \in 1..n : CallOK(s, ns, m) /\ ns[m].call # "if" /\ (ns[m].call = "block" => Placed(s, ns, m))
    BY <1>3, StandingUnder
  <1>5. n + 1 # 1 /\ n + 1 - 1 = n /\ n \in 1..n /\ n + 2 # 1 /\ n + 2 - 1 = n + 1 /\ n + 2 - 2 = n /\ ~(n + 2 < 3)
        /\ n \in Nat /\ n + 1 \in Nat /\ n + 1 + 1 = n + 2
    BY <1>1
  <1>6. ns[n] = bs[n]
    BY <1>3, <1>5
  <1>7. CallOK(s, ns, n + 1)
    BY <1>0, <1>3, <1>5, <1>6 DEF CallOK
  <1>8. LoopsBelow(ns, n + 2) = LoopsBelow(ns, n) \cup (IF c.call = "loop" THEN {c.idx} ELSE {})
    <2>1. LoopsBelow(ns, n + 1) = LoopsBelow(ns, n) \cup (IF c.call = "loop" THEN {c.idx} ELSE {})
      BY <1>0, <1>3, <1>5, LoopsBelowStep
    <2>2. LoopsBelow(ns, n + 2) = LoopsBelow(ns, n + 1)
      <3>1. ns[n + 1 + 1].call # "loop"
        BY <1>0, <1>3, <1>5
      <3>2. LoopsBelow(ns, n + 1 + 1) = LoopsBelow(ns, n + 1) \cup {}
        BY <1>5, <3>1, LoopsBelowStep
      <3> QED
        BY <1>5, <3>2
    <2> QED
      BY <2>1, <2>2
  <1>9. LoopsAround(s, bs[n].idx) = LoopsBelow(ns, n)
    <2>1. CallOK(s, ns, n) /\ bs[n].call = "block"
      BY <1>4, <1>5 DEF Standing
    <2> QED
      BY <1>6, <2>1 DEF CallOK
  <1>10. CallOK(s, ns, n + 2)
    <2>1. LoopsAround(s, d.idx) = LoopsBelow(ns, n + 2)
      BY <1>0, <1>8, <1>9
    <2> DEFINE m == n + 2
    <2>2. CalledFrom(s, ns[m], ns[m - 1])
      BY <1>0, <1>3, <1>5
    <2>3. ns[m] \in Frames(s) /\ ns[m].idx >= 1 /\ LoopsAround(s, ns[m].idx) = LoopsBelow(ns, m)
      BY <1>0, <1>3, <2>1
    <2>4. m # 1
      BY <1>5
    <2> HIDE DEF m
    <2>5. CallOK(s, ns, m)
      BY <2>2, <2>3, <2>4, AboveFirst
    <2> QED
      BY <2>5 DEF m
  <1>11. Placed(s, ns, n + 2)
    <2>1. Opener(ns, n + 2) = bs[n].idx
      BY <1>5, <1>6 DEF Opener
    <2> QED
      BY <1>0, <1>3, <2>1 DEF Placed
  <1>12. \A m \in 1..(n + 2) : m \in 1..n \/ m = n + 1 \/ m = n + 2
    BY <1>1
  <1>13. ns # <<>> /\ Last(ns) = d
    BY <1>1, <1>3, EmptySeq DEF Last
  <1>14. Stack(s, ns, FALSE)
    <2>1. \A m \in 1..Len(ns) : CallOK(s, ns, m) /\ (ns[m].call = "if" => m = Len(ns))
      BY <1>0, <1>3, <1>4, <1>7, <1>10, <1>12
    <2>2. \A m \in 1..Len(ns) : ns[m].call = "block" => Placed(s, ns, m)
      BY <1>0, <1>3, <1>4, <1>11, <1>12
    <2>3. ns[Len(ns)].call # "branch"
      BY <1>0, <1>3
    <2> QED
      BY <1>3, <1>13, <2>1, <2>2, <2>3 DEF Stack
  <1>15. QED
    BY <1>13, <1>14 DEF OnTop

-----------------------------------------------------------------------------
(* What is promised to come next, seen from the call on top. *)
Expected(s, t, break, continue) ==
  IF break THEN Flow!At(s, Flow!Reached(s)[Flow!NextOf(s, Flow!LoopOf(s, t.idx), {"done"}) + 1])
  ELSE IF continue THEN Flow!At(s, Flow!LoopOf(s, t.idx))
  ELSE IF t.call = "block" THEN Flow!At(s, Flow!Reached(s)[t.idx])
  ELSE Flow!At(s, t.idx)

ScriptIInv ==
  /\ break_requested \in BOOLEAN /\ continue_requested \in BOOLEAN /\ ~(break_requested /\ continue_requested)
  /\ script = <<>> => calls = <<>> /\ event = Nothing
  /\ script # <<>> => Flow!WellFormed(script)
  /\ calls = <<>> => ~Requested /\ (script # <<>> => event.outcome = "end")
  /\ calls # <<>> => /\ Stack(script, calls, Requested)
                     /\ Flow!Follows(script, event) = Expected(script, Top, break_requested, continue_requested)

FlowStep == [Flow!FlowNext]_(Flow!flowVars)

LEMMA Running ==
  ASSUME ScriptIInv, calls # <<>>
  PROVE  /\ script # <<>> /\ Flow!WellFormed(script) /\ Stack(script, calls, Requested) /\ Requested \in BOOLEAN
         /\ Flow!Follows(script, event) = Expected(script, Top, break_requested, continue_requested)
         /\ Len(script) \in Nat \ {0} /\ DOMAIN script = 1..Len(script)
         /\ Len(calls) \in Nat \ {0} /\ Top = calls[Len(calls)] /\ Base(script, calls, calls, Len(calls))
         /\ Top \in Frames(script) /\ \A i : Kind(script, i) = Flow!Kind(script, i)
  <1>1. script # <<>> /\ Flow!WellFormed(script) /\ Stack(script, calls, Requested) /\ Requested \in BOOLEAN
    BY DEF ScriptIInv, Requested
  <1>2. Flow!Follows(script, event) = Expected(script, Top, break_requested, continue_requested)
    BY Zenon DEF ScriptIInv
  <1>3. Len(script) \in Nat \ {0} /\ DOMAIN script = 1..Len(script)
    BY <1>1, ScriptLines
  <1>4. Len(calls) \in Nat \ {0} /\ Last(calls) = calls[Len(calls)] /\ Base(script, calls, calls, Len(calls))
    BY <1>1, StackBases
  <1>5. CallOK(script, calls, Len(calls))
    BY <1>1, <1>4 DEF Stack
  <1>6. \A i : Kind(script, i) = Flow!Kind(script, i)
    BY DEF Kind, Flow!Kind
  <1>7. QED
    BY <1>1, <1>2, <1>3, <1>4, <1>5, <1>6 DEF Top, CallOK

LEMMA Continued ==
  ASSUME ScriptIInv, calls # <<>>, script' = script, calls' # <<>>,
         break_requested' \in BOOLEAN, continue_requested' \in BOOLEAN, ~(break_requested' /\ continue_requested'),
         Stack(script, calls', Requested'),
         Flow!Follows(script, event') = Expected(script, Last(calls'), break_requested', continue_requested')
  PROVE  ScriptIInv'
  <1>1. script # <<>> /\ Flow!WellFormed(script)
    BY Running
  <1>2. Flow!WellFormed(script)' /\ script' # <<>>
    BY <1>1
  <1>3. Stack(script, calls, Requested)'
    OBVIOUS
  <1>4. (Flow!Follows(script, event) = Expected(script, Top, break_requested, continue_requested))'
    BY DEF Top
  <1>5. QED
    BY <1>2, <1>3, <1>4 DEF ScriptIInv

LEMMA Stutters == UNCHANGED <<script, event>> => FlowStep
  BY DEF FlowStep, Flow!flowVars

LEMMA Steps == script # <<>> /\ event' \in Flow!Follows(script, event) /\ UNCHANGED script => FlowStep
  BY DEF FlowStep, Flow!FlowNext, Flow!FlowStep

LEMMA AtLine ==
  ASSUME NEW s, NEW i, NEW e
  PROVE  /\ i \in 1..Len(s) /\ Flow!Kind(s, i) \in {"cmd", "break", "continue"} =>
              [line |-> i, outcome |-> "ran"] \in Flow!At(s, i)
         /\ i \in 1..Len(s) /\ Flow!Kind(s, i) \in Flow!Tested =>
              [line |-> i, outcome |-> "true"] \in Flow!At(s, i) /\ [line |-> i, outcome |-> "false"] \in Flow!At(s, i)
         /\ Len(s) \in Nat => [line |-> Len(s) + 1, outcome |-> "end"] \in Flow!At(s, Len(s) + 1)
  <1>1. ASSUME NEW o \in Flow!Outcomes(s, i) PROVE [line |-> i, outcome |-> o] \in Flow!At(s, i)
    BY DEF Flow!At
  <1>2. ASSUME i \in 1..Len(s) PROVE ~(i > Len(s))
    BY <1>2
  <1>3. i \in 1..Len(s) /\ Flow!Kind(s, i) \in {"cmd", "break", "continue"} => "ran" \in Flow!Outcomes(s, i)
    BY <1>2 DEF Flow!Outcomes
  <1>4. i \in 1..Len(s) /\ Flow!Kind(s, i) \in Flow!Tested => "true" \in Flow!Outcomes(s, i) /\ "false" \in Flow!Outcomes(s, i)
    BY <1>2 DEF Flow!Outcomes, Flow!Tested
  <1>5. Len(s) \in Nat => [line |-> Len(s) + 1, outcome |-> "end"] \in Flow!At(s, Len(s) + 1)
    <2>1. Len(s) \in Nat => Len(s) + 1 > Len(s)
      OBVIOUS
    <2>2. Len(s) \in Nat => "end" \in Flow!Outcomes(s, Len(s) + 1)
      BY <2>1 DEF Flow!Outcomes
    <2> QED
      BY <2>2 DEF Flow!At
  <1>6. QED
    BY <1>1, <1>3, <1>4, <1>5

LEMMA FollowsOf ==
  ASSUME NEW s, NEW i
  PROVE  /\ Flow!Kind(s, i) = "cmd" => Flow!Follows(s, [line |-> i, outcome |-> "ran"]) = Flow!At(s, Flow!Reached(s)[i + 1])
         /\ Flow!Kind(s, i) = "break" =>
              Flow!Follows(s, [line |-> i, outcome |-> "ran"])
                = Flow!At(s, Flow!Reached(s)[Flow!NextOf(s, Flow!LoopOf(s, i), {"done"}) + 1])
         /\ Flow!Kind(s, i) = "continue" => Flow!Follows(s, [line |-> i, outcome |-> "ran"]) = Flow!At(s, Flow!LoopOf(s, i))
         /\ Flow!Kind(s, i) \in Flow!Tested =>
              Flow!Follows(s, [line |-> i, outcome |-> "true"]) = Flow!At(s, Flow!Reached(s)[i + 1])
         /\ Flow!Kind(s, i) \in Flow!Loops =>
              Flow!Follows(s, [line |-> i, outcome |-> "false"])
                = Flow!At(s, Flow!Reached(s)[Flow!NextOf(s, i, {"done"}) + 1])
         /\ Flow!Kind(s, i) \in {"if", "elif"} =>
              Flow!Follows(s, [line |-> i, outcome |-> "false"])
                = LET arm == Flow!NextOf(s, i, Flow!Arms) IN
                  IF Flow!Kind(s, arm) = "elif" THEN Flow!At(s, arm) ELSE Flow!At(s, Flow!Reached(s)[arm + 1])
         /\ Flow!Follows(s, Nothing) = Flow!At(s, Flow!Reached(s)[1])
  <1>1. \A o : [line |-> i, outcome |-> o].line = i /\ [line |-> i, outcome |-> o].outcome = o
    OBVIOUS
  <1>2. Nothing.outcome = "start"
    BY DEF Nothing
  <1>3. QED
    BY <1>1, <1>2 DEF Flow!Follows, Flow!Tested, Flow!Loops

LEMMA LineFacts ==
  ASSUME ScriptIInv, NEW kinds, NextLine(kinds)
  PROVE  LET n == Len(calls) IN
         /\ calls # <<>> /\ Requested = FALSE /\ break_requested = FALSE /\ continue_requested = FALSE
         /\ Top.call = "block" /\ Top.idx \in 1..Len(script) /\ Top.idx <= Top.limit
         /\ Flow!Kind(script, Top.idx) \in kinds
         /\ Placed(script, calls, n)
         /\ InBlock(script, Opener(calls, n), Top.idx) /\ Opens(script, Opener(calls, n))
         /\ Flow!Follows(script, event) = Flow!At(script, Flow!Reached(script)[Top.idx])
         /\ LoopsAround(script, Top.idx) = LoopsBelow(calls, n)
  <1>1. calls # <<>> /\ Top.call = "block" /\ Top.idx <= Top.limit /\ ~Requested /\ Kind(script, Top.idx) \in kinds
    BY Zenon DEF NextLine
  <1>2. /\ Stack(script, calls, Requested) /\ Len(calls) \in Nat \ {0} /\ Top = calls[Len(calls)] /\ Top \in Frames(script)
        /\ Flow!Follows(script, event) = Expected(script, Top, break_requested, continue_requested)
        /\ Len(script) \in Nat \ {0} /\ \A i : Kind(script, i) = Flow!Kind(script, i)
    BY <1>1, Running
  <1>3. Requested = FALSE /\ break_requested = FALSE /\ continue_requested = FALSE
    BY <1>1 DEF ScriptIInv, Requested
  <1>4. Placed(script, calls, Len(calls)) /\ CallOK(script, calls, Len(calls))
    BY <1>1, <1>2 DEF Stack
  <1>5. Top.idx >= 1 /\ LoopsAround(script, Top.idx) = LoopsBelow(calls, Len(calls))
    BY <1>1, <1>2, <1>4, Zenon DEF CallOK
  <1>6. Top.idx \in 1..Len(script)
    <2>1. Top.idx \in 0..(Len(script) + 1) /\ Top.limit \in 0..Len(script)
      BY <1>2 DEF Frames
    <2> QED
      BY <1>1, <1>2, <1>5, <2>1
  <1>7. InBlock(script, Opener(calls, Len(calls)), Top.idx)
    BY <1>2, <1>4, Zenon DEF Placed
  <1>8. Opens(script, Opener(calls, Len(calls)))
    <2>1. Len(calls) \in 1..Len(calls)
      BY <1>2
    <2> QED
      BY <1>1, <1>2, <2>1, BlockOpener
  <1>9. Flow!Follows(script, event) = Flow!At(script, Flow!Reached(script)[Top.idx])
    BY <1>1, <1>2, <1>3 DEF Expected
  <1>10. QED
    BY <1>1, <1>2, <1>3, <1>4, <1>5, <1>6, <1>7, <1>8, <1>9

(* What a condition that is tested is called from. *)
LEMMA TestFacts ==
  ASSUME ScriptIInv, calls # <<>>, Top.call = "if"
  PROVE  LET m == Len(calls) - 1
             h == calls[m].idx IN
         /\ Requested = FALSE /\ break_requested = FALSE /\ continue_requested = FALSE
         /\ m \in 1..Len(calls) /\ m # Len(calls) /\ Base(script, Under, calls, m)
         /\ calls[m].call = "block" /\ h \in 1..Len(script) /\ Flow!Kind(script, h) = "if"
         /\ Flow!Kind(script, h) \in Flow!Openers
         /\ Placed(script, calls, m) /\ Opens(script, Opener(calls, m)) /\ InBlock(script, Opener(calls, m), h)
         /\ Top.limit = calls[m].limit /\ Top.limit \in 0..Len(script) /\ CloserOf(script, h) <= Top.limit
         /\ Top.idx \in 1..Len(script) /\ Flow!Kind(script, Top.idx) \in {"if", "elif"}
         /\ Top.idx = h \/ (Flow!Directly(script, h, Top.idx) /\ Flow!Kind(script, Top.idx) = "elif")
         /\ Flow!Follows(script, event) = Flow!At(script, Top.idx)
  <1> DEFINE n == Len(calls)
             m == n - 1
             h == calls[m].idx
  <1>1. /\ Stack(script, calls, Requested) /\ n \in Nat \ {0} /\ Top = calls[n] /\ Top \in Frames(script)
        /\ Flow!Follows(script, event) = Expected(script, Top, break_requested, continue_requested)
        /\ Len(script) \in Nat \ {0} /\ Requested \in BOOLEAN
    BY Running
  <1>2. Requested = FALSE
    BY <1>1 DEF Stack
  <1>3. break_requested = FALSE /\ continue_requested = FALSE
    BY <1>2 DEF ScriptIInv, Requested
  <1>4. CallOK(script, calls, n)
    BY <1>1 DEF Stack
  <1>5. n # 1
    BY <1>1, <1>4 DEF CallOK
  <1>6. m \in 1..Len(calls) /\ m # Len(calls) /\ n > 1
    <2>1. n \in Nat /\ n # 0 /\ n # 1 /\ Len(calls) = n
      BY <1>1, <1>5
    <2> HIDE DEF n
    <2>2. n - 1 \in 1..n /\ n - 1 # n /\ n > 1
      BY <2>1
    <2> QED
      BY <2>1, <2>2
  <1>7. CalledFrom(script, Top, calls[m])
    BY <1>1, <1>4, <1>5, Zenon DEF CallOK
  <1>8. Base(script, Under, calls, m)
    BY <1>1, <1>6, StackBases DEF Under
  <1>9. /\ calls[m].call = "block" /\ h \in 1..Len(script) /\ Flow!Kind(script, h) = "if"
        /\ Top.limit = calls[m].limit /\ CloserOf(script, h) <= Top.limit
        /\ Top.idx \in 1..Len(script)
        /\ Top.idx = h \/ (Flow!Directly(script, h, Top.idx) /\ Flow!Kind(script, Top.idx) = "elif")
    BY <1>7 DEF CalledFrom
  <1>10. Placed(script, calls, m)
    BY <1>1, <1>6, <1>9 DEF Stack
  <1>11. InBlock(script, Opener(calls, m), h)
    BY <1>10, Zenon DEF Placed
  <1>12. Opens(script, Opener(calls, m))
    BY <1>1, <1>6, <1>9, BlockOpener
  <1>13. Flow!Kind(script, h) \in Flow!Openers /\ Flow!Kind(script, Top.idx) \in {"if", "elif"}
    BY <1>9 DEF Flow!Openers
  <1>14. Flow!Follows(script, event) = Flow!At(script, Top.idx)
    BY <1>1, <1>3 DEF Expected
  <1>15. Top.limit \in 0..Len(script)
    BY <1>1 DEF Frames
  <1> HIDE DEF n
  <1>16. QED
    BY <1>2, <1>3, <1>6, <1>8, <1>9, <1>10, <1>11, <1>12, <1>13, <1>14, <1>15 DEF n

(* What a loop is called from. *)
LEMMA LoopFacts ==
  ASSUME ScriptIInv, calls # <<>>, Top.call = "loop"
  PROVE  LET m == Len(calls) - 1
             h == Top.idx IN
         /\ Requested = FALSE /\ break_requested = FALSE /\ continue_requested = FALSE
         /\ m \in 1..Len(calls) /\ m # Len(calls) /\ Base(script, Under, calls, m)
         /\ calls[m].call = "block" /\ calls[m].idx = h /\ h \in 1..Len(script) /\ Flow!Kind(script, h) \in Flow!Loops
         /\ Flow!Kind(script, h) \in Flow!Openers
         /\ Placed(script, calls, m) /\ Opens(script, Opener(calls, m)) /\ InBlock(script, Opener(calls, m), h)
         /\ Top.limit = CloserOf(script, h) /\ CalledFrom(script, Top, calls[m])
         /\ Flow!Follows(script, event) = Flow!At(script, h)
  <1> DEFINE n == Len(calls)
             m == n - 1
             h == Top.idx
  <1>1. /\ Stack(script, calls, Requested) /\ n \in Nat \ {0} /\ Top = calls[n] /\ Top \in Frames(script)
        /\ Flow!Follows(script, event) = Expected(script, Top, break_requested, continue_requested)
        /\ Len(script) \in Nat \ {0} /\ Requested \in BOOLEAN
    BY Running
  <1>2. Requested = FALSE
    BY <1>1 DEF Stack
  <1>3. break_requested = FALSE /\ continue_requested = FALSE
    BY <1>2 DEF ScriptIInv, Requested
  <1>4. CallOK(script, calls, n)
    BY <1>1 DEF Stack
  <1>5. n # 1
    BY <1>1, <1>4 DEF CallOK
  <1>6. m \in 1..Len(calls) /\ m # Len(calls) /\ n > 1
    <2>1. n \in Nat /\ n # 0 /\ n # 1 /\ Len(calls) = n
      BY <1>1, <1>5
    <2> HIDE DEF n
    <2>2. n - 1 \in 1..n /\ n - 1 # n /\ n > 1
      BY <2>1
    <2> QED
      BY <2>1, <2>2
  <1>7. CalledFrom(script, Top, calls[m])
    BY <1>1, <1>4, <1>5, Zenon DEF CallOK
  <1>8. Base(script, Under, calls, m)
    BY <1>1, <1>6, StackBases DEF Under
  <1>9. /\ calls[m].call = "block" /\ calls[m].idx = h /\ h \in 1..Len(script) /\ Flow!Kind(script, h) \in Flow!Loops
        /\ Top.limit = CloserOf(script, h)
    BY <1>7 DEF CalledFrom
  <1>10. Placed(script, calls, m)
    BY <1>1, <1>6, <1>9 DEF Stack
  <1>11. InBlock(script, Opener(calls, m), h)
    BY <1>9, <1>10, Zenon DEF Placed
  <1>12. Opens(script, Opener(calls, m))
    BY <1>1, <1>6, <1>9, BlockOpener
  <1>13. Flow!Kind(script, h) \in Flow!Openers
    BY <1>9 DEF Flow!Openers, Flow!Loops
  <1>14. Flow!Follows(script, event) = Flow!At(script, h)
    BY <1>1, <1>3 DEF Expected
  <1> HIDE DEF n
  <1>15. QED
    BY <1>2, <1>3, <1>6, <1>7, <1>8, <1>9, <1>10, <1>11, <1>12, <1>13, <1>14 DEF n

LEMMA BlockFrame ==
  ASSUME NEW s, Len(s) \in Nat, NEW idx \in 0..(Len(s) + 1), NEW limit \in 0..Len(s), NEW stop \in DOMAIN StopsAt
  PROVE  /\ Block(idx, limit, stop) \in Frames(s) /\ Block(idx, limit, stop).call = "block"
         /\ Block(idx, limit, stop).idx = idx /\ Block(idx, limit, stop).limit = limit /\ Block(idx, limit, stop).stop = stop
  <1>1. 0 \in 0..MaxItems
    BY ScriptsAssumption
  <1>2. QED
    BY <1>1 DEF Block, Frames

LEMMA TestFrame ==
  ASSUME NEW s, Len(s) \in Nat, NEW idx \in 0..(Len(s) + 1), NEW limit \in 0..Len(s)
  PROVE  Test(idx, limit) \in Frames(s) /\ Test(idx, limit).call = "if" /\ Test(idx, limit).idx = idx /\ Test(idx, limit).limit = limit
  <1>1. 0 \in 0..MaxItems /\ "none" \in DOMAIN StopsAt
    BY ScriptsAssumption DEF StopsAt
  <1>2. QED
    BY <1>1 DEF Test, Frames

LEMMA BranchFrame ==
  ASSUME NEW s, Len(s) \in Nat, NEW limit \in 0..Len(s)
  PROVE  Branch(limit) \in Frames(s) /\ Branch(limit).call = "branch" /\ Branch(limit).limit = limit
  <1>1. 0 \in 0..MaxItems /\ "none" \in DOMAIN StopsAt
    BY ScriptsAssumption DEF StopsAt
  <1>2. QED
    BY <1>1 DEF Branch, Frames

LEMMA LoopFrame ==
  ASSUME NEW s, Len(s) \in Nat, NEW head \in 0..(Len(s) + 1), NEW done \in 0..Len(s), NEW left \in 0..MaxItems
  PROVE  /\ Loop(head, done, left) \in Frames(s) /\ Loop(head, done, left).call = "loop"
         /\ Loop(head, done, left).idx = head /\ Loop(head, done, left).limit = done
  <1>1. "none" \in DOMAIN StopsAt
    BY DEF StopsAt
  <1>2. QED
    BY <1>1 DEF Loop, Frames

-----------------------------------------------------------------------------
LEMMA SimpleLineKeeps ==
  ASSUME ScriptIInv, execute_simple_line
  PROVE  ScriptIInv' /\ FlowStep
  <1> DEFINE i == Top.idx
             n == Len(calls)
             s == script
             k == Flow!Kind(s, i)
  <1>1. /\ calls # <<>> /\ Requested = FALSE
        /\ Top.call = "block" /\ i \in 1..Len(s) /\ k \in {"cmd", "break", "continue"}
        /\ InBlock(s, Opener(calls, n), i) /\ Opens(s, Opener(calls, n))
        /\ Flow!Follows(s, event) = Flow!At(s, Flow!Reached(s)[i])
        /\ LoopsAround(s, i) = LoopsBelow(calls, n)
    BY LineFacts DEF execute_simple_line
  <1>2. /\ Flow!WellFormed(s) /\ Stack(s, calls, Requested) /\ s # <<>>
        /\ Len(s) \in Nat \ {0} /\ n \in Nat \ {0} /\ Top = calls[n] /\ Base(s, calls, calls, n)
        /\ DOMAIN s = 1..Len(s) /\ Kind(s, i) = k
    BY <1>1, Running
  <1>3. /\ event' = [line |-> i, outcome |-> "ran"] /\ break_requested' = (k = "break") /\ continue_requested' = (k = "continue")
        /\ calls' = Resumed(calls, i + 1) /\ script' = s
    BY <1>2 DEF execute_simple_line, Did
  <1>4. k \notin Flow!Openers /\ k \notin Flow!Closers
    BY <1>1 DEF Flow!Openers, Flow!Closers
  <1> HIDE DEF k
  <1>5. InBlock(s, Opener(calls, n), i + 1) /\ LoopsAround(s, i + 1) = LoopsAround(s, i)
    BY <1>1, <1>2, <1>4, LineAfter, LoopsAfter DEF k
  <1>6. i + 1 \in 1..(Len(s) + 1) /\ i <= i + 1 /\ i \in 1..(Len(s) + 1)
    BY <1>1, <1>2
  <1>7. event' \in Flow!Follows(s, event)
    <2>1. Flow!Reached(s)[i] = i
      BY <1>1, <1>2, ReachedOf DEF k
    <2> QED
      BY <1>1, <1>3, <2>1, AtLine DEF k
  <1>8. Requested' = (k = "break" \/ k = "continue")
    BY <1>3, Zenon DEF Requested
  <1>9. k \in {"break", "continue"} => LoopsBelow(calls, n) # {}
    <2>1. SUFFICES ASSUME k \in {"break", "continue"} PROVE LoopsAround(s, i) # {}
      BY <1>1
    <2>2. PICK h \in DOMAIN s : Flow!Kind(s, h) \in Flow!Loops /\ Flow!Holds(s, h, i)
      BY <1>1, <1>2, <2>1, Zenon DEF Flow!WellFormed, k
    <2>3. h \in 1..Len(s) /\ Flow!Kind(s, h) \in Flow!Openers
      BY <1>2, <2>2 DEF Flow!Loops, Flow!Openers
    <2>4. h < i /\ i <= CloserOf(s, h)
      BY <1>2, <1>6, <2>2, <2>3, OpenerCloses
    <2>5. h \in LoopsAround(s, i)
      BY <1>2, <1>6, <2>2, <2>3, <2>4, LoopsAroundAre
    <2> QED
      BY <2>5
  <1>10. /\ Stack(s, calls', Requested') /\ calls' # <<>> /\ Last(calls').call = "block" /\ Last(calls').idx = i + 1
    <2> DEFINE later == (k = "break" \/ k = "continue")
    <2>2. ~later => InBlock(s, Opener(calls, n), i + 1) /\ calls[n].idx <= i + 1 /\ (n # Len(calls) \/ ~Requested)
      BY <1>1, <1>2, <1>5, <1>6
    <2>3. LoopsAround(s, i + 1) = LoopsAround(s, calls[n].idx) /\ calls[n].call = "block"
      BY <1>1, <1>2, <1>5
    <2>4. later => LoopsBelow(calls, n) # {}
      BY <1>9
    <2>1. later \in BOOLEAN
      OBVIOUS
    <2>5. Requested \in BOOLEAN /\ Len(s) \in Nat
      BY <1>1, <1>2
    <2> HIDE DEF later, i, n
    <2>6. GoesOnAt(s, Resumed(calls, i + 1), i + 1, later)
      BY <1>2, <1>6, <2>1, <2>2, <2>3, <2>4, <2>5, StackResumes
    <2> QED
      BY <1>3, <1>8, <2>6 DEF GoesOnAt, later
  <1>11. Flow!Follows(s, event') = Expected(s, Last(calls'), break_requested', continue_requested')
    <2>1. Last(calls').call = "block" /\ Last(calls').idx = i + 1
      BY <1>10
    <2>2. Flow!LoopOf(s, i + 1) = Flow!LoopOf(s, i)
      BY <1>5, Zenon DEF Flow!LoopOf, LoopsAround
    <2>3. CASE k = "cmd"
      <3>1. Flow!Follows(s, event') = Flow!At(s, Flow!Reached(s)[i + 1])
        BY <1>3, <2>3, FollowsOf DEF k
      <3>2. break_requested' = FALSE /\ continue_requested' = FALSE
        BY <1>3, <2>3
      <3> QED
        BY <2>1, <3>1, <3>2 DEF Expected
    <2>4. CASE k = "break"
      <3>1. Flow!Follows(s, event') = Flow!At(s, Flow!Reached(s)[Flow!NextOf(s, Flow!LoopOf(s, i), {"done"}) + 1])
        BY <1>3, <2>4, FollowsOf DEF k
      <3>2. break_requested' = TRUE
        BY <1>3, <2>4
      <3> QED
        BY <2>1, <2>2, <3>1, <3>2 DEF Expected
    <2>5. CASE k = "continue"
      <3>1. Flow!Follows(s, event') = Flow!At(s, Flow!LoopOf(s, i))
        BY <1>3, <2>5, FollowsOf DEF k
      <3>2. break_requested' = FALSE /\ continue_requested' = TRUE
        BY <1>3, <2>5
      <3> QED
        BY <2>1, <2>2, <3>1, <3>2 DEF Expected
    <2> QED
      BY <1>1, <2>3, <2>4, <2>5 DEF k
  <1>12. FlowStep
    BY <1>2, <1>3, <1>7, Steps
  <1>13. ScriptIInv'
    <2>1. break_requested' \in BOOLEAN /\ continue_requested' \in BOOLEAN /\ ~(break_requested' /\ continue_requested')
      BY <1>3
    <2> QED
      BY <1>1, <1>3, <1>10, <1>11, <2>1, Continued
  <1>14. QED
    BY <1>12, <1>13

LEMMA BlockLimit ==
  ASSUME NEW s, Flow!WellFormed(s), NEW cs, NEW requested, Stack(s, cs, requested), NEW m \in 1..Len(cs), cs[m].call = "block"
  PROVE  /\ m = 1 => cs[m].limit = Len(s)
         /\ m # 1 => IF cs[m - 1].call = "loop" THEN cs[m].limit = CloserOf(s, Opener(cs, m)) - 1
                     ELSE CloserOf(s, Opener(cs, m)) <= cs[m].limit
  <1>1. CallOK(s, cs, m)
    BY DEF Stack
  <1>2. m = 1 => cs[m].limit = Len(s)
    BY <1>1 DEF CallOK
  <1>3. ASSUME m # 1
        PROVE  IF cs[m - 1].call = "loop" THEN cs[m].limit = CloserOf(s, Opener(cs, m)) - 1
               ELSE CloserOf(s, Opener(cs, m)) <= cs[m].limit
    <2>1. /\ CalledFrom(s, cs[m], cs[m - 1]) /\ CalledFrom(s, cs[m - 1], cs[m - 2])
          /\ cs[m - 1].call \in {"loop", "branch"} /\ Opener(cs, m) = cs[m - 2].idx
      BY <1>3, BlockOpener
    <2>2. CASE cs[m - 1].call = "loop"
      <3>1. cs[m].limit = cs[m - 1].limit - 1
        BY <2>1, <2>2 DEF CalledFrom
      <3>2. cs[m - 1].limit = CloserOf(s, cs[m - 1].idx) /\ cs[m - 2].idx = cs[m - 1].idx
        BY <2>1, <2>2 DEF CalledFrom
      <3> QED
        BY <2>1, <2>2, <3>1, <3>2
    <2>3. CASE cs[m - 1].call = "branch"
      <3>1. cs[m].limit = cs[m - 1].limit
        BY <2>1, <2>3 DEF CalledFrom
      <3>2. cs[m - 1].limit = cs[m - 2].limit /\ CloserOf(s, cs[m - 2].idx) <= cs[m - 2].limit
        BY <2>1, <2>3 DEF CalledFrom
      <3> QED
        BY <2>1, <2>3, <3>1, <3>2
    <2> QED
      BY <2>1, <2>2, <2>3
  <1>4. QED
    BY <1>2, <1>3

LEMMA CloserFits ==
  ASSUME NEW s, Flow!WellFormed(s), NEW cs, NEW requested, Stack(s, cs, requested), NEW m \in 1..Len(cs), cs[m].call = "block",
         NEW i \in 1..Len(s), InBlock(s, Opener(cs, m), i), Flow!Kind(s, i) \in Flow!Openers
  PROVE  CloserOf(s, i) <= cs[m].limit
  <1>1. Len(s) \in Nat /\ CloserOf(s, i) \in 1..Len(s) /\ DOMAIN s = 1..Len(s)
    BY ScriptLines, OpenerCloses
  <1>2. cs[m].limit \in 0..Len(s)
    BY DEF Stack, CallOK, Frames
  <1>3. CASE m = 1
    BY <1>1, <1>3, BlockLimit
  <1>4. CASE m # 1
    <2> DEFINE h == Opener(cs, m)
    <2>1. h \in 1..Len(s) /\ Flow!Kind(s, h) \in Flow!Openers
      BY <1>4, BlockOpener
    <2>2. i \in 1..(Len(s) + 1) /\ h # 0
      BY <1>1, <2>1
    <2>3. Flow!Directly(s, h, i)
      BY <2>2, Zenon DEF InBlock
    <2>4. h < i /\ i <= CloserOf(s, h)
      BY <2>1, <2>2, <2>3, DirectlyIn
    <2>5. CloserOf(s, i) < CloserOf(s, h) /\ CloserOf(s, h) \in 1..Len(s)
      BY <2>1, <2>4, BlocksNest, OpenerCloses
    <2>6. cs[m].limit = CloserOf(s, h) - 1 \/ CloserOf(s, h) <= cs[m].limit
      BY <1>4, BlockLimit
    <2> HIDE DEF h
    <2> QED
      BY <1>1, <1>2, <2>5, <2>6
  <1>5. QED
    BY <1>3, <1>4

LEMMA ExecuteIfKeeps ==
  ASSUME ScriptIInv, execute_if
  PROVE  ScriptIInv' /\ FlowStep
  <1> DEFINE i == Top.idx
             n == Len(calls)
             s == script
             c == Test(i, Top.limit)
  <1>1. /\ calls # <<>> /\ Requested = FALSE
        /\ Top.call = "block" /\ i \in 1..Len(s) /\ Flow!Kind(s, i) = "if"
        /\ InBlock(s, Opener(calls, n), i)
        /\ Flow!Follows(s, event) = Flow!At(s, Flow!Reached(s)[i])
    <2>1. NextLine({"if"})
      BY DEF execute_if
    <2>2. /\ calls # <<>> /\ Requested = FALSE
          /\ Top.call = "block" /\ i \in 1..Len(s) /\ Flow!Kind(s, i) \in {"if"}
          /\ InBlock(s, Opener(calls, n), i)
          /\ Flow!Follows(s, event) = Flow!At(s, Flow!Reached(s)[i])
      BY <2>1, LineFacts
    <2> QED
      BY <2>2
  <1>2. /\ Flow!WellFormed(s) /\ Stack(s, calls, Requested) /\ Requested \in BOOLEAN
        /\ Len(s) \in Nat \ {0} /\ n \in Nat \ {0} /\ n \in 1..n /\ Top = calls[n] /\ Base(s, calls, calls, n) /\ Top \in Frames(s)
    BY <1>1, Running
  <1>3. calls' = Append(calls, c) /\ UNCHANGED <<script, event, break_requested, continue_requested>>
    BY DEF execute_if, SameFlags
  <1>4. Flow!Kind(s, i) \in Flow!Openers
    BY <1>1 DEF Flow!Openers
  <1>5. c \in Frames(s) /\ c.call = "if" /\ c.idx = i /\ c.limit = Top.limit
    <2>1. Top.limit \in 0..Len(s) /\ i \in 0..(Len(s) + 1) /\ Len(s) \in Nat
      BY <1>2 DEF Frames
    <2> QED
      BY <2>1, TestFrame
  <1>6. CloserOf(s, i) <= calls[n].limit
    BY <1>1, <1>2, <1>4, CloserFits
  <1> HIDE DEF c, i, n
  <1>7. CalledFrom(s, c, calls[n])
    BY <1>1, <1>2, <1>5, <1>6 DEF CalledFrom, i
  <1>8. Stack(s, calls', FALSE) /\ calls' # <<>> /\ Last(calls') = c
    <2>1. n \in Nat /\ calls[n].call = "block" /\ (n # Len(calls) \/ ~Requested)
      BY <1>1, <1>2
    <2>2. Standing(s, calls, n)
      BY <1>2, <2>1, StackStands
    <2>3. OneMore(s, calls', calls, c)
      BY <1>3, <1>2, <1>5, AppendIsOneMore DEF Stack
    <2> QED
      BY <1>5, <1>7, <2>2, <2>3, StackPushes DEF OnTop
  <1>9. Flow!Reached(s)[i] = i
    BY <1>1, <1>2, ReachedOf DEF i
  <1>10. break_requested = FALSE /\ continue_requested = FALSE /\ Requested' = FALSE /\ break_requested' = FALSE /\ continue_requested' = FALSE
    BY <1>1, <1>3 DEF Requested, ScriptIInv
  <1>11. Flow!Follows(s, event') = Expected(s, Last(calls'), break_requested', continue_requested')
    BY <1>1, <1>3, <1>5, <1>8, <1>9, <1>10 DEF Expected
  <1>12. QED
    BY <1>1, <1>3, <1>8, <1>10, <1>11, Continued, Stutters

CallsLoop(left) == calls' = Append(calls, Loop(Top.idx, find_matching_done(script, AfterOpener(script, Top.idx)), left))

LEMMA ExecuteLoopKeeps ==
  ASSUME ScriptIInv, NEW left \in 0..MaxItems, NextLine({"while", "for"}), CallsLoop(left),
         UNCHANGED <<script, event, break_requested, continue_requested>>
  PROVE  ScriptIInv' /\ FlowStep
  <1> DEFINE i == Top.idx
             n == Len(calls)
             s == script
             c == Loop(i, CloserOf(s, i), left)
  <1>1. /\ calls # <<>> /\ Requested = FALSE
        /\ Top.call = "block" /\ i \in 1..Len(s) /\ Flow!Kind(s, i) \in {"while", "for"}
        /\ InBlock(s, Opener(calls, n), i)
        /\ Flow!Follows(s, event) = Flow!At(s, Flow!Reached(s)[i])
    BY LineFacts
  <1>2. /\ Flow!WellFormed(s) /\ Stack(s, calls, Requested) /\ Requested \in BOOLEAN
        /\ Len(s) \in Nat \ {0} /\ n \in Nat \ {0} /\ n \in 1..n /\ Top = calls[n] /\ Base(s, calls, calls, n) /\ Top \in Frames(s)
    BY <1>1, Running
  <1>3. Flow!Kind(s, i) \in Flow!Openers /\ Flow!Kind(s, i) \in Flow!Loops
    BY <1>1 DEF Flow!Openers, Flow!Loops
  <1>4. calls' = Append(calls, c)
    BY <1>1, <1>2, <1>3, FindsCloser DEF CallsLoop
  <1>5. c \in Frames(s) /\ c.call = "loop" /\ c.idx = i /\ c.limit = CloserOf(s, i)
    <2>1. CloserOf(s, i) \in 0..Len(s) /\ i \in 0..(Len(s) + 1) /\ Len(s) \in Nat
      BY <1>1, <1>2, <1>3, OpenerCloses
    <2> QED
      BY <2>1, LoopFrame
  <1>6. CloserOf(s, i) <= calls[n].limit
    BY <1>1, <1>2, <1>3, CloserFits
  <1> HIDE DEF c, i, n
  <1>7. CalledFrom(s, c, calls[n])
    BY <1>1, <1>2, <1>3, <1>5, <1>6 DEF CalledFrom, i
  <1>8. Stack(s, calls', FALSE) /\ calls' # <<>> /\ Last(calls') = c
    <2>1. n \in Nat /\ calls[n].call = "block" /\ (n # Len(calls) \/ ~Requested)
      BY <1>1, <1>2
    <2>2. Standing(s, calls, n)
      BY <1>2, <2>1, StackStands
    <2>3. OneMore(s, calls', calls, c)
      BY <1>4, <1>2, <1>5, AppendIsOneMore DEF Stack
    <2> QED
      BY <1>5, <1>7, <2>2, <2>3, StackPushes DEF OnTop
  <1>9. Flow!Reached(s)[i] = i
    BY <1>1, <1>2, ReachedOf DEF i
  <1>10. break_requested = FALSE /\ continue_requested = FALSE /\ Requested' = FALSE /\ break_requested' = FALSE /\ continue_requested' = FALSE
    BY <1>1 DEF Requested, ScriptIInv
  <1>11. Flow!Follows(s, event') = Expected(s, Last(calls'), break_requested', continue_requested')
    BY <1>1, <1>5, <1>8, <1>9, <1>10 DEF Expected
  <1>12. QED
    BY <1>1, <1>8, <1>10, <1>11, Continued, Stutters

LEMMA WhileForKeep ==
  ASSUME ScriptIInv, execute_while \/ execute_for
  PROVE  ScriptIInv' /\ FlowStep
  <1>1. \A kinds : kinds \subseteq {"while", "for"} /\ NextLine(kinds) => NextLine({"while", "for"})
    BY DEF NextLine
  <1>2. 0 \in 0..MaxItems /\ 1..MaxItems \subseteq 0..MaxItems
    BY ScriptsAssumption
  <1>3. CASE execute_while
    <2>1. NextLine({"while"}) /\ UNCHANGED <<script, event, break_requested, continue_requested>>
          /\ CallsLoop(0)
      BY <1>3 DEF execute_while, SameFlags, CallsLoop
    <2>2. NextLine({"while", "for"})
      BY <1>1, <2>1
    <2> QED
      BY <1>2, <2>1, <2>2, ExecuteLoopKeeps
  <1>4. CASE execute_for
    <2>1. NextLine({"for"}) /\ UNCHANGED <<script, event, break_requested, continue_requested>>
      BY <1>4 DEF execute_for, SameFlags
    <2>2. PICK items \in 1..MaxItems : CallsLoop(items)
      BY <1>4, Zenon DEF execute_for, CallsLoop
    <2>3. NextLine({"while", "for"}) /\ items \in 0..MaxItems
      BY <1>1, <1>2, <2>1
    <2> QED
      BY <2>1, <2>2, <2>3, ExecuteLoopKeeps
  <1>5. QED
    BY <1>3, <1>4

(* An arm of the if at h is executed, from line j. *)
ArmAt(s, h, j, stop) ==
  /\ InBlock(s, h, j) /\ LoopsAround(s, j) = LoopsAround(s, h)
  /\ stop = "fi" => \A k \in 1..Len(s) : k >= j /\ Flow!Directly(s, h, k) => Flow!Kind(s, k) \notin {"elif", "else"}

EntersArm(j, stop) == calls' = Under \o <<Branch(Top.limit), Block(j, Top.limit, stop)>>

LEMMA ArmRuns ==
  ASSUME ScriptIInv, calls # <<>>, Top.call = "if",
         NEW j \in 1..Len(script), NEW stop \in {"arms", "fi"}, ArmAt(script, calls[Len(calls) - 1].idx, j, stop),
         EntersArm(j, stop), UNCHANGED <<script, break_requested, continue_requested>>,
         event' \in Flow!Follows(script, event),
         Flow!Follows(script, event') = Flow!At(script, Flow!Reached(script)[j])
  PROVE  ScriptIInv' /\ FlowStep
  <1> DEFINE m == Len(calls) - 1
             h == calls[m].idx
             s == script
             c == Branch(Top.limit)
             d == Block(j, Top.limit, stop)
  <1>1. /\ Requested = FALSE /\ break_requested = FALSE /\ continue_requested = FALSE
        /\ m \in 1..Len(calls) /\ m # Len(calls) /\ Base(s, Under, calls, m)
        /\ calls[m].call = "block" /\ h \in 1..Len(s) /\ Flow!Kind(s, h) = "if"
        /\ Top.limit = calls[m].limit /\ Top.limit \in 0..Len(s) /\ CloserOf(s, h) <= Top.limit
    BY TestFacts
  <1>2. Stack(s, calls, Requested) /\ Len(s) \in Nat \ {0} /\ s # <<>>
    BY Running
  <1>3. c \in Frames(s) /\ c.call = "branch" /\ c.limit = Top.limit
    BY <1>1, <1>2, BranchFrame
  <1>4. d \in Frames(s) /\ d.call = "block" /\ d.idx = j /\ d.limit = Top.limit /\ d.stop = stop
    <2>1. j \in 0..(Len(s) + 1) /\ stop \in DOMAIN StopsAt /\ Len(s) \in Nat
      BY <1>2 DEF StopsAt
    <2> QED
      BY <1>1, <2>1, BlockFrame
  <1>5. Standing(s, Under, m) /\ Under[m] = calls[m] /\ Under \in Seq(Frames(s))
    <2>1. calls[m].call = "block" /\ m # Len(calls)
      BY <1>1
    <2>2. Base(s, Under, calls, m) /\ Stack(s, calls, Requested)
      BY <1>1, <1>2
    <2> HIDE DEF m
    <2> QED
      BY <2>1, <2>2, StackStands DEF Standing
  <1>6. TwoMore(s, calls', Under, c, d)
    <2>1. calls' = Under \o <<c, d>>
      BY DEF EntersArm
    <2> HIDE DEF c, d
    <2> QED
      BY <1>3, <1>4, <1>5, <2>1, ConcatIsTwoMore
  <1>7. Under[m].idx = h /\ ArmAt(s, h, j, stop)
    BY <1>5
  <1>8. CalledFrom(s, c, Under[m]) /\ CalledFrom(s, d, c)
    <2>1. Under[m].call = "block" /\ Under[m].limit = c.limit /\ CloserOf(s, h) <= Under[m].limit
      BY <1>1, <1>3, <1>5
    <2> HIDE DEF c, d, m, h
    <2> QED
      BY <1>1, <1>3, <1>4, <1>7, <2>1 DEF CalledFrom
  <1>9. Stack(s, calls', FALSE) /\ calls' # <<>> /\ Last(calls') = d
    <2> HIDE DEF c, d, m, h
    <2>1. d.idx >= 1 /\ InBlock(s, Under[m].idx, d.idx) /\ LoopsAround(s, d.idx) = LoopsAround(s, Under[m].idx)
      BY <1>4, <1>7 DEF ArmAt
    <2>2. d.stop = "fi" => \A k \in 1..Len(s) : k >= d.idx /\ Flow!Directly(s, Under[m].idx, k) => Flow!Kind(s, k) \notin {"elif", "else"}
      BY <1>4, <1>7 DEF ArmAt
    <2>3. c.call \in {"branch", "loop"} /\ c.call # "loop"
      BY <1>3
    <2>4. LoopsAround(s, d.idx) = LoopsAround(s, Under[m].idx) \cup (IF c.call = "loop" THEN {c.idx} ELSE {})
      BY <2>1, <2>3
    <2>5. Enters(s, Under[m], c, d)
      BY <1>3, <1>4, <1>8, <2>1, <2>2, <2>3, <2>4, Zenon DEF Enters
    <2>6. Standing(s, Under, m)
      BY <1>5
    <2>7. OnTop(s, calls', d)
      BY <1>6, <2>5, <2>6, StackEnters
    <2> QED
      BY <2>7 DEF OnTop
  <1>10. Requested' = FALSE /\ break_requested' = FALSE /\ continue_requested' = FALSE
    BY <1>1 DEF Requested
  <1>11. Flow!Follows(s, event') = Expected(s, Last(calls'), break_requested', continue_requested')
    BY <1>4, <1>9, <1>10 DEF Expected
  <1>12. FlowStep
    BY <1>2, Steps
  <1>13. QED
    BY <1>9, <1>10, <1>11, <1>12, Continued

LEMMA ConditionTrueKeeps ==
  ASSUME ScriptIInv, ConditionTrue
  PROVE  ScriptIInv' /\ FlowStep
  <1> DEFINE m == Len(calls) - 1
             h == calls[m].idx
             s == script
             i == Top.idx
             j == AfterOpener(s, i)
  <1>1. calls # <<>> /\ Top.call = "if" /\ event' = [line |-> i, outcome |-> "true"]
        /\ EntersArm(j, "arms") /\ UNCHANGED <<script, break_requested, continue_requested>>
    BY DEF ConditionTrue, EntersArm, Did, SameFlags
  <1>2. /\ h \in 1..Len(s) /\ Flow!Kind(s, h) = "if" /\ Flow!Kind(s, h) \in Flow!Openers
        /\ i \in 1..Len(s) /\ Flow!Kind(s, i) \in {"if", "elif"}
        /\ i = h \/ (Flow!Directly(s, h, i) /\ Flow!Kind(s, i) = "elif")
        /\ Flow!Follows(s, event) = Flow!At(s, i)
    BY <1>1, TestFacts
  <1>3. Flow!WellFormed(s)
    BY <1>1, Running
  <1>4. Flow!Kind(s, i) \in Flow!Tested /\ Flow!Kind(s, h) \notin Flow!Loops
    BY <1>2 DEF Flow!Tested, Flow!Loops
  <1> HIDE DEF h
  <1>5. InBlock(s, h, j) /\ j \in 1..Len(s) /\ LoopsAround(s, j) = LoopsAround(s, h) \cup {}
    BY <1>2, <1>3, <1>4, BodyStarts
  <1>6. event' \in Flow!Follows(s, event)
    BY <1>1, <1>2, <1>4, AtLine
  <1>7. Flow!Follows(s, event') = Flow!At(s, Flow!Reached(s)[j])
    <2>1. Flow!Follows(s, [line |-> i, outcome |-> "true"]) = Flow!At(s, Flow!Reached(s)[i + 1])
      BY <1>4, FollowsOf
    <2>2. Flow!Reached(s)[j] = Flow!Reached(s)[i + 1]
      BY <1>2, <1>3, <1>4, ReachedBody
    <2> QED
      BY <1>1, <2>1, <2>2
  <1>8. LoopsAround(s, j) = LoopsAround(s, h)
    BY <1>5
  <1> HIDE DEF j
  <1>9. ArmAt(s, h, j, "arms")
    BY <1>5, <1>8 DEF ArmAt
  <1>10. QED
    BY <1>1, <1>5, <1>6, <1>7, <1>9, ArmRuns DEF h
(* The block below goes on behind what it had called. *)
LEMMA BlockResumes ==
  ASSUME NEW s, Flow!WellFormed(s), NEW cs, NEW requested \in BOOLEAN, Stack(s, cs, requested),
         NEW bs, NEW n, Base(s, bs, cs, n), n # Len(cs), cs[n].call = "block",
         NEW h, h = cs[n].idx, h \in 1..Len(s), Flow!Kind(s, h) \in Flow!Openers
  PROVE  GoesOnAt(s, Resumed(bs, CloserOf(s, h) + 1), CloserOf(s, h) + 1, FALSE)
  <1> DEFINE x == CloserOf(s, h) + 1
             g == Opener(cs, n)
  <1>1. n \in 1..Len(cs)
    BY DEF Base
  <1>2. Placed(s, cs, n) /\ cs[n] \in Frames(s)
    BY <1>1 DEF Stack, CallOK
  <1>3. InBlock(s, g, h) /\ Opens(s, g)
    <2>1. Opens(s, g)
      BY <1>1, BlockOpener
    <2>2. InBlock(s, Opener(cs, n), cs[n].idx)
      BY <1>2, Zenon DEF Placed
    <2> QED
      BY <2>1, <2>2
  <1>4. Flow!Kind(s, h) \notin Flow!Closers
    BY DEF Flow!Openers, Flow!Closers
  <1>5. Len(s) \in Nat /\ CloserOf(s, h) \in 1..Len(s) /\ h < CloserOf(s, h)
    BY ScriptLines, OpenerCloses
  <1>6. x \in 1..(Len(s) + 1) /\ h <= x
    BY <1>5
  <1>7. InBlock(s, g, x) /\ LoopsAround(s, x) = LoopsAround(s, h)
    BY <1>3, <1>4, LineAfter, LoopsAfter
  <1> HIDE DEF x
  <1>8. GoesOnAt(s, Resumed(bs, x), x, FALSE)
    <2>1. LoopsAround(s, x) = LoopsAround(s, cs[n].idx)
      BY <1>7
    <2>2. InBlock(s, Opener(cs, n), x) /\ cs[n].idx <= x
      BY <1>6, <1>7
    <2> QED
      BY <1>5, <1>6, <2>1, <2>2, StackResumes
  <1>9. QED
    BY <1>8 DEF x

LEMMA LoopEndsKeeps ==
  ASSUME ScriptIInv, LoopEnds
  PROVE  ScriptIInv' /\ FlowStep
  <1> DEFINE m == Len(calls) - 1
             s == script
             h == Top.idx
             x == CloserOf(s, h) + 1
  <1>1. /\ calls # <<>> /\ Top.call = "loop" /\ event' = [line |-> h, outcome |-> "false"]
        /\ calls' = Resumed(Under, Top.limit + 1) /\ UNCHANGED <<script, break_requested, continue_requested>>
    BY DEF LoopEnds, Did, SameFlags
  <1>2. /\ Requested = FALSE /\ break_requested = FALSE /\ continue_requested = FALSE
        /\ m # Len(calls) /\ Base(s, Under, calls, m)
        /\ calls[m].call = "block" /\ calls[m].idx = h /\ h \in 1..Len(s) /\ Flow!Kind(s, h) \in Flow!Loops
        /\ Flow!Kind(s, h) \in Flow!Openers
        /\ Top.limit = CloserOf(s, h)
        /\ Flow!Follows(s, event) = Flow!At(s, h)
    BY <1>1, LoopFacts
  <1>3. Flow!WellFormed(s) /\ Stack(s, calls, Requested) /\ Requested \in BOOLEAN /\ s # <<>>
    BY <1>1, Running
  <1> HIDE DEF m
  <1>4. GoesOnAt(s, Resumed(Under, x), x, FALSE)
    <2>1. h = calls[m].idx
      BY <1>2
    <2> HIDE DEF h
    <2> QED
      BY <1>2, <1>3, <2>1, BlockResumes
  <1>5. calls' = Resumed(Under, x)
    BY <1>1, <1>2
  <1>6. event' \in Flow!Follows(s, event)
    <2>1. Flow!Kind(s, h) \in Flow!Tested
      BY <1>2 DEF Flow!Loops, Flow!Tested
    <2> QED
      BY <1>1, <1>2, <2>1, AtLine
  <1>7. Flow!Follows(s, event') = Flow!At(s, Flow!Reached(s)[x])
    <2>1. Flow!Follows(s, [line |-> h, outcome |-> "false"])
            = Flow!At(s, Flow!Reached(s)[Flow!NextOf(s, h, {"done"}) + 1])
      BY <1>2, FollowsOf
    <2>2. Flow!NextOf(s, h, {"done"}) = CloserOf(s, h)
      BY <1>2, <1>3, OpenersNext
    <2> QED
      BY <1>1, <2>1, <2>2
  <1> HIDE DEF h, x
  <1>8. Requested' = FALSE /\ break_requested' = FALSE /\ continue_requested' = FALSE
    BY <1>1, <1>2 DEF Requested
  <1>9. Stack(s, calls', FALSE) /\ calls' # <<>> /\ Last(calls').call = "block" /\ Last(calls').idx = x
    BY <1>4, <1>5 DEF GoesOnAt
  <1>10. Flow!Follows(s, event') = Expected(s, Last(calls'), break_requested', continue_requested')
    BY <1>7, <1>8, <1>9 DEF Expected
  <1>11. FlowStep
    BY <1>1, <1>3, <1>6, Steps
  <1>12. QED
    BY <1>1, <1>8, <1>9, <1>10, <1>11, Continued
(* After a condition that is false the next arm is found. *)
ArmFound(s, h, i, arm) ==
  /\ arm \in 1..Len(s) /\ Flow!Directly(s, h, arm) /\ Flow!Kind(s, arm) \in Flow!Arms
  /\ Skipped(s)[AfterOpener(s, i)]["arms"] = [end |-> Flow!Kind(s, arm), idx |-> arm + 1]
  /\ Flow!NextOf(s, i, Flow!Arms) = arm

LEMMA FindsArm ==
  ASSUME NEW s, Flow!WellFormed(s), NEW h \in 1..Len(s), Flow!Kind(s, h) = "if",
         NEW i \in 1..Len(s), i = h \/ (Flow!Directly(s, h, i) /\ Flow!Kind(s, i) = "elif")
  PROVE  \E arm \in 1..Len(s) : ArmFound(s, h, i, arm)
  <1> DEFINE j == AfterOpener(s, i)
  <1>1. Flow!Kind(s, h) \in Flow!Openers /\ Flow!Kind(s, i) \in Flow!Tested /\ h # 0
    BY DEF Flow!Openers, Flow!Tested
  <1>2. InBlock(s, h, j) /\ j \in 1..Len(s)
    BY <1>1, BodyStarts
  <1>3. Flow!Directly(s, h, j)
    BY <1>1, <1>2, Zenon DEF InBlock
  <1> HIDE DEF j
  <1>4. SkipsRight(s, j)
    BY <1>2, SkipsAreRight
  <1>5. SkipsTo(s, h, j)
    BY <1>1, <1>3, <1>4 DEF SkipsRight
  <1>6. PICK arm \in j..Len(s) : /\ FirstArm(s, h, j, arm)
                                 /\ Skipped(s)[j]["arms"] = [end |-> Flow!Kind(s, arm), idx |-> arm + 1]
    BY <1>5 DEF SkipsTo
  <1>7. arm \in 1..Len(s)
    BY <1>2, ScriptLines
  <1>8. Flow!NextOf(s, i, Flow!Arms) = arm
    BY <1>6, ArmsNext DEF j
  <1>9. Flow!Directly(s, h, arm) /\ Flow!Kind(s, arm) \in Flow!Arms
    BY <1>6 DEF FirstArm
  <1>10. ArmFound(s, h, i, arm)
    BY <1>6, <1>7, <1>8, <1>9 DEF ArmFound, j
  <1>11. QED
    BY <1>7, <1>10

(* Behind an else there is no arm. *)
LEMMA ElseIsLast ==
  ASSUME NEW s, Flow!WellFormed(s), NEW h \in 1..Len(s), Flow!Kind(s, h) = "if",
         NEW i \in 1..Len(s), Flow!Directly(s, h, i), Flow!Kind(s, i) = "else"
  PROVE  ArmAt(s, h, i + 1, "fi") /\ i + 1 \in 1..Len(s)
  <1>1. /\ Flow!Kind(s, h) \in Flow!Openers /\ Flow!Kind(s, h) \notin Flow!Loops /\ h # 0 /\ Opens(s, h)
        /\ Flow!Kind(s, i) \notin Flow!Openers /\ Flow!Kind(s, i) \notin Flow!Closers
    BY DEF Flow!Openers, Flow!Closers, Flow!Loops, Opens
  <1>2. DOMAIN s = 1..Len(s) /\ Len(s) \in Nat
    BY ScriptLines
  <1>3. InBlock(s, h, i)
    BY <1>1, <1>2 DEF InBlock
  <1>4. InBlock(s, h, i + 1) /\ LoopsAround(s, i + 1) = LoopsAround(s, i)
    BY <1>1, <1>3, LineAfter, LoopsAfter
  <1>5. i + 1 \in 1..Len(s)
    BY <1>1, <1>2, <1>4 DEF InBlock
  <1>6. LoopsAround(s, i) = LoopsAround(s, h)
    <2>1. LoopsAround(s, i) = LoopsAround(s, h) \cup (IF Flow!Kind(s, h) \in Flow!Loops THEN {h} ELSE {})
      BY <1>1, LoopsDirectly
    <2> QED
      BY <1>1, <2>1
  <1>7. ASSUME NEW k \in 1..Len(s), k >= i + 1, Flow!Directly(s, h, k), Flow!Kind(s, k) \in {"elif", "else"} PROVE FALSE
    <2>1. InBlock(s, h, k)
      BY <1>1, <1>2, <1>7 DEF InBlock
    <2>2. \A x \in h..k : Flow!Kind(s, x) = "else" /\ Flow!Directly(s, h, x) => x = k
      BY <1>1, <1>7, <2>1, CloserHere
    <2>3. h < i
      BY Zenon DEF Flow!Directly, Flow!Holds
    <2>4. i \in h..k /\ i # k
      BY <1>2, <1>7, <2>3
    <2> QED
      BY <2>2, <2>4
  <1>8. QED
    BY <1>4, <1>5, <1>6, <1>7 DEF ArmAt

LEMMA ConditionFalseKeeps ==
  ASSUME ScriptIInv, ConditionFalse
  PROVE  ScriptIInv' /\ FlowStep
  <1> DEFINE m == Len(calls) - 1
             h == calls[m].idx
             s == script
             i == Top.idx
             r == Skipped(s)[AfterOpener(s, i)]["arms"]
             After(arm) == IF r.end = "elif" THEN Append(Under, Test(arm, Top.limit))
                           ELSE IF r.end = "else" THEN Under \o <<Branch(Top.limit), Block(arm + 1, Top.limit, "fi")>>
                           ELSE Resumed(Under, arm + 1)
  <1>1. calls # <<>> /\ Top.call = "if" /\ event' = [line |-> i, outcome |-> "false"]
        /\ UNCHANGED <<script, break_requested, continue_requested>>
    BY DEF ConditionFalse, Did, SameFlags
  <1>2. /\ h \in 1..Len(s) /\ Flow!Kind(s, h) = "if" /\ Flow!Kind(s, h) \in Flow!Openers
        /\ m # Len(calls) /\ Base(s, Under, calls, m) /\ calls[m].call = "block"
        /\ Requested = FALSE /\ break_requested = FALSE /\ continue_requested = FALSE
        /\ Top.limit = calls[m].limit /\ Top.limit \in 0..Len(s) /\ CloserOf(s, h) <= Top.limit
        /\ i \in 1..Len(s) /\ Flow!Kind(s, i) \in {"if", "elif"}
        /\ i = h \/ (Flow!Directly(s, h, i) /\ Flow!Kind(s, i) = "elif")
        /\ Flow!Follows(s, event) = Flow!At(s, i)
    BY <1>1, TestFacts
  <1>3. Flow!WellFormed(s) /\ Stack(s, calls, Requested) /\ Requested \in BOOLEAN /\ s # <<>> /\ Len(s) \in Nat
    BY <1>1, Running
  <1>4. Flow!Kind(s, i) \in Flow!Tested
    BY <1>2 DEF Flow!Tested
  <1>5. event' \in Flow!Follows(s, event)
    BY <1>1, <1>2, <1>4, AtLine
  <1>6. FlowStep
    BY <1>1, <1>3, <1>5, Steps
  <1>7. Requested' = FALSE /\ break_requested' = FALSE /\ continue_requested' = FALSE
    BY <1>1, <1>2 DEF Requested
  <1>8. PICK arm \in 1..Len(s) : ArmFound(s, h, i, arm)
    <2> HIDE DEF h, i
    <2> QED
      BY <1>2, <1>3, FindsArm
  <1>9. /\ Flow!Directly(s, h, arm) /\ Flow!Kind(s, arm) \in {"elif", "else", "fi"}
        /\ r.end = Flow!Kind(s, arm) /\ r.idx = arm + 1 /\ Flow!NextOf(s, i, Flow!Arms) = arm
    BY <1>8 DEF ArmFound, Flow!Arms
  <1>10. calls' = After(arm)
    <2>1. calls' = IF r.end = "elif" THEN Append(Under, Test(r.idx - 1, Top.limit))
                   ELSE IF r.end = "else" THEN Under \o <<Branch(Top.limit), Block(r.idx, Top.limit, "fi")>>
                   ELSE Resumed(Under, r.idx)
      BY Zenon DEF ConditionFalse
    <2>2. r.idx - 1 = arm
      BY <1>3, <1>9
    <2> HIDE DEF r
    <2> QED
      BY <1>9, <2>1, <2>2
  <1>11. Flow!Follows(s, event') = IF Flow!Kind(s, arm) = "elif" THEN Flow!At(s, arm) ELSE Flow!At(s, Flow!Reached(s)[arm + 1])
    <2>1. Flow!Follows(s, [line |-> i, outcome |-> "false"])
            = LET x == Flow!NextOf(s, i, Flow!Arms) IN
              IF Flow!Kind(s, x) = "elif" THEN Flow!At(s, x) ELSE Flow!At(s, Flow!Reached(s)[x + 1])
      BY <1>2, FollowsOf
    <2> QED
      BY <1>1, <1>9, <2>1
  <1> HIDE DEF r
  <1>12. CASE Flow!Kind(s, arm) = "elif"
    <2> DEFINE c == Test(arm, Top.limit)
    <2>1. calls' = Append(Under, c)
      BY <1>9, <1>10, <1>12
    <2>2. c \in Frames(s) /\ c.call = "if" /\ c.idx = arm /\ c.limit = Top.limit
      <3>1. arm \in 0..(Len(s) + 1)
        BY <1>3
      <3> QED
        BY <1>2, <1>3, <3>1, TestFrame
    <2> HIDE DEF c, m
    <2>3. Standing(s, Under, m) /\ Under[m] = calls[m] /\ Under \in Seq(Frames(s))
      BY <1>2, <1>3, StackStands DEF Standing
    <2>4. OneMore(s, calls', Under, c)
      BY <2>1, <2>2, <2>3, AppendIsOneMore
    <2>5. CalledFrom(s, c, calls[m])
      BY <1>2, <1>9, <1>12, <2>2 DEF CalledFrom
    <2>6. CalledFrom(s, c, Under[m]) /\ Standing(s, Under, m)
      BY <2>3, <2>5
    <2>7. OnTop(s, calls', c)
      BY <2>2, <2>4, <2>6, StackPushes
    <2>8. Stack(s, calls', FALSE) /\ calls' # <<>> /\ Last(calls') = c
      BY <2>7 DEF OnTop
    <2>9. Flow!Follows(s, event') = Expected(s, Last(calls'), break_requested', continue_requested')
      BY <1>7, <1>11, <1>12, <2>2, <2>8 DEF Expected
    <2> QED
      BY <1>1, <1>6, <1>7, <2>8, <2>9, Continued
  <1>13. CASE Flow!Kind(s, arm) = "else"
    <2>1. EntersArm(arm + 1, "fi")
      BY <1>9, <1>10, <1>13 DEF EntersArm
    <2>2. Flow!Follows(s, event') = Flow!At(s, Flow!Reached(s)[arm + 1])
      BY <1>11, <1>13
    <2>3. ArmAt(s, h, arm + 1, "fi") /\ arm + 1 \in 1..Len(s)
      <3> HIDE DEF h
      <3> QED
        BY <1>2, <1>3, <1>9, <1>13, ElseIsLast
    <2> QED
      BY <1>1, <1>5, <2>1, <2>2, <2>3, ArmRuns
  <1>14. CASE Flow!Kind(s, arm) = "fi"
    <2> DEFINE x == CloserOf(s, h) + 1
    <2>1. arm = CloserOf(s, h)
      <3>1. Flow!Kind(s, arm) \in Flow!Closers
        BY <1>14 DEF Flow!Closers
      <3> QED
        BY <1>2, <1>3, <1>9, <3>1, ClosesOnce
    <2>2. calls' = Resumed(Under, x)
      BY <1>9, <1>10, <1>14, <2>1
    <2>3. GoesOnAt(s, Resumed(Under, x), x, FALSE)
      <3>1. h = calls[m].idx
        OBVIOUS
      <3> HIDE DEF h, m
      <3> QED
        BY <1>2, <1>3, <3>1, BlockResumes
    <2>4. Flow!Follows(s, event') = Flow!At(s, Flow!Reached(s)[x])
      BY <1>11, <1>14, <2>1
    <2> HIDE DEF x
    <2>5. Stack(s, calls', FALSE) /\ calls' # <<>> /\ Last(calls').call = "block" /\ Last(calls').idx = x
      BY <2>2, <2>3 DEF GoesOnAt
    <2>6. Flow!Follows(s, event') = Expected(s, Last(calls'), break_requested', continue_requested')
      BY <1>7, <2>4, <2>5 DEF Expected
    <2> QED
      BY <1>1, <1>6, <1>7, <2>5, <2>6, Continued
  <1>15. QED
    BY <1>9, <1>12, <1>13, <1>14
LEMMA LoopTurnsKeeps ==
  ASSUME ScriptIInv, LoopTurns
  PROVE  ScriptIInv' /\ FlowStep
  <1> DEFINE m == Len(calls) - 1
             s == script
             h == Top.idx
             j == AfterOpener(s, h)
             left == IF Top.left = 0 THEN 0 ELSE Top.left - 1
             c == [Top EXCEPT !.left = left]
             d == Block(j, Top.limit - 1, "none")
  <1>1. /\ calls # <<>> /\ Top.call = "loop" /\ event' = [line |-> h, outcome |-> "true"]
        /\ calls' = Under \o <<c, d>> /\ UNCHANGED <<script, break_requested, continue_requested>>
    BY DEF LoopTurns, Did, SameFlags
  <1>2. /\ Requested = FALSE /\ break_requested = FALSE /\ continue_requested = FALSE
        /\ m # Len(calls) /\ Base(s, Under, calls, m)
        /\ calls[m].call = "block" /\ calls[m].idx = h /\ h \in 1..Len(s) /\ Flow!Kind(s, h) \in Flow!Loops
        /\ Flow!Kind(s, h) \in Flow!Openers
        /\ Top.limit = CloserOf(s, h) /\ CalledFrom(s, Top, calls[m])
        /\ Flow!Follows(s, event) = Flow!At(s, h)
    BY <1>1, LoopFacts
  <1>3. Flow!WellFormed(s) /\ Stack(s, calls, Requested) /\ Requested \in BOOLEAN /\ s # <<>> /\ Len(s) \in Nat /\ Top \in Frames(s)
    BY <1>1, Running
  <1>4. Flow!Kind(s, h) \in Flow!Tested
    BY <1>2 DEF Flow!Tested, Flow!Loops
  <1>5. event' \in Flow!Follows(s, event)
    BY <1>1, <1>2, <1>4, AtLine
  <1>6. FlowStep
    BY <1>1, <1>3, <1>5, Steps
  <1>7. Requested' = FALSE /\ break_requested' = FALSE /\ continue_requested' = FALSE
    BY <1>1, <1>2 DEF Requested
  <1>8. InBlock(s, h, j) /\ j \in 1..Len(s) /\ LoopsAround(s, j) = LoopsAround(s, h) \cup {h}
    BY <1>2, <1>3, <1>4, BodyStarts
  <1>9. Flow!Follows(s, event') = Flow!At(s, Flow!Reached(s)[j])
    <2>1. Flow!Follows(s, [line |-> h, outcome |-> "true"]) = Flow!At(s, Flow!Reached(s)[h + 1])
      BY <1>4, FollowsOf
    <2>2. Flow!Reached(s)[j] = Flow!Reached(s)[h + 1]
      BY <1>2, <1>3, <1>4, ReachedBody
    <2> QED
      BY <1>1, <2>1, <2>2
  <1> HIDE DEF j
  <1>10. c \in Frames(s) /\ c.call = "loop" /\ c.idx = h /\ c.limit = Top.limit
    <2>1. Top.left \in 0..MaxItems /\ MaxItems \in Nat
      BY <1>3, ScriptsAssumption DEF Frames
    <2>2. left \in 0..MaxItems
      BY <2>1
    <2> HIDE DEF left
    <2> QED
      BY <1>1, <1>3, <2>2 DEF Frames
  <1>11. d \in Frames(s) /\ d.call = "block" /\ d.idx = j /\ d.limit = Top.limit - 1 /\ d.stop = "none"
    <2>1. Top.limit - 1 \in 0..Len(s)
      <3>1. CloserOf(s, h) \in 1..Len(s)
        BY <1>2, <1>3, OpenerCloses
      <3> QED
        BY <1>2, <1>3, <3>1
    <2>2. j \in 0..(Len(s) + 1) /\ "none" \in DOMAIN StopsAt
      BY <1>3, <1>8 DEF StopsAt
    <2> QED
      BY <1>3, <2>1, <2>2, BlockFrame
  <1> HIDE DEF c, d, m, h
  <1>12. CalledFrom(s, c, calls[m]) /\ CalledFrom(s, d, c)
    <2>1. CalledFrom(s, c, calls[m])
      BY <1>1, <1>2, <1>10 DEF CalledFrom, h
    <2>2. CalledFrom(s, d, c)
      BY <1>10, <1>11 DEF CalledFrom
    <2> QED
      BY <2>1, <2>2
  <1>13. Standing(s, Under, m) /\ Under[m] = calls[m] /\ Under \in Seq(Frames(s))
    BY <1>2, <1>3, StackStands DEF Standing
  <1>14. TwoMore(s, calls', Under, c, d)
    <2>1. calls' = Under \o <<c, d>>
      BY <1>1 DEF c, d, h
    <2> QED
      BY <1>10, <1>11, <1>13, <2>1, ConcatIsTwoMore
  <1>15. Enters(s, Under[m], c, d)
    <2>1. d.idx >= 1 /\ InBlock(s, Under[m].idx, d.idx)
      BY <1>2, <1>8, <1>11, <1>13
    <2>2. c.call = "loop" /\ d.stop # "fi"
      BY <1>10, <1>11
    <2>3. LoopsAround(s, d.idx) = LoopsAround(s, Under[m].idx) \cup {c.idx}
      BY <1>2, <1>8, <1>10, <1>11, <1>13
    <2>4. LoopsAround(s, d.idx) = LoopsAround(s, Under[m].idx) \cup (IF c.call = "loop" THEN {c.idx} ELSE {})
      BY <2>2, <2>3
    <2>5. CalledFrom(s, c, Under[m])
      BY <1>12, <1>13
    <2>6. c.call \in {"branch", "loop"}
      BY <2>2
    <2> QED
      BY <1>10, <1>11, <1>12, <2>1, <2>2, <2>4, <2>5, <2>6, Zenon DEF Enters
  <1>16. OnTop(s, calls', d)
    <2>1. Standing(s, Under, m)
      BY <1>13
    <2> QED
      BY <1>14, <1>15, <2>1, StackEnters
  <1>17. Stack(s, calls', FALSE) /\ calls' # <<>> /\ Last(calls') = d
    BY <1>16 DEF OnTop
  <1>18. Flow!Follows(s, event') = Expected(s, Last(calls'), break_requested', continue_requested')
    BY <1>7, <1>9, <1>11, <1>17 DEF Expected
  <1>19. QED
    BY <1>1, <1>6, <1>7, <1>17, <1>18, Continued
-----------------------------------------------------------------------------
(* What a block returns to. *)
LEMMA ReturnFacts ==
  ASSUME ScriptIInv, Len(calls) > 1, Top.call = "block"
  PROVE  LET n == Len(calls)
             h == calls[n - 2].idx IN
         /\ calls # <<>> /\ n - 1 # n /\ n - 2 # n /\ n \in Nat
         /\ Base(script, Under, calls, n - 1) /\ Last(Under) = calls[n - 1] /\ Base(script, Front(Under), calls, n - 2)
         /\ calls[n - 1].call \in {"loop", "branch"} /\ CalledFrom(script, Top, calls[n - 1])
         /\ calls[n - 2].call = "block" /\ h \in 1..Len(script) /\ Flow!Kind(script, h) \in Flow!Openers
         /\ calls[n - 1].call = "branch" =>
              /\ Flow!Kind(script, h) = "if" /\ CloserOf(script, h) <= Top.limit
              /\ LoopsAround(script, Top.idx) = LoopsAround(script, h) /\ LoopsBelow(calls, n - 2) = LoopsBelow(calls, n)
         /\ calls[n - 1].call = "loop" =>
              /\ Flow!Kind(script, h) \in Flow!Loops /\ calls[n - 1].idx = h /\ calls[n - 1].limit = CloserOf(script, h)
              /\ Top.limit = CloserOf(script, h) - 1
              /\ LoopsAround(script, Top.idx) = LoopsAround(script, h) \cup {h}
         /\ Top.limit \in 0..Len(script) /\ Top.idx \in 1..(Len(script) + 1)
         /\ Requested = FALSE => InBlock(script, h, Top.idx)
  <1> DEFINE n == Len(calls)
             s == script
             h == calls[n - 2].idx
  <1>1. n \in Nat \ {0} /\ n # 1 /\ n > 1
    <2>1. calls # <<>>
      BY EmptySeq
    <2>2. n \in Nat \ {0}
      BY <2>1, Running
    <2>3. n > 1
      OBVIOUS
    <2> HIDE DEF n
    <2> QED
      BY <2>2, <2>3
  <1>2. calls # <<>>
    BY EmptySeq
  <1>3. /\ Flow!WellFormed(s) /\ Stack(s, calls, Requested) /\ Len(s) \in Nat \ {0} /\ Top = calls[n] /\ Top \in Frames(s)
        /\ Requested \in BOOLEAN
    BY <1>2, Running
  <1>4. n \in 1..Len(calls)
    BY <1>1
  <1>5. Len(calls) = n /\ calls[n].call = "block"
    BY <1>3
  <1> HIDE DEF n
  <1>6. /\ n - 1 \in 1..Len(calls) /\ n - 2 \in 1..Len(calls) /\ n >= 3
        /\ CalledFrom(s, calls[n], calls[n - 1]) /\ CalledFrom(s, calls[n - 1], calls[n - 2])
        /\ calls[n - 2].call = "block" /\ calls[n - 1].call \in {"loop", "branch"}
        /\ Opener(calls, n) = h /\ h \in 1..Len(s)
        /\ Flow!Kind(s, h) \in Flow!Openers
        /\ calls[n - 1].call = "branch" => Flow!Kind(s, h) = "if"
        /\ calls[n - 1].call = "loop" => Flow!Kind(s, h) \in Flow!Loops /\ h = calls[n - 1].idx
    BY <1>1, <1>3, <1>4, <1>5, BlockOpener
  <1>7. Len(calls) > 2 /\ n - 1 # n /\ n - 2 # n
    BY <1>1, <1>5, <1>6
  <1>8. Base(s, Under, calls, n - 1) /\ Last(Under) = calls[n - 1] /\ Base(s, Front(Under), calls, n - 2)
    BY <1>3, <1>5, <1>7, StackBases DEF Under
  <1>9. CallOK(s, calls, n) /\ CallOK(s, calls, n - 2)
    BY <1>3, <1>4, <1>6 DEF Stack
  <1>10. Top.idx \in 1..(Len(s) + 1) /\ Top.limit \in 0..Len(s) /\ LoopsAround(s, Top.idx) = LoopsBelow(calls, n)
    <2>1. Top.idx >= 1 /\ LoopsAround(s, Top.idx) = LoopsBelow(calls, n)
      BY <1>3, <1>5, <1>9, Zenon DEF CallOK
    <2>2. Top.idx \in 0..(Len(s) + 1) /\ Top.limit \in 0..Len(s)
      BY <1>3 DEF Frames
    <2> QED
      BY <1>3, <2>1, <2>2
  <1>11. LoopsAround(s, h) = LoopsBelow(calls, n - 2)
    BY <1>6, <1>9, Zenon DEF CallOK
  <1>12. LoopsBelow(calls, n) = LoopsBelow(calls, n - 2) \cup (IF calls[n - 1].call = "loop" THEN {calls[n - 1].idx} ELSE {})
    <2>1. n - 1 \in Nat /\ n - 2 \in Nat /\ n - 2 + 1 = n - 1 /\ n - 1 + 1 = n
      BY <1>1, <1>6
    <2>2. LoopsBelow(calls, n - 1) = LoopsBelow(calls, n - 2) \cup (IF calls[n - 1].call = "loop" THEN {calls[n - 1].idx} ELSE {})
      <3>1. LoopsBelow(calls, n - 2 + 1)
              = LoopsBelow(calls, n - 2) \cup (IF calls[n - 2 + 1].call = "loop" THEN {calls[n - 2 + 1].idx} ELSE {})
        BY <2>1, LoopsBelowStep
      <3> QED
        BY <2>1, <3>1
    <2>3. LoopsBelow(calls, n) = LoopsBelow(calls, n - 1)
      <3>1. LoopsBelow(calls, n - 1 + 1)
              = LoopsBelow(calls, n - 1) \cup (IF calls[n - 1 + 1].call = "loop" THEN {calls[n - 1 + 1].idx} ELSE {})
        BY <2>1, LoopsBelowStep
      <3>2. calls[n - 1 + 1].call # "loop"
        BY <1>5, <2>1
      <3> QED
        BY <2>1, <3>1, <3>2
    <2> QED
      BY <2>2, <2>3
  <1>13. IF calls[n - 1].call = "loop" THEN calls[n].limit = CloserOf(s, h) - 1 ELSE CloserOf(s, h) <= calls[n].limit
    BY <1>1, <1>3, <1>4, <1>5, <1>6, BlockLimit
  <1>14. calls[n - 1].call = "loop" => calls[n - 1].limit = CloserOf(s, h)
    BY <1>6 DEF CalledFrom
  <1>15. Requested = FALSE => InBlock(s, h, Top.idx)
    <2>1. Requested = FALSE => Placed(s, calls, n)
      BY <1>3, <1>4, <1>5 DEF Stack
    <2>2. Placed(s, calls, n) => InBlock(s, Opener(calls, n), calls[n].idx)
      BY Zenon DEF Placed
    <2> QED
      BY <1>3, <1>6, <2>1, <2>2
  <1>16. calls[n - 1].call = "branch" =>
           /\ Flow!Kind(s, h) = "if" /\ CloserOf(s, h) <= Top.limit
           /\ LoopsAround(s, Top.idx) = LoopsAround(s, h) /\ LoopsBelow(calls, n - 2) = LoopsBelow(calls, n)
    BY <1>3, <1>6, <1>10, <1>11, <1>12, <1>13
  <1>17. calls[n - 1].call = "loop" =>
           /\ Flow!Kind(s, h) \in Flow!Loops /\ calls[n - 1].idx = h /\ calls[n - 1].limit = CloserOf(s, h)
           /\ Top.limit = CloserOf(s, h) - 1
           /\ LoopsAround(s, Top.idx) = LoopsAround(s, h) \cup {h}
    BY <1>3, <1>6, <1>10, <1>11, <1>12, <1>13, <1>14
  <1> HIDE DEF h
  <1>18. CalledFrom(s, Top, calls[n - 1])
    BY <1>3, <1>6
  <1>19. QED
    BY <1>1, <1>2, <1>6, <1>7, <1>8, <1>10, <1>15, <1>16, <1>17, <1>18 DEF h, n
(* Where an if skips to that has executed an arm. *)
LEMMA RestIsSkipped ==
  ASSUME NEW s, Flow!WellFormed(s), NEW h \in 1..Len(s), Flow!Kind(s, h) = "if",
         NEW i \in 1..Len(s), Flow!Directly(s, h, i)
  PROVE  /\ Flow!Kind(s, i) = "elif" => Skipped(s)[AfterOpener(s, i)]["endif"].idx = CloserOf(s, h) + 1
         /\ Flow!Kind(s, i) = "else" => Skipped(s)[i + 1]["fi"].idx = CloserOf(s, h) + 1
         /\ Flow!Kind(s, i) = "fi" => i = CloserOf(s, h)
  <1>1. Flow!Kind(s, h) \in Flow!Openers /\ h # 0
    BY DEF Flow!Openers
  <1>2. ASSUME NEW j \in 1..Len(s), InBlock(s, h, j) PROVE SkipsTo(s, h, j)
    <2>1. Flow!Directly(s, h, j)
      BY <1>1, <1>2, Zenon DEF InBlock
    <2>2. SkipsRight(s, j)
      BY SkipsAreRight
    <2> QED
      BY <1>1, <2>1, <2>2 DEF SkipsRight
  <1>3. ASSUME Flow!Kind(s, i) = "elif" PROVE Skipped(s)[AfterOpener(s, i)]["endif"].idx = CloserOf(s, h) + 1
    <2> DEFINE j == AfterOpener(s, i)
    <2>1. Flow!Kind(s, i) \in Flow!Tested
      BY <1>3 DEF Flow!Tested
    <2>2. InBlock(s, h, j) /\ j \in 1..Len(s)
      BY <1>1, <1>3, <2>1, BodyStarts
    <2> HIDE DEF j
    <2>3. SkipsTo(s, h, j)
      BY <1>2, <2>2
    <2> QED
      BY <2>3, Zenon DEF SkipsTo, j
  <1>4. ASSUME Flow!Kind(s, i) = "else" PROVE Skipped(s)[i + 1]["fi"].idx = CloserOf(s, h) + 1
    <2>1. InBlock(s, h, i + 1) /\ i + 1 \in 1..Len(s)
      BY <1>4, ElseIsLast DEF ArmAt
    <2>2. SkipsTo(s, h, i + 1)
      BY <1>2, <2>1
    <2>3. Skipped(s)[i + 1]["fi"] = [end |-> "fi", idx |-> CloserOf(s, h) + 1]
      BY <2>2, Zenon DEF SkipsTo
    <2> QED
      BY <2>3
  <1>5. ASSUME Flow!Kind(s, i) = "fi" PROVE i = CloserOf(s, h)
    <2>1. Flow!Kind(s, i) \in Flow!Closers
      BY <1>5 DEF Flow!Closers
    <2> QED
      BY <1>1, <2>1, ClosesOnce
  <1>6. QED
    BY <1>3, <1>4, <1>5

GoesTo(x) == calls' = Resumed(Front(Under), x)

LEMMA ReturnsToBranch ==
  ASSUME NEW end, NEW idx, Returned(end, idx), Last(Under).call # "loop"
  PROVE  /\ end = "elif" => GoesTo(Skipped(script)[AfterOpener(script, idx - 1)]["endif"].idx)
         /\ end = "else" => GoesTo(Skipped(script)[idx]["fi"].idx)
         /\ end \notin {"elif", "else"} => GoesTo(idx)
  BY DEF Returned, GoesTo

LEMMA BlockStopsKeeps ==
  ASSUME ScriptIInv, BlockStops
  PROVE  ScriptIInv' /\ FlowStep
  <1> DEFINE n == Len(calls)
             s == script
             h == calls[n - 2].idx
             i == Top.idx
             k == Flow!Kind(s, i)
             x == CloserOf(s, h) + 1
             bs == Front(Under)
  <1>1. NextLine(StopsAt[Top.stop]) /\ Returned(Kind(s, i), i + 1)
    BY DEF BlockStops
  <1>2. /\ calls # <<>> /\ Requested = FALSE /\ break_requested = FALSE /\ continue_requested = FALSE
        /\ Top.call = "block" /\ i \in 1..Len(s) /\ k \in StopsAt[Top.stop]
        /\ Flow!Follows(s, event) = Flow!At(s, Flow!Reached(s)[i])
    BY <1>1, LineFacts
  <1>3. /\ Flow!WellFormed(s) /\ Stack(s, calls, Requested) /\ Requested \in BOOLEAN /\ Len(s) \in Nat \ {0} /\ n \in Nat \ {0}
        /\ Top = calls[n] /\ Kind(s, i) = k
    BY <1>2, Running
  <1>4. Top.stop # "none"
    BY <1>2 DEF StopsAt
  <1>5. n > 1
    <2>1. CallOK(s, calls, n)
      BY <1>3 DEF Stack
    <2>2. n # 1
      BY <1>3, <1>4, <2>1 DEF CallOK
    <2>3. n \in Nat \ {0}
      BY <1>3
    <2> HIDE DEF n
    <2> QED
      BY <2>2, <2>3
  <1>6. /\ n - 2 # n /\ Last(Under) = calls[n - 1] /\ Base(s, bs, calls, n - 2)
        /\ calls[n - 1].call \in {"loop", "branch"} /\ CalledFrom(s, Top, calls[n - 1])
        /\ calls[n - 2].call = "block" /\ h \in 1..Len(s) /\ Flow!Kind(s, h) \in Flow!Openers
        /\ calls[n - 1].call = "branch" => Flow!Kind(s, h) = "if"
        /\ InBlock(s, h, i)
    BY <1>2, <1>5, ReturnFacts
  <1>7. calls[n - 1].call = "branch" /\ Top.stop \in {"arms", "fi"} /\ Flow!Kind(s, h) = "if"
    BY <1>2, <1>4, <1>6 DEF CalledFrom
  <1>8. k \in {"elif", "else", "fi"}
    BY <1>2, <1>7 DEF StopsAt
  <1>9. Flow!Directly(s, h, i)
    <2>1. h # 0
      BY <1>6
    <2> QED
      BY <1>6, <2>1, Zenon DEF InBlock
  <1>10. UNCHANGED <<script, event, break_requested, continue_requested>>
    BY <1>1, <1>6, <1>7 DEF Returned, SameFlags
  <1>11. calls' = Resumed(bs, x)
    <2> DEFINE e == i + 1
    <2>1. Returned(k, e) /\ Last(Under).call # "loop"
      BY <1>1, <1>3, <1>6, <1>7
    <2>2. e - 1 = i
      BY <1>2
    <2>3. /\ k = "elif" => Skipped(s)[AfterOpener(s, i)]["endif"].idx = x
          /\ k = "else" => Skipped(s)[e]["fi"].idx = x
          /\ k = "fi" => e = x
      <3> HIDE DEF h, i
      <3> QED
        BY <1>2, <1>3, <1>6, <1>7, <1>9, RestIsSkipped DEF i
    <2> HIDE DEF k, x, i, bs, e
    <2>4. /\ k = "elif" => GoesTo(Skipped(s)[AfterOpener(s, e - 1)]["endif"].idx)
          /\ k = "else" => GoesTo(Skipped(s)[e]["fi"].idx)
          /\ k \notin {"elif", "else"} => GoesTo(e)
      BY <2>1, ReturnsToBranch
    <2>5. GoesTo(x)
      BY <1>8, <2>2, <2>3, <2>4
    <2> QED
      BY <2>5 DEF GoesTo, bs
  <1>12. GoesOnAt(s, Resumed(bs, x), x, FALSE)
    <2> DEFINE m == n - 2
    <2>1. h = calls[m].idx
      OBVIOUS
    <2>2. m # Len(calls) /\ Base(s, bs, calls, m) /\ calls[m].call = "block"
      BY <1>6
    <2> HIDE DEF h, m, bs
    <2> QED
      BY <1>3, <1>6, <2>1, <2>2, BlockResumes
  <1>13. Flow!Reached(s)[i] = Flow!Reached(s)[x]
    <2> HIDE DEF h, i
    <2> QED
      BY <1>2, <1>3, <1>6, <1>8, <1>9, ReachedArm
  <1> HIDE DEF x, h, k
  <1>14. Requested' = FALSE /\ break_requested' = FALSE /\ continue_requested' = FALSE
    BY <1>2, <1>10 DEF Requested
  <1>15. Stack(s, calls', FALSE) /\ calls' # <<>> /\ Last(calls').call = "block" /\ Last(calls').idx = x
    BY <1>11, <1>12 DEF GoesOnAt
  <1>16. Flow!Follows(s, event') = Expected(s, Last(calls'), break_requested', continue_requested')
    <2>1. Flow!Follows(s, event') = Flow!At(s, Flow!Reached(s)[x])
      BY <1>2, <1>10, <1>13
    <2> QED
      BY <1>14, <1>15, <2>1 DEF Expected
  <1>17. QED
    BY <1>2, <1>10, <1>14, <1>15, <1>16, Continued, Stutters
LEMMA ReturnsFromBlock ==
  ASSUME NEW end, NEW idx, Returned(end, idx)
  PROVE  /\ script' = script /\ event' = event
         /\ Last(Under).call # "loop" => UNCHANGED <<break_requested, continue_requested>>
         /\ Last(Under).call = "loop" =>
              /\ break_requested' = FALSE /\ continue_requested' = FALSE
              /\ break_requested => GoesTo(Last(Under).limit + 1)
              /\ ~break_requested => calls' = Under
  BY DEF Returned, GoesTo, SameFlags

(* A break or continue leaves the arm it is in. *)
LEMMA LeavesArm ==
  ASSUME ScriptIInv, BlockRunsOut, calls[Len(calls) - 1].call = "branch"
  PROVE  ScriptIInv' /\ FlowStep
  <1> DEFINE n == Len(calls)
             m == n - 2
             s == script
             h == calls[m].idx
             t == Top
  <1>1. n > 1 /\ t.call = "block" /\ (t.idx > t.limit \/ Requested) /\ Returned("none", t.idx)
    BY DEF BlockRunsOut
  <1>2. /\ calls # <<>> /\ m # n /\ Last(Under) = calls[n - 1] /\ Base(s, Front(Under), calls, m)
        /\ calls[m].call = "block" /\ h \in 1..Len(s) /\ Flow!Kind(s, h) \in Flow!Openers
        /\ CloserOf(s, h) <= t.limit
        /\ LoopsAround(s, t.idx) = LoopsAround(s, h) /\ LoopsBelow(calls, m) = LoopsBelow(calls, n)
        /\ t.limit \in 0..Len(s) /\ t.idx \in 1..(Len(s) + 1)
        /\ Requested = FALSE => InBlock(s, h, t.idx)
    BY <1>1, ReturnFacts
  <1>3. /\ Flow!WellFormed(s) /\ Stack(s, calls, Requested) /\ Requested \in BOOLEAN /\ Len(s) \in Nat \ {0}
        /\ Flow!Follows(s, event) = Expected(s, t, break_requested, continue_requested)
    BY <1>2, Running
  <1>4. Requested = TRUE
    <2>1. SUFFICES ASSUME Requested = FALSE PROVE FALSE
      BY <1>3
    <2>2. InBlock(s, h, t.idx) /\ h # 0
      BY <1>2, <2>1
    <2>3. Flow!Directly(s, h, t.idx)
      BY <2>2, Zenon DEF InBlock
    <2> HIDE DEF h
    <2>4. t.idx <= CloserOf(s, h) /\ CloserOf(s, h) \in 1..Len(s)
      BY <1>2, <1>3, <2>3, DirectlyIn, OpenerCloses
    <2>5. t.idx > t.limit
      BY <1>1, <2>1
    <2> QED
      BY <1>2, <1>3, <2>4, <2>5
  <1>5. script' = script /\ event' = event /\ UNCHANGED <<break_requested, continue_requested>> /\ GoesTo(t.idx)
    <2>1. Last(Under).call # "loop" /\ "none" \notin {"elif", "else"}
      BY <1>2
    <2> HIDE DEF t
    <2> QED
      BY <1>1, <2>1, ReturnsFromBlock, ReturnsToBranch
  <1>6. GoesOnAt(s, Resumed(Front(Under), t.idx), t.idx, TRUE)
    <2>1. LoopsBelow(calls, m) # {}
      BY <1>2, <1>3, <1>4 DEF Stack
    <2>2. LoopsAround(s, t.idx) = LoopsAround(s, calls[m].idx) /\ calls[m].call = "block"
      BY <1>2
    <2>3. Base(s, Front(Under), calls, m) /\ t.idx \in 1..(Len(s) + 1) /\ Len(s) \in Nat
      BY <1>2, <1>3
    <2> DEFINE later == TRUE
    <2>4. later \in BOOLEAN /\ (later => LoopsBelow(calls, m) # {})
          /\ (~later => InBlock(s, Opener(calls, m), t.idx) /\ calls[m].idx <= t.idx /\ (m # Len(calls) \/ ~Requested))
      BY <2>1
    <2> HIDE DEF h, m, t, later
    <2>5. GoesOnAt(s, Resumed(Front(Under), t.idx), t.idx, later)
      BY <1>3, <2>2, <2>3, <2>4, StackResumes
    <2> QED
      BY <2>5 DEF later
  <1> HIDE DEF t
  <1>7. Stack(s, calls', TRUE) /\ calls' # <<>> /\ Last(calls').idx = t.idx
    BY <1>5, <1>6 DEF GoesTo, GoesOnAt
  <1>8. Requested' = TRUE /\ break_requested' = break_requested /\ continue_requested' = continue_requested
    BY <1>4, <1>5 DEF Requested
  <1>9. break_requested = TRUE \/ continue_requested = TRUE
    BY <1>4 DEF Requested, ScriptIInv
  <1>10. Flow!Follows(s, event') = Expected(s, Last(calls'), break_requested', continue_requested')
    BY <1>3, <1>5, <1>7, <1>8, <1>9 DEF Expected
  <1>11. break_requested' \in BOOLEAN /\ continue_requested' \in BOOLEAN /\ ~(break_requested' /\ continue_requested')
    BY <1>8 DEF ScriptIInv
  <1>12. QED
    BY <1>2, <1>5, <1>7, <1>8, <1>10, <1>11, Continued, Stutters

(* The body of a loop is over: the loop turns, or a break leaves it. *)
LEMMA LeavesBody ==
  ASSUME ScriptIInv, BlockRunsOut, calls[Len(calls) - 1].call = "loop"
  PROVE  ScriptIInv' /\ FlowStep
  <1> DEFINE n == Len(calls)
             m == n - 2
             s == script
             h == calls[m].idx
             t == Top
             x == CloserOf(s, h) + 1
  <1>1. n > 1 /\ t.call = "block" /\ (t.idx > t.limit \/ Requested) /\ Returned("none", t.idx)
    BY DEF BlockRunsOut
  <1>2. /\ calls # <<>> /\ m # n /\ n - 1 # n /\ Last(Under) = calls[n - 1]
        /\ Base(s, Under, calls, n - 1) /\ Base(s, Front(Under), calls, m)
        /\ calls[m].call = "block" /\ h \in 1..Len(s) /\ Flow!Kind(s, h) \in Flow!Openers /\ Flow!Kind(s, h) \in Flow!Loops
        /\ calls[n - 1].idx = h /\ calls[n - 1].limit = CloserOf(s, h) /\ t.limit = CloserOf(s, h) - 1
        /\ LoopsAround(s, t.idx) = LoopsAround(s, h) \cup {h}
        /\ t.limit \in 0..Len(s) /\ t.idx \in 1..(Len(s) + 1)
        /\ Requested = FALSE => InBlock(s, h, t.idx)
    BY <1>1, ReturnFacts
  <1>3. /\ Flow!WellFormed(s) /\ Stack(s, calls, Requested) /\ Requested \in BOOLEAN /\ Len(s) \in Nat \ {0}
        /\ Flow!Follows(s, event) = Expected(s, t, break_requested, continue_requested)
    BY <1>2, Running
  <1>4. /\ script' = script /\ event' = event /\ break_requested' = FALSE /\ continue_requested' = FALSE
        /\ break_requested => GoesTo(Last(Under).limit + 1)
        /\ ~break_requested => calls' = Under
    <2>1. Last(Under).call = "loop"
      BY <1>2
    <2> HIDE DEF t
    <2> QED
      BY <1>1, <2>1, ReturnsFromBlock
  <1>5. Flow!LoopOf(s, t.idx) = h
    <2> HIDE DEF h, t
    <2> QED
      BY <1>2, <1>3, LoopOfIs
  <1>6. Requested' = FALSE
    BY <1>4 DEF Requested
  <1>7. break_requested \in BOOLEAN /\ continue_requested \in BOOLEAN
    BY DEF ScriptIInv
  <1>8. CASE break_requested
    <2>1. calls' = Resumed(Front(Under), x)
      BY <1>2, <1>4, <1>8 DEF GoesTo
    <2>2. GoesOnAt(s, Resumed(Front(Under), x), x, FALSE)
      <3>1. h = calls[m].idx
        OBVIOUS
      <3> HIDE DEF h, m
      <3> QED
        BY <1>2, <1>3, <3>1, BlockResumes DEF m
    <2>3. Flow!Follows(s, event) = Flow!At(s, Flow!Reached(s)[x])
      <3>1. Flow!NextOf(s, h, {"done"}) = CloserOf(s, h)
        BY <1>2, <1>3, OpenersNext
      <3> HIDE DEF h, t
      <3> QED
        BY <1>3, <1>5, <1>8, <3>1 DEF Expected
    <2> HIDE DEF x
    <2>4. Stack(s, calls', FALSE) /\ calls' # <<>> /\ Last(calls').call = "block" /\ Last(calls').idx = x
      BY <2>1, <2>2 DEF GoesOnAt
    <2>5. Flow!Follows(s, event') = Expected(s, Last(calls'), break_requested', continue_requested')
      BY <1>4, <2>3, <2>4 DEF Expected
    <2> QED
      BY <1>2, <1>4, <1>6, <2>4, <2>5, Continued, Stutters
  <1>9. CASE ~break_requested
    <2> DEFINE c == calls[n - 1]
    <2>1. c.call = "loop" /\ c.idx = h
      BY <1>2
    <2>2. OnTop(s, Under, c)
      <3> DEFINE k == n - 1
      <3>1. Base(s, Under, calls, k) /\ k # Len(calls) /\ calls[k].call = "loop"
        BY <1>2
      <3> HIDE DEF k
      <3>2. OnTop(s, Under, calls[k])
        BY <1>3, <3>1, StackKeeps
      <3> QED
        BY <3>2 DEF k
    <2> HIDE DEF c
    <2>3. Stack(s, calls', FALSE) /\ calls' # <<>> /\ Last(calls') = c
      BY <1>4, <1>9, <2>2 DEF OnTop
    <2>4. Flow!Follows(s, event) = Flow!At(s, h)
      <3>1. CASE continue_requested
        <4> HIDE DEF h, t
        <4> QED
          BY <1>3, <1>5, <1>9, <3>1 DEF Expected
      <3>2. CASE ~continue_requested
        <4>1. Requested = FALSE
          BY <1>9, <3>2 DEF Requested
        <4>2. InBlock(s, h, t.idx) /\ h # 0
          BY <1>2, <4>1
        <4>3. Flow!Directly(s, h, t.idx)
          BY <4>2, Zenon DEF InBlock
        <4> HIDE DEF h
        <4>4. t.idx <= CloserOf(s, h) /\ CloserOf(s, h) \in 1..Len(s)
          BY <1>2, <1>3, <4>3, DirectlyIn, OpenerCloses
        <4>5. t.idx > t.limit
          BY <1>1, <4>1
        <4>6. t.idx = CloserOf(s, h)
          BY <1>2, <1>3, <4>4, <4>5
        <4>7. Flow!Reached(s)[CloserOf(s, h)] = h
          BY <1>2, <1>3, ReachedDone
        <4>8. Flow!Follows(s, event) = Flow!At(s, Flow!Reached(s)[t.idx])
          <5> HIDE DEF t
          <5> QED
            BY <1>1, <1>3, <1>9, <3>2 DEF Expected
        <4> QED
          BY <4>6, <4>7, <4>8
      <3> QED
        BY <3>1, <3>2
    <2>5. Flow!Follows(s, event') = Expected(s, Last(calls'), break_requested', continue_requested')
      <3> HIDE DEF h
      <3> QED
        BY <1>4, <2>1, <2>3, <2>4 DEF Expected
    <2> QED
      BY <1>2, <1>4, <1>6, <2>3, <2>5, Continued, Stutters
  <1>10. QED
    BY <1>8, <1>9

LEMMA BlockRunsOutKeeps ==
  ASSUME ScriptIInv, BlockRunsOut
  PROVE  ScriptIInv' /\ FlowStep
  <1>1. Len(calls) > 1 /\ Top.call = "block"
    BY DEF BlockRunsOut
  <1>2. calls[Len(calls) - 1].call \in {"loop", "branch"}
    BY <1>1, ReturnFacts
  <1>3. QED
    BY <1>2, LeavesArm, LeavesBody
-----------------------------------------------------------------------------
LEMMA RunEndsKeeps ==
  ASSUME ScriptIInv, RunEnds
  PROVE  ScriptIInv' /\ FlowStep
  <1> DEFINE s == script
             t == Top
  <1>1. /\ Len(calls) = 1 /\ t.idx > t.limit /\ event' = [line |-> Len(s) + 1, outcome |-> "end"] /\ calls' = <<>>
        /\ UNCHANGED <<script, break_requested, continue_requested>>
    BY DEF RunEnds, Did, SameFlags
  <1>2. calls # <<>>
    BY <1>1, EmptySeq
  <1>3. /\ Flow!WellFormed(s) /\ Stack(s, calls, Requested) /\ Requested \in BOOLEAN /\ Len(s) \in Nat \ {0} /\ s # <<>>
        /\ Flow!Follows(s, event) = Expected(s, t, break_requested, continue_requested)
        /\ t = calls[Len(calls)] /\ t \in Frames(s)
    BY <1>2, Running
  <1>4. CallOK(s, calls, 1) /\ t = calls[1]
    BY <1>1, <1>3 DEF Stack
  <1>5. t.call = "block" /\ t.limit = Len(s)
    BY <1>4 DEF CallOK
  <1>6. Requested = FALSE
    <2>1. {n \in 1..1 : calls[n].call = "loop"} = {}
      BY <1>4, <1>5
    <2>2. LoopsBelow(calls, 1) = {}
      BY <2>1 DEF LoopsBelow
    <2> QED
      BY <1>1, <1>3, <2>2 DEF Stack
  <1>7. break_requested = FALSE /\ continue_requested = FALSE
    BY <1>6 DEF Requested, ScriptIInv
  <1>8. t.idx = Len(s) + 1
    <2>1. t.idx \in 0..(Len(s) + 1)
      BY <1>3 DEF Frames
    <2> HIDE DEF t
    <2> QED
      BY <1>1, <1>3, <1>5, <2>1
  <1>9. Flow!Follows(s, event) = Flow!At(s, Flow!Reached(s)[t.idx])
    <2> HIDE DEF t
    <2> QED
      BY <1>3, <1>5, <1>7 DEF Expected
  <1>10. Flow!Reached(s)[t.idx] = Len(s) + 1
    BY <1>3, <1>8, ReachedOf
  <1>11. event' \in Flow!Follows(s, event)
    <2>1. [line |-> Len(s) + 1, outcome |-> "end"] \in Flow!At(s, Len(s) + 1)
      BY <1>3, AtLine
    <2> QED
      BY <1>1, <1>9, <1>10, <2>1
  <1>12. FlowStep
    BY <1>1, <1>3, <1>11, Steps
  <1>13. event'.outcome = "end" /\ ~Requested' /\ script' # <<>>
    BY <1>1, <1>3, <1>7 DEF Requested
  <1>14. Flow!WellFormed(script)'
    BY <1>1, <1>3
  <1>15. ScriptIInv'
    BY <1>1, <1>7, <1>13, <1>14 DEF ScriptIInv
  <1>16. QED
    BY <1>12, <1>15

LEMMA RunOverKeeps ==
  ASSUME ScriptIInv, RunOver
  PROVE  ScriptIInv' /\ FlowStep
  <1>1. /\ script # <<>> /\ calls = <<>> /\ script' = <<>> /\ event' = Nothing /\ calls' = <<>>
        /\ UNCHANGED <<break_requested, continue_requested>>
    BY DEF RunOver, SameFlags
  <1>2. event.outcome = "end" /\ ~Requested /\ break_requested \in BOOLEAN /\ continue_requested \in BOOLEAN
        /\ ~(break_requested /\ continue_requested)
    BY <1>1 DEF ScriptIInv
  <1>3. Flow!FlowOver
    BY <1>1, <1>2 DEF Flow!FlowOver, Nothing, Flow!Nothing
  <1>4. ~Requested'
    BY <1>1, <1>2 DEF Requested
  <1>5. ScriptIInv'
    BY <1>1, <1>2, <1>4 DEF ScriptIInv
  <1>6. QED
    BY <1>3, <1>5 DEF FlowStep, Flow!FlowNext

LEMMA CmdRunKeeps ==
  ASSUME ScriptIInv, cmd_run
  PROVE  ScriptIInv' /\ FlowStep
  <1> DEFINE s == script'
             d == Block(1, Len(s), "none")
             cs == calls'
  <1>1. /\ script = <<>> /\ s \in Scripts /\ cs = <<d>> /\ event' = Nothing
        /\ UNCHANGED <<break_requested, continue_requested>>
    BY DEF cmd_run, SameFlags
  <1>2. Flow!WellFormed(s)
    BY <1>1, ScriptsAssumption
  <1>3. s # <<>> /\ Len(s) \in Nat \ {0}
    BY <1>2, ScriptLines, Zenon DEF Flow!WellFormed
  <1>4. calls = <<>> /\ ~Requested
    BY <1>1 DEF ScriptIInv
  <1>5. break_requested = FALSE /\ continue_requested = FALSE
    BY <1>4 DEF ScriptIInv, Requested
  <1>6. break_requested' = FALSE /\ continue_requested' = FALSE /\ Requested' = FALSE
    BY <1>1, <1>5 DEF Requested
  <1>7. d \in Frames(s) /\ d.call = "block" /\ d.idx = 1 /\ d.limit = Len(s) /\ d.stop = "none"
    <2>1. Len(s) \in Nat /\ 1 \in 0..(Len(s) + 1) /\ Len(s) \in 0..Len(s) /\ "none" \in DOMAIN StopsAt
      BY <1>3 DEF StopsAt
    <2> HIDE DEF s
    <2> QED
      BY <2>1, BlockFrame
  <1> HIDE DEF d
  <1>8. cs \in Seq(Frames(s)) /\ Len(cs) = 1 /\ cs[1] = d /\ cs # <<>> /\ Last(cs) = d
    BY <1>1, <1>7 DEF Last
  <1> HIDE DEF cs, s
  <1>9. LoopsBelow(cs, 1) = {}
    <2>1. {n \in 1..1 : cs[n].call = "loop"} = {}
      BY <1>7, <1>8
    <2> QED
      BY <2>1 DEF LoopsBelow
  <1>10. LoopsAround(s, 1) = {}
    <2>1. 1 \in 1..(Len(s) + 1) /\ \A h \in 1..Len(s) : ~(h < 1)
      BY <1>3
    <2>2. \A h : h \notin LoopsAround(s, 1)
      BY <1>2, <2>1, LoopsAroundAre
    <2> QED
      BY <2>2
  <1>11. CallOK(s, cs, 1)
    BY <1>7, <1>8, <1>9, <1>10 DEF CallOK
  <1>12. Placed(s, cs, 1)
    <2>1. Flow!Level(s, 1) = 0 /\ 1 \in 1..(Len(s) + 1)
      BY <1>3, LevelStep
    <2>2. InBlock(s, 0, 1)
      BY <2>1 DEF InBlock
    <2>3. Opener(cs, 1) = 0
      BY DEF Opener
    <2> QED
      BY <1>7, <1>8, <2>2, <2>3 DEF Placed
  <1>13. Stack(s, cs, FALSE)
    <2>1. \A m \in 1..Len(cs) : m = 1
      BY <1>8
    <2> QED
      BY <1>7, <1>8, <1>11, <1>12, <2>1 DEF Stack
  <1>14. Flow!Follows(s, event') = Expected(s, Last(cs), FALSE, FALSE)
    <2>1. Flow!Follows(s, Nothing) = Flow!At(s, Flow!Reached(s)[1])
      BY FollowsOf
    <2> QED
      BY <1>1, <1>7, <1>8, <2>1 DEF Expected
  <1>15. Flow!FlowStart
    BY <1>1 DEF Flow!FlowStart, Nothing, Flow!Nothing
  <1>16. /\ (break_requested \in BOOLEAN /\ continue_requested \in BOOLEAN /\ ~(break_requested /\ continue_requested))'
         /\ (script # <<>> /\ Flow!WellFormed(script) /\ calls # <<>>)'
         /\ Stack(script, calls, Requested)'
    BY <1>2, <1>3, <1>6, <1>8, <1>13 DEF s, cs
  <1>17. (Flow!Follows(script, event) = Expected(script, Top, break_requested, continue_requested))'
    BY <1>6, <1>14 DEF s, cs, Top
  <1>18. ScriptIInv'
    BY <1>16, <1>17 DEF ScriptIInv
  <1>19. QED
    BY <1>15, <1>18 DEF FlowStep, Flow!FlowNext

(* A script that does not run, a start and every step of one. *)
LEMMA ScriptStarts == ASSUME NoScript PROVE ScriptIInv /\ Flow!FlowInit
  BY DEF NoScript, ScriptIInv, Requested, Flow!FlowInit, Nothing, Flow!Nothing

LEMMA ScriptKeeps ==
  ASSUME ScriptIInv, cmd_run \/ ScriptStep \/ UNCHANGED scriptVars
  PROVE  ScriptIInv' /\ FlowStep
  <1>1. CASE UNCHANGED scriptVars
    <2>1. UNCHANGED <<script, calls, break_requested, continue_requested, event>>
      BY <1>1 DEF scriptVars
    <2> QED
      BY <2>1, Stutters DEF ScriptIInv, Requested, Top
  <1>2. CASE ScriptStep
    <2>1. CASE execute_while \/ execute_for
      BY <2>1, WhileForKeep
    <2> QED
      BY <1>2, <2>1, SimpleLineKeeps, ExecuteIfKeeps, ConditionTrueKeeps, ConditionFalseKeeps, LoopTurnsKeeps, LoopEndsKeeps,
         BlockStopsKeeps, BlockRunsOutKeeps, RunEndsKeeps, RunOverKeeps DEF ScriptStep
  <1>3. QED
    BY <1>1, <1>2, CmdRunKeeps

LEMMA ScriptTyped == ASSUME ScriptIInv PROVE ScriptTypeOK
  <1>1. break_requested \in BOOLEAN /\ continue_requested \in BOOLEAN
    BY DEF ScriptIInv
  <1>2. ASSUME NEW i \in DOMAIN calls
        PROVE  /\ calls[i].call \in {"block", "if", "branch", "loop"} /\ calls[i].stop \in DOMAIN StopsAt
               /\ calls[i].idx \in 0..(Len(script) + 1) /\ calls[i].limit \in 0..Len(script)
               /\ calls[i].left \in 0..MaxItems
    <2>1. CASE calls = <<>>
      BY <1>2, <2>1
    <2>2. CASE calls # <<>>
      <3>1. calls \in Seq(Frames(script))
        BY <2>2, Running DEF Stack
      <3>2. calls[i] \in Frames(script)
        BY <1>2, <3>1
      <3> QED
        BY <3>2 DEF Frames
    <2> QED
      BY <2>1, <2>2
  <1>3. QED
    BY <1>1, <1>2 DEF ScriptTypeOK

LEMMA TextKeepsScripts ==
  ASSUME ScriptIInv, [Next]_vars
  PROVE  ScriptIInv' /\ FlowStep
  <1>1. UNCHANGED vars => UNCHANGED scriptVars
    BY DEF vars
  <1>2. Next => cmd_run \/ ScriptStep \/ UNCHANGED scriptVars
    BY Zenon DEF Next, NanoTarget, StartNano, NanoLeft, StartScript
  <1>3. QED
    BY <1>1, <1>2, ScriptKeeps

LEMMA ScriptIInvHolds == Spec => []ScriptIInv
  <1>1. Init => ScriptIInv
    BY ScriptStarts DEF Init
  <1>2. ScriptIInv /\ [Next]_vars => ScriptIInv'
    BY TextKeepsScripts
  <1>3. QED
    BY <1>1, <1>2, PTL DEF Spec

(* What the windows, nano and scripts are made of, on terminals, in buffers and
   with histories of any size, in scripts of any length: no line outgrows its
   columns, no cursor its text, nano's buffer leaves room for the byte C ends it
   with, and no call of the interpreter stands outside the script's lines. *)
THEOREM TextTyped == Spec => []TypeOK
  <1>1. IInv /\ ScriptIInv => TypeOK
    BY LineTypes, NanoTypesHold, ScriptTyped DEF IInv, TypeOK
  <1>2. QED
    BY <1>1, IInvHolds, ScriptIInvHolds, PTL

(* The interpreter implements what a script promises: for every well-formed
   script, whatever its conditions come out as, each line that does something is
   one that may follow the last by the nesting of the blocks, although the
   interpreter finds ends of blocks only by searching forward from where it is. *)
THEOREM ScriptsFollowTheFlow == Spec => ImplementsFlow
  <1>1. Init => Flow!FlowInit
    BY ScriptStarts DEF Init
  <1>2. ScriptIInv /\ [Next]_vars => [Flow!FlowNext]_(Flow!flowVars)
    BY TextKeepsScripts DEF FlowStep
  <1>3. QED
    BY <1>1, <1>2, ScriptIInvHolds, PTL DEF Spec, ImplementsFlow, Flow!FlowSpec
=============================================================================
