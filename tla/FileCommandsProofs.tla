------------------------- MODULE FileCommandsProofs -------------------------
(***************************************************************************)
(* Proofs about FileCommands, for any card, any number of windows and any  *)
(* limits of the node cache and the iterators: every command gives back    *)
(* what it took, does what it tells, and loses no file it was not told to. *)
(***************************************************************************)
EXTENDS FileCommands, WellFoundedInduction, SequenceTheorems, FiniteSetTheorems, TLAPS

(* A nonempty set of naturals has a least element. *)
LEMMA LeastNatural ==
  ASSUME NEW S \in SUBSET Nat, S # {}
  PROVE  \E m \in S : \A k \in S : m <= k
  <1>1. PICK m \in S : \A k \in S : ~(<<k, m>> \in {ij \in Nat \X Nat : ij[1] < ij[2]})
    BY NatLessThanWellFounded, WFMin DEF OpToRel
  <1>2. \A k \in S : ~(k < m)
    BY <1>1
  <1>3. QED
    BY <1>2

(***************************************************************************)
(* IInv, the inductive invariant.  The card is a tree; the command line    *)
(* that runs is one that can be given, and is at a step of its own; every  *)
(* node is held by the windows whose directory it is, by what was          *)
(* forgotten, and by exactly what the running command still has to give    *)
(* back; the calls of rm -r are below its operand; and until a command     *)
(* tells, the card is what it was but for the entry it is working on.      *)
(***************************************************************************)
Names == UNION {Range(p) : p \in Paths}
Letters == UNION {Range(t) : t \in Texts}

(* A path that has no entry, and one that has. *)
CardOK(c) ==
  /\ c \in [Paths -> [kind : {"none", "dir", "file"}, text : Seq(Letters)]]
  /\ \A p \in Paths : c[p].kind = "none" => c[p] = Absent
  /\ \A p \in Paths \ {Root} : c[p].kind # "none" => c[Front(p)].kind = "dir"

(* A command line, from the prompt to what it tells. *)
Working == {"entry", "contents", "walk", "replace", "rename", "truncate", "open", "copy"}
LineOK ==
  /\ run \in [cmd : {"none", "rm", "rmdir", "touch", "cd", "mkdir", "ls", "mv", "read", "cat"},
              at : {"prompt", "start", "told"} \cup Working,
              w : Windows \cup {NULL}, from : Seq(Paths), to : Seq(Names) \cup {NULL},
              flags : SUBSET {"r", "f", "p", "into"}, copied : Nat, ok : BOOLEAN]
  /\ run.at = "prompt" => run = Prompt
  /\ run.at # "prompt" => run.cmd # "none" /\ run.w \in Windows
  /\ run.at \in {"entry", "contents"} => run.cmd = "rm"
  /\ run.at = "walk" => run.cmd = "mkdir"
  /\ run.at \in {"replace", "rename"} => run.cmd = "mv"
  /\ run.at \in {"truncate", "open", "copy"} => run.cmd = "cat"
  /\ run.cmd \in {"rm", "rmdir", "touch", "mkdir", "mv", "cd"} => run.from # <<>>
  /\ run.cmd \in {"rm", "rmdir", "touch", "mkdir", "mv", "read"} => run.from \in Seq(Entries)
  /\ run.cmd = "ls" => Len(run.from) <= 1
  /\ run.cmd = "mv" => run.to \in Seq(Names)
  /\ run.cmd = "cat" => run.from \in Seq(Entries) /\ run.to \in Entries

(* What the running command has taken and will give back. *)
Dirs(cs) == [i \in DOMAIN cs |-> cs[i].dir]

Holding ==
  CASE run.at \in {"entry", "contents"} -> Append(Dirs(calls), Front(Operand))
    [] run.at \in {"walk", "truncate", "open", "copy"} -> <<run.to>>
    [] run.at \in {"replace", "rename"} -> MvHeld(run.to)
    [] OTHER -> <<>>

AtHome(p) == Cardinality({w \in Windows : cwd[w] = p})

Types == {"none", "dir", "file"}
Caches == [Paths -> [type : Types, refs : Nat]]

NodesOK ==
  /\ nodes \in Caches
  /\ leaked \in [Paths -> Nat]
  /\ cwd \in [Windows -> Paths \cup {NULL}]
  /\ \A p \in Paths : nodes[p].refs = AtHome(p) + leaked[p] + Times(Holding, p)
  /\ \A w \in Windows : cwd[w] # NULL => nodes[cwd[w]].type = "dir"

CallsOK ==
  /\ calls \in Seq([dir : Entries, left : SUBSET Entries])
  /\ iters = Len(calls) /\ iters <= Iterators
  /\ run.at \notin {"entry", "contents"} => calls = <<>>
  /\ run.at = "contents" => calls # <<>>
  /\ run.at = "entry" => run.to \in Entries /\ IsPrefix(Operand, run.to) /\ (calls = <<>> => run.to = Operand)
  /\ calls # <<>> => "r" \in run.flags /\ calls[1].dir = Operand
  /\ \A i \in DOMAIN calls : /\ IsPrefix(Operand, calls[i].dir)
                             /\ \A q \in calls[i].left : IsPrefix(Operand, q)

(* What a command has left alone so far, and what is in order for its next step. *)
MoveFits == \A r \in Within(Operand) :
  Kind(r) = "none" \/ IntoItself \/ run.to \notin Paths \/ Moved(Operand, run.to, r) \in Paths
TextsOf(c, from) == [i \in DOMAIN from |-> c[from[i]].text]

AwayOK ==
  /\ CardOK(before)
  /\ run.at = "start" => /\ before = card
                         /\ run.cmd = "mv" => run.to \in Paths /\ MoveBounded(Operand, run.to)
                         /\ run.cmd = "cat" => run.copied = 0
  /\ run.at = "walk" => /\ run.to \in Paths /\ IsStrictPrefix(run.to, Operand)
                        /\ card[Operand] = before[Operand]
  /\ run.at \in {"replace", "rename"} =>
       /\ run.to # Root /\ Front(run.to) \in Paths /\ MoveFits
       /\ \A p \in Paths \ {run.to} : card[p] = before[p]
  /\ run.at = "replace" => /\ run.to \in Paths /\ run.to # Operand
                           /\ Kind(Operand) = "file" \/ leaked[Operand] > 0
  /\ run.at = "told" /\ run.cmd = "mv" /\ run.ok => run.to # Root /\ Front(run.to) \in Paths
  /\ run.at \in {"truncate", "open", "copy"} =>
       \A p \in Paths \ {run.to} : card[p] = before[p]
  /\ run.at \in {"truncate", "open"} => run.copied = 0
  /\ run.at = "copy" =>
       /\ Kind(run.to) = "file"
       /\ IF run.from = <<>> THEN run.copied = 0 /\ card[run.to].text = <<>>
          ELSE run.copied < Len(run.from)
       /\ \/ run.to \in Range(run.from)
          \/ card[run.to].text = FlattenSeq(SubSeq(TextsOf(before, run.from), 1, run.copied))

IInv == CardOK(card) /\ LineOK /\ NodesOK /\ CallsOK /\ AwayOK /\ ToldIsDone

-----------------------------------------------------------------------------
(* Paths: what is in front of what. *)
LEMMA PathsAreSequences ==
  /\ Paths \subseteq Seq(Names) /\ Root \in Paths /\ Len(Root) = 0
  /\ \A p \in Paths : Len(p) \in Nat /\ (p # Root => Front(p) \in Paths)
  /\ \A p \in Paths \ {Root} : Len(p) > 0 /\ Len(Front(p)) = Len(p) - 1
                               /\ \A i \in 1..(Len(p) - 1) : Front(p)[i] = p[i]
  <1>1. Paths \subseteq Seq(Names) /\ Root \in Paths /\ \A p \in Paths \ {Root} : Front(p) \in Paths
    BY TreeAssumption DEF Names
  <1>2. Len(Root) = 0
    BY DEF Root
  <1>3. \A p \in Paths : Len(p) \in Nat
    BY <1>1, LenProperties
  <1>4. ASSUME NEW p \in Paths \ {Root}
        PROVE  Len(p) > 0 /\ Len(Front(p)) = Len(p) - 1 /\ \A i \in 1..(Len(p) - 1) : Front(p)[i] = p[i]
    <2>1. p \in Seq(Names) /\ Len(p) \in Nat /\ Len(p) > 0
      BY <1>1, <1>3, EmptySeq DEF Root
    <2>2. \A i \in 1..(Len(p) - 1) : p[i] \in Names
      BY <2>1, ElementOfSeq
    <2>3. 1 \in Int /\ Len(p) - 1 \in Int
      BY <2>1
    <2>4. /\ Len(SubSeq(p, 1, Len(p) - 1)) = IF 1 <= Len(p) - 1 THEN (Len(p) - 1) - 1 + 1 ELSE 0
          /\ \A i \in 1..((Len(p) - 1) - 1 + 1) : SubSeq(p, 1, Len(p) - 1)[i] = p[1 + i - 1]
      BY <2>2, <2>3, SubSeqProperties
    <2>5. \A i \in 1..(Len(p) - 1) : 1 + i - 1 = i
      OBVIOUS
    <2>6. (Len(p) - 1) - 1 + 1 = Len(p) - 1 /\ ((IF 1 <= Len(p) - 1 THEN (Len(p) - 1) - 1 + 1 ELSE 0) = Len(p) - 1)
      <3>1. \A n \in Nat : n - 1 + 1 = n /\ ((IF 1 <= n THEN n - 1 + 1 ELSE 0) = n)
        OBVIOUS
      <3>2. Len(p) - 1 \in Nat
        BY <2>1
      <3> QED
        BY <3>1, <3>2
    <2>7. \A i \in 1..(Len(p) - 1) : SubSeq(p, 1, Len(p) - 1)[i] = p[i]
      BY <2>4, <2>5, <2>6
    <2> QED
      BY <2>1, <2>4, <2>6, <2>7 DEF Front
  <1>5. QED
    BY <1>1, <1>2, <1>3, <1>4

(* A prefix agrees with what it is a prefix of as far as it goes. *)
LEMMA PrefixAgrees ==
  ASSUME NEW S, NEW s \in Seq(S), NEW t \in Seq(S)
  PROVE  IsPrefix(s, t) <=> Len(s) <= Len(t) /\ \A i \in 1..Len(s) : s[i] = t[i]
  <1>1. Len(s) \in Nat /\ Len(t) \in Nat
    BY LenProperties
  <1>2. ASSUME Len(s) <= Len(t)
        PROVE  SubSeq(s, 1, Len(s)) = SubSeq(t, 1, Len(s)) <=> \A i \in 1..Len(s) : s[i] = t[i]
    <2>1. SubSeq(s, 1, Len(s)) = s
      BY SubSeqFull
    <2>2. \A i \in 1..Len(s) : t[i] \in S
      BY <1>1, <1>2, ElementOfSeq
    <2>3. /\ SubSeq(t, 1, Len(s)) \in Seq(S)
          /\ Len(SubSeq(t, 1, Len(s))) = IF 1 <= Len(s) THEN Len(s) - 1 + 1 ELSE 0
          /\ \A i \in 1..(Len(s) - 1 + 1) : SubSeq(t, 1, Len(s))[i] = t[1 + i - 1]
      BY <1>1, <2>2, SubSeqProperties
    <2> DEFINE u == SubSeq(t, 1, Len(s))
    <2> HIDE DEF u
    <2>4. u \in Seq(S) /\ Len(u) = Len(s) /\ \A i \in 1..Len(s) : u[i] = t[i]
      <3>1. Len(s) - 1 + 1 = Len(s) /\ ((IF 1 <= Len(s) THEN Len(s) - 1 + 1 ELSE 0) = Len(s))
        BY <1>1
      <3>2. \A i \in 1..Len(s) : 1 + i - 1 = i
        BY <1>1
      <3> QED
        BY <2>3, <3>1, <3>2 DEF u
    <2>5. s = u <=> \A i \in 1..Len(s) : s[i] = u[i]
      BY <2>4, SeqEqual
    <2> QED
      BY <2>1, <2>4, <2>5 DEF u
  <1>3. QED
    BY <1>2 DEF IsPrefix

LEMMA PathPrefix ==
  ASSUME NEW p \in Paths, NEW q \in Paths
  PROVE  IsPrefix(p, q) <=> Len(p) <= Len(q) /\ \A i \in 1..Len(p) : p[i] = q[i]
  BY PathsAreSequences, PrefixAgrees

(* Front(r) is the only path between r and what is in front of r. *)
LEMMA FrontPrefix ==
  ASSUME NEW p \in Paths, NEW r \in Paths \ {Root}
  PROVE  /\ IsPrefix(p, r) <=> p = r \/ IsPrefix(p, Front(r))
         /\ ~IsPrefix(r, Front(r)) /\ Front(r) # r /\ IsPrefix(Front(r), r) /\ IsPrefix(p, p)
  <1>1. /\ Front(r) \in Paths /\ Len(r) \in Nat /\ Len(p) \in Nat /\ Len(r) > 0 /\ Len(Front(r)) = Len(r) - 1
        /\ \A i \in 1..(Len(r) - 1) : Front(r)[i] = r[i]
    BY PathsAreSequences
  <1>2. p \in Seq(Names) /\ r \in Seq(Names)
    BY PathsAreSequences
  <1>3. Len(p) = Len(r) /\ (\A i \in 1..Len(p) : p[i] = r[i]) => p = r
    BY <1>2, SeqEqual
  <1>4. IsPrefix(p, Front(r)) <=> Len(p) <= Len(r) - 1 /\ \A i \in 1..Len(p) : p[i] = r[i]
    <2>1. Len(p) <= Len(r) - 1 => \A i \in 1..Len(p) : i \in 1..(Len(r) - 1)
      BY <1>1
    <2> QED
      BY <1>1, <2>1, PathPrefix
  <1>5. IsPrefix(p, r) <=> Len(p) <= Len(r) /\ \A i \in 1..Len(p) : p[i] = r[i]
    BY PathPrefix
  <1>6. ~IsPrefix(r, Front(r)) /\ Front(r) # r
    BY <1>1, PathPrefix
  <1>7. IsPrefix(Front(r), r)
    BY <1>1, PathPrefix
  <1>8. IsPrefix(p, p)
    BY <1>1, PathPrefix
  <1>9. QED
    BY <1>1, <1>3, <1>4, <1>5, <1>6, <1>7, <1>8

-----------------------------------------------------------------------------
(* References: how often a path is in a sequence. *)
LEMMA TimesEmpty ==
  ASSUME NEW p
  PROVE  Times(<<>>, p) = 0
  <1>1. {i \in DOMAIN <<>> : <<>>[i] = p} = {}
    OBVIOUS
  <1>2. QED
    BY <1>1, FS_EmptySet DEF Times

Is(x, p) == IF x = p THEN 1 ELSE 0

LEMMA TimesAppend ==
  ASSUME NEW S, NEW s \in Seq(S), NEW x \in S, NEW p
  PROVE  Times(s, p) \in Nat /\ Times(Append(s, x), p) = Times(s, p) + Is(x, p)
  <1> DEFINE n == Len(s)
             t == Append(s, x)
             A == {i \in 1..n : s[i] = p}
             B == {i \in 1..(n + 1) : t[i] = p}
  <1>1. n \in Nat /\ DOMAIN s = 1..n
    BY LenProperties
  <1>2. t \in Seq(S) /\ Len(t) = n + 1 /\ (\A i \in 1..n : t[i] = s[i]) /\ t[n + 1] = x
    BY AppendProperties
  <1>3. DOMAIN t = 1..(n + 1)
    BY <1>2, LenProperties
  <1>4. IsFiniteSet(A) /\ n + 1 \notin A
    <2>1. IsFiniteSet(1..n) /\ A \in SUBSET (1..n)
      BY <1>1, FS_Interval
    <2> QED
      BY <1>1, <2>1, FS_Subset
  <1>5. B = IF x = p THEN A \cup {n + 1} ELSE A
    <2>1. 1..(n + 1) = (1..n) \cup {n + 1}
      BY <1>1
    <2> QED
      BY <1>1, <1>2, <2>1
  <1>6. Times(s, p) = Cardinality(A) /\ Times(t, p) = Cardinality(B)
    BY <1>1, <1>3 DEF Times
  <1> HIDE DEF A, B
  <1>7. Cardinality(A) \in Nat
    BY <1>4, FS_CardinalityType
  <1>8. Cardinality(A \cup {n + 1}) = Cardinality(A) + 1
    BY <1>4, FS_AddElement
  <1>9. QED
    BY <1>5, <1>6, <1>7, <1>8 DEF Is

LEMMA TimesOne == \A x, p \in Paths : Times(<<x>>, p) = Is(x, p)
  <1> TAKE x, p \in Paths
  <1>1. <<>> \in Seq(Paths) /\ <<x>> = Append(<<>>, x)
    OBVIOUS
  <1>2. Times(Append(<<>>, x), p) = Times(<<>>, p) + Is(x, p)
    BY <1>1, TimesAppend, Zenon
  <1>3. Times(<<>>, p) = 0 /\ Is(x, p) \in Nat
    BY TimesEmpty DEF Is
  <1>4. QED
    BY <1>1, <1>2, <1>3

LEMMA TimesTwo == \A x, y, p \in Paths : Times(<<x, y>>, p) = Is(x, p) + Is(y, p)
  <1> TAKE x, y, p \in Paths
  <1>1. <<x>> \in Seq(Paths) /\ <<x, y>> = Append(<<x>>, y)
    OBVIOUS
  <1>2. Times(Append(<<x>>, y), p) = Times(<<x>>, p) + Is(y, p)
    BY <1>1, TimesAppend, Zenon
  <1>3. Times(<<x>>, p) = Is(x, p)
    BY TimesOne
  <1>4. QED
    BY <1>1, <1>2, <1>3

LEMMA TimesThree == \A x, y, z, p \in Paths : Times(<<x, y, z>>, p) = Is(x, p) + Is(y, p) + Is(z, p)
  <1> TAKE x, y, z, p \in Paths
  <1>1. <<x, y>> \in Seq(Paths) /\ <<x, y, z>> = Append(<<x, y>>, z)
    OBVIOUS
  <1>2. Times(Append(<<x, y>>, z), p) = Times(<<x, y>>, p) + Is(z, p)
    BY <1>1, TimesAppend, Zenon
  <1>3. Times(<<x, y>>, p) = Is(x, p) + Is(y, p)
    BY TimesTwo
  <1>4. QED
    BY <1>1, <1>2, <1>3

-----------------------------------------------------------------------------
(* The node cache. *)
(* A node is taken. *)
LEMMA HoldTakes ==
  ASSUME NEW ns \in Caches, NEW p \in Paths, NEW type \in Types
  PROVE  /\ HoldAs(ns, p, type) \in Caches
         /\ \A q \in Paths : HoldAs(ns, p, type)[q].refs = ns[q].refs + Is(p, q)
         /\ \A q \in Paths : q # p \/ ns[q].refs > 0 => HoldAs(ns, p, type)[q].type = ns[q].type
         /\ ns[p].refs = 0 => HoldAs(ns, p, type)[p].type = type
  <1> DEFINE new == IF ns[p].refs > 0 THEN [ns[p] EXCEPT !.refs = @ + 1] ELSE [type |-> type, refs |-> 1]
  <1>1. ns[p] \in [type : Types, refs : Nat]
    BY DEF Caches
  <1>2. /\ new \in [type : Types, refs : Nat] /\ new.refs = ns[p].refs + 1
        /\ new.type = IF ns[p].refs > 0 THEN ns[p].type ELSE type
    BY <1>1
  <1>3. HoldAs(ns, p, type) = [ns EXCEPT ![p] = new]
    BY DEF HoldAs
  <1> HIDE DEF new
  <1>4. /\ HoldAs(ns, p, type) \in Caches /\ HoldAs(ns, p, type)[p] = new
        /\ \A q \in Paths \ {p} : HoldAs(ns, p, type)[q] = ns[q]
    BY <1>2, <1>3 DEF Caches
  <1>5. \A q \in Paths : ns[q].refs \in Nat
    BY DEF Caches
  <1>6. QED
    BY <1>1, <1>2, <1>4, <1>5 DEF Is

(* Nodes are given back that were held often enough. *)
LEMMA ReleaseGives ==
  ASSUME NEW ns \in Caches, NEW ps, \A p \in Paths : Times(ps, p) \in Nat /\ Times(ps, p) <= ns[p].refs
  PROVE  /\ Release(ns, ps) \in Caches
         /\ \A p \in Paths : /\ Release(ns, ps)[p].refs = ns[p].refs - Times(ps, p)
                             /\ Release(ns, ps)[p].refs > 0 => Release(ns, ps)[p].type = ns[p].type
  <1>1. ASSUME NEW p \in Paths
        PROVE  /\ Release(ns, ps)[p] \in [type : Types, refs : Nat]
               /\ Release(ns, ps)[p].refs = ns[p].refs - Times(ps, p)
               /\ Release(ns, ps)[p].refs > 0 => Release(ns, ps)[p].type = ns[p].type
    <2> DEFINE k == Times(ps, p)
    <2>1. ns[p] \in [type : Types, refs : Nat] /\ k \in Nat /\ k <= ns[p].refs
      BY DEF Caches
    <2>2. Release(ns, ps)[p] = IF ns[p].refs > k THEN [ns[p] EXCEPT !.refs = @ - k] ELSE NoNode
      BY DEF Release
    <2> HIDE DEF k
    <2>3. CASE ns[p].refs > k
      <3>1. ns[p].refs - k \in Nat
        BY <2>1, <2>3
      <3> QED
        BY <2>1, <2>2, <2>3, <3>1 DEF k
    <2>4. CASE ~(ns[p].refs > k)
      <3>1. ns[p].refs - k = 0
        BY <2>1, <2>4
      <3>2. NoNode \in [type : Types, refs : Nat] /\ NoNode.refs = 0
        BY DEF NoNode, Types
      <3> QED
        BY <2>2, <2>4, <3>1, <3>2 DEF k
    <2> QED
      BY <2>3, <2>4
  <1>2. Release(ns, ps) = [p \in Paths |-> Release(ns, ps)[p]]
    BY DEF Release
  <1>3. Release(ns, ps) \in Caches
    BY <1>1, <1>2 DEF Caches
  <1>4. QED
    BY <1>1, <1>3

LEMMA OneGiven ==
  ASSUME NEW ns \in Caches, NEW p \in Paths, ns[p].refs > 0
  PROVE  /\ vfs_node_release(ns, p) \in Caches
         /\ \A q \in Paths : /\ vfs_node_release(ns, p)[q].refs = ns[q].refs - Is(p, q)
                             /\ vfs_node_release(ns, p)[q].refs > 0 => vfs_node_release(ns, p)[q].type = ns[q].type
  <1> DEFINE new == IF ns[p].refs > 1 THEN [ns[p] EXCEPT !.refs = @ - 1] ELSE NoNode
  <1>1. ns[p] \in [type : Types, refs : Nat]
    BY DEF Caches
  <1>2. new \in [type : Types, refs : Nat] /\ new.refs = ns[p].refs - 1 /\ (new.refs > 0 => new.type = ns[p].type)
    <2>1. CASE ns[p].refs > 1
      <3>1. ns[p].refs - 1 \in Nat
        BY <1>1, <2>1
      <3> QED
        BY <1>1, <2>1, <3>1
    <2>2. CASE ~(ns[p].refs > 1)
      <3>1. ns[p].refs = 1
        BY <1>1, <2>2
      <3> QED
        BY <2>2, <3>1 DEF NoNode, Types
    <2> QED
      BY <2>1, <2>2
  <1>3. vfs_node_release(ns, p) = [ns EXCEPT ![p] = new]
    BY DEF vfs_node_release
  <1> HIDE DEF new
  <1>4. /\ vfs_node_release(ns, p) \in Caches /\ vfs_node_release(ns, p)[p] = new
        /\ \A q \in Paths \ {p} : vfs_node_release(ns, p)[q] = ns[q]
    BY <1>2, <1>3 DEF Caches
  <1>5. \A q \in Paths : ns[q].refs \in Nat
    BY DEF Caches
  <1>6. QED
    BY <1>1, <1>2, <1>4, <1>5 DEF Is

-----------------------------------------------------------------------------
(* The card: what is in something is in everything in front of it. *)
LEMMA InFrontIsThere ==
  ASSUME NEW c, CardOK(c), NEW q \in Paths, NEW r \in Paths, IsPrefix(q, r), c[r].kind # "none"
  PROVE  c[q].kind # "none"
  <1> SUFFICES ASSUME c[q].kind = "none" PROVE FALSE
    OBVIOUS
  <1> DEFINE Counter(n) == \E t \in Paths : Len(t) = n /\ IsPrefix(q, t) /\ c[t].kind # "none"
             S == {n \in Nat : Counter(n)}
  <1>1. Len(r) \in S
    BY PathsAreSequences
  <1>2. PICK n \in S : \A k \in S : n <= k
    BY <1>1, LeastNatural
  <1>3. PICK t \in Paths : Len(t) = n /\ IsPrefix(q, t) /\ c[t].kind # "none"
    BY <1>2
  <1>4. t # q
    BY <1>3
  <1>5. t # Root
    <2>1. SUFFICES ASSUME t = Root PROVE FALSE
      OBVIOUS
    <2>2. Len(q) <= 0 /\ Len(q) \in Nat
      BY <1>3, <2>1, PathPrefix, PathsAreSequences
    <2>3. q = Root
      BY <2>2, PathsAreSequences
    <2> QED
      BY <1>4, <2>1, <2>3
  <1>6. Front(t) \in Paths /\ IsPrefix(q, Front(t)) /\ Len(Front(t)) = n - 1 /\ n - 1 \in Nat
    BY <1>3, <1>4, <1>5, FrontPrefix, PathsAreSequences
  <1>7. c[Front(t)].kind # "none"
    BY <1>3, <1>5 DEF CardOK
  <1>8. n - 1 \in S
    BY <1>6, <1>7
  <1>9. n <= n - 1 /\ n \in Nat
    BY <1>2, <1>8
  <1>10. QED
    BY <1>9

(* Something else comes to be at a path. *)
LEMMA PutThere ==
  ASSUME NEW c, CardOK(c), NEW p \in Paths,
         NEW new \in [kind : {"none", "dir", "file"}, text : Seq(Letters)],
         new.kind = "none" => new = Absent,
         new.kind # "none" /\ p # Root => c[Front(p)].kind = "dir",
         new.kind # "dir" => \A r \in Paths \ {Root} : Front(r) = p => c[r].kind = "none"
  PROVE  CardOK([c EXCEPT ![p] = new])
  <1> DEFINE d == [c EXCEPT ![p] = new]
  <1>1. /\ d \in [Paths -> [kind : {"none", "dir", "file"}, text : Seq(Letters)]]
        /\ d[p] = new /\ \A r \in Paths \ {p} : d[r] = c[r]
    BY DEF CardOK
  <1> HIDE DEF d
  <1>2. \A r \in Paths : d[r].kind = "none" => d[r] = Absent
    BY <1>1 DEF CardOK
  <1>3. ASSUME NEW r \in Paths \ {Root}, d[r].kind # "none"
        PROVE  d[Front(r)].kind = "dir"
    <2>1. Front(r) \in Paths /\ Front(r) # r
      BY FrontPrefix, PathsAreSequences
    <2>2. CASE r = p
      BY <1>1, <1>3, <2>1, <2>2
    <2>3. CASE r # p /\ Front(r) = p
      BY <1>1, <1>3, <2>3
    <2>4. CASE r # p /\ Front(r) # p
      BY <1>1, <1>3, <2>1, <2>4 DEF CardOK
    <2> QED
      BY <2>2, <2>3, <2>4
  <1>4. QED
    BY <1>1, <1>2, <1>3 DEF CardOK, d

LEMMA AbsentIs == Absent \in [kind : {"none", "dir", "file"}, text : Seq(Letters)] /\ Absent.kind = "none"
  BY EmptySeq DEF Absent

(* SD.remove and SD.rmdir leave a tree. *)
LEMMA RemoveKeeps ==
  ASSUME CardOK(card), NEW p \in Paths, Removable(p)
  PROVE  CardOK([card EXCEPT ![p] = Absent])
  <1>1. ASSUME NEW r \in Paths \ {Root}, Front(r) = p PROVE card[r].kind = "none"
    <2>1. SUFFICES ASSUME card[r].kind # "none" PROVE FALSE
      OBVIOUS
    <2>2. card[p].kind = "dir"
      BY <1>1, <2>1 DEF CardOK
    <2>3. r # p
      BY <1>1, FrontPrefix
    <2>4. r \in Children(p)
      BY <1>1, <2>1, <2>3 DEF Children, Kind
    <2> QED
      BY <2>2, <2>4 DEF Removable, Kind
  <1>2. QED
    BY <1>1, PutThere, AbsentIs

(* SD.mkdir and SD.open leave a tree. *)
LEMMA CreateKeeps ==
  ASSUME CardOK(card), NEW p \in Paths, NEW kind \in {"dir", "file"}, MakesAgain(p, kind)
  PROVE  CardOK([card EXCEPT ![p] = New(kind)]) /\ New(kind).kind = kind
  <1>1. New(kind) \in [kind : {"none", "dir", "file"}, text : Seq(Letters)] /\ New(kind).kind = kind
    BY EmptySeq DEF New, Directory, File
  <1>2. card[p].kind \in {"none", kind} /\ (p # Root => card[Front(p)].kind = "dir")
    BY DEF MakesAgain, Creatable, Kind, CardOK
  <1>3. kind # "dir" => \A r \in Paths \ {Root} : Front(r) = p => card[r].kind = "none"
    BY <1>2 DEF CardOK
  <1>4. QED
    BY <1>1, <1>2, <1>3, PutThere

(* So does writing a file. *)
LEMMA WriteKeeps ==
  ASSUME CardOK(card), NEW p \in Paths \ {Root}, Kind(p) = "file" \/ Creatable(p), NEW text \in Seq(Letters)
  PROVE  CardOK([card EXCEPT ![p] = File(text)])
  <1>1. File(text) \in [kind : {"none", "dir", "file"}, text : Seq(Letters)] /\ File(text).kind = "file"
    BY DEF File
  <1>2. card[Front(p)].kind = "dir" /\ card[p].kind # "dir"
    BY DEF Creatable, Kind, CardOK
  <1>3. \A r \in Paths \ {Root} : Front(r) = p => card[r].kind = "none"
    BY <1>2 DEF CardOK
  <1>4. QED
    BY <1>1, <1>2, <1>3, PutThere

(* Where something is after a move. *)
LEMMA MovedIs ==
  ASSUME NEW p \in Paths, NEW q \in Seq(Names), NEW r \in Paths, IsPrefix(p, r)
  PROVE  /\ Moved(p, q, r) \in Seq(Names)
         /\ Len(Moved(p, q, r)) = Len(q) + (Len(r) - Len(p))
         /\ \A i \in 1..Len(q) : Moved(p, q, r)[i] = q[i]
         /\ \A i \in (Len(q) + 1)..(Len(q) + (Len(r) - Len(p))) :
              Moved(p, q, r)[i] = r[(i - Len(q)) + Len(p)]
         /\ Len(p) <= Len(r) /\ Len(p) \in Nat /\ Len(q) \in Nat /\ Len(r) \in Nat
  <1> DEFINE s == SubSeq(r, Len(p) + 1, Len(r))
             n == Len(r) - Len(p)
  <1>1. Len(p) <= Len(r) /\ Len(p) \in Nat /\ Len(q) \in Nat /\ Len(r) \in Nat /\ n \in Nat
    <2>1. Len(p) <= Len(r) /\ Len(p) \in Nat /\ Len(r) \in Nat
      BY PathPrefix, PathsAreSequences
    <2>2. Len(q) \in Nat
      BY LenProperties
    <2> QED
      BY <2>1, <2>2
  <1>2. \A i \in (Len(p) + 1)..Len(r) : r[i] \in Names
    <2>1. r \in Seq(Names)
      BY PathsAreSequences
    <2> QED
      BY <1>1, <2>1, ElementOfSeq
  <1>3. /\ s \in Seq(Names)
        /\ Len(s) = IF Len(p) + 1 <= Len(r) THEN Len(r) - (Len(p) + 1) + 1 ELSE 0
        /\ \A i \in 1..(Len(r) - (Len(p) + 1) + 1) : s[i] = r[(Len(p) + 1) + i - 1]
    BY <1>1, <1>2, SubSeqProperties
  <1> HIDE DEF s
  <1>4. Len(s) = n /\ \A i \in 1..n : s[i] = r[i + Len(p)]
    <2>1. (IF Len(p) + 1 <= Len(r) THEN Len(r) - (Len(p) + 1) + 1 ELSE 0) = n
      BY <1>1
    <2>2. Len(r) - (Len(p) + 1) + 1 = n
      BY <1>1
    <2>3. \A i \in 1..n : (Len(p) + 1) + i - 1 = i + Len(p)
      BY <1>1
    <2> QED
      BY <1>3, <2>1, <2>2, <2>3
  <1>5. Moved(p, q, r) = q \o s
    BY DEF Moved, s
  <1>6. /\ q \o s \in Seq(Names) /\ Len(q \o s) = Len(q) + Len(s)
        /\ \A i \in 1..(Len(q) + Len(s)) : (q \o s)[i] = IF i <= Len(q) THEN q[i] ELSE s[i - Len(q)]
    BY <1>3, ConcatProperties
  <1> DEFINE m == q \o s
  <1>7. m = Moved(p, q, r)
    BY <1>5
  <1> HIDE DEF m
  <1>8. Len(m) = Len(q) + n /\ \A i \in 1..(Len(q) + n) : m[i] = IF i <= Len(q) THEN q[i] ELSE s[i - Len(q)]
    BY <1>4, <1>6 DEF m
  <1> HIDE DEF n
  <1>9. \A i \in 1..Len(q) : m[i] = q[i]
    BY <1>1, <1>8
  <1>10. ASSUME NEW i \in (Len(q) + 1)..(Len(q) + n) PROVE m[i] = r[(i - Len(q)) + Len(p)]
    <2>1. i \in 1..(Len(q) + n) /\ ~(i <= Len(q)) /\ i - Len(q) \in 1..n
      BY <1>1
    <2>2. m[i] = s[i - Len(q)]
      BY <1>8, <2>1
    <2> QED
      BY <1>4, <2>1, <2>2
  <1>11. QED
    BY <1>1, <1>6, <1>7, <1>8, <1>9, <1>10 DEF m, n

(* Moving there and back is where it was, and what is moved is under the new
   name. *)
LEMMA MovedBack ==
  ASSUME NEW p \in Paths, NEW q \in Paths, NEW r \in Paths, IsPrefix(p, r), Moved(p, q, r) \in Paths
  PROVE  IsPrefix(q, Moved(p, q, r)) /\ Moved(q, p, Moved(p, q, r)) = r
  <1> DEFINE m == Moved(p, q, r)
  <1>1. q \in Seq(Names) /\ p \in Seq(Names) /\ r \in Seq(Names) /\ m \in Paths
    BY PathsAreSequences
  <1>2. /\ Len(m) = Len(q) + (Len(r) - Len(p))
        /\ \A i \in 1..Len(q) : m[i] = q[i]
        /\ \A i \in (Len(q) + 1)..(Len(q) + (Len(r) - Len(p))) : m[i] = r[(i - Len(q)) + Len(p)]
        /\ Len(p) <= Len(r) /\ Len(p) \in Nat /\ Len(q) \in Nat /\ Len(r) \in Nat
    BY <1>1, MovedIs
  <1> HIDE DEF m
  <1>3. IsPrefix(q, m)
    <2>1. Len(q) <= Len(m)
      BY <1>2
    <2> QED
      BY <1>1, <1>2, <2>1, PathPrefix
  <1> DEFINE b == Moved(q, p, m)
  <1>4. /\ b \in Seq(Names)
        /\ Len(b) = Len(p) + (Len(m) - Len(q))
        /\ \A i \in 1..Len(p) : b[i] = p[i]
        /\ \A i \in (Len(p) + 1)..(Len(p) + (Len(m) - Len(q))) : b[i] = m[(i - Len(p)) + Len(q)]
    BY <1>1, <1>3, MovedIs
  <1> HIDE DEF b
  <1>5. Len(b) = Len(r)
    BY <1>2, <1>4
  <1>6. ASSUME NEW i \in 1..Len(b) PROVE b[i] = r[i]
    <2>1. CASE i <= Len(p)
      <3>1. i \in 1..Len(p) /\ i \in Nat
        BY <1>2, <1>5, <2>1
      <3>2. p[i] = r[i]
        BY <3>1, PathPrefix
      <3> QED
        BY <1>4, <3>1, <3>2
    <2>2. CASE ~(i <= Len(p))
      <3>1. i \in (Len(p) + 1)..(Len(p) + (Len(m) - Len(q))) /\ i \in Int
        BY <1>2, <1>5, <2>2
      <3>2. b[i] = m[(i - Len(p)) + Len(q)]
        BY <1>4, <3>1
      <3> DEFINE j == (i - Len(p)) + Len(q)
      <3>3. j \in (Len(q) + 1)..(Len(q) + (Len(r) - Len(p))) /\ (j - Len(q)) + Len(p) = i
        BY <1>2, <1>5, <2>2, <3>1
      <3>4. m[j] = r[(j - Len(q)) + Len(p)]
        BY <1>2, <3>3
      <3> QED
        BY <3>2, <3>3, <3>4
    <2> QED
      BY <2>1, <2>2
  <1>7. b = r
    BY <1>1, <1>4, <1>5, <1>6, SeqEqual
  <1>8. QED
    BY <1>3, <1>7 DEF b, m

(* What is in a directory moves with it. *)
LEMMA MovedFront ==
  ASSUME NEW p \in Paths, NEW q \in Paths, NEW r \in Paths \ {Root}, IsPrefix(p, r), p # r, Moved(p, q, r) \in Paths
  PROVE  Moved(p, q, r) # Root /\ Front(Moved(p, q, r)) = Moved(p, q, Front(r))
  <1> DEFINE m == Moved(p, q, r)
             f == Front(r)
             b == Moved(p, q, f)
             d == Front(m)
  <1>1. /\ q \in Seq(Names) /\ f \in Paths /\ IsPrefix(p, f) /\ Len(f) = Len(r) - 1
        /\ \A i \in 1..(Len(r) - 1) : f[i] = r[i]
    BY PathsAreSequences, FrontPrefix
  <1>2. /\ Len(m) = Len(q) + (Len(r) - Len(p))
        /\ \A i \in 1..Len(q) : m[i] = q[i]
        /\ \A i \in (Len(q) + 1)..(Len(q) + (Len(r) - Len(p))) : m[i] = r[(i - Len(q)) + Len(p)]
        /\ Len(p) <= Len(r) /\ Len(p) \in Nat /\ Len(q) \in Nat /\ Len(r) \in Nat
    BY <1>1, MovedIs
  <1>3. /\ b \in Seq(Names)
        /\ Len(b) = Len(q) + (Len(f) - Len(p))
        /\ \A i \in 1..Len(q) : b[i] = q[i]
        /\ \A i \in (Len(q) + 1)..(Len(q) + (Len(f) - Len(p))) : b[i] = f[(i - Len(q)) + Len(p)]
        /\ Len(p) <= Len(f)
    BY <1>1, MovedIs
  <1>4. m \in Paths
    OBVIOUS
  <1> HIDE DEF m, b, f
  <1>5. Len(m) > 0 /\ m # Root
    <2>1. Len(m) > 0
      BY <1>1, <1>2, <1>3
    <2> QED
      BY <2>1, PathsAreSequences
  <1>6. d \in Seq(Names) /\ Len(d) = Len(m) - 1 /\ \A i \in 1..(Len(m) - 1) : d[i] = m[i]
    BY <1>4, <1>5, PathsAreSequences
  <1> HIDE DEF d
  <1>7. Len(d) = Len(b)
    BY <1>1, <1>2, <1>3, <1>6
  <1>8. ASSUME NEW i \in 1..Len(b) PROVE d[i] = b[i]
    <2>1. i \in 1..(Len(m) - 1) /\ i \in Nat
      BY <1>2, <1>6, <1>7
    <2>2. d[i] = m[i]
      BY <1>6, <2>1
    <2>3. CASE i <= Len(q)
      <3>1. i \in 1..Len(q)
        BY <1>2, <2>1, <2>3
      <3> QED
        BY <1>2, <1>3, <2>2, <3>1
    <2>4. CASE ~(i <= Len(q))
      <3>1. i \in (Len(q) + 1)..(Len(q) + (Len(r) - Len(p))) /\ i \in (Len(q) + 1)..(Len(q) + (Len(f) - Len(p)))
        BY <1>1, <1>2, <1>3, <2>1, <2>4
      <3>2. m[i] = r[(i - Len(q)) + Len(p)] /\ b[i] = f[(i - Len(q)) + Len(p)]
        BY <1>2, <1>3, <3>1
      <3>3. (i - Len(q)) + Len(p) \in 1..(Len(r) - 1)
        BY <1>1, <1>2, <1>3, <2>1, <2>4
      <3> QED
        BY <1>1, <2>2, <3>2, <3>3
    <2> QED
      BY <2>3, <2>4
  <1>9. d = b
    BY <1>3, <1>6, <1>7, <1>8, SeqEqual
  <1>10. QED
    BY <1>5, <1>9 DEF d, b, m, f

(* SD.rename leaves a tree. *)
LEMMA RenameKeeps ==
  ASSUME CardOK(card), NEW p \in Paths, NEW q \in Paths, Renamable(p, q)
  PROVE  CardOK(Rename(p, q))
  <1> DEFINE d == Rename(p, q)
             Contents == [kind : {"none", "dir", "file"}, text : Seq(Letters)]
  <1>1. /\ card[q].kind = "none" /\ card[Front(q)].kind = "dir" /\ ~IsPrefix(p, q)
    BY DEF Renamable, Creatable, Kind
  <1>2. \A r \in Paths : d[r] = IF IsPrefix(q, r) THEN LET old == Moved(q, p, r)
                                                      IN  IF old \in Paths THEN card[old] ELSE Absent
                                ELSE IF IsPrefix(p, r) THEN Absent ELSE card[r]
    BY DEF Rename
  <1>3. Absent \in Contents /\ \A r \in Paths : card[r] \in Contents /\ (card[r].kind = "none" => card[r] = Absent)
    BY AbsentIs DEF CardOK
  <1>4. \A r \in Paths : d[r] \in Contents /\ (d[r].kind = "none" => d[r] = Absent)
    BY <1>2, <1>3, Zenon
  <1>5. d = [r \in Paths |-> d[r]]
    BY DEF Rename
  <1> HIDE DEF d
  <1>6. d \in [Paths -> Contents]
    BY <1>4, <1>5
  <1>7. ASSUME NEW r \in Paths \ {Root}, d[r].kind # "none"
        PROVE  d[Front(r)].kind = "dir"
    <2>1. Front(r) \in Paths
      BY PathsAreSequences
    <2>2. CASE r = q
      <3>1. ~IsPrefix(q, Front(q)) /\ ~IsPrefix(p, Front(q))
        BY <1>1, <2>2, FrontPrefix
      <3> QED
        BY <1>1, <1>2, <2>1, <2>2, <3>1
    <2>3. CASE r # q /\ IsPrefix(q, r)
      <3> DEFINE old == Moved(q, p, r)
      <3>1. old \in Paths /\ card[old].kind # "none"
        BY <1>2, <1>7, <2>3, AbsentIs
      <3>2. old # Root /\ Front(old) = Moved(q, p, Front(r))
        BY <2>3, <3>1, MovedFront
      <3>3. IsPrefix(q, Front(r))
        BY <2>3, FrontPrefix
      <3> HIDE DEF old
      <3>4. Front(old) \in Paths /\ card[Front(old)].kind = "dir"
        BY <3>1, <3>2, PathsAreSequences DEF CardOK
      <3> QED
        BY <1>2, <2>1, <3>2, <3>3, <3>4
    <2>4. CASE ~IsPrefix(q, r)
      <3>1. ~IsPrefix(p, r) /\ d[r] = card[r]
        BY <1>2, <1>7, <2>4, AbsentIs
      <3>2. ~IsPrefix(q, Front(r)) /\ ~IsPrefix(p, Front(r))
        BY <2>4, <3>1, FrontPrefix
      <3>3. card[Front(r)].kind = "dir"
        BY <1>7, <3>1 DEF CardOK
      <3> QED
        BY <1>2, <2>1, <3>2, <3>3
    <2> QED
      BY <2>2, <2>3, <2>4
  <1>8. QED
    BY <1>4, <1>6, <1>7 DEF CardOK, d

(* So does losing a directory with all it holds. *)
LEMMA LoseKeeps ==
  ASSUME CardOK(card), NEW p \in Paths
  PROVE  CardOK([r \in Paths |-> IF IsPrefix(p, r) THEN Absent ELSE card[r]])
  <1> DEFINE d == [r \in Paths |-> IF IsPrefix(p, r) THEN Absent ELSE card[r]]
             Contents == [kind : {"none", "dir", "file"}, text : Seq(Letters)]
  <1>1. \A r \in Paths : d[r] = IF IsPrefix(p, r) THEN Absent ELSE card[r]
    OBVIOUS
  <1>2. Absent \in Contents /\ \A r \in Paths : card[r] \in Contents /\ (card[r].kind = "none" => card[r] = Absent)
    BY AbsentIs DEF CardOK
  <1>3. \A r \in Paths : d[r] \in Contents /\ (d[r].kind = "none" => d[r] = Absent)
    BY <1>1, <1>2, Zenon
  <1>4. d \in [Paths -> Contents]
    BY <1>3
  <1> HIDE DEF d
  <1>5. ASSUME NEW r \in Paths \ {Root}, d[r].kind # "none"
        PROVE  d[Front(r)].kind = "dir"
    <2>1. ~IsPrefix(p, r) /\ d[r] = card[r] /\ Front(r) \in Paths
      BY <1>1, <1>5, AbsentIs, PathsAreSequences
    <2>2. ~IsPrefix(p, Front(r))
      BY <2>1, FrontPrefix
    <2> QED
      BY <1>1, <1>5, <2>1, <2>2 DEF CardOK
  <1>6. QED
    BY <1>3, <1>4, <1>5 DEF CardOK, d

(* Every directory on the way down a path is a path. *)
LEMMA PathUpTo ==
  ASSUME NEW p \in Paths, NEW k \in 0..Len(p)
  PROVE  /\ SubSeq(p, 1, k) \in Paths /\ Len(SubSeq(p, 1, k)) = k
         /\ \A i \in 1..k : SubSeq(p, 1, k)[i] = p[i]
  <1>1. p \in Seq(Names) /\ Len(p) \in Nat
    BY PathsAreSequences
  <1>2. ASSUME NEW n \in 0..Len(p)
        PROVE  /\ SubSeq(p, 1, n) \in Seq(Names) /\ Len(SubSeq(p, 1, n)) = n
               /\ \A i \in 1..n : SubSeq(p, 1, n)[i] = p[i]
    <2>1. \A i \in 1..n : p[i] \in Names
      BY <1>1, ElementOfSeq
    <2>2. /\ SubSeq(p, 1, n) \in Seq(Names)
          /\ Len(SubSeq(p, 1, n)) = IF 1 <= n THEN n - 1 + 1 ELSE 0
          /\ \A i \in 1..(n - 1 + 1) : SubSeq(p, 1, n)[i] = p[1 + i - 1]
      BY <2>1, SubSeqProperties
    <2>3. n - 1 + 1 = n /\ ((IF 1 <= n THEN n - 1 + 1 ELSE 0) = n) /\ \A i \in 1..n : 1 + i - 1 = i
      OBVIOUS
    <2> QED
      BY <2>2, <2>3
  <1> SUFFICES ASSUME SubSeq(p, 1, k) \notin Paths PROVE FALSE
    BY <1>2
  <1> DEFINE S == {n \in Nat : n <= Len(p) /\ SubSeq(p, 1, Len(p) - n) \notin Paths}
  <1>3. Len(p) - k \in S
    <2>1. Len(p) - (Len(p) - k) = k /\ Len(p) - k \in Nat /\ Len(p) - k <= Len(p)
      BY <1>1
    <2> QED
      BY <2>1
  <1>4. PICK n \in S : \A m \in S : n <= m
    BY <1>3, LeastNatural
  <1>5. n # 0
    <2>1. Len(p) - 0 = Len(p)
      BY <1>1
    <2> QED
      BY <1>1, <1>4, <2>1, SubSeqFull
  <1>6. n - 1 \in Nat /\ n - 1 <= Len(p) /\ ~(n <= n - 1) /\ Len(p) - n \in 0..Len(p)
        /\ Len(p) - (n - 1) \in 0..Len(p) /\ Len(p) - (n - 1) > 0 /\ (Len(p) - (n - 1)) - 1 = Len(p) - n
    BY <1>1, <1>4, <1>5
  <1> DEFINE u == SubSeq(p, 1, Len(p) - (n - 1))
             v == SubSeq(p, 1, Len(p) - n)
  <1>7. u \in Paths
    BY <1>4, <1>6
  <1>8. Len(u) = Len(p) - (n - 1) /\ \A i \in 1..(Len(p) - (n - 1)) : u[i] = p[i]
    BY <1>2, <1>6
  <1>9. v \in Seq(Names) /\ Len(v) = Len(p) - n /\ \A i \in 1..(Len(p) - n) : v[i] = p[i]
    BY <1>2, <1>6
  <1>10. v \notin Paths
    BY <1>4
  <1> HIDE DEF u, v
  <1>11. u # Root
    BY <1>6, <1>8, PathsAreSequences
  <1>12. Front(u) \in Paths /\ Front(u) \in Seq(Names) /\ Len(Front(u)) = Len(p) - n
         /\ \A i \in 1..(Len(p) - n) : Front(u)[i] = p[i]
    <2>1. Front(u) \in Paths /\ Len(Front(u)) = Len(u) - 1 /\ \A i \in 1..(Len(u) - 1) : Front(u)[i] = u[i]
      BY <1>7, <1>11, PathsAreSequences
    <2>2. \A i \in 1..(Len(p) - n) : i \in 1..(Len(p) - (n - 1))
      BY <1>1, <1>4, <1>6
    <2> QED
      BY <1>6, <1>8, <2>1, <2>2, PathsAreSequences
  <1>13. Front(u) = v
    BY <1>9, <1>12, SeqEqual
  <1>14. QED
    BY <1>10, <1>12, <1>13

-----------------------------------------------------------------------------
(* Texts one after the other: FlattenSeq is a recursive function, which there
   is for every sequence ... *)
FlattenUpTo(ss, f, k) == f = [i \in 1..k |-> IF i = 1 THEN ss[i] ELSE f[i - 1] \o ss[i]]

LEMMA FlattenExists ==
  ASSUME NEW ss, NEW n \in Nat
  PROVE  \E f : FlattenUpTo(ss, f, n)
  <1> DEFINE S == {k \in 0..n : ~ \E f : FlattenUpTo(ss, f, k)}
  <1> SUFFICES ASSUME S # {} PROVE FALSE
    OBVIOUS
  <1>1. S \in SUBSET Nat
    OBVIOUS
  <1>2. PICK m \in S : \A k \in S : m <= k
    BY <1>1, LeastNatural
  <1>3. m \in Nat /\ m <= n /\ ~ \E f : FlattenUpTo(ss, f, m)
    BY <1>2
  <1>4. m # 0
    <2> SUFFICES ASSUME m = 0 PROVE FALSE
      OBVIOUS
    <2>1. 1..0 = {}
      OBVIOUS
    <2> DEFINE f == [i \in {} |-> ss]
    <2>2. f = [i \in {} |-> IF i = 1 THEN ss[i] ELSE f[i - 1] \o ss[i]]
      OBVIOUS
    <2> HIDE DEF f
    <2>3. FlattenUpTo(ss, f, 0)
      BY <2>1, <2>2, Zenon DEF FlattenUpTo
    <2> QED
      BY <1>3, <2>3
  <1>5. m - 1 \in Nat /\ m - 1 \in 0..n /\ m - 1 < m
    BY <1>3, <1>4
  <1>6. m - 1 \notin S
    BY <1>2, <1>3, <1>5
  <1>7. PICK g : FlattenUpTo(ss, g, m - 1)
    BY <1>5, <1>6
  <1> DEFINE last == IF m = 1 THEN ss[m] ELSE g[m - 1] \o ss[m]
             f == [i \in 1..m |-> IF i = m THEN last ELSE g[i]]
  <1>8. \A i \in 1..(m - 1) : g[i] = IF i = 1 THEN ss[i] ELSE g[i - 1] \o ss[i]
    BY <1>7, Zenon DEF FlattenUpTo
  <1>9. ASSUME NEW i \in 1..m PROVE f[i] = IF i = 1 THEN ss[i] ELSE f[i - 1] \o ss[i]
    <2>1. CASE i = m
      <3>1. i # 1 => i - 1 \in 1..m /\ i - 1 # m
        BY <1>3, <2>1
      <3>2. i # 1 => f[i - 1] = g[m - 1]
        BY <2>1, <3>1
      <3>3. f[i] = last
        BY <2>1
      <3> HIDE DEF f
      <3> QED
        BY <2>1, <3>2, <3>3
    <2>2. CASE i # m
      <3>1. i \in 1..(m - 1) /\ f[i] = g[i]
        BY <1>3, <2>2
      <3>2. i # 1 => i - 1 \in 1..m /\ i - 1 # m
        BY <1>3, <2>2, <3>1
      <3>3. i # 1 => f[i - 1] = g[i - 1]
        BY <3>2
      <3> HIDE DEF f
      <3> QED
        BY <1>8, <3>1, <3>3
    <2> QED
      BY <2>1, <2>2
  <1>10. DOMAIN f = 1..m /\ f = [i \in 1..m |-> f[i]]
    BY Zenon
  <1> HIDE DEF f, last
  <1>11. f = [i \in 1..m |-> IF i = 1 THEN ss[i] ELSE f[i - 1] \o ss[i]]
    BY <1>9, <1>10, Zenon
  <1>12. FlattenUpTo(ss, f, m)
    BY <1>11, Zenon DEF FlattenUpTo
  <1>13. QED
    BY <1>3, <1>12

(* ... and of which only what comes before a place matters for it. *)
LEMMA FlattenAgrees ==
  ASSUME NEW S, NEW ss, NEW tt, NEW n \in Nat, NEW m \in Nat, n <= m,
         \A i \in 1..n : ss[i] = tt[i] /\ ss[i] \in Seq(S),
         NEW f, FlattenUpTo(ss, f, n), NEW g, FlattenUpTo(tt, g, m)
  PROVE  \A i \in 1..n : f[i] = g[i] /\ f[i] \in Seq(S)
  <1> DEFINE Bad(i) == ~(f[i] = g[i] /\ f[i] \in Seq(S))
             B == {i \in 1..n : Bad(i)}
  <1> SUFFICES ASSUME B # {} PROVE FALSE
    OBVIOUS
  <1>1. B \in SUBSET Nat
    OBVIOUS
  <1>2. PICK k \in B : \A j \in B : k <= j
    BY <1>1, LeastNatural
  <1>3. k \in 1..n /\ k \in 1..m /\ k \in Nat /\ Bad(k)
    BY <1>2
  <1>4. f[k] = IF k = 1 THEN ss[k] ELSE f[k - 1] \o ss[k]
    BY <1>3, Zenon DEF FlattenUpTo
  <1>5. g[k] = IF k = 1 THEN tt[k] ELSE g[k - 1] \o tt[k]
    BY <1>3, Zenon DEF FlattenUpTo
  <1>6. CASE k = 1
    BY <1>3, <1>4, <1>5, <1>6
  <1>7. CASE k # 1
    <2>1. k - 1 \in 1..n /\ ~(k <= k - 1)
      BY <1>3, <1>7
    <2>2. ~Bad(k - 1)
      BY <1>2, <2>1
    <2>3. f[k] = g[k] /\ f[k] = f[k - 1] \o ss[k] /\ f[k - 1] \in Seq(S) /\ ss[k] \in Seq(S)
      BY <1>3, <1>4, <1>5, <1>7, <2>2
    <2>4. f[k] \in Seq(S)
      BY <2>3, ConcatProperties
    <2> QED
      BY <1>3, <2>3, <2>4
  <1>8. QED
    BY <1>6, <1>7

LEMMA FlattenIs ==
  ASSUME NEW ss, Len(ss) \in Nat, Len(ss) # 0
  PROVE  \E f : FlattenUpTo(ss, f, Len(ss)) /\ FlattenSeq(ss) = f[Len(ss)]
  <1> DEFINE f == CHOOSE g : FlattenUpTo(ss, g, Len(ss))
  <1>1. FlattenUpTo(ss, f, Len(ss))
    BY FlattenExists
  <1>2. f = CHOOSE g : g = [i \in 1..Len(ss) |-> IF i = 1 THEN ss[i] ELSE g[i - 1] \o ss[i]]
    BY Zenon DEF FlattenUpTo
  <1>3. FlattenSeq(ss) = f[Len(ss)]
    BY <1>2, Zenon DEF FlattenSeq
  <1>4. QED
    BY <1>1, <1>3

(* One more text is put at the end. *)
LEMMA FlattenAppend ==
  ASSUME NEW S, NEW ss \in Seq(Seq(S)), NEW x \in Seq(S)
  PROVE  /\ FlattenSeq(ss) \in Seq(S) /\ FlattenSeq(<<>>) = <<>>
         /\ FlattenSeq(Append(ss, x)) = FlattenSeq(ss) \o x
  <1> DEFINE tt == Append(ss, x)
             n == Len(ss)
  <1>1. n \in Nat /\ tt \in Seq(Seq(S)) /\ Len(tt) = n + 1 /\ (\A i \in 1..n : tt[i] = ss[i]) /\ tt[n + 1] = x
    BY LenProperties, AppendProperties
  <1>2. \A i \in 1..n : ss[i] \in Seq(S)
    BY ElementOfSeq
  <1>3. FlattenSeq(<<>>) = <<>>
    BY EmptySeq, Zenon DEF FlattenSeq
  <1>4. PICK g : FlattenUpTo(tt, g, n + 1) /\ FlattenSeq(tt) = g[n + 1]
    <2>1. Len(tt) \in Nat /\ Len(tt) # 0
      BY <1>1
    <2>2. \E f : FlattenUpTo(tt, f, Len(tt)) /\ FlattenSeq(tt) = f[Len(tt)]
      BY <2>1, FlattenIs
    <2> QED
      BY <1>1, <2>2
  <1> HIDE DEF tt
  <1>5. g[n + 1] = IF n + 1 = 1 THEN tt[n + 1] ELSE g[(n + 1) - 1] \o tt[n + 1]
    <2>1. n + 1 \in 1..(n + 1)
      BY <1>1
    <2> QED
      BY <1>4, <2>1, Zenon DEF FlattenUpTo
  <1>6. CASE n = 0
    <2>1. ss = <<>>
      BY <1>6, EmptySeq
    <2>2. FlattenSeq(ss) = <<>> /\ FlattenSeq(tt) = x /\ <<>> \o x = x /\ <<>> \in Seq(S)
      BY <1>1, <1>3, <1>4, <1>5, <1>6, <2>1, ConcatEmptySeq, EmptySeq
    <2> QED
      BY <1>3, <2>2 DEF tt
  <1>7. CASE n # 0
    <2>1. PICK f : FlattenUpTo(ss, f, n) /\ FlattenSeq(ss) = f[n]
      BY <1>1, <1>7, FlattenIs
    <2>2. \A i \in 1..n : f[i] = g[i] /\ f[i] \in Seq(S)
      <3>1. n <= n + 1 /\ n + 1 \in Nat /\ \A i \in 1..n : ss[i] = tt[i] /\ ss[i] \in Seq(S)
        BY <1>1, <1>2
      <3> QED
        BY <1>1, <1>4, <2>1, <3>1, FlattenAgrees
    <2>3. n \in 1..n /\ n + 1 # 1 /\ (n + 1) - 1 = n
      BY <1>1, <1>7
    <2>4. FlattenSeq(tt) = FlattenSeq(ss) \o x /\ FlattenSeq(ss) \in Seq(S)
      BY <1>1, <1>4, <1>5, <2>1, <2>2, <2>3
    <2> QED
      BY <1>3, <2>4 DEF tt
  <1>8. QED
    BY <1>6, <1>7

-----------------------------------------------------------------------------
(* What the invariant says of the command that runs. *)
LEMMA OperandIs ==
  ASSUME LineOK, run.cmd \in {"rm", "rmdir", "touch", "mkdir", "mv"}
  PROVE  Operand \in Entries /\ Operand \in Paths /\ Operand # Root /\ Front(Operand) \in Paths
  <1>1. run.from \in Seq(Entries) /\ Len(run.from) \in Nat /\ Len(run.from) # 0
    BY EmptySeq, LenProperties DEF LineOK
  <1>2. Operand \in Entries
    BY <1>1, ElementOfSeq DEF Operand
  <1>3. QED
    BY <1>2, PathsAreSequences DEF Entries

LEMMA AtHomeCounts ==
  ASSUME NEW p
  PROVE  AtHome(p) \in Nat /\ \A w \in Windows : cwd[w] = p => AtHome(p) > 0
  <1> DEFINE W == {w \in Windows : cwd[w] = p}
  <1>1. IsFiniteSet(W)
    BY CommandsAssumption, FS_Subset
  <1>2. Cardinality(W) \in Nat /\ (Cardinality(W) = 0 <=> W = {})
    BY <1>1, FS_CardinalityType, FS_EmptySet
  <1>3. AtHome(p) = Cardinality(W)
    BY DEF AtHome
  <1>4. \A w \in Windows : cwd[w] = p => W # {}
    OBVIOUS
  <1> HIDE DEF W
  <1>5. QED
    BY <1>2, <1>3, <1>4

LEMMA AtHomeCountsNext ==
  ASSUME NEW p
  PROVE  AtHome(p)' \in Nat /\ \A w \in Windows : cwd'[w] = p => AtHome(p)' > 0
  <1> DEFINE W == {w \in Windows : cwd'[w] = p}
  <1>1. IsFiniteSet(W)
    BY CommandsAssumption, FS_Subset
  <1>2. Cardinality(W) \in Nat /\ (Cardinality(W) = 0 <=> W = {})
    BY <1>1, FS_CardinalityType, FS_EmptySet
  <1>3. AtHome(p)' = Cardinality(W)
    BY DEF AtHome
  <1>4. \A w \in Windows : cwd'[w] = p => W # {}
    OBVIOUS
  <1> HIDE DEF W
  <1>5. QED
    BY <1>2, <1>3, <1>4

LEMMA HoldsNothing ==
  ASSUME NodesOK, run.at \notin Working
  PROVE  \A p \in Paths : nodes[p].refs = AtHome(p) + leaked[p]
  <1>1. Holding = <<>>
    BY DEF Holding, Working
  <1>2. \A p \in Paths : Times(Holding, p) = 0 /\ AtHome(p) \in Nat /\ leaked[p] \in Nat
    BY <1>1, TimesEmpty, AtHomeCounts DEF NodesOK
  <1>3. QED
    BY <1>2 DEF NodesOK

LEMMA HoldsOne ==
  ASSUME NodesOK, run.at \in {"walk", "truncate", "open", "copy"}, run.to \in Paths
  PROVE  \A p \in Paths : nodes[p].refs = AtHome(p) + leaked[p] + Is(run.to, p)
  <1>1. Holding = <<run.to>>
    BY DEF Holding
  <1>2. \A p \in Paths : Times(<<run.to>>, p) = Is(run.to, p)
    BY TimesOne
  <1>3. QED
    BY <1>1, <1>2 DEF NodesOK

LEMMA HoldsThree ==
  ASSUME NodesOK, LineOK, run.at \in {"replace", "rename"}, Front(run.to) \in Paths
  PROVE  /\ MvHeld(run.to) = <<Front(run.to), Front(Operand), Operand>>
         /\ \A p \in Paths : nodes[p].refs = AtHome(p) + leaked[p] + Times(MvHeld(run.to), p)
         /\ \A p \in Paths : Times(MvHeld(run.to), p) = Is(Front(run.to), p) + Is(Front(Operand), p) + Is(Operand, p)
  <1>1. Holding = MvHeld(run.to)
    BY DEF Holding
  <1>2. MvHeld(run.to) = <<Front(run.to), Front(Operand), Operand>>
    BY DEF MvHeld
  <1>3. Operand \in Paths /\ Front(Operand) \in Paths
    BY OperandIs DEF LineOK
  <1>4. \A p \in Paths : Times(MvHeld(run.to), p) = Is(Front(run.to), p) + Is(Front(Operand), p) + Is(Operand, p)
    BY <1>2, <1>3, TimesThree
  <1>5. QED
    BY <1>1, <1>2, <1>4 DEF NodesOK

LEMMA HoldsDirs ==
  ASSUME NodesOK, LineOK, CallsOK, run.at \in {"entry", "contents"}
  PROVE  /\ Dirs(calls) \in Seq(Paths) /\ Len(Dirs(calls)) = Len(calls) /\ Len(calls) \in Nat
         /\ \A p \in Paths : /\ Times(Dirs(calls), p) \in Nat
                             /\ nodes[p].refs = AtHome(p) + leaked[p] + (Times(Dirs(calls), p) + Is(Front(Operand), p))
  <1>1. Holding = Append(Dirs(calls), Front(Operand))
    BY DEF Holding
  <1>2. calls \in Seq([dir : Entries, left : SUBSET Entries])
    BY DEF CallsOK
  <1>3. Len(calls) \in Nat /\ DOMAIN calls = 1..Len(calls) /\ \A i \in 1..Len(calls) : calls[i].dir \in Paths
    <2>1. \A i \in 1..Len(calls) : calls[i] \in [dir : Entries, left : SUBSET Entries]
      BY <1>2, ElementOfSeq
    <2> QED
      BY <1>2, <2>1, LenProperties DEF Entries
  <1>4. Dirs(calls) \in Seq(Paths) /\ Len(Dirs(calls)) = Len(calls)
    BY <1>3 DEF Dirs
  <1>5. Front(Operand) \in Paths
    BY OperandIs DEF LineOK
  <1>6. \A p \in Paths : Times(Dirs(calls), p) \in Nat /\ Times(Holding, p) = Times(Dirs(calls), p) + Is(Front(Operand), p)
    BY <1>1, <1>4, <1>5, TimesAppend
  <1>7. QED
    BY <1>3, <1>4, <1>6 DEF NodesOK

(* What windows hold and what is leaked is counted in every node. *)
LEMMA HoldsEnough ==
  ASSUME IInv
  PROVE  \A p \in Paths : /\ AtHome(p) + leaked[p] <= nodes[p].refs /\ AtHome(p) \in Nat /\ leaked[p] \in Nat
                          /\ nodes[p].refs \in Nat
                          /\ \A w \in Windows : cwd[w] = p => AtHome(p) > 0 /\ nodes[p].refs > 0
  <1>1. \A p, q \in Paths : Is(q, p) \in Nat
    BY DEF Is
  <1>2. \A p \in Paths : AtHome(p) \in Nat /\ leaked[p] \in Nat /\ nodes[p].refs \in Nat
    BY AtHomeCounts DEF IInv, NodesOK, Caches
  <1>3. CASE run.at \notin Working
    <2>1. \A p \in Paths : AtHome(p) + leaked[p] <= nodes[p].refs
      BY <1>2, <1>3, HoldsNothing DEF IInv
    <2> QED
      BY <1>2, <2>1, AtHomeCounts
  <1>4. CASE run.at \in {"walk", "truncate", "open", "copy"}
    <2>1. run.to \in Paths
      BY <1>4 DEF IInv, LineOK, AwayOK, Entries
    <2>2. \A p \in Paths : AtHome(p) + leaked[p] <= nodes[p].refs
      BY <1>1, <1>2, <1>4, <2>1, HoldsOne DEF IInv
    <2> QED
      BY <1>2, <2>2, AtHomeCounts
  <1>5. CASE run.at \in {"replace", "rename"}
    <2>1. Front(run.to) \in Paths
      BY <1>5 DEF IInv, AwayOK
    <2>2. Operand \in Paths /\ Front(Operand) \in Paths
      BY <1>5, OperandIs DEF IInv, LineOK
    <2>3. \A p \in Paths : /\ nodes[p].refs = AtHome(p) + leaked[p] + Times(MvHeld(run.to), p)
                           /\ Times(MvHeld(run.to), p) = Is(Front(run.to), p) + Is(Front(Operand), p) + Is(Operand, p)
      BY <1>5, <2>1, HoldsThree DEF IInv
    <2>4. \A p \in Paths : AtHome(p) + leaked[p] <= nodes[p].refs
      BY <1>1, <1>2, <2>1, <2>2, <2>3
    <2> QED
      BY <1>2, <2>4, AtHomeCounts
  <1>6. CASE run.at \in {"entry", "contents"}
    <2>1. Front(Operand) \in Paths
      BY <1>6, OperandIs DEF IInv, LineOK
    <2>2. \A p \in Paths : AtHome(p) + leaked[p] <= nodes[p].refs
      BY SMTT(40), <1>1, <1>2, <1>6, <2>1, HoldsDirs DEF IInv
    <2> QED
      BY <1>2, <2>2, AtHomeCounts
  <1>7. QED
    BY <1>3, <1>4, <1>5, <1>6 DEF Working

-----------------------------------------------------------------------------
(* A command returns. *)
LEMMA Returns ==
  ASSUME IInv, run.at # "prompt", NEW ok \in BOOLEAN, NEW to \in Seq(Names) \cup {NULL},
         run.cmd = "mv" => to \in Seq(Names), run.cmd = "cat" => to = run.to,
         run.cmd = "mv" /\ ok => to # Root /\ Front(to) \in Paths,
         run' = [run EXCEPT !.at = "told", !.ok = ok, !.to = to],
         calls' = <<>>, iters' = 0, before' = before, CardOK(card)',
         nodes' \in Caches, leaked' \in [Paths -> Nat], cwd' \in [Windows -> Paths \cup {NULL}],
         \A p \in Paths : nodes'[p].refs = AtHome(p)' + leaked'[p],
         \A w \in Windows : cwd'[w] # NULL => nodes'[cwd'[w]].type = "dir",
         ok => Done'
  PROVE  IInv'
  <1>1. /\ run'.cmd = run.cmd /\ run'.at = "told" /\ run'.w = run.w /\ run'.from = run.from /\ run'.to = to
        /\ run'.flags = run.flags /\ run'.copied = run.copied /\ run'.ok = ok
    BY DEF IInv, LineOK
  <1>2. LineOK'
    BY <1>1 DEF IInv, LineOK, Operand, Working
  <1>3. NodesOK'
    <2>1. Holding' = <<>>
      BY <1>1 DEF Holding
    <2>2. \A p \in Paths : Times(<<>>, p) = 0 /\ AtHome(p)' \in Nat /\ leaked'[p] \in Nat
      <3>1. ASSUME NEW p \in Paths PROVE AtHome(p)' \in Nat
        <4>1. IsFiniteSet({w \in Windows : cwd'[w] = p})
          BY CommandsAssumption, FS_Subset
        <4> QED
          BY <4>1, FS_CardinalityType DEF AtHome
      <3> QED
        BY <3>1, TimesEmpty
    <2> QED
      BY <2>1, <2>2 DEF NodesOK
  <1>4. CallsOK'
    <2>1. <<>> \in Seq([dir : Entries, left : SUBSET Entries]) /\ Len(<<>>) = 0 /\ DOMAIN <<>> = {}
      OBVIOUS
    <2>2. 0 <= Iterators
      BY TreeAssumption
    <2> QED
      BY <1>1, <2>1, <2>2 DEF CallsOK
  <1>5. AwayOK'
    BY <1>1 DEF IInv, AwayOK, CardOK
  <1>6. ToldIsDone'
    BY <1>1 DEF ToldIsDone
  <1>7. QED
    BY <1>2, <1>3, <1>4, <1>5, <1>6 DEF IInv

(* A command returns and has given back what it held. *)
LEMMA ReturnsNodes ==
  ASSUME IInv, run.at # "prompt", NEW ok \in BOOLEAN, Told(ok),
         run.cmd = "mv" /\ ok => run.to # Root /\ Front(run.to) \in Paths,
         calls' = <<>>, iters' = 0, before' = before, cwd' = cwd, leaked' = leaked, CardOK(card)',
         nodes' \in Caches,
         \A p \in Paths : /\ nodes'[p].refs = AtHome(p) + leaked[p]
                          /\ nodes[p].refs > 0 /\ nodes'[p].refs > 0 => nodes'[p].type = nodes[p].type,
         ok => Done'
  PROVE  IInv'
  <1>1. /\ run.to \in Seq(Names) \cup {NULL} /\ (run.cmd = "mv" => run.to \in Seq(Names))
    BY DEF IInv, LineOK
  <1>2. run' = [run EXCEPT !.at = "told", !.ok = ok, !.to = run.to]
    BY DEF IInv, LineOK, Told
  <1>3. leaked' \in [Paths -> Nat] /\ cwd' \in [Windows -> Paths \cup {NULL}]
    BY DEF IInv, NodesOK
  <1>4. \A p \in Paths : AtHome(p)' = AtHome(p)
    BY DEF AtHome
  <1>5. ASSUME NEW w \in Windows, cwd'[w] # NULL PROVE nodes'[cwd'[w]].type = "dir"
    <2> DEFINE p == cwd[w]
    <2>1. p \in Paths /\ nodes[p].type = "dir"
      BY <1>5 DEF IInv, NodesOK
    <2>2. AtHome(p) > 0 /\ AtHome(p) \in Nat /\ leaked[p] \in Nat /\ nodes[p].refs > 0
      BY <2>1, HoldsEnough
    <2> HIDE DEF p
    <2>3. nodes'[p].refs > 0
      BY <2>1, <2>2
    <2>4. nodes'[p].type = "dir"
      BY <2>1, <2>2, <2>3
    <2> QED
      BY <2>4 DEF p
  <1>6. QED
    BY <1>1, <1>2, <1>3, <1>4, <1>5, Returns

(* A command that holds nothing yet returns. *)
LEMMA ReturnsAtStart ==
  ASSUME IInv, run.at = "start", NEW ok \in BOOLEAN, Told(ok), run.cmd = "mv" => ~ok,
         UNCHANGED <<nodes, iters, cwd, calls, before, leaked>>, CardOK(card)', ok => Done'
  PROVE  IInv'
  <1>1. nodes' \in Caches /\ \A p \in Paths : nodes[p].refs = AtHome(p) + leaked[p]
    BY HoldsNothing DEF IInv, NodesOK, Working
  <1>2. calls' = <<>> /\ iters' = 0
    <2>1. calls = <<>> /\ iters = Len(calls) /\ Len(<<>>) = 0
      BY EmptySeq DEF IInv, CallsOK
    <2> QED
      BY <2>1
  <1>3. nodes' = nodes /\ cwd' = cwd /\ leaked' = leaked /\ before' = before
    OBVIOUS
  <1>4. QED
    BY <1>1, <1>2, <1>3, ReturnsNodes

-----------------------------------------------------------------------------
(* Nothing runs: the invariant is about the card and the nodes. *)
LEMMA PromptTyped ==
  /\ Prompt \in [cmd : {"none", "rm", "rmdir", "touch", "cd", "mkdir", "ls", "mv", "read", "cat"},
                 at : {"prompt", "start", "told"} \cup Working,
                 w : Windows \cup {NULL}, from : Seq(Paths), to : Seq(Names) \cup {NULL},
                 flags : SUBSET {"r", "f", "p", "into"}, copied : Nat, ok : BOOLEAN]
  /\ Prompt.at = "prompt" /\ Prompt.cmd = "none"
  <1>1. <<>> \in Seq(Paths)
    BY EmptySeq
  <1>2. QED
    BY <1>1 DEF Prompt, Working

LEMMA HeldByIs ==
  ASSUME NEW cwds \in [Windows -> {Root, NULL}]
  PROVE  /\ HeldBy(cwds) \in Caches /\ cwds \in [Windows -> Paths \cup {NULL}]
         /\ \A p \in Paths : /\ HeldBy(cwds)[p].refs = Cardinality({w \in Windows : cwds[w] = p})
                             /\ Cardinality({w \in Windows : cwds[w] = p}) \in Nat
         /\ \A w \in Windows : cwds[w] # NULL => HeldBy(cwds)[cwds[w]].type = "dir"
  <1> DEFINE n(p) == Cardinality({w \in Windows : cwds[w] = p})
  <1>1. ASSUME NEW p \in Paths PROVE n(p) \in Nat /\ \A w \in Windows : cwds[w] = p => n(p) # 0
    <2> DEFINE W == {w \in Windows : cwds[w] = p}
    <2>1. IsFiniteSet(W)
      BY CommandsAssumption, FS_Subset
    <2>2. \A w \in Windows : cwds[w] = p => W # {}
      OBVIOUS
    <2> HIDE DEF W
    <2>3. Cardinality(W) \in Nat /\ (Cardinality(W) = 0 <=> W = {})
      BY <2>1, FS_CardinalityType, FS_EmptySet
    <2> QED
      BY <2>2, <2>3 DEF W
  <1>2. \A p \in Paths : HeldBy(cwds)[p] = IF n(p) = 0 THEN NoNode ELSE [type |-> "dir", refs |-> n(p)]
    BY DEF HeldBy
  <1>3. HeldBy(cwds) = [p \in Paths |-> HeldBy(cwds)[p]]
    BY DEF HeldBy
  <1>4. ASSUME NEW p \in Paths
        PROVE  /\ HeldBy(cwds)[p] \in [type : Types, refs : Nat] /\ HeldBy(cwds)[p].refs = n(p)
               /\ n(p) # 0 => HeldBy(cwds)[p].type = "dir"
    <2> DEFINE k == n(p)
    <2>1. k \in Nat /\ HeldBy(cwds)[p] = IF k = 0 THEN NoNode ELSE [type |-> "dir", refs |-> k]
      BY <1>1, <1>2
    <2> HIDE DEF k
    <2>2. HeldBy(cwds)[p] \in [type : Types, refs : Nat] /\ HeldBy(cwds)[p].refs = k /\ (k # 0 => HeldBy(cwds)[p].type = "dir")
      BY <2>1 DEF NoNode, Types
    <2> QED
      BY <2>2 DEF k
  <1> HIDE DEF n
  <1>5. HeldBy(cwds) \in Caches
    BY <1>3, <1>4 DEF Caches
  <1>6. cwds \in [Windows -> Paths \cup {NULL}]
    BY TreeAssumption
  <1>7. ASSUME NEW w \in Windows, cwds[w] # NULL PROVE HeldBy(cwds)[cwds[w]].type = "dir"
    <2>1. cwds[w] \in Paths
      BY <1>6, <1>7
    <2>2. n(cwds[w]) # 0
      BY <1>1, <2>1
    <2> QED
      BY <1>4, <2>1, <2>2
  <1>8. QED
    BY <1>1, <1>4, <1>5, <1>6, <1>7 DEF n

LEMMA NothingCalled ==
  /\ <<>> \in Seq([dir : Entries, left : SUBSET Entries]) /\ Len(<<>>) = 0 /\ DOMAIN <<>> = {}
  /\ 0 <= Iterators
  BY TreeAssumption

LEMMA InitOK == Init => IInv
  <1> SUFFICES ASSUME Init PROVE IInv
    OBVIOUS
  <1>1. CardOK(card)
    <2>1. card = [p \in Paths |-> IF p = Root THEN Directory ELSE Absent]
      BY DEF Init
    <2>2. Directory \in [kind : {"none", "dir", "file"}, text : Seq(Letters)] /\ Directory.kind = "dir"
      BY EmptySeq DEF Directory
    <2>3. \A p \in Paths : card[p] = IF p = Root THEN Directory ELSE Absent
      BY <2>1
    <2>4. card \in [Paths -> [kind : {"none", "dir", "file"}, text : Seq(Letters)]]
      BY <2>1, <2>2, AbsentIs
    <2> QED
      BY <2>2, <2>3, <2>4, AbsentIs DEF CardOK
  <1>2. run = Prompt /\ calls = <<>> /\ iters = 0 /\ before = card /\ leaked = [p \in Paths |-> 0]
    BY DEF Init
  <1>3. LineOK
    BY <1>2, PromptTyped DEF LineOK, Working
  <1>4. NodesOK
    <2>1. Holding = <<>>
      BY <1>2, PromptTyped DEF Holding
    <2>2. cwd \in [Windows -> {Root, NULL}] /\ nodes = HeldBy(cwd)
      BY DEF Init
    <2>3. /\ nodes \in Caches /\ cwd \in [Windows -> Paths \cup {NULL}]
          /\ \A p \in Paths : nodes[p].refs = AtHome(p) /\ AtHome(p) \in Nat
          /\ \A w \in Windows : cwd[w] # NULL => nodes[cwd[w]].type = "dir"
      BY <2>2, HeldByIs DEF AtHome
    <2>4. \A p \in Paths : leaked[p] = 0 /\ Times(<<>>, p) = 0
      BY <1>2, TimesEmpty
    <2> QED
      BY <1>2, <2>1, <2>3, <2>4 DEF NodesOK
  <1>5. CallsOK
    BY <1>2, PromptTyped, NothingCalled DEF CallsOK
  <1>6. AwayOK
    BY <1>1, <1>2, PromptTyped DEF AwayOK
  <1>7. ToldIsDone
    BY <1>2, PromptTyped DEF ToldIsDone
  <1>8. QED
    BY <1>1, <1>3, <1>4, <1>5, <1>6, <1>7 DEF IInv

LEMMA BackAtPrompt ==
  ASSUME run' = Prompt, calls' = <<>>, iters' = 0, CardOK(before)', CardOK(card)',
         nodes' \in Caches, leaked' \in [Paths -> Nat], cwd' \in [Windows -> Paths \cup {NULL}],
         \A p \in Paths : nodes'[p].refs = AtHome(p)' + leaked'[p] /\ AtHome(p)' \in Nat,
         \A w \in Windows : cwd'[w] # NULL => nodes'[cwd'[w]].type = "dir"
  PROVE  IInv'
  <1>1. run'.at = "prompt" /\ run'.cmd = "none"
    BY PromptTyped
  <1>2. LineOK'
    BY <1>1, PromptTyped DEF LineOK, Working
  <1>3. NodesOK'
    <2>1. Holding' = <<>>
      BY <1>1 DEF Holding
    <2>2. \A p \in Paths : Times(<<>>, p) = 0 /\ leaked'[p] \in Nat
      BY TimesEmpty
    <2> QED
      BY <2>1, <2>2 DEF NodesOK
  <1>4. CallsOK'
    BY <1>1, NothingCalled DEF CallsOK
  <1>5. AwayOK'
    BY <1>1 DEF AwayOK, CardOK
  <1>6. ToldIsDone'
    BY <1>1 DEF ToldIsDone
  <1>7. QED
    BY <1>2, <1>3, <1>4, <1>5, <1>6 DEF IInv

LEMMA PowerLossOK ==
  ASSUME IInv, PowerLoss
  PROVE  IInv'
  <1>1. /\ cwd' \in [Windows -> {Root, NULL}] /\ nodes' = HeldBy(cwd')
        /\ iters' = 0 /\ run' = Prompt /\ calls' = <<>> /\ before' = card
        /\ leaked' = [p \in Paths |-> 0] /\ card' = card
    BY DEF PowerLoss
  <1>2. /\ nodes' \in Caches /\ cwd' \in [Windows -> Paths \cup {NULL}]
        /\ \A p \in Paths : nodes'[p].refs = AtHome(p)' /\ AtHome(p)' \in Nat
        /\ \A w \in Windows : cwd'[w] # NULL => nodes'[cwd'[w]].type = "dir"
    BY <1>1, HeldByIs DEF AtHome
  <1>3. leaked' \in [Paths -> Nat] /\ \A p \in Paths : leaked'[p] = 0
    BY <1>1
  <1>4. CardOK(before)' /\ CardOK(card)'
    BY <1>1 DEF IInv
  <1>5. \A p \in Paths : nodes'[p].refs = AtHome(p)' + leaked'[p] /\ AtHome(p)' \in Nat
    BY <1>2, <1>3
  <1>6. QED
    BY <1>1, <1>2, <1>3, <1>4, <1>5, BackAtPrompt

LEMMA PromptBackOK ==
  ASSUME IInv, PromptBack
  PROVE  IInv'
  <1>1. /\ run.at = "told" /\ run' = Prompt /\ before' = card
        /\ card' = card /\ nodes' = nodes /\ iters' = iters /\ cwd' = cwd /\ calls' = calls /\ leaked' = leaked
    BY DEF PromptBack
  <1>2. calls' = <<>> /\ iters' = 0
    BY <1>1, NothingCalled DEF IInv, CallsOK
  <1>3. \A p \in Paths : nodes'[p].refs = AtHome(p)' + leaked'[p] /\ AtHome(p)' \in Nat
    <2>1. \A p \in Paths : nodes[p].refs = AtHome(p) + leaked[p] /\ AtHome(p) \in Nat
      BY <1>1, HoldsNothing, AtHomeCounts DEF IInv, Working
    <2> QED
      BY <1>1, <2>1 DEF AtHome
  <1>4. CardOK(before)' /\ CardOK(card)'
    BY <1>1 DEF IInv
  <1>5. /\ nodes' \in Caches /\ leaked' \in [Paths -> Nat] /\ cwd' \in [Windows -> Paths \cup {NULL}]
        /\ \A w \in Windows : cwd'[w] # NULL => nodes'[cwd'[w]].type = "dir"
    BY <1>1 DEF IInv, NodesOK
  <1>6. QED
    BY <1>1, <1>2, <1>3, <1>4, <1>5, BackAtPrompt

(* The command lines that can be given. *)
Wellformed(l) ==
  /\ l \in [cmd : {"none", "rm", "rmdir", "touch", "cd", "mkdir", "ls", "mv", "read", "cat"},
            at : {"prompt", "start", "told"} \cup Working,
            w : Windows \cup {NULL}, from : Seq(Paths), to : Seq(Names) \cup {NULL},
            flags : SUBSET {"r", "f", "p", "into"}, copied : Nat, ok : BOOLEAN]
  /\ l.at = "start" /\ l.cmd # "none" /\ l.w \in Windows /\ l.copied = 0
  /\ l.cmd \in {"rm", "rmdir", "touch", "mkdir", "mv", "cd"} => l.from # <<>>
  /\ l.cmd \in {"rm", "rmdir", "touch", "mkdir", "mv", "read"} => l.from \in Seq(Entries)
  /\ l.cmd = "ls" => Len(l.from) <= 1
  /\ l.cmd = "mv" => l.to \in Paths /\ MoveBounded(l.from[1], l.to)
  /\ l.cmd = "cat" => l.from \in Seq(Entries) /\ l.to \in Entries

(* The lists of operands that are given. *)
LEMMA OperandsAre ==
  ASSUME NEW from \in Operands
  PROVE  /\ from \in Seq(Entries) /\ from \in Seq(Paths) /\ from # <<>> /\ from[1] \in Entries
  <1>1. Inputs \subseteq Seq(Entries) \ {<<>>}
    BY CommandsAssumption DEF Entries
  <1>2. ASSUME NEW p \in Entries PROVE <<p>> \in Seq(Entries) /\ <<p>> # <<>>
    OBVIOUS
  <1>3. from \in Seq(Entries) /\ from # <<>>
    BY <1>1, <1>2 DEF Operands
  <1>4. Len(from) \in Nat /\ Len(from) # 0
    BY <1>3, EmptySeq, LenProperties
  <1>5. QED
    BY <1>3, <1>4, ElementOfSeq, SeqMonotonic DEF Entries

LEMMA LineIs ==
  ASSUME NEW w \in Windows, NEW from \in Seq(Paths), NEW flags \in SUBSET {"r", "f", "p", "into"}
  PROVE  /\ \A cmd \in {"rm", "rmdir", "touch", "mkdir"} :
              from \in Seq(Entries) /\ from # <<>> => Wellformed(Line(cmd, w, from, NULL, flags))
         /\ from # <<>> => Wellformed(Line("cd", w, from, NULL, flags))
         /\ Len(from) <= 1 => Wellformed(Line("ls", w, from, NULL, flags))
         /\ from \in Seq(Entries) => Wellformed(Line("read", w, from, NULL, flags))
         /\ \A q \in Entries : from \in Seq(Entries) => Wellformed(Line("cat", w, from, q, flags))
         /\ \A q \in Paths : from \in Seq(Entries) /\ from # <<>> /\ MoveBounded(from[1], q)
                               => Wellformed(Line("mv", w, from, q, flags))
  <1> DEFINE L(cmd, to) == [cmd |-> cmd, at |-> "start", w |-> w, from |-> from, to |-> to, flags |-> flags,
                            copied |-> 0, ok |-> FALSE]
  <1>1. \A cmd \in {"rm", "rmdir", "touch", "mkdir"} : from \in Seq(Entries) /\ from # <<>> => Wellformed(L(cmd, NULL))
    BY DEF Wellformed, Working
  <1>2. from # <<>> => Wellformed(L("cd", NULL))
    BY DEF Wellformed, Working
  <1>3. Len(from) <= 1 => Wellformed(L("ls", NULL))
    BY DEF Wellformed, Working
  <1>4. from \in Seq(Entries) => Wellformed(L("read", NULL))
    BY DEF Wellformed, Working
  <1>5. ASSUME NEW q \in Entries, from \in Seq(Entries) PROVE Wellformed(L("cat", q))
    <2>1. q \in Seq(Names)
      BY PathsAreSequences DEF Entries
    <2> QED
      BY <1>5, <2>1 DEF Wellformed, Working
  <1>6. ASSUME NEW q \in Paths, from \in Seq(Entries), from # <<>>, MoveBounded(from[1], q)
        PROVE  Wellformed(L("mv", q))
    <2>1. q \in Seq(Names)
      BY PathsAreSequences
    <2> QED
      BY <1>6, <2>1 DEF Wellformed, Working
  <1>7. \A cmd, to : Line(cmd, w, from, to, flags) = L(cmd, to)
    BY Zenon DEF Line
  <1> HIDE DEF L
  <1>8. QED
    BY <1>1, <1>2, <1>3, <1>4, <1>5, <1>6, <1>7

LEMMA CommandLineOK ==
  ASSUME NEW w \in Windows, CommandLine(w)
  PROVE  Wellformed(run')
  <1>1. ASSUME NEW cmd \in {"rm", "rmdir", "touch", "mkdir"}, NEW from \in Operands, NEW flags \in SUBSET {"r", "f", "p", "into"}
        PROVE  Wellformed(Line(cmd, w, from, NULL, flags))
    BY OperandsAre, LineIs
  <1>2. CASE \E from \in Operands, flags \in SUBSET {"r", "f"} : run' = Line("rm", w, from, NULL, flags)
    BY <1>1, <1>2
  <1>3. CASE \E c \in {"rmdir", "touch"}, from \in Operands : run' = Line(c, w, from, NULL, {})
    BY <1>1, <1>3
  <1>4. CASE \E p \in Places : run' = Line("cd", w, <<p>>, NULL, {})
    <2>1. PICK p \in Places : run' = Line("cd", w, <<p>>, NULL, {})
      BY <1>4
    <2> DEFINE from == <<p>>
    <2>2. from \in Seq(Paths) /\ from # <<>>
      BY CommandsAssumption
    <2>3. run' = Line("cd", w, from, NULL, {})
      BY <2>1
    <2> HIDE DEF from
    <2> QED
      BY <2>2, <2>3, LineIs
  <1>5. CASE \E from \in Operands, flags \in SUBSET {"p"} : run' = Line("mkdir", w, from, NULL, flags)
    BY <1>1, <1>5
  <1>6. CASE \E from \in {<<>>} \cup {<<p>> : p \in Paths} : run' = Line("ls", w, from, NULL, {})
    <2>1. PICK from \in {<<>>} \cup {<<p>> : p \in Paths} : run' = Line("ls", w, from, NULL, {})
      BY <1>6
    <2>2. from \in Seq(Paths) /\ Len(from) <= 1
      <3>1. ASSUME NEW p \in Paths PROVE <<p>> \in Seq(Paths) /\ Len(<<p>>) = 1
        OBVIOUS
      <3>2. <<>> \in Seq(Paths) /\ Len(<<>>) = 0
        BY EmptySeq
      <3>3. CASE from = <<>>
        BY <3>2, <3>3
      <3>4. CASE from \in {<<p>> : p \in Paths}
        <4>1. PICK p \in Paths : from = <<p>>
          BY <3>4, Zenon
        <4> QED
          BY <3>1, <4>1
      <3> QED
        BY <3>3, <3>4
    <2> QED
      BY <2>1, <2>2, LineIs
  <1>7. CASE \E from \in Operands, q \in Paths : MoveBounded(from[1], q) /\ run' = Line("mv", w, from, q, {})
    <2>1. PICK from \in Operands, q \in Paths : MoveBounded(from[1], q) /\ run' = Line("mv", w, from, q, {})
      BY <1>7
    <2> QED
      BY <2>1, OperandsAre, LineIs
  <1>8. CASE \E from \in Inputs : run' = Line("read", w, from, NULL, {})
    <2>1. PICK from \in Inputs : run' = Line("read", w, from, NULL, {})
      BY <1>8
    <2> QED
      BY <2>1, OperandsAre, LineIs DEF Operands
  <1>9. CASE \E from \in {<<>>} \cup {files \in Inputs : TextBounded(files)}, q \in Entries :
               run' = Line("cat", w, from, q, {})
    <2>1. PICK from \in {<<>>} \cup {files \in Inputs : TextBounded(files)}, q \in Entries :
            run' = Line("cat", w, from, q, {})
      BY <1>9
    <2>2. from \in Seq(Entries) /\ from \in Seq(Paths)
      <3>1. <<>> \in Seq(Entries) /\ <<>> \in Seq(Paths)
        BY EmptySeq
      <3>2. from \in Inputs => from \in Seq(Entries) /\ from \in Seq(Paths)
        BY OperandsAre DEF Operands
      <3> QED
        BY <3>1, <3>2
    <2> QED
      BY <2>1, <2>2, LineIs
  <1>10. QED
    BY <1>2, <1>3, <1>4, <1>5, <1>6, <1>7, <1>8, <1>9 DEF CommandLine

(* A command line, or the rest of one, starts. *)
LEMMA StartsOK ==
  ASSUME IInv, run.at \in {"prompt", "told"}, Wellformed(run'), before' = card,
         UNCHANGED <<card, nodes, iters, cwd, calls, leaked>>
  PROVE  IInv'
  <1>1. run'.at = "start" /\ run.at \notin Working
    BY DEF Wellformed, Working
  <1>2. LineOK'
    <2>1. run'.cmd = "mv" => run'.to \in Seq(Names)
      BY PathsAreSequences DEF Wellformed
    <2> QED
      BY <1>1, <2>1 DEF Wellformed, LineOK, Operand, Working
  <1>3. NodesOK'
    <2>1. \A p \in Paths : nodes[p].refs = AtHome(p) + leaked[p] /\ AtHome(p) \in Nat /\ leaked[p] \in Nat
      BY <1>1, HoldsNothing, AtHomeCounts DEF IInv, NodesOK
    <2>2. Holding' = <<>> /\ \A p \in Paths : Times(<<>>, p) = 0
      BY <1>1, TimesEmpty DEF Holding
    <2>3. \A p \in Paths : AtHome(p)' = AtHome(p)
      BY DEF AtHome
    <2> QED
      BY <2>1, <2>2, <2>3 DEF IInv, NodesOK
  <1>4. CallsOK'
    <2>1. calls = <<>>
      BY <1>1 DEF IInv, CallsOK
    <2> QED
      BY <1>1, <2>1, NothingCalled DEF IInv, CallsOK
  <1>5. AwayOK'
    <2>1. run'.cmd = "mv" => run'.to \in Paths /\ MoveBounded(Operand, run.to)'
      BY DEF Wellformed, MoveBounded, Operand, Within, Kind
    <2>2. CardOK(before)'
      BY DEF IInv
    <2>3. run'.copied = 0
      BY DEF Wellformed
    <2> QED
      BY <1>1, <2>1, <2>2, <2>3 DEF AwayOK
  <1>6. ToldIsDone' /\ CardOK(card)'
    BY <1>1 DEF ToldIsDone, IInv
  <1>7. QED
    BY <1>2, <1>3, <1>4, <1>5, <1>6 DEF IInv

LEMMA CommandGivenOK ==
  ASSUME IInv, CommandGiven
  PROVE  IInv'
  <1>1. run.at = "prompt" /\ before' = card /\ UNCHANGED <<card, nodes, iters, cwd, calls, leaked>>
    BY PromptTyped DEF CommandGiven
  <1>2. Wellformed(run')
    BY CommandLineOK, Zenon DEF CommandGiven
  <1>3. QED
    BY <1>1, <1>2, StartsOK

LEMMA NextOperandOK ==
  ASSUME IInv, NextOperand
  PROVE  IInv'
  <1> DEFINE target == IF run.cmd = "mv" THEN Front(run.to) ELSE NULL
             flags == IF run.cmd = "mv" THEN {"into"} ELSE run.flags
             rest == Tail(run.from)
  <1>1. /\ run.at = "told" /\ run.ok /\ run.cmd \in {"rm", "rmdir", "touch", "mkdir", "mv"} /\ Len(run.from) > 1
        /\ before' = card /\ UNCHANGED <<card, nodes, iters, cwd, calls, leaked>>
        /\ run.cmd = "mv" => MoveBounded(run.from[2], target)
    BY DEF NextOperand, GoesOn
  <1>2. /\ run.w \in Windows /\ run.flags \in SUBSET {"r", "f", "p", "into"} /\ run.from \in Seq(Entries)
        /\ run.cmd = "mv" => Front(run.to) \in Paths
    BY <1>1 DEF IInv, LineOK, AwayOK
  <1>3. /\ rest \in Seq(Entries) /\ rest \in Seq(Paths) /\ rest # <<>> /\ rest[1] = run.from[2]
    <2>1. rest \in Seq(Entries) /\ Len(rest) = Len(run.from) - 1 /\ \A i \in 1..Len(rest) : rest[i] = run.from[i + 1]
      BY <1>1, <1>2, EmptySeq, HeadTailProperties
    <2>2. Len(rest) > 0 /\ 1 \in 1..Len(rest)
      BY <1>1, <1>2, <2>1, LenProperties
    <2>3. rest[1] = run.from[1 + 1]
      BY <2>1, <2>2
    <2> HIDE DEF rest
    <2>4. rest \in Seq(Paths) /\ rest # <<>>
      BY <2>1, <2>2, EmptySeq, SeqMonotonic DEF Entries
    <2> QED
      BY <2>1, <2>3, <2>4
  <1>4. flags \in SUBSET {"r", "f", "p", "into"}
    BY <1>2
  <1>5. run' = Line(run.cmd, run.w, rest, target, flags)
    <2>1. run' = [Line(run.cmd, run.w, rest, target, run.flags)
                    EXCEPT !.flags = IF run.cmd = "mv" THEN {"into"} ELSE @]
      BY DEF NextOperand
    <2> HIDE DEF rest, target
    <2> QED
      BY <2>1 DEF Line
  <1>6. Wellformed(Line(run.cmd, run.w, rest, target, flags))
    <2> HIDE DEF rest, flags
    <2>1. CASE run.cmd = "mv"
      BY <1>1, <1>2, <1>3, <1>4, <2>1, LineIs
    <2>2. CASE run.cmd # "mv"
      BY <1>1, <1>2, <1>3, <1>4, <2>2, LineIs
    <2> QED
      BY <2>1, <2>2
  <1>7. QED
    BY <1>1, <1>5, <1>6, StartsOK

-----------------------------------------------------------------------------
(* The commands that are one step. *)
LEMMA ToldIs ==
  ASSUME LineOK, NEW ok, Told(ok)
  PROVE  /\ run'.at = "told" /\ run'.ok = ok /\ run'.cmd = run.cmd /\ run'.from = run.from /\ run'.to = run.to
         /\ run'.flags = run.flags /\ Operand' = Operand
  BY DEF LineOK, Told, Operand

LEMMA AtStart ==
  ASSUME IInv, run.at = "start"
  PROVE  /\ LineOK /\ CardOK(card) /\ nodes \in Caches /\ before = card /\ calls = <<>> /\ iters = 0
         /\ leaked \in [Paths -> Nat] /\ cwd \in [Windows -> Paths \cup {NULL}]
         /\ \A p \in Paths : nodes[p].refs = AtHome(p) + leaked[p] /\ AtHome(p) \in Nat
         /\ \A w \in Windows : cwd[w] # NULL => nodes[cwd[w]].type = "dir"
  <1>1. \A p \in Paths : nodes[p].refs = AtHome(p) + leaked[p] /\ AtHome(p) \in Nat
    BY HoldsNothing, AtHomeCounts DEF IInv, Working
  <1>2. calls = <<>> /\ iters = 0
    BY NothingCalled DEF IInv, CallsOK
  <1>3. QED
    BY <1>1, <1>2 DEF IInv, NodesOK, AwayOK

LEMMA FaultIs == Faults \subseteq BOOLEAN
  BY CommandsAssumption

LEMMA RmdirOK ==
  ASSUME IInv, cmd_rmdir
  PROVE  IInv'
  <1> DEFINE dir == Front(Operand)
             ns == Hold(nodes, dir)
             empty(lookFault) ==
               /\ FindsDir(nodes, dir, lookFault) /\ FindsDir(ns, Operand, lookFault)
               /\ sd_dir_iter_create(Operand, lookFault) /\ Children(Operand) = {}
             fine(lookFault, fault) == empty(lookFault) /\ Removable(Operand) /\ ~fault
  <1>1. At("rmdir", "start") /\ UNCHANGED nodes /\ SameRest
    BY DEF cmd_rmdir
  <1>2. PICK lookFault \in Faults, fault \in Faults :
          /\ card' = IF fine(lookFault, fault) THEN [card EXCEPT ![Operand] = Absent] ELSE card
          /\ Told(fine(lookFault, fault))
    BY Zenon DEF cmd_rmdir
  <1> DEFINE ok == fine(lookFault, fault)
  <1>3. ok \in BOOLEAN /\ (ok => Removable(Operand) /\ Kind(Operand) = "dir")
    BY DEF sd_dir_iter_create
  <1> HIDE DEF ok
  <1>4. card' = (IF ok THEN [card EXCEPT ![Operand] = Absent] ELSE card) /\ Told(ok)
    BY <1>2 DEF ok
  <1>5. run.cmd = "rmdir" /\ run.at = "start" /\ UNCHANGED <<nodes, iters, cwd, calls, before, leaked>>
    BY <1>1 DEF At, SameRest
  <1>6. LineOK /\ CardOK(card) /\ before = card /\ Operand \in Paths
    BY <1>5, AtStart, OperandIs
  <1>7. CardOK(card)'
    BY <1>3, <1>4, <1>6, RemoveKeeps
  <1>8. ok => Done'
    <2> SUFFICES ASSUME ok PROVE Done'
      OBVIOUS
    <2>1. run'.cmd = "rmdir" /\ Operand' = Operand
      BY <1>4, <1>5, <1>6, ToldIs
    <2>2. before'[Operand'].kind = "dir" /\ card' = [before' EXCEPT ![Operand'] = Absent]
      BY <1>3, <1>4, <1>5, <1>6, <2>1 DEF Kind
    <2> QED
      BY <2>1, <2>2 DEF Done
  <1>9. QED
    BY <1>3, <1>4, <1>5, <1>7, <1>8, ReturnsAtStart

LEMMA TouchFoundOK ==
  ASSUME IInv, touch_found
  PROVE  IInv'
  <1>1. /\ run.cmd = "touch" /\ run.at = "start" /\ card' = card
        /\ UNCHANGED <<nodes, iters, cwd, calls, before, leaked>>
    BY DEF touch_found, At, OnlyLooks
  <1>2. PICK fault \in Faults : vfs_resolve(nodes, Operand, fault)
    BY DEF touch_found
  <1> DEFINE ok == ~IsDir(Hold(nodes, Operand), Operand)
  <1>3. ok \in BOOLEAN /\ Told(ok)
    BY DEF touch_found
  <1> HIDE DEF ok
  <1>4. LineOK /\ CardOK(card)'
    BY <1>1, AtStart
  <1>5. Done'
    <2>1. run'.cmd = "touch" /\ Operand' = Operand
      BY <1>1, <1>3, <1>4, ToldIs
    <2>2. SeemsThere(Operand)'
      BY <1>1, <1>2, <2>1 DEF vfs_resolve, SeemsThere, Kind, Cached
    <2> QED
      BY <2>1, <2>2 DEF Done
  <1>6. QED
    BY <1>1, <1>3, <1>4, <1>5, ReturnsAtStart

LEMMA ReadOK ==
  ASSUME IInv, cmd_read
  PROVE  IInv'
  <1>1. /\ run.cmd = "read" /\ run.at = "start" /\ card' = card
        /\ UNCHANGED <<nodes, iters, cwd, calls, before, leaked>>
    BY DEF cmd_read, At, OnlyLooks
  <1>2. PICK ok \in BOOLEAN : Told(ok)
    BY DEF cmd_read
  <1>3. LineOK /\ CardOK(card)' /\ before = card
    BY <1>1, AtStart
  <1>4. Done'
    BY <1>1, <1>2, <1>3, ToldIs DEF Done
  <1>5. QED
    BY <1>1, <1>2, <1>3, <1>4, ReturnsAtStart

LEMMA HoldIs ==
  ASSUME CardOK(card), NEW ns \in Caches, NEW p \in Paths
  PROVE  /\ Hold(ns, p) \in Caches
         /\ \A q \in Paths : Hold(ns, p)[q].refs = ns[q].refs + Is(p, q)
         /\ \A q \in Paths : q # p \/ ns[q].refs > 0 => Hold(ns, p)[q].type = ns[q].type
         /\ ns[p].refs = 0 => Hold(ns, p)[p].type = Kind(p)
  <1>1. Kind(p) \in Types
    BY DEF CardOK, Kind, Types
  <1>2. QED
    BY <1>1, HoldTakes DEF Hold

(* A command returns that may have forgotten what it held. *)
LEMMA ReturnsLeaks ==
  ASSUME IInv, run.at = "start", NEW ok \in BOOLEAN, NEW to \in Seq(Names) \cup {NULL},
         run.cmd = "mv" => to \in Seq(Names), run.cmd = "cat" => to = run.to,
         run.cmd = "mv" /\ ok => to # Root /\ Front(to) \in Paths,
         run' = [run EXCEPT !.at = "told", !.ok = ok, !.to = to],
         UNCHANGED <<iters, cwd, calls, before>>, CardOK(card)',
         nodes' \in Caches, leaked' \in [Paths -> Nat],
         \A p \in Paths : /\ nodes'[p].refs = AtHome(p) + leaked'[p]
                          /\ nodes[p].refs > 0 => nodes'[p].type = nodes[p].type,
         ok => Done'
  PROVE  IInv'
  <1>1. /\ calls = <<>> /\ iters = 0 /\ cwd \in [Windows -> Paths \cup {NULL}] /\ leaked \in [Paths -> Nat]
        /\ \A p \in Paths : nodes[p].refs = AtHome(p) + leaked[p] /\ AtHome(p) \in Nat
        /\ \A w \in Windows : cwd[w] # NULL => nodes[cwd[w]].type = "dir"
    BY AtStart
  <1>2. cwd' = cwd /\ calls' = <<>> /\ iters' = 0 /\ before' = before
    BY <1>1
  <1>3. \A p \in Paths : AtHome(p)' = AtHome(p)
    BY <1>2 DEF AtHome
  <1>4. ASSUME NEW w \in Windows, cwd'[w] # NULL PROVE nodes'[cwd'[w]].type = "dir"
    <2> DEFINE p == cwd[w]
    <2>1. p \in Paths /\ nodes[p].type = "dir"
      BY <1>1, <1>2, <1>4
    <2>2. AtHome(p) > 0
      BY AtHomeCounts
    <2> HIDE DEF p
    <2>3. nodes[p].refs > 0
      BY <1>1, <2>1, <2>2
    <2> QED
      BY <1>2, <2>1, <2>3 DEF p
  <1>5. cwd' \in [Windows -> Paths \cup {NULL}] /\ run.at # "prompt"
    BY <1>1, <1>2
  <1>6. \A p \in Paths : nodes'[p].refs = AtHome(p)' + leaked'[p]
    BY <1>3
  <1>7. QED
    BY <1>2, <1>4, <1>5, <1>6, Returns

LEMMA LsOK ==
  ASSUME IInv, cmd_ls
  PROVE  IInv'
  <1> DEFINE keeps == run.from = <<>> /\ cwd[run.w] = NULL
  <1>1. /\ run.cmd = "ls" /\ run.at = "start" /\ UNCHANGED <<card, iters, cwd, calls, before>>
    BY DEF cmd_ls, At
  <1>2. PICK found \in BOOLEAN, ok \in BOOLEAN :
          /\ Told(ok)
          /\ nodes' = IF found /\ keeps THEN Hold(nodes, Root) ELSE nodes
          /\ leaked' = IF found /\ keeps THEN [leaked EXCEPT ![Root] = @ + 1] ELSE leaked
    <2> DEFINE dir == IF run.from # <<>> THEN Operand ELSE IF cwd[run.w] # NULL THEN cwd[run.w] ELSE Root
               held == run.from = <<>> /\ cwd[run.w] # NULL
    <2>1. PICK lookFault \in Faults, fault \in Faults :
            LET found == held \/ FindsDir(nodes, dir, lookFault)
            IN  /\ Told(found /\ sd_dir_iter_create(dir, fault))
                /\ nodes' = IF found /\ keeps THEN Hold(nodes, Root) ELSE nodes
                /\ leaked' = IF found /\ keeps THEN [leaked EXCEPT ![Root] = @ + 1] ELSE leaked
      BY DEF cmd_ls
    <2> DEFINE fnd == held \/ FindsDir(nodes, dir, lookFault)
               okk == fnd /\ sd_dir_iter_create(dir, fault)
    <2>2. fnd \in BOOLEAN /\ okk \in BOOLEAN
      OBVIOUS
    <2>3. /\ Told(okk)
          /\ nodes' = IF fnd /\ keeps THEN Hold(nodes, Root) ELSE nodes
          /\ leaked' = IF fnd /\ keeps THEN [leaked EXCEPT ![Root] = @ + 1] ELSE leaked
      BY <2>1, Zenon
    <2> HIDE DEF fnd, okk, keeps
    <2> QED
      BY <2>2, <2>3
  <1>3. /\ LineOK /\ CardOK(card) /\ nodes \in Caches /\ leaked \in [Paths -> Nat] /\ before = card
        /\ \A p \in Paths : nodes[p].refs = AtHome(p) + leaked[p] /\ AtHome(p) \in Nat
    BY <1>1, AtStart
  <1>4. Root \in Paths
    BY TreeAssumption
  <1>5. /\ nodes' \in Caches /\ leaked' \in [Paths -> Nat]
        /\ \A p \in Paths : /\ nodes'[p].refs = AtHome(p) + leaked'[p]
                            /\ nodes[p].refs > 0 => nodes'[p].type = nodes[p].type
    <2>1. CASE found /\ keeps
      <3>1. nodes' = Hold(nodes, Root) /\ leaked' = [leaked EXCEPT ![Root] = @ + 1]
        BY <1>2, <2>1
      <3>2. /\ nodes' \in Caches
            /\ \A p \in Paths : /\ nodes'[p].refs = nodes[p].refs + Is(Root, p)
                                /\ nodes[p].refs > 0 => nodes'[p].type = nodes[p].type
        BY <1>3, <1>4, <3>1, HoldIs
      <3>3. leaked' \in [Paths -> Nat] /\ \A p \in Paths : leaked'[p] = leaked[p] + Is(Root, p) /\ leaked[p] \in Nat
        BY <1>3, <1>4, <3>1 DEF Is
      <3>4. \A p \in Paths : Is(Root, p) \in Nat
        BY DEF Is
      <3> QED
        BY <1>3, <3>2, <3>3, <3>4
    <2>2. CASE ~(found /\ keeps)
      <3>1. nodes' = nodes /\ leaked' = leaked
        BY <1>2, <2>2
      <3> QED
        BY <1>3, <3>1
    <2> QED
      BY <2>1, <2>2
  <1>6. run' = [run EXCEPT !.at = "told", !.ok = ok, !.to = run.to] /\ run.to \in Seq(Names) \cup {NULL}
    BY <1>2, <1>3 DEF Told, LineOK
  <1>7. CardOK(card)' /\ Done'
    BY <1>1, <1>2, <1>3, ToldIs DEF Done
  <1>8. QED
    BY <1>1, <1>5, <1>6, <1>7, ReturnsLeaks

(* A window moves from one directory to another. *)
LEMMA AtHomeMoves ==
  ASSUME cwd \in [Windows -> Paths \cup {NULL}], NEW w \in Windows, NEW q \in Paths,
         cwd' = [cwd EXCEPT ![w] = q], NEW p \in Paths
  PROVE  AtHome(p)' = (AtHome(p) - Is(cwd[w], p)) + Is(q, p) /\ AtHome(p)' \in Nat
  <1> DEFINE A == {v \in Windows : cwd[v] = p}
             B == {v \in Windows : cwd'[v] = p}
  <1>1. IsFiniteSet(A) /\ IsFiniteSet(B)
    BY CommandsAssumption, FS_Subset
  <1>2. B = IF q = p THEN (A \ {w}) \cup {w} ELSE A \ {w}
    OBVIOUS
  <1>3. w \in A <=> cwd[w] = p
    OBVIOUS
  <1>4. AtHome(p) = Cardinality(A) /\ AtHome(p)' = Cardinality(B)
    BY DEF AtHome
  <1> HIDE DEF A, B
  <1>5. Cardinality(A) \in Nat /\ Cardinality(B) \in Nat
    BY <1>1, FS_CardinalityType
  <1>6. Cardinality(A \ {w}) = (IF w \in A THEN Cardinality(A) - 1 ELSE Cardinality(A)) /\ IsFiniteSet(A \ {w})
    BY <1>1, FS_RemoveElement
  <1>7. Cardinality((A \ {w}) \cup {w}) = Cardinality(A \ {w}) + 1
    BY <1>6, FS_AddElement
  <1>8. QED
    BY <1>2, <1>3, <1>4, <1>5, <1>6, <1>7 DEF Is

LEMMA CdOK ==
  ASSUME IInv, cmd_cd
  PROVE  IInv'
  <1>1. /\ run.cmd = "cd" /\ run.at = "start" /\ UNCHANGED <<card, iters, calls, before, leaked>>
    BY DEF cmd_cd, At
  <1>2. /\ LineOK /\ CardOK(card) /\ nodes \in Caches /\ leaked \in [Paths -> Nat] /\ before = card
        /\ \A p \in Paths : nodes[p].refs = AtHome(p) + leaked[p] /\ AtHome(p) \in Nat /\ leaked[p] \in Nat
        /\ cwd \in [Windows -> Paths \cup {NULL}] /\ calls = <<>> /\ iters = 0
        /\ \A w \in Windows : cwd[w] # NULL => nodes[cwd[w]].type = "dir"
    BY <1>1, AtStart
  <1>3. Operand \in Paths /\ run.w \in Windows
    <2>1. run.from \in Seq(Paths) /\ run.from # <<>> /\ run.w \in Windows
      BY <1>1, <1>2 DEF LineOK
    <2>2. Len(run.from) \in Nat /\ Len(run.from) # 0
      BY <2>1, EmptySeq, LenProperties
    <2> QED
      BY <2>1, <2>2, ElementOfSeq DEF Operand
  <1>4. PICK fault \in Faults :
          IF FindsDir(nodes, Operand, fault)
          THEN /\ cwd' = [cwd EXCEPT ![run.w] = Operand]
               /\ nodes' = Release(Hold(nodes, Operand), IF cwd[run.w] = NULL THEN <<>> ELSE <<cwd[run.w]>>)
               /\ Told(TRUE)
          ELSE Told(FALSE) /\ UNCHANGED <<cwd, nodes>>
    BY DEF cmd_cd
  <1>5. CardOK(card)'
    BY <1>1, <1>2
  <1>6. CASE ~FindsDir(nodes, Operand, fault)
    <2>1. Told(FALSE) /\ UNCHANGED <<nodes, iters, cwd, calls, before, leaked>>
      BY <1>1, <1>4, <1>6
    <2> QED
      BY <1>1, <1>5, <2>1, ReturnsAtStart
  <1>7. CASE FindsDir(nodes, Operand, fault)
    <2> DEFINE old == cwd[run.w]
               ps == IF old = NULL THEN <<>> ELSE <<old>>
               ns == Hold(nodes, Operand)
    <2>1. cwd' = [cwd EXCEPT ![run.w] = Operand] /\ nodes' = Release(ns, ps) /\ Told(TRUE)
      BY <1>4, <1>7
    <2>2. /\ ns \in Caches /\ \A p \in Paths : ns[p].refs = nodes[p].refs + Is(Operand, p)
          /\ \A p \in Paths : p # Operand \/ nodes[p].refs > 0 => ns[p].type = nodes[p].type
      BY <1>2, <1>3, HoldIs
    <2>3. ns[Operand].type = "dir"
      BY <1>7 DEF FindsDir, IsDir
    <2>4. \A p \in Paths : Times(ps, p) = Is(old, p)
      <3>1. CASE old = NULL
        BY <3>1, TimesEmpty, CommandsAssumption DEF Is
      <3>2. CASE old # NULL
        <4>1. old \in Paths
          BY <1>2, <1>3, <3>2
        <4>2. ps = <<old>>
          BY <3>2
        <4> QED
          BY <4>1, <4>2, TimesOne
      <3> QED
        BY <3>1, <3>2
    <2>5. \A p \in Paths : (old = p => AtHome(p) > 0) /\ AtHome(p) \in Nat
      BY <1>3, AtHomeCounts
    <2> HIDE DEF ps, ns
    <2>6. \A p \in Paths : AtHome(p)' = (AtHome(p) - Is(old, p)) + Is(Operand, p) /\ AtHome(p)' \in Nat
      BY <1>2, <1>3, <2>1, AtHomeMoves
    <2>7. \A p \in Paths : Is(old, p) \in Nat /\ Is(Operand, p) \in Nat /\ Is(old, p) <= AtHome(p)
      BY <2>5 DEF Is
    <2>8. \A p \in Paths : Times(ps, p) \in Nat /\ Times(ps, p) <= ns[p].refs
      BY <1>2, <2>2, <2>4, <2>5, <2>7
    <2>9. /\ nodes' \in Caches
          /\ \A p \in Paths : /\ nodes'[p].refs = ns[p].refs - Times(ps, p)
                              /\ nodes'[p].refs > 0 => nodes'[p].type = ns[p].type
      BY <2>1, <2>2, <2>8, ReleaseGives
    <2>10. ASSUME NEW p \in Paths PROVE nodes'[p].refs = AtHome(p)' + leaked'[p]
      <3>1. nodes'[p].refs = ((AtHome(p) + leaked[p]) + Is(Operand, p)) - Is(old, p)
        BY <1>2, <2>2, <2>4, <2>9
      <3>2. AtHome(p)' = (AtHome(p) - Is(old, p)) + Is(Operand, p) /\ leaked'[p] = leaked[p]
        BY <1>1, <2>6
      <3>3. AtHome(p) \in Nat /\ leaked[p] \in Nat /\ Is(old, p) \in Nat /\ Is(Operand, p) \in Nat
        BY <1>2, <2>7
      <3> QED
        BY <3>1, <3>2, <3>3
    <2>11. cwd' \in [Windows -> Paths \cup {NULL}]
      BY <1>2, <1>3, <2>1
    <2>12. ASSUME NEW w \in Windows, cwd'[w] # NULL PROVE nodes'[cwd'[w]].type = "dir"
      <3>1. PICK p \in Paths : p = cwd'[w]
        BY <2>11, <2>12
      <3>2. AtHome(p)' > 0
        BY <3>1, AtHomeCountsNext
      <3>3. p = Operand \/ (p = cwd[w] /\ cwd[w] # NULL)
        BY <1>2, <2>1, <2>12, <3>1
      <3>4. nodes'[p].refs > 0
        <4>1. leaked'[p] \in Nat /\ AtHome(p)' \in Nat
          BY <1>1, <1>2, <2>6, <3>1
        <4> QED
          BY <2>10, <3>1, <3>2, <4>1
      <3>5. nodes'[p].type = ns[p].type
        BY <2>9, <3>1, <3>4
      <3>6. CASE p = Operand
        BY <2>3, <3>1, <3>5, <3>6
      <3>7. CASE p # Operand
        <4>1. nodes[p].type = "dir"
          BY <1>2, <3>3, <3>7
        <4> QED
          BY <2>2, <3>1, <3>5, <3>7, <4>1
      <3> QED
        BY <3>6, <3>7
    <2>13. Done'
      BY <1>1, <1>2, <2>1, ToldIs DEF Done
    <2>14. run' = [run EXCEPT !.at = "told", !.ok = TRUE, !.to = run.to] /\ run.to \in Seq(Names) \cup {NULL}
      BY <1>2, <2>1 DEF Told, LineOK
    <2>15. calls' = <<>> /\ iters' = 0 /\ before' = before /\ leaked' \in [Paths -> Nat] /\ run.at # "prompt"
      BY <1>1, <1>2
    <2> QED
      BY <1>1, <1>5, <2>9, <2>10, <2>11, <2>12, <2>13, <2>14, <2>15, Returns
  <1>8. QED
    BY <1>6, <1>7

(* What sd_dir_create makes. *)
Makes(made, ns, p, kind) ==
  /\ CardOK(made.card) /\ made.ok \in BOOLEAN /\ made.nodes \in Caches
  /\ \A q \in Paths : made.nodes[q].refs = ns[q].refs + (IF made.ok THEN Is(p, q) ELSE 0)
  /\ \A q \in Paths : ns[q].refs > 0 => made.nodes[q].type = ns[q].type
  /\ Kind(p) # "none" => made.card[p].kind = Kind(p)
  /\ \A q \in Paths : q # p => made.card[q] = card[q]
  /\ made.ok => made.card[p].kind # "none"
  /\ made.ok /\ Kind(p) = "none" => made.card[p] = New(kind)
  /\ made.ok /\ ns[p].refs = 0 => made.nodes[p].type = made.card[p].kind

LEMMA CreateIs ==
  ASSUME CardOK(card), NEW ns \in Caches, NEW p \in Paths, NEW kind \in {"dir", "file"},
         NEW existsFault \in BOOLEAN, NEW fault \in BOOLEAN
  PROVE  Makes(sd_dir_create(ns, p, kind, existsFault, fault), ns, p, kind)
  <1> DEFINE made == sd_dir_create(ns, p, kind, existsFault, fault)
             shown == Kind(p) # "none" /\ ~existsFault
  <1> SUFFICES Makes(made, ns, p, kind)
    OBVIOUS
  <1>1. \A q \in Paths : ns[q].refs \in Nat
    BY DEF Caches
  <1>2. card \in [Paths -> [kind : {"none", "dir", "file"}, text : Seq(Letters)]]
    BY DEF CardOK
  <1>3. CASE shown
    <2> DEFINE found == vfs_resolve(ns, p, fault)
    <2>1. found \in BOOLEAN
      BY DEF vfs_resolve
    <2>2. made = [card |-> card, ok |-> found, nodes |-> IF found THEN Hold(ns, p) ELSE ns]
      BY <1>3 DEF sd_dir_create
    <2> HIDE DEF found, made
    <2>3. made.card = card /\ made.ok = found /\ made.nodes = IF found THEN Hold(ns, p) ELSE ns
      BY <2>2
    <2>4. CASE found
      <3>1. /\ made.nodes \in Caches /\ \A q \in Paths : made.nodes[q].refs = ns[q].refs + Is(p, q)
            /\ \A q \in Paths : ns[q].refs > 0 => made.nodes[q].type = ns[q].type
            /\ ns[p].refs = 0 => made.nodes[p].type = Kind(p)
        BY <2>3, <2>4, HoldIs
      <3> QED
        BY <1>3, <2>3, <2>4, <3>1 DEF Makes, Kind
    <2>5. CASE ~found
      BY <1>1, <1>3, <2>1, <2>3, <2>5 DEF Makes, Kind
    <2> QED
      BY <2>4, <2>5
  <1>4. CASE ~shown /\ (fault \/ ~MakesAgain(p, kind))
    <2>1. made = [card |-> card, ok |-> FALSE, nodes |-> ns]
      BY <1>4 DEF sd_dir_create
    <2> HIDE DEF made
    <2>2. made.card = card /\ made.ok = FALSE /\ made.nodes = ns
      BY <2>1
    <2>3. \A q \in Paths : made.nodes[q].refs = ns[q].refs + (IF made.ok THEN Is(p, q) ELSE 0)
      BY <1>1, <2>2
    <2>4. CardOK(made.card) /\ made.nodes \in Caches /\ made.ok \in BOOLEAN
      BY <2>2
    <2> QED
      BY <1>4, <2>2, <2>3, <2>4 DEF Makes, Kind
  <1>5. CASE ~shown /\ ~fault /\ MakesAgain(p, kind)
    <2> DEFINE room == HasRoom(ns)
               new == [card EXCEPT ![p] = New(kind)]
    <2>1. room \in BOOLEAN
      BY DEF HasRoom
    <2>2. made = [card |-> new, ok |-> room, nodes |-> IF room THEN HoldAs(ns, p, kind) ELSE ns]
      BY <1>5 DEF sd_dir_create
    <2>3. CardOK(new) /\ New(kind).kind = kind
      BY <1>5, CreateKeeps
    <2>4. new[p] = New(kind) /\ \A q \in Paths : q # p => new[q] = card[q]
      BY <1>2
    <2>5. kind \in Types
      BY DEF Types
    <2>9. Kind(p) # "none" => kind = Kind(p)
      BY <1>5 DEF MakesAgain
    <2> HIDE DEF room, made
    <2>6. made.card = new /\ made.ok = room /\ made.nodes = IF room THEN HoldAs(ns, p, kind) ELSE ns
      BY <2>2
    <2>7. CASE room
      <3>1. /\ made.nodes \in Caches /\ \A q \in Paths : made.nodes[q].refs = ns[q].refs + Is(p, q)
            /\ \A q \in Paths : ns[q].refs > 0 => made.nodes[q].type = ns[q].type
            /\ ns[p].refs = 0 => made.nodes[p].type = kind
        BY <2>5, <2>6, <2>7, HoldTakes
      <3> QED
        BY <1>5, <2>3, <2>4, <2>6, <2>7, <2>9, <3>1 DEF Makes
    <2>8. CASE ~room
      BY <1>1, <1>5, <2>1, <2>3, <2>4, <2>6, <2>8, <2>9 DEF Makes
    <2> QED
      BY <2>7, <2>8
  <1>6. QED
    BY <1>3, <1>4, <1>5

(* A file that is there is lost only when SD.exists does not show it, and then to
   an empty one. *)
LEMMA CreateLoses ==
  ASSUME CardOK(card), NEW ns, NEW existsFault, NEW fault, NEW p \in Paths, NEW kind \in {"dir", "file"},
         NEW q \in Paths, Kind(q) = "file",
         sd_dir_create(ns, p, kind, existsFault, fault).card[q] # card[q]
  PROVE  /\ q = p /\ kind = "file" /\ existsFault
         /\ sd_dir_create(ns, p, kind, existsFault, fault).card[q] = File(<<>>)
  <1> DEFINE made == sd_dir_create(ns, p, kind, existsFault, fault)
             new == [card EXCEPT ![p] = New(kind)]
  <1>1. made.card = card \/ (made.card = new /\ MakesAgain(p, kind) /\ (Kind(p) = "none" \/ existsFault))
    BY DEF sd_dir_create
  <1>2. made.card = new /\ MakesAgain(p, kind) /\ (Kind(p) = "none" \/ existsFault)
    BY <1>1
  <1> HIDE DEF made
  <1>3. new[p] = New(kind) /\ \A r \in Paths : r # p => new[r] = card[r]
    BY DEF CardOK
  <1>4. q = p
    BY <1>2, <1>3 DEF made
  <1>5. kind = "file" /\ existsFault
    BY <1>2, <1>4 DEF MakesAgain
  <1>6. QED
    BY <1>2, <1>3, <1>4, <1>5 DEF made, New

LEMMA TouchOK ==
  ASSUME IInv, cmd_touch
  PROVE  IInv'
  <1> DEFINE dir == Front(Operand)
             held == Hold(nodes, dir)
             Make(existsFault, fault) == sd_dir_create(held, Operand, "file", existsFault, fault)
             given(existsFault, fault) == IF Make(existsFault, fault).ok
                                         THEN vfs_node_release(Make(existsFault, fault).nodes, Operand)
                                         ELSE Make(existsFault, fault).nodes
  <1>1. run.cmd = "touch" /\ run.at = "start" /\ UNCHANGED <<iters, cwd, calls, before>>
    BY DEF cmd_touch, At
  <1>2. PICK lookFault \in Faults, dirFault \in Faults, existsFault \in Faults, fault \in Faults, nameAlone \in {FALSE, LeaksRoot} :
          /\ ~vfs_resolve(nodes, Operand, lookFault)
          /\ \/ /\ ~FindsDir(nodes, dir, dirFault)
                /\ Told(FALSE) /\ UNCHANGED <<card, nodes, leaked>>
             \/ /\ FindsDir(nodes, dir, dirFault)
                /\ card' = Make(existsFault, fault).card /\ Told(Make(existsFault, fault).ok)
                /\ nodes' = IF nameAlone THEN given(existsFault, fault) ELSE vfs_node_release(given(existsFault, fault), dir)
                /\ leaked' = IF nameAlone THEN [leaked EXCEPT ![Root] = @ + 1] ELSE leaked
    BY Zenon DEF cmd_touch
  <1>3. /\ LineOK /\ CardOK(card) /\ nodes \in Caches /\ leaked \in [Paths -> Nat] /\ before = card
        /\ \A p \in Paths : nodes[p].refs = AtHome(p) + leaked[p] /\ AtHome(p) \in Nat /\ leaked[p] \in Nat
    BY <1>1, AtStart
  <1>4. Operand \in Paths /\ dir \in Paths /\ Operand # Root /\ Root \in Paths
    BY <1>1, <1>3, OperandIs, TreeAssumption
  <1>5. nameAlone => dir = Root
    <2>1. nameAlone => Len(Operand) = 1
      BY DEF LeaksRoot
    <2>2. Len(dir) = Len(Operand) - 1
      BY <1>4, PathsAreSequences DEF Entries
    <2>3. dir # Root => Len(dir) > 0
      BY <1>4, PathsAreSequences
    <2> QED
      BY <2>1, <2>2, <2>3
  <1>6. CASE Told(FALSE) /\ UNCHANGED <<card, nodes, leaked>>
    BY <1>1, <1>3, <1>6, ReturnsAtStart
  <1>7. CASE /\ card' = Make(existsFault, fault).card /\ Told(Make(existsFault, fault).ok)
             /\ nodes' = IF nameAlone THEN given(existsFault, fault) ELSE vfs_node_release(given(existsFault, fault), dir)
             /\ leaked' = IF nameAlone THEN [leaked EXCEPT ![Root] = @ + 1] ELSE leaked
    <2> DEFINE made == Make(existsFault, fault)
               ns == given(existsFault, fault)
    <2>1. /\ held \in Caches /\ \A q \in Paths : held[q].refs = nodes[q].refs + Is(dir, q)
          /\ \A q \in Paths : nodes[q].refs > 0 => held[q].type = nodes[q].type
      BY <1>3, <1>4, HoldIs
    <2> HIDE DEF held
    <2>2. Makes(made, held, Operand, "file")
      <3>1. existsFault \in BOOLEAN /\ fault \in BOOLEAN /\ "file" \in {"dir", "file"}
        BY FaultIs
      <3> QED
        BY <1>3, <1>4, <2>1, <3>1, CreateIs
    <2> HIDE DEF made, Make
    <2>3. /\ CardOK(made.card) /\ made.ok \in BOOLEAN /\ made.nodes \in Caches
          /\ \A q \in Paths : made.nodes[q].refs = held[q].refs + (IF made.ok THEN Is(Operand, q) ELSE 0)
          /\ \A q \in Paths : held[q].refs > 0 => made.nodes[q].type = held[q].type
          /\ made.ok => made.card[Operand].kind # "none"
      BY <2>2 DEF Makes
    <2>4. \A p, q \in Paths : Is(p, q) \in Nat /\ Is(p, p) = 1
      BY DEF Is
    <2>5. \A q \in Paths : nodes[q].refs \in Nat /\ held[q].refs \in Nat
      BY <1>3, <2>1 DEF Caches
    <2>6. /\ ns \in Caches /\ \A q \in Paths : ns[q].refs = held[q].refs
          /\ \A q \in Paths : held[q].refs > 0 => ns[q].type = held[q].type
      <3>1. CASE made.ok
        <4>1. ns = vfs_node_release(made.nodes, Operand)
          BY <3>1 DEF made
        <4>2. made.nodes[Operand].refs > 0
          BY <1>4, <2>3, <2>4, <2>5, <3>1
        <4>3. /\ ns \in Caches
              /\ \A q \in Paths : /\ ns[q].refs = made.nodes[q].refs - Is(Operand, q)
                                  /\ ns[q].refs > 0 => ns[q].type = made.nodes[q].type
          BY <1>4, <2>3, <4>1, <4>2, OneGiven
        <4> HIDE DEF ns
        <4>4. \A q \in Paths : ns[q].refs = held[q].refs
          BY <1>4, <2>3, <2>4, <2>5, <3>1, <4>3
        <4> QED
          BY <2>3, <4>3, <4>4
      <3>2. CASE ~made.ok
        <4>1. ns = made.nodes
          BY <3>2 DEF made
        <4> HIDE DEF ns
        <4> QED
          BY <2>3, <2>5, <3>2, <4>1
      <3> QED
        BY <3>1, <3>2
    <2>7. /\ card' = made.card /\ Told(made.ok)
          /\ nodes' = IF nameAlone THEN ns ELSE vfs_node_release(ns, dir)
          /\ leaked' = IF nameAlone THEN [leaked EXCEPT ![Root] = @ + 1] ELSE leaked
      BY <1>7 DEF made
    <2> HIDE DEF ns
    <2>8. /\ nodes' \in Caches /\ leaked' \in [Paths -> Nat]
          /\ \A p \in Paths : /\ nodes'[p].refs = AtHome(p) + leaked'[p]
                              /\ nodes[p].refs > 0 => nodes'[p].type = nodes[p].type
      <3>1. CASE nameAlone
        <4>1. nodes' = ns /\ leaked' = [leaked EXCEPT ![Root] = @ + 1] /\ dir = Root
          BY <1>5, <2>7, <3>1
        <4>2. leaked' \in [Paths -> Nat] /\ \A p \in Paths : leaked'[p] = leaked[p] + Is(Root, p)
          BY <1>3, <1>4, <4>1 DEF Is
        <4>3. \A p \in Paths : nodes'[p].refs = AtHome(p) + leaked'[p]
          BY <1>3, <1>4, <2>1, <2>4, <2>6, <4>1, <4>2
        <4>4. \A p \in Paths : nodes[p].refs > 0 => held[p].refs > 0
          BY <1>4, <2>1, <2>4, <2>5
        <4> QED
          BY <2>1, <2>6, <4>1, <4>2, <4>3, <4>4
      <3>2. CASE ~nameAlone
        <4>1. nodes' = vfs_node_release(ns, dir) /\ leaked' = leaked
          BY <2>7, <3>2
        <4>2. ns[dir].refs > 0
          BY <1>4, <2>1, <2>4, <2>5, <2>6
        <4>3. /\ nodes' \in Caches
              /\ \A q \in Paths : /\ nodes'[q].refs = ns[q].refs - Is(dir, q)
                                  /\ nodes'[q].refs > 0 => nodes'[q].type = ns[q].type
          BY <1>4, <2>6, <4>1, <4>2, OneGiven
        <4>4. ASSUME NEW q \in Paths PROVE nodes'[q].refs = nodes[q].refs
          <5>1. nodes'[q].refs = (nodes[q].refs + Is(dir, q)) - Is(dir, q)
            BY <2>1, <2>6, <4>3
          <5>2. nodes[q].refs \in Nat /\ Is(dir, q) \in Nat
            BY <1>4, <2>4, <2>5
          <5> QED
            BY <5>1, <5>2
        <4>5. \A p \in Paths : nodes[p].refs > 0 => held[p].refs > 0
          BY <1>4, <2>1, <2>4, <2>5
        <4> QED
          BY <1>3, <2>1, <2>6, <4>1, <4>3, <4>4, <4>5
      <3> QED
        BY <3>1, <3>2
    <2>9. made.ok => Done'
      <3>1. run'.cmd = "touch" /\ Operand' = Operand
        BY <1>1, <1>3, <2>7, ToldIs
      <3> QED
        BY <2>3, <2>7, <3>1 DEF Done, SeemsThere, Kind
    <2>10. run' = [run EXCEPT !.at = "told", !.ok = made.ok, !.to = run.to] /\ run.to \in Seq(Names) \cup {NULL}
      BY <1>3, <2>7 DEF Told, LineOK
    <2>11. CardOK(card)'
      BY <2>3, <2>7
    <2> QED
      BY <1>1, <2>3, <2>8, <2>9, <2>10, <2>11, ReturnsLeaks
  <1>8. QED
    BY <1>2, <1>6, <1>7

-----------------------------------------------------------------------------
(* A command that takes several steps goes on. *)
LEMMA Continues ==
  ASSUME IInv, run.at # "prompt",
         NEW at \in Working, NEW to \in Seq(Names) \cup {NULL}, NEW copied \in Nat,
         run' = [run EXCEPT !.at = at, !.to = to, !.copied = copied],
         at \in {"entry", "contents"} => run.cmd = "rm", at = "walk" => run.cmd = "mkdir",
         at \in {"replace", "rename"} => run.cmd = "mv", at \in {"truncate", "open", "copy"} => run.cmd = "cat",
         run.cmd = "mv" => to \in Seq(Names), run.cmd = "cat" => to = run.to,
         UNCHANGED <<before, cwd, leaked>>, CardOK(card)', nodes' \in Caches,
         \A p \in Paths : /\ nodes'[p].refs = AtHome(p) + leaked[p] + Times(Holding', p)
                          /\ Times(Holding', p) \in Nat
                          /\ nodes[p].refs > 0 /\ nodes'[p].refs > 0 => nodes'[p].type = nodes[p].type,
         CallsOK', AwayOK'
  PROVE  IInv'
  <1>1. /\ run'.cmd = run.cmd /\ run'.at = at /\ run'.w = run.w /\ run'.from = run.from /\ run'.to = to
        /\ run'.flags = run.flags /\ run'.copied = copied /\ run'.ok = run.ok
    BY DEF IInv, LineOK
  <1>2. at \notin {"prompt", "start", "told"}
    BY DEF Working
  <1>3. LineOK'
    BY <1>1, <1>2 DEF IInv, LineOK, Operand
  <1>4. NodesOK'
    <2>1. leaked' \in [Paths -> Nat] /\ cwd' \in [Windows -> Paths \cup {NULL}] /\ leaked' = leaked /\ cwd' = cwd
      BY DEF IInv, NodesOK
    <2>2. \A p \in Paths : AtHome(p)' = AtHome(p)
      BY DEF AtHome
    <2>3. ASSUME NEW w \in Windows, cwd'[w] # NULL PROVE nodes'[cwd'[w]].type = "dir"
      <3> DEFINE p == cwd[w]
      <3>1. p \in Paths /\ nodes[p].type = "dir"
        BY <2>1, <2>3 DEF IInv, NodesOK
      <3>2. AtHome(p) > 0 /\ AtHome(p) \in Nat /\ leaked[p] \in Nat /\ nodes[p].refs > 0
        BY <3>1, HoldsEnough
      <3> HIDE DEF p
      <3>3. nodes'[p].refs > 0
        BY <3>1, <3>2
      <3>4. nodes'[p].type = "dir"
        BY <3>1, <3>2, <3>3
      <3> QED
        BY <2>1, <3>4 DEF p
    <2>4. \A p \in Paths : nodes'[p].refs = AtHome(p)' + leaked'[p] + Times(Holding', p)
      BY <2>1, <2>2
    <2> QED
      BY <2>1, <2>3, <2>4 DEF NodesOK
  <1>5. ToldIsDone'
    BY <1>1, <1>2 DEF ToldIsDone
  <1>6. QED
    BY <1>3, <1>4, <1>5 DEF IInv

(* Only rm has calls. *)
LEMMA NoCalls ==
  ASSUME IInv, run.at \notin {"entry", "contents"}, run'.at \notin {"entry", "contents"}, UNCHANGED <<calls, iters>>
  PROVE  CallsOK' /\ calls' = <<>> /\ iters' = 0
  <1>1. calls = <<>> /\ iters = 0
    BY NothingCalled DEF IInv, CallsOK
  <1>2. QED
    BY <1>1, NothingCalled DEF CallsOK

-----------------------------------------------------------------------------
(* mkdir. *)
LEMMA MkdirOK ==
  ASSUME IInv, cmd_mkdir
  PROVE  IInv'
  <1>1. run.cmd = "mkdir" /\ run.at = "start" /\ UNCHANGED <<card, iters, cwd, calls, before, leaked>>
    BY DEF cmd_mkdir, At, SameRest
  <1>2. PICK base \in {Root, cwd[run.w]} \ {NULL}, fault \in Faults :
          /\ IsStrictPrefix(base, Operand)
          /\ \/ /\ vfs_resolve(nodes, base, fault)
                /\ nodes' = Hold(nodes, base)
                /\ run' = [run EXCEPT !.at = "walk", !.to = base]
             \/ /\ ~vfs_resolve(nodes, base, fault)
                /\ Told(FALSE) /\ UNCHANGED nodes
    BY DEF cmd_mkdir
  <1>3. /\ LineOK /\ CardOK(card) /\ nodes \in Caches /\ before = card /\ run.w \in Windows
        /\ \A p \in Paths : nodes[p].refs = AtHome(p) + leaked[p] /\ AtHome(p) \in Nat
        /\ cwd \in [Windows -> Paths \cup {NULL}] /\ leaked \in [Paths -> Nat]
    BY <1>1, AtStart DEF LineOK
  <1>4. base \in Paths /\ base \in Seq(Names)
    <2>1. base \in Paths
      BY <1>2, <1>3, TreeAssumption
    <2> QED
      BY <2>1, PathsAreSequences
  <1>5. CASE Told(FALSE) /\ UNCHANGED nodes
    BY <1>1, <1>3, <1>5, ReturnsAtStart
  <1>6. CASE nodes' = Hold(nodes, base) /\ run' = [run EXCEPT !.at = "walk", !.to = base]
    <2>1. run' = [run EXCEPT !.at = "walk", !.to = base, !.copied = run.copied] /\ run.copied \in Nat
      BY <1>3, <1>6 DEF LineOK
    <2>2. run'.at = "walk" /\ run'.to = base /\ run'.from = run.from
      BY <1>3, <1>6 DEF LineOK
    <2>3. Holding' = <<base>>
      BY <2>2 DEF Holding
    <2>4. /\ nodes' \in Caches /\ \A q \in Paths : nodes'[q].refs = nodes[q].refs + Is(base, q)
          /\ \A q \in Paths : nodes[q].refs > 0 => nodes'[q].type = nodes[q].type
      BY <1>3, <1>4, <1>6, HoldIs
    <2>5. \A q \in Paths : Times(Holding', q) = Is(base, q) /\ Is(base, q) \in Nat
      BY <1>4, <2>3, TimesOne DEF Is
    <2>6. CallsOK'
      BY <1>1, <2>2, NoCalls
    <2>7. AwayOK'
      BY <1>1, <1>2, <1>3, <1>4, <2>2 DEF AwayOK, Operand
    <2>8. "walk" \in Working /\ UNCHANGED <<before, cwd, leaked>> /\ CardOK(card)'
      BY <1>1, <1>3 DEF Working
    <2>9. ASSUME NEW p \in Paths
          PROVE  /\ nodes'[p].refs = AtHome(p) + leaked[p] + Times(Holding', p)
                 /\ Times(Holding', p) \in Nat
                 /\ nodes[p].refs > 0 /\ nodes'[p].refs > 0 => nodes'[p].type = nodes[p].type
      BY <1>3, <2>4, <2>5
    <2> QED
      BY <1>1, <1>4, <2>1, <2>4, <2>6, <2>7, <2>8, <2>9, Continues
  <1>7. QED
    BY <1>2, <1>5, <1>6

(* The next directory on the way down to the operand. *)
LEMMA NextIs ==
  ASSUME IInv, run.at = "walk", NEW next, next = SubSeq(Operand, 1, Len(run.to) + 1)
  PROVE  /\ run.to \in Paths /\ Operand \in Paths /\ next \in Paths /\ next # run.to
         /\ IsPrefix(next, Operand)
  <1>1. run.to \in Paths /\ IsStrictPrefix(run.to, Operand) /\ Operand \in Paths
    BY OperandIs DEF IInv, LineOK, AwayOK
  <1>2. Len(run.to) <= Len(Operand) /\ \A i \in 1..Len(run.to) : run.to[i] = Operand[i]
    BY <1>1, PathPrefix DEF IsStrictPrefix
  <1>3. Len(run.to) \in Nat /\ Len(Operand) \in Nat /\ run.to \in Seq(Names) /\ Operand \in Seq(Names)
    BY <1>1, PathsAreSequences
  <1>4. Len(run.to) # Len(Operand)
    BY <1>1, <1>2, <1>3, SeqEqual DEF IsStrictPrefix
  <1>5. Len(run.to) + 1 \in 0..Len(Operand)
    BY <1>2, <1>3, <1>4
  <1>6. next \in Paths /\ Len(next) = Len(run.to) + 1 /\ \A i \in 1..Len(next) : next[i] = Operand[i]
    BY <1>1, <1>5, PathUpTo
  <1>7. IsPrefix(next, Operand)
    <2>1. Len(next) <= Len(Operand)
      BY <1>3, <1>5, <1>6
    <2> QED
      BY <1>1, <1>6, <2>1, PathPrefix
  <1>8. QED
    BY <1>1, <1>3, <1>6, <1>7

(* It is not entered: the walk ends. *)
LEMMA TurnsOK ==
  ASSUME IInv, At("mkdir", "walk"), Turns, SameRest, CardOK(card)'
  PROVE  IInv'
  <1>1. /\ run.at = "walk" /\ run.to \in Paths /\ nodes \in Caches
        /\ UNCHANGED <<iters, cwd, calls, before, leaked>> /\ nodes' = vfs_node_release(nodes, run.to) /\ Told(FALSE)
    BY DEF At, SameRest, Turns, IInv, AwayOK, NodesOK
  <1>2. \A q \in Paths : /\ nodes[q].refs = AtHome(q) + leaked[q] + Is(run.to, q) /\ Is(run.to, q) \in Nat
                         /\ AtHome(q) \in Nat /\ leaked[q] \in Nat
    BY <1>1, HoldsOne, AtHomeCounts DEF IInv, NodesOK, Is
  <1>3. nodes[run.to].refs > 0
    BY <1>1, <1>2 DEF Is
  <1>4. /\ nodes' \in Caches
        /\ \A q \in Paths : /\ nodes'[q].refs = nodes[q].refs - Is(run.to, q)
                            /\ nodes'[q].refs > 0 => nodes'[q].type = nodes[q].type
    BY <1>1, <1>3, OneGiven
  <1>5. ASSUME NEW q \in Paths PROVE nodes'[q].refs = AtHome(q) + leaked[q]
    <2>1. nodes'[q].refs = ((AtHome(q) + leaked[q]) + Is(run.to, q)) - Is(run.to, q)
      BY <1>2, <1>4
    <2> QED
      BY <1>2, <2>1
  <1>6. calls' = <<>> /\ iters' = 0
    <2>1. run'.at = "told"
      BY <1>1, ToldIs DEF IInv
    <2> QED
      BY <1>1, <2>1, NoCalls
  <1>7. QED
    BY <1>1, <1>4, <1>5, <1>6, ReturnsNodes

(* It is entered, and held instead of the one it is in. *)
LEMMA EntersOK ==
  ASSUME IInv, At("mkdir", "walk"), NEW next, next = SubSeq(Operand, 1, Len(run.to) + 1),
         NEW ns \in Caches, \A q \in Paths : ns[q].refs = nodes[q].refs + Is(next, q),
         \A q \in Paths : nodes[q].refs > 0 => ns[q].type = nodes[q].type,
         Enters(ns, next), SameRest, CardOK(card)',
         next # Operand => card'[Operand] = card[Operand],
         next = Operand => card'[next].kind = "dir" \/ nodes[next].refs > 0 \/ before[next].kind = "file"
  PROVE  IInv'
  <1>1. /\ run.cmd = "mkdir" /\ run.at = "walk" /\ UNCHANGED <<iters, cwd, calls, before, leaked>>
        /\ run' = (IF next = Operand THEN [run EXCEPT !.at = "told", !.ok = TRUE, !.to = next]
                   ELSE [run EXCEPT !.to = next])
        /\ nodes' = Release(ns, IF next = Operand THEN <<run.to, next>> ELSE <<run.to>>)
    BY DEF At, SameRest, Enters
  <1>2. /\ run.to \in Paths /\ Operand \in Paths /\ next \in Paths /\ next # run.to /\ next \in Seq(Names)
        /\ IsPrefix(next, Operand)
    BY <1>1, NextIs, PathsAreSequences
  <1>3. LineOK /\ before \in [Paths -> [kind : {"none", "dir", "file"}, text : Seq(Letters)]]
    BY DEF IInv, AwayOK, CardOK
  <1>4. \A q \in Paths : /\ nodes[q].refs = AtHome(q) + leaked[q] + Is(run.to, q)
                         /\ Is(run.to, q) \in Nat /\ Is(next, q) \in Nat /\ nodes[q].refs \in Nat
                         /\ AtHome(q) \in Nat /\ leaked[q] \in Nat /\ Is(q, q) = 1
    BY <1>1, <1>2, HoldsOne, AtHomeCounts DEF IInv, NodesOK, Caches, Is

  <1>6. CASE next = Operand
    <2> DEFINE ps == <<run.to, next>>
    <2>1. nodes' = Release(ns, ps) /\ run' = [run EXCEPT !.at = "told", !.ok = TRUE, !.to = next]
      BY <1>1, <1>6
    <2>2. \A q \in Paths : Times(ps, q) = Is(run.to, q) + Is(next, q)
      BY <1>2, TimesTwo
    <2> HIDE DEF ps
    <2>3. \A q \in Paths : Times(ps, q) \in Nat /\ Times(ps, q) <= ns[q].refs
      BY SMTT(40), <1>4, <2>2
    <2>4. /\ nodes' \in Caches
          /\ \A q \in Paths : /\ nodes'[q].refs = ns[q].refs - Times(ps, q)
                              /\ nodes'[q].refs > 0 => nodes'[q].type = ns[q].type
      BY <2>1, <2>3, ReleaseGives
    <2>5. ASSUME NEW q \in Paths PROVE nodes'[q].refs = AtHome(q) + leaked[q]
      <3>1. nodes'[q].refs = (((AtHome(q) + leaked[q]) + Is(run.to, q)) + Is(next, q)) - (Is(run.to, q) + Is(next, q))
        BY <1>4, <2>2, <2>4
      <3> QED
        BY <1>4, <3>1
    <2>6. /\ run'.at = "told" /\ run'.cmd = "mkdir" /\ Operand' = Operand
      BY <1>1, <1>3, <2>1 DEF LineOK, Operand
    <2>7. calls' = <<>> /\ iters' = 0
      BY <1>1, <2>6, NoCalls
    <2>8. Done'
      <3>1. CASE nodes[next].refs > 0
        <4>1. Is(run.to, next) = 0
          BY <1>2 DEF Is
        <4>2. nodes[next].refs = AtHome(next) + leaked[next] + 0 /\ AtHome(next) \in Nat /\ leaked[next] \in Nat
          BY <1>2, <1>4, <4>1
        <4>3. nodes'[next].refs > 0
          BY <1>2, <2>5, <3>1, <4>2
        <4>4. Cached(nodes, Operand)'
          BY <1>6, <2>6, <4>3 DEF Cached
        <4> QED
          BY <2>6, <4>4 DEF Done
      <3>2. CASE card'[next].kind = "dir"
        BY <1>6, <2>6, <3>2 DEF Done, Kind
      <3>3. CASE before[next].kind = "file"
        BY <1>1, <1>6, <2>6, <3>3 DEF Done
      <3> QED
        BY <1>6, <3>1, <3>2, <3>3
    <2>9. \A w \in Windows : cwd'[w] # NULL => nodes'[cwd'[w]].type = "dir"
      <3> SUFFICES ASSUME NEW w \in Windows, cwd[w] # NULL PROVE nodes'[cwd[w]].type = "dir"
        BY <1>1
      <3>1. PICK p \in Paths : p = cwd[w] /\ nodes[p].type = "dir"
        BY DEF IInv, NodesOK
      <3>2. AtHome(p) > 0
        BY <3>1, AtHomeCounts
      <3>3. nodes'[p].refs > 0 /\ nodes[p].refs > 0
        BY <1>4, <2>5, <3>1, <3>2
      <3> QED
        BY <2>4, <3>1, <3>3
    <2>10. \A q \in Paths : nodes'[q].refs = AtHome(q)' + leaked'[q]
      BY <1>1, <2>5 DEF AtHome
    <2>11. leaked' \in [Paths -> Nat] /\ cwd' \in [Windows -> Paths \cup {NULL}]
      BY <1>1 DEF IInv, NodesOK
    <2> QED
      BY <1>1, <1>2, <2>1, <2>4, <2>7, <2>8, <2>9, <2>10, <2>11, Returns
  <1>7. CASE next # Operand
    <2> DEFINE ps == <<run.to>>
    <2>1. nodes' = Release(ns, ps) /\ run' = [run EXCEPT !.to = next]
      BY <1>1, <1>7
    <2>2. \A q \in Paths : Times(ps, q) = Is(run.to, q)
      BY <1>2, TimesOne
    <2> HIDE DEF ps
    <2>3. \A q \in Paths : Times(ps, q) \in Nat /\ Times(ps, q) <= ns[q].refs
      BY <1>4, <2>2
    <2>4. /\ nodes' \in Caches
          /\ \A q \in Paths : /\ nodes'[q].refs = ns[q].refs - Times(ps, q)
                              /\ nodes'[q].refs > 0 => nodes'[q].type = ns[q].type
      BY <2>1, <2>3, ReleaseGives
    <2>5. /\ run'.at = "walk" /\ run'.to = next /\ run'.from = run.from
          /\ run' = [run EXCEPT !.at = "walk", !.to = next, !.copied = run.copied] /\ run.copied \in Nat
      <3>1. run = [run EXCEPT !.at = "walk", !.copied = run.copied] /\ run.copied \in Nat
        BY ZenonT(40), <1>1, <1>3 DEF LineOK
      <3>2. run'.at = "walk" /\ run'.to = next /\ run'.from = run.from
        BY <1>1, <1>3, <2>1 DEF LineOK
      <3>3. run' = [run EXCEPT !.at = "walk", !.to = next, !.copied = run.copied]
        BY ZenonT(40), <1>1, <1>3, <2>1 DEF LineOK
      <3> QED
        BY <3>1, <3>2, <3>3
    <2>6. Holding' = <<next>>
      BY <2>5 DEF Holding
    <2>7. \A q \in Paths : Times(Holding', q) = Is(next, q)
      BY <1>2, <2>6, TimesOne
    <2>8. ASSUME NEW q \in Paths
          PROVE  /\ nodes'[q].refs = AtHome(q) + leaked[q] + Times(Holding', q) /\ Times(Holding', q) \in Nat
                 /\ nodes[q].refs > 0 /\ nodes'[q].refs > 0 => nodes'[q].type = nodes[q].type
      <3>1. nodes'[q].refs = (((AtHome(q) + leaked[q]) + Is(run.to, q)) + Is(next, q)) - Is(run.to, q)
        BY <1>4, <2>2, <2>4
      <3>2. nodes'[q].refs = AtHome(q) + leaked[q] + Times(Holding', q) /\ Times(Holding', q) \in Nat
        BY <1>4, <2>7, <3>1
      <3> QED
        BY <2>4, <3>2
    <2>9. CallsOK'
      BY <1>1, <2>5, NoCalls
    <2>10. AwayOK'
      <3>1. card'[Operand] = before[Operand] /\ Operand' = Operand
        BY <1>1, <1>7, <2>5 DEF IInv, AwayOK, Operand
      <3>2. IsStrictPrefix(next, Operand)
        BY <1>2, <1>7 DEF IsStrictPrefix
      <3>3. CardOK(before)'
        BY <1>1 DEF IInv, AwayOK
      <3> QED
        BY <1>1, <1>2, <2>5, <3>1, <3>2, <3>3 DEF AwayOK
    <2>11. "walk" \in Working /\ UNCHANGED <<before, cwd, leaked>>
      BY <1>1 DEF Working
    <2>12. next \in Seq(Names) \cup {NULL} /\ run.at # "prompt"
      BY <1>1, <1>2
    <2>13. run.cmd = "mkdir"
      BY <1>1
    <2>14. CardOK(card)'
      OBVIOUS
    <2> QED
      BY <2>4, <2>5, <2>8, <2>9, <2>10, <2>11, <2>12, <2>13, <2>14, Continues
  <1>8. QED
    BY <1>6, <1>7

LEMMA MkdirSingleOK ==
  ASSUME IInv, mkdir_single
  PROVE  IInv'
  <1> DEFINE next == SubSeq(Operand, 1, Len(run.to) + 1)
             held == Hold(nodes, next)
             Make(existsFault, fault) == sd_dir_create(nodes, next, "dir", existsFault, fault)
  <1>1. At("mkdir", "walk") /\ SameRest /\ run.cmd = "mkdir" /\ run.at = "walk"
    BY DEF mkdir_single, At
  <1>2. PICK lookFault \in Faults, existsFault \in Faults, fault \in Faults :
          \/ /\ vfs_resolve(nodes, next, lookFault)
             /\ \/ /\ IsDir(held, next) /\ (next # Operand \/ "p" \in run.flags)
                   /\ Enters(held, next)
                \/ /\ ~IsDir(held, next) \/ (next = Operand /\ "p" \notin run.flags)
                   /\ Turns
             /\ UNCHANGED card
          \/ /\ ~vfs_resolve(nodes, next, lookFault)
             /\ card' = Make(existsFault, fault).card
             /\ IF Make(existsFault, fault).ok THEN Enters(Make(existsFault, fault).nodes, next) ELSE Turns
          \/ Turns /\ UNCHANGED card
    <2>1. \E lookFault, existsFault, fault \in Faults :
           \/ /\ vfs_resolve(nodes, next, lookFault)
              /\ \/ /\ IsDir(held, next) /\ (next # Operand \/ "p" \in run.flags)
                    /\ Enters(held, next)
                 \/ /\ ~IsDir(held, next) \/ (next = Operand /\ "p" \notin run.flags)
                    /\ Turns
              /\ UNCHANGED card
           \/ /\ ~vfs_resolve(nodes, next, lookFault)
              /\ ("p" \in run.flags \/ next = Operand) /\ Last(next) \notin Dotted /\ IsDir(nodes, run.to)
              /\ card' = Make(existsFault, fault).card
              /\ IF Make(existsFault, fault).ok THEN Enters(Make(existsFault, fault).nodes, next) ELSE Turns
           \/ /\ ~vfs_resolve(nodes, next, lookFault)
              /\ ~(("p" \in run.flags \/ next = Operand) /\ Last(next) \notin Dotted) \/ ~IsDir(nodes, run.to)
              /\ Turns /\ UNCHANGED card
      BY Zenon DEF mkdir_single
    <2> HIDE DEF next, held, Make
    <2> QED
      BY <2>1, Zenon
  <1>3. /\ next \in Paths /\ Operand \in Paths /\ nodes \in Caches /\ CardOK(card)
        /\ existsFault \in BOOLEAN /\ fault \in BOOLEAN
        /\ card[Operand] = before[Operand]
    BY <1>1, NextIs, FaultIs DEF IInv, NodesOK, AwayOK
  <1>4. CASE Turns /\ UNCHANGED card
    <2>1. CardOK(card)'
      BY <1>3, <1>4
    <2> QED
      BY <1>1, <1>4, <2>1, TurnsOK
  <1>5. CASE vfs_resolve(nodes, next, lookFault) /\ IsDir(held, next) /\ Enters(held, next) /\ UNCHANGED card
    <2>1. /\ held \in Caches /\ \A q \in Paths : held[q].refs = nodes[q].refs + Is(next, q)
          /\ \A q \in Paths : nodes[q].refs > 0 => held[q].type = nodes[q].type
          /\ nodes[next].refs = 0 => held[next].type = Kind(next)
      BY <1>3, HoldIs
    <2>2. card'[next].kind = "dir" \/ nodes[next].refs > 0
      <3>1. nodes[next].refs \in Nat
        BY <1>3 DEF Caches
      <3> QED
        BY <1>5, <2>1, <3>1 DEF IsDir, Kind
    <2>3. CardOK(card)' /\ card' = card
      BY <1>3, <1>5
    <2>4. Enters(held, next)
      BY <1>5
    <2> HIDE DEF held
    <2> QED
      BY <1>1, <2>1, <2>2, <2>3, <2>4, EntersOK
  <1>6. CASE /\ ~vfs_resolve(nodes, next, lookFault)
             /\ card' = Make(existsFault, fault).card
             /\ IF Make(existsFault, fault).ok THEN Enters(Make(existsFault, fault).nodes, next) ELSE Turns
    <2> DEFINE made == Make(existsFault, fault)
    <2>1. Makes(made, nodes, next, "dir")
      <3>1. "dir" \in {"dir", "file"}
        OBVIOUS
      <3> QED
        BY <1>3, <3>1, CreateIs
    <2>2. card' = made.card /\ IF made.ok THEN Enters(made.nodes, next) ELSE Turns
      BY <1>6
    <2> HIDE DEF made, Make
    <2>3. CardOK(card)'
      BY <2>1, <2>2 DEF Makes
    <2>4. CASE ~made.ok
      BY <1>1, <2>2, <2>3, <2>4, TurnsOK
    <2>5. CASE made.ok
      <3> DEFINE ns == made.nodes
      <3>1. /\ ns \in Caches /\ \A q \in Paths : ns[q].refs = nodes[q].refs + Is(next, q)
            /\ \A q \in Paths : nodes[q].refs > 0 => ns[q].type = nodes[q].type
        BY <2>1, <2>5 DEF Makes
      <3>2. next # Operand => card'[Operand] = card[Operand]
        BY <1>3, <2>1, <2>2 DEF Makes
      <3>3. next = Operand => card'[next].kind = "dir" \/ before[next].kind = "file"
        <4>1. CASE Kind(next) = "none"
          BY <2>1, <2>2, <2>5, <4>1 DEF Makes, New, Directory
        <4>2. CASE Kind(next) # "none"
          <5>1. card'[next].kind = card[next].kind /\ card[next].kind \in {"dir", "file"}
            BY <1>3, <2>1, <2>2, <4>2 DEF Makes, Kind, CardOK
          <5> QED
            BY <1>3, <5>1
        <4> QED
          BY <4>1, <4>2
      <3>4. Enters(ns, next)
        BY <2>2, <2>5
      <3> HIDE DEF ns
      <3> QED
        BY <1>1, <2>3, <3>1, <3>2, <3>3, <3>4, EntersOK
    <2> QED
      BY <2>4, <2>5
  <1>7. QED
    BY <1>2, <1>4, <1>5, <1>6, Zenon

-----------------------------------------------------------------------------
(* rm. *)
Frame == [dir : Entries, left : SUBSET Entries]

LEMMA DirsAre ==
  ASSUME NEW cs \in Seq(Frame)
  PROVE  /\ Dirs(cs) \in Seq(Paths) /\ Len(Dirs(cs)) = Len(cs) /\ Len(cs) \in Nat /\ DOMAIN cs = 1..Len(cs)
         /\ \A i \in 1..Len(cs) : Dirs(cs)[i] = cs[i].dir /\ cs[i] \in Frame /\ cs[i].dir \in Paths
  <1>1. Len(cs) \in Nat /\ DOMAIN cs = 1..Len(cs) /\ \A i \in 1..Len(cs) : cs[i] \in Frame
    BY LenProperties, ElementOfSeq
  <1>2. \A i \in 1..Len(cs) : cs[i].dir \in Paths
    BY <1>1 DEF Frame, Entries
  <1>3. Dirs(cs) = [i \in 1..Len(cs) |-> cs[i].dir]
    BY <1>1 DEF Dirs
  <1>4. QED
    BY <1>1, <1>2, <1>3

LEMMA DirsAppend ==
  ASSUME NEW cs \in Seq(Frame), NEW c \in Frame
  PROVE  Dirs(Append(cs, c)) = Append(Dirs(cs), c.dir) /\ c.dir \in Paths
  <1> DEFINE ds == Append(cs, c)
             es == Append(Dirs(cs), c.dir)
  <1>1. c.dir \in Paths
    BY DEF Frame, Entries
  <1>2. ds \in Seq(Frame) /\ Len(ds) = Len(cs) + 1 /\ (\A i \in 1..Len(cs) : ds[i] = cs[i]) /\ ds[Len(cs) + 1] = c
    BY AppendProperties
  <1>3. /\ es \in Seq(Paths) /\ Len(es) = Len(Dirs(cs)) + 1 /\ es[Len(Dirs(cs)) + 1] = c.dir
        /\ \A i \in 1..Len(Dirs(cs)) : es[i] = Dirs(cs)[i]
    BY <1>1, DirsAre, AppendProperties
  <1> HIDE DEF ds, es
  <1>4. Dirs(ds) \in Seq(Paths) /\ Len(Dirs(ds)) = Len(ds) /\ \A i \in 1..Len(ds) : Dirs(ds)[i] = ds[i].dir
    BY <1>2, DirsAre
  <1>5. Len(es) = Len(Dirs(ds)) /\ Len(Dirs(cs)) = Len(cs) /\ Len(cs) \in Nat
    BY <1>2, <1>3, <1>4, DirsAre
  <1>6. \A i \in 1..Len(Dirs(ds)) : Dirs(ds)[i] = es[i]
    <2> SUFFICES ASSUME NEW i \in 1..Len(Dirs(ds)) PROVE Dirs(ds)[i] = es[i]
      OBVIOUS
    <2>1. CASE i = Len(cs) + 1
      BY <1>2, <1>3, <1>4, <1>5, <2>1
    <2>2. CASE i # Len(cs) + 1
      <3>1. i \in 1..Len(cs)
        BY <1>3, <1>5, <2>2
      <3> QED
        BY <1>2, <1>3, <1>4, <1>5, <3>1, DirsAre
    <2> QED
      BY <2>1, <2>2
  <1>7. Dirs(ds) = es
    BY <1>3, <1>4, <1>5, <1>6, SeqEqual
  <1>8. QED
    BY <1>1, <1>7 DEF ds, es

(* The last call, and the calls it was made from. *)
LEMMA LastCall ==
  ASSUME NEW cs \in Seq(Frame), cs # <<>>
  PROVE  /\ Front(cs) \in Seq(Frame) /\ Last(cs) \in Frame /\ Last(cs) = cs[Len(cs)]
         /\ Len(cs) > 0 /\ Len(Front(cs)) = Len(cs) - 1 /\ (\A i \in 1..(Len(cs) - 1) : Front(cs)[i] = cs[i])
         /\ cs = Append(Front(cs), Last(cs))
  <1>1. Len(cs) \in Nat /\ Len(cs) > 0 /\ \A i \in 1..Len(cs) : cs[i] \in Frame
    BY EmptySeq, LenProperties, ElementOfSeq
  <1>2. \A i \in 1..(Len(cs) - 1) : cs[i] \in Frame
    BY <1>1
  <1>3. 1 \in Int /\ Len(cs) - 1 \in Int
    BY <1>1
  <1>4. /\ SubSeq(cs, 1, Len(cs) - 1) \in Seq(Frame)
        /\ Len(SubSeq(cs, 1, Len(cs) - 1)) = IF 1 <= Len(cs) - 1 THEN (Len(cs) - 1) - 1 + 1 ELSE 0
        /\ \A i \in 1..((Len(cs) - 1) - 1 + 1) : SubSeq(cs, 1, Len(cs) - 1)[i] = cs[1 + i - 1]
    BY <1>2, <1>3, SubSeqProperties
  <1>5. \A i \in 1..(Len(cs) - 1) : 1 + i - 1 = i
    BY <1>1
  <1>6. (Len(cs) - 1) - 1 + 1 = Len(cs) - 1 /\ ((IF 1 <= Len(cs) - 1 THEN (Len(cs) - 1) - 1 + 1 ELSE 0) = Len(cs) - 1)
    <2>1. \A n \in Nat : n - 1 + 1 = n /\ ((IF 1 <= n THEN n - 1 + 1 ELSE 0) = n)
      OBVIOUS
    <2>2. Len(cs) - 1 \in Nat
      BY <1>1
    <2> QED
      BY <2>1, <2>2
  <1> DEFINE fs == Front(cs)
             x == Last(cs)
  <1>7. fs \in Seq(Frame) /\ Len(fs) = Len(cs) - 1 /\ (\A i \in 1..(Len(cs) - 1) : fs[i] = cs[i])
    BY <1>4, <1>5, <1>6 DEF Front
  <1>8. x = cs[Len(cs)] /\ x \in Frame
    BY <1>1 DEF Last
  <1> HIDE DEF fs, x
  <1> DEFINE t == Append(fs, x)
  <1>9. t \in Seq(Frame) /\ Len(t) = Len(fs) + 1 /\ (\A i \in 1..Len(fs) : t[i] = fs[i]) /\ t[Len(fs) + 1] = x
    BY <1>7, <1>8, AppendProperties
  <1> HIDE DEF t
  <1>10. \A i \in 1..Len(cs) : cs[i] = t[i]
    <2> SUFFICES ASSUME NEW i \in 1..Len(cs) PROVE cs[i] = t[i]
      OBVIOUS
    <2>1. CASE i = Len(cs)
      BY <1>1, <1>7, <1>8, <1>9, <2>1
    <2>2. CASE i # Len(cs)
      <3>1. i \in 1..(Len(cs) - 1)
        BY <1>1, <2>2
      <3> QED
        BY <1>7, <1>9, <3>1
    <2> QED
      BY <2>1, <2>2
  <1>11. Len(t) = Len(cs)
    BY <1>1, <1>7, <1>9
  <1>12. cs = t
    BY <1>9, <1>10, <1>11, SeqEqual
  <1>13. QED
    BY <1>1, <1>7, <1>8, <1>12 DEF fs, x, t

(* What the calls are while rm works. *)
LEMMA CallsAre ==
  ASSUME IInv, run.at \in {"entry", "contents"}
  PROVE  /\ calls \in Seq(Frame) /\ iters = Len(calls) /\ Len(calls) \in Nat /\ Len(calls) <= Iterators
         /\ DOMAIN calls = 1..Len(calls)
         /\ run.cmd = "rm" /\ Operand \in Entries /\ Operand \in Paths /\ Front(Operand) \in Paths
         /\ \A p \in Paths : /\ Times(Dirs(calls), p) \in Nat /\ Is(Front(Operand), p) \in Nat
                             /\ AtHome(p) \in Nat /\ leaked[p] \in Nat
                             /\ nodes[p].refs = AtHome(p) + leaked[p] + (Times(Dirs(calls), p) + Is(Front(Operand), p))
  <1>1. run.cmd = "rm" /\ calls \in Seq(Frame) /\ iters = Len(calls) /\ Len(calls) <= Iterators
    BY DEF IInv, LineOK, CallsOK, Frame
  <1>2. Operand \in Entries /\ Operand \in Paths /\ Front(Operand) \in Paths
    BY <1>1, OperandIs DEF IInv
  <1>3. \A p \in Paths : /\ Times(Dirs(calls), p) \in Nat
                         /\ nodes[p].refs = AtHome(p) + leaked[p] + (Times(Dirs(calls), p) + Is(Front(Operand), p))
    BY HoldsDirs DEF IInv
  <1>4. \A p \in Paths : Is(Front(Operand), p) \in Nat /\ AtHome(p) \in Nat /\ leaked[p] \in Nat
    BY AtHomeCounts DEF Is, IInv, NodesOK
  <1>5. QED
    BY <1>1, <1>2, <1>3, <1>4, DirsAre

LEMMA EntryReturnsOK ==
  ASSUME IInv, run.at \in {"entry", "contents"}, NEW ok \in BOOLEAN, NEW ns \in Caches, NEW frames \in Seq(Frame),
         Len(frames) <= Len(calls), \A i \in 1..Len(frames) : frames[i] = calls[i],
         \A p \in Paths : /\ ns[p].refs = AtHome(p) + leaked[p] + (Times(Dirs(frames), p) + Is(Front(Operand), p))
                          /\ nodes[p].refs > 0 /\ ns[p].refs > 0 => ns[p].type = nodes[p].type,
         EntryReturns(ok, ns, frames), UNCHANGED <<cwd, before, leaked>>, CardOK(card)',
         ok /\ frames = <<>> => card'[Operand].kind = "none" \/ "f" \in run.flags
  PROVE  IInv'
  <1>1. /\ calls \in Seq(Frame) /\ iters = Len(calls) /\ Len(calls) \in Nat /\ Len(calls) <= Iterators
        /\ run.cmd = "rm" /\ Operand \in Entries /\ Operand \in Paths /\ Front(Operand) \in Paths
    BY CallsAre
  <1>2. \A p \in Paths : Is(Front(Operand), p) \in Nat /\ AtHome(p) \in Nat /\ leaked[p] \in Nat
    BY CallsAre
  <1> DEFINE held == Append(Dirs(frames), Front(Operand))
  <1>3. \A p \in Paths : Times(Dirs(frames), p) \in Nat /\ Times(held, p) = Times(Dirs(frames), p) + Is(Front(Operand), p)
    <2>1. Dirs(frames) \in Seq(Paths)
      BY DirsAre
    <2> QED
      BY <1>1, <2>1, TimesAppend
  <1>4. [i \in DOMAIN frames |-> frames[i].dir] = Dirs(frames)
    BY DEF Dirs
  <1>5. LineOK /\ Len(frames) \in Nat /\ DOMAIN frames = 1..Len(frames)
    BY DirsAre DEF IInv
  <1>6. CASE ok /\ frames # <<>>
    <2>1. /\ run' = [run EXCEPT !.at = "contents", !.to = NULL]
          /\ nodes' = ns /\ calls' = frames /\ iters' = Len(frames)
      BY <1>6 DEF EntryReturns
    <2>2. run'.at = "contents" /\ run'.from = run.from /\ run'.flags = run.flags /\ Operand' = Operand
      BY <1>5, <2>1 DEF LineOK, Operand
    <2>3. run' = [run EXCEPT !.at = "contents", !.to = NULL, !.copied = run.copied] /\ run.copied \in Nat
      BY <1>5, <2>1 DEF LineOK
    <2>4. Holding' = held
      BY <2>1, <2>2 DEF Holding, Dirs
    <2> HIDE DEF held
    <2>5. ASSUME NEW p \in Paths
          PROVE  /\ nodes'[p].refs = AtHome(p) + leaked[p] + Times(Holding', p) /\ Times(Holding', p) \in Nat
                 /\ nodes[p].refs > 0 /\ nodes'[p].refs > 0 => nodes'[p].type = nodes[p].type
      BY <1>2, <1>3, <2>1, <2>4
    <2>6. CallsOK'
      <3>1. calls' \in Seq([dir : Entries, left : SUBSET Entries]) /\ calls' # <<>>
        BY <1>6, <2>1 DEF Frame
      <3>2. iters' = Len(calls') /\ iters' <= Iterators
        <4>1. Iterators \in Nat
          BY TreeAssumption
        <4> QED
          BY <1>1, <1>5, <2>1, <4>1
      <3>3. \A i \in 1..Len(frames) : i \in 1..Len(calls)
        BY <1>1, <1>5
      <3>4. DOMAIN calls = 1..Len(calls)
        BY CallsAre
      <3>5. calls # <<>> /\ 1 \in 1..Len(frames)
        <4>1. Len(frames) > 0
          BY <1>5, <1>6, EmptySeq
        <4> QED
          BY <1>1, <1>5, <4>1, EmptySeq
      <3>6. "r" \in run.flags /\ calls'[1].dir = Operand
        BY <2>1, <3>5 DEF IInv, CallsOK
      <3>7. \A i \in DOMAIN calls' : /\ IsPrefix(Operand, calls'[i].dir)
                                     /\ \A q \in calls'[i].left : IsPrefix(Operand, q)
        BY <1>5, <2>1, <3>3, <3>4 DEF IInv, CallsOK
      <3> QED
        BY <2>2, <3>1, <3>2, <3>6, <3>7 DEF CallsOK
    <2>7. AwayOK'
      BY <2>2 DEF IInv, AwayOK, CardOK
    <2>8. "contents" \in Working /\ run.at # "prompt" /\ nodes' \in Caches
      BY <2>1 DEF Working
    <2> QED
      BY <1>1, <2>3, <2>5, <2>6, <2>7, <2>8, Continues
  <1>7. CASE ~(ok /\ frames # <<>>)
    <2>1. Told(ok) /\ nodes' = Release(ns, held) /\ calls' = <<>> /\ iters' = iters - Len(calls)
      BY <1>4, <1>7 DEF EntryReturns
    <2> HIDE DEF held
    <2>2. iters' = 0
      BY <1>1, <2>1
    <2>3. \A p \in Paths : ns[p].refs \in Nat
      BY DEF Caches
    <2>4. \A p \in Paths : Times(held, p) \in Nat /\ Times(held, p) <= ns[p].refs
      BY <1>2, <1>3, <2>3
    <2>5. /\ nodes' \in Caches
          /\ \A p \in Paths : /\ nodes'[p].refs = ns[p].refs - Times(held, p)
                              /\ nodes'[p].refs > 0 => nodes'[p].type = ns[p].type
      BY <2>1, <2>4, ReleaseGives
    <2>6. ASSUME NEW p \in Paths
          PROVE  /\ nodes'[p].refs = AtHome(p) + leaked[p]
                 /\ nodes[p].refs > 0 /\ nodes'[p].refs > 0 => nodes'[p].type = nodes[p].type
      <3>1. nodes'[p].refs = (AtHome(p) + leaked[p] + (Times(Dirs(frames), p) + Is(Front(Operand), p)))
                             - (Times(Dirs(frames), p) + Is(Front(Operand), p))
        BY <1>3, <2>5
      <3>2. nodes'[p].refs = AtHome(p) + leaked[p]
        BY <1>2, <1>3, <3>1
      <3>3. nodes'[p].refs > 0 => ns[p].refs > 0
        BY <1>2, <1>3, <3>2
      <3> QED
        BY <2>5, <3>2, <3>3
    <2>7. ok => Done'
      <3>1. run'.cmd = "rm" /\ Operand' = Operand /\ run'.flags = run.flags
        BY <1>1, <1>5, <2>1, ToldIs
      <3> QED
        BY <1>7, <3>1 DEF Done, Kind
    <2>8. run.at # "prompt" /\ before' = before /\ cwd' = cwd /\ leaked' = leaked
      OBVIOUS
    <2> QED
      BY <1>1, <2>1, <2>2, <2>5, <2>6, <2>7, <2>8, ReturnsNodes
  <1>8. QED
    BY <1>6, <1>7

LEMMA RmOK ==
  ASSUME IInv, cmd_rm
  PROVE  IInv'
  <1>1. run.cmd = "rm" /\ run.at = "start" /\ UNCHANGED <<card, iters, cwd, calls, before, leaked>>
    BY DEF cmd_rm, At, SameRest, OnlyLooks
  <1>2. /\ LineOK /\ CardOK(card) /\ nodes \in Caches /\ before = card /\ calls = <<>> /\ iters = 0
        /\ \A p \in Paths : nodes[p].refs = AtHome(p) + leaked[p] /\ AtHome(p) \in Nat
        /\ leaked \in [Paths -> Nat]
    BY <1>1, AtStart
  <1>3. Operand \in Entries /\ Operand \in Paths /\ Front(Operand) \in Paths /\ Operand \in Seq(Names)
    BY <1>1, <1>2, OperandIs, PathsAreSequences
  <1>4. \/ Told(Forced(FALSE)) /\ UNCHANGED nodes
        \/ Told(FALSE) /\ UNCHANGED nodes
        \/ nodes' = Hold(nodes, Front(Operand)) /\ run' = [run EXCEPT !.at = "entry", !.to = Operand]
    BY DEF cmd_rm, OnlyLooks
  <1>5. CASE Told(FALSE) /\ UNCHANGED nodes
    BY <1>1, <1>2, <1>5, ReturnsAtStart
  <1>6. CASE Told(Forced(FALSE)) /\ UNCHANGED nodes
    <2> DEFINE ok == Forced(FALSE)
    <2>1. ok \in BOOLEAN /\ (ok => "f" \in run.flags)
      BY DEF Forced
    <2>2. Told(ok)
      BY <1>6
    <2> HIDE DEF ok
    <2>3. ok => Done'
      BY <1>1, <1>2, <2>1, <2>2, ToldIs DEF Done
    <2> QED
      BY <1>1, <1>2, <1>6, <2>1, <2>2, <2>3, ReturnsAtStart
  <1>7. CASE nodes' = Hold(nodes, Front(Operand)) /\ run' = [run EXCEPT !.at = "entry", !.to = Operand]
    <2>1. run'.at = "entry" /\ run'.to = Operand /\ run'.from = run.from /\ Operand' = Operand
      BY <1>2, <1>7 DEF LineOK, Operand
    <2>2. run' = [run EXCEPT !.at = "entry", !.to = Operand, !.copied = run.copied] /\ run.copied \in Nat
      BY <1>2, <1>7 DEF LineOK
    <2>3. /\ nodes' \in Caches /\ \A q \in Paths : nodes'[q].refs = nodes[q].refs + Is(Front(Operand), q)
          /\ \A q \in Paths : nodes[q].refs > 0 => nodes'[q].type = nodes[q].type
      BY <1>2, <1>3, <1>7, HoldIs
    <2>4. Holding' = <<Front(Operand)>>
      <3>1. Dirs(<<>>) = <<>>
        BY DEF Dirs
      <3>2. Dirs(calls') = <<>>
        BY <1>1, <1>2, <3>1
      <3>3. Holding' = Append(Dirs(calls'), Front(Operand'))
        BY <2>1 DEF Holding, Dirs, Operand
      <3> QED
        BY <2>1, <3>2, <3>3
    <2>5. \A q \in Paths : Times(Holding', q) = Is(Front(Operand), q) /\ Is(Front(Operand), q) \in Nat
      BY <1>3, <2>4, TimesOne DEF Is
    <2>6. CallsOK'
      <3>1. IsPrefix(Operand, Operand)
        BY <1>3, FrontPrefix DEF Entries
      <3> QED
        BY <1>1, <1>2, <1>3, <2>1, <3>1, NothingCalled DEF CallsOK
    <2>7. AwayOK'
      BY <1>1, <1>2, <2>1 DEF AwayOK, CardOK
    <2>8. ASSUME NEW p \in Paths
          PROVE  /\ nodes'[p].refs = AtHome(p) + leaked[p] + Times(Holding', p) /\ Times(Holding', p) \in Nat
                 /\ nodes[p].refs > 0 /\ nodes'[p].refs > 0 => nodes'[p].type = nodes[p].type
      BY <1>2, <2>3, <2>5
    <2>9. "entry" \in Working /\ CardOK(card)'
      BY <1>1, <1>2 DEF Working
    <2> QED
      BY <1>1, <1>3, <2>2, <2>3, <2>6, <2>7, <2>8, <2>9, Continues
  <1>8. QED
    BY <1>4, <1>5, <1>6, <1>7

(* What an entry of a directory is removed with. *)
LEMMA RemovedIs ==
  ASSUME CardOK(card), NEW p \in Paths, NEW ok \in BOOLEAN, ok => Removable(p),
         NEW c, c = IF ok THEN [card EXCEPT ![p] = Absent] ELSE card
  PROVE  CardOK(c) /\ (ok => c[p].kind = "none") /\ \A q \in Paths : q # p => c[q] = card[q]
  <1>1. card \in [Paths -> [kind : {"none", "dir", "file"}, text : Seq(Letters)]]
    BY DEF CardOK
  <1>2. CASE ok
    <2>1. CardOK(c)
      BY <1>2, RemoveKeeps
    <2> QED
      BY <1>1, <1>2, <2>1, AbsentIs
  <1>3. CASE ~ok
    BY <1>3
  <1>4. QED
    BY <1>2, <1>3

LEMMA RmEntryOK ==
  ASSUME IInv, rm_entry_from_parent
  PROVE  IInv'
  <1> DEFINE p == run.to
             gone(fault) == Removable(p) /\ ~fault
  <1>1. /\ run.cmd = "rm" /\ run.at = "entry" /\ UNCHANGED <<cwd, before, leaked>>
        /\ p \in Paths /\ p \in Entries /\ IsPrefix(Operand, p) /\ (calls = <<>> => p = Operand)
    BY DEF rm_entry_from_parent, At, IInv, CallsOK, Entries
  <1>2. /\ calls \in Seq(Frame) /\ iters = Len(calls) /\ Len(calls) \in Nat /\ DOMAIN calls = 1..Len(calls)
        /\ Operand \in Entries /\ Operand \in Paths /\ Front(Operand) \in Paths
        /\ \A q \in Paths : /\ Times(Dirs(calls), q) \in Nat /\ Is(Front(Operand), q) \in Nat
                            /\ AtHome(q) \in Nat /\ leaked[q] \in Nat
                            /\ nodes[q].refs = AtHome(q) + leaked[q] + (Times(Dirs(calls), q) + Is(Front(Operand), q))
    BY <1>1, CallsAre
  <1>3. CardOK(card) /\ nodes \in Caches /\ LineOK
    BY DEF IInv, NodesOK
  <1>4. PICK fault \in Faults :
          \/ EntryReturns(Forced(FALSE), nodes, calls) /\ UNCHANGED card
          \/ EntryReturns(FALSE, nodes, calls) /\ UNCHANGED card
          \/ /\ "r" \in run.flags /\ sd_dir_iter_create(p, fault)
             /\ nodes' = Hold(nodes, p)
             /\ calls' = Append(calls, [dir |-> p, left |-> Children(p)])
             /\ iters' = iters + 1
             /\ run' = [run EXCEPT !.at = "contents", !.to = NULL] /\ UNCHANGED card
          \/ /\ card' = IF gone(fault) THEN [card EXCEPT ![p] = Absent] ELSE card
             /\ EntryReturns(Forced(gone(fault)), nodes, calls)
    BY Zenon DEF rm_entry_from_parent
  <1>5. /\ Len(calls) <= Len(calls) /\ \A i \in 1..Len(calls) : calls[i] = calls[i]
        /\ \A q \in Paths : nodes[q].refs > 0 /\ nodes[q].refs > 0 => nodes[q].type = nodes[q].type
    BY <1>2
  <1>6. run.at \in {"entry", "contents"}
    BY <1>1
  <1>7. ASSUME NEW ok \in BOOLEAN, EntryReturns(ok, nodes, calls), CardOK(card)',
               ok /\ calls = <<>> => card'[Operand].kind = "none" \/ "f" \in run.flags
        PROVE  IInv'
    BY <1>1, <1>2, <1>3, <1>5, <1>6, <1>7, EntryReturnsOK
  <1>8. CASE EntryReturns(Forced(FALSE), nodes, calls) /\ UNCHANGED card
    <2> DEFINE ok == Forced(FALSE)
    <2>1. ok \in BOOLEAN /\ (ok => "f" \in run.flags)
      BY DEF Forced
    <2>2. EntryReturns(ok, nodes, calls) /\ CardOK(card)'
      BY <1>3, <1>8
    <2> HIDE DEF ok
    <2> QED
      BY <1>7, <2>1, <2>2
  <1>9. CASE EntryReturns(FALSE, nodes, calls) /\ UNCHANGED card
    <2>1. CardOK(card)'
      BY <1>3, <1>9
    <2> QED
      BY <1>7, <1>9, <2>1
  <1>10. CASE /\ card' = IF gone(fault) THEN [card EXCEPT ![p] = Absent] ELSE card
              /\ EntryReturns(Forced(gone(fault)), nodes, calls)
    <2> DEFINE rem == gone(fault)
               ok == Forced(rem)
    <2>1. rem \in BOOLEAN /\ (rem => Removable(p))
      OBVIOUS
    <2>2. card' = (IF rem THEN [card EXCEPT ![p] = Absent] ELSE card) /\ EntryReturns(ok, nodes, calls)
      BY <1>10
    <2> HIDE DEF rem
    <2>3. ok \in BOOLEAN /\ (ok => rem \/ "f" \in run.flags)
      BY <2>1 DEF Forced
    <2> HIDE DEF ok
    <2>4. CardOK(card)' /\ (rem => card'[p].kind = "none")
      BY <1>1, <1>3, <2>1, <2>2, RemovedIs
    <2>5. ok /\ calls = <<>> => card'[Operand].kind = "none" \/ "f" \in run.flags
      BY <1>1, <2>3, <2>4
    <2> QED
      BY <1>7, <2>2, <2>3, <2>4, <2>5
  <1>11. CASE /\ "r" \in run.flags /\ sd_dir_iter_create(p, fault)
              /\ nodes' = Hold(nodes, p)
              /\ calls' = Append(calls, [dir |-> p, left |-> Children(p)])
              /\ iters' = iters + 1
              /\ run' = [run EXCEPT !.at = "contents", !.to = NULL] /\ UNCHANGED card
    <2> DEFINE c == [dir |-> p, left |-> Children(p)]
    <2>1. c \in Frame /\ c.dir = p /\ c.left = Children(p)
      BY <1>1 DEF Frame, Children, Entries
    <2> HIDE DEF c
    <2>2. /\ calls' = Append(calls, c) /\ iters' = iters + 1 /\ nodes' = Hold(nodes, p) /\ card' = card
          /\ run' = [run EXCEPT !.at = "contents", !.to = NULL] /\ iters < Iterators /\ "r" \in run.flags
      BY <1>11 DEF c, sd_dir_iter_create
    <2>3. run'.at = "contents" /\ run'.from = run.from /\ run'.flags = run.flags /\ Operand' = Operand
      BY <1>3, <2>2 DEF LineOK, Operand
    <2>4. run' = [run EXCEPT !.at = "contents", !.to = NULL, !.copied = run.copied] /\ run.copied \in Nat
      BY <1>3, <2>2 DEF LineOK
    <2>5. /\ nodes' \in Caches /\ \A q \in Paths : nodes'[q].refs = nodes[q].refs + Is(p, q)
          /\ \A q \in Paths : nodes[q].refs > 0 => nodes'[q].type = nodes[q].type
      BY <1>1, <1>3, <2>2, HoldIs
    <2>6. Holding' = Append(Append(Dirs(calls), p), Front(Operand))
      <3>1. Dirs(Append(calls, c)) = Append(Dirs(calls), p)
        BY <1>2, <2>1, DirsAppend
      <3>2. Holding' = Append(Dirs(calls'), Front(Operand'))
        BY <2>3 DEF Holding, Dirs, Operand
      <3> QED
        BY <2>2, <2>3, <3>1, <3>2
    <2>7. ASSUME NEW q \in Paths
          PROVE  /\ Times(Holding', q) = Times(Dirs(calls), q) + Is(p, q) + Is(Front(Operand), q)
                 /\ Times(Holding', q) \in Nat /\ Is(p, q) \in Nat
      <3>1. Dirs(calls) \in Seq(Paths)
        BY <1>2, DirsAre
      <3>2. Times(Append(Dirs(calls), p), q) = Times(Dirs(calls), q) + Is(p, q)
        BY <1>1, <3>1, TimesAppend
      <3>3. Append(Dirs(calls), p) \in Seq(Paths)
        BY <1>1, <3>1, AppendProperties
      <3>4. Times(Append(Append(Dirs(calls), p), Front(Operand)), q) = Times(Append(Dirs(calls), p), q) + Is(Front(Operand), q)
        BY <1>2, <3>3, TimesAppend
      <3>5. Is(p, q) \in Nat
        BY DEF Is
      <3> QED
        BY SMTT(40), <1>2, <2>6, <3>2, <3>4, <3>5
    <2>8. CallsOK'
      <3> DEFINE ds == Append(calls, c)
      <3>1. /\ ds \in Seq(Frame) /\ Len(ds) = Len(calls) + 1
            /\ (\A i \in 1..Len(calls) : ds[i] = calls[i]) /\ ds[Len(calls) + 1] = c
        BY <1>2, <2>1, AppendProperties
      <3> HIDE DEF ds
      <3>2. calls' = ds /\ DOMAIN ds = 1..Len(ds) /\ ds # <<>>
        <4>1. Len(ds) > 0 /\ DOMAIN ds = 1..Len(ds)
          BY <1>2, <3>1, DirsAre
        <4>2. ds # <<>>
          BY <3>1, <4>1, EmptySeq
        <4> QED
          BY <2>2, <4>1, <4>2 DEF ds
      <3>3. iters' = Len(ds) /\ iters' <= Iterators
        <4>1. Iterators \in Nat
          BY TreeAssumption
        <4> QED
          BY <1>2, <2>2, <3>1, <4>1
      <3>4. ds[1].dir = Operand
        <4>1. CASE calls = <<>>
          <5>1. Len(calls) = 0
            BY <4>1
          <5> QED
            BY <1>1, <2>1, <3>1, <4>1, <5>1
        <4>2. CASE calls # <<>>
          <5>1. 1 \in 1..Len(calls)
            BY <1>2, <4>2, LastCall
          <5> QED
            BY <3>1, <4>2, <5>1 DEF IInv, CallsOK
        <4> QED
          BY <4>1, <4>2
      <3>5. ASSUME NEW i \in 1..Len(ds)
            PROVE  IsPrefix(Operand, ds[i].dir) /\ \A q \in ds[i].left : IsPrefix(Operand, q)
        <4>1. CASE i = Len(calls) + 1
          <5>1. ASSUME NEW q \in Children(p) PROVE IsPrefix(Operand, q)
            <6>1. q \in Paths \ {Root} /\ Front(q) = p
              BY DEF Children
            <6> QED
              BY <1>1, <1>2, <6>1, FrontPrefix
          <5> QED
            BY <1>1, <2>1, <3>1, <4>1, <5>1
        <4>2. CASE i # Len(calls) + 1
          <5>1. i \in 1..Len(calls)
            BY <1>2, <3>1, <4>2
          <5> QED
            BY <1>2, <3>1, <5>1 DEF IInv, CallsOK
        <4> QED
          BY <4>1, <4>2
      <3> QED
        BY <2>2, <2>3, <3>1, <3>2, <3>3, <3>4, <3>5 DEF CallsOK, Frame
    <2>9. AwayOK'
      BY <1>1, <2>3 DEF IInv, AwayOK, CardOK
    <2>10. ASSUME NEW q \in Paths
           PROVE  /\ nodes'[q].refs = AtHome(q) + leaked[q] + Times(Holding', q) /\ Times(Holding', q) \in Nat
                  /\ nodes[q].refs > 0 /\ nodes'[q].refs > 0 => nodes'[q].type = nodes[q].type
      <3>1. nodes'[q].refs = AtHome(q) + leaked[q] + (Times(Dirs(calls), q) + Is(Front(Operand), q)) + Is(p, q)
        BY <1>2, <2>5
      <3>2. Times(Holding', q) = Times(Dirs(calls), q) + Is(p, q) + Is(Front(Operand), q)
        BY <2>7
      <3>3. /\ AtHome(q) \in Nat /\ leaked[q] \in Nat /\ Times(Dirs(calls), q) \in Nat
            /\ Is(Front(Operand), q) \in Nat /\ Is(p, q) \in Nat
        BY <1>2, <2>7
      <3>4. nodes'[q].refs = AtHome(q) + leaked[q] + Times(Holding', q) /\ Times(Holding', q) \in Nat
        BY <3>1, <3>2, <3>3
      <3> QED
        BY <2>5, <3>4
    <2>11. "contents" \in Working /\ CardOK(card)' /\ run.at # "prompt"
      BY <1>1, <1>3, <2>2 DEF Working
    <2> QED
      BY <1>1, <2>4, <2>5, <2>8, <2>9, <2>10, <2>11, Continues
  <1>12. QED
    BY <1>4, <1>8, <1>9, <1>10, <1>11

LEMMA RmContentsOK ==
  ASSUME IInv, rm_dir_contents
  PROVE  IInv'
  <1> DEFINE n == Len(calls)
  <1>1. /\ run.cmd = "rm" /\ run.at = "contents" /\ UNCHANGED <<card, nodes, iters, cwd, before, leaked>>
        /\ run.at \in {"entry", "contents"}
    BY DEF rm_dir_contents, At
  <1>2. PICK p \in Last(calls).left :
          /\ calls' = [calls EXCEPT ![n].left = @ \ {p}]
          /\ run' = [run EXCEPT !.at = "entry", !.to = p]
    BY DEF rm_dir_contents
  <1>3. /\ calls \in Seq(Frame) /\ iters = n /\ n \in Nat /\ n <= Iterators /\ DOMAIN calls = 1..n
        /\ Operand \in Paths /\ Front(Operand) \in Paths
        /\ \A q \in Paths : /\ Times(Dirs(calls), q) \in Nat /\ Is(Front(Operand), q) \in Nat
                            /\ AtHome(q) \in Nat /\ leaked[q] \in Nat
                            /\ nodes[q].refs = AtHome(q) + leaked[q] + (Times(Dirs(calls), q) + Is(Front(Operand), q))
    BY <1>1, CallsAre
  <1>4. calls # <<>> /\ LineOK /\ CardOK(card) /\ nodes \in Caches
    BY <1>1 DEF IInv, CallsOK, NodesOK
  <1>5. n > 0 /\ Last(calls) = calls[n] /\ calls[n] \in Frame
    BY <1>3, <1>4, LastCall
  <1>6. p \in Entries /\ p \in Paths /\ p \in Seq(Names) /\ p \in calls[n].left
    BY <1>2, <1>5, PathsAreSequences DEF Frame, Entries
  <1> DEFINE c == [calls[n] EXCEPT !.left = @ \ {p}]
  <1>7. c \in Frame /\ c.dir = calls[n].dir /\ c.left = calls[n].left \ {p}
    BY <1>5 DEF Frame
  <1>8. calls' = [calls EXCEPT ![n] = c]
    BY <1>2
  <1> HIDE DEF c, n
  <1>9. /\ calls' \in Seq(Frame) /\ Len(calls') = n /\ DOMAIN calls' = 1..n /\ calls'[n] = c
        /\ \A i \in 1..n : i # n => calls'[i] = calls[i]
    BY <1>3, <1>5, <1>7, <1>8, ExceptSeq DEF n
  <1>10. Dirs(calls') = Dirs(calls)
    <2>1. \A i \in 1..n : calls'[i].dir = calls[i].dir
      BY <1>7, <1>9
    <2> QED
      BY <1>3, <1>9, <2>1 DEF Dirs
  <1>11. /\ run'.at = "entry" /\ run'.to = p /\ run'.from = run.from /\ run'.flags = run.flags /\ Operand' = Operand
    BY <1>2, <1>4 DEF LineOK, Operand
  <1>12. run' = [run EXCEPT !.at = "entry", !.to = p, !.copied = run.copied] /\ run.copied \in Nat
    BY <1>2, <1>4 DEF LineOK
  <1>13. Holding' = Append(Dirs(calls), Front(Operand))
    BY <1>10, <1>11 DEF Holding, Dirs, Operand
  <1>14. ASSUME NEW q \in Paths
         PROVE  Times(Holding', q) = Times(Dirs(calls), q) + Is(Front(Operand), q) /\ Times(Holding', q) \in Nat
    BY <1>3, <1>13, DirsAre, TimesAppend
  <1>15. CallsOK'
    <2>1. 1 \in 1..n /\ n \in 1..n
      BY <1>3, <1>5
    <2>2. IsPrefix(Operand, p)
      BY <1>3, <1>6, <2>1 DEF IInv, CallsOK
    <2>3. "r" \in run.flags /\ calls[1].dir = Operand
      BY <1>4 DEF IInv, CallsOK
    <2>4. calls'[1].dir = Operand
      BY <1>7, <1>9, <2>1, <2>3
    <2>5. ASSUME NEW i \in 1..n
          PROVE  IsPrefix(Operand, calls'[i].dir) /\ \A q \in calls'[i].left : IsPrefix(Operand, q)
      <3>1. IsPrefix(Operand, calls[i].dir) /\ \A q \in calls[i].left : IsPrefix(Operand, q)
        BY <1>3 DEF IInv, CallsOK
      <3> QED
        BY <1>7, <1>9, <3>1
    <2>6. calls' # <<>>
      BY <1>5, <1>9
    <2> QED
      BY <1>1, <1>3, <1>6, <1>9, <1>11, <2>2, <2>3, <2>4, <2>5, <2>6 DEF CallsOK, Frame
  <1>16. AwayOK'
    BY <1>1, <1>11 DEF IInv, AwayOK, CardOK
  <1>17. ASSUME NEW q \in Paths
         PROVE  /\ nodes'[q].refs = AtHome(q) + leaked[q] + Times(Holding', q) /\ Times(Holding', q) \in Nat
                /\ nodes[q].refs > 0 /\ nodes'[q].refs > 0 => nodes'[q].type = nodes[q].type
    BY <1>1, <1>3, <1>14
  <1>18. "entry" \in Working /\ CardOK(card)' /\ run.at # "prompt" /\ nodes' \in Caches
    BY <1>1, <1>4 DEF Working
  <1>19. QED
    BY <1>1, <1>6, <1>12, <1>15, <1>16, <1>17, <1>18, Continues

LEMMA RmEmptiedOK ==
  ASSUME IInv, rm_dir_emptied
  PROVE  IInv'
  <1> DEFINE p == Last(calls).dir
             frames == Front(calls)
             ns == vfs_node_release(nodes, p)
             gone(fault) == Removable(p) /\ ~fault
  <1>1. run.cmd = "rm" /\ run.at \in {"entry", "contents"} /\ run.at = "contents" /\ UNCHANGED <<cwd, before, leaked>>
    BY DEF rm_dir_emptied, At
  <1>2. /\ calls \in Seq(Frame) /\ iters = Len(calls) /\ Len(calls) \in Nat /\ DOMAIN calls = 1..Len(calls)
        /\ Operand \in Paths /\ Front(Operand) \in Paths
        /\ \A q \in Paths : /\ Times(Dirs(calls), q) \in Nat /\ Is(Front(Operand), q) \in Nat
                            /\ AtHome(q) \in Nat /\ leaked[q] \in Nat
                            /\ nodes[q].refs = AtHome(q) + leaked[q] + (Times(Dirs(calls), q) + Is(Front(Operand), q))
    BY <1>1, CallsAre
  <1>3. CardOK(card) /\ nodes \in Caches /\ LineOK /\ calls # <<>>
    BY <1>1 DEF IInv, NodesOK, CallsOK
  <1>4. PICK fault \in Faults :
          /\ card' = IF gone(fault) THEN [card EXCEPT ![p] = Absent] ELSE card
          /\ EntryReturns(Forced(gone(fault)), ns, frames)
    BY Zenon DEF rm_dir_emptied
  <1>5. /\ frames \in Seq(Frame) /\ Len(frames) = Len(calls) - 1 /\ Len(calls) > 0
        /\ (\A i \in 1..(Len(calls) - 1) : frames[i] = calls[i]) /\ Last(calls) = calls[Len(calls)]
        /\ Last(calls) \in Frame /\ calls = Append(frames, Last(calls))
    BY <1>2, <1>3, LastCall
  <1>6. p \in Paths
    BY <1>5 DEF Frame, Entries
  <1>7. \A q \in Paths : /\ Times(Dirs(calls), q) = Times(Dirs(frames), q) + Is(p, q)
                         /\ Times(Dirs(frames), q) \in Nat /\ Is(p, q) \in Nat
    <2>1. Dirs(frames) \in Seq(Paths)
      BY <1>5, DirsAre
    <2>2. Dirs(Append(frames, Last(calls))) = Append(Dirs(frames), p)
      BY <1>5, DirsAppend
    <2>3. Dirs(calls) = Append(Dirs(frames), p)
      BY <1>5, <2>2
    <2>4. \A q \in Paths : Is(p, q) \in Nat
      BY DEF Is
    <2> QED
      BY <1>6, <2>1, <2>3, <2>4, TimesAppend
  <1> HIDE DEF p, frames
  <1>8. nodes[p].refs > 0
    <2>1. Is(p, p) = 1
      BY DEF Is
    <2>2. nodes[p].refs = AtHome(p) + leaked[p] + ((Times(Dirs(frames), p) + Is(p, p)) + Is(Front(Operand), p))
      BY <1>2, <1>6, <1>7
    <2>3. /\ AtHome(p) \in Nat /\ leaked[p] \in Nat /\ Times(Dirs(frames), p) \in Nat
          /\ Is(Front(Operand), p) \in Nat
      BY <1>2, <1>6, <1>7
    <2> QED
      BY <2>1, <2>2, <2>3
  <1>9. /\ ns \in Caches
        /\ \A q \in Paths : /\ ns[q].refs = nodes[q].refs - Is(p, q)
                            /\ ns[q].refs > 0 => ns[q].type = nodes[q].type
    BY <1>3, <1>6, <1>8, OneGiven
  <1> HIDE DEF ns
  <1>10. ASSUME NEW q \in Paths
         PROVE  /\ ns[q].refs = AtHome(q) + leaked[q] + (Times(Dirs(frames), q) + Is(Front(Operand), q))
                /\ nodes[q].refs > 0 /\ ns[q].refs > 0 => ns[q].type = nodes[q].type
    <2>1. ns[q].refs = (AtHome(q) + leaked[q] + ((Times(Dirs(frames), q) + Is(p, q)) + Is(Front(Operand), q))) - Is(p, q)
      BY <1>2, <1>7, <1>9
    <2>2. /\ AtHome(q) \in Nat /\ leaked[q] \in Nat /\ Times(Dirs(frames), q) \in Nat
          /\ Is(Front(Operand), q) \in Nat /\ Is(p, q) \in Nat
      BY <1>2, <1>7
    <2>3. ns[q].refs = AtHome(q) + leaked[q] + (Times(Dirs(frames), q) + Is(Front(Operand), q))
      BY <2>1, <2>2
    <2> QED
      BY <1>9, <2>3
  <1> DEFINE rem == gone(fault)
             ok == Forced(rem)
  <1>11. rem \in BOOLEAN /\ (rem => Removable(p))
    OBVIOUS
  <1>12. card' = (IF rem THEN [card EXCEPT ![p] = Absent] ELSE card) /\ EntryReturns(ok, ns, frames)
    BY <1>4
  <1> HIDE DEF rem
  <1>13. ok \in BOOLEAN /\ (ok => rem \/ "f" \in run.flags)
    BY <1>11 DEF Forced
  <1> HIDE DEF ok
  <1>14. CardOK(card)' /\ (rem => card'[p].kind = "none")
    BY <1>3, <1>6, <1>11, <1>12, RemovedIs
  <1>15. ok /\ frames = <<>> => card'[Operand].kind = "none" \/ "f" \in run.flags
    <2>1. ASSUME frames = <<>> PROVE p = Operand
      <3>1. Len(frames) = 0
        BY <2>1
      <3>2. Len(calls) = 1
        <4>1. Len(frames) = Len(calls) - 1 /\ Len(calls) \in Nat
          BY <1>2, <1>5
        <4> QED
          BY <3>1, <4>1
      <3> QED
        BY <1>3, <1>5, <3>2 DEF IInv, CallsOK, p
    <2> QED
      BY <1>13, <1>14, <2>1
  <1>16. Len(frames) <= Len(calls) /\ \A i \in 1..Len(frames) : frames[i] = calls[i]
    BY <1>2, <1>5
  <1>17. QED
    BY <1>1, <1>5, <1>9, <1>10, <1>12, <1>13, <1>14, <1>15, <1>16, EntryReturnsOK

-----------------------------------------------------------------------------
(* mv. *)
LEMMA PrefixesCompare ==
  ASSUME NEW p \in Paths, NEW q \in Paths, NEW r \in Paths, IsPrefix(p, r), IsPrefix(q, r)
  PROVE  IsPrefix(p, q) \/ IsPrefix(q, p)
  <1>1. Len(p) \in Nat /\ Len(q) \in Nat /\ Len(r) \in Nat
    BY PathsAreSequences
  <1>2. /\ Len(p) <= Len(r) /\ \A i \in 1..Len(p) : p[i] = r[i]
        /\ Len(q) <= Len(r) /\ \A i \in 1..Len(q) : q[i] = r[i]
    BY PathPrefix
  <1>3. CASE Len(p) <= Len(q)
    <2>1. \A i \in 1..Len(p) : i \in 1..Len(q)
      BY <1>1, <1>3
    <2> QED
      BY <1>2, <1>3, <2>1, PathPrefix
  <1>4. CASE Len(q) <= Len(p)
    <2>1. \A i \in 1..Len(q) : i \in 1..Len(p)
      BY <1>1, <1>4
    <2> QED
      BY <1>2, <1>4, <2>1, PathPrefix
  <1>5. QED
    BY <1>1, <1>3, <1>4

LEMMA SomeAtHome ==
  ASSUME NEW p, AtHome(p) # 0
  PROVE  \E w \in Windows : cwd[w] = p
  <1> DEFINE W == {w \in Windows : cwd[w] = p}
  <1>1. W # {}
    BY FS_EmptySet DEF AtHome
  <1>2. QED
    BY <1>1

(* Where mv puts its operand is in a directory that has a path. *)
LEMMA MvTarget ==
  ASSUME NEW p \in Entries, NEW q \in Paths, NEW dst \in {q, Append(q, Last(p))}, dst # Root
  PROVE  dst \in Seq(Names) /\ Front(dst) \in Paths
  <1>1. p \in Seq(Names) /\ q \in Seq(Names) /\ Len(p) \in Nat /\ Len(p) > 0
    BY PathsAreSequences DEF Entries
  <1>2. Last(p) \in Names
    BY <1>1, ElementOfSeq DEF Last
  <1>3. CASE dst = q
    BY <1>1, <1>3, PathsAreSequences
  <1>4. CASE dst = Append(q, Last(p))
    <2> DEFINE x == Last(p)
               n == Len(q)
    <2> HIDE DEF x
    <2>1. x \in Names /\ dst = Append(q, x)
      BY <1>2, <1>4 DEF x
    <2>2. /\ dst \in Seq(Names) /\ Len(dst) = n + 1 /\ (\A i \in 1..n : dst[i] = q[i]) /\ n \in Nat
      BY <1>1, <2>1, AppendProperties, LenProperties
    <2>3. \A i \in 1..n : dst[i] \in Names
      BY <1>1, <2>2, ElementOfSeq
    <2>4. Front(dst) = SubSeq(dst, 1, n)
      <3>1. (n + 1) - 1 = n
        BY <2>2
      <3> QED
        BY <2>2, <3>1 DEF Front
    <2>5. 1 \in Int /\ n \in Int /\ n - 1 + 1 = n
      BY <2>2
    <2>6. /\ SubSeq(dst, 1, n) \in Seq(Names)
          /\ Len(SubSeq(dst, 1, n)) = IF 1 <= n THEN n - 1 + 1 ELSE 0
          /\ \A i \in 1..(n - 1 + 1) : SubSeq(dst, 1, n)[i] = dst[1 + i - 1]
      BY <2>3, <2>5, SubSeqProperties
    <2> DEFINE u == SubSeq(dst, 1, n)
    <2> HIDE DEF u, n
    <2>7. u \in Seq(Names) /\ Len(u) = n /\ \A i \in 1..n : u[i] = dst[i]
      <3>1. (IF 1 <= n THEN n - 1 + 1 ELSE 0) = n /\ \A i \in 1..n : 1 + i - 1 = i
        BY <2>2
      <3> QED
        BY <2>5, <2>6, <3>1 DEF u
    <2>8. u = q
      <3>1. Len(u) = Len(q) /\ \A i \in 1..Len(u) : u[i] = q[i]
        BY <2>2, <2>7 DEF n
      <3> QED
        BY <1>1, <2>7, <3>1, SeqEqual
    <2> QED
      BY <2>2, <2>4, <2>8 DEF u
  <1>5. QED
    BY <1>3, <1>4

(* mv holds the operand and the two directories. *)
LEMMA MvTakes ==
  ASSUME IInv, run.at = "start", run.cmd = "mv", NEW dst, Front(dst) \in Paths,
         NEW ns, ns = Hold(Hold(Hold(nodes, Operand), Front(Operand)), Front(dst))
  PROVE  /\ ns \in Caches
         /\ \A p \in Paths : /\ ns[p].refs = nodes[p].refs + Times(MvHeld(dst), p) /\ Times(MvHeld(dst), p) \in Nat
                             /\ nodes[p].refs > 0 => ns[p].type = nodes[p].type
         /\ nodes[Operand].refs = 0 => ns[Operand].type = Kind(Operand)
  <1> DEFINE one == Hold(nodes, Operand)
             two == Hold(one, Front(Operand))
             three == Hold(two, Front(dst))
  <1>1. Operand \in Paths /\ Front(Operand) \in Paths /\ CardOK(card) /\ nodes \in Caches /\ Operand # Front(Operand)
    BY OperandIs, FrontPrefix DEF IInv, NodesOK, Entries
  <1>2. \A p, q \in Paths : Is(p, q) \in Nat /\ Is(p, p) = 1 /\ nodes[p].refs \in Nat
    BY <1>1 DEF Is, Caches
  <1>3. /\ one \in Caches /\ \A q \in Paths : one[q].refs = nodes[q].refs + Is(Operand, q)
        /\ \A q \in Paths : nodes[q].refs > 0 => one[q].type = nodes[q].type
        /\ nodes[Operand].refs = 0 => one[Operand].type = Kind(Operand)
    BY <1>1, HoldIs
  <1> HIDE DEF one
  <1>4. /\ two \in Caches /\ \A q \in Paths : two[q].refs = one[q].refs + Is(Front(Operand), q)
        /\ \A q \in Paths : q # Front(Operand) \/ one[q].refs > 0 => two[q].type = one[q].type
    BY <1>1, <1>3, HoldIs
  <1> HIDE DEF two
  <1>5. /\ three \in Caches /\ \A q \in Paths : three[q].refs = two[q].refs + Is(Front(dst), q)
        /\ \A q \in Paths : two[q].refs > 0 => three[q].type = two[q].type
    BY <1>1, <1>4, HoldIs
  <1> HIDE DEF three
  <1>6. ns = three
    BY DEF one, two, three
  <1>7. ASSUME NEW q \in Paths
        PROVE  /\ three[q].refs = nodes[q].refs + Times(MvHeld(dst), q) /\ Times(MvHeld(dst), q) \in Nat
               /\ nodes[q].refs > 0 => three[q].type = nodes[q].type
    <2>1. Times(MvHeld(dst), q) = Is(Front(dst), q) + Is(Front(Operand), q) + Is(Operand, q)
      BY <1>1, TimesThree DEF MvHeld
    <2>2. three[q].refs = ((nodes[q].refs + Is(Operand, q)) + Is(Front(Operand), q)) + Is(Front(dst), q)
      BY <1>3, <1>4, <1>5
    <2>3. Is(Front(dst), q) \in Nat /\ Is(Front(Operand), q) \in Nat /\ Is(Operand, q) \in Nat /\ nodes[q].refs \in Nat
      BY <1>1, <1>2
    <2>4. three[q].refs = nodes[q].refs + Times(MvHeld(dst), q) /\ Times(MvHeld(dst), q) \in Nat
      BY <2>1, <2>2, <2>3
    <2>5. nodes[q].refs > 0 => one[q].refs > 0 /\ two[q].refs > 0
      BY <1>3, <1>4, <2>3
    <2> QED
      BY <1>3, <1>4, <1>5, <2>4, <2>5
  <1>8. nodes[Operand].refs = 0 => three[Operand].type = Kind(Operand)
    <2>1. one[Operand].refs > 0 /\ two[Operand].refs > 0
      <3>1. one[Operand].refs = nodes[Operand].refs + 1 /\ two[Operand].refs = one[Operand].refs + Is(Front(Operand), Operand)
        BY <1>1, <1>2, <1>3, <1>4
      <3> QED
        BY <1>1, <1>2, <3>1
    <2> QED
      BY <1>1, <1>3, <1>4, <1>5, <2>1
  <1>9. QED
    BY <1>5, <1>6, <1>7, <1>8

(* mv returns. *)
LEMMA MvReturnsOK ==
  ASSUME IInv, run.at \in {"replace", "rename"}, NEW ok \in BOOLEAN, Told(ok),
         nodes' = Release(nodes, MvHeld(run.to)), SameRest, CardOK(card)', ok => Done'
  PROVE  IInv'
  <1>1. /\ run.to # Root /\ Front(run.to) \in Paths /\ run.at # "prompt" /\ nodes \in Caches
        /\ UNCHANGED <<iters, cwd, calls, before, leaked>> /\ before' = before /\ cwd' = cwd /\ leaked' = leaked
    BY DEF IInv, AwayOK, NodesOK, SameRest
  <1>2. Operand \in Paths /\ Front(Operand) \in Paths
    BY OperandIs DEF IInv, LineOK
  <1> DEFINE t(p) == Times(MvHeld(run.to), p)
  <1>3. \A p \in Paths : /\ nodes[p].refs = AtHome(p) + leaked[p] + t(p)
                         /\ t(p) = Is(Front(run.to), p) + Is(Front(Operand), p) + Is(Operand, p)
    BY <1>1, HoldsThree DEF IInv
  <1>4. \A p, q \in Paths : Is(p, q) \in Nat
    BY DEF Is
  <1>5. \A p \in Paths : t(p) \in Nat /\ AtHome(p) \in Nat /\ leaked[p] \in Nat
    BY <1>1, <1>2, <1>3, <1>4, AtHomeCounts DEF IInv, NodesOK
  <1>6. \A p \in Paths : t(p) <= nodes[p].refs
    BY <1>3, <1>5
  <1>7. /\ nodes' \in Caches
        /\ \A p \in Paths : /\ nodes'[p].refs = nodes[p].refs - t(p)
                            /\ nodes'[p].refs > 0 => nodes'[p].type = nodes[p].type
    BY <1>1, <1>5, <1>6, ReleaseGives
  <1> HIDE DEF t
  <1>8. ASSUME NEW p \in Paths PROVE nodes'[p].refs = AtHome(p) + leaked[p]
    <2>1. nodes'[p].refs = (AtHome(p) + leaked[p] + t(p)) - t(p)
      BY <1>3, <1>7
    <2> QED
      BY <1>5, <2>1
  <1>9. calls' = <<>> /\ iters' = 0
    <2>1. run'.at = "told"
      BY ToldIs DEF IInv
    <2> QED
      BY <1>1, <2>1, NoCalls
  <1>10. QED
    BY <1>1, <1>7, <1>8, <1>9, ReturnsNodes

LEMMA MvOK ==
  ASSUME IInv, cmd_mv
  PROVE  IInv'
  <1> DEFINE in(fault) == "into" \in run.flags \/ FindsDir(nodes, run.to, fault)
             target(fault) == IF in(fault) THEN Append(run.to, Last(Operand)) ELSE run.to
             sees(fault, lookFault) == MvLooks(target(fault), lookFault) /\ (in(fault) \/ Len(run.from) = 1)
             takes(dst) == Hold(Hold(Hold(nodes, Operand), Front(Operand)), Front(dst))
             finds(dst, fault) == dst \in Paths /\ vfs_resolve(takes(dst), dst, fault)
  <1>1. run.cmd = "mv" /\ run.at = "start" /\ UNCHANGED <<card, iters, cwd, calls, before>>
    BY DEF cmd_mv, At
  <1>2. PICK targetFault \in Faults, fault \in Faults, dstFault \in Faults :
          LET dst == target(targetFault)
              ns == takes(dst)
              looks == sees(targetFault, fault)
              found == finds(dst, dstFault)
              dirToFile == IsDir(ns, Operand) /\ Last(dst) \in Dotted
          IN  \/ /\ ~looks
                 /\ Told(FALSE) /\ UNCHANGED <<nodes, leaked>>
              \/ /\ looks /\ dirToFile
                 /\ Told(FALSE)
                 /\ nodes' = IF found THEN Hold(nodes, dst) ELSE nodes
                 /\ leaked' = IF found THEN [leaked EXCEPT ![dst] = @ + 1] ELSE leaked
              \/ /\ looks /\ ~dirToFile /\ ~found
                 /\ run' = [run EXCEPT !.at = "rename", !.to = dst]
                 /\ nodes' = ns /\ UNCHANGED leaked
              \/ /\ looks /\ ~dirToFile /\ found
                 /\ \/ /\ dst = Operand \/ IsDir(Hold(ns, dst), dst) \/ IsDir(ns, Operand)
                       /\ run' = [run EXCEPT !.at = "told", !.to = dst, !.ok = (dst = Operand)]
                       /\ UNCHANGED nodes
                    \/ /\ dst # Operand /\ ~IsDir(Hold(ns, dst), dst) /\ ~IsDir(ns, Operand)
                       /\ run' = [run EXCEPT !.at = "replace", !.to = dst]
                       /\ nodes' = ns
                 /\ UNCHANGED leaked
    BY Zenon DEF cmd_mv
  <1> DEFINE dst == target(targetFault)
             ns == takes(dst)
             found == finds(dst, dstFault)
             looks == sees(targetFault, fault)
  <1>3. /\ LineOK /\ CardOK(card) /\ nodes \in Caches /\ leaked \in [Paths -> Nat] /\ before = card
        /\ \A p \in Paths : nodes[p].refs = AtHome(p) + leaked[p] /\ AtHome(p) \in Nat /\ leaked[p] \in Nat
        /\ \A w \in Windows : cwd[w] # NULL => nodes[cwd[w]].type = "dir"
    BY <1>1, AtStart
  <1>4. Operand \in Entries /\ Operand \in Paths /\ Front(Operand) \in Paths /\ run.to \in Paths /\ MoveBounded(Operand, run.to)
    BY <1>1, <1>3, OperandIs DEF IInv, AwayOK
  <1>5. dst \in {run.to, Append(run.to, Last(Operand))}
    OBVIOUS
  <1>6. found \in BOOLEAN /\ (found => dst \in Paths /\ vfs_resolve(ns, dst, dstFault))
    OBVIOUS
  <1>7. ns = Hold(Hold(Hold(nodes, Operand), Front(Operand)), Front(dst))
    OBVIOUS
  <1>8. CASE Told(FALSE) /\ UNCHANGED <<nodes, leaked>>
    BY <1>1, <1>3, <1>8, ReturnsAtStart
  <1>9. CASE MvLooks(dst, fault) /\ run'.at = "told" /\ run' = [run EXCEPT !.at = "told", !.to = dst, !.ok = (dst = Operand)]
             /\ UNCHANGED <<nodes, leaked>>
    <2>1. dst \in Seq(Names)
      BY <1>4, <1>5, <1>9, MvTarget DEF MvLooks
    <2> HIDE DEF dst, target
    <2> DEFINE ok == (dst = Operand)
    <2>2. ok \in BOOLEAN
      OBVIOUS
    <2>3. ok => Done'
      <3>1. run'.cmd = "mv" /\ run'.to = dst /\ Operand' = Operand
        BY <1>1, <1>3, <1>9 DEF LineOK, Operand
      <3>2. IsPrefix(Operand, Operand)
        BY <1>4, FrontPrefix DEF Entries
      <3> QED
        BY <3>1, <3>2 DEF Done, IntoItself
    <2>4. run' = [run EXCEPT !.at = "told", !.ok = ok, !.to = dst]
      BY <1>3, <1>9 DEF LineOK
    <2>5. CardOK(card)' /\ nodes' = nodes /\ leaked' = leaked
      BY <1>1, <1>3, <1>9
    <2>6. /\ nodes' \in Caches /\ leaked' \in [Paths -> Nat]
          /\ \A p \in Paths : /\ nodes'[p].refs = AtHome(p) + leaked'[p]
                              /\ nodes[p].refs > 0 => nodes'[p].type = nodes[p].type
      BY <1>3, <2>5
    <2>7. ok => dst # Root /\ Front(dst) \in Paths
      BY <1>4 DEF Entries
    <2> HIDE DEF ok
    <2> QED
      BY <1>1, <2>1, <2>2, <2>3, <2>4, <2>5, <2>6, <2>7, ReturnsLeaks
  <1>10. CASE /\ Told(FALSE)
              /\ nodes' = IF found THEN Hold(nodes, dst) ELSE nodes
              /\ leaked' = IF found THEN [leaked EXCEPT ![dst] = @ + 1] ELSE leaked
    <2> HIDE DEF dst, found
    <2>1. /\ nodes' \in Caches /\ leaked' \in [Paths -> Nat]
          /\ \A p \in Paths : /\ nodes'[p].refs = AtHome(p) + leaked'[p]
                              /\ nodes[p].refs > 0 => nodes'[p].type = nodes[p].type
      <3>1. CASE found
        <4>1. nodes' = Hold(nodes, dst) /\ leaked' = [leaked EXCEPT ![dst] = @ + 1] /\ dst \in Paths
          BY <1>6, <1>10, <3>1
        <4>2. /\ nodes' \in Caches
              /\ \A p \in Paths : /\ nodes'[p].refs = nodes[p].refs + Is(dst, p)
                                  /\ nodes[p].refs > 0 => nodes'[p].type = nodes[p].type
          BY <1>3, <4>1, HoldIs
        <4>3. leaked' \in [Paths -> Nat] /\ \A p \in Paths : leaked'[p] = leaked[p] + Is(dst, p) /\ leaked[p] \in Nat
          BY <1>3, <4>1 DEF Is
        <4>4. \A p \in Paths : Is(dst, p) \in Nat
          BY DEF Is
        <4> QED
          BY <1>3, <4>2, <4>3, <4>4
      <3>2. CASE ~found
        BY <1>3, <1>10, <3>2
      <3> QED
        BY <3>1, <3>2
    <2>2. run' = [run EXCEPT !.at = "told", !.ok = FALSE, !.to = run.to] /\ run.to \in Seq(Names) \cup {NULL}
      BY <1>3, <1>10 DEF Told, LineOK
    <2>3. CardOK(card)' /\ run.to \in Seq(Names)
      BY <1>1, <1>3, <1>4, PathsAreSequences
    <2> QED
      BY <1>1, <2>1, <2>2, <2>3, ReturnsLeaks
  <1>11. ASSUME NEW at \in {"replace", "rename"}, MvLooks(dst, fault), run' = [run EXCEPT !.at = at, !.to = dst],
                nodes' = ns, leaked' = leaked,
                at = "replace" => dst \in Paths /\ dst # Operand /\ ~IsDir(ns, Operand)
         PROVE  IInv'
    <2>1. dst \in Seq(Names) /\ Front(dst) \in Paths /\ dst # Root
      BY <1>4, <1>5, <1>11, MvTarget DEF MvLooks
    <2>2. vfs_resolve(nodes, Operand, fault)
      BY <1>11 DEF MvLooks
    <2> HIDE DEF dst
    <2>3. /\ ns \in Caches
          /\ \A p \in Paths : /\ ns[p].refs = nodes[p].refs + Times(MvHeld(dst), p) /\ Times(MvHeld(dst), p) \in Nat
                              /\ nodes[p].refs > 0 => ns[p].type = nodes[p].type
          /\ nodes[Operand].refs = 0 => ns[Operand].type = Kind(Operand)
      BY <1>1, <1>7, <2>1, MvTakes
    <2> HIDE DEF ns
    <2>4. /\ run'.at = at /\ run'.to = dst /\ run'.from = run.from /\ Operand' = Operand
          /\ run' = [run EXCEPT !.at = at, !.to = dst, !.copied = run.copied] /\ run.copied \in Nat
      BY <1>3, <1>11 DEF LineOK, Operand
    <2>5. Holding' = MvHeld(dst)
      BY <2>4 DEF Holding, MvHeld, Operand
    <2>6. ASSUME NEW p \in Paths
          PROVE  /\ nodes'[p].refs = AtHome(p) + leaked[p] + Times(Holding', p) /\ Times(Holding', p) \in Nat
                 /\ nodes[p].refs > 0 /\ nodes'[p].refs > 0 => nodes'[p].type = nodes[p].type
      BY <1>3, <1>11, <2>3, <2>5
    <2>7. CallsOK'
      <3>1. run.at \notin {"entry", "contents"} /\ run'.at \notin {"entry", "contents"} /\ UNCHANGED <<calls, iters>>
        BY <1>1, <2>4
      <3> QED
        BY <3>1, NoCalls
    <2>8. AwayOK'
      <3>1. MoveFits'
        <4> SUFFICES ASSUME NEW r \in Paths, IsPrefix(Operand, r)
                     PROVE  Kind(r) = "none" \/ IsPrefix(Operand, dst) \/ dst \notin Paths \/ Moved(Operand, dst, r) \in Paths
          BY <1>1, <2>4 DEF MoveFits, Within, Kind, IntoItself
        <4> QED
          BY <1>4, <1>5 DEF MoveBounded, Within
      <3>2. CASE at = "replace"
        <4>1. Kind(Operand) = "file" \/ leaked[Operand] > 0
          <5>1. ns[Operand].type # "dir" /\ Kind(Operand) \in {"none", "dir", "file"} /\ nodes[Operand].refs \in Nat
            BY <1>3, <1>4, <1>11, <3>2 DEF IsDir, CardOK, Kind, Caches
          <5>2. CASE nodes[Operand].refs = 0
            <6>1. Kind(Operand) # "none" /\ Kind(Operand) # "dir"
              BY <2>2, <2>3, <5>1, <5>2 DEF vfs_resolve, Cached
            <6> QED
              BY <5>1, <6>1
          <5>3. CASE nodes[Operand].refs # 0
            <6>1. nodes[Operand].type # "dir"
              BY <1>4, <2>3, <5>1, <5>3
            <6>2. AtHome(Operand) = 0
              <7> SUFFICES ASSUME AtHome(Operand) # 0 PROVE FALSE
                OBVIOUS
              <7>1. PICK w \in Windows : cwd[w] = Operand
                BY SomeAtHome
              <7>2. Operand # NULL
                BY <1>4, CommandsAssumption
              <7> QED
                BY <1>3, <6>1, <7>1, <7>2
            <6> QED
              BY <1>3, <1>4, <5>3, <6>2
          <5> QED
            BY <5>2, <5>3
        <4>2. dst \in Paths /\ dst # Operand
          BY <1>11, <3>2
        <4> QED
          BY <1>1, <1>3, <1>11, <2>1, <2>4, <3>1, <3>2, <4>1, <4>2 DEF AwayOK, Kind
      <3>3. CASE at = "rename"
        BY <1>1, <1>3, <2>1, <2>4, <3>1, <3>3 DEF AwayOK
      <3> QED
        BY <3>2, <3>3
    <2>9. at \in Working /\ CardOK(card)' /\ run.at # "prompt" /\ nodes' \in Caches /\ before' = before /\ cwd' = cwd
      BY <1>1, <1>3, <1>11, <2>3 DEF Working
    <2>10. at \notin {"entry", "contents", "walk", "truncate", "open", "copy"}
      OBVIOUS
    <2> QED
      BY <1>1, <1>11, <2>1, <2>4, <2>6, <2>7, <2>8, <2>9, <2>10, Continues
  <1>12. \/ Told(FALSE) /\ UNCHANGED <<nodes, leaked>>
         \/ /\ MvLooks(dst, fault)
            /\ run' = [run EXCEPT !.at = "told", !.to = dst, !.ok = (dst = Operand)]
            /\ UNCHANGED <<nodes, leaked>>
         \/ /\ Told(FALSE)
            /\ nodes' = IF found THEN Hold(nodes, dst) ELSE nodes
            /\ leaked' = IF found THEN [leaked EXCEPT ![dst] = @ + 1] ELSE leaked
         \/ /\ MvLooks(dst, fault) /\ run' = [run EXCEPT !.at = "rename", !.to = dst]
            /\ nodes' = ns /\ UNCHANGED leaked
         \/ /\ MvLooks(dst, fault) /\ found /\ dst # Operand /\ ~IsDir(ns, Operand)
            /\ run' = [run EXCEPT !.at = "replace", !.to = dst]
            /\ nodes' = ns /\ UNCHANGED leaked
    <2>1. looks => MvLooks(dst, fault)
      OBVIOUS
    <2>2. \/ Told(FALSE) /\ UNCHANGED <<nodes, leaked>>
          \/ /\ looks
             /\ run' = [run EXCEPT !.at = "told", !.to = dst, !.ok = (dst = Operand)]
             /\ UNCHANGED <<nodes, leaked>>
          \/ /\ Told(FALSE)
             /\ nodes' = IF found THEN Hold(nodes, dst) ELSE nodes
             /\ leaked' = IF found THEN [leaked EXCEPT ![dst] = @ + 1] ELSE leaked
          \/ /\ looks /\ run' = [run EXCEPT !.at = "rename", !.to = dst]
             /\ nodes' = ns /\ UNCHANGED leaked
          \/ /\ looks /\ found /\ dst # Operand /\ ~IsDir(ns, Operand)
             /\ run' = [run EXCEPT !.at = "replace", !.to = dst]
             /\ nodes' = ns /\ UNCHANGED leaked
      BY <1>2, Zenon
    <2> HIDE DEF dst, ns, found, looks
    <2> QED
      BY <2>1, <2>2, Zenon
  <1> HIDE DEF dst, ns, found
  <1>13. run' = [run EXCEPT !.at = "told", !.to = dst, !.ok = (dst = Operand)] => run'.at = "told"
    BY <1>3 DEF LineOK
  <1>14. QED
    BY <1>6, <1>8, <1>9, <1>10, <1>11, <1>12, <1>13

LEMMA MvReplaceOK ==
  ASSUME IInv, mv_replace
  PROVE  IInv'
  <1>1. run.cmd = "mv" /\ run.at = "replace" /\ SameRest /\ UNCHANGED <<iters, cwd, calls, before, leaked>>
    BY DEF mv_replace, At, SameRest
  <1>2. PICK fault \in Faults :
          IF Removable(run.to) /\ ~fault
          THEN /\ card' = [card EXCEPT ![run.to] = Absent]
               /\ run' = [run EXCEPT !.at = "rename"] /\ UNCHANGED nodes
          ELSE Told(FALSE) /\ nodes' = Release(nodes, MvHeld(run.to)) /\ UNCHANGED card
    BY DEF mv_replace
  <1>3. /\ LineOK /\ CardOK(card) /\ nodes \in Caches /\ run.to \in Paths /\ run.to # Operand /\ run.to # Root
        /\ Front(run.to) \in Paths /\ MoveFits /\ run.to \in Seq(Names)
        /\ \A p \in Paths \ {run.to} : card[p] = before[p]
    BY <1>1, PathsAreSequences DEF IInv, NodesOK, AwayOK
  <1>4. CASE ~(Removable(run.to) /\ ~fault)
    <2>1. Told(FALSE) /\ nodes' = Release(nodes, MvHeld(run.to)) /\ CardOK(card)'
      BY <1>2, <1>3, <1>4
    <2> QED
      BY <1>1, <2>1, MvReturnsOK
  <1>5. CASE Removable(run.to) /\ ~fault
    <2>1. /\ card' = [card EXCEPT ![run.to] = Absent]
          /\ run' = [run EXCEPT !.at = "rename"] /\ nodes' = nodes
      BY <1>2, <1>5
    <2>2. /\ run'.at = "rename" /\ run'.to = run.to /\ run'.from = run.from /\ Operand' = Operand
          /\ run' = [run EXCEPT !.at = "rename", !.to = run.to, !.copied = run.copied] /\ run.copied \in Nat
      BY <1>3, <2>1 DEF LineOK, Operand
    <2>3. CardOK(card)'
      BY <1>3, <1>5, <2>1, RemoveKeeps
    <2>4. card'[run.to].kind = "none" /\ \A p \in Paths : p # run.to => card'[p] = card[p]
      BY <1>3, <2>1, AbsentIs DEF CardOK
    <2>5. Holding = MvHeld(run.to) /\ Holding' = MvHeld(run.to)
      BY <1>1, <2>2 DEF Holding, MvHeld, Operand
    <2>6. ASSUME NEW p \in Paths
          PROVE  /\ nodes'[p].refs = AtHome(p) + leaked[p] + Times(Holding', p) /\ Times(Holding', p) \in Nat
                 /\ nodes[p].refs > 0 /\ nodes'[p].refs > 0 => nodes'[p].type = nodes[p].type
      <3>1. nodes'[p].refs = AtHome(p) + leaked[p] + Times(Holding', p)
        BY <2>1, <2>5 DEF IInv, NodesOK
      <3>2. Times(MvHeld(run.to), p) = Is(Front(run.to), p) + Is(Front(Operand), p) + Is(Operand, p)
        BY <1>1, <1>3, HoldsThree DEF IInv
      <3>3. Is(Front(run.to), p) \in Nat /\ Is(Front(Operand), p) \in Nat /\ Is(Operand, p) \in Nat
        BY DEF Is
      <3> QED
        BY <2>1, <2>5, <3>1, <3>2, <3>3
    <2>7. CallsOK'
      BY <1>1, <2>2, NoCalls
    <2>8. AwayOK'
      <3>1. MoveFits'
        <4> SUFFICES ASSUME NEW r \in Paths, IsPrefix(Operand, r)
                     PROVE  \/ card'[r].kind = "none" \/ IsPrefix(Operand, run.to)
                            \/ run.to \notin Paths \/ Moved(Operand, run.to, r) \in Paths
          BY <2>2 DEF MoveFits, Within, Kind, IntoItself
        <4>1. CASE r = run.to
          BY <2>4, <4>1
        <4>2. CASE r # run.to
          BY <1>3, <2>4, <4>2 DEF MoveFits, Within, Kind, IntoItself
        <4> QED
          BY <4>1, <4>2
      <3>2. CardOK(before)'
        BY <1>1 DEF IInv, AwayOK
      <3> QED
        BY <1>1, <1>3, <2>2, <2>4, <3>1, <3>2 DEF AwayOK
    <2>9. "rename" \in Working /\ run.at # "prompt" /\ nodes' \in Caches
      BY <1>1, <1>3, <2>1 DEF Working
    <2> QED
      BY <1>1, <1>3, <2>2, <2>3, <2>6, <2>7, <2>8, <2>9, Continues
  <1>6. QED
    BY <1>4, <1>5

(* What a rename does with the card. *)
LEMMA RenamesAre ==
  ASSUME NEW p, NEW q, NEW fault \in BOOLEAN, NEW outcome \in Renames(p, q, fault)
  PROVE  \/ outcome.card = card /\ outcome.ok = FALSE
         \/ outcome.card = Rename(p, q) /\ outcome.ok = TRUE /\ Renamable(p, q)
         \/ /\ outcome.card = [r \in Paths |-> IF IsPrefix(p, r) THEN Absent ELSE card[r]] /\ outcome.ok = TRUE
            /\ Kind(p) = "dir" /\ IsPrefix(p, q) /\ p # q
  <1> DEFINE gone == [r \in Paths |-> IF IsPrefix(p, r) THEN Absent ELSE card[r]]
             moved == Rename(p, q)
  <1>1. \/ outcome = [card |-> card, ok |-> FALSE]
        \/ outcome = [card |-> moved, ok |-> TRUE] /\ Renamable(p, q)
        \/ outcome = [card |-> gone, ok |-> TRUE] /\ Kind(p) = "dir" /\ IsPrefix(p, q) /\ p # q
    BY DEF Renames
  <1> HIDE DEF gone, moved
  <1>2. QED
    BY <1>1 DEF gone, moved

(* A rename brings everything under the new name, and leaves nothing under the old. *)
LEMMA RenameMoves ==
  ASSUME CardOK(card), NEW p \in Paths, NEW q \in Paths, Renamable(p, q), NEW r \in Paths, IsPrefix(p, r)
  PROVE  /\ Rename(p, q)[r].kind = "none"
         /\ Moved(p, q, r) \in Paths => Rename(p, q)[Moved(p, q, r)] = card[r]
  <1>1. Kind(p) # "none" /\ Kind(q) = "none" /\ ~IsPrefix(p, q)
    BY DEF Renamable, Creatable
  <1>2. ~IsPrefix(q, r)
    <2> SUFFICES ASSUME IsPrefix(q, r) PROVE FALSE
      OBVIOUS
    <2>1. IsPrefix(q, p)
      BY <1>1, PrefixesCompare
    <2> QED
      BY <1>1, <2>1, InFrontIsThere DEF Kind
  <1>3. Rename(p, q)[r] = Absent
    BY <1>2 DEF Rename
  <1>4. ASSUME Moved(p, q, r) \in Paths
        PROVE  Rename(p, q)[Moved(p, q, r)] = card[r]
    <2> DEFINE m == Moved(p, q, r)
    <2>1. IsPrefix(q, m) /\ Moved(q, p, m) = r /\ m \in Paths
      BY <1>4, MovedBack
    <2> HIDE DEF m
    <2>2. Rename(p, q)[m] = card[r]
      BY <2>1 DEF Rename
    <2> QED
      BY <2>2 DEF m
  <1>5. QED
    BY <1>3, <1>4, AbsentIs

LEMMA MvSingleOK ==
  ASSUME IInv, mv_single
  PROVE  IInv'
  <1>1. run.cmd = "mv" /\ run.at = "rename" /\ SameRest /\ nodes' = Release(nodes, MvHeld(run.to)) /\ before' = before
    BY DEF mv_single, At, SameRest
  <1>2. PICK fault \in Faults : \E outcome \in Renames(Operand, run.to, fault) :
          card' = outcome.card /\ Told(outcome.ok)
    BY DEF mv_single
  <1>3. /\ LineOK /\ CardOK(card) /\ Operand \in Paths /\ MoveFits /\ fault \in BOOLEAN
        /\ \A p \in Paths \ {run.to} : card[p] = before[p]
    BY <1>1, OperandIs, FaultIs DEF IInv, AwayOK
  <1>4. \/ card' = card /\ Told(FALSE)
        \/ card' = Rename(Operand, run.to) /\ Told(TRUE) /\ Renamable(Operand, run.to)
        \/ /\ card' = [r \in Paths |-> IF IsPrefix(Operand, r) THEN Absent ELSE card[r]] /\ Told(TRUE)
           /\ IsPrefix(Operand, run.to)
    <2>1. PICK outcome \in Renames(Operand, run.to, fault) : card' = outcome.card /\ Told(outcome.ok)
      BY <1>2
    <2>2. \/ outcome.card = card /\ outcome.ok = FALSE
          \/ outcome.card = Rename(Operand, run.to) /\ outcome.ok = TRUE /\ Renamable(Operand, run.to)
          \/ /\ outcome.card = [r \in Paths |-> IF IsPrefix(Operand, r) THEN Absent ELSE card[r]] /\ outcome.ok = TRUE
             /\ Kind(Operand) = "dir" /\ IsPrefix(Operand, run.to) /\ Operand # run.to
      BY <1>3, RenamesAre
    <2> QED
      BY <2>1, <2>2
  <1>5. CASE card' = card /\ Told(FALSE)
    BY <1>1, <1>3, <1>5, MvReturnsOK
  <1>6. CASE card' = Rename(Operand, run.to) /\ Told(TRUE) /\ Renamable(Operand, run.to)
    <2>1. run.to \in Paths /\ ~IsPrefix(Operand, run.to)
      BY <1>6 DEF Renamable
    <2>2. CardOK(card)'
      BY <1>3, <1>6, <2>1, RenameKeeps
    <2>3. run'.cmd = "mv" /\ run'.to = run.to /\ Operand' = Operand
      BY <1>1, <1>3, <1>6, ToldIs
    <2>4. ASSUME NEW p \in Paths, IsPrefix(Operand, p)
          PROVE  /\ before[p] # Absent => card'[Moved(Operand, run.to, p)] = before[p]
                 /\ card'[p].kind = "none"
      <3>1. p # run.to /\ card[p] = before[p]
        BY <1>3, <2>1, <2>4
      <3>2. before[p] # Absent => Moved(Operand, run.to, p) \in Paths
        <4>1. before[p] # Absent => Kind(p) # "none"
          BY <1>3, <3>1 DEF CardOK, Kind
        <4> QED
          BY <1>3, <2>1, <2>4, <4>1 DEF MoveFits, Within, IntoItself
      <3> QED
        BY <1>3, <1>6, <2>1, <2>4, <3>1, <3>2, RenameMoves
    <2>5. Done'
      BY <1>1, <2>3, <2>4 DEF Done, Within, Kind
    <2>6. Told(TRUE)
      BY <1>6
    <2> QED
      BY <1>1, <2>2, <2>5, <2>6, MvReturnsOK
  <1>7. CASE /\ card' = [r \in Paths |-> IF IsPrefix(Operand, r) THEN Absent ELSE card[r]] /\ Told(TRUE)
             /\ IsPrefix(Operand, run.to)
    <2>1. CardOK(card)'
      BY <1>3, <1>7, LoseKeeps
    <2>2. run'.cmd = "mv" /\ run'.to = run.to /\ Operand' = Operand
      BY <1>1, <1>3, <1>7, ToldIs
    <2>3. Done'
      BY <1>7, <2>2 DEF Done, IntoItself
    <2> QED
      BY <1>1, <1>7, <2>1, <2>3, MvReturnsOK
  <1>8. QED
    BY <1>4, <1>5, <1>6, <1>7

-----------------------------------------------------------------------------
(* cat into a file. *)
LEMMA CatHolds ==
  ASSUME IInv, run.at \in {"truncate", "open", "copy"}
  PROVE  /\ run.to \in Paths /\ run.to # Root /\ run.to \in Seq(Names) /\ run.cmd = "cat" /\ run.from \in Seq(Paths)
         /\ CardOK(card) /\ nodes \in Caches /\ CardOK(before) /\ LineOK
         /\ \A q \in Paths : /\ nodes[q].refs = AtHome(q) + leaked[q] + Is(run.to, q) /\ Is(run.to, q) \in Nat
                             /\ AtHome(q) \in Nat /\ leaked[q] \in Nat
         /\ nodes[run.to].refs > 0
  <1>1. run.to \in Paths /\ run.to # Root /\ run.cmd = "cat" /\ run.from \in Seq(Paths)
    BY DEF IInv, LineOK, Entries
  <1>2. run.to \in Seq(Names)
    BY <1>1, PathsAreSequences
  <1>3. \A q \in Paths : /\ nodes[q].refs = AtHome(q) + leaked[q] + Is(run.to, q) /\ Is(run.to, q) \in Nat
                         /\ AtHome(q) \in Nat /\ leaked[q] \in Nat
    BY <1>1, HoldsOne, AtHomeCounts DEF IInv, NodesOK, Is
  <1>4. nodes[run.to].refs > 0
    BY <1>1, <1>3 DEF Is
  <1>5. QED
    BY <1>1, <1>2, <1>3, <1>4 DEF IInv, NodesOK, AwayOK

LEMMA CatReturnsOK ==
  ASSUME IInv, run.at \in {"truncate", "open", "copy"}, NEW ok \in BOOLEAN, Told(ok),
         nodes' = vfs_node_release(nodes, run.to), SameRest, CardOK(card)', ok => Done'
  PROVE  IInv'
  <1>1. UNCHANGED <<iters, cwd, calls, before, leaked>> /\ run.at # "prompt" /\ run.cmd = "cat"
    BY DEF SameRest, IInv, LineOK
  <1>2. /\ run.to \in Paths /\ nodes \in Caches /\ nodes[run.to].refs > 0
        /\ \A q \in Paths : /\ nodes[q].refs = AtHome(q) + leaked[q] + Is(run.to, q) /\ Is(run.to, q) \in Nat
                            /\ AtHome(q) \in Nat /\ leaked[q] \in Nat
    BY CatHolds
  <1>3. /\ nodes' \in Caches
        /\ \A q \in Paths : /\ nodes'[q].refs = nodes[q].refs - Is(run.to, q)
                            /\ nodes'[q].refs > 0 => nodes'[q].type = nodes[q].type
    BY <1>2, OneGiven
  <1>4. ASSUME NEW q \in Paths PROVE nodes'[q].refs = AtHome(q) + leaked[q]
    <2>1. nodes'[q].refs = ((AtHome(q) + leaked[q]) + Is(run.to, q)) - Is(run.to, q)
      BY <1>2, <1>3
    <2> QED
      BY <1>2, <2>1
  <1>5. calls' = <<>> /\ iters' = 0
    <2>1. run'.at = "told"
      BY ToldIs DEF IInv
    <2> QED
      BY <1>1, <2>1, NoCalls
  <1>6. QED
    BY <1>1, <1>3, <1>4, <1>5, ReturnsNodes

LEMMA CatContinues ==
  ASSUME IInv, run.at \in {"truncate", "open", "copy"}, NEW at \in {"open", "copy"}, NEW copied \in Nat,
         run' = [run EXCEPT !.at = at, !.copied = copied], UNCHANGED nodes, SameRest, CardOK(card)', AwayOK'
  PROVE  IInv'
  <1>1. UNCHANGED <<iters, cwd, calls, before, leaked>> /\ run.at # "prompt" /\ at \in Working
    BY DEF SameRest, Working
  <1>2. /\ run.to \in Paths /\ nodes \in Caches /\ run.to \in Seq(Names) /\ run.cmd = "cat" /\ LineOK
        /\ \A q \in Paths : nodes[q].refs = AtHome(q) + leaked[q] + Is(run.to, q) /\ Is(run.to, q) \in Nat
    BY CatHolds
  <1>3. run' = [run EXCEPT !.at = at, !.to = run.to, !.copied = copied] /\ run'.at = at /\ run'.to = run.to
    BY <1>2 DEF LineOK
  <1>4. Holding' = <<run.to>>
    BY <1>3 DEF Holding
  <1>5. ASSUME NEW p \in Paths
        PROVE  /\ nodes'[p].refs = AtHome(p) + leaked[p] + Times(Holding', p) /\ Times(Holding', p) \in Nat
               /\ nodes[p].refs > 0 /\ nodes'[p].refs > 0 => nodes'[p].type = nodes[p].type
    BY <1>2, <1>4, TimesOne
  <1>6. CallsOK'
    BY <1>1, <1>3, NoCalls
  <1>7. nodes' \in Caches
    BY <1>2
  <1>8. QED
    BY <1>1, <1>2, <1>3, <1>5, <1>6, <1>7, Continues

LEMMA CatOutputOK ==
  ASSUME IInv, cat_output
  PROVE  IInv'
  <1> DEFINE out == run.to
             dir == Front(out)
             held == Hold(nodes, dir)
             Make(existsFault, fault) == sd_dir_create(held, out, "file", existsFault, fault)
             file(existsFault, fault) == Make(existsFault, fault).ok /\ ~IsDir(Make(existsFault, fault).nodes, out)
  <1>1. run.cmd = "cat" /\ run.at = "start" /\ UNCHANGED <<iters, cwd, calls, before, leaked>>
    BY DEF cat_output, At, SameRest
  <1>2. PICK lookFault \in Faults, dirFault \in Faults, existsFault \in Faults, fault \in Faults :
          \/ /\ vfs_resolve(nodes, out, lookFault)
             /\ IF IsDir(Hold(nodes, out), out) THEN Told(FALSE) /\ UNCHANGED nodes
                ELSE run' = [run EXCEPT !.at = "truncate"] /\ nodes' = Hold(nodes, out)
             /\ UNCHANGED card
          \/ Told(FALSE) /\ UNCHANGED <<card, nodes>>
          \/ /\ card' = Make(existsFault, fault).card
             /\ IF file(existsFault, fault) THEN run' = [run EXCEPT !.at = "truncate"] ELSE Told(FALSE)
             /\ nodes' = Release(Make(existsFault, fault).nodes, IF Make(existsFault, fault).ok /\ ~file(existsFault, fault) THEN <<out, dir>> ELSE <<dir>>)
    BY ZenonT(40) DEF cat_output
  <1>3. /\ LineOK /\ CardOK(card) /\ nodes \in Caches /\ before = card
        /\ \A p \in Paths : nodes[p].refs = AtHome(p) + leaked[p] /\ AtHome(p) \in Nat /\ leaked[p] \in Nat
    BY <1>1, AtStart DEF NodesOK, IInv
  <1>4. out \in Paths /\ out # Root /\ out \in Seq(Names) /\ dir \in Paths /\ dir # out
    <2>1. out \in Paths /\ out # Root
      BY <1>1, <1>3 DEF LineOK, Entries
    <2> QED
      BY <2>1, PathsAreSequences, FrontPrefix
  <1>5. CASE Told(FALSE) /\ UNCHANGED <<card, nodes>>
    BY <1>1, <1>3, <1>5, ReturnsAtStart
  <1>6. ASSUME run' = [run EXCEPT !.at = "truncate"], CardOK(card)', \A p \in Paths : p # out => card'[p] = card[p],
               nodes' \in Caches, \A p \in Paths : /\ nodes'[p].refs = nodes[p].refs + Is(out, p)
                                                   /\ nodes[p].refs > 0 => nodes'[p].type = nodes[p].type
        PROVE  IInv'
    <2>1. run' = [run EXCEPT !.at = "truncate", !.to = run.to, !.copied = run.copied] /\ run.copied \in Nat
      BY <1>3, <1>6 DEF LineOK
    <2>2. run'.at = "truncate" /\ run'.to = run.to /\ run'.copied = run.copied
      BY <1>3, <1>6 DEF LineOK
    <2>3. Holding' = <<out>>
      BY <2>2 DEF Holding
    <2>4. \A p \in Paths : Times(Holding', p) = Is(out, p) /\ Is(out, p) \in Nat
      BY <1>4, <2>3, TimesOne DEF Is
    <2>5. ASSUME NEW p \in Paths
          PROVE  /\ nodes'[p].refs = AtHome(p) + leaked[p] + Times(Holding', p) /\ Times(Holding', p) \in Nat
                 /\ nodes[p].refs > 0 /\ nodes'[p].refs > 0 => nodes'[p].type = nodes[p].type
      BY <1>3, <1>6, <2>4
    <2>6. CallsOK'
      BY <1>1, <2>2, NoCalls
    <2>7. AwayOK'
      BY <1>1, <1>3, <1>6, <2>2 DEF IInv, AwayOK, CardOK
    <2>8. "truncate" \in Working /\ run.at # "prompt"
      BY <1>1 DEF Working
    <2>9. CardOK(card)' /\ nodes' \in Caches
      BY <1>6
    <2> QED
      BY <1>1, <1>4, <2>1, <2>5, <2>6, <2>7, <2>8, <2>9, Continues
  <1>7. CASE /\ vfs_resolve(nodes, out, lookFault)
             /\ IF IsDir(Hold(nodes, out), out) THEN Told(FALSE) /\ UNCHANGED nodes
                ELSE run' = [run EXCEPT !.at = "truncate"] /\ nodes' = Hold(nodes, out)
             /\ UNCHANGED card
    <2>1. CASE IsDir(Hold(nodes, out), out)
      BY <1>5, <1>7, <2>1
    <2>2. CASE ~IsDir(Hold(nodes, out), out)
      <3>1. run' = [run EXCEPT !.at = "truncate"] /\ nodes' = Hold(nodes, out) /\ card' = card
        BY <1>7, <2>2
      <3>2. /\ nodes' \in Caches /\ \A p \in Paths : /\ nodes'[p].refs = nodes[p].refs + Is(out, p)
                                                     /\ nodes[p].refs > 0 => nodes'[p].type = nodes[p].type
        BY <1>3, <1>4, <3>1, HoldIs
      <3> QED
        BY <1>3, <1>6, <3>1, <3>2
    <2> QED
      BY <2>1, <2>2
  <1>8. CASE /\ card' = Make(existsFault, fault).card
             /\ IF file(existsFault, fault) THEN run' = [run EXCEPT !.at = "truncate"] ELSE Told(FALSE)
             /\ nodes' = Release(Make(existsFault, fault).nodes, IF Make(existsFault, fault).ok /\ ~file(existsFault, fault) THEN <<out, dir>> ELSE <<dir>>)
    <2> DEFINE made == Make(existsFault, fault)
               isFile == file(existsFault, fault)
               ps == IF made.ok /\ ~isFile THEN <<out, dir>> ELSE <<dir>>
    <2>1. /\ held \in Caches /\ \A q \in Paths : held[q].refs = nodes[q].refs + Is(dir, q)
          /\ \A q \in Paths : nodes[q].refs > 0 => held[q].type = nodes[q].type
      BY <1>3, <1>4, HoldIs
    <2> HIDE DEF held
    <2>2. Makes(made, held, out, "file")
      <3>1. existsFault \in BOOLEAN /\ fault \in BOOLEAN /\ "file" \in {"dir", "file"}
        BY FaultIs
      <3> QED
        BY <1>3, <1>4, <2>1, <3>1, CreateIs
    <2>3. isFile \in BOOLEAN /\ (isFile => made.ok)
      BY <2>2 DEF Makes
    <2>4. /\ card' = made.card /\ nodes' = Release(made.nodes, ps)
          /\ IF isFile THEN run' = [run EXCEPT !.at = "truncate"] ELSE Told(FALSE)
      BY <1>8
    <2> HIDE DEF made, Make, isFile, file
    <2>5. /\ CardOK(made.card) /\ made.ok \in BOOLEAN /\ made.nodes \in Caches
          /\ \A q \in Paths : made.nodes[q].refs = held[q].refs + (IF made.ok THEN Is(out, q) ELSE 0)
          /\ \A q \in Paths : held[q].refs > 0 => made.nodes[q].type = held[q].type
          /\ \A q \in Paths : q # out => made.card[q] = card[q]
      BY <2>2 DEF Makes
    <2>6. \A p, q \in Paths : Is(p, q) \in Nat
      BY DEF Is
    <2>7. \A q \in Paths : nodes[q].refs \in Nat
      BY <1>3 DEF Caches
    <2>8. \A q \in Paths : Times(ps, q) = (IF made.ok /\ ~isFile THEN Is(out, q) ELSE 0) + Is(dir, q)
      <3>1. \A q \in Paths : Times(<<out, dir>>, q) = Is(out, q) + Is(dir, q) /\ Times(<<dir>>, q) = 0 + Is(dir, q)
        BY <1>4, <2>6, TimesTwo, TimesOne
      <3> QED
        BY <3>1
    <2> HIDE DEF ps
    <2>9. ASSUME NEW q \in Paths
          PROVE  /\ Times(ps, q) \in Nat /\ Times(ps, q) <= made.nodes[q].refs
                 /\ made.nodes[q].refs - Times(ps, q) = nodes[q].refs + (IF isFile THEN Is(out, q) ELSE 0)
      <3>1. made.nodes[q].refs = (nodes[q].refs + Is(dir, q)) + (IF made.ok THEN Is(out, q) ELSE 0)
        BY <2>1, <2>5
      <3>2. Times(ps, q) = (IF made.ok /\ ~isFile THEN Is(out, q) ELSE 0) + Is(dir, q)
        BY <2>8
      <3>3. nodes[q].refs \in Nat /\ Is(dir, q) \in Nat /\ Is(out, q) \in Nat
        BY <1>4, <2>6, <2>7
      <3> QED
        BY <2>3, <3>1, <3>2, <3>3
    <2>10. /\ nodes' \in Caches
           /\ \A q \in Paths : /\ nodes'[q].refs = nodes[q].refs + (IF isFile THEN Is(out, q) ELSE 0)
                               /\ nodes'[q].refs > 0 => nodes'[q].type = made.nodes[q].type
      <3>1. \A p \in Paths : Times(ps, p) \in Nat /\ Times(ps, p) <= made.nodes[p].refs
        BY <2>9
      <3>2. /\ nodes' \in Caches
            /\ \A p \in Paths : /\ nodes'[p].refs = made.nodes[p].refs - Times(ps, p)
                                /\ nodes'[p].refs > 0 => nodes'[p].type = made.nodes[p].type
        BY <2>4, <2>5, <3>1, ReleaseGives
      <3> QED
        BY <2>9, <3>2
    <2>11. \A q \in Paths : nodes[q].refs > 0 => nodes'[q].type = nodes[q].type
      <3> SUFFICES ASSUME NEW q \in Paths, nodes[q].refs > 0 PROVE nodes'[q].type = nodes[q].type
        OBVIOUS
      <3>1. nodes'[q].refs > 0 /\ held[q].refs > 0
        <4>1. nodes'[q].refs = nodes[q].refs + (IF isFile THEN Is(out, q) ELSE 0) /\ held[q].refs = nodes[q].refs + Is(dir, q)
          BY <2>1, <2>10
        <4>2. nodes[q].refs \in Nat /\ Is(dir, q) \in Nat /\ Is(out, q) \in Nat
          BY <1>4, <2>6, <2>7
        <4> QED
          BY <4>1, <4>2
      <3> QED
        BY <2>1, <2>5, <2>10, <3>1
    <2>12. CardOK(card)' /\ \A p \in Paths : p # out => card'[p] = card[p]
      BY <2>4, <2>5
    <2>13. CASE isFile
      <3>1. \A p \in Paths : nodes'[p].refs = nodes[p].refs + Is(out, p)
        BY <2>10, <2>13
      <3> QED
        BY <1>6, <2>4, <2>10, <2>11, <2>12, <2>13, <3>1
    <2>14. CASE ~isFile
      <3>1. \A p \in Paths : nodes'[p].refs = AtHome(p) + leaked'[p]
        BY <1>1, <1>3, <2>7, <2>10, <2>14
      <3>2. run' = [run EXCEPT !.at = "told", !.ok = FALSE, !.to = run.to] /\ run.to \in Seq(Names) \cup {NULL}
        BY <1>3, <2>4, <2>14 DEF Told, LineOK
      <3>3. leaked' \in [Paths -> Nat]
        BY <1>1 DEF IInv, NodesOK
      <3> QED
        BY <1>1, <2>10, <2>11, <2>12, <3>1, <3>2, <3>3, ReturnsLeaks
    <2> QED
      BY <2>13, <2>14
  <1>9. QED
    BY <1>2, <1>5, <1>7, <1>8

LEMMA CatTruncateOK ==
  ASSUME IInv, cat_truncate
  PROVE  IInv'
  <1>1. /\ run.cmd = "cat" /\ run.at = "truncate" /\ SameRest /\ UNCHANGED nodes /\ before' = before
        /\ run' = [run EXCEPT !.at = "open"]
    BY DEF cat_truncate, At, SameRest
  <1>2. /\ run.to \in Paths /\ CardOK(card) /\ CardOK(before) /\ LineOK /\ run.copied = 0
        /\ \A p \in Paths \ {run.to} : card[p] = before[p]
    BY <1>1, CatHolds DEF IInv, AwayOK
  <1> DEFINE gone(fault) == Removable(run.to) /\ ~fault
  <1>3. PICK fault \in Faults : card' = IF gone(fault) THEN [card EXCEPT ![run.to] = Absent] ELSE card
    BY DEF cat_truncate
  <1> DEFINE ok == gone(fault)
  <1>4. ok \in BOOLEAN /\ (ok => Removable(run.to))
    OBVIOUS
  <1>5. card' = IF ok THEN [card EXCEPT ![run.to] = Absent] ELSE card
    BY <1>3
  <1> HIDE DEF ok
  <1>6. CardOK(card)' /\ \A q \in Paths : q # run.to => card'[q] = card[q]
    BY <1>2, <1>4, <1>5, RemovedIs
  <1>7. /\ run'.at = "open" /\ run'.to = run.to /\ run'.copied = 0
        /\ run' = [run EXCEPT !.at = "open", !.copied = run.copied] /\ run.copied \in Nat
    BY <1>1, <1>2 DEF LineOK
  <1>8. AwayOK'
    BY <1>1, <1>2, <1>6, <1>7 DEF AwayOK, CardOK
  <1>9. QED
    BY <1>1, <1>6, <1>7, <1>8, CatContinues

(* What is copied, text by text. *)
LEMMA CopyMore ==
  ASSUME NEW S, NEW ss \in Seq(Seq(S))
  PROVE  /\ FlattenSeq(SubSeq(ss, 1, 0)) = <<>> /\ SubSeq(ss, 1, Len(ss)) = ss
         /\ \A k \in Nat : k < Len(ss) =>
              /\ FlattenSeq(SubSeq(ss, 1, k)) \in Seq(S)
              /\ FlattenSeq(SubSeq(ss, 1, k + 1)) = FlattenSeq(SubSeq(ss, 1, k)) \o ss[k + 1]
  <1>1. Len(ss) \in Nat /\ \A i \in 1..Len(ss) : ss[i] \in Seq(S)
    BY LenProperties, ElementOfSeq
  <1>2. ASSUME NEW k \in Nat, k <= Len(ss)
        PROVE  /\ SubSeq(ss, 1, k) \in Seq(Seq(S)) /\ Len(SubSeq(ss, 1, k)) = k
               /\ \A i \in 1..k : SubSeq(ss, 1, k)[i] = ss[i]
    <2> DEFINE u == SubSeq(ss, 1, k)
    <2>1. \A i \in 1..k : ss[i] \in Seq(S)
      BY <1>1, <1>2
    <2>2. 1 \in Int /\ k \in Int
      OBVIOUS
    <2>3. /\ u \in Seq(Seq(S)) /\ Len(u) = (IF 1 <= k THEN k - 1 + 1 ELSE 0)
          /\ \A i \in 1..(k - 1 + 1) : u[i] = ss[1 + i - 1]
      BY <2>1, <2>2, SubSeqProperties
    <2> HIDE DEF u
    <2>4. k - 1 + 1 = k /\ ((IF 1 <= k THEN k - 1 + 1 ELSE 0) = k) /\ \A i \in 1..k : 1 + i - 1 = i
      OBVIOUS
    <2>5. u \in Seq(Seq(S)) /\ Len(u) = k /\ \A i \in 1..k : u[i] = ss[i]
      BY <2>3, <2>4
    <2> QED
      BY <2>5 DEF u
  <1>3. ASSUME NEW k \in Nat, k < Len(ss)
        PROVE  /\ FlattenSeq(SubSeq(ss, 1, k)) \in Seq(S)
               /\ FlattenSeq(SubSeq(ss, 1, k + 1)) = FlattenSeq(SubSeq(ss, 1, k)) \o ss[k + 1]
    <2> DEFINE u == SubSeq(ss, 1, k)
               v == SubSeq(ss, 1, k + 1)
               x == ss[k + 1]
               t == Append(u, x)
    <2>1. k + 1 \in Nat /\ k + 1 <= Len(ss) /\ k + 1 \in 1..Len(ss) /\ k <= Len(ss)
      BY <1>1, <1>3
    <2>2. /\ u \in Seq(Seq(S)) /\ Len(u) = k /\ \A i \in 1..k : u[i] = ss[i]
      BY <1>2, <2>1
    <2>3. /\ v \in Seq(Seq(S)) /\ Len(v) = k + 1 /\ \A i \in 1..(k + 1) : v[i] = ss[i]
      BY <1>2, <2>1
    <2>4. x \in Seq(S)
      BY <1>1, <2>1
    <2> HIDE DEF u, v
    <2>5. t \in Seq(Seq(S)) /\ Len(t) = Len(u) + 1 /\ (\A i \in 1..Len(u) : t[i] = u[i]) /\ t[Len(u) + 1] = x
      BY <2>2, <2>4, AppendProperties
    <2>6. FlattenSeq(u) \in Seq(S) /\ FlattenSeq(t) = FlattenSeq(u) \o x
      BY <2>2, <2>4, FlattenAppend
    <2> HIDE DEF t
    <2>7. \A i \in 1..(k + 1) : v[i] = t[i]
      <3> SUFFICES ASSUME NEW i \in 1..(k + 1) PROVE v[i] = t[i]
        OBVIOUS
      <3>1. CASE i = k + 1
        BY <2>2, <2>3, <2>5, <3>1
      <3>2. CASE i # k + 1
        <4>1. i \in 1..k
          BY <3>2
        <4> QED
          BY <2>2, <2>3, <2>5, <4>1
      <3> QED
        BY <3>1, <3>2
    <2>8. v = t
      <3>1. Len(v) = Len(t) /\ \A i \in 1..Len(v) : v[i] = t[i]
        BY <2>2, <2>3, <2>5, <2>7
      <3> QED
        BY <2>3, <2>5, <3>1, SeqEqual
    <2> QED
      BY <2>6, <2>8 DEF u, v
  <1>4. FlattenSeq(SubSeq(ss, 1, 0)) = <<>>
    <2> DEFINE u == SubSeq(ss, 1, 0)
    <2>1. u \in Seq(Seq(S)) /\ Len(u) = 0
      BY <1>1, <1>2
    <2> HIDE DEF u
    <2>2. u = <<>>
      BY <2>1, EmptySeq
    <2>3. FlattenSeq(<<>>) = <<>>
      BY EmptySeq, Zenon DEF FlattenSeq
    <2> QED
      BY <2>2, <2>3 DEF u
  <1>5. SubSeq(ss, 1, Len(ss)) = ss
    BY SubSeqFull
  <1>6. QED
    BY <1>3, <1>4, <1>5

LEMMA CatOpenOK ==
  ASSUME IInv, cat_open
  PROVE  IInv'
  <1> DEFINE out == run.to
  <1>1. run.cmd = "cat" /\ run.at = "open" /\ SameRest /\ before' = before
    BY DEF cat_open, At, SameRest
  <1>2. PICK fault \in Faults :
          IF (Kind(out) = "file" \/ Creatable(out)) /\ ~fault
          THEN card' = [card EXCEPT ![out] = File(<<>>)] /\ run' = [run EXCEPT !.at = "copy"] /\ UNCHANGED nodes
          ELSE UNCHANGED card /\ Told(FALSE) /\ nodes' = vfs_node_release(nodes, out)
    BY DEF cat_open
  <1>3. /\ out \in Paths /\ out # Root /\ CardOK(card) /\ CardOK(before) /\ LineOK /\ run.copied = 0
        /\ \A p \in Paths \ {out} : card[p] = before[p]
        /\ run.from \in Seq(Paths)
    BY <1>1, CatHolds DEF IInv, AwayOK
  <1>4. CASE ~((Kind(out) = "file" \/ Creatable(out)) /\ ~fault)
    <2>1. CardOK(card)' /\ Told(FALSE) /\ nodes' = vfs_node_release(nodes, out)
      BY <1>2, <1>3, <1>4
    <2> QED
      BY <1>1, <2>1, CatReturnsOK
  <1>5. CASE (Kind(out) = "file" \/ Creatable(out)) /\ ~fault
    <2>1. /\ card' = [card EXCEPT ![out] = File(<<>>)] /\ run' = [run EXCEPT !.at = "copy"] /\ nodes' = nodes
      BY <1>2, <1>5
    <2>2. CardOK(card)'
      <3>1. <<>> \in Seq(Letters)
        BY EmptySeq
      <3> QED
        BY <1>3, <1>5, <2>1, <3>1, WriteKeeps
    <2>3. card'[out] = File(<<>>) /\ \A p \in Paths : p # out => card'[p] = card[p]
      BY <1>3, <2>1 DEF CardOK
    <2>4. card'[out].kind = "file" /\ card'[out].text = <<>>
      BY <2>3 DEF File
    <2>5. /\ run'.at = "copy" /\ run'.to = run.to /\ run'.copied = 0 /\ run'.from = run.from
          /\ run' = [run EXCEPT !.at = "copy", !.copied = run.copied] /\ run.copied \in Nat
      BY <1>3, <2>1 DEF LineOK
    <2>6. AwayOK'
      <3>1. run.from # <<>> => 0 < Len(run.from)
        BY <1>3, EmptySeq, LenProperties
      <3>2. FlattenSeq(SubSeq(TextsOf(before, run.from), 1, 0)) = <<>>
        <4> DEFINE ts == TextsOf(before, run.from)
        <4>1. ts \in Seq(Seq(Letters))
          <5>1. DOMAIN run.from = 1..Len(run.from) /\ Len(run.from) \in Nat /\ \A i \in 1..Len(run.from) : run.from[i] \in Paths
            BY <1>3, LenProperties, ElementOfSeq
          <5>2. \A p \in Paths : before[p].text \in Seq(Letters)
            BY <1>3 DEF CardOK
          <5> QED
            BY <5>1, <5>2 DEF TextsOf
        <4> HIDE DEF ts
        <4>2. FlattenSeq(SubSeq(ts, 1, 0)) = <<>>
          BY <4>1, CopyMore
        <4> QED
          BY <4>2 DEF ts
      <3>3. CardOK(before)' /\ TextsOf(before, run.from)' = TextsOf(before, run.from)
        BY <1>1, <1>3, <2>5 DEF TextsOf
      <3>4. Kind(run.to)' = "file"
        BY <2>4, <2>5 DEF Kind
      <3>5. \A p \in Paths \ {run.to} : card'[p] = before'[p]
        BY <1>1, <1>3, <2>3
      <3> QED
        BY <1>1, <2>4, <2>5, <3>1, <3>2, <3>3, <3>4, <3>5 DEF AwayOK
    <2> QED
      BY <1>1, <2>1, <2>2, <2>5, <2>6, CatContinues
  <1>6. QED
    BY <1>4, <1>5

LEMMA TextsAre ==
  ASSUME NEW c, CardOK(c), NEW from \in Seq(Paths)
  PROVE  /\ TextsOf(c, from) \in Seq(Seq(Letters)) /\ Len(TextsOf(c, from)) = Len(from) /\ Len(from) \in Nat
         /\ DOMAIN from = 1..Len(from)
         /\ \A i \in 1..Len(from) : TextsOf(c, from)[i] = c[from[i]].text /\ from[i] \in Paths
  <1>1. DOMAIN from = 1..Len(from) /\ Len(from) \in Nat /\ \A i \in 1..Len(from) : from[i] \in Paths
    BY LenProperties, ElementOfSeq
  <1>2. \A p \in Paths : c[p].text \in Seq(Letters)
    BY DEF CardOK
  <1>3. TextsOf(c, from) = [i \in 1..Len(from) |-> c[from[i]].text]
    BY <1>1 DEF TextsOf
  <1>4. QED
    BY <1>1, <1>2, <1>3

LEMMA CopiedOK ==
  ASSUME IInv, At("cat", "copy"), SameRest, NEW text \in Seq(Letters), Copied(text),
         run.from = <<>> => text \in Texts,
         run.from # <<>> => run.copied < Len(run.from) /\ text = card[run.from[run.copied + 1]].text
  PROVE  IInv'
  <1> DEFINE to == run.to
             ts == TextsOf(before, run.from)
             k == run.copied
             old == card[to].text
  <1>1. run.cmd = "cat" /\ run.at = "copy" /\ before' = before
    BY DEF At, SameRest
  <1>2. /\ to \in Paths /\ to # Root /\ CardOK(card) /\ CardOK(before) /\ LineOK /\ run.from \in Seq(Paths)
        /\ k \in Nat /\ Kind(to) = "file" /\ \A p \in Paths \ {to} : card[p] = before[p]
    BY <1>1, CatHolds DEF IInv, AwayOK, LineOK
  <1>3. PICK fault \in Faults, n \in 0..Len(text) :
          /\ fault \/ n = Len(text)
          /\ card' = [card EXCEPT ![to].text = @ \o SubSeq(text, 1, n)]
          /\ IF ~fault /\ k + 1 < Len(run.from)
             THEN run' = [run EXCEPT !.copied = @ + 1] /\ UNCHANGED nodes
             ELSE Told(~fault) /\ nodes' = vfs_node_release(nodes, to)
    BY DEF Copied
  <1>4. fault \in BOOLEAN
    BY FaultIs
  <1> DEFINE more == SubSeq(text, 1, n)
             new == old \o more
  <1>5. more \in Seq(Letters) /\ (n = Len(text) => more = text)
    <2>1. Len(text) \in Nat /\ \A i \in 1..Len(text) : text[i] \in Letters
      BY LenProperties, ElementOfSeq
    <2>2. \A i \in 1..n : text[i] \in Letters
      BY <2>1
    <2>3. 1 \in Int /\ n \in Int
      BY <2>1
    <2>4. more \in Seq(Letters)
      BY <2>2, <2>3, SubSeqProperties
    <2> QED
      BY <2>4, SubSeqFull
  <1>6. old \in Seq(Letters)
    BY <1>2 DEF CardOK
  <1>7. card' = [card EXCEPT ![to] = [card[to] EXCEPT !.text = new]]
    BY <1>3
  <1> HIDE DEF more
  <1>8. new \in Seq(Letters)
    BY <1>5, <1>6, ConcatProperties
  <1> HIDE DEF new
  <1>9. card' = [card EXCEPT ![to] = File(new)]
    <2>1. [card[to] EXCEPT !.text = new] = File(new)
      BY <1>2 DEF CardOK, Kind, File
    <2> QED
      BY <1>7, <2>1
  <1>10. CardOK(card)'
    BY <1>2, <1>8, <1>9, WriteKeeps
  <1>11. card'[to] = File(new) /\ \A p \in Paths : p # to => card'[p] = card[p]
    BY <1>2, <1>9 DEF CardOK
  <1>12. File(new).kind = "file" /\ File(new).text = new
    BY DEF File
  <1>13. /\ ts \in Seq(Seq(Letters)) /\ Len(ts) = Len(run.from) /\ Len(run.from) \in Nat /\ DOMAIN run.from = 1..Len(run.from)
         /\ \A i \in 1..Len(run.from) : ts[i] = before[run.from[i]].text /\ run.from[i] \in Paths
    BY <1>2, TextsAre
  <1>14. ASSUME ~fault, run.from # <<>>, \A i \in 1..Len(run.from) : run.from[i] # to
         PROVE  new = FlattenSeq(SubSeq(ts, 1, k + 1)) /\ k < Len(run.from)
    <2>1. k < Len(run.from) /\ k + 1 \in 1..Len(run.from)
      BY <1>2, <1>13, <1>14
    <2>2. text = ts[k + 1]
      BY <1>2, <1>13, <1>14, <2>1
    <2>3. to \notin Range(run.from)
      BY <1>13, <1>14 DEF Range
    <2>4. old = FlattenSeq(SubSeq(ts, 1, k))
      BY <1>1, <2>3 DEF IInv, AwayOK
    <2> HIDE DEF ts
    <2>5. FlattenSeq(SubSeq(ts, 1, k + 1)) = FlattenSeq(SubSeq(ts, 1, k)) \o ts[k + 1]
      BY <1>2, <1>13, <2>1, CopyMore
    <2>6. more = text
      BY <1>3, <1>5, <1>14
    <2> QED
      BY <2>1, <2>2, <2>4, <2>5, <2>6 DEF new
  <1>15. CASE ~fault /\ k + 1 < Len(run.from)
    <2>1. run' = [run EXCEPT !.copied = @ + 1] /\ UNCHANGED nodes
      BY <1>3, <1>15
    <2>2. /\ run' = [run EXCEPT !.at = "copy", !.copied = k + 1] /\ run'.at = "copy" /\ run'.to = to
          /\ run'.copied = k + 1 /\ run'.from = run.from /\ k + 1 \in Nat
      <3> DEFINE m == k + 1
      <3>1. run' = [run EXCEPT !.copied = m] /\ m \in Nat
        BY <1>2, <2>1
      <3> HIDE DEF m
      <3>2. run' = [run EXCEPT !.at = "copy", !.copied = m] /\ run'.at = "copy" /\ run'.to = to
            /\ run'.copied = m /\ run'.from = run.from
        BY <1>1, <1>2, <3>1 DEF LineOK
      <3> QED
        BY <3>1, <3>2 DEF m
    <2>3. run.from # <<>>
      <3>1. Len(run.from) # 0
        BY <1>2, <1>13, <1>15
      <3> QED
        BY <3>1
    <2>4. AwayOK'
      <3>1. to \in Range(run.from) \/ card'[to].text = FlattenSeq(SubSeq(ts, 1, k + 1))
        BY <1>11, <1>12, <1>13, <1>14, <1>15, <2>3 DEF Range
      <3>2. TextsOf(before, run.from)' = ts /\ CardOK(before)' /\ Range(run.from)' = Range(run.from)
        BY <1>1, <1>2, <2>2 DEF TextsOf, Range
      <3>3. \A p \in Paths \ {to} : card'[p] = before'[p]
        BY <1>1, <1>2, <1>11
      <3>4. Kind(run.to)' = "file"
        BY <1>11, <1>12, <2>2 DEF Kind
      <3> HIDE DEF ts
      <3> QED
        BY <1>15, <2>2, <2>3, <3>1, <3>2, <3>3, <3>4 DEF AwayOK
    <2>5. "copy" \in {"open", "copy"} /\ run.at \in {"truncate", "open", "copy"}
      BY <1>1
    <2> QED
      BY <1>10, <2>1, <2>2, <2>4, <2>5, CatContinues
  <1>16. CASE ~(~fault /\ k + 1 < Len(run.from))
    <2> DEFINE ok == ~fault
    <2>1. ok \in BOOLEAN /\ Told(ok) /\ nodes' = vfs_node_release(nodes, to)
      BY <1>3, <1>4, <1>16
    <2>2. ok => Done'
      <3> SUFFICES ASSUME ~fault PROVE Done'
        OBVIOUS
      <3>1. run'.cmd = "cat" /\ run'.from = run.from /\ run'.to = to
        BY <1>1, <1>2, <2>1, ToldIs
      <3>2. CASE run.from = <<>>
        <4>1. old = <<>> /\ text \in Texts
          BY <1>1, <3>2 DEF IInv, AwayOK
        <4>2. new = text
          <5>1. more = text
            BY <1>3, <1>5
          <5> QED
            BY <4>1, <5>1, ConcatEmptySeq DEF new
        <4> QED
          BY <1>11, <1>12, <3>1, <3>2, <4>1, <4>2 DEF Done
      <3>3. CASE run.from # <<>> /\ \E i \in 1..Len(run.from) : run.from[i] = to
        BY <1>13, <3>1, <3>3 DEF Done
      <3>4. CASE run.from # <<>> /\ \A i \in 1..Len(run.from) : run.from[i] # to
        <4>1. new = FlattenSeq(SubSeq(ts, 1, k + 1)) /\ k < Len(run.from)
          BY <1>14, <3>4
        <4>2. k + 1 = Len(ts)
          BY <1>2, <1>13, <1>16, <4>1
        <4> HIDE DEF ts
        <4>3. SubSeq(ts, 1, Len(ts)) = ts
          BY <1>13, CopyMore
        <4>4. card'[to] = File(FlattenSeq(ts))
          BY <1>11, <4>1, <4>2, <4>3
        <4>5. [i \in DOMAIN run'.from |-> before'[run'.from[i]].text] = ts
          BY <1>1, <3>1 DEF ts, TextsOf
        <4>6. card'[run'.to] = File(FlattenSeq([i \in DOMAIN run'.from |-> before'[run'.from[i]].text]))
          BY <3>1, <4>4, <4>5
        <4> QED
          BY <3>1, <3>4, <4>6 DEF Done
      <3> QED
        BY <3>2, <3>3, <3>4
    <2> HIDE DEF ok
    <2>3. run.at \in {"truncate", "open", "copy"}
      BY <1>1
    <2> QED
      BY <1>10, <2>1, <2>2, <2>3, CatReturnsOK
  <1>17. QED
    BY <1>15, <1>16

LEMMA CatPipedOK ==
  ASSUME IInv, cat_piped
  PROVE  IInv'
  <1>1. At("cat", "copy") /\ run.from = <<>> /\ SameRest
    BY DEF cat_piped
  <1>2. PICK text \in Texts : Copied(text)
    BY DEF cat_piped
  <1>3. text \in Seq(Letters)
    BY CommandsAssumption DEF Letters
  <1>4. QED
    BY <1>1, <1>2, <1>3, CopiedOK

LEMMA CatOK ==
  ASSUME IInv, cmd_cat
  PROVE  IInv'
  <1> DEFINE input == run.from[run.copied + 1]
  <1>1. At("cat", "copy") /\ run.at = "copy" /\ run.copied < Len(run.from) /\ SameRest
    BY DEF cmd_cat, At
  <1>2. run.from \in Seq(Paths) /\ CardOK(card) /\ run.copied \in Nat
    BY <1>1, CatHolds DEF LineOK
  <1>3. input \in Paths
    <2>1. run.copied + 1 \in 1..Len(run.from)
      BY <1>1, <1>2, LenProperties
    <2> QED
      BY <1>2, <2>1, ElementOfSeq
  <1>4. run.from # <<>>
    <2>1. Len(run.from) # 0
      BY <1>1, <1>2
    <2> QED
      BY <2>1
  <1>5. CASE Copied(card[input].text)
    <2> DEFINE text == card[input].text
    <2>1. text \in Seq(Letters)
      BY <1>2, <1>3 DEF CardOK
    <2>2. Copied(text) /\ text = card[run.from[run.copied + 1]].text
      BY <1>5
    <2> HIDE DEF text
    <2> QED
      BY <1>1, <1>4, <2>1, <2>2, CopiedOK
  <1>6. CASE Told(FALSE) /\ nodes' = vfs_node_release(nodes, run.to) /\ UNCHANGED card
    <2>1. CardOK(card)' /\ run.at \in {"truncate", "open", "copy"}
      BY <1>1, <1>2, <1>6
    <2> QED
      BY <1>1, <1>6, <2>1, CatReturnsOK
  <1>7. QED
    BY <1>5, <1>6 DEF cmd_cat

-----------------------------------------------------------------------------
(* Every step keeps the invariant. *)
LEMMA StepOK == IInv /\ [Next]_vars => IInv'
  <1> SUFFICES ASSUME IInv, [Next]_vars PROVE IInv'
    OBVIOUS
  <1>1. CASE CommandGiven
    BY <1>1, CommandGivenOK
  <1>2. CASE RmStep
    BY <1>2, RmOK, RmEntryOK, RmContentsOK, RmEmptiedOK DEF RmStep
  <1>3. CASE cmd_rmdir
    BY <1>3, RmdirOK
  <1>4. CASE MkdirStep
    BY <1>4, MkdirOK, MkdirSingleOK DEF MkdirStep
  <1>5. CASE TouchStep
    BY <1>5, TouchFoundOK, TouchOK DEF TouchStep
  <1>6. CASE MvStep
    BY <1>6, MvOK, MvReplaceOK, MvSingleOK DEF MvStep
  <1>7. CASE cmd_ls \/ cmd_read \/ cmd_cd
    BY <1>7, LsOK, ReadOK, CdOK
  <1>8. CASE CatStep
    BY <1>8, CatOutputOK, CatTruncateOK, CatOpenOK, CatPipedOK, CatOK DEF CatStep
  <1>9. CASE PromptBack \/ NextOperand
    BY <1>9, PromptBackOK, NextOperandOK
  <1>10. CASE PowerLoss
    BY <1>10, PowerLossOK
  <1>11. CASE UNCHANGED vars
    <2>1. /\ card' = card /\ nodes' = nodes /\ iters' = iters /\ cwd' = cwd /\ run' = run /\ calls' = calls
          /\ before' = before /\ leaked' = leaked
      BY <1>11 DEF vars
    <2>2. Holding' = Holding /\ \A p \in Paths : AtHome(p)' = AtHome(p)
      BY <2>1 DEF Holding, MvHeld, Operand, Dirs, AtHome
    <2>3. LineOK' /\ CardOK(card)'
      BY <2>1 DEF IInv, LineOK, Operand
    <2>4. NodesOK'
      BY <2>1, <2>2 DEF IInv, NodesOK
    <2>5. CallsOK'
      BY <2>1 DEF IInv, CallsOK, Operand
    <2>6. AwayOK'
      BY <2>1 DEF IInv, AwayOK, Operand, MoveBounded, MoveFits, Within, Kind, IntoItself, TextsOf
    <2>7. ToldIsDone'
      BY <2>1 DEF IInv, ToldIsDone, Done, Operand, Kind, Cached, SeemsThere, IntoItself, Within
    <2> QED
      BY <2>3, <2>4, <2>5, <2>6, <2>7 DEF IInv
  <1>12. QED
    BY <1>1, <1>2, <1>3, <1>4, <1>5, <1>6, <1>7, <1>8, <1>9, <1>10, <1>11 DEF Next, CommandStep

LEMMA Inductive == Spec => []IInv
  <1>1. Init => IInv
    BY InitOK
  <1>2. IInv /\ [Next]_vars => IInv'
    BY StepOK
  <1>3. QED
    BY <1>1, <1>2, PTL DEF Spec

(* The card stays a tree in which every entry is in a directory, and no more
   iterators are used than there are. *)
THEOREM FilesTyped == Spec => []TypeOK
  <1>1. IInv => TypeOK
    <2> SUFFICES ASSUME IInv PROVE TypeOK
      OBVIOUS
    <2>1. ASSUME NEW p \in Paths
          PROVE  /\ Kind(p) \in {"none", "dir", "file"} /\ nodes[p].refs \in Nat
                 /\ p # Root /\ Kind(p) # "none" => Kind(Front(p)) = "dir"
      BY DEF IInv, CardOK, NodesOK, Caches, Kind
    <2>2. iters \in 0..Iterators /\ Len(calls) = iters
      <3>1. Len(calls) \in Nat /\ Iterators \in Nat
        BY TreeAssumption, LenProperties DEF IInv, CallsOK
      <3> QED
        BY <3>1 DEF IInv, CallsOK
    <2> QED
      BY <2>1, <2>2 DEF TypeOK, IInv, NodesOK
  <1>2. QED
    BY <1>1, Inductive, PTL

(* Whatever way a command went out, it has given back every node and iterator it
   took, but for what ls, touch and mv forget. *)
THEOREM TakenIsGivenBack == Spec => []GivesBack
  <1>1. IInv => GivesBack
    <2> SUFFICES ASSUME IInv, run.at \in {"prompt", "told"}, NEW p \in Paths
                 PROVE  nodes[p].refs = AtHome(p) + leaked[p] /\ iters = 0 /\ calls = <<>>
      BY DEF GivesBack, AtHome
    <2>1. nodes[p].refs = AtHome(p) + leaked[p]
      BY HoldsNothing DEF IInv, Working
    <2>2. calls = <<>> /\ iters = 0
      BY NothingCalled DEF IInv, CallsOK
    <2> QED
      BY <2>1, <2>2
  <1>2. QED
    BY <1>1, Inductive, PTL

(* A command that tells success did what it was asked to. *)
THEOREM ToldIsTrue == Spec => []ToldIsDone
  <1>1. IInv => ToldIsDone
    BY DEF IInv
  <1>2. QED
    BY <1>1, Inductive, PTL

-----------------------------------------------------------------------------
(* What each step does to the files that are there. *)
LEMMA RmLoses ==
  ASSUME IInv, RmStep, NEW p \in Paths, Lost(p)
  PROVE  Explained(p)
  <1>1. run.cmd = "rm" /\ card'[p] # card[p]
    BY DEF RmStep, cmd_rm, rm_entry_from_parent, rm_dir_contents, rm_dir_emptied, At, Lost
  <1>2. CASE cmd_rm \/ rm_dir_contents
    BY <1>1, <1>2 DEF cmd_rm, rm_dir_contents, OnlyLooks
  <1>3. CASE rm_entry_from_parent
    <2>1. run.at = "entry" /\ (card' = card \/ card' = [card EXCEPT ![run.to] = Absent])
      BY <1>3, Zenon DEF rm_entry_from_parent, At
    <2>2. p = run.to
      BY <1>1, <2>1 DEF IInv, CardOK
    <2> QED
      BY <1>1, <2>1, <2>2 DEF Explained, IInv, CallsOK
  <1>4. CASE rm_dir_emptied
    <2>1. run.at = "contents" /\ (card' = card \/ card' = [card EXCEPT ![Last(calls).dir] = Absent])
      BY <1>4, Zenon DEF rm_dir_emptied, At
    <2>2. p = Last(calls).dir
      BY <1>1, <2>1 DEF IInv, CardOK
    <2>3. calls \in Seq(Frame) /\ calls # <<>>
      BY <2>1 DEF IInv, CallsOK, Frame
    <2>4. Last(calls) = calls[Len(calls)] /\ Len(calls) \in DOMAIN calls
      BY <2>3, LastCall, DirsAre
    <2> QED
      BY <1>1, <2>2, <2>3, <2>4 DEF Explained, IInv, CallsOK
  <1>5. QED
    BY <1>2, <1>3, <1>4 DEF RmStep

LEMMA RmdirLoses ==
  ASSUME IInv, cmd_rmdir, NEW p \in Paths
  PROVE  ~Lost(p)
  <1> DEFINE dir == Front(Operand)
             ns == Hold(nodes, dir)
             empty(lookFault) ==
               /\ FindsDir(nodes, dir, lookFault) /\ FindsDir(ns, Operand, lookFault)
               /\ sd_dir_iter_create(Operand, lookFault) /\ Children(Operand) = {}
             fine(lookFault, fault) == empty(lookFault) /\ Removable(Operand) /\ ~fault
  <1>1. PICK lookFault \in Faults, fault \in Faults :
          card' = IF fine(lookFault, fault) THEN [card EXCEPT ![Operand] = Absent] ELSE card
    BY Zenon DEF cmd_rmdir
  <1>2. card' = card \/ (card' = [card EXCEPT ![Operand] = Absent] /\ Kind(Operand) = "dir")
    BY <1>1 DEF sd_dir_iter_create
  <1>3. QED
    BY <1>2 DEF Lost, Kind, IInv, CardOK

LEMMA MkdirLoses ==
  ASSUME IInv, MkdirStep, NEW p \in Paths
  PROVE  ~Lost(p)
  <1>1. CASE cmd_mkdir
    BY <1>1 DEF cmd_mkdir, Lost
  <1>2. CASE mkdir_single
    <2> DEFINE next == SubSeq(Operand, 1, Len(run.to) + 1)
    <2>1. next \in Paths /\ CardOK(card)
      BY <1>2, NextIs DEF mkdir_single, At, IInv
    <2>2. \/ card' = card
          \/ \E existsFault, fault \in Faults : card' = sd_dir_create(nodes, next, "dir", existsFault, fault).card
      BY <1>2, Zenon DEF mkdir_single
    <2> HIDE DEF next
    <2>3. ASSUME Lost(p) PROVE FALSE
      <3>1. card'[p] # card[p] /\ Kind(p) = "file"
        BY <2>3 DEF Lost
      <3>2. PICK existsFault \in Faults, fault \in Faults :
              card' = sd_dir_create(nodes, next, "dir", existsFault, fault).card
        BY <2>2, <3>1
      <3>3. sd_dir_create(nodes, next, "dir", existsFault, fault).card[p] # card[p]
        BY <3>1, <3>2
      <3>4. "dir" \in {"dir", "file"} /\ "dir" # "file"
        OBVIOUS
      <3> QED
        BY <2>1, <3>1, <3>3, <3>4, CreateLoses
    <2> QED
      BY <2>3
  <1>3. QED
    BY <1>1, <1>2 DEF MkdirStep

LEMMA TouchLoses ==
  ASSUME IInv, TouchStep, NEW p \in Paths, Lost(p)
  PROVE  Explained(p)
  <1>1. run.cmd = "touch" /\ card'[p] # card[p] /\ Kind(p) = "file" /\ CardOK(card)
    BY DEF TouchStep, touch_found, cmd_touch, At, Lost, IInv
  <1>2. CASE touch_found
    BY <1>1, <1>2 DEF touch_found, OnlyLooks
  <1>3. CASE cmd_touch
    <2> DEFINE held == Hold(nodes, Front(Operand))
    <2>1. Operand \in Paths
      BY <1>1, OperandIs DEF IInv
    <2>2. \/ card' = card
          \/ \E existsFault, fault \in Faults : card' = sd_dir_create(held, Operand, "file", existsFault, fault).card
      BY <1>3, Zenon DEF cmd_touch
    <2> HIDE DEF held
    <2>3. PICK existsFault \in Faults, fault \in Faults :
            card' = sd_dir_create(held, Operand, "file", existsFault, fault).card
      BY <1>1, <2>2
    <2>4. p = Operand /\ existsFault /\ card'[p] = File(<<>>)
      <3>1. sd_dir_create(held, Operand, "file", existsFault, fault).card[p] # card[p]
        BY <1>1, <2>3
      <3>2. /\ p = Operand /\ existsFault
            /\ sd_dir_create(held, Operand, "file", existsFault, fault).card[p] = File(<<>>)
        BY <1>1, <2>1, <3>1, CreateLoses
      <3> QED
        BY <2>3, <3>2
    <2>5. TRUE \in Faults
      BY <2>3, <2>4, FaultIs
    <2> QED
      BY <1>1, <2>4, <2>5 DEF Explained
  <1>4. QED
    BY <1>2, <1>3 DEF TouchStep

LEMMA MvLoses ==
  ASSUME IInv, MvStep, NEW p \in Paths, Lost(p)
  PROVE  Explained(p)
  <1>1. run.cmd = "mv" /\ card'[p] # card[p] /\ Kind(p) = "file" /\ CardOK(card)
    BY DEF MvStep, cmd_mv, mv_replace, mv_single, At, Lost, IInv
  <1>2. CASE cmd_mv
    BY <1>1, <1>2 DEF cmd_mv
  <1>3. CASE mv_replace
    <2>1. run.at = "replace" /\ (card' = card \/ card' = [card EXCEPT ![run.to] = Absent])
      BY <1>3 DEF mv_replace, At
    <2>2. p = run.to /\ run.to # Operand /\ Operand \in Paths
      BY <1>1, <2>1, OperandIs DEF IInv, AwayOK, CardOK
    <2>3. card'[Operand] = card[Operand]
      BY <1>1, <2>1, <2>2 DEF CardOK
    <2> QED
      BY <1>1, <2>1, <2>2, <2>3 DEF Explained, IInv, AwayOK
  <1>4. CASE mv_single
    <2>1. run.at = "rename" /\ Operand \in Paths /\ MoveFits
      BY <1>1, <1>4, OperandIs DEF mv_single, At, IInv, AwayOK
    <2>2. PICK fault \in Faults : \E outcome \in Renames(Operand, run.to, fault) : card' = outcome.card
      BY <1>4 DEF mv_single
    <2>3. PICK outcome \in Renames(Operand, run.to, fault) : card' = outcome.card
      BY <2>2
    <2>4. \/ card' = Rename(Operand, run.to) /\ Renamable(Operand, run.to)
          \/ card' = [r \in Paths |-> IF IsPrefix(Operand, r) THEN Absent ELSE card[r]] /\ IsPrefix(Operand, run.to)
      <3>1. fault \in BOOLEAN
        BY FaultIs
      <3>2. \/ outcome.card = card
            \/ outcome.card = Rename(Operand, run.to) /\ Renamable(Operand, run.to)
            \/ /\ outcome.card = [r \in Paths |-> IF IsPrefix(Operand, r) THEN Absent ELSE card[r]]
               /\ IsPrefix(Operand, run.to)
        <4>1. \/ outcome.card = card /\ outcome.ok = FALSE
              \/ outcome.card = Rename(Operand, run.to) /\ outcome.ok = TRUE /\ Renamable(Operand, run.to)
              \/ /\ outcome.card = [r \in Paths |-> IF IsPrefix(Operand, r) THEN Absent ELSE card[r]] /\ outcome.ok = TRUE
                 /\ Kind(Operand) = "dir" /\ IsPrefix(Operand, run.to) /\ Operand # run.to
          BY <2>3, <3>1, RenamesAre
        <4> QED
          BY <4>1
      <3>3. card' # card
        BY <1>1
      <3> QED
        BY <2>3, <3>2, <3>3
    <2>5. CASE card' = Rename(Operand, run.to) /\ Renamable(Operand, run.to)
      <3>1. run.to \in Paths /\ ~IsPrefix(Operand, run.to) /\ Kind(run.to) = "none"
        BY <2>5 DEF Renamable, Creatable
      <3>2. ~IsPrefix(run.to, p)
        BY <1>1, <3>1, InFrontIsThere DEF Kind
      <3>3. IsPrefix(Operand, p)
        BY <1>1, <2>5, <3>2 DEF Rename
      <3>4. Moved(Operand, run.to, p) \in Paths
        BY <1>1, <2>1, <3>1, <3>3 DEF MoveFits, Within, IntoItself
      <3>5. card'[Moved(Operand, run.to, p)] = card[p]
        BY <1>1, <2>1, <2>5, <3>1, <3>3, <3>4, RenameMoves
      <3> QED
        BY <1>1, <3>3, <3>5 DEF Explained
    <2>6. CASE card' = [r \in Paths |-> IF IsPrefix(Operand, r) THEN Absent ELSE card[r]] /\ IsPrefix(Operand, run.to)
      <3>1. IsPrefix(Operand, p)
        BY <1>1, <2>6
      <3> QED
        BY <1>1, <2>6, <3>1 DEF Explained, IntoItself
    <2> QED
      BY <2>4, <2>5, <2>6
  <1>5. QED
    BY <1>2, <1>3, <1>4 DEF MvStep

LEMMA CatLoses ==
  ASSUME IInv, CatStep, NEW p \in Paths, Lost(p)
  PROVE  Explained(p)
  <1>1. run.cmd = "cat" /\ card'[p] # card[p] /\ Kind(p) = "file" /\ CardOK(card) /\ nodes \in Caches
    BY DEF CatStep, cat_output, cat_truncate, cat_open, cat_piped, cmd_cat, At, Lost, IInv, NodesOK
  <1>2. CASE cat_output
    <2> DEFINE held == Hold(nodes, Front(run.to))
    <2>1. run.to \in Paths /\ Front(run.to) \in Paths
      BY <1>1, PathsAreSequences DEF IInv, LineOK, Entries
    <2>2. \/ card' = card
          \/ \E existsFault, fault \in Faults : card' = sd_dir_create(held, run.to, "file", existsFault, fault).card
      BY <1>2, Zenon DEF cat_output
    <2> HIDE DEF held
    <2>3. PICK existsFault \in Faults, fault \in Faults :
            card' = sd_dir_create(held, run.to, "file", existsFault, fault).card
      BY <1>1, <2>2
    <2>4. p = run.to
      <3>1. sd_dir_create(held, run.to, "file", existsFault, fault).card[p] # card[p]
        BY <1>1, <2>3
      <3> QED
        BY <1>1, <2>1, <3>1, CreateLoses
    <2> QED
      BY <1>1, <2>4 DEF Explained
  <1>3. CASE cat_truncate \/ cat_open
    <2>1. card' = card \/ (\E new : card' = [card EXCEPT ![run.to] = new])
      BY <1>3 DEF cat_truncate, cat_open
    <2>2. p = run.to
      BY <1>1, <2>1 DEF CardOK
    <2> QED
      BY <1>1, <2>2 DEF Explained
  <1>4. CASE cat_piped \/ cmd_cat
    <2>1. card' = card \/ \E text : Copied(text)
      BY <1>4 DEF cat_piped, cmd_cat
    <2>2. card' = card \/ (\E new : card' = [card EXCEPT ![run.to] = new])
      <3>1. \A text : Copied(text) => \E new : card' = [card EXCEPT ![run.to] = new]
        <4> SUFFICES ASSUME NEW text, Copied(text) PROVE \E new : card' = [card EXCEPT ![run.to] = new]
          OBVIOUS
        <4>1. PICK n : card' = [card EXCEPT ![run.to].text = @ \o SubSeq(text, 1, n)]
          BY DEF Copied
        <4>2. card' = [card EXCEPT ![run.to] = [card[run.to] EXCEPT !.text = @ \o SubSeq(text, 1, n)]]
          BY <4>1
        <4> QED
          BY <4>2
      <3> QED
        BY <2>1, <3>1
    <2>3. p = run.to
      BY <1>1, <2>2 DEF CardOK
    <2> QED
      BY <1>1, <2>3 DEF Explained
  <1>5. QED
    BY <1>2, <1>3, <1>4 DEF CatStep

(* No command loses a file that it was not told to; touch empties the file it is
   given only on a card that fails. *)
THEOREM LossIsExplained == Spec => LossExplained
  <1>1. IInv /\ [Next]_vars => [\A p \in Paths : Lost(p) => Explained(p)]_vars
    <2> SUFFICES ASSUME IInv, Next, NEW p \in Paths, Lost(p) PROVE Explained(p)
      OBVIOUS
    <2>1. card' # card
      BY DEF Lost
    <2>2. CASE CommandGiven \/ NextOperand \/ PromptBack \/ PowerLoss
      BY <2>1, <2>2 DEF CommandGiven, NextOperand, PromptBack, PowerLoss
    <2>3. CASE cmd_ls \/ cmd_read \/ cmd_cd
      BY <2>1, <2>3 DEF cmd_ls, cmd_read, cmd_cd, OnlyLooks
    <2>4. CASE RmStep
      BY <2>4, RmLoses
    <2>5. CASE cmd_rmdir
      BY <2>5, RmdirLoses
    <2>6. CASE MkdirStep \/ TouchStep
      BY <2>6, MkdirLoses, TouchLoses
    <2>7. CASE MvStep
      BY <2>7, MvLoses
    <2>8. CASE CatStep
      BY <2>8, CatLoses
    <2> QED
      BY <2>2, <2>3, <2>4, <2>5, <2>6, <2>7, <2>8 DEF Next, CommandStep
  <1>2. QED
    BY <1>1, Inductive, PTL DEF Spec, LossExplained
=============================================================================
