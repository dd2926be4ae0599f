------------------------------ MODULE CardTree ------------------------------
(***************************************************************************)
(* The files and directories of the SD card, and what vfs_sd.cpp knows of  *)
(* them: the nodes of the paths that were looked up and the iterators.     *)
(* Operators on the node cache take it and return it, so that a command    *)
(* can take several nodes in a step.                                       *)
(***************************************************************************)
EXTENDS Naturals, Sequences, SequencesExt, FiniteSets, FiniteSetsExt

CONSTANTS
  Paths,      \* where entries may be: sequences of names, <<>> is the root
  Slots,      \* MAX_NODES
  Iterators   \* iter_states

Root == <<>>

ASSUME TreeAssumption ==
  /\ Root \in Paths /\ \A p \in Paths \ {Root} : Front(p) \in Paths
  /\ Paths \subseteq Seq(UNION {Range(p) : p \in Paths})
  /\ Slots \in Nat \ {0} /\ Iterators \in Nat \ {0}

VARIABLES
  card,    \* what is at each path
  nodes,   \* the node cache: the type a path was found with, and who holds it
  iters    \* iterators in use

-----------------------------------------------------------------------------
(* The card. *)
Absent == [kind |-> "none", text |-> <<>>]
Directory == [kind |-> "dir", text |-> <<>>]
File(text) == [kind |-> "file", text |-> text]
New(kind) == IF kind = "dir" THEN Directory ELSE File(<<>>)

Kind(p) == card[p].kind
Children(p) == {q \in Paths \ {p} : q # Root /\ Front(q) = p /\ Kind(q) # "none"}
Within(p) == {q \in Paths : IsPrefix(p, q)}

(* SD.mkdir and SD.open, for an entry that is not there. *)
Creatable(p) == Kind(p) = "none" /\ Kind(Front(p)) = "dir"

(* SD.remove and SD.rmdir. *)
Removable(p) == Kind(p) = "file" \/ (Kind(p) = "dir" /\ Children(p) = {})

(* SD.rename, on an entry and everything in it. *)
Moved(p, q, r) == q \o SubSeq(r, Len(p) + 1, Len(r))
Renamable(p, q) == Kind(p) # "none" /\ q \in Paths /\ Creatable(q) /\ ~IsPrefix(p, q)
Rename(p, q) ==
  [r \in Paths |-> IF IsPrefix(q, r) THEN LET old == Moved(q, p, r)
                                          IN  IF old \in Paths THEN card[old] ELSE Absent
                   ELSE IF IsPrefix(p, r) THEN Absent ELSE card[r]]

(* A directory moved into itself is refused, or gone with all that is in it:
   neither mv nor sd_dir_rename looks. *)
Renames(p, q, fault) ==
  IF fault THEN {[card |-> card, ok |-> FALSE]}
  ELSE IF Renamable(p, q) THEN {[card |-> Rename(p, q), ok |-> TRUE]}
  ELSE {[card |-> card, ok |-> FALSE]}
       \cup IF Kind(p) = "dir" /\ IsPrefix(p, q) /\ p # q
            THEN {[card |-> [r \in Paths |-> IF IsPrefix(p, r) THEN Absent ELSE card[r]], ok |-> TRUE]}
            ELSE {}

-----------------------------------------------------------------------------
(* The node cache.  A path that is cached is found whatever is on the card. *)
NoNode == [type |-> "none", refs |-> 0]
Cached(ns, p) == ns[p].refs > 0
HasRoom(ns) == Cardinality({p \in Paths : Cached(ns, p)}) < Slots

vfs_resolve(ns, p, fault) == Cached(ns, p) \/ (~fault /\ Kind(p) # "none" /\ HasRoom(ns))

HoldAs(ns, p, type) ==
  [ns EXCEPT ![p] = IF ns[p].refs > 0 THEN [ns[p] EXCEPT !.refs = @ + 1] ELSE [type |-> type, refs |-> 1]]
Hold(ns, p) == HoldAs(ns, p, Kind(p))

vfs_node_release(ns, p) ==
  [ns EXCEPT ![p] = IF ns[p].refs > 1 THEN [ns[p] EXCEPT !.refs = @ - 1] ELSE NoNode]

(* A sequence of nodes is given back, each as often as it is in it. *)
Times(ps, p) == Cardinality({i \in DOMAIN ps : ps[i] = p})
Release(ns, ps) ==
  [p \in Paths |-> IF ns[p].refs > Times(ps, p) THEN [ns[p] EXCEPT !.refs = @ - Times(ps, p)] ELSE NoNode]

IsDir(ns, p) == ns[p].type = "dir"

(* A directory that can be found, and not a file. *)
FindsDir(ns, p, fault) == vfs_resolve(ns, p, fault) /\ IsDir(Hold(ns, p), p)

(* sd_dir_create: an entry that SD.exists shows is looked up, else it is made and
   given a node - if there is one left.  When SD.exists fails, an entry that is
   there is made again: a file that is opened for writing is empty then. *)
MakesAgain(p, kind) == IF Kind(p) = "none" THEN Creatable(p) ELSE Kind(p) = kind

sd_dir_create(ns, p, kind, existsFault, fault) ==
  IF Kind(p) # "none" /\ ~existsFault
  THEN [card |-> card, ok |-> vfs_resolve(ns, p, fault),
        nodes |-> IF vfs_resolve(ns, p, fault) THEN Hold(ns, p) ELSE ns]
  ELSE IF fault \/ ~MakesAgain(p, kind) THEN [card |-> card, ok |-> FALSE, nodes |-> ns]
  ELSE [card |-> [card EXCEPT ![p] = New(kind)], ok |-> HasRoom(ns),
        nodes |-> IF HasRoom(ns) THEN HoldAs(ns, p, kind) ELSE ns]

\* Mutant: an iterator that is in use is taken again.
IteratorTwice(p, fault) == ~fault /\ Kind(p) = "dir"

sd_dir_iter_create(p, fault) == ~fault /\ Kind(p) = "dir" /\ iters < Iterators
=============================================================================
