---------------------------- MODULE VfsNodeCache ----------------------------
(***************************************************************************)
(* src/filesystem/vfs/vfs_sd.cpp: the table of resolved nodes between the  *)
(* shell and the SD card.  A path that is resolved occupies a slot until   *)
(* every reference to it is released; resolving it again shares the slot.  *)
(* The card itself (the SD library) is the variable card.                  *)
(*                                                                         *)
(* Refs are the node pointers the shell keeps (a terminal's cwd, the       *)
(* parent and the target a command works on); a pointer is overwritten     *)
(* only after it was released.  Files are the vfs_file_t the shell keeps.  *)
(***************************************************************************)
EXTENDS Integers, Sequences, FiniteSetsExt

CONSTANTS
  Names,       \* names of directory entries
  Path,        \* the paths short enough for MAX_PATH_LEN, as sequences of
               \* names: <<>> is "/"
  MaxNodes,    \* MAX_NODES, 32 in the source
  Refs,        \* node pointers of the shell
  Files,       \* file handles of the shell
  NULL,
  CardFaults   \* BOOLEAN, or {FALSE} for a card on which no call fails

ASSUME CacheAssumption ==
  /\ MaxNodes \in Nat \ {0}
  /\ Path \subseteq Seq(Names) /\ <<>> \in Path
  /\ \A p \in Path : p # <<>> => SubSeq(p, 1, Len(p) - 1) \in Path
  /\ CardFaults \in SUBSET BOOLEAN /\ FALSE \in CardFaults
  /\ IsFiniteSet(Refs) /\ IsFiniteSet(Files)
  /\ NULL \notin 0..(MaxNodes - 1)

VARIABLES
  card,        \* what the SD card holds at each path
  node_cache,  \* the slots: in_use, path, type, refcount
  ref,         \* the slot each node pointer points to
  file,        \* the slot each open file's node is in
  answer       \* the last resolution: its path, the type it reported, a fault

vars == <<card, node_cache, ref, file, answer>>

Slot == 0..(MaxNodes - 1)

NodeTypes == {"file", "dir"}
Absent == "absent"

Parent(p) == SubSeq(p, 1, Len(p) - 1)
Child(p, name) == Append(p, name)
Below(p, q) == Len(p) < Len(q) /\ SubSeq(q, 1, Len(p)) = p

NoAnswer == [path |-> <<>>, type |-> "none", fault |-> FALSE]

Init ==
  /\ card = [p \in Path |-> IF p = <<>> THEN "dir" ELSE Absent]
  /\ node_cache = [s \in Slot |-> [in_use |-> FALSE, path |-> <<>>,
                                   type |-> "file", refcount |-> 0]]
  /\ ref = [r \in Refs |-> NULL]
  /\ file = [f \in Files |-> NULL]
  /\ answer = NoAnswer

-----------------------------------------------------------------------------
(* The table. *)
Least(S) == CHOOSE s \in S : \A t \in S : s <= t

Cached(p) == {s \in Slot : node_cache[s].in_use /\ node_cache[s].path = p}
Free == {s \in Slot : ~node_cache[s].in_use}

AddRef(s) == [node_cache EXCEPT ![s].refcount = @ + 1]

(* create_sd_node into the slot it has chosen *)
create_sd_node(s, p, type) ==
  [node_cache EXCEPT ![s] = [in_use |-> TRUE, path |-> p, type |-> type, refcount |-> 1]]

(* Mutants of Released: a reference too many is given up; the slot is freed
   while others hold it; the slot is never freed. *)
ReleasedTwice(s) ==
  [node_cache EXCEPT ![s].refcount = @ - 2, ![s].in_use = node_cache[s].refcount > 2]
ReleasedEarly(s) ==
  [node_cache EXCEPT ![s].refcount = @ - 1, ![s].in_use = FALSE]
ReleasedKept(s) == [node_cache EXCEPT ![s].refcount = @ - 1]

(* vfs_node_release of the node in slot s *)
Released(s) ==
  [node_cache EXCEPT ![s].refcount = @ - 1,
                     ![s].in_use = node_cache[s].refcount > 1]

(* Pointer r, which points nowhere, gets what vfs_resolve(p) returns. *)
Resolve(r, p) ==
  \/ /\ Cached(p) # {}
     /\ node_cache' = AddRef(Least(Cached(p)))
     /\ ref' = [ref EXCEPT ![r] = Least(Cached(p))]
     /\ answer' = [path |-> p, type |-> node_cache[Least(Cached(p))].type, fault |-> FALSE]
  \/ /\ Cached(p) = {} /\ card[p] # Absent /\ Free # {}
     /\ node_cache' = create_sd_node(Least(Free), p, card[p])
     /\ ref' = [ref EXCEPT ![r] = Least(Free)]
     /\ answer' = [path |-> p, type |-> card[p], fault |-> FALSE]
  \/ /\ Cached(p) = {}
     /\ \E fault \in CardFaults :
          /\ fault \/ card[p] = Absent \/ Free = {}
          /\ answer' = [path |-> p, type |-> Absent, fault |-> fault]
     /\ UNCHANGED <<node_cache, ref>>

vfs_resolve(r, p) ==
  /\ ref[r] = NULL
  /\ Resolve(r, p)
  /\ UNCHANGED <<card, file>>

(* The path of one name, or "..", relative to the node of pointer b. *)
RelativePath(b, name) ==
  IF name = ".."
  THEN IF node_cache[ref[b]].path = <<>> THEN <<>> ELSE Parent(node_cache[ref[b]].path)
  ELSE Child(node_cache[ref[b]].path, name)

vfs_resolve_at(r, b, name) ==
  /\ ref[r] = NULL /\ ref[b] # NULL
  /\ RelativePath(b, name) \in Path
  /\ Resolve(r, RelativePath(b, name))
  /\ UNCHANGED <<card, file>>

(* Mutant of share_cwd: the pointer is copied and nothing counted. *)
share_uncounted(r, b) ==
  /\ ref[r] = NULL /\ ref[b] # NULL
  /\ ref' = [ref EXCEPT ![r] = ref[b]]
  /\ answer' = NoAnswer
  /\ UNCHANGED <<card, node_cache, file>>

(* resolve_parent_and_name of rm, rmdir and mv takes the working directory
   as the parent by raising its count itself (rm.c:52). *)
share_cwd(r, b) ==
  /\ ref[r] = NULL /\ ref[b] # NULL
  /\ node_cache' = AddRef(ref[b])
  /\ ref' = [ref EXCEPT ![r] = ref[b]]
  /\ answer' = NoAnswer
  /\ UNCHANGED <<card, file>>

vfs_node_release(r) ==
  /\ ref[r] # NULL
  /\ node_cache' = Released(ref[r])
  /\ ref' = [ref EXCEPT ![r] = NULL]
  /\ answer' = NoAnswer
  /\ UNCHANGED <<card, file>>

-----------------------------------------------------------------------------
(* Changes to the card, through the node of a directory.  The node's path is
   used as it is, whatever has become of that directory in the meantime; the
   SD library refuses what the card does not allow. *)
Children(p) == {q \in Path : card[q] # Absent /\ Below(p, q)}

Entry(d, name) == Child(node_cache[ref[d]].path, name)

IsDirNode(d) == ref[d] # NULL /\ node_cache[ref[d]].type = "dir"

CanCreate(p) == card[p] = Absent /\ card[Parent(p)] = "dir"

(* sd_dir_create: an entry that exists is resolved; a new one is created and
   given a slot, and when there is none the caller gets NULL for it.  SD.exists
   that fails lets an entry that is there be created again, with a second slot. *)
vfs_dir_create_node(r, d, name, type) ==
  /\ ref[r] = NULL /\ IsDirNode(d) /\ Entry(d, name) \in Path
  /\ LET p == Entry(d, name)
     IN  \/ /\ card[p] # Absent
            /\ Resolve(r, p)
            /\ UNCHANGED card
         \/ /\ CanCreate(p) \/ (card[p] = type /\ TRUE \in CardFaults)
            /\ card' = [card EXCEPT ![p] = type]
            /\ IF Free = {}
               THEN /\ answer' = [path |-> p, type |-> Absent, fault |-> FALSE]
                    /\ UNCHANGED <<node_cache, ref>>
               ELSE /\ node_cache' = create_sd_node(Least(Free), p, type)
                    /\ ref' = [ref EXCEPT ![r] = Least(Free)]
                    /\ answer' = [path |-> p, type |-> type, fault |-> FALSE]
         \/ /\ \E fault \in CardFaults :
                 /\ fault \/ (card[p] = Absent /\ ~CanCreate(p))
                 /\ answer' = [path |-> p, type |-> Absent, fault |-> fault]
            /\ UNCHANGED <<card, node_cache, ref>>
  /\ UNCHANGED file

(* sd_dir_remove: rmdir of an empty directory or removal of a file *)
vfs_dir_remove_node(d, name) ==
  /\ IsDirNode(d) /\ Entry(d, name) \in Path
  /\ card[Entry(d, name)] # Absent
  /\ Children(Entry(d, name)) = {}
  /\ card' = [card EXCEPT ![Entry(d, name)] = Absent]
  /\ answer' = NoAnswer
  /\ UNCHANGED <<node_cache, ref, file>>

(* The card after SD.rename: the entry and all below it move. *)
Moved(old, new) ==
  [q \in Path |->
     IF q = new \/ Below(new, q)
     THEN LET was == old \o SubSeq(q, Len(new) + 1, Len(q))
          IN  IF was \in Path THEN card[was] ELSE Absent
     ELSE IF q = old \/ Below(old, q) THEN Absent ELSE card[q]]

vfs_dir_rename_node(d, name, e, newName) ==
  /\ ref[d] # NULL /\ ref[e] # NULL
  /\ LET old == Entry(d, name)
         new == Entry(e, newName)
     IN  /\ old \in Path /\ new \in Path
         /\ card[old] # Absent
         /\ old # new /\ ~Below(old, new) /\ CanCreate(new)
         /\ \A q \in Children(old) : new \o SubSeq(q, Len(old) + 1, Len(q)) \in Path
         /\ card' = Moved(old, new)
  /\ answer' = NoAnswer
  /\ UNCHANGED <<node_cache, ref, file>>

-----------------------------------------------------------------------------
(* Open files.  Opening for writing makes the file if only its directory is
   there; with VFS_O_TRUNC the old file is removed before, and is gone when
   the card then refuses to make the new one. *)
Flags == {"read", "write", "trunc"}

(* The outcomes of opening a node of this type at path p: whether there is a
   handle, and the card.  Reading opens whatever is there, a directory too. *)
sd_open(type, p, flags) ==
  LET writes  == flags \in {"write", "trunc"}
      cleared == IF flags = "trunc" /\ card[p] = "file"
                 THEN [card EXCEPT ![p] = Absent] ELSE card
      opens   == IF writes THEN cleared[p] = "file" \/ (cleared[p] = Absent /\ card[Parent(p)] = "dir")
                 ELSE cleared[p] # Absent
      made    == IF writes THEN [cleared EXCEPT ![p] = "file"] ELSE cleared
  IN  IF type # "file" THEN {[ok |-> FALSE, card |-> card]}
      ELSE {[ok |-> opens /\ ~fault, card |-> IF opens /\ ~fault THEN made ELSE cleared]
              : fault \in CardFaults}

vfs_open_node(f, r, flags) ==
  /\ file[f] = NULL /\ ref[r] # NULL
  /\ \E open \in sd_open(node_cache[ref[r]].type, node_cache[ref[r]].path, flags) :
       /\ card' = open.card
       /\ node_cache' = IF open.ok THEN AddRef(ref[r]) ELSE node_cache
       /\ file' = IF open.ok THEN [file EXCEPT ![f] = ref[r]] ELSE file
  /\ answer' = NoAnswer
  /\ UNCHANGED ref

(* vfs_open resolves, opens and releases in one call: a node that was not in
   the table gets a slot, and keeps it only when the file was opened. *)
vfs_open(f, p, flags) ==
  /\ file[f] = NULL
  /\ LET known == Cached(p) # {}
         s     == IF known THEN Least(Cached(p)) ELSE Least(Free)
         there == IF known THEN node_cache
                  ELSE [create_sd_node(s, p, card[p])
                          EXCEPT ![s].in_use = FALSE, ![s].refcount = 0]
     IN  /\ known \/ (card[p] # Absent /\ Free # {})
         /\ \E open \in sd_open(there[s].type, p, flags) :
              /\ card' = open.card
              /\ file' = IF open.ok THEN [file EXCEPT ![f] = s] ELSE file
              /\ node_cache' = IF open.ok
                               THEN [there EXCEPT ![s].refcount = @ + 1, ![s].in_use = TRUE]
                               ELSE there
  /\ answer' = NoAnswer
  /\ UNCHANGED ref

vfs_close(f) ==
  /\ file[f] # NULL
  /\ node_cache' = Released(file[f])
  /\ file' = [file EXCEPT ![f] = NULL]
  /\ answer' = NoAnswer
  /\ UNCHANGED <<card, ref>>

Next ==
  \/ \E r \in Refs, p \in Path : vfs_resolve(r, p)
  \/ \E r, b \in Refs, name \in Names \cup {".."} : vfs_resolve_at(r, b, name)
  \/ \E r, b \in Refs : share_cwd(r, b)
  \/ \E r \in Refs : vfs_node_release(r)
  \/ \E r, d \in Refs, name \in Names, type \in NodeTypes :
       vfs_dir_create_node(r, d, name, type)
  \/ \E d \in Refs, name \in Names : vfs_dir_remove_node(d, name)
  \/ \E d, e \in Refs, name, newName \in Names : vfs_dir_rename_node(d, name, e, newName)
  \/ \E f \in Files, r \in Refs, flags \in Flags : vfs_open_node(f, r, flags)
  \/ \E f \in Files, p \in Path, flags \in Flags : vfs_open(f, p, flags)
  \/ \E f \in Files : vfs_close(f)

Spec == Init /\ [][Next]_vars

-----------------------------------------------------------------------------
(* Type invariant. *)
TypeOK ==
  /\ card \in [Path -> NodeTypes \cup {Absent}]
  /\ node_cache \in [Slot -> [in_use : BOOLEAN, path : Path, type : NodeTypes, refcount : Nat]]
  /\ ref \in [Refs -> Slot \cup {NULL}]
  /\ file \in [Files -> Slot \cup {NULL}]
  /\ answer \in [path : Path, type : NodeTypes \cup {Absent, "none"}, fault : BOOLEAN]

Holders(s) == Cardinality({r \in Refs : ref[r] = s}) + Cardinality({f \in Files : file[f] = s})

(* A slot's refcount is the number of pointers and open files that lead to it,
   and it is in use exactly while there is one: vfs_open_node, vfs_close and
   the count raised outside the file system (share_cwd) all balance. *)
RefcountExact ==
  \A s \in Slot : /\ node_cache[s].refcount = Holders(s)
                  /\ node_cache[s].in_use <=> Holders(s) > 0

(* vfs.h, lines 219-222: a resolved node is stable and its type immutable.
   While a pointer or a file leads to a slot, no call of anybody else gives
   the slot another path or type. *)
HeldNodeStable ==
  [][\A s \in Slot : Holders(s) > 0 /\ Holders(s)' > 0 =>
       /\ node_cache'[s].path = node_cache[s].path
       /\ node_cache'[s].type = node_cache[s].type]_vars

Wrong(a) == a # NoAnswer /\ a.type # card[a.path]

(* A resolution that does not say what the card holds has one of three causes:
   the card failed, the table was full, or the answer is a node that another
   pointer or file still held.  Once released, a node is never found again. *)
WrongAnswersExplained ==
  Wrong(answer) =>
    \/ answer.fault
    \/ answer.type = Absent /\ Free = {}
    \/ \E s \in Slot : node_cache[s].path = answer.path /\ Holders(s) > 1

(* vfs.h, lines 14-18 and 223: existence is determined by resolution, and
   afterwards no further check is required. *)
AnswerMatchesCard == ~answer.fault => ~Wrong(answer)
=============================================================================
