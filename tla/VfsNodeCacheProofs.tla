------------------------- MODULE VfsNodeCacheProofs -------------------------
(***************************************************************************)
(* Proofs about VfsNodeCache for every table size, every set of pointers   *)
(* and files and every set of paths: reference counting is exact, a node   *)
(* in use is never taken away, and only another holder, a full table or a  *)
(* fault of the card make a resolution say what the card does not hold.    *)
(***************************************************************************)
EXTENDS VfsNodeCache, WellFoundedInduction, FiniteSetTheorems, TLAPS

(* A nonempty set of naturals has a least element. *)
LEMMA LeastNatural ==
  ASSUME NEW S \in SUBSET Nat, S # {}
  PROVE  \E m \in S : \A k \in S : m <= k
  <1>1. PICK m \in S : \A k \in S : ~(<<k, m>> \in {ij \in Nat \X Nat : ij[1] < ij[2]})
    BY NatLessThanWellFounded, WFMin DEF OpToRel
  <1>2. \A k \in S : ~(k < m)
    BY <1>1
  <1>3. QED
    BY <1>2

LEMMA LeastIn ==
  ASSUME NEW S \in SUBSET Slot, S # {}
  PROVE  Least(S) \in S
  <1>1. S \in SUBSET Nat
    BY CacheAssumption DEF Slot
  <1>2. \E m \in S : \A k \in S : m <= k
    BY <1>1, LeastNatural
  <1>3. QED
    BY <1>2 DEF Least

NullOrSlot == Slot \cup {NULL}

LEMMA NullIsNoSlot == NULL \notin Slot
  BY CacheAssumption DEF Slot

-----------------------------------------------------------------------------
(* Counting: how the number of arguments a function maps to a slot changes
   when one argument is mapped to a slot, or to NULL again. *)
Count(D, g, s) == Cardinality({x \in D : g[x] = s})

LEMMA CountType ==
  ASSUME NEW D, IsFiniteSet(D), NEW g, NEW s
  PROVE  /\ Count(D, g, s) \in Nat
         /\ \A x \in D : g[x] = s => Count(D, g, s) > 0
  <1> DEFINE S == {x \in D : g[x] = s}
  <1>1. IsFiniteSet(S) /\ Cardinality(S) \in Nat
    BY FS_Subset, FS_CardinalityType
  <1>2. S # {} => Cardinality(S) # 0
    BY <1>1, FS_EmptySet
  <1>3. QED
    BY <1>1, <1>2 DEF Count

LEMMA CountGain ==
  ASSUME NEW D, IsFiniteSet(D), NEW g \in [D -> NullOrSlot],
         NEW x \in D, NEW t \in Slot, NEW s \in Slot, g[x] = NULL
  PROVE  Count(D, [g EXCEPT ![x] = t], s) = Count(D, g, s) + (IF s = t THEN 1 ELSE 0)
  <1> DEFINE G == {y \in D : g[y] = s}
             H == {y \in D : [g EXCEPT ![x] = t][y] = s}
  <1>0. Count(D, g, s) = Cardinality(G) /\ Count(D, [g EXCEPT ![x] = t], s) = Cardinality(H)
    BY DEF Count
  <1>1. IsFiniteSet(G) /\ Cardinality(G) \in Nat
    BY FS_Subset, FS_CardinalityType
  <1>2. ASSUME s = t PROVE Cardinality(H) = Cardinality(G) + 1
    <2>1. H = G \cup {x} /\ x \notin G
      BY <1>2, NullIsNoSlot
    <2> QED
      BY <1>1, <1>2, <2>1, FS_AddElement
  <1>3. ASSUME s # t PROVE Cardinality(H) = Cardinality(G)
    <2>1. H = G
      BY <1>3, NullIsNoSlot
    <2> QED
      BY <1>1, <1>3, <2>1
  <1>4. QED
    BY <1>0, <1>1, <1>2, <1>3

LEMMA CountLoss ==
  ASSUME NEW D, IsFiniteSet(D), NEW g \in [D -> NullOrSlot],
         NEW x \in D, NEW t \in Slot, NEW s \in Slot, g[x] = t
  PROVE  Count(D, [g EXCEPT ![x] = NULL], s) = Count(D, g, s) - (IF s = t THEN 1 ELSE 0)
  <1> DEFINE G == {y \in D : g[y] = s}
             H == {y \in D : [g EXCEPT ![x] = NULL][y] = s}
  <1>0. Count(D, g, s) = Cardinality(G) /\ Count(D, [g EXCEPT ![x] = NULL], s) = Cardinality(H)
    BY DEF Count
  <1>1. IsFiniteSet(G) /\ Cardinality(G) \in Nat
    BY FS_Subset, FS_CardinalityType
  <1>2. ASSUME s = t PROVE Cardinality(H) = Cardinality(G) - 1
    <2>1. H = G \ {x} /\ x \in G
      BY <1>2, NullIsNoSlot
    <2> QED
      BY <1>1, <1>2, <2>1, FS_RemoveElement
  <1>3. ASSUME s # t PROVE Cardinality(H) = Cardinality(G)
    <2>1. H = G
      BY <1>3, NullIsNoSlot
    <2> QED
      BY <1>1, <1>3, <2>1
  <1>4. QED
    BY <1>0, <1>1, <1>2, <1>3

LEMMA HoldersCount ==
  ASSUME NEW s \in Slot
  PROVE  /\ Holders(s) = Count(Refs, ref, s) + Count(Files, file, s)
         /\ Holders(s)' = Count(Refs, ref', s) + Count(Files, file', s)
         /\ Count(Refs, ref, s) \in Nat /\ Count(Files, file, s) \in Nat
         /\ Holders(s) \in Nat
         /\ \A r \in Refs : ref[r] = s => Holders(s) > 0
         /\ \A f \in Files : file[f] = s => Holders(s) > 0
  <1>1. Holders(s) = Count(Refs, ref, s) + Count(Files, file, s)
    BY DEF Holders, Count
  <1>2. Holders(s)' = Count(Refs, ref', s) + Count(Files, file', s)
    BY DEF Holders, Count
  <1>3. /\ Count(Refs, ref, s) \in Nat
        /\ \A r \in Refs : ref[r] = s => Count(Refs, ref, s) > 0
    BY CountType, CacheAssumption
  <1>4. /\ Count(Files, file, s) \in Nat
        /\ \A f \in Files : file[f] = s => Count(Files, file, s) > 0
    BY CountType, CacheAssumption
  <1>5. QED
    BY <1>1, <1>2, <1>3, <1>4

-----------------------------------------------------------------------------
(* What a step does to the table is one of five things, and each keeps the
   counts exact: a slot in use gets one more holder, a free slot is filled for
   one holder, a slot loses a holder, nothing changes, or a free slot is
   written and left free (a vfs_open that failed). *)
Gains(t) == \A s \in Slot : Holders(s)' = Holders(s) + (IF s = t THEN 1 ELSE 0)
Loses(t) == \A s \in Slot : Holders(s)' = Holders(s) - (IF s = t THEN 1 ELSE 0)
Keeps == \A s \in Slot : Holders(s)' = Holders(s)

Scratched(t, p, type) ==
  [node_cache EXCEPT ![t] = [in_use |-> FALSE, path |-> p, type |-> type, refcount |-> 0]]

Shares == \E t \in Slot : node_cache[t].in_use /\ node_cache' = AddRef(t) /\ Gains(t)
Fills == \E t \in Free, p \in Path, type \in NodeTypes :
           node_cache' = create_sd_node(t, p, type) /\ Gains(t)
Drops == \E t \in Slot : Holders(t) > 0 /\ node_cache' = Released(t) /\ Loses(t)
Rests == node_cache' = node_cache /\ Keeps
Scratches == \E t \in Free, p \in Path, type \in NodeTypes :
               node_cache' = Scratched(t, p, type) /\ Keeps

TableStep == Shares \/ Fills \/ Drops \/ Rests \/ Scratches

Node == [in_use : BOOLEAN, path : Path, type : NodeTypes, refcount : Nat]

IInv == TypeOK /\ RefcountExact

LEMMA RefGains ==
  ASSUME TypeOK, NEW r \in Refs, NEW t \in Slot, ref[r] = NULL,
         ref' = [ref EXCEPT ![r] = t], file' = file
  PROVE  Gains(t)
  <1> SUFFICES ASSUME NEW s \in Slot
               PROVE Holders(s)' = Holders(s) + (IF s = t THEN 1 ELSE 0)
    BY DEF Gains
  <1>0. ref \in [Refs -> NullOrSlot] /\ IsFiniteSet(Refs)
    BY CacheAssumption DEF TypeOK, NullOrSlot
  <1>1. Count(Refs, ref', s) = Count(Refs, ref, s) + (IF s = t THEN 1 ELSE 0)
    BY <1>0, CountGain
  <1>2. /\ Holders(s) = Count(Refs, ref, s) + Count(Files, file, s)
        /\ Holders(s)' = Count(Refs, ref', s) + Count(Files, file', s)
        /\ Count(Refs, ref, s) \in Nat /\ Count(Files, file, s) \in Nat
    BY HoldersCount
  <1>3. QED
    BY <1>1, <1>2

LEMMA FileGains ==
  ASSUME TypeOK, NEW f \in Files, NEW t \in Slot, file[f] = NULL,
         file' = [file EXCEPT ![f] = t], ref' = ref
  PROVE  Gains(t)
  <1> SUFFICES ASSUME NEW s \in Slot
               PROVE Holders(s)' = Holders(s) + (IF s = t THEN 1 ELSE 0)
    BY DEF Gains
  <1>0. file \in [Files -> NullOrSlot] /\ IsFiniteSet(Files)
    BY CacheAssumption DEF TypeOK, NullOrSlot
  <1>1. Count(Files, file', s) = Count(Files, file, s) + (IF s = t THEN 1 ELSE 0)
    BY <1>0, CountGain
  <1>2. /\ Holders(s) = Count(Refs, ref, s) + Count(Files, file, s)
        /\ Holders(s)' = Count(Refs, ref', s) + Count(Files, file', s)
        /\ Count(Refs, ref, s) \in Nat /\ Count(Files, file, s) \in Nat
    BY HoldersCount
  <1>3. QED
    BY <1>1, <1>2

LEMMA RefLoses ==
  ASSUME TypeOK, NEW r \in Refs, ref[r] # NULL,
         ref' = [ref EXCEPT ![r] = NULL], file' = file
  PROVE  Loses(ref[r])
  <1> SUFFICES ASSUME NEW s \in Slot
               PROVE Holders(s)' = Holders(s) - (IF s = ref[r] THEN 1 ELSE 0)
    BY DEF Loses
  <1>0. ref \in [Refs -> NullOrSlot] /\ IsFiniteSet(Refs)
    BY CacheAssumption DEF TypeOK, NullOrSlot
  <1>1. ref[r] \in Slot
    BY DEF TypeOK
  <1>2. Count(Refs, ref', s) = Count(Refs, ref, s) - (IF s = ref[r] THEN 1 ELSE 0)
    BY <1>0, <1>1, CountLoss
  <1>3. /\ Holders(s) = Count(Refs, ref, s) + Count(Files, file, s)
        /\ Holders(s)' = Count(Refs, ref', s) + Count(Files, file', s)
        /\ Count(Refs, ref, s) \in Nat /\ Count(Files, file, s) \in Nat
    BY HoldersCount
  <1>4. QED
    BY <1>2, <1>3

LEMMA FileLoses ==
  ASSUME TypeOK, NEW f \in Files, file[f] # NULL,
         file' = [file EXCEPT ![f] = NULL], ref' = ref
  PROVE  Loses(file[f])
  <1> SUFFICES ASSUME NEW s \in Slot
               PROVE Holders(s)' = Holders(s) - (IF s = file[f] THEN 1 ELSE 0)
    BY DEF Loses
  <1>0. file \in [Files -> NullOrSlot] /\ IsFiniteSet(Files)
    BY CacheAssumption DEF TypeOK, NullOrSlot
  <1>1. file[f] \in Slot
    BY DEF TypeOK
  <1>2. Count(Files, file', s) = Count(Files, file, s) - (IF s = file[f] THEN 1 ELSE 0)
    BY <1>0, <1>1, CountLoss
  <1>3. /\ Holders(s) = Count(Refs, ref, s) + Count(Files, file, s)
        /\ Holders(s)' = Count(Refs, ref', s) + Count(Files, file', s)
        /\ Count(Refs, ref, s) \in Nat /\ Count(Files, file, s) \in Nat
    BY HoldersCount
  <1>4. QED
    BY <1>2, <1>3

LEMMA NobodyMoves ==
  ASSUME ref' = ref, file' = file
  PROVE  Keeps
  BY DEF Keeps, Holders

(* The five effects keep the table well typed and its counts exact. *)
LEMMA TableStepKeeps ==
  ASSUME IInv, TableStep
  PROVE  node_cache' \in [Slot -> Node] /\ RefcountExact'
  <1> USE DEF Node, NodeTypes
  <1>0. /\ node_cache \in [Slot -> Node]
        /\ \A s \in Slot : Holders(s) \in Nat
        /\ \A s \in Slot : node_cache[s].refcount = Holders(s)
        /\ \A s \in Slot : node_cache[s].in_use <=> Holders(s) > 0
    BY HoldersCount DEF IInv, TypeOK, RefcountExact
  <1> HIDE DEF Node, NodeTypes
  <1>a. SUFFICES /\ node_cache' \in [Slot -> Node]
                 /\ \A s \in Slot : /\ node_cache'[s].refcount = Holders(s)'
                                    /\ node_cache'[s].in_use <=> Holders(s)' > 0
    BY DEF RefcountExact
  <1>1. CASE Shares
    <2>1. PICK t \in Slot : node_cache[t].in_use /\ node_cache' = AddRef(t) /\ Gains(t)
      BY <1>1 DEF Shares
    <2> QED
      BY <1>0, <2>1 DEF AddRef, Gains, Node
  <1>2. CASE Fills
    <2>1. PICK t \in Free, p \in Path, type \in NodeTypes :
            node_cache' = create_sd_node(t, p, type) /\ Gains(t)
      BY <1>2 DEF Fills
    <2> QED
      BY <1>0, <2>1 DEF create_sd_node, Gains, Node, Free
  <1>3. CASE Drops
    <2>1. PICK t \in Slot : Holders(t) > 0 /\ node_cache' = Released(t) /\ Loses(t)
      BY <1>3 DEF Drops
    <2>2. /\ node_cache'[t] = [node_cache[t] EXCEPT !.refcount = @ - 1,
                                                   !.in_use = node_cache[t].refcount > 1]
          /\ \A s \in Slot \ {t} : node_cache'[s] = node_cache[s]
          /\ DOMAIN node_cache' = Slot
          /\ node_cache' = [s \in Slot |-> node_cache'[s]]
      BY <1>0, <2>1 DEF Released
    <2>3. /\ node_cache'[t] \in Node
          /\ node_cache'[t].refcount = Holders(t) - 1
          /\ node_cache'[t].in_use <=> Holders(t) > 1
      <3>1. node_cache[t] \in Node /\ node_cache[t].refcount = Holders(t) /\ Holders(t) \in Nat
        BY <1>0
      <3>2. node_cache'[t].refcount = Holders(t) - 1 /\ Holders(t) - 1 \in Nat
        BY <2>1, <2>2, <3>1 DEF Node
      <3>3. node_cache'[t].in_use = (node_cache[t].refcount > 1)
        BY <2>2, <3>1 DEF Node
      <3>4. node_cache'[t].in_use \in BOOLEAN /\ (node_cache'[t].in_use <=> Holders(t) > 1)
        <4>1. node_cache'[t].in_use = (Holders(t) > 1)
          BY <3>1, <3>3, Zenon
        <4>2. (Holders(t) > 1) \in BOOLEAN
          BY <3>1
        <4> QED
          BY <4>1, <4>2, Zenon
      <3>5. node_cache'[t].path \in Path /\ node_cache'[t].type \in NodeTypes
        BY <2>2, <3>1 DEF Node
      <3>6. node_cache'[t] = [in_use |-> node_cache'[t].in_use, path |-> node_cache'[t].path,
                              type |-> node_cache'[t].type, refcount |-> node_cache'[t].refcount]
        BY <2>2, <3>1 DEF Node
      <3> QED
        BY <3>2, <3>4, <3>5, <3>6 DEF Node
    <2>4. Holders(t)' = Holders(t) - 1 /\ \A s \in Slot \ {t} : Holders(s)' = Holders(s)
      BY <1>0, <2>1 DEF Loses
    <2>5. node_cache' \in [Slot -> Node]
      BY <1>0, <2>2, <2>3
    <2>6. ASSUME NEW s \in Slot
          PROVE  /\ node_cache'[s].refcount = Holders(s)'
                 /\ node_cache'[s].in_use <=> Holders(s)' > 0
      <3>1. CASE s = t
        <4>1. Holders(t) \in Nat /\ (Holders(t) > 1 <=> Holders(t)' > 0)
          BY <1>0, <2>4
        <4> QED
          BY <3>1, <4>1, <2>3, <2>4
      <3>2. CASE s # t
        BY <1>0, <2>2, <2>4, <3>2
      <3> QED
        BY <3>1, <3>2
    <2> QED
      BY <2>5, <2>6
  <1>4. CASE Rests
    BY <1>0, <1>4 DEF Rests, Keeps
  <1>5. CASE Scratches
    <2>1. PICK t \in Free, p \in Path, type \in NodeTypes :
            node_cache' = Scratched(t, p, type) /\ Keeps
      BY <1>5 DEF Scratches
    <2> QED
      BY <1>0, <2>1 DEF Scratched, Keeps, Node, Free
  <1>6. QED
    BY <1>1, <1>2, <1>3, <1>4, <1>5 DEF TableStep

(* And none of them writes a slot that has a holder before and after. *)
LEMMA TableStepStable ==
  ASSUME IInv, TableStep, NEW s \in Slot, Holders(s) > 0
  PROVE  node_cache'[s].path = node_cache[s].path /\ node_cache'[s].type = node_cache[s].type
  <1>1. node_cache \in [Slot -> Node] /\ s \notin Free
    BY DEF IInv, TypeOK, Node, RefcountExact, Free
  <1>2. CASE Shares
    BY <1>1, <1>2 DEF Shares, AddRef, Node
  <1>3. CASE Fills
    BY <1>1, <1>3 DEF Fills, create_sd_node
  <1>4. CASE Drops
    BY <1>1, <1>4 DEF Drops, Released, Node
  <1>5. CASE Rests
    BY <1>5 DEF Rests
  <1>6. CASE Scratches
    BY <1>1, <1>6 DEF Scratches, Scratched
  <1>7. QED
    BY <1>2, <1>3, <1>4, <1>5, <1>6 DEF TableStep

-----------------------------------------------------------------------------
(* Every operation is one of those table steps. *)
CardType == [Path -> NodeTypes \cup {Absent}]
AnswerType == [path : Path, type : NodeTypes \cup {Absent, "none"}, fault : BOOLEAN]

OthersTyped ==
  /\ card' \in CardType
  /\ ref' \in [Refs -> NullOrSlot]
  /\ file' \in [Files -> NullOrSlot]
  /\ answer' \in AnswerType

StepOK == TableStep /\ OthersTyped

LEMMA InvTypes ==
  ASSUME IInv
  PROVE  /\ card \in CardType /\ node_cache \in [Slot -> Node]
         /\ ref \in [Refs -> NullOrSlot] /\ file \in [Files -> NullOrSlot]
         /\ answer \in AnswerType /\ NoAnswer \in AnswerType
  <1>1. <<>> \in Path
    BY CacheAssumption
  <1>2. QED
    BY <1>1 DEF IInv, TypeOK, CardType, Node, NullOrSlot, AnswerType, NoAnswer

LEMMA LeastCached ==
  ASSUME NEW p, Cached(p) # {}
  PROVE  /\ Least(Cached(p)) \in Slot
         /\ node_cache[Least(Cached(p))].in_use
         /\ node_cache[Least(Cached(p))].path = p
  <1>1. Least(Cached(p)) \in Cached(p)
    BY LeastIn DEF Cached
  <1>2. QED
    BY <1>1 DEF Cached

LEMMA LeastFree ==
  ASSUME Free # {}
  PROVE  Least(Free) \in Free /\ Least(Free) \in Slot
  <1>1. Least(Free) \in Free
    BY LeastIn DEF Free
  <1>2. QED
    BY <1>1 DEF Free

(* A holder's slot is in use. *)
LEMMA HeldInUse ==
  ASSUME IInv
  PROVE  /\ \A r \in Refs : ref[r] # NULL =>
              ref[r] \in Slot /\ Holders(ref[r]) > 0 /\ node_cache[ref[r]].in_use
         /\ \A f \in Files : file[f] # NULL =>
              file[f] \in Slot /\ Holders(file[f]) > 0 /\ node_cache[file[f]].in_use
  <1>1. \A s \in Slot : Holders(s) > 0 => node_cache[s].in_use
    BY DEF IInv, RefcountExact
  <1>2. /\ \A r \in Refs : ref[r] # NULL => ref[r] \in Slot
        /\ \A f \in Files : file[f] # NULL => file[f] \in Slot
    BY DEF IInv, TypeOK
  <1>3. /\ \A r \in Refs : ref[r] # NULL => Holders(ref[r]) > 0
        /\ \A f \in Files : file[f] # NULL => Holders(file[f]) > 0
    BY <1>2, HoldersCount
  <1>4. QED
    BY <1>1, <1>2, <1>3

LEMMA ResolveStep ==
  ASSUME IInv, NEW r \in Refs, NEW p \in Path, ref[r] = NULL, Resolve(r, p), file' = file
  PROVE  TableStep /\ ref' \in [Refs -> NullOrSlot] /\ answer' \in AnswerType
  <1> USE InvTypes
  <1>1. CASE /\ Cached(p) # {}
             /\ node_cache' = AddRef(Least(Cached(p)))
             /\ ref' = [ref EXCEPT ![r] = Least(Cached(p))]
             /\ answer' = [path |-> p, type |-> node_cache[Least(Cached(p))].type,
                           fault |-> FALSE]
    <2> DEFINE t == Least(Cached(p))
    <2>1. t \in Slot /\ node_cache[t].in_use
      BY <1>1, LeastCached
    <2> HIDE DEF t
    <2>2. /\ node_cache' = AddRef(t) /\ ref' = [ref EXCEPT ![r] = t]
          /\ answer' = [path |-> p, type |-> node_cache[t].type, fault |-> FALSE]
      BY <1>1 DEF t
    <2>3. Gains(t)
      BY <2>1, <2>2, RefGains DEF IInv
    <2>4. Shares
      BY <2>1, <2>2, <2>3 DEF Shares
    <2>5. node_cache[t].type \in NodeTypes
      BY <2>1 DEF Node
    <2> QED
      BY <2>1, <2>2, <2>4, <2>5 DEF TableStep, NullOrSlot, AnswerType
  <1>2. CASE /\ card[p] # Absent /\ Free # {}
             /\ node_cache' = create_sd_node(Least(Free), p, card[p])
             /\ ref' = [ref EXCEPT ![r] = Least(Free)]
             /\ answer' = [path |-> p, type |-> card[p], fault |-> FALSE]
    <2>1. card[p] \in NodeTypes
      BY <1>2 DEF CardType
    <2>2. Gains(Least(Free))
      BY <1>2, LeastFree, RefGains DEF IInv
    <2>3. Fills
      BY <1>2, <2>1, <2>2, LeastFree DEF Fills
    <2> QED
      BY <1>2, <2>1, <2>3, LeastFree DEF TableStep, NullOrSlot, AnswerType
  <1>3. CASE /\ \E fault \in CardFaults :
                   answer' = [path |-> p, type |-> Absent, fault |-> fault]
             /\ UNCHANGED <<node_cache, ref>>
    <2>1. Rests
      BY <1>3, NobodyMoves DEF Rests
    <2>2. answer' \in AnswerType
      BY <1>3, CacheAssumption DEF AnswerType
    <2> QED
      BY <1>3, <2>1, <2>2 DEF TableStep
  <1>4. QED
    BY <1>1, <1>2, <1>3 DEF Resolve

LEMMA ResolveSteps ==
  ASSUME IInv, NEW r \in Refs
  PROVE  /\ \A p \in Path : vfs_resolve(r, p) => StepOK
         /\ \A b \in Refs, name \in Names \cup {".."} : vfs_resolve_at(r, b, name) => StepOK
  <1>1. ASSUME NEW p \in Path, vfs_resolve(r, p) PROVE StepOK
    BY <1>1, ResolveStep, InvTypes DEF vfs_resolve, StepOK, OthersTyped
  <1>2. ASSUME NEW b \in Refs, NEW name \in Names \cup {".."}, vfs_resolve_at(r, b, name)
        PROVE  StepOK
    BY <1>2, ResolveStep, InvTypes DEF vfs_resolve_at, StepOK, OthersTyped
  <1>3. QED
    BY <1>1, <1>2

LEMMA ShareStep ==
  ASSUME IInv, NEW r \in Refs, NEW b \in Refs, share_cwd(r, b)
  PROVE  StepOK
  <1>1. ref[b] \in Slot /\ node_cache[ref[b]].in_use
    BY HeldInUse DEF share_cwd
  <1>2. Gains(ref[b])
    BY <1>1, RefGains DEF share_cwd, IInv
  <1>3. Shares
    BY <1>1, <1>2 DEF share_cwd, Shares
  <1>4. OthersTyped
    BY <1>1, InvTypes DEF share_cwd, OthersTyped, NullOrSlot
  <1>5. QED
    BY <1>3, <1>4 DEF StepOK, TableStep

LEMMA ReleaseStep ==
  ASSUME IInv, NEW r \in Refs, vfs_node_release(r)
  PROVE  StepOK
  <1>1. ref[r] \in Slot /\ Holders(ref[r]) > 0
    BY HeldInUse DEF vfs_node_release
  <1>2. Loses(ref[r])
    BY RefLoses DEF vfs_node_release, IInv
  <1>3. Drops
    BY <1>1, <1>2 DEF vfs_node_release, Drops
  <1>4. OthersTyped
    BY InvTypes DEF vfs_node_release, OthersTyped, NullOrSlot
  <1>5. QED
    BY <1>3, <1>4 DEF StepOK, TableStep

LEMMA CloseStep ==
  ASSUME IInv, NEW f \in Files, vfs_close(f)
  PROVE  StepOK
  <1>1. file[f] \in Slot /\ Holders(file[f]) > 0
    BY HeldInUse DEF vfs_close
  <1>2. Loses(file[f])
    BY FileLoses DEF vfs_close, IInv
  <1>3. Drops
    BY <1>1, <1>2 DEF vfs_close, Drops
  <1>4. OthersTyped
    BY InvTypes DEF vfs_close, OthersTyped, NullOrSlot
  <1>5. QED
    BY <1>3, <1>4 DEF StepOK, TableStep

LEMMA CreateStep ==
  ASSUME IInv, NEW r \in Refs, NEW d \in Refs, NEW name \in Names, NEW type \in NodeTypes,
         vfs_dir_create_node(r, d, name, type)
  PROVE  StepOK
  <1> USE InvTypes
  <1> DEFINE p == Entry(d, name)
  <1>1. p \in Path /\ ref[r] = NULL /\ file' = file
    BY DEF vfs_dir_create_node
  <1> HIDE DEF p
  <1>2. CASE Resolve(r, p) /\ UNCHANGED card
    BY <1>1, <1>2, ResolveStep DEF StepOK, OthersTyped
  <1>3. CASE /\ card' = [card EXCEPT ![p] = type]
             /\ Free = {}
             /\ answer' = [path |-> p, type |-> Absent, fault |-> FALSE]
             /\ UNCHANGED <<node_cache, ref>>
    <2>1. Rests
      BY <1>1, <1>3, NobodyMoves DEF Rests
    <2> QED
      BY <1>1, <1>3, <2>1 DEF StepOK, TableStep, OthersTyped, CardType, AnswerType
  <1>4. CASE /\ card' = [card EXCEPT ![p] = type]
             /\ Free # {}
             /\ node_cache' = create_sd_node(Least(Free), p, type)
             /\ ref' = [ref EXCEPT ![r] = Least(Free)]
             /\ answer' = [path |-> p, type |-> type, fault |-> FALSE]
    <2>1. Gains(Least(Free))
      BY <1>1, <1>4, LeastFree, RefGains DEF IInv
    <2>2. Fills
      BY <1>1, <1>4, <2>1, LeastFree DEF Fills
    <2>3. OthersTyped
      BY <1>1, <1>4, LeastFree DEF OthersTyped, CardType, AnswerType, NullOrSlot
    <2> QED
      BY <2>2, <2>3 DEF StepOK, TableStep
  <1>5. CASE /\ \E fault \in CardFaults : answer' = [path |-> p, type |-> Absent, fault |-> fault]
             /\ UNCHANGED <<card, node_cache, ref>>
    <2>1. Rests
      BY <1>1, <1>5, NobodyMoves DEF Rests
    <2>2. answer' \in AnswerType
      BY <1>1, <1>5, CacheAssumption DEF AnswerType
    <2> QED
      BY <1>1, <1>5, <2>1, <2>2 DEF StepOK, TableStep, OthersTyped
  <1>6. QED
    BY <1>2, <1>3, <1>4, <1>5 DEF vfs_dir_create_node, p

LEMMA MovedType ==
  ASSUME card \in CardType, NEW old, NEW new
  PROVE  Moved(old, new) \in CardType
  BY DEF CardType, Moved

LEMMA CardSteps ==
  ASSUME IInv, NEW d \in Refs, NEW name \in Names
  PROVE  /\ vfs_dir_remove_node(d, name) => StepOK
         /\ \A e \in Refs, newName \in Names : vfs_dir_rename_node(d, name, e, newName) => StepOK
  <1>1. ASSUME vfs_dir_remove_node(d, name) PROVE StepOK
    <2>1. Rests
      BY <1>1, NobodyMoves DEF vfs_dir_remove_node, Rests
    <2>2. card' \in CardType
      BY <1>1, InvTypes DEF vfs_dir_remove_node, CardType
    <2> QED
      BY <1>1, <2>1, <2>2, InvTypes DEF vfs_dir_remove_node, StepOK, TableStep, OthersTyped
  <1>2. ASSUME NEW e \in Refs, NEW newName \in Names, vfs_dir_rename_node(d, name, e, newName)
        PROVE  StepOK
    <2>1. Rests
      BY <1>2, NobodyMoves DEF vfs_dir_rename_node, Rests
    <2>2. card' \in CardType
      BY <1>2, InvTypes, MovedType DEF vfs_dir_rename_node
    <2> QED
      BY <1>2, <2>1, <2>2, InvTypes DEF vfs_dir_rename_node, StepOK, TableStep, OthersTyped
  <1>3. QED
    BY <1>1, <1>2

LEMMA OpenType ==
  ASSUME card \in CardType, NEW type, NEW p \in Path, NEW flags,
         NEW open \in sd_open(type, p, flags)
  PROVE  open.card \in CardType
  <1> DEFINE cleared == IF flags = "trunc" /\ card[p] = "file"
                        THEN [card EXCEPT ![p] = Absent] ELSE card
  <1>1. cleared \in CardType /\ [cleared EXCEPT ![p] = "file"] \in CardType
    BY DEF CardType, NodeTypes
  <1>2. open.card \in {card, cleared, [cleared EXCEPT ![p] = "file"]}
    BY DEF sd_open
  <1>3. QED
    BY <1>1, <1>2

LEMMA OpenNodeStep ==
  ASSUME IInv, NEW f \in Files, NEW r \in Refs, NEW flags, vfs_open_node(f, r, flags)
  PROVE  StepOK
  <1> DEFINE t == ref[r]
  <1>1. t \in Slot /\ node_cache[t].in_use
    BY HeldInUse DEF vfs_open_node
  <1>2. node_cache[t].path \in Path
    BY <1>1, InvTypes DEF Node
  <1>3. PICK open \in sd_open(node_cache[t].type, node_cache[t].path, flags) :
          /\ card' = open.card
          /\ node_cache' = IF open.ok THEN AddRef(t) ELSE node_cache
          /\ file' = IF open.ok THEN [file EXCEPT ![f] = t] ELSE file
    BY DEF vfs_open_node
  <1>4. file[f] = NULL /\ ref' = ref /\ answer' = NoAnswer
    BY DEF vfs_open_node
  <1> HIDE DEF t
  <1>5. OthersTyped
    BY <1>1, <1>2, <1>3, <1>4, OpenType, InvTypes DEF OthersTyped, NullOrSlot
  <1>6. CASE open.ok
    <2>1. Gains(t)
      BY <1>1, <1>3, <1>4, <1>6, FileGains DEF IInv
    <2>2. Shares
      BY <1>1, <1>3, <1>6, <2>1 DEF Shares
    <2> QED
      BY <1>5, <2>2 DEF StepOK, TableStep
  <1>7. CASE ~open.ok
    <2>1. Rests
      BY <1>3, <1>4, <1>7, NobodyMoves DEF Rests
    <2> QED
      BY <1>5, <2>1 DEF StepOK, TableStep
  <1>8. QED
    BY <1>6, <1>7

LEMMA OpenStep ==
  ASSUME IInv, NEW f \in Files, NEW p \in Path, NEW flags, vfs_open(f, p, flags)
  PROVE  StepOK
  <1> USE InvTypes
  <1>1. file[f] = NULL /\ ref' = ref /\ answer' = NoAnswer
    BY DEF vfs_open
  <1>2. CASE Cached(p) # {}
    <2> DEFINE t == Least(Cached(p))
    <2>1. t \in Slot /\ node_cache[t].in_use
      BY <1>2, LeastCached
    <2>2. PICK open \in sd_open(node_cache[t].type, p, flags) :
            /\ card' = open.card
            /\ file' = IF open.ok THEN [file EXCEPT ![f] = t] ELSE file
            /\ node_cache' = IF open.ok
                             THEN [node_cache EXCEPT ![t].refcount = @ + 1, ![t].in_use = TRUE]
                             ELSE node_cache
      BY <1>2 DEF vfs_open
    <2> HIDE DEF t
    <2>3. OthersTyped
      BY <1>1, <2>1, <2>2, OpenType DEF OthersTyped, NullOrSlot
    <2>4. CASE open.ok
      <3>1. Gains(t)
        BY <1>1, <2>1, <2>2, <2>4, FileGains DEF IInv
      <3>2. node_cache' = AddRef(t)
        BY <2>1, <2>2, <2>4 DEF AddRef, Node
      <3>3. Shares
        BY <2>1, <3>1, <3>2 DEF Shares
      <3> QED
        BY <2>3, <3>3 DEF StepOK, TableStep
    <2>5. CASE ~open.ok
      <3>1. Rests
        BY <1>1, <2>2, <2>5, NobodyMoves DEF Rests
      <3> QED
        BY <2>3, <3>1 DEF StepOK, TableStep
    <2> QED
      BY <2>4, <2>5
  <1>3. CASE Cached(p) = {}
    <2> DEFINE t == Least(Free)
    <2>1. card[p] # Absent /\ Free # {}
      BY <1>3 DEF vfs_open
    <2>2. t \in Free /\ t \in Slot
      BY <2>1, LeastFree
    <2>3. card[p] \in NodeTypes
      BY <2>1 DEF CardType
    <2> DEFINE there == [create_sd_node(t, p, card[p])
                           EXCEPT ![t].in_use = FALSE, ![t].refcount = 0]
    <2>4. PICK open \in sd_open(there[t].type, p, flags) :
            /\ card' = open.card
            /\ file' = IF open.ok THEN [file EXCEPT ![f] = t] ELSE file
            /\ node_cache' = IF open.ok
                             THEN [there EXCEPT ![t].refcount = @ + 1, ![t].in_use = TRUE]
                             ELSE there
      BY <1>3 DEF vfs_open
    <2> HIDE DEF t
    <2>5. there = Scratched(t, p, card[p])
      BY <2>2 DEF create_sd_node, Scratched
    <2>6. [there EXCEPT ![t].refcount = @ + 1, ![t].in_use = TRUE]
            = create_sd_node(t, p, card[p])
      BY <2>2 DEF create_sd_node
    <2> HIDE DEF there
    <2>7. OthersTyped
      BY <1>1, <2>2, <2>4, OpenType DEF OthersTyped, NullOrSlot
    <2>8. CASE open.ok
      <3>1. Gains(t)
        BY <1>1, <2>2, <2>4, <2>8, FileGains DEF IInv
      <3>2. Fills
        BY <2>2, <2>3, <2>4, <2>6, <2>8, <3>1 DEF Fills
      <3> QED
        BY <2>7, <3>2 DEF StepOK, TableStep
    <2>9. CASE ~open.ok
      <3>1. Keeps
        BY <1>1, <2>4, <2>9, NobodyMoves
      <3>2. Scratches
        BY <2>2, <2>3, <2>4, <2>5, <2>9, <3>1 DEF Scratches
      <3> QED
        BY <2>7, <3>2 DEF StepOK, TableStep
    <2> QED
      BY <2>8, <2>9
  <1>4. QED
    BY <1>2, <1>3

LEMMA NextSteps == IInv /\ [Next]_vars => StepOK
  <1> SUFFICES ASSUME IInv, [Next]_vars PROVE StepOK
    OBVIOUS
  <1>1. ASSUME NEW r \in Refs, NEW p \in Path, vfs_resolve(r, p) PROVE StepOK
    BY <1>1, ResolveSteps
  <1>2. ASSUME NEW r \in Refs, NEW b \in Refs, NEW name \in Names \cup {".."},
               vfs_resolve_at(r, b, name)
        PROVE  StepOK
    BY <1>2, ResolveSteps
  <1>3. ASSUME NEW r \in Refs, NEW b \in Refs, share_cwd(r, b) PROVE StepOK
    BY <1>3, ShareStep
  <1>4. ASSUME NEW r \in Refs, vfs_node_release(r) PROVE StepOK
    BY <1>4, ReleaseStep
  <1>5. ASSUME NEW r \in Refs, NEW d \in Refs, NEW name \in Names, NEW type \in NodeTypes,
               vfs_dir_create_node(r, d, name, type)
        PROVE  StepOK
    BY <1>5, CreateStep
  <1>6. ASSUME NEW d \in Refs, NEW name \in Names, vfs_dir_remove_node(d, name) PROVE StepOK
    BY <1>6, CardSteps
  <1>7. ASSUME NEW d \in Refs, NEW e \in Refs, NEW name \in Names, NEW newName \in Names,
               vfs_dir_rename_node(d, name, e, newName)
        PROVE  StepOK
    BY <1>7, CardSteps
  <1>8. ASSUME NEW f \in Files, NEW r \in Refs, NEW flags \in Flags, vfs_open_node(f, r, flags)
        PROVE  StepOK
    BY <1>8, OpenNodeStep
  <1>9. ASSUME NEW f \in Files, NEW p \in Path, NEW flags \in Flags, vfs_open(f, p, flags)
        PROVE  StepOK
    BY <1>9, OpenStep
  <1>10. ASSUME NEW f \in Files, vfs_close(f) PROVE StepOK
    BY <1>10, CloseStep
  <1>11. CASE UNCHANGED vars
    <2>1. Rests
      BY <1>11, NobodyMoves DEF Rests, vars
    <2> QED
      BY <1>11, <2>1, InvTypes DEF vars, StepOK, TableStep, OthersTyped
  <1>12. QED
    BY <1>1, <1>2, <1>3, <1>4, <1>5, <1>6, <1>7, <1>8, <1>9, <1>10, <1>11 DEF Next

-----------------------------------------------------------------------------
LEMMA InitIInv == Init => IInv
  <1> SUFFICES ASSUME Init PROVE IInv
    OBVIOUS
  <1>1. TypeOK
    BY CacheAssumption DEF Init, TypeOK, NodeTypes, NoAnswer
  <1>2. ASSUME NEW s \in Slot PROVE Holders(s) = 0
    <2>1. {r \in Refs : ref[r] = s} = {} /\ {f \in Files : file[f] = s} = {}
      BY NullIsNoSlot DEF Init
    <2> QED
      BY <2>1, FS_EmptySet DEF Holders
  <1>3. RefcountExact
    BY <1>2 DEF Init, RefcountExact
  <1>4. QED
    BY <1>1, <1>3 DEF IInv

LEMMA NextIInv == IInv /\ [Next]_vars => IInv'
  <1> SUFFICES ASSUME IInv, [Next]_vars PROVE IInv'
    OBVIOUS
  <1>1. TableStep /\ OthersTyped
    BY NextSteps DEF StepOK
  <1>2. node_cache' \in [Slot -> Node] /\ RefcountExact'
    BY <1>1, TableStepKeeps
  <1>3. TypeOK'
    BY <1>1, <1>2 DEF TypeOK, OthersTyped, CardType, Node, NullOrSlot, AnswerType
  <1>4. QED
    BY <1>2, <1>3 DEF IInv

LEMMA Invariance == Spec => []IInv
  BY InitIInv, NextIInv, PTL DEF Spec

(* The table of vfs_sd.cpp keeps its types. *)
THEOREM TypeCorrect == Spec => []TypeOK
  BY Invariance, PTL DEF IInv

(* Every reference count is the number of pointers and files that lead to the
   slot, and a slot is in use exactly while that number is not zero: nothing
   leaks, and nothing in use can be given to another path. *)
THEOREM RefcountsAreExact == Spec => []RefcountExact
  BY Invariance, PTL DEF IInv

(* What vfs.h promises of a resolved node, that it is stable and its type
   immutable, holds for as long as somebody refers to it. *)
THEOREM ResolvedNodesAreStable == Spec => HeldNodeStable
  <1>1. ASSUME IInv, [Next]_vars
        PROVE  \A s \in Slot : Holders(s) > 0 /\ Holders(s)' > 0 =>
                 /\ node_cache'[s].path = node_cache[s].path
                 /\ node_cache'[s].type = node_cache[s].type
    <2>1. TableStep
      BY <1>1, NextSteps DEF StepOK
    <2> QED
      BY <1>1, <2>1, TableStepStable
  <1>2. QED
    BY <1>1, Invariance, PTL DEF Spec, HeldNodeStable

-----------------------------------------------------------------------------
(* Wrong answers.  Only the two operations that resolve leave an answer. *)
LEMMA ResolveExplained ==
  ASSUME IInv, NEW r \in Refs, NEW p \in Path, ref[r] = NULL, Resolve(r, p),
         file' = file, card' = card
  PROVE  WrongAnswersExplained'
  <1> USE InvTypes
  <1>1. CASE /\ Cached(p) # {}
             /\ node_cache' = AddRef(Least(Cached(p)))
             /\ ref' = [ref EXCEPT ![r] = Least(Cached(p))]
             /\ answer' = [path |-> p, type |-> node_cache[Least(Cached(p))].type,
                           fault |-> FALSE]
    <2>0. PICK t \in Slot : t = Least(Cached(p))
      BY <1>1, LeastCached
    <2>1. t \in Slot /\ node_cache[t].in_use /\ node_cache[t].path = p
      BY <1>1, <2>0, LeastCached
    <2>2. node_cache' = AddRef(t) /\ ref' = [ref EXCEPT ![r] = t] /\ answer'.path = p
      BY <1>1, <2>0
    <2>3. Holders(t) > 0 /\ Holders(t) \in Nat
      BY <2>1, HoldersCount DEF IInv, RefcountExact
    <2>4. Holders(t)' = Holders(t) + 1
      <3>1. Gains(t)
        BY <2>1, <2>2, RefGains DEF IInv
      <3> QED
        BY <2>1, <3>1 DEF Gains
    <2>5. Holders(t)' > 1
      BY <2>3, <2>4
    <2>6. node_cache'[t].path = p
      BY <2>1, <2>2 DEF AddRef, Node
    <2>7. \E s \in Slot : node_cache'[s].path = answer'.path /\ Holders(s)' > 1
      BY <2>1, <2>2, <2>5, <2>6
    <2> QED
      BY <2>7 DEF WrongAnswersExplained
  <1>2. CASE answer' = [path |-> p, type |-> card[p], fault |-> FALSE]
    BY <1>2 DEF WrongAnswersExplained, Wrong
  <1>3. CASE /\ \E fault \in CardFaults :
                  /\ fault \/ card[p] = Absent \/ Free = {}
                  /\ answer' = [path |-> p, type |-> Absent, fault |-> fault]
             /\ UNCHANGED <<node_cache, ref>>
    <2>1. PICK fault \in CardFaults :
             /\ fault \/ card[p] = Absent \/ Free = {}
             /\ answer' = [path |-> p, type |-> Absent, fault |-> fault]
      BY <1>3
    <2>2. Free' = Free
      BY <1>3 DEF Free
    <2> QED
      BY <2>1, <2>2 DEF WrongAnswersExplained, Wrong
  <1>4. QED
    BY <1>1, <1>2, <1>3 DEF Resolve

LEMMA CreateExplained ==
  ASSUME IInv, NEW r \in Refs, NEW d \in Refs, NEW name \in Names, NEW type \in NodeTypes,
         vfs_dir_create_node(r, d, name, type)
  PROVE  WrongAnswersExplained'
  <1> DEFINE p == Entry(d, name)
  <1>1. p \in Path /\ ref[r] = NULL /\ file' = file
    BY DEF vfs_dir_create_node
  <1> HIDE DEF p
  <1>2. CASE Resolve(r, p) /\ UNCHANGED card
    BY <1>1, <1>2, ResolveExplained
  <1>3. CASE /\ Free = {}
             /\ answer' = [path |-> p, type |-> Absent, fault |-> FALSE]
             /\ UNCHANGED <<node_cache, ref>>
    <2>1. Free' = Free
      BY <1>3 DEF Free
    <2> QED
      BY <1>3, <2>1 DEF WrongAnswersExplained
  <1>4. CASE /\ card' = [card EXCEPT ![p] = type]
             /\ answer' = [path |-> p, type |-> type, fault |-> FALSE]
    <2>1. card'[p] = type
      BY <1>1, <1>4, InvTypes DEF CardType
    <2> QED
      BY <1>4, <2>1 DEF WrongAnswersExplained, Wrong
  <1>5. CASE /\ \E fault \in CardFaults :
                  /\ fault \/ card[p] = Absent
                  /\ answer' = [path |-> p, type |-> Absent, fault |-> fault]
             /\ UNCHANGED <<card, node_cache, ref>>
    BY <1>5 DEF WrongAnswersExplained, Wrong
  <1>6. QED
    BY <1>2, <1>3, <1>4, <1>5 DEF vfs_dir_create_node, p

LEMMA NextExplained == IInv /\ WrongAnswersExplained /\ [Next]_vars => WrongAnswersExplained'
  <1> SUFFICES ASSUME IInv, WrongAnswersExplained, [Next]_vars PROVE WrongAnswersExplained'
    OBVIOUS
  <1>1. ASSUME NEW r \in Refs, NEW p \in Path, vfs_resolve(r, p)
        PROVE  WrongAnswersExplained'
    BY <1>1, ResolveExplained DEF vfs_resolve
  <1>2. ASSUME NEW r \in Refs, NEW b \in Refs, NEW name \in Names \cup {".."},
               vfs_resolve_at(r, b, name)
        PROVE  WrongAnswersExplained'
    BY <1>2, ResolveExplained DEF vfs_resolve_at
  <1>3. ASSUME NEW r \in Refs, NEW d \in Refs, NEW name \in Names, NEW type \in NodeTypes,
               vfs_dir_create_node(r, d, name, type)
        PROVE  WrongAnswersExplained'
    BY <1>3, CreateExplained
  <1>4. ASSUME answer' = NoAnswer PROVE WrongAnswersExplained'
    BY <1>4 DEF WrongAnswersExplained, Wrong
  <1>5. CASE UNCHANGED vars
    <2>1. /\ card' = card /\ node_cache' = node_cache /\ answer' = answer
          /\ \A s \in Slot : Holders(s)' = Holders(s)
      BY <1>5 DEF vars, Holders
    <2> QED
      BY <2>1 DEF WrongAnswersExplained, Wrong, Free
  <1>6. ASSUME NEW r \in Refs, NEW b \in Refs,
               share_cwd(r, b) \/ vfs_node_release(r)
        PROVE  WrongAnswersExplained'
    BY <1>4, <1>6 DEF share_cwd, vfs_node_release
  <1>7. ASSUME NEW d \in Refs, NEW e \in Refs, NEW name \in Names, NEW newName \in Names,
               vfs_dir_remove_node(d, name) \/ vfs_dir_rename_node(d, name, e, newName)
        PROVE  WrongAnswersExplained'
    BY <1>4, <1>7 DEF vfs_dir_remove_node, vfs_dir_rename_node
  <1>8. ASSUME NEW f \in Files, NEW r \in Refs, NEW p \in Path, NEW flags \in Flags,
               vfs_open_node(f, r, flags) \/ vfs_open(f, p, flags) \/ vfs_close(f)
        PROVE  WrongAnswersExplained'
    BY <1>4, <1>8 DEF vfs_open_node, vfs_open, vfs_close
  <1>9. Path # {} /\ Flags # {}
    BY CacheAssumption DEF Flags
  <1>10. CASE \E f \in Files : vfs_close(f)
    BY <1>4, <1>10 DEF vfs_close
  <1>11. CASE \E f \in Files, r \in Refs, flags \in Flags : vfs_open_node(f, r, flags)
    BY <1>8, <1>9, <1>11
  <1>12. CASE \E f \in Files, p \in Path, flags \in Flags : vfs_open(f, p, flags)
    BY <1>4, <1>12 DEF vfs_open
  <1>13. QED
    BY <1>1, <1>2, <1>3, <1>5, <1>6, <1>7, <1>10, <1>11, <1>12 DEF Next

(* A resolution tells what the card holds unless the card fails, the table is
   full, or somebody else still holds the path's node from an earlier day. *)
THEOREM WrongAnswersAreExplained == Spec => []WrongAnswersExplained
  <1>1. Init => WrongAnswersExplained
    BY DEF Init, WrongAnswersExplained, Wrong
  <1>2. QED
    BY <1>1, NextExplained, Invariance, PTL DEF Spec
=============================================================================
