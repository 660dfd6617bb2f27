---------------------------- MODULE ClusterHeap -----------------------------
(***************************************************************************)
(* The heap of the garbage collector, src/src/newm2-runtime/src/gc.rs      *)
(* (feature `gc'): clusters of blocks with a free list and a bump pointer, *)
(* the conservative mark phase and the sweep, driven by one mutator.       *)
(* StopTheWorld has the handshake of several.                              *)
(*                                                                         *)
(* Memory is counted in units of BLOCK_ALIGN bytes, each of two words: w0  *)
(* is the tag of a header, the link of a free block or a pointer field,    *)
(* w1 the block_size of a header.  A tag is twice the type, plus the mark  *)
(* bit.  A pointer is the unit of the payload, NIL is 0.  A record type    *)
(* has a size and possibly one pointer field, at offset 0.                 *)
(*                                                                         *)
(* The loops of the allocation and of the collection take one action per   *)
(* iteration; the mutator stands still meanwhile.                          *)
(***************************************************************************)
EXTENDS Integers, Sequences, FiniteSets

CONSTANTS ClusterSize,   \* units of a cluster
          MaxClusters,   \* bound: clusters the system has to give
          MaxStack,      \* bound: pointers the program keeps in its stack
          Type           \* [1..n -> [units, ptr]]: TypeDesc, header included in units

MIN_BLOCK == 2
NIL == 0

ASSUME ClusterAssumption ==
    /\ ClusterSize \in Nat /\ MaxClusters \in Nat /\ MaxStack \in Nat
    /\ Type \in Seq([units : Nat, ptr : BOOLEAN])
    /\ \A t \in DOMAIN Type : Type[t].units \in MIN_BLOCK..ClusterSize

Addr == 1..(ClusterSize * MaxClusters)

VARIABLES mem,       \* [Addr -> [w0, w1]]
          clusters,  \* Seq([base, bump, free_list, block_starts])
          stack,     \* words of the mutator's stack and registers that are addresses
          global,    \* a module variable registered as a root
          obj,       \* observer: [payload -> type] of the reachable objects
          swept,     \* observer: nothing was written since the last collection
          pc,        \* "run" (the program), "search", "clear", "mark", "sweep", "abort"
          want,      \* type nm2_new_rec was called with
          back,      \* where a collection returns: "run", "first" or "again" try
          ci,        \* cluster the loop is at
          at,        \* block the loop is at
          prev,      \* search: the block whose link led here; sweep: prev_free
          work       \* roots and children to be marked

heap == <<mem, clusters>>
roots == <<stack, global, obj>>
loop == <<ci, at, prev>>
call == <<want, back>>
vars == <<heap, roots, swept, pc, loop, call, work>>

Init ==
    /\ mem = [a \in Addr |-> [w0 |-> 0, w1 |-> 0]]
    /\ clusters = << >>
    /\ stack = {} /\ global = NIL
    /\ obj = << >> /\ swept = FALSE
    /\ pc = "run" /\ want = 0 /\ back = "run"
    /\ ci = 0 /\ at = NIL /\ prev = NIL /\ work = {}

IsFree(u) == u.w0 \div 2 = 0
IsMarked(u) == u.w0 % 2 = 1
TypeOf(u) == u.w0 \div 2

Known(i) == i \in DOMAIN clusters
End(i) == clusters[i].base + clusters[i].bump
Base(i) == IF Known(i) THEN clusters[i].base ELSE NIL
ListHead(i) == IF Known(i) THEN clusters[i].free_list ELSE NIL

-----------------------------------------------------------------------------
(* What the program can reach, by the objects it was given.                *)

Inside(o, w) == {p \in DOMAIN o : w \in p..(p + Type[o[p]].units - 2)}

\* S has what the roots and the fields of its own objects lead to.
Closed(m, o, words, S) ==
    /\ \A w \in words : Inside(o, w) \subseteq S
    /\ \A p \in S : Type[o[p]].ptr => Inside(o, m[p].w0) \subseteq S

Trim(m, o, words) ==
    [p \in {q \in DOMAIN o : \A S \in SUBSET DOMAIN o : Closed(m, o, words, S) => q \in S}
        |-> o[p]]

-----------------------------------------------------------------------------
(* nm2_new_rec, alloc_under_lock and Cluster::try_alloc.                   *)

BeginSearch == pc' = "search" /\ ci' = 1 /\ at' = ListHead(1) /\ prev' = NIL

BeginCycle == pc' = "clear" /\ ci' = 1 /\ at' = Base(1) /\ prev' = NIL /\ swept' = FALSE

Return == /\ pc' = "run" /\ want' = 0 /\ back' = "run"
          /\ ci' = 0 /\ at' = NIL /\ prev' = NIL

\* nm2_new_rec: a soft trigger collects first, when the pressure counter says
\* so (any time: the threshold can be set).
NewRec(t, pressure) ==
    /\ pc = "run" /\ Cardinality(stack) < MaxStack
    /\ want' = t /\ back' = "first"
    /\ IF pressure THEN BeginCycle ELSE BeginSearch /\ UNCHANGED swept
    /\ UNCHANGED <<heap, roots, work>>

Units == Type[want].units

\* nm2_new_rec writes the tag and the size that was asked for.
WriteHeader(m, b, t) == [m EXCEPT ![b] = [w0 |-> 2 * t, w1 |-> Type[t].units]]

\* A block was found: the program gets the pointer to its payload.
Give(m, b) ==
    LET p == b + 1
        o == [q \in DOMAIN obj \cup {p} |-> IF q = p THEN want ELSE obj[q]]
    IN  /\ mem' = WriteHeader(m, b, want)
        /\ stack' = stack \cup {p}
        /\ obj' = Trim(mem', o, stack' \cup {global})
        /\ swept' = FALSE
        /\ Return
        /\ UNCHANGED <<global, work>>

Zero(m, from, to) ==
    [a \in Addr |-> IF a \in from..to THEN [w0 |-> 0, w1 |-> 0] ELSE m[a]]

\* First fit: unlink, and split when what is left is a block.
TakeFree ==
    LET c == clusters[ci]
        next == mem[at + 1].w0
        m1 == IF prev = NIL THEN mem ELSE [mem EXCEPT ![prev + 1].w0 = next]
        head == IF prev = NIL THEN next ELSE c.free_list
        left == mem[at].w1 - Units
        split == at + Units
        m2 == IF left >= MIN_BLOCK
              THEN [m1 EXCEPT ![split] = [w0 |-> 0, w1 |-> left],
                              ![split + 1].w0 = head, ![at].w1 = Units]
              ELSE m1
    IN  /\ pc = "search" /\ at # NIL /\ mem[at].w1 >= Units
        /\ clusters' = [clusters EXCEPT ![ci] =
                          IF left >= MIN_BLOCK
                          THEN [c EXCEPT !.free_list = split, !.block_starts = @ \cup {split}]
                          ELSE [c EXCEPT !.free_list = head]]
        /\ Give(Zero(m2, at + 1, at + m2[at].w1 - 1), at)

SkipFree ==
    /\ pc = "search" /\ at # NIL /\ mem[at].w1 < Units
    /\ prev' = at /\ at' = mem[at + 1].w0
    /\ UNCHANGED <<heap, roots, swept, pc, ci, call, work>>

\* The list is exhausted: from the tail of the cluster.
Bump ==
    LET b == End(ci)
    IN  /\ pc = "search" /\ at = NIL /\ Known(ci)
        /\ clusters[ci].bump + Units <= ClusterSize
        /\ clusters' = [clusters EXCEPT ![ci].bump = @ + Units,
                                        ![ci].block_starts = @ \cup {b}]
        /\ Give([mem EXCEPT ![b].w1 = Units], b)

\* try_alloc_in_clusters goes on with the next cluster.
NextCluster ==
    /\ pc = "search" /\ at = NIL /\ Known(ci)
    /\ clusters[ci].bump + Units > ClusterSize
    /\ ci' = ci + 1 /\ at' = ListHead(ci + 1) /\ prev' = NIL
    /\ UNCHANGED <<heap, roots, swept, pc, call, work>>

\* No cluster has room: collect, and try again.
CollectAndRetry ==
    /\ pc = "search" /\ ~ Known(ci) /\ back = "first"
    /\ back' = "again" /\ BeginCycle
    /\ UNCHANGED <<heap, roots, want, work>>

\* Again no room: a new cluster, which the search finds empty.
Grow ==
    /\ pc = "search" /\ ~ Known(ci) /\ back = "again" /\ Len(clusters) < MaxClusters
    /\ clusters' = Append(clusters, [base |-> Len(clusters) * ClusterSize + 1, bump |-> 0,
                                     free_list |-> NIL, block_starts |-> {}])
    /\ UNCHANGED <<mem, roots, swept, pc, loop, call, work>>

\* handle_alloc_error, when the system has no more memory.
OutOfMemory ==
    /\ pc = "search" /\ ~ Known(ci) /\ back = "again" /\ Len(clusters) = MaxClusters
    /\ pc' = "abort"
    /\ UNCHANGED <<heap, roots, swept, loop, call, work>>

-----------------------------------------------------------------------------
(* run_collect_cycle.                                                      *)

\* The walk over the headers of a cluster stops at a size that is none.
MoreToClear == Known(ci) /\ at < End(ci) /\ mem[at].w1 >= MIN_BLOCK

ClearMark ==
    /\ pc = "clear" /\ MoreToClear
    /\ mem' = [mem EXCEPT ![at].w0 = 2 * TypeOf(mem[at])]
    /\ at' = at + mem[at].w1
    /\ UNCHANGED <<clusters, roots, swept, pc, ci, prev, call, work>>

ClearNext ==
    /\ pc = "clear" /\ Known(ci) /\ ~ MoreToClear
    /\ ci' = ci + 1 /\ at' = Base(ci + 1)
    /\ UNCHANGED <<heap, roots, swept, pc, prev, call, work>>

\* Mutant: only the exact address of a payload counts as a pointer.
Resolve_ExactOnly(word) ==
    IF \E i \in DOMAIN clusters : word - 1 \in clusters[i].block_starts /\ ~ IsFree(mem[word - 1])
    THEN {word} ELSE {}

\* Cluster::resolve: the payload of the allocated block around an address.
Resolve(word) ==
    {p \in Addr : \E i \in DOMAIN clusters :
        LET c == clusters[i]
            below == {b \in c.block_starts : b <= word}
            b == p - 1
        IN  /\ word \in c.base..(End(i) - 1)
            /\ b \in below /\ \A d \in below : d <= b
            /\ mem[b].w1 >= MIN_BLOCK /\ b + mem[b].w1 <= End(i)
            /\ word \in p..(b + mem[b].w1 - 1)
            /\ ~ IsFree(mem[b])}

\* What the stack, the registers and the module variables lead to.  Marking
\* changes nothing resolve looks at, so the roots are found at once.
ScanRoots ==
    /\ pc = "clear" /\ ~ Known(ci)
    /\ pc' = "mark" /\ at' = NIL
    /\ work' = (UNION {Resolve(w) : w \in stack}) \cup ({global} \ {NIL})
    /\ UNCHANGED <<heap, roots, swept, ci, prev, call>>

\* mark_object with its worklist, in any order: a block that carries a mark is
\* not followed.
MarkObject ==
    LET p == CHOOSE p \in work : TRUE
        hdr == mem[p - 1]
        t == TypeOf(hdr)
        child == mem[p].w0
        skip == IsMarked(hdr) \/ IsFree(hdr)
        follow == Type[t].units <= hdr.w1 /\ Type[t].ptr /\ child # NIL
    IN  /\ pc = "mark" /\ work # {}
        /\ mem' = IF skip THEN mem ELSE [mem EXCEPT ![p - 1].w0 = @ + 1]
        /\ work' = (work \ {p}) \cup (IF ~ skip /\ follow THEN {child} ELSE {})
        /\ UNCHANGED <<clusters, roots, swept, pc, loop, call>>

\* cluster_sweep of a cluster begins with an empty free list.
EnterSweep(i) ==
    /\ ci' = i /\ at' = Base(i) /\ prev' = NIL
    /\ clusters' = IF Known(i) THEN [clusters EXCEPT ![i].free_list = NIL] ELSE clusters

BeginSweep ==
    /\ pc = "mark" /\ work = {}
    /\ pc' = "sweep" /\ EnterSweep(1)
    /\ UNCHANGED <<mem, roots, swept, call, work>>

MoreToSweep ==
    /\ Known(ci) /\ at < End(ci)
    /\ mem[at].w1 >= MIN_BLOCK /\ at + mem[at].w1 <= End(ci)

\* A marked block stays.
KeepBlock ==
    /\ mem' = [mem EXCEPT ![at].w0 = @ - 1]
    /\ prev' = NIL
    /\ UNCHANGED clusters

\* Any other is joined with the free block before it ...
JoinBlock ==
    /\ mem' = [mem EXCEPT ![prev].w1 = @ + mem[at].w1]
    /\ clusters' = [clusters EXCEPT ![ci].block_starts = @ \ {at}]
    /\ UNCHANGED prev

\* ... or becomes the head of the free list.
FreeBlock ==
    /\ mem' = [mem EXCEPT ![at].w0 = 0, ![at + 1].w0 = clusters[ci].free_list]
    /\ clusters' = [clusters EXCEPT ![ci].free_list = at]
    /\ prev' = at

Marked == ~ IsFree(mem[at]) /\ IsMarked(mem[at])

\* Mutant: a block that stays does not end the run of blocks that are joined.
Dispose_JoinAcross ==
    IF Marked THEN mem' = [mem EXCEPT ![at].w0 = @ - 1] /\ UNCHANGED <<clusters, prev>>
    ELSE IF prev # NIL THEN JoinBlock ELSE FreeBlock

\* Mutant: free blocks are never joined.
Dispose_NoJoin == IF Marked THEN KeepBlock ELSE FreeBlock

Dispose == IF Marked THEN KeepBlock ELSE IF prev # NIL THEN JoinBlock ELSE FreeBlock

SweepBlock ==
    /\ pc = "sweep" /\ MoreToSweep
    /\ Dispose
    /\ at' = at + mem[at].w1
    /\ UNCHANGED <<roots, swept, pc, ci, call, work>>

SweepNext ==
    /\ pc = "sweep" /\ Known(ci) /\ ~ MoreToSweep
    /\ EnterSweep(ci + 1)
    /\ UNCHANGED <<mem, roots, swept, pc, call, work>>

EndCycle ==
    /\ pc = "sweep" /\ ~ Known(ci)
    /\ swept' = TRUE
    /\ IF back = "run" THEN Return ELSE BeginSearch /\ UNCHANGED call
    /\ UNCHANGED <<heap, roots, work>>

-----------------------------------------------------------------------------
(* Actions of the program.                                                 *)

\* p^.field := q, for objects the program can reach; q may be NIL.
Store(p, q) ==
    /\ pc = "run"
    /\ p \in DOMAIN obj /\ Type[obj[p]].ptr /\ q \in DOMAIN obj \cup {NIL}
    /\ mem' = [mem EXCEPT ![p].w0 = q]
    /\ obj' = Trim(mem', obj, stack \cup {global})
    /\ swept' = FALSE
    /\ UNCHANGED <<clusters, stack, global, pc, loop, call, work>>

\* A local pointer goes out of scope.
Drop(w) ==
    /\ pc = "run" /\ w \in stack
    /\ stack' = stack \ {w}
    /\ obj' = Trim(mem, obj, stack' \cup {global})
    /\ swept' = FALSE
    /\ UNCHANGED <<heap, global, pc, loop, call, work>>

\* The only copy of a local pointer becomes the address of a later part of
\* the record (a VAR parameter, an address the optimiser keeps).
Advance(w) ==
    /\ pc = "run" /\ w \in stack
    /\ Inside(obj, w) = Inside(obj, w + 1)
    /\ stack' = (stack \ {w}) \cup {w + 1}
    /\ swept' = FALSE
    /\ UNCHANGED <<heap, global, obj, pc, loop, call, work>>

\* A module variable gets a pointer the program holds, or NIL.
SetGlobal(q) ==
    /\ pc = "run" /\ q \in DOMAIN obj \cup {NIL} /\ q # global
    /\ global' = q
    /\ obj' = Trim(mem, obj, stack \cup {q})
    /\ swept' = FALSE
    /\ UNCHANGED <<heap, stack, pc, loop, call, work>>

\* nm2_collect: the program asks for a collection.
Collect ==
    /\ pc = "run" /\ BeginCycle
    /\ UNCHANGED <<heap, roots, call, work>>

Next ==
    \/ \E t \in DOMAIN Type, pressure \in BOOLEAN : NewRec(t, pressure)
    \/ TakeFree \/ SkipFree \/ Bump \/ NextCluster
    \/ CollectAndRetry \/ Grow \/ OutOfMemory
    \/ Collect
    \/ ClearMark \/ ClearNext \/ ScanRoots
    \/ MarkObject \/ BeginSweep
    \/ SweepBlock \/ SweepNext \/ EndCycle
    \/ \E p, q \in DOMAIN obj \cup {NIL} : Store(p, q)
    \/ \E w \in stack : Drop(w) \/ Advance(w)
    \/ \E q \in DOMAIN obj \cup {NIL} : SetGlobal(q)

Spec == Init /\ [][Next]_vars

-----------------------------------------------------------------------------
(* Properties.                                                             *)

\* Words stay words, clusters inside the memory, and a loop inside its cluster.
TypeOK ==
    /\ mem \in [Addr -> [w0 : Nat, w1 : 0..ClusterSize]]
    /\ Len(clusters) <= MaxClusters
    /\ \A i \in DOMAIN clusters :
         /\ clusters[i].bump \in 0..ClusterSize
         /\ clusters[i].block_starts \subseteq Addr
         /\ clusters[i].free_list \in Addr \cup {NIL}
    /\ stack \subseteq Addr /\ global \in Addr \cup {NIL} /\ DOMAIN obj \subseteq Addr
    /\ pc \in {"run", "search", "clear", "mark", "sweep", "abort"}
    /\ want \in DOMAIN Type \cup {0} /\ back \in {"run", "first", "again"}
    /\ ci \in 0..(Len(clusters) + 1)
    /\ prev \in Addr \cup {NIL} /\ work \subseteq Addr

\* The blocks of cluster c that the links lead to from x.
Chain(c, x) ==
    {b \in c.block_starts :
        \A S \in SUBSET c.block_starts :
            {x} \ {NIL} \subseteq S /\ (\A s \in S : mem[s + 1].w0 \in S \cup {NIL}) => b \in S}

FreeBlocks == UNION {Chain(clusters[i], clusters[i].free_list) : i \in DOMAIN clusters}

\* A record the program can still reach, through locals (interior addresses
\* included), module variables or other records, keeps its header and its
\* memory, also while a collection is under way: it is not on a free list, no
\* other record overlaps it, and its pointer fields hold what the program
\* stored or NIL (nm2_new_rec zeroes).
ReachableIntact ==
    \A p \in DOMAIN obj :
        LET t == obj[p]
            last == p + Type[t].units - 2
        IN  /\ TypeOf(mem[p - 1]) = t /\ mem[p - 1].w1 >= Type[t].units
            /\ \A q \in DOMAIN obj \ {p} : q - 1 \notin (p - 1)..last
            /\ FreeBlocks \cap ((p - 1)..last) = {}
            /\ Type[t].ptr => mem[p].w0 \in DOMAIN obj \cup {NIL}

\* Walking a cluster from its base by block_size visits exactly the blocks of
\* the block_starts bitmap and ends at the bump pointer: each block ends where
\* the next one begins, and none begins inside it.  Outside the sweep the free
\* list ends and holds exactly the blocks whose tag says free.  resolve, the
\* mark clearing and the sweep all rest on it.
Tiled ==
    /\ TypeOK
    /\ \A i \in DOMAIN clusters :
        LET c == clusters[i]
            starts == c.block_starts
            free == {b \in starts : IsFree(mem[b])}
        IN  /\ c.bump > 0 => c.base \in starts
            /\ \A b \in starts :
                 /\ b >= c.base /\ mem[b].w1 >= MIN_BLOCK
                 /\ b + mem[b].w1 \in starts \cup {End(i)}
                 /\ \A d \in starts \cup {End(i)} : d > b => d >= b + mem[b].w1
            /\ pc # "sweep" =>
                 /\ c.free_list \in starts \cup {NIL}
                 /\ Chain(c, c.free_list) = free
                 /\ \A b \in free : /\ mem[b + 1].w0 \in free \cup {NIL}
                                    /\ b \notin Chain(c, mem[b + 1].w0)

\* A collection leaves no garbage: every block that is not free afterwards is
\* reachable, and no two free blocks are neighbours.
CollectsAllGarbage ==
    swept => \A i \in DOMAIN clusters : \A b \in clusters[i].block_starts :
        /\ IsFree(mem[b]) \/ b + 1 \in DOMAIN obj
        /\ IsFree(mem[b]) => b + mem[b].w1 \notin {a \in clusters[i].block_starts : IsFree(mem[a])}
=============================================================================
