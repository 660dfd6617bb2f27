------------------------ MODULE ClusterHeap_proofs --------------------------
(***************************************************************************)
(* The collector's heap for every number and size of clusters, every set   *)
(* of record types whose sizes leave no hole (NoHoles), and every program: *)
(* blocks tile the clusters, what the program reaches stays, and a         *)
(* collection leaves no garbage.                                           *)
(*                                                                         *)
(* With sizes that leave one it does not hold: see the run                 *)
(* clusterheap_hole.                                                       *)
(***************************************************************************)
EXTENDS ClusterHeap, FiniteSetTheorems, SequenceTheorems, WellFoundedInduction, TLAPS

(* The sums and differences of the sizes of the records.                   *)
ClosedSizes(Z) ==
    /\ \A t \in DOMAIN Type : Type[t].units \in Z
    /\ \A a, b \in Z : a + b \in Z /\ (a >= b => a - b \in Z)

Sizes == {n \in Nat : \A Z \in SUBSET Nat : ClosedSizes(Z) => n \in Z}

(* No block can be one unit larger than what is taken from it.             *)
NoHoles == 1 \notin Sizes

Cell == [w0 : Nat, w1 : 0..ClusterSize]
ClusterRec == [base : Nat, bump : 0..ClusterSize, free_list : Nat, block_starts : SUBSET Nat]

-----------------------------------------------------------------------------
(* The invariant: memory and clusters.                                     *)

(* The clusters lie one behind the other.                                  *)
Placed(m, cs) ==
    /\ m \in [Addr -> Cell]
    /\ cs \in Seq(ClusterRec) /\ Len(cs) <= MaxClusters
    /\ \A i \in DOMAIN cs : cs[i].base = (i - 1) * ClusterSize + 1

EndOf(c) == c.base + c.bump

(* The blocks of a cluster: each ends where the next one begins, or at the
   bump pointer, and none begins inside it.                                *)
Tiling(m, c) ==
    /\ c.bump > 0 => c.base \in c.block_starts
    /\ \A b \in c.block_starts :
         /\ b >= c.base /\ b < EndOf(c)
         /\ m[b].w1 >= MIN_BLOCK /\ m[b].w1 \in Sizes
         /\ b + m[b].w1 \in c.block_starts \cup {EndOf(c)}
         /\ \A d \in c.block_starts \cup {EndOf(c)} : d > b => d >= b + m[b].w1

Geometry(m, cs) == Placed(m, cs) /\ \A i \in DOMAIN cs : Tiling(m, cs[i])

(* A list: links lead from the head through F, each block of F has one
   predecessor, and the rank r grows along the list.                       *)
Listed(m, head, F, r) ==
    /\ r \in [F -> Nat]
    /\ head \in F \cup {NIL}
    /\ \A b \in F : \/ m[b + 1].w0 = NIL
                    \/ m[b + 1].w0 \in F /\ m[b + 1].w0 # head /\ r[b] < r[m[b + 1].w0]
    /\ \A b \in F : b = head \/ \E a \in F : m[a + 1].w0 = b
    /\ \A a, b \in F : m[a + 1].w0 = m[b + 1].w0 => a = b \/ m[a + 1].w0 = NIL

Free(m, c) == {b \in c.block_starts : IsFree(m[b])}

(* The free blocks that are on the list: in the cluster being swept, those
   the sweep has passed.                                                   *)
OnList(i) == {b \in Free(mem, clusters[i]) : ~ (pc = "sweep" /\ i = ci /\ b >= at)}

Lists == \A i \in DOMAIN clusters : \E r : Listed(mem, clusters[i].free_list, OnList(i), r)

Spans(cs) == UNION {cs[i].base..(EndOf(cs[i]) - 1) : i \in DOMAIN cs}

(* Memory no block was made of yet is zero.                                *)
Fresh(m, cs) == \A a \in Addr : a \notin Spans(cs) => m[a] = [w0 |-> 0, w1 |-> 0]

-----------------------------------------------------------------------------
(* The invariant: what the program reaches.                                *)

Blocks(cs) == UNION {cs[i].block_starts : i \in DOMAIN cs}

(* An object is a block with its type and its size; its field is a pointer
   to an object or NIL.                                                    *)
Objects(m, cs, o) ==
    \A p \in DOMAIN o :
        /\ p \in Nat /\ p - 1 \in Blocks(cs) /\ o[p] \in DOMAIN Type
        /\ TypeOf(m[p - 1]) = o[p] /\ m[p - 1].w1 = Type[o[p]].units
        /\ Type[o[p]].ptr => m[p].w0 \in DOMAIN o \cup {NIL}

(* The roots lead to objects, and nothing is in o but what they reach.     *)
Rooted(m, o, st, g) ==
    /\ \A w \in st : Inside(o, w) # {}
    /\ g \in DOMAIN o \cup {NIL}
    /\ \A S \in SUBSET DOMAIN o : Closed(m, o, st \cup {g}, S) => S = DOMAIN o

-----------------------------------------------------------------------------
(* The invariant: the collection.                                          *)

MarkedObjects == {p \in DOMAIN obj : IsMarked(mem[p - 1])}

(* What is reached by one step from a root or a marked object is marked or
   in the worklist, and nothing else is.                                   *)
Marking ==
    /\ work \subseteq DOMAIN obj
    /\ \A b \in Blocks(clusters) : IsMarked(mem[b]) => b + 1 \in DOMAIN obj
    /\ \A w \in stack \cup {global} : Inside(obj, w) \subseteq work \cup MarkedObjects
    /\ \A p \in MarkedObjects :
         Type[obj[p]].ptr => Inside(obj, mem[p].w0) \subseteq work \cup MarkedObjects

(* What the sweep has still to look at.                                    *)
Ahead(i, b) == i > ci \/ (i = ci /\ b >= at)

(* Exactly the reachable blocks ahead are marked; behind there is neither a
   mark nor garbage, nor two free blocks side by side.                     *)
Sweeping ==
    \A i \in DOMAIN clusters : \A b \in clusters[i].block_starts :
        /\ Ahead(i, b) => (IsMarked(mem[b]) <=> b + 1 \in DOMAIN obj)
        /\ ~ Ahead(i, b) =>
             /\ ~ IsMarked(mem[b])
             /\ IsFree(mem[b]) \/ b + 1 \in DOMAIN obj
             /\ IsFree(mem[b]) /\ b + mem[b].w1 \in Free(mem, clusters[i])
                  => Ahead(i, b + mem[b].w1)

Marks ==
    /\ pc \notin {"mark", "sweep"} => \A b \in Blocks(clusters) : ~ IsMarked(mem[b])
    /\ pc = "mark" => Marking
    /\ pc # "mark" => work = {}
    /\ pc = "sweep" => Sweeping
    /\ swept \in BOOLEAN /\ (swept => pc \notin {"clear", "mark", "sweep"}) /\ CollectsAllGarbage

(* Where the loops are.                                                    *)
InSearch ==
    /\ want \in DOMAIN Type /\ back # "run"
    /\ ~ Known(ci) => at = NIL
    /\ Known(ci) => /\ at \in OnList(ci) \cup {NIL}
                    /\ prev = NIL => at = clusters[ci].free_list
                    /\ prev # NIL => prev \in OnList(ci) /\ mem[prev + 1].w0 = at

AtBlock == Known(ci) => at \in clusters[ci].block_starts \cup {End(ci)}

InSweep ==
    /\ AtBlock
    /\ Known(ci) =>
         /\ prev = NIL => \A b \in Free(mem, clusters[ci]) : b < at => b + mem[b].w1 # at
         /\ prev # NIL => /\ prev \in Free(mem, clusters[ci]) /\ prev < at
                          /\ prev + mem[prev].w1 = at

Position ==
    /\ pc \in {"run", "search", "clear", "mark", "sweep", "abort"}
    /\ want \in DOMAIN Type \cup {0} /\ back \in {"run", "first", "again"}
    /\ back # "run" => want \in DOMAIN Type
    /\ ci \in 0..(Len(clusters) + 1) /\ prev \in Addr \cup {NIL}
    /\ pc \in {"search", "clear", "sweep"} => ci > 0
    /\ (pc \in {"clear", "mark"} \/ ~ Known(ci)) => prev = NIL
    /\ pc = "search" => InSearch
    /\ pc = "clear" => AtBlock
    /\ pc = "sweep" => InSweep

IInv == /\ Geometry(mem, clusters) /\ Lists /\ Fresh(mem, clusters)
        /\ Objects(mem, clusters, obj) /\ Rooted(mem, obj, stack, global)
        /\ Marks /\ Position

-----------------------------------------------------------------------------
(* Numbers.                                                                *)

(* The sizes of records.                                                   *)
LEMMA Constants ==
    /\ ClusterSize \in Nat /\ MaxClusters \in Nat
    /\ \A t \in DOMAIN Type : /\ t \in Nat /\ t > 0 /\ Type[t].units \in Nat
                              /\ Type[t].units >= 2 /\ Type[t].units <= ClusterSize
<1>1. DOMAIN Type = 1..Len(Type) /\ Len(Type) \in Nat
  BY ClusterAssumption, LenProperties DEF ClusterAssumption
<1>2. ASSUME NEW t \in DOMAIN Type
      PROVE  Type[t].units \in 2..ClusterSize
  BY ClusterAssumption DEF ClusterAssumption, MIN_BLOCK
<1> QED BY <1>1, <1>2, ClusterAssumption DEF ClusterAssumption

(* A multiple is at least one factor below a larger one.                   *)
LEMMA Multiples ==
    ASSUME NEW N \in Nat, NEW a \in Nat, NEW b \in Nat, a < b
    PROVE  a * N \in Nat /\ a * N + N <= b * N
<1>1. PICK d \in Nat : b = (a + 1) + d
  <2>1. b - (a + 1) \in Nat /\ b = (a + 1) + (b - (a + 1))
    OBVIOUS
  <2> QED BY <2>1
<1>2. b * N = a * N + N + d * N
  BY <1>1
<1>3. d * N \in Nat /\ a * N \in Nat
  OBVIOUS
<1> QED BY <1>2, <1>3

(* The sizes that splitting and joining lead to.                           *)
LEMMA SizesFacts ==
    /\ Sizes \subseteq Nat
    /\ \A t \in DOMAIN Type : Type[t].units \in Sizes
    /\ \A a, b \in Sizes : a + b \in Sizes /\ (a >= b => a - b \in Sizes)
<1>1. \A t \in DOMAIN Type : Type[t].units \in Nat
  BY Constants
<1>2. ASSUME NEW a \in Sizes, NEW b \in Sizes
      PROVE  a + b \in Sizes /\ (a >= b => a - b \in Sizes)
  <2>1. a \in Nat /\ b \in Nat /\ a + b \in Nat /\ (a >= b => a - b \in Nat)
    BY DEF Sizes
  <2>2. ASSUME NEW Z \in SUBSET Nat, ClosedSizes(Z)
        PROVE  a + b \in Z /\ (a >= b => a - b \in Z)
    <3>1. a \in Z /\ b \in Z
      BY <2>2 DEF Sizes
    <3> QED BY <2>2, <3>1 DEF ClosedSizes
  <2> QED BY <2>1, <2>2 DEF Sizes
<1> QED BY <1>1, <1>2 DEF Sizes, ClosedSizes

(* Sizes with a common factor leave no holes.                              *)
LEMMA CommonFactor ==
    ASSUME NEW d \in Nat, d >= 2, \A t \in DOMAIN Type : \E k \in Nat : Type[t].units = k * d
    PROVE  NoHoles
<1> DEFINE Z == {n \in Nat : \E k \in Nat : n = k * d}
<1>1. ASSUME NEW a \in Z, NEW b \in Z
      PROVE  a + b \in Z /\ (a >= b => a - b \in Z)
  <2>1. PICK k \in Nat : a = k * d
    OBVIOUS
  <2>2. PICK n \in Nat : b = n * d
    OBVIOUS
  <2>3. a + b = (k + n) * d /\ k + n \in Nat
    BY <2>1, <2>2
  <2>4. ASSUME a >= b PROVE a - b \in Z
    <3>1. ~ (k < n)
      <4>1. k < n => k * d + d <= n * d
        BY Multiples
      <4> QED BY <2>1, <2>2, <2>4, <4>1
    <3>2. \E j \in Nat : a - b = j * d
      <4>1. PICK j \in Nat : k = n + j
        <5>1. k - n \in Nat /\ k = n + (k - n)
          BY <3>1
        <5> QED BY <5>1
      <4>2. k * d = n * d + j * d
        BY <4>1
      <4>3. j * d \in Nat /\ n * d \in Nat /\ k * d \in Nat
        OBVIOUS
      <4>4. \A x, y, z \in Nat : x = y + z => x - y = z
        OBVIOUS
      <4>5. a - b = j * d
        BY <2>1, <2>2, <4>2, <4>3, <4>4
      <4> QED BY <4>5
    <3> QED BY <2>1, <2>2, <2>4, <3>2
  <2> QED BY <2>3, <2>4
<1>2. \A t \in DOMAIN Type : Type[t].units \in Z
  BY Constants
<1>3. 1 \notin Z
  <2> SUFFICES ASSUME NEW k \in Nat, 1 = k * d PROVE FALSE
    OBVIOUS
  <2>1. CASE k = 0
    BY <2>1
  <2>2. CASE 0 < k
    <3>1. 0 * d + d <= k * d
      BY <2>2, Multiples
    <3> QED BY <3>1
  <2> QED BY <2>1, <2>2
<1>4. ClosedSizes(Z) /\ Z \in SUBSET Nat
  BY <1>1, <1>2 DEF ClosedSizes
<1> QED BY <1>3, <1>4 DEF NoHoles, Sizes

(* The tag word: type and mark.                                            *)
LEMMA Tags ==
    ASSUME NEW n \in Nat
    PROVE  /\ n \div 2 \in Nat /\ n % 2 \in {0, 1}
           /\ n % 2 = 0 => /\ (n + 1) \div 2 = n \div 2 /\ (n + 1) % 2 = 1
                           /\ 2 * (n \div 2) = n
           /\ n % 2 = 1 => n > 0 /\ n - 1 \in Nat /\ (n - 1) \div 2 = n \div 2 /\ (n - 1) % 2 = 0
           /\ (2 * n) \div 2 = n /\ (2 * n) % 2 = 0
OBVIOUS

(* The clusters are inside the memory and do not overlap.                  *)
LEMMA ClusterFacts ==
    ASSUME NEW m, NEW cs, Placed(m, cs)
    PROVE  /\ DOMAIN cs = 1..Len(cs) /\ Len(cs) \in Nat
           /\ \A i \in DOMAIN cs :
                /\ i \in Nat /\ cs[i] \in ClusterRec
                /\ cs[i].base \in Nat /\ cs[i].base >= 1 /\ cs[i].bump \in Nat
                /\ cs[i].block_starts \subseteq Nat
                /\ EndOf(cs[i]) \in Nat /\ EndOf(cs[i]) <= cs[i].base + ClusterSize
                /\ EndOf(cs[i]) - 1 <= ClusterSize * MaxClusters
                /\ EndOf(cs[i]) >= cs[i].base
           /\ \A i, j \in DOMAIN cs : i < j => cs[i].base + ClusterSize <= cs[j].base
<1>1. DOMAIN cs = 1..Len(cs) /\ Len(cs) \in Nat /\ Len(cs) <= MaxClusters
  BY LenProperties DEF Placed
<1>2. ClusterSize \in Nat /\ MaxClusters \in Nat
  BY Constants
<1>3. ASSUME NEW i \in DOMAIN cs
      PROVE  /\ i \in Nat /\ i >= 1 /\ i <= MaxClusters /\ cs[i] \in ClusterRec
             /\ cs[i].base = (i - 1) * ClusterSize + 1 /\ cs[i].base \in Nat /\ cs[i].base >= 1
             /\ cs[i].bump \in Nat /\ cs[i].bump <= ClusterSize /\ cs[i].block_starts \subseteq Nat
             /\ cs[i].base - 1 + ClusterSize <= MaxClusters * ClusterSize
  <2>1. i \in Nat /\ i >= 1 /\ i <= MaxClusters /\ i - 1 \in Nat /\ i - 1 < MaxClusters
    BY <1>1, <1>2
  <2>2. cs[i] \in ClusterRec
    BY <1>1, ElementOfSeq DEF Placed
  <2>3. cs[i].base = (i - 1) * ClusterSize + 1
    BY DEF Placed
  <2>4. (i - 1) * ClusterSize \in Nat /\ (i - 1) * ClusterSize + ClusterSize <= MaxClusters * ClusterSize
    BY <1>2, <2>1, Multiples
  <2>5. cs[i].bump \in 0..ClusterSize /\ cs[i].block_starts \in SUBSET Nat /\ cs[i].base \in Nat
    BY <2>2 DEF ClusterRec
  <2> QED BY <1>2, <2>1, <2>2, <2>3, <2>4, <2>5
<1>4. MaxClusters * ClusterSize = ClusterSize * MaxClusters /\ ClusterSize * MaxClusters \in Nat
  BY <1>2
<1>5. ASSUME NEW i \in DOMAIN cs, NEW j \in DOMAIN cs, i < j
      PROVE  cs[i].base + ClusterSize <= cs[j].base
  <2>1. i - 1 \in Nat /\ j - 1 \in Nat /\ i - 1 < j - 1
    BY <1>3, <1>5
  <2>2. (i - 1) * ClusterSize \in Nat /\ (i - 1) * ClusterSize + ClusterSize <= (j - 1) * ClusterSize
    BY <1>2, <2>1, Multiples
  <2>3. (j - 1) * ClusterSize \in Nat
    BY <1>2, <2>1
  <2> QED BY <1>2, <1>3, <2>2, <2>3
<1>6. ASSUME NEW i \in DOMAIN cs
      PROVE  /\ EndOf(cs[i]) \in Nat /\ EndOf(cs[i]) <= cs[i].base + ClusterSize
             /\ EndOf(cs[i]) - 1 <= ClusterSize * MaxClusters
             /\ EndOf(cs[i]) >= cs[i].base
  <2>1. cs[i].base \in Nat /\ cs[i].bump \in Nat /\ cs[i].bump <= ClusterSize
        /\ cs[i].base - 1 + ClusterSize <= ClusterSize * MaxClusters
    BY <1>3, <1>4
  <2> QED BY <1>2, <1>4, <2>1 DEF EndOf
<1> QED BY <1>1, <1>3, <1>5, <1>6

-----------------------------------------------------------------------------
(* Geometry.                                                               *)

(* A block lies inside its cluster and inside the memory.                  *)
LEMMA BlockFacts ==
    ASSUME NEW m, NEW cs, Geometry(m, cs), NEW i \in DOMAIN cs, NEW b \in cs[i].block_starts
    PROVE  /\ b \in Nat /\ b >= 1 /\ b \in Addr /\ b + 1 \in Addr
           /\ m[b] \in Cell /\ m[b].w1 \in Nat /\ m[b].w1 >= 2 /\ m[b].w1 \in Sizes
           /\ m[b].w0 \in Nat /\ m[b].w1 <= ClusterSize
           /\ b >= cs[i].base /\ b + m[b].w1 <= EndOf(cs[i]) /\ b < EndOf(cs[i])
           /\ \A a \in b..(b + m[b].w1 - 1) : a \in Addr /\ a \in Spans(cs)
<1> DEFINE c == cs[i]
<1>1. Placed(m, cs) /\ Tiling(m, c)
  BY DEF Geometry
<1>2. /\ c.base \in Nat /\ c.base >= 1 /\ EndOf(c) \in Nat /\ c.block_starts \subseteq Nat
      /\ EndOf(c) - 1 <= ClusterSize * MaxClusters
  BY <1>1, ClusterFacts
<1>3. b \in Nat /\ b >= c.base /\ b < EndOf(c) /\ m[b].w1 >= 2 /\ m[b].w1 \in Sizes
  BY <1>1, <1>2 DEF Tiling, MIN_BLOCK
<1>4. ClusterSize * MaxClusters \in Nat /\ ClusterSize \in Nat
  BY Constants
<1>5. b \in Addr
  BY <1>2, <1>3, <1>4 DEF Addr
<1>6. m[b] \in Cell
  BY <1>1, <1>5 DEF Placed
<1>7. m[b].w0 \in Nat /\ m[b].w1 \in Nat /\ m[b].w1 <= ClusterSize
  BY <1>4, <1>6 DEF Cell
<1>8. b + m[b].w1 \in c.block_starts \cup {EndOf(c)}
  BY <1>1 DEF Tiling
<1>9. b + m[b].w1 <= EndOf(c)
  <2>1. EndOf(c) > b => EndOf(c) >= b + m[b].w1
    BY <1>1 DEF Tiling
  <2> QED BY <1>2, <1>3, <1>7, <2>1
<1>10. \A a \in b..(b + m[b].w1 - 1) : a \in Addr /\ a \in c.base..(EndOf(c) - 1)
  BY <1>2, <1>3, <1>4, <1>7, <1>9 DEF Addr
<1>11. \A a \in b..(b + m[b].w1 - 1) : a \in Spans(cs)
  BY <1>10 DEF Spans
<1>12. b + 1 \in b..(b + m[b].w1 - 1)
  BY <1>3, <1>7
<1> QED BY <1>2, <1>3, <1>5, <1>6, <1>7, <1>9, <1>10, <1>11, <1>12

(* Blocks do not overlap, also those of different clusters.                *)
LEMMA Apart ==
    ASSUME NEW m, NEW cs, Geometry(m, cs), NEW i \in DOMAIN cs, NEW j \in DOMAIN cs,
           NEW b \in cs[i].block_starts, NEW d \in cs[j].block_starts
    PROVE  /\ b = d => i = j
           /\ b < d => b + m[b].w1 <= d
<1> DEFINE s == m[b].w1
           u == m[d].w1
<1>1. /\ b \in Nat /\ s \in Nat /\ b >= cs[i].base /\ b + s <= EndOf(cs[i]) /\ s >= 2
      /\ d \in Nat /\ u \in Nat /\ d >= cs[j].base /\ d + u <= EndOf(cs[j]) /\ u >= 2
  BY BlockFacts
<1>2. CASE i = j
  <2>1. d > b => d >= b + s
    BY <1>2 DEF Geometry, Tiling
  <2> QED BY <1>1, <1>2, <2>1
<1>3. CASE i # j
  <2>1. Placed(m, cs)
    BY DEF Geometry
  <2>2. /\ i \in Nat /\ j \in Nat /\ ClusterSize \in Nat
        /\ cs[i].base \in Nat /\ EndOf(cs[i]) \in Nat /\ EndOf(cs[i]) <= cs[i].base + ClusterSize
        /\ cs[j].base \in Nat /\ EndOf(cs[j]) \in Nat /\ EndOf(cs[j]) <= cs[j].base + ClusterSize
        /\ i < j => cs[i].base + ClusterSize <= cs[j].base
        /\ j < i => cs[j].base + ClusterSize <= cs[i].base
    BY <2>1, ClusterFacts, Constants
  <2> QED BY <1>1, <1>3, <2>2
<1> QED BY <1>2, <1>3

(* The same for the blocks of the heap.                                    *)
LEMMA BlocksApart ==
    ASSUME NEW m, NEW cs, Geometry(m, cs), NEW b \in Blocks(cs), NEW d \in Blocks(cs)
    PROVE  /\ b \in Nat /\ b >= 1 /\ m[b].w1 \in Nat /\ m[b].w1 >= 2
           /\ b \in Addr /\ b + 1 \in Addr /\ m[b] \in Cell /\ m[b].w0 \in Nat
           /\ b < d => b + m[b].w1 <= d
           /\ b + 1 # d
           /\ b + m[b].w1 - 1 \in Addr
           /\ \A a : a \in b..(b + m[b].w1 - 1) /\ a \in d..(d + m[d].w1 - 1) => b = d
<1>1. PICK i \in DOMAIN cs : b \in cs[i].block_starts
  BY DEF Blocks
<1>2. PICK j \in DOMAIN cs : d \in cs[j].block_starts
  BY DEF Blocks
<1>3. /\ b \in Nat /\ b >= 1 /\ m[b].w1 \in Nat /\ m[b].w1 >= 2 /\ b \in Addr /\ b + 1 \in Addr
      /\ m[b] \in Cell /\ m[b].w0 \in Nat
      /\ \A a \in b..(b + m[b].w1 - 1) : a \in Addr
  BY <1>1, BlockFacts
<1>4. d \in Nat /\ m[d].w1 \in Nat /\ m[d].w1 >= 2
  BY <1>2, BlockFacts
<1>5. (b < d => b + m[b].w1 <= d) /\ (d < b => d + m[d].w1 <= b)
  BY <1>1, <1>2, Apart
<1>6. b + m[b].w1 - 1 \in b..(b + m[b].w1 - 1)
  BY <1>3
<1>7. ASSUME NEW a, a \in b..(b + m[b].w1 - 1), a \in d..(d + m[d].w1 - 1) PROVE b = d
  BY <1>3, <1>4, <1>5, <1>7
<1>8. b + 1 # d
  BY <1>3, <1>4, <1>5
<1> QED BY <1>3, <1>5, <1>6, <1>7, <1>8

(* The geometry depends on the sizes of the blocks only.                   *)
LEMMA GeometryFrame ==
    ASSUME NEW m, NEW cs, Geometry(m, cs), NEW n, n \in [Addr -> Cell],
           \A b \in Blocks(cs) : n[b].w1 = m[b].w1
    PROVE  Geometry(n, cs)
<1>1. Placed(n, cs)
  BY DEF Geometry, Placed
<1>2. ASSUME NEW i \in DOMAIN cs PROVE Tiling(n, cs[i])
  <2>1. Tiling(m, cs[i])
    BY DEF Geometry
  <2>2. \A b \in cs[i].block_starts : n[b].w1 = m[b].w1
    BY DEF Blocks
  <2> QED BY <2>1, <2>2 DEF Tiling
<1> QED BY <1>1, <1>2 DEF Geometry

-----------------------------------------------------------------------------
(* The free list.                                                          *)

(* Writing elsewhere leaves a list as it is.                               *)
LEMMA ListFrame ==
    ASSUME NEW m, NEW n, NEW head, NEW F, NEW r, Listed(m, head, F, r),
           \A b \in F : n[b + 1].w0 = m[b + 1].w0
    PROVE  Listed(n, head, F, r)
BY DEF Listed

(* The empty list.                                                         *)
LEMMA ListEmpty == \A m : Listed(m, NIL, {}, [b \in {} |-> 0])
BY DEF Listed

(* A block becomes the head.                                               *)
LEMMA ListInsert ==
    ASSUME NEW m, NEW n, NEW head, NEW F, NEW r, Listed(m, head, F, r),
           NEW b, b \notin F, b # NIL, NIL \notin F,
           \A a \in F : n[a + 1].w0 = m[a + 1].w0, n[b + 1].w0 = head
    PROVE  \E q : Listed(n, b, F \cup {b}, q)
<1> DEFINE G == F \cup {b}
           q == [x \in G |-> IF x = b THEN 0 ELSE r[x] + 1]
           next(x) == n[x + 1].w0
<1>1. /\ r \in [F -> Nat] /\ head \in F \cup {NIL}
      /\ \A a \in F : \/ next(a) = NIL
                      \/ next(a) \in F /\ next(a) # head /\ r[a] < r[next(a)]
      /\ \A a \in F : a = head \/ \E d \in F : next(d) = a
      /\ \A a, d \in F : next(a) = next(d) => a = d \/ next(a) = NIL
  BY DEF Listed
<1>2. next(b) = head
  OBVIOUS
<1> HIDE DEF next
<1>3. q \in [G -> Nat]
  BY <1>1
<1>4. ASSUME NEW a \in G
      PROVE  next(a) = NIL \/ (next(a) \in G /\ next(a) # b /\ q[a] < q[next(a)])
  <2>1. CASE a = b
    <3>1. head = NIL \/ (head \in F /\ head # b /\ q[head] = r[head] + 1 /\ r[head] \in Nat)
      BY <1>1
    <3> QED BY <1>2, <2>1, <3>1
  <2>2. CASE a # b
    <3>1. a \in F /\ q[a] = r[a] + 1 /\ r[a] \in Nat
      BY <1>1, <2>2
    <3>2. next(a) # NIL => next(a) \in F /\ next(a) # b /\ q[next(a)] = r[next(a)] + 1 /\ r[next(a)] \in Nat
      BY <1>1, <3>1
    <3> QED BY <1>1, <3>1, <3>2
  <2> QED BY <2>1, <2>2
<1>5. ASSUME NEW a \in G PROVE a = b \/ \E d \in G : next(d) = a
  BY <1>1, <1>2
<1>6. ASSUME NEW a \in G, NEW d \in G, next(a) = next(d) PROVE a = d \/ next(a) = NIL
  BY <1>1, <1>2, <1>6
<1>7. \A a \in G : n[a + 1].w0 = next(a)
  BY DEF next
<1> HIDE DEF q
<1>8. Listed(n, b, G, q)
  BY <1>3, <1>4, <1>5, <1>6, <1>7 DEF Listed
<1> QED BY <1>8

(* A block leaves: the word that led to it leads to its successor.         *)
Unlinked(m, n, head, F, b, before, h) ==
    /\ NIL \notin F
    /\ before = NIL => b = head
    /\ before # NIL => before \in F /\ m[before + 1].w0 = b /\ n[before + 1].w0 = m[b + 1].w0
    /\ \A a \in F : a # b /\ a # before => n[a + 1].w0 = m[a + 1].w0
    /\ h = IF before = NIL THEN m[b + 1].w0 ELSE head

(* What is left is a list.                                                 *)
LEMMA ListRemove ==
    ASSUME NEW m, NEW n, NEW head, NEW F, NEW r, NEW b \in F, NEW before, NEW h,
           Listed(m, head, F, r), Unlinked(m, n, head, F, b, before, h)
    PROVE  \E q : Listed(n, h, F \ {b}, q)
<1> DEFINE G == F \ {b}
           q == [x \in G |-> r[x]]
           old(x) == m[x + 1].w0
           next(x) == n[x + 1].w0
<1>1. /\ r \in [F -> Nat] /\ head \in F \cup {NIL}
      /\ \A a \in F : \/ old(a) = NIL
                      \/ old(a) \in F /\ old(a) # head /\ r[a] < r[old(a)]
      /\ \A a \in F : a = head \/ \E d \in F : old(d) = a
      /\ \A a, d \in F : old(a) = old(d) => a = d \/ old(a) = NIL
  BY DEF Listed
<1>2. /\ before = NIL => b = head
      /\ before # NIL => before \in F /\ old(before) = b /\ next(before) = old(b)
      /\ \A a \in F : a # b /\ a # before => next(a) = old(a)
  BY DEF Unlinked
<1>3. b # NIL /\ NIL \notin F /\ h = IF before = NIL THEN old(b) ELSE head
  BY DEF Unlinked
<1> HIDE DEF next, old
<1>4. old(b) # b /\ (old(b) = NIL \/ old(b) \in G)
  BY <1>1, <1>3
<1>5. before # b
  BY <1>1, <1>2, <1>3, <1>4
<1>6. \A a \in F : old(a) = b => a = before
  BY <1>1, <1>2, <1>3
<1>7. q \in [G -> Nat] /\ \A a \in G : q[a] = r[a] /\ r[a] \in Nat
  BY <1>1
<1>8. h \in G \cup {NIL}
  BY <1>1, <1>2, <1>3, <1>4, <1>6
<1>9. ASSUME NEW a \in G
      PROVE  next(a) = NIL \/ (next(a) \in G /\ next(a) # h /\ q[a] < q[next(a)])
  <2>1. CASE a = before
    <3>1. next(a) = old(b) /\ old(a) = b /\ before # NIL
      BY <1>2, <1>3, <2>1
    <3>2. CASE old(b) = NIL
      BY <3>1, <3>2
    <3>3. CASE old(b) # NIL
      <4>1. old(b) \in G /\ old(b) # head /\ r[b] < r[old(b)] /\ r[a] < r[b] /\ h = head
        BY <1>1, <1>3, <1>4, <3>1, <3>3
      <4>2. r[a] \in Nat /\ r[b] \in Nat /\ r[old(b)] \in Nat
        BY <1>1, <4>1
      <4> QED BY <1>7, <3>1, <4>1, <4>2
    <3> QED BY <3>2, <3>3
  <2>2. CASE a # before
    <3>1. next(a) = old(a) /\ a \in F /\ old(a) # b
      BY <1>2, <1>6, <2>2
    <3>2. CASE old(a) # NIL
      <4>1. old(a) \in G /\ old(a) # head /\ r[a] < r[old(a)]
        BY <1>1, <3>1, <3>2
      <4>2. old(a) # h
        <5>1. before = NIL /\ old(a) = old(b) => FALSE
          BY <1>1, <3>1, <3>2
        <5> QED BY <1>3, <4>1, <5>1
      <4> QED BY <1>7, <3>1, <4>1, <4>2
    <3> QED BY <3>1, <3>2
  <2> QED BY <2>1, <2>2
<1>10. ASSUME NEW a \in G PROVE a = h \/ \E d \in G : next(d) = a
  <2>1. CASE a = old(b)
    BY <1>2, <1>3, <1>5, <2>1
  <2>2. CASE a # old(b)
    <3>1. CASE a = head
      BY <1>2, <1>3, <3>1
    <3>2. ASSUME NEW d \in F, old(d) = a PROVE d \in G /\ next(d) = a
      BY <1>2, <1>3, <2>2, <3>2
    <3> QED BY <1>1, <3>1, <3>2
  <2> QED BY <2>1, <2>2
<1>11. ASSUME NEW a \in G, NEW d \in G, next(a) = next(d) PROVE a = d \/ next(a) = NIL
  <2>1. \A x \in G : next(x) = IF x = before THEN old(b) ELSE old(x)
    BY <1>2, <1>3
  <2> QED BY <1>1, <1>11, <2>1
<1>12. \A a \in G : n[a + 1].w0 = next(a)
  BY DEF next
<1> HIDE DEF q
<1>13. Listed(n, h, G, q)
  BY <1>7, <1>8, <1>9, <1>10, <1>11, <1>12 DEF Listed
<1> QED BY <1>13

-----------------------------------------------------------------------------
(* Objects and reachability.                                               *)

(* The words of an object, and no other object's, lead to it.              *)
LEMMA InsideFacts ==
    ASSUME NEW m, NEW cs, Geometry(m, cs), NEW o, Objects(m, cs, o)
    PROVE  /\ \A p \in DOMAIN o :
                /\ p \in Nat /\ p >= 2 /\ p - 1 \in Blocks(cs) /\ p \in Addr /\ p - 1 \in Addr
                /\ Type[o[p]].units \in Nat /\ Type[o[p]].units >= 2 /\ ~ IsFree(m[p - 1])
                /\ Inside(o, p) = {p}
           /\ \A w, p, q : p \in Inside(o, w) /\ q \in Inside(o, w) => p = q
           /\ Inside(o, NIL) = {}
<1>1. ASSUME NEW p \in DOMAIN o
      PROVE  /\ p \in Nat /\ p >= 2 /\ p - 1 \in Blocks(cs) /\ p \in Addr /\ p - 1 \in Addr
             /\ Type[o[p]].units \in Nat /\ Type[o[p]].units >= 2 /\ ~ IsFree(m[p - 1])
             /\ m[p - 1].w1 = Type[o[p]].units
  <2>1. p \in Nat /\ p - 1 \in Blocks(cs) /\ o[p] \in DOMAIN Type
        /\ TypeOf(m[p - 1]) = o[p] /\ m[p - 1].w1 = Type[o[p]].units
    BY DEF Objects
  <2>2. p - 1 \in Nat /\ p - 1 >= 1 /\ p - 1 \in Addr /\ (p - 1) + 1 \in Addr
    BY <2>1, BlocksApart
  <2>3. (p - 1) + 1 = p
    BY <2>1
  <2>4. o[p] # 0 /\ Type[o[p]].units \in Nat /\ Type[o[p]].units >= 2
    BY <2>1, Constants
  <2>5. ~ IsFree(m[p - 1])
    BY <2>1, <2>4 DEF IsFree, TypeOf
  <2> QED BY <2>1, <2>2, <2>3, <2>4, <2>5
<1>2. ASSUME NEW w, NEW p, NEW q, p \in Inside(o, w), q \in Inside(o, w) PROVE p = q
  <2>1. /\ p \in DOMAIN o /\ w \in p..(p + Type[o[p]].units - 2)
        /\ q \in DOMAIN o /\ w \in q..(q + Type[o[q]].units - 2)
    BY <1>2 DEF Inside
  <2>2. /\ w \in (p - 1)..((p - 1) + m[p - 1].w1 - 1)
        /\ w \in (q - 1)..((q - 1) + m[q - 1].w1 - 1)
    BY <1>1, <2>1
  <2>3. p - 1 = q - 1
    BY <1>1, <2>1, <2>2, BlocksApart
  <2> QED BY <1>1, <2>1, <2>3
<1>3. ASSUME NEW p \in DOMAIN o PROVE Inside(o, p) = {p}
  <2>1. p \in Inside(o, p)
    BY <1>1 DEF Inside
  <2> QED BY <1>2, <2>1
<1>4. Inside(o, NIL) = {}
  BY <1>1 DEF Inside, NIL
<1> QED BY <1>1, <1>2, <1>3, <1>4

(* Objects whose blocks keep type, size and field are still objects.       *)
LEMMA ObjectsFrame ==
    ASSUME NEW m, NEW cs, NEW o, Objects(m, cs, o), NEW n, NEW ds,
           \A p \in DOMAIN o : /\ p - 1 \in Blocks(ds)
                               /\ TypeOf(n[p - 1]) = TypeOf(m[p - 1])
                               /\ n[p - 1].w1 = m[p - 1].w1 /\ n[p].w0 = m[p].w0
    PROVE  Objects(n, ds, o)
BY DEF Objects

(* What is reachable depends on the fields only.                           *)
LEMMA RootedFrame ==
    ASSUME NEW m, NEW o, NEW st, NEW g, Rooted(m, o, st, g), NEW n,
           \A p \in DOMAIN o : n[p].w0 = m[p].w0
    PROVE  Rooted(n, o, st, g)
<1>1. ASSUME NEW S \in SUBSET DOMAIN o, Closed(n, o, st \cup {g}, S)
      PROVE  Closed(m, o, st \cup {g}, S)
  <2>1. \A p \in S : n[p].w0 = m[p].w0
    OBVIOUS
  <2> QED BY <1>1, <2>1 DEF Closed
<1> QED BY <1>1 DEF Rooted

(* Trim leaves what the roots reach.                                       *)
LEMMA TrimFacts ==
    ASSUME NEW m, NEW cs, Geometry(m, cs), NEW o, Objects(m, cs, o), NEW st, NEW g,
           \A w \in st : Inside(o, w) # {}, g \in DOMAIN o \cup {NIL}
    PROVE  LET t == Trim(m, o, st \cup {g}) IN
           /\ DOMAIN t \subseteq DOMAIN o
           /\ Objects(m, cs, t) /\ Rooted(m, t, st, g)
<1> DEFINE W == st \cup {g}
           t == Trim(m, o, W)
           L == {q \in DOMAIN o : \A S \in SUBSET DOMAIN o : Closed(m, o, W, S) => q \in S}
<1>1. DOMAIN t = L /\ L \subseteq DOMAIN o /\ \A p \in L : t[p] = o[p]
  BY DEF Trim
<1>2. \A S \in SUBSET DOMAIN o : Closed(m, o, W, S) => L \subseteq S
  OBVIOUS
<1>3. Closed(m, o, W, L)
  <2>1. ASSUME NEW w \in W, NEW p \in Inside(o, w) PROVE p \in L
    <3>1. p \in DOMAIN o
      BY DEF Inside
    <3>2. ASSUME NEW S \in SUBSET DOMAIN o, Closed(m, o, W, S) PROVE p \in S
      BY <3>2 DEF Closed
    <3> QED BY <3>1, <3>2
  <2>2. ASSUME NEW q \in L, Type[o[q]].ptr, NEW p \in Inside(o, m[q].w0) PROVE p \in L
    <3>1. p \in DOMAIN o
      BY DEF Inside
    <3>2. ASSUME NEW S \in SUBSET DOMAIN o, Closed(m, o, W, S) PROVE p \in S
      <4>1. q \in S
        BY <3>2
      <4> QED BY <2>2, <3>2, <4>1 DEF Closed
    <3> QED BY <3>1, <3>2
  <2> QED BY <2>1, <2>2 DEF Closed
<1> HIDE DEF L, t
<1>4. \A w : Inside(t, w) = Inside(o, w) \cap L
  BY <1>1 DEF Inside
<1>5. \A w \in W : Inside(t, w) = Inside(o, w)
  BY <1>3, <1>4 DEF Closed
<1>6. \A p \in L : Type[o[p]].ptr => Inside(t, m[p].w0) = Inside(o, m[p].w0)
  BY <1>3, <1>4 DEF Closed
<1>7. Objects(m, cs, t)
  <2> SUFFICES ASSUME NEW p \in L
      PROVE  /\ p \in Nat /\ p - 1 \in Blocks(cs) /\ t[p] \in DOMAIN Type
             /\ TypeOf(m[p - 1]) = t[p] /\ m[p - 1].w1 = Type[t[p]].units
             /\ Type[t[p]].ptr => m[p].w0 \in L \cup {NIL}
    BY <1>1 DEF Objects
  <2>1. /\ p \in Nat /\ p - 1 \in Blocks(cs) /\ o[p] \in DOMAIN Type
        /\ TypeOf(m[p - 1]) = o[p] /\ m[p - 1].w1 = Type[o[p]].units
        /\ Type[o[p]].ptr => m[p].w0 \in DOMAIN o \cup {NIL}
    BY <1>1 DEF Objects
  <2>2. ASSUME Type[o[p]].ptr, m[p].w0 # NIL PROVE m[p].w0 \in L
    <3>1. Inside(o, m[p].w0) = {m[p].w0}
      BY <2>1, <2>2, InsideFacts
    <3> QED BY <1>3, <2>2, <3>1 DEF Closed
  <2> QED BY <1>1, <2>1, <2>2
<1>8. g \in L \cup {NIL}
  <2>1. ASSUME g # NIL PROVE g \in L
    <3>1. Inside(o, g) = {g}
      BY <2>1, InsideFacts
    <3> QED BY <1>3, <3>1 DEF Closed
  <2> QED BY <2>1
<1>9. \A w \in st : Inside(t, w) # {}
  BY <1>5
<1>10. ASSUME NEW S \in SUBSET L, Closed(m, t, W, S) PROVE S = L
  <2>1. Closed(m, o, W, S)
    <3>1. \A w \in W : Inside(o, w) \subseteq S
      BY <1>5, <1>10 DEF Closed
    <3>2. ASSUME NEW p \in S, Type[o[p]].ptr PROVE Inside(o, m[p].w0) \subseteq S
      <4>1. p \in L /\ Type[t[p]].ptr
        BY <1>1, <3>2
      <4> QED BY <1>6, <1>10, <3>2, <4>1 DEF Closed
    <3> QED BY <3>1, <3>2 DEF Closed
  <2> QED BY <1>1, <1>2, <2>1
<1>11. Rooted(m, t, st, g)
  BY <1>1, <1>8, <1>9, <1>10 DEF Rooted
<1> QED BY <1>1, <1>7, <1>11 DEF t

-----------------------------------------------------------------------------
(* Steps that leave memory and clusters alone.                             *)

HeapInv == /\ Geometry(mem, clusters) /\ Fresh(mem, clusters)
           /\ Objects(mem, clusters, obj) /\ Rooted(mem, obj, stack, global)

(* The heap is empty at first.                                             *)
LEMMA InitHolds == Init => IInv
<1> SUFFICES ASSUME Init PROVE IInv
  OBVIOUS
<1> USE DEF Init
<1>1. Geometry(mem, clusters)
  <2>1. mem \in [Addr -> Cell]
    BY Constants DEF Cell
  <2>2. clusters \in Seq(ClusterRec) /\ Len(clusters) = 0 /\ DOMAIN clusters = {}
    OBVIOUS
  <2> QED BY <2>1, <2>2, Constants DEF Geometry, Placed
<1>2. DOMAIN clusters = {} /\ Len(clusters) = 0
  OBVIOUS
<1>3. Blocks(clusters) = {}
  BY <1>2 DEF Blocks
<1>4. Lists /\ Fresh(mem, clusters)
  BY <1>2 DEF Lists, Fresh
<1>5. Objects(mem, clusters, obj)
  BY DEF Objects
<1>6. Rooted(mem, obj, stack, global)
  BY DEF Rooted
<1>7. Marks
  BY <1>3 DEF Marks, CollectsAllGarbage
<1>8. Position
  BY <1>2 DEF Position, Known
<1> QED BY <1>1, <1>4, <1>5, <1>6, <1>7, <1>8 DEF IInv

(* What a step that writes nothing keeps.                                  *)
LEMMA HeapStays ==
    ASSUME HeapInv, UNCHANGED <<heap, roots>>
    PROVE  HeapInv'
<1>1. mem' = mem /\ clusters' = clusters /\ obj' = obj /\ stack' = stack /\ global' = global
  BY DEF heap, roots
<1> QED BY <1>1 DEF HeapInv

(* Outside the sweep, so are the lists.                                    *)
LEMMA ListsStay ==
    ASSUME Lists, UNCHANGED <<mem, clusters>>, pc # "sweep", pc' # "sweep"
    PROVE  Lists' /\ \A i : OnList(i)' = OnList(i)
<1>1. \A i : OnList(i)' = OnList(i)
  BY DEF OnList
<1> QED BY <1>1 DEF Lists

(* And no mark appears.                                                    *)
LEMMA MarksStay ==
    ASSUME Marks, UNCHANGED <<heap, roots>>, pc \notin {"mark", "sweep"}, pc' \notin {"mark", "sweep"},
           swept' \in {swept, FALSE}, work' = work,
           pc' = "clear" => pc = "clear" \/ swept' = FALSE
    PROVE  Marks'
<1>1. mem' = mem /\ clusters' = clusters /\ obj' = obj
  BY DEF heap, roots
<1>2. \A b \in Blocks(clusters) : ~ IsMarked(mem[b])
  BY DEF Marks
<1>3. CollectsAllGarbage'
  BY <1>1 DEF Marks, CollectsAllGarbage
<1>4. work' = {} /\ swept' \in BOOLEAN
  BY DEF Marks
<1>5. swept' => pc' \notin {"clear", "mark", "sweep"}
  <2> SUFFICES ASSUME swept', pc' = "clear" PROVE FALSE
    OBVIOUS
  <2>1. pc = "clear"
    OBVIOUS
  <2>2. ~ swept
    BY <2>1 DEF Marks
  <2>3. swept' = FALSE
    BY <2>2 DEF Marks
  <2> QED BY <2>3
<1> QED BY <1>1, <1>2, <1>3, <1>4, <1>5 DEF Marks

(* Nothing is written and no mark appears: only the position changes.      *)
LEMMA StillKeeps ==
    ASSUME IInv, UNCHANGED <<heap, roots>>, pc \notin {"mark", "sweep"}, pc' \notin {"mark", "sweep"},
           swept' \in {swept, FALSE}, work' = work,
           pc' = "clear" => pc = "clear" \/ swept' = FALSE, Position'
    PROVE  IInv'
<1>1. HeapInv /\ Lists /\ Marks
  BY DEF IInv, HeapInv
<1>2. HeapInv'
  BY <1>1, HeapStays
<1>3. Lists'
  <2>1. UNCHANGED <<mem, clusters>>
    BY DEF heap
  <2> QED BY <1>1, <2>1, ListsStay
<1>4. Marks'
  BY <1>1, MarksStay
<1> QED BY <1>2, <1>3, <1>4 DEF IInv, HeapInv

(* How many clusters there are.                                            *)
LEMMA ClusterCount ==
    ASSUME Geometry(mem, clusters)
    PROVE  DOMAIN clusters = 1..Len(clusters) /\ Len(clusters) \in Nat
BY ClusterFacts DEF Geometry

(* A search begins at the first block of the list of a cluster.            *)
LEMMA SearchBegins ==
    ASSUME Geometry(mem, clusters), NEW i \in 1..(Len(clusters) + 1), clusters' = clusters,
           Lists', pc' = "search", ci' = i, at' = ListHead(i), prev' = NIL,
           want' \in DOMAIN Type, back' \in {"first", "again"}
    PROVE  Position'
<1>1. DOMAIN clusters = 1..Len(clusters) /\ Len(clusters) \in Nat
  BY ClusterCount
<1>2. InSearch'
  <2>1. Known(ci)' <=> i \in DOMAIN clusters
    BY DEF Known
  <2>2. ASSUME i \in DOMAIN clusters
        PROVE  at' = clusters[i].free_list /\ at' \in OnList(i)' \cup {NIL}
    <3>1. at' = clusters[i].free_list
      BY <2>2 DEF ListHead, Known
    <3> QED BY <2>2, <3>1 DEF Lists, Listed
  <2>3. i \notin DOMAIN clusters => at' = NIL
    BY DEF ListHead, Known
  <2> QED BY <2>1, <2>2, <2>3 DEF InSearch
<1> QED BY <1>1, <1>2 DEF Position, Known

(* A collection begins at the first block of the first cluster.            *)
LEMMA CycleBegins ==
    ASSUME IInv, UNCHANGED <<mem, clusters>>, pc # "sweep", BeginCycle,
           want' \in DOMAIN Type \cup {0}, back' \in {"run", "first", "again"},
           back' # "run" => want' \in DOMAIN Type
    PROVE  Position'
<1>1. DOMAIN clusters = 1..Len(clusters) /\ Len(clusters) \in Nat
  BY ClusterCount DEF IInv
<1>2. AtBlock'
  <2>1. ASSUME Known(1)
        PROVE  at' \in clusters[1].block_starts \cup {End(1)}
    <3>1. at' = clusters[1].base
      BY <2>1 DEF BeginCycle, Base
    <3>2. Tiling(mem, clusters[1]) /\ clusters[1].base \in Nat /\ clusters[1].bump \in Nat
      BY <2>1, ClusterFacts DEF IInv, Geometry, Known
    <3>3. clusters[1].bump = 0 => clusters[1].base = End(1)
      BY <3>2 DEF End
    <3> QED BY <3>1, <3>2, <3>3 DEF Tiling
  <2>2. Known(ci)' <=> Known(1)
    BY DEF BeginCycle, Known
  <2> QED BY <2>1, <2>2 DEF AtBlock, BeginCycle, End
<1> QED BY <1>1, <1>2 DEF Position, BeginCycle, Known

(* nm2_new_rec begins.                                                     *)
LEMMA NewRecKeeps ==
    ASSUME IInv, NEW t \in DOMAIN Type, NEW pressure \in BOOLEAN, NewRec(t, pressure)
    PROVE  IInv'
<1>1. pc = "run" /\ UNCHANGED <<heap, roots>> /\ work' = work /\ want' = t /\ back' = "first"
  BY DEF NewRec
<1>2. CASE pressure
  <2>1. BeginCycle /\ pc' = "clear" /\ swept' = FALSE
    BY <1>2 DEF NewRec, BeginCycle
  <2>2. Position'
    BY <1>1, <2>1, CycleBegins DEF heap
  <2> QED BY <1>1, <2>1, <2>2, StillKeeps
<1>3. CASE ~ pressure
  <2>1. pc' = "search" /\ ci' = 1 /\ at' = ListHead(1) /\ prev' = NIL /\ swept' = swept
    BY <1>3 DEF NewRec, BeginSearch
  <2>2. 1 \in 1..(Len(clusters) + 1)
    BY ClusterCount DEF IInv
  <2>3. Position'
    BY <1>1, <2>1, <2>2, SearchBegins, ListsStay DEF heap, IInv
  <2> QED BY <1>1, <2>1, <2>3, StillKeeps
<1> QED BY <1>2, <1>3

(* nm2_collect begins.                                                     *)
LEMMA CollectKeeps == ASSUME IInv, Collect PROVE IInv'
<1>1. pc = "run" /\ UNCHANGED <<heap, roots>> /\ work' = work /\ want' = want /\ back' = back
      /\ BeginCycle /\ pc' = "clear" /\ swept' = FALSE
  BY DEF Collect, BeginCycle, call
<1>2. Position'
  BY <1>1, CycleBegins DEF heap, IInv, Position
<1> QED BY <1>1, <1>2, StillKeeps

(* alloc_under_lock collects before it tries again.                        *)
LEMMA CollectAndRetryKeeps == ASSUME IInv, CollectAndRetry PROVE IInv'
<1>1. pc = "search" /\ UNCHANGED <<heap, roots>> /\ work' = work /\ want' = want /\ back' = "again"
      /\ BeginCycle /\ pc' = "clear" /\ swept' = FALSE /\ back = "first"
  BY DEF CollectAndRetry, BeginCycle
<1>2. Position'
  BY <1>1, CycleBegins DEF heap, IInv, Position
<1> QED BY <1>1, <1>2, StillKeeps

(* The search goes on with the next block of the list.                     *)
LEMMA SkipFreeKeeps == ASSUME IInv, SkipFree PROVE IInv'
<1>1. /\ pc = "search" /\ pc' = pc /\ UNCHANGED <<heap, roots>> /\ work' = work /\ want' = want
      /\ back' = back /\ swept' = swept /\ ci' = ci /\ at # NIL
      /\ prev' = at /\ at' = mem[at + 1].w0
  BY DEF SkipFree, call
<1>2. mem' = mem /\ clusters' = clusters
  BY <1>1 DEF heap
<1>3. Lists' /\ (\A i : OnList(i)' = OnList(i)) /\ Lists
  BY <1>1, <1>2, ListsStay DEF IInv
<1>4. Position /\ InSearch
  BY <1>1 DEF IInv, Position
<1>5. Known(ci) /\ at \in OnList(ci)
  BY <1>1, <1>4 DEF InSearch
<1>6. mem[at + 1].w0 \in OnList(ci) \cup {NIL}
  BY <1>3, <1>5 DEF Lists, Listed, Known
<1>7. at \in Addr
  BY <1>5, BlockFacts DEF IInv, OnList, Free, Known
<1>8. Known(ci)'
  BY <1>1, <1>2, <1>5 DEF Known
<1>9. InSearch'
  BY <1>1, <1>2, <1>3, <1>4, <1>5, <1>6, <1>8 DEF InSearch
<1>10. Position'
  BY <1>1, <1>2, <1>4, <1>7, <1>8, <1>9 DEF Position
<1> QED BY <1>1, <1>2, <1>10, StillKeeps

(* ... and then with the next cluster.                                     *)
LEMMA NextClusterKeeps == ASSUME IInv, NextCluster PROVE IInv'
<1>1. /\ pc = "search" /\ pc' = "search" /\ UNCHANGED <<heap, roots>> /\ work' = work
      /\ want' = want /\ back' = back /\ swept' = swept
      /\ Known(ci) /\ ci' = ci + 1 /\ at' = ListHead(ci + 1) /\ prev' = NIL
  BY DEF NextCluster, call
<1>2. mem' = mem /\ clusters' = clusters
  BY <1>1 DEF heap
<1>3. Position /\ InSearch
  BY <1>1 DEF IInv, Position
<1>4. ci + 1 \in 1..(Len(clusters) + 1)
  BY <1>1, ClusterCount DEF IInv, Known
<1>5. want \in DOMAIN Type /\ back \in {"run", "first", "again"}
  BY <1>3 DEF InSearch, Position
<1>6. back \in {"first", "again"}
  BY <1>3, <1>5 DEF InSearch
<1>7. Position'
  BY <1>1, <1>2, <1>4, <1>5, <1>6, SearchBegins, ListsStay DEF IInv
<1> QED BY <1>1, <1>2, <1>7, StillKeeps

(* The process gives up.                                                   *)
LEMMA OutOfMemoryKeeps == ASSUME IInv, OutOfMemory PROVE IInv'
<1>1. /\ pc = "search" /\ pc' = "abort" /\ UNCHANGED <<heap, roots, loop, call>> /\ work' = work
      /\ swept' = swept
  BY DEF OutOfMemory
<1>2. Position'
  BY <1>1 DEF IInv, Position, loop, call, heap, Known
<1> QED BY <1>1, <1>2, StillKeeps

(* A cluster begins with a block, or has none.                             *)
LEMMA BaseIsBlock ==
    ASSUME Geometry(mem, clusters), NEW i, Known(i)
    PROVE  Base(i) \in clusters[i].block_starts \cup {End(i)}
<1>1. Base(i) = clusters[i].base
  BY DEF Base
<1>2. Tiling(mem, clusters[i]) /\ clusters[i].base \in Nat /\ clusters[i].bump \in Nat
  BY ClusterFacts DEF Geometry, Known
<1>3. clusters[i].bump = 0 => clusters[i].base = End(i)
  BY <1>2 DEF End
<1> QED BY <1>1, <1>2, <1>3 DEF Tiling

(* A block leads to the next one or to the bump pointer.                   *)
LEMMA NextIsBlock ==
    ASSUME Geometry(mem, clusters), NEW i, Known(i), NEW b \in clusters[i].block_starts
    PROVE  b + mem[b].w1 \in clusters[i].block_starts \cup {End(i)}
BY DEF Geometry, Known, Tiling, EndOf, End

(* There are no marks to clear.                                            *)
LEMMA ClearMarkKeeps == ASSUME IInv, ClearMark PROVE IInv'
<1>1. /\ pc = "clear" /\ pc' = "clear" /\ Known(ci) /\ at < End(ci)
      /\ mem' = [mem EXCEPT ![at].w0 = 2 * TypeOf(mem[at])] /\ at' = at + mem[at].w1
      /\ clusters' = clusters /\ UNCHANGED <<roots, call>> /\ work' = work
      /\ swept' = swept /\ ci' = ci /\ prev' = prev
  BY DEF ClearMark, MoreToClear
<1>2. Position /\ AtBlock /\ Geometry(mem, clusters)
  BY <1>1 DEF IInv, Position
<1>3. clusters[ci].base \in Nat /\ clusters[ci].bump \in Nat
  BY <1>1, <1>2, ClusterFacts DEF Geometry, Known
<1>4. at \in clusters[ci].block_starts
  BY <1>1, <1>2, <1>3 DEF AtBlock, End
<1>5. ~ IsMarked(mem[at])
  BY <1>1, <1>4 DEF IInv, Marks, Blocks, Known
<1>6. at \in Addr /\ mem[at] \in Cell /\ mem[at].w0 \in Nat
  BY <1>1, <1>2, <1>4, BlockFacts DEF Known
<1>7. 2 * TypeOf(mem[at]) = mem[at].w0
  BY <1>5, <1>6, Tags DEF IsMarked, TypeOf
<1>8. mem \in [Addr -> Cell]
  BY <1>2 DEF Geometry, Placed
<1>9. mem' = mem
  <2>1. [mem[at] EXCEPT !.w0 = mem[at].w0] = mem[at]
    BY <1>6 DEF Cell
  <2> QED BY <1>1, <1>6, <1>7, <1>8, <2>1
<1>10. at' \in clusters[ci].block_starts \cup {End(ci)}
  BY <1>1, <1>2, <1>4, NextIsBlock
<1>11. Position'
  BY <1>1, <1>2, <1>9, <1>10 DEF Position, AtBlock, Known, End, call
<1> QED BY <1>1, <1>9, <1>11, StillKeeps DEF heap

(* The clearing goes on with the next cluster.                             *)
LEMMA ClearNextKeeps == ASSUME IInv, ClearNext PROVE IInv'
<1>1. /\ pc = "clear" /\ pc' = "clear" /\ Known(ci) /\ UNCHANGED <<heap, roots, call>> /\ work' = work
      /\ swept' = swept /\ ci' = ci + 1 /\ at' = Base(ci + 1) /\ prev' = prev
  BY DEF ClearNext
<1>2. Position /\ Geometry(mem, clusters)
  BY <1>1 DEF IInv
<1>3. ci \in Nat /\ ci + 1 \in 1..(Len(clusters) + 1) /\ Len(clusters) \in Nat
  BY <1>1, <1>2, ClusterCount DEF Known
<1>4. Known(ci + 1) => at' \in clusters[ci + 1].block_starts \cup {End(ci + 1)}
  BY <1>1, <1>2, BaseIsBlock
<1>5. mem' = mem /\ clusters' = clusters
  BY <1>1 DEF heap
<1>6. AtBlock'
  BY <1>1, <1>4, <1>5 DEF AtBlock, Known, End
<1>7. Position'
  BY <1>1, <1>2, <1>3, <1>5, <1>6 DEF Position, Known, call
<1> QED BY <1>1, <1>7, StillKeeps

(* The collection ends, with every cluster swept.                          *)
LEMMA EndCycleKeeps == ASSUME IInv, EndCycle PROVE IInv'
<1>1. /\ pc = "sweep" /\ ~ Known(ci) /\ swept' = TRUE /\ UNCHANGED <<heap, roots>> /\ work' = work
      /\ \/ back = "run" /\ Return
         \/ back # "run" /\ BeginSearch /\ UNCHANGED call
  BY DEF EndCycle
<1>2. pc' \in {"run", "search"}
  BY <1>1 DEF Return, BeginSearch
<1>3. mem' = mem /\ clusters' = clusters /\ obj' = obj
  BY <1>1 DEF heap, roots
<1>4. HeapInv /\ Lists /\ Marks /\ Position /\ Geometry(mem, clusters)
  BY DEF IInv, HeapInv
<1>5. DOMAIN clusters = 1..Len(clusters) /\ Len(clusters) \in Nat
  BY <1>4, ClusterCount
<1>6. \A i \in DOMAIN clusters : i \in Nat /\ ci \in Nat /\ i < ci
  BY <1>1, <1>4, <1>5 DEF Position, Known
<1>7. \A i \in DOMAIN clusters : \A b : ~ Ahead(i, b)
  BY <1>6 DEF Ahead
<1>8. HeapInv'
  BY <1>1, <1>4, HeapStays
<1>9. Lists'
  <2>1. \A i \in DOMAIN clusters : OnList(i)' = OnList(i)
    BY <1>2, <1>3, <1>6 DEF OnList
  <2> QED BY <1>3, <1>4, <2>1 DEF Lists
<1>10. Sweeping
  BY <1>1, <1>4 DEF Marks
<1>11. CollectsAllGarbage'
  BY <1>3, <1>7, <1>10 DEF Sweeping, CollectsAllGarbage, Free
<1>12. \A b \in Blocks(clusters) : ~ IsMarked(mem[b])
  BY <1>7, <1>10 DEF Sweeping, Blocks
<1>13. Marks'
  BY <1>1, <1>2, <1>3, <1>4, <1>11, <1>12 DEF Marks
<1>14. Position'
  <2>1. CASE back = "run" /\ Return
    BY <1>3, <1>5, <2>1 DEF Return, Position
  <2>2. CASE back # "run" /\ BeginSearch /\ UNCHANGED call
    <3>1. want' = want /\ back' = back /\ want \in DOMAIN Type /\ back \in {"first", "again"}
      BY <1>4, <2>2 DEF Position, call
    <3>2. pc' = "search" /\ ci' = 1 /\ at' = ListHead(1) /\ prev' = NIL
      BY <2>2 DEF BeginSearch
    <3>3. 1 \in 1..(Len(clusters) + 1)
      BY <1>5
    <3> QED BY <1>3, <1>4, <1>9, <3>1, <3>2, <3>3, SearchBegins
  <2> QED BY <1>1, <2>1, <2>2
<1> QED BY <1>8, <1>9, <1>13, <1>14 DEF IInv, HeapInv

-----------------------------------------------------------------------------
(* Marking.                                                                *)

(* resolve finds the object around an address.                             *)
LEMMA ResolveFinds ==
    ASSUME Geometry(mem, clusters), Objects(mem, clusters, obj), NEW w, NEW p \in Inside(obj, w)
    PROVE  Resolve(w) = {p}
<1> DEFINE b == p - 1
<1>1. /\ p \in DOMAIN obj /\ w \in p..(p + Type[obj[p]].units - 2)
      /\ p \in Nat /\ p >= 2 /\ b \in Blocks(clusters) /\ p \in Addr /\ ~ IsFree(mem[b])
      /\ mem[b].w1 = Type[obj[p]].units
  BY InsideFacts DEF Inside, Objects
<1>2. PICK i \in DOMAIN clusters : b \in clusters[i].block_starts
  BY <1>1 DEF Blocks
<1>3. /\ b \in Nat /\ mem[b].w1 \in Nat /\ mem[b].w1 >= 2
      /\ b >= clusters[i].base /\ b + mem[b].w1 <= EndOf(clusters[i])
  BY <1>2, BlockFacts
<1>4. clusters[i].base \in Nat /\ EndOf(clusters[i]) \in Nat /\ End(i) = EndOf(clusters[i])
  BY ClusterFacts DEF Geometry, End, EndOf
<1>5. w \in Nat /\ w >= p /\ w <= b + mem[b].w1 - 1 /\ b <= w /\ w \in p..(b + mem[b].w1 - 1)
  BY <1>1, <1>3
<1>6. w \in clusters[i].base..(End(i) - 1)
  BY <1>3, <1>4, <1>5
<1>7. ASSUME NEW d \in clusters[i].block_starts, d <= w PROVE d <= b
  <2>1. d \in Nat /\ (b < d => b + mem[b].w1 <= d)
    BY <1>2, BlockFacts, Apart
  <2> QED BY <1>3, <1>5, <1>7, <2>1
<1>8. p \in Resolve(w)
  BY <1>1, <1>2, <1>3, <1>4, <1>5, <1>6, <1>7 DEF Resolve, MIN_BLOCK
<1>9. ASSUME NEW q \in Resolve(w) PROVE q = p
  <2>1. q \in Addr
    BY DEF Resolve
  <2>2. PICK j \in DOMAIN clusters :
            LET c == clusters[j]
                below == {x \in c.block_starts : x <= w}
            IN  /\ w \in c.base..(End(j) - 1)
                /\ q - 1 \in below /\ \A d \in below : d <= q - 1
    BY DEF Resolve
  <2>3. clusters[j].base \in Nat /\ End(j) \in Nat /\ End(j) = EndOf(clusters[j])
    BY ClusterFacts DEF Geometry, End, EndOf
  <2>4. i = j
    <3>1. /\ i \in Nat /\ j \in Nat /\ ClusterSize \in Nat
          /\ EndOf(clusters[i]) <= clusters[i].base + ClusterSize
          /\ EndOf(clusters[j]) <= clusters[j].base + ClusterSize
          /\ i < j => clusters[i].base + ClusterSize <= clusters[j].base
          /\ j < i => clusters[j].base + ClusterSize <= clusters[i].base
      BY ClusterFacts, Constants DEF Geometry
    <3>2. w >= clusters[i].base /\ w < EndOf(clusters[i]) /\ w >= clusters[j].base /\ w < EndOf(clusters[j])
      BY <1>4, <1>5, <1>6, <2>2, <2>3
    <3> QED BY <1>4, <1>5, <2>3, <3>1, <3>2
  <2>5. q - 1 \in clusters[i].block_starts /\ q - 1 <= w /\ b <= q - 1
    BY <1>2, <1>5, <2>2, <2>4
  <2>6. q - 1 <= b
    BY <1>7, <2>5
  <2>7. q \in Nat
    BY <2>1, Constants DEF Addr
  <2> QED BY <1>1, <2>5, <2>6, <2>7
<1> QED BY <1>8, <1>9

(* The roots.                                                              *)
LEMMA ScanRootsKeeps == ASSUME IInv, ScanRoots PROVE IInv'
<1>1. /\ pc = "clear" /\ pc' = "mark" /\ ~ Known(ci) /\ at' = NIL /\ UNCHANGED <<heap, roots, call>>
      /\ swept' = swept /\ ci' = ci /\ prev' = prev
      /\ work' = (UNION {Resolve(w) : w \in stack}) \cup ({global} \ {NIL})
  BY DEF ScanRoots
<1>2. mem' = mem /\ clusters' = clusters /\ obj' = obj /\ stack' = stack /\ global' = global
  BY <1>1 DEF heap, roots
<1>3. HeapInv /\ Lists /\ Marks /\ Position /\ Geometry(mem, clusters)
      /\ Objects(mem, clusters, obj) /\ Rooted(mem, obj, stack, global)
  BY DEF IInv, HeapInv
<1>4. HeapInv'
  BY <1>1, <1>3, HeapStays
<1>5. Lists'
  BY <1>1, <1>2, <1>3, ListsStay
<1>6. Marking'
  <2>1. \A w \in stack : Resolve(w) = Inside(obj, w)
    <3> SUFFICES ASSUME NEW w \in stack PROVE Resolve(w) = Inside(obj, w)
      OBVIOUS
    <3>1. PICK p : p \in Inside(obj, w)
      BY <1>3 DEF Rooted
    <3>2. Inside(obj, w) = {p}
      BY <1>3, <3>1, InsideFacts
    <3>3. Resolve(w) = {p}
      BY <1>3, <3>1, ResolveFinds
    <3> QED BY <3>2, <3>3
  <2>2. Inside(obj, global) = {global} \ {NIL}
    <3>1. global = NIL \/ (global \in DOMAIN obj /\ global # NIL)
      BY <1>3 DEF Rooted
    <3> QED BY <1>3, <3>1, InsideFacts
  <2>3. \A w : Inside(obj, w) \subseteq DOMAIN obj
    BY DEF Inside
  <2> DEFINE U == UNION {Resolve(w) : w \in stack}
             G == {global} \ {NIL}
  <2>4. /\ \A w \in stack : Inside(obj, w) \subseteq U
        /\ U \subseteq DOMAIN obj
    <3>1. ASSUME NEW w \in stack PROVE Inside(obj, w) \subseteq U
      BY <2>1
    <3>2. \A w \in stack : Resolve(w) \subseteq DOMAIN obj
      BY <2>1, <2>3
    <3> QED BY <3>1, <3>2
  <2>5. Inside(obj, global) = G /\ G \subseteq DOMAIN obj /\ work' = U \cup G
    <3>1. G \subseteq DOMAIN obj
      BY <1>3 DEF Rooted
    <3>2. work' = U \cup G
      BY DEF ScanRoots
    <3> QED BY <2>2, <3>1, <3>2
  <2> HIDE DEF U, G
  <2>9. /\ work' \subseteq DOMAIN obj
        /\ \A w \in stack \cup {global} : Inside(obj, w) \subseteq work'
    BY <2>4, <2>5
  <2>6. \A b \in Blocks(clusters) : ~ IsMarked(mem[b])
    BY <1>1, <1>3 DEF Marks
  <2>7. MarkedObjects = {}
    BY <1>3, <2>6 DEF MarkedObjects, Objects
  <2>8. MarkedObjects' = {}
    BY <1>2, <2>7 DEF MarkedObjects
  <2> QED BY <1>2, <2>6, <2>8, <2>9 DEF Marking
<1>7. Marks'
  <2>1. CollectsAllGarbage'
    BY <1>1, <1>2, <1>3 DEF Marks, CollectsAllGarbage
  <2> QED BY <1>1, <1>3, <1>6, <2>1 DEF Marks
<1>8. Position'
  BY <1>1, <1>2, <1>3 DEF Position, call, Known
<1> QED BY <1>4, <1>5, <1>7, <1>8 DEF IInv, HeapInv

(* A cluster is swept from its first block, with an empty list.            *)
LEMMA SweepEnters ==
    ASSUME Geometry(mem, clusters), NEW i, EnterSweep(i)
    PROVE  /\ ci' = i /\ at' = Base(i) /\ prev' = NIL
           /\ Geometry(mem, clusters') /\ Blocks(clusters') = Blocks(clusters)
           /\ Spans(clusters') = Spans(clusters)
           /\ DOMAIN clusters' = DOMAIN clusters /\ Len(clusters') = Len(clusters)
           /\ \A j \in DOMAIN clusters :
                /\ clusters'[j].base = clusters[j].base /\ clusters'[j].bump = clusters[j].bump
                /\ clusters'[j].block_starts = clusters[j].block_starts
                /\ clusters'[j].free_list = IF j = i THEN NIL ELSE clusters[j].free_list
<1>1. ci' = i /\ at' = Base(i) /\ prev' = NIL
      /\ clusters' = IF Known(i) THEN [clusters EXCEPT ![i].free_list = NIL] ELSE clusters
  BY DEF EnterSweep
<1>2. clusters \in Seq(ClusterRec) /\ DOMAIN clusters = 1..Len(clusters) /\ Len(clusters) \in Nat
  BY ClusterFacts DEF Geometry, Placed
<1>3. ASSUME Known(i)
      PROVE  /\ clusters' \in Seq(ClusterRec) /\ Len(clusters') = Len(clusters)
             /\ clusters'[i] = [clusters[i] EXCEPT !.free_list = NIL]
             /\ \A j \in DOMAIN clusters : j # i => clusters'[j] = clusters[j]
  <2>1. clusters[i] \in ClusterRec
    BY <1>2, <1>3 DEF Known
  <2>2. [clusters[i] EXCEPT !.free_list = NIL] \in ClusterRec
    BY <2>1 DEF ClusterRec, NIL
  <2> DEFINE e == [clusters[i] EXCEPT !.free_list = NIL]
  <2>3. clusters' = [clusters EXCEPT ![i] = e]
    BY <1>1, <1>3
  <2> HIDE DEF e
  <2>4. e \in ClusterRec /\ i \in 1..Len(clusters)
    BY <1>2, <1>3, <2>2 DEF e, Known
  <2> QED BY <1>2, <2>3, <2>4, ExceptSeq DEF e
<1>4. clusters' \in Seq(ClusterRec) /\ Len(clusters') = Len(clusters) /\ DOMAIN clusters' = DOMAIN clusters
  BY <1>1, <1>2, <1>3, LenProperties
<1>5. \A j \in DOMAIN clusters : clusters[j] \in ClusterRec
  BY <1>2
<1>6. \A j \in DOMAIN clusters :
        /\ clusters'[j].base = clusters[j].base /\ clusters'[j].bump = clusters[j].bump
        /\ clusters'[j].block_starts = clusters[j].block_starts
        /\ clusters'[j].free_list = IF j = i THEN NIL ELSE clusters[j].free_list
  <2> SUFFICES ASSUME NEW j \in DOMAIN clusters
      PROVE  /\ clusters'[j].base = clusters[j].base /\ clusters'[j].bump = clusters[j].bump
             /\ clusters'[j].block_starts = clusters[j].block_starts
             /\ clusters'[j].free_list = IF j = i THEN NIL ELSE clusters[j].free_list
    OBVIOUS
  <2>1. CASE j = i
    BY <1>3, <1>5, <2>1 DEF Known, ClusterRec
  <2>2. CASE j # i
    BY <1>1, <1>3, <2>2
  <2> QED BY <2>1, <2>2
<1>7. Geometry(mem, clusters')
  <2>1. Placed(mem, clusters')
    BY <1>4, <1>6 DEF Geometry, Placed
  <2>2. ASSUME NEW j \in DOMAIN clusters PROVE Tiling(mem, clusters'[j])
    <3>1. Tiling(mem, clusters[j]) /\ EndOf(clusters'[j]) = EndOf(clusters[j])
      BY <1>6 DEF Geometry, EndOf
    <3> QED BY <1>6, <3>1 DEF Tiling
  <2> QED BY <1>4, <2>1, <2>2 DEF Geometry
<1>8. Blocks(clusters') = Blocks(clusters)
  BY <1>4, <1>6 DEF Blocks
<1>9. Spans(clusters') = Spans(clusters)
  BY <1>4, <1>6 DEF Spans, EndOf
<1> QED BY <1>1, <1>4, <1>6, <1>7, <1>8, <1>9

(* With an empty worklist the marked objects are the reachable ones.       *)
LEMMA BeginSweepKeeps == ASSUME IInv, BeginSweep PROVE IInv'
<1>1. /\ pc = "mark" /\ work = {} /\ pc' = "sweep" /\ EnterSweep(1) /\ mem' = mem
      /\ UNCHANGED <<roots, swept, call, work>>
  BY DEF BeginSweep
<1>2. /\ Geometry(mem, clusters) /\ Lists /\ Fresh(mem, clusters)
      /\ Objects(mem, clusters, obj) /\ Rooted(mem, obj, stack, global)
      /\ Marks /\ Position
  BY DEF IInv
<1>3. obj' = obj /\ stack' = stack /\ global' = global
  BY <1>1 DEF roots
<1>4. /\ ci' = 1 /\ at' = Base(1) /\ prev' = NIL
      /\ Geometry(mem, clusters') /\ Blocks(clusters') = Blocks(clusters)
      /\ Spans(clusters') = Spans(clusters)
      /\ DOMAIN clusters' = DOMAIN clusters /\ Len(clusters') = Len(clusters)
      /\ \A j \in DOMAIN clusters :
           /\ clusters'[j].base = clusters[j].base /\ clusters'[j].bump = clusters[j].bump
           /\ clusters'[j].block_starts = clusters[j].block_starts
           /\ clusters'[j].free_list = IF j = 1 THEN NIL ELSE clusters[j].free_list
  BY <1>1, <1>2, SweepEnters
<1>5. Fresh(mem, clusters')
  BY <1>2, <1>4 DEF Fresh
<1>6. Objects(mem, clusters', obj)
  BY <1>2, <1>4 DEF Objects
<1>7. HeapInv'
  BY <1>1, <1>2, <1>3, <1>4, <1>5, <1>6 DEF HeapInv
<1>8. DOMAIN clusters = 1..Len(clusters) /\ Len(clusters) \in Nat
  BY <1>2, ClusterCount
<1>9. \A b \in Blocks(clusters) : IsMarked(mem[b]) <=> b + 1 \in DOMAIN obj
  <2>1. Marking
    BY <1>1, <1>2 DEF Marks
  <2>2. Closed(mem, obj, stack \cup {global}, MarkedObjects)
    BY <1>1, <2>1 DEF Marking, Closed
  <2>3. MarkedObjects = DOMAIN obj
    BY <1>2, <2>2 DEF Rooted, MarkedObjects
  <2>4. ASSUME NEW b \in Blocks(clusters), b + 1 \in DOMAIN obj PROVE IsMarked(mem[b])
    <3>1. (b + 1) - 1 = b
      BY <1>2, BlocksApart
    <3> QED BY <2>3, <2>4, <3>1 DEF MarkedObjects
  <2> QED BY <2>1, <2>4 DEF Marking
<1>10. \A i \in DOMAIN clusters : \A b \in clusters[i].block_starts : Ahead(i, b)'
  <2> SUFFICES ASSUME NEW i \in DOMAIN clusters, NEW b \in clusters[i].block_starts
      PROVE  i > ci' \/ (i = ci' /\ b >= at')
    BY DEF Ahead
  <2>1. i \in Nat /\ i >= 1 /\ b \in Nat /\ b >= clusters[i].base
    BY <1>2, <1>8, BlockFacts
  <2>2. i = 1 => at' = clusters[i].base
    BY <1>4 DEF Base, Known
  <2> QED BY <1>4, <2>1, <2>2
<1>11. Sweeping'
  <2> SUFFICES ASSUME NEW i \in DOMAIN clusters, NEW b \in clusters[i].block_starts
      PROVE  IsMarked(mem[b]) <=> b + 1 \in DOMAIN obj
    BY <1>1, <1>3, <1>4, <1>10 DEF Sweeping
  <2> QED BY <1>9 DEF Blocks
<1>12. Lists'
  <2> SUFFICES ASSUME NEW i \in DOMAIN clusters
      PROVE  \E r : Listed(mem, clusters'[i].free_list, OnList(i)', r)
    BY <1>1, <1>4 DEF Lists
  <2>1. CASE i = 1
    <3>1. \A b \in clusters[i].block_starts : i = ci' /\ b >= at'
      BY <1>4, <1>8, <1>10, <2>1 DEF Ahead
    <3>2. OnList(i)' = {}
      BY <1>1, <1>4, <3>1 DEF OnList, Free
    <3>3. clusters'[i].free_list = NIL
      BY <1>4, <2>1
    <3> QED BY <3>2, <3>3, ListEmpty
  <2>2. CASE i # 1
    <3>1. OnList(i)' = OnList(i)
      BY <1>1, <1>4, <2>2 DEF OnList, Free
    <3>2. clusters'[i].free_list = clusters[i].free_list
      BY <1>4, <2>2
    <3> QED BY <1>2, <3>1, <3>2 DEF Lists
  <2> QED BY <2>1, <2>2
<1>13. Marks'
  <2>1. CollectsAllGarbage'
    <3>1. swept' = swept /\ CollectsAllGarbage
      BY <1>1, <1>2 DEF Marks
    <3> QED BY <1>1, <1>3, <1>4, <3>1 DEF CollectsAllGarbage
  <2> QED BY <1>1, <1>2, <1>11, <2>1 DEF Marks
<1>14. Position'
  <2>1. Known(1) => at' \in clusters[1].block_starts \cup {End(1)}
    BY <1>2, <1>4, BaseIsBlock
  <2>2. AtBlock'
    BY <1>4, <2>1 DEF AtBlock, Known, End
  <2>3. ASSUME Known(ci)' PROVE \A b \in Free(mem, clusters[1])  : ~ (b < at')
    <3>1. 1 \in DOMAIN clusters
      BY <1>4, <2>3 DEF Known
    <3>2. at' = clusters[1].base /\ at' \in Nat
      BY <1>2, <1>4, <3>1, ClusterFacts DEF Base, Known, Geometry
    <3> QED BY <1>2, <3>1, <3>2, BlockFacts DEF Free
  <2>4. Free(mem, clusters[1])' = Free(mem, clusters[1]) \/ ~ Known(ci)'
    BY <1>1, <1>4 DEF Free, Known
  <2>5. InSweep'
    BY <1>4, <2>2, <2>3, <2>4 DEF InSweep
  <2> QED BY <1>1, <1>2, <1>4, <1>8, <2>5 DEF Position, call, Known
<1> QED BY <1>7, <1>12, <1>13, <1>14 DEF IInv, HeapInv

(* Setting or clearing the mark of a block leaves the rest of the heap.    *)
LEMMA TagWritten ==
    ASSUME HeapInv, UNCHANGED <<clusters, roots>>, NEW d \in Blocks(clusters), NEW v \in Nat,
           v \div 2 = TypeOf(mem[d]), mem' = [mem EXCEPT ![d].w0 = v]
    PROVE  /\ HeapInv' /\ mem'[d].w0 = v
           /\ \A b \in Blocks(clusters) :
                /\ mem'[b].w1 = mem[b].w1 /\ TypeOf(mem'[b]) = TypeOf(mem[b])
                /\ mem'[b + 1].w0 = mem[b + 1].w0
                /\ b # d => mem'[b] = mem[b]
<1>1. /\ Geometry(mem, clusters) /\ Fresh(mem, clusters)
      /\ Objects(mem, clusters, obj) /\ Rooted(mem, obj, stack, global)
  BY DEF HeapInv
<1>2. clusters' = clusters /\ obj' = obj /\ stack' = stack /\ global' = global
  BY DEF roots
<1>3. mem \in [Addr -> Cell]
  BY <1>1 DEF Geometry, Placed
<1>4. d \in Addr /\ d \in Nat /\ mem[d] \in Cell /\ \A b \in Blocks(clusters) : b + 1 # d /\ b + 1 \in Addr /\ b \in Addr
  BY <1>1, BlocksApart
<1>5. /\ mem'[d] = [mem[d] EXCEPT !.w0 = v] /\ \A a \in Addr : a # d => mem'[a] = mem[a]
      /\ mem'[d].w0 = v /\ mem'[d].w1 = mem[d].w1 /\ mem'[d] \in Cell
  BY <1>3, <1>4 DEF Cell
<1>6. mem' \in [Addr -> Cell]
  BY <1>3, <1>4, <1>5
<1>7. TypeOf(mem'[d]) = TypeOf(mem[d])
  BY <1>5 DEF TypeOf
<1>8. \A b \in Blocks(clusters) :
         /\ mem'[b].w1 = mem[b].w1 /\ TypeOf(mem'[b]) = TypeOf(mem[b])
         /\ mem'[b + 1].w0 = mem[b + 1].w0
         /\ b # d => mem'[b] = mem[b]
  <2> SUFFICES ASSUME NEW b \in Blocks(clusters)
      PROVE  /\ mem'[b].w1 = mem[b].w1 /\ TypeOf(mem'[b]) = TypeOf(mem[b])
             /\ mem'[b + 1] = mem[b + 1]
             /\ b # d => mem'[b] = mem[b]
    OBVIOUS
  <2>1. mem'[b + 1] = mem[b + 1]
    BY <1>4, <1>5
  <2>2. CASE b = d
    BY <1>5, <1>7, <2>1, <2>2
  <2>3. CASE b # d
    BY <1>4, <1>5, <2>1, <2>3
  <2> QED BY <2>2, <2>3
<1>9. Geometry(mem', clusters)
  <2>1. \A n : n \in [Addr -> Cell] /\ (\A b \in Blocks(clusters) : n[b].w1 = mem[b].w1)
             => Geometry(n, clusters)
    BY <1>1, GeometryFrame
  <2>2. \A b \in Blocks(clusters) : mem'[b].w1 = mem[b].w1
    BY <1>8
  <2> QED BY <1>6, <2>1, <2>2, Zenon
<1>10. Fresh(mem', clusters)
  <2>1. d \in Spans(clusters)
    <3>1. PICK i \in DOMAIN clusters : d \in clusters[i].block_starts
      BY DEF Blocks
    <3>2. mem[d].w1 \in Nat /\ mem[d].w1 >= 2
          /\ \A a \in d..(d + mem[d].w1 - 1) : a \in Spans(clusters)
      BY <1>1, <3>1, BlockFacts
    <3> QED BY <1>4, <3>2
  <2> QED BY <1>1, <1>5, <2>1 DEF Fresh
<1>11. \A p \in DOMAIN obj : p - 1 \in Blocks(clusters) /\ mem'[p].w0 = mem[p].w0
  <2> SUFFICES ASSUME NEW p \in DOMAIN obj
      PROVE  p - 1 \in Blocks(clusters) /\ mem'[p].w0 = mem[p].w0
    OBVIOUS
  <2>1. p \in Nat /\ p - 1 \in Blocks(clusters)
    BY <1>1 DEF Objects
  <2>2. (p - 1) + 1 = p
    BY <2>1
  <2> QED BY <1>8, <2>1, <2>2
<1>12. Objects(mem', clusters, obj)
  <2>1. \A p \in DOMAIN obj : /\ p - 1 \in Blocks(clusters)
                              /\ TypeOf(mem'[p - 1]) = TypeOf(mem[p - 1])
                              /\ mem'[p - 1].w1 = mem[p - 1].w1 /\ mem'[p].w0 = mem[p].w0
    BY <1>8, <1>11
  <2> QED BY <1>1, <2>1, ObjectsFrame
<1>13. Rooted(mem', obj, stack, global)
  BY <1>1, <1>11, RootedFrame
<1> QED BY <1>2, <1>5, <1>8, <1>9, <1>10, <1>12, <1>13 DEF HeapInv

(* A block that was free stays free.                                       *)
LEMMA ListsKept ==
    ASSUME Lists, clusters' = clusters, \A i \in DOMAIN clusters : OnList(i)' = OnList(i),
           \A b \in Blocks(clusters) : mem'[b + 1].w0 = mem[b + 1].w0
    PROVE  Lists'
<1> SUFFICES ASSUME NEW i \in DOMAIN clusters
    PROVE  \E r : Listed(mem', clusters[i].free_list, OnList(i), r)
  BY DEF Lists
<1>1. PICK r : Listed(mem, clusters[i].free_list, OnList(i), r)
  BY DEF Lists
<1>2. \A b \in OnList(i) : mem'[b + 1].w0 = mem[b + 1].w0
  BY DEF OnList, Free, Blocks
<1> QED BY <1>1, <1>2, ListFrame

(* An object is marked, and its child takes its place in the worklist.     *)
LEMMA MarkObjectKeeps == ASSUME IInv, MarkObject PROVE IInv'
<1> DEFINE p == CHOOSE p \in work : TRUE
           hdr == mem[p - 1]
           child == mem[p].w0
           skip == IsMarked(hdr) \/ IsFree(hdr)
           follow == Type[TypeOf(hdr)].units <= hdr.w1 /\ Type[TypeOf(hdr)].ptr /\ child # NIL
<1>1. /\ pc = "mark" /\ work # {} /\ pc' = "mark"
      /\ mem' = IF skip THEN mem ELSE [mem EXCEPT ![p - 1].w0 = @ + 1]
      /\ work' = (work \ {p}) \cup (IF ~ skip /\ follow THEN {child} ELSE {})
      /\ UNCHANGED <<clusters, roots, swept, loop, call>>
  BY DEF MarkObject
<1>2. p \in work
  BY <1>1
<1> HIDE DEF p
<1>3. /\ HeapInv /\ Lists /\ Marks /\ Position /\ Marking
      /\ Geometry(mem, clusters) /\ Objects(mem, clusters, obj) /\ Rooted(mem, obj, stack, global)
  BY <1>1 DEF IInv, HeapInv, Marks
<1>4. clusters' = clusters /\ obj' = obj /\ stack' = stack /\ global' = global
  BY <1>1 DEF roots
<1>5. p \in DOMAIN obj
  BY <1>2, <1>3 DEF Marking
<1>6. /\ p \in Nat /\ p - 1 \in Nat /\ p - 1 \in Blocks(clusters) /\ ~ IsFree(hdr)
      /\ TypeOf(hdr) = obj[p] /\ Type[obj[p]].units <= hdr.w1 /\ Type[obj[p]].units \in Nat
      /\ Type[obj[p]].ptr => child \in DOMAIN obj \cup {NIL}
  <2>1. p \in Nat /\ p >= 2 /\ p - 1 \in Blocks(clusters) /\ ~ IsFree(hdr) /\ Type[obj[p]].units \in Nat
    BY <1>3, <1>5, InsideFacts
  <2>2. TypeOf(hdr) = obj[p] /\ hdr.w1 = Type[obj[p]].units
        /\ (Type[obj[p]].ptr => child \in DOMAIN obj \cup {NIL})
    BY <1>3, <1>5 DEF Objects
  <2> QED BY <2>1, <2>2
<1>7. /\ HeapInv'
      /\ \A b \in Blocks(clusters) :
           /\ mem'[b].w1 = mem[b].w1 /\ TypeOf(mem'[b]) = TypeOf(mem[b])
           /\ mem'[b + 1].w0 = mem[b + 1].w0
           /\ IsMarked(mem'[b]) <=> IsMarked(mem[b]) \/ b = p - 1
  <2>1. CASE skip
    <3>1. mem' = mem /\ IsMarked(hdr)
      BY <1>1, <1>6, <2>1
    <3>2. HeapInv'
      BY <1>1, <1>3, <1>4, <3>1, HeapStays DEF heap
    <3> QED BY <3>1, <3>2
  <2>2. CASE ~ skip
    <3>1. hdr.w0 \in Nat
      BY <1>3, <1>6, BlocksApart
    <3>2. hdr.w0 + 1 \in Nat /\ (hdr.w0 + 1) \div 2 = TypeOf(hdr) /\ (hdr.w0 + 1) % 2 = 1
      <4>1. hdr.w0 % 2 # 1
        BY <2>2 DEF IsMarked
      <4>2. hdr.w0 % 2 = 0
        BY <3>1, <4>1, Tags
      <4> HIDE DEF hdr
      <4> QED BY <3>1, <4>2, Tags DEF TypeOf
    <3>3. mem' = [mem EXCEPT ![p - 1].w0 = hdr.w0 + 1]
      BY <1>1, <2>2
    <3>4. UNCHANGED <<clusters, roots>>
      BY <1>1
    <3>5. /\ HeapInv' /\ mem'[p - 1].w0 = hdr.w0 + 1
          /\ \A b \in Blocks(clusters) :
               /\ mem'[b].w1 = mem[b].w1 /\ TypeOf(mem'[b]) = TypeOf(mem[b])
               /\ mem'[b + 1].w0 = mem[b + 1].w0
               /\ b # p - 1 => mem'[b] = mem[b]
      BY <1>3, <1>6, <3>2, <3>3, <3>4, TagWritten
    <3>6. IsMarked(mem'[p - 1])
      BY <3>2, <3>5 DEF IsMarked
    <3> QED BY <3>5, <3>6
  <2> QED BY <2>1, <2>2
<1>8. Lists'
  <2>1. \A i \in DOMAIN clusters : OnList(i)' = OnList(i)
    BY <1>1, <1>4, <1>7 DEF OnList, Free, IsFree, TypeOf, Blocks
  <2> QED BY <1>3, <1>4, <1>7, <2>1, ListsKept
<1>9. \A q \in DOMAIN obj : /\ q - 1 \in Blocks(clusters) /\ mem'[q].w0 = mem[q].w0
                            /\ q - 1 = p - 1 => q = p
  <2> SUFFICES ASSUME NEW q \in DOMAIN obj
      PROVE  /\ q - 1 \in Blocks(clusters) /\ mem'[q].w0 = mem[q].w0
             /\ q - 1 = p - 1 => q = p
    OBVIOUS
  <2>1. q \in Nat /\ q - 1 \in Blocks(clusters)
    BY <1>3 DEF Objects
  <2>2. (q - 1) + 1 = q
    BY <2>1
  <2> QED BY <1>6, <1>7, <2>1, <2>2
<1>10. MarkedObjects' = MarkedObjects \cup {p}
  BY <1>4, <1>5, <1>7, <1>9 DEF MarkedObjects
<1>11. Marking'
  <2>1. \A b \in Blocks(clusters) : IsMarked(mem'[b]) => b + 1 \in DOMAIN obj
    BY <1>3, <1>5, <1>6, <1>7 DEF Marking
  <2>2. work' \subseteq DOMAIN obj
    BY <1>1, <1>3, <1>6 DEF Marking
  <2>3. work \cup MarkedObjects \subseteq work' \cup MarkedObjects'
    BY <1>1, <1>10
  <2>4. ASSUME NEW q \in MarkedObjects', Type[obj[q]].ptr
        PROVE  Inside(obj, mem'[q].w0) \subseteq work' \cup MarkedObjects'
    <3>1. CASE q \in MarkedObjects
      <4>1. Inside(obj, mem[q].w0) \subseteq work \cup MarkedObjects
        BY <1>3, <2>4, <3>1 DEF Marking
      <4>2. mem'[q].w0 = mem[q].w0
        BY <1>9, <3>1 DEF MarkedObjects
      <4> QED BY <2>3, <4>1, <4>2
    <3>2. CASE q \notin MarkedObjects
      <4>1. q = p /\ ~ skip /\ mem'[q].w0 = child
        BY <1>5, <1>6, <1>9, <1>10, <2>4, <3>2 DEF MarkedObjects
      <4>2. CASE child = NIL
        <5>1. Inside(obj, child) = {}
          BY <1>3, <4>2, InsideFacts
        <5> QED BY <4>1, <5>1
      <4>3. CASE child # NIL
        <5>1. child \in work'
          BY <1>1, <1>6, <2>4, <4>1, <4>3
        <5>2. Inside(obj, child) = {child}
          BY <1>3, <1>6, <2>4, <4>1, <4>3, InsideFacts
        <5> QED BY <4>1, <5>1, <5>2
      <4> QED BY <4>2, <4>3
    <3> QED BY <3>1, <3>2
  <2>5. \A w \in stack \cup {global} : Inside(obj, w) \subseteq work \cup MarkedObjects
    BY <1>3 DEF Marking
  <2> QED BY <1>4, <2>1, <2>2, <2>3, <2>4, <2>5 DEF Marking
<1>12. Marks'
  <2>1. CollectsAllGarbage'
    <3>1. swept' = swept /\ CollectsAllGarbage
      BY <1>1, <1>3 DEF Marks
    <3>2. \A i \in DOMAIN clusters : \A b \in clusters[i].block_starts :
             mem'[b].w1 = mem[b].w1 /\ (IsFree(mem'[b]) <=> IsFree(mem[b]))
      BY <1>7 DEF Blocks, IsFree, TypeOf
    <3> QED BY <1>4, <3>1, <3>2 DEF CollectsAllGarbage
  <2> QED BY <1>1, <1>3, <1>11, <2>1 DEF Marks
<1>13. Position'
  BY <1>1, <1>3, <1>4 DEF Position, loop, call, Known
<1> QED BY <1>7, <1>8, <1>12, <1>13 DEF IInv, HeapInv

-----------------------------------------------------------------------------
(* Sweeping.                                                               *)

(* The sweep of a cluster ends at its bump pointer.                        *)
LEMMA SweepEnds ==
    ASSUME IInv, pc = "sweep", Known(ci)
    PROVE  /\ at \in Nat /\ clusters[ci].block_starts \subseteq Nat /\ End(ci) \in Nat
           /\ at < End(ci) <=> at \in clusters[ci].block_starts
           /\ MoreToSweep <=> at \in clusters[ci].block_starts
           /\ ~ MoreToSweep => at = End(ci) /\ \A b \in clusters[ci].block_starts : b < at
<1>1. Geometry(mem, clusters) /\ AtBlock
  BY DEF IInv, Position, InSweep
<1>2. ci \in DOMAIN clusters /\ at \in clusters[ci].block_starts \cup {End(ci)}
  BY <1>1 DEF AtBlock, Known
<1>3. clusters[ci].block_starts \subseteq Nat /\ End(ci) \in Nat /\ End(ci) = EndOf(clusters[ci])
  BY <1>1, <1>2, ClusterFacts DEF Geometry, End, EndOf
<1>4. \A b \in clusters[ci].block_starts :
         /\ b < End(ci) /\ mem[b].w1 >= 2 /\ b + mem[b].w1 <= End(ci)
  BY <1>1, <1>2, <1>3, BlockFacts
<1> QED BY <1>2, <1>3, <1>4 DEF MoreToSweep, MIN_BLOCK

(* The sweep goes on with the next cluster.                                *)
LEMMA SweepNextKeeps == ASSUME IInv, SweepNext PROVE IInv'
<1>1. /\ pc = "sweep" /\ pc' = "sweep" /\ Known(ci) /\ ~ MoreToSweep /\ EnterSweep(ci + 1)
      /\ mem' = mem /\ UNCHANGED <<roots, swept, call, work>>
  BY DEF SweepNext
<1>2. /\ Geometry(mem, clusters) /\ Lists /\ Fresh(mem, clusters)
      /\ Objects(mem, clusters, obj) /\ Rooted(mem, obj, stack, global)
      /\ Marks /\ Position /\ Sweeping
  BY <1>1 DEF IInv, Marks
<1>3. obj' = obj /\ stack' = stack /\ global' = global
  BY <1>1 DEF roots
<1> DEFINE k == ci + 1
<1>4. /\ ci' = k /\ at' = Base(k) /\ prev' = NIL
      /\ Geometry(mem, clusters') /\ Blocks(clusters') = Blocks(clusters)
      /\ Spans(clusters') = Spans(clusters)
      /\ DOMAIN clusters' = DOMAIN clusters /\ Len(clusters') = Len(clusters)
      /\ \A j \in DOMAIN clusters :
           /\ clusters'[j].base = clusters[j].base /\ clusters'[j].bump = clusters[j].bump
           /\ clusters'[j].block_starts = clusters[j].block_starts
           /\ clusters'[j].free_list = IF j = k THEN NIL ELSE clusters[j].free_list
  BY <1>1, <1>2, SweepEnters
<1>5. Fresh(mem, clusters') /\ Objects(mem, clusters', obj)
  BY <1>2, <1>4 DEF Fresh, Objects
<1>6. HeapInv'
  BY <1>1, <1>2, <1>3, <1>4, <1>5 DEF HeapInv
<1>7. DOMAIN clusters = 1..Len(clusters) /\ Len(clusters) \in Nat /\ ci \in 1..Len(clusters)
  BY <1>1, <1>2, ClusterCount DEF Known
<1>8. at = End(ci) /\ at \in Nat /\ \A b \in clusters[ci].block_starts : b < at /\ b \in Nat
  BY <1>1, SweepEnds
<1>9. ASSUME k \in DOMAIN clusters
      PROVE  at' = clusters[k].base /\ at' \in Nat /\ \A b \in clusters[k].block_starts : b >= at'
  <2>1. at' = clusters[k].base /\ at' \in Nat
    BY <1>2, <1>4, <1>9, ClusterFacts DEF Base, Known, Geometry
  <2> QED BY <1>2, <1>9, <2>1, BlockFacts
<1>10. \A i \in DOMAIN clusters : \A b \in clusters[i].block_starts : Ahead(i, b)' <=> Ahead(i, b)
  <2> SUFFICES ASSUME NEW i \in DOMAIN clusters, NEW b \in clusters[i].block_starts
      PROVE  (i > k \/ (i = k /\ b >= at')) <=> (i > ci \/ (i = ci /\ b >= at))
    BY <1>4 DEF Ahead
  <2>1. i = ci => ~ (b >= at)
    BY <1>8
  <2>2. i = k => b >= at'
    BY <1>9
  <2> QED BY <1>7, <2>1, <2>2
<1>11. Sweeping'
  <2> SUFFICES ASSUME NEW i \in DOMAIN clusters, NEW b \in clusters[i].block_starts
      PROVE  /\ Ahead(i, b)' => (IsMarked(mem[b]) <=> b + 1 \in DOMAIN obj)
             /\ ~ Ahead(i, b)' =>
                  /\ ~ IsMarked(mem[b])
                  /\ IsFree(mem[b]) \/ b + 1 \in DOMAIN obj
                  /\ IsFree(mem[b]) /\ b + mem[b].w1 \in Free(mem, clusters[i])
                       => Ahead(i, b + mem[b].w1)'
    BY <1>1, <1>3, <1>4 DEF Sweeping, Free, Ahead
  <2>1. b + mem[b].w1 \in Free(mem, clusters[i])
        => (Ahead(i, b + mem[b].w1)' <=> Ahead(i, b + mem[b].w1))
    <3>1. \A x \in clusters[i].block_starts : Ahead(i, x)' <=> Ahead(i, x)
      BY <1>10
    <3>2. Free(mem, clusters[i]) \subseteq clusters[i].block_starts
      BY DEF Free
    <3> QED BY <1>1, <3>1, <3>2 DEF Ahead
  <2> QED BY <1>2, <1>10, <2>1 DEF Sweeping
<1>12. Lists'
  <2> SUFFICES ASSUME NEW i \in DOMAIN clusters
      PROVE  \E r : Listed(mem, clusters'[i].free_list, OnList(i)', r)
    BY <1>1, <1>4 DEF Lists
  <2>1. CASE i = k
    <3>1. OnList(i)' = {}
      BY <1>1, <1>4, <1>9, <2>1 DEF OnList, Free
    <3>2. clusters'[i].free_list = NIL
      BY <1>4, <2>1
    <3> QED BY <3>1, <3>2, ListEmpty
  <2>2. CASE i # k
    <3>1. OnList(i)' = Free(mem, clusters[i])
      BY <1>1, <1>4, <2>2 DEF OnList, Free
    <3>2. OnList(i) = Free(mem, clusters[i])
      BY <1>8 DEF OnList, Free
    <3>3. clusters'[i].free_list = clusters[i].free_list
      BY <1>4, <2>2
    <3> QED BY <1>2, <3>1, <3>2, <3>3 DEF Lists
  <2> QED BY <2>1, <2>2
<1>13. Marks'
  <2>1. CollectsAllGarbage'
    <3>1. swept' = swept /\ CollectsAllGarbage
      BY <1>1, <1>2 DEF Marks
    <3> QED BY <1>1, <1>3, <1>4, <3>1 DEF CollectsAllGarbage
  <2> QED BY <1>1, <1>2, <1>11, <2>1 DEF Marks
<1>14. Position'
  <2>1. Known(k) => at' \in clusters[k].block_starts \cup {End(k)}
    BY <1>2, <1>4, BaseIsBlock
  <2>2. AtBlock'
    BY <1>4, <2>1 DEF AtBlock, Known, End
  <2>3. Known(ci)' => \A b \in Free(mem, clusters[k]) : b \in Nat /\ at' \in Nat /\ b >= at'
    BY <1>2, <1>4, <1>9, BlockFacts DEF Known, Free
  <2>4. Known(ci)' => Free(mem, clusters[ci])' = Free(mem, clusters[k])
    BY <1>1, <1>4 DEF Free, Known
  <2>5. InSweep'
    BY <1>4, <2>2, <2>3, <2>4 DEF InSweep
  <2>6. k \in 0..(Len(clusters) + 1) /\ k > 0
    BY <1>7
  <2> QED BY <1>1, <1>2, <1>4, <2>5, <2>6 DEF Position, call
<1> QED BY <1>6, <1>12, <1>13, <1>14 DEF IInv, HeapInv

(* One cluster of the heap changes.                                        *)
LEMMA ClusterUpdate ==
    ASSUME NEW cs, cs \in Seq(ClusterRec), NEW i \in DOMAIN cs, NEW e \in ClusterRec,
           NEW ds, ds = [cs EXCEPT ![i] = e]
    PROVE  /\ ds \in Seq(ClusterRec) /\ Len(ds) = Len(cs) /\ DOMAIN ds = DOMAIN cs
           /\ ds[i] = e /\ \A j \in DOMAIN cs : j # i => ds[j] = cs[j]
           /\ \A b \in Blocks(ds) : b \in e.block_starts \/ b \in Blocks(cs)
           /\ \A b \in Blocks(cs) : (b \in cs[i].block_starts => b \in e.block_starts) => b \in Blocks(ds)
           /\ e.block_starts \subseteq Blocks(ds)
<1>1. DOMAIN cs = 1..Len(cs) /\ Len(cs) \in Nat
  BY LenProperties
<1>2. ds \in Seq(ClusterRec) /\ Len(ds) = Len(cs)
  BY <1>1, ExceptSeq
<1>3. DOMAIN ds = DOMAIN cs /\ ds[i] = e /\ \A j \in DOMAIN cs : j # i => ds[j] = cs[j]
  OBVIOUS
<1>4. \A b \in Blocks(ds) : b \in e.block_starts \/ b \in Blocks(cs)
  BY <1>3 DEF Blocks
<1>5. ASSUME NEW b \in Blocks(cs), b \in cs[i].block_starts => b \in e.block_starts
      PROVE  b \in Blocks(ds)
  <2>1. PICK j \in DOMAIN cs : b \in cs[j].block_starts
    BY DEF Blocks
  <2>2. b \in ds[j].block_starts
    BY <1>3, <1>5, <2>1
  <2> QED BY <1>3, <2>2 DEF Blocks
<1>6. e.block_starts \subseteq Blocks(ds)
  BY <1>3 DEF Blocks
<1> QED BY <1>2, <1>3, <1>4, <1>5, <1>6

(* ... and does not shrink.                                                *)
LEMMA SpansUpdate ==
    ASSUME NEW cs, cs \in Seq(ClusterRec), NEW ds, DOMAIN ds = DOMAIN cs, NEW i \in DOMAIN cs,
           ds[i] \in ClusterRec, ds[i].base = cs[i].base, ds[i].bump >= cs[i].bump,
           \A j \in DOMAIN cs : j # i => ds[j] = cs[j]
    PROVE  /\ Spans(cs) \subseteq Spans(ds)
           /\ ds[i].base..(EndOf(ds[i]) - 1) \subseteq Spans(ds)
<1> DEFINE e == ds[i]
<1>1. e.base..(EndOf(e) - 1) \subseteq Spans(ds)
  BY DEF Spans
<1>2. cs[i] \in ClusterRec
  BY ElementOfSeq, LenProperties
<1>3. cs[i].base \in Nat /\ cs[i].bump \in Nat /\ e.bump \in Nat
  BY <1>2, Constants DEF ClusterRec
<1>4. cs[i].base..(EndOf(cs[i]) - 1) \subseteq e.base..(EndOf(e) - 1)
  BY <1>3 DEF EndOf
<1>5. ASSUME NEW a \in Spans(cs) PROVE a \in Spans(ds)
  <2>1. PICK j \in DOMAIN cs : a \in cs[j].base..(EndOf(cs[j]) - 1)
    BY DEF Spans
  <2>2. CASE j = i
    BY <1>1, <1>4, <2>1, <2>2
  <2>3. CASE j # i
    BY <2>1, <2>3 DEF Spans
  <2> QED BY <2>2, <2>3
<1> QED BY <1>1, <1>5

(* ... with a tiling of that cluster.                                      *)
LEMMA GeometryUpdate ==
    ASSUME NEW m, NEW cs, Geometry(m, cs), NEW i \in DOMAIN cs, NEW e \in ClusterRec,
           e.base = cs[i].base, NEW n, n \in [Addr -> Cell], Tiling(n, e),
           \A j \in DOMAIN cs : j # i => \A b \in cs[j].block_starts : n[b].w1 = m[b].w1,
           NEW ds, ds = [cs EXCEPT ![i] = e]
    PROVE  Geometry(n, ds)
<1>1. cs \in Seq(ClusterRec) /\ Len(cs) <= MaxClusters
  BY DEF Geometry, Placed
<1>2. /\ ds \in Seq(ClusterRec) /\ Len(ds) = Len(cs) /\ DOMAIN ds = DOMAIN cs
      /\ ds[i] = e /\ \A j \in DOMAIN cs : j # i => ds[j] = cs[j]
  BY <1>1, ClusterUpdate
<1>3. Placed(n, ds)
  <2>1. \A j \in DOMAIN cs : ds[j].base = cs[j].base
    BY <1>2
  <2> QED BY <1>1, <1>2, <2>1 DEF Placed, Geometry
<1>4. ASSUME NEW j \in DOMAIN cs, j # i PROVE Tiling(n, cs[j])
  <2>1. Tiling(m, cs[j]) /\ \A b \in cs[j].block_starts : n[b].w1 = m[b].w1
    BY <1>4 DEF Geometry
  <2> QED BY <2>1 DEF Tiling
<1> QED BY <1>2, <1>3, <1>4 DEF Geometry

(* The block the sweep looks at, and the ones around it.                   *)
LEMMA SweepBlockFacts ==
    ASSUME IInv, pc = "sweep", Known(ci), MoreToSweep
    PROVE  LET c == clusters[ci]
               s == mem[at].w1
           IN
           /\ ci \in DOMAIN clusters /\ c \in ClusterRec /\ EndOf(c) \in Nat /\ End(ci) = EndOf(c)
           /\ at \in c.block_starts /\ at \in Blocks(clusters)
           /\ at \in Nat /\ at >= 1 /\ at \in Addr /\ at + 1 \in Addr /\ mem[at] \in Cell
           /\ s \in Nat /\ s >= 2 /\ s \in Sizes /\ mem[at].w0 \in Nat
           /\ at + s \in c.block_starts \cup {EndOf(c)}
           /\ \A b \in c.block_starts :
                /\ b \in Nat /\ b \in Addr /\ b \in Blocks(clusters)
                /\ mem[b].w1 \in Nat /\ mem[b].w1 >= 2
                /\ b < at + s <=> b <= at
                /\ b < at => b + mem[b].w1 <= at
           /\ IsMarked(mem[at]) <=> at + 1 \in DOMAIN obj
           /\ \A b \in c.block_starts : b < at =>
                /\ ~ IsMarked(mem[b])
                /\ IsFree(mem[b]) \/ b + 1 \in DOMAIN obj
                /\ IsFree(mem[b]) => b + mem[b].w1 = at \/ b + mem[b].w1 \notin Free(mem, c)
           /\ \A b \in c.block_starts : b > at => (IsMarked(mem[b]) <=> b + 1 \in DOMAIN obj)
<1> DEFINE c == clusters[ci]
           s == mem[at].w1
<1>1. Geometry(mem, clusters) /\ Sweeping
  BY DEF IInv, Marks
<1>2. ci \in DOMAIN clusters /\ at \in c.block_starts /\ End(ci) = EndOf(c)
  BY SweepEnds DEF Known, End, EndOf
<1>3. /\ at \in Nat /\ at >= 1 /\ at \in Addr /\ at + 1 \in Addr /\ mem[at] \in Cell
      /\ s \in Nat /\ s >= 2 /\ s \in Sizes /\ mem[at].w0 \in Nat
  BY <1>1, <1>2, BlockFacts
<1>4. c \in ClusterRec /\ EndOf(c) \in Nat
  BY <1>1, <1>2, ClusterFacts DEF Geometry
<1>5. at + s \in c.block_starts \cup {EndOf(c)} /\ at \in Blocks(clusters)
  BY <1>1, <1>2 DEF Geometry, Tiling, Blocks
<1>6. ASSUME NEW b \in c.block_starts
      PROVE  /\ b \in Nat /\ b \in Addr /\ b \in Blocks(clusters)
             /\ mem[b].w1 \in Nat /\ mem[b].w1 >= 2
             /\ b < at + s <=> b <= at
             /\ b < at => b + mem[b].w1 <= at
  <2>1. b \in Nat /\ b \in Addr /\ b \in Blocks(clusters) /\ mem[b].w1 \in Nat /\ mem[b].w1 >= 2
    BY <1>1, <1>2, BlockFacts DEF Blocks
  <2>2. (b < at => b + mem[b].w1 <= at) /\ (at < b => at + s <= b)
    BY <1>1, <1>2, Apart
  <2> QED BY <1>3, <2>1, <2>2
<1>7. ci \in Nat
  BY <1>1, <1>2, ClusterFacts DEF Geometry
<1>8. \A x : Ahead(ci, x) <=> x >= at
  BY <1>7 DEF Ahead
<1>9. IsMarked(mem[at]) <=> at + 1 \in DOMAIN obj
  BY <1>1, <1>2, <1>3, <1>8 DEF Sweeping
<1>10. ASSUME NEW b \in c.block_starts, b < at
       PROVE  /\ ~ IsMarked(mem[b])
              /\ IsFree(mem[b]) \/ b + 1 \in DOMAIN obj
              /\ IsFree(mem[b]) => b + mem[b].w1 = at \/ b + mem[b].w1 \notin Free(mem, c)
  <2>1. ~ Ahead(ci, b)
    BY <1>3, <1>6, <1>8, <1>10
  <2>2. IsFree(mem[b]) /\ b + mem[b].w1 \in Free(mem, c) => b + mem[b].w1 >= at
    BY <1>1, <1>2, <1>8, <2>1 DEF Sweeping
  <2>3. b + mem[b].w1 <= at /\ b + mem[b].w1 \in Nat
    BY <1>6, <1>10
  <2>4. ~ IsMarked(mem[b]) /\ (IsFree(mem[b]) \/ b + 1 \in DOMAIN obj)
    BY <1>1, <1>2, <2>1 DEF Sweeping
  <2> QED BY <1>3, <2>2, <2>3, <2>4
<1>11. ASSUME NEW b \in c.block_starts, b > at
       PROVE  IsMarked(mem[b]) <=> b + 1 \in DOMAIN obj
  BY <1>1, <1>2, <1>3, <1>6, <1>8, <1>11 DEF Sweeping
<1> QED BY <1>2, <1>3, <1>4, <1>5, <1>6, <1>9, <1>10, <1>11

(* What a step of the sweep has to keep: the cluster it is in.             *)
LEMMA SweepStep ==
    ASSUME IInv, pc = "sweep", pc' = "sweep", Known(ci), ci' = ci, MoreToSweep, at' = at + mem[at].w1,
           UNCHANGED <<roots, swept, call, work>>, HeapInv',
           DOMAIN clusters' = DOMAIN clusters, Len(clusters') = Len(clusters),
           \A i \in DOMAIN clusters : i # ci =>
              /\ clusters'[i] = clusters[i]
              /\ \A b \in clusters[i].block_starts :
                   mem'[b] = mem[b] /\ mem'[b + 1].w0 = mem[b + 1].w0,
           \E r : Listed(mem', clusters'[ci].free_list,
                         {b \in clusters'[ci].block_starts : IsFree(mem'[b]) /\ b < at'}, r),
           \A b \in clusters'[ci].block_starts :
              /\ b \in Nat
              /\ b >= at' => (IsMarked(mem'[b]) <=> b + 1 \in DOMAIN obj)
              /\ b < at' =>
                   /\ ~ IsMarked(mem'[b])
                   /\ IsFree(mem'[b]) \/ b + 1 \in DOMAIN obj
                   /\ IsFree(mem'[b]) /\ b + mem'[b].w1 \in Free(mem', clusters'[ci])
                        => b + mem'[b].w1 >= at',
           InSweep', prev' \in Addr \cup {NIL}
    PROVE  IInv'
<1>1. obj' = obj
  BY DEF roots
<1>2. Lists /\ Marks /\ Position /\ Sweeping
  BY DEF IInv, Marks
<1>3. at \in Nat /\ at' \in Nat /\ ci \in DOMAIN clusters /\ ci \in Nat
  <2>1. at \in Nat /\ mem[at].w1 \in Nat /\ ci \in DOMAIN clusters
    BY SweepBlockFacts
  <2> QED BY <2>1, <1>2 DEF Position
<1>4. \A i \in DOMAIN clusters : i # ci => OnList(i)' = OnList(i)
  BY DEF OnList, Free
<1>5. OnList(ci)' = {b \in clusters'[ci].block_starts : IsFree(mem'[b]) /\ b < at'}
  <2> SUFFICES ASSUME NEW b \in clusters'[ci].block_starts
      PROVE  ~ (b >= at') <=> b < at'
    BY DEF OnList, Free
  <2> QED BY <1>3
<1>6. Lists'
  <2> SUFFICES ASSUME NEW i \in DOMAIN clusters
      PROVE  \E r : Listed(mem', clusters'[i].free_list, OnList(i)', r)
    BY DEF Lists
  <2>1. CASE i = ci
    BY <1>5, <2>1
  <2>2. CASE i # ci
    <3>1. PICK r : Listed(mem, clusters[i].free_list, OnList(i), r)
      BY <1>2 DEF Lists
    <3>2. \A b \in OnList(i) : mem'[b + 1].w0 = mem[b + 1].w0
      BY <2>2 DEF OnList, Free
    <3>3. Listed(mem', clusters[i].free_list, OnList(i), r)
      BY <3>1, <3>2, ListFrame
    <3> QED BY <1>4, <2>2, <3>3
  <2> QED BY <2>1, <2>2
<1>7. Sweeping'
  <2> SUFFICES ASSUME NEW i \in DOMAIN clusters, NEW b \in clusters'[i].block_starts
      PROVE  /\ Ahead(i, b)' => (IsMarked(mem'[b]) <=> b + 1 \in DOMAIN obj)
             /\ ~ Ahead(i, b)' =>
                  /\ ~ IsMarked(mem'[b])
                  /\ IsFree(mem'[b]) \/ b + 1 \in DOMAIN obj
                  /\ IsFree(mem'[b]) /\ b + mem'[b].w1 \in Free(mem', clusters'[i])
                       => Ahead(i, b + mem[b].w1)'
    BY <1>1 DEF Sweeping
  <2>1. CASE i = ci
    <3>1. \A x : Ahead(i, x)' <=> x >= at'
      BY <1>3, <2>1 DEF Ahead
    <3>2. b \in Nat
      BY <2>1
    <3> QED BY <1>3, <2>1, <3>1, <3>2 DEF Ahead
  <2>2. CASE i # ci
    <3>1. \A x : (Ahead(i, x)' <=> i > ci) /\ (Ahead(i, x) <=> i > ci)
      BY <2>2 DEF Ahead
    <3>2. mem'[b] = mem[b] /\ clusters'[i] = clusters[i] /\ b \in clusters[i].block_starts
      BY <2>2
    <3>3. Free(mem', clusters'[i]) = Free(mem, clusters[i])
      BY <2>2 DEF Free
    <3>4. /\ i > ci => (IsMarked(mem[b]) <=> b + 1 \in DOMAIN obj)
          /\ ~ (i > ci) =>
               /\ ~ IsMarked(mem[b])
               /\ IsFree(mem[b]) \/ b + 1 \in DOMAIN obj
               /\ ~ (IsFree(mem[b]) /\ b + mem[b].w1 \in Free(mem, clusters[i]))
      BY <1>2, <2>2, <3>2 DEF Sweeping, Ahead
    <3> QED BY <2>2, <3>2, <3>3, <3>4 DEF Ahead
  <2> QED BY <2>1, <2>2
<1>8. Marks'
  <2>1. ~ swept /\ swept' = swept /\ work = {} /\ work' = work /\ swept \in BOOLEAN
    BY <1>2 DEF Marks
  <2>2. CollectsAllGarbage'
    BY <2>1 DEF CollectsAllGarbage
  <2> QED BY <1>7, <2>1, <2>2 DEF Marks
<1>9. Position'
  <2>1. Known(ci)'
    BY DEF Known
  <2> QED BY <1>2, <2>1 DEF Position, call
<1> QED BY <1>6, <1>8, <1>9 DEF IInv, HeapInv

(* A marked block stays, without the mark.                                 *)
LEMMA KeepBlockKeeps == ASSUME IInv, SweepBlock, Marked, KeepBlock PROVE IInv'
<1> DEFINE c == clusters[ci]
           s == mem[at].w1
           v == mem[at].w0 - 1
<1>1. /\ pc = "sweep" /\ pc' = "sweep" /\ Known(ci) /\ ci' = ci /\ MoreToSweep /\ at' = at + s
      /\ UNCHANGED <<roots, swept, call, work>>
  BY DEF SweepBlock, MoreToSweep
<1>2. clusters' = clusters /\ prev' = NIL /\ mem' = [mem EXCEPT ![at].w0 = v]
  BY DEF KeepBlock
<1>3. /\ ci \in DOMAIN clusters /\ End(ci) = EndOf(c)
      /\ at \in c.block_starts /\ at \in Blocks(clusters)
      /\ at \in Nat /\ s \in Nat /\ s >= 2 /\ mem[at].w0 \in Nat
      /\ at + s \in c.block_starts \cup {EndOf(c)}
      /\ \A b \in c.block_starts :
           /\ b \in Nat /\ b \in Blocks(clusters)
           /\ mem[b].w1 \in Nat
           /\ b < at + s <=> b <= at
           /\ b < at => b + mem[b].w1 <= at
      /\ IsMarked(mem[at]) <=> at + 1 \in DOMAIN obj
  BY <1>1, SweepBlockFacts
<1>4. /\ \A b \in c.block_starts : b < at =>
           /\ ~ IsMarked(mem[b])
           /\ IsFree(mem[b]) \/ b + 1 \in DOMAIN obj
           /\ IsFree(mem[b]) => b + mem[b].w1 = at \/ b + mem[b].w1 \notin Free(mem, c)
      /\ \A b \in c.block_starts : b > at => (IsMarked(mem[b]) <=> b + 1 \in DOMAIN obj)
  BY <1>1, SweepBlockFacts
<1>5. v \in Nat /\ v \div 2 = TypeOf(mem[at]) /\ v % 2 = 0 /\ ~ IsFree(mem[at]) /\ at + 1 \in DOMAIN obj
  <2>1. mem[at].w0 % 2 = 1 /\ ~ IsFree(mem[at]) /\ at + 1 \in DOMAIN obj
    BY <1>3 DEF Marked, IsMarked
  <2> QED BY <1>3, <2>1, Tags DEF TypeOf
<1>6. HeapInv /\ Geometry(mem, clusters) /\ Lists
  BY DEF IInv, HeapInv
<1>7. /\ HeapInv' /\ mem'[at].w0 = v
      /\ \A b \in Blocks(clusters) :
           /\ mem'[b].w1 = mem[b].w1 /\ TypeOf(mem'[b]) = TypeOf(mem[b])
           /\ mem'[b + 1].w0 = mem[b + 1].w0
           /\ b # at => mem'[b] = mem[b]
  <2>1. UNCHANGED <<clusters, roots>>
    BY <1>1, <1>2
  <2> HIDE DEF v
  <2> QED BY <1>2, <1>3, <1>5, <1>6, <2>1, TagWritten
<1> HIDE DEF v
<1>8. ~ IsMarked(mem'[at]) /\ ~ IsFree(mem'[at])
  BY <1>3, <1>5, <1>7 DEF IsMarked, IsFree, TypeOf
<1>9. \A b \in c.block_starts : /\ IsFree(mem'[b]) <=> IsFree(mem[b])
                                /\ mem'[b].w1 = mem[b].w1 /\ mem'[b + 1].w0 = mem[b + 1].w0
                                /\ b # at => mem'[b] = mem[b]
  BY <1>3, <1>7 DEF IsFree, TypeOf
<1>10. Free(mem', c) = Free(mem, c) /\ at \notin Free(mem, c)
  BY <1>5, <1>9 DEF Free
<1>11. \A i \in DOMAIN clusters : i # ci =>
          /\ clusters'[i] = clusters[i]
          /\ \A b \in clusters[i].block_starts :
               mem'[b] = mem[b] /\ mem'[b + 1].w0 = mem[b + 1].w0
  <2> SUFFICES ASSUME NEW i \in DOMAIN clusters, i # ci, NEW b \in clusters[i].block_starts
      PROVE  mem'[b] = mem[b] /\ mem'[b + 1].w0 = mem[b + 1].w0
    BY <1>2
  <2>1. b # at
    BY <1>3, <1>6, Apart
  <2>2. b \in Blocks(clusters)
    BY DEF Blocks
  <2> QED BY <1>7, <2>1, <2>2
<1>12. \E r : Listed(mem', c.free_list, {b \in c.block_starts : IsFree(mem'[b]) /\ b < at'}, r)
  <2>1. {b \in c.block_starts : IsFree(mem'[b]) /\ b < at'} = OnList(ci)
    <3> SUFFICES ASSUME NEW b \in c.block_starts
        PROVE  IsFree(mem'[b]) /\ b < at' <=> IsFree(mem[b]) /\ ~ (b >= at)
      BY <1>1 DEF OnList, Free
    <3> QED BY <1>1, <1>3, <1>8, <1>9
  <2>2. PICK r : Listed(mem, c.free_list, OnList(ci), r)
    BY <1>3, <1>6 DEF Lists
  <2>3. \A b \in OnList(ci) : mem'[b + 1].w0 = mem[b + 1].w0
    BY <1>9 DEF OnList, Free
  <2> QED BY <2>1, <2>2, <2>3, ListFrame
<1>13. ASSUME NEW b \in c.block_starts
       PROVE  /\ b \in Nat
              /\ b >= at' => (IsMarked(mem'[b]) <=> b + 1 \in DOMAIN obj)
              /\ b < at' =>
                   /\ ~ IsMarked(mem'[b])
                   /\ IsFree(mem'[b]) \/ b + 1 \in DOMAIN obj
                   /\ IsFree(mem'[b]) /\ b + mem'[b].w1 \in Free(mem', c)
                        => b + mem'[b].w1 >= at'
  <2>1. CASE b >= at'
    <3>1. b > at /\ ~ (b < at')
      BY <1>1, <1>3, <2>1
    <3>2. mem'[b] = mem[b]
      BY <1>3, <1>9, <3>1
    <3> QED BY <1>3, <1>4, <3>1, <3>2
  <2>2. CASE b = at
    BY <1>1, <1>3, <1>5, <1>8, <2>2
  <2>3. CASE b < at
    <3>1. mem'[b] = mem[b] /\ ~ (b >= at')
      BY <1>1, <1>3, <1>9, <2>3
    <3> QED BY <1>3, <1>4, <1>10, <2>3, <3>1
  <2> QED BY <1>1, <1>3, <2>1, <2>2, <2>3
<1>14. InSweep'
  <2>1. AtBlock'
    BY <1>1, <1>2, <1>3 DEF AtBlock, Known, End, EndOf
  <2>2. \A b \in Free(mem', c) : b < at' => b + mem'[b].w1 # at'
    <3> SUFFICES ASSUME NEW b \in Free(mem, c), b < at' PROVE b + mem[b].w1 < at'
      BY <1>1, <1>3, <1>9, <1>10 DEF Free
    <3>1. b \in c.block_starts /\ b # at
      BY <1>10 DEF Free
    <3> QED BY <1>1, <1>3, <3>1
  <2> QED BY <1>1, <1>2, <2>1, <2>2 DEF InSweep, Known, Free
<1> QED BY <1>1, <1>2, <1>7, <1>11, <1>12, <1>13, <1>14, SweepStep

(* What the sweep throws away is no object.                                *)
LEMMA NotMarked ==
    ASSUME IInv, pc = "sweep", Known(ci), MoreToSweep, ~ Marked
    PROVE  at + 1 \notin DOMAIN obj /\ \A p \in DOMAIN obj : p - 1 # at /\ p # at + 1
<1>1. at \in Nat /\ (IsMarked(mem[at]) <=> at + 1 \in DOMAIN obj)
  BY SweepBlockFacts
<1>2. IsFree(mem[at]) => at + 1 \notin DOMAIN obj
  <2>1. \A p \in DOMAIN obj : p \in Nat /\ ~ IsFree(mem[p - 1])
    BY InsideFacts DEF IInv
  <2>2. (at + 1) - 1 = at
    BY <1>1
  <2> QED BY <2>1, <2>2
<1>3. at + 1 \notin DOMAIN obj
  BY <1>1, <1>2 DEF Marked
<1>4. ASSUME NEW p \in DOMAIN obj PROVE p - 1 # at
  <2>1. p \in Nat
    BY InsideFacts DEF IInv
  <2> QED BY <1>1, <1>3, <2>1
<1> QED BY <1>3, <1>4

(* A block that is not marked is joined with the free block before it.     *)
LEMMA JoinBlockKeeps == ASSUME IInv, SweepBlock, ~ Marked, prev # NIL, JoinBlock PROVE IInv'
<1> DEFINE c == clusters[ci]
           s == mem[at].w1
           f == mem[prev].w1
           e == [c EXCEPT !.block_starts = @ \ {at}]
<1>1. /\ pc = "sweep" /\ pc' = "sweep" /\ Known(ci) /\ ci' = ci /\ MoreToSweep /\ at' = at + s
      /\ UNCHANGED <<roots, swept, call, work>>
  BY DEF SweepBlock, MoreToSweep
<1>2. clusters' = [clusters EXCEPT ![ci] = e] /\ prev' = prev
  BY DEF JoinBlock
<1>3. /\ ci \in DOMAIN clusters /\ End(ci) = EndOf(c) /\ c \in ClusterRec /\ EndOf(c) \in Nat
      /\ at \in c.block_starts
      /\ at \in Nat /\ s \in Nat /\ s >= 2 /\ s \in Sizes
      /\ at + s \in c.block_starts \cup {EndOf(c)}
      /\ \A b \in c.block_starts :
           /\ b \in Nat /\ b \in Addr /\ b \in Blocks(clusters)
           /\ mem[b].w1 \in Nat /\ mem[b].w1 >= 2
           /\ b < at + s <=> b <= at
           /\ b < at => b + mem[b].w1 <= at
  BY <1>1, SweepBlockFacts
<1>4. /\ \A b \in c.block_starts : b < at =>
           /\ ~ IsMarked(mem[b])
           /\ IsFree(mem[b]) \/ b + 1 \in DOMAIN obj
           /\ IsFree(mem[b]) => b + mem[b].w1 = at \/ b + mem[b].w1 \notin Free(mem, c)
      /\ \A b \in c.block_starts : b > at => (IsMarked(mem[b]) <=> b + 1 \in DOMAIN obj)
  BY <1>1, SweepBlockFacts
<1>5. /\ HeapInv /\ Geometry(mem, clusters) /\ Lists /\ Objects(mem, clusters, obj) /\ Position
      /\ Fresh(mem, clusters) /\ Rooted(mem, obj, stack, global)
  BY DEF IInv, HeapInv
<1>6. obj' = obj /\ stack' = stack /\ global' = global
  BY <1>1 DEF roots
<1>7. prev \in Free(mem, c) /\ prev < at /\ prev + f = at /\ prev \in c.block_starts /\ IsFree(mem[prev])
  BY <1>1, <1>5 DEF Position, InSweep, Free
<1>8. prev \in Nat /\ prev \in Addr /\ f \in Nat /\ f >= 2 /\ f \in Sizes /\ mem[prev] \in Cell
      /\ prev \in Spans(clusters) /\ prev >= c.base
  <2>1. \A a \in prev..(prev + f - 1) : a \in Spans(clusters)
    BY <1>3, <1>5, <1>7, BlockFacts
  <2> QED BY <1>3, <1>5, <1>7, <2>1, BlockFacts
<1>9. c.base \in Nat /\ EndOf(c) <= c.base + ClusterSize /\ ClusterSize \in Nat
  BY <1>3, <1>5, ClusterFacts, Constants DEF Geometry
<1>10. at + s <= EndOf(c)
  BY <1>3, <1>5, BlockFacts
<1>11. mem \in [Addr -> Cell]
  BY <1>5 DEF Geometry, Placed
<1>12. /\ mem' \in [Addr -> Cell]
       /\ \A a \in Addr : mem'[a].w0 = mem[a].w0 /\ (a # prev => mem'[a] = mem[a])
       /\ mem'[prev].w1 = f + s
  <2>1. mem' = [mem EXCEPT ![prev] = [mem[prev] EXCEPT !.w1 = f + s]]
    BY DEF JoinBlock
  <2>2. f + s \in 0..ClusterSize
    BY <1>3, <1>7, <1>8, <1>9, <1>10
  <2>3. /\ [mem[prev] EXCEPT !.w1 = f + s] \in Cell
        /\ [mem[prev] EXCEPT !.w1 = f + s].w0 = mem[prev].w0
        /\ [mem[prev] EXCEPT !.w1 = f + s].w1 = f + s
    BY <1>8, <2>2 DEF Cell
  <2> HIDE DEF f, s
  <2> DEFINE u == [mem[prev] EXCEPT !.w1 = f + s]
  <2>4. u \in Cell /\ u.w0 = mem[prev].w0 /\ u.w1 = f + s /\ mem' = [mem EXCEPT ![prev] = u]
    BY <2>1, <2>3
  <2> HIDE DEF u
  <2> QED BY <1>8, <1>11, <2>4
<1>13. /\ e \in ClusterRec /\ e.base = c.base /\ e.bump = c.bump /\ e.free_list = c.free_list
       /\ e.block_starts = c.block_starts \ {at} /\ EndOf(e) = EndOf(c)
  BY <1>3 DEF ClusterRec, EndOf
<1> HIDE DEF e
<1>14. /\ at + s \in e.block_starts \cup {EndOf(c)} /\ prev \in e.block_starts
       /\ \A b \in e.block_starts : b < at + s <=> b < at
  BY <1>3, <1>7, <1>8, <1>13
<1>15. Tiling(mem', e)
  <2>1. /\ c.bump > 0 => c.base \in c.block_starts
        /\ \A b \in c.block_starts :
             /\ b >= c.base /\ b < EndOf(c) /\ mem[b].w1 \in Sizes
             /\ b + mem[b].w1 \in c.block_starts \cup {EndOf(c)}
             /\ \A d \in c.block_starts \cup {EndOf(c)} : d > b => d >= b + mem[b].w1
    BY <1>3, <1>5 DEF Geometry, Tiling
  <2>2. c.base # at
    BY <1>3, <1>7, <1>8, <1>9
  <2>3. ASSUME NEW b \in e.block_starts
        PROVE  /\ b >= e.base /\ b < EndOf(e)
               /\ mem'[b].w1 >= MIN_BLOCK /\ mem'[b].w1 \in Sizes
               /\ b + mem'[b].w1 \in e.block_starts \cup {EndOf(e)}
               /\ \A d \in e.block_starts \cup {EndOf(e)} : d > b => d >= b + mem'[b].w1
    <3>1. b \in c.block_starts /\ b # at /\ b \in Nat /\ b \in Addr /\ mem[b].w1 \in Nat /\ mem[b].w1 >= 2
      BY <1>3, <1>13
    <3>2. b >= e.base /\ b < EndOf(e)
      BY <1>13, <2>1, <3>1
    <3>3. CASE b = prev
      <4>1. mem'[b].w1 = f + s /\ b + mem'[b].w1 = at + s
        BY <1>3, <1>7, <1>8, <1>12, <3>3
      <4>2. f + s >= MIN_BLOCK /\ (f + s) \in Sizes
        <5> HIDE DEF f, s
        <5>1. f \in Sizes /\ s \in Sizes /\ f \in Nat /\ s \in Nat /\ f >= 2
          BY <1>3, <1>8
        <5>2. (f + s) \in Sizes
          BY <5>1, SizesFacts, Zenon
        <5>3. f + s >= MIN_BLOCK
          BY <5>1 DEF MIN_BLOCK
        <5> QED BY <5>2, <5>3
      <4>3. ASSUME NEW d \in e.block_starts \cup {EndOf(e)}, d > b PROVE d >= at + s
        <5>1. d \in c.block_starts \cup {EndOf(c)} /\ d \in Nat /\ d # at
          BY <1>3, <1>10, <1>13
        <5>2. d >= at
          BY <1>3, <1>7, <2>1, <3>3, <4>3, <5>1
        <5>3. CASE d \in c.block_starts
          BY <1>3, <2>1, <5>1, <5>2, <5>3
        <5>4. CASE d = EndOf(c)
          BY <1>10, <5>4
        <5> QED BY <5>1, <5>3, <5>4
      <4> QED BY <1>13, <1>14, <3>2, <4>1, <4>2, <4>3
    <3>4. CASE b # prev
      <4>1. mem'[b] = mem[b]
        BY <1>12, <3>1, <3>4
      <4>2. b + mem[b].w1 # at
        <5>1. (b < prev => b + mem[b].w1 <= prev) /\ (prev < b => prev + f <= b)
          BY <1>3, <1>5, <1>7, <3>1, Apart
        <5> QED BY <1>3, <1>7, <1>8, <3>1, <3>4, <5>1
      <4>3. b + mem[b].w1 \in e.block_starts \cup {EndOf(e)}
        BY <1>13, <2>1, <3>1, <4>2
      <4>4. \A d \in e.block_starts \cup {EndOf(e)} : d > b => d >= b + mem[b].w1
        BY <1>13, <2>1, <3>1
      <4>5. mem[b].w1 >= MIN_BLOCK /\ mem[b].w1 \in Sizes
        BY <2>1, <3>1 DEF MIN_BLOCK
      <4> QED BY <3>2, <4>1, <4>3, <4>4, <4>5
    <3> QED BY <3>3, <3>4
  <2>4. e.bump > 0 => e.base \in e.block_starts
    BY <1>13, <2>1, <2>2
  <2> QED BY <2>3, <2>4 DEF Tiling
<1>16. ASSUME NEW i \in DOMAIN clusters, i # ci, NEW b \in clusters[i].block_starts
       PROVE  mem'[b] = mem[b] /\ mem'[b + 1].w0 = mem[b + 1].w0
  <2>1. b # prev /\ b \in Addr /\ b + 1 \in Addr
    <3>1. b # prev
      BY <1>3, <1>5, <1>7, <1>16, Apart
    <3> QED BY <1>5, <3>1, BlockFacts
  <2> QED BY <1>12, <2>1
<1>17. Geometry(mem', clusters')
  <2>1. \A i \in DOMAIN clusters : i # ci => \A b \in clusters[i].block_starts : mem'[b].w1 = mem[b].w1
    BY <1>16
  <2>2. e \in ClusterRec /\ e.base = clusters[ci].base /\ ci \in DOMAIN clusters
    BY <1>3, <1>13
  <2> HIDE DEF c, f, s
  <2> QED BY <1>2, <1>5, <1>12, <1>15, <2>1, <2>2, GeometryUpdate
<1>18. /\ Len(clusters') = Len(clusters) /\ DOMAIN clusters' = DOMAIN clusters
       /\ clusters'[ci] = e /\ \A j \in DOMAIN clusters : j # ci => clusters'[j] = clusters[j]
       /\ \A b \in Blocks(clusters) : (b \in c.block_starts => b \in e.block_starts) => b \in Blocks(clusters')
       /\ Spans(clusters) \subseteq Spans(clusters')
  <2>1. clusters \in Seq(ClusterRec)
    BY <1>5 DEF Geometry, Placed
  <2>2. e.base = c.base /\ e.bump >= c.bump
    BY <1>3, <1>13, Constants DEF ClusterRec
  <2>3. /\ Len(clusters') = Len(clusters) /\ DOMAIN clusters' = DOMAIN clusters
        /\ clusters'[ci] = e /\ \A j \in DOMAIN clusters : j # ci => clusters'[j] = clusters[j]
    BY <1>2, <1>3, <1>13, <2>1, ClusterUpdate
  <2>4. Spans(clusters) \subseteq Spans(clusters')
    BY <1>3, <1>13, <2>1, <2>2, <2>3, SpansUpdate
  <2>5. \A b \in Blocks(clusters) : (b \in c.block_starts => b \in e.block_starts) => b \in Blocks(clusters')
    BY <1>2, <1>3, <1>13, <2>1, ClusterUpdate
  <2> QED BY <2>3, <2>4, <2>5
<1>19. Fresh(mem', clusters')
  BY <1>5, <1>8, <1>12, <1>18 DEF Fresh
<1>20. ASSUME NEW p \in DOMAIN obj
       PROVE  /\ p - 1 \in Blocks(clusters')
              /\ TypeOf(mem'[p - 1]) = TypeOf(mem[p - 1])
              /\ mem'[p - 1].w1 = mem[p - 1].w1 /\ mem'[p].w0 = mem[p].w0
  <2>1. p - 1 \in Blocks(clusters) /\ ~ IsFree(mem[p - 1]) /\ p \in Addr /\ p - 1 \in Addr
    BY <1>5, InsideFacts
  <2>2. p - 1 # at /\ p - 1 # prev
    BY <1>1, <1>7, <2>1, NotMarked
  <2> QED BY <1>12, <1>13, <1>18, <2>1, <2>2 DEF TypeOf
<1>21. Objects(mem', clusters', obj) /\ Rooted(mem', obj, stack, global)
  BY <1>5, <1>20, ObjectsFrame, RootedFrame
<1>22. HeapInv'
  BY <1>6, <1>17, <1>19, <1>21 DEF HeapInv
<1>23. \A b \in c.block_starts : /\ IsFree(mem'[b]) <=> IsFree(mem[b])
                                 /\ IsMarked(mem'[b]) <=> IsMarked(mem[b])
                                 /\ mem'[b + 1].w0 = mem[b + 1].w0
                                 /\ b # prev => mem'[b] = mem[b]
  <2> SUFFICES ASSUME NEW b \in c.block_starts
      PROVE  /\ mem'[b].w0 = mem[b].w0 /\ mem'[b + 1].w0 = mem[b + 1].w0
             /\ b # prev => mem'[b] = mem[b]
    BY DEF IsFree, IsMarked
  <2>1. b \in Addr /\ b + 1 \in Addr
    BY <1>3, <1>5, BlockFacts
  <2> QED BY <1>12, <2>1
<1>24. \E r : Listed(mem', e.free_list, {b \in e.block_starts : IsFree(mem'[b]) /\ b < at'}, r)
  <2>1. {b \in e.block_starts : IsFree(mem'[b]) /\ b < at'} = OnList(ci)
    <3>1. ASSUME NEW b \in c.block_starts
          PROVE  b \in e.block_starts /\ IsFree(mem'[b]) /\ b < at' <=> IsFree(mem[b]) /\ ~ (b >= at)
      BY <1>1, <1>3, <1>13, <1>23
    <3>2. e.block_starts \subseteq c.block_starts
      BY <1>13
    <3> QED BY <1>1, <3>1, <3>2 DEF OnList, Free
  <2>2. PICK r : Listed(mem, c.free_list, OnList(ci), r)
    BY <1>3, <1>5 DEF Lists
  <2>3. \A b \in OnList(ci) : mem'[b + 1].w0 = mem[b + 1].w0
    BY <1>23 DEF OnList, Free
  <2>4. Listed(mem', c.free_list, OnList(ci), r)
    BY <2>2, <2>3, ListFrame
  <2> QED BY <1>13, <2>1, <2>4
<1>25. ASSUME NEW b \in e.block_starts
       PROVE  /\ b \in Nat
              /\ b >= at' => (IsMarked(mem'[b]) <=> b + 1 \in DOMAIN obj)
              /\ b < at' =>
                   /\ ~ IsMarked(mem'[b])
                   /\ IsFree(mem'[b]) \/ b + 1 \in DOMAIN obj
                   /\ IsFree(mem'[b]) /\ b + mem'[b].w1 \in Free(mem', e)
                        => b + mem'[b].w1 >= at'
  <2>1. b \in c.block_starts /\ b # at /\ b \in Nat
    BY <1>3, <1>13
  <2>2. CASE b >= at'
    <3>1. b > at /\ ~ (b < at')
      BY <1>1, <1>3, <2>1, <2>2
    <3> QED BY <1>4, <1>23, <2>1, <3>1
  <2>3. CASE b < at'
    <3>1. b < at /\ ~ (b >= at')
      BY <1>1, <1>3, <2>1, <2>3
    <3>2. ASSUME IsFree(mem'[b]), b + mem'[b].w1 \in Free(mem', e) PROVE b + mem'[b].w1 >= at'
      <4>1. CASE b = prev
        BY <1>1, <1>3, <1>7, <1>8, <1>12, <4>1
      <4>2. CASE b # prev
        <5>1. b + mem[b].w1 \in Free(mem, c) /\ b + mem[b].w1 # at /\ IsFree(mem[b])
          BY <1>13, <1>23, <2>1, <3>2, <4>2 DEF Free
        <5> QED BY <1>4, <2>1, <3>1, <5>1
      <4> QED BY <4>1, <4>2
    <3> QED BY <1>4, <1>23, <2>1, <3>1, <3>2
  <2> QED BY <1>1, <1>3, <2>1, <2>2, <2>3
<1>26. InSweep'
  <2>1. AtBlock'
    BY <1>1, <1>13, <1>14, <1>18 DEF AtBlock, Known, End, EndOf
  <2>2. prev \in Free(mem', e)
    BY <1>7, <1>14, <1>23 DEF Free
  <2>3. prev < at' /\ prev + mem'[prev].w1 = at'
    BY <1>1, <1>3, <1>7, <1>8, <1>12
  <2> QED BY <1>1, <1>2, <1>18, <2>1, <2>2, <2>3 DEF InSweep, Known, Free
<1>27. prev' \in Addr \cup {NIL}
  BY <1>2, <1>8
<1> QED BY <1>1, <1>16, <1>18, <1>22, <1>24, <1>25, <1>26, <1>27, SweepStep

(* Any other becomes the head of the free list.                            *)
LEMMA FreeBlockKeeps == ASSUME IInv, SweepBlock, ~ Marked, prev = NIL, FreeBlock PROVE IInv'
<1> DEFINE c == clusters[ci]
           s == mem[at].w1
           e == [c EXCEPT !.free_list = at]
<1>1. /\ pc = "sweep" /\ pc' = "sweep" /\ Known(ci) /\ ci' = ci /\ MoreToSweep /\ at' = at + s
      /\ UNCHANGED <<roots, swept, call, work>>
  BY DEF SweepBlock, MoreToSweep
<1>2. clusters' = [clusters EXCEPT ![ci] = e] /\ prev' = at
  BY DEF FreeBlock
<1>3. /\ ci \in DOMAIN clusters /\ End(ci) = EndOf(c) /\ c \in ClusterRec /\ EndOf(c) \in Nat
      /\ at \in c.block_starts /\ at \in Blocks(clusters)
      /\ at \in Nat /\ at >= 1 /\ at \in Addr /\ at + 1 \in Addr /\ mem[at] \in Cell
      /\ s \in Nat /\ s >= 2
      /\ at + s \in c.block_starts \cup {EndOf(c)}
      /\ \A b \in c.block_starts :
           /\ b \in Nat /\ b \in Addr /\ b \in Blocks(clusters)
           /\ mem[b].w1 \in Nat /\ mem[b].w1 >= 2
           /\ b < at + s <=> b <= at
           /\ b < at => b + mem[b].w1 <= at
  BY <1>1, SweepBlockFacts
<1>4. /\ \A b \in c.block_starts : b < at =>
           /\ ~ IsMarked(mem[b])
           /\ IsFree(mem[b]) \/ b + 1 \in DOMAIN obj
           /\ IsFree(mem[b]) => b + mem[b].w1 = at \/ b + mem[b].w1 \notin Free(mem, c)
      /\ \A b \in c.block_starts : b > at => (IsMarked(mem[b]) <=> b + 1 \in DOMAIN obj)
  BY <1>1, SweepBlockFacts
<1>5. /\ HeapInv /\ Geometry(mem, clusters) /\ Lists /\ Objects(mem, clusters, obj) /\ Position
      /\ Fresh(mem, clusters) /\ Rooted(mem, obj, stack, global)
  BY DEF IInv, HeapInv
<1>6. obj' = obj /\ stack' = stack /\ global' = global
  BY <1>1 DEF roots
<1>7. \A b \in Free(mem, c) : b < at => b + mem[b].w1 # at
  BY <1>1, <1>5 DEF Position, InSweep
<1>8. /\ e \in ClusterRec /\ e.base = c.base /\ e.bump = c.bump /\ e.free_list = at
      /\ e.block_starts = c.block_starts /\ EndOf(e) = EndOf(c) /\ c.free_list \in Nat
  BY <1>3 DEF ClusterRec, EndOf
<1> HIDE DEF e
<1>9. mem \in [Addr -> Cell]
  BY <1>5 DEF Geometry, Placed
<1>10. /\ mem' \in [Addr -> Cell]
       /\ \A a \in Addr : mem'[a].w1 = mem[a].w1 /\ (a # at /\ a # at + 1 => mem'[a] = mem[a])
       /\ mem'[at].w0 = 0 /\ mem'[at + 1].w0 = c.free_list
  <2> DEFINE u == [mem[at] EXCEPT !.w0 = 0]
             v == [mem[at + 1] EXCEPT !.w0 = c.free_list]
  <2>1. at # at + 1
    BY <1>3
  <2>2. mem' = [mem EXCEPT ![at] = u, ![at + 1] = v]
    BY <2>1 DEF FreeBlock
  <2>3. /\ u \in Cell /\ u.w0 = 0 /\ u.w1 = mem[at].w1
        /\ v \in Cell /\ v.w0 = c.free_list /\ v.w1 = mem[at + 1].w1
    <3>1. mem[at] \in Cell /\ mem[at + 1] \in Cell
      BY <1>3, <1>9
    <3> QED BY <1>8, <3>1 DEF Cell
  <2> HIDE DEF u, v
  <2> QED BY <1>3, <1>9, <2>1, <2>2, <2>3
<1>11. \A b \in Blocks(clusters) : b # at =>
          b \in Addr /\ b + 1 \in Addr /\ mem'[b] = mem[b] /\ mem'[b + 1] = mem[b + 1]
  <2> SUFFICES ASSUME NEW b \in Blocks(clusters), b # at
      PROVE  b \in Addr /\ b + 1 \in Addr /\ mem'[b] = mem[b] /\ mem'[b + 1] = mem[b + 1]
    OBVIOUS
  <2>1. b \in Nat /\ b \in Addr /\ b + 1 \in Addr /\ b + 1 # at /\ at + 1 # b
    BY <1>3, <1>5, BlocksApart
  <2> QED BY <1>3, <1>10, <2>1
<1>12. ASSUME NEW i \in DOMAIN clusters, i # ci, NEW b \in clusters[i].block_starts
       PROVE  mem'[b] = mem[b] /\ mem'[b + 1].w0 = mem[b + 1].w0
  <2>1. b # at
    BY <1>3, <1>5, <1>12, Apart
  <2> QED BY <1>11, <2>1 DEF Blocks
<1>13. Tiling(mem', e)
  <2>1. Tiling(mem, c)
    BY <1>3, <1>5 DEF Geometry
  <2>2. \A b \in c.block_starts : mem'[b].w1 = mem[b].w1
    BY <1>3, <1>10
  <2> QED BY <1>8, <2>1, <2>2 DEF Tiling
<1>14. Geometry(mem', clusters')
  <2>1. \A i \in DOMAIN clusters : i # ci => \A b \in clusters[i].block_starts : mem'[b].w1 = mem[b].w1
    BY <1>12
  <2> QED BY <1>2, <1>3, <1>5, <1>8, <1>10, <1>13, <2>1, GeometryUpdate
<1>15. /\ Len(clusters') = Len(clusters) /\ DOMAIN clusters' = DOMAIN clusters
       /\ clusters'[ci] = e /\ \A j \in DOMAIN clusters : j # ci => clusters'[j] = clusters[j]
       /\ \A b \in Blocks(clusters) : b \in Blocks(clusters')
       /\ Spans(clusters) \subseteq Spans(clusters')
  <2>1. clusters \in Seq(ClusterRec)
    BY <1>5 DEF Geometry, Placed
  <2>2. e.base = c.base /\ e.bump >= c.bump
    BY <1>3, <1>8, Constants DEF ClusterRec
  <2>3. /\ Len(clusters') = Len(clusters) /\ DOMAIN clusters' = DOMAIN clusters
        /\ clusters'[ci] = e /\ \A j \in DOMAIN clusters : j # ci => clusters'[j] = clusters[j]
    BY <1>2, <1>3, <1>8, <2>1, ClusterUpdate
  <2>4. Spans(clusters) \subseteq Spans(clusters')
    BY <1>3, <1>8, <2>1, <2>2, <2>3, SpansUpdate
  <2>5. \A b \in Blocks(clusters) : (b \in c.block_starts => b \in e.block_starts) => b \in Blocks(clusters')
    BY <1>2, <1>3, <1>8, <2>1, ClusterUpdate
  <2> QED BY <1>8, <2>3, <2>4, <2>5
<1>16. Fresh(mem', clusters')
  <2>1. at \in Spans(clusters) /\ at + 1 \in Spans(clusters)
    <3>1. \A a \in at..(at + s - 1) : a \in Spans(clusters)
      BY <1>3, <1>5, BlockFacts
    <3> QED BY <1>3, <3>1
  <2> QED BY <1>5, <1>10, <1>15, <2>1 DEF Fresh
<1>17. ASSUME NEW p \in DOMAIN obj
       PROVE  /\ p - 1 \in Blocks(clusters')
              /\ TypeOf(mem'[p - 1]) = TypeOf(mem[p - 1])
              /\ mem'[p - 1].w1 = mem[p - 1].w1 /\ mem'[p].w0 = mem[p].w0
  <2>1. p - 1 \in Blocks(clusters) /\ p \in Nat
    BY <1>5, InsideFacts
  <2>2. p - 1 # at /\ (p - 1) + 1 = p
    BY <1>1, <2>1, NotMarked
  <2> QED BY <1>11, <1>15, <2>1, <2>2
<1>18. Objects(mem', clusters', obj) /\ Rooted(mem', obj, stack, global)
  BY <1>5, <1>17, ObjectsFrame, RootedFrame
<1>19. HeapInv'
  BY <1>6, <1>14, <1>16, <1>18 DEF HeapInv
<1>20. IsFree(mem'[at]) /\ ~ IsMarked(mem'[at])
  BY <1>10, Tags DEF IsFree, IsMarked
<1>21. \A b \in c.block_starts : b # at => mem'[b] = mem[b] /\ mem'[b + 1] = mem[b + 1]
  BY <1>3, <1>11
<1>22. \E r : Listed(mem', e.free_list, {b \in e.block_starts : IsFree(mem'[b]) /\ b < at'}, r)
  <2>1. {b \in e.block_starts : IsFree(mem'[b]) /\ b < at'} = OnList(ci) \cup {at}
    <3>1. ASSUME NEW b \in c.block_starts
          PROVE  IsFree(mem'[b]) /\ b < at' <=> (IsFree(mem[b]) /\ ~ (b >= at)) \/ b = at
      <4>1. CASE b = at
        BY <1>1, <1>3, <1>20, <4>1
      <4>2. CASE b # at
        BY <1>1, <1>3, <1>21, <4>2
      <4> QED BY <4>1, <4>2
    <3> QED BY <1>1, <1>3, <1>8, <3>1 DEF OnList, Free
  <2>2. PICK r : Listed(mem, c.free_list, OnList(ci), r)
    BY <1>3, <1>5 DEF Lists
  <2>3. at \notin OnList(ci) /\ OnList(ci) \subseteq c.block_starts
    BY <1>1, <1>3 DEF OnList, Free
  <2>4. at # NIL /\ NIL \notin OnList(ci)
    <3>1. \A b \in c.block_starts : b # NIL
      BY <1>3, <1>5, BlockFacts DEF NIL
    <3> QED BY <1>3, <2>3, <3>1
  <2>5. \A b \in OnList(ci) : mem'[b + 1].w0 = mem[b + 1].w0
    BY <1>21, <2>3
  <2>6. \E r1 : Listed(mem', at, OnList(ci) \cup {at}, r1)
    BY <1>10, <2>2, <2>3, <2>4, <2>5, ListInsert
  <2> QED BY <1>8, <2>1, <2>6
<1>23. ASSUME NEW b \in e.block_starts
       PROVE  /\ b \in Nat
              /\ b >= at' => (IsMarked(mem'[b]) <=> b + 1 \in DOMAIN obj)
              /\ b < at' =>
                   /\ ~ IsMarked(mem'[b])
                   /\ IsFree(mem'[b]) \/ b + 1 \in DOMAIN obj
                   /\ IsFree(mem'[b]) /\ b + mem'[b].w1 \in Free(mem', e)
                        => b + mem'[b].w1 >= at'
  <2>1. b \in c.block_starts /\ b \in Nat
    BY <1>3, <1>8
  <2>2. CASE b >= at'
    <3>1. b > at /\ ~ (b < at')
      BY <1>1, <1>3, <2>1, <2>2
    <3> QED BY <1>3, <1>4, <1>21, <2>1, <3>1
  <2>3. CASE b = at
    BY <1>1, <1>3, <1>10, <1>20, <2>3
  <2>4. CASE b < at
    <3>1. mem'[b] = mem[b] /\ ~ (b >= at')
      BY <1>1, <1>3, <1>21, <2>1, <2>4
    <3>2. ~ (IsFree(mem[b]) /\ b + mem[b].w1 \in Free(mem', e))
      <4> SUFFICES ASSUME IsFree(mem[b]), b + mem[b].w1 \in Free(mem', e) PROVE FALSE
        OBVIOUS
      <4>1. b + mem[b].w1 # at
        BY <1>7, <2>1, <2>4 DEF Free
      <4>2. b + mem[b].w1 \in Free(mem, c)
        BY <1>8, <1>21, <4>1 DEF Free
      <4> QED BY <1>4, <2>1, <2>4, <4>1, <4>2
    <3> QED BY <1>4, <2>1, <2>4, <3>1, <3>2
  <2> QED BY <1>1, <1>3, <2>1, <2>2, <2>3, <2>4
<1>24. InSweep'
  <2>1. AtBlock'
    BY <1>1, <1>3, <1>8, <1>15 DEF AtBlock, Known, End, EndOf
  <2>2. at \in Free(mem', e) /\ at < at' /\ at + mem'[at].w1 = at' /\ at # NIL
    BY <1>1, <1>3, <1>8, <1>10, <1>20 DEF Free, NIL
  <2> QED BY <1>1, <1>2, <1>15, <2>1, <2>2 DEF InSweep, Known, Free
<1>25. prev' \in Addr \cup {NIL}
  BY <1>2, <1>3
<1> QED BY <1>1, <1>12, <1>15, <1>19, <1>22, <1>23, <1>24, <1>25, SweepStep

(* A step of the sweep.                                                    *)
LEMMA SweepBlockKeeps == ASSUME IInv, SweepBlock PROVE IInv'
BY KeepBlockKeeps, JoinBlockKeeps, FreeBlockKeeps DEF SweepBlock, Dispose

-----------------------------------------------------------------------------
(* Allocating.                                                             *)

(* The system gives a cluster, which has no block.                         *)
LEMMA GrowKeeps == ASSUME IInv, Grow PROVE IInv'
<1> DEFINE k == Len(clusters) + 1
           e == [base |-> Len(clusters) * ClusterSize + 1, bump |-> 0,
                 free_list |-> NIL, block_starts |-> {}]
<1>1. /\ pc = "search" /\ pc' = "search" /\ ~ Known(ci) /\ Len(clusters) < MaxClusters
      /\ clusters' = Append(clusters, e) /\ mem' = mem /\ UNCHANGED <<roots, swept, loop, call, work>>
  BY DEF Grow
<1>2. /\ Geometry(mem, clusters) /\ Lists /\ Fresh(mem, clusters)
      /\ Objects(mem, clusters, obj) /\ Rooted(mem, obj, stack, global)
      /\ Marks /\ Position /\ InSearch
  BY <1>1 DEF IInv, Position
<1>3. /\ clusters \in Seq(ClusterRec) /\ DOMAIN clusters = 1..Len(clusters) /\ Len(clusters) \in Nat
      /\ ClusterSize \in Nat /\ MaxClusters \in Nat
  BY <1>2, ClusterCount, Constants DEF Geometry, Placed
<1>4. e \in ClusterRec
  <2>1. \A n, z \in Nat : n * z + 1 \in Nat
    OBVIOUS
  <2>2. Len(clusters) * ClusterSize + 1 \in Nat /\ 0 \in 0..ClusterSize /\ {} \in SUBSET Nat
    BY <1>3, <2>1
  <2> QED BY <2>2 DEF ClusterRec, NIL
<1>5. /\ e.base = (k - 1) * ClusterSize + 1 /\ e.bump = 0 /\ e.free_list = NIL /\ e.block_starts = {}
      /\ k - 1 = Len(clusters)
  BY <1>3
<1> HIDE DEF e
<1>6. /\ clusters' \in Seq(ClusterRec) /\ Len(clusters') = k /\ clusters'[k] = e
      /\ \A i \in DOMAIN clusters : clusters'[i] = clusters[i]
  BY <1>1, <1>3, <1>4, AppendProperties
<1>7. DOMAIN clusters' = DOMAIN clusters \cup {k} /\ k \notin DOMAIN clusters
  <2>1. DOMAIN clusters' = 1..k
    BY <1>6, LenProperties
  <2> QED BY <1>3, <2>1
<1>8. obj' = obj /\ stack' = stack /\ global' = global
  BY <1>1 DEF roots
<1>9. Geometry(mem, clusters')
  <2>1. k <= MaxClusters
    BY <1>1, <1>3
  <2>2. Placed(mem, clusters')
    BY <1>2, <1>5, <1>6, <1>7, <2>1 DEF Geometry, Placed
  <2>3. Tiling(mem, e)
    BY <1>5 DEF Tiling
  <2> QED BY <1>2, <1>6, <1>7, <2>2, <2>3 DEF Geometry
<1>10. Blocks(clusters') = Blocks(clusters)
  BY <1>5, <1>6, <1>7 DEF Blocks
<1>11. Spans(clusters) \subseteq Spans(clusters')
  BY <1>6, <1>7 DEF Spans
<1>12. HeapInv'
  <2>1. Fresh(mem, clusters')
    BY <1>2, <1>11 DEF Fresh
  <2>2. Objects(mem, clusters', obj)
    BY <1>2, <1>10 DEF Objects
  <2> QED BY <1>1, <1>2, <1>8, <1>9, <2>1, <2>2 DEF HeapInv
<1>13. /\ \A i : i = k => OnList(i)' = {}
       /\ \A i \in DOMAIN clusters : OnList(i)' = OnList(i)
  BY <1>1, <1>5, <1>6 DEF OnList, Free
<1>14. Lists'
  <2> SUFFICES ASSUME NEW i \in DOMAIN clusters \cup {k}
      PROVE  \E r : Listed(mem, clusters'[i].free_list, OnList(i)', r)
    BY <1>1, <1>7 DEF Lists
  <2>1. CASE i = k
    BY <1>5, <1>6, <1>13, <2>1, ListEmpty
  <2>2. CASE i \in DOMAIN clusters
    BY <1>2, <1>6, <1>13, <2>2 DEF Lists
  <2> QED BY <2>1, <2>2
<1>15. Marks'
  <2>1. CollectsAllGarbage'
    <3>1. swept' = swept /\ CollectsAllGarbage
      BY <1>1, <1>2 DEF Marks
    <3> QED BY <1>1, <1>5, <1>6, <1>7, <1>8, <3>1 DEF CollectsAllGarbage
  <2> QED BY <1>1, <1>2, <1>10, <2>1 DEF Marks
<1>16. Position'
  <2>1. ci = k /\ at = NIL /\ prev = NIL
    BY <1>1, <1>2, <1>3 DEF Position, InSearch, Known
  <2>2. ci' = ci /\ at' = at /\ prev' = prev /\ want' = want /\ back' = back
    BY <1>1 DEF loop, call
  <2>3. InSearch'
    BY <1>1, <1>2, <1>5, <1>6, <2>1, <2>2 DEF InSearch
  <2> QED BY <1>1, <1>2, <1>3, <1>6, <2>1, <2>2, <2>3 DEF Position, Known
<1> QED BY <1>12, <1>14, <1>15, <1>16 DEF IInv, HeapInv

(* The program gets block d, and cluster ci becomes e.                     *)
LEMMA Given ==
    ASSUME IInv, pc = "search", Known(ci), NEW d \in Nat, NEW e \in ClusterRec,
           e.base = clusters[ci].base, clusters' = [clusters EXCEPT ![ci] = e],
           mem' \in [Addr -> Cell], Tiling(mem', e), Fresh(mem', clusters'),
           clusters[ci].block_starts \subseteq e.block_starts, d \in e.block_starts,
           d + 1 \notin DOMAIN obj,
           mem'[d].w0 = 2 * want, mem'[d].w1 = Units, mem'[d + 1].w0 = NIL,
           \A b \in Blocks(clusters) : b # d => mem'[b] = mem[b],
           \A q \in DOMAIN obj : mem'[q].w0 = mem[q].w0,
           \A i \in DOMAIN clusters : i # ci =>
              d \notin clusters[i].block_starts
              /\ \A b \in Free(mem, clusters[i]) : mem'[b + 1].w0 = mem[b + 1].w0,
           \A b \in e.block_starts : ~ IsMarked(mem'[b]),
           \E r : Listed(mem', e.free_list, Free(mem', e), r),
           stack' = stack \cup {d + 1}, global' = global, swept' = FALSE, work' = work, Return,
           obj' = Trim(mem', [q \in DOMAIN obj \cup {d + 1} |-> IF q = d + 1 THEN want ELSE obj[q]],
                       stack' \cup {global})
    PROVE  IInv'
<1> DEFINE p == d + 1
           o == [q \in DOMAIN obj \cup {p} |-> IF q = p THEN want ELSE obj[q]]
<1>1. /\ Geometry(mem, clusters) /\ Lists /\ Objects(mem, clusters, obj)
      /\ Rooted(mem, obj, stack, global) /\ Marks /\ Position /\ InSearch
      /\ ci \in DOMAIN clusters /\ clusters \in Seq(ClusterRec)
  BY DEF IInv, Position, Known, Geometry, Placed
<1>2. /\ Len(clusters') = Len(clusters) /\ DOMAIN clusters' = DOMAIN clusters
      /\ clusters'[ci] = e /\ \A j \in DOMAIN clusters : j # ci => clusters'[j] = clusters[j]
  BY <1>1, ClusterUpdate
<1>3. \A b \in Blocks(clusters') : b \in e.block_starts \/ b \in Blocks(clusters)
  <2> SUFFICES ASSUME NEW i \in DOMAIN clusters, NEW b \in clusters'[i].block_starts
      PROVE  b \in e.block_starts \/ b \in clusters[i].block_starts
    BY <1>2 DEF Blocks
  <2> QED BY <1>2
<1>4. Blocks(clusters) \subseteq Blocks(clusters') /\ d \in Blocks(clusters')
  <2>1. \A i \in DOMAIN clusters : clusters[i].block_starts \subseteq clusters'[i].block_starts
    BY <1>2
  <2>2. d \in clusters'[ci].block_starts
    BY <1>2
  <2> QED BY <1>1, <1>2, <2>1, <2>2 DEF Blocks
<1>5. \A i \in DOMAIN clusters : i # ci => \A b \in clusters[i].block_starts : b \in Blocks(clusters) /\ mem'[b] = mem[b]
  BY DEF Blocks
<1>6. Geometry(mem', clusters')
  <2>1. \A i \in DOMAIN clusters : i # ci => \A b \in clusters[i].block_starts : mem'[b].w1 = mem[b].w1
    BY <1>5
  <2> QED BY <1>1, <2>1, GeometryUpdate
<1>7. /\ DOMAIN o = DOMAIN obj \cup {p} /\ p \notin DOMAIN obj /\ o[p] = want
      /\ \A q \in DOMAIN obj : o[q] = obj[q]
  OBVIOUS
<1>8. obj' = Trim(mem', o, stack' \cup {global})
  OBVIOUS
<1> HIDE DEF o
<1>9. want \in DOMAIN Type /\ want \in Nat /\ Type[want].units \in Nat /\ Type[want].units >= 2
  BY <1>1, Constants DEF InSearch
<1>10. Objects(mem', clusters', o)
  <2> SUFFICES ASSUME NEW q \in DOMAIN o
      PROVE  /\ q \in Nat /\ q - 1 \in Blocks(clusters') /\ o[q] \in DOMAIN Type
             /\ TypeOf(mem'[q - 1]) = o[q] /\ mem'[q - 1].w1 = Type[o[q]].units
             /\ Type[o[q]].ptr => mem'[q].w0 \in DOMAIN o \cup {NIL}
    BY DEF Objects
  <2>1. CASE q = p
    <3>1. q \in Nat /\ q - 1 = d
      BY <2>1
    <3>2. TypeOf(mem'[d]) = want
      BY <1>9, Tags DEF TypeOf
    <3> QED BY <1>4, <1>7, <1>9, <2>1, <3>1, <3>2 DEF Units
  <2>2. CASE q # p
    <3>1. /\ q \in DOMAIN obj /\ q \in Nat /\ q - 1 \in Blocks(clusters) /\ obj[q] \in DOMAIN Type
          /\ TypeOf(mem[q - 1]) = obj[q] /\ mem[q - 1].w1 = Type[obj[q]].units
          /\ Type[obj[q]].ptr => mem[q].w0 \in DOMAIN obj \cup {NIL}
      BY <1>1, <1>7, <2>2 DEF Objects
    <3>2. q - 1 # d
      BY <2>2, <3>1
    <3>3. mem'[q - 1] = mem[q - 1] /\ mem'[q].w0 = mem[q].w0 /\ o[q] = obj[q]
      BY <1>7, <3>1, <3>2
    <3> QED BY <1>4, <1>7, <3>1, <3>3
  <2> QED BY <2>1, <2>2
<1>11. \A w \in stack' : Inside(o, w) # {}
  <2>1. \A w : Inside(obj, w) \subseteq Inside(o, w)
    BY <1>7 DEF Inside
  <2>2. ASSUME NEW w \in stack PROVE Inside(o, w) # {}
    BY <1>1, <2>1 DEF Rooted
  <2>3. Inside(o, p) = {p}
    BY <1>6, <1>7, <1>10, InsideFacts
  <2> QED BY <2>2, <2>3
<1>12. global \in DOMAIN o \cup {NIL}
  BY <1>1, <1>7 DEF Rooted
<1>13. Objects(mem', clusters', obj') /\ Rooted(mem', obj', stack', global)
  <2>1. LET t == Trim(mem', o, stack' \cup {global}) IN
        Objects(mem', clusters', t) /\ Rooted(mem', t, stack', global)
    BY <1>6, <1>10, <1>11, <1>12, TrimFacts
  <2> QED BY <1>8, <2>1
<1>14. HeapInv'
  BY <1>6, <1>13 DEF HeapInv
<1>15. pc' = "run" /\ want' = 0 /\ back' = "run" /\ ci' = 0 /\ at' = NIL /\ prev' = NIL
  BY DEF Return
<1>16. Lists'
  <2> SUFFICES ASSUME NEW i \in DOMAIN clusters
      PROVE  \E r : Listed(mem', clusters'[i].free_list, OnList(i)', r)
    BY <1>2 DEF Lists
  <2>1. OnList(i)' = Free(mem', clusters'[i]) /\ OnList(i) = Free(mem, clusters[i])
    BY <1>15 DEF OnList, Free
  <2>2. CASE i = ci
    BY <1>2, <2>1, <2>2
  <2>3. CASE i # ci
    <3>1. Free(mem', clusters'[i]) = Free(mem, clusters[i])
      BY <1>2, <1>5, <2>3 DEF Free
    <3>2. PICK r : Listed(mem, clusters[i].free_list, Free(mem, clusters[i]), r)
      BY <1>1, <2>1 DEF Lists
    <3>3. Listed(mem', clusters[i].free_list, Free(mem, clusters[i]), r)
      BY <2>3, <3>2, ListFrame
    <3> QED BY <1>2, <2>1, <2>3, <3>1, <3>3
  <2> QED BY <2>2, <2>3
<1>17. \A b \in Blocks(clusters') : ~ IsMarked(mem'[b])
  <2>1. \A b \in Blocks(clusters) : ~ IsMarked(mem[b])
    BY <1>1 DEF Marks
  <2> QED BY <1>3, <2>1
<1>18. Marks'
  <2>1. CollectsAllGarbage'
    BY DEF CollectsAllGarbage
  <2> QED BY <1>1, <1>15, <1>17, <2>1 DEF Marks
<1>19. Position'
  <2>1. DOMAIN clusters = 1..Len(clusters) /\ Len(clusters) \in Nat
    BY <1>1, ClusterCount
  <2> QED BY <1>2, <1>15, <2>1 DEF Position, Known
<1> QED BY <1>14, <1>16, <1>18, <1>19 DEF IInv, HeapInv

(* The tail of a cluster is memory of no block.                            *)
LEMMA TailFacts ==
    ASSUME NEW m, NEW cs, Geometry(m, cs), NEW i \in DOMAIN cs, NEW u \in Nat,
           u >= 2, cs[i].bump + u <= ClusterSize
    PROVE  LET d == EndOf(cs[i]) IN
           \A a \in d..(d + u - 1) : a \in Addr /\ a \notin Spans(cs)
<1> DEFINE d == EndOf(cs[i])
<1>1. Placed(m, cs) /\ ClusterSize \in Nat /\ MaxClusters \in Nat
  BY Constants DEF Geometry
<1>2. /\ i \in Nat /\ cs[i].base \in Nat /\ cs[i].bump \in Nat /\ cs[i].base >= 1
      /\ d \in Nat /\ d = cs[i].base + cs[i].bump
  BY <1>1, ClusterFacts DEF EndOf
<1>3. cs[i].base - 1 + ClusterSize <= ClusterSize * MaxClusters
  <2>1. i - 1 \in Nat /\ i - 1 < MaxClusters
    <3>1. i \in 1..Len(cs) /\ Len(cs) \in Nat
      BY <1>1, ClusterFacts
    <3>2. Len(cs) <= MaxClusters
      BY <1>1 DEF Placed
    <3> QED BY <1>1, <3>1, <3>2
  <2>2. (i - 1) * ClusterSize \in Nat /\ (i - 1) * ClusterSize + ClusterSize <= MaxClusters * ClusterSize
    BY <1>1, <2>1, Multiples
  <2>3. cs[i].base = (i - 1) * ClusterSize + 1
    BY <1>1 DEF Placed
  <2>4. MaxClusters * ClusterSize = ClusterSize * MaxClusters /\ ClusterSize * MaxClusters \in Nat
    BY <1>1
  <2> QED BY <1>1, <1>2, <2>2, <2>3, <2>4
<1>4. ClusterSize * MaxClusters \in Nat
  BY <1>1
<1>5. ASSUME NEW a \in d..(d + u - 1) PROVE a \in Addr /\ a \notin Spans(cs)
  <2>1. a \in Nat /\ a >= d /\ a < cs[i].base + ClusterSize
    BY <1>1, <1>2, <1>5
  <2>2. a \in Addr
    BY <1>1, <1>2, <1>3, <1>4, <2>1 DEF Addr
  <2>3. ASSUME NEW j \in DOMAIN cs, a \in cs[j].base..(EndOf(cs[j]) - 1) PROVE FALSE
    <3>1. /\ j \in Nat /\ cs[j].base \in Nat /\ EndOf(cs[j]) \in Nat
          /\ EndOf(cs[j]) <= cs[j].base + ClusterSize
          /\ i < j => cs[i].base + ClusterSize <= cs[j].base
          /\ j < i => cs[j].base + ClusterSize <= cs[i].base
      BY <1>1, ClusterFacts
    <3>2. i # j
      BY <1>2, <2>1, <2>3
    <3> QED BY <1>1, <1>2, <2>1, <2>3, <3>1, <3>2
  <2> QED BY <2>2, <2>3 DEF Spans
<1> QED BY <1>5

(* A block from the tail of a cluster.                                     *)
LEMMA BumpKeeps == ASSUME NoHoles, IInv, Bump PROVE IInv'
<1> DEFINE c == clusters[ci]
           d == End(ci)
           u == Units
           e == [c EXCEPT !.bump = @ + u, !.block_starts = @ \cup {d}]
           p == d + 1
<1>1. /\ pc = "search" /\ Known(ci) /\ c.bump + u <= ClusterSize
      /\ clusters' = [clusters EXCEPT ![ci] = e]
      /\ mem' = [[mem EXCEPT ![d].w1 = u] EXCEPT ![d] = [w0 |-> 2 * want, w1 |-> u]]
      /\ stack' = stack \cup {p} /\ global' = global /\ swept' = FALSE /\ work' = work /\ Return
      /\ obj' = Trim(mem', [q \in DOMAIN obj \cup {p} |-> IF q = p THEN want ELSE obj[q]],
                     stack' \cup {global})
  BY DEF Bump, Give, WriteHeader, Units
<1>2. /\ Geometry(mem, clusters) /\ Lists /\ Objects(mem, clusters, obj) /\ Fresh(mem, clusters)
      /\ Marks /\ Position /\ InSearch
      /\ ci \in DOMAIN clusters /\ clusters \in Seq(ClusterRec)
  BY <1>1 DEF IInv, Position, Known, Geometry, Placed
<1>3. /\ want \in DOMAIN Type /\ want \in Nat /\ want > 0 /\ u \in Nat /\ u >= 2 /\ u \in Sizes
      /\ u <= ClusterSize /\ ClusterSize \in Nat
  BY <1>2, Constants, SizesFacts DEF InSearch, Units
<1>4. /\ c \in ClusterRec /\ c.base \in Nat /\ c.bump \in Nat /\ c.block_starts \subseteq Nat
      /\ d = EndOf(c) /\ d \in Nat /\ d = c.base + c.bump
  BY <1>2, ClusterFacts DEF Geometry, End, EndOf
<1>5. /\ e \in ClusterRec /\ e.base = c.base /\ e.bump = c.bump + u /\ e.free_list = c.free_list
      /\ e.block_starts = c.block_starts \cup {d} /\ EndOf(e) = d + u
  <2>1. c.bump + u \in 0..ClusterSize /\ c.block_starts \cup {d} \in SUBSET Nat
    BY <1>1, <1>3, <1>4
  <2>2. c.base + (c.bump + u) = d + u
    BY <1>3, <1>4
  <2> HIDE DEF d, u
  <2> QED BY <1>4, <2>1, <2>2 DEF ClusterRec, EndOf
<1> HIDE DEF e
<1>6. \A a \in d..(d + u - 1) : a \in Addr /\ a \notin Spans(clusters)
  <2>1. EndOf(clusters[ci]) = d
    BY <1>4
  <2> HIDE DEF d, u
  <2> QED BY <1>1, <1>2, <1>3, <2>1, TailFacts
<1>7. d \in Addr /\ d \notin Spans(clusters) /\ p \in Addr /\ p \notin Spans(clusters) /\ p # d
  BY <1>3, <1>4, <1>6
<1>8. mem \in [Addr -> Cell]
  BY <1>2 DEF Geometry, Placed
<1>9. /\ mem' \in [Addr -> Cell] /\ \A a \in Addr : a # d => mem'[a] = mem[a]
      /\ mem'[d].w0 = 2 * want /\ mem'[d].w1 = u
  <2> DEFINE v == [w0 |-> 2 * want, w1 |-> u]
             n == [mem EXCEPT ![d].w1 = u]
  <2>1. v \in Cell /\ v.w0 = 2 * want /\ v.w1 = u
    <3>1. 2 * want \in Nat /\ u \in 0..ClusterSize
      BY <1>3
    <3> HIDE DEF u
    <3> QED BY <3>1 DEF Cell
  <2>2. DOMAIN n = Addr /\ \A a \in Addr : a # d => n[a] = mem[a]
    BY <1>8
  <2>3. mem' = [n EXCEPT ![d] = v]
    BY <1>1
  <2> HIDE DEF n, v
  <2>4. /\ DOMAIN mem' = Addr /\ mem'[d] = v /\ \A a \in Addr : a # d => mem'[a] = mem[a]
        /\ mem' = [a \in Addr |-> mem'[a]]
    BY <1>7, <2>2, <2>3
  <2>5. \A a \in Addr : mem'[a] \in Cell
    BY <1>8, <2>1, <2>4
  <2>6. mem' \in [Addr -> Cell]
    BY <2>4, <2>5
  <2> QED BY <2>1, <2>4, <2>6
<1>10. \A b \in Blocks(clusters) : b \in Spans(clusters) /\ b + 1 \in Spans(clusters) /\ b \in Addr /\ b + 1 \in Addr
  <2> SUFFICES ASSUME NEW i \in DOMAIN clusters, NEW b \in clusters[i].block_starts
      PROVE  b \in Spans(clusters) /\ b + 1 \in Spans(clusters) /\ b \in Addr /\ b + 1 \in Addr
    BY DEF Blocks
  <2>1. /\ b \in Nat /\ mem[b].w1 \in Nat /\ mem[b].w1 >= 2
        /\ \A a \in b..(b + mem[b].w1 - 1) : a \in Addr /\ a \in Spans(clusters)
    BY <1>2, BlockFacts
  <2> QED BY <2>1
<1>11. \A b \in Blocks(clusters) : mem'[b] = mem[b] /\ mem'[b + 1] = mem[b + 1] /\ b # d
  BY <1>7, <1>9, <1>10
<1>12. ASSUME NEW q \in DOMAIN obj PROVE mem'[q].w0 = mem[q].w0 /\ q # p
  <2>1. q \in Nat /\ q - 1 \in Blocks(clusters) /\ (q - 1) + 1 = q
    BY <1>2, InsideFacts
  <2> QED BY <1>4, <1>11, <2>1
<1>13. mem'[p].w0 = NIL
  BY <1>2, <1>7, <1>9 DEF Fresh, NIL
<1>14. Tiling(mem', e)
  <2>1. /\ c.bump > 0 => c.base \in c.block_starts
        /\ \A b \in c.block_starts :
             /\ b >= c.base /\ b < EndOf(c) /\ mem[b].w1 >= MIN_BLOCK /\ mem[b].w1 \in Sizes
             /\ b + mem[b].w1 \in c.block_starts \cup {EndOf(c)}
             /\ \A x \in c.block_starts \cup {EndOf(c)} : x > b => x >= b + mem[b].w1
    BY <1>2 DEF Geometry, Tiling
  <2>2. \A b \in c.block_starts : mem'[b] = mem[b] /\ mem[b].w1 \in Nat /\ b + mem[b].w1 <= d
    <3> SUFFICES ASSUME NEW b \in c.block_starts
        PROVE  mem'[b] = mem[b] /\ mem[b].w1 \in Nat /\ b + mem[b].w1 <= d
      OBVIOUS
    <3>1. mem[b].w1 \in Nat /\ b + mem[b].w1 <= EndOf(clusters[ci])
      BY <1>2, BlockFacts
    <3>2. b \in Blocks(clusters)
      BY <1>2 DEF Blocks
    <3> QED BY <1>4, <1>11, <3>1, <3>2
  <2>3. e.bump > 0 => e.base \in e.block_starts
    BY <1>4, <1>5, <2>1
  <2>4. ASSUME NEW b \in e.block_starts
        PROVE  /\ b >= e.base /\ b < EndOf(e)
               /\ mem'[b].w1 >= MIN_BLOCK /\ mem'[b].w1 \in Sizes
               /\ b + mem'[b].w1 \in e.block_starts \cup {EndOf(e)}
               /\ \A x \in e.block_starts \cup {EndOf(e)} : x > b => x >= b + mem'[b].w1
    <3>1. CASE b = d
      <4>1. \A x \in c.block_starts : ~ (x > b)
        BY <1>4, <2>1, <3>1
      <4> HIDE DEF u
      <4> QED BY <1>3, <1>4, <1>5, <1>9, <3>1, <4>1 DEF MIN_BLOCK
    <3>2. CASE b \in c.block_starts
      <4>1. mem'[b] = mem[b] /\ b \in Nat /\ mem[b].w1 \in Nat /\ b + mem[b].w1 <= d
        BY <1>4, <2>2, <3>2
      <4>2. b >= e.base /\ b < EndOf(e)
        BY <1>3, <1>4, <1>5, <2>1, <3>2, <4>1
      <4>3. b + mem[b].w1 \in e.block_starts
        BY <1>4, <1>5, <2>1, <3>2
      <4>4. \A x \in e.block_starts \cup {EndOf(e)} : x > b => x >= b + mem[b].w1
        <5> SUFFICES ASSUME NEW x \in c.block_starts \cup {EndOf(c)} \cup {d + u}, x > b
            PROVE  x >= b + mem[b].w1
          BY <1>4, <1>5
        <5>1. x = d + u => x >= b + mem[b].w1
          BY <1>3, <1>4, <4>1
        <5> QED BY <2>1, <3>2, <5>1
      <4> QED BY <2>1, <3>2, <4>1, <4>2, <4>3, <4>4
    <3> QED BY <1>5, <3>1, <3>2
  <2> QED BY <2>3, <2>4 DEF Tiling
<1>15. /\ DOMAIN clusters' = DOMAIN clusters /\ clusters'[ci] = e
       /\ \A j \in DOMAIN clusters : j # ci => clusters'[j] = clusters[j]
  BY <1>1, <1>2, <1>5, ClusterUpdate
<1>16. Fresh(mem', clusters')
  <2>1. /\ Spans(clusters) \subseteq Spans(clusters')
        /\ e.base..(EndOf(e) - 1) \subseteq Spans(clusters')
    <3>1. /\ clusters'[ci] \in ClusterRec /\ clusters'[ci].base = clusters[ci].base
          /\ clusters'[ci].bump >= clusters[ci].bump
      BY <1>3, <1>4, <1>5, <1>15
    <3> HIDE DEF c, d, u
    <3>2. /\ Spans(clusters) \subseteq Spans(clusters')
          /\ clusters'[ci].base..(EndOf(clusters'[ci]) - 1) \subseteq Spans(clusters')
      BY <1>2, <1>15, <3>1, SpansUpdate
    <3> QED BY <1>15, <3>2
  <2>2. d \in Spans(clusters')
    BY <1>3, <1>4, <1>5, <2>1
  <2> QED BY <1>2, <1>9, <2>1, <2>2 DEF Fresh
<1>17. \A b \in e.block_starts : ~ IsMarked(mem'[b])
  <2>1. \A b \in Blocks(clusters) : ~ IsMarked(mem[b])
    BY <1>1, <1>2 DEF Marks
  <2>2. \A b \in c.block_starts : b \in Blocks(clusters)
    BY <1>2 DEF Blocks
  <2>3. ~ IsMarked(mem'[d])
    BY <1>3, <1>9, Tags DEF IsMarked
  <2> QED BY <1>5, <1>11, <2>1, <2>2, <2>3
<1>18. \E r : Listed(mem', e.free_list, Free(mem', e), r)
  <2>1. ~ IsFree(mem'[d])
    <3>1. (2 * want) \div 2 = want
      BY <1>3, Tags
    <3> QED BY <1>3, <1>9, <3>1 DEF IsFree
  <2>2. \A b \in c.block_starts : mem'[b] = mem[b] /\ mem'[b + 1] = mem[b + 1]
    BY <1>2, <1>11 DEF Blocks
  <2>3. Free(mem', e) = Free(mem, c) /\ OnList(ci) = Free(mem, c)
    BY <1>1, <1>5, <2>1, <2>2 DEF Free, OnList
  <2>4. PICK r : Listed(mem, c.free_list, Free(mem, c), r)
    BY <1>2, <2>3 DEF Lists
  <2>5. \A b \in Free(mem, c) : mem'[b + 1].w0 = mem[b + 1].w0
    BY <2>2 DEF Free
  <2>6. Listed(mem', c.free_list, Free(mem, c), r)
    BY <2>4, <2>5, ListFrame
  <2> QED BY <1>5, <2>3, <2>6
<1>19. ASSUME NEW i \in DOMAIN clusters, i # ci
       PROVE  /\ d \notin clusters[i].block_starts
              /\ \A b \in Free(mem, clusters[i]) : mem'[b + 1].w0 = mem[b + 1].w0
  <2>1. clusters[i].block_starts \subseteq Blocks(clusters)
    BY DEF Blocks
  <2> QED BY <1>11, <2>1 DEF Free
<1>20. c.block_starts \subseteq e.block_starts /\ d \in e.block_starts /\ p \notin DOMAIN obj
  BY <1>5, <1>12
<1> QED BY <1>1, <1>4, <1>5, <1>9, <1>11, <1>12, <1>13, <1>14, <1>16, <1>17, <1>18, <1>19, <1>20, Given

(* nm2_new_rec zeroes the payload and writes the header.                   *)
LEMMA Zeroed ==
    ASSUME NEW m, m \in [Addr -> Cell], NEW d \in Addr, NEW u \in Nat, u >= 2, u <= ClusterSize,
           m[d].w1 = u, NEW t \in DOMAIN Type, Type[t].units = u,
           NEW n, n = WriteHeader(Zero(m, d + 1, d + m[d].w1 - 1), d, t)
    PROVE  /\ n \in [Addr -> Cell] /\ n[d].w0 = 2 * t /\ n[d].w1 = u
           /\ \A a \in Addr : a \notin d..(d + u - 1) => n[a] = m[a]
           /\ d + 1 \in Addr => n[d + 1].w0 = 0
<1> DEFINE z == Zero(m, d + 1, d + u - 1)
           h == [w0 |-> 2 * t, w1 |-> u]
<1>1. d \in Nat /\ t \in Nat /\ ClusterSize \in Nat
  BY Constants DEF Addr
<1>2. /\ z \in [Addr -> Cell]
      /\ \A a \in Addr : a \in (d + 1)..(d + u - 1) => z[a].w0 = 0
      /\ \A a \in Addr : a \notin (d + 1)..(d + u - 1) => z[a] = m[a]
  <2>1. z = [a \in Addr |-> IF a \in (d + 1)..(d + u - 1) THEN [w0 |-> 0, w1 |-> 0] ELSE m[a]]
    BY DEF Zero
  <2>2. [w0 |-> 0, w1 |-> 0] \in Cell /\ [w0 |-> 0, w1 |-> 0].w0 = 0
    BY <1>1 DEF Cell
  <2> HIDE DEF z
  <2> QED BY <2>1, <2>2
<1>3. h \in Cell /\ h.w0 = 2 * t /\ h.w1 = u
  BY <1>1 DEF Cell
<1>4. n = [z EXCEPT ![d] = h]
  BY DEF WriteHeader
<1> HIDE DEF z, h
<1>5. n \in [Addr -> Cell] /\ n[d] = h /\ \A a \in Addr : a # d => n[a] = z[a]
  BY <1>2, <1>3, <1>4
<1>6. \A a \in Addr : a \notin d..(d + u - 1) => a # d /\ a \notin (d + 1)..(d + u - 1)
  BY <1>1
<1>7. d + 1 # d /\ d + 1 \in (d + 1)..(d + u - 1)
  BY <1>1
<1> QED BY <1>2, <1>3, <1>5, <1>6, <1>7

(* The block that is taken from the list, and what is split off.           *)
LEMMA Taken ==
    ASSUME NoHoles, IInv, TakeFree
    PROVE  LET c == clusters[ci]
               f == mem[at].w1
               left == f - Units
               split == at + Units
               next == mem[at + 1].w0
               head == IF prev = NIL THEN next ELSE c.free_list
           IN
           /\ Known(ci) /\ at \in Free(mem, c) /\ Units \in Nat /\ Units >= 2 /\ Units \in Sizes
           /\ left \in Nat /\ left \in Sizes /\ (left < MIN_BLOCK => left = 0)
           /\ prev # NIL => /\ prev \in Free(mem, c) /\ prev # at /\ mem[prev + 1].w0 = at
                            /\ mem'[prev + 1].w0 = next
           /\ prev = NIL => at = c.free_list
           /\ head \in Nat
           /\ mem' \in [Addr -> Cell] /\ mem'[at].w0 = 2 * want /\ mem'[at].w1 = Units
           /\ mem'[at + 1].w0 = 0
           /\ left >= MIN_BLOCK => /\ mem'[split].w0 = 0 /\ mem'[split].w1 = left
                                   /\ mem'[split + 1].w0 = head
           /\ \A a \in Addr : a \notin at..(at + f - 1) /\ (prev # NIL => a # prev + 1) => mem'[a] = mem[a]
<1> DEFINE c == clusters[ci]
           f == mem[at].w1
           u == Units
           left == f - u
           split == at + u
           next == mem[at + 1].w0
           head == IF prev = NIL THEN next ELSE c.free_list
           m1 == IF prev = NIL THEN mem ELSE [mem EXCEPT ![prev + 1].w0 = next]
           m2 == IF left >= MIN_BLOCK
                 THEN [m1 EXCEPT ![split] = [w0 |-> 0, w1 |-> left],
                                 ![split + 1].w0 = head, ![at].w1 = u]
                 ELSE m1
<1>1. /\ pc = "search" /\ at # NIL /\ f >= u
      /\ mem' = WriteHeader(Zero(m2, at + 1, at + m2[at].w1 - 1), at, want)
  BY DEF TakeFree, Give
<1>2. /\ Geometry(mem, clusters) /\ Lists /\ InSearch /\ Known(ci) /\ ci \in DOMAIN clusters
      /\ mem \in [Addr -> Cell]
  BY <1>1 DEF IInv, Position, InSearch, Known, Geometry, Placed
<1>3. OnList(ci) = Free(mem, c)
  BY <1>1 DEF OnList, Free
<1>4. /\ at \in Free(mem, c) /\ (prev = NIL => at = c.free_list)
      /\ prev # NIL => prev \in Free(mem, c) /\ mem[prev + 1].w0 = at
  BY <1>1, <1>2, <1>3 DEF InSearch
<1>5. PICK r : Listed(mem, c.free_list, Free(mem, c), r)
  BY <1>2, <1>3 DEF Lists
<1>6. prev # NIL => prev # at
  <2> SUFFICES ASSUME prev # NIL, prev = at PROVE FALSE
    OBVIOUS
  <2>1. r[prev] < r[prev] /\ r[prev] \in Nat
    BY <1>1, <1>4, <1>5 DEF Listed
  <2> QED BY <2>1
<1>7. /\ u \in Nat /\ u >= 2 /\ u \in Sizes /\ u <= ClusterSize /\ ClusterSize \in Nat
      /\ want \in DOMAIN Type
  BY <1>2, Constants, SizesFacts DEF InSearch, Units
<1>8. /\ at \in c.block_starts /\ at \in Nat /\ at \in Addr /\ at + 1 \in Addr
      /\ f \in Nat /\ f >= 2 /\ f \in Sizes /\ f <= ClusterSize /\ mem[at] \in Cell
      /\ \A a \in at..(at + f - 1) : a \in Addr
  <2>1. at \in c.block_starts
    BY <1>4 DEF Free
  <2> QED BY <1>2, <2>1, BlockFacts
<1>9. left \in Nat /\ left \in Sizes /\ (left < MIN_BLOCK => left = 0) /\ left <= ClusterSize
  <2> HIDE DEF f, u
  <2>1. left \in Nat /\ left \in Sizes
    BY <1>1, <1>7, <1>8, SizesFacts
  <2>2. left # 1
    BY <2>1 DEF NoHoles
  <2> QED BY <1>1, <1>7, <1>8, <2>1, <2>2 DEF MIN_BLOCK
<1>10. prev # NIL => /\ prev \in Nat /\ prev + 1 \in Addr
                     /\ \A a \in at..(at + f - 1) : a # prev + 1
  <2> SUFFICES ASSUME prev # NIL
      PROVE  prev \in Nat /\ prev + 1 \in Addr /\ prev + 1 \notin at..(at + f - 1)
    OBVIOUS
  <2>1. prev \in Blocks(clusters) /\ at \in Blocks(clusters)
    BY <1>2, <1>4, <1>8 DEF Free, Blocks
  <2>2. prev \in Nat /\ prev + 1 \in Addr /\ mem[prev].w1 \in Nat /\ mem[prev].w1 >= 2
    BY <1>2, <2>1, BlocksApart
  <2>3. prev + 1 \in prev..(prev + mem[prev].w1 - 1)
    BY <2>2
  <2> QED BY <1>2, <1>6, <2>1, <2>2, <2>3, BlocksApart
<1>11. next \in Nat /\ head \in Nat
  <2>1. next \in Nat
    BY <1>2, <1>8 DEF Cell
  <2>2. c.free_list \in Nat
    BY <1>2, ClusterFacts DEF Geometry, ClusterRec
  <2> QED BY <2>1, <2>2
<1>12. /\ m1 \in [Addr -> Cell] /\ (prev # NIL => m1[prev + 1].w0 = next)
       /\ \A a \in Addr : (prev # NIL => a # prev + 1) => m1[a] = mem[a]
  <2>1. CASE prev = NIL
    BY <1>2, <2>1
  <2>2. CASE prev # NIL
    <3> DEFINE v == [mem[prev + 1] EXCEPT !.w0 = next]
    <3>1. mem[prev + 1] \in Cell
      BY <1>2, <1>10, <2>2
    <3>2. v \in Cell /\ v.w0 = next
      BY <1>11, <3>1 DEF Cell
    <3>3. m1 = [mem EXCEPT ![prev + 1] = v]
      BY <2>2
    <3> HIDE DEF v, m1
    <3> QED BY <1>2, <1>10, <2>2, <3>2, <3>3
  <2> QED BY <2>1, <2>2
<1> HIDE DEF m1
<1>13. /\ m2 \in [Addr -> Cell] /\ m2[at].w1 = u
       /\ left >= MIN_BLOCK => /\ m2[split].w0 = 0 /\ m2[split].w1 = left
                               /\ m2[split + 1].w0 = head
                               /\ split \in Addr /\ split + 1 \in Addr
                               /\ split \notin at..(at + u - 1) /\ split + 1 \notin at..(at + u - 1)
       /\ \A a \in Addr : a \notin at..(at + f - 1) => m2[a] = m1[a]
  <2>1. CASE left >= MIN_BLOCK
    <3> DEFINE s == [w0 |-> 0, w1 |-> left]
               v == [m1[split + 1] EXCEPT !.w0 = head]
               h == [m1[at] EXCEPT !.w1 = u]
    <3>1. /\ split # split + 1 /\ split # at /\ split + 1 # at
          /\ split \in at..(at + f - 1) /\ split + 1 \in at..(at + f - 1)
          /\ split \notin at..(at + u - 1) /\ split + 1 \notin at..(at + u - 1)
      <4> HIDE DEF f, u
      <4> QED BY <1>1, <1>7, <1>8, <1>9, <2>1 DEF MIN_BLOCK
    <3>2. split \in Addr /\ split + 1 \in Addr
      BY <1>8, <3>1
    <3>3. s \in Cell /\ s.w0 = 0 /\ s.w1 = left
      <4> HIDE DEF left
      <4> QED BY <1>7, <1>9 DEF Cell
    <3>4. v \in Cell /\ v.w0 = head /\ h \in Cell /\ h.w1 = u
      <4>1. m1[split + 1] \in Cell /\ m1[at] \in Cell
        BY <1>8, <1>12, <3>2
      <4> HIDE DEF head, u
      <4> QED BY <1>7, <1>11, <4>1 DEF Cell
    <3>5. m2 = [m1 EXCEPT ![split] = s, ![split + 1] = v, ![at] = h]
      <4>1. m2 = [m1 EXCEPT ![split] = [w0 |-> 0, w1 |-> left],
                                 ![split + 1].w0 = head, ![at].w1 = u]
        BY <2>1
      <4> HIDE DEF m2, split, head, u, left
      <4> QED BY <3>1, <4>1
    <3>6. at \in at..(at + f - 1)
      BY <1>8
    <3> HIDE DEF s, v, h, m2, split, head, u, left, f
    <3> QED BY <1>8, <1>12, <3>1, <3>2, <3>3, <3>4, <3>5, <3>6
  <2>2. CASE ~ (left >= MIN_BLOCK)
    <3>1. left = 0 /\ f = u
      BY <1>1, <1>7, <1>8, <1>9, <2>2 DEF MIN_BLOCK
    <3>2. m2 = m1 /\ m1[at] = mem[at]
      BY <1>8, <1>10, <1>12, <2>2
    <3> QED BY <1>12, <2>2, <3>1, <3>2
  <2> QED BY <2>1, <2>2
<1> HIDE DEF m2
<1>14. /\ mem' \in [Addr -> Cell] /\ mem'[at].w0 = 2 * want /\ mem'[at].w1 = u
       /\ \A a \in Addr : a \notin at..(at + u - 1) => mem'[a] = m2[a]
       /\ mem'[at + 1].w0 = 0
  BY <1>1, <1>7, <1>8, <1>13, Zeroed DEF Units
<1>15. \A a \in Addr : a \notin at..(at + f - 1) => mem'[a] = m1[a]
  <2>1. \A a \in at..(at + u - 1) : a \in at..(at + f - 1)
    BY <1>1, <1>7, <1>8
  <2> QED BY <1>13, <1>14, <2>1
<1>16. \A a \in Addr : a \notin at..(at + f - 1) /\ (prev # NIL => a # prev + 1) => mem'[a] = mem[a]
  BY <1>12, <1>15
<1>17. prev # NIL => mem'[prev + 1].w0 = next
  BY <1>10, <1>12, <1>15
<1>18. left >= MIN_BLOCK => /\ mem'[split].w0 = 0 /\ mem'[split].w1 = left
                            /\ mem'[split + 1].w0 = head
  BY <1>13, <1>14
<1> HIDE DEF f, u, left, split, next, head
<1> QED BY <1>2, <1>4, <1>6, <1>7, <1>9, <1>11, <1>14, <1>16, <1>17, <1>18 DEF f, u, left, split, next, head

(* A block from the free list.                                             *)
LEMMA TakeFreeKeeps == ASSUME NoHoles, IInv, TakeFree PROVE IInv'
<1> DEFINE c == clusters[ci]
           d == at
           f == mem[at].w1
           u == Units
           left == f - u
           split == at + u
           next == mem[at + 1].w0
           head == IF prev = NIL THEN next ELSE c.free_list
           p == at + 1
           e == IF left >= MIN_BLOCK
                THEN [c EXCEPT !.free_list = split, !.block_starts = @ \cup {split}]
                ELSE [c EXCEPT !.free_list = head]
           F == Free(mem, c)
<1>1. /\ pc = "search" /\ f >= u
      /\ clusters' = [clusters EXCEPT ![ci] = e]
      /\ stack' = stack \cup {p} /\ global' = global /\ swept' = FALSE /\ work' = work /\ Return
      /\ obj' = Trim(mem', [q \in DOMAIN obj \cup {p} |-> IF q = p THEN want ELSE obj[q]],
                     stack' \cup {global})
  BY DEF TakeFree, Give
<1>2. /\ Known(ci) /\ at \in F /\ u \in Nat /\ u >= 2 /\ u \in Sizes
      /\ left \in Nat /\ left \in Sizes /\ (left < MIN_BLOCK => left = 0)
      /\ prev # NIL => /\ prev \in F /\ prev # at /\ mem[prev + 1].w0 = at
                       /\ mem'[prev + 1].w0 = next
      /\ prev = NIL => at = c.free_list
      /\ head \in Nat
      /\ mem' \in [Addr -> Cell] /\ mem'[at].w0 = 2 * want /\ mem'[at].w1 = u
      /\ mem'[at + 1].w0 = 0
      /\ left >= MIN_BLOCK => /\ mem'[split].w0 = 0 /\ mem'[split].w1 = left
                              /\ mem'[split + 1].w0 = head
      /\ \A a \in Addr : a \notin at..(at + f - 1) /\ (prev # NIL => a # prev + 1) => mem'[a] = mem[a]
  BY Taken
<1>3. /\ Geometry(mem, clusters) /\ Lists /\ Objects(mem, clusters, obj) /\ Fresh(mem, clusters)
      /\ Marks /\ Position /\ InSearch
      /\ ci \in DOMAIN clusters /\ clusters \in Seq(ClusterRec)
  BY <1>1, <1>2 DEF IInv, Position, Known, Geometry, Placed
<1>4. want \in DOMAIN Type /\ want \in Nat /\ want > 0 /\ ClusterSize \in Nat
  BY <1>3, Constants DEF InSearch
<1>5. /\ c \in ClusterRec /\ c.base \in Nat /\ c.bump \in Nat /\ c.block_starts \subseteq Nat
      /\ EndOf(c) \in Nat
  BY <1>3, ClusterFacts DEF Geometry
<1>6. /\ at \in c.block_starts /\ IsFree(mem[at]) /\ at \in Nat /\ at >= 1 /\ at \in Addr
      /\ f \in Nat /\ f >= 2 /\ at \in Blocks(clusters)
      /\ \A a \in at..(at + f - 1) : a \in Addr /\ a \in Spans(clusters)
  <2>1. at \in c.block_starts /\ IsFree(mem[at])
    BY <1>2 DEF Free
  <2> QED BY <1>3, <2>1, BlockFacts DEF Blocks
<1>7. left >= MIN_BLOCK => split \in at..(at + f - 1) /\ split \in Nat /\ split # at /\ split + left = at + f
  <2> HIDE DEF f, u
  <2> QED BY <1>1, <1>2, <1>6 DEF MIN_BLOCK
<1>8. /\ e \in ClusterRec /\ e.base = c.base /\ e.bump = c.bump /\ EndOf(e) = EndOf(c)
      /\ e.free_list = IF left >= MIN_BLOCK THEN split ELSE head
      /\ e.block_starts = IF left >= MIN_BLOCK THEN c.block_starts \cup {split} ELSE c.block_starts
  <2>1. left >= MIN_BLOCK => c.block_starts \cup {split} \in SUBSET Nat
    BY <1>5, <1>7
  <2>2. left >= MIN_BLOCK => split \in Nat
    BY <1>7
  <2> HIDE DEF left, split, head
  <2> QED BY <1>2, <1>5, <2>1, <2>2 DEF ClusterRec, EndOf
<1> HIDE DEF e
<1>9. ASSUME NEW b \in Blocks(clusters), b # at
      PROVE  /\ b \in Nat /\ b >= 1 /\ b \in Addr /\ b + 1 \in Addr /\ mem'[b] = mem[b] /\ b # at + 1
             /\ b \notin at..(at + f - 1) /\ b + 1 \notin at..(at + f - 1)
             /\ b # prev => mem'[b + 1] = mem[b + 1]
             /\ mem[b].w1 \in Nat /\ mem[b].w1 >= 2
  <2>1. /\ b \in Nat /\ b >= 1 /\ b \in Addr /\ b + 1 \in Addr /\ mem[b].w1 \in Nat /\ mem[b].w1 >= 2
        /\ at + 1 # b
    BY <1>3, <1>6, BlocksApart
  <2>2. b \in b..(b + mem[b].w1 - 1) /\ b + 1 \in b..(b + mem[b].w1 - 1)
    BY <2>1
  <2>3. b \notin at..(at + f - 1) /\ b + 1 \notin at..(at + f - 1)
    BY <1>3, <1>6, <1>9, <2>2, BlocksApart
  <2>4. prev # NIL => prev \in Blocks(clusters) /\ prev + 1 # b /\ prev \in Nat
    <3> SUFFICES ASSUME prev # NIL PROVE prev \in Blocks(clusters) /\ prev + 1 # b /\ prev \in Nat
      OBVIOUS
    <3>1. prev \in Blocks(clusters)
      BY <1>2, <1>3 DEF Free, Blocks
    <3> QED BY <1>3, <3>1, BlocksApart
  <2>5. mem'[b] = mem[b]
    BY <1>2, <2>1, <2>3, <2>4
  <2>6. b # prev => mem'[b + 1] = mem[b + 1]
    BY <1>2, <2>1, <2>3, <2>4
  <2> QED BY <2>1, <2>3, <2>5, <2>6
<1>10. \A b \in c.block_starts : b \in Blocks(clusters) /\ b \in Nat
  BY <1>3, <1>5 DEF Blocks
<1>11. Tiling(mem', e)
  <2>1. /\ c.bump > 0 => c.base \in c.block_starts
        /\ \A b \in c.block_starts :
             /\ b >= c.base /\ b < EndOf(c) /\ mem[b].w1 >= MIN_BLOCK /\ mem[b].w1 \in Sizes
             /\ b + mem[b].w1 \in c.block_starts \cup {EndOf(c)}
             /\ \A x \in c.block_starts \cup {EndOf(c)} : x > b => x >= b + mem[b].w1
    BY <1>3 DEF Geometry, Tiling
  <2>2. at + f \in c.block_starts \cup {EndOf(c)} /\ at + f <= EndOf(c) /\ at < EndOf(c)
        /\ \A x \in c.block_starts \cup {EndOf(c)} : x > at => x >= at + f
    BY <1>3, <1>6, <2>1, BlockFacts
  <2>3. /\ c.block_starts \subseteq e.block_starts
        /\ \A x \in e.block_starts \cup {EndOf(e)} :
             /\ x \in Nat
             /\ x \in c.block_starts \cup {EndOf(c)} \/ (x = split /\ left >= MIN_BLOCK)
    BY <1>5, <1>7, <1>8
  <2>4. ASSUME NEW b \in e.block_starts
        PROVE  /\ b >= e.base /\ b < EndOf(e)
               /\ mem'[b].w1 >= MIN_BLOCK /\ mem'[b].w1 \in Sizes
               /\ b + mem'[b].w1 \in e.block_starts \cup {EndOf(e)}
               /\ \A x \in e.block_starts \cup {EndOf(e)} : x > b => x >= b + mem'[b].w1
    <3>1. CASE b = at
      <4>1. b >= e.base /\ b < EndOf(e) /\ mem'[b].w1 = u /\ u >= MIN_BLOCK
        BY <1>2, <1>6, <1>8, <2>1, <3>1 DEF MIN_BLOCK
      <4>2. at + u \in e.block_starts \cup {EndOf(e)}
        <5>1. CASE left >= MIN_BLOCK
          BY <1>8, <5>1
        <5>2. CASE ~ (left >= MIN_BLOCK)
          <6>1. at + u = at + f
            BY <1>1, <1>2, <1>6, <5>2 DEF MIN_BLOCK
          <6> QED BY <1>8, <2>2, <2>3, <6>1
        <5> QED BY <5>1, <5>2
      <4>3. ASSUME NEW x \in e.block_starts \cup {EndOf(e)}, x > at PROVE x >= at + u
        <5>1. CASE x \in c.block_starts \cup {EndOf(c)}
          <6>1. x >= at + f /\ x \in Nat
            BY <2>2, <2>3, <4>3, <5>1
          <6> QED BY <1>1, <1>2, <1>6, <6>1
        <5>2. CASE x = split
          BY <1>2, <1>6, <5>2
        <5> QED BY <2>3, <5>1, <5>2
      <4> QED BY <1>2, <3>1, <4>1, <4>2, <4>3
    <3>2. CASE b = split /\ left >= MIN_BLOCK
      <4>1. mem'[b].w1 = left /\ b + left = at + f /\ b > at /\ b < at + f /\ b \in Nat
        <5>1. mem'[b].w1 = left /\ b + left = at + f
          BY <1>2, <1>7, <3>2
        <5> HIDE DEF left
        <5> QED BY <1>2, <1>6, <3>2, <5>1 DEF MIN_BLOCK
      <4>2. b >= e.base /\ b < EndOf(e)
        BY <1>5, <1>6, <1>8, <2>1, <2>2, <4>1
      <4>3. at + f \in e.block_starts \cup {EndOf(e)}
        BY <1>8, <2>2, <2>3
      <4>4. ASSUME NEW x \in e.block_starts \cup {EndOf(e)}, x > b PROVE x >= at + f
        <5>1. x \in c.block_starts \cup {EndOf(c)} /\ x > at
          BY <1>6, <2>3, <3>2, <4>1, <4>4
        <5> QED BY <2>2, <5>1
      <4> QED BY <1>2, <3>2, <4>1, <4>2, <4>3, <4>4
    <3>3. CASE b \in c.block_starts /\ b # at
      <4>1. mem'[b] = mem[b] /\ b \in Nat /\ mem[b].w1 \in Nat /\ b \notin at..(at + f - 1)
        BY <1>9, <1>10, <3>3
      <4>2. b >= e.base /\ b < EndOf(e) /\ b + mem[b].w1 \in e.block_starts \cup {EndOf(e)}
        BY <1>8, <2>1, <2>3, <3>3
      <4>3. ASSUME NEW x \in e.block_starts \cup {EndOf(e)}, x > b PROVE x >= b + mem[b].w1
        <5>1. CASE x \in c.block_starts \cup {EndOf(c)}
          BY <2>1, <3>3, <4>3, <5>1
        <5>2. CASE x = split /\ left >= MIN_BLOCK
          <6>1. b < at
            BY <1>6, <1>7, <4>1, <4>3, <5>2
          <6>2. at >= b + mem[b].w1
            BY <1>6, <2>1, <3>3, <6>1
          <6> QED BY <1>2, <1>6, <4>1, <5>2, <6>2
        <5> QED BY <2>3, <5>1, <5>2
      <4> QED BY <2>1, <3>3, <4>1, <4>2, <4>3
    <3> QED BY <1>8, <3>1, <3>2, <3>3
  <2>5. e.bump > 0 => e.base \in e.block_starts
    BY <1>8, <2>1, <2>3
  <2> QED BY <2>4, <2>5 DEF Tiling
<1>12. /\ DOMAIN clusters' = DOMAIN clusters /\ clusters'[ci] = e
       /\ \A j \in DOMAIN clusters : j # ci => clusters'[j] = clusters[j]
  BY <1>1, <1>3, <1>8, ClusterUpdate
<1>13. Fresh(mem', clusters')
  <2>1. Spans(clusters) \subseteq Spans(clusters')
    <3>1. e.bump >= c.bump
      BY <1>5, <1>8
    <3> QED BY <1>3, <1>8, <1>12, <3>1, SpansUpdate
  <2>2. prev # NIL => prev + 1 \in Spans(clusters)
    <3> SUFFICES ASSUME prev # NIL PROVE prev + 1 \in Spans(clusters)
      OBVIOUS
    <3>1. prev \in c.block_starts
      BY <1>2 DEF Free
    <3>2. /\ prev \in Nat /\ mem[prev].w1 \in Nat /\ mem[prev].w1 >= 2
          /\ \A a \in prev..(prev + mem[prev].w1 - 1) : a \in Spans(clusters)
      BY <1>3, <3>1, BlockFacts
    <3> QED BY <3>2
  <2>3. \A a \in Addr : a \notin Spans(clusters') => mem'[a] = mem[a] /\ a \notin Spans(clusters)
    BY <1>2, <1>6, <2>1, <2>2
  <2> QED BY <1>3, <2>3 DEF Fresh
<1>14. ASSUME NEW q \in DOMAIN obj PROVE mem'[q].w0 = mem[q].w0 /\ q # p
  <2>1. q \in Nat /\ q - 1 \in Blocks(clusters) /\ (q - 1) + 1 = q /\ ~ IsFree(mem[q - 1])
    BY <1>3, InsideFacts
  <2>2. q - 1 # at /\ (prev # NIL => q - 1 # prev)
    BY <1>2, <1>6, <2>1 DEF Free
  <2>3. prev = NIL => q - 1 # prev
    BY <1>9, <2>1, <2>2 DEF NIL
  <2> QED BY <1>6, <1>9, <2>1, <2>2, <2>3
<1>15. \A b \in e.block_starts : ~ IsMarked(mem'[b])
  <2>1. \A b \in Blocks(clusters) : ~ IsMarked(mem[b])
    BY <1>1, <1>3 DEF Marks
  <2>2. ~ IsMarked(mem'[at])
    BY <1>2, <1>4, Tags DEF IsMarked
  <2>3. left >= MIN_BLOCK => ~ IsMarked(mem'[split])
    BY <1>2, Tags DEF IsMarked
  <2> QED BY <1>8, <1>9, <1>10, <2>1, <2>2, <2>3
<1>16. \E r : Listed(mem', e.free_list, Free(mem', e), r)
  <2>1. ~ IsFree(mem'[at])
    <3>1. (2 * want) \div 2 = want
      BY <1>4, Tags
    <3> QED BY <1>2, <1>4, <3>1 DEF IsFree
  <2>2. left >= MIN_BLOCK => IsFree(mem'[split]) /\ split \notin c.block_starts
    <3>1. left >= MIN_BLOCK => IsFree(mem'[split])
      BY <1>2 DEF IsFree
    <3>2. left >= MIN_BLOCK => split \notin c.block_starts
      BY <1>7, <1>9, <1>10
    <3> QED BY <3>1, <3>2
  <2>3. \A b \in c.block_starts : b # at => mem'[b] = mem[b]
    BY <1>9, <1>10
  <2>4. Free(mem', e) = IF left >= MIN_BLOCK THEN (F \ {at}) \cup {split} ELSE F \ {at}
    <3>1. CASE left >= MIN_BLOCK
      BY <1>8, <2>1, <2>2, <2>3, <3>1 DEF Free
    <3>2. CASE ~ (left >= MIN_BLOCK)
      BY <1>8, <2>1, <2>3, <3>2 DEF Free
    <3> QED BY <3>1, <3>2
  <2>5. OnList(ci) = F
    BY <1>1 DEF OnList, Free
  <2>6. PICK r : Listed(mem, c.free_list, F, r)
    BY <1>3, <2>5 DEF Lists
  <2>7. NIL \notin F
    BY <1>3, BlockFacts DEF Free, NIL
  <2>8. \A a \in F : a # at /\ a # prev => mem'[a + 1].w0 = mem[a + 1].w0
    BY <1>9, <1>10 DEF Free
  <2>9. \E q : Listed(mem', head, F \ {at}, q)
    <3>1. Unlinked(mem, mem', c.free_list, F, at, prev, head)
      BY <1>2, <2>7, <2>8 DEF Unlinked
    <3>2. at \in F
      BY <1>2
    <3> HIDE DEF F, head
    <3> QED BY <2>6, <3>1, <3>2, ListRemove
  <2>10. PICK q : Listed(mem', head, F \ {at}, q)
    BY <2>9
  <2>11. CASE left >= MIN_BLOCK
    <3>1. split \notin F \ {at} /\ split # NIL /\ NIL \notin F \ {at} /\ mem'[split + 1].w0 = head
      <4>1. split \notin F
        BY <2>2, <2>11 DEF Free
      <4>2. split # NIL
        BY <1>2, <1>6 DEF NIL
      <4> QED BY <1>2, <2>7, <2>11, <4>1, <4>2
    <3>2. \A a \in F \ {at} : mem'[a + 1].w0 = mem'[a + 1].w0
      OBVIOUS
    <3> HIDE DEF F, split, head
    <3>3. \E r1 : Listed(mem', split, (F \ {at}) \cup {split}, r1)
      BY <2>10, <3>1, <3>2, ListInsert
    <3> QED BY <1>8, <2>4, <2>11, <3>3
  <2>12. CASE ~ (left >= MIN_BLOCK)
    BY <1>8, <2>4, <2>10, <2>12
  <2> QED BY <2>11, <2>12
<1>17. ASSUME NEW i \in DOMAIN clusters, i # ci
       PROVE  /\ at \notin clusters[i].block_starts
              /\ \A b \in Free(mem, clusters[i]) : mem'[b + 1].w0 = mem[b + 1].w0
  <2>1. clusters[i].block_starts \subseteq Blocks(clusters)
    BY DEF Blocks
  <2>2. \A b \in clusters[i].block_starts : b \notin c.block_starts
    BY <1>3, <1>17, Apart
  <2>3. at \notin clusters[i].block_starts
    BY <1>6, <2>2
  <2>4. \A b \in clusters[i].block_starts : b # at /\ b # prev
    <3> SUFFICES ASSUME NEW b \in clusters[i].block_starts PROVE b # prev
      BY <2>3
    <3>1. prev = NIL => b # prev
      BY <1>3, BlockFacts DEF NIL
    <3>2. prev # NIL => prev \in c.block_starts
      BY <1>2 DEF Free
    <3> QED BY <2>2, <3>1, <3>2
  <2> QED BY <1>9, <2>1, <2>3, <2>4 DEF Free
<1>18. c.block_starts \subseteq e.block_starts /\ at \in e.block_starts /\ p \notin DOMAIN obj
  BY <1>6, <1>8, <1>14
<1>19. \A b \in Blocks(clusters) : b # at => mem'[b] = mem[b]
  BY <1>9
<1>20. mem'[at].w1 = Units /\ mem'[at].w0 = 2 * want /\ mem'[at + 1].w0 = NIL
       /\ mem' \in [Addr -> Cell]
  BY <1>2 DEF NIL
<1> HIDE DEF f, left, split, next, head, F, u
<1> QED BY <1>1, <1>2, <1>6, <1>8, <1>11, <1>13, <1>14, <1>15, <1>16, <1>17, <1>18, <1>19, <1>20, Given

-----------------------------------------------------------------------------
(* The program.                                                            *)

(* Between two calls of the runtime nothing but the objects matters.       *)
LEMMA ProgramStep ==
    ASSUME IInv, pc = "run", UNCHANGED <<clusters, pc, loop, call, work>>, swept' = FALSE,
           HeapInv', \A b \in Blocks(clusters) : mem'[b] = mem[b],
           \A b \in Blocks(clusters) : IsFree(mem[b]) => mem'[b + 1].w0 = mem[b + 1].w0
    PROVE  IInv'
<1>1. Lists /\ Marks /\ Position
  BY DEF IInv
<1>2. Lists'
  <2> SUFFICES ASSUME NEW i \in DOMAIN clusters
      PROVE  \E r : Listed(mem', clusters[i].free_list, OnList(i)', r)
    BY DEF Lists
  <2>1. OnList(i)' = OnList(i)
    BY DEF OnList, Free, Blocks
  <2>2. PICK r : Listed(mem, clusters[i].free_list, OnList(i), r)
    BY <1>1 DEF Lists
  <2>3. \A b \in OnList(i) : mem'[b + 1].w0 = mem[b + 1].w0
    BY DEF OnList, Free, Blocks
  <2>4. Listed(mem', clusters[i].free_list, OnList(i), r)
    BY <2>2, <2>3, ListFrame
  <2> QED BY <2>1, <2>4
<1>3. Marks'
  <2>1. CollectsAllGarbage'
    BY DEF CollectsAllGarbage
  <2> QED BY <1>1, <2>1 DEF Marks
<1>4. Position'
  BY <1>1 DEF Position, Known, loop, call
<1> QED BY <1>2, <1>3, <1>4 DEF IInv, HeapInv

(* The roots change.                                                       *)
LEMMA RootsChange ==
    ASSUME IInv, pc = "run", UNCHANGED <<heap, pc, loop, call, work>>, swept' = FALSE,
           \A w \in stack' : Inside(obj, w) # {}, global' \in DOMAIN obj \cup {NIL},
           obj' = Trim(mem, obj, stack' \cup {global'})
    PROVE  IInv'
<1>1. /\ Geometry(mem, clusters) /\ Fresh(mem, clusters) /\ Objects(mem, clusters, obj)
      /\ mem' = mem /\ clusters' = clusters
  BY DEF IInv, heap
<1>2. LET t == Trim(mem, obj, stack' \cup {global'}) IN
      Objects(mem, clusters, t) /\ Rooted(mem, t, stack', global')
  BY <1>1, TrimFacts
<1>3. HeapInv'
  BY <1>1, <1>2 DEF HeapInv
<1> QED BY <1>1, <1>3, ProgramStep

(* A local pointer goes out of scope.                                      *)
LEMMA DropKeeps == ASSUME IInv, NEW w \in stack, Drop(w) PROVE IInv'
<1>1. /\ pc = "run" /\ UNCHANGED <<heap, pc, loop, call, work>> /\ swept' = FALSE
      /\ stack' = stack \ {w} /\ global' = global /\ obj' = Trim(mem, obj, stack' \cup {global})
  BY DEF Drop
<1>2. Rooted(mem, obj, stack, global)
  BY DEF IInv
<1>3. (\A x \in stack' : Inside(obj, x) # {}) /\ global' \in DOMAIN obj \cup {NIL}
  BY <1>1, <1>2 DEF Rooted
<1> QED BY <1>1, <1>3, RootsChange

(* A module variable changes.                                              *)
LEMMA SetGlobalKeeps == ASSUME IInv, NEW q, SetGlobal(q) PROVE IInv'
<1>1. /\ pc = "run" /\ UNCHANGED <<heap, pc, loop, call, work>> /\ swept' = FALSE
      /\ stack' = stack /\ global' = q /\ q \in DOMAIN obj \cup {NIL}
      /\ obj' = Trim(mem, obj, stack \cup {q})
  BY DEF SetGlobal
<1>2. Rooted(mem, obj, stack, global)
  BY DEF IInv
<1>3. (\A x \in stack' : Inside(obj, x) # {}) /\ global' \in DOMAIN obj \cup {NIL}
      /\ obj' = Trim(mem, obj, stack' \cup {global'})
  BY <1>1, <1>2 DEF Rooted
<1> QED BY <1>1, <1>3, RootsChange

(* An interior address still leads to the object.                          *)
LEMMA AdvanceKeeps == ASSUME IInv, NEW w \in stack, Advance(w) PROVE IInv'
<1>1. /\ pc = "run" /\ UNCHANGED <<heap, pc, loop, call, work>> /\ swept' = FALSE
      /\ stack' = (stack \ {w}) \cup {w + 1} /\ global' = global /\ obj' = obj
      /\ Inside(obj, w) = Inside(obj, w + 1)
  BY DEF Advance
<1>2. /\ Geometry(mem, clusters) /\ Fresh(mem, clusters) /\ Objects(mem, clusters, obj)
      /\ Rooted(mem, obj, stack, global) /\ mem' = mem /\ clusters' = clusters
  BY <1>1 DEF IInv, heap
<1>3. Rooted(mem, obj, stack', global)
  <2>1. \A x \in stack' : Inside(obj, x) # {}
    BY <1>1, <1>2 DEF Rooted
  <2>2. ASSUME NEW S \in SUBSET DOMAIN obj, Closed(mem, obj, stack' \cup {global}, S)
        PROVE  S = DOMAIN obj
    <3>1. \A x \in stack \cup {global} : Inside(obj, x) \subseteq S
      <4>1. \A x \in stack' \cup {global} : Inside(obj, x) \subseteq S
        BY <2>2 DEF Closed
      <4> QED BY <1>1, <4>1
    <3>2. Closed(mem, obj, stack \cup {global}, S)
      BY <2>2, <3>1 DEF Closed
    <3> QED BY <1>2, <3>2 DEF Rooted
  <2>3. global \in DOMAIN obj \cup {NIL}
    BY <1>2 DEF Rooted
  <2> QED BY <2>1, <2>2, <2>3 DEF Rooted
<1>4. HeapInv'
  BY <1>1, <1>2, <1>3 DEF HeapInv
<1> QED BY <1>1, <1>2, <1>4, ProgramStep

(* A field of an object is no header and no link.                          *)
LEMMA StoreKeeps == ASSUME IInv, NEW p, NEW q, Store(p, q) PROVE IInv'
<1>1. /\ pc = "run" /\ p \in DOMAIN obj /\ q \in DOMAIN obj \cup {NIL}
      /\ mem' = [mem EXCEPT ![p].w0 = q] /\ obj' = Trim(mem', obj, stack \cup {global})
      /\ swept' = FALSE /\ stack' = stack /\ global' = global
      /\ UNCHANGED <<clusters, pc, loop, call, work>>
  BY DEF Store
<1>2. /\ Geometry(mem, clusters) /\ Fresh(mem, clusters) /\ Objects(mem, clusters, obj)
      /\ Rooted(mem, obj, stack, global) /\ mem \in [Addr -> Cell] /\ clusters' = clusters
  BY <1>1 DEF IInv, Geometry, Placed
<1>3. /\ p \in Nat /\ p \in Addr /\ p - 1 \in Blocks(clusters) /\ ~ IsFree(mem[p - 1])
      /\ (p - 1) + 1 = p /\ q \in Nat
  BY <1>1, <1>2, InsideFacts DEF NIL
<1>4. /\ mem' \in [Addr -> Cell] /\ mem'[p].w0 = q
      /\ \A a \in Addr : a # p => mem'[a] = mem[a]
  <2> DEFINE v == [mem[p] EXCEPT !.w0 = q]
  <2>1. mem[p] \in Cell
    BY <1>2, <1>3
  <2>2. v \in Cell /\ v.w0 = q
    BY <1>3, <2>1 DEF Cell
  <2>3. mem' = [mem EXCEPT ![p] = v]
    BY <1>1
  <2> HIDE DEF v
  <2> QED BY <1>2, <1>3, <2>2, <2>3
<1>5. \A b \in Blocks(clusters) : /\ mem'[b] = mem[b] /\ b \in Nat
                                  /\ b # p - 1 => mem'[b + 1] = mem[b + 1]
  <2> SUFFICES ASSUME NEW b \in Blocks(clusters)
      PROVE  mem'[b] = mem[b] /\ b \in Nat /\ (b # p - 1 => mem'[b + 1] = mem[b + 1])
    OBVIOUS
  <2>1. b \in Nat /\ b \in Addr /\ b + 1 \in Addr /\ b # p
    BY <1>2, <1>3, BlocksApart
  <2> QED BY <1>3, <1>4, <2>1
<1>6. Geometry(mem', clusters)
  <2>1. \A b \in Blocks(clusters) : mem'[b].w1 = mem[b].w1
    BY <1>5
  <2> QED BY <1>2, <1>4, <2>1, GeometryFrame
<1>7. Fresh(mem', clusters)
  <2>1. p \in Spans(clusters)
    <3>1. PICK i \in DOMAIN clusters : p - 1 \in clusters[i].block_starts
      BY <1>3 DEF Blocks
    <3>2. /\ p - 1 \in Nat /\ mem[p - 1].w1 \in Nat /\ mem[p - 1].w1 >= 2
          /\ \A a \in (p - 1)..((p - 1) + mem[p - 1].w1 - 1) : a \in Spans(clusters)
      BY <1>2, <3>1, BlockFacts
    <3> QED BY <1>3, <3>2
  <2> QED BY <1>2, <1>4, <2>1 DEF Fresh
<1>8. Objects(mem', clusters, obj)
  <2> SUFFICES ASSUME NEW x \in DOMAIN obj
      PROVE  /\ x \in Nat /\ x - 1 \in Blocks(clusters) /\ obj[x] \in DOMAIN Type
             /\ TypeOf(mem'[x - 1]) = obj[x] /\ mem'[x - 1].w1 = Type[obj[x]].units
             /\ Type[obj[x]].ptr => mem'[x].w0 \in DOMAIN obj \cup {NIL}
    BY DEF Objects
  <2>1. /\ x \in Nat /\ x - 1 \in Blocks(clusters) /\ obj[x] \in DOMAIN Type
        /\ TypeOf(mem[x - 1]) = obj[x] /\ mem[x - 1].w1 = Type[obj[x]].units
        /\ Type[obj[x]].ptr => mem[x].w0 \in DOMAIN obj \cup {NIL}
    BY <1>2 DEF Objects
  <2>2. mem'[x - 1] = mem[x - 1]
    BY <1>5, <2>1
  <2>3. x # p => mem'[x] = mem[x]
    <3>1. x # p => x - 1 # p - 1 /\ (x - 1) + 1 = x
      BY <1>3, <2>1
    <3> QED BY <1>5, <2>1, <3>1
  <2> QED BY <1>1, <1>4, <2>1, <2>2, <2>3
<1>9. HeapInv'
  <2>1. (\A w \in stack : Inside(obj, w) # {}) /\ global \in DOMAIN obj \cup {NIL}
    BY <1>2 DEF Rooted
  <2>2. LET t == Trim(mem', obj, stack \cup {global}) IN
        Objects(mem', clusters, t) /\ Rooted(mem', t, stack, global)
    BY <1>6, <1>8, <2>1, TrimFacts
  <2>3. Objects(mem', clusters, obj') /\ Rooted(mem', obj', stack, global)
    BY <1>1, <2>2
  <2> QED BY <1>1, <1>2, <1>6, <1>7, <2>3 DEF HeapInv
<1>10. \A b \in Blocks(clusters) : mem'[b] = mem[b]
  BY <1>5
<1>11. \A b \in Blocks(clusters) : IsFree(mem[b]) => mem'[b + 1].w0 = mem[b + 1].w0
  BY <1>3, <1>5
<1> QED BY <1>1, <1>9, <1>10, <1>11, ProgramStep

-----------------------------------------------------------------------------
(* The theorems.                                                           *)

(* Every step keeps the invariant.                                         *)
LEMMA NextKeeps == ASSUME NoHoles, IInv, Next PROVE IInv'
<1>1. ASSUME NEW t \in DOMAIN Type, NEW pressure \in BOOLEAN, NewRec(t, pressure) PROVE IInv'
  BY <1>1, NewRecKeeps
<1>2. CASE TakeFree
  BY <1>2, TakeFreeKeeps
<1>3. CASE SkipFree
  BY <1>3, SkipFreeKeeps
<1>4. CASE Bump
  BY <1>4, BumpKeeps
<1>5. CASE NextCluster
  BY <1>5, NextClusterKeeps
<1>6. CASE CollectAndRetry
  BY <1>6, CollectAndRetryKeeps
<1>7. CASE Grow
  BY <1>7, GrowKeeps
<1>8. CASE OutOfMemory
  BY <1>8, OutOfMemoryKeeps
<1>9. CASE Collect
  BY <1>9, CollectKeeps
<1>10. CASE ClearMark
  BY <1>10, ClearMarkKeeps
<1>11. CASE ClearNext
  BY <1>11, ClearNextKeeps
<1>12. CASE ScanRoots
  BY <1>12, ScanRootsKeeps
<1>13. CASE MarkObject
  BY <1>13, MarkObjectKeeps
<1>14. CASE BeginSweep
  BY <1>14, BeginSweepKeeps
<1>15. CASE SweepBlock
  BY <1>15, SweepBlockKeeps
<1>16. CASE SweepNext
  BY <1>16, SweepNextKeeps
<1>17. CASE EndCycle
  BY <1>17, EndCycleKeeps
<1>18. ASSUME NEW p \in DOMAIN obj \cup {NIL}, NEW q \in DOMAIN obj \cup {NIL}, Store(p, q) PROVE IInv'
  BY <1>18, StoreKeeps
<1>19. ASSUME NEW w \in stack, Drop(w) PROVE IInv'
  BY <1>19, DropKeeps
<1>20. ASSUME NEW w \in stack, Advance(w) PROVE IInv'
  BY <1>20, AdvanceKeeps
<1>21. ASSUME NEW q \in DOMAIN obj \cup {NIL}, SetGlobal(q) PROVE IInv'
  BY <1>21, SetGlobalKeeps
<1> QED BY <1>1, <1>2, <1>3, <1>4, <1>5, <1>6, <1>7, <1>8, <1>9, <1>10, <1>11, <1>12, <1>13,
           <1>14, <1>15, <1>16, <1>17, <1>18, <1>19, <1>20, <1>21 DEF Next

(* A step that changes nothing keeps it, too.                              *)
LEMMA StutterKeeps == ASSUME IInv, UNCHANGED vars PROVE IInv'
<1>1. HeapInv /\ Lists /\ Marks /\ Position
  BY DEF IInv, HeapInv
<1>2. UNCHANGED <<heap, roots>> /\ mem' = mem /\ clusters' = clusters /\ obj' = obj
      /\ stack' = stack /\ global' = global
      /\ swept' = swept /\ pc' = pc /\ work' = work /\ ci' = ci /\ at' = at /\ prev' = prev
      /\ want' = want /\ back' = back
  BY DEF vars, heap, roots, loop, call
<1>3. HeapInv'
  BY <1>1, <1>2, HeapStays
<1>4. Lists' /\ Position'
  BY <1>1, <1>2 DEF Lists, OnList, Position, InSearch, InSweep, AtBlock, Known, End
<1>5. Marks'
  BY <1>1, <1>2 DEF Marks, CollectsAllGarbage, Marking, MarkedObjects, Sweeping, Ahead
<1> QED BY <1>3, <1>4, <1>5 DEF IInv, HeapInv

(* Whatever the program allocates, stores and drops, and wherever a
   collection sets in, the invariant of gc.rs holds, when no sizes of record
   types leave one unit over.                                              *)
THEOREM Invariance == ASSUME NoHoles PROVE Spec => []IInv
<1>1. Init => IInv
  BY InitHolds
<1>2. IInv /\ [Next]_vars => IInv'
  BY NextKeeps, StutterKeeps
<1> QED BY <1>1, <1>2, PTL DEF Spec

-----------------------------------------------------------------------------
(* What the invariant says.                                                *)

(* A collection leaves no garbage: every block that is not free after it is
   reachable, and no two free blocks lie side by side.                     *)
THEOREM NoGarbage == ASSUME NoHoles PROVE Spec => []CollectsAllGarbage
<1>1. IInv => CollectsAllGarbage
  BY DEF IInv, Marks
<1> QED BY <1>1, Invariance, PTL

(* What follows the links of a list stays on it.                           *)
LEMMA ChainStays ==
    ASSUME NEW c, NEW x, NEW S \in SUBSET c.block_starts, x \in S \cup {NIL},
           \A s \in S : mem[s + 1].w0 \in S \cup {NIL}
    PROVE  Chain(c, x) \subseteq S
<1>1. {x} \ {NIL} \subseteq S
  OBVIOUS
<1> QED BY <1>1 DEF Chain

(* The least-number principle.                                             *)
LEMMA Least ==
    ASSUME NEW T \in SUBSET Nat, T # {}
    PROVE  \E x \in T : \A y \in T : x <= y
<1> DEFINE Less == {ss \in Nat \X Nat : ss[1] < ss[2]}
<1>1. IsWellFoundedOn(OpToRel(<, Nat), Nat)
  BY NatLessThanWellFounded, Zenon
<1>2. IsWellFoundedOn(Less, Nat)
  BY <1>1 DEF OpToRel
<1> HIDE DEF Less
<1>3. PICK x \in T : \A y \in T : ~ (<<y, x>> \in Less)
  BY <1>2, WFMin
<1>4. ASSUME NEW y \in T PROVE x <= y
  <2>1. <<y, x>> \in Nat \X Nat /\ <<y, x>>[1] = y /\ <<y, x>>[2] = x
    OBVIOUS
  <2>2. ~ (y < x)
    BY <1>3, <2>1 DEF Less
  <2> QED BY <2>2
<1> QED BY <1>4

(* The links from its head lead to all of a list, and never back.          *)
LEMMA ChainIsList ==
    ASSUME NEW c, NEW head, NEW F \in SUBSET c.block_starts, NEW r,
           Listed(mem, head, F, r), NIL \notin F
    PROVE  /\ Chain(c, head) = F
           /\ \A b \in F : /\ mem[b + 1].w0 \in F \cup {NIL}
                           /\ b \notin Chain(c, mem[b + 1].w0)
<1> DEFINE next(b) == mem[b + 1].w0
<1>1. /\ r \in [F -> Nat] /\ head \in F \cup {NIL}
      /\ \A a \in F : next(a) = NIL \/ (next(a) \in F /\ r[a] < r[next(a)])
      /\ \A a \in F : a = head \/ \E d \in F : next(d) = a
  BY DEF Listed
<1>2. Chain(c, head) \subseteq F
  BY <1>1, ChainStays
<1>3. ASSUME NEW b \in F, NEW S \in SUBSET c.block_starts, {head} \ {NIL} \subseteq S,
             \A s \in S : next(s) \in S \cup {NIL}
      PROVE  b \in S
  <2> SUFFICES ASSUME b \notin S PROVE FALSE
    OBVIOUS
  <2> DEFINE T == {r[a] : a \in F \ S}
  <2>1. T \in SUBSET Nat /\ T # {}
    BY <1>1
  <2>2. PICK n \in T : \A k \in T : n <= k
    BY <2>1, Least
  <2>3. PICK a \in F \ S : n = r[a]
    BY <2>2
  <2>4. a # head /\ a # NIL
    BY <1>3, <2>3
  <2>5. PICK d \in F : next(d) = a
    BY <1>1, <2>3, <2>4
  <2>6. r[d] < r[a] /\ r[d] \in Nat /\ r[a] \in Nat
    BY <1>1, <2>3, <2>4, <2>5
  <2>7. d \in S
    BY <2>2, <2>3, <2>6
  <2> QED BY <1>3, <2>3, <2>4, <2>5, <2>7
<1>4. F \subseteq Chain(c, head)
  BY <1>3 DEF Chain
<1>5. ASSUME NEW b \in F PROVE b \notin Chain(c, next(b))
  <2> DEFINE S == {a \in F : r[b] < r[a]}
  <2>1. b \notin S /\ S \in SUBSET c.block_starts
    BY <1>1
  <2>2. next(b) \in S \cup {NIL}
    BY <1>1
  <2>3. ASSUME NEW s \in S PROVE next(s) \in S \cup {NIL}
    <3>1. next(s) = NIL \/ (next(s) \in F /\ r[s] < r[next(s)] /\ r[next(s)] \in Nat)
      BY <1>1
    <3>2. r[b] \in Nat /\ r[s] \in Nat /\ r[b] < r[s]
      BY <1>1
    <3> QED BY <3>1, <3>2
  <2> HIDE DEF S
  <2>4. Chain(c, next(b)) \subseteq S
    BY <2>1, <2>2, <2>3, ChainStays
  <2> QED BY <2>1, <2>4
<1> QED BY <1>1, <1>2, <1>4, <1>5

(* The free list of a cluster that is not being swept.                     *)
LEMMA FreeListIs ==
    ASSUME IInv, NEW i \in DOMAIN clusters
    PROVE  /\ OnList(i) \in SUBSET clusters[i].block_starts
           /\ clusters[i].free_list \in OnList(i) \cup {NIL}
           /\ Chain(clusters[i], clusters[i].free_list) = OnList(i)
           /\ \A b \in OnList(i) : /\ mem[b + 1].w0 \in OnList(i) \cup {NIL}
                                   /\ b \notin Chain(clusters[i], mem[b + 1].w0)
<1>1. PICK r : Listed(mem, clusters[i].free_list, OnList(i), r)
  BY DEF IInv, Lists
<1>2. OnList(i) \in SUBSET clusters[i].block_starts
  BY DEF OnList, Free
<1>3. NIL \notin OnList(i)
  BY <1>2, BlockFacts DEF IInv, NIL
<1>4. clusters[i].free_list \in OnList(i) \cup {NIL}
  BY <1>1 DEF Listed
<1> QED BY <1>1, <1>2, <1>3, <1>4, ChainIsList

(* The types, from the invariant.                                          *)
LEMMA Types == ASSUME IInv PROVE TypeOK
<1>1. Geometry(mem, clusters) /\ Placed(mem, clusters) /\ Marks /\ Position
      /\ Objects(mem, clusters, obj) /\ Rooted(mem, obj, stack, global)
  BY DEF IInv, Geometry
<1>2. mem \in [Addr -> [w0 : Nat, w1 : 0..ClusterSize]] /\ Len(clusters) <= MaxClusters
  BY <1>1 DEF Placed, Cell
<1>3. ASSUME NEW i \in DOMAIN clusters
      PROVE  /\ clusters[i].bump \in 0..ClusterSize
             /\ clusters[i].block_starts \subseteq Addr
             /\ clusters[i].free_list \in Addr \cup {NIL}
  <2>1. clusters[i] \in ClusterRec
    BY <1>1, ClusterFacts
  <2>2. clusters[i].block_starts \subseteq Addr
    BY <1>1, BlockFacts
  <2> QED BY <2>1, <2>2, FreeListIs DEF ClusterRec
<1>4. DOMAIN obj \subseteq Addr
  BY <1>1, InsideFacts
<1>5. ASSUME NEW w \in stack PROVE w \in Addr
  <2>1. PICK p \in DOMAIN obj : w \in p..(p + Type[obj[p]].units - 2)
    BY <1>1 DEF Rooted, Inside
  <2>2. p \in Nat /\ p \in Addr /\ p - 1 \in Blocks(clusters)
        /\ mem[p - 1].w1 = Type[obj[p]].units /\ Type[obj[p]].units \in Nat
    BY <1>1, InsideFacts DEF Objects
  <2>3. (p - 1) + mem[p - 1].w1 - 1 \in Addr
    BY <1>1, <2>2, BlocksApart
  <2>4. ClusterSize * MaxClusters \in Nat
    BY Constants
  <2> QED BY <2>1, <2>2, <2>3, <2>4 DEF Addr
<1>6. work \subseteq Addr
  BY <1>1, <1>4 DEF Marks, Marking
<1>7. global \in Addr \cup {NIL}
  BY <1>1, <1>4 DEF Rooted
<1>8. /\ pc \in {"run", "search", "clear", "mark", "sweep", "abort"}
      /\ want \in DOMAIN Type \cup {0} /\ back \in {"run", "first", "again"}
      /\ ci \in 0..(Len(clusters) + 1) /\ prev \in Addr \cup {NIL}
  BY <1>1 DEF Position
<1> QED BY <1>2, <1>3, <1>4, <1>5, <1>6, <1>7, <1>8 DEF TypeOK

(* In every reachable state the walk over a cluster by block_size visits
   exactly the blocks of the bitmap, and outside the sweep the free list ends
   and holds exactly the blocks whose tag says free.                       *)
THEOREM AlwaysTiled == ASSUME NoHoles PROVE Spec => []Tiled
<1>1. ASSUME IInv PROVE Tiled
  <2>1. TypeOK
    BY <1>1, Types
  <2>2. ASSUME NEW i \in DOMAIN clusters
        PROVE  LET c == clusters[i]
                   starts == c.block_starts
               IN  /\ c.bump > 0 => c.base \in starts
                   /\ \A b \in starts :
                        /\ b >= c.base /\ mem[b].w1 >= MIN_BLOCK
                        /\ b + mem[b].w1 \in starts \cup {End(i)}
                        /\ \A d \in starts \cup {End(i)} : d > b => d >= b + mem[b].w1
    <3>1. Tiling(mem, clusters[i])
      BY <1>1 DEF IInv, Geometry
    <3>2. EndOf(clusters[i]) = End(i)
      BY DEF EndOf, End
    <3> QED BY <3>1, <3>2 DEF Tiling
  <2>3. ASSUME NEW i \in DOMAIN clusters, pc # "sweep"
        PROVE  LET c == clusters[i]
                   free == {b \in c.block_starts : IsFree(mem[b])}
               IN  /\ c.free_list \in c.block_starts \cup {NIL}
                   /\ Chain(c, c.free_list) = free
                   /\ \A b \in free : /\ mem[b + 1].w0 \in free \cup {NIL}
                                      /\ b \notin Chain(c, mem[b + 1].w0)
    <3>1. OnList(i) = {b \in clusters[i].block_starts : IsFree(mem[b])}
      BY <2>3 DEF OnList, Free
    <3> QED BY <1>1, <3>1, FreeListIs
  <2> QED BY <2>1, <2>2, <2>3 DEF Tiled
<1> QED BY <1>1, Invariance, PTL

(* A reachable record keeps its header, its memory and its fields, wherever a
   collection sets in and however far it is.                               *)
THEOREM AlwaysIntact == ASSUME NoHoles PROVE Spec => []ReachableIntact
<1>1. ASSUME IInv, NEW p \in DOMAIN obj
      PROVE  LET t == obj[p]
                 last == p + Type[t].units - 2
             IN  /\ TypeOf(mem[p - 1]) = t /\ mem[p - 1].w1 >= Type[t].units
                 /\ \A q \in DOMAIN obj \ {p} : q - 1 \notin (p - 1)..last
                 /\ FreeBlocks \cap ((p - 1)..last) = {}
                 /\ Type[t].ptr => mem[p].w0 \in DOMAIN obj \cup {NIL}
  <2> DEFINE s == Type[obj[p]].units
  <2>1. Geometry(mem, clusters) /\ Objects(mem, clusters, obj)
    BY <1>1 DEF IInv
  <2>2. /\ p \in Nat /\ p - 1 \in Blocks(clusters) /\ s \in Nat /\ s >= 2
        /\ TypeOf(mem[p - 1]) = obj[p] /\ mem[p - 1].w1 = s
        /\ ~ IsFree(mem[p - 1])
        /\ Type[obj[p]].ptr => mem[p].w0 \in DOMAIN obj \cup {NIL}
    BY <2>1, InsideFacts DEF Objects
  <2>3. ASSUME NEW b \in Blocks(clusters), b \in (p - 1)..(p + s - 2) PROVE b = p - 1
    <3>1. b \in Nat /\ mem[b].w1 \in Nat /\ mem[b].w1 >= 2
      BY <2>1, BlocksApart
    <3>2. b \in b..(b + mem[b].w1 - 1) /\ b \in (p - 1)..((p - 1) + mem[p - 1].w1 - 1)
      BY <2>2, <2>3, <3>1
    <3> QED BY <2>1, <2>2, <3>2, BlocksApart
  <2>4. \A q \in DOMAIN obj \ {p} : q - 1 \in Blocks(clusters) /\ q \in Nat /\ q - 1 # p - 1
    BY <2>1, <2>2, InsideFacts
  <2>5. ASSUME NEW b \in FreeBlocks PROVE b \in Blocks(clusters) /\ IsFree(mem[b])
    BY <1>1, FreeListIs DEF FreeBlocks, OnList, Free, Blocks
  <2> QED BY <2>2, <2>3, <2>4, <2>5
<1>2. IInv => ReachableIntact
  BY <1>1, Zenon DEF ReachableIntact
<1> QED BY <1>2, Invariance, PTL

=============================================================================
