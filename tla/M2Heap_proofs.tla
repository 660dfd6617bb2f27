--------------------------- MODULE M2Heap_proofs ----------------------------
(***************************************************************************)
(* The allocator for every memory, chunk size and sequence of requests:    *)
(* the heap stays a tiling by blocks whose free ones are on the list, what *)
(* the program holds is never written, and a second free is recognised.    *)
(*                                                                         *)
(* Blocks, sentinels, chunks and the free list are met in the model by     *)
(* walking; the invariant speaks of the sets B, S and C and of the links   *)
(* themselves, and the last section shows that the walks find them.        *)
(***************************************************************************)
EXTENDS M2Heap, FiniteSetTheorems, WellFoundedInduction, TLAPS

Even == {n \in Nat : n % 2 = 0}
Word == 0..(Wrap - 1)

(* Blocks, sentinels and chunks begin at even addresses below top, the first
   address the system has not given.                                       *)
Places(m, top, B, S, C) ==
    /\ m \in [Addr -> Word]
    /\ top \in Even /\ 2 <= top /\ top <= Memory + 2
    /\ B \cup S \cup C \subseteq Even
    /\ B \cap S = {}
    /\ \A x \in B \cup S \cup C : 2 <= x /\ x + 2 <= top

(* A block ends where the next one or the sentinel begins, and nothing begins
   inside it.                                                              *)
Spans(m, B, S, C) ==
    \A b \in B :
        /\ BlkSize(m, b) \in Even /\ BlkSize(m, b) >= MinBlock
        /\ b + BlkSize(m, b) \in B \cup S
        /\ \A x \in B \cup S \cup C : x > b => x >= b + BlkSize(m, b)

(* The boundary tag: zero in the first block of a chunk, otherwise the size of
   the block before.                                                       *)
Tags(m, B, S, C) ==
    \A x \in B \cup S :
        \/ x - ChunkMeta \in C /\ BlkPrev(m, x) = 0
        \/ \E b \in B : b + BlkSize(m, b) = x /\ BlkPrev(m, x) = BlkSize(m, b)

(* A chunk begins with a block and ends with a sentinel; the list of chunks
   goes through all of them, newest and highest first.                     *)
ChunkList(m, first, top, B, S, C) ==
    /\ \A s \in S : BlkAlloc(m, s) /\ \E c \in C : s = c + m[c + 1] - Sentinel
    /\ \A b \in B : \E c \in C : c < b /\ b < c + m[c + 1] - Sentinel
    /\ \A c \in C :
         /\ m[c + 1] \in Even /\ m[c + 1] >= ChunkMeta + MinBlock + Sentinel
         /\ c + ChunkMeta \in B /\ c + m[c + 1] - Sentinel \in S
         /\ \A d \in C : d > c => d >= c + m[c + 1]
         /\ \/ m[c] = NIL /\ \A d \in C : c <= d
            \/ m[c] \in C /\ m[c] < c /\ \A d \in C : d < c => d <= m[c]
    /\ \/ first = NIL /\ C = {}
       \/ first \in C /\ \A d \in C : d <= first

(* F is the set of blocks on the free list, linked in both directions; the
   rank r grows along the list, which therefore has no cycle.              *)
Listed(m, free, F, r) ==
    /\ r \in [F -> Nat]
    /\ free \in F \cup {NIL}
    /\ \A b \in F :
         /\ \/ FNext(m, b) = NIL
            \/ /\ FNext(m, b) \in F /\ FPrev(m, FNext(m, b)) = b
               /\ r[b] < r[FNext(m, b)]
         /\ \/ FPrev(m, b) = NIL /\ b = free
            \/ FPrev(m, b) \in F /\ FNext(m, FPrev(m, b)) = b /\ b # free

Frees(m, B) == {b \in B : ~ BlkAlloc(m, b)}

NoTwoFree(m, B) == \A b \in Frees(m, B) : BlkAlloc(m, b + BlkSize(m, b))

Geometry(m, first, top, B, S, C) ==
    Places(m, top, B, S, C) /\ Spans(m, B, S, C) /\ Tags(m, B, S, C)
    /\ ChunkList(m, first, top, B, S, C)

Heap(h) == h = [m |-> h.m, free |-> h.free]

Shape(h, first, top, B, S, C) ==
    /\ Heap(h)
    /\ Geometry(h.m, first, top, B, S, C)
    /\ NoTwoFree(h.m, B)
    /\ \E r : Listed(h.m, h.free, Frees(h.m, B), r)

-----------------------------------------------------------------------------
(* The invariant.                                                          *)

Taken(m, B) == B \ Frees(m, B)

(* The words of the allocated blocks.                                      *)
Cells(m, B) ==
    {a \in Addr : \E b \in Taken(m, B) : b <= a /\ a < b + BlkSize(m, b)}

(* The words of free blocks that do not look like an allocated block.      *)
Idle(m, B) ==
    {a \in Addr : /\ a \in Even /\ ~ BlkAlloc(m, a)
                  /\ \E f \in Frees(m, B) : f <= a /\ a < f + BlkSize(m, f)}

(* What the program holds and what it has freed.                           *)
Holdings(m, B) ==
    /\ DOMAIN owned = {b + Hdr : b \in Taken(m, B)}
    /\ \A p \in DOMAIN owned :
         /\ owned[p] \in Request
         /\ BlkSize(m, p - Hdr) >= owned[p] + Hdr
         /\ \A a \in p..(p + owned[p] - 1) : m[a] = 1
    /\ gInUse = Cardinality(Cells(m, B))
    /\ dirty = FALSE
    /\ stale \subseteq {a + Hdr : a \in Idle(m, B)}

Good(B, S, C) == Shape(Now, gFirstChunk, brk, B, S, C) /\ Holdings(mem, B)
IInv == \E B, S, C : Good(B, S, C)

-----------------------------------------------------------------------------
(* Numbers.                                                                *)

(* The assumption on the constants, with the sizes written out.            *)
LEMMA Constants ==
    /\ Wrap \in Even /\ DefaultChunk \in Even /\ Page \in Even /\ Memory \in Even
    /\ Wrap > 0 /\ DefaultChunk >= 8 /\ Page > 0 /\ Memory > 0 /\ Memory < Wrap
    /\ Wrap % Page = 0 /\ Request \subseteq 0..(Wrap - 1)
BY HeapAssumption DEF HeapAssumption, Even, ChunkMeta, MinBlock, Sentinel

(* The even numbers this module names are natural.                         *)
LEMMA EvenNat == /\ 0 \in Even /\ 2 \in Even /\ 4 \in Even
                 /\ Even \subseteq Nat
BY DEF Even

(* What the program asks for is a natural number.                          *)
LEMMA RequestNat == \A size \in Request : size \in Nat
<1>1. Request \subseteq 0..(Wrap - 1)
  BY Constants
<1> QED BY <1>1

(* Sums and differences of even numbers are even.                          *)
LEMMA EvenSum == \A a, b \in Even : a + b \in Even /\ (b <= a => a - b \in Even)
BY DEF Even

(* Even numbers that differ are two apart.                                 *)
LEMMA EvenGap == \A a, b \in Even : a # b + 1 /\ (a < b => a + 2 <= b)
BY DEF Even

(* Addresses are words and are not NIL.                                    *)
LEMMA AddrFacts ==
    /\ \A a \in Addr : a \in Nat /\ a \in Word /\ a # NIL /\ 2 <= a /\ a <= Memory + 1
    /\ \A a \in Nat : 2 <= a /\ a <= Memory + 1 => a \in Addr
    /\ Memory \in Nat /\ Wrap \in Nat /\ Memory + 2 <= Wrap /\ NIL = 0
<1>1. Memory \in Nat /\ Wrap \in Nat /\ Memory + 2 <= Wrap
  BY Constants, EvenNat, EvenGap
<1> QED BY <1>1 DEF Addr, Word, NIL

(* The size word: an even size and the flag.                               *)
LEMMA SizeWord ==
    ASSUME NEW size \in Even
    PROVE  /\ size - (size % 2) = size /\ size % 2 = 0
           /\ (size + 1) - ((size + 1) % 2) = size /\ (size + 1) % 2 = 1
BY DEF Even

(* The least-number principle for sets, and induction from it.             *)
LEMMA Least ==
    ASSUME NEW T \in SUBSET Nat, T # {}
    PROVE  \E x \in T : \A y \in T : x <= y
<1> DEFINE R == {ss \in Nat \X Nat : ss[1] < ss[2]}
<1>1. IsWellFoundedOn(OpToRel(<, Nat), Nat)
  BY NatLessThanWellFounded, Zenon
<1>2. IsWellFoundedOn(R, Nat)
  BY <1>1 DEF OpToRel
<1> HIDE DEF R
<1>3. \E x \in T : \A y \in T : ~ (<<y, x>> \in R)
  BY <1>2, WFMin
<1>4. PICK x \in T : \A y \in T : <<y, x>> \notin R
  BY <1>3
<1>5. ASSUME NEW y \in T PROVE x <= y
  <2>1. <<y, x>> \in Nat \X Nat /\ <<y, x>>[1] = y /\ <<y, x>>[2] = x
    OBVIOUS
  <2>2. ~ (y < x)
    BY <1>4, <2>1 DEF R
  <2> QED BY <2>2
<1> QED BY <1>5

(* Induction up to n, for a set.                                           *)
LEMMA Induction ==
    ASSUME NEW n \in Nat, NEW T, 0 \in T, \A k \in 0..(n - 1) : k \in T => k + 1 \in T
    PROVE  0..n \subseteq T
<1> SUFFICES ASSUME NEW k \in 0..n, k \notin T PROVE FALSE
  OBVIOUS
<1> DEFINE U == {i \in 0..n : i \notin T}
<1>1. U \in SUBSET Nat /\ U # {}
  OBVIOUS
<1>2. PICK x \in U : \A y \in U : x <= y
  BY <1>1, Least
<1>3. x \in 1..n /\ x - 1 \in 0..(n - 1) /\ x - 1 \in 0..n /\ x - 1 + 1 = x /\ ~ x <= x - 1
  BY <1>2
<1>4. x - 1 \in T
  BY <1>2, <1>3
<1> QED BY <1>2, <1>3, <1>4

-----------------------------------------------------------------------------
(* The free list.  Its links are the words b + 2 and b + 3 of its blocks.  *)

Links(F) == {b + 2 : b \in F} \cup {b + 3 : b \in F}

(* The four words of a listed block are its own.                           *)
Apart(F) == /\ F \subseteq Even
            /\ \A b \in F : b \in Addr /\ b + 2 \in Addr /\ b + 3 \in Addr
            /\ \A b, c \in F : b < c => b + 4 <= c

(* What writing a list may change: links, and by even words.               *)
Relinks(m, n, F) ==
    /\ n \in [Addr -> Word]
    /\ \A a \in Addr : a \notin Links(F) => n[a] = m[a]
    /\ \A a \in Addr : n[a] = m[a] \/ n[a] \in Even

(* The links of two blocks are different words.                            *)
LEMMA LinksApart ==
    ASSUME NEW F, Apart(F), NEW b \in F, NEW c \in F
    PROVE  /\ b + 2 # c + 3 /\ b + 2 # b + 3 /\ b \in Nat /\ b \in Even
           /\ b # c => b + 2 # c + 2 /\ b + 3 # c + 3
           /\ b \in Word /\ b # NIL
<1>1. b \in Even /\ c \in Even /\ b \in Nat /\ c \in Nat /\ b \in Addr
  BY EvenNat DEF Apart
<1>2. b # c + 1
  BY <1>1, EvenGap
<1> QED BY <1>1, <1>2, AddrFacts

(* Writing elsewhere leaves the list as it is.                             *)
LEMMA ListFrame ==
    ASSUME NEW m, NEW n, NEW free, NEW F, NEW r, Listed(m, free, F, r),
           \A a \in Links(F) : n[a] = m[a]
    PROVE  Listed(n, free, F, r)
<1>1. \A b \in F : FNext(n, b) = FNext(m, b) /\ FPrev(n, b) = FPrev(m, b)
  BY DEF Links, FNext, FPrev
<1> QED BY <1>1 DEF Listed

(* InsertFree puts a block in front.                                       *)
LEMMA ListInsert ==
    ASSUME NEW h, NEW F, NEW r, NEW b, h.m \in [Addr -> Word],
           Listed(h.m, h.free, F, r), b \notin F, Apart(F \cup {b})
    PROVE  LET h1 == InsertFree(h, b) IN
           /\ Heap(h1) /\ Relinks(h.m, h1.m, F \cup {b})
           /\ \E r1 : Listed(h1.m, h1.free, F \cup {b}, r1)
<1> DEFINE h1 == InsertFree(h, b)
           m  == h.m
           m1 == h1.m
           G  == F \cup {b}
           r1 == [x \in G |-> IF x = b THEN 0 ELSE r[x] + 1]
           linked == [m EXCEPT ![b + 2] = h.free, ![b + 3] = NIL]
<1>1. Heap(h1) /\ h1.free = b
  BY DEF InsertFree, Heap
<1>2. m1 = IF h.free # NIL THEN [linked EXCEPT ![h.free + 3] = b] ELSE linked
  BY DEF InsertFree
<1>3. \A x, y \in G : /\ x \in Nat /\ x # NIL /\ x \in Word /\ x \in Even
                       /\ x + 2 \in Addr /\ x + 3 \in Addr
                       /\ x + 2 # y + 3 /\ (x # y => x + 2 # y + 2 /\ x + 3 # y + 3)
  BY LinksApart DEF Apart
<1>4. NIL \in Word /\ NIL \in Even /\ h.free \in F \cup {NIL}
  BY EvenNat, AddrFacts DEF NIL, Word, Listed
<1>5. /\ m1 \in [Addr -> Word]
      /\ m1[b + 2] = h.free /\ m1[b + 3] = NIL
      /\ h.free # NIL => m1[h.free + 3] = b
      /\ \A a \in Addr : a # b + 2 /\ a # b + 3 /\ (h.free = NIL \/ a # h.free + 3) => m1[a] = m[a]
  <2>1. b \in G /\ b + 2 # b + 3
    BY <1>3
  <2> HIDE DEF m, m1, h1
  <2>2. CASE h.free = NIL
    BY <1>2, <1>3, <1>4, <2>1, <2>2 DEF m
  <2>3. CASE h.free # NIL
    <3>1. h.free \in G /\ h.free # b
      BY <1>4, <2>3
    <3>2. h.free + 3 \in Addr /\ h.free + 3 # b + 3 /\ h.free + 3 # b + 2
      BY <1>3, <2>1, <3>1
    <3> QED BY <1>2, <1>3, <1>4, <2>1, <2>3, <3>1, <3>2 DEF m
  <2> QED BY <2>2, <2>3
<1> HIDE DEF m, m1, h1, linked
<1>6. Relinks(m, m1, G)
  <2>1. b + 2 \in Links(G) /\ b + 3 \in Links(G) /\ (h.free # NIL => h.free + 3 \in Links(G))
    BY <1>4 DEF Links
  <2> HIDE DEF G
  <2>2. b \in Even /\ h.free \in Even
    BY <1>3, <1>4 DEF G
  <2> QED BY <1>4, <1>5, <2>1, <2>2 DEF Relinks
<1>7. \A x \in F : FNext(m1, x) = FNext(m, x)
                   /\ FPrev(m1, x) = IF x = h.free THEN b ELSE FPrev(m, x)
  <2> SUFFICES ASSUME NEW x \in F
               PROVE  /\ m1[x + 2] = m[x + 2]
                      /\ m1[x + 3] = IF x = h.free THEN b ELSE m[x + 3]
    BY DEF FNext, FPrev
  <2>1. x \in G /\ b \in G /\ x # b /\ x # NIL
    BY <1>3
  <2>2. x + 2 \in Addr /\ x + 3 \in Addr /\ x + 2 # b + 2 /\ x + 2 # b + 3 /\ x + 3 # b + 2 /\ x + 3 # b + 3
    BY <1>3, <2>1
  <2>3. CASE h.free = NIL
    BY <1>5, <2>1, <2>2, <2>3
  <2>4. CASE h.free # NIL
    <3>1. h.free \in G /\ x + 2 # h.free + 3 /\ (x # h.free => x + 3 # h.free + 3)
      BY <1>3, <1>4, <2>1, <2>4
    <3> QED BY <1>5, <2>1, <2>2, <2>4, <3>1
  <2> QED BY <2>3, <2>4
<1>8. FNext(m1, b) = h.free /\ FPrev(m1, b) = NIL
  BY <1>5 DEF FNext, FPrev
<1>9. r1 \in [G -> Nat] /\ r1[b] = 0 /\ \A x \in F : r[x] \in Nat /\ r1[x] = r[x] + 1
  <2>1. r \in [F -> Nat]
    BY DEF Listed
  <2> QED BY <2>1
<1> HIDE DEF r1
<1>10. Listed(m1, b, G, r1)
  <2>1. ASSUME NEW x \in F
        PROVE  /\ \/ FNext(m1, x) = NIL
                  \/ /\ FNext(m1, x) \in G /\ FPrev(m1, FNext(m1, x)) = x
                     /\ r1[x] < r1[FNext(m1, x)]
               /\ FPrev(m1, x) \in G /\ FNext(m1, FPrev(m1, x)) = x /\ x # b
    <3> DEFINE y == FNext(m, x)
               z == FPrev(m, x)
    <3>1. /\ y = NIL \/ (y \in F /\ FPrev(m, y) = x /\ r[x] < r[y])
          /\ (z = NIL /\ x = h.free) \/ (z \in F /\ FNext(m, z) = x /\ x # h.free)
      BY DEF Listed, m
    <3>2. y \in F => y # h.free
      <4>1. y \in F /\ y = h.free => FPrev(m, y) = NIL
        BY DEF Listed, m
      <4>2. x # NIL
        BY <1>3
      <4>3. y # NIL \/ y \notin F
        BY <1>3
      <4> QED BY <3>1, <4>1, <4>2, <4>3
    <3> HIDE DEF y, z
    <3>3. FNext(m1, x) = y /\ FPrev(m1, x) = IF x = h.free THEN b ELSE z
      BY <1>7 DEF y, z
    <3>4. y \in F => FPrev(m1, y) = FPrev(m, y)
      BY <1>7, <3>2
    <3>5. z \in F => FNext(m1, z) = FNext(m, z)
      BY <1>7
    <3>6. y \in F /\ r[x] < r[y] => r1[x] < r1[y]
      BY <1>9
    <3> QED BY <1>8, <3>1, <3>2, <3>3, <3>4, <3>5, <3>6
  <2>2. /\ \/ FNext(m1, b) = NIL
           \/ /\ FNext(m1, b) \in G /\ FPrev(m1, FNext(m1, b)) = b
              /\ r1[b] < r1[FNext(m1, b)]
        /\ FPrev(m1, b) = NIL
    <3>1. h.free \in F => FPrev(m1, h.free) = b /\ r1[b] < r1[h.free]
      BY <1>7, <1>9
    <3> QED BY <1>4, <1>8, <3>1
  <2> QED BY <1>9, <2>1, <2>2 DEF Listed
<1> QED BY <1>1, <1>6, <1>10 DEF m, m1, h1

(* RemoveFree takes out a listed block, wherever it is.                    *)
LEMMA ListRemove ==
    ASSUME NEW h, NEW F, NEW r, NEW b \in F, Heap(h), h.m \in [Addr -> Word],
           Listed(h.m, h.free, F, r), Apart(F)
    PROVE  LET h1 == RemoveFree(h, b) IN
           /\ Heap(h1) /\ Relinks(h.m, h1.m, F \ {b})
           /\ \E r1 : Listed(h1.m, h1.free, F \ {b}, r1)
<1> DEFINE m  == h.m
           nx == FNext(m, b)
           pv == FPrev(m, b)
           n1 == IF pv # NIL THEN [m EXCEPT ![pv + 2] = nx] ELSE m
           n2 == IF nx # NIL THEN [n1 EXCEPT ![nx + 3] = pv] ELSE n1
           free2 == IF pv # NIL THEN h.free ELSE nx
           G  == F \ {b}
           r1 == [x \in G |-> r[x]]
<1>1. RemoveFree(h, b) = [m |-> n2, free |-> free2]
  <2>1. h = [m |-> m, free |-> h.free]
    BY DEF Heap
  <2> DEFINE cut == IF pv # NIL THEN [h EXCEPT !.m[pv + 2] = nx] ELSE [h EXCEPT !.free = nx]
  <2>2. cut = [m |-> n1, free |-> free2]
    <3>1. CASE pv # NIL
      <4>1. [h EXCEPT !.m[pv + 2] = nx] = [m |-> [m EXCEPT ![pv + 2] = nx], free |-> h.free]
        BY <2>1
      <4> QED BY <3>1, <4>1
    <3>2. CASE pv = NIL
      <4>1. [h EXCEPT !.free = nx] = [m |-> m, free |-> nx]
        BY <2>1
      <4> QED BY <3>2, <4>1
    <3> QED BY <3>1, <3>2
  <2>3. [cut EXCEPT !.m[nx + 3] = pv] = [m |-> [n1 EXCEPT ![nx + 3] = pv], free |-> free2]
    BY <2>2
  <2> QED BY <2>2, <2>3 DEF RemoveFree
<1>2. \A x, y \in F : /\ x \in Nat /\ x # NIL /\ x \in Word /\ x \in Even
                       /\ x + 2 \in Addr /\ x + 3 \in Addr
                       /\ x + 2 # y + 3 /\ (x # y => x + 2 # y + 2 /\ x + 3 # y + 3)
  BY LinksApart DEF Apart
<1>3. NIL \in Word /\ NIL \in Even /\ h.free \in F \cup {NIL}
  BY EvenNat, AddrFacts DEF NIL, Word, Listed
<1>4. r \in [F -> Nat]
  BY DEF Listed
<1>5. \A x \in F :
         /\ \/ FNext(m, x) = NIL
            \/ /\ FNext(m, x) \in F /\ FPrev(m, FNext(m, x)) = x
               /\ r[x] < r[FNext(m, x)]
         /\ \/ FPrev(m, x) = NIL /\ x = h.free
            \/ FPrev(m, x) \in F /\ FNext(m, FPrev(m, x)) = x /\ x # h.free
  BY DEF Listed
<1>6. /\ nx = NIL \/ (nx \in G /\ FPrev(m, nx) = b /\ r[b] < r[nx] /\ nx # h.free)
      /\ (pv = NIL /\ b = h.free) \/ (pv \in G /\ FNext(m, pv) = b /\ r[pv] < r[b] /\ b # h.free)
  <2>1. nx = NIL \/ (nx \in F /\ FPrev(m, nx) = b /\ r[b] < r[nx])
    BY <1>5
  <2>2. (pv = NIL /\ b = h.free) \/ (pv \in F /\ FNext(m, pv) = b /\ b # h.free)
    BY <1>5
  <2>3. r[b] \in Nat
    BY <1>4
  <2>4. b # NIL
    BY <1>2
  <2>5. nx # b \/ nx = NIL
    BY <2>1, <2>3
  <2>6. pv \in F => r[pv] < r[b]
    <3>1. pv \in F => FNext(m, pv) = b
      BY <1>2, <2>2
    <3> HIDE DEF pv
    <3>2. pv \in F => FNext(m, pv) = NIL \/ r[pv] < r[FNext(m, pv)]
      BY <1>5
    <3> QED BY <2>4, <3>1, <3>2
  <2>7. pv # b \/ pv \notin F
    BY <2>3, <2>6
  <2>8. nx \in F => nx # h.free
    BY <1>2, <1>5, <2>1
  <2> QED BY <2>1, <2>2, <2>5, <2>6, <2>7, <2>8
<1>7. pv \in Word /\ nx \in Word /\ pv \in Even /\ nx \in Even
  <2> HIDE DEF pv, nx
  <2> QED BY <1>2, <1>3, <1>6
<1>8. /\ n2 \in [Addr -> Word]
      /\ pv # NIL => n2[pv + 2] = nx
      /\ nx # NIL => n2[nx + 3] = pv
      /\ \A a \in Addr : (pv = NIL \/ a # pv + 2) /\ (nx = NIL \/ a # nx + 3) => n2[a] = m[a]
  <2>0. m \in [Addr -> Word]
    OBVIOUS
  <2> HIDE DEF pv, nx, m
  <2>1. pv # NIL => pv \in F /\ pv + 2 \in Addr
    BY <1>2, <1>6
  <2>2. nx # NIL => nx \in F /\ nx + 3 \in Addr
    BY <1>2, <1>6
  <2>3. pv # NIL /\ nx # NIL => pv + 2 # nx + 3
    BY <1>2, <2>1, <2>2
  <2>4. /\ n1 \in [Addr -> Word]
        /\ pv # NIL => n1[pv + 2] = nx
        /\ \A a \in Addr : (pv = NIL \/ a # pv + 2) => n1[a] = m[a]
    BY <1>7, <2>0, <2>1
  <2> HIDE DEF n1
  <2> QED BY <1>7, <2>1, <2>2, <2>3, <2>4
<1> HIDE DEF m, nx, pv, n1, n2
<1>9. Relinks(m, n2, G)
  <2>1. (pv # NIL => pv + 2 \in Links(G)) /\ (nx # NIL => nx + 3 \in Links(G))
    BY <1>6 DEF Links
  <2> HIDE DEF G
  <2> QED BY <1>7, <1>8, <2>1 DEF Relinks
<1>10. \A x \in G : /\ FNext(n2, x) = IF x = pv THEN nx ELSE FNext(m, x)
                    /\ FPrev(n2, x) = IF x = nx THEN pv ELSE FPrev(m, x)
  <2> SUFFICES ASSUME NEW x \in G
               PROVE  /\ n2[x + 2] = IF x = pv THEN nx ELSE m[x + 2]
                      /\ n2[x + 3] = IF x = nx THEN pv ELSE m[x + 3]
    BY DEF FNext, FPrev
  <2>1. x \in F /\ x # NIL /\ x + 2 \in Addr /\ x + 3 \in Addr
    BY <1>2
  <2>2. pv # NIL => x + 3 # pv + 2 /\ (x # pv => x + 2 # pv + 2)
    BY <1>2, <1>6, <2>1
  <2>3. nx # NIL => x + 2 # nx + 3 /\ (x # nx => x + 3 # nx + 3)
    BY <1>2, <1>6, <2>1
  <2> QED BY <1>8, <2>1, <2>2, <2>3
<1>11. r1 \in [G -> Nat] /\ \A x \in G : r1[x] = r[x] /\ r[x] \in Nat
  BY <1>4
<1> HIDE DEF r1
<1>12. free2 \in G \cup {NIL}
  BY <1>3, <1>6
<1>13. ASSUME NEW x \in G
       PROVE  /\ \/ FNext(n2, x) = NIL
                 \/ /\ FNext(n2, x) \in G /\ FPrev(n2, FNext(n2, x)) = x
                    /\ r1[x] < r1[FNext(n2, x)]
              /\ \/ FPrev(n2, x) = NIL /\ x = free2
                 \/ FPrev(n2, x) \in G /\ FNext(n2, FPrev(n2, x)) = x /\ x # free2
  <2> DEFINE y == FNext(m, x)
             z == FPrev(m, x)
  <2>1. /\ y = NIL \/ (y \in F /\ FPrev(m, y) = x /\ r[x] < r[y])
        /\ (z = NIL /\ x = h.free) \/ (z \in F /\ FNext(m, z) = x /\ x # h.free)
    BY <1>5
  <2>2. x \in F /\ x # b /\ x # NIL /\ b # NIL /\ NIL \notin F
    BY <1>2
  <2>3. y = b => x = pv
    BY <2>1, <2>2 DEF pv
  <2>4. z = b => x = nx
    BY <2>1, <2>2 DEF nx
  <2>5. x = pv => y = b
    BY <1>6, <2>2
  <2>6. x = nx => z = b
    BY <1>6, <2>2
  <2> HIDE DEF y, z
  <2>7. /\ FNext(n2, x) = IF x = pv THEN nx ELSE y
        /\ FPrev(n2, x) = IF x = nx THEN pv ELSE z
    BY <1>10 DEF y, z
  <2>8. \/ FNext(n2, x) = NIL
        \/ /\ FNext(n2, x) \in G /\ FPrev(n2, FNext(n2, x)) = x
           /\ r1[x] < r1[FNext(n2, x)]
    <3>1. CASE x = pv
      <4>1. nx \in G => r[b] \in Nat /\ r[x] < r[b] /\ r[b] < r[nx]
        BY <1>4, <1>6, <2>2, <3>1
      <4>2. nx \in G => r1[x] < r1[nx]
        BY <1>11, <4>1
      <4>3. nx \in G => FPrev(n2, nx) = pv
        BY <1>10
      <4> QED BY <1>6, <2>7, <3>1, <4>2, <4>3
    <3>2. CASE x # pv
      <4>1. y = NIL \/ (y \in G /\ FPrev(m, y) = x /\ r1[x] < r1[y])
        BY <1>11, <2>1, <2>3, <3>2
      <4>2. y \in G => y # nx
        BY <1>6, <2>2, <4>1
      <4>3. y \in G => FPrev(n2, y) = x
        BY <1>10, <2>2, <4>1, <4>2
      <4> QED BY <2>7, <3>2, <4>1, <4>3
    <3> QED BY <3>1, <3>2
  <2>9. \/ FPrev(n2, x) = NIL /\ x = free2
        \/ FPrev(n2, x) \in G /\ FNext(n2, FPrev(n2, x)) = x /\ x # free2
    <3>1. CASE x = nx
      <4>1. pv \in G => FNext(n2, pv) = nx
        BY <1>10
      <4> QED BY <1>6, <2>2, <2>7, <3>1, <4>1
    <3>2. CASE x # nx
      <4>1. (z = NIL /\ x = h.free) \/ (z \in G /\ FNext(m, z) = x /\ x # h.free)
        BY <2>1, <2>4, <3>2
      <4>2. z \in G => z # pv
        BY <1>6, <2>2, <4>1
      <4>3. z \in G => FNext(n2, z) = x
        BY <1>10, <2>2, <4>1, <4>2
      <4>4. z = NIL => pv # NIL
        BY <1>6, <2>2, <4>1
      <4> QED BY <1>6, <2>2, <2>7, <3>2, <4>1, <4>3, <4>4
    <3> QED BY <3>1, <3>2
  <2> QED BY <2>8, <2>9
<1>14. Listed(n2, free2, G, r1)
  BY <1>11, <1>12, <1>13 DEF Listed
<1> HIDE DEF free2
<1> QED BY <1>1, <1>9, <1>14 DEF Heap, m

(* A walk from d by the steps of g exists; it is what the recursive
   definitions of the model choose.                                        *)
Follows(f, D, g, d, K) ==
    /\ f \in [0..K -> D]
    /\ f[0] = d
    /\ \A i \in 0..(K - 1) : f[i + 1] = g[f[i]]

(* A walk of K steps exists.                                               *)
LEMMA WalkExists ==
    ASSUME NEW D, NEW g \in [D -> D], NEW d \in D, NEW K \in Nat
    PROVE  \E f : Follows(f, D, g, d, K)
<1> DEFINE T == {k \in Nat : \E f \in [0..k -> D] :
                     f[0] = d /\ \A i \in 0..(k - 1) : f[i + 1] = g[f[i]]}
<1>1. 0 \in T
  <2> DEFINE f == [i \in 0..0 |-> d]
  <2>1. f \in [0..0 -> D] /\ f[0] = d /\ \A i \in 0..(0 - 1) : f[i + 1] = g[f[i]]
    OBVIOUS
  <2> QED BY <2>1
<1>2. ASSUME NEW k \in 0..(K - 1), k \in T PROVE k + 1 \in T
  <2>1. PICK f \in [0..k -> D] : f[0] = d /\ \A i \in 0..(k - 1) : f[i + 1] = g[f[i]]
    BY <1>2
  <2> DEFINE e == [i \in 0..(k + 1) |-> IF i = k + 1 THEN g[f[k]] ELSE f[i]]
  <2>2. k \in Nat /\ f[k] \in D /\ \A i \in 0..(k + 1) : i # k + 1 => i \in 0..k
    OBVIOUS
  <2>3. e \in [0..(k + 1) -> D] /\ e[k + 1] = g[f[k]] /\ \A i \in 0..k : e[i] = f[i]
    BY <2>2
  <2>4. e[0] = d
    BY <2>1, <2>3
  <2>5. ASSUME NEW i \in 0..((k + 1) - 1) PROVE e[i + 1] = g[e[i]]
    <3>1. CASE i = k
      BY <2>2, <2>3, <3>1
    <3>2. CASE i # k
      <4>1. i \in 0..(k - 1) /\ i \in 0..k /\ i + 1 \in 0..k
        BY <3>2
      <4> HIDE DEF e
      <4> QED BY <2>1, <2>3, <4>1
    <3> QED BY <3>1, <3>2
  <2> HIDE DEF e
  <2> QED BY <2>2, <2>3, <2>4, <2>5
<1> HIDE DEF T
<1>3. 0..K \subseteq T
  BY <1>1, <1>2, Induction
<1>4. K \in T
  BY <1>3
<1> QED BY <1>4 DEF T, Follows

(* The bound of the walks is a natural number.                             *)
LEMMA MaxBlocksNat == MaxBlocks \in Nat
BY Constants, EvenNat DEF MaxBlocks, MinBlock

(* The walk along the free list.                                           *)
LEMMA NthWalks ==
    ASSUME NEW h, NEW F, NEW r, Listed(h.m, h.free, F, r), NIL \notin F
    PROVE  /\ Nth(h) \in [0..MaxBlocks -> F \cup {NIL}]
           /\ Nth(h)[0] = h.free
           /\ \A k \in 0..(MaxBlocks - 1) :
                Nth(h)[k + 1] = IF Nth(h)[k] = NIL THEN NIL ELSE FNext(h.m, Nth(h)[k])
<1> DEFINE D == F \cup {NIL}
           g == [x \in D |-> IF x = NIL THEN NIL ELSE FNext(h.m, x)]
           K == MaxBlocks
           Eq(at) == at = [k \in 0..K |->
                             IF k = 0 THEN h.free
                             ELSE LET b == at[k - 1] IN IF b = NIL THEN NIL ELSE FNext(h.m, b)]
<1>1. g \in [D -> D] /\ h.free \in D
  BY DEF Listed
<1>2. PICK f : f \in [0..K -> D] /\ f[0] = h.free /\ \A i \in 0..(K - 1) : f[i + 1] = g[f[i]]
  <2>1. K \in Nat
    BY MaxBlocksNat
  <2> HIDE DEF D, g, K
  <2>2. \E f : Follows(f, D, g, h.free, K)
    BY <1>1, <2>1, WalkExists
  <2> QED BY <2>2 DEF Follows
<1>3. K \in Nat
  BY MaxBlocksNat
<1> HIDE DEF K
<1>4. ASSUME NEW k \in 0..K, k # 0 PROVE f[k] = g[f[k - 1]] /\ k - 1 \in 0..K
  <2>1. k - 1 \in 0..(K - 1) /\ (k - 1) + 1 = k /\ k - 1 \in 0..K
    BY <1>3, <1>4
  <2> HIDE DEF g
  <2>2. f[(k - 1) + 1] = g[f[k - 1]]
    BY <1>2, <2>1
  <2> QED BY <2>1, <2>2
<1>5. Eq(f)
  <2>1. ASSUME NEW k \in 0..K
        PROVE  f[k] = IF k = 0 THEN h.free
                      ELSE IF f[k - 1] = NIL THEN NIL ELSE FNext(h.m, f[k - 1])
    <3>1. k # 0 => f[k - 1] \in D
      BY <1>2, <1>4
    <3>2. CASE k = 0
      BY <1>2, <3>2
    <3>3. CASE k # 0
      BY <1>4, <3>1, <3>3
    <3> QED BY <3>2, <3>3
  <2> QED BY <1>2, <2>1
<1>6. Nth(h) = CHOOSE at : Eq(at)
  BY DEF Nth, K
<1> HIDE DEF Eq
<1>7. Eq(Nth(h))
  BY <1>5, <1>6
<1> DEFINE e == Nth(h)
<1>8. /\ DOMAIN e = 0..K /\ e[0] = h.free /\ e = [k \in 0..K |-> e[k]]
      /\ \A k \in 0..K : k # 0 =>
           e[k] = IF e[k - 1] = NIL THEN NIL ELSE FNext(h.m, e[k - 1])
  BY <1>3, <1>7 DEF Eq
<1> HIDE DEF e
<1>9. ASSUME NEW k \in 0..(K - 1)
      PROVE  e[k + 1] = IF e[k] = NIL THEN NIL ELSE FNext(h.m, e[k])
  <2>1. k + 1 \in 0..K /\ k + 1 # 0 /\ (k + 1) - 1 = k
    BY <1>3
  <2> QED BY <1>8, <2>1
<1>10. 0..K \subseteq {k \in 0..K : e[k] \in D}
  <2> DEFINE T == {k \in 0..K : e[k] \in D}
  <2>1. 0 \in T
    BY <1>1, <1>3, <1>8
  <2>2. ASSUME NEW k \in 0..(K - 1), k \in T PROVE k + 1 \in T
    <3>1. k + 1 \in 0..K
      BY <1>3
    <3>2. e[k] \in D
      BY <2>2
    <3> QED BY <1>1, <1>9, <3>1, <3>2
  <2> HIDE DEF T
  <2> QED BY <1>3, <2>1, <2>2, Induction DEF T
<1> QED BY <1>8, <1>9, <1>10 DEF e, K

(* First fit finds a listed block that is large enough, if anything.       *)
LEMMA FitIsListed ==
    ASSUME NEW h, NEW F, NEW r, Listed(h.m, h.free, F, r), NIL \notin F, NEW need,
           FindFit(h, need) # NIL
    PROVE  FindFit(h, need) \in F /\ BlkSize(h.m, FindFit(h, need)) >= need
<1> DEFINE at == Nth(h)
           fits == {k \in 0..MaxBlocks : at[k] # NIL /\ BlkSize(h.m, at[k]) >= need}
           k0 == CHOOSE k \in fits : \A j \in fits : k <= j
<1>1. at \in [0..MaxBlocks -> F \cup {NIL}]
  BY NthWalks
<1> HIDE DEF at
<1>2. fits # {} /\ FindFit(h, need) = at[k0]
  BY DEF FindFit, at
<1>3. \E k \in fits : \A j \in fits : k <= j
  <2>1. fits \in SUBSET Nat
    BY MaxBlocksNat
  <2> HIDE DEF fits
  <2> QED BY <1>2, <2>1, Least
<1>4. k0 \in fits
  <2> HIDE DEF fits
  <2> QED BY <1>3
<1> HIDE DEF k0
<1> QED BY <1>1, <1>2, <1>4

-----------------------------------------------------------------------------
(* Where blocks, sentinels and chunks are.                                 *)

(* What Geometry says of each place, in numbers.                           *)
LEMMA PlaceFacts ==
    ASSUME NEW m, NEW first, NEW top, NEW B, NEW S, NEW C, Geometry(m, first, top, B, S, C)
    PROVE  /\ m \in [Addr -> Word] /\ B \cap S = {} /\ (B \cup S) \cap C = {}
           /\ top \in Nat /\ top \in Even /\ 2 <= top /\ top <= Memory + 2
           /\ \A x \in B \cup S \cup C :
                x \in Even /\ x \in Nat /\ x \in Addr /\ x + 1 \in Addr /\ x + 2 <= top /\ 2 <= x
           /\ \A x, y \in B \cup S \cup C : x < y => x + 2 <= y
           /\ \A b \in B : /\ BlkSize(m, b) \in Even /\ BlkSize(m, b) \in Nat
                           /\ BlkSize(m, b) >= 4 /\ b + BlkSize(m, b) \in B \cup S
                           /\ b + 2 \in Addr /\ b + 3 \in Addr
           /\ \A b \in B, x \in B \cup S \cup C : x > b => x >= b + BlkSize(m, b)
           /\ \A c \in C : /\ m[c + 1] \in Even /\ m[c + 1] \in Nat /\ m[c + 1] >= 8
                           /\ c + m[c + 1] - 2 \in S /\ c + 2 \in B
<1> USE DEF Geometry
<1>1. m \in [Addr -> Word] /\ B \cap S = {} /\ top \in Nat /\ top \in Even /\ 2 <= top /\ top <= Memory + 2
  BY EvenNat DEF Places
<1>2. ASSUME NEW x \in B \cup S \cup C
      PROVE  x \in Even /\ x \in Nat /\ x \in Addr /\ x + 1 \in Addr /\ x + 2 <= top /\ 2 <= x
  <2>1. x \in Even /\ x \in Nat /\ x + 2 <= top /\ 2 <= x
    BY EvenNat DEF Places
  <2> QED BY <1>1, <2>1, AddrFacts
<1>3. \A x, y \in B \cup S \cup C : x < y => x + 2 <= y
  BY <1>2, EvenGap
<1>4. ASSUME NEW b \in B
      PROVE  /\ BlkSize(m, b) \in Even /\ BlkSize(m, b) \in Nat
             /\ BlkSize(m, b) >= 4 /\ b + BlkSize(m, b) \in B \cup S
             /\ b + 2 \in Addr /\ b + 3 \in Addr
             /\ \A x \in B \cup S \cup C : x > b => x >= b + BlkSize(m, b)
  <2>1. /\ BlkSize(m, b) \in Even /\ BlkSize(m, b) \in Nat /\ BlkSize(m, b) >= 4
        /\ b + BlkSize(m, b) \in B \cup S
        /\ \A x \in B \cup S \cup C : x > b => x >= b + BlkSize(m, b)
    BY EvenNat DEF Spans, MinBlock
  <2>2. b \in Nat /\ b >= 2 /\ b + BlkSize(m, b) + 2 <= top
    BY <1>2, <2>1
  <2>3. b + 2 \in Nat /\ b + 3 \in Nat /\ b + 3 <= Memory + 1 /\ b + 2 <= Memory + 1 /\ 2 <= b + 2 /\ 2 <= b + 3
    BY <1>1, <2>1, <2>2, AddrFacts
  <2> QED BY <2>1, <2>3, AddrFacts
<1>5. ASSUME NEW c \in C
      PROVE  /\ m[c + 1] \in Even /\ m[c + 1] \in Nat /\ m[c + 1] >= 8
             /\ c + m[c + 1] - 2 \in S /\ c + 2 \in B
             /\ \A d \in C : d > c => d >= c + m[c + 1]
  <2>1. /\ m[c + 1] \in Even /\ m[c + 1] >= 2 + 4 + 2
        /\ c + m[c + 1] - 2 \in S /\ c + 2 \in B
        /\ \A d \in C : d > c => d >= c + m[c + 1]
    BY DEF ChunkList, ChunkMeta, MinBlock, Sentinel
  <2>2. m[c + 1] \in Nat
    BY <2>1, EvenNat
  <2> QED BY <2>1, <2>2
<1>6. ASSUME NEW c \in C, c \in B \cup S PROVE FALSE
  <2>1. c \in Nat /\ c + 2 \in B
    BY <1>2, <1>5
  <2>2. CASE c \in B
    <3>1. c + 2 >= c + BlkSize(m, c) /\ BlkSize(m, c) >= 4 /\ BlkSize(m, c) \in Nat
      BY <1>4, <2>1, <2>2
    <3> QED BY <2>1, <3>1
  <2>3. CASE c \in S
    <3>1. PICK d \in C : c = d + m[d + 1] - 2
      BY <2>3 DEF ChunkList, Sentinel
    <3>2. d \in Nat /\ m[d + 1] \in Nat /\ m[d + 1] >= 8
      BY <1>2, <1>5
    <3>3. c > d /\ c < d + m[d + 1]
      BY <3>1, <3>2
    <3>4. c >= d + m[d + 1]
      BY <1>5, <3>3
    <3> QED BY <2>1, <3>2, <3>3, <3>4
  <2> QED BY <1>6, <2>2, <2>3
<1> QED BY <1>1, <1>2, <1>3, <1>4, <1>5, <1>6

(* Blocks are at least four words apart.                                   *)
LEMMA BlocksApart ==
    ASSUME NEW m, NEW first, NEW top, NEW B, NEW S, NEW C, Geometry(m, first, top, B, S, C)
    PROVE  Apart(B)
<1>1. \A b, c \in B : b < c => b + 4 <= c
  <2> SUFFICES ASSUME NEW b \in B, NEW c \in B, b < c PROVE b + 4 <= c
    OBVIOUS
  <2>1. b \in Nat /\ c \in Nat /\ BlkSize(m, b) \in Nat /\ BlkSize(m, b) >= 4
        /\ c >= b + BlkSize(m, b)
    BY PlaceFacts
  <2> QED BY <2>1
<1> QED BY <1>1, PlaceFacts DEF Apart

(* Header words are not links, and belong to one block, sentinel or chunk.  *)
LEMMA HeadersApart ==
    ASSUME NEW m, NEW first, NEW top, NEW B, NEW S, NEW C, Geometry(m, first, top, B, S, C),
           NEW F \in SUBSET B, NEW x \in B \cup S \cup C
    PROVE  /\ x \notin Links(F) /\ x + 1 \notin Links(F)
           /\ \A y \in B \cup S \cup C : x # y + 1 /\ (x # y => x + 1 # y + 1)
<1>1. ASSUME NEW f \in F PROVE x # f + 2 /\ x # f + 3 /\ x + 1 # f + 2 /\ x + 1 # f + 3
  <2>1. /\ x \in Nat /\ f \in Nat /\ BlkSize(m, f) \in Nat /\ BlkSize(m, f) >= 4
        /\ x > f => x >= f + BlkSize(m, f)
    BY PlaceFacts
  <2> QED BY <2>1
<1>2. ASSUME NEW y \in B \cup S \cup C PROVE x # y + 1 /\ (x # y => x + 1 # y + 1)
  <2>1. x \in Even /\ y \in Even /\ x \in Nat /\ y \in Nat
    BY PlaceFacts
  <2>2. x # y + 1
    BY <2>1, EvenGap
  <2> QED BY <2>1, <2>2
<1> QED BY <1>1, <1>2 DEF Links

(* Nothing changes the geometry but headers and the words of chunks.       *)
LEMMA GeometryFrame ==
    ASSUME NEW m, NEW n, NEW first, NEW top, NEW B, NEW S, NEW C,
           Geometry(m, first, top, B, S, C), n \in [Addr -> Word],
           \A x \in B \cup S : BlkSize(n, x) = BlkSize(m, x) /\ n[x + 1] = m[x + 1],
           \A s \in S : BlkAlloc(n, s),
           \A c \in C : n[c] = m[c] /\ n[c + 1] = m[c + 1]
    PROVE  Geometry(n, first, top, B, S, C)
<1> USE DEF Geometry
<1>1. Places(n, top, B, S, C)
  BY DEF Places
<1>2. Spans(n, B, S, C)
  BY DEF Spans
<1>3. Tags(n, B, S, C)
  BY DEF Tags, BlkPrev
<1>4. ChunkList(n, first, top, B, S, C)
  BY DEF ChunkList
<1> QED BY <1>1, <1>2, <1>3, <1>4

(* The size and the flag are functions of the size word.                   *)
LEMMA SameWord ==
    ASSUME NEW m, NEW n, NEW x, n[x] = m[x]
    PROVE  BlkSize(n, x) = BlkSize(m, x) /\ (BlkAlloc(n, x) <=> BlkAlloc(m, x))
BY DEF BlkSize, BlkAlloc

(* Reading a size word that was written with or without the flag.          *)
LEMMA SizeWordIs ==
    ASSUME NEW m, NEW x, NEW size \in Even
    PROVE  /\ m[x] = size => BlkSize(m, x) = size /\ ~ BlkAlloc(m, x)
           /\ m[x] = size + 1 => BlkSize(m, x) = size /\ BlkAlloc(m, x)
BY SizeWord DEF BlkSize, BlkAlloc

(* Block b becomes two, of k words and of the rest.                        *)
LEMMA GeometrySplit ==
    ASSUME NEW m, NEW n, NEW first, NEW top, NEW B, NEW S, NEW C,
           Geometry(m, first, top, B, S, C), n \in [Addr -> Word],
           NEW b \in B, NEW k \in Even, k >= 4, BlkSize(m, b) >= k + 4,
           BlkSize(n, b) = k, BlkSize(n, b + k) = BlkSize(m, b) - k,
           n[b + 1] = m[b + 1], n[b + k + 1] = k, n[b + BlkSize(m, b) + 1] = BlkSize(m, b) - k,
           \A x \in B \cup S : x # b => BlkSize(n, x) = BlkSize(m, x),
           \A x \in B \cup S : x # b + BlkSize(m, b) => n[x + 1] = m[x + 1],
           \A s \in S : BlkAlloc(n, s),
           \A c \in C : n[c] = m[c] /\ n[c + 1] = m[c + 1]
    PROVE  Geometry(n, first, top, B \cup {b + k}, S, C) /\ b + k \notin B \cup S \cup C
<1> DEFINE z == BlkSize(m, b)
           e == b + k
           stop == b + z
           B1 == B \cup {e}
<1>1. /\ \A x \in B \cup S \cup C : x \in Even /\ x \in Nat /\ x + 2 <= top /\ 2 <= x
      /\ z \in Even /\ z \in Nat /\ stop \in B \cup S /\ k \in Nat
      /\ \A x \in B \cup S \cup C : x > b => x >= stop
      /\ b \in Nat
  BY PlaceFacts, EvenNat
<1>2. e \in Nat /\ e \in Even /\ e > b /\ e < stop /\ z - k \in Even /\ z - k >= 4 /\ z - k \in Nat
      /\ e + (z - k) = stop /\ e + 2 <= top /\ 2 <= e
  <2>1. e \in Even /\ z - k \in Even
    BY <1>1, EvenSum
  <2>2. stop + 2 <= top
    BY <1>1
  <2>3. top \in Nat
    BY PlaceFacts
  <2> QED BY <1>1, <2>1, <2>2, <2>3, EvenNat
<1>3. e \notin B \cup S \cup C
  BY <1>1, <1>2
<1> HIDE DEF z, e, stop
<1>4. /\ BlkSize(n, b) = k /\ BlkSize(n, e) = z - k /\ b + k = e /\ n[e + 1] = k
      /\ n[stop + 1] = z - k /\ BlkSize(m, b) = z /\ b + z = stop
      /\ \A x \in B \cup S : x # stop => n[x + 1] = m[x + 1]
  BY DEF z, e, stop
<1>5. Places(n, top, B1, S, C)
  BY <1>2, <1>3 DEF Geometry, Places
<1>6. Spans(n, B1, S, C)
  <2> SUFFICES ASSUME NEW q \in B1
               PROVE  /\ BlkSize(n, q) \in Even /\ BlkSize(n, q) >= 4
                      /\ q + BlkSize(n, q) \in B1 \cup S
                      /\ \A x \in B1 \cup S \cup C : x > q => x >= q + BlkSize(n, q)
    BY DEF Spans, MinBlock
  <2>1. CASE q = b
    <3>1. \A x \in B1 \cup S \cup C : x > b => x >= e
      BY <1>1, <1>2
    <3> QED BY <1>2, <1>4, <2>1, <3>1
  <2>2. CASE q = e
    <3>1. \A x \in B1 \cup S \cup C : x > e => x >= stop
      BY <1>1, <1>2
    <3> QED BY <1>1, <1>2, <1>4, <2>2, <3>1
  <2>3. CASE q \in B /\ q # b
    <3>1. /\ BlkSize(m, q) \in Even /\ BlkSize(m, q) >= 4 /\ BlkSize(m, q) \in Nat
          /\ q + BlkSize(m, q) \in B \cup S
          /\ \A x \in B \cup S \cup C : x > q => x >= q + BlkSize(m, q)
          /\ BlkSize(n, q) = BlkSize(m, q) /\ q \in Nat
      BY <2>3, PlaceFacts
    <3>2. e > q => e >= q + BlkSize(m, q)
      <4>1. q > b => q >= stop
        BY <1>1, <2>3
      <4>2. b > q => b >= q + BlkSize(m, q)
        BY <3>1
      <4> QED BY <1>1, <1>2, <2>3, <3>1, <4>1, <4>2
    <3> QED BY <3>1, <3>2
  <2> QED BY <2>1, <2>2, <2>3
<1>7. Tags(n, B1, S, C)
  <2> SUFFICES ASSUME NEW x \in B1 \cup S
               PROVE  \/ x - ChunkMeta \in C /\ n[x + 1] = 0
                      \/ \E q \in B1 : q + BlkSize(n, q) = x /\ n[x + 1] = BlkSize(n, q)
    BY DEF Tags, BlkPrev
  <2>1. CASE x = e
    BY <1>4, <2>1
  <2>2. CASE x = stop
    BY <1>2, <1>4, <2>2
  <2>3. CASE x # e /\ x # stop
    <3>1. x \in B \cup S /\ n[x + 1] = m[x + 1]
      BY <1>4, <2>3
    <3>2. \/ x - ChunkMeta \in C /\ m[x + 1] = 0
          \/ \E q \in B : q + BlkSize(m, q) = x /\ m[x + 1] = BlkSize(m, q)
      BY <3>1 DEF Geometry, Tags, BlkPrev
    <3>3. ASSUME NEW q \in B, q + BlkSize(m, q) = x PROVE BlkSize(n, q) = BlkSize(m, q)
      BY <1>4, <2>3, <3>3
    <3> QED BY <3>1, <3>2, <3>3
  <2> QED BY <2>1, <2>2, <2>3
<1>8. ChunkList(n, first, top, B1, S, C)
  <2>1. \E c \in C : c < e /\ e < c + n[c + 1] - Sentinel
    <3>1. PICK c \in C : c < b /\ b < c + m[c + 1] - 2
      BY DEF Geometry, ChunkList, Sentinel
    <3>2. c \in Nat /\ c + m[c + 1] - 2 \in S /\ m[c + 1] \in Nat
      BY PlaceFacts
    <3>3. c + m[c + 1] - 2 >= stop
      BY <1>1, <3>1, <3>2
    <3>4. c < e /\ e < c + m[c + 1] - 2
      <4>1. stop \in Nat
        BY <1>1
      <4> QED BY <1>1, <1>2, <3>1, <3>2, <3>3, <4>1
    <3> QED BY <3>4 DEF Sentinel
  <2> HIDE DEF B1
  <2>2. \A q \in B1 : q = e \/ q \in B
    BY DEF B1
  <2>3. B \subseteq B1
    BY DEF B1
  <2>4. ChunkList(m, first, top, B, S, C)
    BY DEF Geometry
  <2>5. \A q \in B1 : \E c \in C : c < q /\ q < c + n[c + 1] - Sentinel
    <3>1. \A q \in B : \E c \in C : c < q /\ q < c + m[c + 1] - Sentinel
      BY <2>4 DEF ChunkList
    <3> QED BY <2>1, <2>2, <3>1
  <2>6. \A c \in C :
         /\ n[c + 1] \in Even /\ n[c + 1] >= ChunkMeta + MinBlock + Sentinel
         /\ c + ChunkMeta \in B1 /\ c + n[c + 1] - Sentinel \in S
         /\ \A d \in C : d > c => d >= c + n[c + 1]
         /\ \/ n[c] = NIL /\ \A d \in C : c <= d
            \/ n[c] \in C /\ n[c] < c /\ \A d \in C : d < c => d <= n[c]
    BY <2>3, <2>4 DEF ChunkList
  <2>7. \A s \in S : BlkAlloc(n, s) /\ \E c \in C : s = c + n[c + 1] - Sentinel
    BY <2>4 DEF ChunkList
  <2> QED BY <2>4, <2>5, <2>6, <2>7 DEF ChunkList
<1> QED BY <1>3, <1>5, <1>6, <1>7, <1>8 DEF Geometry, e

(* The blocks from start to stop become one.                               *)
LEMMA GeometryJoin ==
    ASSUME NEW m, NEW n, NEW first, NEW top, NEW B, NEW S, NEW C,
           Geometry(m, first, top, B, S, C), n \in [Addr -> Word],
           NEW start \in B, NEW stop \in B \cup S, start < stop,
           \A x \in S \cup C : x <= start \/ stop <= x,
           NEW B1, B1 = {x \in B : x <= start \/ stop <= x},
           BlkSize(n, start) = stop - start, n[stop + 1] = stop - start,
           \A x \in B1 \cup S : x # start => BlkSize(n, x) = BlkSize(m, x),
           \A x \in B1 \cup S : x # stop => n[x + 1] = m[x + 1],
           \A s \in S : BlkAlloc(n, s),
           \A c \in C : n[c] = m[c] /\ n[c + 1] = m[c + 1]
    PROVE  Geometry(n, first, top, B1, S, C)
<1>1. /\ \A x \in B \cup S \cup C : x \in Even /\ x \in Nat /\ x + 2 <= top /\ 2 <= x
      /\ \A b \in B : /\ BlkSize(m, b) \in Even /\ BlkSize(m, b) \in Nat /\ BlkSize(m, b) >= 4
                      /\ b + BlkSize(m, b) \in B \cup S
      /\ \A b \in B, x \in B \cup S \cup C : x > b => x >= b + BlkSize(m, b)
  BY PlaceFacts
<1>2. start \in Nat /\ stop \in Nat /\ start \in Even /\ stop \in Even
      /\ stop - start \in Even /\ stop - start \in Nat /\ stop - start >= 4
  <2>1. start \in Nat /\ stop \in Nat /\ start \in Even /\ stop \in Even
    BY <1>1
  <2>2. stop - start \in Even
    BY <2>1, EvenSum
  <2>3. stop >= start + BlkSize(m, start) /\ BlkSize(m, start) >= 4 /\ BlkSize(m, start) \in Nat
    BY <1>1
  <2> QED BY <2>1, <2>2, <2>3
<1>3. B1 \subseteq B /\ start \in B1 /\ stop \in B1 \cup S
  BY <1>2
<1>4. Places(n, top, B1, S, C)
  BY <1>3 DEF Geometry, Places
<1>5. Spans(n, B1, S, C)
  <2> SUFFICES ASSUME NEW q \in B1
               PROVE  /\ BlkSize(n, q) \in Even /\ BlkSize(n, q) >= 4
                      /\ q + BlkSize(n, q) \in B1 \cup S
                      /\ \A x \in B1 \cup S \cup C : x > q => x >= q + BlkSize(n, q)
    BY DEF Spans, MinBlock
  <2>1. CASE q = start
    <3>1. start + (stop - start) = stop
      BY <1>2
    <3>2. \A x \in B1 \cup S \cup C : x > start => x >= stop
      BY <1>1, <1>2
    <3> QED BY <1>2, <1>3, <2>1, <3>1, <3>2
  <2>2. CASE q # start
    <3> DEFINE z == BlkSize(m, q)
    <3>1. q \in B /\ q \in Nat /\ z \in Nat /\ z \in Even /\ z >= 4 /\ q + z \in B \cup S
          /\ BlkSize(n, q) = z
      BY <1>1, <1>3, <2>2
    <3>2. \A x \in B \cup S \cup C : x > q => x >= q + z
      BY <1>1, <3>1
    <3>3. q < start \/ stop <= q
      BY <1>1, <1>2, <2>2
    <3> HIDE DEF z
    <3>4. q + z <= start \/ stop <= q + z
      BY <1>2, <3>1, <3>2, <3>3
    <3>5. q + z \in B1 \cup S
      BY <3>1, <3>4
    <3> QED BY <1>3, <3>1, <3>2, <3>5
  <2> QED BY <2>1, <2>2
<1>6. Tags(n, B1, S, C)
  <2> SUFFICES ASSUME NEW x \in B1 \cup S
               PROVE  \/ x - ChunkMeta \in C /\ n[x + 1] = 0
                      \/ \E q \in B1 : q + BlkSize(n, q) = x /\ n[x + 1] = BlkSize(n, q)
    BY DEF Tags, BlkPrev
  <2>1. CASE x = stop
    <3>1. start + (stop - start) = stop
      BY <1>2
    <3> QED BY <1>3, <2>1, <3>1
  <2>2. CASE x # stop
    <3>1. x \in B \cup S /\ n[x + 1] = m[x + 1] /\ x \in Nat /\ (x <= start \/ stop < x)
      BY <1>1, <1>2, <1>3, <2>2
    <3>2. \/ x - ChunkMeta \in C /\ m[x + 1] = 0
          \/ \E q \in B : q + BlkSize(m, q) = x /\ m[x + 1] = BlkSize(m, q)
      BY <3>1 DEF Geometry, Tags, BlkPrev
    <3>3. ASSUME NEW q \in B, q + BlkSize(m, q) = x
          PROVE  q \in B1 /\ BlkSize(n, q) = BlkSize(m, q)
      <4>1. q \in Nat /\ BlkSize(m, q) \in Nat /\ BlkSize(m, q) >= 4
        BY <1>1
      <4>2. q < start \/ q >= stop
        <5>1. CASE x <= start
          BY <1>2, <3>3, <4>1, <5>1
        <5>2. CASE stop < x
          <6>1. stop > q => stop >= x
            BY <1>1, <3>3
          <6> QED BY <1>2, <3>1, <4>1, <5>2, <6>1
        <5> QED BY <3>1, <5>1, <5>2
      <4> QED BY <1>2, <4>1, <4>2
    <3> QED BY <3>1, <3>2, <3>3
  <2> QED BY <2>1, <2>2
<1>7. ChunkList(n, first, top, B1, S, C)
  <2>1. ASSUME NEW c \in C PROVE c + ChunkMeta \in B1
    <3>1. c \in Nat /\ c + 2 \in B /\ c + 2 \in Nat /\ (c <= start \/ stop <= c)
      BY <1>1, PlaceFacts
    <3>2. c # start
      BY PlaceFacts
    <3>3. c < start => c + 2 <= start
      BY <1>1, <1>2, EvenGap
    <3>4. c + 2 <= start \/ stop <= c + 2
      BY <1>2, <3>1, <3>2, <3>3
    <3> QED BY <3>1, <3>4 DEF ChunkMeta
  <2> QED BY <1>3, <2>1 DEF Geometry, ChunkList
<1> QED BY <1>4, <1>5, <1>6, <1>7 DEF Geometry

-----------------------------------------------------------------------------
(* What an operation leaves alone: the blocks in A keep their size and what
   is in them, and the words written at even addresses outside X are even. *)

Keeps(m, n, A) ==
    \A x \in A : /\ BlkSize(n, x) = BlkSize(m, x)
                 /\ \A a \in (x + 2)..(x + BlkSize(m, x) - 1) : n[a] = m[a]

EvenOutside(m, n, X) == \A a \in Addr : a \in Even /\ a \notin X => n[a] = m[a] \/ n[a] \in Even

(* Two operations in a row that keep the same blocks.                      *)
LEMMA KeepsChain ==
    ASSUME NEW m, NEW n, NEW o, NEW A, Keeps(m, n, A), Keeps(n, o, A)
    PROVE  Keeps(m, o, A)
BY DEF Keeps

(* Two operations in a row that write even words.                          *)
LEMMA EvenChain ==
    ASSUME NEW m, NEW n, NEW o, NEW X, NEW Y, EvenOutside(m, n, X), EvenOutside(n, o, Y)
    PROVE  EvenOutside(m, o, X \cup Y)
BY DEF EvenOutside

(* The payload of a block has no header and nothing of another block in it. *)
LEMMA Interior ==
    ASSUME NEW m, NEW first, NEW top, NEW B, NEW S, NEW C, Geometry(m, first, top, B, S, C),
           NEW x \in B, NEW a \in (x + 2)..(x + BlkSize(m, x) - 1)
    PROVE  /\ a \in Addr /\ a \in Nat
           /\ \A y \in B \cup S \cup C : a # y /\ a # y + 1
           /\ \A y \in B : y # x => a < y \/ a >= y + BlkSize(m, y)
<1>1. x \in Nat /\ 2 <= x /\ BlkSize(m, x) \in Nat /\ BlkSize(m, x) >= 4 /\ x + BlkSize(m, x) \in B \cup S
  BY PlaceFacts
<1>2. a \in Nat /\ x + 2 <= a /\ a < x + BlkSize(m, x)
  BY <1>1
<1>3. x + BlkSize(m, x) \in Addr
  BY <1>1, PlaceFacts
<1>4. a \in Addr
  BY <1>1, <1>2, <1>3, AddrFacts
<1>5. ASSUME NEW y \in B \cup S \cup C PROVE a # y /\ a # y + 1
  <2>1. y \in Nat /\ (y > x => y >= x + BlkSize(m, x))
    BY PlaceFacts
  <2> QED BY <1>1, <1>2, <2>1
<1>6. ASSUME NEW y \in B, y # x PROVE a < y \/ a >= y + BlkSize(m, y)
  <2>1. y \in Nat /\ BlkSize(m, y) \in Nat /\ (y > x => y >= x + BlkSize(m, x))
        /\ (x > y => x >= y + BlkSize(m, y))
    BY PlaceFacts
  <2> QED BY <1>1, <1>2, <1>6, <2>1
<1> QED BY <1>2, <1>4, <1>5, <1>6

(* Relinking the blocks in F moves no block and frees none.                *)
Unmoved(m, n, first, top, B, S, C, F) ==
    /\ Geometry(n, first, top, B, S, C)
    /\ \A x \in B \cup S \cup C : n[x] = m[x] /\ n[x + 1] = m[x + 1]
    /\ Frees(n, B) = Frees(m, B) /\ Taken(n, B) = Taken(m, B)
    /\ Keeps(m, n, B \ F) /\ EvenOutside(m, n, {})
    /\ n \in [Addr -> Word]

LEMMA RelinkKeeps ==
    ASSUME NEW m, NEW n, NEW first, NEW top, NEW B, NEW S, NEW C,
           Geometry(m, first, top, B, S, C), NEW F \in SUBSET B, Relinks(m, n, F)
    PROVE  Unmoved(m, n, first, top, B, S, C, F)
<1>1. ASSUME NEW x \in B \cup S \cup C PROVE n[x] = m[x] /\ n[x + 1] = m[x + 1]
  <2>1. x \in Addr /\ x + 1 \in Addr
    BY PlaceFacts
  <2>2. x \notin Links(F) /\ x + 1 \notin Links(F)
    BY HeadersApart
  <2> QED BY <2>1, <2>2 DEF Relinks
<1>2. \A x \in B \cup S : BlkSize(n, x) = BlkSize(m, x) /\ (BlkAlloc(n, x) <=> BlkAlloc(m, x))
  BY <1>1, SameWord
<1>3. \A s \in S : BlkAlloc(n, s)
  <2>1. \A s \in S : BlkAlloc(m, s)
    BY DEF Geometry, ChunkList
  <2> QED BY <1>2, <2>1
<1>4. Geometry(n, first, top, B, S, C)
  <2>1. n \in [Addr -> Word]
    BY DEF Relinks
  <2> QED BY <1>1, <1>2, <1>3, <2>1, GeometryFrame
<1>5. Frees(n, B) = Frees(m, B)
  BY <1>2 DEF Frees
<1>6. Keeps(m, n, B \ F)
  <2> SUFFICES ASSUME NEW x \in B \ F, NEW a \in (x + 2)..(x + BlkSize(m, x) - 1)
               PROVE  n[a] = m[a]
    BY <1>2 DEF Keeps
  <2>1. a \in Addr /\ a \in Nat /\ \A y \in B : y # x => a < y \/ a >= y + BlkSize(m, y)
    BY Interior
  <2>2. ASSUME NEW f \in F PROVE a # f + 2 /\ a # f + 3
    <3>1. f \in B /\ f # x /\ f \in Nat /\ BlkSize(m, f) \in Nat /\ BlkSize(m, f) >= 4
      BY PlaceFacts
    <3>2. a < f \/ a >= f + BlkSize(m, f)
      BY <2>1, <3>1
    <3> QED BY <2>1, <3>1, <3>2
  <2>3. a \notin Links(F)
    BY <2>2 DEF Links
  <2> QED BY <2>1, <2>3 DEF Relinks
<1>7. EvenOutside(m, n, {})
  BY DEF Relinks, EvenOutside
<1>8. n \in [Addr -> Word] /\ Taken(n, B) = Taken(m, B)
  BY <1>5 DEF Relinks, Taken
<1> QED BY <1>1, <1>4, <1>5, <1>6, <1>7, <1>8 DEF Unmoved

(* A word that is idle stays idle if its block stays free.                 *)
LEMMA IdleStays ==
    ASSUME NEW m, NEW n, NEW B, NEW B1, NEW X, m \in [Addr -> Word], EvenOutside(m, n, X),
           NEW a \in Idle(m, B), a \notin X,
           \E f \in Frees(n, B1) : f <= a /\ a < f + BlkSize(n, f)
    PROVE  a \in Idle(n, B1)
<1>1. a \in Addr /\ a \in Even /\ ~ BlkAlloc(m, a)
  BY DEF Idle
<1>2. n[a] = m[a] \/ n[a] \in Even
  BY <1>1 DEF EvenOutside
<1>3. ~ BlkAlloc(n, a)
  BY <1>1, <1>2, SameWord, SizeWordIs
<1> QED BY <1>1, <1>3 DEF Idle

(* A size of a block is a word, with the flag too.                         *)
LEMMA SizeIsWord ==
    ASSUME NEW m, NEW first, NEW top, NEW B, NEW S, NEW C, Geometry(m, first, top, B, S, C),
           NEW x \in B, NEW y \in B \cup S, x < y
    PROVE  y - x \in Nat /\ y - x \in Word /\ y - x + 1 \in Word /\ y - x \in Even
<1>1. x \in Nat /\ y \in Nat /\ 2 <= x /\ y + 2 <= top /\ top <= Memory + 2 /\ top \in Nat
      /\ x \in Even /\ y \in Even
  BY PlaceFacts
<1>2. y - x \in Even
  BY <1>1, EvenSum
<1> QED BY <1>1, <1>2, AddrFacts DEF Word

-----------------------------------------------------------------------------
(* Allocate.                                                               *)

(* The state of the heap after Carve took the free block b.                *)
Carved(h, h1, first, top, B, S, C, b, need) ==
    \E B1 : /\ Shape(h1, first, top, B1, S, C)
            /\ Taken(h1.m, B1) = Taken(h.m, B) \cup {b}
            /\ BlkSize(h1.m, b) >= need
            /\ Keeps(h.m, h1.m, Taken(h.m, B))
            /\ \A a \in Idle(h.m, B) : \/ a \in Idle(h1.m, B1)
                                       \/ b <= a /\ a < b + BlkSize(h1.m, b)

(* The block after b, its neighbours and its size.                         *)
LEMMA BlockFacts ==
    ASSUME NEW m, NEW first, NEW top, NEW B, NEW S, NEW C, Geometry(m, first, top, B, S, C),
           NEW b \in B
    PROVE  /\ b \in Nat /\ b \in Even /\ b \in Addr /\ b + 1 \in Addr /\ BlkSize(m, b) \in Nat
           /\ BlkSize(m, b) \in Even /\ BlkSize(m, b) >= 4
           /\ BlkSize(m, b) \in Word /\ BlkSize(m, b) + 1 \in Word
           /\ b + BlkSize(m, b) \in B \cup S
           /\ b + BlkSize(m, b) \in Nat /\ b + BlkSize(m, b) + 1 \in Addr
<1>1. /\ b \in Nat /\ b \in Even /\ b \in Addr /\ b + 1 \in Addr /\ BlkSize(m, b) \in Nat
      /\ BlkSize(m, b) \in Even /\ BlkSize(m, b) >= 4
      /\ b + BlkSize(m, b) \in B \cup S
  BY PlaceFacts
<1>2. b + BlkSize(m, b) \in Nat /\ b + BlkSize(m, b) + 1 \in Addr
  BY <1>1, PlaceFacts
<1>3. b < b + BlkSize(m, b) /\ (b + BlkSize(m, b)) - b = BlkSize(m, b)
  BY <1>1
<1>4. BlkSize(m, b) \in Word /\ BlkSize(m, b) + 1 \in Word
  <2>1. (b + BlkSize(m, b)) - b \in Word /\ (b + BlkSize(m, b)) - b + 1 \in Word
    BY <1>1, <1>3, SizeIsWord
  <2> QED BY <1>3, <2>1
<1> QED BY <1>1, <1>2, <1>4

(* h1 is h with the list made to be G.                                     *)
Relisted(h, h1, first, top, B, S, C, G) ==
    /\ Heap(h1) /\ Unmoved(h.m, h1.m, first, top, B, S, C, G)
    /\ \E r1 : Listed(h1.m, h1.free, G, r1)

(* RemoveFree changes the list and nothing else.                           *)
LEMMA CutFree ==
    ASSUME NEW h, NEW first, NEW top, NEW B, NEW S, NEW C, Geometry(h.m, first, top, B, S, C),
           Heap(h), NEW F \in SUBSET B, NEW r, Listed(h.m, h.free, F, r), NEW b \in F
    PROVE  Relisted(h, RemoveFree(h, b), first, top, B, S, C, F \ {b})
<1> DEFINE cut == RemoveFree(h, b)
<1>1. Apart(F)
  BY BlocksApart DEF Apart
<1>2. h.m \in [Addr -> Word]
  BY PlaceFacts
<1>3. /\ Heap(cut) /\ Relinks(h.m, cut.m, F \ {b})
      /\ \E r1 : Listed(cut.m, cut.free, F \ {b}, r1)
  BY <1>1, <1>2, ListRemove
<1> HIDE DEF cut
<1> DEFINE G == F \ {b}
<1>4. G \in SUBSET B /\ Relinks(h.m, cut.m, G)
  BY <1>3
<1> HIDE DEF G
<1>5. Unmoved(h.m, cut.m, first, top, B, S, C, G)
  BY <1>4, RelinkKeeps
<1> QED BY <1>3, <1>5 DEF cut, G, Relisted

(* InsertFree changes the list and nothing else.                           *)
LEMMA PutFree ==
    ASSUME NEW h, NEW first, NEW top, NEW B, NEW S, NEW C, Geometry(h.m, first, top, B, S, C),
           NEW F \in SUBSET B, NEW r, Listed(h.m, h.free, F, r), NEW b \in B \ F
    PROVE  Relisted(h, InsertFree(h, b), first, top, B, S, C, F \cup {b})
<1> DEFINE h1 == InsertFree(h, b)
<1>1. Apart(F \cup {b})
  BY BlocksApart DEF Apart
<1>2. h.m \in [Addr -> Word]
  BY PlaceFacts
<1>3. /\ Heap(h1) /\ Relinks(h.m, h1.m, F \cup {b})
      /\ \E r1 : Listed(h1.m, h1.free, F \cup {b}, r1)
  BY <1>1, <1>2, ListInsert
<1> DEFINE G == F \cup {b}
<1>4. G \in SUBSET B /\ Relinks(h.m, h1.m, G)
  BY <1>3
<1> HIDE DEF h1, G
<1>5. Unmoved(h.m, h1.m, first, top, B, S, C, G)
  BY <1>4, RelinkKeeps
<1> QED BY <1>3, <1>5 DEF h1, G, Relisted

(* The block is handed out whole.                                          *)
LEMMA CarveWhole ==
    ASSUME NEW h, NEW first, NEW top, NEW B, NEW S, NEW C, Shape(h, first, top, B, S, C),
           NEW b \in Frees(h.m, B), NEW need \in Even, need >= 4,
           BlkSize(h.m, b) >= need, ~ BlkSize(h.m, b) >= need + MinBlock
    PROVE  Carved(h, Carve(h, b, need), first, top, B, S, C, b, need)
<1> DEFINE m == h.m
           z == BlkSize(m, b)
           F == Frees(m, B)
           cut == RemoveFree(h, b)
           h1 == Carve(h, b, need)
<1>1. Heap(h) /\ Geometry(m, first, top, B, S, C) /\ NoTwoFree(m, B) /\ F \in SUBSET B /\ b \in B
  BY DEF Shape, Frees
<1>2. PICK r : Listed(m, h.free, F, r)
  BY DEF Shape
<1>3. /\ Heap(cut) /\ Geometry(cut.m, first, top, B, S, C)
      /\ \E r1 : Listed(cut.m, cut.free, F \ {b}, r1)
      /\ \A x \in B \cup S \cup C : cut.m[x] = m[x] /\ cut.m[x + 1] = m[x + 1]
      /\ Frees(cut.m, B) = F
      /\ Keeps(m, cut.m, B \ (F \ {b})) /\ EvenOutside(m, cut.m, {})
      /\ cut.m \in [Addr -> Word]
  <2>1. F = Frees(h.m, B) /\ b \in F
    OBVIOUS
  <2> HIDE DEF F
  <2>2. Relisted(h, cut, first, top, B, S, C, F \ {b})
    BY <1>1, <1>2, <2>1, CutFree
  <2> HIDE DEF cut
  <2> QED BY <2>1, <2>2 DEF Relisted, Unmoved
<1>4. /\ b \in Nat /\ b \in Addr /\ z \in Nat /\ z \in Even /\ z >= 4 /\ z + 1 \in Word
      /\ b + z \in B \cup S
  BY <1>1, BlockFacts
<1>5. h1 = [cut EXCEPT !.m[b] = z + 1]
  BY DEF Carve
<1> HIDE DEF cut, h1
<1>6. h1 = [m |-> [cut.m EXCEPT ![b] = z + 1], free |-> cut.free]
  BY <1>3, <1>5 DEF Heap
<1>7. /\ Heap(h1) /\ h1.free = cut.free /\ h1.m \in [Addr -> Word]
      /\ h1.m[b] = z + 1 /\ \A a \in Addr : a # b => h1.m[a] = cut.m[a]
  <2> HIDE DEF z, m
  <2> QED BY <1>3, <1>4, <1>6 DEF Heap
<1>8. BlkSize(h1.m, b) = z /\ BlkAlloc(h1.m, b)
  BY <1>4, <1>7, SizeWordIs
<1>9. ASSUME NEW x \in B \cup S \cup C
      PROVE  h1.m[x + 1] = m[x + 1] /\ (x # b => h1.m[x] = m[x])
  <2>1. x \in Addr /\ x + 1 \in Addr /\ x + 1 # b
    BY <1>1, PlaceFacts, HeadersApart
  <2> QED BY <1>3, <1>7, <2>1
<1>10. \A x \in B \cup S : /\ BlkSize(h1.m, x) = BlkSize(m, x)
                           /\ x # b => (BlkAlloc(h1.m, x) <=> BlkAlloc(m, x))
  BY <1>8, <1>9, SameWord
<1>11. b \notin S /\ b \notin C
  BY <1>1, PlaceFacts
<1>12. Geometry(h1.m, first, top, B, S, C)
  <2>1. \A s \in S : BlkAlloc(h1.m, s)
    <3>1. \A s \in S : BlkAlloc(m, s)
      BY <1>1 DEF Geometry, ChunkList
    <3> QED BY <1>10, <1>11, <3>1
  <2> HIDE DEF m
  <2> QED BY <1>1, <1>7, <1>9, <1>10, <1>11, <2>1, GeometryFrame
<1>13. Frees(h1.m, B) = F \ {b}
  BY <1>8, <1>10 DEF Frees
<1>14. Taken(h1.m, B) = Taken(m, B) \cup {b}
  BY <1>1, <1>13 DEF Taken
<1>15. \E r1 : Listed(h1.m, h1.free, F \ {b}, r1)
  <2>1. PICK r1 : Listed(cut.m, cut.free, F \ {b}, r1)
    BY <1>3
  <2>2. ASSUME NEW a \in Links(F \ {b}) PROVE h1.m[a] = cut.m[a]
    <3>1. b \notin Links(F \ {b})
      BY <1>1, HeadersApart
    <3>2. a \in Addr
      BY <1>1, PlaceFacts DEF Links
    <3> QED BY <1>7, <3>1, <3>2
  <2>3. Listed(h1.m, cut.free, F \ {b}, r1)
    <3> HIDE DEF F
    <3> QED BY <2>1, <2>2, ListFrame
  <2> QED BY <1>7, <2>3
<1>16. NoTwoFree(h1.m, B)
  <2> SUFFICES ASSUME NEW f \in F, f # b PROVE BlkAlloc(h1.m, f + BlkSize(h1.m, f))
    BY <1>13 DEF NoTwoFree
  <2>1. f \in B /\ BlkAlloc(m, f + BlkSize(m, f)) /\ f + BlkSize(m, f) \in B \cup S
    BY <1>1, PlaceFacts DEF NoTwoFree
  <2> QED BY <1>8, <1>10, <2>1
<1>17. Shape(h1, first, top, B, S, C)
  BY <1>7, <1>12, <1>13, <1>15, <1>16 DEF Shape
<1>18. Keeps(m, h1.m, Taken(m, B))
  <2>1. Keeps(m, cut.m, Taken(m, B))
    BY <1>3 DEF Keeps, Taken
  <2>2. ASSUME NEW x \in Taken(m, B)
        PROVE  /\ BlkSize(h1.m, x) = BlkSize(m, x)
               /\ \A a \in (x + 2)..(x + BlkSize(m, x) - 1) : h1.m[a] = cut.m[a]
    <3>1. x \in B
      BY DEF Taken
    <3>2. ASSUME NEW a \in (x + 2)..(x + BlkSize(m, x) - 1) PROVE h1.m[a] = cut.m[a]
      <4>1. a \in Addr /\ a # b
        BY <1>1, <3>1, Interior
      <4> QED BY <1>7, <4>1
    <3> QED BY <1>10, <3>1, <3>2
  <2> HIDE DEF m
  <2> QED BY <2>1, <2>2 DEF Keeps
<1>19. EvenOutside(m, h1.m, {b})
  BY <1>3, <1>7 DEF EvenOutside
<1>20. ASSUME NEW a \in Idle(m, B)
       PROVE  a \in Idle(h1.m, B) \/ (b <= a /\ a < b + BlkSize(h1.m, b))
  <2>1. PICK f \in F : f <= a /\ a < f + BlkSize(m, f)
    BY DEF Idle
  <2>2. CASE f = b
    BY <1>8, <2>1, <2>2
  <2>3. CASE f # b
    <3>1. f \in Frees(h1.m, B) /\ a < f + BlkSize(h1.m, f)
      BY <1>1, <1>10, <1>13, <2>1, <2>3
    <3>2. a # b
      <4>1. /\ f \in Nat /\ BlkSize(m, f) \in Nat /\ BlkSize(m, f) >= 4 /\ b \in Nat
            /\ (b > f => b >= f + BlkSize(m, f))
        BY <1>1, PlaceFacts
      <4> QED BY <2>1, <2>3, <4>1
    <3>3. m \in [Addr -> Word]
      BY <1>1, PlaceFacts
    <3> HIDE DEF m
    <3> QED BY <1>19, <2>1, <3>1, <3>2, <3>3, IdleStays
  <2> QED BY <2>2, <2>3
<1>21. BlkSize(h1.m, b) >= need
  BY <1>8
<1> HIDE DEF m
<1> QED BY <1>14, <1>17, <1>18, <1>20, <1>21 DEF Carved, h1, m

(* The block is split and the rest goes back to the list.                  *)
LEMMA CarveSplit ==
    ASSUME NEW h, NEW first, NEW top, NEW B, NEW S, NEW C, Shape(h, first, top, B, S, C),
           NEW b \in Frees(h.m, B), NEW need \in Even, need >= 4,
           BlkSize(h.m, b) >= need + MinBlock
    PROVE  Carved(h, Carve(h, b, need), first, top, B, S, C, b, need)
<1> DEFINE m == h.m
           z == BlkSize(m, b)
           e == b + need
           stop == b + z
           F == Frees(m, B)
           cut == RemoveFree(h, b)
           m2 == [cut.m EXCEPT ![b] = need + 1, ![e] = z - need, ![e + 1] = need,
                               ![stop + 1] = z - need]
           h2 == [m |-> m2, free |-> cut.free]
           B1 == B \cup {e}
           G == F \ {b}
           h1 == InsertFree(h2, e)
<1>1. Heap(h) /\ Geometry(m, first, top, B, S, C) /\ NoTwoFree(m, B) /\ F \in SUBSET B /\ b \in B
  BY DEF Shape, Frees
<1>2. PICK r : Listed(m, h.free, F, r)
  BY DEF Shape
<1>3. Relisted(h, cut, first, top, B, S, C, G)
  <2>1. F = Frees(h.m, B) /\ b \in F
    OBVIOUS
  <2> HIDE DEF F
  <2> QED BY <1>1, <1>2, <2>1, CutFree
<1>4. /\ b \in Nat /\ b \in Even /\ b \in Addr /\ b + 1 \in Addr
      /\ z \in Nat /\ z \in Even /\ z >= 4 /\ z \in Word
      /\ stop \in B \cup S /\ stop \in Nat /\ stop + 1 \in Addr /\ need \in Nat
  BY <1>1, BlockFacts, EvenNat
<1>5. /\ e \in Nat /\ e \in Even /\ b + 4 <= e /\ e + 4 <= stop
      /\ z - need \in Nat /\ z - need \in Even /\ z - need >= 4
      /\ z - need \in Word /\ need \in Word /\ need + 1 \in Word
      /\ e \in Addr /\ e + 1 \in Addr /\ stop = b + z /\ e + (z - need) = stop
  <2>1. e \in Even /\ z - need \in Even /\ z >= need + 4
    BY <1>4, EvenSum DEF MinBlock
  <2>2. e \in Nat /\ b + 4 <= e /\ e + 4 <= stop /\ z - need \in Nat /\ z - need >= 4
        /\ e + (z - need) = stop
    BY <1>4, <2>1
  <2>3. z - need \in Word /\ need \in Word /\ need + 1 \in Word
    BY <1>4, <2>1, AddrFacts DEF Word
  <2>4. e \in Addr /\ e + 1 \in Addr
    BY <1>4, <2>2, AddrFacts
  <2> QED BY <2>1, <2>2, <2>3, <2>4
<1>6. Carve(h, b, need) = h1
  <2>1. cut = [m |-> cut.m, free |-> cut.free]
    BY <1>3 DEF Relisted, Heap
  <2> DEFINE split == SetHdr([cut.m EXCEPT ![b] = need + 1], e, z - need, 0, need)
  <2>2. e + z - need + 1 = stop + 1 /\ (z - need) + 0 = z - need
    BY <1>4
  <2>3. split = [cut.m EXCEPT ![b] = need + 1, ![e] = z - need, ![e + 1] = need]
    BY <2>2 DEF SetHdr
  <2>4. [split EXCEPT ![e + z - need + 1] = z - need] = m2
    BY <2>2, <2>3
  <2>5. [cut EXCEPT !.m = [split EXCEPT ![e + z - need + 1] = z - need]] = h2
    BY <2>1, <2>4
  <2>6. Carve(h, b, need) = InsertFree([cut EXCEPT !.m = [split EXCEPT ![e + z - need + 1] = z - need]], e)
    BY DEF Carve
  <2> QED BY <2>5, <2>6
<1>7. /\ Heap(cut) /\ Geometry(cut.m, first, top, B, S, C)
      /\ \E r1 : Listed(cut.m, cut.free, G, r1)
      /\ \A x \in B \cup S \cup C : cut.m[x] = m[x] /\ cut.m[x + 1] = m[x + 1]
      /\ Keeps(m, cut.m, B \ G) /\ EvenOutside(m, cut.m, {})
      /\ cut.m \in [Addr -> Word]
  BY <1>3 DEF Relisted, Unmoved
<1> HIDE DEF cut, z, e, stop
<1>8. /\ m2 \in [Addr -> Word]
      /\ m2[b] = need + 1 /\ m2[e] = z - need /\ m2[e + 1] = need /\ m2[stop + 1] = z - need
      /\ \A a \in Addr : a # b /\ a # e /\ a # e + 1 /\ a # stop + 1 => m2[a] = cut.m[a]
  BY <1>4, <1>5, <1>7
<1> HIDE DEF m2
<1>9. ASSUME NEW x \in B \cup S \cup C
      PROVE  /\ x # b => m2[x] = m[x]
             /\ x # stop => m2[x + 1] = m[x + 1]
  <2>1. x \in Nat /\ x \in Addr /\ x + 1 \in Addr
    BY <1>1, PlaceFacts
  <2>2. x > b => x >= stop
    BY <1>1, PlaceFacts DEF z, stop
  <2>3. x # stop + 1 /\ x + 1 # b /\ (x # stop => x + 1 # stop + 1)
    BY <1>1, <1>4, HeadersApart
  <2>4. x # e /\ x # e + 1 /\ x + 1 # e /\ x + 1 # e + 1
    BY <1>4, <1>5, <2>1, <2>2
  <2> QED BY <1>7, <1>8, <2>1, <2>3, <2>4
<1>10. /\ BlkSize(m2, b) = need /\ BlkAlloc(m2, b)
       /\ BlkSize(m2, e) = z - need /\ ~ BlkAlloc(m2, e)
  <2>1. BlkSize(m2, b) = need /\ BlkAlloc(m2, b)
    <3>1. m2[b] = need + 1 /\ need \in Even
      BY <1>8
    <3> QED BY <3>1, SizeWordIs
  <2> DEFINE w == z - need
  <2>2. w \in Even /\ m2[e] = w
    BY <1>5, <1>8
  <2> HIDE DEF w
  <2>3. BlkSize(m2, e) = w /\ ~ BlkAlloc(m2, e)
    BY <2>2, SizeWordIs
  <2> QED BY <2>1, <2>3 DEF w
<1>11. \A x \in B \cup S : x # b => /\ BlkSize(m2, x) = BlkSize(m, x)
                                    /\ BlkAlloc(m2, x) <=> BlkAlloc(m, x)
  BY <1>9, SameWord
<1>12. b \notin S /\ b \notin C /\ stop \notin C /\ b # stop
  BY <1>1, <1>4, <1>5, PlaceFacts
<1>13. \A s \in S : BlkAlloc(m2, s)
  <2>1. \A s \in S : BlkAlloc(m, s)
    BY <1>1 DEF Geometry, ChunkList
  <2> QED BY <1>11, <1>12, <2>1
<1>14. Geometry(m2, first, top, B1, S, C) /\ e \notin B \cup S \cup C
  <2>1. m2[b + 1] = m[b + 1]
    BY <1>1, <1>9, <1>12
  <2>2. \A c \in C : m2[c] = m[c] /\ m2[c + 1] = m[c + 1]
    BY <1>9, <1>12
  <2>3. BlkSize(m, b) = z /\ b + need = e /\ b + z = stop /\ BlkSize(m, b) >= need + 4
    BY DEF z, e, stop, MinBlock
  <2>4. Geometry(m2, first, top, B \cup {b + need}, S, C) /\ b + need \notin B \cup S \cup C
    <3> HIDE DEF m
    <3>1. /\ BlkSize(m2, b + need) = BlkSize(m, b) - need
          /\ m2[b + need + 1] = need /\ m2[b + BlkSize(m, b) + 1] = BlkSize(m, b) - need
      BY <1>8, <1>10, <2>3
    <3>2. /\ \A x \in B \cup S : x # b => BlkSize(m2, x) = BlkSize(m, x)
          /\ \A x \in B \cup S : x # b + BlkSize(m, b) => m2[x + 1] = m[x + 1]
      BY <1>9, <1>11, <2>3
    <3> QED BY <1>1, <1>8, <1>10, <1>13, <2>1, <2>2, <2>3, <3>1, <3>2, GeometrySplit
  <2> QED BY <2>3, <2>4
<1>15. PICK r2 : Listed(m2, cut.free, G, r2)
  <2>1. PICK r1 : Listed(cut.m, cut.free, G, r1)
    BY <1>7
  <2>2. ASSUME NEW a \in Links(G) PROVE m2[a] = cut.m[a]
    <3>1. b \notin Links(G) /\ stop + 1 \notin Links(G)
      BY <1>1, <1>4, HeadersApart
    <3>2. e \notin Links(G) /\ e + 1 \notin Links(G)
      <4>1. G \in SUBSET B1 /\ e \in B1 \cup S \cup C
        BY <1>1
      <4> HIDE DEF G, B1
      <4> QED BY <1>14, <4>1, HeadersApart
    <3>3. a \in Addr
      BY <1>1, PlaceFacts DEF Links
    <3> QED BY <1>8, <3>1, <3>2, <3>3
  <2> HIDE DEF G
  <2> QED BY <2>1, <2>2, ListFrame
<1>16. Relisted(h2, h1, first, top, B1, S, C, G \cup {e})
  <2>1. h2.m = m2 /\ h2.free = cut.free /\ G \in SUBSET B1 /\ e \in B1 \ G
    BY <1>1, <1>14
  <2> HIDE DEF G, B1, h2
  <2> QED BY <1>14, <1>15, <2>1, PutFree
<1> DEFINE n == h1.m
           G1 == G \cup {e}
<1>17. /\ Heap(h1) /\ Geometry(n, first, top, B1, S, C)
       /\ \E r1 : Listed(n, h1.free, G1, r1)
       /\ \A x \in B1 \cup S \cup C : n[x] = m2[x] /\ n[x + 1] = m2[x + 1]
       /\ Keeps(m2, n, B1 \ G1) /\ EvenOutside(m2, n, {})
  <2>1. h2.m = m2
    OBVIOUS
  <2> HIDE DEF h2, h1
  <2> QED BY <1>16, <2>1 DEF Relisted, Unmoved
<1> HIDE DEF h1, h2
<1>18. /\ BlkSize(n, b) = need /\ BlkAlloc(n, b)
       /\ BlkSize(n, e) = z - need /\ ~ BlkAlloc(n, e)
       /\ \A x \in B \cup S : x # b => /\ BlkSize(n, x) = BlkSize(m, x)
                                       /\ BlkAlloc(n, x) <=> BlkAlloc(m, x)
  BY <1>1, <1>10, <1>11, <1>17, SameWord
<1>19. Frees(n, B1) = G1
  BY <1>1, <1>14, <1>18 DEF Frees
<1>20. Taken(n, B1) = Taken(m, B) \cup {b}
  BY <1>1, <1>14, <1>19 DEF Taken
<1>21. NoTwoFree(n, B1)
  <2> SUFFICES ASSUME NEW f \in G1 PROVE BlkAlloc(n, f + BlkSize(n, f))
    BY <1>19 DEF NoTwoFree
  <2>1. CASE f = e
    <3>1. BlkAlloc(m, stop)
      BY <1>1 DEF NoTwoFree, stop, z
    <3> QED BY <1>4, <1>5, <1>12, <1>18, <2>1, <3>1
  <2>2. CASE f \in G
    <3>1. f \in B /\ BlkAlloc(m, f + BlkSize(m, f)) /\ f + BlkSize(m, f) \in B \cup S
      BY <1>1, <2>2, PlaceFacts DEF NoTwoFree
    <3> QED BY <1>18, <2>2, <3>1
  <2> QED BY <2>1, <2>2
<1>22. Shape(h1, first, top, B1, S, C)
  BY <1>17, <1>19, <1>21 DEF Shape
<1>23. Keeps(m, n, Taken(m, B))
  <2>1. Keeps(m, cut.m, Taken(m, B))
    BY <1>7 DEF Keeps, Taken
  <2>2. ASSUME NEW x \in Taken(m, B)
        PROVE  /\ BlkSize(n, x) = BlkSize(m, x)
               /\ \A a \in (x + 2)..(x + BlkSize(m, x) - 1) : n[a] = m[a]
    <3>1. x \in B /\ x # b /\ x \notin F /\ x \in B1 \ G1
      BY <1>14 DEF Taken
    <3>2. BlkSize(m2, x) = BlkSize(m, x) /\ BlkSize(n, x) = BlkSize(m, x)
      BY <1>11, <1>18, <3>1
    <3>3. ASSUME NEW a \in (x + 2)..(x + BlkSize(m, x) - 1) PROVE n[a] = m[a]
      <4>1. a \in Addr /\ a # b /\ a # stop + 1
        BY <1>1, <1>4, <3>1, Interior
      <4>2. a # e /\ a # e + 1
        <5>1. x \in B1 /\ e \in B1 \cup S \cup C
          BY <3>1
        <5> HIDE DEF B1
        <5> QED BY <1>14, <3>2, <5>1, Interior
      <4>3. m2[a] = cut.m[a]
        BY <1>8, <4>1, <4>2
      <4>4. cut.m[a] = m[a]
        BY <2>1 DEF Keeps
      <4>5. n[a] = m2[a]
        <5> HIDE DEF n, B1, G1
        <5> QED BY <1>17, <3>1, <3>2 DEF Keeps
      <4> QED BY <4>3, <4>4, <4>5
    <3> QED BY <3>2, <3>3
  <2> HIDE DEF m, n
  <2> QED BY <2>2 DEF Keeps
<1>24. EvenOutside(m, n, {b})
  <2> SUFFICES ASSUME NEW a \in Addr, a \in Even, a # b PROVE n[a] = m[a] \/ n[a] \in Even
    BY DEF EvenOutside
  <2>1. cut.m[a] = m[a] \/ cut.m[a] \in Even
    BY <1>7 DEF EvenOutside
  <2>2. n[a] = m2[a] \/ n[a] \in Even
    BY <1>17 DEF EvenOutside
  <2>3. a # e + 1 /\ a # stop + 1
    <3>1. stop \in Even
      BY <1>1, <1>4, PlaceFacts
    <3> QED BY <1>5, <3>1, EvenGap
  <2>4. m2[a] = cut.m[a] \/ m2[a] \in Even
    BY <1>5, <1>8, <2>3
  <2> QED BY <2>1, <2>2, <2>4
<1>25. ASSUME NEW a \in Idle(m, B)
       PROVE  a \in Idle(n, B1) \/ (b <= a /\ a < b + BlkSize(n, b))
  <2>1. PICK f \in F : f <= a /\ a < f + BlkSize(m, f)
    BY DEF Idle
  <2>2. a \in Nat
    BY AddrFacts DEF Idle
  <2>3. CASE b <= a /\ a < e
    BY <1>18, <2>3 DEF e
  <2>4. CASE ~ (b <= a /\ a < e)
    <3>1. \E g \in Frees(n, B1) : g <= a /\ a < g + BlkSize(n, g)
      <4>1. CASE f = b
        <5>1. e <= a /\ a < e + BlkSize(n, e)
          BY <1>4, <1>5, <1>18, <2>1, <2>2, <2>4, <4>1 DEF z
        <5> QED BY <1>19, <5>1
      <4>2. CASE f # b
        <5>1. f \in Frees(n, B1) /\ BlkSize(n, f) = BlkSize(m, f)
          BY <1>1, <1>18, <1>19, <4>2
        <5> QED BY <2>1, <5>1
      <4> QED BY <4>1, <4>2
    <3>2. a # b
      BY <1>4, <1>5, <2>4
    <3>3. m \in [Addr -> Word]
      BY <1>1, PlaceFacts
    <3> HIDE DEF m, n, B1
    <3> QED BY <1>24, <3>1, <3>2, <3>3, IdleStays
  <2> QED BY <2>3, <2>4
<1>26. BlkSize(n, b) >= need
  BY <1>4, <1>18
<1> HIDE DEF m, B1
<1> QED BY <1>6, <1>20, <1>22, <1>23, <1>25, <1>26 DEF Carved, m

-----------------------------------------------------------------------------
(* Deallocate.                                                             *)

(* The boundary tag leads to the block before.                             *)
LEMMA TagLeads ==
    ASSUME NEW m, NEW first, NEW top, NEW B, NEW S, NEW C, Geometry(m, first, top, B, S, C),
           NEW x \in B \cup S
    PROVE  /\ \A f \in B : f + BlkSize(m, f) = x => m[x + 1] = BlkSize(m, f) /\ f = x - m[x + 1]
                                                    /\ m[x + 1] # 0
           /\ m[x + 1] # 0 => /\ x - m[x + 1] \in B /\ m[x + 1] \in Nat
                              /\ BlkSize(m, x - m[x + 1]) = m[x + 1]
<1>1. x \in Nat
  BY PlaceFacts
<1>2. \/ x - 2 \in C /\ m[x + 1] = 0
      \/ \E q \in B : q + BlkSize(m, q) = x /\ m[x + 1] = BlkSize(m, q)
  BY DEF Geometry, Tags, BlkPrev, ChunkMeta
<1>3. ASSUME NEW f \in B, f + BlkSize(m, f) = x
      PROVE  m[x + 1] = BlkSize(m, f) /\ f = x - m[x + 1] /\ m[x + 1] # 0
  <2>1. f \in Nat /\ BlkSize(m, f) \in Nat /\ BlkSize(m, f) >= 4
    BY PlaceFacts
  <2>2. CASE x - 2 \in C
    <3>1. x - 2 > f
      BY <1>1, <1>3, <2>1
    <3>2. x - 2 >= f + BlkSize(m, f)
      BY <2>2, <3>1, PlaceFacts
    <3> QED BY <1>1, <1>3, <3>2
  <2>3. ASSUME NEW q \in B, q + BlkSize(m, q) = x, m[x + 1] = BlkSize(m, q)
        PROVE  q = f
    <3>1. /\ q \in Nat /\ BlkSize(m, q) \in Nat /\ BlkSize(m, q) >= 4
          /\ q > f => q >= f + BlkSize(m, f)
          /\ f > q => f >= q + BlkSize(m, q)
      BY PlaceFacts
    <3> QED BY <1>1, <1>3, <2>1, <2>3, <3>1
  <2>4. m[x + 1] = BlkSize(m, f)
    BY <1>2, <2>2, <2>3
  <2> QED BY <1>1, <1>3, <2>1, <2>4
<1>4. ASSUME m[x + 1] # 0
      PROVE  /\ x - m[x + 1] \in B /\ m[x + 1] \in Nat
             /\ BlkSize(m, x - m[x + 1]) = m[x + 1]
  <2>1. PICK q \in B : q + BlkSize(m, q) = x /\ m[x + 1] = BlkSize(m, q)
    BY <1>2, <1>4
  <2>2. q \in Nat /\ BlkSize(m, q) \in Nat
    BY PlaceFacts
  <2>3. x - m[x + 1] = q
    BY <2>1, <2>2
  <2> QED BY <2>1, <2>2, <2>3
<1> QED BY <1>3, <1>4

(* A heap in the middle of Deallocate: w is the size word of b, and F is
   listed; all else is as in h.                                            *)
Half(h, h1, B, S, C, F, b, w) ==
    /\ Heap(h1) /\ h1.m \in [Addr -> Word] /\ h1.m[b] = w
    /\ \E r : Listed(h1.m, h1.free, F, r)
    /\ \A x \in B \cup S \cup C : h1.m[x + 1] = h.m[x + 1] /\ (x # b => h1.m[x] = h.m[x])
    /\ \A x \in Taken(h.m, B) \ {b} :
          \A a \in (x + 2)..(x + BlkSize(h.m, x) - 1) : h1.m[a] = h.m[a]
    /\ EvenOutside(h.m, h1.m, {})

Sized(h, b, w) == [h EXCEPT !.m[b] = w]

(* Setting the size word of b to an even size.                             *)
LEMMA HalfSize ==
    ASSUME NEW h, NEW first, NEW top, NEW B, NEW S, NEW C, Geometry(h.m, first, top, B, S, C),
           NEW F \in SUBSET B, NEW b \in B, NEW h1, NEW v, Half(h, h1, B, S, C, F, b, v),
           NEW w \in Even, w \in Word
    PROVE  Half(h, Sized(h1, b, w), B, S, C, F, b, w)
<1> DEFINE h2 == Sized(h1, b, w)
<1>1. Heap(h1) /\ h1.m \in [Addr -> Word] /\ b \in Addr
  BY PlaceFacts DEF Half
<1>2. h2 = [m |-> [h1.m EXCEPT ![b] = w], free |-> h1.free]
  BY <1>1 DEF Heap, Sized
<1> HIDE DEF h2
<1>3. /\ Heap(h2) /\ h2.free = h1.free /\ h2.m \in [Addr -> Word]
      /\ h2.m[b] = w /\ \A a \in Addr : a # b => h2.m[a] = h1.m[a]
  BY <1>1, <1>2 DEF Heap
<1>4. ASSUME NEW x \in B \cup S \cup C
      PROVE  h2.m[x + 1] = h.m[x + 1] /\ (x # b => h2.m[x] = h.m[x])
  <2>1. x \in Addr /\ x + 1 \in Addr /\ x + 1 # b
    BY PlaceFacts, HeadersApart
  <2> QED BY <1>3, <2>1 DEF Half
<1>5. \E r : Listed(h2.m, h2.free, F, r)
  <2>1. PICK r : Listed(h1.m, h1.free, F, r)
    BY DEF Half
  <2>2. ASSUME NEW a \in Links(F) PROVE h2.m[a] = h1.m[a]
    <3>1. b \notin Links(F)
      BY HeadersApart
    <3>2. a \in Addr
      BY PlaceFacts DEF Links
    <3> QED BY <1>3, <3>1, <3>2
  <2> QED BY <1>3, <2>1, <2>2, ListFrame
<1>6. ASSUME NEW x \in Taken(h.m, B) \ {b}, NEW a \in (x + 2)..(x + BlkSize(h.m, x) - 1)
      PROVE  h2.m[a] = h.m[a]
  <2>1. a \in Addr /\ a # b
    BY Interior DEF Taken
  <2> QED BY <1>3, <2>1 DEF Half
<1>7. EvenOutside(h.m, h2.m, {})
  BY <1>3 DEF EvenOutside, Half
<1> QED BY <1>3, <1>4, <1>5, <1>6, <1>7 DEF Half, h2

(* Taking a free block off the list in the middle of Deallocate.           *)
LEMMA HalfCut ==
    ASSUME NEW h, NEW first, NEW top, NEW B, NEW S, NEW C, Geometry(h.m, first, top, B, S, C),
           NEW F \in SUBSET Frees(h.m, B), NEW b \in B, NEW h1, NEW w, Half(h, h1, B, S, C, F, b, w),
           NEW f \in F
    PROVE  Half(h, RemoveFree(h1, f), B, S, C, F \ {f}, b, w)
<1> DEFINE h2 == RemoveFree(h1, f)
           G == F \ {f}
<1>1. Heap(h1) /\ h1.m \in [Addr -> Word] /\ F \subseteq B /\ G \in SUBSET B
  BY DEF Half, Frees
<1>2. PICK r : Listed(h1.m, h1.free, F, r)
  BY DEF Half
<1>3. Apart(F)
  BY <1>1, BlocksApart DEF Apart
<1>4. /\ Heap(h2) /\ Relinks(h1.m, h2.m, G)
      /\ \E r1 : Listed(h2.m, h2.free, G, r1)
  BY <1>1, <1>2, <1>3, ListRemove
<1> HIDE DEF h2, G
<1>5. ASSUME NEW x \in B \cup S \cup C
      PROVE  h2.m[x + 1] = h1.m[x + 1] /\ h2.m[x] = h1.m[x]
  <2>1. x \in Addr /\ x + 1 \in Addr
    BY PlaceFacts
  <2>2. x \notin Links(G) /\ x + 1 \notin Links(G)
    BY <1>1, HeadersApart
  <2> QED BY <1>4, <2>1, <2>2 DEF Relinks
<1>6. ASSUME NEW x \in Taken(h.m, B) \ {b}, NEW a \in (x + 2)..(x + BlkSize(h.m, x) - 1)
      PROVE  h2.m[a] = h.m[a]
  <2>1. x \in B /\ a \in Addr /\ a \in Nat /\ \A y \in B : y # x => a < y \/ a >= y + BlkSize(h.m, y)
    BY Interior DEF Taken
  <2>2. ASSUME NEW g \in G PROVE a # g + 2 /\ a # g + 3
    <3>1. g \in B /\ g # x
      BY DEF G, Taken, Frees
    <3>2. g \in Nat /\ BlkSize(h.m, g) \in Nat /\ BlkSize(h.m, g) >= 4
      BY <3>1, PlaceFacts
    <3>3. a < g \/ a >= g + BlkSize(h.m, g)
      BY <2>1, <3>1
    <3> QED BY <2>1, <3>2, <3>3
  <2>3. a \notin Links(G)
    BY <2>2 DEF Links
  <2>4. h1.m[a] = h.m[a]
    BY DEF Half
  <2> QED BY <1>4, <2>1, <2>3, <2>4 DEF Relinks
<1>7. EvenOutside(h.m, h2.m, {})
  BY <1>4 DEF EvenOutside, Half, Relinks
<1>8. h2.m \in [Addr -> Word]
  BY <1>4 DEF Relinks
<1>9. /\ \A x \in B \cup S \cup C : h2.m[x + 1] = h.m[x + 1] /\ (x # b => h2.m[x] = h.m[x])
      /\ h2.m[b] = w
  BY <1>5 DEF Half
<1> QED BY <1>4, <1>5, <1>6, <1>7, <1>8, <1>9 DEF Half, h2, G

(* The state of the heap after block b was freed.                          *)
Freed(h, h1, first, top, B, S, C, b) ==
    \E B1 : /\ Shape(h1, first, top, B1, S, C)
            /\ Taken(h1.m, B1) = Taken(h.m, B) \ {b}
            /\ Keeps(h.m, h1.m, Taken(h.m, B) \ {b})
            /\ Idle(h.m, B) \cup {b} \subseteq Idle(h1.m, B1)

(* The free blocks and b between start and stop have become one block with
   its tag; inserting it completes Deallocate.                             *)
LEMMA FreeJoined ==
    ASSUME NEW h, NEW first, NEW top, NEW B, NEW S, NEW C, Shape(h, first, top, B, S, C),
           NEW b \in Taken(h.m, B), NEW start \in B, NEW stop \in B \cup S,
           start <= b, b < stop, BlkAlloc(h.m, stop),
           \A x \in B \cup S \cup C : start <= x /\ x < stop => x = b \/ x \in Frees(h.m, B),
           \A f \in Frees(h.m, B) : f + BlkSize(h.m, f) # start,
           NEW F, F = {f \in Frees(h.m, B) : f < start \/ stop <= f},
           NEW h2, Heap(h2), h2.m \in [Addr -> Word], NEW r, Listed(h2.m, h2.free, F, r),
           h2.m[start] = stop - start, h2.m[stop + 1] = stop - start, h2.m[b] \in Even,
           \A x \in B \cup S \cup C : /\ x < start \/ stop <= x => h2.m[x] = h.m[x]
                                      /\ x # stop => h2.m[x + 1] = h.m[x + 1],
           \A x \in Taken(h.m, B) \ {b} :
              \A a \in (x + 2)..(x + BlkSize(h.m, x) - 1) : h2.m[a] = h.m[a],
           EvenOutside(h.m, h2.m, {})
    PROVE  Freed(h, InsertFree(h2, start), first, top, B, S, C, b)
<1> DEFINE m == h.m
           w == stop - start
           B1 == {x \in B : x <= start \/ stop <= x}
           h1 == InsertFree(h2, start)
           n == h1.m
<1>1. Geometry(m, first, top, B, S, C) /\ NoTwoFree(m, B) /\ b \in B /\ b \notin Frees(m, B)
  BY DEF Shape, Taken
<1>2. /\ \A x \in B \cup S \cup C : x \in Nat /\ x \in Even
      /\ start \in Nat /\ stop \in Nat /\ b \in Nat /\ start < stop
      /\ w \in Nat /\ w \in Even /\ w \in Word /\ start + w = stop
  <2>1. \A x \in B \cup S \cup C : x \in Nat /\ x \in Even
    BY <1>1, PlaceFacts
  <2>2. start \in Nat /\ stop \in Nat /\ b \in Nat /\ start < stop
    BY <1>1, <2>1
  <2>3. w \in Nat /\ w \in Even /\ w \in Word
    BY <1>1, <2>2, SizeIsWord
  <2> QED BY <2>1, <2>2, <2>3
<1>3. \A x \in S \cup C : x < start \/ stop <= x
  <2>0. \A x \in S \cup C : x \in Nat
    BY <1>2
  <2>1. ASSUME NEW x \in S \cup C, start <= x, x < stop PROVE FALSE
    <3>1. x = b \/ x \in Frees(m, B)
      BY <2>1
    <3>2. x \in B
      BY <1>1, <3>1 DEF Frees
    <3> QED BY <1>1, <3>2, PlaceFacts
  <2> HIDE DEF w
  <2> QED BY <1>2, <2>0, <2>1
<1>4. BlkSize(h2.m, start) = w /\ ~ BlkAlloc(h2.m, start)
  <2>1. h2.m[start] = w /\ w \in Even
    BY <1>2
  <2> HIDE DEF w
  <2> QED BY <2>1, SizeWordIs
<1>5. ASSUME NEW x \in B1 \cup S, x # start
      PROVE  BlkSize(h2.m, x) = BlkSize(m, x) /\ (BlkAlloc(h2.m, x) <=> BlkAlloc(m, x))
  <2>1. x \in B \cup S /\ (x < start \/ stop <= x)
    BY <1>2, <1>3, <1>5
  <2>2. h2.m[x] = m[x]
    BY <2>1
  <2> QED BY <2>2, SameWord
<1>6. Geometry(h2.m, first, top, B1, S, C)
  <2>1. \A s \in S : BlkAlloc(h2.m, s)
    <3>1. \A s \in S : BlkAlloc(m, s)
      BY <1>1 DEF Geometry, ChunkList
    <3>2. B \cap S = {}
      BY <1>1, PlaceFacts
    <3> QED BY <1>5, <3>1, <3>2
  <2>2. \A c \in C : h2.m[c] = m[c] /\ h2.m[c + 1] = m[c + 1]
    <3>1. \A c \in C : c # stop
      BY <1>1, PlaceFacts
    <3> QED BY <1>3, <3>1
  <2>3. ASSUME NEW x \in B1 \cup S, x # stop PROVE h2.m[x + 1] = m[x + 1]
    <3>1. x \in B \cup S \cup C
      OBVIOUS
    <3> QED BY <2>3, <3>1
  <2>4. ASSUME NEW x \in S \cup C PROVE x <= start \/ stop <= x
    <3>1. x \in Nat /\ (x < start \/ stop <= x) /\ start \in Nat
      BY <1>2, <1>3
    <3> QED BY <3>1
  <2>5. B1 = {x \in B : x <= start \/ stop <= x}
    OBVIOUS
  <2>6. BlkSize(h2.m, start) = stop - start
    BY <1>4
  <2>7. h2.m[stop + 1] = stop - start /\ start < stop
    BY <1>2
  <2>8. \A x \in B1 \cup S : x # start => BlkSize(h2.m, x) = BlkSize(m, x)
    BY <1>5
  <2> HIDE DEF B1, m
  <2> QED BY <1>1, <2>1, <2>2, <2>3, <2>4, <2>5, <2>6, <2>7, <2>8, GeometryJoin
<1>7. F \in SUBSET B1 /\ start \in B1 \ F /\ B1 \subseteq B
  <2>1. start <= start /\ ~ start < start /\ ~ stop <= start
    BY <1>2
  <2>2. ASSUME NEW f \in F PROVE f \in B1
    <3>1. f \in B /\ (f < start \/ stop <= f)
      BY DEF Frees
    <3>2. f \in Nat
      BY <1>2, <3>1
    <3>3. f <= start \/ stop <= f
      BY <1>2, <3>1, <3>2
    <3> QED BY <3>1, <3>3
  <2> QED BY <2>1, <2>2
<1>8. Relisted(h2, h1, first, top, B1, S, C, F \cup {start})
  <2> HIDE DEF B1
  <2> QED BY <1>6, <1>7, PutFree
<1> HIDE DEF h1
<1> DEFINE G == F \cup {start}
<1>9. /\ Heap(h1) /\ Geometry(n, first, top, B1, S, C)
      /\ \E r1 : Listed(n, h1.free, G, r1)
      /\ \A x \in B1 \cup S \cup C : n[x] = h2.m[x] /\ n[x + 1] = h2.m[x + 1]
      /\ Keeps(h2.m, n, B1 \ G) /\ EvenOutside(h2.m, n, {})
  BY <1>8 DEF Relisted, Unmoved
<1>10. /\ BlkSize(n, start) = w /\ ~ BlkAlloc(n, start)
       /\ \A x \in B1 \cup S : x # start => /\ BlkSize(n, x) = BlkSize(m, x)
                                            /\ BlkAlloc(n, x) <=> BlkAlloc(m, x)
  BY <1>4, <1>5, <1>7, <1>9, SameWord
<1>11. \A x \in Taken(m, B) : x # b => x \in B1 /\ x # start /\ x \notin G /\ x \in B
  <2> SUFFICES ASSUME NEW x \in Taken(m, B), x # b PROVE x \in B1 /\ x # start /\ x \notin G /\ x \in B
    OBVIOUS
  <2>1. x \in B /\ x \notin Frees(m, B)
    BY DEF Taken
  <2>2. x < start \/ stop <= x
    BY <1>2, <2>1
  <2>3. x # start /\ x \in Nat
    BY <1>2, <2>1, <2>2
  <2>4. x \in B1
    BY <1>2, <2>1, <2>2, <2>3
  <2>5. x \notin F
    BY <2>1
  <2> QED BY <2>1, <2>3, <2>4, <2>5
<1>12. Frees(n, B1) = G
  <2>1. \A x \in B1 : x # start => (x \in Frees(n, B1) <=> x \in Frees(m, B))
    BY <1>7, <1>10 DEF Frees
  <2>2. \A x \in B1 : x # start => (x \in F <=> x \in Frees(m, B))
    BY <1>2
  <2>3. start \in Frees(n, B1)
    BY <1>7, <1>10 DEF Frees
  <2>4. Frees(n, B1) \subseteq B1
    BY DEF Frees
  <2> HIDE DEF B1
  <2> QED BY <1>7, <2>1, <2>2, <2>3, <2>4
<1>13. Taken(n, B1) = Taken(m, B) \ {b}
  <2>1. \A x \in B1 \ G : x \in B /\ x # b /\ x \notin Frees(m, B)
    BY <1>2
  <2> QED BY <1>11, <1>12, <2>1 DEF Taken
<1>14. NoTwoFree(n, B1)
  <2> SUFFICES ASSUME NEW f \in G PROVE BlkAlloc(n, f + BlkSize(n, f))
    BY <1>12 DEF NoTwoFree
  <2>1. CASE f = start
    <3>1. stop \in B1 \cup S /\ stop # start
      BY <1>2
    <3> QED BY <1>2, <1>10, <2>1, <3>1
  <2>2. CASE f \in F
    <3>1. f \in B1 /\ f # start /\ f \in Frees(m, B) /\ f \in B
      BY <1>7, <2>2
    <3>2. BlkAlloc(m, f + BlkSize(m, f)) /\ f + BlkSize(m, f) # start
      BY <1>1, <3>1 DEF NoTwoFree
    <3>3. BlkSize(n, f) = BlkSize(m, f)
      BY <1>10, <3>1
    <3>4. f + BlkSize(n, f) \in B1 \cup S
      <4> HIDE DEF n, B1
      <4> QED BY <1>9, <3>1, PlaceFacts
    <3> QED BY <1>10, <3>2, <3>3, <3>4
  <2> QED BY <2>1, <2>2
<1>15. Shape(h1, first, top, B1, S, C)
  BY <1>9, <1>12, <1>14 DEF Shape
<1>16. Keeps(m, n, Taken(m, B) \ {b})
  <2> SUFFICES ASSUME NEW x \in Taken(m, B) \ {b}
               PROVE  /\ BlkSize(n, x) = BlkSize(m, x)
                      /\ \A a \in (x + 2)..(x + BlkSize(m, x) - 1) : n[a] = m[a]
    BY DEF Keeps
  <2>1. x \in B1 \ G /\ x # start
    BY <1>11
  <2>2. BlkSize(n, x) = BlkSize(m, x) /\ BlkSize(h2.m, x) = BlkSize(m, x)
    BY <1>5, <1>10, <2>1
  <2>3. ASSUME NEW a \in (x + 2)..(x + BlkSize(m, x) - 1) PROVE n[a] = m[a]
    <3>1. h2.m[a] = m[a]
      OBVIOUS
    <3>2. n[a] = h2.m[a]
      <4> HIDE DEF n, B1, G
      <4> QED BY <1>9, <2>1, <2>2 DEF Keeps
    <3> QED BY <3>1, <3>2
  <2> QED BY <2>2, <2>3
<1>17. EvenOutside(m, n, {})
  BY <1>9 DEF EvenOutside
<1>18. m \in [Addr -> Word]
  BY <1>1, PlaceFacts
<1>19. ASSUME NEW a \in Idle(m, B) PROVE a \in Idle(n, B1)
  <2>1. PICK f \in Frees(m, B) : f <= a /\ a < f + BlkSize(m, f)
    BY DEF Idle
  <2>2. a \in Nat /\ f \in B /\ f \in Nat /\ BlkSize(m, f) \in Nat
    BY <1>1, AddrFacts, PlaceFacts DEF Idle, Frees
  <2>3. \E g \in Frees(n, B1) : g <= a /\ a < g + BlkSize(n, g)
    <3>1. CASE f < start \/ stop <= f
      <4>1. f \in F /\ f \in B1 /\ f # start
        BY <1>2, <1>7, <2>2, <3>1
      <4> QED BY <1>10, <1>12, <2>1, <4>1
    <3>2. CASE start <= f /\ f < stop
      <4>1. stop >= f + BlkSize(m, f)
        BY <1>1, <2>2, <3>2, PlaceFacts
      <4>2. start <= a /\ a < start + w
        BY <1>2, <2>1, <2>2, <3>2, <4>1
      <4> HIDE DEF w
      <4> QED BY <1>10, <1>12, <4>2
    <3> QED BY <1>2, <2>2, <3>1, <3>2
  <2> HIDE DEF m, n, B1
  <2> QED BY <1>17, <1>18, <2>3, IdleStays
<1>20. b \in Idle(n, B1)
  <2>1. b \in Addr /\ b \in Even
    BY <1>1, PlaceFacts
  <2>2. n[b] \in Even
    BY <1>9, <2>1 DEF EvenOutside
  <2>3. ~ BlkAlloc(n, b)
    BY <2>2, SizeWordIs
  <2>4. b < start + w
    BY <1>2
  <2> HIDE DEF w, B1, n
  <2> QED BY <1>10, <1>12, <2>1, <2>3, <2>4 DEF Idle
<1> HIDE DEF m, B1
<1> QED BY <1>13, <1>15, <1>16, <1>19, <1>20 DEF Freed, h1, m

(* JoinNext reaches from b to the next block that is not free.             *)
NextJoined(h, h1, B, S, C, b, stop) ==
    /\ stop \in B \cup S /\ b < stop /\ BlkAlloc(h.m, stop)
    /\ \A x \in B \cup S \cup C : b < x /\ x < stop => x \in Frees(h.m, B)
    /\ Half(h, h1, B, S, C, {f \in Frees(h.m, B) : f < b \/ stop <= f}, b, stop - b)

(* JoinNext on an allocated block.                                         *)
LEMMA JoinsNext ==
    ASSUME NEW h, NEW first, NEW top, NEW B, NEW S, NEW C, Shape(h, first, top, B, S, C),
           NEW b \in Taken(h.m, B)
    PROVE  \E stop : NextJoined(h, JoinNext(h, b), B, S, C, b, stop)
<1> DEFINE m == h.m
           z == BlkSize(m, b)
           y == b + z
           F == Frees(m, B)
           freed == Sized(h, b, z)
<1>1. Heap(h) /\ Geometry(m, first, top, B, S, C) /\ NoTwoFree(m, B) /\ F \in SUBSET B
      /\ b \in B /\ b \notin F
  BY DEF Shape, Taken, Frees
<1>2. /\ b \in Nat /\ z \in Nat /\ z \in Even /\ z >= 4 /\ z \in Word /\ y \in B \cup S /\ y \in Nat
  BY <1>1, BlockFacts
<1>3. Half(h, h, B, S, C, F, b, m[b])
  <2>1. m \in [Addr -> Word]
    BY <1>1, PlaceFacts
  <2> QED BY <1>1, <2>1 DEF Half, Shape, EvenOutside
<1>4. Half(h, freed, B, S, C, F, b, z)
  <2>1. Geometry(h.m, first, top, B, S, C) /\ F \in SUBSET B /\ b \in B
    BY <1>1
  <2>2. z \in Even /\ z \in Word
    BY <1>2
  <2> HIDE DEF F, z, m
  <2> QED BY <1>3, <2>1, <2>2, HalfSize
<1>5. \A x \in B \cup S \cup C : x \in Nat /\ (x > b => x >= y)
  BY <1>1, PlaceFacts
<1> HIDE DEF freed
<1>6. CASE BlkAlloc(m, y)
  <2>1. JoinNext(h, b) = freed
    BY <1>6 DEF JoinNext, freed, Sized
  <2>2. {f \in F : f < b \/ y <= f} = F
    <3>1. \A f \in F : f # b /\ f \in B
      BY <1>1
    <3> QED BY <1>2, <1>5, <3>1
  <2>3. y - b = z /\ b < y
    BY <1>2
  <2>4. \A x \in B \cup S \cup C : b < x /\ x < y => x \in F
    BY <1>2, <1>5
  <2> HIDE DEF z, y
  <2>5. NextJoined(h, freed, B, S, C, b, y)
    BY <1>2, <1>4, <1>6, <2>2, <2>3, <2>4 DEF NextJoined
  <2> QED BY <2>1, <2>5
<1>7. CASE ~ BlkAlloc(m, y)
  <2> DEFINE cut == RemoveFree(freed, y)
             zy == BlkSize(m, y)
             stop == y + zy
             G == F \ {y}
             w == z + BlkSize(cut.m, y)
             h1 == Sized(cut, b, w)
  <2>1. JoinNext(h, b) = h1
    BY <1>7 DEF JoinNext, freed, Sized
  <2>2. y \in F /\ y \in B /\ y # b
    <3>1. y \notin S
      BY <1>1, <1>7 DEF Geometry, ChunkList
    <3> QED BY <1>2, <1>7, <3>1 DEF Frees
  <2>3. Half(h, cut, B, S, C, G, b, z)
    <3>1. F \in SUBSET Frees(h.m, B)
      OBVIOUS
    <3> HIDE DEF F, y
    <3> QED BY <1>1, <1>4, <2>2, <3>1, HalfCut
  <2> HIDE DEF cut
  <2>4. /\ zy \in Nat /\ zy \in Even /\ zy >= 4 /\ stop \in B \cup S /\ stop \in Nat
        /\ \A x \in B \cup S \cup C : x > y => x >= stop
    <3> HIDE DEF y
    <3> QED BY <1>1, <2>2, BlockFacts, PlaceFacts
  <2>5. BlkSize(cut.m, y) = zy
    <3>1. cut.m[y] = m[y]
      BY <2>2, <2>3 DEF Half
    <3> QED BY <3>1, SameWord
  <2>6. w = stop - b /\ w \in Even /\ w \in Word /\ b < stop
    <3>1. w = stop - b /\ b < stop
      BY <1>2, <2>4, <2>5
    <3>2. stop - b \in Even /\ stop - b \in Word
      <4> HIDE DEF stop
      <4> QED BY <1>1, <2>4, <3>1, SizeIsWord
    <3> QED BY <3>1, <3>2
  <2>7. Half(h, h1, B, S, C, G, b, w)
    <3>1. Geometry(h.m, first, top, B, S, C) /\ G \in SUBSET B /\ b \in B
      BY <1>1
    <3>2. w \in Even /\ w \in Word
      BY <2>6
    <3> HIDE DEF F, G, w, m
    <3> QED BY <2>3, <3>1, <3>2, HalfSize
  <2> HIDE DEF h1
  <2>8. G = {f \in F : f < b \/ stop <= f}
    <3>1. \A f \in F : f # b /\ f \in B /\ f \in Nat /\ (f > b => f >= y) /\ (f > y => f >= stop)
      BY <1>1, <1>5, <2>4
    <3> HIDE DEF F, y
    <3>2. y \in Nat /\ zy \in Nat /\ zy >= 4 /\ b < y
      BY <1>2, <2>4 DEF y
    <3>3. stop \in Nat /\ y < stop /\ ~ y < b /\ ~ stop <= y
      BY <1>2, <3>2
    <3> HIDE DEF zy, stop
    <3>4. \A f \in F : f # y => f < b \/ stop <= f
      BY <1>2, <3>1, <3>2, <3>3
    <3> QED BY <3>3, <3>4
  <2>9. ASSUME NEW x \in B \cup S \cup C, b < x, x < stop PROVE x \in F
    <3>1. x \in Nat /\ x >= y /\ (x > y => x >= stop)
      BY <1>5, <2>4, <2>9
    <3>2. x = y
      BY <1>2, <2>4, <2>9, <3>1
    <3> QED BY <2>2, <3>2
  <2>10. BlkAlloc(m, stop)
    BY <1>1, <2>2 DEF NoTwoFree
  <2> HIDE DEF stop, w, G
  <2>11. NextJoined(h, h1, B, S, C, b, stop)
    BY <2>4, <2>6, <2>7, <2>8, <2>9, <2>10 DEF NextJoined
  <2> QED BY <2>1, <2>11
<1> QED BY <1>6, <1>7

(* Deallocate of an allocated block.                                       *)
LEMMA DeallocateFrees ==
    ASSUME NEW h, NEW first, NEW top, NEW B, NEW S, NEW C, Shape(h, first, top, B, S, C),
           NEW b \in Taken(h.m, B)
    PROVE  Freed(h, JoinPrev(JoinNext(h, b), b), first, top, B, S, C, b)
<1> DEFINE m == h.m
           g == JoinNext(h, b)
           tag == m[b + 1]
           p == b - tag
           joins == tag # 0 /\ ~ BlkAlloc(m, p)
<1>1. PICK stop : NextJoined(h, g, B, S, C, b, stop)
  BY JoinsNext
<1> HIDE DEF g
<1> DEFINE F == {f \in Frees(m, B) : f < b \/ stop <= f}
<1>2. /\ Heap(h) /\ Geometry(m, first, top, B, S, C) /\ NoTwoFree(m, B)
      /\ b \in B /\ b \notin Frees(m, B)
  BY DEF Shape, Taken
<1>3. /\ stop \in B \cup S /\ b < stop /\ BlkAlloc(m, stop)
      /\ \A x \in B \cup S \cup C : b < x /\ x < stop => x \in Frees(m, B)
      /\ Half(h, g, B, S, C, F, b, stop - b) /\ g.m[b] = stop - b
  BY <1>1 DEF NextJoined, Half
<1>4. /\ \A x \in B \cup S \cup C : x \in Nat /\ x \in Even /\ x \in Addr /\ x + 1 \in Addr
      /\ b \in Nat /\ stop \in Nat
      /\ stop - b \in Even /\ stop - b \in Word /\ stop - b \in Nat /\ b + (stop - b) = stop
      /\ stop + 1 \in Addr
  <2>1. \A x \in B \cup S \cup C : x \in Nat /\ x \in Even /\ x \in Addr /\ x + 1 \in Addr
    BY <1>2, PlaceFacts
  <2>2. stop - b \in Even /\ stop - b \in Word /\ stop - b \in Nat
    BY <1>2, <1>3, SizeIsWord
  <2> QED BY <1>2, <1>3, <2>1, <2>2
<1>5. /\ Heap(g) /\ g.m \in [Addr -> Word]
      /\ \A x \in B \cup S \cup C : g.m[x + 1] = m[x + 1] /\ (x # b => g.m[x] = m[x])
      /\ \A x \in Taken(m, B) \ {b} :
            \A a \in (x + 2)..(x + BlkSize(m, x) - 1) : g.m[a] = m[a]
      /\ EvenOutside(m, g.m, {})
  BY <1>3 DEF Half
<1>6. /\ BlkPrev(g.m, b) = tag
      /\ BlkSize(g.m, b) = stop - b
  <2>1. g.m[b + 1] = tag
    BY <1>2, <1>5
  <2> DEFINE w == stop - b
  <2>2. g.m[b] = w /\ w \in Even
    BY <1>3, <1>4
  <2> HIDE DEF w
  <2>3. BlkSize(g.m, b) = w
    BY <2>2, SizeWordIs
  <2> QED BY <2>1, <2>3 DEF BlkPrev, w
<1>7. tag # 0 => p \in B /\ tag \in Nat /\ BlkSize(m, p) = tag /\ p # b
  <2>1. tag # 0 => p \in B /\ tag \in Nat /\ BlkSize(m, p) = tag
    BY <1>2, TagLeads
  <2> QED BY <1>4, <2>1
<1>8. tag # 0 => (BlkAlloc(g.m, p) <=> BlkAlloc(m, p)) /\ g.m[p] = m[p]
  <2>1. tag # 0 => g.m[p] = m[p]
    <3> HIDE DEF p, tag
    <3> QED BY <1>5, <1>7
  <2> QED BY <2>1, SameWord
<1>9. CASE ~ joins
  <2> DEFINE h2 == [g EXCEPT !.m[stop + 1] = stop - b]
  <2>1. JoinPrev(g, b) = InsertFree(h2, b)
    <3> DEFINE start == b
               size == BlkSize(g.m, b)
    <3>1. ~ (BlkPrev(g.m, b) # 0 /\ ~ BlkAlloc(g.m, b - BlkPrev(g.m, b)))
      BY <1>6, <1>8, <1>9
    <3>2. JoinPrev(g, b) = InsertFree([g EXCEPT !.m[b + size + 1] = size], b)
      BY <3>1 DEF JoinPrev
    <3> QED BY <1>4, <1>6, <3>2
  <2>2. h2 = [m |-> [g.m EXCEPT ![stop + 1] = stop - b], free |-> g.free]
    BY <1>5 DEF Heap
  <2> HIDE DEF h2
  <2>3. /\ Heap(h2) /\ h2.free = g.free /\ h2.m \in [Addr -> Word]
        /\ h2.m[stop + 1] = stop - b /\ \A a \in Addr : a # stop + 1 => h2.m[a] = g.m[a]
    BY <1>4, <1>5, <2>2 DEF Heap
  <2>4. ASSUME NEW x \in B \cup S \cup C
        PROVE  /\ h2.m[x] = g.m[x]
               /\ x # stop => h2.m[x + 1] = m[x + 1]
               /\ x < b \/ stop <= x => h2.m[x] = m[x]
    <3>1. x # stop + 1 /\ (x # stop => x + 1 # stop + 1)
      BY <1>2, <1>3, HeadersApart
    <3>2. h2.m[x] = g.m[x] /\ (x # stop => h2.m[x + 1] = g.m[x + 1])
      BY <1>4, <2>3, <3>1
    <3>3. x < b \/ stop <= x => x # b
      BY <1>3, <1>4
    <3> QED BY <1>5, <3>2, <3>3
  <2>5. \E r : Listed(h2.m, h2.free, F, r)
    <3>1. PICK r : Listed(g.m, g.free, F, r)
      BY <1>3 DEF Half
    <3>2. F \in SUBSET B
      BY DEF Frees
    <3> HIDE DEF F
    <3>3. ASSUME NEW a \in Links(F) PROVE h2.m[a] = g.m[a]
      <4>1. stop + 1 \notin Links(F)
        BY <1>2, <1>3, <3>2, HeadersApart
      <4>2. a \in Addr
        BY <1>2, <3>2, PlaceFacts DEF Links
      <4> QED BY <2>3, <4>1, <4>2
    <3> QED BY <2>3, <3>1, <3>3, ListFrame
  <2>6. ASSUME NEW x \in Taken(m, B) \ {b}, NEW a \in (x + 2)..(x + BlkSize(m, x) - 1)
        PROVE  h2.m[a] = m[a]
    <3>1. a \in Addr /\ a # stop + 1
      BY <1>2, <1>3, Interior DEF Taken
    <3> QED BY <1>5, <2>3, <3>1
  <2>7. EvenOutside(m, h2.m, {})
    <3> SUFFICES ASSUME NEW a \in Addr, a \in Even PROVE h2.m[a] = m[a] \/ h2.m[a] \in Even
      BY DEF EvenOutside
    <3>1. a # stop + 1
      BY <1>3, <1>4, EvenGap
    <3> QED BY <1>5, <2>3, <3>1 DEF EvenOutside
  <2>8. \A f \in Frees(m, B) : f + BlkSize(m, f) # b
    <3> SUFFICES ASSUME NEW f \in Frees(m, B), f + BlkSize(m, f) = b PROVE FALSE
      OBVIOUS
    <3>1. f \in B /\ ~ BlkAlloc(m, f)
      BY DEF Frees
    <3>2. f = p /\ tag # 0
      BY <1>2, <3>1, TagLeads
    <3> QED BY <1>9, <3>1, <3>2
  <2>9. ASSUME NEW x \in B \cup S \cup C, b <= x, x < stop PROVE x = b \/ x \in Frees(m, B)
    <3>1. x = b \/ b < x
      BY <1>4, <2>9
    <3> QED BY <1>3, <2>9, <3>1
  <2>10. h2.m[b] = stop - b /\ h2.m[b] \in Even
    BY <1>2, <1>3, <1>4, <2>4
  <2>11. PICK r : Listed(h2.m, h2.free, F, r)
    BY <2>5
  <2>12. F = {f \in Frees(m, B) : f < b \/ stop <= f} /\ b <= b
    BY <1>4
  <2> HIDE DEF F, joins, tag, p
  <2>13. Freed(h, InsertFree(h2, b), first, top, B, S, C, b)
    BY <1>2, <1>3, <2>3, <2>4, <2>6, <2>7, <2>8, <2>9, <2>10, <2>11, <2>12, FreeJoined
  <2> QED BY <2>1, <2>13 DEF g
<1>10. CASE joins
  <2> DEFINE cut == RemoveFree(g, p)
             w == stop - p
             G == F \ {p}
             h2 == [m |-> [cut.m EXCEPT ![p] = w, ![stop + 1] = w], free |-> cut.free]
  <2>1. p \in B /\ p # b /\ tag \in Nat /\ p \in Nat /\ p \in Addr /\ BlkSize(m, p) = tag
        /\ p + tag = b /\ p \in Frees(m, B) /\ tag >= 4
    <3>1. p \in B /\ p # b /\ tag \in Nat /\ BlkSize(m, p) = tag /\ p \in Frees(m, B)
      BY <1>7, <1>10 DEF Frees
    <3>2. p + tag = b
      BY <1>4, <3>1
    <3> HIDE DEF p
    <3>3. p \in Nat /\ p \in Addr /\ BlkSize(m, p) >= 4
      BY <1>2, <3>1, PlaceFacts
    <3> QED BY <3>1, <3>2, <3>3
  <2>2. p < b /\ p \in F
    BY <1>4, <2>1
  <2>3. Half(h, cut, B, S, C, G, b, stop - b)
    <3>1. F \in SUBSET Frees(h.m, B) /\ Geometry(h.m, first, top, B, S, C) /\ b \in B
      BY <1>2
    <3>2. Half(h, g, B, S, C, F, b, stop - b)
      BY <1>3
    <3> HIDE DEF F, p, m
    <3> QED BY <2>2, <3>1, <3>2, HalfCut
  <2> HIDE DEF cut
  <2>4. /\ Heap(cut) /\ cut.m \in [Addr -> Word] /\ cut.m[b] = g.m[b]
        /\ \A x \in B \cup S \cup C : cut.m[x + 1] = m[x + 1] /\ (x # b => cut.m[x] = m[x])
        /\ \A x \in Taken(m, B) \ {b} :
              \A a \in (x + 2)..(x + BlkSize(m, x) - 1) : cut.m[a] = m[a]
        /\ EvenOutside(m, cut.m, {})
    BY <1>3, <2>3 DEF Half
  <2>5. BlkSize(cut.m, p) = tag /\ BlkSize(cut.m, b) = stop - b
    <3>1. cut.m[p] = m[p]
      BY <2>1, <2>4
    <3>2. cut.m[b] = g.m[b]
      BY <2>4
    <3>3. BlkSize(cut.m, p) = BlkSize(m, p)
      BY <3>1, SameWord
    <3>4. BlkSize(cut.m, b) = BlkSize(g.m, b)
      BY <3>2, SameWord
    <3> QED BY <1>6, <2>1, <3>3, <3>4
  <2>6. /\ w = tag + (stop - b) /\ p + w = stop /\ p < stop /\ w \in Nat
        /\ w \in Even /\ w \in Word
    <3>1. w = tag + (stop - b) /\ p + w = stop /\ p < stop
      BY <1>3, <1>4, <2>1
    <3>2. stop - p \in Even /\ stop - p \in Word /\ stop - p \in Nat
      <4> HIDE DEF p
      <4> QED BY <1>2, <1>3, <2>1, <3>1, SizeIsWord
    <3> QED BY <3>1, <3>2
  <2>7. p # stop + 1 /\ p \notin S \cup C /\ p # stop /\ b # stop + 1
    BY <1>2, <1>3, <1>4, <2>1, <2>6, HeadersApart, PlaceFacts
  <2>8. JoinPrev(g, b) = InsertFree(h2, p)
    <3> DEFINE got == [cut EXCEPT !.m[p] = BlkSize(cut.m, p) + BlkSize(cut.m, b)]
               size == BlkSize(got.m, p)
    <3>1. BlkPrev(g.m, b) # 0 /\ ~ BlkAlloc(g.m, b - BlkPrev(g.m, b)) /\ b - BlkPrev(g.m, b) = p
      BY <1>6, <1>8, <1>10
    <3>2. JoinPrev(g, b) = InsertFree([got EXCEPT !.m[p + size + 1] = size], p)
      BY <3>1 DEF JoinPrev, cut
    <3> HIDE DEF p, w
    <3>3. got = [m |-> [cut.m EXCEPT ![p] = w], free |-> cut.free]
      BY <2>4, <2>5, <2>6 DEF Heap
    <3> HIDE DEF got
    <3>4. got.m[p] = w
      BY <2>1, <2>4, <3>3
    <3>5. size = w
      BY <2>6, <3>4, SizeWordIs
    <3> HIDE DEF size
    <3>6. [got EXCEPT !.m[p + size + 1] = size] = h2
      BY <2>6, <3>3, <3>5
    <3> QED BY <3>2, <3>6
  <2>9. /\ Heap(h2) /\ h2.free = cut.free /\ h2.m \in [Addr -> Word]
        /\ h2.m[p] = w /\ h2.m[stop + 1] = w
        /\ \A a \in Addr : a # stop + 1 /\ a # p => h2.m[a] = cut.m[a]
    <3>1. Heap(h2) /\ h2.free = cut.free /\ h2.m = [cut.m EXCEPT ![p] = w, ![stop + 1] = w]
      BY DEF Heap
    <3> HIDE DEF h2, p, w
    <3> QED BY <1>4, <2>1, <2>4, <2>6, <2>7, <3>1
  <2> HIDE DEF h2
  <2>10. ASSUME NEW x \in B \cup S \cup C
         PROVE  /\ x # p => h2.m[x] = cut.m[x]
                /\ x # stop => h2.m[x + 1] = m[x + 1]
                /\ x < p \/ stop <= x => h2.m[x] = m[x]
    <3>1. x # stop + 1 /\ (x # stop => x + 1 # stop + 1) /\ x + 1 # p
      BY <1>2, <1>3, <2>1, HeadersApart
    <3>2. (x # p => h2.m[x] = cut.m[x]) /\ (x # stop => h2.m[x + 1] = cut.m[x + 1])
      BY <1>4, <2>9, <3>1
    <3>3. x < p \/ stop <= x => x # b /\ x # p
      BY <1>3, <1>4, <2>1, <2>2, <2>6
    <3> QED BY <2>4, <3>2, <3>3
  <2>11. \E r : Listed(h2.m, h2.free, G, r)
    <3>1. PICK r : Listed(cut.m, cut.free, G, r)
      BY <2>3 DEF Half
    <3>2. G \in SUBSET B
      BY DEF Frees
    <3> HIDE DEF G, p
    <3>3. ASSUME NEW a \in Links(G) PROVE h2.m[a] = cut.m[a]
      <4>1. stop + 1 \notin Links(G) /\ p \notin Links(G)
        BY <1>2, <1>3, <2>1, <3>2, HeadersApart
      <4>2. a \in Addr
        BY <1>2, <3>2, PlaceFacts DEF Links
      <4> QED BY <2>9, <4>1, <4>2
    <3> QED BY <2>9, <3>1, <3>3, ListFrame
  <2>12. ASSUME NEW x \in Taken(m, B) \ {b}, NEW a \in (x + 2)..(x + BlkSize(m, x) - 1)
         PROVE  h2.m[a] = m[a]
    <3>1. a \in Addr /\ a # stop + 1 /\ a # p
      BY <1>2, <1>3, <2>1, Interior DEF Taken
    <3> QED BY <2>4, <2>9, <3>1
  <2>13. EvenOutside(m, h2.m, {})
    <3> SUFFICES ASSUME NEW a \in Addr, a \in Even PROVE h2.m[a] = m[a] \/ h2.m[a] \in Even
      BY DEF EvenOutside
    <3>1. a # stop + 1
      BY <1>3, <1>4, EvenGap
    <3>2. a = p => h2.m[a] \in Even
      BY <2>6, <2>9
    <3> QED BY <2>4, <2>9, <3>1, <3>2 DEF EvenOutside
  <2>14. ASSUME NEW f \in Frees(m, B) PROVE f + BlkSize(m, f) # p
    <3>1. BlkAlloc(m, f + BlkSize(m, f))
      BY <1>2 DEF NoTwoFree
    <3>2. ~ BlkAlloc(m, p)
      BY <2>1 DEF Frees
    <3> QED BY <3>1, <3>2
  <2>15. \A x \in B \cup S \cup C : x > p => x >= b
    <3> HIDE DEF p
    <3> QED BY <1>2, <2>1, PlaceFacts
  <2>16. ASSUME NEW x \in B \cup S \cup C, p <= x, x < stop PROVE x = b \/ x \in Frees(m, B)
    <3>1. x \in Nat /\ (x = p \/ x >= b)
      BY <1>4, <2>1, <2>15, <2>16
    <3> QED BY <1>3, <1>4, <2>1, <2>16, <3>1
  <2>17. h2.m[b] \in Even
    BY <1>2, <1>3, <1>4, <2>1, <2>4, <2>10
  <2>18. PICK r : Listed(h2.m, h2.free, G, r)
    BY <2>11
  <2>19. G = {f \in Frees(m, B) : f < p \/ stop <= f}
    <3>1. \A f \in Frees(m, B) : f \in Nat /\ (f > p => f >= b) /\ f # b
      BY <1>2, <1>4, <2>15 DEF Frees
    <3>2. p \in Nat /\ p < b /\ b \in Nat /\ stop \in Nat /\ b < stop
      BY <1>3, <1>4, <2>1, <2>2
    <3> HIDE DEF p, m
    <3>3. \A f \in Frees(m, B) : f # p => (f < b \/ stop <= f <=> f < p \/ stop <= f)
      BY <3>1, <3>2
    <3>4. ~ p < p /\ ~ stop <= p
      BY <3>2
    <3> QED BY <3>3, <3>4
  <2>20. h2.m[p] = stop - p /\ h2.m[stop + 1] = stop - p /\ p <= b
    BY <1>4, <2>1, <2>2, <2>9
  <2> HIDE DEF F, G, joins, tag, p, w
  <2>21. Freed(h, InsertFree(h2, p), first, top, B, S, C, b)
    BY <1>2, <1>3, <2>1, <2>9, <2>10, <2>12, <2>13, <2>14, <2>16, <2>17, <2>18, <2>19, <2>20,
       FreeJoined
  <2> QED BY <2>8, <2>21 DEF g
<1> QED BY <1>9, <1>10

-----------------------------------------------------------------------------
(* Clearing and writing the payload of a block.                            *)

(* h1 is h with other words in the payload of the block b.                 *)
Written(h, h1, first, top, B, S, C, b) ==
    /\ Shape(h1, first, top, B, S, C)
    /\ Taken(h1.m, B) = Taken(h.m, B)
    /\ BlkSize(h1.m, b) = BlkSize(h.m, b)
    /\ Keeps(h.m, h1.m, Taken(h.m, B) \ {b})
    /\ Idle(h.m, B) \subseteq Idle(h1.m, B)

(* Writing into an allocated block leaves all else alone.                  *)
LEMMA PayloadWritten ==
    ASSUME NEW h, NEW first, NEW top, NEW B, NEW S, NEW C, Shape(h, first, top, B, S, C),
           NEW b \in Taken(h.m, B), NEW h1, Heap(h1), h1.free = h.free, h1.m \in [Addr -> Word],
           \A a \in Addr : h1.m[a] = h.m[a] \/ a \in (b + 2)..(b + BlkSize(h.m, b) - 1)
    PROVE  Written(h, h1, first, top, B, S, C, b)
<1> DEFINE m == h.m
           n == h1.m
           F == Frees(m, B)
           P == (b + 2)..(b + BlkSize(m, b) - 1)
<1>1. Geometry(m, first, top, B, S, C) /\ NoTwoFree(m, B) /\ b \in B /\ b \notin F /\ F \in SUBSET B
  BY DEF Shape, Taken, Frees
<1>2. PICK r : Listed(m, h.free, F, r)
  BY DEF Shape
<1>3. n \in [Addr -> Word] /\ \A a \in Addr : a \notin P => n[a] = m[a]
  OBVIOUS
<1>4. b \in Nat /\ BlkSize(m, b) \in Nat
  BY <1>1, BlockFacts
<1> HIDE DEF m, n, P, F
<1>5. ASSUME NEW x \in B \cup S \cup C PROVE n[x] = m[x] /\ n[x + 1] = m[x + 1]
  <2>1. x \in Addr /\ x + 1 \in Addr
    BY <1>1, PlaceFacts
  <2>2. x \notin P /\ x + 1 \notin P
    BY <1>1, Interior DEF P
  <2> QED BY <1>3, <2>1, <2>2
<1>6. \A x \in B \cup S : BlkSize(n, x) = BlkSize(m, x) /\ (BlkAlloc(n, x) <=> BlkAlloc(m, x))
  BY <1>5, SameWord
<1>7. Geometry(n, first, top, B, S, C)
  <2>1. \A s \in S : BlkAlloc(m, s)
    BY <1>1 DEF Geometry, ChunkList
  <2> QED BY <1>1, <1>3, <1>5, <1>6, <2>1, GeometryFrame
<1>8. Frees(n, B) = F /\ Taken(n, B) = Taken(m, B)
  BY <1>6 DEF Frees, Taken, F
<1>9. NoTwoFree(n, B)
  <2> SUFFICES ASSUME NEW f \in F PROVE BlkAlloc(n, f + BlkSize(n, f))
    BY <1>8 DEF NoTwoFree
  <2>1. f \in B /\ BlkAlloc(m, f + BlkSize(m, f))
    BY <1>1 DEF NoTwoFree, F
  <2>2. f + BlkSize(m, f) \in B \cup S
    BY <1>1, <2>1, BlockFacts
  <2> QED BY <1>6, <2>1, <2>2
<1>10. ASSUME NEW a \in Addr, NEW y \in B, y # b, y <= a, a < y + BlkSize(m, y) PROVE n[a] = m[a]
  <2>1. a \notin P
    <3> SUFFICES ASSUME a \in P PROVE FALSE
      OBVIOUS
    <3>1. a \in Nat /\ (a < y \/ a >= y + BlkSize(m, y))
      BY <1>1, <1>10, Interior DEF P
    <3>2. y \in Nat /\ BlkSize(m, y) \in Nat
      BY <1>1, BlockFacts
    <3> QED BY <1>10, <3>1, <3>2
  <2> QED BY <1>3, <2>1
<1>11. \A a \in Links(F) : n[a] = m[a]
  <2> SUFFICES ASSUME NEW f \in F PROVE n[f + 2] = m[f + 2] /\ n[f + 3] = m[f + 3]
    BY DEF Links
  <2>1. f \in B /\ f # b /\ f \in Nat /\ BlkSize(m, f) \in Nat /\ BlkSize(m, f) >= 4
        /\ f + 2 \in Addr /\ f + 3 \in Addr
    BY <1>1, PlaceFacts
  <2>2. f <= f + 2 /\ f + 2 < f + BlkSize(m, f) /\ f <= f + 3 /\ f + 3 < f + BlkSize(m, f)
    BY <2>1
  <2> QED BY <1>10, <2>1, <2>2
<1>12. Listed(n, h.free, F, r)
  BY <1>2, <1>11, ListFrame
<1>13. Shape(h1, first, top, B, S, C)
  BY <1>7, <1>8, <1>9, <1>12 DEF Shape, n
<1>14. Keeps(m, n, Taken(m, B) \ {b})
  <2> SUFFICES ASSUME NEW x \in Taken(m, B) \ {b}
               PROVE  /\ BlkSize(n, x) = BlkSize(m, x)
                      /\ \A a \in (x + 2)..(x + BlkSize(m, x) - 1) : n[a] = m[a]
    BY DEF Keeps
  <2>1. x \in B /\ x # b
    BY DEF Taken
  <2>2. ASSUME NEW a \in (x + 2)..(x + BlkSize(m, x) - 1) PROVE n[a] = m[a]
    <3>1. a \in Addr /\ a \in Nat
      BY <1>1, <2>1, Interior
    <3>2. x \in Nat /\ BlkSize(m, x) \in Nat
      BY <1>1, <2>1, BlockFacts
    <3>3. x <= a /\ a < x + BlkSize(m, x)
      BY <3>1, <3>2
    <3> QED BY <1>10, <2>1, <3>1, <3>3
  <2> QED BY <1>6, <2>1, <2>2
<1>15. ASSUME NEW a \in Idle(m, B) PROVE a \in Idle(n, B)
  <2>1. PICK f \in F : f <= a /\ a < f + BlkSize(m, f)
    BY DEF Idle, F
  <2>2. f \in B /\ f # b /\ a \in Addr
    BY <1>1 DEF Idle
  <2>3. n[a] = m[a]
    BY <1>10, <2>1, <2>2
  <2>4. BlkAlloc(n, a) <=> BlkAlloc(m, a)
    BY <2>3, SameWord
  <2>5. f <= a /\ a < f + BlkSize(n, f)
    BY <1>6, <2>1, <2>2
  <2> QED BY <1>8, <2>4, <2>5 DEF Idle
<1> QED BY <1>1, <1>6, <1>8, <1>13, <1>14, <1>15 DEF Written, m, n

-----------------------------------------------------------------------------
(* The sizes of blocks and chunks.                                         *)

(* The remainder of a number below twice the divisor.                      *)
LEMMA Modulo ==
    ASSUME NEW n \in Nat, NEW d \in Nat, d > 0
    PROVE  /\ n % d \in Nat /\ n % d < d /\ n % d <= n
           /\ n < d => n % d = n
           /\ d <= n /\ n < d + d => n % d = n - d
<1>1. n % d \in 0..(d - 1) /\ n = d * (n \div d) + (n % d) /\ n \div d \in Nat
  OBVIOUS
<1> QED BY <1>1

(* A multiple of an even number is even.                                   *)
LEMMA EvenMultiple ==
    ASSUME NEW n \in Nat, NEW d \in Even, d > 0
    PROVE  n - (n % d) \in Even
<1>1. n % d \in 0..(d - 1) /\ n = d * (n \div d) + (n % d) /\ n \div d \in Nat /\ d \in Nat
  BY DEF Even
<1>2. PICK k \in Nat : d = 2 * k
  <2>1. d = 2 * (d \div 2) /\ d \div 2 \in Nat
    BY DEF Even
  <2> QED BY <2>1
<1> DEFINE q == n \div d
           j == k * q
<1>3. j \in Nat /\ d * q = 2 * j
  BY <1>1, <1>2
<1>4. n - (n % d) = 2 * j
  BY <1>1, <1>3
<1> HIDE DEF j
<1> QED BY <1>3, <1>4 DEF Even

(* A request that is not refused: no sum wrapped.                          *)
LEMMA NeedFits ==
    ASSUME NEW size \in Request, ~ Refused(size)
    PROVE  /\ size \in Nat /\ Need(size) \in Nat /\ Need(size) >= size
           /\ BlockNeed(size) = Need(size) + 2
           /\ BlockNeed(size) \in Even /\ BlockNeed(size) >= 4 /\ BlockNeed(size) + 2 <= Wrap
<1> DEFINE sum == (size + 2 - 1) % Wrap
           even == RoundUp(size, 2)
           need == Need(size)
           bn == BlockNeed(size)
<1>1. Wrap \in Nat /\ Wrap \in Even /\ Wrap > 0 /\ size \in Nat /\ size < Wrap
  BY Constants, EvenNat
<1>2. size + 2 - 1 \in Nat /\ size + 2 - 1 = size + 1
  BY <1>1
<1>3. sum = IF size + 1 < Wrap THEN size + 1 ELSE 0
  <2>1. CASE size + 1 < Wrap
    BY <1>1, <1>2, <2>1, Modulo
  <2>2. CASE ~ size + 1 < Wrap
    <3>1. Wrap <= size + 1 /\ size + 1 < Wrap + Wrap /\ size + 1 = Wrap
      BY <1>1, <2>2
    <3>2. (size + 1) % Wrap = (size + 1) - Wrap
      BY <1>1, <1>2, <3>1, Modulo
    <3> QED BY <1>1, <1>2, <2>2, <3>1, <3>2
  <2> QED BY <2>1, <2>2
<1>4. even = sum - (sum % 2) /\ ~ even < size
  BY DEF RoundUp, Refused
<1> HIDE DEF sum, even
<1>5. size + 1 < Wrap
  <2> SUFFICES ASSUME ~ size + 1 < Wrap PROVE FALSE
    OBVIOUS
  <2>1. sum = 0 /\ even = 0
    BY <1>3, <1>4
  <2>2. size = Wrap - 1 /\ Wrap >= 2
    BY <1>1, EvenNat DEF Even
  <2> QED BY <1>1, <1>4, <2>1, <2>2
<1>6. even \in Nat /\ even \in Even /\ size <= even /\ even <= size + 1
  BY <1>1, <1>3, <1>4, <1>5 DEF Even
<1>7. need = IF even < 2 THEN 2 ELSE even
  BY DEF Need, even
<1> HIDE DEF need
<1>8. need \in Nat /\ need \in Even /\ need >= size /\ need >= 2
  BY <1>1, <1>6, <1>7, EvenNat
<1>9. need + 2 <= Wrap
  <2>1. even < Wrap
    BY <1>1, <1>5, <1>6
  <2>2. even + 2 <= Wrap
    BY <1>1, <1>6, <2>1, EvenGap
  <2>3. Wrap >= 4
    BY Constants, EvenNat, EvenGap DEF Even
  <2> QED BY <1>1, <1>6, <1>7, <2>2, <2>3
<1>10. bn = (need + 2) % Wrap /\ ~ bn < need
  BY DEF BlockNeed, Hdr, Refused, need
<1> HIDE DEF bn
<1>11. need + 2 < Wrap
  <2> SUFFICES ASSUME need + 2 = Wrap PROVE FALSE
    BY <1>1, <1>8, <1>9
  <2>1. (need + 2) % Wrap = (need + 2) - Wrap
    BY <1>1, <1>8, Modulo
  <2>2. bn = 0
    BY <1>1, <1>8, <1>10, <2>1
  <2> QED BY <1>8, <1>10, <2>2
<1>12. bn = need + 2
  BY <1>1, <1>8, <1>10, <1>11, Modulo
<1>13. bn \in Even /\ bn >= 4
  BY <1>8, <1>12, EvenNat, EvenSum
<1>14. bn + 2 <= Wrap
  BY <1>1, <1>11, <1>12, <1>13, EvenGap
<1> QED BY <1>1, <1>8, <1>12, <1>13, <1>14 DEF bn, need

(* A chunk the system gives has room for its header, a block and the
   sentinel, also when the sum of ChunkWords wrapped.                      *)
LEMMA ChunkFits ==
    ASSUME NEW bn \in Even, bn + 2 <= Wrap, ChunkWords(bn) > 0
    PROVE  ChunkWords(bn) \in Even /\ ChunkWords(bn) >= 8
<1> DEFINE want == (bn + 2 + 2) % Wrap
           up == want + Page - 1
           sum == up % Wrap
           n == ChunkWords(bn)
<1>1. /\ Wrap \in Nat /\ Wrap > 0 /\ Page \in Nat /\ Page \in Even /\ Page > 0 /\ bn \in Nat
      /\ DefaultChunk \in Nat /\ DefaultChunk \in Even /\ DefaultChunk >= 8
  BY Constants, EvenNat
<1>2. want \in Nat /\ want < Wrap
  BY <1>1, Modulo
<1>3. n = IF want > DefaultChunk THEN sum - (sum % Page) ELSE DefaultChunk
  BY DEF ChunkWords, ChunkMeta, Sentinel, RoundUp
<1> HIDE DEF want, n
<1>4. CASE ~ want > DefaultChunk
  BY <1>1, <1>3, <1>4 DEF n
<1>5. CASE want > DefaultChunk
  <2>1. up \in Nat /\ up >= want
    BY <1>1, <1>2
  <2>2. sum \in Nat
    BY <1>1, <2>1, Modulo
  <2>3. n \in Even
    BY <1>1, <1>3, <1>5, <2>2, EvenMultiple
  <2>4. Page <= Wrap
    <3> SUFFICES ASSUME Wrap < Page PROVE FALSE
      BY <1>1
    <3>1. Wrap % Page = Wrap
      BY <1>1, Modulo
    <3> QED BY <1>1, <3>1, Constants
  <2>5. up < Wrap
    <3> SUFFICES ASSUME Wrap <= up PROVE FALSE
      BY <1>1, <2>1
    <3>1. up < Wrap + Wrap
      BY <1>1, <1>2, <2>4
    <3>2. sum = up - Wrap
      BY <1>1, <2>1, <3>1, Modulo
    <3>3. sum < Page
      BY <1>1, <1>2, <3>2
    <3> HIDE DEF sum
    <3>4. sum % Page = sum
      BY <1>1, <2>2, <3>3, Modulo
    <3>5. n = 0
      BY <1>3, <1>5, <2>2, <3>4
    <3> QED BY <3>5 DEF n
  <2>6. sum = up
    BY <1>1, <2>1, <2>5, Modulo
  <2>7. sum % Page < Page /\ sum % Page \in Nat
    BY <1>1, <2>2, Modulo
  <2>8. n >= want
    <3> HIDE DEF sum
    <3>1. sum = want + Page - 1
      BY <2>6
    <3> DEFINE k == sum % Page
    <3>2. n = sum - k /\ k < Page /\ k \in Nat
      BY <1>3, <1>5, <2>7
    <3> HIDE DEF k
    <3> QED BY <1>1, <1>2, <3>1, <3>2
  <2>9. n \in Nat
    BY <2>3, EvenNat
  <2> QED BY <1>1, <1>2, <1>5, <2>3, <2>8, <2>9 DEF n
<1> QED BY <1>4, <1>5

-----------------------------------------------------------------------------
(* GrowHeap.                                                               *)

(* The heap with a chunk of n words at top.                                *)
LEMMA GeometryGrow ==
    ASSUME NEW m, NEW m2, NEW first, NEW top, NEW B, NEW S, NEW C,
           Geometry(m, first, top, B, S, C), m2 \in [Addr -> Word],
           NEW n \in Even, n >= 8, top + n <= Memory + 2,
           \A x \in B \cup S \cup C : m2[x] = m[x] /\ m2[x + 1] = m[x + 1],
           m2[top] = first, m2[top + 1] = n, m2[top + 2] = n - 4, m2[top + 3] = 0,
           NEW s1, s1 = top + n - 2, m2[s1] = 3, m2[s1 + 1] = n - 4
    PROVE  Geometry(m2, top, top + n, B \cup {top + 2}, S \cup {s1}, C \cup {top})
<1> DEFINE f == top + 2
           B1 == B \cup {f}
           S1 == S \cup {s1}
           C1 == C \cup {top}
<1>1. top \in Nat /\ top \in Even /\ 2 <= top /\ n \in Nat /\ s1 \in Nat /\ f \in Nat
      /\ s1 = top + n - 2 /\ f = top + 2 /\ top < f /\ f < s1 /\ s1 - f = n - 4
  BY PlaceFacts, EvenNat
<1>2. f \in Even /\ s1 \in Even /\ n - 4 \in Even /\ n - 4 \in Nat /\ n - 4 >= 4 /\ top + n \in Even
  <2>1. top + n \in Even /\ top + 2 \in Even /\ n - 4 \in Even
    BY <1>1, EvenNat, EvenSum
  <2>2. (top + n) - 2 \in Even
    BY <1>1, <2>1, EvenNat, EvenSum
  <2> QED BY <1>1, <2>1, <2>2
<1>3. \A x \in B \cup S \cup C : x \in Nat /\ x \in Even /\ 2 <= x /\ x + 2 <= top
  BY PlaceFacts
<1>4. BlkSize(m2, f) = n - 4 /\ BlkAlloc(m2, s1)
  <2>1. m2[f] = n - 4
    OBVIOUS
  <2>2. BlkSize(m2, f) = n - 4
    BY <1>2, <2>1, SizeWordIs
  <2>3. m2[s1] = 2 + 1 /\ 2 \in Even
    BY EvenNat
  <2>4. BlkAlloc(m2, s1)
    BY <2>3, SizeWordIs
  <2> QED BY <2>2, <2>4
<1>5. \A x \in B \cup S : BlkSize(m2, x) = BlkSize(m, x) /\ (BlkAlloc(m2, x) <=> BlkAlloc(m, x))
  BY SameWord
<1>6. m2[f + 1] = 0 /\ m2[top + 1] = n /\ m2[top] = first /\ m2[s1 + 1] = n - 4
  BY <1>1
<1> HIDE DEF f
<1>7. Places(m2, top + n, B1, S1, C1)
  <2>1. B \cap S = {} /\ m2 \in [Addr -> Word]
    BY PlaceFacts
  <2>2. f \notin S /\ s1 \notin B /\ f # s1
    BY <1>1, <1>3
  <2>3. \A x \in B1 \cup S1 \cup C1 : x \in Even /\ 2 <= x /\ x + 2 <= top + n
    BY <1>1, <1>2, <1>3
  <2>4. 2 <= top + n
    BY <1>1
  <2> QED BY <1>2, <2>1, <2>2, <2>3, <2>4 DEF Places
<1>8. Spans(m2, B1, S1, C1)
  <2>1. ASSUME NEW b \in B
        PROVE  /\ BlkSize(m2, b) \in Even /\ BlkSize(m2, b) >= MinBlock
               /\ b + BlkSize(m2, b) \in B1 \cup S1
               /\ \A x \in B1 \cup S1 \cup C1 : x > b => x >= b + BlkSize(m2, b)
    <3>1. /\ BlkSize(m, b) \in Even /\ BlkSize(m, b) \in Nat /\ BlkSize(m, b) >= 4
          /\ b + BlkSize(m, b) \in B \cup S
          /\ \A x \in B \cup S \cup C : x > b => x >= b + BlkSize(m, b)
      BY PlaceFacts
    <3>2. b + BlkSize(m, b) <= top /\ b \in Nat
      BY <1>1, <1>3, <3>1
    <3> DEFINE z == BlkSize(m, b)
    <3> HIDE DEF z
    <3>3. \A x \in {f, s1, top} : x >= b + z
      BY <1>1, <3>1, <3>2 DEF z
    <3>4. BlkSize(m2, b) = z
      BY <1>5 DEF z
    <3> QED BY <3>1, <3>3, <3>4 DEF MinBlock, z
  <2>2. \A x \in B1 \cup S1 \cup C1 : x > f => x >= f + (n - 4)
    <3>1. f + (n - 4) = s1
      BY <1>1, <1>2
    <3>2. \A x \in B \cup S \cup C : ~ x > f
      BY <1>1, <1>3
    <3>3. ~ f > f /\ ~ top > f /\ s1 >= s1
      BY <1>1
    <3> QED BY <3>1, <3>2, <3>3
  <2>3. f + (n - 4) \in S1
    <3>1. f + (n - 4) = s1
      BY <1>1, <1>2
    <3> QED BY <3>1
  <2> QED BY <1>2, <1>4, <2>1, <2>2, <2>3 DEF Spans, MinBlock
<1>9. Tags(m2, B1, S1, C1)
  <2>1. ASSUME NEW x \in B \cup S
        PROVE  \/ x - ChunkMeta \in C1 /\ BlkPrev(m2, x) = 0
               \/ \E b \in B1 : b + BlkSize(m2, b) = x /\ BlkPrev(m2, x) = BlkSize(m2, b)
    <3>1. \/ x - ChunkMeta \in C /\ BlkPrev(m, x) = 0
          \/ \E b \in B : b + BlkSize(m, b) = x /\ BlkPrev(m, x) = BlkSize(m, b)
      BY DEF Geometry, Tags
    <3>2. BlkPrev(m2, x) = BlkPrev(m, x)
      BY DEF BlkPrev
    <3> QED BY <1>5, <3>1, <3>2
  <2>2. f - ChunkMeta \in C1 /\ BlkPrev(m2, f) = 0
    BY <1>1, <1>6 DEF ChunkMeta, BlkPrev
  <2>3. f + BlkSize(m2, f) = s1 /\ BlkPrev(m2, s1) = BlkSize(m2, f)
    BY <1>1, <1>2, <1>4, <1>6 DEF BlkPrev
  <2> QED BY <2>1, <2>2, <2>3 DEF Tags
<1>10. ChunkList(m2, top, top + n, B1, S1, C1)
  <2>0. ChunkList(m, first, top, B, S, C)
    BY DEF Geometry
  <2>1. \A s \in S1 : BlkAlloc(m2, s) /\ \E c \in C1 : s = c + m2[c + 1] - Sentinel
    <3>1. \A s \in S : BlkAlloc(m2, s) /\ \E c \in C : s = c + m2[c + 1] - Sentinel
      BY <1>5, <2>0 DEF ChunkList
    <3> QED BY <1>1, <1>4, <1>6, <3>1 DEF Sentinel
  <2>2. \A b \in B1 : \E c \in C1 : c < b /\ b < c + m2[c + 1] - Sentinel
    <3>1. \A b \in B : \E c \in C : c < b /\ b < c + m2[c + 1] - Sentinel
      BY <2>0 DEF ChunkList
    <3> QED BY <1>1, <1>6, <3>1 DEF Sentinel
  <2>3. ASSUME NEW c \in C
        PROVE  /\ m2[c + 1] \in Even /\ m2[c + 1] >= ChunkMeta + MinBlock + Sentinel
               /\ c + ChunkMeta \in B1 /\ c + m2[c + 1] - Sentinel \in S1
               /\ \A d \in C1 : d > c => d >= c + m2[c + 1]
               /\ \/ m2[c] = NIL /\ \A d \in C1 : c <= d
                  \/ m2[c] \in C1 /\ m2[c] < c /\ \A d \in C1 : d < c => d <= m2[c]
    <3>1. /\ m[c + 1] \in Even /\ m[c + 1] >= ChunkMeta + MinBlock + Sentinel
          /\ c + ChunkMeta \in B /\ c + m[c + 1] - Sentinel \in S
          /\ \A d \in C : d > c => d >= c + m[c + 1]
          /\ \/ m[c] = NIL /\ \A d \in C : c <= d
             \/ m[c] \in C /\ m[c] < c /\ \A d \in C : d < c => d <= m[c]
      BY <2>0 DEF ChunkList
    <3>2. m2[c] = m[c] /\ m2[c + 1] = m[c + 1] /\ c \in Nat /\ m[c + 1] \in Nat
      BY <3>1, <1>3, EvenNat
    <3>3. top >= c + m[c + 1] /\ c <= top /\ ~ top < c
      <4>1. c + m[c + 1] - 2 + 2 <= top /\ c + 2 <= top
        BY <1>3, <3>1 DEF Sentinel
      <4> QED BY <1>1, <3>2, <4>1
    <3> QED BY <3>1, <3>2, <3>3
  <2>4. /\ m2[top + 1] \in Even /\ m2[top + 1] >= ChunkMeta + MinBlock + Sentinel
        /\ top + ChunkMeta \in B1 /\ top + m2[top + 1] - Sentinel \in S1
        /\ \A d \in C1 : d <= top
        /\ \A d \in C1 : d > top => d >= top + m2[top + 1]
    <3>1. \A d \in C1 : d \in Nat /\ d <= top
      BY <1>1, <1>3
    <3>2. top + m2[top + 1] - Sentinel = s1
      BY <1>1, <1>6 DEF Sentinel
    <3>3. top + ChunkMeta = f
      BY <1>1 DEF ChunkMeta
    <3> QED BY <1>1, <1>6, <3>1, <3>2, <3>3 DEF ChunkMeta, MinBlock, Sentinel
  <2>5. \/ m2[top] = NIL /\ \A d \in C1 : top <= d
        \/ m2[top] \in C1 /\ m2[top] < top /\ \A d \in C1 : d < top => d <= m2[top]
    <3>1. (first = NIL /\ C = {}) \/ (first \in C /\ \A d \in C : d <= first)
      BY <2>0 DEF ChunkList
    <3>2. CASE first = NIL /\ C = {}
      BY <1>1, <3>2
    <3>3. CASE first \in C /\ \A d \in C : d <= first
      <4>1. first < top /\ ~ top < top
        BY <1>1, <1>3, <3>3
      <4> QED BY <3>3, <4>1
    <3> QED BY <3>1, <3>2, <3>3
  <2> QED BY <2>1, <2>2, <2>3, <2>4, <2>5 DEF ChunkList
<1> QED BY <1>7, <1>8, <1>9, <1>10 DEF Geometry, f

(* The state of the heap after GrowHeap: no block that was there changed.  *)
Grown(h, h1, first, top, B, B1, S1, C1) ==
    /\ Shape(h1, first, top, B1, S1, C1)
    /\ Taken(h1.m, B1) = Taken(h.m, B)
    /\ Keeps(h.m, h1.m, Taken(h.m, B))
    /\ Idle(h.m, B) \subseteq Idle(h1.m, B1)

(* GrowHeap adds a chunk of n words above all others.                      *)
LEMMA GrowShape ==
    ASSUME NEW B, NEW S, NEW C, Shape(Now, gFirstChunk, brk, B, S, C),
           NEW n \in Even, n >= 8, brk + n <= Memory + 2
    PROVE  Grown(Now, GrowHeap(n), brk, brk + n, B, B \cup {brk + 2}, S \cup {brk + n - 2},
                 C \cup {brk})
<1> DEFINE f == brk + 2
           s1 == brk + n - 2
           B1 == B \cup {f}
           S1 == S \cup {s1}
           C1 == C \cup {brk}
           F == Frees(mem, B)
           a1 == [mem EXCEPT ![brk] = gFirstChunk, ![brk + 1] = n]
           a2 == [a1 EXCEPT ![f] = n - 4, ![f + 1] = 0]
           m2 == [a2 EXCEPT ![s1] = 3, ![s1 + 1] = n - 4]
           h2 == [m |-> m2, free |-> gFreeHead]
           h1 == InsertFree(h2, f)
           k == h1.m
<1>1. /\ Geometry(mem, gFirstChunk, brk, B, S, C) /\ NoTwoFree(mem, B) /\ F \in SUBSET B
      /\ \E r : Listed(mem, gFreeHead, F, r)
      /\ Now.m = mem /\ Now.free = gFreeHead
  BY DEF Shape, Now, Frees
<1>2. /\ brk \in Nat /\ brk \in Even /\ 2 <= brk /\ n \in Nat
      /\ f \in Nat /\ s1 \in Nat /\ f = brk + 2 /\ s1 = brk + n - 2 /\ f + 1 < s1 /\ brk + 1 < f
      /\ n - 4 \in Nat /\ n - 4 \in Even
  <2>1. brk \in Nat /\ brk \in Even /\ 2 <= brk /\ n \in Nat
    BY <1>1, PlaceFacts, EvenNat
  <2>2. n - 4 \in Even
    BY <2>1, EvenNat, EvenSum
  <2> QED BY <2>1, <2>2
<1>3. mem \in [Addr -> Word] /\ \A x \in B \cup S \cup C : x \in Nat /\ x \in Addr /\ x + 1 \in Addr /\ x + 2 <= brk
  BY <1>1, PlaceFacts
<1>4. gFirstChunk \in Word /\ n \in Word /\ n - 4 \in Word /\ 0 \in Word /\ 3 \in Word
  <2>1. gFirstChunk = NIL \/ gFirstChunk \in C
    BY <1>1 DEF Geometry, ChunkList
  <2>2. Wrap \in Nat /\ Memory \in Nat /\ Memory + 2 <= Wrap
    BY AddrFacts
  <2> QED BY <1>2, <1>3, <2>1, <2>2, AddrFacts DEF NIL, Word
<1>5. {brk, brk + 1, f, f + 1, s1, s1 + 1} \subseteq Addr
  <2>1. Memory \in Nat
    BY AddrFacts
  <2> QED BY <1>2, <2>1, AddrFacts
<1>6. GrowHeap(n) = h1
  <2>1. brk + ChunkMeta = f /\ n - ChunkMeta - Sentinel = n - 4 /\ brk + n - Sentinel = s1
        /\ n - 4 + 0 = n - 4 /\ Sentinel + 1 = 3
    BY <1>2 DEF ChunkMeta, Sentinel
  <2> HIDE DEF f, s1
  <2> QED BY <2>1 DEF GrowHeap, SetHdr
<1> HIDE DEF f, s1
<1>7. /\ m2 \in [Addr -> Word]
      /\ \A a \in Addr : a < brk => m2[a] = mem[a]
      /\ m2[brk] = gFirstChunk /\ m2[brk + 1] = n /\ m2[f] = n - 4 /\ m2[f + 1] = 0
      /\ m2[s1] = 3 /\ m2[s1 + 1] = n - 4
  <2>1. /\ a1 \in [Addr -> Word] /\ a1[brk] = gFirstChunk /\ a1[brk + 1] = n
        /\ \A a \in Addr : a < brk => a1[a] = mem[a]
    BY <1>2, <1>3, <1>4, <1>5
  <2> HIDE DEF a1
  <2>2. /\ a2 \in [Addr -> Word] /\ a2[brk] = gFirstChunk /\ a2[brk + 1] = n
        /\ a2[f] = n - 4 /\ a2[f + 1] = 0
        /\ \A a \in Addr : a < brk => a2[a] = mem[a]
    BY <1>2, <1>4, <1>5, <2>1
  <2> HIDE DEF a2
  <2> QED BY <1>2, <1>4, <1>5, <2>2
<1> HIDE DEF m2
<1>8. \A x \in B \cup S \cup C : m2[x] = mem[x] /\ m2[x + 1] = mem[x + 1]
  <2>1. \A x \in B \cup S \cup C : x \in Addr /\ x + 1 \in Addr /\ x < brk /\ x + 1 < brk
    BY <1>2, <1>3
  <2> QED BY <1>7, <2>1
<1>9. Geometry(m2, brk, brk + n, B1, S1, C1)
  <2>1. m2[brk + 2] = n - 4 /\ m2[brk + 3] = 0
    BY <1>2, <1>7 DEF f
  <2>2. Geometry(m2, brk, brk + n, B \cup {brk + 2}, S \cup {s1}, C \cup {brk})
    BY <1>1, <1>2, <1>7, <1>8, <2>1, GeometryGrow
  <2> QED BY <2>2 DEF f
<1>10. \E r : Listed(m2, gFreeHead, F, r)
  <2>1. PICK r : Listed(mem, gFreeHead, F, r)
    BY <1>1
  <2>2. \A a \in Links(F) : m2[a] = mem[a]
    <3> SUFFICES ASSUME NEW b \in F PROVE m2[b + 2] = mem[b + 2] /\ m2[b + 3] = mem[b + 3]
      BY DEF Links
    <3>1. /\ b \in B /\ b \in Nat /\ BlkSize(mem, b) \in Nat /\ BlkSize(mem, b) >= 4
          /\ b + BlkSize(mem, b) \in B \cup S /\ b + 2 \in Addr /\ b + 3 \in Addr
      BY <1>1, PlaceFacts
    <3>2. b + BlkSize(mem, b) + 2 <= brk
      BY <1>3, <3>1
    <3>3. b + 2 < brk /\ b + 3 < brk
      BY <1>2, <3>1, <3>2
    <3> QED BY <1>7, <3>1, <3>3
  <2> HIDE DEF F
  <2> QED BY <2>1, <2>2, ListFrame
<1>11. /\ \A x \in B \cup S : BlkSize(m2, x) = BlkSize(mem, x) /\ (BlkAlloc(m2, x) <=> BlkAlloc(mem, x))
       /\ BlkSize(m2, f) = n - 4 /\ ~ BlkAlloc(m2, f) /\ BlkAlloc(m2, s1)
  <2>1. \A x \in B \cup S : BlkSize(m2, x) = BlkSize(mem, x) /\ (BlkAlloc(m2, x) <=> BlkAlloc(mem, x))
    BY <1>8, SameWord
  <2>2. BlkSize(m2, f) = n - 4 /\ ~ BlkAlloc(m2, f)
    BY <1>2, <1>7, SizeWordIs
  <2>3. BlkAlloc(m2, s1)
    BY <1>9 DEF Geometry, ChunkList
  <2> QED BY <2>1, <2>2, <2>3
<1>12. f \notin B \cup S
  BY <1>2, <1>3
<1>13. Frees(m2, B1) = F \cup {f} /\ Taken(m2, B1) = Taken(mem, B)
  BY <1>11, <1>12 DEF Frees, Taken
<1>14. Relisted(h2, h1, brk, brk + n, B1, S1, C1, F \cup {f})
  <2>1. PICK r : Listed(h2.m, h2.free, F, r)
    BY <1>10
  <2>2. Geometry(h2.m, brk, brk + n, B1, S1, C1)
    BY <1>9
  <2>3. F \in SUBSET B1 /\ f \in B1 \ F
    BY <1>1, <1>12
  <2> HIDE DEF h2, B1, S1, C1, F
  <2> QED BY <2>1, <2>2, <2>3, PutFree
<1> HIDE DEF h1
<1>15. /\ Heap(h1) /\ Geometry(k, brk, brk + n, B1, S1, C1)
       /\ \E r1 : Listed(k, h1.free, F \cup {f}, r1)
       /\ \A x \in B1 \cup S1 \cup C1 : k[x] = m2[x] /\ k[x + 1] = m2[x + 1]
       /\ Frees(k, B1) = F \cup {f} /\ Taken(k, B1) = Taken(mem, B)
       /\ Keeps(m2, k, B1 \ (F \cup {f})) /\ EvenOutside(m2, k, {})
  BY <1>13, <1>14 DEF Relisted, Unmoved
<1>16. \A x \in B1 \cup S1 : BlkSize(k, x) = BlkSize(m2, x) /\ (BlkAlloc(k, x) <=> BlkAlloc(m2, x))
  BY <1>15, SameWord
<1>17. NoTwoFree(k, B1)
  <2> SUFFICES ASSUME NEW b \in F \cup {f} PROVE BlkAlloc(k, b + BlkSize(k, b))
    BY <1>15 DEF NoTwoFree
  <2>1. CASE b = f
    <3>1. f + (n - 4) = s1
      BY <1>2
    <3>2. BlkSize(k, b) = n - 4
      BY <1>11, <1>16, <2>1
    <3> QED BY <1>11, <1>16, <2>1, <3>1, <3>2
  <2>2. CASE b \in F
    <3>1. b \in B /\ BlkAlloc(mem, b + BlkSize(mem, b))
      BY <1>1, <2>2 DEF NoTwoFree
    <3>2. b + BlkSize(mem, b) \in B \cup S
      BY <1>1, <3>1, PlaceFacts
    <3> QED BY <1>11, <1>16, <3>1, <3>2
  <2> QED BY <2>1, <2>2
<1>18. Shape(h1, brk, brk + n, B1, S1, C1)
  BY <1>15, <1>17 DEF Shape
<1>19. Keeps(mem, k, Taken(mem, B))
  <2> SUFFICES ASSUME NEW x \in Taken(mem, B)
               PROVE  /\ BlkSize(k, x) = BlkSize(mem, x)
                      /\ \A a \in (x + 2)..(x + BlkSize(mem, x) - 1) : k[a] = mem[a]
    BY DEF Keeps
  <2>1. x \in B /\ x \notin F /\ x # f
    BY <1>12 DEF Taken
  <2>2. BlkSize(k, x) = BlkSize(mem, x) /\ BlkSize(m2, x) = BlkSize(mem, x)
    BY <1>11, <1>16, <2>1
  <2>3. ASSUME NEW a \in (x + 2)..(x + BlkSize(mem, x) - 1) PROVE k[a] = mem[a]
    <3>1. a \in Addr /\ a \in Nat
      BY <1>1, <2>1, Interior
    <3>2. x \in Nat /\ BlkSize(mem, x) \in Nat /\ x + BlkSize(mem, x) \in B \cup S
      BY <1>1, <2>1, PlaceFacts
    <3>3. x + BlkSize(mem, x) + 2 <= brk
      BY <1>3, <3>2
    <3>4. a < brk
      BY <1>2, <3>1, <3>2, <3>3
    <3>5. m2[a] = mem[a]
      BY <1>7, <3>1, <3>4
    <3>6. k[a] = m2[a]
      <4> HIDE DEF k, F
      <4> QED BY <1>15, <2>1, <2>2 DEF Keeps
    <3> QED BY <3>5, <3>6
  <2> QED BY <2>2, <2>3
<1>20. ASSUME NEW a \in Idle(mem, B) PROVE a \in Idle(k, B1)
  <2>1. PICK b \in F : b <= a /\ a < b + BlkSize(mem, b)
    BY DEF Idle
  <2>2. b \in B /\ a \in Addr /\ a \in Nat /\ a \in Even /\ ~ BlkAlloc(mem, a)
    BY <1>1, AddrFacts DEF Idle
  <2>3. b \in Nat /\ BlkSize(mem, b) \in Nat /\ b + BlkSize(mem, b) + 2 <= brk
    BY <1>1, <1>3, <2>2, PlaceFacts
  <2>4. a < brk
    BY <1>2, <2>1, <2>2, <2>3
  <2>5. m2[a] = mem[a]
    BY <1>7, <2>2, <2>4
  <2>6. k[a] = mem[a] \/ k[a] \in Even
    BY <1>15, <2>2, <2>5 DEF EvenOutside
  <2>7. ~ BlkAlloc(k, a)
    <3>1. CASE k[a] = mem[a]
      BY <2>2, <3>1, SameWord
    <3>2. CASE k[a] \in Even
      BY <3>2, SizeWordIs
    <3> QED BY <2>6, <3>1, <3>2
  <2>8. b \in Frees(k, B1) /\ b <= a /\ a < b + BlkSize(k, b)
    BY <1>11, <1>15, <1>16, <2>1, <2>2
  <2> QED BY <2>2, <2>7, <2>8 DEF Idle
<1> QED BY <1>1, <1>6, <1>15, <1>18, <1>19, <1>20 DEF Grown, f, s1

-----------------------------------------------------------------------------
(* What the program holds.                                                 *)

(* The allocated words are at most the memory.                             *)
LEMMA CellsFinite ==
    ASSUME NEW m, NEW B
    PROVE  /\ IsFiniteSet(Cells(m, B)) /\ Cardinality(Cells(m, B)) \in Nat
           /\ Cardinality(Cells(m, B)) <= Memory
<1>1. Memory \in Nat
  BY AddrFacts
<1>2. IsFiniteSet(Addr) /\ Cardinality(Addr) = Memory
  <2>1. IsFiniteSet(2..(Memory + 1))
        /\ Cardinality(2..(Memory + 1)) = IF 2 > Memory + 1 THEN 0 ELSE (Memory + 1) - 2 + 1
    BY <1>1, FS_Interval
  <2>2. Memory > 0
    BY Constants
  <2> QED BY <1>1, <2>1, <2>2 DEF Addr
<1>3. Cells(m, B) \in SUBSET Addr
  BY DEF Cells
<1>4. IsFiniteSet(Cells(m, B)) /\ Cardinality(Cells(m, B)) <= Cardinality(Addr)
  BY <1>2, <1>3, FS_Subset
<1> QED BY <1>2, <1>4, FS_CardinalityType

(* One allocated block more, as many words more as it has.                 *)
LEMMA CellsAdd ==
    ASSUME NEW m1, NEW first, NEW top, NEW B1, NEW S, NEW C, Geometry(m1, first, top, B1, S, C),
           NEW b \in Taken(m1, B1), NEW m, NEW B, Taken(m, B) = Taken(m1, B1) \ {b},
           \A x \in Taken(m, B) : BlkSize(m, x) = BlkSize(m1, x)
    PROVE  /\ Cardinality(Cells(m1, B1)) = Cardinality(Cells(m, B)) + BlkSize(m1, b)
           /\ BlkSize(m1, b) \in Nat
<1> DEFINE z == BlkSize(m1, b)
           T == Taken(m1, B1)
           X == Cells(m, B)
           Y == b..(b + z - 1)
<1>1. \A x \in T : x \in Nat /\ BlkSize(m1, x) \in Nat /\ x \in B1
  BY PlaceFacts DEF Taken
<1>2. b \in Nat /\ z \in Nat /\ z >= 4 /\ b \in T /\ b \in B1 /\ b + z \in B1 \cup S
  BY PlaceFacts DEF Taken
<1>3. Y \subseteq Addr
  <2>1. b \in Addr /\ b + z \in Addr
    BY <1>2, PlaceFacts
  <2> HIDE DEF z
  <2> SUFFICES ASSUME NEW a \in Y PROVE a \in Addr
    OBVIOUS
  <2>2. a \in Nat /\ b <= a /\ a <= b + z
    BY <1>2
  <2>3. 2 <= a /\ a <= Memory + 1 /\ Memory \in Nat
    BY <1>2, <2>1, <2>2, AddrFacts
  <2> QED BY <2>2, <2>3, AddrFacts
<1>4. ASSUME NEW a \in Addr PROVE a \in Y <=> b <= a /\ a < b + z
  BY <1>2, AddrFacts
<1>5. Cells(m1, B1) = X \cup Y
  <2>1. ASSUME NEW a \in Addr
        PROVE  a \in Cells(m1, B1) <=> a \in X \/ a \in Y
    <3>1. a \in Cells(m1, B1) <=> \E x \in T : x <= a /\ a < x + BlkSize(m1, x)
      BY DEF Cells
    <3>2. a \in X <=> \E x \in T \ {b} : x <= a /\ a < x + BlkSize(m1, x)
      BY DEF Cells
    <3> HIDE DEF X, Y, T
    <3> QED BY <1>2, <1>4, <3>1, <3>2
  <2>2. Cells(m1, B1) \subseteq Addr /\ X \subseteq Addr
    BY DEF Cells
  <2> QED BY <1>3, <2>1, <2>2
<1>6. X \cap Y = {}
  <2> SUFFICES ASSUME NEW a \in Y, NEW x \in T \ {b}, x <= a, a < x + BlkSize(m1, x) PROVE FALSE
    BY DEF Cells
  <2>1. x \in B1 /\ x \in Nat /\ BlkSize(m1, x) \in Nat /\ a \in Nat /\ b <= a /\ a < b + z
    BY <1>1, <1>2
  <2>2. (x > b => x >= b + z) /\ (b > x => b >= x + BlkSize(m1, x))
    BY <1>2, <2>1, PlaceFacts
  <2> HIDE DEF z
  <2> QED BY <1>2, <2>1, <2>2
<1>7. IsFiniteSet(X) /\ Cardinality(X) \in Nat
  BY CellsFinite
<1>8. IsFiniteSet(Y) /\ Cardinality(Y) = z
  <2> HIDE DEF z
  <2>1. b \in Int /\ b + z - 1 \in Int /\ ~ b > b + z - 1 /\ (b + z - 1) - b + 1 = z
    BY <1>2
  <2> QED BY <2>1, FS_Interval
<1> HIDE DEF X, Y, z
<1>9. Cardinality(X \cup Y) = Cardinality(X) + Cardinality(Y) - Cardinality(X \cap Y)
  BY <1>7, <1>8, FS_Union
<1>10. Cardinality(X \cap Y) = 0
  BY <1>6, FS_EmptySet
<1>11. Cardinality(X \cup Y) = Cardinality(X) + z
  BY <1>2, <1>7, <1>8, <1>9, <1>10
<1> QED BY <1>2, <1>5, <1>11 DEF X, z

(* What keeps the allocated blocks keeps what the program holds.           *)
LEMMA HoldingsStay ==
    ASSUME NEW m, NEW first, NEW top, NEW B, NEW S, NEW C, Geometry(m, first, top, B, S, C),
           Holdings(m, B), NEW m1, NEW B1, Taken(m1, B1) = Taken(m, B),
           Keeps(m, m1, Taken(m, B)), Idle(m, B) \subseteq Idle(m1, B1)
    PROVE  Holdings(m1, B1)
<1>1. DOMAIN owned = {b + Hdr : b \in Taken(m1, B1)} /\ dirty = FALSE
  BY DEF Holdings
<1>2. ASSUME NEW p \in DOMAIN owned
      PROVE  /\ owned[p] \in Request
             /\ BlkSize(m1, p - Hdr) >= owned[p] + Hdr
             /\ \A a \in p..(p + owned[p] - 1) : m1[a] = 1
  <2>1. PICK b \in Taken(m, B) : p = b + 2
    BY DEF Holdings, Hdr
  <2>2. b \in B /\ b \in Nat /\ BlkSize(m, b) \in Nat
    BY PlaceFacts DEF Taken
  <2>3. p - Hdr = b
    BY <2>1, <2>2 DEF Hdr
  <2>4. owned[p] \in Request /\ BlkSize(m, b) >= owned[p] + 2 /\ \A a \in p..(p + owned[p] - 1) : m[a] = 1
    <3>1. /\ owned[p] \in Request /\ BlkSize(m, p - Hdr) >= owned[p] + Hdr
          /\ \A a \in p..(p + owned[p] - 1) : m[a] = 1
      BY DEF Holdings
    <3>2. owned[p] \in Request /\ BlkSize(m, b) >= owned[p] + Hdr
      BY <2>3, <3>1
    <3> QED BY <3>1, <3>2 DEF Hdr
  <2>5. owned[p] \in Nat
    BY <2>4, RequestNat
  <2>6. BlkSize(m1, b) = BlkSize(m, b) /\ \A a \in (b + 2)..(b + BlkSize(m, b) - 1) : m1[a] = m[a]
    BY DEF Keeps
  <2>7. ASSUME NEW a \in p..(p + owned[p] - 1) PROVE a \in (b + 2)..(b + BlkSize(m, b) - 1)
    BY <2>1, <2>2, <2>4, <2>5
  <2> QED BY <2>3, <2>4, <2>6, <2>7 DEF Hdr
<1>3. Cells(m1, B1) = Cells(m, B)
  BY DEF Cells, Keeps
<1>4. gInUse = Cardinality(Cells(m1, B1)) /\ stale \subseteq {a + Hdr : a \in Idle(m1, B1)}
  BY <1>3 DEF Holdings
<1> QED BY <1>1, <1>2, <1>4 DEF Holdings

(* Carve, whether it splits the block or takes all of it.                  *)
LEMMA CarveTakes ==
    ASSUME NEW h, NEW first, NEW top, NEW B, NEW S, NEW C, Shape(h, first, top, B, S, C),
           NEW b \in Frees(h.m, B), NEW need \in Even, need >= 4, BlkSize(h.m, b) >= need
    PROVE  Carved(h, Carve(h, b, need), first, top, B, S, C, b, need)
BY CarveWhole, CarveSplit

(* Give hands out a free block that is large enough.                       *)
LEMMA GiveHolds ==
    ASSUME NEW STATE h, NEW STATE first, NEW STATE top, NEW STATE B, NEW STATE S, NEW STATE C,
           Shape(h, first, top, B, S, C), Holdings(h.m, B),
           NEW size \in Request, ~ Refused(size),
           NEW STATE b, b \in Frees(h.m, B), BlkSize(h.m, b) >= BlockNeed(size),
           Give(h, b, size)
    PROVE  \E B1 : Shape([m |-> mem', free |-> gFreeHead'], first, top, B1, S, C)
                   /\ Holdings(mem, B1)'
<1> DEFINE need == BlockNeed(size)
           got == Carve(h, b, need)
           p == b + 2
           z == BlkSize(got.m, b)
           payload == p..(p + size - 1)
           given == Zeroed(got.m, p, size)
           h1 == [m |-> mem', free |-> gFreeHead']
<1>1. /\ size \in Nat /\ Need(size) \in Nat /\ Need(size) >= size /\ need = Need(size) + 2
      /\ need \in Even /\ need >= 4 /\ need \in Nat
  BY NeedFits, EvenNat
<1>2. Carved(h, got, first, top, B, S, C, b, need)
  <2> HIDE DEF need
  <2> QED BY <1>1, CarveTakes DEF need
<1> HIDE DEF need, got
<1>3. PICK B1 : /\ Shape(got, first, top, B1, S, C)
                /\ Taken(got.m, B1) = Taken(h.m, B) \cup {b}
                /\ z >= need
                /\ Keeps(h.m, got.m, Taken(h.m, B))
                /\ \A a \in Idle(h.m, B) : a \in Idle(got.m, B1) \/ (b <= a /\ a < b + z)
  BY <1>2 DEF Carved
<1>4. Geometry(got.m, first, top, B1, S, C) /\ got.m \in [Addr -> Word] /\ b \in B1 /\ b \in Taken(got.m, B1)
      /\ b \in Nat /\ z \in Nat /\ p - 2 = b
  <2>1. Geometry(got.m, first, top, B1, S, C) /\ b \in Taken(got.m, B1) /\ b \in B1
    BY <1>3 DEF Shape, Taken
  <2>2. b \in Nat /\ z \in Nat /\ got.m \in [Addr -> Word]
    BY <2>1, PlaceFacts
  <2> QED BY <2>1, <2>2
<1>5. /\ mem' = [a \in Addr |-> IF a \in payload THEN 1 ELSE given[a]]
      /\ dirty' = (dirty \/ \E a \in payload : given[a] # 0)
      /\ gFreeHead' = got.free
      /\ gInUse' = gInUse + z
      /\ owned' = [q \in DOMAIN owned \cup {p} |-> IF q = p THEN size ELSE owned[q]]
      /\ stale' = {q \in stale : q - 2 \notin b..(b + z - 1)}
  BY DEF Give, Hdr, got, need
<1>6. given = [a \in Addr |-> IF a \in p..(p + Need(size) - 1) THEN 0 ELSE got.m[a]]
  BY DEF Zeroed
<1> HIDE DEF given
<1>7. payload \subseteq p..(p + Need(size) - 1) /\ p..(p + Need(size) - 1) \subseteq (b + 2)..(b + z - 1)
  <2> HIDE DEF z
  <2> QED BY <1>1, <1>3, <1>4
<1>8. (b + 2)..(b + z - 1) \subseteq Addr
  BY <1>4, Interior
<1>9. /\ mem' \in [Addr -> Word]
      /\ \A a \in payload : mem'[a] = 1 /\ given[a] = 0
      /\ \A a \in Addr : mem'[a] = got.m[a] \/ a \in (b + 2)..(b + z - 1)
  <2>1. 0 \in Word /\ 1 \in Word
    BY AddrFacts DEF Word
  <2> HIDE DEF z, payload
  <2>2. given \in [Addr -> Word] /\ \A a \in Addr : given[a] = got.m[a] \/ a \in (b + 2)..(b + z - 1)
    BY <1>4, <1>6, <1>7, <2>1
  <2>3. \A a \in payload : a \in Addr /\ a \in (b + 2)..(b + z - 1) /\ given[a] = 0
    BY <1>6, <1>7, <1>8
  <2> QED BY <1>5, <2>1, <2>2, <2>3
<1>10. Written(got, h1, first, top, B1, S, C, b)
  <2>1. Heap(h1) /\ h1.free = got.free /\ h1.m = mem'
    BY <1>5 DEF Heap
  <2> HIDE DEF h1
  <2> QED BY <1>3, <1>4, <1>9, <2>1, PayloadWritten
<1>11. /\ Shape(h1, first, top, B1, S, C)
       /\ Taken(mem', B1) = Taken(h.m, B) \cup {b}
       /\ BlkSize(mem', b) = z
       /\ Keeps(got.m, mem', Taken(got.m, B1) \ {b})
       /\ Idle(got.m, B1) \subseteq Idle(mem', B1)
  BY <1>3, <1>10 DEF Written
<1>12. b \notin Taken(h.m, B) /\ Taken(h.m, B) = Taken(mem', B1) \ {b}
  BY <1>11 DEF Taken
<1>13. Keeps(h.m, mem', Taken(h.m, B))
  <2>1. Keeps(got.m, mem', Taken(h.m, B))
    BY <1>3, <1>11, <1>12 DEF Keeps
  <2> QED BY <1>3, <2>1, KeepsChain
<1>14. DOMAIN owned = {x + 2 : x \in Taken(h.m, B)}
  BY DEF Holdings, Hdr
<1>15. DOMAIN owned' = {x + 2 : x \in Taken(mem', B1)}
  BY <1>5, <1>11, <1>14
<1>16. Geometry(h.m, first, top, B, S, C)
  BY DEF Shape
<1>17. ASSUME NEW q \in DOMAIN owned'
       PROVE  /\ owned'[q] \in Request
              /\ BlkSize(mem', q - 2) >= owned'[q] + 2
              /\ \A a \in q..(q + owned'[q] - 1) : mem'[a] = 1
  <2>1. CASE q = p
    <3>1. owned'[q] = size
      BY <1>5, <2>1
    <3>2. z >= size + 2
      BY <1>1, <1>3, <1>4
    <3> QED BY <1>4, <1>9, <1>11, <2>1, <3>1, <3>2
  <2>2. CASE q # p
    <3>1. q \in DOMAIN owned /\ owned'[q] = owned[q]
      BY <1>5, <2>2
    <3>2. PICK x \in Taken(h.m, B) : q = x + 2
      BY <1>14, <3>1
    <3>3. x \in B /\ x \in Nat /\ BlkSize(h.m, x) \in Nat /\ q - 2 = x
      BY <1>16, <3>2, PlaceFacts DEF Taken
    <3>4. owned[q] \in Request /\ BlkSize(h.m, x) >= owned[q] + 2 /\ \A a \in q..(q + owned[q] - 1) : h.m[a] = 1
      <4>1. /\ owned[q] \in Request /\ BlkSize(h.m, q - Hdr) >= owned[q] + Hdr
            /\ \A a \in q..(q + owned[q] - 1) : h.m[a] = 1
        BY <3>1 DEF Holdings
      <4>2. q - Hdr = x
        BY <3>3 DEF Hdr
      <4>3. BlkSize(h.m, x) >= owned[q] + Hdr
        BY <4>1, <4>2
      <4> QED BY <4>1, <4>3 DEF Hdr
    <3>5. owned[q] \in Nat
      BY <3>4, RequestNat
    <3>6. BlkSize(mem', x) = BlkSize(h.m, x) /\ \A a \in (x + 2)..(x + BlkSize(h.m, x) - 1) : mem'[a] = h.m[a]
      BY <1>13 DEF Keeps
    <3>7. ASSUME NEW a \in q..(q + owned[q] - 1) PROVE a \in (x + 2)..(x + BlkSize(h.m, x) - 1)
      BY <3>2, <3>3, <3>4, <3>5
    <3> QED BY <3>1, <3>3, <3>4, <3>6, <3>7
  <2> QED BY <2>1, <2>2
<1>18. gInUse' = Cardinality(Cells(mem', B1))
  <2>1. Geometry(mem', first, top, B1, S, C)
    BY <1>11 DEF Shape
  <2>2. \A x \in Taken(h.m, B) : BlkSize(h.m, x) = BlkSize(mem', x)
    BY <1>13 DEF Keeps
  <2>3. b \in Taken(mem', B1)
    BY <1>11
  <2>4. Cardinality(Cells(mem', B1)) = Cardinality(Cells(h.m, B)) + BlkSize(mem', b)
    BY <1>12, <2>1, <2>2, <2>3, CellsAdd
  <2>5. gInUse = Cardinality(Cells(h.m, B))
    BY DEF Holdings
  <2> QED BY <1>5, <1>11, <2>4, <2>5
<1>19. dirty' = FALSE
  <2>1. dirty = FALSE
    BY DEF Holdings
  <2> QED BY <1>5, <1>9, <2>1
<1>20. stale' \subseteq {a + 2 : a \in Idle(mem', B1)}
  <2> SUFFICES ASSUME NEW q \in stale' PROVE q \in {a + 2 : a \in Idle(mem', B1)}
    OBVIOUS
  <2>1. q \in stale /\ q - 2 \notin b..(b + z - 1)
    BY <1>5
  <2>2. PICK a \in Idle(h.m, B) : q = a + 2
    BY <2>1 DEF Holdings, Hdr
  <2>3. a \in Nat /\ q - 2 = a
    BY <2>2, AddrFacts DEF Idle
  <2>4. ~ (b <= a /\ a < b + z)
    <3> HIDE DEF z
    <3> QED BY <1>4, <2>1, <2>3
  <2>5. a \in Idle(mem', B1)
    BY <1>3, <1>11, <2>4
  <2> QED BY <2>2, <2>5
<1>21. Holdings(mem, B1)'
  BY <1>15, <1>17, <1>18, <1>19, <1>20 DEF Holdings, Hdr
<1> QED BY <1>11, <1>21

-----------------------------------------------------------------------------
(* The invariant is inductive.                                             *)

(* FindFit returns a free block that is large enough, or NIL.              *)
LEMMA FitIsFree ==
    ASSUME NEW h, NEW first, NEW top, NEW B, NEW S, NEW C, Shape(h, first, top, B, S, C),
           NEW need, FindFit(h, need) # NIL
    PROVE  FindFit(h, need) \in Frees(h.m, B) /\ BlkSize(h.m, FindFit(h, need)) >= need
<1>1. PICK r : Listed(h.m, h.free, Frees(h.m, B), r)
  BY DEF Shape
<1>2. NIL \notin Frees(h.m, B)
  <2>1. \A b \in B : b \in Addr
    BY PlaceFacts DEF Shape
  <2> QED BY <2>1, AddrFacts DEF Frees
<1> QED BY <1>1, <1>2, FitIsListed

(* Allocate from the free list.                                            *)
LEMMA FitsKeeps ==
    ASSUME IInv, NEW size \in Request, AllocateFits(size)
    PROVE  IInv'
<1>1. PICK B, S, C : Shape(Now, gFirstChunk, brk, B, S, C) /\ Holdings(mem, B)
  BY DEF IInv, Good
<1> DEFINE b == FindFit(Now, BlockNeed(size))
<1>2. Holdings(Now.m, B) /\ ~ Refused(size) /\ b # NIL /\ Give(Now, b, size)
  BY <1>1 DEF Now, AllocateFits
<1>3. b \in Frees(Now.m, B) /\ BlkSize(Now.m, b) >= BlockNeed(size)
  BY <1>1, <1>2, FitIsFree
<1> HIDE DEF b
<1>4. PICK B1 : Shape([m |-> mem', free |-> gFreeHead'], gFirstChunk, brk, B1, S, C)
                /\ Holdings(mem, B1)'
  BY <1>1, <1>2, <1>3, GiveHolds
<1>5. gFirstChunk' = gFirstChunk /\ brk' = brk
  BY DEF AllocateFits
<1> QED BY <1>4, <1>5 DEF IInv, Good, Now

(* Allocate from a new chunk, which may be too small after a wrap.         *)
LEMMA GrowsKeeps ==
    ASSUME IInv, NEW size \in Request, AllocateGrows(size)
    PROVE  IInv'
<1>1. PICK B, S, C : Shape(Now, gFirstChunk, brk, B, S, C) /\ Holdings(mem, B)
  BY DEF IInv, Good
<1> DEFINE need == BlockNeed(size)
           n == ChunkWords(need)
           h == GrowHeap(n)
           b == FindFit(h, need)
<1>2. /\ ~ Refused(size) /\ n > 0 /\ brk + n <= Memory + 2 /\ gFirstChunk' = brk /\ brk' = brk + n
      /\ IF b # NIL THEN Give(h, b, size)
         ELSE mem' = h.m /\ gFreeHead' = h.free /\ UNCHANGED <<gInUse, owned, dirty, stale>>
  BY DEF AllocateGrows, CanGrow
<1>3. n \in Even /\ n >= 8
  <2>1. need \in Even /\ need + 2 <= Wrap
    BY <1>2, NeedFits
  <2> HIDE DEF need
  <2> QED BY <1>2, <2>1, ChunkFits
<1> HIDE DEF n
<1>4. PICK B1, S1, C1 : Grown(Now, h, brk, brk + n, B, B1, S1, C1)
  BY <1>1, <1>2, <1>3, GrowShape
<1> HIDE DEF h, need
<1>5. /\ Shape(h, brk, brk + n, B1, S1, C1)
      /\ Taken(h.m, B1) = Taken(mem, B) /\ Keeps(mem, h.m, Taken(mem, B))
      /\ Idle(mem, B) \subseteq Idle(h.m, B1)
  BY <1>4 DEF Grown, Now
<1>6. Geometry(mem, gFirstChunk, brk, B, S, C)
  BY <1>1 DEF Shape, Now
<1>7. Holdings(h.m, B1)
  BY <1>1, <1>5, <1>6, HoldingsStay
<1>8. CASE b # NIL
  <2>1. b \in Frees(h.m, B1) /\ BlkSize(h.m, b) >= need
    BY <1>5, <1>8, FitIsFree
  <2>2. Give(h, b, size)
    BY <1>2, <1>8
  <2> HIDE DEF b
  <2>3. PICK B2 : Shape([m |-> mem', free |-> gFreeHead'], brk, brk + n, B2, S1, C1)
                  /\ Holdings(mem, B2)'
    BY <1>2, <1>5, <1>7, <2>1, <2>2, GiveHolds DEF need
  <2> QED BY <1>2, <2>3 DEF IInv, Good, Now
<1>9. CASE b = NIL
  <2>1. mem' = h.m /\ gFreeHead' = h.free /\ UNCHANGED <<gInUse, owned, dirty, stale>>
    BY <1>2, <1>9
  <2>2. h = [m |-> mem', free |-> gFreeHead']
    BY <1>5, <2>1 DEF Shape, Heap
  <2>3. Holdings(mem, B1)'
    BY <1>7, <2>1 DEF Holdings
  <2> QED BY <1>2, <1>5, <2>2, <2>3 DEF IInv, Good, Now
<1> QED BY <1>8, <1>9

(* A call that changes nothing.                                            *)
LEMMA StutterKeeps ==
    ASSUME IInv, UNCHANGED vars
    PROVE  IInv'
BY DEF vars, IInv, Good, Now, Shape, Holdings

(* A pointer that the program may pass to Deallocate leads to an allocated
   block if it is still held, and to no allocated block if it was freed.   *)
LEMMA HeldOrIdle ==
    ASSUME NEW B, NEW S, NEW C, Shape(Now, gFirstChunk, brk, B, S, C), Holdings(mem, B),
           NEW p \in DOMAIN owned \cup stale
    PROVE  /\ p - Hdr \in Taken(mem, B) => BlkAlloc(mem, p - Hdr) /\ p \in DOMAIN owned
           /\ p - Hdr \notin Taken(mem, B) => ~ BlkAlloc(mem, p - Hdr)
           /\ p \in Nat /\ p = p - Hdr + 2
<1>1. Geometry(mem, gFirstChunk, brk, B, S, C)
  BY DEF Shape, Now
<1>2. DOMAIN owned = {b + 2 : b \in Taken(mem, B)} /\ stale \subseteq {a + 2 : a \in Idle(mem, B)}
  BY DEF Holdings, Hdr
<1>3. \A b \in Taken(mem, B) : b \in Nat /\ BlkAlloc(mem, b)
  BY <1>1, PlaceFacts DEF Taken, Frees
<1>4. \A a \in Idle(mem, B) : a \in Nat /\ ~ BlkAlloc(mem, a)
  BY AddrFacts DEF Idle
<1>5. CASE p \in DOMAIN owned
  <2>1. PICK b \in Taken(mem, B) : p = b + 2
    BY <1>2, <1>5
  <2>2. b \in Nat /\ p - Hdr = b /\ p \in Nat
    BY <1>3, <2>1 DEF Hdr
  <2> QED BY <1>3, <1>5, <2>1, <2>2
<1>6. CASE p \in stale
  <2>1. PICK a \in Idle(mem, B) : p = a + 2
    BY <1>2, <1>6
  <2>2. a \in Nat /\ p - Hdr = a /\ p \in Nat /\ ~ BlkAlloc(mem, a)
    BY <1>4, <2>1 DEF Hdr
  <2> QED BY <1>3, <2>1, <2>2
<1> QED BY <1>5, <1>6

(* Deallocate of a held pointer, and of one that was freed before.         *)
LEMMA DeallocateKeeps ==
    ASSUME IInv, NEW p \in DOMAIN owned \cup stale, Deallocate(p)
    PROVE  IInv'
<1>1. PICK B, S, C : Shape(Now, gFirstChunk, brk, B, S, C) /\ Holdings(mem, B)
  BY DEF IInv, Good
<1> DEFINE b == p - Hdr
           h == JoinPrev(JoinNext(Now, b), b)
<1>2. CASE ~ BlkAlloc(mem, b)
  BY <1>2, StutterKeeps DEF Deallocate
<1>3. CASE BlkAlloc(mem, b)
  <2>1. /\ mem' = h.m /\ gFreeHead' = h.free /\ gInUse' = gInUse - BlkSize(mem, b)
        /\ owned' = [q \in DOMAIN owned \ {p} |-> owned[q]]
        /\ stale' = stale \cup {p} /\ gFirstChunk' = gFirstChunk /\ brk' = brk /\ dirty' = dirty
    BY <1>3 DEF Deallocate
  <2>2. b \in Taken(mem, B) /\ p \in DOMAIN owned /\ p = b + 2
    BY <1>1, <1>3, HeldOrIdle
  <2> HIDE DEF b
  <2>3. Freed(Now, h, gFirstChunk, brk, B, S, C, b)
    <3>1. b \in Taken(Now.m, B)
      BY <2>2 DEF Now
    <3> QED BY <1>1, <3>1, DeallocateFrees
  <2> HIDE DEF h
  <2>4. PICK B1 : /\ Shape(h, gFirstChunk, brk, B1, S, C)
                  /\ Taken(h.m, B1) = Taken(mem, B) \ {b}
                  /\ Keeps(mem, h.m, Taken(mem, B) \ {b})
                  /\ Idle(mem, B) \cup {b} \subseteq Idle(h.m, B1)
    BY <2>3 DEF Freed, Now
  <2>5. h = [m |-> mem', free |-> gFreeHead']
    BY <2>1, <2>4 DEF Shape, Heap
  <2>6. Geometry(mem, gFirstChunk, brk, B, S, C)
    BY <1>1 DEF Shape, Now
  <2>7. DOMAIN owned = {x + 2 : x \in Taken(mem, B)} /\ \A x \in Taken(mem, B) : x \in Nat /\ BlkSize(mem, x) \in Nat
    BY <1>1, <2>6, PlaceFacts DEF Holdings, Hdr, Taken
  <2>8. DOMAIN owned' = {x + 2 : x \in Taken(mem', B1)}
    <3>1. DOMAIN owned' = {x + 2 : x \in Taken(mem, B)} \ {b + 2}
      BY <2>1, <2>2, <2>7
    <3>2. \A x \in Taken(mem, B) : x + 2 = b + 2 => x = b
      BY <2>2, <2>7
    <3> QED BY <2>1, <2>4, <3>1, <3>2
  <2>9. ASSUME NEW q \in DOMAIN owned'
        PROVE  /\ owned'[q] \in Request
               /\ BlkSize(mem', q - 2) >= owned'[q] + 2
               /\ \A a \in q..(q + owned'[q] - 1) : mem'[a] = 1
    <3>1. PICK x \in Taken(mem', B1) : q = x + 2
      BY <2>8
    <3>2. x \in Taken(mem, B) \ {b} /\ x \in Nat /\ q - 2 = x /\ BlkSize(mem, x) \in Nat
      BY <2>1, <2>4, <2>7, <3>1
    <3>3. q \in DOMAIN owned /\ owned'[q] = owned[q]
      BY <2>1
    <3>4. owned[q] \in Request /\ BlkSize(mem, x) >= owned[q] + 2 /\ \A a \in q..(q + owned[q] - 1) : mem[a] = 1
      <4>1. /\ owned[q] \in Request /\ BlkSize(mem, q - Hdr) >= owned[q] + Hdr
            /\ \A a \in q..(q + owned[q] - 1) : mem[a] = 1
        BY <1>1, <3>3 DEF Holdings
      <4>2. q - Hdr = x
        BY <3>2 DEF Hdr
      <4>3. BlkSize(mem, x) >= owned[q] + Hdr
        BY <4>1, <4>2
      <4> QED BY <4>1, <4>3 DEF Hdr
    <3>5. owned[q] \in Nat
      BY <3>4, RequestNat
    <3>6. BlkSize(mem', x) = BlkSize(mem, x) /\ \A a \in (x + 2)..(x + BlkSize(mem, x) - 1) : mem'[a] = mem[a]
      BY <2>1, <2>4, <3>2 DEF Keeps
    <3>7. ASSUME NEW a \in q..(q + owned[q] - 1) PROVE a \in (x + 2)..(x + BlkSize(mem, x) - 1)
      BY <3>1, <3>2, <3>4, <3>5
    <3> QED BY <3>2, <3>3, <3>4, <3>6, <3>7
  <2>10. gInUse' = Cardinality(Cells(mem', B1))
    <3>1. \A x \in Taken(mem', B1) : BlkSize(mem', x) = BlkSize(mem, x)
      BY <2>1, <2>4 DEF Keeps
    <3>2. Cardinality(Cells(mem, B)) = Cardinality(Cells(mem', B1)) + BlkSize(mem, b) /\ BlkSize(mem, b) \in Nat
      BY <2>1, <2>2, <2>4, <2>6, <3>1, CellsAdd
    <3>3. gInUse = Cardinality(Cells(mem, B)) /\ Cardinality(Cells(mem', B1)) \in Nat
      BY <1>1, CellsFinite DEF Holdings
    <3> QED BY <2>1, <3>2, <3>3
  <2>11. dirty' = FALSE
    BY <1>1, <2>1 DEF Holdings
  <2>12. stale' \subseteq {a + 2 : a \in Idle(mem', B1)}
    <3>1. stale \subseteq {a + 2 : a \in Idle(mem, B)}
      BY <1>1 DEF Holdings, Hdr
    <3> QED BY <2>1, <2>2, <2>4, <3>1
  <2>13. Holdings(mem, B1)'
    BY <2>8, <2>9, <2>10, <2>11, <2>12 DEF Holdings, Hdr
  <2> QED BY <2>1, <2>4, <2>5, <2>13 DEF IInv, Good, Now
<1> QED BY <1>2, <1>3

(* The empty heap.                                                         *)
LEMMA InitHolds == Init => IInv
<1> SUFFICES ASSUME Init PROVE Good({}, {}, {})
  BY DEF IInv
<1> USE DEF Init
<1>1. mem \in [Addr -> Word]
  BY AddrFacts DEF Word
<1>2. brk \in Even /\ 2 <= brk /\ brk <= Memory + 2
  BY EvenNat, AddrFacts
<1>3. Geometry(mem, gFirstChunk, brk, {}, {}, {})
  BY <1>1, <1>2 DEF Geometry, Places, Spans, Tags, ChunkList
<1>4. Frees(mem, {}) = {} /\ Taken(mem, {}) = {} /\ Cells(mem, {}) = {} /\ Idle(mem, {}) = {}
  BY DEF Frees, Taken, Cells, Idle
<1>5. Listed(mem, gFreeHead, {}, [b \in {} |-> 0])
  BY DEF Listed
<1>6. Shape(Now, gFirstChunk, brk, {}, {}, {})
  BY <1>3, <1>4, <1>5 DEF Shape, Heap, Now, NoTwoFree
<1>7. DOMAIN owned = {} /\ gInUse = 0 /\ dirty = FALSE /\ stale = {}
  OBVIOUS
<1>8. Holdings(mem, {})
  BY <1>4, <1>7, FS_EmptySet DEF Holdings
<1> QED BY <1>6, <1>8 DEF Good

(* Every call keeps the invariant.                                         *)
LEMMA NextKeeps == IInv /\ [Next]_vars => IInv'
<1> SUFFICES ASSUME IInv, [Next]_vars PROVE IInv'
  OBVIOUS
<1>1. ASSUME NEW size \in Request, AllocateRefused(size) \/ AllocateOutOfMemory(size) PROVE IInv'
  BY <1>1, StutterKeeps DEF AllocateRefused, AllocateOutOfMemory
<1>2. ASSUME NEW size \in Request, AllocateFits(size) PROVE IInv'
  BY <1>2, FitsKeeps
<1>3. ASSUME NEW size \in Request, AllocateGrows(size) PROVE IInv'
  BY <1>3, GrowsKeeps
<1>4. ASSUME NEW p \in DOMAIN owned \cup stale, Deallocate(p) PROVE IInv'
  BY <1>4, DeallocateKeeps
<1>5. CASE UNCHANGED vars
  BY <1>5, StutterKeeps
<1> QED BY <1>1, <1>2, <1>3, <1>4, <1>5 DEF Next

(* For every memory, chunk size, page size and sequence of requests, Allocate
   and Deallocate of Heap.mod keep the tiling, the free list, what the program
   holds and what it has freed (IInv).                                     *)
THEOREM Invariance == Spec => []IInv
BY InitHolds, NextKeeps, PTL DEF Spec

(* A pointer that was freed is recognised by Deallocate until its memory is
   handed out again, through every merge and split around it.              *)
THEOREM DoubleFree == Spec => []DoubleFreeRecognised
<1>1. ASSUME IInv PROVE DoubleFreeRecognised
  <2>1. PICK B, S, C : Shape(Now, gFirstChunk, brk, B, S, C) /\ Holdings(mem, B)
    BY <1>1 DEF IInv, Good
  <2>2. \A a \in Idle(mem, B) : a \in Nat /\ ~ BlkAlloc(mem, a)
    BY AddrFacts DEF Idle
  <2>3. stale \subseteq {a + 2 : a \in Idle(mem, B)}
    BY <2>1 DEF Holdings, Hdr
  <2> SUFFICES ASSUME NEW p \in stale PROVE ~ BlkAlloc(mem, p - Hdr)
    BY DEF DoubleFreeRecognised
  <2>4. PICK a \in Idle(mem, B) : p = a + 2
    BY <2>3
  <2>5. p - Hdr = a
    BY <2>2, <2>4 DEF Hdr
  <2> QED BY <2>2, <2>5
<1> QED BY <1>1, Invariance, PTL

(* The memory, the list heads, the counter and the pointers of the program
   stay in their types; gInUse never exceeds the memory.                   *)
THEOREM TypeCorrect == Spec => []TypeOK
<1>1. ASSUME IInv PROVE TypeOK
  <2>1. PICK B, S, C : Shape(Now, gFirstChunk, brk, B, S, C) /\ Holdings(mem, B)
    BY <1>1 DEF IInv, Good
  <2>2. Geometry(mem, gFirstChunk, brk, B, S, C) /\ \E r : Listed(mem, gFreeHead, Frees(mem, B), r)
    BY <2>1 DEF Shape, Now
  <2>3. mem \in [Addr -> Word] /\ brk \in Nat /\ 2 <= brk /\ brk <= Memory + 2
        /\ \A x \in B \cup S \cup C : x \in Addr
    BY <2>2, PlaceFacts
  <2>4. gFreeHead \in Addr \cup {NIL}
    BY <2>2, <2>3 DEF Listed, Frees
  <2>5. gFirstChunk \in Addr \cup {NIL}
    <3>1. gFirstChunk = NIL \/ gFirstChunk \in C
      BY <2>2 DEF Geometry, ChunkList
    <3> QED BY <2>3, <3>1
  <2>6. gInUse \in 0..Memory
    <3>1. gInUse = Cardinality(Cells(mem, B))
      BY <2>1 DEF Holdings
    <3> QED BY <3>1, CellsFinite, AddrFacts
  <2>7. brk \in Addr \cup {Memory + 2}
    BY <2>3, AddrFacts
  <2>8. DOMAIN owned \subseteq Addr /\ \A p \in DOMAIN owned : owned[p] \in Request
    <3>1. \A b \in Taken(mem, B) : b + 2 \in Addr
      BY <2>2, PlaceFacts DEF Taken
    <3> QED BY <2>1, <3>1 DEF Holdings, Hdr
  <2>9. stale \subseteq Addr
    <3> SUFFICES ASSUME NEW a \in Idle(mem, B) PROVE a + 2 \in Addr
      BY <2>1 DEF Holdings, Hdr
    <3>1. PICK f \in Frees(mem, B) : f <= a /\ a < f + BlkSize(mem, f)
      BY DEF Idle
    <3>2. f \in B /\ a \in Even /\ a \in Addr
      BY DEF Frees, Idle
    <3>3. f + BlkSize(mem, f) \in B \cup S
      BY <2>2, <3>2, PlaceFacts
    <3>4. f + BlkSize(mem, f) \in Addr /\ f + BlkSize(mem, f) \in Even
      BY <2>2, <3>3, PlaceFacts
    <3> DEFINE e == f + BlkSize(mem, f)
    <3> HIDE DEF e
    <3>5. a < e /\ e \in Addr /\ e \in Even
      BY <3>1, <3>4 DEF e
    <3>6. a + 2 <= e
      BY <3>2, <3>5, EvenGap
    <3>7. a \in Nat /\ e \in Nat /\ 2 <= a /\ e <= Memory + 1 /\ Memory \in Nat
      BY <3>2, <3>5, AddrFacts
    <3>8. a + 2 \in Nat /\ 2 <= a + 2 /\ a + 2 <= Memory + 1
      BY <3>6, <3>7
    <3> QED BY <3>8, AddrFacts
  <2>10. dirty \in BOOLEAN
    BY <2>1 DEF Holdings
  <2> QED BY <2>3, <2>4, <2>5, <2>6, <2>7, <2>8, <2>9, <2>10 DEF TypeOK, Word
<1> QED BY <1>1, Invariance, PTL

-----------------------------------------------------------------------------
(* The walks find the sets: MaxBlocks steps are enough for each of them.   *)

(* MaxBlocks blocks of four words fill the memory.                         *)
LEMMA EnoughSteps ==
    /\ MaxBlocks \in Nat /\ Memory \in Nat
    /\ 4 * MaxBlocks <= Memory /\ Memory <= 4 * MaxBlocks + 2
<1>1. Memory \in Nat /\ Memory \in Even
  BY Constants, EvenNat
<1> QED BY <1>1 DEF MaxBlocks, MinBlock, Even

(* A function defined by recursion, as long as it stays in D.              *)
Recurs(e, D, g, d, K) ==
    /\ e = [k \in 0..K |-> e[k]]
    /\ e[0] = d
    /\ \A k \in 0..K : k # 0 /\ e[k - 1] \in D => e[k] = g[e[k - 1]]

(* The recursion stays in D and follows g.                                 *)
LEMMA WalkStays ==
    ASSUME NEW D, NEW g \in [D -> D], NEW d \in D, NEW K \in Nat, NEW e, Recurs(e, D, g, d, K)
    PROVE  Follows(e, D, g, d, K)
<1> USE DEF Recurs
<1> DEFINE T == {k \in 0..K : e[k] \in D}
<1>1. 0 \in T
  OBVIOUS
<1>2. ASSUME NEW k \in 0..(K - 1), e[k] \in D PROVE e[k + 1] = g[e[k]] /\ e[k + 1] \in D
  <2>1. k + 1 \in 0..K /\ k + 1 # 0 /\ (k + 1) - 1 = k
    OBVIOUS
  <2> QED BY <1>2, <2>1
<1>3. ASSUME NEW k \in 0..(K - 1), k \in T PROVE k + 1 \in T
  <2>1. k + 1 \in 0..K
    OBVIOUS
  <2> QED BY <1>2, <1>3, <2>1
<1> HIDE DEF T
<1>4. 0..K \subseteq T
  BY <1>1, <1>3, Induction
<1>5. \A k \in 0..K : e[k] \in D
  BY <1>4 DEF T
<1>6. \A k \in 0..(K - 1) : k \in 0..K
  OBVIOUS
<1> QED BY <1>2, <1>5, <1>6 DEF Follows

(* The list of chunks: down from the newest, each at least 8 words below.  *)
LEMMA ChunksFound ==
    ASSUME NEW B, NEW S, NEW C, Geometry(mem, gFirstChunk, brk, B, S, C)
    PROVE  Chunks = C
<1>a. PICK m, first, top : m = mem /\ first = gFirstChunk /\ top = brk
  OBVIOUS
<1>b. Geometry(m, first, top, B, S, C)
  BY <1>a
<1> DEFINE K == MaxBlocks
           D == C \cup {NIL}
           g == [x \in D |-> IF x = NIL THEN NIL ELSE m[x]]
           Eq(at) == at = [k \in 0..K |->
                             IF k = 0 THEN first
                             ELSE LET c == at[k - 1] IN IF c = NIL THEN NIL ELSE m[c]]
           e == CHOOSE at : Eq(at)
<1>0. K \in Nat /\ Memory \in Nat /\ 4 * K <= Memory /\ Memory <= 4 * K + 2
  BY EnoughSteps
<1> HIDE DEF K
<1>1. ASSUME NEW c \in C
      PROVE  /\ c \in Nat /\ c # NIL /\ c >= 2 /\ c + 8 <= Memory + 2
             /\ m[c] = NIL \/ (m[c] \in C /\ m[c] + 8 <= c)
             /\ \A d \in C : d < c => m[c] \in C /\ d <= m[c]
  <2>1. /\ c \in Nat /\ c >= 2 /\ c \in Addr /\ m[c + 1] \in Nat /\ m[c + 1] >= 8
        /\ c + m[c + 1] - 2 \in S
    BY <1>b, PlaceFacts
  <2>2. /\ \/ m[c] = NIL /\ \A d \in C : c <= d
           \/ m[c] \in C /\ m[c] < c /\ \A d \in C : d < c => d <= m[c]
        /\ \A b \in C : \A d \in C : d > b => d >= b + m[b + 1]
    BY <1>b DEF Geometry, ChunkList
  <2>3. c + m[c + 1] - 2 + 2 <= Memory + 2
    <3>1. c + m[c + 1] - 2 + 2 <= top /\ top <= Memory + 2 /\ top \in Nat
      BY <2>1, <1>b, PlaceFacts
    <3> QED BY <1>0, <2>1, <3>1
  <2>4. m[c] \in C => m[c] \in Nat /\ m[m[c] + 1] \in Nat /\ m[m[c] + 1] >= 8
    BY <1>b, PlaceFacts
  <2>5. m[c] \in C /\ m[c] < c => m[c] + 8 <= c
    <3> SUFFICES ASSUME m[c] \in C, m[c] < c PROVE m[c] + 8 <= c
      OBVIOUS
    <3>1. c >= m[c] + m[m[c] + 1]
      BY <2>1, <2>2, <2>4
    <3> QED BY <2>1, <2>4, <3>1
  <2>6. \A d \in C : d \in Nat
    BY <1>b, PlaceFacts
  <2> QED BY <1>0, <2>1, <2>2, <2>3, <2>5, <2>6, AddrFacts
<1>2. g \in [D -> D] /\ first \in D /\ NIL \notin C
  <2>1. first \in D
    BY <1>b DEF Geometry, ChunkList
  <2> QED BY <1>1, <2>1
<1>3. PICK f : f \in [0..K -> D] /\ f[0] = first /\ \A i \in 0..(K - 1) : f[i + 1] = g[f[i]]
  <2>1. K \in Nat /\ g \in [D -> D] /\ first \in D
    BY <1>0, <1>2
  <2> HIDE DEF D, g
  <2>2. \E f : Follows(f, D, g, first, K)
    BY <2>1, WalkExists
  <2> QED BY <2>2 DEF Follows
<1>4. Eq(f)
  <2>1. ASSUME NEW k \in 0..K
        PROVE  f[k] = IF k = 0 THEN first
                      ELSE IF f[k - 1] = NIL THEN NIL ELSE m[f[k - 1]]
    <3>1. CASE k = 0
      BY <1>3, <3>1
    <3>2. CASE k # 0
      <4>1. k - 1 \in 0..(K - 1) /\ (k - 1) + 1 = k /\ k - 1 \in 0..K
        BY <1>0, <3>2
      <4>2. f[(k - 1) + 1] = g[f[k - 1]] /\ f[k - 1] \in D
        <5> HIDE DEF g
        <5> QED BY <1>3, <4>1
      <4> QED BY <3>2, <4>1, <4>2
    <3> QED BY <3>1, <3>2
  <2> QED BY <1>3, <2>1
<1>5. Chunks = {e[k] : k \in 0..K} \ {NIL}
  BY <1>a DEF Chunks, K
<1> HIDE DEF Eq
<1>6. Eq(e)
  BY <1>4
<1> HIDE DEF e
<1>7. e \in [0..K -> D] /\ e[0] = first /\ \A k \in 0..(K - 1) : e[k + 1] = g[e[k]]
  <2>1. e = [k \in 0..K |-> e[k]] /\ e[0] = first
    BY <1>0, <1>6 DEF Eq
  <2>2. \A k \in 0..K : k # 0 => e[k] = IF e[k - 1] = NIL THEN NIL ELSE m[e[k - 1]]
    BY <1>6 DEF Eq
  <2>3. \A k \in 0..K : k # 0 /\ e[k - 1] \in D => e[k] = g[e[k - 1]]
    BY <2>2
  <2>4. K \in Nat /\ g \in [D -> D] /\ first \in D
    BY <1>0, <1>2
  <2> HIDE DEF D, g
  <2>5. Recurs(e, D, g, first, K)
    BY <2>1, <2>3 DEF Recurs
  <2>6. Follows(e, D, g, first, K)
    BY <2>4, <2>5, WalkStays
  <2> QED BY <2>6 DEF Follows
<1> DEFINE T == {k \in 0..K : /\ e[k] \in C => e[k] + 8 * k <= first
                              /\ \A d \in C : \/ \E j \in 0..K : e[j] = d
                                              \/ e[k] \in C /\ d < e[k]}
<1>8. 0 \in T
  <2>1. first \in C \/ C = {}
    BY <1>b DEF Geometry, ChunkList
  <2>2. \A d \in C : d <= first
    BY <1>b DEF Geometry, ChunkList
  <2>3. e[0] = first /\ 0 \in 0..K
    BY <1>0, <1>7
  <2>4. first \in C => first + 8 * 0 <= first
    BY <1>1
  <2>5. ASSUME NEW d \in C PROVE d = first \/ d < first
    <3>1. d \in Nat /\ first \in Nat /\ d <= first
      BY <1>1, <2>1, <2>2
    <3> QED BY <3>1
  <2> QED BY <2>1, <2>3, <2>4, <2>5
<1>9. ASSUME NEW k \in 0..(K - 1), k \in T PROVE k + 1 \in T
  <2> DEFINE c == e[k]
             y == e[k + 1]
  <2>1. c \in D /\ y = g[c] /\ k + 1 \in 0..K /\ k \in 0..K /\ k \in Nat
    <3> HIDE DEF D, g
    <3>1. k \in 0..K /\ k + 1 \in 0..K /\ k \in Nat
      BY <1>0
    <3> QED BY <1>7, <3>1
  <2>2. y = IF c = NIL THEN NIL ELSE m[c]
    BY <2>1
  <2>3. /\ c \in C => c + 8 * k <= first
        /\ \A d \in C : \/ \E j \in 0..K : e[j] = d
                        \/ c \in C /\ d < c
    BY <1>9
  <2>4. y \in C => c \in C /\ y + 8 <= c
    BY <1>1, <1>2, <2>1, <2>2
  <2>5. y \in C => y + 8 * (k + 1) <= first
    <3> SUFFICES ASSUME y \in C PROVE y + 8 * (k + 1) <= first
      OBVIOUS
    <3>1. y \in Nat /\ c \in Nat /\ first \in Nat
      BY <1>1, <1>2, <2>4, AddrFacts
    <3> HIDE DEF y, c
    <3> QED BY <2>1, <2>3, <2>4, <3>1
  <2>6. ASSUME NEW d \in C PROVE (\E j \in 0..K : e[j] = d) \/ (y \in C /\ d < y)
    <3>1. CASE \E j \in 0..K : e[j] = d
      BY <3>1
    <3>2. CASE c \in C /\ d < c
      <4>1. y \in C /\ d <= y
        BY <1>1, <1>2, <2>2, <3>2
      <4>2. d \in Nat /\ y \in Nat
        BY <1>1, <4>1
      <4> HIDE DEF y
      <4>3. d = y \/ d < y
        BY <4>1, <4>2
      <4> QED BY <2>1, <4>1, <4>3 DEF y
    <3> QED BY <2>3, <3>1, <3>2
  <2> QED BY <2>1, <2>5, <2>6
<1>10. K \in T
  <2> HIDE DEF T
  <2>1. 0..K \subseteq T
    BY <1>0, <1>8, <1>9, Induction
  <2> QED BY <1>0, <2>1
<1>11. e[K] \notin C
  <2> SUFFICES ASSUME e[K] \in C PROVE FALSE
    OBVIOUS
  <2>1. e[K] + 8 * K <= first
    BY <1>10
  <2>2. e[K] \in Nat /\ e[K] >= 2 /\ first \in C
    BY <1>1, <1>b DEF Geometry, ChunkList
  <2>3. first \in Nat /\ first + 8 <= Memory + 2 /\ first >= 2
    BY <1>1, <2>2
  <2> QED BY <1>0, <2>1, <2>2, <2>3
<1>12. \A d \in C : \E j \in 0..K : e[j] = d
  BY <1>10, <1>11
<1>13. \A k \in 0..K : e[k] # NIL => e[k] \in C
  BY <1>7
<1> QED BY <1>2, <1>5, <1>12, <1>13

(* The blocks of a chunk and its sentinel.                                 *)
Within(m, B, c) ==
    LET s == c + m[c + 1] - 2 IN {b \in B : c < b /\ b < s} \cup {s}

(* The block after a block of a chunk is in the chunk.                     *)
LEMMA StaysWithin ==
    ASSUME NEW m, NEW first, NEW top, NEW B, NEW S, NEW C, Geometry(m, first, top, B, S, C),
           NEW c \in C, NEW s, s = c + m[c + 1] - 2
    PROVE  /\ s \in S /\ s \in Nat /\ c \in Nat /\ c + 2 \in Within(m, B, c) /\ s \in Within(m, B, c)
           /\ \A x \in Within(m, B, c) : x \in Nat /\ c < x /\ x <= s /\ (x # s => x \in B)
           /\ \A x \in Within(m, B, c) : x # s => x + BlkSize(m, x) \in Within(m, B, c)
           /\ s <= Memory /\ c >= 2
<1>1. /\ c \in Nat /\ c >= 2 /\ m[c + 1] \in Nat /\ m[c + 1] >= 8 /\ s \in S /\ s \in Nat /\ c + 2 \in B
      /\ s + 2 <= top /\ top <= Memory + 2 /\ top \in Nat
  BY PlaceFacts
<1>2. Within(m, B, c) = {b \in B : c < b /\ b < s} \cup {s}
  BY DEF Within
<1>3. s = c + m[c + 1] - 2 /\ c + 2 < s /\ s <= Memory
  BY <1>1, AddrFacts
<1>4. \A x \in Within(m, B, c) : x \in Nat /\ c < x /\ x <= s /\ (x # s => x \in B)
  <2>1. \A b \in B : b \in Nat
    BY PlaceFacts
  <2> QED BY <1>1, <1>2, <1>3, <2>1
<1>5. c + 2 \in Within(m, B, c) /\ s \in Within(m, B, c)
  BY <1>1, <1>2, <1>3
<1>6. ASSUME NEW x \in Within(m, B, c), x # s PROVE x + BlkSize(m, x) \in Within(m, B, c)
  <2>1. x \in B /\ x \in Nat /\ c < x /\ x < s
    BY <1>1, <1>4, <1>6
  <2> DEFINE y == x + BlkSize(m, x)
  <2>2. y \in B \cup S /\ BlkSize(m, x) \in Nat /\ BlkSize(m, x) >= 4 /\ s >= y
    BY <1>1, <2>1, PlaceFacts
  <2>3. y \in Nat /\ c < y /\ x < y
    BY <1>1, <2>1, <2>2
  <2> HIDE DEF y
  <2>4. CASE y \in B
    <3>1. y # s
      BY <1>1, <2>4, PlaceFacts
    <3> QED BY <1>1, <1>2, <2>2, <2>3, <2>4, <3>1 DEF y
  <2>5. CASE y \in S
    <3>1. PICK d \in C : y = d + m[d + 1] - 2
      BY <2>5 DEF Geometry, ChunkList, Sentinel
    <3>2. d \in Nat /\ m[d + 1] \in Nat /\ m[d + 1] >= 8
      BY PlaceFacts
    <3>3. (d > c => d >= c + m[c + 1]) /\ (c > d => c >= d + m[d + 1])
      BY DEF Geometry, ChunkList
    <3>4. d = c
      BY <1>1, <1>3, <2>2, <2>3, <3>1, <3>2, <3>3
    <3> QED BY <1>2, <3>1, <3>4 DEF y
  <2> QED BY <2>2, <2>4, <2>5
<1> QED BY <1>1, <1>3, <1>4, <1>5, <1>6

(* The walk through a chunk: at least 4 words a step, up to the sentinel.  *)
LEMMA BlocksFound ==
    ASSUME NEW B, NEW S, NEW C, Geometry(mem, gFirstChunk, brk, B, S, C), NEW c \in C
    PROVE  Walk(c) = Within(mem, B, c) /\ SentinelOf(c) = c + mem[c + 1] - 2
<1>a. PICK m, s, first, top : m = mem /\ first = gFirstChunk /\ top = brk /\ s = c + m[c + 1] - 2
  OBVIOUS
<1>b. Geometry(m, first, top, B, S, C)
  BY <1>a
<1> DEFINE K == MaxBlocks
           D == Within(m, B, c)
           g == [x \in D |-> IF x < s /\ BlkSize(m, x) > 0 THEN x + BlkSize(m, x) ELSE x]
           d == c + 2
           Eq(at) == at = [k \in 0..K |->
                             IF k = 0 THEN d
                             ELSE LET b == at[k - 1]
                                  IN  IF b < s /\ BlkSize(m, b) > 0
                                      THEN b + BlkSize(m, b) ELSE b]
           e == CHOOSE at : Eq(at)
<1>0. K \in Nat /\ Memory \in Nat /\ 4 * K <= Memory /\ Memory <= 4 * K + 2
  BY EnoughSteps
<1> HIDE DEF K
<1>1. /\ s \in S /\ s \in Nat /\ c \in Nat /\ d \in D /\ s \in D /\ s <= Memory /\ c >= 2
      /\ \A x \in D : x \in Nat /\ c < x /\ x <= s /\ (x # s => x \in B /\ x + BlkSize(m, x) \in D)
  BY <1>a, <1>b, StaysWithin
<1>2. \A x \in D : x # s => BlkSize(m, x) \in Nat /\ BlkSize(m, x) >= 4 /\ x < s
  <2>1. \A b \in B : BlkSize(m, b) \in Nat /\ BlkSize(m, b) >= 4
    BY <1>b, PlaceFacts
  <2> HIDE DEF D
  <2> QED BY <1>1, <2>1
<1> HIDE DEF D, d
<1>3. g \in [D -> D] /\ \A x \in D : g[x] = IF x = s THEN s ELSE x + BlkSize(m, x)
  <2>1. ~ s < s
    BY <1>1
  <2>2. \A x \in D : x # s => x < s /\ BlkSize(m, x) > 0
    BY <1>2
  <2> QED BY <1>1, <2>1, <2>2
<1>4. PICK f : f \in [0..K -> D] /\ f[0] = d /\ \A i \in 0..(K - 1) : f[i + 1] = g[f[i]]
  <2>1. K \in Nat /\ g \in [D -> D] /\ d \in D
    BY <1>0, <1>1, <1>3
  <2> HIDE DEF g
  <2>2. \E f : Follows(f, D, g, d, K)
    BY <2>1, WalkExists
  <2> QED BY <2>2 DEF Follows
<1>5. Eq(f)
  <2>1. ASSUME NEW k \in 0..K
        PROVE  f[k] = IF k = 0 THEN d
                      ELSE IF f[k - 1] < s /\ BlkSize(m, f[k - 1]) > 0
                           THEN f[k - 1] + BlkSize(m, f[k - 1]) ELSE f[k - 1]
    <3>1. CASE k = 0
      BY <1>4, <3>1
    <3>2. CASE k # 0
      <4>1. k - 1 \in 0..(K - 1) /\ (k - 1) + 1 = k /\ k - 1 \in 0..K
        BY <1>0, <3>2
      <4>2. f[(k - 1) + 1] = g[f[k - 1]] /\ f[k - 1] \in D
        <5> HIDE DEF g
        <5> QED BY <1>4, <4>1
      <4> QED BY <3>2, <4>1, <4>2
    <3> QED BY <3>1, <3>2
  <2> QED BY <1>4, <2>1
<1>6. SentinelOf(c) = s
  BY <1>a DEF SentinelOf, Sentinel
<1>7. Walk(c) = {e[k] : k \in 0..K}
  BY <1>a, <1>6 DEF Walk, ChunkMeta, K, d
<1> HIDE DEF Eq
<1>8. Eq(e)
  BY <1>5
<1> HIDE DEF e
<1>9. e \in [0..K -> D] /\ e[0] = d /\ \A k \in 0..(K - 1) : e[k + 1] = g[e[k]]
  <2>1. e = [k \in 0..K |-> e[k]] /\ e[0] = d
    BY <1>0, <1>8 DEF Eq
  <2>2. \A k \in 0..K : k # 0 => e[k] = IF e[k - 1] < s /\ BlkSize(m, e[k - 1]) > 0
                                        THEN e[k - 1] + BlkSize(m, e[k - 1]) ELSE e[k - 1]
    BY <1>8 DEF Eq
  <2>3. \A k \in 0..K : k # 0 /\ e[k - 1] \in D => e[k] = g[e[k - 1]]
    BY <2>2
  <2>4. K \in Nat /\ g \in [D -> D] /\ d \in D
    BY <1>0, <1>1, <1>3
  <2> HIDE DEF g
  <2>5. Recurs(e, D, g, d, K)
    BY <2>1, <2>3 DEF Recurs
  <2>6. Follows(e, D, g, d, K)
    BY <2>4, <2>5, WalkStays
  <2> QED BY <2>6 DEF Follows
<1> HIDE DEF g
<1> DEFINE T == {k \in 0..K : /\ e[k] = s \/ e[k] >= c + 2 + 4 * k
                              /\ \A x \in D : x > e[k] \/ \E j \in 0..K : e[j] = x}
<1>10. 0 \in T
  <2>1. e[0] = c + 2 /\ 0 \in 0..K
    BY <1>0, <1>9 DEF d
  <2>2. e[0] >= c + 2 + 4 * 0
    BY <1>1, <2>1
  <2>3. ASSUME NEW x \in D PROVE x > e[0] \/ e[0] = x
    <3>1. x \in Nat /\ c < x /\ x \in Even /\ c \in Even
      <4>1. x \in B \cup S \cup C
        BY <1>1
      <4> QED BY <1>1, <1>b, <4>1, PlaceFacts
    <3>2. c + 2 <= x
      BY <3>1, EvenGap
    <3> QED BY <1>1, <2>1, <3>1, <3>2
  <2> QED BY <2>1, <2>2, <2>3
<1>11. ASSUME NEW k \in 0..(K - 1), k \in T PROVE k + 1 \in T
  <2> DEFINE b == e[k]
             y == e[k + 1]
  <2>1. b \in D /\ y = g[b] /\ k + 1 \in 0..K /\ k \in 0..K /\ k \in Nat
    <3>1. k \in 0..K /\ k + 1 \in 0..K /\ k \in Nat
      BY <1>0
    <3> QED BY <1>9, <3>1
  <2>2. /\ b = s \/ b >= c + 2 + 4 * k
        /\ \A x \in D : x > b \/ \E j \in 0..K : e[j] = x
    BY <1>11
  <2>3. y = IF b = s THEN s ELSE b + BlkSize(m, b)
    BY <1>3, <2>1
  <2>4. y = s \/ y >= c + 2 + 4 * (k + 1)
    <3>1. CASE b = s
      BY <2>3, <3>1
    <3>2. CASE b # s
      <4>1. b \in Nat /\ BlkSize(m, b) \in Nat /\ BlkSize(m, b) >= 4 /\ y = b + BlkSize(m, b)
        BY <1>1, <1>2, <2>1, <2>3, <3>2
      <4> HIDE DEF b, y
      <4>2. b >= c + 2 + 4 * k
        BY <2>2, <3>2
      <4> QED BY <1>1, <2>1, <4>1, <4>2
    <3> QED BY <3>1, <3>2
  <2>5. ASSUME NEW x \in D PROVE x > y \/ \E j \in 0..K : e[j] = x
    <3>1. CASE \E j \in 0..K : e[j] = x
      BY <3>1
    <3>2. CASE x > b
      <4>1. b # s /\ x \in Nat /\ b \in Nat
        <5>1. x \in Nat /\ b \in Nat /\ s \in Nat /\ x <= s
          BY <1>1, <2>1
        <5> HIDE DEF b
        <5> QED BY <3>2, <5>1
      <4>2. x >= b + BlkSize(m, b)
        <5>1. b \in B /\ x \in B \cup S \cup C
          BY <1>1, <2>1, <4>1
        <5> HIDE DEF b
        <5> QED BY <1>b, <3>2, <5>1, PlaceFacts
      <4>3. y = b + BlkSize(m, b) /\ y \in Nat
        BY <1>1, <2>1, <2>3, <4>1
      <4>4. x > y \/ x = y
        BY <4>1, <4>2, <4>3
      <4> QED BY <2>1, <4>4
    <3> QED BY <2>2, <3>1, <3>2
  <2> QED BY <2>1, <2>4, <2>5
<1>12. K \in T
  <2> HIDE DEF T
  <2>1. 0..K \subseteq T
    BY <1>0, <1>10, <1>11, Induction
  <2> QED BY <1>0, <2>1
<1>13. e[K] = s
  <2>1. e[K] = s \/ e[K] >= c + 2 + 4 * K
    BY <1>12
  <2>2. e[K] \in Nat /\ e[K] <= s
    <3>1. K \in 0..K
      BY <1>0
    <3>2. e[K] \in D
      BY <1>9, <3>1
    <3> QED BY <1>1, <3>2
  <2>3. ~ e[K] >= c + 2 + 4 * K
    BY <1>0, <1>1, <2>2
  <2> QED BY <2>1, <2>3
<1>14. \A x \in D : \E j \in 0..K : e[j] = x
  <2>1. \A x \in D : ~ x > s
    BY <1>1
  <2> QED BY <1>12, <1>13, <2>1
<1>15. Walk(c) = D
  BY <1>7, <1>9, <1>14
<1> QED BY <1>a, <1>6, <1>15 DEF D

(* The walk along the free list meets every free block: it passes through
   different blocks, of at least 4 words, so it ends within MaxBlocks steps. *)
LEMMA ListFound ==
    ASSUME NEW h, NEW first, NEW top, NEW B, NEW S, NEW C, Geometry(h.m, first, top, B, S, C),
           NEW F \in SUBSET B, NEW r, Listed(h.m, h.free, F, r)
    PROVE  /\ \A b \in B : OnFreeList(h, b) <=> b \in F
           /\ \A k \in 0..MaxBlocks : Nth(h)[k] # NIL =>
                /\ Nth(h)[k] \in F
                /\ FPrev(h.m, Nth(h)[k]) = IF k = 0 THEN NIL ELSE Nth(h)[k - 1]
<1> DEFINE K == MaxBlocks
           m == h.m
           at == Nth(h)
<1>0. K \in Nat /\ Memory \in Nat /\ 4 * K <= Memory /\ Memory <= 4 * K + 2
  BY EnoughSteps
<1>1. ASSUME NEW b \in F PROVE b \in Nat /\ b # NIL /\ 2 <= b /\ b + 4 <= Memory
  <2>1. b \in B /\ b \in Nat /\ 2 <= b /\ b \in Addr /\ BlkSize(h.m, b) \in Nat /\ BlkSize(h.m, b) >= 4
        /\ b + BlkSize(h.m, b) \in B \cup S /\ top \in Nat /\ top <= Memory + 2
    BY PlaceFacts
  <2>2. b + BlkSize(h.m, b) + 2 <= top
    BY <2>1, PlaceFacts
  <2> QED BY <1>0, <2>1, <2>2, AddrFacts
<1>2. /\ at \in [0..K -> F \cup {NIL}] /\ at[0] = h.free
      /\ \A k \in 0..(K - 1) : at[k + 1] = IF at[k] = NIL THEN NIL ELSE FNext(m, at[k])
  <2>1. NIL \notin F
    BY <1>1
  <2> QED BY <2>1, NthWalks
<1> HIDE DEF K, at, m
<1>3. /\ r \in [F -> Nat] /\ h.free \in F \cup {NIL}
      /\ \A b \in F : /\ \/ FNext(m, b) = NIL
                         \/ /\ FNext(m, b) \in F /\ FPrev(m, FNext(m, b)) = b
                            /\ r[b] < r[FNext(m, b)]
                      /\ \/ FPrev(m, b) = NIL /\ b = h.free
                         \/ FPrev(m, b) \in F /\ FNext(m, FPrev(m, b)) = b /\ b # h.free
  BY DEF Listed, m
<1>4. ASSUME NEW k \in 0..(K - 1)
      PROVE  /\ k \in 0..K /\ k + 1 \in 0..K /\ at[k] \in F \cup {NIL} /\ at[k + 1] \in F \cup {NIL}
             /\ at[k + 1] # NIL => /\ at[k] \in F /\ at[k + 1] = FNext(m, at[k])
                                   /\ FPrev(m, at[k + 1]) = at[k] /\ r[at[k]] < r[at[k + 1]]
  <2>1. k \in 0..K /\ k + 1 \in 0..K
    BY <1>0
  <2>2. at[k] \in F \cup {NIL} /\ at[k + 1] \in F \cup {NIL}
    BY <1>2, <2>1
  <2>3. at[k + 1] # NIL => at[k] # NIL /\ at[k + 1] = FNext(m, at[k])
    BY <1>2
  <2> QED BY <1>3, <2>1, <2>2, <2>3
<1>5. ASSUME NEW k \in 0..K, at[k] # NIL
      PROVE  at[k] \in F /\ FPrev(m, at[k]) = IF k = 0 THEN NIL ELSE at[k - 1]
  <2>1. at[k] \in F
    BY <1>2, <1>5
  <2>2. CASE k = 0
    BY <1>2, <1>3, <2>1, <2>2
  <2>3. CASE k # 0
    <3>1. k - 1 \in 0..(K - 1) /\ (k - 1) + 1 = k
      BY <1>0, <2>3
    <3>2. at[(k - 1) + 1] # NIL => FPrev(m, at[(k - 1) + 1]) = at[k - 1]
      BY <1>4, <3>1
    <3> QED BY <1>5, <2>1, <2>3, <3>1, <3>2
  <2> QED BY <2>2, <2>3
<1>6. at[K] = NIL
  <2> SUFFICES ASSUME at[K] # NIL PROVE FALSE
    OBVIOUS
  <2> DEFINE T == {i \in 0..K : \A j \in 0..K : j >= K - i => at[j] \in F}
             U == {i \in 0..K : \A j \in 0..K : j < i => r[at[j]] < r[at[i]]}
             q == [k \in 0..K |-> (at[k] - 2) \div 4]
  <2>1. 0 \in T
    <3>1. \A j \in 0..K : j >= K - 0 => j = K
      BY <1>0
    <3>2. at[K] \in F
      BY <1>0, <1>2
    <3> QED BY <1>0, <3>1, <3>2
  <2>2. ASSUME NEW i \in 0..(K - 1), i \in T PROVE i + 1 \in T
    <3>1. i + 1 \in 0..K /\ i \in Nat
      BY <1>0
    <3>2. ASSUME NEW j \in 0..K, j >= K - (i + 1) PROVE at[j] \in F
      <4>1. CASE j >= K - i
        BY <2>2, <4>1
      <4>2. CASE ~ j >= K - i
        <5>1. j \in 0..(K - 1) /\ j + 1 \in 0..K /\ j + 1 >= K - i
          BY <1>0, <3>1, <3>2, <4>2
        <5>2. at[j + 1] \in F
          BY <2>2, <5>1
        <5> QED BY <1>1, <1>4, <5>1, <5>2
      <4> QED BY <4>1, <4>2
    <3> QED BY <3>1, <3>2
  <2>3. \A k \in 0..K : at[k] \in F
    <3> HIDE DEF T
    <3>1. 0..K \subseteq T
      BY <1>0, <2>1, <2>2, Induction
    <3>2. K \in T
      BY <1>0, <3>1
    <3>3. \A j \in 0..K : j >= K - K
      BY <1>0
    <3> QED BY <3>2, <3>3 DEF T
  <2>4. 0 \in U
    <3>1. \A j \in 0..K : ~ j < 0
      BY <1>0
    <3> QED BY <1>0, <3>1
  <2>5. ASSUME NEW i \in 0..(K - 1), i \in U PROVE i + 1 \in U
    <3>1. i + 1 \in 0..K /\ i \in 0..K
      BY <1>0
    <3>2. r[at[i]] < r[at[i + 1]]
      BY <1>1, <1>4, <2>3, <3>1
    <3>3. ASSUME NEW j \in 0..K, j < i + 1 PROVE r[at[j]] < r[at[i + 1]]
      <4>1. r[at[j]] \in Nat /\ r[at[i]] \in Nat /\ r[at[i + 1]] \in Nat
        BY <1>3, <2>3, <3>1
      <4>2. j = i \/ j < i
        BY <3>3
      <4>3. r[at[j]] = r[at[i]] \/ r[at[j]] < r[at[i]]
        BY <2>5, <4>2
      <4> QED BY <3>2, <4>1, <4>3
    <3> QED BY <3>1, <3>3
  <2>6. \A i, j \in 0..K : j < i => r[at[j]] < r[at[i]]
    <3> HIDE DEF U
    <3>1. 0..K \subseteq U
      BY <1>0, <2>4, <2>5, Induction
    <3> QED BY <3>1 DEF U
  <2>7. ASSUME NEW k \in 0..K PROVE (at[k] - 2) \div 4 \in 0..(K - 1)
    <3>1. at[k] \in Nat /\ 2 <= at[k] /\ at[k] + 4 <= Memory
      BY <1>1, <2>3
    <3> DEFINE x == at[k]
    <3> HIDE DEF x
    <3>2. x \in Nat /\ 2 <= x /\ x + 4 <= Memory
      BY <3>1 DEF x
    <3>3. (x - 2) \div 4 \in 0..(K - 1)
      BY <1>0, <3>2
    <3> QED BY <3>3 DEF x
  <2>8. q \in [0..K -> 0..(K - 1)]
    BY <2>7
  <2>9. IsFiniteSet(0..K) /\ Cardinality(0..K) = K + 1 /\ IsFiniteSet(0..(K - 1)) /\ Cardinality(0..(K - 1)) = K
    <3>1. /\ IsFiniteSet(0..K) /\ Cardinality(0..K) = IF 0 > K THEN 0 ELSE K - 0 + 1
      BY <1>0, FS_Interval
    <3>2. /\ IsFiniteSet(0..(K - 1))
          /\ Cardinality(0..(K - 1)) = IF 0 > K - 1 THEN 0 ELSE (K - 1) - 0 + 1
      BY <1>0, FS_Interval
    <3> QED BY <1>0, <3>1, <3>2
  <2>10. Cardinality(0..(K - 1)) < Cardinality(0..K)
    BY <1>0, <2>9
  <2>11. PICK i, j \in 0..K : i # j /\ q[i] = q[j]
    <3> HIDE DEF q
    <3> QED BY <2>8, <2>9, <2>10, FS_PigeonHole
  <2>12. at[i] \in F /\ at[j] \in F /\ at[i] # at[j]
    <3>1. i < j \/ j < i
      BY <2>11
    <3>2. r[at[i]] < r[at[j]] \/ r[at[j]] < r[at[i]]
      BY <2>6, <3>1
    <3>3. r[at[i]] \in Nat /\ r[at[j]] \in Nat
      BY <1>3, <2>3
    <3> QED BY <2>3, <3>2, <3>3
  <2>13. \A x, y \in F : x # y => (x - 2) \div 4 # (y - 2) \div 4
    <3> SUFFICES ASSUME NEW x \in F, NEW y \in F, x < y PROVE (x - 2) \div 4 # (y - 2) \div 4
      BY <1>1
    <3>1. x + 4 <= y
      BY BlocksApart DEF Apart
    <3>2. x \in Nat /\ y \in Nat /\ 2 <= x /\ 2 <= y
      BY <1>1
    <3> QED BY <3>1, <3>2
  <2> QED BY <2>11, <2>12, <2>13
<1>7. ASSUME NEW b \in F PROVE \E k \in 0..K : at[k] = b
  <2> DEFINE V == {x \in F : ~ \E k \in 0..K : at[k] = x}
             R == {r[x] : x \in V}
  <2> SUFFICES ASSUME V # {} PROVE FALSE
    OBVIOUS
  <2>1. R \in SUBSET Nat /\ R # {}
    BY <1>3
  <2>2. PICK n \in R : \A y \in R : n <= y
    <3> HIDE DEF R
    <3> QED BY <2>1, Least
  <2>3. PICK x \in V : n = r[x]
    OBVIOUS
  <2>4. x \in F /\ ~ \E k \in 0..K : at[k] = x
    OBVIOUS
  <2>5. x # h.free
    BY <1>0, <1>2, <2>4
  <2> DEFINE y == FPrev(m, x)
  <2>6. y \in F /\ FNext(m, y) = x
    BY <1>3, <2>4, <2>5
  <2>7. r[y] < r[x] /\ r[y] \in Nat /\ r[x] \in Nat
    <3>1. x # NIL
      BY <1>1, <2>4
    <3> HIDE DEF y
    <3> QED BY <1>3, <2>4, <2>6, <3>1
  <2>8. y \notin V
    <3> SUFFICES ASSUME y \in V PROVE FALSE
      OBVIOUS
    <3>1. r[x] <= r[y]
      BY <2>2, <2>3
    <3> HIDE DEF y
    <3> QED BY <2>7, <3>1
  <2>9. PICK k \in 0..K : at[k] = y
    BY <2>6, <2>8
  <2>10. k # K /\ at[k] # NIL
    BY <1>1, <1>6, <2>6, <2>9
  <2>11. k \in 0..(K - 1) /\ k + 1 \in 0..K
    BY <1>0, <2>10
  <2>12. at[k + 1] = x
    BY <1>2, <2>6, <2>9, <2>10, <2>11
  <2> QED BY <2>4, <2>11, <2>12
<1>8. ASSUME NEW b \in B PROVE OnFreeList(h, b) <=> b \in F
  <2>1. OnFreeList(h, b) <=> \E k \in 0..K : at[k] = b
    BY DEF OnFreeList, at, K
  <2>2. b # NIL
    BY PlaceFacts, AddrFacts
  <2> QED BY <1>2, <1>7, <2>1, <2>2
<1> QED BY <1>5, <1>8 DEF at, m, K

(* What the properties call Chunks, Walk and Blocks.                       *)
LEMMA WalksFind ==
    ASSUME NEW B, NEW S, NEW C, Geometry(mem, gFirstChunk, brk, B, S, C)
    PROVE  /\ Chunks = C /\ Blocks = B
           /\ \A c \in C : /\ SentinelOf(c) \in S /\ Walk(c) = Within(mem, B, c)
                           /\ SentinelOf(c) \in Walk(c)
                           /\ \A x \in Walk(c) : x <= SentinelOf(c)
                           /\ Walk(c) \ {SentinelOf(c)} \subseteq B
<1>1. Chunks = C
  BY ChunksFound
<1>2. ASSUME NEW c \in C
      PROVE  /\ SentinelOf(c) \in S /\ Walk(c) = Within(mem, B, c)
             /\ SentinelOf(c) = c + mem[c + 1] - 2
             /\ SentinelOf(c) \in Walk(c)
             /\ \A x \in Walk(c) : x <= SentinelOf(c)
             /\ Walk(c) \ {SentinelOf(c)} \subseteq B
  <2>1. Walk(c) = Within(mem, B, c) /\ SentinelOf(c) = c + mem[c + 1] - 2
    BY BlocksFound
  <2> DEFINE s == SentinelOf(c)
  <2> HIDE DEF s
  <2>2. /\ s \in S /\ s \in Within(mem, B, c)
        /\ \A x \in Within(mem, B, c) : x <= s /\ (x # s => x \in B)
    BY <2>1, StaysWithin DEF s
  <2> QED BY <2>1, <2>2 DEF s
<1>3. ASSUME NEW b \in B PROVE b \in Blocks
  <2>1. PICK c \in C : c < b /\ b < c + mem[c + 1] - 2
    BY DEF Geometry, ChunkList, Sentinel
  <2>2. b \in Walk(c) /\ SentinelOf(c) = c + mem[c + 1] - 2
    BY <1>2, <2>1 DEF Within
  <2>3. b # SentinelOf(c)
    <3>1. SentinelOf(c) \in S /\ B \cap S = {}
      BY <1>2, PlaceFacts
    <3> QED BY <3>1
  <2> QED BY <1>1, <2>2, <2>3 DEF Blocks
<1>4. Blocks \subseteq B
  BY <1>1, <1>2 DEF Blocks
<1> QED BY <1>1, <1>2, <1>3, <1>4

(* Heap.Validate would return TRUE after every call of Allocate and
   Deallocate: the blocks tile the chunks, know the size of the block before,
   are on the doubly linked free list exactly if they are free, and no two
   neighbours are free.                                                    *)
THEOREM HeapValidates == Spec => []Validates
<1>1. ASSUME IInv PROVE Validates
  <2>1. PICK B, S, C : Shape(Now, gFirstChunk, brk, B, S, C)
    BY <1>1 DEF IInv, Good
  <2> DEFINE F == Frees(mem, B)
  <2>2. Geometry(mem, gFirstChunk, brk, B, S, C) /\ NoTwoFree(mem, B) /\ F \in SUBSET B
        /\ \E r : Listed(mem, gFreeHead, F, r)
    BY <2>1 DEF Shape, Now, Frees
  <2>3. /\ Chunks = C /\ Blocks = B
        /\ \A c \in C : /\ SentinelOf(c) \in S
                        /\ SentinelOf(c) \in Walk(c)
                        /\ \A x \in Walk(c) : x <= SentinelOf(c)
                        /\ Walk(c) \ {SentinelOf(c)} \subseteq B
    BY <2>2, WalksFind
  <2>4. \A s \in S : BlkAlloc(mem, s)
    BY <2>2 DEF Geometry, ChunkList
  <2>5. ASSUME NEW c \in C PROVE BlkPrev(mem, c + ChunkMeta) = 0
    <3>1. c \in Nat /\ c + 2 \in B
      BY <2>2, PlaceFacts
    <3> DEFINE x == c + 2
    <3>2. x \in B \cup S /\ x \in Nat
      BY <3>1
    <3> SUFFICES ASSUME mem[x + 1] # 0 PROVE FALSE
      BY DEF BlkPrev, ChunkMeta
    <3> HIDE DEF x
    <3>3. /\ x - mem[x + 1] \in B /\ mem[x + 1] \in Nat /\ BlkSize(mem, x - mem[x + 1]) = mem[x + 1]
      BY <2>2, <3>2, TagLeads
    <3> DEFINE b == x - mem[x + 1]
    <3> HIDE DEF b
    <3>4. b \in B /\ b \in Nat /\ BlkSize(mem, b) \in Nat /\ BlkSize(mem, b) >= 4 /\ b + BlkSize(mem, b) = x
      <4>1. b \in B
        BY <3>3 DEF b
      <4>2. b \in Nat /\ BlkSize(mem, b) \in Nat /\ BlkSize(mem, b) >= 4
        BY <2>2, <4>1, PlaceFacts
      <4>3. b + BlkSize(mem, b) = x
        BY <3>2, <3>3 DEF b
      <4> QED BY <4>1, <4>2, <4>3
    <3>5. c > b => c >= b + BlkSize(mem, b)
      BY <2>2, <3>4, PlaceFacts
    <3> QED BY <3>1, <3>4, <3>5 DEF x
  <2>6. ASSUME NEW b \in B
        PROVE  BlkSize(mem, b) >= MinBlock /\ BlkPrev(mem, After(b)) = BlkSize(mem, b)
    <3>1. BlkSize(mem, b) >= 4 /\ b + BlkSize(mem, b) \in B \cup S
      BY <2>2, PlaceFacts
    <3>2. mem[b + BlkSize(mem, b) + 1] = BlkSize(mem, b)
      BY <2>2, <3>1, TagLeads
    <3> QED BY <3>1, <3>2 DEF After, MinBlock, BlkPrev
  <2>7. /\ \A b \in B : OnFreeList(Now, b) <=> ~ BlkAlloc(mem, b)
        /\ \A k \in 0..MaxBlocks : Nth(Now)[k] # NIL =>
             /\ Nth(Now)[k] \in B
             /\ FPrev(mem, Nth(Now)[k]) = IF k = 0 THEN NIL ELSE Nth(Now)[k - 1]
    <3>1. PICK r : Listed(Now.m, Now.free, F, r)
      BY <2>2 DEF Now
    <3>2. Geometry(Now.m, gFirstChunk, brk, B, S, C) /\ Now.m = mem
      BY <2>2 DEF Now
    <3> HIDE DEF F
    <3>3. /\ \A b \in B : OnFreeList(Now, b) <=> b \in F
          /\ \A k \in 0..MaxBlocks : Nth(Now)[k] # NIL =>
               /\ Nth(Now)[k] \in F
               /\ FPrev(Now.m, Nth(Now)[k]) = IF k = 0 THEN NIL ELSE Nth(Now)[k - 1]
      BY <2>2, <3>1, <3>2, ListFound
    <3>4. \A b \in B : b \in F <=> ~ BlkAlloc(mem, b)
      BY DEF F, Frees
    <3> QED BY <2>2, <3>2, <3>3, <3>4
  <2>8. \A b \in B : ~ BlkAlloc(mem, b) => BlkAlloc(mem, After(b))
    BY <2>2 DEF NoTwoFree, Frees, After
  <2> QED BY <2>3, <2>4, <2>5, <2>6, <2>7, <2>8 DEF Validates
<1> QED BY <1>1, Invariance, PTL

(* The allocator hands out zeroed memory and never writes into memory the
   program holds; what the program holds is what is allocated, each pointer
   has a block of its own of sufficient size, and gInUse counts them all.   *)
THEOREM PayloadKept == Spec => []PayloadIsTheOwners
<1>1. ASSUME IInv PROVE PayloadIsTheOwners
  <2>1. PICK B, S, C : Shape(Now, gFirstChunk, brk, B, S, C) /\ Holdings(mem, B)
    BY <1>1 DEF IInv, Good
  <2>2. Geometry(mem, gFirstChunk, brk, B, S, C)
    BY <2>1 DEF Shape, Now
  <2>3. Blocks = B
    BY <2>2, WalksFind
  <2> DEFINE T == Taken(mem, B)
  <2>4. \A b \in T : b \in Nat /\ BlkSize(mem, b) \in Nat /\ b \in B /\ b \in Addr /\ b + BlkSize(mem, b) \in Addr
    <3> SUFFICES ASSUME NEW b \in B PROVE b \in Nat /\ BlkSize(mem, b) \in Nat /\ b \in Addr
                                           /\ b + BlkSize(mem, b) \in Addr
      BY DEF Taken
    <3>1. b \in Nat /\ BlkSize(mem, b) \in Nat /\ b \in Addr /\ b + BlkSize(mem, b) \in B \cup S
      BY <2>2, PlaceFacts
    <3> QED BY <2>2, <3>1, PlaceFacts
  <2>5. DOMAIN owned = {b + 2 : b \in T}
    BY <2>1 DEF Holdings, Hdr
  <2>6. \A b \in T : (b + 2) - Hdr = b
    BY <2>4 DEF Hdr
  <2>7. {p - Hdr : p \in DOMAIN owned} = T
    <3> HIDE DEF T
    <3> QED BY <2>5, <2>6
  <2>8. T = {b \in Blocks : BlkAlloc(mem, b)}
    BY <2>3 DEF Taken, Frees
  <2>9. \A p \in DOMAIN owned : BlkSize(mem, p - Hdr) >= owned[p] + Hdr
    BY <2>1 DEF Holdings
  <2> DEFINE cells == UNION {(p - Hdr)..(After(p - Hdr) - 1) : p \in DOMAIN owned}
  <2>10. cells = Cells(mem, B)
    <3>1. ASSUME NEW a, NEW b \in T, a \in b..(After(b) - 1)
          PROVE  a \in Addr /\ b <= a /\ a < b + BlkSize(mem, b)
      <4> DEFINE y == b + BlkSize(mem, b)
      <4>1. b \in Nat /\ y \in Nat /\ b \in Addr /\ y \in Addr
        BY <2>4
      <4> HIDE DEF y
      <4>2. a \in b..(y - 1)
        BY <3>1 DEF After, y
      <4>3. a \in Nat /\ b <= a /\ a < y
        BY <4>1, <4>2
      <4>4. 2 <= a /\ a <= Memory + 1
        BY <4>1, <4>3, AddrFacts
      <4> QED BY <4>3, <4>4, AddrFacts DEF y
    <3>2. ASSUME NEW a \in Addr, NEW b \in T, b <= a, a < b + BlkSize(mem, b)
          PROVE  a \in b..(After(b) - 1)
      BY <2>4, <3>2, AddrFacts DEF After
    <3>3. \A p \in DOMAIN owned : p - Hdr \in T
      BY <2>7
    <3>4. \A b \in T : \E p \in DOMAIN owned : p - Hdr = b
      BY <2>7
    <3> HIDE DEF T
    <3>5. ASSUME NEW a \in cells PROVE a \in Cells(mem, B)
      <4>1. PICK p \in DOMAIN owned : a \in (p - Hdr)..(After(p - Hdr) - 1)
        OBVIOUS
      <4> QED BY <3>1, <3>3, <4>1 DEF Cells, T
    <3>6. ASSUME NEW a \in Cells(mem, B) PROVE a \in cells
      <4>1. PICK b \in T : b <= a /\ a < b + BlkSize(mem, b)
        BY DEF Cells, T
      <4>2. a \in b..(After(b) - 1)
        BY <3>2, <4>1 DEF Cells
      <4> QED BY <3>4, <4>2
    <3> QED BY <3>5, <3>6
  <2>11. gInUse = Cardinality(cells)
    BY <2>1, <2>10 DEF Holdings
  <2>12. HeldIsAllocated
    BY <2>7, <2>8, <2>9, <2>11 DEF HeldIsAllocated
  <2>13. ~ dirty /\ \A p \in DOMAIN owned : \A a \in p..(p + owned[p] - 1) : mem[a] = 1
    BY <2>1 DEF Holdings
  <2> QED BY <2>12, <2>13 DEF PayloadIsTheOwners
<1> QED BY <1>1, Invariance, PTL
=============================================================================
