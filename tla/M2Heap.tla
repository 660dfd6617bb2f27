------------------------------- MODULE M2Heap -------------------------------
(***************************************************************************)
(* The self-hosted allocator behind NEW and DISPOSE under --m2-heap,       *)
(* src/library/winrtmod/Heap.mod: boundary-tag blocks in chunks from       *)
(* VirtualAlloc, a doubly linked first-fit free list whose links live in   *)
(* the free blocks, splitting, and coalescing with both neighbours.        *)
(*                                                                         *)
(* Memory is a function from addresses to 64-bit words and an address      *)
(* counts words, so a size of 16 bytes is 2, sizes are even and the        *)
(* allocation flag is the parity of the size word.  CARDINAL arithmetic    *)
(* wraps at Wrap.  Each procedure is one step: the module has no lock and  *)
(* one thread calls it.                                                    *)
(***************************************************************************)
EXTENDS Integers, FiniteSets

CONSTANTS Wrap,          \* number of values of a CARDINAL, in words
          DefaultChunk,  \* words asked of the system at a time
          Page,          \* granularity of larger chunks
          Memory,        \* words the system has to give
          Request        \* sizes the program asks for

Hdr       == 2
MinBlock  == 4
ChunkMeta == 2
Sentinel  == 2
NIL       == 0

ASSUME HeapAssumption ==
    /\ {Wrap, DefaultChunk, Page, Memory} \subseteq {n \in Nat : n > 0 /\ n % 2 = 0}
    /\ Wrap % Page = 0 /\ Memory < Wrap
    /\ DefaultChunk >= ChunkMeta + MinBlock + Sentinel
    /\ Request \subseteq 0..(Wrap - 1)

Addr == 2..(Memory + 1)

\* More blocks than memory can hold: bounds the walks along lists.
MaxBlocks == Memory \div MinBlock

VARIABLES mem,          \* [Addr -> word]
          gFreeHead,    \* first block of the free list
          gFirstChunk,  \* list of the chunks, newest first
          gInUse,       \* words handed out, headers included
          brk,          \* external: first address the system has not given yet
          owned,        \* [pointer -> size asked for] of what the program holds
          dirty,        \* observer: a block was handed out that was not zeroed
          stale         \* pointers freed whose memory was not handed out again

vars == <<mem, gFreeHead, gFirstChunk, gInUse, brk, owned, dirty, stale>>

Init ==
    /\ mem = [a \in Addr |-> 0]
    /\ gFreeHead = NIL /\ gFirstChunk = NIL /\ gInUse = 0
    /\ brk = 2
    /\ owned = [p \in {} |-> 0]
    /\ dirty = FALSE /\ stale = {}

-----------------------------------------------------------------------------
(* Block fields and the free list; h is a memory with its free list head.  *)

BlkSize(m, b)  == m[b] - (m[b] % 2)
BlkAlloc(m, b) == m[b] % 2 = 1
BlkPrev(m, b)  == m[b + 1]
FNext(m, b)    == m[b + 2]
FPrev(m, b)    == m[b + 3]

SetHdr(m, b, size, flag, prevSize) ==
    [m EXCEPT ![b] = size + flag, ![b + 1] = prevSize]

Now == [m |-> mem, free |-> gFreeHead]

InsertFree(h, b) ==
    LET linked == [h.m EXCEPT ![b + 2] = h.free, ![b + 3] = NIL]
    IN  [m |-> IF h.free # NIL THEN [linked EXCEPT ![h.free + 3] = b] ELSE linked,
         free |-> b]

RemoveFree(h, b) ==
    LET nx == FNext(h.m, b)
        pv == FPrev(h.m, b)
        cut == IF pv # NIL THEN [h EXCEPT !.m[pv + 2] = nx] ELSE [h EXCEPT !.free = nx]
    IN  IF nx # NIL THEN [cut EXCEPT !.m[nx + 3] = pv] ELSE cut

\* The k-th block of the free list, NIL past its end.
Nth(h) ==
    LET at[k \in 0..MaxBlocks] ==
            IF k = 0 THEN h.free
            ELSE LET b == at[k - 1] IN IF b = NIL THEN NIL ELSE FNext(h.m, b)
    IN  at

OnFreeList(h, b) == \E k \in 0..MaxBlocks : Nth(h)[k] = b

\* First fit.
FindFit(h, need) ==
    LET at == Nth(h)
        fits == {k \in 0..MaxBlocks : at[k] # NIL /\ BlkSize(h.m, at[k]) >= need}
    IN  IF fits = {} THEN NIL
        ELSE at[CHOOSE k \in fits : \A j \in fits : k <= j]

\* n rounded up to a multiple of unit, in the arithmetic of the machine.
RoundUp(n, unit) ==
    LET sum == (n + unit - 1) % Wrap IN sum - (sum % unit)

-----------------------------------------------------------------------------
(* Allocate.                                                               *)

\* The sizes computed from a request: the payload and the block.
Need(size) ==
    LET even == RoundUp(size, 2) IN IF even < 2 THEN 2 ELSE even

BlockNeed(size) == (Need(size) + Hdr) % Wrap

\* Either sum wrapped: Allocate returns NIL.
Refused(size) == RoundUp(size, 2) < size \/ BlockNeed(size) < Need(size)

ChunkWords(needBlock) ==
    LET want == (needBlock + ChunkMeta + Sentinel) % Wrap
    IN  IF want > DefaultChunk THEN RoundUp(want, Page) ELSE DefaultChunk

\* VirtualAlloc of n words succeeds; it fails when nothing is asked for.
CanGrow(n) == n > 0 /\ brk + n <= Memory + 2

\* GrowHeap's new chunk: its list link and size, one free block, a sentinel.
GrowHeap(n) ==
    LET first == brk + ChunkMeta
        size == n - ChunkMeta - Sentinel
        meta == [mem EXCEPT ![brk] = gFirstChunk, ![brk + 1] = n]
        blk == SetHdr(meta, first, size, 0, 0)
    IN  InsertFree([m |-> SetHdr(blk, brk + n - Sentinel, Sentinel, 1, size),
                    free |-> gFreeHead], first)

\* Mutant: the block after the residual keeps its old prevSize.
Carve_StalePrev(h, b, need) ==
    LET cut == RemoveFree(h, b)
        bsize == BlkSize(h.m, b)
        rem == b + need
        split == [cut.m EXCEPT ![b] = need + 1]
    IN  IF bsize >= need + MinBlock
        THEN InsertFree([cut EXCEPT !.m = SetHdr(split, rem, bsize - need, 0, need)], rem)
        ELSE [cut EXCEPT !.m[b] = bsize + 1]

\* Take need words of the free block b: split it or take all of it.
Carve(h, b, need) ==
    LET cut == RemoveFree(h, b)
        bsize == BlkSize(h.m, b)
        rem == b + need
        split == SetHdr([cut.m EXCEPT ![b] = need + 1], rem, bsize - need, 0, need)
    IN  IF bsize >= need + MinBlock
        THEN InsertFree([cut EXCEPT !.m = [split EXCEPT ![rem + bsize - need + 1] = bsize - need]],
                        rem)
        ELSE [cut EXCEPT !.m[b] = bsize + 1]

\* Mutant: the loop stops one word early.
Zeroed_OneShort(m, p, size) ==
    [a \in Addr |-> IF a \in p..(p + size - 2) THEN 0 ELSE m[a]]

\* The usable payload is cleared.
Zeroed(m, p, size) == [a \in Addr |-> IF a \in p..(p + Need(size) - 1) THEN 0 ELSE m[a]]

\* Hand block b of the heap h to the program, which writes all of it with
\* words that look like the size word of an allocated block.
Give(h, b, size) ==
    LET got == Carve(h, b, BlockNeed(size))
        p == b + Hdr
        payload == p..(p + size - 1)
        given == Zeroed(got.m, p, size)
    IN  /\ mem' = [a \in Addr |-> IF a \in payload THEN 1 ELSE given[a]]
        /\ dirty' = (dirty \/ \E a \in payload : given[a] # 0)
        /\ gFreeHead' = got.free
        /\ gInUse' = gInUse + BlkSize(got.m, b)
        /\ owned' = [q \in DOMAIN owned \cup {p} |-> IF q = p THEN size ELSE owned[q]]
        /\ stale' = {q \in stale : q - Hdr \notin b..(b + BlkSize(got.m, b) - 1)}

AllocateRefused(size) ==
    /\ Refused(size)
    /\ UNCHANGED vars

AllocateFits(size) ==
    /\ ~ Refused(size)
    /\ FindFit(Now, BlockNeed(size)) # NIL
    /\ Give(Now, FindFit(Now, BlockNeed(size)), size)
    /\ UNCHANGED <<gFirstChunk, brk>>

\* The system may refuse a chunk it could give.
AllocateOutOfMemory(size) ==
    /\ ~ Refused(size)
    /\ FindFit(Now, BlockNeed(size)) = NIL
    /\ UNCHANGED vars

\* A chunk is added, and searched: when BlockNeed + 4 wrapped it is too small,
\* and Allocate returns NIL with the chunk on the free list.
AllocateGrows(size) ==
    /\ ~ Refused(size)
    /\ FindFit(Now, BlockNeed(size)) = NIL
    /\ LET n == ChunkWords(BlockNeed(size)) IN
         /\ CanGrow(n)
         /\ gFirstChunk' = brk
         /\ brk' = brk + n
         /\ LET h == GrowHeap(n)
                b == FindFit(h, BlockNeed(size))
            IN  IF b # NIL
                THEN Give(h, b, size)
                ELSE /\ mem' = h.m /\ gFreeHead' = h.free
                     /\ UNCHANGED <<gInUse, owned, dirty, stale>>

-----------------------------------------------------------------------------
(* Deallocate.                                                             *)

\* Mutant: the flag is cleared only where a block joins its successor.
JoinNext_FlagLeft(h, b) ==
    LET size == BlkSize(h.m, b)
        nextB == b + size
    IN  IF BlkAlloc(h.m, nextB) THEN h
        ELSE LET cut == RemoveFree(h, nextB)
             IN  [cut EXCEPT !.m[b] = size + BlkSize(cut.m, nextB)]

\* Mark b free and join it with a free successor.
JoinNext(h, b) ==
    LET size == BlkSize(h.m, b)
        nextB == b + size
        freed == [h EXCEPT !.m[b] = size]
    IN  IF BlkAlloc(h.m, nextB) THEN freed
        ELSE LET cut == RemoveFree(freed, nextB)
             IN  [cut EXCEPT !.m[b] = size + BlkSize(cut.m, nextB)]

\* Join a free predecessor, tell the block after the new prevSize, list it.
JoinPrev(h, b) ==
    LET prevB == b - BlkPrev(h.m, b)
        joins == BlkPrev(h.m, b) # 0 /\ ~ BlkAlloc(h.m, prevB)
        cut == RemoveFree(h, prevB)
        got == IF joins
               THEN [cut EXCEPT !.m[prevB] = BlkSize(cut.m, prevB) + BlkSize(cut.m, b)]
               ELSE h
        start == IF joins THEN prevB ELSE b
        size == BlkSize(got.m, start)
    IN  InsertFree([got EXCEPT !.m[start + size + 1] = size], start)

\* Mutant: a block that is not allocated is freed again.
Deallocate_NoFlagTest(p) ==
    LET b == p - Hdr
        h == JoinPrev(JoinNext(Now, b), b)
    IN  /\ mem' = h.m /\ gFreeHead' = h.free
        /\ gInUse' = gInUse - BlkSize(mem, b)
        /\ owned' = [q \in DOMAIN owned \ {p} |-> owned[q]]
        /\ stale' = stale \cup {p}
        /\ UNCHANGED <<gFirstChunk, brk, dirty>>

\* A block that is not allocated is left alone: the double free is a no-op.
Deallocate(p) ==
    LET b == p - Hdr
        h == JoinPrev(JoinNext(Now, b), b)
    IN  IF ~ BlkAlloc(mem, b)
        THEN UNCHANGED vars
        ELSE /\ mem' = h.m /\ gFreeHead' = h.free
             /\ gInUse' = gInUse - BlkSize(mem, b)
             /\ owned' = [q \in DOMAIN owned \ {p} |-> owned[q]]
             /\ stale' = stale \cup {p}
             /\ UNCHANGED <<gFirstChunk, brk, dirty>>

Next ==
    \/ \E size \in Request : \/ AllocateRefused(size) \/ AllocateFits(size)
                             \/ AllocateOutOfMemory(size) \/ AllocateGrows(size)
    \/ \E p \in DOMAIN owned \cup stale : Deallocate(p)

Spec == Init /\ [][Next]_vars

-----------------------------------------------------------------------------
(* Properties.                                                             *)

TypeOK ==
    /\ mem \in [Addr -> 0..(Wrap - 1)]
    /\ gFreeHead \in Addr \cup {NIL}
    /\ gFirstChunk \in Addr \cup {NIL}
    /\ gInUse \in 0..Memory
    /\ brk \in Addr \cup {Memory + 2}
    /\ DOMAIN owned \subseteq Addr /\ \A p \in DOMAIN owned : owned[p] \in Request
    /\ dirty \in BOOLEAN
    /\ stale \subseteq Addr

Chunks ==
    LET at[k \in 0..MaxBlocks] ==
            IF k = 0 THEN gFirstChunk
            ELSE LET c == at[k - 1] IN IF c = NIL THEN NIL ELSE mem[c]
    IN  {at[k] : k \in 0..MaxBlocks} \ {NIL}

SentinelOf(c) == c + mem[c + 1] - Sentinel

\* The blocks met by walking a chunk from its head, up to the sentinel.
Walk(c) ==
    LET at[k \in 0..MaxBlocks] ==
            IF k = 0 THEN c + ChunkMeta
            ELSE LET b == at[k - 1]
                 IN  IF b < SentinelOf(c) /\ BlkSize(mem, b) > 0
                     THEN b + BlkSize(mem, b) ELSE b
    IN  {at[k] : k \in 0..MaxBlocks}

Blocks == UNION {Walk(c) \ {SentinelOf(c)} : c \in Chunks}

After(b) == b + BlkSize(mem, b)

\* Heap.Validate returns TRUE after every call: in every chunk the blocks are
\* large enough, tile the chunk up to its sentinel, know their predecessor's
\* size, and are on the free list exactly if they are free.  The list is
\* doubly linked and holds nothing but blocks, so that RemoveFree finds the
\* neighbours from either side, and no two neighbouring blocks are both free:
\* every free joins its block with both.
Validates ==
    /\ \A c \in Chunks :
         /\ \A b \in Walk(c) : b <= SentinelOf(c)
         /\ SentinelOf(c) \in Walk(c)
         /\ BlkAlloc(mem, SentinelOf(c))
         /\ BlkPrev(mem, c + ChunkMeta) = 0
         /\ \A b \in Walk(c) \ {SentinelOf(c)} :
              BlkSize(mem, b) >= MinBlock /\ BlkPrev(mem, After(b)) = BlkSize(mem, b)
    /\ \A b \in Blocks : OnFreeList(Now, b) <=> ~ BlkAlloc(mem, b)
    /\ LET at == Nth(Now)
       IN  \A k \in 0..MaxBlocks : at[k] # NIL =>
             /\ at[k] \in Blocks
             /\ FPrev(mem, at[k]) = IF k = 0 THEN NIL ELSE at[k - 1]
    /\ \A b \in Blocks : ~ BlkAlloc(mem, b) => BlkAlloc(mem, After(b))

\* What the program holds is what is allocated: each of its pointers leads to
\* an allocated block of its own that is large enough, whatever size was asked
\* for; no other block is allocated, and gInUse is the size of them all.
HeldIsAllocated ==
    /\ {p - Hdr : p \in DOMAIN owned} = {b \in Blocks : BlkAlloc(mem, b)}
    /\ \A p \in DOMAIN owned : BlkSize(mem, p - Hdr) >= owned[p] + Hdr
    /\ LET cells == UNION {(p - Hdr)..(After(p - Hdr) - 1) : p \in DOMAIN owned}
       IN  gInUse = Cardinality(cells)

\* The allocator hands out zeroed memory and writes nothing into memory the
\* program holds: a block keeps what the program wrote, through every split,
\* merge, clearing and free-list update around it, and nothing is allocated
\* but what the program holds (HeldIsAllocated).
PayloadIsTheOwners ==
    /\ HeldIsAllocated
    /\ ~ dirty
    /\ \A p \in DOMAIN owned : \A a \in p..(p + owned[p] - 1) : mem[a] = 1

\* A pointer that was freed is recognised as long as its memory was not handed
\* out again, also when its block has since been merged or split around it.
DoubleFreeRecognised == \A p \in stale : ~ BlkAlloc(mem, p - Hdr)
=============================================================================
