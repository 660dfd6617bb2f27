----------------------------- MODULE HeapGuard ------------------------------
(***************************************************************************)
(* The manual heap of the runtime, src/src/newm2-runtime/src/heap.rs:      *)
(* nm2_alloc and nm2_free over the operating system's heap, with the heap  *)
(* guard, a counting Bloom filter of the live pointers that many threads   *)
(* update without a lock.                                                  *)
(*                                                                         *)
(* One step per access to shared memory.  The load/compare_exchange loop   *)
(* on a counter takes effect at the exchange that succeeds, so it is one   *)
(* step; the test of all slots and the decrements that follow are many.    *)
(* A pointer is a model value, its BLOOM_K distinct slots are Hash[p];     *)
(* the order in which a call goes through them is left open.  Sizes are    *)
(* left out.                                                               *)
(***************************************************************************)
EXTENDS Integers, FiniteSets

CONSTANTS Thread,
          Ptr,       \* addresses the operating system may hand out
          Slot,      \* counters of the filter
          Hash,      \* [Ptr -> SUBSET Slot]: bloom_indices
          Max,       \* 255, where a counter sticks
          Faulty     \* pointers the program may free without owning them

ASSUME GuardAssumption ==
    /\ IsFiniteSet(Ptr) /\ Ptr # {}
    /\ Hash \in [Ptr -> (SUBSET Slot) \ {{}}]
    /\ Max \in Nat \ {0}
    /\ Faulty \subseteq Ptr

\* The pointer of a thread before its first call.
AnyPtr == CHOOSE p \in Ptr : TRUE

VARIABLES GUARD_STATE, \* 0 undecided, 1 on, 2 off, 3 deciding
          reports,     \* times guard_report_atexit was registered
          BLOOM,       \* [Slot -> 0..Max]
          live_blocks, \* HEAP_STATS.live_blocks
          heap,        \* external: blocks allocated in the OS heap
          owned,       \* pointers nm2_alloc returned and nobody passed to nm2_free
          pc, arg, todo,  \* of each thread: where it is, its pointer, its slots left
          rightful,    \* of each thread: the pointer it frees was owned
          blocked,     \* observer: pointers whose rightful free was refused
          corrupted    \* observer: pointers given to HeapFree when not allocated

vars == <<GUARD_STATE, reports, BLOOM, live_blocks, heap, owned, pc, arg,
          todo, rightful, blocked, corrupted>>

shared == <<GUARD_STATE, reports, BLOOM>>
caller == <<arg, rightful>>
observed == <<blocked, corrupted>>

\* With --protect-heap the emitted main calls nm2_heap_guard_force_on before
\* any other code; otherwise the first nm2_alloc or nm2_free decides.
Init ==
    /\ \/ GUARD_STATE = 0 /\ reports = 0
       \/ GUARD_STATE = 1 /\ reports = 1
    /\ BLOOM = [s \in Slot |-> 0]
    /\ live_blocks = 0
    /\ heap = {} /\ owned = {}
    /\ pc = [t \in Thread |-> "idle"]
    /\ arg = [t \in Thread |-> AnyPtr]
    /\ todo = [t \in Thread |-> {}]
    /\ rightful = [t \in Thread |-> FALSE]
    /\ blocked = {} /\ corrupted = {}

Goto(t, l) == pc' = [pc EXCEPT ![t] = l] /\ UNCHANGED caller

\* The call returns and its local variables are gone.
Finish(t) ==
    /\ pc' = [pc EXCEPT ![t] = "idle"]
    /\ arg' = [arg EXCEPT ![t] = AnyPtr]
    /\ rightful' = [rightful EXCEPT ![t] = FALSE]

-----------------------------------------------------------------------------
(* nm2_alloc.                                                              *)

\* imp::alloc: HeapAlloc of a serialized heap.
HeapAlloc(t) ==
    /\ pc[t] = "idle"
    /\ \E p \in Ptr \ heap :
         /\ heap' = heap \cup {p}
         /\ arg' = [arg EXCEPT ![t] = p]
    /\ pc' = [pc EXCEPT ![t] = "record_alloc"]
    /\ UNCHANGED <<shared, live_blocks, owned, todo, rightful, observed>>

RecordAlloc(t) ==
    /\ pc[t] = "record_alloc"
    /\ live_blocks' = live_blocks + 1
    /\ Goto(t, "alloc_guard")
    /\ UNCHANGED <<shared, heap, owned, todo, observed>>

\* nm2_alloc returns its pointer to the program.
Return(t) ==
    /\ owned' = owned \cup {arg[t]}
    /\ Finish(t)

\* Mutant: a saturated counter wraps, as an u8 would.
BloomAdd_Wraps(t) ==
    /\ pc[t] = "add"
    /\ \/ \E s \in todo[t] :
            /\ BLOOM' = [BLOOM EXCEPT ![s] = (@ + 1) % (Max + 1)]
            /\ todo' = [todo EXCEPT ![t] = @ \ {s}]
            /\ UNCHANGED <<owned, pc, caller>>
       \/ todo[t] = {} /\ Return(t) /\ UNCHANGED <<BLOOM, todo>>
    /\ UNCHANGED <<GUARD_STATE, reports, live_blocks, heap, observed>>

\* A saturated counter stays where it is.
BloomAdd(t) ==
    /\ pc[t] = "add"
    /\ \/ \E s \in todo[t] :
            /\ BLOOM' = [BLOOM EXCEPT ![s] = IF @ = Max THEN @ ELSE @ + 1]
            /\ todo' = [todo EXCEPT ![t] = @ \ {s}]
            /\ UNCHANGED <<owned, pc, caller>>
       \/ todo[t] = {} /\ Return(t) /\ UNCHANGED <<BLOOM, todo>>
    /\ UNCHANGED <<GUARD_STATE, reports, live_blocks, heap, observed>>

-----------------------------------------------------------------------------
(* guard_on.                                                               *)

\* What the caller of guard_on does with the answer.
Answer(t, on) ==
    IF pc[t] \in {"alloc_guard", "alloc_decide", "alloc_on"}
    THEN IF on
         THEN /\ Goto(t, "add")
              /\ todo' = [todo EXCEPT ![t] = Hash[arg[t]]]
              /\ UNCHANGED owned
         ELSE Return(t) /\ UNCHANGED todo
    ELSE /\ Goto(t, IF on THEN "check" ELSE "free")
         /\ todo' = [todo EXCEPT ![t] = IF on THEN Hash[arg[t]] ELSE {}]
         /\ UNCHANGED owned

\* Mutant: a store where the code compares and exchanges.
GuardOn_NoClaim(t) ==
    /\ pc[t] \in {"alloc_guard", "free_guard"}
    /\ \/ /\ GUARD_STATE \in {1, 2}
          /\ Answer(t, GUARD_STATE = 1)
          /\ UNCHANGED GUARD_STATE
       \/ /\ GUARD_STATE \in {0, 3}
          /\ GUARD_STATE' = 3
          /\ Goto(t, IF pc[t] = "alloc_guard" THEN "alloc_decide" ELSE "free_decide")
          /\ UNCHANGED <<owned, todo>>
    /\ UNCHANGED <<reports, BLOOM, live_blocks, heap, observed>>

GuardOn(t) ==
    /\ pc[t] \in {"alloc_guard", "free_guard"}
    /\ \/ /\ GUARD_STATE \in {1, 2}
          /\ Answer(t, GUARD_STATE = 1)
          /\ UNCHANGED GUARD_STATE
       \/ /\ GUARD_STATE = 0
          /\ GUARD_STATE' = 3
          /\ Goto(t, IF pc[t] = "alloc_guard" THEN "alloc_decide" ELSE "free_decide")
          /\ UNCHANGED <<owned, todo>>
    /\ UNCHANGED <<reports, BLOOM, live_blocks, heap, observed>>

\* Another thread is deciding: spin_loop.
Spin(t) ==
    /\ pc[t] \in {"alloc_guard", "free_guard"}
    /\ GUARD_STATE = 3
    /\ UNCHANGED vars

\* guard_on_env() finds NM2_PROTECT_HEAP set: the leak report is registered.
RegisterReport(t) ==
    /\ pc[t] \in {"alloc_decide", "free_decide"}
    /\ reports' = reports + 1
    /\ Goto(t, IF pc[t] = "alloc_decide" THEN "alloc_on" ELSE "free_on")
    /\ UNCHANGED <<GUARD_STATE, BLOOM, live_blocks, heap, owned, todo, observed>>

\* Mutant: the claim is not released when the guard is off.
Decide_KeepsClaim(t) ==
    /\ \/ /\ pc[t] \in {"alloc_decide", "free_decide"}
          /\ Answer(t, FALSE)
          /\ UNCHANGED GUARD_STATE
       \/ /\ pc[t] \in {"alloc_on", "free_on"}
          /\ GUARD_STATE' = 1
          /\ Answer(t, TRUE)
    /\ UNCHANGED <<reports, BLOOM, live_blocks, heap, observed>>

\* The decision is stored: off when the variable is not set, on after the
\* registration.
Decide(t) ==
    /\ \/ /\ pc[t] \in {"alloc_decide", "free_decide"}
          /\ GUARD_STATE' = 2
          /\ Answer(t, FALSE)
       \/ /\ pc[t] \in {"alloc_on", "free_on"}
          /\ GUARD_STATE' = 1
          /\ Answer(t, TRUE)
    /\ UNCHANGED <<reports, BLOOM, live_blocks, heap, observed>>

-----------------------------------------------------------------------------
(* nm2_free.                                                               *)

\* The program gives back a pointer it owns, or by mistake one it does not;
\* after an undefined HeapFree no further mistake is followed.
CallFree(t) ==
    /\ pc[t] = "idle"
    /\ \E p \in owned \cup (IF corrupted = {} THEN Faulty ELSE {}) :
         /\ arg' = [arg EXCEPT ![t] = p]
         /\ rightful' = [rightful EXCEPT ![t] = p \in owned]
         /\ owned' = owned \ {p}
    /\ pc' = [pc EXCEPT ![t] = "free_guard"]
    /\ UNCHANGED <<shared, live_blocks, heap, todo, observed>>

\* bloom_remove, first loop: one slot that reads zero refuses the free.
BloomCheck(t) ==
    /\ pc[t] = "check"
    /\ \/ \E s \in todo[t] :
            \/ /\ BLOOM[s] = 0
               /\ Finish(t)
               /\ todo' = [todo EXCEPT ![t] = {}]
               /\ blocked' = IF rightful[t] THEN blocked \cup {arg[t]} ELSE blocked
            \/ /\ BLOOM[s] # 0
               /\ todo' = [todo EXCEPT ![t] = @ \ {s}]
               /\ UNCHANGED <<pc, caller, blocked>>
       \/ /\ todo[t] = {}
          /\ Goto(t, "dec")
          /\ todo' = [todo EXCEPT ![t] = Hash[arg[t]]]
          /\ UNCHANGED blocked
    /\ UNCHANGED <<shared, live_blocks, heap, owned, corrupted>>

\* Mutant: a saturated counter is decremented like any other.
BloomDec_Saturated(t) ==
    /\ pc[t] = "dec"
    /\ \/ \E s \in todo[t] :
            /\ BLOOM' = [BLOOM EXCEPT ![s] = IF @ = 0 THEN @ ELSE @ - 1]
            /\ todo' = [todo EXCEPT ![t] = @ \ {s}]
            /\ UNCHANGED <<pc, caller>>
       \/ todo[t] = {} /\ Goto(t, "free") /\ UNCHANGED <<BLOOM, todo>>
    /\ UNCHANGED <<GUARD_STATE, reports, live_blocks, heap, owned, observed>>

\* bloom_remove, second loop.
BloomDec(t) ==
    /\ pc[t] = "dec"
    /\ \/ \E s \in todo[t] :
            /\ BLOOM' = [BLOOM EXCEPT ![s] = IF @ \in {0, Max} THEN @ ELSE @ - 1]
            /\ todo' = [todo EXCEPT ![t] = @ \ {s}]
            /\ UNCHANGED <<pc, caller>>
       \/ todo[t] = {} /\ Goto(t, "free") /\ UNCHANGED <<BLOOM, todo>>
    /\ UNCHANGED <<GUARD_STATE, reports, live_blocks, heap, owned, observed>>

\* imp::usable_size and imp::free; what HeapFree does with a pointer that is
\* not allocated is undefined.
HeapFree(t) ==
    /\ pc[t] = "free"
    /\ heap' = heap \ {arg[t]}
    /\ corrupted' = IF arg[t] \in heap THEN corrupted ELSE corrupted \cup {arg[t]}
    /\ Goto(t, "record_free")
    /\ UNCHANGED <<shared, live_blocks, owned, todo, blocked>>

\* Mutant: the block is not taken off the live count.
RecordFree_Forgotten(t) ==
    /\ pc[t] = "record_free"
    /\ Finish(t)
    /\ UNCHANGED <<shared, live_blocks, heap, owned, todo, observed>>

RecordFree(t) ==
    /\ pc[t] = "record_free"
    /\ live_blocks' = live_blocks - 1
    /\ Finish(t)
    /\ UNCHANGED <<shared, heap, owned, todo, observed>>

\* The steps of a call under way: a thread that entered the heap goes on.
Call(t) ==
    \/ RecordAlloc(t) \/ BloomAdd(t)
    \/ GuardOn(t) \/ RegisterReport(t) \/ Decide(t)
    \/ BloomCheck(t) \/ BloomDec(t) \/ HeapFree(t) \/ RecordFree(t)

Next == \E t \in Thread : HeapAlloc(t) \/ CallFree(t) \/ Call(t) \/ Spin(t)

Spec == Init /\ [][Next]_vars

\* The operating system schedules every thread.
FairSpec == Spec /\ \A t \in Thread : WF_vars(Call(t))

-----------------------------------------------------------------------------
(* Properties.                                                             *)

TypeOK ==
    /\ GUARD_STATE \in 0..3
    /\ reports \in Nat
    /\ BLOOM \in [Slot -> 0..Max]
    /\ live_blocks \in Int
    /\ heap \subseteq Ptr /\ owned \subseteq Ptr
    /\ pc \in [Thread -> {"idle", "record_alloc", "alloc_guard", "alloc_decide", "alloc_on",
                          "add", "free_guard", "free_decide", "free_on", "check", "dec",
                          "free", "record_free"}]
    /\ arg \in [Thread -> Ptr]
    /\ todo \in [Thread -> SUBSET Slot]
    /\ rightful \in [Thread -> BOOLEAN]
    /\ blocked \subseteq Ptr /\ corrupted \subseteq Ptr

Live(s) == {p \in owned : s \in Hash[p]}

Least(a, b) == IF a < b THEN a ELSE b

\* Slots that only pointers the program handles correctly hash to.
SoundSlots == Slot \ UNION {Hash[p] : p \in Faulty}

\* No counter is below the number of live pointers that hash to its slot,
\* whatever additions, checks and removals of other threads are under way; a
\* saturated slot counts as enough.  Erroneous frees of a pointer disturb
\* only the slots of that pointer.  (A counter also stays within its byte:
\* TypeOK.)
NeverUndercounts ==
    /\ TypeOK
    /\ GUARD_STATE = 1 =>
        \A s \in SoundSlots : BLOOM[s] >= Least(Max, Cardinality(Live(s)))

\* The guard never refuses the free of a pointer the program owns, unless the
\* program also mishandled a pointer that shares a slot with it.
NeverBlocksCorrectFree ==
    \A p \in blocked : ~ Hash[p] \subseteq SoundSlots

\* When no call is under way, a sound counter that never saturated is exactly
\* the number of live pointers of its slot, and the leak report counts
\* exactly the blocks of the heap.  A pointer whose free was refused is still
\* counted, in the heap and in all its slots.
ExactWhenQuiet ==
    (\A t \in Thread : pc[t] = "idle") =>
        /\ heap \ Faulty = (owned \cup blocked) \ Faulty
        /\ corrupted = {} => live_blocks = Cardinality(heap)
        /\ GUARD_STATE = 1 =>
             \A s \in SoundSlots :
                 BLOOM[s] \in {Max, Cardinality({p \in owned \cup blocked : s \in Hash[p]})}

\* The leak report is registered exactly once by the time the guard is on,
\* never if it is off, and never twice, however many threads race to decide.
ReportedOnce ==
    /\ reports \in {0, 1}
    /\ GUARD_STATE = 1 => reports = 1
    /\ GUARD_STATE \in {0, 2} => reports = 0

\* Every call of nm2_alloc and nm2_free returns: no thread spins for ever on
\* a decision that another one claimed.
CallsReturn == \A t \in Thread : pc[t] # "idle" ~> pc[t] = "idle"

=============================================================================
