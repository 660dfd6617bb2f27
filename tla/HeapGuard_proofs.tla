-------------------------- MODULE HeapGuard_proofs --------------------------
(***************************************************************************)
(* The heap guard for any number of threads, pointers and slots, and any   *)
(* hash: a counter of a sound slot is, until it saturates, exactly the     *)
(* number of pointers that hold it, whatever calls are under way.          *)
(***************************************************************************)
EXTENDS HeapGuard, FiniteSetTheorems, TLAPS

AllocPcs == {"record_alloc", "alloc_guard", "alloc_decide", "alloc_on", "add"}
FreePcs  == {"free_guard", "free_decide", "free_on", "check", "dec", "free"}
Deciding == {"alloc_decide", "free_decide", "alloc_on", "free_on"}

(* The decision about the guard is claimed by one thread, and nothing is
   counted before it fell.                                                 *)
Decision ==
    /\ ReportedOnce
    /\ \A t \in Thread : /\ pc[t] \in {"alloc_decide", "free_decide"} => reports = 0
                         /\ pc[t] \in {"alloc_on", "free_on"} => reports = 1
    /\ \A t \in Thread : pc[t] \in Deciding => GUARD_STATE = 3
    /\ \A t, u \in Thread : pc[t] \in Deciding /\ pc[u] \in Deciding => t = u
    /\ \A t \in Thread : pc[t] \in {"add", "check", "dec"} =>
           GUARD_STATE = 1 /\ todo[t] \subseteq Hash[arg[t]]
    /\ GUARD_STATE # 1 => \A s \in Slot : BLOOM[s] = 0
    /\ GUARD_STATE \in {0, 3} =>
         /\ owned = {} /\ blocked = {}
         /\ \A t \in Thread : pc[t] \in FreePcs => arg[t] \in Faulty

(* A call that has the pointer in its hands, from HeapAlloc until it is
   returned to the program, or from nm2_free to HeapFree.                  *)
Handles(t, p) == arg[t] = p /\ pc[t] \in AllocPcs \cup FreePcs

(* A pointer the program handles correctly is in one place: owned by the
   program, refused, or in the hands of one call.                          *)
OnePlace ==
    \A p \in Ptr \ Faulty :
        /\ p \in heap <=> p \in owned \cup blocked \/ \E t \in Thread : Handles(t, p)
        /\ p \in owned => p \notin blocked
        /\ p \in owned \cup blocked => \A t \in Thread : ~ Handles(t, p)
        /\ \A t, u \in Thread : Handles(t, p) /\ Handles(u, p) => t = u
        /\ \A t \in Thread : arg[t] = p /\ pc[t] \in FreePcs => rightful[t]

(* The call of t has p counted in slot s: added already, or not yet removed. *)
Counted(t, p, s) ==
    /\ arg[t] = p
    /\ \/ pc[t] = "add" /\ s \notin todo[t]
       \/ pc[t] \in {"free_guard", "free_decide", "free_on", "check"}
       \/ pc[t] = "dec" /\ s \in todo[t]

Holds(p, s) == p \in owned \cup blocked \/ \E t \in Thread : Counted(t, p, s)
Holders(s) == {p \in Ptr : s \in Hash[p] /\ Holds(p, s)}

Exact == GUARD_STATE = 1 => \A s \in SoundSlots : BLOOM[s] \in {Max, Cardinality(Holders(s))}

(* The statistics: blocks that are allocated and not recorded yet, or freed
   and still recorded, belong to calls between the two steps.              *)
At(l) == {t \in Thread : pc[t] = l}
Statistics ==
    /\ IsFiniteSet(At("record_alloc")) /\ IsFiniteSet(At("record_free"))
    /\ corrupted = {} => live_blocks + Cardinality(At("record_alloc"))
                             = Cardinality(heap) + Cardinality(At("record_free"))

IInv == TypeOK /\ Decision /\ OnePlace /\ Exact /\ Statistics /\ NeverBlocksCorrectFree

-----------------------------------------------------------------------------
(* Every variable of the heap and of its callers keeps its type; a counter
   of the filter stays within 0..Max.                                      *)
LEMMA AnswerType ==
    ASSUME TypeOK, NEW t \in Thread, NEW on \in BOOLEAN, Answer(t, on)
    PROVE  /\ owned' \subseteq Ptr
           /\ pc' \in [Thread -> {"idle", "record_alloc", "alloc_guard", "alloc_decide",
                                  "alloc_on", "add", "free_guard", "free_decide",
                                  "free_on", "check", "dec", "free", "record_free"}]
           /\ arg' \in [Thread -> Ptr]
           /\ todo' \in [Thread -> SUBSET Slot]
           /\ rightful' \in [Thread -> BOOLEAN]
<1> USE GuardAssumption DEF GuardAssumption, TypeOK
<1> AnyPtr \in Ptr
  BY DEF AnyPtr
<1>1. CASE pc[t] \in {"alloc_guard", "alloc_decide", "alloc_on"} /\ ~ on
  <2>1. Return(t) /\ UNCHANGED todo
    BY <1>1 DEF Answer
  <2>2. rightful' = [rightful EXCEPT ![t] = FALSE]
    BY <2>1 DEF Return, Finish
  <2>3. rightful' \in [Thread -> BOOLEAN]
    BY <2>2
  <2> QED BY <2>1, <2>3 DEF Return, Finish
<1>2. CASE on \/ pc[t] \notin {"alloc_guard", "alloc_decide", "alloc_on"}
  BY <1>2 DEF Answer, Goto, caller
<1> QED BY <1>1, <1>2

LEMMA TypeStep ==
    ASSUME TypeOK, [Next]_vars
    PROVE  TypeOK'
<1> USE GuardAssumption DEF GuardAssumption, TypeOK, Goto, shared, caller, observed
<1> AnyPtr \in Ptr
  BY DEF AnyPtr
<1>1. ASSUME NEW t \in Thread, HeapAlloc(t) \/ CallFree(t) \/ Call(t) \/ Spin(t) PROVE TypeOK'
  <2>1. CASE HeapAlloc(t) BY <2>1 DEF HeapAlloc
  <2>2. CASE CallFree(t) BY <2>2 DEF CallFree
  <2>3. CASE RecordAlloc(t) BY <2>3 DEF RecordAlloc
  <2>4. CASE BloomAdd(t)
    <3>1. CASE todo[t] = {} /\ Return(t) /\ UNCHANGED <<BLOOM, todo>>
      BY <2>4, <3>1 DEF BloomAdd, Return, Finish
    <3>2. CASE \E s \in todo[t] :
                 /\ BLOOM' = [BLOOM EXCEPT ![s] = IF @ = Max THEN @ ELSE @ + 1]
                 /\ todo' = [todo EXCEPT ![t] = @ \ {s}]
                 /\ UNCHANGED <<owned, pc, caller>>
      BY <2>4, <3>2 DEF BloomAdd
    <3> QED BY <2>4, <3>1, <3>2 DEF BloomAdd
  <2>5. CASE GuardOn(t)
    <3>1. CASE GUARD_STATE \in {1, 2} /\ Answer(t, GUARD_STATE = 1) /\ UNCHANGED GUARD_STATE
      BY <2>5, <3>1, AnswerType DEF GuardOn
    <3>2. CASE GUARD_STATE = 0
      BY <2>5, <3>2 DEF GuardOn
    <3> QED BY <2>5, <3>1, <3>2 DEF GuardOn
  <2>6. CASE Decide(t)
    <3>1. PICK on \in BOOLEAN : Answer(t, on) /\ GUARD_STATE' \in {1, 2}
      BY <2>6, Zenon DEF Decide
    <3> QED BY <2>6, <3>1, AnswerType DEF Decide
  <2>7. CASE BloomCheck(t)
    <3>1. \/ Finish(t) /\ todo' = [todo EXCEPT ![t] = {}]
          \/ /\ pc' \in {pc, [pc EXCEPT ![t] = "dec"]}
             /\ UNCHANGED caller
             /\ \/ \E s \in todo[t] : todo' = [todo EXCEPT ![t] = @ \ {s}]
                \/ todo' = [todo EXCEPT ![t] = Hash[arg[t]]]
      BY <2>7 DEF BloomCheck
    <3>2. blocked' \in {blocked, blocked \cup {arg[t]}}
      BY <2>7 DEF BloomCheck
    <3>3. UNCHANGED <<shared, live_blocks, heap, owned, corrupted>>
      BY <2>7 DEF BloomCheck
    <3>4. arg[t] \in Ptr /\ Hash[arg[t]] \subseteq Slot /\ todo[t] \subseteq Slot
      OBVIOUS
    <3>5. CASE Finish(t) /\ todo' = [todo EXCEPT ![t] = {}]
      BY <3>2, <3>3, <3>5 DEF Finish
    <3>6. CASE /\ pc' \in {pc, [pc EXCEPT ![t] = "dec"]}
               /\ UNCHANGED caller
               /\ \/ \E s \in todo[t] : todo' = [todo EXCEPT ![t] = @ \ {s}]
                  \/ todo' = [todo EXCEPT ![t] = Hash[arg[t]]]
      <4>1. todo' \in [Thread -> SUBSET Slot]
        BY <3>4, <3>6
      <4>2. pc' \in [Thread -> {"idle", "record_alloc", "alloc_guard", "alloc_decide",
                               "alloc_on", "add", "free_guard", "free_decide",
                               "free_on", "check", "dec", "free", "record_free"}]
        BY <3>6
      <4> QED BY <3>2, <3>3, <3>4, <3>6, <4>1, <4>2
    <3> QED BY <3>1, <3>5, <3>6
  <2>8. CASE BloomDec(t) BY <2>8 DEF BloomDec
  <2>9. CASE HeapFree(t) BY <2>9 DEF HeapFree
  <2>10. CASE RecordFree(t) BY <2>10 DEF RecordFree, Finish
  <2>11. CASE Spin(t) BY <2>11 DEF Spin, vars
  <2>12. CASE RegisterReport(t) BY <2>12 DEF RegisterReport
  <2> QED BY <1>1, <2>1, <2>2, <2>3, <2>4, <2>5, <2>6, <2>7, <2>8, <2>9, <2>10, <2>11, <2>12
          DEF Call
<1>2. CASE UNCHANGED vars BY <1>2 DEF vars
<1> QED BY <1>1, <1>2 DEF Next

(* One thread decides, and the filter is untouched until it did.          *)
LEMMA DecisionStep ==
    ASSUME TypeOK, Decision, [Next]_vars
    PROVE  Decision'
<1> USE GuardAssumption DEF GuardAssumption, TypeOK, Decision, ReportedOnce, Deciding, FreePcs, Goto, shared, caller, observed
<1>1. ASSUME NEW t \in Thread, HeapAlloc(t) \/ CallFree(t) \/ Call(t) \/ Spin(t) PROVE Decision'
  <2>1. CASE HeapAlloc(t) BY <2>1 DEF HeapAlloc
  <2>2. CASE CallFree(t) BY <2>2 DEF CallFree
  <2>3. CASE RecordAlloc(t) BY <2>3 DEF RecordAlloc
  <2>4. CASE BloomAdd(t) BY <2>4 DEF BloomAdd, Return, Finish
  <2>5. CASE GuardOn(t) BY <2>5 DEF GuardOn, Answer, Return, Finish
  <2>6. CASE Decide(t) BY <2>6 DEF Decide, Answer, Return, Finish
  <2>7. CASE BloomCheck(t) BY <2>7 DEF BloomCheck, Finish
  <2>8. CASE BloomDec(t) BY <2>8 DEF BloomDec
  <2>9. CASE HeapFree(t) BY <2>9 DEF HeapFree
  <2>10. CASE RecordFree(t) BY <2>10 DEF RecordFree, Finish
  <2>11. CASE Spin(t) BY <2>11 DEF Spin, vars
  <2>12. CASE RegisterReport(t) BY <2>12 DEF RegisterReport
  <2> QED BY <1>1, <2>1, <2>2, <2>3, <2>4, <2>5, <2>6, <2>7, <2>8, <2>9, <2>10, <2>11, <2>12
          DEF Call
<1>2. CASE UNCHANGED vars BY <1>2 DEF vars
<1> QED BY <1>1, <1>2 DEF Next

(* Every step moves a pointer from one place to the next.                 *)
LEMMA OnePlaceStep ==
    ASSUME TypeOK, Decision, OnePlace, [Next]_vars
    PROVE  OnePlace'
<1> USE GuardAssumption DEF GuardAssumption, TypeOK, Decision, OnePlace, Handles, AllocPcs, FreePcs, Goto, shared, caller, observed
<1>1. ASSUME NEW t \in Thread, HeapAlloc(t) \/ CallFree(t) \/ Call(t) \/ Spin(t) PROVE OnePlace'
  <2>m. ASSUME NEW l, pc' = [pc EXCEPT ![t] = l],
               UNCHANGED <<arg, rightful, owned, heap, blocked>>,
               pc[t] \in AllocPcs <=> l \in AllocPcs, pc[t] \in FreePcs <=> l \in FreePcs
        PROVE  OnePlace'
    <3>1. \A u \in Thread : /\ pc'[u] \in AllocPcs <=> pc[u] \in AllocPcs
                            /\ pc'[u] \in FreePcs <=> pc[u] \in FreePcs
      <4> HIDE DEF AllocPcs, FreePcs
      <4> QED BY <2>m
    <3> HIDE DEF AllocPcs, FreePcs
    <3>2. \A u \in Thread : \A p : Handles(u, p)' <=> Handles(u, p)
      BY <2>m, <3>1
    <3> QED BY <2>m, <3>1, <3>2
  <2>1. CASE HeapAlloc(t) BY <2>1 DEF HeapAlloc
  <2>2. CASE CallFree(t)
    <3>1. PICK p \in owned \cup Faulty :
             /\ arg' = [arg EXCEPT ![t] = p]
             /\ rightful' = [rightful EXCEPT ![t] = p \in owned]
             /\ owned' = owned \ {p}
      BY <2>2 DEF CallFree
    <3>2. pc[t] = "idle" /\ pc' = [pc EXCEPT ![t] = "free_guard"]
          /\ heap' = heap /\ blocked' = blocked
      BY <2>2 DEF CallFree
    <3>3. \A u \in Thread \ {t} : arg'[u] = arg[u] /\ pc'[u] = pc[u] /\ rightful'[u] = rightful[u]
      BY <3>1, <3>2
    <3>4. arg'[t] = p /\ pc'[t] = "free_guard"
      BY <3>1, <3>2
    <3>8. ASSUME p \in owned PROVE rightful'[t]
      <4>1. rightful'[t] = (p \in owned)
        BY <3>1
      <4>2. (p \in owned) = TRUE
        BY <3>8
      <4> QED BY <4>1, <4>2
    <3>5. SUFFICES ASSUME NEW q \in Ptr \ Faulty
                   PROVE  /\ q \in heap' <=> q \in owned' \cup blocked' \/ \E u \in Thread : Handles(u, q)'
                          /\ q \in owned' => q \notin blocked'
                          /\ q \in owned' \cup blocked' => \A u \in Thread : ~ Handles(u, q)'
                          /\ \A u, v \in Thread : Handles(u, q)' /\ Handles(v, q)' => u = v
                          /\ \A u \in Thread : arg'[u] = q /\ pc'[u] \in FreePcs => rightful'[u]
      BY DEF OnePlace
    <3>6. CASE p = q
      BY <3>1, <3>2, <3>3, <3>4, <3>6, <3>8
    <3>7. CASE p # q
      BY <3>1, <3>2, <3>3, <3>4, <3>7
    <3> QED BY <3>6, <3>7
  <2>3. CASE RecordAlloc(t)
    <3>1. /\ pc[t] = "record_alloc" /\ pc' = [pc EXCEPT ![t] = "alloc_guard"]
          /\ UNCHANGED <<arg, rightful, owned, heap, blocked>>
      BY <2>3 DEF RecordAlloc
    <3> HIDE DEF OnePlace, TypeOK, Decision
    <3> QED BY <2>m, <3>1
  <2>4. CASE BloomAdd(t)
    <3>1. CASE UNCHANGED <<owned, pc, caller>>
      BY <2>4, <3>1 DEF BloomAdd
    <3>2. CASE Return(t)
      BY <2>4, <3>2 DEF BloomAdd, Return, Finish
    <3> QED BY <2>4, <3>1, <3>2 DEF BloomAdd
  <2>5. CASE GuardOn(t) BY <2>5 DEF GuardOn, Answer, Return, Finish
  <2>6. CASE Decide(t) BY <2>6 DEF Decide, Answer, Return, Finish
  <2>7. CASE BloomCheck(t) BY <2>7 DEF BloomCheck, Finish
  <2>8. CASE BloomDec(t) BY <2>8 DEF BloomDec
  <2>9. CASE HeapFree(t) BY <2>9 DEF HeapFree
  <2>10. CASE RecordFree(t) BY <2>10 DEF RecordFree, Finish
  <2>11. CASE Spin(t) BY <2>11 DEF Spin, vars
  <2>12. CASE RegisterReport(t) BY <2>12, <2>m DEF RegisterReport
  <2> QED BY <1>1, <2>1, <2>2, <2>3, <2>4, <2>5, <2>6, <2>7, <2>8, <2>9, <2>10, <2>11, <2>12
          DEF Call
<1>2. CASE UNCHANGED vars BY <1>2 DEF vars
<1> QED BY <1>1, <1>2 DEF Next

-----------------------------------------------------------------------------
(* The pointers that hash to a sound slot are handled correctly, and their
   number is a number.                                                     *)
LEMMA SoundPtr ==
    ASSUME NEW s \in SoundSlots, NEW p \in Ptr, s \in Hash[p]
    PROVE  p \in Ptr \ Faulty
BY GuardAssumption DEF GuardAssumption, SoundSlots

LEMMA HoldersFinite ==
    ASSUME NEW s
    PROVE  IsFiniteSet(Holders(s)) /\ Cardinality(Holders(s)) \in Nat
<1>1. Holders(s) \in SUBSET Ptr
  BY DEF Holders
<1>2. IsFiniteSet(Holders(s))
  BY <1>1, FS_Subset, GuardAssumption DEF GuardAssumption
<1> QED BY <1>2, FS_CardinalityType

(* A step that changes neither the counters nor who holds a slot.          *)
LEMMA SameHolders ==
    ASSUME Exact, GUARD_STATE' = GUARD_STATE, BLOOM' = BLOOM,
           \A s \in SoundSlots : \A p \in Ptr \ Faulty : s \in Hash[p] =>
               (Holds(p, s)' <=> Holds(p, s))
    PROVE  Exact'
<1>1. ASSUME NEW s \in SoundSlots PROVE Holders(s)' = Holders(s)
  BY SoundPtr DEF Holders
<1> QED BY <1>1 DEF Exact

(* Who holds a slot, and a counter that is not the number of its holders is
   stuck at Max.                                                           *)
LEMMA ExactStep ==
    ASSUME TypeOK, Decision, OnePlace, Exact, [Next]_vars
    PROVE  Exact'
<1> USE GuardAssumption DEF GuardAssumption, Goto, shared, caller, observed
<1> DEFINE Same == \A s \in SoundSlots : \A p \in Ptr \ Faulty : s \in Hash[p] =>
                       (Holds(p, s)' <=> Holds(p, s))
<1>1. ASSUME NEW t \in Thread, HeapAlloc(t) \/ CallFree(t) \/ Call(t) \/ Spin(t) PROVE Exact'
  <2>1. CASE HeapAlloc(t)
    <3>1. Same BY <2>1 DEF HeapAlloc, TypeOK, Holds, Counted
    <3> QED BY <2>1, <3>1, SameHolders DEF HeapAlloc
  <2>2. CASE CallFree(t)
    <3>1. Same BY <2>2 DEF CallFree, TypeOK, Holds, Counted
    <3> QED BY <2>2, <3>1, SameHolders DEF CallFree
  <2>3. CASE RecordAlloc(t)
    <3>1. Same BY <2>3 DEF RecordAlloc, TypeOK, Holds, Counted
    <3> QED BY <2>3, <3>1, SameHolders DEF RecordAlloc
  <2>4. CASE BloomAdd(t)
    <3>1. CASE todo[t] = {} /\ Return(t) /\ UNCHANGED <<BLOOM, todo>>
      <4>1. Same BY <2>4, <3>1 DEF BloomAdd, Return, Finish, TypeOK, Holds, Counted
      <4> QED BY <2>4, <3>1, <4>1, SameHolders DEF BloomAdd
    <3>2. CASE \E x \in todo[t] :
                 /\ BLOOM' = [BLOOM EXCEPT ![x] = IF @ = Max THEN @ ELSE @ + 1]
                 /\ todo' = [todo EXCEPT ![t] = @ \ {x}]
                 /\ UNCHANGED <<owned, pc, caller>>
      <4>1. PICK x \in todo[t] :
                 /\ BLOOM' = [BLOOM EXCEPT ![x] = IF @ = Max THEN @ ELSE @ + 1]
                 /\ todo' = [todo EXCEPT ![t] = @ \ {x}]
                 /\ UNCHANGED <<owned, pc, caller>>
        BY <3>2
      <4>2. pc[t] = "add" /\ UNCHANGED <<GUARD_STATE, blocked>>
        BY <2>4 DEF BloomAdd
      <4>3. SUFFICES ASSUME NEW s \in SoundSlots, GUARD_STATE = 1
                     PROVE  BLOOM'[s] \in {Max, Cardinality(Holders(s)')}
        BY <4>2 DEF Exact
      <4>4. BLOOM[s] \in {Max, Cardinality(Holders(s))}
        BY <4>3 DEF Exact
      <4>5. CASE s # x
        <5>1. \A p \in Ptr : Holds(p, s)' <=> Holds(p, s)
          BY <4>1, <4>2, <4>5 DEF TypeOK, Holds, Counted
        <5>2. Holders(s)' = Holders(s)
          BY <5>1 DEF Holders
        <5>3. BLOOM'[s] = BLOOM[s]
          BY <4>1, <4>5 DEF TypeOK
        <5> QED BY <4>4, <5>2, <5>3
      <4>6. CASE s = x
        <5>1. arg[t] \in Ptr /\ s \in Hash[arg[t]]
          BY <4>1, <4>2, <4>6 DEF TypeOK, Decision
        <5>2. arg[t] \in Ptr \ Faulty
          BY <5>1, SoundPtr
        <5>3. ~ Holds(arg[t], s)
          BY <4>1, <4>2, <4>6, <5>2 DEF Holds, Counted, OnePlace, Handles, AllocPcs, FreePcs
        <5>4. \A p \in Ptr : Holds(p, s)' <=> Holds(p, s) \/ p = arg[t]
          BY <4>1, <4>2, <4>6 DEF TypeOK, Holds, Counted
        <5>5. Holders(s)' = Holders(s) \cup {arg[t]} /\ arg[t] \notin Holders(s)
          BY <5>1, <5>3, <5>4 DEF Holders
        <5>6. Cardinality(Holders(s)') = Cardinality(Holders(s)) + 1
          BY <5>5, HoldersFinite, FS_AddElement
        <5>7. BLOOM'[s] = IF BLOOM[s] = Max THEN BLOOM[s] ELSE BLOOM[s] + 1
          BY <4>1, <4>6 DEF TypeOK
        <5> QED BY <4>4, <5>6, <5>7
      <4> QED BY <4>5, <4>6
    <3> QED BY <2>4, <3>1, <3>2 DEF BloomAdd
  <2>5. CASE GuardOn(t)
    <3>1. CASE GUARD_STATE = 1
      <4>1. Same
        BY <2>5, <3>1 DEF GuardOn, Answer, Return, Finish, TypeOK, Holds, Counted
      <4> QED BY <2>5, <3>1, <4>1, SameHolders DEF GuardOn
    <3>2. CASE GUARD_STATE # 1
      BY <2>5, <3>2 DEF GuardOn, Exact
    <3> QED BY <3>1, <3>2
  <2>6. CASE Decide(t)
    <3>1. SUFFICES ASSUME NEW s \in SoundSlots, GUARD_STATE' = 1
                   PROVE  BLOOM'[s] \in {Max, Cardinality(Holders(s)')}
      BY DEF Exact
    <3>3. pc[t] \in {"alloc_on", "free_on"} /\ Answer(t, TRUE)
      <4>1. GUARD_STATE' # 2
        BY <3>1
      <4> QED BY <2>6, <4>1, Zenon DEF Decide
    <3>2. GUARD_STATE = 3 /\ BLOOM[s] = 0 /\ BLOOM' = BLOOM
      <4>1. pc[t] \in Deciding
        BY <3>3 DEF Deciding
      <4>2. GUARD_STATE = 3
        BY <4>1 DEF Decision
      <4>3. BLOOM' = BLOOM
        BY <2>6 DEF Decide
      <4> QED BY <4>2, <4>3 DEF Decision, SoundSlots
    <3>4. ASSUME NEW p \in Ptr, s \in Hash[p], Holds(p, s)' PROVE FALSE
      <4>1. p \notin Faulty
        BY <3>4, SoundPtr
      <4> QED BY <2>6, <3>2, <3>3, <3>4, <4>1
              DEF Decide, Answer, TypeOK, Decision, Deciding, FreePcs, Holds, Counted
    <3>5. Holders(s)' = {}
      BY <3>4 DEF Holders
    <3> QED BY <3>2, <3>5, FS_EmptySet
  <2>7. CASE BloomCheck(t)
    <3>1. Same
      BY <2>7 DEF BloomCheck, Finish, TypeOK, OnePlace, FreePcs, Holds, Counted
    <3> QED BY <2>7, <3>1, SameHolders DEF BloomCheck
  <2>8. CASE BloomDec(t)
    <3>1. CASE todo[t] = {} /\ Goto(t, "free") /\ UNCHANGED <<BLOOM, todo>>
      <4>1. Same BY <2>8, <3>1 DEF BloomDec, TypeOK, Holds, Counted
      <4> QED BY <2>8, <3>1, <4>1, SameHolders DEF BloomDec
    <3>2. CASE \E x \in todo[t] :
                 /\ BLOOM' = [BLOOM EXCEPT ![x] = IF @ \in {0, Max} THEN @ ELSE @ - 1]
                 /\ todo' = [todo EXCEPT ![t] = @ \ {x}]
                 /\ UNCHANGED <<pc, caller>>
      <4>1. PICK x \in todo[t] :
                 /\ BLOOM' = [BLOOM EXCEPT ![x] = IF @ \in {0, Max} THEN @ ELSE @ - 1]
                 /\ todo' = [todo EXCEPT ![t] = @ \ {x}]
                 /\ UNCHANGED <<pc, caller>>
        BY <3>2
      <4>2. pc[t] = "dec" /\ UNCHANGED <<GUARD_STATE, owned, blocked>>
        BY <2>8 DEF BloomDec
      <4>3. SUFFICES ASSUME NEW s \in SoundSlots, GUARD_STATE = 1
                     PROVE  BLOOM'[s] \in {Max, Cardinality(Holders(s)')}
        BY <4>2 DEF Exact
      <4>4. BLOOM[s] \in {Max, Cardinality(Holders(s))}
        BY <4>3 DEF Exact
      <4>5. CASE s # x
        <5>1. \A p \in Ptr : Holds(p, s)' <=> Holds(p, s)
          BY <4>1, <4>2, <4>5 DEF TypeOK, Holds, Counted
        <5>2. Holders(s)' = Holders(s)
          BY <5>1 DEF Holders
        <5>3. BLOOM'[s] = BLOOM[s]
          BY <4>1, <4>5 DEF TypeOK
        <5> QED BY <4>4, <5>2, <5>3
      <4>6. CASE s = x
        <5>1. arg[t] \in Ptr /\ s \in Hash[arg[t]]
          BY <4>1, <4>2, <4>6 DEF TypeOK, Decision
        <5>2. arg[t] \in Ptr \ Faulty
          BY <5>1, SoundPtr
        <5>3. Holds(arg[t], s)
          BY <4>1, <4>2, <4>6 DEF Holds, Counted
        <5>4. \A p \in Ptr : Holds(p, s)' <=> Holds(p, s) /\ p # arg[t]
          BY <4>1, <4>2, <4>6, <5>2
             DEF TypeOK, Holds, Counted, OnePlace, Handles, AllocPcs, FreePcs
        <5>5. Holders(s)' = Holders(s) \ {arg[t]} /\ arg[t] \in Holders(s)
          BY <5>1, <5>3, <5>4 DEF Holders
        <5>6. Cardinality(Holders(s)') = Cardinality(Holders(s)) - 1
          <6> DEFINE H == Holders(s)
          <6>1. IsFiniteSet(H) /\ arg[t] \in H /\ Holders(s)' = H \ {arg[t]}
            BY <5>5, HoldersFinite
          <6> HIDE DEF H
          <6>2. Cardinality(H \ {arg[t]}) = Cardinality(H) - 1
            BY <6>1, FS_RemoveElement
          <6> QED BY <6>1, <6>2 DEF H
        <5>7. BLOOM'[s] = IF BLOOM[s] \in {0, Max} THEN BLOOM[s] ELSE BLOOM[s] - 1
          BY <4>1, <4>6 DEF TypeOK
        <5>8. Cardinality(Holders(s)) # 0
          BY <5>5, HoldersFinite, FS_EmptySet
        <5> QED BY <4>4, <5>6, <5>7, <5>8
      <4> QED BY <4>5, <4>6
    <3> QED BY <2>8, <3>1, <3>2 DEF BloomDec
  <2>9. CASE HeapFree(t)
    <3>1. Same BY <2>9 DEF HeapFree, TypeOK, Holds, Counted
    <3> QED BY <2>9, <3>1, SameHolders DEF HeapFree
  <2>10. CASE RecordFree(t)
    <3>1. Same BY <2>10 DEF RecordFree, Finish, TypeOK, Holds, Counted
    <3> QED BY <2>10, <3>1, SameHolders DEF RecordFree
  <2>11. CASE Spin(t)
    <3>1. Same BY <2>11 DEF Spin, vars, Holds, Counted
    <3> QED BY <2>11, <3>1, SameHolders DEF Spin, vars
  <2>12. CASE RegisterReport(t)
    BY <2>12 DEF RegisterReport, Decision, Deciding, Exact
  <2> QED BY <1>1, <2>1, <2>2, <2>3, <2>4, <2>5, <2>6, <2>7, <2>8, <2>9, <2>10, <2>11, <2>12
          DEF Call
<1>2. CASE UNCHANGED vars
  <2>1. Same BY <1>2 DEF vars, Holds, Counted
  <2> QED BY <1>2, <2>1, SameHolders DEF vars
<1> QED BY <1>1, <1>2 DEF Next

(* The check of a slot that a pointer holds does not read zero.            *)
LEMMA NeverBlocksStep ==
    ASSUME TypeOK, Decision, Exact, NeverBlocksCorrectFree, [Next]_vars
    PROVE  NeverBlocksCorrectFree'
<1>1. CASE blocked' \subseteq blocked
  BY <1>1 DEF NeverBlocksCorrectFree
<1>2. CASE \E t \in Thread : BloomCheck(t) /\ ~ blocked' \subseteq blocked
  <2>1. PICK t \in Thread : BloomCheck(t) /\ ~ blocked' \subseteq blocked
    BY <1>2
  <2>2. PICK s \in todo[t] : BLOOM[s] = 0 /\ blocked' = blocked \cup {arg[t]} /\ pc[t] = "check"
    BY <2>1 DEF BloomCheck
  <2>3. arg[t] \in Ptr /\ s \in Hash[arg[t]] /\ GUARD_STATE = 1
    BY <2>2 DEF TypeOK, Decision
  <2>4. ASSUME Hash[arg[t]] \subseteq SoundSlots PROVE FALSE
    <3>1. s \in SoundSlots
      BY <2>3, <2>4
    <3>2. arg[t] \in Holders(s)
      BY <2>2, <2>3 DEF Holders, Holds, Counted
    <3>3. Cardinality(Holders(s)) # 0
      BY <3>2, HoldersFinite, FS_EmptySet
    <3>4. BLOOM[s] \in {Max, Cardinality(Holders(s))}
      BY <2>3, <3>1 DEF Exact
    <3> QED BY <2>2, <3>3, <3>4, GuardAssumption DEF GuardAssumption
  <2> QED BY <2>2, <2>4 DEF NeverBlocksCorrectFree
<1>3. blocked' = blocked \/ \E t \in Thread : BloomCheck(t)
  BY DEF Next, HeapAlloc, CallFree, Call, RecordAlloc, BloomAdd, GuardOn, RegisterReport,
         Decide, BloomDec, HeapFree, RecordFree, Spin, vars, observed
<1> QED BY <1>1, <1>2, <1>3

(* The calls at one place when t goes to place l.                          *)
LEMMA AtGoto ==
    ASSUME TypeOK, NEW t \in Thread, NEW l, NEW m, pc' = [pc EXCEPT ![t] = l],
           IsFiniteSet(At(m))
    PROVE  /\ IsFiniteSet(At(m)')
           /\ m # l /\ pc[t] # m => At(m)' = At(m)
           /\ m = l /\ pc[t] # m => Cardinality(At(m)') = Cardinality(At(m)) + 1
           /\ m # l /\ pc[t] = m => Cardinality(At(m)') = Cardinality(At(m)) - 1
<1> DEFINE A == At(m)
<1>1. IsFiniteSet(A) /\ (t \in A <=> pc[t] = m)
  BY DEF At
<1>2. At(m)' = IF m = l THEN A \cup {t} ELSE A \ {t}
  BY DEF At, TypeOK
<1> HIDE DEF A
<1>3. /\ IsFiniteSet(A \cup {t}) /\ IsFiniteSet(A \ {t})
      /\ t \notin A => Cardinality(A \cup {t}) = Cardinality(A) + 1
      /\ t \in A => Cardinality(A \ {t}) = Cardinality(A) - 1
      /\ t \notin A => A \ {t} = A
  BY <1>1, FS_AddElement, FS_RemoveElement
<1> QED BY <1>1, <1>2, <1>3 DEF A

LEMMA StatisticsStep ==
    ASSUME TypeOK, Statistics, [Next]_vars
    PROVE  Statistics'
<1> USE DEF Statistics
<1> DEFINE A == Cardinality(At("record_alloc"))
           F == Cardinality(At("record_free"))
           H == Cardinality(heap)
<1>a. A \in Nat /\ F \in Nat /\ H \in Nat /\ IsFiniteSet(heap)
  BY FS_CardinalityType, FS_Subset, GuardAssumption DEF GuardAssumption, TypeOK
<1>1. ASSUME UNCHANGED <<heap, live_blocks, corrupted>>,
             At("record_alloc")' = At("record_alloc"), At("record_free")' = At("record_free")
      PROVE  Statistics'
  BY <1>1
<1>2. ASSUME UNCHANGED <<pc, heap, live_blocks, corrupted>> PROVE Statistics'
  BY <1>1, <1>2 DEF At
<1>3. ASSUME NEW t \in Thread, HeapAlloc(t) PROVE Statistics'
  <2>1. /\ IsFiniteSet(At("record_alloc")') /\ A' = A + 1
        /\ At("record_free")' = At("record_free")
    <3>1. /\ pc' = [pc EXCEPT ![t] = "record_alloc"]
          /\ pc[t] # "record_alloc" /\ pc[t] # "record_free" /\ "record_free" # "record_alloc"
      BY <1>3 DEF HeapAlloc
    <3> QED BY <3>1, AtGoto, Zenon
  <2>2. PICK p \in Ptr \ heap : heap' = heap \cup {p}
    BY <1>3 DEF HeapAlloc
  <2>3. H' = H + 1
    BY <1>a, <2>2, FS_AddElement
  <2>4. live_blocks' = live_blocks /\ corrupted' = corrupted
    BY <1>3 DEF HeapAlloc, observed
  <2> HIDE DEF A, F, H
  <2>5. F' = F
    BY <2>1 DEF F
  <2> QED BY <1>a, <2>1, <2>3, <2>4, <2>5 DEF TypeOK, A, F, H
<1>4. ASSUME NEW t \in Thread, RecordAlloc(t) PROVE Statistics'
  <2>1. /\ IsFiniteSet(At("record_alloc")') /\ A' = A - 1
        /\ At("record_free")' = At("record_free")
    <3>1. /\ pc' = [pc EXCEPT ![t] = "alloc_guard"]
          /\ pc[t] = "record_alloc" /\ pc[t] # "record_free"
          /\ "record_alloc" # "alloc_guard" /\ "record_free" # "alloc_guard"
      BY <1>4 DEF RecordAlloc, Goto
    <3> QED BY <3>1, AtGoto, Zenon
  <2>2. live_blocks' = live_blocks + 1 /\ corrupted' = corrupted /\ heap' = heap
    BY <1>4 DEF RecordAlloc, observed
  <2> QED BY <1>a, <2>1, <2>2 DEF TypeOK
<1>5. ASSUME NEW t \in Thread, HeapFree(t) PROVE Statistics'
  <2>1. /\ IsFiniteSet(At("record_free")') /\ F' = F + 1
        /\ At("record_alloc")' = At("record_alloc")
    <3>1. /\ pc' = [pc EXCEPT ![t] = "record_free"]
          /\ pc[t] # "record_alloc" /\ pc[t] # "record_free" /\ "record_alloc" # "record_free"
      BY <1>5 DEF HeapFree, Goto
    <3> QED BY <3>1, AtGoto, Zenon
  <2>2. heap' = heap \ {arg[t]} /\ live_blocks' = live_blocks
        /\ (corrupted' = {} => corrupted = {} /\ arg[t] \in heap)
    BY <1>5 DEF HeapFree
  <2>3. arg[t] \in heap => H' = H - 1
    BY <1>a, <2>2, FS_RemoveElement
  <2> QED BY <1>a, <2>1, <2>2, <2>3 DEF TypeOK
<1>6. ASSUME NEW t \in Thread, RecordFree(t) PROVE Statistics'
  <2>1. /\ IsFiniteSet(At("record_free")') /\ F' = F - 1
        /\ At("record_alloc")' = At("record_alloc")
    <3>1. /\ pc' = [pc EXCEPT ![t] = "idle"]
          /\ pc[t] # "record_alloc" /\ pc[t] = "record_free"
          /\ "record_alloc" # "idle" /\ "record_free" # "idle"
      BY <1>6 DEF RecordFree, Finish
    <3> QED BY <3>1, AtGoto, Zenon
  <2>2. live_blocks' = live_blocks - 1 /\ corrupted' = corrupted /\ heap' = heap
    BY <1>6 DEF RecordFree, observed
  <2> QED BY <1>a, <2>1, <2>2 DEF TypeOK
<1>7. ASSUME NEW t \in Thread, NEW l, pc' = [pc EXCEPT ![t] = l],
             "record_alloc" # l, "record_free" # l, pc[t] # "record_alloc", pc[t] # "record_free",
             UNCHANGED <<heap, live_blocks, corrupted>>
      PROVE  Statistics'
  <2>1. At("record_alloc")' = At("record_alloc") /\ At("record_free")' = At("record_free")
    BY <1>7, AtGoto, Zenon
  <2> QED BY <1>1, <1>7, <2>1
<1>8. ASSUME NEW t \in Thread, CallFree(t) \/ GuardOn(t) \/ RegisterReport(t) \/ Decide(t)
                               \/ BloomAdd(t) \/ BloomCheck(t) \/ BloomDec(t)
      PROVE  Statistics'
  <2>1. UNCHANGED <<heap, live_blocks, corrupted>>
        /\ pc[t] # "record_alloc" /\ pc[t] # "record_free"
    BY <1>8 DEF CallFree, GuardOn, RegisterReport, Decide, BloomAdd, BloomCheck, BloomDec, observed
  <2>2. pc' = pc \/ \E l \in {"idle", "alloc_decide", "alloc_on", "add", "free_guard",
                              "free_decide", "free_on", "check", "dec", "free"} : pc' = [pc EXCEPT ![t] = l]
    BY <1>8 DEF CallFree, GuardOn, RegisterReport, Decide, BloomAdd, BloomCheck, BloomDec, Answer, Return,
                Finish, Goto
  <2>3. CASE pc' = pc
    BY <1>2, <2>1, <2>3
  <2>4. ASSUME NEW l \in {"idle", "alloc_decide", "alloc_on", "add", "free_guard",
                          "free_decide", "free_on", "check", "dec", "free"}, pc' = [pc EXCEPT ![t] = l]
        PROVE  Statistics'
    <3>1. "record_alloc" # l /\ "record_free" # l
      BY <2>4
    <3> HIDE DEF Statistics
    <3> QED BY <1>7, <2>1, <2>4, <3>1, Zenon
  <2> QED BY <2>2, <2>3, <2>4
<1>9. ASSUME UNCHANGED vars PROVE Statistics'
  BY <1>2, <1>9 DEF vars
<1> QED BY <1>3, <1>4, <1>5, <1>6, <1>8, <1>9 DEF Next, Call, Spin

-----------------------------------------------------------------------------
(* Nothing is allocated when the program starts.                           *)
LEMMA InvInit == Init => IInv
<1> SUFFICES ASSUME Init PROVE IInv
  OBVIOUS
<1> USE GuardAssumption DEF GuardAssumption, Init
<1>1. TypeOK
  <2>1. AnyPtr \in Ptr
    BY DEF AnyPtr
  <2>2. rightful \in [Thread -> BOOLEAN]
    OBVIOUS
  <2> QED BY <2>1, <2>2 DEF TypeOK
<1>2. Decision /\ OnePlace /\ NeverBlocksCorrectFree
  BY DEF Decision, ReportedOnce, OnePlace, NeverBlocksCorrectFree, Handles, Deciding, AllocPcs, FreePcs
<1>3. \A s \in Slot : Holders(s) = {}
  BY DEF Holders, Holds, Counted
<1>4. Exact
  BY <1>3, FS_EmptySet DEF Exact, SoundSlots
<1>5. At("record_alloc") = {} /\ At("record_free") = {}
  BY DEF At
<1>6. Statistics
  BY <1>5, FS_EmptySet DEF Statistics
<1> QED BY <1>1, <1>2, <1>4, <1>6 DEF IInv

(* The invariant of nm2_alloc and nm2_free: a counter of a sound slot that
   is not stuck is the number of pointers that hold the slot, for any number
   of threads, pointers and slots, and any hash.                           *)
THEOREM Invariance == Spec => []IInv
<1>1. IInv /\ [Next]_vars => IInv'
  BY TypeStep, DecisionStep, OnePlaceStep, ExactStep, NeverBlocksStep, StatisticsStep DEF IInv
<1> QED BY <1>1, InvInit, PTL DEF Spec

(* No concurrent addition, check or removal leaves a counter below the number
   of live pointers of its slot (bloom_add, bloom_remove), and no counter
   leaves its byte.                                                        *)
THEOREM CountersCoverLive == Spec => []NeverUndercounts
<1>1. ASSUME IInv PROVE NeverUndercounts
  <2>1. ASSUME NEW s \in SoundSlots, GUARD_STATE = 1
        PROVE  BLOOM[s] >= Least(Max, Cardinality(Live(s)))
    <3>1. Live(s) \in SUBSET Holders(s)
      BY <1>1 DEF IInv, TypeOK, Live, Holders, Holds
    <3>2. IsFiniteSet(Live(s)) /\ Cardinality(Live(s)) <= Cardinality(Holders(s))
      BY <3>1, HoldersFinite, FS_Subset
    <3>3. Cardinality(Live(s)) \in Nat /\ Cardinality(Holders(s)) \in Nat
      BY <3>2, HoldersFinite, FS_CardinalityType
    <3>4. BLOOM[s] \in {Max, Cardinality(Holders(s))}
      BY <1>1, <2>1 DEF IInv, Exact
    <3> QED BY <3>2, <3>3, <3>4, GuardAssumption DEF GuardAssumption, Least
  <2> QED BY <1>1, <2>1 DEF NeverUndercounts, IInv
<1> QED BY <1>1, Invariance, PTL

(* nm2_free never refuses a pointer the program owns, unless the program
   mishandled another pointer of one of its slots.                         *)
THEOREM CorrectFreesPass == Spec => []NeverBlocksCorrectFree
<1>1. IInv => NeverBlocksCorrectFree
  BY DEF IInv
<1> QED BY <1>1, Invariance, PTL

(* The leak report of the guard is exact when no call is under way: the
   filter, the operating system's heap and the statistics agree.           *)
THEOREM LeakReportExact == Spec => []ExactWhenQuiet
<1>1. ASSUME IInv, \A t \in Thread : pc[t] = "idle"
      PROVE  /\ heap \ Faulty = (owned \cup blocked) \ Faulty
             /\ corrupted = {} => live_blocks = Cardinality(heap)
             /\ GUARD_STATE = 1 =>
                  \A s \in SoundSlots :
                      BLOOM[s] \in {Max, Cardinality({p \in owned \cup blocked : s \in Hash[p]})}
  <2>1. heap \ Faulty = (owned \cup blocked) \ Faulty
    BY <1>1 DEF IInv, TypeOK, OnePlace, Handles, AllocPcs, FreePcs
  <2>2. At("record_alloc") = {} /\ At("record_free") = {}
    BY <1>1 DEF At
  <2>3. Cardinality(heap) \in Nat
    BY <1>1, FS_Subset, FS_CardinalityType, GuardAssumption DEF GuardAssumption, IInv, TypeOK
  <2>4. corrupted = {} => live_blocks = Cardinality(heap)
    BY <1>1, <2>2, <2>3, FS_EmptySet DEF IInv, Statistics, TypeOK
  <2>5. \A s \in SoundSlots : Holders(s) = {p \in owned \cup blocked : s \in Hash[p]}
    BY <1>1 DEF IInv, TypeOK, Holders, Holds, Counted
  <2> QED BY <1>1, <2>1, <2>4, <2>5 DEF IInv, Exact
<1>2. IInv => ExactWhenQuiet
  BY <1>1 DEF ExactWhenQuiet
<1> QED BY <1>2, Invariance, PTL

(* However many threads race in guard_on, one registers the report.        *)
THEOREM OneReport == Spec => []ReportedOnce
<1>1. IInv => ReportedOnce
  BY DEF IInv, Decision, ReportedOnce
<1> QED BY <1>1, Invariance, PTL

=============================================================================
