------------------------ MODULE StopTheWorld_proofs -------------------------
(***************************************************************************)
(* What the handshake of the garbage collector guarantees for any number   *)
(* of threads, blocks and collections: the memory of live blocks is safe   *)
(* as long as every collection found all mutators stopped, and a mutator   *)
(* can run beside a collection only by one of three races.                 *)
(***************************************************************************)
EXTENDS StopTheWorld, TLAPS

InCollect == {"c_park", "c_request", "c_wait", "c_cycle", "c_abort", "c_release", "c_resume"}
Away == {"off", "exited"}

(* Where a thread is says whether it is registered, and a collector copied
   itself: an unregistered thread refers to nothing, and a block is between
   the free list and its tag only inside nm2_new_rec.                      *)
Registered ==
    \A t \in Thread :
        /\ t \in MUTATORS <=> pc[t] \notin Away
        /\ pc[t] \in Away => held[t] = {}
        /\ taken[t] # {} => pc[t] = "tag"
        /\ pc[t] \in InCollect => t \in mutators[t]
        /\ pc[t] = "off" => \A u \in Thread : t \notin mutators[u]

(* A block is on the free list, taken, or tagged and perhaps in use.       *)
OwnedOnce ==
    /\ Live \subseteq tagged
    /\ Live \cap free = {}
    /\ \A t \in Thread : taken[t] \cap (Live \cup free) = {}
    /\ \A t, u \in Thread : t # u => taken[t] \cap taken[u] = {}

(* PARKED is stored before a thread stops and RUNNING after it goes on, so a
   state that reads PARKED belongs to a thread that is stopped or gone; a
   collector that gives up stores RUNNING before it clears the request.    *)
ParkedIsStopped ==
    \A t \in Thread :
        /\ state[t] = "PARKED" => Stopped(t) \/ pc[t] = "exited"
        /\ pc[t] = "c_abort" => state[t] = "RUNNING"

(* Unless it is excused, no thread is on its way out of a park while a
   collector waits or works.                                               *)
NobodyLeaves ==
    \A t \in Thread : pc[t] \in {"c_wait", "c_cycle"} =>
        /\ SAFEPOINT_REQUESTED = 0 => excused[t] = Thread
        /\ \A u \in Thread \ excused[t] : pc[u] \notin {"resume", "c_resume"}

(* What a collector has looked at stays stopped while it looks at the others;
   when it works, it has looked at all of them.                            *)
CycleFindsStopped ==
    \A t \in Thread :
        /\ unread[t] # {} => pc[t] = "c_wait"
        /\ pc[t] \in {"c_wait", "c_cycle"} =>
              \A u \in (MUTATORS \cap mutators[t]) \ ({t} \cup unread[t]) :
                  Stopped(u) \/ u \in excused[t]

MemoryInv == Registered /\ (~ disturbed => OwnedOnce)
RaceInv == ParkedIsStopped /\ NobodyLeaves /\ CycleFindsStopped
IInv == TypeOK /\ MemoryInv /\ RaceInv

-----------------------------------------------------------------------------
(* Every variable of the handshake keeps its type: the request flag is a   *)
(* flag, and a collector's copy of MUTATORS holds threads.                 *)
LEMMA TypeInit == Init => TypeOK
<1> SUFFICES ASSUME Init PROVE TypeOK
  OBVIOUS
<1>1. disturbed \in BOOLEAN
  BY DEF Init
<1>4. collects \in 0..MaxCollects
  BY WorldAssumption DEF WorldAssumption, Init
<1>2. {held, taken} \subseteq [Thread -> SUBSET Block]
  BY DEF Init
<1>3. {global, free, tagged} \subseteq SUBSET Block
  BY DEF Init
<1> QED BY <1>1, <1>2, <1>3, <1>4, WorldAssumption DEF WorldAssumption, Init, TypeOK

LEMMA TypeStep ==
    ASSUME TypeOK, [Next]_vars
    PROVE  TypeOK'
<1> USE WorldAssumption DEF WorldAssumption, TypeOK, Goto, heapVars, ghosts
<1>1. ASSUME NEW t \in Thread, Program(t) PROVE TypeOK'
  <2>1. CASE Register(t)    BY <2>1 DEF Register
  <2>2. CASE Unregister(t)  BY <2>2 DEF Unregister
  <2>3. CASE Publish(t)     BY <2>3 DEF Publish
  <2>4. CASE Withdraw(t)    BY <2>4 DEF Withdraw
  <2>5. CASE Drop(t)        BY <2>5 DEF Drop
  <2>6. CASE Safepoint(t)   BY <2>6 DEF Safepoint, Poll
  <2>7. CASE NewRec(t)      BY <2>7 DEF NewRec, Poll
  <2>8. CASE CopyMutators(t) BY <2>8 DEF CopyMutators
  <2> QED BY <1>1, <2>1, <2>2, <2>3, <2>4, <2>5, <2>6, <2>7, <2>8 DEF Program
<1>2. ASSUME NEW t \in Thread, Runtime(t) PROVE TypeOK'
  <2>1. CASE Park(t)        BY <2>1 DEF Park
  <2>2. CASE Wake(t)        BY <2>2 DEF Wake
  <2>3. CASE Resume(t)      BY <2>3 DEF Resume
  <2>4. CASE CopyMutators(t) BY <2>4 DEF CopyMutators
  <2>5. CASE ParkInitiator(t) BY <2>5 DEF ParkInitiator
  <2>6. CASE Request(t)     BY <2>6 DEF Request
  <2>7. CASE SeeAllParked(t) BY <2>7 DEF SeeAllParked
  <2>8. CASE GiveUp(t)      BY <2>8 DEF GiveUp
  <2>9. CASE Abort(t)       BY <2>9 DEF Abort, ClearRequest, Returns
  <2>10. CASE Cycle(t)      BY <2>10 DEF Cycle
  <2>11. CASE Release(t)    BY <2>11 DEF Release, ClearRequest
  <2>12. CASE ResumeInitiator(t) BY <2>12 DEF ResumeInitiator, Returns
  <2>13. CASE NoPressure(t) BY <2>13 DEF NoPressure
  <2>14. CASE Take(t)       BY <2>14 DEF Take
  <2>15. CASE Full(t)       BY <2>15 DEF Full
  <2>16. CASE FullNoMore(t) BY <2>16 DEF FullNoMore
  <2>17. CASE Tag(t)        BY <2>17 DEF Tag
  <2>18. CASE Look(t)       BY <2>18 DEF Look
  <2> QED BY <1>2, <2>1, <2>2, <2>3, <2>4, <2>5, <2>6, <2>7, <2>8, <2>9, <2>10, <2>11,
             <2>12, <2>13, <2>14, <2>15, <2>16, <2>17,
             <2>18 DEF Runtime
<1>3. CASE UNCHANGED vars BY <1>3 DEF vars
<1> QED BY <1>1, <1>2, <1>3 DEF Next

-----------------------------------------------------------------------------
LEMMA RegisteredStep ==
    ASSUME TypeOK, Registered, [Next]_vars
    PROVE  Registered'
<1> USE DEF TypeOK, Registered, Away, InCollect, Goto, heapVars, ghosts
<1>1. ASSUME NEW t \in Thread, Program(t) PROVE Registered'
  <2>1. CASE Register(t) BY <2>1 DEF Register
  <2>2. CASE Unregister(t) BY <2>2 DEF Unregister
  <2>3. CASE Publish(t) BY <2>3 DEF Publish
  <2>4. CASE Withdraw(t) BY <2>4 DEF Withdraw
  <2>5. CASE Drop(t) BY <2>5 DEF Drop
  <2>6. CASE Safepoint(t) BY <2>6 DEF Safepoint, Poll
  <2>7. CASE NewRec(t) BY <2>7 DEF NewRec, Poll
  <2>8. CASE CopyMutators(t) BY <2>8 DEF CopyMutators
  <2> QED BY <1>1, <2>1, <2>2, <2>3, <2>4, <2>5, <2>6, <2>7, <2>8 DEF Program
<1>2. ASSUME NEW t \in Thread, Runtime(t) PROVE Registered'
  <2>1. CASE Park(t) BY <2>1 DEF Park
  <2>2. CASE Wake(t) BY <2>2 DEF Wake
  <2>3. CASE Resume(t) BY <2>3 DEF Resume
  <2>4. CASE CopyMutators(t) BY <2>4 DEF CopyMutators
  <2>5. CASE ParkInitiator(t) BY <2>5 DEF ParkInitiator
  <2>6. CASE Request(t) BY <2>6 DEF Request
  <2>7. CASE SeeAllParked(t) BY <2>7 DEF SeeAllParked
  <2>8. CASE GiveUp(t) BY <2>8 DEF GiveUp
  <2>9. CASE Abort(t) BY <2>9 DEF Abort, ClearRequest, Returns
  <2>10. CASE Cycle(t) BY <2>10 DEF Cycle
  <2>11. CASE Release(t) BY <2>11 DEF Release, ClearRequest
  <2>12. CASE ResumeInitiator(t) BY <2>12 DEF ResumeInitiator, Returns
  <2>13. CASE NoPressure(t) BY <2>13 DEF NoPressure
  <2>14. CASE Take(t) BY <2>14 DEF Take
  <2>15. CASE Full(t) BY <2>15 DEF Full
  <2>16. CASE FullNoMore(t) BY <2>16 DEF FullNoMore
  <2>17. CASE Tag(t) BY <2>17 DEF Tag
  <2>18. CASE Look(t) BY <2>18 DEF Look
  <2> QED BY <1>2, <2>1, <2>2, <2>3, <2>4, <2>5, <2>6, <2>7, <2>8, <2>9, <2>10, <2>11, <2>12, <2>13, <2>14, <2>15, <2>16, <2>17,
             <2>18 DEF Runtime
<1>3. CASE UNCHANGED vars BY <1>3 DEF vars
<1> QED BY <1>1, <1>2, <1>3 DEF Next

(* A disturbance is not forgotten.                                        *)
LEMMA Undisturbed ==
    ASSUME TypeOK, [Next]_vars, disturbed
    PROVE  disturbed'
<1> USE DEF TypeOK, Goto, heapVars, ghosts
<1>1. ASSUME NEW t \in Thread, Program(t) PROVE disturbed'
  <2>1. CASE Register(t) BY <2>1 DEF Register
  <2>2. CASE Unregister(t) BY <2>2 DEF Unregister
  <2>3. CASE Publish(t) BY <2>3 DEF Publish
  <2>4. CASE Withdraw(t) BY <2>4 DEF Withdraw
  <2>5. CASE Drop(t) BY <2>5 DEF Drop
  <2>6. CASE Safepoint(t) BY <2>6 DEF Safepoint, Poll
  <2>7. CASE NewRec(t) BY <2>7 DEF NewRec, Poll
  <2>8. CASE CopyMutators(t) BY <2>8 DEF CopyMutators
  <2> QED BY <1>1, <2>1, <2>2, <2>3, <2>4, <2>5, <2>6, <2>7, <2>8 DEF Program
<1>2. ASSUME NEW t \in Thread, Runtime(t) PROVE disturbed'
  <2>1. CASE Park(t) BY <2>1 DEF Park
  <2>2. CASE Wake(t) BY <2>2 DEF Wake
  <2>3. CASE Resume(t) BY <2>3 DEF Resume
  <2>4. CASE CopyMutators(t) BY <2>4 DEF CopyMutators
  <2>5. CASE ParkInitiator(t) BY <2>5 DEF ParkInitiator
  <2>6. CASE Request(t) BY <2>6 DEF Request
  <2>7. CASE SeeAllParked(t) BY <2>7 DEF SeeAllParked
  <2>8. CASE GiveUp(t) BY <2>8 DEF GiveUp
  <2>9. CASE Abort(t) BY <2>9 DEF Abort, ClearRequest, Returns
  <2>10. CASE Cycle(t) BY <2>10 DEF Cycle
  <2>11. CASE Release(t) BY <2>11 DEF Release, ClearRequest
  <2>12. CASE ResumeInitiator(t) BY <2>12 DEF ResumeInitiator, Returns
  <2>13. CASE NoPressure(t) BY <2>13 DEF NoPressure
  <2>14. CASE Take(t) BY <2>14 DEF Take
  <2>15. CASE Full(t) BY <2>15 DEF Full
  <2>16. CASE FullNoMore(t) BY <2>16 DEF FullNoMore
  <2>17. CASE Tag(t) BY <2>17 DEF Tag
  <2>18. CASE Look(t) BY <2>18 DEF Look
  <2> QED BY <1>2, <2>1, <2>2, <2>3, <2>4, <2>5, <2>6, <2>7, <2>8, <2>9, <2>10, <2>11, <2>12, <2>13, <2>14, <2>15, <2>16, <2>17,
             <2>18 DEF Runtime
<1>3. CASE UNCHANGED vars BY <1>3 DEF vars
<1> QED BY <1>1, <1>2, <1>3 DEF Next

(* The memory of the blocks in use, as long as no collection was disturbed. *)
LEMMA OwnedStep ==
    ASSUME TypeOK, Registered, OwnedOnce, [Next]_vars, ~ disturbed'
    PROVE  OwnedOnce'
<1> USE DEF TypeOK, Registered, Away, OwnedOnce, Live, Goto, heapVars, ghosts
<1>1. ASSUME NEW t \in Thread, Program(t) PROVE OwnedOnce'
  <2>1. CASE Register(t) BY <2>1 DEF Register
  <2>2. CASE Unregister(t) BY <2>2 DEF Unregister
  <2>3. CASE Publish(t) BY <2>3 DEF Publish
  <2>4. CASE Withdraw(t) BY <2>4 DEF Withdraw
  <2>5. CASE Drop(t) BY <2>5 DEF Drop
  <2>6. CASE Safepoint(t) BY <2>6 DEF Safepoint, Poll
  <2>7. CASE NewRec(t) BY <2>7 DEF NewRec, Poll
  <2>8. CASE CopyMutators(t) BY <2>8 DEF CopyMutators
  <2> QED BY <1>1, <2>1, <2>2, <2>3, <2>4, <2>5, <2>6, <2>7, <2>8 DEF Program
<1>2. ASSUME NEW t \in Thread, Runtime(t) PROVE OwnedOnce'
  <2>1. CASE Park(t) BY <2>1 DEF Park
  <2>2. CASE Wake(t) BY <2>2 DEF Wake
  <2>3. CASE Resume(t) BY <2>3 DEF Resume
  <2>4. CASE CopyMutators(t) BY <2>4 DEF CopyMutators
  <2>5. CASE ParkInitiator(t) BY <2>5 DEF ParkInitiator
  <2>6. CASE Request(t) BY <2>6 DEF Request
  <2>7. CASE SeeAllParked(t) BY <2>7 DEF SeeAllParked
  <2>8. CASE GiveUp(t) BY <2>8 DEF GiveUp
  <2>9. CASE Abort(t) BY <2>9 DEF Abort, ClearRequest, Returns
  <2>10. CASE Cycle(t)
    <3>1. PICK s \in Scanned(t) :
            /\ tagged' = tagged \cap (global \cup UNION {s[u] : u \in DOMAIN s})
            /\ free' = Block \ (tagged \cap (global \cup UNION {s[u] : u \in DOMAIN s}))
      BY <2>10 DEF Cycle
    <3>2. s \in [mutators[t] -> SUBSET Block] /\ s[t] = held[t]
      BY <2>10 DEF Scanned, Cycle, InCollect
    <3>3. \A u \in MUTATORS \ {t} : u \in mutators[t] /\ Stopped(u)
      BY <2>10 DEF Cycle
    <3>4. ASSUME NEW u \in Thread, NEW b \in held[u]
          PROVE  b \in UNION {s[v] : v \in DOMAIN s}
      <4>1. u \in mutators[t] /\ s[u] = held[u]
        BY <2>10, <3>2, <3>3, <3>4 DEF Scanned, Cycle, InCollect
      <4> QED BY <3>2, <3>4, <4>1
    <3>5. Live \subseteq tagged'
      BY <3>1, <3>4
    <3>6. \A u \in Thread : taken[u] = {}
      BY <2>10, <3>3 DEF Cycle, Stopped
    <3>7. Live' = Live /\ taken' = taken
      BY <2>10 DEF Cycle
    <3> QED BY <3>1, <3>5, <3>6, <3>7
  <2>11. CASE Release(t) BY <2>11 DEF Release, ClearRequest
  <2>12. CASE ResumeInitiator(t) BY <2>12 DEF ResumeInitiator, Returns
  <2>13. CASE NoPressure(t) BY <2>13 DEF NoPressure
  <2>14. CASE Take(t) BY <2>14 DEF Take
  <2>15. CASE Full(t) BY <2>15 DEF Full
  <2>16. CASE FullNoMore(t) BY <2>16 DEF FullNoMore
  <2>17. CASE Tag(t) BY <2>17 DEF Tag
  <2>18. CASE Look(t) BY <2>18 DEF Look
  <2> QED BY <1>2, <2>1, <2>2, <2>3, <2>4, <2>5, <2>6, <2>7, <2>8, <2>9, <2>10, <2>11, <2>12, <2>13, <2>14, <2>15, <2>16, <2>17,
             <2>18 DEF Runtime
<1>3. CASE UNCHANGED vars BY <1>3 DEF vars
<1> QED BY <1>1, <1>2, <1>3 DEF Next

-----------------------------------------------------------------------------
(* The races: what a collector can find when it sees everybody PARKED.     *)
LEMMA ParkedStep ==
    ASSUME TypeOK, Registered, ParkedIsStopped, [Next]_vars
    PROVE  ParkedIsStopped'
<1> USE DEF TypeOK, Registered, Away, ParkedIsStopped, Stopped, Goto, heapVars, ghosts
<1>1. ASSUME NEW t \in Thread, Program(t) PROVE ParkedIsStopped'
  <2>1. CASE Register(t) BY <2>1 DEF Register
  <2>2. CASE Unregister(t) BY <2>2 DEF Unregister
  <2>3. CASE Publish(t) BY <2>3 DEF Publish
  <2>4. CASE Withdraw(t) BY <2>4 DEF Withdraw
  <2>5. CASE Drop(t) BY <2>5 DEF Drop
  <2>6. CASE Safepoint(t) BY <2>6 DEF Safepoint, Poll
  <2>7. CASE NewRec(t) BY <2>7 DEF NewRec, Poll
  <2>8. CASE CopyMutators(t) BY <2>8 DEF CopyMutators
  <2> QED BY <1>1, <2>1, <2>2, <2>3, <2>4, <2>5, <2>6, <2>7, <2>8 DEF Program
<1>2. ASSUME NEW t \in Thread, Runtime(t) PROVE ParkedIsStopped'
  <2>1. CASE Park(t) BY <2>1 DEF Park
  <2>2. CASE Wake(t) BY <2>2 DEF Wake
  <2>3. CASE Resume(t) BY <2>3 DEF Resume
  <2>4. CASE CopyMutators(t) BY <2>4 DEF CopyMutators
  <2>5. CASE ParkInitiator(t) BY <2>5 DEF ParkInitiator
  <2>6. CASE Request(t) BY <2>6 DEF Request
  <2>7. CASE SeeAllParked(t) BY <2>7 DEF SeeAllParked
  <2>8. CASE GiveUp(t) BY <2>8 DEF GiveUp
  <2>9. CASE Abort(t) BY <2>9 DEF Abort, ClearRequest, Returns
  <2>10. CASE Cycle(t) BY <2>10 DEF Cycle
  <2>11. CASE Release(t) BY <2>11 DEF Release, ClearRequest
  <2>12. CASE ResumeInitiator(t) BY <2>12 DEF ResumeInitiator, Returns
  <2>13. CASE NoPressure(t) BY <2>13 DEF NoPressure
  <2>14. CASE Take(t) BY <2>14 DEF Take
  <2>15. CASE Full(t) BY <2>15 DEF Full
  <2>16. CASE FullNoMore(t) BY <2>16 DEF FullNoMore
  <2>17. CASE Tag(t) BY <2>17 DEF Tag
  <2>18. CASE Look(t) BY <2>18 DEF Look
  <2> QED BY <1>2, <2>1, <2>2, <2>3, <2>4, <2>5, <2>6, <2>7, <2>8, <2>9, <2>10, <2>11, <2>12, <2>13, <2>14, <2>15, <2>16, <2>17,
             <2>18 DEF Runtime
<1>3. CASE UNCHANGED vars BY <1>3 DEF vars
<1> QED BY <1>1, <1>2, <1>3 DEF Next

LEMMA LeavesStep ==
    ASSUME TypeOK, Registered, NobodyLeaves, [Next]_vars
    PROVE  NobodyLeaves'
<1> USE DEF TypeOK, NobodyLeaves, Goto, heapVars, ghosts
<1>1. ASSUME NEW t \in Thread, Program(t) PROVE NobodyLeaves'
  <2>1. CASE Register(t) BY <2>1 DEF Register
  <2>2. CASE Unregister(t) BY <2>2 DEF Unregister
  <2>3. CASE Publish(t) BY <2>3 DEF Publish
  <2>4. CASE Withdraw(t) BY <2>4 DEF Withdraw
  <2>5. CASE Drop(t) BY <2>5 DEF Drop
  <2>6. CASE Safepoint(t) BY <2>6 DEF Safepoint, Poll
  <2>7. CASE NewRec(t) BY <2>7 DEF NewRec, Poll
  <2>8. CASE CopyMutators(t) BY <2>8 DEF CopyMutators
  <2> QED BY <1>1, <2>1, <2>2, <2>3, <2>4, <2>5, <2>6, <2>7, <2>8 DEF Program
<1>2. ASSUME NEW t \in Thread, Runtime(t) PROVE NobodyLeaves'
  <2>1. CASE Park(t) BY <2>1 DEF Park
  <2>2. CASE Wake(t) BY <2>2 DEF Wake
  <2>3. CASE Resume(t) BY <2>3 DEF Resume
  <2>4. CASE CopyMutators(t) BY <2>4 DEF CopyMutators
  <2>5. CASE ParkInitiator(t) BY <2>5 DEF ParkInitiator
  <2>6. CASE Request(t) BY <2>6 DEF Request
  <2>7. CASE SeeAllParked(t) BY <2>7 DEF SeeAllParked
  <2>8. CASE GiveUp(t) BY <2>8 DEF GiveUp
  <2>9. CASE Abort(t) BY <2>9 DEF Abort, ClearRequest, Returns
  <2>10. CASE Cycle(t) BY <2>10 DEF Cycle
  <2>11. CASE Release(t) BY <2>11 DEF Release, ClearRequest
  <2>12. CASE ResumeInitiator(t) BY <2>12 DEF ResumeInitiator, Returns
  <2>13. CASE NoPressure(t) BY <2>13 DEF NoPressure
  <2>14. CASE Take(t) BY <2>14 DEF Take
  <2>15. CASE Full(t) BY <2>15 DEF Full
  <2>16. CASE FullNoMore(t) BY <2>16 DEF FullNoMore
  <2>17. CASE Tag(t) BY <2>17 DEF Tag
  <2>18. CASE Look(t) BY <2>18 DEF Look
  <2> QED BY <1>2, <2>1, <2>2, <2>3, <2>4, <2>5, <2>6, <2>7, <2>8, <2>9, <2>10, <2>11, <2>12, <2>13, <2>14, <2>15, <2>16, <2>17,
             <2>18 DEF Runtime
<1>3. CASE UNCHANGED vars BY <1>3 DEF vars
<1> QED BY <1>1, <1>2, <1>3 DEF Next

LEMMA CycleStep ==
    ASSUME TypeOK, Registered, RaceInv, [Next]_vars
    PROVE  CycleFindsStopped'
<1> USE DEF TypeOK, Registered, Away, RaceInv, ParkedIsStopped, NobodyLeaves, CycleFindsStopped, Stopped, Goto, heapVars, ghosts
<1>1. ASSUME NEW t \in Thread, Program(t) PROVE CycleFindsStopped'
  <2>1. CASE Register(t) BY <2>1 DEF Register
  <2>2. CASE Unregister(t) BY <2>2 DEF Unregister
  <2>3. CASE Publish(t) BY <2>3 DEF Publish
  <2>4. CASE Withdraw(t) BY <2>4 DEF Withdraw
  <2>5. CASE Drop(t) BY <2>5 DEF Drop
  <2>6. CASE Safepoint(t) BY <2>6 DEF Safepoint, Poll
  <2>7. CASE NewRec(t) BY <2>7 DEF NewRec, Poll
  <2>8. CASE CopyMutators(t) BY <2>8 DEF CopyMutators
  <2> QED BY <1>1, <2>1, <2>2, <2>3, <2>4, <2>5, <2>6, <2>7, <2>8 DEF Program
<1>2. ASSUME NEW t \in Thread, Runtime(t) PROVE CycleFindsStopped'
  <2>1. CASE Park(t) BY <2>1 DEF Park
  <2>2. CASE Wake(t) BY <2>2 DEF Wake
  <2>3. CASE Resume(t) BY <2>3 DEF Resume
  <2>4. CASE CopyMutators(t) BY <2>4 DEF CopyMutators
  <2>5. CASE ParkInitiator(t) BY <2>5 DEF ParkInitiator
  <2>6. CASE Request(t) BY <2>6 DEF Request
  <2>7. CASE SeeAllParked(t) BY <2>7 DEF SeeAllParked
  <2>8. CASE GiveUp(t) BY <2>8 DEF GiveUp
  <2>9. CASE Abort(t) BY <2>9 DEF Abort, ClearRequest, Returns
  <2>10. CASE Cycle(t) BY <2>10 DEF Cycle
  <2>11. CASE Release(t) BY <2>11 DEF Release, ClearRequest
  <2>12. CASE ResumeInitiator(t) BY <2>12 DEF ResumeInitiator, Returns
  <2>13. CASE NoPressure(t) BY <2>13 DEF NoPressure
  <2>14. CASE Take(t) BY <2>14 DEF Take
  <2>15. CASE Full(t) BY <2>15 DEF Full
  <2>16. CASE FullNoMore(t) BY <2>16 DEF FullNoMore
  <2>17. CASE Tag(t) BY <2>17 DEF Tag
  <2>18. CASE Look(t) BY <2>18 DEF Look
  <2> QED BY <1>2, <2>1, <2>2, <2>3, <2>4, <2>5, <2>6, <2>7, <2>8, <2>9, <2>10, <2>11, <2>12, <2>13, <2>14, <2>15, <2>16, <2>17,
             <2>18 DEF Runtime
<1>3. CASE UNCHANGED vars BY <1>3 DEF vars
<1> QED BY <1>1, <1>2, <1>3 DEF Next

-----------------------------------------------------------------------------
(* The inductive invariant of the handshake: who is registered, where the
   blocks are, and which threads may be on their way out of a park.        *)
THEOREM Invariance == Spec => []IInv
<1>1. Init => IInv
  <2> SUFFICES ASSUME Init PROVE IInv
    OBVIOUS
  <2>1. TypeOK
    BY TypeInit
  <2>2. MemoryInv
    BY WorldAssumption DEF WorldAssumption, Init, MemoryInv, Registered, OwnedOnce, Live, Away, InCollect
  <2>3. RaceInv
    BY DEF Init, RaceInv, ParkedIsStopped, NobodyLeaves, CycleFindsStopped
  <2> QED BY <2>1, <2>2, <2>3 DEF IInv
<1>2. IInv /\ [Next]_vars => IInv'
  <2> SUFFICES ASSUME IInv, [Next]_vars PROVE IInv'
    OBVIOUS
  <2>1. TypeOK'
    BY TypeStep DEF IInv
  <2>2. Registered'
    BY RegisteredStep DEF IInv, MemoryInv
  <2>3. ASSUME ~ disturbed' PROVE OwnedOnce'
    <3>1. ~ disturbed
      BY <2>3, Undisturbed DEF IInv
    <3> QED BY <2>3, <3>1, OwnedStep DEF IInv, MemoryInv
  <2>4. RaceInv'
    BY ParkedStep, LeavesStep, CycleStep DEF IInv, MemoryInv, RaceInv
  <2> QED BY <2>1, <2>2, <2>3, <2>4 DEF IInv, MemoryInv
<1> QED BY <1>1, <1>2, PTL DEF Spec

(* For every number of threads and blocks: as long as each collection knew all
   mutators and found them stopped (collect_stw), no block in use is on a free
   list or has lost its tag, and nm2_new_rec hands no block out twice.     *)
THEOREM MemorySafe == Spec => []LiveSurvivesStoppedWorld
<1>1. IInv => LiveSurvivesStoppedWorld
  BY DEF IInv, MemoryInv, OwnedOnce, LiveSurvivesStoppedWorld, Live
<1> QED BY <1>1, Invariance, PTL

(* For every number of threads: run_collect_cycle runs beside a registered
   mutator only by one of the three races of collect_stw and park_self.    *)
THEOREM OnlyKnownRaces == Spec => RunsOnlyByKnownRaces
<1>1. IInv => \A t \in Thread : pc[t] = "c_cycle" /\ pc'[t] # "c_cycle" =>
                 \A u \in MUTATORS \ {t} :
                     Stopped(u) \/ u \notin mutators[t] \/ u \in excused[t]
  BY DEF IInv, RaceInv, CycleFindsStopped
<1> QED BY <1>1, Invariance, PTL DEF RunsOnlyByKnownRaces
=============================================================================
