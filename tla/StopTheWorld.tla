---------------------------- MODULE StopTheWorld ----------------------------
(***************************************************************************)
(* The handshake between the mutators and the garbage collector of         *)
(* src/src/newm2-runtime/src/gc.rs (feature `gc'): registration, the       *)
(* safepoint poll, park_self, collect_stw, and nm2_new_rec, which polls,   *)
(* collects and allocates.  Any thread may start a collection, and several *)
(* may be in collect_stw at the same time.                                 *)
(*                                                                         *)
(* One step per access to shared state.  What a step does under the heap   *)
(* lock is atomic to the others.  A block is a model value, its stack and  *)
(* register words are the set held[t]; ClusterHeap has the blocks in       *)
(* detail.                                                                 *)
(***************************************************************************)
EXTENDS Integers, FiniteSets

CONSTANTS Thread,
          Bootstrap,    \* threads that nm2_init_gc registered before the program runs
          Block,        \* blocks of the clusters
          MaxCollects   \* bound on the collections started

ASSUME WorldAssumption ==
    /\ Bootstrap \subseteq Thread
    /\ MaxCollects \in Nat

VARIABLES MUTATORS,             \* the registered threads
          SAFEPOINT_REQUESTED,  \* the stop flag
          state,                \* [Thread -> {"RUNNING", "PARKED"}]
          pc,                   \* where a thread is in the runtime
          after,                \* where it goes on after parking or collecting
          mutators,             \* [Thread -> SUBSET Thread]: copy made by collect_stw
          unread,               \* [Thread -> SUBSET Thread]: mutators this pass has not looked at
          held,                 \* [Thread -> SUBSET Block]: words of its stack and registers
          global,               \* blocks the registered module variables point to
          free, tagged,         \* blocks on the free lists; blocks with a TypeDesc in the header
          taken,                \* [Thread -> SUBSET Block]: the block nm2_new_rec is about to tag
          collects,             \* collections started
          excused,              \* observer: threads a known race lets run in t's collection
          disturbed             \* observer: some cycle missed a mutator or ran beside it

vars == <<MUTATORS, SAFEPOINT_REQUESTED, state, pc, after, mutators, unread,
          held, global, free, tagged, taken, collects, excused, disturbed>>

heapVars == <<global, free, tagged, taken>>
ghosts == <<collects, excused, disturbed>>

Init ==
    /\ MUTATORS = Bootstrap
    /\ SAFEPOINT_REQUESTED = 0
    /\ state = [t \in Thread |-> "RUNNING"]
    /\ pc = [t \in Thread |-> IF t \in Bootstrap THEN "run" ELSE "off"]
    /\ after = [t \in Thread |-> "run"]
    /\ mutators = [t \in Thread |-> {}]
    /\ unread = [t \in Thread |-> {}]
    /\ held = [t \in Thread |-> {}]
    /\ global = {} /\ free = Block /\ tagged = {}
    /\ taken = [t \in Thread |-> {}]
    /\ collects = 0 /\ disturbed = FALSE
    /\ excused = [t \in Thread |-> {}]

Goto(t, l) == pc' = [pc EXCEPT ![t] = l]

-----------------------------------------------------------------------------
(* Registration.                                                           *)

\* register_thread_inner: a new Mutator, RUNNING, without a recorded stack.
Register(t) ==
    /\ pc[t] = "off"
    /\ MUTATORS' = MUTATORS \cup {t}
    /\ state' = [state EXCEPT ![t] = "RUNNING"]
    /\ Goto(t, "run")
    /\ UNCHANGED <<SAFEPOINT_REQUESTED, after, mutators, unread, held, heapVars, ghosts>>

\* nm2_unregister_thread leaves the state alone; the guard that runs when a
\* thread exits stores PARKED first, for the collectors that copied it.  A
\* thread does not come back: another one is another Mutator.  The bootstrap thread ends with the process.
Unregister(t) ==
    /\ pc[t] = "run"
    /\ t \notin Bootstrap
    /\ \E s \in {state[t], "PARKED"} : state' = [state EXCEPT ![t] = s]
    /\ MUTATORS' = MUTATORS \ {t}
    /\ held' = [held EXCEPT ![t] = {}]
    /\ Goto(t, "exited")
    /\ UNCHANGED <<SAFEPOINT_REQUESTED, after, mutators, unread, heapVars, ghosts>>

-----------------------------------------------------------------------------
(* The program between two calls of the runtime.                           *)

Publish(t) ==
    /\ pc[t] = "run"
    /\ \E b \in held[t] :
         /\ global' = {b}
         /\ held' = [held EXCEPT ![t] = @ \ {b}]
    /\ UNCHANGED <<MUTATORS, SAFEPOINT_REQUESTED, state, pc, after, mutators, unread,
                   free, tagged, taken, ghosts>>

Withdraw(t) ==
    /\ pc[t] = "run"
    /\ global # {}
    /\ held' = [held EXCEPT ![t] = @ \cup global]
    /\ global' = {}
    /\ UNCHANGED <<MUTATORS, SAFEPOINT_REQUESTED, state, pc, after, mutators, unread,
                   free, tagged, taken, ghosts>>

Drop(t) ==
    /\ pc[t] = "run"
    /\ \E b \in held[t] : held' = [held EXCEPT ![t] = @ \ {b}]
    /\ UNCHANGED <<MUTATORS, SAFEPOINT_REQUESTED, state, pc, after, mutators, unread,
                   heapVars, ghosts>>

-----------------------------------------------------------------------------
(* park_self.                                                              *)

\* The poll of nm2_safepoint or of nm2_new_rec: park when a stop is requested.
Poll(t, l) ==
    /\ pc[t] = "run"
    /\ pc' = [pc EXCEPT ![t] = IF SAFEPOINT_REQUESTED = 0 THEN l ELSE "park"]
    /\ after' = [after EXCEPT ![t] = IF SAFEPOINT_REQUESTED = 0 THEN "run" ELSE l]
    /\ UNCHANGED <<MUTATORS, SAFEPOINT_REQUESTED, state, mutators, unread, held,
                   heapVars, ghosts>>

Safepoint(t) == SAFEPOINT_REQUESTED # 0 /\ Poll(t, "run")

NewRec(t) == Poll(t, "new")

\* The stack pointer and the registers are recorded, then the state is stored.
Park(t) ==
    /\ pc[t] = "park"
    /\ state' = [state EXCEPT ![t] = "PARKED"]
    /\ Goto(t, "wait")
    /\ UNCHANGED <<MUTATORS, SAFEPOINT_REQUESTED, after, mutators, unread, held, heapVars, ghosts>>

\* The waiter tests the flag under SAFEPOINT_LOCK, which every release takes
\* before it notifies: no wake-up is lost.
Wake(t) ==
    /\ pc[t] = "wait"
    /\ SAFEPOINT_REQUESTED = 0
    /\ Goto(t, "resume")
    /\ UNCHANGED <<MUTATORS, SAFEPOINT_REQUESTED, state, after, mutators, unread, held,
                   heapVars, ghosts>>

Resume(t) ==
    /\ pc[t] = "resume"
    /\ state' = [state EXCEPT ![t] = "RUNNING"]
    /\ Goto(t, after[t])
    /\ after' = [after EXCEPT ![t] = "run"]
    /\ UNCHANGED <<MUTATORS, SAFEPOINT_REQUESTED, mutators, unread, held, heapVars, ghosts>>

-----------------------------------------------------------------------------
(* collect_stw.                                                            *)

\* The list of mutators is copied first.  Reached from nm2_collect, from the
\* pressure trigger of nm2_new_rec and from its slow path.
CopyMutators(t) ==
    /\ pc[t] \in {"run", "new", "full"}
    /\ collects < MaxCollects
    /\ collects' = collects + 1
    /\ mutators' = [mutators EXCEPT ![t] = MUTATORS]
    /\ after' = [after EXCEPT ![t] = CASE pc[t] = "run"  -> "run"
                                       [] pc[t] = "new"  -> "take"
                                       [] pc[t] = "full" -> "retry"]
    /\ Goto(t, "c_park")
    /\ UNCHANGED <<MUTATORS, SAFEPOINT_REQUESTED, state, unread, held, heapVars,
                   excused, disturbed>>

ParkInitiator(t) ==
    /\ pc[t] = "c_park"
    /\ state' = [state EXCEPT ![t] = "PARKED"]
    /\ Goto(t, "c_request")
    /\ UNCHANGED <<MUTATORS, SAFEPOINT_REQUESTED, after, mutators, unread, held, heapVars, ghosts>>

\* A thread on its way out of an earlier park or collection that has not stored
\* RUNNING yet, counts as parked for this one.
Request(t) ==
    /\ pc[t] = "c_request"
    /\ SAFEPOINT_REQUESTED' = 1
    /\ excused' = [excused EXCEPT ![t] = {u \in Thread : pc[u] \in {"resume", "c_resume"}}]
    /\ unread' = [unread EXCEPT ![t] = mutators[t] \ {t}]
    /\ Goto(t, "c_wait")
    /\ UNCHANGED <<MUTATORS, state, after, mutators, held, heapVars,
                   collects, disturbed>>

\* Mutant: the last mutator of a pass may be running, as if it were the initiator.
Look_NotLast(t) ==
    /\ pc[t] = "c_wait"
    /\ \E u \in unread[t] :
         unread' = [unread EXCEPT ![t] = IF state[u] = "PARKED" \/ @ = {u} THEN @ \ {u}
                                         ELSE mutators[t] \ {t}]
    /\ UNCHANGED <<MUTATORS, SAFEPOINT_REQUESTED, state, pc, after, mutators, held,
                   heapVars, ghosts>>

\* The states are read one after another; one that runs fails the pass, and
\* the next begins with all of them.
Look(t) ==
    /\ pc[t] = "c_wait"
    /\ \E u \in unread[t] :
         unread' = [unread EXCEPT ![t] = IF state[u] = "PARKED" THEN @ \ {u}
                                         ELSE mutators[t] \ {t}]
    /\ UNCHANGED <<MUTATORS, SAFEPOINT_REQUESTED, state, pc, after, mutators, held,
                   heapVars, ghosts>>

SeeAllParked(t) ==
    /\ pc[t] = "c_wait"
    /\ unread[t] = {}
    /\ Goto(t, "c_cycle")
    /\ UNCHANGED <<MUTATORS, SAFEPOINT_REQUESTED, state, after, mutators, unread, held,
                   heapVars, ghosts>>

\* Two seconds have passed, whoever has parked since the last look.
GiveUp(t) ==
    /\ pc[t] = "c_wait"
    /\ state' = [state EXCEPT ![t] = "RUNNING"]
    /\ unread' = [unread EXCEPT ![t] = {}]
    /\ Goto(t, "c_abort")
    /\ UNCHANGED <<MUTATORS, SAFEPOINT_REQUESTED, after, mutators, held,
                   heapVars, ghosts>>

\* The caller goes on; the locals of collect_stw are gone.
Returns(t) ==
    /\ after' = [after EXCEPT ![t] = "run"]
    /\ mutators' = [mutators EXCEPT ![t] = {}]

\* Mutant: an aborted collection leaves the flag set.
ClearRequest_NotOnAbort(t, l) ==
    /\ SAFEPOINT_REQUESTED' = IF pc[t] = "c_abort" THEN SAFEPOINT_REQUESTED ELSE 0
    /\ excused' = [u \in Thread |-> IF pc[u] \in {"c_wait", "c_cycle"} THEN Thread ELSE {}]
    /\ Goto(t, l)

\* The flag is cleared, and with it the request of every other collector.
ClearRequest(t, l) ==
    /\ SAFEPOINT_REQUESTED' = 0
    /\ excused' = [u \in Thread |-> IF pc[u] \in {"c_wait", "c_cycle"} THEN Thread ELSE {}]
    /\ Goto(t, l)

Abort(t) ==
    /\ pc[t] = "c_abort"
    /\ ClearRequest(t, after[t])
    /\ Returns(t)
    /\ UNCHANGED <<MUTATORS, state, unread, held, heapVars, collects, disturbed>>

Stopped(u) ==
    pc[u] \in {"wait", "resume", "c_request", "c_wait", "c_cycle", "c_abort",
               "c_release", "c_resume"}

\* Mutant: the spilled registers and the stack of the initiator are not scanned.
Scanned_NotInitiator(t) ==
    {s \in [mutators[t] \ {t} -> SUBSET Block] :
        \A u \in DOMAIN s : IF Stopped(u) THEN s[u] = held[u] ELSE s[u] \subseteq held[u]}

\* What the scan of the stacks may find: exactly the words of a thread that is
\* stopped, from the stack pointer it recorded on; of one that runs, any part of
\* its words (old words below can only keep a dead block).
Scanned(t) ==
    {s \in [mutators[t] -> SUBSET Block] :
        \A u \in mutators[t] :
            IF u = t \/ Stopped(u) THEN s[u] = held[u]
            ELSE s[u] \subseteq held[u]}

\* run_collect_cycle under the heap lock: what is found in the stacks and in
\* the module roots stays, every other block goes to the free list, a block
\* that was taken and not tagged yet included.
Cycle(t) ==
    /\ pc[t] = "c_cycle"
    /\ \E s \in Scanned(t) :
         LET found == global \cup UNION {s[u] : u \in DOMAIN s}
         IN  /\ tagged' = tagged \cap found
             /\ free' = Block \ (tagged \cap found)
    /\ disturbed' = (disturbed \/ \E u \in MUTATORS \ {t} :
                                      u \notin mutators[t] \/ ~ Stopped(u))
    /\ Goto(t, "c_release")
    /\ UNCHANGED <<MUTATORS, SAFEPOINT_REQUESTED, state, after, mutators, unread, held,
                   global, taken, collects, excused>>

Release(t) ==
    /\ pc[t] = "c_release"
    /\ ClearRequest(t, "c_resume")
    /\ UNCHANGED <<MUTATORS, state, after, mutators, unread, held, heapVars,
                   collects, disturbed>>

ResumeInitiator(t) ==
    /\ pc[t] = "c_resume"
    /\ state' = [state EXCEPT ![t] = "RUNNING"]
    /\ Goto(t, after[t])
    /\ Returns(t)
    /\ UNCHANGED <<MUTATORS, SAFEPOINT_REQUESTED, unread, held, heapVars, ghosts>>

-----------------------------------------------------------------------------
(* nm2_new_rec and alloc_under_lock.                                       *)

\* Below the pressure threshold there is no collection.
NoPressure(t) ==
    /\ pc[t] = "new"
    /\ Goto(t, "take")
    /\ UNCHANGED <<MUTATORS, SAFEPOINT_REQUESTED, state, after, mutators, unread, held,
                   heapVars, ghosts>>

\* A block off a free list, under the heap lock.
Take(t) ==
    /\ pc[t] \in {"take", "retry"}
    /\ \E b \in free :
         /\ free' = free \ {b}
         /\ taken' = [taken EXCEPT ![t] = {b}]
    /\ Goto(t, "tag")
    /\ UNCHANGED <<MUTATORS, SAFEPOINT_REQUESTED, state, after, mutators, unread, held,
                   global, tagged, ghosts>>

\* Every cluster is full: collect.  Past the bound on collections, and when
\* the collection freed nothing, the heap grows by a cluster whose blocks are
\* not followed.
Full(t) ==
    /\ pc[t] \in {"take", "retry"}
    /\ free = {}
    /\ Goto(t, IF pc[t] = "take" /\ collects < MaxCollects THEN "full" ELSE "run")
    /\ UNCHANGED <<MUTATORS, SAFEPOINT_REQUESTED, state, after, mutators, unread, held,
                   heapVars, ghosts>>

\* The bound was used up by another thread.
FullNoMore(t) ==
    /\ pc[t] = "full"
    /\ collects = MaxCollects
    /\ Goto(t, "run")
    /\ UNCHANGED <<MUTATORS, SAFEPOINT_REQUESTED, state, after, mutators, unread, held,
                   heapVars, ghosts>>

\* The header is written after the lock was released.
Tag(t) ==
    /\ pc[t] = "tag"
    /\ tagged' = tagged \cup taken[t]
    /\ held' = [held EXCEPT ![t] = @ \cup taken[t]]
    /\ taken' = [taken EXCEPT ![t] = {}]
    /\ Goto(t, "run")
    /\ UNCHANGED <<MUTATORS, SAFEPOINT_REQUESTED, state, after, mutators, unread,
                   global, free, ghosts>>

\* Steps of a thread inside the runtime.
Runtime(t) ==
    \/ Park(t) \/ Wake(t) \/ Resume(t)
    \/ (pc[t] # "run" /\ CopyMutators(t))
    \/ ParkInitiator(t) \/ Request(t) \/ Look(t) \/ SeeAllParked(t)
    \/ GiveUp(t) \/ Abort(t)
    \/ Cycle(t) \/ Release(t) \/ ResumeInitiator(t)
    \/ NoPressure(t) \/ Take(t) \/ Full(t) \/ FullNoMore(t) \/ Tag(t)

Program(t) ==
    \/ Register(t) \/ Unregister(t) \/ Publish(t) \/ Withdraw(t) \/ Drop(t)
    \/ Safepoint(t) \/ NewRec(t) \/ (pc[t] = "run" /\ CopyMutators(t))

Next == \E t \in Thread : Runtime(t) \/ Program(t)

\* Every thread inside the runtime is scheduled, and the two seconds of a collector
\* that keeps looking pass; the program owes nothing.
Spec ==
    /\ Init /\ [][Next]_vars
    /\ \A t \in Thread : WF_vars(Runtime(t)) /\ WF_vars(GiveUp(t))

-----------------------------------------------------------------------------
(* Properties.                                                             *)

TypeOK ==
    /\ MUTATORS \subseteq Thread
    /\ SAFEPOINT_REQUESTED \in {0, 1}
    /\ state \in [Thread -> {"RUNNING", "PARKED"}]
    /\ pc \in [Thread -> {"off", "run", "exited", "park", "wait", "resume", "new", "take", "full",
                          "retry", "tag", "c_park", "c_request", "c_wait", "c_cycle",
                          "c_abort", "c_release", "c_resume"}]
    /\ after \in [Thread -> {"run", "new", "take", "retry"}]
    /\ {mutators, unread} \subseteq [Thread -> SUBSET Thread]
    /\ {held, taken} \subseteq [Thread -> SUBSET Block]
    /\ {global, free, tagged} \subseteq SUBSET Block
    /\ collects \in 0..MaxCollects
    /\ excused \in [Thread -> SUBSET Thread]
    /\ disturbed \in BOOLEAN

Live == global \cup UNION {held[t] : t \in Thread}

\* A collection runs while a registered mutator runs only by one of three
\* races: the mutator registered after the list was copied, it was on its way
\* out of an earlier park when the stop was requested, or another collection
\* ended in between and woke everybody.
RunsOnlyByKnownRaces ==
    [][\A t \in Thread :
          pc[t] = "c_cycle" /\ pc'[t] # "c_cycle" =>
              \A u \in MUTATORS \ {t} :
                  Stopped(u) \/ u \notin mutators[t] \/ u \in excused[t]]_vars

\* As long as every collection knew all mutators and found them stopped, no block a
\* thread or a module variable refers to is on a free list or has lost its
\* tag, and no block is handed out twice.  The request flag is a flag and no
\* count (TypeOK): the first release clears it for every initiator.
LiveSurvivesStoppedWorld ==
    /\ TypeOK
    /\ ~ disturbed =>
        /\ Live \subseteq tagged /\ Live \cap free = {}
        /\ \A t, u \in Thread : t # u => held[t] \cap taken[u] = {} /\ taken[t] \cap taken[u] = {}

\* Every call into the runtime returns, however many threads collect at once
\* and whichever of them give up: nobody stays parked.
CallsReturn == \A t \in Thread : pc[t] \notin {"run", "off", "exited"} ~> pc[t] = "run"

=============================================================================
