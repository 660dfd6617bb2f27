----------------------------- MODULE ProgramRun -----------------------------
(***************************************************************************)
(* Running a compiled program: module bodies in the given order, then the  *)
(* finalizers of the initialised modules in reverse, then the exit status. *)
(* The JIT (run_modules_orc and run_modules of src/newm2-llvm/src/lib.rs)  *)
(* and a native executable (nm2_aot_run of src/newm2-runtime/src/aot.rs)   *)
(* run the same loops and differ in how the status leaves the process.     *)
(*                                                                         *)
(* A body or a finalizer is one step with an outcome: it returns (or is    *)
(* absent), HALT unwinds it with a code, or an exception leaves it.  HALT  *)
(* passes through every EXCEPT part: nm2_run_protected resumes the         *)
(* unwinding of any payload but an exception.                              *)
(***************************************************************************)
EXTENDS Integers, Sequences

CONSTANTS Name,      \* module names
          HaltCode,  \* the arguments of HALT in the program
          HalfI32,   \* 2^31: an i32 is -HalfI32..HalfI32-1
          None       \* the absent value of an Option

ASSUME HaltAssumption == HaltCode \subseteq Int /\ None \notin Int
ASSUME WidthAssumption == HalfI32 \in Nat /\ HalfI32 > 255

VARIABLES engine,      \* "jit" or "aot"
          phase,       \* where the runner is
          irs,         \* the lowered modules, in dependency order
          initialized, \* number of modules whose finalizer is due
          final,       \* finalizers of irs[1..final] are still to run
          first_error, \* an exception escaped a body or a finalizer
          halt_code,   \* Some(code) of a HALT in a body, or None
          HALTED, TERMINATING,  \* the flags of termination.rs
          status,      \* exit status of the process
          seen         \* observer: one record per body or finalizer started

runVars == <<engine, phase, irs, initialized, final, first_error, halt_code,
             HALTED, TERMINATING, status, seen>>

I32 == (-HalfI32)..(HalfI32 - 1)

\* The `code as i32' of nm2_halt: a code that does not fit loses its high bits.
HaltMarker(code) ==
    IF code \in I32 THEN code ELSE ((code + HalfI32) % (2 * HalfI32)) - HalfI32

\* What the program does in one body or finalizer.
Outcome == [kind : {"ran", "failed"}, code : {0}] \cup [kind : {"halted"}, code : HaltCode]

Event == [module : Name, part : {"body", "final"}, terminating : BOOLEAN, out : Outcome]

RunInit ==
    /\ engine \in {"jit", "aot"}
    /\ phase = "compile"
    /\ irs = << >>
    /\ initialized = 0 /\ final = 0
    /\ first_error = FALSE /\ halt_code = None
    /\ HALTED = FALSE /\ TERMINATING = FALSE
    /\ status = None
    /\ seen = << >>

\* One more module is lowered.
Lower(n) ==
    /\ phase = "compile"
    /\ irs' = Append(irs, n)
    /\ UNCHANGED <<engine, phase, initialized, final, first_error, halt_code,
                   HALTED, TERMINATING, status, seen>>

\* The driver goes on without lowering anything.
Skip == phase = "compile" /\ UNCHANGED runVars

\* The driver hands the lowered modules to the engine.
Launch ==
    /\ phase = "compile"
    /\ phase' = "bodies"
    /\ UNCHANGED <<engine, irs, initialized, final, first_error, halt_code,
                   HALTED, TERMINATING, status, seen>>

\* No body of the program is run: ExitCode::from(1).
Refuse ==
    /\ phase = "compile"
    /\ phase' = "exited"
    /\ status' = 1
    /\ UNCHANGED <<engine, irs, initialized, final, first_error, halt_code,
                   HALTED, TERMINATING, seen>>

\* nm2_halt sets both flags before it unwinds.
Run(m, part, out) ==
    /\ seen' = Append(seen, [module |-> m, part |-> part,
                             terminating |-> TERMINATING, out |-> out])
    /\ HALTED' = (HALTED \/ out.kind = "halted")
    /\ TERMINATING' = (TERMINATING \/ out.kind = "halted")

\* Mutant: the loop goes on after an exception.
RunBody_KeepsGoing(out) ==
    /\ phase = "bodies"
    /\ initialized < Len(irs)
    /\ Run(irs[initialized + 1], "body", out)
    /\ initialized' = initialized + 1
    /\ first_error' = (first_error \/ out.kind = "failed")
    /\ halt_code' = IF out.kind = "halted" THEN HaltMarker(out.code) ELSE halt_code
    /\ phase' = IF out.kind = "halted" THEN "terminate" ELSE phase
    /\ UNCHANGED <<engine, irs, final, status>>

\* Mutant: the module that halts is not counted, so it is not finalized.
RunBody_HaltNotCounted(out) ==
    /\ phase = "bodies"
    /\ initialized < Len(irs)
    /\ Run(irs[initialized + 1], "body", out)
    /\ initialized' = IF out.kind = "ran" THEN initialized + 1 ELSE initialized
    /\ first_error' = (first_error \/ out.kind = "failed")
    /\ halt_code' = IF out.kind = "halted" THEN HaltMarker(out.code) ELSE halt_code
    /\ phase' = IF out.kind = "ran" THEN phase ELSE "terminate"
    /\ UNCHANGED <<engine, irs, final, status>>

\* A body that returns or halts counts as initialised, one that raises does
\* not; HALT and an exception end the loop.
RunBody(out) ==
    /\ phase = "bodies"
    /\ initialized < Len(irs)
    /\ Run(irs[initialized + 1], "body", out)
    /\ initialized' = IF out.kind = "failed" THEN initialized ELSE initialized + 1
    /\ first_error' = (first_error \/ out.kind = "failed")
    /\ halt_code' = IF out.kind = "halted" THEN HaltMarker(out.code) ELSE halt_code
    /\ phase' = IF out.kind = "ran" THEN phase ELSE "terminate"
    /\ UNCHANGED <<engine, irs, final, status>>

BodiesDone ==
    /\ phase = "bodies"
    /\ initialized = Len(irs)
    /\ phase' = "terminate"
    /\ UNCHANGED <<engine, irs, initialized, final, first_error, halt_code,
                   HALTED, TERMINATING, status, seen>>

\* Mutant: the finalizers start one module too far.
BeginTermination_OneTooMany ==
    /\ phase = "terminate"
    /\ TERMINATING' = TRUE
    /\ final' = initialized + 1
    /\ phase' = "finals"
    /\ UNCHANGED <<engine, irs, initialized, first_error, halt_code,
                   HALTED, status, seen>>

BeginTermination ==
    /\ phase = "terminate"
    /\ TERMINATING' = TRUE
    /\ final' = initialized
    /\ phase' = "finals"
    /\ UNCHANGED <<engine, irs, initialized, first_error, halt_code,
                   HALTED, status, seen>>

\* Mutant: an exception ends the finalization loop.
RunFinal_StopsAtFirst(out) ==
    /\ phase = "finals"
    /\ final > 0
    /\ Run(irs[final], "final", out)
    /\ final' = IF out.kind = "failed" THEN 0 ELSE final - 1
    /\ first_error' = (first_error \/ out.kind = "failed")
    /\ UNCHANGED <<engine, phase, irs, initialized, halt_code, status>>

\* Only an exception is looked at: a HALT in a finalizer ends that finalizer.
RunFinal(out) ==
    /\ phase = "finals"
    /\ final > 0
    /\ Run(irs[final], "final", out)
    /\ final' = final - 1
    /\ first_error' = (first_error \/ out.kind = "failed")
    /\ UNCHANGED <<engine, phase, irs, initialized, halt_code, status>>

\* Mutant: the HALT code is looked at before the error.
ExitStatus_HaltFirst ==
    LET code == IF halt_code # None THEN halt_code ELSE IF first_error THEN 1 ELSE 0
    IN  IF engine = "aot" THEN code ELSE code % 256

\* nm2_aot_run returns the i32; run_run returns `code as u8'.
ExitStatus ==
    LET code == IF halt_code = None THEN 0 ELSE halt_code
    IN  IF first_error THEN 1
        ELSE IF engine = "aot" THEN code ELSE code % 256

Exit ==
    /\ phase = "finals"
    /\ final = 0
    /\ status' = ExitStatus
    /\ phase' = "exited"
    /\ UNCHANGED <<engine, irs, initialized, final, first_error, halt_code,
                   HALTED, TERMINATING, seen>>

RunStep ==
    \/ \E out \in Outcome : RunBody(out)
    \/ BodiesDone
    \/ BeginTermination
    \/ \E out \in Outcome : RunFinal(out)
    \/ Exit

-----------------------------------------------------------------------------
(* Properties.                                                             *)

RunTypeOK ==
    /\ engine \in {"jit", "aot"}
    /\ phase \in {"compile", "bodies", "terminate", "finals", "exited"}
    /\ irs \in Seq(Name)
    /\ initialized \in 0..Len(irs)
    /\ final \in 0..initialized
    /\ first_error \in BOOLEAN
    /\ halt_code \in I32 \cup {None}
    /\ HALTED \in BOOLEAN /\ TERMINATING \in BOOLEAN
    /\ status \in Int \cup {None}
    /\ seen \in Seq(Event)

\* When the process exits, every module whose body returned or halted was
\* finalized exactly once, last initialised first, also when bodies and
\* finalizers raise or halt on the way: what came up are the first events,
\* what went down the last ones, and they mirror each other.  IsTerminating()
\* was TRUE in every finalizer and in no body.
FinalizedInReverse ==
    /\ \A i \in DOMAIN seen : seen[i].terminating <=> seen[i].part = "final"
    /\ phase = "exited" =>
        \E u \in 0..Len(seen) :
            LET n == Len(seen) IN
            /\ {i \in 1..n : seen[i].part = "body" /\ seen[i].out.kind # "failed"} = 1..u
            /\ {i \in 1..n : seen[i].part = "final"} = (n + 1 - u)..n
            /\ \A i \in 1..u : seen[n + 1 - i].module = seen[i].module

\* An exception that escaped a body or a finalizer is visible in the exit
\* status, even when the program also executed HALT(0) or a HALT whose code is
\* 0 once it is cut to the width of a status.  So is a HALT in a body whose code
\* fits an exit status, whatever the finalizers do afterwards.
FailureIsReported ==
    phase = "exited" /\ (\E i \in DOMAIN seen :
                            \/ seen[i].out.kind = "failed"
                            \/ /\ seen[i].part = "body" /\ seen[i].out.kind = "halted"
                               /\ seen[i].out.code \in 1..255)
        => status # 0

=============================================================================
