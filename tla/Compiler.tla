----------------------------- MODULE Compiler -----------------------------
(***************************************************************************)
(* The back end as one pipeline, and the program it makes at work: a       *)
(* module is analysed, and if nothing is wrong with it lowered and run.    *)
(* The properties compare the run with the program's Meaning.              *)
(***************************************************************************)
EXTENDS Machine, Meaning

LOCAL INSTANCE FiniteSetsExt

CONSTANTS Programs,  \* the modules that are compiled, in families
          Pass       \* the passes as functions of the program, see Passes

VARIABLES prog, phase,
          meant   \* the part of the program's Meaning a run can be compared with
vars == <<prog, phase, meant, code, statics, mem, heap, frames, current, out, status>>

NoCode == [f \in {} |-> [ret |-> NoType]]

Meant(P) == LET S == Meaning(P)
            IN  [ctl |-> S.ctl, out |-> S.out, exc |-> S.exc, known |-> S.known,
                 framesLeft |-> S.framesLeft, refsLeft |-> S.refsLeft]

(* Each pass is a function of the program and of nothing else.  A run gives
   them to the constant Pass, so that TLC applies a pass to one program at a
   time; they are defined for every value (Any), for a set of programs is slow
   to search.                                                              *)
Means     == [P \in Any |-> Meant(P)]
Analyses  == [P \in Any |-> Accepted(P)]
Lowerings == [P \in Any |-> IF Accepted(P) THEN LowerModule(P) ELSE NoCode]
Passes    == [mean |-> Means, analyse |-> Analyses, lower |-> Lowerings]

Init == /\ \E family \in Programs : prog \in family
        /\ phase = "source" /\ meant = Pass.mean[prog]
        /\ code = NoCode /\ statics = [n \in {} |-> 0] /\ mem = <<>> /\ heap = [p \in {} |-> 0]
        /\ frames = <<>> /\ current = NoException /\ out = <<>> /\ status = "idle"

analyse_module_bodies(P) ==
  /\ phase = "source"
  /\ phase' = IF Pass.analyse[P] THEN "checked" ELSE "rejected"
  /\ UNCHANGED <<prog, meant, code, statics, mem, heap, frames, current, out, status>>

(* The variables of a module are globals that start as zero.               *)
RECURSIVE StaticCells(_, _, _)
StaticCells(vs, names, m) ==
  IF names = {} THEN [at |-> [n \in {} |-> 0], mem |-> m]
  ELSE LET n == CHOOSE n \in names : TRUE
           rest == StaticCells(vs, names \ {n}, m \o Cells(vs[n], 0))
       IN  [at |-> (n :> Len(m) + 1) @@ rest.at, mem |-> rest.mem]

lower_module(P) ==
  /\ phase = "checked"
  /\ phase' = "lowered"
  /\ \E c \in {Pass.lower[P]} : code' = c
  /\ \E s \in {StaticCells(P.vars, DOMAIN P.vars, <<>>)} : statics' = s.at /\ mem' = s.mem
  /\ UNCHANGED <<prog, meant, heap, frames, current, out, status>>

run_module ==
  /\ phase = "lowered" /\ phase' = "running" /\ status' = "running"
  /\ \E a \in {Activation("body", <<>>, FALSE, Len(mem) + 1)} :
       frames' = <<a.frame>> /\ mem' = mem \o a.cells
  /\ UNCHANGED <<prog, meant, code, statics, heap, current, out>>

Step == \/ Compute \/ LoadCell \/ StoreCell \/ New \/ Free
        \/ CallFunction \/ nm2_run_protected \/ ReturnFrom \/ Branch \/ Trap
        \/ nm2_raise \/ nm2_raise_m2 \/ nm2_raise_guard \/ nm2_assert_failed \/ nm2_reraise
        \/ nm2_exception_handled \/ nm2_is_exceptional_execution \/ nm2_halt \/ nm2_alloc
        \/ WriteInt \/ Create
        \/ Rtti(prog.base) \/ QueryInterface(prog.supports) \/ Release

Execute == phase = "running" /\ Step /\ UNCHANGED <<prog, meant, phase>>

Next == analyse_module_bodies(prog) \/ lower_module(prog) \/ run_module \/ Execute

(* A program that was started goes on running.                             *)
Spec == Init /\ [][Next]_vars /\ WF_vars(Execute)

(***************************************************************************)
(* What the compiler promises.                                             *)
(***************************************************************************)
Ended == status \in {"done", "halted", "uncaught", "fault", "corrupt", "trap", "panic"}

StatusOf(ctl) == CASE ctl \in {"go", "return"} -> "done"
                   [] ctl = "raise" -> "uncaught"
                   [] ctl = "halt"  -> "halted"
                   [] OTHER         -> ctl

(* The program has a meaning, and meets none of the known divergences but
   those allowed.                                                          *)
Promised(allowed) == meant.ctl # "off" /\ meant.known \subseteq allowed
(* The run that ended did what the program means.                          *)
AsMeant == /\ out = meant.out /\ status = StatusOf(meant.ctl)
           /\ status = "uncaught" => current = meant.exc

(* A compiled program prints what its text means, and ends the way the text
   means it to end: normally, by HALT, or with the very exception that no
   handler took.  It is about the whole path of a program through
   analyse_module_bodies, lower_module and the code lower.rs emits.        *)
MeansWhatItSays == Promised({}) /\ Ended => AsMeant
(* The analysis is sound: a program it lets through never, when it runs,
   falls off the end of a function (seq_completes), meets a CASE with two
   arms for one value, leaves the arm of an interface by EXIT, RETURN or
   RETRY (guard_arm_nonlocal_exit), or has an operand, a test, an index, a
   value that is assigned, passed or returned of a kind its place does not
   take (analyse_expr, check_condition, expr_compatible_with_type).        *)
NeverGoesWrong == phase = "checked" /\ meant.known = {} => meant.ctl # "wrong"
(* What a program that ends normally leaves of the runtime behind: no
   exception is current; every exception frame is freed, also where a handler
   returns, retries or handles another exception, except one for each time
   that a handler or a FINALLY part was itself left by an exception; and every
   object behind a COM interface has its creator's reference alone, except one
   more for each time that an arm of a GUARD was left by an exception.  The
   second exception is documented (lower.rs:2592-2596); the first is against
   the comment of frame_to_free, "free on every exit path"
   (lower.rs:1293-1295).                                                   *)
Frames     == {p \in DOMAIN heap : heap[p].class = "frame"}
References == MapThenSumSet(LAMBDA p : heap[p].refs - 1, DOMAIN heap)
CleansUp ==
  status = "done" =>
    /\ Promised({}) => current = NoException
    /\ Promised({"handler", "nested"}) =>
         Cardinality(Frames) = meant.framesLeft /\ References = meant.refsLeft
(* A program whose meaning is to end does end when it is run: its loops do
   not go round past the last value of their type.                         *)
Ends == (phase = "running" /\ Promised({})) ~> Ended
=============================================================================
