--------------------------- MODULE CompileAndRun ----------------------------
(***************************************************************************)
(* The driver's `run' and `build' pipelines: the module loader, then the   *)
(* runner on the order the loader returned.  The loader decides in which   *)
(* order bodies run and the runner which of them are finalized, so the     *)
(* promise a module relies on (Lifecycle) is one of the two together.      *)
(***************************************************************************)
EXTENDS ProgramRun

CONSTANTS Entry, Intrinsic, Disk, ExtraRoots

VARIABLES disk, extra, pc, modules, queue, next, cur, todo, imports,
          mark, stack, order,
          lowered    \* modules of the order that the driver has lowered

Loader == INSTANCE ModuleGraph

ASSUME TreeAssumption ==
    /\ Name \subseteq Nat
    /\ Entry \in Name
    /\ Intrinsic \subseteq Name \ {Entry}
    /\ Disk \subseteq [Name -> Loader!SourceRecord]
    /\ ExtraRoots \subseteq Seq(Name)

loaderVars == <<disk, extra, pc, modules, queue, next, cur, todo, imports,
                mark, stack, order>>
vars == <<loaderVars, lowered, runVars>>

Init == Loader!Init /\ lowered = 0 /\ RunInit

Load == Loader!Step /\ UNCHANGED <<lowered, runVars>>

\* The module graph could not be built, or sema found errors in it.
RefuseBroken ==
    /\ pc \in {"error", "done"}
    /\ lowered = 0
    /\ Refuse
    /\ UNCHANGED <<loaderVars, lowered>>

\* sema found no errors: the modules are lowered in the order of the loader.
\* lower_module_opts has nothing to lower for an intrinsic module.
LowerModule ==
    /\ pc = "done"
    /\ lowered < Len(order)
    /\ LET n == order[lowered + 1]
       IN  IF n \in Intrinsic THEN Skip ELSE Lower(n)
    /\ lowered' = lowered + 1
    /\ UNCHANGED loaderVars

\* The code generator, the verifier or the engine refuses the lowered modules:
\* emission, optimisation, the object layer, a symbol or a vtable.
RefuseCode ==
    /\ pc = "done"
    /\ lowered = Len(order)
    /\ Refuse
    /\ UNCHANGED <<loaderVars, lowered>>

\* The emission of the object changes no state of the run.
LaunchLoaded ==
    /\ pc = "done"
    /\ lowered = Len(order)
    /\ Launch
    /\ UNCHANGED <<loaderVars, lowered>>

RunProgram == RunStep /\ UNCHANGED <<loaderVars, lowered>>

Exited == phase = "exited" /\ UNCHANGED vars

Step == Load \/ RefuseBroken \/ LowerModule \/ RefuseCode \/ LaunchLoaded \/ RunProgram

Next == Step \/ Exited

\* The driver and the program are one thread; bodies and finalizers that
\* never return are not considered.
Spec == Init /\ [][Next]_vars /\ WF_vars(Step)

-----------------------------------------------------------------------------
(* Properties.                                                             *)

TypeOK == Loader!TypeOK /\ lowered \in 0..Len(order) /\ RunTypeOK

\* A module depends on what it imports, unless the import is part of a cycle:
\* then the language leaves the order open.
Dependencies ==
    [n \in Name |-> {d \in Loader!ImportsOf(n) \ Intrinsic : ~ Loader!Reaches(d, n)}]

Lived(n, part) == {i \in DOMAIN seen : seen[i].module = n /\ seen[i].part = part}

LifeOf(n) ==
    IF Lived(n, "final") # {} THEN "down"
    ELSE IF \E i \in Lived(n, "body") : seen[i].out.kind = "failed" THEN "failed"
    ELSE IF Lived(n, "body") # {} THEN "up"
    ELSE "cold"

Life == INSTANCE Lifecycle WITH Module <- Name,
                                dep <- Dependencies,
                                state <- [n \in Name |-> LifeOf(n)]

\* Loader and runner together keep the promise made to every module: its
\* imports are initialised before it and finalized after it, on every graph
\* and however bodies and finalizers end.
KeepsLifecycle == Life!Spec

\* A process that is started ends, also with cyclic imports, and by then
\* everything that was initialised has been finalized.
RunsToTheEnd == <>(phase = "exited" /\ \A n \in Name : LifeOf(n) # "up")
=============================================================================
