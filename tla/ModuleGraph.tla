---------------------------- MODULE ModuleGraph ----------------------------
(***************************************************************************)
(* The module loader (src/src/newm2-loader/src/loader.rs): the compiler    *)
(* starts from the entry file, force-loads the extra roots, follows        *)
(* imports with a worklist and sorts the loaded modules by a depth-first   *)
(* walk.  The order it returns is the order in which module bodies run.    *)
(*                                                                         *)
(* A name is a number, so that `names.sort()' is the order of numbers.     *)
(* What the file system answers for a name is one record of `disk': which  *)
(* file the name resolves to and which names its DEFINITION and its        *)
(* IMPLEMENTATION import.  The tree does not change while it is compiled.  *)
(* Modules are referred to by name instead of ModuleId: by_name maps each  *)
(* name to one id, the position of the name in `modules'.                  *)
(***************************************************************************)
EXTENDS Naturals, Sequences

CONSTANTS Name,        \* module names that occur in the source tree
          Entry,       \* the module the compiler is invoked on
          Intrinsic,   \* SYSTEM, COROUTINES: provided by the compiler
          Disk,        \* the source trees: what each name resolves to
          ExtraRoots   \* the lists of names the driver may force-load

ASSUME NameAssumption ==
    /\ Name \subseteq Nat
    /\ Entry \in Name
    /\ Intrinsic \subseteq Name \ {Entry}

\* One answer: no file; a file that does not parse or declares another name;
\* a def of the Win32 index; a def of the search path with its implementation.
SourceRecord == [where : {"missing", "bad", "finder", "path"},
                 def   : SUBSET Name,
                 impl  : SUBSET Name]

ASSUME SourceAssumption ==
    /\ Disk \subseteq [Name -> SourceRecord]
    /\ ExtraRoots \subseteq Seq(Name)

VARIABLES disk,      \* [Name -> SourceRecord]: what each name resolves to
          extra,     \* the extra roots of this compilation
          pc,        \* where the loader is
          modules,   \* g.modules, in ModuleId order
          queue,     \* the worklist, popped from the end
          next,      \* index of the loops over extra_roots and over modules
          cur,       \* the module whose imports are being resolved
          todo,      \* the import names of cur not yet resolved
          imports,   \* g.modules[id].imports, as a set of names
          mark,      \* New, Visiting or Done
          stack,     \* the frames of the recursive visit
          order      \* g.topo_order

vars == <<disk, extra, pc, modules, queue, next, cur, todo, imports, mark, stack, order>>

loading == <<modules, queue, imports>>
sorting == <<mark, stack, order>>

-----------------------------------------------------------------------------
Elems(s) == {s[i] : i \in DOMAIN s}

Loaded == Elems(modules)

\* The imports of a module come from its DEFINITION and, when one is paired
\* with it, from its IMPLEMENTATION; a def of the Win32 index has no pair.
ImportsOf(n) ==
    IF n \in Intrinsic THEN {}
    ELSE IF disk[n].where = "finder" THEN disk[n].def
    ELSE disk[n].def \cup disk[n].impl

\* No def declares this name, or its files do not parse or declare another.
Broken(n) == n \notin Intrinsic /\ disk[n].where \in {"missing", "bad"}

\* The first name of a sorted list.
First(n, S) == n \in S /\ \A m \in S : n <= m

Frame == [id : Name, rest : SUBSET Name]

Init ==
    /\ disk \in Disk
    /\ extra \in ExtraRoots
    /\ pc = "entry"
    /\ modules = << >> /\ queue = << >>
    /\ next = 1 /\ cur = Entry /\ todo = {}
    /\ imports = [n \in Name |-> {}]
    /\ mark = [n \in Name |-> "New"]
    /\ stack = << >> /\ order = << >>

-----------------------------------------------------------------------------
(* Loading.                                                                *)

\* Parse the entry file and pair its DEFINITION and IMPLEMENTATION.
LoadEntry ==
    /\ pc = "entry"
    /\ IF Broken(Entry)
       THEN pc' = "error" /\ UNCHANGED <<modules, queue>>
       ELSE /\ pc' = "roots"
            /\ modules' = <<Entry>>
            /\ queue' = <<Entry>>
    /\ UNCHANGED <<disk, extra, next, cur, todo, imports, sorting>>

\* Outcome of resolve_or_load for a name that resolves.
ResolveOrLoad(n) ==
    \/ /\ n \in Loaded
       /\ UNCHANGED <<modules, queue>>
    \/ /\ n \notin Loaded
       /\ n \in Intrinsic
       /\ modules' = Append(modules, n)
       /\ UNCHANGED queue
    \/ /\ n \notin Loaded
       /\ n \notin Intrinsic
       /\ ~ Broken(n)
       /\ modules' = Append(modules, n)
       /\ queue' = Append(queue, n)

\* Mutant: an intrinsic is looked for on disk.
ResolveFails_IntrinsicOnDisk(n) ==
    /\ n \notin Loaded
    /\ disk[n].where \in {"missing", "bad"}
    /\ pc' = "error"
    /\ UNCHANGED <<modules, queue>>

\* resolve_or_load returns an error, and `?' abandons the compilation.
ResolveFails(n) ==
    /\ n \notin Loaded
    /\ Broken(n)
    /\ pc' = "error"
    /\ UNCHANGED <<modules, queue>>

LoadExtraRoot ==
    /\ pc = "roots"
    /\ next <= Len(extra)
    /\ \/ ResolveOrLoad(extra[next]) /\ UNCHANGED pc
       \/ ResolveFails(extra[next])
    /\ next' = next + 1
    /\ UNCHANGED <<disk, extra, cur, todo, imports, sorting>>

RootsLoaded ==
    /\ pc = "roots"
    /\ next > Len(extra)
    /\ pc' = "pop"
    /\ UNCHANGED <<disk, extra, next, cur, todo, loading, sorting>>

\* Mutant: the worklist is read but not popped.
PopQueue_Peek ==
    /\ pc = "pop"
    /\ queue # << >>
    /\ cur' = queue[Len(queue)]
    /\ todo' = ImportsOf(cur')
    /\ pc' = "resolve"
    /\ UNCHANGED <<disk, extra, next, modules, queue, imports, sorting>>

PopQueue ==
    /\ pc = "pop"
    /\ queue # << >>
    /\ cur' = queue[Len(queue)]
    /\ queue' = SubSeq(queue, 1, Len(queue) - 1)
    /\ todo' = ImportsOf(cur')
    /\ pc' = "resolve"
    /\ UNCHANGED <<disk, extra, next, modules, imports, sorting>>

ResolveImport ==
    /\ pc = "resolve"
    /\ \E n \in todo :
         /\ First(n, todo)
         /\ todo' = todo \ {n}
         /\ \/ ResolveOrLoad(n) /\ UNCHANGED pc
            \/ ResolveFails(n)
    /\ UNCHANGED <<disk, extra, next, cur, imports, sorting>>

SetImports ==
    /\ pc = "resolve"
    /\ todo = {}
    /\ imports' = [imports EXCEPT ![cur] = ImportsOf(cur)]
    /\ pc' = "pop"
    /\ UNCHANGED <<disk, extra, next, cur, todo, modules, queue, sorting>>

\* Mutant: the loop over the modules starts one before the first.
StartSort_ZeroBased ==
    /\ pc = "pop"
    /\ queue = << >>
    /\ next' = 0
    /\ pc' = "sort"
    /\ UNCHANGED <<disk, extra, cur, todo, loading, sorting>>

StartSort ==
    /\ pc = "pop"
    /\ queue = << >>
    /\ next' = 1
    /\ pc' = "sort"
    /\ UNCHANGED <<disk, extra, cur, todo, loading, sorting>>

-----------------------------------------------------------------------------
(* topo_sort: `visit' is recursive; stack holds its active calls.          *)

\* Mutant: the order is filled on the way down.
Enter_PreOrder(n) ==
    /\ mark' = [mark EXCEPT ![n] = "Visiting"]
    /\ order' = Append(order, n)

\* The call visit(n) of a New module.
Enter(n) ==
    /\ mark' = [mark EXCEPT ![n] = "Visiting"]
    /\ UNCHANGED order

\* Mutant: the roots of the walk are tried from the last id down.
VisitRoot_FromTheEnd ==
    /\ pc = "sort"
    /\ stack = << >>
    /\ next <= Len(modules)
    /\ LET n == modules[Len(modules) + 1 - next] IN
         IF mark[n] = "New"
         THEN /\ Enter(n)
              /\ stack' = <<[id |-> n, rest |-> imports[n]]>>
         ELSE UNCHANGED sorting
    /\ next' = next + 1
    /\ UNCHANGED <<disk, extra, pc, cur, todo, loading>>

VisitRoot ==
    /\ pc = "sort"
    /\ stack = << >>
    /\ next <= Len(modules)
    /\ LET n == modules[next] IN
         IF mark[n] = "New"
         THEN /\ Enter(n)
              /\ stack' = <<[id |-> n, rest |-> imports[n]]>>
         ELSE UNCHANGED sorting
    /\ next' = next + 1
    /\ UNCHANGED <<disk, extra, pc, cur, todo, loading>>

\* A Done child is behind us; a Visiting one closes a cycle, whose back-edge
\* is dropped without an error.
VisitChild ==
    /\ pc = "sort"
    /\ stack # << >>
    /\ LET k == Len(stack) IN
         \E n \in stack[k].rest :
           /\ First(n, stack[k].rest)
           /\ LET popped == [stack EXCEPT ![k].rest = @ \ {n}] IN
                IF mark[n] = "New"
                THEN /\ Enter(n)
                     /\ stack' = Append(popped, [id |-> n, rest |-> imports[n]])
                ELSE /\ stack' = popped
                     /\ UNCHANGED <<mark, order>>
    /\ UNCHANGED <<disk, extra, pc, next, cur, todo, loading>>

Leave ==
    /\ pc = "sort"
    /\ stack # << >>
    /\ LET k == Len(stack) IN
         /\ stack[k].rest = {}
         /\ mark' = [mark EXCEPT ![stack[k].id] = "Done"]
         /\ order' = Append(order, stack[k].id)
         /\ stack' = SubSeq(stack, 1, k - 1)
    /\ UNCHANGED <<disk, extra, pc, next, cur, todo, loading>>

\* Mutant: only the entry is a root of the walk.
FinishSort_EntryOnly ==
    /\ pc = "sort"
    /\ stack = << >>
    /\ next > 1
    /\ pc' = "done"
    /\ UNCHANGED <<disk, extra, next, cur, todo, loading, sorting>>

FinishSort ==
    /\ pc = "sort"
    /\ stack = << >>
    /\ next > Len(modules)
    /\ pc' = "done"
    /\ UNCHANGED <<disk, extra, next, cur, todo, loading, sorting>>

\* build_module_graph has returned.
Returned == pc \in {"done", "error"} /\ UNCHANGED vars

Step ==
    \/ LoadEntry \/ LoadExtraRoot \/ RootsLoaded
    \/ PopQueue \/ ResolveImport \/ SetImports \/ StartSort
    \/ VisitRoot \/ VisitChild \/ Leave \/ FinishSort

Next == Step \/ Returned

Spec == Init /\ [][Next]_vars

\* The loader is one sequential call: it keeps taking its next step.
FairSpec == Spec /\ WF_vars(Step)

-----------------------------------------------------------------------------
(* Reachability along imports, as the least closed set: closed sets are    *)
(* what both the checker and the proofs can handle.                        *)

Closed(C) == \A n \in C : ImportsOf(n) \subseteq C

Reaches(a, b) == \A C \in SUBSET Name : a \in C /\ Closed(C) => b \in C

Roots == {Entry} \cup Elems(extra)

Reachable == {n \in Name : \E r \in Roots : Reaches(r, n)}

Before(a, b) == \E i, j \in 1..Len(order) : i < j /\ order[i] = a /\ order[j] = b

-----------------------------------------------------------------------------
(* Properties.                                                             *)

\* Every variable of the loader keeps its type.
TypeOK ==
    /\ disk \in [Name -> SourceRecord]
    /\ extra \in Seq(Name)
    /\ pc \in {"entry", "roots", "pop", "resolve", "sort", "done", "error"}
    /\ modules \in Seq(Name)
    /\ queue \in Seq(Name)
    /\ next \in Nat \ {0}
    /\ cur \in Name
    /\ todo \in SUBSET Name
    /\ imports \in [Name -> SUBSET Name]
    /\ mark \in [Name -> {"New", "Visiting", "Done"}]
    /\ stack \in Seq(Frame)
    /\ order \in Seq(Name)

\* A name is given one ModuleId, however many modules import it and whether
\* or not it is also the entry or an extra root: add_module runs once per name.
EachModuleOnce ==
    \A i, j \in 1..Len(modules) : modules[i] = modules[j] => i = j

\* In the order topo_sort builds, a module comes after every module it
\* imports, except where the import is part of a cycle: only a module that
\* can reach the importer again may initialise after it.
DependencyFirst ==
    \A b \in Elems(order) : \A a \in ImportsOf(b) : Before(a, b) \/ Reaches(a, b)

\* topo_order holds exactly the modules that the entry and the extra roots
\* reach, each of them once; when a reachable module cannot be loaded there
\* is no order at all.
OrderIsReachableSet ==
    pc = "done" =>
        /\ Elems(order) = Reachable
        /\ \A i, j \in 1..Len(order) : order[i] = order[j] => i = j
        /\ \A n \in Reachable : ~ Broken(n)

\* A compilation is refused only for a reachable module that cannot be loaded.
ErrorHasCause == pc = "error" => \E n \in Reachable : Broken(n)

\* Without extra roots the entry module's body is the last to run.
EntryLastWithoutExtras ==
    pc = "done" /\ extra = << >> => order[Len(order)] = Entry

\* Cyclic imports included, the loader always returns.
LoaderReturns == <>(pc \in {"done", "error"})
=============================================================================
