------------------------- MODULE ModuleGraph_proofs -------------------------
(***************************************************************************)
(* Proofs about the module loader, for every set of names, every source    *)
(* tree and every list of extra roots.                                     *)
(***************************************************************************)
EXTENDS ModuleGraph, SequenceTheorems, TLAPS

-----------------------------------------------------------------------------
(* Sequences.                                                              *)

\* Appending to a sequence adds one element: every push of the loader.
LEMMA ElemsAppend ==
    ASSUME NEW S, NEW s \in Seq(S), NEW e \in S
    PROVE  /\ Append(s, e) \in Seq(S)
           /\ Len(Append(s, e)) = Len(s) + 1
           /\ \A i \in 1..Len(s) : Append(s, e)[i] = s[i]
           /\ Append(s, e)[Len(s) + 1] = e
           /\ Elems(Append(s, e)) = Elems(s) \cup {e}
<1>1. /\ Append(s, e) \in Seq(S)
      /\ Len(Append(s, e)) = Len(s) + 1
      /\ \A i \in 1..Len(s) : Append(s, e)[i] = s[i]
      /\ Append(s, e)[Len(s) + 1] = e
  OBVIOUS
<1>2. DOMAIN Append(s, e) = 1..(Len(s) + 1) /\ DOMAIN s = 1..Len(s)
  BY <1>1
<1>3. Len(s) \in Nat
  OBVIOUS
<1>4. Elems(Append(s, e)) = Elems(s) \cup {e}
  BY <1>1, <1>2, <1>3 DEF Elems
<1> QED BY <1>1, <1>4

\* Dropping the last element of a sequence: every pop of the loader.
LEMMA ElemsFront ==
    ASSUME NEW S, NEW s \in Seq(S), s # << >>
    PROVE  LET f == SubSeq(s, 1, Len(s) - 1) IN
           /\ Len(s) \in Nat \ {0}
           /\ s[Len(s)] \in S
           /\ f \in Seq(S)
           /\ Len(f) = Len(s) - 1
           /\ \A i \in 1..(Len(s) - 1) : f[i] = s[i]
           /\ Elems(s) = Elems(f) \cup {s[Len(s)]}
<1> DEFINE f == SubSeq(s, 1, Len(s) - 1)
<1>1. Len(s) \in Nat \ {0}
  OBVIOUS
<1>2. s[Len(s)] \in S
  BY <1>1
<1>8. /\ f \in Seq(S)
      /\ Len(f) = IF 1 <= Len(s) - 1 THEN (Len(s) - 1) - 1 + 1 ELSE 0
      /\ \A i \in 1..((Len(s) - 1) - 1 + 1) : f[i] = s[1 + i - 1]
  BY <1>1, SubSeqProperties
<1> HIDE DEF f
<1>3. f \in Seq(S)
  BY <1>8
<1>4. Len(f) = Len(s) - 1
  <2>1. CASE Len(s) = 1
    BY <1>8, <2>1
  <2>2. CASE Len(s) > 1
    BY <1>1, <1>8, <2>2
  <2> QED BY <1>1, <2>1, <2>2
<1>5. \A i \in 1..(Len(s) - 1) : f[i] = s[i]
  BY <1>1, <1>8
<1>6. DOMAIN f = 1..(Len(s) - 1) /\ DOMAIN s = 1..Len(s)
  BY <1>3, <1>4
<1>7. Elems(s) = Elems(f) \cup {s[Len(s)]}
  <2>1. \A i \in DOMAIN s : i \in DOMAIN f \/ i = Len(s)
    BY <1>1, <1>6
  <2>2. \A i \in DOMAIN f : i \in DOMAIN s /\ f[i] = s[i]
    BY <1>1, <1>5, <1>6
  <2>3. Len(s) \in DOMAIN s
    BY <1>1, <1>6
  <2> QED BY <2>1, <2>2, <2>3, Zenon DEF Elems
<1> QED BY <1>1, <1>2, <1>3, <1>4, <1>5, <1>7 DEF f

-----------------------------------------------------------------------------
(* The inductive invariant.                                                *)

Parsed == pc \in {"roots", "pop", "resolve", "sort", "done"}

\* What the worklist has established: no name twice, nothing unreachable,
\* and every loaded module is still queued, being resolved, or resolved.
LoadInv ==
    /\ EachModuleOnce
    /\ Loaded \subseteq Reachable
    /\ pc = "entry" => modules = << >> /\ next = 1
    /\ Parsed => /\ modules # << >>
                 /\ modules[1] = Entry
                 /\ \A n \in Loaded : ~ Broken(n)
    /\ Elems(queue) \subseteq Loaded
    /\ \A n \in Name \ Loaded : imports[n] = {}
    /\ \A n \in Intrinsic : imports[n] = {}
    /\ Parsed => \A n \in Loaded \ Intrinsic :
                   \/ n \in Elems(queue)
                   \/ pc = "resolve" /\ n = cur
                   \/ imports[n] = ImportsOf(n) /\ ImportsOf(n) \subseteq Loaded
    /\ pc = "resolve" => /\ cur \in Loaded
                         /\ todo \subseteq ImportsOf(cur)
                         /\ ImportsOf(cur) \ todo \subseteq Loaded
    /\ pc = "roots" => \A i \in 1..Len(extra) : i < next => extra[i] \in Loaded
    /\ pc \in {"pop", "resolve", "sort", "done"} => Elems(extra) \subseteq Loaded
    /\ pc \in {"sort", "done"} => queue = << >>
    /\ ErrorHasCause

\* What the depth-first walk has established.  The frames of the stack are
\* a path of the import graph, a child that has been tried is not New, and
\* so the children of a Done module are Done or on the stack.
SortInv ==
    /\ pc \notin {"sort", "done"} =>
           /\ mark = [n \in Name |-> "New"]
           /\ stack = << >>
           /\ order = << >>
    /\ Elems(order) = {n \in Name : mark[n] = "Done"}
    /\ \A i, j \in 1..Len(order) : order[i] = order[j] => i = j
    /\ \A n \in Name : mark[n] = "Visiting" => \E i \in 1..Len(stack) : stack[i].id = n
    /\ \A i \in 1..Len(stack) : mark[stack[i].id] = "Visiting"
    /\ \A i, j \in 1..Len(stack) : stack[i].id = stack[j].id => i = j
    /\ \A i, j \in 1..Len(stack) : i <= j => Reaches(stack[i].id, stack[j].id)
    /\ \A i \in 1..Len(stack) :
           /\ stack[i].rest \subseteq ImportsOf(stack[i].id)
           /\ \A c \in ImportsOf(stack[i].id) \ stack[i].rest : mark[c] # "New"
    /\ \A n \in Name : mark[n] = "Done" => \A c \in ImportsOf(n) : mark[c] # "New"
    /\ \A n \in Name : mark[n] # "New" => n \in Loaded
    /\ DependencyFirst
    /\ pc = "sort" => \A i \in 1..Len(modules) : i < next => mark[modules[i]] # "New"
    /\ pc = "done" => stack = << >> /\ \A n \in Loaded : mark[n] = "Done"

\* Why the entry comes last when nothing was force-loaded: it is the bottom
\* frame of the walk until it is Done, and then everything loaded is Done.
EntryInv ==
    /\ pc = "sort" /\ mark[Entry] = "New" => next = 1 /\ stack = << >>
    /\ stack # << >> /\ mark[Entry] # "Done" => stack[1].id = Entry
    /\ extra = << >> /\ mark[Entry] = "Done" =>
           /\ order # << >>
           /\ order[Len(order)] = Entry
           /\ \A n \in Loaded : mark[n] = "Done"

IInv == TypeOK /\ LoadInv /\ SortInv /\ EntryInv

-----------------------------------------------------------------------------
(* The import graph.                                                       *)

\* Imports lead from names to names.
LEMMA ImportsType ==
    ASSUME TypeOK, NEW n \in Name
    PROVE  ImportsOf(n) \subseteq Name
BY DEF TypeOK, ImportsOf, SourceRecord

\* Reachability is reflexive and follows imports.
LEMMA ReachesFacts ==
    ASSUME NEW a \in Name
    PROVE  /\ Reaches(a, a)
           /\ \A b \in Name : Reaches(a, b) => \A c \in ImportsOf(b) : Reaches(a, c)
BY DEF Reaches, Closed

\* What a reachable module imports is reachable.
LEMMA ReachableClosed ==
    ASSUME TypeOK, NEW n \in Reachable, NEW c \in ImportsOf(n)
    PROVE  c \in Reachable
<1>1. n \in Name /\ c \in Name
  BY ImportsType DEF Reachable
<1>2. PICK r \in Roots : Reaches(r, n)
  BY DEF Reachable
<1>3. r \in Name
  BY <1>2, NameAssumption DEF Roots, Elems, TypeOK
<1>4. Reaches(r, c)
  BY <1>1, <1>2, <1>3, ReachesFacts
<1> QED BY <1>1, <1>4 DEF Reachable

\* The source tree and the extra roots are fixed, and with them everything
\* that is defined from them.
LEMMA GraphFixed ==
    ASSUME UNCHANGED <<disk, extra>>
    PROVE  /\ \A n : ImportsOf(n)' = ImportsOf(n)
           /\ \A n : Broken(n)' = Broken(n)
           /\ \A a, b : Reaches(a, b)' = Reaches(a, b)
           /\ Reachable' = Reachable
<1>1. \A n : ImportsOf(n)' = ImportsOf(n)
  BY DEF ImportsOf
<1>2. \A n : Broken(n)' = Broken(n)
  BY DEF Broken
<1>3. \A C : Closed(C)' = Closed(C)
  BY <1>1 DEF Closed
<1>4. \A a, b : Reaches(a, b)' = Reaches(a, b)
  BY <1>3 DEF Reaches
<1>5. Roots' = Roots
  BY DEF Roots, Elems
<1>6. Reachable' = Reachable
  BY <1>4, <1>5 DEF Reachable
<1> QED BY <1>1, <1>2, <1>4, <1>6

LEMMA TreeUnchanged == [Next]_vars => UNCHANGED <<disk, extra>>
BY DEF Next, Step, vars, LoadEntry, LoadExtraRoot, RootsLoaded, PopQueue, ResolveImport,
       SetImports, StartSort, VisitRoot, VisitChild, Leave, FinishSort, Returned

-----------------------------------------------------------------------------
(* Types.                                                                  *)

LEMMA TypeInit == Init => TypeOK
BY NameAssumption, SourceAssumption DEF Init, TypeOK

\* resolve_or_load adds at most its name to the modules and to the worklist.
LEMMA ResolveEffect ==
    ASSUME TypeOK, NEW n \in Name, ResolveOrLoad(n) \/ ResolveFails(n)
    PROVE  /\ modules' \in Seq(Name)
           /\ queue' \in Seq(Name)
<1>1. Append(modules, n) \in Seq(Name) /\ Append(queue, n) \in Seq(Name)
  BY ElemsAppend DEF TypeOK
<1> QED BY <1>1 DEF TypeOK, ResolveOrLoad, ResolveFails

LEMMA TypeStep == TypeOK /\ [Next]_vars => TypeOK'
<1> SUFFICES ASSUME TypeOK, [Next]_vars PROVE TypeOK'
  OBVIOUS
<1> USE DEF loading, sorting
<1>1. CASE LoadEntry
  <2>1. <<Entry>> \in Seq(Name)
    BY NameAssumption
  <2> QED BY <1>1, <2>1 DEF LoadEntry, TypeOK
<1>2. CASE LoadExtraRoot
  <2>1. extra[next] \in Name
    BY <1>2 DEF LoadExtraRoot, TypeOK
  <2>2. modules' \in Seq(Name) /\ queue' \in Seq(Name)
    BY <1>2, <2>1, ResolveEffect DEF LoadExtraRoot
  <2>3. pc' \in {pc, "error"}
    BY <1>2 DEF LoadExtraRoot, ResolveFails
  <2> QED BY <1>2, <2>2, <2>3 DEF LoadExtraRoot, TypeOK
<1>3. CASE RootsLoaded
  BY <1>3 DEF RootsLoaded, TypeOK
<1>4. CASE PopQueue
  <2>1. cur' \in Name /\ queue' \in Seq(Name)
    BY <1>4, ElemsFront DEF PopQueue, TypeOK
  <2>2. ImportsOf(cur') \subseteq Name
    BY <2>1, ImportsType
  <2> QED BY <1>4, <2>1, <2>2 DEF PopQueue, TypeOK
<1>5. CASE ResolveImport
  <2>1. modules' \in Seq(Name) /\ queue' \in Seq(Name)
    BY <1>5, ResolveEffect DEF ResolveImport, TypeOK
  <2>2. pc' \in {pc, "error"} /\ todo' \subseteq todo
    BY <1>5 DEF ResolveImport, ResolveFails
  <2> QED BY <1>5, <2>1, <2>2 DEF ResolveImport, TypeOK
<1>6. CASE SetImports
  <2>1. ImportsOf(cur) \subseteq Name
    BY ImportsType DEF TypeOK
  <2> QED BY <1>6, <2>1 DEF SetImports, TypeOK
<1>7. CASE StartSort
  BY <1>7 DEF StartSort, TypeOK
<1>8. CASE VisitRoot
  <2>1. modules[next] \in Name
    BY <1>8 DEF VisitRoot, TypeOK
  <2>2. [id |-> modules[next], rest |-> imports[modules[next]]] \in Frame
    BY <2>1 DEF Frame, TypeOK
  <2>3. <<[id |-> modules[next], rest |-> imports[modules[next]]]>> \in Seq(Frame)
    BY <2>2
  <2>4. stack' \in Seq(Frame)
    BY <1>8, <2>3 DEF VisitRoot, TypeOK
  <2>5. mark' \in [Name -> {"New", "Visiting", "Done"}] /\ order' \in Seq(Name)
    BY <1>8, <2>1 DEF VisitRoot, Enter, TypeOK
  <2> QED BY <1>8, <2>4, <2>5 DEF VisitRoot, TypeOK
<1>9. CASE VisitChild
  <2> DEFINE k == Len(stack)
  <2>1. k \in 1..Len(stack) /\ stack[k] \in Frame
    BY <1>9 DEF VisitChild, TypeOK
  <2>2. PICK n \in stack[k].rest :
          LET popped == [stack EXCEPT ![k].rest = @ \ {n}] IN
            IF mark[n] = "New"
            THEN /\ Enter(n)
                 /\ stack' = Append(popped, [id |-> n, rest |-> imports[n]])
            ELSE stack' = popped /\ UNCHANGED <<mark, order>>
    BY <1>9 DEF VisitChild
  <2> DEFINE popped == [stack EXCEPT ![k].rest = @ \ {n}]
  <2>3. n \in Name
    BY <2>1, <2>2 DEF Frame
  <2>4. popped \in Seq(Frame)
    <3>1. [stack[k] EXCEPT !.rest = @ \ {n}] \in Frame
      BY <2>1 DEF Frame
    <3> QED BY <2>1, <3>1 DEF TypeOK
  <2>5. [id |-> n, rest |-> imports[n]] \in Frame
    BY <2>3 DEF Frame, TypeOK
  <2>6. Append(popped, [id |-> n, rest |-> imports[n]]) \in Seq(Frame)
    BY <2>4, <2>5, ElemsAppend
  <2>7. stack' \in Seq(Frame)
    BY <2>2, <2>4, <2>6
  <2>8. mark' \in [Name -> {"New", "Visiting", "Done"}] /\ order' \in Seq(Name)
    BY <2>2, <2>3 DEF Enter, TypeOK
  <2> QED BY <1>9, <2>7, <2>8 DEF VisitChild, TypeOK
<1>10. CASE Leave
  <2>1. Len(stack) \in 1..Len(stack) /\ stack[Len(stack)] \in Frame
    BY <1>10 DEF Leave, TypeOK
  <2>2. stack[Len(stack)].id \in Name
    BY <2>1 DEF Frame
  <2>3. SubSeq(stack, 1, Len(stack) - 1) \in Seq(Frame)
    BY <1>10, ElemsFront DEF Leave, TypeOK
  <2> QED BY <1>10, <2>2, <2>3, ElemsAppend DEF Leave, TypeOK
<1>11. CASE FinishSort
  BY <1>11 DEF FinishSort, TypeOK
<1>12. CASE Returned \/ UNCHANGED vars
  BY <1>12 DEF Returned, vars, TypeOK
<1> QED BY <1>1, <1>2, <1>3, <1>4, <1>5, <1>6, <1>7, <1>8, <1>9, <1>10, <1>11, <1>12
    DEF Next, Step

\* The loader's variables keep their types on every source tree.
THEOREM TypeCorrect == Spec => []TypeOK
BY TypeInit, TypeStep, PTL DEF Spec

-----------------------------------------------------------------------------
(* The worklist.                                                           *)

\* A successful resolve_or_load: the name is loaded, and queued when it has
\* files of its own and is new; ids already given out do not move.
LEMMA ResolveAdds ==
    ASSUME TypeOK, EachModuleOnce, NEW n \in Name, ResolveOrLoad(n)
    PROVE  /\ Loaded' = Loaded \cup {n}
           /\ Elems(queue)' \subseteq Elems(queue) \cup {n}
           /\ Elems(queue) \subseteq Elems(queue)'
           /\ n \notin Loaded /\ n \notin Intrinsic => n \in Elems(queue)'
           /\ n \notin Loaded => ~ Broken(n)
           /\ modules # << >> => modules' # << >> /\ modules'[1] = modules[1]
           /\ EachModuleOnce'
<1>1. CASE n \in Loaded
  <2>1. UNCHANGED <<modules, queue>>
    BY <1>1 DEF ResolveOrLoad
  <2> QED BY <1>1, <2>1 DEF Loaded, Elems, EachModuleOnce
<1>2. CASE n \notin Loaded
  <2>1. modules' = Append(modules, n)
    BY <1>2 DEF ResolveOrLoad
  <2>2. /\ modules' \in Seq(Name)
        /\ Len(modules') = Len(modules) + 1
        /\ \A i \in 1..Len(modules) : modules'[i] = modules[i]
        /\ modules'[Len(modules) + 1] = n
        /\ Elems(modules') = Elems(modules) \cup {n}
    BY <2>1, ElemsAppend DEF TypeOK
  <2>3. \A i \in 1..Len(modules) : modules[i] # n
    BY <1>2 DEF Loaded, Elems, TypeOK
  <2>4. Len(modules) \in Nat
    BY DEF TypeOK
  <2>5. EachModuleOnce'
    BY <2>2, <2>3, <2>4 DEF EachModuleOnce
  <2>6. modules # << >> => modules' # << >> /\ modules'[1] = modules[1]
    BY <2>2, <2>4 DEF TypeOK
  <2>7. \/ n \in Intrinsic /\ queue' = queue
        \/ n \notin Intrinsic /\ ~ Broken(n) /\ queue' = Append(queue, n)
    BY <1>2 DEF ResolveOrLoad
  <2>8. Elems(Append(queue, n)) = Elems(queue) \cup {n}
    BY ElemsAppend DEF TypeOK
  <2>9. n \in Intrinsic => ~ Broken(n)
    BY DEF Broken
  <2>10. Loaded' = Elems(modules') /\ Elems(queue)' = Elems(queue')
    BY DEF Loaded, Elems
  <2>11. Loaded' = Loaded \cup {n}
    BY <2>2, <2>10 DEF Loaded
  <2> QED BY <1>2, <2>11, <2>10, <2>5, <2>6, <2>7, <2>8, <2>9
<1> QED BY <1>1, <1>2

LEMMA LoadInit == Init => LoadInv
<1> SUFFICES ASSUME Init PROVE LoadInv
  OBVIOUS
<1>1. Loaded = {} /\ Elems(queue) = {} /\ EachModuleOnce
  BY DEF Init, Loaded, Elems, EachModuleOnce
<1>2. \A n \in Intrinsic : n \in Name
  BY NameAssumption
<1> QED BY <1>1, <1>2 DEF Init, LoadInv, Parsed, ErrorHasCause

\* Resolving one name of the list in hand keeps what the worklist promises.
LEMMA ResolveKeeps ==
    ASSUME TypeOK, LoadInv, UNCHANGED <<disk, extra, imports, cur, pc>>,
           NEW n \in Reachable, ResolveOrLoad(n), Parsed, pc \notin {"sort", "done"}
    PROVE  /\ EachModuleOnce'
           /\ Loaded' = Loaded \cup {n}
           /\ Loaded' \subseteq Reachable'
           /\ modules' # << >> /\ modules'[1] = Entry
           /\ \A m \in Loaded' : ~ Broken(m)'
           /\ Elems(queue)' \subseteq Loaded'
           /\ \A m \in Name \ Loaded' : imports'[m] = {}
           /\ \A m \in Loaded' \ Intrinsic :
                \/ m \in Elems(queue)'
                \/ pc' = "resolve" /\ m = cur'
                \/ imports'[m] = ImportsOf(m)' /\ ImportsOf(m)' \subseteq Loaded'
<1>1. n \in Name /\ EachModuleOnce
  BY DEF Reachable, LoadInv
<1>2. /\ Loaded' = Loaded \cup {n}
      /\ Elems(queue)' \subseteq Elems(queue) \cup {n}
      /\ Elems(queue) \subseteq Elems(queue)'
      /\ n \notin Loaded /\ n \notin Intrinsic => n \in Elems(queue)'
      /\ n \notin Loaded => ~ Broken(n)
      /\ modules # << >> => modules' # << >> /\ modules'[1] = modules[1]
      /\ EachModuleOnce'
  BY <1>1, ResolveAdds
<1>3. /\ \A m : ImportsOf(m)' = ImportsOf(m)
      /\ \A m : Broken(m)' = Broken(m)
      /\ Reachable' = Reachable
  BY GraphFixed
<1>4. Loaded' \subseteq Reachable'
  BY <1>2, <1>3 DEF LoadInv
<1>5. modules' # << >> /\ modules'[1] = Entry
  BY <1>2 DEF LoadInv
<1>6. \A m \in Loaded' : ~ Broken(m)'
  BY <1>2, <1>3 DEF LoadInv
<1>7. Elems(queue)' \subseteq Loaded' /\ \A m \in Name \ Loaded' : imports'[m] = {}
  BY <1>2 DEF LoadInv
<1>8. ASSUME NEW m \in Loaded' \ Intrinsic
      PROVE  \/ m \in Elems(queue)'
             \/ pc' = "resolve" /\ m = cur'
             \/ imports'[m] = ImportsOf(m)' /\ ImportsOf(m)' \subseteq Loaded'
  <2>1. CASE m \in Loaded
    <3>1. \/ m \in Elems(queue)
          \/ pc = "resolve" /\ m = cur
          \/ imports[m] = ImportsOf(m) /\ ImportsOf(m) \subseteq Loaded
      BY <1>8, <2>1 DEF LoadInv
    <3> QED BY <1>2, <1>3, <3>1
  <2>2. CASE m \notin Loaded
    BY <1>2, <1>8, <2>2
  <2> QED BY <2>1, <2>2
<1> QED BY <1>2, <1>4, <1>5, <1>6, <1>7, <1>8

\* A failing resolve_or_load names a reachable module that cannot be loaded.
LEMMA FailKeeps ==
    ASSUME TypeOK, LoadInv, UNCHANGED <<disk, extra, imports>>,
           NEW n \in Reachable, ResolveFails(n)
    PROVE  LoadInv'
<1>1. /\ \A m : Broken(m)' = Broken(m)
      /\ Reachable' = Reachable
  BY GraphFixed
<1>2. UNCHANGED <<modules, queue>> /\ pc' = "error" /\ Broken(n)
  BY DEF ResolveFails
<1>3. ErrorHasCause'
  BY <1>1, <1>2 DEF ErrorHasCause
<1>4. Loaded' = Loaded /\ Elems(queue)' = Elems(queue) /\ EachModuleOnce' = EachModuleOnce
  BY <1>2 DEF Loaded, Elems, EachModuleOnce
<1> QED BY <1>1, <1>2, <1>3, <1>4 DEF LoadInv, Parsed

LEMMA LoadStep ==
    ASSUME TypeOK, LoadInv, [Next]_vars
    PROVE  LoadInv'
<1> USE DEF loading, sorting
<1>0. /\ UNCHANGED <<disk, extra>>
      /\ \A m : ImportsOf(m)' = ImportsOf(m)
      /\ \A m : Broken(m)' = Broken(m)
      /\ Reachable' = Reachable
  BY TreeUnchanged, GraphFixed
<1>1. CASE LoadEntry
  <2>1. Entry \in Reachable
    BY NameAssumption, ReachesFacts DEF Reachable, Roots
  <2>2. CASE Broken(Entry)
    BY <1>0, <1>1, <2>1, <2>2
       DEF LoadEntry, LoadInv, Parsed, ErrorHasCause, Loaded, Elems, EachModuleOnce
  <2>3. CASE ~ Broken(Entry)
    <3>1. modules' = <<Entry>> /\ queue' = <<Entry>> /\ pc' = "roots" /\ pc = "entry"
      BY <1>1, <2>3 DEF LoadEntry
    <3>2. Loaded' = {Entry} /\ Elems(queue)' = {Entry} /\ EachModuleOnce'
      BY <3>1 DEF Loaded, Elems, EachModuleOnce
    <3>3. UNCHANGED <<imports, next>>
      BY <1>1 DEF LoadEntry
    <3>4. Loaded = {} /\ next' \in Nat
      BY <3>1, <3>3 DEF LoadInv, Loaded, Elems, TypeOK
    <3>5. next' = 1 /\ \A i \in 1..Len(extra) : ~ (i < next')
      BY <3>1, <3>3 DEF LoadInv, TypeOK
    <3> QED BY <1>0, <2>1, <2>3, <3>1, <3>2, <3>3, <3>4, <3>5 DEF LoadInv, Parsed, ErrorHasCause
  <2> QED BY <2>2, <2>3
<1>2. CASE LoadExtraRoot
  <2> DEFINE n == extra[next]
  <2>1. next \in 1..Len(extra) /\ pc = "roots" /\ UNCHANGED <<imports, cur>>
    BY <1>2 DEF LoadExtraRoot, TypeOK
  <2>2. n \in Name /\ n \in Roots
    BY <2>1 DEF TypeOK, Roots, Elems
  <2>3. n \in Reachable
    BY <2>2, ReachesFacts DEF Reachable
  <2>4. CASE ResolveFails(n)
    BY <1>0, <2>1, <2>3, <2>4, FailKeeps
  <2>5. CASE ResolveOrLoad(n) /\ UNCHANGED pc
    <3>1. /\ EachModuleOnce'
          /\ Loaded' = Loaded \cup {n}
          /\ Loaded' \subseteq Reachable'
          /\ modules' # << >> /\ modules'[1] = Entry
          /\ \A m \in Loaded' : ~ Broken(m)'
          /\ Elems(queue)' \subseteq Loaded'
          /\ \A m \in Name \ Loaded' : imports'[m] = {}
          /\ \A m \in Loaded' \ Intrinsic :
               \/ m \in Elems(queue)'
               \/ pc' = "resolve" /\ m = cur'
               \/ imports'[m] = ImportsOf(m)' /\ ImportsOf(m)' \subseteq Loaded'
      BY <1>0, <2>1, <2>3, <2>5, ResolveKeeps DEF Parsed
    <3>2. \A i \in 1..Len(extra) : i < next + 1 => i < next \/ i = next
      BY DEF TypeOK
    <3>3. \A i \in 1..Len(extra') : i < next' => extra'[i] \in Loaded'
      BY <1>0, <1>2, <2>1, <3>1, <3>2 DEF LoadInv, LoadExtraRoot
    <3> QED BY <2>1, <2>5, <3>1, <3>3 DEF LoadInv, ErrorHasCause
  <2> QED BY <1>2, <2>4, <2>5 DEF LoadExtraRoot
<1>3. CASE RootsLoaded
  <2>1. pc = "roots" /\ pc' = "pop" /\ UNCHANGED <<modules, queue, imports, cur, todo>>
    BY <1>3 DEF RootsLoaded
  <2>2. \A i \in 1..Len(extra) : i < next
    BY <1>3 DEF RootsLoaded, TypeOK
  <2>3. Elems(extra) \subseteq Loaded
    BY <2>1, <2>2 DEF LoadInv, Elems, TypeOK
  <2>4. Loaded' = Loaded /\ Elems(queue)' = Elems(queue) /\ EachModuleOnce' = EachModuleOnce
        /\ Elems(extra)' = Elems(extra)
    BY <1>0, <2>1 DEF Loaded, Elems, EachModuleOnce
  <2> QED BY <1>0, <2>1, <2>3, <2>4 DEF LoadInv, Parsed, ErrorHasCause
<1>4. CASE PopQueue
  <2>1. /\ pc = "pop" /\ pc' = "resolve" /\ UNCHANGED <<modules, imports>>
        /\ queue # << >> /\ cur' = queue[Len(queue)]
        /\ queue' = SubSeq(queue, 1, Len(queue) - 1)
        /\ todo' = ImportsOf(cur')
    BY <1>4 DEF PopQueue
  <2>2. Elems(queue) = Elems(queue') \cup {cur'} /\ cur' \in Name
    BY <2>1, ElemsFront DEF TypeOK
  <2>3. Loaded' = Loaded /\ Elems(queue)' = Elems(queue') /\ EachModuleOnce' = EachModuleOnce
        /\ Elems(extra)' = Elems(extra)
    BY <1>0, <2>1 DEF Loaded, Elems, EachModuleOnce
  <2>4. todo' = ImportsOf(cur)' /\ cur' \in Loaded'
    BY <1>0, <2>1, <2>2, <2>3 DEF LoadInv, ImportsOf
  <2>5. \A n \in Loaded' \ Intrinsic :
           \/ n \in Elems(queue)'
           \/ pc' = "resolve" /\ n = cur'
           \/ imports'[n] = ImportsOf(n)' /\ ImportsOf(n)' \subseteq Loaded'
    BY <1>0, <2>1, <2>2, <2>3 DEF LoadInv, Parsed
  <2> QED BY <1>0, <2>1, <2>2, <2>3, <2>4, <2>5 DEF LoadInv, Parsed, ErrorHasCause
<1>5. CASE ResolveImport
  <2>1. PICK n \in todo : /\ todo' = todo \ {n}
                          /\ \/ ResolveOrLoad(n) /\ UNCHANGED pc
                             \/ ResolveFails(n)
    BY <1>5 DEF ResolveImport
  <2>2. pc = "resolve" /\ UNCHANGED <<imports, cur, next>>
    BY <1>5 DEF ResolveImport
  <2>3. n \in ImportsOf(cur) /\ cur \in Reachable
    BY <2>1, <2>2 DEF LoadInv
  <2>4. n \in Reachable
    BY <2>3, ReachableClosed
  <2>5. CASE ResolveFails(n)
    BY <1>0, <2>2, <2>4, <2>5, FailKeeps
  <2>6. CASE ResolveOrLoad(n) /\ UNCHANGED pc
    <3>1. /\ EachModuleOnce'
          /\ Loaded' = Loaded \cup {n}
          /\ Loaded' \subseteq Reachable'
          /\ modules' # << >> /\ modules'[1] = Entry
          /\ \A m \in Loaded' : ~ Broken(m)'
          /\ Elems(queue)' \subseteq Loaded'
          /\ \A m \in Name \ Loaded' : imports'[m] = {}
          /\ \A m \in Loaded' \ Intrinsic :
               \/ m \in Elems(queue)'
               \/ pc' = "resolve" /\ m = cur'
               \/ imports'[m] = ImportsOf(m)' /\ ImportsOf(m)' \subseteq Loaded'
      BY <1>0, <2>2, <2>4, <2>6, ResolveKeeps DEF Parsed
    <3>2. ImportsOf(cur)' = ImportsOf(cur) /\ Elems(extra)' = Elems(extra)
      BY <1>0, <2>2 DEF ImportsOf, Elems
    <3>3. /\ cur' \in Loaded'
          /\ todo' \subseteq ImportsOf(cur)'
          /\ ImportsOf(cur)' \ todo' \subseteq Loaded'
      BY <2>1, <2>2, <3>1, <3>2 DEF LoadInv
    <3> QED BY <2>2, <2>6, <3>1, <3>2, <3>3 DEF LoadInv, ErrorHasCause
  <2> QED BY <2>1, <2>5, <2>6
<1>6. CASE SetImports
  <2>1. /\ pc = "resolve" /\ pc' = "pop" /\ todo = {}
        /\ UNCHANGED <<modules, queue, cur>>
        /\ imports' = [imports EXCEPT ![cur] = ImportsOf(cur)]
    BY <1>6 DEF SetImports
  <2>2. Loaded' = Loaded /\ Elems(queue)' = Elems(queue) /\ EachModuleOnce' = EachModuleOnce
        /\ Elems(extra)' = Elems(extra)
    BY <1>0, <2>1 DEF Loaded, Elems, EachModuleOnce
  <2>3. /\ cur \in Loaded /\ cur \in Name
        /\ ImportsOf(cur) \subseteq Loaded
        /\ \A n \in Name : imports'[n] = IF n = cur THEN ImportsOf(cur) ELSE imports[n]
    BY <2>1 DEF LoadInv, TypeOK
  <2>4. cur \in Intrinsic => ImportsOf(cur) = {}
    BY DEF ImportsOf
  <2>5. Loaded \subseteq Name /\ Intrinsic \subseteq Name
    BY NameAssumption DEF Loaded, Elems, TypeOK
  <2>6. /\ \A n \in Name \ Loaded' : imports'[n] = {}
        /\ \A n \in Intrinsic : imports'[n] = {}
    BY <2>2, <2>3, <2>4, <2>5 DEF LoadInv
  <2>7. \A n \in Loaded \ Intrinsic :
           n \in Elems(queue) \/ (imports'[n] = ImportsOf(n) /\ ImportsOf(n) \subseteq Loaded)
    <3>1. \A n \in Loaded \ Intrinsic :
             \/ n \in Elems(queue)
             \/ n = cur
             \/ imports[n] = ImportsOf(n) /\ ImportsOf(n) \subseteq Loaded
      BY <2>1 DEF LoadInv, Parsed
    <3> QED BY <2>3, <2>5, <3>1
  <2> QED BY <1>0, <2>1, <2>2, <2>6, <2>7 DEF LoadInv, Parsed, ErrorHasCause
<1>7. CASE StartSort
  <2>1. pc = "pop" /\ pc' = "sort" /\ queue = << >> /\ UNCHANGED <<modules, queue, imports, cur, todo>>
    BY <1>7 DEF StartSort
  <2>2. Loaded' = Loaded /\ Elems(queue)' = Elems(queue) /\ EachModuleOnce' = EachModuleOnce
        /\ Elems(extra)' = Elems(extra)
    BY <1>0, <2>1 DEF Loaded, Elems, EachModuleOnce
  <2> QED BY <1>0, <2>1, <2>2 DEF LoadInv, Parsed, ErrorHasCause
<1>8. CASE VisitRoot \/ VisitChild \/ Leave \/ FinishSort \/ Returned \/ UNCHANGED vars
  <2>1. /\ UNCHANGED <<modules, queue, imports, cur, todo>>
        /\ \/ pc = "sort" /\ pc' \in {"sort", "done"}
           \/ UNCHANGED <<pc, next>>
    BY <1>8 DEF VisitRoot, VisitChild, Leave, FinishSort, Returned, vars
  <2>2. Loaded' = Loaded /\ Elems(queue)' = Elems(queue) /\ EachModuleOnce' = EachModuleOnce
        /\ Elems(extra)' = Elems(extra) /\ ImportsOf(cur)' = ImportsOf(cur)
    BY <1>0, <2>1 DEF Loaded, Elems, EachModuleOnce, ImportsOf
  <2>3. CASE pc = "sort" /\ pc' \in {"sort", "done"}
    BY <1>0, <2>1, <2>2, <2>3 DEF LoadInv, Parsed, ErrorHasCause
  <2>4. CASE UNCHANGED <<pc, next>>
    BY <1>0, <2>1, <2>2, <2>4 DEF LoadInv, Parsed, ErrorHasCause
  <2> QED BY <2>1, <2>3, <2>4
<1> QED BY <1>1, <1>2, <1>3, <1>4, <1>5, <1>6, <1>7, <1>8 DEF Next, Step

-----------------------------------------------------------------------------
(* The depth-first walk.                                                   *)

LEMMA SortInit == Init => SortInv /\ EntryInv
<1> SUFFICES ASSUME Init PROVE SortInv /\ EntryInv
  OBVIOUS
<1>1. Elems(order) = {} /\ Len(order) = 0 /\ Len(stack) = 0
  BY DEF Init, Elems
<1> QED BY <1>1, NameAssumption DEF Init, SortInv, EntryInv, DependencyFirst

\* Before the walk starts nothing is marked.
LEMMA SortIdle ==
    ASSUME TypeOK, SortInv, EntryInv, UNCHANGED <<disk, extra, mark, stack, order>>,
           pc \notin {"sort", "done"}, pc' # "done", pc' = "sort" => next' = 1
    PROVE  SortInv' /\ EntryInv'
<1>1. mark' = [n \in Name |-> "New"] /\ stack' = << >> /\ order' = << >>
  BY DEF SortInv
<1>2. Elems(order') = {} /\ Len(order') = 0 /\ Len(stack') = 0
  BY <1>1 DEF Elems
<1>3. Elems(order)' = {} /\ DependencyFirst'
  BY <1>2 DEF Elems, DependencyFirst
<1>4. \A i \in Nat \ {0} : ~ (i < 1)
  OBVIOUS
<1> QED BY <1>1, <1>2, <1>3, <1>4, NameAssumption DEF SortInv, EntryInv

\* During the walk the imports on record are those of the source tree.
LEMMA ImportsKnown ==
    ASSUME TypeOK, LoadInv, pc \in {"sort", "done"}
    PROVE  /\ \A n \in Loaded : imports[n] = ImportsOf(n) /\ ImportsOf(n) \subseteq Loaded
           /\ Loaded \subseteq Name
           /\ Closed(Loaded)
<1>1. queue = << >> /\ Elems(queue) = {}
  BY DEF LoadInv, Elems
<1>2. \A n \in Loaded \ Intrinsic : imports[n] = ImportsOf(n) /\ ImportsOf(n) \subseteq Loaded
  BY <1>1 DEF LoadInv, Parsed
<1>3. \A n \in Intrinsic : imports[n] = {} /\ ImportsOf(n) = {}
  BY DEF LoadInv, ImportsOf
<1>4. Loaded \subseteq Name
  BY DEF Loaded, Elems, TypeOK
<1> QED BY <1>2, <1>3, <1>4 DEF Closed

\* Entering a New module n, as a root or as a child of the top frame.
LEMMA EnterKeeps ==
    ASSUME TypeOK, TypeOK', LoadInv, SortInv, EntryInv, pc = "sort", pc' = "sort",
           UNCHANGED <<disk, extra, modules, order>>,
           NEW n \in Loaded, mark[n] = "New",
           mark' = [mark EXCEPT ![n] = "Visiting"],
           Len(stack') = Len(stack) + 1,
           stack'[Len(stack) + 1] = [id |-> n, rest |-> ImportsOf(n)],
           \A i \in 1..Len(stack) :
              /\ stack'[i].id = stack[i].id
              /\ stack'[i].rest \subseteq stack[i].rest
              /\ stack[i].rest \ stack'[i].rest \subseteq {n},
           stack # << >> => n \in ImportsOf(stack[Len(stack)].id),
           \A i \in 1..Len(modules) : i < next' => i < next \/ modules[i] = n,
           mark[Entry] = "New" => n = Entry /\ stack = << >>
    PROVE  SortInv' /\ EntryInv'
<1> DEFINE k == Len(stack)
<1>1. /\ \A m : ImportsOf(m)' = ImportsOf(m)
      /\ \A a, b : Reaches(a, b)' = Reaches(a, b)
  BY GraphFixed
<1>2. n \in Name /\ k \in Nat /\ Loaded' = Loaded /\ Elems(order)' = Elems(order)
  BY DEF Loaded, Elems, TypeOK
<1>3. \A m \in Name : mark'[m] = IF m = n THEN "Visiting" ELSE mark[m]
  BY DEF TypeOK
<1>4. \A i \in 1..k : stack[i].id # n /\ stack[i].id \in Name
  <2>1. \A i \in 1..k : stack[i] \in Frame /\ mark[stack[i].id] = "Visiting"
    BY DEF SortInv, TypeOK
  <2> QED BY <2>1 DEF Frame
<1>5. stack'[k + 1].id = n /\ stack'[k + 1].rest = ImportsOf(n)
  OBVIOUS
<1>6. 1..Len(stack') = 1..k \cup {k + 1}
  BY <1>2
<1> HIDE DEF k
<1>7. Elems(order)' = {m \in Name : mark'[m] = "Done"}
  BY <1>2, <1>3 DEF SortInv
<1>8. \A m \in Name : mark'[m] = "Visiting" => \E i \in 1..Len(stack') : stack'[i].id = m
  BY <1>3, <1>5, <1>6 DEF SortInv, k
<1>9. \A i \in 1..Len(stack') : mark'[stack'[i].id] = "Visiting"
  BY <1>2, <1>3, <1>4, <1>5, <1>6 DEF SortInv, k
<1>10. \A i, j \in 1..Len(stack') : stack'[i].id = stack'[j].id => i = j
  BY <1>4, <1>5, <1>6 DEF SortInv, k
<1>11. \A i, j \in 1..Len(stack') : i <= j => Reaches(stack'[i].id, stack'[j].id)
  <2> SUFFICES ASSUME NEW i \in 1..Len(stack'), NEW j \in 1..Len(stack'), i <= j
               PROVE  Reaches(stack'[i].id, stack'[j].id)
    OBVIOUS
  <2>1. CASE i \in 1..k /\ j \in 1..k
    BY <2>1 DEF SortInv, k
  <2>2. CASE i = k + 1 /\ j = k + 1
    BY <1>2, <1>5, <2>2, ReachesFacts
  <2>3. CASE i \in 1..k /\ j = k + 1
    <3>1. Reaches(stack[i].id, stack[k].id) /\ k \in 1..k
      BY <1>2, <2>3 DEF SortInv, k
    <3>2. n \in ImportsOf(stack[k].id)
      BY <2>3, <3>1 DEF k, TypeOK
    <3> QED BY <1>4, <1>5, <2>3, <3>1, <3>2, ReachesFacts
  <2>4. ~ (i = k + 1 /\ j \in 1..k)
    BY <1>2
  <2> QED BY <1>6, <2>1, <2>2, <2>3, <2>4
<1>12. \A i \in 1..Len(stack') :
          /\ stack'[i].rest \subseteq ImportsOf(stack'[i].id)
          /\ \A c \in ImportsOf(stack'[i].id) \ stack'[i].rest : mark'[c] # "New"
  <2> SUFFICES ASSUME NEW i \in 1..Len(stack')
               PROVE  /\ stack'[i].rest \subseteq ImportsOf(stack'[i].id)
                      /\ \A c \in ImportsOf(stack'[i].id) \ stack'[i].rest : mark'[c] # "New"
    OBVIOUS
  <2>1. CASE i = k + 1
    BY <1>5, <2>1
  <2>2. CASE i \in 1..k
    <3>1. /\ stack[i].rest \subseteq ImportsOf(stack[i].id)
          /\ \A c \in ImportsOf(stack[i].id) \ stack[i].rest : mark[c] # "New"
          /\ ImportsOf(stack[i].id) \subseteq Name
      BY <1>4, <2>2, ImportsType DEF SortInv, k
    <3>2. /\ stack'[i].id = stack[i].id
          /\ stack'[i].rest \subseteq stack[i].rest
          /\ stack[i].rest \ stack'[i].rest \subseteq {n}
      BY <2>2 DEF k
    <3> QED BY <1>3, <3>1, <3>2
  <2> QED BY <1>6, <2>1, <2>2
<1>13. \A m \in Name : mark'[m] = "Done" => \A c \in ImportsOf(m) : mark'[c] # "New"
  BY <1>3, ImportsType DEF SortInv
<1>14. \A m \in Name : mark'[m] # "New" => m \in Loaded'
  BY <1>2, <1>3 DEF SortInv
<1>15. DependencyFirst'
  BY <1>1, <1>2 DEF SortInv, DependencyFirst, Before
<1>16. \A i \in 1..Len(modules') : i < next' => mark'[modules'[i]] # "New"
  BY <1>3 DEF SortInv, TypeOK
<1>19. \A i, j \in 1..Len(stack') : i <= j => Reaches(stack[i].id, stack[j].id)'
  BY <1>11 DEF Reaches, Closed, ImportsOf
<1>20. \A i \in 1..Len(stack') :
          /\ stack'[i].rest \subseteq ImportsOf(stack[i].id)'
          /\ \A c \in ImportsOf(stack[i].id)' \ stack'[i].rest : mark'[c] # "New"
  BY <1>12 DEF ImportsOf
<1>17. SortInv'
  BY <1>1, <1>19, <1>20, <1>7, <1>8, <1>9, <1>10, <1>11, <1>12, <1>13, <1>14, <1>15, <1>16 DEF SortInv
<1>18. EntryInv'
  <2>1. mark'[Entry] # "New"
    BY <1>3, NameAssumption DEF TypeOK
  <2>2. stack'[1].id = IF stack = << >> THEN n ELSE stack[1].id
    <3>1. CASE stack = << >>
      BY <1>5, <3>1 DEF k
    <3>2. CASE stack # << >>
      BY <3>2 DEF TypeOK
    <3> QED BY <3>1, <3>2
  <2>3. mark'[Entry] # "Done" => stack'[1].id = Entry
    <3>1. CASE mark[Entry] = "New"
      BY <2>2, <3>1
    <3>2. CASE mark[Entry] = "Visiting"
      <4>1. stack # << >>
        BY <3>2, NameAssumption DEF SortInv
      <4> QED BY <2>2, <3>2, <4>1 DEF EntryInv
    <3> QED BY <1>3, <3>1, <3>2, NameAssumption DEF TypeOK
  <2>4. ~ (extra' = << >> /\ mark'[Entry] = "Done")
    BY <1>3, NameAssumption DEF EntryInv
  <2> QED BY <2>1, <2>3, <2>4 DEF EntryInv
<1> QED BY <1>17, <1>18

\* Leaving the top frame: its children are Done, hence earlier in the order,
\* or on the stack, hence able to reach it.
LEMMA LeaveKeeps ==
    ASSUME TypeOK, LoadInv, SortInv, EntryInv, Leave
    PROVE  SortInv' /\ EntryInv'
<1> DEFINE k == Len(stack)
           b == stack[k].id
<1>1. /\ pc = "sort" /\ stack # << >> /\ stack[k].rest = {}
      /\ mark' = [mark EXCEPT ![b] = "Done"]
      /\ order' = Append(order, b)
      /\ stack' = SubSeq(stack, 1, k - 1)
      /\ UNCHANGED <<disk, extra, pc, next, modules>>
  BY DEF Leave, loading
<1>2. /\ \A m : ImportsOf(m)' = ImportsOf(m)
      /\ \A x, y : Reaches(x, y)' = Reaches(x, y)
  BY <1>1, GraphFixed
<1>3. /\ k \in Nat \ {0}
      /\ stack[k] \in Frame
      /\ Len(stack') = k - 1
      /\ \A i \in 1..(k - 1) : stack'[i] = stack[i]
  BY <1>1, ElemsFront DEF TypeOK
<1>4. b \in Name /\ k \in 1..k /\ mark[b] = "Visiting"
  BY <1>3 DEF Frame, SortInv
<1>5. /\ Len(order') = Len(order) + 1
      /\ \A i \in 1..Len(order) : order'[i] = order[i]
      /\ order'[Len(order) + 1] = b
      /\ Elems(order') = Elems(order) \cup {b}
      /\ Len(order) \in Nat
      /\ DOMAIN order = 1..Len(order)
  BY <1>1, <1>4, ElemsAppend DEF TypeOK
<1>6. \A m \in Name : mark'[m] = IF m = b THEN "Done" ELSE mark[m]
  BY <1>1 DEF TypeOK
<1>7. Loaded' = Loaded /\ Elems(order)' = Elems(order')
  BY <1>1 DEF Loaded, Elems
<1>8. \A i \in 1..k : stack[i].id \in Name
  <2>1. \A i \in 1..k : stack[i] \in Frame
    BY DEF TypeOK
  <2> QED BY <2>1 DEF Frame
<1> HIDE DEF k, b
<1>9. Elems(order)' = {m \in Name : mark'[m] = "Done"}
  BY <1>4, <1>5, <1>6, <1>7 DEF SortInv
<1>10. \A i \in 1..Len(order) : order[i] # b
  BY <1>4, <1>5 DEF SortInv, Elems
<1>11. \A i, j \in 1..Len(order') : order'[i] = order'[j] => i = j
  BY <1>5, <1>10 DEF SortInv
<1>12. 1..Len(stack') \subseteq 1..k /\ \A i \in 1..k : i \in 1..Len(stack') \/ i = k
  BY <1>3
<1>13. \A m \in Name : mark'[m] = "Visiting" => \E i \in 1..Len(stack') : stack'[i].id = m
  BY <1>3, <1>6, <1>12 DEF SortInv, k, b
<1>14. \A i \in 1..Len(stack') : stack'[i] = stack[i] /\ stack[i].id # b
  BY <1>3, <1>4, <1>12 DEF SortInv, k, b
<1>15. \A i \in 1..Len(stack') : mark'[stack'[i].id] = "Visiting"
  BY <1>6, <1>8, <1>12, <1>14 DEF SortInv, k
<1>16. \A i, j \in 1..Len(stack') : stack'[i].id = stack'[j].id => i = j
  BY <1>12, <1>14 DEF SortInv, k
<1>17. \A i, j \in 1..Len(stack') : i <= j => Reaches(stack'[i].id, stack'[j].id)
  BY <1>12, <1>14 DEF SortInv, k
<1>18. \A i, j \in 1..Len(stack') : i <= j => Reaches(stack[i].id, stack[j].id)'
  BY <1>1, <1>17 DEF Reaches, Closed, ImportsOf
<1>19. \A m \in Name : mark[m] # "New" => mark'[m] # "New"
  BY <1>6
<1>20. \A i \in 1..Len(stack') :
          /\ stack'[i].rest \subseteq ImportsOf(stack'[i].id)
          /\ \A c \in ImportsOf(stack'[i].id) \ stack'[i].rest : mark'[c] # "New"
  BY <1>8, <1>12, <1>14, <1>19, ImportsType DEF SortInv, k
<1>21. \A i \in 1..Len(stack') :
          /\ stack'[i].rest \subseteq ImportsOf(stack[i].id)'
          /\ \A c \in ImportsOf(stack[i].id)' \ stack'[i].rest : mark'[c] # "New"
  BY <1>1, <1>20 DEF ImportsOf
<1>22. \A c \in ImportsOf(b) : c \in Name /\ mark[c] # "New"
  BY <1>1, <1>3, <1>4, ImportsType DEF SortInv, k, b
<1>23. \A m \in Name : mark'[m] = "Done" => \A c \in ImportsOf(m) : mark'[c] # "New"
  BY <1>6, <1>19, <1>22, ImportsType DEF SortInv
<1>24. \A m \in Name : mark'[m] # "New" => m \in Loaded'
  BY <1>6, <1>7, <1>4 DEF SortInv
<1>25. DependencyFirst'
  <2> SUFFICES ASSUME NEW y \in Elems(order'), NEW x \in ImportsOf(y)
               PROVE  Before(x, y)' \/ Reaches(x, y)
    BY <1>2, <1>7 DEF DependencyFirst
  <2>1. CASE y = b
    <3>1. CASE mark[x] = "Done"
      <4>1. x \in Elems(order)
        BY <1>22, <2>1, <3>1 DEF SortInv
      <4>2. PICK i \in 1..Len(order) : order[i] = x
        BY <1>5, <4>1 DEF Elems
      <4>3. i < Len(order) + 1 /\ i \in 1..Len(order') /\ Len(order) + 1 \in 1..Len(order')
        BY <1>5
      <4> QED BY <1>5, <2>1, <4>2, <4>3 DEF Before
    <3>2. CASE mark[x] = "Visiting"
      <4>1. PICK i \in 1..k : stack[i].id = x
        BY <1>22, <2>1, <3>2 DEF SortInv, k
      <4>2. i <= k
        BY <1>3
      <4> QED BY <1>4, <2>1, <4>1, <4>2 DEF SortInv, k, b
    <3> QED BY <1>22, <2>1, <3>1, <3>2 DEF TypeOK
  <2>2. CASE y # b
    <3>1. y \in Elems(order)
      BY <1>5, <2>2
    <3>2. Before(x, y) \/ Reaches(x, y)
      BY <3>1 DEF SortInv, DependencyFirst
    <3>3. Before(x, y) => Before(x, y)'
      BY <1>5 DEF Before
    <3> QED BY <3>2, <3>3
  <2> QED BY <2>1, <2>2
<1>26. \A i \in 1..Len(modules') : i < next' => mark'[modules'[i]] # "New"
  BY <1>1, <1>19 DEF SortInv, TypeOK
<1>27. SortInv'
  BY <1>1, <1>2, <1>9, <1>11, <1>13, <1>15, <1>16, <1>18, <1>21, <1>23, <1>24, <1>25, <1>26
     DEF SortInv
<1>28. EntryInv'
  <2>1. mark[Entry] # "New" /\ mark'[Entry] # "New"
    BY <1>1, <1>19, NameAssumption DEF EntryInv
  <2>2. stack' # << >> /\ mark'[Entry] # "Done" => stack'[1].id = Entry
    <3>1. stack' # << >> => 1 \in 1..Len(stack')
      BY <1>3
    <3>2. mark'[Entry] # "Done" => mark[Entry] # "Done"
      BY <1>6, NameAssumption
    <3> QED BY <1>1, <1>14, <3>1, <3>2 DEF EntryInv
  <2>3. ASSUME extra' = << >>, mark'[Entry] = "Done"
        PROVE  /\ order' # << >>
               /\ order'[Len(order')] = Entry
               /\ \A m \in Loaded' : mark'[m] = "Done"
    <3>1. b = Entry
      <4>1. CASE mark[Entry] = "Done"
        <5>1. b \in Loaded /\ mark[b] = "Done"
          BY <1>1, <1>4, <2>3, <4>1 DEF SortInv, EntryInv
        <5> QED BY <1>4, <5>1
      <4>2. CASE mark[Entry] # "Done"
        BY <1>6, <2>3, <4>2, NameAssumption
      <4> QED BY <4>1, <4>2
    <3>2. k = 1
      <4>1. stack[1].id = Entry
        BY <1>1, <1>4, <3>1 DEF EntryInv
      <4> QED BY <1>3, <1>4, <3>1, <4>1 DEF SortInv, k, b
    <3>3. Len(stack') = 0
      BY <1>3, <3>2
    <3> DEFINE D == {m \in Name : mark'[m] = "Done"}
    <3>4. \A m \in Name : mark'[m] # "Visiting"
      BY <1>13, <3>3
    <3>5. \A m \in Name : mark'[m] \in {"New", "Visiting", "Done"}
      BY <1>6 DEF TypeOK
    <3>6. Closed(D)
      BY <1>23, <3>4, <3>5, ImportsType DEF Closed
    <3>7. Entry \in D /\ D \in SUBSET Name
      BY <2>3, NameAssumption
    <3>8. Roots = {Entry}
      BY <1>1, <2>3 DEF Roots, Elems
    <3>9. Loaded \subseteq D
      <4> HIDE DEF D
      <4> QED BY <3>6, <3>7, <3>8 DEF LoadInv, Reachable, Reaches
    <3> QED BY <1>5, <1>7, <3>1, <3>9
  <2> QED BY <2>1, <2>2, <2>3 DEF EntryInv
<1> QED BY <1>27, <1>28

LEMMA SortStep ==
    ASSUME TypeOK, TypeOK', LoadInv, SortInv, EntryInv, [Next]_vars
    PROVE  SortInv' /\ EntryInv'
<1> USE DEF loading, sorting
<1>0. UNCHANGED <<disk, extra>>
  BY TreeUnchanged
<1>1. CASE LoadEntry \/ LoadExtraRoot \/ RootsLoaded \/ PopQueue \/ ResolveImport
           \/ SetImports \/ StartSort
  <2>1. /\ UNCHANGED <<mark, stack, order>>
        /\ pc \notin {"sort", "done"}
        /\ pc' # "done"
        /\ pc' = "sort" => next' = 1
    BY <1>1 DEF LoadEntry, LoadExtraRoot, RootsLoaded, PopQueue, ResolveImport,
                SetImports, StartSort, ResolveFails
  <2> QED BY <1>0, <2>1, SortIdle
<1>2. CASE VisitRoot
  <2> DEFINE n == modules[next]
  <2>1. /\ pc = "sort" /\ stack = << >> /\ Len(stack) = 0
        /\ next \in 1..Len(modules) /\ next' = next + 1
        /\ UNCHANGED <<pc, modules, imports>>
    BY <1>2 DEF VisitRoot, TypeOK
  <2>2. n \in Loaded
    BY <2>1 DEF Loaded, Elems, TypeOK
  <2>3. \A i \in 1..Len(modules) : i < next' => i < next \/ modules[i] = n
    BY <2>1
  <2>4. CASE mark[n] = "New"
    <3>1. /\ mark' = [mark EXCEPT ![n] = "Visiting"] /\ order' = order
          /\ stack' = <<[id |-> n, rest |-> imports[n]]>>
      BY <1>2, <2>4 DEF VisitRoot, Enter
    <3>2. imports[n] = ImportsOf(n)
      BY <2>1, <2>2, ImportsKnown
    <3>3. /\ Len(stack') = Len(stack) + 1
          /\ stack'[Len(stack) + 1] = [id |-> n, rest |-> ImportsOf(n)]
      BY <2>1, <3>1, <3>2
    <3>4. mark[Entry] = "New" => n = Entry
      BY <2>1 DEF EntryInv, LoadInv, Parsed
    <3>5. \A i \in 1..Len(stack) :
            /\ stack'[i].id = stack[i].id
            /\ stack'[i].rest \subseteq stack[i].rest
            /\ stack[i].rest \ stack'[i].rest \subseteq {n}
      BY <2>1
    <3> HIDE DEF n
    <3> QED BY <1>0, <2>1, <2>2, <2>3, <2>4, <3>1, <3>3, <3>4, <3>5, EnterKeeps
  <2>5. CASE mark[n] # "New"
    <3>1. UNCHANGED <<mark, stack, order>>
      BY <1>2, <2>5 DEF VisitRoot
    <3>2. \A i \in 1..Len(modules) : i < next' => mark[modules[i]] # "New"
      BY <2>1, <2>3, <2>5 DEF SortInv
    <3>3. mark[Entry] # "New"
      BY <2>1, <2>5 DEF EntryInv, LoadInv, Parsed
    <3>4. /\ Loaded' = Loaded /\ Elems(order)' = Elems(order)
          /\ \A m : ImportsOf(m)' = ImportsOf(m)
          /\ \A x, y : Reaches(x, y)' = Reaches(x, y)
      BY <1>0, <2>1, <3>1, GraphFixed DEF Loaded, Elems
    <3>5. DependencyFirst'
      BY <3>1, <3>4 DEF SortInv, DependencyFirst, Before
    <3>6. Len(stack') = 0
      BY <2>1, <3>1
    <3>7. SortInv'
      BY <2>1, <3>1, <3>2, <3>4, <3>5, <3>6 DEF SortInv
    <3> QED BY <1>0, <2>1, <3>1, <3>3, <3>4, <3>7 DEF EntryInv
  <2> QED BY <2>4, <2>5
<1>3. CASE VisitChild
  <2> DEFINE k == Len(stack)
  <2>1. /\ pc = "sort" /\ stack # << >>
        /\ UNCHANGED <<pc, next, modules, imports>>
    BY <1>3 DEF VisitChild
  <2>2. k \in Nat \ {0} /\ stack[k] \in Frame
    BY <2>1 DEF TypeOK
  <2>3. PICK n \in stack[k].rest :
          LET popped == [stack EXCEPT ![k].rest = @ \ {n}] IN
            IF mark[n] = "New"
            THEN /\ Enter(n)
                 /\ stack' = Append(popped, [id |-> n, rest |-> imports[n]])
            ELSE stack' = popped /\ UNCHANGED <<mark, order>>
    BY <1>3 DEF VisitChild
  <2> DEFINE popped == [stack EXCEPT ![k].rest = @ \ {n}]
  <2>4. /\ stack[k].id \in Name /\ mark[stack[k].id] = "Visiting"
        /\ n \in ImportsOf(stack[k].id)
    BY <2>2, <2>3 DEF Frame, SortInv
  <2>5. n \in Loaded /\ n \in Name /\ stack[k].id \in Loaded
    BY <2>1, <2>4, ImportsKnown DEF SortInv
  <2>6. /\ popped \in Seq(Frame) /\ Len(popped) = k
        /\ \A i \in 1..k : /\ popped[i].id = stack[i].id
                           /\ popped[i].rest = IF i = k THEN stack[i].rest \ {n} ELSE stack[i].rest
    <3>1. [stack[k] EXCEPT !.rest = @ \ {n}] \in Frame
      BY <2>2 DEF Frame
    <3>2. popped \in Seq(Frame) /\ Len(popped) = k
      BY <2>2, <3>1 DEF TypeOK
    <3>3. \A i \in 1..k : popped[i] = IF i = k THEN [stack[k] EXCEPT !.rest = @ \ {n}] ELSE stack[i]
      BY <2>2 DEF TypeOK
    <3>4. /\ [stack[k] EXCEPT !.rest = @ \ {n}].id = stack[k].id
          /\ [stack[k] EXCEPT !.rest = @ \ {n}].rest = stack[k].rest \ {n}
      BY <2>2 DEF Frame
    <3> HIDE DEF popped
    <3> QED BY <3>2, <3>3, <3>4
  <2>7. mark[Entry] # "New"
    BY <2>1 DEF EntryInv
  <2>8. CASE mark[n] = "New"
    <3>1. /\ mark' = [mark EXCEPT ![n] = "Visiting"] /\ order' = order
          /\ stack' = Append(popped, [id |-> n, rest |-> imports[n]])
      BY <2>3, <2>8 DEF Enter
    <3>2. imports[n] = ImportsOf(n)
      BY <2>1, <2>5, ImportsKnown
    <3>3. [id |-> n, rest |-> imports[n]] \in Frame
      BY <2>5 DEF Frame, TypeOK
    <3> HIDE DEF popped
    <3>4. /\ Len(stack') = k + 1
          /\ \A i \in 1..k : stack'[i] = popped[i]
          /\ stack'[k + 1] = [id |-> n, rest |-> ImportsOf(n)]
      BY <2>6, <3>1, <3>2, <3>3, ElemsAppend
    <3>5. \A i \in 1..k :
            /\ stack'[i].id = stack[i].id
            /\ stack'[i].rest \subseteq stack[i].rest
            /\ stack[i].rest \ stack'[i].rest \subseteq {n}
      BY <2>6, <3>4
    <3>6. \A i \in 1..Len(modules) : i < next' => i < next \/ modules[i] = n
      BY <2>1
    <3> QED BY <1>0, <2>1, <2>4, <2>5, <2>7, <2>8, <3>1, <3>4, <3>5, <3>6, EnterKeeps
  <2>9. CASE mark[n] # "New"
    <3>1. UNCHANGED <<mark, order>> /\ stack' = popped
      BY <2>3, <2>9
    <3> HIDE DEF popped
    <3>2. /\ Loaded' = Loaded /\ Elems(order)' = Elems(order)
          /\ \A m : ImportsOf(m)' = ImportsOf(m)
          /\ \A x, y : Reaches(x, y)' = Reaches(x, y)
      BY <1>0, <2>1, <3>1, GraphFixed DEF Loaded, Elems
    <3>3. Len(stack') = k /\ \A i \in 1..k : stack'[i].id = stack[i].id
      BY <2>6, <3>1
    <3>4. DependencyFirst'
      BY <3>1, <3>2 DEF SortInv, DependencyFirst, Before
    <3>5. \A i \in 1..k :
            /\ stack'[i].rest \subseteq ImportsOf(stack[i].id)
            /\ \A c \in ImportsOf(stack[i].id) \ stack'[i].rest : mark[c] # "New"
      <4>1. \A i \in 1..k :
              /\ stack[i].rest \subseteq ImportsOf(stack[i].id)
              /\ \A c \in ImportsOf(stack[i].id) \ stack[i].rest : mark[c] # "New"
        BY DEF SortInv
      <4>2. \A i \in 1..k : /\ stack'[i].rest \subseteq stack[i].rest
                            /\ stack[i].rest \ stack'[i].rest \subseteq {n}
        BY <2>6, <3>1
      <4> HIDE DEF k
      <4> QED BY <2>9, <4>1, <4>2
    <3>6. \A i \in 1..Len(stack') :
            /\ stack'[i].rest \subseteq ImportsOf(stack[i].id)'
            /\ \A c \in ImportsOf(stack[i].id)' \ stack'[i].rest : mark'[c] # "New"
      BY <1>0, <3>1, <3>3, <3>5 DEF ImportsOf
    <3>7. \A i, j \in 1..Len(stack') : i <= j => Reaches(stack'[i].id, stack'[j].id)
      BY <3>3 DEF SortInv
    <3>8. \A i, j \in 1..Len(stack') : i <= j => Reaches(stack[i].id, stack[j].id)'
      BY <1>0, <3>7 DEF Reaches, Closed, ImportsOf
    <3>9. SortInv'
      BY <2>1, <3>1, <3>2, <3>3, <3>4, <3>6, <3>8 DEF SortInv
    <3>10. EntryInv'
      BY <1>0, <2>1, <2>2, <2>7, <3>1, <3>2, <3>3 DEF EntryInv
    <3> QED BY <3>9, <3>10
  <2> QED BY <2>8, <2>9
<1>4. CASE Leave
  BY <1>4, LeaveKeeps
<1>5. CASE FinishSort
  <2>1. /\ pc = "sort" /\ stack = << >> /\ next > Len(modules) /\ pc' = "done"
        /\ UNCHANGED <<modules, mark, stack, order, next>>
    BY <1>5 DEF FinishSort
  <2>2. /\ Loaded' = Loaded /\ Elems(order)' = Elems(order)
        /\ \A m : ImportsOf(m)' = ImportsOf(m)
        /\ \A x, y : Reaches(x, y)' = Reaches(x, y)
    BY <1>0, <2>1, GraphFixed DEF Loaded, Elems
  <2>3. DependencyFirst'
    BY <2>1, <2>2 DEF SortInv, DependencyFirst, Before
  <2>4. \A m \in Loaded : mark[m] = "Done"
    <3>1. \A i \in 1..Len(modules) : i < next
      BY <2>1 DEF TypeOK
    <3>2. \A m \in Loaded : m \in Name /\ mark[m] # "New"
      BY <2>1, <3>1 DEF SortInv, Loaded, Elems, TypeOK
    <3>3. \A m \in Name : mark[m] # "Visiting"
      <4>1. Len(stack) = 0
        BY <2>1
      <4> QED BY <4>1 DEF SortInv
    <3> QED BY <3>2, <3>3 DEF TypeOK
  <2>5. Len(stack') = 0
    BY <2>1
  <2>6. SortInv'
    BY <2>1, <2>2, <2>3, <2>4, <2>5 DEF SortInv
  <2>7. EntryInv'
    BY <1>0, <2>1, <2>2 DEF EntryInv
  <2> QED BY <2>6, <2>7
<1>6. CASE Returned \/ UNCHANGED vars
  <2>1. UNCHANGED vars
    BY <1>6 DEF Returned
  <2>2. /\ Loaded' = Loaded /\ Elems(order)' = Elems(order)
        /\ \A m : ImportsOf(m)' = ImportsOf(m)
        /\ \A x, y : Reaches(x, y)' = Reaches(x, y)
    BY <1>0, <2>1, GraphFixed DEF Loaded, Elems, vars
  <2>3. DependencyFirst'
    BY <2>1, <2>2 DEF SortInv, DependencyFirst, Before, vars
  <2>4. \A i \in 1..Len(stack') :
          /\ stack'[i].rest \subseteq ImportsOf(stack[i].id)'
          /\ \A c \in ImportsOf(stack[i].id)' \ stack'[i].rest : mark'[c] # "New"
    BY <2>1 DEF SortInv, ImportsOf, vars
  <2>5. \A i, j \in 1..Len(stack') : i <= j => Reaches(stack'[i].id, stack'[j].id)
    BY <2>1 DEF SortInv, vars
  <2>6. \A i, j \in 1..Len(stack') : i <= j => Reaches(stack[i].id, stack[j].id)'
    BY <1>0, <2>5 DEF Reaches, Closed, ImportsOf
  <2>7. SortInv'
    BY <2>1, <2>2, <2>3, <2>4, <2>6 DEF SortInv, vars
  <2>8. EntryInv'
    BY <2>1, <2>2 DEF EntryInv, vars
  <2> QED BY <2>7, <2>8
<1> QED BY <1>1, <1>2, <1>3, <1>4, <1>5, <1>6 DEF Next, Step

-----------------------------------------------------------------------------
(* The theorems.                                                           *)

\* The inductive invariant holds in every reachable state of the loader.
THEOREM Invariance == Spec => []IInv
<1>1. Init => IInv
  BY TypeInit, LoadInit, SortInit DEF IInv
<1>2. IInv /\ [Next]_vars => IInv'
  BY TypeStep, LoadStep, SortStep DEF IInv
<1> QED BY <1>1, <1>2, PTL DEF Spec

\* In every order topo_sort builds, an imported module comes first unless it
\* can reach its importer again: cycles are the only exception.
THEOREM TopologicalOrder == Spec => []DependencyFirst
<1>1. IInv => DependencyFirst
  BY DEF IInv, SortInv
<1> QED BY <1>1, Invariance, PTL

\* The order holds exactly the reachable modules, each once, all loadable.
THEOREM CompleteOrder == Spec => []OrderIsReachableSet
<1>1. IInv => OrderIsReachableSet
  <2> SUFFICES ASSUME IInv, pc = "done" PROVE OrderIsReachableSet
    BY DEF OrderIsReachableSet
  <2>1. TypeOK /\ LoadInv /\ SortInv
    BY DEF IInv
  <2>2. Loaded \subseteq Name /\ Closed(Loaded)
    BY <2>1, ImportsKnown
  <2>3. Elems(order) = Loaded
    BY <2>1, <2>2 DEF SortInv
  <2>4. Roots \subseteq Loaded
    <3>1. Entry \in Loaded
      BY <2>1 DEF LoadInv, Parsed, Loaded, Elems, TypeOK
    <3> QED BY <2>1, <3>1 DEF LoadInv, Roots
  <2>5. Reachable = Loaded
    BY <2>1, <2>2, <2>4 DEF LoadInv, Reachable, Reaches
  <2> QED BY <2>1, <2>3, <2>5 DEF OrderIsReachableSet, LoadInv, SortInv, Parsed
<1> QED BY <1>1, Invariance, PTL

\* A load error always has a reachable cause.
THEOREM JustifiedError == Spec => []ErrorHasCause
<1>1. IInv => ErrorHasCause
  BY DEF IInv, LoadInv
<1> QED BY <1>1, Invariance, PTL

\* Without extra roots the entry module is the last of the order, whatever
\* cycles it is part of.
THEOREM EntryComesLast == Spec => []EntryLastWithoutExtras
<1>1. IInv => EntryLastWithoutExtras
  <2> SUFFICES ASSUME IInv, pc = "done", extra = << >> PROVE order[Len(order)] = Entry
    BY DEF EntryLastWithoutExtras
  <2>1. Entry \in Loaded
    BY DEF IInv, LoadInv, Parsed, Loaded, Elems, TypeOK
  <2>2. mark[Entry] = "Done"
    BY <2>1 DEF IInv, SortInv
  <2> QED BY <2>2 DEF IInv, EntryInv
<1> QED BY <1>1, Invariance, PTL
=============================================================================
