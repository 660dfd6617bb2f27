------------------------ MODULE CompileAndRun_proofs ------------------------
(***************************************************************************)
(* Loader and runner together, for every set of modules, every source tree *)
(* and whatever bodies and finalizers do: the run implements Lifecycle.    *)
(* What the loader guarantees is taken from ModuleGraph_proofs.            *)
(***************************************************************************)
EXTENDS CompileAndRun, TLAPS

LP == INSTANCE ModuleGraph_proofs

(* The lowered modules are the part of the order that was lowered, without
   the intrinsic modules, each once and after what it depends on.          *)
LowerInv ==
    /\ phase # "compile" \/ lowered # 0 => pc \in {"done", "error"}
    /\ lowered # 0 => pc = "done"
    /\ \A n \in Name : (\E i \in DOMAIN irs : irs[i] = n)
                <=> n \notin Intrinsic /\ \E k \in 1..lowered : order[k] = n
    /\ \A i, j \in DOMAIN irs : irs[i] = irs[j] => i = j
    /\ \A i \in DOMAIN irs : \A d \in Dependencies[irs[i]] :
           \E j \in DOMAIN irs : j < i /\ irs[j] = d

(* The number of bodies that were started.                                 *)
Bodies == Len(seen) - IF phase \in {"finals", "exited"} THEN initialized - final ELSE 0

(* What was started: the bodies of the first lowered modules, of which only
   the last may have failed, then the finalizers from the last initialised
   module down to the one after `final'.                                   *)
SeenInv ==
    /\ Bodies \in {initialized, initialized + 1} /\ Bodies <= Len(irs)
    /\ \A i \in 1..Bodies :
           /\ seen[i].part = "body" /\ ~ seen[i].terminating
           /\ seen[i].module = irs[i]
           /\ seen[i].out.kind = "failed" <=> i = initialized + 1
    /\ \A i \in (Bodies + 1)..Len(seen) :
           /\ seen[i].part = "final" /\ seen[i].terminating
           /\ seen[i].module = irs[Bodies + initialized + 1 - i]

(* The body that halted left its code, and none ran after it.              *)
HaltInv ==
    /\ phase \in {"compile", "bodies"} => halt_code = None
    /\ \A i \in DOMAIN seen : seen[i].part = "body" /\ seen[i].out.kind = "halted"
                               => halt_code = HaltMarker(seen[i].out.code)

(* The flags agree with what was started.                                  *)
FlagInv ==
    /\ phase = "compile" => seen = << >> /\ initialized = 0
    /\ phase \in {"compile", "bodies", "terminate"} => final = 0
    /\ phase \in {"compile", "bodies"} => ~ TERMINATING /\ Bodies = initialized
    /\ phase = "finals" => TERMINATING
    /\ first_error <=> \E i \in DOMAIN seen : seen[i].out.kind = "failed"
    /\ HaltInv
    /\ phase = "exited" => final = 0 /\ (first_error \/ halt_code \in 1..255 => status # 0)

IInv == LP!IInv /\ TypeOK /\ LowerInv /\ SeenInv /\ FlagInv

-----------------------------------------------------------------------------
(* The loader.  Loader and LP are two instances of one module.             *)

LEMMA Tree == LP!NameAssumption /\ LP!SourceAssumption
BY TreeAssumption DEF TreeAssumption, LP!NameAssumption, LP!SourceAssumption,
   Loader!SourceRecord, LP!SourceRecord

LEMMA SameGraph ==
    /\ \A n : Loader!ImportsOf(n) = LP!ImportsOf(n)
    /\ \A a, b : Loader!Reaches(a, b) <=> LP!Reaches(a, b)
<1>1. ASSUME NEW n PROVE Loader!ImportsOf(n) = LP!ImportsOf(n)
  BY DEF Loader!ImportsOf, LP!ImportsOf
<1>2. \A C : Loader!Closed(C) <=> LP!Closed(C)
  BY <1>1 DEF Loader!Closed, LP!Closed
<1> QED BY <1>1, <1>2 DEF Loader!Reaches, LP!Reaches

LEMMA SameType == Loader!TypeOK <=> LP!TypeOK
BY DEF Loader!TypeOK, LP!TypeOK, Loader!SourceRecord, LP!SourceRecord, Loader!Frame, LP!Frame

(* A step of the loader inside the driver is a step of the loader.         *)
LEMMA SameStep == Loader!Step => LP!Step
<1> USE DEF Loader!sorting, LP!sorting, Loader!loading, LP!loading
<1>1. \A n : Loader!ImportsOf(n) = LP!ImportsOf(n) /\ (Loader!Broken(n) <=> LP!Broken(n))
  BY DEF Loader!ImportsOf, LP!ImportsOf, Loader!Broken, LP!Broken
<1>2. \A n : /\ Loader!ResolveOrLoad(n) <=> LP!ResolveOrLoad(n)
             /\ Loader!ResolveFails(n) <=> LP!ResolveFails(n)
  BY <1>1 DEF Loader!ResolveOrLoad, LP!ResolveOrLoad, Loader!ResolveFails, LP!ResolveFails,
              Loader!Loaded, LP!Loaded, Loader!Elems, LP!Elems
<1>3. Loader!LoadEntry => LP!LoadEntry
  BY <1>1 DEF Loader!LoadEntry, LP!LoadEntry
<1>4. Loader!LoadExtraRoot => LP!LoadExtraRoot
  BY <1>2 DEF Loader!LoadExtraRoot, LP!LoadExtraRoot
<1>5. Loader!RootsLoaded => LP!RootsLoaded
  BY DEF Loader!RootsLoaded, LP!RootsLoaded
<1>6. Loader!PopQueue => LP!PopQueue
  BY DEF Loader!PopQueue, LP!PopQueue, Loader!ImportsOf, LP!ImportsOf
<1>7. Loader!ResolveImport => LP!ResolveImport
  BY <1>2 DEF Loader!ResolveImport, LP!ResolveImport, Loader!First, LP!First
<1>8. Loader!SetImports => LP!SetImports
  BY <1>1 DEF Loader!SetImports, LP!SetImports
<1>9. Loader!StartSort => LP!StartSort
  BY DEF Loader!StartSort, LP!StartSort
<1>10. Loader!VisitRoot => LP!VisitRoot
  BY DEF Loader!VisitRoot, LP!VisitRoot, Loader!Enter, LP!Enter
<1>11. Loader!VisitChild => LP!VisitChild
  BY DEF Loader!VisitChild, LP!VisitChild, Loader!Enter, LP!Enter, Loader!First, LP!First
<1>12. Loader!Leave => LP!Leave
  BY DEF Loader!Leave, LP!Leave
<1>13. Loader!FinishSort => LP!FinishSort
  BY DEF Loader!FinishSort, LP!FinishSort
<1> QED BY <1>3, <1>4, <1>5, <1>6, <1>7, <1>8, <1>9, <1>10, <1>11, <1>12, <1>13
        DEF Loader!Step, LP!Step

LEMMA LoaderRuns == [Next]_vars => [LP!Next]_LP!vars
<1>1. CASE Load
  BY <1>1, SameStep DEF Load, LP!Next
<1>2. ASSUME UNCHANGED loaderVars PROVE UNCHANGED LP!vars
  BY <1>2 DEF loaderVars, LP!vars
<1>3. [Next]_vars => Load \/ UNCHANGED loaderVars
  BY DEF Next, Step, Exited, vars, RefuseBroken, RefuseCode, LowerModule, LaunchLoaded, RunProgram
<1> QED BY <1>1, <1>2, <1>3

(* What ModuleGraph_proofs shows of the loader holds inside the driver.    *)
LEMMA LoaderInvariance == Spec => []LP!IInv
<1>1. Init => LP!Init
  BY DEF Init, Loader!Init, LP!Init
<1>2. LP!Spec => []LP!IInv
  BY LP!Invariance, Tree
<1> QED BY <1>1, <1>2, LoaderRuns, PTL DEF Spec, LP!Spec

(* What the runner needs of it: each module once, after its dependencies.  *)
LEMMA OrderFacts ==
    ASSUME LP!IInv
    PROVE  /\ order \in Seq(Name) /\ Loader!TypeOK
           /\ \A i, j \in 1..Len(order) : order[i] = order[j] => i = j
           /\ \A k \in 1..Len(order) : \A d \in Dependencies[order[k]] :
                  \E i \in 1..Len(order) : i < k /\ order[i] = d
<1>1. LP!TypeOK /\ LP!SortInv
  BY DEF LP!IInv
<1>2. order \in Seq(Name) /\ Loader!TypeOK
  BY <1>1, SameType DEF LP!TypeOK
<1>3. \A i, j \in 1..Len(order) : order[i] = order[j] => i = j
  BY <1>1 DEF LP!SortInv
<1>4. ASSUME NEW k \in 1..Len(order), NEW d \in Dependencies[order[k]]
      PROVE  \E i \in 1..Len(order) : i < k /\ order[i] = d
  <2>1. order[k] \in Name /\ order[k] \in LP!Elems(order)
    BY <1>2 DEF LP!Elems
  <2>2. d \in LP!ImportsOf(order[k]) /\ ~ LP!Reaches(d, order[k])
    BY <1>4, <2>1, SameGraph DEF Dependencies
  <2>3. LP!Before(d, order[k])
    BY <1>1, <2>1, <2>2 DEF LP!SortInv, LP!DependencyFirst
  <2>4. PICK i, j \in 1..Len(order) : i < j /\ order[i] = d /\ order[j] = order[k]
    BY <2>3 DEF LP!Before
  <2> QED BY <1>3, <2>4
<1> QED BY <1>2, <1>3, <1>4

-----------------------------------------------------------------------------
(* Types.                                                                  *)

LEMMA OutcomeType ==
    ASSUME NEW out \in Outcome
    PROVE  /\ out.kind \in {"ran", "failed", "halted"} /\ out.code \in HaltCode \cup {0}
           /\ out.kind = "halted" => out.code \in HaltCode
BY DEF Outcome

LEMMA EventType ==
    ASSUME RunTypeOK, NEW m \in Name, NEW part \in {"body", "final"}, NEW out \in Outcome,
           Run(m, part, out)
    PROVE  /\ seen' \in Seq(Event) /\ Len(seen') = Len(seen) + 1
           /\ \A i \in 1..Len(seen) : seen'[i] = seen[i]
           /\ seen'[Len(seen) + 1] = [module |-> m, part |-> part,
                                      terminating |-> TERMINATING, out |-> out]
           /\ HALTED' \in BOOLEAN /\ TERMINATING' \in BOOLEAN
<1> DEFINE e == [module |-> m, part |-> part, terminating |-> TERMINATING, out |-> out]
<1>1. TERMINATING \in BOOLEAN
  BY DEF RunTypeOK
<1>2. e \in Event
  BY <1>1 DEF Event
<1>3. seen \in Seq(Event) /\ seen' = Append(seen, e)
  BY DEF RunTypeOK, Run
<1> HIDE DEF e
<1>4. /\ seen' \in Seq(Event) /\ Len(seen') = Len(seen) + 1
      /\ \A i \in 1..Len(seen) : seen'[i] = seen[i]
      /\ seen'[Len(seen) + 1] = e
  BY <1>2, <1>3
<1>5. HALTED' \in BOOLEAN /\ TERMINATING' \in BOOLEAN
  BY DEF Run
<1> QED BY <1>4, <1>5 DEF e

(* nm2_halt carries an i32, and the codes of an exit status unchanged.     *)
LEMMA HaltMarkerType ==
    ASSUME NEW c \in Int
    PROVE  HaltMarker(c) \in I32 /\ (c \in 1..255 => HaltMarker(c) = c)
<1> DEFINE w == 2 * HalfI32
<1>1. HalfI32 \in Nat /\ HalfI32 > 255 /\ w \in Nat /\ w > 0
  BY WidthAssumption DEF WidthAssumption
<1>2. c \in 1..255 => c \in I32
  BY <1>1 DEF I32
<1> HIDE DEF w
<1>3. (c + HalfI32) % w \in 0..(w - 1)
  BY <1>1
<1>4. ((c + HalfI32) % w) - HalfI32 \in I32
  BY <1>1, <1>3 DEF I32, w
<1> QED BY <1>2, <1>4 DEF HaltMarker, w

LEMMA StatusType ==
    ASSUME RunTypeOK
    PROVE  ExitStatus \in Int /\ (first_error \/ halt_code \in 1..255 => ExitStatus # 0)
<1> DEFINE code == IF halt_code = None THEN 0 ELSE halt_code
<1>1. code \in Int /\ (halt_code \in 1..255 => code \in 1..255)
  BY HaltAssumption, WidthAssumption DEF HaltAssumption, WidthAssumption, RunTypeOK, I32
<1> HIDE DEF code
<1>2. code % 256 \in Int /\ (code \in 1..255 => code % 256 = code)
  BY <1>1
<1>3. ExitStatus = IF first_error THEN 1 ELSE IF engine = "aot" THEN code ELSE code % 256
  BY DEF ExitStatus, code
<1> QED BY <1>1, <1>2, <1>3

LEMMA TypeStep ==
    ASSUME LP!IInv, LP!IInv', TypeOK, LowerInv, FlagInv, [Next]_vars
    PROVE  TypeOK'
<1>0. Loader!TypeOK /\ RunTypeOK /\ order \in Seq(Name) /\ lowered \in 0..Len(order)
  BY OrderFacts DEF TypeOK
<1>1. LP!TypeOK' /\ Loader!TypeOK'
  <2>1. LP!TypeOK' BY DEF LP!IInv
  <2>2. Loader!TypeOK' <=> LP!TypeOK' BY SameType, PTL
  <2> QED BY <2>1, <2>2
<1>2. CASE Load
  <2>1. lowered = 0 /\ lowered' = 0 /\ UNCHANGED runVars
    <3>1. pc \notin {"done", "error"}
      BY <1>2 DEF Load, Loader!Step, Loader!LoadEntry, Loader!LoadExtraRoot, Loader!RootsLoaded,
         Loader!PopQueue, Loader!ResolveImport, Loader!SetImports, Loader!StartSort,
         Loader!VisitRoot, Loader!VisitChild, Loader!Leave, Loader!FinishSort
    <3> QED BY <1>2, <3>1 DEF Load, LowerInv
  <2>2. order' \in Seq(Name)
    BY <1>1 DEF LP!TypeOK
  <2>3. lowered' \in 0..Len(order')
    BY <2>1, <2>2
  <2>4. RunTypeOK'
    BY <1>0, <2>1 DEF runVars, RunTypeOK
  <2> QED BY <1>1, <2>3, <2>4 DEF TypeOK
<1>3. ASSUME UNCHANGED loaderVars, lowered' \in 0..Len(order), RunTypeOK' PROVE TypeOK'
  BY <1>1, <1>3 DEF TypeOK, loaderVars
<1>4. CASE RefuseBroken \/ RefuseCode
  <2>1. RunTypeOK'
    BY <1>0, <1>4 DEF RefuseBroken, RefuseCode, Refuse, RunTypeOK
  <2> QED BY <1>0, <1>3, <1>4, <2>1 DEF RefuseBroken, RefuseCode
<1>5. CASE LowerModule
  <2>1. lowered' \in 0..Len(order) /\ order[lowered + 1] \in Name
    BY <1>0, <1>5 DEF LowerModule
  <2>2. CASE Skip
    BY <1>0, <1>3, <1>5, <2>1, <2>2 DEF LowerModule, Skip, runVars, RunTypeOK
  <2>3. CASE Lower(order[lowered + 1])
    <3>1. irs' \in Seq(Name) /\ Len(irs') = Len(irs) + 1 /\ Len(irs) \in Nat
      BY <1>0, <2>1, <2>3 DEF Lower, RunTypeOK
    <3>2. initialized' \in 0..Len(irs')
      BY <1>0, <2>3, <3>1 DEF Lower, RunTypeOK
    <3>3. RunTypeOK'
      BY <1>0, <2>3, <3>1, <3>2 DEF Lower, RunTypeOK
    <3> QED BY <1>3, <1>5, <2>1, <3>3 DEF LowerModule
  <2> QED BY <1>5, <2>2, <2>3 DEF LowerModule
<1>6. CASE LaunchLoaded
  <2>1. RunTypeOK'
    BY <1>0, <1>6 DEF LaunchLoaded, Launch, RunTypeOK
  <2> QED BY <1>0, <1>3, <1>6, <2>1 DEF LaunchLoaded
<1>7. CASE RunProgram
  <2>1. ASSUME NEW out \in Outcome, RunBody(out) PROVE RunTypeOK'
    <3>1. initialized \in Nat /\ initialized < Len(irs) /\ irs[initialized + 1] \in Name
          /\ Len(irs) \in Nat /\ final \in 0..initialized
      BY <1>0, <2>1 DEF RunBody, RunTypeOK
    <3>2. seen' \in Seq(Event) /\ HALTED' \in BOOLEAN /\ TERMINATING' \in BOOLEAN
      BY <1>0, <2>1, <3>1, EventType DEF RunBody
    <3>3. first_error' \in BOOLEAN
      BY <2>1 DEF RunBody
    <3>4. halt_code' \in I32 \cup {None}
      <4>1. out.kind = "halted" => out.code \in Int
        BY OutcomeType, HaltAssumption DEF HaltAssumption
      <4> QED BY <1>0, <2>1, <4>1, HaltMarkerType DEF RunBody, RunTypeOK
    <3>5. /\ initialized' \in 0..Len(irs) /\ final' = final /\ final \in 0..initialized'
          /\ irs' = irs /\ UNCHANGED <<engine, status>> /\ phase' \in {"bodies", "terminate"}
      BY <2>1, <3>1 DEF RunBody
    <3> QED BY <1>0, <3>2, <3>3, <3>4, <3>5 DEF RunTypeOK
  <2>2. ASSUME BodiesDone PROVE RunTypeOK'
    BY <1>0, <2>2 DEF BodiesDone, RunTypeOK
  <2>3. ASSUME BeginTermination PROVE RunTypeOK'
    <3>1. TERMINATING' \in BOOLEAN /\ first_error' \in BOOLEAN /\ HALTED' \in BOOLEAN
      BY <1>0, <2>3 DEF BeginTermination, RunTypeOK
    <3> QED BY <1>0, <2>3, <3>1 DEF BeginTermination, RunTypeOK
  <2>4. ASSUME NEW out \in Outcome, RunFinal(out) PROVE RunTypeOK'
    <3>1. final \in Nat \ {0} /\ final <= initialized /\ irs[final] \in Name
          /\ initialized \in 0..Len(irs)
      BY <1>0, <2>4 DEF RunFinal, RunTypeOK
    <3>2. seen' \in Seq(Event) /\ HALTED' \in BOOLEAN /\ TERMINATING' \in BOOLEAN
      BY <1>0, <2>4, <3>1, EventType DEF RunFinal
    <3>3. first_error' \in BOOLEAN
      BY <2>4 DEF RunFinal
    <3>4. final' \in 0..initialized /\ initialized' = initialized /\ irs' = irs
          /\ UNCHANGED <<engine, phase, halt_code, status>>
      BY <2>4, <3>1 DEF RunFinal
    <3> QED BY <1>0, <3>1, <3>2, <3>3, <3>4 DEF RunTypeOK
  <2>5. ASSUME Exit PROVE RunTypeOK'
    BY <1>0, <2>5, StatusType DEF Exit, RunTypeOK
  <2>6. RunTypeOK'
    BY <1>7, <2>1, <2>2, <2>3, <2>4, <2>5 DEF RunProgram, RunStep
  <2> QED BY <1>0, <1>3, <1>7, <2>6 DEF RunProgram
<1>8. CASE UNCHANGED vars
  <2>1. RunTypeOK'
    BY <1>0, <1>8 DEF vars, runVars, RunTypeOK
  <2> QED BY <1>0, <1>3, <1>8, <2>1 DEF vars
<1> QED BY <1>2, <1>4, <1>5, <1>6, <1>7, <1>8 DEF Next, Step, Exited

-----------------------------------------------------------------------------
(* Lowering.                                                               *)

LEMMA DependenciesFixed ==
    ASSUME disk' = disk
    PROVE  Dependencies' = Dependencies
BY DEF Dependencies, Loader!ImportsOf, Loader!Reaches, Loader!Closed

LEMMA LoaderActive == Load => pc \notin {"done", "error"}
BY DEF Load, Loader!Step, Loader!LoadEntry, Loader!LoadExtraRoot, Loader!RootsLoaded,
       Loader!PopQueue, Loader!ResolveImport, Loader!SetImports, Loader!StartSort,
       Loader!VisitRoot, Loader!VisitChild, Loader!Leave, Loader!FinishSort

(* Whatever is lowered depends on modules that were lowered before it.     *)
LEMMA LowerStep ==
    ASSUME LP!IInv, TypeOK, LowerInv, FlagInv, [Next]_vars
    PROVE  LowerInv'
<1>0. /\ irs \in Seq(Name) /\ lowered \in 0..Len(order) /\ order \in Seq(Name)
      /\ DOMAIN irs = 1..Len(irs) /\ Len(irs) \in Nat
  BY OrderFacts DEF TypeOK, RunTypeOK
<1>1. CASE Load
  <2>1. pc \notin {"done", "error"}
    BY <1>1, LoaderActive
  <2>2. lowered = 0 /\ phase = "compile" /\ UNCHANGED <<lowered, irs, phase>>
    BY <1>1, <2>1 DEF Load, LowerInv, runVars
  <2>3. DOMAIN irs = {}
    <3>1. \A n \in Name : ~ \E i \in DOMAIN irs : irs[i] = n
      BY <2>2 DEF LowerInv
    <3>2. \A i \in DOMAIN irs : irs[i] \in Name
      BY <1>0
    <3> QED BY <3>1, <3>2
  <2> QED BY <2>2, <2>3 DEF LowerInv
<1>2. CASE LowerModule
  <2> DEFINE n == order[lowered + 1]
  <2>1. /\ pc = "done" /\ pc' = pc /\ order' = order /\ disk' = disk
        /\ lowered \in Nat /\ lowered + 1 \in 1..Len(order) /\ lowered' = lowered + 1
    BY <1>0, <1>2 DEF LowerModule, loaderVars
  <2>2. Dependencies' = Dependencies
    BY <2>1, DependenciesFixed
  <2>3. n \in Name
    BY <1>0, <2>1
  <2>4. \A k : k \in 1..lowered' <=> k \in 1..lowered \/ k = lowered + 1
    BY <2>1
  <2>5. CASE n \in Intrinsic /\ Skip
    <3>1. irs' = irs /\ phase' = phase
      BY <2>5 DEF Skip, runVars
    <3>2. \A m \in Name : (\E i \in DOMAIN irs' : irs'[i] = m)
                <=> m \notin Intrinsic /\ \E k \in 1..lowered' : order'[k] = m
      BY <2>1, <2>4, <2>5, <3>1 DEF LowerInv
    <3> QED BY <2>1, <2>2, <3>1, <3>2 DEF LowerInv
  <2>6. CASE n \notin Intrinsic /\ Lower(n)
    <3>1. irs' = Append(irs, n) /\ phase' = phase
      BY <2>6 DEF Lower
    <3> HIDE DEF n
    <3>2. /\ DOMAIN irs' = 1..(Len(irs) + 1) /\ irs'[Len(irs) + 1] = n
          /\ \A i \in DOMAIN irs : irs'[i] = irs[i]
      BY <1>0, <2>3, <3>1
    <3>3. \A i : i \in DOMAIN irs' <=> i \in DOMAIN irs \/ i = Len(irs) + 1
      BY <1>0, <3>2
    <3>4. \A m \in Name : (\E i \in DOMAIN irs' : irs'[i] = m)
                <=> (\E i \in DOMAIN irs : irs[i] = m) \/ m = n
      BY <3>2, <3>3
    <3>5. \A m \in Name : (\E k \in 1..lowered' : order'[k] = m)
                <=> (\E k \in 1..lowered : order[k] = m) \/ m = n
      BY <2>1, <2>4 DEF n
    <3>6. ~ \E i \in DOMAIN irs : irs[i] = n
      <4>1. ~ \E k \in 1..lowered : order[k] = n
        BY <1>0, <2>1, OrderFacts DEF n
      <4> QED BY <2>3, <4>1 DEF LowerInv
    <3>7. \A i, j \in DOMAIN irs' : irs'[i] = irs'[j] => i = j
      BY <3>2, <3>3, <3>6 DEF LowerInv
    <3>8. ASSUME NEW d \in Dependencies[n]
          PROVE  \E j \in DOMAIN irs : irs[j] = d
      <4>1. PICK i \in 1..Len(order) : i < lowered + 1 /\ order[i] = d
        BY <2>1, <3>8, OrderFacts DEF n
      <4>2. i \in 1..lowered
        BY <2>1, <4>1
      <4>3. d \in Name /\ d \notin Intrinsic
        BY <1>0, <2>3, <3>8, <4>1 DEF Dependencies
      <4> QED BY <4>1, <4>2, <4>3 DEF LowerInv
    <3>9. ASSUME NEW i \in DOMAIN irs', NEW d \in Dependencies[irs'[i]]
          PROVE  \E j \in DOMAIN irs' : j < i /\ irs'[j] = d
      <4>1. CASE i = Len(irs) + 1
        <5>1. PICK j \in DOMAIN irs : irs[j] = d
          BY <3>2, <3>8, <3>9, <4>1
        <5> QED BY <1>0, <3>2, <3>3, <4>1, <5>1
      <4>2. CASE i \in DOMAIN irs
        <5>1. PICK j \in DOMAIN irs : j < i /\ irs[j] = d
          BY <3>2, <3>9, <4>2 DEF LowerInv
        <5> QED BY <3>2, <3>3, <5>1
      <4> QED BY <3>3, <4>1, <4>2
    <3> QED BY <2>1, <2>2, <2>6, <3>1, <3>4, <3>5, <3>7, <3>9 DEF LowerInv
  <2> QED BY <1>2, <2>5, <2>6 DEF LowerModule
<1>3. ASSUME UNCHANGED <<loaderVars, lowered, irs>>,
             phase' = "compile" \/ pc \in {"done", "error"}
      PROVE  LowerInv'
  <2>1. Dependencies' = Dependencies
    BY <1>3, DependenciesFixed DEF loaderVars
  <2> QED BY <1>3, <2>1 DEF LowerInv, loaderVars
<1>4. ASSUME RefuseBroken \/ RefuseCode \/ LaunchLoaded PROVE LowerInv'
  BY <1>3, <1>4 DEF RefuseBroken, RefuseCode, Refuse, LaunchLoaded, Launch
<1>5. CASE RunProgram
  <2>1. phase # "compile" /\ irs' = irs
    BY <1>5 DEF RunProgram, RunStep, RunBody, BodiesDone, BeginTermination, RunFinal, Exit
  <2> QED BY <1>3, <1>5, <2>1 DEF RunProgram, LowerInv
<1>6. CASE UNCHANGED vars
  <2>1. phase' = phase /\ UNCHANGED <<loaderVars, lowered, irs>>
    BY <1>6 DEF vars, runVars
  <2> QED BY <1>3, <2>1 DEF LowerInv
<1> QED BY <1>1, <1>2, <1>4, <1>5, <1>6 DEF Next, Step, Exited

-----------------------------------------------------------------------------
(* Bodies and finalizers.                                                  *)

(* A body: one more event, of the next lowered module.                     *)
LEMMA BodyStep ==
    ASSUME TypeOK, SeenInv, FlagInv, NEW out \in Outcome, RunBody(out)
    PROVE  SeenInv' /\ FlagInv'
<1> DEFINE n == Len(seen)
           m == irs[initialized + 1]
<1>0. RunTypeOK
  BY DEF TypeOK
<1>1. /\ phase = "bodies" /\ ~ TERMINATING /\ Bodies = initialized /\ final = 0
      /\ initialized \in Nat /\ initialized < Len(irs) /\ Len(irs) \in Nat
      /\ m \in Name
  BY <1>0 DEF RunBody, RunTypeOK, FlagInv
<1>2. n = initialized /\ n \in Nat /\ DOMAIN seen = 1..n
  BY <1>0, <1>1 DEF Bodies, RunTypeOK
<1>3. Run(m, "body", out)
  BY DEF RunBody
<1>4. /\ Len(seen') = n + 1 /\ DOMAIN seen' = 1..(n + 1)
      /\ \A i \in 1..n : seen'[i] = seen[i]
      /\ seen'[n + 1] = [module |-> m, part |-> "body", terminating |-> TERMINATING, out |-> out]
  BY <1>0, <1>1, <1>3, EventType
<1>5. /\ phase' \in {"bodies", "terminate"} /\ irs' = irs /\ final' = final
      /\ initialized' = IF out.kind = "failed" THEN initialized ELSE initialized + 1
  BY <1>1 DEF RunBody
<1> HIDE DEF n, m
<1>6. Bodies' = n + 1
  BY <1>4, <1>5 DEF Bodies, n
<1>7. \A i \in 1..(n + 1) : i \in 1..n \/ i = n + 1
  BY <1>2
<1>8. \A i \in 1..n : /\ seen[i].part = "body" /\ ~ seen[i].terminating
                      /\ seen[i].module = irs[i] /\ seen[i].out.kind # "failed"
  <2>1. \A i \in 1..n : i # initialized + 1
    BY <1>2
  <2> QED BY <1>1, <1>2, <2>1 DEF SeenInv
<1>9. /\ seen'[n + 1].part = "body" /\ ~ seen'[n + 1].terminating
      /\ seen'[n + 1].module = irs[n + 1] /\ seen'[n + 1].out = out
  BY <1>1, <1>2, <1>4 DEF m
<1>10. \A i \in 1..(n + 1) : /\ seen'[i].part = "body" /\ ~ seen'[i].terminating
                             /\ seen'[i].module = irs[i]
  BY <1>4, <1>7, <1>8, <1>9
<1>11. \A i \in 1..(n + 1) : seen'[i].out.kind = "failed" <=> i = initialized' + 1
  <2>1. CASE out.kind = "failed"
    <3>1. initialized' + 1 = n + 1
      BY <1>2, <1>5, <2>1
    <3>2. \A i \in 1..n : i # n + 1
      BY <1>2
    <3> QED BY <1>4, <1>7, <1>8, <1>9, <2>1, <3>1, <3>2
  <2>2. CASE out.kind # "failed"
    <3>1. \A i \in 1..(n + 1) : i # initialized' + 1
      BY <1>2, <1>5, <2>2
    <3> QED BY <1>4, <1>7, <1>8, <1>9, <2>2, <3>1
  <2> QED BY <2>1, <2>2
<1>12. SeenInv'
  <2>1. Bodies' \in {initialized', initialized' + 1} /\ Bodies' <= Len(irs')
    BY <1>1, <1>2, <1>5, <1>6
  <2>2. (Bodies' + 1)..Len(seen') = {}
    BY <1>2, <1>4, <1>6
  <2> QED BY <1>5, <1>6, <1>10, <1>11, <2>1, <2>2 DEF SeenInv
<1>13. FlagInv'
  <2>1. first_error' <=> \E i \in DOMAIN seen' : seen'[i].out.kind = "failed"
    <3>1. first_error <=> \E i \in DOMAIN seen : seen[i].out.kind = "failed"
      BY DEF FlagInv
    <3>2. ~ first_error
      BY <1>2, <1>8, <3>1
    <3>3. first_error' <=> out.kind = "failed"
      BY <3>2 DEF RunBody
    <3>4. \A i \in 1..n : seen'[i].out.kind # "failed"
      BY <1>4, <1>8
    <3>5. n + 1 \in DOMAIN seen' /\ \A i \in DOMAIN seen' : i \in 1..n \/ i = n + 1
      BY <1>2, <1>4, <1>7
    <3> QED BY <1>9, <3>3, <3>4, <3>5
  <2>2. phase' = "bodies" => ~ TERMINATING' /\ Bodies' = initialized'
    <3>1. phase' = "bodies" => out.kind = "ran"
      BY DEF RunBody
    <3>2. out.kind = "ran" => ~ TERMINATING'
      BY <1>1, <1>3 DEF Run
    <3>3. out.kind = "ran" => initialized' = n + 1
      BY <1>2, <1>5
    <3> QED BY <1>6, <3>1, <3>2, <3>3
  <2>3. HaltInv'
    <3>1. \A i \in 1..n : seen[i].out.kind # "halted"
      <4>1. ASSUME NEW i \in 1..n, seen[i].out.kind = "halted" PROVE FALSE
        <5>1. halt_code = None /\ halt_code = HaltMarker(seen[i].out.code)
          BY <1>1, <1>2, <1>8, <4>1 DEF FlagInv, HaltInv
        <5>2. seen[i].out.code \in Int
          <6>1. seen[i] \in Event
            BY <1>0, <4>1 DEF RunTypeOK, n
          <6>2. seen[i].out \in Outcome
            BY <6>1 DEF Event
          <6> QED BY <4>1, <6>2, OutcomeType, HaltAssumption DEF HaltAssumption
        <5> QED BY <5>1, <5>2, HaltMarkerType, HaltAssumption DEF HaltAssumption, I32
      <4> QED BY <4>1
    <3>2. halt_code' = IF out.kind = "halted" THEN HaltMarker(out.code) ELSE None
      BY <1>1 DEF RunBody, FlagInv, HaltInv
    <3>3. phase' = "bodies" => out.kind = "ran"
      BY DEF RunBody
    <3>4. \A i \in DOMAIN seen' : seen'[i].out.kind = "halted" => i = n + 1
      BY <1>2, <1>4, <1>7, <3>1
    <3>5. \A i \in DOMAIN seen' : seen'[i].part = "body" /\ seen'[i].out.kind = "halted"
                                  => halt_code' = HaltMarker(seen'[i].out.code)
      BY <1>9, <3>2, <3>4
    <3> QED BY <1>5, <3>2, <3>3, <3>5 DEF HaltInv
  <2> QED BY <1>1, <1>5, <2>1, <2>2, <2>3 DEF FlagInv
<1> QED BY <1>12, <1>13

(* A finalizer: one more event, of the last module not yet finalized.      *)
LEMMA FinalStep ==
    ASSUME TypeOK, SeenInv, FlagInv, NEW out \in Outcome, RunFinal(out)
    PROVE  SeenInv' /\ FlagInv'
<1> DEFINE n == Len(seen)
           b == Bodies
           m == irs[final]
<1>0. RunTypeOK
  BY DEF TypeOK
<1>1. /\ phase = "finals" /\ TERMINATING /\ final \in Nat \ {0} /\ final <= initialized
      /\ initialized \in Nat /\ initialized <= Len(irs) /\ Len(irs) \in Nat
      /\ m \in Name
  BY <1>0 DEF RunFinal, RunTypeOK, FlagInv
<1>2. /\ n \in Nat /\ DOMAIN seen = 1..n /\ b = n - (initialized - final)
      /\ b \in {initialized, initialized + 1} /\ b <= Len(irs)
  BY <1>0, <1>1 DEF Bodies, RunTypeOK, SeenInv
<1>3. Run(m, "final", out)
  BY DEF RunFinal
<1>4. /\ Len(seen') = n + 1 /\ DOMAIN seen' = 1..(n + 1)
      /\ \A i \in 1..n : seen'[i] = seen[i]
      /\ seen'[n + 1] = [module |-> m, part |-> "final", terminating |-> TERMINATING, out |-> out]
  BY <1>0, <1>1, <1>3, EventType
<1>5. phase' = "finals" /\ irs' = irs /\ final' = final - 1 /\ initialized' = initialized
  BY <1>1 DEF RunFinal
<1>a. /\ \A i \in 1..b :
           /\ seen[i].part = "body" /\ ~ seen[i].terminating
           /\ seen[i].module = irs[i]
           /\ seen[i].out.kind = "failed" <=> i = initialized + 1
      /\ \A i \in (b + 1)..n :
           /\ seen[i].part = "final" /\ seen[i].terminating
           /\ seen[i].module = irs[b + initialized + 1 - i]
  BY DEF SeenInv
<1>6. Bodies' = b
  <2>1. Bodies' = (n + 1) - (initialized - (final - 1))
    BY <1>4, <1>5 DEF Bodies
  <2> HIDE DEF n, b
  <2> QED BY <1>1, <1>2, <2>1
<1> HIDE DEF n, b, m
<1>7. b \in Nat /\ b <= n /\ b + initialized + 1 - (n + 1) = final
  BY <1>1, <1>2
<1>8. /\ \A i \in 1..b : i \in 1..n
      /\ \A i \in (b + 1)..(n + 1) : (i \in 1..n /\ i \in (b + 1)..n) \/ i = n + 1
  BY <1>2, <1>7
<1>9. /\ seen'[n + 1].part = "final" /\ seen'[n + 1].terminating
      /\ seen'[n + 1].module = irs[final] /\ seen'[n + 1].out = out
  BY <1>1, <1>4 DEF m
<1>10. SeenInv'
  <2>1. \A i \in 1..b :
           /\ seen'[i].part = "body" /\ ~ seen'[i].terminating
           /\ seen'[i].module = irs[i]
           /\ seen'[i].out.kind = "failed" <=> i = initialized + 1
    BY <1>4, <1>8, <1>a
  <2>2. \A i \in (b + 1)..(n + 1) :
           /\ seen'[i].part = "final" /\ seen'[i].terminating
           /\ seen'[i].module = irs[b + initialized + 1 - i]
    BY <1>4, <1>7, <1>8, <1>9, <1>a
  <2> QED BY <1>2, <1>4, <1>5, <1>6, <2>1, <2>2 DEF SeenInv
<1>11. FlagInv'
  <2>1. first_error' <=> \E i \in DOMAIN seen' : seen'[i].out.kind = "failed"
    <3>1. first_error <=> \E i \in DOMAIN seen : seen[i].out.kind = "failed"
      BY DEF FlagInv
    <3>2. first_error' <=> first_error \/ out.kind = "failed"
      BY DEF RunFinal
    <3>3. \A i : i \in DOMAIN seen' <=> i \in DOMAIN seen \/ i = n + 1
      BY <1>2, <1>4
    <3>4. \A i \in DOMAIN seen : seen'[i] = seen[i]
      BY <1>2, <1>4
    <3> QED BY <1>9, <3>1, <3>2, <3>3, <3>4
  <2>2. TERMINATING'
    BY <1>1, <1>3 DEF Run
  <2>3. HaltInv'
    <3>1. halt_code' = halt_code
      BY DEF RunFinal
    <3>2. \A i \in DOMAIN seen' : seen'[i].part = "body" => i \in DOMAIN seen
      BY <1>2, <1>4, <1>8, <1>9
    <3>3. \A i \in DOMAIN seen : seen'[i] = seen[i]
      BY <1>2, <1>4
    <3>4. \A i \in DOMAIN seen : seen[i].part = "body" /\ seen[i].out.kind = "halted"
                                => halt_code = HaltMarker(seen[i].out.code)
      BY DEF FlagInv, HaltInv
    <3>5. \A i \in DOMAIN seen' : seen'[i].part = "body" /\ seen'[i].out.kind = "halted"
                                 => halt_code' = HaltMarker(seen'[i].out.code)
      BY <3>1, <3>2, <3>3, <3>4
    <3> QED BY <1>5, <3>5 DEF HaltInv
  <2> QED BY <1>5, <2>1, <2>2, <2>3 DEF FlagInv
<1> QED BY <1>10, <1>11

LEMMA RunnerStep ==
    ASSUME TypeOK, LowerInv, SeenInv, FlagInv, [Next]_vars
    PROVE  SeenInv' /\ FlagInv'
<1>0. RunTypeOK /\ Len(irs) \in Nat /\ Len(seen) \in Nat
  BY DEF TypeOK, RunTypeOK
<1>1. CASE UNCHANGED runVars
  BY <1>1 DEF runVars, SeenInv, FlagInv, HaltInv, Bodies
<1>2. CASE Lower(order[lowered + 1]) /\ order[lowered + 1] \in Name
  <2>1. /\ phase = "compile" /\ seen = << >> /\ initialized = 0
        /\ Len(irs') = Len(irs) + 1
        /\ UNCHANGED <<phase, initialized, final, first_error, halt_code, TERMINATING, status, seen>>
    BY <1>0, <1>2 DEF Lower, FlagInv, HaltInv, RunTypeOK
  <2>2. Bodies = 0 /\ Bodies' = 0
    BY <2>1 DEF Bodies
  <2>3. SeenInv'
    BY <1>0, <2>1, <2>2 DEF SeenInv
  <2> QED BY <2>1, <2>2, <2>3 DEF FlagInv, HaltInv
<1>3. CASE Launch
  <2>1. Bodies' = Bodies
    BY <1>3 DEF Launch, Bodies
  <2> QED BY <1>3, <2>1 DEF Launch, SeenInv, FlagInv, HaltInv
<1>4. CASE Refuse
  <2>1. /\ seen = << >> /\ initialized = 0 /\ final = 0 /\ phase' = "exited" /\ status' = 1
        /\ UNCHANGED <<seen, irs, initialized, final, first_error, halt_code>>
    BY <1>4 DEF Refuse, FlagInv, HaltInv
  <2>2. Bodies' = 0
    BY <2>1 DEF Bodies
  <2>3. SeenInv'
    BY <1>0, <2>1, <2>2 DEF SeenInv
  <2> QED BY <2>1, <2>3 DEF FlagInv, HaltInv
<1>5. CASE BodiesDone
  <2>1. Bodies' = Bodies
    BY <1>5 DEF BodiesDone, Bodies
  <2> QED BY <1>5, <2>1 DEF BodiesDone, SeenInv, FlagInv, HaltInv
<1>6. CASE BeginTermination
  <2>1. Bodies' = Bodies
    BY <1>0, <1>6 DEF BeginTermination, Bodies, RunTypeOK
  <2> QED BY <1>6, <2>1 DEF BeginTermination, SeenInv, FlagInv, HaltInv
<1>7. CASE Exit
  <2>1. Bodies' = Bodies
    BY <1>7 DEF Exit, Bodies
  <2>2. first_error' \/ halt_code' \in 1..255 => status' # 0
    BY <1>0, <1>7, StatusType DEF Exit
  <2> QED BY <1>7, <2>1, <2>2 DEF Exit, SeenInv, FlagInv, HaltInv
<1>8. CASE \E out \in Outcome : RunBody(out) \/ RunFinal(out)
  BY <1>8, BodyStep, FinalStep
<1>9. ASSUME LowerModule PROVE order[lowered + 1] \in Name
  BY <1>9 DEF LowerModule, TypeOK, Loader!TypeOK
<1> QED BY <1>1, <1>2, <1>3, <1>4, <1>5, <1>6, <1>7, <1>8, <1>9
        DEF Next, Step, Load, RefuseBroken, RefuseCode, LowerModule, Skip, LaunchLoaded, RunProgram,
            RunStep, Exited, vars

-----------------------------------------------------------------------------
RunnerInv == TypeOK /\ LowerInv /\ SeenInv /\ FlagInv

LEMMA RunnerInit == Init /\ LP!IInv => RunnerInv
<1> SUFFICES ASSUME Init, LP!IInv PROVE RunnerInv
  OBVIOUS
<1> USE DEF Init, RunInit
<1>1. Loader!TypeOK /\ order \in Seq(Name) /\ lowered \in 0..Len(order)
  BY OrderFacts
<1>2. first_error \in BOOLEAN /\ HALTED \in BOOLEAN /\ TERMINATING \in BOOLEAN
  OBVIOUS
<1>3. RunTypeOK
  BY <1>2 DEF RunTypeOK
<1>4. DOMAIN irs = {} /\ DOMAIN seen = {} /\ Len(irs) = 0 /\ Len(seen) = 0 /\ Bodies = 0
  BY DEF Bodies
<1>5. LowerInv
  BY <1>4 DEF LowerInv
<1>6. SeenInv
  BY <1>4 DEF SeenInv
<1>7. FlagInv
  BY <1>4 DEF FlagInv, HaltInv
<1> QED BY <1>1, <1>3, <1>5, <1>6, <1>7 DEF RunnerInv, TypeOK

(* The invariant of the driver and the program it runs, for every source
   tree and whatever bodies and finalizers do.                             *)
THEOREM Invariance == Spec => []IInv
<1>1. LP!IInv /\ LP!IInv' /\ RunnerInv /\ [Next]_vars => RunnerInv'
  BY TypeStep, LowerStep, RunnerStep DEF RunnerInv
<1>2. Spec => []RunnerInv
  BY <1>1, RunnerInit, LoaderInvariance, PTL DEF Spec
<1>3. LP!IInv /\ RunnerInv => IInv
  BY DEF RunnerInv, IInv
<1> QED BY <1>2, <1>3, LoaderInvariance, PTL

(* Loader, driver and runner keep their types; in particular at most the
   initialised modules are finalized.                                      *)
THEOREM TypeCorrect == Spec => []TypeOK
<1>1. IInv => TypeOK
  BY DEF IInv
<1> QED BY <1>1, Invariance, PTL

(* nm2_aot_run and run_modules finalize what was initialised, once, in
   reverse, and IsTerminating() tells bodies from finalizers.              *)
THEOREM ReverseFinalization == Spec => []FinalizedInReverse
<1>1. ASSUME IInv PROVE FinalizedInReverse
  <2> DEFINE n == Len(seen)
             b == Bodies
             u == initialized
  <2>1. RunTypeOK /\ SeenInv /\ FlagInv
    BY <1>1 DEF IInv, TypeOK
  <2>2. n \in Nat /\ u \in Nat /\ final \in 0..u /\ DOMAIN seen = 1..n
    BY <2>1 DEF RunTypeOK
  <2>3. b \in {u, u + 1} /\ b <= n
    <3>1. b \in {u, u + 1}
      BY <2>1 DEF SeenInv
    <3>2. b = n \/ b = n - (u - final)
      BY DEF Bodies
    <3> HIDE DEF n, b, u
    <3> QED BY <2>2, <3>1, <3>2
  <2>4. /\ \A i \in 1..b :
           /\ seen[i].part = "body" /\ ~ seen[i].terminating
           /\ seen[i].module = irs[i]
           /\ seen[i].out.kind = "failed" <=> i = u + 1
        /\ \A i \in (b + 1)..n :
           /\ seen[i].part = "final" /\ seen[i].terminating
           /\ seen[i].module = irs[b + u + 1 - i]
    BY <2>1 DEF SeenInv
  <2>5. phase = "exited" => b = n - u
    BY <2>1, <2>2 DEF FlagInv, Bodies
  <2> HIDE DEF n, b, u
  <2>6. \A i \in 1..n : i \in 1..b \/ i \in (b + 1)..n
    BY <2>2, <2>3
  <2>7. \A i \in DOMAIN seen : seen[i].terminating <=> seen[i].part = "final"
    BY <2>2, <2>4, <2>6
  <2>8. ASSUME phase = "exited"
        PROVE  /\ u \in 0..n
               /\ {i \in 1..n : seen[i].part = "body" /\ seen[i].out.kind # "failed"} = 1..u
               /\ {i \in 1..n : seen[i].part = "final"} = (n + 1 - u)..n
               /\ \A i \in 1..u : seen[n + 1 - i].module = seen[i].module
    <3>1. b = n - u
      BY <2>5, <2>8
    <3>2. /\ u \in 0..n
          /\ \A i \in 1..b : i \in 1..u \/ i = u + 1
          /\ \A i \in 1..u : i \in 1..b /\ i \in 1..n /\ i # u + 1
          /\ \A i \in (b + 1)..n : i \in 1..n /\ i \notin 1..u
          /\ n + 1 - u = b + 1
          /\ \A i \in 1..u : n + 1 - i \in (b + 1)..n /\ b + u + 1 - (n + 1 - i) = i
      BY <2>2, <2>3, <3>1
    <3>3. {i \in 1..n : seen[i].part = "body" /\ seen[i].out.kind # "failed"} = 1..u
      BY <2>4, <2>6, <3>2
    <3>4. {i \in 1..n : seen[i].part = "final"} = (n + 1 - u)..n
      BY <2>4, <2>6, <3>2
    <3>5. \A i \in 1..u : seen[n + 1 - i].module = seen[i].module
      BY <2>4, <3>2
    <3> QED BY <3>2, <3>3, <3>4, <3>5
  <2> QED BY <2>7, <2>8 DEF FinalizedInReverse, n
<1> QED BY <1>1, Invariance, PTL

(* The exit status of run_run and nm2_aot_run shows an exception that escaped
   a body or a finalizer, and a HALT of a body with a code it can hold.    *)
THEOREM FailuresReported == Spec => []FailureIsReported
<1>1. ASSUME IInv, phase = "exited", NEW i \in DOMAIN seen,
             \/ seen[i].out.kind = "failed"
             \/ /\ seen[i].part = "body" /\ seen[i].out.kind = "halted"
                /\ seen[i].out.code \in 1..255
      PROVE  status # 0
  <2>1. CASE seen[i].out.kind = "failed"
    BY <1>1, <2>1 DEF IInv, FlagInv
  <2>2. CASE /\ seen[i].part = "body" /\ seen[i].out.kind = "halted"
             /\ seen[i].out.code \in 1..255
    <3>1. halt_code = HaltMarker(seen[i].out.code)
      BY <1>1, <2>2 DEF IInv, FlagInv, HaltInv
    <3>2. halt_code \in 1..255
      BY <2>2, <3>1, HaltMarkerType
    <3> QED BY <1>1, <3>2 DEF IInv, FlagInv
  <2> QED BY <1>1, <2>1, <2>2
<1>2. IInv => FailureIsReported
  BY <1>1 DEF FailureIsReported
<1> QED BY <1>2, Invariance, PTL

-----------------------------------------------------------------------------
(* The refinement of Lifecycle.                                            *)

(* Where the k-th lowered module is in its life.                           *)
Place(k) ==
    IF k > Bodies THEN "cold"
    ELSE IF k = initialized + 1 THEN "failed"
    ELSE IF phase \in {"finals", "exited"} /\ k > final THEN "down"
    ELSE "up"

Lives ==
    /\ \A n \in Name : (\A k \in DOMAIN irs : irs[k] # n) => LifeOf(n) = "cold"
    /\ \A n \in Name : \A k \in DOMAIN irs : irs[k] = n => LifeOf(n) = Place(k)

(* The life of a module, read from the events, is its place in the run.    *)
LEMMA LifeIsPlace == IInv => Lives
<1> SUFFICES ASSUME IInv PROVE Lives
  OBVIOUS
<1> DEFINE n == Len(seen)
           b == Bodies
           u == initialized
<1>1. RunTypeOK /\ SeenInv /\ FlagInv /\ LowerInv
  BY DEF IInv, TypeOK
<1>2. /\ n \in Nat /\ u \in Nat /\ final \in 0..u /\ DOMAIN seen = 1..n
      /\ DOMAIN irs = 1..Len(irs) /\ Len(irs) \in Nat /\ u <= Len(irs)
  BY <1>1 DEF RunTypeOK
<1>3. b \in {u, u + 1} /\ b <= Len(irs)
  BY <1>1 DEF SeenInv
<1>4. /\ \A i \in 1..b :
         /\ seen[i].part = "body"
         /\ seen[i].module = irs[i]
         /\ seen[i].out.kind = "failed" <=> i = u + 1
      /\ \A i \in (b + 1)..n :
         /\ seen[i].part = "final"
         /\ seen[i].module = irs[b + u + 1 - i]
  BY <1>1 DEF SeenInv
<1>5. b = IF phase \in {"finals", "exited"} THEN n - (u - final) ELSE n
  BY <1>2 DEF Bodies
<1> HIDE DEF n, b, u
<1>6. /\ b \in Nat /\ b <= n
      /\ \A i \in 1..n : i \in 1..b \/ i \in (b + 1)..n
      /\ \A i \in 1..b : i \in 1..n /\ i \in DOMAIN irs
      /\ \A i \in (b + 1)..n : i \in 1..n /\ b + u + 1 - i \in DOMAIN irs
                               /\ b + u + 1 - i \in (final + 1)..u
                               /\ phase \in {"finals", "exited"}
  BY <1>2, <1>3, <1>5
<1>7. ASSUME NEW m, \A k \in DOMAIN irs : irs[k] # m PROVE LifeOf(m) = "cold"
  <2>1. ASSUME NEW i \in DOMAIN seen PROVE seen[i].module # m
    <3>1. CASE i \in 1..b
      <4>1. i \in DOMAIN irs /\ seen[i].module = irs[i]
        BY <1>4, <1>6, <3>1
      <4> QED BY <1>7, <4>1
    <3>2. CASE i \in (b + 1)..n
      <4>1. b + u + 1 - i \in DOMAIN irs /\ seen[i].module = irs[b + u + 1 - i]
        BY <1>4, <1>6, <3>2
      <4> QED BY <1>7, <4>1
    <3> QED BY <1>2, <1>6, <3>1, <3>2
  <2>2. Lived(m, "final") = {} /\ Lived(m, "body") = {}
    BY <2>1 DEF Lived
  <2> QED BY <2>2 DEF LifeOf
<1>8. ASSUME NEW k \in DOMAIN irs PROVE LifeOf(irs[k]) = Place(k)
  <2>1. \A j \in DOMAIN irs : irs[j] = irs[k] => j = k
    BY <1>1 DEF LowerInv
  <2>2. Lived(irs[k], "body") = IF k <= b THEN {k} ELSE {}
    <3>1. \A i \in Lived(irs[k], "body") : i = k /\ k <= b
      <4> SUFFICES ASSUME NEW i \in Lived(irs[k], "body") PROVE i = k /\ k <= b
        OBVIOUS
      <4>1. i \in 1..n /\ seen[i].module = irs[k] /\ seen[i].part = "body"
        BY <1>2 DEF Lived
      <4>2. i \in 1..b
        BY <1>4, <1>6, <4>1
      <4>3. i \in DOMAIN irs /\ irs[i] = irs[k]
        BY <1>4, <1>6, <4>1, <4>2
      <4> QED BY <1>6, <2>1, <4>2, <4>3
    <3>2. ASSUME k <= b PROVE k \in Lived(irs[k], "body")
      <4>1. k \in 1..b
        BY <1>2, <1>6, <3>2
      <4> QED BY <1>2, <1>4, <1>6, <4>1 DEF Lived
    <3>3. k \in Nat
      BY <1>2
    <3> QED BY <1>6, <3>1, <3>2, <3>3
  <2>3. Lived(irs[k], "final") # {} <=>
            phase \in {"finals", "exited"} /\ k > final /\ k <= u
    <3>1. ASSUME NEW i \in Lived(irs[k], "final")
          PROVE  phase \in {"finals", "exited"} /\ k > final /\ k <= u
      <4>1. i \in 1..n /\ seen[i].module = irs[k] /\ seen[i].part = "final"
        BY <1>2, <3>1 DEF Lived
      <4>2. i \in (b + 1)..n
        BY <1>4, <1>6, <4>1
      <4>3. b + u + 1 - i = k
        BY <1>4, <1>6, <2>1, <4>1, <4>2
      <4>4. k \in (final + 1)..u /\ phase \in {"finals", "exited"}
        BY <1>6, <4>2, <4>3
      <4> QED BY <1>2, <4>4
    <3>2. ASSUME phase \in {"finals", "exited"}, k > final, k <= u
          PROVE  Lived(irs[k], "final") # {}
      <4> DEFINE i == b + u + 1 - k
      <4>1. i \in (b + 1)..n /\ b + u + 1 - i = k
        BY <1>2, <1>3, <1>5, <3>2
      <4>2. i \in DOMAIN seen
        BY <1>2, <1>6, <4>1
      <4>3. seen[i].part = "final" /\ seen[i].module = irs[k]
        BY <1>4, <4>1
      <4> HIDE DEF i
      <4> QED BY <4>2, <4>3 DEF Lived
    <3> QED BY <3>1, <3>2
  <2>4. k \in Nat \ {0}
    BY <1>2
  <2>5. CASE k > b
    <3>1. Lived(irs[k], "body") = {} /\ Lived(irs[k], "final") = {}
      BY <1>2, <1>3, <2>2, <2>3, <2>4, <2>5
    <3> QED BY <2>5, <3>1 DEF LifeOf, Place, b
  <2>6. CASE k <= b /\ k = u + 1
    <3>1. Lived(irs[k], "body") = {k} /\ Lived(irs[k], "final") = {}
      BY <1>2, <2>2, <2>3, <2>4, <2>6
    <3>2. seen[k].out.kind = "failed"
      BY <1>4, <2>4, <2>6, <1>6
    <3>3. LifeOf(irs[k]) = "failed"
      BY <3>1, <3>2 DEF LifeOf
    <3>4. ~ k > b
      BY <1>6, <2>4, <2>6
    <3> QED BY <2>6, <3>3, <3>4 DEF Place, b, u
  <2>7. CASE k <= b /\ k # u + 1
    <3>1. k <= u /\ ~ k > b /\ k \in 1..b
      BY <1>2, <1>3, <1>6, <2>4, <2>7
    <3>2. Lived(irs[k], "body") = {k} /\ seen[k].out.kind # "failed"
      BY <1>4, <2>2, <2>7, <3>1
    <3>3. LifeOf(irs[k]) = IF phase \in {"finals", "exited"} /\ k > final THEN "down" ELSE "up"
      BY <2>3, <3>1, <3>2 DEF LifeOf
    <3> QED BY <2>7, <3>1, <3>3 DEF Place, b, u
  <2> QED BY <1>6, <2>4, <2>5, <2>6, <2>7
<1> QED BY <1>7, <1>8 DEF Lives

(* A body is started when what its module depends on is up.                *)
LEMMA BodyStarts ==
    ASSUME IInv, IInv', UNCHANGED Dependencies, NEW out \in Outcome, RunBody(out)
    PROVE  Life!Next
<1> DEFINE m == irs[initialized + 1]
           outcome == IF out.kind = "failed" THEN "failed" ELSE "up"
<1>1. Lives /\ Lives'
  <2>1. IInv' => Lives'
    BY LifeIsPlace, PTL
  <2> QED BY <2>1, LifeIsPlace
<1>2. RunTypeOK /\ LowerInv /\ FlagInv /\ SeenInv
  BY DEF IInv, TypeOK
<1>3. /\ phase = "bodies" /\ Bodies = initialized /\ initialized \in Nat
      /\ initialized + 1 \in DOMAIN irs /\ DOMAIN irs = 1..Len(irs)
      /\ m \in Name /\ Len(seen) = initialized /\ \A k \in DOMAIN irs : irs[k] \in Name
  BY <1>2 DEF RunBody, RunTypeOK, FlagInv, Bodies
<1>4. /\ irs' = irs /\ phase' \in {"bodies", "terminate"}
      /\ initialized' = IF out.kind = "failed" THEN initialized ELSE initialized + 1
  BY <1>3 DEF RunBody
<1>5. Bodies' = initialized + 1
  <2>1. Len(seen') = Len(seen) + 1
    BY <1>2, <1>3, EventType DEF RunBody
  <2> QED BY <1>3, <1>4, <2>1 DEF Bodies
<1>6. \A k \in DOMAIN irs : Place(k) = IF k <= initialized THEN "up" ELSE "cold"
  BY <1>3 DEF Place
<1>7. \A k \in DOMAIN irs : Place(k)' = IF k = initialized + 1 THEN outcome ELSE Place(k)
  <2> SUFFICES ASSUME NEW k \in DOMAIN irs
               PROVE  Place(k)' = IF k = initialized + 1 THEN outcome ELSE Place(k)
    OBVIOUS
  <2>1. Place(k)' = IF k > initialized + 1 THEN "cold"
                    ELSE IF k = initialized' + 1 THEN "failed" ELSE "up"
    BY <1>4, <1>5 DEF Place
  <2> QED BY <1>3, <1>4, <1>6, <2>1
<1>8. \A k \in DOMAIN irs : irs[k] = m <=> k = initialized + 1
  BY <1>2, <1>3 DEF LowerInv
<1>9. \A n \in Name : LifeOf(n)' = IF n = m THEN outcome ELSE LifeOf(n)
  <2> SUFFICES ASSUME NEW n \in Name
               PROVE  LifeOf(n)' = IF n = m THEN outcome ELSE LifeOf(n)
    OBVIOUS
  <2>1. CASE \A k \in DOMAIN irs : irs[k] # n
    <3>1. LifeOf(n) = "cold" /\ LifeOf(n)' = "cold"
      BY <1>1, <1>4, <2>1 DEF Lives
    <3> QED BY <1>3, <2>1, <3>1
  <2>2. ASSUME NEW k \in DOMAIN irs, irs[k] = n
        PROVE  LifeOf(n)' = IF n = m THEN outcome ELSE LifeOf(n)
    <3>1. LifeOf(n) = Place(k) /\ LifeOf(n)' = Place(k)'
      BY <1>1, <1>4, <2>2 DEF Lives
    <3> QED BY <1>7, <1>8, <2>2, <3>1
  <2> QED BY <2>1, <2>2
<1>10. \A n \in Name : LifeOf(n) \in {"cold", "up"}
  BY <1>1, <1>6 DEF Lives
<1>11. LifeOf(m) = "cold"
  BY <1>1, <1>3, <1>6 DEF Lives
<1>12. \A d \in Dependencies[m] : d \in Name /\ LifeOf(d) = "up"
  <2> SUFFICES ASSUME NEW d \in Dependencies[m] PROVE d \in Name /\ LifeOf(d) = "up"
    OBVIOUS
  <2>1. PICK j \in DOMAIN irs : j < initialized + 1 /\ irs[j] = d
    BY <1>2, <1>3 DEF LowerInv
  <2>2. j <= initialized
    BY <1>3, <2>1
  <2> QED BY <1>1, <1>3, <1>6, <2>1, <2>2 DEF Lives
<1> HIDE DEF m
<1>13. Life!Start(m, outcome)
  BY <1>3, <1>9, <1>10, <1>11, <1>12 DEF Life!Start
<1> QED BY <1>3, <1>13 DEF Life!Next

(* A finalizer runs when nothing that is up depends on its module.         *)
LEMMA FinalStops ==
    ASSUME IInv, IInv', UNCHANGED Dependencies, NEW out \in Outcome, RunFinal(out)
    PROVE  Life!Next
<1> DEFINE m == irs[final]
<1>1. Lives /\ Lives'
  <2>1. IInv' => Lives'
    BY LifeIsPlace, PTL
  <2> QED BY <2>1, LifeIsPlace
<1>2. RunTypeOK /\ LowerInv /\ FlagInv /\ SeenInv
  BY DEF IInv, TypeOK
<1>3. /\ phase = "finals" /\ initialized \in Nat /\ final \in Nat \ {0} /\ final <= initialized
      /\ final \in DOMAIN irs /\ DOMAIN irs = 1..Len(irs) /\ Len(irs) \in Nat
      /\ m \in Name /\ \A k \in DOMAIN irs : irs[k] \in Name
      /\ Bodies \in {initialized, initialized + 1} /\ Len(seen) \in Nat
  BY <1>2 DEF RunFinal, RunTypeOK, SeenInv
<1>4. irs' = irs /\ phase' = "finals" /\ initialized' = initialized /\ final' = final - 1
  BY <1>3 DEF RunFinal
<1>5. Bodies' = Bodies
  <2>1. Len(seen') = Len(seen) + 1
    BY <1>2, <1>3, EventType DEF RunFinal
  <2> QED BY <1>3, <1>4, <2>1 DEF Bodies
<1>6. \A k \in DOMAIN irs : Place(k) = "up" <=> k <= final
  BY <1>3 DEF Place
<1>7. \A k \in DOMAIN irs : Place(k)' = IF k = final THEN "down" ELSE Place(k)
  <2> SUFFICES ASSUME NEW k \in DOMAIN irs
               PROVE  Place(k)' = IF k = final THEN "down" ELSE Place(k)
    OBVIOUS
  <2>1. Place(k)' = IF k > Bodies THEN "cold"
                    ELSE IF k = initialized + 1 THEN "failed"
                    ELSE IF k > final - 1 THEN "down" ELSE "up"
    BY <1>4, <1>5 DEF Place
  <2> QED BY <1>3, <2>1 DEF Place
<1>8. \A k \in DOMAIN irs : irs[k] = m <=> k = final
  BY <1>2, <1>3 DEF LowerInv
<1>9. \A n \in Name : LifeOf(n)' = IF n = m THEN "down" ELSE LifeOf(n)
  <2> SUFFICES ASSUME NEW n \in Name
               PROVE  LifeOf(n)' = IF n = m THEN "down" ELSE LifeOf(n)
    OBVIOUS
  <2>1. CASE \A k \in DOMAIN irs : irs[k] # n
    <3>1. LifeOf(n) = "cold" /\ LifeOf(n)' = "cold"
      BY <1>1, <1>4, <2>1 DEF Lives
    <3> QED BY <1>3, <2>1, <3>1
  <2>2. ASSUME NEW k \in DOMAIN irs, irs[k] = n
        PROVE  LifeOf(n)' = IF n = m THEN "down" ELSE LifeOf(n)
    <3>1. LifeOf(n) = Place(k) /\ LifeOf(n)' = Place(k)'
      BY <1>1, <1>4, <2>2 DEF Lives
    <3> QED BY <1>7, <1>8, <2>2, <3>1
  <2> QED BY <2>1, <2>2
<1>10. LifeOf(m) = "up"
  BY <1>1, <1>3, <1>6 DEF Lives
<1>11. ASSUME NEW n \in Name, m \in Dependencies[n] PROVE LifeOf(n) # "up"
  <2>1. CASE \A k \in DOMAIN irs : irs[k] # n
    BY <1>1, <2>1 DEF Lives
  <2>2. ASSUME NEW k \in DOMAIN irs, irs[k] = n PROVE LifeOf(n) # "up"
    <3>1. PICK j \in DOMAIN irs : j < k /\ irs[j] = m
      BY <1>2, <1>11, <2>2 DEF LowerInv
    <3>2. ~ k <= final
      BY <1>3, <1>8, <3>1
    <3> QED BY <1>1, <1>6, <2>2, <3>2 DEF Lives
  <2> QED BY <2>1, <2>2
<1> HIDE DEF m
<1>12. Life!Stop(m)
  BY <1>3, <1>9, <1>10, <1>11 DEF Life!Stop
<1> QED BY <1>3, <1>12 DEF Life!Next

(* The driver implements Lifecycle: bodies and finalizers run in an order
   every module can rely on, whatever the imports.                         *)
THEOREM ImplementsLifecycle == Spec => KeepsLifecycle
<1>1. Init /\ IInv => Life!Init
  <2> SUFFICES ASSUME Init, IInv PROVE Life!Init
    OBVIOUS
  <2>1. LP!TypeOK
    BY DEF IInv, LP!IInv
  <2>2. ASSUME NEW n \in Name PROVE Loader!ImportsOf(n) \subseteq Name
    BY <2>1, LP!ImportsType, Tree, SameGraph
  <2>3. Dependencies \in [Name -> SUBSET Name]
    BY <2>2 DEF Dependencies
  <2>4. \A n \in Name : LifeOf(n) = "cold"
    BY DEF Init, RunInit, LifeOf, Lived
  <2> QED BY <2>3, <2>4 DEF Life!Init
<1>2. IInv /\ IInv' /\ [Next]_vars => [Life!Next]_Life!vars
  <2> SUFFICES ASSUME IInv, IInv', [Next]_vars PROVE [Life!Next]_Life!vars
    OBVIOUS
  <2>1. UNCHANGED Dependencies
    <3>1. disk' = disk
      BY LoaderRuns, LP!TreeUnchanged, Tree
    <3> QED BY <3>1, DependenciesFixed
  <2>2. ASSUME UNCHANGED seen PROVE UNCHANGED Life!vars
    <3>1. \A n : LifeOf(n)' = LifeOf(n)
      BY <2>2 DEF LifeOf, Lived
    <3> QED BY <2>1, <3>1 DEF Life!vars
  <2>3. CASE \E out \in Outcome : RunBody(out) \/ RunFinal(out)
    BY <2>1, <2>3, BodyStarts, FinalStops
  <2>4. UNCHANGED seen \/ \E out \in Outcome : RunBody(out) \/ RunFinal(out)
    BY DEF Next, Step, Load, RefuseBroken, RefuseCode, Refuse, LowerModule, Lower, Skip, LaunchLoaded,
           Launch, RunProgram, RunStep, BodiesDone, BeginTermination, Exit, Exited, vars, runVars
  <2> QED BY <2>2, <2>3, <2>4
<1> QED BY <1>1, <1>2, Invariance, PTL DEF Spec, KeepsLifecycle, Life!Spec

=============================================================================
