---------------------------- MODULE Declarations ----------------------------
(***************************************************************************)
(* What the declarations of a program's modules say, read without any      *)
(* order of construction: the reference Interfaces is compared with.  The  *)
(* form of a program is described there.                                   *)
(***************************************************************************)
EXTENDS Integers, Sequences, FiniteSets, SequencesExt

CONSTANTS Module, prog

Ast(m) == IF prog[m].impl.none THEN prog[m].def ELSE prog[m].impl
DefDecls(m) == IF prog[m].impl.none THEN <<>> ELSE prog[m].def.decls
Parts(m) == {p \in {prog[m].impl, prog[m].def} : ~p.none}
ImportsIn(m) == UNION {ToSet(p.imports) : p \in Parts(m)}

NamesOf(d) == IF d.k = "type" /\ d.te.k = "enum"
              THEN {d.n} \cup {b.n : b \in ToSet(d.te.members)} ELSE {d.n}

(* Every declaration of a module: the definition's where the implementation
   does not repeat it.                                                     *)
Declared(m) ==
  LET mine  == ToSet(Ast(m).decls)
      names == UNION {NamesOf(d) : d \in mine}
  IN mine \cup {d \in ToSet(DefDecls(m)) : d.k # "proc" /\ d.n \notin names}

DeclaredNames(m) == UNION {NamesOf(d) : d \in Declared(m)}
Items     == UNION {{<<m, n>> : n \in DeclaredNames(m)} : m \in Module}
DeclOf(i) == CHOOSE d \in Declared(i[1]) : i[2] \in NamesOf(d)
KindOf(i) == IF DeclOf(i).n # i[2] THEN "member" ELSE DeclOf(i).k
IsItem(i) == i[1] \in Module /\ i[2] \in DeclaredNames(i[1])
IsTypeItem(i) == IsItem(i) /\ KindOf(i) = "type"

(* What a module publishes: what its definition part declares.             *)
Public(m) ==
  LET names == {d.n : d \in ToSet(prog[m].def.decls)}
  IN UNION {NamesOf(d) : d \in {e \in Declared(m) : e.n \in names}}

(* The names an import makes visible as they stand.                        *)
Brought(i) ==
  CASE i.k = "plain" -> {}
    [] i.n = "*"     -> Public(i.m)
    [] OTHER         -> IF IsTypeItem(<<i.m, i.n>>) THEN NamesOf(DeclOf(<<i.m, i.n>>))
                                                      ELSE {i.n} \cap DeclaredNames(i.m)

(* The declarations a module sees under their simple names.                *)
Simple(m) ==
  LET mine == DeclaredNames(m)
  IN {<<m, n>> : n \in mine}
     \cup UNION {{<<i.m, n>> : n \in Brought(i) \ mine} : i \in ImportsIn(m)}

None  == <<"none", "none">>
Whole == <<"", "INTEGER">>
Denotes(m, q) ==
  IF Len(q) = 1
  THEN IF q[1] \in DeclaredNames(m) THEN <<m, q[1]>>
       ELSE LET from == {i.m : i \in {j \in ImportsIn(m) : q[1] \in Brought(j)}}
            IN CASE from # {}        -> <<CHOOSE a \in from : TRUE, q[1]>>
                 [] q[1] = "INTEGER" -> Whole
                 [] OTHER            -> None
  ELSE LET mods == {i.m : i \in {j \in ImportsIn(m) : j.k = "plain" /\ j.as = q[1]}}
       IN IF \E a \in mods : q[2] \in Public(a) THEN <<CHOOSE a \in mods : TRUE, q[2]>> ELSE None

-----------------------------------------------------------------------------
(* Values: the least solution of the constant declarations.                *)

Number(v)    == [of |-> "number", v |-> v]
Procedure(n) == [of |-> n, v |-> 0]
Unknown      == [of |-> "", v |-> 0]

ValueIn(m, e, vals) ==
  IF e.k = "num" THEN Number(e.v)
  ELSE LET t == Denotes(m, e.q)
           v == IF t \in DOMAIN vals THEN vals[t] ELSE Unknown
       IN CASE e.plus = 0      -> v
            [] v.of = "number" -> Number(v.v + e.plus)
            [] OTHER           -> Unknown
IsNumber(m, e, vals) == ValueIn(m, e, vals).of = "number"

MemberValue(item, vals) ==
  LET ms == DeclOf(item).te.members
      i  == CHOOSE j \in DOMAIN ms : ms[j].n = item[2]
      before == IF i = 1 THEN Number(-1) ELSE vals[<<item[1], ms[i - 1].n>>]
  IN IF ms[i].explicit THEN ValueIn(item[1], ms[i].e, vals)
     ELSE IF before = Unknown THEN Unknown ELSE Number(before.v + 1)

ValuesAfter[k \in Nat] ==
  IF k = 0 THEN [i \in Items |-> Unknown]
  ELSE LET vals == ValuesAfter[k - 1]
       IN [i \in Items |-> CASE KindOf(i) = "const"  -> ValueIn(i[1], DeclOf(i).e, vals)
                             [] KindOf(i) = "member" -> MemberValue(i, vals)
                             [] KindOf(i) = "proc"   -> Procedure(i[2])
                             [] OTHER -> Unknown]

(* The declaration a chain of aliases ends at.                             *)
IsAlias(i) == IsTypeItem(i) /\ DeclOf(i).te.k = "named"
RootAfter[k \in Nat] ==
  IF k = 0 THEN [i \in Items |-> i]
  ELSE LET root == RootAfter[k - 1]
       IN [i \in Items |-> IF IsAlias(root[i]) THEN Denotes(root[i][1], DeclOf(root[i]).te.q)
                                               ELSE root[i]]

Values == ValuesAfter[Cardinality(Items)]
Roots  == RootAfter[Cardinality(Items)]

-----------------------------------------------------------------------------
(* Types, unfolded to some depth.                                          *)

Depth == 2
Unresolved == [k |-> "unresolved"]
Composite(te) == "parts" \in DOMAIN te

(* A type expression, given the values and what a name stands for.         *)
Structure(m, te, vals, named(_, _)) ==
  LET simple(t) == IF t.k = "named" THEN named(m, t.q)
                   ELSE [k |-> "subrange", hi |-> ValueIn(m, t.hi, vals).v]
  IN CASE te.k = "opaque" -> Unresolved
       [] te.k = "enum"   -> [k |-> "enum", members |-> te.members,
                              ords |-> [j \in DOMAIN te.members |-> vals[<<m, te.members[j].n>>].v]]
       [] Composite(te)   -> [k |-> te.k, parts |-> [j \in DOMAIN te.parts |-> simple(te.parts[j])]]
       [] OTHER           -> simple(te)

Standing(m, q, roots, shapes) ==
  LET t == Denotes(m, q)
      r == IF IsItem(t) THEN roots[t] ELSE t
  IN CASE r \in DOMAIN shapes -> shapes[r]
       [] r = Whole           -> [k |-> "builtin", n |-> "INTEGER"]
       [] OTHER               -> Unresolved

(* The structure of the declared types, to every depth; that of any type
   expression, given them.                                                 *)
DeclaredShapes(vals, roots) ==
  LET types == {i \in Items : KindOf(i) = "type"}
      shapes[d \in 0..Depth] ==
        LET inner == IF d = 0 THEN <<>> ELSE shapes[d - 1]
        IN [i \in types |->
              IF d = 0 /\ Composite(DeclOf(i).te) THEN [k |-> "deep"]
              ELSE Structure(i[1], DeclOf(i).te, vals, LAMBDA m, q : Standing(m, q, roots, inner))]
  IN shapes
Shape(m, te, vals, roots, shapes) ==
  IF te.k = "named" THEN Standing(m, te.q, roots, shapes[Depth])
  ELSE Structure(m, te, vals, LAMBDA a, q : Standing(a, q, roots, shapes[Depth - 1]))

(* What every simple name of every module means.                           *)
Means ==
  LET vals   == Values
      roots  == Roots
      shapes == DeclaredShapes(vals, roots)
      shape(m, te) == Shape(m, te, vals, roots, shapes)
      meaning(i) ==
        LET d == DeclOf(i)
            k == KindOf(i)
        IN CASE k \in {"const", "member"} -> [k |-> k, home |-> i, val |-> vals[i]]
             [] k \in {"type", "var"}     -> [k |-> k, home |-> i, shape |-> shape(i[1], d.te)]
             [] OTHER -> [k |-> k, home |-> i,
                          params |-> [j \in DOMAIN d.params |-> shape(i[1], d.params[j])]]
  IN [m \in Module |-> LET simple == Simple(m)
                       IN [n \in {t[2] : t \in simple} |->
                             meaning(CHOOSE t \in simple : t[2] = n)]]

-----------------------------------------------------------------------------
(* The imports, and the orders the loader may give the modules             *)
(* (ModuleGraph!DependencyFirst).                                          *)

ImportedBy(m) == {i.m : i \in ImportsIn(m)}
ReachIn[k \in Nat] ==
  IF k = 0 THEN [m \in Module |-> ImportedBy(m)]
  ELSE LET before == ReachIn[k - 1]
       IN [m \in Module |-> before[m] \cup UNION {before[a] : a \in before[m]}]
Reaches(a, b) == b \in ReachIn[Cardinality(Module)][a]
Mutual(a, b)  == a # b /\ Reaches(a, b) /\ Reaches(b, a)

Orders ==
  {o \in SetToSeqs(Module) :
     \A i, j \in DOMAIN o : i < j /\ o[j] \in ImportedBy(o[i]) => Reaches(o[j], o[i])}

-----------------------------------------------------------------------------
(* The rules of the language these declarations can break.                 *)

TypeNames(d) ==
  LET inner(te) == IF te.k = "named" THEN {te.q}
                   ELSE IF Composite(te) THEN {x.q : x \in {y \in ToSet(te.parts) : y.k = "named"}}
                   ELSE {}
  IN CASE d.k = "const" -> {}
       [] d.k = "proc"  -> UNION {inner(te) : te \in ToSet(d.params)}
       [] OTHER         -> inner(d.te)

(* The bounds of all subranges, and the explicit ordinals of enumerations. *)
Ordinals(te) == IF te.k = "enum" THEN {b.e : b \in {x \in ToSet(te.members) : x.explicit}} ELSE {}
Inline(d) ==
  LET inner(te) == IF Composite(te) THEN ToSet(te.parts) ELSE {}
      all == CASE d.k = "type" -> inner(d.te)
               [] d.k = "var"  -> {d.te} \cup inner(d.te)
               [] d.k = "proc" -> ToSet(d.params)
               [] OTHER        -> {}
  IN {te.hi : te \in {x \in all : x.k = "subrange"}}
Numbers(d) ==
  CASE d.k # "type"         -> Inline(d)
    [] d.te.k = "subrange"  -> {d.te.hi}
    [] OTHER                -> Inline(d) \cup Ordinals(d.te)

ImportsLegal(p) ==
  LET named == SelectSeq(p.imports, LAMBDA i : i.k = "from" /\ i.n # "*")
  IN /\ \A j \in DOMAIN named : named[j].n \in Public(named[j].m)
     /\ \A j, k \in DOMAIN named : j # k => named[j].n # named[k].n

(* The structure of the parameters of a module's procedures.               *)
ProcsOf(decls) == {d \in ToSet(decls) : d.k = "proc"}
DefProcs(m)    == ProcsOf(DefDecls(m))
ParamShapes(m, vals, roots) ==
  LET shapes == DeclaredShapes(vals, roots)
      procs  == UNION {ProcsOf(p.decls) : p \in Parts(m)}
  IN [te \in UNION {ToSet(d.params) : d \in procs} |-> Shape(m, te, vals, roots, shapes)]

(* The implementation has the procedure, with parameters of the same
   structure.                                                              *)
Implemented(m, d, shape) ==
  \E e \in ToSet(prog[m].impl.decls) :
    /\ e.k = "proc" /\ e.n = d.n /\ Len(e.params) = Len(d.params)
    /\ \A j \in DOMAIN d.params : shape[d.params[j]] = shape[e.params[j]]

(* An opaque type is completed by the implementation.                      *)
Completed(m) ==
  ~ \E d \in Declared(m) : ~prog[m].impl.none /\ d.k = "type" /\ d.te.k = "opaque"

ModuleLegal(m, vals, shape) ==
  /\ \A p \in Parts(m) : ImportsLegal(p)
  /\ \A p \in Parts(m) : \A i, j \in DOMAIN p.decls :
       i # j => NamesOf(p.decls[i]) \cap NamesOf(p.decls[j]) = {}
  /\ \A d \in Declared(m) \cup ToSet(DefDecls(m)) :
       \A q \in TypeNames(d) : Denotes(m, q) = Whole \/ IsTypeItem(Denotes(m, q))
  /\ \A d \in Declared(m) : \A e \in Numbers(d) : IsNumber(m, e, vals)
  /\ \A d \in DefProcs(m) : Implemented(m, d, shape)
  /\ Completed(m)

Legal ==
  LET vals  == Values
      roots == Roots
  IN /\ \A m \in Module : ModuleLegal(m, vals, ParamShapes(m, vals, roots))
     /\ \A i \in Items : KindOf(i) = "const" => vals[i] # Unknown
     /\ \A i \in Items : ~IsAlias(roots[i])

-----------------------------------------------------------------------------
(* What the construction is known not to get right, as a condition on the  *)
(* program: the properties of Interfaces are about the others.             *)

(* Values are copied when they are imported or folded, so one that comes from
   a module of the same import cycle may be a placeholder.                 *)
TakesValueInCycle(m) ==
  \E i \in ImportsIn(m) :
    /\ i.k = "from" /\ Mutual(m, i.m)
    /\ \E n \in Brought(i) : ~IsTypeItem(<<i.m, n>>)

(* The order in which a module's declarations are resolved.                *)
Turn(m) == Ast(m).decls \o SelectSeq(DefDecls(m), LAMBDA d : d \in Declared(m) \ ToSet(Ast(m).decls))

(* A value is final before the k-th of them if it is computed from final ones;
   the implementation's constants are evaluated again and are all final when
   the definition's turn comes.  Anything that is folded once must be folded
   from final values.                                                      *)
FromFinal(m, e, final) ==
  e.k = "num" \/ LET t == Denotes(m, e.q)
                 IN IF t[1] = m THEN t[2] \in final ELSE t # None /\ ~Mutual(m, t[1])

Steady(m) ==
  LET turn    == Turn(m)
      members == UNION {NamesOf(d) : d \in {x \in Declared(m) :
                          \/ x.k = "proc"
                          \/ x.k = "type" /\ x.te.k = "enum" /\ \A e \in Ordinals(x.te) : e.k = "num"}}
      consts  == {d \in ToSet(Ast(m).decls) : d.k = "const"}
      folds(e, known) == FromFinal(m, e, known) \/ (e.k = "ref" /\ Denotes(m, e.q) = None)
      settling == {d.n : d \in {x \in consts : folds(x.e, members \cup {y.n : y \in consts})}}
      final[k \in 0..Len(turn)] ==
        IF k = 0 THEN members
        ELSE final[k - 1]
             \cup (IF turn[k].k = "const" /\ folds(turn[k].e, final[k - 1]) THEN {turn[k].n} ELSE {})
             \cup (IF k = Len(Ast(m).decls) THEN settling ELSE {})
  IN \A k \in DOMAIN turn :
       LET d == turn[k]
       IN /\ \A e \in Inline(d) : FromFinal(m, e, final[k - 1])
          /\ d.k = "type" => \A e \in Ordinals(d.te) : FromFinal(m, e, final[k - 1])
          /\ d.k = "type" /\ d.te.k = "subrange" => folds(d.te.hi, final[Len(turn)])
          /\ d.k = "const" => d.n \in final[Len(turn)]

(* Aliases are formed again once, module by module: an alias of an alias or
   of a subrange that comes later stays behind.                            *)
LateAlias(m) ==
  LET again == SelectSeq(prog[m].impl.decls \o prog[m].def.decls,
                         LAMBDA d : d.k = "type" /\ d.te.k \in {"named", "subrange"})
  IN \E k \in DOMAIN again :
       /\ again[k].te.k = "named"
       /\ LET t == Denotes(m, again[k].te.q)
          IN /\ IsTypeItem(t) /\ DeclOf(t).te.k \in {"named", "subrange"}
             /\ IF t[1] = m THEN \A j \in 1..(k - 1) : again[j].n # t[2] ELSE Mutual(m, t[1])

(* resolve_type_name takes a qualified type without asking whether it is
   exported.                                                               *)
LooksInside(m) ==
  \E d \in Declared(m) : \E q \in TypeNames(d) : \E i \in ImportsIn(m) :
    /\ Len(q) = 2 /\ i.k = "plain" /\ i.as = q[1]
    /\ q[2] \in DeclaredNames(i.m) \ Public(i.m)

(* No message of an inline bound or an explicit ordinal that is no number is
   kept, and none is given for arithmetic on a procedure.                  *)
NoNumber(m, vals) ==
  \E d \in Declared(m) :
    IF d.k = "const"
    THEN /\ d.e.k = "ref" /\ d.e.plus # 0 /\ Denotes(m, d.e.q) \in DOMAIN vals
         /\ vals[Denotes(m, d.e.q)].of \notin {"number", ""}
    ELSE \E e \in Inline(d) \cup (IF d.k = "type" THEN Ordinals(d.te) ELSE {}) : ~IsNumber(m, e, vals)

(* Parameters are compared by their hosts: a subrange agrees with its host and
   with any other subrange of it.                                          *)
LooseSignature(m, shape) ==
  LET host == [te \in DOMAIN shape |->
                 IF shape[te].k = "subrange" THEN [k |-> "builtin", n |-> "INTEGER"] ELSE shape[te]]
  IN \E d \in DefProcs(m) : Implemented(m, d, host) /\ ~Implemented(m, d, shape)

Settled ==
  LET vals  == Values
      roots == Roots
  IN \A m \in Module :
       /\ ~TakesValueInCycle(m) /\ Steady(m) /\ ~LateAlias(m) /\ ~LooksInside(m)
       /\ ~NoNumber(m, vals) /\ ~LooseSignature(m, ParamShapes(m, vals, roots)) /\ Completed(m)
=============================================================================
