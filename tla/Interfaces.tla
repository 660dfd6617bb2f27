----------------------------- MODULE Interfaces -----------------------------
(***************************************************************************)
(* How semantic analysis builds the symbol tables of a program's modules:  *)
(* check_module_graph of newm2-sema/src/analyze.rs up to the analysis of   *)
(* bodies (which Sema models), on the scopes of scope.rs.                  *)
(*                                                                         *)
(* ensure_interface enters a module's names as placeholders (pass 1),      *)
(* builds the interfaces of the modules it imports, copies the imported    *)
(* symbols into its scope and then fills in its own declarations (pass 2). *)
(* It calls itself on the imports; that recursion is the stack frames, so  *)
(* a module that imports a module under construction is a state here.      *)
(* When every interface stands, the aliases are resolved once more.        *)
(*                                                                         *)
(* A program gives every module an implementation and a definition part,   *)
(* or one of them, each with its imports and declarations:                 *)
(*   imports  [k |-> "from", m, n], n a name or "*" for all of them,       *)
(*            [k |-> "plain", m, as];                                      *)
(*   decls    [k |-> "const", n, e], [k |-> "type", n, te],                *)
(*            [k |-> "var", n, te],  [k |-> "proc", n, params];            *)
(*   e        [k |-> "num", v] or [k |-> "ref", q, plus], the constant or  *)
(*            procedure q, or so much more; q is <<name>> or               *)
(*            <<module, name>>;                                            *)
(*   te       named, subrange (from zero), enum, opaque, or a composite    *)
(*            (pointer, array, record, set, procedure type) of parts that  *)
(*            are named or subranges: deeper nesting goes through names.   *)
(* Classes, local modules, intrinsic modules and EXPORT lists are left     *)
(* out; every constant is a whole number or a procedure.                   *)
(***************************************************************************)
EXTENDS Integers, Sequences, FiniteSets, TLC, SequencesExt

CONSTANTS Module,    \* the modules of the graph
          Programs,  \* what their source files say
          Reading    \* what a program means, see Readings

VARIABLES prog,    \* the parsed modules, fixed once loaded
          order,   \* topo_order of the loader
          ctx,     \* Ctx: scopes by module, the type arena, errors, const cache
          frames,  \* the calls of ensure_interface under way
          pass,    \* interfaces, aliases, cycles, bodies
          at       \* the position of the pass in order

vars == <<prog, order, ctx, frames, pass, at>>

(* The meaning of a program, as functions of its text: a run gives them to the
   constant Reading, so that TLC reads a program when it comes to one.     *)
Says(P) == INSTANCE Declarations WITH prog <- P
Readings(texts) ==
  LET means   == [t \in texts |-> Says(t)!Means]
      orders  == [t \in texts |-> Says(t)!Orders]
      legal   == [t \in texts |-> Says(t)!Legal]
      settled == [t \in texts |-> Says(t)!Settled]
  IN [means |-> means, orders |-> orders, legal |-> legal, settled |-> settled]

NoPart == [imports |-> <<>>, decls |-> <<>>, none |-> TRUE]
Has(part) == ~part.none

(* node.impl_ast.or(node.def_ast), and the definition that is merged in.   *)
Ast(m) == IF Has(prog[m].impl) THEN prog[m].impl ELSE prog[m].def
DefForMerge(m) == IF Has(prog[m].impl) THEN prog[m].def ELSE NoPart

-----------------------------------------------------------------------------
(* Types.  The arena is a sequence; a type is its index in it.             *)

Unresolved == [k |-> "unresolved"]
Builtin(n) == [k |-> "builtin", n |-> n]
INTEGER    == 1
Pervasive  == [n \in {"INTEGER"} |->
                 [k |-> "type", home |-> <<"", n>>, exported |-> TRUE, ty |-> INTEGER]]

Alloc(c, kind) == [c EXCEPT !.types = Append(@, kind)]
NewType(c)     == Len(c.types) + 1
SetType(c, id, kind) == [c EXCEPT !.types[id] = kind]
Error(c, what, m, n) == [c EXCEPT !.errors = @ \cup {<<what, m, n>>}]

-----------------------------------------------------------------------------
(* Symbols and scopes.  home is the provenance: the module and the name of *)
(* the declaration, which imported_from keeps however often it is copied.  *)

ConstSym(home, v)     == [k |-> "const",  home |-> home, exported |-> FALSE, val |-> v]
TypeSym(home, id)     == [k |-> "type",   home |-> home, exported |-> FALSE, ty |-> id]
VarSym(home, id)      == [k |-> "var",    home |-> home, exported |-> FALSE, ty |-> id]
ProcSym(home, params) == [k |-> "proc",   home |-> home, exported |-> FALSE, params |-> params]
MemberSym(home, id, v)== [k |-> "member", home |-> home, exported |-> FALSE, ty |-> id, val |-> v]
ModuleSym(m)          == [k |-> "module", home |-> <<m, "">>, exported |-> FALSE, of |-> m]

(* Mutant: a module counts as built only once its interface is finished.   *)
Built_Finished(c) == DOMAIN c.scopes \ {frames[i].m : i \in DOMAIN frames}

Built(c)  == DOMAIN c.scopes                       \* module_scopes
ScopeOf(c, m) == c.scopes[m]
InScope(c, m, n) == n \in DOMAIN c.scopes[m]

(* Scope::insert overwrites silently.                                      *)
Insert(c, m, n, s) == [c EXCEPT !.scopes[m] = (n :> s) @@ @]

(* The kind of a symbol is replaced; provenance and visibility stay.       *)
SetKind(c, m, n, s) ==
  IF InScope(c, m, n)
  THEN Insert(c, m, n, [s EXCEPT !.home = c.scopes[m][n].home,
                                 !.exported = c.scopes[m][n].exported])
  ELSE c

(* ScopeArena::lookup: the module's scope, then the pervasive one.         *)
NoSym == [k |-> "none"]
lookup(c, m, n) ==
  CASE InScope(c, m, n)      -> c.scopes[m][n]
    [] n \in DOMAIN Pervasive -> Pervasive[n]
    [] OTHER                  -> NoSym

-----------------------------------------------------------------------------
(* Constants.  A procedure's name stands for a constant, known by that     *)
(* name alone; arithmetic on one gives an empty set, without a diagnostic. *)

Number(v)   == [of |-> "number", v |-> v]
FuncRef(n)  == [of |-> n, v |-> 0]
Mismatched  == [of |-> "set", v |-> 0]
Placeholder == Number(0)

Valued(s)   == s.k \in {"const", "member", "proc"}
ValueOf(s, n) == IF s.k = "proc" THEN FuncRef(n) ELSE s.val

(* The constants a scope sees: its own and, by qualified name, those the
   modules it imports export at this moment.                               *)
collect_scope_consts(c, m) ==
  LET own == {n \in DOMAIN c.scopes[m] : Valued(c.scopes[m][n])}
      mods == {n \in DOMAIN c.scopes[m] : c.scopes[m][n].k = "module"}
      theirs(a) == LET s == c.scopes[c.scopes[m][a].of]
                   IN {n \in DOMAIN s : Valued(s[n]) /\ s[n].exported}
      quals == UNION {{<<a, n>> : n \in theirs(a)} : a \in mods}
  IN [q \in {<<n>> : n \in own} \cup quals |->
        IF Len(q) = 1 THEN ValueOf(c.scopes[m][q[1]], q[1])
                      ELSE ValueOf(c.scopes[c.scopes[m][q[1]].of][q[2]], q[2])]

(* eval_const under the constants env; as_int: where an ordinal is wanted. *)
NotConst  == [of |-> "", v |-> 0]
as_int(v) == v.of = "number"
Plus(v, n) ==
  CASE n = 0     -> v
    [] as_int(v) -> Number(v.v + n)
    [] OTHER     -> Mismatched
eval_const(e, env) ==
  CASE e.k = "num"         -> Number(e.v)
    [] e.q \in DOMAIN env -> Plus(env[e.q], e.plus)
    [] OTHER               -> NotConst

NoCache == [count |-> -1, map |-> <<>>]
SymbolCount(c, m) == Cardinality(DOMAIN c.scopes[m])

(* The constants eval_const_decl evaluates with: those of the last time while
   the number of symbols has not changed.                                  *)
CachedConsts(c, m) ==
  IF c.cache[m].count = SymbolCount(c, m) THEN c.cache[m].map
                                          ELSE collect_scope_consts(c, m)

eval_const_decl(c, m, d) ==
  LET env == CachedConsts(c, m)
      c1  == [c EXCEPT !.cache[m] = [count |-> SymbolCount(c, m), map |-> env]]
      v   == eval_const(d.e, env)
  IN IF v = NotConst THEN [ctx |-> Error(c1, "constant", m, d.n), val |-> Placeholder]
                     ELSE [ctx |-> c1, val |-> v]

(* The caller's part: the value goes into the cache and into the symbol.   *)
PatchCache(c, m, n, v) == [c EXCEPT !.cache[m].map = (<<n>> :> v) @@ @]
SetConst(c, m, n, v)   == SetKind(PatchCache(c, m, n, v), m, n, ConstSym(<<m, n>>, v))

(* The ordinals of an enumeration: an explicit value if it can be folded,
   otherwise the previous ordinal and one.                                 *)
OrdinalOr(v, next) == IF as_int(v) THEN v.v ELSE next
AddMember(acc, b, v) ==
  [env |-> (<<b.n>> :> Number(v)) @@ acc.env, ords |-> Append(acc.ords, v), next |-> v + 1]
enum_member_ordinals(c, m, members) ==
  LET explicit(acc, b) == IF b.explicit THEN eval_const(b.e, acc.env) ELSE NotConst
      step(acc, b)     == AddMember(acc, b, OrdinalOr(explicit(acc, b), acc.next))
  IN FoldLeft(step, [env |-> collect_scope_consts(c, m), ords |-> <<>>, next |-> 0],
              members).ords

InsertMembers(c, m, id, members, ords) ==
  FoldLeft(LAMBDA acc, i : Insert(acc, m, members[i].n, MemberSym(<<m, members[i].n>>, id, Number(ords[i]))),
           c, [i \in DOMAIN members |-> i])

-----------------------------------------------------------------------------
(* Type expressions.  Each operator gives the context after it, and the    *)
(* type.  defer: an error in a bound is not reported yet.                  *)

resolve_type_name(c, m, q) ==
  LET s == IF Len(q) = 1 THEN lookup(c, m, q[1])
           ELSE LET a == lookup(c, m, q[1])
                IN IF a.k = "module" THEN lookup(c, a.of, q[2]) ELSE NoSym
  IN IF s.k = "type" THEN [ctx |-> c, ty |-> s.ty]
                     ELSE [ctx |-> Error(c, "type name", m, q), ty |-> INTEGER]

BoundedBy(hi, c, m, te, defer) ==
  IF as_int(hi)
  THEN [ctx |-> Alloc(c, [k |-> "subrange", hi |-> hi.v]), ty |-> NewType(c)]
  ELSE [ctx |-> IF defer THEN c ELSE Error(c, "bound", m, te), ty |-> INTEGER]
FormSubrange(c, m, te, defer) ==
  BoundedBy(eval_const(te.hi, collect_scope_consts(c, m)), c, m, te, defer)

FormPart(c, m, te, defer) ==
  IF te.k = "named" THEN resolve_type_name(c, m, te.q) ELSE FormSubrange(c, m, te, defer)

FormEnum(c, m, te) ==
  LET ords == enum_member_ordinals(c, m, te.members)
      id   == NewType(c)
      c1   == Alloc(c, [k |-> "enum", members |-> te.members, ords |-> ords])
      new  == SelectSeq([i \in DOMAIN te.members |-> i],
                        LAMBDA i : ~InScope(c, m, te.members[i].n))
  IN [ctx |-> InsertMembers(c1, m, id, [i \in DOMAIN new |-> te.members[new[i]]],
                            [i \in DOMAIN new |-> ords[new[i]]]),
      ty  |-> id]

FormParts(c, m, tes, defer) ==
  FoldLeft(LAMBDA acc, te : LET r == FormPart(acc.ctx, m, te, defer)
                            IN [ctx |-> r.ctx, tys |-> Append(acc.tys, r.ty)],
           [ctx |-> c, tys |-> <<>>], tes)

form_type_expr(c, m, te, defer) ==
  CASE te.k \in {"named", "subrange"} -> FormPart(c, m, te, defer)
    [] te.k = "enum"                  -> FormEnum(c, m, te)
    [] OTHER -> LET r == FormParts(c, m, te.parts, defer)
                IN [ctx |-> Alloc(r.ctx, [k |-> te.k, parts |-> r.tys]), ty |-> NewType(r.ctx)]

-----------------------------------------------------------------------------
(* Pass 1: names and placeholders.                                         *)

pass1_decl(c, m, d) ==
  LET home == <<m, d.n>>
      id   == NewType(c)
  IN CASE d.k = "const" -> Insert(c, m, d.n, ConstSym(home, Placeholder))
       [] d.k = "var"   -> Insert(Alloc(c, Unresolved), m, d.n, VarSym(home, id))
       [] d.k = "proc"  -> Insert(c, m, d.n, ProcSym(home, <<>>))
       [] d.k = "type"  ->
            LET c1 == Insert(Alloc(c, Unresolved), m, d.n, TypeSym(home, id))
            IN IF d.te.k = "enum"
               THEN InsertMembers(c1, m, id, d.te.members,
                                  enum_member_ordinals(c1, m, d.te.members))
               ELSE c1

Pass1(c, m, decls) == FoldLeft(LAMBDA acc, d : pass1_decl(acc, m, d), c, decls)

NamesOf(d) == IF d.k = "type" /\ d.te.k = "enum"
              THEN <<d.n>> \o [i \in DOMAIN d.te.members |-> d.te.members[i].n]
              ELSE <<d.n>>

check_duplicate_decls(c, m, decls) ==
  LET names == FoldLeft(LAMBDA acc, d : acc \o NamesOf(d), <<>>, decls)
  IN IF Cardinality(ToSet(names)) = Len(names) THEN c ELSE Error(c, "duplicate", m, names)

(* The declarations of the definition part that the implementation does not
   repeat (procedures and the completions of opaque types are its own).    *)
DefOnly(c, m) ==
  SelectSeq(DefForMerge(m).decls, LAMBDA d : d.k # "proc" /\ ~InScope(c, m, d.n))

-----------------------------------------------------------------------------
(* Visibility.                                                             *)

Export(c, m, n)  == [c EXCEPT !.scopes[m][n].exported = TRUE]

mark_enum_members_exported(c, m, n) ==
  LET s == lookup(c, m, n)
  IN IF InScope(c, m, n) /\ s.k = "type" /\ c.types[s.ty].k = "enum"
     THEN FoldLeft(LAMBDA acc, b : IF InScope(acc, m, b.n) THEN Export(acc, m, b.n) ELSE acc,
                   c, c.types[s.ty].members)
     ELSE c

mark_module_exports(c, m, validate) ==
  LET hidden == [c EXCEPT !.scopes[m] = [n \in DOMAIN @ |-> [@[n] EXCEPT !.exported = FALSE]]]
      mark(acc, d) ==
        LET seen == IF InScope(acc, m, d.n) THEN Export(acc, m, d.n)
                    ELSE IF validate THEN Error(acc, "not implemented", m, d.n) ELSE acc
        IN IF d.k = "type" THEN mark_enum_members_exported(seen, m, d.n) ELSE seen
  IN IF Has(prog[m].def) THEN FoldLeft(mark, hidden, prog[m].def.decls) ELSE c

-----------------------------------------------------------------------------
(* Imports: the symbols are copied as they are at this moment.             *)

(* The symbol, and the visible members when it is an enumeration.          *)
ImportName(c, m, from, n) ==
  LET s == lookup(c, from, n)
      members == {b \in DOMAIN c.scopes[from] :
                    /\ c.scopes[from][b].k = "member" /\ c.scopes[from][b].exported
                    /\ c.scopes[from][b].ty = s.ty}
      brought == IF s.k = "type" /\ c.types[s.ty].k = "enum" THEN members ELSE {}
  IN IF s.k = "none" \/ (s.k # "none" /\ ~s.exported)
     THEN Error(c, "not exported", m, <<from, n>>)
     ELSE [c EXCEPT !.scopes[m] = [b \in brought |-> c.scopes[from][b]] @@ (n :> s) @@ @]

ImportAll(c, m, from) ==
  LET visible == {n \in DOMAIN c.scopes[from] : c.scopes[from][n].exported}
  IN [c EXCEPT !.scopes[m] = [n \in visible |-> c.scopes[from][n]] @@ @]

ImportOne(c, m, i) ==
  CASE i.k = "plain" -> Insert(c, m, i.as, ModuleSym(i.m))
    [] i.n = "*"     -> ImportAll(c, m, i.m)
    [] OTHER         -> ImportName(c, m, i.m, i.n)

bring_in_imports(c, m, imports) ==
  LET named == SelectSeq(imports, LAMBDA i : i.k = "from" /\ i.n # "*")
      twice == \E i, j \in DOMAIN named : i # j /\ named[i].n = named[j].n
      c1    == FoldLeft(LAMBDA acc, i : ImportOne(acc, m, i), c, imports)
  IN IF twice THEN Error(c1, "imported twice", m, imports) ELSE c1

-----------------------------------------------------------------------------
(* Pass 2: constants, types, signatures.                                   *)

(* The type that was declared becomes what its expression formed; the members
   of an enumeration are constants of that type.                           *)
SetFormed(r, id) == SetType(r.ctx, id, r.ctx.types[r.ty])
WithMembers(c, m, id) ==
  LET kind == c.types[id]
  IN IF kind.k = "enum" THEN InsertMembers(c, m, id, kind.members, kind.ords) ELSE c

Pass2Type(c, m, d) ==
  LET s == lookup(c, m, d.n)
  IN IF s.k # "type" \/ d.te.k = "opaque" THEN c
     ELSE WithMembers(SetFormed(form_type_expr(c, m, d.te, TRUE), s.ty), m, s.ty)

pass2_decl(c, m, d) ==
  CASE d.k = "const" -> LET r == eval_const_decl(c, m, d) IN SetConst(r.ctx, m, d.n, r.val)
    [] d.k = "type"  -> Pass2Type(c, m, d)
    [] d.k = "var"   -> LET r == form_type_expr(c, m, d.te, TRUE)
                        IN SetKind(r.ctx, m, d.n, VarSym(<<m, d.n>>, r.ty))
    [] d.k = "proc"  -> LET r == FormParts(c, m, d.params, TRUE)
                        IN SetKind(r.ctx, m, d.n, ProcSym(<<m, d.n>>, r.tys))

Pass2(c, m, decls) == FoldLeft(LAMBDA acc, d : pass2_decl(acc, m, d), c, decls)

(* A value advances one reference in a round.                              *)
cap_OneHop(targets) == 1
cap(targets) == Len(targets) + 1

(* Constants that are not literals once more, so that a chain of forward
   references settles; errors of these rounds are dropped.                 *)
reeval_aggregate_consts(c, m, decls) ==
  LET targets == SelectSeq(decls, LAMBDA d : d.k = "const" /\ d.e.k # "num")
      again(acc, d) ==
        LET r  == eval_const_decl(acc, m, d)
            c1 == [r.ctx EXCEPT !.errors = acc.errors]
            s  == lookup(c1, m, d.n)
        IN IF s.k = "const" /\ s.val = r.val THEN c1 ELSE SetConst(c1, m, d.n, r.val)
      round(acc, i) == FoldLeft(again, acc, targets)
  IN IF targets = <<>> THEN c
     ELSE FoldLeft(round, c, [i \in 1..cap(targets) |-> i])

(* types_compatible on what a parameter can be here: the host of a subrange,
   enumerations with the same members, pointers and sets by what they are of,
   for as many levels as anything in a program has.                        *)
Levels == 3
types_compatible(c, lhs, rhs) ==
  LET host(t) == IF c.types[t].k = "subrange" THEN INTEGER ELSE t
      same[n \in 0..Levels, x \in DOMAIN c.types, y \in DOMAIN c.types] ==
        LET a == c.types[host(x)]
            b == c.types[host(y)]
        IN \/ host(x) = host(y)
           \/ a.k = "builtin" /\ a = b
           \/ a.k = "enum" /\ b.k = "enum" /\ a.members = b.members
           \/ /\ n > 0 /\ a.k \in {"pointer", "set"} /\ b.k = a.k
              /\ same[n - 1, a.parts[1], b.parts[1]]
  IN same[Levels, lhs, rhs]

check_def_impl_proc_sigs(c, m) ==
  LET check(acc, d) ==
        LET s == lookup(acc, m, d.n)
            r == FormParts(acc, m, d.params, TRUE)
        IN IF s.k # "proc" THEN acc
           ELSE IF /\ Len(s.params) = Len(r.tys)
                   /\ \A i \in DOMAIN r.tys : types_compatible(r.ctx, r.tys[i], s.params[i])
                THEN r.ctx
                ELSE Error(r.ctx, "signature", m, d.n)
  IN FoldLeft(check, c, SelectSeq(DefForMerge(m).decls, LAMBDA d : d.k = "proc"))

-----------------------------------------------------------------------------
(* ensure_interface.                                                       *)

Top == frames[Len(frames)]
Imports(f) == IF f.part = "imports" THEN Ast(f.m).imports ELSE DefForMerge(f.m).imports

(* What the module publishes is marked before its imports are built, so that a
   module that imports it meanwhile sees it.                               *)
MarkEarly_Skipped(c, m) == c
MarkEarly(c, m) == mark_module_exports(c, m, FALSE)

(* A new scope with the placeholders, before any import.                   *)
Begin(m, c) ==
  LET c0 == [c EXCEPT !.scopes = (m :> <<>>) @@ @]
      c1 == check_duplicate_decls(Pass1(c0, m, Ast(m).decls), m, Ast(m).decls)
      c2 == Pass1(c1, m, DefOnly(c1, m))
  IN [ctx |-> MarkEarly(c2, m),
      frame |-> [m |-> m, part |-> "imports", i |-> 1, defOnly |-> DefOnly(c1, m)]]

Init ==
  /\ prog \in Programs
  /\ order \in Reading.orders[prog]
  /\ ctx = [scopes |-> <<>>, types |-> <<Builtin("INTEGER")>>, errors |-> {},
            cache |-> [m \in Module |-> NoCache]]
  /\ frames = <<>> /\ pass = "interfaces" /\ at = 1

Enter(m, rest) ==
  \E b \in {Begin(m, ctx)} : ctx' = b.ctx /\ frames' = Append(rest, b.frame)

(* The loop over topo_order; a module that an importer has built already is
   passed over.                                                            *)
EnsureNext ==
  /\ pass = "interfaces" /\ frames = <<>> /\ at <= Len(order)
  /\ at' = at + 1
  /\ IF order[at] \in Built(ctx) THEN UNCHANGED <<ctx, frames>> ELSE Enter(order[at], <<>>)
  /\ UNCHANGED <<prog, order, pass>>

(* The next import of the module being built: a module that has a scope,
   built or being built, is left as it is.                                 *)
EnsureImport ==
  /\ frames # <<>> /\ Top.part # "resolve" /\ Top.i <= Len(Imports(Top))
  /\ LET rest == [frames EXCEPT ![Len(frames)].i = @ + 1]
         m    == Imports(Top)[Top.i].m
     IN IF m \in Built(ctx) THEN frames' = rest /\ UNCHANGED ctx ELSE Enter(m, rest)
  /\ UNCHANGED <<prog, order, pass, at>>

BringIn ==
  /\ frames # <<>> /\ Top.part # "resolve" /\ Top.i > Len(Imports(Top))
  /\ ctx' = bring_in_imports(ctx, Top.m, Imports(Top))
  /\ LET next == IF Top.part = "imports" /\ Has(DefForMerge(Top.m)) THEN "dimports" ELSE "resolve"
     IN frames' = [frames EXCEPT ![Len(frames)].part = next, ![Len(frames)].i = 1]
  /\ UNCHANGED <<prog, order, pass, at>>

Resolved(c, m, defOnly) ==
  LET c1 == reeval_aggregate_consts(Pass2(c, m, Ast(m).decls), m, Ast(m).decls)
      c2 == check_def_impl_proc_sigs(Pass2(c1, m, defOnly), m)
  IN mark_module_exports(c2, m, TRUE)

Resolve ==
  /\ frames # <<>> /\ Top.part = "resolve"
  /\ ctx' = Resolved(ctx, Top.m, Top.defOnly)
  /\ frames' = SubSeq(frames, 1, Len(frames) - 1)
  /\ UNCHANGED <<prog, order, pass, at>>

(* Aliases and subranges formed again, now that every interface exists.    *)
reresolve_named_aliases(c, m) ==
  LET again(acc, d) ==
        LET s == lookup(acc, m, d.n)
        IN IF InScope(acc, m, d.n) /\ s.k = "type"
           THEN SetFormed(form_type_expr(acc, m, d.te, FALSE), s.ty) ELSE acc
      aliases(part) == SelectSeq(part.decls,
                                 LAMBDA d : d.k = "type" /\ d.te.k \in {"named", "subrange"})
  IN FoldLeft(again, c, aliases(prog[m].impl) \o aliases(prog[m].def))

(* A chain of plain aliases of one part that comes back to its start.      *)
AliasCycle(part) ==
  LET alias == {d \in ToSet(part.decls) :
                  d.k = "type" /\ d.te.k = "named" /\ Len(d.te.q) = 1}
      next(ns) == {d.te.q[1] : d \in {a \in alias : a.n \in ns}}
      after[k \in 0..Cardinality(alias), n \in {d.n : d \in alias}] ==
        IF k = 0 THEN next({n}) ELSE next(after[k - 1, n])
  IN \E d \in alias : \E k \in 0..Cardinality(alias) : d.n \in after[k, d.n]

check_type_alias_cycles(c, m) ==
  IF AliasCycle(prog[m].impl) \/ AliasCycle(prog[m].def)
  THEN Error(c, "cyclic type", m, "") ELSE c

NextPass(p) == CASE p = "interfaces" -> "aliases" [] p = "aliases" -> "cycles" [] p = "cycles" -> "bodies"

Reresolve ==
  /\ pass = "aliases" /\ at <= Len(order)
  /\ ctx' = reresolve_named_aliases(ctx, order[at])
  /\ at' = at + 1
  /\ UNCHANGED <<prog, order, frames, pass>>

CheckCycles ==
  /\ pass = "cycles" /\ at <= Len(order)
  /\ ctx' = check_type_alias_cycles(ctx, order[at])
  /\ at' = at + 1
  /\ UNCHANGED <<prog, order, frames, pass>>

EndPass ==
  /\ pass # "bodies" /\ frames = <<>> /\ at > Len(order)
  /\ pass' = NextPass(pass) /\ at' = 1
  /\ UNCHANGED <<prog, order, ctx, frames>>

(* Everything is declared; the bodies are analysed (Sema).                 *)
Done     == pass = "bodies"
Finished == Done /\ UNCHANGED vars

Next == EnsureNext \/ EnsureImport \/ BringIn \/ Resolve \/ Reresolve \/ CheckCycles \/ EndPass
        \/ Finished

Spec == Init /\ [][Next]_vars

-----------------------------------------------------------------------------
(* What the modules see, against what the declarations say.                *)

(* The type arena unfolded as deep as the reading of the declarations.     *)
Depth == 2
ArenaShapes ==
  LET shapes[d \in 0..Depth] ==
        LET inner == IF d = 0 THEN <<>> ELSE shapes[d - 1]
        IN [id \in DOMAIN ctx.types |->
              LET t == ctx.types[id]
              IN IF "parts" \notin DOMAIN t THEN t ELSE IF d = 0 THEN [k |-> "deep"]
                 ELSE [t EXCEPT !.parts = [j \in DOMAIN @ |-> inner[@[j]]]]]
  IN shapes[Depth]

(* A symbol as a module sees it.  (An alias of an enumeration puts the members
   into the module of the alias too: a member's home is left open.)        *)
Seen(s, arena, home) ==
  CASE s.k = "const"  -> [k |-> s.k, home |-> s.home, val |-> s.val]
    [] s.k = "member" -> [k |-> s.k, home |-> home, val |-> s.val]
    [] s.k \in {"type", "var"} -> [k |-> s.k, home |-> s.home, shape |-> arena[s.ty]]
    [] s.k = "proc"   -> [k |-> s.k, home |-> s.home,
                          params |-> [j \in DOMAIN s.params |-> arena[s.params[j]]]]
    [] OTHER          -> [k |-> s.k]

Disagreements ==
  LET arena == ArenaShapes
      means == Reading.means[prog]
  IN {<<m, n>> \in UNION {{<<b, x>> : x \in DOMAIN means[b]} : b \in Module} :
        ~InScope(ctx, m, n) \/ Seen(ctx.scopes[m][n], arena, means[m][n].home) # means[m][n]}

(* Every name means in every module what its declaration says: the constant
   has the declared value, the type the declared structure, a variable and a
   procedure the declared types, whichever module is built first.          *)
SeesWhatIsDeclared == Done /\ ctx.errors = {} => Disagreements = {}

(* The same of every program but those that use what the construction is known
   not to support (Settled): so types may go round an import cycle, constants
   may be used before they are declared, and an interface may be split over
   two parts, in any order the loader gives.                               *)
MeaningsSettle == Done /\ ctx.errors = {} /\ Reading.settled[prog] => Disagreements = {}

(* Semantic analysis reports something exactly when the program is illegal:
   no module is refused for the place the loader gave it, and no mistake gets
   through because the other module was not built yet.  The mistakes known to
   get through whatever the order are the last three conditions of Settled.  *)
DiagnosesMistakes ==
  Done /\ Reading.settled[prog] => (ctx.errors = {} <=> Reading.legal[prog])

(* ensure_interface never starts on a module it is working on, and in the end
   has built every module, however the imports go round.                   *)
BuildsEachOnce ==
  /\ \A i, j \in DOMAIN frames : frames[i].m = frames[j].m => i = j
  /\ Done => Built(ctx) = Module
=============================================================================
