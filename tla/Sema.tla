------------------------------- MODULE Sema -------------------------------
(***************************************************************************)
(* Semantic analysis of bodies: the expression, designator and statement   *)
(* part of newm2-sema/src/analyze.rs.  TypeOf is the type analyse_expr      *)
(* notes for an expression (NoType when it returns None) and Ok... says    *)
(* that no diagnostic is issued.  A context E has the program P, the       *)
(* procedure whose scope names are looked up in (0 for the module), the    *)
(* stack of WITH records and the denoters of the enclosing GUARD arms.     *)
(***************************************************************************)
EXTENDS ConstFold

Context(P, i) == [P |-> P, proc |-> i, withs |-> <<>>, den |-> NoVars]

NoSymbol == [s |-> "none"]
Var(t, m) == [s |-> "var", ty |-> t, m |-> m]

(* The symbol a scope declares under a name.                               *)
Declared(P, i, n) ==
  CASE i # 0 /\ n \in ParamNames(P.procs[i]) ->
         Var(ParamOf(P.procs[i], n).ty, ParamOf(P.procs[i], n).m)
    [] i # 0 /\ n \in DOMAIN P.procs[i].vars -> Var(P.procs[i].vars[n], "var")
    [] i = 0 /\ n \in DOMAIN P.vars -> Var(P.vars[n], "var")
    [] i = 0 /\ n \in DOMAIN P.consts ->
         [s |-> "const", ty |-> ConstType(P.consts[n], eval_const(Consts(P), P.consts[n])),
          m |-> "const"]
    [] n \in ProcNames(P, i) ->
         [s |-> "proc", proc |-> CHOOSE j \in DOMAIN P.procs :
                                    P.procs[j].up = i /\ P.procs[j].name = n]
    [] i = 0 /\ n \in {"TRUE", "FALSE"} -> [s |-> "const", ty |-> BOOL, m |-> "const"]
    [] OTHER -> NoSymbol

lookup(E, n) ==
  LET scopes == Enclosing(E.P, E.proc)
      found  == {i \in DOMAIN scopes : Declared(E.P, scopes[i], n) # NoSymbol}
  IN  IF n \in DOMAIN E.den THEN Var(E.den[n], "const")
      ELSE IF found = {} THEN NoSymbol
      ELSE Declared(E.P, scopes[CHOOSE i \in found : \A j \in found : i <= j], n)

FieldsOf(t) ==
  CASE t.k = "record" -> t.fields
    [] t.k = "pointer" /\ t.to.k = "record" -> t.to.fields
    [] OTHER -> <<>>
HasField(t, f)  == \E i \in DOMAIN FieldsOf(t) : FieldsOf(t)[i].f = f
FieldType(t, f) == LET i == CHOOSE i \in DOMAIN FieldsOf(t) : FieldsOf(t)[i].f = f
                   IN  FieldsOf(t)[i].ty
record_type_of(t) == IF t.k = "pointer" THEN t.to ELSE t

(* The innermost WITH record with a field of that name, or NoType.         *)
WithRecord(withs, n) ==
  LET having == {i \in DOMAIN withs : HasField(withs[i], n)}
  IN  IF having = {} THEN NoType ELSE withs[CHOOSE i \in having : \A j \in having : j <= i]

is_set(t) == is_set_type(t)
class_related(P, a, b) == class_is_subclass(P.base, a, b) \/ class_is_subclass(P.base, b, a)

RelOps   == {"=", "#", "<", "<=", ">", ">="}
BitOps   == {"BAND", "BOR", "BXOR"}
ArithOps == {"+", "-", "*", "/", "DIV", "MOD", "REM"}

selector_result_type(t, sel) ==
  CASE sel.sk = "field" /\ HasField(t, sel.f)        -> FieldType(t, sel.f)
    [] sel.sk = "index" /\ t.k \in {"array", "open"} -> t.elem
    [] sel.sk = "deref" /\ t.k = "pointer"           -> t.to
    [] OTHER -> NoType

RECURSIVE SelectorChain(_, _)
SelectorChain(t, sels) ==
  IF sels = <<>> \/ t = NoType THEN t
  ELSE SelectorChain(selector_result_type(t, Head(sels)), Tail(sels))

(* A bare name is a field of a WITH record only if nothing else has it.    *)
DesignatorType(E, d) ==
  LET sym == lookup(E, d.base)
      rec == WithRecord(E.withs, d.base)
  IN  CASE sym = NoSymbol /\ rec # NoType -> SelectorChain(FieldType(rec, d.base), d.sel)
        [] sym.s \in {"var", "const"}     -> SelectorChain(sym.ty, d.sel)
        [] OTHER                          -> NoType

builtin_type(E, e, argty) ==
  CASE e.f = "VAL" -> e.args[1].ty
    [] e.f = "ORD" -> CARDINAL
    [] e.f = "CHR" -> CHAR
    [] e.f = "ODD" -> BOOL
    [] e.f = "HIGH" -> CARDINAL
    [] e.f = "ABS" -> argty
    [] e.f \in {"MIN", "MAX"} ->
         LET t == IF e.args[1].k = "type" THEN e.args[1].ty ELSE argty
         IN  CASE t.k = "set" -> t.of [] t.k = "BITSET" -> CARDINAL [] OTHER -> t
    [] e.f = "IsExceptional" -> BOOL
    [] OTHER -> NoType
Builtin == {"VAL", "ORD", "CHR", "ODD", "HIGH", "ABS", "MIN", "MAX", "INC", "DEC", "INCL",
            "EXCL", "NEW", "DISPOSE", "HALT", "ASSERT"}

(* The type of an arithmetic expression is that of its left operand, unless
   that is a literal.                                                      *)
ArithType(base, e, l, r) ==
  CASE is_set(l) /\ is_set(r) /\ e.op \in {"+", "-", "*", "/"} -> l
    [] types_compatible(base, l, r) -> l
    [] is_integer_family_type(l) /\ is_integer_family_type(r) ->
         IF e.l.k = "int" THEN r ELSE l
    [] OTHER -> REAL

RECURSIVE TypeOf(_, _)
TypeOf(E, e) ==
  CASE e.k = "int"  -> INTEGER
    [] e.k = "chr"  -> CHAR
    [] e.k = "nil"  -> NILTYPE
    [] e.k = "type" -> e.ty
    [] e.k = "conv" -> e.ty
    [] e.k = "des"  -> DesignatorType(E, e)
    [] e.k = "set"  -> IF e.ty.k = "set" THEN e.ty ELSE SetOf(INTEGER)
    [] e.k = "un"   -> IF e.op = "NOT" THEN BOOL ELSE TypeOf(E, e.e)
    [] e.k = "bin"  ->
         LET l == TypeOf(E, e.l)  r == TypeOf(E, e.r)
         IN  CASE NoType \in {l, r}                      -> NoType
               [] e.op \in RelOps \cup {"IN", "AND", "OR"} -> BOOL
               [] e.op \in BitOps                        -> l
               [] OTHER                                  -> ArithType(E.P.base, e, l, r)
    [] e.k = "call" ->
         IF e.f \in Builtin \cup Library
         THEN builtin_type(E, e, IF e.f \in {"ABS", "MIN", "MAX"} THEN TypeOf(E, e.args[1]) ELSE NoType)
         ELSE LET sym == lookup(E, e.f)
              IN  IF sym.s = "proc" THEN E.P.procs[sym.proc].ret ELSE NoType
    [] OTHER -> NoType

expr_compatible_with_type(base, expected, e, actual) ==
  \/ actual = NoType
  \/ types_compatible(base, expected, actual)
  \/ is_integer_family_type(expected) /\ is_integer_family_type(actual)
  \/ expected.k \in {"open", "array"} /\ actual.k \in {"open", "array"}
       /\ types_compatible(base, expected.elem, actual.elem)

RECURSIVE val_scalar_class(_)
val_scalar_class(t) ==
  CASE t.k = "subrange" -> val_scalar_class(t.host)
    [] t.k \in {"INTEGER", "CARDINAL", "INTEGER8", "CARDINAL8", "set", "BITSET"} -> "whole"
    [] t.k \in {"enum", "REAL", "CHAR", "BOOLEAN"} -> t.k
    [] OTHER -> "none"
is_val_pointer_like(t) == t.k \in {"pointer", "ADDRESS", "NIL"}

(* A pointer converts to a whole number and back; otherwise one of the two
   must be a whole number, or both of the same class.                      *)
val_conversion_allowed(target, source) ==
  LET t == val_scalar_class(target)  s == val_scalar_class(source)
      tp == is_val_pointer_like(target)  sp == is_val_pointer_like(source)
  IN  CASE tp /\ sp -> TRUE
        [] tp -> s = "whole"
        [] sp -> t = "whole"
        [] OTHER -> "none" \notin {t, s} /\ (t = s \/ "whole" \in {t, s})

arity(f) == CASE f = "HALT" -> 0..1
              [] f \in {"INC", "DEC", "ASSERT"} -> 1..2
              [] f \in {"VAL", "INCL", "EXCL"}  -> {2}
              [] OTHER                          -> {1}

OkBuiltin(E, e) ==
  LET t(i) == TypeOf(E, e.args[i])
  IN  /\ Len(e.args) \in arity(e.f)
      /\ e.f = "VAL" => t(2) = NoType \/ val_conversion_allowed(e.args[1].ty, t(2))
      /\ e.f \in {"INC", "DEC", "INCL", "EXCL", "NEW", "DISPOSE"} => e.args[1].k = "des"
      /\ e.f \in {"NEW", "DISPOSE"} => t(1).k \in {"pointer", "class", "none"}
      /\ e.f \in {"INCL", "EXCL"} /\ is_set(t(1)) =>
           expr_compatible_with_type(E.P.base, IF t(1).k = "set" THEN t(1).of ELSE INTEGER,
                                     e.args[2], t(2))

analyse_call_args(E, params, args) ==
  /\ Len(args) = Len(params)
  /\ \A i \in DOMAIN args :
       /\ expr_compatible_with_type(E.P.base, params[i].ty, args[i], TypeOf(E, args[i]))
       /\ params[i].m = "var" => args[i].k = "des"

RECURSIVE OkSelectors(_, _, _), OkExpr(_, _)
OkSelectors(E, t, sels) ==
  \/ sels = <<>>
  \/ /\ selector_result_type(t, Head(sels)) # NoType
     /\ Head(sels).sk = "index" =>
          /\ OkExpr(E, Head(sels).e)
          /\ is_ordinal_type(TypeOf(E, Head(sels).e)) \/ TypeOf(E, Head(sels).e) = NoType
     /\ OkSelectors(E, selector_result_type(t, Head(sels)), Tail(sels))

OkExpr(E, e) ==
  CASE e.k \in {"int", "chr", "nil", "type", "member"} -> TRUE
    [] e.k = "des" ->
         LET sym == lookup(E, e.base)
             rec == WithRecord(E.withs, e.base)
         IN  CASE sym = NoSymbol -> rec # NoType /\ OkSelectors(E, FieldType(rec, e.base), e.sel)
               [] sym.s = "proc" -> e.sel = <<>>
               [] OTHER -> OkSelectors(E, sym.ty, e.sel)
    [] e.k = "conv" -> OkExpr(E, e.e) /\ is_scalar_convertible_type(e.ty)
    [] e.k = "un" ->
         LET t == TypeOf(E, e.e)
         IN  OkExpr(E, e.e) /\ (t = NoType \/ IF e.op = "NOT" THEN t = BOOL ELSE is_numeric_type(t))
    [] e.k = "bin" ->
         LET l == TypeOf(E, e.l)  r == TypeOf(E, e.r)
         IN  /\ OkExpr(E, e.l) /\ OkExpr(E, e.r)
             /\ \/ NoType \in {l, r}
                \/ e.op \in RelOps /\ (is_set(l) <=> is_set(r))
                \/ e.op = "IN" /\ ~is_set(l)
                \/ e.op \in {"AND", "OR"} /\ l = BOOL /\ r = BOOL
                \/ e.op \in BitOps /\ is_integer_family_type(l) /\ is_integer_family_type(r)
                \/ e.op \in {"+", "-", "*", "/"} /\ is_set(l) /\ is_set(r)
                     /\ types_compatible(E.P.base, l, r)
                \/ e.op \in ArithOps /\ is_numeric_type(l) /\ is_numeric_type(r)
    [] e.k = "set" ->
         LET of == CASE e.ty.k = "set" -> e.ty.of [] e.ty.k = "BITSET" -> INTEGER [] OTHER -> INTEGER
         IN  \A i \in DOMAIN e.els : \A j \in 1..2 :
               OkExpr(E, e.els[i][j])
                 /\ expr_compatible_with_type(E.P.base, of, e.els[i][j], TypeOf(E, e.els[i][j]))
    [] e.k = "call" ->
         /\ \A i \in DOMAIN e.args : OkExpr(E, e.args[i])
         /\ IF e.f \in Builtin THEN OkBuiltin(E, e)
            ELSE IF e.f \in Library THEN analyse_call_args(E, LibraryParams(e.f), e.args)
            ELSE LET sym == lookup(E, e.f)
                 IN  sym.s = "proc" /\ analyse_call_args(E, E.P.procs[sym.proc].params, e.args)

check_condition(E, e) == OkExpr(E, e) /\ TypeOf(E, e) \in {BOOL, NoType}

(***************************************************************************)
(* A function must not reach its end: a statement "completes" if control   *)
(* can go on after it.  Handlers and FINALLY are not looked at.            *)
(***************************************************************************)
is_noreturn_call(e) == e.f \in {"HALT", "Raise"}

RECURSIVE seq_completes(_), stmt_completes(_), loop_has_exit(_), stmt_has_exit(_)
BodiesOf(s) == {s.arms[i].body : i \in DOMAIN s.arms} \cup (IF s.has_else THEN {s.els} ELSE {})
seq_completes(b) == \A i \in DOMAIN b : stmt_completes(b[i])
stmt_completes(s) ==
  CASE s.k \in {"return", "retry", "exit"} -> FALSE
    [] s.k = "call" -> ~is_noreturn_call(s.e)
    [] s.k = "if" -> ~s.has_else \/ \E b \in BodiesOf(s) : seq_completes(b)
    [] s.k \in {"case", "guard"} -> \E b \in BodiesOf(s) : seq_completes(b)
    [] s.k = "loop" -> loop_has_exit(s.b)
    [] s.k = "with" -> seq_completes(s.b)
    [] s.k = "block" -> seq_completes(s.block.stmts)
    [] OTHER -> TRUE
loop_has_exit(b) == \E i \in DOMAIN b : stmt_has_exit(b[i])
stmt_has_exit(s) ==
  CASE s.k = "exit" -> TRUE
    [] s.k \in {"if", "case", "guard"} -> \E b \in BodiesOf(s) : loop_has_exit(b)
    [] s.k \in {"while", "repeat", "for", "with"} -> loop_has_exit(s.b)
    [] s.k = "block" -> loop_has_exit(s.block.stmts)
    [] OTHER -> FALSE
(* RETURN or RETRY anywhere in an interface arm, or an EXIT that leaves it:
   the arm's COM reference would not be released.                          *)
RECURSIVE guard_arm_nonlocal_exit(_, _)
(* The scan that takes every EXIT for one of a loop inside the arm.        *)
guard_arm_nonlocal_exit_NotExit(b, depth) ==
  \E i \in DOMAIN b :
    LET s == b[i]
    IN  CASE s.k \in {"return", "retry"} -> TRUE
          [] s.k \in {"if", "case", "guard"} ->
               \E c \in BodiesOf(s) : guard_arm_nonlocal_exit(c, depth)
          [] s.k \in {"while", "repeat", "for", "loop", "with"} -> guard_arm_nonlocal_exit(s.b, depth)
          [] OTHER -> FALSE
guard_arm_nonlocal_exit(b, depth) ==
  \E i \in DOMAIN b :
    LET s == b[i]
    IN  CASE s.k \in {"return", "retry"} -> TRUE
          [] s.k = "exit" -> depth = 0
          [] s.k \in {"if", "case", "guard"} ->
               \E c \in BodiesOf(s) : guard_arm_nonlocal_exit(c, depth)
          [] s.k \in {"while", "repeat", "for", "loop"} -> guard_arm_nonlocal_exit(s.b, depth + 1)
          [] s.k = "with" -> guard_arm_nonlocal_exit(s.b, depth)
          [] s.k = "block" -> \E c \in {s.block.stmts, s.block.except, s.block.finally} :
                                 guard_arm_nonlocal_exit(c, depth)
          [] OTHER -> FALSE
const_int_of(E, e) == eval_const(Consts(E.P), e)

(* Every label a CASE has, as bounds, in the order they are written.       *)
Labels(arms) == LET RECURSIVE from(_)
                    from(i) == IF i > Len(arms) THEN <<>> ELSE arms[i].labels \o from(i + 1)
                IN  from(1)

OkLabels(E, s) ==
  LET t == TypeOf(E, s.e)
      labels == Labels(s.arms)
      lo(i) == const_int_of(E, labels[i][1])
      hi(i) == const_int_of(E, labels[i][2])
      folded == {i \in DOMAIN labels : as_int(lo(i)) /\ as_int(hi(i))}
  IN  /\ \A i \in DOMAIN labels : \A j \in 1..2 :
           OkExpr(E, labels[i][j])
             /\ (t = NoType \/ expr_compatible_with_type(E.P.base, t, labels[i][j],
                                                        TypeOf(E, labels[i][j])))
      /\ \A i, j \in folded : i < j => hi(i).n < lo(j).n \/ hi(j).n < lo(i).n

OkAssign(E, s) ==
  LET sym == lookup(E, s.d.base)
      l == DesignatorType(E, s.d)
      r == TypeOf(E, s.e)
      v == const_int_of(E, s.e)
  IN  /\ sym # NoSymbol => sym.s = "var" /\ sym.m # "const"
      /\ OkExpr(E, s.d) /\ OkExpr(E, s.e)
      /\ l # NoType => expr_compatible_with_type(E.P.base, l, s.e, r)
      /\ l.k = "subrange" /\ as_int(v) => v.n \in l.lo .. l.hi

OkFor(E, s) ==
  LET sym == lookup(E, s.v)
      by == const_int_of(E, s.by)
  IN  /\ sym.s = "var" /\ is_ordinal_type(sym.ty)
      /\ OkExpr(E, s.from) /\ OkExpr(E, s.to) /\ OkExpr(E, s.by)
      /\ \A e \in {s.from, s.to} : expr_compatible_with_type(E.P.base, sym.ty, e, TypeOf(E, e))
      /\ is_ordinal_type(TypeOf(E, s.by)) \/ TypeOf(E, s.by) = NoType
      /\ ~(as_int(by) /\ by.n = 0)
      /\ ~(s.by.k = "des" /\ s.by.sel = <<>> /\ lookup(E, s.by.base).s = "var")

RECURSIVE OkStmts(_, _, _), OkStmt(_, _, _), analyse_block(_, _, _), analyse_guard(_, _, _)
OkStmts(E, ret, b) == \A i \in DOMAIN b : OkStmt(E, ret, b[i])

analyse_guard(E, ret, s) ==
  LET t == TypeOf(E, s.e)
      iface == t.k = "class" /\ t.class \in E.P.ifaces
  IN  /\ OkExpr(E, s.e) /\ t.k \in {"class", "none"}
      /\ \A i \in DOMAIN s.arms :
           LET arm == s.arms[i]
           IN  /\ iface <=> arm.class \in E.P.ifaces
               /\ iface => ~guard_arm_nonlocal_exit(arm.body, 0)
               /\ ~iface /\ t.k = "class" => class_related(E.P, t.class, arm.class)
               /\ OkStmts(IF arm.den = "" THEN E
                          ELSE [E EXCEPT !.den = (arm.den :> Class(arm.class)) @@ @], ret, arm.body)
      /\ OkStmts(E, ret, s.els)

OkStmt(E, ret, s) ==
  CASE s.k = "assign" -> OkAssign(E, s)
    [] s.k = "call"   -> OkExpr(E, s.e)
    [] s.k = "if"     -> /\ \A i \in DOMAIN s.arms : check_condition(E, s.arms[i].cond)
                         /\ \A b \in BodiesOf(s) : OkStmts(E, ret, b)
    [] s.k = "case"   -> /\ OkExpr(E, s.e) /\ OkLabels(E, s)
                         /\ \A b \in BodiesOf(s) : OkStmts(E, ret, b)
    [] s.k = "guard"  -> analyse_guard(E, ret, s)
    [] s.k \in {"while", "repeat"} -> check_condition(E, s.c) /\ OkStmts(E, ret, s.b)
    [] s.k = "for"    -> OkFor(E, s) /\ OkStmts(E, ret, s.b)
    [] s.k = "loop"   -> OkStmts(E, ret, s.b)
    [] s.k = "with"   ->
         LET rec == record_type_of(DesignatorType(E, s.d))
         IN  /\ OkExpr(E, s.d) /\ rec.k = "record"
             /\ OkStmts([E EXCEPT !.withs = Append(@, rec)], ret, s.b)
    [] s.k = "block"  -> analyse_block(E, ret, s.block)
    [] s.k = "return" ->
         IF ret = NoType THEN ~s.has
         ELSE /\ s.has /\ OkExpr(E, s.e)
              /\ expr_compatible_with_type(E.P.base, ret, s.e, TypeOf(E, s.e))
    [] s.k \in {"exit", "retry"} -> TRUE

analyse_block(E, ret, b) ==
  OkStmts(E, ret, b.stmts) /\ OkStmts(E, ret, b.except) /\ OkStmts(E, ret, b.finally)

analyse_proc_body(P, i) ==
  /\ analyse_block(Context(P, i), P.procs[i].ret, P.procs[i].body)
  /\ P.procs[i].ret # NoType => ~seq_completes(P.procs[i].body.stmts)

(* A module is accepted: its constants fold and every body is in order.    *)
Accepted(P) == /\ DOMAIN Consts(P) = DOMAIN P.consts
               /\ \A i \in DOMAIN P.procs : analyse_proc_body(P, i)
               /\ analyse_block(Context(P, 0), NoType, P.body)
=============================================================================
