---------------------------- MODULE ConstFold ----------------------------
(***************************************************************************)
(* Constant expressions: newm2-sema/src/constant.rs.  A value is a record  *)
(* tagged int, char, bool, set or nil; NotConst stands for every error.    *)
(* The compiler folds in 128 bits, which the model leaves unbounded.       *)
(***************************************************************************)
EXTENDS Syntax

NotConst     == [c |-> "error"]
IntConst(n)  == [c |-> "int", n |-> n]
CharConst(n) == [c |-> "char", n |-> n]
BoolConst(b) == [c |-> "bool", n |-> IF b THEN 1 ELSE 0]
SetConst(s)  == [c |-> "set", s |-> s]
NilConst     == [c |-> "nil"]

as_int(v) == v.c \in {"int", "char", "bool"}

(* Rust's / and % on whole numbers truncate towards zero.                  *)
Magnitude(n) == IF n < 0 THEN -n ELSE n
Quotient(a, b) == LET q == Magnitude(a) \div Magnitude(b)
                  IN  IF (a < 0) = (b < 0) THEN q ELSE -q
Remainder(a, b) == a - b * Quotient(a, b)

m2_div(a, b) == IF Remainder(a, b) # 0 /\ (Remainder(a, b) < 0) # (b < 0)
                THEN Quotient(a, b) - 1 ELSE Quotient(a, b)
m2_mod(a, b) == IF Remainder(a, b) # 0 /\ (Remainder(a, b) < 0) # (b < 0)
                THEN Remainder(a, b) + b ELSE Remainder(a, b)

(* The bits of a number, and a bitwise operator on two of them.            *)
RECURSIVE Bitwise2(_, _, _, _)
Bitwise2(op, w, a, b) ==
  IF w = 0 THEN 0
  ELSE LET x == a % 2  y == b % 2
           z == CASE op = "and" -> x * y
                  [] op = "or"  -> IF x + y > 0 THEN 1 ELSE 0
                  [] op = "xor" -> (x + y) % 2
       IN  z + 2 * Bitwise2(op, w - 1, a \div 2, b \div 2)

const_eq(a, b)  == a.c = b.c /\ a = b
const_cmp(a, b) == a.n - b.n     \* negative, zero or positive

fold_set(op, a, b) ==
  CASE op = "+" -> SetConst(a.s \cup b.s)
    [] op = "-" -> SetConst(a.s \ b.s)
    [] op = "*" -> SetConst(a.s \cap b.s)
    [] op = "/" -> SetConst((a.s \ b.s) \cup (b.s \ a.s))
    [] OTHER    -> NotConst

fold_int(op, a, b) ==
  CASE op = "+"   -> IntConst(a + b)
    [] op = "-"   -> IntConst(a - b)
    [] op = "*"   -> IntConst(a * b)
    [] op = "/"   -> IF b = 0 THEN NotConst ELSE IntConst(Quotient(a, b))
    [] op = "DIV" -> IF b = 0 THEN NotConst ELSE IntConst(m2_div(a, b))
    [] op = "MOD" -> IF b = 0 THEN NotConst ELSE IntConst(m2_mod(a, b))
    [] op = "REM" -> IF b = 0 THEN NotConst ELSE IntConst(Remainder(a, b))

(* Both operands are folded first, also those of AND and OR.               *)
fold_binary(op, a, b) ==
  CASE "error" \in {a.c, b.c} -> NotConst
    [] op \in {"=", "#"} -> BoolConst(const_eq(a, b) = (op = "="))
    [] op \in {"<", "<=", ">", ">="} ->
         IF a.c = b.c /\ a.c \in {"int", "char"}
         THEN LET d == const_cmp(a, b)
              IN  BoolConst(CASE op = "<" -> d < 0 [] op = "<=" -> d <= 0
                              [] op = ">" -> d > 0 [] op = ">=" -> d >= 0)
         ELSE NotConst
    [] op \in {"AND", "OR"} ->
         IF a.c = "bool" /\ b.c = "bool"
         THEN BoolConst(IF op = "AND" THEN a.n = 1 /\ b.n = 1 ELSE a.n = 1 \/ b.n = 1)
         ELSE NotConst
    [] op = "IN" -> IF as_int(a) /\ b.c = "set" THEN BoolConst(a.n \in b.s) ELSE NotConst
    [] op \in {"BAND", "BOR", "BXOR"} ->
         IF as_int(a) /\ as_int(b)
         THEN LET bits == CASE op = "BAND" -> "and" [] op = "BOR" -> "or" [] op = "BXOR" -> "xor"
                  u == Bitwise2(bits, Wide + 1, a.n % 2^(Wide + 1), b.n % 2^(Wide + 1))
              IN  IntConst(IF u >= 2^Wide THEN u - 2^(Wide + 1) ELSE u)
         ELSE NotConst
    [] a.c = "set" /\ b.c = "set" -> fold_set(op, a, b)
    [] op \in {"DIV", "MOD", "REM"} /\ as_int(a) /\ as_int(b) -> fold_int(op, a.n, b.n)
    [] a.c = "int" /\ b.c = "int" -> fold_int(op, a.n, b.n)
    [] OTHER -> NotConst

fold_unary(op, v) ==
  CASE op = "-" /\ v.c = "int"    -> IntConst(-v.n)
    [] op = "+" /\ v.c = "int"    -> v
    [] op = "NOT" /\ v.c = "bool" -> BoolConst(v.n = 0)
    [] op = "NOT" /\ v.c = "int"  -> IntConst(-v.n - 1)
    [] OTHER -> NotConst

fold_builtin(f, v) ==
  CASE ~as_int(v) -> NotConst
    [] f = "CHR"  -> IF v.n < 0 THEN NotConst ELSE CharConst(v.n)
    [] f = "ORD"  -> IntConst(v.n)
    [] f = "ABS"  -> IF v.c = "int" THEN IntConst(Magnitude(v.n)) ELSE NotConst
    [] f = "ODD"  -> BoolConst(v.n % 2 = 1)
    [] OTHER      -> NotConst

(* consts are the named constants in scope, already folded.                *)
RECURSIVE eval_const(_, _)
eval_const(consts, e) ==
  CASE e.k = "int" -> IntConst(e.n)
    [] e.k = "chr" -> CharConst(e.n)
    [] e.k = "nil" -> NilConst
    [] e.k = "member" -> IntConst(e.n)
    [] e.k = "des" ->
         IF e.sel = <<>> /\ e.base \in DOMAIN consts THEN consts[e.base]
         ELSE IF e.base \in {"TRUE", "FALSE"} THEN BoolConst(e.base = "TRUE") ELSE NotConst
    [] e.k = "un"  -> fold_unary(e.op, eval_const(consts, e.e))
    [] e.k = "bin" -> fold_binary(e.op, eval_const(consts, e.l), eval_const(consts, e.r))
    [] e.k = "conv" ->
         LET v == eval_const(consts, e.e)
             b == ordinal_bounds(e.ty)
         IN  IF e.ty.k \in {"subrange", "enum"} /\ as_int(v) /\ v.n \in b[1]..b[2]
             THEN v ELSE NotConst
    [] e.k = "call" ->
         CASE e.f \in {"MIN", "MAX"} /\ e.args[1].k = "type" ->
                IntConst(ordinal_bounds(e.args[1].ty)[IF e.f = "MIN" THEN 1 ELSE 2])
           [] e.f = "VAL" -> eval_const(consts, e.args[2])
           [] e.f \in {"CHR", "ORD", "ABS", "ODD"} ->
                fold_builtin(e.f, eval_const(consts, e.args[1]))
           [] OTHER -> NotConst
    [] e.k = "set" ->
         LET lo == [i \in DOMAIN e.els |-> eval_const(consts, e.els[i][1])]
             hi == [i \in DOMAIN e.els |-> eval_const(consts, e.els[i][2])]
         IN  IF \A i \in DOMAIN e.els : as_int(lo[i]) /\ as_int(hi[i])
             THEN SetConst(UNION {lo[i].n .. hi[i].n : i \in DOMAIN e.els})
             ELSE NotConst
    [] OTHER -> NotConst

(* The constants of a module, each folded with the ones declared before it:
   a constant may only use constants that are already folded.              *)
RECURSIVE FoldDecls(_, _)
FoldDecls(P, consts) ==
  LET ready == {n \in DOMAIN P.consts \ DOMAIN consts :
                  eval_const(consts, P.consts[n]).c # "error"}
  IN  IF ready = {} THEN consts
      ELSE FoldDecls(P, consts @@ [n \in ready |-> eval_const(consts, P.consts[n])])
Consts(P) == FoldDecls(P, [n \in {} |-> NotConst])

(* The type a constant declaration gets (eval_const_decl): that of its value,
   or the type it names.                                                   *)
ConstType(e, v) ==
  CASE e.k \in {"member", "set"} -> e.ty
    [] e.k = "call" /\ e.f = "VAL" -> e.args[1].ty
    [] v.c = "char" -> CHAR
    [] v.c = "bool" -> BOOL
    [] v.c = "set"  -> BITSET
    [] v.c = "nil"  -> NILTYPE
    [] OTHER        -> INTEGER
=============================================================================
