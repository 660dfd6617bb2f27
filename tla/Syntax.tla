------------------------------ MODULE Syntax ------------------------------
(***************************************************************************)
(* The programs the back end is given: the syntax tree of newm2-parser     *)
(* (ast.rs: Expr, Selector, Stmt, Block, ProcDecl, Module), with a name for *)
(* a name and a type of M2Types for a type denotation.                     *)
(***************************************************************************)
EXTENDS M2Types, TLC

Num(n)          == [k |-> "int", n |-> n]
Chr(n)          == [k |-> "chr", n |-> n]
Nil             == [k |-> "nil"]
TypeName(t)     == [k |-> "type", ty |-> t]
Des(b, s)       == [k |-> "des", base |-> b, sel |-> s]
Name(b)         == Des(b, <<>>)
CallOf(f, args) == [k |-> "call", f |-> f, args |-> args]
Bin(op, l, r)   == [k |-> "bin", op |-> op, l |-> l, r |-> r]
Un(op, e)       == [k |-> "un", op |-> op, e |-> e]
Conv(t, e)      == [k |-> "conv", ty |-> t, e |-> e]        \* T(e)
Member(t, n)    == [k |-> "member", ty |-> t, n |-> n]      \* an enumeration constant
(* A set constructor: an element is a pair of bounds, equal for a single.  *)
SetOfExpr(t, els) == [k |-> "set", ty |-> t, els |-> els]

Index(e)  == [sk |-> "index", e |-> e]
Field(f)  == [sk |-> "field", f |-> f]
Deref     == [sk |-> "deref"]

Assign(d, e)       == [k |-> "assign", d |-> d, e |-> e]
Call(f, args)      == [k |-> "call", e |-> CallOf(f, args)]
IfElse(arms, els)  == [k |-> "if", arms |-> arms, els |-> els, has_else |-> TRUE]
If(arms)           == [k |-> "if", arms |-> arms, els |-> <<>>, has_else |-> FALSE]
While(c, b)        == [k |-> "while", c |-> c, b |-> b]
Repeat(b, c)       == [k |-> "repeat", c |-> c, b |-> b]
For(v, f, t, s, b) == [k |-> "for", v |-> v, from |-> f, to |-> t, by |-> s, b |-> b]
Loop(b)            == [k |-> "loop", b |-> b]
Exit               == [k |-> "exit"]
Return             == [k |-> "return", has |-> FALSE]
ReturnOf(e)        == [k |-> "return", has |-> TRUE, e |-> e]
Retry              == [k |-> "retry"]
(* Labels are pairs of bounds; an arm is [labels, body].                   *)
Case(e, arms)          == [k |-> "case", e |-> e, arms |-> arms, els |-> <<>>, has_else |-> FALSE]
CaseElse(e, arms, els) == [k |-> "case", e |-> e, arms |-> arms, els |-> els, has_else |-> TRUE]
(* A guard arm is [class, den, body], den "" for an arm without denoter.   *)
Guard(e, arms)          == [k |-> "guard", e |-> e, arms |-> arms, els |-> <<>>, has_else |-> FALSE]
GuardElse(e, arms, els) == [k |-> "guard", e |-> e, arms |-> arms, els |-> els, has_else |-> TRUE]
With(d, b)         == [k |-> "with", d |-> d, b |-> b]
BlockStmt(b)       == [k |-> "block", block |-> b]

Block(stmts) == [stmts |-> stmts, has_except |-> FALSE, except |-> <<>>,
                 has_finally |-> FALSE, finally |-> <<>>]
Except(stmts, handler) ==
  [Block(stmts) EXCEPT !.has_except = TRUE, !.except = handler]
Finally(b, fin) == [b EXCEPT !.has_finally = TRUE, !.finally = fin]

Param(n, t, m) == [n |-> n, ty |-> t, m |-> m]
(* up is the index of the enclosing procedure, 0 for the module.           *)
Proc(name, up, params, ret, vars, body) ==
  [name |-> name, up |-> up, params |-> params, ret |-> ret, vars |-> vars, body |-> body]
NoVars == [x \in {} |-> NoType]

(* A module: constants with their declared expression (a Member for the
   identifiers of an enumeration), variables, procedures, classes with their
   base, which of them are interfaces, which interfaces a COM object that
   Create makes answers to, and the body.                                  *)
Program(vars, procs, body) ==
  [consts |-> [x \in {} |-> Num(0)], vars |-> vars, procs |-> procs,
   base |-> [x \in {} |-> ""], ifaces |-> {}, supports |-> {}, body |-> body]

(* The calls of the runtime library a program can make, external to the
   module: WriteInt writes a number, Raise raises an exception of a source and
   a number (EXCEPTIONS.RAISE), IsExceptional asks for CURRENT and Create puts
   a new COM object into an interface variable.                            *)
Library == {"WriteInt", "Raise", "IsExceptional", "Create"}
LibraryParams(f) ==
  CASE f = "WriteInt" -> <<Param("n", INTEGER, "value")>>
    [] f = "Raise"    -> <<Param("source", CARDINAL, "value"), Param("number", CARDINAL, "value")>>
    [] f = "Create"   -> <<Param("p", ADDRESS, "var")>>
    [] OTHER          -> <<>>

(* The sources of exceptions.  AllocateSource counts those of a program from
   1; the last three are the runtime's own, and 0 is none.                 *)
ASSERT_SOURCE == 2^Wide - 1
M2_SOURCE     == 2^Wide - 2
GUARD_SOURCE  == 2^Wide - 3

RECURSIVE Enclosing(_, _)
(* The scopes that are searched for a name used in procedure i, inside out. *)
Enclosing(P, i) == IF i = 0 THEN <<0>> ELSE <<i>> \o Enclosing(P, P.procs[i].up)

ParamNames(p) == {p.params[i].n : i \in DOMAIN p.params}
ParamOf(p, n) == p.params[CHOOSE i \in DOMAIN p.params : p.params[i].n = n]
ProcNames(P, up) == {P.procs[i].name : i \in {j \in DOMAIN P.procs : P.procs[j].up = up}}
=============================================================================
