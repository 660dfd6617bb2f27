------------------------------ MODULE Meaning ------------------------------
(***************************************************************************)
(* What a program means, as the abstract specification of the compiler: an *)
(* evaluator over exact integers, sets and lexical scopes that knows       *)
(* nothing of widths, registers or frames.                                 *)
(*                                                                         *)
(* The state S has the store, the output, the value computed last and how  *)
(* control goes on: "go", "exit", "return", "retry", "raise" (with exc) or *)
(* "halt"; "off" where the language promises nothing (overflow, a value    *)
(* that was never assigned, no fuel left); "wrong" where a checked program *)
(* must never come: past the end of a function, to a CASE with two arms    *)
(* for one value, out of an interface arm by EXIT, RETURN or RETRY, or to  *)
(* an operation on a value of another kind.  known collects the            *)
(* divergences of the compiler the run has met, each listed with the code  *)
(* it is in in the README, section 5.2, so that a property can set them    *)
(* aside by name; framesLeft and refsLeft count what the code leaves       *)
(* behind, see Body and ExecGuard.                                         *)
(***************************************************************************)
EXTENDS Sema

CONSTANT Fuel   \* statements and calls one run may take

ASSUME FuelAssumption == Fuel \in Nat

Go(S)       == S.ctl = "go"
Off(S)      == [S EXCEPT !.ctl = "off"]
Wrong(S)    == [S EXCEPT !.ctl = "wrong"]
Val(S, v)   == [S EXCEPT !.val = v]
Raised(S, source, n) == [S EXCEPT !.ctl = "raise", !.exc = [source |-> source, number |-> n]]
Known(S, cond, k) == IF cond THEN [S EXCEPT !.known = @ \cup {k}] ELSE S
Then(S, F(_)) == IF Go(S) THEN F(S) ELSE S
Truth(b) == IF b THEN 1 ELSE 0

Unset == [set |-> FALSE, v |-> 0]
Fresh(S, n) == [S EXCEPT !.st = @ \o [i \in 1..n |-> Unset], !.val = Len(S.st) + 1]
Get(S, l) == IF l \in DOMAIN S.st /\ S.st[l].set /\ l \notin S.dead THEN Val(S, S.st[l].v) ELSE Off(S)
Put(S, l, v) == IF l \in DOMAIN S.st /\ l \notin S.dead
                THEN [S EXCEPT !.st[l] = [set |-> TRUE, v |-> v]] ELSE Off(S)

InRange(t, v) ==
  IF t.k \in {"set", "BITSET"} THEN v \subseteq 0 .. SetBits - 1
  ELSE t.k \in {"pointer", "class", "ADDRESS", "NIL", "none", "array", "record", "open"}
         \/ v \in ordinal_bounds(t)[1] .. ordinal_bounds(t)[2]
Fit(S, t) == IF Go(S) /\ ~InRange(t, S.val) THEN Off(S) ELSE S

(* What a value of a type can be used as.  The values of an enumeration or
   a subrange can be calculated with, an address too.                      *)
RECURSIVE Kinds(_)
Kinds(t) ==
  CASE is_set(t)                     -> {"set"}
    [] t = BOOL                      -> {"truth"}
    [] t = CHAR                      -> {"char"}
    [] t.k \in {"pointer", "class", "NIL"} -> {"place"}
    [] t = ADDRESS                   -> {"place", "number"}
    [] t.k = "subrange"              -> Kinds(t.host) \cup {"number"}
    [] is_numeric_type(t)            -> {"number"}
    [] OTHER                         -> {}
Is(E, e, kind) == kind \in Kinds(TypeOf(E, e))
AnOrdinal(t)   == Kinds(t) \cap {"number", "truth", "char"} # {}
Alike(t, u)    == Kinds(t) \cap Kinds(u) # {}

(* A value computed at a width below Wide.                                 *)
IsNarrow(e, t) == e.k # "bin" /\ BitsOf(t) \in 1 .. Wide - 1
(* The value of e goes where t is declared: it must be of t's kind and in
   range.                                                                  *)
Into(E, S, e, t) ==
  LET s == TypeOf(E, e)
  IN  CASE ~Go(S)       -> S
        [] ~Alike(s, t) -> Wrong(S)
        [] OTHER        -> Fit(Known(S, IsNarrow(e, s) /\ BitsOf(t) > BitsOf(s) /\ S.val < 0, "sign"), t)

TopBit(v, w) == v >= 2^(w - 1)

Relation(op, a, b) ==
  CASE op = "="  -> a = b  [] op = "#"  -> a # b
    [] op = "<"  -> a < b  [] op = "<=" -> a <= b
    [] op = ">"  -> a > b  [] op = ">=" -> a >= b
Arith(op, a, b) ==
  CASE op = "+"    -> a + b
    [] op = "-"    -> a - b
    [] op = "*"    -> a * b
    [] op = "DIV"  -> IF b < 0 THEN (-a) \div (-b) ELSE a \div b
    [] op = "MOD"  -> IF b < 0 THEN -((-a) % (-b)) ELSE a % b
    [] op = "/"    -> IF (a < 0) = (b < 0) THEN Magnitude(a) \div Magnitude(b)
                      ELSE -(Magnitude(a) \div Magnitude(b))
    [] op = "REM"  -> IF a < 0 THEN -(Magnitude(a) % Magnitude(b)) ELSE a % Magnitude(b)
    [] op = "BAND" -> Bitwise2("and", Wide, a % 2^Wide, b % 2^Wide)
    [] op = "BOR"  -> Bitwise2("or", Wide, a % 2^Wide, b % 2^Wide)
    [] op = "BXOR" -> Bitwise2("xor", Wide, a % 2^Wide, b % 2^Wide)
SetArith(op, a, b) ==
  CASE op = "+" -> a \cup b  [] op = "-" -> a \ b  [] op = "*" -> a \cap b
    [] op = "/" -> (a \ b) \cup (b \ a)
    [] op = "=" -> a = b     [] op = "#" -> a # b
    [] op = "<=" -> a \subseteq b  [] op = ">=" -> b \subseteq a
    [] op = "<" -> a \subseteq b /\ a # b  [] op = ">" -> b \subseteq a /\ a # b

Unsigned(t) == t.k \in {"CARDINAL", "CARDINAL8", "ADDRESS", "CHAR"}
                 \/ (t.k = "subrange" /\ t.lo >= 0 /\ t.host.k \in {"CARDINAL", "CARDINAL8", "CHAR"})

(* A binary operation on whole numbers of the types lt and rt.             *)
Operate(S, e, lt, rt, a, b) ==
  LET mixed == ~(Unsigned(lt) /\ Unsigned(rt)) /\ (TopBit(a, Wide) \/ TopBit(b, Wide))
      s1 == Known(S, e.op \in {"<", "<=", ">", ">="} /\ BOOL \in {lt, rt}, "boolean")
      s2 == Known(s1, mixed /\ e.op \notin {"+", "-", "*"}, "mixed")
      s3 == Known(s2, e.op = "/" /\ (a < 0 \/ b < 0), "slash")
      s4 == Known(s3, e.op = "/" /\ TopBit(b, Wide), "slash")
  IN  IF e.op \in {"/", "DIV", "MOD", "REM"} /\ b = 0 THEN Raised(s4, M2_SOURCE, 6)
      ELSE IF e.op \in RelOps THEN Val(s4, Truth(Relation(e.op, a, b)))
      ELSE Val(s4, Arith(e.op, a, b))

(***************************************************************************)
(* A context C has the context E of Sema, the bindings of every enclosing  *)
(* scope, the locations of the WITH records, the kind of the innermost     *)
(* loop and the control variable of a FOR that is not there yet where its  *)
(* bounds are evaluated.  A binding is [at, high].                         *)
(***************************************************************************)
Scope(C, n) ==
  LET scopes == Enclosing(C.E.P, C.E.proc)
  IN  scopes[CHOOSE i \in DOMAIN scopes :
               /\ Declared(C.E.P, scopes[i], n) # NoSymbol
               /\ \A j \in 1 .. i - 1 : Declared(C.E.P, scopes[j], n) = NoSymbol]
Binding(C, n) == IF n \in DOMAIN C.E.den THEN C.den[n] ELSE C.env[Scope(C, n)][n]

FieldAt(t, f) ==
  LET RECURSIVE sum(_)
      sum(i) == IF t.fields[i].f = f THEN 0 ELSE SizeOf(t.fields[i].ty) + sum(i + 1)
  IN  sum(1)

RECURSIVE Eval(_, _, _), Loc(_, _, _), Select(_, _, _, _, _), CallProc(_, _, _, _),
          Actuals(_, _, _, _, _), Elements(_, _, _, _), Run(_, _, _), Exec(_, _, _), Body(_, _, _, _)

(* The location behind selectors, from one of type t; high is that of an
   open array.                                                             *)
Select(C, S, t, high, sels) ==
  IF sels = <<>> \/ ~Go(S) THEN S
  ELSE LET s == Head(sels)
           l == S.val
           rest(s2, t2) == Select(C, s2, t2, 0, Tail(sels))
       IN  CASE s.sk = "field" -> rest(Val(S, l + FieldAt(t, s.f)), FieldType(t, s.f))
             [] s.sk = "index" ->
                  LET ty == TypeOf(C.E, s.e)
                      lo == IF t.k = "array" THEN ordinal_bounds(t.index)[1] ELSE 0
                      hi == IF t.k = "array" THEN ordinal_bounds(t.index)[2] ELSE high
                      narrow(v) == IsNarrow(s.e, ty) /\ (v < 0 \/ (lo = 0 /\ TopBit(v, BitsOf(ty))))
                  IN  Then(IF AnOrdinal(ty) THEN Eval(C, S, s.e) ELSE Wrong(S), LAMBDA r :
                        LET k == Known(r, narrow(r.val), "index")
                        IN  IF r.val \in lo .. hi
                            THEN rest(Val(k, l + (r.val - lo) * SizeOf(t.elem)), t.elem)
                            ELSE IF t.k = "array" THEN Raised(k, M2_SOURCE, 0) ELSE Off(k))
             [] s.sk = "deref" ->
                  Then(Get(S, l), LAMBDA r : IF r.val = 0 THEN Raised(r, M2_SOURCE, 3) ELSE rest(r, t.to))

Loc(C, S, d) ==
  LET sym == lookup(C.E, d.base)
      having == {i \in DOMAIN C.withs : HasField(C.withs[i].ty, d.base)}
      w == C.withs[CHOOSE i \in having : \A j \in having : j <= i]
  IN  CASE sym = NoSymbol /\ having # {} ->
             IF w.at = 0 THEN Off(Known(S, TRUE, "with"))
             ELSE Select(C, Val(S, w.at), w.ty, 0, <<Field(d.base)>> \o d.sel)
        [] sym.s = "var" ->
             LET k == Known(S, d.base = C.ahead
                                 \/ (d.base \in S.counted /\ C.E.proc # 0 /\ Scope(C, d.base) = 0), "for")
             IN  Select(C, Val(k, Binding(C, d.base).at), sym.ty, Binding(C, d.base).high, d.sel)
        [] OTHER -> Wrong(S)

Elements(C, S, els, acc) ==
  IF els = <<>> THEN Val(S, acc)
  ELSE Then(Eval(C, S, els[1][1]), LAMBDA lo :
         Then(IF els[1][1] = els[1][2] THEN lo ELSE Eval(C, lo, els[1][2]), LAMBDA hi :
           IF lo.val < 0 \/ hi.val >= SetBits THEN Off(hi)
           ELSE Elements(C, hi, Tail(els), acc \cup lo.val .. hi.val)))

(* VAL and T(e): the same value in another type.                           *)
Convert(C, S, t, e) ==
  LET s == TypeOf(C.E, e)
  IN  Then(Eval(C, S, e), LAMBDA r :
        IF is_set(s) \/ is_set(t) THEN Off(r)
        ELSE Fit(Known(r, s.k = "CARDINAL8" /\ BitsOf(t) > Narrow /\ TopBit(r.val, Narrow), "val"), t))

Builtin1(C, S, e) ==
  LET f == e.f
      t == TypeOf(C.E, e.args[1])
  IN  CASE f \in {"MIN", "MAX"} -> Val(S, ordinal_bounds(t)[IF f = "MIN" THEN 1 ELSE 2])
        [] f = "HIGH" -> Val(S, IF t.k = "open" THEN Binding(C, e.args[1].base).high
                                ELSE ordinal_cardinality(t.index) - 1)
        [] OTHER -> Then(Eval(C, S, e.args[1]), LAMBDA r :
             CASE f = "ORD" -> Fit(r, CARDINAL)
               [] f = "CHR" -> Fit(r, CHAR)
               [] f = "ODD" -> Val(r, r.val % 2)
               [] f = "ABS" -> Fit(Known(Val(r, Magnitude(r.val)),
                                         BitsOf(t) > 0 /\ TopBit(r.val, BitsOf(t)), "mixed"), t))

(* An operand or a test that must be of one kind.                          *)
Operand(C, S, e, kind) == IF Go(S) /\ ~Is(C.E, e, kind) THEN Wrong(S) ELSE Eval(C, S, e)

(* Operands that an operator does not take, and those only the compiler
   takes: IN with something else than a value and a set, and comparisons of
   values of different kinds and of the order of places.                   *)
Mistyped(e, lt, rt) ==
  CASE e.op = "IN"      -> is_set(lt)
    [] e.op \in RelOps  -> is_set(lt) # is_set(rt)
    [] e.op \in {"+", "-", "*", "/"} /\ is_set(lt) -> ~is_set(rt)
    [] OTHER            -> ~({"number"} \subseteq Kinds(lt) \cap Kinds(rt))
Lenient(e, lt, rt) ==
  CASE e.op = "IN"      -> IF AnOrdinal(lt) /\ is_set(rt) THEN {} ELSE {"member"}
    [] e.op \in RelOps  -> IF Alike(lt, rt) /\ (e.op \in {"=", "#"} \/ ~("place" \in Kinds(lt)))
                           THEN {} ELSE {"compare"}
    [] OTHER            -> {}

Eval(C, S, e) ==
  LET lt == TypeOf(C.E, e.l)
      rt == TypeOf(C.E, e.r)
      sym == lookup(C.E, e.base)
  IN  CASE ~Go(S) -> S
        [] e.k \in {"int", "chr", "member"} -> Val(S, e.n)
        [] e.k = "nil" -> Val(S, 0)
        [] e.k = "set" -> Elements(C, S, e.els, {})
        [] e.k = "conv" -> Convert(C, S, e.ty, e.e)
        [] e.k = "un" ->
             Then(Operand(C, S, e.e, IF e.op = "NOT" THEN "truth" ELSE "number"), LAMBDA r :
               IF e.op = "NOT" THEN Val(r, 1 - r.val)
               ELSE Fit(IF e.op = "-" THEN Val(r, -r.val) ELSE r,
                        IF e.e.k = "int" THEN INTEGER ELSE TypeOf(C.E, e.e)))
        [] e.k = "bin" /\ e.op \in {"AND", "OR"} ->
             IF ~Is(C.E, e.r, "truth") THEN Wrong(S)
             ELSE Then(Operand(C, S, e.l, "truth"), LAMBDA a :
                    IF a.val = Truth(e.op = "OR") THEN a ELSE Eval(C, a, e.r))
        [] e.k = "bin" /\ Mistyped(e, lt, rt) -> Wrong(S)
        [] e.k = "bin" /\ Lenient(e, lt, rt) # {} -> Off([S EXCEPT !.known = @ \cup Lenient(e, lt, rt)])
        [] e.k = "bin" ->
             Then(Eval(C, S, e.l), LAMBDA a : Then(Eval(C, a, e.r), LAMBDA b :
               CASE e.op = "IN" ->
                      IF a.val \notin 0 .. SetBits - 1 THEN Off(b)
                      ELSE Val(b, Truth(a.val \in b.val))
                 [] is_set(lt) /\ e.op \in RelOps ->
                      Val(Known(b, e.op \notin {"=", "#"}, "subset"), Truth(SetArith(e.op, a.val, b.val)))
                 [] is_set(lt) /\ e.op \notin RelOps -> Val(b, SetArith(e.op, a.val, b.val))
                 [] OTHER -> LET r == Operate(b, e, lt, rt, a.val, b.val)
                             IN  IF e.op \in RelOps THEN r ELSE Fit(r, TypeOf(C.E, e))))
        [] e.k = "des" ->
             IF e.sel = <<>> /\ e.base \in {"TRUE", "FALSE"} THEN Val(S, Truth(e.base = "TRUE"))
             ELSE IF sym.s = "const"
                  THEN Eval([C EXCEPT !.E = Context(C.E.P, 0)], S, C.E.P.consts[e.base])
             ELSE Then(Loc(C, S, e), LAMBDA r : Get(r, r.val))
        [] e.k = "call" ->
             CASE e.f = "VAL" -> Convert(C, S, e.args[1].ty, e.args[2])
               [] e.f = "IsExceptional" -> Val(S, Truth(S.pend # <<>>))
               [] e.f \in Builtin /\ e.f # "VAL" -> Builtin1(C, S, e)
               [] OTHER -> CallProc(C, S, lookup(C.E, e.f).proc, e.args)

(* The bindings of the parameters, the actuals evaluated in their order.   *)
Actuals(C, S, params, args, acc) ==
  IF params = <<>> THEN [s |-> S, env |-> acc]
  ELSE LET p == params[1]
           a == args[1]
           t == TypeOf(C.E, a)
           open == p.ty.k = "open"
           byref == open \/ p.m = "var"
           loc == Known(Loc(C, S, a), ~open /\ BitsOf(t) # BitsOf(p.ty), "var")
           val == Into(C.E, Eval(C, S, a), a, p.ty)
           new == Fresh(val, 1)
           high == IF ~open THEN 0
                   ELSE IF t.k = "open" THEN Binding(C, a.base).high ELSE ordinal_cardinality(t.index) - 1
       IN  IF byref THEN Actuals(C, loc, Tail(params), Tail(args),
                                 (p.n :> [at |-> loc.val, high |-> high]) @@ acc)
           ELSE IF ~Go(val) THEN [s |-> val, env |-> acc]
           ELSE Actuals(C, Put(new, new.val, val.val), Tail(params), Tail(args),
                        (p.n :> [at |-> new.val, high |-> 0]) @@ acc)

(* Room for variables, which have no value yet.                            *)
RECURSIVE Variables(_, _, _, _)
Variables(S, vars, names, acc) ==
  IF names = {} THEN [s |-> S, env |-> acc]
  ELSE LET n == CHOOSE n \in names : TRUE
           f == Fresh(S, SizeOf(vars[n]))
       IN  Variables(f, vars, names \ {n}, (n :> [at |-> f.val, high |-> 0]) @@ acc)

CallProc(C, S, j, args) ==
  LET p == C.E.P.procs[j]
      a == Actuals(C, [S EXCEPT !.fuel = @ - 1], p.params, args, [n \in {} |-> 0])
      v == Variables(a.s, p.vars, DOMAIN p.vars, a.env)
      outer == Enclosing(C.E.P, p.up)
      env == (j :> v.env) @@ [i \in {outer[k] : k \in DOMAIN outer} |-> C.env[i]]
      D == [E |-> Context(C.E.P, j), env |-> env, den |-> [n \in {} |-> 0], withs |-> <<>>, loop |-> "", ahead |-> ""]
      r == Body(D, v.s, p.body, p.ret # NoType)
  IN  CASE ~Go(a.s) -> a.s
        [] S.fuel <= 0 -> Off(S)
        [] r.ctl = "return" -> [r EXCEPT !.ctl = "go"]
        [] Go(r) /\ p.ret # NoType -> Wrong(r)   \* a function without result
        [] OTHER -> r

(* The statements of a body, its handler and its FINALLY part, which is run
   however the others end.                                                 *)
Pending(S)   == [S EXCEPT !.ctl = "go", !.pend = Append(@, S.exc)]
(* A handler or a FINALLY part of a procedure that is left by an exception:
   the code does not free the procedure's exception frame there.           *)
LeavesFrame(C, S) == IF S.ctl = "raise" /\ C.E.proc # 0 THEN [S EXCEPT !.framesLeft = @ + 1] ELSE S

Handler(C, S, b, isf) ==
  LET h == LeavesFrame(C, Run(C, Pending(Known(S, S.pend # <<>>, "nested")), b.except))
      k == Known(Known(h, h.ctl = "return" \/ (Go(h) /\ isf), "handler"),
                 h.ctl \in {"raise", "return"} /\ b.has_finally, "finally")
  IN  [IF Go(h) /\ isf THEN Off(k) ELSE k EXCEPT !.pend = S.pend]

Body(C, S, b, isf) ==
  LET s == Run(C, S, b.stmts)
      done == IF s.ctl = "raise" /\ b.has_except THEN Handler(C, s, b, isf) ELSE s
      fin == LeavesFrame(C, Run(C, IF done.ctl = "raise" THEN Pending(done) ELSE [done EXCEPT !.ctl = "go"],
                           b.finally))
  IN  CASE s.ctl = "raise" /\ done.ctl = "retry" -> Body(C, [done EXCEPT !.ctl = "go", !.fuel = @ - 1], b, isf)
        [] done.ctl \in {"go", "return", "raise"} /\ b.has_finally ->
             [IF Go(fin) THEN [fin EXCEPT !.ctl = done.ctl, !.val = done.val, !.exc = done.exc]
              ELSE Known(fin, fin.ctl \in {"exit", "return", "retry"}, "finally")
              EXCEPT !.pend = s.pend]
        [] OTHER -> done

(***************************************************************************)
(* Statements.                                                             *)
(***************************************************************************)
Run(C, S, b) == IF b = <<>> \/ ~Go(S) THEN S ELSE Run(C, Exec(C, S, Head(b)), Tail(b))

Store1(C, S, d, t, v) == Then(Loc(C, S, d), LAMBDA r : Put(r, r.val, v))

RECURSIVE ExecIf(_, _, _, _)
ExecIf(C, S, arms, els) ==
  IF arms = <<>> THEN Run(C, S, els)
  ELSE Then(Operand(C, S, arms[1].cond, "truth"), LAMBDA r :
         IF r.val = 1 THEN Run(C, r, arms[1].body) ELSE ExecIf(C, r, Tail(arms), els))

(* A loop whose test, if it has one, is made before (WHILE) or after.      *)
RECURSIVE ExecLoop(_, _, _)
ExecLoop(C, S, s) ==
  LET again(r) == ExecLoop(C, [r EXCEPT !.fuel = @ - 1], s)
      kind == [C EXCEPT !.loop = s.k]
      left(r) == IF r.ctl = "exit" /\ s.k = "loop" THEN [r EXCEPT !.ctl = "go"] ELSE r
  IN  CASE S.fuel <= 0 -> Off(S)
        [] s.k = "while"  -> Then(Operand(C, S, s.c, "truth"), LAMBDA r :
                               IF r.val = 1 THEN Then(left(Run(kind, r, s.b)), again) ELSE r)
        [] s.k = "repeat" -> Then(left(Run(kind, S, s.b)), LAMBDA r :
                               Then(Operand(C, r, s.c, "truth"), LAMBDA c : IF c.val = 1 THEN c ELSE again(c)))
        [] s.k = "loop"   -> LET r == Run(kind, S, s.b)
                             IN  IF r.ctl = "exit" THEN left(r) ELSE Then(r, again)

(* The control variable runs from its first to its last value in range and
   keeps the last one.                                                     *)
RECURSIVE Count(_, _, _, _, _, _)
Count(C, S, s, l, v, last) ==
  LET by == const_int_of(C.E, s.by).n
      in(x) == IF by > 0 THEN x <= last ELSE x >= last
      b == Run([C EXCEPT !.loop = "for"], Put(S, l, v), s.b)
  IN  IF S.fuel <= 0 THEN Off(S)
      ELSE IF ~in(v) THEN Put(S, l, v)
      ELSE Then(b, LAMBDA r : IF in(v + by) THEN Count(C, [r EXCEPT !.fuel = @ - 1], s, l, v + by, last)
                              ELSE r)

ExecFor(C, S, s) ==
  LET t == lookup(C.E, s.v).ty
      own == Scope(C, s.v)
      first == Into(C.E, Eval([C EXCEPT !.ahead = IF own = 0 THEN s.v ELSE ""], S, s.from), s.from, t)
      last == Into(C.E, Eval([C EXCEPT !.ahead = s.v], first, s.to), s.to, t)
      a == first.val
      z == last.val
      w == IF IsNarrow(s.to, TypeOf(C.E, s.to)) /\ BitsOf(TypeOf(C.E, s.to)) >= BitsOf(t)
           THEN BitsOf(TypeOf(C.E, s.to)) ELSE IF BitsOf(t) < Wide /\ ~IsNarrow(s.to, TypeOf(C.E, s.to))
           THEN Wide ELSE BitsOf(t)
      k1 == Known([last EXCEPT !.counted = @ \cup {s.v}], own \notin {0, C.E.proc} \/ (own = 0 /\ C.E.proc # 0), "for")
      k2 == Known(k1, (BitsOf(t) < Wide \/ IsNarrow(s.to, TypeOf(C.E, s.to))) /\ (a < 0 \/ z < 0), "sign")
      k3 == Known(k2, TopBit(a, w) \/ TopBit(z, w) \/ Magnitude(z - a) >= 2^(w - 1), "count")
  IN  IF ~Go(last) THEN last ELSE Count(C, k3, s, Binding(C, s.v).at, a, z)

(* A label is a constant; two arms with a value in common have no meaning. *)
ExecCase(C, S, s) ==
  LET label(l) == const_int_of(C.E, l[1]).n .. const_int_of(C.E, l[2]).n
      arm(i) == UNION {label(s.arms[i].labels[j]) : j \in DOMAIN s.arms[i].labels}
      t == TypeOf(C.E, s.e)
      fits(l) == Alike(TypeOf(C.E, l[1]), t) /\ Alike(TypeOf(C.E, l[2]), t)
      all == \A i \in DOMAIN s.arms : \A j \in DOMAIN s.arms[i].labels : fits(s.arms[i].labels[j])
  IN  Then(IF AnOrdinal(t) /\ all THEN Eval(C, S, s.e) ELSE Wrong(S), LAMBDA r :
        LET hit == {i \in DOMAIN s.arms : r.val \in arm(i)}
            k1 == Known(r, IsNarrow(s.e, t) /\ r.val < 0, "sign")
            k2 == Known(k1, TopBit(r.val, Wide), "mixed")
            k3 == Known(k2, t = BOOL, "boolean")
        IN  CASE Cardinality(hit) > 1 -> Wrong(k3)
              [] hit # {} -> Run(C, k3, s.arms[CHOOSE i \in hit : TRUE].body)
              [] hit = {} /\ s.has_else -> Run(C, k3, s.els)
              [] OTHER -> Raised(k3, M2_SOURCE, 2))

(* The arm of an interface holds a reference of its own, which it releases
   when its statements are done: it must not be left by a jump, and if it is
   left by an exception the code keeps the reference.                      *)
LeaveInterface(S) ==
  CASE S.ctl \in {"exit", "return", "retry"} -> Wrong(S)
    [] S.ctl = "raise"                       -> [S EXCEPT !.refsLeft = @ + 1]
    [] OTHER                                 -> S

ExecGuard(C, S, s) ==
  Then(Eval(C, S, s.e), LAMBDA r :
    LET is(c) == IF c \in C.E.P.ifaces THEN r.val # 0 /\ c \in C.E.P.supports
                 ELSE r.val # 0 /\ class_is_subclass(C.E.P.base, r.cls[r.val], c)
        hit == {i \in DOMAIN s.arms : is(s.arms[i].class)}
        arm == s.arms[CHOOSE i \in hit : \A j \in hit : i <= j]
        n == Fresh(r, 1)
        D == [C EXCEPT !.E.den = (arm.den :> Class(arm.class)) @@ @,
                       !.den = (arm.den :> [at |-> n.val, high |-> 0]) @@ @]
        b == IF arm.den = "" THEN Run(C, r, arm.body) ELSE Run(D, Put(n, n.val, r.val), arm.body)
    IN  CASE hit # {} -> IF arm.class \in C.E.P.ifaces THEN LeaveInterface(b) ELSE b
          [] hit = {} /\ s.has_else -> Run(C, r, s.els)
          [] OTHER -> Raised(r, GUARD_SOURCE, 0))

ExecWith(C, S, s) ==
  LET t == DesignatorType(C.E, s.d)
      p == IF t.k = "pointer" THEN Eval(C, S, s.d) ELSE Loc(C, S, s.d)
  IN  Then(p, LAMBDA r :
        Run([C EXCEPT !.E.withs = Append(@, record_type_of(t)),
                      !.withs = Append(@, [at |-> r.val, ty |-> record_type_of(t)])], r, s.b))

(* The calls that are statements of the language.                          *)
ExecCall(C, S, e) ==
  LET f == e.f
      a == e.args
      t == TypeOf(C.E, a[1])
      old == Eval(C, S, a[1])
      by == IF Len(a) = 2 THEN Eval(C, old, a[2]) ELSE Val(old, 1)
  IN  CASE f = "WriteInt" -> Then(Into(C.E, Eval(C, S, a[1]), a[1], INTEGER), LAMBDA r :
                               [r EXCEPT !.out = Append(@, r.val)])
        [] f = "Raise" ->
             Then(Into(C.E, old, a[1], CARDINAL), LAMBDA source :
               Then(Into(C.E, Eval(C, source, a[2]), a[2], CARDINAL), LAMBDA r :
                 Raised(r, source.val, r.val)))
        [] f \in {"INC", "DEC"} ->
             Then(Fit(Then(by, LAMBDA r : Val(r, IF f = "INC" THEN old.val + r.val ELSE old.val - r.val)), t),
                  LAMBDA r : Store1(C, r, a[1], t, r.val))
        [] f \in {"INCL", "EXCL"} ->
             Then(by, LAMBDA r :
               IF r.val \notin 0 .. SetBits - 1 THEN Off(r)
               ELSE Store1(C, r, a[1], t, IF f = "INCL" THEN old.val \cup {r.val} ELSE old.val \ {r.val}))
        [] f \in {"NEW", "Create"} ->
             LET n == Fresh(S, IF t.k = "pointer" THEN SizeOf(t.to) ELSE 1)
             IN  Store1(C, [n EXCEPT !.cls = (n.val :> IF t.k = "class" THEN t.class ELSE "") @@ @],
                        a[1], t, n.val)
        [] f = "DISPOSE" ->
             Then(old, LAMBDA r :
               IF r.val = 0 THEN r
               ELSE Store1(C, [r EXCEPT !.dead = @ \cup r.val .. (r.val + SizeOf(t.to)) - 1], a[1], t, 0))
        [] f = "ASSERT" -> Then(old, LAMBDA r : IF r.val = 1 THEN r ELSE Raised(r, ASSERT_SOURCE, 0))
        [] f = "HALT" -> [S EXCEPT !.ctl = "halt"]
        [] OTHER -> Eval(C, S, e)

Exec(C, S0, s) ==
  LET S == [S0 EXCEPT !.fuel = @ - 1]
  IN  CASE S0.fuel <= 0 -> Off(S0)
        [] s.k = "assign" ->
             LET t == DesignatorType(C.E, s.d)
             IN  Then(Into(C.E, Eval(C, S, s.e), s.e, t), LAMBDA r : Store1(C, r, s.d, t, r.val))
        [] s.k = "call"   -> ExecCall(C, S, s.e)
        [] s.k = "if"     -> ExecIf(C, S, s.arms, s.els)
        [] s.k \in {"while", "repeat", "loop"} -> ExecLoop(C, S, s)
        [] s.k = "for"    -> ExecFor(C, S, s)
        [] s.k = "case"   -> ExecCase(C, S, s)
        [] s.k = "guard"  -> ExecGuard(C, S, s)
        [] s.k = "with"   -> ExecWith(C, S, s)
        [] s.k = "exit"   -> IF C.loop = "" THEN Off(Known(S, TRUE, "exit"))
                             ELSE [Known(S, C.loop # "loop", "exit") EXCEPT !.ctl = "exit"]
        [] s.k = "retry"  -> [S EXCEPT !.ctl = "retry"]
        [] s.k = "return" ->
             IF ~s.has THEN [S EXCEPT !.ctl = "return"]
             ELSE Then(Into(C.E, Eval(C, S, s.e), s.e, C.E.P.procs[C.E.proc].ret), LAMBDA r :
                    [r EXCEPT !.ctl = "return"])
        [] s.k = "block"  ->
             LET r == Run(C, S, s.block.stmts)
             IN  Known(Then(r, LAMBDA x : Run(C, x, s.block.finally)),
                       ~Go(r) /\ (s.block.has_except \/ s.block.has_finally), "block")

(* The run of a program: the body of the module.                           *)
Meaning(P) ==
  LET S0 == [st |-> <<>>, dead |-> {}, cls |-> [l \in {} |-> ""], out |-> <<>>, val |-> 0, ctl |-> "go",
             exc |-> [source |-> 0, number |-> 0], pend |-> <<>>, known |-> {}, counted |-> {},
             framesLeft |-> 0, refsLeft |-> 0, fuel |-> Fuel]
      v == Variables(S0, P.vars, DOMAIN P.vars, [n \in {} |-> 0])
      C == [E |-> Context(P, 0), env |-> (0 :> v.env), den |-> [n \in {} |-> 0], withs |-> <<>>, loop |-> "", ahead |-> ""]
  IN  Body(C, v.s, [P.body EXCEPT !.has_finally = FALSE, !.finally = <<>>], FALSE)
=============================================================================
