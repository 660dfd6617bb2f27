------------------------------- MODULE Lower -------------------------------
(***************************************************************************)
(* Lowering a checked module to IR: newm2-ir/src/lower.rs on top of        *)
(* builder.rs.  The state L of the function being lowered has its blocks,  *)
(* the current one, the number of registers, the register of the value     *)
(* computed last (val, with ty the type of what it points to when it is an *)
(* address), the exits of the enclosing loops, the block RETRY goes to,    *)
(* the bindings of local names, the addresses of the WITH records, the     *)
(* result slot and the frame to free, and the context E of Sema.           *)
(* An instruction is [o, dst, a, x]: an operation, the register it         *)
(* defines, its operand registers and what else it needs.                  *)
(***************************************************************************)
EXTENDS Sema

Open == [t |-> "unreachable"]   \* also the terminator of a block still open
Goto(b) == [t |-> "goto", to |-> b]
CondBr(c, yes, no) == [t |-> "condbr", c |-> c, yes |-> yes, no |-> no]
Switch(v, arms, other) == [t |-> "switch", v |-> v, arms |-> arms, other |-> other]
Ret(v) == [t |-> "return", v |-> v]   \* 0 for a return without value

NewBlock == [insts |-> <<>>, term |-> Open]

is_terminated(L) == L.blocks[L.cur].term # Open
new_block(L) == [L EXCEPT !.blocks = Append(@, NewBlock), !.val = Len(L.blocks) + 1]
switch_to(L, b) == [L EXCEPT !.cur = b]
(* The first terminator of a block stays.                                  *)
terminate(L, t) == IF is_terminated(L) THEN L ELSE [L EXCEPT !.blocks[L.cur].term = t]
push(L, i) == IF is_terminated(L) THEN L
              ELSE [L EXCEPT !.blocks[L.cur].insts = Append(@, i)]

(* An instruction that defines the next register.                          *)
Emit(L, o, a, x) ==
  [push(L, [o |-> o, dst |-> L.n + 1, a |-> a, x |-> x]) EXCEPT !.n = L.n + 1, !.val = L.n + 1]
Do(L, o, a, x) == push(L, [o |-> o, dst |-> 0, a |-> a, x |-> x])

Const(L, w, v) == Emit(L, "const", <<>>, [w |-> w, v |-> v % 2^w])
IntC(L, n)     == Const(L, Wide, n)
emit_nil(L)    == Emit(L, "const", <<>>, [w |-> 0, v |-> 0])
(* An alloca; codegen moves every one of them to the function's entry.     *)
Alloca(L, t)   == [L EXCEPT !.n = @ + 1, !.val = L.n + 1, !.ty = t,
                            !.slots = Append(@, [reg |-> L.n + 1, ty |-> t])]
Load(L, p, t)  == Emit(L, "load", <<p>>, BitsOf(t))
Store(L, p, v, t) == Do(L, "store", <<p, v>>, BitsOf(t))
Binary(L, op, l, r) == Emit(L, "bin", <<l, r>>, op)
Cast(L, kind, v, w) == Emit(L, "cast", <<v>>, [kind |-> kind, w |-> w])
call_runtime(L, f, a) == Emit(L, "call", a, f)

raise_m2_exception(L, n) ==
  LET c == IntC(L, n) IN terminate(call_runtime(c, "nm2_raise_m2", <<c.val>>), Open)
raise_guard_exception(L) == terminate(call_runtime(L, "nm2_raise_guard", <<>>), Open)

(* Leave through a raise if the flag in L.val is set, go on otherwise.     *)
FailIf(L, n) ==
  LET fail == new_block(L)
      cont == new_block(fail)
      br   == terminate(cont, CondBr(L.val, fail.val, cont.val))
  IN  switch_to(raise_m2_exception(switch_to(br, fail.val), n), cont.val)

emit_index_bounds_check(L, adj, count) ==
  LET c == IntC(L, count) IN FailIf(Binary(c, "uge", adj, c.val), 0)
emit_div_zero_check(L, divisor) ==
  LET z == IntC(L, 0) IN FailIf(Binary(z, "eq", divisor, z.val), 6)
emit_nil_check(L, p) ==
  LET i == Cast(L, "ptrtoint", p, Wide)
      z == IntC(i, 0)
  IN  FailIf(Binary(z, "eq", i.val, z.val), 3)

(***************************************************************************)
(* Captures: the variables of enclosing procedures a nested procedure      *)
(* uses, itself or through a nested procedure it calls, which are passed   *)
(* to it by address as further parameters.                                 *)
(***************************************************************************)
RECURSIVE refs_expr(_), refs_stmts(_)
refs_sel(sel) == UNION {IF sel[i].sk = "index" THEN refs_expr(sel[i].e) ELSE {} : i \in DOMAIN sel}
refs_expr(e) ==
  CASE e.k = "des"  -> {e.base} \cup refs_sel(e.sel)
    [] e.k = "call" -> {e.f} \cup UNION {refs_expr(e.args[i]) : i \in DOMAIN e.args}
    [] e.k = "bin"  -> refs_expr(e.l) \cup refs_expr(e.r)
    [] e.k \in {"un", "conv"} -> refs_expr(e.e)
    [] e.k = "set"  -> UNION {refs_expr(e.els[i][1]) \cup refs_expr(e.els[i][2]) : i \in DOMAIN e.els}
    [] OTHER -> {}
refs_block(b) == refs_stmts(b.stmts) \cup refs_stmts(b.except) \cup refs_stmts(b.finally)
refs_stmt(s) ==
  CASE s.k = "assign" -> refs_expr(s.d) \cup refs_expr(s.e)
    [] s.k = "call"   -> refs_expr(s.e)
    [] s.k = "if"     -> UNION {refs_expr(s.arms[i].cond) : i \in DOMAIN s.arms}
                           \cup UNION {refs_stmts(b) : b \in BodiesOf(s)}
    [] s.k = "case"   -> refs_expr(s.e) \cup UNION {refs_stmts(b) : b \in BodiesOf(s)}
    [] s.k = "guard"  -> refs_expr(s.e) \cup UNION {refs_stmts(b) : b \in BodiesOf(s)}
    [] s.k \in {"while", "repeat"} -> refs_expr(s.c) \cup refs_stmts(s.b)
    [] s.k = "for"    -> refs_expr(s.from) \cup refs_expr(s.to) \cup refs_expr(s.by) \cup refs_stmts(s.b)
    [] s.k = "loop"   -> refs_stmts(s.b)
    [] s.k = "with"   -> refs_expr(s.d) \cup refs_stmts(s.b)
    [] s.k = "block"  -> refs_block(s.block)
    [] s.k = "return" -> IF s.has THEN refs_expr(s.e) ELSE {}
    [] OTHER -> {}
refs_stmts(b) == UNION {refs_stmt(b[i]) : i \in DOMAIN b}

(* Scopes are filed by procedure name, the last of a name staying.         *)
ProcScope(P, name) == LET same == {i \in DOMAIN P.procs : P.procs[i].name = name}
                      IN  CHOOSE i \in same : \A j \in same : j <= i

(* A name is captured if the innermost scope that declares it is that of an
   enclosing procedure and declares a variable.                            *)
IsCapture(P, i, n) ==
  LET scopes == Enclosing(P, i)
      found == {j \in DOMAIN scopes : Declared(P, scopes[j], n) # NoSymbol}
      first == CHOOSE j \in found : \A k \in found : j <= k
  IN  /\ found # {} /\ scopes[first] \notin {i, 0}
      /\ Declared(P, scopes[first], n).s = "var"

RECURSIVE CaptureFixpoint(_, _, _)
CaptureFixpoint(P, refs, caps) ==
  LET next == [q \in DOMAIN caps |->
                 {n \in refs[q] \cup UNION {caps[r] : r \in refs[q] \cap DOMAIN caps} :
                    IsCapture(P, ProcScope(P, q), n)}]
  IN  IF next = caps THEN caps ELSE CaptureFixpoint(P, refs, next)

RECURSIVE InOrder(_)
InOrder(S) == IF S = {} THEN <<>> ELSE LET x == CHOOSE x \in S : TRUE IN <<x>> \o InOrder(S \ {x})

(* Only what the procedure names itself, nothing through what it calls.    *)
compute_captures_NotTransitive(P) ==
  LET nested == {P.procs[i].name : i \in {j \in DOMAIN P.procs : P.procs[j].up # 0}}
  IN  [q \in {P.procs[i].name : i \in DOMAIN P.procs} |->
         IF q \notin nested THEN <<>>
         ELSE InOrder({n \in refs_block(P.procs[ProcScope(P, q)].body) :
                         IsCapture(P, ProcScope(P, q), n)})]
(* The captures of every nested procedure, in the order they are passed.   *)
compute_captures(P) ==
  LET nested == {P.procs[i].name : i \in {j \in DOMAIN P.procs : P.procs[j].up # 0}}
      refs == [q \in nested |-> refs_block(P.procs[ProcScope(P, q)].body)]
      caps == CaptureFixpoint(P, refs, [q \in nested |-> {}])
  IN  [q \in {P.procs[i].name : i \in DOMAIN P.procs} |->
         IF q \in nested THEN InOrder(caps[q]) ELSE <<>>]
CaptureType(P, q, n) == lookup(Context(P, ProcScope(P, q)), n).ty

(***************************************************************************)
(* Names and designators.                                                  *)
(***************************************************************************)
local_ptr(L, b) == IF b.ind THEN [Load(L, b.reg, ADDRESS) EXCEPT !.ty = b.ty]
                   ELSE [L EXCEPT !.val = b.reg, !.ty = b.ty]
Bind(L, n, b) == [L EXCEPT !.locals = (n :> b) @@ @]
Direct(r, t) == [reg |-> r, ty |-> t, ind |-> FALSE]

(* A variable of the module is a static; one of a procedure scope that is
   neither local nor captured gets a slot of its own.                      *)
eval_base_ptr(L, n) ==
  LET sym == lookup(L.E, n)
  IN  CASE n \in DOMAIN L.locals -> local_ptr(L, L.locals[n])
        [] n \notin DOMAIN L.locals /\ n \in DOMAIN L.E.P.vars
             /\ sym = Declared(L.E.P, 0, n) ->
             [Emit(L, "global", <<>>, n) EXCEPT !.ty = sym.ty]
        [] OTHER -> LET s == Alloca(L, sym.ty) IN Bind(s, n, Direct(s.val, sym.ty))

(***************************************************************************)
(* Expressions.  eval_expr leaves the register of the value in L.val,      *)
(* eval_lvalue the register of an address and in L.ty the type behind it.  *)
(***************************************************************************)
RECURSIVE eval_expr(_, _), Selectors(_, _)

FieldOffset(t, f) ==
  LET RECURSIVE before(_)
      before(i) == IF t.fields[i].f = f THEN 0 ELSE SizeOf(t.fields[i].ty) + before(i + 1)
  IN  before(1)

apply_selector(L, sel) ==
  LET base == L.val
      t == L.ty
  IN  CASE sel.sk = "field" ->
             [Emit(L, "offset", <<base>>, FieldOffset(t, sel.f)) EXCEPT !.ty = FieldType(t, sel.f)]
        [] sel.sk = "index" ->
             LET raw == eval_expr(L, sel.e)
                 b   == ordinal_bounds(t.index)
                 lo  == IntC(raw, b[1])
                 adj == IF t.k = "open" \/ b[1] = 0 THEN raw ELSE Binary(lo, "sub", raw.val, lo.val)
                 ok  == IF t.k = "open" THEN adj
                        ELSE emit_index_bounds_check(adj, adj.val, ordinal_cardinality(t.index))
             IN  [Emit(ok, "index", <<base, adj.val>>, SizeOf(t.elem)) EXCEPT !.ty = t.elem]
        [] sel.sk = "deref" ->
             LET p == Load(L, base, ADDRESS)
             IN  [emit_nil_check(p, p.val) EXCEPT !.val = p.val, !.ty = t.to]

Selectors(L, sels) ==
  IF sels = <<>> THEN L ELSE Selectors(apply_selector(L, Head(sels)), Tail(sels))

(* The WITH record a bare name is a field of, 0 if it is an ordinary name. *)
with_field_ptr(L, n) ==
  LET having == {i \in DOMAIN L.withs : HasField(L.withs[i].ty, n)}
  IN  IF n \in DOMAIN L.locals \/ lookup(L.E, n) # NoSymbol \/ having = {} THEN 0
      ELSE CHOOSE i \in having : \A j \in having : j <= i

eval_lvalue(L, d) ==
  LET i == with_field_ptr(L, d.base)
  IN  Selectors(IF i = 0 THEN eval_base_ptr(L, d.base)
                ELSE apply_selector([L EXCEPT !.val = L.withs[i].reg, !.ty = L.withs[i].ty],
                                    Field(d.base)), d.sel)

SetConstant(L, n) == LET c == IntC(L, n) IN Cast(c, "zext", c.val, SetBits)
(* acc OR (1 << bit), the bit and the accumulated set in registers.        *)
AddBit(L, acc, bit) ==
  LET one == SetConstant(L, 1)
      mask == Binary(one, "shl", one.val, bit)
  IN  Binary(mask, "bor", acc, mask.val)

RECURSIVE AddBits(_, _)
AddBits(L, S) ==
  IF S = {} THEN L
  ELSE LET m == CHOOSE m \in S : \A k \in S : m <= k
           bit == SetConstant(L, m)
       IN  AddBits(AddBit(bit, L.val, bit.val), S \ {m})

emit_sema_const(L, v) ==
  CASE v.c = "int"  -> IntC(L, v.n)
    [] v.c = "char" -> Const(L, CharBits, v.n)
    [] v.c = "bool" -> Const(L, 1, v.n)
    [] v.c = "nil"  -> emit_nil(L)
    [] v.c = "set"  -> AddBits(SetConstant(L, 0), v.s)

eval_designator_val(L, d) ==
  CASE d.sel = <<>> /\ d.base \in {"TRUE", "FALSE"} ->
         Const(L, 1, IF d.base = "TRUE" THEN 1 ELSE 0)
    [] d.sel = <<>> /\ d.base \notin DOMAIN L.locals /\ lookup(L.E, d.base).s = "const" ->
         emit_sema_const(L, eval_const(Consts(L.E.P), d))
    [] OTHER -> LET p == eval_lvalue(L, d) IN Load(p, p.val, p.ty)

(* A set constructor, element by element: {lo..hi} is
   (all ones << lo) AND (all ones >> (SetBits - 1 - hi)).                  *)
RECURSIVE eval_set(_, _)
eval_set(L, els) ==
  IF els = <<>> THEN L
  ELSE LET el == Head(els)
           single == el[1] = el[2]
           lo  == eval_expr(L, el[1])
           hi  == IF single THEN lo ELSE eval_expr(lo, el[2])
           loW == Cast(hi, "zext", lo.val, SetBits)
           hiW == Cast(loW, "zext", hi.val, SetBits)
           m1  == IntC(hiW, -1)
           ones == Cast(m1, "sext", m1.val, SetBits)
           low == Binary(ones, "shl", ones.val, loW.val)
           top == SetConstant(low, SetBits - 1)
           gap == Binary(top, "sub", top.val, hiW.val)
           high == Binary(gap, "shr", ones.val, gap.val)
           mask == Binary(high, "band", low.val, high.val)
       IN  eval_set(IF single THEN AddBit(loW, L.val, loW.val) ELSE Binary(mask, "bor", L.val, mask.val),
                    Tail(els))

(* AND and OR: the right operand only if the left one does not decide.     *)
eval_short_circuit(L, e) ==
  LET slot == Alloca(L, BOOL)
      l    == eval_expr(slot, e.l)
      rhs  == new_block(Store(l, slot.val, l.val, BOOL))
      join == new_block(rhs)
      br   == terminate(join, IF e.op = "AND" THEN CondBr(l.val, rhs.val, join.val)
                              ELSE CondBr(l.val, join.val, rhs.val))
      r    == eval_expr(switch_to(br, rhs.val), e.r)
  IN  Load(switch_to(terminate(Store(r, slot.val, r.val, BOOL), Goto(join.val)), join.val),
           slot.val, BOOL)

(* The integer a label, or an operand, is known to be (NotConst if not).   *)
RECURSIVE const_int(_), case_label_int(_, _)
const_int(e) ==
  CASE e.k \in {"int", "chr"} -> IntConst(e.n)
    [] e.k = "un" /\ e.op = "-" -> fold_unary("-", const_int(e.e))
    [] OTHER -> NotConst
case_label_int(E, e) ==
  CASE const_int(e) # NotConst -> const_int(e)
    [] e.k = "bin" /\ e.op \in {"+", "-", "*"} \cup BitOps ->
         fold_binary(e.op, case_label_int(E, e.l), case_label_int(E, e.r))
    [] e.k = "des" /\ e.sel = <<>> /\ e.base \notin {"TRUE", "FALSE"} /\ lookup(E, e.base).s = "const" ->
         LET v == eval_const(Consts(E.P), e)
         IN  IF v.c \in {"int", "char"} THEN IntConst(v.n) ELSE NotConst
    [] OTHER -> NotConst

(* A subrange counts as its host when the sign of its lower bound fits.    *)
HostIf(t, nonneg) ==
  IF t.k # "subrange" THEN t ELSE IF (t.lo >= 0) = nonneg THEN t.host ELSE NoType

expr_is_unsigned(L, e) ==
  HostIf(TypeOf(L.E, e), TRUE).k \in {"CARDINAL", "CARDINAL8", "ADDRESS", "CHAR"}
unsigned_compatible(L, e) ==
  expr_is_unsigned(L, e) \/ (case_label_int(L.E, e) # NotConst /\ case_label_int(L.E, e).n >= 0)
widen_if_signed_narrow(L, r, e) ==
  IF HostIf(TypeOf(L.E, e), FALSE).k = "INTEGER8" THEN Cast(L, "sext", r, Wide)
  ELSE [L EXCEPT !.val = r]
expr_is_set(L, e) == is_set(TypeOf(L.E, e))

SetOpOf == ("+" :> "bor") @@ ("-" :> "bandnot") @@ ("*" :> "band") @@ ("/" :> "bxor")
SignedOp == ("+" :> "add") @@ ("-" :> "sub") @@ ("*" :> "mul") @@ ("/" :> "quot")
            @@ ("DIV" :> "div") @@ ("MOD" :> "mod") @@ ("REM" :> "srem")
            @@ ("=" :> "eq") @@ ("#" :> "ne") @@ ("<" :> "lt") @@ ("<=" :> "le")
            @@ (">" :> "gt") @@ (">=" :> "ge")
            @@ ("BAND" :> "band") @@ ("BOR" :> "bor") @@ ("BXOR" :> "bxor")
UnsignedOp == ("<" :> "ult") @@ ("<=" :> "ule") @@ (">" :> "ugt") @@ (">=" :> "uge")
              @@ ("DIV" :> "quot") @@ ("MOD" :> "rem") @@ ("REM" :> "rem") @@ SignedOp

eval_binary(L, e) ==
  LET l == eval_expr(L, e.l)
      r == eval_expr(l, e.r)
      wl == widen_if_signed_narrow(r, l.val, e.l)
      wr == widen_if_signed_narrow(wl, r.val, e.r)
      ok == IF e.op \in {"/", "DIV", "MOD", "REM"} THEN emit_div_zero_check(wr, wr.val) ELSE wr
      unsigned == /\ expr_is_unsigned(L, e.l) \/ expr_is_unsigned(L, e.r)
                  /\ unsigned_compatible(L, e.l) /\ unsigned_compatible(L, e.r)
  IN  CASE e.op \in {"AND", "OR"} -> eval_short_circuit(L, e)
        [] e.op = "IN" -> Binary(r, "member", l.val, r.val)
        [] e.op \in DOMAIN SetOpOf /\ (expr_is_set(L, e.l) \/ expr_is_set(L, e.r)) ->
             Binary(r, SetOpOf[e.op], l.val, r.val)
        [] OTHER -> Binary(ok, IF unsigned THEN UnsignedOp[e.op] ELSE SignedOp[e.op], wl.val, wr.val)

eval_unary(L, e) ==
  LET v == eval_expr(L, e.e)
  IN  IF e.op = "+" THEN v ELSE Emit(v, "un", <<v.val>>, IF e.op = "-" THEN "neg" ELSE "not")

is_pointer_like(t) == t.k \in {"pointer", "class", "ADDRESS", "NIL"}
RECURSIVE transfer_class(_)
transfer_class(t) == IF t.k = "subrange" THEN transfer_class(t.host) ELSE t.k

(* How VAL and a type conversion change the bits.                          *)
classify_transfer_cast(s, t) ==
  LET sw == BitsOf(s)  tw == BitsOf(t)
  IN  CASE is_pointer_like(s) /\ is_pointer_like(t) -> "bits"
        [] is_pointer_like(s) -> "ptrtoint"
        [] is_pointer_like(t) -> "inttoptr"
        [] is_set(s) \/ is_set(t) -> "bits"
        [] "CHAR" \in {transfer_class(s), transfer_class(t)} -> "bits"
        [] sw >= tw -> "bits"
        [] transfer_class(s) \in {"BOOLEAN", "enum"} -> "bits"
        [] OTHER -> "sext"
Transfer(L, e, t) ==
  LET v == eval_expr(L, e)
  IN  Cast(v, classify_transfer_cast(TypeOf(L.E, e), t), v.val, BitsOf(t))

HighName(n) == n \o "$high"
capture_high(L, n) ==
  IF HighName(n) \in DOMAIN L.locals
  THEN LET p == local_ptr(L, L.locals[HighName(n)]) IN Load(p, p.val, CARDINAL)
  ELSE IntC(L, 0)
(* HIGH of an actual: that of an open array parameter, or one less than the
   number of elements.                                                     *)
eval_actual_high(L, e) ==
  LET t == TypeOf(L.E, e)
  IN  IF e.k = "des" /\ e.sel = <<>> /\ HighName(e.base) \in DOMAIN L.locals
      THEN capture_high(L, e.base)
      ELSE IntC(L, IF t.k = "array" THEN ordinal_cardinality(t.index) - 1 ELSE 0)

capture_address(L, n) ==
  IF n \in DOMAIN L.locals THEN local_ptr(L, L.locals[n]) ELSE emit_nil(L)

(* The addresses of captured variables follow the arguments.               *)
RECURSIVE CaptureArgs(_, _, _, _)
CaptureArgs(L, q, caps, regs) ==
  IF caps = <<>> THEN [l |-> L, regs |-> regs]
  ELSE LET a == capture_address(L, Head(caps))
           h == capture_high(a, Head(caps))
       IN  IF CaptureType(L.E.P, q, Head(caps)).k = "open"
           THEN CaptureArgs(h, q, Tail(caps), regs \o <<a.val, h.val>>)
           ELSE CaptureArgs(a, q, Tail(caps), Append(regs, a.val))

RECURSIVE Arguments(_, _, _, _)
Arguments(L, params, args, regs) ==
  IF args = <<>> THEN [l |-> L, regs |-> regs]
  ELSE LET open == params[1].ty.k = "open"
           byref == open \/ (params[1].m = "var" /\ args[1].k = "des")
           a == IF byref THEN eval_lvalue(L, args[1]) ELSE eval_expr(L, args[1])
           h == eval_actual_high(a, args[1])
       IN  IF open THEN Arguments(h, Tail(params), Tail(args), regs \o <<a.val, h.val>>)
           ELSE Arguments(a, Tail(params), Tail(args), Append(regs, a.val))

lower_odd(v) ==
  LET one == IntC(v, 1)
      low == Binary(one, "band", v.val, one.val)
      z == IntC(low, 0)
  IN  Binary(z, "ne", low.val, z.val)

eval_call(L, e) ==
  LET f == e.f
      a == e.args
      v == eval_expr(L, a[1])
      user == f \notin Library
      p == L.E.P.procs[lookup(L.E, f).proc]
      args == Arguments(L, IF user THEN p.params ELSE LibraryParams(f), a, <<>>)
      all == IF user THEN CaptureArgs(args.l, f, compute_captures(L.E.P)[f], args.regs) ELSE args
  IN  CASE f = "VAL"  -> Transfer(L, a[2], a[1].ty)
        [] f = "ORD"  -> Cast(v, "bits", v.val, Wide)
        [] f = "CHR"  -> Cast(v, "bits", v.val, CharBits)
        [] f = "ODD"  -> lower_odd(v)
        [] f = "ABS"  -> Emit(v, "un", <<v.val>>, "abs")
        [] f = "HIGH" -> eval_actual_high(L, a[1])
        [] f \in {"MIN", "MAX"} ->
             IntC(L, ordinal_bounds(TypeOf(L.E, a[1]))[IF f = "MIN" THEN 1 ELSE 2])
        [] OTHER -> call_runtime(all.l, f, all.regs)

eval_expr(L, e) ==
  CASE e.k = "int"  -> IntC(L, e.n)
    [] e.k = "chr"  -> Const(L, CharBits, e.n)
    [] e.k = "nil"  -> emit_nil(L)
    [] e.k = "des"  -> eval_designator_val(L, e)
    [] e.k = "call" -> eval_call(L, e)
    [] e.k = "conv" -> Transfer(L, e.e, e.ty)
    [] e.k = "bin"  -> eval_binary(L, e)
    [] e.k = "un"   -> eval_unary(L, e)
    [] e.k = "set"  -> eval_set(SetConstant(L, 0), e.els)

(***************************************************************************)
(* Statements.                                                             *)
(***************************************************************************)
RECURSIVE lower_stmts(_, _), lower_stmt(_, _)
lower_stmts(L, b) ==
  IF b = <<>> \/ is_terminated(L) THEN L ELSE lower_stmts(lower_stmt(L, Head(b)), Tail(b))

(* A body in a block of its own, that goes on to another block at its end. *)
BodyTo(L, b, body, next) == terminate(lower_stmts(switch_to(L, b), body), Goto(next))
(* A loop's body, inside which EXIT goes to the block exit.                *)
LoopBody(L, b, body, exit) ==
  [lower_stmts([switch_to(L, b) EXCEPT !.loops = Append(@, exit)], body) EXCEPT !.loops = L.loops]

RECURSIVE IfArms(_, _, _, _)
IfArms(L, arms, s, join) ==
  LET then == new_block(L)
      else == IF Len(arms) > 1 \/ s.has_else THEN new_block(then) ELSE [then EXCEPT !.val = join]
      c    == eval_expr(else, arms[1].cond)
      br   == terminate(c, CondBr(c.val, then.val, else.val))
      arm  == switch_to(BodyTo(br, then.val, arms[1].body, join), else.val)
  IN  IF Len(arms) > 1 THEN IfArms(arm, Tail(arms), s, join) ELSE arm
lower_if(L, s) ==
  LET join == new_block(L)
      arms == IfArms(join, s.arms, s, join.val)
  IN  IF s.has_else THEN switch_to(BodyTo(arms, arms.cur, s.els, join.val), join.val) ELSE arms

lower_while(L, s) ==
  LET head == new_block(L)
      body == new_block(head)
      exit == new_block(body)
      c  == eval_expr(switch_to(terminate(exit, Goto(head.val)), head.val), s.c)
      br == terminate(c, CondBr(c.val, body.val, exit.val))
  IN  switch_to(terminate(LoopBody(br, body.val, s.b, exit.val), Goto(head.val)), exit.val)

lower_repeat(L, s) ==
  LET body == new_block(L)
      exit == new_block(body)
      b == LoopBody(terminate(exit, Goto(body.val)), body.val, s.b, exit.val)
      c == eval_expr(b, s.c)
  IN  switch_to(IF is_terminated(b) THEN b ELSE terminate(c, CondBr(c.val, exit.val, body.val)), exit.val)

lower_loop(L, s) ==
  LET body == new_block(L)
      exit == new_block(body)
      b == LoopBody(terminate(exit, Goto(body.val)), body.val, s.b, exit.val)
  IN  switch_to(terminate(b, Goto(body.val)), exit.val)

(* (asc AND up) OR (desc AND NOT up), all in registers.                    *)
BySign(L, up, asc, desc) ==
  LET down == Emit(L, "un", <<up>>, "not")
      a == Binary(down, "band", up, asc)
      d == Binary(a, "band", down.val, desc)
  IN  Binary(d, "bor", a.val, d.val)

(* Whether the value in L is at least one step away from end.              *)
step_fits_Always(L, up, end, step, zero) == Binary(L, "ge", up, up)
step_fits(L, up, end, step, zero) ==
  LET room == Binary(L, "sub", end, L.val)
      back == Binary(room, "sub", L.val, end)
      neg  == Binary(back, "sub", zero, step)
      fitU == Binary(neg, "ge", room.val, step)
      fitD == Binary(fitU, "ge", back.val, neg.val)
  IN  BySign(fitD, up, fitU.val, fitD.val)

(* The control variable is the one bound in this function; any other, a
   variable of the module too, gives way to a fresh one of the same name.  *)
lower_for(L, s) ==
  LET slot == Alloca(L, INTEGER)
      var  == IF s.v \in DOMAIN L.locals THEN local_ptr(L, L.locals[s.v])
              ELSE [Bind(slot, s.v, Direct(slot.val, INTEGER)) EXCEPT !.ty = INTEGER]
      p == var.val
      t == var.ty
      start == eval_expr(var, s.from)
      end  == eval_expr(Store(start, p, start.val, t), s.to)
      step == eval_expr(end, s.by)
      zero == IntC(step, 0)
      up   == Binary(zero, "ge", step.val, zero.val)
      head == new_block(up)
      body == new_block(head)
      next == new_block(body)
      exit == new_block(next)
      cur  == Load(switch_to(terminate(exit, Goto(head.val)), head.val), p, t)
      le   == Binary(cur, "le", cur.val, end.val)
      ge   == Binary(le, "ge", cur.val, end.val)
      in   == BySign(ge, up.val, le.val, ge.val)
      b    == terminate(LoopBody(terminate(in, CondBr(in.val, body.val, exit.val)), body.val, s.b, exit.val),
                        Goto(next.val))
      cur2 == Load(switch_to(b, next.val), p, t)
      fits == step_fits(cur2, up.val, end.val, step.val, zero.val)
      adv  == new_block(fits)
      sum  == Binary(switch_to(terminate(adv, CondBr(fits.val, adv.val, exit.val)), adv.val),
                     "add", cur2.val, step.val)
  IN  switch_to(terminate(Store(sum, p, sum.val, t), Goto(head.val)), exit.val)

(* One block for each of n arms: they are numbered on from first.          *)
RECURSIVE NewBlocks(_, _)
NewBlocks(L, n) == IF n = 0 THEN L ELSE NewBlocks(new_block(L), n - 1)
RECURSIVE ArmBodies(_, _, _, _)
ArmBodies(L, arms, first, join) ==
  IF arms = <<>> THEN L
  ELSE ArmBodies(BodyTo(L, first, arms[1].body, join), Tail(arms), first + 1, join)

RECURSIVE CaseRanges(_, _, _)
CaseRanges(L, v, ranges) ==
  IF ranges = <<>> THEN L
  ELSE LET r == Head(ranges)
           next == new_block(L)
           lo == IntC(next, r[1])
           hi == IntC(lo, r[2])
           ge == Binary(hi, "ge", v, lo.val)
           le == Binary(ge, "le", v, hi.val)
           in == Binary(le, "band", ge.val, le.val)
       IN  CaseRanges(switch_to(terminate(in, CondBr(in.val, r[3], next.val)), next.val), v, Tail(ranges))

(* The labels of the arms with their block, those of a range or the single
   ones; a label whose value is not known here is left out.                *)
CaseLabels(E, arms, first, ranges) ==
  LET known(l) == (l[1] # l[2]) = ranges /\ \A i \in 1..2 : case_label_int(E, l[i]) # NotConst
      RECURSIVE from(_)
      from(i) == IF i > Len(arms) THEN <<>>
                 ELSE LET ls == SelectSeq(arms[i].labels, known)
                      IN  [k \in DOMAIN ls |-> <<case_label_int(E, ls[k][1]).n,
                                                 case_label_int(E, ls[k][2]).n, first + i - 1>>]
                            \o from(i + 1)
  IN  from(1)

(* What runs when no arm was chosen: the ELSE part, or a raise.            *)
Otherwise(L, s, join, raised) ==
  IF s.has_else THEN terminate(lower_stmts(L, s.els), Goto(join)) ELSE raised

lower_case(L, s) ==
  LET v == eval_expr(L, s.e)
      join == new_block(v)
      other == new_block(join)
      first == other.val + 1
      arms == NewBlocks(other, Len(s.arms))
      rng == CaseRanges(arms, v.val, CaseLabels(L.E, s.arms, first, TRUE))
      sw == terminate(rng, Switch(v.val, CaseLabels(L.E, s.arms, first, FALSE), other.val))
      bodies == switch_to(ArmBodies(sw, s.arms, first, join.val), other.val)
  IN  switch_to(Otherwise(bodies, s, join.val, raise_m2_exception(bodies, 2)), join.val)

(* Inside an arm the denoter names the selector; after it, what it named
   before.                                                                 *)
BindDenoter(L, arm, reg) ==
  IF arm.den = "" THEN L
  ELSE [Bind(L, arm.den, Direct(reg, Class(arm.class)))
          EXCEPT !.E.den = (arm.den :> Class(arm.class)) @@ @]
UnbindDenoter(L, before, arm) ==
  LET rest == [n \in DOMAIN L.locals \ {arm.den} |-> L.locals[n]]
  IN  [L EXCEPT !.E = before.E,
                !.locals = IF arm.den \in DOMAIN before.locals
                           THEN (arm.den :> before.locals[arm.den]) @@ rest ELSE rest]

(* The test of each arm in turn leads to its block or to the next test.    *)
RECURSIVE GuardTests(_, _, _, _, _)
GuardTests(L, ti, arms, block, other) ==
  LET m == Emit(L, "isa", <<ti>>, arms[1].class)
      next == IF Len(arms) > 1 THEN new_block(m) ELSE [m EXCEPT !.val = other]
      br == switch_to(terminate(next, CondBr(m.val, block, next.val)), next.val)
  IN  IF Len(arms) > 1 THEN GuardTests(br, ti, Tail(arms), block + 1, other) ELSE br
RECURSIVE GuardBodies(_, _, _, _, _)
GuardBodies(L, sel, arms, block, join) ==
  IF arms = <<>> THEN L
  ELSE LET arm == arms[1]
           slot == Alloca(switch_to(L, block), Class(arm.class))
           in == IF arm.den = "" THEN switch_to(L, block)
                 ELSE BindDenoter(Store(slot, slot.val, sel, ADDRESS), arm, slot.val)
           end == UnbindDenoter(BodyTo(in, block, arm.body, join), L, arm)
       IN  GuardBodies(end, sel, Tail(arms), block + 1, join)

emit_com_qi(L, sel, class) ==
  LET slot == Alloca(L, ADDRESS)
      nil  == emit_nil(slot)
  IN  [l |-> Emit(Store(nil, slot.val, nil.val, ADDRESS), "qi", <<sel, slot.val>>, class),
       slot |-> slot.val]
emit_com_release(L, slot) == LET p == Load(L, slot, ADDRESS) IN Do(p, "release", <<p.val>>, "")

(* Each arm asks for its interface; without one the slot is released (it is
   then NIL) before the next arm.  qis are the slots of the arms so far.   *)
RECURSIVE InterfaceTests(_, _, _, _, _, _)
InterfaceTests(L, sel, arms, block, other, qis) ==
  LET q == emit_com_qi(L, sel, arms[1].class)
      after == IF Len(arms) > 1 THEN new_block(q.l) ELSE [q.l EXCEPT !.val = other]
      no == new_block(after)
      br == terminate(no, CondBr(q.l.val, block, no.val))
      rel == switch_to(terminate(emit_com_release(switch_to(br, no.val), q.slot), Goto(after.val)), after.val)
  IN  IF Len(arms) > 1 THEN InterfaceTests(rel, sel, Tail(arms), block + 1, other, Append(qis, q.slot))
      ELSE [l |-> rel, slots |-> Append(qis, q.slot)]
(* The reference an arm got is released where its body ends.               *)
RECURSIVE InterfaceBodies(_, _, _, _, _)
InterfaceBodies(L, slots, arms, block, join) ==
  IF arms = <<>> THEN L
  ELSE LET b == lower_stmts(BindDenoter(switch_to(L, block), arms[1], slots[1]), arms[1].body)
           end == IF is_terminated(b) THEN b ELSE terminate(emit_com_release(b, slots[1]), Goto(join))
       IN  InterfaceBodies(UnbindDenoter(end, L, arms[1]), Tail(slots), Tail(arms), block + 1, join)

lower_guard_iface(L, s) ==
  LET sel == eval_expr(L, s.e)
      join == new_block(sel)
      other == new_block(join)
      tests == InterfaceTests(NewBlocks(other, Len(s.arms)), sel.val, s.arms, other.val + 1, other.val, <<>>)
      bodies == switch_to(InterfaceBodies(tests.l, tests.slots, s.arms, other.val + 1, join.val), other.val)
  IN  switch_to(Otherwise(bodies, s, join.val, raise_guard_exception(bodies)), join.val)

lower_guard(L, s) ==
  LET sel == eval_expr(L, s.e)
      ti == Emit(sel, "typeinfo", <<sel.val>>, "")
      join == new_block(ti)
      other == new_block(join)
      tests == GuardTests(NewBlocks(other, Len(s.arms)), ti.val, s.arms, other.val + 1, other.val)
      bodies == switch_to(GuardBodies(tests, sel.val, s.arms, other.val + 1, join.val), other.val)
  IN  IF s.arms[1].class \in L.E.P.ifaces THEN lower_guard_iface(L, s)
      ELSE switch_to(Otherwise(bodies, s, join.val, raise_guard_exception(bodies)), join.val)

(* WITH keeps the address of the record; through a pointer it is the value
   of the pointer, which is not checked for NIL.                           *)
lower_with(L, s) ==
  LET t == DesignatorType(L.E, s.d)
      rec == record_type_of(t)
      p == IF t.k = "pointer" THEN eval_designator_val(L, s.d) ELSE eval_lvalue(L, s.d)
      b == lower_stmts([p EXCEPT !.withs = Append(@, [reg |-> p.val, ty |-> rec]),
                                 !.E.withs = Append(@, rec)], s.b)
  IN  [b EXCEPT !.withs = L.withs, !.E.withs = L.E.withs]

lower_new(L, d) ==
  LET t == DesignatorType(L.E, d)
      new == Emit(L, "new", <<>>, IF t.k = "class" THEN [class |-> t.class, ty |-> ADDRESS]
                                  ELSE [class |-> "", ty |-> t.to])
      p == eval_lvalue(new, d)
  IN  Store(p, p.val, new.val, ADDRESS)

lower_inc_dec(L, f, args) ==
  LET p == eval_lvalue(L, args[1])
      cur == Load(p, p.val, p.ty)
      step == IF Len(args) = 2 THEN eval_expr(cur, args[2]) ELSE IntC(cur, 1)
      sum == Binary(step, IF f = "INC" THEN "add" ELSE "sub", cur.val, step.val)
  IN  Store(sum, p.val, sum.val, p.ty)

lower_incl_excl(L, f, args) ==
  LET p == eval_lvalue(L, args[1])
      cur == Load(p, p.val, p.ty)
      e == eval_expr(cur, args[2])
      bit == Cast(e, "zext", e.val, SetBits)
      one == SetConstant(bit, 1)
      mask == Binary(one, "shl", one.val, bit.val)
      res == Binary(mask, IF f = "INCL" THEN "bor" ELSE "bandnot", cur.val, mask.val)
  IN  Store(res, p.val, res.val, p.ty)

lower_dispose(L, d) ==
  LET v == eval_designator_val(L, d)
      p == eval_lvalue(Do(v, "free", <<v.val>>, ""), d)
      nil == emit_nil(p)
  IN  Store(nil, p.val, nil.val, ADDRESS)

lower_assert(L, e) ==
  LET c == eval_expr(L, e)
      fail == new_block(c)
      cont == new_block(fail)
      br == terminate(cont, CondBr(c.val, cont.val, fail.val))
      f == call_runtime(switch_to(br, fail.val), "nm2_assert_failed", <<>>)
  IN  switch_to(terminate(f, Open), cont.val)

lower_halt(L, args) ==
  LET arg == IF args = <<>> THEN IntC(L, 1) ELSE eval_expr(L, args[1])
      h == terminate(call_runtime(arg, "nm2_halt", <<arg.val>>), Open)
      after == new_block(h)
  IN  switch_to(after, after.val)

lower_call(L, e) ==
  CASE e.f = "NEW" -> lower_new(L, e.args[1])
    [] e.f \in {"INC", "DEC"} -> lower_inc_dec(L, e.f, e.args)
    [] e.f \in {"INCL", "EXCL"} -> lower_incl_excl(L, e.f, e.args)
    [] e.f = "DISPOSE" -> lower_dispose(L, e.args[1])
    [] e.f = "ASSERT" -> lower_assert(L, e.args[1])
    [] e.f = "HALT" -> lower_halt(L, e.args)
    [] OTHER -> eval_call(L, e)

(* Statements with EXCEPT are outlined only as the body of a procedure or
   module: here the handler is left out and FINALLY simply follows.        *)
lower_block(L, b) ==
  lower_stmts(L, IF b.has_finally THEN b.stmts \o b.finally ELSE b.stmts)

free_exception_frame(L) ==
  IF L.frame = 0 THEN L ELSE Do(L, "free", <<L.frame>>, "")

(* RETURN that leaves the frame allocated.                                 *)
lower_return_KeepsFrame(L, s) ==
  LET v == IF s.has THEN eval_expr(L, s.e) ELSE [L EXCEPT !.val = 0]
  IN  IF L.result = 0 THEN terminate(v, Ret(v.val))
      ELSE terminate(IF s.has THEN Store(v, L.result, v.val, L.ret) ELSE v, Ret(0))
lower_return(L, s) ==
  LET v == IF s.has THEN eval_expr(L, s.e) ELSE [L EXCEPT !.val = 0]
      f == free_exception_frame(v)
  IN  IF L.result = 0 THEN terminate(f, Ret(v.val))
      ELSE terminate(IF s.has THEN Store(f, L.result, v.val, L.ret) ELSE f, Ret(0))

lower_stmt(L, s) ==
  CASE s.k = "assign" ->
         LET v == eval_expr(L, s.e)
             p == eval_lvalue(v, s.d)
         IN  Store(p, p.val, v.val, p.ty)
    [] s.k = "call"   -> lower_call(L, s.e)
    [] s.k = "if"     -> lower_if(L, s)
    [] s.k = "while"  -> lower_while(L, s)
    [] s.k = "repeat" -> lower_repeat(L, s)
    [] s.k = "for"    -> lower_for(L, s)
    [] s.k = "loop"   -> lower_loop(L, s)
    [] s.k = "exit"   -> IF L.loops = <<>> THEN L ELSE terminate(L, Goto(L.loops[Len(L.loops)]))
    [] s.k = "return" -> lower_return(L, s)
    [] s.k = "retry"  -> IF L.retry = 0 THEN L
                         ELSE terminate(call_runtime(L, "nm2_exception_handled", <<>>), Goto(L.retry))
    [] s.k = "case"   -> lower_case(L, s)
    [] s.k = "guard"  -> lower_guard(L, s)
    [] s.k = "with"   -> lower_with(L, s)
    [] s.k = "block"  -> lower_block(L, s.block)

(***************************************************************************)
(* Functions.  The body of a procedure or module with EXCEPT or FINALLY    *)
(* becomes a function of its own, run under nm2_run_protected by a wrapper *)
(* that handles the exception; a frame on the heap has the addresses of    *)
(* the procedure's variables for it.                                       *)
(***************************************************************************)
emit_protected_return(L, slot) ==
  LET f == free_exception_frame(L)
      v == Load(f, slot, L.ret)
  IN  IF slot = 0 THEN terminate(f, Ret(0)) ELSE terminate(v, Ret(v.val))

lower_protected_wrapper(L, b, name, state, slot) ==
  LET head == new_block(L)
      run  == Emit(switch_to(terminate(head, Goto(head.val)), head.val), "protect", <<state>>, name)
      zero == IntC(run, 0)
      ok   == Binary(zero, "eq", run.val, zero.val)
      handler == new_block(ok)
      join == new_block(handler)
      br   == terminate(join, CondBr(ok.val, join.val, handler.val))
      h    == lower_stmts([switch_to(br, handler.val) EXCEPT !.retry = head.val], b.except)
      done == terminate(IF is_terminated(h) THEN h
                        ELSE call_runtime(h, "nm2_exception_handled", <<>>), Goto(join.val))
      past == IF b.has_except THEN switch_to([done EXCEPT !.retry = L.retry], join.val) ELSE ok
      fin  == lower_stmts(past, b.finally)
      norm == new_block(fin)
      re   == new_block(norm)
      br2  == terminate(re, CondBr(ok.val, norm.val, re.val))
      up   == terminate(call_runtime(free_exception_frame(switch_to(br2, re.val)), "nm2_reraise", <<>>), Open)
  IN  IF is_terminated(fin) THEN fin
      ELSE emit_protected_return(IF b.has_except THEN fin ELSE switch_to(up, norm.val), slot)

(* A new function: a slot for each parameter, in registers 1, 2, ...  A VAR
   or open array parameter is in its slot by reference.                    *)
NewFunction(P, i, params, ret) ==
  LET by(p) == p.m = "var" \/ p.ty.k = "open"
      RECURSIVE slots(_, _)
      slots(L, ps) ==
        IF ps = <<>> THEN L
        ELSE LET s == Alloca(L, IF by(ps[1]) THEN ADDRESS ELSE ps[1].ty)
             IN  slots(Bind(s, ps[1].n, [reg |-> s.val, ty |-> ps[1].ty, ind |-> by(ps[1])]), Tail(ps))
  IN  slots([blocks |-> <<NewBlock>>, cur |-> 1, n |-> 0, val |-> 0, ty |-> NoType, loops |-> <<>>,
             retry |-> 0, locals |-> [x \in {} |-> Direct(0, NoType)], withs |-> <<>>, result |-> 0,
             frame |-> 0, slots |-> <<>>, E |-> Context(P, i), ret |-> ret,
             widths |-> [k \in DOMAIN params |-> IF by(params[k]) THEN 0 ELSE BitsOf(params[k].ty)]], params)

RECURSIVE pre_alloca_decl(_, _, _)
pre_alloca_decl(L, vars, names) ==
  IF names = {} THEN L
  ELSE LET n == CHOOSE n \in names : TRUE
           s == Alloca(L, vars[n])
       IN  pre_alloca_decl(Bind(s, n, Direct(s.val, vars[n])), vars, names \ {n})

(* A block left open returns from a procedure, and traps in a function.    *)
finish(L, ret) ==
  [widths |-> L.widths, slots |-> L.slots, nregs |-> L.n, ret |-> ret,
   blocks |-> [b \in DOMAIN L.blocks |->
                 IF L.blocks[b].term = Open /\ ret = NoType
                 THEN [L.blocks[b] EXCEPT !.term = Ret(0)] ELSE L.blocks[b]]]

(* The address of slot k of an exception frame.                            *)
FrameSlot(L, frame, k) == LET i == IntC(L, k - 1) IN Emit(i, "index", <<frame, i.val>>, 1)

RECURSIVE PublishFrame(_, _, _, _), ReadFrame(_, _, _, _)
PublishFrame(L, frame, addrs, k) ==
  IF k > Len(addrs) THEN L
  ELSE LET s == FrameSlot(L, frame, k)
       IN  PublishFrame(Store(s, s.val, addrs[k], ADDRESS), frame, addrs, k + 1)
ReadFrame(L, frame, shared, k) ==
  IF k > Len(shared) THEN L
  ELSE LET s == FrameSlot(L, frame, k)
           p == Load(s, s.val, ADDRESS)
       IN  ReadFrame(Bind(p, shared[k].n, Direct(p.val, shared[k].ty)), frame, shared, k + 1)

(* The effective addresses of the locals, in their order.                  *)
RECURSIVE Addresses(_, _, _)
Addresses(L, names, addrs) ==
  IF names = <<>> THEN [l |-> L, addrs |-> addrs]
  ELSE LET p == local_ptr(L, L.locals[Head(names)]) IN Addresses(p, Tail(names), Append(addrs, p.val))

ResultName == "$result"
lower_protected_proc(P, i, params) ==
  LET q == P.procs[i]
      name == q.name \o "$protected"
      w0 == pre_alloca_decl(NewFunction(P, i, params, q.ret), q.vars, DOMAIN q.vars)
      names == InOrder(DOMAIN w0.locals)
      a == Addresses(w0, names, <<>>)
      isf == q.ret # NoType
      slot == IF isf THEN Alloca(a.l, q.ret) ELSE [a.l EXCEPT !.val = 0]
      addrs == IF isf THEN Append(a.addrs, slot.val) ELSE a.addrs
      shared == [k \in DOMAIN names |-> [n |-> names[k], ty |-> w0.locals[names[k]].ty]]
                  \o (IF isf THEN <<[n |-> ResultName, ty |-> q.ret]>> ELSE <<>>)
      size == IntC(slot, Len(shared))
      frame == call_runtime(size, "nm2_alloc", <<size.val>>)
      w == lower_protected_wrapper([PublishFrame(frame, frame.val, addrs, 1) EXCEPT !.frame = frame.val],
                                   q.body, name, frame.val, slot.val)
      p0 == NewFunction(P, i, <<Param("$state", ADDRESS, "value")>>, q.ret)
      st == Load(p0, p0.locals["$state"].reg, ADDRESS)
      p1 == ReadFrame(st, st.val, shared, 1)
      p == lower_stmts(IF isf THEN [p1 EXCEPT !.result = p1.locals[ResultName].reg] ELSE p1, q.body.stmts)
  IN  (q.name :> finish(w, q.ret)) @@ (name :> finish(p, NoType))

(* The parameters of a procedure, each open array with its HIGH, and its
   captures.                                                               *)
IrParams(ps) ==
  LET RECURSIVE from(_)
      from(i) == IF i > Len(ps) THEN <<>>
                 ELSE (IF ps[i].ty.k = "open" THEN <<ps[i], Param(HighName(ps[i].n), CARDINAL, "value")>>
                       ELSE <<ps[i]>>) \o from(i + 1)
  IN  from(1)
lower_decl_proc(P, i) ==
  LET q == P.procs[i]
      caps == compute_captures(P)[q.name]
      params == IrParams(q.params \o [k \in DOMAIN caps |-> Param(caps[k], CaptureType(P, q.name, caps[k]), "var")])
      L == pre_alloca_decl(NewFunction(P, i, params, q.ret), q.vars, DOMAIN q.vars)
  IN  IF q.body.has_except \/ q.body.has_finally THEN lower_protected_proc(P, i, params)
      ELSE q.name :> finish(lower_block(L, q.body), q.ret)

(* The FINALLY part of a module is another function, run at its end.       *)
lower_module_body(P) ==
  LET b == [P.body EXCEPT !.has_finally = FALSE, !.finally = <<>>]
      state == IF b.has_except THEN <<Param("$state", ADDRESS, "value")>> ELSE <<>>
      p == finish(lower_stmts(NewFunction(P, 0, state, NoType), b.stmts), NoType)
      nil == emit_nil(NewFunction(P, 0, <<>>, NoType))
      w == lower_protected_wrapper(nil, b, "body$protected", nil.val, 0)
  IN  IF b.has_except THEN ("body" :> finish(w, NoType)) @@ ("body$protected" :> p) ELSE "body" :> p

(* The functions of a module by name; of two of a name the last stays.     *)
RECURSIVE LowerProcs(_, _)
LowerProcs(P, i) == IF i > Len(P.procs) THEN lower_module_body(P)
                    ELSE LowerProcs(P, i + 1) @@ lower_decl_proc(P, i)
LowerModule(P) == LowerProcs(P, 1)
=============================================================================
