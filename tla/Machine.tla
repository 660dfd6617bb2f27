------------------------------ MODULE Machine ------------------------------
(***************************************************************************)
(* The lowered module at run time: what the LLVM code that                 *)
(* newm2-llvm/src/codegen.rs emits for each instruction does, and the part *)
(* of the runtime (exceptions.rs, rtti.rs, com.rs) it calls.               *)
(*                                                                         *)
(* Memory is a sequence of cells, each with the width it was laid out      *)
(* with; an address is the number of a cell and 0 is NIL.  A value is      *)
(* [w, v]: v unsigned, Undef for one that was never written (LLVM's undef  *)
(* and poison), and width 0 for an address.  A step that real hardware     *)
(* would answer with a crash or with silent damage ends the run:           *)
(*   "fault"    NIL, freed or foreign memory, or a branch on Undef         *)
(*   "corrupt"  memory accessed at another width than it has               *)
(*   "trap"     the llvm.trap of an unreachable terminator                 *)
(*   "panic"    nm2_reraise without an exception                           *)
(***************************************************************************)
EXTENDS Lower

CONSTANT MaxOut   \* numbers a program may write before it is not run any further

ASSUME MaxOutAssumption == MaxOut \in Nat

VARIABLES code,     \* the functions by name
          statics,  \* the addresses of the module's variables
          mem,      \* the cells
          heap,     \* what is allocated: address -> [size, class, refs]
          frames,   \* the activations, innermost last
          current,  \* CURRENT of exceptions.rs, NoException when None
          out,      \* what the program wrote
          status    \* "running", "done", "halted", "uncaught" or as above
machine == <<code, statics, mem, heap, frames, current, out, status>>

Undef == -1
Cell(w, v) == [w |-> w, v |-> v, live |-> TRUE]
Ptr(p)     == [w |-> 0, v |-> p]
Bits(w, n) == [w |-> w, v |-> n % 2^w]
Flag(b)    == [w |-> 1, v |-> IF b THEN 1 ELSE 0]
UndefOf(w) == [w |-> w, v |-> Undef]
Signed(a)  == IF a.w > 0 /\ a.v >= 2^(a.w - 1) THEN a.v - 2^a.w ELSE a.v

NoException == [source |-> Undef, number |-> 0]

(***************************************************************************)
(* Values.                                                                 *)
(***************************************************************************)
(* Zero-extended or truncated; an address stays as it is.                  *)
coerce_int(a, w) ==
  CASE 0 \in {a.w, w} -> a
    [] a.v = Undef    -> UndefOf(w)
    [] OTHER          -> Bits(w, a.v)

Wider(a, b) == IF a.w > b.w THEN a.w ELSE b.w
Comparisons == {"eq", "ne", "lt", "le", "gt", "ge", "ult", "ule", "ugt", "uge"}

emit_compare(op, a, b) ==
  Flag(CASE op = "eq"  -> a.v = b.v
         [] op = "ne"  -> a.v # b.v
         [] op = "ult" -> a.v < b.v
         [] op = "ule" -> a.v <= b.v
         [] op = "ugt" -> a.v > b.v
         [] op = "uge" -> a.v >= b.v
         [] op = "lt"  -> Signed(a) < Signed(b)
         [] op = "le"  -> Signed(a) <= Signed(b)
         [] op = "gt"  -> Signed(a) > Signed(b)
         [] op = "ge"  -> Signed(a) >= Signed(b))

(* sdiv, corrected by one where the signs differ and a rest is left.  The
   quotient of the least number by -1 is undefined.                        *)
emit_floored_div(a, b) ==
  LET x == Signed(a)  y == Signed(b)
      q == Quotient(x, y)
      adjust == x - q * y # 0 /\ (x < 0) # (y < 0)
  IN  IF q = 2^(a.w - 1) THEN UndefOf(a.w) ELSE Bits(a.w, IF adjust THEN q - 1 ELSE q)
emit_floored_mod(a, b) ==
  LET q == emit_floored_div(a, b)
  IN  IF q.v = Undef THEN q ELSE Bits(a.w, a.v - q.v * b.v)

Shift(op, a, n) ==
  CASE n >= a.w   -> UndefOf(a.w)
    [] op = "shl" -> Bits(a.w, a.v * 2^n)
    [] op = "shr" -> Bits(a.w, a.v \div 2^n)

(* The narrower operand is zero-extended.                                  *)
emit_binary(op, l, r) ==
  LET w == Wider(l, r)
      a == coerce_int(l, w)
      b == coerce_int(r, w)
      bit == Shift("shl", Bits(SetBits, 1), l.v)
  IN  CASE Undef \in {l.v, r.v} -> UndefOf(IF op \in Comparisons THEN 1 ELSE w)
        [] op \in Comparisons   -> emit_compare(op, a, b)
        [] op = "add"     -> Bits(w, a.v + b.v)
        [] op = "sub"     -> Bits(w, a.v - b.v)
        [] op = "mul"     -> Bits(w, a.v * b.v)
        [] op = "quot"    -> Bits(w, a.v \div b.v)
        [] op = "rem"     -> Bits(w, a.v % b.v)
        [] op = "srem"    -> Bits(w, Remainder(Signed(a), Signed(b)))
        [] op = "div"     -> emit_floored_div(a, b)
        [] op = "mod"     -> emit_floored_mod(a, b)
        [] op = "band"    -> Bits(w, Bitwise2("and", w, a.v, b.v))
        [] op = "bor"     -> Bits(w, Bitwise2("or", w, a.v, b.v))
        [] op = "bxor"    -> Bits(w, Bitwise2("xor", w, a.v, b.v))
        [] op = "bandnot" -> Bits(w, Bitwise2("and", w, a.v, 2^w - 1 - b.v))
        [] op \in {"shl", "shr"} -> Shift(op, a, b.v)
        [] op = "member"  -> IF bit.v = Undef THEN UndefOf(1)
                             ELSE Flag(Bitwise2("and", SetBits, bit.v, r.v) # 0)

emit_unary(op, a) ==
  CASE a.v = Undef -> a
    [] op = "neg"  -> Bits(a.w, -a.v)
    [] op = "not"  -> Bits(a.w, 2^a.w - 1 - a.v)
    [] op = "abs"  -> Bits(a.w, Magnitude(Signed(a)))

(* Addresses are not truncated when they become numbers.                   *)
emit_cast(kind, a, w) ==
  CASE kind = "ptrtoint" -> [a EXCEPT !.w = w]
    [] kind = "inttoptr" -> [a EXCEPT !.w = 0]
    [] kind = "sext" /\ a.v # Undef -> Bits(w, Signed(a))
    [] OTHER -> coerce_int(a, w)

(***************************************************************************)
(* The instruction that is next, and the ways it can end.                  *)
(***************************************************************************)
Top   == frames[Len(frames)]
Block1 == code[Top.fn].blocks[Top.blk]
Inst  == Block1.insts[Top.pc]
Arg(i) == Top.regs[Inst.a[i]]
AtInst(ops) == status = "running" /\ Top.pc <= Len(Block1.insts) /\ Inst.o \in ops
AtTerm(ts)  == status = "running" /\ Top.pc > Len(Block1.insts) /\ Block1.term.t \in ts

(* The frames with the value of the instruction in its register.           *)
Defined(v) ==
  [frames EXCEPT ![Len(frames)] =
     [@ EXCEPT !.pc = @ + 1,
               !.regs = IF Inst.dst = 0 THEN @ ELSE [@ EXCEPT ![Inst.dst] = v]]]
Define(v) == frames' = Defined(v)
Skip == Define(UndefOf(0))
End(s) == status' = s /\ UNCHANGED <<code, statics, mem, heap, frames, current, out>>

Accessible(p) == p \in DOMAIN mem /\ mem[p].live

(***************************************************************************)
(* Computing, and memory.                                                  *)
(***************************************************************************)
(* GEP takes an index narrower than an address for a signed number.        *)
Compute ==
  /\ AtInst({"const", "bin", "un", "cast", "global", "offset", "index"})
  /\ Define(CASE Inst.o = "const"  -> Inst.x
              [] Inst.o = "bin"    -> emit_binary(Inst.x, Arg(1), Arg(2))
              [] Inst.o = "un"     -> emit_unary(Inst.x, Arg(1))
              [] Inst.o = "cast"   -> emit_cast(Inst.x.kind, Arg(1), Inst.x.w)
              [] Inst.o = "global" -> Ptr(statics[Inst.x])
              [] Inst.o = "offset" -> Ptr(Arg(1).v + Inst.x)
              [] Inst.o = "index"  -> Ptr(Arg(1).v + Signed(Arg(2)) * Inst.x))
  /\ UNCHANGED <<code, statics, mem, heap, current, out, status>>

LoadCell ==
  /\ AtInst({"load"})
  /\ IF ~Accessible(Arg(1).v) THEN End("fault")
     ELSE IF mem[Arg(1).v].w # Inst.x THEN End("corrupt")
     ELSE /\ Define([w |-> Inst.x, v |-> mem[Arg(1).v].v])
          /\ UNCHANGED <<code, statics, mem, heap, current, out, status>>

(* The value takes the width of the slot it is stored to.                  *)
StoreCell ==
  /\ AtInst({"store"})
  /\ IF ~Accessible(Arg(1).v) THEN End("fault")
     ELSE IF mem[Arg(1).v].w # Inst.x \/ coerce_int(Arg(2), Inst.x).w # Inst.x THEN End("corrupt")
     ELSE /\ mem' = [mem EXCEPT ![Arg(1).v].v = coerce_int(Arg(2), Inst.x).v]
          /\ Skip
          /\ UNCHANGED <<code, statics, heap, current, out, status>>

(* The cells of a value of a type; memory of the runtime is cleared.       *)
Cells(t, v) == LET l == Layout(t) IN [i \in DOMAIN l |-> Cell(l[i], v)]
Allocated(size, class) == (Len(mem) + 1) :> [size |-> size, class |-> class, refs |-> 1]

New ==
  /\ AtInst({"new"})
  /\ mem' = mem \o Cells(Inst.x.ty, 0)
  /\ heap' = heap @@ Allocated(SizeOf(Inst.x.ty), Inst.x.class)
  /\ Define(Ptr(Len(mem) + 1))
  /\ UNCHANGED <<code, statics, current, out, status>>

Killed(m, from, size) ==
  [i \in DOMAIN m |-> IF i \in from .. (from + size) - 1 THEN [m[i] EXCEPT !.live = FALSE] ELSE m[i]]

Free ==
  /\ AtInst({"free"})
  /\ IF Arg(1).v \in DOMAIN heap
     THEN /\ mem' = Killed(mem, Arg(1).v, heap[Arg(1).v].size)
          /\ heap' = [p \in DOMAIN heap \ {Arg(1).v} |-> heap[p]]
          /\ Skip
          /\ UNCHANGED <<code, statics, current, out, status>>
     ELSE IF Arg(1).v = 0 THEN Skip /\ UNCHANGED <<code, statics, mem, heap, current, out, status>>
     ELSE End("fault")

(***************************************************************************)
(* Calls and returns.  At the entry of a function every alloca of it gets  *)
(* its cells, and the first of them the arguments.                         *)
(***************************************************************************)
Activation(fn, args, protected, base) ==
  LET f == code[fn]
      RECURSIVE lay(_, _, _)
      lay(i, cells, regs) ==
        IF i > Len(f.slots) THEN [cells |-> cells, regs |-> regs]
        ELSE lay(i + 1,
                 cells \o (IF i <= Len(f.widths)
                           THEN <<Cell(f.widths[i], coerce_int(args[i], f.widths[i]).v)>>
                           ELSE Cells(f.slots[i].ty, Undef)),
                 [regs EXCEPT ![f.slots[i].reg] = Ptr(base + Len(cells))])
      s == lay(1, <<>>, [r \in 1..f.nregs |-> UndefOf(0)])
  IN  [cells |-> s.cells,
       frame |-> [fn |-> fn, blk |-> 1, pc |-> 1, regs |-> s.regs, protected |-> protected,
                  base |-> base, size |-> Len(s.cells)]]

Enter(fn, args, protected) ==
  LET a == Activation(fn, args, protected, Len(mem) + 1)
  IN  /\ frames' = Append(frames, a.frame)
      /\ mem' = mem \o a.cells
      /\ UNCHANGED <<code, statics, heap, current, out, status>>

Args == [i \in DOMAIN Inst.a |-> Arg(i)]
CallFunction == AtInst({"call"}) /\ Inst.x \in DOMAIN code /\ Enter(Inst.x, Args, FALSE)
nm2_run_protected == AtInst({"protect"}) /\ Enter(Inst.x, Args, TRUE)

(* The caller is still at its call instruction.                            *)
ReturnTo(fs, v) ==
  LET n == Len(fs)
      f == fs[n]
      i == code[f.fn].blocks[f.blk].insts[f.pc]
  IN  [fs EXCEPT ![n] = [f EXCEPT !.pc = @ + 1,
                                  !.regs = IF i.dst = 0 THEN @ ELSE [@ EXCEPT ![i.dst] = v]]]

ReturnFrom ==
  /\ AtTerm({"return"})
  /\ LET r == Block1.term.v
         v == IF r = 0 THEN UndefOf(0) ELSE coerce_int(Top.regs[r], BitsOf(code[Top.fn].ret))
         callers == SubSeq(frames, 1, Len(frames) - 1)
     IN  /\ mem' = Killed(mem, Top.base, Top.size)
         /\ frames' = IF callers = <<>> THEN <<>>
                      ELSE ReturnTo(callers, IF Top.protected THEN Bits(Wide, 0) ELSE v)
         /\ status' = IF callers = <<>> THEN "done" ELSE status
  /\ UNCHANGED <<code, statics, heap, current, out>>

GoTo(b) ==
  /\ frames' = [frames EXCEPT ![Len(frames)] = [@ EXCEPT !.blk = b, !.pc = 1]]
  /\ UNCHANGED <<code, statics, mem, heap, current, out, status>>

Branch ==
  /\ AtTerm({"goto", "condbr", "switch"})
  /\ LET t == Block1.term
     IN  CASE t.t = "goto" -> GoTo(t.to)
           [] t.t = "condbr" ->
                IF Top.regs[t.c].v = Undef THEN End("fault")
                ELSE GoTo(IF Top.regs[t.c].v = 1 THEN t.yes ELSE t.no)
           [] t.t = "switch" ->
                LET v == Top.regs[t.v]
                    hit == {i \in DOMAIN t.arms : t.arms[i][1] % 2^v.w = v.v}
                IN  IF v.v = Undef THEN End("fault")
                    ELSE IF hit = {} THEN GoTo(t.other)
                    ELSE GoTo(t.arms[CHOOSE i \in hit : TRUE][3])

Trap == AtTerm({"unreachable"}) /\ End("trap")

(***************************************************************************)
(* The runtime.                                                            *)
(***************************************************************************)
Runtime(f) == AtInst({"call"}) /\ Inst.x = f

(* A panic unwinds to the innermost protected body.  The exception becomes
   CURRENT, and nm2_run_protected returns its source: its caller takes 0,
   which no allocated source has, for a normal return.                     *)
Unwind(e) ==
  LET catching == {i \in DOMAIN frames : frames[i].protected}
      k == CHOOSE i \in catching : \A j \in catching : j <= i
  IN  IF catching = {}
      THEN /\ status' = "uncaught" /\ current' = e
           /\ UNCHANGED <<code, statics, mem, heap, frames, out>>
      ELSE /\ frames' = ReturnTo(SubSeq(frames, 1, k - 1), [w |-> Wide, v |-> e.source])
           /\ mem' = [i \in DOMAIN mem |->
                        IF \E j \in k .. Len(frames) :
                             i \in frames[j].base .. (frames[j].base + frames[j].size) - 1
                        THEN [mem[i] EXCEPT !.live = FALSE] ELSE mem[i]]
           /\ current' = e
           /\ UNCHANGED <<code, statics, heap, out, status>>

nm2_raise         == Runtime("Raise") /\ Unwind([source |-> Arg(1).v, number |-> Arg(2).v])
nm2_raise_m2      == Runtime("nm2_raise_m2") /\ Unwind([source |-> M2_SOURCE, number |-> Arg(1).v])
nm2_raise_guard   == Runtime("nm2_raise_guard") /\ Unwind([source |-> GUARD_SOURCE, number |-> 0])
nm2_assert_failed == Runtime("nm2_assert_failed") /\ Unwind([source |-> ASSERT_SOURCE, number |-> 0])
nm2_reraise == /\ Runtime("nm2_reraise")
               /\ IF current = NoException THEN End("panic") ELSE Unwind(current)
nm2_exception_handled == /\ Runtime("nm2_exception_handled")
                         /\ current' = NoException /\ Skip
                         /\ UNCHANGED <<code, statics, mem, heap, out, status>>
nm2_is_exceptional_execution ==
  /\ Runtime("IsExceptional")
  /\ Define(Flag(current # NoException))
  /\ UNCHANGED <<code, statics, mem, heap, current, out, status>>

nm2_halt == Runtime("nm2_halt") /\ End("halted")

(* The exception frame: one cell for each shared variable's address.       *)
nm2_alloc ==
  /\ Runtime("nm2_alloc")
  /\ mem' = mem \o [i \in 1..Arg(1).v |-> Cell(0, 0)]
  /\ heap' = heap @@ Allocated(Arg(1).v, "frame")
  /\ Define(Ptr(Len(mem) + 1))
  /\ UNCHANGED <<code, statics, current, out, status>>

(* The parameter is an INTEGER: a narrower argument is zero-extended.      *)
WriteInt ==
  /\ Runtime("WriteInt") /\ Len(out) < MaxOut
  /\ IF Arg(1).v = Undef THEN End("fault")
     ELSE /\ out' = Append(out, Signed(coerce_int(Arg(1), Wide)))
          /\ Skip
          /\ UNCHANGED <<code, statics, mem, heap, current, status>>

(* A COM object with one reference, in the variable that is passed.        *)
Create ==
  /\ Runtime("Create")
  /\ mem' = Append([mem EXCEPT ![Arg(1).v].v = Len(mem) + 1], Cell(0, 0))
  /\ heap' = heap @@ Allocated(1, "COM")
  /\ Skip
  /\ UNCHANGED <<code, statics, current, out, status>>

(* nm2_typeinfo_of is NIL for NIL, and so is never an instance of a class. *)
Rtti(base) ==
  /\ AtInst({"typeinfo", "isa"})
  /\ IF Inst.o = "typeinfo" THEN Define(Arg(1))
     ELSE Define(Flag(Arg(1).v # 0 /\ class_is_subclass(base, heap[Arg(1).v].class, Inst.x)))
  /\ UNCHANGED <<code, statics, mem, heap, current, out, status>>

(* QueryInterface adds a reference and fills the slot only if the object
   has the interface; Release drops one.  The object keeps its creator's. *)
QueryInterface(supports) ==
  /\ AtInst({"qi"})
  /\ LET p == Arg(1).v
         has == p # 0 /\ Inst.x \in supports
     IN  /\ heap' = IF has THEN [heap EXCEPT ![p].refs = @ + 1] ELSE heap
         /\ mem' = IF has THEN [mem EXCEPT ![Arg(2).v].v = p] ELSE mem
         /\ Define(Flag(has))
  /\ UNCHANGED <<code, statics, current, out, status>>

Release ==
  /\ AtInst({"release"})
  /\ IF Arg(1).v # 0 /\ Arg(1).v \notin DOMAIN heap THEN End("fault")
     ELSE /\ heap' = IF Arg(1).v = 0 THEN heap ELSE [heap EXCEPT ![Arg(1).v].refs = @ - 1]
          /\ Skip
          /\ UNCHANGED <<code, statics, mem, current, out, status>>
=============================================================================
