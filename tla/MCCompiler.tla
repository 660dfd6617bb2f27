---------------------------- MODULE MCCompiler ----------------------------
(***************************************************************************)
(* The modules the back end is checked on: every member of some families   *)
(* of small programs, one family for each part of the language.            *)
(***************************************************************************)
EXTENDS Compiler

V(n)    == Name(n)
Lit(n)  == IF n < 0 THEN Un("-", Num(-n)) ELSE Num(n)
Write(e) == Call("WriteInt", <<e>>)
W(n)    == Write(Num(n))
Inc(n)  == Call("INC", <<V(n)>>)
Arm(c, b)    == [cond |-> c, body |-> b]
When(c, b)   == If(<<Arm(c, b)>>)
Either(c, a, b) == IfElse(<<Arm(c, a)>>, b)
Of(n, b)     == [labels |-> <<<<Num(n), Num(n)>>>>, body |-> b]
OfRange(l, h, b) == [labels |-> <<<<l, h>>>>, body |-> b]
As(c, d, b)  == [class |-> c, den |-> d, body |-> b]
Main(vs, ss) == Program(vs, <<>>, Block(ss))
Ints(names)  == [n \in names |-> INTEGER]

Colour == Enum(<<"red", "green", "blue">>)
Small  == Subrange(INTEGER8, -2, 2)
Ends2(t) == LET b == ordinal_bounds(t) IN {b[1], b[2]} \cup ({-1, 1} \cap b[1] .. b[2])

(* The value of x in INTEGER, so that it can be written.                   *)
Shown(x, t) == IF t.k \in {"CARDINAL", "CARDINAL8", "CHAR", "BOOLEAN", "enum"} THEN CallOf("ORD", <<V(x)>>)
               ELSE Bin("+", V(x), Num(0))
(* A value of a type, as an expression.                                    *)
ValueOf(t, n) == CASE t = CHAR -> Chr(n)
                   [] t = BOOL -> V(IF n = 1 THEN "TRUE" ELSE "FALSE")
                   [] t.k = "enum" -> V(t.members[n + 1])
                   [] OTHER -> Lit(n)
WithColours(P) == [P EXCEPT !.consts = [i \in {"red", "green", "blue"} |->
                                          Member(Colour, CHOOSE n \in 0..2 : Colour.members[n + 1] = i)]]

(* a op b, for two variables at the ends of their ranges.                  *)
Whole == {INTEGER, CARDINAL, INTEGER8, CARDINAL8}
Operations ==
  {Main([a |-> lt, b |-> rt],
        <<Assign(V("a"), Lit(x)), Assign(V("b"), Lit(y)),
          IF op \in RelOps THEN Either(Bin(op, V("a"), V("b")), <<W(1)>>, <<W(0)>>)
          ELSE Write(Bin(op, V("a"), V("b")))>>) :
     lt \in Whole, rt \in Whole \cup {Small}, op \in {"+", "*", "DIV", "MOD", "REM", "BAND", "<", ">=", "="},
     x \in {-4, -1, 3, 7, 15, 31}, y \in {-2, 0, 1, 3, 31}}
InItsRange(P) == LET in(i) == const_int_of(Context(P, 0), P.body.stmts[i].e).n
                              \in ordinal_bounds(P.vars[P.body.stmts[i].d.base])[1]
                                  .. ordinal_bounds(P.vars[P.body.stmts[i].d.base])[2]
                 IN  in(1) /\ in(2)
OperatorPrograms == {P \in Operations : InItsRange(P)}

(* x := VAL(T, a).                                                         *)
Scalars == Whole \cup {CHAR, BOOL, Colour, Small}
ConversionPrograms ==
  {WithColours(Main([a |-> s, x |-> t],
     <<Assign(V("a"), ValueOf(s, n)), Assign(V("x"), CallOf("VAL", <<TypeName(t), V("a")>>)),
       Write(Shown("x", t))>>)) : <<s, n, t>> \in UNION {{s} \X Ends2(s) \X Scalars : s \in Scalars}}

(* Constants against the same expression at run time.                      *)
ConstantPrograms ==
  {[Main(Ints({"a", "b"}),
         <<Assign(V("a"), Lit(x)), Assign(V("b"), Lit(y)), Write(V("c")),
           Write(Bin(op, V("a"), V("b")))>>) EXCEPT !.consts = [c |-> Bin(op, Lit(x), Lit(y))]] :
     op \in {"+", "-", "*", "DIV", "MOD", "REM"}, x \in {-7, -3, 0, 3}, y \in {-2, -1, 2, 3}}

(* FOR over every kind of control variable.                                *)
ForProgram(t, a, z, by) ==
  WithColours(Program(NoVars,
    <<Proc("Q", 0, <<>>, NoType, [i |-> t],
           Block(<<For("i", ValueOf(t, a), ValueOf(t, z), Lit(by), <<Write(Shown("i", t))>>),
                   Write(Shown("i", t))>>))>>, Block(<<Call("Q", <<>>)>>)))
ForPrograms ==
  UNION {{ForProgram(t, a, z, by) : a \in Ends2(t), z \in Ends2(t), by \in {-3, -1, 1, 2, 7}} :
           t \in Scalars}

(***************************************************************************)
(* Control flow: two nested constructs around one statement, in a procedure *)
(* Q that traces what it does.                                             *)
(***************************************************************************)
Construct(k, v, b) ==
  CASE k = "if"     -> When(Bin("<", V(v), Num(2)), b)
    [] k = "else"   -> IfElse(<<Arm(Bin("=", V(v), Num(9)), <<W(4)>>), Arm(Bin("#", V(v), Num(0)), <<W(5)>>)>>, b)
    [] k = "while"  -> While(Bin("<", V(v), Num(2)), <<Inc(v)>> \o b)
    [] k = "repeat" -> Repeat(<<Inc(v)>> \o b, Bin(">=", V(v), Num(2)))
    [] k = "loop"   -> Loop(<<When(Bin("=", V(v), Num(2)), <<Exit>>), Inc(v)>> \o b)
    [] k = "for"    -> For(v, Num(0), Num(1), Num(1), b)
    [] k = "case"   -> CaseElse(V(v), <<Of(1, <<W(6)>>), OfRange(Num(3), Num(5), <<W(7)>>)>>, b)
    [] k = "arm"    -> Case(V(v), <<OfRange(Num(0), Num(1), b), Of(2, <<W(8)>>)>>)
    [] k = "block"  -> BlockStmt(Block(b))
Constructs == {"if", "else", "while", "repeat", "loop", "for", "case", "arm", "block"}
Raise(n) == Call("Raise", <<Num(1), Num(n)>>)
Leaves == {<<W(1)>>, <<Exit>>, <<Return>>, <<Raise(3)>>, <<Call("HALT", <<>>)>>,
           <<When(Bin("=", V("i"), Num(1)), <<Exit>>), W(1)>>}
Start == <<Assign(V("i"), Num(0)), Assign(V("j"), Num(0))>>
FlowPrograms ==
  {Program(NoVars,
     <<Proc("Q", 0, <<>>, NoType, Ints({"i", "j"}),
            Block(Start \o <<Construct(k1, "i", <<W(2), Construct(k2, "j", leaf), W(3)>>), W(9)>>))>>,
     Block(<<Call("Q", <<>>), W(10)>>)) : k1 \in Constructs, k2 \in Constructs, leaf \in Leaves}

(* A function whose only RETURN is inside two constructs.                  *)
FunctionPrograms ==
  {Program(Ints({"x"}),
     <<Proc("F", 0, <<>>, INTEGER, Ints({"i", "j"}),
            Block(Start \o <<Construct(k1, "i", <<Construct(k2, "j", leaf)>>)>> \o end))>>,
     Block(<<Assign(V("x"), CallOf("F", <<>>)), Write(V("x"))>>)) :
     k1 \in Constructs, k2 \in Constructs,
     leaf \in {<<ReturnOf(Num(7))>>, <<Either(Bin("=", V("i"), Num(0)), <<ReturnOf(V("j"))>>, <<Raise(1)>>)>>,
               <<When(Bin("=", V("i"), Num(3)), <<ReturnOf(V("j"))>>)>>},
     end \in {<<>>, <<ReturnOf(Num(8))>>}}

(* CASE: labels that touch, overlap or are left out.                       *)
CasePrograms ==
  {WithColours(Main([c |-> t],
     <<Assign(V("c"), ValueOf(t, n)),
       IF other THEN CaseElse(V("c"), arms, <<W(0)>>) ELSE Case(V("c"), arms)>>)) :
     t \in {INTEGER, CARDINAL, INTEGER8, CHAR}, n \in {0, 1, 2, 3}, other \in BOOLEAN,
     arms \in {<<Of(0, <<W(1)>>), OfRange(Num(1), Num(2), <<W(2)>>)>>,
               <<Of(1, <<W(1)>>), OfRange(Num(0), Num(2), <<W(2)>>)>>,
               <<OfRange(Num(2), Num(3), <<W(1)>>), OfRange(Bin("-", Num(1), Num(1)), Num(1), <<W(2)>>)>>}}

(***************************************************************************)
(* Exceptions: what is raised, what the handler does, FINALLY or not, in a *)
(* procedure, a function or the body of the module.                        *)
(***************************************************************************)
Arr  == ArrayOf(Subrange(INTEGER, 1, 3), INTEGER)
Node == RecordOf(<<[f |-> "n", ty |-> INTEGER8], [f |-> "next", ty |-> ADDRESS]>>)
Classes == [A |-> "", B |-> "A", C |-> "B"]
At(a, e) == Des(a, <<Index(e)>>)

Risky == {<<W(1)>>, <<Raise(2), W(1)>>, <<Call("R", <<>>), W(1)>>, <<Call("HALT", <<>>)>>,
          <<Call("Raise", <<V("never"), Num(2)>>), W(1)>>,   \* a source that was never allocated
          <<Assign(At("t", V("x")), Num(1))>>, <<Write(Bin("DIV", Num(1), V("z")))>>,
          <<Write(Des("p", <<Deref, Field("n")>>))>>, <<Call("ASSERT", <<Bin("=", V("x"), Num(4))>>)>>,
          <<Case(V("x"), <<Of(1, <<W(1)>>)>>)>>, <<Guard(V("c"), <<As("B", "", <<W(1)>>)>>)>>}
TryAgain == <<When(Bin("<", V("y"), Num(2)), <<Inc("y"), Retry>>), W(9)>>
Handlers(where) ==
  {<<W(8)>>, <<Raise(5)>>, <<Call("R", <<>>)>>, IF where = "module" THEN <<W(9)>> ELSE TryAgain,
   <<Either(CallOf("IsExceptional", <<>>), <<W(10)>>, <<W(11)>>)>>,
   <<IF where = "function" THEN ReturnOf(Num(3)) ELSE Return>>,
   <<Call("T", <<>>), Either(CallOf("IsExceptional", <<>>), <<W(10)>>, <<W(11)>>)>>}
Guarded == [t |-> Arr, p |-> PointerTo(Node), c |-> Class("A"), x |-> INTEGER, z |-> INTEGER]
(* y counts the retries: the second or the third attempt may succeed.      *)
Begin == <<Assign(V("x"), Bin("-", Num(5), V("y"))), Assign(V("z"), V("y")), Assign(V("p"), Nil), Assign(V("c"), Nil)>>
RaiserProc  == Proc("R", 0, <<>>, NoType, NoVars, Block(<<Call("Raise", <<Num(2), Num(4)>>)>>))
HandlerProc == Proc("T", 0, <<>>, NoType, NoVars, Except(<<Raise(6)>>, <<W(15)>>))
AfterQ == <<Either(CallOf("IsExceptional", <<>>), <<W(14)>>, <<W(13)>>)>>
QBody(b, h, fin) == LET e == IF h = <<>> THEN Block(b) ELSE Except(b, h)
                    IN  IF fin = <<>> THEN e ELSE Finally(e, <<Write(V("x"))>> \o fin)
ExceptionProgram(where, b, h, fin) ==
  [Program((IF where = "module" THEN Guarded @@ Ints({"y"}) ELSE Ints({"y", "w"})) @@ [never |-> CARDINAL],
      <<RaiserProc, HandlerProc>> \o (IF where = "module" THEN <<>>
         ELSE <<Proc("Q", 0, <<>>, IF where = "function" THEN INTEGER ELSE NoType, Guarded,
                     QBody(Begin \o b \o (IF where = "function" THEN <<ReturnOf(V("x"))>> ELSE <<>>), h, fin))>>),
      CASE where = "module"    -> QBody(<<Assign(V("y"), Num(0))>> \o Begin \o b, h, fin)
        [] where = "procedure" -> Except(<<Assign(V("y"), Num(0)), Call("Q", <<>>)>> \o AfterQ, AfterQ)
        [] where = "function"  -> Except(<<Assign(V("y"), Num(0)), Assign(V("w"), CallOf("Q", <<>>)), Write(V("w"))>> \o AfterQ, AfterQ))
   EXCEPT !.base = Classes]
ExceptionPrograms(where) ==
  {ExceptionProgram(where, b, h, fin) :
     b \in Risky, h \in Handlers(where) \cup {<<>>}, fin \in {<<>>, <<W(12)>>, <<Raise(7)>>, <<Call("T", <<>>)>>}}

(***************************************************************************)
(* Nested procedures, parameters and recursion.  Inner is called by Mid    *)
(* and uses what Outer declares, in a body that may be protected.          *)
(***************************************************************************)
Uses == {<<Inc("v")>>, <<Assign(V("v"), Bin("+", V("v"), V("a")))>>,
         <<Assign(At("o", Num(1)), V("v")), Write(CallOf("HIGH", <<V("o")>>))>>,
         <<Call("Set", <<V("v")>>)>>, <<While(Bin("<", V("v"), Num(3)), <<Inc("v"), Write(V("v"))>>)>>}
MaybeProtected(k, b) == IF k THEN Except(b \o <<Raise(1)>>, <<W(7)>>) ELSE Block(b)
NestedPrograms ==
  {Program([g |-> ArrayOf(Subrange(INTEGER, 0, 1), INTEGER)],
     <<Proc("Set", 0, <<Param("r", INTEGER, "var")>>, NoType, NoVars, Block(<<Assign(V("r"), Num(9))>>)),
       Proc("Outer", 0, <<Param("a", INTEGER, m), Param("o", OpenArray(INTEGER), "var")>>, NoType, Ints({"v"}),
            MaybeProtected(k1, <<Assign(V("v"), Num(1)), Call("Mid", <<>>), Write(V("v"))>>)),
       Proc("Mid", 2, <<>>, NoType, NoVars, Block(<<Call("Inner", <<>>), W(2)>>)),
       Proc("Inner", 2, <<>>, NoType, NoVars, MaybeProtected(k2, use))>>,
     Block(<<Assign(At("g", Num(0)), Num(3)), Assign(At("g", Num(1)), Num(4)),
             Call("Outer", <<At("g", Num(0)), V("g")>>), Write(At("g", Num(0))), Write(At("g", Num(1)))>>)) :
     m \in {"value", "var"}, k1 \in BOOLEAN, k2 \in BOOLEAN, use \in Uses}
  \cup
  {Program(Ints({"y"}),
     <<Proc("Fac", 0, <<Param("n", t, "value")>>, INTEGER, NoVars,
            Block(<<Either(Bin("<=", V("n"), Num(1)), <<ReturnOf(Num(1))>>,
                           <<ReturnOf(Bin("*", CallOf("Fac", <<Bin("-", V("n"), Num(1))>>), V("n")))>>)>>))>>,
     Block(<<Assign(V("y"), CallOf("Fac", <<Num(n)>>)), Write(V("y"))>>)) : t \in Whole, n \in {0, 1, 3}}

(* Pointers, records, arrays and WITH.                                     *)
List(n) == Des("p", <<Deref, Field("n")>>)
IndexedBy(ix) == Main([t |-> ArrayOf(ix, INTEGER), s |-> INTEGER, i |-> ix],
        <<Assign(V("s"), Num(1)), Assign(V("i"), ValueOf(ix, ordinal_bounds(ix)[2])),
          Assign(At("t", V("i")), Num(6)), Write(V("s")), Write(At("t", V("i")))>>)
MemoryPrograms ==
  {Program([p |-> PointerTo(Node), q |-> PointerTo(Node), r |-> Node, t |-> ArrayOf(Subrange(INTEGER8, -1, 1), Node),
            i |-> INTEGER8, x |-> INTEGER], <<>>, Block(b)) :
     b \in {<<Call("NEW", <<V("p")>>), Assign(List(1), Num(3)), Assign(V("q"), V("p")),
              Write(Bin("+", Des("q", <<Deref, Field("n")>>), Num(0))), Call("DISPOSE", <<V("q")>>),
              Either(Bin("=", V("q"), Nil), <<W(1)>>, <<W(2)>>)>>,
            <<Call("NEW", <<V("p")>>), With(Des("p", <<Deref>>), <<Assign(V("n"), Num(2)), Inc("n"),
              Write(Bin("+", V("n"), Num(0)))>>), Call("DISPOSE", <<V("p")>>), Write(List(1))>>,
            <<Call("NEW", <<V("p")>>), With(V("p"), <<Assign(V("n"), Num(2)), Assign(V("next"), V("p"))>>),
              Assign(V("q"), Des("p", <<Deref, Field("next")>>)), Either(Bin("#", V("p"), V("q")), <<W(1)>>, <<W(2)>>)>>,
            <<With(V("r"), <<Assign(V("n"), Num(1)), With(At("t", Num(0)), <<Assign(V("n"), Num(2))>>), Inc("n")>>),
              Write(Bin("+", Des("r", <<Field("n")>>), Num(0))),
              Write(Bin("+", Des("t", <<Index(Num(0)), Field("n")>>), Num(0)))>>,
            <<Assign(V("i"), Lit(-1)), Assign(Des("t", <<Index(Lit(-1)), Field("n")>>), Num(2)),
              Assign(Des("t", <<Index(Num(1)), Field("n")>>), Num(3)), Assign(V("x"), Num(1)),
              Write(Bin("+", Des("t", <<Index(Un("-", V("x"))), Field("n")>>), Num(0))),
              Write(Bin("+", Des("t", <<Index(V("x")), Field("n")>>), Num(0))), Inc("x"),
              Write(Des("t", <<Index(V("x")), Field("n")>>))>>,
            <<Assign(V("p"), Nil), With(V("p"), <<Assign(V("n"), Num(1))>>)>>,
            <<Call("NEW", <<V("p")>>), Call("DISPOSE", <<V("p")>>), Call("DISPOSE", <<V("p")>>), W(1)>>}}
  \cup
  {IndexedBy(ix) : ix \in {BOOL, CARDINAL8, INTEGER8, CHAR, Subrange(INTEGER, -1, 2)}}

(* GUARD: objects of three classes, and an interface asked for others.     *)
GuardArms == {<<As("C", "d", <<W(3)>>), As("B", "d", <<W(2)>>), As("A", "", <<W(1)>>)>>,
              <<As("A", "d", <<GuardElse(V("d"), <<As("C", "d", <<W(3)>>)>>, <<W(4)>>), W(1)>>), As("C", "", <<W(5)>>)>>,
              <<As("C", "d", <<W(3)>>)>>}
GuardPrograms ==
  {[Main([a |-> Class("A"), b |-> Class("B"), c |-> Class("C")],
         make \o <<IF other THEN GuardElse(V("a"), arms, <<W(0)>>) ELSE Guard(V("a"), arms)>>)
      EXCEPT !.base = Classes] :
     make \in {<<Call("NEW", <<V("a")>>)>>, <<Call("NEW", <<V("b")>>), Assign(V("a"), V("b"))>>,
               <<Call("NEW", <<V("c")>>), Assign(V("a"), V("c"))>>, <<Assign(V("a"), Nil)>>},
     arms \in GuardArms, other \in BOOLEAN}

InterfaceArms ==
  {<<W(1)>>, <<Exit>>, <<Loop(<<W(1), Exit>>)>>, <<Return>>, <<Retry>>, <<Raise(1)>>, <<Call("R", <<>>)>>,
   <<When(V("TRUE"), <<Exit>>)>>, <<GuardElse(V("d"), <<As("J", "e", <<Raise(1)>>)>>, <<W(8)>>)>>}
InterfacePrograms ==
  {[Program([u |-> Class("I")],
      <<RaiserProc, Proc("Q", 0, <<>>, NoType, NoVars,
             Block(<<Loop(<<GuardElse(V("u"), <<As("J", "", <<W(7)>>), As("K", "d", b)>>, <<W(0)>>), Exit>>)>>))>>,
      Except(<<Call("Create", <<V("u")>>), Call("Q", <<>>), W(2)>>, <<W(3)>>))
      EXCEPT !.base = [i \in {"I", "J", "K"} |-> ""], !.ifaces = {"I", "J", "K"}, !.supports = has] :
     b \in InterfaceArms, has \in SUBSET {"J", "K"}}

(* Sets.                                                                   *)
SetPrograms ==
  {Main([a |-> BITSET, b |-> BITSET, i |-> INTEGER],
     <<Assign(V("i"), Num(n)), Assign(V("a"), SetOfExpr(BITSET, <<<<Num(0), V("i")>>, <<Num(5), Num(5)>>>>)),
       Assign(V("b"), SetOfExpr(BITSET, <<<<V("i"), V("i")>>>>)), Call("INCL", <<V("b"), Num(1)>>),
       Call("EXCL", <<V("a"), V("i")>>), Assign(V("a"), Bin(op, V("a"), V("b"))),
       Either(Bin("IN", V("i"), V("a")), <<W(1)>>, <<W(0)>>), Either(Bin("IN", Num(1), V("a")), <<W(1)>>, <<W(0)>>),
       Either(Bin(rel, V("a"), V("b")), <<W(1)>>, <<W(0)>>)>>) :
     op \in {"+", "-", "*", "/"}, rel \in {"=", "#", "<="}, n \in {0, 2, 5}}

(***************************************************************************)
(* Every use of a value of every kind, right or wrong.                     *)
(***************************************************************************)
Kinds5 == [i |-> INTEGER, b |-> BOOL, c |-> CHAR, s |-> BITSET, p |-> PointerTo(Node)]
Given == <<Assign(V("i"), Num(2)), Assign(V("b"), V("TRUE")), Assign(V("c"), Chr(1)),
           Assign(V("s"), SetOfExpr(BITSET, <<<<Num(1), Num(2)>>>>)), Assign(V("p"), Nil)>>
Asked(e) == Either(e, <<W(1)>>, <<W(0)>>)
F(t, e) == Proc("F", 0, <<Param("x", t, "value")>>, t, NoVars, Block(<<ReturnOf(e)>>))
KindUses(x, y) ==
  {<<Asked(Bin(op, V(x), V(y)))>> : op \in {"=", "<", "IN", "AND"}}
    \cup {<<Assign(V(x), Bin(op, V(x), V(y)))>> : op \in {"+", "DIV", "BAND"}}
    \cup {<<Assign(V(x), V(y)), W(1)>>, <<Asked(Bin("=", Bin("-", V(x), V(y)), V(x)))>>}
KindUses1(x) ==
  {<<When(V(x), <<W(1)>>)>>, <<While(V(x), <<Exit>>)>>, <<Repeat(<<W(1)>>, V(x))>>, <<Asked(Un("NOT", V(x)))>>,
   <<Assign(V(x), Un("-", V(x)))>>, <<Write(V(x))>>, <<Write(At("t", V(x)))>>,
   <<For("j", V(x), Num(3), Num(1), <<W(1)>>)>>, <<For("i", Num(1), V(x), Num(1), <<W(1)>>)>>, <<CaseElse(V(x), <<Of(2, <<W(1)>>)>>, <<W(2)>>)>>,
   <<Call("Raise", <<Num(1), V(x)>>)>>}
UsePrograms ==
  {Program(Kinds5 @@ [t |-> Arr, j |-> INTEGER], <<>>, Block(Given \o <<Assign(At("t", Num(1)), Num(7)), Assign(At("t", Num(2)), Num(7))>> \o u)) :
     u \in UNION {KindUses(x, y) : x \in DOMAIN Kinds5, y \in DOMAIN Kinds5} \cup UNION {KindUses1(x) : x \in DOMAIN Kinds5}}
PassPrograms ==
  {Program(Kinds5, <<F(Kinds5[x], V(r))>>, Block(Given \o <<Assign(V(z), CallOf("F", <<V(y)>>)), W(1)>>)) :
     x \in DOMAIN Kinds5, y \in DOMAIN Kinds5, z \in DOMAIN Kinds5, r \in {"x", "i", "b"}}

(* The families; a union of them would be slow to build.                   *)
AllPrograms ==
  {OperatorPrograms, ConversionPrograms, ConstantPrograms, ForPrograms, FlowPrograms, FunctionPrograms,
   CasePrograms, NestedPrograms, MemoryPrograms, GuardPrograms, InterfacePrograms, SetPrograms,
   UsePrograms, PassPrograms} \cup {ExceptionPrograms(where) : where \in {"module", "procedure", "function"}}

MCPass == LET p == Passes IN p
=============================================================================
