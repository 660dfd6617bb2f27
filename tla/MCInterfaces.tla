---------------------------- MODULE MCInterfaces ----------------------------
(***************************************************************************)
(* Interfaces on two library modules, A and B, that may import each other, *)
(* and a program module C that imports both.                               *)
(***************************************************************************)
EXTENDS Interfaces

Mods == {"A", "B", "C"}

Part(imports, decls) == [imports |-> imports, decls |-> decls, none |-> FALSE]
Num(v)     == [k |-> "num", v |-> v]
Ref(q, d)  == [k |-> "ref", q |-> q, plus |-> d]
From(m, n) == [k |-> "from", m |-> m, n |-> n]
Plain(m)   == [k |-> "plain", m |-> m, as |-> m]
Const(n, e)  == [k |-> "const", n |-> n, e |-> e]
Type(n, te)  == [k |-> "type", n |-> n, te |-> te]
Var(n, te)   == [k |-> "var", n |-> n, te |-> te]
Proc(n, ps)  == [k |-> "proc", n |-> n, params |-> ps]
Named(q)     == [k |-> "named", q |-> q]
UpTo(e)      == [k |-> "subrange", hi |-> e]
Member(n)    == [n |-> n, explicit |-> FALSE]
MemberAt(n, e) == [n |-> n, explicit |-> TRUE, e |-> e]
Enum(ms)     == [k |-> "enum", members |-> ms]
Opaque       == [k |-> "opaque"]
Comp(k, ps)  == [k |-> k, parts |-> ps]
Whole        == Named(<<"INTEGER">>)

DefinitionOnly(imports, decls) == [impl |-> NoPart, def |-> Part(imports, decls)]
Split(i1, d1, i2, d2) == [impl |-> Part(i1, d1), def |-> Part(i2, d2)]
MainModule(imports, decls) == [impl |-> Part(imports, decls), def |-> NoPart]

(* Constants: each library module's constant x is a literal, comes from its
   own later constant y, or from the other module's constant z.            *)
ConstParts(x, y, v, other, z) ==
  {<<i, d>> : i \in {<<>>, <<Plain(other)>>, <<From(other, z)>>, <<From(other, "*")>>},
              d \in {<<Const(x, Num(1))>>,
                     <<Const(x, Ref(<<y>>, 1)), Const(y, Num(4))>>,
                     <<Const(x, Ref(<<other, z>>, 1))>>,
                     <<Const(x, Ref(<<z>>, 1)), Var(v, UpTo(Ref(<<x>>, 0)))>>}}

ConstPrograms ==
  {[A |-> a, B |-> DefinitionOnly(p[1], p[2]),
    C |-> MainModule(<<From("A", "a"), From("B", "*"), Plain("A")>>,
                     <<Const("c", Ref(<<"A", "a">>, 1)), Const("e", Ref(<<"b">>, 1))>>)] :
     a \in UNION {{DefinitionOnly(p[1], p[2]), Split(p[1], <<Const("l", Num(7))>>, <<>>, p[2])} :
                     p \in ConstParts("a", "s", "u", "B", "b")},
     p \in ConstParts("b", "t", "w", "A", "a")}

(* Types: a module's type x in all its forms, with z the other module's; the
   other module's has only the forms that refer to types, or an enumeration. *)
Simpler(x, v, p, q, other, z) ==
  {<<Type(x, Enum(<<Member(p), Member(q)>>))>>,
   <<Type(x, Named(<<other, z>>)), Var(v, Named(<<x>>))>>,
   <<Type(x, Named(<<z>>))>>,
   <<Type(x, Comp("pointer", <<Named(<<z>>)>>))>>}
Further(x, y, other, z) ==
  {<<Type(x, UpTo(Ref(<<y>>, 0))), Const(y, Num(4))>>,
   <<Type(x, Named(<<y>>)), Type(y, Comp("record", <<Named(<<x>>), Whole>>))>>,
   <<Type(x, Comp("array", <<UpTo(Num(2)), Named(<<other, z>>)>>))>>}
Importing(forms, other, z) ==
  {DefinitionOnly(i, d) : i \in {<<>>, <<Plain(other)>>, <<From(other, z)>>, <<From(other, "*")>>},
                          d \in forms}

TypePrograms ==
  {[A |-> a, B |-> b, C |-> MainModule(<<From("A", "S"), From("B", "*")>>,
                                       <<Type("R", Comp("record", <<Named(<<"S">>), Named(<<"T">>)>>)),
                                         Var("r", Named(<<"R">>))>>)] :
     a \in Importing(Simpler("S", "u", "p", "q", "B", "T") \cup Further("S", "U", "B", "T"), "B", "T"),
     b \in Importing(Simpler("T", "w", "i", "j", "A", "S"), "A", "S")}

(* One module, its declarations in every order.                            *)
Pool == {Const("k", Num(5)), Const("l", Ref(<<"k">>, 1)), Const("n", Ref(<<"l">>, 1)),
         Const("c", Ref(<<"q">>, 0)), Const("a", Ref(<<"i">>, 0)), Const("b", Ref(<<"i">>, 1)),
         Proc("i", <<Whole>>), Type("E", Enum(<<Member("p"), Member("q")>>)),
         Type("F", Enum(<<MemberAt("f", Ref(<<"k">>, 0)), Member("g")>>)),
         Type("X", Named(<<"Y">>)), Type("Y", Named(<<"Z">>)), Type("Z", UpTo(Ref(<<"n">>, 0))),
         Var("w", Named(<<"X">>)), Proc("h", <<Named(<<"E">>), UpTo(Ref(<<"k">>, 0))>>)}
Sequences3 == {s \in UNION {[1..k -> Pool] : k \in 1..3} : \A i, j \in DOMAIN s : s[i] = s[j] => i = j}

Between == DefinitionOnly(<<Plain("A")>>, <<>>)
OrderPrograms == {[A |-> DefinitionOnly(<<>>, s), B |-> Between,
                   C |-> MainModule(<<From("A", "*"), Plain("B")>>, <<>>)] : s \in Sequences3}

(* A definition and its implementation; the client names the procedure.    *)
Defs == {<<>>, <<Type("T", Opaque)>>, <<Type("T", Comp("pointer", <<Whole>>))>>, <<Const("k", Num(5))>>}
DefProcs == {<<>>, <<Proc("f", <<Named(<<"T">>)>>)>>, <<Proc("f", <<Whole>>)>>,
             <<Proc("f", <<UpTo(Num(3))>>)>>}
Impls == {<<>>, <<Type("T", Comp("pointer", <<Named(<<"R">>)>>)), Type("R", Comp("record", <<Whole, Named(<<"T">>)>>))>>,
          <<Const("m", Ref(<<"k">>, 1))>>, <<Const("k", Num(6)), Const("m", Ref(<<"k">>, 1))>>}
ImplProcs == {<<>>, <<Proc("f", <<Named(<<"T">>)>>)>>, <<Proc("f", <<UpTo(Num(3))>>)>>,
              <<Proc("f", <<Whole>>)>>, <<Proc("f", <<Whole, Whole>>)>>}

SplitPrograms ==
  {[A |-> Split(<<>>, i \o j, <<>>, d \o e), B |-> Between,
    C |-> MainModule(<<From("A", n), Plain("A"), Plain("B")>>, 
                    <<Var("r", Named(<<"A", "T">>))>>
                    \o (IF e = <<>> THEN <<>> ELSE <<Const("g", Ref(<<"A", "f">>, 0))>>))] :
     d \in Defs, e \in DefProcs, i \in Impls, j \in ImplProcs, n \in {"*", "T", "f"}}

Progs == ConstPrograms \cup TypePrograms \cup OrderPrograms \cup SplitPrograms

(* An implementation that uses a constant of its definition.               *)
Inherits == {[A |-> Split(<<>>, <<Const("last", Ref(<<"size">>, 1))>>, <<>>, <<Const("size", Num(16))>>),
              B |-> Between, C |-> MainModule(<<From("A", "size"), Plain("B")>>, <<>>)]}
(* Defined for every text (Any): a set of programs is slow to search.      *)
MCReading == LET r == Readings(Any) IN r
=============================================================================
