----------------------------- MODULE MCFrontEnd -----------------------------
(* Small modules that between them use every rule of the parser.           *)
EXTENDS FrontEnd

MCIdents == {"A", "B", "X", "Other"}
MCInts == {"0", "1", "2", "7", "11"}
MCStrings == {"STR", "CHR"}
Reserved == {"MODULE", "DEFINITION", "IMPLEMENTATION", "BEGIN", "END", "CONST", "TYPE", "VAR", "PROCEDURE",
    "FROM", "IMPORT", "EXPORT", "QUALIFIED", "IF", "THEN", "ELSIF", "ELSE", "CASE", "OF", "WHILE", "DO",
    "REPEAT", "UNTIL", "FOR", "TO", "BY", "LOOP", "EXIT", "WITH", "RETURN", "RETRY", "EXCEPT", "FINALLY",
    "ARRAY", "RECORD", "POINTER", "SET", "PACKEDSET", "NOT", "AND", "OR", "DIV", "MOD", "IN", "FORWARD",
    "ABSTRACT", "ASM"}
MCAlphabetic == MCIdents \cup {"H", "C"} \cup Reserved \cup SoftKeywords
MCKeywords == {<<w>> : w \in Reserved}
MCEnv == "A" :> <<"TRUE">> @@ "V" :> <<"1">>

-----------------------------------------------------------------------------
N1(n, a) == Tree(n, <<a>>)
N2(n, a, b) == Tree(n, <<a, b>>)
N3(n, a, b, c) == Tree(n, <<a, b, c>>)
a0 == Leaf("A")
b0 == Leaf("B")
x0 == Leaf("X")
one == Leaf("1")
va == N1("desig", a0)
vb == N1("desig", b0)
qa == N1("qual", a0)
ta == N1("named", qa)
Seqn(ss) == Tree("seq", ss)
Set(e) == N2("assign", va, e)
Do == Seqn(<<Set(one)>>)
Body1(ss) == Tree("program", <<a0, Seqn(ss)>>)
Prog(decls) == Tree("program", <<a0>> \o decls)

E0 == {va, Leaf("11")}
E1 == {va, N1("neg", va), N1("NOT", va)} \cup {N2(op, va, Leaf("11")) : op \in {"=", "-", "*"}}
E2 == {N2(op, l, r) : op \in {"=", "OR", "AND"}, l \in E1, r \in E1}
      \cup {N2(op, l, r) : op \in {"<=", "-", "DIV"}, l \in E1, r \in E0}
      \cup {N1(op, e) : op \in {"neg", "NOT"}, e \in E1}

Exprs == E2 \cup {
    Leaf("STR"), Leaf("CHR"), Tree("set", << >>), Tree("set", <<one, N2("range", one, va)>>),
    N2("typedset", N2("qual", a0, b0), N2("range", one, Leaf("7"))),
    Tree("call", <<va>>), Tree("call", <<N2("desig", a0, N1("select", b0)), one, N1("neg", va)>>),
    Tree("desig", <<a0, N2("index", va, one), Leaf("deref"), N1("select", b0)>>)}

Stmts == {
    Tree("if", <<va, Do, vb, Seqn(<< >>), N1("else", Do)>>), Tree("if", <<va, Do>>),
    Tree("case", <<va, N2("arm", N1("labels", one), Do),
                   N2("arm", N2("labels", N2("range", one, Leaf("7")), va), Seqn(<< >>)), N1("else", Do)>>),
    Tree("case", <<va, N2("arm", N1("labels", one), Do)>>),
    N2("while", N2("=", va, one), Seqn(<<Set(one), Leaf("exit")>>)), N2("repeat", Do, va),
    Tree("for", <<a0, one, va, N1("by", N1("neg", one)), Do>>), Tree("for", <<a0, one, va, Do>>),
    N1("loop", Seqn(<<Leaf("exit")>>)), N2("with", va, Do), Leaf("return"), N1("return", va), Leaf("retry"),
    N3("guard", va, N3("arm", b0, qa, Do), N1("else", Do)), N2("guard", va, N2("arm", qa, Do)),
    N2("assign", N1("desig", Leaf("GUARD")), one), Tree("call", <<va, one, vb>>)}

Types == {
    ta, N1("open", ta), N3("array", N2("subrange", one, N1("neg", va)), ta, ta),
    Tree("record", <<N2("member", N2("names", a0, b0), ta), N2("member", N1("names", x0), N1("pointer", ta)),
        Tree("variant", <<N2("tag", a0, qa),
            N3("variant_arm", N2("labels", one, N2("range", one, Leaf("2"))), N2("member", N1("names", a0), ta),
               N2("variant", N1("tag", qa), N2("variant_arm", N1("labels", one), N2("member", N1("names", b0), ta)))),
            N1("variant_else", N2("member", N1("names", x0), ta))>>)>>),
    N3("proctype", N2("param", Leaf("VAR"), ta), N2("param", Leaf("byvalue"), N1("open", ta)), N1("returns", ta)),
    N1("setof", ta), N1("packedset", N2("enum", a0, N2("valued", b0, one)))}

Params1 == N2("params", N3("param", Leaf("VAR"), N2("names", a0, b0), N1("open", ta)),
                        N3("param", Leaf("byvalue"), N1("names", x0), ta))
NoParams == Leaf("params")
Handled == <<Do, N2("handler", N2("names", qa, N2("qual", a0, b0)), Do), N2("handler", N1("names", qa), Do),
             N1("finally", Seqn(<<Leaf("retry")>>))>>
CatchAll == <<Do, N1("handler", Do)>>
Method(body) == Tree("method", <<a0, Params1, N1("returns", ta)>> \o body)

Modules == {
    Prog(<<N2("from", b0, a0), Tree("from", <<b0>>), N2("import", N2("alias", a0, b0), x0),
           N2("const", a0, N2("-", one, va)), N1("type", b0), N2("var", N2("names", a0, b0), ta),
           N3("var", N1("names", x0), N1("at", one), ta), N1("export", a0)>>),
    Prog(<<Tree("proc", <<a0, Params1, N1("returns", ta), N1("body", Do)>>), N3("proc", a0, NoParams, Leaf("forward")),
           N3("proc", b0, NoParams, Tree("body", <<N2("const", a0, one), N3("proc", a0, NoParams, Tree("body", CatchAll))>> \o Handled))>>),
    Tree("def", <<a0, Tree("proc", <<a0, N1("linkage", Leaf("STR")), Params1, N1("attrs", x0)>>), N1("type", b0),
           N3("CLASS", a0, N1("inherit", N2("qual", a0, b0)), Method(<< >>))>>),
    Tree("impl", <<a0, N1("prio", one), N2("local", b0, N2("var", N1("names", a0), ta))>> \o Handled),
    Prog(<<N2("CLASS", b0, Leaf("forward")),
           Tree("CLASS", <<a0, Leaf("STR"), N1("inherit", qa), N2("implements", qa, N2("qual", b0, x0)),
                           N2("reveal", a0, b0), N1("OVERRIDE", Method(<<N1("body", Do)>>)), N1("ABSTRACT", Method(<< >>)),
                           N2("var", N1("names", x0), ta), Method(<<N1("body", Do)>>)>>),
           Tree("INTERFACE", <<b0, Leaf("STR"), Method(<< >>)>>)>>)}

Editable == {Body1(<<s, Set(one)>>) : s \in Stmts} \cup {Prog(<<N2("type", b0, ty)>>) : ty \in Types}
            \cup Modules

\* Conditions and the choices made with them.
Names2 == {Leaf("A"), Leaf("B")}
Conds1 == Names2 \cup {N1("%NOT", Leaf("B")), N2("=", Leaf("V"), one), N2("#", Leaf("B"), one)}
Conds2 == Conds1 \cup {N2(op, N2(op2, l, Leaf("A")), r) : op \in {"%AND", "%OR"}, op2 \in {"%AND", "%OR"}, l \in Names2, r \in Conds1}
Small == {Module(Body1(<<Set(N1("NOT", va))>>), "tight"), Module(Body1(<< >>), "commented")}
m1 == Module(Body1(<<Set(one)>>), "tight")
m2 == Module(Body1(<<Leaf("exit")>>), "commented")
m3 == Module(Body1(<<Leaf("retry"), Set(Leaf("STR"))>>), "lines")
Arm(c, s) == [cond |-> c, s |-> s]
Nested == {Choice(<<Arm(c, m1)>>, m2) : c \in Conds1} \cup {Version("B", Choice(<<Arm(Leaf("B"), m2)>>, m3))}
Chosen == {Choice(<<Arm(c, m1)>>, m2) : c \in Conds2}
          \cup {Choice(<<Arm(c, s), Arm(d, m3)>>, m2) : c \in Conds1, d \in Conds1, s \in Nested}
          \cup {Choice(<<Arm(c, m1), Arm(d, s)>>, Version("A", s)) : c \in Conds1, d \in {Leaf("A"), Leaf("B")}, s \in Nested}

MCEdited == {Module(m, "spaced") : m \in Editable}
MCSources ==
    {Module(Body1(<<Set(e)>>), "tight") : e \in Exprs}
    \cup {Module(m, "tight") : m \in Editable}
    \cup {Module(Body1(<<s, Set(one)>>), layout) : s \in Stmts, layout \in {"lines", "commented"}}
    \cup MCEdited \cup Chosen
MCEditUnits == {"B", ";", "(", "END"}
MCPass == LET p == Passes(Seq(STRING)) IN p
=============================================================================
