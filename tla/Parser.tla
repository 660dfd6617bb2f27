------------------------------- MODULE Parser -------------------------------
(***************************************************************************)
(* The recursive-descent parser, src/src/newm2-parser/src/parser.rs.       *)
(*                                                                         *)
(* Every parse_x of the code is a constant of the same name that says what *)
(* it does in the vocabulary the code itself uses: expect a token, look at *)
(* the next one or two and decide, loop while the next token says so.      *)
(* Interpret runs it.  There is no backtracking but the one in             *)
(* finish_block, and the first error is fatal.                             *)
(*                                                                         *)
(* A token is its spelling.  Kind gives the class of those that are not    *)
(* reserved words or punctuation; a soft keyword is an identifier.  A tree *)
(* is a name and a sequence of trees; spans and pragmas are left out.      *)
(***************************************************************************)
EXTENDS Integers, Sequences

CONSTANTS Idents, Ints, Strings    \* spellings of the tokens with a value

SoftKeywords == {"CLASS", "INTERFACE", "OVERRIDE", "INHERIT", "IMPLEMENTS", "REVEAL", "READONLY",
                 "GUARD", "AS", "FUNC", "ASSERT", "OUT", "INOUT", "VALUE", "BIG", "BITFIELDS",
                 "MACRO", "EXTERNAL", "UNSAFEGUARDED", "__BUILTIN__"}

Kind(tok) ==
    IF tok \in Idents \/ tok \in SoftKeywords THEN "IDENT"
    ELSE IF tok \in Ints THEN "INT" ELSE IF tok \in Strings THEN "STRING" ELSE tok

Tree(name, kids) == [n |-> name, c |-> kids]
Leaf(name) == Tree(name, << >>)

-----------------------------------------------------------------------------
(* Vocabulary.  A look says whether the next tokens are one of several     *)
(* sequences (of sets of spellings or kinds) and none of some others.      *)

Is(set) == [yes |-> {<<set>>}, no |-> {}, pred |-> ""]
Is2(set, then) == [yes |-> {<<set, then>>}, no |-> {}, pred |-> ""]
Or(a, b) == [a EXCEPT !.yes = @ \cup b.yes]
But(a, b) == [a EXCEPT !.no = b.yes]
Pred(p) == [yes |-> {}, no |-> {}, pred |-> p]
Else == Is({"ANY"})

T(k) == [op |-> "expect", k |-> k]                \* expect_kw, expect_kind
V(k) == [op |-> "value", k |-> k]                 \* expect_ident: keeps the token
R(name) == [op |-> "rule", name |-> name]
S(gs) == [op |-> "seq", gs |-> gs]
O(look, g) == [op |-> "opt", look |-> look, g |-> g]
W(look, g) == [op |-> "while", look |-> look, g |-> g]
A(alts) == [op |-> "alt", alts |-> alts]          \* match on the next tokens
N(name, g) == [op |-> "node", name |-> name, g |-> g]
Drop(g) == [op |-> "drop", g |-> g]               \* parsed and not kept
Left(first, g, ops) == [op |-> "left", first |-> first, g |-> g, ops |-> ops]
Post(g, alts) == [op |-> "post", g |-> g, alts |-> alts]   \* g, wrapped by what follows it
Try(g, h) == [op |-> "try", g |-> g, h |-> h]     \* h from the same place when g fails
Named(g) == [op |-> "named", g |-> g]             \* END name must repeat the header's
Skip(open, close) == [op |-> "skip", open |-> open, close |-> close]
Asm == [op |-> "asm"]
Record(g) == [op |-> "record", g |-> g]
Empty == S(<< >>)
Eat(k) == O(Is({k}), T(k))

\* Items up to a stop token or until no separator follows; a final item ends it.
ListEnd(stop, g, sep, look, final) ==
    [op |-> "list", stop |-> stop, g |-> g, sep |-> sep, look |-> look, final |-> final]
List(stop, g, sep) == ListEnd(stop, g, sep, Is({}), Empty)
Sep(g, sep) == List({}, g, sep)

-----------------------------------------------------------------------------
(* Declarations and modules.                                               *)

EndName == S(<<T("END"), N("END", V("IDENT"))>>)
Body == S(<<O(Is({"BEGIN"}), S(<<T("BEGIN"), R("stmts"), R("finish")>>))>>)

parse_module ==
    Named(S(<<Eat("UNSAFEGUARDED"),
        A(<< <<Is({"DEFINITION"}), N("def", S(<<T("DEFINITION"), T("MODULE"), R("header"), R("decls_def"), EndName>>))>>,
             <<Is({"IMPLEMENTATION"}), N("impl", S(<<T("IMPLEMENTATION"), T("MODULE"), R("header"), R("decls"), Body, EndName>>))>>,
             <<Is({"MODULE"}), N("program", S(<<T("MODULE"), R("header"), R("decls"), Body, EndName>>))>> >>),
        T("."), T("EOF")>>))

header == S(<<V("IDENT"), O(Is({"["}), S(<<T("["), N("prio", R("expr")), T("]")>>)), T(";"), R("imports")>>)

parse_imports ==
    W(Is({"FROM", "IMPORT"}),
      A(<< <<Is({"FROM"}), N("from", S(<<T("FROM"), V("IDENT"), T("IMPORT"),
                   A(<< <<Is({"*"}), T("*")>>, <<Else, Sep(V("IDENT"), {","})>> >>), T(";")>>))>>,
           <<Is({"IMPORT"}), N("import", S(<<T("IMPORT"),
                   Sep(Post(V("IDENT"), << <<Is({":="}), "alias", S(<<T(":="), V("IDENT")>>)>> >>), {","}), T(";")>>))>> >>))

\* parse_top_decls; bodies are only for implementation and program modules.
TopDecls(proc, local, class) ==
    W(Is({"CONST", "TYPE", "VAR", "PROCEDURE", "EXPORT", "ABSTRACT", "CLASS", "INTERFACE", "ASSERT"} \cup local),
      A(<< <<Is({"CONST"}), S(<<T("CONST"), W(Is({"IDENT"}), R("const"))>>)>>,
           <<Is({"TYPE"}), S(<<T("TYPE"), R("types")>>)>>,
           <<Is({"VAR"}), S(<<T("VAR"), R("vars")>>)>>,
           <<Is({"PROCEDURE"}), R(proc)>>,
           <<Is({"MODULE"}), R("local_module")>>,
           <<Is({"EXPORT"}), N("export", S(<<T("EXPORT"), Eat("QUALIFIED"), Sep(V("IDENT"), {","}), T(";")>>))>>,
           <<Is2({"ABSTRACT"}, {"CLASS"}), R(class)>>,
           <<Is({"CLASS", "INTERFACE"}), R(class)>>,
           <<Is({"ASSERT"}), S(<<T("ASSERT"), O(Is({"("}), Skip("(", ")")), Eat(";")>>)>> >>))

parse_top_decls == TopDecls("proc", {"MODULE"}, "class")
parse_top_decls_def == TopDecls("proc_def", {}, "class_def")

parse_const_decl_opt ==
    N("const", S(<<V("IDENT"), Eat("*"), O(Is({":"}), S(<<T(":"), Drop(R("type"))>>)),
                   T("="), R("expr"), T(";")>>))

\* In a TYPE section a soft keyword and a name begin another declaration.
parse_type_decl_opt ==
    W(But(Is({"IDENT"}), Or(Is2({"ASSERT"}, {"("}), Is2({"INTERFACE", "CLASS"}, {"IDENT"}))),
      N("type", S(<<V("IDENT"), Eat("*"),
          A(<< <<Is({";"}), T(";")>>,
               <<Else, S(<<T("="), R("type"), T(";")>>)>> >>)>>)))

ExternalLinkage == O(Is2({"["}, {"STRING"}), Skip("[", "]"))

var_decl ==
    N("var", S(<<N("names", Sep(S(<<V("IDENT"), Eat("*"), ExternalLinkage>>), {","})),
                 O(Is({"["}), S(<<T("["), N("at", R("expr")), T("]")>>)),
                 T(":"), R("type"), O(Is({"="}), S(<<T("="), Drop(R("expr"))>>)), T(";")>>))

parse_var_decl_opt == W(But(Is({"IDENT"}), Is2({"CLASS"}, {"IDENT"})), var_decl)

Params == O(Is({"("}), S(<<T("("), O(But(Else, Is({")"})),
              ListEnd({}, R("param"), {";", ","}, Is2({".."}, {"."}), S(<<V(".."), T(".")>>))), T(")")>>))
ReturnType == O(Is({":"}), S(<<T(":"), N("returns", R("type"))>>))

ProcBody == S(<<N("body", S(<<R("decls"), Body>>)), EndName, T(";")>>)

BodyStart == {"CONST", "TYPE", "VAR", "PROCEDURE", "MODULE", "BEGIN", "END", "EXPORT"}

\* parse_procedure_decl after the header's semicolon.
ProcTrailer(starts) ==
    A(<< <<Is({"FORWARD"}), N("forward", S(<<T("FORWARD"), T(";")>>))>>,
         <<Is({"ASM"}), S(<<N("asm", S(<<T("ASM"), Asm>>)), O(Is({"IDENT"}), N("END", V("IDENT"))), T(";")>>)>>,
         <<Is({"MACRO"}), S(<<T("MACRO"), T(";"), O(Is(BodyStart), ProcBody)>>)>>,
         <<Is(starts), ProcBody>>,
         <<Else, Empty>> >>)

ProcDecl(starts) ==
    Named(N("proc", S(<<T("PROCEDURE"), W(Is({"__BUILTIN__"}), T("__BUILTIN__")), V("IDENT"), Eat("*"),
        R("linkage"), N("params", Params), ReturnType, R("attrs"),
        A(<< <<Is({"FORWARD"}), N("forward", S(<<T("FORWARD"), T(";")>>))>>,
             <<Is({"="}), S(<<T("="), Drop(R("qual")), T(";")>>)>>,
             <<Else, S(<<T(";"), ProcTrailer(starts)>>)>> >>)>>)))

parse_procedure_decl == ProcDecl(BodyStart)
parse_procedure_decl_def == ProcDecl({})

parse_proc_external_linkage ==
    O(Is2({"["}, {"STRING"}), N("linkage", S(<<T("["), V("STRING"), O(Is({"EXTERNAL"}), V("EXTERNAL")),
        O(Is({"FROM"}), S(<<T("FROM"), V("STRING")>>)), T("]")>>)))

Mode == A(<< <<Is({"VAR"}), N("VAR", S(<<T("VAR"), O(Is({"OUT", "INOUT"}), Drop(V("IDENT")))>>))>>,
             <<Is({"OUT", "INOUT"}), N("VAR", Drop(V("IDENT")))>>,
             <<Is({"CONST"}), N("CONST", T("CONST"))>>,
             <<Else, N("byvalue", Empty)>> >>)

parse_param == N("param", S(<<Mode, N("names", Sep(V("IDENT"), {","})), T(":"), R("type")>>))

parse_proc_attrs ==
    O(Is({"["}), N("attrs", S(<<T("["),
        List({"]"}, S(<<A(<< <<Is({"IDENT"}), V("IDENT")>>, <<Is({"EXPORT", "CONST"}), V("ANY")>> >>),
                        O(Is({"("}), Skip("(", ")"))>>), {","}), T("]")>>)))

parse_local_module ==
    Named(N("local", S(<<T("MODULE"), R("header"), R("decls"), Body, EndName, T(";")>>)))

-----------------------------------------------------------------------------
(* Classes and interfaces.                                                 *)

parse_method_decl(body) ==
    Named(N("method", S(<<T("PROCEDURE"), V("IDENT"), N("params", Params), ReturnType, R("attrs"), T(";"),
        O(Is(IF body THEN {"CONST", "TYPE", "VAR", "PROCEDURE", "BEGIN"} ELSE {}), ProcBody)>>)))

ClassMembers(body) ==
    W(But(Else, Is({"END"})),
      A(<< <<Is({"VAR"}), S(<<T("VAR"), W(But(Is({"IDENT"}), Or(Is({"OVERRIDE"}), Is2({"CLASS"}, {"IDENT"}))), var_decl)>>)>>,
           <<Is2({"ABSTRACT"}, {"PROCEDURE"}), N("ABSTRACT", S(<<T("ABSTRACT"), parse_method_decl(FALSE)>>))>>,
           <<Is2({"OVERRIDE"}, {"PROCEDURE"}), N("OVERRIDE", S(<<T("OVERRIDE"), parse_method_decl(body)>>))>>,
           <<Is({"PROCEDURE"}), parse_method_decl(body)>> >>))

ClassDecl(kind, body) ==
    Named(N(kind, S(<<T(kind), V("IDENT"), Eat("*"),
        O(Is({"["}), S(<<T("["), V("STRING"), T("]")>>)), T(";"),
        A(<< <<Is({"FORWARD"}), N("forward", S(<<T("FORWARD"), T(";")>>))>>,
             <<Else, S(<<
                 O(Is({"INHERIT"}), N("inherit", S(<<T("INHERIT"), R("qual"), T(";")>>))),
                 O(Is({"IMPLEMENTS"}), N("implements", S(<<T("IMPLEMENTS"), Sep(R("qual"), {","}), T(";")>>))),
                 O(Is({"REVEAL"}), N("reveal", S(<<T("REVEAL"),
                     Sep(S(<<Eat("READONLY"), V("IDENT")>>), {","}), T(";")>>))),
                 ClassMembers(body), EndName, T(";")>>)>> >>)>>)))

\* Methods of an INTERFACE never have a body.
parse_class_decl ==
    S(<<O(Is({"ABSTRACT"}), V("ABSTRACT")),
        A(<< <<Is({"INTERFACE"}), ClassDecl("INTERFACE", FALSE)>>,
             <<Else, ClassDecl("CLASS", TRUE)>> >>)>>)
parse_class_decl_def ==
    S(<<O(Is({"ABSTRACT"}), V("ABSTRACT")),
        A(<< <<Is({"INTERFACE"}), ClassDecl("INTERFACE", FALSE)>>,
             <<Else, ClassDecl("CLASS", FALSE)>> >>)>>)

-----------------------------------------------------------------------------
(* Types.                                                                  *)

ProcTypeMode == A(<< <<Is({"VAR"}), N("VAR", S(<<T("VAR"), O(Is({"OUT", "INOUT"}), Drop(V("IDENT")))>>))>>,
                     <<Is({"CONST", "OUT", "INOUT"}), N("VAR", Drop(V("ANY")))>>,
                     <<Else, N("byvalue", Empty)>> >>)
Subrange == N("subrange", S(<<T("["), R("expr"), T(".."), R("expr"), T("]")>>))

parse_type_expr_inner ==
    A(<< <<Is2({"ARRAY"}, {"OF"}), N("open", S(<<T("ARRAY"), T("OF"), R("type")>>))>>,
         <<Is({"ARRAY"}), N("array", S(<<T("ARRAY"), Sep(R("type"), {","}), T("OF"), R("type")>>))>>,
         <<Is({"RECORD"}), N("record", S(<<T("RECORD"), R("record")>>))>>,
         <<Is({"POINTER"}), N("pointer", S(<<T("POINTER"), T("TO"), R("type")>>))>>,
         <<Is({"PROCEDURE"}), N("proctype", S(<<T("PROCEDURE"),
             O(Is({"("}), S(<<T("("), O(But(Else, Is({")"})),
                 Sep(N("param", S(<<ProcTypeMode, R("type")>>)), {",", ";"})), T(")")>>)),
             ReturnType, R("attrs")>>))>>,
         <<Is({"SET"}), N("setof", S(<<T("SET"), T("OF"), R("type")>>))>>,
         <<Is({"PACKEDSET"}), N("packedset", S(<<T("PACKEDSET"), T("OF"), R("type")>>))>>,
         <<Is({"("}), N("enum", S(<<T("("), O(But(Else, Is({")"})),
             Sep(Post(V("IDENT"), << <<Is({"="}), "valued", S(<<T("="), R("expr")>>)>> >>), {","})),
             T(")"), Eat("BIG")>>))>>,
         <<Is({"["}), Subrange>>,
         <<Pred("host_subrange"), S(<<Drop(R("qual")), Subrange>>)>>,
         <<Is({"IDENT"}), N("named", R("qual"))>> >>)

parse_type_expr == S(<<Eat("VALUE"), R("type_inner"), Eat("BIG")>>)

FieldOf(linkage, width) ==
    N("member", S(<<N("names", Sep(S(<<V("IDENT"), Eat("*"), linkage>>), {","})),
                   T(":"), R("type"), width, Eat(";")>>))
LinkName == O(Is2({"["}, {"STRING"}), S(<<T("["), T("STRING"), T("]")>>))

parse_bitfields_section ==
    S(<<T("BITFIELDS"), W(But(Else, Is({"END"})),
        N("member", S(<<N("names", Sep(V("IDENT"), {","})), T(":"), R("type"),
                       O(Is({"BY"}), S(<<T("BY"), Drop(R("expr"))>>)), Eat(";")>>))), T("END")>>)

\* A second CASE part replaces the first one.
parse_record_body ==
    Record(S(<<O(Is({"["}), Skip("[", "]")),
        W(Is({"IDENT", "CASE"}),
          A(<< <<Is({"BITFIELDS"}), S(<<R("bitfields"), Eat(";")>>)>>,
               <<Is({"CASE"}), S(<<R("variant"), Eat(";")>>)>>,
               <<Else, FieldOf(LinkName, Empty)>> >>)), T("END")>>))

parse_variant_part ==
    N("variant", S(<<T("CASE"),
        A(<< <<Is({":"}), N("tag", S(<<T(":"), R("qual")>>))>>,
             <<Is2({"IDENT"}, {":"}), N("tag", S(<<V("IDENT"), T(":"), R("qual")>>))>>,
             <<Is({"IDENT"}), N("tag", R("qual"))>>,
             <<Else, Empty>> >>),
        T("OF"), List({"END", "ELSE"}, A(<< <<Is({"|"}), Empty>>, <<Else, R("variant_arm")>> >>), {"|"}),
        O(Is({"ELSE"}), N("variant_else", S(<<T("ELSE"), W(Is({"IDENT"}), FieldOf(Empty, Empty))>>))),
        T("END")>>))

Label == Post(R("expr"), << <<Is({".."}), "range", S(<<T(".."), R("expr")>>)>> >>)

parse_variant_arm ==
    N("variant_arm", S(<<N("labels", Sep(Label, {","})), T(":"),
        W(Is({"IDENT"}), A(<< <<Is({"BITFIELDS"}), S(<<R("bitfields"), Eat(";")>>)>>,
                              <<Else, FieldOf(Empty, Empty)>> >>)),
        O(Is({"CASE"}), S(<<R("variant"), Eat(";")>>))>>))

-----------------------------------------------------------------------------
(* Expressions.                                                            *)

RelOps == {"=", "<>", "#", "<", "<=", ">", ">=", "IN"}
AddOps == {"+", "-", "OR"}
MulOps == {"*", "/", "DIV", "MOD", "REM", "AND", "&", "BOR", "BAND", "BXOR", "SHL", "SHR"}
OpName(tok) == IF tok = "#" THEN "<>" ELSE IF tok = "&" THEN "AND" ELSE tok

parse_relational == Left(R("simple"), R("simple"), RelOps)

parse_simple ==
    Left(A(<< <<Is({"+"}), N("pos", S(<<T("+"), R("term")>>))>>,
              <<Is({"-"}), N("neg", S(<<T("-"), R("term")>>))>>,
              <<Else, R("term")>> >>), R("term"), AddOps)

parse_term == Left(R("factor"), R("factor"), MulOps)

Args == S(<<T("("), O(But(Else, Is({")"})), Sep(R("expr"), {","})), T(")")>>)
FunctionArgs ==
    S(<<T("("), O(But(Else, Is({")"})),
        Sep(S(<<R("expr"), O(Is({":"}), S(<<T(":"), Drop(R("type"))>>))>>), {","})), T(")")>>)

parse_factor ==
    A(<< <<Is({"INT"}), V("INT")>>, <<Is({"STRING"}), V("STRING")>>,
         <<Is({"NOT", "~", "BNOT"}), N("NOT", S(<<Drop(V("ANY")), R("factor")>>))>>,
         <<Is({"("}), S(<<T("("), R("expr"), T(")")>>)>>,
         <<Is({"{"}), R("set")>>,
         <<Pred("typed_set"), S(<<R("set_of")>>)>>,
         <<Is({"IDENT"}), Post(R("desig"), << <<Is({"("}), "call", FunctionArgs>> >>)>> >>)

\* A dot is only taken when an identifier follows: the last one ends the module.
parse_qual_name ==
    N("qual", S(<<V("IDENT"), W(Is2({"."}, {"IDENT"}), S(<<T("."), V("IDENT")>>))>>))

parse_designator ==
    N("desig", S(<<V("IDENT"),
        W(Or(Is({"[", "^"}), Is2({"."}, {"IDENT"})),
          A(<< <<Is({"."}), N("select", S(<<T("."), V("IDENT")>>))>>,
               <<Is({"["}), N("index", S(<<T("["), O(But(Else, Is({"]"})), Sep(R("expr"), {","})), T("]")>>))>>,
               <<Is({"^"}), N("deref", T("^"))>> >>))>>))

SetElements == S(<<T("{"), O(But(Else, Is({"}"})), Sep(Label, {","})), T("}")>>)
parse_set_constructor == N("set", SetElements)
parse_typed_set == N("typedset", S(<<R("qual"), SetElements>>))

-----------------------------------------------------------------------------
(* Statements.                                                             *)

StmtEnd == {"END", "ELSE", "ELSIF", "UNTIL", "EXCEPT", "FINALLY", "|", "EOF"}

parse_stmt_seq == N("seq", List(StmtEnd, R("stmt"), {";"}))

\* GUARD is an identifier when what follows continues a designator.
starts_guard_stmt == But(Is({"GUARD"}), Is2({"GUARD"}, {":=", ".", "[", "(", "^", ",", ":"}))

parse_statement ==
    A(<< <<starts_guard_stmt, R("guard")>>,
         <<Is({"IF"}), R("if_stmt")>>, <<Is({"CASE"}), R("case_stmt")>>, <<Is({"WHILE"}), R("while_stmt")>>,
         <<Is({"REPEAT"}), R("repeat")>>, <<Is({"FOR"}), R("for_stmt")>>, <<Is({"LOOP"}), R("loop")>>,
         <<Is({"WITH"}), R("with_stmt")>>,
         <<Is({"EXIT"}), N("exit", T("EXIT"))>>, <<Is({"RETRY"}), N("retry", T("RETRY"))>>,
         <<Is({"RETURN"}), N("return", S(<<T("RETURN"),
              O(But(Else, Is({";"} \cup (StmtEnd \ {"EOF"}))), R("expr"))>>))>>,
         <<Is({"FUNC"}), S(<<T("FUNC"), Post(R("desig"), << <<Is({"("}), "call", Args>>, <<Else, "call", Empty>> >>)>>)>>,
         <<Is({"IDENT"}), Post(R("desig"), << <<Is({":="}), "assign", S(<<T(":="), R("expr")>>)>>,
                                              <<Is({"("}), "call", Args>>, <<Else, "call", Empty>> >>)>> >>)

ElsePart == O(Is({"ELSE"}), N("else", S(<<T("ELSE"), R("stmts")>>)))

parse_if ==
    N("if", S(<<T("IF"), R("expr"), T("THEN"), R("stmts"),
                W(Is({"ELSIF"}), S(<<T("ELSIF"), R("expr"), T("THEN"), R("stmts")>>)), ElsePart, T("END")>>))

parse_guard ==
    N("guard", S(<<T("GUARD"), R("expr"), T("AS"), Eat("|"),
                   List({"END", "ELSE"}, R("guard_arm"), {"|"}), ElsePart, T("END")>>))
parse_guard_arm ==
    N("arm", S(<<O(Is2({"IDENT"}, {":"}), S(<<V("IDENT"), T(":")>>)), R("qual"), T("DO"), R("stmts")>>))

parse_case ==
    N("case", S(<<T("CASE"), R("expr"), T("OF"), Eat("|"),
                  List({"END", "ELSE"}, R("case_arm"), {"|"}), ElsePart, T("END")>>))
parse_case_arm == N("arm", S(<<N("labels", Sep(Label, {","})), T(":"), R("stmts")>>))

parse_while == N("while", S(<<T("WHILE"), R("expr"), T("DO"), R("stmts"), T("END")>>))
parse_repeat == N("repeat", S(<<T("REPEAT"), R("stmts"), T("UNTIL"), R("expr")>>))

\* Mutant: the step is parsed and forgotten.
parse_for_ForgetsBy ==
    N("for", S(<<T("FOR"), V("IDENT"), T(":="), R("expr"), T("TO"), R("expr"),
                 O(Is({"BY"}), S(<<T("BY"), Drop(R("expr"))>>)), T("DO"), R("stmts"), T("END")>>))
parse_for ==
    N("for", S(<<T("FOR"), V("IDENT"), T(":="), R("expr"), T("TO"), R("expr"),
                 O(Is({"BY"}), N("by", S(<<T("BY"), R("expr")>>))), T("DO"), R("stmts"), T("END")>>))
parse_loop == N("loop", S(<<T("LOOP"), R("stmts"), T("END")>>))
parse_with == N("with", S(<<T("WITH"), R("desig"), T("DO"), R("stmts"), T("END")>>))

\* EXCEPT takes a list of named handlers, or else all of it is one handler.
finish_block ==
    S(<<O(Is({"EXCEPT"}), S(<<T("EXCEPT"),
            A(<< <<Is({"END", "FINALLY"}), N("handler", R("stmts"))>>,
                 <<Else, Try(R("except_arms"), N("handler", R("stmts")))>> >>)>>)),
        O(Is({"FINALLY"}), N("finally", S(<<T("FINALLY"), R("stmts")>>)))>>)
parse_except_arms ==
    Sep(N("handler", S(<<O(Is({"IDENT"}), S(<<N("names", Sep(R("qual"), {","})), T(":")>>)),
                         R("stmts")>>)), {"|"})

Rules ==
    [header |-> header, imports |-> parse_imports, decls |-> parse_top_decls, decls_def |-> parse_top_decls_def,
     const |-> parse_const_decl_opt, types |-> parse_type_decl_opt, vars |-> parse_var_decl_opt,
     proc |-> parse_procedure_decl, proc_def |-> parse_procedure_decl_def,
     linkage |-> parse_proc_external_linkage, param |-> parse_param, attrs |-> parse_proc_attrs,
     local_module |-> parse_local_module, class |-> parse_class_decl, class_def |-> parse_class_decl_def,
     type |-> parse_type_expr, type_inner |-> parse_type_expr_inner, record |-> parse_record_body,
     bitfields |-> parse_bitfields_section, variant |-> parse_variant_part, variant_arm |-> parse_variant_arm,
     expr |-> parse_relational, simple |-> parse_simple, term |-> parse_term, factor |-> parse_factor,
     qual |-> parse_qual_name, desig |-> parse_designator, set |-> parse_set_constructor,
     set_of |-> parse_typed_set, stmts |-> parse_stmt_seq, stmt |-> parse_statement, if_stmt |-> parse_if,
     guard |-> parse_guard, guard_arm |-> parse_guard_arm, case_stmt |-> parse_case, case_arm |-> parse_case_arm,
     while_stmt |-> parse_while, repeat |-> parse_repeat, for_stmt |-> parse_for, loop |-> parse_loop,
     with_stmt |-> parse_with, finish |-> finish_block, except_arms |-> parse_except_arms]

-----------------------------------------------------------------------------
(* The interpreter.  A result has an outcome (ok, error, or hang), the     *)
(* position reached and the trees kept.                                    *)

Tok(t, i) == IF i \in DOMAIN t THEN t[i] ELSE "EOF"
Matches(tok, k) == tok = k \/ Kind(tok) = k \/ k = "ANY"
Ok(i, c) == [st |-> "ok", i |-> i, c |-> c]
Err(i) == [st |-> "error", i |-> i, c |-> << >>]

RECURSIVE DottedEnd(_, _)
DottedEnd(t, i) ==
    IF Tok(t, i) = "." /\ Kind(Tok(t, i + 1)) = "IDENT" THEN DottedEnd(t, i + 2) ELSE i

\* bracketed_run_contains_dotdot, from behind the bracket.
RECURSIVE DotDotInside(_, _, _)
DotDotInside(t, i, depth) ==
    LET tok == Tok(t, i)
    IN  CASE tok = "EOF" -> FALSE
          [] tok = ".." /\ depth = 0 -> TRUE
          [] tok = "]" /\ depth = 0 -> FALSE
          [] tok \in {"[", "(", "{"} -> DotDotInside(t, i + 1, depth + 1)
          [] tok \in {"]", ")", "}"} /\ ~ (tok = "]" /\ depth = 0) -> DotDotInside(t, i + 1, depth - 1)
          [] OTHER -> DotDotInside(t, i + 1, depth)

Holds(look, t, i) ==
    LET fits(seq) == \A k \in DOMAIN seq :
            \/ "ANY" \in seq[k]
            \/ Tok(t, i + k - 1) \in seq[k]
            \/ Kind(Tok(t, i + k - 1)) \in seq[k]
        dotted == DottedEnd(t, i + 1)
    IN  CASE look.pred = "" -> (\E s \in look.yes : fits(s)) /\ ~ \E s \in look.no : fits(s)
          [] look.pred = "typed_set" -> Kind(Tok(t, i)) = "IDENT" /\ Tok(t, dotted) = "{"
          [] OTHER -> Kind(Tok(t, i)) = "IDENT" /\ Tok(t, dotted) = "[" /\ DotDotInside(t, dotted + 1, 0)

\* A balanced run of tokens; the end of the text ends it too.
RECURSIVE SkipBalanced(_, _, _, _, _)
SkipBalanced(t, i, open, close, depth) ==
    IF depth = 0 \/ Tok(t, i) = "EOF" THEN i
    ELSE SkipBalanced(t, i + 1, open, close,
                      depth + (IF t[i] = open THEN 1 ELSE IF t[i] = close THEN -1 ELSE 0))

\* The ASM body up to its END.  bump does not move past the end of the text,
\* and the loop has no other way out: 0 stands for a loop without an end.
RECURSIVE AsmEnd(_, _, _)
AsmEnd(t, i, depth) ==
    CASE Tok(t, i) = "EOF" -> 0
      [] Tok(t, i) = "END" /\ depth = 0 -> i
      [] OTHER -> AsmEnd(t, i + 1, depth + (IF t[i] = "ASM" THEN 1 ELSE IF t[i] = "END" THEN -1 ELSE 0))

\* Fields in order, and the last CASE part behind them.
RecordKids(c) ==
    LET fields == SelectSeq(c, LAMBDA k : k.n = "member")
        cases == SelectSeq(c, LAMBDA k : k.n = "variant")
    IN  IF cases = << >> THEN fields ELSE Append(fields, cases[Len(cases)])

\* The node with the name of its END checked and removed.
CheckName(r) ==
    LET node == r.c[Len(r.c)]
        last == node.c[Len(node.c)]
    IN  IF node.c = << >> \/ last.n # "END" THEN r
        ELSE IF last.c # <<node.c[1]>> THEN Err(r.i)
        ELSE [r EXCEPT !.c[Len(r.c)].c = SubSeq(@, 1, Len(@) - 1)]

\* The first alternative whose look holds, 0 when there is none.
RECURSIVE Taken(_, _, _, _)
Taken(alts, k, t, i) ==
    IF k > Len(alts) THEN 0 ELSE IF Holds(alts[k][1], t, i) THEN k ELSE Taken(alts, k + 1, t, i)

RECURSIVE Interpret(_, _, _), InterpretSeq(_, _, _, _), InterpretList(_, _, _, _), InterpretLeft(_, _, _)
InterpretSeq(gs, k, t, r) ==
    IF k > Len(gs) \/ r.st # "ok" THEN r
    ELSE LET s == Interpret(gs[k], t, r.i)
         IN  InterpretSeq(gs, k + 1, t, [s EXCEPT !.c = r.c \o @])

InterpretList(g, t, i, c) ==
    IF Holds(g.look, t, i)
    THEN LET r == Interpret(g.final, t, i) IN [r EXCEPT !.c = c \o @]
    ELSE IF Tok(t, i) \in g.stop THEN Ok(i, c)
    ELSE LET r == Interpret(g.g, t, i)
         IN  IF r.st # "ok" THEN r
             ELSE IF Tok(t, r.i) \in g.sep THEN InterpretList(g, t, r.i + 1, c \o r.c)
             ELSE [r EXCEPT !.c = c \o @]

InterpretLeft(g, t, l) ==
    IF l.st # "ok" \/ Tok(t, l.i) \notin g.ops THEN l
    ELSE LET r == Interpret(g.g, t, l.i + 1)
         IN  InterpretLeft(g, t, [r EXCEPT !.c = <<Tree(OpName(t[l.i]), l.c \o @)>>])

Interpret(g, t, i) ==
    CASE g.op = "expect" -> IF Matches(Tok(t, i), g.k) THEN Ok(IF g.k = "EOF" THEN i ELSE i + 1, << >>) ELSE Err(i)
      [] g.op = "value" -> IF Matches(Tok(t, i), g.k) THEN Ok(i + 1, <<Leaf(Tok(t, i))>>) ELSE Err(i)
      [] g.op = "rule" -> Interpret(Rules[g.name], t, i)
      [] g.op = "seq" -> InterpretSeq(g.gs, 1, t, Ok(i, << >>))
      [] g.op = "opt" -> IF Holds(g.look, t, i) THEN Interpret(g.g, t, i) ELSE Ok(i, << >>)
      [] g.op = "while" -> IF Holds(g.look, t, i) THEN InterpretSeq(<<g.g, g>>, 1, t, Ok(i, << >>)) ELSE Ok(i, << >>)
      [] g.op = "alt" ->
           LET k == Taken(g.alts, 1, t, i) IN IF k = 0 THEN Err(i) ELSE Interpret(g.alts[k][2], t, i)
      [] g.op = "node" -> LET r == Interpret(g.g, t, i) IN [r EXCEPT !.c = <<Tree(g.name, @)>>]
      [] g.op = "drop" -> [Interpret(g.g, t, i) EXCEPT !.c = << >>]
      [] g.op = "list" -> InterpretList(g, t, i, << >>)
      [] g.op = "left" -> InterpretLeft(g, t, Interpret(g.first, t, i))
      [] g.op = "post" ->
           LET l == Interpret(g.g, t, i)
               k == Taken(g.alts, 1, t, l.i)
               r == Interpret(g.alts[k][3], t, l.i)
           IN  IF l.st # "ok" \/ k = 0 THEN l ELSE [r EXCEPT !.c = <<Tree(g.alts[k][2], l.c \o @)>>]
      [] g.op = "try" -> LET r == Interpret(g.g, t, i) IN IF r.st = "error" THEN Interpret(g.h, t, i) ELSE r
      [] g.op = "named" -> LET r == Interpret(g.g, t, i) IN IF r.st = "ok" THEN CheckName(r) ELSE r
      [] g.op = "skip" -> Ok(SkipBalanced(t, i + 1, g.open, g.close, 1), << >>)
      [] g.op = "record" -> LET r == Interpret(g.g, t, i) IN [r EXCEPT !.c = RecordKids(@)]
      [] g.op = "asm" -> IF AsmEnd(t, i, 0) = 0 THEN [Err(i) EXCEPT !.st = "hang"]
                         ELSE Ok(AsmEnd(t, i, 0) + 1, << >>)

\* parse_module_with_source, and parse_expr or parse_statement of a fragment.
ParseModule(t) == Interpret(parse_module, t, 1)
ParseFragment(rule, t) == InterpretSeq(<<R(rule), T("EOF")>>, 1, t, Ok(1, << >>))
=============================================================================
