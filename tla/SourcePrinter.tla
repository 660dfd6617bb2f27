---------------------------- MODULE SourcePrinter ----------------------------
(***************************************************************************)
(* What a syntax tree stands for: the tokens of a module with that tree,   *)
(* with no more parentheses than the language's precedence asks for.  It   *)
(* is written from the grammar of Modula-2 and knows nothing of how the    *)
(* parser works; it is the reference the parser is checked against.        *)
(***************************************************************************)
EXTENDS Parser, SequencesExt

Words(k) == k.c = << >> /\ k.n \in Idents \cup SoftKeywords \cup Ints \cup Strings
Having(kids, names) == SelectSeq(kids, LAMBDA k : k.n \in names)

RECURSIVE Between(_, _)
Between(parts, sep) ==
    IF Len(parts) < 2 THEN IF parts = << >> THEN << >> ELSE parts[1]
    ELSE parts[1] \o sep \o Between(Tail(parts), sep)

Level(name) ==
    CASE name \in RelOps -> 1
      [] name \in AddOps \cup {"pos", "neg"} -> 2
      [] name \in MulOps -> 3
      [] OTHER -> 4

RECURSIVE Written(_), Operand(_, _), PrintAll(_), PrintSeq(_, _)
PrintAll(kids) == Between([k \in DOMAIN kids |-> Written(kids[k])], << >>)
PrintSeq(kids, sep) == Between([k \in DOMAIN kids |-> Written(kids[k])], sep)

Operand(e, level) ==
    IF Level(e.n) < level THEN <<"(">> \o Written(e) \o <<")">> ELSE Written(e)

\* The statements, handlers and cleanup of a block, if it has any.
Block(kids) ==
    LET block == Having(kids, {"seq", "handler", "finally"})
        handlers == Having(block, {"handler"})
    IN  IF block = << >> THEN << >>
        ELSE <<"BEGIN">> \o Written(block[1])
             \o (IF handlers = << >> THEN << >> ELSE <<"EXCEPT">> \o PrintSeq(handlers, <<"|">>))
             \o PrintAll(Having(block, {"finally"}))

\* Kids of a declaration without its name and what Block prints.
Rest(kids) == Tail(SelectSeq(kids, LAMBDA k : k.n \notin {"seq", "handler", "finally"}))
Priority(kids) == IF Having(kids, {"prio"}) = << >> THEN << >>
                  ELSE <<"[">> \o Written(Having(kids, {"prio"})[1].c[1]) \o <<"]">>
ModuleText(words, m, stop) ==
    LET rest == SelectSeq(Rest(m.c), LAMBDA k : k.n # "prio")
    IN  words \o <<m.c[1].n>> \o Priority(m.c) \o <<";">> \o PrintAll(rest)
        \o Block(m.c) \o <<"END", m.c[1].n, stop>>

Header(kids) ==
    PrintAll(Having(kids, {"linkage"})) \o PrintAll(Having(kids, {"params"}))
    \o PrintAll(Having(kids, {"returns"})) \o PrintAll(Having(kids, {"attrs"})) \o <<";">>
ProcText(p) ==
    <<"PROCEDURE", p.c[1].n>> \o Header(Tail(p.c)) \o PrintAll(Having(p.c, {"forward", "asm"}))
    \o (IF Having(p.c, {"body"}) = << >> THEN << >>
        ELSE Written(Having(p.c, {"body"})[1]) \o <<"END", p.c[1].n, ";">>)

ClassText(d) ==
    <<d.n, d.c[1].n>>
    \o (IF Len(d.c) > 1 /\ d.c[2].n \in Strings THEN <<"[", d.c[2].n, "]">> ELSE << >>) \o <<";">>
    \o PrintAll(SelectSeq(Tail(d.c), LAMBDA k : k.n \notin Strings))
    \o (IF Having(d.c, {"forward"}) = << >> THEN <<"END", d.c[1].n, ";">> ELSE << >>)

\* The IF statement's kids are guard, statements, guard, statements ...
IfText(kids) ==
    LET parts == [k \in DOMAIN kids |->
            IF kids[k].n = "else" THEN Written(kids[k])
            ELSE IF k % 2 = 0 THEN Written(kids[k])
            ELSE <<IF k = 1 THEN "IF" ELSE "ELSIF">> \o Written(kids[k]) \o <<"THEN">>]
    IN  Between(parts, << >>) \o <<"END">>

ArmsThenElse(kids) ==
    PrintSeq(Having(kids, {"arm"}), <<"|">>) \o PrintAll(Having(kids, {"else"})) \o <<"END">>

PrintDecl(e) ==
    CASE e.n = "def" -> ModuleText(<<"DEFINITION", "MODULE">>, e, ".")
      [] e.n = "impl" -> ModuleText(<<"IMPLEMENTATION", "MODULE">>, e, ".")
      [] e.n = "program" -> ModuleText(<<"MODULE">>, e, ".")
      [] e.n = "local" -> ModuleText(<<"MODULE">>, e, ";")
      [] e.n = "from" -> <<"FROM", e.c[1].n, "IMPORT">>
             \o (IF Len(e.c) = 1 THEN <<"*">> ELSE PrintSeq(Tail(e.c), <<",">>)) \o <<";">>
      [] e.n = "import" -> <<"IMPORT">> \o PrintSeq(e.c, <<",">>) \o <<";">>
      [] e.n = "alias" -> PrintSeq(e.c, <<":=">>)
      [] e.n = "export" -> <<"EXPORT">> \o PrintSeq(e.c, <<",">>) \o <<";">>
      [] e.n = "const" -> <<"CONST", e.c[1].n, "=">> \o Written(e.c[2]) \o <<";">>
      [] e.n = "type" -> <<"TYPE", e.c[1].n>>
             \o (IF Len(e.c) = 1 THEN << >> ELSE <<"=">> \o Written(e.c[2])) \o <<";">>
      [] e.n = "var" -> <<"VAR">> \o Written(e.c[1]) \o PrintAll(Having(e.c, {"at"}))
             \o <<":">> \o Written(e.c[Len(e.c)]) \o <<";">>
      [] e.n = "at" -> <<"[">> \o Written(e.c[1]) \o <<"]">>
      [] e.n = "names" -> PrintSeq(e.c, <<",">>)
      [] e.n \in {"proc", "method"} -> ProcText(e)
      [] e.n = "body" -> PrintAll(SelectSeq(e.c, LAMBDA k : k.n \notin {"seq", "handler", "finally"})) \o Block(e.c)
      [] e.n = "forward" -> <<"FORWARD", ";">>
      [] e.n = "asm" -> <<"ASM", "END", ";">>
      [] e.n = "params" -> IF e.c = << >> THEN << >> ELSE <<"(">> \o PrintSeq(e.c, <<";">>) \o <<")">>
      [] e.n = "param" -> PrintAll(SubSeq(e.c, 1, 2)) \o (IF Len(e.c) = 3 THEN <<":">> \o Written(e.c[3]) ELSE << >>)
      [] e.n \in {"VAR", "CONST"} -> <<e.n>>
      [] e.n = "byvalue" -> << >>
      [] e.n = "returns" -> <<":">> \o Written(e.c[1])
      [] e.n = "attrs" -> <<"[">> \o PrintSeq(e.c, <<",">>) \o <<"]">>
      [] e.n = "linkage" -> <<"[">> \o Written(e.c[1]) \o (IF Len(e.c) > 1 THEN <<"FROM">> \o Written(e.c[2]) ELSE << >>) \o <<"]">>
      [] e.n \in {"CLASS", "INTERFACE"} -> ClassText(e)
      [] e.n = "inherit" -> <<"INHERIT">> \o PrintAll(e.c) \o <<";">>
      [] e.n = "implements" -> <<"IMPLEMENTS">> \o PrintSeq(e.c, <<",">>) \o <<";">>
      [] e.n = "reveal" -> <<"REVEAL">> \o PrintSeq(e.c, <<",">>) \o <<";">>
      [] e.n \in {"ABSTRACT", "OVERRIDE"} -> <<e.n>> \o PrintAll(e.c)
      [] OTHER -> << >>

PrintType(e) ==
    CASE e.n = "open" -> <<"ARRAY", "OF">> \o Written(e.c[1])
      [] e.n = "array" -> <<"ARRAY">> \o PrintSeq(Front(e.c), <<",">>) \o <<"OF">> \o Written(Last(e.c))
      [] e.n = "record" -> <<"RECORD">> \o PrintAll(e.c) \o <<"END">>
      [] e.n = "pointer" -> <<"POINTER", "TO">> \o Written(e.c[1])
      [] e.n = "proctype" -> <<"PROCEDURE", "(">> \o PrintSeq(Having(e.c, {"param"}), <<";">>) \o <<")">>
             \o PrintAll(Having(e.c, {"returns"})) \o PrintAll(Having(e.c, {"attrs"}))
      [] e.n = "setof" -> <<"SET", "OF">> \o Written(e.c[1])
      [] e.n = "packedset" -> <<"PACKEDSET", "OF">> \o Written(e.c[1])
      [] e.n = "enum" -> <<"(">> \o PrintSeq(e.c, <<",">>) \o <<")">>
      [] e.n = "valued" -> PrintSeq(e.c, <<"=">>)
      [] e.n = "subrange" -> <<"[">> \o PrintSeq(e.c, <<"..">>) \o <<"]">>
      [] e.n = "named" -> Written(e.c[1])
      [] e.n = "member" -> Written(e.c[1]) \o <<":">> \o Written(e.c[2]) \o <<";">>
      [] e.n = "variant" -> <<"CASE">> \o PrintAll(Having(e.c, {"tag"})) \o <<"OF">>
             \o PrintSeq(Having(e.c, {"variant_arm"}), <<"|">>) \o PrintAll(Having(e.c, {"variant_else"}))
             \o <<"END", ";">>
      [] e.n = "tag" -> IF Len(e.c) = 2 THEN PrintSeq(e.c, <<":">>) ELSE Written(e.c[1])
      [] e.n = "variant_arm" -> Written(e.c[1]) \o <<":">> \o PrintAll(Tail(e.c))
      [] e.n = "variant_else" -> <<"ELSE">> \o PrintAll(e.c)

PrintExpr(e) ==
    CASE e.n \in RelOps \cup AddOps \cup MulOps /\ Len(e.c) = 2 ->
             Operand(e.c[1], Level(e.n)) \o <<e.n>> \o Operand(e.c[2], Level(e.n) + 1)
      [] e.n = "neg" -> <<"-">> \o Operand(e.c[1], 3)
      [] e.n = "pos" -> <<"+">> \o Operand(e.c[1], 3)
      [] e.n = "NOT" -> <<"NOT">> \o Operand(e.c[1], 4)
      [] e.n = "qual" -> PrintSeq(e.c, <<".">>)
      [] e.n = "desig" -> PrintAll(e.c)
      [] e.n = "select" -> <<".">> \o Written(e.c[1])
      [] e.n = "index" -> <<"[">> \o PrintSeq(e.c, <<",">>) \o <<"]">>
      [] e.n = "deref" -> <<"^">>
      [] e.n = "set" -> <<"{">> \o PrintSeq(e.c, <<",">>) \o <<"}">>
      [] e.n = "typedset" -> Written(e.c[1]) \o <<"{">> \o PrintSeq(Tail(e.c), <<",">>) \o <<"}">>
      [] e.n = "range" -> PrintSeq(e.c, <<"..">>)
      [] e.n = "call" -> Written(e.c[1]) \o <<"(">> \o PrintSeq(Tail(e.c), <<",">>) \o <<")">>

PrintStmt(e) ==
    CASE e.n = "seq" -> PrintSeq(e.c, <<";">>)
      [] e.n = "assign" -> PrintSeq(e.c, <<":=">>)
      [] e.n = "if" -> IfText(e.c)
      [] e.n = "else" -> <<"ELSE">> \o PrintAll(e.c)
      [] e.n = "case" -> <<"CASE">> \o Written(e.c[1]) \o <<"OF">> \o ArmsThenElse(e.c)
      [] e.n = "guard" -> <<"GUARD">> \o Written(e.c[1]) \o <<"AS">> \o ArmsThenElse(e.c)
      [] e.n = "arm" /\ e.c[1].n = "labels" -> Written(e.c[1]) \o <<":">> \o Written(e.c[2])
      [] e.n = "arm" /\ e.c[1].n # "labels" ->
             PrintSeq(Front(e.c), <<":">>) \o <<"DO">> \o Written(Last(e.c))
      [] e.n = "labels" -> PrintSeq(e.c, <<",">>)
      [] e.n = "while" -> <<"WHILE">> \o Written(e.c[1]) \o <<"DO">> \o Written(e.c[2]) \o <<"END">>
      [] e.n = "repeat" -> <<"REPEAT">> \o Written(e.c[1]) \o <<"UNTIL">> \o Written(e.c[2])
      [] e.n = "for" -> <<"FOR", e.c[1].n, ":=">> \o Written(e.c[2]) \o <<"TO">> \o Written(e.c[3])
             \o PrintAll(Having(e.c, {"by"})) \o <<"DO">> \o Written(Last(e.c)) \o <<"END">>
      [] e.n = "by" -> <<"BY">> \o Written(e.c[1])
      [] e.n = "loop" -> <<"LOOP">> \o Written(e.c[1]) \o <<"END">>
      [] e.n = "with" -> <<"WITH">> \o Written(e.c[1]) \o <<"DO">> \o Written(e.c[2]) \o <<"END">>
      [] e.n = "exit" -> <<"EXIT">>
      [] e.n = "retry" -> <<"RETRY">>
      [] e.n = "return" -> <<"RETURN">> \o PrintAll(e.c)
      [] e.n = "handler" -> (IF e.c[1].n = "names" THEN Written(e.c[1]) \o <<":">> ELSE << >>) \o Written(Last(e.c))
      [] e.n = "finally" -> <<"FINALLY">> \o PrintAll(e.c)

TypeNodes == {"open", "array", "record", "pointer", "proctype", "setof", "packedset", "enum", "valued",
              "subrange", "named", "member", "variant", "tag", "variant_arm", "variant_else"}
StmtNodes == {"seq", "assign", "if", "else", "case", "guard", "arm", "labels", "while", "repeat", "for",
              "by", "loop", "with", "exit", "retry", "return", "handler", "finally"}
ExprNodes == RelOps \cup AddOps \cup MulOps \cup {"neg", "pos", "NOT", "qual", "desig", "select", "index",
              "deref", "set", "typedset", "range", "call"}

Written(e) ==
    CASE Words(e) -> <<e.n>>
      [] ~ Words(e) /\ e.n \in TypeNodes -> PrintType(e)
      [] ~ Words(e) /\ e.n \in StmtNodes -> PrintStmt(e)
      [] ~ Words(e) /\ e.n \in ExprNodes -> PrintExpr(e)
      [] OTHER -> PrintDecl(e)
=============================================================================
