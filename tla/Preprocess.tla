----------------------------- MODULE Preprocess -----------------------------
(***************************************************************************)
(* Conditional compilation, src/src/newm2-lexer/src/preprocess.rs.         *)
(*                                                                         *)
(* A text is a sequence of units: a character, an identifier, or a         *)
(* directive word with its `%'.  A dead or erased unit becomes a blank of  *)
(* the same width, so widths are not modelled.                             *)
(***************************************************************************)
EXTENDS Integers, Sequences

At(t, i) == IF i \in DOMAIN t THEN t[i] ELSE "EOF"
At2(t, i, a, b) == At(t, i) = a /\ At(t, i + 1) = b
Least(S, none) == IF S = {} THEN none ELSE CHOOSE x \in S : \A y \in S : x <= y

Directives == {"%IF", "%ELSIF", "%ELSE", "%END", "%THEN", "%AND", "%OR", "%NOT", "%FOO"}
Blank(c) == IF c = "\n" THEN "\n" ELSE " "

-----------------------------------------------------------------------------
(* ExprParser.  A value is a kind and a text; a text is a sequence of      *)
(* units.  A result has the next position, or ok = FALSE.                  *)

Truthy(text) == text \notin {<< >>, <<"0">>, <<"false">>, <<"FALSE">>}
LookupValue(env, name) == IF name \in DOMAIN env THEN env[name] ELSE <<name>>
Lookup(env, name) == name \in DOMAIN env /\ Truthy(env[name])

RECURSIVE SkipWs(_, _)
SkipWs(t, i) == IF At(t, i) \in {" ", "\n"} THEN SkipWs(t, i + 1) ELSE i

Bad == [ok |-> FALSE]
Names == {"A", "B", "V"}
Numbers == {"0", "1"}

ParseValue(t, j) ==
    LET i == SkipWs(t, j)
        close == Least({k \in (i + 1)..Len(t) : t[k] = t[i]}, 0)
    IN  CASE At(t, i) \in Names -> [ok |-> TRUE, i |-> i + 1, ident |-> TRUE, text |-> <<t[i]>>]
          [] At(t, i) \in Numbers -> [ok |-> TRUE, i |-> i + 1, ident |-> FALSE, text |-> <<t[i]>>]
          [] At(t, i) = "'" /\ close > 0 ->
               [ok |-> TRUE, i |-> close + 1, ident |-> FALSE, text |-> SubSeq(t, i + 1, close - 1)]
          [] OTHER -> Bad

CompareText(env, v) == IF v.ident THEN LookupValue(env, v.text[1]) ELSE v.text

ParseComparison(t, i, env) ==
    LET l == ParseValue(t, i)
        at == SkipWs(t, l.i)
        r == ParseValue(t, at + 1)
        equal == CompareText(env, l) = CompareText(env, r)
    IN  IF ~ l.ok THEN Bad
        ELSE IF At(t, at) \in {"=", "#"}
        THEN IF ~ r.ok THEN Bad
             ELSE [ok |-> TRUE, i |-> r.i, v |-> IF t[at] = "=" THEN equal ELSE ~ equal]
        ELSE [ok |-> TRUE, i |-> at,
              v |-> IF l.ident THEN Lookup(env, l.text[1]) ELSE Truthy(l.text)]

RECURSIVE ParseOr(_, _, _), ParseAnd(_, _, _), ParseUnary(_, _, _), OrTail(_, _, _), AndTail(_, _, _)
ParsePrimary(t, j, env) ==
    LET i == SkipWs(t, j)
        e == ParseOr(t, i + 1, env)
        close == SkipWs(t, e.i)
    IN  IF At(t, i) # "(" THEN ParseComparison(t, i, env)
        ELSE IF ~ e.ok \/ At(t, close) # ")" THEN Bad
        ELSE [e EXCEPT !.i = close + 1]
ParseUnary(t, j, env) ==
    LET i == SkipWs(t, j)
        e == ParseUnary(t, i + 1, env)
    IN  IF At(t, i) # "%NOT" THEN ParsePrimary(t, i, env)
        ELSE IF e.ok THEN [e EXCEPT !.v = ~ @] ELSE Bad
AndTail(t, l, env) ==
    LET i == SkipWs(t, l.i)
        r == ParseUnary(t, i + 1, env)
    IN  IF At(t, i) # "%AND" THEN [l EXCEPT !.i = i]
        ELSE IF r.ok THEN AndTail(t, [r EXCEPT !.v = l.v /\ @], env) ELSE Bad
ParseAnd(t, i, env) ==
    LET l == ParseUnary(t, i, env) IN IF l.ok THEN AndTail(t, l, env) ELSE Bad
OrTail(t, l, env) ==
    LET i == SkipWs(t, l.i)
        r == ParseAnd(t, i + 1, env)
    IN  IF At(t, i) # "%OR" THEN [l EXCEPT !.i = i]
        ELSE IF r.ok THEN OrTail(t, [r EXCEPT !.v = l.v \/ @], env) ELSE Bad
ParseOr(t, i, env) ==
    LET l == ParseAnd(t, i, env) IN IF l.ok THEN OrTail(t, l, env) ELSE Bad

\* eval_expr: the whole text is one expression.
EvalExpr(t, env) ==
    LET e == ParseOr(t, 1, env)
    IN  IF e.ok /\ SkipWs(t, e.i) > Len(t) THEN e ELSE Bad

-----------------------------------------------------------------------------
(* Preproc: p has the position, the output, the stack of %IF branches, the *)
(* environment, and whether an error was reported.                         *)

Start(env) == [i |-> 1, out |-> << >>, stack |-> << >>, env |-> env, err |-> FALSE]
Fail(p) == [p EXCEPT !.err = TRUE]
Active(p) == \A k \in DOMAIN p.stack : p.stack[k].current_take

\* emit_byte up to position j, and erase_byte up to j.
Emit(p, t, j) ==
    [p EXCEPT !.i = j, !.out = @ \o [k \in 1..(j - p.i) |->
        IF Active(p) THEN t[p.i + k - 1] ELSE Blank(t[p.i + k - 1])]]

\* Mutant: a directive is cut out.
Erase_Cuts(p, t, j) == [p EXCEPT !.i = j]
Erase(p, t, j) ==
    [p EXCEPT !.i = j, !.out = @ \o [k \in 1..(j - p.i) |-> Blank(t[p.i + k - 1])]]

CopyString(p, t) ==
    LET stop == Least({k \in (p.i + 1)..Len(t) : t[k] \in {t[p.i], "\n"}}, 0)
    IN  IF stop = 0 \/ At(t, stop) = "\n" THEN Fail(p) ELSE Emit(p, t, stop + 1)

PragmaClosesWithinComment(t, i) ==
    LET ends == {k \in (i + 2)..Len(t) : At2(t, k, "*", ">") \/ At2(t, k, "*", ")")}
    IN  ends # {} /\ At(t, Least(ends, 0) + 1) = ">"

\* apply_pragma_body: only VERSION: defines its names, as true.
ApplyPragma(env, body) ==
    LET names == {body[k] : k \in DOMAIN body} \cap Names
    IN  IF body # << >> /\ body[1] = "/VERSION:"
        THEN [n \in names \cup DOMAIN env |-> IF n \in names THEN <<"true">> ELSE env[n]]
        ELSE env

CopyPragma(p, t) ==
    LET close == Least({k \in (p.i + 2)..Len(t) : At2(t, k, "*", ">")}, 0)
        env == ApplyPragma(p.env, SubSeq(t, p.i + 2, close - 1))
    IN  IF close = 0 THEN Fail(p)
        ELSE Emit([p EXCEPT !.env = IF Active(p) THEN env ELSE @], t, close + 2)

RECURSIVE CopyBlockComment(_, _, _)
CopyBlockComment(p, t, depth) ==
    CASE depth = 0 -> p
      [] depth > 0 /\ p.i > Len(t) -> Fail(p)
      [] depth > 0 /\ At2(t, p.i, "(", "*") -> CopyBlockComment(Emit(p, t, p.i + 2), t, depth + 1)
      [] depth > 0 /\ At2(t, p.i, "<", "*") ->
           CopyBlockComment(IF PragmaClosesWithinComment(t, p.i) THEN CopyPragma(p, t)
                            ELSE Emit(p, t, p.i + 1), t, depth)
      [] depth > 0 /\ At2(t, p.i, "*", ")") -> CopyBlockComment(Emit(p, t, p.i + 2), t, depth - 1)
      [] OTHER -> CopyBlockComment(Emit(p, t, p.i + 1), t, depth)

\* read_expr_then: the condition up to %THEN, which is erased with it.
ReadExprThen(p, t) ==
    LET stop == Least({k \in p.i..Len(t) : t[k] \in Directives \ {"%AND", "%OR", "%NOT"}}, 0)
        e == EvalExpr(SubSeq(t, p.i, stop - 1), p.env)
    IN  IF At(t, stop) # "%THEN" \/ ~ e.ok THEN [p |-> Fail(p), v |-> FALSE]
        ELSE [p |-> Erase(p, t, stop + 1), v |-> e.v]

Top(p) == p.stack[Len(p.stack)]
SetTop(p, take) ==
    [p EXCEPT !.stack[Len(p.stack)].current_take = take,
              !.stack[Len(p.stack)].any_taken = @ \/ take]

\* Mutant: %ELSIF forgets that an earlier branch was taken.
Elsif_ForgetsTaken(p, cond) == SetTop(p, Top(p).parent_active /\ cond)
Elsif(p, cond) == SetTop(p, Top(p).parent_active /\ ~ Top(p).any_taken /\ cond)

HandleDirective(p0, t) ==
    LET kw == t[p0.i]
        p == Erase(p0, t, p0.i + 1)
        c == ReadExprThen(p, t)
        take == Active(c.p) /\ c.v
    IN  CASE kw = "%IF" ->
               [c.p EXCEPT !.stack = Append(@, [parent_active |-> Active(c.p),
                                                any_taken |-> take, current_take |-> take])]
          [] kw = "%ELSIF" /\ p.stack # << >> -> Elsif(c.p, c.v)
          [] kw = "%ELSE" /\ p.stack # << >> -> SetTop(p, Top(p).parent_active /\ ~ Top(p).any_taken)
          [] kw = "%END" /\ p.stack # << >> -> [p EXCEPT !.stack = SubSeq(@, 1, Len(@) - 1)]
          [] OTHER -> Fail(p)

RECURSIVE Run(_, _)
Run(p, t) ==
    LET c == At(t, p.i)
        eol == Least({k \in p.i..Len(t) : t[k] = "\n"}, Len(t))
    IN  CASE p.err -> p
          [] ~ p.err /\ p.i > Len(t) -> IF p.stack = << >> THEN p ELSE Fail(p)
          [] ~ p.err /\ At2(t, p.i, "(", "*") -> Run(CopyBlockComment(Emit(p, t, p.i + 2), t, 1), t)
          [] ~ p.err /\ At2(t, p.i, "/", "/") -> Run(Emit(p, t, eol + 1), t)
          [] ~ p.err /\ c \in {"'", "Q"} -> Run(CopyString(p, t), t)
          [] ~ p.err /\ At2(t, p.i, "<", "*") -> Run(CopyPragma(p, t), t)
          [] ~ p.err /\ c \in Directives -> Run(HandleDirective(p, t), t)
          [] OTHER -> Run(Emit(p, t, p.i + 1), t)

\* preprocess, with the fast path for a text without `%'.
DoPreprocess(t, env) ==
    IF \A k \in DOMAIN t : t[k] \notin Directives
    THEN [err |-> FALSE, out |-> t]
    ELSE LET p == Run(Start(env), t) IN [err |-> p.err, out |-> p.out]
=============================================================================
