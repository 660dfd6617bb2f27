------------------------------ MODULE FrontEnd ------------------------------
(***************************************************************************)
(* The front end as parse_file_with_env of                                 *)
(* src/src/newm2-loader/src/loader.rs runs it on one file: preprocess,     *)
(* tokenize, parse, each step feeding the next and the first error ending  *)
(* it; and the file's author, who writes it and edits it.                  *)
(*                                                                         *)
(* A word of the text is one unit: the lexer sees a word as a letter, so   *)
(* two words without a blank are one identifier.                           *)
(***************************************************************************)
EXTENDS Lexer, SourcePrinter

CONSTANTS
    Sources,     \* what the author may write: sources, see TextOf
    Env,         \* the names the driver defines for the preprocessor
    Edited,      \* the sources among them that the author goes on to edit
    EditUnits,   \* what an edit may put in the place of a token
    MaxEdits,    \* how often the author edits a file that was parsed
    Pass         \* the passes as functions, see Passes

VARIABLES
    source,      \* the source as the author wrote it
    edits,       \* edits since
    phase,       \* the step that is next, or how the last one ended
    text,        \* what the file holds
    live,        \* what the preprocessor leaves of it
    tokens,      \* spellings of the tokens
    tree         \* the module's tree

vars == <<source, edits, phase, text, live, tokens, tree>>

-----------------------------------------------------------------------------
(* What an author writes: a module, laid out in some way; a choice between *)
(* sources under conditions; a source behind a VERSION pragma.             *)

Module(m, layout) == [kind |-> "module", m |-> m, layout |-> layout]
Choice(arms, other) == [kind |-> "choice", arms |-> arms, other |-> other]
Version(name, s) == [kind |-> "version", name |-> name, s |-> s]

\* A condition is a tree over names, comparisons, %NOT, %AND and %OR.
RECURSIVE CondText(_, _), CondHolds(_, _)
CondText(c, level) ==
    LET is(n, l, inner) == IF l < level THEN <<"(">> \o inner \o <<" ", ")">> ELSE inner
    IN  CASE c.n = "%OR" -> is(c.n, 1, CondText(c.c[1], 1) \o <<" ", "%OR", " ">> \o CondText(c.c[2], 2))
          [] c.n = "%AND" -> is(c.n, 2, CondText(c.c[1], 2) \o <<" ", "%AND", " ">> \o CondText(c.c[2], 3))
          [] c.n = "%NOT" -> <<"%NOT", " ">> \o CondText(c.c[1], 3)
          [] c.n \in {"=", "#"} -> <<c.c[1].n, c.n, " ", c.c[2].n>>
          [] OTHER -> <<c.n>>

CondHolds(c, env) ==
    LET says(name) == IF name \in DOMAIN env THEN env[name] ELSE <<name>>
    IN  CASE c.n = "%OR" -> CondHolds(c.c[1], env) \/ CondHolds(c.c[2], env)
          [] c.n = "%AND" -> CondHolds(c.c[1], env) /\ CondHolds(c.c[2], env)
          [] c.n = "%NOT" -> ~ CondHolds(c.c[1], env)
          [] c.n = "=" -> says(c.c[1].n) = says(c.c[2].n)
          [] c.n = "#" -> says(c.c[1].n) # says(c.c[2].n)
          [] OTHER -> c.n \in DOMAIN env /\ env[c.n] \notin {<<"0">>, <<"FALSE">>}

\* The module the compiler has to see.
RECURSIVE Selected(_, _)
Selected(s, env) ==
    CASE s.kind = "module" -> s.m
      [] s.kind = "version" ->
           Selected(s.s, [n \in DOMAIN env \cup {s.name} |-> IF n = s.name THEN <<"true">> ELSE env[n]])
      [] s.kind = "choice" ->
           LET true == {k \in DOMAIN s.arms : CondHolds(s.arms[k].cond, env)}
           IN  IF true = {} THEN Selected(s.other, env)
               ELSE Selected(s.arms[CHOOSE k \in true : \A j \in true : k <= j].s, env)

\* The characters of a token.
Chars(tok) ==
    CASE tok = ":=" -> <<":", "=">> [] tok = ".." -> <<".", ".">> [] tok = "<=" -> <<"<", "=">>
      [] tok = ">=" -> <<">", "=">> [] tok = "<>" -> <<"<", ">">> [] tok = "11" -> <<"0", "B", "H">>
      [] tok = "STR" -> <<"'", "(", "*", "%IF", "'">> [] tok = "CHR" -> <<"1", "C">>
      [] OTHER -> <<tok>>

\* Whether two tokens need something between them.
Word(c) == c \in Alphabetic \cup Digit
Sticks(a, b) == (Word(a) /\ Word(b)) \/ (a = "'" /\ Word(b)) \/ <<a, b>> \in TwoChar

Comment == <<"(", "*", "%IF", "(", "*", "'", "*", ")", "<", "*", "*", ")">>
Gap(layout, a, b) ==
    CASE layout = "spaced" -> <<" ">>
      [] layout = "lines" -> <<"\n">>
      [] layout = "commented" -> Comment
      [] layout = "tight" -> IF Sticks(a, b) THEN <<" ">> ELSE << >>

RECURSIVE LaidOut(_, _)
LaidOut(toks, layout) ==
    IF Len(toks) < 2 THEN IF toks = << >> THEN << >> ELSE Chars(toks[1])
    ELSE Chars(toks[1]) \o Gap(layout, Last(Chars(toks[1])), Head(Chars(toks[2]))) \o LaidOut(Tail(toks), layout)

RECURSIVE TextOf(_)
TextOf(s) ==
    CASE s.kind = "module" -> LaidOut(Written(s.m), s.layout)
      [] s.kind = "version" -> <<"<", "*", "/VERSION:", s.name, "*", ">">> \o TextOf(s.s)
      [] s.kind = "choice" ->
           Between([k \in DOMAIN s.arms |->
               <<IF k = 1 THEN "%IF" ELSE "%ELSIF", " ">> \o CondText(s.arms[k].cond, 0)
               \o <<" ", "%THEN", "\n">> \o TextOf(s.arms[k].s)], << >>)
           \o <<"\n", "%ELSE", "\n">> \o TextOf(s.other) \o <<"\n", "%END">>

-----------------------------------------------------------------------------
NoTree == Leaf("none")

Number(n) == CASE n = 11 -> "11" [] n = 1 -> "1" [] n = 2 -> "2" [] n = 7 -> "7" [] OTHER -> "0"
Spelling(tok) ==
    CASE tok.kind \in {"IDENT", "KEYWORD"} -> IF Len(tok.val) = 1 THEN tok.val[1] ELSE "Other"
      [] tok.kind = "INTEGER" -> Number(tok.val)
      [] tok.kind = "STRING" -> "STR"
      [] tok.kind \in {"CHAR", "REAL"} -> "CHR"
      [] tok.kind = "PRAGMA" -> "PRAGMA"
      [] tok.kind = "PUNCT" -> (CASE tok.val = <<":", "=">> -> ":=" [] tok.val = <<".", ".">> -> ".."
                                  [] tok.val = <<"<", "=">> -> "<=" [] tok.val = <<">", "=">> -> ">="
                                  [] tok.val = <<"<", ">">> -> "<>" [] OTHER -> tok.val[1])

\* The parser steps over pragmas wherever it looks for a declaration or a statement.
Tokens(t) ==
    LET toks == Tokenize(t)
        kept == SelectSeq(Front(toks), LAMBDA tok : tok.kind # "PRAGMA")
    IN  [err |-> Last(toks).kind = "ERR", toks |-> [k \in DOMAIN kept |-> Spelling(kept[k])]]

\* A tree, or how the parser ended without one.
Parsed(toks) == LET r == ParseModule(toks)
                IN  [st |-> r.st, tree |-> IF r.st = "ok" THEN Last(r.c) ELSE NoTree]

\* The tree of toks written out and read again.
Again(toks) == LET out == Written(Parsed(toks).tree)
               IN  [written |-> out, read |-> Parsed(out)]

\* Each pass is a function of what it reads and of nothing else.  A run names
\* them through the constant Pass, so that TLC applies a pass to what comes up.
Passes(texts) ==
    LET print   == [s \in Sources |-> TextOf(s)]
        process == [t \in texts |-> DoPreprocess(t, Env)]
        scan    == [t \in texts |-> Tokens(t)]
        parse   == [t \in texts |-> Parsed(t)]
        again   == [t \in texts |-> Again(t)]
    IN  [print |-> print, process |-> process, scan |-> scan, parse |-> parse, again |-> again]

ASSUME PassAssumption ==
    \A s \in Sources :
        LET t == TextOf(s)
            p == DoPreprocess(t, Env)
            k == Tokens(p.out)
        IN  /\ Pass.print[s] = t /\ Pass.process[t] = p /\ Pass.scan[p.out] = k
            /\ Pass.parse[k.toks] = Parsed(k.toks)

Init ==
    /\ source \in Sources
    /\ edits = 0
    /\ phase = "preprocess"
    /\ text = Pass.print[source]
    /\ live = << >>
    /\ tokens = << >>
    /\ tree = NoTree

PreprocessFile ==
    /\ phase = "preprocess"
    /\ \E p \in {Pass.process[text]} :
        /\ phase' = IF p.err THEN "error" ELSE "tokenize"
        /\ live' = p.out
    /\ UNCHANGED <<source, edits, text, tokens, tree>>

TokenizeFile ==
    /\ phase = "tokenize"
    /\ \E r \in {Pass.scan[live]} :
        /\ phase' = IF r.err THEN "error" ELSE "parse"
        /\ tokens' = r.toks
    /\ UNCHANGED <<source, edits, text, live, tree>>

\* A parser in a loop without an end leaves the file in phase "hang".
ParseFile ==
    /\ phase = "parse"
    /\ \E r \in {Pass.parse[tokens]} :
        /\ phase' = IF r.st = "ok" THEN "done" ELSE r.st
        /\ tree' = r.tree
    /\ UNCHANGED <<source, edits, text, live, tokens>>

\* The author inserts, replaces or deletes a token of a module that was
\* parsed, or cuts it off there.
EditFile ==
    /\ phase = "done"
    /\ edits < MaxEdits
    /\ edits' = edits + 1
    /\ source \in Edited
    /\ \E k \in DOMAIN tokens, new \in {<<u>> : u \in EditUnits} \cup {<< >>}, cut \in {0, 1, Len(tokens)} :
           text' = LaidOut(SubSeq(tokens, 1, k - 1) \o new \o SubSeq(tokens, k + cut, Len(tokens)), "spaced")
    /\ phase' = "preprocess"
    /\ live' = << >> /\ tokens' = << >> /\ tree' = NoTree
    /\ UNCHANGED source

Next == PreprocessFile \/ TokenizeFile \/ ParseFile \/ EditFile

Spec == Init /\ [][Next]_vars

-----------------------------------------------------------------------------
(* Properties.                                                             *)

\* A file as its author wrote it is accepted, and what is compiled is the
\* module its conditions select, with the structure the author meant:
\* whatever the layout, the comments, the directives quoted in comments and
\* strings, the nesting of conditions, and the precedence of operators.
CompilesWhatWasMeant ==
    edits = 0 => /\ phase # "error"
                 /\ phase = "done" => tree = Selected(source, Env)

\* The preprocessor moves nothing: what is left is as long as the file, has
\* its line ends, and each unit of it is the file's own or a blank, so that
\* the positions in diagnostics are positions in the file.
KeepsPositions ==
    phase \in {"tokenize", "parse", "done"} =>
        /\ Len(live) = Len(text)
        /\ \A k \in DOMAIN text : /\ live[k] \in {text[k], " "}
                                  /\ text[k] = "\n" => live[k] = "\n"

\* The names and literals; the host of a subrange B[1..7] is read and ignored.
RECURSIVE ValueTokens(_)
ValueTokens(toks) ==
    IF toks = << >> THEN << >>
    ELSE LET host == Tok(toks, 2) = "[" /\ DotDotInside(toks, 3, 0)
         IN  (IF toks[1] \in Idents \cup Ints \cup Strings /\ ~ host THEN <<toks[1]>> ELSE << >>)
             \o ValueTokens(Tail(toks))

\* An edited file is rejected or understood in full: written out again, the
\* tree has the file's names, numbers and strings in the file's order, and is
\* read back as the same tree.  But for the host type of a subrange, nothing
\* the author typed is dropped silently.
ReadsBack ==
    phase = "done" =>
        LET a == Pass.again[tokens]
        IN  /\ ValueTokens(a.written) = ValueTokens(tokens)
            /\ a.read = [st |-> "ok", tree |-> tree]
=============================================================================
