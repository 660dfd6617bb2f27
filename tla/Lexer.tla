------------------------------- MODULE Lexer --------------------------------
(***************************************************************************)
(* Tokens of a text, src/src/newm2-lexer/src/lib.rs.  A text is a sequence *)
(* of characters.  A token has a kind, a value and its first and last      *)
(* character; an error has kind ERR.  Integers are u64 in the code: the    *)
(* width is the constant MaxInteger.  A real keeps only its spelling.      *)
(***************************************************************************)
EXTENDS Preprocess, FiniteSets

CONSTANTS MaxInteger,   \* u64::MAX
          Keywords,     \* spellings of reserved words, as sequences of characters
          Alphabetic    \* letters used in texts

Digit == {"0", "1", "2", "7", "8", "9"}
HexLetter == {"A", "B", "C", "D", "E", "F", "a", "b"} \cap Alphabetic
DigitValue == [c \in Digit \cup {"A", "B", "C", "D", "E", "F", "a", "b"} |->
    CASE c = "0" -> 0 [] c = "1" -> 1 [] c = "2" -> 2 [] c = "7" -> 7 [] c = "8" -> 8
      [] c = "9" -> 9 [] c \in {"A", "a"} -> 10 [] c \in {"B", "b"} -> 11 [] c = "C" -> 12
      [] c = "D" -> 13 [] c = "E" -> 14 [] OTHER -> 15]
White == {" ", "\n"}
Printable == Digit \cup Alphabetic \cup White \cup {"+", "-", "*", "/", "&", "~", "=", "#",
    "<", ">", ":", ".", ",", ";", "(", ")", "[", "]", "{", "}", "|", "!", "^", "@", "'", "Q", "_"}

\* The first position from i on whose character is not in S.
Past(t, i, S) == Least({j \in i..Len(t) : t[j] \notin S}, IF i > Len(t) THEN i ELSE Len(t) + 1)
Slice(t, from, to) == SubSeq(t, from, to - 1)
Token(kind, val, from, to) == [kind |-> kind, val |-> val, from |-> from, to |-> to - 1]
LexError(i) == Token("ERR", << >>, i, i)

RECURSIVE RadixValue(_, _)
RadixValue(s, radix) ==
    IF s = << >> THEN 0
    ELSE RadixValue(SubSeq(s, 1, Len(s) - 1), radix) * radix + DigitValue[s[Len(s)]]

\* The position after the comment, 0 when it is not closed.
RECURSIVE SkipBlockComment(_, _, _)
SkipBlockComment(t, i, depth) ==
    CASE depth = 0 -> i
      [] depth > 0 /\ i > Len(t) -> 0
      [] depth > 0 /\ At2(t, i, "(", "*") -> SkipBlockComment(t, i + 2, depth + 1)
      [] depth > 0 /\ At2(t, i, "*", ")") -> SkipBlockComment(t, i + 2, depth - 1)
      [] OTHER -> SkipBlockComment(t, i + 1, depth)

RECURSIVE SkipTrivia(_, _)
SkipTrivia(t, i) ==
    LET close == SkipBlockComment(t, i + 2, 1)
    IN  CASE At(t, i) \in White -> SkipTrivia(t, i + 1)
          [] At2(t, i, "(", "*") -> IF close = 0 THEN 0 ELSE SkipTrivia(t, close)
          [] At2(t, i, "/", "/") -> SkipTrivia(t, Past(t, i, Printable \ {"\n"}))
          [] OTHER -> i

LexPragma(t, i) ==
    LET close == Least({k \in (i + 2)..Len(t) : At2(t, k, "*", ">")}, 0)
    IN  IF close = 0 THEN LexError(i)
        ELSE Token("PRAGMA", Slice(t, i + 2, close), i, close + 2)

LexIdent(t, i) ==
    LET to == Past(t, i, Alphabetic \cup Digit \cup {"_"})
        s == Slice(t, i, to)
    IN  Token(IF s \in Keywords THEN "KEYWORD" ELSE "IDENT", s, i, to)

Integer(digits, radix, i, to) ==
    IF RadixValue(digits, radix) > MaxInteger THEN LexError(i)
    ELSE Token("INTEGER", RadixValue(digits, radix), i, to)

All(s, S) == \A k \in DOMAIN s : s[k] \in S
Octal == {"0", "1", "2", "7"}

LexReal(t, i, dot) ==
    LET frac == Past(t, dot + 1, Digit)
        sign == IF At(t, frac + 1) \in {"+", "-"} THEN frac + 2 ELSE frac + 1
        to == IF At(t, frac) \in {"E", "e"} THEN Past(t, sign, Digit) ELSE frac
    IN  IF At(t, frac) \in {"E", "e"} /\ to = sign THEN LexError(i)
        ELSE Token("REAL", Slice(t, i, to), i, to)

\* lex_number: the run takes all that may be a hexadecimal digit; what
\* follows it, or its last character, says what it is.
LexNumber(t, i) ==
    LET to == Past(t, i, Digit \cup HexLetter)
        run == Slice(t, i, to)
        digits == SubSeq(run, 1, Len(run) - 1)
        last == run[Len(run)]
    IN  CASE At(t, to) \in {"H", "h"} -> Integer(run, 16, i, to + 1)
          [] At(t, to) = "." /\ At(t, to + 1) # "." ->
               IF All(run, Digit) THEN LexReal(t, i, to) ELSE LexError(i)
          [] OTHER ->
               IF last \in {"A", "a"}
               THEN IF digits # << >> /\ All(digits, {"0", "1"}) THEN Integer(digits, 2, i, to) ELSE LexError(i)
               ELSE IF last \in {"B", "b", "C", "c"}
               THEN IF digits = << >> \/ ~ All(digits, Octal) THEN LexError(i)
                    ELSE IF last \in {"B", "b"} THEN Integer(digits, 8, i, to)
                    ELSE Token("CHAR", RadixValue(digits, 8), i, to)
               ELSE IF All(run, Digit) THEN Integer(run, 10, i, to)
               ELSE LexError(i)

LexString(t, i) ==
    LET stop == Least({k \in (i + 1)..Len(t) : t[k] \in {t[i], "\n"}}, 0)
        to == IF At(t, stop + 1) \in {"U", "u", "A", "a"} THEN stop + 2 ELSE stop + 1
        body == Slice(t, i + 1, stop)
    IN  IF stop = 0 \/ At(t, stop) = "\n" THEN LexError(i)
        ELSE Token(IF Len(body) = 1 THEN "CHAR" ELSE "STRING", body, i, to)

TwoChar == {<<"<", "=">>, <<"<", ">">>, <<">", "=">>, <<":", "=">>, <<".", ".">>}
OneChar == {"+", "-", "*", "/", "&", "~", "=", "#", "<", ">", ":", ".", ",", ";",
            "(", ")", "[", "]", "{", "}", "|", "!", "^", "@"}

LexPunct(t, i) ==
    LET two == <<At(t, i), At(t, i + 1)>>
    IN  CASE two \in TwoChar -> Token("PUNCT", two, i, i + 2)
          [] two \notin TwoChar /\ At(t, i) \in OneChar ->
               Token("PUNCT", IF t[i] = "!" THEN <<"|">> ELSE <<t[i]>>, i, i + 1)
          [] OTHER -> LexError(i)

NextToken(t, j) ==
    LET i == SkipTrivia(t, j)
    IN  CASE i = 0 -> LexError(j)
          [] i > Len(t) -> Token("EOF", << >>, i, i)
          [] i \in DOMAIN t /\ At2(t, i, "<", "*") -> LexPragma(t, i)
          [] i \in DOMAIN t /\ At(t, i) \in Alphabetic \cup {"_"} -> LexIdent(t, i)
          [] i \in DOMAIN t /\ At(t, i) \in Digit -> LexNumber(t, i)
          [] i \in DOMAIN t /\ At(t, i) \in {"'", "Q"} -> LexString(t, i)
          [] OTHER -> LexPunct(t, i)

RECURSIVE TokensFrom(_, _)
TokensFrom(t, i) ==
    LET tok == NextToken(t, i)
    IN  IF tok.kind \in {"EOF", "ERR"} THEN <<tok>> ELSE <<tok>> \o TokensFrom(t, tok.to + 1)

Tokenize(t) == TokensFrom(t, 1)
=============================================================================
