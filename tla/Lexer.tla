-------------------------------- MODULE Lexer --------------------------------
(***************************************************************************)
(* The scanner of compiler/src/lexer.  A text is a sequence of characters, *)
(* one-letter strings; a scanner s holds it with the position pos of the   *)
(* next character and the codes diags it has reported.  A token is the     *)
(* kind the parser sees it by: a keyword or an operator is its spelling,   *)
(* an identifier its name, a literal its kind, TokenKind::Error "invalid". *)
(* The value of an integer counts only against MaxLiteral; the contents of *)
(* strings and characters are left out.                                    *)
(***************************************************************************)
EXTENDS Naturals, Sequences, FiniteSets, SequencesExt, FiniteSetsExt

CONSTANTS MaxLiteral,  \* u128::MAX
          Amendments   \* the points at which the reference follows the code, not the document

Digits  == {"0", "1", "2", "3", "4", "5", "6", "7", "8", "9"}
Letters == {"a", "b", "c", "d", "e", "f", "g", "h", "i", "j", "k", "l", "m", "n", "o", "p", "q", "r", "s", "t",
            "u", "v", "w", "x", "y", "z", "A", "B", "C", "D", "E", "F", "R", "T", "_"}
Space   == {" ", "\t", "\r", "\n"}
Keywords == {"func", "value", "mutable", "const", "return", "if", "else", "while", "for", "in", "loop", "break",
             "continue", "true", "false", "record", "variant", "match", "protocol", "extend", "with", "import",
             "module", "public", "private", "uses", "raises", "raise", "handle", "success", "failure", "as", "is",
             "unsafe", "async", "await", "region", "defer", "resource", "take", "drop", "observe"}
Operators == {"+", "+=", "*", "*=", "/", "/=", "%", "%=", "^", "^=", "~", "-", "-=", "->", "=", "==", "=>", "!",
              "!=", "<", "<=", "<<", "<<=", ">", ">=", ">>", ">>=", "&", "&&", "&=", "|", "||", "|=", ".", "..",
              "..=", "(", ")", "[", "]", "{", "}", ",", ";", ":", "?"}
Escapes == {"n", "t", "r", "\\", "\"", "'", "0"}
Radix == [b |-> 2, o |-> 8, x |-> 16]
DigitsOf == [b |-> {"0", "1"}, o |-> Digits \ {"8", "9"}, x |-> Digits \cup {"a", "b", "c", "d", "e", "f", "A", "B", "C", "D", "E", "F"}]
DigitValue(c) ==
  LET order == <<"0", "1", "2", "3", "4", "5", "6", "7", "8", "9", "a", "b", "c", "d", "e", "f">>
      upper == [A |-> 10, B |-> 11, C |-> 12, D |-> 13, E |-> 14, F |-> 15]
  IN IF c \in DOMAIN upper THEN upper[c] ELSE (CHOOSE i \in DOMAIN order : order[i] = c) - 1

NoChar == ""
Scanner(text) == [text |-> text, pos |-> 1, diags |-> {}]
peek_at(s, n) == IF s.pos + n <= Len(s.text) THEN s.text[s.pos + n] ELSE NoChar
peek(s) == peek_at(s, 0)
bump(s) == IF peek(s) = NoChar THEN s ELSE [s EXCEPT !.pos = @ + 1]
push_error(s, code) == [s EXCEPT !.diags = @ \cup {code}]
Token(kind, s) == [k |-> kind, s |-> s]
Malformed(s, code) == Token("invalid", push_error(s, code))

\* The loops that bump while, or until, the next character is of a kind.
Stop(s, stops(_)) ==
  [s EXCEPT !.pos = Min({q \in s.pos..(Len(s.text) + 1) : q > Len(s.text) \/ stops(s.text[q])})]
While(s, chars) == Stop(s, LAMBDA c : c \notin chars)
Until(s, chars) == Stop(s, LAMBDA c : c \in chars)
Text(s, from) == FoldLeft(LAMBDA w, c : w \o c, "", SubSeq(s.text, from, s.pos - 1))

-----------------------------------------------------------------------------
(* Between tokens.                                                         *)

skip_block_comment(s) ==
  LET RECURSIVE inside(_, _)
      inside(c, depth) ==
        LET next == <<peek(c), peek_at(c, 1)>> IN
        CASE depth = 0 -> c
          [] depth > 0 /\ next = <<"/", "*">> -> inside(bump(bump(c)), depth + 1)
          [] depth > 0 /\ next = <<"*", "/">> -> inside(bump(bump(c)), depth - 1)
          [] depth > 0 /\ next[1] = NoChar -> push_error(c, "UNTERMINATED_COMMENT")
          [] OTHER -> inside(bump(c), depth)
  IN inside(bump(bump(s)), 1)
RECURSIVE skip_trivia(_)
skip_trivia(s) ==
  LET next == <<peek(s), peek_at(s, 1)>> IN
  CASE next[1] \in Space -> skip_trivia(bump(s))
    [] next = <<"/", "/">> -> skip_trivia(Until(s, {"\n"}))
    [] next = <<"/", "*">> -> skip_trivia(skip_block_comment(s))
    [] OTHER -> s

-----------------------------------------------------------------------------
(* Tokens.                                                                 *)

scan_ident(s) == LET e == While(s, Letters \cup Digits) IN Token(Text(e, s.pos), e)

\* Digits and underscores; an underscore stands between two digits.
scan_digit_group(s, digits) ==
  LET e == While(s, digits \cup {"_"})
      word == SubSeq(s.text, s.pos, e.pos - 1)
  IN [s |-> e, word |-> word,
      ok |-> /\ word # <<>> /\ word[1] # "_" /\ Last(word) # "_"
             /\ \A i \in 1..(Len(word) - 1) : word[i] # "_" \/ word[i + 1] # "_"]
ParsedInt(word, radix) ==
  FoldLeft(LAMBDA v, c : IF c = "_" THEN v ELSE v * radix + DigitValue(c), 0, word)
scan_radix_int(s, base) ==
  LET g == scan_digit_group(bump(bump(s)), DigitsOf[base])
  IN IF g.ok /\ ParsedInt(g.word, Radix[base]) <= MaxLiteral THEN Token("int", g.s)
     ELSE Malformed(g.s, "MALFORMED_NUMBER")
\* Mutant of Fraction: any point after the digits belongs to the number.
AnyPoint(s) ==
  IF peek(s) = "." THEN [scan_digit_group(bump(s), Digits) EXCEPT !.ok = TRUE]
  ELSE [s |-> s, word |-> <<>>, ok |-> TRUE]
\* The part after the point, if a digit follows it.
Fraction(s) ==
  IF peek(s) = "." /\ peek_at(s, 1) \in Digits THEN scan_digit_group(bump(s), Digits)
  ELSE [s |-> s, word |-> <<>>, ok |-> TRUE]
\* The exponent, if a digit follows the letter and its sign.
Exponent(s) ==
  LET signed == peek_at(s, 1) \in {"+", "-"}
  IN IF peek(s) \in {"e", "E"} /\ peek_at(s, IF signed THEN 2 ELSE 1) \in Digits
     THEN scan_digit_group(IF signed THEN bump(bump(s)) ELSE bump(s), Digits)
     ELSE [s |-> s, word |-> <<>>, ok |-> TRUE]
scan_number(s) ==
  LET whole == scan_digit_group(s, Digits)
      frac == Fraction(whole.s)
      exp == Exponent(frac.s)
      float == exp.s.pos > whole.s.pos
  IN IF peek(s) = "0" /\ peek_at(s, 1) \in DOMAIN Radix THEN scan_radix_int(s, peek_at(s, 1))
     ELSE IF whole.ok /\ frac.ok /\ exp.ok /\ (float \/ ParsedInt(whole.word, 10) <= MaxLiteral)
          THEN Token(IF float THEN "float" ELSE "int", exp.s)
     ELSE Malformed(exp.s, "MALFORMED_NUMBER")

\* From the backslash on; ok unless the escape is unknown or the text ends.
scan_escape(s) ==
  LET c == peek(bump(s))
      e == bump(bump(s))
  IN IF c \in Escapes THEN [s |-> e, ok |-> TRUE]
     ELSE [s |-> push_error(e, IF c = NoChar THEN "UNTERMINATED_STRING" ELSE "INVALID_ESCAPE"), ok |-> FALSE]
scan_string(s) ==
  LET RECURSIVE inside(_)
      inside(c) ==
        CASE peek(c) \in {NoChar, "\n"} -> Malformed(c, "UNTERMINATED_STRING")
          [] peek(c) = "\"" -> Token("string", bump(c))
          [] peek(c) = "\\" -> LET e == scan_escape(c)
                               IN IF ~e.ok /\ peek(e.s) = NoChar THEN Token("invalid", e.s) ELSE inside(e.s)
          [] OTHER -> inside(bump(c))
  IN inside(bump(s))
scan_raw_string(s) ==
  LET e == Until(bump(bump(s)), {"\""})
  IN IF peek(e) = NoChar THEN Malformed(e, "UNTERMINATED_STRING") ELSE Token("string", bump(e))
scan_char(s) ==
  LET open == bump(s)
      escape == scan_escape(open)
      value == IF peek(open) = "\\" THEN escape.s ELSE bump(open)
      end == Until(value, {"'", "\n"})
  IN CASE peek(open) = "'" -> Malformed(bump(open), "INVALID_CHAR_LITERAL")
       [] peek(open) = NoChar -> Malformed(open, "UNTERMINATED_CHAR")
       [] peek(open) = "\\" /\ ~escape.ok -> Token("invalid", escape.s)
       [] OTHER -> IF peek(value) = "'" THEN Token("char", bump(value))
                   ELSE Malformed(IF peek(end) = "'" THEN bump(end) ELSE end, "INVALID_CHAR_LITERAL")

\* One character more as long as the spelling is still an operator's.
scan_operator(s) ==
  LET RECURSIVE extend(_)
      extend(e) == IF Text(bump(e), s.pos) \in Operators /\ peek(e) # NoChar THEN extend(bump(e)) ELSE e
      first == bump(s)
  IN IF Text(first, s.pos) \in Operators THEN Token(Text(extend(first), s.pos), extend(first))
     ELSE Malformed(first, "UNEXPECTED_CHARACTER")

scan_token(s) ==
  LET c == peek(s) IN
  CASE c \in Digits -> scan_number(s)
    [] c = "r" /\ peek_at(s, 1) = "\"" -> scan_raw_string(s)
    [] c \in Letters /\ ~(c = "r" /\ peek_at(s, 1) = "\"") -> scan_ident(s)
    [] c = "\"" -> scan_string(s)
    [] c = "'" -> scan_char(s)
    [] OTHER -> scan_operator(s)

-----------------------------------------------------------------------------
(* The lexical grammar the scanner is held to, spec/0001, by where a       *)
(* spelling t[i..j] stands in a text t.  The scanner departs from it at    *)
(* one point, "digits": a digit that its base does not have ends a based   *)
(* integer, where the document makes it part of a malformed one.           *)

At(t, i, a, b) == i \in 1..(Len(t) - 1) /\ t[i] = a /\ t[i + 1] = b
In(t, i, j, chars) == \A q \in i..j : t[q] \in chars
Spelling(t, i, j) == FoldLeft(LAMBDA w, c : w \o c, "", SubSeq(t, i, j))

\* Blanks, line comments up to the end of their line, block comments that nest.
RECURSIVE IsComment(_, _, _), IsCommentBody(_, _, _), IsTrivia(_, _, _)
IsComment(t, i, j) == j >= i + 3 /\ At(t, i, "/", "*") /\ At(t, j - 1, "*", "/") /\ IsCommentBody(t, i + 2, j - 2)
IsCommentBody(t, i, j) ==
  \/ i > j
  \/ ~At(t, i, "/", "*") /\ ~At(t, i, "*", "/") /\ IsCommentBody(t, i + 1, j)
  \/ \E n \in i..j : IsComment(t, i, n) /\ IsCommentBody(t, n + 1, j)
IsTrivia(t, i, j) ==
  \/ i > j
  \/ t[i] \in Space /\ IsTrivia(t, i + 1, j)
  \/ \E n \in i..j : /\ \/ IsComment(t, i, n)
                        \/ At(t, i, "/", "/") /\ (\A q \in i..n : t[q] # "\n") /\ t[n + 1] = "\n"
                     /\ IsTrivia(t, n + 1, j)

\* Digits with underscores among them, and what of that is well formed.
IsGroup(t, i, j) == i <= j /\ t[i] \in Digits /\ In(t, i, j, Digits \cup {"_"})
IsExponent(t, i, j) ==
  i < j /\ t[i] \in {"e", "E"} /\ (IsGroup(t, i + 1, j) \/ (t[i + 1] \in {"+", "-"} /\ IsGroup(t, i + 2, j)))
IsFloat(t, i, j) ==
  \E a \in i..j : /\ IsGroup(t, i, a)
                  /\ \/ IsExponent(t, a + 1, j)
                     \/ \E b \in (a + 2)..j : t[a + 1] = "." /\ IsGroup(t, a + 2, b) /\ (b = j \/ IsExponent(t, b + 1, j))
IsBased(t, i, j) ==
  /\ i < j /\ t[i] = "0" /\ t[i + 1] \in DOMAIN Radix
  /\ In(t, i + 2, j, DigitsOf[t[i + 1]] \cup {"_"} \cup (IF "digits" \in Amendments THEN {} ELSE Digits))
IsNumber(t, i, j) == IsGroup(t, i, j) \/ IsFloat(t, i, j) \/ IsBased(t, i, j)
PlainDigit(t, i, q, j) == q \in i..j /\ t[q] \in (IF IsBased(t, i, j) THEN DigitsOf[t[i + 1]] ELSE Digits)
WellFormed(t, i, j) ==
  LET start == IF IsBased(t, i, j) THEN i + 2 ELSE i
      radix == IF IsBased(t, i, j) THEN Radix[t[i + 1]] ELSE 10
      places == {q \in start..j : t[q] # "_"}
      value == MapThenSumSet(LAMBDA q : DigitValue(t[q]) * radix ^ Cardinality({p \in places : p > q}), places)
  IN /\ start <= j
     /\ IsBased(t, i, j) => In(t, start, j, DigitsOf[t[i + 1]] \cup {"_"})
     /\ \A q \in start..j : t[q] = "_" => q > start /\ PlainDigit(t, i, q - 1, j) /\ PlainDigit(t, i, q + 1, j)
     /\ IsFloat(t, i, j) \/ value <= MaxLiteral

IsQuoted(t, i, j) ==
  LET escaped[q \in i..j] == q > i + 1 /\ t[q - 1] = "\\" /\ ~escaped[q - 1]
  IN /\ i < j /\ t[i] = "\"" /\ t[j] = "\"" /\ ~escaped[j]
     /\ \A q \in (i + 1)..(j - 1) : t[q] \in {"\"", "\n"} => escaped[q]
IsRaw(t, i, j) == At(t, i, "r", "\"") /\ j > i + 1 /\ t[j] = "\"" /\ \A q \in (i + 2)..(j - 1) : t[q] # "\""
IsCharacter(t, i, j) ==
  /\ j <= Len(t) /\ t[i] = "'" /\ t[j] = "'"
  /\ (j = i + 2 /\ t[i + 1] \notin {"'", "\\"}) \/ (j = i + 3 /\ t[i + 1] = "\\" /\ t[i + 2] \in Escapes)
IsLiteral(t, i, j) == IsNumber(t, i, j) \/ IsQuoted(t, i, j) \/ IsRaw(t, i, j) \/ IsCharacter(t, i, j)
StartsLiteral(t, i) == t[i] \in Digits \cup {"\"", "'"} \/ At(t, i, "r", "\"")
IsWord(t, i, j) == In(t, i, j, Letters \cup Digits) /\ t[i] \notin Digits

\* t[i..j] is what kind k makes of the token that starts at i.
IsTokenAt(t, i, j, k) ==
  LET fits == {n \in i..Len(t) : IF StartsLiteral(t, i) THEN IsLiteral(t, i, n)
                                 ELSE IsWord(t, i, n) \/ (n < i + 3 /\ Spelling(t, i, n) \in Operators)}
      sort == IF ~StartsLiteral(t, i) THEN Spelling(t, i, j)
              ELSE IF t[i] \in Digits THEN
                   IF ~WellFormed(t, i, j) THEN "invalid" ELSE IF IsFloat(t, i, j) THEN "float" ELSE "int"
              ELSE IF t[i] = "'" THEN "char"
              ELSE "string"
  IN IF fits = {} THEN k = "invalid" ELSE j = Max(fits) /\ k = sort
==============================================================================
