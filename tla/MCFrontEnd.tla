----------------------------- MODULE MCFrontEnd -----------------------------
(***************************************************************************)
(* The files the front end is checked on: texts of a few characters and a  *)
(* text with any character edited, programs that use each construct and    *)
(* every one-token edit of them, expression trees written out, damaged     *)
(* items before a sound one, and typed programs with one name, literal or  *)
(* operator exchanged for another.                                         *)
(***************************************************************************)
EXTENDS FrontEnd

\* The stages.  Each value is a LET, at which TLC's coverage statistics stop:
\* they would unfold the recursive operators below it at every use.
MCParseStage(p)          == LET r == parse_item(p) IN r
MCLowerStage(i, item, l) == LET r == LowerItem(i, item, l) IN r
MCDeclareStage(m)     == LET r == C!CheckDeclarations(m) IN r
MCCheckStage(f, c)       == LET r == C!check_function(f, c) IN r

Src(kind, ts) == [kind |-> kind, text |-> <<>>, tokens |-> ts, imports |-> <<>>, last |-> <<>>, written |-> <<>>]

Deleted(b, i) == SubSeq(b, 1, i - 1) \o SubSeq(b, i + 1, Len(b))
Replaced(b, i, k) == [b EXCEPT ![i] = k]
Inserted(b, i, k) == SubSeq(b, 1, i) \o <<k>> \o SubSeq(b, i + 1, Len(b))

-----------------------------------------------------------------------------
(* Texts.                                                                  *)

Tuples(chars, n) == [1..n -> chars]
SmallTexts ==
  {<<"1">> \o t : t \in Tuples({"1", "_", ".", "e", "-"}, 4)}
    \cup {<<"0">> \o t : t \in Tuples({"x", "b", "o", "1", "7", "_"}, 3)}
    \cup {<<"\"">> \o t : t \in Tuples({"\"", "\\", "'", "\n", "n"}, 4)}
    \cup {o \o t : o \in {<<"'">>, <<"r", "\"">>}, t \in Tuples({"\"", "\\", "'", "\n", "n"}, 3)}
    \cup {<<"/", "*">> \o t \o <<"a">> : t \in Tuples({"/", "*", "\n"}, 5)}
    \cup Tuples({"<", ">", "=", ".", "-", "&", "!", "$"}, 3)
Program == <<"f", "u", "n", "c", " ", "f", "(", ")", "{", "x", "=", "1", ".", ".", "x", ";", "\"", "r", "\"", ".", "f", ">", ">", "2", "/", "*", "/", "*",
             "*", "/", "'", "*", "/", "'", "\n", "}">>
EditChars == {"/", "*", "\"", "'", "\\", ".", "=", ">", "1", "\n", " "}
EditedTexts == {Program} \cup {Deleted(Program, i) : i \in DOMAIN Program}
  \cup {Replaced(Program, i, c) : i \in DOMAIN Program, c \in EditChars}
  \cup {Inserted(Program, i, c) : i \in 0..Len(Program), c \in EditChars}
CharSources == {[Src("chars", <<>>) EXCEPT !.text = t] : t \in SmallTexts \cup EditedTexts}

-----------------------------------------------------------------------------
(* Shapes: a program for each construct, edited anywhere.                  *)

Shapes == {
  <<"public", "func", "f", "[", "T", ",", "]", "(", "take", "x", ":", "T", ",", "y", ":", "T", ")", "->", "T",
    "uses", "P", "[", "T", "]", ",", "x", ".", "y", "raises", "E", "{", "x", "}">>,
  <<"record", "R", "[", "T", "]", "{", "public", "x", ":", "T", ",", "private", "y", ":", "R", "[", "T", "]", ",", "}">>,
  <<"resource", "R", "{", "x", ":", "T", "}">>,
  <<"variant", "E", "{", "A", ",", "B", "(", "T", ",", "T", ")", ",", "C", "(", ")", "}">>,
  <<"protocol", "P", "[", "T", "]", "{", "func", "m", "(", "x", ":", "T", ")", "->", "T", ";", "func", "n", "(", ")", ";", "}">>,
  <<"import", "x", ".", "y", "as", "z", ";">>,
  <<"func", "f", "(", ")", "{", "value", "x", ":", "T", "=", "y", "+", "int", ";", "mutable", "y", "=", "R",
    "{", "x", ":", "int", ",", "}", ";", "defer", "f", "(", "x", ")", ";", "drop", "x", ".", "y", ";", "x", "}">>,
  <<"func", "f", "(", ")", "{", "if", "x", "{", "y", "}", "else", "if", "y", "{", "}", "x", "=", "int", ";", "}">>,
  <<"func", "f", "(", ")", "{", "match", "x", "{", "A", "(", "y", ",", "_", ")", "=>", "y", ",", "true", "=>",
    "{", "int", "}", "_", "=>", "return", "}", "}">>,
  <<"func", "f", "(", ")", "{", "handle", "f", "(", ")", "?", "{", "success", "x", "=>", "x", ",", "failure", "E",
    ".", "A", "(", "_", ")", "=>", "raise", "y", ",", "failure", "_", "=>", "int", "}", "}">>,
  <<"func", "f", "(", ")", "{", "while", "x", "<", "y", "{", "break", ";", "}", "loop", "{", "continue", "}",
    "observe", "x", ".", "y", "as", "z", "{", "}", "}">>,
  <<"func", "f", "(", ")", "{", "if", "(", "R", "{", "x", ":", "int", "}", ")", ".", "x", "{", "}", "}">>,
  <<"func", "f", "(", ")", "{", "match", "x", "{", "}", "-", "int", ";", "{", "}", "f", "[", "T", "]", "(", "R",
    "[", "T", "]", "{", "}", ")", "as", "T", "}">>}
EditTokens == {"x", "int", ";", ",", "(", ")", "{", "}", "[", "]", ".", ":", "=", "func", "if", "return", "=>", "+", "invalid"}
Edits(b) == {b} \cup {Deleted(b, i) : i \in DOMAIN b}
  \cup {Replaced(b, i, k) : i \in DOMAIN b, k \in EditTokens}
  \cup {Inserted(b, i, k) : i \in 0..Len(b), k \in EditTokens}
LastItem == <<"func", "z", "(", ")", "{", "}">>
TextSources == UNION {{Src("text", e \o LastItem) : e \in Edits(b)} : b \in Shapes}

\* Damage that keeps the brackets and leaves no expression open before one.
LastFunc == <<"func", FALSE, "z", <<>>, <<>>, <<>>, <<>>, <<>>, <<"block", <<>>, None>>>>
Brackets == {"{", "}", "[", "]", "(", ")"}
Damage == EditTokens \ (Brackets \cup {"+", "=", "if"})
DamagedSources ==
  UNION {{[Src("damaged", Replaced(b, i, k) \o LastItem) EXCEPT !.last = LastFunc] :
            i \in {j \in DOMAIN b : b[j] \notin Brackets}, k \in Damage} : b \in Shapes}

-----------------------------------------------------------------------------
(* Trees: expressions of two operators, in every nesting.                  *)

X(name) == <<"ident", name>>
Ops == {"+", "*", "<<", "<", "==", "&", "^", "|", "&&", "||", ".."}
Small == {X("x"), <<"lit", "int">>}
OneOp == {<<"binary", op, X("x"), X("y")>> : op \in Ops}
         \cup {<<"unary", op, X("x")>> : op \in {"-", "!"}}
         \cup {<<"assign", "=", X("x"), X("y")>>, <<"call", X("f"), <<X("x")>>>>, <<"field", X("x"), "y">>,
               <<"cast", X("x"), <<"ty", "T", <<>>>>>>, <<"try", X("x")>>}
TwoOps == {<<"binary", op, a, X("z")>> : op \in Ops, a \in OneOp}
          \cup {<<"binary", op, X("z"), a>> : op \in Ops, a \in OneOp}
          \cup {<<"unary", "-", a>> : a \in OneOp}
          \cup {<<"assign", "+=", X("z"), a>> : a \in OneOp}
          \cup {<<"call", a, <<a>>>> : a \in OneOp}
          \cup {<<"field", a, "y">> : a \in OneOp} \cup {<<"try", a>> : a \in OneOp}
          \cup {<<"cast", a, <<"ty", "T", <<>>>>>> : a \in OneOp}
FuncOf(e) == <<"func", FALSE, "f", <<>>, <<>>, <<>>, <<>>, <<>>, <<"block", <<>>, e>>>>
TreeSources ==
  {[Src("tree", <<"func", "f", "(", ")", "{">> \o Spell(Written(e)) \o <<"}">>) EXCEPT !.written = <<FuncOf(Written(e))>>] :
     e \in TwoOps}

-----------------------------------------------------------------------------
(* Programs: what they declare is used as declared, but for one token.     *)

Programs == {
  <<"record", "R", "{", "x", ":", "i64", ",", "y", ":", "bool", "}",
    "func", "f", "(", "r", ":", "R", ")", "->", "i64", "{", "value", "x", "=", "r", ".", "x", ";",
    "{", "value", "x", "=", "r", ".", "y", ";", "if", "x", "{", "return", "int", ";", "}", "}",
    "mutable", "y", "=", "x", ";", "y", "+=", "x", ";", "y", "*", "int", "}">>,
  <<"variant", "E", "{", "A", ",", "B", "(", "i64", ")", ",", "C", "(", "bool", ")", "}",
    "func", "f", "(", "e", ":", "E", ",", "b", ":", "bool", ")", "->", "bool", "{",
    "match", "e", "{", "A", "=>", "b", ",", "B", "(", "x", ")", "=>", "x", "<", "int", ",", "C", "(", "y", ")", "=>", "!", "y", "}", "}">>,
  <<"record", "R", "[", "T", "]", "{", "x", ":", "T", "}",
    "func", "f", "[", "T", "]", "(", "a", ":", "T", ",", "b", ":", "R", "[", "T", "]", ")", "->", "T",
    "{", "if", "true", "{", "a", "}", "else", "{", "b", ".", "x", "}", "}",
    "func", "g", "(", ")", "->", "i64", "{", "f", "(", "int", ",", "R", "[", "i64", "]", "{", "x", ":", "int", "}", ")", "}">>,
  <<"func", "f", "(", "b", ":", "bool", ")", "->", "i64", "{", "mutable", "x", "=", "int", ";",
    "while", "b", "{", "x", "+=", "int", ";", "if", "b", "{", "break", ";", "}", "}",
    "loop", "{", "if", "b", "{", "continue", ";", "}", "return", "x", ";", "}", "}">>,
  <<"variant", "E", "{", "A", ",", "B", "(", "i64", ")", "}",
    "func", "f", "(", "b", ":", "bool", ")", "->", "i64", "raises", "E", "{",
    "if", "b", "{", "raise", "B", "(", "int", ")", ";", "}", "int", "}",
    "func", "g", "(", ")", "->", "i64", "raises", "E", "{", "f", "(", "true", ")", "?", "+", "int", "}",
    "public", "func", "h", "(", ")", "->", "i64", "{", "handle", "g", "(", ")", "{", "success", "x", "=>", "x", ",",
    "failure", "E", ".", "A", "=>", "int", ",", "failure", "E", ".", "B", "(", "y", ")", "=>", "y", "}", "}">>,
  <<"protocol", "P", "[", "T", "]", "{", "func", "m", "(", "x", ":", "T", ")", "->", "bool", ";", "}",
    "extend", "P", "[", "i64", "]", "{", "func", "m", "(", "x", ":", "i64", ")", "->", "bool", "{", "x", "<", "int", "}", "}",
    "func", "f", "[", "T", "]", "(", "x", ":", "T", ")", "->", "bool", "uses", "P", "[", "T", "]", "{",
    "P", "[", "T", "]", ".", "m", "(", "x", ")", "}",
    "func", "g", "(", ")", "->", "bool", "{", "f", "[", "i64", "]", "(", "int", ")", "}">>,
  <<"variant", "O", "[", "T", "]", "{", "S", "(", "T", ")", ",", "N", "}",
    "func", "f", "(", "o", ":", "O", "[", "i64", "]", ",", "b", ":", "bool", ")", "->", "i64", "{",
    "match", "o", "{", "S", "(", "x", ")", "=>", "x", ",", "N", "=>", "{", "if", "b", "{", "int", "}", "else", "{", "return", "int", "}", "}", "}", "}",
    "func", "g", "(", ")", "->", "i64", "{", "f", "(", "O", "[", "i64", "]", ".", "S", "(", "int", ")", ",", "false", ")", "}">>,
  <<"resource", "R", "{", "x", ":", "i64", "}",
    "func", "g", "(", "x", ":", "i64", ")", "{", "}",
    "func", "f", "(", "take", "r", ":", "R", ")", "->", "i64", "{", "mutable", "y", ":", "i64", "=", "int", ";",
    "defer", "g", "(", "y", ")", ";", "observe", "r", "as", "s", "{", "y", "=", "s", ".", "x", ";", "}", "drop", "r", ";", "y", "}">>}
Words == {"x", "y", "b", "r", "f", "g", "T", "R", "E", "i64", "bool", "int", "true", "_"}
Signs == {"+", "<", "==", "&&", "!", "=", "+="}
Exchanges(t) == IF t \in Idents \cup Literals THEN Words ELSE IF t \in Signs THEN Signs ELSE {}
ProgramSources ==
  UNION {{Src("program", b)} \cup UNION {{Src("program", Replaced(b, i, k)) : k \in Exchanges(b[i])} : i \in DOMAIN b} :
           b \in Programs}

-----------------------------------------------------------------------------
(* Imports: a name of each kind from another module, some of them taken.   *)

Import(name, kind, parts) ==
  [name |-> name, kind |-> kind, item |-> 90 + Len(parts), parts |-> parts, hidden |-> {"y"}, arity |-> 0]
ImportSources ==
  {[Src("imports", b) EXCEPT !.imports = <<Import("R", "record", <<"x", "y">>), i>>] :
     i \in {Import("E", "variant", <<"A", "B", "C">>), Import("f", "func", <<>>), Import("P", "protocol", <<"m">>),
            Import("R", "func", <<>>)},
     b \in Programs \cup Shapes}

-----------------------------------------------------------------------------
(* A case named by a pattern, and the same name in the body of its arm.    *)

CaseNamed ==
  <<"variant", "O", "{", "S", "(", "i64", ")", ",", "N", "}",
    "func", "f", "(", "o", ":", "O", ")", "->", "i64", "{",
    "match", "o", "{", "S", "(", "x", ")", "=>", "x", ",", "N", "=>", "int", "}", "}">>
CaseNamedSources == {Src("program", Replaced(CaseNamed, Len(CaseNamed) - 2, k)) : k \in Words \cup {"N"}}

-----------------------------------------------------------------------------
(* Where the code and the documents part: a jump inside a call, integers   *)
(* whose second digit may be none of their base's, and more among Shapes   *)
(* and TreeSources.                                                        *)

JumpInCall == <<"func", "f", "(", ")", "{", "f", "(", "return", ")", "}">>
PartingSources ==
  {Src("text", JumpInCall)}
  \cup {[Src("chars", <<>>) EXCEPT !.text = <<"0", base, "1", d>>] : base \in {"b", "o", "x"}, d \in L!Digits}

MCSources ==
  LET all == PartingSources \cup CharSources \cup TextSources \cup DamagedSources \cup TreeSources \cup ProgramSources \cup ImportSources
  IN all
=============================================================================
