------------------------------- MODULE Grammar -------------------------------
(***************************************************************************)
(* The language the parser is held to: the grammar of spec/0002-syntax.md  *)
(* as productions, and the precedence table of that document as levels,    *)
(* with the rules for generics, protocols, raises and handle from its      *)
(* later sections and from rfcs/0008 to 0010.                              *)
(*                                                                         *)
(* The parser departs from that grammar at five points.  Document has what *)
(* is written, Amended what the code does at each point, and Rules the     *)
(* grammar amended at the points of Amendments; Written does the same for  *)
(* the precedence table, and Lexer for spec/0001-lexical-grammar.md.       *)
(*                                                                         *)
(* A symbol that is no nonterminal is a terminal.  Five symbols are not    *)
(* EBNF: "Cond" is an Expression in which a record literal may not stand   *)
(* directly, "Open" one in which it may again, "{lit" the brace of such a  *)
(* literal, "novalue" the place after which the code reads a return or a   *)
(* break without a value, and "plain" the start of a body without a brace. *)
(***************************************************************************)
EXTENDS Parser

CONSTANT Amendments   \* the points at which the reference follows the code, not the document

Binary == DOMAIN Power

Document == [
  Module   |-> {<<>>, <<"Vis", "Item", "Module">>, <<"RootVis", "Attach", "Module">>},
  Vis      |-> {<<>>, <<"public">>},
  RootVis  |-> {<<>>},
  BodyVis  |-> {<<>>, <<"public">>},
  Item     |-> {<<"Func">>, <<"variant", "IDENT", "Gen", "{", "Cases", "}">>,
                <<"record", "IDENT", "Gen", "{", "Fields", "}">>,
                <<"resource", "IDENT", "{", "Fields", "}">>,
                <<"protocol", "IDENT", "TyPars", "{", "Members", "}">>},
  Attach   |-> {<<"extend", "Gen", "Type", "Uses", "{", "Funcs", "}">>,
                <<"import", "Path", "Alias", ";">>},
  Func     |-> {<<"func", "IDENT", "Gen", "(", "Params", ")", "Ret", "Uses", "Raises", "Block">>},
  Funcs    |-> {<<>>, <<"BodyVis", "Func", "Funcs">>},
  Members  |-> {<<>>, <<"func", "IDENT", "(", "Params", ")", "Ret", ";", "Members">>},
  Fields   |-> {<<>>, <<"Vis", "IDENT", ":", "Type">>, <<"Vis", "IDENT", ":", "Type", ",", "Fields">>},
  Cases    |-> {<<>>, <<"IDENT", "Payload">>, <<"IDENT", "Payload", ",", "Cases">>},
  Payload  |-> {<<>>, <<"(", "Payloads", ")">>},
  Payloads |-> {<<"Type">>, <<"Type", ",", "Payloads">>},
  Gen      |-> {<<>>, <<"TyPars">>},
  TyPars   |-> {<<"[", "Names", "]">>},
  Names    |-> {<<"IDENT">>, <<"IDENT", ",">>, <<"IDENT", ",", "Names">>},
  Path     |-> {<<"IDENT", "PathTail">>},
  PathTail |-> {<<>>, <<".", "IDENT", "PathTail">>},
  Alias    |-> {<<>>, <<"as", "IDENT">>},
  Params   |-> {<<>>, <<"Take", "IDENT", ":", "Type">>, <<"Take", "IDENT", ":", "Type", ",", "Params">>},
  Take     |-> {<<>>, <<"take">>},
  Ret      |-> {<<>>, <<"->", "Type">>},
  Uses     |-> {<<>>, <<"uses", "Clauses">>},
  Clauses  |-> {<<"Path", "Args">>, <<"Path", "Args", ",", "Clauses">>},
  Raises   |-> {<<>>, <<"raises", "Raised">>},
  Raised   |-> {<<"IDENT">>, <<"IDENT", ",", "Raised">>},
  Type     |-> {<<"IDENT", "Args">>},
  Args     |-> {<<>>, <<"[", "Types", "]">>},
  Types    |-> {<<"Type">>, <<"Type", ",">>, <<"Type", ",", "Types">>},
  Block    |-> {<<"{", "Stmts", "}">>},
  Stmts    |-> {<<>>, <<"Expr">>, <<"Stmt", "Stmts">>},
  Stmt     |-> {<<"Bind", "IDENT", "Annot", "=", "Expr", ";">>, <<"Expr", ";">>, <<"Braced">>,
                <<"drop", "Expr", ";">>, <<"defer", "Expr", ";">>,
                <<"while", "Cond", "Block">>, <<"loop", "Block">>,
                <<"observe", "Path", "as", "IDENT", "Block">>},
  Bind     |-> {<<"value">>, <<"mutable">>},
  Annot    |-> {<<>>, <<":", "Type">>},
  Expr     |-> {<<"Range", "ExprTail">>},
  ExprTail |-> {<<>>, <<"ASSIGN", "Expr">>},
  Range    |-> {<<"Chain", "RngTail">>},
  RngTail  |-> {<<>>, <<"RANGE", "Chain", "RngTail">>},
  Chain    |-> {<<"Unary", "ChnTail">>},
  ChnTail  |-> {<<>>, <<"BINARY", "Unary", "ChnTail">>},
  Unary    |-> {<<"PREFIX", "Unary">>, <<"Primary", "Postfix">>},
  Postfix  |-> {<<>>, <<"(", "Actuals", ")", "Postfix">>, <<".", "IDENT", "Postfix">>,
                <<"as", "Type", "Postfix">>, <<"?", "Postfix">>},
  Actuals  |-> {<<>>, <<"Open">>, <<"Open", ",", "Actuals">>},
  Primary  |-> {<<"LITERAL">>, <<"IDENT", "Args">>, <<"IDENT", "Args", "{lit", "Inits", "}">>,
                <<"(", "Open", ")">>, <<"Braced">>, <<"return", "Bare">>, <<"return", "Expr">>,
                <<"break", "Bare">>, <<"break", "Expr">>, <<"continue">>, <<"raise", "Expr">>,
                <<"handle", "Cond", "{", "Handles", "}">>},
  Inits    |-> {<<>>, <<"IDENT", ":", "Expr">>, <<"IDENT", ":", "Expr", ",", "Inits">>},
  Braced   |-> {<<"If">>, <<"Block">>, <<"match", "Cond", "{", "Matches", "}">>},
  If       |-> {<<"if", "Cond", "Block", "Else">>},
  Else     |-> {<<>>, <<"else", "If">>, <<"else", "Block">>},
  Bare     |-> {<<>>},
  Matches  |-> {<<>>, <<"Pat", "=>", "Expr", ",", "Matches">>, <<"Pat", "=>", "Block", "Matches">>},
  Handles  |-> {<<"Handled">>, <<"Handled", ",">>, <<"Handled", ",", "Handles">>},
  Handled  |-> {<<"success", "Pat", "=>", "Expr">>, <<"failure", "Failed", "=>", "Expr">>},
  Failed   |-> {<<"_">>, <<"CASE", ".", "IDENT">>, <<"CASE", ".", "IDENT", "(", "FailPats", ")">>},
  FailPats |-> {<<"Pat">>, <<"Pat", ",", "FailPats">>},
  Pat      |-> {<<"_">>, <<"PATLIT">>, <<"CASE">>, <<"CASE", "(", "Pats", ")">>},
  Pats     |-> {<<"Pat">>, <<"Pat", ",">>, <<"Pat", ",", "Pats">>},
  Body     |-> {<<"Block">>, <<"plain", "Expr">>},
  Comma    |-> {<<>>, <<",">>}]

\* What the code reads at each point in place of the document's productions:
\*  - visibility: private too, before any declaration, and none within extend;
\*  - payload: an empty list, or one that ends in a comma, after any case name;
\*  - range: one operator, no chain of them;
\*  - jump: no value only where a value could not start;
\*  - arm: a body that begins with a brace is a block, and any comma is optional.
Amended == [
  visibility |-> [Vis |-> {<<>>, <<"public">>, <<"private">>}, RootVis |-> {<<>>, <<"public">>, <<"private">>},
                  BodyVis |-> {<<>>}],
  payload |-> [Payloads |-> {<<>>, <<"Types">>}, FailPats |-> {<<>>, <<"Pat">>, <<"Pat", ",", "FailPats">>},
               Pats |-> {<<>>, <<"Pat">>, <<"Pat", ",", "Pats">>}],
  range |-> [RngTail |-> {<<>>, <<"RANGE", "Chain">>}],
  jump |-> [Bare |-> {<<"novalue">>}],
  arm |-> [Matches |-> {<<>>, <<"Pat", "=>", "Body", "Comma", "Matches">>},
           Handles |-> {<<>>, <<"Handled", "Comma", "Handles">>},
           Handled |-> {<<"success", "Pat", "=>", "Body">>, <<"failure", "Failed", "=>", "Body">>}]]

Rules ==
  [sym \in DOMAIN Document |->
     LET points == {a \in Amendments \cap DOMAIN Amended : sym \in DOMAIN Amended[a]}
     IN IF points = {} THEN Document[sym] ELSE UNION {Amended[a][sym] : a \in points}]

\* The tokens a terminal stands for.
Terminal(sym) ==
  CASE sym = "IDENT" -> Idents
    [] sym = "CASE" -> Idents \ {"_"}
    [] sym = "LITERAL" -> Literals
    [] sym = "PATLIT" -> Literals \ {"float"}
    [] sym = "BINARY" -> Binary
    [] sym = "PREFIX" -> PrefixOps
    [] sym = "ASSIGN" -> AssignOps
    [] sym = "RANGE" -> {"..", "..="}
    [] OTHER -> {sym}

\* The positions at which a phrase for sym that starts at i may end.
RECURSIVE Ends(_, _, _, _), RowEnds(_, _, _, _)
Ends(t, sym, i, bare) ==
  CASE sym = "Cond" -> Ends(t, "Expr", i, TRUE)
    [] sym = "Open" -> Ends(t, "Expr", i, FALSE)
    [] sym = "{lit" -> IF ~bare /\ t[i] = "{" THEN {i + 1} ELSE {}
    [] sym = "novalue" -> IF t[i] \in {";", "}", ",", "eof"} THEN {i} ELSE {}
    [] sym = "plain" -> IF t[i] # "{" THEN {i} ELSE {}
    [] sym \in DOMAIN Rules -> UNION {RowEnds(t, rhs, {i}, bare) : rhs \in Rules[sym]}
    [] OTHER -> IF t[i] \in Terminal(sym) THEN {i + 1} ELSE {}
RowEnds(t, rhs, starts, bare) ==
  IF rhs = <<>> \/ starts = {} THEN starts
  ELSE RowEnds(t, Tail(rhs), UNION {Ends(t, rhs[1], i, bare) : i \in starts}, bare)

IsModule(tokens) == Len(tokens) + 1 \in Ends(Append(tokens, "eof"), "Module", 1, FALSE)

-----------------------------------------------------------------------------
(* Expression trees as they are written: a child that binds looser than    *)
(* its place allows stands in parentheses.                                 *)

\* The row of the document's table, assignment 1 to primary 15.
Level(e) ==
  CASE e[1] = "assign" -> 1
    [] e[1] = "binary" /\ e[2] \in {"..", "..="} -> 2
    [] e[1] = "binary" /\ e[2] = "||" -> 3
    [] e[1] = "binary" /\ e[2] = "&&" -> 4
    [] e[1] = "binary" /\ e[2] = "|" -> 5
    [] e[1] = "binary" /\ e[2] = "^" -> 6
    [] e[1] = "binary" /\ e[2] = "&" -> 7
    [] e[1] = "binary" /\ e[2] \in {"==", "!="} -> 8
    [] e[1] = "binary" /\ e[2] \in {"<", "<=", ">", ">="} -> 9
    [] e[1] = "binary" /\ e[2] \in {"<<", ">>"} -> 10
    [] e[1] = "binary" /\ e[2] \in {"+", "-"} -> 11
    [] e[1] = "binary" /\ e[2] \in {"*", "/", "%"} -> 12
    [] e[1] = "unary" -> 13
    [] e[1] \in {"call", "field", "cast", "try"} -> 14
    [] OTHER -> 15

Placed(e, least) == IF Level(e) < least THEN <<"paren", e>> ELSE e
\* The tree with its parentheses: an operator's left operand may be of its own
\* level, its right operand only of a higher one; for assignment, which the
\* document notes as right-associative, it is the other way round.  The code
\* takes no operand of its own level for a range.
RECURSIVE Written(_)
Written(e) ==
  CASE e[1] = "assign" -> <<"assign", e[2], Placed(Written(e[3]), 2), Placed(Written(e[4]), 1)>>
    [] e[1] = "binary" -> <<"binary", e[2],
         Placed(Written(e[3]), IF Level(e) = 2 /\ "range" \in Amendments THEN 3 ELSE Level(e)),
         Placed(Written(e[4]), Level(e) + 1)>>
    [] e[1] = "unary" -> <<"unary", e[2], Placed(Written(e[3]), 13)>>
    [] e[1] = "call" -> <<"call", Placed(Written(e[2]), 14), [i \in DOMAIN e[3] |-> Written(e[3][i])]>>
    [] e[1] \in {"field", "cast"} -> <<e[1], Placed(Written(e[2]), 14), e[3]>>
    [] e[1] = "try" -> <<"try", Placed(Written(e[2]), 14)>>
    [] OTHER -> e

RECURSIVE Spell(_), SpellList(_), SpellType(_), SpellTypes(_)
SpellType(ty) == <<ty[2]>> \o (IF ty[3] = <<>> THEN <<>> ELSE <<"[">> \o SpellTypes(ty[3]) \o <<"]">>)
SpellTypes(tys) == IF tys = <<>> THEN <<>>
                   ELSE SpellType(tys[1]) \o (IF Len(tys) = 1 THEN <<>> ELSE <<",">>) \o SpellTypes(Tail(tys))
SpellList(es) == IF es = <<>> THEN <<>>
                 ELSE Spell(es[1]) \o (IF Len(es) = 1 THEN <<>> ELSE <<",">>) \o SpellList(Tail(es))
Spell(e) ==
  CASE e[1] \in {"lit", "ident"} -> <<e[2]>>
    [] e[1] = "paren" -> <<"(">> \o Spell(e[2]) \o <<")">>
    [] e[1] \in {"assign", "binary"} -> Spell(e[3]) \o <<e[2]>> \o Spell(e[4])
    [] e[1] = "unary" -> <<e[2]>> \o Spell(e[3])
    [] e[1] = "call" -> Spell(e[2]) \o <<"(">> \o SpellList(e[3]) \o <<")">>
    [] e[1] = "field" -> Spell(e[2]) \o <<".", e[3]>>
    [] e[1] = "cast" -> Spell(e[2]) \o <<"as">> \o SpellType(e[3])
    [] e[1] = "try" -> Spell(e[2]) \o <<"?">>
    [] e[1] = "record" -> <<e[2], "{">> \o (IF e[4] = <<>> THEN <<>> ELSE <<e[4][1][1], ":">> \o Spell(e[4][1][2])) \o <<"}">>
=============================================================================
