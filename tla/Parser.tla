------------------------------- MODULE Parser -------------------------------
(***************************************************************************)
(* The parser of compiler/src/parser: a recursive descent over a token     *)
(* sequence that ends with one "eof", with error recovery.                 *)
(*                                                                         *)
(* A token is a string: an identifier (a member of Idents), a keyword, a   *)
(* punctuation or one of the literal kinds.  A parser p is the record of   *)
(* the fields the code keeps: the tokens t, the position pos, the number   *)
(* errs of diagnostics, no_struct_literal (bare), expr_depth (depth) and   *)
(* reported_expression_too_deep (deep).  A parse is [n |-> node, p |->     *)
(* parser after it]; None is the code's Option::None.  Nodes are tuples    *)
(* headed by their kind; spans are left out.                               *)
(***************************************************************************)
EXTENDS Naturals, Sequences

CONSTANTS None,                 \* no node
          Idents,               \* identifier tokens; "_" is one of them
          MaxExpressionDepth,   \* MAX_EXPRESSION_DEPTH
          MaxPatternDepth,      \* limits::MAX_PATTERN_DEPTH
          MaxGenericDepth       \* limits::MAX_GENERIC_DEPTH

ErrorExpr == <<"error">>
Literals == {"int", "float", "string", "char", "true", "false"}
Result(node, p) == [n |-> node, p |-> p]

Start(tokens) == [t |-> Append(tokens, "eof"), pos |-> 1, errs |-> 0,
                  bare |-> FALSE, depth |-> 0, deep |-> FALSE]
current(p) == p.t[p.pos]
check(p, kind) == current(p) = kind
at_eof(p) == check(p, "eof")
advance(p) == IF p.pos < Len(p.t) THEN [p EXCEPT !.pos = @ + 1] ELSE p
eat(p, kind) == IF check(p, kind) THEN advance(p) ELSE p

\* A diagnostic, unless the lexer has already reported the token or an
\* expression has been found too deep.
error_expected(p) ==
  IF check(p, "invalid") \/ p.deep THEN p ELSE [p EXCEPT !.errs = @ + 1]
error_too_deep(p) == [p EXCEPT !.errs = @ + 1]
error_expression_too_deep(p) ==
  IF p.deep THEN p ELSE [p EXCEPT !.errs = @ + 1, !.deep = TRUE]

expect(p, kind) ==
  IF check(p, kind) THEN Result(kind, advance(p)) ELSE Result(None, error_expected(p))
expect_ident(p) ==
  IF current(p) \in Idents THEN Result(current(p), advance(p))
  ELSE Result(None, error_expected(p))
\* An expect whose failure does not end the construct.
Wanted(p, kind) == expect(p, kind).p

CanEnter(p) == p.depth < MaxExpressionDepth
enter_expression(p) ==
  IF CanEnter(p) THEN [p EXCEPT !.depth = @ + 1] ELSE error_expression_too_deep(p)
leave_expression(p, claimed) ==
  [p EXCEPT !.depth = IF @ >= claimed THEN @ - claimed ELSE 0]

-----------------------------------------------------------------------------
(* recovery.rs: skip to a token a construct may start at or end with.      *)

ItemStarts == {"func", "record", "variant", "protocol", "extend", "import",
               "public", "resource"}
StmtStarts == ItemStarts \cup {"value", "mutable", "defer", "drop", "if", "while",
               "loop", "observe", "match", "return", "break", "continue"}

RECURSIVE SkipTo(_, _, _)
SkipTo(p, stops, past) ==
  IF at_eof(p) \/ current(p) \in stops THEN p
  ELSE IF current(p) \in past THEN advance(p)
  ELSE SkipTo(advance(p), stops, past)

\* Mutant of synchronize_to_item: a function is not a place to start again.
SkipFunctions(p) == SkipTo(p, ItemStarts \ {"func"}, {";"})
synchronize_to_item(p) == SkipTo(p, ItemStarts, {";"})
synchronize_to_stmt(p) == SkipTo(p, StmtStarts \cup {"}"}, {";"})
synchronize_to_member_start(p) == SkipTo(p, {"}", "func"}, {})
synchronize_to_list_item(p) == SkipTo(p, {"}"}, {","})
synchronize_to_bracket_list_item(p) == SkipTo(p, {"]"}, {","})

-----------------------------------------------------------------------------
(* Constructs that are a fixed row of parts: the first part that fails     *)
(* ends the construct (the code's `?`).                                    *)

RECURSIVE Part(_, _), Parts(_, _), Elements(_, _, _, _), Members(_, _, _),
          parse_type_at_depth(_, _), parse_type_arg_list_at_depth(_, _),
          TypeArgs(_, _, _), PathTail(_, _), parse_pattern_at_depth(_, _),
          Cases(_, _), Payload(_, _), Fields(_, _), parse_function(_, _),
          parse_block(_), Statements(_, _), parse_expression(_), parse_assignment(_), parse_range(_),
          parse_binary(_, _), BinaryTail(_, _, _, _), parse_unary(_),
          parse_postfix(_), PostfixTail(_, _, _), parse_primary(_),
          RecordFields(_, _), Arms(_, _, _), parse_if_expr(_), PlaceTail(_, _, _)

\* `elem {"," elem} [","]` before the token close, none if the list may be empty.
Elements(p, elem, close, done) ==
  LET e == Part(p, elem) IN
  IF e.n = None THEN e
  ELSE LET c == eat(e.p, ",")
           all == Append(done, e.n) IN
       IF c.pos = e.p.pos \/ check(c, close) THEN Result(all, c)
       ELSE Elements(c, elem, close, all)
CommaList(p, elem, close) ==
  IF check(p, close) THEN Result(<<>>, p) ELSE Elements(p, elem, close, <<>>)
\* `elem {"," elem}`, with no comma allowed after the last one.
RECURSIVE Separated(_, _, _)
Separated(p, elem, done) ==
  LET e == Part(p, elem) IN
  IF e.n = None THEN e
  ELSE IF check(e.p, ",") THEN Separated(advance(e.p), elem, Append(done, e.n))
  ELSE Result(Append(done, e.n), e.p)

Optional(p, mark, elem) ==
  IF check(p, mark) THEN Part(advance(p), elem) ELSE Result(<<>>, p)

parse_type_param_list(p) ==
  LET open == expect(p, "[") IN
  IF open.n = None THEN open
  ELSE IF check(open.p, "]") THEN Result(<<>>, Wanted(error_expected(open.p), "]"))
  ELSE LET ps == Elements(open.p, <<"ident">>, "]", <<>>) IN
       IF ps.n = None THEN ps ELSE Result(ps.n, Wanted(ps.p, "]"))

TypeArgs(p, depth, done) ==
  LET ty == parse_type_at_depth(p, depth)
      found == ty.n # None
      all == IF found THEN Append(done, ty.n) ELSE done
      next == IF found THEN eat(ty.p, ",") ELSE synchronize_to_bracket_list_item(ty.p)
  IN IF \/ check(next, "]")
        \/ found /\ next.pos = ty.p.pos
        \/ ~found /\ at_eof(next)
     THEN Result(all, next) ELSE TypeArgs(next, depth, all)
parse_type_arg_list_at_depth(p, depth) ==
  LET open == expect(p, "[")
      args == IF depth > MaxGenericDepth
              THEN Result(<<>>, synchronize_to_bracket_list_item(error_too_deep(open.p)))
              ELSE IF check(open.p, "]") THEN Result(<<>>, error_expected(open.p))
              ELSE TypeArgs(open.p, depth, <<>>)
  IN IF open.n = None THEN open ELSE Result(args.n, Wanted(args.p, "]"))
parse_type_at_depth(p, depth) ==
  LET name == expect_ident(p)
      args == IF check(name.p, "[") THEN parse_type_arg_list_at_depth(name.p, depth + 1)
              ELSE Result(<<>>, name.p)
  IN IF name.n = None THEN name
     ELSE IF args.n = None THEN args
     ELSE Result(<<"ty", name.n, args.n>>, args.p)
parse_type(p) == parse_type_at_depth(p, 0)

PathTail(p, segments) ==
  IF ~check(p, ".") THEN Result(segments, p)
  ELSE LET seg == expect_ident(advance(p)) IN
       IF seg.n = None THEN seg ELSE PathTail(seg.p, Append(segments, seg.n))
parse_path(p) ==
  LET first == expect_ident(p) IN
  IF first.n = None THEN first ELSE PathTail(first.p, <<first.n>>)
parse_uses_clause(p) ==
  LET path == parse_path(p)
      args == IF check(path.p, "[") THEN parse_type_arg_list_at_depth(path.p, 0)
              ELSE Result(<<>>, path.p)
  IN IF path.n = None THEN path
     ELSE IF args.n = None THEN args
     ELSE Result(<<path.n, args.n>>, args.p)

\* One parameter: [take] name ":" type.
Param(p) ==
  LET r == Parts(eat(p, "take"), << <<"ident">>, <<"tok", ":">>, <<"type">> >>) IN
  IF r.n = None THEN r ELSE Result(<<check(p, "take"), r.n[1], r.n[3]>>, r.p)

Part(p, part) ==
  CASE part[1] = "tok"    -> expect(p, part[2])
    [] part[1] = "ident"  -> expect_ident(p)
    [] part[1] = "type"   -> parse_type(p)
    [] part[1] = "param"  -> Param(p)
    [] part[1] = "params" -> CommaList(p, <<"param">>, ")")
    [] part[1] = "clause" -> parse_uses_clause(p)
    [] part[1] = "path"   -> parse_path(p)
    [] part[1] = "generics" -> IF check(p, "[") THEN parse_type_param_list(p)
                               ELSE Result(<<>>, p)
    [] part[1] = "typarams" -> parse_type_param_list(p)
    [] part[1] = "returns" -> Optional(p, "->", <<"type">>)
    [] part[1] = "uses"   -> IF check(p, "uses") THEN Separated(advance(p), <<"clause">>, <<>>)
                             ELSE Result(<<>>, p)
    [] part[1] = "raises" -> IF check(p, "raises") THEN Separated(advance(p), <<"ident">>, <<>>)
                             ELSE Result(<<>>, p)
    [] part[1] = "alias"  -> IF check(p, "as") THEN Parts(advance(p), << <<"ident">> >>) ELSE Result(<<>>, p)
    [] part[1] = "expr"   -> parse_expression(p)
    [] part[1] = "pattern" -> parse_pattern_at_depth(p, part[2])
Parts(p, row) ==
  IF row = <<>> THEN Result(<<>>, p)
  ELSE LET head == Part(p, row[1])
           rest == Parts(head.p, Tail(row))
       IN IF head.n = None THEN head
          ELSE IF rest.n = None THEN rest
          ELSE Result(<<head.n>> \o rest.n, rest.p)

-----------------------------------------------------------------------------
(* Patterns.                                                               *)

parse_pattern_at_depth(p, depth) ==
  IF depth > MaxPatternDepth THEN Result(None, error_too_deep(p))
  ELSE IF check(p, "_") THEN Result(<<"wild">>, advance(p))
  ELSE IF current(p) \in Literals \ {"float"} THEN Result(<<"plit", current(p)>>, advance(p))
  ELSE IF current(p) \notin Idents THEN Result(None, error_expected(p))
  ELSE IF ~check(advance(p), "(") THEN Result(<<"bind", current(p)>>, advance(p))
  ELSE LET args == CommaList(advance(advance(p)), <<"pattern", depth + 1>>, ")")
           close == expect(args.p, ")")
       IN IF args.n = None THEN args
          ELSE IF close.n = None THEN close
          ELSE Result(<<"pcase", current(p), args.n>>, close.p)
parse_pattern(p) == parse_pattern_at_depth(p, 0)

parse_failure_pattern(p) ==
  IF check(p, "_") THEN Result(<<"wild">>, advance(p))
  ELSE LET name == Parts(p, << <<"ident">>, <<"tok", ".">>, <<"ident">> >>)
           args == IF check(name.p, "(") THEN CommaList(advance(name.p), <<"pattern", 0>>, ")")
                   ELSE Result(<<>>, name.p)
           close == IF check(name.p, "(") THEN expect(args.p, ")") ELSE args
       IN IF name.n = None THEN name
          ELSE IF args.n = None THEN args
          ELSE IF close.n = None THEN close
          ELSE Result(<<"fcase", name.n[1], name.n[3], args.n>>, close.p)

-----------------------------------------------------------------------------
(* Expressions.                                                            *)

Power == [op \in {"||", "&&", "|", "^", "&", "==", "!=", "<", "<=", ">", ">=",
                  "<<", ">>", "+", "-", "*", "/", "%"} |->
  CASE op = "||" -> 1 [] op = "&&" -> 2 [] op = "|" -> 3 [] op = "^" -> 4
    [] op = "&" -> 5 [] op \in {"==", "!="} -> 6 [] op \in {"<", "<=", ">", ">="} -> 7
    [] op \in {"<<", ">>"} -> 8 [] op \in {"+", "-"} -> 9 [] op \in {"*", "/", "%"} -> 10]
\* Mutant of infix_binding_power: shifts bind like comparisons.
ShiftsLoose(tok) == IF tok \in {"<<", ">>"} THEN 7
                    ELSE IF tok \in DOMAIN Power THEN Power[tok] ELSE 0
infix_binding_power(tok) == IF tok \in DOMAIN Power THEN Power[tok] ELSE 0
AssignOps == {"=", "+=", "-=", "*=", "/=", "%=", "&=", "|=", "^=", "<<=", ">>="}
PrefixOps == {"-", "!", "~"}

parse_expression(p) == parse_assignment(p)
\* Mutant of WithFlag: the flag stays as the inner expression had it.
FlagStays(p, bare) == parse_expression([p EXCEPT !.bare = bare])
\* An expression whose brace-less end is decided with the flag set as given.
WithFlag(p, bare) ==
  LET r == parse_expression([p EXCEPT !.bare = bare])
  IN Result(r.n, [r.p EXCEPT !.bare = p.bare])
parse_expression_no_struct_literal(p) == WithFlag(p, TRUE)

parse_assignment(p) ==
  LET left == parse_range(p) IN
  IF current(left.p) \notin AssignOps THEN left
  ELSE IF ~CanEnter(left.p) THEN Result(left.n, enter_expression(left.p))
  ELSE LET value == parse_assignment(advance(enter_expression(left.p)))
       IN Result(<<"assign", current(left.p), left.n, value.n>>,
                 leave_expression(value.p, 1))

parse_range(p) ==
  LET left == parse_binary(p, 1) IN
  IF current(left.p) \notin {"..", "..="} THEN left
  ELSE LET right == parse_binary(advance(left.p), 1)
       IN Result(<<"binary", current(left.p), left.n, right.n>>, right.p)

BinaryTail(left, p, min, claimed) ==
  LET bp == infix_binding_power(current(p))
      enter == enter_expression(p)
  IN IF bp = 0 \/ bp < min THEN Result(left, leave_expression(p, claimed))
     ELSE IF ~CanEnter(p) THEN Result(left, leave_expression(enter, claimed))
     ELSE LET right == parse_binary(advance(enter), bp + 1)
          IN BinaryTail(<<"binary", current(p), left, right.n>>, right.p, min, claimed + 1)
parse_binary(p, min) ==
  LET left == parse_unary(p) IN BinaryTail(left.n, left.p, min, 0)

parse_unary(p) ==
  IF ~CanEnter(p) THEN Result(ErrorExpr, enter_expression(p))
  ELSE LET q == enter_expression(p)
           e == IF current(q) \in PrefixOps
                THEN LET operand == parse_unary(advance(q))
                     IN Result(<<"unary", current(q), operand.n>>, operand.p)
                ELSE parse_postfix(q)
       IN Result(e.n, leave_expression(e.p, 1))

PostfixTail(e, p, claimed) ==
  LET q == enter_expression(p)
      next == advance(q)
  IN IF current(p) \notin {"(", ".", "as", "?"} THEN Result(e, leave_expression(p, claimed))
     ELSE IF ~CanEnter(p) THEN Result(e, leave_expression(q, claimed))
     ELSE
     CASE check(p, "(") ->
            LET args == CommaList([next EXCEPT !.bare = FALSE], <<"expr">>, ")")
            IN PostfixTail(<<"call", e, args.n>>,
                           Wanted([args.p EXCEPT !.bare = p.bare], ")"), claimed + 1)
       [] check(p, ".") ->
            LET name == expect_ident(next)
            IN IF name.n = None THEN Result(e, leave_expression(name.p, claimed + 1))
               ELSE PostfixTail(<<"field", e, name.n>>, name.p, claimed + 1)
       [] check(p, "as") ->
            LET ty == parse_type(next)
            IN IF ty.n = None THEN Result(e, leave_expression(ty.p, claimed + 1))
               ELSE PostfixTail(<<"cast", e, ty.n>>, ty.p, claimed + 1)
       [] check(p, "?") -> PostfixTail(<<"try", e>>, next, claimed + 1)
parse_postfix(p) == LET e == parse_primary(p) IN PostfixTail(e.n, e.p, 0)

RecordFields(p, done) ==
  IF check(p, "}") \/ at_eof(p) THEN Result(done, p)
  ELSE LET name == expect_ident(p) IN
       IF name.n = None THEN Result(done, synchronize_to_stmt(name.p))
       ELSE LET value == parse_expression(Wanted(name.p, ":"))
                all == Append(done, <<name.n, value.n>>)
            IN IF check(value.p, ",") THEN RecordFields(advance(value.p), all)
               ELSE Result(all, value.p)
parse_record_literal(name, args, p) ==
  LET fields == RecordFields(advance(p), <<>>)
  IN Result(<<"record", name, args, fields.n>>, Wanted(fields.p, "}"))

\* An identifier, with its type arguments and, where a record literal may
\* stand, its fields.
IdentExpr(p) ==
  LET name == current(p)
      args == IF check(advance(p), "[") THEN parse_type_arg_list_at_depth(advance(p), 0)
              ELSE Result(<<>>, advance(p))
  IN IF args.n = None THEN Result(ErrorExpr, args.p)
     ELSE IF ~p.bare /\ check(args.p, "{") THEN parse_record_literal(name, args.n, args.p)
     ELSE IF check(advance(p), "[") THEN Result(<<"apply", name, args.n>>, args.p)
     ELSE Result(<<"ident", name>>, args.p)

parse_optional_trailing_value(p) ==
  IF current(p) \in {";", "}", ",", "eof"} THEN Result(None, p) ELSE parse_expression(p)

parse_primary(p) ==
  CASE current(p) \in Literals -> Result(<<"lit", current(p)>>, advance(p))
    [] current(p) \in Idents -> IdentExpr(p)
    [] check(p, "(") -> LET inner == WithFlag(advance(p), FALSE)
                        IN Result(<<"paren", inner.n>>, Wanted(inner.p, ")"))
    [] check(p, "if") -> parse_if_expr(p)
    [] check(p, "match") -> LET e == parse_expression_no_struct_literal(advance(p))
                                arms == Arms(Wanted(e.p, "{"), "match", <<>>)
                            IN Result(<<"match", e.n, arms.n>>, Wanted(arms.p, "}"))
    [] check(p, "handle") -> LET e == parse_expression_no_struct_literal(advance(p))
                                 arms == Arms(Wanted(e.p, "{"), "handle", <<>>)
                             IN Result(<<"handle", e.n, arms.n>>, Wanted(arms.p, "}"))
    [] check(p, "{") -> parse_block(p)
    [] current(p) \in {"return", "break"} ->
         LET v == parse_optional_trailing_value(advance(p))
         IN Result(<<current(p), v.n>>, v.p)
    [] check(p, "continue") -> Result(<<"continue">>, advance(p))
    [] check(p, "raise") -> LET e == parse_expression(advance(p))
                            IN Result(<<"raise", e.n>>, e.p)
    [] OTHER -> Result(ErrorExpr, error_expected(p))

parse_if_expr(p) ==
  LET cond == parse_expression_no_struct_literal(advance(p))
      then == parse_block(cond.p)
      q == advance(then.p)
      els == CASE ~check(then.p, "else") -> Result(None, then.p)
               [] check(then.p, "else") /\ ~check(q, "if") -> parse_block(q)
               [] check(then.p, "else") /\ check(q, "if") /\ ~CanEnter(q) ->
                    Result(None, enter_expression(q))
               [] OTHER -> LET r == parse_if_expr(enter_expression(q))
                           IN Result(r.n, leave_expression(r.p, 1))
  IN Result(<<"if", cond.n, then.n, els.n>>, els.p)

parse_arm_body(p) == IF check(p, "{") THEN parse_block(p) ELSE parse_expression(p)
\* One arm of a match (pattern => body) or of a handle (success or failure).
Arm(p, kind) ==
  LET how == IF kind = "match" THEN "match"
             ELSE IF current(p) \in {"success", "failure"} THEN current(p)
             ELSE "neither"
      pat == CASE how = "match" -> parse_pattern(p)
               [] how = "success" -> parse_pattern(advance(p))
               [] how = "failure" -> parse_failure_pattern(advance(p))
               [] how = "neither" -> Result(None, error_expected(p))
      arrow == expect(pat.p, "=>")
      body == parse_arm_body(arrow.p)
  IN IF pat.n = None THEN pat
     ELSE IF arrow.n = None THEN arrow
     ELSE Result(<<how, pat.n, body.n>>, body.p)
Arms(p, kind, done) ==
  IF check(p, "}") \/ at_eof(p) THEN Result(done, p)
  ELSE LET arm == Arm(p, kind)
           q == eat(arm.p, ",")
       IN Arms(IF q.pos = p.pos THEN advance(q) ELSE q, kind,
               IF arm.n = None THEN done ELSE Append(done, arm.n))

-----------------------------------------------------------------------------
(* Blocks and statements.                                                  *)

PlaceTail(e, p, claimed) ==
  IF ~check(p, ".") THEN Result(e, leave_expression(p, claimed))
  ELSE IF ~CanEnter(p) THEN Result(e, leave_expression(enter_expression(p), claimed))
  ELSE LET name == expect_ident(advance(enter_expression(p)))
       IN IF name.n = None THEN Result(e, leave_expression(name.p, claimed + 1))
          ELSE PlaceTail(<<"field", e, name.n>>, name.p, claimed + 1)
parse_place_expr(p) ==
  LET root == expect_ident(p)
  IN IF root.n = None THEN root ELSE PlaceTail(<<"ident", root.n>>, root.p, 0)

\* The name of a binding or of an alias; a missing one is named by the placeholder.
Named(p) == LET name == expect_ident(p)
            IN Result(IF name.n = None THEN "<error>" ELSE name.n, name.p)

parse_binding_stmt(p) ==
  LET name == Named(advance(p))
      ty == IF check(name.p, ":") THEN parse_type(advance(name.p)) ELSE Result(None, name.p)
      value == parse_expression(Wanted(ty.p, "="))
  IN Result(<<current(p), name.n, ty.n, value.n>>, Wanted(value.p, ";"))
\* defer and drop: the keyword, an expression, a semicolon.
KeywordStmt(p) ==
  LET e == parse_expression(advance(p)) IN Result(<<current(p), e.n>>, Wanted(e.p, ";"))
parse_while_stmt(p) ==
  LET cond == parse_expression_no_struct_literal(advance(p))
      body == parse_block(cond.p)
  IN Result(<<"while", cond.n, body.n>>, body.p)
parse_loop_stmt(p) ==
  LET body == parse_block(advance(p)) IN Result(<<"loop", body.n>>, body.p)
parse_observe_stmt(p) ==
  LET source == parse_place_expr(advance(p))
      alias == Named(Wanted(source.p, "as"))
      q == enter_expression(alias.p)
      body == parse_block(q)
  IN IF source.n = None THEN source
     ELSE IF ~CanEnter(alias.p) THEN Result(None, q)
     ELSE Result(<<"observe", source.n, alias.n, body.n>>, leave_expression(body.p, 1))

EndsWithBrace == {"if", "match", "block"}
\* An expression statement, the block's tail, or None: recover.
ExprStmt(p) ==
  LET e == parse_expression(p) IN
  IF check(e.p, ";") THEN Result(<<"expr", e.n>>, advance(e.p))
  ELSE IF check(e.p, "}") \/ at_eof(e.p) THEN Result(<<"tail", e.n>>, e.p)
  ELSE IF e.n[1] \in EndsWithBrace THEN Result(<<"expr", e.n>>, e.p)
  ELSE Result(None, error_expected(e.p))
parse_statement_or_tail(p) ==
  CASE current(p) \in {"value", "mutable"} -> parse_binding_stmt(p)
    [] current(p) \in {"defer", "drop"} -> KeywordStmt(p)
    [] check(p, "while") -> parse_while_stmt(p)
    [] check(p, "loop") -> parse_loop_stmt(p)
    [] check(p, "observe") -> parse_observe_stmt(p)
    [] OTHER -> ExprStmt(p)

Statements(p, done) ==
  IF check(p, "}") \/ at_eof(p) THEN Result(<<"block", done, None>>, p)
  ELSE LET s == parse_statement_or_tail(p)
           q == IF s.n = None THEN synchronize_to_stmt(s.p) ELSE s.p
           r == IF q.pos = p.pos THEN advance(q) ELSE q
       IN IF s.n = None THEN Statements(r, done)
          ELSE IF s.n[1] = "tail" THEN Result(<<"block", done, s.n[2]>>, s.p)
          ELSE Statements(r, Append(done, s.n))
parse_block(p) ==
  IF ~check(p, "{") THEN Result(<<"block", <<>>, None>>, error_expected(p))
  ELSE LET body == Statements(advance(p), <<>>) IN Result(body.n, Wanted(body.p, "}"))

-----------------------------------------------------------------------------
(* Items.                                                                  *)

parse_visibility(p) == IF check(p, "public") THEN advance(p) ELSE eat(p, "private")

parse_function(p, public) ==
  LET head == Parts(advance(p), << <<"ident">>, <<"generics">>, <<"tok", "(">>, <<"params">>,
                                   <<"tok", ")">>, <<"returns">>, <<"uses">>, <<"raises">> >>)
      body == parse_block(head.p)
      h == head.n
  IN IF head.n = None THEN head
     ELSE Result(<<"func", public, h[1], h[2], h[4], h[6], h[7], h[8], body.n>>, body.p)

Fields(p, done) ==
  IF check(p, "}") \/ at_eof(p) THEN Result(done, p)
  ELSE LET name == expect_ident(parse_visibility(p))
           ty == parse_type(Wanted(name.p, ":"))
           all == Append(done, <<check(p, "public"), name.n, ty.n>>)
       IN IF name.n = None THEN Fields(synchronize_to_list_item(name.p), done)
          ELSE IF ty.n = None THEN Fields(synchronize_to_list_item(ty.p), done)
          ELSE IF check(ty.p, ",") THEN Fields(advance(ty.p), all)
          ELSE Result(all, ty.p)
\* A record has type parameters, a resource has none.
parse_record(p, public) ==
  LET row == IF check(p, "record") THEN << <<"ident">>, <<"generics">>, <<"tok", "{">> >>
             ELSE << <<"ident">>, <<"tok", "{">> >>
      head == Parts(advance(p), row)
      fields == Fields(head.p, <<>>)
  IN IF head.n = None THEN head
     ELSE Result(<<current(p), public, head.n[1],
                   IF check(p, "record") THEN head.n[2] ELSE <<>>, fields.n>>,
                 Wanted(fields.p, "}"))

\* The payload types of a case; one that is malformed is left out.
Payload(p, done) ==
  LET ty == parse_type(p)
      all == IF ty.n = None THEN done ELSE Append(done, ty.n)
      q == eat(ty.p, ",")
  IN IF q.pos = ty.p.pos \/ check(q, ")") THEN Result(all, q) ELSE Payload(q, all)
Cases(p, done) ==
  IF check(p, "}") \/ at_eof(p) THEN Result(done, p)
  ELSE LET name == expect_ident(p)
           open == check(name.p, "(")
           payload == IF ~open \/ check(advance(name.p), ")") THEN Result(<<>>, eat(name.p, "("))
                      ELSE Payload(advance(name.p), <<>>)
           q == IF open THEN Wanted(payload.p, ")") ELSE name.p
           all == Append(done, <<name.n, payload.n>>)
       IN IF name.n = None THEN Cases(synchronize_to_list_item(name.p), done)
          ELSE IF check(q, ",") THEN Cases(advance(q), all)
          ELSE Result(all, q)
parse_variant(p, public) ==
  LET head == Parts(advance(p), << <<"ident">>, <<"generics">>, <<"tok", "{">> >>)
      cases == Cases(head.p, <<>>)
  IN IF head.n = None THEN head
     ELSE Result(<<"variant", public, head.n[1], head.n[2], cases.n>>, Wanted(cases.p, "}"))

parse_protocol_member(p) ==
  LET head == Parts(p, << <<"tok", "func">>, <<"ident">>, <<"tok", "(">>, <<"params">>,
                          <<"tok", ")">>, <<"returns">> >>)
  IN IF head.n = None THEN head
     ELSE Result(<<head.n[2], head.n[4], head.n[6]>>, Wanted(head.p, ";"))
\* The members of a protocol or the functions of an extension.
Members(p, kind, done) ==
  IF check(p, "}") \/ at_eof(p) THEN Result(done, p)
  ELSE LET m == IF kind = "protocol" THEN parse_protocol_member(p)
                ELSE parse_function(p, FALSE)
           q == IF m.p.pos = p.pos THEN synchronize_to_member_start(m.p) ELSE m.p
       IN Members(q, kind, IF m.n = None THEN done ELSE Append(done, m.n))
parse_protocol(p, public) ==
  LET head == Parts(advance(p), << <<"ident">>, <<"typarams">>, <<"tok", "{">> >>)
      members == Members(head.p, "protocol", <<>>)
  IN IF head.n = None THEN head
     ELSE Result(<<"protocol", public, head.n[1], head.n[2], members.n>>,
                 Wanted(members.p, "}"))
parse_extend(p) ==
  LET head == Parts(advance(p), << <<"generics">>, <<"type">>, <<"uses">>, <<"tok", "{">> >>)
      functions == Members(head.p, "extend", <<>>)
  IN IF head.n = None THEN head
     ELSE Result(<<"extend", head.n[1], head.n[2], head.n[3], functions.n>>,
                 Wanted(functions.p, "}"))
parse_import(p) ==
  LET head == Parts(advance(p), << <<"path">>, <<"alias">> >>)
  IN IF head.n = None THEN head
     ELSE Result(<<"import", head.n[1], head.n[2]>>, Wanted(head.p, ";"))

parse_item(p) ==
  LET public == check(p, "public")
      q == parse_visibility(p)
  IN CASE check(q, "func") -> parse_function(q, public)
       [] current(q) \in {"record", "resource"} -> parse_record(q, public)
       [] check(q, "variant") -> parse_variant(q, public)
       [] check(q, "protocol") -> parse_protocol(q, public)
       [] check(q, "extend") -> parse_extend(q)
       [] check(q, "import") -> parse_import(q)
       [] OTHER -> Result(None, error_expected(q))
=============================================================================
