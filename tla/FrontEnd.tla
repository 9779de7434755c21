------------------------------ MODULE FrontEnd ------------------------------
(***************************************************************************)
(* The front end on one source file (driver.rs, check): the scanner, the   *)
(* parser, then name resolution, then the type checker, each whatever the  *)
(* one before it reported.  A step is one token or one item of a stage, so *)
(* that what a stage keeps from one to the next is the state: the          *)
(* scanner's and the parser's position and budgets, the tables and scopes  *)
(* of the lowering, the context of the checker.  A file is a text or, for  *)
(* the questions that are not about spelling, the tokens of one.           *)
(*                                                                         *)
(* The composition is stated for any stages: what one of them does with    *)
(* one item is a constant, and its value the operator named there.         *)
(***************************************************************************)
EXTENDS Grammar, Trees, SequencesExt

CONSTANTS Sources,            \* the files: [kind, text, tokens, imports, last, written]
          Reserved,           \* numeric types that are not executable
          MaxUsefulnessSteps, MaxGenericInstances, MaxCapabilityDepth, MaxSteps,
          SampleDepth, Fuel,  \* of the reference runs
          MaxLiteral,         \* the largest integer the scanner reads
          ParseStage(_),      \* Parser: parse_item
          LowerStage(_, _, _),\* Resolve: LowerItem
          DeclareStage(_),    \* Check: CheckDeclarations
          CheckStage(_, _)    \* Check: check_function

L   == INSTANCE Lexer
C   == INSTANCE Check
Sem == INSTANCE Meaning

\* An identifier is a word that is no keyword.
ASSUME IdentsAssumption == Idents \cap L!Keywords = {}

VARIABLES source,   \* the file
          scanner,  \* the scanner's state
          tokens,   \* the tokens so far: [k, from, to]
          parser,   \* the parser's state
          items,    \* ast::Module.items
          phase,    \* the stage that runs: lex, parse, register, lower, check or done
          todo,     \* what is left of it, by position
          lowering, \* the tables of the lowering
          hir,      \* HirModule, in the order of lowering
          checker   \* the checker

vars == <<source, scanner, tokens, parser, items, phase, todo, lowering, hir, checker>>

Init ==
  /\ source \in Sources
  /\ scanner = L!Scanner(source.text) /\ tokens = <<>>
  /\ parser = Start(source.tokens) /\ items = <<>> /\ todo = <<>>
  /\ phase = IF source.text = <<>> THEN "parse" ELSE "lex"
  /\ lowering = Lowering /\ hir = <<>> /\ checker = C!NewChecker

Positions(xs) == [i \in DOMAIN xs |-> i]

ScanToken ==
  /\ phase = "lex" /\ L!peek(L!skip_trivia(scanner)) # L!NoChar
  /\ LET s == L!skip_trivia(scanner)
         t == L!scan_token(s)
     IN scanner' = t.s /\ tokens' = Append(tokens, [k |-> t.k, from |-> s.pos, to |-> t.s.pos - 1])
  /\ UNCHANGED <<source, parser, items, phase, todo, lowering, hir, checker>>
EndOfText ==
  /\ phase = "lex" /\ L!peek(L!skip_trivia(scanner)) = L!NoChar
  /\ scanner' = L!skip_trivia(scanner)
  /\ phase' = "parse" /\ parser' = Start([i \in DOMAIN tokens |-> tokens[i].k])
  /\ UNCHANGED <<source, tokens, items, todo, lowering, hir, checker>>

ParseItem ==
  /\ phase = "parse" /\ ~at_eof(parser)
  /\ LET r == ParseStage(parser)
         q == IF r.n = None THEN synchronize_to_item(r.p) ELSE r.p
     IN /\ parser' = IF q.pos = parser.pos THEN advance(q) ELSE q
        /\ items' = IF r.n = None THEN items ELSE Append(items, r.n)
  /\ UNCHANGED <<source, scanner, tokens, phase, todo, lowering, hir, checker>>

\* The imports enter the tables before the module's own names.
BeginLowering ==
  /\ phase = "parse" /\ at_eof(parser)
  /\ phase' = "register" /\ todo' = Positions(items)
  /\ lowering' = FoldLeft(LAMBDA l, i : ImportItem(i, l), lowering, source.imports)
  /\ UNCHANGED <<source, scanner, tokens, parser, items, hir, checker>>
Register ==
  /\ phase = "register" /\ todo # <<>>
  /\ lowering' = RegisterItem(items[todo[1]], lowering)
  /\ todo' = Tail(todo)
  /\ UNCHANGED <<source, scanner, tokens, parser, items, phase, hir, checker>>
BeginItems ==
  /\ phase = "register" /\ todo = <<>>
  /\ phase' = "lower" /\ todo' = LoweringOrder(items)
  /\ lowering' = CheckLeaks(items, lowering)
  /\ UNCHANGED <<source, scanner, tokens, parser, items, hir, checker>>
Lower ==
  /\ phase = "lower" /\ todo # <<>>
  /\ LET r == LowerStage(todo[1], items[todo[1]], lowering)
     IN lowering' = r.p /\ hir' = Append(hir, r.n)
  /\ todo' = Tail(todo)
  /\ UNCHANGED <<source, scanner, tokens, parser, items, phase, checker>>
\* An imported item's signature is another module's: such a file goes no further.
BeginBodies ==
  /\ phase = "lower" /\ todo = <<>> /\ source.imports = <<>>
  /\ phase' = "check" /\ todo' = C!Bodies(hir)
  /\ checker' = DeclareStage(hir)
  /\ UNCHANGED <<source, scanner, tokens, parser, items, lowering, hir>>
CheckBody ==
  /\ phase = "check" /\ todo # <<>>
  /\ checker' = CheckStage(todo[1], checker)
  /\ todo' = Tail(todo)
  /\ UNCHANGED <<source, scanner, tokens, parser, items, phase, lowering, hir>>
Finish ==
  /\ phase = "check" /\ todo = <<>>
  /\ phase' = "done"
  /\ checker' = C!finalize_defaults(checker)
  /\ UNCHANGED <<source, scanner, tokens, parser, items, todo, lowering, hir>>
Ended ==
  /\ phase = "done" \/ (phase = "lower" /\ todo = <<>> /\ source.imports # <<>>)
  /\ UNCHANGED vars

Next == ScanToken \/ EndOfText \/ ParseItem \/ BeginLowering \/ Register \/ BeginItems \/ Lower
          \/ BeginBodies \/ CheckBody \/ Finish \/ Ended

Spec == Init /\ [][Next]_vars

\* The stages' trees are trees of ast.rs and hir/mod.rs, and every number in HIR
\* names an item, a case, a field, a method, a type parameter or a local that is
\* in the tables: whatever was damaged, nothing is left dangling for the checker.
TypeOK ==
  /\ phase \in {"lex", "parse", "register", "lower", "check", "done"}
  /\ phase \in {"register", "done"} => All(items, IsItem)
  /\ phase \in {"lower", "done"} => \A i \in DOMAIN hir : IsHirItem(hir[i], lowering)
  /\ phase \in {"lower", "check", "done"} => lowering.scopes = << >> /\ DOMAIN lowering.tparams = {}

-----------------------------------------------------------------------------
(* Scanning.                                                               *)

\* The tokens lie in the text in order with nothing but blanks and whole comments
\* between them, and each is the longest spelling of a token of
\* spec/0001-lexical-grammar.md that starts there, amended at one point: the
\* document makes a digit that is none of its base an error, and the code ends the
\* integer before it (Amendments).  A literal that cannot be completed, an
\* underscore out of place and a character of no token are invalid, nothing else is, and whatever is invalid has been reported.  After the last
\* token only a comment that is never closed may be left, and that is reported.
LexedAsWritten ==
  LET after == IF tokens = <<>> THEN 1 ELSE Last(tokens).to + 1
      before == IF Len(tokens) < 2 THEN 1 ELSE tokens[Len(tokens) - 1].to + 1
  IN /\ phase = "lex" /\ tokens # <<>> =>
          LET t == Last(tokens)
          IN /\ L!IsTrivia(source.text, before, t.from - 1) /\ t.from <= t.to
             /\ L!IsTokenAt(source.text, t.from, t.to, t.k)
             /\ t.k = "invalid" => scanner.diags # {}
     /\ phase = "parse" /\ source.text # <<>> =>
          (L!IsTrivia(Append(source.text, "\n"), after, Len(source.text)) <=> "UNTERMINATED_COMMENT" \notin scanner.diags)

-----------------------------------------------------------------------------
(* Parsing.                                                                *)

Parsed == phase = "parse" /\ at_eof(parser)
Accepted == phase = "done" /\ scanner.diags = {} /\ parser.errs = 0 /\ lowering.diags = {} /\ checker.diags = {}

\* The parser accepts exactly the programs of the grammar: what recovery, the
\* ban on record literals in conditions and the statement rules add up to is the
\* language of spec/0002-syntax.md, amended at the points where the code reads
\* something else (Grammar!Amended has them).
AcceptsTheGrammar ==
  Parsed /\ source.kind # "program" =>
    (parser.errs = 0 /\ (\A i \in DOMAIN parser.t : parser.t[i] # "invalid") <=> IsModule(Front(parser.t)))

\* A tree written with the fewest parentheses its operators need is read back as
\* that tree: binding powers, associativity and postfix operators agree with the
\* precedence table of spec/0002-syntax.md but for the range operators, which the
\* document makes left-associative and the code does not chain (Amendments).
ReadBack ==
  Parsed /\ source.kind = "tree" => parser.errs = 0 /\ items = source.written

\* Damage inside one item does not cost a later one.  Between items the parser
\* holds nothing back, whatever was damaged: every level of expression depth it
\* claimed is released and record literals are allowed again; and the item after
\* the damaged one is there, as if it stood alone.
LaterItems ==
  /\ parser.depth = 0 /\ ~parser.bare
  /\ Parsed /\ source.kind = "damaged" => items # <<>> /\ items[Len(items)] = source.last

-----------------------------------------------------------------------------
(* The whole.                                                              *)

\* A program that no stage reported anything about never goes wrong when it is
\* run: no operator meets a value of another kind, no name is unbound, no match
\* falls through, no failure escapes undeclared, no function returns a value that
\* is not of its declared type.
AcceptedNeverGoesWrong == Accepted => ~Sem!GoesWrong(items, SampleDepth, Fuel)

\* The locals an expression, a statement or a block reads.
RECURSIVE Reads(_)
ReadsIn(xs) == UNION {Reads(xs[i]) : i \in DOMAIN xs}
Reads(x) ==
  IF x = None THEN {}
  ELSE CASE x[1] = "local" -> {x[2]}
    [] x[1] = "bind" -> Reads(x[5])
    [] x[1] = "observe" -> Reads(x[2]) \cup Reads(x[4])
    [] x[1] \in {"expr", "defer", "drop", "try", "raise", "return", "break", "field", "cast", "loop"} -> Reads(x[2])
    [] x[1] = "unary" -> Reads(x[3])
    [] x[1] \in {"binary", "assign"} -> Reads(x[3]) \cup Reads(x[4])
    [] x[1] = "call" -> Reads(x[2]) \cup ReadsIn(x[3])
    [] x[1] = "while" -> Reads(x[2]) \cup Reads(x[3])
    [] x[1] = "if" -> Reads(x[2]) \cup Reads(x[3]) \cup Reads(x[4])
    [] x[1] \in {"match", "handle"} -> Reads(x[2]) \cup UNION {Reads(x[3][i][3]) : i \in DOMAIN x[3]}
    [] x[1] = "record" -> UNION {Reads(x[4][i][2]) : i \in DOMAIN x[4]}
    [] x[1] = "block" -> ReadsIn(x[2]) \cup Reads(x[3])
    [] OTHER -> {}
\* Every local that an accepted body reads was given a type by the checker: what
\* the next stage, the lowering to NIR, takes for granted.
EveryLocalIsBound ==
  Accepted => \A i \in DOMAIN C!Bodies(hir) : Reads(C!Bodies(hir)[i].body) \subseteq DOMAIN checker.locals

\* What the stages after the parser report of a list of items.
LoweredAll(xs) ==
  FoldLeft(LAMBDA r, i : LET x == LowerStage(i, xs[i], r.p) IN Result(Append(r.n, x.n), x.p),
           Result(<<>>, CheckLeaks(xs, FoldLeft(LAMBDA l, x : RegisterItem(x, l), Lowering, xs))), LoweringOrder(xs))
ReportedOf(r) == r.p.diags \cup FoldLeft(LAMBDA c, f : CheckStage(f, c), DeclareStage(r.n), C!Bodies(r.n)).diags
Diagnosed(xs) == ReportedOf(LoweredAll(xs))
\* The order of the declarations in a file does not matter: with no name declared
\* twice, the items in reverse get the same diagnostics.
DeclarationOrderIsFree ==
  phase = "done" /\ "DUPLICATE_DEFINITION" \notin lowering.diags
    => Diagnosed(Reverse(items)) = lowering.diags \cup checker.diags
=============================================================================
