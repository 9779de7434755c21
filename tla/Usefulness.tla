------------------------------ MODULE Usefulness ------------------------------
(***************************************************************************)
(* The usefulness of a pattern against the patterns above it               *)
(* (typeck/exhaustive.rs): Maranget's algorithm under a budget of steps    *)
(* and a bound on depth.  A pattern is a wildcard, a bool, a literal or a  *)
(* variant's case with one pattern per payload.                            *)
(***************************************************************************)
EXTENDS Types, SequencesExt

CONSTANTS Payloads,         \* VariantSpace.payloads: variant -> case -> types
          SpaceParams,      \* VariantSpace.type_params: variant -> parameters
          CaseOrder,        \* variant -> its cases in declaration order
          MaxPatternDepth   \* limits::MAX_PATTERN_DEPTH

Pat(p, v, n, args) == [p |-> p, v |-> v, n |-> n, args |-> args]
Wildcard     == Pat("any", "", "_", <<>>)
BoolPat(b)   == Pat("bool", "", b, <<>>)
Literal(l)   == Pat("lit", "", l, <<>>)
Case(v, c, args) == Pat("case", v, c, args)
BoolNames == <<"false", "true">>

\* The answers of is_useful carry the budget that is left.
Useful(row, budget)    == [u |-> "Useful", row |-> row, budget |-> budget]
NotUseful(budget)      == [u |-> "NotUseful", row |-> <<>>, budget |-> budget]
BudgetExceeded(budget) == [u |-> "BudgetExceeded", row |-> <<>>, budget |-> budget]

\* The payload types of a case in an instance of its variant.
PayloadOf(ty, v, c) ==
    LET args  == IF ty.k = "app" /\ ty.n = v THEN ty.args ELSE <<>>
        subst == Pairing(SpaceParams[v], args)
    IN [i \in DOMAIN Payloads[v][c] |-> substitute(Payloads[v][c][i], subst)]

space(ty) ==
    CASE ty = Bool -> "Bool"
      [] ty.k = "app" /\ ty.n \in DOMAIN Payloads -> "Variant"
      [] OTHER -> "Open"

Wildcards(n) == [i \in 1..n |-> Wildcard]

\* The rows a head keeps, without their own head: a wildcard always, another
\* pattern when it is the one asked for.
Keeping(matrix, Keep(_), arity) ==
    LET kept == SelectSeq(matrix, LAMBDA row : row[1] = Wildcard \/ Keep(row[1]))
    IN [i \in DOMAIN kept |->
          (IF kept[i][1] = Wildcard THEN Wildcards(arity) ELSE kept[i][1].args) \o Tail(kept[i])]

specialize_variant(matrix, v, c, arity) ==
    Keeping(matrix, LAMBDA head : head.p = "case" /\ head.v = v /\ head.n = c, arity)
specialize_bool(matrix, b)    == Keeping(matrix, LAMBDA head : head = BoolPat(b), 0)
specialize_literal(matrix, l) == Keeping(matrix, LAMBDA head : head = Literal(l), 0)

\* Mutant of default_matrix: the rows that name a literal stay in the matrix.
DefaultKeepsLiterals(matrix) == Keeping(matrix, LAMBDA head : head.p = "lit", 0)

default_matrix(matrix) == Keeping(matrix, LAMBDA head : FALSE, 0)

\* A witness of the specialised problem, with its first patterns put back
\* under the constructor they came from.
Rebuild(answer, Wrap(_), arity) ==
    IF answer.u # "Useful" THEN answer
    ELSE Useful(<<Wrap(SubSeq(answer.row, 1, arity))>> \o
                SubSeq(answer.row, arity + 1, Len(answer.row)), answer.budget)

RECURSIVE is_useful_at_depth(_, _, _, _, _)

\* try_each_bool and try_each_case: the wildcard is useful if it is for one of
\* the constructors, tried in order; a budget that runs out ends the search.
RECURSIVE try_each_bool(_, _, _, _, _, _)
try_each_bool(matrix, rest, tys, budget, depth, i) ==
    IF i > Len(BoolNames) THEN NotUseful(budget)
    ELSE LET b == BoolNames[i]
             r == is_useful_at_depth(specialize_bool(matrix, b), rest, tys, budget, depth + 1)
         IN IF r.u = "NotUseful" THEN try_each_bool(matrix, rest, tys, r.budget, depth, i + 1)
            ELSE Rebuild(r, LAMBDA none : BoolPat(b), 0)

RECURSIVE try_each_case(_, _, _, _, _, _, _)
try_each_case(matrix, ty, rest, tys, budget, depth, i) ==
    IF i > Len(CaseOrder[ty.n]) THEN NotUseful(budget)
    ELSE LET c       == CaseOrder[ty.n][i]
             payload == PayloadOf(ty, ty.n, c)
             arity   == Len(payload)
             r == is_useful_at_depth(specialize_variant(matrix, ty.n, c, arity),
                                     Wildcards(arity) \o rest, payload \o tys, budget, depth + 1)
         IN IF r.u = "NotUseful" THEN try_each_case(matrix, ty, rest, tys, r.budget, depth, i + 1)
            ELSE Rebuild(r, LAMBDA args : Case(ty.n, c, args), arity)

is_useful_at_depth(matrix, row, tys, budget, depth) ==
    IF depth > MaxPatternDepth \/ budget = 0 THEN BudgetExceeded(budget)
    ELSE IF row = <<>> THEN IF matrix = <<>> THEN Useful(<<>>, budget - 1) ELSE NotUseful(budget - 1)
    ELSE IF tys = <<>> THEN NotUseful(budget - 1)
    ELSE LET head == row[1]
             rest == Tail(row)
             ty   == tys[1]
             more == Tail(tys)
             left == budget - 1
         IN IF head.p = "case" THEN
                   LET v == head.v
                       c == head.n
                       arity == Len(head.args)
                   IN Rebuild(is_useful_at_depth(specialize_variant(matrix, v, c, arity),
                                                 head.args \o rest, PayloadOf(ty, v, c) \o more,
                                                 left, depth + 1),
                              LAMBDA args : Case(v, c, args), arity)
            ELSE IF head.p = "bool" THEN
                   Rebuild(is_useful_at_depth(specialize_bool(matrix, head.n), rest, more, left, depth + 1),
                           LAMBDA none : head, 0)
            ELSE IF head.p = "lit" THEN
                   Rebuild(is_useful_at_depth(specialize_literal(matrix, head.n), rest, more, left, depth + 1),
                           LAMBDA none : head, 0)
            ELSE IF space(ty) = "Bool" THEN try_each_bool(matrix, rest, more, left, depth, 1)
            ELSE IF space(ty) = "Variant" THEN try_each_case(matrix, ty, rest, more, left, depth, 1)
            ELSE
                   Rebuild(is_useful_at_depth(default_matrix(matrix), rest, more, left, depth + 1),
                           LAMBDA none : Wildcard, 0)

is_useful(matrix, pattern, ty, budget) == is_useful_at_depth(matrix, <<pattern>>, <<ty>>, budget, 0)
=============================================================================
