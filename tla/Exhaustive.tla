------------------------------ MODULE Exhaustive ------------------------------
(***************************************************************************)
(* The analysis of a match (typeck/exhaustive.rs): the usefulness of each  *)
(* arm against the arms before it, and of a wildcard against all of them.  *)
(***************************************************************************)
EXTENDS Usefulness

CONSTANTS Matches,          \* the matches analysed: [ty, rows]
          LiteralValues,    \* the values of an open type, for the reference
          Budgets           \* what MAX_USEFULNESS_STEPS may be

VARIABLE analysis   \* [ty, rows: the match; matrix: the arms already seen;
                    \*  budget; unreachable; exceeded; missing; done]

(***************************************************************************)
(* analyze_match_with_budget, one step per arm and one for the rest.       *)
(***************************************************************************)
NoAnalysis == [ty |-> Never, rows |-> <<>>, matrix |-> <<>>, budget |-> 0, unreachable |-> {},
               exceeded |-> TRUE, missing |-> <<>>, done |-> TRUE]

ExhaustiveInit ==
    \E m \in Matches, b \in Budgets :
        analysis = [NoAnalysis EXCEPT !.ty = m.ty, !.rows = m.rows, !.budget = b,
                                        !.exceeded = FALSE, !.done = FALSE]

AnalyzeArm ==
    LET i   == Len(analysis.matrix) + 1
        row == analysis.rows[i]
        r   == is_useful(analysis.matrix, row, analysis.ty, analysis.budget)
    IN /\ ~analysis.done
       /\ i <= Len(analysis.rows)
       /\ analysis' = IF r.u = "BudgetExceeded"
                      THEN [analysis EXCEPT !.exceeded = TRUE, !.done = TRUE, !.budget = r.budget]
                      ELSE [analysis EXCEPT
                              !.unreachable = @ \cup IF r.u = "NotUseful" THEN {i} ELSE {},
                              !.matrix = Append(@, <<row>>),
                              !.budget = r.budget]

AnalyzeRest ==
    LET r == is_useful(analysis.matrix, Wildcard, analysis.ty, analysis.budget)
    IN /\ ~analysis.done
       /\ Len(analysis.matrix) = Len(analysis.rows)
       /\ analysis' = [analysis EXCEPT
                         !.done     = TRUE,
                         !.budget   = r.budget,
                         !.exceeded = r.u = "BudgetExceeded",
                         !.missing  = IF r.u = "Useful" THEN SubSeq(r.row, 1, 1) ELSE <<>>]

ExhaustiveNext == AnalyzeArm \/ AnalyzeRest

(***************************************************************************)
(* The reference: the values of the type, and which pattern takes which.   *)
(* A value is written as the pattern that only it matches.                 *)
(***************************************************************************)
RECURSIVE Values(_, _)
RECURSIVE Tuples(_, _)
Tuples(tys, depth) ==
    IF tys = <<>> THEN {<<>>}
    ELSE {<<v>> \o t : v \in Values(tys[1], depth), t \in Tuples(Tail(tys), depth)}
Values(ty, depth) ==
    CASE space(ty) = "Bool" -> {BoolPat("false"), BoolPat("true")}
      [] space(ty) = "Open" -> {Literal(l) : l \in LiteralValues}
      [] OTHER -> IF depth = 0 THEN {}
                  ELSE UNION {{Case(ty.n, c, t) : t \in Tuples(PayloadOf(ty, ty.n, c), depth - 1)} :
                                c \in ToSet(CaseOrder[ty.n])}

RECURSIVE Takes(_, _)
Takes(pattern, value) ==
    \/ pattern = Wildcard
    \/ /\ pattern.p = value.p /\ pattern.v = value.v /\ pattern.n = value.n
       /\ \A i \in DOMAIN pattern.args : Takes(pattern.args[i], value.args[i])

MaxValueDepth == 3   \* bound: constructors nested in a value of the reference

\* A match that is accepted takes every value of its type, a witness reported
\* as missing stands for values that no arm takes, an arm reported unreachable
\* takes nothing the arms above it leave, and every other arm takes something:
\* the analysis is exact unless it says that its budget or its depth ran out,
\* and then it reports nothing missing.
MatchIsDecidedExactly ==
    analysis.done =>
        LET values == Values(analysis.ty, MaxValueDepth)
            rows   == analysis.rows
            taken(i, value) == \E j \in 1..i : Takes(rows[j], value)
        IN /\ \A i \in DOMAIN analysis.matrix :
                i \in analysis.unreachable
                  <=> \A value \in values : Takes(rows[i], value) => taken(i - 1, value)
           /\ analysis.exceeded => analysis.missing = <<>>
           /\ ~analysis.exceeded =>
                 /\ analysis.missing = <<>> <=> \A value \in values : taken(Len(rows), value)
                 /\ analysis.missing # <<>> =>
                      LET witness == analysis.missing[1]
                      IN \E value \in values :
                            Takes(witness, value) /\ ~taken(Len(rows), value)
=============================================================================
