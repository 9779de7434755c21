-------------------------------- MODULE Hir --------------------------------
(***************************************************************************)
(* Resolved function bodies (compiler/src/hir), as far as ownership can    *)
(* tell them apart, with what the type checker records about them: the     *)
(* type of every expression, and `Never' for one that cannot complete.     *)
(*                                                                         *)
(* An expression or statement is a record whose field k is its kind:       *)
(*   scalar | local local | field base field | literal ty args             *)
(*   case ty args | call fn args | if cond then else | block stmts tail    *)
(*   match scrutinee arms | handle operand ok err | try e | raise e        *)
(*   return e | break | continue | assign target value | none              *)
(*   bind local mutable value | expr e | defer e | drop e                  *)
(*   while cond body | loop body | observe source alias body               *)
(* An arm is [pat, body]: a pattern, and a block or an expression.  A       *)
(* pattern is bind local | wild | case case args | lit value.              *)
(* A local is <<type, number>>; a node's id is its path from the function   *)
(* body.  Fields count from 1.                                             *)
(***************************************************************************)
EXTENDS Naturals, SequencesExt, FiniteSetsExt

CONSTANTS
    FieldTypes,         \* aggregate_field_types: item -> the types of its fields,
                        \* a variant's being the payloads of all its cases
    Cases,              \* variant -> the payload types of each case
    DeclaredResources,  \* the items declared `resource'
    Signatures          \* function -> [take : Seq(BOOLEAN), ret, raises]

None == [k |-> "none"]
VariantItems == DOMAIN Cases

-----------------------------------------------------------------------------
(***************************************************************************)
(* Affine types.                                                           *)
(***************************************************************************)

Items == DOMAIN FieldTypes

\* is_affine_item, is_affine_ty, compute_affine_items: a resource, or an
\* aggregate that holds one at any depth.
affine_items ==
    {item \in Items : \A S \in SUBSET Items :
        (\A i \in Items :
            i \in DeclaredResources \/ Range(FieldTypes[i]) \cap S # {} => i \in S)
        => item \in S}

is_affine(ty) == ty \in affine_items

\* decomposable_fields: a variant's fields are not places.
decomposable(ty) == ty \in Items \ VariantItems

affine_fields(ty) == {n \in DOMAIN FieldTypes[ty] : is_affine(FieldTypes[ty][n])}

-----------------------------------------------------------------------------
(***************************************************************************)
(* Types of expressions (typeck check_block, check_stmt and the parts of   *)
(* check_expr that decide whether control can come out).                   *)
(***************************************************************************)

\* Never joins with anything.
join_diverging_branches(a, b) == IF a = "Never" THEN b ELSE a

RECURSIVE loop_has_reachable_break(_), TypeOf(_), BlockType(_), StmtType(_)

\* The sub-expressions and blocks a `break' of the surrounding loop may be in.
BreakScope(n) ==
    CASE n.k = "block" -> Range(n.stmts) \cup {n.tail}
      [] n.k = "bind" -> {n.value}
      [] n.k \in {"expr", "defer", "drop", "try", "raise", "return"} -> {n.e}
      [] n.k = "observe" -> {n.body}
      [] n.k = "assign" -> {n.target, n.value}
      [] n.k \in {"call", "case", "literal"} -> Range(n.args)
      [] n.k = "field" -> {n.base}
      [] n.k = "if" -> {n.cond, n.then, n.else}
      [] n.k = "match" -> {n.scrutinee} \cup {n.arms[i].body : i \in DOMAIN n.arms}
      [] n.k = "handle" -> {n.operand, n.ok.body, n.err.body}
      [] OTHER -> {}

loop_has_reachable_break(n) ==
    n.k = "break" \/ \E m \in BreakScope(n) : loop_has_reachable_break(m)

StmtType(s) ==
    CASE s.k = "bind" -> TypeOf(s.value)
      [] s.k = "expr" -> TypeOf(s.e)
      [] s.k = "while" -> IF TypeOf(s.cond) = "Never" THEN "Never" ELSE "Unit"
      [] s.k = "loop" -> IF loop_has_reachable_break(s.body) THEN "Unit" ELSE "Never"
      [] s.k = "observe" -> IF BlockType(s.body) = "Never" THEN "Never" ELSE "Unit"
      [] OTHER -> "Unit"

BlockType(b) ==
    IF \E i \in DOMAIN b.stmts : StmtType(b.stmts[i]) = "Never" THEN "Never"
    ELSE IF b.tail = None THEN "Unit" ELSE TypeOf(b.tail)

TypeOf(e) ==
    CASE e.k = "local" -> e.local[1]
      [] e.k = "field" -> FieldTypes[TypeOf(e.base)][e.field]
      [] e.k \in {"literal", "case"} -> e.ty
      [] e.k = "call" -> Signatures[e.fn].ret
      [] e.k = "try" -> TypeOf(e.e)
      [] e.k = "block" -> BlockType(e)
      [] e.k = "if" -> IF e.else = None THEN "Unit"
                       ELSE join_diverging_branches(TypeOf(e.then), TypeOf(e.else))
      [] e.k = "match" -> FoldLeft(LAMBDA t, arm : join_diverging_branches(t, TypeOf(arm.body)),
                                   "Never", e.arms)
      [] e.k = "handle" -> join_diverging_branches(TypeOf(e.ok.body), TypeOf(e.err.body))
      [] e.k \in {"return", "break", "continue", "raise"} -> "Never"
      [] OTHER -> "Unit"

Diverges(e) == TypeOf(e) = "Never"

is_affine_expr(e) == is_affine(TypeOf(e))

-----------------------------------------------------------------------------
(***************************************************************************)
(* Places: a root local and a path of fields (place.rs).                   *)
(***************************************************************************)

Root(local) == <<local, <<>>>>

field_of(place, n) == <<place[1], Append(place[2], n)>>

prefix_of(place, n) == <<place[1], SubSeq(place[2], 1, n)>>

\* A place is an ancestor of itself.
is_ancestor_of(a, b) == a[1] = b[1] /\ IsPrefix(a[2], b[2])

places_overlap(a, b) == is_ancestor_of(a, b) \/ is_ancestor_of(b, a)

place_ty(place) ==
    FoldLeft(LAMBDA ty, n : FieldTypes[ty][n], place[1][1], place[2])

RECURSIVE is_place(_), resolve_place(_), pattern_locals(_)

is_place(e) == e.k = "local" \/ (e.k = "field" /\ is_place(e.base))

resolve_place(e) ==
    IF e.k = "local" THEN Root(e.local) ELSE field_of(resolve_place(e.base), e.field)

\* The locals a pattern binds, in order.
pattern_locals(pat) ==
    CASE pat.k = "bind" -> <<pat.local>>
      [] pat.k = "case" -> FlattenSeq([i \in DOMAIN pat.args |-> pattern_locals(pat.args[i])])
      [] OTHER -> <<>>
=============================================================================
