--------------------------- MODULE ResourceCheck ---------------------------
(***************************************************************************)
(* The resource checker (compiler/src/resourceck/flow.rs): one pass over a  *)
(* function body that follows the state of every affine place, refuses     *)
(* what would use, leak or destroy a resource twice, and plans for the     *)
(* lowering what each exit must clean up.                                  *)
(*                                                                         *)
(* The checker's fields are the record `c':                                *)
(*   states      place -> Available | Moved | Dropped | DropScheduled | Error *)
(*   observing   the ordinary affine parameters                            *)
(*   pending     pending_cleanup: <<"Drop", place>> and <<"Defer", id>>    *)
(*   scopes      defer_scopes: the places each open block's defers protect *)
(*   loops       loop_stack                                                *)
(*   diverging   diverging_loops                                           *)
(*   active      observations: the open `observe' blocks, innermost last   *)
(*   aliases     observation_aliases: their alias locals                   *)
(*   edges, consume, plans, observed, exits   the plan handed to lowering  *)
(*   codes       the diagnostics, by code                                  *)
(* Every operator below takes the checker and returns it changed.          *)
(***************************************************************************)
EXTENDS Hir

Insert(f, key, value) == (key :> value) @@ f

new(observing) ==
    [states |-> <<>>, observing |-> observing, pending |-> <<>>, scopes |-> <<>>,
     loops |-> <<>>, diverging |-> {}, active |-> <<>>, aliases |-> {},
     edges |-> <<>>, consume |-> <<>>, plans |-> <<>>, observed |-> <<>>, exits |-> <<>>,
     codes |-> {}]

diagnose(c, code) == [c EXCEPT !.codes = @ \cup {code}]

record_consume(c, id, mode) == [c EXCEPT !.consume = Insert(@, id, mode)]

-----------------------------------------------------------------------------
(***************************************************************************)
(* The states of places.                                                   *)
(***************************************************************************)

\* The first prefix of the place that is not available decides.
place_state(c, place) ==
    LET spent == {n \in 0..Len(place[2]) :
                    /\ prefix_of(place, n) \in DOMAIN c.states
                    /\ c.states[prefix_of(place, n)] # "Available"}
    IN  IF spent = {} THEN "Available" ELSE c.states[prefix_of(place, Min(spent))]

\* A new state of a whole place replaces what was known of its parts.
set_place_state(c, place, state) ==
    LET kept == {q \in DOMAIN c.states : ~is_ancestor_of(place, q)}
    IN  [c EXCEPT !.states = Insert([q \in kept |-> @[q]], place, state)]

\* A use that finds the place spent is reported once: the place is Error after it.
reject(c, place, code) == set_place_state(diagnose(c, code), place, "Error")

RECURSIVE every_part(_, _, _), structural_drop_targets(_, _)

\* The place, and every affine part of it, is in one of the states.
every_part(c, place, allowed) ==
    LET ty == place_ty(place) IN
    /\ place_state(c, place) \in allowed
    /\ decomposable(ty) =>
          \A n \in affine_fields(ty) : every_part(c, field_of(place, n), allowed)

place_is_wholly_available(c, place) == every_part(c, place, {"Available"})

place_is_wholly_present(c, place) == every_part(c, place, {"Available", "DropScheduled"})

\* What destroying the place destroys: its affine fields, last declared first,
\* then the place itself if it is a declared resource; a field that is already
\* gone is left out, and a variant is destroyed as a whole.
structural_drop_targets(c, place) ==
    LET ty == place_ty(place)
        n == Len(FieldTypes[ty])
    IN  IF place_state(c, place) \notin {"Available", "DropScheduled"} THEN <<>>
        ELSE IF ~decomposable(ty) THEN <<place>>
        ELSE
               FlattenSeq([i \in 1..n |->
                   IF n + 1 - i \in affine_fields(ty)
                   THEN structural_drop_targets(c, field_of(place, n + 1 - i)) ELSE <<>>])
               \o IF ty \in DeclaredResources THEN <<place>> ELSE <<>>

has_defer_protected_descendant(c, place) ==
    \E q \in DOMAIN c.states :
        q # place /\ is_ancestor_of(place, q) /\ c.states[q] = "DropScheduled"

observed_overlap(c, place) == \E i \in DOMAIN c.active : places_overlap(c.active[i].place, place)

\* place_status, as `observe' tells the cases apart.
place_status(c, place) ==
    IF place_state(c, place) \in {"Error", "Moved", "Dropped"} THEN "Gone"
    ELSE IF ~place_is_wholly_present(c, place) THEN "PartiallyMoved"
    ELSE "Present"

-----------------------------------------------------------------------------
(***************************************************************************)
(* Exits.                                                                  *)
(***************************************************************************)

\* snapshot_cleanup: the actions registered since the marker, last first.
snapshot_cleanup(c, marker) ==
    LET drops(place) == LET t == structural_drop_targets(c, place)
                        IN  [i \in DOMAIN t |-> <<"Drop", t[i]>>]
    IN  FlattenSeq([i \in 1..(Len(c.pending) - marker) |->
            LET action == c.pending[Len(c.pending) + 1 - i]
            IN  IF action[1] = "Drop" THEN drops(action[2]) ELSE <<action>>])

record_exit(c, id, marker) == [c EXCEPT !.edges = Insert(@, id, snapshot_cleanup(c, marker))]

record_observation_exit(c, id, marker) ==
    IF marker >= Len(c.active) THEN c
    ELSE [c EXCEPT !.exits =
              Insert(@, id, [i \in 1..(Len(c.active) - marker) |->
                                c.active[Len(c.active) + 1 - i].id])]

\* Both, as `return', `raise', `?' and a returned leaf record them.
record_function_exit(c, id) == record_exit(record_observation_exit(c, id, 0), id, 0)

\* The scopes' protected places are available again in these states.
release(states, protected) ==
    [q \in DOMAIN states |->
        IF q \in protected /\ states[q] = "DropScheduled" THEN "Available" ELSE states[q]]

released_snapshot(c, from) == release(c.states, UNION {c.scopes[i] : i \in (from + 1)..Len(c.scopes)})

\* default_for: a place a branch says nothing of is as it was on entry.
default_for(entry, states, key) ==
    IF key \in DOMAIN states THEN states[key]
    ELSE IF key \in DOMAIN entry THEN entry[key]
    ELSE "Available"

\* The places of locals that exist on entry.
tracked(entry, edges) ==
    {q \in UNION {DOMAIN edges[i] : i \in DOMAIN edges} : \E e \in DOMAIN entry : e[1] = q[1]}

\* ResourceState::join
join(a, b) == IF a = b THEN a ELSE "Error"

JoinedState(entry, edges, key) ==
    FoldLeft(LAMBDA s, states : join(s, default_for(entry, states, key)),
             default_for(entry, edges[1], key), edges)

join_branch_states(entry, reachable) ==
    IF reachable = <<>> THEN entry
    ELSE [key \in DOMAIN entry \cup tracked(entry, reachable) |->
              JoinedState(entry, reachable, key)]

\* After the branches: their join, and U0006 when it has no single state.
join_branches(c, entry, branches, kind) ==
    LET d == [c EXCEPT !.states = join_branch_states(entry, branches)]
        poisoned == \E key \in DOMAIN d.states : d.states[key] = "Error"
        poisoned_before == \E key \in DOMAIN entry : entry[key] = "Error"
    IN  IF kind # "Return" /\ poisoned /\ ~poisoned_before THEN diagnose(d, "U0006") ELSE d

\* Mutant of finish_loop: a back edge that disagrees is not looked at.
FinishOnce(c, entry, base, frame, fallthrough) ==
    [c EXCEPT !.states = join_branch_states(entry, frame.breaks \o base)]

\* finish_loop: every edge back to the top must agree with the entry (U0007),
\* every edge out with the others (U0006).  `base' is the false edge of a
\* `while', `fallthrough' the end of the body when it is reachable.
finish_loop(c, entry, base, frame, fallthrough) ==
    LET back == frame.continues \o fallthrough
        keys == DOMAIN entry \cup tracked(entry, back)
        poisoned == {key \in keys :
            LET before == default_for(entry, entry, key) IN
            /\ before # "Error"
            /\ \E i \in DOMAIN back : default_for(entry, back[i], key) \notin {before, "Error"}}
        out == frame.breaks \o base
        after == [key \in keys \cup tracked(entry, out) |->
                     IF key \in poisoned THEN "Error" ELSE JoinedState(entry, out, key)]
        disagree == \E key \in DOMAIN after \ poisoned :
                       after[key] = "Error" /\ default_for(entry, out[1], key) # "Error"
        d == IF poisoned = {} THEN c ELSE diagnose(c, "U0007")
    IN  IF out = <<>> THEN [d EXCEPT !.states = entry]
        ELSE [(IF disagree THEN diagnose(d, "U0006") ELSE d) EXCEPT !.states = after]

-----------------------------------------------------------------------------
(***************************************************************************)
(* Uses of a place.                                                        *)
(***************************************************************************)

\* The reasons why no ownership operation may touch the place, in order; ""
\* when there is none.  An ordinary parameter is refused as a whole too when
\* it is `consumed' or dropped (check_consume, check_drop).
ownership_refused(c, place) ==
    IF place[1] \in c.observing THEN "U0005"            \* reject_observed_place
    ELSE IF place[1] \in c.aliases THEN "U0016"              \* reject_alias_ownership
    ELSE IF observed_overlap(c, place) THEN "U0017"          \* reject_ownership_while_observed
    ELSE ""

\* The code for a use of a place that is no longer there.
spent_code(state) == CASE state = "Moved" -> "U0001"
                       [] state = "Dropped" -> "U0002"
                       [] OTHER -> "U0004"              \* DropScheduled

check_place_read(c, place) ==
    LET state == place_state(c, place) IN
    IF state \in {"Moved", "Dropped"} THEN reject(c, place, spent_code(state)) ELSE c

apply_place_move(c, place) ==
    LET state == place_state(c, place) IN
    IF ownership_refused(c, place) # "" THEN diagnose(c, ownership_refused(c, place))
    ELSE IF state = "Available" THEN set_place_state(c, place, "Moved")
    ELSE IF state = "Error" THEN c
    ELSE reject(c, place, spent_code(state))

\* reject_partial_whole_use: U0004 when a defer still needs a part of it.
partial_code(c, root) == IF has_defer_protected_descendant(c, root) THEN "U0004" ELSE "U0014"

check_read(c, local) ==
    LET root == Root(local) IN
    IF local \in c.observing \/ root \notin DOMAIN c.states THEN c
    ELSE IF c.states[root] = "Available" /\ ~place_is_wholly_available(c, root) THEN
            diagnose(c, partial_code(c, root))
    ELSE IF c.states[root] \in {"Moved", "Dropped"} THEN reject(c, root, spent_code(c.states[root]))
    ELSE c

check_consume(c, local) ==
    LET root == Root(local) IN
    IF ownership_refused(c, root) # "" THEN diagnose(c, ownership_refused(c, root))
    ELSE IF root \notin DOMAIN c.states THEN c
    ELSE IF c.states[root] = "Available" THEN
            IF place_is_wholly_available(c, root) THEN set_place_state(c, root, "Moved")
            ELSE diagnose(c, partial_code(c, root))
    ELSE IF c.states[root] = "Error" THEN c
    ELSE reject(c, root, spent_code(c.states[root]))

check_local_use(c, local, kind) ==
    IF kind = "Read" THEN check_read(c, local) ELSE check_consume(c, local)

\* Only a place that was moved out of or dropped may be written again.
check_reassignment(c, place) ==
    LET state == place_state(c, place) IN
    IF place[1] \in c.observing /\ place[2] # <<>> THEN diagnose(c, "U0005")
    ELSE IF place[1] \in c.aliases THEN diagnose(c, "U0016")
    ELSE IF observed_overlap(c, place) THEN diagnose(c, "U0017")
    ELSE IF state \in {"Moved", "Dropped"} THEN set_place_state(c, place, "Available")
    ELSE IF state = "Error" THEN c
    ELSE reject(c, place, "U0010")

\* check_drop of a local and check_field_drop: the parts that are left are
\* destroyed here.
check_drop_place(c, id, place) ==
    LET state == place_state(c, place)
        drops == snapshot_cleanup([c EXCEPT !.pending = <<<<"Drop", place>>>>], 0)
        planned == [c EXCEPT !.edges = Insert(@, id, drops)]
        consumed == IF place[2] = <<>> THEN planned ELSE record_consume(planned, id, "Transfer")
    IN  IF ownership_refused(c, place) # "" THEN diagnose(c, ownership_refused(c, place))
        ELSE IF place[2] = <<>> /\ place \notin DOMAIN c.states THEN c
        ELSE IF state = "Available" /\ has_defer_protected_descendant(c, place) THEN
                reject(c, place, "U0004")
        ELSE IF state = "Available" THEN set_place_state(consumed, place, "Dropped")
        ELSE IF state = "Error" THEN c
        ELSE reject(c, place, IF state = "Dropped" THEN "U0003" ELSE spent_code(state))

-----------------------------------------------------------------------------
(***************************************************************************)
(* What an expression names, without checking it.                          *)
(***************************************************************************)

RECURSIVE observed_places(_), collect_argument_places(_), opaque_argument(_), leaked_temporary(_)

\* The expressions and statements directly inside a node.
Inside(n) == CASE n.k = "while" -> {n.cond, n.body}
               [] n.k = "loop" -> {n.body}
               [] n.k = "observe" -> {n.source, n.body}
               [] OTHER -> BreakScope(n)

\* collect_observed_places: every place the expression mentions.
observed_places(n) ==
    IF n.k = "local" \/ (n.k = "field" /\ is_affine_expr(n) /\ is_place(n))
    THEN {resolve_place(n)}
    ELSE UNION {observed_places(m) : m \in Inside(n)}

\* The expressions one of which is the value of a compound expression.
Tails(e) ==
    CASE e.k = "block" -> {e.tail} \ {None}
      [] e.k = "if" -> {e.then} \cup ({e.else} \ {None})
      [] e.k = "match" -> {e.arms[i].body : i \in DOMAIN e.arms}
      [] e.k = "handle" -> {e.ok.body, e.err.body}
      [] OTHER -> {}

\* The places an argument may be, and whether one may escape the search.
collect_argument_places(e) ==
    IF ~is_affine_expr(e) THEN {}
    ELSE IF e.k \in {"local", "field"} THEN
            IF is_place(e) THEN {resolve_place(e)} ELSE collect_argument_places(e.base)
    ELSE UNION {collect_argument_places(m) :
                   m \in Tails(e) \cup IF e.k = "handle" THEN {e.operand} ELSE {}}

opaque_argument(e) ==
    /\ is_affine_expr(e)
    /\ \/ e.k = "field" /\ ~is_place(e) /\ opaque_argument(e.base)
       \/ e.k \in {"block", "if", "match", "handle"} /\ \E m \in Tails(e) : opaque_argument(m)
       \/ e.k \in {"try", "assign"}

\* reject_mixed_observe_take_aliases (U0015): no argument may be observed
\* while another takes it, or a part or the whole of it.
mixed_aliases(args, takes) ==
    LET affine == {i \in DOMAIN args : is_affine_expr(args[i])}
        opaque == {i \in affine : opaque_argument(args[i])}
        places(i) == collect_argument_places(args[i])
    IN  IF opaque # {}
        THEN Cardinality(opaque) > 1 \/ \E i \in affine \ opaque : places(i) # {}
        ELSE \E i, j \in affine : /\ takes[i] /\ ~takes[j]
                                  /\ \E a \in places(i), b \in places(j) : places_overlap(a, b)

\* reject_leaked_temporary (U0011): an affine value nobody receives.
leaked_temporary(e) ==
    \/ e.k \in {"call", "case", "literal"} /\ is_affine_expr(e)
    \/ \E m \in Tails(e) : ~Diverges(m) /\ leaked_temporary(m)

reject_leaked_temporary(c, e) == IF leaked_temporary(e) THEN diagnose(c, "U0011") ELSE c

-----------------------------------------------------------------------------
(***************************************************************************)
(* Expressions.                                                            *)
(***************************************************************************)

RECURSIVE check_expr_ctx(_, _, _, _), check_args(_, _, _, _, _), check_fields(_, _, _, _),
          check_block_ctx_body(_, _, _, _), check_stmts(_, _, _, _, _), check_arms(_, _, _, _, _, _)

check_expr(c, id, e) == check_expr_ctx(c, id, e, "Read")

\* The kind in which the branches are checked: an affine value may come out of
\* a branch only where it is read or returned (U0008).
compound_kind(e, kind) == IF kind = "Other" /\ is_affine_expr(e) THEN "Read" ELSE kind

check_compound_origin(c, e, kind) ==
    IF compound_kind(e, kind) = kind THEN c ELSE diagnose(c, "U0008")

\* The arguments of a call in order, each moved or observed as its parameter
\* says.
check_args(c, id, args, takes, i) ==
    IF i > Len(args) THEN c
    ELSE LET arg == args[i]
             here == Append(id, i)
             noted == IF is_affine_expr(arg)
                      THEN record_consume(c, here, IF takes[i] THEN "Transfer" ELSE "Observe")
                      ELSE c
             checked == check_expr_ctx(noted, here, arg, IF takes[i] THEN "Other" ELSE "Read")
             whole == IF takes[i] THEN checked ELSE reject_leaked_temporary(checked, arg)
         IN  check_args(whole, id, args, takes, i + 1)

check_call(c, id, args, takes) ==
    check_args(IF mixed_aliases(args, takes) THEN diagnose(c, "U0015") ELSE c,
               id, args, takes, 1)

\* RecordLiteral: every field value is moved in.
check_fields(c, id, args, i) ==
    IF i > Len(args) THEN c
    ELSE check_fields(check_expr_ctx(c, Append(id, i), args[i], "Other"), id, args, i + 1)

\* HirExpr::Field
check_field(c, id, e, kind) ==
    IF ~is_place(e) THEN reject_leaked_temporary(check_expr(c, Append(id, 1), e.base), e.base)
    ELSE IF kind # "Read" /\ is_affine_expr(e) THEN
            record_consume(apply_place_move(c, resolve_place(e)), id, "Transfer")
    ELSE check_place_read(c, resolve_place(e))

\* HirExpr::Assign: the value first, then the place it replaces.
check_assign(c, id, e) ==
    LET vid == Append(id, 2)
        noted == IF is_affine_expr(e.value) THEN record_consume(c, vid, "Transfer") ELSE c
        valued == check_expr_ctx(noted, vid, e.value, "Other")
    IN  IF ~is_affine_expr(e.target) THEN check_expr(valued, Append(id, 1), e.target)
        ELSE IF is_place(e.target) THEN check_reassignment(valued, resolve_place(e.target))
        ELSE reject_leaked_temporary(
                 check_expr(valued, Append(id, 1), e.target.base), e.target.base)

\* HirExpr::Break and HirExpr::Continue: the exit's cleanup, and the state the
\* edge carries, with the defers of the blocks it leaves released.
check_loop_exit(c, id, edge) ==
    LET n == Len(c.loops)
        frame == c.loops[n]
        left == record_exit(record_observation_exit(c, id, frame.observation), id, frame.cleanup)
        state == released_snapshot(c, frame.scope)
    IN  IF edge = "break" THEN [left EXCEPT !.loops[n].breaks = Append(@, state)]
        ELSE [left EXCEPT !.loops[n].continues = Append(@, state)]

check_block_ctx(c, id, b, kind) ==
    LET marker == Len(c.pending)
        d == check_block_ctx_body(c, id, b, kind)
        done == IF Diverges(b) THEN d ELSE record_exit(d, id, marker)
    IN  [done EXCEPT !.pending = SubSeq(@, 1, marker)]

\* check_if: each branch from the state before it.
check_if(c, id, e, kind) ==
    LET then == check_block_ctx(c, Append(id, 2), e.then, kind)
        restored == [then EXCEPT !.states = c.states]
        else == IF e.else = None THEN restored
                ELSE check_expr_ctx(restored, Append(id, 3), e.else, kind)
        reachable == (IF Diverges(e.then) THEN <<>> ELSE <<then.states>>)
                     \o IF e.else # None /\ Diverges(e.else) THEN <<>> ELSE <<else.states>>
    IN  join_branches(else, c.states, reachable, kind)

\* check_pattern: an affine binding is owned by the arm.
check_pattern(c, pat) ==
    LET owned == SelectSeq(pattern_locals(pat), LAMBDA local : is_affine(local[1]))
    IN  [c EXCEPT !.states = [q \in {Root(owned[i]) : i \in DOMAIN owned} |-> "Available"] @@ @,
                  !.pending = @ \o [i \in DOMAIN owned |-> <<"Drop", Root(owned[i])>>]]

\* One arm of a match or handle; afterwards its bindings are forgotten.
check_arm(c, id, arm, kind, affine) ==
    LET marker == Len(c.pending)
        bound == check_pattern(c, arm.pat)
        own == {Root(local) : local \in Range(pattern_locals(arm.pat))}
        leaf == arm.body.k # "block"
        checked == IF leaf THEN check_expr_ctx(bound, id, arm.body, kind)
                           ELSE check_block_ctx_body(bound, id, arm.body, kind)
        left == IF Diverges(arm.body) THEN checked
                ELSE IF leaf /\ kind = "Return" /\ affine THEN record_function_exit(checked, id)
                ELSE record_exit(checked, id, marker)
    IN  [left EXCEPT !.pending = SubSeq(@, 1, marker),
                     !.states = [q \in DOMAIN @ \ own |-> @[q]]]

\* check_match_arms, check_handle_arms
check_arms(c, id, e, arms, kind, reached) ==
    IF Len(reached) = Len(arms)
    THEN join_branches(c, c.states,
             [i \in 1..Len(SelectSeq(reached, LAMBDA r : ~r.diverges)) |->
                 SelectSeq(reached, LAMBDA r : ~r.diverges)[i].states], kind)
    ELSE LET n == Len(reached) + 1
             d == check_arm(c, id \o <<n + 1>>, arms[n], kind, is_affine_expr(e))
         IN  check_arms([d EXCEPT !.states = c.states], id, e, arms, kind,
                        Append(reached, [states |-> d.states, diverges |-> Diverges(arms[n].body)]))

check_expr_ctx_inner(c, id, e, kind) ==
    LET inner == compound_kind(e, kind)
        origin(d) == check_compound_origin(d, e, kind)
    IN
    CASE e.k = "local" -> check_local_use(c, e.local, kind)
      [] e.k = "field" -> check_field(c, id, e, kind)
      [] e.k = "call" -> check_call(c, id, e.args, Signatures[e.fn].take)
      [] e.k = "case" -> check_call(c, id, e.args, [i \in DOMAIN e.args |-> TRUE])
      [] e.k = "literal" -> check_fields(c, id, e.args, 1)
      [] e.k = "assign" -> check_assign(c, id, e)
      [] e.k = "block" -> check_block_ctx(c, id, e, kind)
      [] e.k = "if" -> check_if(origin(check_expr(c, Append(id, 1), e.cond)), id, e, inner)
      [] e.k = "match" ->
            LET scrutinee == IF is_affine_expr(e.scrutinee) THEN "Other" ELSE "Read"
                d == origin(check_expr_ctx(c, Append(id, 1), e.scrutinee, scrutinee))
            IN  check_arms(d, id, e, e.arms, inner, <<>>)
      [] e.k = "handle" ->
            check_arms(origin(check_expr(c, Append(id, 1), e.operand)), id, e,
                       <<e.ok, e.err>>, inner, <<>>)
      [] e.k = "try" -> record_function_exit(check_expr(c, Append(id, 1), e.e), id)
      [] e.k = "raise" -> record_function_exit(check_expr_ctx(c, Append(id, 1), e.e, "Other"), id)
      [] e.k = "return" ->
            record_function_exit(
                IF e.e = None THEN c ELSE check_expr_ctx(c, Append(id, 1), e.e, "Return"), id)
      [] e.k \in {"break", "continue"} -> check_loop_exit(c, id, e.k)
      [] OTHER -> c

\* A leaf that is returned cleans up the whole function.
check_expr_ctx(c, id, e, kind) ==
    LET d == check_expr_ctx_inner(c, id, e, kind) IN
    IF kind = "Return" /\ e.k \in {"scalar", "local", "field", "call", "case", "literal", "assign"}
    THEN record_exit(d, id, 0) ELSE d

-----------------------------------------------------------------------------
(***************************************************************************)
(* Statements and blocks.                                                  *)
(***************************************************************************)

check_binding(c, id, s) ==
    LET vid == Append(id, 1)
        affine == is_affine_expr(s.value)
        noted == IF affine THEN record_consume(c, vid, "Transfer") ELSE c
        d == check_expr_ctx(noted, vid, s.value, "Other")
    IN  IF ~is_affine(s.local[1]) THEN d
        ELSE [d EXCEPT !.states = Insert(@, Root(s.local), "Available"),
                       !.pending = Append(@, <<"Drop", Root(s.local)>>)]

\* A deferred call is checked where it is written; what it observes may not
\* move before the block that registered it ends.
check_defer(c, id, s) ==
    LET did == Append(id, 1)
        d == check_expr(c, did, s.e)
        named == observed_places(s.e)
        takes == Signatures[s.e.fn].take
        plan == [fn |-> s.e.fn, order |-> Cardinality(DOMAIN d.plans),
                 modes |-> [i \in DOMAIN takes |-> IF takes[i] THEN "Transfer" ELSE "Observe"]]
        protected == {q \in named : place_state(d, q) = "Available"}
        planned == [d EXCEPT !.plans = Insert(@, did, plan),
                             !.pending = Append(@, <<"Defer", did>>)]
    IN  IF \E q \in named : q[1] \in d.aliases THEN diagnose(d, "U0016")
        ELSE [planned EXCEPT !.states = [q \in protected |-> "DropScheduled"] @@ @,
                             !.scopes[Len(d.scopes)] = @ \cup protected]

check_drop(c, id, s) ==
    IF is_place(s.e) THEN check_drop_place(c, Append(id, 1), resolve_place(s.e))
    ELSE check_expr_ctx(c, Append(id, 1), s.e, "Other")

check_observation_body(c, id, b) ==
    LET d == check_block_ctx(c, id, b, "Read")
    IN  IF b.tail # None /\ ~Diverges(b.tail) THEN reject_leaked_temporary(d, b.tail) ELSE d

\* check_observe: only a present, complete place is observed; its alias and
\* the place itself are protected until the block ends.
check_observe(c, id, s) ==
    LET bid == Append(id, 2)
        place == resolve_place(s.source)
        read == check_place_read(c, place)
        begun == [read EXCEPT !.observed = Insert(@, id, place),
                              !.aliases = @ \cup {s.alias},
                              !.active = Append(@, [id |-> id, place |-> place])]
        body == check_observation_body(begun, bid, s.body)
    IN  IF ~(is_affine_expr(s.source) /\ is_place(s.source)) THEN
                check_observation_body(check_expr(c, Append(id, 1), s.source), bid, s.body)
        ELSE IF place_status(read, place) = "PartiallyMoved" THEN
                check_observation_body(diagnose(read, "U0014"), bid, s.body)
        ELSE IF place_status(read, place) = "Gone" THEN check_observation_body(read, bid, s.body)
        ELSE [body EXCEPT !.active = Front(@)]

enter_loop(c) ==
    [c EXCEPT !.loops = Append(@, [breaks |-> <<>>, continues |-> <<>>,
                                   cleanup |-> Len(c.pending), observation |-> Len(c.active),
                                   scope |-> Len(c.scopes)])]

fallthrough(c, body) == IF Diverges(body) THEN <<>> ELSE <<c.states>>

check_loop_body(c, id, s) ==
    LET d == check_block_ctx(enter_loop(c), Append(id, 1), s.body, "Read")
        frame == Last(d.loops)
        left == [d EXCEPT !.loops = Front(@),
                          !.diverging = IF frame.breaks = <<>> THEN @ \cup {id} ELSE @]
    IN  finish_loop(left, c.states, <<>>, frame, fallthrough(d, s.body))

check_while_loop(c, id, s) ==
    LET tested == check_expr(enter_loop(c), Append(id, 1), s.cond)
        d == check_block_ctx(tested, Append(id, 2), s.body, "Read")
    IN  finish_loop([d EXCEPT !.loops = Front(@)], c.states, <<tested.states>>,
                    Last(d.loops), fallthrough(d, s.body))

check_stmt(c, id, s) ==
    CASE s.k = "bind" -> check_binding(c, id, s)
      [] s.k = "expr" -> reject_leaked_temporary(check_expr(c, Append(id, 1), s.e), s.e)
      [] s.k = "defer" -> check_defer(c, id, s)
      [] s.k = "drop" -> check_drop(c, id, s)
      [] s.k = "while" -> check_while_loop(c, id, s)
      [] s.k = "loop" -> check_loop_body(c, id, s)
      [] s.k = "observe" -> check_observe(c, id, s)

stmt_diverges(c, id, s) ==
    CASE s.k = "expr" -> Diverges(s.e)
      [] s.k = "bind" -> Diverges(s.value)
      [] s.k = "observe" -> Diverges(s.body)
      [] s.k = "loop" -> id \in c.diverging
      [] OTHER -> FALSE

\* check_block_ctx_inner: nothing after a statement that diverges is checked.
check_stmts(c, id, b, kind, i) ==
    IF i > Len(b.stmts)
    THEN LET tid == Append(id, i)
             d == check_expr_ctx(c, tid, b.tail, kind)
         IN  IF b.tail = None THEN c
             ELSE IF kind = "Return" /\ ~Diverges(b.tail) THEN record_function_exit(d, tid)
             ELSE d
    ELSE LET sid == Append(id, i)
             d == check_stmt(c, sid, b.stmts[i])
         IN  IF stmt_diverges(d, sid, b.stmts[i]) THEN d ELSE check_stmts(d, id, b, kind, i + 1)

\* A block's defers protect their places until the block ends.
check_block_ctx_body(c, id, b, kind) ==
    LET d == check_stmts([c EXCEPT !.scopes = Append(@, {})], id, b, kind, 1)
    IN  [d EXCEPT !.scopes = Front(@), !.states = release(@, Last(d.scopes))]

\* check_function: a `take' parameter is owned, another affine one observed.
check_function(f) ==
    LET affine == SelectSeq(f.params, LAMBDA p : is_affine(p.local[1]))
        owned == SelectSeq(affine, LAMBDA p : p.take)
        observing == {affine[i].local : i \in {j \in DOMAIN affine : ~affine[j].take}}
        start == [new(observing) EXCEPT
                     !.states = [q \in {Root(owned[i].local) : i \in DOMAIN owned} |-> "Available"],
                     !.pending = [i \in DOMAIN owned |-> <<"Drop", Root(owned[i].local)>>]]
        d == check_block_ctx_body(start, <<>>, f.body, "Return")
    IN  IF Diverges(f.body) THEN d ELSE record_exit(d, <<>>, 0)

=============================================================================
