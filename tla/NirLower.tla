------------------------------ MODULE NirLower ------------------------------
(***************************************************************************)
(* Lowering of a checked function body to NIR (compiler/src/nir/lower.rs): *)
(* the blocks, the slots, and where ownership is transferred, observed and *)
(* released, as the resource checker's plan says.                          *)
(*                                                                         *)
(* The builder FnBuilder is the record `b': blocks, the current block, the *)
(* bindings of locals (Direct value or Slot), loop_stack, defer_calls, and *)
(* the function's checked plan.  `failed' is an internal error (I0002): it *)
(* leaves the lowering at once, and nothing lowered after it is used.      *)
(*                                                                         *)
(* Value ids: <<"p", n>> parameter, <<"s", n>> slot, <<"t", n>> any other  *)
(* result, <<"l", slot, n>> the n-th Load of a slot.  An operator that     *)
(* lowers an expression returns [b, v]: the builder and the value.         *)
(***************************************************************************)
EXTENDS ResourceCheck

Diverged == <<"diverged">>

\* v of type ty is the result; case is a variant's, and an observation's scope
\* and the targets of a terminator are in `to'.
Instruction(op) == [op |-> op, v |-> Diverged, ty |-> "Unit", src |-> Diverged, args |-> <<>>,
                    path |-> <<>>, name |-> "", case |-> 0, to |-> <<>>]

EmptyBlock == [ins |-> <<>>, term |-> Instruction("open")]

FnBuilder(f, plan) ==
    [blocks |-> <<EmptyBlock>>, cur |-> 1, slots |-> 0, temps |-> 0, loads |-> <<>>,
     bindings |-> [l \in {f.params[i].local : i \in DOMAIN f.params} |->
                      <<"Direct", <<"p", CHOOSE i \in DOMAIN f.params : f.params[i].local = l>>>>],
     loops |-> <<>>, defers |-> <<>>, sources |-> <<>>, plan |-> plan, ret |-> f.ret, failed |-> FALSE]

current_terminated(b) == b.blocks[b.cur].term.op # "open"

push_instruction(b, ins) == [b EXCEPT !.blocks[b.cur].ins = Append(@, ins)]

terminate(b, term) == [b EXCEPT !.blocks[b.cur].term = term]

branch(b, n) == terminate(b, [Instruction("branch") EXCEPT !.to = <<n>>])

\* new_block; its number is Len(b.blocks) afterwards.
new_block(b) == [b EXCEPT !.blocks = Append(@, EmptyBlock)]

switch_to(b, n) == [b EXCEPT !.cur = n]

internal_error(b) == [b |-> [terminate(b, Instruction("internal_error")) EXCEPT !.failed = TRUE],
                      v |-> Diverged]

push_value(b, ty, ins) ==
    LET v == <<"t", b.temps + 1>>
    IN  [b |-> push_instruction([b EXCEPT !.temps = @ + 1], [ins EXCEPT !.v = v, !.ty = ty]),
         v |-> v]

unit_value(b) == push_value(b, "Unit", Instruction("const"))

alloc_slot(b, ty) ==
    LET v == <<"s", b.slots + 1>>
    IN  [b |-> push_instruction([b EXCEPT !.slots = @ + 1],
                                [Instruction("alloc") EXCEPT !.v = v, !.ty = ty]),
         v |-> v]

load(b, slot, ty) ==
    LET n == 1 + IF slot \in DOMAIN b.loads THEN b.loads[slot] ELSE 0
        v == <<"l", slot, n>>
    IN  [b |-> push_instruction([b EXCEPT !.loads = Insert(@, slot, n)],
                                [Instruction("load") EXCEPT !.v = v, !.ty = ty, !.src = slot]),
         v |-> v]

push_store(b, slot, value, mode) ==
    push_instruction(b, [Instruction("store") EXCEPT !.v = slot, !.src = value, !.name = mode])

drop_value(b, value) == push_instruction(b, [Instruction("drop") EXCEPT !.src = value])

bind(b, local, binding) == [b EXCEPT !.bindings = Insert(@, local, binding)]

\* load_current: the value a local stands for now.
load_current(b, local) ==
    IF b.bindings[local][1] = "Direct" THEN [b |-> b, v |-> b.bindings[local][2]]
    ELSE load(b, b.bindings[local][2], local[1])

\* lookup_consume_mode: the checker must have said how an affine value is used.
unplanned(b, id, ty) == is_affine(ty) /\ id \notin DOMAIN b.plan.consume
transfers(b, id, ty) == is_affine(ty) /\ b.plan.consume[id] = "Transfer"

move_if_transferred(b, value, ty, moved) ==
    IF moved THEN push_value(b, ty, [Instruction("move") EXCEPT !.src = value])
             ELSE [b |-> b, v |-> value]

-----------------------------------------------------------------------------
(***************************************************************************)
(* Places and cleanup.                                                     *)
(***************************************************************************)

\* A path of the runtime: a resource is one leaf, an inline record is flattened.
projections(place) == IF place[1][1] \in DeclaredResources THEN <<1>> \o place[2] ELSE place[2]

\* resolve_nir_place: the root's current value, then the same projections.
place_instruction(b, op, place, mode) ==
    LET root == load_current(b, place[1])
    IN  [b |-> root.b,
         ins |-> [Instruction(op) EXCEPT !.src = root.v, !.name = mode,
                     !.path = IF place[2] = <<>> THEN <<>> ELSE projections(place)]]

place_read(b, place, mode) ==
    LET r == place_instruction(b, "place_read", place, mode)
    IN  push_value(r.b, place_ty(place), r.ins)

emit_observation_ends(b, id) ==
    IF id \notin DOMAIN b.plan.exits THEN b
    ELSE FoldLeft(LAMBDA d, o : push_instruction(d, [Instruction("end_observe") EXCEPT !.to = o]),
                  b, b.plan.exits[id])

\* One planned action: a destruction, or the call a defer registered.
emit_action(b, action) ==
    IF action[1] = "Drop"
    THEN LET value == IF action[2][2] = <<>> THEN load_current(b, action[2][1])
                      ELSE place_read(b, action[2], "Transfer")
         IN  drop_value(value.b, value.v)
    ELSE LET pending == b.defers[action[2]]
         IN  push_value(b, Signatures[pending.fn].ret,
                        [Instruction("call") EXCEPT !.name = pending.fn,
                                                    !.args = pending.args]).b

\* Deferred calls are replayed last registered first.
registration_orders(b, actions) ==
    LET defers == SelectSeq(actions, LAMBDA a : a[1] = "Defer")
    IN  [i \in DOMAIN defers |-> b.plan.plans[defers[i][2]].order]

\* emit_checked_cleanup; an exit without a plan is an internal error.
emit_checked_cleanup(b, id) ==
    IF b.failed THEN b
    ELSE IF id \notin DOMAIN b.plan.edges THEN internal_error(b).b
    ELSE IF \E i, j \in DOMAIN registration_orders(b, b.plan.edges[id]) :
                i < j /\ registration_orders(b, b.plan.edges[id])[i]
                          <= registration_orders(b, b.plan.edges[id])[j] THEN internal_error(b).b
    ELSE FoldLeft(emit_action, emit_observation_ends(b, id), b.plan.edges[id])

\* The end of a returned leaf: the value moves out, the function returns.
finish(b, v) ==
    LET moved == move_if_transferred(b, v, b.ret, is_affine(b.ret))
    IN  [b |-> terminate(moved.b, [Instruction("return") EXCEPT !.src = moved.v]), v |-> Diverged]

-----------------------------------------------------------------------------
(***************************************************************************)
(* Expressions.                                                            *)
(***************************************************************************)

RECURSIVE lower_expr(_, _, _), lower_args(_, _, _, _, _), lower_stmts(_, _, _, _, _),
          lower_into_return_sink(_, _, _)

\* Values of the arguments in order.  How: "call" moves what the plan
\* transfers, "defer" captures it, "construct" leaves the moving to the
\* construction itself.
lower_args(b, id, args, how, vs) ==
    LET i == Len(vs) + 1 IN
    IF i > Len(args) THEN [b |-> b, vs |-> vs, ok |-> TRUE]
    ELSE LET here == Append(id, i)
             ty == TypeOf(args[i])
             r == lower_expr(b, here, args[i])
             op == IF how = "defer" THEN "defer_capture" ELSE "move"
             passed == IF how # "construct" /\ transfers(r.b, here, ty)
                       THEN push_value(r.b, ty, [Instruction(op) EXCEPT !.src = r.v]) ELSE r
         IN  IF r.v = Diverged THEN [b |-> r.b, vs |-> vs, ok |-> FALSE]
             ELSE IF how # "construct" /\ unplanned(r.b, here, ty) THEN
                     [b |-> internal_error(r.b).b, vs |-> vs, ok |-> FALSE]
             ELSE lower_args(passed.b, id, args, how, Append(vs, passed.v))

\* lower_call of an infallible function
lower_call(b, id, e) ==
    LET r == lower_args(b, id, e.args, "call", <<>>) IN
    IF r.ok THEN push_value(r.b, Signatures[e.fn].ret,
                            [Instruction("call") EXCEPT !.name = e.fn, !.args = r.vs])
    ELSE [b |-> r.b, v |-> Diverged]

\* lower_record_literal, lower_variant_construct
lower_construct(b, id, e) ==
    LET r == lower_args(b, id, e.args, "construct", <<>>) IN
    IF r.ok THEN push_value(r.b, e.ty, [Instruction("create") EXCEPT !.name = e.ty, !.args = r.vs])
    ELSE [b |-> r.b, v |-> Diverged]

\* lower_field: an affine field is a place, read as the plan says.
lower_field(b, id, e) ==
    IF is_affine_expr(e)
    THEN place_read(b, resolve_place(e),
                    IF id \in DOMAIN b.plan.consume /\ b.plan.consume[id] = "Transfer"
                    THEN "Transfer" ELSE "Observe")
    ELSE LET base == lower_expr(b, Append(id, 1), e.base)
         IN  IF base.v = Diverged THEN base
             ELSE push_value(base.b, TypeOf(e),
                             [Instruction("record_field") EXCEPT !.src = base.v,
                                          !.path = projections(<<<<TypeOf(e.base), 0>>, <<e.field>>>>)])

\* lower_assign: a field through its place, a local into its slot.
lower_assign(b, id, e) ==
    LET vid == Append(id, 2)
        place == resolve_place(e.target)
        target == place_instruction(b, "store_place", place, "Transfer")
        stored == lower_expr(target.b, vid, e.value)
        value == lower_expr(b, vid, e.value)
        ty == TypeOf(e.target)
        mode == IF transfers(value.b, vid, ty) THEN "Transfer" ELSE "Observe"
    IN  IF e.target.k = "field" THEN
                IF stored.v = Diverged THEN stored
                ELSE unit_value(push_instruction(stored.b,
                         [target.ins EXCEPT !.args = <<stored.v>>]))
        ELSE IF value.v = Diverged THEN value
        ELSE IF unplanned(value.b, vid, ty) THEN internal_error(value.b)
        ELSE unit_value(push_store(value.b, b.bindings[e.target.local][2], value.v, mode))

lower_block_value(b, id, block) == lower_stmts(b, id, block, "value", 1)

lower_scoped_block(b, id, block) ==
    LET r == lower_block_value(b, id, block)
    IN  [b |-> IF current_terminated(r.b) THEN r.b ELSE emit_checked_cleanup(r.b, id), v |-> r.v]

\* A branch ends: its value into the merge slot, control to the merge block.
merge_into(r, slot, after) ==
    IF r.v = Diverged \/ current_terminated(r.b) THEN r.b
    ELSE branch(push_store(r.b, slot, r.v, "Observe"), after)

cond_branch(b, cond, then, else) ==
    terminate(b, [Instruction("cond_branch") EXCEPT !.src = cond, !.to = <<then, else>>])

\* Where control and the value go on after the branches of a compound.
continue_at(b, slot, after, ty) == load(switch_to(b, after), slot, ty)

\* lower_if: the branches share a result slot and a block after them, unless
\* neither comes out.
lower_if(b, id, e) ==
    LET cond == lower_expr(b, Append(id, 1), e.cond)
        blocks == new_block(new_block(cond.b))
        n == Len(cond.b.blocks)
        then == lower_scoped_block(
                    switch_to(cond_branch(blocks, cond.v, n + 1, n + 2), n + 1), Append(id, 2), e.then)
        never == lower_expr(switch_to(then.b, n + 2), Append(id, 3), e.else)
        slot == alloc_slot(blocks, TypeOf(e))
        after == n + 3
        then2 == lower_scoped_block(
                     switch_to(cond_branch(new_block(slot.b), cond.v, n + 1, n + 2), n + 1),
                     Append(id, 2), e.then)
        valued == IF e.else = None /\ then2.v # Diverged THEN unit_value(then2.b) ELSE then2
        merged == switch_to(merge_into(valued, slot.v, after), n + 2)
        else2 == IF e.else = None THEN unit_value(merged)
                 ELSE lower_expr(merged, Append(id, 3), e.else)
    IN  IF cond.v = Diverged THEN cond
        ELSE IF Diverges(e) THEN [b |-> never.b, v |-> Diverged]
        ELSE continue_at(merge_into(else2, slot.v, after), slot.v, after, TypeOf(e))

\* The body of an arm, ended as the sink says: <<"merge", slot, after>>,
\* <<"return">>, or <<>> when no arm comes out.
lower_arm_body(b, id, body, sink) ==
    LET r == IF body.k = "block" THEN lower_block_value(b, id, body) ELSE lower_expr(b, id, body)
    IN  IF sink = <<"return">> THEN lower_into_return_sink(b, id, body).b
        ELSE IF r.v = Diverged \/ sink = <<>> THEN r.b
        ELSE merge_into([b |-> emit_checked_cleanup(r.b, id), v |-> r.v],
                        sink[2], sink[3])

-----------------------------------------------------------------------------
(***************************************************************************)
(* Matches.  A decision tree is built from a matrix: one row per arm that  *)
(* can still win, one column per value still to be tested (an occurrence). *)
(* Besides a pattern a slot may be `owned': below a value that a binding   *)
(* of the row owns as a whole.                                             *)
(***************************************************************************)

Owned == [k |-> "owned"]
Wild == [k |-> "wild"]

is_test(pat) == pat.k \in {"case", "lit"}

\* The row without its first column: a binding is noted, and what a wildcard
\* stands for is noted to be destroyed (discard_unclaimed).
advance(row, occ) ==
    [row EXCEPT !.pats = Tail(@),
                !.bindings = IF row.pats[1].k = "bind"
                             THEN Append(@, <<row.pats[1].local, occ.v>>) ELSE @,
                !.discarded = IF row.pats[1].k = "wild" THEN Append(@, occ) ELSE @]

advanced(rows, occ) == [i \in DOMAIN rows |-> advance(rows[i], occ)]

\* The rows that can still win once the literal was found, or not found.
literal_rows(rows, occ, value) ==
    advanced(SelectSeq(rows, LAMBDA r : is_test(r.pats[1]) => r.pats[1].value = value), occ)

other_rows(rows, value) ==
    SelectSeq(rows, LAMBDA r : is_test(r.pats[1]) => r.pats[1].value # value)

\* The rows that can still win in case n, over the payload of the case.
case_rows(rows, occ, n, arity) ==
    LET kept == SelectSeq(rows, LAMBDA r : is_test(r.pats[1]) => r.pats[1].case = n)
        row(r) == LET p == r.pats[1]
                      below == CASE p.k = "case" -> p.args
                                 [] p.k = "wild" -> [i \in 1..arity |-> Wild]
                                 [] OTHER -> [i \in 1..arity |-> Owned]
                  IN  [r EXCEPT !.pats = below \o Tail(@),
                                !.bindings = IF p.k = "bind" THEN Append(@, <<p.local, occ.v>>) ELSE @,
                                !.decomposed = IF p.k = "case"
                                               THEN Append(@, [v |-> occ.v, ty |-> occ.ty, case |-> n])
                                               ELSE @]
    IN  [i \in DOMAIN kept |-> row(kept[i])]

\* emit_variant_decomposition: each matched shell gives up the payloads that
\* the row bound, discarded or matched in turn.
emit_variant_decomposition(b, row) ==
    LET claimed == {row.bindings[i][2] : i \in DOMAIN row.bindings}
                   \cup {row.discarded[i].v : i \in DOMAIN row.discarded}
                   \cup {row.decomposed[i].v : i \in DOMAIN row.decomposed}
        taken(shell) == {<<b.sources[v][2], v>> :
                            v \in {w \in claimed \cap DOMAIN b.sources : b.sources[w][1] = shell}}
    IN  FoldLeft(LAMBDA d, shell :
                     push_instruction(d, [Instruction("decompose") EXCEPT !.src = shell.v,
                                             !.name = shell.ty, !.case = shell.case,
                                             !.path = taken(shell.v)]),
                 b, row.decomposed)

\* The winning row: its bindings, the shells it opened, what it discarded,
\* last first, and its arm.
lower_winner(b, id, arms, row, sink) ==
    LET bound == FoldLeft(LAMBDA d, p : bind(d, p[1], <<"Direct", p[2]>>), b, row.bindings)
        dropped == FoldLeft(LAMBDA d, occ : IF is_affine(occ.ty) THEN drop_value(d, occ.v) ELSE d,
                            emit_variant_decomposition(bound, row), Reverse(row.discarded))
    IN  lower_arm_body(dropped, id \o <<row.arm + 1>>, arms[row.arm].body, sink)

\* The payload of a case, position by position.
payload_occurrences(b, base, variant, case) ==
    FoldLeft(LAMBDA r, ty :
                 LET i == Len(r.occs) + 1
                     p == push_value(r.b, ty, [Instruction("payload") EXCEPT !.src = base, !.path = <<i>>,
                                                   !.name = variant, !.case = case])
                 IN  [b |-> [p.b EXCEPT !.sources = Insert(@, p.v, <<base, i>>)],
                      occs |-> Append(r.occs, [v |-> p.v, ty |-> ty])],
             [b |-> b, occs |-> <<>>], Cases[variant][case])

RECURSIVE lower_decision(_, _, _, _, _, _)

\* lower_variant_switch
lower_variant_switch(b, id, arms, rows, occs, sink) ==
    LET occ == occs[1]
        cases == Cases[occ.ty]
        n == Len(b.blocks)
        blocks == FoldLeft(LAMBDA d, c : new_block(d), b, cases)
        case(d, i) ==
            LET left == case_rows(rows, occ, i, Len(cases[i]))
                payload == payload_occurrences(switch_to(d, n + i), occ.v, occ.ty, i)
            IN  IF left = <<>> THEN internal_error(d).b
                ELSE lower_decision(payload.b, id, arms, left, payload.occs \o Tail(occs), sink)
    IN  FoldLeft(case, terminate(blocks, [Instruction("switch") EXCEPT !.src = occ.v, !.name = occ.ty,
                                             !.to = [i \in DOMAIN cases |-> n + i]]),
                 [i \in DOMAIN cases |-> i])

\* lower_bool_switch
lower_bool_switch(b, id, arms, rows, occs, sink) ==
    LET n == Len(b.blocks)
        case(d, i) ==
            LET left == literal_rows(rows, occs[1], i = 1)
            IN  IF left = <<>> THEN internal_error(d).b
                ELSE lower_decision(switch_to(d, n + i), id, arms, left, Tail(occs), sink)
    IN  FoldLeft(case, cond_branch(new_block(new_block(b)), occs[1].v, n + 1, n + 2), <<1, 2>>)

\* lower_literal_chain: the first row decides what is tested.
lower_literal_chain(b, id, arms, rows, occs, sink) ==
    LET first == rows[1].pats[1]
        test == push_value(b, "Bool", [Instruction("eq") EXCEPT !.src = occs[1].v, !.path = <<first.value>>])
        n == Len(test.b.blocks)
        found == lower_decision(
                     switch_to(cond_branch(new_block(new_block(test.b)), test.v, n + 1, n + 2), n + 1),
                     id, arms, literal_rows(rows, occs[1], first.value), Tail(occs), sink)
        left == other_rows(rows, first.value)
    IN  IF ~is_test(first) THEN
                lower_decision(b, id, arms, <<advance(rows[1], occs[1])>>, Tail(occs), sink)
        ELSE IF left = <<>> THEN internal_error(found).b
        ELSE lower_decision(switch_to(found, n + 2), id, arms, left, occs, sink)

\* lower_decision: the first column is tested; without columns the first row wins.
lower_decision(b, id, arms, rows, occs, sink) ==
    LET untested == \A i \in DOMAIN rows : ~is_test(rows[i].pats[1]) IN
    IF occs = <<>> THEN lower_winner(b, id, arms, rows[1], sink)
    ELSE IF occs[1].ty \in VariantItems \cup {"Bool"} /\ untested THEN
            lower_decision(b, id, arms, advanced(rows, occs[1]), Tail(occs), sink)
    ELSE IF occs[1].ty \in VariantItems THEN lower_variant_switch(b, id, arms, rows, occs, sink)
    ELSE IF occs[1].ty = "Bool" THEN lower_bool_switch(b, id, arms, rows, occs, sink)
    ELSE lower_literal_chain(b, id, arms, rows, occs, sink)

match_rows(arms) ==
    [i \in DOMAIN arms |-> [arm |-> i, pats |-> <<arms[i].pat>>, bindings |-> <<>>,
                            discarded |-> <<>>, decomposed |-> <<>>]]

\* lower_match, lower_match_into_return_sink: the result slot and the block
\* after the arms come first.
lower_match(b, id, e, returned) ==
    LET r == lower_expr(b, Append(id, 1), e.scrutinee)
        slot == alloc_slot(r.b, TypeOf(e))
        merging == new_block(slot.b)
        after == Len(merging.blocks)
        decide(d, sink) == lower_decision(d, id, e.arms, match_rows(e.arms),
                                          <<[v |-> r.v, ty |-> TypeOf(e.scrutinee)]>>, sink)
    IN  IF r.v = Diverged THEN r
        ELSE IF returned THEN [b |-> decide(r.b, <<"return">>), v |-> Diverged]
        ELSE IF Diverges(e) THEN [b |-> decide(r.b, <<>>), v |-> Diverged]
        ELSE continue_at(decide(merging, <<"merge", slot.v, after>>), slot.v, after,
                         TypeOf(e))

-----------------------------------------------------------------------------
(***************************************************************************)
(* Fallible calls.                                                         *)
(***************************************************************************)

\* lower_invoke: the merge slot and block if there is a merge, then a slot and
\* a block for the result and a slot and a block for the raised variant.
lower_invoke(b, id, e, ty, merging) ==
    LET args == lower_args(b, id, e.args, "call", <<>>)
        merge == alloc_slot(args.b, ty)
        room == IF merging THEN new_block(merge.b) ELSE args.b
        ok == alloc_slot(room, Signatures[e.fn].ret)
        okb == new_block(ok.b)
        err == alloc_slot(okb, Signatures[e.fn].raises)
        errb == new_block(err.b)
        to == <<Len(okb.blocks), Len(errb.blocks)>>
    IN  [b |-> IF ~args.ok THEN args.b
               ELSE terminate(errb, [Instruction("invoke") EXCEPT !.name = e.fn, !.args = args.vs,
                                        !.path = <<ok.v, err.v>>, !.to = to]),
         diverged |-> ~args.ok, ok |-> ok.v, err |-> err.v, to |-> to,
         sink |-> <<"merge", merge.v, Len(room.blocks)>>]

\* lower_try: the failure edge cleans up the whole function and raises on.
lower_try(b, id, e) ==
    LET call == lower_invoke(b, Append(id, 1), e.e, "Unit", FALSE)
        caught == load(switch_to(call.b, call.to[2]), call.err, Signatures[e.e.fn].raises)
        left == emit_checked_cleanup(caught.b, id)
        raised == terminate(left, [Instruction("raise") EXCEPT !.src = caught.v])
    IN  IF call.diverged THEN [b |-> call.b, v |-> Diverged]
        ELSE load(switch_to(raised, call.to[1]), call.ok, Signatures[e.e.fn].ret)

lower_raise(b, id, e) ==
    LET r == lower_expr(b, Append(id, 1), e.e)
        left == emit_checked_cleanup(r.b, id)
        moved == move_if_transferred(left, r.v, TypeOf(e.e), is_affine_expr(e.e))
    IN  IF r.v = Diverged THEN r
        ELSE [b |-> terminate(moved.b, [Instruction("raise") EXCEPT !.src = moved.v]),
              v |-> Diverged]

\* bind_arm_pattern: a named value is bound, one that is not is destroyed.
bind_arm_pattern(b, pat, v, ty) ==
    IF pat.k = "bind" THEN bind(b, pat.local, <<"Direct", v>>)
    ELSE IF is_affine(ty) THEN drop_value(b, v)
    ELSE b

\* lower_handle_dispatch: the failure arm first, behind a switch on the raised
\* variant (its one case, or a wildcard), then the success arm.
lower_handle_dispatch(call, id, e, sink) ==
    LET fn == Signatures[e.operand.fn]
        caught == load(switch_to(call.b, call.to[2]), call.err, fn.raises)
        arm == Len(caught.b.blocks) + 1
        opened == switch_to(new_block(caught.b), arm)
        payload == payload_occurrences(opened, caught.v, fn.raises, 1)
        pat == e.err.pat
        bound == IF pat.k = "wild" THEN opened
                 ELSE FoldLeft(LAMBDA d, i : bind_arm_pattern(d, pat.args[i], payload.occs[i].v,
                                                              payload.occs[i].ty),
                               payload.b, [i \in DOMAIN pat.args |-> i])
        failure == lower_arm_body(bound, id \o <<3>>, e.err.body, sink)
        dispatched == terminate(switch_to(failure, call.to[2]),
                          [Instruction("switch") EXCEPT !.src = caught.v, !.name = fn.raises,
                                                        !.to = <<arm>>])
        result == load(switch_to(dispatched, call.to[1]), call.ok, fn.ret)
        success == bind_arm_pattern(result.b, e.ok.pat, result.v, fn.ret)
    IN  lower_arm_body(success, id \o <<2>>, e.ok.body, sink)

\* lower_handle, lower_handle_into_return_sink
lower_handle(b, id, e, returned) ==
    LET merging == ~returned /\ ~Diverges(e)
        call == lower_invoke(b, Append(id, 1), e.operand, TypeOf(e), merging)
        sink == CASE returned -> <<"return">> [] merging -> call.sink [] OTHER -> <<>>
        done == lower_handle_dispatch(call, id, e, sink)
    IN  IF call.diverged THEN [b |-> call.b, v |-> Diverged]
        ELSE IF merging THEN continue_at(done, call.sink[2], call.sink[3], TypeOf(e))
        ELSE [b |-> done, v |-> Diverged]

-----------------------------------------------------------------------------
(***************************************************************************)
(* Returns.                                                                *)
(***************************************************************************)

\* lower_return
lower_return(b, id, e) ==
    LET r == lower_expr(b, Append(id, 1), e.e)
    IN  IF e.e = None THEN
                [b |-> terminate(emit_checked_cleanup(b, id), Instruction("return")), v |-> Diverged]
        ELSE IF is_affine(b.ret) THEN lower_into_return_sink(b, Append(id, 1), e.e)
        ELSE IF r.v = Diverged THEN r
        ELSE finish(emit_checked_cleanup(r.b, id), r.v)

\* lower_into_return_sink: every leaf of the returned expression cleans up
\* and returns by itself.
lower_into_return_sink(b, id, e) ==
    LET leaf == lower_expr(b, id, e)
        cond == lower_expr(b, Append(id, 1), e.cond)
        n == Len(cond.b.blocks)
        then == lower_into_return_sink(
                    switch_to(cond_branch(new_block(new_block(cond.b)), cond.v, n + 1, n + 2), n + 1),
                    Append(id, 2), e.then)
    IN  IF e.k = "block" THEN lower_stmts(b, id, e, "return", 1)
        ELSE IF e.k = "match" THEN lower_match(b, id, e, TRUE)
        ELSE IF e.k = "handle" THEN lower_handle(b, id, e, TRUE)
        ELSE IF e.k = "if" THEN IF cond.v = Diverged THEN cond
                                ELSE lower_into_return_sink(switch_to(then.b, n + 2), Append(id, 3), e.else)
        ELSE IF leaf.v = Diverged THEN leaf
        ELSE finish(emit_checked_cleanup(leaf.b, id), leaf.v)

\* HirExpr::Break, HirExpr::Continue
lower_loop_exit(b, id, target) ==
    [b |-> branch(emit_checked_cleanup(b, id), target), v |-> Diverged]

lower_expr(b, id, e) ==
    CASE e.k = "scalar" -> unit_value(b)
      [] e.k = "local" -> load_current(b, e.local)
      [] e.k = "field" -> lower_field(b, id, e)
      [] e.k = "call" -> lower_call(b, id, e)
      [] e.k \in {"literal", "case"} -> lower_construct(b, id, e)
      [] e.k = "assign" -> lower_assign(b, id, e)
      [] e.k = "if" -> lower_if(b, id, e)
      [] e.k = "block" -> lower_scoped_block(b, id, e)
      [] e.k = "match" -> lower_match(b, id, e, FALSE)
      [] e.k = "handle" -> lower_handle(b, id, e, FALSE)
      [] e.k = "try" -> lower_try(b, id, e)
      [] e.k = "raise" -> lower_raise(b, id, e)
      [] e.k = "return" -> lower_return(b, id, e)
      [] e.k = "break" -> lower_loop_exit(b, id, Last(b.loops)[1])
      [] e.k = "continue" -> lower_loop_exit(b, id, Last(b.loops)[2])

-----------------------------------------------------------------------------
(***************************************************************************)
(* Statements, blocks, functions.                                          *)
(***************************************************************************)

lower_binding(b, id, s) ==
    LET vid == Append(id, 1)
        ty == s.local[1]
        r == lower_expr(b, vid, s.value)
        slot == alloc_slot(r.b, ty)
        moved == push_value(r.b, ty, [Instruction("move") EXCEPT !.src = r.v])
        consulted == s.mutable \/ s.value.k = "local"
    IN  IF r.v = Diverged THEN r.b
        ELSE IF consulted /\ unplanned(r.b, vid, ty) THEN internal_error(r.b).b
        ELSE IF s.mutable THEN
                bind(push_store(slot.b, slot.v, r.v,
                                IF transfers(r.b, vid, ty) THEN "Transfer" ELSE "Observe"),
                     s.local, <<"Slot", slot.v>>)
        ELSE IF s.value.k = "local" /\ transfers(r.b, vid, ty) THEN
                bind(moved.b, s.local, <<"Direct", moved.v>>)
        ELSE bind(r.b, s.local, <<"Direct", r.v>>)

\* lower_defer_call: the arguments are evaluated and captured now.
lower_defer(b, id, s) ==
    LET did == Append(id, 1)
        r == lower_args(b, did, s.e.args, "defer", <<>>)
    IN  IF ~r.ok THEN r.b
        ELSE [r.b EXCEPT !.defers = Insert(@, did, [fn |-> s.e.fn, args |-> r.vs])]

\* HirStmt::Drop: what the checker planned for a place, or the value itself.
lower_drop(b, id, s) ==
    LET vid == Append(id, 1)
        r == lower_expr(b, vid, s.e)
    IN  IF vid \in DOMAIN b.plan.edges THEN emit_checked_cleanup(b, vid)
        ELSE IF r.v = Diverged THEN r.b
        ELSE drop_value(r.b, r.v)

lower_observe(b, id, s) ==
    LET begun == place_instruction(b, "observe", b.plan.observed[id], "")
        view == push_value(begun.b, s.alias[1], [begun.ins EXCEPT !.to = id])
        body == lower_scoped_block(bind(view.b, s.alias, <<"Direct", view.v>>), Append(id, 2), s.body).b
    IN  IF id \notin DOMAIN b.plan.observed THEN internal_error(b).b
        ELSE IF current_terminated(body) THEN body
        ELSE push_instruction(body, [Instruction("end_observe") EXCEPT !.to = id])

\* The body of a loop, and the edge back to its header.
lower_body(b, id, body, header, after) ==
    LET r == lower_scoped_block([b EXCEPT !.loops = Append(@, <<after, header>>)], id, body).b
        back == IF current_terminated(r) THEN r ELSE branch(r, header)
    IN  switch_to([back EXCEPT !.loops = Front(@)], after)

lower_while(b, id, s) ==
    LET header == Len(b.blocks) + 1
        cond == lower_expr(switch_to(branch(new_block(b), header), header), Append(id, 1), s.cond)
        n == Len(cond.b.blocks)
    IN  IF cond.v = Diverged THEN cond.b
        ELSE lower_body(switch_to(cond_branch(new_block(new_block(cond.b)), cond.v, n + 1, n + 2), n + 1),
                        Append(id, 2), s.body, header, n + 2)

lower_loop(b, id, s) ==
    LET n == Len(b.blocks)
    IN  lower_body(switch_to(branch(new_block(new_block(b)), n + 1), n + 1),
                   Append(id, 1), s.body, n + 1, n + 2)

lower_stmt(b, id, s) ==
    CASE s.k = "bind" -> lower_binding(b, id, s)
      [] s.k = "expr" -> lower_expr(b, Append(id, 1), s.e).b
      [] s.k = "defer" -> lower_defer(b, id, s)
      [] s.k = "drop" -> lower_drop(b, id, s)
      [] s.k = "while" -> lower_while(b, id, s)
      [] s.k = "loop" -> lower_loop(b, id, s)
      [] s.k = "observe" -> lower_observe(b, id, s)

\* lower_block_value, lower_block_void, lower_into_return_sink_block: a block
\* whose statement ended the control flow is left there.
lower_stmts(b, id, block, sink, i) ==
    LET here == Append(id, i)
        unit == unit_value(b)
        next == lower_stmt(b, here, block.stmts[i])
    IN  IF i <= Len(block.stmts) THEN
                IF current_terminated(next) THEN [b |-> next, v |-> Diverged]
                ELSE lower_stmts(next, id, block, sink, i + 1)
        ELSE IF sink = "return" THEN IF block.tail = None THEN finish(unit.b, unit.v)
                                     ELSE lower_into_return_sink(b, here, block.tail)
        ELSE IF block.tail = None THEN unit ELSE lower_expr(b, here, block.tail)

\* finish_blocks: every block must have been ended.
finish_blocks(b) ==
    [b EXCEPT !.failed = @ \/ \E i \in DOMAIN b.blocks : b.blocks[i].term.op = "open"]

\* lower_function: the builder with the function's blocks.
lower_function(f, plan) ==
    LET start == FnBuilder(f, plan)
        r == lower_block_value(start, <<>>, f.body)
        left == emit_checked_cleanup(r.b, <<>>)
    IN  finish_blocks(
            IF is_affine(f.ret) THEN lower_stmts(start, <<>>, f.body, "return", 1).b
            ELSE IF current_terminated(r.b) THEN r.b
            ELSE IF f.ret = "Unit" THEN terminate(left, Instruction("return"))
            ELSE finish(left, r.v).b)
=============================================================================
