------------------------------ MODULE NirVerify ------------------------------
(***************************************************************************)
(* The NIR verifier (compiler/src/nir/verify.rs), first half: the shape of *)
(* a function, which definitions reach which uses, which case a payload is *)
(* read under, which invoke slots are filled, what is dropped twice, and   *)
(* the discipline of observations.  It looks at the code alone: nothing    *)
(* the checker or the lowering knew is handed to it.                       *)
(*                                                                         *)
(* Each pass returns the set of diagnostic codes it reports.  Scalar types *)
(* are not told apart, and NIR has neither generics nor protocols here.    *)
(***************************************************************************)
EXTENDS NirLower

\* known_functions: the signature of a callee; the entry point has none.
raises_of(name) == IF name \in DOMAIN Signatures THEN Signatures[name].raises ELSE "none"

is_value(i) == i.op \notin {"store", "drop", "store_place", "end_observe", "decompose"}

\* A Load stands for its slot.
canonical(v) == IF v[1] = "l" THEN v[2] ELSE v

-----------------------------------------------------------------------------
(***************************************************************************)
(* A function under verification: value_types, alloc_slots, the edges      *)
(* <<from, number, to>> and the blocks they reach.                         *)
(***************************************************************************)

terminator_targets(t) == IF t.op \in {"branch", "cond_branch", "switch", "invoke"} THEN t.to ELSE <<>>

reachable_from(edges) ==
    LET RECURSIVE go(_)
        go(S) == LET T == S \cup {e[3] : e \in {d \in edges : d[1] \in S}}
                 IN  IF T = S THEN S ELSE go(T)
    IN  go({1})

\* The value instructions, and where they stand.
definitions(blocks) ==
    UNION {{<<n, i>> : i \in {j \in DOMAIN blocks[n].ins : is_value(blocks[n].ins[j])}} :
             n \in DOMAIN blocks}

\* The first definition of a value counts.
site_of(blocks, defs, v) ==
    LET at == {d \in defs : blocks[d[1]].ins[d[2]].v = v}
    IN  CHOOSE d \in at : \A e \in at : d[1] < e[1] \/ (d[1] = e[1] /\ d[2] <= e[2])

Function(f, blocks, params_of) ==
    LET defs == definitions(blocks)
        ins(d) == blocks[d[1]].ins[d[2]]
        edges == UNION {{<<n, k, terminator_targets(blocks[n].term)[k]>> :
                            k \in DOMAIN terminator_targets(blocks[n].term)} : n \in DOMAIN blocks}
        values == {ins(d).v : d \in defs}
        sites == [v \in values |-> site_of(blocks, defs, v)]
    IN  [params |-> f.params, ret |-> f.ret, raises |-> raises_of(f.name), params_of |-> params_of,
         blocks |-> blocks, edges |-> edges, reachable |-> reachable_from(edges),
         types |-> [v \in values |-> ins(sites[v]).ty]
                   @@ [v \in {<<"p", i>> : i \in DOMAIN f.params} |-> f.params[v[2]].local[1]],
         sites |-> sites, duplicates |-> Cardinality(defs) # Cardinality(values),
         slots |-> {ins(d).v : d \in {e \in defs : ins(e).op = "alloc"}},
         payloads |-> [v \in {ins(d).v : d \in {e \in defs : ins(e).op = "payload"}} |-> ins(sites[v])]]

known(c, v) == v \in DOMAIN c.types
affine(c, v) == known(c, v) /\ is_affine(c.types[v])

\* Scalars are one type.
same_type(a, b) == a = b \/ (a \notin Items /\ b \notin Items)
mismatched(c, v, ty) == known(c, v) /\ ~same_type(c.types[v], ty)

\* The fields of a place, without the step from a resource to its contents.
fields_of(c, i) ==
    IF i.path # <<>> /\ known(c, i.src) /\ c.types[i.src] \in DeclaredResources
    THEN Tail(i.path) ELSE i.path

place_of(c, i) == <<canonical(i.src), fields_of(c, i)>>

\* resolve_place_ty: the type of the place, or the code of what is wrong.
resolve_place_ty(c, i) ==
    FoldLeft(LAMBDA r, n :
                 IF r.code # "" THEN r
                 ELSE IF r.ty \notin Items \ VariantItems THEN
                         [r EXCEPT !.code = "PLACE_PROJECTION_THROUGH_NON_RECORD"]
                 ELSE IF n \notin DOMAIN FieldTypes[r.ty] THEN [r EXCEPT !.code = "UNKNOWN_PLACE_FIELD"]
                 ELSE [r EXCEPT !.ty = FieldTypes[r.ty][n]],
             [ty |-> c.types[i.src], code |-> ""], fields_of(c, i))

When(condition, code) == IF condition THEN {code} ELSE {}

\* operands_of, instruction_operands: what an instruction reads.
operands_of(i) ==
    CASE i.op \in {"const", "alloc", "end_observe"} -> {}
      [] i.op \in {"call", "create"} -> Range(i.args)
      [] i.op = "store_place" -> {i.src, i.args[1]}
      [] i.op = "decompose" -> {i.src} \cup {t[2] : t \in i.path}
      [] OTHER -> {i.src}

terminator_operands(t) ==
    CASE t.op = "invoke" -> Range(t.args)
      [] t.op = "branch" -> {}
      [] OTHER -> {t.src} \ {Diverged}

-----------------------------------------------------------------------------
(***************************************************************************)
(* verify_function, verify_value_kind: types and references.               *)
(***************************************************************************)

\* Arguments against declared types; a wrong number is told apart.
argument_faults(c, args, tys, arity) ==
    IF Len(args) # Len(tys) THEN {arity}
    ELSE When(\E k \in DOMAIN args : mismatched(c, args[k], tys[k]), "OPERAND_TYPE_MISMATCH")

\* A construction names the case its payload has the length of.
case_of(variant, args) ==
    LET ns == {n \in DOMAIN Cases[variant] : Len(Cases[variant][n]) = Len(args)}
    IN  IF ns = {} THEN 1 ELSE CHOOSE n \in ns : TRUE

create_faults(c, i) ==
    When(i.ty # i.name, "OPERAND_TYPE_MISMATCH")
    \cup IF i.name \in VariantItems
         THEN argument_faults(c, i.args, Cases[i.name][case_of(i.name, i.args)], "ARITY_MISMATCH")
         ELSE argument_faults(c, i.args, FieldTypes[i.name], "RECORD_FIELDS_NOT_INITIALIZED_ONCE_EACH")

call_faults(c, i) ==
    When(Signatures[i.name].raises # "none", "CALL_TO_FALLIBLE_FUNCTION")
    \cup When(~same_type(Signatures[i.name].ret, i.ty), "OPERAND_TYPE_MISMATCH")
    \cup argument_faults(c, i.args, c.params_of[i.name], "ARITY_MISMATCH")

payload_faults(c, i) ==
    LET tys == Cases[i.name][i.case] IN
    When(mismatched(c, i.src, i.name), "OPERAND_TYPE_MISMATCH")
    \cup IF i.path[1] \in DOMAIN tys THEN When(~same_type(tys[i.path[1]], i.ty), "OPERAND_TYPE_MISMATCH")
         ELSE {"UNKNOWN_VARIANT_OR_CASE"}

\* PlaceRead, ObservePlace, StorePlace: an affine place of the expected type.
place_faults(c, i, ty, affinity, mismatch) ==
    LET r == resolve_place_ty(c, i) IN
    IF ~known(c, i.src) THEN {}
    ELSE IF r.code # "" THEN {r.code}
    ELSE IF ~is_affine(r.ty) THEN {affinity}
    ELSE When(~same_type(r.ty, ty), mismatch)

\* ExtractionTable::claim_matches: the owner was read from this very payload.
claim_matches(c, i, claim) ==
    /\ claim[2] \in DOMAIN c.payloads
    /\ LET p == c.payloads[claim[2]]
       IN  /\ canonical(p.src) = canonical(i.src)
           /\ p.name = i.name /\ p.case = i.case /\ p.path = <<claim[1]>>

decompose_faults(c, i) ==
    LET tys == Cases[i.name][i.case]
        once(claim, n) == \A d \in i.path : d[n] = claim[n] => d = claim
        claim_fault(claim) ==
            IF ~once(claim, 2) \/ ~claim_matches(c, i, claim) THEN {"DECOMPOSITION_CLAIM_MISMATCH"}
            ELSE IF claim[1] \notin DOMAIN tys THEN {"UNKNOWN_PLACE_FIELD"}
            ELSE IF ~once(claim, 1) THEN {"DUPLICATE_STRUCTURAL_CLEANUP"}
            ELSE When(mismatched(c, claim[2], tys[claim[1]]), "STORE_TYPE_MISMATCH")
    IN  IF ~known(c, i.src) \/ c.types[i.src] # i.name THEN {"PLACE_PROJECTION_THROUGH_NON_RECORD"}
        ELSE IF i.case \notin DOMAIN Cases[i.name] THEN {"UNKNOWN_PLACE_FIELD"}
        ELSE UNION {claim_fault(claim) : claim \in i.path}

value_of(c, v) == IF known(c, v) THEN c.types[v] ELSE "unknown"

instruction_faults(c, i) ==
    When(\E v \in operands_of(i) : ~known(c, v), "UNKNOWN_VALUE")
    \cup CASE i.op = "load" ->
                IF i.src \notin c.slots THEN {"UNKNOWN_SLOT"}
                ELSE When(mismatched(c, i.src, i.ty), "OPERAND_TYPE_MISMATCH")
           [] i.op = "store" ->
                IF i.v \notin c.slots THEN {"UNKNOWN_SLOT"}
                ELSE When(mismatched(c, i.src, value_of(c, i.v)), "STORE_TYPE_MISMATCH")
           [] i.op = "create" -> create_faults(c, i)
           [] i.op = "call" -> call_faults(c, i)
           [] i.op = "payload" -> payload_faults(c, i)
           [] i.op = "record_field" ->
                LET r == resolve_place_ty(c, i)
                IN  When(known(c, i.src) /\ (r.code # "" \/ ~same_type(r.ty, i.ty)), "OPERAND_TYPE_MISMATCH")
           [] i.op \in {"move", "defer_capture"} ->
                When(mismatched(c, i.src, i.ty), "OPERAND_TYPE_MISMATCH")
           [] i.op = "place_read" ->
                place_faults(c, i, i.ty, "MOVE_OF_NON_AFFINE_PLACE", "OPERAND_TYPE_MISMATCH")
           [] i.op = "observe" ->
                place_faults(c, i, i.ty, "OBSERVATION_SOURCE_NOT_AFFINE", "OBSERVATION_RESULT_TYPE_MISMATCH")
           [] i.op = "store_place" ->
                When(i.src = i.args[1], "STORE_PLACE_SELF_ALIAS")
                \cup place_faults(c, i, value_of(c, i.args[1]), "MOVE_OF_NON_AFFINE_PLACE", "STORE_TYPE_MISMATCH")
           [] i.op = "decompose" -> decompose_faults(c, i)
           [] i.op = "drop" -> When(~affine(c, i.src), "DROP_OF_NON_RESOURCE_VALUE")
           [] OTHER -> {}

invoke_faults(c, t) ==
    LET fn == Signatures[t.name] IN
    When(t.path[1] \notin c.slots, "INVOKE_SUCCESS_SLOT_UNALLOCATED")
    \cup When(t.path[2] \notin c.slots, "INVOKE_FAILURE_SLOT_UNALLOCATED")
    \cup When(fn.raises = "none", "INVOKE_OF_INFALLIBLE_FUNCTION")
    \cup When(t.path[1] \in c.slots /\ mismatched(c, t.path[1], fn.ret), "INVOKE_SUCCESS_TYPE_MISMATCH")
    \cup When(t.path[2] \in c.slots /\ mismatched(c, t.path[2], fn.raises), "INVOKE_FAILURE_TYPE_MISMATCH")
    \cup argument_faults(c, t.args, c.params_of[t.name], "ARITY_MISMATCH")

terminator_faults(c, t) ==
    When(\E v \in terminator_operands(t) : ~known(c, v), "UNKNOWN_VALUE")
    \cup When(1 \in Range(terminator_targets(t)), "EDGE_INTO_ENTRY_BLOCK")
    \cup When(\E n \in Range(terminator_targets(t)) : n \notin DOMAIN c.blocks, "UNKNOWN_BRANCH_TARGET")
    \cup CASE t.op = "return" ->
                IF t.src = Diverged THEN When(~same_type(c.ret, "Unit"), "RETURN_TYPE_MISMATCH")
                ELSE When(mismatched(c, t.src, c.ret), "RETURN_TYPE_MISMATCH")
           [] t.op = "cond_branch" -> When(mismatched(c, t.src, "Bool"), "NON_BOOL_CONDITION")
           [] t.op = "switch" ->
                When(mismatched(c, t.src, t.name), "SWITCH_SCRUTINEE_TYPE_MISMATCH")
                \cup When(Len(t.to) # Len(Cases[t.name]), "SWITCH_CASE_COVERAGE")
           [] t.op = "invoke" -> invoke_faults(c, t)
           [] t.op = "raise" ->
                When(~known(c, t.src) \/ c.types[t.src] # c.raises, "UNDECLARED_RAISE")
           [] OTHER -> {}

verify_shape(c) ==
    When(c.duplicates, "DUPLICATE_VALUE_DEFINITION")
    \cup UNION {UNION {instruction_faults(c, i) : i \in Range(c.blocks[n].ins)}
                \cup terminator_faults(c, c.blocks[n].term) : n \in DOMAIN c.blocks}

-----------------------------------------------------------------------------
(***************************************************************************)
(* verify_dominance: a use is dominated by its definition.                 *)
(***************************************************************************)

\* compute_dominators: the blocks on every path from the entry; a block that is
\* not reached is dominated by itself alone.
compute_dominators(c) ==
    LET preds(n) == {e[1] : e \in {d \in c.edges : d[3] = n /\ d[1] \in c.reachable}}
        start == [n \in DOMAIN c.blocks |-> IF n = 1 \/ n \notin c.reachable THEN {n} ELSE c.reachable]
        RECURSIVE go(_)
        go(dom) ==
            LET next == [n \in DOMAIN dom |->
                            IF n = 1 \/ n \notin c.reachable THEN dom[n]
                            ELSE {n} \cup {m \in c.reachable : \A p \in preds(n) : m \in dom[p]}]
            IN  IF next = dom THEN dom ELSE go(next)
    IN  go(start)

use_fault(c, dom, n, at, v) ==
    IF v \notin DOMAIN c.sites THEN {}
    ELSE LET d == c.sites[v] IN
         IF d[1] = n THEN When(d[2] >= at, "USE_BEFORE_DEFINITION")
         ELSE When(d[1] \notin dom[n], "NON_DOMINATING_DEFINITION")

verify_dominance(c) ==
    LET dom == compute_dominators(c)
        uses(i) == operands_of(i) \cup IF i.op = "store" THEN {i.v} ELSE {}
        ends(t) == terminator_operands(t) \cup IF t.op = "invoke" THEN Range(t.path) ELSE {}
    IN  UNION {UNION {UNION {use_fault(c, dom, n, i, v) : v \in uses(c.blocks[n].ins[i])} :
                         i \in DOMAIN c.blocks[n].ins}
               \cup UNION {use_fault(c, dom, n, Len(c.blocks[n].ins) + 1, v) : v \in ends(c.blocks[n].term)} :
               n \in DOMAIN c.blocks}

-----------------------------------------------------------------------------
(***************************************************************************)
(* Forward data flow over the blocks.  Through(n, s) is the state after    *)
(* block n entered in s, Edge(e, s) what edge e makes of it, Join(S) the   *)
(* state where those of S meet.  A block no processed predecessor leads to *)
(* yet is pending and ignored; one that is never reached is entered in     *)
(* `unreached', if that pass looks at it at all.                           *)
(***************************************************************************)

entered(c, entry, outs, Edge(_, _), Join(_), n) ==
    LET S == UNION {{Edge(e, s) : s \in outs[e[1]]} : e \in {d \in c.edges : d[3] = n /\ d[1] \in c.reachable}}
    IN  CASE n = 1 -> {entry} [] S = {} -> {} [] OTHER -> {Join(S)}

\* The blocks' out-states: one each, none where nothing arrives.
Solve(c, entry, Through(_, _), Edge(_, _), Join(_)) ==
    LET visit(outs, n) ==
            IF n \notin c.reachable THEN outs
            ELSE [outs EXCEPT ![n] = {Through(n, s) : s \in entered(c, entry, outs, Edge, Join, n)}]
        RECURSIVE go(_)
        go(outs) == LET next == FoldLeft(visit, outs, [n \in DOMAIN c.blocks |-> n])
                    IN  IF next = outs THEN outs ELSE go(next)
    IN  go([n \in DOMAIN c.blocks |-> {}])

\* What a pass reports: the codes of the out-states, and of the blocks that
\* are not reached.
Reported(c, outs, Through(_, _), unreached) ==
    UNION {UNION {s.codes : s \in outs[n]} : n \in c.reachable}
    \cup UNION {Through(n, unreached).codes : n \in DOMAIN c.blocks \ c.reachable}

\* A fact set with the codes found on the way.
Facts(S) == [facts |-> S, codes |-> {}]

Union(S) == Facts(UNION {s.facts : s \in S})
Intersection(S) == Facts({x \in (CHOOSE s \in S : TRUE).facts : \A s \in S : x \in s.facts})

along(c, n, s, Step(_, _)) == FoldLeft(Step, [s EXCEPT !.codes = {}], c.blocks[n].ins)

-----------------------------------------------------------------------------
(***************************************************************************)
(* case_refinements, verify_payload_refinement: the case a variant is      *)
(* known to be in, <<value, variant, case>>.                               *)
(***************************************************************************)

\* refinement_kill
refinement_kill(c, i) ==
    IF i.op = "store" THEN {canonical(i.v)}
    ELSE IF i.op = "store_place" /\ i.path = <<>> THEN {canonical(i.src)}
    ELSE {}

without(facts, roots) == {x \in facts : x[1] \notin roots}

refinement_step(c, s, i) ==
    LET proven == <<canonical(i.src), i.name, i.case>> \in s.facts
    IN  [facts |-> without(s.facts, refinement_kill(c, i)),
         codes |-> s.codes \cup When(i.op = "payload" /\ ~proven, "PAYLOAD_OUTSIDE_REFINEMENT")
                           \cup When(i.op = "decompose" /\ ~proven, "DECOMPOSITION_OUTSIDE_REFINEMENT")]

refinement_edge(c, e, s) ==
    LET t == c.blocks[e[1]].term IN
    CASE t.op = "switch" -> Facts(s.facts \cup {<<canonical(t.src), t.name, e[2]>>})
      [] t.op = "invoke" -> Facts(without(s.facts, Range(t.path)))
      [] OTHER -> Facts(s.facts)

refinement_through(c, n, s) == along(c, n, s, LAMBDA x, i : refinement_step(c, x, i))

case_refinements(c) ==
    Solve(c, Facts({}), LAMBDA n, s : refinement_through(c, n, s),
          LAMBDA e, s : refinement_edge(c, e, s), Intersection)

verify_payload_refinement(c, refined) ==
    Reported(c, refined, LAMBDA n, s : refinement_through(c, n, s), Facts({}))

-----------------------------------------------------------------------------
(***************************************************************************)
(* verify_invoke_slot_initialization: a slot an invoke writes is loaded    *)
(* only where a store or the invoke's edge has filled it.                  *)
(***************************************************************************)

guarded_slots(c) ==
    UNION {Range(c.blocks[n].term.path) : n \in {m \in DOMAIN c.blocks : c.blocks[m].term.op = "invoke"}}

invoke_slot_through(c, guarded, n, s) ==
    along(c, n, s, LAMBDA x, i :
        [facts |-> IF i.op = "store" /\ i.v \in guarded THEN x.facts \cup {i.v} ELSE x.facts,
         codes |-> x.codes \cup When(i.op = "load" /\ i.src \in guarded \ x.facts,
                                     "INVOKE_SLOT_NOT_DEFINITELY_INITIALIZED")])

\* terminator_edges: the slot an edge of an invoke writes.
written(c, e) == IF c.blocks[e[1]].term.op = "invoke" THEN {c.blocks[e[1]].term.path[e[2]]} ELSE {}

verify_invoke_slot_initialization(c) ==
    LET guarded == guarded_slots(c)
        through(n, s) == invoke_slot_through(c, guarded, n, s)
        outs == Solve(c, Facts({}), through, LAMBDA e, s : Facts(s.facts \cup written(c, e)), Intersection)
    IN  IF guarded = {} THEN {} ELSE Reported(c, outs, through, Facts({}))

-----------------------------------------------------------------------------
(***************************************************************************)
(* verify_drop_state: no value is dropped twice.                           *)
(***************************************************************************)

drop_through(c, n, s) ==
    along(c, n, s, LAMBDA x, i :
        IF i.op = "drop" THEN [facts |-> x.facts \cup {i.src},
                               codes |-> x.codes \cup When(i.src \in x.facts, "DOUBLE_DROP")]
        ELSE IF is_value(i) THEN [x EXCEPT !.facts = @ \ {i.v}]
        ELSE x)

verify_drop_state(c) ==
    LET through(n, s) == drop_through(c, n, s)
    IN  Reported(c, Solve(c, Facts({}), through, LAMBDA e, s : Facts(s.facts), Union), through, Facts({}))

-----------------------------------------------------------------------------
(***************************************************************************)
(* verify_observations: observations end innermost first, in every path    *)
(* alike; what they observe is not consumed meanwhile, and nothing that    *)
(* came out of one is used afterwards.                                     *)
(***************************************************************************)

\* begins: the first place an observation begins with.
begins(c) ==
    LET ins(d) == c.blocks[d[1]].ins[d[2]]
        sites == {d \in definitions(c.blocks) : ins(d).op = "observe"}
    IN  [o \in {ins(d).to : d \in sites} |->
            place_of(c, ins(CHOOSE d \in sites : ins(d).to = o))]

repeated_begins(c) ==
    LET sites == {d \in definitions(c.blocks) : c.blocks[d[1]].ins[d[2]].op = "observe"}
    IN  When(\E d, e \in sites : d # e /\ c.blocks[d[1]].ins[d[2]].to = c.blocks[e[1]].ins[e[2]].to,
             "DUPLICATE_OBSERVATION_ID")

unknown_ends(c) ==
    When(\E n \in DOMAIN c.blocks : \E i \in Range(c.blocks[n].ins) :
             i.op = "end_observe" /\ i.to \notin DOMAIN begins(c), "UNKNOWN_OBSERVATION_ID")

\* carriers: <<value, observation>>, values through which the observed is reached.
ObservationState(stack, carriers) ==
    [stack |-> stack, conflict |-> FALSE, carriers |-> carriers, codes |-> {}]

carried(s, v) == {x[2] : x \in {y \in s.carriers : y[1] = v}}

set_carriers(s, v, S) == [s EXCEPT !.carriers = {x \in @ : x[1] # v} \cup {<<v, o>> : o \in S}]

\* observation_source: the root of the place a value was taken out of.
observation_source(i) ==
    IF i.op \in {"place_read", "record_field", "payload", "move", "defer_capture"}
    THEN {canonical(i.src)} ELSE {}

\* argument_transfers
taken_args(c, i) == {i.args[k] : k \in {j \in DOMAIN i.args : Signatures[i.name].take[j] /\ affine(c, i.args[j])}}

whole(v) == <<canonical(v), <<>>>>

\* consumed_places: what an instruction or terminator takes, drops or overwrites.
consumed_places(c, i) ==
    CASE i.op = "place_read" -> IF i.name = "Transfer" THEN {place_of(c, i)} ELSE {}
      [] i.op \in {"move", "defer_capture", "drop"} -> IF affine(c, i.src) THEN {whole(i.src)} ELSE {}
      [] i.op = "create" -> {whole(v) : v \in {w \in Range(i.args) : affine(c, w)}}
      [] i.op \in {"call", "invoke"} -> {whole(v) : v \in taken_args(c, i)}
      [] i.op = "store" ->
            (IF i.name = "Transfer" /\ affine(c, i.src) THEN {whole(i.src)} ELSE {})
            \cup IF affine(c, i.v) THEN {<<i.v, <<>>>>} ELSE {}
      [] i.op = "decompose" -> {whole(i.src)}
      [] i.op = "store_place" ->
            {place_of(c, i)} \cup IF affine(c, i.args[1]) THEN {whole(i.args[1])} ELSE {}
      [] i.op = "switch" -> IF affine(c, i.src) THEN {whole(i.src)} ELSE {}
      [] OTHER -> {}

use_codes(c, started, s, i, operands) ==
    When(\E v \in operands : carried(s, v) \ Range(s.stack) # {}, "OBSERVER_USED_AFTER_END")
    \cup When(\E o \in Range(s.stack) : \E q \in consumed_places(c, i) : places_overlap(started[o], q),
              "OWNERSHIP_WHILE_OBSERVED")

carry(s, i) ==
    IF i.op = "observe" THEN set_carriers(s, i.v, {i.to})
    ELSE IF i.op = "load" THEN set_carriers(s, i.v, carried(s, i.src))
    ELSE IF i.op = "store" THEN set_carriers(s, i.v, IF i.name = "Observe" THEN carried(s, i.src) ELSE {})
    ELSE IF is_value(i) THEN set_carriers(s, i.v, UNION {carried(s, r) : r \in observation_source(i)})
    ELSE s

\* The stack after an instruction, and what is wrong about it.
nest(started, s, i) ==
    CASE i.op = "observe" ->
            IF Contains(s.stack, i.to) THEN [s EXCEPT !.codes = @ \cup {"DUPLICATE_OBSERVATION_ID"}]
            ELSE [s EXCEPT !.stack = Append(@, i.to)]
      [] i.op = "end_observe" /\ i.to \in DOMAIN started ->
            IF s.stack # <<>> /\ Last(s.stack) = i.to THEN [s EXCEPT !.stack = Front(@)]
            ELSE IF Contains(s.stack, i.to) THEN
                    [s EXCEPT !.codes = @ \cup {"OBSERVATION_END_NOT_INNERMOST"},
                              !.stack = SubSeq(@, 1, (CHOOSE k \in DOMAIN @ : @[k] = i.to) - 1)]
            ELSE [s EXCEPT !.codes = @ \cup {"OBSERVATION_END_NOT_INNERMOST"}]
      [] OTHER -> s

observation_step(c, started, s, i) ==
    LET used == [s EXCEPT !.codes = @ \cup use_codes(c, started, s, i, operands_of(i))]
    IN  nest(started, carry(used, i), i)

observation_transfer(c, started, n, s) ==
    LET t == c.blocks[n].term
        x == along(c, n, s, LAMBDA y, i : observation_step(c, started, y, i))
    IN  IF s.conflict THEN [s EXCEPT !.codes = {"OBSERVATION_STATE_CONFLICT"}]
        ELSE [x EXCEPT !.codes = @ \cup use_codes(c, started, x, t, terminator_operands(t))
                     \cup When(t.op \in {"return", "raise"} /\ x.stack # <<>>, "OBSERVATION_ACTIVE_AT_EXIT")]

observation_join(S) ==
    LET one == CHOOSE s \in S : TRUE
        conflict == \E s \in S : s.conflict \/ s.stack # one.stack
    IN  [stack |-> IF conflict THEN <<>> ELSE one.stack, conflict |-> conflict,
         carriers |-> UNION {s.carriers : s \in S}, codes |-> {}]

verify_observations(c) ==
    LET started == begins(c)
        outs == Solve(c, ObservationState(<<>>, {}), LAMBDA n, s : observation_transfer(c, started, n, s),
                      LAMBDA e, s : [s EXCEPT !.codes = {},
                                              !.carriers = {x \in @ : x[1] \notin written(c, e)}],
                      observation_join)
    IN  repeated_begins(c) \cup unknown_ends(c) \cup UNION {UNION {s.codes : s \in outs[n]} : n \in c.reachable}
=============================================================================
