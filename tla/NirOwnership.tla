---------------------------- MODULE NirOwnership ----------------------------
(***************************************************************************)
(* The NIR verifier (compiler/src/nir/verify.rs), second half: what each   *)
(* value, slot and field owns or observes on every path, and what must     *)
(* still be cleaned up where the function is left.                         *)
(***************************************************************************)
EXTENDS NirVerify

-----------------------------------------------------------------------------
(***************************************************************************)
(* verify_resource_ownership: values and slots of a declared resource.     *)
(* State: the consumed origins, the live owners, and for each location the *)
(* resources it may hold (ids), those already destroyed (dead) and its     *)
(* role.  A location that is not in `at' is uninitialized.                 *)
(***************************************************************************)

is_resource(c, v) == known(c, v) /\ c.types[v] \in DeclaredResources

Location(state, ids, role) == [state |-> state, ids |-> ids, dead |-> {}, role |-> role]
Uninitialized == Location("Uninitialized", {}, "")
Holding(ids, role) == Location("Initialized", ids, role)

resolve_state(s, v) == IF v \in DOMAIN s.at THEN s.at[v] ELSE Uninitialized
resolve_ids(s, v) == IF resolve_state(s, v).state = "Initialized" THEN s.at[v].ids ELSE {v}

merge_location(a, b) ==
    CASE a.state = "Initialized" /\ b.state = "Initialized" ->
            [a EXCEPT !.ids = @ \cup b.ids, !.dead = @ \cup b.dead,
                      !.role = IF @ = "Owned" /\ b.role = "Owned" THEN "Owned" ELSE "Observed"]
      [] a.state = "Uninitialized" /\ b.state = "Uninitialized" -> Uninitialized
      [] OTHER -> Location("MaybeUninitialized", {}, "")

merge_provenance(s, t) ==
    [v \in DOMAIN s.at \cup DOMAIN t.at |-> merge_location(resolve_state(s, v), resolve_state(t, v))]

OwnershipState(live, at) == [consumed |-> {}, live |-> live, at |-> at, codes |-> {}]

\* check_alias_safety: may v be used here, and what is reported about it?
alias_legal(c, s, v, consumes) ==
    \/ ~is_resource(c, v)
    \/ /\ resolve_state(s, v).state = "Initialized"
       /\ consumes => s.at[v].role = "Owned"

alias_codes(c, s, v, consumes, observer) ==
    IF ~is_resource(c, v) THEN {}
    ELSE IF resolve_state(s, v).state # "Initialized" THEN {"RESOURCE_LOCATION_NOT_DEFINITELY_INITIALIZED"}
    ELSE When(s.at[v].dead # {}, "RESOURCE_ORIGIN_CONFLICT")
         \cup When(consumes /\ s.at[v].role # "Owned", observer)

\* check_use
check_use(c, s, v, consumes) ==
    LET o == canonical(v) IN
    IF ~is_resource(c, v) THEN s
    ELSE [s EXCEPT !.codes = @ \cup When(o \in s.consumed, "RESOURCE_USE_AFTER_CONSUME"),
                   !.consumed = IF consumes THEN @ \cup {o} ELSE @,
                   !.live = IF consumes THEN @ \ {o} ELSE @]

use_as(c, s, v, consumes, observer) ==
    check_use(c, [s EXCEPT !.codes = @ \cup alias_codes(c, s, v, consumes, observer)],
              v, consumes /\ alias_legal(c, s, v, consumes))

observe_value(c, s, v) == use_as(c, s, v, FALSE, "")
consume_value(c, s, v) == use_as(c, s, v, TRUE, "RESOURCE_OBSERVER_CONSUMED")

\* Every argument in turn, as the callee takes or observes it.
pass_arguments(c, s, i) ==
    FoldLeft(LAMBDA x, k : use_as(c, x, i.args[k], Signatures[i.name].take[k], "RESOURCE_OBSERVER_CONSUMED"),
             s, [k \in DOMAIN i.args |-> k])

forget(s, v) ==
    [s EXCEPT !.consumed = @ \ {v}, !.live = @ \ {v}, !.at = [x \in DOMAIN @ \ {v} |-> @[x]]]

hold(s, v, location) == [s EXCEPT !.at = Insert(@, v, location)]

enliven(s, v) == [s EXCEPT !.live = @ \cup {v}]

\* A value instruction; its result starts afresh.
value_ownership(c, s0, i) ==
    LET s == forget(s0, i.v)
        owner(x) == hold(enliven(x, i.v), i.v, Holding({i.v}, "Owned"))
        moved == consume_value(c, s, i.src)
        role == IF alias_legal(c, s, i.src, TRUE) THEN "Owned" ELSE "Observed"
        read == FoldSet(LAMBDA v, x : observe_value(c, x, v), s, operands_of(i))
    IN  CASE i.op = "call" ->
                LET x == pass_arguments(c, s, i) IN IF is_resource(c, i.v) THEN owner(x) ELSE x
          [] i.op = "create" ->
                LET x == FoldLeft(LAMBDA y, v : consume_value(c, y, v), s, i.args)
                IN  IF is_resource(c, i.v) THEN owner(x) ELSE x
          [] i.op \in {"move", "defer_capture"} ->
                IF ~is_resource(c, i.src) THEN moved
                ELSE hold(enliven(moved, i.v), i.v, Holding(resolve_ids(s, i.src), role))
          [] i.op \in {"place_read", "observe"} ->
                IF ~is_resource(c, i.v) THEN s
                ELSE IF i.op = "place_read" /\ i.name = "Transfer" THEN owner(s)
                ELSE hold(s, i.v, Holding({i.v}, "Observed"))
          [] i.op = "load" ->
                IF resolve_state(s, i.src).state = "Initialized" THEN hold(read, i.v, read.at[i.src]) ELSE read
          [] i.op = "alloc" -> IF is_resource(c, i.v) THEN hold(s, i.v, Uninitialized) ELSE s
          [] OTHER -> IF is_resource(c, i.v) THEN owner(read) ELSE read

\* A slot takes over what the value stands for.
store_ownership(c, s, i) ==
    LET transfer == i.name = "Transfer"
        used == use_as(c, s, i.src, transfer, "INVALID_RESOURCE_STORE_MODE")
        owns == transfer /\ alias_legal(c, s, i.src, transfer)
        cleared == forget(used, i.v)
        held == hold(cleared, i.v, Holding(resolve_ids(cleared, i.src), IF owns THEN "Owned" ELSE "Observed"))
    IN  IF ~is_resource(c, i.src) THEN cleared
        ELSE IF owns THEN enliven(held, i.v)
        ELSE held

\* A destruction is seen through every location that shares the resource.
drop_ownership(c, s, i) ==
    LET x == consume_value(c, s, i.src)
        ids == resolve_ids(x, i.src)
    IN  IF ~is_resource(c, i.src) \/ ~alias_legal(c, s, i.src, TRUE) THEN x
        ELSE [x EXCEPT !.at = [v \in DOMAIN @ |-> [@[v] EXCEPT !.dead = @ \cup (x.at[v].ids \cap ids)]]]

ownership_step(c, s, i) ==
    IF is_value(i) THEN value_ownership(c, s, i)
    ELSE IF i.op = "store" THEN store_ownership(c, s, i)
    ELSE IF i.op = "drop" THEN drop_ownership(c, s, i)
    ELSE IF i.op = "store_place" THEN consume_value(c, s, i.args[1])
    ELSE IF i.op = "decompose"
         THEN check_use(c, observe_value(c, s, i.src), i.src, alias_legal(c, s, i.src, FALSE))
    ELSE s

ownership_transfer(c, n, s) ==
    LET t == c.blocks[n].term
        x == along(c, n, s, LAMBDA y, i : ownership_step(c, y, i))
        y == CASE t.op \in {"return", "raise", "switch"} -> IF t.src = Diverged THEN x ELSE consume_value(c, x, t.src)
               [] t.op = "invoke" -> pass_arguments(c, x, t)
               [] OTHER -> x
    IN  [y EXCEPT !.codes = @ \cup When(t.op \in {"return", "raise"} /\ y.live # {}, "RESOURCE_LEAKED_ON_EXIT")]

\* Only the success edge of an invoke makes its slot an owner.
ownership_edge(c, e, s) ==
    LET filled == {v \in written(c, e) : e[2] = 1 /\ is_resource(c, v)}
    IN  [s EXCEPT !.codes = {}, !.live = @ \cup filled,
                  !.at = [v \in filled |-> Holding({v}, "Owned")] @@ @]

ownership_join(S) ==
    LET one == CHOOSE s \in S : TRUE
    IN  FoldSet(LAMBDA s, t : [t EXCEPT !.consumed = @ \cup s.consumed, !.live = @ \cup s.live,
                                        !.at = merge_provenance(t, s)], one, S \ {one})

ownership_entry(c) ==
    LET params == {<<"p", k>> : k \in {j \in DOMAIN c.params : is_resource(c, <<"p", j>>)}}
        taken == {v \in params : c.params[v[2]].take}
    IN  OwnershipState(taken, [v \in params |-> Holding({v}, IF v \in taken THEN "Owned" ELSE "Observed")])

non_resource_moves(c) ==
    When(\E n \in DOMAIN c.blocks : \E i \in Range(c.blocks[n].ins) :
             i.op \in {"move", "defer_capture"} /\ ~affine(c, i.src), "MOVE_SOURCE_NOT_RESOURCE")

verify_resource_ownership(c) ==
    LET through(n, s) == ownership_transfer(c, n, s)
        outs == Solve(c, ownership_entry(c), through, LAMBDA e, s : ownership_edge(c, e, s), ownership_join)
    IN  non_resource_moves(c) \cup Reported(c, outs, through, OwnershipState({}, <<>>))

-----------------------------------------------------------------------------
(***************************************************************************)
(* verify_structural_places: fields of inline aggregates.  A FieldState is *)
(* the set of what a place may be; a place without a fact is owned.        *)
(***************************************************************************)

EMPTY == {"Empty"}
OWNED == {"Owned"}
OBSERVED == {"Observed"}

prefixes(place) == [n \in 0..Len(place[2]) |-> <<place[1], SubSeq(place[2], 1, n)>>]

below(facts, place) == {q \in DOMAIN facts : q # place /\ is_ancestor_of(place, q)}

\* The outermost prefix that is not definitely owned decides.
resolve_place_state(facts, place) ==
    LET decisive == {n \in DOMAIN prefixes(place) :
                        prefixes(place)[n] \in DOMAIN facts /\ facts[prefixes(place)[n]] # OWNED}
    IN  IF decisive = {} THEN OWNED ELSE facts[prefixes(place)[Min(decisive)]]

definitely_present(facts, place) == "Empty" \notin resolve_place_state(facts, place)

place_is_whole(facts, place) ==
    /\ definitely_present(facts, place)
    /\ \A q \in below(facts, place) : "Empty" \notin facts[q]

place_may_observe(facts, place) ==
    \/ "Observed" \in resolve_place_state(facts, place)
    \/ \E q \in below(facts, place) : "Observed" \in facts[q]

set_place(facts, place, state) ==
    [q \in (DOMAIN facts \ below(facts, place)) \cup {place} |-> IF q = place THEN state ELSE facts[q]]

\* What is owned of a place itself, whatever a partly moved ancestor lacks.
precise_place_state(facts, place) ==
    IF \E n \in DOMAIN prefixes(place) \ {Len(place[2])} :
           /\ prefixes(place)[n] \in DOMAIN facts
           /\ "Owned" \notin facts[prefixes(place)[n]] THEN EMPTY
    ELSE IF place \in DOMAIN facts THEN facts[place]
    ELSE resolve_place_state(facts, place)

\* Mutant of merge_place_facts: a place is what it is on the first edge.
MergeFirst(a, b) == a

merge_place_facts(a, b) ==
    [q \in DOMAIN a \cup DOMAIN b |-> precise_place_state(a, q) \cup precise_place_state(b, q)]

may_own(facts, v) == "Owned" \in resolve_place_state(facts, whole(v))

\* A state x is [facts, codes]; report leaves the facts alone.
report(x, code) == [x EXCEPT !.codes = @ \cup {code}]
put(x, place, state) == [x EXCEPT !.facts = set_place(@, place, state)]

\* The owner of a payload nobody claims is told apart.
missing(c, v, code) ==
    IF v \in DOMAIN c.payloads /\ v \notin c.claimed THEN "UNCLAIMED_PAYLOAD_OWNERSHIP" ELSE code

consume_root(c, x, v, require_whole, reporter) ==
    LET place == whole(v) IN
    IF ~affine(c, v) THEN x
    ELSE IF place_may_observe(x.facts, place) THEN report(x, "OBSERVER_CANNOT_TRANSFER")
    ELSE IF resolve_place_state(x.facts, place) # OWNED THEN
            report(x, missing(c, reporter, "DUPLICATE_STRUCTURAL_CLEANUP"))
    ELSE IF require_whole /\ ~place_is_whole(x.facts, place) THEN report(x, "PARTIAL_PLACE_USED_AS_WHOLE")
    ELSE put(x, place, EMPTY)

observed_codes(c, facts, place, reporter) ==
    CASE ~definitely_present(facts, place) -> {missing(c, reporter, "PLACE_USE_AFTER_MOVE")}
      [] OTHER -> When(~place_is_whole(facts, place), "PARTIAL_PLACE_USED_AS_WHOLE")

observe_root(c, x, v, reporter) ==
    IF affine(c, v) THEN [x EXCEPT !.codes = @ \cup observed_codes(c, x.facts, whole(v), reporter)] ELSE x

-----------------------------------------------------------------------------
(***************************************************************************)
(* Calls: one resource is not both observed and taken.                     *)
(***************************************************************************)

\* CallArgumentProvenance::places_of: every place the value may stand for.
places_of(c, value) ==
    LET stores == UNION {{i \in Range(c.blocks[n].ins) : i.op \in {"store", "store_place"}} : n \in DOMAIN c.blocks}
        stored_into(v) == {i.src : i \in {j \in stores : j.op = "store" /\ j.v = v}}
                          \cup {i.args[1] : i \in {j \in stores : j.op = "store_place" /\ j.src = v}}
        RECURSIVE collect(_, _)
        collect(v, visiting) ==
            IF v \in visiting THEN {}
            ELSE LET next(w) == collect(w, visiting \cup {v})
                     own == IF v \notin DOMAIN c.sites THEN {}
                            ELSE LET i == c.blocks[c.sites[v][1]].ins[c.sites[v][2]] IN
                                 CASE i.op \in {"load", "payload", "move", "defer_capture"} -> next(i.src)
                                   [] i.op = "place_read" -> {place_of(c, i)}
                                   [] i.op = "record_field" -> {<<q[1], q[2] \o fields_of(c, i)>> : q \in next(i.src)}
                                   [] OTHER -> {}
                 IN  {<<v, <<>>>>} \cup own \cup UNION {next(w) : w \in stored_into(v)}
    IN  collect(value, {})

call_mixes_observation_and_transfer(c, i) ==
    \E j, k \in DOMAIN i.args :
        /\ Signatures[i.name].take[j] /\ ~Signatures[i.name].take[k]
        /\ affine(c, i.args[j]) /\ affine(c, i.args[k])
        /\ \E p \in places_of(c, i.args[j]), q \in places_of(c, i.args[k]) : places_overlap(p, q)

pass_places(c, x, i, reporter(_)) ==
    IF call_mixes_observation_and_transfer(c, i) THEN report(x, "MIXED_CALL_OWNERSHIP_ALIAS")
    ELSE FoldLeft(LAMBDA y, k : IF Signatures[i.name].take[k]
                                THEN consume_root(c, y, i.args[k], TRUE, reporter(k))
                                ELSE observe_root(c, y, i.args[k], reporter(k)),
                  x, [k \in DOMAIN i.args |-> k])

-----------------------------------------------------------------------------
(***************************************************************************)
(* The transfer of one instruction.                                        *)
(***************************************************************************)

\* drop_only_reads: a part may be read to be destroyed though it is not whole.
drop_only_reads(c) ==
    LET all == UNION {Range(c.blocks[n].ins) : n \in DOMAIN c.blocks}
        used == UNION {operands_of(i) \cup (IF i.op = "store" THEN {i.v} ELSE {}) : i \in {j \in all : j.op # "drop"}}
                \cup UNION {terminator_operands(c.blocks[n].term) : n \in DOMAIN c.blocks}
    IN  {i.src : i \in {j \in all : j.op = "drop"}} \ used

\* The place a value comes out of, if any.
source_places(c, i) ==
    CASE i.op \in {"place_read", "record_field"} -> {place_of(c, i)}
      [] i.op \in {"payload", "move", "defer_capture"} -> {whole(i.src)}
      [] OTHER -> {}

\* A new value of its own: empty until claimed or stored, observed if it comes
\* out of something observed.
fresh(c, x, i) ==
    LET inherited == \E q \in source_places(c, i) : "Observed" \in resolve_place_state(x.facts, q)
    IN  IF ~(is_value(i) /\ affine(c, i.v) /\ i.op # "load") THEN x
        ELSE IF inherited \/ i.op = "observe" THEN put(x, <<i.v, <<>>>>, OBSERVED)
        ELSE IF i.op \in {"payload", "alloc"} THEN put(x, <<i.v, <<>>>>, EMPTY)
        ELSE put(x, <<i.v, <<>>>>, OWNED)

read_place(c, x, i) ==
    LET place == place_of(c, i)
        transfer == i.name = "Transfer"
    IN  IF transfer /\ place_may_observe(x.facts, place) THEN report(x, "OBSERVER_CANNOT_TRANSFER")
        ELSE IF ~definitely_present(x.facts, place) THEN report(x, "PLACE_USE_AFTER_MOVE")
        ELSE IF i.v \notin c.drop_only /\ ~place_is_whole(x.facts, place)
             THEN report(x, "PARTIAL_PLACE_USED_AS_WHOLE")
        ELSE IF transfer THEN put(x, place, EMPTY) ELSE x

write_place(c, x, i) ==
    LET place == place_of(c, i) IN
    IF place_may_observe(x.facts, place) THEN report(x, "OBSERVER_CANNOT_TRANSFER")
    ELSE IF resolve_place_state(x.facts, place) # EMPTY THEN report(x, "PLACE_OVERWRITE_OF_LIVE_FIELD")
    ELSE consume_root(c, put(x, place, OWNED), i.args[1], TRUE, i.args[1])

\* Each affine payload of the case is claimed exactly once.
claims_all(c, i) ==
    \A k \in DOMAIN Cases[i.name][i.case] :
        is_affine(Cases[i.name][i.case][k]) => Cardinality({t \in i.path : t[1] = k}) = 1

take_apart(c, x, i) ==
    LET shell == whole(i.src)
        give(state, y) == FoldSet(LAMBDA t, z : IF affine(c, t[2]) THEN put(z, <<t[2], <<>>>>, state) ELSE z, y, i.path)
    IN  IF place_may_observe(x.facts, shell) THEN give(OBSERVED, report(x, "OBSERVER_CANNOT_TRANSFER"))
        ELSE IF resolve_place_state(x.facts, shell) # OWNED
             THEN report(x, missing(c, i.src, "DUPLICATE_STRUCTURAL_CLEANUP"))
        ELSE IF ~place_is_whole(x.facts, shell) THEN report(x, "PARTIAL_PLACE_USED_AS_WHOLE")
        ELSE IF ~claims_all(c, i) THEN report(x, "MISSING_STRUCTURAL_CLEANUP")
        ELSE give(OWNED, put(x, shell, EMPTY))

store_place_state(c, x, i) ==
    LET staged == consume_root(c, x, i.src, TRUE, i.src)
        overwrites(y) == affine(c, i.v) /\ may_own(y.facts, i.v)
        settle(y, state) == IF affine(c, i.v) THEN put(y, whole(i.v), state) ELSE y
    IN  IF i.name = "Transfer" /\ staged.codes # x.codes THEN [x EXCEPT !.codes = staged.codes]
        ELSE IF overwrites(IF i.name = "Transfer" THEN staged ELSE x) THEN report(x, "STORE_OVER_OWNED_SLOT")
        ELSE IF i.name = "Transfer" THEN settle(staged, OWNED)
        ELSE settle(observe_root(c, x, i.src, i.src), OBSERVED)

place_step(c, x0, i) ==
    LET x == fresh(c, x0, i) IN
    CASE i.op = "place_read" -> read_place(c, x, i)
      [] i.op = "observe" ->
            [x EXCEPT !.codes = @ \cup observed_codes(c, x.facts, place_of(c, i), i.v)]
      [] i.op = "decompose" -> take_apart(c, x, i)
      [] i.op = "store_place" -> write_place(c, x, i)
      [] i.op = "drop" -> consume_root(c, x, i.src, FALSE, i.src)
      [] i.op = "store" -> store_place_state(c, x, i)
      [] i.op \in {"move", "defer_capture"} -> consume_root(c, x, i.src, TRUE, i.v)
      [] i.op = "create" -> FoldLeft(LAMBDA y, v : consume_root(c, y, v, TRUE, i.v), x, i.args)
      [] i.op = "call" -> pass_places(c, x, i, LAMBDA k : i.v)
      [] i.op = "record_field" /\ affine(c, i.src) ->
            [x EXCEPT !.codes = @ \cup When(~definitely_present(x.facts, place_of(c, i)), "PLACE_USE_AFTER_MOVE")]
      [] OTHER -> x

place_transfer(c, n, s) ==
    LET t == c.blocks[n].term
        x == along(c, n, s, LAMBDA y, i : place_step(c, y, i))
    IN  CASE t.op \in {"return", "raise"} /\ t.src # Diverged -> consume_root(c, x, t.src, TRUE, t.src)
          [] t.op = "invoke" ->
                LET y == pass_places(c, x, t, LAMBDA k : t.args[k])
                IN  [y EXCEPT !.codes = @ \cup When(\E v \in Range(t.path) : affine(c, v) /\ may_own(y.facts, v),
                                                    "STORE_OVER_OWNED_SLOT")]
          [] OTHER -> x

-----------------------------------------------------------------------------
(***************************************************************************)
(* What is left to clean up at an exit.                                    *)
(***************************************************************************)

\* structural_cleanup_obligations: the values and slots that may own an inline
\* aggregate; a declared resource is followed by the pass above.
owned_roots(c) ==
    LET all == UNION {Range(c.blocks[n].ins) : n \in DOMAIN c.blocks}
        results == {i.v : i \in {j \in all : \/ j.op \in {"create", "move", "defer_capture", "call"}
                                             \/ j.op \in {"place_read", "store"} /\ j.name = "Transfer"}}
        params == {<<"p", k>> : k \in {j \in DOMAIN c.params : c.params[j].take}}
    IN  {v \in results \cup params \cup c.claimed \cup guarded_slots(c) :
            affine(c, v) /\ c.types[v] \notin DeclaredResources}

\* VariantCaseContext::refined_case: the one case a root is known to be in.
refined_case(refined, place) ==
    IF place[2] # <<>> THEN {} ELSE {x[3] : x \in {y \in refined : y[1] = place[1]}}

\* extracted_value: the claimed owner of a payload.
extracted_value(c, place, case, k) ==
    {v \in DOMAIN c.payloads \cap c.claimed :
        /\ place[2] = <<>> /\ c.payloads[v].src = place[1]
        /\ c.payloads[v].case = case /\ c.payloads[v].path = <<k>>}

\* remaining_obligations: is anything of this place still to be cleaned up?
remains(c, facts, refined, root) ==
    LET RECURSIVE owed(_, _)
        owed(place, ty) ==
            /\ "Owned" \in precise_place_state(facts, place)
            /\ is_affine(ty)
            /\ IF ty \in VariantItems
               THEN LET cases == refined_case(refined, place) IN
                    IF Cardinality(cases) # 1 THEN TRUE
                    ELSE LET case == CHOOSE n \in cases : TRUE IN
                         \E k \in DOMAIN Cases[ty][case] :
                            /\ is_affine(Cases[ty][case][k])
                            /\ \A v \in extracted_value(c, place, case, k) : owed(<<v, <<>>>>, Cases[ty][case][k])
               ELSE \/ ty \in DeclaredResources
                    \/ \E k \in DOMAIN FieldTypes[ty] : owed(<<place[1], Append(place[2], k)>>, FieldTypes[ty][k])
    IN  owed(whole(root), c.types[root])

\* At a return or raise, all but what leaves the function.
exit_codes(c, refined, n, s) ==
    LET t == c.blocks[n].term
        kept == IF t.src = Diverged THEN {} ELSE {canonical(t.src)}
    IN  When(/\ t.op \in {"return", "raise"}
             /\ \E root \in owned_roots(c) : canonical(root) \notin kept /\ remains(c, s.facts, refined, root),
             "MISSING_STRUCTURAL_CLEANUP")

\* Parameters that are not taken are observed; nothing else exists yet.
param_facts(c) ==
    [q \in {<<<<"p", k>>, <<>>>> : k \in {j \in DOMAIN c.params : ~c.params[j].take /\ affine(c, <<"p", j>>)}}
        |-> OBSERVED]

entry_facts(c) ==
    [q \in {<<v, <<>>>> : v \in {w \in DOMAIN c.sites \cup guarded_slots(c) : affine(c, w) /\ canonical(w) = w}} |-> EMPTY]
    @@ param_facts(c)

place_join(S) ==
    LET one == CHOOSE s \in S : TRUE
    IN  FoldSet(LAMBDA s, t : Facts(merge_place_facts(t.facts, s.facts)), Facts(one.facts), S \ {one})

\* in_state_for_places: an edge of an invoke makes its slot an owner.
place_edge(c, e, s) == FoldSet(LAMBDA v, x : put(x, <<v, <<>>>>, OWNED), Facts(s.facts), written(c, e))

verify_structural_places(c0, refined) ==
    LET claims == UNION {{t[2] : t \in i.path} :
                            i \in {j \in UNION {Range(c0.blocks[n].ins) : n \in DOMAIN c0.blocks} : j.op = "decompose"}}
        c == c0 @@ [claimed |-> claims, drop_only |-> drop_only_reads(c0)]
        through(n, s) == place_transfer(c, n, s)
        outs == Solve(c, Facts(entry_facts(c)), through, LAMBDA e, s : place_edge(c, e, s), place_join)
    IN  Reported(c, outs, through, Facts(param_facts(c)))
        \cup UNION {UNION {UNION {exit_codes(c, r.facts, n, s) : r \in refined[n]} : s \in outs[n]} : n \in c.reachable}

-----------------------------------------------------------------------------
(***************************************************************************)
(* verify_function                                                         *)
(***************************************************************************)

\* Every pass runs, whatever the others found, and every code is reported.
verify_function(f, blocks, params_of) ==
    LET c == Function(f, blocks, params_of)
        refined == case_refinements(c)
    IN  verify_shape(c)
        \cup verify_payload_refinement(c, refined)
        \cup verify_invoke_slot_initialization(c)
        \cup verify_drop_state(c)
        \cup verify_resource_ownership(c)
        \cup verify_structural_places(c, refined)
        \cup verify_observations(c)
        \cup verify_dominance(c)
=============================================================================
