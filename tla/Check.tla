-------------------------------- MODULE Check --------------------------------
(***************************************************************************)
(* The type checker on HIR (typeck/mod.rs): the declarations' tables, then *)
(* every body, expression by expression.  It unifies as Unify does,        *)
(* analyses a match as Usefulness does and asks for evidence as            *)
(* Requirements does.                                                      *)
(*                                                                         *)
(* A checker c is the record of what Checker keeps; c.d holds the tables   *)
(* that the bodies only read, keyed by item.  An answer [t, c] is the type *)
(* of an expression with the checker after it; a diagnostic is its code.   *)
(***************************************************************************)
EXTENDS Types, TLC

CONSTANTS None,                 \* no node
          Reserved,             \* the numeric types that are not executable
          MaxPatternDepth, MaxUsefulnessSteps, MaxGenericInstances,
          MaxCapabilityDepth, MaxSteps

U == INSTANCE Unify WITH Constraints <- {}, VarKinds <- <<>>, GroundTypes <- {}, MaxUnifications <- 0, infer <- 0
K(aggregates, protocols) == INSTANCE Requirements WITH Aggregates <- aggregates, Protocols <- protocols
E(payloads, params, order) == INSTANCE Usefulness WITH Payloads <- payloads, SpaceParams <- params, CaseOrder <- order

Unit == Prim("unit")
Str  == Prim("str")
Char == Prim("char")
Executable == {"i64", "f64", "bool", "char", "str", "unit"}
is_numeric(t) == t.k = "prim" /\ t.n \in {"i64", "f64"} \cup Reserved

Is(t, c) == [t |-> t, c |-> c]
Fail(c, code) == [c EXCEPT !.diags = @ \cup {code}]
FailIf(c, cond, code) == IF cond THEN Fail(c, code) ELSE c
Id(item) == ToString(item)
Entry(f, k, v) == (k :> v) @@ f
NoEntry == [x \in {} |-> 0]

NewChecker == [d |-> [params |-> NoEntry, records |-> NoEntry, variants |-> NoEntry, protos |-> NoEntry,
                      fns |-> NoEntry, exts |-> <<>>],
               ctx |-> [sub |-> NoEntry, kind |-> NoEntry],
               locals |-> NoEntry, aliases |-> {}, ret |-> Unit, own |-> <<>>, raises |-> {},
               loops |-> 0, instances |-> {}, cache |-> NoEntry, diags |-> {}]

fresh_var(c, kind) ==
  LET v == ToString(Cardinality(DOMAIN c.ctx.sub))
  IN Is(TyVar(v), [c EXCEPT !.ctx = [sub |-> Entry(@.sub, v, <<>>), kind |-> Entry(@.kind, v, kind)]])
resolve(c, t) == U!resolve(c.ctx, t)
RECURSIVE deep_resolve(_, _, _)
deep_resolve(c, t, depth) ==
  LET r == resolve(c, t)
  IN IF depth >= MaxGenericDepth THEN r
     ELSE [r EXCEPT !.args = [i \in DOMAIN r.args |-> deep_resolve(c, r.args[i], depth + 1)]]
unify_report(c, expected, actual, code) ==
  LET r == U!unify(c.ctx, expected, actual)
  IN IF r.ok THEN [c EXCEPT !.ctx = r.ctx] ELSE Fail(c, code)

\* The records and variants as the capability solver and is_affine see them.
Aggregates(d) ==
  [i \in DOMAIN d.records \cup DOMAIN d.variants |->
     IF i \in DOMAIN d.records
     THEN [params |-> d.params[i], fields |-> [j \in DOMAIN d.records[i].fields |-> d.records[i].fields[j].ty],
           affine |-> d.records[i].affine, source |-> "module"]
     ELSE [params |-> d.params[i], affine |-> FALSE, source |-> "module",
           fields |-> LET cs == d.variants[i]
                          RECURSIVE flat(_)
                          flat(j) == IF j > Len(cs) THEN <<>> ELSE cs[j].payload \o flat(j + 1)
                      IN flat(1)]]
is_affine(c, t) == K(Aggregates(c.d), NoEntry)!is_affine(t)
is_aggregate(c, t) == resolve(c, t).k = "app"

\* Applied to a type parameter nothing is known of, an operator is refused.
Unconstrained(c, t) == resolve(c, t).k = "param"
report_unconstrained_type_parameter(c, t) == FailIf(c, Unconstrained(c, t), "UNSUPPORTED_ON_TYPE_PARAMETER")
expect_bool(c, t) ==
  IF Unconstrained(c, t) THEN report_unconstrained_type_parameter(c, t)
  ELSE unify_report(c, Bool, t, "TYPE_MISMATCH")
require_numeric(c, t) ==
  LET r == resolve(c, t)
  IN IF r.k \in {"var", "error", "never"} \/ is_numeric(r) THEN c
     ELSE IF Unconstrained(c, t) THEN report_unconstrained_type_parameter(c, t)
     ELSE Fail(c, "EXPECTED_NUMERIC")
require_integer(c, t) ==
  LET r == resolve(c, t)
  IN IF \/ r.k = "var" /\ c.ctx.kind[r.n] # "Float"
        \/ r.k \in {"error", "never"}
        \/ is_integer(r) THEN c
     ELSE IF Unconstrained(c, t) THEN report_unconstrained_type_parameter(c, t)
     ELSE Fail(c, "EXPECTED_INTEGER")

-----------------------------------------------------------------------------
(* Types that are written.                                                 *)

RECURSIVE resolve_named_type(_, _), NamedTypes(_, _)
NamedTypes(tys, c) ==
  IF tys = <<>> THEN Is(<<>>, c)
  ELSE LET first == resolve_named_type(tys[1], c)
           rest == NamedTypes(Tail(tys), first.c)
       IN Is(<<first.t>> \o rest.t, rest.c)
resolve_named_type(ty, c) ==
  CASE ty[1] = "param" -> Is(Param(Id(ty[2])), c)
    [] ty[1] = "unresolved" ->
         IF ty[2] \in Executable THEN Is(Prim(ty[2]), c)
         ELSE IF ty[2] = "never" THEN Is(Never, c)
         ELSE IF ty[2] \in Reserved THEN Is(Prim(ty[2]), Fail(c, "UNIMPLEMENTED_NUMERIC_TYPE"))
         ELSE Is(Error, Fail(c, "UNKNOWN_TYPE"))
    [] OTHER ->
         LET args == NamedTypes(ty[3], c)
             params == c.d.params[Id(ty[2])]
             problem == CASE params = <<>> /\ args.t # <<>> -> "TYPE_ARGUMENTS_TO_NON_GENERIC"
                          [] params # <<>> /\ args.t = <<>> -> "MISSING_TYPE_ARGUMENTS"
                          [] params # <<>> /\ args.t # <<>> /\ Len(args.t) # Len(params) -> "GENERIC_ARITY_MISMATCH"
                          [] OTHER -> "none"
         IN IF problem # "none" THEN Is(Error, Fail(args.c, problem))
            ELSE Is(App(Id(ty[2]), args.t), args.c)
\* An absent result type is unit.
ResultType(ty, c) == IF ty = None THEN Is(Unit, c) ELSE resolve_named_type(ty, c)

\* Requirements of a signature: one of the wrong arity is reported and dropped.
RECURSIVE resolve_requirements(_, _)
resolve_requirements(reqs, c) ==
  IF reqs = <<>> THEN Is(<<>>, c)
  ELSE LET args == NamedTypes(reqs[1][2], c)
           fits == Pairable(c.d.protos[Id(reqs[1][1])].params, args.t)
           rest == resolve_requirements(Tail(reqs), FailIf(args.c, ~fits, "PROTOCOL_ARITY_MISMATCH"))
           req == [protocol |-> Id(reqs[1][1]), args |-> args.t]
       IN Is((IF fits THEN <<req>> ELSE <<>>) \o rest.t, rest.c)

-----------------------------------------------------------------------------
(* The tables of the declarations, built before any body is checked.       *)

ParamIds(tps) == [i \in DOMAIN tps |-> Id(tps[i])]
collect_generic_params(hir, c) ==
  LET generic == SelectSeq(hir, LAMBDA x : x.kind \in {"record", "variant", "func"})
      table == [i \in {Id(generic[j].id) : j \in DOMAIN generic} |->
                  ParamIds(generic[CHOOSE j \in DOMAIN generic : Id(generic[j].id) = i].tps)]
  IN [c EXCEPT !.d.params = table]

build_record(r, c) ==
  LET tys == NamedTypes([i \in DOMAIN r.fields |-> r.fields[i].ty], c)
      info == [affine |-> r.affine, fields |-> [i \in DOMAIN r.fields |-> [r.fields[i] EXCEPT !.ty = tys.t[i]]]]
  IN [tys.c EXCEPT !.d.records = Entry(@, Id(r.id), info)]
RECURSIVE Payloads(_, _)
Payloads(cases, c) ==
  IF cases = <<>> THEN Is(<<>>, c)
  ELSE LET first == NamedTypes(cases[1].payload, c)
           rest == Payloads(Tail(cases), first.c)
       IN Is(<<[cases[1] EXCEPT !.payload = first.t]>> \o rest.t, rest.c)
build_variant(v, c) ==
  LET cases == Payloads(v.cases, c) IN [cases.c EXCEPT !.d.variants = Entry(@, Id(v.id), cases.t)]
build_aggregate_info(x, c) == IF x.kind = "record" THEN build_record(x, c) ELSE build_variant(x, c)

\* A declaration that is met again on a path through the instances it holds.
RECURSIVE Recurs(_, _, _)
Recurs(aggregates, t, path) ==
  /\ t.k = "app" /\ t.n \in DOMAIN aggregates
  /\ \/ t.n \in path
     \/ LET a == aggregates[t.n]
        IN \E i \in DOMAIN a.fields :
              Recurs(aggregates, substitute(a.fields[i], Pairing(a.params, t.args)), path \cup {t.n})
check_aggregate_cycles(c) ==
  LET aggregates == Aggregates(c.d)
      self(i) == App(i, [j \in DOMAIN aggregates[i].params |-> Param(aggregates[i].params[j])])
  IN FailIf(c, \E i \in DOMAIN aggregates : Recurs(aggregates, self(i), {}), "RECURSIVE_TYPE")

register_protocol(p, c) ==
  LET RECURSIVE methods(_, _)
      methods(ms, m) ==
        IF ms = <<>> THEN Is(<<>>, m)
        ELSE LET params == NamedTypes(ms[1].params, m)
                 ret == ResultType(ms[1].ret, params.c)
                 rest == methods(Tail(ms), ret.c)
             IN Is(<<[name |-> ms[1].name, params |-> params.t, ret |-> ret.t]>> \o rest.t, rest.c)
      all == methods(p.methods, c)
  IN [all.c EXCEPT !.d.protos = Entry(@, Id(p.id), [params |-> ParamIds(p.tps), methods |-> all.t, source |-> "module"])]

\* take asks for an affine type, and is refused in the method of an extension.
check_take_target(c, takes, t) ==
  FailIf(c, takes /\ t.k \notin {"error", "never"} /\ ~is_affine(c, t), "TAKE_OF_NON_RESOURCE")
check_extend_method_take(c, takes, method) == FailIf(c, takes /\ method, "TAKE_IN_EXTEND_METHOD")
RECURSIVE CheckTakes(_, _, _, _)
CheckTakes(params, tys, method, c) ==
  IF params = <<>> THEN c
  ELSE CheckTakes(Tail(params), Tail(tys), method,
                  check_extend_method_take(check_take_target(c, params[1].take, tys[1]), params[1].take, method))
build_signature(f, tps, method, c) ==
  LET params == NamedTypes([i \in DOMAIN f.params |-> f.params[i].ty], c)
      ret == ResultType(f.ret, CheckTakes(f.params, params.t, method, params.c))
      reqs == resolve_requirements(f.reqs, ret.c)
      sig == [params |-> params.t, ret |-> ret.t, tps |-> ParamIds(tps), reqs |-> reqs.t,
              raises |-> [i \in DOMAIN f.raises |-> Id(f.raises[i])]]
  IN [reqs.c EXCEPT !.d.fns = Entry(@, Id(f.id), sig)]
RECURSIVE ExtendSignatures(_, _, _)
ExtendSignatures(e, i, c) ==
  IF i > Len(e.methods) THEN c
  ELSE ExtendSignatures(e, i + 1, build_signature(e.methods[i], e.tps, TRUE, c))

register_extend(e, c) ==
  LET args == NamedTypes(e.args, c)
      uses == resolve_requirements(e.reqs, args.c)
      info == [id |-> Id(e.id), params |-> ParamIds(e.tps), protocol |-> Id(e.protocol), args |-> args.t,
               uses |-> uses.t, source |-> "module",
               methods |-> [i \in DOMAIN e.methods |->
                              LET sig == c.d.fns[Id(e.methods[i].id)]
                              IN [name |-> e.methods[i].name, params |-> sig.params, ret |-> sig.ret,
                                  raises |-> {sig.raises[j] : j \in DOMAIN sig.raises}]]]
  IN IF e.protocol = None THEN c
     ELSE IF K(Aggregates(c.d), c.d.protos)!registrable(info)
     THEN [uses.c EXCEPT !.d.exts = Append(@, info)]
     ELSE Fail(args.c, "EXTENSION_REFUSED")
check_extend_overlaps(c) ==
  LET out == K(Aggregates(c.d), c.d.protos)!excluded(c.d.exts)
      keep == SelectSeq([i \in DOMAIN c.d.exts |-> i], LAMBDA i : i \notin out)
  IN FailIf([c EXCEPT !.d.exts = [i \in DOMAIN keep |-> c.d.exts[keep[i]]]], out # {}, "OVERLAPPING_EXTENSION")

-----------------------------------------------------------------------------
(* Generic arguments, evidence and instances.                              *)

\* What a use of a generic item stands for: written arguments, or fresh
\* variables where they may be inferred.
RECURSIVE FreshArgs(_, _)
FreshArgs(n, c) ==
  IF n = 0 THEN Is(<<>>, c)
  ELSE LET v == fresh_var(c, "none")
           rest == FreshArgs(n - 1, v.c)
       IN Is(<<v.t>> \o rest.t, rest.c)
resolve_generic_args(params, explicit, inference, c) ==
  LET written == NamedTypes(explicit, c)
      fresh == FreshArgs(Len(params), c)
      Answer(ok, inferred, args, after) == [ok |-> ok, inferred |-> inferred, args |-> args, c |-> after]
  IN CASE explicit # <<>> /\ Pairable(params, written.t) -> Answer(TRUE, FALSE, written.t, written.c)
       [] explicit # <<>> /\ ~Pairable(params, written.t) ->
            Answer(FALSE, FALSE, <<>>, Fail(written.c, "GENERIC_ARITY_MISMATCH"))
       [] explicit = <<>> /\ params = <<>> -> Answer(TRUE, FALSE, <<>>, c)
       [] explicit = <<>> /\ params # <<>> /\ ~inference ->
            Answer(FALSE, FALSE, <<>>, Fail(c, "MISSING_TYPE_ARGUMENTS"))
       [] OTHER -> Answer(TRUE, TRUE, fresh.t, fresh.c)
\* Each argument against the parameter it is given for, in order.
RECURSIVE unify_arg_report(_, _, _, _)
unify_arg_report(expected, actual, inferred, c) ==
  IF expected = <<>> THEN c
  ELSE unify_arg_report(Tail(expected), Tail(actual), inferred,
         unify_report(c, expected[1], actual[1],
                      IF inferred THEN "CONFLICTING_INFERRED_ARGUMENTS" ELSE "TYPE_MISMATCH"))
check_inferred_args_resolved(args, c) == \A i \in DOMAIN args : resolve(c, args[i]).k # "var"
HasRoom(c, key) == key \in c.instances \/ Cardinality(c.instances) < MaxGenericInstances
record_generic_instance(c, key) ==
  IF HasRoom(c, key) THEN [c EXCEPT !.instances = @ \cup {key}] ELSE Fail(c, "GENERIC_INSTANCE_BUDGET_EXCEEDED")

\* Evidence for each requirement of a callee; the first that has none ends it.
RECURSIVE resolve_call_evidence(_, _, _)
resolve_call_evidence(reqs, subst, c) ==
  IF reqs = <<>> THEN [ok |-> TRUE, c |-> c]
  ELSE LET args == [i \in DOMAIN reqs[1].args |-> deep_resolve(c, substitute(reqs[1].args[i], subst), 0)]
           a == K(Aggregates(c.d), c.d.protos)!resolve_requirement(
                  [protocol |-> reqs[1].protocol, args |-> args], c.own, c.d.exts, c.cache)
           after == [c EXCEPT !.cache = a.cache]
       IN IF a.ok THEN resolve_call_evidence(Tail(reqs), subst, after)
          ELSE [ok |-> FALSE, c |-> Fail(after, "MISSING_CAPABILITY")]

Diverges(tys) == \E i \in DOMAIN tys : tys[i] = Never
Unless(never, t) == IF never THEN Never ELSE t

-----------------------------------------------------------------------------
(* Expressions.                                                            *)

RECURSIVE check_expr(_, _), check_block(_, _), CheckAll(_, _), CheckStmts(_, _),
          check_pattern_at_depth(_, _, _, _), SubPatterns(_, _, _, _), CheckArms(_, _, _),
          HandleArms(_, _, _)

CheckAll(es, c) ==
  IF es = <<>> THEN Is(<<>>, c)
  ELSE LET first == check_expr(es[1], c)
           rest == CheckAll(Tail(es), first.c)
       IN Is(<<first.t>> \o rest.t, rest.c)
fresh_default(c, kind) == fresh_var(c, kind)
LiteralType(kind, c) ==
  CASE kind = "int" -> fresh_default(c, "Integer")
    [] kind = "float" -> fresh_default(c, "Float")
    [] kind = "string" -> Is(Str, c)
    [] kind = "char" -> Is(Char, c)
    [] OTHER -> Is(Bool, c)

check_unary(op, e, c) ==
  LET r == check_expr(e, c)
  IN IF r.t = Never THEN r
     ELSE CASE op = "-" -> Is(r.t, require_numeric(r.c, r.t))
            [] op = "!" -> Is(Bool, expect_bool(r.c, r.t))
            [] op = "~" -> Is(r.t, require_integer(r.c, r.t))

\* Both operands are asked for, whatever the first was.
UnconstrainedOperands(c, a, b) ==
  IF Unconstrained(c, a) THEN report_unconstrained_type_parameter(c, a) ELSE report_unconstrained_type_parameter(c, b)
check_logical(left, right, c) ==
  LET l == check_expr(left, c)
      r == check_expr(right, IF l.t = Never THEN l.c ELSE expect_bool(l.c, l.t))
  IN IF l.t = Never THEN Is(Never, r.c) ELSE Is(Bool, expect_bool(r.c, r.t))
Ordering == {"<", "<=", ">", ">="}
\* Mutant of check_binary: the operands of a comparison need not agree.
ComparesAnything(op, left, right, c) ==
  LET l == check_expr(left, c)
      r == check_expr(right, l.c)
      same == unify_report(r.c, l.t, r.t, "TYPE_MISMATCH")
  IN IF op \in {"==", "!="} \cup Ordering THEN Is(Unless(Never \in {l.t, r.t}, Bool), r.c)
     ELSE IF op \in {"&&", "||"} THEN check_logical(left, right, c)
     ELSE Is(Unless(Never \in {l.t, r.t}, l.t), require_numeric(same, l.t))
check_binary(op, left, right, c) ==
  LET l == check_expr(left, c)
      r == check_expr(right, l.c)
      same == unify_report(r.c, l.t, r.t, "TYPE_MISMATCH")
      free == Unconstrained(r.c, l.t) \/ Unconstrained(r.c, r.t)
  IN CASE op \in {"&&", "||"} -> check_logical(left, right, c)
       [] op \in {"..", "..="} -> Is(Error, Fail(r.c, "UNSUPPORTED_FEATURE"))
       [] op \notin {"&&", "||", "..", "..="} /\ Never \in {l.t, r.t} -> Is(Never, r.c)
       [] op \in {"+", "-", "*", "/", "%"} /\ Never \notin {l.t, r.t} -> Is(l.t, require_numeric(same, l.t))
       [] op \in {"&", "|", "^", "<<", ">>"} /\ Never \notin {l.t, r.t} -> Is(l.t, require_integer(same, l.t))
       [] op \in {"==", "!="} /\ Never \notin {l.t, r.t} ->
            IF free THEN Is(Error, UnconstrainedOperands(r.c, l.t, r.t))
            ELSE IF is_aggregate(r.c, l.t) \/ is_aggregate(r.c, r.t)
            THEN Is(Error, Fail(r.c, "AGGREGATE_EQUALITY_UNSUPPORTED"))
            ELSE Is(Bool, same)
       [] op \in Ordering /\ Never \notin {l.t, r.t} ->
            IF free THEN Is(Error, UnconstrainedOperands(r.c, l.t, r.t)) ELSE Is(Bool, same)

check_assign(op, target, value, c) ==
  LET place == check_expr(target, c)
      local == IF target[1] = "local" THEN target[2] ELSE 0
      problem == CASE target[1] = "local" /\ local \in place.c.aliases -> "ASSIGN_TO_OBSERVATION_ALIAS"
                   [] target[1] = "local" /\ local \notin place.c.aliases ->
                        IF local \in DOMAIN place.c.locals /\ ~place.c.locals[local].mutable
                        THEN "IMMUTABLE_ASSIGN" ELSE "none"
                   [] target[1] = "field" ->
                        IF is_affine(place.c, place.t) /\ op = "=" THEN "none" ELSE "FIELD_MUTATION_UNSUPPORTED"
                   [] target[1] = "error" -> "none"
                   [] OTHER -> "INVALID_ASSIGN_TARGET"
      given == check_expr(value, FailIf(place.c, problem # "none", problem))
      same == unify_report(given.c, place.t, given.t, "TYPE_MISMATCH")
      done == CASE op = "=" -> same
                [] op \in {"&=", "|=", "^=", "<<=", ">>="} -> require_integer(same, place.t)
                [] OTHER -> require_numeric(same, place.t)
  IN Is(Unless(given.t = Never, Unit), done)

check_case_ref(variant, index, targs, c) ==
  LET item == Id(variant)
      g == resolve_generic_args(c.d.params[item], targs, FALSE, c)
      key == <<item, g.args>>
  IN IF c.d.variants[item][index].payload # <<>> THEN Is(Error, Fail(c, "ARITY_MISMATCH"))
     ELSE IF ~g.ok THEN Is(Error, g.c)
     ELSE IF c.d.params[item] = <<>> THEN Is(Named(item), g.c)
     ELSE Is(IF HasRoom(g.c, key) THEN App(item, g.args) ELSE Error, record_generic_instance(g.c, key))

check_variant_construct(variant, index, targs, args, c) ==
  LET item == Id(variant)
      params == c.d.params[item]
      payload == c.d.variants[item][index].payload
      g == resolve_generic_args(params, targs, TRUE, c)
      given == CheckAll(args, g.c)
      expected == [i \in DOMAIN payload |-> substitute(payload[i], Pairing(params, g.args))]
      c1 == IF Len(payload) # Len(args) THEN Fail(given.c, "ARITY_MISMATCH")
            ELSE unify_arg_report(expected, given.t, g.inferred, given.c)
      known == ~g.inferred \/ check_inferred_args_resolved(g.args, c1)
      actual == [i \in DOMAIN g.args |-> deep_resolve(c1, g.args[i], 0)]
      key == <<item, actual>>
  IN IF ~g.ok THEN Is(Error, CheckAll(args, g.c).c)
     ELSE IF ~known THEN Is(Error, Fail(c1, "CANNOT_INFER_TYPE_ARGUMENT"))
     ELSE IF params = <<>> THEN Is(Unless(Diverges(given.t), Named(item)), c1)
     ELSE Is(IF ~HasRoom(c1, key) THEN Error ELSE Unless(Diverges(given.t), App(item, actual)),
             record_generic_instance(c1, key))

\* Every argument is unified, a mismatch noted and the rest still looked at.
RECURSIVE unify_each(_, _, _)
unify_each(expected, actual, c) ==
  IF expected = <<>> THEN [ok |-> TRUE, c |-> c]
  ELSE LET rest == unify_each(Tail(expected), Tail(actual),
                              unify_report(c, expected[1], actual[1], "TYPE_MISMATCH"))
       IN [ok |-> U!unify(c.ctx, expected[1], actual[1]).ok /\ rest.ok, c |-> rest.c]

check_protocol_call(protocol, method, targs, args, c) ==
  LET given == CheckAll(args, c)
      tys == NamedTypes(targs, given.c)
      info == c.d.protos[Id(protocol)]
      subst == Pairing(info.params, tys.t)
      m == info.methods[method]
      expected == [i \in DOMAIN m.params |-> substitute(m.params[i], subst)]
      unified == unify_each(expected, given.t, tys.c)
      e == resolve_call_evidence(<<[protocol |-> Id(protocol), args |-> tys.t]>>, NoEntry, unified.c)
      Stop(after) == Is(Unless(Diverges(given.t), Error), after)
  IN IF \E i \in DOMAIN tys.t : tys.t[i] = Error THEN Stop(tys.c)
     ELSE IF ~Pairable(info.params, tys.t) THEN Stop(Fail(tys.c, "PROTOCOL_ARITY_MISMATCH"))
     ELSE IF Len(m.params) # Len(args) THEN Stop(Fail(tys.c, "ARITY_MISMATCH"))
     ELSE IF ~unified.ok THEN Stop(unified.c)
     ELSE IF ~e.ok THEN Stop(e.c)
     ELSE Is(Unless(Diverges(given.t), substitute(m.ret, subst)), e.c)

\* A call of a function; the types of its arguments go with the answer.
check_function_call(item, targs, args, handled, c) ==
  LET sig == c.d.fns[item]
      given == CheckAll(args, c)
      c1 == FailIf(given.c, ~handled /\ sig.raises # <<>>, "FALLIBLE_CALL_NOT_HANDLED")
      g == resolve_generic_args(sig.tps, targs, TRUE, c1)
      subst == Pairing(sig.tps, g.args)
      expected == [i \in DOMAIN sig.params |-> substitute(sig.params[i], subst)]
      c2 == IF Len(sig.params) # Len(args) THEN Fail(g.c, "ARITY_MISMATCH")
            ELSE unify_arg_report(expected, given.t, g.inferred, g.c)
      known == ~g.inferred \/ check_inferred_args_resolved(g.args, c2)
      actual == [i \in DOMAIN g.args |-> deep_resolve(c2, g.args[i], 0)]
      owns == \E i \in DOMAIN actual : is_affine(c2, actual[i])
      key == <<item, actual>>
      c3 == IF sig.tps = <<>> THEN c2 ELSE record_generic_instance(c2, key)
      e == resolve_call_evidence(sig.reqs, subst, c3)
      Stop(after) == Is(Unless(Diverges(given.t), Error), after)
  IN IF ~g.ok THEN Stop(g.c)
     ELSE IF ~known THEN Stop(Fail(c2, "CANNOT_INFER_TYPE_ARGUMENT"))
     ELSE IF owns THEN Stop(Fail(c2, "UNSUPPORTED_GENERIC_AFFINE_INSTANTIATION"))
     ELSE IF sig.tps # <<>> /\ ~HasRoom(c2, key) THEN Stop(c3)
     ELSE IF ~e.ok THEN Stop(e.c)
     ELSE Is(Unless(Diverges(given.t), substitute(sig.ret, subst)), e.c)
check_call_at(callee, args, handled, c) ==
  LET given == CheckAll(args, c)
      f == check_expr(callee, given.c)
      blamed == IF f.t.k \in {"error", "never"} THEN f.c
                ELSE IF Unconstrained(f.c, f.t) THEN report_unconstrained_type_parameter(f.c, f.t)
                ELSE Fail(f.c, "NOT_CALLABLE")
  IN CASE callee[1] = "case" -> check_variant_construct(callee[2], callee[3], callee[4], args, c)
       [] callee[1] = "method" -> check_protocol_call(callee[2], callee[3], callee[4], args, c)
       [] callee[1] = "function" -> check_function_call(Id(callee[2]), callee[3], args, handled, c)
       [] OTHER -> Is(Unless(Diverges(given.t) \/ f.t = Never, Error), blamed)

check_record_literal(record, targs, inits, c) ==
  LET item == Id(record)
      params == c.d.params[item]
      fields == c.d.records[item].fields
      g == resolve_generic_args(params, targs, FALSE, c)
      subst == Pairing(params, g.args)
      RECURSIVE each(_, _, _)
      each(i, diverged, m) ==
        IF i > Len(inits) THEN [diverged |-> diverged, c |-> m]
        ELSE LET v == check_expr(inits[i][2], m)
             IN each(i + 1, diverged \/ v.t = Never,
                     unify_report(v.c, substitute(fields[inits[i][1]].ty, subst), v.t, "TYPE_MISMATCH"))
      done == each(1, FALSE, g.c)
      key == <<item, g.args>>
  IN IF ~g.ok THEN Is(Error, CheckAll([i \in DOMAIN inits |-> inits[i][2]], g.c).c)
     ELSE IF params = <<>> THEN Is(Unless(done.diverged, Named(item)), done.c)
     ELSE Is(IF ~HasRoom(done.c, key) THEN Error ELSE Unless(done.diverged, App(item, g.args)),
             record_generic_instance(done.c, key))

\* The type of the base is looked at as it stands, a variable is not followed.
check_field_access(base, name, c) ==
  LET b == check_expr(base, c)
      isRecord == b.t.k = "app" /\ b.t.n \in DOMAIN b.c.d.records
      fields == b.c.d.records[b.t.n].fields
      at == {i \in DOMAIN fields : fields[i].name = name}
      params == b.c.d.params[b.t.n]
  IN IF b.t.k \in {"never", "error"} THEN b
     ELSE IF Unconstrained(b.c, b.t) THEN Is(Error, report_unconstrained_type_parameter(b.c, b.t))
     ELSE IF ~isRecord THEN Is(Error, Fail(b.c, "FIELD_ACCESS_NON_RECORD"))
     ELSE IF ~Pairable(params, b.t.args) THEN Is(Error, Fail(b.c, "GENERIC_ARITY_MISMATCH"))
     ELSE IF at = {} THEN Is(Error, Fail(b.c, "UNKNOWN_FIELD"))
     ELSE Is(substitute(fields[CHOOSE i \in at : TRUE].ty, Pairing(params, b.t.args)), b.c)

-----------------------------------------------------------------------------
(* Branches, matches and handled calls.                                    *)

join_diverging_branches(a, b, c) ==
  IF a = Never THEN Is(b, c)
  ELSE IF b = Never THEN Is(a, c)
  ELSE Is(a, unify_report(c, a, b, "TYPE_MISMATCH"))
check_if(cond, then, els, c) ==
  LET b == check_expr(cond, c)
      t == check_block(then, expect_bool(b.c, b.t))
      e == check_expr(els, t.c)
      joined == IF els = None THEN Is(Unit, t.c) ELSE join_diverging_branches(t.t, e.t, e.c)
  IN Is(Unless(b.t = Never, joined.t), joined.c)

BindLocal(c, local, t) == [c EXCEPT !.locals = Entry(@, local, [ty |-> t, mutable |-> FALSE])]
AnyPat == E(NoEntry, NoEntry, NoEntry)!Wildcard
CasePat(item, name, args) == E(NoEntry, NoEntry, NoEntry)!Case(item, name, args)
LiteralPat(kind) ==
  IF kind \in {"true", "false"} THEN E(NoEntry, NoEntry, NoEntry)!BoolPat(kind)
  ELSE E(NoEntry, NoEntry, NoEntry)!Literal(kind)
\* An answer of check_pattern: the resolved pattern and whether it is valid.
Resolved(pat, valid, c) == [pat |-> pat, valid |-> valid, c |-> c]

\* The patterns of a payload; those past its end are checked against Error.
SubPatterns(pats, tys, depth, c) ==
  IF pats = <<>> THEN Resolved([i \in DOMAIN tys |-> AnyPat], TRUE, c)
  ELSE LET first == check_pattern_at_depth(pats[1], IF tys = <<>> THEN Error ELSE tys[1], depth, c)
           rest == SubPatterns(Tail(pats), IF tys = <<>> THEN tys ELSE Tail(tys), depth, first.c)
       IN Resolved((IF tys = <<>> THEN <<>> ELSE <<first.pat>>) \o rest.pat, first.valid /\ rest.valid, rest.c)
\* A name that is a case without payload of the variant matched on is that case.
check_bind_pattern(local, name, t, c) ==
  LET cases == IF t.k = "app" /\ t.n \in DOMAIN c.d.variants THEN c.d.variants[t.n] ELSE <<>>
      at == {i \in DOMAIN cases : cases[i].name = name /\ cases[i].payload = <<>>}
  IN IF at # {} THEN Resolved(CasePat(t.n, name, <<>>), TRUE, c)
     ELSE Resolved(AnyPat, TRUE, BindLocal(c, local, t))
check_case_pattern(name, pats, t, depth, c) ==
  LET isVariant == t.k = "app" /\ t.n \in DOMAIN c.d.variants /\ Pairable(c.d.params[t.n], t.args)
      cases == c.d.variants[t.n]
      at == {i \in DOMAIN cases : cases[i].name = name}
      index == CHOOSE i \in at : TRUE
      payload == cases[index].payload
      subst == Pairing(c.d.params[t.n], t.args)
      fits == Len(payload) = Len(pats)
      args == SubPatterns(pats, [i \in DOMAIN payload |-> substitute(payload[i], subst)], depth + 1,
                          FailIf(c, ~fits, "ARITY_MISMATCH"))
      Refused(code) == Resolved(AnyPat, FALSE,
                                SubPatterns(pats, <<>>, depth + 1, FailIf(c, t.k # "error", code)).c)
  IN IF ~isVariant THEN Refused("INCOMPATIBLE_PATTERN")
     ELSE IF at = {} THEN Refused("INCOMPATIBLE_PATTERN")
     ELSE Resolved(CasePat(t.n, name, args.pat), fits /\ args.valid, args.c)
check_pattern_at_depth(pat, ty, depth, c) ==
  LET t == resolve(c, ty)
      lit == LiteralType(pat[2], c)
      u == U!unify(lit.c.ctx, t, lit.t)
  IN CASE depth > MaxPatternDepth -> Resolved(AnyPat, FALSE, Fail(c, "PATTERN_BUDGET_EXCEEDED"))
       [] depth <= MaxPatternDepth /\ pat[1] = "wild" -> Resolved(AnyPat, TRUE, c)
       [] depth <= MaxPatternDepth /\ pat[1] = "bind" -> check_bind_pattern(pat[2], pat[3], t, c)
       [] depth <= MaxPatternDepth /\ pat[1] = "pcase" -> check_case_pattern(pat[2], pat[3], t, depth, c)
       [] depth <= MaxPatternDepth /\ pat[1] = "plit" ->
            Resolved(LiteralPat(pat[2]), u.ok, unify_report(lit.c, t, lit.t, "TYPE_MISMATCH"))

\* analyze_match_with_budget over the arms in order.
RECURSIVE AnalyzeArms(_, _, _, _, _, _)
AnalyzeArms(i, pats, t, budget, unreachable, d) ==
  LET order == [v \in DOMAIN d.variants |-> [j \in DOMAIN d.variants[v] |-> d.variants[v][j].name]]
      payloads == [v \in DOMAIN order |->
                     [n \in {order[v][j] : j \in DOMAIN order[v]} |->
                        d.variants[v][CHOOSE j \in DOMAIN order[v] : order[v][j] = n].payload]]
      matrix == [j \in 1..(i - 1) |-> <<pats[j]>>]
      row == IF i > Len(pats) THEN AnyPat ELSE pats[i]
      r == E(payloads, d.params, order)!is_useful(matrix, row, t, budget)
  IN IF r.u = "BudgetExceeded" THEN [exceeded |-> TRUE, missing |-> FALSE, unreachable |-> unreachable]
     ELSE IF i > Len(pats) THEN [exceeded |-> FALSE, missing |-> r.u = "Useful", unreachable |-> unreachable]
     ELSE AnalyzeArms(i + 1, pats, t, r.budget, unreachable \cup (IF r.u = "NotUseful" THEN {i} ELSE {}), d)
check_match_exhaustiveness(pats, ty, c) ==
  LET t == resolve(c, ty)
      a == AnalyzeArms(1, pats, t, MaxUsefulnessSteps, {}, c.d)
  IN IF t = Error THEN [failed |-> FALSE, unreachable |-> {}, c |-> c]
     ELSE IF a.exceeded THEN [failed |-> TRUE, unreachable |-> {}, c |-> Fail(c, "PATTERN_BUDGET_EXCEEDED")]
     ELSE [failed |-> FALSE, unreachable |-> a.unreachable,
           c |-> FailIf(FailIf(c, a.missing, "NON_EXHAUSTIVE_MATCH"), a.unreachable # {}, "UNREACHABLE_ARM")]

CheckArms(arms, ty, c) ==
  IF arms = <<>> THEN [pats |-> <<>>, tys |-> <<>>, valid |-> TRUE, c |-> c]
  ELSE LET p == check_pattern_at_depth(arms[1][2], ty, 0, c)
           body == check_expr(arms[1][3], p.c)
           rest == CheckArms(Tail(arms), ty, body.c)
       IN [rest EXCEPT !.pats = <<p.pat>> \o @, !.tys = <<body.t>> \o @, !.valid = @ /\ p.valid]
\* The arms in order, joined into one type; none is Never.
RECURSIVE JoinArms(_, _, _)
JoinArms(tys, acc, c) ==
  IF tys = <<>> THEN Is(acc, c)
  ELSE LET j == join_diverging_branches(acc, tys[1], c) IN JoinArms(Tail(tys), j.t, j.c)
check_match(scrutinee, arms, c) ==
  LET s == check_expr(scrutinee, c)
      a == CheckArms(arms, s.t, s.c)
      x == check_match_exhaustiveness(a.pats, s.t, a.c)
      kept == SelectSeq([i \in DOMAIN arms |-> i], LAMBDA i : i \notin x.unreachable)
  IN IF s.t = Never THEN Is(Never, a.c)
     ELSE IF ~a.valid THEN Is(Error, a.c)
     ELSE IF x.failed THEN Is(Error, x.c)
     ELSE JoinArms([i \in DOMAIN kept |-> a.tys[kept[i]]], Never, x.c)

check_raise(operand, c) ==
  LET r == check_expr(operand, c)
      t == resolve(r.c, r.t)
  IN Is(Never, FailIf(r.c, t.k \notin {"error", "never"} /\ ~(t.k = "app" /\ t.n \in r.c.raises),
                      "RAISE_TYPE_MISMATCH"))
callee_raises(callee, c) ==
  IF callee[1] = "function" THEN c.d.fns[Id(callee[2])].raises ELSE <<>>
check_try(operand, c) ==
  LET r == check_call_at(operand[2], operand[3], TRUE, c)
      raised == callee_raises(operand[2], c)
  IN IF operand[1] # "call" THEN Is(Error, Fail(check_expr(operand, c).c, "TRY_ON_INFALLIBLE"))
     ELSE IF Diverges(CheckAll(operand[3], c).t) THEN Is(Never, r.c)
     ELSE IF raised = <<>> THEN Is(r.t, Fail(r.c, "TRY_ON_INFALLIBLE"))
     ELSE Is(r.t, FailIf(r.c, \E i \in DOMAIN raised : raised[i] \notin c.raises, "PROPAGATION_NOT_DECLARED"))

\* A handle binds names, or ignores, and nothing else.
RECURSIVE BindFlat(_, _, _)
BindFlat(pats, tys, c) ==
  IF pats = <<>> THEN c
  ELSE BindFlat(Tail(pats), Tail(tys),
                CASE pats[1][1] = "bind" -> BindLocal(c, pats[1][2], tys[1])
                  [] pats[1][1] = "wild" -> c
                  [] OTHER -> Fail(c, "UNSUPPORTED_FEATURE"))
\* What check_handle keeps from arm to arm: h, with the type of the arms so far.
ArmBody(h, c, body, reachable) ==
  LET b == check_expr(body, c)
      j == join_diverging_branches(h.result, b.t, b.c)
  IN IF reachable THEN [h EXCEPT !.result = j.t, !.c = j.c] ELSE [h EXCEPT !.c = b.c]
success_arm(arm, h) ==
  LET c1 == FailIf(h.c, h.success > 0, "DUPLICATE_SUCCESS_ARM")
      c2 == BindFlat(<<arm[2]>>, <<h.ty>>, c1)
  IN [ArmBody(h, c2, arm[3], h.success = 0 /\ ~h.diverges) EXCEPT !.success = @ + 1]
wildcard_arm(arm, h) ==
  LET reachable == ~h.diverges /\ ~h.wildcard /\ ~(h.required \subseteq h.covered)
      c1 == FailIf(h.c, ~reachable /\ ~h.diverges, "UNREACHABLE_HANDLE_ARM")
  IN [ArmBody(h, c1, arm[3], reachable) EXCEPT !.wildcard = TRUE]
failure_arm(arm, h) ==
  LET known == arm[2][2] # None /\ arm[2][3] # None
      key == <<Id(arm[2][2]), arm[2][3]>>
      raised == known /\ key[1] \in {k[1] : k \in h.required}
      reachable == ~h.diverges /\ ~h.wildcard /\ key \notin h.covered
      payload == h.c.d.variants[key[1]][key[2]].payload
      c1 == FailIf(h.c, ~reachable /\ ~h.diverges, "UNREACHABLE_HANDLE_ARM")
      c2 == IF Len(payload) # Len(arm[2][4]) THEN Fail(c1, "ARITY_MISMATCH") ELSE BindFlat(arm[2][4], payload, c1)
  IN IF raised THEN [ArmBody(h, c2, arm[3], reachable) EXCEPT !.covered = @ \cup {key}]
     ELSE [ArmBody(h, FailIf(h.c, known, "FAILURE_PATTERN_WRONG_TYPE"), arm[3], FALSE) EXCEPT !.invalid = TRUE]
HandleArms(arms, i, h) ==
  IF i > Len(arms) THEN h
  ELSE HandleArms(arms, i + 1,
         CASE arms[i][1] = "success" -> success_arm(arms[i], h)
           [] arms[i][1] = "failure" /\ arms[i][2][1] = "wild" -> wildcard_arm(arms[i], h)
           [] OTHER -> failure_arm(arms[i], h))
check_handle(operand, arms, c) ==
  LET r == check_call_at(operand[2], operand[3], TRUE, c)
      raised == callee_raises(operand[2], c)
      required == UNION {{<<raised[i], j>> : j \in DOMAIN c.d.variants[raised[i]]} : i \in DOMAIN raised}
      h == HandleArms(arms, 1,
             [c |-> FailIf(r.c, raised = <<>>, "TRY_ON_INFALLIBLE"), ty |-> r.t, required |-> required,
              diverges |-> Diverges(CheckAll(operand[3], c).t), success |-> 0, wildcard |-> FALSE,
              covered |-> {}, invalid |-> FALSE, result |-> Never])
      c1 == FailIf(h.c, h.success = 0, "MISSING_SUCCESS_ARM")
      c2 == FailIf(c1, ~h.invalid /\ ~h.wildcard /\ ~(required \subseteq h.covered), "NON_EXHAUSTIVE_HANDLER")
  IN IF operand[1] # "call" THEN Is(Error, Fail(check_expr(operand, c).c, "TRY_ON_INFALLIBLE"))
     ELSE IF h.diverges THEN Is(Never, h.c)
     ELSE Is(h.result, c2)

-----------------------------------------------------------------------------
(* Statements, and the dispatch on expressions.                            *)

\* Whether a break in an expression, a statement or a block leaves the loop it
\* is in.  A loop nested there answers no, its condition included.
RECURSIVE HasBreak(_)
AnyBreak(xs) == \E i \in DOMAIN xs : HasBreak(xs[i])
HasBreak(x) ==
  IF x = None THEN FALSE
  ELSE CASE x[1] = "break" -> TRUE
    [] x[1] = "bind" -> HasBreak(x[5])
    [] x[1] = "observe" -> HasBreak(x[4])
    [] x[1] \in {"expr", "defer", "drop", "try", "raise", "return", "field", "cast"} -> HasBreak(x[2])
    [] x[1] = "unary" -> HasBreak(x[3])
    [] x[1] \in {"binary", "assign"} -> HasBreak(x[3]) \/ HasBreak(x[4])
    [] x[1] = "call" -> HasBreak(x[2]) \/ AnyBreak(x[3])
    [] x[1] = "if" -> HasBreak(x[2]) \/ HasBreak(x[3]) \/ HasBreak(x[4])
    [] x[1] \in {"match", "handle"} -> HasBreak(x[2]) \/ \E i \in DOMAIN x[3] : HasBreak(x[3][i][3])
    [] x[1] = "record" -> \E i \in DOMAIN x[4] : HasBreak(x[4][i][2])
    [] x[1] = "block" -> AnyBreak(x[2]) \/ HasBreak(x[3])
    [] OTHER -> FALSE
loop_has_reachable_break(body) == HasBreak(body)

check_defer_shape(e, c) ==
  LET sig == c.d.fns[Id(e[2][2])]
      plain == /\ e[1] = "call"
               /\ ~Diverges(CheckAll(e[3], c).t)
               /\ e[2][1] = "function"
               /\ sig.tps = <<>> /\ sig.reqs = <<>> /\ ~is_affine(c, sig.ret)
  IN FailIf(c, ~plain, "UNSUPPORTED_DEFER_SHAPE")
check_drop_target(t, c) ==
  LET r == resolve(c, t) IN FailIf(c, r.k \notin {"error", "never"} /\ ~is_affine(c, r), "DROP_OF_NON_RESOURCE")

RECURSIVE is_place_expr(_), resolve_defaulted(_, _)
is_place_expr(e) == e[1] = "local" \/ (e[1] = "field" /\ is_place_expr(e[2]))
resolve_defaulted(c, t) ==
  IF t.k = "var" THEN CASE c.ctx.kind[t.n] = "Integer" -> I64
                        [] c.ctx.kind[t.n] = "Float" -> F64
                        [] OTHER -> t
  ELSE [t EXCEPT !.args = [i \in DOMAIN t.args |-> resolve_defaulted(c, t.args[i])]]
check_observation_source(source, ty, c) ==
  LET t == resolve_defaulted(c, deep_resolve(c, ty, 0))
  IN IF t = Error THEN Is(Error, c)
     ELSE IF ~is_place_expr(source) THEN Is(Error, Fail(c, "OBSERVATION_SOURCE_NOT_A_PLACE"))
     ELSE IF Mentions(t, {"var", "param"}) THEN Is(Error, Fail(c, "OBSERVATION_SOURCE_TYPE_UNRESOLVED"))
     ELSE IF ~is_affine(c, t) THEN Is(Error, Fail(c, "OBSERVATION_SOURCE_NOT_AFFINE"))
     ELSE Is(t, c)

check_binding(s, c) ==
  LET value == check_expr(s[5], c)
      declared == resolve_named_type(s[4], value.c)
      final == IF s[4] = None THEN value
               ELSE Is(declared.t, unify_report(declared.c, declared.t, value.t, "TYPE_MISMATCH"))
  IN Is(value.t, [final.c EXCEPT !.locals = Entry(@, s[3], [ty |-> final.t, mutable |-> s[2]])])
check_observe(s, c) ==
  LET source == check_expr(s[2], c)
      alias == check_observation_source(s[2], source.t, source.c)
      body == check_block(s[4], [BindLocal(alias.c, s[3], alias.t) EXCEPT !.aliases = @ \cup {s[3]}])
  IN Is(Unless(body.t = Never, Unit), body.c)
\* A body one loop further in.
LoopBody(b, c) ==
  [check_block(b, [c EXCEPT !.loops = @ + 1]).c EXCEPT !.loops = @ - 1]
check_stmt(s, c) ==
  LET e == check_expr(s[2], c) IN
  CASE s[1] = "bind" -> check_binding(s, c)
    [] s[1] = "expr" -> e
    [] s[1] = "defer" -> Is(Unit, check_defer_shape(s[2], e.c))
    [] s[1] = "drop" -> Is(Unit, check_drop_target(e.t, e.c))
    [] s[1] = "while" -> Is(Unless(e.t = Never, Unit), LoopBody(s[3], expect_bool(e.c, e.t)))
    [] s[1] = "loop" -> Is(Unless(~loop_has_reachable_break(s[2]), Unit), LoopBody(s[2], c))
    [] s[1] = "observe" -> check_observe(s, c)
CheckStmts(stmts, c) ==
  IF stmts = <<>> THEN Is(FALSE, c)
  ELSE LET first == check_stmt(stmts[1], c)
           rest == CheckStmts(Tail(stmts), first.c)
       IN Is(first.t = Never \/ rest.t, rest.c)
check_block(b, c) ==
  LET stmts == CheckStmts(b[2], c)
      tail == IF b[3] = None THEN Is(Unit, stmts.c) ELSE check_expr(b[3], stmts.c)
  IN Is(Unless(stmts.t, tail.t), tail.c)

check_return(value, c) ==
  LET v == IF value = None THEN Is(Unit, c) ELSE check_expr(value, c)
  IN Is(Never, unify_report(v.c, c.ret, v.t, "TYPE_MISMATCH"))
check_loop_control(c) == Is(Never, FailIf(c, c.loops = 0, "LOOP_CONTROL_OUTSIDE_LOOP"))
check_break(value, c) ==
  check_loop_control(IF value = None THEN c ELSE Fail(check_expr(value, c).c, "UNSUPPORTED_FEATURE"))
check_cast(e, ty, c) ==
  Is(Error, Fail(resolve_named_type(ty, check_expr(e, c).c).c, "UNSUPPORTED_FEATURE"))
\* A local the checker was never told of is Error, without a diagnostic.
LocalType(local, c) == Is(IF local \in DOMAIN c.locals THEN c.locals[local].ty ELSE Error, c)
check_expr(e, c) ==
  CASE e[1] = "lit" -> LiteralType(e[2], c)
    [] e[1] = "local" -> LocalType(e[2], c)
    [] e[1] = "function" -> Is(Error, Fail(c, "FUNCTION_NOT_FIRST_CLASS"))
    [] e[1] = "method" -> Is(Error, Fail(c, "PROTOCOL_METHOD_NOT_A_VALUE"))
    [] e[1] = "case" -> check_case_ref(e[2], e[3], e[4], c)
    [] e[1] = "unary" -> check_unary(e[2], e[3], c)
    [] e[1] = "binary" -> check_binary(e[2], e[3], e[4], c)
    [] e[1] = "assign" -> check_assign(e[2], e[3], e[4], c)
    [] e[1] = "call" -> check_call_at(e[2], e[3], FALSE, c)
    [] e[1] = "field" -> check_field_access(e[2], e[3], c)
    [] e[1] = "cast" -> check_cast(e[2], e[3], c)
    [] e[1] = "try" -> check_try(e[2], c)
    [] e[1] = "raise" -> check_raise(e[2], c)
    [] e[1] = "handle" -> check_handle(e[2], e[3], c)
    [] e[1] = "if" -> check_if(e[2], e[3], e[4], c)
    [] e[1] = "match" -> check_match(e[2], e[3], c)
    [] e[1] = "block" -> check_block(e, c)
    [] e[1] = "record" -> check_record_literal(e[2], e[3], e[4], c)
    [] e[1] = "return" -> check_return(e[2], c)
    [] e[1] = "break" -> check_break(e[2], c)
    [] e[1] = "continue" -> check_loop_control(c)
    [] e[1] = "error" -> Is(Error, c)

-----------------------------------------------------------------------------
(* Functions, and the passes of check_module.                              *)

check_function(f, c) ==
  LET sig == c.d.fns[Id(f.id)]
      params == [i \in {f.params[j].local : j \in DOMAIN f.params} |->
                   [ty |-> sig.params[CHOOSE j \in DOMAIN f.params : f.params[j].local = i], mutable |-> FALSE]]
      main == f.name = "main"
      c1 == [c EXCEPT !.locals = params @@ @, !.ret = sig.ret, !.own = sig.reqs,
                      !.raises = {sig.raises[i] : i \in DOMAIN sig.raises}]
      c2 == FailIf(c1, f.effects, "UNSUPPORTED_FEATURE")
      c3 == FailIf(c2, main /\ f.params # <<>>, "INVALID_MAIN_SIGNATURE")
      c4 == FailIf(c3, main /\ sig.reqs # <<>>, "ENTRY_MAIN_CAPABILITY_REQUIREMENT")
      c5 == FailIf(c4, main /\ sig.raises # <<>>, "ENTRY_MAIN_RAISES")
      body == check_block(f.body, c5)
  IN unify_report(body.c, sig.ret, body.t, "TYPE_MISMATCH")

OfKinds(hir, kinds) == SelectSeq(hir, LAMBDA x : x.kind \in kinds)
Passes(Step(_, _), xs, c) ==
  LET RECURSIVE go(_, _)
      go(i, m) == IF i > Len(xs) THEN m ELSE go(i + 1, Step(xs[i], m))
  IN go(1, c)
\* Everything before the bodies, in the order check_module_with_registry does it.
CheckDeclarations(hir) ==
  LET aggregates == OfKinds(hir, {"record", "variant"})
      c1 == check_aggregate_cycles(Passes(build_aggregate_info, aggregates, collect_generic_params(hir, NewChecker)))
      c2 == Passes(register_protocol, OfKinds(hir, {"protocol"}), c1)
      c3 == Passes(LAMBDA f, c : build_signature(f, f.tps, FALSE, c), OfKinds(hir, {"func"}), c2)
      c4 == Passes(LAMBDA e, c : ExtendSignatures(e, 1, c), OfKinds(hir, {"extend"}), c3)
  IN check_extend_overlaps(Passes(register_extend, OfKinds(hir, {"extend"}), c4))
\* The bodies, in the order they are checked.
Bodies(hir) ==
  LET extends == OfKinds(hir, {"extend"})
      RECURSIVE methods(_)
      methods(i) == IF i > Len(extends) THEN <<>> ELSE extends[i].methods \o methods(i + 1)
  IN OfKinds(hir, {"func"}) \o methods(1)
\* A literal that nothing decided takes the default of its kind.
finalize_defaults(c) ==
  LET free(v) == c.ctx.sub[v] = <<>>
      default(v) == IF c.ctx.kind[v] = "Integer" THEN <<I64>> ELSE <<F64>>
  IN [c EXCEPT !.ctx.sub = [v \in DOMAIN @ |-> IF free(v) /\ c.ctx.kind[v] # "none" THEN default(v) ELSE @[v]]]
=============================================================================
