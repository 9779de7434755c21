------------------------------ MODULE Resolve ------------------------------
(***************************************************************************)
(* Name resolution: hir/lower.rs with the scopes of resolve/scope.rs.      *)
(*                                                                         *)
(* The syntax tree of Parser becomes HIR: an identifier becomes a local, a *)
(* function, a variant case or a protocol method.  A lowering l is the     *)
(* record of the tables Lowering keeps, the scope stack and the set diags  *)
(* of diagnostic codes raised; a table is a function from the names in it. *)
(* Items and locals are numbered as they are met.  Expression, pattern and *)
(* observation numbers, spans and the wording of diagnostics are left out. *)
(***************************************************************************)
EXTENDS Parser, FiniteSets, TLC

CONSTANT Primitives          \* names that are primitive types, within Idents

Empty == [x \in {} |-> 0]
Put(f, k, v) == (k :> v) @@ f
Has(f, k) == k \in DOMAIN f
Report(l, code) == [l EXCEPT !.diags = @ \cup {code}]
ReportIf(l, cond, code) == IF cond THEN Report(l, code) ELSE l

Lowering == [names |-> Empty,     \* names taken in the module: "local" or "imported"
             fns |-> Empty,       \* functions_by_name
             types |-> Empty,     \* type_names: <<item, kind>>
             protos |-> Empty,    \* protocol_names
             methods |-> Empty,   \* protocol_methods: item -> name -> index
             fields |-> Empty,    \* record_fields: item -> name -> index
             cases |-> Empty,     \* variant_cases: item -> name -> index
             arity |-> Empty,     \* variant_type_param_count
             lookup |-> Empty,    \* case_lookup: name -> {<<variant, index>>}
             hidden |-> Empty,    \* the private fields of an imported record
             tparams |-> Empty,   \* type_param_scope
             scopes |-> << >>,    \* Scopes.stack, innermost last
             aliases |-> {},      \* observation_alias_names
             next |-> 0, local |-> 0, tparam |-> 0,
             diags |-> {}]

fresh_item(l) == [l EXCEPT !.next = @ + 1]

-----------------------------------------------------------------------------
(* resolve/scope.rs.                                                       *)

push(l) == [l EXCEPT !.scopes = Append(@, Empty)]
pop(l) == [l EXCEPT !.scopes = SubSeq(@, 1, Len(@) - 1)]
\* A fresh local, defined under name in the innermost scope.
define(l, name) ==
  [l EXCEPT !.local = @ + 1,
            !.scopes[Len(l.scopes)] = Put(@, name, l.local + 1)]
Bound(l, name) == \E i \in DOMAIN l.scopes : Has(l.scopes[i], name)
lookup(l, name) ==
  LET i == CHOOSE i \in DOMAIN l.scopes : /\ Has(l.scopes[i], name)
                                          /\ \A j \in (i + 1)..Len(l.scopes) : ~Has(l.scopes[j], name)
  IN l.scopes[i][name]

-----------------------------------------------------------------------------
(* Types and signatures.                                                   *)

RECURSIVE Each(_, _, _), One(_, _, _), resolve_type_ref_at_depth(_, _, _),
          TypesAt(_, _, _), lower_type_params(_, _, _), lower_params(_, _, _),
          lower_expr(_, _), lower_block(_, _), lower_if(_, _),
          lower_pattern_at_depth(_, _, _, _), PatternsAt(_, _, _, _),
          lower_record_fields(_, _, _, _, _), lower_aggregate_fields(_, _, _, _),
          lower_cases(_, _, _), lower_methods(_, _, _, _), resolve_raises(_, _, _),
          lower_uses_clause(_, _, _)

\* The nodes of xs, each lowered as a `what`, in order.
Each(what, xs, l) ==
  IF xs = <<>> THEN Result(<<>>, l)
  ELSE LET first == One(what, xs[1], l)
           rest == Each(what, Tail(xs), first.p)
       IN Result(<<first.n>> \o rest.n, rest.p)

TypesAt(tys, depth, l) ==
  IF tys = <<>> THEN Result(<<>>, l)
  ELSE LET first == resolve_type_ref_at_depth(tys[1], depth, l)
           rest == TypesAt(Tail(tys), depth, first.p)
       IN Result(<<first.n>> \o rest.n, rest.p)
resolve_type_ref_at_depth(ty, depth, l) ==
  LET name == ty[2] IN
  IF depth > MaxGenericDepth THEN Result(<<"unresolved", name>>, Report(l, "GENERIC_DEPTH"))
  ELSE IF Has(l.tparams, name)
  THEN Result(<<"param", l.tparams[name]>>, ReportIf(l, ty[3] # <<>>, "TYPE_PARAMETER_APPLIED"))
  ELSE IF name \in Primitives
  THEN Result(<<"unresolved", name>>, ReportIf(l, ty[3] # <<>>, "TYPE_PARAMETER_APPLIED"))
  ELSE IF ~Has(l.types, name) THEN Result(<<"unresolved", name>>, l)
  ELSE LET args == TypesAt(ty[3], depth + 1, l)
       IN Result(<<"aggregate", l.types[name][1], args.n>>, args.p)
resolve_type_ref(ty, l) == resolve_type_ref_at_depth(ty, 0, l)
\* An annotation that may be absent.
OptionalType(ty, l) == IF ty = None \/ ty = <<>> THEN Result(None, l) ELSE resolve_type_ref(ty, l)

lower_type_params(names, done, l) ==
  IF names = <<>> THEN Result(done, l)
  ELSE IF Has(l.tparams, names[1])
  THEN lower_type_params(Tail(names), done, Report(l, "DUPLICATE_TYPE_PARAMETER"))
  ELSE IF names[1] \in Primitives
  THEN lower_type_params(Tail(names), done, Report(l, "PRIMITIVE_TYPE_PARAMETER"))
  ELSE LET id == l.tparam + 1
       IN lower_type_params(Tail(names), Append(done, id),
                            [l EXCEPT !.tparam = id, !.tparams = Put(@, names[1], id)])
TypeParams(names, l) == lower_type_params(names, <<>>, [l EXCEPT !.tparams = Empty])
\* Mutant of clear_type_param_scope: an item's type parameters outlive it.
ScopeStays(l) == l
clear_type_param_scope(l) == [l EXCEPT !.tparams = Empty]

lower_params(params, seen, l) ==
  IF params = <<>> THEN Result(<<>>, l)
  ELSE LET name == params[1][2]
           ty == resolve_type_ref(params[1][3],
                   define(ReportIf(l, name \in seen, "DUPLICATE_PARAMETER"), name))
           rest == lower_params(Tail(params), seen \cup {name}, ty.p)
       IN Result(<<[take |-> params[1][1], local |-> l.local + 1, ty |-> ty.n]>> \o rest.n, rest.p)

\* The capability requirements; a clause without arguments is an effect.
lower_uses_clause(clauses, done, l) ==
  IF clauses = <<>> THEN Result(done, l)
  ELSE LET path == clauses[1][1]
           args == TypesAt(clauses[1][2], 0, l)
       IN IF clauses[1][2] = <<>> THEN lower_uses_clause(Tail(clauses), done, l)
          ELSE IF Len(path) # 1
          THEN lower_uses_clause(Tail(clauses), done, Report(l, "DOTTED_REQUIREMENT"))
          ELSE IF ~Has(l.protos, path[1])
          THEN lower_uses_clause(Tail(clauses), done, Report(l, "UNKNOWN_PROTOCOL"))
          ELSE lower_uses_clause(Tail(clauses), Append(done, <<l.protos[path[1]], args.n>>), args.p)

resolve_raises(names, done, l) ==
  IF names = <<>> THEN Result(done, l)
  ELSE LET found == Has(l.types, names[1])
           item == l.types[names[1]][1]
           problem == IF ~found THEN "UNKNOWN_RAISES"
                      ELSE IF l.types[names[1]][2] # "variant" THEN "UNKNOWN_RAISES"
                      ELSE IF ~Has(l.arity, item) THEN "RAISES_METADATA"
                      ELSE IF l.arity[item] > 0 THEN "GENERIC_RAISES"
                      ELSE IF \E i \in DOMAIN done : done[i] = item THEN "DUPLICATE_RAISES"
                      ELSE "ok"
       IN IF problem # "ok" THEN resolve_raises(Tail(names), done, Report(l, problem))
          ELSE resolve_raises(Tail(names), Append(done, item), l)

-----------------------------------------------------------------------------
(* Expressions.                                                            *)

ErrorOf(l, code) == Result(ErrorExpr, Report(l, code))
unresolved_name_diagnostic(l, name) ==
  IF name \in l.aliases THEN "ALIAS_OUT_OF_SCOPE" ELSE "UNRESOLVED_NAME"
Local(l, name) == Result(<<"local", lookup(l, name)>>, l)

resolve_case_candidates(l, name) ==
  IF Len(l.lookup[name]) > 1 THEN ErrorOf(l, "AMBIGUOUS_CONSTRUCTOR")
  ELSE Result(<<"case", l.lookup[name][1][1], l.lookup[name][1][2], <<>>>>, l)
resolve_ident(l, name) ==
  IF Bound(l, name) THEN Local(l, name)
  ELSE IF Has(l.fns, name) THEN Result(<<"function", l.fns[name], <<>>>>, l)
  ELSE IF Has(l.lookup, name) THEN resolve_case_candidates(l, name)
  ELSE IF Has(l.protos, name) THEN ErrorOf(l, "PROTOCOL_NOT_A_VALUE")
  ELSE ErrorOf(l, unresolved_name_diagnostic(l, name))

lower_type_apply(l, name, tys) ==
  IF Bound(l, name) THEN ErrorOf(l, "INVALID_TYPE_APPLICATION")
  ELSE IF Has(l.fns, name)
  THEN LET args == TypesAt(tys, 0, l) IN Result(<<"function", l.fns[name], args.n>>, args.p)
  ELSE IF Has(l.types, name) THEN ErrorOf(l, "INVALID_TYPE_APPLICATION")
  ELSE IF Has(l.protos, name) THEN ErrorOf(l, "PROTOCOL_NOT_A_VALUE")
  ELSE ErrorOf(l, "UNRESOLVED_NAME")

resolve_protocol_method(l, protocol, tys, name) ==
  LET args == TypesAt(tys, 0, l) IN
  IF Has(l.methods, protocol) /\ Has(l.methods[protocol], name)
  THEN Result(<<"method", protocol, l.methods[protocol][name], args.n>>, args.p)
  ELSE ErrorOf(args.p, "UNKNOWN_METHOD")
resolve_qualified_case(l, variant, tys, name) ==
  IF Has(l.cases[variant], name)
  THEN LET args == TypesAt(tys, 0, l)
       IN Result(<<"case", variant, l.cases[variant][name], args.n>>, args.p)
  ELSE IF Has(l.lookup, name) /\ \E i \in DOMAIN l.lookup[name] : l.lookup[name][i][1] # variant
  THEN ErrorOf(l, "WRONG_VARIANT")
  ELSE ErrorOf(l, "UNKNOWN_CASE")
\* base.name: a protocol's method, a variant's case, else a field of a value.
lower_field(l, base, name) ==
  LET head == IF base[1] \in {"ident", "apply"} THEN base[2] ELSE "_"
      tys == IF base[1] = "apply" THEN base[3] ELSE <<>>
      global == base[1] \in {"ident", "apply"} /\ ~Bound(l, head) /\ ~Has(l.fns, head)
  IN IF global /\ Has(l.protos, head) THEN resolve_protocol_method(l, l.protos[head], tys, name)
     ELSE IF global /\ Has(l.types, head)
     THEN IF l.types[head][2] = "variant" THEN resolve_qualified_case(l, l.types[head][1], tys, name)
          ELSE ErrorOf(l, "UNKNOWN_VARIANT_TYPE")
     ELSE LET b == lower_expr(base, l) IN Result(<<"field", b.n, name>>, b.p)

\* The initialisers of a record literal; its values are lowered whatever is wrong.
lower_record_fields(inits, item, seen, done, l) ==
  IF inits = <<>> THEN Result(done, ReportIf(l, DOMAIN l.fields[item] \ seen # {}, "MISSING_FIELD"))
  ELSE LET name == inits[1][1]
           value == lower_expr(inits[1][2], l)
           problem == IF name \in seen THEN "DUPLICATE_INIT"
                      ELSE IF Has(l.hidden, item) /\ name \in l.hidden[item] THEN "INACCESSIBLE_FIELD"
                      ELSE IF ~Has(l.fields[item], name) THEN "UNKNOWN_FIELD"
                      ELSE "ok"
       IN IF problem # "ok"
          THEN lower_record_fields(Tail(inits), item, seen \cup {name}, done, Report(value.p, problem))
          ELSE lower_record_fields(Tail(inits), item, seen \cup {name},
                                   Append(done, <<l.fields[item][name], value.n>>), value.p)
lower_record_literal(l, name, tys, inits) ==
  IF Has(l.types, name) /\ l.types[name][2] = "record"
  THEN LET fs == lower_record_fields(inits, l.types[name][1], {}, <<>>, l)
           args == TypesAt(tys, 0, fs.p)
       IN Result(<<"record", l.types[name][1], args.n, fs.n>>, args.p)
  ELSE LET values == Each("init", inits, Report(l, "UNKNOWN_RECORD"))
       IN Result(ErrorExpr, values.p)

PatternsAt(pats, bound, depth, l) ==
  IF pats = <<>> THEN [n |-> <<>>, p |-> l, bound |-> bound]
  ELSE LET first == lower_pattern_at_depth(pats[1], bound, depth, l)
           rest == PatternsAt(Tail(pats), first.bound, depth, first.p)
       IN [rest EXCEPT !.n = <<first.n>> \o @]
lower_pattern_at_depth(pat, bound, depth, l) ==
  IF depth > MaxPatternDepth
  THEN [n |-> <<"wild">>, p |-> Report(l, "PATTERN_TOO_DEEP"), bound |-> bound]
  ELSE CASE pat[1] = "bind" ->
              [n |-> <<"bind", l.local + 1, pat[2]>>,
               p |-> define(ReportIf(l, pat[2] \in bound, "DUPLICATE_PATTERN_BINDING"), pat[2]),
               bound |-> bound \cup {pat[2]}]
         [] pat[1] = "pcase" ->
              LET args == PatternsAt(pat[3], bound, depth + 1, l)
              IN [args EXCEPT !.n = <<"pcase", pat[2], @>>]
         [] OTHER -> [n |-> pat, p |-> l, bound |-> bound]
lower_failure_pattern(pat, l) ==
  IF pat[1] = "wild" THEN [n |-> pat, p |-> l, bound |-> {}]
  ELSE LET known == Has(l.types, pat[2]) /\ l.types[pat[2]][2] = "variant"
           variant == l.types[pat[2]][1]
           hasCase == Has(l.cases[variant], pat[3])
           code == IF ~known THEN "UNKNOWN_VARIANT_TYPE" ELSE "UNKNOWN_CASE"
           args == PatternsAt(pat[4], {}, 0, ReportIf(l, ~known \/ ~hasCase, code))
       IN [args EXCEPT !.n = <<"fcase", IF known THEN variant ELSE None,
                               IF known /\ hasCase THEN l.cases[variant][pat[3]] ELSE None, @>>]
\* An arm of a match or of a handle opens a scope for what its pattern binds.
lower_arm(arm, l) ==
  LET pat == IF arm[1] = "failure" THEN lower_failure_pattern(arm[2], push(l))
             ELSE lower_pattern_at_depth(arm[2], {}, 0, push(l))
      body == lower_expr(arm[3], pat.p)
  IN Result(<<arm[1], pat.n, body.n>>, pop(body.p))

lower_if(e, l) ==
  LET cond == lower_expr(e[2], l)
      then == lower_block(e[3], cond.p)
      els == IF e[4] = None THEN Result(None, then.p)
             ELSE IF e[4][1] = "if" THEN lower_if(e[4], then.p) ELSE lower_block(e[4], then.p)
  IN Result(<<"if", cond.n, then.n, els.n>>, els.p)

\* A node made of a fixed row of subexpressions keeps its head.
Row(head, subs, l) == LET r == Each("expr", subs, l) IN Result(head \o r.n, r.p)

lower_expr(e, l) ==
  CASE e[1] \in {"lit", "continue", "error"} -> Result(e, l)
    [] e[1] = "ident" -> resolve_ident(l, e[2])
    [] e[1] = "paren" -> lower_expr(e[2], l)
    [] e[1] = "unary" -> Row(<<"unary", e[2]>>, <<e[3]>>, l)
    [] e[1] \in {"binary", "assign"} -> Row(<<e[1], e[2]>>, <<e[3], e[4]>>, l)
    [] e[1] = "call" -> LET f == lower_expr(e[2], l)
                            args == Each("expr", e[3], f.p)
                        IN Result(<<"call", f.n, args.n>>, args.p)
    [] e[1] = "field" -> lower_field(l, e[2], e[3])
    [] e[1] = "cast" -> LET v == lower_expr(e[2], l)
                            ty == resolve_type_ref(e[3], v.p)
                        IN Result(<<"cast", v.n, ty.n>>, ty.p)
    [] e[1] \in {"try", "raise"} -> Row(<<e[1]>>, <<e[2]>>, l)
    [] e[1] = "if" -> lower_if(e, l)
    [] e[1] \in {"match", "handle"} -> LET s == lower_expr(e[2], l)
                                           arms == Each("arm", e[3], s.p)
                                       IN Result(<<e[1], s.n, arms.n>>, arms.p)
    [] e[1] = "block" -> lower_block(e, l)
    [] e[1] \in {"return", "break"} -> IF e[2] = None THEN Result(e, l) ELSE Row(<<e[1]>>, <<e[2]>>, l)
    [] e[1] = "record" -> lower_record_literal(l, e[2], e[3], e[4])
    [] e[1] = "apply" -> lower_type_apply(l, e[2], e[3])

lower_binding(s, l) ==
  LET value == lower_expr(s[4], l)
      ty == OptionalType(s[3], define(value.p, s[2]))
  IN Result(<<"bind", s[1] = "mutable", value.p.local + 1, ty.n, value.n>>, ty.p)
\* The alias is visible in the body only; its name is remembered afterwards.
lower_observe(s, l) ==
  LET source == lower_expr(s[2], l)
      inner == define(push(source.p), s[3])
      body == lower_block(s[4], inner)
      out == pop(body.p)
  IN Result(<<"observe", source.n, inner.local, body.n>>,
            [out EXCEPT !.aliases = @ \cup {s[3]}])
lower_stmt(s, l) ==
  CASE s[1] \in {"value", "mutable"} -> lower_binding(s, l)
    [] s[1] \in {"expr", "defer", "drop"} -> Row(<<s[1]>>, <<s[2]>>, l)
    [] s[1] = "while" -> LET c == lower_expr(s[2], l)
                             b == lower_block(s[3], c.p)
                         IN Result(<<"while", c.n, b.n>>, b.p)
    [] s[1] = "loop" -> LET b == lower_block(s[2], l) IN Result(<<"loop", b.n>>, b.p)
    [] s[1] = "observe" -> lower_observe(s, l)
lower_block(b, l) ==
  LET stmts == Each("stmt", b[2], push(l))
      tail == IF b[3] = None THEN Result(None, stmts.p) ELSE lower_expr(b[3], stmts.p)
  IN Result(<<"block", stmts.n, tail.n>>, pop(tail.p))

-----------------------------------------------------------------------------
(* Declarations.                                                           *)

lower_aggregate_fields(fields, seen, done, l) ==
  IF fields = <<>> THEN [n |-> done, p |-> l, seen |-> seen]
  ELSE LET name == fields[1][2]
           ty == resolve_type_ref(fields[1][3], l)
       IN IF Has(seen, name)
          THEN lower_aggregate_fields(Tail(fields), seen, done, Report(l, "DUPLICATE_FIELD"))
          ELSE lower_aggregate_fields(Tail(fields), Put(seen, name, Len(done) + 1),
                                      Append(done, [name |-> name, public |-> fields[1][1], ty |-> ty.n]),
                                      ty.p)
\* A record, or a resource, which has no type parameters.
lower_record(id, r, l) ==
  LET tps == TypeParams(r[4], l)
      fs == lower_aggregate_fields(r[5], Empty, <<>>, tps.p)
  IN Result([kind |-> "record", id |-> id, tps |-> tps.n, fields |-> fs.n, affine |-> r[1] = "resource"],
            clear_type_param_scope([fs.p EXCEPT !.fields = Put(@, id, fs.seen)]))

add_case_candidate(l, name, item, index) ==
  LET cs == IF Has(l.lookup, name) THEN l.lookup[name] ELSE <<>>
  IN IF \E i \in DOMAIN cs : cs[i] = <<item, index>> THEN l
     ELSE [l EXCEPT !.lookup = Put(@, name, Append(cs, <<item, index>>))]
lower_cases(cases, id, l) ==
  IF cases = <<>> THEN Result(<<>>, l)
  ELSE LET name == cases[1][1]
           index == Cardinality(DOMAIN l.cases[id]) + 1
           tys == TypesAt(cases[1][2], 0,
                    add_case_candidate([l EXCEPT !.cases[id] = Put(@, name, index)], name, id, index))
           rest == lower_cases(Tail(cases), id, tys.p)
       IN IF Has(l.cases[id], name) THEN lower_cases(Tail(cases), id, Report(l, "DUPLICATE_CASE"))
          ELSE Result(<<[name |-> name, payload |-> tys.n]>> \o rest.n, rest.p)
lower_variant(id, v, l) ==
  LET tps == TypeParams(v[4], l)
      cs == lower_cases(v[5], id, [tps.p EXCEPT !.cases = Put(@, id, Empty)])
  IN Result([kind |-> "variant", id |-> id, tps |-> tps.n, cases |-> cs.n],
            clear_type_param_scope([cs.p EXCEPT !.arity = Put(@, id, Len(tps.n))]))

\* The methods of a protocol: a repeated name is reported and the last one kept.
lower_methods(ms, table, index, l) ==
  IF ms = <<>> THEN [n |-> <<>>, p |-> l, table |-> table]
  ELSE LET name == ms[1][1]
           take == \E i \in DOMAIN ms[1][2] : ms[1][2][i][1]
           l1 == ReportIf(ReportIf(l, Has(table, name), "DUPLICATE_METHOD"), take, "TAKE_IN_PROTOCOL")
           tys == TypesAt([i \in DOMAIN ms[1][2] |-> ms[1][2][i][3]], 0, l1)
           ret == OptionalType(ms[1][3], tys.p)
           rest == lower_methods(Tail(ms), Put(table, name, index), index + 1, ret.p)
       IN [rest EXCEPT !.n = <<[name |-> name, params |-> tys.n, ret |-> ret.n]>> \o @]
lower_protocol(id, p, l) ==
  LET tps == TypeParams(p[4], l)
      ms == lower_methods(p[5], Empty, 1, tps.p)
  IN Result([kind |-> "protocol", id |-> id, tps |-> tps.n, methods |-> ms.n],
            clear_type_param_scope([ms.p EXCEPT !.methods = Put(@, id, ms.table)]))

\* Parameters and result, then the body, in a scope stack of its own.
Callable(f, l) ==
  LET params == lower_params(f[5], {}, [l EXCEPT !.scopes = <<Empty>>])
      ret == OptionalType(f[6], params.p)
  IN [params |-> params.n, ret |-> ret.n, p |-> ret.p]
lower_function(id, f, l) ==
  LET tps == TypeParams(f[4], [l EXCEPT !.aliases = {}])
      sig == Callable(f, tps.p)
      reqs == lower_uses_clause(f[7], <<>>, sig.p)
      body == lower_block(f[9], reqs.p)
      raised == resolve_raises(f[8], <<>>, clear_type_param_scope(body.p))
      effects == \E i \in DOMAIN f[7] : f[7][i][2] = <<>>
  IN Result([kind |-> "func", id |-> id, name |-> f[3], tps |-> tps.n, params |-> sig.params, ret |-> sig.ret,
             reqs |-> reqs.n, effects |-> effects, raises |-> raised.n, body |-> body.n],
            [raised.p EXCEPT !.scopes = << >>])
lower_extend_method(f, l) ==
  LET l1 == ReportIf(fresh_item(l), f[4] # <<>>, "METHOD_TYPE_PARAMS")
      l2 == ReportIf(l1, f[7] # <<>>, "METHOD_USES")
      l3 == ReportIf(l2, f[8] # <<>>, "METHOD_RAISES")
      sig == Callable(f, l3)
      body == lower_block(f[9], sig.p)
  IN Result([kind |-> "func", id |-> l1.next, name |-> f[3], tps |-> <<>>, params |-> sig.params, ret |-> sig.ret,
             reqs |-> <<>>, effects |-> FALSE, raises |-> <<>>, body |-> body.n],
            [body.p EXCEPT !.scopes = << >>])
lower_extend(id, e, l) ==
  LET tps == TypeParams(e[2], l)
      known == Has(l.protos, e[3][2])
      args == TypesAt(e[3][3], 0, ReportIf(tps.p, ~known, "UNKNOWN_PROTOCOL"))
      reqs == lower_uses_clause(e[4], <<>>, args.p)
      ms == Each("method", e[5], reqs.p)
  IN Result([kind |-> "extend", id |-> id, tps |-> tps.n,
             protocol |-> IF known THEN l.protos[e[3][2]] ELSE None,
             args |-> args.n, reqs |-> reqs.n,
             methods |-> [i \in DOMAIN ms.n |-> [ms.n[i] EXCEPT !.reqs = reqs.n]]],
            clear_type_param_scope(ms.p))

One(what, x, l) ==
  CASE what = "expr" -> lower_expr(x, l)
    [] what = "stmt" -> lower_stmt(x, l)
    [] what = "arm" -> lower_arm(x, l)
    [] what = "init" -> lower_expr(x[2], l)
    [] what = "method" -> lower_extend_method(x, l)

-----------------------------------------------------------------------------
(* The passes of run_with_imports.                                         *)

\* An import [name, kind, item, parts, hidden, arity]: parts are its fields, cases
\* or methods in order, hidden its private fields.
ImportItem(i, l) ==
  LET index == [x \in {i.parts[k] : k \in DOMAIN i.parts} |->
                  CHOOSE k \in DOMAIN i.parts : i.parts[k] = x]
      taken == [l EXCEPT !.names = Put(@, i.name, "imported")]
      typed == [taken EXCEPT !.types = Put(@, i.name, <<i.item, i.kind>>)]
      RECURSIVE Candidates(_, _)
      Candidates(k, m) == IF k > Len(i.parts) THEN m
                          ELSE Candidates(k + 1, add_case_candidate(m, i.parts[k], i.item, k))
  IN IF Has(l.names, i.name) THEN Report(l, "DUPLICATE_IMPORT")
     ELSE CASE i.kind = "func" -> [taken EXCEPT !.fns = Put(@, i.name, i.item)]
            [] i.kind = "record" -> [typed EXCEPT !.fields = Put(@, i.item, index),
                                                  !.hidden = Put(@, i.item, i.hidden)]
            [] i.kind = "variant" -> [Candidates(1, typed) EXCEPT !.cases = Put(@, i.item, index),
                                                                  !.arity = Put(@, i.item, i.arity)]
            [] i.kind = "protocol" -> [taken EXCEPT !.protos = Put(@, i.name, i.item),
                                                    !.methods = Put(@, i.item, index)]

check_duplicate(l, name) ==
  IF ~Has(l.names, name) THEN [l EXCEPT !.names = Put(@, name, "local")]
  ELSE Report(l, IF l.names[name] = "local" THEN "DUPLICATE_DEFINITION" ELSE "DUPLICATE_IMPORT")
\* An item's name enters the module's tables under the next item number.
RegisterItem(x, l) ==
  LET id == l.next + 1
      l1 == fresh_item(l)
      l2 == check_duplicate(l1, x[3])
  IN CASE x[1] = "func" -> [l2 EXCEPT !.fns = Put(@, x[3], id)]
       [] x[1] \in {"record", "resource"} -> [l2 EXCEPT !.types = Put(@, x[3], <<id, "record">>)]
       [] x[1] = "variant" -> [l2 EXCEPT !.types = Put(@, x[3], <<id, "variant">>)]
       [] x[1] = "protocol" -> [l2 EXCEPT !.protos = Put(@, x[3], id)]
       [] x[1] \in {"extend", "import"} -> l1

\* The types a public item shows, and whether one of them names a private type.
RECURSIVE check_public_api_leak(_, _)
check_public_api_leak(ty, private) ==
  ty[2] \notin Primitives /\ (ty[2] \in private
                              \/ \E i \in DOMAIN ty[3] : check_public_api_leak(ty[3][i], private))
ShownTypes(x) ==
  CASE x[1] = "func" -> {x[5][i][3] : i \in DOMAIN x[5]} \cup (IF x[6] = <<>> THEN {} ELSE {x[6]})
    [] x[1] \in {"record", "resource"} -> {x[5][i][3] : i \in {j \in DOMAIN x[5] : x[5][j][1]}}
    [] x[1] = "variant" -> UNION {{x[5][i][2][j] : j \in DOMAIN x[5][i][2]} : i \in DOMAIN x[5]}
    [] OTHER -> {}
check_raises_public_api_leak(x, private) ==
  x[1] = "func" /\ \E i \in DOMAIN x[8] : x[8][i] \in private
\* The visibility of a name is that of its last declaration, variants after
\* records and resources last.
PrivateTypes(items) ==
  LET OfKind(k) == SelectSeq(items, LAMBDA x : x[1] = k)
      order == OfKind("record") \o OfKind("variant") \o OfKind("resource")
  IN {order[i][3] : i \in {j \in DOMAIN order : /\ ~order[j][2]
                                                /\ \A k \in (j + 1)..Len(order) : order[k][3] # order[j][3]}}
\* Mutant of CheckLeaks: a private type is only known from its declaration on.
LeaksSoFar(items, l) ==
  LET leaks(x, private) ==
        /\ x[1] \notin {"import", "extend", "protocol"}
        /\ x[2]
        /\ \/ \E ty \in ShownTypes(x) : check_public_api_leak(ty, private)
           \/ check_raises_public_api_leak(x, private)
  IN ReportIf(l, \E i \in DOMAIN items : leaks(items[i], PrivateTypes(SubSeq(items, 1, i))), "PRIVATE_TYPE_LEAKED")
CheckLeaks(items, l) ==
  LET private == PrivateTypes(items)
      leaks(x) == /\ x[1] \notin {"import", "extend", "protocol"}
                  /\ x[2]
                  /\ \/ \E ty \in ShownTypes(x) : check_public_api_leak(ty, private)
                     \/ check_raises_public_api_leak(x, private)
  IN ReportIf(l, \E i \in DOMAIN items : leaks(items[i]), "PRIVATE_TYPE_LEAKED")

\* The order in which the declarations are lowered, as positions in the module.
LoweringOrder(items) ==
  LET OfKind(k) == SelectSeq([i \in DOMAIN items |-> i], LAMBDA i : items[i][1] = k)
  IN OfKind("record") \o OfKind("resource") \o OfKind("variant") \o OfKind("protocol")
     \o OfKind("func") \o OfKind("extend")
LowerItem(id, x, l) ==
  CASE x[1] \in {"record", "resource"} -> lower_record(id, x, l)
    [] x[1] = "variant" -> lower_variant(id, x, l)
    [] x[1] = "protocol" -> lower_protocol(id, x, l)
    [] x[1] = "func" -> lower_function(id, x, l)
    [] x[1] = "extend" -> lower_extend(id, x, l)
=============================================================================
