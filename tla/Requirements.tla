----------------------------- MODULE Requirements -----------------------------
(***************************************************************************)
(* Capability requirements (typeck/capability.rs): when an extension may   *)
(* be registered, when two overlap, and the evidence for a requirement.    *)
(*                                                                         *)
(* A requirement is [protocol, args]; a method [name, params, ret, raises];*)
(* an extension [id, params, protocol, args, uses, methods, source];       *)
(* evidence is [e, index, id, nested], forwarded or an extension.          *)
(***************************************************************************)
EXTENDS Types, SequencesExt

CONSTANTS Protocols,        \* name -> [params, methods, source]
          Aggregates,       \* name -> [params, fields, affine, source]
          MaxCapabilityDepth,  \* limits::MAX_CAPABILITY_DEPTH
          MaxSteps             \* limits::MAX_CAPABILITY_RESOLUTION_STEPS

Req(p, args) == [protocol |-> p, args |-> args]
Forwarded(i) == [e |-> "forwarded", index |-> i, id |-> "", nested |-> <<>>]
Extension(id, nested) == [e |-> "extension", index |-> 0, id |-> id, nested |-> nested]

RECURSIVE collect_occurring_type_params(_, _)
collect_occurring_type_params(t, depth) ==
    IF depth > MaxGenericDepth THEN {}
    ELSE IF t.k = "param" THEN {t.n}
    ELSE UNION {collect_occurring_type_params(t.args[i], depth + 1) : i \in DOMAIN t.args}

RECURSIVE ty_is_symbolic(_)
ty_is_symbolic(t) == t.k = "param" \/ \E i \in DOMAIN t.args : ty_is_symbolic(t.args[i])
requirement_is_symbolic(r) == \E i \in DOMAIN r.args : ty_is_symbolic(r.args[i])

RECURSIVE type_params_within(_, _)
type_params_within(t, allowed) ==
    /\ t.k = "param" => t.n \in allowed
    /\ \A i \in DOMAIN t.args : type_params_within(t.args[i], allowed)

substitute_all(tys, subst) == [i \in DOMAIN tys |-> substitute(tys[i], subst)]

\* Whether a value of the type owns a resource, through its fields.
RECURSIVE is_affine_visiting(_, _, _)
is_affine_visiting(t, visiting, depth) ==
    /\ depth < MaxGenericDepth
    /\ t.k = "app" /\ t.n \in DOMAIN Aggregates
    /\ LET decl == Aggregates[t.n]
       IN \/ decl.affine
          \/ ~Pairable(decl.params, t.args)
          \/ /\ t.args # <<>> \/ t.n \notin visiting
             /\ \E i \in DOMAIN decl.fields :
                   is_affine_visiting(substitute(decl.fields[i], Pairing(decl.params, t.args)),
                                      IF t.args = <<>> THEN visiting \cup {t.n} ELSE visiting,
                                      depth + 1)
is_affine(t) == is_affine_visiting(t, {}, 0)

(***************************************************************************)
(* Matching a head against a concrete requirement.  A match is a            *)
(* substitution, or none: [ok, s].                                         *)
(***************************************************************************)
NoMatch == [ok |-> FALSE, s |-> <<>>]
Bind(s, p, t) == [x \in DOMAIN s \cup {p} |-> IF x = p THEN t ELSE s[x]]

RECURSIVE match_one(_, _, _, _)
RECURSIVE match_all(_, _, _, _)
match_all(pats, concs, s, depth) ==
    IF Len(pats) # Len(concs) THEN NoMatch
    ELSE IF pats = <<>> THEN [ok |-> TRUE, s |-> s]
    ELSE LET m == match_one(pats[1], concs[1], s, depth)
         IN IF m.ok THEN match_all(Tail(pats), Tail(concs), m.s, depth) ELSE NoMatch
match_one(pat, conc, s, depth) ==
    CASE depth > MaxGenericDepth -> NoMatch
      [] depth <= MaxGenericDepth /\ pat.k = "param" ->
           IF pat.n \in DOMAIN s THEN IF s[pat.n] = conc THEN [ok |-> TRUE, s |-> s] ELSE NoMatch
           ELSE [ok |-> TRUE, s |-> Bind(s, pat.n, conc)]
      [] OTHER -> IF pat.k = conc.k /\ pat.n = conc.n
                  THEN match_all(pat.args, conc.args, s, depth + 1) ELSE NoMatch

match_extend_head(pats, concs) == match_all(pats, concs, <<>>, 0)

(***************************************************************************)
(* Unifying two heads, to exclude extensions that can match one type.  An  *)
(* answer is [r, s, steps], r one of yes, no and budget.                   *)
(***************************************************************************)
Answer(r, s, steps) == [r |-> r, s |-> s, steps |-> steps]

RECURSIVE resolve_head(_, _)
resolve_head(s, t) == IF t.k = "param" /\ t.n \in DOMAIN s THEN resolve_head(s, s[t.n]) ELSE t

RECURSIVE occurs_in_head(_, _, _, _, _)
occurs_in_head(s, var, t, depth, steps) ==
    IF depth > MaxGenericDepth \/ steps + 1 > MaxSteps THEN Answer("budget", s, steps)
    ELSE LET r == resolve_head(s, t)
             RECURSIVE any(_, _)
             any(i, n) ==
                 IF i > Len(r.args) THEN Answer("no", s, n)
                 ELSE LET a == occurs_in_head(s, var, r.args[i], depth + 1, n)
                      IN IF a.r = "no" THEN any(i + 1, a.steps) ELSE a
         IN IF r.k = "param" THEN Answer(IF r.n = var THEN "yes" ELSE "no", s, steps + 1)
            ELSE any(1, steps + 1)

bind_head(s, p, t, depth, steps) ==
    LET o == occurs_in_head(s, p, t, depth + 1, steps)
    IN CASE o.r = "budget" -> o
         [] o.r = "yes"    -> Answer("no", s, o.steps)
         [] OTHER          -> Answer("yes", Bind(s, p, t), o.steps)

RECURSIVE unify_head_args(_, _, _, _, _)
RECURSIVE unify_heads(_, _, _, _, _)
unify_heads(s, as, bs, depth, steps) ==
    IF Len(as) # Len(bs) THEN Answer("no", s, steps)
    ELSE IF as = <<>> THEN Answer("yes", s, steps)
    ELSE LET u == unify_head_args(s, as[1], bs[1], depth, steps)
         IN IF u.r = "yes" THEN unify_heads(u.s, Tail(as), Tail(bs), depth, u.steps) ELSE u
unify_head_args(s, a, b, depth, steps) ==
    IF depth > MaxGenericDepth \/ steps + 1 > MaxSteps THEN Answer("budget", s, steps)
    ELSE LET ra == resolve_head(s, a)
             rb == resolve_head(s, b)
             n  == steps + 1
         IN CASE ra.k = "param" /\ rb.k = "param" ->
                   Answer("yes", IF ra = rb THEN s ELSE Bind(s, ra.n, rb), n)
              [] ra.k = "param" /\ rb.k # "param" -> bind_head(s, ra.n, rb, depth, n)
              [] ra.k # "param" /\ rb.k = "param" -> bind_head(s, rb.n, ra, depth, n)
              [] OTHER -> IF ra.k = rb.k /\ ra.n = rb.n
                          THEN unify_heads(s, ra.args, rb.args, depth + 1, n)
                          ELSE Answer("no", s, n)

\* Mutant of heads_can_overlap: two heads overlap only when they are equal.
HeadsEqual(x, y) == Answer(IF x.args = y.args THEN "yes" ELSE "no", <<>>, 0)

\* The parameters of two extensions are distinct names, as TypeParamIds are.
heads_can_overlap(x, y) == unify_heads(<<>>, x.args, y.args, 0, 0)

(***************************************************************************)
(* Registration.                                                           *)
(***************************************************************************)
\* A requirement of the wrong arity is reported and dropped.
resolve_requirements(uses) ==
    SelectSeq(uses, LAMBDA r : Pairable(Protocols[r.protocol].params, r.args))

outermost_aggregate_source(t) ==
    IF t.k = "app" /\ t.n \in DOMAIN Aggregates THEN {Aggregates[t.n].source} ELSE {}
check_extension_authority(e) ==
    \/ e.source = Protocols[e.protocol].source
    \/ e.args # <<>> /\ e.source \in outermost_aggregate_source(e.args[1])

\* Each protocol method implemented once, with the protocol's signature at the
\* extension's arguments, raising nothing, and no other method.
check_extension_completeness(e) ==
    LET protocol == Protocols[e.protocol]
        subst    == Pairing(protocol.params, e.args)
        named(n) == {i \in DOMAIN e.methods : e.methods[i].name = n}
    IN /\ \A i \in DOMAIN protocol.methods :
             LET m == protocol.methods[i]
             IN /\ Cardinality(named(m.name)) = 1
                /\ \A j \in named(m.name) :
                      /\ e.methods[j].params = substitute_all(m.params, subst)
                      /\ e.methods[j].ret = substitute(m.ret, subst)
                      /\ e.methods[j].raises = {}
       /\ \A j \in DOMAIN e.methods :
             /\ \E i \in DOMAIN protocol.methods : protocol.methods[i].name = e.methods[j].name
             /\ \A p \in DOMAIN e.methods[j].params :
                   type_params_within(e.methods[j].params[p], ToSet(e.params))
             /\ type_params_within(e.methods[j].ret, ToSet(e.params))

registrable(e) ==
    /\ Pairable(Protocols[e.protocol].params, e.args)
    /\ \A i \in DOMAIN e.args : ~is_affine(e.args[i])
    /\ ToSet(e.params) \subseteq UNION {collect_occurring_type_params(e.args[i], 0) : i \in DOMAIN e.args}
    /\ check_extension_authority(e)
    /\ check_extension_completeness(e)

\* check_extend_overlaps: of two overlapping extensions the later one goes, of
\* two that could not be told apart within the budget both.
excluded(accepted) ==
    UNION {LET r == heads_can_overlap(accepted[i], accepted[j]).r
           IN CASE r = "no" -> {} [] r = "yes" -> {j} [] r = "budget" -> {i, j} :
             <<i, j>> \in {p \in (DOMAIN accepted) \X (DOMAIN accepted) : 
                             p[1] < p[2] /\ accepted[p[1]].protocol = accepted[p[2]].protocol}}

(***************************************************************************)
(* Resolution.  A result is [ok, evs, why, cache, steps]: evidence for     *)
(* each requirement asked for, or the reason there is none.                *)
(***************************************************************************)
Found(evs, cache, steps)   == [ok |-> TRUE, evs |-> evs, why |-> "", cache |-> cache, steps |-> steps]
Refused(why, cache, steps) == [ok |-> FALSE, evs |-> <<>>, why |-> why, cache |-> cache, steps |-> steps]

RECURSIVE resolve_concrete(_, _, _, _, _, _)
RECURSIVE resolve_nested(_, _, _, _, _, _)
resolve_nested(exts, reqs, depth, steps, path, cache) ==
    IF reqs = <<>> THEN Found(<<>>, cache, steps)
    ELSE LET first == resolve_concrete(exts, reqs[1], depth, steps, path, cache)
         IN IF ~first.ok THEN first
            ELSE LET rest == resolve_nested(exts, Tail(reqs), depth, first.steps, path, first.cache)
                 IN [rest EXCEPT !.evs = IF rest.ok THEN first.evs \o @ ELSE @]

\* The one extension whose head matches, and the evidence its own uses need.
select_extension(exts, r, depth, steps, path, cache) ==
    LET matches == {i \in DOMAIN exts : exts[i].protocol = r.protocol
                                        /\ match_extend_head(exts[i].args, r.args).ok}
    IN IF matches = {} THEN Refused("missing", cache, steps)
       ELSE IF Cardinality(matches) > 1 THEN Refused("ambiguous", cache, steps)
       ELSE LET e      == exts[CHOOSE i \in matches : TRUE]
                subst  == match_extend_head(e.args, r.args).s
                needs  == [i \in DOMAIN e.uses |->
                              Req(e.uses[i].protocol, substitute_all(e.uses[i].args, subst))]
                nested == resolve_nested(exts, needs, depth + 1, steps, path, cache)
            IN [nested EXCEPT !.evs = IF nested.ok THEN <<Extension(e.id, @)>> ELSE @]

\* Only what was resolved is cached; a failure may depend on the path to it.
resolve_concrete(exts, r, depth, steps, path, cache) ==
    IF r \in DOMAIN cache THEN Found(<<cache[r]>>, cache, steps)
    ELSE IF r \in ToSet(path) THEN Refused("cyclic", cache, steps)
    ELSE IF depth > MaxCapabilityDepth THEN Refused("depth", cache, steps)
    ELSE IF steps + 1 > MaxSteps THEN Refused("budget", cache, steps + 1)
    ELSE LET s == select_extension(exts, r, depth, steps + 1, Append(path, r), cache)
         IN [s EXCEPT !.cache = IF s.ok THEN Bind(@, r, s.evs[1]) ELSE @]

\* A requirement the function declares itself is forwarded; a symbolic one it
\* does not declare is refused; a concrete one is resolved.
resolve_requirement(r, own, exts, cache) ==
    IF r \in ToSet(own)
    THEN Found(<<Forwarded(CHOOSE i \in DOMAIN own : own[i] = r /\ \A j \in 1..(i - 1) : own[j] # r)>>, cache, 0)
    ELSE IF requirement_is_symbolic(r) THEN Refused("undeclared", cache, 0)
    ELSE resolve_concrete(exts, r, 0, 0, <<>>, cache)
===============================================================================
