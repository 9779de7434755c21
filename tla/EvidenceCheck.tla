---------------------------- MODULE EvidenceCheck ----------------------------
(***************************************************************************)
(* The capability solver (typeck/capability.rs) and the verifier's own     *)
(* view of what it decided (nir/verify.rs).  The extensions of a module    *)
(* are registered one by one, overlapping ones are excluded, and the       *)
(* bodies then ask for requirements, whose evidence is cached for the rest *)
(* of the compilation.  The verifier checks a module's extensions and the  *)
(* evidence each call carries, and trusts nothing of this.                 *)
(***************************************************************************)
EXTENDS Requirements

CONSTANTS ExtendLists,      \* the extensions a module may declare, in order
          Queries,          \* what a body may ask: [req, own]
          MaxQueries        \* bound: requirements asked in one compilation

VARIABLE solver   \* [declared: the extensions still to register; accepted;
                  \*  extends: the registered ones once overlaps are excluded;
                  \*  open: registration goes on; errors: a diagnostic was
                  \*  pushed; cache; asked; last: the last query and its answer]

NoAnswer == [evs |-> <<>>, ok |-> FALSE, why |-> ""]
NoQuery  == [req |-> Req("", <<>>), own |-> <<>>]
NoSolver == [declared |-> <<>>, accepted |-> <<>>, extends |-> <<>>, open |-> FALSE, errors |-> FALSE,
             cache |-> <<>>, asked |-> MaxQueries, query |-> NoQuery, last |-> NoAnswer]

CapabilityInit ==
    \E list \in ExtendLists :
        solver = [NoSolver EXCEPT !.declared = list, !.open = TRUE, !.asked = 0]

RegisterExtend ==
    /\ solver.open /\ solver.declared # <<>>
    /\ LET e    == solver.declared[1]
           uses == resolve_requirements(e.uses)
       IN solver' = [solver EXCEPT
                       !.declared = Tail(@),
                       !.errors   = @ \/ ~registrable(e) \/ uses # e.uses,
                       !.accepted = IF registrable(e) THEN Append(@, [e EXCEPT !.uses = uses]) ELSE @]

CheckOverlaps ==
    /\ solver.open /\ solver.declared = <<>>
    /\ LET out == excluded(solver.accepted)
           keep == SelectSeq([i \in DOMAIN solver.accepted |-> i], LAMBDA i : i \notin out)
       IN solver' = [solver EXCEPT !.open    = FALSE,
                                   !.errors  = @ \/ out # {},
                                   !.extends = [i \in DOMAIN keep |-> solver.accepted[keep[i]]]]

Ask(q) ==
    /\ ~solver.open /\ solver.asked < MaxQueries
    /\ LET a == resolve_requirement(q.req, q.own, solver.extends, solver.cache)
       IN solver' = [solver EXCEPT !.asked = @ + 1,
                                   !.cache = a.cache,
                                   !.errors = @ \/ ~a.ok,
                                   !.query = q,
                                   !.last = [evs |-> a.evs, ok |-> a.ok, why |-> a.why]]

CapabilityNext == RegisterExtend \/ CheckOverlaps \/ \E q \in Queries : Ask(q)

(***************************************************************************)
(* check_type_root: a type a declaration may hold.                         *)
(***************************************************************************)
exceeds_generic_depth(t) == Nesting(t) > MaxGenericDepth
check_no_bad_type(t) == ~Mentions(t, {"var", "error"})
RECURSIVE check_named_type_identity(_)
check_named_type_identity(t) ==
    /\ t.k = "app" => t.n \in DOMAIN Aggregates /\ Pairable(Aggregates[t.n].params, t.args)
    /\ \A i \in DOMAIN t.args : check_named_type_identity(t.args[i])
check_type_param_scope(t, own) == collect_occurring_type_params(t, 0) \subseteq own
check_type_root(t, own) ==
    /\ ~exceeds_generic_depth(t)
    /\ check_no_bad_type(t)
    /\ check_named_type_identity(t)
    /\ check_type_param_scope(t, own)

(***************************************************************************)
(* verify_module's checks of one extension.  Lowering gives an extension's *)
(* methods its own parameters and requirements.                            *)
(***************************************************************************)
check_no_duplicate_type_params(params) == Cardinality(ToSet(params)) = Len(params)

verify_extend(e) ==
    LET own == ToSet(e.params)
        protocol == Protocols[e.protocol]
        subst == Pairing(protocol.params, e.args)
    IN /\ check_no_duplicate_type_params(e.params)
       /\ own \subseteq UNION {collect_occurring_type_params(e.args[i], 0) : i \in DOMAIN e.args}
       /\ \A i \in DOMAIN e.args : check_type_root(e.args[i], own)
       /\ \A i \in DOMAIN e.uses :
             /\ Pairable(Protocols[e.uses[i].protocol].params, e.uses[i].args)
             /\ \A j \in DOMAIN e.uses[i].args : check_type_root(e.uses[i].args[j], own)
       /\ Pairable(protocol.params, e.args)
       /\ Len(protocol.methods) = Len(e.methods)
       /\ \A i \in DOMAIN protocol.methods :
             LET m == e.methods[CHOOSE j \in DOMAIN e.methods : e.methods[j].name = protocol.methods[i].name]
             IN /\ m.raises = {}
                /\ m.params = substitute_all(protocol.methods[i].params, subst)
                /\ m.ret = substitute(protocol.methods[i].ret, subst)

(***************************************************************************)
(* check_evidence.  A result is [problem, left]: the problem ("" for none) *)
(* and the budget that is left.                                            *)
(***************************************************************************)
Problem(p, left) == [problem |-> p, left |-> left]

RECURSIVE verify_head(_, _, _, _, _)
RECURSIVE verify_heads(_, _, _, _, _)
verify_heads(s, free, pats, targets, depth) ==
    IF Len(pats) # Len(targets) THEN NoMatch
    ELSE IF pats = <<>> THEN [ok |-> TRUE, s |-> s]
    ELSE LET m == verify_head(s, free, pats[1], targets[1], depth)
         IN IF m.ok THEN verify_heads(m.s, free, Tail(pats), Tail(targets), depth) ELSE NoMatch
\* The verifier's match_extend_head: only the extension's own parameters bind.
verify_head(s, free, pat, target, depth) ==
    IF depth > MaxGenericDepth THEN NoMatch
    ELSE IF pat.k = "param" /\ pat.n \in free
    THEN IF pat.n \notin DOMAIN s THEN [ok |-> TRUE, s |-> Bind(s, pat.n, target)]
         ELSE [ok |-> s[pat.n] = target, s |-> s]
    ELSE IF pat.k = target.k /\ pat.n = target.n
    THEN verify_heads(s, free, pat.args, target.args, depth + 1)
    ELSE NoMatch

RECURSIVE check_evidence(_, _, _, _, _, _, _)
RECURSIVE check_nested(_, _, _, _, _, _)
check_nested(nested, reqs, own, exts, depth, budget) ==
    IF nested = <<>> THEN Problem("", budget)
    ELSE LET first == check_evidence(nested[1], reqs[1], FALSE, own, exts, depth, budget)
         IN IF first.problem # "" THEN first
            ELSE check_nested(Tail(nested), Tail(reqs), own, exts, depth, first.left)
check_evidence(ev, r, allow_forwarded, own, exts, depth, budget) ==
    IF depth > MaxCapabilityDepth THEN Problem("depth exceeded", budget)
    ELSE IF budget = 0 THEN Problem("work budget exceeded", 0)
    ELSE IF ev.e = "forwarded"
    THEN Problem(CASE ~allow_forwarded -> "forwarded not allowed"
                   [] allow_forwarded /\ ev.index \notin DOMAIN own -> "index out of range"
                   [] OTHER -> IF own[ev.index] = r THEN "" ELSE "requirement mismatch", budget - 1)
    ELSE IF requirement_is_symbolic(r) THEN Problem("extension for symbolic", budget - 1)
    ELSE LET known == {i \in DOMAIN exts : exts[i].id = ev.id}
         IN IF known = {} THEN Problem("unknown extension", budget - 1)
            ELSE LET e    == exts[CHOOSE i \in known : TRUE]
                     head == verify_heads(<<>>, ToSet(e.params), e.args, r.args, 0)
                     reqs == [i \in DOMAIN e.uses |->
                                 Req(e.uses[i].protocol, substitute_all(e.uses[i].args, head.s))]
                 IN IF e.protocol # r.protocol THEN Problem("protocol mismatch", budget - 1)
                    ELSE IF ~head.ok THEN Problem("head mismatch", budget - 1)
                    ELSE IF Len(ev.nested) # Len(e.uses) THEN Problem("nested count", budget - 1)
                    ELSE check_nested(ev.nested, reqs, own, exts, depth + 1, budget - 1)

verify_evidence(ev, r, own, exts) == check_evidence(ev, r, TRUE, own, exts, 0, MaxSteps).problem

(***************************************************************************)
(* The reference: a requirement is satisfied when some extension, at some  *)
(* types for its parameters, is an extension for it whose own requirements *)
(* are satisfied in turn.                                                  *)
(***************************************************************************)
RECURSIVE Parts(_)
Parts(t) == {t} \cup UNION {Parts(t.args[i]) : i \in DOMAIN t.args}

RECURSIVE Satisfied(_, _, _)
Satisfied(exts, r, depth) ==
    /\ depth > 0
    /\ \E i \in DOMAIN exts :
          LET e     == exts[i]
              parts == UNION {Parts(r.args[j]) : j \in DOMAIN r.args}
          IN /\ e.protocol = r.protocol
             /\ \E sigma \in [ToSet(e.params) -> parts] :
                   /\ substitute_all(e.args, sigma) = r.args
                   /\ \A u \in DOMAIN e.uses :
                         Satisfied(exts, Req(e.uses[u].protocol, substitute_all(e.uses[u].args, sigma)),
                                   depth - 1)

MaxDerivation == 4   \* bound: levels of uses the reference follows

\* The registered extensions are coherent and the solver decides by them alone:
\* no requirement is ever ambiguous, one that is refused (other than for depth,
\* budget or an undeclared symbolic use) is satisfied by no extension, evidence
\* is found only for one that is, and - unless a limit stops it - the verifier
\* accepts that evidence and every extension of a module without errors; a
\* cached answer is no different from a fresh one.
EvidenceIsCoherent ==
    LET q == solver.query
        a == solver.last
        concrete == a.ok /\ a.evs[1].e = "extension"
    IN /\ a.why # "ambiguous"
       /\ a.why \in {"missing", "cyclic"} => ~Satisfied(solver.extends, q.req, MaxDerivation)
       /\ concrete => Satisfied(solver.extends, q.req, MaxDerivation)
       /\ a.ok => verify_evidence(a.evs[1], q.req, q.own, solver.extends)
                    \in {"", "depth exceeded", "work budget exceeded"}
       /\ concrete => LET fresh == resolve_requirement(q.req, q.own, solver.extends, <<>>)
                      IN fresh.why \in {"depth", "budget"} \/ fresh.evs = a.evs
       /\ ~solver.open /\ ~solver.errors =>
             \A i \in DOMAIN solver.extends : verify_extend(solver.extends[i])
=============================================================================
