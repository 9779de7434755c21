-------------------------------- MODULE Unify --------------------------------
(***************************************************************************)
(* Unification in one function body (typeck/unify.rs, typeck/context.rs):  *)
(* the substitution and the kinds of the type variables, and a sequence of *)
(* calls of unify, each of which binds variables or leaves no trace.       *)
(***************************************************************************)
EXTENDS Types

CONSTANTS Constraints,     \* the pairs of types a body may ask to unify
          VarKinds,        \* per type variable: its kind when it is allocated
          GroundTypes,     \* closed types, to solve constraints by search
          MaxUnifications  \* bound: calls of unify in one body

VARIABLE infer   \* [ctx: the TypeContext, a substitution slot (empty or one type)
                 \*  and a kind per variable; accepted: the constraints unify
                 \*  returned Ok for; calls; last: the last call and its answer]

TyVars == DOMAIN VarKinds

kind_of(ctx, v) == ctx.kind[v]
set_kind(ctx, v, kind) == [ctx EXCEPT !.kind[v] = kind]
bind(ctx, v, t) == [ctx EXCEPT !.sub[v] = <<t>>]

RECURSIVE resolve(_, _)
resolve(ctx, t) ==
    IF t.k = "var" /\ ctx.sub[t.n] # <<>> THEN resolve(ctx, ctx.sub[t.n][1]) ELSE t

RECURSIVE occurs(_, _, _, _)
occurs(ctx, v, t, depth) ==
    \/ depth > MaxGenericDepth
    \/ LET r == resolve(ctx, t)
       IN \/ r.k = "var" /\ r.n = v
          \/ \E i \in DOMAIN r.args : occurs(ctx, v, r.args[i], depth + 1)

kind_allows(ctx, v, t) ==
    CASE kind_of(ctx, v) = "Integer" -> is_integer(t)
      [] kind_of(ctx, v) = "Float"   -> is_float(t)
      [] OTHER -> TRUE

Ok(ctx)  == [ok |-> TRUE, ctx |-> ctx]
Err(ctx) == [ok |-> FALSE, ctx |-> ctx]

merge_vars(ctx, a, b) ==
    LET ka == kind_of(ctx, a.n)
        kb == kind_of(ctx, b.n)
    IN IF ka # "none" /\ kb # "none" /\ ka # kb THEN Err(ctx)
       ELSE Ok(set_kind(bind(ctx, a.n, b), b.n, IF ka # "none" THEN ka ELSE kb))

bind_checked(ctx, v, t) ==
    IF ~occurs(ctx, v, t, 0) /\ kind_allows(ctx, v, t) THEN Ok(bind(ctx, v, t)) ELSE Err(ctx)

RECURSIVE unify_at_depth(_, _, _, _)
unify_at_depth(ctx, ta, tb, depth) ==
    LET a == resolve(ctx, ta)
        b == resolve(ctx, tb)
        RECURSIVE pairwise(_, _)
        pairwise(c, i) ==
            IF i > Len(a.args) THEN Ok(c)
            ELSE LET r == unify_at_depth(c, a.args[i], b.args[i], depth + 1)
                 IN IF r.ok THEN pairwise(r.ctx, i + 1) ELSE r
    IN IF a = b THEN Ok(ctx)
       ELSE IF {a.k, b.k} \cap {"error", "never"} # {} THEN Ok(ctx)
       ELSE IF a.k = "var" /\ b.k = "var" THEN merge_vars(ctx, a, b)
       ELSE IF a.k = "var" /\ b.k # "var" THEN bind_checked(ctx, a.n, b)
       ELSE IF b.k = "var" /\ a.k # "var" THEN bind_checked(ctx, b.n, a)
       ELSE
              IF /\ a.k = "app" /\ b.k = "app" /\ a.n = b.n
                 /\ Len(a.args) = Len(b.args)
                 /\ depth < MaxGenericDepth
              THEN pairwise(ctx, 1) ELSE Err(ctx)

\* Mutant of unify: a failed call keeps the bindings it made before it failed.
UnifyWithoutRestore(ctx, a, b) == unify_at_depth(ctx, a, b, 0)

\* checkpoint and restore: a failed call gives back the context it was given.
unify(ctx, a, b) ==
    LET r == unify_at_depth(ctx, a, b, 0)
    IN IF r.ok THEN r ELSE Err(ctx)

(***************************************************************************)
(* The state machine.                                                      *)
(***************************************************************************)
NoCall == [a |-> Error, b |-> Error, ok |-> TRUE]

\* fresh_var_with_kind for every variable of the body.
UnifyInit ==
    infer = [ctx |-> [sub |-> [v \in TyVars |-> <<>>], kind |-> VarKinds],
             accepted |-> {}, calls |-> 0, last |-> NoCall]

CallUnify(a, b) ==
    /\ infer.calls < MaxUnifications
    /\ LET r == unify(infer.ctx, a, b)
       IN infer' = [ctx      |-> r.ctx,
                    accepted |-> infer.accepted \cup IF r.ok THEN {<<a, b>>} ELSE {},
                    calls    |-> infer.calls + 1,
                    last     |-> [a |-> a, b |-> b, ok |-> r.ok]]

UnifyNext == \E c \in Constraints : CallUnify(c[1], c[2])

(***************************************************************************)
(* What unification promises.                                              *)
(***************************************************************************)
\* Two types agree when they are equal up to positions where one of them is
\* Error or Never, which unify with anything.
RECURSIVE Agree(_, _)
Agree(s, t) ==
    \/ s = t
    \/ {s.k, t.k} \cap {"error", "never"} # {}
    \/ /\ s.k = "app" /\ t.k = "app" /\ s.n = t.n /\ Len(s.args) = Len(t.args)
       /\ \A i \in DOMAIN s.args : Agree(s.args[i], t.args[i])

\* A type with every variable replaced by what a total assignment gives it.
RECURSIVE Under(_, _)
Under(t, sigma) ==
    IF t.k = "var" THEN sigma[t.n]
    ELSE [t EXCEPT !.args = [i \in DOMAIN t.args |-> Under(t.args[i], sigma)]]

\* The variables a substitution leads to from one: no variable reaches itself.
Bound(ctx, v) == ctx.sub[v] # <<>>
RECURSIVE VarsOf(_)
VarsOf(t) == IF t.k = "var" THEN {t.n} ELSE UNION {VarsOf(t.args[i]) : i \in DOMAIN t.args}
RECURSIVE Reached(_, _, _)
Reached(ctx, vs, n) ==
    IF n = 0 THEN vs
    ELSE Reached(ctx, UNION {IF Bound(ctx, v) THEN VarsOf(ctx.sub[v][1]) ELSE {} : v \in vs}, n - 1)
Forest(ctx) == \A v \in TyVars : Reached(ctx, {v}, Cardinality(TyVars)) = {}

\* A type with its variables resolved at every level.
RECURSIVE Solved(_, _)
Solved(ctx, t) ==
    LET r == resolve(ctx, t)
    IN [r EXCEPT !.args = [i \in DOMAIN r.args |-> Solved(ctx, r.args[i])]]

KindAgrees(kind, t) ==
    CASE kind = "Integer" -> is_integer(t) [] kind = "Float" -> is_float(t) [] OTHER -> TRUE

Solutions(cs) ==
    LET vs == UNION {VarsOf(c[1]) \cup VarsOf(c[2]) : c \in cs}
    IN {sigma \in [vs -> GroundTypes] :
          /\ \A v \in vs : KindAgrees(VarKinds[v], sigma[v])
          /\ \A c \in cs : Agree(Under(c[1], sigma), Under(c[2], sigma))}

\* Unification finds a solution that serves every constraint it has accepted:
\* the substitution is a forest (so resolve ends), it makes the two sides of
\* each accepted constraint agree, every variable stays within the kind its
\* literal was given, and a constraint is refused only when no assignment of
\* types solves it together with the accepted ones - so a failed call (which
\* unify undoes) has bound nothing.
UnifierIsPrincipal ==
    /\ Forest(infer.ctx)
    /\ \A c \in infer.accepted : Agree(Solved(infer.ctx, c[1]), Solved(infer.ctx, c[2]))
    /\ \A v \in TyVars :
         LET r == resolve(infer.ctx, TyVar(v))
         IN IF r.k = "var" THEN VarKinds[v] \in {"none", infer.ctx.kind[r.n]}
            ELSE KindAgrees(VarKinds[v], r)
    /\ ~infer.last.ok => Solutions(infer.accepted \cup {<<infer.last.a, infer.last.b>>}) = {}
=============================================================================
