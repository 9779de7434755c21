-------------------------------- MODULE Types --------------------------------
(***************************************************************************)
(* The checker's types (types/mod.rs, types/generics.rs).  A type is a     *)
(* record of a constructor, a name and arguments, so that every type has   *)
(* the same shape: a nominal type without arguments (Ty::Named) is an      *)
(* application to none.                                                    *)
(***************************************************************************)
EXTENDS Naturals, Sequences, FiniteSets

CONSTANT MaxGenericDepth   \* limits::MAX_GENERIC_DEPTH
ASSUME DepthAssumption == MaxGenericDepth \in Nat

Ty(k, n, args) == [k |-> k, n |-> n, args |-> args]
Prim(n)        == Ty("prim", n, <<>>)
Param(n)       == Ty("param", n, <<>>)
TyVar(n)       == Ty("var", n, <<>>)
App(n, args)   == Ty("app", n, args)
Named(n)       == App(n, <<>>)
Error          == Ty("error", "error", <<>>)
Never          == Ty("never", "never", <<>>)

I64 == Prim("i64")
I32 == Prim("i32")
F64 == Prim("f64")
Bool == Prim("bool")

is_integer(t) == t \in {I64, I32}
is_float(t)   == t = F64

\* The parameters of a declaration zipped with the arguments of an instance:
\* a pair for each position both lists have.  checked_substitution asks for
\* lists of one length first.
Pairable(params, args) == Len(params) = Len(args)
Pairing(params, args) ==
    LET common == {i \in DOMAIN params : i <= Len(args)}
    IN [p \in {params[i] : i \in common} |-> args[CHOOSE i \in common : params[i] = p]]

RECURSIVE substitute_at_depth(_, _, _)
substitute_at_depth(t, subst, depth) ==
    IF depth > MaxGenericDepth THEN t
    ELSE IF t.k = "param" /\ t.n \in DOMAIN subst THEN subst[t.n]
    ELSE [t EXCEPT !.args =
             [i \in DOMAIN t.args |-> substitute_at_depth(t.args[i], subst, depth + 1)]]

substitute(t, subst) == substitute_at_depth(t, subst, 0)

\* How many applications are nested in a type.
RECURSIVE Nesting(_)
Nesting(t) ==
    IF t.args = <<>> THEN 0
    ELSE LET deep == {Nesting(t.args[i]) : i \in DOMAIN t.args}
         IN 1 + CHOOSE m \in deep : \A n \in deep : n <= m

\* A constructor anywhere in a type.
RECURSIVE Mentions(_, _)
Mentions(t, kinds) == t.k \in kinds \/ \E i \in DOMAIN t.args : Mentions(t.args[i], kinds)
=============================================================================
