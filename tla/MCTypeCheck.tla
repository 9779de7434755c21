----------------------------- MODULE MCTypeCheck -----------------------------
(***************************************************************************)
(* Instances of the type checker's algorithms.                             *)
(***************************************************************************)
EXTENDS TypeCheck

T == Param("T")
U == Param("U")
Box(t)     == App("Box", <<t>>)
Pair(s, t) == App("Pair", <<s, t>>)
UpTo(S, n) == UNION {[1..k -> S] : k \in 0..n}

(***************************************************************************)
(* Unification: three literals' variables, one of them of an integer and   *)
(* one of a float, in constraints that bind, merge, nest, conflict, recur  *)
(* and fail after binding.                                                 *)
(***************************************************************************)
u == TyVar("u")
v == TyVar("v")
w == TyVar("w")
TheKinds == "u" :> "none" @@ "v" :> "Integer" @@ "w" :> "Float" @@ "x" :> "none"
x == TyVar("x")
TheConstraints ==
    {<<u, v>>, <<u, w>>, <<x, u>>, <<v, I32>>, <<u, Bool>>, <<u, Box(x)>>, <<x, Box(u)>>,
     <<u, Never>>, <<Pair(u, x), Pair(I64, Bool)>>, <<Pair(u, u), Pair(x, F64)>>,
     <<Pair(v, Bool), Pair(x, x)>>, <<u, Box(Box(v))>>, <<Box(u), Box(Box(x))>>, <<Box(u), Pair(u, x)>>}
Flat == {I64, I32, F64, Bool}
TheGroundTypes == Flat \cup {Box(t) : t \in Flat} \cup {Box(Box(t)) : t \in Flat}

(***************************************************************************)
(* Matches on bool, integers, a generic option, a case with two payloads,  *)
(* and options of these.                                                   *)
(***************************************************************************)
b0 == BoolPat("false")
b1 == BoolPat("true")
ThePayloads == "Opt" :> ("None" :> <<>> @@ "Some" :> <<T>>)
               @@ "Two" :> ("Both" :> <<Bool, Bool>> @@ "Nil" :> <<>>)
TheSpaceParams == "Opt" :> <<"T">> @@ "Two" :> <<>>
TheCaseOrder == "Opt" :> <<"None", "Some">> @@ "Two" :> <<"Both", "Nil">>
none       == Case("Opt", "None", <<>>)
some(p)    == Case("Opt", "Some", <<p>>)
nil        == Case("Two", "Nil", <<>>)
both(p, q) == Case("Two", "Both", <<p, q>>)
BoolPats == {Wildcard, b0, b1}
OptPats(ps) == {Wildcard, none} \cup {some(p) : p \in ps}
TwoPats == {Wildcard, nil} \cup {both(p, q) : p \in BoolPats, q \in BoolPats}
MatchesOn(ty, pats, n) == {[ty |-> ty, rows |-> r] : r \in UpTo(pats, n)}
TheMatches ==
    UNION {MatchesOn(Bool, BoolPats, 3),
           MatchesOn(I64, {Wildcard, Literal("0"), Literal("1")}, 3),
           MatchesOn(App("Opt", <<Bool>>), OptPats(BoolPats), 3),
           MatchesOn(App("Opt", <<App("Opt", <<Bool>>)>>), OptPats(OptPats(BoolPats)), 2),
           MatchesOn(Named("Two"), TwoPats, 3),
           MatchesOn(App("Opt", <<Named("Two")>>),
                     {Wildcard, none, some(nil), some(both(b0, Wildcard)), some(both(Wildcard, b0)),
                      some(both(b1, b1))}, 3)}

(***************************************************************************)
(* Declarations: a generic record and variant, and two records that may    *)
(* reach each other and themselves through them.                           *)
(***************************************************************************)
Decl(params, fields) == [params |-> params, fields |-> fields]
RecordFields  == {I64, Named("A"), Named("B"), Box(Named("A")), Box(Named("B")), Box(I64)}
TheDeclarations ==
    {"Box" :> Decl(<<"T">>, b) @@ "A" :> Decl(<<>>, a) @@ "B" :> Decl(<<>>, c) @@ "Wrap" :> Decl(<<"T">>, d) :
        b \in UpTo({T, Named("A")}, 1), a \in UpTo(RecordFields, 2), c \in UpTo(RecordFields, 1),
        d \in UpTo({T, Named("A"), Box(T), App("Wrap", <<Box(T)>>)}, 1)}
TheDeclOrder == <<"Box", "A", "B", "Wrap">>

(***************************************************************************)
(* Protocols Show and Eq of one parameter and Conv of two, of module m;    *)
(* Box and Pair of module m, Other of module o; File is a resource.        *)
(***************************************************************************)
Method(name, params, ret) == [name |-> name, params |-> params, ret |-> ret, raises |-> {}]
TheProtocols ==
    "Show" :> [params |-> <<"S">>, methods |-> <<Method("show", <<Param("S")>>, I64)>>, source |-> "m"]
    @@ "Eq" :> [params |-> <<"E">>, methods |-> <<>>, source |-> "m"]
    @@ "Conv" :> [params |-> <<"A", "B">>, methods |-> <<>>, source |-> "m"]
Aggregate(params, fields, affine, source) ==
    [params |-> params, fields |-> fields, affine |-> affine, source |-> source]
TheAggregates ==
    "Box" :> Aggregate(<<"T">>, <<T>>, FALSE, "m")
    @@ "Pair" :> Aggregate(<<"T", "U">>, <<T, U>>, FALSE, "m")
    @@ "Other" :> Aggregate(<<>>, <<I64>>, FALSE, "o")
    @@ "File" :> Aggregate(<<>>, <<I64>>, TRUE, "m")

Ext(id, params, protocol, args, uses) ==
    [id |-> id, params |-> params, protocol |-> protocol, args |-> args, uses |-> uses, source |-> "m",
     methods |-> IF protocol = "Show" /\ args # <<>> THEN <<Method("show", <<args[1]>>, I64)>> ELSE <<>>]
Show(t) == Req("Show", <<t>>)
Eq(t)   == Req("Eq", <<t>>)
E1  == Ext("e1", <<>>, "Show", <<I64>>, <<>>)
E2  == Ext("e2", <<"T2">>, "Show", <<Box(Param("T2"))>>, <<Show(Param("T2"))>>)
E3  == Ext("e3", <<"T3">>, "Show", <<Param("T3")>>, <<Eq(Param("T3"))>>)
E4  == Ext("e4", <<>>, "Show", <<Box(I64)>>, <<>>)
E5  == Ext("e5", <<"T5">>, "Show", <<Pair(Param("T5"), Param("T5"))>>, <<Show(Param("T5")), Show(Param("T5"))>>)
E6  == Ext("e6", <<"T6">>, "Show", <<Pair(Param("T6"), Box(Param("T6")))>>, <<Eq(Box(Param("T6")))>>)
E7  == Ext("e7", <<"T7", "U7">>, "Show", <<Pair(Param("T7"), Box(Param("U7")))>>, <<>>)
E8  == Ext("e8", <<>>, "Show", <<Bool>>, <<Eq(Bool)>>)
E9  == Ext("e9", <<>>, "Eq", <<Bool>>, <<Show(Bool)>>)
E10 == Ext("e10", <<"T10">>, "Eq", <<Param("T10")>>, <<Eq(Box(Param("T10")))>>)
E11 == Ext("e11", <<"T11">>, "Eq", <<Box(Param("T11"))>>, <<Show(Param("T11"))>>)
E12 == Ext("e12", <<"T12">>, "Conv", <<Param("T12"), Param("T12")>>, <<>>)
E13 == Ext("e13", <<"T13">>, "Conv", <<Box(Param("T13")), Param("T13")>>, <<>>)
E14 == Ext("e14", <<"T14">>, "Conv", <<Param("T14"), Box(I64)>>, <<>>)
\* Extensions that are refused: an unconstrained parameter, a resource, a
\* module without authority, a wrong arity, methods that do not fit.
Bad == {Ext("b1", <<"TB">>, "Show", <<I64>>, <<>>),
        Ext("b2", <<>>, "Show", <<Box(Named("File"))>>, <<>>),
        [Ext("b3", <<>>, "Show", <<I64>>, <<>>) EXCEPT !.source = "o"],
        Ext("b4", <<>>, "Conv", <<I64>>, <<>>),
        [Ext("b5", <<>>, "Show", <<I64>>, <<>>) EXCEPT !.methods = <<>>],
        [Ext("b6", <<>>, "Show", <<I64>>, <<>>) EXCEPT !.methods[1].raises = {"E"}],
        [Ext("b7", <<>>, "Show", <<I64>>, <<>>) EXCEPT !.methods = @ \o @],
        [Ext("b8", <<>>, "Show", <<I64>>, <<>>) EXCEPT !.methods[1].ret = Bool],
        Ext("b9", <<>>, "Show", <<I64>>, <<Req("Conv", <<I64>>)>>)}
Authorized == [Ext("o1", <<>>, "Show", <<Named("Other")>>, <<>>) EXCEPT !.source = "o"]

Good == <<E1, E2, E3, E4, E5, E6, E7, E8, E9, E10, E11, E12, E13, E14, Authorized>>
TheExtendLists ==
    UNION {{<<Good[i], Good[j], Good[k]>> : k \in (j + 1)..Len(Good)} :
             <<i, j>> \in {p \in (1..Len(Good)) \X (1..Len(Good)) : p[1] < p[2]}}
    \cup {<<e, b>> : e \in {E1, E4}, b \in Bad}
TheQueries ==
    {[req |-> r, own |-> <<>>] :
        r \in {Show(I64), Show(Box(I64)), Show(Box(Box(I64))), Show(Bool), Show(Pair(I64, Box(I64))),
               Show(Pair(Box(I64), Box(I64))), Eq(I64), Req("Conv", <<Box(I64), Box(I64)>>),
               Req("Conv", <<Box(I64), I64>>), Show(Named("Other"))}}
    \cup {[req |-> Show(T), own |-> <<Eq(T), Show(T)>>], [req |-> Show(Box(T)), own |-> <<Show(T)>>]}
=============================================================================
