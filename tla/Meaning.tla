------------------------------- MODULE Meaning -------------------------------
(***************************************************************************)
(* What a program means: the reference the checker is held to.  A module   *)
(* is run as written, on the syntax tree, with names looked up in the      *)
(* scopes that are open.  Numbers, characters and strings have no value    *)
(* but their kind, so that comparing two goes both ways; bools, records    *)
(* and cases are exact.  A run that does what the language gives no        *)
(* meaning to has gone wrong.                                              *)
(*                                                                         *)
(* An outcome [o, v, env] is a value, a control transfer with its value,   *)
(* or wrong; env is the open scopes, name -> [v, mutable].  A run out of   *)
(* fuel has no outcome.  Ownership is not followed: a drop or an observe   *)
(* reads its place, a defer is called where it stands.                     *)
(***************************************************************************)
EXTENDS Parser, FiniteSets, TLC

Kinds == {"int", "float", "string", "char"}
Scalar(k) == <<k>>
BoolV(b) == <<"bool", b>>
UnitV == <<"unit">>
Out(o, v, env) == [o |-> o, v |-> v, env |-> env]
Val(v, env) == {Out("value", v, env)}
WrongIn(env) == {Out("wrong", UnitV, env)}
\* What follows a value; any other outcome ends the phrase.
Then(outs, After(_, _)) == UNION {IF x.o = "value" THEN After(x.v, x.env) ELSE {x} : x \in outs}

-----------------------------------------------------------------------------
(* The module's items, and the types of values.                            *)

Items(m, kinds, name) == {i \in DOMAIN m : m[i][1] \in kinds /\ m[i][3] = name}
HasItem(m, kinds, name) == Items(m, kinds, name) # {}
Item(m, kinds, name) == m[CHOOSE i \in Items(m, kinds, name) : TRUE]
Records == {"record", "resource"}
CaseOf(variant, name) == {i \in DOMAIN variant[5] : variant[5][i][1] = name}
\* The variants with a case of that name.
Owners(m, name) == {i \in DOMAIN m : m[i][1] = "variant" /\ CaseOf(m[i], name) # {}}

AnyType == <<"ty", "any", <<>>>>
RECURSIVE SubstType(_, _)
SubstType(ty, s) ==
  IF ty[2] \in DOMAIN s THEN s[ty[2]]
  ELSE <<"ty", ty[2], [i \in DOMAIN ty[3] |-> SubstType(ty[3][i], s)]>>
\* The arguments given for the parameters; those not given may be any type.
Instance(tparams, args) ==
  [p \in {tparams[i] : i \in DOMAIN tparams} |->
     LET i == CHOOSE i \in DOMAIN tparams : tparams[i] = p IN IF i <= Len(args) THEN args[i] ELSE AnyType]
PrimitiveKinds == [i64 |-> "int", f64 |-> "float", bool |-> "bool", char |-> "char", str |-> "string", unit |-> "unit"]
RECURSIVE HasType(_, _, _), AllHaveType(_, _, _)
AllHaveType(m, vs, tys) == Len(vs) = Len(tys) /\ \A i \in DOMAIN tys : HasType(m, vs[i], tys[i])
HasType(m, v, ty) ==
  IF ty = AnyType THEN TRUE
  ELSE IF ty[2] \in DOMAIN PrimitiveKinds THEN v[1] = PrimitiveKinds[ty[2]]
  ELSE IF HasItem(m, Records, ty[2]) THEN
         LET r == Item(m, Records, ty[2])
         IN /\ v[1] = "rec" /\ v[2] = ty[2]
            /\ \A i \in DOMAIN r[5] : HasType(m, v[3][r[5][i][2]], SubstType(r[5][i][3], Instance(r[4], ty[3])))
  ELSE IF HasItem(m, {"variant"}, ty[2]) THEN
         LET d == Item(m, {"variant"}, ty[2])
         IN /\ v[1] = "case" /\ v[2] = ty[2]
            /\ \A i \in CaseOf(d, v[3]) :
                 AllHaveType(m, v[4], [j \in DOMAIN d[5][i][2] |-> SubstType(d[5][i][2][j], Instance(d[4], ty[3]))])
  ELSE FALSE

-----------------------------------------------------------------------------
(* Scopes.                                                                 *)

Where(env, x) == {i \in DOMAIN env : x \in DOMAIN env[i]}
Nearest(env, x) == CHOOSE i \in Where(env, x) : \A j \in Where(env, x) : j <= i
Declare(env, x, v, mutable) == [env EXCEPT ![Len(env)] = (x :> [v |-> v, mutable |-> mutable]) @@ @]
Leave(outs, n) == {[x EXCEPT !.env = SubSeq(@, 1, n)] : x \in outs}
RECURSIVE DeclareAll(_, _)
DeclareAll(env, binds) ==
  IF binds = <<>> THEN env ELSE DeclareAll(Declare(env, binds[1][1], binds[1][2], FALSE), Tail(binds))

\* The ways a pattern may take a value: refused, or with the names it binds.
RECURSIVE Matching(_, _, _), MatchingAll(_, _, _)
Take(binds) == [m |-> "yes", b |-> binds]
Miss == [m |-> "no", b |-> <<>>]
Bad == [m |-> "bad", b |-> <<>>]
MatchingAll(m, pats, vs) ==
  IF pats = <<>> THEN {Take(<<>>)}
  ELSE UNION {IF x.m # "yes" THEN {x}
              ELSE {IF y.m = "yes" THEN Take(x.b \o y.b) ELSE y : y \in MatchingAll(m, Tail(pats), Tail(vs))} :
                x \in Matching(m, pats[1], vs[1])}
Matching(m, pat, v) ==
  LET variant == Item(m, {"variant"}, v[2])
      bare == v[1] = "case" /\ \E i \in CaseOf(variant, pat[2]) : variant[5][i][2] = <<>>
  IN CASE pat[1] = "wild" -> {Take(<<>>)}
       [] pat[1] = "bind" -> IF bare THEN {IF v[3] = pat[2] THEN Take(<<>>) ELSE Miss}
                             ELSE {Take(<<<<pat[2], v>>>>)}
       [] pat[1] = "plit" -> IF pat[2] \in {"true", "false"}
                             THEN {IF v[1] # "bool" THEN Bad
                                   ELSE IF v[2] = (pat[2] = "true") THEN Take(<<>>) ELSE Miss}
                             ELSE IF v[1] # pat[2] THEN {Bad} ELSE {Take(<<>>), Miss}
       [] pat[1] = "pcase" -> IF v[1] # "case" THEN {Bad}
                              ELSE IF CaseOf(variant, pat[2]) = {} THEN {Bad}
                              ELSE IF v[3] # pat[2] THEN {Miss}
                              ELSE IF Len(v[4]) # Len(pat[3]) THEN {Bad}
                              ELSE MatchingAll(m, pat[3], v[4])
       [] pat[1] = "fcase" -> IF v[2] # pat[2] \/ v[3] # pat[3] THEN {Miss}
                              ELSE IF Len(v[4]) # Len(pat[4]) THEN {Bad}
                              ELSE MatchingAll(m, pat[4], v[4])

-----------------------------------------------------------------------------
(* Expressions.  p is [m: the items, raises: what the function may raise]. *)

Compared(op, a, b, env) ==
  CASE a[1] # b[1] -> WrongIn(env)
    [] a[1] = b[1] /\ a[1] \in {"rec", "case"} -> WrongIn(env)
    [] a[1] = b[1] /\ a[1] = "unit" -> IF op \in {"==", "!="} THEN Val(BoolV(op = "=="), env) ELSE WrongIn(env)
    [] a[1] = b[1] /\ a[1] = "bool" /\ op \in {"==", "!="} -> Val(BoolV((a = b) = (op = "==")), env)
    [] OTHER -> Val(BoolV(TRUE), env) \cup Val(BoolV(FALSE), env)
Applied(op, a, b, env) ==
  CASE op \in {"==", "!=", "<", "<=", ">", ">="} -> Compared(op, a, b, env)
    [] op \in {"+", "-", "*", "/", "%"} -> IF a = b /\ a[1] \in {"int", "float"} THEN Val(a, env) ELSE WrongIn(env)
    [] op \in {"&", "|", "^", "<<", ">>"} -> IF a = b /\ a[1] = "int" THEN Val(a, env) ELSE WrongIn(env)
    [] OTHER -> WrongIn(env)
Negated(op, v, env) ==
  CASE op = "-" /\ v[1] \in {"int", "float"} -> Val(v, env)
    [] op = "~" /\ v[1] = "int" -> Val(v, env)
    [] op = "!" /\ v[1] = "bool" -> Val(BoolV(~v[2]), env)
    [] OTHER -> WrongIn(env)
Assigned(op, x, v, env) ==
  LET i == Nearest(env, x)
  IN IF Where(env, x) = {} THEN WrongIn(env)
     ELSE IF ~env[i][x].mutable \/ env[i][x].v[1] # v[1] THEN WrongIn(env)
     ELSE IF op # "=" /\ v[1] \notin {"int", "float"} THEN WrongIn(env)
     ELSE Val(UnitV, [env EXCEPT ![i][x].v = v])

RECURSIVE Run(_, _, _, _), RunAll(_, _, _, _), RunBlock(_, _, _, _), RunStmts(_, _, _, _),
          RunArms(_, _, _, _, _), Loop(_, _, _, _, _), Called(_, _, _, _)

RunAll(p, es, env, fuel) ==
  IF es = <<>> THEN Val(<<>>, env)
  ELSE Then(Run(p, es[1], env, fuel), LAMBDA v, env1 :
         Then(RunAll(p, Tail(es), env1, fuel), LAMBDA vs, env2 : Val(<<v>> \o vs, env2)))

\* The body of a function on its arguments; what it raises comes back as raised.
Body(p, f, s, args, env, fuel) ==
  LET params == [i \in DOMAIN f[5] |-> SubstType(f[5][i][3], s)]
      ret == IF f[6] = <<>> THEN <<"ty", "unit", <<>>>> ELSE SubstType(f[6], s)
      scope == DeclareAll(<<[x \in {} |-> 0]>>, [i \in DOMAIN args |-> <<f[5][i][2], args[i]>>])
      outs == RunBlock([p EXCEPT !.raises = f[8]], f[9], scope, fuel - 1)
      Ended(x) == CASE x.o \in {"value", "return"} -> IF HasType(p.m, x.v, ret) THEN Out("value", x.v, env)
                                                      ELSE Out("wrong", UnitV, env)
                    [] x.o = "raise" -> Out("raised", x.v, env)
                    [] OTHER -> Out("wrong", UnitV, env)
  IN IF ~AllHaveType(p.m, args, params) THEN WrongIn(env)
     ELSE IF fuel = 0 THEN {}
     ELSE {Ended(x) : x \in outs}
MakeCase(p, i, name, args, env) ==
  LET d == p.m[i]
      fits == \E j \in CaseOf(d, name) :
                AllHaveType(p.m, args, [k \in DOMAIN d[5][j][2] |-> SubstType(d[5][j][2][k], Instance(d[4], <<>>))])
  IN IF fits THEN Val(<<"case", d[3], name, args>>, env) ELSE WrongIn(env)
\* A method goes to an extension of the protocol whose method takes the arguments.
Dispatch(p, protocol, name, args, env, fuel) ==
  LET Free(e) == Instance(e[2], <<>>)
      fits == {x \in (DOMAIN p.m) \X (1..3) :
                 /\ p.m[x[1]][1] = "extend" /\ p.m[x[1]][3][2] = protocol
                 /\ x[2] \in DOMAIN p.m[x[1]][5]
                 /\ LET e == p.m[x[1]]
                        f == e[5][x[2]]
                    IN /\ f[3] = name
                       /\ AllHaveType(p.m, args, [i \in DOMAIN f[5] |-> SubstType(f[5][i][3], Free(e))])}
  IN IF fits = {} THEN WrongIn(env)
     ELSE UNION {Body(p, p.m[x[1]][5][x[2]], Free(p.m[x[1]]), args, env, fuel) : x \in fits}
\* Whether a callee names an item, for no open scope has the name.
Global(env, e) == e[1] \in {"ident", "apply"} /\ Where(env, e[2]) = {}
Called(p, callee, pair, fuel) ==
  LET args == pair[1]
      env == pair[2]
      isItem(kinds, e) == Global(env, e) /\ HasItem(p.m, kinds, e[2])
      tys == IF callee[1] = "apply" THEN callee[3] ELSE <<>>
      f == Item(p.m, {"func"}, callee[2])
  IN CASE isItem({"func"}, callee) -> Body(p, f, Instance(f[4], tys), args, env, fuel)
       [] Global(env, callee) /\ ~HasItem(p.m, {"func"}, callee[2]) ->
            IF Owners(p.m, callee[2]) = {} THEN WrongIn(env)
            ELSE UNION {MakeCase(p, i, callee[2], args, env) : i \in Owners(p.m, callee[2])}
       [] callee[1] = "field" ->
            IF isItem({"variant"}, callee[2])
            THEN UNION {MakeCase(p, i, callee[3], args, env) : i \in Items(p.m, {"variant"}, callee[2][2])}
            ELSE IF isItem({"protocol"}, callee[2]) THEN Dispatch(p, callee[2][2], callee[3], args, env, fuel)
            ELSE WrongIn(env)
       [] OTHER -> WrongIn(env)
RunCall(p, e, env, fuel) ==
  Then(RunAll(p, e[3], env, fuel), LAMBDA args, env1 : Called(p, e[2], <<args, env1>>, fuel))
\* Failures that reach a place with no try and no handle.
Unhandled(outs) == {IF x.o = "raised" THEN [x EXCEPT !.o = "wrong"] ELSE x : x \in outs}
Propagated(p, outs) ==
  {IF x.o # "raised" THEN x
   ELSE [x EXCEPT !.o = IF \E i \in DOMAIN p.raises : p.raises[i] = x.v[2] THEN "raise" ELSE "wrong"] : x \in outs}

\* The first arm of the kind that takes the value.
RunArms(p, arms, v, env, fuel) ==
  IF arms = <<>> THEN WrongIn(env)
  ELSE UNION {CASE x.m = "bad" -> WrongIn(env)
                [] x.m = "no" -> RunArms(p, Tail(arms), v, env, fuel)
                [] OTHER -> Leave(Run(p, arms[1][3], DeclareAll(Append(env, [y \in {} |-> 0]), x.b), fuel), Len(env)) :
                x \in Matching(p.m, arms[1][2], v)}
ArmsOf(arms, kind) == SelectSeq(arms, LAMBDA a : a[1] = kind)
RunHandle(p, e, env, fuel) ==
  UNION {CASE x.o = "value" -> RunArms(p, ArmsOf(e[3], "success"), x.v, x.env, fuel)
           [] x.o = "raised" -> RunArms(p, ArmsOf(e[3], "failure"), x.v, x.env, fuel)
           [] OTHER -> {x} : x \in RunCall(p, e[2], env, fuel)}

RunRecord(p, e, env, fuel) ==
  LET r == Item(p.m, Records, e[2])
      names == [i \in DOMAIN e[4] |-> e[4][i][1]]
      Of(vs, x) == vs[CHOOSE i \in DOMAIN names : names[i] = x]
      declared == {r[5][i][2] : i \in DOMAIN r[5]}
      Made(vs, env1) ==
        LET v == <<"rec", e[2], [x \in declared |-> Of(vs, x)]>>
        IN IF HasType(p.m, v, <<"ty", e[2], e[3]>>) THEN Val(v, env1) ELSE WrongIn(env1)
  IN IF ~HasItem(p.m, Records, e[2]) THEN WrongIn(env)
     ELSE IF {names[i] : i \in DOMAIN names} # declared THEN WrongIn(env)
     ELSE Then(RunAll(p, [i \in DOMAIN e[4] |-> e[4][i][2]], env, fuel), Made)
FieldOf(v, x, env) ==
  IF v[1] # "rec" THEN WrongIn(env) ELSE IF x \notin DOMAIN v[3] THEN WrongIn(env) ELSE Val(v[3][x], env)

\* A loop: each turn with one unit of fuel less.
Loop(p, cond, body, env, fuel) ==
  LET Turn(env1) == UNION {CASE x.o \in {"value", "continue"} -> Loop(p, cond, body, x.env, fuel - 1)
                             [] x.o = "break" -> Val(UnitV, x.env)
                             [] OTHER -> {x} : x \in RunBlock(p, body, env1, fuel)}
  IN IF fuel = 0 THEN {}
     ELSE IF cond = None THEN Turn(env)
     ELSE Then(Run(p, cond, env, fuel), LAMBDA v, env1 :
            IF v[1] # "bool" THEN WrongIn(env1) ELSE IF v[2] THEN Turn(env1) ELSE Val(UnitV, env1))
RunStmt(p, s, env, fuel) ==
  CASE s[1] \in {"value", "mutable"} ->
         Then(Run(p, s[4], env, fuel), LAMBDA v, env1 : Val(UnitV, Declare(env1, s[2], v, s[1] = "mutable")))
    [] s[1] \in {"expr", "defer", "drop"} -> Run(p, s[2], env, fuel)
    [] s[1] = "while" -> Loop(p, s[2], s[3], env, fuel)
    [] s[1] = "loop" -> Loop(p, None, s[2], env, fuel)
    [] s[1] = "observe" ->
         Then(Run(p, s[2], env, fuel), LAMBDA v, env1 :
           Leave(RunBlock(p, s[4], Declare(Append(env1, [x \in {} |-> 0]), s[3], v, FALSE), fuel), Len(env1)))
RunStmts(p, stmts, env, fuel) ==
  IF stmts = <<>> THEN Val(UnitV, env)
  ELSE Then(RunStmt(p, stmts[1], env, fuel), LAMBDA v, env1 : RunStmts(p, Tail(stmts), env1, fuel))
RunBlock(p, b, env, fuel) ==
  Leave(Then(RunStmts(p, b[2], Append(env, [x \in {} |-> 0]), fuel), LAMBDA v, env1 :
          IF b[3] = None THEN Val(UnitV, env1) ELSE Run(p, b[3], env1, fuel)), Len(env))

\* return, break and raise, with the value they carry.
Transfer(p, o, e, env, fuel) ==
  IF e = None THEN {Out(o, UnitV, env)}
  ELSE Then(Run(p, e, env, fuel), LAMBDA v, env1 : {Out(o, v, env1)})
RunIdent(p, x, env) ==
  IF Where(env, x) # {} THEN Val(env[Nearest(env, x)][x].v, env)
  ELSE IF HasItem(p.m, {"func"}, x) \/ Owners(p.m, x) = {} THEN WrongIn(env)
  ELSE UNION {MakeCase(p, i, x, <<>>, env) : i \in Owners(p.m, x)}
RunIf(p, e, env, fuel) ==
  Then(Run(p, e[2], env, fuel), LAMBDA v, env1 :
    IF v[1] # "bool" THEN WrongIn(env1)
    ELSE IF v[2] THEN IF e[4] = None THEN Then(Run(p, e[3], env1, fuel), LAMBDA w, env2 : Val(UnitV, env2))
                      ELSE Run(p, e[3], env1, fuel)
    ELSE IF e[4] = None THEN Val(UnitV, env1) ELSE Run(p, e[4], env1, fuel))
\* && and || look at the right operand only when the left does not decide.
RunLogical(p, e, env, fuel) ==
  Then(Run(p, e[3], env, fuel), LAMBDA a, env1 :
    IF a[1] # "bool" THEN WrongIn(env1)
    ELSE IF a[2] = (e[2] = "||") THEN Val(a, env1)
    ELSE Then(Run(p, e[4], env1, fuel), LAMBDA b, env2 : IF b[1] = "bool" THEN Val(b, env2) ELSE WrongIn(env2)))
Run(p, e, env, fuel) ==
  CASE e[1] = "lit" -> Val(IF e[2] \in Kinds THEN Scalar(e[2]) ELSE BoolV(e[2] = "true"), env)
    [] e[1] = "ident" -> RunIdent(p, e[2], env)
    [] e[1] = "paren" -> Run(p, e[2], env, fuel)
    [] e[1] = "unary" -> Then(Run(p, e[3], env, fuel), LAMBDA v, env1 : Negated(e[2], v, env1))
    [] e[1] = "binary" /\ e[2] \in {"&&", "||"} -> RunLogical(p, e, env, fuel)
    [] e[1] = "binary" /\ e[2] \notin {"&&", "||"} ->
         Then(RunAll(p, <<e[3], e[4]>>, env, fuel), LAMBDA vs, env1 : Applied(e[2], vs[1], vs[2], env1))
    [] e[1] = "assign" -> Then(Run(p, e[4], env, fuel), LAMBDA v, env1 :
                            IF e[3][1] = "ident" THEN Assigned(e[2], e[3][2], v, env1) ELSE Val(UnitV, env1))
    [] e[1] = "call" -> Unhandled(RunCall(p, e, env, fuel))
    [] e[1] = "try" -> IF e[2][1] = "call" THEN Propagated(p, RunCall(p, e[2], env, fuel)) ELSE WrongIn(env)
    [] e[1] = "handle" -> IF e[2][1] = "call" THEN RunHandle(p, e, env, fuel) ELSE WrongIn(env)
    [] e[1] = "field" -> IF Global(env, e[2]) /\ HasItem(p.m, {"variant"}, e[2][2])
                         THEN UNION {MakeCase(p, i, e[3], <<>>, env) : i \in Items(p.m, {"variant"}, e[2][2])}
                         ELSE Then(Run(p, e[2], env, fuel), LAMBDA v, env1 : FieldOf(v, e[3], env1))
    [] e[1] = "if" -> RunIf(p, e, env, fuel)
    [] e[1] = "match" -> Then(Run(p, e[2], env, fuel), LAMBDA v, env1 : RunArms(p, e[3], v, env1, fuel))
    [] e[1] = "block" -> RunBlock(p, e, env, fuel)
    [] e[1] = "record" -> RunRecord(p, e, env, fuel)
    [] e[1] = "return" -> Transfer(p, "return", e[2], env, fuel)
    [] e[1] = "break" -> Transfer(p, "break", e[2], env, fuel)
    [] e[1] = "continue" -> {Out("continue", UnitV, env)}
    [] e[1] = "raise" -> Then(Run(p, e[2], env, fuel), LAMBDA v, env1 :
                           IF v[1] = "case" THEN Propagated(p, {Out("raised", v, env1)}) ELSE WrongIn(env1))
    [] OTHER -> WrongIn(env)

-----------------------------------------------------------------------------
(* Every function, on every argument its types allow.                      *)

RECURSIVE Samples(_, _, _), SampleTuples(_, _, _)
SampleTuples(m, tys, depth) ==
  IF tys = <<>> THEN {<<>>}
  ELSE {<<v>> \o vs : v \in Samples(m, tys[1], depth), vs \in SampleTuples(m, Tail(tys), depth)}
Samples(m, ty, depth) ==
  IF ty = AnyType THEN {Scalar("int"), BoolV(TRUE)}
  ELSE IF ty[2] = "bool" THEN {BoolV(TRUE), BoolV(FALSE)}
  ELSE IF ty[2] \in DOMAIN PrimitiveKinds \ {"bool"} THEN {<<PrimitiveKinds[ty[2]]>>}
  ELSE IF HasItem(m, Records, ty[2]) /\ depth > 0 THEN
         LET r == Item(m, Records, ty[2])
             s == Instance(r[4], ty[3])
             At(i) == CHOOSE j \in DOMAIN r[5] : r[5][j][2] = i
         IN {<<"rec", ty[2], [x \in {r[5][i][2] : i \in DOMAIN r[5]} |-> vs[At(x)]]>> :
               vs \in SampleTuples(m, [i \in DOMAIN r[5] |-> SubstType(r[5][i][3], s)], depth - 1)}
  ELSE IF HasItem(m, {"variant"}, ty[2]) /\ depth > 0 THEN
         LET d == Item(m, {"variant"}, ty[2])
             s == Instance(d[4], ty[3])
         IN UNION {{<<"case", ty[2], d[5][i][1], vs>> :
                      vs \in SampleTuples(m, [j \in DOMAIN d[5][i][2] |-> SubstType(d[5][i][2][j], s)], depth - 1)} :
                     i \in DOMAIN d[5]}
  ELSE {}
\* A function that asks for capabilities runs only where it is called.
GoesWrong(m, depth, fuel) ==
  \E i \in DOMAIN m :
    /\ m[i][1] = "func" /\ m[i][7] = <<>>
    /\ LET s == Instance(m[i][4], <<>>)
           tys == [j \in DOMAIN m[i][5] |-> SubstType(m[i][5][j][3], s)]
       IN \E args \in SampleTuples(m, tys, depth) :
            \E x \in Body([m |-> m, raises |-> <<>>], m[i], s, args, <<>>, fuel) : x.o = "wrong"
=============================================================================
