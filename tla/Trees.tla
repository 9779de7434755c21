-------------------------------- MODULE Trees --------------------------------
(***************************************************************************)
(* The trees of the front end: syntax/ast.rs, what the parser builds, and  *)
(* hir/mod.rs, what name resolution makes of it.  In HIR every name is a   *)
(* number, and a number only means something if what it names is there:    *)
(* IsHir* takes the lowering whose tables the numbers refer to.            *)
(***************************************************************************)
EXTENDS Resolve

All(xs, P(_)) == \A i \in DOMAIN xs : P(xs[i])
\* What stands where a name is missing is a name too.
IsName(x) == x \in Idents \cup {"<error>"}
IsFlag(x) == x \in BOOLEAN

-----------------------------------------------------------------------------
(* syntax/ast.rs.                                                          *)

RECURSIVE IsType(_), IsPattern(_), IsExpr(_), IsBlock(_)
IsType(ty) == Len(ty) = 3 /\ ty[1] = "ty" /\ IsName(ty[2]) /\ All(ty[3], IsType)
IsPath(path) == path # <<>> /\ All(path, IsName)
IsUses(u) == Len(u) = 2 /\ IsPath(u[1]) /\ All(u[2], IsType)
IsParam(x) == Len(x) = 3 /\ IsFlag(x[1]) /\ IsName(x[2]) /\ IsType(x[3])
IsField(x) == IsParam(x)
IsCase(x) == Len(x) = 2 /\ IsName(x[1]) /\ All(x[2], IsType)
IsReturn(ty) == ty = <<>> \/ IsType(ty)
IsMember(x) == Len(x) = 3 /\ IsName(x[1]) /\ All(x[2], IsParam) /\ IsReturn(x[3])

IsPattern(x) ==
  CASE x[1] = "wild" -> Len(x) = 1
    [] x[1] = "bind" -> Len(x) = 2 /\ IsName(x[2])
    [] x[1] = "plit" -> Len(x) = 2 /\ x[2] \in Literals
    [] x[1] = "pcase" -> Len(x) = 3 /\ IsName(x[2]) /\ All(x[3], IsPattern)
    [] OTHER -> FALSE
IsFailurePattern(x) ==
  \/ x = <<"wild">>
  \/ Len(x) = 4 /\ x[1] = "fcase" /\ IsName(x[2]) /\ IsName(x[3]) /\ All(x[4], IsPattern)
IsMatchArm(a) == Len(a) = 3 /\ a[1] = "match" /\ IsPattern(a[2]) /\ IsExpr(a[3])
IsHandleArm(a) ==
  /\ Len(a) = 3 /\ a[1] \in {"success", "failure"} /\ IsExpr(a[3])
  /\ IF a[1] = "success" THEN IsPattern(a[2]) ELSE IsFailurePattern(a[2])
IsOptional(e) == e = None \/ IsExpr(e)
IsFieldInit(x) == Len(x) = 2 /\ IsName(x[1]) /\ IsExpr(x[2])
BinaryOps == DOMAIN Power \cup {"..", "..="}
IsElse(e) == e = None \/ (e[1] \in {"if", "block"} /\ IsExpr(e))
IsExpr(e) ==
  CASE e[1] \in {"continue", "error"} -> Len(e) = 1
    [] e[1] = "lit" -> e[2] \in Literals
    [] e[1] = "ident" -> IsName(e[2])
    [] e[1] \in {"paren", "try", "raise"} -> IsExpr(e[2])
    [] e[1] = "unary" -> e[2] \in PrefixOps /\ IsExpr(e[3])
    [] e[1] = "binary" -> e[2] \in BinaryOps /\ IsExpr(e[3]) /\ IsExpr(e[4])
    [] e[1] = "assign" -> e[2] \in AssignOps /\ IsExpr(e[3]) /\ IsExpr(e[4])
    [] e[1] = "call" -> IsExpr(e[2]) /\ All(e[3], IsExpr)
    [] e[1] = "field" -> IsExpr(e[2]) /\ IsName(e[3])
    [] e[1] = "cast" -> IsExpr(e[2]) /\ IsType(e[3])
    [] e[1] = "if" -> IsExpr(e[2]) /\ IsBlock(e[3]) /\ IsElse(e[4])
    [] e[1] = "match" -> IsExpr(e[2]) /\ All(e[3], IsMatchArm)
    [] e[1] = "handle" -> IsExpr(e[2]) /\ All(e[3], IsHandleArm)
    [] e[1] = "block" -> IsBlock(e)
    [] e[1] \in {"return", "break"} -> IsOptional(e[2])
    [] e[1] = "record" -> IsName(e[2]) /\ All(e[3], IsType) /\ All(e[4], IsFieldInit)
    [] e[1] = "apply" -> IsName(e[2]) /\ All(e[3], IsType)
    [] OTHER -> FALSE
IsBinding(s) == IsName(s[2]) /\ (s[3] = None \/ IsType(s[3])) /\ IsExpr(s[4])
IsStmt(s) ==
  CASE s[1] \in {"value", "mutable"} -> IsBinding(s)
    [] s[1] \in {"expr", "defer", "drop"} -> IsExpr(s[2])
    [] s[1] = "while" -> IsExpr(s[2]) /\ IsBlock(s[3])
    [] s[1] = "loop" -> IsBlock(s[2])
    [] s[1] = "observe" -> IsExpr(s[2]) /\ IsName(s[3]) /\ IsBlock(s[4])
    [] OTHER -> FALSE
IsBlock(b) == Len(b) = 3 /\ b[1] = "block" /\ All(b[2], IsStmt) /\ IsOptional(b[3])
IsFunction(x) ==
  /\ Len(x) = 9 /\ IsFlag(x[2]) /\ IsName(x[3]) /\ All(x[4], IsName) /\ All(x[5], IsParam)
  /\ IsReturn(x[6]) /\ All(x[7], IsUses) /\ All(x[8], IsName) /\ IsBlock(x[9])
IsItem(x) ==
  CASE x[1] = "func" -> IsFunction(x)
    [] x[1] \in {"record", "resource"} -> IsFlag(x[2]) /\ IsName(x[3]) /\ All(x[4], IsName) /\ All(x[5], IsField)
    [] x[1] = "variant" -> IsFlag(x[2]) /\ IsName(x[3]) /\ All(x[4], IsName) /\ All(x[5], IsCase)
    [] x[1] = "protocol" -> IsFlag(x[2]) /\ IsName(x[3]) /\ All(x[4], IsName) /\ All(x[5], IsMember)
    [] x[1] = "extend" -> All(x[2], IsName) /\ IsType(x[3]) /\ All(x[4], IsUses) /\ All(x[5], IsFunction)
    [] x[1] = "import" -> IsPath(x[2]) /\ All(x[3], IsName)
    [] OTHER -> FALSE

-----------------------------------------------------------------------------
(* hir/mod.rs.                                                             *)

IsLocal(l, n) == n \in 1..l.local
TypeItems(l) == {l.types[x][1] : x \in DOMAIN l.types}
RECURSIVE IsHirType(_, _), IsHirPattern(_, _), IsHirExpr(_, _), IsHirBlock(_, _)
AllIn(xs, P(_, _), l) == \A i \in DOMAIN xs : P(xs[i], l)
IsHirType(ty, l) ==
  CASE ty[1] = "param" -> ty[2] \in 1..l.tparam
    [] ty[1] = "unresolved" -> IsName(ty[2])
    [] ty[1] = "aggregate" -> ty[2] \in TypeItems(l) /\ AllIn(ty[3], IsHirType, l)
IsHirReturn(ty, l) == ty = None \/ IsHirType(ty, l)
IsHirPattern(x, l) ==
  CASE x[1] = "wild" -> TRUE
    [] x[1] = "bind" -> IsLocal(l, x[2]) /\ IsName(x[3])
    [] x[1] = "plit" -> x[2] \in Literals
    [] x[1] = "pcase" -> IsName(x[2]) /\ AllIn(x[3], IsHirPattern, l)
IsHirFailurePattern(x, l) ==
  \/ x = <<"wild">>
  \/ /\ x[1] = "fcase" /\ AllIn(x[4], IsHirPattern, l)
     /\ x[2] # None => x[2] \in DOMAIN l.cases
     /\ x[3] # None => x[2] # None /\ x[3] \in 1..Cardinality(DOMAIN l.cases[x[2]])
IsHirMatchArm(a, l) == IsHirPattern(a[2], l) /\ IsHirExpr(a[3], l)
IsHirHandleArm(a, l) ==
  /\ IF a[1] = "success" THEN IsHirPattern(a[2], l) ELSE IsHirFailurePattern(a[2], l)
  /\ IsHirExpr(a[3], l)
IsHirElse(e, l) == e = None \/ (e[1] \in {"if", "block"} /\ IsHirExpr(e, l))
IsHirExpr(e, l) ==
  CASE e[1] \in {"continue", "error"} -> TRUE
    [] e[1] = "lit" -> e[2] \in Literals
    [] e[1] = "local" -> IsLocal(l, e[2])
    [] e[1] = "function" -> (\E x \in DOMAIN l.fns : l.fns[x] = e[2]) /\ AllIn(e[3], IsHirType, l)
    [] e[1] = "method" -> e[3] \in {l.methods[e[2]][x] : x \in DOMAIN l.methods[e[2]]} /\ AllIn(e[4], IsHirType, l)
    [] e[1] = "case" -> e[3] \in 1..Cardinality(DOMAIN l.cases[e[2]]) /\ AllIn(e[4], IsHirType, l)
    [] e[1] \in {"try", "raise"} -> IsHirExpr(e[2], l)
    [] e[1] = "unary" -> e[2] \in PrefixOps /\ IsHirExpr(e[3], l)
    [] e[1] \in {"binary", "assign"} -> IsHirExpr(e[3], l) /\ IsHirExpr(e[4], l)
    [] e[1] = "call" -> IsHirExpr(e[2], l) /\ AllIn(e[3], IsHirExpr, l)
    [] e[1] = "field" -> IsHirExpr(e[2], l) /\ IsName(e[3])
    [] e[1] = "cast" -> IsHirExpr(e[2], l) /\ IsHirType(e[3], l)
    [] e[1] = "if" -> IsHirExpr(e[2], l) /\ IsHirBlock(e[3], l) /\ IsHirElse(e[4], l)
    [] e[1] = "match" -> IsHirExpr(e[2], l) /\ AllIn(e[3], IsHirMatchArm, l)
    [] e[1] = "handle" -> IsHirExpr(e[2], l) /\ AllIn(e[3], IsHirHandleArm, l)
    [] e[1] = "block" -> IsHirBlock(e, l)
    [] e[1] \in {"return", "break"} -> e[2] = None \/ IsHirExpr(e[2], l)
    [] e[1] = "record" -> /\ AllIn(e[3], IsHirType, l)
                          /\ \A i \in DOMAIN e[4] : /\ e[4][i][1] \in 1..Cardinality(DOMAIN l.fields[e[2]])
                                                    /\ IsHirExpr(e[4][i][2], l)
    [] OTHER -> FALSE
IsHirStmt(s, l) ==
  CASE s[1] = "bind" -> IsFlag(s[2]) /\ IsLocal(l, s[3]) /\ IsHirReturn(s[4], l) /\ IsHirExpr(s[5], l)
    [] s[1] \in {"expr", "defer", "drop"} -> IsHirExpr(s[2], l)
    [] s[1] = "while" -> IsHirExpr(s[2], l) /\ IsHirBlock(s[3], l)
    [] s[1] = "loop" -> IsHirBlock(s[2], l)
    [] s[1] = "observe" -> IsHirExpr(s[2], l) /\ IsLocal(l, s[3]) /\ IsHirBlock(s[4], l)
    [] OTHER -> FALSE
IsHirBlock(b, l) == Len(b) = 3 /\ AllIn(b[2], IsHirStmt, l) /\ (b[3] = None \/ IsHirExpr(b[3], l))
IsHirRequirement(r, l) ==
  (\E x \in DOMAIN l.protos : l.protos[x] = r[1]) /\ AllIn(r[2], IsHirType, l)
IsHirParam(x, l) == IsFlag(x.take) /\ IsLocal(l, x.local) /\ IsHirType(x.ty, l)
IsHirFunction(f, l) ==
  /\ f.id \in 1..l.next /\ IsName(f.name) /\ \A i \in DOMAIN f.tps : f.tps[i] \in 1..l.tparam
  /\ AllIn(f.params, IsHirParam, l) /\ IsHirReturn(f.ret, l) /\ AllIn(f.reqs, IsHirRequirement, l)
  /\ \A i \in DOMAIN f.raises : f.raises[i] \in DOMAIN l.cases
  /\ IsFlag(f.effects) /\ IsHirBlock(f.body, l)
IsHirField(x, l) == IsName(x.name) /\ IsFlag(x.public) /\ IsHirType(x.ty, l)
IsHirCase(x, l) == IsName(x.name) /\ AllIn(x.payload, IsHirType, l)
IsHirProtocolMethod(x, l) == IsName(x.name) /\ AllIn(x.params, IsHirType, l) /\ IsHirReturn(x.ret, l)
IsHirExtend(x, l) ==
  /\ x.protocol = None \/ (\E p \in DOMAIN l.protos : l.protos[p] = x.protocol)
  /\ AllIn(x.args, IsHirType, l) /\ AllIn(x.reqs, IsHirRequirement, l) /\ AllIn(x.methods, IsHirFunction, l)
IsHirItem(x, l) ==
  CASE x.kind = "func" -> IsHirFunction(x, l)
    [] x.kind = "record" -> IsFlag(x.affine) /\ AllIn(x.fields, IsHirField, l)
    [] x.kind = "variant" -> AllIn(x.cases, IsHirCase, l)
    [] x.kind = "protocol" -> AllIn(x.methods, IsHirProtocolMethod, l)
    [] x.kind = "extend" -> IsHirExtend(x, l)
=============================================================================
