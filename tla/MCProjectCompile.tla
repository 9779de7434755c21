-------------------------- MODULE MCProjectCompile --------------------------
(***************************************************************************)
(* Instances of ProjectCompile, and of the loader inside it, for TLC: four *)
(* modules in every import graph, three of them in every graph with self-  *)
(* imports and in every layout of files, and what their sources may hold.  *)
(***************************************************************************)
EXTENDS ProjectCompile

CONSTANTS MaxImports

(* Lists of at most MaxImports distinct modules out of S. *)
Lists(S) ==
    UNION {{l \in [1..n -> S] : IsInjective(l)} : n \in 0..MaxImports}

Distinct == [m \in Modules |-> m]
Close3 == {1, 2, 3}

Apart(g) == \A m \in DOMAIN g : m \notin ToSet(g[m])
Alone(g) == [m \in Modules |-> IF m \in DOMAIN g THEN g[m] ELSE <<>>]

(* The graphs over Close3, module 4 unused, those without self-imports,    *)
(* and those of four modules in which who imports is imported.             *)
Small == {Alone(g) : g \in [Close3 -> Lists(Close3)]}
SmallApart == {g \in Small : Apart(g)}
Large ==
    {g \in [Modules -> Lists(Modules)] :
        /\ Apart(g)
        /\ \A m \in Modules \ {Entry} :
            g[m] = <<>> \/ \E n \in Modules : m \in ToSet(g[n])}

(* Files missing, outside the root or shared, by their first module. *)
AnyLayout ==
    [manifest : {"ok"},
     file : {f @@ Distinct : f \in {h \in [Close3 -> Close3 \cup {Missing, Outside}] :
                \A m \in Close3 : h[m] \in Files => h[m] <= m}},
     fold : {Distinct, [Distinct EXCEPT ![1] = 3]},
     unreadable : {{}, {1}}, malformed : {{}, {1}}]

(* One of: an unreadable file, a malformed one, names equal but for their  *)
(* case.                                                                   *)
Layouts ==
    {l \in AnyLayout :
        \/ l.fold = Distinct /\ {} \in {l.unreadable, l.malformed}
        \/ l.unreadable = {} /\ l.malformed = {}}

InPlace ==
    [manifest : {"ok", "INVALID_MANIFEST", "INVALID_PROJECT_PATH"},
     file : {Distinct}, fold : {Distinct},
     unreadable : {{}}, malformed : {{}}]

Project(g, l) ==
    [manifest |-> l.manifest, imports |-> g, file |-> l.file, fold |-> l.fold,
     unreadable |-> l.unreadable, malformed |-> l.malformed]

MCProjects ==
    {Project(r[1], r[2]) :
        r \in (SmallApart \X Layouts) \cup (Small \X InPlace)
              \cup (Large \X {l \in InPlace : l.manifest = "ok"})}

Plain == [mains |-> 1, unresolved |-> {}, faulty |-> {}, refused |-> FALSE]

Varying ==
    {s \in [mains : 0..2, unresolved : SUBSET Close3,
            faulty : SUBSET {1}, refused : BOOLEAN] :
        (s.mains # 1 \/ s.refused) => s.unresolved = {} /\ s.faulty = {}}

(* The sources vary over the graphs of three modules that are in place. *)
MCSources(p) ==
    IF /\ p.manifest = "ok" /\ p.imports[4] = <<>> /\ Apart(p.imports)
       /\ 4 \notin UNION {ToSet(p.imports[m]) : m \in Close3}
       /\ p.file = Distinct /\ p.fold = Distinct
       /\ p.unreadable = {} /\ p.malformed = {}
    THEN Varying ELSE {Plain}
=============================================================================
