--------------------------- MODULE ProjectCompile ---------------------------
(***************************************************************************)
(* Compiling a loaded project (compiler/src/project/mod.rs                 *)
(* compile_project, validate_entry_main; compiler/src/project/resolve.rs   *)
(* resolve_imports): modules are lowered one by one in the order of the    *)
(* loader, each against the modules it imports; a module whose imports do  *)
(* not resolve is left out, and so is, silently, all that depends on it.   *)
(* Then all modules are merged, and checked as one.                        *)
(*                                                                         *)
(* What the sources hold is an input:                                      *)
(*   mains       how many functions named main the entry module declares   *)
(*   unresolved  modules with an import that names no module part, or a    *)
(*               private item, an import of the target's, or no item       *)
(*   faulty      modules whose lowering leaves diagnostics                 *)
(*   refused     the merged module fails a later pass (typeck, resourceck, *)
(*               NIR lowering or NIR verification)                         *)
(***************************************************************************)
EXTENDS ProjectLoader

CONSTANTS Sources(_)     \* what an instance lets the sources of a project hold

SourcesType == [mains : Nat, unresolved : SUBSET Modules,
                faulty : SUBSET Modules, refused : BOOLEAN]

ASSUME SourcesAssumption ==
    \A p \in Projects : Sources(p) \subseteq SourcesType

VARIABLES
    sources,
    phase,                 \* of compile_project, "load" until load_project returns
    next,                  \* the position in `order' of the next module
    lowered, failed,       \* lowered_by_module, failed_modules
    reports,               \* who has diagnostics of its own
    merged

compiling == <<next, lowered, failed, reports, merged>>
compileVars == <<vars, sources, phase, compiling>>

CompileInit ==
    /\ Init
    /\ sources \in Sources(project)
    /\ phase = "load"
    /\ next = 1
    /\ lowered = {} /\ failed = {} /\ reports = {}
    /\ merged = <<>>

Load ==
    /\ phase = "load"
    /\ Next
    /\ UNCHANGED <<sources, phase, compiling>>

LoadReturns ==
    /\ phase = "load"
    /\ stage \in Final
    /\ phase' = IF stage = "loaded" THEN "main" ELSE stage
    /\ UNCHANGED <<vars, sources, compiling>>

validate_entry_main ==
    /\ phase = "main"
    /\ IF sources.mains = 1
       THEN phase' = "lower" /\ UNCHANGED reports
       ELSE phase' = "rejected" /\ reports' = {Entry}
    /\ UNCHANGED <<vars, sources, next, lowered, failed, merged>>
----------------------------------------------------------------------------
(* The loop over the modules. *)

current == order[next]

depends_on_failed_module(m) == edges(m) \cap failed # {}

(* A target that was not lowered is a diagnostic too, "defense in depth". *)
resolve_imports(m) == m \notin sources.unresolved /\ edges(m) \subseteq lowered

Turn ==
    /\ phase = "lower"
    /\ next <= Len(order)
    /\ next' = next + 1
    /\ UNCHANGED <<vars, sources, phase, merged>>

SkipDependent ==
    /\ Turn
    /\ depends_on_failed_module(current)
    /\ failed' = failed \cup {current}
    /\ UNCHANGED <<lowered, reports>>

\* Mutant of RefuseImports: the diagnostics are dropped.
RefuseSilently ==
    /\ Turn
    /\ ~depends_on_failed_module(current)
    /\ ~resolve_imports(current)
    /\ failed' = failed \cup {current}
    /\ UNCHANGED <<lowered, reports>>

RefuseImports ==
    /\ Turn
    /\ ~depends_on_failed_module(current)
    /\ ~resolve_imports(current)
    /\ failed' = failed \cup {current}
    /\ reports' = reports \cup {current}
    /\ UNCHANGED lowered

LowerModule ==
    /\ Turn
    /\ ~depends_on_failed_module(current)
    /\ resolve_imports(current)
    /\ lowered' = lowered \cup {current}
    /\ reports' = reports \cup ({current} \cap sources.faulty)
    /\ UNCHANGED failed

(* `expect("every discovered module was lowered above")'.                  *)
Merge ==
    /\ phase = "lower"
    /\ next > Len(order)
    /\ phase' = IF reports # {} THEN "rejected"
                ELSE IF ToSet(order) \subseteq lowered THEN "check"
                ELSE "panicked"
    /\ merged' = IF reports = {} THEN order ELSE merged
    /\ UNCHANGED <<vars, sources, next, lowered, failed, reports>>

(* The remaining passes, each of which returns its diagnostics if any. *)
CheckMerged ==
    /\ phase = "check"
    /\ phase' = IF sources.refused THEN "rejected" ELSE "compiled"
    /\ UNCHANGED <<vars, sources, compiling>>

CompileNext ==
    \/ Load
    \/ LoadReturns
    \/ validate_entry_main
    \/ SkipDependent
    \/ RefuseImports
    \/ LowerModule
    \/ Merge
    \/ CheckMerged

(* compile_project is one sequential call. *)
CompileSpec ==
    CompileInit /\ [][CompileNext]_compileVars /\ WF_compileVars(CompileNext)
----------------------------------------------------------------------------
(* The module m, or one it imports directly or not, is in S. *)
DependsOn(m, S) ==
    \A C \in SUBSET Modules :
        (m \in C /\ \A n \in C : Imports(n) \subseteq C) => C \cap S # {}

(* A failure is reported once, at its root: in every step of the loop the  *)
(* modules left out are those that depend on one whose imports do not      *)
(* resolve, and of these only the ones with no such dependency of their    *)
(* own have a diagnostic; every module lowered had all its imports lowered *)
(* before, so the lookup of a dependency never fails.                      *)
RootCauseReported ==
    phase \in {"lower", "check", "compiled"} =>
        LET done == {order[i] : i \in 1..(next - 1)}
            roots == {m \in done \cap sources.unresolved :
                        \A n \in Imports(m) : ~DependsOn(n, sources.unresolved)}
        IN  /\ failed = {m \in done : DependsOn(m, sources.unresolved)}
            /\ reports = roots \cup (lowered \cap sources.faulty)
            /\ lowered = done \ failed
            /\ \A m \in lowered : Imports(m) \subseteq lowered

(* "an empty `diagnostics` here implies an empty `failed_modules`, which   *)
(* implies every discovered module was actually lowered": the merge never  *)
(* panics, and a project is compiled only when every module reachable on   *)
(* disk was merged after all that it imports and nothing was wrong         *)
(* anywhere.                                                               *)
CompiledWhole ==
    /\ phase # "panicked"
    /\ phase = "compiled" =>
        /\ Sound /\ sources.mains = 1
        /\ Reachable \cap (sources.unresolved \cup sources.faulty) = {}
        /\ ToSet(merged) = Reachable /\ DependencyFirst(merged)

(* At every step of the loop over the modules, and at its end, what is     *)
(* left out and what is merged is decided by what is wrong on disk alone.  *)
CompiledOnMerit == RootCauseReported /\ CompiledWhole

(* Every compilation ends, with a module or a refusal, and refuses only    *)
(* when there is something to refuse.                                      *)
Acceptable ==
    /\ Sound /\ LeadsToCycle = {} /\ sources.mains = 1 /\ ~sources.refused
    /\ Reachable \cap (sources.unresolved \cup sources.faulty) = {}

EveryCompilationEnds ==
    <>(phase = IF Acceptable THEN "compiled" ELSE "rejected")
============================================================================
