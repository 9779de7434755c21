--------------------------- MODULE ProjectLoader ---------------------------
(***************************************************************************)
(* Loading a project (compiler/src/project/loader.rs load_project and      *)
(* topological_order): from the entry module the loader follows imports    *)
(* with a worklist, refuses what is missing, outside of the source root,   *)
(* ambiguous by case or loaded under two names, then orders the modules    *)
(* with dependencies first or names one cycle.                             *)
(*                                                                         *)
(* A module is its dotted path, a number: the order of numbers is the      *)
(* order of paths.  A ModuleId is a position in `modules', the order of    *)
(* discovery.  The project on disk is an input:                            *)
(*   manifest    "ok", or the code load_project fails with on account of   *)
(*               the manifest and the paths written in it                  *)
(*   imports[m]  the modules m imports, each at its first import           *)
(*               statement, in written order                               *)
(*   file[m]     the file m's path resolves to: a file, or one of          *)
(*               Missing, Outside                                          *)
(*   fold[m]     the case-folded path                                      *)
(*   unreadable  files that exist and cannot be read                       *)
(*   malformed   modules whose source does not parse; what the parser      *)
(*               recovered, imports included, is used all the same         *)
(***************************************************************************)
EXTENDS Naturals, FiniteSets, SequencesExt

CONSTANTS
    Modules, Entry,
    Files, Missing, Outside,
    Manifest,              \* the site of a diagnostic that no import caused
    Projects               \* the projects an instance looks at

ProjectType ==
    [manifest : {"ok", "INVALID_MANIFEST", "INVALID_PROJECT_PATH"},
     imports : [Modules -> Seq(Modules)],
     file : [Modules -> Files \cup {Missing, Outside}],
     fold : [Modules -> Modules],
     unreadable : SUBSET Files,
     malformed : SUBSET Modules]

ASSUME ModuleAssumption ==
    /\ Modules \subseteq Nat
    /\ IsFiniteSet(Modules)
    /\ Entry \in Modules
    /\ Manifest \notin Modules
    /\ {Missing, Outside} \cap Files = {} /\ Missing # Outside
    /\ Projects \subseteq ProjectType
    /\ \A p \in Projects, m \in Modules : IsInjective(p.imports[m])

VARIABLES
    project,               \* what is on disk; never written
    stage,
    queue,                 \* a stack of requests, the last is next
    queued,
    folded,                \* by_case_folded: the modules that hold their key
    canonical,             \* by_canonical_file: likewise
    modules,
    reading,               \* the loaded module's imports not yet looked at
    diagnostics,
    remaining_deps, ready, order,
    dfs

loading == <<queue, queued, folded, canonical, modules, reading>>
ordering == <<remaining_deps, ready, order>>
vars == <<project, stage, loading, diagnostics, ordering, dfs>>

Site == Modules \cup {Manifest}
Request == [module : Modules, site : Site]
Code == {"INVALID_MANIFEST", "INVALID_PROJECT_PATH", "INVALID_ENTRY",
         "MODULE_PATH_COLLISION", "MODULE_NOT_FOUND",
         "DUPLICATE_PHYSICAL_MODULE", "PARSE_ERROR", "IMPORT_CYCLE"}
Diagnostic == [code : Code, module : Modules, site : Site]

Frame == [node : Modules, left : SUBSET Modules]
NoSearch == [color |-> [m \in {} |-> "white"], stack |-> <<>>,
             path |-> <<>>, witness |-> <<>>]

loaded == ToSet(modules)

(* edges: the modules m imports, once each. *)
edges(m) == ToSet(project.imports[m]) \cap loaded

Init ==
    /\ project \in Projects
    /\ stage = "setup"
    /\ queue = <<[module |-> Entry, site |-> Manifest]>>
    /\ queued = {Entry}
    /\ folded = {} /\ canonical = {}
    /\ modules = <<>> /\ reading = <<>>
    /\ diagnostics = {}
    /\ remaining_deps = [m \in {} |-> 0] /\ ready = {} /\ order = <<>>
    /\ dfs = NoSearch
----------------------------------------------------------------------------
(* The manifest, the source root and the entry file, before any module.    *)

setup_fault ==
    IF project.manifest # "ok" THEN {project.manifest}
    ELSE CASE project.file[Entry] = Missing -> {"INVALID_ENTRY"}
           [] project.file[Entry] = Outside -> {"INVALID_PROJECT_PATH"}
           [] OTHER -> {}

Setup ==
    /\ stage = "setup"
    /\ diagnostics' = [code : setup_fault, module : {Entry}, site : {Manifest}]
    /\ stage' = IF setup_fault = {} THEN "discover" ELSE "rejected"
    /\ UNCHANGED <<project, loading, ordering, dfs>>
----------------------------------------------------------------------------
(* The worklist.  Each iteration takes the last request and either loads   *)
(* the module or leaves a diagnostic; the checks are made in this order.   *)

Collides(m) == \E e \in folded : project.fold[e] = project.fold[m] /\ e # m

\* Mutant of Duplicates: files are compared by the path of the module.
SameModule(m) == m \in canonical

Duplicates(m) == \E e \in canonical : project.file[e] = project.file[m] /\ e # m

Pop(r) ==
    /\ stage = "discover"
    /\ reading = <<>>
    /\ queue # <<>>
    /\ r = Last(queue)
    /\ queue' = Front(queue)
    /\ UNCHANGED <<project, stage, queued, ordering, dfs>>

Report(code, module, site) ==
    diagnostics' = diagnostics \cup
        {[code |-> code, module |-> module, site |-> site]}

\* Mutant of VisitCollision: the request is looked at and not taken.
CollisionKept(r) ==
    /\ stage = "discover" /\ reading = <<>> /\ queue # <<>>
    /\ r = Last(queue)
    /\ Collides(r.module)
    /\ Report("MODULE_PATH_COLLISION", r.module, Manifest)
    /\ UNCHANGED <<project, stage, loading, ordering, dfs>>

VisitCollision(r) ==
    /\ Pop(r)
    /\ Collides(r.module)
    /\ Report("MODULE_PATH_COLLISION", r.module, Manifest)
    /\ UNCHANGED <<folded, canonical, modules, reading>>

VisitMissing(r) ==
    /\ Pop(r)
    /\ ~Collides(r.module)
    /\ project.file[r.module] = Missing
    /\ Report("MODULE_NOT_FOUND", r.module, r.site)
    /\ folded' = folded \cup {r.module}
    /\ UNCHANGED <<canonical, modules, reading>>

VisitOutside(r) ==
    /\ Pop(r)
    /\ ~Collides(r.module)
    /\ project.file[r.module] = Outside
    /\ Report("INVALID_PROJECT_PATH", r.module, Manifest)
    /\ folded' = folded \cup {r.module}
    /\ UNCHANGED <<canonical, modules, reading>>

VisitDuplicate(r) ==
    /\ Pop(r)
    /\ ~Collides(r.module)
    /\ project.file[r.module] \in Files
    /\ Duplicates(r.module)
    /\ Report("DUPLICATE_PHYSICAL_MODULE", r.module, r.site)
    /\ folded' = folded \cup {r.module}
    /\ UNCHANGED <<canonical, modules, reading>>

VisitFile(r) ==
    /\ Pop(r)
    /\ ~Collides(r.module)
    /\ project.file[r.module] \in Files
    /\ ~Duplicates(r.module)
    /\ folded' = folded \cup {r.module}
    /\ canonical' = canonical \cup {r.module}

VisitUnreadable(r) ==
    /\ VisitFile(r)
    /\ project.file[r.module] \in project.unreadable
    /\ Report("MODULE_NOT_FOUND", r.module, r.site)
    /\ UNCHANGED <<modules, reading>>

VisitLoad(r) ==
    /\ VisitFile(r)
    /\ project.file[r.module] \notin project.unreadable
    /\ IF r.module \in project.malformed
       THEN Report("PARSE_ERROR", r.module, r.module)
       ELSE UNCHANGED diagnostics
    /\ modules' = Append(modules, r.module)
    /\ reading' = project.imports[r.module]

(* The loop over the import statements of the module just loaded. *)
ReadImport ==
    /\ stage = "discover"
    /\ reading # <<>>
    /\ reading' = Tail(reading)
    /\ IF Head(reading) \in queued
       THEN UNCHANGED <<queue, queued>>
       ELSE /\ queued' = queued \cup {Head(reading)}
            /\ queue' = Append(queue, [module |-> Head(reading),
                                       site |-> Last(modules)])
    /\ UNCHANGED <<project, stage, folded, canonical, modules, diagnostics,
                   ordering, dfs>>

Visit(r) ==
    \/ VisitCollision(r)
    \/ VisitMissing(r)
    \/ VisitOutside(r)
    \/ VisitDuplicate(r)
    \/ VisitUnreadable(r)
    \/ VisitLoad(r)

(* The worklist is empty: any diagnostic fails the load as a whole. *)
EndDiscovery ==
    /\ stage = "discover"
    /\ queue = <<>> /\ reading = <<>>
    /\ stage' = IF diagnostics = {} THEN "order" ELSE "rejected"
    /\ remaining_deps' = [m \in loaded |-> Cardinality(edges(m))]
    /\ ready' = {m \in loaded : edges(m) = {}}
    /\ UNCHANGED <<project, loading, diagnostics, order, dfs>>
----------------------------------------------------------------------------
(* topological_order: Kahn's algorithm, the smallest ready path first.     *)

\* Mutant of next_ready: ties are broken by ModuleId.
first_discovered ==
    CHOOSE m \in ready : \E i \in DOMAIN modules :
        modules[i] = m /\ \A j \in 1..(i - 1) : modules[j] \notin ready

next_ready == Min(ready)

\* Mutant of Place: an importer is ready after the first of its imports.
PlaceEarly ==
    /\ stage = "order"
    /\ ready # {}
    /\ order' = Append(order, next_ready)
    /\ ready' = (ready \cup {m \in loaded : next_ready \in edges(m)})
                 \ (ToSet(order) \cup {next_ready})
    /\ UNCHANGED <<project, stage, loading, diagnostics, remaining_deps, dfs>>

Place ==
    /\ stage = "order"
    /\ ready # {}
    /\ LET next == next_ready
           importers == {m \in loaded : next \in edges(m)}
       IN  /\ order' = Append(order, next)
           /\ remaining_deps' = [m \in loaded |->
                  IF m \in importers THEN remaining_deps[m] - 1
                  ELSE remaining_deps[m]]
           /\ ready' = (ready \ {next}) \cup
                  {m \in importers : remaining_deps[m] = 1}
    /\ UNCHANGED <<project, stage, loading, diagnostics, dfs>>

residual == loaded \ ToSet(order)

EndOrdering ==
    /\ stage = "order"
    /\ ready = {}
    /\ stage' = IF Len(order) = Len(modules) THEN "loaded" ELSE "search"
    /\ dfs' = [NoSearch EXCEPT !.color = [m \in residual |-> "white"]]
    /\ UNCHANGED <<project, loading, diagnostics, ordering>>
----------------------------------------------------------------------------
(* The witness of a cycle: a depth-first search with an explicit stack over *)
(* what could not be placed.  `left' are the edges a frame has yet to try. *)

Descend(d, m) ==
    [color |-> [d.color EXCEPT ![m] = "gray"],
     stack |-> Append(d.stack, [node |-> m, left |-> edges(m) \cap residual]),
     path |-> Append(d.path, m),
     witness |-> d.witness]

Retreat(d) ==
    [d EXCEPT !.color[Last(d.stack).node] = "black",
              !.stack = Front(@),
              !.path = Front(@)]

\* Mutant of Close: the witness is the whole path, its approach included.
WholePath(d, m) == [d EXCEPT !.witness = d.path]

Close(d, m) ==
    [d EXCEPT !.witness =
        SubSeq(d.path, CHOOSE i \in DOMAIN d.path : d.path[i] = m, Len(d.path))]

Unvisited(d) == {m \in residual : d.color[m] = "white"}

SearchStep(d) ==
    IF d.stack = <<>> THEN Descend([d EXCEPT !.path = <<>>], Min(Unvisited(d)))
    ELSE IF Last(d.stack).left = {} THEN Retreat(d)
    ELSE LET target == Min(Last(d.stack).left)
             tried == [d EXCEPT !.stack[Len(d.stack)].left = @ \ {target}]
         IN  CASE d.color[target] = "white" -> Descend(tried, target)
               [] d.color[target] = "gray"  -> Close(tried, target)
               [] OTHER -> tried

SearchOver == dfs.witness # <<>> \/ (dfs.stack = <<>> /\ Unvisited(dfs) = {})

Search ==
    /\ stage = "search"
    /\ ~SearchOver
    /\ dfs' = SearchStep(dfs)
    /\ UNCHANGED <<project, stage, loading, diagnostics, ordering>>

(* `expect("the residual module set always contains a cycle")'; the        *)
(* diagnostic stands at the import that closes the cycle.                  *)
ReportCycle ==
    /\ stage = "search"
    /\ SearchOver
    /\ IF dfs.witness = <<>>
       THEN stage' = "panicked" /\ UNCHANGED diagnostics
       ELSE /\ stage' = "rejected"
            /\ Report("IMPORT_CYCLE", Head(dfs.witness), Last(dfs.witness))
    /\ UNCHANGED <<project, loading, ordering, dfs>>
----------------------------------------------------------------------------
Next ==
    \/ Setup
    \/ \E r \in Request : Visit(r)
    \/ ReadImport
    \/ EndDiscovery
    \/ Place
    \/ EndOrdering
    \/ Search
    \/ ReportCycle

(* load_project is one sequential call. *)
Spec == Init /\ [][Next]_vars /\ WF_vars(Next)
----------------------------------------------------------------------------
(* What the project on disk says, whatever order its files are visited in. *)

Imports(m) == ToSet(project.imports[m])

Reachable ==
    {m \in Modules : \A S \in SUBSET Modules :
        (Entry \in S /\ \A n \in S : Imports(n) \subseteq S) => m \in S}

(* The modules from which a cycle of imports can be reached. *)
LeadsToCycle ==
    UNION {C \in SUBSET Reachable : \A m \in C : Imports(m) \cap C # {}}

Sound ==
    /\ setup_fault = {}
    /\ \A m \in Reachable :
        /\ project.file[m] \in Files \ project.unreadable
        /\ m \notin project.malformed
        /\ \A n \in Reachable \ {m} :
            project.fold[n] # project.fold[m] /\ project.file[n] # project.file[m]

DependencyFirst(o) ==
    \A i \in DOMAIN o : Imports(o[i]) \subseteq {o[j] : j \in 1..(i - 1)}

Before(o, p) ==
    \E i \in DOMAIN o : o[i] < p[i] /\ \A j \in 1..(i - 1) : o[j] = p[j]

Final == {"loaded", "rejected", "panicked"}
----------------------------------------------------------------------------
LoadTypeOK ==
    /\ project \in ProjectType
    /\ stage \in {"setup", "discover", "order", "search"} \cup Final
    /\ queue \in Seq(Request)
    /\ queued \subseteq Modules
    /\ folded \subseteq Modules /\ canonical \subseteq Modules
    /\ modules \in Seq(Modules) /\ reading \in Seq(Modules)
    /\ ready \subseteq Modules /\ order \in Seq(Modules)

(* Types of all the variables; the unsigned counter remaining_deps never   *)
(* goes below zero.                                                        *)
TypeOK ==
    /\ LoadTypeOK
    /\ diagnostics \subseteq Diagnostic
    /\ remaining_deps \in [DOMAIN remaining_deps -> Nat]
    /\ dfs \in [color : [DOMAIN dfs.color -> {"white", "gray", "black"}],
                stack : Seq(Frame), path : Seq(Modules), witness : Seq(Modules)]

(* The worklist loses no request and serves none twice: during discovery   *)
(* every module that was asked for is waiting, loaded, or refused with one *)
(* diagnostic, and only one of these, once.                                *)
Refusals(m) == {d \in diagnostics : d.module = m /\ d.code # "PARSE_ERROR"}

EveryRequestOnce ==
    stage = "discover" =>
        \A m \in queued :
            Cardinality({i \in DOMAIN queue : queue[i].module = m})
          + Cardinality({i \in DOMAIN modules : modules[i] = m})
          + Cardinality(Refusals(m)) = 1

(* "the *result* does not depend on this order: only the reachable set and *)
(* each module's own import list matter": a project is accepted exactly    *)
(* when every module reachable on disk is there, readable, well formed and *)
(* the only one of its name and file, and no imports form a cycle; though  *)
(* discovery stops at a refused module and never sees what it imports.     *)
AcceptedOnMerit ==
    stage \in Final => (stage = "loaded" <=> Sound /\ LeadsToCycle = {})

(* Discovery sees every module that is asked for, once, and its verdict is *)
(* about what is on disk and not about the order it was seen in.           *)
DiscoveryIsFaithful == EveryRequestOnce /\ AcceptedOnMerit

(* topological_order yields "a dependency-first order": the order of an    *)
(* accepted project holds every reachable module, no other, none twice,    *)
(* and each after all that it imports.                                     *)
CompleteOrder ==
    stage = "loaded" =>
        /\ ToSet(order) = Reachable
        /\ IsInjective(order)
        /\ DependencyFirst(order)

(* It "always advanc[es] the lexicographically-smallest ready module       *)
(* [...] so the result is identical across repeated runs regardless of     *)
(* discovery order": the order found is the least of all the orders that   *)
(* put dependencies first.                                                 *)
LeastOrder ==
    stage = "loaded" =>
        \A o \in SetToSeqs(Reachable) :
            DependencyFirst(o) => o = order \/ Before(order, o)

(* The search never panics, never gives a module up before it closed a     *)
(* cycle, and reports a real and simple cycle of imports that does not     *)
(* depend on discovery: from the smallest module that leads to a cycle it  *)
(* always follows the smallest import that does, until it is back on its   *)
(* own path; the diagnostic stands at the import that closes the cycle.    *)
follow(m) == Min(Imports(m) \cap LeadsToCycle)

WitnessIsCycle ==
    LET path == dfs.path
    IN  /\ stage # "panicked"
        /\ \A m \in DOMAIN dfs.color : dfs.color[m] # "black"
        /\ path # <<>> => path[1] = Min(LeadsToCycle)
        /\ \A i \in 1..(Len(path) - 1) : path[i + 1] = follow(path[i])
        /\ IsInjective(path)
        /\ dfs.witness # <<>> =>
            /\ \E k \in DOMAIN path :
                /\ dfs.witness = SubSeq(path, k, Len(path))
                /\ path[k] = follow(Last(path))
            /\ \A d \in diagnostics :
                d.code = "IMPORT_CYCLE" /\ d.module \in Imports(d.site)
============================================================================
