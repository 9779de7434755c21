# Napitia: a TLA+ model of the compiler and its runtime

Napitia is a statically typed language with affine resources.  The repository
holds its compiler: a pipeline from source text to a typed intermediate
representation (NIR), an independent verifier of that representation, a
reference interpreter with a runtime ownership model of its own, and a preview
of a native backend.  This directory models the pipeline stage by stage, checks
the stages and their composition with TLC and proves the main results about the
runtime, the native gate, the native build and the project loader with TLAPS.
Paths below are relative to `compiler/src/`.

## The system

| component | state it keeps | operations | what makes it correct |
|---|---|---|---|
| `lexer/` | position, diagnostics | one token per step | every token is the longest the lexical grammar allows; nothing invalid passes unreported |
| `parser/` | position, depth budget, `no_struct_literal` | one item per step, recovery | the language of `spec/0002-syntax.md`, up to the five points named below; damage stays inside its item |
| `hir/lower.rs`, `resolve/` | item tables, scopes, type parameters | registration, lowering of each item | every number in HIR names something; the order of declarations is free |
| `typeck/mod.rs` | declaration tables, locals, inference context | declarations, then each body | an accepted program never goes wrong |
| `typeck/unify.rs`, `exhaustive.rs`, `cycles.rs`, `capability.rs` | substitution; matrix and budget; active path; registry, cache and budgets | unify, analyse a match, walk the layouts, resolve a requirement | principal solutions, exact verdicts, finite layouts, coherent evidence, all within the limits |
| `resourceck/` | state of each place, scopes, defers, observations, loops | a walk over a body with joins | what is accepted can be compiled and never makes the runtime refuse |
| `nir/lower.rs`, `nir/verify.rs` | block graph; per-block dataflow facts | lowering with cleanup plans; structure and dataflow checks | verified code never makes the runtime refuse, however it came about |
| `interpreter/` ownership runtime | resource table (generation, status, fields), lease table and its active stack, one value map and one observation stack per call frame, `terminated` | NIR instructions and terminators, `call`, unwinding | exactly one owner per live resource; no cycle; an observation freezes what it shows; a failure ends everything it opened |
| `interpreter/` scalars, `types/numeric.rs` | slots, call stack | checked `i64` operators | exact result or the named failure |
| `native/capability.rs`, `native/lower.rs` | reachable functions and blocks, slot facts, registers | validation, code generation | what is planned can be emitted, and runs as the interpreter does |
| `native/mod.rs` | scratch directory, linker process, output path | compile, create, write, link, rename, remove | a failed build changes nothing; publication is final |
| `project/` | discovered modules, import edges, lowered modules | discovery, topological order, lowering in order, merge | the verdict and the order are a function of what is on disk |
| `driver.rs`, `cli.rs` | none | stage sequencing | the stages run in order |
| `source/`, `symbol/`, `diagnostics/`, `nir/printer.rs` | tables | rendering | pure translation |

The stages are called in sequence by `driver.rs`; each hands a value to the
next.  What is hard about them is not concurrency but that each trusts what an
earlier one promised, or claims not to: a property of the whole takes several
stages to break.  Concurrency exists in two places: between call frames of the
interpreted program, where an observation, a taken argument and a loaded copy
of one handle are alive at once, and between `napitia build` processes that
share a directory.  Failure handling exists in the same two places: an error
that unwinds interpreter frames, and a build that fails or is killed between two
file-system calls.  `PROJECT.json` lists the hazards at their lines.

## Modules

| module | models |
|---|---|
| `Lexer` | `lexer/`, and the reference lexical grammar of `spec/0001-lexical-grammar.md` |
| `Parser` | `parser/` |
| `Grammar` | the grammar and precedence table of `spec/0002-syntax.md`, as the reference for `Parser`; `Amended` has the points at which the code reads something else |
| `Resolve`, `Trees` | `hir/lower.rs` and `resolve/scope.rs`; the shapes of `syntax/ast.rs` and `hir/mod.rs` |
| `Types` | `types/mod.rs`, `types/generics.rs` |
| `Unify` | `typeck/unify.rs`, `typeck/context.rs` |
| `Usefulness`, `Exhaustive` | `typeck/exhaustive.rs` |
| `LayoutCycles` | `typeck/cycles.rs` |
| `Requirements` | the solver of `typeck/capability.rs` |
| `EvidenceCheck` | its registry, cache and steps, and what `nir/verify.rs` checks of extensions and evidence |
| `TypeCheck`, `MCTypeCheck` | the four algorithms above as one specification, and its instance |
| `Check` | `typeck/mod.rs`, on top of `Unify`, `Usefulness` and `Requirements` |
| `Meaning` | a reference evaluator of the syntax tree |
| `FrontEnd`, `MCFrontEnd` | `Lexer`, `Parser`, `Resolve` and `Check` composed as `driver::check` does, and its instances |
| `Hir`, `ResourceCheck` | `resourceck/` on HIR bodies |
| `NirLower` | `nir/lower.rs` |
| `NirVerify`, `NirOwnership` | the structural checks and the ownership dataflows of `nir/verify.rs` |
| `ResourcePipeline` | checker, lowering, verifier and ownership runtime composed |
| `PipelinePrograms`, `MCResourcePipeline` | the functions it is checked on, and its instances |
| `ResourceRuntime`, `MCResourceRuntime` | the ownership runtime of `interpreter/mod.rs` under any instruction, and its instances |
| `ResourceRuntimeProofs`, `ResourceOwnerProofs`, `ResourceLeaseProofs`, `ResourceOrphanProofs` | its theorems; each module extends the one before |
| `Numeric` | `types/numeric.rs` |
| `ScalarRun` | the interpreter on scalar programs: what native code is held to |
| `NativeCapability` | `native/capability.rs` |
| `NativeCode`, `MCNativeCode` | the gate, code generation and machine code; implements `ScalarRun` |
| `NativeGateProofs` | the theorems of the gate and of the emission of what it plans |
| `NativePublication` | what a native build promises about its output |
| `NativeBuild`, `MCNativeBuild` | how `native/mod.rs` keeps the promise; implements `NativePublication` |
| `NativeBuildProofs` | its theorems, the refinement among them |
| `ProjectLoader` | `load_project` and `topological_order` of `project/loader.rs` |
| `ProjectCompile`, `MCProjectCompile` | extends it with `compile_project` and `resolve_imports` |
| `ProjectProofs` | the theorems of the loader and of the compilation around it |

Conditions that the code tests in order are chains of `IF`; `CASE` is used only
where the guards exclude each other, since its value is otherwise left open.

### FrontEnd

A file goes through the stages of `driver::check`, each whatever the one before
it reported.  A step is one token (`ScanToken`), one item of the parser, one
item registered or lowered, one body checked; the state is what the code keeps
between two of them: the scanner (`pos`, `diags`), the parser record (`pos`,
`expr_depth`, `no_struct_literal`, ...), the tables and scopes of the lowering,
and the checker's context.  Within an item the stages are recursive operators
named after the functions they translate.  A token is its spelling, its name or
its literal kind; a node is a tuple headed by its kind; a diagnostic is its
code, or, in the parser, counts.  A file is a text, or, for the questions that
are not about spelling, a sequence of tokens.  Files with imports stop after
lowering.  The composition takes its stages as constants (`ParseStage`,
`LowerStage`, `DeclareStage`, `CheckStage`), whose values in every instance are
`parse_item`, `LowerItem`, `CheckDeclarations` and `check_function`: TLC's
coverage statistics stop there instead of unfolding the recursive operators at
every use.

`Grammar` and `Meaning` are references, not translations: a table of
productions with a recognizer, and an evaluator that looks names up in open
scopes and calls a run wrong when the language gives it no meaning.  At six
points the code does not do what the documents say.  There the references have
both readings (`Document` and `Amended` in `Grammar`, `Written`, and `IsBased` in
`Lexer`), and the constant `Amendments` names the points at which the code's is
taken: all six in `front_end`, so that its properties pass as statements about the
amended documents and not about the documents as they stand.  With any one of the
six taken out of `FrontEnd.cfg` TLC finds an input of the run on which code and
document disagree.  Literals
have no value but their kind, so a comparison of two goes both ways; ownership
is ignored, it is the subject of the pipeline.

### TypeCheck

The four algorithms share no state but the declarations, so an execution
exercises one.  `Unify` keeps the substitution and undoes a failed call by
keeping the old one.  `Exhaustive` takes a step per arm; `LayoutCycles` a step of
the walk; `EvidenceCheck` registers one extension or answers one requirement per
step, with the cache as state.  The references enumerate: assignments of ground
types, values of a type up to a depth, layouts unfolded to a depth, derivations
of evidence.

### ResourcePipeline

A function is checked by `ResourceCheck`, lowered by `NirLower`, verified by
`NirVerify` and `NirOwnership`, and executed instruction by instruction on the
operators of the ownership runtime, whose own checks decide again.  The NIR of
some functions is changed in one instruction or branch before it is verified,
so that the verifier is also met by code no checker saw.  The function under test
is called by an entry point and calls a small library; all go through the same
stages, which are constants of the composition as in `FrontEnd` (`CheckStage`,
`LowerStage`, `VerifyStage`; their values are `check_function`, `lower_function`
and `verify_function`).  Outcomes of conditions and of fallible calls are
nondeterministic.  An execution ends where the runtime refuses something, which
is what `VerifiedIsNeverRefused` excludes; how a refused one unwinds is in
`ResourceRuntime`.

### ResourceRuntime

The interpreter says of itself that it does not assume the module it runs
passed the verifier, so the model has no program: the running frame executes
any instruction on any operands, and the interpreter's own checks decide.
Every instruction is `Attempt(checks, effect)`: the effect when all checks
hold, and `Refuse`, which writes nothing, when one does not.  This is the
plan-then-commit form the code uses.  The one place it departs from it is a take
out of a place, which leaves its tombstone before the result is compared with the
declared type: `take_refused` writes the tombstone and fails.

| variable | code |
|---|---|
| `records` | `ResourceTable.records`: generation, status, fields |
| `leases`, `active` | `ResourceTable.leases`, `.active` |
| `frames` | the entered `call_function` frames: lease mark, observing parameters, where the result goes |
| `vals`, `obs` | `values` and `active_leases` of each frame |
| `failing` | an `Err` is on its way out of the innermost frame |
| `terminated` | `Interpreter.terminated` |
| `host` | handles that left through `Interpreter::call` |

Actions carry the names of the code (`begin_observe`, `end_observe`,
`abandon_leases_from`, `leaked_resource`, ...) or of the NIR instruction
(`Load`, `Move`, `StorePlace`, `DecomposeVariant`, `Invoke`, `Raise`, ...).
`Unwind` is what `call_function` does with an `Err`.

Data.  A value is the sequence of its leaves: a handle, a scalar, or a
tombstone.  Inline records and variants are flattened, so a case tag, a field
name and a declared type are not represented beyond what the shape of the value
tells; a place is a path whose first step picks a leaf and whose further steps
enter resources.  Nesting is bounded by the instance, so the interpreter's
`MAX_GENERIC_DEPTH` refusal is not modelled.  The entry point takes no
arguments, as in `driver::run`.  NIR is in SSA form (V0016), and the model,
which reuses a small set of result ids, only reuses one that owns nothing else
(`Fresh`).  `Verified` restricts place transfers and place stores by the three
verifier rules the runtime leans on (V0086, V0087, V0099); with `Verified =
FALSE` the model runs hand-built NIR.  `WellTyped` says that a result is declared
with the type it has, which is all that matters of declared types here; the theorems
hold either way.

### NativeCode

The gate of `NativeCapability` takes one step per function reached, per block of
a pass over a function (`flow` holds the sets of `must_reach` and the blocks
left in the turn) and per item of the work stack of the component search (`scc`);
a program it refuses is run by the interpreter.  For an accepted one the block
walk of `reverse_postorder` takes one step per block entered or finished
(`postorder`), `EmitFunction` lowers the body in the order found, and the program
is run: a register holds the bits of an `i64`, an overflow test and the branch on it are
steps of their own; the entry wrapper reduces what `main` returned to an exit
status of `StatusBits` bits.  `RunsAsInterpreted` says that under the mapping that
reads registers as the values they stand for every step is one of the interpreter's
(`ScalarRun`), a call past `MAX_CALL_DEPTH` excepted, and that the exit status is
the truncated result or that of a failure.  The exception is a difference between
the two engines: without it, as the refinement `Interpreter!Spec`, the property is
violated by a chain of three functions.  The width is the constant `Bits`.

The gate does not trust the verifier, so the programs include NIR no lowering
produces: functions without `bb0` or with one block twice (`blocks_by_id`), calls
with type arguments or evidence, stores that take, and functions that are reached
only through an `invoke` terminator, which the gate refuses and yet follows.

### NativePublication and NativeBuild

`NativePublication` has two variables, the content of every output and how far
every build is as seen from outside; only `Publish` changes an output.
`NativeBuild` has the steps of `build_native`, `build_executable`,
`link_object`, `link_in` and `scratch_directory`, one action per file-system
call, each of which may fail.  Builds with one process id are threads of one
process or processes that had the id one after the other; `Kill` ends all that
run, at any step, and their linkers go on.  The file system and the linker are
external: they do what the code asks of them, a write may stop halfway, a
rename is atomic (scratch directory and output are in one directory), and a
linker reports success only for a finished executable.  Loss of power is not
modelled: the code does not sync, and claims nothing about it.

### ProjectLoader and ProjectCompile

The project on disk is the input: which module imports which, in which written
order, what file each path resolves to, what cannot be read or parsed.  A module
path is a number, so that the order of numbers is the order of paths, and a
repeated import of one module is written once, since `queued` and `edges` see
only the first.  What a manifest's text says is the outcome `manifest`.

| variable | code |
|---|---|
| `queue`, `queued` | the worklist (a stack) and the set that guards it |
| `folded`, `canonical` | `by_case_folded`, `by_canonical_file`, as the modules that hold an entry |
| `modules`, `reading` | the modules in order of discovery; the imports of the last one still to be looked at |
| `remaining_deps`, `ready`, `order` | the same names in `topological_order` |
| `dfs` | `color`, `stack`, `path`, `witness`; `left` of a frame is the part of its sorted edges past `edge_idx` |
| `lowered`, `failed`, `reports` | `lowered_by_module`, `failed_modules`, who is behind `diagnostics` |

One action is one iteration of a loop: a request popped and answered (six
actions, in the order of the checks), an import read, a module placed, a step of
the search, a module lowered, skipped or refused.  A failed `expect` would be the
stage `panicked`.  In `ProjectCompile` the rules of `resolve_one_import` that
look at the items of another module (a private item, an import of an import, no
such item) are the input `unresolved`; that the module it looks at was lowered is
modelled.

The properties compare the algorithms with definitions over the graph on disk
that mention no order of visits: `Reachable` is the least closed set,
`LeadsToCycle` the largest set in which everything imports something in it,
`LeastOrder` quantifies over all orders.

## Runs

| run | checks | instance |
|---|---|---|
| `runtime_structures` | `TypeOK`, `ExactlyOneOwner`, `OwnershipAcyclic` | three resources that change hands twice, values of two leaves, paths of three steps, one frame, verified NIR |
| `runtime_leases` | `LeaseDiscipline`, `LeaseBlocksEveryOperation`, `TerminatedIsFinal`, `FailureUnwinds` | two observations, scalars, two frames, verified NIR, any step may fail |
| `runtime_calls` | `ExactlyOneOwner`, `ObservedStaysLive` | two parameters, taken and observed, a slot, two frames, handled and unhandled raises |
| `runtime_aliases` | `SoleOwner`, `LeaseFreeze` | two resources, a slot, a load of it, a lease, unverified NIR |
| `native_build` | `OwnScratch`, `NoStrayScratch`, `OutputIsAtomic`, `EveryBuildEnds` | three builds, two process ids, two outputs, one leftover, two attempts |
| `project_compile` | `CompleteOrder`, `LeastOrder`, `WitnessIsCycle`, `DiscoveryIsFaithful`, `CompiledOnMerit`, `EveryCompilationEnds` | graphs of four modules with at most two imports each in every written order, three modules in every graph and layout of files, every set of modules that do not resolve; the entry is not the smallest |
| `native_code` | `RunsAsInterpreted`, `PlannedIsEmitted`, `LoadsDecidedByPaths`, `CyclesReportedOnce`, `MeansWhatIsWritten` | integers of three bits: every operator on every pair of literals with up to two signs; every placement of stores and loads over three blocks; every call graph of three functions, by calls and by invokes; malformed functions |
| `pipeline` | `AcceptedIsCompiled`, `VerifiedIsNeverRefused`, `NothingIsLeft` | about twenty thousand functions over resources, records of two and variants; some with one fault in their NIR |
| `refilled_part` | `VerifiedIsNeverRefused`, violated | one function |
| `type_checker` | `UnifierIsPrincipal`, `MatchIsDecidedExactly`, `EveryLayoutIsFinite`, `EvidenceIsCoherent` | three unifications of fourteen constraints; matches of up to three arms on six types under three budgets; four declarations; three extensions and two queries |
| `front_end` | `TypeOK`, `LexedAsWritten`, `AcceptsTheGrammar`, `ReadBack`, `LaterItems`, `AcceptedNeverGoesWrong`, `DeclarationOrderIsFree` | about twenty thousand files: short texts, edited texts, edited token sequences, written-out trees, damaged items, typed programs with one name, literal or operator exchanged |
| `case_named_pattern` | `EveryLocalIsBound`, violated | one file |

What they show.  The runtime keeps its ownership discipline under any
instruction, of verified code and, where it claims to, of hand-built code.  The
pipeline run is the main composition: nothing tells the runtime what the checker
knew, and the two agree; and the verifier alone, on code with a fault, accepts
nothing the runtime would refuse.  `native_code` shows code generation to
implement the interpreter, failures included, up to its call depth.  `front_end`
holds the parser to the grammar and the lexer to the lexical grammar, both as
amended, and the type checker to an
evaluator, on files one edit away from sound ones, where most of the error paths
are.  `type_checker` holds four algorithms to references that enumerate.  The
project and build runs cover the two places where the outside world interferes.

Bounds.  `MaxResources`, `MaxGeneration`, `MaxLeases` and `MaxLeaves` bound the
runtime in the guards.  Three resources are what a chain, a swap and a cycle
through an intermediate container need; one transfer of a handle already makes a
copy stale, and two let it travel into a container and out again; two leases
nest, overlap and lie in two frames; two leaves let one value hold and lose
resources independently.  `MAX_CALL_DEPTH` is 512 in the code and one to four
here: a third frame adds no new pair of neighbours, and the bound itself is
reached.  In `native_code` it is two, so that a chain of three
functions calls past it.  `StatusBits` is two, less than `Bits`, so that the exit
status loses something, and `RUNTIME_FAILURE_STATUS` is a status `main` may have
too, as in the code.  Values are symmetric and so are observations, and the runs without a
liveness property use that.  Two attempts and one leftover make two builds of
one process id exhaust the names.  Four modules hold two disjoint cycles, a
cycle with an approach and a tail, and a tie in every round of the sort; three
are enough for a refused module between two others, and for a failure that
spreads twice.  Three bits have a minimum whose negation overflows, shift counts
at, below and above the width, and products that wrap twice; every rule of
`types/numeric.rs` is stated in the width and nothing else.  In the pipeline
`MaxSlots`, `MaxTemps` and `MaxLoads` give the ids the runtime has room for and
no function needs more; `MaxJumps` lets every loop run twice, which is once past
the join.  In the front end and the type checker the limits of the code
(`MaxExpressionDepth`, `MaxPatternDepth`, `MaxGenericDepth`,
`MaxUsefulnessSteps`, `MaxCapabilityDepth`, `MaxSteps`, `MaxLiteral`) are small
enough to be met; `Fuel` and `SampleDepth` bound the reference evaluator, and a
run out of fuel has no outcome.

`AcceptedIsCompiled` is not true of every function, and the run says of which.
Eight functions (`Gaps`) are accepted by the resource checker and claimed to be
refused by the lowering or the verifier, each of them: loops no path leaves, records
dropped and made anew, arms that do not claim their shell, failures that own a
resource.  Another 878 that drop and set a record somewhere (`Unclaimed`) are of the
second kind or not, depending on the path; the property says nothing of them, the
two others do.  Of the remaining nineteen thousand it is claimed and holds.

Deadlock is checked in the compiler runs, which end in an explicit `Ended` step,
and not in the others: a terminated interpreter, a directory in which all builds
have ended and a compilation that has returned have nothing left to do.

Fairness.  `WF(Unwind)`: `call_function` is sequential code that returns an
`Err` as soon as it has one, and nothing outside can hold it back.  Nothing is
assumed of the program, which may loop forever.  For the builds, `WF(Step(b))`:
a started build runs on; and `WF(Linker(b))`: the linker ends.  The second is an
assumption about a program outside the repository, which the code waits for
without a limit.  Neither starting a build nor a failure of `create_dir` is
fair.  Loading and compiling a project are one sequential call each, so `WF` of
the whole next-state relation.

## Proofs

All theorems hold for every value of the constants, under the named
assumptions `LeafAssumption`, `BoundAssumption`, `ValueIdAssumption`,
`BuildAssumption`, `ModuleAssumption`, `ProgramsAssumption` and
`VerifiedAssumption`, which say that the special leaves and
contents are distinct, that the bounds are natural numbers, that there are at
most two parameters, that paths count from one, that parameters,
slots, loaded values and other temporaries have different ids, one each (NIR is in
SSA form), that the modules are a finite set of numbers, that functions and
blocks are finite tables with numbers as ids, and that a scalar program has
passed the verifier in the one point the native gate does not look at again: a
slot is allocated on every path to a load or a store of it (the verifier's
dominance check).  That `bb0` is declared and no block declared twice the gate
checks itself.  `Verified` is a
constant of `ResourceRuntime`: a theorem that does not mention it holds for any
NIR the interpreter can be handed, one that assumes it for NIR `nir::verify` has
accepted.

* `TypeCorrect`: `TypeOK` of the runtime is inductive.  The work is in lemmas
  about the operators on values (a rebuilt value is a value, a leaf of a value is
  a leaf, a walk along a path yields a leaf) and one lemma per instruction.
* `LeaseStack`: `LeaseDiscipline`, inductive together with `TypeOK`.  Every
  step is shown to be one of six kinds as far as leases are concerned (quiet,
  a lease begun, a lease ended, a frame entered, a frame left with no lease
  open, an unwinding), and each kind keeps each part.  The part that carries
  the induction is that a frame's leases lie above its mark and at or below the
  marks of the frames above it.
* `OneOwnerAtMost`: no two places hold a current owner handle of one live
  resource, for any NIR.  A transfer does not search for the copies of what it
  moves, it makes them stale by a new generation.  So `OwnerInv` is about all
  handles, current or not: each names a resource that exists, of a generation it
  has reached (`HandlesKnown`); no two
  fields of a resource are current handles of the same one (`StoredOnce`); and
  `OneOwner` itself.  Every step is one of six kinds
  (reads, transfers, creates, drops, takes out of a place, refills a place), each
  with one preservation lemma, and each action has a lemma that says which it is.
* `NoOwnershipCycle`: `OwnershipAcyclic`, for any NIR.  The inductive form
  (`Acyclic`) says that every resource has a set of resources that holds whatever
  is stored in it and in its members, and that it is not in the set itself; that
  is closed under storage without speaking of paths.  `StorePlace` is the only
  step that could close a cycle, and `graphs_disjoint` refuses it, provided that
  the walk along the projections of a place ends inside what the place's root
  reaches; that lemma is an induction on the length of the walk, done by least
  counterexample.
* `VerifiedOwnership`: `ExactlyOneOwner` for verified NIR.  What `OneOwnerAtMost`
  lacks is that nothing is lost: an instruction overwrites value ids without
  looking at the handles in them.  `OrphanInv` says that what is stored in a
  dropped resource is dropped (`DeadBelowDead`) and, until the execution fails,
  `Accounted`: a loaded copy has its original in another id (`LoadCopies`), the
  ids a call in progress will write own nothing (`ReturnSlotsFree`), an observing
  parameter never owned anything (`ObservingSees`) and every live resource has an
  owner (`Owned`).  `Verified` is needed: in unverified NIR a scalar can be loaded
  from a slot, a resource put into the slot, and a `StorePlace` of the scalar
  tombstone the slot and lose the resource.
* `ObserversSeeLive`: `ObservedStaysLive` for verified NIR.  For an `observe`
  block the argument needs no verifier: a handle under an active lease names a
  live, current resource that its lease sees (`LeasesSee`), and what a lease sees
  is frozen.  A call to a function with an observing parameter takes no lease, so
  there the argument is about ownership: whatever is live and not handed over at
  the call is sealed off from the frames above it, they own neither it nor
  anything it is stored in (`Sealed`, `ParamsSealed`).  `may_call` makes the call
  seal (`CallSeals`: what is taken and what is observed are disjoint graphs), and
  no kind of step reaches through a seal (`SealedStep`).  The verifier is needed so
  that an observing parameter only ever loses handles (`Loses`, proved together
  with `Accounted`): unverified NIR can store into a moved leaf of one.
* `LeaseFreezes` and `LeaseBlocks`: `LeaseFreeze` for any NIR and
  `LeaseBlocksEveryOperation` for verified NIR.  Both rest on `LeaseClosed`: what
  a lease sees is closed under storage and has no tombstone.  A step that moves
  asks the leases about everything its handles reach; a step that takes from or
  stores into a place asks about the root, and closure carries the answer to the
  resource at the end of the walk.
* `TerminationFinal`: from the invariant that a terminated interpreter is
  failing or has no frame.
* `BuildInvariant`: a build before `scratch_directory` has no directory; one
  past it has one that exists, is no leftover and is nobody else's; a running
  linker's directory holds its own build's object; before the rename the
  directory holds the build's own executable.  `OwnScratch` and
  `NoStrayScratch` follow, and `OutputAtomicity`, the refinement of
  `NativePublication` (its safety part is all of it), needs the last clause:
  without it a rename could publish something else than the build's own.
* `LoaderInvariant`, about any finite set of modules and any project
  (`ModuleAssumption`): what was asked for is reachable, waiting requests and
  loaded modules are disjoint and without repetition, and as long as there is no
  diagnostic nothing asked for is lost; while modules are placed,
  `remaining_deps` is the number of imports not yet placed and `ready` is exactly
  what has none.  The exact counters are what makes `CompleteOrder` inductive,
  and what keeps the unsigned counters from going below zero (`LoaderTypes`).
  `OrderIsComplete` follows by counting: an order without repetition that is as
  long as `modules` holds all of them.
* `WitnessFound`: first, what is left over when nothing is ready is the largest
  set in which everything imports something in it (`ResidualLeadsToCycle`).  Then
  the search is a walk along the smallest such imports that never meets an
  exhausted frame; it can only end by meeting its own path.  So the `expect` in
  `topological_order` holds, and the code that turns a module black and goes back
  is never reached.

* `OrderIsLeast`: each module placed is at most every other that could have been
  placed then (`SmallestFirst`); at the first position where another dependency-first
  order differs, what that order has there could have been placed, so it is larger.
* `DiscoveryOnMerit`: `Verdict` ties the tables of discovery to the disk.  What is
  refused is refused once (`RefusedOnce`); modules loaded are in their place and
  apart by name and file (`LoadedInPlace`); a diagnostic means that a reachable
  module has a fault (`ReportedOnMerit`).  The converse, that a fault behind a
  refused module does not matter, is `LoadedIsReachable`: without a diagnostic
  all that is reachable was loaded.
* `CompileOnMerit`: `CompileShape` with `RootCause`, which says of the modules done
  so far what `RootCauseReported` says.  It is inductive because a module depends
  on an unresolved one exactly when it is one or imports one that does
  (`DependsOnStep`) and the order puts imports first.  The `expect` of the merge
  holds by the least failed module: it imports none that failed, so it is a root
  and has a diagnostic (`NoReportNoFailure`).  `LoadedInCompile` carries the
  loader's promises over to `CompileSpec`, whose steps are steps of the load or
  leave it alone.

* `CyclesAreReportedOnce`, for every call graph.  That the gate reaches exactly
  what `main` calls (`Called`) is `ReachOK`: what waits or was walked is called, and
  what was walked has all its callees waiting or walked.  `strongly_connected_components`
  keeps its recursion in a work stack, and `SccInv` says what the recursion
  would know.  The waiting items are a path of calls, each at the callee it waits
  for (`WorkIsPath`); the component stack is in the order of the indices
  (`StackInOrder`); and `Search` has the facts about indices and lowlinks: what is
  off the stack calls nothing on it, every call looked at has an index, a lowlink is
  the index of something reached, and no lower one can be reached by the calls looked
  at so far (`CallsFollowed`, `LowIsReached`, `LowIsLeast`).  At a root the stack from it upward
  is therefore closed under calls and reaches the root, which is what a component
  is; components are sets that reach each other both ways, without paths.
  `FoundAreCycles` and `RootsCover` carry the result to `report_cycles`.
* `LoadsAreDecidedByPaths`, for every body.  `FlowOf` holds of the function being
  checked: the set of a block never loses a slot that every path stores
  (`Narrowing`), and in a turn that has changed nothing so far the blocks visited
  hold exactly what their predecessors leave (`Exact`).  When a whole turn changes
  nothing, the blocks that lack a slot follow every edge without a store, so
  they are blocks some path reaches without one.  A path is not a sequence here but
  membership in every set that follows the edges, so that no induction over paths
  is needed.
* `PlannedCanBeEmitted`: code generation never fails on a program that was
  planned.  `Accepted` restates what an accepted body means without the
  analyses: a value used is a parameter, defined above its use in the block, or
  `Guarded`, defined on every path to the block; for slots that is
  `VerifiedAssumption`.  `WalkInv` is about the block walk: what guards a block
  on the work stack is defined in a block below it (`GuardsBelow`), what guards a
  finished one in a block finished later or still waiting (`GuardsAfter`), and a
  finished block has no unvisited target (`TargetsVisited`).  Read backwards,
  the finished list has every definition before its uses.

Only model-checked: the liveness properties (`FailureUnwinds`, `EveryBuildEnds`,
`EveryCompilationEnds`), which are out of the prover's reach, and everything
about the compiler's stages, which are recursive over syntax (`Lexer`, `Parser`,
`Grammar`, `Resolve`, `Trees`, `Check`, `Meaning`, `Usefulness`, `Requirements`,
`ResourceCheck`, `NirLower`, `NirVerify` and what extends them), and what a
recursive definition computes for every input cannot be proved with the installed
provers.  Of the native backend, what its code computes (`RunsAsInterpreted`,
`MeansWhatIsWritten`) is model-checked too: the overflow tests work on the bits of
a register, for which the provers have no theory.

## Where code and documents disagree

The two violated runs are disagreements a program can meet.

* `refilled_part`.  After `mut y = x; take_P(y);` the checker and the verifier
  accept `y.1 = R { };`, and the runtime refuses the store: the move of a whole
  inline record leaves handles, not tombstones, in its fields.
  `interpreter/mod.rs:587` says the verifier guarantees the opposite.
* `case_named_pattern`.  A pattern that is the bare name of a case binds a local
  in `hir/lower.rs` and is the case in `typeck/mod.rs`; an arm that uses the name
  is accepted and fails in the lowering to NIR, at a check of which the comment
  says that name resolution rules it out.

Three more sets of disagreements are stated in the properties of passing runs, as
exceptions that are inputs of the run.

* `AcceptedIsCompiled`.  Functions of `Gaps` that the
  resource checker accepts are refused by the lowering or the verifier, which
  `spec/0006-napitia-ir.md:694` says valid source never meets ("verifier codes are
  reachable only by a lowerer bug or by constructing malformed NIR directly"): a function that ends
  in a `loop` no path leaves has no cleanup plan for its end
  (`nir/lower.rs:2387`); a record dropped and made anew still counts as owned
  (`nir/verify.rs:8382`); a wildcard, or a name for the whole, leaves the shell of a
  variant unclaimed (`nir/lower.rs:4514`); a handler does not take apart a failure
  that owns a resource (`nir/lower.rs:3337`).
* `AcceptsTheGrammar`, `ReadBack`, `LexedAsWritten` (`Amendments`).  Against
  `spec/0002-syntax.md` the parser takes `private`, and a visibility before any item
  and field (line 100, `parser/declaration.rs:25`); takes `C()` and a trailing comma
  in a payload (line 104, `parser/declaration.rs:420`); refuses `return` and `break`
  without a value before `)` (lines 419-428, `parser/expression.rs:545`); takes the
  comma after a match arm as optional, and a braced body as a block only (line 458,
  `parser/expression.rs:604`); and refuses `x..y..z`, which lines 364 and 388 make
  left-associative (`parser/expression.rs:56`).  Against
  `spec/0001-lexical-grammar.md:113`, `0b17` is two integers and no error
  (`lexer/scanner.rs:283`).
* `RunsAsInterpreted` (`CallsTooDeep`).  A call with `MAX_CALL_DEPTH` frames entered fails in the interpreter
  (`interpreter/mod.rs:3327`), and native code has no such limit: an accepted chain
  of more than 512 functions fails under `napitia run` and returns as an
  executable, against `rfcs/0015-numeric-semantics.md:394`.

Others were met while reading and are not runs of their own; the model follows
the code, and the inputs of the runs stay clear of them where a property would
otherwise be about them.

* Lexer (`spec/0001-lexical-grammar.md`): `raise`, `handle`, `success` and
  `failure` are reserved and not in its list; after `'\q'` the closing quote starts another literal
  (`lexer/scanner.rs:433`).
* Parser: any token is taken for the `func` of an `extend` member
  (`parser/declaration.rs:55`, called unconditionally at 515); nested loops are
  not bounded by the depth budget, unlike expressions
  (`parser/declaration.rs:767`, `parser/mod.rs:18`).
* Resolution: type parameters and observation aliases of some items stay in scope
  longer than the comments say (`hir/lower.rs:627`, `hir/lower.rs:1446`).
* Type checker: a `break` in a `while` condition is accepted and not lowered
  (`typeck/mod.rs:4686`, `nir/lower.rs:2330`); an ordering of two records is
  accepted and verified, and the interpreter refuses it with a code reserved for
  malformed NIR (`interpreter/mod.rs:4717`); a field of a generic call whose
  argument is inferred is refused and accepted with the argument written
  (`typeck/mod.rs:2950`); `typeck/cycles.rs:258` refuses some finite nested
  instances that its own comment allows; evidence found within the budget once is
  served from the cache where the verifier, which has no cache, may run out of it
  (`typeck/capability.rs:713`, `nir/verify.rs:3100`).
* Unverified NIR only: a scalar can be moved out of a leased resource
  (`interpreter/mod.rs:1275`), and a callee can leave a resource in a hole of an
  observed argument (`interpreter/mod.rs:3102`), and a `StorePlace` of a loaded
  scalar tombstones a slot that holds a resource by then, though the comments say
  that the runtime stands without the verifier.  V0086 and V0099 keep verified code
  from all three, and with them `runtime_structures`, `runtime_leases` and
  `runtime_calls` pass.  What holds without the verifier is `SoleOwner`: nothing has
  two owners, but something may have none.

## Not modelled

* `nir/printer.rs`, `diagnostics/`, `source/` and `symbol/`: formatting, offsets
  and string tables.  A diagnostic is its code; positions are characters, not
  bytes; the contents of strings and characters are left out.
* Of `nir/verify.rs`, the checks of a module's layouts and most of the typing of
  scalar operands: long lists of equalities between declared types, with no
  state.  The model verifies the blocks of a function.  A slot of an inline
  aggregate may be loaded before any store as far as the verifier is concerned;
  the functions of the pipeline never do so.
* Of `nir/lower.rs`, generic instances, protocol calls and layout tables.
* Of `project/`, the syntax of the manifest and the four import rules that look
  at single items: inputs of the model.
* Which function is `main` (`native/capability.rs:377`), the machine's stack
  (the gate refuses call cycles, so native code has no unbounded recursion),
  command-line arguments, printing.
* Of hand-built NIR, results other than a place's whose declared type disagrees
  with what was computed: the interpreter finds it after a `Move`, a creation or a
  call has committed and fails there, and the model refuses before.
* Cranelift, the linker and the file system: external, modelled by what the code
  asks of them.
* The tests inside the source files.  Six tenths of the lines under
  `compiler/src/` are tests, and an eighth comments; the map names three tenths
  of all lines, most of the code proper.

## What is left to do

* An unbounded argument for `VerifiedIsNeverRefused`: the verifier's place states
  as an abstraction of the runtime's values, block by block.
* Generic functions and protocol calls in `NirLower`, so that `FrontEnd` and
  `ResourcePipeline` can be joined into one specification from text to run.
