-------------------------- MODULE ResourcePipeline --------------------------
(***************************************************************************)
(* A function from its resolved body to its execution: the resource        *)
(* checker accepts or refuses it, the lowering turns an accepted one into  *)
(* NIR, and the interpreter runs the NIR on the ownership runtime, whose   *)
(* own checks decide again, instruction by instruction.  Nothing tells the *)
(* runtime what the checker knew: the two agree or they do not.            *)
(*                                                                         *)
(* The function under test is called by an entry point and calls the       *)
(* functions of a library; they go through the same checker and lowering.  *)
(* The composition is stated for any stages: each is a constant, and its   *)
(* value the operator named there.                                         *)
(***************************************************************************)
EXTENDS NirOwnership

CONSTANTS
    Recipes, FunctionOf(_),   \* the functions to compile: [name, params, ret, body]
    Miscompiled,          \* those whose lowering may go wrong
    Gaps,                 \* those known to be accepted and not to be compiled
    Unclaimed,            \* those of which that is not known
    Library,              \* the functions they call, by name
    EntryOf(_),           \* the entry point that calls a program
    CheckStage(_),        \* ResourceCheck: check_function
    LowerStage(_, _),     \* NirLower: lower_function
    VerifyStage(_, _, _), \* NirOwnership: verify_function
    Scalar, Moved, Hole, Absent,
    MaxSlots, MaxTemps, MaxLoads,   \* value ids the runtime has room for
    MaxJumps,             \* backward jumps of one execution
    MAX_CALL_DEPTH, MaxResources, MaxGeneration, MaxLeases, MaxLeaves

VARIABLES records, leases, active, frames, vals, obs, failing, terminated, host,
    artifact,   \* the function as the last stage left it
    pcs,        \* where each frame is: function, block, next instruction
    jumps       \* backward jumps left

Slots == {<<"s", n>> : n \in 1..MaxSlots}
Loads == {<<"l", s, n>> : s \in Slots, n \in 1..MaxLoads}

Runtime == INSTANCE ResourceRuntime WITH
    ParamList <- <<<<"p", 1>>, <<"p", 2>>>>, Slots <- Slots, Loads <- Loads,
    Temps <- {<<"t", n>> : n \in 1..MaxTemps},
    LoadOrigin <- [x \in Loads |-> x[2]],
    Observations <- {}, Paths <- {<<>>}, Constants <- {Scalar}, Verified <- FALSE, WellTyped <- TRUE

runtime == <<records, leases, active, frames, vals, obs, failing, terminated, host>>
vars == <<records, leases, active, frames, vals, obs, failing, terminated, host,
          artifact, pcs, jumps>>

\* The library, compiled once.
compiled(f) == LowerStage(f, CheckStage(f)).blocks

LibraryCode == [name \in DOMAIN Library |-> compiled(Library[name])]

-----------------------------------------------------------------------------
(***************************************************************************)
(* Compilation (driver: check_module, lower_module).                       *)
(***************************************************************************)

\* What the run claims of the function: it is compiled if it is accepted, it is
\* accepted and not compiled, or nothing.
claim(r) == IF r \in Gaps THEN "gap" ELSE IF r \in Unclaimed THEN "none" ELSE "compiled"

Source(r) == [k |-> "source", f |-> FunctionOf(r), faulty |-> r \in Miscompiled, claim |-> claim(r)]

\* resourceck: a diagnostic ends the compilation.
Check ==
    /\ artifact.k = "source"
    /\ LET plan == CheckStage(artifact.f)
       IN  artifact' = IF plan.codes = {} THEN [k |-> "checked", f |-> artifact.f, plan |-> plan,
                             faulty |-> artifact.faulty, claim |-> artifact.claim]
                       ELSE [k |-> "refused", codes |-> plan.codes, claim |-> artifact.claim]
    /\ UNCHANGED <<runtime, pcs, jumps>>

\* Every value id of the code is one the runtime has room for.
fits(b) ==
    /\ b.slots <= MaxSlots /\ b.temps <= MaxTemps
    /\ \A s \in DOMAIN b.loads : b.loads[s] <= MaxLoads

\* nir::lower: an internal error ends the compilation.
Lower ==
    /\ artifact.k = "checked"
    /\ LET b == LowerStage(artifact.f, artifact.plan)
       IN  /\ fits(b)
           /\ artifact' = IF b.failed THEN [k |-> "broken", claim |-> artifact.claim]
                          ELSE [k |-> "lowered", f |-> artifact.f, blocks |-> b.blocks,
                                entry |-> compiled(EntryOf(artifact.f)),
                                faulty |-> artifact.faulty, edited |-> FALSE, claim |-> artifact.claim]
    /\ UNCHANGED <<runtime, pcs, jumps>>

\* The lowering is not trusted: it may get one instruction or branch wrong.
Positions(blocks) == UNION {{<<n, i>> : i \in DOMAIN blocks[n].ins} : n \in DOMAIN blocks}

with(blocks, n, ins) == [blocks EXCEPT ![n].ins = ins]

omissions(blocks) ==
    {with(blocks, p[1], RemoveAt(blocks[p[1]].ins, p[2])) :
        p \in {q \in Positions(blocks) : blocks[q[1]].ins[q[2]].op # "store"}}

repetitions(blocks) ==
    {with(blocks, p[1], InsertAt(blocks[p[1]].ins, p[2], blocks[p[1]].ins[p[2]])) :
        p \in {q \in Positions(blocks) : ~is_value(blocks[q[1]].ins[q[2]])}}

inversions(blocks) ==
    {with(blocks, p[1], [blocks[p[1]].ins EXCEPT ![p[2]] = blocks[p[1]].ins[p[2] + 1],
                                                 ![p[2] + 1] = blocks[p[1]].ins[p[2]]]) :
        p \in {q \in Positions(blocks) : q[2] < Len(blocks[q[1]].ins) /\ blocks[q[1]].ins[q[2]].op # "store"}}

\* The other ownership mode.
reversals(blocks) ==
    {[blocks EXCEPT ![p[1]].ins[p[2]].name = IF @ = "Transfer" THEN "Observe" ELSE "Transfer"] :
        p \in {q \in Positions(blocks) : blocks[q[1]].ins[q[2]].name \in {"Transfer", "Observe"}}}

\* Another value of the same type, for the operand of an instruction or a return.
results(blocks, ty) ==
    {blocks[p[1]].ins[p[2]].v : p \in {q \in Positions(blocks) :
        is_value(blocks[q[1]].ins[q[2]]) /\ blocks[q[1]].ins[q[2]].op # "alloc" /\ blocks[q[1]].ins[q[2]].ty = ty}}

type_in(blocks, v) ==
    LET ps == {p \in Positions(blocks) : is_value(blocks[p[1]].ins[p[2]]) /\ blocks[p[1]].ins[p[2]].v = v}
    IN  IF ps = {} THEN "Unit" ELSE LET p == CHOOSE q \in ps : TRUE IN blocks[p[1]].ins[p[2]].ty

mistakes(blocks) ==
    UNION {{[blocks EXCEPT ![p[1]].ins[p[2]].src = v] :
               v \in {w \in results(blocks, type_in(blocks, blocks[p[1]].ins[p[2]].src)) :
                        canonical(w) # canonical(blocks[p[1]].ins[p[2]].src)}} :
           p \in {q \in Positions(blocks) :
                    /\ blocks[q[1]].ins[q[2]].op \in {"drop", "move", "store", "place_read", "observe", "store_place"}
                    /\ type_in(blocks, blocks[q[1]].ins[q[2]].src) \in Items}}

\* The targets of a branch the other way round, or one of them for both.
detours(blocks) ==
    UNION {{[blocks EXCEPT ![n].term.to = <<@[2], @[1]>>], [blocks EXCEPT ![n].term.to = <<@[2], @[2]>>]} :
           n \in {m \in DOMAIN blocks : Len(terminator_targets(blocks[m].term)) = 2}}

Miscompile ==
    /\ artifact.k = "lowered" /\ artifact.faulty /\ ~artifact.edited
    /\ \E Edits \in {omissions(artifact.blocks), repetitions(artifact.blocks), inversions(artifact.blocks),
                     reversals(artifact.blocks), mistakes(artifact.blocks), detours(artifact.blocks)} :
          \E blocks \in Edits : artifact' = [artifact EXCEPT !.blocks = blocks, !.edited = TRUE]
    /\ UNCHANGED <<runtime, pcs, jumps>>

\* known_functions: the parameter types of everything in the module.
params_of(f) ==
    LET types(g) == [i \in DOMAIN g.params |-> g.params[i].local[1]]
    IN  [name \in DOMAIN Library |-> types(Library[name])] @@ (f.name :> types(f))

\* nir::verify_module: a diagnostic ends the compilation.
Verify ==
    /\ artifact.k = "lowered"
    /\ LET codes == VerifyStage(artifact.f, artifact.blocks, params_of(artifact.f))
       IN  artifact' = IF codes = {}
                       THEN [k |-> "code", name |-> artifact.f.name, blocks |-> artifact.blocks,
                             entry |-> artifact.entry, claim |-> artifact.claim]
                       ELSE [k |-> "rejected", codes |-> codes, edited |-> artifact.edited,
                             claim |-> artifact.claim]
    /\ UNCHANGED <<runtime, pcs, jumps>>

-----------------------------------------------------------------------------
(***************************************************************************)
(* Execution (interpreter call_function_in_frame): the instruction the     *)
(* innermost frame is at.  An execution the runtime refuses stops there:   *)
(* none does, and how one unwinds is in ResourceRuntime.                   *)
(***************************************************************************)

blocks_of(fn) == IF fn = "main" THEN artifact.entry
                 ELSE IF fn = artifact.name THEN artifact.blocks
                 ELSE LibraryCode[fn]

Here == Last(pcs)
Block == blocks_of(Here.fn)[Here.block]
AtTerminator == Here.pc > Len(Block.ins)
Current == IF AtTerminator THEN Block.term ELSE Block.ins[Here.pc]

Start ==
    /\ artifact.k = "code" /\ pcs = <<>> /\ ~terminated /\ records = <<>>
    /\ Runtime!HostCall
    /\ pcs' = <<[fn |-> "main", block |-> 1, pc |-> 1]>>
    /\ UNCHANGED <<artifact, jumps>>

takes(fn, args) ==
    [i \in DOMAIN args |-> [value |-> args[i], take |-> Signatures[fn].take[i]]]

construct(i) == IF i.name \in DeclaredResources THEN Runtime!ResourceCreate(i.v, i.args)
                ELSE Runtime!AggregateCreate(i.v, i.args)

\* What one instruction does on the runtime.
execute(i) ==
    CASE i.op \in {"const", "alloc"} -> Runtime!Const(i.v)
      [] i.op = "load" -> Runtime!Load(i.v)
      [] i.op \in {"move", "defer_capture"} -> Runtime!Move(i.v, i.src)
      [] i.op = "create" -> construct(i)
      [] i.op = "store" -> IF i.name = "Transfer" THEN Runtime!StoreTransfer(i.v, i.src)
                           ELSE Runtime!StoreObserve(i.v, i.src)
      [] i.op = "drop" -> Runtime!Drop(i.src)
      [] i.op = "place_read" -> IF i.name = "Transfer"
                                THEN Runtime!PlaceReadTransfer(i.v, i.src, i.path)
                                ELSE Runtime!PlaceReadObserve(i.v, i.src, i.path)
      [] i.op = "record_field" -> Runtime!RecordField(i.v, i.src, i.path)
      [] i.op = "store_place" -> Runtime!StorePlace(i.src, i.path, i.args[1])
      [] i.op = "observe" -> Runtime!begin_observe(i.v, i.to, i.src, i.path)
      [] i.op = "end_observe" -> Runtime!end_observe(i.to)
      [] i.op = "payload" -> Runtime!VariantPayload(i.v, i.src, i.path[1])
      [] i.op = "decompose" -> Runtime!DecomposeVariant(i.src, i.path)
      [] i.op = "call" -> Runtime!Call(i.v, takes(i.name, i.args))
      [] i.op = "invoke" -> Runtime!Invoke(takes(i.name, i.args), i.path[1], i.path[2])

enter(fn) == Append(pcs, [fn |-> fn, block |-> 1, pc |-> 1])

Instr ==
    /\ pcs # <<>> /\ ~failing /\ ~AtTerminator
    /\ execute(Current)
    /\ pcs' = IF failing' THEN pcs
              ELSE IF Current.op = "call" THEN enter(Current.name)
              ELSE [pcs EXCEPT ![Len(pcs)].pc = @ + 1]
    /\ UNCHANGED <<artifact, jumps>>

\* Which case a variant is in: payloads are one leaf each.
tag(variant, s) == CHOOSE n \in DOMAIN Cases[variant] : Len(Cases[variant][n]) = Len(s)

targets(t) == CASE t.op = "switch" -> {t.to[tag(t.name, Runtime!V(t.src))]}
                [] OTHER -> Range(t.to)

Jump ==
    /\ pcs # <<>> /\ ~failing /\ AtTerminator
    /\ Current.op \in {"branch", "cond_branch", "switch"}
    /\ \E n \in targets(Current) :
          /\ n <= Here.block => jumps > 0
          /\ jumps' = IF n <= Here.block THEN jumps - 1 ELSE jumps
          /\ pcs' = [pcs EXCEPT ![Len(pcs)] = [@ EXCEPT !.block = n, !.pc = 1]]
    /\ UNCHANGED <<runtime, artifact>>

Invoke ==
    /\ pcs # <<>> /\ ~failing /\ AtTerminator /\ Current.op = "invoke"
    /\ execute(Current)
    /\ pcs' = IF failing' THEN pcs ELSE enter(Current.name)
    /\ UNCHANGED <<artifact, jumps>>

\* The caller goes on behind the call, or at the target of its invoke.
resume(p, edge) ==
    LET block == blocks_of(p.fn)[p.block] IN
    IF p.pc <= Len(block.ins) THEN [p EXCEPT !.pc = @ + 1]
    ELSE [p EXCEPT !.block = block.term.to[edge], !.pc = 1]

leave(edge) ==
    IF Len(pcs) = 1 THEN <<>>
    ELSE [Front(pcs) EXCEPT ![Len(pcs) - 1] = resume(@, edge)]

Return ==
    /\ pcs # <<>> /\ ~failing /\ AtTerminator /\ Current.op = "return"
    /\ Runtime!Return(IF Current.src = Diverged THEN <<Scalar>> ELSE Runtime!V(Current.src))
    /\ pcs' = IF failing' THEN pcs ELSE leave(1)
    /\ UNCHANGED <<artifact, jumps>>

Raise ==
    /\ pcs # <<>> /\ ~failing /\ AtTerminator /\ Current.op = "raise"
    /\ Runtime!Raise(Runtime!V(Current.src), TRUE)
    /\ pcs' = IF failing' THEN pcs ELSE leave(2)
    /\ UNCHANGED <<artifact, jumps>>

\* The compilation was given up, the entry point was left, or the execution
\* has used up its backward jumps.
Ended ==
    /\ \/ artifact.k \in {"refused", "broken", "rejected"}
       \/ artifact.k = "code" /\ pcs = <<>> /\ records # <<>>
       \/ /\ pcs # <<>> /\ jumps = 0 /\ AtTerminator
          /\ Current.op \in {"branch", "cond_branch"}
    /\ UNCHANGED vars

Init ==
    /\ Runtime!Init
    /\ \E r \in Recipes : artifact = Source(r)
    /\ pcs = <<>> /\ jumps = MaxJumps

Next == Check \/ Lower \/ Miscompile \/ Verify \/ Start \/ Instr \/ Jump \/ Invoke \/ Return \/ Raise \/ Ended

Spec == Init /\ [][Next]_vars

-----------------------------------------------------------------------------
(***************************************************************************)
(* Properties.                                                             *)
(***************************************************************************)

\* A function that the resource checker accepts is lowered, and its code verified:
\* each exit has a cleanup plan, each affine value a consume mode, each observation
\* its source, and the verifier finds nothing amiss in code that went through the
\* lowering unharmed.  It is not so for every function: those of Gaps (a loop no
\* path leaves, a record dropped and made anew, an arm that does not claim its
\* shell, a failure that owns a resource) are accepted, and each of them is refused
\* by the lowering or the verifier.  Of Unclaimed nothing is said.
AcceptedIsCompiled ==
    /\ artifact.k = "broken" => artifact.claim # "compiled"
    /\ artifact.k = "rejected" /\ ~artifact.edited => artifact.claim # "compiled"
    /\ artifact.k \in {"refused", "code"} => artifact.claim # "gap"

\* Code the verifier accepts, however it came about, runs without one refusal
\* of the ownership runtime: no use of a moved, dropped or observed resource,
\* no second destruction, no leak at a return or raise, whichever branches,
\* loop iterations and failures happen.
VerifiedIsNeverRefused == ~failing /\ ~terminated

\* When the entry point has returned, every resource it, the function or the
\* library ever constructed is destroyed.
NothingIsLeft == artifact.k = "code" /\ pcs = <<>> /\ ~terminated => Runtime!Alive = {}

=============================================================================
