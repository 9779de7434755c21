-------------------------- MODULE NativeCapability --------------------------
(***************************************************************************)
(* The gate between verified NIR and native code                           *)
(* (compiler/src/native/capability.rs): it walks what `main' reaches,      *)
(* checks every reachable function, instruction and edge, requires every   *)
(* value and every stored slot to be there on all paths, and reports each  *)
(* cycle of the call graph once.  The programs are those of ScalarRun.     *)
(***************************************************************************)
EXTENDS Integers, FiniteSets, SequencesExt

CONSTANT Main           \* the id of the function named `main'

VARIABLES
    program,
    stage,              \* "walk", "bodies", "cycles", then "refused" or "planned"
    queue,              \* functions reached and not yet walked
    reached,            \* functions `main' reaches through direct calls
    unchecked,          \* reached functions whose body is not yet checked
    flow,               \* the two must-analyses of the body being checked
    diagnostics,        \* what was reported, in order
    scc                 \* the state of strongly_connected_components

gateVars == <<program, stage, queue, reached, unchecked, flow, diagnostics, scc>>

Funcs == program.functions

Scalars == {"i64", "bool", "unit"}
IsScalar(ty) == ty \in Scalars

Least(S) == CHOOSE x \in S : \A y \in S : x <= y

\* The members of a finite set in the order of their keys, which differ; the
\* ids of a set in ascending order.
Place(S, key, x) == Cardinality({y \in S : key[y] < key[x]})
SortedBy(S, key) == [i \in 1 .. Cardinality(S) |-> CHOOSE x \in S : Place(S, key, x) = i - 1]
Ascending(S) == SortedBy(S, [x \in S |-> x])

-----------------------------------------------------------------------------
\* The shape of one function.

terminator_targets(f, b) == Range(Funcs[f].blocks[b].term.targets)

\* Whether the blocks can be keyed: no id is declared twice, and one is bb0.
blocks_by_id(f) == ~Funcs[f].duplicate /\ 0 \in DOMAIN Funcs[f].blocks

\* A set of blocks that holds bb0 and every declared block its members branch
\* to, where a member for which Stops holds is not left.
FollowsEdges(f, S, Stops(_)) ==
    /\ blocks_by_id(f) => 0 \in S
    /\ \A b \in S : Stops(b) \/ terminator_targets(f, b) \cap DOMAIN Funcs[f].blocks \subseteq S

\* The blocks bb0 reaches: what every such set holds.  A target no block
\* declares is not followed; blocks that cannot be keyed have none.
reachable_blocks(f) ==
    {b \in DOMAIN Funcs[f].blocks :
        \A S \in SUBSET DOMAIN Funcs[f].blocks : FollowsEdges(f, S, LAMBDA c : FALSE) => b \in S}

Instructions(f, b) == Funcs[f].blocks[b].ins

\* Every instruction of a reachable block, as <<block, position>>.
Sites(f) == UNION {{b} \X DOMAIN Instructions(f, b) : b \in reachable_blocks(f)}

Defines(ins) == ins.op # "store"

\* Mutant of direct_callees: a terminator names no callee.
CalleesOfInstructions(f) ==
    {Instructions(f, s[1])[s[2]].callee :
        s \in {t \in Sites(f) : Instructions(f, t[1])[t[2]].op = "call"}}

\* The callees of call instructions, and of the invoke that ends a block: it is
\* refused as a terminator, and still an edge of the call graph.
direct_callees(f) ==
    {Instructions(f, s[1])[s[2]].callee :
        s \in {t \in Sites(f) : Instructions(f, t[1])[t[2]].op = "call"}}
    \cup {Funcs[f].blocks[b].term.callee :
             b \in {c \in reachable_blocks(f) : Funcs[f].blocks[c].term.op = "invoke"}}

Params(f) == {Funcs[f].params[i].value : i \in DOMAIN Funcs[f].params}

DefiningSites(f, v) ==
    {s \in Sites(f) : /\ Defines(Instructions(f, s[1])[s[2]])
                      /\ Instructions(f, s[1])[s[2]].result = v}

Defined(f) == Params(f) \cup
    {Instructions(f, s[1])[s[2]].result :
        s \in {t \in Sites(f) : Defines(Instructions(f, t[1])[t[2]])}}

\* value_types: the declared type of a value, from reachable definitions.
TypeOf(f, v) ==
    IF v \in Params(f)
    THEN Funcs[f].params[CHOOSE i \in DOMAIN Funcs[f].params :
                               Funcs[f].params[i].value = v].ty
    ELSE LET s == CHOOSE s \in DefiningSites(f, v) : TRUE
         IN  Instructions(f, s[1])[s[2]].ty

DefinedTwice(f) ==
    \E v \in Defined(f) :
        Cardinality(DefiningSites(f, v)) + (IF v \in Params(f) THEN 1 ELSE 0) > 1

alloc_slots(f) ==
    {Instructions(f, s[1])[s[2]].result :
        s \in {t \in Sites(f) : Instructions(f, t[1])[t[2]].op = "alloc"}}

-----------------------------------------------------------------------------
\* must_reach: what is true on every path from bb0 to the start of a block.
\* Every block but the first starts with everything; each turn of the loop
\* visits the blocks in ascending order and narrows their sets from what
\* their predecessors leave behind, until a turn changes nothing.

Predecessors(f, b) == {p \in reachable_blocks(f) : b \in terminator_targets(f, p)}

defines_after(f, b, entry) ==
    entry \cup {Instructions(f, b)[i].result :
                   i \in {j \in DOMAIN Instructions(f, b) : Defines(Instructions(f, b)[j])}}

stores_after(f, b, entry) ==
    entry \cup {Instructions(f, b)[i].args[1] :
                   i \in {j \in DOMAIN Instructions(f, b) : Instructions(f, b)[j].op = "store"}}

\* What every predecessor leaves behind.
Incoming(f, b, state, Generated(_, _, _)) ==
    LET out == {Generated(f, p, state[p]) : p \in Predecessors(f, b)}
    IN  {v \in UNION out : \A o \in out : v \in o}

\* Mutant of Optimistic: a block not yet visited provides nothing.
Pessimistic(f, universe, entry) ==
    [b \in reachable_blocks(f) |-> IF b = 0 THEN entry ELSE {}]

Optimistic(f, universe, entry) ==
    [b \in reachable_blocks(f) |-> IF b = 0 THEN entry ELSE universe]

-----------------------------------------------------------------------------
\* What the gate says of one use: "ok", or the code it refuses it with.

\* The first of the answers that is not "ok".
First(answers) ==
    IF \A i \in DOMAIN answers : answers[i] = "ok" THEN "ok"
    ELSE answers[Least({i \in DOMAIN answers : answers[i] # "ok"})]

operand(f, v, live) ==
    IF v \in alloc_slots(f) THEN "SLOT_USED_AS_VALUE"
    ELSE IF v \notin live THEN "UNVERIFIED_NIR"
    ELSE IF ~IsScalar(TypeOf(f, v)) THEN "UNSUPPORTED_TYPE"
    ELSE "ok"

Operands(f, args, live) == First([i \in DOMAIN args |-> operand(f, args[i], live)])

Require(p, code) == IF p THEN "ok" ELSE code

SlotOf(f, v, ty) == v \in alloc_slots(f) /\ TypeOf(f, v) = ty

\* An operator over values: the operands first, then their types.
Operator(f, ins, live, typed) ==
    First(<<Operands(f, ins.args, live),
            IF Operands(f, ins.args, live) = "ok" THEN Require(typed, "UNVERIFIED_NIR") ELSE "ok">>)

ArgTy(f, ins, i) == TypeOf(f, ins.args[i])

check_call(f, ins, live) ==
    IF ins.type_args # <<>> THEN "GENERIC_CODE"
    ELSE IF ins.evidence # <<>> THEN "CAPABILITY_DISPATCH"
    ELSE IF ins.callee \notin DOMAIN Funcs THEN "UNKNOWN_CALLEE"
    ELSE LET params == Funcs[ins.callee].params IN
         IF Len(ins.args) # Len(params) THEN "CALL_SIGNATURE_MISMATCH"
         ELSE First([i \in DOMAIN params |->
                        IF operand(f, ins.args[i], live) # "ok"
                        THEN operand(f, ins.args[i], live)
                        ELSE Require(ArgTy(f, ins, i) = params[i].ty, "CALL_SIGNATURE_MISMATCH")]
                    \o <<Require(Funcs[ins.callee].ret = ins.ty, "CALL_SIGNATURE_MISMATCH")>>)

check_value(f, ins, live) ==
    IF ~IsScalar(ins.ty) THEN "UNSUPPORTED_TYPE" ELSE
    CASE ins.op = "alloc" -> "ok"
      [] ins.op = "const" -> Require(ins.const.kind = ins.ty, "UNVERIFIED_NIR")
      [] ins.op = "load" -> Require(SlotOf(f, ins.args[1], ins.ty), "UNVERIFIED_NIR")
      [] ins.op \in {"add", "sub", "mul", "and", "or", "xor"} ->
            Operator(f, ins, live, /\ ArgTy(f, ins, 1) = "i64"
                                   /\ ArgTy(f, ins, 2) = "i64" /\ ins.ty = "i64")
      [] ins.op \in {"div", "rem", "shl", "shr"} -> "UNSUPPORTED_OPERATOR"
      [] ins.op = "neg" ->
            Operator(f, ins, live, ArgTy(f, ins, 1) = "i64" /\ ins.ty = "i64")
      [] ins.op = "not" ->
            Operator(f, ins, live, ArgTy(f, ins, 1) = ins.ty /\ ins.ty # "unit")
      [] ins.op \in {"eq", "ne"} ->
            Operator(f, ins, live, ArgTy(f, ins, 1) = ArgTy(f, ins, 2) /\ ins.ty = "bool")
      [] ins.op \in {"lt", "le", "gt", "ge"} ->
            LET typed == Operator(f, ins, live, ArgTy(f, ins, 1) = ArgTy(f, ins, 2)
                                                /\ ins.ty = "bool")
            IN  IF typed = "ok"
                THEN Require(ArgTy(f, ins, 1) # "unit", "UNSUPPORTED_OPERATOR")
                ELSE typed
      [] ins.op = "call" -> check_call(f, ins, live)
      [] OTHER -> "UNSUPPORTED_INSTRUCTION"

check_instruction(f, ins, live) ==
    IF ins.op # "store" THEN check_value(f, ins, live)
    ELSE IF ins.mode # "observe" THEN "UNSUPPORTED_INSTRUCTION"
    ELSE IF ins.args[1] \notin alloc_slots(f) THEN "UNVERIFIED_NIR"
    ELSE First(<<operand(f, ins.args[2], live),
                 IF operand(f, ins.args[2], live) = "ok"
                 THEN Require(ArgTy(f, ins, 1) = ArgTy(f, ins, 2), "UNVERIFIED_NIR")
                 ELSE "ok">>)

check_terminator(f, b, live) ==
    LET term == Funcs[f].blocks[b].term
        declared == Require(Range(term.targets) \subseteq DOMAIN Funcs[f].blocks, "UNVERIFIED_NIR")
    IN  IF term.op = "ret" /\ term.void THEN Require(Funcs[f].ret = "unit", "UNVERIFIED_NIR")
        ELSE IF term.op = "ret" THEN
                IF operand(f, term.value, live) # "ok" THEN operand(f, term.value, live)
                ELSE Require(TypeOf(f, term.value) = Funcs[f].ret, "UNVERIFIED_NIR")
        ELSE IF term.op = "br" THEN declared
        ELSE IF term.op = "cbr" THEN
                IF operand(f, term.value, live) # "ok" THEN operand(f, term.value, live)
                ELSE IF TypeOf(f, term.value) # "bool" THEN "UNVERIFIED_NIR"
                ELSE declared
        ELSE "UNSUPPORTED_TERMINATOR"

check_signature(f) ==
    LET fn == Funcs[f] IN
    IF fn.feature = "elsewhere" THEN "MULTI_MODULE_BUILD"
    ELSE IF fn.feature = "generic" THEN "GENERIC_CODE"
    ELSE IF fn.feature = "uses" THEN "CAPABILITY_DISPATCH"
    ELSE IF fn.feature = "raises" THEN "FALLIBLE_FUNCTION"
    ELSE IF f = Main /\ fn.params # <<>> THEN "ENTRY_PARAMETERS"
    ELSE IF f = Main /\ fn.ret \notin {"i64", "unit"} THEN "ENTRY_RETURN_TYPE"
    ELSE IF fn.feature = "take" THEN "UNSUPPORTED_INSTRUCTION"
    ELSE IF \E i \in DOMAIN fn.params : ~IsScalar(fn.params[i].ty) THEN "UNSUPPORTED_TYPE"
    ELSE IF ~IsScalar(fn.ret) THEN "UNSUPPORTED_TYPE"
    ELSE "ok"

\* What has been defined, or stored, before instruction i of block b.
LiveAt(f, b, i) ==
    flow.available[b] \cup Params(f)
    \cup {Instructions(f, b)[j].result :
             j \in {k \in 1 .. i - 1 : Defines(Instructions(f, b)[k])}}

StoredAt(f, b, i) ==
    flow.stored[b] \cup {Instructions(f, b)[j].args[1] :
                          j \in {k \in 1 .. i - 1 : Instructions(f, b)[k].op = "store"}}

check_block(f, b) ==
    First([i \in DOMAIN Instructions(f, b) |->
               check_instruction(f, Instructions(f, b)[i], LiveAt(f, b, i))]
          \o <<check_terminator(f, b, LiveAt(f, b, Len(Instructions(f, b)) + 1))>>)

check_slot_initialization(f) ==
    IF \E s \in Sites(f) :
          LET ins == Instructions(f, s[1])[s[2]]
          IN  ins.op = "load" /\ ins.args[1] \notin StoredAt(f, s[1], s[2])
    THEN "UNINITIALIZED_SLOT_LOAD"
    ELSE "ok"

\* check_body, once its analyses have settled: the blocks in ascending
\* order, then the slots.
check_body(f) ==
    LET order == Ascending(reachable_blocks(f))
        blocks == First([i \in DOMAIN order |-> check_block(f, order[i])])
    IN  IF blocks # "ok" THEN blocks ELSE check_slot_initialization(f)

-----------------------------------------------------------------------------
\* The validator's run.

Report(code, at) == [code |-> code, functions |-> at]

NoFlow == [phase |-> "none", available |-> <<>>, stored |-> <<>>,
           pending |-> {}, changed |-> FALSE]

NoScc == [roots |-> <<>>, work |-> <<>>, index |-> <<>>, low |-> <<>>,
          stack |-> <<>>, components |-> <<>>]

GateInit ==
    /\ stage = "walk"
    /\ queue = <<Main>> /\ reached = {Main}
    /\ unchecked = {} /\ flow = NoFlow /\ scc = NoScc
    /\ diagnostics = IF program.imports THEN <<Report("MULTI_MODULE_BUILD", <<>>)>> ELSE <<>>

\* One function of the reachability walk: the callees it adds are queued in
\* the order of their first call; only the set matters to what follows.  A
\* function whose blocks cannot be keyed is reported here, and has no callee.
Walk ==
    /\ stage = "walk" /\ queue # <<>>
    /\ LET new == (direct_callees(Head(queue)) \cap DOMAIN Funcs) \ reached IN
       /\ reached' = reached \cup new
       /\ queue' = Tail(queue) \o Ascending(new)
    /\ diagnostics' = IF blocks_by_id(Head(queue)) THEN diagnostics
                      ELSE Append(diagnostics, Report("UNVERIFIED_NIR", <<Head(queue)>>))
    /\ UNCHANGED <<program, stage, unchecked, flow, scc>>

\* What could not be keyed is not validated again.
WalkDone ==
    /\ stage = "walk" /\ queue = <<>>
    /\ stage' = "bodies" /\ unchecked' = {f \in reached : blocks_by_id(f)}
    /\ UNCHANGED <<program, queue, reached, flow, diagnostics, scc>>

Checking == Least(unchecked)

Settle(answer) ==
    /\ unchecked' = unchecked \ {Checking}
    /\ flow' = NoFlow
    /\ diagnostics' = IF answer = "ok" THEN diagnostics
                      ELSE Append(diagnostics, Report(answer, <<Checking>>))

\* validate_function: the signature, then the definitions, and only then the
\* analyses of the body.
ValidateFunction ==
    /\ stage = "bodies" /\ unchecked # {} /\ flow = NoFlow
    /\ LET f == Checking IN
       IF check_signature(f) # "ok" THEN Settle(check_signature(f))
       ELSE IF DefinedTwice(f) THEN Settle("UNVERIFIED_NIR")
       ELSE /\ flow' = [phase |-> "available",
                        available |-> Optimistic(f, Defined(f), Params(f)),
                        stored |-> Optimistic(f, alloc_slots(f), {}),
                        pending |-> reachable_blocks(f), changed |-> FALSE]
            /\ UNCHANGED <<unchecked, diagnostics>>
    /\ UNCHANGED <<program, stage, queue, reached, scc>>

\* One block of one turn of `while changed'; bb0 keeps what it starts with.
Narrowed(state, Generated(_, _, _)) ==
    LET b == Least(flow.pending) IN
    IF b = 0 THEN state
    ELSE [state EXCEPT ![b] = Incoming(Checking, b, state, Generated)]

AvailableBlock ==
    /\ stage = "bodies" /\ flow.phase = "available" /\ flow.pending # {}
    /\ LET narrowed == Narrowed(flow.available, defines_after)
       IN  flow' = [flow EXCEPT !.available = narrowed,
                                !.pending = @ \ {Least(@)},
                                !.changed = @ \/ narrowed # flow.available]
    /\ UNCHANGED <<program, stage, queue, reached, unchecked, diagnostics, scc>>

StoredBlock ==
    /\ stage = "bodies" /\ flow.phase = "stored" /\ flow.pending # {}
    /\ LET narrowed == Narrowed(flow.stored, stores_after)
       IN  flow' = [flow EXCEPT !.stored = narrowed,
                                !.pending = @ \ {Least(@)},
                                !.changed = @ \/ narrowed # flow.stored]
    /\ UNCHANGED <<program, stage, queue, reached, unchecked, diagnostics, scc>>

\* The end of a turn: another one after a change, else the next analysis.
TurnEnds ==
    /\ stage = "bodies" /\ flow.phase \in {"available", "stored"} /\ flow.pending = {}
    /\ flow' = [flow EXCEPT
                  !.pending = reachable_blocks(Checking), !.changed = FALSE,
                  !.phase = IF flow.changed THEN @
                            ELSE IF @ = "available" THEN "stored" ELSE "settled"]
    /\ UNCHANGED <<program, stage, queue, reached, unchecked, diagnostics, scc>>

CheckBody ==
    /\ stage = "bodies" /\ flow.phase = "settled"
    /\ Settle(check_body(Checking))
    /\ UNCHANGED <<program, stage, queue, reached, scc>>

BodiesDone ==
    /\ stage = "bodies" /\ unchecked = {}
    /\ stage' = "cycles"
    /\ scc' = [NoScc EXCEPT !.roots = Ascending(reached)]
    /\ UNCHANGED <<program, queue, reached, unchecked, flow, diagnostics>>

Edges(f) == Ascending(direct_callees(f) \cap reached)

Indexed(s) == DOMAIN s.index

\* The root loop of strongly_connected_components.
NextRoot ==
    /\ stage = "cycles" /\ scc.work = <<>> /\ scc.roots # <<>>
    /\ scc' = [scc EXCEPT !.roots = Tail(@),
                          !.work = IF Head(scc.roots) \in Indexed(scc) THEN <<>>
                                   ELSE <<[node |-> Head(scc.roots), next |-> 0]>>]
    /\ UNCHANGED <<program, stage, queue, reached, unchecked, flow, diagnostics>>

\* One item of the work stack.  An item with next = 0 enters its node; then
\* the callees from `next' on are looked at until one has no index yet.
Insert(f, x, v) == [y \in DOMAIN f \cup {x} |-> IF y = x THEN v ELSE f[y]]

Enter(s, node, next) ==
    IF next # 0 THEN s
    ELSE LET n == Cardinality(Indexed(s)) IN
         [s EXCEPT !.index = Insert(@, node, n), !.low = Insert(@, node, n),
                   !.stack = Append(@, node)]

MinOf(a, b) == IF a <= b THEN a ELSE b

\* Mutant of Lowered: a back edge is not carried to its component's root.
LeftAsItIs(s, node, n) == s
Lowered(s, node, n) == [s EXCEPT !.low[node] = MinOf(@, n)]

\* The item at the top of the work stack, once its node is entered; the first
\* callee from there on that has no index, if any; and the lowest index among
\* the callees before it that are on the stack.
Item == Last(scc.work)
Entered == Enter([scc EXCEPT !.work = Front(@)], Item.node, Item.next)
Fresh == {i \in DOMAIN Edges(Item.node) :
            i > Item.next /\ Edges(Item.node)[i] \notin Indexed(Entered)}
Looked == {Edges(Item.node)[i] :
             i \in {j \in DOMAIN Edges(Item.node) :
                      j > Item.next /\ (Fresh = {} \/ j < Least(Fresh))}}
Back == {Entered.index[c] : c \in Looked \cap Range(Entered.stack)}
Scanned == IF Back = {} THEN Entered ELSE Lowered(Entered, Item.node, Least(Back))

\* A callee without an index is visited before the rest of its caller's.
Descend ==
    /\ stage = "cycles" /\ scc.work # <<>> /\ Fresh # {}
    /\ scc' = [Scanned EXCEPT !.work = @ \o
                  <<[node |-> Item.node, next |-> Least(Fresh)],
                    [node |-> Edges(Item.node)[Least(Fresh)], next |-> 0]>>]
    /\ UNCHANGED <<program, stage, queue, reached, unchecked, flow, diagnostics>>

\* The stack from `node' up is a component when node is its root.
Pop(s, node) ==
    IF s.index[node] # s.low[node] THEN s
    ELSE LET at == CHOOSE i \in DOMAIN s.stack : s.stack[i] = node IN
         [s EXCEPT !.stack = SubSeq(@, 1, at - 1),
                   !.components = Append(@, Ascending(Range(SubSeq(s.stack, at, Len(s.stack)))))]

\* Every callee has been looked at; the caller's lowlink takes the node's.
Leave ==
    /\ stage = "cycles" /\ scc.work # <<>> /\ Fresh = {}
    /\ LET finished == Pop(Scanned, Item.node)
       IN  scc' = IF finished.work = <<>> THEN finished
                  ELSE Lowered(finished, Last(finished.work).node, finished.low[Item.node])
    /\ UNCHANGED <<program, stage, queue, reached, unchecked, flow, diagnostics>>

IsCycle(component) == Len(component) > 1 \/ component[1] \in direct_callees(component[1])

\* report_cycles: one diagnostic for each cycle, in the order of their least
\* members; then the plan, or the refusal.
ReportCycles ==
    /\ stage = "cycles" /\ scc.work = <<>> /\ scc.roots = <<>>
    /\ LET cycles == {c \in Range(scc.components) : IsCycle(c)}
           inOrder == SortedBy(cycles, [c \in cycles |-> c[1]])
       IN  /\ diagnostics' = diagnostics \o
                 [i \in DOMAIN inOrder |-> Report("RECURSIVE_CALL_GRAPH", inOrder[i])]
           /\ stage' = IF diagnostics' = <<>> THEN "planned" ELSE "refused"
    /\ UNCHANGED <<program, queue, reached, unchecked, flow, scc>>

GateNext ==
    \/ Walk \/ WalkDone
    \/ ValidateFunction \/ AvailableBlock \/ StoredBlock \/ TurnEnds \/ CheckBody \/ BodiesDone
    \/ NextRoot \/ Descend \/ Leave \/ ReportCycles

Decided == stage \notin {"walk", "bodies", "cycles"}

-----------------------------------------------------------------------------
\* Reference definitions, over paths and not over passes.  What a path reaches
\* is what every set that holds its start and follows its edges holds.

\* A path from bb0 reaches instruction i of block b without a store to slot v.
StoresTo(f, b, v) ==
    \E i \in DOMAIN Instructions(f, b) :
        Instructions(f, b)[i].op = "store" /\ Instructions(f, b)[i].args[1] = v

MissesStore(f, b, i, v) ==
    /\ \A S \in SUBSET DOMAIN Funcs[f].blocks :
          FollowsEdges(f, S, LAMBDA c : StoresTo(f, c, v)) => b \in S
    /\ \A j \in 1 .. i - 1 :
          ~(Instructions(f, b)[j].op = "store" /\ Instructions(f, b)[j].args[1] = v)

MissedLoad(f) ==
    \E s \in Sites(f) :
        LET ins == Instructions(f, s[1])[s[2]] IN
        ins.op = "load" /\ MissesStore(f, s[1], s[2], ins.args[1])

\* The gate's passes agree with the paths: a body refused for a load has a
\* path that reaches a load before any store of its slot, and a function the
\* gate says nothing about has none.
LoadsDecidedByPaths ==
    Decided =>
        \A f \in reached :
            LET said == {diagnostics[i].code : i \in {j \in DOMAIN diagnostics :
                                                       diagnostics[j].functions = <<f>>}}
                        \ {"RECURSIVE_CALL_GRAPH"}
            IN  /\ "UNINITIALIZED_SLOT_LOAD" \in said => MissedLoad(f)
                /\ said = {} => ~MissedLoad(f)

\* f names g as a callee where it can be reached; f calls g, directly or
\* through others, and every function reaches itself.
Names(f, g) ==
    \E b \in reachable_blocks(f) :
        \/ \E i \in DOMAIN Instructions(f, b) :
              Instructions(f, b)[i].op = "call" /\ Instructions(f, b)[i].callee = g
        \/ Funcs[f].blocks[b].term.op = "invoke" /\ Funcs[f].blocks[b].term.callee = g

Callees(f) == {g \in reached : Names(f, g)}
CallsReach(f, g) ==
    \A S \in SUBSET reached : f \in S /\ (\A h \in S : Callees(h) \subseteq S) => g \in S

OnCycle(f) == \E g \in Callees(f) : CallsReach(g, f)
CycleOf(f) == {g \in reached : CallsReach(f, g) /\ CallsReach(g, f)}

\* main calls f, directly or through others.
Called(f) ==
    \A S \in SUBSET DOMAIN Funcs :
        Main \in S /\ (\A h \in S : {g \in DOMAIN Funcs : Names(h, g)} \subseteq S) => f \in S

EachCycleOnce ==
    LET cycles == {i \in DOMAIN diagnostics : diagnostics[i].code = "RECURSIVE_CALL_GRAPH"}
    IN  /\ {Range(diagnostics[i].functions) : i \in cycles} = {CycleOf(f) : f \in {g \in reached : OnCycle(g)}}
        /\ \A i, j \in cycles :
              i < j => diagnostics[i].functions[1] < diagnostics[j].functions[1]

\* The gate reaches exactly what main calls, and every cycle of that call graph,
\* through calls and invokes, is reported exactly once, with exactly its
\* members, the cycles in the order of their least members.
CyclesReportedOnce ==
    Decided => reached = {f \in DOMAIN Funcs : Called(f)} /\ EachCycleOnce
=============================================================================
