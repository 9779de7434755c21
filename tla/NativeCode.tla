----------------------------- MODULE NativeCode -----------------------------
(***************************************************************************)
(* From a verified scalar program to the run of its executable: the gate   *)
(* of NativeCapability, code generation and the machine code it emits      *)
(* (compiler/src/native/lower.rs).  A program the gate refuses is still    *)
(* run, by the interpreter, "unchanged".                                   *)
(*                                                                         *)
(* A register holds the Bits bits of an i64 as a natural, a bool as 0 or   *)
(* 1; unit has no register.  An overflow test and the branch on it are     *)
(* steps of their own, and so are the write and the exit of a failure      *)
(* handler.  Interpreter, below, is ScalarRun under the mapping that reads *)
(* registers as the values they stand for: this specification implements   *)
(* it.                                                                     *)
(***************************************************************************)
EXTENDS NativeCapability, Numeric

CONSTANTS
    Programs,
    MAX_CALL_DEPTH,             \* limits::MAX_CALL_DEPTH, which native code does not have
    StatusBits,                 \* the low bits of main's result that a parent process sees
    RUNTIME_FAILURE_STATUS

IsVec(s) == Len(s) \in Nat /\ DOMAIN s = 1 .. Len(s)

\* A module is a finite table of functions, a function a finite table of
\* blocks; ItemId and BlockId are unsigned, and `main' has been found.
ASSUME ProgramsAssumption ==
    \A p \in Programs :
        /\ Main \in DOMAIN p.functions
        /\ IsFiniteSet(DOMAIN p.functions) /\ DOMAIN p.functions \subseteq Nat
        /\ \A f \in DOMAIN p.functions :
              /\ IsVec(p.functions[f].params)
              /\ IsFiniteSet(DOMAIN p.functions[f].blocks) /\ DOMAIN p.functions[f].blocks \subseteq Nat
              /\ \A b \in DOMAIN p.functions[f].blocks :
                    /\ IsVec(p.functions[f].blocks[b].ins)
                    /\ \A i \in DOMAIN p.functions[f].blocks[b].ins :
                          IsVec(p.functions[f].blocks[b].ins[i].args)

\* What the gate leaves to the verifier that ran before it (nir/verify.rs): a
\* slot is allocated on every path to a load or a store of it.  Some set of blocks holds bb0 and follows every edge, except
\* out of a block with the alloc, without holding the block of the use.
AllocatesSlot(fn, b, v) ==
    \E j \in DOMAIN fn.blocks[b].ins : fn.blocks[b].ins[j].op = "alloc" /\ fn.blocks[b].ins[j].result = v

SlotIsAllocated(fn, b, i, v) ==
    \/ \E j \in 1 .. i - 1 : fn.blocks[b].ins[j].op = "alloc" /\ fn.blocks[b].ins[j].result = v
    \/ \E S \in SUBSET DOMAIN fn.blocks :
          /\ 0 \in S /\ b \notin S
          /\ \A c \in S : \/ AllocatesSlot(fn, c, v)
                         \/ Range(fn.blocks[c].term.targets) \cap DOMAIN fn.blocks \subseteq S

ASSUME VerifiedAssumption ==
    \A p \in Programs : \A f \in DOMAIN p.functions :
        LET fn == p.functions[f] IN
        \A b \in DOMAIN fn.blocks : \A i \in DOMAIN fn.blocks[b].ins :
            fn.blocks[b].ins[i].op \in {"load", "store"} =>
                SlotIsAllocated(fn, b, i, fn.blocks[b].ins[i].args[1])

VARIABLES
    unemitted,          \* planned functions with no code yet
    postorder,          \* the block walk of the function being emitted
    frames,             \* the activations of the native run, the running one last
    process,            \* the process: its exit status, what it wrote to stderr,
                        \* and, as history, what main returned
    iframes, ioutcome   \* the interpreter's run of a refused program

runVars == <<unemitted, postorder, frames, process, iframes, ioutcome>>
vars == <<gateVars, runVars>>

Tool == INSTANCE ScalarRun WITH frames <- iframes, outcome <- ioutcome

-----------------------------------------------------------------------------
\* How an integer literal reaches NIR: `magnitude' under some negations.

\* check_integer_literal_ranges: only a `-' directly on the literal is part
\* of it.
check_literal(l) == literal(I64, l.magnitude, l.negations >= 1)

\* int_literal and lower_unary: that `-' is folded into the constant, every
\* further one is a checked neg.  Value ids count from `id'.
lower_literal(l, id) ==
    LET constant == [op |-> "const", result |-> id, ty |-> "i64", args |-> <<>>, callee |-> 0,
                     type_args |-> <<>>, evidence |-> <<>>, mode |-> "observe",
                     const |-> IntValue(check_literal(l).value)]
    IN  [i \in 1 .. (IF l.negations = 0 THEN 1 ELSE l.negations) |->
            IF i = 1 THEN constant
            ELSE [constant EXCEPT !.op = "neg", !.result = id + i - 1, !.args = <<id + i - 2>>]]

-----------------------------------------------------------------------------
\* Code generation.

\* reverse_postorder: a depth-first walk that takes successors in ascending
\* order; what is finished last is emitted first.
Emitting == Least(unemitted)

Successors(f, b) == Ascending(terminator_targets(f, b) \cap reachable_blocks(f))

NoWalk == [on |-> FALSE, work |-> <<>>, visited |-> {}, post |-> <<>>]

BeginBody ==
    /\ stage = "planned" /\ unemitted # {} /\ ~postorder.on
    /\ LET start == {0} \cap reachable_blocks(Emitting) IN
       postorder' = [on |-> TRUE, visited |-> start, post |-> <<>>,
                     work |-> IF start = {} THEN <<>> ELSE <<[block |-> 0, next |-> 0]>>]
    /\ UNCHANGED <<gateVars, unemitted, frames, process, iframes, ioutcome>>

\* The block on top of the walk, and its successors still to be visited.
Turn == Last(postorder.work)
Unvisited == {i \in DOMAIN Successors(Emitting, Turn.block) :
                i > Turn.next /\ Successors(Emitting, Turn.block)[i] \notin postorder.visited}

VisitBlock ==
    /\ stage = "planned" /\ postorder.on /\ postorder.work # <<>> /\ Unvisited # {}
    /\ LET target == Successors(Emitting, Turn.block)[Least(Unvisited)] IN
       postorder' = [postorder EXCEPT
                       !.visited = @ \cup {target},
                       !.work = Front(@) \o <<[block |-> Turn.block, next |-> Least(Unvisited)],
                                              [block |-> target, next |-> 0]>>]
    /\ UNCHANGED <<gateVars, unemitted, frames, process, iframes, ioutcome>>

FinishBlock ==
    /\ stage = "planned" /\ postorder.on /\ postorder.work # <<>> /\ Unvisited = {}
    /\ postorder' = [postorder EXCEPT !.work = Front(@), !.post = Append(@, Turn.block)]
    /\ UNCHANGED <<gateVars, unemitted, frames, process, iframes, ioutcome>>

\* Mutant of reverse_postorder: the blocks in the order of their ids.
AscendingBlocks == Ascending(reachable_blocks(Emitting))

reverse_postorder == Reverse(postorder.post)

\* The values an instruction's code names, by its kind; those of a block, its
\* terminator last; and the ones available to what is emitted after it.
Operates(ins) ==
    CASE ins.op \in {"alloc", "const"} -> {}
      [] ins.op = "load" -> {ins.args[1]}
      [] ins.op = "store" -> {ins.args[1], ins.args[2]}
      [] OTHER -> Range(ins.args)

Uses(f, b) ==
    [i \in 1 .. Len(Instructions(f, b)) + 1 |->
        IF i <= Len(Instructions(f, b)) THEN Operates(Instructions(f, b)[i])
        ELSE LET term == Funcs[f].blocks[b].term IN
             IF term.op = "cbr" \/ (term.op = "ret" /\ ~term.void) THEN {term.value} ELSE {}]

LoweredBefore(f, order, k, i) ==
    Params(f)
    \cup (UNION {defines_after(f, order[j], {}) : j \in 1 .. k - 1})
    \cup {Instructions(f, order[k])[j].result :
             j \in {n \in 1 .. i - 1 : Defines(Instructions(f, order[k])[n])}}

\* define_body: "was used before it was lowered" and "was never created" are
\* the failures left once the gate has accepted the function.
BodyLowers(f, order) ==
    /\ 0 \in Range(order)
    /\ \A k \in DOMAIN order :
          /\ \A i \in DOMAIN Uses(f, order[k]) : Uses(f, order[k])[i] \subseteq LoweredBefore(f, order, k, i)
          /\ Funcs[f].blocks[order[k]].term.op \in {"br", "cbr"} =>
                terminator_targets(f, order[k]) \subseteq Range(order)

EmitFunction ==
    /\ stage = "planned" /\ unemitted # {} /\ postorder.on /\ postorder.work = <<>>
    /\ IF BodyLowers(Emitting, reverse_postorder)
       THEN unemitted' = unemitted \ {Emitting} /\ UNCHANGED stage
       ELSE stage' = "codegen_failed" /\ UNCHANGED unemitted
    /\ postorder' = NoWalk
    /\ UNCHANGED <<program, queue, reached, unchecked, flow, diagnostics, scc,
                   frames, process, iframes, ioutcome>>

-----------------------------------------------------------------------------
\* The emitted code.

\* `fresh' is a history variable: the slots allocated and not stored since.
\* `pending' is the overflow test between an operation and its branch.
NoTest == [on |-> FALSE, result |-> 0, overflowed |-> FALSE]

Activation(fn, values) ==
    [fn |-> fn, block |-> 0, at |-> 1, values |-> values, slots |-> <<>>,
     fresh |-> {}, pending |-> NoTest]

Depth == Len(frames)
Top == frames[Depth]
Block(fr) == Funcs[fr.fn].blocks[fr.block]
AtTerminator(fr) == fr.at > Len(Block(fr).ins)
Current(fr) == Block(fr).ins[fr.at]
Register(fr, i) == fr.values[Current(fr).args[i]]

SetReg(regs, id, u) == [x \in DOMAIN regs \cup {id} |-> IF x = id THEN u ELSE regs[x]]

WithTop(fr) == frames' = [frames EXCEPT ![Depth] = fr]
Result(fr, u) == [fr EXCEPT !.at = @ + 1, !.values = SetReg(@, Current(fr).result, u)]

Modulus == 2 ^ Bits
Signed(u) == Wrap(u)
Negative(u) == Signed(u) < 0
BXor(u, w) == Tool!Bitwise2(Tool!BXor, u, w)
BAnd(u, w) == Tool!Bitwise2(Tool!BAnd, u, w)
BOr(u, w) == Tool!Bitwise2(Tool!BOr, u, w)

iadd(u, w) == (u + w) % Modulus
isub(u, w) == (u - w) % Modulus
imul(u, w) == (u * w) % Modulus
ineg(u) == (-u) % Modulus
smulhi(u, w) == ((Signed(u) * Signed(w)) \div Modulus) % Modulus
sshr_all(u) == IF Negative(u) THEN Modulus - 1 ELSE 0

\* checked_binary: the operation and its signed-overflow test.
add_overflowed(u, w) == Negative(BAnd(BXor(u, iadd(u, w)), BXor(w, iadd(u, w))))
\* Mutant of sub_overflowed: the test of addition.
sub_overflowed_as_add(u, w) == Negative(BAnd(BXor(u, isub(u, w)), BXor(w, isub(u, w))))
sub_overflowed(u, w) == Negative(BAnd(BXor(u, w), BXor(u, isub(u, w))))
mul_overflowed(u, w) == smulhi(u, w) # sshr_all(imul(u, w))
neg_overflowed(u) == Signed(u) = domain_min(I64)

checked(op, u, w) ==
    CASE op = "add" -> [on |-> TRUE, result |-> iadd(u, w), overflowed |-> add_overflowed(u, w)]
      [] op = "sub" -> [on |-> TRUE, result |-> isub(u, w), overflowed |-> sub_overflowed(u, w)]
      [] op = "mul" -> [on |-> TRUE, result |-> imul(u, w), overflowed |-> mul_overflowed(u, w)]
      [] op = "neg" -> [on |-> TRUE, result |-> ineg(u), overflowed |-> neg_overflowed(u)]

CHECKED == {"add", "sub", "mul", "neg"}

Flag(p) == IF p THEN 1 ELSE 0

\* Integers compare signed, bools unsigned over 0 and 1.
Compared(op, ty, u, w) ==
    LET a == IF ty = "i64" THEN Signed(u) ELSE u
        b == IF ty = "i64" THEN Signed(w) ELSE w
    IN  Flag(CASE op = "eq" -> a = b [] op = "ne" -> a # b
               [] op = "lt" -> a < b [] op = "le" -> a <= b
               [] op = "gt" -> a > b [] op = "ge" -> a >= b)

\* value_kind for everything that has neither a test nor a call.  A load of a
\* Cranelift variable no definition reaches is a zero.
Computed(fr) ==
    LET ins == Current(fr) IN
    CASE ins.op = "const" -> IF ins.ty = "i64" THEN ins.const.n % Modulus ELSE ins.const.n
      [] ins.op = "load" -> IF ins.args[1] \in DOMAIN fr.slots THEN fr.slots[ins.args[1]] ELSE 0
      [] ins.op = "and" -> BAnd(Register(fr, 1), Register(fr, 2))
      [] ins.op = "or" -> BOr(Register(fr, 1), Register(fr, 2))
      [] ins.op = "xor" -> BXor(Register(fr, 1), Register(fr, 2))
      [] ins.op = "not" /\ ins.ty = "i64" -> Modulus - 1 - Register(fr, 1)
      [] ins.op = "not" -> 1 - Register(fr, 1)
      [] OTHER -> Compared(ins.op, TypeOf(fr.fn, ins.args[1]), Register(fr, 1), Register(fr, 2))

Live == stage = "running" /\ ~process.exited
Body == Live /\ ~AtTerminator(Top) /\ ~Top.pending.on

KeepGate == UNCHANGED <<gateVars, unemitted, postorder, iframes, ioutcome>>

\* The entry wrapper calls the program's main.
Launch ==
    /\ stage = "planned" /\ unemitted = {}
    /\ stage' = "running"
    /\ UNCHANGED <<program, queue, reached, unchecked, flow, diagnostics, scc, runVars>>

Alloc ==
    /\ Body /\ Current(Top).op = "alloc"
    /\ WithTop([Top EXCEPT !.at = @ + 1, !.fresh = @ \cup {Current(Top).result}])
    /\ UNCHANGED process /\ KeepGate

Store ==
    /\ Body /\ Current(Top).op = "store"
    /\ WithTop([Top EXCEPT !.at = @ + 1, !.fresh = @ \ {Current(Top).args[1]},
                           !.slots = SetReg(@, Current(Top).args[1], Register(Top, 2))])
    /\ UNCHANGED process /\ KeepGate

Compute ==
    /\ Body /\ Current(Top).op \notin CHECKED \cup {"alloc", "store", "call"}
    /\ WithTop(Result(Top, Computed(Top)))
    /\ UNCHANGED process /\ KeepGate

CheckedOperation ==
    /\ Body /\ Current(Top).op \in CHECKED
    /\ LET w == IF Current(Top).op = "neg" THEN 0 ELSE Register(Top, 2) IN
       WithTop([Top EXCEPT !.pending = checked(Current(Top).op, Register(Top, 1), w)])
    /\ UNCHANGED process /\ KeepGate

\* guard: the branch on the test.
Continue ==
    /\ Live /\ Top.pending.on /\ ~Top.pending.overflowed
    /\ WithTop(Result([Top EXCEPT !.pending = NoTest], Top.pending.result))
    /\ UNCHANGED process /\ KeepGate

\* The failure handler of the operation: one line on stderr, then exit.
WriteFailure ==
    /\ Live /\ Top.pending.on /\ Top.pending.overflowed /\ process.stderr = "none"
    /\ process' = [process EXCEPT !.stderr = Current(Top).op]
    /\ UNCHANGED frames /\ KeepGate

ExitFailure ==
    /\ Live /\ process.stderr # "none"
    /\ process' = [process EXCEPT !.exited = TRUE, !.status = RUNTIME_FAILURE_STATUS]
    /\ UNCHANGED frames /\ KeepGate

\* No limit: what the machine's stack holds is not part of the model.
Call ==
    /\ Body /\ Current(Top).op = "call"
    /\ LET ins == Current(Top)
           params == Funcs[ins.callee].params
       IN  frames' = Append(frames, Activation(ins.callee,
                        [v \in Params(ins.callee) |->
                           Register(Top, CHOOSE i \in DOMAIN params : params[i].value = v)]))
    /\ UNCHANGED process /\ KeepGate

Branch ==
    /\ Live /\ AtTerminator(Top) /\ Block(Top).term.op \in {"br", "cbr"}
    /\ LET term == Block(Top).term IN
       WithTop([Top EXCEPT !.at = 1,
                  !.block = IF term.op = "br" \/ Top.values[term.value] = 1
                            THEN term.targets[1] ELSE term.targets[2]])
    /\ UNCHANGED process /\ KeepGate

\* define_entry_wrapper: unit is status 0; an i64 is reduced to 32 bits, of
\* which the parent process sees the low ones.
ireduce(u) == u % 2 ^ StatusBits
exit_status(u) == IF Funcs[Main].ret = "unit" THEN 0 ELSE ireduce(u)

\* A unit result is returned by returning nothing.  What main returns ends the
\* process.
Return ==
    /\ Live /\ AtTerminator(Top) /\ Block(Top).term.op = "ret"
    /\ LET term == Block(Top).term
           u == IF term.void THEN 0 ELSE Top.values[term.value]
           caller == frames[Depth - 1]
       IN  IF Depth = 1
           THEN /\ process' = [process EXCEPT !.exited = TRUE, !.result = u, !.status = exit_status(u)]
                /\ UNCHANGED frames
           ELSE /\ frames' = Append(SubSeq(frames, 1, Depth - 2), Result(caller, u))
                /\ UNCHANGED process
    /\ KeepGate

\* A refused program, run by the interpreter.
Interpret ==
    /\ stage = "refused"
    /\ Tool!Next
    /\ UNCHANGED <<stage, queue, reached, unchecked, flow, diagnostics, scc, unemitted, postorder, frames, process>>

Gate == GateNext /\ unemitted' = (IF stage' = "planned" THEN reached ELSE {})
                 /\ UNCHANGED <<postorder, frames, process, iframes, ioutcome>>

Init ==
    /\ program \in Programs
    /\ GateInit
    /\ unemitted = {} /\ postorder = NoWalk
    /\ frames = <<Activation(Main, <<>>)>>
    /\ process = [exited |-> FALSE, stderr |-> "none", result |-> 0, status |-> 0]
    /\ iframes = <<Tool!Frame(Main, <<>>)>> /\ ioutcome = Tool!Running

-----------------------------------------------------------------------------
\* The refinement mapping: a register is the value of its declared type, a
\* slot that was allocated and not stored is unit.

ValueOf(ty, u) ==
    CASE ty = "i64" -> IntValue(Signed(u))
      [] ty = "bool" -> [kind |-> "bool", n |-> u]
      [] OTHER -> Unit

MappedFrame(fr) ==
    [fn |-> fr.fn, block |-> fr.block, at |-> fr.at,
     values |-> [v \in DOMAIN fr.values \cup DOMAIN fr.slots \cup fr.fresh |->
                   IF v \in fr.fresh THEN Unit
                   ELSE IF v \in DOMAIN fr.slots THEN ValueOf(TypeOf(fr.fn, v), fr.slots[v])
                   ELSE ValueOf(TypeOf(fr.fn, v), fr.values[v])]]

MappedFrames ==
    IF stage = "refused" THEN iframes
    ELSE [i \in DOMAIN frames |-> MappedFrame(frames[i])]

MappedOutcome ==
    IF stage = "refused" THEN ioutcome
    ELSE IF ~process.exited THEN Tool!Running
    ELSE IF process.stderr # "none" THEN Tool!Failed("X0002", process.stderr)
    ELSE Tool!Returned(ValueOf(Funcs[Main].ret, process.result))

\* Nothing but the end of the run stops the system.
Ended == MappedOutcome.state # "running" /\ UNCHANGED vars

Next ==
    \/ Gate \/ BeginBody \/ VisitBlock \/ FinishBlock \/ EmitFunction \/ Launch \/ Alloc \/ Store \/ Compute
    \/ CheckedOperation \/ Continue \/ WriteFailure \/ ExitFailure
    \/ Call \/ Branch \/ Return \/ Interpret \/ Ended

Spec == Init /\ [][Next]_vars

\* One process, one instruction stream: it goes on while it can.

Interpreter == INSTANCE ScalarRun WITH frames <- MappedFrames, outcome <- MappedOutcome

\* The exit status the outcome of a run stands for.
StatusOf(end) ==
    IF end.state = "failed" THEN RUNTIME_FAILURE_STATUS ELSE end.value.n % 2 ^ StatusBits

\* A call where the interpreter would refuse one.
CallsTooDeep == Depth >= MAX_CALL_DEPTH /\ Call

\* An executable does what the interpreter does: the same instructions, the
\* same values, the same result modulo the truncation of the exit status, or
\* the same failure of the same operator (native/lower.rs restates the rules of
\* types/numeric.rs in machine terms).  The one step that is its own is a call
\* with MAX_CALL_DEPTH frames entered: the interpreter fails there and native code
\* has no such limit, though rfcs/0015 has the two agree on whether a program fails.
RunsAsInterpreted ==
    /\ Interpreter!Init
    /\ [][Interpreter!Next \/ CallsTooDeep]_<<program, MappedFrames, MappedOutcome>>
    /\ [](process.exited => process.status = StatusOf(MappedOutcome))

\* "capability validation accepted this program, so this is a defect in the
\* backend": what the gate plans, code generation can emit.
PlannedIsEmitted == stage # "codegen_failed"

\* What a written expression means: the exact result of its operator on the
\* numbers written, or a failure when no i64 is one.  The minimum can be
\* written, and is the one literal whose magnitude is not a value.
Written(l) == IF l.negations % 2 = 1 THEN -l.magnitude ELSE l.magnitude

NegationOverflows(l) == l.negations >= 2 /\ l.magnitude = -domain_min(I64)

MeansWhatIsWritten ==
    LET src == program.source
        a == Written(src.left)
        b == Written(src.right)
        end == MappedOutcome
    IN  (src.op # "none" /\ end.state \in {"returned", "failed"}) =>
            IF NegationOverflows(src.left) \/ NegationOverflows(src.right)
            THEN end = Tool!Failed("X0002", "neg")
            ELSE IF end.state = "returned"
            THEN end.value.n \in Int64 /\ Answers(src.op, a, b, end.value.n)
            ELSE /\ ~\E n \in Int64 : Answers(src.op, a, b, n)
                 /\ end.code = CASE src.op \in {"div", "rem"} /\ b = 0 -> "X0001"
                                 [] src.op \in {"shl", "shr"} -> "X0003"
                                 [] OTHER -> "X0002"
=============================================================================
