----------------------------- MODULE ScalarRun -----------------------------
(***************************************************************************)
(* What a verified scalar program means: the reference interpreter         *)
(* (compiler/src/interpreter/mod.rs) on NIR that holds no aggregate.  It   *)
(* is the promise native code is held to: NativeCode implements this       *)
(* specification.                                                          *)
(*                                                                         *)
(* A program maps function ids to functions; a function has parameters, a  *)
(* result type and basic blocks; an instruction is a record of its         *)
(* operator, its result, the result's type, its operands, the constant and *)
(* the callee it names, the type arguments and evidence of a call and the  *)
(* ownership mode of a store.  A value is its kind and an integer: a bool  *)
(* is 0 or 1, unit is 0.                                                   *)
(***************************************************************************)
EXTENDS Numeric, Sequences, FiniteSets

CONSTANTS
    Main,               \* the id of the function named `main'
    MAX_CALL_DEPTH      \* limits::MAX_CALL_DEPTH

VARIABLES
    program,
    frames,             \* the call frames, the running one last
    outcome             \* Running, a value, or a failure

vars == <<program, frames, outcome>>

Funcs == program.functions

Running == [state |-> "running", value |-> Unit, code |-> "none", op |-> "none"]
Returned(v) == [Running EXCEPT !.state = "returned", !.value = v]
Failed(code, op) == [Running EXCEPT !.state = "failed", !.code = code, !.op = op]

Beyond == [Running EXCEPT !.state = "beyond"]

INVALID_OPERATION == "X0004"

-----------------------------------------------------------------------------
Frame(fn, values) == [fn |-> fn, block |-> 0, at |-> 1, values |-> values]

Depth == Len(frames)
Top == frames[Depth]
Block(fr) == Funcs[fr.fn].blocks[fr.block]
AtTerminator(fr) == fr.at > Len(Block(fr).ins)
Current(fr) == Block(fr).ins[fr.at]
Arg(fr, i) == fr.values[Current(fr).args[i]]

WithTop(fr) == [frames EXCEPT ![Depth] = fr]
Insert(fr, id, v) ==
    [fr EXCEPT !.at = @ + 1,
               !.values = [x \in DOMAIN @ \cup {id} |-> IF x = id THEN v ELSE @[x]]]

\* The two's complement bits of an i64, and the i64 of those bits.
BitsOf(n) == n % (2 ^ Bits)
Signed(u) == Wrap(u)

BitAt(u, i) == (u \div 2 ^ i) % 2
Bitwise2(F(_, _), u, w) ==
    LET bit[i \in 0 .. Bits] ==
          IF i = 0 THEN 0
          ELSE bit[i - 1] + F(BitAt(u, i - 1), BitAt(w, i - 1)) * 2 ^ (i - 1)
    IN  bit[Bits]
BAnd(x, y) == x * y
BOr(x, y) == IF x + y = 0 THEN 0 ELSE 1
BXor(x, y) == (x + y) % 2

bitop(op, a, b) ==
    CASE op = "and" -> Signed(Bitwise2(BAnd, BitsOf(a), BitsOf(b)))
      [] op = "or"  -> Signed(Bitwise2(BOr, BitsOf(a), BitsOf(b)))
      [] op = "xor" -> Signed(Bitwise2(BXor, BitsOf(a), BitsOf(b)))

ordered(op, a, b) ==
    CASE op = "lt" -> a < b
      [] op = "le" -> a <= b
      [] op = "gt" -> a > b
      [] op = "ge" -> a >= b

Orderings == {"lt", "le", "gt", "ge"}
Bitwise == {"and", "or", "xor"}

\* Interpreter::eval on scalar operands: [ok |-> TRUE, value |-> v], or the
\* failure.  Operands of the wrong kinds are an invalid operation.
Fine(v) == [ok |-> TRUE, value |-> v, code |-> "none", op |-> "none"]
Bad(code, op) == [ok |-> FALSE, value |-> Unit, code |-> code, op |-> op]
Invalid == Bad(INVALID_OPERATION, "none")

Lift(result) ==
    IF result.ok THEN Fine(IntValue(result.value)) ELSE Bad(result.code, result.op)

eval2(op, a, b) ==
    CASE op \in IntOps /\ a.kind = "i64" /\ b.kind = "i64" -> Lift(Arith(op, a.n, b.n))
      [] op \in Bitwise /\ a.kind = "i64" /\ b.kind = "i64" -> Fine(IntValue(bitop(op, a.n, b.n)))
      [] op = "eq" /\ a.kind = b.kind -> Fine(BoolValue(a.n = b.n))
      [] op = "ne" /\ a.kind = b.kind -> Fine(BoolValue(a.n # b.n))
      [] op \in Orderings /\ a.kind = b.kind /\ a.kind # "unit" ->
            Fine(BoolValue(ordered(op, a.n, b.n)))
      [] OTHER -> Invalid

eval1(op, a) ==
    CASE op = "neg" /\ a.kind = "i64" -> Lift(Arith("neg", a.n, 0))
      [] op = "not" /\ a.kind = "i64" -> Fine(IntValue(-a.n - 1))
      [] op = "not" /\ a.kind = "bool" -> Fine(BoolValue(a.n = 0))
      [] OTHER -> Invalid

const_value(c) == IF c.kind = "i64" /\ c.n \notin Int64 THEN Invalid ELSE Fine(c)

Binary == (IntOps \ {"neg"}) \cup Bitwise \cup Orderings \cup {"eq", "ne"}
Unary == {"neg", "not"}

\* The operands the next step reads.  A store only writes its slot.
Reads(fr) ==
    IF AtTerminator(fr)
    THEN LET term == Block(fr).term IN
         IF term.op = "cbr" \/ (term.op = "ret" /\ ~term.void) THEN {term.value} ELSE {}
    ELSE LET ins == Current(fr) IN
         {ins.args[i] : i \in {j \in DOMAIN ins.args : ins.op # "store" \/ j = 2}}

\* get: the block is there, and every operand has been computed in this frame.
get(fr) == fr.block \in DOMAIN Funcs[fr.fn].blocks /\ Reads(fr) \subseteq DOMAIN fr.values

eval(fr) ==
    LET ins == Current(fr) IN
    CASE ins.op = "alloc" -> Fine(Unit)
      [] ins.op = "const" -> const_value(ins.const)
      [] ins.op = "load" -> Fine(Arg(fr, 1))
      [] ins.op \in Unary -> eval1(ins.op, Arg(fr, 1))
      [] ins.op \in Binary -> eval2(ins.op, Arg(fr, 1), Arg(fr, 2))
      [] OTHER -> Invalid

\* An instruction's value must have the declared type, alloc excepted: it
\* names the slot.
matches_declared(ins, v) == ins.op = "alloc" \/ v.kind = ins.ty

-----------------------------------------------------------------------------
Fail(code, op) == /\ outcome' = Failed(code, op)
                  /\ UNCHANGED <<program, frames>>

\* "was read before it was computed", or "branch to unknown block".
Unread ==
    /\ outcome = Running /\ ~get(Top)
    /\ Fail(INVALID_OPERATION, "none")

\* One instruction that produces a value.
ValueInstruction ==
    /\ outcome = Running /\ get(Top) /\ ~AtTerminator(Top)
    /\ Current(Top).op \notin {"store", "call", "aggregate"}
    /\ LET result == eval(Top) IN
       IF result.ok /\ matches_declared(Current(Top), result.value)
       THEN /\ frames' = WithTop(Insert(Top, Current(Top).result, result.value))
            /\ UNCHANGED <<program, outcome>>
       ELSE IF result.ok THEN Fail(INVALID_OPERATION, "none")
                         ELSE Fail(result.code, result.op)

\* An instruction on a record, a variant or a resource, or a terminator that
\* takes a typed failure or a variant apart: from here on the run is not
\* scalar, and ResourceRuntime is its model.
Aggregate ==
    /\ outcome = Running /\ get(Top)
    /\ IF AtTerminator(Top) THEN Block(Top).term.op \notin {"ret", "br", "cbr"}
                            ELSE Current(Top).op = "aggregate"
    /\ outcome' = Beyond
    /\ UNCHANGED <<program, frames>>

Store ==
    /\ outcome = Running /\ get(Top) /\ ~AtTerminator(Top)
    /\ Current(Top).op = "store"
    /\ frames' = WithTop(Insert(Top, Current(Top).args[1], Arg(Top, 2)))
    /\ UNCHANGED <<program, outcome>>

\* call_function: a frame of its own, unless the callee is not there, too many
\* frames are already entered, or what is passed is not what the callee takes.
Enters(ins, args) ==
    /\ ins.callee \in DOMAIN Funcs
    /\ Depth < MAX_CALL_DEPTH
    /\ LET fn == Funcs[ins.callee] IN
       /\ Len(args) = Len(fn.params)
       /\ (ins.evidence # <<>>) = (fn.feature = "uses")
       /\ (ins.type_args # <<>>) = (fn.feature = "generic")
       /\ \A i \in DOMAIN args : args[i].kind = fn.params[i].ty

Call ==
    /\ outcome = Running /\ get(Top) /\ ~AtTerminator(Top)
    /\ Current(Top).op = "call"
    /\ LET ins == Current(Top)
           args == [i \in DOMAIN ins.args |-> Arg(Top, i)]
           params == Funcs[ins.callee].params
       IN  IF ~Enters(ins, args)
           THEN Fail(INVALID_OPERATION, "none")
           ELSE /\ frames' = Append(frames,
                     Frame(ins.callee,
                           [v \in {params[i].value : i \in DOMAIN params} |->
                              args[CHOOSE i \in DOMAIN params : params[i].value = v]]))
                /\ UNCHANGED <<program, outcome>>

Branch ==
    /\ outcome = Running /\ get(Top) /\ AtTerminator(Top)
    /\ LET term == Block(Top).term IN
       /\ term.op \in {"br", "cbr"}
       /\ \E target \in {IF term.op = "br" \/ Top.values[term.value].n = 1
                         THEN term.targets[1] ELSE term.targets[2]} :
             frames' = WithTop([Top EXCEPT !.block = target, !.at = 1])
       /\ UNCHANGED <<program, outcome>>

\* Return hands the value to the call instruction the caller stopped at.
Return ==
    /\ outcome = Running /\ get(Top) /\ AtTerminator(Top)
    /\ LET term == Block(Top).term
           v == IF term.void THEN Unit ELSE Top.values[term.value]
           caller == frames[Depth - 1]
       IN  /\ term.op = "ret"
           /\ IF Depth = 1
              THEN /\ outcome' = Returned(v)
                   /\ UNCHANGED frames
              ELSE /\ frames' = Append(SubSeq(frames, 1, Depth - 2),
                                       Insert(caller, Current(caller).result, v))
                   /\ UNCHANGED outcome
           /\ UNCHANGED program

\* The program is whatever was compiled: it only never changes.
Init ==
    /\ frames = <<Frame(Main, <<>>)>>
    /\ outcome = Running

Next == Unread \/ ValueInstruction \/ Aggregate \/ Store \/ Call \/ Branch \/ Return

Spec == Init /\ [][Next]_vars
=============================================================================
