---------------------------- MODULE MCNativeCode ----------------------------
(***************************************************************************)
(* The programs of the instance: every expression of one operator on two   *)
(* literals, every placement of stores and loads over three blocks, every  *)
(* call graph of three functions, and what the gate refuses.               *)
(***************************************************************************)
EXTENDS NativeCode

CONSTANTS Operators, Negations

Ins(op, result, ty, args) ==
    [op |-> op, result |-> result, ty |-> ty, args |-> args,
     const |-> Unit, callee |-> 0, type_args |-> <<>>, evidence |-> <<>>, mode |-> "observe"]
Const(result, v) == [Ins("const", result, v.kind, <<>>) EXCEPT !.const = v]
CallTo(result, callee) == [Ins("call", result, "i64", <<>>) EXCEPT !.callee = callee]

RetVoid == [op |-> "ret", void |-> TRUE, value |-> 0, targets |-> <<>>, callee |-> 0]
Ret(v) == [RetVoid EXCEPT !.void = FALSE, !.value = v]
Br(t) == [RetVoid EXCEPT !.op = "br", !.targets = <<t>>]
CBr(c, t, e) == [RetVoid EXCEPT !.op = "cbr", !.value = c, !.targets = <<t, e>>]
Invoke(callee, t) == [RetVoid EXCEPT !.op = "invoke", !.callee = callee, !.targets = <<t>>]

BlockOf(ins, term) == [ins |-> ins, term |-> term]
Fn(params, ret, blocks) ==
    [params |-> params, ret |-> ret, blocks |-> blocks, duplicate |-> FALSE, feature |-> "plain"]
OneBlock(ins, term) == [b \in {0} |-> BlockOf(ins, term)]

NoSource == [op |-> "none", left |-> [magnitude |-> 0, negations |-> 0],
             right |-> [magnitude |-> 0, negations |-> 0]]
Program(functions) == [functions |-> functions, imports |-> FALSE, source |-> NoSource]

-----------------------------------------------------------------------------
Literals == {l \in [magnitude : 0 .. 2 ^ (Bits - 1), negations : Negations] :
                check_literal(l).ok}

Expression(op, left, right) ==
    LET l == lower_literal(left, 0)
        r == lower_literal(right, Len(l))
        n == Len(l) + Len(r)
        operands == IF op = "neg" THEN <<Len(l) - 1>> ELSE <<Len(l) - 1, n - 1>>
    IN  [Program([f \in {Main} |->
            Fn(<<>>, "i64", OneBlock(l \o r \o <<Ins(op, n, "i64", operands)>>, Ret(n)))])
         EXCEPT !.source = [op |-> op, left |-> left, right |-> right]]

Expressions == {Expression(op, l, r) : op \in Operators, l \in Literals, r \in Literals}

-----------------------------------------------------------------------------
Slot == 0   Cond == 1   Word == 2   Second == 3

StoreIt == Ins("store", 99, "unit", <<Slot, Word>>)
LoadIt(r) == Ins("load", r, "i64", <<Slot>>)
Bodies(r) == {<<>>, <<StoreIt>>, <<LoadIt(r)>>, <<StoreIt, LoadIt(r)>>, <<LoadIt(r), StoreIt>>}

SlotPrograms ==
    {Program([f \in {Main} |-> Fn(<<>>, "i64", [b \in 0 .. 2 |->
        CASE b = 0 -> BlockOf(<<Ins("alloc", Slot, "i64", <<>>), Const(Cond, BoolValue(c)),
                                Const(Word, IntValue(-1))>> \o store, t0)
          [] b = 1 -> BlockOf(b1, t1)
          [] b = 2 -> BlockOf(b2, t2)])]) :
       c \in BOOLEAN, store \in {<<>>, <<StoreIt>>}, b1 \in Bodies(10), b2 \in Bodies(20),
       t0 \in {Br(1), Br(2), CBr(Cond, 1, 2)},
       t1 \in {Br(2), CBr(Cond, 1, 2), CBr(Cond, 2, 0), Ret(Word), Ret(20)},
       t2 \in {Ret(Word), Ret(10), Br(1), CBr(Cond, 0, 1)}}

-----------------------------------------------------------------------------
Calling(callees) ==
    LET order == Ascending(callees)
        calls == [i \in DOMAIN order |-> CallTo(i, order[i])]
    IN  Fn(<<>>, "i64", OneBlock(<<Const(0, IntValue(1))>> \o calls, Ret(Len(order))))

CallGraphs == {Program([f \in 0 .. 2 |-> Calling(g[f])]) : g \in [0 .. 2 -> SUBSET (0 .. 2)]}

\* Call graphs of main and two fallible functions, which are only invoked; any
\* of them may call main.
Invoking(callees, via) ==
    IF via = 0 THEN Calling(callees)
    ELSE [Calling(callees) EXCEPT
            !.blocks = [b \in 0 .. 1 |-> IF b = 0 THEN BlockOf(@[0].ins, Invoke(via, 1))
                                         ELSE BlockOf(<<>>, @[0].term)]]

InvokeGraphs ==
    {Program([f \in 0 .. 2 |->
        [Invoking(g[f], v[f]) EXCEPT !.feature = IF f = Main THEN "plain" ELSE "raises"]]) :
       g \in [0 .. 2 -> SUBSET {Main}], v \in [0 .. 2 -> 0 .. 2]}

\* NIR built by hand, at which the gate looks again: a callee whose blocks
\* cannot be keyed, or that is not there; a store that transfers.  Each is
\* reached, and its block may never run.
Malformed ==
    {Program([f \in {Main, 1} |->
        IF f = Main
        THEN Fn(<<>>, "i64",
                [b \in 0 .. 2 |->
                    CASE b = 0 -> BlockOf(<<Ins("alloc", Slot, "i64", <<>>), Const(Cond, BoolValue(c)),
                                            Const(Word, IntValue(-1))>>, CBr(Cond, 1, 2))
                      [] b = 1 -> BlockOf(ins, Ret(Word))
                      [] b = 2 -> BlockOf(<<>>, Ret(Word))])
        ELSE [Calling({1}) EXCEPT !.duplicate = twice,
                                  !.blocks = [b \in {first} |-> @[0]]]]) :
       c \in BOOLEAN, twice \in BOOLEAN, first \in {0, 3},
       ins \in {<<CallTo(Second, 1)>>, <<CallTo(Second, 7)>>, <<[StoreIt EXCEPT !.mode = "transfer"]>>}}

\* A function with a parameter of each type, called with what two literals
\* say; and what the gate refuses, where it is reached and where it is not.
Comparing(op, x, y) ==
    Program([f \in {Main, 1} |->
        IF f = Main
        THEN Fn(<<>>, "unit", OneBlock(<<Const(0, x), Const(1, y),
                 [Ins("call", 2, "bool", <<0, 1>>) EXCEPT !.callee = 1], Ins("not", 3, "bool", <<2>>)>>,
                 RetVoid))
        ELSE Fn(<<[value |-> 0, ty |-> x.kind], [value |-> 1, ty |-> y.kind]>>, "bool",
                OneBlock(<<Ins(op, 2, "bool", <<0, 1>>)>>, Ret(2)))])

Sample == {IntValue(n) : n \in {domain_min(I64), -1, 0, 1}}
          \cup {BoolValue(FALSE), BoolValue(TRUE), Unit}

Comparisons == {Comparing(op, x, y) : op \in {"eq", "ne", "lt", "le", "gt", "ge"},
                                      x \in Sample, y \in Sample}

Bitwise3 ==
    {Program([f \in {Main} |-> Fn(<<>>, "i64",
        OneBlock(<<Const(0, IntValue(a)), Const(1, IntValue(b)),
                   Ins(op, 2, "i64", <<0, 1>>), Ins("not", 3, "i64", <<2>>)>>, Ret(3)))]) :
       op \in {"and", "or", "xor"}, a \in Int64, b \in Int64}

\* The second block is reached or not; the third function is called or not.
Refusable ==
    {[functions |->
        [f \in {Main, 1} |->
            IF f = Main
            THEN Fn(<<>>, "i64",
                    [b \in 0 .. 1 |->
                        IF b = 0 THEN BlockOf(<<Const(0, IntValue(0))>> \o [i \in DOMAIN call |->
                                        [call[i] EXCEPT !.type_args = IF feature = "generic" THEN <<"i64">> ELSE @,
                                                        !.evidence = IF feature = "uses" THEN <<"extension">> ELSE @]],
                                        t0)
                        ELSE BlockOf(<<Ins("aggregate", 8, ty, <<>>)>>, Ret(0))])
            ELSE [Calling({}) EXCEPT !.feature = feature]],
      imports |-> imports, source |-> NoSource] :
       call \in {<<>>, <<CallTo(1, 1)>>}, t0 \in {Ret(0), Br(1)}, ty \in {"i64", "record"},
       feature \in {"plain", "generic", "uses", "raises", "take", "elsewhere"},
       imports \in BOOLEAN}

AllPrograms ==
    Expressions \cup SlotPrograms \cup CallGraphs \cup InvokeGraphs \cup Malformed \cup Comparisons
    \cup Bitwise3 \cup Refusable
=============================================================================
