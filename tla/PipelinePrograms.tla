------------------------- MODULE PipelinePrograms -------------------------
(***************************************************************************)
(* Functions for the pipeline: every one of a few shapes, filled with      *)
(* every choice of simple statements over one owned value.                 *)
(***************************************************************************)
EXTENDS Naturals, Sequences

CONSTANT Shapes     \* <<shape, type>>: which functions to try

-----------------------------------------------------------------------------
\* Types: R is a resource, D a resource that owns one, P a record of two, V a
\* variant with a D and without; a failure F carries none, a failure E one.
TheFieldTypes == [R |-> <<>>, D |-> <<"R">>, P |-> <<"R", "R">>, V |-> <<"D">>,
                 F |-> <<"Unit">>, E |-> <<"R">>]
TheCases == [V |-> <<<<"D">>, <<>>>>, F |-> <<<<"Unit">>>>, E |-> <<<<"R">>>>]
TheDeclaredResources == {"R", "D"}

sig(take, ret, raises) == [take |-> take, ret |-> ret, raises |-> raises]

TheSignatures ==
    [take_R |-> sig(<<TRUE>>, "Unit", "none"), look_R |-> sig(<<FALSE>>, "Unit", "none"),
     take_D |-> sig(<<TRUE>>, "Unit", "none"), look_D |-> sig(<<FALSE>>, "Unit", "none"),
     take_P |-> sig(<<TRUE>>, "Unit", "none"), look_P |-> sig(<<FALSE>>, "Unit", "none"),
     take_V |-> sig(<<TRUE>>, "Unit", "none"), look_V |-> sig(<<FALSE>>, "Unit", "none"),
     both |-> sig(<<FALSE, TRUE>>, "Unit", "none"),
     open |-> sig(<<>>, "R", "F"), lend |-> sig(<<>>, "R", "E"),
     own |-> sig(<<TRUE>>, "Unit", "none"), see |-> sig(<<FALSE>>, "Unit", "none"),
     fail |-> sig(<<TRUE>>, "Unit", "F"), giveR |-> sig(<<TRUE>>, "R", "none"),
     giveD |-> sig(<<TRUE>>, "D", "none"), giveP |-> sig(<<TRUE>>, "P", "none"),
     giveV |-> sig(<<TRUE>>, "V", "none")]

none == [k |-> "none"]
scalar == [k |-> "scalar"]
wild == [k |-> "wild"]
local(l) == [k |-> "local", local |-> l]
field(e, n) == [k |-> "field", base |-> e, field |-> n]
call(fn, args) == [k |-> "call", fn |-> fn, args |-> args]
block(stmts, tail) == [k |-> "block", stmts |-> stmts, tail |-> tail]
expr(e) == [k |-> "expr", e |-> e]
bind(l, m, e) == [k |-> "bind", local |-> l, mutable |-> m, value |-> e]
if(then, else) == [k |-> "if", cond |-> scalar, then |-> then, else |-> else]
arm(pat, body) == [pat |-> pat, body |-> body]
case(n, args) == [k |-> "case", case |-> n, args |-> args]
binder(l) == [k |-> "bind", local |-> l]
RECURSIVE new(_)
new(ty) == CASE ty = "R" -> [k |-> "literal", ty |-> ty, args |-> <<>>]
             [] ty = "D" -> [k |-> "literal", ty |-> ty, args |-> <<new("R")>>]
             [] ty = "P" -> [k |-> "literal", ty |-> ty,
                             args |-> <<new("R"), new("R")>>]
             [] ty = "V" -> [k |-> "case", ty |-> "V", args |-> <<new("D")>>]
             [] ty = "F" -> [k |-> "case", ty |-> "F", args |-> <<scalar>>]
             [] ty = "E" -> [k |-> "case", ty |-> "E", args |-> <<new("R")>>]

function(name, params, ret, body) == [name |-> name, params |-> params, ret |-> ret, body |-> body]
taken(l) == [local |-> l, take |-> TRUE]
seen(l) == [local |-> l, take |-> FALSE]

raising(ty) == if(block(<<expr([k |-> "raise", e |-> new(ty)])>>, none), none)

TheLibrary ==
    [take_R |-> function("take_R", <<taken(<<"R", 1>>)>>, "Unit", block(<<>>, none)),
     take_D |-> function("take_D", <<taken(<<"D", 1>>)>>, "Unit", block(<<>>, none)),
     take_P |-> function("take_P", <<taken(<<"P", 1>>)>>, "Unit", block(<<>>, none)),
     take_V |-> function("take_V", <<taken(<<"V", 1>>)>>, "Unit", block(<<>>, none)),
     look_R |-> function("look_R", <<seen(<<"R", 1>>)>>, "Unit", block(<<>>, none)),
     look_D |-> function("look_D", <<seen(<<"D", 1>>)>>, "Unit", block(<<>>, none)),
     look_P |-> function("look_P", <<seen(<<"P", 1>>)>>, "Unit", block(<<>>, none)),
     look_V |-> function("look_V", <<seen(<<"V", 1>>)>>, "Unit", block(<<>>, none)),
     both |-> function("both", <<seen(<<"R", 1>>), taken(<<"R", 2>>)>>, "Unit", block(<<>>, none)),
     open |-> function("open", <<>>, "R", block(<<expr(raising("F"))>>, new("R"))),
     lend |-> function("lend", <<>>, "R", block(<<expr(raising("E"))>>, new("R")))]

\* The entry point makes the argument and calls the function.
TheEntryOf(f) ==
    LET ty == f.params[1].local[1]
        it == <<ty, 1>>
        failure == [k |-> "handle", operand |-> call(f.name, <<new(ty)>>),
                    ok |-> arm(wild, scalar), err |-> arm(wild, scalar)]
    IN  function("main", <<>>, "Unit",
            block(CASE f.name = "see" -> <<bind(it, FALSE, new(ty)), expr(call(f.name, <<local(it)>>))>>
                    [] f.name = "fail" -> <<expr(failure)>>
                    [] f.name = "own" -> <<expr(call(f.name, <<new(ty)>>))>>
                    [] OTHER -> <<bind(<<f.ret, 2>>, FALSE, call(f.name, <<new(ty)>>))>>, none))

-----------------------------------------------------------------------------
(***************************************************************************)
(* Statements over a local, by name: <<verb>> is done to the local itself, *)
(* <<verb, 1>> to its first part, <<>> is no statement.                    *)
(***************************************************************************)

typed(verb, ty) == CASE verb = "take" -> CASE ty = "R" -> "take_R" [] ty = "D" -> "take_D"
                                           [] ty = "P" -> "take_P" [] OTHER -> "take_V"
                     [] OTHER -> CASE ty = "R" -> "look_R" [] ty = "D" -> "look_D"
                                   [] ty = "P" -> "look_P" [] OTHER -> "look_V"

assign(e, v) == expr([k |-> "assign", target |-> e, value |-> v])
empty == [k |-> "case", ty |-> "V", args |-> <<>>]

RECURSIVE act(_, _, _)
act(verb, e, ty) ==
    CASE verb \in {"take", "look"} -> <<expr(call(typed(verb, ty), <<e>>))>>
      [] verb = "drop" -> <<[k |-> "drop", e |-> e]>>
      [] verb = "set" -> <<assign(e, new(ty))>>
      [] verb = "renew" -> (IF ty = "P" THEN act("take", e, ty) ELSE act("drop", e, ty)) \o <<assign(e, new(ty))>>
      [] verb = "clear" -> <<[k |-> "drop", e |-> e], assign(e, empty)>>
      [] verb = "defer" -> <<[k |-> "defer", e |-> call(typed("look", ty), <<e>>)]>>
      [] verb = "last" -> <<[k |-> "defer", e |-> call(typed("take", ty), <<e>>)]>>
      [] verb = "return" -> <<expr([k |-> "return", e |-> none])>>
      [] verb = "raise" -> <<expr([k |-> "raise", e |-> new("F")])>>
      [] verb \in {"break", "continue"} -> <<expr([k |-> verb])>>

does(code, l) == CASE code = <<>> -> <<>>
                   [] Len(code) = 1 -> act(code[1], local(l), l[1])
                   [] OTHER -> act(code[1], field(local(l), 1), "R")

-----------------------------------------------------------------------------
(***************************************************************************)
(* The shapes of functions.  Each takes x, most keep it in the mutable y,  *)
(* and the codes of a recipe say what the statements are.                  *)
(***************************************************************************)

y(ty) == <<ty, 2>>
z(ty) == <<ty, 3>>

body(s) == block(s, none)
keeps(ty, s) == <<bind(y(ty), TRUE, local(<<ty, 1>>))>> \o s
owning(name, ret, ty, s) == function(name, <<taken(<<ty, 1>>)>>, ret, body(keeps(ty, s)))

way_out(code, kind, l) ==
    expr(if(body(does(code, l) \o IF kind = <<>> THEN <<>> ELSE act(kind[1], local(l), l[1])), none))

loop(kind, s) ==
    IF kind = <<"while">> THEN [k |-> "while", cond |-> scalar, body |-> body(s)]
    ELSE [k |-> "loop", body |-> body(<<way_out(<<>>, <<"break">>, <<"R", 9>>)>> \o s)]

observe(e, alias, s) == [k |-> "observe", source |-> e, alias |-> alias, body |-> body(s)]

\* The ways to tell a V apart: binder and wildcard payloads, a binder or a
\* wildcard for the rest, or for everything.
arms(kind, some, rest) ==
    LET full(p) == case(1, <<p>>)
        item == binder(<<"D", 4>>)
    IN  CASE kind = <<"cases">> -> <<arm(full(item), some), arm(case(2, <<>>), rest)>>
          [] kind = <<"ignore">> -> <<arm(full(wild), rest), arm(case(2, <<>>), rest)>>
          [] kind = <<"else">> -> <<arm(full(item), some), arm(wild, rest)>>
          [] kind = <<"none rest">> -> <<arm(case(2, <<>>), rest), arm(binder(<<"V", 5>>), rest)>>
          [] kind = <<"whole">> -> <<arm(binder(<<"V", 5>>), rest)>>
          [] kind = <<"any">> -> <<arm(wild, rest)>>

match(e, kind, some, rest) == [k |-> "match", scrutinee |-> e, arms |-> arms(kind, some, rest)]

\* A fallible call: `open' fails without a resource, `lend' with one.
handle(fn, pat, ok, err) ==
    [k |-> "handle", operand |-> call(fn, <<>>), ok |-> arm(pat, ok),
     err |-> arm(IF fn = "open" THEN wild ELSE case(1, <<binder(<<"R", 5>>)>>), err)]

return(e) == expr([k |-> "return", e |-> e])

give(ty) == CASE ty = "R" -> "giveR" [] ty = "D" -> "giveD" [] ty = "P" -> "giveP" [] OTHER -> "giveV"

\* What a function that gives a value of its own type back ends in.
gift(kind, ty, s, t) ==
    LET its == block(s, local(y(ty)))
        new_one == block(t, new(ty))
    IN  CASE kind = <<"tail">> -> block(keeps(ty, s), local(y(ty)))
          [] kind = <<"return">> -> body(keeps(ty, s \o <<return(local(y(ty)))>>))
          [] kind = <<"if">> -> block(keeps(ty, <<>>), if(its, new_one))
          [] kind = <<"early">> ->
                block(keeps(ty, <<expr(if(body(s \o <<return(new(ty))>>), none))>> \o t), local(y(ty)))
          [] kind = <<"return if">> -> body(keeps(ty, <<return(if(its, new_one))>>))
          [] kind = <<"match">> -> block(keeps(ty, <<>>),
                                         match(new("V"), <<"cases">>, its, new_one))
          [] kind = <<"handle">> -> block(keeps(ty, <<>>),
                                          handle("open", binder(<<"R", 4>>), its, new_one))

\* Functions the recipes below keep out of every other shape: the checker accepts
\* them, and a later stage or the runtime refuses them.
Oddities == {"endless", "reset", "rejoined", "refilled", "rebound", "unnamed", "lent", "otherwise", "remainder"}

Oddity(kind, ty) ==
    LET o == local(y(ty)) IN
    CASE kind = "endless" ->       \* a loop no path leaves, last in its function
            <<[k |-> "loop", body |-> body(act("look", o, ty))]>>
      [] kind = "reset" ->         \* a record is dropped and made anew
            act("drop", o, ty) \o act("set", o, ty)
      [] kind = "rejoined" ->      \* a part is gone; one branch makes the whole anew
            act("take", field(o, 1), "R") \o <<expr(if(body(act("drop", o, ty) \o act("set", o, ty)), none))>>
      [] kind = "refilled" ->      \* a part is put into a whole that is gone
            act("take", o, ty) \o act("set", field(o, 1), "R")
      [] kind = "rebound" ->       \* an arm names the whole and the local is set again
            <<expr(match(o, <<"whole">>, none, body(act("set", o, ty))))>>
      [] kind = "unnamed" ->       \* a failure that owns a resource is not named
            <<expr([k |-> "handle", operand |-> call("lend", <<>>),
                    ok |-> arm(wild, scalar), err |-> arm(wild, scalar)])>>
      [] kind = "lent" ->          \* a failure that owns a resource is named
            <<expr(handle("lend", wild, body(<<>>), body(act("take", local(<<"R", 5>>), "R"))))>>
      [] kind = "otherwise" ->     \* a wildcard stands for the case without a resource
            <<expr(match(o, <<"else">>, body(<<>>), body(<<>>)))>>
      [] kind = "remainder" ->     \* a name stands for the case with one
            <<expr(match(o, <<"none rest">>, body(<<>>), body(<<>>)))>>

TheFunctionOf(r) ==
    LET ty == r[2]
        d(i) == does(r[i], y(ty))
        own(s) == owning("own", "Unit", ty, s)
    IN
    CASE r[1] = "straight" -> own(d(3) \o d(4) \o d(5))
      [] r[1] = "nested" -> own(d(3) \o <<expr(body(d(4) \o d(5)))>> \o d(6))
      [] r[1] = "branching" -> own(d(3) \o <<expr(if(body(d(4)), body(d(5))))>> \o d(6))
      [] r[1] = "looping" -> own(d(3) \o <<loop(r[4], d(5) \o <<way_out(r[6], r[7], y(ty))>> \o d(8))>>)
      [] r[1] = "observing" ->
            own(d(3) \o <<observe(local(y(ty)), z(ty), d(4) \o does(r[5], z(ty)))>> \o d(6))
      [] r[1] = "observing part" ->
            own(<<observe(field(local(y(ty)), 1), z("R"), d(3) \o does(r[4], z("R")))>> \o d(5))
      [] r[1] = "observing twice" ->
            LET inner == IF r[3] = <<"part">> THEN <<"R", 4>> ELSE <<ty, 4>>
                source == CASE r[3] = <<"part">> -> field(local(y(ty)), 1)
                            [] r[3] = <<"whole">> -> local(y(ty))
                            [] OTHER -> local(z(ty))
            IN  own(<<observe(local(y(ty)), z(ty), <<observe(source, inner, d(4) \o does(r[5], inner))>> \o d(6))>>
                    \o d(7))
      [] r[1] = "seeing" ->
            function("see", <<seen(<<ty, 1>>)>>, "Unit",
                     body(does(r[3], <<ty, 1>>) \o does(r[4], <<ty, 1>>)))
      [] r[1] = "matching" ->
            own(d(3) \o <<expr(match(local(y("V")), r[4], body(does(r[5], <<"D", 4>>) \o d(6)), body(d(7))))>>
                     \o d(8))
      [] r[1] = "handling" ->
            own(d(3) \o <<expr(handle("open", IF r[4] = <<"any">> THEN wild ELSE binder(<<"R", 4>>),
                                      body((IF r[4] = <<"any">> THEN <<>> ELSE does(r[4], <<"R", 4>>)) \o d(5)),
                                      body(d(6))))>>)
      [] r[1] = "failing" ->
            owning("fail", "Unit", ty,
                   d(3) \o <<bind(<<"R", 4>>, TRUE, [k |-> "try", e |-> call("open", <<>>)])>> \o d(4)
                        \o <<way_out(r[5], r[6], y(ty))>> \o does(r[7], <<"R", 4>>))
      [] r[1] \in Oddities -> own(Oddity(r[1], ty))
      [] r[1] = "giving" ->
            function(give(ty), <<taken(<<ty, 1>>)>>, ty, gift(r[3], ty, d(4), d(5)))

-----------------------------------------------------------------------------
(***************************************************************************)
(* A part of a value is put back only where the whole is never given up,   *)
(* and a whole is renewed in a branch only where no part was given up      *)
(* before it; every `loop' has a break.  What is left out this way is in   *)
(* Oddities; one of them, a record dropped and set again (resets), is also *)
(* in other recipes.                                                       *)
(***************************************************************************)

verbs(V) == {<<v>> : v \in V}
parts(ty, V) == IF ty \in {"P", "D"} THEN {<<v, 1>> : v \in V} ELSE {}
opt(S) == {<<>>} \cup S

Every == {"take", "look", "drop", "set", "defer", "last"}

whole(ty) == verbs(Every \cup {"return"}) \cup parts(ty, Every \ {"set"})
partly(ty) == verbs({"look", "defer", "return"}) \cup parts(ty, Every)
vocabularies(ty) == IF ty \in {"P", "D"} THEN {whole(ty), partly(ty)} ELSE {whole(ty)}

cook(shape, ty) ==
    LET one == {shape} IN
    CASE shape = "straight" -> UNION {one \X {ty} \X S \X S \X S : S \in vocabularies(ty)}
      [] shape = "nested" ->
            UNION {one \X {ty} \X opt(parts(ty, {"take", "defer"})) \X S \X S \X verbs({"look", "drop"}) : S \in vocabularies(ty)}
      [] shape = "branching" ->
            (one \X {ty} \X opt(verbs({"defer"})) \X opt(whole(ty) \cup verbs({"renew"}))
                 \X opt(whole(ty)) \X opt(verbs({"look", "drop", "set"})))
            \cup (one \X {ty} \X opt(parts(ty, {"take"})) \X opt(partly(ty))
                      \X opt(partly(ty)) \X opt(parts(ty, {"take", "set"})))
      [] shape = "looping" ->
            LET S == verbs({"take", "look", "drop", "set", "defer"})
                recipe(A, B) == one \X {ty} \X {<<>>} \X verbs({"while", "loop"}) \X opt(A)
                                    \X opt(B) \X opt(verbs({"break", "continue", "return"})) \X opt(A)
            IN  recipe(S \cup verbs({"renew"}), S \cup verbs({"renew"}))
                \cup IF ty \in {"P", "D"}
                     THEN recipe(verbs({"take", "look", "renew"}) \cup parts(ty, {"take", "drop"}),
                                 verbs({"take", "drop"}) \cup parts(ty, {"take", "drop"}))
                     ELSE {}
      [] shape = "observing" ->
            UNION {one \X {ty} \X opt(parts(ty, {"take", "defer"})) \X opt(S)
                       \X opt(verbs({"take", "look", "drop", "defer", "return"}) \cup parts(ty, {"look", "take"}))
                       \X opt(verbs({"look", "drop"}) \cup parts(ty, {"take"})) : S \in vocabularies(ty)}
      [] shape = "observing part" ->
            UNION {one \X {ty} \X opt(S) \X opt(verbs({"take", "look", "return"}))
                       \X opt(verbs({"look", "drop"}) \cup parts(ty, {"take"})) : S \in vocabularies(ty)}
      [] shape = "observing twice" ->
            one \X {ty} \X verbs({"part", "whole", "alias"}) \X opt(verbs({"look", "defer", "return"}))
                \X opt(verbs({"look", "take", "return"})) \X opt(verbs({"look", "drop", "return"}))
                \X opt(verbs({"take", "drop"}))
      [] shape = "seeing" -> one \X {ty} \X opt(whole(ty)) \X opt(whole(ty))
      [] shape = "matching" ->
            (one \X {ty} \X opt(verbs({"clear", "defer", "take"}))
                 \X verbs({"cases", "ignore", "any"})
                 \X opt(verbs({"take", "look", "drop", "return"})) \X opt(verbs({"set", "take"}))
                 \X opt(verbs({"look", "set", "return"})) \X opt(verbs({"set", "look"})))
            \cup (one \X {ty} \X opt(verbs({"clear", "defer"})) \X verbs({"whole"})
                      \X {<<>>} \X {<<>>} \X opt(verbs({"look", "return"})) \X opt(verbs({"look"})))
      [] shape = "handling" ->
            LET S == opt(verbs({"take", "drop", "set", "defer", "return"}) \cup parts(ty, {"take"})) IN
            one \X {ty} \X opt(verbs({"defer"})) \X opt(verbs({"take", "look", "return", "any"})) \X S \X S
      [] shape = "failing" ->
            one \X {ty} \X opt(verbs({"take", "defer", "last"}) \cup parts(ty, {"take"})) \X opt(whole(ty))
                \X opt(verbs({"take", "drop"}))
                \X opt(verbs({"raise", "return"})) \X opt(verbs({"take", "defer", "set"}))
      [] shape \in Oddities -> one \X {ty}
      [] shape = "giving" ->
            one \X {ty} \X verbs({"tail", "return", "if", "early", "return if", "match", "handle"})
                \X opt(whole(ty) \ {<<"return">>}) \X opt(whole(ty) \ {<<"return">>})

resets(r) ==
    r[2] = "P" /\ \E i, j \in 3..Len(r) : r[i] = <<"drop">> /\ r[j] = <<"set">>

TheRecipes == UNION {cook(s[1], s[2]) : s \in Shapes}
=============================================================================
