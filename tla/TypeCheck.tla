------------------------------ MODULE TypeCheck ------------------------------
(***************************************************************************)
(* The algorithms of the type checker on one module: the walk over its     *)
(* declarations for infinite layouts, the registration of its extensions   *)
(* and the requirements its bodies ask for, the constraints one body       *)
(* unifies and the matches it analyses.  They share no state but the       *)
(* declarations, so an execution exercises one of them.                    *)
(***************************************************************************)
EXTENDS Unify, Exhaustive, LayoutCycles, EvidenceCheck

vars == <<infer, analysis, walk, solver>>

NoInference == [ctx |-> [sub |-> [v \in TyVars |-> <<>>], kind |-> VarKinds],
                accepted |-> {}, calls |-> MaxUnifications, last |-> NoCall]

Init ==
    \/ UnifyInit /\ analysis = NoAnalysis /\ walk = NoWalk /\ solver = NoSolver
    \/ ExhaustiveInit /\ infer = NoInference /\ walk = NoWalk /\ solver = NoSolver
    \/ CyclesInit /\ infer = NoInference /\ analysis = NoAnalysis /\ solver = NoSolver
    \/ CapabilityInit /\ infer = NoInference /\ analysis = NoAnalysis /\ walk = NoWalk

\* Everything asked of the algorithm has been answered.
Ended ==
    /\ infer.calls = MaxUnifications /\ analysis.done /\ Finished
    /\ ~solver.open /\ solver.asked = MaxQueries
    /\ UNCHANGED vars

Next ==
    \/ UnifyNext      /\ UNCHANGED <<analysis, walk, solver>>
    \/ ExhaustiveNext /\ UNCHANGED <<infer, walk, solver>>
    \/ CyclesNext     /\ UNCHANGED <<infer, analysis, solver>>
    \/ CapabilityNext /\ UNCHANGED <<infer, analysis, walk>>
    \/ Ended

Spec == Init /\ [][Next]_vars
=============================================================================
