------------------------- MODULE MCResourcePipeline -------------------------
(***************************************************************************)
(* Instances of ResourcePipeline for TLC.                                  *)
(***************************************************************************)
EXTENDS ResourcePipeline

CONSTANT Shapes

P == INSTANCE PipelinePrograms

\* The stages.  Each value is a LET, at which TLC's coverage statistics stop:
\* they would unfold the recursive operators below it at every use.
MCCheckStage(f)            == LET plan == check_function(f) IN plan
MCLowerStage(f, plan)      == LET b == lower_function(f, plan) IN b
MCVerifyStage(f, code, ps) == LET codes == verify_function(f, code, ps) IN codes

\* Functions the resource checker accepts and a later stage refuses.
MCGaps == {<<"endless", "P">>, <<"reset", "P">>, <<"rejoined", "P">>, <<"lent", "P">>, <<"unnamed", "P">>,
           <<"otherwise", "V">>, <<"remainder", "V">>, <<"rebound", "V">>}

MCShapes == ({"straight", "branching", "looping", "observing", "failing", "handling"} \X {"P"})
            \cup {<<"nested", "D">>, <<"straight", "V">>, <<"matching", "V">>,
                  <<"nested", "P">>, <<"seeing", "D">>, <<"observing part", "D">>, <<"observing twice", "P">>,
                  <<"giving", "P">>, <<"giving", "V">>, <<"failing", "V">>}
            \cup MCGaps

MCRefilled == {<<"refilled", "P">>}

\* A record that is dropped and set again somewhere may be another `reset'.
MCUnclaimed == {r \in P!TheRecipes : P!resets(r)}

MCFieldTypes == P!TheFieldTypes
MCCases == P!TheCases
MCDeclaredResources == P!TheDeclaredResources
MCSignatures == P!TheSignatures
MCLibrary == P!TheLibrary
MCEntryOf(f) == P!TheEntryOf(f)
MCRecipes == P!TheRecipes
MCNone == {}
MCMiscompiled ==
    {r \in MCRecipes \ (MCGaps \cup MCUnclaimed) : \A i \in 3..Len(r) :
        r[i] \in {<<>>, <<"take">>, <<"while">>, <<"cases">>, <<"tail">>, <<"raise">>}}
MCFunctionOf(r) == P!TheFunctionOf(r)
=============================================================================
