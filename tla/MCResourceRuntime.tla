------------------------- MODULE MCResourceRuntime -------------------------
(***************************************************************************)
(* Instances of ResourceRuntime for TLC.                                   *)
(***************************************************************************)
EXTENDS ResourceRuntime

CONSTANTS param1, param2, slot1, load1, temp1, temp2, obs1, obs2

MCNoParams == <<>>
MCOneParam == <<param1>>
MCTwoParams == <<param1, param2>>
MCLoadOrigin == [l \in Loads |-> slot1]
MCDeepPaths == {<<>>, <<1>>, <<1, 1>>, <<1, 1, 1>>}
MCNoPaths == {<<>>}
MCPaths == {<<>>, <<1>>, <<1, 1>>}

Symmetry == Permutations(Temps) \cup Permutations(Observations)
=============================================================================
