--------------------------- MODULE MCNativeBuild ---------------------------
(***************************************************************************)
(* Instances of NativeBuild for TLC: three builds, two of them with one    *)
(* process id, and a leftover that has the first name they will try.       *)
(***************************************************************************)
EXTENDS NativeBuild, TLC

CONSTANTS b1, b2, b3, p1, p2, o1, o2

MCProcessOf == (b1 :> p1) @@ (b2 :> p1) @@ (b3 :> p2)
MCOutputOf == (b1 :> o1) @@ (b2 :> o2) @@ (b3 :> o1)
MCLeftovers == {<<p1, 0>>}
=============================================================================
