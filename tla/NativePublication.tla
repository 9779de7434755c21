------------------------- MODULE NativePublication -------------------------
(***************************************************************************)
(* What `napitia build' promises about the path it was given               *)
(* (compiler/src/native/mod.rs, build_executable and resolve_outcome):     *)
(* the output changes only by one build publishing its own finished        *)
(* executable, a build that reports failure published nothing, and         *)
(* publication is final.  A killed build reports nothing, and may or may   *)
(* not have published.                                                     *)
(***************************************************************************)
CONSTANTS Builds, Outputs, OutputOf, Old

VARIABLES out,      \* the content of each output path
          phase     \* how far each build is, as seen from outside

publication == <<out, phase>>

\* Before any build the output is what an earlier one, or nobody, left there.
Init ==
    /\ out = [o \in Outputs |-> Old]
    /\ phase = [b \in Builds |-> "pending"]

Publish(b) ==
    /\ phase[b] = "pending"
    /\ phase' = [phase EXCEPT ![b] = "published"]
    /\ out' = [out EXCEPT ![OutputOf[b]] = b]

ReportBuilt(b) ==
    /\ phase[b] = "published"
    /\ phase' = [phase EXCEPT ![b] = "built"]
    /\ UNCHANGED out

ReportRefused(b) ==
    /\ phase[b] = "pending"
    /\ phase' = [phase EXCEPT ![b] = "refused"]
    /\ UNCHANGED out

Kill(S) ==
    /\ \A b \in S : phase[b] \in {"pending", "published"}
    /\ phase' = [b \in Builds |-> IF b \in S THEN "killed" ELSE phase[b]]
    /\ UNCHANGED out

Next ==
    \/ \E b \in Builds : Publish(b) \/ ReportBuilt(b) \/ ReportRefused(b)
    \/ \E S \in SUBSET Builds : Kill(S)

Spec == Init /\ [][Next]_publication
=============================================================================
