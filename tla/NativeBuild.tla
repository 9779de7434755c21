---------------------------- MODULE NativeBuild ----------------------------
(***************************************************************************)
(* `napitia build': several builds publishing beside one another           *)
(* (compiler/src/native/mod.rs build_executable, link_object, link_in,     *)
(* scratch_directory, resolve_outcome; compiler/src/driver.rs              *)
(* build_native).  Every build compiles, makes a scratch directory of its  *)
(* own beside the output, has the system linker work in it, renames the    *)
(* finished executable over the output and removes the scratch directory.  *)
(*                                                                         *)
(* Builds of one process id are threads of one process, or processes that  *)
(* had the id one after the other: a kill ends those that run, and one     *)
(* that starts later finds what they left.  A linker outlives the build    *)
(* that was killed.  The file system and the linker are outside the        *)
(* repository and modelled by what the code asks of them; any call to them *)
(* may fail.  All outputs share one parent directory.                      *)
(***************************************************************************)
EXTENDS Naturals

CONSTANTS
    Builds, Outputs, Processes,
    OutputOf, ProcessOf,       \* the path and the process id of each build
    Leftovers,                 \* scratch directories found at the start
    MAX_SCRATCH_ATTEMPTS,
    Nothing, Torn, Old         \* contents that are not a build's own

Names == Processes \X (0..(MAX_SCRATCH_ATTEMPTS - 1))

Content == Builds \cup {Nothing, Torn, Old}

ASSUME BuildAssumption ==
    /\ MAX_SCRATCH_ATTEMPTS \in Nat
    /\ OutputOf \in [Builds -> Outputs]
    /\ ProcessOf \in [Builds -> Processes]
    /\ Leftovers \subseteq Names
    /\ {Nothing, Torn, Old} \cap Builds = {}
    /\ Nothing # Torn /\ Nothing # Old /\ Torn # Old /\ Nothing \notin Names

VARIABLES
    pc,         \* what each build does next
    attempt,    \* `attempt' of scratch_directory
    scratch,    \* the directory a build made and has not removed, or Nothing
    linked,     \* link_in returned Ok
    cleaned,    \* whether remove_dir_all was tried, and what it returned
    linker,     \* the linker each build launched
    made,       \* the scratch directories that exist
    object, program,    \* program.o and program in each of them
    out         \* the output paths

files == <<made, object, program, out>>
vars == <<pc, attempt, scratch, linked, cleaned, linker, made, object, program, out>>

-----------------------------------------------------------------------------
(***************************************************************************)
(* Before anything is written: the frontend and the verifier, capability   *)
(* validation, object generation, the host check and the linker probe, in  *)
(* that order.  Each of them may refuse.                                   *)
(***************************************************************************)
Stages == {"ir", "validate", "emit_object", "host_can_link", "probe_linker_target"}

after(stage) ==
    CASE stage = "ir" -> "validate"
      [] stage = "validate" -> "emit_object"
      [] stage = "emit_object" -> "host_can_link"
      [] stage = "host_can_link" -> "probe_linker_target"
      [] OTHER -> "scratch_directory"

Goto(b, where) == pc' = [pc EXCEPT ![b] = where]

\* napitia build is started.
Start(b) ==
    /\ pc[b] = "idle"
    /\ Goto(b, "ir")
    /\ UNCHANGED <<attempt, scratch, linked, cleaned, linker, files>>

Compile(b) ==
    /\ pc[b] \in Stages
    /\ Goto(b, after(pc[b])) \/ Goto(b, "refused")
    /\ UNCHANGED <<attempt, scratch, linked, cleaned, linker, files>>

-----------------------------------------------------------------------------
candidate(b) == <<ProcessOf[b], attempt[b]>>

\* Mutant of next_attempt: the same name again.
SameAttempt(n) == n

\* The range of the loop in scratch_directory.
in_range(n) == n < MAX_SCRATCH_ATTEMPTS
next_attempt(n) == n + 1

\* Mutant of create_dir: an existing directory is as good as a new one.
CreateOrReuse(b) ==
    /\ made' = made \cup {candidate(b)}
    /\ UNCHANGED <<object, program, out>>

\* std::fs::create_dir, which succeeds on no path that exists.
create_dir(b) ==
    /\ candidate(b) \notin made
    /\ made' = made \cup {candidate(b)}
    /\ object' = [object EXCEPT ![candidate(b)] = Nothing]
    /\ program' = [program EXCEPT ![candidate(b)] = Nothing]
    /\ UNCHANGED out

scratch_directory(b) ==
    /\ pc[b] = "scratch_directory"
    /\ \/ /\ in_range(attempt[b]) /\ create_dir(b)
          /\ scratch' = [scratch EXCEPT ![b] = candidate(b)]
          /\ Goto(b, "write")
          /\ UNCHANGED attempt
       \/ /\ in_range(attempt[b]) /\ candidate(b) \in made    \* AlreadyExists
          /\ attempt' = [attempt EXCEPT ![b] = next_attempt(@)]
          /\ UNCHANGED <<pc, scratch, files>>
       \/ /\ ~in_range(attempt[b])
          /\ Goto(b, "refused")
          /\ UNCHANGED <<attempt, scratch, files>>
    /\ UNCHANGED <<linked, cleaned, linker>>

\* create_dir fails for another reason than AlreadyExists.
ScratchFails(b) ==
    /\ pc[b] = "scratch_directory" /\ in_range(attempt[b])
    /\ Goto(b, "refused")
    /\ UNCHANGED <<attempt, scratch, linked, cleaned, linker, files>>

\* Mutant of link_in_returns: `?' on the link, and no cleanup after a failure.
ReturnEarly(b, ok) ==
    /\ linked' = [linked EXCEPT ![b] = ok]
    /\ Goto(b, IF ok THEN "remove_dir_all" ELSE "refused")

\* link_in returns Err, or Ok; link_object cleans up either way.
link_in_returns(b, ok) ==
    /\ linked' = [linked EXCEPT ![b] = ok]
    /\ Goto(b, "remove_dir_all")

\* std::fs::write of program.o, which may leave a part of it.
WriteObject(b) ==
    /\ pc[b] = "write"
    /\ \/ /\ object' = [object EXCEPT ![scratch[b]] = b]
          /\ Goto(b, "launch")
          /\ UNCHANGED linked
       \/ /\ \E part \in {Nothing, Torn} : object' = [object EXCEPT ![scratch[b]] = part]
          /\ link_in_returns(b, FALSE)
    /\ UNCHANGED <<attempt, scratch, cleaned, linker, made, program, out>>

\* Command::output launches the linker and waits for it, without a limit.
Launch(b) ==
    /\ pc[b] = "launch"
    /\ \/ /\ linker' = [linker EXCEPT ![b] = "running"]
          /\ Goto(b, "wait")
          /\ UNCHANGED linked
       \/ link_in_returns(b, FALSE) /\ UNCHANGED linker
    /\ UNCHANGED <<attempt, scratch, cleaned, files>>

\* The linker writes `program' inside the scratch directory it runs in, and
\* exits with success only when it has made the whole of it.
Linker(b) ==
    /\ linker[b] = "running"
    /\ \/ /\ program[scratch[b]] # Torn
          /\ program' = [program EXCEPT ![scratch[b]] = Torn]
          /\ UNCHANGED linker
       \/ /\ program' = [program EXCEPT ![scratch[b]] = object[scratch[b]]]
          /\ linker' = [linker EXCEPT ![b] = "succeeded"]
       \/ /\ linker' = [linker EXCEPT ![b] = "failed"]
          /\ UNCHANGED program
    /\ UNCHANGED <<pc, attempt, scratch, linked, cleaned, made, object, out>>

LinkerExits(b) ==
    /\ pc[b] = "wait" /\ linker[b] # "running"
    /\ \/ linker[b] = "succeeded" /\ Goto(b, "rename") /\ UNCHANGED linked
       \/ linker[b] = "failed" /\ link_in_returns(b, FALSE)
    /\ UNCHANGED <<attempt, scratch, cleaned, linker, files>>

\* std::fs::rename onto the output, the one step that writes it.
Rename(b) ==
    /\ pc[b] = "rename"
    /\ \/ /\ out' = [out EXCEPT ![OutputOf[b]] = program[scratch[b]]]
          /\ program' = [program EXCEPT ![scratch[b]] = Nothing]
          /\ link_in_returns(b, TRUE)
       \/ link_in_returns(b, FALSE) /\ UNCHANGED <<out, program>>
    /\ UNCHANGED <<attempt, scratch, cleaned, linker, made, object>>

-----------------------------------------------------------------------------
\* Mutant of resolve_outcome: a failed cleanup is a failed build.
CleanupMatters(ok, removed) == IF ok /\ removed THEN "built" ELSE "refused"

\* The build's own failure wins, and publication is final.
resolve_outcome(ok, removed) == IF ok THEN "built" ELSE "refused"

\* std::fs::remove_dir_all removes everything, or stops somewhere on the way;
\* then link_object answers.
remove_dir_all(b) ==
    /\ pc[b] = "remove_dir_all"
    /\ \/ /\ Goto(b, resolve_outcome(linked[b], TRUE))
          /\ cleaned' = [cleaned EXCEPT ![b] = "removed"]
          /\ made' = made \ {scratch[b]}
          /\ scratch' = [scratch EXCEPT ![b] = Nothing]
          /\ UNCHANGED <<object, program>>
       \/ /\ Goto(b, resolve_outcome(linked[b], FALSE))
          /\ cleaned' = [cleaned EXCEPT ![b] = "failed"]
          /\ \E left \in {Nothing, object[scratch[b]]} :
                object' = [object EXCEPT ![scratch[b]] = left]
          /\ \E left \in {Nothing, program[scratch[b]]} :
                program' = [program EXCEPT ![scratch[b]] = left]
          /\ UNCHANGED <<made, scratch>>
    /\ UNCHANGED <<attempt, linked, linker, out>>

Ended == {"built", "refused", "killed"}

\* The process is killed between two steps of its builds; what they made
\* stays, and their linkers run on.
Kill(p) ==
    LET running == {b \in Builds : ProcessOf[b] = p /\ pc[b] \notin Ended \cup {"idle"}} IN
    /\ running # {}
    /\ pc' = [b \in Builds |-> IF b \in running THEN "killed" ELSE pc[b]]
    /\ UNCHANGED <<attempt, scratch, linked, cleaned, linker, files>>

Init ==
    /\ pc = [b \in Builds |-> "idle"]
    /\ attempt = [b \in Builds |-> 0]
    /\ scratch = [b \in Builds |-> Nothing]
    /\ linked = [b \in Builds |-> FALSE]
    /\ cleaned = [b \in Builds |-> "untried"]
    /\ linker = [b \in Builds |-> "none"]
    /\ made = Leftovers
    /\ object = [n \in Names |-> IF n \in Leftovers THEN Old ELSE Nothing]
    /\ program = [n \in Names |-> Nothing]
    /\ out = [o \in Outputs |-> Old]

Step(b) ==
    \/ Compile(b) \/ scratch_directory(b) \/ WriteObject(b) \/ Launch(b)
    \/ LinkerExits(b) \/ Rename(b) \/ remove_dir_all(b)

Next ==
    \/ \E b \in Builds : Start(b) \/ Step(b) \/ ScratchFails(b) \/ Linker(b)
    \/ \E p \in Processes : Kill(p)

\* A started build runs on until it ends or is killed, and a linker ends; a
\* command may never be given, and create_dir may never fail.
Spec == Init /\ [][Next]_vars /\ \A b \in Builds : WF_vars(Step(b)) /\ WF_vars(Linker(b))

-----------------------------------------------------------------------------
\* The types of the builds' state and of the directory they share.
TypeOK ==
    /\ pc \in [Builds -> Stages \cup Ended \cup
                 {"idle", "scratch_directory", "write", "launch", "wait", "rename",
                  "remove_dir_all"}]
    /\ attempt \in [Builds -> 0..MAX_SCRATCH_ATTEMPTS]
    /\ scratch \in [Builds -> Names \cup {Nothing}]
    /\ linked \in [Builds -> BOOLEAN]
    /\ cleaned \in [Builds -> {"untried", "removed", "failed"}]
    /\ linker \in [Builds -> {"none", "running", "succeeded", "failed"}]
    /\ made \subseteq Names
    /\ object \in [Names -> Content]
    /\ program \in [Names -> Content]
    /\ out \in [Outputs -> Content]

\* How far a build is for someone who sees the output and the answer.
phase ==
    [b \in Builds |-> IF pc[b] \in Ended THEN pc[b]
                     ELSE IF pc[b] = "remove_dir_all" /\ linked[b] THEN "published"
                     ELSE "pending"]

Publication == INSTANCE NativePublication

\* "if this returns diagnostics, `output' is exactly as it was": build_executable
\* implements NativePublication, however builds, kills and failures interleave.
OutputIsAtomic == Publication!Spec

\* A build only ever works in, and removes, a directory it made itself: no two
\* builds and no orphaned linker share one, and no leftover is taken over.
OwnScratch ==
    \A b \in Builds :
        /\ pc[b] \in {"write", "launch", "wait", "rename", "remove_dir_all"} =>
              scratch[b] # Nothing
        /\ scratch[b] # Nothing =>
              /\ scratch[b] \in made \ Leftovers
              /\ \A c \in Builds : c # b => scratch[c] # scratch[b]

\* A scratch directory outlives its build only if the build was killed, or
\* reported after its cleanup failed.
NoStrayScratch ==
    \A n \in made \ Leftovers : \E b \in Builds :
        /\ scratch[b] = n
        /\ pc[b] \in {"built", "refused"} => cleaned[b] = "failed"

\* A build that is started ends: scratch_directory gives up after
\* MAX_SCRATCH_ATTEMPTS names, however many leftovers there are.
EveryBuildEnds == \A b \in Builds : pc[b] = "ir" ~> pc[b] \in Ended

=============================================================================
