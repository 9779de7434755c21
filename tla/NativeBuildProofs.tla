------------------------- MODULE NativeBuildProofs -------------------------
(***************************************************************************)
(* For any number of builds, outputs and process ids: the builds keep to   *)
(* their own scratch directories, strand none, and together implement      *)
(* NativePublication.                                                      *)
(***************************************************************************)
EXTENDS NativeBuild, TLAPS

\* What ties a build's directory to its linker.  A linker works in the
\* directory of its build, which holds the build's own object, and one that
\* succeeded has left the build's own executable there until the rename.
Working(b) ==
    /\ pc[b] \in Stages \cup {"idle", "scratch_directory"} => scratch[b] = Nothing
    /\ pc[b] \in {"write", "launch", "wait", "rename", "remove_dir_all"} => scratch[b] # Nothing
    /\ linker[b] = "running" =>
          pc[b] \in {"wait", "killed"} /\ scratch[b] # Nothing /\ object[scratch[b]] = b
    /\ pc[b] = "launch" => object[scratch[b]] = b
    /\ pc[b] = "rename" => linker[b] = "succeeded"
    /\ pc[b] \in {"wait", "rename"} /\ linker[b] = "succeeded" => program[scratch[b]] = b
    /\ pc[b] = "wait" => linker[b] # "none"

Apart(b) ==
    scratch[b] # Nothing =>
        /\ scratch[b] \in made \ Leftovers
        /\ \A c \in Builds : c # b => scratch[c] # scratch[b]

\* The inductive invariant.
BuildInv ==
    /\ TypeOK /\ NoStrayScratch
    /\ Leftovers \subseteq made
    /\ \A b \in Builds : Working(b) /\ Apart(b)

-----------------------------------------------------------------------------
\* Every initial state satisfies the invariant.
LEMMA InitInv == Init => BuildInv
BY BuildAssumption DEF Init, BuildInv, TypeOK, NoStrayScratch, Working, Apart, Content, Ended,
   Names, Stages

\* Each step of a build, of a linker and of the operating system keeps the
\* types.
LEMMA NextTypeOK == BuildInv /\ [Next]_vars => TypeOK'
<1> SUFFICES ASSUME BuildInv, TypeOK, [Next]_vars PROVE TypeOK'
  BY DEF BuildInv
<1> USE BuildAssumption DEF TypeOK, Goto, files, Ended
<1>1. ASSUME NEW b \in Builds, Start(b) PROVE TypeOK'
  BY <1>1 DEF Start, Stages
<1>2. ASSUME NEW b \in Builds, Compile(b) PROVE TypeOK'
  BY <1>2 DEF Compile, after, Stages
<1>3. ASSUME NEW b \in Builds, scratch_directory(b) PROVE TypeOK'
  <2>1. candidate(b) \in Names \/ ~in_range(attempt[b])
    BY DEF candidate, Names, in_range
  <2> QED BY <1>3, <2>1 DEF scratch_directory, create_dir, in_range, next_attempt, Content
<1>4. ASSUME NEW b \in Builds, WriteObject(b) PROVE TypeOK'
  <2>1. object' \in [Names -> Content]
    <3>1. PICK c \in Content : object' = [object EXCEPT ![scratch[b]] = c]
      BY <1>4 DEF WriteObject, Content
    <3> QED BY <3>1
  <2> QED BY <1>4, <2>1 DEF WriteObject, link_in_returns
<1>5. ASSUME NEW b \in Builds, Launch(b) PROVE TypeOK'
  BY <1>5 DEF Launch, link_in_returns
<1>6. ASSUME NEW b \in Builds, LinkerExits(b) PROVE TypeOK'
  BY <1>6 DEF LinkerExits, link_in_returns
<1>7. ASSUME NEW b \in Builds, Rename(b) PROVE TypeOK'
  <2>1. scratch[b] \in Names
    BY <1>7 DEF Rename, BuildInv, Working
  <2>2. program[scratch[b]] \in Content
    BY <2>1
  <2> QED BY <1>7, <2>2 DEF Rename, link_in_returns, Content
<1>8. ASSUME NEW b \in Builds, remove_dir_all(b) PROVE TypeOK'
  BY <1>8 DEF remove_dir_all, resolve_outcome, Content
<1>9. ASSUME NEW b \in Builds, ScratchFails(b) PROVE TypeOK'
  BY <1>9 DEF ScratchFails
<1>10. ASSUME NEW b \in Builds, Linker(b) PROVE TypeOK'
  BY <1>10 DEF Linker, Content
<1>11. ASSUME NEW p \in Processes, Kill(p) PROVE TypeOK'
  BY <1>11 DEF Kill
<1>12. CASE UNCHANGED vars
  BY <1>12 DEF vars
<1> QED BY <1>1, <1>2, <1>3, <1>4, <1>5, <1>6, <1>7, <1>8, <1>9, <1>10, <1>11, <1>12
        DEF Next, Step

\* The scratch directories stay apart: only create_dir hands one out, and never
\* one that exists.
LEMMA NextApart ==
    BuildInv /\ [Next]_vars => Leftovers \subseteq made' /\ \A b \in Builds : Apart(b)'
<1> SUFFICES ASSUME BuildInv, [Next]_vars
             PROVE  Leftovers \subseteq made' /\ \A b \in Builds : Apart(b)'
  OBVIOUS
<1> USE BuildAssumption DEF BuildInv, TypeOK, Apart
<1>1. CASE UNCHANGED <<scratch, made>>
  BY <1>1
<1>2. ASSUME NEW b \in Builds, scratch_directory(b)
      PROVE  Leftovers \subseteq made' /\ \A c \in Builds : Apart(c)'
  <2>1. CASE UNCHANGED <<scratch, made>>
    BY <1>1, <2>1
  <2>2. CASE /\ in_range(attempt[b]) /\ candidate(b) \notin made
             /\ made' = made \cup {candidate(b)}
             /\ scratch' = [scratch EXCEPT ![b] = candidate(b)]
    <3>1. candidate(b) \in Names
      BY <2>2 DEF candidate, Names, in_range
    <3>2. candidate(b) # Nothing /\ candidate(b) \notin Leftovers
      BY <2>2, <3>1
    <3>3. \A c \in Builds : c # b => scratch'[c] = scratch[c] /\ scratch[c] # candidate(b)
      BY <2>2, <3>2
    <3> QED BY <2>2, <3>2, <3>3
  <2> QED BY <1>2, <2>1, <2>2 DEF scratch_directory, create_dir, files
<1>3. ASSUME NEW b \in Builds, remove_dir_all(b)
      PROVE  Leftovers \subseteq made' /\ \A c \in Builds : Apart(c)'
  <2>1. CASE UNCHANGED <<scratch, made>>
    BY <1>1, <2>1
  <2>2. CASE made' = made \ {scratch[b]} /\ scratch' = [scratch EXCEPT ![b] = Nothing]
    <3>1. scratch[b] # Nothing
      BY <1>3 DEF remove_dir_all, Working
    <3>2. \A c \in Builds : c # b => scratch'[c] = scratch[c] /\ scratch[c] # scratch[b]
      BY <2>2, <3>1
    <3> QED BY <2>2, <3>1, <3>2
  <2> QED BY <1>3, <2>1, <2>2 DEF remove_dir_all
<1>4. ASSUME NEW b \in Builds,
             \/ Start(b) \/ Compile(b) \/ WriteObject(b) \/ Launch(b) \/ LinkerExits(b)
             \/ Rename(b) \/ ScratchFails(b) \/ Linker(b)
      PROVE  UNCHANGED <<scratch, made>>
  BY <1>4 DEF Start, Compile, WriteObject, Launch, LinkerExits, Rename, ScratchFails, Linker, files
<1>5. ASSUME NEW p \in Processes, Kill(p) PROVE UNCHANGED <<scratch, made>>
  BY <1>5 DEF Kill, files
<1>6. CASE UNCHANGED vars
  BY <1>1, <1>6 DEF vars
<1> QED BY <1>1, <1>2, <1>3, <1>4, <1>5, <1>6 DEF Next, Step

\* A step of build b leaves what another build is working on as it was.
LEMMA OthersKeepWorking ==
    ASSUME BuildInv, NEW b \in Builds, NEW c \in Builds, c # b,
           pc'[c] = pc[c], scratch'[c] = scratch[c], linker'[c] = linker[c],
           \A n \in Names : n # scratch[b] /\ n \in made =>
               object'[n] = object[n] /\ program'[n] = program[n]
    PROVE  Working(c)'
<1>1. scratch[c] # Nothing => scratch[c] \in Names /\ scratch[c] # scratch[b] /\ scratch[c] \in made
  BY DEF BuildInv, TypeOK, Apart
<1>2. scratch[c] # Nothing => object'[scratch[c]] = object[scratch[c]]
                              /\ program'[scratch[c]] = program[scratch[c]]
  BY <1>1
<1> QED BY <1>2 DEF BuildInv, Working

\* A step keeps every build's own directory, object and executable.
LEMMA NextWorking == BuildInv /\ [Next]_vars => \A b \in Builds : Working(b)'
<1> SUFFICES ASSUME BuildInv, [Next]_vars PROVE \A b \in Builds : Working(b)'
  OBVIOUS
<1> USE BuildAssumption DEF Goto, files
<1>0. TypeOK /\ \A b \in Builds : Working(b) /\ Apart(b)
  BY DEF BuildInv
<1>1. ASSUME NEW b \in Builds, Start(b) PROVE \A c \in Builds : Working(c)'
  <2>1. ASSUME NEW c \in Builds, c # b PROVE Working(c)'
    <3>1. \A m \in Names : m # scratch[b] /\ m \in made =>
              object'[m] = object[m] /\ program'[m] = program[m]
      BY <1>0, <1>1 DEF Start, TypeOK
    <3> QED BY <1>0, <1>1, <2>1, <3>1, OthersKeepWorking DEF Start, TypeOK
  <2>2. Working(b)'
    BY <1>0, <1>1 DEF Start, Stages, TypeOK, Working
  <2> QED BY <2>1, <2>2
<1>2. ASSUME NEW b \in Builds, Compile(b) PROVE \A c \in Builds : Working(c)'
  <2>1. ASSUME NEW c \in Builds, c # b PROVE Working(c)'
    <3>1. \A m \in Names : m # scratch[b] /\ m \in made =>
              object'[m] = object[m] /\ program'[m] = program[m]
      BY <1>0, <1>2 DEF Compile, TypeOK
    <3> QED BY <1>0, <1>2, <2>1, <3>1, OthersKeepWorking DEF Compile, TypeOK
  <2>2. Working(b)'
    BY <1>0, <1>2 DEF Compile, Stages, after, TypeOK, Working
  <2> QED BY <2>1, <2>2
<1>3. ASSUME NEW b \in Builds, scratch_directory(b) PROVE \A c \in Builds : Working(c)'
  <2>1. ASSUME NEW c \in Builds, c # b PROVE Working(c)'
    <3>1. \A m \in Names : m # scratch[b] /\ m \in made =>
              object'[m] = object[m] /\ program'[m] = program[m]
      BY <1>0, <1>3 DEF scratch_directory, create_dir, TypeOK
    <3> QED BY <1>3, <2>1, <3>1, OthersKeepWorking DEF scratch_directory, create_dir, BuildInv, TypeOK
  <2>2. in_range(attempt[b]) => candidate(b) \in Names
    BY <1>0 DEF candidate, Names, in_range, TypeOK
  <2>3. Working(b)'
    BY <1>0, <1>3, <2>2 DEF scratch_directory, create_dir, TypeOK, Working, Stages
  <2> QED BY <2>1, <2>3
<1>4. ASSUME NEW b \in Builds, WriteObject(b) PROVE \A c \in Builds : Working(c)'
  <2>1. ASSUME NEW c \in Builds, c # b PROVE Working(c)'
    <3>1. \A m \in Names : m # scratch[b] /\ m \in made =>
              object'[m] = object[m] /\ program'[m] = program[m]
      BY <1>0, <1>4 DEF WriteObject, TypeOK
    <3> QED BY <1>0, <1>4, <2>1, <3>1, OthersKeepWorking DEF WriteObject, link_in_returns, TypeOK
  <2>2. Working(b)'
    BY <1>0, <1>4 DEF WriteObject, link_in_returns, Stages, TypeOK, Working
  <2> QED BY <2>1, <2>2
<1>5. ASSUME NEW b \in Builds, Launch(b) PROVE \A c \in Builds : Working(c)'
  <2>1. ASSUME NEW c \in Builds, c # b PROVE Working(c)'
    <3>1. \A m \in Names : m # scratch[b] /\ m \in made =>
              object'[m] = object[m] /\ program'[m] = program[m]
      BY <1>0, <1>5 DEF Launch, TypeOK
    <3> QED BY <1>0, <1>5, <2>1, <3>1, OthersKeepWorking DEF Launch, link_in_returns, TypeOK
  <2>2. Working(b)'
    BY <1>0, <1>5 DEF Launch, link_in_returns, Stages, TypeOK, Working
  <2> QED BY <2>1, <2>2
<1>6. ASSUME NEW b \in Builds, LinkerExits(b) PROVE \A c \in Builds : Working(c)'
  <2>1. ASSUME NEW c \in Builds, c # b PROVE Working(c)'
    <3>1. \A m \in Names : m # scratch[b] /\ m \in made =>
              object'[m] = object[m] /\ program'[m] = program[m]
      BY <1>0, <1>6 DEF LinkerExits, TypeOK
    <3> QED BY <1>0, <1>6, <2>1, <3>1, OthersKeepWorking DEF LinkerExits, link_in_returns, TypeOK
  <2>2. Working(b)'
    BY <1>0, <1>6 DEF LinkerExits, link_in_returns, Stages, TypeOK, Working
  <2> QED BY <2>1, <2>2
<1>7. ASSUME NEW b \in Builds, Rename(b) PROVE \A c \in Builds : Working(c)'
  <2>1. ASSUME NEW c \in Builds, c # b PROVE Working(c)'
    <3>1. \A m \in Names : m # scratch[b] /\ m \in made =>
              object'[m] = object[m] /\ program'[m] = program[m]
      BY <1>0, <1>7 DEF Rename, TypeOK
    <3> QED BY <1>0, <1>7, <2>1, <3>1, OthersKeepWorking DEF Rename, link_in_returns, TypeOK
  <2>2. Working(b)'
    BY <1>0, <1>7 DEF Rename, link_in_returns, Stages, TypeOK, Working
  <2> QED BY <2>1, <2>2
<1>8. ASSUME NEW b \in Builds, remove_dir_all(b) PROVE \A c \in Builds : Working(c)'
  <2>1. ASSUME NEW c \in Builds, c # b PROVE Working(c)'
    <3>1. \A m \in Names : m # scratch[b] /\ m \in made =>
              object'[m] = object[m] /\ program'[m] = program[m]
      BY <1>0, <1>8 DEF remove_dir_all, TypeOK
    <3> QED BY <1>0, <1>8, <2>1, <3>1, OthersKeepWorking DEF remove_dir_all, TypeOK
  <2>2. Working(b)'
    BY <1>0, <1>8 DEF remove_dir_all, resolve_outcome, Stages, TypeOK, Working
  <2> QED BY <2>1, <2>2
<1>9. ASSUME NEW b \in Builds, ScratchFails(b) PROVE \A c \in Builds : Working(c)'
  <2>1. ASSUME NEW c \in Builds, c # b PROVE Working(c)'
    <3>1. \A m \in Names : m # scratch[b] /\ m \in made =>
              object'[m] = object[m] /\ program'[m] = program[m]
      BY <1>0, <1>9 DEF ScratchFails, TypeOK
    <3> QED BY <1>0, <1>9, <2>1, <3>1, OthersKeepWorking DEF ScratchFails, TypeOK
  <2>2. Working(b)'
    BY <1>0, <1>9 DEF ScratchFails, Stages, TypeOK, Working
  <2> QED BY <2>1, <2>2
<1>10. ASSUME NEW b \in Builds, Linker(b) PROVE \A c \in Builds : Working(c)'
  <2>1. ASSUME NEW c \in Builds, c # b PROVE Working(c)'
    <3>1. \A m \in Names : m # scratch[b] /\ m \in made =>
              object'[m] = object[m] /\ program'[m] = program[m]
      BY <1>0, <1>10 DEF Linker, TypeOK
    <3> QED BY <1>0, <1>10, <2>1, <3>1, OthersKeepWorking DEF Linker, TypeOK
  <2>2. Working(b)'
    BY <1>0, <1>10 DEF Linker, Stages, TypeOK, Working
  <2> QED BY <2>1, <2>2
<1>11. ASSUME NEW p \in Processes, Kill(p) PROVE \A c \in Builds : Working(c)'
  BY <1>0, <1>11 DEF Kill, Working, Stages, TypeOK, Ended
<1>12. CASE UNCHANGED vars
  BY <1>0, <1>12 DEF vars, Working
<1> QED BY <1>1, <1>2, <1>3, <1>4, <1>5, <1>6, <1>7, <1>8, <1>9, <1>10, <1>11, <1>12 DEF Next, Step

\* A directory loses its build only when it is removed.
LEMMA NextNoStray == BuildInv /\ [Next]_vars => NoStrayScratch'
<1> SUFFICES ASSUME BuildInv, [Next]_vars PROVE NoStrayScratch'
  OBVIOUS
<1> USE BuildAssumption DEF Goto, files
<1>0. TypeOK /\ NoStrayScratch /\ \A b \in Builds : Working(b) /\ Apart(b)
  BY DEF BuildInv
<1>1. ASSUME NEW b \in Builds, UNCHANGED <<scratch, made, cleaned>>,
             \A c \in Builds : c # b => pc'[c] = pc[c],
             pc'[b] \in {"built", "refused"} => scratch[b] = Nothing
      PROVE  NoStrayScratch'
  BY <1>0, <1>1 DEF NoStrayScratch, TypeOK
<1>2. ASSUME NEW b \in Builds, scratch_directory(b) PROVE NoStrayScratch'
  <2>1. CASE UNCHANGED <<scratch, made>>
    BY <1>0, <1>1, <1>2, <2>1 DEF scratch_directory, TypeOK, Working
  <2>2. CASE create_dir(b) /\ scratch' = [scratch EXCEPT ![b] = candidate(b)] /\ Goto(b, "write")
    <3>1. scratch[b] = Nothing
      BY <1>0, <1>2 DEF scratch_directory, Working
    <3>2. pc'[b] = "write" /\ scratch'[b] = candidate(b)
      BY <1>0, <2>2 DEF TypeOK
    <3>3. \A c \in Builds : c # b => /\ scratch'[c] = scratch[c] /\ pc'[c] = pc[c]
                                     /\ cleaned'[c] = cleaned[c]
      BY <1>0, <1>2, <2>2 DEF scratch_directory, TypeOK
    <3> SUFFICES ASSUME NEW n \in made' \ Leftovers
                 PROVE  \E c \in Builds : /\ scratch'[c] = n
                                          /\ pc'[c] \in {"built", "refused"} => cleaned'[c] = "failed"
      BY DEF NoStrayScratch
    <3>4. CASE n = candidate(b)
      BY <3>2, <3>4
    <3>5. CASE n \in made
      <4>1. PICK c \in Builds : /\ scratch[c] = n
                                /\ pc[c] \in {"built", "refused"} => cleaned[c] = "failed"
        BY <1>0, <3>5 DEF NoStrayScratch
      <4>2. c # b
        BY <1>0, <3>1, <3>5, <4>1 DEF TypeOK
      <4> QED BY <3>3, <4>1, <4>2
    <3> QED BY <2>2, <3>4, <3>5 DEF create_dir
  <2> QED BY <1>2, <2>1, <2>2 DEF scratch_directory
<1>3. ASSUME NEW b \in Builds, remove_dir_all(b) PROVE NoStrayScratch'
  <2>1. \A c \in Builds : c # b => /\ scratch'[c] = scratch[c] /\ pc'[c] = pc[c]
                                   /\ cleaned'[c] = cleaned[c]
    BY <1>0, <1>3 DEF remove_dir_all, TypeOK
  <2>2. made' \subseteq made
    BY <1>3 DEF remove_dir_all
  <2>3. scratch[b] \in made' => scratch'[b] = scratch[b] /\ cleaned'[b] = "failed"
    BY <1>0, <1>3 DEF remove_dir_all, TypeOK
  <2> QED BY <1>0, <2>1, <2>2, <2>3 DEF NoStrayScratch
<1>4. ASSUME NEW b \in Builds,
             \/ Start(b) \/ Compile(b) \/ WriteObject(b) \/ Launch(b) \/ LinkerExits(b)
             \/ Rename(b) \/ ScratchFails(b) \/ Linker(b)
      PROVE  NoStrayScratch'
  BY <1>0, <1>1, <1>4 DEF Start, Compile, WriteObject, Launch, LinkerExits, Rename, ScratchFails,
     Linker, link_in_returns, after, TypeOK, Working
<1>5. ASSUME NEW p \in Processes, Kill(p) PROVE NoStrayScratch'
  BY <1>0, <1>5 DEF Kill, NoStrayScratch, TypeOK
<1>6. CASE UNCHANGED vars
  BY <1>0, <1>6 DEF vars, NoStrayScratch
<1> QED BY <1>2, <1>3, <1>4, <1>5, <1>6 DEF Next, Step

\* BuildInv is an invariant of the builds.
THEOREM BuildInvariant == Spec => []BuildInv
<1>1. BuildInv /\ [Next]_vars => BuildInv'
  BY NextTypeOK, NextApart, NextWorking, NextNoStray DEF BuildInv
<1> QED BY InitInv, <1>1, PTL DEF Spec

\* A build works in, and removes, only a directory it made itself
\* (scratch_directory), and no orphaned linker shares it.
THEOREM ScratchIsOwned == Spec => []OwnScratch
<1>1. BuildInv => OwnScratch
  BY DEF BuildInv, OwnScratch, Working, Apart
<1> QED BY <1>1, BuildInvariant, PTL

\* link_object strands no scratch directory: one outlives its build only after
\* a kill or a failed remove_dir_all.
THEOREM ScratchIsRemoved == Spec => []NoStrayScratch
<1>1. BuildInv => NoStrayScratch
  BY DEF BuildInv
<1> QED BY <1>1, BuildInvariant, PTL

-----------------------------------------------------------------------------
\* When only build b moves, only its phase can change.
LEMMA OnePhase ==
    ASSUME TypeOK, NEW b \in Builds,
           \A c \in Builds : c # b => pc'[c] = pc[c] /\ linked'[c] = linked[c]
    PROVE  phase' = [phase EXCEPT ![b] = phase'[b]]
BY DEF phase

\* Every step of a build is a step of the publication, or invisible from it.
LEMMA NextPublication == BuildInv /\ [Next]_vars => [Publication!Next]_<<out, phase>>
<1> SUFFICES ASSUME BuildInv, [Next]_vars PROVE [Publication!Next]_<<out, phase>>
  OBVIOUS
<1> USE BuildAssumption DEF Goto, files
<1>0. TypeOK /\ \A b \in Builds : Working(b)
  BY DEF BuildInv
<1>1. ASSUME NEW b \in Builds, out' = out, phase'[b] = phase[b],
             \A c \in Builds : c # b => pc'[c] = pc[c] /\ linked'[c] = linked[c]
      PROVE  UNCHANGED <<out, phase>>
  BY <1>0, <1>1, OnePhase DEF phase
<1>2. ASSUME NEW b \in Builds, out' = out, phase[b] = "pending", phase'[b] = "refused",
             \A c \in Builds : c # b => pc'[c] = pc[c] /\ linked'[c] = linked[c]
      PROVE  Publication!ReportRefused(b)
  BY <1>0, <1>2, OnePhase DEF Publication!ReportRefused
<1>3. ASSUME NEW b \in Builds, Step(b) \/ Start(b) \/ ScratchFails(b) \/ Linker(b)
      PROVE  \A c \in Builds : c # b => pc'[c] = pc[c] /\ linked'[c] = linked[c]
  BY <1>0, <1>3 DEF Step, Start, Compile, scratch_directory, WriteObject, Launch, LinkerExits,
     Rename, remove_dir_all, ScratchFails, Linker, link_in_returns, TypeOK
<1>4. ASSUME NEW b \in Builds, Start(b) \/ Compile(b) \/ scratch_directory(b) \/ ScratchFails(b)
      PROVE  UNCHANGED <<out, phase>> \/ Publication!ReportRefused(b)
  <2>1. out' = out
    BY <1>4 DEF Start, Compile, scratch_directory, create_dir, ScratchFails
  <2>2. phase[b] = "pending" /\ phase'[b] \in {"pending", "refused"}
    BY <1>0, <1>4 DEF Start, Compile, scratch_directory, ScratchFails, phase, TypeOK, Ended,
       Stages, after
  <2> QED BY <1>1, <1>2, <1>3, <1>4, <2>1, <2>2 DEF Step
<1>5. ASSUME NEW b \in Builds, WriteObject(b) \/ Launch(b) \/ LinkerExits(b) \/ Linker(b)
      PROVE  UNCHANGED <<out, phase>>
  <2>1. out' = out
    BY <1>5 DEF WriteObject, Launch, LinkerExits, Linker
  <2>2. phase[b] = phase'[b]
    BY <1>0, <1>5 DEF WriteObject, Launch, LinkerExits, Linker, link_in_returns, phase, TypeOK, Ended
  <2> QED BY <1>1, <1>3, <1>5, <2>1, <2>2 DEF Step
<1>6. ASSUME NEW b \in Builds, Rename(b)
      PROVE  UNCHANGED <<out, phase>> \/ Publication!Publish(b)
  <2>1. program[scratch[b]] = b
    BY <1>0, <1>6 DEF Rename, Working
  <2>2. phase[b] = "pending"
    BY <1>6 DEF Rename, phase, Ended
  <2>3. CASE out' = [out EXCEPT ![OutputOf[b]] = program[scratch[b]]] /\ link_in_returns(b, TRUE)
    <3>1. phase'[b] = "published"
      BY <1>0, <2>3 DEF link_in_returns, phase, TypeOK, Ended
    <3>2. phase' = [phase EXCEPT ![b] = "published"]
      BY <1>0, <1>3, <1>6, <3>1, OnePhase DEF Step
    <3> QED BY <2>1, <2>2, <2>3, <3>2 DEF Publication!Publish
  <2>4. CASE out' = out /\ link_in_returns(b, FALSE)
    <3>1. phase'[b] = "pending"
      BY <1>0, <2>4 DEF link_in_returns, phase, TypeOK, Ended
    <3> QED BY <1>1, <1>3, <1>6, <2>2, <2>4, <3>1 DEF Step
  <2> QED BY <1>6, <2>3, <2>4 DEF Rename
<1>7. ASSUME NEW b \in Builds, remove_dir_all(b)
      PROVE  Publication!ReportBuilt(b) \/ Publication!ReportRefused(b)
  <2>1. out' = out
    BY <1>7 DEF remove_dir_all
  <2>2. CASE linked[b]
    <3>1. phase[b] = "published" /\ phase'[b] = "built"
      BY <1>0, <1>7, <2>2 DEF remove_dir_all, resolve_outcome, phase, TypeOK, Ended
    <3>2. phase' = [phase EXCEPT ![b] = "built"]
      BY <1>0, <1>3, <1>7, <3>1, OnePhase DEF Step
    <3> QED BY <2>1, <3>1, <3>2 DEF Publication!ReportBuilt
  <2>3. CASE ~linked[b]
    <3>1. phase[b] = "pending" /\ phase'[b] = "refused"
      BY <1>0, <1>7, <2>3 DEF remove_dir_all, resolve_outcome, phase, TypeOK, Ended
    <3> QED BY <1>2, <1>3, <1>7, <2>1, <3>1 DEF Step
  <2> QED BY <2>2, <2>3
<1>8. ASSUME NEW p \in Processes, Kill(p) PROVE \E S \in SUBSET Builds : Publication!Kill(S)
  <2> DEFINE S == {b \in Builds : ProcessOf[b] = p /\ pc[b] \notin Ended \cup {"idle"}}
  <2>1. \A b \in S : phase[b] \in {"pending", "published"}
    BY DEF phase
  <2>2. pc' = [b \in Builds |-> IF b \in S THEN "killed" ELSE pc[b]] /\ UNCHANGED <<linked, out>>
    BY <1>8 DEF Kill
  <2>3. phase' = [b \in Builds |-> IF b \in S THEN "killed" ELSE phase[b]]
    BY <2>2 DEF phase, Ended
  <2> QED BY <2>1, <2>2, <2>3 DEF Publication!Kill
<1>9. CASE UNCHANGED vars
  BY <1>9 DEF vars, phase
<1> QED BY <1>4, <1>5, <1>6, <1>7, <1>8, <1>9 DEF Next, Step, Publication!Next

\* Builds, linkers, failures and kills in any order implement NativePublication:
\* the output changes only by a build renaming its own finished executable onto
\* it, and never for a build that then reports failure (resolve_outcome).
THEOREM OutputAtomicity == Spec => OutputIsAtomic
<1>1. Init => Publication!Init
  BY DEF Init, Publication!Init, phase, Ended
<1>2. BuildInv /\ [Next]_vars => [Publication!Next]_(Publication!publication)
  BY NextPublication DEF Publication!publication
<1> QED BY <1>1, <1>2, BuildInvariant, PTL DEF Spec, OutputIsAtomic, Publication!Spec

=============================================================================
