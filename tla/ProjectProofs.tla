--------------------------- MODULE ProjectProofs ---------------------------
(***************************************************************************)
(* Proofs about ProjectLoader and ProjectCompile, for every set of         *)
(* modules, every project and whatever its sources hold.                   *)
(***************************************************************************)
EXTENDS ProjectCompile, TLAPS, FiniteSetTheorems, SequenceTheorems,
        WellFoundedInduction

----------------------------------------------------------------------------
(* Sets of modules and sequences of modules. *)

\* BTreeSet's first element: a nonempty set of paths has a smallest one.
LEMMA SmallestPath ==
    ASSUME NEW S \in SUBSET Nat, S # {}
    PROVE  Min(S) \in S /\ \A n \in S : Min(S) <= n
<1> DEFINE less == {p \in Nat \X Nat : p[1] < p[2]}
<1>1. IsWellFoundedOn(less, Nat)
  BY NatLessThanWellFounded DEF OpToRel
<1>2. PICK x \in S : \A y \in S : <<y, x>> \notin less
  BY <1>1, WFMin
<1>3. ASSUME NEW y \in S
      PROVE  x <= y
  <2>1. x \in Nat /\ y \in Nat /\ ~(y < x)
    BY <1>2
  <2> QED
    BY <2>1
<1> QED
  BY <1>3 DEF Min

\* What Append adds to the elements of a sequence.
LEMMA ToSetAppend ==
    ASSUME NEW T, NEW s \in Seq(T), NEW x \in T
    PROVE  /\ ToSet(Append(s, x)) = ToSet(s) \cup {x}
           /\ Append(s, x) \in Seq(T)
<1> DEFINE a == Append(s, x)
<1>1. /\ a \in Seq(T) /\ Len(a) = Len(s) + 1
      /\ \A i \in 1..Len(s) : a[i] = s[i]
      /\ a[Len(s) + 1] = x
  OBVIOUS
<1>2. DOMAIN a = 1..(Len(s) + 1) /\ DOMAIN s = 1..Len(s) /\ Len(s) \in Nat
  BY <1>1
<1>3. ASSUME NEW y \in ToSet(a)
      PROVE  y \in ToSet(s) \cup {x}
  BY <1>1, <1>2, <1>3 DEF ToSet
<1>4. ASSUME NEW y \in ToSet(s) \cup {x}
      PROVE  y \in ToSet(a)
  <2>1. CASE y \in ToSet(s)
    BY <1>1, <1>2, <2>1 DEF ToSet
  <2>2. CASE y = x
    BY <1>1, <1>2, <2>2 DEF ToSet
  <2> QED
    BY <1>4, <2>1, <2>2
<1> QED
  BY <1>1, <1>3, <1>4

\* A sequence without repetition has as many elements as its length.
LEMMA InjectiveLength ==
    ASSUME NEW T, NEW s \in Seq(T), IsInjective(s)
    PROVE  IsFiniteSet(ToSet(s)) /\ Cardinality(ToSet(s)) = Len(s)
<1>1. s \in Bijection(1..Len(s), ToSet(s))
  BY DEF Bijection, Injection, Surjection, IsInjective, ToSet
<1>2. IsFiniteSet(1..Len(s)) /\ Cardinality(1..Len(s)) = Len(s)
  <2>1. Len(s) \in Nat /\ 0 \in Int /\ 1 \in Int /\ Len(s) \in Int
    OBVIOUS
  <2> QED
    BY <2>1, FS_Interval
<1> QED
  BY <1>1, <1>2, FS_Bijection DEF ExistsBijection

\* Taking the last request off the worklist.
LEMMA PopQueue ==
    ASSUME NEW T, NEW s \in Seq(T), s # <<>>
    PROVE  /\ Front(s) \in Seq(T) /\ Last(s) \in T
           /\ Len(s) \in Nat \ {0} /\ DOMAIN s = 1..Len(s)
           /\ DOMAIN Front(s) = 1..(Len(s) - 1)
           /\ \A i \in 1..(Len(s) - 1) : Front(s)[i] = s[i]
<1>1. Len(s) \in Nat \ {0} /\ DOMAIN s = 1..Len(s)
  OBVIOUS
<1>2. \A i \in 1..(Len(s) - 1) : s[i] \in T
  BY <1>1
<1>3. Front(s) = [i \in 1..(Len(s) - 1) |-> s[i]]
  BY <1>1 DEF Front
<1>4. Front(s) \in [1..(Len(s) - 1) -> T]
  BY <1>2, <1>3
<1>5. Front(s) \in Seq(T)
  BY <1>1, <1>4
<1> QED
  BY <1>1, <1>3, <1>5 DEF Last

\* What Tail leaves of the elements of a sequence.
LEMMA ToSetTail ==
    ASSUME NEW T, NEW s \in Seq(T), s # <<>>
    PROVE  /\ Tail(s) \in Seq(T) /\ Head(s) \in T
           /\ ToSet(s) = {Head(s)} \cup ToSet(Tail(s))
<1>1. /\ Len(s) \in Nat \ {0} /\ DOMAIN s = 1..Len(s)
      /\ Head(s) = s[1] /\ Tail(s) \in Seq(T) /\ Len(Tail(s)) = Len(s) - 1
      /\ \A i \in 1..(Len(s) - 1) : Tail(s)[i] = s[i + 1]
  OBVIOUS
<1>2. DOMAIN Tail(s) = 1..(Len(s) - 1)
  BY <1>1
<1>3. ASSUME NEW y \in ToSet(s)
      PROVE  y \in {Head(s)} \cup ToSet(Tail(s))
  <2>1. PICK i \in 1..Len(s) : y = s[i]
    BY <1>1 DEF ToSet
  <2>2. CASE i = 1
    BY <1>1, <2>1, <2>2
  <2>3. CASE i # 1
    <3>1. i - 1 \in 1..(Len(s) - 1) /\ Tail(s)[i - 1] = y
      BY <1>1, <2>1, <2>3
    <3> QED
      BY <1>2, <3>1 DEF ToSet
  <2> QED
    BY <2>2, <2>3
<1>4. ASSUME NEW y \in {Head(s)} \cup ToSet(Tail(s))
      PROVE  y \in ToSet(s)
  <2>1. CASE y = Head(s)
    BY <1>1, <2>1 DEF ToSet
  <2>2. CASE y \in ToSet(Tail(s))
    BY <1>1, <1>2, <2>2 DEF ToSet
  <2> QED
    BY <1>4, <2>1, <2>2
<1> QED
  BY <1>1, <1>3, <1>4

\* The elements of a sequence of modules are modules.
LEMMA ToSetType ==
    ASSUME NEW T, NEW s \in Seq(T)
    PROVE  ToSet(s) \subseteq T
BY DEF ToSet

\* Reachable is the least set with the entry that is closed under imports.
LEMMA ReachableLeast ==
    ASSUME project \in ProjectType
    PROVE  /\ Entry \in Reachable /\ Reachable \subseteq Modules
           /\ \A m \in Reachable : Imports(m) \subseteq Reachable
           /\ \A S \in SUBSET Modules :
                (Entry \in S /\ \A n \in S : Imports(n) \subseteq S)
                    => Reachable \subseteq S
<1>1. \A m \in Modules : Imports(m) \subseteq Modules
  <2>1. \A m \in Modules : project.imports[m] \in Seq(Modules)
    BY DEF ProjectType
  <2> QED
    BY <2>1, ToSetType DEF Imports
<1>2. Entry \in Modules
  BY ModuleAssumption
<1>3. ASSUME NEW m \in Reachable, NEW n \in Imports(m)
      PROVE  n \in Reachable
  <2>1. m \in Modules /\ n \in Modules
    BY <1>1 DEF Reachable
  <2>2. ASSUME NEW S \in SUBSET Modules, Entry \in S,
               \A k \in S : Imports(k) \subseteq S
        PROVE  n \in S
    BY <2>2 DEF Reachable
  <2> QED
    BY <2>1, <2>2 DEF Reachable
<1> QED
  BY <1>2, <1>3 DEF Reachable
----------------------------------------------------------------------------
(* Types. *)

\* The imports that are being read are those of the last module loaded.
LoadShape == LoadTypeOK /\ (reading # <<>> => modules # <<>>)

\* The smallest ready module is ready.
LEMMA NextReady ==
    ASSUME LoadTypeOK, ready # {}
    PROVE  next_ready \in ready /\ next_ready \in Modules
BY ModuleAssumption, SmallestPath DEF next_ready, LoadTypeOK

\* Every step of the load keeps the types of its tables.
LEMMA LoadShapeStep == LoadShape /\ [Next]_vars => LoadShape'
<1> SUFFICES ASSUME LoadShape, [Next]_vars
             PROVE  LoadShape'
  OBVIOUS
<1> USE DEF LoadTypeOK, LoadShape
<1>1. CASE Setup
  BY <1>1 DEF Setup, loading, ordering, Final
<1>2. ASSUME NEW r \in Request, Visit(r)
      PROVE  LoadShape'
  <2>1. Pop(r) /\ folded' \in {folded, folded \cup {r.module}}
               /\ canonical' \in {canonical, canonical \cup {r.module}}
               /\ \/ UNCHANGED <<modules, reading>>
                  \/ modules' = Append(modules, r.module) /\ reading' = project.imports[r.module]
    BY <1>2 DEF Visit, VisitCollision, VisitMissing, VisitOutside,
         VisitDuplicate, VisitFile, VisitUnreadable, VisitLoad
  <2>2. r.module \in Modules /\ project.imports[r.module] \in Seq(Modules)
    BY DEF Request, ProjectType
  <2>3. queue' \in Seq(Request)
    BY <2>1, PopQueue DEF Pop
  <2>4. /\ modules' \in Seq(Modules) /\ reading' \in Seq(Modules)
        /\ reading' # <<>> => modules' # <<>>
    <3>1. CASE UNCHANGED <<modules, reading>>
      BY <3>1
    <3>2. CASE modules' = Append(modules, r.module) /\ reading' = project.imports[r.module]
      BY <2>2, <3>2
    <3> QED
      BY <2>1, <3>1, <3>2
  <2> QED
    BY <2>1, <2>2, <2>3, <2>4 DEF Pop, ordering
<1>3. CASE ReadImport
  <2>1. /\ reading \in Seq(Modules) /\ reading # <<>>
        /\ modules \in Seq(Modules) /\ modules # <<>>
    BY <1>3 DEF ReadImport
  <2>2. Head(reading) \in Modules /\ Tail(reading) \in Seq(Modules)
    BY <2>1, ToSetTail
  <2>3. Last(modules) \in Modules
    BY <2>1, PopQueue
  <2>4. [module |-> Head(reading), site |-> Last(modules)] \in Request
    BY <2>2, <2>3 DEF Request, Site
  <2>5. queue' \in Seq(Request) /\ queued' \subseteq Modules
    <3> DEFINE request == [module |-> Head(reading), site |-> Last(modules)]
    <3>1. Append(queue, request) \in Seq(Request)
      BY <2>4
    <3>2. \/ UNCHANGED <<queue, queued>>
          \/ /\ queue' = Append(queue, request)
             /\ queued' = queued \cup {Head(reading)}
      BY <1>3 DEF ReadImport
    <3> QED
      BY <2>2, <3>1, <3>2
  <2> QED
    BY <1>3, <2>1, <2>2, <2>5 DEF ReadImport, ordering
<1>4. CASE EndDiscovery
  <2>1. ready' \subseteq Modules
    BY <1>4, ToSetType DEF EndDiscovery, loaded
  <2> QED
    BY <1>4, <2>1 DEF EndDiscovery, loading, Final
<1>5. CASE Place
  <2>1. next_ready \in Modules
    BY <1>5, NextReady DEF Place
  <2>2. loaded \subseteq Modules
    BY ToSetType DEF loaded
  <2>3. ready' \subseteq Modules /\ order' \in Seq(Modules)
    BY <1>5, <2>1, <2>2 DEF Place
  <2> QED
    BY <1>5, <2>3 DEF Place, loading
<1>6. CASE EndOrdering
  BY <1>6 DEF EndOrdering, loading, ordering, Final
<1>7. CASE Search
  BY <1>7 DEF Search, loading, ordering
<1>8. CASE ReportCycle
  BY <1>8 DEF ReportCycle, loading, ordering, Final
<1>9. CASE UNCHANGED vars
  BY <1>9 DEF vars, loading, ordering
<1> QED
  BY <1>1, <1>2, <1>3, <1>4, <1>5, <1>6, <1>7, <1>8, <1>9 DEF Next
----------------------------------------------------------------------------
(* Discovery: what was asked for is reachable, each request is served once, *)
(* and without a diagnostic nothing that was asked for is lost.            *)

Waiting == {queue[i].module : i \in DOMAIN queue}

RequestsReachable ==
    /\ Entry \in queued
    /\ queued \subseteq Reachable
    /\ ToSet(reading) \subseteq Reachable

ServedOnce ==
    /\ loaded \subseteq queued /\ Waiting \subseteq queued
    /\ Waiting \cap loaded = {}
    /\ \A i, j \in DOMAIN queue : queue[i].module = queue[j].module => i = j
    /\ IsInjective(modules)

NothingLost ==
    /\ \A m \in loaded : Imports(m) \subseteq queued \cup ToSet(reading)
    /\ diagnostics = {} => queued \subseteq loaded \cup Waiting

DiscoveryDone ==
    /\ stage = "setup" => diagnostics = {}
    /\ stage \in {"order", "search", "loaded", "panicked"} =>
        diagnostics = {} /\ queue = <<>> /\ reading = <<>>

Discovery ==
    RequestsReachable /\ ServedOnce /\ NothingLost /\ DiscoveryDone

\* Popping a request takes its module, and only that, out of the worklist.
LEMMA PopWaiting ==
    ASSUME LoadShape, ServedOnce, NEW r \in Request, Pop(r)
    PROVE  /\ r.module \in Waiting
           /\ Waiting' = Waiting \ {r.module}
           /\ \A i, j \in DOMAIN queue' :
                queue'[i].module = queue'[j].module => i = j
<1>1. /\ queue \in Seq(Request) /\ queue # <<>>
      /\ r = Last(queue) /\ queue' = Front(queue)
  BY DEF LoadShape, LoadTypeOK, Pop
<1>2. /\ Len(queue) \in Nat \ {0} /\ DOMAIN queue = 1..Len(queue)
      /\ DOMAIN queue' = 1..(Len(queue) - 1)
      /\ \A i \in 1..(Len(queue) - 1) : queue'[i] = queue[i]
      /\ r = queue[Len(queue)]
  BY <1>1, PopQueue DEF Last
<1>3. \A i, j \in DOMAIN queue : queue[i].module = queue[j].module => i = j
  BY DEF ServedOnce
<1>4. r.module \in Waiting
  BY <1>2 DEF Waiting
<1>5. ASSUME NEW m \in Waiting'
      PROVE  m \in Waiting \ {r.module}
  <2>1. PICK i \in 1..(Len(queue) - 1) : m = queue[i].module
    BY <1>2, <1>5 DEF Waiting
  <2>2. i \in DOMAIN queue /\ Len(queue) \in DOMAIN queue /\ i # Len(queue)
    <3>1. \A n \in Nat \ {0} : \A k \in 1..(n - 1) : k \in 1..n /\ n \in 1..n /\ k # n
      OBVIOUS
    <3>2. Len(queue) \in Nat \ {0} /\ DOMAIN queue = 1..Len(queue)
      BY <1>2
    <3> QED
      BY <3>1, <3>2
  <2> QED
    BY <1>2, <1>3, <2>1, <2>2 DEF Waiting
<1>6. ASSUME NEW m \in Waiting \ {r.module}
      PROVE  m \in Waiting'
  <2>1. PICK i \in 1..Len(queue) : m = queue[i].module
    BY <1>2, <1>6 DEF Waiting
  <2>2. i \in 1..(Len(queue) - 1)
    BY <1>2, <1>6, <2>1
  <2> QED
    BY <1>2, <2>1, <2>2 DEF Waiting
<1>7. \A i, j \in DOMAIN queue' : queue'[i].module = queue'[j].module => i = j
  BY <1>2, <1>3
<1> QED
  BY <1>4, <1>5, <1>6, <1>7

\* A refused request leaves a diagnostic and nothing else.
LEMMA RefusedStep ==
    ASSUME LoadShape, Discovery, NEW r \in Request, Pop(r),
           diagnostics' # {}, UNCHANGED <<modules, reading>>
    PROVE  Discovery'
<1>1. /\ Waiting' = Waiting \ {r.module}
      /\ \A i, j \in DOMAIN queue' : queue'[i].module = queue'[j].module => i = j
  BY PopWaiting DEF Discovery
<1>2. /\ UNCHANGED <<project, stage, queued>> /\ stage = "discover"
      /\ UNCHANGED <<loaded, Reachable>>
      /\ \A m : Imports(m)' = Imports(m)
  BY DEF Pop, loaded, Reachable, Imports
<1>3. RequestsReachable'
  BY <1>2 DEF Discovery, RequestsReachable
<1>4. ServedOnce'
  BY <1>1, <1>2 DEF Discovery, ServedOnce
<1>5. NothingLost'
  BY <1>2 DEF Discovery, NothingLost
<1>6. DiscoveryDone'
  BY <1>2 DEF DiscoveryDone
<1> QED
  BY <1>3, <1>4, <1>5, <1>6 DEF Discovery

\* A loaded module leaves the worklist, and its imports are to be read.
LEMMA LoadedStep ==
    ASSUME LoadShape, Discovery, NEW r \in Request, VisitLoad(r)
    PROVE  Discovery'
<1>1. /\ Pop(r)
      /\ modules' = Append(modules, r.module)
      /\ reading' = project.imports[r.module]
      /\ r.module \in Modules /\ modules \in Seq(Modules)
      /\ diagnostics \subseteq diagnostics'
  BY DEF VisitLoad, VisitFile, Request, LoadShape, LoadTypeOK, Report
<1>2. /\ r.module \in Waiting /\ Waiting' = Waiting \ {r.module}
      /\ \A i, j \in DOMAIN queue' : queue'[i].module = queue'[j].module => i = j
  BY <1>1, PopWaiting DEF Discovery
<1>3. /\ UNCHANGED <<project, stage, queued, Reachable>> /\ stage = "discover"
      /\ \A m : Imports(m)' = Imports(m)
      /\ reading = <<>>
  BY <1>1 DEF Pop, Reachable, Imports
<1>4. loaded' = loaded \cup {r.module} /\ r.module \notin loaded
  BY <1>1, <1>2, ToSetAppend DEF loaded, Discovery, ServedOnce
<1>5. ToSet(reading') = Imports(r.module) /\ ToSet(reading) = {}
  BY <1>1, <1>3 DEF Imports, ToSet
<1>6. r.module \in Reachable
  BY <1>2 DEF Discovery, RequestsReachable, ServedOnce
<1>7. RequestsReachable'
  <2>1. Imports(r.module) \subseteq Reachable
    BY <1>6, ReachableLeast DEF LoadShape, LoadTypeOK
  <2>2. ToSet(reading)' \subseteq Reachable
    BY <1>5, <2>1
  <2> QED
    BY <1>3, <2>2 DEF Discovery, RequestsReachable
<1>8. IsInjective(modules')
  <2>1. IsInjective(modules)
    BY DEF Discovery, ServedOnce
  <2>2. \A i \in DOMAIN modules : modules[i] # r.module
    BY <1>4 DEF loaded, ToSet
  <2>3. /\ Len(modules) \in Nat /\ DOMAIN modules = 1..Len(modules)
        /\ DOMAIN modules' = 1..(Len(modules) + 1)
        /\ \A i \in 1..Len(modules) : modules'[i] = modules[i]
        /\ modules'[Len(modules) + 1] = r.module
    BY <1>1
  <2>4. ASSUME NEW i \in DOMAIN modules', NEW j \in DOMAIN modules',
               modules'[i] = modules'[j]
        PROVE  i = j
    <3>1. CASE i \in 1..Len(modules) /\ j \in 1..Len(modules)
      BY <2>1, <2>3, <2>4, <3>1 DEF IsInjective
    <3>2. CASE i = Len(modules) + 1 \/ j = Len(modules) + 1
      BY <2>2, <2>3, <2>4, <3>2
    <3> QED
      BY <2>3, <3>1, <3>2
  <2> QED
    BY <2>4 DEF IsInjective
<1>9. ServedOnce'
  BY <1>2, <1>3, <1>4, <1>8 DEF Discovery, ServedOnce
<1>10. NothingLost'
  <2>1. \A m \in loaded' : Imports(m)' \subseteq queued' \cup ToSet(reading')
    BY <1>3, <1>4, <1>5 DEF Discovery, NothingLost
  <2>2. diagnostics' = {} => queued' \subseteq loaded' \cup Waiting'
    BY <1>1, <1>2, <1>3, <1>4 DEF Discovery, NothingLost
  <2> QED
    BY <2>1, <2>2 DEF NothingLost
<1>11. DiscoveryDone'
  BY <1>3 DEF DiscoveryDone
<1> QED
  BY <1>7, <1>9, <1>10, <1>11 DEF Discovery

\* An import statement puts its module on the worklist unless it was asked for.
LEMMA ImportWaits ==
    ASSUME LoadShape, Discovery, ReadImport
    PROVE  /\ queued' = queued \cup {Head(reading)}
           /\ Waiting' = Waiting \cup (queued' \ queued)
           /\ \A i, j \in DOMAIN queue' :
                queue'[i].module = queue'[j].module => i = j
<1> DEFINE target == Head(reading)
           request == [module |-> target, site |-> Last(modules)]
<1>1. /\ reading \in Seq(Modules) /\ reading # <<>> /\ queue \in Seq(Request)
      /\ modules \in Seq(Modules) /\ modules # <<>>
  BY DEF ReadImport, LoadShape, LoadTypeOK
<1>2. target \in Modules
  BY <1>1, ToSetTail
<1>3. queued' = queued \cup {target}
  BY DEF ReadImport
<1>4. CASE target \in queued
  BY <1>3, <1>4 DEF ReadImport, Waiting, Discovery, ServedOnce
<1>5. CASE target \notin queued
  <2>1. queue' = Append(queue, request) /\ request.module = target
    BY <1>5 DEF ReadImport
  <2>2. request \in Request
    BY <1>1, <1>2, PopQueue DEF Request, Site
  <2>3. /\ Len(queue) \in Nat /\ DOMAIN queue = 1..Len(queue)
        /\ DOMAIN queue' = 1..(Len(queue) + 1)
        /\ \A i \in 1..Len(queue) : queue'[i] = queue[i]
        /\ queue'[Len(queue) + 1] = request
    BY <1>1, <2>1, <2>2
  <2>4. \A i \in DOMAIN queue : queue[i].module # target
    BY <1>5 DEF Discovery, ServedOnce, Waiting
  <2>5. Waiting' = Waiting \cup {target}
    <3>1. ASSUME NEW m \in Waiting'
          PROVE  m \in Waiting \cup {target}
      BY <2>1, <2>3, <3>1 DEF Waiting
    <3>2. ASSUME NEW m \in Waiting
          PROVE  m \in Waiting'
      BY <2>3, <3>2 DEF Waiting
    <3>3. target \in Waiting'
      BY <2>1, <2>3 DEF Waiting
    <3> QED
      BY <3>1, <3>2, <3>3
  <2>6. ASSUME NEW i \in DOMAIN queue', NEW j \in DOMAIN queue',
               queue'[i].module = queue'[j].module
        PROVE  i = j
    <3>1. CASE i \in 1..Len(queue) /\ j \in 1..Len(queue)
      BY <2>3, <2>6, <3>1 DEF Discovery, ServedOnce
    <3>2. CASE i = Len(queue) + 1 \/ j = Len(queue) + 1
      BY <2>1, <2>3, <2>4, <2>6, <3>2
    <3> QED
      BY <2>3, <3>1, <3>2
  <2> QED
    BY <1>3, <1>5, <2>5, <2>6
<1> QED
  BY <1>3, <1>4, <1>5

\* Reading an import statement loses no request.
LEMMA ImportStep ==
    ASSUME LoadShape, Discovery, ReadImport
    PROVE  Discovery'
<1> DEFINE target == Head(reading)
<1>1. /\ UNCHANGED <<project, stage, modules, diagnostics, loaded, Reachable>>
      /\ stage = "discover" /\ \A m : Imports(m)' = Imports(m)
      /\ reading \in Seq(Modules) /\ reading # <<>> /\ reading' = Tail(reading)
  BY DEF ReadImport, loaded, Reachable, Imports, LoadShape, LoadTypeOK
<1>2. /\ ToSet(reading) = {target} \cup ToSet(reading') /\ target \in Modules
  BY <1>1, ToSetTail
<1>3. /\ queued' = queued \cup {target}
      /\ Waiting' = Waiting \cup (queued' \ queued)
      /\ \A i, j \in DOMAIN queue' : queue'[i].module = queue'[j].module => i = j
  BY ImportWaits
<1>4. RequestsReachable'
  BY <1>1, <1>2, <1>3 DEF Discovery, RequestsReachable
<1>5. ServedOnce'
  BY <1>1, <1>3 DEF Discovery, ServedOnce
<1>6. NothingLost'
  BY <1>1, <1>2, <1>3 DEF Discovery, NothingLost
<1>7. DiscoveryDone'
  BY <1>1 DEF DiscoveryDone
<1> QED
  BY <1>4, <1>5, <1>6, <1>7 DEF Discovery

\* Steps that leave the worklist and its tables alone.
LEMMA TablesKept ==
    ASSUME Discovery, UNCHANGED <<project, loading>>, DiscoveryDone',
           diagnostics' = {} => diagnostics = {}
    PROVE  Discovery'
<1>1. /\ UNCHANGED <<project, queue, queued, modules, reading>>
      /\ UNCHANGED <<loaded, Reachable, Waiting>>
      /\ \A m : Imports(m)' = Imports(m)
  BY DEF loading, loaded, Reachable, Imports, Waiting
<1>2. RequestsReachable'
  BY <1>1 DEF Discovery, RequestsReachable
<1>3. ServedOnce'
  BY <1>1 DEF Discovery, ServedOnce
<1>4. NothingLost'
  BY <1>1 DEF Discovery, NothingLost
<1> QED
  BY <1>2, <1>3, <1>4 DEF Discovery

\* Every step of the load keeps the facts about discovery.
LEMMA DiscoveryStep == LoadShape /\ Discovery /\ [Next]_vars => Discovery'
<1> SUFFICES ASSUME LoadShape, Discovery, [Next]_vars
             PROVE  Discovery'
  OBVIOUS
<1>1. CASE Setup
  <2>1. stage = "setup" /\ diagnostics = {} /\ stage' \in {"discover", "rejected"}
    BY <1>1 DEF Setup, Discovery, DiscoveryDone
  <2>2. DiscoveryDone'
    BY <2>1 DEF DiscoveryDone
  <2> QED
    BY <1>1, <2>1, <2>2, TablesKept DEF Setup
<1>2. ASSUME NEW r \in Request, Visit(r)
      PROVE  Discovery'
  <2>1. CASE VisitLoad(r)
    BY <2>1, LoadedStep
  <2>2. CASE ~VisitLoad(r)
    <3>1. Pop(r) /\ diagnostics' # {} /\ UNCHANGED <<modules, reading>>
      BY <1>2, <2>2 DEF Visit, VisitCollision, VisitMissing, VisitOutside,
           VisitDuplicate, VisitFile, VisitUnreadable, Report
    <3> QED
      BY <3>1, RefusedStep
  <2> QED
    BY <2>1, <2>2
<1>3. CASE ReadImport
  BY <1>3, ImportStep
<1>4. CASE EndDiscovery
  <2>1. DiscoveryDone'
    BY <1>4 DEF EndDiscovery, DiscoveryDone, loading
  <2> QED
    BY <1>4, <2>1, TablesKept DEF EndDiscovery
<1>5. CASE Place
  <2>1. DiscoveryDone'
    BY <1>5 DEF Place, Discovery, DiscoveryDone, loading
  <2> QED
    BY <1>5, <2>1, TablesKept DEF Place
<1>6. CASE EndOrdering
  <2>1. DiscoveryDone'
    BY <1>6 DEF EndOrdering, Discovery, DiscoveryDone, loading
  <2> QED
    BY <1>6, <2>1, TablesKept DEF EndOrdering
<1>7. CASE Search
  <2>1. DiscoveryDone'
    BY <1>7 DEF Search, Discovery, DiscoveryDone, loading
  <2> QED
    BY <1>7, <2>1, TablesKept DEF Search
<1>8. CASE ReportCycle
  <2>1. DiscoveryDone' /\ (diagnostics' = {} => diagnostics = {})
    BY <1>8 DEF ReportCycle, Report, Discovery, DiscoveryDone, loading
  <2> QED
    BY <1>8, <2>1, TablesKept DEF ReportCycle
<1>9. CASE UNCHANGED vars
  <2>1. DiscoveryDone'
    BY <1>9 DEF vars, Discovery, DiscoveryDone, loading
  <2> QED
    BY <1>9, <2>1, TablesKept DEF vars
<1> QED
  BY <1>1, <1>2, <1>3, <1>4, <1>5, <1>6, <1>7, <1>8, <1>9 DEF Next

\* Once discovery is over, the modules loaded are the reachable ones and
\* every import is an edge.
LEMMA LoadedIsReachable ==
    ASSUME LoadShape, Discovery,
           stage \in {"order", "search", "loaded", "panicked"}
    PROVE  loaded = Reachable /\ \A m \in loaded : edges(m) = Imports(m)
<1>1. diagnostics = {} /\ Waiting = {} /\ ToSet(reading) = {}
  BY DEF Discovery, DiscoveryDone, Waiting, ToSet
<1>2. loaded = queued /\ queued \subseteq Modules
  BY <1>1 DEF Discovery, ServedOnce, NothingLost, LoadShape, LoadTypeOK
<1>3. \A m \in loaded : Imports(m) \subseteq loaded
  BY <1>1, <1>2 DEF Discovery, NothingLost
<1>4. Reachable \subseteq loaded
  BY <1>2, <1>3, ReachableLeast DEF Discovery, RequestsReachable, LoadShape, LoadTypeOK
<1>5. loaded \subseteq Reachable
  BY <1>2 DEF Discovery, RequestsReachable
<1> QED
  BY <1>3, <1>4, <1>5 DEF edges, Imports
----------------------------------------------------------------------------
(* The order: what is placed comes after its imports, and the counters     *)
(* hold what is left of them.                                              *)

Placed == ToSet(order)

PlacedSoFar ==
    /\ IsInjective(order) /\ Placed \subseteq loaded
    /\ \A i \in DOMAIN order : edges(order[i]) \subseteq {order[j] : j \in 1..(i - 1)}

CountersExact ==
    /\ remaining_deps \in [loaded -> Nat]
    /\ \A m \in loaded : remaining_deps[m] = Cardinality(edges(m) \ Placed)
    /\ ready = {m \in loaded \ Placed : edges(m) \subseteq Placed}

Ordering ==
    /\ stage \in {"setup", "discover"} => order = <<>>
    /\ stage \in {"order", "search", "loaded", "panicked"} =>
        PlacedSoFar /\ CountersExact
    /\ stage \in {"search", "panicked"} => Len(order) # Len(modules)
    /\ stage \in {"search", "loaded", "panicked"} => ready = {}
    /\ stage = "loaded" => Len(order) = Len(modules)

\* Edges are finite sets of loaded modules.
LEMMA EdgesFinite ==
    ASSUME LoadTypeOK, NEW m \in loaded, NEW S
    PROVE  /\ edges(m) \subseteq loaded
           /\ IsFiniteSet(edges(m) \ S)
           /\ Cardinality(edges(m) \ S) \in Nat
           /\ Cardinality(edges(m) \ S) = 0 <=> edges(m) \subseteq S
<1>1. loaded \subseteq Modules
  BY ToSetType DEF loaded, LoadTypeOK
<1>2. edges(m) \subseteq loaded /\ edges(m) \ S \subseteq Modules
  BY <1>1 DEF edges
<1>3. IsFiniteSet(edges(m) \ S)
  BY <1>2, ModuleAssumption, FS_Subset
<1>4. Cardinality(edges(m) \ S) \in Nat
  BY <1>3, FS_CardinalityType
<1>5. Cardinality(edges(m) \ S) = 0 <=> edges(m) \ S = {}
  BY <1>3, FS_EmptySet
<1> QED
  BY <1>2, <1>3, <1>4, <1>5

\* Placing a ready module.
LEMMA PlaceKeepsOrder ==
    ASSUME LoadShape, Ordering, Place
    PROVE  PlacedSoFar' /\ CountersExact'
<1> DEFINE n == next_ready
<1>1. /\ PlacedSoFar /\ CountersExact /\ ready # {}
      /\ UNCHANGED <<project, modules, loaded>> /\ \A m : edges(m)' = edges(m)
      /\ order \in Seq(Modules)
  BY DEF Place, Ordering, loading, loaded, edges, LoadShape, LoadTypeOK
<1>2. n \in Modules /\ n \in loaded \ Placed /\ edges(n) \subseteq Placed
  BY <1>1, NextReady DEF CountersExact, LoadShape
<1>3. order' = Append(order, n) /\ Placed' = Placed \cup {n}
  BY <1>1, <1>2, ToSetAppend DEF Place, Placed
<1>4. /\ Len(order) \in Nat /\ DOMAIN order = 1..Len(order)
      /\ DOMAIN order' = 1..(Len(order) + 1)
      /\ \A i \in 1..Len(order) : order'[i] = order[i]
      /\ order'[Len(order) + 1] = n
  BY <1>1, <1>2, <1>3
<1>5. IsInjective(order')
  <2>1. \A i \in DOMAIN order : order[i] # n
    BY <1>2 DEF Placed, ToSet
  <2>2. ASSUME NEW i \in DOMAIN order', NEW j \in DOMAIN order', order'[i] = order'[j]
        PROVE  i = j
    <3>1. CASE i \in 1..Len(order) /\ j \in 1..Len(order)
      BY <1>1, <1>4, <2>2, <3>1 DEF PlacedSoFar, IsInjective
    <3>2. CASE i = Len(order) + 1 \/ j = Len(order) + 1
      BY <1>4, <2>1, <2>2, <3>2
    <3> QED
      BY <1>4, <3>1, <3>2
  <2> QED
    BY <2>2 DEF IsInjective
<1>6. ASSUME NEW i \in DOMAIN order'
      PROVE  edges(order'[i]) \subseteq {order'[j] : j \in 1..(i - 1)}
  <2>1. CASE i \in 1..Len(order)
    <3>1. edges(order[i]) \subseteq {order[j] : j \in 1..(i - 1)}
      BY <1>1, <1>4, <2>1 DEF PlacedSoFar
    <3>2. \A j \in 1..(i - 1) : order'[j] = order[j]
      BY <1>4, <2>1
    <3> QED
      BY <1>1, <1>4, <2>1, <3>1, <3>2
  <2>2. CASE i = Len(order) + 1
    <3>1. Placed = {order[j] : j \in 1..Len(order)}
      BY <1>4 DEF Placed, ToSet
    <3>2. {order'[j] : j \in 1..(i - 1)} = {order[j] : j \in 1..Len(order)}
      BY <1>4, <2>2
    <3> QED
      BY <1>1, <1>2, <1>4, <2>2, <3>1, <3>2
  <2> QED
    BY <1>4, <2>1, <2>2
<1>7. PlacedSoFar'
  BY <1>1, <1>2, <1>3, <1>5, <1>6 DEF PlacedSoFar, edges
<1>8. ASSUME NEW m \in loaded
      PROVE  /\ remaining_deps'[m] = Cardinality(edges(m) \ Placed')
             /\ remaining_deps'[m] \in Nat
  <2>1. /\ IsFiniteSet(edges(m) \ Placed)
        /\ Cardinality(edges(m) \ Placed) \in Nat
        /\ Cardinality(edges(m) \ Placed') \in Nat
    BY EdgesFinite DEF LoadShape
  <2>2. remaining_deps'[m] = IF n \in edges(m) THEN remaining_deps[m] - 1
                             ELSE remaining_deps[m]
    BY DEF Place
  <2>3. remaining_deps[m] = Cardinality(edges(m) \ Placed)
    BY <1>1 DEF CountersExact
  <2>4. edges(m) \ Placed' = (edges(m) \ Placed) \ {n}
    BY <1>3
  <2>5. Cardinality((edges(m) \ Placed) \ {n}) =
            IF n \in edges(m) \ Placed THEN Cardinality(edges(m) \ Placed) - 1
            ELSE Cardinality(edges(m) \ Placed)
    BY <2>1, FS_RemoveElement
  <2> QED
    BY <1>2, <2>1, <2>2, <2>3, <2>4, <2>5
<1>9. remaining_deps' \in [loaded -> Nat]
  <2>1. \E f : remaining_deps' = [m \in loaded |-> f[m]]
    <3> DEFINE f == [m \in loaded |-> IF m \in {k \in loaded : n \in edges(k)}
                                      THEN remaining_deps[m] - 1 ELSE remaining_deps[m]]
    <3>1. remaining_deps' = f
      BY DEF Place
    <3> QED
      BY <3>1
  <2> QED
    BY <1>8, <2>1
<1>10. ready' = {m \in loaded \ Placed' : edges(m) \subseteq Placed'}
  <2>1. ready' = (ready \ {n}) \cup
                 {m \in loaded : n \in edges(m) /\ remaining_deps[m] = 1}
    BY DEF Place
  <2>2. ASSUME NEW m \in loaded
        PROVE  m \in ready' <=> m \notin Placed' /\ edges(m) \subseteq Placed'
    <3>1. remaining_deps'[m] = 0 <=> edges(m) \subseteq Placed'
      BY <1>8, EdgesFinite DEF LoadShape
    <3>2. remaining_deps[m] = 0 <=> edges(m) \subseteq Placed
      BY <1>1, EdgesFinite DEF LoadShape, CountersExact
    <3>3. /\ remaining_deps[m] \in Nat
          /\ remaining_deps'[m] = IF n \in edges(m) THEN remaining_deps[m] - 1
                                  ELSE remaining_deps[m]
      BY <1>1 DEF Place, CountersExact
    <3>4. m \in ready <=> m \notin Placed /\ edges(m) \subseteq Placed
      BY <1>1 DEF CountersExact
    <3>5. CASE n \in edges(m)
      <4>1. m \notin Placed
        <5>1. SUFFICES ASSUME m \in Placed PROVE FALSE
          OBVIOUS
        <5>2. PICK i \in DOMAIN order : order[i] = m
          BY <5>1 DEF Placed, ToSet
        <5>3. edges(m) \subseteq {order[j] : j \in 1..(i - 1)}
          BY <1>1, <5>2 DEF PlacedSoFar
        <5>4. PICK j \in 1..(i - 1) : order[j] = n
          BY <3>5, <5>3
        <5>5. j \in DOMAIN order
          BY <1>4, <5>2, <5>4
        <5> QED
          BY <1>2, <5>4, <5>5 DEF Placed, ToSet
      <4>2. n \notin Placed /\ ~(edges(m) \subseteq Placed)
        BY <1>2, <3>5
      <4>3. m # n
        BY <1>2, <3>5
      <4> QED
        BY <1>3, <2>1, <3>1, <3>3, <3>4, <3>5, <4>1, <4>2, <4>3
    <3>6. CASE n \notin edges(m)
      BY <1>2, <1>3, <2>1, <3>1, <3>2, <3>3, <3>4, <3>6
    <3> QED
      BY <3>5, <3>6
  <2>3. ready' \subseteq loaded
    BY <1>1, <2>1 DEF CountersExact
  <2> QED
    BY <2>2, <2>3
<1>11. CountersExact'
  BY <1>1, <1>8, <1>9, <1>10 DEF CountersExact
<1> QED
  BY <1>7, <1>11

\* Steps that leave the modules and the order alone.
LEMMA OrderKept ==
    ASSUME UNCHANGED <<project, modules, ordering>>
    PROVE  (PlacedSoFar => PlacedSoFar') /\ (CountersExact => CountersExact')
<1>1. /\ UNCHANGED <<loaded, order, Placed, ready, remaining_deps, project>>
      /\ \A m : edges(m)' = edges(m)
  BY DEF ordering, loaded, Placed, edges
<1>2. PlacedSoFar => PlacedSoFar'
  BY <1>1 DEF PlacedSoFar, edges
<1>3. CountersExact => CountersExact'
  BY <1>1 DEF CountersExact
<1> QED
  BY <1>2, <1>3

\* Every step of the load keeps the facts about the order.
LEMMA OrderingStep == LoadShape /\ Ordering /\ [Next]_vars => Ordering'
<1> SUFFICES ASSUME LoadShape, Ordering, [Next]_vars
             PROVE  Ordering'
  OBVIOUS
<1>1. CASE Setup
  BY <1>1 DEF Setup, Ordering, ordering
<1>2. ASSUME NEW r \in Request, Visit(r)
      PROVE  Ordering'
  <2>1. stage = "discover" /\ UNCHANGED <<stage, ordering>>
    BY <1>2 DEF Visit, VisitCollision, VisitMissing, VisitOutside,
         VisitDuplicate, VisitFile, VisitUnreadable, VisitLoad, Pop
  <2> QED
    BY <2>1 DEF Ordering, ordering
<1>3. CASE ReadImport
  BY <1>3 DEF ReadImport, Ordering, ordering
<1>4. CASE EndDiscovery
  <2>1. /\ stage = "discover" /\ order = <<>> /\ order' = <<>>
        /\ stage' \in {"order", "rejected"}
        /\ UNCHANGED <<project, modules>>
    BY <1>4 DEF EndDiscovery, Ordering, loading
  <2>2. UNCHANGED loaded /\ \A m : edges(m)' = edges(m)
    BY <2>1 DEF loaded, edges
  <2>3. Placed' = {} /\ DOMAIN order' = {}
    BY <2>1 DEF Placed, ToSet
  <2>4. PlacedSoFar'
    BY <2>3 DEF PlacedSoFar, IsInjective
  <2>5. \A m \in loaded : Cardinality(edges(m) \ {}) \in Nat /\ edges(m) \ {} = edges(m)
    BY EdgesFinite DEF LoadShape
  <2>6. remaining_deps' = [m \in loaded |-> Cardinality(edges(m))]
    BY <1>4 DEF EndDiscovery
  <2>7. ready' = {m \in loaded : edges(m) = {}}
    BY <1>4 DEF EndDiscovery
  <2>8. CountersExact'
    BY <2>2, <2>3, <2>5, <2>6, <2>7 DEF CountersExact
  <2> QED
    BY <2>1, <2>4, <2>8 DEF Ordering
<1>5. CASE Place
  <2>1. stage = "order" /\ stage' = "order"
    BY <1>5 DEF Place
  <2> QED
    BY <1>5, <2>1, PlaceKeepsOrder DEF Ordering
<1>6. CASE EndOrdering
  <2>1. /\ stage = "order" /\ PlacedSoFar /\ CountersExact
        /\ UNCHANGED <<project, modules, ordering>> /\ ready = {}
        /\ stage' = IF Len(order) = Len(modules) THEN "loaded" ELSE "search"
    BY <1>6 DEF EndOrdering, Ordering, loading
  <2> QED
    BY <2>1, OrderKept DEF Ordering, ordering
<1>7. CASE Search
  BY <1>7, OrderKept DEF Search, Ordering, ordering, loading
<1>8. CASE ReportCycle
  BY <1>8, OrderKept DEF ReportCycle, Ordering, ordering, loading
<1>9. CASE UNCHANGED vars
  BY <1>9, OrderKept DEF vars, Ordering, ordering, loading
<1> QED
  BY <1>1, <1>2, <1>3, <1>4, <1>5, <1>6, <1>7, <1>8, <1>9 DEF Next
----------------------------------------------------------------------------
LoaderInv == LoadShape /\ Discovery /\ Ordering

\* The initial states.
LEMMA LoaderInit == Init => LoaderInv
<1> SUFFICES ASSUME Init
             PROVE  LoaderInv
  OBVIOUS
<1> DEFINE entry == [module |-> Entry, site |-> Manifest]
<1>1. Entry \in Modules /\ project \in ProjectType
  BY ModuleAssumption DEF Init
<1>2. entry \in Request /\ queue = <<entry>> /\ queue \in Seq(Request)
  BY <1>1 DEF Init, Request, Site
<1>3. LoadShape
  BY <1>1, <1>2 DEF Init, LoadShape, LoadTypeOK
<1>4. /\ loaded = {} /\ ToSet(reading) = {} /\ DOMAIN modules = {}
      /\ Waiting = {Entry} /\ DOMAIN queue = {1}
  BY <1>2 DEF Init, loaded, ToSet, Waiting
<1>5. RequestsReachable
  BY <1>1, <1>4, ReachableLeast DEF Init, RequestsReachable
<1>6. ServedOnce /\ NothingLost /\ DiscoveryDone
  BY <1>4 DEF Init, ServedOnce, NothingLost, DiscoveryDone, IsInjective
<1>7. Ordering
  BY DEF Init, Ordering
<1> QED
  BY <1>3, <1>5, <1>6, <1>7 DEF LoaderInv, Discovery

\* Every step of the load keeps these.
LEMMA LoaderStep == LoaderInv /\ [Next]_vars => LoaderInv'
BY LoadShapeStep, DiscoveryStep, OrderingStep DEF LoaderInv

\* The tables of the loader keep their types; every request is reachable, is
\* served once and is not lost; the counters of Kahn's algorithm are exact.
THEOREM LoaderInvariant == Spec => []LoaderInv
BY LoaderStep, LoaderInit, PTL DEF Spec

\* At the end of a load the order is complete.
LEMMA LoadedIsOrdered == LoaderInv => CompleteOrder
<1> SUFFICES ASSUME LoaderInv, stage = "loaded"
             PROVE  /\ ToSet(order) = Reachable
                    /\ IsInjective(order)
                    /\ DependencyFirst(order)
  BY DEF CompleteOrder
<1>1. loaded = Reachable /\ \A m \in loaded : edges(m) = Imports(m)
  BY LoadedIsReachable DEF LoaderInv
<1>2. PlacedSoFar /\ Len(order) = Len(modules)
  BY DEF LoaderInv, Ordering
<1>3. /\ order \in Seq(Modules) /\ modules \in Seq(Modules)
      /\ IsInjective(order) /\ IsInjective(modules)
      /\ ToSet(order) \subseteq ToSet(modules)
  BY <1>2 DEF LoaderInv, LoadShape, LoadTypeOK, PlacedSoFar, Placed, loaded,
       Discovery, ServedOnce
<1>4. /\ IsFiniteSet(ToSet(modules))
      /\ Cardinality(ToSet(modules)) = Cardinality(ToSet(order))
  BY <1>2, <1>3, InjectiveLength
<1>5. ToSet(order) = loaded
  BY <1>3, <1>4, FS_Subset DEF loaded
<1>6. DependencyFirst(order)
  <2>1. \A i \in DOMAIN order : order[i] \in loaded
    BY <1>5 DEF ToSet
  <2> QED
    BY <1>1, <1>2, <2>1 DEF DependencyFirst, PlacedSoFar
<1> QED
  BY <1>1, <1>3, <1>5, <1>6

\* topological_order for every project: an accepted order holds each
\* reachable module once, after everything it imports.
THEOREM OrderIsComplete == Spec => []CompleteOrder
BY LoadedIsOrdered, LoaderInvariant, PTL
----------------------------------------------------------------------------
(* The order is the least one: whatever could have been placed instead of  *)
(* a module comes after it in the order of paths.                          *)

Earlier(i) == {order[j] : j \in 1..(i - 1)}

SmallestFirst ==
    \A i \in DOMAIN order : \A m \in loaded \ Earlier(i) :
        edges(m) \subseteq Earlier(i) => order[i] <= m

Greedy ==
    /\ stage \in {"setup", "discover"} => order = <<>>
    /\ stage \in {"order", "search", "loaded", "panicked"} => SmallestFirst

\* Every step of the load keeps the choice of the smallest.
LEMMA GreedyStep == LoaderInv /\ Greedy /\ [Next]_vars => Greedy'
<1> SUFFICES ASSUME LoaderInv, Greedy, [Next]_vars
             PROVE  Greedy'
  OBVIOUS
<1>0. ASSUME UNCHANGED <<project, modules, order>>
      PROVE  SmallestFirst => SmallestFirst'
  <2>1. UNCHANGED loaded /\ \A m : edges(m)' = edges(m)
    BY <1>0 DEF loaded, edges
  <2>2. \A i : Earlier(i)' = Earlier(i)
    BY <1>0 DEF Earlier
  <2> QED
    BY <1>0, <2>1, <2>2 DEF SmallestFirst, edges
<1>1. CASE Setup
  BY <1>1 DEF Setup, Greedy, ordering
<1>2. ASSUME NEW r \in Request, Visit(r)
      PROVE  Greedy'
  <2>1. stage = "discover" /\ UNCHANGED <<stage, ordering>>
    BY <1>2 DEF Visit, VisitCollision, VisitMissing, VisitOutside,
         VisitDuplicate, VisitFile, VisitUnreadable, VisitLoad, Pop
  <2> QED
    BY <2>1 DEF Greedy, ordering
<1>3. CASE ReadImport
  BY <1>3 DEF ReadImport, Greedy, ordering
<1>4. CASE EndDiscovery
  <2>1. order' = <<>> /\ stage' \in {"order", "rejected"}
    BY <1>4 DEF EndDiscovery, Greedy
  <2>2. DOMAIN order' = {}
    BY <2>1
  <2> QED
    BY <2>1, <2>2 DEF Greedy, SmallestFirst
<1>5. CASE Place
  <2>1. /\ stage = "order" /\ stage' = "order" /\ ready # {}
        /\ SmallestFirst /\ CountersExact /\ order \in Seq(Modules)
        /\ UNCHANGED <<project, modules>> /\ LoadTypeOK
    BY <1>5 DEF Place, Greedy, loading, LoaderInv, Ordering, LoadShape, LoadTypeOK
  <2>2. UNCHANGED loaded /\ \A m : edges(m)' = edges(m)
    BY <2>1 DEF loaded, edges
  <2>3. /\ next_ready \in Modules /\ order' = Append(order, next_ready)
        /\ \A m \in ready : next_ready <= m
    <3>1. ready \in SUBSET Nat
      BY <2>1, ModuleAssumption DEF LoadTypeOK
    <3>2. next_ready \in ready /\ \A m \in ready : next_ready <= m
      BY <2>1, <3>1, SmallestPath DEF next_ready
    <3> QED
      BY <1>5, <2>1, <3>2 DEF Place, LoadTypeOK
  <2>4. /\ Len(order) \in Nat /\ DOMAIN order = 1..Len(order)
        /\ DOMAIN order' = 1..(Len(order) + 1)
        /\ \A i \in 1..Len(order) : order'[i] = order[i]
        /\ order'[Len(order) + 1] = next_ready
    BY <2>1, <2>3
  <2>5. ASSUME NEW i \in DOMAIN order'
        PROVE  Earlier(i)' = Earlier(i)
    <3>1. \A j \in 1..(i - 1) : order'[j] = order[j]
      BY <2>4
    <3> QED
      BY <3>1 DEF Earlier
  <2>6. ASSUME NEW i \in DOMAIN order', NEW m \in loaded \ Earlier(i),
               edges(m) \subseteq Earlier(i)
        PROVE  order'[i] <= m
    <3>1. CASE i \in 1..Len(order)
      BY <2>1, <2>4, <2>6, <3>1 DEF SmallestFirst
    <3>2. CASE i = Len(order) + 1
      <4>1. Earlier(i) = Placed
        BY <2>4, <3>2 DEF Earlier, Placed, ToSet
      <4>2. m \in ready
        BY <2>1, <2>6, <4>1 DEF CountersExact
      <4> QED
        BY <2>3, <2>4, <3>2, <4>2
    <3> QED
      BY <2>4, <3>1, <3>2
  <2>7. SmallestFirst'
    BY <2>2, <2>5, <2>6 DEF SmallestFirst, edges
  <2> QED
    BY <2>1, <2>7 DEF Greedy
<1>6. CASE EndOrdering
  BY <1>0, <1>6 DEF EndOrdering, Greedy, ordering, loading
<1>7. CASE Search
  BY <1>0, <1>7 DEF Search, Greedy, ordering, loading
<1>8. CASE ReportCycle
  BY <1>0, <1>8 DEF ReportCycle, Greedy, ordering, loading
<1>9. CASE UNCHANGED vars
  BY <1>0, <1>9 DEF vars, Greedy, ordering, loading
<1> QED
  BY <1>1, <1>2, <1>3, <1>4, <1>5, <1>6, <1>7, <1>8, <1>9 DEF Next

\* An order that always took the smallest is the least one.
LEMMA GreedyIsLeast == LoaderInv /\ CompleteOrder /\ Greedy => LeastOrder
<1> SUFFICES ASSUME LoaderInv, CompleteOrder, Greedy, stage = "loaded",
                    NEW o \in SetToSeqs(Reachable),
                    DependencyFirst(o), o # order
             PROVE  Before(order, o)
  BY DEF LeastOrder
<1>1. /\ loaded = Reachable /\ \A m \in loaded : edges(m) = Imports(m)
      /\ SmallestFirst /\ order \in Seq(Modules)
      /\ ToSet(order) = Reachable /\ IsInjective(order)
  BY LoadedIsReachable DEF LoaderInv, Greedy, CompleteOrder, LoadShape, LoadTypeOK
<1> DEFINE n == Len(order)
           differs == {i \in 1..n : order[i] # o[i]}
<1>2. /\ n \in Nat /\ DOMAIN order = 1..n /\ n = Cardinality(Reachable)
      /\ o \in [1..n -> Reachable]
      /\ \A i, j \in 1..n : i # j => o[i] # o[j]
  BY <1>1, InjectiveLength DEF SetToSeqs
<1>3. differs # {}
  <2>1. order = [i \in 1..n |-> order[i]]
    BY <1>1, <1>2
  <2> QED
    BY <1>2, <2>1
<1>4. PICK i \in differs : \A j \in differs : i <= j
  <2>1. differs \in SUBSET Nat
    OBVIOUS
  <2> HIDE DEF differs
  <2> QED
    BY <1>3, <2>1, SmallestPath
<1>5. i \in 1..n /\ order[i] # o[i] /\ \A j \in 1..(i - 1) : order[j] = o[j]
  <2>1. ASSUME NEW j \in 1..(i - 1) PROVE order[j] = o[j]
    <3>1. j \in 1..n /\ ~(i <= j)
      BY <1>2, <1>4
    <3> QED
      BY <1>4, <3>1
  <2> QED
    BY <1>4, <2>1
<1>6. Earlier(i) = {o[j] : j \in 1..(i - 1)}
  BY <1>5 DEF Earlier
<1>7. o[i] \in loaded /\ o[i] \notin Earlier(i)
  <2>1. \A j \in 1..(i - 1) : j \in 1..n /\ j # i
    BY <1>2, <1>5
  <2> QED
    BY <1>1, <1>2, <1>5, <1>6, <2>1
<1>8. edges(o[i]) \subseteq Earlier(i)
  BY <1>1, <1>2, <1>5, <1>6, <1>7 DEF DependencyFirst
<1>9. order[i] <= o[i]
  BY <1>1, <1>2, <1>5, <1>7, <1>8 DEF SmallestFirst
<1>10. order[i] \in Nat /\ o[i] \in Nat
  <2>1. order[i] \in Modules /\ o[i] \in Reachable /\ Reachable \subseteq Modules
    BY <1>1, <1>2, <1>5 DEF Reachable
  <2> QED
    BY <2>1, ModuleAssumption
<1> QED
  BY <1>2, <1>5, <1>9, <1>10 DEF Before

\* topological_order for every project: of all the orders that put
\* dependencies first, the one found is lexicographically least, so it does
\* not depend on the order of discovery.
THEOREM OrderIsLeast == Spec => []LeastOrder
<1>1. Init => Greedy
  BY DEF Init, Greedy
<1> QED
  BY <1>1, GreedyIsLeast, GreedyStep, LoaderInvariant, OrderIsComplete, PTL DEF Spec
----------------------------------------------------------------------------
(* The search for a cycle. *)

\* What Kahn's algorithm could not place is what leads to a cycle, and each
\* of it imports some of it.
LEMMA ResidualLeadsToCycle ==
    ASSUME LoaderInv, stage = "search"
    PROVE  /\ residual = LeadsToCycle /\ residual # {} /\ residual \subseteq Modules
           /\ \A m \in residual :
                /\ edges(m) \cap residual = Imports(m) \cap LeadsToCycle
                /\ edges(m) \cap residual # {}
<1>1. loaded = Reachable /\ \A m \in loaded : edges(m) = Imports(m)
  BY LoadedIsReachable DEF LoaderInv
<1>2. PlacedSoFar /\ CountersExact /\ ready = {} /\ Len(order) # Len(modules)
  BY DEF LoaderInv, Ordering
<1>3. /\ order \in Seq(Modules) /\ modules \in Seq(Modules)
      /\ IsInjective(order) /\ IsInjective(modules) /\ LoadTypeOK
  BY <1>2 DEF LoaderInv, LoadShape, LoadTypeOK, PlacedSoFar, Discovery, ServedOnce
<1>4. residual = loaded \ Placed /\ loaded \subseteq Modules
  BY <1>3, ToSetType DEF residual, Placed, loaded
<1>5. \A m \in residual : edges(m) \cap residual # {}
  <2>1. \A m \in residual : ~(edges(m) \subseteq Placed)
    BY <1>2, <1>4 DEF CountersExact
  <2>2. \A m \in residual : edges(m) \subseteq loaded
    BY <1>3, <1>4, EdgesFinite
  <2> QED
    BY <1>4, <2>1, <2>2
<1>6. residual # {}
  <2>1. SUFFICES ASSUME residual = {} PROVE FALSE
    OBVIOUS
  <2>2. ToSet(order) = ToSet(modules)
    BY <1>2, <1>4, <2>1 DEF PlacedSoFar, Placed, loaded
  <2> QED
    BY <1>2, <1>3, <2>2, InjectiveLength
<1>7. residual \subseteq LeadsToCycle
  <2>1. residual \in SUBSET Reachable
    BY <1>1, <1>4
  <2>2. \A m \in residual : Imports(m) \cap residual # {}
    BY <1>1, <1>4, <1>5
  <2> QED
    BY <2>1, <2>2 DEF LeadsToCycle
<1>8. ASSUME NEW C \in SUBSET Reachable, \A m \in C : Imports(m) \cap C # {},
             NEW m \in C
      PROVE  m \in residual
  <2>1. SUFFICES ASSUME m \in Placed PROVE FALSE
    BY <1>1, <1>4, <1>8
  <2> DEFINE I == {i \in DOMAIN order : order[i] \in C}
  <2>2. DOMAIN order = 1..Len(order) /\ Len(order) \in Nat
    BY <1>3
  <2>3. I # {} /\ I \in SUBSET Nat
    BY <1>8, <2>1, <2>2 DEF Placed, ToSet
  <2>4. PICK i \in I : \A j \in I : i <= j
    BY <2>3, SmallestPath
  <2>5. PICK n \in C : n \in Imports(order[i])
    BY <1>8, <2>4
  <2>6. edges(order[i]) = Imports(order[i])
    BY <1>1, <1>8, <2>4
  <2>7. n \in {order[j] : j \in 1..(i - 1)}
    BY <1>2, <2>4, <2>5, <2>6 DEF PlacedSoFar
  <2>8. PICK j \in 1..(i - 1) : order[j] = n
    BY <2>7
  <2>9. j \in I /\ ~(i <= j)
    BY <2>2, <2>4, <2>5, <2>8
  <2> QED
    BY <2>4, <2>9
<1>9. LeadsToCycle \subseteq residual
  BY <1>8 DEF LeadsToCycle
<1>10. residual = LeadsToCycle
  BY <1>7, <1>9
<1>11. \A m \in residual : edges(m) \cap residual = Imports(m) \cap LeadsToCycle
  BY <1>1, <1>4, <1>10
<1> QED
  BY <1>4, <1>5, <1>6, <1>10, <1>11

Dfs == [color : [DOMAIN dfs.color -> {"white", "gray"}], stack : Seq(Frame),
        path : Seq(Modules), witness : Seq(Modules)]

\* The path: a walk along the smallest imports that lead to a cycle.
GreedyWalk(path) ==
    /\ IsInjective(path) /\ ToSet(path) \subseteq LeadsToCycle
    /\ path # <<>> => path[1] = Min(LeadsToCycle)
    /\ \A i \in 1..(Len(path) - 1) : path[i + 1] = follow(path[i])

\* While no cycle is closed the top of the stack has tried no edge yet.
SearchShape ==
    /\ DOMAIN dfs.color = residual
    /\ \A m \in residual : dfs.color[m] = "gray" <=> m \in ToSet(dfs.path)
    /\ Len(dfs.stack) = Len(dfs.path)
    /\ dfs.witness = <<>> /\ dfs.path # <<>> =>
        Last(dfs.stack) = [node |-> Last(dfs.path),
                           left |-> edges(Last(dfs.path)) \cap residual]

Closed ==
    \E k \in DOMAIN dfs.path :
        /\ dfs.witness = SubSeq(dfs.path, k, Len(dfs.path))
        /\ dfs.path[k] = follow(Last(dfs.path))

SearchInv ==
    /\ stage # "panicked"
    /\ dfs \in Dfs
    /\ GreedyWalk(dfs.path)
    /\ stage \in {"setup", "discover", "order"} => dfs = NoSearch
    /\ stage = "search" => SearchShape
    /\ dfs.witness # <<>> =>
        /\ stage \in {"search", "rejected"} /\ Closed
        /\ \A d \in diagnostics :
            d.code = "IMPORT_CYCLE" /\ d.module \in Imports(d.site)

\* The walk goes on to a module it has not met.
LEMMA WalkGoesOn ==
    ASSUME NEW path \in Seq(Modules), GreedyWalk(path),
           NEW m \in Modules, m \in LeadsToCycle, m \notin ToSet(path),
           IF path = <<>> THEN m = Min(LeadsToCycle) ELSE m = follow(Last(path))
    PROVE  GreedyWalk(Append(path, m))
<1> DEFINE a == Append(path, m)
<1>1. /\ Len(path) \in Nat /\ DOMAIN path = 1..Len(path) /\ Len(a) = Len(path) + 1
      /\ DOMAIN a = 1..(Len(path) + 1)
      /\ \A i \in 1..Len(path) : a[i] = path[i]
      /\ a[Len(path) + 1] = m
      /\ path = <<>> <=> Len(path) = 0
  OBVIOUS
<1>2. \A i \in 1..Len(path) : path[i] # m
  BY <1>1 DEF ToSet
<1>3. ASSUME NEW i \in DOMAIN a, NEW j \in DOMAIN a, a[i] = a[j]
      PROVE  i = j
  <2>1. CASE i \in 1..Len(path) /\ j \in 1..Len(path)
    BY <1>1, <1>3, <2>1 DEF GreedyWalk, IsInjective
  <2>2. CASE i = Len(path) + 1 \/ j = Len(path) + 1
    BY <1>1, <1>2, <1>3, <2>2
  <2> QED
    BY <1>1, <2>1, <2>2
<1>4. ToSet(a) \subseteq LeadsToCycle
  BY ToSetAppend DEF GreedyWalk
<1>5. a[1] = Min(LeadsToCycle)
  BY <1>1 DEF GreedyWalk
<1>6. ASSUME NEW i \in 1..(Len(a) - 1)
      PROVE  a[i + 1] = follow(a[i])
  <2>1. CASE i \in 1..(Len(path) - 1)
    BY <1>1, <2>1 DEF GreedyWalk
  <2>2. CASE i = Len(path)
    <3>1. Len(path) \in 1..Len(path) /\ path # <<>>
      BY <1>1, <2>2
    <3>2. a[i] = Last(path) /\ a[i + 1] = m
      BY <1>1, <2>2, <3>1 DEF Last
    <3>3. m = follow(Last(path))
      BY <3>1
    <3> QED
      BY <3>2, <3>3
  <2>3. i \in 1..(Len(path) - 1) \/ i = Len(path)
    <3>1. \A n \in Nat : \A k \in 1..((n + 1) - 1) : k \in 1..(n - 1) \/ k = n
      OBVIOUS
    <3> QED
      BY <1>1, <3>1
  <2> QED
    BY <2>1, <2>2, <2>3
<1> QED
  BY <1>3, <1>4, <1>5, <1>6 DEF GreedyWalk, IsInjective

\* A frame that has tried one more edge.
LEMMA TriedEdge ==
    ASSUME NEW d \in Dfs, d.stack # <<>>, NEW x
    PROVE  LET e == [d EXCEPT !.stack[Len(d.stack)].left = @ \ {x}]
           IN  /\ e \in Dfs /\ Len(e.stack) = Len(d.stack)
               /\ e.color = d.color /\ e.path = d.path /\ e.witness = d.witness
<1> DEFINE n == Len(d.stack)
           s == [d.stack EXCEPT ![n].left = @ \ {x}]
           e == [d EXCEPT !.stack[Len(d.stack)].left = @ \ {x}]
<1>1. d.stack \in Seq(Frame) /\ n \in 1..n /\ n \in Nat
  BY DEF Dfs
<1>2. d.stack[n] \in Frame
  BY <1>1
<1>3. [d.stack[n] EXCEPT !.left = @ \ {x}] \in Frame
  BY <1>2 DEF Frame
<1>4. s \in Seq(Frame) /\ Len(s) = n
  <2>1. s = [d.stack EXCEPT ![n] = [d.stack[n] EXCEPT !.left = @ \ {x}]]
    OBVIOUS
  <2>2. d.stack \in [1..n -> Frame]
    BY <1>1
  <2>3. s \in [1..n -> Frame]
    BY <1>3, <2>1, <2>2
  <2> QED
    BY <1>1, <2>3
<1>5. e = [d EXCEPT !.stack = s]
  OBVIOUS
<1>6. /\ e.stack = s /\ e.color = d.color /\ e.path = d.path
      /\ e.witness = d.witness /\ e \in Dfs
  BY <1>4, <1>5 DEF Dfs
<1> QED
  BY <1>4, <1>6

\* The fields Descend writes.
LEMMA DescendFields ==
    ASSUME LoadTypeOK, NEW d \in Dfs, NEW m \in Modules
    PROVE  LET e == Descend(d, m)
           IN  /\ e \in Dfs /\ e.witness = d.witness
               /\ e.path = Append(d.path, m)
               /\ e.color = [d.color EXCEPT ![m] = "gray"]
               /\ e.stack = Append(d.stack, [node |-> m, left |-> edges(m) \cap residual])
<1> DEFINE f == [node |-> m, left |-> edges(m) \cap residual]
           e == Descend(d, m)
<1>1. residual \subseteq Modules
  BY ToSetType DEF residual, loaded, LoadTypeOK
<1>2. f \in Frame
  BY <1>1 DEF Frame
<1>3. /\ d.color \in [DOMAIN dfs.color -> {"white", "gray"}]
      /\ d.stack \in Seq(Frame) /\ d.path \in Seq(Modules)
  BY DEF Dfs
<1>4. /\ [d.color EXCEPT ![m] = "gray"] \in [DOMAIN dfs.color -> {"white", "gray"}]
      /\ Append(d.stack, f) \in Seq(Frame) /\ Append(d.path, m) \in Seq(Modules)
  <2>1. ASSUME NEW D, NEW c \in [D -> {"white", "gray"}]
        PROVE  [c EXCEPT ![m] = "gray"] \in [D -> {"white", "gray"}]
    OBVIOUS
  <2>2. Append(d.stack, f) \in Seq(Frame)
    BY <1>2, <1>3
  <2>3. Append(d.path, m) \in Seq(Modules)
    BY <1>3
  <2> QED
    BY <1>3, <2>1, <2>2, <2>3
<1>5. e = [color |-> [d.color EXCEPT ![m] = "gray"], stack |-> Append(d.stack, f),
           path |-> Append(d.path, m), witness |-> d.witness]
  BY DEF Descend
<1>6. d.witness \in Seq(Modules)
  BY DEF Dfs
<1>7. /\ e.witness = d.witness /\ e.path = Append(d.path, m)
      /\ e.color = [d.color EXCEPT ![m] = "gray"] /\ e.stack = Append(d.stack, f)
  BY <1>5
<1>8. e \in Dfs
  BY <1>4, <1>5, <1>6 DEF Dfs
<1> QED
  BY <1>7, <1>8

\* What a step of the search finds: the walk and the colours agree, and as
\* long as no cycle is closed the search can go on.
LEMMA SearchHypotheses ==
    ASSUME LoaderInv, SearchInv, stage = "search"
    PROVE  /\ LoadTypeOK /\ SearchShape /\ GreedyWalk(dfs.path) /\ dfs \in Dfs
           /\ residual \subseteq Nat /\ residual \subseteq Modules
           /\ dfs.color \in [residual -> {"white", "gray"}]
           /\ dfs.path \in Seq(Modules) /\ dfs.stack \in Seq(Frame)
           /\ ToSet(dfs.path) \subseteq residual
           /\ dfs.path = <<>> <=> dfs.stack = <<>>
           /\ dfs.path = <<>> => Unvisited(dfs) = residual /\ residual # {}
<1>1. /\ LoadTypeOK /\ SearchShape /\ GreedyWalk(dfs.path) /\ dfs \in Dfs
  BY DEF LoaderInv, LoadShape, SearchInv
<1>2. residual = LeadsToCycle /\ residual # {} /\ residual \subseteq Modules
  BY ResidualLeadsToCycle
<1>3. residual \subseteq Nat
  BY <1>2, ModuleAssumption
<1>4. /\ dfs.color \in [residual -> {"white", "gray"}]
      /\ dfs.path \in Seq(Modules) /\ dfs.stack \in Seq(Frame)
  BY <1>1 DEF Dfs, SearchShape
<1>5. ToSet(dfs.path) \subseteq residual
  BY <1>1, <1>2 DEF GreedyWalk
<1>6. dfs.path = <<>> <=> dfs.stack = <<>>
  <2>1. Len(dfs.path) = Len(dfs.stack)
    BY <1>1 DEF SearchShape
  <2>2. /\ dfs.path = <<>> <=> Len(dfs.path) = 0
        /\ dfs.stack = <<>> <=> Len(dfs.stack) = 0
    BY <1>4
  <2> QED
    BY <2>1, <2>2
<1>7. dfs.path = <<>> => Unvisited(dfs) = residual
  <2>1. SUFFICES ASSUME dfs.path = <<>> PROVE Unvisited(dfs) = residual
    OBVIOUS
  <2>2. ToSet(dfs.path) = {}
    BY <2>1 DEF ToSet
  <2>3. \A m \in residual : dfs.color[m] = "white"
    BY <1>1, <1>4, <2>2 DEF SearchShape
  <2> QED
    BY <2>3 DEF Unvisited
<1> QED
  BY <1>1, <1>2, <1>3, <1>4, <1>5, <1>6, <1>7

\* Descending to an unvisited module keeps the shape of the search.
LEMMA DescendKeepsShape ==
    ASSUME LoaderInv, SearchInv, stage = "search", UNCHANGED <<project, loading, ordering>>,
           NEW d \in Dfs, d.color = dfs.color, d.path = dfs.path,
           d.witness = <<>>, Len(d.stack) = Len(dfs.stack),
           NEW m \in residual, m \notin ToSet(dfs.path),
           dfs' = Descend(d, m)
    PROVE  dfs' \in Dfs' /\ SearchShape' /\ dfs'.witness = <<>>
           /\ dfs'.path = Append(dfs.path, m)
<1>1. /\ LoadTypeOK /\ SearchShape /\ residual \subseteq Modules
      /\ dfs.color \in [residual -> {"white", "gray"}]
      /\ dfs.path \in Seq(Modules) /\ d.stack \in Seq(Frame)
  BY SearchHypotheses DEF Dfs
<1>2. UNCHANGED residual /\ \A k : edges(k)' = edges(k)
  BY DEF residual, loaded, edges, loading, ordering
<1> DEFINE f == [node |-> m, left |-> edges(m) \cap residual]
<1>3. /\ dfs' \in Dfs /\ dfs'.witness = <<>> /\ dfs'.path = Append(dfs.path, m)
      /\ dfs'.color = [dfs.color EXCEPT ![m] = "gray"]
      /\ dfs'.stack = Append(d.stack, f)
  BY <1>1, DescendFields
<1>4. DOMAIN dfs'.color = residual /\ DOMAIN dfs.color = residual
  BY <1>1, <1>3
<1>5. dfs' \in Dfs'
  BY <1>3, <1>4 DEF Dfs
<1>6. ToSet(dfs'.path) = ToSet(dfs.path) \cup {m}
  BY <1>1, <1>3, ToSetAppend
<1>7. \A k \in residual : dfs'.color[k] = "gray" <=> k \in ToSet(dfs'.path)
  BY <1>1, <1>3, <1>6 DEF SearchShape
<1>8. f \in Frame
  BY <1>1 DEF Frame
<1>9. /\ Len(dfs'.stack) = Len(dfs'.path)
      /\ Last(dfs'.stack) = f /\ Last(dfs'.path) = m
  <2>1. Len(d.stack) = Len(dfs.path) /\ m \in Modules
    BY <1>1 DEF SearchShape
  <2>2. /\ Len(dfs'.stack) = Len(d.stack) + 1 /\ Last(dfs'.stack) = f
    BY <1>1, <1>3, <1>8 DEF Last
  <2>3. /\ Len(dfs'.path) = Len(dfs.path) + 1 /\ Last(dfs'.path) = m
    BY <1>1, <1>3, <2>1 DEF Last
  <2> QED
    BY <2>1, <2>2, <2>3
<1>10. SearchShape'
  <2>1. (edges(Last(dfs.path)) \cap residual)' = edges(m) \cap residual
    BY <1>2, <1>9 DEF edges, loaded, loading
  <2> QED
    BY <1>2, <1>4, <1>7, <1>9, <2>1 DEF SearchShape
<1> QED
  BY <1>3, <1>5, <1>10

\* The end of a path, from one of its positions on.
LEMMA Suffix ==
    ASSUME NEW T, NEW s \in Seq(T), NEW k \in DOMAIN s
    PROVE  LET w == SubSeq(s, k, Len(s))
           IN  w \in Seq(T) /\ w # <<>> /\ Head(w) = s[k] /\ Last(w) = Last(s)
<1> DEFINE w == SubSeq(s, k, Len(s))
<1>1. /\ Len(s) \in Nat /\ k \in 1..Len(s) /\ k \in Int /\ Len(s) \in Int
      /\ \A i \in k..Len(s) : s[i] \in T
  OBVIOUS
<1>2. /\ w \in Seq(T)
      /\ Len(w) = IF k <= Len(s) THEN Len(s) - k + 1 ELSE 0
      /\ \A i \in 1..(Len(s) - k + 1) : w[i] = s[k + i - 1]
  BY <1>1, SubSeqProperties
<1>3. Len(w) = Len(s) - k + 1 /\ Len(w) \in 1..Len(s)
  BY <1>1, <1>2
<1>4. w # <<>>
  BY <1>2, <1>3
<1>5. w[1] = s[k] /\ w[Len(w)] = s[Len(s)]
  <2>1. w[1] = s[k + 1 - 1] /\ k + 1 - 1 = k
    BY <1>1, <1>2, <1>3
  <2>2. w[Len(w)] = s[Len(s)]
    <3>1. \A n, l \in Nat : \A i \in 1..n :
              l = n - i + 1 => l \in 1..(n - i + 1) /\ i + l - 1 = n
      OBVIOUS
    <3> HIDE DEF w
    <3>2. Len(w) \in 1..(Len(s) - k + 1) /\ k + Len(w) - 1 = Len(s)
      <4>1. Len(w) \in Nat
        BY <1>3
      <4> QED
        BY <1>1, <1>3, <3>1, <4>1
    <3> QED
      BY <1>2, <3>2
  <2> QED
    BY <2>1, <2>2
<1> QED
  BY <1>2, <1>4, <1>5 DEF Last

\* A step of the search.
LEMMA SearchStepKeeps ==
    ASSUME LoaderInv, SearchInv, Search
    PROVE  SearchInv'
<1>1. /\ stage = "search" /\ stage' = "search" /\ dfs.witness = <<>>
      /\ UNCHANGED <<project, loading, ordering, diagnostics>>
      /\ dfs' = SearchStep(dfs)
  BY DEF Search, SearchOver
<1>2. UNCHANGED <<residual, LeadsToCycle>> /\ \A m : follow(m)' = follow(m) /\ Imports(m)' = Imports(m)
  BY <1>1 DEF residual, loaded, loading, ordering, LeadsToCycle, Reachable, follow, Imports
<1>3. /\ LoadTypeOK /\ SearchShape /\ GreedyWalk(dfs.path) /\ dfs \in Dfs
      /\ residual \subseteq Nat /\ residual \subseteq Modules
      /\ dfs.color \in [residual -> {"white", "gray"}]
      /\ dfs.path \in Seq(Modules) /\ dfs.stack \in Seq(Frame)
      /\ ToSet(dfs.path) \subseteq residual
      /\ dfs.path = <<>> <=> dfs.stack = <<>>
      /\ dfs.path = <<>> => Unvisited(dfs) = residual /\ residual # {}
  BY <1>1, SearchHypotheses
<1>4. residual = LeadsToCycle
  BY <1>1, ResidualLeadsToCycle
<1>5. diagnostics = {} /\ diagnostics' = {}
  BY <1>1 DEF LoaderInv, Discovery, DiscoveryDone
<1>6. ASSUME NEW p, GreedyWalk(p)
      PROVE  GreedyWalk(p)'
  BY <1>2, <1>6 DEF GreedyWalk
<1>7. ASSUME dfs' \in Dfs', SearchShape', dfs'.witness = <<>>,
             NEW m, dfs'.path = Append(dfs.path, m), GreedyWalk(Append(dfs.path, m))
      PROVE  SearchInv'
  <2>1. GreedyWalk(dfs'.path)
    BY <1>7
  <2>2. GreedyWalk(dfs.path)'
    BY <1>2, <2>1 DEF GreedyWalk, follow
  <2> QED
    BY <1>1, <1>7, <2>2 DEF SearchInv
<1>8. CASE dfs.stack = <<>>
  <2> DEFINE start == Min(Unvisited(dfs))
             d == [dfs EXCEPT !.path = <<>>]
  <2>1. start \in residual /\ start = Min(LeadsToCycle)
    BY <1>3, <1>4, <1>8, SmallestPath
  <2>2. d = dfs
    BY <1>3, <1>8 DEF Dfs
  <2>3. dfs' = Descend(dfs, start)
    BY <1>1, <1>8, <2>2 DEF SearchStep
  <2>4. start \notin ToSet(dfs.path)
    BY <1>3, <1>8 DEF ToSet
  <2>5. /\ dfs' \in Dfs' /\ SearchShape' /\ dfs'.witness = <<>>
        /\ dfs'.path = Append(dfs.path, start)
    BY <1>1, <1>3, <2>1, <2>3, <2>4, DescendKeepsShape
  <2>6. GreedyWalk(Append(dfs.path, start))
    BY <1>3, <1>4, <1>8, <2>1, <2>4, WalkGoesOn
  <2> QED
    BY <1>7, <2>5, <2>6
<1>9. CASE dfs.stack # <<>>
  <2> DEFINE last == Last(dfs.path)
             target == Min(Last(dfs.stack).left)
             tried == [dfs EXCEPT !.stack[Len(dfs.stack)].left = @ \ {target}]
  <2>1. dfs.path # <<>> /\ last \in ToSet(dfs.path) /\ last \in residual
    <3>1. dfs.path # <<>>
      BY <1>3, <1>9
    <3>2. last \in ToSet(dfs.path)
      BY <1>3, <3>1, PopQueue DEF Last, ToSet
    <3> QED
      BY <1>3, <3>1, <3>2
  <2>2. Last(dfs.stack).left = edges(last) \cap residual
    BY <1>1, <1>3, <2>1 DEF SearchShape
  <2>3. /\ edges(last) \cap residual = Imports(last) \cap LeadsToCycle
        /\ edges(last) \cap residual # {}
    BY <1>1, <2>1, ResidualLeadsToCycle
  <2>4. target \in residual /\ target = follow(last)
    <3>1. edges(last) \cap residual \in SUBSET Nat
      BY <1>3
    <3>2. target \in edges(last) \cap residual
      BY <2>2, <2>3, <3>1, SmallestPath
    <3> QED
      BY <2>2, <2>3, <3>2 DEF follow
  <2>5. /\ tried \in Dfs /\ Len(tried.stack) = Len(dfs.stack)
        /\ tried.color = dfs.color /\ tried.path = dfs.path /\ tried.witness = <<>>
    BY <1>1, <1>3, <1>9, TriedEdge
  <2>6. dfs.color[target] \in {"white", "gray"}
    BY <1>3, <2>4
  <2>7. CASE dfs.color[target] = "white"
    <3>1. dfs' = Descend(tried, target)
      BY <1>1, <1>9, <2>2, <2>3, <2>7 DEF SearchStep
    <3>2. target \notin ToSet(dfs.path)
      BY <1>3, <2>4, <2>7 DEF SearchShape
    <3>3. /\ dfs' \in Dfs' /\ SearchShape' /\ dfs'.witness = <<>>
          /\ dfs'.path = Append(dfs.path, target)
      BY <1>1, <2>4, <2>5, <3>1, <3>2, DescendKeepsShape
    <3>4. GreedyWalk(Append(dfs.path, target))
      BY <1>3, <1>4, <2>1, <2>4, <3>2, WalkGoesOn
    <3> QED
      BY <1>7, <3>3, <3>4
  <2>8. CASE dfs.color[target] = "gray"
    <3> DEFINE k == CHOOSE i \in DOMAIN dfs.path : dfs.path[i] = target
               w == SubSeq(dfs.path, k, Len(dfs.path))
    <3>1. dfs' = Close(tried, target)
      BY <1>1, <1>9, <2>2, <2>3, <2>8 DEF SearchStep
    <3>2. target \in ToSet(dfs.path)
      BY <1>3, <2>4, <2>8 DEF SearchShape
    <3>3. k \in DOMAIN dfs.path /\ dfs.path[k] = target
      BY <3>2 DEF ToSet
    <3>4. dfs' = [tried EXCEPT !.witness = w]
      BY <2>5, <3>1 DEF Close
    <3>5. w \in Seq(Modules)
      BY <1>3, <3>3, Suffix
    <3>6. /\ dfs' \in Dfs /\ dfs'.witness = w /\ dfs'.path = dfs.path
          /\ dfs'.color = dfs.color /\ Len(dfs'.stack) = Len(dfs.stack)
      BY <2>5, <3>4, <3>5 DEF Dfs
    <3>7. dfs' \in Dfs'
      BY <3>6 DEF Dfs
    <3>8. w # <<>>
      BY <1>3, <3>3, Suffix
    <3>9. SearchShape'
      BY <1>2, <1>3, <3>6, <3>8 DEF SearchShape
    <3>10. Closed'
      BY <1>2, <2>4, <3>3, <3>6 DEF Closed, follow
    <3>11. GreedyWalk(dfs.path)'
      BY <1>2, <1>3, <3>6 DEF GreedyWalk, follow
    <3> QED
      BY <1>1, <1>5, <3>7, <3>9, <3>10, <3>11 DEF SearchInv
  <2> QED
    BY <2>6, <2>7, <2>8
<1> QED
  BY <1>8, <1>9

\* Before the search there is nothing to say; EndOrdering starts it.
LEMMA SearchBegins ==
    ASSUME SearchInv, EndOrdering
    PROVE  SearchInv'
<1>1. /\ stage = "order" /\ stage' \in {"loaded", "search"} /\ dfs = NoSearch
      /\ dfs' = [NoSearch EXCEPT !.color = [m \in residual |-> "white"]]
      /\ UNCHANGED <<loading, ordering>>
  BY DEF EndOrdering, SearchInv
<1>2. /\ dfs' = [color |-> [m \in residual |-> "white"], stack |-> <<>>,
                  path |-> <<>>, witness |-> <<>>]
      /\ residual' = residual
  BY <1>1 DEF NoSearch, residual, loaded, loading, ordering
<1>3. /\ dfs'.color = [m \in residual |-> "white"] /\ dfs'.stack = <<>>
      /\ dfs'.path = <<>> /\ dfs'.witness = <<>>
  BY <1>2
<1>4. dfs' \in Dfs'
  BY <1>2, <1>3 DEF Dfs
<1>5. ToSet(dfs'.path) = {} /\ DOMAIN dfs'.path = {} /\ Len(dfs'.path) = 0
  BY <1>3 DEF ToSet
<1>6. GreedyWalk(dfs.path)'
  BY <1>3, <1>5 DEF GreedyWalk, IsInjective
<1>7. SearchShape'
  BY <1>2, <1>3, <1>5 DEF SearchShape
<1> QED
  BY <1>1, <1>3, <1>4, <1>6, <1>7 DEF SearchInv

\* The expect of topological_order: the search is never over without a
\* cycle, and the import that closes it is where the diagnostic stands.
LEMMA CycleReported ==
    ASSUME LoaderInv, SearchInv, ReportCycle
    PROVE  SearchInv'
<1>1. stage = "search" /\ SearchOver /\ UNCHANGED <<project, loading, ordering, dfs>>
  BY DEF ReportCycle
<1>2. /\ dfs.path = <<>> <=> dfs.stack = <<>>
      /\ dfs.path = <<>> => Unvisited(dfs) = residual /\ residual # {}
      /\ dfs.path \in Seq(Modules) /\ ToSet(dfs.path) \subseteq residual
  BY <1>1, SearchHypotheses
<1>3. dfs.witness # <<>>
  BY <1>1, <1>2 DEF SearchOver
<1>4. /\ stage' = "rejected" /\ diagnostics = {}
      /\ diagnostics' = {[code |-> "IMPORT_CYCLE", module |-> Head(dfs.witness),
                          site |-> Last(dfs.witness)]}
  BY <1>1, <1>3 DEF ReportCycle, Report, LoaderInv, Discovery, DiscoveryDone
<1>5. PICK k \in DOMAIN dfs.path :
          /\ dfs.witness = SubSeq(dfs.path, k, Len(dfs.path))
          /\ dfs.path[k] = follow(Last(dfs.path))
  BY <1>3 DEF SearchInv, Closed
<1>6. /\ Head(dfs.witness) = follow(Last(dfs.path))
      /\ Last(dfs.witness) = Last(dfs.path)
  BY <1>2, <1>5, Suffix
<1>7. Last(dfs.path) \in residual
  <2>1. dfs.path # <<>>
    BY <1>5
  <2> QED
    BY <1>2, <2>1, PopQueue DEF Last, ToSet
<1>8. follow(Last(dfs.path)) \in Imports(Last(dfs.path))
  <2> DEFINE candidates == Imports(Last(dfs.path)) \cap LeadsToCycle
  <2>1. candidates # {} /\ LeadsToCycle \subseteq Modules
    BY <1>1, <1>7, ResidualLeadsToCycle
  <2>2. candidates \in SUBSET Nat
    BY <2>1, ModuleAssumption
  <2>3. Min(candidates) \in candidates
    BY <2>1, <2>2, SmallestPath
  <2> QED
    BY <2>3 DEF follow
<1>9. \A d \in diagnostics' : d.code = "IMPORT_CYCLE" /\ d.module \in Imports(d.site)
  BY <1>4, <1>6, <1>8
<1>10. /\ \A m : Imports(m)' = Imports(m)
       /\ UNCHANGED LeadsToCycle
  BY <1>1 DEF Imports, LeadsToCycle, Reachable
<1>11. (dfs \in Dfs)' /\ GreedyWalk(dfs.path)' /\ Closed'
  <2>1. dfs \in Dfs /\ GreedyWalk(dfs.path) /\ Closed
    BY <1>3 DEF SearchInv
  <2> QED
    BY <1>1, <1>10, <2>1 DEF Dfs, GreedyWalk, Closed, follow
<1> QED
  BY <1>1, <1>4, <1>9, <1>10, <1>11 DEF SearchInv

\* Steps that do not touch the search.
LEMMA SearchUntouched ==
    ASSUME SearchInv, stage' \in {"setup", "discover", "order", "rejected"},
           stage \in {"setup", "discover", "order"}, UNCHANGED <<project, dfs>>
    PROVE  SearchInv'
<1>1. dfs = NoSearch /\ dfs' = NoSearch /\ NoSearch.witness = <<>> /\ NoSearch.path = <<>>
  BY DEF SearchInv, NoSearch
<1>2. (dfs \in Dfs)'
  BY <1>1 DEF SearchInv, Dfs
<1>3. DOMAIN dfs'.path = {} /\ ToSet(dfs'.path) = {} /\ Len(dfs'.path) = 0
  BY <1>1 DEF ToSet
<1>4. GreedyWalk(dfs.path)'
  BY <1>1, <1>3 DEF GreedyWalk, IsInjective
<1> QED
  BY <1>1, <1>2, <1>4 DEF SearchInv

\* The search for every project.
LEMMA SearchInvStep == LoaderInv /\ SearchInv /\ [Next]_vars => SearchInv'
<1> SUFFICES ASSUME LoaderInv, SearchInv, [Next]_vars
             PROVE  SearchInv'
  OBVIOUS
<1>1. CASE Setup \/ EndDiscovery \/ Place \/ ReadImport
  BY <1>1, SearchUntouched DEF Setup, EndDiscovery, Place, ReadImport
<1>2. ASSUME NEW r \in Request, Visit(r)
      PROVE  SearchInv'
  <2>1. Pop(r)
    BY <1>2 DEF Visit, VisitCollision, VisitMissing, VisitOutside,
         VisitDuplicate, VisitFile, VisitUnreadable, VisitLoad
  <2> QED
    BY <2>1, SearchUntouched DEF Pop
<1>3. CASE EndOrdering
  BY <1>3, SearchBegins
<1>4. CASE Search
  BY <1>4, SearchStepKeeps
<1>5. CASE ReportCycle
  BY <1>5, CycleReported
<1>6. CASE UNCHANGED vars
  <2>1. UNCHANGED <<project, stage, loading, ordering, diagnostics, dfs>>
    BY <1>6 DEF vars
  <2>2. /\ \A m : Imports(m)' = Imports(m) /\ edges(m)' = edges(m)
        /\ UNCHANGED <<LeadsToCycle, residual>>
    BY <2>1 DEF Imports, LeadsToCycle, Reachable, edges, loaded, residual, loading, ordering
  <2>3. (dfs \in Dfs)' /\ GreedyWalk(dfs.path)' /\ (Closed => Closed')
    BY <2>1, <2>2 DEF SearchInv, Dfs, GreedyWalk, Closed, follow
  <2>4. SearchShape => SearchShape'
    BY <2>1, <2>2 DEF SearchShape, edges
  <2> QED
    BY <2>1, <2>2, <2>3, <2>4 DEF SearchInv
<1> QED
  BY <1>1, <1>2, <1>3, <1>4, <1>5, <1>6 DEF Next

\* The initial states.
LEMMA SearchInit == Init => SearchInv
<1> SUFFICES ASSUME Init
             PROVE  SearchInv
  OBVIOUS
<1>1. /\ stage = "setup" /\ dfs = NoSearch /\ NoSearch.path = <<>>
      /\ NoSearch.witness = <<>>
  BY DEF Init, NoSearch
<1>2. dfs \in Dfs
  BY <1>1 DEF NoSearch, Dfs
<1>3. GreedyWalk(dfs.path)
  <2>1. DOMAIN dfs.path = {} /\ ToSet(dfs.path) = {} /\ Len(dfs.path) = 0
    BY <1>1 DEF ToSet
  <2> QED
    BY <1>1, <2>1 DEF GreedyWalk, IsInjective
<1> QED
  BY <1>1, <1>2, <1>3 DEF SearchInv

\* What the search keeps is what its witness promises.
LEMMA SearchIsSound == SearchInv => WitnessIsCycle
<1> SUFFICES ASSUME SearchInv
             PROVE  WitnessIsCycle
  OBVIOUS
<1>1. \A m \in DOMAIN dfs.color : dfs.color[m] # "black"
  <2>1. dfs.color \in [DOMAIN dfs.color -> {"white", "gray"}]
    BY DEF SearchInv, Dfs
  <2> QED
    BY <2>1
<1>2. /\ stage # "panicked" /\ GreedyWalk(dfs.path)
      /\ dfs.witness # <<>> =>
          /\ Closed
          /\ \A d \in diagnostics :
              d.code = "IMPORT_CYCLE" /\ d.module \in Imports(d.site)
  BY DEF SearchInv
<1> QED
  BY <1>1, <1>2 DEF WitnessIsCycle, GreedyWalk, Closed

\* topological_order for every project: its expect never fails, no module is
\* given up, and the cycle reported is the one the imports on disk decide.
THEOREM WitnessFound == Spec => []WitnessIsCycle
BY SearchIsSound, SearchInvStep, LoaderInvariant, SearchInit, PTL DEF Spec
----------------------------------------------------------------------------
(* The types of what the load reports and counts. *)

Reported ==
    /\ diagnostics \subseteq Diagnostic
    /\ remaining_deps \in [DOMAIN remaining_deps -> Nat]

\* The codes the manifest and the entry can be refused with.
LEMMA SetupFaultType ==
    ASSUME project \in ProjectType
    PROVE  setup_fault \subseteq Code
<1>1. project.manifest \in {"ok", "INVALID_MANIFEST", "INVALID_PROJECT_PATH"}
  BY DEF ProjectType
<1> QED
  BY <1>1 DEF setup_fault, Code

\* A step reports diagnostics and writes counters of their types.
LEMMA ReportedStep ==
    LoaderInv /\ LoaderInv' /\ SearchInv /\ Reported /\ [Next]_vars => Reported'
<1> SUFFICES ASSUME LoaderInv, LoaderInv', SearchInv, Reported, [Next]_vars
             PROVE  Reported'
  OBVIOUS
<1>1. LoadTypeOK
  BY DEF LoaderInv, LoadShape
<1>2. ASSUME NEW c \in Code, NEW m \in Modules, NEW w \in Site, Report(c, m, w)
      PROVE  diagnostics' \subseteq Diagnostic
  BY <1>2 DEF Report, Reported, Diagnostic
<1>3. CASE Setup
  <2>1. [code : setup_fault, module : {Entry}, site : {Manifest}] \subseteq Diagnostic
    BY <1>1, SetupFaultType, ModuleAssumption DEF Diagnostic, Site, LoadTypeOK
  <2> QED
    BY <1>3, <2>1 DEF Setup, Reported, ordering
<1>4. ASSUME NEW r \in Request, Visit(r)
      PROVE  Reported'
  <2>1. r.module \in Modules /\ r.site \in Site /\ Manifest \in Site /\ r.module \in Site
    BY DEF Request, Site
  <2>2. UNCHANGED remaining_deps
    BY <1>4 DEF Visit, VisitCollision, VisitMissing, VisitOutside,
         VisitDuplicate, VisitFile, VisitUnreadable, VisitLoad, Pop, ordering
  <2>3. \/ Report("MODULE_PATH_COLLISION", r.module, Manifest)
        \/ Report("MODULE_NOT_FOUND", r.module, r.site)
        \/ Report("INVALID_PROJECT_PATH", r.module, Manifest)
        \/ Report("DUPLICATE_PHYSICAL_MODULE", r.module, r.site)
        \/ Report("PARSE_ERROR", r.module, r.module)
        \/ UNCHANGED diagnostics
    BY <1>4 DEF Visit, VisitCollision, VisitMissing, VisitOutside,
         VisitDuplicate, VisitUnreadable, VisitLoad
  <2>4. {"MODULE_PATH_COLLISION", "MODULE_NOT_FOUND", "INVALID_PROJECT_PATH",
         "DUPLICATE_PHYSICAL_MODULE", "PARSE_ERROR"} \subseteq Code
    BY DEF Code
  <2>5. diagnostics' \subseteq Diagnostic
    BY <1>2, <2>1, <2>3, <2>4 DEF Reported
  <2> QED
    BY <2>2, <2>5 DEF Reported
<1>5. CASE ReadImport \/ EndOrdering \/ Search \/ UNCHANGED vars
  BY <1>5 DEF ReadImport, EndOrdering, Search, vars, ordering, Reported
<1>6. CASE EndDiscovery
  <2>1. remaining_deps' = [m \in loaded |-> Cardinality(edges(m))]
    BY <1>6 DEF EndDiscovery
  <2>2. \A m \in loaded : Cardinality(edges(m) \ {}) \in Nat /\ edges(m) \ {} = edges(m)
    BY <1>1, EdgesFinite
  <2>3. (remaining_deps \in [DOMAIN remaining_deps -> Nat])'
    BY <2>1, <2>2
  <2> QED
    BY <1>6, <2>3 DEF EndDiscovery, Reported
<1>7. CASE Place
  <2>1. stage' = "order"
    BY <1>7 DEF Place
  <2>2. remaining_deps' \in [loaded' -> Nat]
    BY <2>1 DEF LoaderInv, Ordering, CountersExact
  <2> QED
    BY <1>7, <2>2 DEF Place, Reported
<1>8. CASE ReportCycle
  <2>1. dfs.witness # <<>>
    BY <1>8, CycleReported DEF SearchInv, ReportCycle
  <2>2. dfs.witness \in Seq(Modules)
    BY DEF SearchInv, Dfs
  <2>3. Head(dfs.witness) \in Modules /\ Last(dfs.witness) \in Site
    BY <2>1, <2>2, PopQueue, ToSetTail DEF Site
  <2>4. "IMPORT_CYCLE" \in Code
    BY DEF Code
  <2>5. Report("IMPORT_CYCLE", Head(dfs.witness), Last(dfs.witness))
    BY <1>8, <2>1 DEF ReportCycle
  <2> QED
    BY <1>2, <1>8, <2>3, <2>4, <2>5 DEF ReportCycle, Reported, ordering
<1> QED
  BY <1>3, <1>4, <1>5, <1>6, <1>7, <1>8 DEF Next

\* load_project for every project: the worklist, the diagnostics and the
\* search keep their types, and remaining_deps never goes below zero.
THEOREM LoaderTypes == Spec => []TypeOK
<1>1. Init => Reported
  BY DEF Init, Reported
<1>2. LoaderInv /\ SearchInv /\ Reported => TypeOK
  <2> SUFFICES ASSUME LoaderInv, SearchInv, Reported
               PROVE  TypeOK
    OBVIOUS
  <2>1. dfs \in Dfs
    BY DEF SearchInv
  <2>2. dfs \in [color : [DOMAIN dfs.color -> {"white", "gray", "black"}],
                stack : Seq(Frame), path : Seq(Modules), witness : Seq(Modules)]
    BY <2>1 DEF Dfs
  <2> QED
    BY <2>2 DEF TypeOK, Reported, LoaderInv, LoadShape
<1> QED
  BY <1>1, <1>2, SearchInit, SearchInvStep, ReportedStep, LoaderInvariant, PTL DEF Spec
----------------------------------------------------------------------------
(* The verdict.  What discovery has in its tables is what is on disk: a    *)
(* request is refused once, for a reason the reachable modules have, and   *)
(* the modules loaded have none.                                           *)

RefusedOnce ==
    stage = "discover" =>
        /\ \A m : (m \in queued => m \in Waiting \cup loaded) => Refusals(m) = {}
        /\ \A m \in queued \ (Waiting \cup loaded) : \E d : Refusals(m) = {d}

LoadedInPlace ==
    /\ loaded \subseteq folded \cap canonical
    /\ folded \subseteq queued /\ canonical \subseteq queued
    /\ \A m \in loaded : project.file[m] \in Files \ project.unreadable
    /\ \A m \in loaded : \A n \in loaded \ {m} :
        project.fold[n] # project.fold[m] /\ project.file[n] # project.file[m]

ReportedOnMerit ==
    /\ stage \notin {"setup", "rejected"} => setup_fault = {}
    /\ diagnostics = {} => loaded \cap project.malformed = {}
    /\ stage = "discover" /\ diagnostics # {} => ~Sound
    /\ stage = "rejected" => ~(Sound /\ LeadsToCycle = {})

Verdict == RefusedOnce /\ LoadedInPlace /\ ReportedOnMerit

\* A request that is refused: it had no refusal before, and has one now.
LEMMA RefusalStep ==
    ASSUME LoadShape, Discovery, Verdict,
           NEW r \in Request, Pop(r), UNCHANGED modules,
           NEW c, c # "PARSE_ERROR", NEW w, Report(c, r.module, w),
           folded' \subseteq folded \cup {r.module},
           canonical' \subseteq canonical \cup {r.module},
           folded \subseteq folded', canonical \subseteq canonical',
           ~Sound
    PROVE  Verdict'
<1> DEFINE d == [code |-> c, module |-> r.module, site |-> w]
<1>1. r.module \in Waiting /\ Waiting' = Waiting \ {r.module}
  BY PopWaiting DEF Discovery
<1>2. /\ stage = "discover" /\ UNCHANGED <<project, stage, queued, loaded>>
      /\ diagnostics' = diagnostics \cup {d}
  BY DEF Pop, Report, loaded
<1>3. /\ loaded \subseteq queued /\ Waiting \subseteq queued
      /\ Waiting \cap loaded = {}
  BY DEF Discovery, ServedOnce
<1>4. Refusals(r.module) = {} /\ Refusals(r.module)' = {d}
  <2>1. Refusals(r.module) = {}
    BY <1>1, <1>2, <1>3 DEF Verdict, RefusedOnce
  <2>2. d.module = r.module /\ d.code # "PARSE_ERROR"
    OBVIOUS
  <2> QED
    BY <1>2, <2>1, <2>2 DEF Refusals
<1>5. \A m : m # r.module => Refusals(m)' = Refusals(m)
  BY <1>2 DEF Refusals
<1>6. RefusedOnce'
  BY <1>1, <1>2, <1>3, <1>4, <1>5 DEF Verdict, RefusedOnce
<1>7. LoadedInPlace'
  BY <1>1, <1>2, <1>3 DEF Verdict, LoadedInPlace
<1>8. ReportedOnMerit'
  <2>1. UNCHANGED <<setup_fault, Sound>>
    BY <1>2 DEF setup_fault, Sound, Reachable, Imports
  <2> QED
    BY <1>2, <2>1 DEF Verdict, ReportedOnMerit
<1> QED
  BY <1>6, <1>7, <1>8 DEF Verdict

\* A module that is loaded: it is in its place, and a PARSE_ERROR is about it.
LEMMA LoadStep ==
    ASSUME LoadShape, Discovery, Verdict, NEW r \in Request, VisitLoad(r)
    PROVE  Verdict'
<1>1. Pop(r) /\ r.module \in Modules /\ modules \in Seq(Modules)
  BY DEF VisitLoad, VisitFile, Request, LoadShape, LoadTypeOK
<1>2. r.module \in Waiting /\ Waiting' = Waiting \ {r.module}
  BY <1>1, PopWaiting DEF Discovery
<1>3. /\ stage = "discover" /\ UNCHANGED <<project, stage, queued>>
      /\ loaded' = loaded \cup {r.module}
      /\ folded' = folded \cup {r.module} /\ canonical' = canonical \cup {r.module}
  BY <1>1, ToSetAppend DEF VisitLoad, VisitFile, Pop, loaded
<1>4. /\ loaded \subseteq queued /\ Waiting \subseteq queued
      /\ Waiting \cap loaded = {} /\ queued \subseteq Reachable
  BY DEF Discovery, ServedOnce, RequestsReachable
<1>5. \A m : Refusals(m)' = Refusals(m)
  BY DEF VisitLoad, Report, Refusals
<1>6. RefusedOnce'
  BY <1>2, <1>3, <1>4, <1>5 DEF Verdict, RefusedOnce
<1>7. LoadedInPlace'
  <2>1. /\ project.file[r.module] \in Files \ project.unreadable
        /\ \A e \in folded \ {r.module} : project.fold[e] # project.fold[r.module]
        /\ \A e \in canonical \ {r.module} : project.file[e] # project.file[r.module]
    BY DEF VisitLoad, VisitFile, Collides, Duplicates
  <2> QED
    BY <1>2, <1>3, <1>4, <2>1 DEF Verdict, LoadedInPlace
<1>8. ReportedOnMerit'
  <2>1. UNCHANGED <<setup_fault, Sound>>
    BY <1>3 DEF setup_fault, Sound, Reachable, Imports
  <2>2. CASE r.module \in project.malformed
    <3>1. diagnostics' # {}
      BY <2>2 DEF VisitLoad, Report
    <3>2. ~Sound
      BY <1>2, <1>4, <2>2 DEF Sound
    <3> QED
      BY <1>3, <2>1, <3>1, <3>2 DEF Verdict, ReportedOnMerit
  <2>3. CASE r.module \notin project.malformed
    <3>1. UNCHANGED diagnostics
      BY <2>3 DEF VisitLoad
    <3> QED
      BY <1>3, <2>1, <2>3, <3>1 DEF Verdict, ReportedOnMerit
  <2> QED
    BY <2>2, <2>3
<1> QED
  BY <1>6, <1>7, <1>8 DEF Verdict

\* What discovery refuses a module for is a fault of the project on disk.
LEMMA RefusedForCause ==
    ASSUME LoadShape, Discovery, Verdict, NEW r \in Request, Visit(r), ~VisitLoad(r)
    PROVE  Verdict'
<1>1. Pop(r)
  BY DEF Visit, VisitCollision, VisitMissing, VisitOutside, VisitDuplicate,
       VisitFile, VisitUnreadable
<1>2. r.module \in Reachable /\ folded \subseteq Reachable /\ canonical \subseteq Reachable
  BY <1>1, PopWaiting DEF Discovery, ServedOnce, RequestsReachable, Verdict, LoadedInPlace
<1>3. Missing \notin Files /\ Outside \notin Files
  BY ModuleAssumption
<1>4. CASE VisitCollision(r)
  <2>1. ~Sound
    BY <1>2, <1>4 DEF VisitCollision, Collides, Sound
  <2> QED
    BY <1>1, <1>4, <2>1, RefusalStep DEF VisitCollision
<1>5. CASE VisitMissing(r)
  <2>1. ~Sound
    BY <1>2, <1>3, <1>5 DEF VisitMissing, Sound
  <2> QED
    BY <1>1, <1>5, <2>1, RefusalStep DEF VisitMissing
<1>6. CASE VisitOutside(r)
  <2>1. ~Sound
    BY <1>2, <1>3, <1>6 DEF VisitOutside, Sound
  <2> QED
    BY <1>1, <1>6, <2>1, RefusalStep DEF VisitOutside
<1>7. CASE VisitDuplicate(r)
  <2>1. ~Sound
    BY <1>2, <1>7 DEF VisitDuplicate, Duplicates, Sound
  <2> QED
    BY <1>1, <1>7, <2>1, RefusalStep DEF VisitDuplicate
<1>8. CASE VisitUnreadable(r)
  <2>1. ~Sound
    BY <1>2, <1>8 DEF VisitUnreadable, Sound
  <2> QED
    BY <1>1, <1>8, <2>1, RefusalStep DEF VisitUnreadable, VisitFile
<1> QED
  BY <1>4, <1>5, <1>6, <1>7, <1>8 DEF Visit

\* Steps after which discovery is over or has not changed.
LEMMA VerdictKept ==
    ASSUME Verdict, UNCHANGED <<project, loading>>,
           RefusedOnce', ReportedOnMerit'
    PROVE  Verdict'
<1>1. UNCHANGED <<project, folded, canonical, queued, loaded>>
  BY DEF loading, loaded
<1>2. LoadedInPlace'
  BY <1>1 DEF Verdict, LoadedInPlace
<1> QED
  BY <1>2 DEF Verdict

\* Every step of the load keeps the facts behind the verdict.
LEMMA VerdictStep ==
    LoaderInv /\ SearchInv /\ Verdict /\ [Next]_vars => Verdict'
<1> SUFFICES ASSUME LoaderInv, SearchInv, Verdict, [Next]_vars
             PROVE  Verdict'
  OBVIOUS
<1>0. LoadShape /\ Discovery
  BY DEF LoaderInv
<1>1. ASSUME UNCHANGED project
      PROVE  UNCHANGED <<setup_fault, Sound, LeadsToCycle>>
  BY <1>1 DEF setup_fault, Sound, Reachable, Imports, LeadsToCycle
<1>2. ASSUME UNCHANGED <<project, loading>>
      PROVE  UNCHANGED <<loaded, queued, Waiting>>
  BY <1>2 DEF loading, loaded, Waiting
<1>3. CASE Setup
  <2>1. /\ stage = "setup" /\ UNCHANGED <<project, loading>>
        /\ stage' = IF setup_fault = {} THEN "discover" ELSE "rejected"
        /\ diagnostics' = [code : setup_fault, module : {Entry}, site : {Manifest}]
        /\ diagnostics = {}
    BY <1>0, <1>3 DEF Setup, Discovery, DiscoveryDone
  <2>2. stage' = "discover" => diagnostics' = {}
    BY <2>1
  <2>3. stage' = "rejected" => ~Sound
    BY <2>1 DEF Sound
  <2>4. RefusedOnce'
    <3>1. stage' = "discover" => \A m : Refusals(m)' = {}
      BY <2>2 DEF Refusals
    <3>2. stage' = "discover" => queued' \subseteq Waiting' \cup loaded'
      BY <1>0, <1>2, <2>1 DEF Discovery, NothingLost
    <3> QED
      BY <3>1, <3>2 DEF RefusedOnce
  <2>5. ReportedOnMerit'
    <3>1. setup_fault' = setup_fault /\ Sound' = Sound
      BY <1>1, <2>1
    <3>2. diagnostics' = {} => loaded' \cap project'.malformed = {}
      BY <1>2, <2>1 DEF Verdict, ReportedOnMerit
    <3> QED
      BY <2>1, <2>2, <2>3, <3>1, <3>2 DEF ReportedOnMerit
  <2> QED
    BY <2>1, <2>4, <2>5, VerdictKept
<1>4. ASSUME NEW r \in Request, Visit(r)
      PROVE  Verdict'
  BY <1>0, <1>4, LoadStep, RefusedForCause
<1>5. CASE ReadImport
  <2>1. /\ stage = "discover" /\ UNCHANGED <<project, stage, folded, canonical, diagnostics, loaded>>
    BY <1>5 DEF ReadImport, loaded
  <2>2. /\ queued' = queued \cup {Head(reading)}
        /\ Waiting' = Waiting \cup (queued' \ queued)
    BY <1>0, <1>5, ImportWaits
  <2>3. Waiting \subseteq queued /\ loaded \subseteq queued
    BY <1>0 DEF Discovery, ServedOnce
  <2>4. \A m : Refusals(m)' = Refusals(m)
    BY <2>1 DEF Refusals
  <2>5. RefusedOnce'
    BY <2>1, <2>2, <2>3, <2>4 DEF Verdict, RefusedOnce
  <2>6. LoadedInPlace'
    BY <2>1, <2>2 DEF Verdict, LoadedInPlace
  <2>7. ReportedOnMerit'
    BY <1>1, <2>1 DEF Verdict, ReportedOnMerit
  <2> QED
    BY <2>5, <2>6, <2>7 DEF Verdict
<1>6. CASE EndDiscovery
  <2>1. /\ stage = "discover" /\ UNCHANGED <<project, loading, diagnostics>>
        /\ stage' = IF diagnostics = {} THEN "order" ELSE "rejected"
    BY <1>6 DEF EndDiscovery
  <2>2. RefusedOnce'
    BY <2>1 DEF RefusedOnce
  <2>3. ReportedOnMerit'
    BY <1>1, <1>2, <2>1 DEF Verdict, ReportedOnMerit
  <2> QED
    BY <2>1, <2>2, <2>3, VerdictKept
<1>7. CASE Place \/ EndOrdering \/ Search
  <2>1. /\ stage \in {"order", "search"} /\ UNCHANGED <<project, loading, diagnostics>>
        /\ stage' \in {"order", "search", "loaded"}
    BY <1>7 DEF Place, EndOrdering, Search
  <2>2. RefusedOnce'
    BY <2>1 DEF RefusedOnce
  <2>3. ReportedOnMerit'
    BY <1>1, <1>2, <2>1 DEF Verdict, ReportedOnMerit
  <2> QED
    BY <2>1, <2>2, <2>3, VerdictKept
<1>8. CASE ReportCycle
  <2>1. stage = "search" /\ UNCHANGED <<project, loading>>
    BY <1>8 DEF ReportCycle
  <2>2. stage' = "rejected" /\ diagnostics' # {}
    BY <1>8, CycleReported DEF SearchInv, ReportCycle, Report
  <2>3. LeadsToCycle # {}
    BY <2>1, ResidualLeadsToCycle
  <2>4. RefusedOnce'
    BY <2>2 DEF RefusedOnce
  <2>5. ReportedOnMerit'
    BY <1>1, <2>1, <2>2, <2>3 DEF ReportedOnMerit
  <2> QED
    BY <2>1, <2>4, <2>5, VerdictKept
<1>9. CASE UNCHANGED vars
  <2>1. UNCHANGED <<project, stage, loading, diagnostics>>
    BY <1>9 DEF vars
  <2>2. \A m : Refusals(m)' = Refusals(m)
    BY <2>1 DEF Refusals
  <2>3. RefusedOnce'
    BY <1>2, <2>1, <2>2 DEF Verdict, RefusedOnce
  <2>4. ReportedOnMerit'
    BY <1>1, <1>2, <2>1 DEF Verdict, ReportedOnMerit
  <2> QED
    BY <2>1, <2>3, <2>4, VerdictKept
<1> QED
  BY <1>3, <1>4, <1>5, <1>6, <1>7, <1>8, <1>9 DEF Next

\* At most one position of a sequence satisfies a test that tells its
\* positions apart.
LEMMA CountOnce ==
    ASSUME NEW I, \A i, j \in I : i = j
    PROVE  Cardinality(I) = IF I = {} THEN 0 ELSE 1
<1>1. CASE I = {}
  BY <1>1, FS_EmptySet
<1>2. CASE I # {}
  <2>1. PICK i : I = {i}
    BY <1>2
  <2> QED
    BY <1>2, <2>1, FS_Singleton
<1> QED
  BY <1>1, <1>2

\* What is in an order that puts dependencies first leads to no cycle.
LEMMA AcyclicOrder ==
    ASSUME ToSet(order) = Reachable, DependencyFirst(order), order \in Seq(Modules)
    PROVE  LeadsToCycle = {}
<1>1. ASSUME NEW C \in SUBSET Reachable, \A m \in C : Imports(m) \cap C # {},
             NEW m \in C
      PROVE  FALSE
  <2> DEFINE I == {i \in DOMAIN order : order[i] \in C}
  <2>1. DOMAIN order = 1..Len(order) /\ Len(order) \in Nat
    OBVIOUS
  <2>2. I # {} /\ I \in SUBSET Nat
    BY <1>1, <2>1 DEF ToSet
  <2>3. PICK i \in I : \A j \in I : i <= j
    BY <2>2, SmallestPath
  <2>4. PICK n \in C : n \in Imports(order[i])
    BY <1>1, <2>3
  <2>5. n \in {order[j] : j \in 1..(i - 1)}
    BY <2>3, <2>4 DEF DependencyFirst
  <2>6. PICK j \in 1..(i - 1) : order[j] = n
    BY <2>5
  <2>7. j \in I /\ ~(i <= j)
    BY <2>1, <2>3, <2>4, <2>6
  <2> QED
    BY <2>3, <2>7
<1> QED
  BY <1>1 DEF LeadsToCycle

\* Before discovery nothing is refused.
LEMMA VerdictInit == Init => Verdict
<1> SUFFICES ASSUME Init PROVE Verdict
  OBVIOUS
<1>1. loaded = {}
  BY DEF Init, loaded, ToSet
<1> QED
  BY <1>1 DEF Init, Verdict, RefusedOnce, LoadedInPlace, ReportedOnMerit

\* Every request is waiting, loaded or refused, once.
LEMMA RequestsOnce == LoaderInv /\ Verdict => EveryRequestOnce
<1> SUFFICES ASSUME LoaderInv, Verdict, stage = "discover", NEW m \in queued
             PROVE  Cardinality({i \in DOMAIN queue : queue[i].module = m})
                  + Cardinality({i \in DOMAIN modules : modules[i] = m})
                  + Cardinality(Refusals(m)) = 1
  BY DEF EveryRequestOnce
<1> DEFINE Q == {i \in DOMAIN queue : queue[i].module = m}
           M == {i \in DOMAIN modules : modules[i] = m}
<1>1. Cardinality(Q) = IF m \in Waiting THEN 1 ELSE 0
  <2>1. \A i, j \in Q : i = j
    BY DEF LoaderInv, Discovery, ServedOnce
  <2>2. Q = {} <=> m \notin Waiting
    BY DEF Waiting
  <2> QED
    BY <2>1, <2>2, CountOnce
<1>2. Cardinality(M) = IF m \in loaded THEN 1 ELSE 0
  <2>1. \A i, j \in M : i = j
    BY DEF LoaderInv, Discovery, ServedOnce, IsInjective
  <2>2. M = {} <=> m \notin loaded
    BY DEF loaded, ToSet
  <2> QED
    BY <2>1, <2>2, CountOnce
<1>3. Waiting \cap loaded = {}
  BY DEF LoaderInv, Discovery, ServedOnce
<1>4. Cardinality(Refusals(m)) = IF m \in Waiting \cup loaded THEN 0 ELSE 1
  <2>1. CASE m \in Waiting \cup loaded
    <3>1. Refusals(m) = {}
      BY <2>1 DEF Verdict, RefusedOnce
    <3> QED
      BY <2>1, <3>1, FS_EmptySet
  <2>2. CASE m \notin Waiting \cup loaded
    <3>1. PICK d : Refusals(m) = {d}
      BY <2>2 DEF Verdict, RefusedOnce
    <3> QED
      BY <2>2, <3>1, FS_Singleton
  <2> QED
    BY <2>1, <2>2
<1> QED
  BY <1>1, <1>2, <1>3, <1>4

\* The verdict is about what is on disk.
LEMMA VerdictIsMerit ==
    LoaderInv /\ SearchInv /\ CompleteOrder /\ Verdict => AcceptedOnMerit
<1> SUFFICES ASSUME LoaderInv, SearchInv, CompleteOrder, Verdict, stage \in Final
             PROVE  stage = "loaded" <=> Sound /\ LeadsToCycle = {}
  BY DEF AcceptedOnMerit
<1>1. CASE stage = "rejected"
  BY <1>1 DEF Verdict, ReportedOnMerit
<1>2. CASE stage = "loaded"
  <2>1. /\ loaded = Reachable /\ \A m \in loaded : edges(m) = Imports(m)
        /\ diagnostics = {}
    BY <1>2, LoadedIsReachable DEF LoaderInv, Discovery, DiscoveryDone
  <2>2. Sound
    BY <1>2, <2>1 DEF Sound, Verdict, LoadedInPlace, ReportedOnMerit
  <2>3. LeadsToCycle = {}
    BY <1>2, AcyclicOrder DEF CompleteOrder, LoaderInv, LoadShape, LoadTypeOK
  <2> QED
    BY <1>2, <2>2, <2>3
<1> QED
  BY <1>1, <1>2 DEF Final, SearchInv

\* load_project for every project: each request is served once and none is
\* lost, and the project is accepted exactly when what is reachable on disk
\* is in order, whatever order discovery went in.
THEOREM DiscoveryOnMerit == Spec => []DiscoveryIsFaithful
<1>1. EveryRequestOnce /\ AcceptedOnMerit => DiscoveryIsFaithful
  BY DEF DiscoveryIsFaithful
<1> QED
  BY <1>1, RequestsOnce, VerdictIsMerit, VerdictInit, VerdictStep, SearchInit,
     SearchInvStep, LoaderInvariant, OrderIsComplete, PTL DEF Spec
----------------------------------------------------------------------------
(* load_project inside compile_project. *)

LoadInv == LoaderInv /\ Greedy /\ SearchInv /\ Verdict

\* A step of the compilation is a step of the load or leaves the load alone.
LEMMA LoadInside == [CompileNext]_compileVars => [Next]_vars
BY DEF CompileNext, Load, LoadReturns, validate_entry_main, Turn, SkipDependent,
     RefuseImports, LowerModule, Merge, CheckMerged, compileVars

\* The facts about the load hold inside a compilation.
LEMMA LoadInvStep == LoadInv /\ [CompileNext]_compileVars => LoadInv'
BY LoadInside, LoaderStep, GreedyStep, SearchInvStep, VerdictStep DEF LoadInv

\* They hold before the load.
LEMMA LoadInvInit == CompileInit => LoadInv
<1>1. Init => Greedy
  BY DEF Init, Greedy
<1> QED
  BY <1>1, LoaderInit, SearchInit, VerdictInit DEF CompileInit, LoadInv

\* What the load promises, it promises inside a compilation.
LEMMA LoadPromises ==
    LoadInv => CompleteOrder /\ LeastOrder /\ WitnessIsCycle /\ DiscoveryIsFaithful
BY LoadedIsOrdered, GreedyIsLeast, SearchIsSound, RequestsOnce, VerdictIsMerit
   DEF LoadInv, DiscoveryIsFaithful

\* compile_project for every project: what is promised of the load holds at
\* every step of a compilation, the compiling of the loaded modules included.
THEOREM LoadedInCompile ==
    CompileSpec => [](CompleteOrder /\ LeastOrder /\ WitnessIsCycle
                      /\ DiscoveryIsFaithful)
BY LoadInvInit, LoadInvStep, LoadPromises, PTL DEF CompileSpec
----------------------------------------------------------------------------
(* Dependence on an unresolved module. *)

\* A module depends on S if it is in S or something it imports does.
LEMMA DependsOnStep ==
    ASSUME project \in ProjectType, NEW m \in Modules, NEW S
    PROVE  DependsOn(m, S) <=> m \in S \/ \E n \in Imports(m) : DependsOn(n, S)
<1> DEFINE Shut(C) == \A n \in C : Imports(n) \subseteq C
<1>1. ASSUME m \in S PROVE DependsOn(m, S)
  BY <1>1 DEF DependsOn
<1>2. ASSUME NEW n \in Imports(m), DependsOn(n, S) PROVE DependsOn(m, S)
  BY <1>2 DEF DependsOn
<1>3. ASSUME m \notin S, \A n \in Imports(m) : ~DependsOn(n, S)
      PROVE  ~DependsOn(m, S)
  <2> DEFINE free == UNION {C \in SUBSET Modules : Shut(C) /\ C \cap S = {}}
  <2>1. free \subseteq Modules /\ Shut(free) /\ free \cap S = {}
    OBVIOUS
  <2>2. Imports(m) \subseteq free
    BY <1>3 DEF DependsOn
  <2>3. /\ free \cup {m} \in SUBSET Modules /\ Shut(free \cup {m})
        /\ (free \cup {m}) \cap S = {}
    BY <1>3, <2>1, <2>2
  <2> HIDE DEF free
  <2> QED
    BY <2>3 DEF DependsOn
<1> QED
  BY <1>1, <1>2, <1>3
----------------------------------------------------------------------------
(* The loop over the modules. *)

Done == {order[i] : i \in 1..(next - 1)}
Faulted(m) == DependsOn(m, sources.unresolved)
Root(m) == m \in sources.unresolved /\ \A n \in Imports(m) : ~Faulted(n)

\* RootCauseReported, by the names above.
RootCause ==
    /\ failed = {m \in Done : Faulted(m)}
    /\ reports = {m \in Done : Root(m)} \cup (lowered \cap sources.faulty)
    /\ lowered = Done \ failed
    /\ \A m \in lowered : Imports(m) \subseteq lowered

Untouched ==
    next = 1 /\ lowered = {} /\ failed = {} /\ reports = {} /\ merged = <<>>

CompileShape ==
    /\ phase \in {"load", "main", "lower", "check", "compiled", "rejected"}
    /\ phase \in {"main", "lower", "check", "compiled"} => stage = "loaded"
    /\ phase \in {"load", "main"} => Untouched
    /\ phase \in {"lower", "check", "compiled"} =>
        sources.mains = 1 /\ next \in 1..(Len(order) + 1) /\ RootCause
    /\ phase \in {"check", "compiled"} =>
        /\ next = Len(order) + 1 /\ reports = {}
        /\ ToSet(order) \subseteq lowered /\ merged = order

\* What the loop knows of the order it follows.
LEMMA LoopOrder ==
    ASSUME LoadInv, stage = "loaded"
    PROVE  /\ project \in ProjectType /\ order \in Seq(Modules)
           /\ Len(order) \in Nat /\ DOMAIN order = 1..Len(order)
           /\ ToSet(order) = Reachable /\ Reachable \subseteq Modules
           /\ IsInjective(order)
           /\ \A i \in DOMAIN order :
                /\ order[i] \in Modules /\ edges(order[i]) = Imports(order[i])
                /\ Imports(order[i]) \subseteq {order[j] : j \in 1..(i - 1)}
<1>1. /\ project \in ProjectType /\ order \in Seq(Modules)
      /\ LoadShape /\ Discovery
  BY DEF LoadInv, LoaderInv, LoadShape, LoadTypeOK
<1>2. loaded = Reachable /\ \A m \in loaded : edges(m) = Imports(m)
  BY <1>1, LoadedIsReachable
<1>3. ToSet(order) = Reachable /\ IsInjective(order) /\ DependencyFirst(order)
  BY LoadedIsOrdered DEF LoadInv, CompleteOrder
<1>4. Reachable \subseteq Modules
  BY DEF Reachable
<1>5. \A i \in DOMAIN order : order[i] \in Reachable
  BY <1>3 DEF ToSet
<1> QED
  BY <1>1, <1>2, <1>3, <1>4, <1>5 DEF DependencyFirst

\* One turn of the loop.
LEMMA TurnStep ==
    ASSUME LoadInv, CompileShape, SkipDependent \/ RefuseImports \/ LowerModule
    PROVE  CompileShape'
<1> DEFINE m == current
<1>1. /\ phase = "lower" /\ phase' = "lower" /\ next <= Len(order) /\ next' = next + 1
      /\ UNCHANGED <<project, stage, order, sources>>
      /\ stage = "loaded" /\ sources.mains = 1 /\ RootCause
      /\ next \in 1..(Len(order) + 1)
  BY DEF CompileShape, SkipDependent, RefuseImports, LowerModule, Turn, vars, ordering
<1>2. /\ project \in ProjectType /\ Len(order) \in Nat /\ DOMAIN order = 1..Len(order)
      /\ IsInjective(order) /\ next \in DOMAIN order
      /\ m \in Modules /\ edges(m) = Imports(m) /\ Imports(m) \subseteq Done
  <2>1. next \in DOMAIN order
    BY <1>1, LoopOrder
  <2> QED
    BY <1>1, <2>1, LoopOrder DEF current, Done
<1>3. m \notin Done
  <2>1. \A i \in 1..(next - 1) : i \in DOMAIN order /\ i # next
    BY <1>2
  <2> QED
    BY <1>2, <2>1 DEF Done, IsInjective, current
<1>4. Done' = Done \cup {m}
  <2>1. 1..(next' - 1) = (1..(next - 1)) \cup {next}
    BY <1>1, <1>2
  <2>2. Done' = {order[i] : i \in 1..(next' - 1)}
    BY <1>1 DEF Done
  <2> QED
    BY <2>1, <2>2 DEF Done, current
<1>5. \A k : Faulted(k)' = Faulted(k) /\ Root(k)' = Root(k) /\ Imports(k)' = Imports(k)
  <2>1. \A k : Imports(k)' = Imports(k)
    BY <1>1 DEF Imports
  <2> QED
    BY <1>1, <2>1 DEF Faulted, Root, DependsOn
<1>6. Faulted(m) <=> m \in sources.unresolved \/ \E n \in Imports(m) : Faulted(n)
  BY <1>2, DependsOnStep DEF Faulted
<1>7. \A n \in Imports(m) : Faulted(n) <=> n \in failed
  BY <1>1, <1>2 DEF RootCause
<1>8. RootCause'
  <2>1. CASE SkipDependent
    <3>1. /\ failed' = failed \cup {m} /\ UNCHANGED <<lowered, reports, sources>>
          /\ \E n \in Imports(m) : n \in failed
      BY <1>1, <1>2, <2>1 DEF SkipDependent, depends_on_failed_module
    <3>2. Faulted(m) /\ ~Root(m)
      BY <1>6, <1>7, <3>1 DEF Root
    <3> QED
      BY <1>1, <1>3, <1>4, <1>5, <3>1, <3>2 DEF RootCause
  <2>2. CASE RefuseImports
    <3>1. /\ failed' = failed \cup {m} /\ reports' = reports \cup {m}
          /\ UNCHANGED <<lowered, sources>>
          /\ Imports(m) \cap failed = {}
          /\ ~(m \notin sources.unresolved /\ Imports(m) \subseteq lowered)
      BY <1>1, <1>2, <2>2 DEF RefuseImports, depends_on_failed_module, resolve_imports
    <3>2. Imports(m) \subseteq lowered
      BY <1>1, <1>2, <3>1 DEF RootCause
    <3>3. Faulted(m) /\ Root(m)
      BY <1>6, <1>7, <3>1, <3>2 DEF Root
    <3> QED
      BY <1>1, <1>3, <1>4, <1>5, <3>1, <3>3 DEF RootCause
  <2>3. CASE LowerModule
    <3>1. /\ lowered' = lowered \cup {m}
          /\ reports' = reports \cup ({m} \cap sources.faulty)
          /\ UNCHANGED <<failed, sources>>
          /\ Imports(m) \cap failed = {}
          /\ m \notin sources.unresolved /\ Imports(m) \subseteq lowered
      BY <1>1, <1>2, <2>3 DEF LowerModule, depends_on_failed_module, resolve_imports
    <3>2. ~Faulted(m) /\ ~Root(m)
      BY <1>6, <1>7, <3>1 DEF Root
    <3> QED
      BY <1>1, <1>3, <1>4, <1>5, <3>1, <3>2 DEF RootCause
  <2> QED
    BY <2>1, <2>2, <2>3
<1>9. next' \in 1..(Len(order') + 1)
  BY <1>1, <1>2
<1> QED
  BY <1>1, <1>8, <1>9 DEF CompileShape

\* If no module has a diagnostic at the end of the loop, all were lowered.
LEMMA NoReportNoFailure ==
    ASSUME LoadInv, stage = "loaded", RootCause, next = Len(order) + 1, reports = {}
    PROVE  failed = {} /\ lowered = ToSet(order)
<1>1. Len(order) \in Nat /\ DOMAIN order = 1..Len(order) /\ project \in ProjectType
  BY LoopOrder
<1>2. Done = ToSet(order)
  BY <1>1 DEF Done, ToSet
<1>3. ASSUME failed # {} PROVE FALSE
  <2> DEFINE I == {i \in DOMAIN order : Faulted(order[i])}
  <2>1. I \in SUBSET Nat
    BY <1>1
  <2>2. I # {}
    BY <1>2, <1>3 DEF RootCause, ToSet
  <2>3. PICK i \in I : \A j \in I : i <= j
    BY <2>1, <2>2, SmallestPath
  <2>4. ASSUME NEW n \in Imports(order[i]) PROVE ~Faulted(n)
    <3>1. PICK j \in 1..(i - 1) : order[j] = n
      BY <2>3, LoopOrder
    <3>2. j \in DOMAIN order /\ ~(i <= j)
      BY <1>1, <2>3, <3>1
    <3> QED
      BY <2>3, <3>1, <3>2
  <2>5. order[i] \in sources.unresolved
    <3>1. order[i] \in Modules /\ Faulted(order[i])
      BY <2>3, LoopOrder
    <3> QED
      BY <1>1, <2>4, <3>1, DependsOnStep DEF Faulted
  <2>6. order[i] \in Done
    BY <1>2, <2>3 DEF ToSet
  <2> QED
    BY <2>4, <2>5, <2>6 DEF RootCause, Root
<1> QED
  BY <1>2, <1>3 DEF RootCause

\* Every step of the compilation keeps its shape.
LEMMA CompileShapeStep ==
    LoadInv /\ CompileShape /\ [CompileNext]_compileVars => CompileShape'
<1> SUFFICES ASSUME LoadInv, CompileShape, [CompileNext]_compileVars
             PROVE  CompileShape'
  OBVIOUS
<1>1. ASSUME UNCHANGED <<vars, sources, next, lowered, failed, reports>>
      PROVE  RootCause => RootCause'
  <2>1. UNCHANGED <<project, order, sources, next, lowered, failed, reports>>
    BY <1>1 DEF vars, ordering
  <2>2. \A k : Imports(k)' = Imports(k)
    BY <2>1 DEF Imports
  <2>3. \A k : Faulted(k)' = Faulted(k) /\ Root(k)' = Root(k)
    BY <2>1, <2>2 DEF Faulted, Root, DependsOn
  <2>4. Done' = Done
    BY <2>1 DEF Done
  <2> QED
    BY <2>1, <2>2, <2>3, <2>4 DEF RootCause
<1>2. CASE Load
  BY <1>2 DEF Load, CompileShape, Untouched, compiling
<1>3. CASE LoadReturns
  <2>1. /\ phase = "load" /\ stage \in {"loaded", "rejected"}
        /\ phase' = (IF stage = "loaded" THEN "main" ELSE stage)
        /\ UNCHANGED <<stage, compiling>>
    BY <1>3 DEF LoadReturns, LoadInv, SearchInv, Final, vars
  <2>2. Untouched'
    BY <2>1 DEF CompileShape, Untouched, compiling
  <2> QED
    BY <2>1, <2>2 DEF CompileShape
<1>4. CASE validate_entry_main
  <2>1. /\ phase = "main" /\ stage = "loaded" /\ Untouched
        /\ UNCHANGED <<stage, order, sources, next, lowered, failed>>
        /\ phase' \in {"lower", "rejected"}
        /\ phase' = "lower" => sources.mains = 1 /\ UNCHANGED reports
    BY <1>4 DEF validate_entry_main, CompileShape, vars, ordering
  <2>2. phase' = "lower" => RootCause'
    <3>1. Done' = {}
      BY <2>1 DEF Done, Untouched
    <3> QED
      BY <2>1, <3>1 DEF RootCause, Untouched
  <2>3. Len(order) \in Nat /\ next' \in 1..(Len(order') + 1)
    BY <2>1, LoopOrder DEF Untouched
  <2> QED
    BY <2>1, <2>2, <2>3 DEF CompileShape
<1>5. CASE SkipDependent \/ RefuseImports \/ LowerModule
  BY <1>5, TurnStep
<1>6. CASE Merge
  <2>1. /\ phase = "lower" /\ stage = "loaded" /\ next > Len(order)
        /\ sources.mains = 1 /\ next \in 1..(Len(order) + 1) /\ RootCause
        /\ UNCHANGED <<vars, stage, order, sources, next, lowered, failed, reports>>
    BY <1>6 DEF Merge, CompileShape, vars, ordering
  <2>2. RootCause' /\ next = Len(order) + 1
    BY <1>1, <2>1, LoopOrder
  <2>3. CASE reports # {}
    <3>1. phase' = "rejected"
      BY <1>6, <2>3 DEF Merge
    <3> QED
      BY <3>1 DEF CompileShape
  <2>4. CASE reports = {}
    <3>1. lowered = ToSet(order)
      BY <2>1, <2>2, <2>4, NoReportNoFailure
    <3>2. phase' = "check" /\ merged' = order
      <4>1. ToSet(order) \subseteq lowered /\ ~(reports # {})
        BY <2>4, <3>1
      <4> QED
        BY <1>6, <2>4, <4>1 DEF Merge
    <3> QED
      BY <2>1, <2>2, <2>4, <3>1, <3>2 DEF CompileShape
  <2> QED
    BY <2>3, <2>4
<1>7. CASE CheckMerged
  <2>1. /\ phase = "check" /\ phase' \in {"rejected", "compiled"}
        /\ UNCHANGED <<vars, stage, order, sources, next, lowered, failed, reports, merged>>
    BY <1>7 DEF CheckMerged, vars, ordering, compiling
  <2> QED
    BY <1>1, <2>1 DEF CompileShape
<1>8. CASE UNCHANGED compileVars
  <2>1. UNCHANGED <<vars, stage, order, phase, sources, next, lowered, failed, reports, merged>>
    BY <1>8 DEF compileVars, vars, ordering, compiling
  <2> QED
    BY <1>1, <2>1 DEF CompileShape, Untouched
<1> QED
  BY <1>2, <1>3, <1>4, <1>5, <1>6, <1>7, <1>8 DEF CompileNext

\* compile_project for every project and all sources: at every step of the
\* loop the modules left out are those that depend on an unresolved one, a
\* diagnostic stands only at a root cause, the merge never panics, and what
\* is compiled is the whole of a project with nothing wrong in it.
THEOREM CompileOnMerit == CompileSpec => []CompiledOnMerit
<1>1. CompileInit => CompileShape
  BY DEF CompileInit, CompileShape, Untouched
<1>2. CompileShape => RootCauseReported
  BY DEF CompileShape, RootCauseReported, RootCause, Done, Faulted, Root
<1>3. LoadInv /\ CompileShape => CompiledWhole
  <2> SUFFICES ASSUME LoadInv, CompileShape, phase = "compiled"
               PROVE  /\ Sound /\ sources.mains = 1
                      /\ Reachable \cap (sources.unresolved \cup sources.faulty) = {}
                      /\ ToSet(merged) = Reachable /\ DependencyFirst(merged)
    BY DEF CompiledWhole, CompileShape
  <2>1. /\ stage = "loaded" /\ sources.mains = 1 /\ RootCause
        /\ next = Len(order) + 1 /\ reports = {} /\ merged = order
    BY DEF CompileShape
  <2>2. Sound
    BY <2>1, LoadPromises DEF DiscoveryIsFaithful, AcceptedOnMerit, Final
  <2>3. ToSet(order) = Reachable /\ DependencyFirst(order)
    BY <2>1, LoadedIsOrdered DEF LoadInv, CompleteOrder
  <2>4. failed = {} /\ lowered = Reachable /\ Done = Reachable
    <3>1. failed = {} /\ lowered = ToSet(order)
      BY <2>1, NoReportNoFailure
    <3> QED
      BY <2>1, <2>3, <3>1 DEF RootCause
  <2>5. Reachable \cap sources.faulty = {}
    BY <2>1, <2>4 DEF RootCause
  <2>6. ASSUME NEW m \in Reachable PROVE m \notin sources.unresolved
    <3>1. ~Faulted(m)
      BY <2>1, <2>4 DEF RootCause
    <3> QED
      BY <3>1 DEF Faulted, DependsOn
  <2> QED
    BY <2>1, <2>2, <2>3, <2>5, <2>6
<1>4. RootCauseReported /\ CompiledWhole => CompiledOnMerit
  BY DEF CompiledOnMerit
<1> QED
  BY <1>1, <1>2, <1>3, <1>4, CompileShapeStep, LoadInvInit, LoadInvStep, PTL
     DEF CompileSpec
============================================================================
