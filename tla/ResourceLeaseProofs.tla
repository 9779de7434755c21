------------------------ MODULE ResourceLeaseProofs ------------------------
(***************************************************************************)
(* The observation leases of ResourceRuntime and the end of a failed       *)
(* execution, for every value of the constants: leases nest as the frames  *)
(* do, and what an active lease observes neither changes nor dies, because *)
(* it is closed under storage and no step writes into it.                  *)
(***************************************************************************)
EXTENDS ResourceOwnerProofs

-----------------------------------------------------------------------------
(***************************************************************************)
(* What a step does to the leases and the frames.  There are five ways.    *)
(***************************************************************************)

TopLease == Last(obs[Top]).lease

Quiet == UNCHANGED <<leases, active, frames, obs, terminated>>

LeaseBegun ==
    /\ \E o \in Observations, seen \in SUBSET Nat :
          /\ Closed(seen)
          /\ leases' = Append(leases, [status |-> "active",
                                       parent |-> IF obs[Top] = <<>> THEN 0 ELSE TopLease,
                                       observed |-> seen])
          /\ obs' = [obs EXCEPT ![Top] =
                        Append(@, [observation |-> o, lease |-> Len(leases) + 1])]
    /\ active' = Append(active, Len(leases) + 1)
    /\ UNCHANGED <<records, frames, terminated>>

LeaseEnded ==
    /\ obs[Top] # <<>>
    /\ leases' = [leases EXCEPT ![TopLease].status = "ended"]
    /\ \E n \in DOMAIN active : active[n] = TopLease /\ active' = RemoveAt(active, n)
    /\ obs' = [obs EXCEPT ![Top] = Front(@)]
    /\ UNCHANGED <<frames, terminated>>

\* A call with checked arguments.
Called ==
    \E args \in Arguments : may_call(args) /\ \E ok, err : call_function(args, ok, err)

FrameEntered ==
    /\ HostCall \/ Called
    /\ \E bound, observing, ok, err : EnterFrame(bound, observing, ok, err)
    /\ UNCHANGED <<leases, active, terminated>>

FrameLeft ==
    /\ obs[Top] = <<>>
    /\ frames' = Front(frames) /\ obs' = Front(obs)
    /\ UNCHANGED <<leases, active, terminated>>

\* An instruction that fails, or writes only values and resources, is quiet.
LEMMA QuietStep ==
    Refuse \/ OnlyVals \/ OnlyTable => Quiet
BY DEF Refuse, OnlyVals, OnlyTable, Quiet

\* An observation that begins.
LEMMA BeginObserveShape ==
    ASSUME TypeOK, frames # <<>>, NEW v \in Vals, NEW o \in Observations,
           NEW root \in Vals, NEW p \in Paths, begin_observe(v, o, root, p)
    PROVE  Quiet \/ LeaseBegun
<1> DEFINE r == canonical_root(root)
           seen == observe_projections(V(r), p)
           reserved == Len(leases) + 1
           parent == IF obs[Top] = <<>> THEN 0 ELSE Last(obs[Top]).lease
<1>1. CASE Refuse
  BY <1>1, QuietStep
<1>2. CASE /\ place_exists(V(r), p)
           /\ \A h \in collect_reachable(seen) :
                 observe(h) /\ \A i \in DOMAIN fields(h) : ~is_tombstone(fields(h)[i])
           /\ leases' = Append(leases, [status |-> "active", parent |-> parent,
                                        observed |-> identities(seen)])
           /\ active' = Append(active, reserved)
           /\ obs' = [obs EXCEPT ![Top] = Append(@, [observation |-> o, lease |-> reserved])]
           /\ UNCHANGED <<records, frames, failing, terminated, host>>
  <2>1. r \in Vals /\ V(r) \in Value /\ p \in Seq(Nat \ {0}) /\ records \in Seq(ResourceRecord)
    BY TopFrame, BoundAssumption DEF TypeOK
  <2>2. seen \in Value
    BY <1>2, <2>1, ObserveProjectionsType
  <2>3. identities(seen) \in SUBSET Nat
    BY <2>1, <2>2, IdentitiesType
  <2> HIDE DEF seen
  <2>4. Closed(identities(seen))
    <3>1. ASSUME NEW i \in identities(seen)
          PROVE  /\ i \in DOMAIN records
                 /\ \A k \in DOMAIN records[i].fields :
                       /\ records[i].fields[k] # Moved
                       /\ is_handle(records[i].fields[k]) =>
                             records[i].fields[k].id \in identities(seen)
      <4>1. PICK h \in collect_reachable(seen) : h.id = i
        BY DEF identities, ids
      <4>2. record(h) /\ \A k \in DOMAIN fields(h) : ~is_tombstone(fields(h)[k])
        BY <1>2 DEF observe
      <4>3. i \in DOMAIN records /\ fields(h) = records[i].fields
        BY <4>1, <4>2 DEF record, fields
      <4>4. ASSUME NEW k \in DOMAIN records[i].fields, is_handle(records[i].fields[k])
            PROVE  records[i].fields[k].id \in identities(seen)
        <5>1. records[i].fields[k] \in children(h)
          BY <4>2, <4>3, <4>4 DEF children, handles
        <5>2. children(h) \subseteq below(handles(seen))
          BY BelowClosed DEF collect_reachable
        <5> QED
          BY <5>1, <5>2 DEF identities, ids, collect_reachable
      <4> QED
        BY <4>2, <4>3, <4>4 DEF is_tombstone
    <3> QED
      BY <3>1 DEF Closed
  <2> QED
    BY <1>2, <2>3, <2>4 DEF LeaseBegun, TopLease
<1> QED
  BY <1>1, <1>2 DEF begin_observe, Attempt

\* An observation that ends.
LEMMA EndObserveShape ==
    ASSUME NEW o, end_observe(o)
    PROVE  Quiet \/ LeaseEnded
BY QuietStep DEF end_observe, Attempt, LeaseEnded, TopLease

\* A call.
LEMMA CallShape ==
    ASSUME NEW args \in Arguments, NEW ok, NEW err, may_call(args), call_function(args, ok, err)
    PROVE  FrameEntered
<1>1. Called
  BY DEF Called
<1> QED
  BY <1>1 DEF call_function, FrameEntered

\* An instruction is quiet, begins or ends one lease, or enters one frame.
LEMMA InstructionShape ==
    ASSUME TypeOK, frames # <<>>, Instruction
    PROVE  Quiet \/ LeaseBegun \/ LeaseEnded \/ FrameEntered
<1>1. Temps \subseteq Vals
  BY DEF Vals
<1>2. CASE \E v \in Temps : TransferInstruction(v)
  <2>1. PICK v \in Temps : TransferInstruction(v)
    BY <1>2
  <2>2. CASE \E src \in Vals : Move(v, src)
    BY <2>2, QuietStep DEF Move, Attempt
  <2>3. CASE \E args \in Args(2) : AggregateCreate(v, args)
    BY <2>3, QuietStep DEF AggregateCreate, Attempt
  <2>4. CASE \E args \in Args(2) : ResourceCreate(v, args)
    BY <2>4, QuietStep DEF ResourceCreate, Attempt
  <2>5. CASE \E args \in Arguments : Call(v, args)
    BY <2>5, QuietStep, CallShape DEF Call, Attempt
  <2> QED
    BY <2>1, <2>2, <2>3, <2>4, <2>5 DEF TransferInstruction
<1>3. CASE \E v \in Temps : ValueInstruction(v)
  <2>1. PICK v \in Temps : ValueInstruction(v)
    BY <1>3
  <2>2. CASE Const(v)
    BY <2>2, QuietStep DEF Const
  <2>3. CASE \E root \in Vals, p \in Paths : PlaceReadObserve(v, root, p) \/ RecordField(v, root, p)
    BY <2>3, QuietStep DEF PlaceReadObserve, RecordField, read_view, Attempt
  <2>4. CASE \E root \in Vals, p \in Paths : PlaceReadTransfer(v, root, p)
    BY <2>4, QuietStep DEF PlaceReadTransfer, Attempt, take_projections, take_refused, Quiet
  <2>5. CASE \E root \in Vals, p \in Paths, o \in Observations : begin_observe(v, o, root, p)
    BY <1>1, <2>5, BeginObserveShape
  <2>6. CASE \E base \in Vals, i \in 1..MaxLeaves : VariantPayload(v, base, i)
    BY <2>6, QuietStep DEF VariantPayload, Attempt
  <2> QED
    BY <2>1, <2>2, <2>3, <2>4, <2>5, <2>6 DEF ValueInstruction
<1>4. CASE \E y \in Loads : Load(y)
  BY <1>4, QuietStep DEF Load, Attempt
<1>5. CASE ArithmeticFailure
  BY <1>5, QuietStep DEF ArithmeticFailure
<1>6. CASE \E base \in Vals : \E t, u \in (1..MaxLeaves) \X Temps : DecomposeVariant(base, {t, u})
  BY <1>6, QuietStep DEF DecomposeVariant, Attempt
<1>7. CASE \E slot \in Slots, v \in Vals : StoreTransfer(slot, v) \/ StoreObserve(slot, v)
  BY <1>7, QuietStep DEF StoreTransfer, StoreObserve, Attempt
<1>8. CASE \E v \in Vals : Drop(v)
  BY <1>8, QuietStep DEF Drop, Attempt
<1>9. CASE \E root, src \in Vals, p \in Paths : StorePlace(root, p, src)
  BY <1>9, QuietStep DEF StorePlace, Attempt
<1>10. CASE \E o \in Observations : end_observe(o)
  BY <1>10, EndObserveShape
<1> QED
  BY <1>2, <1>3, <1>4, <1>5, <1>6, <1>7, <1>8, <1>9, <1>10 DEF Instruction

\* A terminator is quiet, enters one frame or leaves one.
LEMMA TerminatorShape ==
    ASSUME Terminator
    PROVE  Quiet \/ FrameEntered \/ FrameLeft
<1>1. CASE \E args \in Arguments, ok, err \in Slots : Invoke(args, ok, err)
  BY <1>1, QuietStep, CallShape DEF Invoke, Attempt
<1>2. CASE \E s \in {V(v) : v \in Vals} \cup {<<Scalar>>} : Return(s)
  BY <1>2, QuietStep DEF Return, Attempt, FrameLeft, LeaveFrame
<1>3. CASE \E v \in Vals, handled \in BOOLEAN : Raise(V(v), handled)
  BY <1>3, QuietStep DEF Raise, Attempt, FrameLeft, LeaveFrame
<1> QED
  BY <1>1, <1>2, <1>3 DEF Terminator

-----------------------------------------------------------------------------
(***************************************************************************)
(* A failed execution is over.                                             *)
(***************************************************************************)

\* A terminated interpreter runs nothing: it is unwinding, or it has no frame.
TerminatedStops == terminated => failing \/ frames = <<>>

\* An instruction or terminator never terminates the interpreter itself.
LEMMA RunningKeeps ==
    ASSUME TypeOK, frames # <<>>, Instruction \/ Terminator
    PROVE  terminated' = terminated
BY InstructionShape, TerminatorShape
   DEF Quiet, LeaseBegun, LeaseEnded, FrameEntered, FrameLeft

\* A frame that fails unwinds before anything runs again.
LEMMA TerminatedStopsInvariant == Spec => []TerminatedStops
<1>1. Init => TerminatedStops
  BY DEF Init, TerminatedStops
<1>2. ASSUME TypeOK, TerminatedStops, [Next]_vars
      PROVE  TerminatedStops'
  <2>1. CASE HostCall
    BY <2>1 DEF HostCall, TerminatedStops
  <2>2. CASE Running /\ (Instruction \/ Terminator)
    BY <1>2, <2>2, RunningKeeps DEF Running, TerminatedStops
  <2>3. CASE Unwind
    <3>1. Top \in Nat \ {0} /\ frames' \in Seq(Frame) /\ Len(frames') = Top - 1
      BY <1>2, <2>3, PopType DEF Unwind, Top
    <3>2. CASE Top = 1
      BY <3>1, <3>2 DEF TerminatedStops
    <3>3. CASE Top # 1
      <4>1. (Top > 1) = TRUE
        BY <3>1, <3>3
      <4>2. failing' = TRUE
        BY <2>3, <4>1 DEF Unwind
      <4> QED
        BY <4>2 DEF TerminatedStops
    <3> QED
      BY <3>2, <3>3
  <2>4. CASE UNCHANGED vars
    BY <1>2, <2>4 DEF TerminatedStops, vars
  <2> QED
    BY <1>2, <2>1, <2>2, <2>3, <2>4 DEF Next
<1> QED
  BY <1>1, <1>2, TypeCorrect, PTL DEF Spec

\* From the first failed frame on, no resource changes, the host receives
\* nothing and no frame is entered (Interpreter.terminated,
\* check_not_terminated).
THEOREM TerminationFinal == Spec => TerminatedIsFinal
<1>1. ASSUME TypeOK, TerminatedStops, [Next]_vars, terminated
      PROVE  UNCHANGED <<records, host>> /\ terminated' /\ Len(frames') <= Len(frames)
  <2>1. Len(frames) \in Nat
    BY <1>1 DEF TypeOK
  <2>2. CASE HostCall
    BY <1>1, <2>2 DEF HostCall
  <2>3. CASE Running /\ (Instruction \/ Terminator)
    BY <1>1, <2>3 DEF Running, TerminatedStops
  <2>4. CASE Unwind
    BY <1>1, <2>1, <2>4, PopType DEF Unwind
  <2>5. CASE UNCHANGED vars
    BY <1>1, <2>1, <2>5 DEF vars
  <2> QED
    BY <1>1, <2>2, <2>3, <2>4, <2>5 DEF Next
<1> QED
  BY <1>1, TypeCorrect, TerminatedStopsInvariant, PTL DEF Spec, TerminatedIsFinal

-----------------------------------------------------------------------------
(***************************************************************************)
(* The leases are one stack, cut into the observation stacks of the        *)
(* frames.                                                                 *)
(***************************************************************************)

\* RemoveAt closes the gap.
LEMMA RemoveAtElements ==
    ASSUME NEW S, NEW s \in Seq(S), NEW n \in DOMAIN s
    PROVE  /\ RemoveAt(s, n) \in Seq(S) /\ Len(RemoveAt(s, n)) = Len(s) - 1
           /\ \A i \in 1..(Len(s) - 1) :
                 RemoveAt(s, n)[i] = IF i < n THEN s[i] ELSE s[i + 1]
<1> DEFINE a == SubSeq(s, 1, n - 1)
           b == SubSeq(s, n + 1, Len(s))
<1>1. Len(s) \in Nat /\ n \in 1..Len(s)
  OBVIOUS
<1>2. /\ a \in Seq(S) /\ Len(a) = n - 1
      /\ \A i \in 1..(n - 1) : a[i] = s[i]
  BY <1>1
<1>3. /\ b \in Seq(S) /\ Len(b) = Len(s) - n
      /\ \A i \in 1..(Len(s) - n) : b[i] = s[n + i]
  BY <1>1
<1> HIDE DEF a, b
<1>4. a \o b \in Seq(S) /\ Len(a \o b) = Len(s) - 1
  BY <1>1, <1>2, <1>3
<1>5. ASSUME NEW i \in 1..(Len(s) - 1)
      PROVE  (a \o b)[i] = IF i < n THEN s[i] ELSE s[i + 1]
  <2>1. CASE i < n
    BY <1>1, <1>2, <1>3, <2>1
  <2>2. CASE i >= n
    <3>1. (a \o b)[i] = b[i - (n - 1)]
      BY <1>1, <1>2, <1>3, <2>2
    <3>2. i - (n - 1) \in 1..(Len(s) - n) /\ n + (i - (n - 1)) = i + 1
      BY <1>1, <2>2
    <3>3. b[i - (n - 1)] = s[n + (i - (n - 1))]
      BY <1>3, <3>2
    <3> QED
      BY <1>1, <2>2, <3>1, <3>2, <3>3
  <2>3. i < n \/ i >= n
    BY <1>1
  <2> QED
    BY <2>1, <2>2, <2>3
<1> QED
  BY <1>4, <1>5 DEF RemoveAt, a, b

\* Removing an element of an ascending sequence removes it from its range.
LEMMA RemoveFromAscending ==
    ASSUME NEW s \in Seq(Nat), NEW n \in DOMAIN s,
           \A j, k \in DOMAIN s : j < k => s[j] < s[k]
    PROVE  LET r == RemoveAt(s, n) IN
           /\ \A j, k \in DOMAIN r : j < k => r[j] < r[k]
           /\ Range(r) = Range(s) \ {s[n]}
<1> DEFINE r == RemoveAt(s, n)
<1>1. /\ Len(s) \in Nat /\ n \in 1..Len(s) /\ DOMAIN s = 1..Len(s)
      /\ \A i \in DOMAIN s : s[i] \in Nat
  OBVIOUS
<1>2. /\ r \in Seq(Nat) /\ DOMAIN r = 1..(Len(s) - 1)
      /\ \A i \in DOMAIN r : r[i] = IF i < n THEN s[i] ELSE s[i + 1]
  <2>1. /\ r \in Seq(Nat) /\ Len(r) = Len(s) - 1
        /\ \A i \in 1..(Len(s) - 1) : r[i] = IF i < n THEN s[i] ELSE s[i + 1]
    BY RemoveAtElements
  <2> HIDE DEF r
  <2>2. DOMAIN r = 1..Len(r)
    BY <2>1
  <2> QED
    BY <2>1, <2>2
<1> HIDE DEF r
<1>3. ASSUME NEW i \in DOMAIN r
      PROVE  \E j \in DOMAIN s : /\ r[i] = s[j] /\ j # n
                                /\ j = IF i < n THEN i ELSE i + 1
  <2>1. CASE i < n
    BY <1>1, <1>2, <2>1
  <2>2. CASE ~(i < n)
    <3>1. i + 1 \in DOMAIN s /\ i + 1 # n
      BY <1>1, <1>2, <2>2
    <3> QED
      BY <1>2, <2>2, <3>1
  <2> QED
    BY <2>1, <2>2
<1>4. \A i \in DOMAIN r : r[i] # s[n] /\ \E j \in DOMAIN s : s[j] = r[i]
  <2>1. \A j \in DOMAIN s : j # n => s[j] # s[n]
    BY <1>1
  <2> QED
    BY <1>3, <2>1
<1>7. ASSUME NEW i \in DOMAIN r, NEW k \in DOMAIN r, i < k PROVE r[i] < r[k]
  <2>1. PICK i2 \in DOMAIN s : r[i] = s[i2] /\ i2 = IF i < n THEN i ELSE i + 1
    BY <1>3
  <2>2. PICK k2 \in DOMAIN s : r[k] = s[k2] /\ k2 = IF k < n THEN k ELSE k + 1
    BY <1>3
  <2>5. i \in Nat /\ k \in Nat /\ n \in Nat
    <3>1. DOMAIN r = 1..(Len(s) - 1)
      BY <1>2
    <3>2. Len(s) - 1 \in Int /\ n \in Nat
      BY <1>1
    <3> QED
      BY <3>1, <3>2
  <2>3. i2 < k2
    BY <1>7, <2>1, <2>2, <2>5
  <2>4. s[i2] < s[k2]
    BY <2>3
  <2> QED
    BY <2>1, <2>2, <2>4
<1>5. ASSUME NEW j \in DOMAIN s, s[j] # s[n] PROVE \E i \in DOMAIN r : r[i] = s[j]
  <2>1. CASE j < n
    <3>1. j \in DOMAIN r
      BY <1>1, <1>2, <2>1
    <3> QED
      BY <1>2, <2>1, <3>1
  <2>2. CASE j > n
    <3>1. j - 1 \in DOMAIN r /\ ~(j - 1 < n) /\ (j - 1) + 1 = j
      BY <1>1, <1>2, <2>2
    <3> QED
      BY <1>2, <3>1
  <2> QED
    BY <1>1, <1>5, <2>1, <2>2
<1>6. Range(r) = Range(s) \ {s[n]}
  BY <1>4, <1>5 DEF Range
<1> QED
  BY <1>6, <1>7 DEF r

Entry == [observation : Observations, lease : Nat]

\* The types that the lease argument needs.
LEMMA LeaseTypes ==
    ASSUME TypeOK
    PROVE  /\ leases \in Seq(LeaseRecord) /\ active \in Seq(Nat)
           /\ Len(leases) \in Nat /\ DOMAIN leases = 1..Len(leases)
           /\ obs \in Seq(Seq(Entry)) /\ Len(obs) = Len(frames)
           /\ DOMAIN obs = 1..Len(frames) /\ DOMAIN frames = 1..Len(frames)
           /\ Len(frames) \in Nat /\ Top = Len(frames)
           /\ \A f \in DOMAIN frames : frames[f].mark \in Nat
           /\ \A f \in DOMAIN obs : obs[f] \in Seq(Entry) /\ DOMAIN obs[f] = 1..Len(obs[f])
           /\ \A f \in DOMAIN obs : \A k \in DOMAIN obs[f] : obs[f][k].lease \in Nat
<1>1. /\ leases \in Seq(LeaseRecord) /\ active \in Seq(Nat)
      /\ obs \in Seq(Seq(Entry)) /\ Len(obs) = Len(frames) /\ frames \in Seq(Frame)
  BY DEF TypeOK, Entry
<1>2. ASSUME NEW f \in DOMAIN frames PROVE frames[f].mark \in Nat
  <2>1. frames[f] \in Frame
    BY <1>1
  <2> QED
    BY <2>1 DEF Frame
<1>3. ASSUME NEW f \in DOMAIN obs
      PROVE  /\ obs[f] \in Seq(Entry) /\ DOMAIN obs[f] = 1..Len(obs[f])
             /\ \A k \in DOMAIN obs[f] : obs[f][k].lease \in Nat
  <2>1. obs[f] \in Seq(Entry)
    BY <1>1
  <2>2. ASSUME NEW k \in DOMAIN obs[f] PROVE obs[f][k].lease \in Nat
    <3>1. obs[f][k] \in Entry
      BY <2>1
    <3> QED
      BY <3>1 DEF Entry
  <2> QED
    BY <2>1, <2>2
<1> QED
  BY <1>1, <1>2, <1>3 DEF Top

\* Steps that touch neither leases nor frames.
LEMMA QuietDiscipline ==
    ASSUME LeaseDiscipline, Quiet
    PROVE  LeaseDiscipline'
BY DEF Quiet, LeaseDiscipline, ActiveAscends, ActiveMarked, ActiveHeld, MarksKnown, HeldInOrder

\* A frame starts with the current mark and no observation.
LEMMA EnterDiscipline ==
    ASSUME TypeOK, LeaseDiscipline, FrameEntered
    PROVE  LeaseDiscipline'
<1>1. PICK bound, observing, ok, err : EnterFrame(bound, observing, ok, err)
  BY DEF FrameEntered
<1>2. leases' = leases /\ active' = active
  BY DEF FrameEntered
<1> DEFINE n == Len(frames) + 1
<1>3. /\ Len(frames) \in Nat /\ DOMAIN obs = 1..Len(frames) /\ DOMAIN frames = 1..Len(frames)
      /\ Len(leases) \in Nat /\ DOMAIN leases = 1..Len(leases) /\ Len(obs) = Len(frames)
      /\ obs \in Seq(Seq(Entry)) /\ frames \in Seq(Frame)
  BY LeaseTypes DEF TypeOK
<1>4. /\ DOMAIN obs' = 1..n /\ obs'[n] = <<>>
      /\ \A f \in DOMAIN obs : obs'[f] = obs[f]
  BY <1>1, <1>3 DEF EnterFrame
<1>5. /\ DOMAIN frames' = 1..n /\ frames'[n].mark = Len(leases)
      /\ \A f \in DOMAIN frames : frames'[f] = frames[f]
  BY <1>1, <1>3 DEF EnterFrame
<1>6. n \in Nat /\ 1..n = DOMAIN obs \cup {n} /\ n \notin DOMAIN obs /\ DOMAIN frames = DOMAIN obs
  BY <1>3
<1>7. ActiveAscends' /\ ActiveMarked'
  BY <1>2 DEF LeaseDiscipline, ActiveAscends, ActiveMarked
<1>8. ActiveHeld'
  BY <1>2, <1>4, <1>6 DEF LeaseDiscipline, ActiveHeld
<1>9. MarksKnown'
  BY <1>2, <1>3, <1>5, <1>6 DEF LeaseDiscipline, MarksKnown
<1>10. ASSUME NEW f \in DOMAIN obs', NEW k \in DOMAIN obs'[f]
       PROVE  HeldInOrder(f, k)'
  <2>1. f \in DOMAIN obs /\ obs'[f] = obs[f] /\ k \in DOMAIN obs[f]
    BY <1>4, <1>6
  <2>2. HeldInOrder(f, k)
    BY <2>1 DEF LeaseDiscipline
  <2>3. obs[f][k].lease <= Len(leases)
    BY <1>3, <2>2 DEF HeldInOrder, LeaseDiscipline, ActiveMarked
  <2>4. \A g \in DOMAIN obs' : f < g => obs'[f][k].lease <= frames'[g].mark
    BY <1>4, <1>5, <1>6, <2>1, <2>2, <2>3 DEF HeldInOrder
  <2> QED
    BY <1>2, <1>5, <1>6, <2>1, <2>2, <2>4 DEF HeldInOrder
<1> QED
  BY <1>7, <1>8, <1>9, <1>10 DEF LeaseDiscipline

\* A stack without its top, position by position.
LEMMA FrontElements ==
    ASSUME NEW S, NEW s \in Seq(S), s # <<>>
    PROVE  /\ DOMAIN Front(s) = 1..(Len(s) - 1) /\ DOMAIN s = DOMAIN Front(s) \cup {Len(s)}
           /\ Len(s) \notin DOMAIN Front(s)
           /\ \A i \in DOMAIN Front(s) : Front(s)[i] = s[i]
<1>1. /\ Front(s) \in Seq(S) /\ Len(Front(s)) = Len(s) - 1 /\ Len(s) \in DOMAIN s
      /\ \A i \in 1..(Len(s) - 1) : Front(s)[i] = s[i]
  BY FrontType
<1>2. DOMAIN Front(s) = 1..(Len(s) - 1)
  BY <1>1
<1>3. Len(s) \in Nat \ {0} /\ DOMAIN s = 1..Len(s)
  OBVIOUS
<1> QED
  BY <1>1, <1>2, <1>3

\* A frame is left with no observation open.
LEMMA LeaveDiscipline ==
    ASSUME TypeOK, LeaseDiscipline, frames # <<>>, FrameLeft
    PROVE  LeaseDiscipline'
<1>1. leases' = leases /\ active' = active /\ obs[Top] = <<>>
  BY DEF FrameLeft
<1>2. /\ Top \in Nat \ {0} /\ DOMAIN obs = 1..Top /\ DOMAIN frames = 1..Top
      /\ Len(obs) = Top /\ obs \in Seq(Seq(Entry)) /\ frames \in Seq(Frame) /\ Len(frames) = Top
  BY LeaseTypes, PopType DEF TypeOK
<1>3. /\ DOMAIN obs' = 1..(Top - 1) /\ \A f \in DOMAIN obs' : obs'[f] = obs[f]
  <2>1. obs # <<>>
    BY <1>2
  <2> QED
    <3>1. DOMAIN Front(obs) = 1..(Len(obs) - 1) /\ \A f \in DOMAIN Front(obs) : Front(obs)[f] = obs[f]
      BY <1>2, <2>1, FrontElements
    <3>2. obs' = Front(obs)
      BY DEF FrameLeft
    <3> QED
      BY <1>2, <3>1, <3>2
<1>4. /\ DOMAIN frames' = 1..(Top - 1) /\ \A f \in DOMAIN frames' : frames'[f] = frames[f]
  <2>1. /\ DOMAIN Front(frames) = 1..(Len(frames) - 1)
        /\ \A f \in DOMAIN Front(frames) : Front(frames)[f] = frames[f]
    BY <1>2, FrontElements
  <2>2. frames' = Front(frames)
    BY DEF FrameLeft
  <2> QED
    BY <1>2, <2>1, <2>2
<1>5. DOMAIN obs = DOMAIN obs' \cup {Top} /\ DOMAIN obs[Top] = {}
  BY <1>1, <1>2, <1>3
<1>6. ActiveAscends' /\ ActiveMarked'
  BY <1>1 DEF LeaseDiscipline, ActiveAscends, ActiveMarked
<1>7. ActiveHeld'
  BY <1>1, <1>3, <1>5 DEF LeaseDiscipline, ActiveHeld
<1>8. MarksKnown'
  BY <1>1, <1>2, <1>4 DEF LeaseDiscipline, MarksKnown
<1>9. ASSUME NEW f \in DOMAIN obs', NEW k \in DOMAIN obs'[f]
      PROVE  HeldInOrder(f, k)'
  BY <1>1, <1>3, <1>4, <1>5 DEF LeaseDiscipline, HeldInOrder
<1> QED
  BY <1>6, <1>7, <1>8, <1>9 DEF LeaseDiscipline

\* A lease begun is the innermost of all.
LEMMA BeginDiscipline ==
    ASSUME TypeOK, LeaseDiscipline, frames # <<>>, LeaseBegun
    PROVE  LeaseDiscipline'
<1> DEFINE n == Len(leases) + 1
           m == Len(obs[Top]) + 1
<1>1. PICK o \in Observations, seen \in SUBSET Nat :
        /\ leases' = Append(leases, [status |-> "active",
                                     parent |-> IF obs[Top] = <<>> THEN 0 ELSE TopLease,
                                     observed |-> seen])
        /\ obs' = [obs EXCEPT ![Top] = Append(@, [observation |-> o, lease |-> n])]
  BY DEF LeaseBegun
<1>2. active' = Append(active, n) /\ frames' = frames
  BY DEF LeaseBegun
<1>3. /\ leases \in Seq(LeaseRecord) /\ active \in Seq(Nat)
      /\ Len(leases) \in Nat /\ DOMAIN leases = 1..Len(leases)
      /\ DOMAIN obs = 1..Top /\ DOMAIN frames = 1..Top /\ Top \in Nat \ {0}
      /\ obs \in Seq(Seq(Entry))
      /\ \A f \in DOMAIN frames : frames[f].mark \in Nat
      /\ \A f \in DOMAIN obs : obs[f] \in Seq(Entry) /\ DOMAIN obs[f] = 1..Len(obs[f])
      /\ \A f \in DOMAIN obs : \A k \in DOMAIN obs[f] : obs[f][k].lease \in Nat
  BY LeaseTypes, PopType
<1>4. /\ DOMAIN leases' = DOMAIN leases \cup {n} /\ n \notin DOMAIN leases
      /\ leases'[n].status = "active"
      /\ leases'[n].parent = IF obs[Top] = <<>> THEN 0 ELSE TopLease
      /\ \A l \in DOMAIN leases : leases'[l] = leases[l]
      /\ Len(leases') = n
  <2> DEFINE new == [status |-> "active",
                     parent |-> IF obs[Top] = <<>> THEN 0 ELSE TopLease, observed |-> seen]
  <2>1. new.status = "active" /\ new.parent = IF obs[Top] = <<>> THEN 0 ELSE TopLease
    OBVIOUS
  <2>2. leases' = Append(leases, new)
    BY <1>1
  <2> HIDE DEF new
  <2>3. /\ Len(leases') = n /\ DOMAIN leases' = 1..n /\ leases'[n] = new
        /\ \A l \in DOMAIN leases : leases'[l] = leases[l]
    BY <1>3, <2>2
  <2>4. 1..n = DOMAIN leases \cup {n} /\ n \notin DOMAIN leases
    BY <1>3
  <2> QED
    BY <2>1, <2>3, <2>4
<1>5. /\ Range(active') = Range(active) \cup {n}
      /\ \A j \in DOMAIN active' : j \in DOMAIN active \/ j = Len(active) + 1
      /\ DOMAIN active' = 1..(Len(active) + 1) /\ DOMAIN active = 1..Len(active)
      /\ active'[Len(active) + 1] = n /\ \A j \in DOMAIN active : active'[j] = active[j]
  <2>1. /\ DOMAIN active' = 1..(Len(active) + 1) /\ DOMAIN active = 1..Len(active)
        /\ Len(active) \in Nat
        /\ active'[Len(active) + 1] = n /\ \A j \in DOMAIN active : active'[j] = active[j]
    BY <1>2, <1>3
  <2>2. DOMAIN active' = DOMAIN active \cup {Len(active) + 1}
    BY <2>1
  <2> QED
    BY <2>1, <2>2 DEF Range
<1>6. /\ DOMAIN obs' = DOMAIN obs
      /\ \A f \in DOMAIN obs : f # Top => obs'[f] = obs[f]
      /\ obs'[Top] = Append(obs[Top], [observation |-> o, lease |-> n])
      /\ Top \in DOMAIN obs
  BY <1>1, <1>3
<1>7. /\ obs[Top] \in Seq(Entry) /\ Len(obs[Top]) \in Nat
      /\ DOMAIN obs[Top] = 1..Len(obs[Top])
      /\ DOMAIN obs'[Top] = 1..m /\ DOMAIN obs'[Top] = DOMAIN obs[Top] \cup {m}
      /\ m \notin DOMAIN obs[Top]
      /\ obs'[Top][m].lease = n /\ \A k \in DOMAIN obs[Top] : obs'[Top][k] = obs[Top][k]
  <2>1. obs[Top] \in Seq(Entry) /\ Len(obs[Top]) \in Nat /\ DOMAIN obs[Top] = 1..Len(obs[Top])
    BY <1>3, <1>6
  <2> QED
    BY <1>6, <2>1
<1>8. \A l \in Range(active) : l \in DOMAIN leases /\ l < n
  BY <1>3 DEF LeaseDiscipline, ActiveMarked
<1>9. ActiveAscends'
  <2>1. ASSUME NEW j \in DOMAIN active', NEW k \in DOMAIN active', j < k
        PROVE  active'[j] < active'[k]
    <3>1. j \in DOMAIN active
      BY <1>5, <2>1
    <3>2. active[j] \in Range(active)
      BY <3>1 DEF Range
    <3> QED
      BY <1>5, <1>8, <2>1, <3>1, <3>2 DEF LeaseDiscipline, ActiveAscends
  <2> QED
    BY <2>1 DEF ActiveAscends
<1>10. ActiveMarked'
  BY <1>4, <1>5 DEF LeaseDiscipline, ActiveMarked
<1>16. ASSUME NEW f \in DOMAIN obs, NEW k \in DOMAIN obs[f]
       PROVE  k \in DOMAIN obs'[f] /\ obs'[f][k] = obs[f][k]
  BY <1>6, <1>7
<1>11. ActiveHeld'
  BY <1>5, <1>6, <1>7, <1>16 DEF LeaseDiscipline, ActiveHeld
<1>12. MarksKnown'
  BY <1>2, <1>3, <1>4 DEF LeaseDiscipline, MarksKnown
<1>13. ASSUME NEW f \in DOMAIN obs, NEW k \in DOMAIN obs[f]
       PROVE  HeldInOrder(f, k)'
  <2>1. HeldInOrder(f, k)
    BY DEF LeaseDiscipline
  <2>2. obs'[f][k] = obs[f][k]
    BY <1>16
  <2>3. \A j \in DOMAIN obs'[f] : j < k => j \in DOMAIN obs[f] /\ obs'[f][j] = obs[f][j]
    <3>1. ASSUME NEW j \in DOMAIN obs'[f], j < k PROVE j \in DOMAIN obs[f]
      <4>1. CASE f = Top
        <5>1. j # m
          BY <1>7, <3>1, <4>1
        <5> QED
          BY <1>7, <4>1, <5>1
      <4>2. CASE f # Top
        BY <1>6, <4>2
      <4> QED
        BY <4>1, <4>2
    <3> QED
      BY <1>16, <3>1
  <2>5. k # 1 => obs'[f][k - 1] = obs[f][k - 1]
    <3>1. k # 1 => k - 1 \in DOMAIN obs[f]
      BY <1>3
    <3> QED
      BY <1>16, <3>1
  <2>4. obs[f][k].lease \in DOMAIN leases
    BY <1>8, <2>1 DEF HeldInOrder
  <2> QED
    BY <1>2, <1>4, <1>5, <1>6, <2>1, <2>2, <2>3, <2>4, <2>5 DEF HeldInOrder
<1>14. ASSUME NEW f, NEW k, f = Top, k = m
       PROVE  HeldInOrder(f, k)'
  <2>1. n > frames[Top].mark
    <3>1. Top \in DOMAIN frames /\ frames[Top].mark \in Nat
      BY <1>3
    <3>2. frames[Top].mark <= Len(leases)
      BY <3>1 DEF LeaseDiscipline, MarksKnown
    <3> QED
      BY <1>3, <3>1, <3>2
  <2>2. \A j \in DOMAIN obs[Top] : obs[Top][j].lease < n
    BY <1>6, <1>8 DEF LeaseDiscipline, HeldInOrder
  <2>3. leases'[n].parent = IF m = 1 THEN 0 ELSE obs'[Top][m - 1].lease
    <3>1. CASE obs[Top] = <<>>
      BY <1>4, <1>7, <3>1
    <3>2. CASE obs[Top] # <<>>
      <4>1. m # 1 /\ m - 1 \in DOMAIN obs[Top] /\ m - 1 = Len(obs[Top])
        BY <1>7, <3>2
      <4> QED
        BY <1>4, <1>7, <3>2, <4>1 DEF TopLease, Last
    <3> QED
      BY <3>1, <3>2
  <2>4. \A g \in DOMAIN obs' : ~(Top < g)
    BY <1>3, <1>6
  <2>5. \A j \in DOMAIN obs'[Top] : j < m => obs'[Top][j].lease < n
    BY <1>7, <2>2
  <2> QED
    BY <1>2, <1>5, <1>7, <1>14, <2>1, <2>3, <2>4, <2>5 DEF HeldInOrder
<1>15. ASSUME NEW f \in DOMAIN obs', NEW k \in DOMAIN obs'[f]
       PROVE  HeldInOrder(f, k)'
  <2>1. CASE f = Top /\ k = m
    BY <1>14, <2>1
  <2>2. CASE ~(f = Top /\ k = m)
    BY <1>6, <1>7, <1>13, <2>2
  <2> QED
    BY <2>1, <2>2
<1> QED
  BY <1>9, <1>10, <1>11, <1>12, <1>15 DEF LeaseDiscipline

\* Only the innermost lease can end.
LEMMA EndDiscipline ==
    ASSUME TypeOK, LeaseDiscipline, frames # <<>>, LeaseEnded
    PROVE  LeaseDiscipline'
<1> DEFINE m == Len(obs[Top])
           l == obs[Top][m].lease
<1>1. /\ obs[Top] # <<>> /\ TopLease = l
      /\ leases' = [leases EXCEPT ![l].status = "ended"]
      /\ obs' = [obs EXCEPT ![Top] = Front(obs[Top])]
      /\ frames' = frames
  BY DEF LeaseEnded, TopLease, Last
<1>2. PICK n \in DOMAIN active : active[n] = l /\ active' = RemoveAt(active, n)
  BY <1>1 DEF LeaseEnded
<1>3. /\ leases \in Seq(LeaseRecord) /\ active \in Seq(Nat)
      /\ Len(leases) \in Nat /\ DOMAIN leases = 1..Len(leases)
      /\ DOMAIN obs = 1..Top /\ DOMAIN frames = 1..Top /\ Top \in Nat \ {0}
      /\ obs \in Seq(Seq(Entry))
      /\ \A f \in DOMAIN frames : frames[f].mark \in Nat
      /\ \A f \in DOMAIN obs : obs[f] \in Seq(Entry) /\ DOMAIN obs[f] = 1..Len(obs[f])
      /\ \A f \in DOMAIN obs : \A k \in DOMAIN obs[f] : obs[f][k].lease \in Nat
  BY LeaseTypes, PopType
<1>4. /\ Top \in DOMAIN obs /\ m \in DOMAIN obs[Top] /\ m \in Nat
      /\ DOMAIN obs' = DOMAIN obs /\ obs'[Top] = Front(obs[Top])
      /\ \A f \in DOMAIN obs : f # Top => obs'[f] = obs[f]
  <2>1. Top \in DOMAIN obs /\ obs[Top] \in Seq(Entry)
    BY <1>3
  <2> QED
    BY <1>1, <1>3, <2>1, FrontType
<1>5. /\ DOMAIN Front(obs[Top]) = 1..(m - 1) /\ DOMAIN obs[Top] = DOMAIN Front(obs[Top]) \cup {m}
      /\ m \notin DOMAIN Front(obs[Top])
      /\ \A k \in DOMAIN Front(obs[Top]) : Front(obs[Top])[k] = obs[Top][k]
  <2>1. obs[Top] \in Seq(Entry)
    BY <1>3, <1>4
  <2> QED
    BY <1>1, <2>1, FrontElements
<1>6. \A f \in DOMAIN obs : \A k \in DOMAIN obs[f] : HeldInOrder(f, k)
  BY DEF LeaseDiscipline
<1>7. l \in DOMAIN leases /\ l \in Nat
  BY <1>3, <1>4, <1>6 DEF HeldInOrder, LeaseDiscipline, ActiveMarked
<1>8. /\ DOMAIN leases' = DOMAIN leases /\ Len(leases') = Len(leases)
      /\ leases'[l].status = "ended"
      /\ \A k \in DOMAIN leases : k # l => leases'[k] = leases[k]
      /\ leases'[l].parent = leases[l].parent
  <2> DEFINE e == [leases[l] EXCEPT !.status = "ended"]
  <2>1. leases[l] \in LeaseRecord
    <3>1. leases \in Seq(LeaseRecord) /\ l \in DOMAIN leases
      BY <1>3, <1>7
    <3> HIDE DEF l
    <3> QED
      BY <3>1
  <2>2. e.status = "ended" /\ e.parent = leases[l].parent /\ e \in LeaseRecord
    BY <2>1 DEF LeaseRecord
  <2>3. leases' = [leases EXCEPT ![l] = e]
    BY <1>1
  <2> HIDE DEF e, l
  <2> QED
    BY <1>3, <1>7, <2>2, <2>3
<1>9. ActiveAscends' /\ Range(active') = Range(active) \ {l}
  BY <1>2, <1>3, RemoveFromAscending DEF LeaseDiscipline, ActiveAscends
<1>10. ActiveMarked'
  BY <1>8, <1>9 DEF LeaseDiscipline, ActiveMarked
<1>11. MarksKnown'
  BY <1>1, <1>8 DEF LeaseDiscipline, MarksKnown
<1>12. ASSUME NEW f \in DOMAIN obs, NEW k \in DOMAIN obs[f], f # Top \/ k # m
       PROVE  obs[f][k].lease # l /\ k \in DOMAIN obs'[f] /\ obs'[f][k] = obs[f][k]
  <2>1. CASE f = Top
    <3>1. k < m
      BY <1>3, <1>4, <1>12, <2>1
    <3>2. obs[f][k].lease < l
      BY <1>4, <1>6, <2>1, <3>1 DEF HeldInOrder
    <3> QED
      BY <1>3, <1>4, <1>5, <1>7, <1>12, <2>1, <3>2
  <2>2. CASE f # Top
    <3>1. f < Top
      BY <1>3, <2>2
    <3>2. obs[f][k].lease <= frames[Top].mark /\ l > frames[Top].mark
      BY <1>4, <1>6, <3>1 DEF HeldInOrder
    <3>3. obs[f][k].lease \in Nat /\ frames[Top].mark \in Nat
      BY <1>3, <1>4
    <3> QED
      BY <1>4, <1>7, <2>2, <3>2, <3>3
  <2> QED
    BY <2>1, <2>2
<1>13. ActiveHeld'
  <2>1. ASSUME NEW a \in Range(active')
        PROVE  \E f \in DOMAIN obs' : \E k \in DOMAIN obs'[f] : obs'[f][k].lease = a
    <3>1. a \in Range(active) /\ a # l
      BY <1>9
    <3>2. PICK f \in DOMAIN obs : \E k \in DOMAIN obs[f] : obs[f][k].lease = a
      BY <3>1 DEF LeaseDiscipline, ActiveHeld
    <3>3. PICK k \in DOMAIN obs[f] : obs[f][k].lease = a
      BY <3>2
    <3> QED
      BY <1>4, <1>12, <3>1, <3>3
  <2> QED
    BY <2>1 DEF ActiveHeld
<1>14. ASSUME NEW f \in DOMAIN obs', NEW k \in DOMAIN obs'[f]
       PROVE  HeldInOrder(f, k)'
  <2>1. f \in DOMAIN obs /\ k \in DOMAIN obs[f] /\ (f # Top \/ k # m)
    BY <1>4, <1>5
  <2>2. HeldInOrder(f, k) /\ obs[f][k].lease # l /\ obs'[f][k] = obs[f][k]
    BY <1>6, <1>12, <2>1
  <2>3. \A j \in DOMAIN obs'[f] : j \in DOMAIN obs[f] /\ obs'[f][j] = obs[f][j]
    BY <1>4, <1>5, <2>1
  <2>4. k # 1 => obs'[f][k - 1] = obs[f][k - 1]
    <3>1. CASE f = Top
      BY <1>3, <1>4, <1>5, <2>1, <3>1
    <3>2. CASE f # Top
      BY <1>4, <2>1, <3>2
    <3> QED
      BY <3>1, <3>2
  <2>5. /\ obs[f][k].lease \in Range(active) /\ obs[f][k].lease \in DOMAIN leases
        /\ leases'[obs[f][k].lease] = leases[obs[f][k].lease]
    BY <1>8, <2>2 DEF HeldInOrder, LeaseDiscipline, ActiveMarked
  <2> QED
    BY <1>1, <1>4, <1>9, <2>2, <2>3, <2>4, <2>5 DEF HeldInOrder
<1> QED
  BY <1>9, <1>10, <1>11, <1>13, <1>14 DEF LeaseDiscipline

\* Unwinding a frame ends exactly the leases the frame opened.
LEMMA UnwindDiscipline ==
    ASSUME TypeOK, LeaseDiscipline, Unwind
    PROVE  LeaseDiscipline'
<1> DEFINE mark == frames[Top].mark
<1>1. PICK n \in 0..Len(active) :
        /\ n > 0 => active[n] <= mark
        /\ \A k \in (n + 1)..Len(active) : active[k] > mark
        /\ leases' = [l \in DOMAIN leases |->
                         IF \E k \in (n + 1)..Len(active) : active[k] = l
                         THEN [leases[l] EXCEPT !.status = "ended"] ELSE leases[l]]
        /\ active' = SubSeq(active, 1, n)
  BY DEF Unwind, abandon_leases_from
<1>2. /\ leases \in Seq(LeaseRecord) /\ active \in Seq(Nat)
      /\ Len(leases) \in Nat /\ DOMAIN leases = 1..Len(leases)
      /\ DOMAIN obs = 1..Top /\ DOMAIN frames = 1..Top /\ Top \in Nat \ {0}
      /\ obs \in Seq(Seq(Entry)) /\ frames \in Seq(Frame) /\ Len(frames) = Top /\ Len(obs) = Top
      /\ \A f \in DOMAIN frames : frames[f].mark \in Nat
      /\ \A f \in DOMAIN obs : \A k \in DOMAIN obs[f] : obs[f][k].lease \in Nat
      /\ frames # <<>> /\ obs # <<>>
  <2>1. frames # <<>>
    BY DEF Unwind
  <2>2. /\ leases \in Seq(LeaseRecord) /\ active \in Seq(Nat)
        /\ Len(leases) \in Nat /\ DOMAIN leases = 1..Len(leases)
        /\ DOMAIN obs = 1..Top /\ DOMAIN frames = 1..Top /\ Top \in Nat \ {0}
        /\ obs \in Seq(Seq(Entry)) /\ frames \in Seq(Frame) /\ Len(frames) = Top /\ Len(obs) = Top
        /\ \A f \in DOMAIN frames : frames[f].mark \in Nat
        /\ \A f \in DOMAIN obs : \A k \in DOMAIN obs[f] : obs[f][k].lease \in Nat
    BY <2>1, LeaseTypes, PopType DEF TypeOK
  <2> QED
    BY <2>1, <2>2
<1>3. /\ DOMAIN obs' = 1..(Top - 1) /\ \A f \in DOMAIN obs' : obs'[f] = obs[f]
  <2>1. DOMAIN Front(obs) = 1..(Len(obs) - 1) /\ \A f \in DOMAIN Front(obs) : Front(obs)[f] = obs[f]
    BY <1>2, FrontElements
  <2>2. obs' = Front(obs)
    BY DEF Unwind
  <2> QED
    BY <1>2, <2>1, <2>2
<1>4. /\ DOMAIN frames' = 1..(Top - 1) /\ \A f \in DOMAIN frames' : frames'[f] = frames[f]
  <2>1. /\ DOMAIN Front(frames) = 1..(Len(frames) - 1)
        /\ \A f \in DOMAIN Front(frames) : Front(frames)[f] = frames[f]
    BY <1>2, FrontElements
  <2>2. frames' = Front(frames)
    BY DEF Unwind
  <2> QED
    BY <1>2, <2>1, <2>2
<1>5. /\ n \in Nat /\ Len(active) \in Nat /\ DOMAIN active = 1..Len(active)
      /\ DOMAIN active' = 1..n /\ \A j \in 1..n : active'[j] = active[j] /\ j \in DOMAIN active
      /\ \A j \in DOMAIN active : active[j] \in Nat
      /\ mark \in Nat
  <2>1. /\ n \in Nat /\ Len(active) \in Nat /\ n <= Len(active)
        /\ DOMAIN active = 1..Len(active) /\ \A j \in DOMAIN active : active[j] \in Nat
    BY <1>2
  <2>2. active' = SubSeq(active, 1, n)
    BY <1>1
  <2>3. DOMAIN active' = 1..n /\ \A j \in 1..n : active'[j] = active[j]
    BY <1>2, <2>1, <2>2
  <2>4. \A j \in 1..n : j \in DOMAIN active
    BY <2>1
  <2>5. Top \in DOMAIN frames
    BY <1>2
  <2> QED
    BY <1>2, <2>1, <2>3, <2>4, <2>5
<1> HIDE DEF mark
<1>6. \A j \in DOMAIN active : j <= n <=> active[j] <= mark
  <2>1. ASSUME NEW j \in DOMAIN active, j <= n PROVE active[j] <= mark
    <3>1. n \in DOMAIN active /\ active[n] <= mark
      BY <1>1, <1>5, <2>1
    <3>2. j < n => active[j] < active[n]
      BY <3>1 DEF LeaseDiscipline, ActiveAscends
    <3> QED
      BY <1>5, <2>1, <3>1, <3>2
  <2>2. ASSUME NEW j \in DOMAIN active, ~(j <= n) PROVE ~(active[j] <= mark)
    <3>1. j \in (n + 1)..Len(active)
      BY <1>5, <2>2
    <3> QED
      BY <1>1, <1>5, <3>1
  <2> QED
    BY <2>1, <2>2
<1>7. Range(active') = {a \in Range(active) : a <= mark}
  <2>1. \A j \in DOMAIN active' : active'[j] = active[j] /\ j \in DOMAIN active /\ active[j] <= mark
    BY <1>5, <1>6
  <2>2. \A j \in DOMAIN active : active[j] <= mark => j \in DOMAIN active' /\ active'[j] = active[j]
    BY <1>5, <1>6
  <2> QED
    BY <2>1, <2>2 DEF Range
<1>8. ActiveAscends'
  BY <1>5 DEF LeaseDiscipline, ActiveAscends
<1>9. /\ DOMAIN leases' = DOMAIN leases /\ Len(leases') = Len(leases)
      /\ \A l \in DOMAIN leases :
            /\ l \in Range(active) /\ l > mark => leases'[l].status = "ended"
            /\ ~(l \in Range(active) /\ l > mark) => leases'[l] = leases[l]
  <2>1. \A l \in DOMAIN leases :
          (\E k \in (n + 1)..Len(active) : active[k] = l) <=> l \in Range(active) /\ l > mark
    <3>1. \A k \in DOMAIN active : k \in (n + 1)..Len(active) <=> active[k] > mark
      <4>1. \A k \in DOMAIN active : k \in (n + 1)..Len(active) <=> ~(k <= n)
        BY <1>5
      <4>2. \A k \in DOMAIN active : ~(active[k] <= mark) <=> active[k] > mark
        BY <1>5
      <4> QED
        BY <1>6, <4>1, <4>2
    <3>2. (n + 1)..Len(active) \subseteq DOMAIN active
      BY <1>5
    <3> QED
      BY <3>1, <3>2 DEF Range
  <2>2. \A l \in DOMAIN leases : [leases[l] EXCEPT !.status = "ended"].status = "ended"
    <3>1. ASSUME NEW l \in DOMAIN leases
          PROVE  [leases[l] EXCEPT !.status = "ended"].status = "ended"
      <4>1. leases[l] \in LeaseRecord
        BY <1>2
      <4> QED
        BY <4>1 DEF LeaseRecord
    <3> QED
      BY <3>1
  <2>3. DOMAIN leases' = DOMAIN leases
    BY <1>1
  <2>4. Len(leases') = Len(leases)
    BY <1>2, <2>3, UnwindType, LeaseTypes DEF TypeOK
  <2>5. ASSUME NEW l \in DOMAIN leases, l \in Range(active) /\ l > mark
        PROVE  leases'[l].status = "ended"
    <3>1. leases'[l] = [leases[l] EXCEPT !.status = "ended"]
      BY <1>1, <2>1, <2>5
    <3> QED
      BY <2>2, <3>1
  <2>6. ASSUME NEW l \in DOMAIN leases, ~(l \in Range(active) /\ l > mark)
        PROVE  leases'[l] = leases[l]
    BY <1>1, <2>1, <2>6
  <2> QED
    BY <2>3, <2>4, <2>5, <2>6
<1>10. ActiveMarked'
  <2>1. \A l \in DOMAIN leases : l <= mark <=> ~(l > mark)
    BY <1>2, <1>5
  <2> QED
    BY <1>7, <1>9, <2>1 DEF LeaseDiscipline, ActiveMarked
<1>11. MarksKnown'
  BY <1>2, <1>4, <1>9 DEF LeaseDiscipline, MarksKnown
<1>12. \A f \in DOMAIN obs : \A k \in DOMAIN obs[f] : HeldInOrder(f, k)
  BY DEF LeaseDiscipline
<1>13. ASSUME NEW a \in Range(active')
       PROVE  \E f \in DOMAIN obs' : \E k \in DOMAIN obs'[f] : obs'[f][k].lease = a
  <2>1. a \in Range(active) /\ a <= mark /\ a \in Nat
    BY <1>5, <1>7 DEF Range
  <2>2. PICK f \in DOMAIN obs : \E k \in DOMAIN obs[f] : obs[f][k].lease = a
    BY <2>1 DEF LeaseDiscipline, ActiveHeld
  <2>3. PICK k \in DOMAIN obs[f] : obs[f][k].lease = a
    BY <2>2
  <2>4. a > frames[f].mark
    BY <1>12, <2>3 DEF HeldInOrder
  <2>5. f # Top
    BY <1>5, <2>1, <2>4 DEF mark
  <2>6. f \in DOMAIN obs'
    BY <1>2, <1>3, <2>5
  <2> QED
    BY <1>3, <2>3, <2>6
<1>14. ASSUME NEW f \in DOMAIN obs', NEW k \in DOMAIN obs'[f]
       PROVE  HeldInOrder(f, k)'
  <2>1. f \in DOMAIN obs /\ f < Top /\ obs'[f] = obs[f] /\ k \in DOMAIN obs[f] /\ Top \in DOMAIN obs
    BY <1>2, <1>3
  <2>2. HeldInOrder(f, k)
    BY <1>12, <2>1
  <2>3. obs[f][k].lease <= mark /\ obs[f][k].lease \in Nat /\ obs[f][k].lease \in Range(active)
    BY <1>2, <2>1, <2>2 DEF HeldInOrder, mark
  <2>4. obs[f][k].lease \in DOMAIN leases
    BY <2>3 DEF LeaseDiscipline, ActiveMarked
  <2>5. leases'[obs[f][k].lease] = leases[obs[f][k].lease]
    BY <1>5, <1>9, <2>3, <2>4
  <2>6. DOMAIN obs' \subseteq DOMAIN obs /\ DOMAIN frames' = DOMAIN obs'
    BY <1>2, <1>3, <1>4
  <2> QED
    BY <1>4, <1>7, <2>1, <2>2, <2>3, <2>5, <2>6 DEF HeldInOrder
<1> QED
  BY <1>8, <1>10, <1>11, <1>13, <1>14 DEF LeaseDiscipline, ActiveHeld

\* The leases form one stack that the frames cut into their own: it is what
\* lets end_observe look only at the last entry and abandon_leases_from pop
\* until the frame's mark.
THEOREM LeaseStack == Spec => []LeaseDiscipline
<1>1. Init => LeaseDiscipline
  BY DEF Init, LeaseDiscipline, ActiveAscends, ActiveMarked, ActiveHeld, MarksKnown, Range
<1>2. ASSUME TypeOK, LeaseDiscipline, [Next]_vars
      PROVE  LeaseDiscipline'
  <2>1. CASE HostCall
    <3>1. FrameEntered
      BY <2>1 DEF HostCall, FrameEntered
    <3> QED
      BY <1>2, <3>1, EnterDiscipline
  <2>2. CASE Running /\ (Instruction \/ Terminator)
    <3>1. frames # <<>>
      BY <2>2 DEF Running
    <3>2. Quiet \/ LeaseBegun \/ LeaseEnded \/ FrameEntered \/ FrameLeft
      BY <1>2, <2>2, <3>1, InstructionShape, TerminatorShape
    <3> QED
      BY <1>2, <3>1, <3>2, QuietDiscipline, BeginDiscipline, EndDiscipline,
         EnterDiscipline, LeaveDiscipline
  <2>3. CASE Unwind
    BY <1>2, <2>3, UnwindDiscipline
  <2>4. CASE UNCHANGED vars
    BY <1>2, <2>4, QuietDiscipline DEF vars, Quiet
  <2> QED
    BY <1>2, <2>1, <2>2, <2>3, <2>4 DEF Next
<1> QED
  BY <1>1, <1>2, TypeCorrect, PTL DEF Spec

-----------------------------------------------------------------------------
(***************************************************************************)
(* What an active lease sees is frozen.                                    *)
(***************************************************************************)

\* What a lease sees is closed under storage for as long as it is active: the
\* handle a place transfer would take out, and the tombstone a place store
\* would fill, are then never in something the lease sees.
LeaseClosed == \A l \in Range(active) : Closed(leases[l].observed)

\* A step that leaves resource i as it is, except that unverified NIR may take
\* a scalar out of a field, or put one back.
Frozen(i) ==
    /\ i \in DOMAIN records /\ i \in DOMAIN records'
    /\ records'[i].generation = records[i].generation
    /\ records'[i].status = records[i].status
    /\ DOMAIN records'[i].fields = DOMAIN records[i].fields
    /\ \A k \in DOMAIN records[i].fields :
          \/ records'[i].fields[k] = records[i].fields[k]
          \/ {records[i].fields[k], records'[i].fields[k]} = {Scalar, Hole}
    /\ Verified => records'[i] = records[i]

\* An unchanged resource is frozen.
LEMMA SameFrozen ==
    ASSUME NEW i \in DOMAIN records, i \in DOMAIN records', records'[i] = records[i]
    PROVE  Frozen(i)
BY DEF Frozen

\* A lease keeps what it sees out of every transfer: plan_transfer looks at
\* the whole graph, commit_transfer writes to its roots.
LEMMA TransferSpares ==
    ASSUME TypeOK, NEW s \in Value, plan_transfer(s),
           NEW i \in DOMAIN records, i \in leased
    PROVE  commit_transfer(s)[i] = records[i]
<1>1. i \notin identities(s)
  BY DEF plan_transfer, reject_leased
<1>2. i \notin ids(handles(s))
  BY <1>1 DEF identities, collect_reachable, ids
<1> QED
  BY <1>2, CommitTable

\* A place transfer takes at most a scalar out of what a lease sees.
LEMMA TakesFrozen ==
    ASSUME TypeOK, NEW seen, Closed(seen), seen \subseteq leased, NEW i \in seen, Takes
    PROVE  Frozen(i)
<1>1. PICK c \in DOMAIN records : \E k \in DOMAIN records[c].fields :
        LET leaf == records[c].fields[k] IN
        /\ leaf = Scalar \/ (is_handle(leaf) /\ observe(leaf) /\ leaf.id \notin leased)
        /\ Verified => leaf # Scalar
        /\ records' = with_field(records, c, k, tombstone(leaf))
  BY DEF Takes
<1>2. PICK at, leaf :
        /\ at \in DOMAIN records[c].fields /\ leaf = records[c].fields[at]
        /\ leaf = Scalar \/ (is_handle(leaf) /\ leaf.id \notin leased)
        /\ Verified => leaf # Scalar
        /\ records' = with_field(records, c, at, tombstone(leaf))
  BY <1>1
<1>3. /\ records \in Seq(ResourceRecord) /\ records[c].fields \in Value
      /\ tombstone(leaf) \in Leaf
  BY RecordType, TombstoneLeaf DEF TypeOK
<1>4. /\ DOMAIN records' = DOMAIN records
      /\ \A j \in DOMAIN records : j # c => records'[j] = records[j]
      /\ \A j \in DOMAIN records : records'[j].generation = records[j].generation
                                   /\ records'[j].status = records[j].status
      /\ records'[c].fields = [records[c].fields EXCEPT ![at] = tombstone(leaf)]
  BY <1>2, <1>3, WithFieldTable
<1>5. i \in DOMAIN records
  BY DEF Closed
<1>6. CASE i # c
  BY <1>4, <1>5, <1>6, SameFrozen
<1>7. CASE i = c
  <2>1. leaf = Scalar
    BY <1>2, <1>7 DEF Closed
  <2>2. tombstone(leaf) = Hole /\ ~ Verified
    BY <1>2, <2>1 DEF tombstone
  <2>3. \A k \in DOMAIN records[c].fields :
          \/ records'[c].fields[k] = records[c].fields[k]
          \/ records[c].fields[k] = Scalar /\ records'[c].fields[k] = Hole
    BY <1>2, <1>3, <1>4, <2>1, <2>2
  <2> QED
    BY <1>4, <1>5, <1>7, <2>2, <2>3 DEF Frozen
<1> QED
  BY <1>6, <1>7

\* A place store puts at most a scalar back into what a lease sees.
LEMMA RefillsFrozen ==
    ASSUME TypeOK, NEW seen, Closed(seen), seen \subseteq leased, NEW i \in seen, Refills
    PROVE  Frozen(i)
<1>1. PICK s \in Value, c \in DOMAIN records : \E k \in DOMAIN records[c].fields :
        /\ plan_transfer(s) /\ Len(s) = 1
        /\ is_tombstone(records[c].fields[k])
        /\ s[1] = Scalar <=> records[c].fields[k] = Hole
        /\ Verified => s[1] # Scalar
        /\ records' = with_field(commit_transfer(s), c, k, rebuilt(s)[1])
  BY DEF Refills
<1>2. PICK at, leaf :
        /\ at \in DOMAIN records[c].fields /\ leaf = rebuilt(s)[1]
        /\ plan_transfer(s) /\ Len(s) = 1
        /\ is_tombstone(records[c].fields[at])
        /\ s[1] = Scalar <=> records[c].fields[at] = Hole
        /\ Verified => s[1] # Scalar
        /\ records' = with_field(commit_transfer(s), c, at, leaf)
  BY <1>1
<1>3. PICK recs : recs = commit_transfer(s)
  OBVIOUS
<1>4. /\ recs \in Seq(ResourceRecord) /\ DOMAIN recs = DOMAIN records
      /\ recs[c].fields = records[c].fields
  BY <1>3, CommitType, CommitTable DEF TypeOK, commit_transfer
<1>5. leaf \in Leaf /\ 1 \in DOMAIN s
  <2>1. rebuilt(s) \in Value /\ DOMAIN rebuilt(s) = DOMAIN s
    BY RebuiltType
  <2>2. 1 \in DOMAIN s
    BY <1>2 DEF Value
  <2>3. rebuilt(s)[1] \in Leaf
    BY <2>1, <2>2 DEF Value
  <2> QED
    BY <1>2, <2>2, <2>3
<1>6. /\ DOMAIN records' = DOMAIN recs
      /\ \A j \in DOMAIN recs : j # c => records'[j] = recs[j]
      /\ \A j \in DOMAIN recs : records'[j].generation = recs[j].generation
                                /\ records'[j].status = recs[j].status
      /\ records'[c].fields = [recs[c].fields EXCEPT ![at] = leaf]
  BY <1>2, <1>3, <1>4, <1>5, WithFieldTable
<1>7. i \in DOMAIN records /\ recs[i] = records[i]
  BY <1>2, <1>3, TransferSpares DEF Closed
<1>8. CASE i # c
  BY <1>4, <1>6, <1>7, <1>8, SameFrozen
<1>9. CASE i = c
  <2>1. records[c].fields[at] = Hole
    BY <1>2, <1>9 DEF Closed, is_tombstone
  <2>2. s[1] = Scalar /\ leaf = Scalar /\ ~ Verified
    BY <1>2, <1>5, <2>1 DEF rebuilt, is_handle
  <2>3. \A k \in DOMAIN records[c].fields :
          \/ records'[c].fields[k] = records[c].fields[k]
          \/ records[c].fields[k] = Hole /\ records'[c].fields[k] = Scalar
    BY <1>2, <1>4, <1>6, <2>1, <2>2
  <2> QED
    BY <1>4, <1>6, <1>7, <1>9, <2>2, <2>3 DEF Frozen
<1> QED
  BY <1>8, <1>9

\* Every step leaves what an active lease sees as it is.
LEMMA FreezeStep ==
    ASSUME TypeOK, LeaseClosed, Kind, NEW l \in Range(active), NEW i \in leases[l].observed
    PROVE  Frozen(i)
<1> DEFINE seen == leases[l].observed
<1>1. Closed(seen) /\ seen \subseteq leased /\ i \in seen /\ i \in leased
  BY DEF LeaseClosed, leased
<1>2. i \in DOMAIN records
  BY <1>1 DEF Closed
<1> HIDE DEF seen
<1>3. CASE Reads
  BY <1>2, <1>3, SameFrozen DEF Reads
<1>4. CASE Transfers
  <2>1. PICK s \in Value : plan_transfer(s) /\ records' = commit_transfer(s)
    BY <1>4 DEF Transfers
  <2>2. commit_transfer(s)[i] = records[i] /\ DOMAIN commit_transfer(s) = DOMAIN records
    BY <1>1, <1>2, <2>1, TransferSpares DEF commit_transfer
  <2> QED
    BY <1>2, <2>1, <2>2, SameFrozen
<1>5. CASE Creates
  <2>1. PICK s \in Value : plan_transfer(s) /\ records' = Append(commit_transfer(s), new_record(s))
    BY <1>5 DEF Creates
  <2>2. PICK recs : recs = commit_transfer(s)
    OBVIOUS
  <2>3. recs[i] = records[i] /\ DOMAIN recs = DOMAIN records
    BY <1>1, <1>2, <2>1, <2>2, TransferSpares DEF commit_transfer
  <2>4. recs \in Seq(ResourceRecord)
    BY <2>2, CommitType DEF TypeOK
  <2>5. PICK r : r = new_record(s)
    OBVIOUS
  <2>6. records' = Append(recs, r)
    BY <2>1, <2>2, <2>5
  <2>7. i \in DOMAIN records' /\ records'[i] = recs[i]
    BY <1>2, <2>3, <2>4, <2>6
  <2> QED
    BY <1>2, <2>3, <2>7, SameFrozen
<1>6. CASE Drops
  <2>1. PICK s \in Value :
          /\ reject_leased(s)
          /\ records' = [j \in DOMAIN records |->
                            IF j \in identities(s)
                            THEN [records[j] EXCEPT !.status = "dropped"]
                            ELSE records[j]]
    BY <1>6 DEF Drops
  <2>2. i \notin identities(s)
    BY <1>1, <2>1 DEF reject_leased
  <2> QED
    BY <1>2, <2>1, <2>2, SameFrozen
<1>7. CASE Takes
  BY <1>1, <1>7, TakesFrozen
<1>8. CASE Refills
  BY <1>1, <1>8, RefillsFrozen
<1> QED
  BY <1>3, <1>4, <1>5, <1>6, <1>7, <1>8 DEF Kind

\* What was closed and is frozen is closed.
LEMMA ClosedKept ==
    ASSUME NEW seen, Closed(seen), \A i \in seen : Frozen(i)
    PROVE  Closed(seen)'
<1>1. ASSUME NEW i \in seen, NEW k \in DOMAIN records'[i].fields
      PROVE  /\ records'[i].fields[k] # Moved
             /\ is_handle(records'[i].fields[k]) => records'[i].fields[k].id \in seen
  <2>1. k \in DOMAIN records[i].fields
    BY <1>1 DEF Frozen
  <2>2. CASE records'[i].fields[k] = records[i].fields[k]
    BY <2>1, <2>2 DEF Closed
  <2>3. CASE records'[i].fields[k] \in {Scalar, Hole}
    BY <2>3, LeafAssumption DEF is_handle
  <2> QED
    BY <2>1, <2>2, <2>3 DEF Frozen
<1> QED
  BY <1>1 DEF Closed, Frozen


\* The leases that are active after a step: those that were, seeing what they
\* saw, and one just opened, which sees resources the step leaves alone.
LEMMA LeasesAfter ==
    ASSUME TypeOK, LeaseDiscipline, [Next]_vars, NEW l \in Range(active')
    PROVE  \/ l \in Range(active) /\ leases'[l].observed = leases[l].observed
           \/ /\ records' = records /\ Closed(leases'[l].observed)
              /\ l \notin DOMAIN leases
<1>1. /\ leases \in Seq(LeaseRecord) /\ active \in Seq(Nat)
      /\ Len(leases) \in Nat /\ DOMAIN leases = 1..Len(leases)
      /\ \A k \in DOMAIN leases : leases[k] \in LeaseRecord
  BY DEF TypeOK
<1>2. Range(active) \subseteq DOMAIN leases
  BY DEF LeaseDiscipline, ActiveMarked
<1>3. \A k \in DOMAIN leases : [leases[k] EXCEPT !.status = "ended"].observed = leases[k].observed
  <2>1. ASSUME NEW k \in DOMAIN leases
        PROVE  [leases[k] EXCEPT !.status = "ended"].observed = leases[k].observed
    <3>1. leases[k] \in LeaseRecord
      BY <1>1
    <3> QED
      BY <3>1 DEF LeaseRecord
  <2> QED
    BY <2>1
<1>4. CASE UNCHANGED <<leases, active>>
  BY <1>4
<1>5. CASE LeaseBegun
  <2>1. PICK seen : /\ Closed(seen)
                    /\ \E r : leases' = Append(leases, r) /\ r.observed = seen
    BY <1>5 DEF LeaseBegun
  <2>2. PICK r : leases' = Append(leases, r) /\ r.observed = seen
    BY <2>1
  <2>3. \A k \in DOMAIN leases : leases'[k] = leases[k]
    BY <1>1, <2>2
  <2>4. leases'[Len(leases) + 1] = r
    BY <1>1, <2>2
  <2>5. active' = Append(active, Len(leases) + 1) /\ records' = records
    BY <1>5 DEF LeaseBegun
  <2>6. l \in Range(active) \/ l = Len(leases) + 1
    <3>1. PICK n \in DOMAIN active' : active'[n] = l
      BY DEF Range
    <3>2. (n \in DOMAIN active /\ active'[n] = active[n]) \/ active'[n] = Len(leases) + 1
      BY <1>1, <2>5, <3>1
    <3> QED
      BY <3>1, <3>2 DEF Range
  <2>7. Len(leases) + 1 \notin DOMAIN leases
    BY <1>1
  <2> QED
    BY <1>2, <2>1, <2>2, <2>3, <2>4, <2>5, <2>6, <2>7
<1>6. CASE frames # <<>> /\ LeaseEnded
  <2>1. PICK m : m = TopLease
    OBVIOUS
  <2>2. leases' = [leases EXCEPT ![m].status = "ended"]
    BY <1>6, <2>1 DEF LeaseEnded
  <2>3. PICK n \in DOMAIN active : active' = RemoveAt(active, n)
    BY <1>6 DEF LeaseEnded
  <2>4. l \in Range(active)
    BY <1>1, <2>3, RemoveFromAscending DEF LeaseDiscipline, ActiveAscends
  <2>5. \A k \in DOMAIN leases : leases'[k].observed = leases[k].observed
    <3>1. ASSUME NEW k \in DOMAIN leases
          PROVE  leases'[k] = leases[k] \/ leases'[k] = [leases[k] EXCEPT !.status = "ended"]
      BY <1>1, <2>2
    <3> QED
      BY <1>3, <3>1
  <2> QED
    BY <1>2, <2>4, <2>5
<1>7. CASE Unwind
  <2>1. PICK n \in 0..Len(active) :
          /\ leases' = [k \in DOMAIN leases |->
                           IF \E j \in (n + 1)..Len(active) : active[j] = k
                           THEN [leases[k] EXCEPT !.status = "ended"] ELSE leases[k]]
          /\ active' = SubSeq(active, 1, n)
    BY <1>7 DEF Unwind, abandon_leases_from
  <2>2. \A k \in DOMAIN leases : leases'[k].observed = leases[k].observed
    BY <1>3, <2>1
  <2>3. DOMAIN active' = 1..n /\ \A j \in 1..n : j \in DOMAIN active /\ active'[j] = active[j]
    BY <1>1, <2>1
  <2>4. l \in Range(active)
    BY <2>3 DEF Range
  <2> QED
    BY <1>2, <2>2, <2>4
<1>8. CASE HostCall
  BY <1>4, <1>8 DEF HostCall
<1>9. CASE Running /\ (Instruction \/ Terminator)
  <2>1. frames # <<>>
    BY <1>9 DEF Running
  <2>2. Quiet \/ LeaseBegun \/ LeaseEnded \/ FrameEntered \/ FrameLeft
    BY <1>9, <2>1, InstructionShape, TerminatorShape
  <2> QED
    BY <1>4, <1>5, <1>6, <2>1, <2>2 DEF Quiet, FrameEntered, FrameLeft
<1> QED
  BY <1>4, <1>7, <1>8, <1>9 DEF Next, vars

\* Nothing a lease sees is taken out of what it sees.
LEMMA LeaseClosedInvariant == Spec => []LeaseClosed
<1>1. Init => LeaseClosed
  BY DEF Init, LeaseClosed, Range
<1>2. ASSUME TypeOK, OwnerInv, LeaseDiscipline, LeaseClosed, [Next]_vars
      PROVE  LeaseClosed'
  <2>1. Kind
    BY <1>2, StepKind DEF OwnerInv
  <2>2. ASSUME NEW l \in Range(active'), NEW seen, seen = leases'[l].observed
        PROVE  Closed(seen)'
    <3>1. CASE l \in Range(active) /\ seen = leases[l].observed
      <4>1. Closed(seen) /\ \A i \in seen : Frozen(i)
        BY <1>2, <2>1, <3>1, FreezeStep DEF LeaseClosed
      <4> QED
        BY <4>1, ClosedKept
    <3>2. CASE records' = records /\ Closed(seen)
      BY <3>2 DEF Closed
    <3> QED
      BY <1>2, <2>2, <3>1, <3>2, LeasesAfter
  <2> QED
    BY <2>2 DEF LeaseClosed
<1> QED
  BY <1>1, <1>2, TypeCorrect, OwnerInvariant, LeaseStack, PTL DEF Spec

\* No lease is forgotten.
LEMMA LeasesGrow ==
    ASSUME TypeOK, [Next]_vars
    PROVE  DOMAIN leases \subseteq DOMAIN leases'
<1>1. leases \in Seq(LeaseRecord) /\ Len(leases) \in Nat /\ DOMAIN leases = 1..Len(leases)
  BY DEF TypeOK
<1>2. CASE UNCHANGED leases
  BY <1>2
<1>3. CASE LeaseBegun
  <2>1. PICK r : leases' = Append(leases, r)
    BY <1>3 DEF LeaseBegun
  <2> QED
    BY <1>1, <2>1
<1>4. CASE LeaseEnded
  BY <1>4 DEF LeaseEnded
<1>5. CASE Unwind
  BY <1>5 DEF Unwind, abandon_leases_from
<1>6. CASE HostCall
  BY <1>2, <1>6 DEF HostCall
<1>7. CASE Running /\ (Instruction \/ Terminator)
  <2>1. Quiet \/ LeaseBegun \/ LeaseEnded \/ FrameEntered \/ FrameLeft
    BY <1>7, InstructionShape, TerminatorShape DEF Running
  <2> QED
    BY <1>2, <1>3, <1>4, <2>1 DEF Quiet, FrameEntered, FrameLeft
<1> QED
  BY <1>2, <1>5, <1>6, <1>7 DEF Next, vars

\* A handle under an active lease names a live resource the lease sees, of the
\* generation it has.
LeaseSees(h) ==
    h.lease # 0 =>
        /\ h.lease \in DOMAIN leases
        /\ h.lease \in Range(active) =>
              h.id \in leases[h.lease].observed /\ h.id \in Alive /\ current(h)

LeasesSee == \A f, h : FrameHas(f, h) => LeaseSees(h)

\* What every kind of step gives away is under no lease.
LEMMA GivenUnleased ==
    ASSUME TypeOK, HandlesKnown, Kind
    PROVE  \E new, dest : Provenance(new, dest) /\ \A h \in new : h.lease = 0
<1>1. CASE Reads \/ Drops \/ Refills
  BY <1>1 DEF Reads, Drops, Refills
<1>2. CASE Transfers
  <2>1. PICK s \in Value, dest \in Nat : Provenance(handles(rebuilt(s)), dest)
    BY <1>2 DEF Transfers
  <2> QED
    BY <2>1, RebuiltHandles
<1>3. CASE Creates
  BY <1>3 DEF Creates, new_handle
<1>4. CASE Takes
  <2>1. PICK i \in DOMAIN records : \E k \in DOMAIN records[i].fields :
          Provenance(handles(<<records[i].fields[k]>>), Top)
    BY <1>4 DEF Takes
  <2>2. PICK k \in DOMAIN records[i].fields : Provenance(handles(<<records[i].fields[k]>>), Top)
    BY <2>1
  <2>3. PICK leaf : leaf = records[i].fields[k]
    OBVIOUS
  <2>4. records[i].fields \in Value /\ leaf \in Leaf
    BY <2>3, RecordType DEF Value
  <2>5. ASSUME NEW h \in handles(<<leaf>>) PROVE h.lease = 0
    <3>1. h = leaf /\ is_handle(leaf)
      BY <2>4, OneHandle
    <3>2. Stores(i, h)
      BY <2>3, <2>4, <3>1, HandleAt DEF Stores
    <3> QED
      BY <3>2 DEF HandlesKnown, Known
  <2> QED
    BY <2>2, <2>3, <2>5
<1> QED
  BY <1>1, <1>2, <1>3, <1>4 DEF Kind

\* A step keeps live what its lease still sees.
LEMMA LeaseSeesStep ==
    ASSUME TypeOK, OwnerInv, LeaseDiscipline, LeaseClosed, [Next]_vars, NEW h,
           h.lease \in DOMAIN leases, h.lease \in Range(active'),
           h.lease \in Range(active) =>
              h.id \in leases[h.lease].observed /\ h.id \in Alive /\ current(h)
    PROVE  h.id \in leases'[h.lease].observed /\ h.id \in Alive' /\ current(h)'
<1>1. h.lease \in Range(active) /\ leases'[h.lease].observed = leases[h.lease].observed
  BY LeasesAfter
<1>2. h.id \in leases[h.lease].observed /\ h.id \in Alive /\ current(h)
  BY <1>1
<1>3. Kind
  BY StepKind DEF OwnerInv
<1>4. Frozen(h.id)
  BY <1>1, <1>2, <1>3, FreezeStep
<1> QED
  BY <1>1, <1>2, <1>4 DEF Frozen, Alive, current

\* What is shown under a lease stays live as long as the lease is active.
LEMMA LeasesSeeInvariant == Spec => []LeasesSee
<1>1. Init => LeasesSee
  BY DEF Init, LeasesSee, FrameHas
<1>2. ASSUME TypeOK, OwnerInv, LeaseDiscipline, LeaseClosed, LeasesSee, [Next]_vars,
             NEW f, NEW h, FrameHas(f, h)'
      PROVE  LeaseSees(h)'
  <2>0. SUFFICES ASSUME h.lease # 0 PROVE LeaseSees(h)'
    BY DEF LeaseSees
  <2>1. HandlesKnown /\ Kind /\ DOMAIN leases \subseteq DOMAIN leases'
    BY <1>2, StepKind, LeasesGrow DEF OwnerInv
  <2>2. PICK new, dest : Provenance(new, dest) /\ \A g \in new : g.lease = 0
    BY <1>2, <2>1, GivenUnleased
  <2>3. FrameHas(f, h) \/ Viewed(h)
    BY <1>2, <2>0, <2>2 DEF Provenance, FrameHas
  <2>4. CASE FrameHas(f, h)
    <3>1. LeaseSees(h)
      BY <1>2, <2>4 DEF LeasesSee
    <3> QED
      BY <1>2, <2>0, <2>1, <3>1, LeaseSeesStep DEF LeaseSees
  <2>5. CASE Viewed(h)
    <3>1. h.id \in Alive /\ current(h)
      BY <2>0, <2>5 DEF Viewed
    <3>2. CASE \E g : /\ FrameHas(Top, g) /\ g.lease = h.lease
                      /\ \A seen : Closed(seen) /\ g.id \in seen => h.id \in seen
      <4>1. PICK g : /\ FrameHas(Top, g) /\ g.lease = h.lease
                     /\ \A seen : Closed(seen) /\ g.id \in seen => h.id \in seen
        BY <3>2
      <4>2. LeaseSees(g)
        BY <1>2, <4>1 DEF LeasesSee
      <4>3. h.lease \in DOMAIN leases
        BY <2>0, <4>1, <4>2 DEF LeaseSees
      <4>4. h.lease \in Range(active) => h.id \in leases[h.lease].observed
        BY <1>2, <2>0, <4>1, <4>2 DEF LeaseSees, LeaseClosed
      <4> QED
        BY <1>2, <2>1, <3>1, <4>3, <4>4, LeaseSeesStep DEF LeaseSees
    <3>3. CASE /\ h.lease \notin DOMAIN leases /\ h.lease \in DOMAIN leases'
               /\ h.id \in leases'[h.lease].observed
      <4>1. ASSUME h.lease \in Range(active') PROVE records' = records
        <5>1. h.lease \notin Range(active)
          BY <1>2, <3>3 DEF LeaseDiscipline, ActiveMarked
        <5> QED
          BY <1>2, <4>1, <5>1, LeasesAfter
      <4> QED
        BY <3>1, <3>3, <4>1 DEF LeaseSees, Alive, current
    <3> QED
      BY <2>0, <2>5, <3>2, <3>3 DEF Viewed
  <2> QED
    BY <2>3, <2>4, <2>5
<1>3. TypeOK /\ OwnerInv /\ LeaseDiscipline /\ LeaseClosed /\ LeasesSee /\ [Next]_vars => LeasesSee'
  BY <1>2 DEF LeasesSee
<1> QED
  BY <1>1, <1>3, TypeCorrect, OwnerInvariant, LeaseStack, LeaseClosedInvariant, PTL DEF Spec

\* For every NIR module, verified or not: while a lease is active, nothing it
\* sees is transferred, destroyed, or loses a resource stored in it
\* (active_lease_holding, reject_leased_value, begin_observe).
THEOREM LeaseFreezes == Spec => LeaseFreeze
<1>1. ASSUME TypeOK, OwnerInv, LeaseClosed, [Next]_vars, NEW l \in Range(active),
             NEW i \in leases[l].observed
      PROVE  /\ records'[i].generation = records[i].generation
             /\ records'[i].status = records[i].status
             /\ \A k \in DOMAIN records[i].fields :
                   is_handle(records[i].fields[k]) =>
                       records'[i].fields[k] = records[i].fields[k]
  <2>1. Frozen(i)
    BY <1>1, StepKind, FreezeStep DEF OwnerInv
  <2>2. ~ is_handle(Scalar) /\ ~ is_handle(Hole)
    BY DEF is_handle
  <2>3. ASSUME NEW k \in DOMAIN records[i].fields, is_handle(records[i].fields[k])
        PROVE  records'[i].fields[k] = records[i].fields[k]
    <3>1. \/ records'[i].fields[k] = records[i].fields[k]
          \/ records[i].fields[k] \in {Scalar, Hole}
      BY <2>1 DEF Frozen
    <3> QED
      BY <2>2, <2>3, <3>1
  <2> QED
    BY <2>1, <2>3 DEF Frozen
<1>2. TypeOK /\ OwnerInv /\ LeaseClosed /\ [Next]_vars =>
        \A l \in Range(active) \cap Range(active') : \A i \in leases[l].observed :
          /\ records'[i].generation = records[i].generation
          /\ records'[i].status = records[i].status
          /\ \A k \in DOMAIN records[i].fields :
                is_handle(records[i].fields[k]) =>
                    records'[i].fields[k] = records[i].fields[k]
  BY <1>1
<1> QED
  BY <1>2, TypeCorrect, OwnerInvariant, LeaseClosedInvariant, PTL DEF Spec, LeaseFreeze

\* For NIR that passed nir::verify, an active lease blocks every operation on
\* what it holds: not even a scalar field changes.
THEOREM LeaseBlocks ==
    ASSUME Verified
    PROVE  Spec => LeaseBlocksEveryOperation
<1>1. ASSUME TypeOK, OwnerInv, LeaseClosed, [Next]_vars, NEW l \in Range(active),
             NEW i \in leases[l].observed
      PROVE  records'[i] = records[i]
  BY <1>1, StepKind, FreezeStep DEF OwnerInv, Frozen
<1>2. TypeOK /\ OwnerInv /\ LeaseClosed /\ [Next]_vars =>
        \A l \in Range(active) \cap Range(active') : \A i \in leases[l].observed :
          records'[i] = records[i]
  BY <1>1
<1> QED
  BY <1>2, TypeCorrect, OwnerInvariant, LeaseClosedInvariant, PTL
     DEF Spec, LeaseBlocksEveryOperation

=============================================================================
