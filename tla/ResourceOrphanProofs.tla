------------------------ MODULE ResourceOrphanProofs ------------------------
(***************************************************************************)
(* No resource is lost in ResourceRuntime while the module is one          *)
(* nir::verify accepts and the execution has not failed: with              *)
(* ResourceOwnerProofs, every live resource has exactly one owner.         *)
(*                                                                         *)
(* An instruction overwrites value ids without looking at what becomes of  *)
(* the handles in them.  Each of them is safe for its own reason: the id   *)
(* owns nothing live but what the instruction moves (owns_a_live_resource, *)
(* leaked_resource), a Load's copy has its original in another id          *)
(* (LoadCopies), the result slot of a call in progress stays empty         *)
(* (ReturnSlotsFree), an observing parameter never owned anything          *)
(* (ObservingSees).                                                        *)
(*                                                                         *)
(* Nothing an observer sees is lost either: what a lease shows is frozen   *)
(* (LeasesSee), and what a call's observing parameters show is sealed off  *)
(* from the frames that could move or destroy it (Sealed).                 *)
(***************************************************************************)
EXTENDS ResourceLeaseProofs

-----------------------------------------------------------------------------
(***************************************************************************)
(* What is reachable.                                                      *)
(***************************************************************************)

\* What a value reaches is known.
LEMMA ReachableKnown ==
    ASSUME TypeOK, HandlesKnown, NEW s, NEW h \in below(handles(s))
    PROVE  Known(h) /\ h.role = "owner" /\ \E j : Stores(j, h)
<1>1. h \in stored_handles
  BY DEF below
<1>2. \E j : Stores(j, h)
  BY <1>1 DEF stored_handles, Stores
<1> QED
  BY <1>2 DEF HandlesKnown

\* What is nested in a value that crosses is owned by its container.
LEMMA NestedIsStored ==
    ASSUME TypeOK, OwnerInv, DeadBelowDead, NEW s \in Value, collect_owned_identities(s),
           NEW i \in Alive, i \in identities(s), i \notin ids(handles(s))
    PROVE  \E j : FieldOwns(j, i)
<1>1. PICK g \in collect_reachable(s) : g.id = i
  BY DEF identities, ids
<1>2. g \in below(handles(s)) /\ record(g)
  BY <1>1 DEF collect_reachable, ids, collect_owned_identities
<1>3. PICK h \in handles(s) \cup below(handles(s)) : g \in children(h)
  BY <1>2, BelowParent
<1>4. record(h) /\ g \in handles(records[h.id].fields) /\ h.id \in DOMAIN records
  BY <1>3 DEF children, fields, record
<1>5. current(g)
  BY <1>2 DEF record, current
<1>6. records[i].status = "alive"
  BY DEF Alive
<1>7. records[h.id].status = "alive"
  <2>1. records[h.id].status # "dropped"
    BY <1>1, <1>4, <1>5, <1>6 DEF DeadBelowDead
  <2> QED
    BY <1>4, <2>1, RecordType
<1> QED
  BY <1>1, <1>4, <1>5, <1>7 DEF FieldOwns, Stores

\* So a frame that owns something that crosses hands it over itself.
LEMMA ExitingIsHanded ==
    ASSUME TypeOK, OwnerInv, DeadBelowDead, NEW s \in Value, collect_owned_identities(s),
           NEW i \in Alive, NEW f, FrameOwns(f, i), i \in identities(s)
    PROVE  i \in ids(handles(s))
<1> SUFFICES ASSUME i \notin ids(handles(s)) PROVE FALSE
  OBVIOUS
<1>1. PICK j : FieldOwns(j, i)
  BY NestedIsStored
<1>2. Owns(<<"frame", f>>, i) /\ Owns(<<"field", j>>, i)
  BY <1>1 DEF Owns
<1>3. <<"frame", f>> = <<"field", j>>
  BY <1>2 DEF OwnerInv, OneOwner
<1> QED
  BY <1>3

-----------------------------------------------------------------------------
(***************************************************************************)
(* The invariant.                                                          *)
(***************************************************************************)

\* Value v of frame f holds a current owner of resource i.
OwnsAt(f, v, i) ==
    /\ f \in DOMAIN vals /\ v \in Vals
    /\ \E h \in handles(vals[f][v]) : h.role = "owner" /\ h.id = i /\ current(h)

\* The value ids that are not the results of Loads.
Originals == Vals \ Loads

\* What a Load's result owns, another value of the frame owns too.
LoadCopies ==
    \A f, x, i : i \in Alive /\ x \in Loads /\ OwnsAt(f, x, i) =>
        \E v \in Originals : OwnsAt(f, v, i)

FreeSlot(f, v) == v \in Temps \cup Slots /\ \A i \in Alive : ~ OwnsAt(f, v, i)

\* Where a call in progress will put its result, nothing live is overwritten.
ReturnSlotsFree ==
    \A f \in DOMAIN frames : f > 1 =>
        /\ FreeSlot(f - 1, frames[f].ok)
        /\ frames[f].err # Absent => FreeSlot(f - 1, frames[f].err)

\* leaked_resource skips the observing parameters: they own nothing.
ObservingSees ==
    \A f \in DOMAIN frames : \A v \in frames[f].observing : \A h \in handles(vals[f][v]) :
        h.role = "observer"

\* Every live resource has an owner.
Owned == \A i \in Alive : \E p : Owns(p, i)

Accounted == LoadCopies /\ ReturnSlotsFree /\ ObservingSees /\ Owned

\* The execution of a verified module has not failed.
Going == Verified /\ ~ failing /\ ~ terminated

\* The observing parameters of the frames that stay hold nothing new.
Loses ==
    \A f \in DOMAIN frames \cap DOMAIN frames' :
        /\ frames'[f].observing = frames[f].observing
        /\ \A v \in frames[f].observing : handles(vals'[f][v]) \subseteq handles(vals[f][v])

\* What a step of an execution that goes on keeps.
Keeps == Accounted' /\ Loses

OrphanInv == DeadBelowDead /\ (Going => Accounted)

\* A handle that owns something live may be observed.
LEMMA LiveObserved ==
    ASSUME HandlesKnown, NEW f, NEW h, FrameHas(f, h), h.role = "owner", current(h), h.id \in Alive
    PROVE  observe(h) /\ record(h)
BY DEF HandlesKnown, Known, observe, record, current, Alive

\* A frame that owns something live owns it in a value that is no Load.
LEMMA OwnsOriginal ==
    ASSUME LoadCopies, NEW f, NEW i \in Alive, FrameOwns(f, i)
    PROVE  \E v \in Originals : OwnsAt(f, v, i)
<1>1. PICK v \in Vals : OwnsAt(f, v, i)
  BY DEF FrameOwns, FrameHas, OwnsAt
<1> QED
  BY <1>1 DEF LoadCopies, Originals

\* A value that owns nothing live but what crosses.
LEMMA LiveExits ==
    ASSUME HandlesKnown, NEW f, NEW s, NEW exiting, ~ owns_a_live_resource(s, exiting),
           NEW h \in handles(s), FrameHas(f, h), h.role = "owner", current(h), h.id \in Alive
    PROVE  h.id \in exiting
<1>1. observe(h) /\ record(h)
  BY LiveObserved
<1>2. h \in {h} \cup below({h})
  OBVIOUS
<1> QED
  BY <1>1, <1>2 DEF owns_a_live_resource

\* What a step that destroys nothing does to the tables of the dead.
LEMMA DeadKept ==
    ASSUME TypeOK, TypeOK', HandlesKnown, DeadBelowDead, Grows,
           \A j, h : Stores(j, h)' /\ records'[j].status = "dropped" =>
                        Stores(j, h) /\ records[j].status = "dropped",
           \A i \in DOMAIN records : records[i].status = "dropped" => records'[i].status = "dropped"
    PROVE  DeadBelowDead'
<1>1. ASSUME NEW j \in DOMAIN records', NEW h \in handles(records'[j].fields),
             records'[j].status = "dropped", current(h)'
      PROVE  records'[h.id].status = "dropped"
  <2>1. Stores(j, h)'
    BY <1>1 DEF Stores
  <2>2. Stores(j, h) /\ records[j].status = "dropped"
    BY <1>1, <2>1
  <2>3. current(h) /\ h.id \in DOMAIN records
    BY <1>1, <2>2, CurrentBefore DEF HandlesKnown
  <2>4. records[h.id].status = "dropped"
    BY <2>2, <2>3 DEF DeadBelowDead, Stores
  <2> QED
    BY <2>3, <2>4
<1> QED
  BY <1>1 DEF DeadBelowDead

\* What is stored in something a Drop destroys is destroyed with it.
LEMMA DropsNested ==
    ASSUME TypeOK, NEW s \in Value, plan_drop(s), NEW j \in identities(s), NEW h, Stores(j, h)
    PROVE  h.id \in identities(s)
<1>1. PICK g \in collect_reachable(s) : g.id = j
  BY DEF identities, ids
<1>2. record(g)
  BY <1>1 DEF plan_drop, observe
<1>3. h \in children(g)
  BY <1>1, <1>2 DEF children, fields, Stores
<1>4. h \in collect_reachable(s)
  BY <1>1, <1>3, BelowClosed DEF collect_reachable
<1> QED
  BY <1>4 DEF identities, ids

\* Every step keeps what is below the dead dead.
LEMMA DeadStep ==
    ASSUME TypeOK, TypeOK', HandlesKnown, DeadBelowDead, Kind
    PROVE  DeadBelowDead'
<1>1. CASE Reads
  BY <1>1 DEF Reads, DeadBelowDead, current
<1>2. CASE Transfers
  <2>1. PICK s \in Value : plan_transfer(s) /\ records' = commit_transfer(s)
    BY <1>2 DEF Transfers
  <2>2. DOMAIN records' = DOMAIN records
    BY <2>1 DEF commit_transfer
  <2>3. \A i \in DOMAIN records : /\ records'[i].fields = records[i].fields
                                  /\ records'[i].status = records[i].status
                                  /\ records[i].generation <= records'[i].generation
    BY <2>1, <2>2, CommitTable, CommitGrows
  <2> QED
    BY <2>2, <2>3, DeadKept DEF Grows, Stores
<1>3. CASE Creates
  <2>1. PICK s \in Value :
          plan_transfer(s) /\ records' = Append(commit_transfer(s), new_record(s))
    BY <1>3 DEF Creates
  <2>2. /\ commit_transfer(s) \in Seq(ResourceRecord) /\ Len(records) \in Nat
        /\ Len(commit_transfer(s)) = Len(records) /\ DOMAIN records = 1..Len(records)
    BY CommitType DEF TypeOK
  <2>3. PICK n : n = Len(records) + 1
    OBVIOUS
  <2>4. /\ n \notin DOMAIN records /\ DOMAIN records' = DOMAIN records \cup {n}
        /\ \A i \in DOMAIN records : records'[i] = commit_transfer(s)[i]
        /\ records'[n] = new_record(s)
    BY <2>1, <2>3, CreateTable
  <2>5. records'[n].status = "alive"
    BY <2>4 DEF new_record
  <2>6. \A i \in DOMAIN records : /\ records'[i].fields = records[i].fields
                                  /\ records'[i].status = records[i].status
                                  /\ records[i].generation <= records'[i].generation
    BY <2>1, <2>4, CommitTable, CommitGrows
  <2> QED
    BY <2>4, <2>5, <2>6, DeadKept DEF Grows, Stores
<1>4. CASE Drops
  <2>1. PICK s \in Value :
          /\ plan_drop(s)
          /\ records' = [i \in DOMAIN records |->
                            IF i \in identities(s)
                            THEN [records[i] EXCEPT !.status = "dropped"]
                            ELSE records[i]]
    BY <1>4 DEF Drops
  <2>2. /\ DOMAIN records' = DOMAIN records
        /\ \A i \in DOMAIN records :
              /\ records'[i].fields = records[i].fields
              /\ records'[i].generation = records[i].generation
              /\ records'[i].status = IF i \in identities(s) THEN "dropped"
                                      ELSE records[i].status
    BY <2>1, DropTable
  <2>3. ASSUME NEW j \in DOMAIN records', NEW h \in handles(records'[j].fields),
               records'[j].status = "dropped", current(h)'
        PROVE  records'[h.id].status = "dropped"
    <3>1. Stores(j, h) /\ j \in DOMAIN records
      BY <2>2, <2>3 DEF Stores
    <3>2. h.id \in DOMAIN records
      BY <3>1 DEF HandlesKnown, Known
    <3>3. CASE j \in identities(s)
      BY <2>1, <2>2, <3>1, <3>2, <3>3, DropsNested
    <3>4. CASE j \notin identities(s)
      <4>1. records[j].status = "dropped" /\ current(h)
        BY <2>2, <2>3, <3>1, <3>2, <3>4 DEF current
      <4>2. records[h.id].status = "dropped"
        BY <3>1, <4>1 DEF DeadBelowDead, Stores
      <4> QED
        BY <2>2, <3>2, <4>2
    <3> QED
      BY <3>3, <3>4
  <2> QED
    BY <2>3 DEF DeadBelowDead
<1>5. CASE Takes
  <2>1. PICK c, at, leaf :
          /\ c \in DOMAIN records
          /\ at \in DOMAIN records[c].fields /\ records[c].status = "alive"
          /\ records' = with_field(records, c, at, tombstone(leaf))
    BY <1>5 DEF Takes
  <2>2. records \in Seq(ResourceRecord) /\ tombstone(leaf) \in Leaf
    BY TombstoneLeaf DEF TypeOK
  <2>3. /\ DOMAIN records' = DOMAIN records
        /\ \A j \in DOMAIN records : j # c => records'[j] = records[j]
        /\ \A j \in DOMAIN records : records'[j].generation = records[j].generation
                                     /\ records'[j].status = records[j].status
        /\ records'[c].fields = [records[c].fields EXCEPT ![at] = tombstone(leaf)]
    BY <2>1, <2>2, WithFieldTable
  <2>4. Grows
    BY <2>3, RecordType DEF Grows
  <2> QED
    BY <2>1, <2>3, <2>4, DeadKept DEF Stores
<1>6. CASE Refills
  <2>1. PICK s, c, at :
          /\ s \in Value /\ c \in DOMAIN records
          /\ at \in DOMAIN records[c].fields /\ records[c].status = "alive"
          /\ plan_transfer(s) /\ Len(s) = 1
          /\ records' = with_field(commit_transfer(s), c, at, rebuilt(s)[1])
    BY <1>6 DEF Refills
  <2>2. /\ commit_transfer(s) \in Seq(ResourceRecord) /\ DOMAIN commit_transfer(s) = DOMAIN records
        /\ at \in DOMAIN commit_transfer(s)[c].fields
    BY <2>1, CommitType, CommitTable DEF TypeOK
  <2>3. rebuilt(s)[1] \in Leaf
    <3>1. rebuilt(s) \in Value /\ DOMAIN rebuilt(s) = DOMAIN s /\ 1 \in DOMAIN s
      BY <2>1, RebuiltType DEF Value
    <3> QED
      BY <3>1 DEF Value
  <2>4. /\ DOMAIN records' = DOMAIN records
        /\ \A j \in DOMAIN records : j # c => records'[j] = commit_transfer(s)[j]
        /\ \A j \in DOMAIN records : records'[j].generation = commit_transfer(s)[j].generation
                                     /\ records'[j].status = commit_transfer(s)[j].status
        /\ records'[c].fields = [commit_transfer(s)[c].fields EXCEPT ![at] = rebuilt(s)[1]]
    BY <2>1, <2>2, <2>3, WithFieldTable
  <2>5. \A j \in DOMAIN records : /\ j # c => records'[j].fields = records[j].fields
                                  /\ records'[j].status = records[j].status
                                  /\ records[j].generation <= records'[j].generation
    BY <2>1, <2>4, CommitTable, CommitGrows
  <2> QED
    BY <2>1, <2>4, <2>5, DeadKept DEF Grows, Stores
<1> QED
  BY <1>1, <1>2, <1>3, <1>4, <1>5, <1>6 DEF Kind

-----------------------------------------------------------------------------
(***************************************************************************)
(* An instruction that rewrites the values of the running frame.           *)
(***************************************************************************)

\* The frame's values become g: what they owned is still there, X excepted; a
\* Load's result is what it was or a copy; no observing parameter gains.
Edits(g, X) ==
    /\ g \in [Vals -> Value] /\ vals' = [vals EXCEPT ![Top] = g]
    /\ frames' = frames /\ host' = host
    /\ \A u \in Originals : \A h \in handles(V(u)) :
          h.role = "owner" /\ observe(h) /\ h.id \notin X => \E w \in Originals : h \in handles(g[w])
    /\ \A x \in Loads : \A h \in handles(g[x]) :
          h \in handles(V(x)) \/ \E w \in Originals : h \in handles(g[w])
    /\ \A v \in frames[Top].observing : handles(g[v]) \subseteq handles(V(v))

\* Nothing comes back to life.
StaysDead ==
    \A i \in DOMAIN records : records'[i].status = "alive" => records[i].status = "alive"

\* Frames below the running one: what they own live they owned live before.
LEMMA OwnsAtBefore ==
    ASSUME TypeOK, TypeOK', HandlesKnown, Grows, StaysDead,
           NEW f, NEW v, NEW i \in Alive', OwnsAt(f, v, i)',
           f \in DOMAIN vals, handles(vals'[f][v]) \subseteq handles(vals[f][v])
    PROVE  /\ OwnsAt(f, v, i) /\ i \in Alive
           /\ records'[i].generation = records[i].generation
<1>1. PICK h \in handles(vals'[f][v]) : h.role = "owner" /\ h.id = i /\ current(h)' /\ v \in Vals
  BY DEF OwnsAt
<1>2. FrameHas(f, h)
  BY <1>1 DEF FrameHas
<1>3. current(h) /\ i \in DOMAIN records /\ records'[i].generation = records[i].generation
  BY <1>1, <1>2, CurrentBefore DEF HandlesKnown
<1> QED
  BY <1>1, <1>3 DEF OwnsAt, StaysDead, Alive

\* What was current and did not change hands is current.
LEMMA StaysCurrent ==
    ASSUME NEW h, current(h), records'[h.id].generation = records[h.id].generation
    PROVE  current(h)'
BY DEF current

\* The values after an edit.
LEMMA EditedFrames ==
    ASSUME TypeOK, frames # <<>>, NEW g, NEW X, Edits(g, X)
    PROVE  /\ DOMAIN vals' = DOMAIN vals /\ Top \in DOMAIN vals /\ vals'[Top] = g
           /\ DOMAIN frames = DOMAIN vals /\ \A f \in DOMAIN vals : f <= Top /\ f \in Nat
           /\ \A f \in DOMAIN vals : f # Top => vals'[f] = vals[f]
           /\ \A v \in Vals : V(v) = vals[Top][v]
<1>1. vals \in Seq([Vals -> Value]) /\ Top \in DOMAIN vals /\ Len(vals) = Top /\ Top \in Nat
      /\ DOMAIN frames = DOMAIN vals
  BY TopFrame DEF TypeOK, Top
<1>2. vals' = [vals EXCEPT ![Top] = g]
  BY DEF Edits
<1>3. \A f \in DOMAIN vals : f <= Top /\ f \in Nat
  BY <1>1
<1> QED
  BY <1>1, <1>2, <1>3 DEF V

\* What the running frame owned live, and did not hand over, it owns.
LEMMA EditKeeps ==
    ASSUME TypeOK, HandlesKnown, LoadCopies, frames # <<>>, NEW g, NEW X, Edits(g, X),
           NEW i \in Alive, FrameOwns(Top, i), i \notin X,
           records'[i].generation = records[i].generation
    PROVE  \E w \in Originals : OwnsAt(Top, w, i)'
<1>1. PICK u \in Originals : OwnsAt(Top, u, i)
  BY OwnsOriginal
<1>2. PICK h \in handles(vals[Top][u]) : h.role = "owner" /\ h.id = i /\ current(h) /\ u \in Vals
  BY <1>1 DEF OwnsAt
<1>3. FrameHas(Top, h) /\ V(u) = vals[Top][u]
  BY <1>2, EditedFrames DEF FrameHas
<1>4. observe(h)
  BY <1>2, <1>3, LiveObserved
<1>5. PICK w \in Originals : h \in handles(g[w])
  BY <1>2, <1>3, <1>4 DEF Edits
<1>6. current(h)'
  BY <1>2, StaysCurrent
<1>7. Top \in DOMAIN vals' /\ vals'[Top] = g /\ w \in Vals
  BY EditedFrames DEF Originals
<1>8. \E x \in handles(vals'[Top][w]) : x.role = "owner" /\ x.id = i /\ current(x)'
  BY <1>2, <1>5, <1>6, <1>7
<1>9. frames' = frames
  BY DEF Edits
<1>10. PICK top : top = Top
  OBVIOUS
<1>11. OwnsAt(top, w, i)'
  BY <1>7, <1>8, <1>10 DEF OwnsAt
<1>12. Top' = top
  BY <1>9, <1>10 DEF Top
<1> QED
  BY <1>11, <1>12

\* An edit keeps the account, if what changed hands, what is stored and what
\* is new has an owner.
LEMMA EditAccounted ==
    ASSUME TypeOK, TypeOK', HandlesKnown, Accounted, Grows, StaysDead, frames # <<>>,
           NEW g, NEW X, Edits(g, X),
           \A i \in Alive \cap Alive' :
               /\ records'[i].generation # records[i].generation => \E p : Owns(p, i)'
               /\ FrameOwns(Top, i) /\ i \in X => records'[i].generation # records[i].generation
               /\ \A j : FieldOwns(j, i) /\ records'[i].generation = records[i].generation
                            => \E p : Owns(p, i)',
           \A i \in Alive' : i \notin DOMAIN records => \E p : Owns(p, i)'
    PROVE  Keeps
<1>1. /\ DOMAIN vals' = DOMAIN vals /\ Top \in DOMAIN vals /\ vals'[Top] = g
      /\ DOMAIN frames = DOMAIN vals /\ \A f \in DOMAIN vals : f <= Top /\ f \in Nat
      /\ \A f \in DOMAIN vals : f # Top => vals'[f] = vals[f]
      /\ \A v \in Vals : V(v) = vals[Top][v]
  BY EditedFrames
<1>2. frames' = frames /\ host' = host /\ Top' = Top
  BY DEF Edits, Top
<1>3. ASSUME NEW i \in Alive', i \in DOMAIN records PROVE i \in Alive
  BY <1>3 DEF StaysDead, Alive
<1>4. PICK top : top = Top
  OBVIOUS
<1>5. ASSUME NEW i \in Alive \cap Alive', FrameOwns(top, i),
             records'[i].generation = records[i].generation
      PROVE  \E w \in Originals : OwnsAt(top, w, i)'
  <2>1. i \notin X
    BY <1>4, <1>5
  <2>2. \E w \in Originals : OwnsAt(Top, w, i)'
    BY <1>4, <1>5, <2>1, EditKeeps DEF Accounted
  <2> QED
    BY <1>2, <1>4, <2>2
<1>6. Owned'
  <2>1. ASSUME NEW i \in Alive' PROVE \E p : Owns(p, i)'
    <3>1. CASE i \notin DOMAIN records
      BY <3>1
    <3>2. CASE i \in DOMAIN records
      <4>1. i \in Alive
        BY <1>3, <3>2
      <4>2. PICK p : Owns(p, i)
        BY <4>1 DEF Accounted, Owned
      <4>3. CASE records'[i].generation # records[i].generation
        BY <4>1, <4>3
      <4>4. CASE records'[i].generation = records[i].generation
        <5>1. CASE \E f : FrameOwns(f, i)
          <6>1. PICK f : FrameOwns(f, i)
            BY <5>1
          <6>2. CASE f = top
            <7>1. PICK w \in Originals : OwnsAt(f, w, i)'
              BY <1>5, <4>1, <4>4, <6>1, <6>2
            <7>2. FrameOwns(f, i)'
              BY <7>1 DEF OwnsAt, FrameOwns, FrameHas
            <7>3. Owns(<<"frame", f>>, i)'
              BY <7>2 DEF Owns
            <7> QED
              BY <7>3
          <6>3. CASE f # top
            <7>1. PICK h : FrameHas(f, h) /\ h.role = "owner" /\ h.id = i /\ current(h)
              BY <6>1 DEF FrameOwns
            <7>2. FrameHas(f, h)'
              BY <1>1, <1>4, <6>3, <7>1 DEF FrameHas
            <7>3. FrameOwns(f, i)'
              BY <4>4, <7>1, <7>2, StaysCurrent DEF FrameOwns
            <7>4. Owns(<<"frame", f>>, i)'
              BY <7>3 DEF Owns
            <7> QED
              BY <7>4
          <6> QED
            BY <6>2, <6>3
        <5>2. CASE \E j : FieldOwns(j, i)
          BY <4>1, <4>4, <5>2
        <5>3. CASE HostOwns(i)
          <6>1. HostOwns(i)'
            BY <1>2, <4>4, <5>3, StaysCurrent DEF HostOwns
          <6>2. Owns(<<"host">>, i)'
            BY <6>1 DEF Owns
          <6> QED
            BY <6>2
        <5> QED
          BY <4>2, <5>1, <5>2, <5>3 DEF Owns
      <4> QED
        BY <4>3, <4>4
    <3> QED
      BY <3>1, <3>2
  <2> QED
    BY <2>1 DEF Owned
<1>7. LoadCopies'
  <2>1. ASSUME NEW f, NEW x \in Loads, NEW i \in Alive', OwnsAt(f, x, i)'
        PROVE  \E v \in Originals : OwnsAt(f, v, i)'
    <3>0. f \in DOMAIN vals /\ x \in Vals
      BY <1>1, <2>1 DEF OwnsAt
    <3>1. ASSUME handles(vals'[f][x]) \subseteq handles(vals[f][x])
          PROVE  /\ FrameOwns(f, i) /\ i \in Alive /\ records'[i].generation = records[i].generation
                 /\ \E v \in Originals : OwnsAt(f, v, i)
      <4>1. OwnsAt(f, x, i) /\ i \in Alive /\ records'[i].generation = records[i].generation
        BY <2>1, <3>0, <3>1, OwnsAtBefore
      <4> QED
        BY <4>1 DEF Accounted, LoadCopies, OwnsAt, FrameOwns, FrameHas
    <3>2. CASE f # top
      <4>1. vals'[f] = vals[f]
        BY <1>1, <1>4, <3>0, <3>2
      <4>2. PICK v \in Originals : OwnsAt(f, v, i)
        BY <3>1, <4>1
      <4>3. PICK h \in handles(vals[f][v]) : h.role = "owner" /\ h.id = i /\ current(h) /\ v \in Vals
        BY <4>2 DEF OwnsAt
      <4>4. current(h)'
        BY <3>1, <4>1, <4>3, StaysCurrent
      <4> QED
        BY <1>1, <3>0, <4>1, <4>3, <4>4 DEF OwnsAt
    <3>3. CASE f = top
      <4>1. PICK h \in handles(g[x]) : h.role = "owner" /\ h.id = i /\ current(h)'
        BY <1>1, <1>4, <2>1, <3>3 DEF OwnsAt
      <4>2. CASE h \in handles(V(x))
        <5>1. FrameHas(f, h)
          BY <1>1, <1>4, <3>0, <3>3, <4>2 DEF FrameHas
        <5>2. current(h) /\ i \in DOMAIN records /\ records'[i].generation = records[i].generation
          BY <4>1, <5>1, CurrentBefore DEF HandlesKnown
        <5>3. FrameOwns(f, i)
          BY <4>1, <5>1, <5>2 DEF FrameOwns
        <5> QED
          BY <1>3, <1>5, <3>3, <5>2, <5>3
      <4>3. CASE \E w \in Originals : h \in handles(g[w])
        <5>1. PICK w \in Originals : h \in handles(g[w]) /\ w \in Vals
          BY <4>3 DEF Originals
        <5> QED
          BY <1>1, <1>4, <3>3, <4>1, <5>1 DEF OwnsAt
      <4> QED
        BY <4>1, <4>2, <4>3 DEF Edits
    <3> QED
      BY <3>2, <3>3
  <2> QED
    BY <2>1 DEF LoadCopies
<1>8. ReturnSlotsFree'
  <2>1. ASSUME NEW f \in DOMAIN frames, f > 1, NEW v, FreeSlot(f - 1, v) PROVE FreeSlot(f - 1, v)'
    <3>1. PICK e : e = f - 1
      OBVIOUS
    <3>2. e # top
      BY <1>1, <1>4, <2>1, <3>1
    <3>3. ASSUME NEW i \in Alive', OwnsAt(e, v, i)' PROVE FALSE
      <4>1. e \in DOMAIN vals
        BY <1>1, <3>3 DEF OwnsAt
      <4>2. handles(vals'[e][v]) \subseteq handles(vals[e][v])
        BY <1>1, <1>4, <3>2, <4>1
      <4>3. OwnsAt(e, v, i) /\ i \in Alive
        BY <3>3, <4>1, <4>2, OwnsAtBefore
      <4> QED
        BY <2>1, <3>1, <4>3 DEF FreeSlot
    <3> QED
      BY <2>1, <3>1, <3>3 DEF FreeSlot
  <2> QED
    BY <1>2, <2>1 DEF Accounted, ReturnSlotsFree
<1>9. ObservingSees'
  <2>1. ASSUME NEW f \in DOMAIN frames, NEW v \in frames[f].observing, NEW h \in handles(vals'[f][v])
        PROVE  h.role = "observer"
    <3>1. CASE f = top
      <4>1. v \in Vals
        BY <1>4, <3>1, TopFrame DEF Frame, Vals
      <4>2. h \in handles(V(v))
        BY <1>1, <1>4, <2>1, <3>1 DEF Edits
      <4> QED
        BY <1>1, <1>4, <2>1, <3>1, <4>1, <4>2 DEF Accounted, ObservingSees
    <3>2. CASE f # top
      BY <1>1, <1>4, <2>1, <3>2 DEF Accounted, ObservingSees
    <3> QED
      BY <3>1, <3>2
  <2> QED
    BY <1>2, <2>1 DEF ObservingSees
<1>10. Loses
  <2>1. ASSUME NEW f \in DOMAIN frames, NEW v \in frames[f].observing
        PROVE  handles(vals'[f][v]) \subseteq handles(vals[f][v])
    <3>1. CASE f = top
      <4>1. v \in Vals
        BY <1>4, <2>1, <3>1, TopFrame DEF Frame, Vals
      <4>2. handles(g[v]) \subseteq handles(V(v))
        BY <1>4, <2>1, <3>1 DEF Edits
      <4> QED
        BY <1>1, <1>4, <3>1, <4>1, <4>2
    <3>2. CASE f # top
      BY <1>1, <1>4, <2>1, <3>2
    <3> QED
      BY <3>1, <3>2
  <2> QED
    BY <1>2, <2>1 DEF Loses
<1> QED
  BY <1>6, <1>7, <1>8, <1>9, <1>10 DEF Accounted, Keeps

\* A frame owns what it is given and is current.
LEMMA GivenOwns ==
    ASSUME TypeOK, frames # <<>>, NEW g, NEW X, Edits(g, X), NEW w \in Vals,
           NEW h \in handles(g[w]), h.role = "owner", current(h)'
    PROVE  \E p : Owns(p, h.id)'
<1>1. PICK top : top = Top
  OBVIOUS
<1>2. FrameHas(top, h)'
  BY <1>1, EditedFrames DEF FrameHas
<1>3. FrameOwns(top, h.id)'
  BY <1>2 DEF FrameOwns
<1>4. Owns(<<"frame", top>>, h.id)'
  BY <1>3 DEF Owns
<1> QED
  BY <1>4

\* What is stored where it was, in a container that lives, is owned.
LEMMA StoredOwns ==
    ASSUME NEW j, NEW h, NEW i, Stores(j, h)', records'[j].status = "alive", h.id = i, current(h)'
    PROVE  \E p : Owns(p, i)'
<1>1. FieldOwns(j, i)'
  BY DEF FieldOwns
<1>2. Owns(<<"field", j>>, i)'
  BY <1>1 DEF Owns
<1> QED
  BY <1>2

\* The handle a transfer makes of a resource whose generation it moved.
LEMMA RebuiltOf ==
    ASSUME TypeOK, NEW s \in Value, plan_transfer(s), NEW i \in ids(handles(s))
    PROVE  \E h \in handles(rebuilt(s)) : h.id = i /\ h.role = "owner"
<1>1. PICK g \in handles(s) : g.id = i
  BY DEF ids
<1> QED
  BY <1>1, RebuiltHolds

\* An instruction that leaves the table alone.
LEMMA ReadEdit ==
    ASSUME TypeOK, TypeOK', OwnerInv, Accounted, frames # <<>>, NEW g, Edits(g, {}),
           records' = records
    PROVE  Keeps
<1>1. Grows /\ StaysDead
  BY RecordType DEF Grows, StaysDead
<1>2. ASSUME NEW i, NEW j, FieldOwns(j, i) PROVE \E p : Owns(p, i)'
  <2>1. FieldOwns(j, i)'
    BY <1>2 DEF FieldOwns, Stores, current
  <2>2. Owns(<<"field", j>>, i)'
    BY <2>1 DEF Owns
  <2> QED
    BY <2>2
<1>3. \A i \in Alive' : i \in DOMAIN records
  BY DEF Alive
<1> QED
  BY <1>1, <1>2, <1>3, EditAccounted DEF OwnerInv

\* A transfer within the frame.
LEMMA TransferEdit ==
    ASSUME TypeOK, TypeOK', OwnerInv, DeadBelowDead, Accounted, frames # <<>>,
           NEW s \in Value, plan_transfer(s), records' = commit_transfer(s),
           NEW g, Edits(g, identities(s)),
           \A h \in handles(rebuilt(s)) : \E w \in Vals : h \in handles(g[w])
    PROVE  Keeps
<1> DEFINE M == ids(handles(s))
<1>1. DOMAIN records' = DOMAIN records
  BY DEF commit_transfer
<1>2. /\ \A i \in DOMAIN records : records[i].generation <= records'[i].generation
      /\ \A h \in handles(rebuilt(s)) :
            h.role = "owner" /\ h.id \in DOMAIN records /\ h.generation = records'[h.id].generation
  BY <1>1, CommitGrows
<1>3. \A i \in DOMAIN records : /\ records'[i].fields = records[i].fields
                                /\ records'[i].status = records[i].status
                                /\ i \in M <=> records'[i].generation # records[i].generation
  BY CommitTable, RecordType
<1>4. Grows /\ StaysDead
  BY <1>1, <1>2, <1>3 DEF Grows, StaysDead
<1>5. ASSUME NEW i \in Alive \cap Alive'
      PROVE  /\ records'[i].generation # records[i].generation => \E p : Owns(p, i)'
             /\ FrameOwns(Top, i) /\ i \in identities(s) => records'[i].generation # records[i].generation
             /\ \A j : FieldOwns(j, i) /\ records'[i].generation = records[i].generation
                          => \E p : Owns(p, i)'
  <2>1. i \in DOMAIN records
    BY DEF Alive
  <2>2. ASSUME records'[i].generation # records[i].generation PROVE \E p : Owns(p, i)'
    <3>1. i \in M
      BY <1>3, <2>1, <2>2
    <3>2. PICK h \in handles(rebuilt(s)) : h.id = i /\ h.role = "owner"
      BY <3>1, RebuiltOf
    <3>3. PICK w \in Vals : h \in handles(g[w])
      BY <3>2
    <3>4. current(h)'
      BY <1>2, <3>2 DEF current
    <3> QED
      BY <3>2, <3>3, <3>4, GivenOwns
  <2>3. ASSUME FrameOwns(Top, i), i \in identities(s) PROVE i \in M
    BY <1>5, <2>3, ExitingIsHanded DEF plan_transfer
  <2>4. ASSUME NEW j, FieldOwns(j, i), records'[i].generation = records[i].generation
        PROVE  \E p : Owns(p, i)'
    <3>1. PICK h : Stores(j, h) /\ records[j].status = "alive" /\ h.id = i /\ current(h)
      BY <2>4 DEF FieldOwns
    <3>2. Stores(j, h)' /\ records'[j].status = "alive"
      BY <1>1, <1>3, <3>1 DEF Stores
    <3> QED
      BY <2>4, <3>1, <3>2, StaysCurrent, StoredOwns
  <2> QED
    BY <1>3, <2>1, <2>2, <2>3, <2>4
<1>6. \A i \in Alive' : i \in DOMAIN records
  BY <1>1 DEF Alive
<1> QED
  BY <1>4, <1>5, <1>6, EditAccounted DEF OwnerInv

\* A construction.
LEMMA CreateEdit ==
    ASSUME TypeOK, TypeOK', OwnerInv, DeadBelowDead, Accounted, frames # <<>>,
           NEW s \in Value, plan_transfer(s),
           records' = Append(commit_transfer(s), new_record(s)),
           NEW g, Edits(g, identities(s)), NEW w \in Vals, new_handle \in handles(g[w])
    PROVE  Keeps
<1> DEFINE M == ids(handles(s))
<1>n. PICK n : n = Len(records) + 1
  OBVIOUS
<1>1. /\ commit_transfer(s) \in Seq(ResourceRecord) /\ Len(records) \in Nat
      /\ Len(commit_transfer(s)) = Len(records) /\ DOMAIN records = 1..Len(records)
  BY CommitType DEF TypeOK
<1>2. /\ n \notin DOMAIN records /\ DOMAIN records' = DOMAIN records \cup {n}
      /\ \A i \in DOMAIN records : records'[i] = commit_transfer(s)[i]
      /\ records'[n] = new_record(s)
  BY <1>n, CreateTable
<1>3. /\ records'[n].status = "alive" /\ records'[n].generation = 0
      /\ records'[n].fields = rebuilt(s)
  BY <1>2 DEF new_record
<1>4. /\ \A i \in DOMAIN records : records[i].generation <= records'[i].generation
      /\ \A h \in handles(rebuilt(s)) :
            h.role = "owner" /\ h.id \in DOMAIN records /\ h.generation = records'[h.id].generation
  <2>1. /\ DOMAIN records \subseteq DOMAIN records'
        /\ \A i \in DOMAIN records : records'[i].generation = commit_transfer(s)[i].generation
    BY <1>2
  <2> QED
    BY <2>1, CommitGrows
<1>5. \A i \in DOMAIN records : /\ records'[i].fields = records[i].fields
                                /\ records'[i].status = records[i].status
                                /\ i \in M <=> records'[i].generation # records[i].generation
  <2>1. PICK recs : recs = commit_transfer(s)
    OBVIOUS
  <2>2. \A i \in DOMAIN records :
          /\ recs[i].status = records[i].status /\ recs[i].fields = records[i].fields
          /\ i \in M <=> recs[i].generation # records[i].generation
    BY <2>1, CommitTable, RecordType
  <2> HIDE DEF M
  <2> QED
    BY <1>2, <2>1, <2>2
<1>6. Grows /\ StaysDead
  BY <1>2, <1>4, <1>5 DEF Grows, StaysDead
<1>7. ASSUME NEW i \in Alive \cap Alive'
      PROVE  /\ records'[i].generation # records[i].generation => \E p : Owns(p, i)'
             /\ FrameOwns(Top, i) /\ i \in identities(s) => records'[i].generation # records[i].generation
             /\ \A j : FieldOwns(j, i) /\ records'[i].generation = records[i].generation
                          => \E p : Owns(p, i)'
  <2>1. i \in DOMAIN records
    BY DEF Alive
  <2>2. ASSUME records'[i].generation # records[i].generation PROVE \E p : Owns(p, i)'
    <3>1. i \in M
      BY <1>5, <2>1, <2>2
    <3>2. PICK h \in handles(rebuilt(s)) : h.id = i /\ h.role = "owner"
      BY <3>1, RebuiltOf
    <3>3. Stores(n, h)'
      BY <1>2, <1>3, <3>2 DEF Stores
    <3>4. current(h)'
      BY <1>4, <3>2 DEF current
    <3> QED
      BY <1>3, <3>2, <3>3, <3>4, StoredOwns
  <2>3. ASSUME FrameOwns(Top, i), i \in identities(s) PROVE i \in M
    BY <1>7, <2>3, ExitingIsHanded DEF plan_transfer
  <2>4. ASSUME NEW j, FieldOwns(j, i), records'[i].generation = records[i].generation
        PROVE  \E p : Owns(p, i)'
    <3>1. PICK h : Stores(j, h) /\ records[j].status = "alive" /\ h.id = i /\ current(h)
      BY <2>4 DEF FieldOwns
    <3>2. Stores(j, h)' /\ records'[j].status = "alive"
      BY <1>2, <1>5, <3>1 DEF Stores
    <3> QED
      BY <2>4, <3>1, <3>2, StaysCurrent, StoredOwns
  <2> QED
    BY <1>5, <2>1, <2>2, <2>3, <2>4
<1>8. ASSUME NEW i \in Alive', i \notin DOMAIN records PROVE \E p : Owns(p, i)'
  <2>1. i = n
    BY <1>2, <1>8 DEF Alive
  <2>2. PICK h : h = new_handle
    OBVIOUS
  <2>3. h.id = n /\ h.role = "owner" /\ h.generation = 0
    BY <1>n, <2>2 DEF new_handle
  <2>4. current(h)'
    BY <1>3, <2>3 DEF current
  <2> QED
    BY <2>1, <2>2, <2>3, <2>4, GivenOwns
<1> QED
  BY <1>6, <1>7, <1>8, EditAccounted DEF OwnerInv

\* A drop.
LEMMA DropEdit ==
    ASSUME TypeOK, TypeOK', OwnerInv, Accounted, frames # <<>>, NEW s \in Value, plan_drop(s),
           records' = [i \in DOMAIN records |->
                          IF i \in identities(s)
                          THEN [records[i] EXCEPT !.status = "dropped"]
                          ELSE records[i]],
           NEW g, Edits(g, identities(s))
    PROVE  Keeps
<1>1. /\ DOMAIN records' = DOMAIN records
      /\ \A i \in DOMAIN records :
            /\ records'[i].fields = records[i].fields
            /\ records'[i].generation = records[i].generation
            /\ records'[i].status = IF i \in identities(s) THEN "dropped" ELSE records[i].status
  BY DropTable
<1>2. Grows /\ StaysDead
  BY <1>1, RecordType DEF Grows, StaysDead
<1>3. ASSUME NEW i \in Alive \cap Alive'
      PROVE  /\ i \notin identities(s) /\ records'[i].generation = records[i].generation
             /\ \A j : FieldOwns(j, i) => \E p : Owns(p, i)'
  <2>1. i \in DOMAIN records /\ i \notin identities(s)
    BY <1>1 DEF Alive
  <2>2. ASSUME NEW j, FieldOwns(j, i) PROVE \E p : Owns(p, i)'
    <3>1. PICK h : Stores(j, h) /\ records[j].status = "alive" /\ h.id = i /\ current(h)
      BY <2>2 DEF FieldOwns
    <3>2. j \notin identities(s)
      BY <2>1, <3>1, DropsNested
    <3>3. Stores(j, h)' /\ records'[j].status = "alive"
      BY <1>1, <3>1, <3>2 DEF Stores
    <3> QED
      BY <1>1, <2>1, <3>1, <3>3, StaysCurrent, StoredOwns
  <2> QED
    BY <1>1, <2>1, <2>2
<1>4. \A i \in Alive' : i \in DOMAIN records
  BY <1>1 DEF Alive
<1> QED
  BY <1>2, <1>3, <1>4, EditAccounted DEF OwnerInv

\* A leaf taken out of a field.
LEMMA TakeEdit ==
    ASSUME TypeOK, TypeOK', OwnerInv, Accounted, frames # <<>>,
           NEW c \in DOMAIN records, NEW at \in DOMAIN records[c].fields, NEW leaf,
           leaf = records[c].fields[at], records' = with_field(records, c, at, tombstone(leaf)),
           NEW g, Edits(g, {}), NEW w \in Vals, is_handle(leaf) => leaf \in handles(g[w])
    PROVE  Keeps
<1>1. records \in Seq(ResourceRecord) /\ tombstone(leaf) \in Leaf
  BY TombstoneLeaf DEF TypeOK
<1>2. /\ DOMAIN records' = DOMAIN records
      /\ \A j \in DOMAIN records : j # c => records'[j] = records[j]
      /\ \A j \in DOMAIN records : records'[j].generation = records[j].generation
                                   /\ records'[j].status = records[j].status
      /\ records'[c].fields = [records[c].fields EXCEPT ![at] = tombstone(leaf)]
  BY <1>1, WithFieldTable
<1>3. Grows /\ StaysDead
  BY <1>2, RecordType DEF Grows, StaysDead
<1>4. ASSUME NEW i \in Alive, NEW j, FieldOwns(j, i) PROVE \E p : Owns(p, i)'
  <2>1. PICK k, h : HoldsAt(j, k, h) /\ records[j].status = "alive" /\ h.id = i /\ current(h)
    BY <1>4, FieldOwnsAt
  <2>2. current(h)' /\ h.role = "owner"
    <3>1. h.role = "owner" /\ h.id \in DOMAIN records
      BY <2>1, HoldsStores DEF OwnerInv, HandlesKnown, Known
    <3> QED
      BY <1>2, <2>1, <3>1, StaysCurrent
  <2>3. CASE j = c /\ k = at
    <3>1. h = leaf /\ is_handle(leaf)
      BY <2>1, <2>3 DEF HoldsAt
    <3> QED
      BY <2>1, <2>2, <3>1, GivenOwns
  <2>4. CASE ~ (j = c /\ k = at)
    <3>1. HoldsAt(j, k, h)'
      BY <1>2, <2>1, <2>4 DEF HoldsAt
    <3>2. Stores(j, h)'
      <4>1. j \in DOMAIN records' /\ k \in DOMAIN records'[j].fields /\ records'[j].fields[k] = h
            /\ is_handle(h)
        BY <3>1 DEF HoldsAt
      <4> QED
        BY <4>1, NextRecordType, HandleAt DEF Stores
    <3>3. records'[j].status = "alive"
      BY <1>2, <2>1 DEF HoldsAt
    <3> QED
      BY <2>1, <2>2, <3>2, <3>3, StoredOwns
  <2> QED
    BY <2>3, <2>4
<1>5. \A i \in Alive' : i \in DOMAIN records /\ records'[i].generation = records[i].generation
  BY <1>2 DEF Alive
<1> QED
  BY <1>3, <1>4, <1>5, EditAccounted DEF OwnerInv

\* A leaf put back into a field.
LEMMA RefillEdit ==
    ASSUME TypeOK, TypeOK', OwnerInv, DeadBelowDead, Accounted, frames # <<>>,
           NEW s \in Value, plan_transfer(s), Len(s) = 1,
           NEW c \in DOMAIN records, NEW at \in DOMAIN records[c].fields,
           records[c].status = "alive", is_tombstone(records[c].fields[at]),
           records' = with_field(commit_transfer(s), c, at, rebuilt(s)[1]),
           NEW g, Edits(g, identities(s))
    PROVE  Keeps
<1> DEFINE M == ids(handles(s))
<1>1. PICK leaf : leaf = rebuilt(s)[1]
  OBVIOUS
<1>2. /\ rebuilt(s) \in Value /\ leaf \in Leaf
      /\ \A h \in handles(rebuilt(s)) : h = leaf /\ is_handle(leaf)
  <2>1. rebuilt(s) \in Value /\ DOMAIN rebuilt(s) = DOMAIN s /\ DOMAIN s = {1}
    BY RebuiltType DEF Value
  <2> QED
    BY <1>1, <2>1, HandleAt DEF Value
<1>3. /\ commit_transfer(s) \in Seq(ResourceRecord)
      /\ DOMAIN commit_transfer(s) = DOMAIN records
      /\ at \in DOMAIN commit_transfer(s)[c].fields
  BY CommitType, CommitTable DEF TypeOK
<1>4. /\ DOMAIN records' = DOMAIN records
      /\ \A j \in DOMAIN records : j # c => records'[j] = commit_transfer(s)[j]
      /\ \A j \in DOMAIN records : records'[j].generation = commit_transfer(s)[j].generation
                                   /\ records'[j].status = commit_transfer(s)[j].status
      /\ records'[c].fields = [commit_transfer(s)[c].fields EXCEPT ![at] = leaf]
  BY <1>1, <1>2, <1>3, WithFieldTable
<1>5. /\ \A i \in DOMAIN records : records[i].generation <= records'[i].generation
      /\ \A h \in handles(rebuilt(s)) :
            h.role = "owner" /\ h.id \in DOMAIN records /\ h.generation = records'[h.id].generation
  BY <1>4, CommitGrows
<1>6. /\ \A j \in DOMAIN records : j # c => records'[j].fields = records[j].fields
      /\ \A j \in DOMAIN records : /\ records'[j].status = records[j].status
                                   /\ j \in M <=> records'[j].generation # records[j].generation
      /\ records'[c].fields = [records[c].fields EXCEPT ![at] = leaf]
  <2>1. PICK recs : recs = commit_transfer(s)
    OBVIOUS
  <2>2. \A j \in DOMAIN records :
          /\ recs[j].status = records[j].status /\ recs[j].fields = records[j].fields
          /\ j \in M <=> recs[j].generation # records[j].generation
    BY <2>1, CommitTable, RecordType
  <2> HIDE DEF M
  <2> QED
    BY <1>4, <2>1, <2>2
<1>7. Grows /\ StaysDead
  BY <1>4, <1>5, <1>6 DEF Grows, StaysDead
<1>8. ASSUME NEW j, NEW k, NEW h, HoldsAt(j, k, h)' PROVE Stores(j, h)'
  <2>1. j \in DOMAIN records' /\ k \in DOMAIN records'[j].fields /\ records'[j].fields[k] = h
        /\ is_handle(h)
    BY <1>8 DEF HoldsAt
  <2> QED
    BY <2>1, NextRecordType, HandleAt DEF Stores
<1>9. ASSUME NEW i \in Alive \cap Alive'
      PROVE  /\ records'[i].generation # records[i].generation => \E p : Owns(p, i)'
             /\ FrameOwns(Top, i) /\ i \in identities(s) => records'[i].generation # records[i].generation
             /\ \A j : FieldOwns(j, i) /\ records'[i].generation = records[i].generation
                          => \E p : Owns(p, i)'
  <2>1. i \in DOMAIN records
    BY DEF Alive
  <2>2. ASSUME records'[i].generation # records[i].generation PROVE \E p : Owns(p, i)'
    <3>1. i \in M
      BY <1>6, <2>1, <2>2
    <3>2. PICK h \in handles(rebuilt(s)) : h.id = i /\ h.role = "owner"
      BY <3>1, RebuiltOf
    <3>3. HoldsAt(c, at, h)'
      BY <1>2, <1>4, <1>6, <3>2 DEF HoldsAt
    <3>4. current(h)'
      BY <1>5, <3>2 DEF current
    <3> QED
      BY <1>6, <1>8, <3>2, <3>3, <3>4, StoredOwns
  <2>3. ASSUME FrameOwns(Top, i), i \in identities(s) PROVE i \in M
    BY <1>9, <2>3, ExitingIsHanded DEF plan_transfer
  <2>4. ASSUME NEW j, FieldOwns(j, i), records'[i].generation = records[i].generation
        PROVE  \E p : Owns(p, i)'
    <3>1. PICK k, h : HoldsAt(j, k, h) /\ records[j].status = "alive" /\ h.id = i /\ current(h)
      BY <2>4, FieldOwnsAt
    <3>2. ~ (j = c /\ k = at)
      BY <3>1 DEF HoldsAt, is_handle, is_tombstone
    <3>3. HoldsAt(j, k, h)' /\ records'[j].status = "alive"
      BY <1>4, <1>6, <3>1, <3>2 DEF HoldsAt
    <3> QED
      BY <1>8, <2>4, <3>1, <3>3, StaysCurrent, StoredOwns
  <2> QED
    BY <1>6, <2>1, <2>2, <2>3, <2>4
<1>10. \A i \in Alive' : i \in DOMAIN records
  BY <1>4 DEF Alive
<1> QED
  BY <1>7, <1>9, <1>10, EditAccounted DEF OwnerInv

-----------------------------------------------------------------------------
(***************************************************************************)
(* What each instruction does to the values of its frame.                  *)
(***************************************************************************)

\* The kinds of value ids.
LEMMA ValueIds ==
    /\ Temps \subseteq Originals /\ Slots \subseteq Originals /\ Params \subseteq Originals
    /\ Originals \subseteq Vals /\ Loads \subseteq Vals /\ Loads \cap Originals = {}
    /\ \A v \in Vals : canonical_root(v) \in Originals
    /\ \A v \in Originals : canonical_root(v) = v
    /\ \A x \in Loads : LoadOrigin[x] \in Slots
    /\ (Temps \cup Slots \cup Loads) \cap Params = {}
    /\ Absent \notin Vals
BY ValueIdAssumption, BoundAssumption DEF Originals, Vals, canonical_root

\* The observing parameters of the running frame are parameters.
LEMMA ObservingParams ==
    ASSUME TypeOK, frames # <<>>
    PROVE  frames[Top].observing \subseteq Params
BY TopFrame DEF Frame

\* A result written where nothing live is lost.
LEMMA InsertEdits ==
    ASSUME TypeOK, frames # <<>>, NEW v \in Temps \cup Slots, NEW s \in Value, Insert(v, s),
           frames' = frames, host' = host, NEW X, ~ owns_a_live_resource(V(v), X)
    PROVE  \E g : Edits(g, X) /\ g[v] = s
<1> DEFINE g == [vals[Top] EXCEPT ![v] = s]
<1>1. /\ vals[Top] \in [Vals -> Value] /\ v \in Vals /\ v \in Originals /\ v \notin Loads
      /\ v \notin frames[Top].observing
  BY TopFrame, ValueIds, ObservingParams
<1>2. /\ g \in [Vals -> Value] /\ vals' = [vals EXCEPT ![Top] = g] /\ g[v] = s
      /\ \A u \in Vals : u # v => g[u] = V(u)
  BY <1>1 DEF Insert, V
<1>3. ASSUME NEW h \in handles(V(v)), h.role = "owner", observe(h), h.id \notin X PROVE FALSE
  <2>1. record(h) /\ h \in {h} \cup below({h})
    BY <1>3 DEF observe
  <2> QED
    BY <1>3, <2>1 DEF owns_a_live_resource
<1>4. frames[Top].observing \subseteq Vals /\ Loads \subseteq Vals /\ Originals \subseteq Vals
  BY ObservingParams, ValueIds DEF Vals
<1> HIDE DEF g
<1>5. Edits(g, X)
  BY <1>1, <1>2, <1>3, <1>4 DEF Edits
<1> QED
  BY <1>2, <1>5

\* A Load copies its slot.
LEMMA LoadEdits ==
    ASSUME TypeOK, frames # <<>>, NEW x \in Loads, Insert(x, V(LoadOrigin[x])),
           frames' = frames, host' = host
    PROVE  \E g : Edits(g, {})
<1> DEFINE g == [vals[Top] EXCEPT ![x] = V(LoadOrigin[x])]
<1>1. /\ vals[Top] \in [Vals -> Value] /\ x \in Vals /\ x \notin Originals
      /\ LoadOrigin[x] \in Originals /\ Originals \subseteq Vals
      /\ x \notin frames[Top].observing /\ frames[Top].observing \subseteq Vals
      /\ V(LoadOrigin[x]) \in Value
  BY TopFrame, ValueIds, ObservingParams DEF Vals
<1>2. /\ g \in [Vals -> Value] /\ vals' = [vals EXCEPT ![Top] = g] /\ g[x] = V(LoadOrigin[x])
      /\ \A u \in Vals : u # x => g[u] = V(u)
  BY <1>1 DEF Insert, V
<1>3. g[LoadOrigin[x]] = V(LoadOrigin[x])
  BY <1>1, <1>2
<1>4. Loads \subseteq Vals
  BY ValueIds
<1> HIDE DEF g
<1>5. Edits(g, {})
  BY <1>1, <1>2, <1>3, <1>4 DEF Edits
<1> QED
  BY <1>5

\* Drop empties the id of what it destroys.
LEMMA DropEdits ==
    ASSUME TypeOK, frames # <<>>, NEW v \in Vals, Insert(v, <<Absent>>),
           frames' = frames, host' = host
    PROVE  \E g : Edits(g, identities(V(v)))
<1> DEFINE g == [vals[Top] EXCEPT ![v] = <<Absent>>]
<1>1. Absent \in Leaf /\ ~ is_handle(Absent)
  BY DEF Leaf, is_handle
<1>2. <<Absent>> \in Value /\ handles(<<Absent>>) = {}
  BY <1>1, OneHandle
<1>3. vals[Top] \in [Vals -> Value]
  BY TopFrame
<1>4. /\ g \in [Vals -> Value] /\ vals' = [vals EXCEPT ![Top] = g] /\ g[v] = <<Absent>>
      /\ \A u \in Vals : u # v => g[u] = V(u)
  BY <1>2, <1>3 DEF Insert, V
<1>5. \A h \in handles(V(v)) : h.id \in identities(V(v))
  BY DEF identities, ids, collect_reachable
<1>6. frames[Top].observing \subseteq Vals /\ Loads \subseteq Vals /\ Originals \subseteq Vals
  BY ObservingParams, ValueIds DEF Vals
<1> HIDE DEF g
<1>7. Edits(g, identities(V(v)))
  BY <1>2, <1>4, <1>5, <1>6 DEF Edits
<1> QED
  BY <1>7

\* DecomposeVariant tombstones what other values of the frame hold.
LEMMA DecomposeEdits ==
    ASSUME TypeOK, frames # <<>>, NEW base \in Vals,
           NEW t \in (1..MaxLeaves) \X Temps, NEW u \in (1..MaxLeaves) \X Temps,
           \A e \in {t, u} : e[2] # canonical_root(base) /\ V(e[2]) = <<V(canonical_root(base))[e[1]]>>,
           Insert(canonical_root(base),
                  [i \in DOMAIN V(canonical_root(base)) |->
                      IF \E e \in {t, u} : e[1] = i THEN tombstone(V(canonical_root(base))[i])
                      ELSE V(canonical_root(base))[i]]),
           frames' = frames, host' = host
    PROVE  \E g : Edits(g, {})
<1> DEFINE r == canonical_root(base)
           s == V(r)
           s2 == [i \in DOMAIN s |->
                    IF \E e \in {t, u} : e[1] = i THEN tombstone(s[i]) ELSE s[i]]
           g == [vals[Top] EXCEPT ![r] = s2]
<1>1. r \in Vals /\ s \in Value /\ r \in Originals /\ vals[Top] \in [Vals -> Value]
      /\ s = vals[Top][r]
  BY TopFrame, ValueIds DEF V
<1>2. s2 \in Value
  <2>1. Len(s) \in Nat /\ DOMAIN s = 1..Len(s) /\ \A i \in DOMAIN s : s[i] \in Leaf
    BY <1>1 DEF Value
  <2>2. \A i \in DOMAIN s : tombstone(s[i]) \in Leaf
    BY TombstoneLeaf
  <2>3. s2 \in [1..Len(s) -> Leaf]
    BY <2>1, <2>2
  <2> QED
    BY <2>1, <2>3 DEF Value
<1>3. /\ g \in [Vals -> Value] /\ vals' = [vals EXCEPT ![Top] = g] /\ g[r] = s2
      /\ \A v \in Vals : v # r => g[v] = V(v)
  BY <1>1, <1>2 DEF Insert, V
<1>4. ASSUME NEW h \in handles(s) PROVE \E w \in Originals : h \in handles(g[w])
  <2>1. PICK i \in DOMAIN s : s[i] = h /\ is_handle(h)
    BY <1>1, <1>4, HandleAt
  <2>2. CASE \E e \in {t, u} : e[1] = i
    <3>1. PICK e \in {t, u} : e[1] = i
      BY <2>2
    <3>2. V(e[2]) = <<h>> /\ e[2] # r /\ e[2] \in Temps
      BY <2>1, <3>1
    <3>3. g[e[2]] = <<h>> /\ e[2] \in Originals
      BY <1>3, <3>2, ValueIds
    <3>4. h \in handles(<<h>>)
      BY <2>1 DEF handles
    <3> QED
      BY <3>3, <3>4
  <2>3. CASE ~ \E e \in {t, u} : e[1] = i
    <3>1. i \in DOMAIN s2 /\ s2[i] = h
      BY <2>1, <2>3
    <3> HIDE DEF s2
    <3> QED
      BY <1>1, <1>2, <1>3, <2>1, <3>1, HandleAt
  <2> QED
    BY <2>2, <2>3
<1>5. ASSUME NEW h \in handles(s2) PROVE h \in handles(s)
  <2>1. PICK i \in DOMAIN s2 : s2[i] = h /\ is_handle(h)
    BY <1>2, <1>5, HandleAt
  <2>2. i \in DOMAIN s /\ h = s[i]
    BY <2>1, TombstoneLeaf
  <2> QED
    BY <1>1, <2>1, <2>2, HandleAt
<1>6. frames[Top].observing \subseteq Vals /\ Loads \subseteq Vals /\ Originals \subseteq Vals
      /\ Loads \cap Originals = {}
  BY ObservingParams, ValueIds DEF Vals
<1> HIDE DEF g, s2
<1>7. ASSUME NEW v \in Originals, NEW h \in handles(V(v)) PROVE \E w \in Originals : h \in handles(g[w])
  <2>1. CASE v = r
    BY <1>4, <1>7, <2>1
  <2>2. CASE v # r
    BY <1>3, <1>6, <1>7, <2>2
  <2> QED
    BY <2>1, <2>2
<1>8. ASSUME NEW v \in Vals, NEW h \in handles(g[v]) PROVE h \in handles(V(v))
  <2>1. CASE v = r
    BY <1>3, <1>5, <1>8, <2>1
  <2>2. CASE v # r
    BY <1>3, <1>8, <2>2
  <2> QED
    BY <2>1, <2>2
<1>9. Edits(g, {})
  BY <1>3, <1>6, <1>7, <1>8 DEF Edits
<1> QED
  BY <1>9

\* Taking a leaf out of a value moves it to the result.
LEMMA TakeLeafEdits ==
    ASSUME TypeOK, frames # <<>>, NEW v \in Temps, NEW r \in Originals, NEW k \in DOMAIN V(r),
           ~ owns_a_live_resource(V(v), {}),
           vals' = [vals EXCEPT ![Top][r][k] = tombstone(V(r)[k]), ![Top][v] = <<V(r)[k]>>],
           frames' = frames, host' = host
    PROVE  \E g : Edits(g, {})
<1> DEFINE s == V(r)
           leaf == s[k]
           s2 == [s EXCEPT ![k] = tombstone(leaf)]
           f2 == [vals[Top] EXCEPT ![r] = s2]
           g == [f2 EXCEPT ![v] = <<leaf>>]
<1>1. /\ s \in Value /\ leaf \in Leaf /\ r \in Vals /\ v \in Vals /\ v \in Originals
      /\ vals[Top] \in [Vals -> Value] /\ s = vals[Top][r] /\ Top \in DOMAIN vals
      /\ v \notin Loads /\ v \notin frames[Top].observing
  BY TopFrame, ValueIds, ObservingParams DEF V, Value
<1>2. tombstone(leaf) \in Leaf /\ ~ is_handle(tombstone(leaf))
  BY TombstoneLeaf
<1>3. s2 \in Value /\ <<leaf>> \in Value
  BY <1>1, <1>2, SetLeafType, OneHandle
<1>4. /\ g \in [Vals -> Value] /\ vals' = [vals EXCEPT ![Top] = g] /\ g[v] = <<leaf>>
      /\ (r # v => g[r] = s2) /\ \A u \in Vals : u # v /\ u # r => g[u] = V(u)
  BY <1>1, <1>3 DEF V
<1>5. ASSUME NEW h \in handles(s) PROVE h \in handles(s2) \/ h \in handles(<<leaf>>)
  <2>1. PICK i \in DOMAIN s : s[i] = h /\ is_handle(h)
    BY <1>1, <1>5, HandleAt
  <2>2. CASE i = k
    BY <1>1, <2>1, <2>2, OneHandle
  <2>3. CASE i # k
    <3>1. i \in DOMAIN s2 /\ s2[i] = h
      BY <2>1, <2>3
    <3> HIDE DEF s2
    <3> QED
      BY <1>3, <2>1, <3>1, HandleAt
  <2> QED
    BY <2>2, <2>3
<1>6. handles(s2) \subseteq handles(s)
  <2>1. handles(<<tombstone(leaf)>>) = {}
    BY <1>2, OneHandle
  <2> HIDE DEF s, leaf
  <2> QED
    BY <1>1, <1>2, <2>1, EditedHandles DEF s
<1>7. ASSUME NEW h \in handles(V(v)), h.role = "owner", observe(h) PROVE FALSE
  <2>1. record(h) /\ h \in {h} \cup below({h})
    BY <1>7 DEF observe
  <2> QED
    BY <1>7, <2>1 DEF owns_a_live_resource
<1>8. frames[Top].observing \subseteq Vals /\ Loads \subseteq Vals /\ Originals \subseteq Vals
      /\ Loads \cap Originals = {}
  BY ObservingParams, ValueIds DEF Vals
<1> HIDE DEF g, s2, leaf
<1>9. ASSUME NEW u \in Originals, NEW h \in handles(V(u)), h.role = "owner", observe(h)
      PROVE  \E w \in Originals : h \in handles(g[w])
  <2>1. u # v
    BY <1>7, <1>9
  <2>2. CASE u = r
    BY <1>1, <1>4, <1>5, <1>9, <2>1, <2>2
  <2>3. CASE u # r
    BY <1>4, <1>8, <1>9, <2>1, <2>3
  <2> QED
    BY <2>2, <2>3
<1>10. ASSUME NEW u \in Vals, u # v, NEW h \in handles(g[u]) PROVE h \in handles(V(u))
  <2>1. CASE u = r
    BY <1>4, <1>6, <1>10, <2>1
  <2>2. CASE u # r
    BY <1>4, <1>10, <2>2
  <2> QED
    BY <2>1, <2>2
<1>11. Edits(g, {})
  BY <1>1, <1>4, <1>8, <1>9, <1>10 DEF Edits
<1> QED
  BY <1>11

\* A structural store empties the id it takes from, and its slot if a Load.
LEMMA StoreEdits ==
    ASSUME TypeOK, frames # <<>>, NEW src \in Vals, NEW r \in Originals, NEW q \in Vals,
           q = canonical_root(src), q # r, r \notin frames[Top].observing,
           ~ owns_a_live_resource(V(q), identities(V(src))),
           NEW g \in [Vals -> Value], vals' = [vals EXCEPT ![Top] = g],
           g[src] = <<Moved>>, g[q] = <<Moved>>, handles(V(r)) \subseteq handles(g[r]),
           \A u \in Vals : u \notin {r, src, q} => g[u] = V(u),
           frames' = frames, host' = host
    PROVE  Edits(g, identities(V(src)))
<1>1. <<Moved>> \in Value /\ handles(<<Moved>>) = {}
  <2>1. Moved \in Leaf /\ ~ is_handle(Moved)
    BY DEF Leaf, is_handle
  <2> QED
    BY <2>1, OneHandle
<1>2. r \in Vals /\ r # src
  BY ValueIds
<1>4. ASSUME NEW h \in handles(V(q)), h.role = "owner", observe(h) PROVE h.id \in identities(V(src))
  <2>1. record(h) /\ h \in {h} \cup below({h})
    BY <1>4 DEF observe
  <2> QED
    BY <1>4, <2>1 DEF owns_a_live_resource
<1>5. \A h \in handles(V(src)) : h.id \in identities(V(src))
  BY DEF identities, ids, collect_reachable
<1>6. frames[Top].observing \subseteq Vals /\ Loads \subseteq Vals /\ Originals \subseteq Vals
      /\ Loads \cap Originals = {}
  BY ObservingParams, ValueIds DEF Vals
<1>7. ASSUME NEW u \in Originals, NEW h \in handles(V(u)), h.role = "owner", observe(h),
             h.id \notin identities(V(src))
      PROVE  \E w \in Originals : h \in handles(g[w])
  <2>1. u # q /\ u # src
    BY <1>4, <1>5, <1>7
  <2>2. h \in handles(g[u])
    BY <1>6, <1>7, <2>1
  <2> QED
    BY <2>2
<1>8. ASSUME NEW u \in Vals, u # r, NEW h \in handles(g[u]) PROVE h \in handles(V(u))
  BY <1>1, <1>8
<1> QED
  BY <1>6, <1>7, <1>8 DEF Edits

\* StorePlace keeps the account.
LEMMA StorePlaceAccounted ==
    ASSUME TypeOK, TypeOK', OwnerInv, DeadBelowDead, Accounted, Verified, frames # <<>>,
           NEW root \in Vals, NEW src \in Vals, NEW p \in Paths, StorePlace(root, p, src), ~ failing'
    PROVE  Keeps
<1> DEFINE r == canonical_root(root)
           q == canonical_root(src)
           s == V(src)
           d == V(r)
           leaf == rebuilt(s)[1]
           c == container(d, p)
           d2 == [d EXCEPT ![p[1]] = leaf]
           f1 == [vals[Top] EXCEPT ![r] = d2]
<1>1. /\ r \in Vals /\ q \in Vals /\ s \in Value /\ d \in Value /\ r \in Originals
      /\ records \in Seq(ResourceRecord) /\ vals \in Seq([Vals -> Value])
      /\ Top \in DOMAIN vals /\ vals[Top] \in [Vals -> Value] /\ Top \in Nat
      /\ p \in Seq(Nat \ {0}) /\ Len(p) \in Nat
  BY TopFrame, ValueIds, BoundAssumption DEF TypeOK, Top
<1>2. /\ Len(s) = 1 /\ r \notin frames[Top].observing
      /\ ~ owns_a_live_resource(V(q), identities(s))
  BY DEF StorePlace, verified_store
<1>3. /\ leaf \in Leaf /\ rebuilt(s) \in Value
      /\ \A h \in handles(rebuilt(s)) : h = leaf /\ is_handle(leaf)
  <2>1. rebuilt(s) \in Value /\ DOMAIN rebuilt(s) = DOMAIN s /\ DOMAIN s = {1}
    BY <1>1, <1>2, RebuiltType DEF Value
  <2> QED
    BY <2>1, HandleAt DEF Value
<1>6. <<Moved>> \in Value /\ (q # r => src # r)
  <2>1. Moved \in Leaf
    BY DEF Leaf
  <2> QED
    BY <1>1, <2>1, OneHandle, ValueIds
<1>4. CASE /\ is_tombstone(leaf_at(d, p)) /\ Len(p) = 1 /\ plan_transfer(s) /\ q # r
           /\ records' = commit_transfer(s)
           /\ vals' = [vals EXCEPT ![Top][r][p[1]] = leaf, ![Top][src] = <<Moved>>,
                                   ![Top][q] = <<Moved>>]
           /\ OnlyTable
  <2>1. p[1] \in DOMAIN d /\ is_tombstone(d[p[1]])
    <3>1. ~ (Len(p) > 1)
      BY <1>4
    <3>2. p[1] \in DOMAIN d
      BY <1>4, LeafAssumption DEF is_tombstone, leaf_at
    <3> QED
      BY <1>4, <3>1, <3>2 DEF leaf_at
  <2>2. d2 \in Value
    BY <1>1, <1>3, <2>1, SetLeafType
  <2>3. f1 \in [Vals -> Value] /\ f1[r] = d2 /\ \A u \in Vals : u # r => f1[u] = V(u)
    BY <1>1, <2>2 DEF V
  <2>4. PICK g : g = [[f1 EXCEPT ![src] = <<Moved>>] EXCEPT ![q] = <<Moved>>]
    OBVIOUS
  <2>g. vals' = [vals EXCEPT ![Top] = g] /\ host' = host /\ frames' = frames
    BY <1>1, <1>4, <2>4 DEF V, OnlyTable
  <2>5. ASSUME NEW h \in handles(d) PROVE h \in handles(d2)
    <3>1. PICK i \in DOMAIN d : d[i] = h /\ is_handle(h)
      BY <1>1, <2>5, HandleAt
    <3>2. i # p[1]
      BY <2>1, <3>1 DEF is_handle, is_tombstone
    <3>3. i \in DOMAIN d2 /\ d2[i] = h
      BY <3>1, <3>2
    <3> HIDE DEF d2
    <3> QED
      BY <2>2, <3>1, <3>3, HandleAt
  <2>6. is_handle(leaf) => leaf \in handles(d2)
    <3>1. p[1] \in DOMAIN d2 /\ d2[p[1]] = leaf
      BY <2>1
    <3> HIDE DEF d2, leaf
    <3> QED
      BY <2>2, <3>1, HandleAt
  <2> HIDE DEF f1, d2
  <2>7. /\ g \in [Vals -> Value] /\ g[src] = <<Moved>> /\ g[q] = <<Moved>> /\ g[r] = d2
        /\ \A u \in Vals : u \notin {r, src, q} => g[u] = V(u)
    BY <1>1, <1>4, <1>6, <2>3, <2>4
  <2>8. Edits(g, identities(s))
    BY <1>1, <1>2, <1>4, <2>5, <2>7, <2>g, StoreEdits
  <2>9. \A h \in handles(rebuilt(s)) : \E w \in Vals : h \in handles(g[w])
    BY <1>1, <1>3, <2>6, <2>7
  <2> QED
    BY <1>1, <1>4, <2>8, <2>9, TransferEdit
<1>5. CASE /\ is_tombstone(leaf_at(d, p)) /\ Len(p) > 1 /\ plan_transfer(s) /\ q # r
           /\ records' = with_field(commit_transfer(s), c.id, Last(p), leaf)
           /\ vals' = [vals EXCEPT ![Top][src] = <<Moved>>, ![Top][q] = <<Moved>>]
           /\ OnlyTable
  <2>1. leaf_at(d, p) # Absent
    BY <1>5, LeafAssumption DEF is_tombstone
  <2>2. /\ c.id \in DOMAIN records /\ records[c.id].status = "alive"
        /\ Last(p) \in DOMAIN records[c.id].fields
        /\ leaf_at(d, p) = records[c.id].fields[Last(p)]
    BY <1>1, <1>5, <2>1, LeafStored
  <2>3. PICK g : g = [[vals[Top] EXCEPT ![src] = <<Moved>>] EXCEPT ![q] = <<Moved>>]
    OBVIOUS
  <2>4. vals' = [vals EXCEPT ![Top] = g] /\ host' = host /\ frames' = frames
    BY <1>1, <1>5, <2>3 DEF OnlyTable
  <2>g. /\ g \in [Vals -> Value] /\ g[src] = <<Moved>> /\ g[q] = <<Moved>> /\ g[r] = V(r)
        /\ \A u \in Vals : u \notin {r, src, q} => g[u] = V(u)
    BY <1>1, <1>5, <1>6, <2>3 DEF V
  <2>5. Edits(g, identities(s))
    BY <1>1, <1>2, <1>5, <2>4, <2>g, StoreEdits
  <2>6. PICK i, k : i = c.id /\ k = Last(p)
    OBVIOUS
  <2>7. i \in DOMAIN records /\ k \in DOMAIN records[i].fields /\ records[i].status = "alive"
        /\ is_tombstone(records[i].fields[k])
        /\ records' = with_field(commit_transfer(s), i, k, rebuilt(s)[1])
    BY <1>5, <2>2, <2>6
  <2> HIDE DEF c, s
  <2> QED
    BY <1>1, <1>2, <1>5, <2>5, <2>7, RefillEdit
<1> QED
  BY <1>4, <1>5 DEF StorePlace, validate_store_target, Attempt, Refuse

\* PlaceRead with OwnershipMode::Transfer keeps the account.
LEMMA PlaceReadTransferAccounted ==
    ASSUME TypeOK, TypeOK', OwnerInv, Accounted, frames # <<>>, NEW v \in Temps,
           NEW root \in Vals, NEW p \in Paths, ~ owns_a_live_resource(V(v), {}),
           PlaceReadTransfer(v, root, p), ~ failing'
    PROVE  Keeps
<1> DEFINE r == canonical_root(root)
           s == V(r)
           leaf == leaf_at(s, p)
           c == container(s, p)
<1>1. /\ r \in Vals /\ r \in Originals /\ s \in Value /\ records \in Seq(ResourceRecord)
      /\ p \in Seq(Nat \ {0}) /\ Len(p) \in Nat /\ v \in Vals
  BY TopFrame, ValueIds, BoundAssumption DEF TypeOK
<1>2. (Len(p) = 1 => p # <<>>) /\ (Len(p) > 1 => p # <<>> /\ Len(p) # 1)
  BY <1>1, PathLength
<1>3. CASE p = <<>> /\ Insert(v, s) /\ UNCHANGED records /\ OnlyTable
  <2>1. frames' = frames /\ host' = host
    BY <1>3 DEF OnlyTable
  <2>2. PICK g : Edits(g, {})
    BY <1>1, <1>3, <2>1, InsertEdits
  <2> QED
    BY <1>3, <2>2, ReadEdit
<1>4. CASE /\ Len(p) = 1 /\ place_exists(s, p)
           /\ vals' = [vals EXCEPT ![Top][r][p[1]] = tombstone(leaf), ![Top][v] = <<leaf>>]
           /\ UNCHANGED records /\ OnlyTable
  <2>1. p # <<>> /\ ~ (Len(p) > 1)
    BY <1>2, <1>4
  <2>2. p[1] \in DOMAIN s /\ leaf = s[p[1]]
    BY <1>4, <2>1 DEF place_exists, leaf_at
  <2>3. frames' = frames /\ host' = host
    BY <1>4 DEF OnlyTable
  <2>4. PICK k : k = p[1]
    OBVIOUS
  <2>5. /\ vals' = [vals EXCEPT ![Top][r][k] = tombstone(V(r)[k]), ![Top][v] = <<V(r)[k]>>]
        /\ k \in DOMAIN V(r)
    BY <1>4, <2>2, <2>4
  <2>6. PICK g : Edits(g, {})
    BY <1>1, <2>3, <2>5, TakeLeafEdits
  <2> QED
    BY <1>4, <2>6, ReadEdit
<1>5. CASE /\ Len(p) > 1 /\ place_exists(s, p)
           /\ records' = with_field(records, c.id, Last(p), tombstone(leaf))
           /\ Insert(v, <<leaf>>) /\ OnlyTable
  <2>1. leaf # Absent /\ leaf \in Leaf
    BY <1>1, <1>2, <1>5, LeafAtType DEF place_exists
  <2>2. PICK i, k : i = c.id /\ k = Last(p)
    OBVIOUS
  <2>3. /\ i \in DOMAIN records /\ k \in DOMAIN records[i].fields
        /\ leaf = records[i].fields[k]
    BY <1>1, <1>5, <2>1, <2>2, LeafStored
  <2>4. frames' = frames /\ host' = host /\ <<leaf>> \in Value
    BY <1>5, <2>1, OneHandle DEF OnlyTable
  <2>5. PICK g : Edits(g, {}) /\ g[v] = <<leaf>>
    BY <1>1, <1>5, <2>4, InsertEdits
  <2>6. is_handle(leaf) => leaf \in handles(g[v])
    BY <2>1, <2>5, OneHandle
  <2>7. records' = with_field(records, i, k, tombstone(leaf))
    BY <1>5, <2>2
  <2> HIDE DEF leaf, c
  <2> QED
    BY <1>1, <2>3, <2>5, <2>6, <2>7, TakeEdit
<1> QED
  BY <1>1, <1>3, <1>4, <1>5 DEF PlaceReadTransfer, Attempt, Refuse, take_projections, take_refused

-----------------------------------------------------------------------------
(***************************************************************************)
(* Calls and returns.                                                      *)
(***************************************************************************)

\* The table after a transfer that writes nothing else.
LEMMA TransferTable ==
    ASSUME TypeOK, NEW s \in Value, plan_transfer(s), records' = commit_transfer(s)
    PROVE  /\ DOMAIN records' = DOMAIN records /\ Grows /\ StaysDead
           /\ \A i \in DOMAIN records :
                 /\ records'[i].fields = records[i].fields
                 /\ records'[i].status = records[i].status
                 /\ i \in ids(handles(s)) <=> records'[i].generation # records[i].generation
           /\ \A h \in handles(rebuilt(s)) : h.role = "owner" /\ current(h)'
           /\ \A i : i \in Alive' <=> i \in Alive
<1>1. DOMAIN records' = DOMAIN records
  BY DEF commit_transfer
<1>2. /\ \A i \in DOMAIN records : records[i].generation <= records'[i].generation
      /\ \A h \in handles(rebuilt(s)) : h.role = "owner" /\ h.generation = records'[h.id].generation
  BY <1>1, CommitGrows
<1>3. \A i \in DOMAIN records : /\ records'[i].fields = records[i].fields
                                /\ records'[i].status = records[i].status
                                /\ i \in ids(handles(s))
                                     <=> records'[i].generation # records[i].generation
  BY CommitTable, RecordType
<1>4. Grows /\ StaysDead
  BY <1>1, <1>2, <1>3 DEF Grows, StaysDead
<1>5. \A i : i \in Alive' <=> i \in Alive
  BY <1>1, <1>3 DEF Alive
<1> QED
  BY <1>1, <1>2, <1>3, <1>4, <1>5 DEF current

\* A value that stays owns what did not change hands.
LEMMA OwnsAtKept ==
    ASSUME NEW f, NEW v, NEW i, OwnsAt(f, v, i), f \in DOMAIN vals',
           handles(vals[f][v]) \subseteq handles(vals'[f][v]),
           records'[i].generation = records[i].generation
    PROVE  OwnsAt(f, v, i)'
<1>1. PICK h \in handles(vals[f][v]) : h.role = "owner" /\ h.id = i /\ current(h)
  BY DEF OwnsAt
<1>2. current(h)'
  BY <1>1, StaysCurrent
<1>3. v \in Vals
  BY DEF OwnsAt
<1> QED
  BY <1>1, <1>2, <1>3 DEF OwnsAt

\* A value that owns something makes its frame an owner.
LEMMA FrameOfValue ==
    ASSUME NEW f, NEW v, NEW i
    PROVE  /\ OwnsAt(f, v, i) => FrameOwns(f, i)
           /\ FrameOwns(f, i) => \E w \in Vals : OwnsAt(f, w, i)
           /\ OwnsAt(f, v, i)' => \E p : Owns(p, i)'
<1>1. OwnsAt(f, v, i) => FrameOwns(f, i)
  BY DEF OwnsAt, FrameOwns, FrameHas
<1>2. FrameOwns(f, i) => \E w \in Vals : OwnsAt(f, w, i)
  BY DEF OwnsAt, FrameOwns, FrameHas
<1>3. ASSUME OwnsAt(f, v, i)' PROVE \E p : Owns(p, i)'
  <2>1. FrameOwns(f, i)'
    BY <1>3 DEF OwnsAt, FrameOwns, FrameHas
  <2>2. Owns(<<"frame", f>>, i)'
    BY <2>1 DEF Owns
  <2> QED
    BY <2>2
<1> QED
  BY <1>1, <1>2, <1>3

\* What a field or the host owns, and does not change hands, stays owned.
LEMMA ElsewhereKept ==
    ASSUME NEW i, records'[i].generation = records[i].generation,
           DOMAIN records' = DOMAIN records, host \subseteq host',
           \A j \in DOMAIN records : /\ records'[j].fields = records[j].fields
                                     /\ records'[j].status = records[j].status,
           HostOwns(i) \/ \E j : FieldOwns(j, i)
    PROVE  \E p : Owns(p, i)'
<1>1. CASE HostOwns(i)
  <2>1. PICK h \in host : h.role = "owner" /\ h.id = i /\ current(h)
    BY <1>1 DEF HostOwns
  <2>2. HostOwns(i)'
    BY <2>1, StaysCurrent DEF HostOwns
  <2>3. Owns(<<"host">>, i)'
    BY <2>2 DEF Owns
  <2> QED
    BY <2>3
<1>2. ASSUME NEW j, FieldOwns(j, i) PROVE \E p : Owns(p, i)'
  <2>1. PICK h : Stores(j, h) /\ records[j].status = "alive" /\ h.id = i /\ current(h)
    BY <1>2 DEF FieldOwns
  <2>2. Stores(j, h)' /\ records'[j].status = "alive" /\ current(h)'
    BY <2>1, StaysCurrent DEF Stores
  <2> QED
    BY <2>1, <2>2, StoredOwns
<1> QED
  BY <1>1, <1>2

\* The frames after a call is entered.
LEMMA EnteredFrames ==
    ASSUME TypeOK, NEW b, NEW fr, vals' = Append(vals, b), frames' = Append(frames, fr)
    PROVE  \E n :
           /\ DOMAIN vals' = DOMAIN vals \cup {n} /\ DOMAIN frames' = DOMAIN frames \cup {n}
           /\ DOMAIN frames = DOMAIN vals /\ n \notin DOMAIN vals /\ n - 1 = Top
           /\ frames = <<>> => ~ (n > 1)
           /\ \A f \in DOMAIN vals : vals'[f] = vals[f] /\ frames'[f] = frames[f]
           /\ \A f \in DOMAIN vals : f > 1 => f - 1 \in DOMAIN vals
           /\ vals'[n] = b /\ frames'[n] = fr
<1>1. /\ vals \in Seq([Vals -> Value]) /\ frames \in Seq(Frame) /\ Len(frames) = Top
      /\ Len(vals) = Top /\ Top \in Nat
  BY DEF TypeOK, Top
<1>5. PICK n : n = Top + 1
  OBVIOUS
<1>6. /\ DOMAIN vals' = DOMAIN vals \cup {n} /\ DOMAIN frames' = DOMAIN frames \cup {n}
      /\ DOMAIN frames = DOMAIN vals /\ n \notin DOMAIN vals /\ n - 1 = Top
      /\ \A f \in DOMAIN vals : vals'[f] = vals[f] /\ frames'[f] = frames[f]
      /\ \A f \in DOMAIN vals : f > 1 => f - 1 \in DOMAIN vals
      /\ vals'[n] = b /\ frames'[n] = fr
  BY <1>1, <1>5
<1>7. frames = <<>> => ~ (n > 1)
  BY <1>1, <1>5
<1> QED
  BY <1>6, <1>7

\* The parameters a call takes own what it hands over, the others observe.
LEMMA BoundParams ==
    ASSUME TypeOK, frames # <<>>, NEW args \in Arguments
    PROVE  /\ \A v \in Vals \ Params : handles(bindings(args)[v]) = {}
           /\ \A v \in observing_params(args) : \A h \in handles(bindings(args)[v]) :
                 h.role = "observer"
           /\ \A g \in handles(taken_args(args)) : \E v \in Vals :
                 [id |-> g.id, generation |-> g.generation + 1, role |-> "owner", lease |-> 0]
                    \in handles(bindings(args)[v])
<1>1. /\ DOMAIN args \subseteq DOMAIN ParamList /\ \A i \in DOMAIN ParamList : ParamList[i] \in Params
      /\ \A i, j \in DOMAIN ParamList : ParamList[i] = ParamList[j] => i = j
  BY ArgumentsShape, ValueIdAssumption, BoundAssumption DEF IsInjective
<1>2. handles(<<Absent>>) = {}
  <2>1. Absent \in Leaf /\ ~ is_handle(Absent)
    BY DEF Leaf, is_handle
  <2> QED
    BY <2>1, OneHandle
<1>3. Params \subseteq Vals
  BY DEF Vals
<1>4. ASSUME NEW i \in DOMAIN args
      PROVE  bindings(args)[ParamList[i]] = IF args[i].take THEN rebuilt(V(args[i].value))
                                            ELSE to_observing_view(V(args[i].value))
  <2>1. PICK v \in Vals : v = ParamList[i]
    BY <1>1, <1>3, <1>4
  <2>2. PICK j \in DOMAIN args :
          /\ ParamList[j] = v
          /\ bindings(args)[v] = IF args[j].take THEN rebuilt(V(args[j].value))
                                 ELSE to_observing_view(V(args[j].value))
    BY <2>1, BindingShape
  <2>3. j = i
    BY <1>1, <2>1, <2>2
  <2> QED
    BY <2>1, <2>2, <2>3
<1>5. ASSUME NEW v \in Vals \ Params PROVE handles(bindings(args)[v]) = {}
  <2>1. ~ \E i \in DOMAIN args : ParamList[i] = v
    BY <1>1, <1>5
  <2> QED
    BY <1>2, <2>1, BindingShape
<1>6. ASSUME NEW v \in observing_params(args), NEW h \in handles(bindings(args)[v])
      PROVE  h.role = "observer"
  <2>1. PICK i \in DOMAIN args : v = ParamList[i] /\ ~ args[i].take
    BY DEF observing_params
  <2>2. h \in handles(to_observing_view(V(args[i].value))) /\ V(args[i].value) \in Value
    BY <1>4, <1>6, <2>1, ArgumentsShape
  <2> QED
    BY <2>2, ViewHandles
<1>7. ASSUME NEW g \in handles(taken_args(args))
      PROVE  \E v \in Vals :
                [id |-> g.id, generation |-> g.generation + 1, role |-> "owner", lease |-> 0]
                   \in handles(bindings(args)[v])
  <2>1. PICK i \in DOMAIN args : args[i].take /\ g \in handles(V(args[i].value))
    BY <1>7, ArgumentsShape
  <2>2. V(args[i].value) \in Value /\ ParamList[i] \in Vals
    BY <1>1, <1>3, ArgumentsShape
  <2>3. bindings(args)[ParamList[i]] = rebuilt(V(args[i].value))
    BY <1>4, <2>1
  <2>4. [id |-> g.id, generation |-> g.generation + 1, role |-> "owner", lease |-> 0]
           \in handles(rebuilt(V(args[i].value)))
    BY <2>1, <2>2, RebuiltHolds
  <2> QED
    BY <2>2, <2>3, <2>4
<1> QED
  BY <1>5, <1>6, <1>7

\* A frame entered with bindings b keeps the account.
LEMMA EnterAccounted ==
    ASSUME TypeOK, TypeOK', HandlesKnown, Accounted, Grows, StaysDead,
           NEW b, NEW fr, vals' = Append(vals, b), frames' = Append(frames, fr), host' = host,
           DOMAIN records' = DOMAIN records,
           \A j \in DOMAIN records : /\ records'[j].fields = records[j].fields
                                     /\ records'[j].status = records[j].status,
           \A x \in Loads : handles(b[x]) = {},
           \A v \in fr.observing : \A h \in handles(b[v]) : h.role = "observer",
           \A slot : frames # <<>> /\ (slot = fr.ok \/ (slot = fr.err /\ fr.err # Absent)) =>
              /\ slot \in Temps \cup Slots
              /\ \A i \in Alive : OwnsAt(Top, slot, i) =>
                    records'[i].generation # records[i].generation,
           \A i \in Alive : records'[i].generation # records[i].generation => \E p : Owns(p, i)'
    PROVE  Keeps
<1>2. PICK n :
      /\ DOMAIN vals' = DOMAIN vals \cup {n} /\ DOMAIN frames' = DOMAIN frames \cup {n}
      /\ DOMAIN frames = DOMAIN vals /\ n \notin DOMAIN vals /\ n - 1 = Top
      /\ frames = <<>> => ~ (n > 1)
      /\ \A f \in DOMAIN vals : vals'[f] = vals[f] /\ frames'[f] = frames[f]
      /\ \A f \in DOMAIN vals : f > 1 => f - 1 \in DOMAIN vals
      /\ vals'[n] = b /\ frames'[n] = fr
  BY EnteredFrames
<1>3. \A i : i \in Alive' <=> i \in Alive
  BY DEF Alive
<1>4. ASSUME NEW f \in DOMAIN vals, NEW v, NEW i \in Alive', OwnsAt(f, v, i)'
      PROVE  /\ OwnsAt(f, v, i) /\ i \in Alive
             /\ records'[i].generation = records[i].generation
  BY <1>2, <1>4, OwnsAtBefore
<1>5. LoadCopies'
  <2>1. ASSUME NEW f, NEW x \in Loads, NEW i \in Alive', OwnsAt(f, x, i)'
        PROVE  \E v \in Originals : OwnsAt(f, v, i)'
    <3>1. CASE f \in DOMAIN vals
      <4>1. OwnsAt(f, x, i) /\ i \in Alive /\ records'[i].generation = records[i].generation
        BY <1>4, <2>1, <3>1
      <4>2. PICK v \in Originals : OwnsAt(f, v, i)
        BY <4>1 DEF Accounted, LoadCopies
      <4>3. OwnsAt(f, v, i)'
        BY <1>2, <3>1, <4>1, <4>2, OwnsAtKept
      <4> QED
        BY <4>3
    <3>2. CASE f = n
      BY <1>2, <2>1, <3>2 DEF OwnsAt
    <3>3. f \in DOMAIN vals'
      BY <2>1 DEF OwnsAt
    <3> QED
      BY <1>2, <3>1, <3>2, <3>3
  <2> QED
    BY <2>1 DEF LoadCopies, Originals
<1>6. ReturnSlotsFree'
  <2>1. ASSUME NEW f \in DOMAIN vals, NEW v, FreeSlot(f, v) PROVE FreeSlot(f, v)'
    BY <1>3, <1>4, <2>1 DEF FreeSlot
  <2>2. ASSUME frames # <<>>, NEW slot, slot = fr.ok \/ (slot = fr.err /\ fr.err # Absent)
        PROVE  FreeSlot(n - 1, slot)'
    <3>1. PICK top \in DOMAIN vals : top = Top
      BY <2>2, TopFrame
    <3>2. slot \in Temps \cup Slots
      BY <2>2
    <3>3. ASSUME NEW i \in Alive', OwnsAt(top, slot, i)' PROVE FALSE
      BY <1>4, <2>2, <3>1, <3>3
    <3>4. FreeSlot(top, slot)'
      BY <3>2, <3>3 DEF FreeSlot
    <3> QED
      BY <1>2, <3>1, <3>4
  <2>3. ASSUME NEW f \in DOMAIN frames', f > 1
        PROVE  (/\ FreeSlot(f - 1, frames[f].ok)
                /\ frames[f].err # Absent => FreeSlot(f - 1, frames[f].err))'
    <3>1. CASE f \in DOMAIN vals
      <4>1. f - 1 \in DOMAIN vals /\ frames'[f] = frames[f] /\ f \in DOMAIN frames
        BY <1>2, <2>3, <3>1
      <4>2. PICK o, e : o = frames[f].ok /\ e = frames[f].err
        OBVIOUS
      <4>3. FreeSlot(f - 1, o) /\ (e # Absent => FreeSlot(f - 1, e))
        BY <2>3, <4>1, <4>2 DEF Accounted, ReturnSlotsFree
      <4>4. FreeSlot(f - 1, o)' /\ (e # Absent => FreeSlot(f - 1, e)')
        BY <2>1, <4>1, <4>3
      <4> QED
        BY <4>1, <4>2, <4>4
    <3>2. CASE f = n
      <4>1. frames # <<>>
        BY <1>2, <2>3, <3>2
      <4>2. FreeSlot(n - 1, fr.ok)' /\ (fr.err # Absent => FreeSlot(n - 1, fr.err)')
        BY <2>2, <4>1
      <4> QED
        BY <1>2, <3>2, <4>2
    <3> QED
      BY <1>2, <3>1, <3>2
  <2> QED
    BY <2>3 DEF ReturnSlotsFree
<1>7. ObservingSees'
  <2>1. ASSUME NEW f \in DOMAIN frames', NEW v \in frames'[f].observing, NEW h \in handles(vals'[f][v])
        PROVE  h.role = "observer"
    <3>1. CASE f \in DOMAIN vals
      BY <1>2, <2>1, <3>1 DEF Accounted, ObservingSees
    <3>2. CASE f = n
      BY <1>2, <2>1, <3>2
    <3> QED
      BY <1>2, <3>1, <3>2
  <2> QED
    BY <2>1 DEF ObservingSees
<1>8. Owned'
  <2>1. ASSUME NEW i \in Alive', records'[i].generation = records[i].generation
        PROVE  \E p : Owns(p, i)'
    <3>1. PICK p : Owns(p, i)
      BY <1>3 DEF Accounted, Owned
    <3>2. CASE HostOwns(i) \/ \E j : FieldOwns(j, i)
      BY <2>1, <3>2, ElsewhereKept
    <3>3. ASSUME NEW f, FrameOwns(f, i) PROVE \E q : Owns(q, i)'
      <4>1. PICK v \in Vals : OwnsAt(f, v, i)
        BY <3>3, FrameOfValue
      <4>2. f \in DOMAIN vals
        BY <4>1 DEF OwnsAt
      <4>3. OwnsAt(f, v, i)'
        BY <1>2, <2>1, <4>1, <4>2, OwnsAtKept
      <4> QED
        BY <4>3, FrameOfValue
    <3> QED
      BY <3>1, <3>2, <3>3 DEF Owns
  <2> QED
    BY <1>3, <2>1 DEF Owned
<1>9. Loses
  BY <1>2 DEF Loses
<1> QED
  BY <1>5, <1>6, <1>7, <1>8, <1>9 DEF Accounted, Keeps

\* A call of the host finds no frame.
LEMMA HostCallAccounted ==
    ASSUME TypeOK, TypeOK', HandlesKnown, Accounted, HostCall
    PROVE  Keeps
<1>1. PICK fr : /\ fr = [mark |-> Len(leases), observing |-> {}, ok |-> Absent, err |-> Absent]
                /\ vals' = Append(vals, no_values) /\ frames' = Append(frames, fr)
                /\ frames = <<>> /\ records' = records /\ host' = host
  BY DEF HostCall, EnterFrame
<1>2. Grows /\ StaysDead
  BY <1>1, RecordType DEF Grows, StaysDead
<1>3. \A x \in Loads : handles(no_values[x]) = {}
  <2>1. Absent \in Leaf /\ ~ is_handle(Absent)
    BY DEF Leaf, is_handle
  <2>2. handles(<<Absent>>) = {}
    BY <2>1, OneHandle
  <2> QED
    BY <2>2, ValueIds DEF no_values
<1> QED
  BY <1>1, <1>2, <1>3, EnterAccounted

\* A call hands its arguments to the parameters, and finds its result slots
\* empty of anything else.
LEMMA CallAccounted ==
    ASSUME TypeOK, TypeOK', OwnerInv, DeadBelowDead, Accounted, frames # <<>>,
           NEW args \in Arguments, NEW ok \in Temps \cup Slots, NEW err \in Slots \cup {Absent},
           may_call(args), call_function(args, ok, err),
           \A slot \in {ok, err} \ {Absent} :
              ~ owns_a_live_resource(V(slot), identities(taken_args(args)))
    PROVE  Keeps
<1> DEFINE s == taken_args(args)
           b == bindings(args)
<1>1. s \in Value /\ plan_transfer(s) /\ records' = commit_transfer(s) /\ host' = host
  BY ArgumentsShape DEF may_call, call_function
<1>6. PICK fr : /\ fr = [mark |-> Len(leases), observing |-> observing_params(args),
                         ok |-> ok, err |-> err]
                /\ vals' = Append(vals, b) /\ frames' = Append(frames, fr)
  BY DEF call_function, EnterFrame
<1>7. fr.observing = observing_params(args) /\ fr.ok = ok /\ fr.err = err
  BY <1>6
<1>2. /\ DOMAIN records' = DOMAIN records /\ Grows /\ StaysDead
      /\ \A i \in DOMAIN records :
            /\ records'[i].fields = records[i].fields
            /\ records'[i].status = records[i].status
            /\ i \in ids(handles(s)) <=> records'[i].generation # records[i].generation
  BY <1>1, TransferTable
<1>3. /\ \A x \in Loads : handles(b[x]) = {}
      /\ \A v \in observing_params(args) : \A h \in handles(b[v]) : h.role = "observer"
  BY BoundParams, ValueIds
<1>4. ASSUME NEW slot, slot = ok \/ (slot = err /\ err # Absent)
      PROVE  /\ slot \in Temps \cup Slots
             /\ \A i \in Alive : OwnsAt(Top, slot, i) =>
                   records'[i].generation # records[i].generation
  <2>1. slot \in Temps \cup Slots /\ slot \in Vals /\ slot \in {ok, err} \ {Absent}
    BY <1>4, ValueIds
  <2>2. ASSUME NEW i \in Alive, OwnsAt(Top, slot, i)
        PROVE  records'[i].generation # records[i].generation
    <3>1. PICK h \in handles(V(slot)) : h.role = "owner" /\ h.id = i /\ current(h)
      BY <2>2 DEF OwnsAt, V
    <3>2. FrameHas(Top, h)
      BY <2>1, <3>1, TopHas
    <3>3. i \in identities(s)
      BY <2>1, <3>1, <3>2, LiveExits DEF OwnerInv
    <3>4. FrameOwns(Top, i)
      BY <2>2, FrameOfValue
    <3>5. i \in ids(handles(s))
      BY <1>1, <3>3, <3>4, ExitingIsHanded DEF plan_transfer
    <3> QED
      BY <1>2, <3>5 DEF Alive
  <2> QED
    BY <2>1, <2>2
<1>5. ASSUME NEW i \in Alive, records'[i].generation # records[i].generation
      PROVE  \E p : Owns(p, i)'
  <2>1. i \in ids(handles(s))
    BY <1>2, <1>5 DEF Alive
  <2>2. PICK g \in handles(s) : g.id = i
    BY <2>1 DEF ids
  <2>3. PICK h : h = [id |-> g.id, generation |-> g.generation + 1, role |-> "owner", lease |-> 0]
    OBVIOUS
  <2>4. PICK v \in Vals : h \in handles(b[v])
    BY <2>2, <2>3, BoundParams
  <2>5. h.id = i /\ h.role = "owner" /\ current(h)'
    <3>1. h \in handles(rebuilt(s))
      BY <1>1, <2>2, <2>3, RebuiltHolds
    <3> QED
      BY <1>1, <2>2, <2>3, <3>1, TransferTable
  <2>7. PICK n \in DOMAIN vals' : vals'[n] = b
    <3> HIDE DEF b, s
    <3> QED
      BY <1>6, EnteredFrames
  <2>8. OwnsAt(n, v, i)'
    <3> HIDE DEF b
    <3> QED
      BY <2>4, <2>5, <2>7 DEF OwnsAt
  <2> QED
    BY <2>8, FrameOfValue
<1> HIDE DEF b, s
<1> QED
  BY <1>1, <1>2, <1>3, <1>4, <1>5, <1>6, <1>7, EnterAccounted DEF OwnerInv

\* What a frame that may be left owned, it hands over (leaked_resource).
LEMMA LeavingHands ==
    ASSUME TypeOK, OwnerInv, DeadBelowDead, Accounted, frames # <<>>, NEW s \in Value,
           plan_transfer(s), ~ leaked_resource(identities(s)), NEW i \in Alive, FrameOwns(Top, i)
    PROVE  i \in ids(handles(s))
<1>1. PICK v \in Vals : OwnsAt(Top, v, i)
  BY FrameOfValue
<1>2. PICK h \in handles(V(v)) : h.role = "owner" /\ h.id = i /\ current(h)
  BY <1>1 DEF OwnsAt, V
<1>3. v \notin frames[Top].observing
  <2>1. Top \in DOMAIN frames
    BY TopFrame
  <2> QED
    BY <1>2, <2>1 DEF Accounted, ObservingSees, V
<1>4. ~ owns_a_live_resource(V(v), identities(s))
  BY <1>3 DEF leaked_resource
<1>5. FrameHas(Top, h)
  BY <1>2, TopHas
<1>6. i \in identities(s)
  BY <1>2, <1>4, <1>5, LiveExits DEF OwnerInv
<1> QED
  BY <1>6, ExitingIsHanded DEF plan_transfer

\* The frames after one is left.
LEMMA LeftFrames ==
    ASSUME TypeOK, TypeOK', frames # <<>>, Top # 1, NEW dest \in Vals, NEW s \in Value,
           LeaveFrame(dest, s)
    PROVE  \E t :
           /\ t = Top - 1 /\ t \in DOMAIN vals' /\ DOMAIN frames' = DOMAIN vals'
           /\ DOMAIN vals = DOMAIN vals' \cup {Top} /\ DOMAIN frames = DOMAIN vals
           /\ Top \notin DOMAIN vals' /\ host' = host
           /\ vals'[t][dest] = s
           /\ \A f \in DOMAIN vals' : /\ frames'[f] = frames[f]
                                      /\ \A v \in Vals : ~ (f = t /\ v = dest) => vals'[f][v] = vals[f][v]
           /\ \A f \in DOMAIN vals' : f > 1 => f - 1 \in DOMAIN vals' /\ f - 1 # t
<1> DEFINE F == Front(vals)
           G == Front(frames)
<1>1. /\ Top \in Nat \ {0} /\ vals \in Seq([Vals -> Value]) /\ vals # <<>> /\ Len(vals) = Top
      /\ frames \in Seq(Frame) /\ Len(frames) = Top
  BY PopType DEF TypeOK, Top
<1>2. /\ F \in Seq([Vals -> Value]) /\ Len(F) = Top - 1 /\ G \in Seq(Frame) /\ Len(G) = Top - 1
  BY PopType DEF Top
<1>3. /\ \A i \in 1..(Top - 1) : F[i] = vals[i]
      /\ \A i \in 1..(Top - 1) : G[i] = frames[i]
  BY <1>1, FrontType
<1>4. vals' = [F EXCEPT ![Top - 1][dest] = s] /\ host' = host /\ frames' = G
  BY DEF LeaveFrame
<1> HIDE DEF F, G
<1>5. PICK t : t = Top - 1
  OBVIOUS
<1>6. /\ DOMAIN F = 1..t /\ DOMAIN G = 1..t /\ t \in 1..t /\ DOMAIN vals = 1..Top
      /\ DOMAIN frames = 1..Top
  BY <1>1, <1>2, <1>5
<1>7. F[t] \in [Vals -> Value]
  BY <1>2, <1>6
<1>8. /\ DOMAIN vals' = 1..t /\ vals'[t] = [F[t] EXCEPT ![dest] = s]
      /\ \A f \in 1..t : f # t => vals'[f] = F[f]
  BY <1>4, <1>5, <1>6
<1>9. vals'[t][dest] = s /\ \A v \in Vals : v # dest => vals'[t][v] = F[t][v]
  BY <1>7, <1>8
<1>10. ASSUME NEW f \in 1..t, NEW v \in Vals, ~ (f = t /\ v = dest) PROVE vals'[f][v] = vals[f][v]
  <2>1. F[f] = vals[f]
    BY <1>3, <1>5
  <2>2. CASE f = t
    BY <1>9, <1>10, <2>1, <2>2
  <2>3. CASE f # t
    BY <1>8, <2>1, <2>3
  <2> QED
    BY <2>2, <2>3
<1>11. /\ 1..Top = 1..t \cup {Top} /\ Top \notin 1..t
       /\ \A f \in 1..t : f > 1 => f - 1 \in 1..t /\ f - 1 # t
  BY <1>1, <1>5
<1>12. \A f \in 1..t : frames'[f] = frames[f]
  BY <1>3, <1>4, <1>5
<1> QED
  BY <1>4, <1>5, <1>6, <1>8, <1>9, <1>10, <1>11, <1>12

\* A frame left with Ok keeps the account: its caller, or the host, is given
\* what it owned.
LEMMA LeaveAccounted ==
    ASSUME TypeOK, TypeOK', OwnerInv, DeadBelowDead, Accounted, frames # <<>>, NEW s \in Value,
           plan_transfer(s), ~ leaked_resource(identities(s)), records' = commit_transfer(s),
           NEW dest, Top # 1 => FreeSlot(Top - 1, dest), LeaveFrame(dest, rebuilt(s))
    PROVE  Keeps
<1> DEFINE M == ids(handles(s))
<1>1. /\ DOMAIN records' = DOMAIN records /\ Grows /\ StaysDead
      /\ \A i \in DOMAIN records :
            /\ records'[i].fields = records[i].fields
            /\ records'[i].status = records[i].status
            /\ i \in M <=> records'[i].generation # records[i].generation
      /\ \A h \in handles(rebuilt(s)) : h.role = "owner" /\ current(h)'
      /\ \A i : i \in Alive' <=> i \in Alive
  BY TransferTable
<1>2. \A i \in Alive : FrameOwns(Top, i) => i \in M
  BY LeavingHands
<1>3. \A i \in Alive : i \in DOMAIN records
  BY DEF Alive
<1>4. rebuilt(s) \in Value
  BY RebuiltType
<1>7. \A f \in DOMAIN frames : frames[f] \in Frame
  <2>1. frames \in Seq(Frame)
    BY DEF TypeOK
  <2> QED
    BY <2>1
<1>5. CASE Top = 1
  <2>1. vals' = <<>> /\ host' = host \cup handles(rebuilt(s)) /\ DOMAIN vals = {1}
    BY <1>5 DEF LeaveFrame, TypeOK, Top
  <2>2. DOMAIN vals' = {} /\ DOMAIN frames' = {}
    BY <2>1 DEF TypeOK
  <2>3. LoadCopies' /\ ReturnSlotsFree' /\ ObservingSees'
    BY <2>2 DEF LoadCopies, ReturnSlotsFree, ObservingSees, OwnsAt
  <2>4. ASSUME NEW i \in Alive, i \in M PROVE \E p : Owns(p, i)'
    <3>1. PICK h \in handles(rebuilt(s)) : h.id = i /\ h.role = "owner"
      BY <2>4, RebuiltOf
    <3>2. HostOwns(i)'
      BY <1>1, <2>1, <3>1 DEF HostOwns
    <3>3. Owns(<<"host">>, i)'
      BY <3>2 DEF Owns
    <3> QED
      BY <3>3
  <2>5. ASSUME NEW i \in Alive, i \notin M PROVE \E p : Owns(p, i)'
    <3>1. PICK p : Owns(p, i)
      BY DEF Accounted, Owned
    <3>2. \A f : ~ FrameOwns(f, i)
      BY <1>2, <1>5, <2>1, <2>5 DEF FrameOwns, FrameHas
    <3>3. HostOwns(i) \/ \E j : FieldOwns(j, i)
      BY <3>1, <3>2 DEF Owns
    <3>4. records'[i].generation = records[i].generation
      BY <1>1, <1>3, <2>5
    <3> QED
      BY <1>1, <2>1, <3>3, <3>4, ElsewhereKept
  <2>6. Owned'
    BY <1>1, <2>4, <2>5 DEF Owned
  <2>7. Loses
    BY <2>2 DEF Loses
  <2> QED
    BY <2>3, <2>6, <2>7 DEF Accounted, Keeps
<1>6. CASE Top # 1
  <2>1. FreeSlot(Top - 1, dest) /\ dest \in Temps \cup Slots /\ dest \in Vals
    BY <1>6, ValueIds DEF FreeSlot
  <2>2. PICK t :
           /\ t = Top - 1 /\ t \in DOMAIN vals' /\ DOMAIN frames' = DOMAIN vals'
           /\ DOMAIN vals = DOMAIN vals' \cup {Top} /\ DOMAIN frames = DOMAIN vals
           /\ Top \notin DOMAIN vals' /\ host' = host
           /\ vals'[t][dest] = rebuilt(s)
           /\ \A f \in DOMAIN vals' : /\ frames'[f] = frames[f]
                                      /\ \A v \in Vals : ~ (f = t /\ v = dest) => vals'[f][v] = vals[f][v]
           /\ \A f \in DOMAIN vals' : f > 1 => f - 1 \in DOMAIN vals' /\ f - 1 # t
    BY <1>4, <1>6, <2>1, LeftFrames
  <2>3. \A i \in Alive : ~ OwnsAt(t, dest, i)
    <3>1. FreeSlot(t, dest)
      BY <2>1, <2>2
    <3> QED
      BY <3>1 DEF FreeSlot
  <2>4. ASSUME NEW f \in DOMAIN vals', NEW v \in Vals, ~ (f = t /\ v = dest), NEW i \in Alive',
               OwnsAt(f, v, i)'
        PROVE  /\ OwnsAt(f, v, i) /\ i \in Alive
               /\ records'[i].generation = records[i].generation
    <3>1. f \in DOMAIN vals /\ vals'[f][v] = vals[f][v]
      BY <2>2, <2>4
    <3> QED
      BY <1>1, <2>4, <3>1, OwnsAtBefore DEF OwnerInv
  <2>5. ASSUME NEW f \in DOMAIN vals', NEW v \in Vals, NEW i \in Alive, OwnsAt(f, v, i), i \notin M
        PROVE  OwnsAt(f, v, i)'
    <3>1. ~ (f = t /\ v = dest)
      BY <2>3, <2>5
    <3>2. vals'[f][v] = vals[f][v]
      BY <2>2, <3>1
    <3>3. records'[i].generation = records[i].generation
      BY <1>1, <1>3, <2>5
    <3> QED
      BY <2>5, <3>2, <3>3, OwnsAtKept
  <2>6. LoadCopies'
    <3>1. ASSUME NEW f, NEW x \in Loads, NEW i \in Alive', OwnsAt(f, x, i)'
          PROVE  \E v \in Originals : OwnsAt(f, v, i)'
      <4>1. f \in DOMAIN vals' /\ x \in Vals /\ x # dest
        BY <2>1, <3>1, ValueIds DEF OwnsAt
      <4>2. OwnsAt(f, x, i) /\ i \in Alive /\ records'[i].generation = records[i].generation
        BY <2>4, <3>1, <4>1
      <4>3. PICK v \in Originals : OwnsAt(f, v, i)
        BY <4>2 DEF Accounted, LoadCopies
      <4>4. OwnsAt(f, v, i)'
        BY <1>1, <1>3, <2>5, <4>1, <4>2, <4>3, ValueIds
      <4> QED
        BY <4>4
    <3> QED
      BY <3>1 DEF LoadCopies, Originals
  <2>7. ReturnSlotsFree'
    <3>1. ASSUME NEW f \in DOMAIN vals', f # t, NEW v, FreeSlot(f, v) PROVE FreeSlot(f, v)'
      BY <1>1, <2>4, <3>1, ValueIds DEF FreeSlot
    <3>2. ASSUME NEW f \in DOMAIN frames', f > 1
          PROVE  (/\ FreeSlot(f - 1, frames[f].ok)
                  /\ frames[f].err # Absent => FreeSlot(f - 1, frames[f].err))'
      <4>1. f - 1 \in DOMAIN vals' /\ f - 1 # t /\ frames'[f] = frames[f] /\ f \in DOMAIN frames
        BY <2>2, <3>2
      <4>2. PICK o, e : o = frames[f].ok /\ e = frames[f].err
        OBVIOUS
      <4>3. FreeSlot(f - 1, o) /\ (e # Absent => FreeSlot(f - 1, e))
        BY <3>2, <4>1, <4>2 DEF Accounted, ReturnSlotsFree
      <4>4. FreeSlot(f - 1, o)' /\ (e # Absent => FreeSlot(f - 1, e)')
        BY <3>1, <4>1, <4>3
      <4> QED
        BY <4>1, <4>2, <4>4
    <3> QED
      BY <3>2 DEF ReturnSlotsFree
  <2>8. ObservingSees'
    <3>1. ASSUME NEW f \in DOMAIN frames', NEW v \in frames'[f].observing,
                 NEW h \in handles(vals'[f][v])
          PROVE  h.role = "observer"
      <4>1. frames'[f] = frames[f] /\ f \in DOMAIN frames /\ frames[f] \in Frame
        BY <1>7, <2>2, <3>1
      <4>2. v \in Params
        BY <3>1, <4>1 DEF Frame
      <4>3. v \in Vals /\ v # dest
        BY <2>1, <4>2, ValueIds DEF Vals
      <4>4. vals'[f][v] = vals[f][v]
        BY <2>2, <3>1, <4>3
      <4> QED
        BY <3>1, <4>1, <4>4 DEF Accounted, ObservingSees
    <3> QED
      BY <3>1 DEF ObservingSees
  <2>9. ASSUME NEW i \in Alive, i \in M PROVE \E p : Owns(p, i)'
    <3>1. PICK h \in handles(rebuilt(s)) : h.id = i /\ h.role = "owner"
      BY <2>9, RebuiltOf
    <3>2. OwnsAt(t, dest, i)'
      BY <1>1, <2>1, <2>2, <3>1 DEF OwnsAt
    <3> QED
      BY <3>2, FrameOfValue
  <2>10. ASSUME NEW i \in Alive, i \notin M PROVE \E p : Owns(p, i)'
    <3>1. PICK p : Owns(p, i)
      BY DEF Accounted, Owned
    <3>2. CASE HostOwns(i) \/ \E j : FieldOwns(j, i)
      <4>1. records'[i].generation = records[i].generation
        BY <1>1, <1>3, <2>10
      <4> QED
        BY <1>1, <2>2, <3>2, <4>1, ElsewhereKept
    <3>3. ASSUME NEW f, FrameOwns(f, i) PROVE \E q : Owns(q, i)'
      <4>1. PICK v \in Vals : OwnsAt(f, v, i)
        BY <3>3, FrameOfValue
      <4>2. f # Top /\ f \in DOMAIN vals
        BY <1>2, <2>10, <3>3, <4>1 DEF OwnsAt
      <4>3. OwnsAt(f, v, i)'
        BY <2>2, <2>5, <2>10, <4>1, <4>2
      <4> QED
        BY <4>3, FrameOfValue
    <3> QED
      BY <3>1, <3>2, <3>3 DEF Owns
  <2>11. Owned'
    BY <1>1, <2>9, <2>10 DEF Owned
  <2>12. Loses
    <3>1. ASSUME NEW f \in DOMAIN frames', NEW v \in frames[f].observing
          PROVE  vals'[f][v] = vals[f][v]
      <4>1. f \in DOMAIN frames /\ frames[f] \in Frame
        BY <1>7, <2>2, <3>1
      <4>2. v \in Params
        BY <3>1, <4>1 DEF Frame
      <4>3. v \in Vals /\ v # dest
        BY <2>1, <4>2, ValueIds DEF Vals
      <4> QED
        BY <2>2, <3>1, <4>3
    <3>2. \A f \in DOMAIN frames' : frames'[f] = frames[f]
      BY <2>2
    <3> QED
      BY <3>1, <3>2 DEF Loses
  <2> QED
    BY <2>6, <2>7, <2>8, <2>11, <2>12 DEF Accounted, Keeps
<1> QED
  BY <1>5, <1>6

-----------------------------------------------------------------------------
(***************************************************************************)
(* Every step.                                                             *)
(***************************************************************************)

\* A transfer into a result id that owns nothing else.
LEMMA MoveAccounted ==
    ASSUME TypeOK, TypeOK', OwnerInv, DeadBelowDead, Accounted, frames # <<>>,
           NEW v \in Temps \cup Slots, NEW s \in Value, plan_transfer(s),
           ~ owns_a_live_resource(V(v), identities(s)),
           records' = commit_transfer(s), Insert(v, rebuilt(s)), OnlyTable
    PROVE  Keeps
<1>1. frames' = frames /\ host' = host /\ rebuilt(s) \in Value /\ v \in Vals
  BY RebuiltType, ValueIds DEF OnlyTable
<1>2. PICK g : Edits(g, identities(s)) /\ g[v] = rebuilt(s)
  BY <1>1, InsertEdits
<1> QED
  BY <1>1, <1>2, TransferEdit

\* An instruction that writes one result and leaves the table alone.
LEMMA ResultAccounted ==
    ASSUME TypeOK, TypeOK', OwnerInv, Accounted, frames # <<>>, NEW v \in Temps \cup Slots,
           NEW s \in Value, ~ owns_a_live_resource(V(v), {}), Insert(v, s),
           records' = records, frames' = frames, host' = host
    PROVE  Keeps
<1>1. PICK g : Edits(g, {})
  BY InsertEdits
<1> QED
  BY <1>1, ReadEdit

\* The instructions that move values into their result keep the account.
LEMMA TransferInstructionAccounted ==
    ASSUME TypeOK, TypeOK', OwnerInv, DeadBelowDead, Accounted, frames # <<>>,
           NEW v \in Temps, TransferInstruction(v), ~ failing'
    PROVE  Keeps
<1>1. \A u \in Vals : V(u) \in Value
  BY TopFrame
<1>2. ASSUME NEW src \in Vals, Fresh(v, identities(V(src))), Move(v, src) PROVE Keeps
  <2>1. /\ plan_transfer(V(src)) /\ records' = commit_transfer(V(src))
        /\ Insert(v, rebuilt(V(src))) /\ OnlyTable
    BY <1>2 DEF Move, Attempt, Refuse
  <2> QED
    BY <1>1, <1>2, <2>1, MoveAccounted DEF Fresh
<1>3. ASSUME NEW args \in Args(2), Fresh(v, identities(Concat(args))), AggregateCreate(v, args)
      PROVE  Keeps
  <2>1. /\ plan_transfer(Concat(args)) /\ records' = commit_transfer(Concat(args))
        /\ Insert(v, rebuilt(Concat(args))) /\ OnlyTable
    BY <1>3 DEF AggregateCreate, Attempt, Refuse
  <2>2. Concat(args) \in Value
    BY ConcatType
  <2> QED
    BY <1>3, <2>1, <2>2, MoveAccounted DEF Fresh
<1>4. ASSUME NEW args \in Args(2), Fresh(v, identities(Concat(args))), ResourceCreate(v, args)
      PROVE  Keeps
  <2>1. PICK s \in Value : s = Concat(args)
    BY ConcatType
  <2>2. /\ plan_transfer(s) /\ records' = Append(commit_transfer(s), new_record(s))
        /\ Insert(v, <<new_handle>>) /\ frames' = frames /\ host' = host
    BY <1>4, <2>1 DEF ResourceCreate, Attempt, Refuse, new_record, new_handle, OnlyTable
  <2>3. new_handle \in Handle
    <3>1. Len(records) + 1 \in Nat
      BY DEF TypeOK
    <3> QED
      BY <3>1 DEF new_handle, Handle
  <2>4. new_handle \in Leaf /\ is_handle(new_handle)
    BY <2>3, HandleLeaf DEF Leaf
  <2>5. <<new_handle>> \in Value /\ handles(<<new_handle>>) = {new_handle} /\ v \in Vals
    BY <2>4, OneHandle, ValueIds
  <2>6. PICK g : Edits(g, identities(s)) /\ g[v] = <<new_handle>>
    BY <1>4, <2>1, <2>2, <2>5, InsertEdits DEF Fresh
  <2> QED
    BY <2>2, <2>5, <2>6, CreateEdit
<1>5. ASSUME NEW args \in Arguments, Fresh(v, identities(taken_args(args))), Call(v, args)
      PROVE  Keeps
  <2>1. may_call(args) /\ call_function(args, v, Absent)
    BY <1>5 DEF Call, Attempt, Refuse
  <2> QED
    BY <1>5, <2>1, CallAccounted DEF Fresh
<1> QED
  BY <1>2, <1>3, <1>4, <1>5 DEF TransferInstruction

\* A read of a place.
LEMMA ReadViewAccounted ==
    ASSUME TypeOK, TypeOK', OwnerInv, Accounted, frames # <<>>, NEW v \in Temps,
           ~ owns_a_live_resource(V(v), {}), NEW u \in Vals, NEW p \in Paths,
           read_view(v, V(u), p), ~ failing'
    PROVE  Keeps
<1> DEFINE seen == observe_projections(V(u), p)
<1>1. place_exists(V(u), p) /\ Insert(v, to_observing_view(seen)) /\ OnlyVals
  BY DEF read_view, Attempt, Refuse
<1>2. seen \in Value
  BY <1>1, TopFrame, BoundAssumption, ObserveProjectionsType DEF TypeOK
<1>3. to_observing_view(seen) \in Value
  BY <1>2, RebuiltType
<1> QED
  BY <1>1, <1>3, ResultAccounted DEF OnlyVals

\* The other instructions that define a result keep the account.
LEMMA ValueInstructionAccounted ==
    ASSUME TypeOK, TypeOK', OwnerInv, Accounted, frames # <<>>, NEW v \in Temps,
           Fresh(v, {}), ValueInstruction(v), ~ failing'
    PROVE  Keeps
<1>1. /\ \A u \in Vals : V(u) \in Value /\ canonical_root(u) \in Vals
      /\ ~ owns_a_live_resource(V(v), {})
  BY TopFrame DEF Fresh
<1>2. ASSUME Const(v) PROVE Keeps
  <2>1. PICK c \in Constants : Insert(v, <<c>>) /\ OnlyVals
    BY <1>2 DEF Const
  <2>2. <<c>> \in Value
    BY BoundAssumption, OneHandle DEF Leaf
  <2> QED
    BY <1>1, <2>1, <2>2, ResultAccounted DEF OnlyVals
<1>3. ASSUME NEW root \in Vals, NEW p \in Paths, PlaceReadObserve(v, root, p) PROVE Keeps
  BY <1>1, <1>3, ReadViewAccounted DEF PlaceReadObserve
<1>4. ASSUME NEW root \in Vals, NEW p \in Paths, RecordField(v, root, p) PROVE Keeps
  BY <1>1, <1>4, ReadViewAccounted DEF RecordField
<1>5. ASSUME NEW root \in Vals, NEW p \in Paths, PlaceReadTransfer(v, root, p) PROVE Keeps
  BY <1>1, <1>5, PlaceReadTransferAccounted
<1>6. ASSUME NEW root \in Vals, NEW p \in Paths, NEW o \in Observations, begin_observe(v, o, root, p)
      PROVE  Keeps
  <2>1. PICK r \in Vals : r = canonical_root(root)
    BY <1>1
  <2>2. PICK seen, l : seen = observe_projections(V(r), p) /\ l = Len(leases) + 1
    OBVIOUS
  <2>3. /\ place_exists(V(r), p) /\ Insert(v, to_leased_view(seen, l))
        /\ records' = records /\ frames' = frames /\ host' = host
    BY <1>6, <2>1, <2>2 DEF begin_observe, Attempt, Refuse
  <2>4. seen \in Value /\ l \in Nat
    BY <1>1, <2>2, <2>3, BoundAssumption, ObserveProjectionsType DEF TypeOK
  <2>5. to_leased_view(seen, l) \in Value
    BY <2>4, RebuiltType
  <2> QED
    BY <1>1, <2>3, <2>5, ResultAccounted
<1>7. ASSUME NEW base \in Vals, NEW i \in 1..MaxLeaves, VariantPayload(v, base, i) PROVE Keeps
  <2>1. i \in DOMAIN V(base) /\ Insert(v, <<V(base)[i]>>) /\ OnlyVals
    BY <1>7 DEF VariantPayload, Attempt, Refuse
  <2>2. V(base)[i] \in Leaf
    BY <1>1, <2>1 DEF Value
  <2>3. <<V(base)[i]>> \in Value
    BY <2>2, OneHandle
  <2> QED
    BY <1>1, <2>1, <2>3, ResultAccounted DEF OnlyVals
<1> QED
  BY <1>2, <1>3, <1>4, <1>5, <1>6, <1>7 DEF ValueInstruction

\* Every instruction of a verified module keeps the account, or fails.
LEMMA InstructionAccounted ==
    ASSUME TypeOK, TypeOK', OwnerInv, DeadBelowDead, Accounted, Verified, frames # <<>>,
           Instruction, ~ failing'
    PROVE  Keeps
<1>1. /\ \A u \in Vals : V(u) \in Value
      /\ Slots \subseteq Vals
  BY TopFrame DEF Vals
<1>2. ASSUME NEW v \in Temps, TransferInstruction(v) PROVE Keeps
  BY <1>2, TransferInstructionAccounted
<1>3. ASSUME NEW v \in Temps, Fresh(v, {}), ValueInstruction(v) PROVE Keeps
  BY <1>3, ValueInstructionAccounted
<1>4. ASSUME NEW x \in Loads, Load(x) PROVE Keeps
  <2>1. Insert(x, V(LoadOrigin[x])) /\ OnlyVals
    BY <1>4 DEF Load, Attempt, Refuse
  <2>2. PICK g : Edits(g, {})
    BY <2>1, LoadEdits DEF OnlyVals
  <2> QED
    BY <2>1, <2>2, ReadEdit DEF OnlyVals
<1>5. ~ ArithmeticFailure
  BY DEF ArithmeticFailure, Refuse
<1>6. ASSUME NEW base \in Vals, NEW t \in (1..MaxLeaves) \X Temps, NEW u \in (1..MaxLeaves) \X Temps,
             DecomposeVariant(base, {t, u})
      PROVE  Keeps
  <2>1. /\ \A e \in {t, u} : /\ e[2] # canonical_root(base)
                             /\ V(e[2]) = <<V(canonical_root(base))[e[1]]>>
        /\ Insert(canonical_root(base),
                  [i \in DOMAIN V(canonical_root(base)) |->
                      IF \E e \in {t, u} : e[1] = i THEN tombstone(V(canonical_root(base))[i])
                      ELSE V(canonical_root(base))[i]])
        /\ OnlyVals
    BY <1>6 DEF DecomposeVariant, Attempt, Refuse
  <2>2. PICK g : Edits(g, {})
    BY <2>1, DecomposeEdits DEF OnlyVals
  <2> QED
    BY <2>1, <2>2, ReadEdit DEF OnlyVals
<1>7. ASSUME NEW slot \in Slots, NEW v \in Vals, StoreTransfer(slot, v) PROVE Keeps
  <2>1. /\ plan_transfer(V(v)) /\ ~ owns_a_live_resource(V(slot), identities(V(v)))
        /\ records' = commit_transfer(V(v)) /\ Insert(slot, rebuilt(V(v))) /\ OnlyTable
    BY <1>7 DEF StoreTransfer, Attempt, Refuse
  <2> QED
    BY <1>1, <2>1, MoveAccounted
<1>8. ASSUME NEW slot \in Slots, NEW v \in Vals, StoreObserve(slot, v) PROVE Keeps
  <2>1. /\ ~ owns_a_live_resource(V(slot), {}) /\ Insert(slot, to_observing_view(V(v))) /\ OnlyVals
    BY <1>8 DEF StoreObserve, Attempt, Refuse
  <2>2. to_observing_view(V(v)) \in Value
    BY <1>1, RebuiltType
  <2> QED
    BY <2>1, <2>2, ResultAccounted DEF OnlyVals
<1>9. ASSUME NEW v \in Vals, Drop(v) PROVE Keeps
  <2>1. PICK s \in Value : s = V(v)
    BY <1>1
  <2>2. /\ plan_drop(s) /\ Insert(v, <<Absent>>) /\ frames' = frames /\ host' = host
        /\ records' = [i \in DOMAIN records |->
                          IF i \in identities(s)
                          THEN [records[i] EXCEPT !.status = "dropped"]
                          ELSE records[i]]
    BY <1>9, <2>1 DEF Drop, Attempt, Refuse, OnlyTable
  <2>3. PICK g : Edits(g, identities(s))
    BY <2>1, <2>2, DropEdits
  <2> QED
    BY <2>2, <2>3, DropEdit
<1>10. ASSUME NEW root \in Vals, NEW src \in Vals, NEW p \in Paths, StorePlace(root, p, src)
       PROVE  Keeps
  BY <1>10, StorePlaceAccounted
<1>11. ASSUME NEW o \in Observations, end_observe(o) PROVE Keeps
  <2>1. records' = records /\ vals' = vals /\ frames' = frames /\ host' = host
    BY <1>11 DEF end_observe, Attempt, Refuse
  <2> QED
    BY <2>1 DEF Accounted, LoadCopies, ReturnSlotsFree, ObservingSees, Owned, FreeSlot, OwnsAt,
                Owns, FrameOwns, FieldOwns, HostOwns, FrameHas, Stores, current, Alive, Keeps, Loses
<1> QED
  BY <1>2, <1>3, <1>4, <1>5, <1>6, <1>7, <1>8, <1>9, <1>10, <1>11 DEF Instruction

\* Every terminator keeps the account, or fails.
LEMMA TerminatorAccounted ==
    ASSUME TypeOK, TypeOK', OwnerInv, DeadBelowDead, Accounted, frames # <<>>,
           Terminator, ~ failing'
    PROVE  Keeps
<1>1. \A u \in Vals : V(u) \in Value
  BY TopFrame
<1>2. <<Scalar>> \in Value
  BY OneHandle DEF Leaf
<1>3. Top \in DOMAIN frames /\ Top \in Nat \ {0} /\ Top # 1 => Top > 1
  BY TopFrame, PopType DEF Top
<1>4. ASSUME NEW args \in Arguments, NEW ok \in Slots, NEW err \in Slots, Invoke(args, ok, err)
      PROVE  Keeps
  <2>1. /\ may_call(args) /\ call_function(args, ok, err)
        /\ \A slot \in {ok, err} : ~ owns_a_live_resource(V(slot), identities(taken_args(args)))
    BY <1>4 DEF Invoke, Attempt, Refuse
  <2> QED
    BY <2>1, CallAccounted
<1>5. ASSUME NEW s \in Value, Return(s) PROVE Keeps
  <2>1. PICK dest : dest = frames[Top].ok
    OBVIOUS
  <2>2. /\ plan_transfer(s) /\ ~ leaked_resource(identities(s)) /\ records' = commit_transfer(s)
        /\ LeaveFrame(dest, rebuilt(s))
    BY <1>5, <2>1 DEF Return, Attempt, Refuse
  <2>3. Top # 1 => FreeSlot(Top - 1, dest)
    BY <1>3, <2>1, TopFrame, PopType DEF Accounted, ReturnSlotsFree, Top
  <2> QED
    BY <2>2, <2>3, LeaveAccounted
<1>6. ASSUME NEW s \in Value, NEW handled \in BOOLEAN, Raise(s, handled) PROVE Keeps
  <2>1. PICK dest : dest = frames[Top].err
    OBVIOUS
  <2>2. /\ plan_transfer(s) /\ ~ leaked_resource(identities(s)) /\ records' = commit_transfer(s)
        /\ LeaveFrame(dest, rebuilt(s)) /\ (Top # 1 => dest # Absent)
    BY <1>6, <2>1 DEF Raise, Attempt, Refuse
  <2>3. Top # 1 => FreeSlot(Top - 1, dest)
    BY <1>3, <2>1, <2>2, TopFrame, PopType DEF Accounted, ReturnSlotsFree, Top
  <2> QED
    BY <2>2, <2>3, LeaveAccounted
<1> QED
  BY <1>1, <1>2, <1>4, <1>5, <1>6 DEF Terminator

\* An execution that failed never goes on.
LEMMA FailureLasts ==
    ASSUME TypeOK, [Next]_vars, Going'
    PROVE  Going
<1>1. CASE UNCHANGED vars
  BY <1>1 DEF vars, Going
<1>2. CASE HostCall
  BY <1>2 DEF HostCall, Going
<1>3. CASE Unwind
  BY <1>3 DEF Unwind, Going
<1>4. CASE Running /\ (Instruction \/ Terminator)
  <2>1. ~ failing
    BY <1>4 DEF Running
  <2>2. terminated' = terminated
    BY <1>4, RunningKeeps DEF Running
  <2> QED
    BY <2>1, <2>2 DEF Going
<1> QED
  BY <1>1, <1>2, <1>3, <1>4 DEF Next

\* Every step keeps the invariant.
LEMMA OrphanStep ==
    ASSUME TypeOK, TypeOK', OwnerInv, OrphanInv, [Next]_vars
    PROVE  OrphanInv'
<1>1. DeadBelowDead'
  BY StepKind, DeadStep DEF OrphanInv, OwnerInv
<1>2. ASSUME Going' PROVE Accounted'
  <2>1. Going /\ Verified /\ ~ failing' /\ Accounted /\ DeadBelowDead
    BY <1>2, FailureLasts DEF Going, OrphanInv
  <2>2. CASE UNCHANGED vars
    BY <2>1, <2>2 DEF vars, Accounted, LoadCopies, ReturnSlotsFree, ObservingSees, Owned, FreeSlot,
       OwnsAt, Owns, FrameOwns, FieldOwns, HostOwns, FrameHas, Stores, current, Alive
  <2>3. CASE HostCall
    BY <2>1, <2>3, HostCallAccounted DEF OwnerInv, Keeps
  <2>4. CASE Running /\ Instruction
    BY <2>1, <2>4, InstructionAccounted DEF Running, Keeps
  <2>5. CASE Running /\ Terminator
    BY <2>1, <2>5, TerminatorAccounted DEF Running, Keeps
  <2>6. CASE Unwind
    BY <2>1, <2>6 DEF Unwind, Going
  <2> QED
    BY <2>2, <2>3, <2>4, <2>5, <2>6 DEF Next
<1> QED
  BY <1>1, <1>2 DEF OrphanInv

\* The invariant holds in every execution.
LEMMA OrphanInvariant == Spec => []OrphanInv
<1>1. Init => OrphanInv
  <2> SUFFICES ASSUME Init PROVE OrphanInv
    OBVIOUS
  <2>1. DOMAIN records = {} /\ DOMAIN vals = {} /\ DOMAIN frames = {}
    BY DEF Init
  <2> QED
    BY <2>1 DEF OrphanInv, DeadBelowDead, Accounted, LoadCopies, ReturnSlotsFree, ObservingSees,
                Owned, Alive
<1>2. ASSUME TypeOK, TypeOK', OwnerInv, OrphanInv, [Next]_vars PROVE OrphanInv'
  BY <1>2, OrphanStep
<1> QED
  BY <1>1, <1>2, TypeCorrect, OwnerInvariant, PTL DEF Spec

\* While a module that passed nir::verify runs and has not failed, every live
\* resource has exactly one owner: a frame, a live container or the host.  No
\* instruction, call, return or raise duplicates a resource or loses one, for
\* any program and any call depth (plan_transfer, owns_a_live_resource,
\* leaked_resource, the result slots of Terminator::Invoke).
THEOREM VerifiedOwnership ==
    ASSUME Verified
    PROVE  Spec => []ExactlyOneOwner
<1>1. ASSUME TypeOK, OwnerInv, OrphanInv PROVE NoOrphan
  <2>1. ASSUME ~ failing, ~ terminated, NEW i \in Alive PROVE Holders(i) # {}
    <3>1. i \in DOMAIN records
      BY DEF Alive
    <3>2. PICK p : Owns(p, i)
      BY <1>1, <2>1 DEF OrphanInv, Going, Accounted, Owned
    <3>3. p \in Holders(i)
      BY <1>1, <3>1, <3>2, HoldersOwn DEF OwnerInv
    <3> QED
      BY <3>3
  <2> QED
    BY <2>1 DEF NoOrphan
<1>2. SoleOwner /\ NoOrphan => ExactlyOneOwner
  BY DEF ExactlyOneOwner
<1> QED
  BY <1>1, <1>2, TypeCorrect, OwnerInvariant, OrphanInvariant, OneOwnerAtMost, PTL

-----------------------------------------------------------------------------
(***************************************************************************)
(* What a call observes.                                                   *)
(***************************************************************************)

\* A place that is emptied for a result of another type shows nothing new.
LEMMA TakeRefusedLoses ==
    ASSUME TypeOK, frames # <<>>, NEW root \in Vals, NEW p \in Paths,
           place_exists(V(canonical_root(root)), p), take_refused(canonical_root(root), p)
    PROVE  Loses
<1> DEFINE r == canonical_root(root)
           s == V(r)
           leaf == leaf_at(s, p)
           s2 == [s EXCEPT ![p[1]] = tombstone(leaf)]
<1>1. /\ r \in Vals /\ s \in Value /\ p \in Seq(Nat \ {0}) /\ Len(p) \in Nat
      /\ vals \in Seq([Vals -> Value]) /\ Top \in DOMAIN vals /\ vals[Top] \in [Vals -> Value]
      /\ \A f \in DOMAIN frames : f \in DOMAIN vals
  BY TopFrame, BoundAssumption DEF TypeOK
<1>2. frames' = frames
  BY DEF take_refused
<1>3. CASE vals' = vals
  BY <1>2, <1>3 DEF Loses
<1>4. CASE vals' = [vals EXCEPT ![Top][r] = s2]
  <2>1. p # <<>> /\ p[1] \in DOMAIN s
    BY DEF take_refused, place_exists
  <2>2. tombstone(leaf) \in Leaf /\ ~ is_handle(tombstone(leaf))
    BY TombstoneLeaf
  <2>3. handles(s2) \subseteq handles(s)
    <3>1. \A h \in handles(<<tombstone(leaf)>>) : FALSE
      BY <2>2, OneHandle
    <3> HIDE DEF leaf, s
    <3> QED
      BY <1>1, <2>1, <2>2, <3>1, EditedHandles
  <2>4. ASSUME NEW f \in DOMAIN vals, NEW v \in Vals
        PROVE  vals'[f][v] = vals[f][v] \/ (vals[f][v] = s /\ vals'[f][v] = s2)
    BY <1>1, <1>4, <2>4 DEF V
  <2>5. \A f \in DOMAIN frames : frames[f].observing \subseteq Vals
    <3>1. Params \subseteq Vals
      BY DEF Vals
    <3>2. \A f \in DOMAIN frames : frames[f] \in Frame
      BY DEF TypeOK
    <3> QED
      BY <3>1, <3>2 DEF Frame
  <2> HIDE DEF s, s2
  <2> QED
    BY <1>1, <1>2, <2>3, <2>4, <2>5 DEF Loses
<1> QED
  BY <1>3, <1>4 DEF take_refused

\* An instruction that fails changes nothing else, except the place it was to take.
LEMMA InstructionRefuses ==
    ASSUME TypeOK, Running, Instruction, failing'
    PROVE  Refuse \/ Loses
<1>1. ~ failing
  BY DEF Running
<1>2. ASSUME NEW v \in Temps, TransferInstruction(v) PROVE Refuse
  <2>1. ASSUME NEW src \in Vals, Move(v, src) PROVE Refuse
    BY <1>1, <2>1 DEF Move, Attempt, OnlyTable
  <2>2. ASSUME NEW args \in Args(2), AggregateCreate(v, args) PROVE Refuse
    BY <1>1, <2>2 DEF AggregateCreate, Attempt, OnlyTable
  <2>3. ASSUME NEW args \in Args(2), ResourceCreate(v, args) PROVE Refuse
    BY <1>1, <2>3 DEF ResourceCreate, Attempt, OnlyTable
  <2>4. ASSUME NEW args \in Arguments, Call(v, args) PROVE Refuse
    BY <1>1, <2>4 DEF Call, Attempt, call_function
  <2> QED
    BY <1>2, <2>1, <2>2, <2>3, <2>4 DEF TransferInstruction
<1>3. ASSUME NEW v \in Temps, ValueInstruction(v) PROVE Refuse \/ Loses
  <2>1. ~ Const(v)
    BY <1>1 DEF Const, OnlyVals
  <2>2. ASSUME NEW s, NEW p \in Paths, read_view(v, s, p) PROVE Refuse
    BY <1>1, <2>2 DEF read_view, Attempt, OnlyVals
  <2>3. ASSUME NEW root \in Vals, NEW p \in Paths, PlaceReadTransfer(v, root, p)
        PROVE  Refuse \/ Loses
    BY <1>1, <2>3, TakeRefusedLoses DEF PlaceReadTransfer, Attempt, take_projections, OnlyTable,
       Running
  <2>4. ASSUME NEW root \in Vals, NEW p \in Paths, NEW o \in Observations,
               begin_observe(v, o, root, p)
        PROVE  Refuse
    BY <1>1, <2>4 DEF begin_observe, Attempt
  <2>5. ASSUME NEW base \in Vals, NEW i \in 1..MaxLeaves, VariantPayload(v, base, i) PROVE Refuse
    BY <1>1, <2>5 DEF VariantPayload, Attempt, OnlyVals
  <2> QED
    BY <1>3, <2>1, <2>2, <2>3, <2>4, <2>5 DEF ValueInstruction, PlaceReadObserve, RecordField
<1>4. ASSUME NEW x \in Loads, Load(x) PROVE Refuse
  BY <1>1, <1>4 DEF Load, Attempt, OnlyVals
<1>5. ASSUME NEW base \in Vals, NEW taken, DecomposeVariant(base, taken) PROVE Refuse
  BY <1>1, <1>5 DEF DecomposeVariant, Attempt, OnlyVals
<1>6. ASSUME NEW slot \in Slots, NEW v \in Vals, StoreTransfer(slot, v) \/ StoreObserve(slot, v)
      PROVE  Refuse
  BY <1>1, <1>6 DEF StoreTransfer, StoreObserve, Attempt, OnlyVals, OnlyTable
<1>7. ASSUME NEW v \in Vals, Drop(v) PROVE Refuse
  BY <1>1, <1>7 DEF Drop, Attempt, OnlyTable
<1>8. ASSUME NEW root \in Vals, NEW src \in Vals, NEW p \in Paths, StorePlace(root, p, src)
      PROVE  Refuse
  BY <1>1, <1>8 DEF StorePlace, Attempt, OnlyTable
<1>9. ASSUME NEW o \in Observations, end_observe(o) PROVE Refuse
  BY <1>1, <1>9 DEF end_observe, Attempt
<1> QED
  BY <1>2, <1>3, <1>4, <1>5, <1>6, <1>7, <1>8, <1>9 DEF Instruction, ArithmeticFailure

\* A terminator that fails leaves the frames alone, or leaves one.
LEMMA TerminatorRefuses ==
    ASSUME Running, Terminator, failing'
    PROVE  UNCHANGED <<frames, vals>> \/ (frames' = Front(frames) /\ vals' = Front(vals))
<1>1. ~ failing
  BY DEF Running
<1>2. ASSUME NEW args \in Arguments, NEW ok \in Slots, NEW err \in Slots, Invoke(args, ok, err)
      PROVE  UNCHANGED <<frames, vals>>
  BY <1>1, <1>2 DEF Invoke, Attempt, call_function, Refuse
<1>3. ASSUME NEW s, Return(s) PROVE UNCHANGED <<frames, vals>>
  BY <1>1, <1>3 DEF Return, Attempt, Refuse
<1>4. ASSUME NEW s, NEW handled \in BOOLEAN, Raise(s, handled)
      PROVE  UNCHANGED <<frames, vals>> \/ (frames' = Front(frames) /\ vals' = Front(vals))
  BY <1>1, <1>4 DEF Raise, Attempt, Refuse
<1> QED
  BY <1>2, <1>3, <1>4 DEF Terminator

\* A frame that is left with an error gives its caller nothing.
LEMMA PopLoses ==
    ASSUME TypeOK, frames # <<>>, frames' = Front(frames), vals' = Front(vals)
    PROVE  Loses
<1>1. /\ Top \in Nat \ {0} /\ vals \in Seq([Vals -> Value]) /\ vals # <<>> /\ Len(vals) = Top
      /\ frames \in Seq(Frame) /\ Len(frames) = Top
  BY PopType DEF TypeOK, Top
<1>2. /\ Front(frames) \in Seq(Frame) /\ Len(Front(frames)) = Top - 1
  BY PopType DEF Top
<1>3. /\ \A i \in 1..(Top - 1) : vals'[i] = vals[i]
      /\ \A i \in 1..(Top - 1) : frames'[i] = frames[i]
  BY <1>1, FrontType
<1>4. DOMAIN frames' = 1..(Top - 1)
  BY <1>2
<1> QED
  BY <1>3, <1>4 DEF Loses

\* Every step of a verified module shows the observing parameters nothing new.
LEMMA LosesStep ==
    ASSUME Verified, TypeOK, TypeOK', OwnerInv, OrphanInv, TerminatedStops, [Next]_vars
    PROVE  Loses
<1>1. CASE UNCHANGED <<frames, vals>>
  BY <1>1 DEF Loses
<1>2. CASE HostCall
  <2>1. PICK b, fr : vals' = Append(vals, b) /\ frames' = Append(frames, fr)
    BY <1>2 DEF HostCall, EnterFrame
  <2>2. DOMAIN frames = DOMAIN vals
    BY DEF TypeOK
  <2>3. \A f \in DOMAIN vals : vals'[f] = vals[f] /\ frames'[f] = frames[f]
    BY <2>1, EnteredFrames
  <2> QED
    BY <2>2, <2>3 DEF Loses
<1>3. CASE Unwind
  BY <1>3, PopLoses DEF Unwind
<1>4. CASE Running /\ (Instruction \/ Terminator)
  <2>1. ~ failing /\ ~ terminated /\ frames # <<>>
    BY <1>4 DEF Running, TerminatedStops
  <2>2. Accounted /\ DeadBelowDead
    BY <2>1 DEF OrphanInv, Going
  <2>3. CASE ~ failing'
    BY <1>4, <2>1, <2>2, <2>3, InstructionAccounted, TerminatorAccounted DEF Keeps
  <2>4. CASE failing'
    BY <1>1, <1>4, <2>1, <2>4, InstructionRefuses, TerminatorRefuses, PopLoses DEF Refuse
  <2> QED
    BY <2>3, <2>4
<1> QED
  BY <1>1, <1>2, <1>3, <1>4 DEF Next, vars

\* What the running frame owns is not sealed off from it.
LEMMA OwnedUnsealed ==
    ASSUME TypeOK, frames # <<>>, NEW f, f <= Top, NEW P, Sealed(f, P),
           NEW h, FrameHas(Top, h), h.role = "owner", observe(h)
    PROVE  h.id \notin P
<1>1. Top \in Nat
  BY TopFrame DEF TypeOK, Top
<1>2. FrameOwns(Top, h.id)
  BY DEF FrameOwns, observe, record, current
<1> QED
  BY <1>1, <1>2 DEF Sealed

\* The seal holds if nothing sealed is given away, stored elsewhere or destroyed.
LEMMA SealKept ==
    ASSUME TypeOK, TypeOK', HandlesKnown, Grows, StaysDead, NEW new, NEW dest, Provenance(new, dest),
           NEW f, NEW P, Sealed(f, P), \A h \in new : h.id \notin P,
           \A j, h : Stores(j, h)' /\ h.id \in P => Stores(j, h),
           \A i \in P : records'[i].status = records[i].status
    PROVE  Sealed(f, P)'
<1>1. ASSUME NEW i \in P PROVE i \in Alive'
  BY DEF Sealed, Alive, Grows
<1>2. ASSUME NEW i \in P, NEW g \in Nat, f <= g, FrameOwns(g, i)' PROVE FALSE
  <2>1. FrameOwns(g, i)
    BY <1>2, FrameOwnsBefore
  <2> QED
    BY <1>2, <2>1 DEF Sealed
<1>3. ASSUME NEW i \in P, NEW j, FieldOwns(j, i)' PROVE j \in P
  <2>1. PICK h : Stores(j, h)' /\ records'[j].status = "alive" /\ h.id = i /\ current(h)'
    BY <1>3 DEF FieldOwns
  <2>2. Stores(j, h) /\ Known(h)
    BY <2>1 DEF HandlesKnown
  <2>3. current(h) /\ records[j].status = "alive"
    BY <2>1, <2>2, CurrentBefore DEF StaysDead, Stores
  <2>4. FieldOwns(j, i)
    BY <2>1, <2>2, <2>3 DEF FieldOwns
  <2> QED
    BY <2>4 DEF Sealed
<1> QED
  BY <1>1, <1>2, <1>3 DEF Sealed

\* What a value may transfer or drop, the running frame owns: it is unsealed.
LEMMA HandedUnsealed ==
    ASSUME TypeOK, frames # <<>>, NEW f, f <= Top, NEW P, Sealed(f, P), NEW s \in Value,
           plan_transfer(s) \/ plan_drop(s), \A h \in handles(s) : FrameHas(Top, h)
    PROVE  \A h \in handles(s) : h.id \notin P
<1>1. \A h \in handles(s) : h.role = "owner" /\ observe(h)
  BY DEF plan_transfer, plan_drop, collect_reachable
<1> QED
  BY <1>1, OwnedUnsealed

\* So is everything a Drop destroys.
LEMMA DroppedUnsealed ==
    ASSUME TypeOK, HandlesKnown, frames # <<>>, NEW f, f <= Top, NEW P, Sealed(f, P),
           NEW s \in Value, plan_drop(s), \A h \in handles(s) : FrameHas(Top, h)
    PROVE  identities(s) \cap P = {}
<1> DEFINE S == {g \in below(handles(s)) : g.id \notin P}
<1>1. \A h \in handles(s) : h.id \notin P
  BY HandedUnsealed
<1>2. S \in SUBSET stored_handles
  BY DEF below
<1>3. ASSUME NEW h \in handles(s) \cup S PROVE children(h) \subseteq S
  <2>1. h \in collect_reachable(s) /\ h.id \notin P /\ children(h) \subseteq below(handles(s))
    BY <1>1, <1>3, BelowClosed DEF collect_reachable
  <2>2. observe(h)
    BY <2>1 DEF plan_drop
  <2>3. ASSUME NEW g \in children(h) PROVE g.id \notin P
    <3>1. g \in collect_reachable(s)
      BY <2>1, <2>3 DEF collect_reachable
    <3>2. current(g)
      BY <3>1 DEF plan_drop, observe, record, current
    <3>3. FieldOwns(h.id, g.id)
      BY <2>2, <2>3, <3>2 DEF FieldOwns, Stores, children, fields, observe, record
    <3> QED
      BY <2>1, <3>3 DEF Sealed
  <2> QED
    BY <2>1, <2>3
<1>4. ASSUME NEW g \in below(handles(s)) PROVE g.id \notin P
  <2> HIDE DEF S
  <2>1. g \in S
    BY <1>2, <1>3, <1>4 DEF below
  <2> QED
    BY <2>1 DEF S
<1> QED
  BY <1>1, <1>4 DEF identities, ids, collect_reachable

\* No step of the frames from f on reaches what is sealed off from them.
LEMMA SealedStep ==
    ASSUME TypeOK, TypeOK', HandlesKnown, Kind, frames # <<>>,
           NEW f \in Nat, f <= Top, NEW P, Sealed(f, P)
    PROVE  Sealed(f, P)' /\ \A i \in P : records'[i].generation = records[i].generation
<1>1. \A i \in P : i \in DOMAIN records /\ records[i].status = "alive"
  BY DEF Sealed, Alive
<1>2. CASE Reads
  <2>1. Grows /\ StaysDead
    BY <1>2, RecordType DEF Reads, Grows, StaysDead
  <2>2. \A j, h : Stores(j, h)' => Stores(j, h)
    BY <1>2 DEF Reads, Stores
  <2> QED
    BY <1>2, <2>1, <2>2, SealKept DEF Reads
<1>3. CASE Transfers
  <2>1. PICK s \in Value, dest \in Nat :
          /\ plan_transfer(s) /\ \A h \in handles(s) : FrameHas(Top, h)
          /\ records' = commit_transfer(s) /\ Provenance(handles(rebuilt(s)), dest)
    BY <1>3 DEF Transfers
  <2>2. /\ DOMAIN records' = DOMAIN records /\ Grows /\ StaysDead
        /\ \A i \in DOMAIN records :
              /\ records'[i].fields = records[i].fields
              /\ records'[i].status = records[i].status
              /\ i \in ids(handles(s)) <=> records'[i].generation # records[i].generation
    BY <2>1, TransferTable
  <2>3. \A h \in handles(s) : h.id \notin P
    BY <2>1, HandedUnsealed
  <2>4. \A h \in handles(rebuilt(s)) : h.id \notin P
    BY <2>3, RebuiltHandles
  <2>5. \A j, h : Stores(j, h)' => Stores(j, h)
    BY <2>2 DEF Stores
  <2>6. Sealed(f, P)'
    BY <1>1, <2>1, <2>2, <2>4, <2>5, SealKept
  <2> QED
    BY <1>1, <2>2, <2>3, <2>6 DEF ids
<1>4. CASE Creates
  <2>1. PICK s \in Value :
          /\ plan_transfer(s) /\ \A h \in handles(s) : FrameHas(Top, h)
          /\ records' = Append(commit_transfer(s), new_record(s)) /\ Provenance({new_handle}, Top)
    BY <1>4 DEF Creates
  <2>2. /\ commit_transfer(s) \in Seq(ResourceRecord) /\ Len(records) \in Nat
        /\ Len(commit_transfer(s)) = Len(records) /\ DOMAIN records = 1..Len(records)
    BY CommitType DEF TypeOK
  <2>3. PICK n : n = Len(records) + 1
    OBVIOUS
  <2>4. /\ n \notin DOMAIN records /\ DOMAIN records' = DOMAIN records \cup {n}
        /\ \A i \in DOMAIN records : records'[i] = commit_transfer(s)[i]
        /\ records'[n] = new_record(s)
    BY <2>1, <2>3, CreateTable
  <2>5. \A h \in handles(s) : h.id \notin P
    BY <2>1, HandedUnsealed
  <2>6. \A i \in DOMAIN records : /\ records'[i].fields = records[i].fields
                                  /\ records'[i].status = records[i].status
                                  /\ records[i].generation <= records'[i].generation
                                  /\ i \notin ids(handles(s)) =>
                                        records'[i].generation = records[i].generation
    BY <2>1, <2>4, CommitTable, CommitGrows
  <2>7. Grows /\ StaysDead
    BY <2>4, <2>6 DEF Grows, StaysDead
  <2>8. PICK new, top : /\ new = {new_handle} /\ top = Top /\ \A h \in new : h.id \notin P
                        /\ Provenance(new, top)
    BY <1>1, <2>1, <2>3, <2>4 DEF new_handle
  <2>9. ASSUME NEW j, NEW h, Stores(j, h)', h.id \in P PROVE Stores(j, h)
    <3>1. CASE j = n
      <4>1. h \in handles(rebuilt(s))
        BY <2>4, <2>9, <3>1 DEF Stores, new_record
      <4> QED
        BY <2>5, <2>9, <4>1, RebuiltHandles
    <3>2. CASE j # n
      BY <2>4, <2>6, <2>9, <3>2 DEF Stores
    <3> QED
      BY <3>1, <3>2
  <2>10. Sealed(f, P)'
    BY <1>1, <2>1, <2>6, <2>7, <2>8, <2>9, SealKept
  <2> QED
    BY <1>1, <2>5, <2>6, <2>10 DEF ids
<1>5. CASE Drops
  <2>1. PICK s \in Value :
          /\ plan_drop(s) /\ \A h \in handles(s) : FrameHas(Top, h)
          /\ records' = [i \in DOMAIN records |->
                            IF i \in identities(s)
                            THEN [records[i] EXCEPT !.status = "dropped"]
                            ELSE records[i]]
          /\ Provenance({}, 0)
    BY <1>5 DEF Drops
  <2>2. /\ DOMAIN records' = DOMAIN records
        /\ \A i \in DOMAIN records :
              /\ records'[i].fields = records[i].fields
              /\ records'[i].generation = records[i].generation
              /\ records'[i].status = IF i \in identities(s) THEN "dropped"
                                      ELSE records[i].status
    BY <2>1, DropTable
  <2>3. Grows /\ StaysDead
    BY <2>2, RecordType DEF Grows, StaysDead
  <2>4. identities(s) \cap P = {}
    BY <2>1, DroppedUnsealed
  <2>5. \A j, h : Stores(j, h)' => Stores(j, h)
    BY <2>2 DEF Stores
  <2>6. Sealed(f, P)'
    BY <1>1, <2>1, <2>2, <2>3, <2>4, <2>5, SealKept
  <2> QED
    BY <1>1, <2>2, <2>6
<1>6. CASE Takes
  <2>1. PICK c \in DOMAIN records : \E k \in DOMAIN records[c].fields :
          LET leaf == records[c].fields[k] IN
          /\ records[c].status = "alive" /\ (is_handle(leaf) => observe(leaf))
          /\ \A Q : Sealed(Top, Q) => c \notin Q
          /\ records' = with_field(records, c, k, tombstone(leaf))
          /\ Provenance(handles(<<leaf>>), Top)
    BY <1>6 DEF Takes, is_handle
  <2>2. PICK k, leaf :
          /\ k \in DOMAIN records[c].fields /\ leaf = records[c].fields[k]
          /\ records[c].status = "alive" /\ (is_handle(leaf) => observe(leaf))
          /\ \A Q : Sealed(Top, Q) => c \notin Q
          /\ records' = with_field(records, c, k, tombstone(leaf))
          /\ Provenance(handles(<<leaf>>), Top)
    BY <2>1
  <2>3. /\ records \in Seq(ResourceRecord) /\ tombstone(leaf) \in Leaf
        /\ ~ is_handle(tombstone(leaf)) /\ leaf \in Leaf /\ records[c].fields \in Value
    BY <2>2, TombstoneLeaf, RecordType DEF TypeOK, Value
  <2>4. /\ DOMAIN records' = DOMAIN records
        /\ \A j \in DOMAIN records : j # c => records'[j] = records[j]
        /\ \A j \in DOMAIN records : records'[j].generation = records[j].generation
                                     /\ records'[j].status = records[j].status
        /\ records'[c].fields = [records[c].fields EXCEPT ![k] = tombstone(leaf)]
    BY <2>2, <2>3, WithFieldTable
  <2>5. Grows /\ StaysDead
    BY <2>4, RecordType DEF Grows, StaysDead
  <2>6. c \notin P
    <3>1. Top \in Nat /\ \A g \in Nat : Top <= g => f <= g
      BY TopFrame DEF TypeOK, Top
    <3>2. Sealed(Top, P)
      BY <3>1 DEF Sealed
    <3> QED
      BY <2>2, <3>2
  <2>7. ASSUME NEW h \in handles(<<leaf>>) PROVE h.id \notin P
    <3>1. h = leaf /\ is_handle(leaf) /\ current(h)
      BY <2>2, <2>3, OneHandle DEF observe, record, current
    <3>2. Stores(c, h)
      BY <2>2, <2>3, <3>1, HandleAt DEF Stores
    <3>3. FieldOwns(c, h.id)
      BY <2>2, <3>1, <3>2 DEF FieldOwns
    <3> QED
      BY <2>6, <3>3 DEF Sealed
  <2>8. ASSUME NEW j, NEW h, Stores(j, h)' PROVE Stores(j, h)
    <3>1. CASE j = c
      <4>1. handles(<<tombstone(leaf)>>) = {}
        BY <2>3, OneHandle
      <4>2. handles(records'[c].fields) \subseteq handles(records[c].fields)
        BY <2>2, <2>3, <2>4, <4>1, EditedHandles
      <4> QED
        BY <2>4, <2>8, <3>1, <4>2 DEF Stores
    <3>2. CASE j # c
      BY <2>4, <2>8, <3>2 DEF Stores
    <3> QED
      BY <3>1, <3>2
  <2>9. Sealed(f, P)'
    BY <1>1, <2>2, <2>4, <2>5, <2>7, <2>8, SealKept
  <2> QED
    BY <1>1, <2>4, <2>9
<1>7. CASE Refills
  <2>1. PICK s, c, k :
          /\ s \in Value /\ c \in DOMAIN records
          /\ k \in DOMAIN records[c].fields
          /\ plan_transfer(s) /\ Len(s) = 1 /\ \A h \in handles(s) : FrameHas(Top, h)
          /\ records' = with_field(commit_transfer(s), c, k, rebuilt(s)[1])
          /\ Provenance({}, 0)
    BY <1>7 DEF Refills
  <2>2. /\ commit_transfer(s) \in Seq(ResourceRecord) /\ DOMAIN commit_transfer(s) = DOMAIN records
        /\ k \in DOMAIN commit_transfer(s)[c].fields
    BY <2>1, CommitType, CommitTable DEF TypeOK
  <2>3. PICK leaf \in Leaf : leaf = rebuilt(s)[1] /\ (is_handle(leaf) => leaf \in handles(rebuilt(s)))
    <3>1. rebuilt(s) \in Value /\ DOMAIN rebuilt(s) = DOMAIN s /\ 1 \in DOMAIN s
      BY <2>1, RebuiltType DEF Value
    <3> QED
      BY <3>1, HandleAt DEF Value
  <2>4. /\ DOMAIN records' = DOMAIN records
        /\ \A j \in DOMAIN records : j # c => records'[j] = commit_transfer(s)[j]
        /\ \A j \in DOMAIN records : records'[j].generation = commit_transfer(s)[j].generation
                                     /\ records'[j].status = commit_transfer(s)[j].status
        /\ records'[c].fields = [commit_transfer(s)[c].fields EXCEPT ![k] = leaf]
    BY <2>1, <2>2, <2>3, WithFieldTable
  <2>5. \A j \in DOMAIN records : /\ j # c => records'[j].fields = records[j].fields
                                  /\ records'[j].status = records[j].status
                                  /\ records[j].generation <= records'[j].generation
                                  /\ j \notin ids(handles(s)) =>
                                        records'[j].generation = records[j].generation
    BY <2>1, <2>4, CommitTable, CommitGrows
  <2>6. Grows /\ StaysDead
    BY <2>4, <2>5 DEF Grows, StaysDead
  <2>7. \A h \in handles(s) : h.id \notin P
    BY <2>1, HandedUnsealed
  <2>8. ASSUME NEW j, NEW h, Stores(j, h)', h.id \in P PROVE Stores(j, h)
    <3>1. CASE j = c
      <4>1. records[c].fields \in Value /\ commit_transfer(s)[c].fields = records[c].fields
        BY <2>1, RecordType, CommitTable
      <4>2. handles(records'[c].fields) \subseteq handles(records[c].fields) \cup handles(<<leaf>>)
        BY <2>1, <2>3, <2>4, <4>1, EditedHandles
      <4>3. ASSUME h \in handles(<<leaf>>) PROVE FALSE
        <5>1. h \in handles(rebuilt(s))
          BY <2>3, <4>3, OneHandle
        <5> QED
          BY <2>1, <2>7, <2>8, <5>1, RebuiltHandles
      <4> QED
        BY <2>1, <2>8, <3>1, <4>2, <4>3 DEF Stores
    <3>2. CASE j # c
      BY <2>4, <2>5, <2>8, <3>2 DEF Stores
    <3> QED
      BY <3>1, <3>2
  <2>9. Sealed(f, P)'
    BY <1>1, <2>1, <2>5, <2>6, <2>8, SealKept
  <2> QED
    BY <1>1, <2>5, <2>7, <2>9 DEF ids
<1> QED
  BY <1>2, <1>3, <1>4, <1>5, <1>6, <1>7 DEF Kind

\* A frame that is not there before a step is entered by it.
LEMMA FramesEntered ==
    ASSUME TypeOK, [Next]_vars
    PROVE  DOMAIN frames' \subseteq DOMAIN frames \/ HostCall \/ (frames # <<>> /\ Called)
<1>1. ASSUME frames # <<>>, frames' = Front(frames) PROVE DOMAIN frames' \subseteq DOMAIN frames
  <2>1. Top \in Nat \ {0} /\ frames \in Seq(Frame) /\ Len(frames) = Top
    BY <1>1, PopType DEF TypeOK, Top
  <2>2. frames' \in Seq(Frame) /\ Len(frames') = Top - 1
    BY <1>1, PopType DEF Top
  <2>3. DOMAIN frames' = 1..(Top - 1) /\ DOMAIN frames = 1..Top
    BY <2>1, <2>2
  <2> QED
    BY <2>1, <2>3
<1>2. CASE Unwind
  BY <1>1, <1>2 DEF Unwind
<1>3. CASE Running /\ (Instruction \/ Terminator)
  <2>1. frames # <<>>
    BY <1>3 DEF Running
  <2>2. Quiet \/ LeaseBegun \/ LeaseEnded \/ FrameEntered \/ FrameLeft
    BY <1>3, <2>1, InstructionShape, TerminatorShape
  <2> QED
    BY <1>1, <2>1, <2>2 DEF Quiet, LeaseBegun, LeaseEnded, FrameEntered, FrameLeft
<1> QED
  BY <1>2, <1>3 DEF Next, vars

\* The observing parameters of a frame show what is sealed off from it and
\* from the frames above.
ParamsSealed ==
    \A f \in DOMAIN frames : \E P :
        /\ Sealed(f, P)
        /\ \A v \in frames[f].observing : \A h \in handles(vals[f][v]) :
              h.lease = 0 => h.id \in P /\ current(h)

\* A call seals off from its frame everything live that it does not hand over,
\* and it hands over nothing that it shows (may_call).
LEMMA CallSeals ==
    ASSUME TypeOK, TypeOK', HandlesKnown, frames # <<>>, NEW args \in Arguments, may_call(args),
           NEW ok, NEW err, call_function(args, ok, err), NEW n \in DOMAIN frames', n \notin DOMAIN frames
    PROVE  \E P : /\ Sealed(n, P)'
                  /\ \A v \in frames'[n].observing : \A h \in handles(vals'[n][v]) :
                        h.id \in P /\ current(h)'
<1>1. PICK s \in Value : s = taken_args(args)
  BY ArgumentsShape
<1>2. PICK b, fr : /\ b = bindings(args) /\ fr.observing = observing_params(args)
                   /\ vals' = Append(vals, b) /\ frames' = Append(frames, fr)
  BY DEF call_function, EnterFrame
<1>3. plan_transfer(s) /\ records' = commit_transfer(s)
  BY <1>1 DEF may_call, call_function
<1>4. /\ DOMAIN records' = DOMAIN records /\ Grows /\ StaysDead
      /\ \A i \in DOMAIN records :
            /\ records'[i].fields = records[i].fields
            /\ records'[i].status = records[i].status
            /\ i \in ids(handles(s)) <=> records'[i].generation # records[i].generation
      /\ \A i : i \in Alive' <=> i \in Alive
  BY <1>3, TransferTable
<1>5. /\ DOMAIN vals' = DOMAIN vals \cup {n} /\ vals'[n] = b /\ frames'[n] = fr
      /\ \A g \in DOMAIN vals : ~ (n <= g)
  <2>1. PICK m :
           /\ DOMAIN vals' = DOMAIN vals \cup {m} /\ DOMAIN frames' = DOMAIN frames \cup {m}
           /\ vals'[m] = b /\ frames'[m] = fr
    BY <1>2, EnteredFrames
  <2>2. m = n
    BY <2>1
  <2>3. /\ DOMAIN vals = 1..Top /\ DOMAIN frames = 1..Top /\ Top \in Nat
        /\ frames' \in Seq(Frame)
    BY DEF TypeOK, Top
  <2>4. n \in Nat /\ n >= 1
    BY <2>3
  <2> QED
    BY <2>1, <2>2, <2>3, <2>4
<1>6. ASSUME NEW v \in Vals, NEW h \in handles(b[v])
      PROVE  \E i \in DOMAIN args :
                /\ ParamList[i] = v
                /\ b[v] = IF args[i].take THEN rebuilt(V(args[i].value))
                          ELSE to_observing_view(V(args[i].value))
  <2>1. Absent \in Leaf /\ ~ is_handle(Absent)
    BY DEF Leaf, is_handle
  <2>2. b[v] # <<Absent>>
    BY <1>6, <2>1, OneHandle
  <2> QED
    BY <1>2, <2>2, BindingShape
<1>7. PICK P : P = Alive \ identities(s)
  OBVIOUS
<1>8. ids(handles(s)) \subseteq identities(s)
  BY DEF identities, ids, collect_reachable
<1>9. ASSUME NEW i \in P, NEW g \in Nat, n <= g, FrameOwns(g, i)' PROVE FALSE
  <2>1. PICK h : FrameHas(g, h)' /\ h.role = "owner" /\ h.id = i
    BY <1>9 DEF FrameOwns
  <2>2. PICK v \in Vals : g \in DOMAIN vals' /\ h \in handles(vals'[g][v])
    BY <2>1 DEF FrameHas
  <2>3. h \in handles(b[v])
    BY <1>5, <1>9, <2>2
  <2>4. PICK k \in DOMAIN args : b[v] = IF args[k].take THEN rebuilt(V(args[k].value))
                                        ELSE to_observing_view(V(args[k].value))
    BY <1>6, <2>3
  <2>5. PICK t \in Value : /\ t = V(args[k].value)
                           /\ args[k].take => handles(t) \subseteq handles(s)
    BY <1>1, ArgumentsShape
  <2>6. args[k].take
    <3>1. 0 \in Nat
      OBVIOUS
    <3> QED
      BY <2>1, <2>3, <2>4, <2>5, <3>1, ViewHandles
  <2>7. PICK x \in handles(t) : h.id = x.id
    BY <2>3, <2>4, <2>5, <2>6, RebuiltHandles
  <2> QED
    BY <1>7, <1>8, <2>1, <2>5, <2>6, <2>7 DEF ids
<1>10. ASSUME NEW i \in P, NEW j, FieldOwns(j, i)' PROVE j \in P
  <2>1. PICK h : Stores(j, h)' /\ records'[j].status = "alive" /\ h.id = i
    BY <1>10 DEF FieldOwns
  <2>2. Stores(j, h) /\ j \in Alive
    BY <1>4, <2>1 DEF Stores, Alive
  <2>3. ASSUME j \in identities(s) PROVE FALSE
    <3>1. PICK g \in collect_reachable(s) : g.id = j
      BY <2>3 DEF identities, ids
    <3>2. record(g)
      BY <1>3, <3>1 DEF plan_transfer, collect_owned_identities
    <3>3. h \in children(g)
      BY <2>2, <3>1, <3>2 DEF children, fields, Stores
    <3>4. h \in collect_reachable(s)
      BY <3>1, <3>3, BelowClosed DEF collect_reachable
    <3> QED
      BY <1>7, <2>1, <3>4 DEF identities, ids
  <2> QED
    BY <1>7, <2>2, <2>3
<1>11. Sealed(n, P)'
  BY <1>4, <1>7, <1>9, <1>10 DEF Sealed
<1>12. ASSUME NEW v \in frames'[n].observing, NEW h \in handles(vals'[n][v])
       PROVE  h.id \in P /\ current(h)'
  <2>1. PICK k \in DOMAIN args : v = ParamList[k] /\ ~ args[k].take
    BY <1>2, <1>5 DEF observing_params
  <2>2. v \in Vals /\ DOMAIN args \subseteq DOMAIN ParamList
    BY <2>1, ArgumentsShape, BoundAssumption DEF Vals
  <2>3. PICK m \in DOMAIN args :
          /\ ParamList[m] = v
          /\ b[v] = IF args[m].take THEN rebuilt(V(args[m].value))
                    ELSE to_observing_view(V(args[m].value))
    BY <1>5, <1>6, <1>12, <2>2
  <2>4. m = k
    BY <2>1, <2>2, <2>3, ValueIdAssumption DEF IsInjective
  <2>5. PICK t \in Value : t = V(args[k].value)
    BY ArgumentsShape
  <2>6. h \in handles(to_observing_view(t))
    BY <1>5, <1>12, <2>1, <2>3, <2>4, <2>5
  <2>7. PICK x \in handles(t) : h.id = x.id /\ h.generation = x.generation
    BY <2>6, ViewLease
  <2>8. observe(x) /\ identities(t) \cap identities(s) = {}
    BY <1>1, <2>1, <2>5, <2>7 DEF may_call
  <2>9. x.id \in identities(t)
    BY <2>7 DEF identities, ids, collect_reachable
  <2>10. x.id \in DOMAIN records /\ x.id \in Alive /\ current(x)
    BY <2>8 DEF observe, record, Alive, current
  <2>11. h.id \in P
    BY <1>7, <2>7, <2>8, <2>9, <2>10
  <2>12. records'[h.id].generation = records[h.id].generation
    BY <1>4, <1>7, <1>8, <2>7, <2>10, <2>11
  <2> QED
    BY <2>7, <2>10, <2>11, <2>12 DEF current
<1> QED
  BY <1>11, <1>12

\* Every step of a verified module keeps what the parameters show sealed.
LEMMA ParamsSealedStep ==
    ASSUME Verified, TypeOK, TypeOK', OwnerInv, OrphanInv, TerminatedStops, ParamsSealed, [Next]_vars
    PROVE  ParamsSealed'
<1>1. HandlesKnown /\ Kind /\ Loses
  BY StepKind, LosesStep DEF OwnerInv
<1>2. /\ DOMAIN frames = 1..Top /\ Top \in Nat
      /\ DOMAIN frames = DOMAIN vals /\ DOMAIN frames' = DOMAIN vals'
  BY DEF TypeOK, Top
<1>3. ASSUME NEW f \in DOMAIN frames', f \in DOMAIN frames
      PROVE  \E P : /\ Sealed(f, P)'
                    /\ \A v \in frames'[f].observing : \A h \in handles(vals'[f][v]) :
                          h.lease = 0 => h.id \in P /\ current(h)'
  <2>1. f \in Nat /\ f <= Top /\ frames # <<>>
    BY <1>2, <1>3
  <2>2. PICK P : /\ Sealed(f, P)
                 /\ \A v \in frames[f].observing : \A h \in handles(vals[f][v]) :
                       h.lease = 0 => h.id \in P /\ current(h)
    BY <1>3 DEF ParamsSealed
  <2>3. Sealed(f, P)' /\ \A i \in P : records'[i].generation = records[i].generation
    BY <1>1, <2>1, <2>2, SealedStep
  <2>4. /\ frames'[f].observing = frames[f].observing
        /\ \A v \in frames[f].observing : handles(vals'[f][v]) \subseteq handles(vals[f][v])
    BY <1>1, <1>3 DEF Loses
  <2>5. ASSUME NEW v \in frames'[f].observing, NEW h \in handles(vals'[f][v]), h.lease = 0
        PROVE  h.id \in P /\ current(h)'
    <3>1. h.id \in P /\ current(h)
      BY <2>2, <2>4, <2>5
    <3> QED
      BY <2>3, <3>1, StaysCurrent
  <2> QED
    BY <2>3, <2>5
<1>4. ASSUME NEW f \in DOMAIN frames', f \notin DOMAIN frames
      PROVE  \E P : /\ Sealed(f, P)'
                    /\ \A v \in frames'[f].observing : \A h \in handles(vals'[f][v]) :
                          h.lease = 0 => h.id \in P /\ current(h)'
  <2>1. CASE HostCall
    <3>1. PICK fr : fr.observing = {} /\ frames' = Append(frames, fr)
      BY <2>1 DEF HostCall, EnterFrame
    <3>2. frames'[f] = fr
      <4>1. frames \in Seq(Frame)
        BY DEF TypeOK
      <4> QED
        BY <1>2, <1>4, <3>1, <4>1
    <3>3. Sealed(f, {})'
      BY DEF Sealed
    <3> QED
      BY <3>1, <3>2, <3>3
  <2>2. CASE frames # <<>> /\ Called
    <3>1. PICK args \in Arguments : may_call(args) /\ \E ok, err : call_function(args, ok, err)
      BY <2>2 DEF Called
    <3> QED
      BY <1>1, <1>4, <2>2, <3>1, CallSeals
  <2> QED
    BY <1>4, <2>1, <2>2, FramesEntered
<1> QED
  BY <1>3, <1>4 DEF ParamsSealed

\* What an `observe' block shows, and what a call's observing parameter shows,
\* is live and has not changed hands as long as the block or the call lasts,
\* in every module that passed nir::verify (begin_observe, reject_leased,
\* may_call).
THEOREM ObserversSeeLive ==
    ASSUME Verified
    PROVE  Spec => []ObservedStaysLive
<1>1. Init => ParamsSealed
  BY DEF Init, ParamsSealed
<1>2. ASSUME TypeOK, TypeOK', OwnerInv, OrphanInv, TerminatedStops, ParamsSealed, [Next]_vars
      PROVE  ParamsSealed'
  BY <1>2, ParamsSealedStep
<1>3. ASSUME TypeOK, LeaseDiscipline, LeasesSee, ParamsSealed
      PROVE  ObservedStaysLive
  <2>1. ASSUME NEW f \in DOMAIN vals, NEW v \in Vals, NEW h \in handles(vals[f][v])
        PROVE  /\ h.lease # 0 /\ leases[h.lease].status = "active" => observe(h)
               /\ v \in frames[f].observing /\ h.lease = 0 => observe(h)
    <3>1. ASSUME h.lease # 0, leases[h.lease].status = "active" PROVE observe(h)
      <4>1. LeaseSees(h)
        BY <1>3, <2>1 DEF LeasesSee, FrameHas
      <4>2. h.lease \in DOMAIN leases /\ h.lease \in Range(active)
        BY <1>3, <3>1, <4>1 DEF LeaseSees, LeaseDiscipline, ActiveMarked
      <4>3. h.id \in Alive /\ current(h)
        BY <3>1, <4>1, <4>2 DEF LeaseSees
      <4> QED
        BY <3>1, <4>2, <4>3 DEF observe, record, Alive, current
    <3>2. ASSUME v \in frames[f].observing, h.lease = 0 PROVE observe(h)
      <4>1. f \in DOMAIN frames
        BY <1>3 DEF TypeOK
      <4>2. PICK P : /\ Sealed(f, P)
                     /\ h.id \in P /\ current(h)
        BY <1>3, <2>1, <3>2, <4>1 DEF ParamsSealed
      <4> QED
        BY <3>2, <4>2 DEF Sealed, observe, record, Alive, current
    <3> QED
      BY <3>1, <3>2
  <2> QED
    BY <2>1 DEF ObservedStaysLive
<1> QED
  BY <1>1, <1>2, <1>3, TypeCorrect, OwnerInvariant, OrphanInvariant, TerminatedStopsInvariant,
     LeaseStack, LeasesSeeInvariant, PTL DEF Spec

=============================================================================
