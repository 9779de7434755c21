----------------------- MODULE ResourceRuntimeProofs -----------------------
(***************************************************************************)
(* Proofs about ResourceRuntime, for every value of its constants.         *)
(***************************************************************************)
EXTENDS ResourceRuntime, TLAPS

-----------------------------------------------------------------------------
(***************************************************************************)
(* What the operators on values return.                                    *)
(***************************************************************************)

\* A leaf is a handle exactly when it is none of the four other leaves.
LEMMA HandleLeaf ==
    ASSUME NEW x \in Leaf
    PROVE  is_handle(x) <=> x \in Handle
BY LeafAssumption DEF is_handle, Leaf

\* The handles of a value are handles.
LEMMA HandlesType ==
    ASSUME NEW s \in Value
    PROVE  handles(s) \subseteq Handle
<1>1. \A i \in DOMAIN s : s[i] \in Leaf
  BY DEF Value
<1> QED
  BY <1>1, HandleLeaf DEF handles

\* Transfer, view and lease rebuild a value leaf by leaf.
LEMMA RebuiltType ==
    ASSUME NEW s \in Value, NEW l \in Nat
    PROVE  /\ rebuilt(s) \in Value /\ DOMAIN rebuilt(s) = DOMAIN s
           /\ to_observing_view(s) \in Value
           /\ to_leased_view(s, l) \in Value
<1>1. /\ Len(s) \in Nat /\ DOMAIN s = 1..Len(s)
      /\ \A i \in DOMAIN s : s[i] \in Leaf
  BY DEF Value
<1>2. ASSUME NEW x \in Handle
      PROVE
        /\ [id |-> x.id, generation |-> x.generation + 1, role |-> "owner", lease |-> 0] \in Handle
        /\ [x EXCEPT !.role = "observer"] \in Handle
        /\ [x EXCEPT !.role = "observer", !.lease = l] \in Handle
  <2> DEFINE y == [x EXCEPT !.role = "observer"]
  <2>1. y \in Handle
    BY DEF Handle
  <2>2. [y EXCEPT !.lease = l] \in Handle
    BY <2>1 DEF Handle
  <2>3. [x EXCEPT !.role = "observer", !.lease = l] = [y EXCEPT !.lease = l]
    OBVIOUS
  <2>4. [id |-> x.id, generation |-> x.generation + 1, role |-> "owner", lease |-> 0] \in Handle
    BY DEF Handle
  <2> QED
    BY <2>1, <2>2, <2>3, <2>4
<1>3. Handle \subseteq Leaf
  BY DEF Leaf
<1>4. rebuilt(s) \in [1..Len(s) -> Leaf]
  BY <1>1, <1>2, <1>3, HandleLeaf DEF rebuilt, next_generation
<1>5. to_observing_view(s) \in [1..Len(s) -> Leaf]
  BY <1>1, <1>2, <1>3, HandleLeaf DEF to_observing_view
<1>6. to_leased_view(s, l) \in [1..Len(s) -> Leaf]
  BY <1>1, <1>2, <1>3, HandleLeaf DEF to_leased_view
<1> QED
  BY <1>1, <1>4, <1>5, <1>6 DEF Value, rebuilt

\* Committing a transfer changes generations and nothing else of the table.
LEMMA CommitType ==
    ASSUME records \in Seq(ResourceRecord), NEW s \in Value
    PROVE  /\ commit_transfer(s) \in Seq(ResourceRecord)
           /\ Len(commit_transfer(s)) = Len(records)
           /\ DOMAIN commit_transfer(s) = DOMAIN records
<1>1. ASSUME NEW i \in DOMAIN records
      PROVE  [records[i] EXCEPT !.generation = @ + 1] \in ResourceRecord
  <2>1. records[i] \in ResourceRecord
    OBVIOUS
  <2> QED
    BY <2>1 DEF ResourceRecord
<1>2. commit_transfer(s) \in [1..Len(records) -> ResourceRecord]
  BY <1>1 DEF commit_transfer, next_generation
<1> QED
  BY <1>2

\* Reading a place yields leaves.
LEMMA LeafAtType ==
    ASSUME records \in Seq(ResourceRecord), NEW s \in Value, NEW p \in Seq(Nat \ {0}), p # <<>>
    PROVE  leaf_at(s, p) \in Leaf
<1>1. Absent \in Leaf /\ \A i \in DOMAIN s : s[i] \in Leaf
  BY DEF Value, Leaf
<1>2. ASSUME NEW c, NEW k PROVE hop(c, k) \in Leaf
  <2>1. ASSUME c.id \in DOMAIN records, k \in DOMAIN records[c.id].fields
        PROVE  records[c.id].fields[k] \in Leaf
    <3>1. records[c.id] \in ResourceRecord
      BY <2>1
    <3>2. records[c.id].fields \in Value
      BY <3>1 DEF ResourceRecord
    <3> QED
      BY <3>2, <2>1 DEF Value
  <2> QED
    BY <1>1, <2>1 DEF hop, observe, record, fields
<1> QED
  BY <1>1, <1>2 DEF leaf_at

\* What a read of a place (observe_projections) hands back is a value.
LEMMA ObserveProjectionsType ==
    ASSUME records \in Seq(ResourceRecord), NEW s \in Value, NEW p \in Seq(Nat \ {0}),
           place_exists(s, p)
    PROVE  observe_projections(s, p) \in Value
<1>1. CASE p = <<>>
  BY <1>1 DEF observe_projections
<1>2. CASE p # <<>>
  <2>1. leaf_at(s, p) \in Leaf
    BY <1>2, LeafAtType
  <2>2. s[p[1]] \in Leaf
    BY <1>2 DEF place_exists, Value
  <2>3. seen_through(s[p[1]], leaf_at(s, p)) \in Leaf
    <3> DEFINE x == leaf_at(s, p)
               r == s[p[1]]
    <3>1. CASE is_handle(x) /\ is_handle(r)
      <4>1. x \in Handle /\ r \in Handle
        BY <2>1, <2>2, <3>1, HandleLeaf
      <4>2. seen_through(r, x) \in Handle
        BY <4>1 DEF Handle, seen_through
      <4> QED
        BY <4>2 DEF Leaf
    <3>2. CASE ~(is_handle(x) /\ is_handle(r))
      BY <3>2, <2>1 DEF seen_through
    <3> QED
      BY <3>1, <3>2
  <2>4. Len(p) \in Nat
    OBVIOUS
  <2> QED
    BY <1>2, <2>1, <2>3, <2>4 DEF observe_projections, Value
<1> QED
  BY <1>1, <1>2

-----------------------------------------------------------------------------
(***************************************************************************)
(* Type correctness.                                                       *)
(***************************************************************************)

\* What the running frame holds.
LEMMA TopFrame ==
    ASSUME TypeOK, frames # <<>>
    PROVE  /\ Top \in DOMAIN frames /\ Top \in DOMAIN vals /\ Top \in DOMAIN obs
           /\ vals[Top] \in [Vals -> Value]
           /\ \A v \in Vals : V(v) \in Value
           /\ \A v \in Vals : canonical_root(v) \in Vals
           /\ frames[Top] \in Frame
           /\ obs[Top] \in Seq([observation : Observations, lease : Nat])
<1>1. Len(frames) \in Nat /\ Len(frames) > 0
  BY DEF TypeOK
<1>2. Top \in 1..Len(frames)
  BY <1>1 DEF Top
<1>3. /\ Top \in DOMAIN frames /\ Top \in DOMAIN vals /\ Top \in DOMAIN obs
  BY <1>2 DEF TypeOK
<1>4. vals[Top] \in [Vals -> Value] /\ frames[Top] \in Frame
      /\ obs[Top] \in Seq([observation : Observations, lease : Nat])
  BY <1>3 DEF TypeOK
<1>5. \A v \in Vals : canonical_root(v) \in Vals
  BY BoundAssumption DEF canonical_root, Vals
<1> QED
  BY <1>3, <1>4, <1>5 DEF V

\* Writing a value of the running frame.
LEMMA InsertType ==
    ASSUME TypeOK, frames # <<>>, NEW v \in Vals, NEW s \in Value, Insert(v, s)
    PROVE  vals' \in Seq([Vals -> Value]) /\ Len(vals') = Len(vals)
<1>1. Top \in DOMAIN vals /\ vals[Top] \in [Vals -> Value] /\ vals \in Seq([Vals -> Value])
  BY TopFrame DEF TypeOK
<1>2. [vals[Top] EXCEPT ![v] = s] \in [Vals -> Value]
  BY <1>1
<1>3. vals' = [vals EXCEPT ![Top] = [vals[Top] EXCEPT ![v] = s]]
  BY DEF Insert
<1> QED
  BY <1>1, <1>2, <1>3

\* Replacing all the values of the running frame.
LEMMA FrameValuesType ==
    ASSUME TypeOK, frames # <<>>, NEW g \in [Vals -> Value], vals' = [vals EXCEPT ![Top] = g]
    PROVE  vals' \in Seq([Vals -> Value]) /\ Len(vals') = Len(vals)
<1>1. Top \in DOMAIN vals /\ vals \in Seq([Vals -> Value])
  BY TopFrame DEF TypeOK
<1> QED
  BY <1>1

\* Replacing the observation stack of the running frame.
LEMMA FrameObsType ==
    ASSUME TypeOK, frames # <<>>,
           NEW t \in Seq([observation : Observations, lease : Nat]),
           obs' = [obs EXCEPT ![Top] = t]
    PROVE  /\ obs' \in Seq(Seq([observation : Observations, lease : Nat]))
           /\ Len(obs') = Len(obs)
<1> DEFINE O == Seq([observation : Observations, lease : Nat])
<1>1. Top \in DOMAIN obs /\ obs \in Seq(O) /\ t \in O
  BY TopFrame DEF TypeOK
<1> HIDE DEF O
<1>2. obs' \in Seq(O) /\ Len(obs') = Len(obs)
  BY <1>1
<1> QED
  BY <1>2 DEF O

\* An instruction that keeps the frame and the leases, and types what it
\* writes, keeps the type invariant.
LEMMA TableStepType ==
    ASSUME TypeOK, OnlyTable, records' \in Seq(ResourceRecord),
           vals' \in Seq([Vals -> Value]), Len(vals') = Len(vals)
    PROVE  TypeOK'
BY DEF TypeOK, OnlyTable

\* The same for an instruction that writes only values.
LEMMA ValsStepType ==
    ASSUME TypeOK, OnlyVals, vals' \in Seq([Vals -> Value]), Len(vals') = Len(vals)
    PROVE  TypeOK'
BY DEF TypeOK, OnlyVals

\* An instruction that returns Err writes nothing.
LEMMA RefuseType ==
    ASSUME TypeOK, Refuse
    PROVE  TypeOK'
BY DEF TypeOK, Refuse

\* The supplied fields of a construction are a value.
LEMMA ConcatType ==
    ASSUME TypeOK, frames # <<>>, NEW args \in Args(2)
    PROVE  Concat(args) \in Value
<1>1. \A v \in Vals : V(v) \in Value
  BY TopFrame
<1>2. PICK k \in 0..2 : args \in [1..k -> Vals]
  BY DEF Args
<1>3. args \in Seq(Vals) /\ Len(args) = k
  BY <1>2
<1>4. CASE k = 0
  BY <1>3, <1>4 DEF Concat, Value
<1>5. CASE k = 1
  BY <1>1, <1>3, <1>5 DEF Concat, Value
<1>6. CASE k = 2
  <2>1. args[1] \in Vals /\ args[2] \in Vals
    BY <1>3, <1>6
  <2>2. V(args[1]) \o V(args[2]) \in Seq(Leaf)
    BY <2>1, <1>1 DEF Value
  <2> QED
    BY <1>3, <1>6, <2>2 DEF Concat, Value
<1> QED
  BY <1>2, <1>4, <1>5, <1>6

\* Overwriting one leaf of a value.
LEMMA SetLeafType ==
    ASSUME NEW s \in Value, NEW k \in DOMAIN s, NEW x \in Leaf
    PROVE  [s EXCEPT ![k] = x] \in Value
BY DEF Value

\* Overwriting one field of a resource.
LEMMA WithFieldType ==
    ASSUME NEW recs \in Seq(ResourceRecord), NEW i \in DOMAIN recs,
           NEW k \in DOMAIN recs[i].fields, NEW x \in Leaf
    PROVE  with_field(recs, i, k, x) \in Seq(ResourceRecord)
<1>1. recs[i] \in ResourceRecord
  OBVIOUS
<1>2. recs[i].fields \in Value
  BY <1>1 DEF ResourceRecord
<1>3. [recs[i].fields EXCEPT ![k] = x] \in Value
  BY <1>2, SetLeafType
<1>4. [recs[i] EXCEPT !.fields = [recs[i].fields EXCEPT ![k] = x]] \in ResourceRecord
  BY <1>1, <1>3 DEF ResourceRecord
<1>5. with_field(recs, i, k, x)
        = [recs EXCEPT ![i] = [recs[i] EXCEPT !.fields = [recs[i].fields EXCEPT ![k] = x]]]
  BY DEF with_field
<1> QED
  BY <1>4, <1>5

\* The instructions that define a result by transferring a value.
LEMMA TransferType ==
    ASSUME TypeOK, frames # <<>>, NEW v \in Vals, NEW s \in Value,
           records' = commit_transfer(s), Insert(v, rebuilt(s)), OnlyTable
    PROVE  TypeOK'
<1>1. records' \in Seq(ResourceRecord)
  BY CommitType DEF TypeOK
<1>2. rebuilt(s) \in Value
  BY RebuiltType
<1> QED
  BY <1>1, <1>2, InsertType, TableStepType

\* Constructing a resource appends a well-typed record (ResourceTable::construct).
LEMMA ResourceCreateType ==
    ASSUME TypeOK, frames # <<>>, NEW v \in Vals, NEW args \in Args(2), ResourceCreate(v, args)
    PROVE  TypeOK'
<1> DEFINE s == Concat(args)
           new == [generation |-> 0, status |-> "alive", fields |-> rebuilt(s)]
           h == [id |-> Len(records) + 1, generation |-> 0, role |-> "owner", lease |-> 0]
<1>1. s \in Value
  BY ConcatType
<1>2. CASE Refuse
  BY <1>2, RefuseType
<1>3. CASE records' = Append(commit_transfer(s), new) /\ Insert(v, <<h>>) /\ OnlyTable
  <2>1. new \in ResourceRecord
    BY <1>1, RebuiltType DEF ResourceRecord
  <2>2. records \in Seq(ResourceRecord) /\ Len(records) \in Nat
    BY DEF TypeOK
  <2>3. records' \in Seq(ResourceRecord)
    BY <2>1, <2>2, <1>1, <1>3, CommitType
  <2>4. h \in Leaf
    BY <2>2 DEF Leaf, Handle
  <2>5. <<h>> \in Value
    BY <2>4 DEF Value
  <2> QED
    BY <1>3, <2>3, <2>5, InsertType, TableStepType
<1> QED
  BY <1>2, <1>3 DEF ResourceCreate, Attempt

\* An observing read of a place keeps the types.
LEMMA ReadViewType ==
    ASSUME TypeOK, frames # <<>>, NEW v \in Vals, NEW s \in Value, NEW p \in Paths,
           read_view(v, s, p)
    PROVE  TypeOK'
<1> DEFINE seen == observe_projections(s, p)
<1>1. CASE Refuse
  BY <1>1, RefuseType
<1>2. CASE place_exists(s, p) /\ Insert(v, to_observing_view(seen)) /\ OnlyVals
  <2>1. seen \in Value
    BY <1>2, ObserveProjectionsType, BoundAssumption DEF TypeOK
  <2>2. to_observing_view(seen) \in Value
    BY <2>1, RebuiltType
  <2> QED
    BY <1>2, <2>2, InsertType, ValsStepType
<1> QED
  BY <1>1, <1>2 DEF read_view, Attempt

\* Taking a leaf out of a place keeps the types, in the frame and in the table.
LEMMA PlaceReadTransferType ==
    ASSUME TypeOK, frames # <<>>, NEW v \in Vals, NEW root \in Vals, NEW p \in Paths,
           PlaceReadTransfer(v, root, p)
    PROVE  TypeOK'
<1> DEFINE r == canonical_root(root)
           s == V(r)
           leaf == leaf_at(s, p)
           c == container(s, p)
<1>1. /\ r \in Vals /\ s \in Value /\ records \in Seq(ResourceRecord)
      /\ p \in Seq(Nat \ {0}) /\ Len(p) \in Nat
  BY TopFrame, BoundAssumption DEF TypeOK
<1>0. Len(p) >= 1 => p # <<>>
  BY <1>1
<1>2. ASSUME p # <<>>
      PROVE  leaf \in Leaf /\ tombstone(leaf) \in Leaf /\ <<leaf>> \in Value
  <2>1. leaf \in Leaf
    BY <1>1, <1>2, LeafAtType
  <2>2. tombstone(leaf) \in Leaf
    BY DEF tombstone, Leaf
  <2> QED
    BY <2>1, <2>2 DEF Value
<1>3. CASE Refuse
  BY <1>3, RefuseType
<1>4. CASE p = <<>> /\ Insert(v, s) /\ UNCHANGED records /\ OnlyTable
  BY <1>1, <1>4, InsertType, TableStepType DEF TypeOK
<1>5. CASE /\ Len(p) = 1 /\ place_exists(s, p)
           /\ vals' = [vals EXCEPT ![Top][r][p[1]] = tombstone(leaf), ![Top][v] = <<leaf>>]
           /\ UNCHANGED records /\ OnlyTable
  <2> DEFINE s2 == [s EXCEPT ![p[1]] = tombstone(leaf)]
             f2 == [vals[Top] EXCEPT ![r] = s2]
             f3 == [f2 EXCEPT ![v] = <<leaf>>]
  <2>0. p # <<>>
    BY <1>0, <1>5
  <2>1. p # <<>> /\ p[1] \in DOMAIN s
    BY <2>0, <1>5 DEF place_exists
  <2>2. s2 \in Value
    BY <1>1, <1>2, <2>1, SetLeafType
  <2>3. /\ vals \in Seq([Vals -> Value]) /\ Top \in DOMAIN vals
        /\ vals[Top] \in [Vals -> Value]
    BY TopFrame DEF TypeOK
  <2>4. f3 \in [Vals -> Value]
    BY <1>1, <1>2, <2>1, <2>2, <2>3
  <2>5. vals' = [vals EXCEPT ![Top] = f3]
    BY <1>5, <2>3 DEF V
  <2>6. vals' \in Seq([Vals -> Value]) /\ Len(vals') = Len(vals)
    BY <2>3, <2>4, <2>5
  <2> QED
    BY <1>1, <1>5, <2>6, TableStepType
<1>6. CASE /\ Len(p) > 1 /\ owning_path(s, p)
           /\ records' = with_field(records, c.id, Last(p), tombstone(leaf))
           /\ Insert(v, <<leaf>>) /\ OnlyTable
  <2>1. p # <<>>
    BY <1>1, <1>6
  <2>2. c.id \in DOMAIN records /\ Last(p) \in DOMAIN records[c.id].fields
    BY <1>6 DEF owning_path, observe, record, fields
  <2>3. records' \in Seq(ResourceRecord)
    BY <1>1, <1>2, <1>6, <2>1, <2>2, WithFieldType
  <2> QED
    BY <1>2, <1>6, <2>1, <2>3, InsertType, TableStepType
<1>7. CASE /\ p # <<>> /\ place_exists(s, p) /\ take_refused(r, p) /\ UNCHANGED records
           /\ vals' = [vals EXCEPT ![Top][r] = [s EXCEPT ![p[1]] = tombstone(leaf)]]
  <2>1. p[1] \in DOMAIN s
    BY <1>7 DEF place_exists
  <2>2. [s EXCEPT ![p[1]] = tombstone(leaf)] \in Value
    BY <1>1, <1>2, <1>7, <2>1, SetLeafType
  <2>4. /\ vals \in Seq([Vals -> Value]) /\ Top \in DOMAIN vals
        /\ vals[Top] \in [Vals -> Value]
    BY TopFrame DEF TypeOK
  <2>5. vals' \in Seq([Vals -> Value]) /\ Len(vals') = Len(vals)
    BY <1>1, <1>7, <2>2, <2>4
  <2> QED
    BY <1>7, <2>5 DEF take_refused, TypeOK
<1>8. CASE /\ Len(p) > 1 /\ owning_path(s, p) /\ take_refused(r, p) /\ UNCHANGED vals
           /\ records' = with_field(records, c.id, Last(p), tombstone(leaf))
  <2>1. p # <<>>
    BY <1>1, <1>8
  <2>2. c.id \in DOMAIN records /\ Last(p) \in DOMAIN records[c.id].fields
    BY <1>8 DEF owning_path, observe, record, fields
  <2>4. records' \in Seq(ResourceRecord)
    BY <1>1, <1>2, <1>8, <2>1, <2>2, WithFieldType
  <2> QED
    BY <1>8, <2>4 DEF take_refused, TypeOK
<1>9. CASE take_projections(v, r, p) /\ place_exists(s, p) /\ (p # <<>> => owning_path(s, p))
  BY <1>1, <1>4, <1>5, <1>6, <1>9 DEF take_projections
<1>10. CASE take_refused(r, p) /\ place_exists(s, p) /\ (p # <<>> => owning_path(s, p))
  BY <1>1, <1>7, <1>8, <1>10 DEF take_refused
<1> QED
  BY <1>1, <1>3, <1>9, <1>10 DEF PlaceReadTransfer, Attempt

\* Decomposing a variant keeps the types.
LEMMA DecomposeType ==
    ASSUME TypeOK, frames # <<>>, NEW base \in Vals, NEW taken, DecomposeVariant(base, taken)
    PROVE  TypeOK'
<1> DEFINE r == canonical_root(base)
           s == V(r)
           s2 == [i \in DOMAIN s |->
                    IF \E t \in taken : t[1] = i THEN tombstone(s[i]) ELSE s[i]]
<1>1. r \in Vals /\ s \in Value
  BY TopFrame
<1>2. s2 \in Value
  <2>1. Len(s) \in Nat /\ DOMAIN s = 1..Len(s) /\ \A i \in DOMAIN s : s[i] \in Leaf
    BY <1>1 DEF Value
  <2>2. \A i \in DOMAIN s : tombstone(s[i]) \in Leaf
    BY DEF tombstone, Leaf
  <2>3. s2 \in [1..Len(s) -> Leaf]
    BY <2>1, <2>2
  <2> QED
    BY <2>1, <2>3 DEF Value
<1>3. CASE Refuse
  BY <1>3, RefuseType
<1>4. CASE Insert(r, s2) /\ OnlyVals
  BY <1>1, <1>2, <1>4, InsertType, ValsStepType
<1> QED
  BY <1>3, <1>4 DEF DecomposeVariant, Attempt

\* Destroying an owned tree keeps the types.
LEMMA DropType ==
    ASSUME TypeOK, frames # <<>>, NEW v \in Vals, Drop(v)
    PROVE  TypeOK'
<1> DEFINE D == identities(V(v))
           recs == [i \in DOMAIN records |->
                      IF i \in D THEN [records[i] EXCEPT !.status = "dropped"] ELSE records[i]]
<1>1. CASE Refuse
  BY <1>1, RefuseType
<1>2. CASE records' = recs /\ Insert(v, <<Absent>>) /\ OnlyTable
  <2>1. records \in Seq(ResourceRecord) /\ Len(records) \in Nat /\ DOMAIN records = 1..Len(records)
    BY DEF TypeOK
  <2>2. ASSUME NEW i \in DOMAIN records
        PROVE  [records[i] EXCEPT !.status = "dropped"] \in ResourceRecord
    <3>1. records[i] \in ResourceRecord
      BY <2>1
    <3> QED
      BY <3>1 DEF ResourceRecord
  <2>3. recs \in [1..Len(records) -> ResourceRecord]
    BY <2>1, <2>2
  <2>4. records' \in Seq(ResourceRecord)
    BY <1>2, <2>1, <2>3
  <2>5. <<Absent>> \in Value
    BY DEF Value, Leaf
  <2> QED
    BY <1>2, <2>4, <2>5, InsertType, TableStepType
<1> QED
  BY <1>1, <1>2 DEF Drop, Attempt

\* A structural store keeps the types, in the frame and in the table.
LEMMA StorePlaceType ==
    ASSUME TypeOK, frames # <<>>, NEW root \in Vals, NEW src \in Vals, NEW p \in Paths,
           StorePlace(root, p, src)
    PROVE  TypeOK'
<1> DEFINE r == canonical_root(root)
           s == V(src)
           d == V(r)
           leaf == rebuilt(s)[1]
           c == container(d, p)
           f1 == [vals[Top] EXCEPT ![r] = [d EXCEPT ![p[1]] = leaf]]
           Empty(f) == [[f EXCEPT ![src] = <<Moved>>] EXCEPT ![canonical_root(src)] = <<Moved>>]
<1>1. /\ r \in Vals /\ canonical_root(src) \in Vals /\ s \in Value /\ d \in Value
      /\ records \in Seq(ResourceRecord) /\ vals \in Seq([Vals -> Value])
      /\ Top \in DOMAIN vals /\ vals[Top] \in [Vals -> Value]
      /\ p \in Seq(Nat \ {0}) /\ Len(p) \in Nat
  BY TopFrame, BoundAssumption DEF TypeOK
<1>2. Len(s) = 1 /\ p # <<>>
  BY DEF StorePlace
<1>3. leaf \in Leaf
  <2>1. rebuilt(s) \in Value /\ DOMAIN rebuilt(s) = DOMAIN s
    BY <1>1, RebuiltType
  <2>2. 1 \in DOMAIN s
    BY <1>1, <1>2 DEF Value
  <2> QED
    BY <2>1, <2>2 DEF Value
<1>4. <<Moved>> \in Value
  BY DEF Value, Leaf
<1>5. /\ commit_transfer(s) \in Seq(ResourceRecord)
      /\ DOMAIN commit_transfer(s) = DOMAIN records
  BY <1>1, CommitType
<1>6. ASSUME NEW f \in [Vals -> Value], vals' = [vals EXCEPT ![Top] = Empty(f)]
      PROVE  vals' \in Seq([Vals -> Value]) /\ Len(vals') = Len(vals)
  <2>1. Empty(f) \in [Vals -> Value]
    BY <1>1, <1>4
  <2> HIDE DEF Empty
  <2> QED
    BY <1>6, <2>1, FrameValuesType
<1>7. CASE Refuse
  BY <1>7, RefuseType
<1>8. CASE /\ is_tombstone(leaf_at(d, p)) /\ Len(p) = 1 /\ records' = commit_transfer(s)
           /\ vals' = [vals EXCEPT ![Top][r][p[1]] = leaf, ![Top][src] = <<Moved>>,
                                   ![Top][canonical_root(src)] = <<Moved>>]
           /\ OnlyTable
  <2>1. p[1] \in DOMAIN d
    BY <1>8, LeafAssumption DEF is_tombstone, leaf_at
  <2>2. [d EXCEPT ![p[1]] = leaf] \in Value
    BY <1>1, <1>3, <2>1, SetLeafType
  <2>3. f1 \in [Vals -> Value]
    BY <1>1, <2>2
  <2>4. vals' = [vals EXCEPT ![Top] = Empty(f1)]
    BY <1>1, <1>8 DEF V
  <2> QED
    BY <1>5, <1>6, <1>8, <2>3, <2>4, TableStepType
<1>9. CASE /\ owning_path(d, p) /\ Len(p) > 1
           /\ records' = with_field(commit_transfer(s), c.id, Last(p), leaf)
           /\ vals' = [vals EXCEPT ![Top][src] = <<Moved>>,
                                   ![Top][canonical_root(src)] = <<Moved>>]
           /\ OnlyTable
  <2>1. c.id \in DOMAIN records /\ Last(p) \in DOMAIN records[c.id].fields
    BY <1>9 DEF owning_path, observe, record, fields
  <2>2. records[c.id] \in ResourceRecord
    BY <1>1, <2>1
  <2>3. commit_transfer(s)[c.id].fields = records[c.id].fields
    <3>1. [records[c.id] EXCEPT !.generation = @ + 1].fields = records[c.id].fields
      BY <2>2 DEF ResourceRecord
    <3> QED
      BY <2>1, <3>1 DEF commit_transfer, next_generation
  <2>4. records' \in Seq(ResourceRecord)
    BY <1>3, <1>5, <1>9, <2>1, <2>3, WithFieldType
  <2>5. vals' = [vals EXCEPT ![Top] = Empty(vals[Top])]
    BY <1>1, <1>9
  <2> QED
    BY <1>1, <1>6, <1>9, <2>4, <2>5, TableStepType
<1> QED
  BY <1>7, <1>8, <1>9 DEF StorePlace, validate_store_target, Attempt

\* A stack without its top.
LEMMA FrontType ==
    ASSUME NEW S, NEW s \in Seq(S), s # <<>>
    PROVE  /\ Front(s) \in Seq(S) /\ Len(Front(s)) = Len(s) - 1
           /\ Len(s) \in DOMAIN s /\ Last(s) = s[Len(s)] /\ Last(s) \in S
           /\ \A i \in 1..(Len(s) - 1) : Front(s)[i] = s[i]
<1>1. Len(s) \in Nat \ {0} /\ DOMAIN s = 1..Len(s)
  OBVIOUS
<1>2. Len(s) - 1 \in Nat
  BY <1>1
<1>3. Front(s) \in Seq(S) /\ Len(Front(s)) = Len(s) - 1
  BY <1>1, <1>2 DEF Front
<1>4. \A i \in 1..(Len(s) - 1) : Front(s)[i] = s[i]
  BY <1>1, <1>2 DEF Front
<1> QED
  BY <1>1, <1>3, <1>4 DEF Last

\* The identities below a value are numbers.
LEMMA IdentitiesType ==
    ASSUME records \in Seq(ResourceRecord), NEW s \in Value
    PROVE  identities(s) \subseteq Nat
<1>1. ASSUME NEW i \in DOMAIN records PROVE records[i].fields \in Value
  <2>1. records[i] \in ResourceRecord
    OBVIOUS
  <2> QED
    BY <2>1 DEF ResourceRecord
<1>2. stored_handles \subseteq Handle
  BY <1>1, HandlesType DEF stored_handles
<1>3. collect_reachable(s) \subseteq Handle
  BY <1>2, HandlesType DEF collect_reachable, below
<1> QED
  BY <1>3 DEF identities, ids, Handle

\* Opening an observation.
LEMMA BeginObserveType ==
    ASSUME TypeOK, frames # <<>>, NEW v \in Vals, NEW o \in Observations,
           NEW root \in Vals, NEW p \in Paths, begin_observe(v, o, root, p)
    PROVE  TypeOK'
<1> DEFINE r == canonical_root(root)
           seen == observe_projections(V(r), p)
           reserved == Len(leases) + 1
           parent == IF obs[Top] = <<>> THEN 0 ELSE Last(obs[Top]).lease
           new == [status |-> "active", parent |-> parent, observed |-> identities(seen)]
           entry == [observation |-> o, lease |-> reserved]
<1>1. CASE Refuse
  BY <1>1, RefuseType
<1>2. CASE /\ place_exists(V(r), p)
           /\ leases' = Append(leases, new)
           /\ active' = Append(active, reserved)
           /\ obs' = [obs EXCEPT ![Top] = Append(@, entry)]
           /\ Insert(v, to_leased_view(seen, reserved))
           /\ UNCHANGED <<records, frames, failing, terminated, host>>
  <2>1. r \in Vals /\ V(r) \in Value /\ p \in Seq(Nat \ {0}) /\ records \in Seq(ResourceRecord)
    BY TopFrame, BoundAssumption DEF TypeOK
  <2>2. seen \in Value
    BY <1>2, <2>1, ObserveProjectionsType
  <2>3. reserved \in Nat
    BY DEF TypeOK
  <2>4. /\ obs[Top] \in Seq([observation : Observations, lease : Nat])
        /\ Top \in DOMAIN obs
        /\ obs \in Seq(Seq([observation : Observations, lease : Nat]))
    BY TopFrame DEF TypeOK
  <2>5. parent \in Nat
    <3>1. CASE obs[Top] # <<>>
      <4>1. Last(obs[Top]) \in [observation : Observations, lease : Nat]
        BY <2>4, <3>1, FrontType
      <4> QED
        BY <3>1, <4>1
    <3> QED
      BY <3>1
  <2>6. new \in LeaseRecord
    BY <2>1, <2>2, <2>5, IdentitiesType DEF LeaseRecord
  <2>7. leases' \in Seq(LeaseRecord) /\ active' \in Seq(Nat)
    BY <1>2, <2>3, <2>6 DEF TypeOK
  <2>8. Append(obs[Top], entry) \in Seq([observation : Observations, lease : Nat])
    BY <2>3, <2>4
  <2>9. /\ obs' \in Seq(Seq([observation : Observations, lease : Nat]))
        /\ Len(obs') = Len(obs)
    BY <1>2, <2>8, FrameObsType
  <2>10. to_leased_view(seen, reserved) \in Value
    BY <2>2, <2>3, RebuiltType
  <2>11. vals' \in Seq([Vals -> Value]) /\ Len(vals') = Len(vals)
    BY <1>2, <2>10, InsertType
  <2> QED
    BY <1>2, <2>7, <2>9, <2>11 DEF TypeOK
<1> QED
  BY <1>1, <1>2 DEF begin_observe, Attempt

\* Removing one element of a sequence.
LEMMA RemoveAtType ==
    ASSUME NEW S, NEW s \in Seq(S), NEW n \in DOMAIN s
    PROVE  RemoveAt(s, n) \in Seq(S)
BY DEF RemoveAt

\* Marking one lease ended.
LEMMA EndedType ==
    ASSUME leases \in Seq(LeaseRecord), NEW l \in DOMAIN leases
    PROVE  /\ [leases[l] EXCEPT !.status = "ended"] \in LeaseRecord
           /\ [leases EXCEPT ![l].status = "ended"] \in Seq(LeaseRecord)
<1>1. leases[l] \in LeaseRecord
  OBVIOUS
<1>2. [leases[l] EXCEPT !.status = "ended"] \in LeaseRecord
  BY <1>1 DEF LeaseRecord
<1>3. [leases EXCEPT ![l].status = "ended"]
        = [leases EXCEPT ![l] = [leases[l] EXCEPT !.status = "ended"]]
  OBVIOUS
<1> QED
  BY <1>2, <1>3

\* Ending an observation.
LEMMA EndObserveType ==
    ASSUME TypeOK, frames # <<>>, NEW o, end_observe(o)
    PROVE  TypeOK'
<1> DEFINE l == Last(obs[Top]).lease
<1>1. CASE Refuse
  BY <1>1, RefuseType
<1>2. CASE /\ obs[Top] # <<>>
           /\ leases' = [leases EXCEPT ![l].status = "ended"]
           /\ \E n \in DOMAIN active : active[n] = l /\ active' = RemoveAt(active, n)
           /\ obs' = [obs EXCEPT ![Top] = Front(@)]
           /\ UNCHANGED <<records, frames, vals, failing, terminated, host>>
  <2>1. leases' \in Seq(LeaseRecord)
    <3> HIDE DEF l
    <3>1. leases \in Seq(LeaseRecord)
      BY DEF TypeOK
    <3>2. CASE l \in DOMAIN leases
      BY <1>2, <3>1, <3>2, EndedType
    <3>3. CASE l \notin DOMAIN leases
      <4> DEFINE e == [leases EXCEPT ![l] = [leases[l] EXCEPT !.status = "ended"]]
      <4>1. e = leases
        BY <3>1, <3>3
      <4> QED
        BY <1>2, <3>1, <4>1
    <3> QED
      BY <3>2, <3>3
  <2>2. active' \in Seq(Nat)
    BY <1>2, RemoveAtType DEF TypeOK
  <2>3. Front(obs[Top]) \in Seq([observation : Observations, lease : Nat])
    BY <1>2, TopFrame, FrontType
  <2>4. /\ obs' \in Seq(Seq([observation : Observations, lease : Nat]))
        /\ Len(obs') = Len(obs)
    BY <1>2, <2>3, FrameObsType
  <2> QED
    BY <1>2, <2>1, <2>2, <2>4 DEF TypeOK
<1> QED
  BY <1>1, <1>2 DEF end_observe, Attempt

\* Entering a frame.
LEMMA EnterFrameType ==
    ASSUME TypeOK, NEW bound \in [Vals -> Value], NEW observing \in SUBSET Params,
           NEW ok \in Vals \cup {Absent}, NEW err \in Vals \cup {Absent},
           EnterFrame(bound, observing, ok, err), records' \in Seq(ResourceRecord),
           UNCHANGED <<leases, active, failing, terminated, host>>
    PROVE  TypeOK'
<1> DEFINE new == [mark |-> Len(leases), observing |-> observing, ok |-> ok, err |-> err]
           O == Seq([observation : Observations, lease : Nat])
<1>1. new \in Frame
  BY DEF Frame, TypeOK
<1>2. frames \in Seq(Frame) /\ frames' = Append(frames, new)
  BY DEF TypeOK, EnterFrame
<1>3. frames' \in Seq(Frame) /\ Len(frames') = Len(frames) + 1
  BY <1>1, <1>2
<1>4. vals' \in Seq([Vals -> Value]) /\ Len(vals') = Len(frames) + 1
  BY DEF TypeOK, EnterFrame
<1>5. obs \in Seq(O) /\ <<>> \in O /\ obs' = Append(obs, <<>>) /\ Len(obs) = Len(frames)
  BY DEF TypeOK, EnterFrame
<1>6. obs' \in Seq(O) /\ Len(obs') = Len(frames) + 1
  <2> HIDE DEF O
  <2> QED
    BY <1>5
<1> QED
  BY <1>3, <1>4, <1>6 DEF TypeOK

\* The arguments of a call, bound to its parameters.
LEMMA CallType ==
    ASSUME TypeOK, frames # <<>>, NEW args \in Arguments,
           NEW ok \in Vals \cup {Absent}, NEW err \in Vals \cup {Absent},
           call_function(args, ok, err)
    PROVE  TypeOK'
<1> DEFINE Arg == [value : Vals, take : BOOLEAN]
<1>1. \A v \in Vals : V(v) \in Value
  BY TopFrame
<1>2. PICK k \in 0..Len(ParamList) : args \in [1..k -> Arg]
  BY DEF Arguments
<1>3. k \in Nat /\ k <= 2 /\ k <= Len(ParamList) /\ Len(ParamList) \in Nat
  BY <1>2, BoundAssumption
<1>4. args \in Seq(Arg) /\ Len(args) = k /\ DOMAIN args = 1..k
  <2> HIDE DEF Arg
  <2> QED
    BY <1>2, <1>3
<1>5. ASSUME NEW i \in DOMAIN args PROVE args[i] \in Arg /\ args[i].value \in Vals
  <2>1. args[i] \in Arg
    <3> HIDE DEF Arg
    <3> QED
      BY <1>2, <1>4
  <2> QED
    BY <2>1
<1>6. <<>> \in Value
  BY DEF Value
<1>7. \A i \in DOMAIN args : handed(args[i]) \in Value
  BY <1>1, <1>5, <1>6 DEF handed
<1>8. taken_args(args) \in Value
  <2>1. CASE k = 0
    BY <2>1, <1>4, <1>6 DEF taken_args
  <2>2. CASE k = 1
    BY <2>2, <1>4, <1>7 DEF taken_args
  <2>3. CASE k = 2
    <3>1. handed(args[1]) \in Value /\ handed(args[2]) \in Value
      BY <2>3, <1>4, <1>7
    <3>2. handed(args[1]) \o handed(args[2]) \in Value
      BY <3>1 DEF Value
    <3> QED
      BY <2>3, <1>4, <3>2 DEF taken_args
  <2> QED
    BY <2>1, <2>2, <2>3, <1>3
<1>9. \A i \in DOMAIN args : /\ rebuilt(V(args[i].value)) \in Value
                             /\ to_observing_view(V(args[i].value)) \in Value
  BY <1>1, <1>5, RebuiltType
<1>10. bindings(args) \in [Vals -> Value]
  <2>1. <<Absent>> \in Value
    BY DEF Value, Leaf
  <2>2. ASSUME NEW v, \E i \in DOMAIN args : ParamList[i] = v
        PROVE  (CHOOSE i \in DOMAIN args : ParamList[i] = v) \in DOMAIN args
    BY <2>2
  <2> QED
    BY <1>9, <2>1, <2>2 DEF bindings
<1>11. observing_params(args) \subseteq Params
  <2>1. DOMAIN args \subseteq DOMAIN ParamList
    BY <1>3, <1>4, BoundAssumption
  <2> QED
    BY <2>1, BoundAssumption DEF observing_params
<1>12. commit_transfer(taken_args(args)) \in Seq(ResourceRecord)
  BY <1>8, CommitType DEF TypeOK
<1> QED
  BY <1>10, <1>11, <1>12, EnterFrameType DEF call_function

\* Leaving a frame.
LEMMA PopType ==
    ASSUME TypeOK, frames # <<>>
    PROVE  /\ Front(frames) \in Seq(Frame) /\ Len(Front(frames)) = Len(frames) - 1
           /\ Front(vals) \in Seq([Vals -> Value]) /\ Len(Front(vals)) = Len(frames) - 1
           /\ Front(obs) \in Seq(Seq([observation : Observations, lease : Nat]))
           /\ Len(Front(obs)) = Len(frames) - 1
           /\ Len(frames) \in Nat \ {0}
<1>1. Len(frames) \in Nat \ {0}
  BY DEF TypeOK
<1>2. vals # <<>> /\ obs # <<>>
  BY <1>1 DEF TypeOK
<1> QED
  BY <1>1, <1>2, FrontType DEF TypeOK

\* A frame left with a value: the caller's frame, or the host, receives it.
LEMMA LeaveFrameType ==
    ASSUME TypeOK, frames # <<>>, NEW dest, NEW s \in Value, LeaveFrame(dest, s),
           records' \in Seq(ResourceRecord), UNCHANGED <<leases, active, failing, terminated>>
    PROVE  TypeOK'
<1>1. /\ frames' \in Seq(Frame) /\ Len(frames') = Top - 1
      /\ obs' \in Seq(Seq([observation : Observations, lease : Nat])) /\ Len(obs') = Top - 1
      /\ Top \in Nat \ {0}
  BY PopType DEF LeaveFrame, Top
<1>2. CASE Top = 1
  <2>1. vals' = <<>> /\ host' = host \cup handles(s)
    BY <1>2 DEF LeaveFrame
  <2>2. vals' \in Seq([Vals -> Value]) /\ Len(vals') = Top - 1
    BY <1>2, <2>1
  <2>3. host' \subseteq Handle
    BY <2>1, HandlesType DEF TypeOK
  <2> QED
    BY <1>1, <2>2, <2>3 DEF TypeOK
<1>3. CASE Top # 1
  <2> DEFINE F == Front(vals)
             g == [F[Top - 1] EXCEPT ![dest] = s]
  <2>1. F \in Seq([Vals -> Value]) /\ Len(F) = Top - 1
    BY PopType DEF Top
  <2> HIDE DEF F
  <2>2. Top - 1 \in DOMAIN F /\ F[Top - 1] \in [Vals -> Value]
    BY <1>1, <1>3, <2>1
  <2>3. g \in [Vals -> Value]
    BY <2>2
  <2>4. vals' = [F EXCEPT ![Top - 1] = g] /\ host' = host
    BY <1>3 DEF LeaveFrame, F
  <2> HIDE DEF g
  <2>5. vals' \in Seq([Vals -> Value]) /\ Len(vals') = Top - 1
    BY <2>1, <2>2, <2>3, <2>4
  <2> QED
    BY <1>1, <2>4, <2>5 DEF TypeOK
<1> QED
  BY <1>2, <1>3

\* Returning.
LEMMA ReturnType ==
    ASSUME TypeOK, frames # <<>>, NEW s \in Value, Return(s)
    PROVE  TypeOK'
<1>1. CASE Refuse
  BY <1>1, RefuseType
<1>2. CASE /\ records' = commit_transfer(s)
           /\ LeaveFrame(frames[Top].ok, rebuilt(s))
           /\ UNCHANGED <<leases, active, failing, terminated>>
  <2>1. records' \in Seq(ResourceRecord)
    BY <1>2, CommitType DEF TypeOK
  <2>2. rebuilt(s) \in Value
    BY RebuiltType
  <2> QED
    BY <1>2, <2>1, <2>2, LeaveFrameType
<1> QED
  BY <1>1, <1>2 DEF Return, Attempt

\* Raising.
LEMMA RaiseType ==
    ASSUME TypeOK, frames # <<>>, NEW s \in Value, NEW handled, Raise(s, handled)
    PROVE  TypeOK'
<1>1. commit_transfer(s) \in Seq(ResourceRecord) /\ rebuilt(s) \in Value
  BY CommitType, RebuiltType DEF TypeOK
<1>2. CASE Refuse
  BY <1>2, RefuseType
<1>3. CASE /\ records' = commit_transfer(s)
           /\ LeaveFrame(frames[Top].err, rebuilt(s)) /\ UNCHANGED failing
           /\ UNCHANGED <<leases, active, terminated>>
  BY <1>1, <1>3, LeaveFrameType
<1>4. CASE /\ records' = commit_transfer(s)
           /\ frames' = Front(frames) /\ obs' = Front(obs) /\ vals' = Front(vals)
           /\ failing' = TRUE /\ UNCHANGED host
           /\ UNCHANGED <<leases, active, terminated>>
  BY <1>1, <1>4, PopType DEF TypeOK
<1> QED
  BY <1>2, <1>3, <1>4 DEF Raise, Attempt

\* Unwinding.
LEMMA UnwindType ==
    ASSUME TypeOK, Unwind
    PROVE  TypeOK'
<1>1. PICK n \in 0..Len(active) :
        /\ leases' = [l \in DOMAIN leases |->
                         IF \E k \in (n + 1)..Len(active) : active[k] = l
                         THEN [leases[l] EXCEPT !.status = "ended"] ELSE leases[l]]
        /\ active' = SubSeq(active, 1, n)
  BY DEF Unwind, abandon_leases_from
<1>2. leases \in Seq(LeaseRecord) /\ active \in Seq(Nat)
  BY DEF TypeOK
<1>3. leases' \in [1..Len(leases) -> LeaseRecord] /\ Len(leases) \in Nat
  BY <1>1, <1>2, EndedType
<1>4. leases' \in Seq(LeaseRecord)
  BY <1>3
<1>5. active' \in Seq(Nat)
  BY <1>1, <1>2
<1>6. failing' \in BOOLEAN
  BY DEF Unwind
<1> QED
  BY <1>4, <1>5, <1>6, PopType DEF Unwind, TypeOK

\* The empty frame a host call starts with.
LEMMA HostCallType ==
    ASSUME TypeOK, HostCall
    PROVE  TypeOK'
<1>1. no_values \in [Vals -> Value]
  BY DEF no_values, Value, Leaf
<1>2. records' \in Seq(ResourceRecord)
  BY DEF TypeOK, HostCall
<1> QED
  BY <1>1, <1>2, EnterFrameType DEF HostCall

\* The instructions that move values into their result keep the type invariant.
LEMMA TransferInstructionType ==
    ASSUME TypeOK, frames # <<>>, NEW v \in Vals, TransferInstruction(v)
    PROVE  TypeOK'
<1>1. \A u \in Vals : V(u) \in Value
  BY TopFrame
<1>2. CASE \E src \in Vals : Move(v, src)
  <2>1. PICK src \in Vals : Move(v, src)
    BY <1>2
  <2>2. CASE records' = commit_transfer(V(src)) /\ Insert(v, rebuilt(V(src))) /\ OnlyTable
    BY <1>1, <2>2, TransferType
  <2> QED
    BY <2>1, <2>2, RefuseType DEF Move, Attempt
<1>3. CASE \E args \in Args(2) : AggregateCreate(v, args)
  <2>1. PICK args \in Args(2) : AggregateCreate(v, args)
    BY <1>3
  <2>2. Concat(args) \in Value
    BY ConcatType
  <2>3. CASE /\ records' = commit_transfer(Concat(args))
             /\ Insert(v, rebuilt(Concat(args))) /\ OnlyTable
    BY <2>2, <2>3, TransferType
  <2> QED
    BY <2>1, <2>3, RefuseType DEF AggregateCreate, Attempt
<1>4. CASE \E args \in Args(2) : ResourceCreate(v, args)
  BY <1>4, ResourceCreateType
<1>5. CASE \E args \in Arguments : Call(v, args)
  <2>1. PICK args \in Arguments : Call(v, args)
    BY <1>5
  <2>2. v \in Vals \cup {Absent} /\ Absent \in Vals \cup {Absent}
    OBVIOUS
  <2>3. CASE call_function(args, v, Absent)
    BY <2>2, <2>3, CallType
  <2> QED
    BY <2>1, <2>3, RefuseType DEF Call, Attempt
<1> QED
  BY <1>2, <1>3, <1>4, <1>5 DEF TransferInstruction

\* The other instructions that define a result keep the type invariant.
LEMMA ValueInstructionType ==
    ASSUME TypeOK, frames # <<>>, NEW v \in Vals, ValueInstruction(v)
    PROVE  TypeOK'
<1>1. \A u \in Vals : V(u) \in Value
  BY TopFrame
<1>2. CASE Const(v)
  <2>1. PICK c \in Constants : Insert(v, <<c>>) /\ OnlyVals
    BY <1>2 DEF Const
  <2>2. <<c>> \in Value
    BY BoundAssumption DEF Value, Leaf
  <2> QED
    BY <2>1, <2>2, InsertType, ValsStepType
<1>3. CASE \E root \in Vals, p \in Paths : PlaceReadObserve(v, root, p) \/ RecordField(v, root, p)
  <2>1. PICK root \in Vals, p \in Paths : PlaceReadObserve(v, root, p) \/ RecordField(v, root, p)
    BY <1>3
  <2>2. V(canonical_root(root)) \in Value /\ V(root) \in Value
    BY TopFrame
  <2> QED
    BY <2>1, <2>2, ReadViewType DEF PlaceReadObserve, RecordField
<1>4. CASE \E root \in Vals, p \in Paths : PlaceReadTransfer(v, root, p)
  BY <1>4, PlaceReadTransferType
<1>5. CASE \E root \in Vals, p \in Paths, o \in Observations : begin_observe(v, o, root, p)
  BY <1>5, BeginObserveType
<1>6. CASE \E base \in Vals, i \in 1..MaxLeaves : VariantPayload(v, base, i)
  <2>1. PICK base \in Vals, i \in 1..MaxLeaves : VariantPayload(v, base, i)
    BY <1>6
  <2>2. ASSUME i \in DOMAIN V(base) PROVE <<V(base)[i]>> \in Value
    BY <1>1, <2>2 DEF Value
  <2>3. CASE i \in DOMAIN V(base) /\ Insert(v, <<V(base)[i]>>) /\ OnlyVals
    BY <2>2, <2>3, InsertType, ValsStepType
  <2> QED
    BY <2>1, <2>3, RefuseType DEF VariantPayload, Attempt
<1> QED
  BY <1>2, <1>3, <1>4, <1>5, <1>6 DEF ValueInstruction

\* The other instructions keep the type invariant.
LEMMA InstructionType ==
    ASSUME TypeOK, frames # <<>>, Instruction
    PROVE  TypeOK'
<1>1. \A u \in Vals : V(u) \in Value
  BY TopFrame
<1>2. Temps \subseteq Vals /\ Slots \subseteq Vals /\ Loads \subseteq Vals
      /\ \A y \in Loads : LoadOrigin[y] \in Vals
  BY BoundAssumption DEF Vals
<1>3. CASE \E v \in Temps : ValueInstruction(v)
  BY <1>2, <1>3, ValueInstructionType
<1>4. CASE \E y \in Loads : Load(y)
  <2>1. PICK y \in Loads : Load(y)
    BY <1>4
  <2>2. CASE Insert(y, V(LoadOrigin[y])) /\ OnlyVals
    BY <1>1, <1>2, <2>2, InsertType, ValsStepType
  <2> QED
    BY <2>1, <2>2, RefuseType DEF Load, Attempt
<1>5. CASE ArithmeticFailure
  BY <1>5, RefuseType DEF ArithmeticFailure
<1>6. CASE \E base \in Vals : \E t, u \in (1..MaxLeaves) \X Temps : DecomposeVariant(base, {t, u})
  BY <1>6, DecomposeType
<1>7. CASE \E slot \in Slots, v \in Vals : StoreTransfer(slot, v)
  <2>1. PICK slot \in Slots, v \in Vals : StoreTransfer(slot, v)
    BY <1>7
  <2>2. CASE records' = commit_transfer(V(v)) /\ Insert(slot, rebuilt(V(v))) /\ OnlyTable
    BY <1>1, <1>2, <2>2, TransferType
  <2> QED
    BY <2>1, <2>2, RefuseType DEF StoreTransfer, Attempt
<1>8. CASE \E slot \in Slots, v \in Vals : StoreObserve(slot, v)
  <2>1. PICK slot \in Slots, v \in Vals : StoreObserve(slot, v)
    BY <1>8
  <2>2. to_observing_view(V(v)) \in Value
    BY <1>1, RebuiltType
  <2>3. CASE Insert(slot, to_observing_view(V(v))) /\ OnlyVals
    BY <1>2, <2>2, <2>3, InsertType, ValsStepType
  <2> QED
    BY <2>1, <2>3, RefuseType DEF StoreObserve, Attempt
<1>9. CASE \E v \in Vals : Drop(v)
  BY <1>9, DropType
<1>10. CASE \E root, src \in Vals, p \in Paths : StorePlace(root, p, src)
  BY <1>10, StorePlaceType
<1>11. CASE \E o \in Observations : end_observe(o)
  BY <1>11, EndObserveType
<1>12. CASE \E v \in Temps : TransferInstruction(v)
  BY <1>2, <1>12, TransferInstructionType
<1> QED
  BY <1>3, <1>4, <1>5, <1>6, <1>7, <1>8, <1>9, <1>10, <1>11, <1>12 DEF Instruction

\* The terminators keep the type invariant.
LEMMA TerminatorType ==
    ASSUME TypeOK, frames # <<>>, Terminator
    PROVE  TypeOK'
<1>1. \A u \in Vals : V(u) \in Value
  BY TopFrame
<1>2. <<Scalar>> \in Value
  BY DEF Value, Leaf
<1>3. CASE \E args \in Arguments, ok, err \in Slots : Invoke(args, ok, err)
  <2>1. PICK args \in Arguments, ok \in Slots, err \in Slots : Invoke(args, ok, err)
    BY <1>3
  <2>2. ok \in Vals \cup {Absent} /\ err \in Vals \cup {Absent}
    BY DEF Vals
  <2>3. CASE call_function(args, ok, err)
    BY <2>2, <2>3, CallType
  <2> QED
    BY <2>1, <2>3, RefuseType DEF Invoke, Attempt
<1>4. CASE \E s \in {V(v) : v \in Vals} \cup {<<Scalar>>} : Return(s)
  BY <1>1, <1>2, <1>4, ReturnType
<1>5. CASE \E v \in Vals, handled \in BOOLEAN : Raise(V(v), handled)
  BY <1>1, <1>5, RaiseType
<1> QED
  BY <1>3, <1>4, <1>5 DEF Terminator

\* The interpreter's state keeps its types through every instruction, call,
\* return, raise and unwinding of call_function_in_frame: in particular the
\* value maps, the observation stacks and the frames stay one stack.
THEOREM TypeCorrect == Spec => []TypeOK
<1>1. Init => TypeOK
  <2>1. \A S : <<>> \in Seq(S)
    OBVIOUS
  <2> QED
    BY <2>1 DEF Init, TypeOK
<1>2. ASSUME TypeOK, [Next]_vars PROVE TypeOK'
  <2>1. CASE HostCall
    BY <1>2, <2>1, HostCallType
  <2>2. CASE Running /\ Instruction
    BY <1>2, <2>2, InstructionType DEF Running
  <2>3. CASE Running /\ Terminator
    BY <1>2, <2>3, TerminatorType DEF Running
  <2>4. CASE Unwind
    BY <1>2, <2>4, UnwindType
  <2>5. CASE UNCHANGED vars
    BY <1>2, <2>5 DEF TypeOK, vars
  <2> QED
    BY <1>2, <2>1, <2>2, <2>3, <2>4, <2>5 DEF Next
<1> QED
  BY <1>1, <1>2, PTL DEF Spec

=============================================================================
