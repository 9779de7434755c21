-------------------------- MODULE ResourceRuntime --------------------------
(***************************************************************************)
(* The ownership runtime of the reference interpreter                      *)
(* (compiler/src/interpreter/mod.rs): the resource table with its          *)
(* generations, the observation leases, the call frames, and every NIR     *)
(* instruction that can change them.  The interpreter "does not assume the *)
(* module it is running passed nir::verify", so the program is not a       *)
(* constant: each step the running frame executes any instruction on any   *)
(* operands, and the interpreter's own checks decide what happens.         *)
(*                                                                         *)
(* DATA.  A runtime value is the sequence of its leaves in declaration     *)
(* order: an inline record or variant is flattened, and a plain resource   *)
(* is the one-leaf sequence.  A leaf is a resource handle, a scalar, or a  *)
(* tombstone.  `Moved' stands where an owned leaf was, `Hole' where a      *)
(* scalar was (the code writes Value::Moved for both, and tells them apart *)
(* by the declared type of the position); <<Absent>> is a value id the     *)
(* frame has not computed.  Ids, leases and frames count from 1, and lease *)
(* 0 is "no lease".  A one-leaf value is a bare leaf or an inline aggregate *)
(* of that leaf alone; the path <<1>> is a place of the second.  The two    *)
(* have the same leaves, and differ by one generation.                     *)
(***************************************************************************)
EXTENDS Naturals, FiniteSets, SequencesExt

CONSTANTS
    Scalar, Moved, Hole, Absent,    \* the leaves that are not handles
    ParamList,                      \* the parameters of every function, in order
    Slots, Loads, Temps,            \* the other value ids, by what defines them
    LoadOrigin,                     \* load_origin: the slot each Load reads
    Observations,                   \* the ObservationIds of a function
    Paths,                          \* projection paths an instruction may name
    Constants,                      \* {Scalar}, or {} to leave scalar values out
    Verified,                       \* the module passed nir::verify
    WellTyped,                      \* every result is declared with the type it has
    MAX_CALL_DEPTH,                 \* limits::MAX_CALL_DEPTH
    MaxResources, MaxGeneration, MaxLeases, MaxLeaves   \* bounds of the model

Params == Range(ParamList)

Vals == Params \cup Slots \cup Loads \cup Temps

Handle == [id : Nat, generation : Nat, role : {"owner", "observer"}, lease : Nat]

Leaf == Handle \cup {Scalar, Moved, Hole, Absent}

Value == Seq(Leaf)

ASSUME LeafAssumption ==
    /\ {Scalar, Moved, Hole, Absent} \cap Handle = {}
    /\ Scalar # Moved /\ Scalar # Hole /\ Scalar # Absent
    /\ Moved # Hole /\ Moved # Absent /\ Hole # Absent

ASSUME BoundAssumption ==
    /\ MAX_CALL_DEPTH \in Nat /\ MaxResources \in Nat /\ MaxGeneration \in Nat
    /\ MaxLeases \in Nat /\ MaxLeaves \in Nat
    /\ ParamList \in Seq(Params) /\ Len(ParamList) <= 2
    /\ LoadOrigin \in [Loads -> Slots]
    /\ Paths \subseteq Seq(Nat \ {0})
    /\ Constants \subseteq {Scalar}
    /\ Verified \in BOOLEAN /\ WellTyped \in BOOLEAN

\* NIR is in SSA form: a value id has one definition, and `None' is no id.
ASSUME ValueIdAssumption ==
    /\ Params \cap (Slots \cup Loads \cup Temps) = {}
    /\ Loads \cap (Slots \cup Temps) = {} /\ Slots \cap Temps = {}
    /\ Absent \notin Vals
    /\ IsInjective(ParamList)

VARIABLES
    records,      \* ResourceTable.records
    leases,       \* ResourceTable.leases: every observation ever begun
    active,       \* ResourceTable.active: the leases not ended, by identity
    frames,       \* the entered call_function frames, innermost last
    vals,         \* `values' of each frame
    obs,          \* `active_leases' of each frame
    failing,      \* an Err is propagating out of the innermost frame
    terminated,   \* Interpreter.terminated
    host          \* the handles returned, or lost, to the caller of Interpreter::call

table == <<records, leases, active>>
vars == <<records, leases, active, frames, vals, obs, failing, terminated, host>>

-----------------------------------------------------------------------------
(***************************************************************************)
(* Reading the resource table.                                             *)
(***************************************************************************)

is_handle(leaf) == leaf \notin {Scalar, Moved, Hole, Absent}
is_tombstone(leaf) == leaf \in {Moved, Hole}

handles(s) == {s[i] : i \in {j \in DOMAIN s : is_handle(s[j])}}

ids(H) == {h.id : h \in H}

\* ResourceTable::record resolves the handle: its lease has not ended, its id
\* is known and its generation is the resource's current one.
record(h) ==
    /\ h.lease # 0 => /\ h.lease \in DOMAIN leases
                      /\ leases[h.lease].status = "active"
    /\ h.id \in DOMAIN records
    /\ records[h.id].generation = h.generation

\* ResourceTable::observe
observe(h) == record(h) /\ records[h.id].status = "alive"

fields(h) == records[h.id].fields

children(h) == IF record(h) THEN handles(fields(h)) ELSE {}

stored_handles == UNION {handles(records[i].fields) : i \in DOMAIN records}

\* The handles stored below H: the least set of stored handles that holds the
\* children of H and of its own members.
below(H) ==
    {g \in stored_handles :
        \A S \in SUBSET stored_handles :
            (\A h \in H \cup S : children(h) \subseteq S) => g \in S}

\* collect_reachable_resources
collect_reachable(s) == handles(s) \cup below(handles(s))

identities(s) == ids(collect_reachable(s))

\* One edge per position that holds a handle: a position of the value itself,
\* or a field of a resource the value reaches.
edges(s) ==
    {<<0, i>> : i \in {j \in DOMAIN s : is_handle(s[j])}} \cup
    UNION {{<<h.id, i>> : i \in {j \in DOMAIN fields(h) : is_handle(fields(h)[j])}} :
              h \in {g \in collect_reachable(s) : record(g)}}

target(s, e) == IF e[1] = 0 THEN s[e[2]].id ELSE records[e[1]].fields[e[2]].id

\* collect_owned_identities succeeds: every handle below resolves, and no
\* identity is reached twice, neither duplicated nor through a cycle.
collect_owned_identities(s) ==
    /\ \A h \in collect_reachable(s) : record(h)
    /\ \A e, f \in edges(s) : target(s, e) = target(s, f) => e = f

\* validate_owned_graph: the same, and a tombstone stands only where
\* something owned could have moved out.
validate_owned_graph(s) ==
    /\ \A i \in DOMAIN s : s[i] \notin {Hole, Absent}
    /\ collect_owned_identities(s)
    /\ \A h \in collect_reachable(s) : \A i \in DOMAIN fields(h) : fields(h)[i] # Hole

\* active_lease_holding
leased == UNION {leases[l].observed : l \in Range(active)}

\* Mutants of reject_leased: one never looks, one looks at the outer handles.
NeverLeased(s) == TRUE
OuterLeased(s) == ids(handles(s)) \cap leased = {}

\* reject_leased_value, reject_leased_identities
reject_leased(s) == identities(s) \cap leased = {}

\* owns_a_live_resource
owns_a_live_resource(s, exiting) ==
    \E h \in handles(s) :
        /\ h.role = "owner" /\ h.id \notin exiting /\ record(h)
        /\ \E g \in {h} \cup below({h}) :
              g.role = "owner" /\ g.id \notin exiting /\ observe(g)

-----------------------------------------------------------------------------
(***************************************************************************)
(* Ownership transfer: plan_transfer decides, commit_transfer writes.      *)
(* Every handle that itself crosses gets a new generation, so each other   *)
(* copy of it goes stale; handles nested in a crossing resource keep       *)
(* theirs.  Several values that cross together share one plan, which is    *)
(* the plan of their concatenation.                                        *)
(***************************************************************************)

plan_transfer(s) ==
    /\ \A i \in DOMAIN s : s[i] = Scalar \/ is_handle(s[i])
    /\ \A h \in handles(s) : h.role = "owner" /\ observe(h)
    /\ collect_owned_identities(s)
    /\ reject_leased(s)

\* Mutant of next_generation: a transfer leaves every other handle current.
SameGeneration(g) == g

next_generation(g) == g + 1

commit_transfer(s) ==
    [i \in DOMAIN records |->
        IF i \in ids(handles(s)) THEN [records[i] EXCEPT !.generation = next_generation(@)]
                                 ELSE records[i]]

rebuilt(s) ==
    [i \in DOMAIN s |->
        IF is_handle(s[i])
        THEN [id |-> s[i].id, generation |-> next_generation(s[i].generation),
              role |-> "owner", lease |-> 0]
        ELSE s[i]]

\* to_observing_view: an observer of the same thing under the same lease.
to_observing_view(s) ==
    [i \in DOMAIN s |-> IF is_handle(s[i]) THEN [s[i] EXCEPT !.role = "observer"] ELSE s[i]]

\* to_leased_view
to_leased_view(s, l) ==
    [i \in DOMAIN s |->
        IF is_handle(s[i]) THEN [s[i] EXCEPT !.role = "observer", !.lease = l] ELSE s[i]]

\* MaxGeneration bounds how often one resource may change hands.
GenerationBound(s) == \A h \in handles(s) : h.generation < MaxGeneration

-----------------------------------------------------------------------------
(***************************************************************************)
(* Frames and instructions.                                                *)
(***************************************************************************)

Top == Len(frames)
V(v) == vals[Top][v]
computed(v) == V(v) # <<Absent>>            \* `get' finds the value

\* canonical_root: a Load's result names the slot it loaded.
canonical_root(v) == IF v \in Loads THEN LoadOrigin[v] ELSE v

Running == frames # <<>> /\ ~failing

\* An instruction returns Err.  Nothing the operation planned is written.
Refuse ==
    /\ failing' = TRUE
    /\ UNCHANGED <<records, leases, active, frames, vals, obs, terminated, host>>

\* The instruction's checks, then its effect; Err when a check fails.
Attempt(checks, effect) == (checks /\ effect) \/ (~checks /\ Refuse)

Insert(v, s) == vals' = [vals EXCEPT ![Top][v] = s]

\* NIR is in SSA form and the interpreter writes a result without looking at
\* what the id held: a result id the model reuses is one that owns nothing
\* but what the instruction takes away.
Fresh(v, exiting) == ~owns_a_live_resource(V(v), exiting)

OnlyVals == UNCHANGED <<records, leases, active, frames, obs, failing, terminated, host>>
OnlyTable == UNCHANGED <<leases, active, frames, obs, failing, terminated, host>>

\* Const, Alloc and the scalar operators that succeed.
Const(v) == \E c \in Constants : Insert(v, <<c>>) /\ OnlyVals

\* An arithmetic operator that overflows, or a malformed instruction.
ArithmeticFailure == Refuse

\* ValueKind::Load: the result is a copy of the slot, owner handles included.
Load(x) ==
    LET slot == LoadOrigin[x] IN
    Attempt(computed(slot), Insert(x, V(slot)) /\ OnlyVals)

\* ValueKind::Move and ValueKind::DeferCapture (transfer_if_resource)
Move(v, src) ==
    /\ GenerationBound(V(src))
    /\ Attempt(plan_transfer(V(src)),
               /\ records' = commit_transfer(V(src))
               /\ Insert(v, rebuilt(V(src)))
               /\ OnlyTable)

\* The supplied fields of a construction, in order (at most two values, each
\* with any number of leaves).
Concat(args) == CASE Len(args) = 0 -> <<>>
                  [] Len(args) = 1 -> V(args[1])
                  [] OTHER -> V(args[1]) \o V(args[2])

\* RecordCreate of a plain record, and VariantCreate
AggregateCreate(v, args) ==
    LET s == Concat(args) IN
    /\ GenerationBound(s) /\ Len(s) <= MaxLeaves
    /\ Attempt(validate_owned_graph(s) /\ plan_transfer(s),
               /\ records' = commit_transfer(s)
               /\ Insert(v, rebuilt(s))
               /\ OnlyTable)

\* RecordCreate of a `resource': ResourceTable::construct
ResourceCreate(v, args) ==
    LET s == Concat(args) IN
    /\ Len(records) < MaxResources /\ GenerationBound(s) /\ Len(s) <= MaxLeaves
    /\ Attempt(validate_owned_graph(s) /\ plan_transfer(s),
               /\ records' = Append(commit_transfer(s),
                                    [generation |-> 0, status |-> "alive",
                                     fields |-> rebuilt(s)])
               /\ Insert(v, <<[id |-> Len(records) + 1, generation |-> 0,
                               role |-> "owner", lease |-> 0]>>)
               /\ OnlyTable)

-----------------------------------------------------------------------------
(***************************************************************************)
(* Places: a root value id and a path of projections.  The first           *)
(* projection picks a leaf of the root's value, each further one a field   *)
(* of the resource the previous leaf is a handle of.                       *)
(***************************************************************************)

hop(leaf, k) ==
    IF is_handle(leaf) /\ observe(leaf) /\ k \in DOMAIN fields(leaf)
    THEN fields(leaf)[k] ELSE Absent

\* The resource whose field the place is, for a path of two or more steps.
container(s, p) ==
    LET walk[n \in 1..(Len(p) - 1)] ==
            IF n > 1 THEN hop(walk[n - 1], p[n])
                     ELSE IF p[1] \in DOMAIN s THEN s[p[1]] ELSE Absent
    IN  walk[Len(p) - 1]

\* The leaf stored at the end of the path; Absent when the walk fails.
leaf_at(s, p) ==
    IF Len(p) > 1 THEN hop(container(s, p), Last(p))
                  ELSE IF p[1] \in DOMAIN s THEN s[p[1]] ELSE Absent

\* A leaf read through an observing root is an observer under its lease.
seen_through(root, leaf) ==
    IF is_handle(leaf) /\ is_handle(root) /\ root.role = "observer"
    THEN [leaf EXCEPT !.role = "observer",
                      !.lease = IF root.lease # 0 THEN root.lease ELSE @]
    ELSE leaf

\* observe_projections: what the place holds, as its root may see it.
observe_projections(s, p) ==
    CASE p = <<>> -> s
      [] Len(p) = 1 -> <<leaf_at(s, p)>>
      [] OTHER -> <<seen_through(s[p[1]], leaf_at(s, p))>>

place_exists(s, p) ==
    p # <<>> => /\ p[1] \in DOMAIN s /\ leaf_at(s, p) # Absent
                /\ Len(p) > 1 /\ is_handle(leaf_at(s, p)) => observe(leaf_at(s, p))

\* validate_place_path, validate_final_step: every resource on the way is
\* live and reached through an owner.
owning_path(s, p) ==
    Len(p) > 1 =>
        /\ is_handle(container(s, p)) /\ observe(container(s, p))
        /\ Last(p) \in DOMAIN fields(container(s, p))
        /\ \A n \in 1..(Len(p) - 1) : leaf_at(s, SubSeq(p, 1, n)).role = "owner"

with_field(recs, id, k, leaf) == [recs EXCEPT ![id].fields[k] = leaf]

\* The type check on a result that is one leaf (argument_matches_declared).
result_matches(leaf) == leaf = Scalar \/ (is_handle(leaf) /\ record(leaf))

\* Mutant of tombstone: the place keeps what was taken out of it.
KeptLeaf(leaf) == leaf

\* What is left in a position whose leaf was taken.
tombstone(leaf) == IF leaf = Scalar THEN Hole ELSE Moved

\* Of nir::verify the runtime leans on three rules: a place transfer or store
\* moves an owned leaf (V0086), out of or into something the frame itself owns
\* (V0099), and a Load's result is stored while its slot holds nothing else
\* (V0087; the slot is tombstoned with it).  Hand-built NIR may break them.
verified_take(r, p) ==
    LET seen == observe_projections(V(r), p) IN
    Verified => /\ r \notin frames[Top].observing
                /\ \A h \in handles(seen) : h.role = "owner"
                /\ p # <<>> => seen # <<Scalar>>

verified_store(r, src) ==
    Verified => /\ r \notin frames[Top].observing
                /\ V(src) # <<Scalar>>
                /\ ~owns_a_live_resource(V(canonical_root(src)), identities(V(src)))

read_view(v, s, p) ==
    LET seen == observe_projections(s, p) IN
    Attempt(/\ s # <<Absent>> /\ place_exists(s, p)
            /\ \A h \in handles(seen) : observe(h)
            /\ p # <<>> => result_matches(seen[1]),
            Insert(v, to_observing_view(seen)) /\ OnlyVals)

\* PlaceRead with OwnershipMode::Observe (access_place)
PlaceReadObserve(v, root, p) == read_view(v, V(canonical_root(root)), p)

\* ValueKind::RecordField reads through the base itself, not its slot.
RecordField(v, base, p) == p # <<>> /\ read_view(v, V(base), p)

\* take_projections, and the result fits its declared type.  The extracted
\* handle keeps its generation; its place gets a tombstone.  With no
\* projections the container is handed back unchanged.
take_projections(v, r, p) ==
    LET s == V(r)
        leaf == leaf_at(s, p)
    IN  /\ p # <<>> => result_matches(leaf)
        /\ \/ /\ p = <<>>
              /\ Insert(v, s) /\ UNCHANGED records
           \/ /\ Len(p) = 1
              /\ vals' = [vals EXCEPT ![Top][r][p[1]] = tombstone(leaf),
                                      ![Top][v] = <<leaf>>]
              /\ UNCHANGED records
           \/ /\ Len(p) > 1
              /\ records' = with_field(records, container(s, p).id, Last(p), tombstone(leaf))
              /\ Insert(v, <<leaf>>)
        /\ OnlyTable

\* The declared type is compared only after the place was emptied: a leaf that
\* no longer resolves, or hand-built NIR that declares another type, fails with
\* the tombstone written and the leaf in no value.
take_refused(r, p) ==
    LET s == V(r)
        leaf == leaf_at(s, p)
    IN  /\ p # <<>>
        /\ WellTyped => ~result_matches(leaf)
        /\ \/ /\ Len(p) = 1
              /\ vals' = [vals EXCEPT ![Top][r] = [s EXCEPT ![p[1]] = tombstone(leaf)]]
              /\ UNCHANGED records
           \/ /\ Len(p) > 1
              /\ records' = with_field(records, container(s, p).id, Last(p), tombstone(leaf))
              /\ UNCHANGED vals
        /\ failing' = TRUE
        /\ UNCHANGED <<leases, active, frames, obs, terminated, host>>

\* PlaceRead with OwnershipMode::Transfer (access_place).
PlaceReadTransfer(v, root, p) ==
    LET r == canonical_root(root)
        s == V(r)
    IN  /\ place_exists(s, p) => verified_take(r, p)
        /\ Attempt(/\ computed(r) /\ place_exists(s, p)
                   /\ reject_leased(observe_projections(s, p))
                   /\ p # <<>> => owning_path(s, p) /\ ~is_tombstone(leaf_at(s, p)),
                   take_projections(v, r, p) \/ take_refused(r, p))

\* ValueKind::VariantPayload: a copy of one payload position.
VariantPayload(v, base, i) ==
    Attempt(i \in DOMAIN V(base) /\ result_matches(V(base)[i]),
            Insert(v, <<V(base)[i]>>) /\ OnlyVals)

\* Instruction::DecomposeVariant: the claimed positions are handed to values
\* that already hold copies of them (a variant is never its own payload).
DecomposeVariant(base, taken) ==
    LET r == canonical_root(base)
        s == V(r)
    IN  Attempt(/\ computed(r) /\ reject_leased(s) /\ validate_owned_graph(s)
                /\ \A t \in taken : /\ t[1] \in DOMAIN s
                                    /\ ~is_tombstone(s[t[1]])
                                    /\ t[2] # r /\ V(t[2]) = <<s[t[1]]>>
                /\ \A t, u \in taken : t[1] = u[1] => t = u,
                /\ Insert(r, [i \in DOMAIN s |->
                                 IF \E t \in taken : t[1] = i THEN tombstone(s[i]) ELSE s[i]])
                /\ OnlyVals)

\* Instruction::Store with OwnershipMode::Transfer
StoreTransfer(slot, v) ==
    LET s == V(v) IN
    /\ GenerationBound(s)
    /\ Attempt(/\ validate_owned_graph(s) /\ plan_transfer(s)
               /\ ~owns_a_live_resource(V(slot), identities(s)),
               /\ records' = commit_transfer(s)
               /\ Insert(slot, rebuilt(s))
               /\ OnlyTable)

\* Instruction::Store with OwnershipMode::Observe
StoreObserve(slot, v) ==
    Attempt(/\ computed(v) /\ ~owns_a_live_resource(V(slot), {})
            /\ \A h \in handles(V(v)) : observe(h),
            Insert(slot, to_observing_view(V(v))) /\ OnlyVals)

\* plan_drop: the whole owned tree is destroyed, children first.
plan_drop(s) == /\ s = <<>> \/ \E i \in DOMAIN s : is_handle(s[i]) \/ s[i] = Moved
                /\ \A h \in collect_reachable(s) : h.role = "owner" /\ observe(h)

\* Mutant of Drop: what the resource owns is not destroyed with it.
DropShell(v) ==
    LET s == V(v) IN
    Attempt(validate_owned_graph(s) /\ reject_leased(s) /\ plan_drop(s),
            /\ records' = [i \in DOMAIN records |->
                              IF i \in ids(handles(s))
                              THEN [records[i] EXCEPT !.status = "dropped"]
                              ELSE records[i]]
            /\ Insert(v, <<Absent>>)
            /\ OnlyTable)

\* Instruction::Drop (drop_value, drop_resource)
Drop(v) ==
    LET s == V(v) IN
    Attempt(validate_owned_graph(s) /\ reject_leased(s) /\ plan_drop(s),
            /\ records' = [i \in DOMAIN records |->
                              IF i \in identities(s)
                              THEN [records[i] EXCEPT !.status = "dropped"]
                              ELSE records[i]]
            /\ Insert(v, <<Absent>>)
            /\ OnlyTable)

\* Mutant of graphs_disjoint: the destination is checked, the source is not.
DestinationOwned(s, d) == collect_owned_identities(d)

\* A store's source and destination share no resource (destination_identities).
graphs_disjoint(s, d) ==
    collect_owned_identities(d) /\ identities(s) \cap identities(d) = {}

\* validate_store_target: only what was moved out is put back.
validate_store_target(d, p) == is_tombstone(leaf_at(d, p)) /\ owning_path(d, p)

\* Instruction::StorePlace (store_place_transfer).  NIR is typed: a scalar goes
\* where a scalar was, an owned leaf where an owned leaf was.
StorePlace(root, p, src) ==
    LET r == canonical_root(root)
        s == V(src)
        d == V(r)
        leaf == rebuilt(s)[1]
    IN  /\ Len(s) = 1 /\ p # <<>> /\ GenerationBound(s)
        /\ s[1] = Scalar <=> leaf_at(d, p) \in {Hole, Scalar}
        /\ verified_store(r, src)
        /\ Attempt(/\ canonical_root(src) # r /\ computed(r)
                   /\ validate_owned_graph(s) /\ plan_transfer(s)
                   /\ validate_store_target(d, p)
                   /\ graphs_disjoint(s, d),
                   /\ \/ /\ Len(p) = 1
                         /\ records' = commit_transfer(s)
                         /\ vals' = [vals EXCEPT ![Top][r][p[1]] = leaf,
                                                 ![Top][src] = <<Moved>>,
                                                 ![Top][canonical_root(src)] = <<Moved>>]
                      \/ /\ Len(p) > 1
                         /\ records' = with_field(commit_transfer(s), container(d, p).id,
                                                  Last(p), leaf)
                         /\ vals' = [vals EXCEPT ![Top][src] = <<Moved>>,
                                                 ![Top][canonical_root(src)] = <<Moved>>]
                   /\ OnlyTable)

-----------------------------------------------------------------------------
(***************************************************************************)
(* Observation leases.                                                     *)
(***************************************************************************)

\* ObservePlace (begin_observe): nothing is written until the whole graph
\* below the place is found live, complete and without repetition.
begin_observe(v, o, root, p) ==
    LET r == canonical_root(root)
        seen == observe_projections(V(r), p)
        reserved == Len(leases) + 1
        parent == IF obs[Top] = <<>> THEN 0 ELSE Last(obs[Top]).lease
    IN  /\ Len(leases) < MaxLeases
        /\ Attempt(/\ \A i \in DOMAIN obs[Top] : obs[Top][i].observation # o
                   /\ computed(r) /\ place_exists(V(r), p)
                   \* validate_observation_source
                   /\ \A i \in DOMAIN seen : ~is_tombstone(seen[i])
                   /\ \A h \in collect_reachable(seen) :
                         observe(h) /\ \A i \in DOMAIN fields(h) : ~is_tombstone(fields(h)[i])
                   /\ validate_owned_graph(seen),
                   /\ leases' = Append(leases, [status |-> "active", parent |-> parent,
                                                observed |-> identities(seen)])
                   /\ active' = Append(active, reserved)
                   /\ obs' = [obs EXCEPT ![Top] =
                                 Append(@, [observation |-> o, lease |-> reserved])]
                   /\ Insert(v, to_leased_view(seen, reserved))
                   /\ UNCHANGED <<records, frames, failing, terminated, host>>)

\* ResourceTable::end_lease
may_end_lease(l) ==
    /\ leases[l].status = "active"
    /\ \A k \in Range(active) : leases[k].parent # l

\* Instruction::EndObserve (end_observe).  Lease identities are never reused,
\* so the retain that removes the lease from `active' removes one element.
end_observe(o) ==
    Attempt(/\ obs[Top] # <<>> /\ Last(obs[Top]).observation = o
            /\ may_end_lease(Last(obs[Top]).lease),
            LET l == Last(obs[Top]).lease IN
            /\ leases' = [leases EXCEPT ![l].status = "ended"]
            /\ \E n \in DOMAIN active : active[n] = l /\ active' = RemoveAt(active, n)
            /\ obs' = [obs EXCEPT ![Top] = Front(@)]
            /\ UNCHANGED <<records, frames, vals, failing, terminated, host>>)

-----------------------------------------------------------------------------
(***************************************************************************)
(* Calls, returns, failures.                                               *)
(***************************************************************************)

no_values == [v \in Vals |-> <<Absent>>]

\* call_function enters a frame; `ok' and `err' are where the caller puts a
\* returned and a raised value, and an ordinary Call has no place for the
\* second (None).
EnterFrame(bound, observing, ok, err) ==
    /\ frames' = Append(frames, [mark |-> Len(leases), observing |-> observing,
                                 ok |-> ok, err |-> err])
    /\ vals' = Append(vals, bound)
    /\ obs' = Append(obs, <<>>)

\* Mutant of HostCall: check_not_terminated is missing.
HostCallAgain ==
    /\ frames = <<>>
    /\ EnterFrame(no_values, {}, Absent, Absent)
    /\ UNCHANGED <<records, leases, active, failing, terminated, host>>

\* Interpreter::call, after check_not_terminated: the entry point runs with
\* no arguments.
HostCall ==
    /\ frames = <<>> /\ ~terminated
    /\ EnterFrame(no_values, {}, Absent, Absent)
    /\ UNCHANGED <<records, leases, active, failing, terminated, host>>

\* The arguments of a call, in the order of the parameters (at most two).
\* Every `take' argument crosses under one shared plan.
Arguments == UNION {[1..k -> [value : Vals, take : BOOLEAN]] : k \in 0..Len(ParamList)}

handed(arg) == IF arg.take THEN V(arg.value) ELSE <<>>

taken_args(args) == CASE Len(args) = 0 -> <<>>
                      [] Len(args) = 1 -> handed(args[1])
                      [] OTHER -> handed(args[1]) \o handed(args[2])

observing_params(args) == {ParamList[i] : i \in {j \in DOMAIN args : ~args[j].take}}

\* Mutant of may_call: an identity may be observed and moved by one call.
MayCallShared(args) ==
    /\ Len(frames) < MAX_CALL_DEPTH
    /\ \A i \in DOMAIN args :
          computed(args[i].value) /\ validate_owned_graph(V(args[i].value))
    /\ \A i \in DOMAIN args :
          ~args[i].take => \A h \in handles(V(args[i].value)) : observe(h)
    /\ plan_transfer(taken_args(args))

\* call_function and the binding of parameters in call_function_in_frame.
\* An identity one argument observes may not be moved by another.
may_call(args) ==
    LET moved == taken_args(args) IN
    /\ Len(frames) < MAX_CALL_DEPTH
    /\ \A i \in DOMAIN args :
          computed(args[i].value) /\ validate_owned_graph(V(args[i].value))
    /\ \A i \in DOMAIN args :
          ~args[i].take => /\ collect_owned_identities(V(args[i].value))
                           /\ \A h \in handles(V(args[i].value)) : observe(h)
                           /\ identities(V(args[i].value)) \cap identities(moved) = {}
    /\ plan_transfer(moved)

bindings(args) ==
    [v \in Vals |->
        IF \E i \in DOMAIN args : ParamList[i] = v
        THEN LET arg == args[CHOOSE i \in DOMAIN args : ParamList[i] = v]
             IN  IF arg.take THEN rebuilt(V(arg.value)) ELSE to_observing_view(V(arg.value))
        ELSE <<Absent>>]

call_function(args, ok, err) ==
    /\ EnterFrame(bindings(args), observing_params(args), ok, err)
    /\ records' = commit_transfer(taken_args(args))
    /\ UNCHANGED <<leases, active, failing, terminated, host>>

\* ValueKind::Call and ProtocolCall
Call(v, args) ==
    /\ GenerationBound(taken_args(args))
    /\ Attempt(may_call(args), call_function(args, v, Absent))

\* Terminator::Invoke refuses to overwrite a result slot that still owns
\* something the arguments do not take away.
Invoke(args, ok, err) ==
    /\ GenerationBound(taken_args(args))
    /\ Attempt(/\ may_call(args)
               /\ \A slot \in {ok, err} :
                     ~owns_a_live_resource(V(slot), identities(taken_args(args))),
               call_function(args, ok, err))

\* Mutant of leaked_resource: only the parameters are looked at.
LeakedParameter(exiting) ==
    \E v \in Params \ frames[Top].observing : owns_a_live_resource(V(v), exiting)

\* leaked_resource
leaked_resource(exiting) ==
    \E v \in Vals \ frames[Top].observing : owns_a_live_resource(V(v), exiting)

\* Mutant of LeaveFrame: the observation stack of the frame stays.
LeaveObservations(dest, s) ==
    /\ frames' = Front(frames)
    /\ UNCHANGED obs
    /\ IF Top = 1 THEN vals' = <<>> /\ host' = host \cup handles(s)
                  ELSE vals' = [Front(vals) EXCEPT ![Top - 1][dest] = s] /\ UNCHANGED host

\* The frame is left with Ok: its caller, or the host, receives the value.
LeaveFrame(dest, s) ==
    /\ frames' = Front(frames)
    /\ obs' = Front(obs)
    /\ IF Top = 1 THEN vals' = <<>> /\ host' = host \cup handles(s)
                  ELSE vals' = [Front(vals) EXCEPT ![Top - 1][dest] = s] /\ UNCHANGED host

\* Terminator::Return.  `Return(None)' returns the scalar unit.
Return(s) ==
    /\ GenerationBound(s)
    /\ Attempt(/\ obs[Top] = <<>>
               /\ validate_owned_graph(s) /\ plan_transfer(s)
               /\ ~leaked_resource(identities(s)),
               /\ records' = commit_transfer(s)
               /\ LeaveFrame(frames[Top].ok, rebuilt(s))
               /\ UNCHANGED <<leases, active, failing, terminated>>)

\* Terminator::Raise.  A raise that reaches an ordinary Call, or an Invoke
\* with no target for its variant, makes the caller's frame fail; one that
\* reaches the entry point is reported by into_result.
Raise(s, handled) ==
    /\ GenerationBound(s)
    /\ handled => Top > 1 /\ frames[Top].err # Absent
    /\ Attempt(obs[Top] = <<>> /\ plan_transfer(s) /\ ~leaked_resource(identities(s)),
               /\ records' = commit_transfer(s)
               /\ IF handled \/ Top = 1
                  THEN LeaveFrame(frames[Top].err, rebuilt(s)) /\ UNCHANGED failing
                  ELSE /\ frames' = Front(frames) /\ obs' = Front(obs) /\ vals' = Front(vals)
                       /\ failing' = TRUE /\ UNCHANGED host
               /\ UNCHANGED <<leases, active, terminated>>)

\* Mutants of abandon_leases_from: the popped leases are not marked ended; the
\* lease at the mark itself is taken for the caller's.
AbandonUnmarked(mark) ==
    /\ active' = SelectSeq(active, LAMBDA l : l <= mark)
    /\ UNCHANGED leases
AbandonPastMark(mark) ==
    /\ active' = SelectSeq(active, LAMBDA l : l <= mark + 1)
    /\ leases' = [l \in DOMAIN leases |->
                     IF l > mark + 1 THEN [leases[l] EXCEPT !.status = "ended"] ELSE leases[l]]

\* abandon_leases_from pops the innermost leases down to the frame's mark;
\* the first n stay.
abandon_leases_from(mark) ==
    \E n \in 0..Len(active) :
        /\ n > 0 => active[n] <= mark
        /\ \A k \in (n + 1)..Len(active) : active[k] > mark
        /\ leases' = [l \in DOMAIN leases |->
                         IF \E k \in (n + 1)..Len(active) : active[k] = l
                         THEN [leases[l] EXCEPT !.status = "ended"] ELSE leases[l]]
        /\ active' = SubSeq(active, 1, n)

\* call_function returns Err: the frame's leases end, the interpreter can
\* never be entered again, and the error propagates to the caller's frame.
Unwind ==
    /\ failing /\ frames # <<>>
    /\ abandon_leases_from(frames[Top].mark)
    /\ frames' = Front(frames) /\ vals' = Front(vals) /\ obs' = Front(obs)
    /\ terminated' = TRUE
    /\ failing' = (Top > 1)
    /\ UNCHANGED <<records, host>>

-----------------------------------------------------------------------------
Init ==
    /\ records = <<>> /\ leases = <<>> /\ active = <<>>
    /\ frames = <<>> /\ vals = <<>> /\ obs = <<>>
    /\ failing = FALSE /\ terminated = FALSE /\ host = {}

Args(n) == UNION {[1..k -> Vals] : k \in 0..n}

\* An instruction that moves values into its result.
TransferInstruction(v) ==
    \/ \E src \in Vals : Fresh(v, identities(V(src))) /\ Move(v, src)
    \/ \E args \in Args(2) :
          Fresh(v, identities(Concat(args))) /\ (AggregateCreate(v, args) \/ ResourceCreate(v, args))
    \/ \E args \in Arguments : Fresh(v, identities(taken_args(args))) /\ Call(v, args)

\* Any other instruction that defines a result.
ValueInstruction(v) ==
    \/ Const(v)
    \/ \E root \in Vals, p \in Paths :
          \/ PlaceReadObserve(v, root, p)
          \/ RecordField(v, root, p)
          \/ PlaceReadTransfer(v, root, p)
          \/ \E o \in Observations : begin_observe(v, o, root, p)
    \/ \E base \in Vals, i \in 1..MaxLeaves : VariantPayload(v, base, i)

Instruction ==
    \/ \E v \in Temps : TransferInstruction(v) \/ (Fresh(v, {}) /\ ValueInstruction(v))
    \/ \E x \in Loads : Load(x)
    \/ ArithmeticFailure
    \/ \E base \in Vals : \E t, u \in (1..MaxLeaves) \X Temps : DecomposeVariant(base, {t, u})
    \/ \E slot \in Slots, v \in Vals : StoreTransfer(slot, v) \/ StoreObserve(slot, v)
    \/ \E v \in Vals : Drop(v)
    \/ \E root, src \in Vals, p \in Paths : StorePlace(root, p, src)
    \/ \E o \in Observations : end_observe(o)

Terminator ==
    \/ \E args \in Arguments, ok, err \in Slots : Invoke(args, ok, err)
    \/ \E s \in {V(v) : v \in Vals} \cup {<<Scalar>>} : Return(s)
    \/ \E v \in Vals, handled \in BOOLEAN : Raise(V(v), handled)

Next == HostCall \/ (Running /\ (Instruction \/ Terminator)) \/ Unwind

\* A frame that failed always finishes unwinding: call_function is plain
\* sequential code and an Err is never held back.
Spec == Init /\ [][Next]_vars /\ WF_vars(Unwind)

-----------------------------------------------------------------------------
(***************************************************************************)
(* Properties.                                                             *)
(***************************************************************************)

LeaseRecord == [status : {"active", "ended"}, observed : SUBSET Nat, parent : Nat]

ResourceRecord == [generation : Nat, status : {"alive", "dropped"}, fields : Value]

Frame == [mark : Nat, observing : SUBSET Params,
          ok : Vals \cup {Absent}, err : Vals \cup {Absent}]

\* The types of the interpreter's state; the three stacks are one stack.
TypeOK ==
    /\ records \in Seq(ResourceRecord)
    /\ leases \in Seq(LeaseRecord)
    /\ active \in Seq(Nat)
    /\ frames \in Seq(Frame)
    /\ vals \in Seq([Vals -> Value])
    /\ obs \in Seq(Seq([observation : Observations, lease : Nat]))
    /\ Len(vals) = Len(frames) /\ Len(obs) = Len(frames)
    /\ failing \in BOOLEAN /\ terminated \in BOOLEAN
    /\ host \subseteq Handle

current_owner(h, i) == h.role = "owner" /\ h.id = i /\ record(h)

\* The places that hold a current owner handle of resource i.
Holders(i) ==
    {<<"frame", f>> : f \in {g \in DOMAIN vals :
        \E v \in Vals : \E h \in handles(vals[g][v]) : current_owner(h, i)}} \cup
    {<<"field", j>> : j \in {r \in DOMAIN records :
        /\ records[r].status = "alive"
        /\ \E h \in handles(records[r].fields) : current_owner(h, i)}} \cup
    {<<"host">> : h \in {g \in host : current_owner(g, i)}}

Alive == {i \in DOMAIN records : records[i].status = "alive"}

\* A live resource is owned from one place only: no two frames, no frame and
\* a field, no two containers hold a current owner handle of it at once.
SoleOwner == \A i \in Alive : Cardinality(Holders(i)) <= 1

\* While the execution has not failed, every live resource is still owned by
\* a frame, by a live container or by the host: no instruction, call, return
\* or raise loses one.
NoOrphan == ~failing /\ ~terminated => \A i \in Alive : Holders(i) # {}

\* A live resource has exactly one owner: never two, and none only while a
\* failed execution unwinds.
ExactlyOneOwner == SoleOwner /\ NoOrphan

\* No resource is stored inside itself, however long the chain.
OwnershipAcyclic ==
    \A i \in Alive :
        i \notin ids(below({[id |-> i, generation |-> records[i].generation,
                             role |-> "owner", lease |-> 0]}))

\* What an `observe' block shows stays readable until the block ends, and an
\* observing parameter stays readable until its call returns: neither is ever
\* moved or destroyed under its observer.
ObservedStaysLive ==
    \A f \in DOMAIN vals : \A v \in Vals : \A h \in handles(vals[f][v]) :
        /\ h.lease # 0 /\ leases[h.lease].status = "active" => observe(h)
        /\ v \in frames[f].observing /\ h.lease = 0 => observe(h)

ActiveAscends == \A j, k \in DOMAIN active : j < k => active[j] < active[k]

ActiveMarked == Range(active) = {l \in DOMAIN leases : leases[l].status = "active"}

ActiveHeld ==
    \A l \in Range(active) : \E f \in DOMAIN obs : \E k \in DOMAIN obs[f] : obs[f][k].lease = l

\* Entry k of the observation stack of frame f.
HeldInOrder(f, k) ==
    /\ obs[f][k].lease \in Range(active)
    /\ obs[f][k].lease > frames[f].mark
    /\ \A g \in DOMAIN obs : f < g => obs[f][k].lease <= frames[g].mark
    /\ \A j \in DOMAIN obs[f] : j < k => obs[f][j].lease < obs[f][k].lease
    /\ leases[obs[f][k].lease].parent = IF k = 1 THEN 0 ELSE obs[f][k - 1].lease

MarksKnown == \A f \in DOMAIN frames : frames[f].mark <= Len(leases)

\* The observation stacks of the frames, outermost frame first, list exactly
\* the active leases in ascending order; a lease lies between its frame's mark
\* and the marks of the frames above, and its parent is the lease below it in
\* the same frame.  abandon_leases_from and end_lease rely on it.
LeaseDiscipline ==
    /\ ActiveAscends /\ ActiveMarked /\ ActiveHeld /\ MarksKnown
    /\ \A f \in DOMAIN obs : \A k \in DOMAIN obs[f] : HeldInOrder(f, k)

\* A resource an active lease holds keeps its generation, its status and
\* every resource stored in it for as long as the lease is active.
LeaseFreeze ==
    [][\A l \in Range(active) \cap Range(active') : \A i \in leases[l].observed :
          /\ records'[i].generation = records[i].generation
          /\ records'[i].status = records[i].status
          /\ \A k \in DOMAIN records[i].fields :
                is_handle(records[i].fields[k]) =>
                    records'[i].fields[k] = records[i].fields[k]]_vars

\* A failed execution is over: from the first frame that fails on, no
\* resource changes, the host receives nothing and no frame is entered.
TerminatedIsFinal ==
    [][terminated => /\ UNCHANGED <<records, host>> /\ terminated'
                     /\ Len(frames') <= Len(frames)]_vars

\* A failure leaves every frame, and no lease survives it.
FailureUnwinds == failing ~> (frames = <<>> /\ active = <<>> /\ terminated)

\* "a still-active lease really blocks every ownership operation on what it
\* holds": no field of an observed resource changes while the lease is active.
LeaseBlocksEveryOperation ==
    [][\A l \in Range(active) \cap Range(active') : \A i \in leases[l].observed :
          records'[i] = records[i]]_vars

=============================================================================
