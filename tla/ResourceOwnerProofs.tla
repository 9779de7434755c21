------------------------ MODULE ResourceOwnerProofs ------------------------
(***************************************************************************)
(* Who owns what in ResourceRuntime, for every value of the constants.     *)
(*                                                                         *)
(* A transfer does not look for the copies of the handles it moves: it     *)
(* gives the resource a new generation and so makes every handle that is   *)
(* not the result stale.  That this leaves one owner rests on three facts  *)
(* about handles wherever they are (HandlesKnown, StoredOnce), which are   *)
(* invariants of their own.  That no resource comes to be stored inside    *)
(* itself rests on graphs_disjoint, which StorePlace asks before it        *)
(* stores, and on what a walk along the projections of a place can reach.  *)
(***************************************************************************)
EXTENDS ResourceRuntimeProofs, FiniteSetTheorems, WellFoundedInduction

-----------------------------------------------------------------------------
(***************************************************************************)
(* The handles of the values an instruction builds.                        *)
(***************************************************************************)

\* A leaf of a value that is a handle is one of its handles.
LEMMA HandleAt ==
    ASSUME NEW s \in Value
    PROVE  /\ \A i \in DOMAIN s : is_handle(s[i]) => s[i] \in handles(s)
           /\ \A h \in handles(s) : is_handle(h) /\ h \in Handle /\ \E i \in DOMAIN s : s[i] = h
BY HandlesType DEF handles

\* What a transfer returns: the same handles, one generation on and owners.
LEMMA RebuiltHandles ==
    ASSUME NEW s \in Value, NEW h \in handles(rebuilt(s))
    PROVE  \E g \in handles(s) :
              /\ h = [id |-> g.id, generation |-> g.generation + 1, role |-> "owner", lease |-> 0]
              /\ h.id = g.id /\ h.generation = g.generation + 1 /\ h.role = "owner" /\ h.lease = 0
<1>1. rebuilt(s) \in Value /\ DOMAIN rebuilt(s) = DOMAIN s
  BY RebuiltType DEF Value
<1>2. PICK i \in DOMAIN s : rebuilt(s)[i] = h
  BY <1>1, HandleAt
<1>3. is_handle(h)
  BY <1>1, HandleAt
<1>4. is_handle(s[i])
  BY <1>2, <1>3 DEF rebuilt
<1>5. s[i] \in handles(s)
  BY <1>4, HandleAt
<1>6. h = [id |-> s[i].id, generation |-> s[i].generation + 1, role |-> "owner", lease |-> 0]
  BY <1>2, <1>4 DEF rebuilt, next_generation
<1> QED
  BY <1>5, <1>6

\* Every handle that is transferred is in what the transfer returns.
LEMMA RebuiltHolds ==
    ASSUME NEW s \in Value, NEW g \in handles(s)
    PROVE  [id |-> g.id, generation |-> g.generation + 1, role |-> "owner", lease |-> 0]
              \in handles(rebuilt(s))
<1>1. rebuilt(s) \in Value /\ DOMAIN rebuilt(s) = DOMAIN s
  BY RebuiltType
<1>2. PICK i \in DOMAIN s : s[i] = g /\ is_handle(g) /\ g \in Handle
  BY HandleAt
<1> DEFINE h == [id |-> g.id, generation |-> g.generation + 1, role |-> "owner", lease |-> 0]
<1>3. rebuilt(s)[i] = h
  BY <1>2 DEF rebuilt, next_generation
<1>4. h \in Handle
  BY <1>2 DEF Handle
<1>5. is_handle(h)
  BY <1>4, HandleLeaf DEF Leaf
<1> QED
  BY <1>1, <1>3, <1>5, HandleAt

\* A view shows observers of the same generations.
LEMMA ViewHandles ==
    ASSUME NEW s \in Value, NEW l \in Nat,
           NEW h \in handles(to_observing_view(s)) \cup handles(to_leased_view(s, l))
    PROVE  /\ h \in Handle /\ h.role = "observer"
           /\ \E g \in handles(s) : h.id = g.id /\ h.generation = g.generation
<1>1. /\ to_observing_view(s) \in Value /\ DOMAIN to_observing_view(s) = DOMAIN s
      /\ to_leased_view(s, l) \in Value /\ DOMAIN to_leased_view(s, l) = DOMAIN s
  BY RebuiltType DEF to_observing_view, to_leased_view
<1>2. is_handle(h) /\ h \in Handle
  BY <1>1, HandleAt
<1>3. PICK i \in DOMAIN s : h = to_observing_view(s)[i] \/ h = to_leased_view(s, l)[i]
  BY <1>1, HandleAt
<1>4. is_handle(s[i])
  BY <1>2, <1>3 DEF to_observing_view, to_leased_view
<1>5. s[i] \in handles(s) /\ s[i] \in Handle
  BY <1>4, HandleAt
<1>6. \/ h = [s[i] EXCEPT !.role = "observer"]
      \/ h = [s[i] EXCEPT !.role = "observer", !.lease = l]
  BY <1>3, <1>4 DEF to_observing_view, to_leased_view
<1>7. h.role = "observer" /\ h.id = s[i].id /\ h.generation = s[i].generation
  BY <1>5, <1>6 DEF Handle
<1> QED
  BY <1>2, <1>5, <1>7

\* An observing view keeps the leases.
LEMMA ViewLease ==
    ASSUME NEW s \in Value, NEW h \in handles(to_observing_view(s))
    PROVE  \E g \in handles(s) : h.id = g.id /\ h.generation = g.generation /\ h.lease = g.lease
<1>1. to_observing_view(s) \in Value /\ DOMAIN to_observing_view(s) = DOMAIN s
  BY RebuiltType DEF to_observing_view
<1>2. PICK i \in DOMAIN s : h = to_observing_view(s)[i] /\ is_handle(h)
  BY <1>1, HandleAt
<1>3. s[i] \in handles(s) /\ s[i] \in Handle /\ h = [s[i] EXCEPT !.role = "observer"]
  BY <1>2, HandleAt DEF to_observing_view
<1> QED
  BY <1>3 DEF Handle

\* A leased view puts everything under the lease.
LEMMA LeasedView ==
    ASSUME NEW s \in Value, NEW l \in Nat, NEW h \in handles(to_leased_view(s, l))
    PROVE  h.lease = l
<1>1. to_leased_view(s, l) \in Value /\ DOMAIN to_leased_view(s, l) = DOMAIN s
  BY RebuiltType DEF to_leased_view
<1>2. PICK i \in DOMAIN s : h = to_leased_view(s, l)[i] /\ is_handle(h)
  BY <1>1, HandleAt
<1>3. s[i] \in Handle /\ h = [s[i] EXCEPT !.role = "observer", !.lease = l]
  BY <1>2, HandleAt DEF to_leased_view
<1> QED
  BY <1>3 DEF Handle

\* The handles of a value of one leaf.
LEMMA OneHandle ==
    ASSUME NEW x \in Leaf
    PROVE  /\ <<x>> \in Value /\ \A h \in handles(<<x>>) : h = x /\ is_handle(x)
           /\ is_handle(x) => handles(<<x>>) = {x}
<1>1. <<x>> \in Value /\ DOMAIN <<x>> = {1} /\ <<x>>[1] = x
  BY DEF Value
<1>2. /\ \A h \in handles(<<x>>) : h = x /\ is_handle(x)
      /\ is_handle(x) => handles(<<x>>) = {x}
  BY <1>1 DEF handles
<1> QED
  BY <1>1, <1>2

\* The handles of an edited value.
LEMMA EditedHandles ==
    ASSUME NEW s \in Value, NEW x \in Leaf, NEW k \in DOMAIN s
    PROVE  handles([s EXCEPT ![k] = x]) \subseteq handles(s) \cup handles(<<x>>)
<1>2. is_handle(x) => handles(<<x>>) = {x}
  BY OneHandle
<1>3. [s EXCEPT ![k] = x] \in Value
  BY SetLeafType
<1>4. ASSUME NEW h \in handles([s EXCEPT ![k] = x])
      PROVE  h \in handles(s) \cup handles(<<x>>)
  <2>1. PICK i \in DOMAIN [s EXCEPT ![k] = x] : [s EXCEPT ![k] = x][i] = h /\ is_handle(h)
    BY <1>3, HandleAt
  <2>2. i \in DOMAIN s /\ (i = k => h = x) /\ (i # k => h = s[i])
    BY <2>1
  <2> QED
    BY <1>2, <2>1, <2>2, HandleAt
<1> QED
  BY <1>4

\* The handles of two values one after the other.
LEMMA JoinedHandles ==
    ASSUME NEW s \in Value, NEW t \in Value
    PROVE  s \o t \in Value /\ handles(s \o t) = handles(s) \cup handles(t)
<1>1. s \o t \in Value /\ Len(s) \in Nat /\ Len(t) \in Nat /\ Len(s \o t) = Len(s) + Len(t)
      /\ DOMAIN s = 1..Len(s) /\ DOMAIN t = 1..Len(t) /\ DOMAIN (s \o t) = 1..(Len(s) + Len(t))
  BY DEF Value
<1>2. /\ \A i \in DOMAIN s : i \in DOMAIN (s \o t) /\ (s \o t)[i] = s[i]
      /\ \A i \in DOMAIN t : Len(s) + i \in DOMAIN (s \o t) /\ (s \o t)[Len(s) + i] = t[i]
  BY <1>1 DEF Value
<1>3. ASSUME NEW i \in DOMAIN (s \o t), i \notin DOMAIN s
      PROVE  i - Len(s) \in DOMAIN t /\ (s \o t)[i] = t[i - Len(s)]
  <2>1. i - Len(s) \in DOMAIN t /\ Len(s) + (i - Len(s)) = i
    BY <1>1, <1>3
  <2> QED
    BY <1>2, <2>1
<1>4. ASSUME NEW h \in handles(s \o t) PROVE h \in handles(s) \cup handles(t)
  <2>1. PICK i \in DOMAIN (s \o t) : (s \o t)[i] = h /\ is_handle(h)
    BY <1>1, HandleAt
  <2>2. CASE i \in DOMAIN s
    BY <1>2, <2>1, <2>2, HandleAt
  <2>3. CASE i \notin DOMAIN s
    BY <1>3, <2>1, <2>3, HandleAt
  <2> QED
    BY <2>2, <2>3
<1>5. ASSUME NEW h \in handles(s) \cup handles(t) PROVE h \in handles(s \o t)
  <2>1. CASE h \in handles(s)
    <3>1. PICK i \in DOMAIN s : s[i] = h /\ is_handle(h)
      BY <2>1, HandleAt
    <3> QED
      BY <1>1, <1>2, <3>1, HandleAt
  <2>2. CASE h \in handles(t)
    <3>1. PICK i \in DOMAIN t : t[i] = h /\ is_handle(h)
      BY <2>2, HandleAt
    <3> QED
      BY <1>1, <1>2, <3>1, HandleAt
  <2> QED
    BY <2>1, <2>2
<1> QED
  BY <1>1, <1>4, <1>5

\* The handles below H are closed under children.
LEMMA BelowClosed ==
    ASSUME NEW H, NEW h \in H \cup below(H)
    PROVE  children(h) \subseteq below(H)
<1>1. ASSUME NEW g \in children(h) PROVE g \in below(H)
  <2>1. g \in stored_handles
    BY <1>1 DEF children, record, fields, stored_handles
  <2>2. ASSUME NEW S \in SUBSET stored_handles, \A x \in H \cup S : children(x) \subseteq S
        PROVE  g \in S
    <3>1. h \in H \cup S
      BY <2>2 DEF below
    <3> QED
      BY <1>1, <2>2, <3>1
  <2> QED
    BY <2>1, <2>2 DEF below
<1> QED
  BY <1>1

\* A handle below H is a child of H or of a handle below H.
LEMMA BelowParent ==
    ASSUME NEW H, NEW g \in below(H)
    PROVE  \E h \in H \cup below(H) : g \in children(h)
<1> SUFFICES ASSUME \A h \in H \cup below(H) : g \notin children(h)
             PROVE  FALSE
  OBVIOUS
<1> DEFINE S == below(H) \ {g}
<1>1. S \in SUBSET stored_handles
  BY DEF below
<1>2. \A h \in H \cup S : children(h) \subseteq S
  BY BelowClosed
<1> HIDE DEF S
<1>3. g \in S
  BY <1>1, <1>2 DEF below
<1> QED
  BY <1>3 DEF S

-----------------------------------------------------------------------------
(***************************************************************************)
(* The walk along the projections of a place.                              *)
(***************************************************************************)

\* A set of numbers that is not empty has a least element.
LEMMA LeastNumber ==
    ASSUME NEW T, T \subseteq Nat, T # {}
    PROVE  \E m \in T : \A n \in T : m <= n
<1>1. PICK m \in T : \A n \in T : ~ (<<n, m>> \in OpToRel(<, Nat))
  BY NatLessThanWellFounded, WFMin
<1>2. ASSUME NEW n \in T PROVE m <= n
  <2>1. n \in Nat /\ m \in Nat /\ <<n, m>> \in Nat \X Nat
    OBVIOUS
  <2>2. ~ (n < m)
    BY <1>1, <2>1 DEF OpToRel
  <2> QED
    BY <2>1, <2>2
<1> QED
  BY <1>2

\* The leaves on the way along the first m steps of a path.
Walks(w, s, p, m) ==
    w = [n \in 1..m |-> IF n > 1 THEN hop(w[n - 1], p[n])
                                  ELSE IF p[1] \in DOMAIN s THEN s[p[1]] ELSE Absent]

\* The recursive definition in container defines a function.
LEMMA WalkDefined ==
    ASSUME NEW s, NEW p \in Seq(Nat \ {0}), NEW length \in Nat
    PROVE  \E w : Walks(w, s, p, length)
<1> DEFINE first == IF p[1] \in DOMAIN s THEN s[p[1]] ELSE Absent
           T == {m \in Nat : ~ \E w : Walks(w, s, p, m)}
<1> SUFFICES ASSUME T # {} PROVE FALSE
  OBVIOUS
<1>1. PICK m \in T : \A n \in T : m <= n
  BY LeastNumber
<1>2. m # 0
  <2>1. Walks([n \in 1..0 |-> first], s, p, 0)
    BY DEF Walks
  <2> QED
    BY <2>1
<1>3. m - 1 \in Nat /\ m - 1 \notin T
  <2>1. m \in Nat
    OBVIOUS
  <2> HIDE DEF T
  <2> QED
    BY <1>1, <1>2, <2>1
<1>4. PICK v : Walks(v, s, p, m - 1)
  BY <1>3
<1> HIDE DEF first
<1>5. PICK w : w = [n \in 1..m |-> IF n < m THEN v[n] ELSE IF n > 1 THEN hop(v[n - 1], p[n]) ELSE first]
  OBVIOUS
<1>6. ASSUME NEW n \in 1..m
      PROVE  w[n] = IF n > 1 THEN hop(w[n - 1], p[n]) ELSE first
  <2>1. n > 1 => n - 1 \in 1..(m - 1) /\ w[n - 1] = v[n - 1]
    BY <1>3, <1>5
  <2>2. CASE n < m
    <3>1. n \in 1..(m - 1) /\ w[n] = v[n]
      BY <1>3, <1>5, <2>2
    <3>2. v[n] = IF n > 1 THEN hop(v[n - 1], p[n]) ELSE first
      BY <1>4, <3>1 DEF Walks, first
    <3> QED
      BY <2>1, <3>1, <3>2
  <2>3. CASE n = m
    BY <1>5, <2>1, <2>3
  <2> QED
    BY <1>3, <2>2, <2>3
<1>7. Walks(w, s, p, m)
  <2>1. w = [n \in 1..m |-> w[n]]
    BY <1>5
  <2> QED
    BY <1>6, <2>1 DEF Walks, first
<1> QED
  BY <1>7

\* A walk along a path stays in any set of handles that holds the handle it
\* starts from and, with a live resource, what is stored in it.
LEMMA WalkStays ==
    ASSUME NEW s, NEW p \in Seq(Nat \ {0}), Len(p) > 1, NEW G,
           p[1] \in DOMAIN s /\ is_handle(s[p[1]]) => s[p[1]] \in G,
           \A h \in G : observe(h) => children(h) \subseteq G,
           is_handle(container(s, p))
    PROVE  container(s, p) \in G
<1> DEFINE first == IF p[1] \in DOMAIN s THEN s[p[1]] ELSE Absent
           walk == CHOOSE w : Walks(w, s, p, Len(p) - 1)
           T == {n \in 1..(Len(p) - 1) : is_handle(walk[n]) /\ walk[n] \notin G}
<1>1. Len(p) \in Nat /\ Len(p) - 1 \in Nat /\ Len(p) - 1 \in 1..(Len(p) - 1)
  OBVIOUS
<1>2. container(s, p) = walk[Len(p) - 1]
  BY DEF container, Walks
<1>3. Walks(walk, s, p, Len(p) - 1)
  <2>1. \E w : Walks(w, s, p, Len(p) - 1)
    BY <1>1, WalkDefined
  <2> QED
    BY <2>1
<1> HIDE DEF walk, first
<1>5. \A n \in 1..(Len(p) - 1) : walk[n] = IF n > 1 THEN hop(walk[n - 1], p[n]) ELSE first
  BY <1>3 DEF Walks, first
<1>6. ASSUME T # {} PROVE FALSE
  <2>1. PICK n \in T : \A k \in T : n <= k
    <3>1. T \subseteq Nat
      BY <1>1
    <3> HIDE DEF T
    <3> QED
      BY <1>6, <3>1, LeastNumber
  <2>2. n \in 1..(Len(p) - 1) /\ is_handle(walk[n]) /\ walk[n] \notin G
    BY <2>1
  <2>3. CASE n = 1
    <3>1. walk[n] = first
      BY <1>5, <2>2, <2>3
    <3> QED
      BY <2>2, <3>1 DEF first, is_handle
  <2>4. CASE n # 1
    <3>1. n - 1 \in 1..(Len(p) - 1) /\ n > 1 /\ n - 1 \notin T
      BY <1>1, <2>1, <2>2, <2>4
    <3>2. walk[n] = hop(walk[n - 1], p[n])
      BY <1>5, <2>2, <3>1
    <3>3. PICK g, k : g = walk[n - 1] /\ k = p[n]
      OBVIOUS
    <3>4. is_handle(g) /\ observe(g) /\ k \in DOMAIN fields(g) /\ walk[n] = fields(g)[k]
      BY <2>2, <3>2, <3>3 DEF hop, is_handle
    <3>5. g \in G
      BY <3>1, <3>3, <3>4
    <3>6. walk[n] \in children(g)
      BY <2>2, <3>4 DEF children, observe, handles
    <3> QED
      BY <2>2, <3>4, <3>5, <3>6
  <2> QED
    BY <2>3, <2>4
<1> QED
  BY <1>1, <1>2, <1>6

-----------------------------------------------------------------------------
(***************************************************************************)
(* What is invariant about handles.                                        *)
(***************************************************************************)

\* No handle is ahead of its resource, and an owner is under no lease.
Known(h) ==
    /\ h \in Handle /\ h.id \in DOMAIN records
    /\ h.generation <= records[h.id].generation
    /\ h.role = "owner" => h.lease = 0

\* The handles of frame f.
FrameHas(f, h) == f \in DOMAIN vals /\ \E v \in Vals : h \in handles(vals[f][v])

\* The handles stored in resource j.
Stores(j, h) == j \in DOMAIN records /\ h \in handles(records[j].fields)

\* Every handle of a frame, of the host or in a field is known, and what is
\* stored in a field is an owner.
HandlesKnown ==
    /\ \A f, h : FrameHas(f, h) => Known(h)
    /\ \A h \in host : Known(h)
    /\ \A j, h : Stores(j, h) => Known(h) /\ h.role = "owner"

\* The handle is of its resource's current generation.
current(h) == records[h.id].generation = h.generation

\* Field k of resource j is the handle h.
HoldsAt(j, k, h) ==
    /\ j \in DOMAIN records /\ k \in DOMAIN records[j].fields
    /\ records[j].fields[k] = h /\ is_handle(h)

\* No two fields of a resource hold current handles of the same resource.
StoredOnce ==
    \A j, k, m, g, h :
        HoldsAt(j, k, g) /\ HoldsAt(j, m, h) /\ g.id = h.id /\ current(g) /\ current(h) => k = m

\* What a destroyed resource still holds is destroyed too.
DeadBelowDead ==
    \A j \in DOMAIN records : \A h \in handles(records[j].fields) :
        records[j].status = "dropped" /\ current(h) => records[h.id].status = "dropped"

\* A current handle owns resource i: in a frame, in a field, at the host.
FrameOwns(f, i) == \E h : FrameHas(f, h) /\ h.role = "owner" /\ h.id = i /\ current(h)
FieldOwns(j, i) ==
    \E h : Stores(j, h) /\ records[j].status = "alive" /\ h.id = i /\ current(h)
HostOwns(i) == \E h \in host : h.role = "owner" /\ h.id = i /\ current(h)

\* What an observation sees: resources with nothing moved out of them, and
\* every resource stored in one of them.
Closed(seen) ==
    \A i \in seen : /\ i \in DOMAIN records
                     /\ \A k \in DOMAIN records[i].fields :
                           LET x == records[i].fields[k] IN
                           x # Moved /\ (is_handle(x) => x.id \in seen)

\* A leased view shows something live: what its lease already saw through a
\* handle of the running frame, or what a lease that just begins sees.
Viewed(h) ==
    h.lease # 0 =>
        /\ h.id \in Alive /\ current(h)
        /\ \/ \E g : /\ FrameHas(Top, g) /\ g.lease = h.lease
                     /\ \A seen : Closed(seen) /\ g.id \in seen => h.id \in seen
           \/ /\ h.lease \notin DOMAIN leases /\ h.lease \in DOMAIN leases'
              /\ h.id \in leases'[h.lease].observed

\* Live resources out of the reach of the frames from f on: none of these
\* frames owns one, and what owns one is one of them.
Sealed(f, P) ==
    /\ P \subseteq Alive
    /\ \A i \in P : /\ \A g \in Nat : f <= g => ~ FrameOwns(g, i)
                    /\ \A j : FieldOwns(j, i) => j \in P

\* What an operation may add to the handles in sight: views of known handles,
\* and the given handles in frame `dest' (0 is the host).
Provenance(new, dest) ==
    /\ \A f \in DOMAIN vals' : \A v \in Vals : \A h \in handles(vals'[f][v]) :
          \/ FrameHas(f, h)
          \/ Known(h) /\ h.role = "observer" /\ Viewed(h)
          \/ f = dest /\ h \in new
    /\ \A h \in host' : h \in host \/ (dest = 0 /\ h \in new)

-----------------------------------------------------------------------------
(***************************************************************************)
(* What a step does to the resource table: six ways.                       *)
(***************************************************************************)

Reads == records' = records /\ Provenance({}, 0)

Transfers ==
    \E s \in Value, dest \in Nat :
        /\ plan_transfer(s)
        /\ \A h \in handles(s) : FrameHas(Top, h)
        /\ records' = commit_transfer(s)
        /\ Provenance(handles(rebuilt(s)), dest)

new_handle == [id |-> Len(records) + 1, generation |-> 0, role |-> "owner", lease |-> 0]

new_record(s) == [generation |-> 0, status |-> "alive", fields |-> rebuilt(s)]

Creates ==
    \E s \in Value :
        /\ plan_transfer(s)
        /\ \A h \in handles(s) : FrameHas(Top, h)
        /\ records' = Append(commit_transfer(s), new_record(s))
        /\ Provenance({new_handle}, Top)

Drops ==
    \E s \in Value :
        /\ reject_leased(s) /\ plan_drop(s)
        /\ \A h \in handles(s) : FrameHas(Top, h)
        /\ records' = [i \in DOMAIN records |->
                          IF i \in identities(s)
                          THEN [records[i] EXCEPT !.status = "dropped"]
                          ELSE records[i]]
        /\ Provenance({}, 0)

\* The leaf at field k of a live resource i, which the running frame reaches
\* through what it owns, is taken out.
Takes ==
    \E i \in DOMAIN records : \E k \in DOMAIN records[i].fields :
        LET leaf == records[i].fields[k] IN
        /\ records[i].status = "alive"
        /\ leaf = Scalar \/ (is_handle(leaf) /\ observe(leaf) /\ leaf.id \notin leased)
        /\ Verified => leaf # Scalar
        /\ \A P : Sealed(Top, P) => i \notin P
        /\ records' = with_field(records, i, k, tombstone(leaf))
        /\ Provenance(handles(<<leaf>>), Top)

\* A transferred leaf fills the tombstone at field k of a live resource i,
\* which is not inside what is put there.
Refills ==
    \E s \in Value : \E i \in DOMAIN records : \E k \in DOMAIN records[i].fields :
        /\ plan_transfer(s) /\ Len(s) = 1
        /\ \A h \in handles(s) : FrameHas(Top, h)
        /\ records[i].status = "alive"
        /\ is_tombstone(records[i].fields[k])
        /\ s[1] = Scalar <=> records[i].fields[k] = Hole
        /\ Verified => s[1] # Scalar
        /\ i \notin identities(s)
        /\ records' = with_field(commit_transfer(s), i, k, rebuilt(s)[1])
        /\ Provenance({}, 0)

-----------------------------------------------------------------------------
(***************************************************************************)
(* The table after each of them.                                           *)
(***************************************************************************)

\* A record, and the values it holds.
LEMMA RecordType ==
    ASSUME TypeOK, NEW i \in DOMAIN records
    PROVE  /\ records[i] \in ResourceRecord /\ records[i].generation \in Nat
           /\ records[i].fields \in Value /\ records[i].status \in {"alive", "dropped"}
           /\ i \in Nat
<1>1. records \in Seq(ResourceRecord)
  BY DEF TypeOK
<1>2. records[i] \in ResourceRecord /\ i \in Nat
  BY <1>1
<1> QED
  BY <1>2 DEF ResourceRecord

\* commit_transfer moves the generations of what it transfers, and only them.
LEMMA CommitTable ==
    ASSUME TypeOK, NEW s \in Value, NEW i \in DOMAIN records
    PROVE  /\ commit_transfer(s)[i].status = records[i].status
           /\ commit_transfer(s)[i].fields = records[i].fields
           /\ i \in ids(handles(s)) => commit_transfer(s)[i].generation = records[i].generation + 1
           /\ i \notin ids(handles(s)) => commit_transfer(s)[i] = records[i]
<1>1. records[i] \in ResourceRecord
  BY RecordType
<1> DEFINE r == [records[i] EXCEPT !.generation = @ + 1]
<1>2. r.status = records[i].status /\ r.fields = records[i].fields
      /\ r.generation = records[i].generation + 1
  BY <1>1 DEF ResourceRecord
<1>3. commit_transfer(s)[i] = IF i \in ids(handles(s)) THEN r ELSE records[i]
  BY DEF commit_transfer, next_generation
<1> HIDE DEF r
<1> QED
  BY <1>2, <1>3

\* with_field changes one field of one record.
LEMMA WithFieldTable ==
    ASSUME NEW recs \in Seq(ResourceRecord), NEW i \in DOMAIN recs,
           NEW k \in DOMAIN recs[i].fields, NEW x \in Leaf
    PROVE  LET t == with_field(recs, i, k, x) IN
           /\ DOMAIN t = DOMAIN recs
           /\ \A j \in DOMAIN recs : j # i => t[j] = recs[j]
           /\ \A j \in DOMAIN recs : t[j].generation = recs[j].generation
                                     /\ t[j].status = recs[j].status
           /\ t[i].fields = [recs[i].fields EXCEPT ![k] = x]
<1>1. recs[i] \in ResourceRecord
  OBVIOUS
<1> DEFINE f == [recs[i].fields EXCEPT ![k] = x]
           r == [recs[i] EXCEPT !.fields = f]
<1>2. r.generation = recs[i].generation /\ r.status = recs[i].status /\ r.fields = f
  BY <1>1 DEF ResourceRecord
<1>3. with_field(recs, i, k, x) = [recs EXCEPT ![i] = r]
  BY DEF with_field
<1> HIDE DEF r, f
<1>4. /\ DOMAIN [recs EXCEPT ![i] = r] = DOMAIN recs
      /\ [recs EXCEPT ![i] = r][i] = r
      /\ \A j \in DOMAIN recs : j # i => [recs EXCEPT ![i] = r][j] = recs[j]
  OBVIOUS
<1> QED
  BY <1>2, <1>3, <1>4 DEF f

\* The table after Drop: what is reachable is destroyed, nothing else changes.
LEMMA DropTable ==
    ASSUME TypeOK, NEW s,
           records' = [i \in DOMAIN records |->
                          IF i \in identities(s)
                          THEN [records[i] EXCEPT !.status = "dropped"]
                          ELSE records[i]]
    PROVE  /\ DOMAIN records' = DOMAIN records
           /\ \A i \in DOMAIN records :
                 /\ records'[i].fields = records[i].fields
                 /\ records'[i].generation = records[i].generation
                 /\ records'[i].status = IF i \in identities(s) THEN "dropped"
                                         ELSE records[i].status
<1>1. ASSUME NEW i \in DOMAIN records
      PROVE  LET r == [records[i] EXCEPT !.status = "dropped"] IN
             /\ r.fields = records[i].fields /\ r.generation = records[i].generation
             /\ r.status = "dropped"
  <2>1. records[i] \in ResourceRecord
    BY RecordType
  <2> QED
    BY <2>1 DEF ResourceRecord
<1> QED
  BY <1>1

\* No generation goes back and no resource is forgotten.
Grows ==
    \A i \in DOMAIN records :
        i \in DOMAIN records' /\ records[i].generation <= records'[i].generation

\* A known handle stays known.
LEMMA KnownGrows ==
    ASSUME TypeOK, TypeOK', Grows, NEW h, Known(h)
    PROVE  Known(h)'
<1>1. /\ h \in Handle /\ h.id \in DOMAIN records /\ h.id \in DOMAIN records'
      /\ h.generation <= records[h.id].generation
      /\ records[h.id].generation <= records'[h.id].generation
  BY DEF Known, Grows
<1>2. h.generation \in Nat /\ records[h.id].generation \in Nat
  BY <1>1, RecordType DEF Handle
<1>3. records'[h.id].generation \in Nat
  <2>1. records' \in Seq(ResourceRecord)
    BY DEF TypeOK
  <2>2. records'[h.id] \in ResourceRecord
    BY <1>1, <2>1
  <2> QED
    BY <2>2 DEF ResourceRecord
<1> QED
  BY <1>1, <1>2, <1>3 DEF Known

\* What comes into sight is known, if the new handles are.
LEMMA ProvenanceKnown ==
    ASSUME TypeOK, TypeOK', HandlesKnown, Grows,
           NEW new, NEW dest, Provenance(new, dest), \A h \in new : Known(h)'
    PROVE  /\ \A f, h : FrameHas(f, h)' => Known(h)'
           /\ \A h \in host' : Known(h)'
<1>1. ASSUME NEW f, NEW h, FrameHas(f, h)' PROVE Known(h)'
  <2>1. PICK v \in Vals : f \in DOMAIN vals' /\ h \in handles(vals'[f][v])
    BY <1>1 DEF FrameHas
  <2>2. FrameHas(f, h) \/ Known(h) \/ h \in new
    BY <2>1 DEF Provenance
  <2> QED
    BY <2>2, KnownGrows DEF HandlesKnown
<1>2. ASSUME NEW h \in host' PROVE Known(h)'
  BY <1>2, KnownGrows DEF HandlesKnown, Provenance
<1> QED
  BY <1>1, <1>2

-----------------------------------------------------------------------------
(***************************************************************************)
(* One owner.                                                              *)
(***************************************************************************)

\* The place p holds a current owner of i.
Owns(p, i) ==
    \/ \E f : p = <<"frame", f>> /\ FrameOwns(f, i)
    \/ \E j : p = <<"field", j>> /\ FieldOwns(j, i)
    \/ p = <<"host">> /\ HostOwns(i)

OneOwner == \A i \in Alive : \A p, q : Owns(p, i) /\ Owns(q, i) => p = q

OwnerInv == HandlesKnown /\ StoredOnce /\ OneOwner

\* A known handle that is current after a step was current before it, and its
\* resource did not change hands.
LEMMA CurrentBefore ==
    ASSUME TypeOK, TypeOK', Grows, NEW h, Known(h), current(h)'
    PROVE  /\ current(h) /\ h.id \in DOMAIN records
           /\ records'[h.id].generation = records[h.id].generation
<1>1. /\ h \in Handle /\ h.id \in DOMAIN records
      /\ h.generation <= records[h.id].generation
      /\ records[h.id].generation <= records'[h.id].generation
      /\ records'[h.id].generation = h.generation
  BY DEF Known, Grows, current
<1>2. h.generation \in Nat /\ records[h.id].generation \in Nat
  BY <1>1, RecordType DEF Handle
<1>3. records[h.id].generation = h.generation
  BY <1>1, <1>2
<1> QED
  BY <1>1, <1>3 DEF current

\* A frame that owns i after a step owned it before, or was just given it.
LEMMA FrameOwnsBefore ==
    ASSUME TypeOK, TypeOK', HandlesKnown, Grows, NEW new, NEW dest, Provenance(new, dest),
           NEW f, NEW i, FrameOwns(f, i)'
    PROVE  \/ /\ FrameOwns(f, i) /\ i \in DOMAIN records
              /\ records'[i].generation = records[i].generation
           \/ f = dest /\ \E h \in new : h.id = i /\ h.role = "owner"
<1>1. PICK h : FrameHas(f, h)' /\ h.role = "owner" /\ h.id = i /\ current(h)'
  BY DEF FrameOwns
<1>2. PICK v \in Vals : f \in DOMAIN vals' /\ h \in handles(vals'[f][v])
  BY <1>1 DEF FrameHas
<1>3. FrameHas(f, h) \/ (f = dest /\ h \in new)
  BY <1>1, <1>2 DEF Provenance
<1>4. CASE FrameHas(f, h)
  <2>1. Known(h)
    BY <1>4 DEF HandlesKnown
  <2> QED
    BY <1>1, <1>4, <2>1, CurrentBefore DEF FrameOwns
<1> QED
  BY <1>1, <1>3, <1>4

\* The same of the host.
LEMMA HostOwnsBefore ==
    ASSUME TypeOK, TypeOK', HandlesKnown, Grows, NEW new, NEW dest, Provenance(new, dest),
           NEW i, HostOwns(i)'
    PROVE  \/ /\ HostOwns(i) /\ i \in DOMAIN records
              /\ records'[i].generation = records[i].generation
           \/ dest = 0 /\ \E h \in new : h.id = i /\ h.role = "owner"
<1>1. PICK h \in host' : h.role = "owner" /\ h.id = i /\ current(h)'
  BY DEF HostOwns
<1>2. h \in host \/ (dest = 0 /\ h \in new)
  BY <1>1 DEF Provenance
<1>3. CASE h \in host
  <2>1. Known(h)
    BY <1>3 DEF HandlesKnown
  <2> QED
    BY <1>1, <1>3, <2>1, CurrentBefore DEF HostOwns
<1> QED
  BY <1>1, <1>2, <1>3

\* And of a field, if its resource stored the handle before.
LEMMA FieldOwnsBefore ==
    ASSUME TypeOK, TypeOK', HandlesKnown, Grows, NEW j, NEW i, FieldOwns(j, i)',
           \A h : Stores(j, h)' => Stores(j, h),
           records'[j].status = "alive" => records[j].status = "alive"
    PROVE  /\ FieldOwns(j, i) /\ i \in DOMAIN records
           /\ records'[i].generation = records[i].generation
<1>1. PICK h : Stores(j, h)' /\ records'[j].status = "alive" /\ h.id = i /\ current(h)'
  BY DEF FieldOwns
<1>2. Stores(j, h) /\ Known(h)
  BY <1>1 DEF HandlesKnown
<1> QED
  BY <1>1, <1>2, CurrentBefore DEF FieldOwns

\* A resource nobody was given keeps its one owner.
LEMMA OwnerKept ==
    ASSUME TypeOK, TypeOK', HandlesKnown, OneOwner, Grows,
           NEW new, NEW dest, Provenance(new, dest),
           NEW i \in Alive, \A h \in new : h.id # i,
           \A j : FieldOwns(j, i)' => FieldOwns(j, i),
           NEW p, NEW q, Owns(p, i)', Owns(q, i)'
    PROVE  p = q
<1>1. \A x : Owns(x, i)' => Owns(x, i)
  <2>1. \A f : FrameOwns(f, i)' => FrameOwns(f, i)
    BY FrameOwnsBefore
  <2>2. HostOwns(i)' => HostOwns(i)
    BY HostOwnsBefore
  <2> QED
    BY <2>1, <2>2 DEF Owns
<1> QED
  BY <1>1 DEF OneOwner

\* A resource that was given to one place has no other owner.
LEMMA OwnerGiven ==
    ASSUME TypeOK', NEW dest, NEW i,
           \A f : FrameOwns(f, i)' => f = dest,
           HostOwns(i)' => dest = 0,
           \A j : ~ FieldOwns(j, i)',
           NEW p, NEW q, Owns(p, i)', Owns(q, i)'
    PROVE  p = q
<1>1. ASSUME FrameOwns(0, i)' PROVE FALSE
  <2>1. 0 \in DOMAIN vals'
    BY <1>1 DEF FrameOwns, FrameHas
  <2>2. vals' \in Seq([Vals -> Value])
    BY DEF TypeOK
  <2> QED
    BY <2>1, <2>2
<1>2. ASSUME NEW x, Owns(x, i)'
      PROVE  x = IF dest = 0 THEN <<"host">> ELSE <<"frame", dest>>
  BY <1>1, <1>2 DEF Owns
<1> QED
  BY <1>2

\* The handles of a value that may be transferred.
LEMMA PlannedHandles ==
    ASSUME TypeOK, NEW s \in Value, plan_transfer(s), NEW h \in handles(s)
    PROVE  /\ h \in Handle /\ h.id \in DOMAIN records /\ h.role = "owner"
           /\ records[h.id].generation = h.generation /\ records[h.id].status = "alive"
           /\ h.id \in ids(handles(s))
BY HandlesType DEF plan_transfer, observe, record, ids

\* The table after commit_transfer.
LEMMA CommitGrows ==
    ASSUME TypeOK, NEW s \in Value, plan_transfer(s),
           NEW t, DOMAIN records \subseteq DOMAIN t,
           \A i \in DOMAIN records : t[i].generation = commit_transfer(s)[i].generation
    PROVE  /\ \A i \in DOMAIN records : records[i].generation <= t[i].generation
           /\ \A h \in handles(rebuilt(s)) :
                 /\ h \in Handle /\ h.role = "owner" /\ h.lease = 0
                 /\ h.id \in ids(handles(s)) /\ h.id \in DOMAIN records
                 /\ h.generation = t[h.id].generation
<1>1. \A i \in DOMAIN records : records[i].generation <= t[i].generation
  BY RecordType, CommitTable
<1>2. ASSUME NEW h \in handles(rebuilt(s))
      PROVE  /\ h \in Handle /\ h.role = "owner" /\ h.lease = 0
             /\ h.id \in ids(handles(s)) /\ h.id \in DOMAIN records
             /\ h.generation = t[h.id].generation
  <2>1. PICK g \in handles(s) : /\ h.id = g.id /\ h.generation = g.generation + 1
                                /\ h.role = "owner" /\ h.lease = 0
    BY RebuiltHandles
  <2>2. h \in Handle
    BY RebuiltType, HandlesType
  <2>3. /\ g.id \in DOMAIN records /\ g.id \in ids(handles(s))
        /\ records[g.id].generation = g.generation
    BY PlannedHandles
  <2>4. t[g.id].generation = records[g.id].generation + 1
    BY <2>3, CommitTable
  <2> QED
    BY <2>1, <2>2, <2>3, <2>4
<1> QED
  BY <1>1, <1>2

\* A field that holds a handle stores it.
LEMMA HoldsStores ==
    ASSUME TypeOK, NEW j, NEW k, NEW h, HoldsAt(j, k, h)
    PROVE  Stores(j, h)
BY RecordType, HandleAt DEF HoldsAt, Stores

\* A step that stores nothing stores nothing twice.
LEMMA StoredOnceKept ==
    ASSUME TypeOK, TypeOK', HandlesKnown, StoredOnce, Grows,
           \A j, k, h : HoldsAt(j, k, h)' => HoldsAt(j, k, h)
    PROVE  StoredOnce'
<1>1. ASSUME NEW j, NEW k, NEW h, HoldsAt(j, k, h)', current(h)'
      PROVE  HoldsAt(j, k, h) /\ current(h)
  <2>1. HoldsAt(j, k, h)
    BY <1>1
  <2>2. Known(h)
    BY <2>1, HoldsStores DEF HandlesKnown
  <2> QED
    BY <1>1, <2>1, <2>2, CurrentBefore
<1> QED
  BY <1>1 DEF StoredOnce

\* A step that leaves the table alone.
LEMMA ReadsOwner ==
    ASSUME TypeOK, TypeOK', OwnerInv, Reads
    PROVE  OwnerInv'
<1>1. records' = records /\ Provenance({}, 0)
  BY DEF Reads
<1>2. Grows
  BY <1>1, RecordType DEF Grows
<1>3. \A j, h : Stores(j, h)' => Stores(j, h)
  BY <1>1 DEF Stores
<1>4. HandlesKnown'
  BY <1>1, <1>2, <1>3, ProvenanceKnown, KnownGrows DEF OwnerInv, HandlesKnown
<1>5. StoredOnce'
  <2>1. \A j, k, h : HoldsAt(j, k, h)' => HoldsAt(j, k, h)
    BY <1>1 DEF HoldsAt
  <2> QED
    BY <1>2, <2>1, StoredOnceKept DEF OwnerInv
<1>6. ASSUME NEW i \in Alive', NEW p, NEW q, Owns(p, i)', Owns(q, i)' PROVE p = q
  <2>1. i \in Alive
    BY <1>1 DEF Alive
  <2>2. \A j : FieldOwns(j, i)' => FieldOwns(j, i)
    BY <1>1 DEF FieldOwns, Stores, current
  <2> QED
    BY <1>1, <1>2, <1>6, <2>1, <2>2, OwnerKept DEF OwnerInv
<1> QED
  BY <1>4, <1>5, <1>6 DEF OwnerInv, OneOwner

\* A transfer: every other handle of what crosses goes stale.
LEMMA TransfersOwner ==
    ASSUME TypeOK, TypeOK', OwnerInv, Transfers
    PROVE  OwnerInv'
<1>1. PICK s \in Value, dest \in Nat :
        /\ plan_transfer(s) /\ records' = commit_transfer(s)
        /\ Provenance(handles(rebuilt(s)), dest)
  BY DEF Transfers
<1> DEFINE M == ids(handles(s))
<1>2. DOMAIN records' = DOMAIN records
  BY <1>1 DEF commit_transfer
<1>3. /\ \A i \in DOMAIN records : records[i].generation <= records'[i].generation
      /\ \A h \in handles(rebuilt(s)) :
            /\ h \in Handle /\ h.role = "owner" /\ h.lease = 0
            /\ h.id \in M /\ h.id \in DOMAIN records /\ h.generation = records'[h.id].generation
  BY <1>1, <1>2, CommitGrows
<1>4. Grows
  BY <1>2, <1>3 DEF Grows
<1>5. \A i \in DOMAIN records : /\ records'[i].fields = records[i].fields
                                /\ records'[i].status = records[i].status
                                /\ i \in M => records'[i].generation # records[i].generation
  BY <1>1, CommitTable, RecordType
<1>6. \A j, h : Stores(j, h)' => Stores(j, h)
  BY <1>2, <1>5 DEF Stores
<1>7. HandlesKnown'
  <2>1. \A h \in handles(rebuilt(s)) : Known(h)'
    BY <1>2, <1>3 DEF Known, Handle
  <2> QED
    BY <1>1, <1>4, <1>6, <2>1, ProvenanceKnown, KnownGrows DEF OwnerInv, HandlesKnown
<1>8. StoredOnce'
  <2>1. \A j, k, h : HoldsAt(j, k, h)' => HoldsAt(j, k, h)
    BY <1>2, <1>5 DEF HoldsAt
  <2> QED
    BY <1>4, <2>1, StoredOnceKept DEF OwnerInv
<1>9. ASSUME NEW i \in Alive', NEW p, NEW q, Owns(p, i)', Owns(q, i)' PROVE p = q
  <2>1. i \in Alive
    BY <1>2, <1>5 DEF Alive
  <2>2. \A j : FieldOwns(j, i)' =>
           FieldOwns(j, i) /\ records'[i].generation = records[i].generation
    <3>1. ASSUME NEW j, FieldOwns(j, i)' PROVE j \in DOMAIN records
      BY <1>2, <3>1 DEF FieldOwns, Stores
    <3> QED
      BY <1>4, <1>5, <1>6, <3>1, FieldOwnsBefore DEF OwnerInv
  <2>3. CASE i \in M
    <3>1. i \in DOMAIN records /\ records'[i].generation # records[i].generation
      BY <1>5, <2>1, <2>3 DEF Alive
    <3>2. \A f : FrameOwns(f, i)' => f = dest
      BY <1>1, <1>4, <3>1, FrameOwnsBefore DEF OwnerInv
    <3>3. HostOwns(i)' => dest = 0
      BY <1>1, <1>4, <3>1, HostOwnsBefore DEF OwnerInv
    <3> QED
      BY <1>9, <2>2, <3>1, <3>2, <3>3, OwnerGiven
  <2>4. CASE i \notin M
    BY <1>1, <1>3, <1>4, <1>9, <2>1, <2>2, <2>4, OwnerKept DEF OwnerInv
  <2> QED
    BY <2>3, <2>4
<1> QED
  BY <1>7, <1>8, <1>9 DEF OwnerInv, OneOwner

\* Destroying: nobody is given anything.
LEMMA DropsOwner ==
    ASSUME TypeOK, TypeOK', OwnerInv, Drops
    PROVE  OwnerInv'
<1>1. PICK s \in Value :
        /\ records' = [i \in DOMAIN records |->
                          IF i \in identities(s)
                          THEN [records[i] EXCEPT !.status = "dropped"]
                          ELSE records[i]]
        /\ Provenance({}, 0)
  BY DEF Drops
<1>2. DOMAIN records' = DOMAIN records
  BY <1>1
<1>3. \A i \in DOMAIN records :
        /\ records'[i].fields = records[i].fields
        /\ records'[i].generation = records[i].generation
        /\ records'[i].status = "alive" => records[i].status = "alive"
  <2>1. ASSUME NEW i \in DOMAIN records
        PROVE  LET r == [records[i] EXCEPT !.status = "dropped"] IN
               /\ r.fields = records[i].fields /\ r.generation = records[i].generation
               /\ r.status = "dropped"
    <3>1. records[i] \in ResourceRecord
      BY RecordType
    <3> QED
      BY <3>1 DEF ResourceRecord
  <2> QED
    BY <1>1, <2>1
<1>4. Grows
  BY <1>2, <1>3, RecordType DEF Grows
<1>5. \A j, h : Stores(j, h)' => Stores(j, h)
  BY <1>2, <1>3 DEF Stores
<1>6. HandlesKnown'
  BY <1>1, <1>4, <1>5, ProvenanceKnown, KnownGrows DEF OwnerInv, HandlesKnown
<1>8. StoredOnce'
  <2>1. \A j, k, h : HoldsAt(j, k, h)' => HoldsAt(j, k, h)
    BY <1>2, <1>3 DEF HoldsAt
  <2> QED
    BY <1>4, <2>1, StoredOnceKept DEF OwnerInv
<1>9. ASSUME NEW i \in Alive', NEW p, NEW q, Owns(p, i)', Owns(q, i)' PROVE p = q
  <2>1. i \in Alive
    BY <1>2, <1>3 DEF Alive
  <2>2. \A j : FieldOwns(j, i)' => FieldOwns(j, i)
    <3>1. ASSUME NEW j, FieldOwns(j, i)' PROVE j \in DOMAIN records
      BY <1>2, <3>1 DEF FieldOwns, Stores
    <3> QED
      BY <1>3, <1>4, <1>5, <3>1, FieldOwnsBefore DEF OwnerInv
  <2> QED
    BY <1>1, <1>4, <1>9, <2>1, <2>2, OwnerKept DEF OwnerInv
<1> QED
  BY <1>6, <1>8, <1>9 DEF OwnerInv, OneOwner

\* What was stored in a resource before, and is current, was current before.
LEMMA HeldBefore ==
    ASSUME TypeOK, TypeOK', HandlesKnown, Grows, NEW j, NEW k, NEW h,
           HoldsAt(j, k, h), current(h)'
    PROVE  /\ current(h) /\ h.id \in DOMAIN records
           /\ records'[h.id].generation = records[h.id].generation
<1>1. Known(h)
  BY HoldsStores DEF HandlesKnown
<1> QED
  BY <1>1, CurrentBefore

\* A resource that was stored in one container has no other owner.
LEMMA OwnerStored ==
    ASSUME NEW c, NEW i, \A f : ~ FrameOwns(f, i)', ~ HostOwns(i)',
           \A j : FieldOwns(j, i)' => j = c,
           NEW p, NEW q, Owns(p, i)', Owns(q, i)'
    PROVE  p = q
BY DEF Owns

\* A record of the next state.
LEMMA NextRecordType ==
    ASSUME TypeOK', NEW i \in DOMAIN records'
    PROVE  /\ records'[i] \in ResourceRecord /\ records'[i].generation \in Nat
           /\ records'[i].fields \in Value /\ records'[i].status \in {"alive", "dropped"}
<1>1. records' \in Seq(ResourceRecord)
  BY DEF TypeOK
<1>2. records'[i] \in ResourceRecord
  BY <1>1
<1> QED
  BY <1>2 DEF ResourceRecord

\* What a resource will store is at one of its positions.
LEMMA NextStoresAt ==
    ASSUME TypeOK', NEW j, NEW h, Stores(j, h)'
    PROVE  \E k : HoldsAt(j, k, h)'
<1>1. j \in DOMAIN records' /\ h \in handles(records'[j].fields)
  BY DEF Stores
<1>2. PICK k \in DOMAIN records'[j].fields : records'[j].fields[k] = h /\ is_handle(h)
  BY <1>1, NextRecordType, HandleAt
<1> QED
  BY <1>1, <1>2 DEF HoldsAt

\* A field that will own does so through one of its positions.
LEMMA NextOwnsAt ==
    ASSUME TypeOK', NEW j, NEW i, FieldOwns(j, i)'
    PROVE  \E k, h : /\ HoldsAt(j, k, h)' /\ records'[j].status = "alive"
                     /\ h.id = i /\ current(h)'
<1>1. PICK h : Stores(j, h)' /\ records'[j].status = "alive" /\ h.id = i /\ current(h)'
  BY DEF FieldOwns
<1> QED
  BY <1>1, NextStoresAt

\* A field owns through one of its positions.
LEMMA FieldOwnsAt ==
    ASSUME TypeOK, NEW j, NEW i
    PROVE  FieldOwns(j, i) <=>
              \E k, h : HoldsAt(j, k, h) /\ records[j].status = "alive" /\ h.id = i /\ current(h)
<1>1. ASSUME FieldOwns(j, i)
      PROVE  \E k, h : HoldsAt(j, k, h) /\ records[j].status = "alive" /\ h.id = i /\ current(h)
  <2>1. PICK h : Stores(j, h) /\ records[j].status = "alive" /\ h.id = i /\ current(h)
    BY <1>1 DEF FieldOwns
  <2>2. PICK k \in DOMAIN records[j].fields : records[j].fields[k] = h /\ is_handle(h)
    BY <2>1, RecordType, HandleAt DEF Stores
  <2> QED
    BY <2>1, <2>2 DEF HoldsAt, Stores
<1>2. ASSUME NEW k, NEW h, HoldsAt(j, k, h), records[j].status = "alive", h.id = i, current(h)
      PROVE  FieldOwns(j, i)
  BY <1>2, HoldsStores DEF FieldOwns
<1> QED
  BY <1>1, <1>2

\* The table after a construction: one more resource.
LEMMA CreateTable ==
    ASSUME TypeOK, NEW s \in Value, records' = Append(commit_transfer(s), new_record(s)),
           NEW n, n = Len(records) + 1
    PROVE  /\ n \notin DOMAIN records /\ DOMAIN records' = DOMAIN records \cup {n}
           /\ \A i \in DOMAIN records : records'[i] = commit_transfer(s)[i]
           /\ records'[n] = new_record(s)
<1>1. PICK recs, r : recs = commit_transfer(s) /\ r = new_record(s)
  OBVIOUS
<1>2. /\ recs \in Seq(ResourceRecord) /\ Len(recs) = Len(records) /\ Len(records) \in Nat
      /\ DOMAIN records = 1..Len(records)
  BY <1>1, CommitType DEF TypeOK
<1>3. records' = Append(recs, r)
  BY <1>1
<1>4. /\ DOMAIN records' = 1..(Len(records) + 1) /\ records'[Len(records) + 1] = r
      /\ \A i \in 1..Len(records) : records'[i] = recs[i]
  BY <1>2, <1>3
<1> QED
  BY <1>1, <1>2, <1>4

\* A construction: what it takes is owned by the new resource, and the new
\* resource by the frame.
LEMMA CreatesOwner ==
    ASSUME TypeOK, TypeOK', OwnerInv, Creates
    PROVE  OwnerInv'
<1>1. PICK s \in Value :
        /\ plan_transfer(s) /\ records' = Append(commit_transfer(s), new_record(s))
        /\ Provenance({new_handle}, Top)
  BY DEF Creates
<1> DEFINE M == ids(handles(s))
<1>n. PICK n : n = Len(records) + 1
  OBVIOUS
<1>h. PICK own : own = new_handle
  OBVIOUS
<1>2. /\ commit_transfer(s) \in Seq(ResourceRecord) /\ records \in Seq(ResourceRecord)
      /\ Len(commit_transfer(s)) = Len(records) /\ Len(records) \in Nat
      /\ DOMAIN commit_transfer(s) = DOMAIN records /\ DOMAIN records = 1..Len(records)
  BY CommitType DEF TypeOK
<1>3. /\ n \notin DOMAIN records /\ DOMAIN records' = DOMAIN records \cup {n}
      /\ \A i \in DOMAIN records : records'[i] = commit_transfer(s)[i]
      /\ records'[n] = new_record(s)
  BY <1>1, <1>n, CreateTable
<1>4. records'[n].fields = rebuilt(s) /\ records'[n].generation = 0
  BY <1>3 DEF new_record
<1>5. /\ \A i \in DOMAIN records : records[i].generation <= records'[i].generation
      /\ \A h \in handles(rebuilt(s)) :
            /\ h \in Handle /\ h.role = "owner" /\ h.lease = 0
            /\ h.id \in M /\ h.id \in DOMAIN records /\ h.generation = records'[h.id].generation
  BY <1>1, <1>3, CommitGrows
<1>6. Grows
  BY <1>3, <1>5 DEF Grows
<1>7. \A i \in DOMAIN records : /\ records'[i].fields = records[i].fields
                                /\ records'[i].status = records[i].status
                                /\ i \in M => records'[i].generation # records[i].generation
  BY <1>3, CommitTable, RecordType
<1>8. rebuilt(s) \in Value /\ DOMAIN rebuilt(s) = DOMAIN s
  BY RebuiltType
<1>9. ASSUME NEW j, NEW k, NEW h, HoldsAt(j, k, h)'
      PROVE  HoldsAt(j, k, h) \/ (j = n /\ k \in DOMAIN s /\ h = rebuilt(s)[k] /\ h \in handles(rebuilt(s)))
  <2>1. CASE j = n
    BY <1>4, <1>8, <1>9, <2>1, HandleAt DEF HoldsAt
  <2>2. CASE j # n
    BY <1>3, <1>7, <1>9, <2>2 DEF HoldsAt
  <2> QED
    BY <2>1, <2>2
<1>10. \A j, h : Stores(j, h)' => Stores(j, h) \/ (j = n /\ h \in handles(rebuilt(s)))
  BY <1>3, <1>4, <1>7 DEF Stores
<1>11. Known(own)' /\ own.id = n /\ Provenance({own}, Top)
  <2>1. own = [id |-> n, generation |-> 0, role |-> "owner", lease |-> 0]
    BY <1>n, <1>h DEF new_handle
  <2>2. n \in Nat
    BY <1>2, <1>n
  <2> QED
    BY <1>1, <1>3, <1>4, <1>h, <2>1, <2>2 DEF Known, Handle
<1>12. HandlesKnown'
  <2>1. \A h \in handles(rebuilt(s)) : Known(h)'
    BY <1>3, <1>5 DEF Known, Handle
  <2>2. \A j, h : Stores(j, h)' => Known(h)' /\ h.role = "owner"
    BY <1>5, <1>6, <1>10, <2>1, KnownGrows DEF OwnerInv, HandlesKnown
  <2>3. /\ \A f, h : FrameHas(f, h)' => Known(h)'
        /\ \A h \in host' : Known(h)'
    BY <1>6, <1>11, ProvenanceKnown DEF OwnerInv
  <2> QED
    BY <2>2, <2>3 DEF HandlesKnown
<1>13. ASSUME NEW k \in DOMAIN s, NEW m \in DOMAIN s, NEW g, NEW h,
              g = rebuilt(s)[k], h = rebuilt(s)[m], is_handle(g), is_handle(h), g.id = h.id
       PROVE  k = m
  <2>1. is_handle(s[k]) /\ is_handle(s[m]) /\ g.id = s[k].id /\ h.id = s[m].id
    BY <1>13 DEF rebuilt
  <2>2. <<0, k>> \in edges(s) /\ <<0, m>> \in edges(s)
    BY <2>1 DEF edges
  <2>3. target(s, <<0, k>>) = s[k].id /\ target(s, <<0, m>>) = s[m].id
    BY DEF target
  <2>4. <<0, k>> = <<0, m>>
    BY <1>1, <1>13, <2>1, <2>2, <2>3 DEF plan_transfer, collect_owned_identities
  <2> QED
    BY <2>4
<1>14. StoredOnce'
  <2>1. ASSUME NEW j, NEW k, NEW m, NEW g, NEW h, HoldsAt(j, k, g)', HoldsAt(j, m, h)',
               g.id = h.id, current(g)', current(h)'
        PROVE  k = m
    <3>1. CASE j = n
      <4>1. is_handle(g) /\ is_handle(h)
        BY <2>1 DEF HoldsAt
      <4>2. ~ HoldsAt(j, k, g) /\ ~ HoldsAt(j, m, h)
        BY <1>3, <3>1 DEF HoldsAt
      <4> QED
        BY <1>9, <1>13, <2>1, <4>1, <4>2
    <3>2. CASE j # n
      <4>1. HoldsAt(j, k, g) /\ HoldsAt(j, m, h)
        BY <1>9, <2>1, <3>2
      <4>2. current(g) /\ current(h)
        BY <1>6, <2>1, <4>1, HeldBefore DEF OwnerInv
      <4> QED
        BY <2>1, <4>1, <4>2 DEF OwnerInv, StoredOnce
    <3> QED
      BY <3>1, <3>2
  <2> QED
    BY <2>1 DEF StoredOnce
<1>15. ASSUME NEW j, NEW i, FieldOwns(j, i)', j # n
       PROVE  FieldOwns(j, i) /\ i \in DOMAIN records /\ records'[i].generation = records[i].generation
  <2>1. j \in DOMAIN records
    BY <1>3, <1>15 DEF FieldOwns, Stores
  <2>2. \A h : Stores(j, h)' => Stores(j, h)
    BY <1>10, <1>15
  <2> QED
    BY <1>6, <1>7, <1>15, <2>1, <2>2, FieldOwnsBefore DEF OwnerInv
<1>16. ASSUME NEW i, FieldOwns(n, i)' PROVE i \in M /\ i \in DOMAIN records
  <2>1. PICK h : Stores(n, h)' /\ h.id = i
    BY <1>16 DEF FieldOwns
  <2>2. h \in handles(rebuilt(s))
    BY <1>3, <1>10, <2>1 DEF Stores
  <2> QED
    BY <1>5, <2>1, <2>2
<1>17. ASSUME NEW i \in Alive', NEW p, NEW q, Owns(p, i)', Owns(q, i)' PROVE p = q
  <2>1. CASE i = n
    <3>1. \A f : FrameOwns(f, i)' => f = Top
      BY <1>3, <1>6, <1>11, <2>1, FrameOwnsBefore DEF OwnerInv
    <3>2. HostOwns(i)' => Top = 0
      BY <1>3, <1>6, <1>11, <2>1, HostOwnsBefore DEF OwnerInv
    <3>3. \A j : ~ FieldOwns(j, i)'
      BY <1>3, <1>15, <1>16, <2>1
    <3> QED
      BY <1>17, <3>1, <3>2, <3>3, OwnerGiven
  <2>2. CASE i # n /\ i \in M
    <3>1. i \in DOMAIN records /\ records'[i].generation # records[i].generation
      BY <1>3, <1>7, <2>2 DEF Alive
    <3>2. (\A f : ~ FrameOwns(f, i)') /\ ~ HostOwns(i)'
      BY <1>6, <1>11, <2>2, <3>1, FrameOwnsBefore, HostOwnsBefore DEF OwnerInv
    <3>3. \A j : FieldOwns(j, i)' => j = n
      BY <1>15, <3>1
    <3> QED
      BY <1>17, <3>2, <3>3, OwnerStored
  <2>3. CASE i # n /\ i \notin M
    <3>1. i \in Alive
      BY <1>3, <1>7, <2>3 DEF Alive
    <3>2. \A j : FieldOwns(j, i)' => FieldOwns(j, i)
      BY <1>15, <1>16, <2>3
    <3> QED
      BY <1>6, <1>11, <1>17, <2>3, <3>1, <3>2, OwnerKept DEF OwnerInv
  <2> QED
    BY <2>1, <2>2, <2>3
<1> QED
  BY <1>12, <1>14, <1>17 DEF OwnerInv, OneOwner

\* A handle is no tombstone.
LEMMA TombstoneLeaf ==
    ASSUME NEW x PROVE tombstone(x) \in Leaf /\ ~ is_handle(tombstone(x))
BY DEF tombstone, is_handle, Leaf

\* Taking a leaf out of a resource: its only owner was the field it leaves.
LEMMA TakesOwner ==
    ASSUME TypeOK, TypeOK', OwnerInv, Takes
    PROVE  OwnerInv'
<1>1. PICK c \in DOMAIN records : \E k \in DOMAIN records[c].fields :
        LET leaf == records[c].fields[k] IN
        /\ records[c].status = "alive"
        /\ leaf = Scalar \/ (is_handle(leaf) /\ observe(leaf) /\ leaf.id \notin leased)
        /\ records' = with_field(records, c, k, tombstone(leaf))
        /\ Provenance(handles(<<leaf>>), Top)
  BY DEF Takes
<1>2. PICK at, leaf :
        /\ at \in DOMAIN records[c].fields /\ leaf = records[c].fields[at]
        /\ records[c].status = "alive"
        /\ leaf = Scalar \/ (is_handle(leaf) /\ observe(leaf))
        /\ records' = with_field(records, c, at, tombstone(leaf))
        /\ Provenance(handles(<<leaf>>), Top)
  BY <1>1
<1>3. /\ records \in Seq(ResourceRecord) /\ records[c].fields \in Value /\ leaf \in Leaf
      /\ tombstone(leaf) \in Leaf /\ ~ is_handle(tombstone(leaf))
  <2>1. records[c].fields \in Value
    BY RecordType
  <2> QED
    BY <1>2, <2>1, TombstoneLeaf DEF TypeOK, Value
<1>4. /\ DOMAIN records' = DOMAIN records
      /\ \A j \in DOMAIN records : j # c => records'[j] = records[j]
      /\ \A j \in DOMAIN records : records'[j].generation = records[j].generation
                                   /\ records'[j].status = records[j].status
      /\ records'[c].fields = [records[c].fields EXCEPT ![at] = tombstone(leaf)]
  BY <1>2, <1>3, WithFieldTable
<1>5. Grows
  BY <1>4, RecordType DEF Grows
<1>6. ASSUME NEW j, NEW k, NEW h, HoldsAt(j, k, h)'
      PROVE  HoldsAt(j, k, h) /\ ~ (j = c /\ k = at)
  <2>1. CASE j = c
    BY <1>2, <1>3, <1>4, <1>6, <2>1 DEF HoldsAt
  <2>2. CASE j # c
    BY <1>4, <1>6, <2>2 DEF HoldsAt
  <2> QED
    BY <2>1, <2>2
<1>7. \A j, h : Stores(j, h)' => Stores(j, h)
  <2>1. ASSUME NEW j, NEW h, Stores(j, h)' PROVE Stores(j, h)
    <3>1. CASE j = c
      <4>1. h \in handles(records[c].fields) \cup handles(<<tombstone(leaf)>>)
        BY <1>2, <1>3, <1>4, <2>1, <3>1, EditedHandles DEF Stores
      <4>2. h \in handles(records[c].fields)
        BY <1>3, <4>1, OneHandle
      <4> QED
        BY <3>1, <4>2 DEF Stores
    <3>2. CASE j # c
      BY <1>4, <2>1, <3>2 DEF Stores
    <3> QED
      BY <3>1, <3>2
  <2> QED
    BY <2>1
<1>8. ASSUME is_handle(leaf)
      PROVE  HoldsAt(c, at, leaf) /\ Known(leaf) /\ Known(leaf)' /\ current(leaf)
             /\ FieldOwns(c, leaf.id)
  <2>1. HoldsAt(c, at, leaf)
    BY <1>2, <1>8 DEF HoldsAt
  <2>2. Known(leaf)
    BY <2>1, HoldsStores DEF OwnerInv, HandlesKnown
  <2>3. current(leaf)
    <3>1. leaf # Scalar
      BY <1>8 DEF is_handle
    <3> QED
      BY <1>2, <3>1 DEF observe, record, current
  <2>4. Known(leaf)'
    BY <1>5, <2>2, KnownGrows
  <2> QED
    BY <1>2, <2>1, <2>2, <2>3, <2>4, FieldOwnsAt
<1>9. \A h \in handles(<<leaf>>) : h = leaf /\ is_handle(leaf)
  BY <1>2, <1>3, OneHandle
<1>10. HandlesKnown'
  <2>1. \A h \in handles(<<leaf>>) : Known(h)'
    BY <1>8, <1>9
  <2> QED
    BY <1>2, <1>5, <1>7, <2>1, ProvenanceKnown, KnownGrows DEF OwnerInv, HandlesKnown
<1>11. StoredOnce'
  BY <1>5, <1>6, StoredOnceKept DEF OwnerInv
<1>12. ASSUME NEW j, NEW i, FieldOwns(j, i)'
       PROVE  FieldOwns(j, i) /\ ~ (j = c /\ is_handle(leaf) /\ i = leaf.id)
  <2>1. PICK k, h : HoldsAt(j, k, h)' /\ records'[j].status = "alive" /\ h.id = i /\ current(h)'
    BY <1>12, NextOwnsAt
  <2>2. HoldsAt(j, k, h) /\ current(h) /\ j \in DOMAIN records
    BY <1>5, <1>6, <2>1, HeldBefore DEF OwnerInv, HoldsAt
  <2>3. FieldOwns(j, i)
    BY <1>4, <2>1, <2>2, FieldOwnsAt
  <2>4. ~ (j = c /\ is_handle(leaf) /\ i = leaf.id)
    BY <1>6, <1>8, <2>1, <2>2 DEF OwnerInv, StoredOnce
  <2> QED
    BY <2>3, <2>4
<1>13. ASSUME NEW i \in Alive', NEW p, NEW q, Owns(p, i)', Owns(q, i)' PROVE p = q
  <2>1. i \in Alive
    BY <1>4 DEF Alive
  <2>2. CASE is_handle(leaf) /\ leaf.id = i
    <3>1. Owns(<<"field", c>>, i)
      BY <1>8, <2>2 DEF Owns
    <3>2. \A x : Owns(x, i) => x = <<"field", c>>
      BY <2>1, <3>1 DEF OwnerInv, OneOwner
    <3>3. (\A f : ~ FrameOwns(f, i)) /\ ~ HostOwns(i) /\ \A j : FieldOwns(j, i) => j = c
      BY <3>2 DEF Owns
    <3>4. \A f : FrameOwns(f, i)' => f = Top
      BY <1>2, <1>5, <3>3, FrameOwnsBefore DEF OwnerInv
    <3>5. HostOwns(i)' => Top = 0
      BY <1>2, <1>5, <3>3, HostOwnsBefore DEF OwnerInv
    <3>6. \A j : ~ FieldOwns(j, i)'
      BY <1>12, <2>2, <3>3
    <3> QED
      BY <1>13, <3>4, <3>5, <3>6, OwnerGiven
  <2>3. CASE ~ (is_handle(leaf) /\ leaf.id = i)
    BY <1>2, <1>5, <1>9, <1>12, <1>13, <2>1, <2>3, OwnerKept DEF OwnerInv
  <2> QED
    BY <2>2, <2>3
<1> QED
  BY <1>10, <1>11, <1>13 DEF OwnerInv, OneOwner

\* Putting a transferred leaf back: its only owner is the field it fills.
LEMMA RefillsOwner ==
    ASSUME TypeOK, TypeOK', OwnerInv, Refills
    PROVE  OwnerInv'
<1>1. PICK s \in Value, c \in DOMAIN records : \E k \in DOMAIN records[c].fields :
        /\ plan_transfer(s) /\ Len(s) = 1
        /\ records' = with_field(commit_transfer(s), c, k, rebuilt(s)[1])
        /\ Provenance({}, 0)
  BY DEF Refills
<1>2. PICK at \in DOMAIN records[c].fields :
        records' = with_field(commit_transfer(s), c, at, rebuilt(s)[1])
  BY <1>1
<1> DEFINE M == ids(handles(s))
<1>3. PICK leaf : leaf = rebuilt(s)[1]
  OBVIOUS
<1>4. /\ rebuilt(s) \in Value /\ leaf \in Leaf
      /\ is_handle(leaf) => leaf \in handles(rebuilt(s))
  <2>1. rebuilt(s) \in Value /\ DOMAIN rebuilt(s) = DOMAIN s
    BY RebuiltType
  <2>2. 1 \in DOMAIN s
    BY <1>1 DEF Value
  <2> QED
    BY <1>3, <2>1, <2>2, HandleAt DEF Value
<1>5. /\ commit_transfer(s) \in Seq(ResourceRecord)
      /\ DOMAIN commit_transfer(s) = DOMAIN records
      /\ at \in DOMAIN commit_transfer(s)[c].fields
  BY CommitType, CommitTable DEF TypeOK
<1>6. /\ DOMAIN records' = DOMAIN records
      /\ \A j \in DOMAIN records : j # c => records'[j] = commit_transfer(s)[j]
      /\ \A j \in DOMAIN records : records'[j].generation = commit_transfer(s)[j].generation
                                   /\ records'[j].status = commit_transfer(s)[j].status
      /\ records'[c].fields = [commit_transfer(s)[c].fields EXCEPT ![at] = leaf]
  BY <1>2, <1>3, <1>4, <1>5, WithFieldTable
<1>7. /\ \A i \in DOMAIN records : records[i].generation <= records'[i].generation
      /\ \A h \in handles(rebuilt(s)) :
            /\ h \in Handle /\ h.role = "owner" /\ h.lease = 0
            /\ h.id \in M /\ h.id \in DOMAIN records /\ h.generation = records'[h.id].generation
  BY <1>1, <1>6, CommitGrows
<1>8. /\ \A j \in DOMAIN records : j # c => records'[j].fields = records[j].fields
      /\ \A j \in DOMAIN records : /\ records'[j].status = records[j].status
                                   /\ j \in M => records'[j].generation # records[j].generation
      /\ records'[c].fields = [records[c].fields EXCEPT ![at] = leaf]
  <2>1. PICK recs : recs = commit_transfer(s)
    OBVIOUS
  <2>2. \A j \in DOMAIN records :
          /\ recs[j].status = records[j].status /\ recs[j].fields = records[j].fields
          /\ j \in M => recs[j].generation # records[j].generation
    BY <2>1, CommitTable, RecordType
  <2> HIDE DEF M
  <2> QED
    BY <1>6, <2>1, <2>2
<1>9. Grows
  BY <1>6, <1>7 DEF Grows
<1>10. ASSUME NEW j, NEW k, NEW h, HoldsAt(j, k, h)'
       PROVE  HoldsAt(j, k, h) \/ (j = c /\ k = at /\ h = leaf /\ is_handle(leaf))
  <2>1. CASE j = c
    BY <1>8, <1>10, <2>1 DEF HoldsAt
  <2>2. CASE j # c
    BY <1>6, <1>8, <1>10, <2>2 DEF HoldsAt
  <2> QED
    BY <2>1, <2>2
<1>11. ASSUME is_handle(leaf) PROVE Known(leaf)' /\ leaf.role = "owner" /\ leaf.id \in M
  BY <1>4, <1>6, <1>7, <1>11 DEF Known, Handle
<1>12. HandlesKnown'
  <2>1. ASSUME NEW j, NEW h, Stores(j, h)' PROVE Known(h)' /\ h.role = "owner"
    <3>2. PICK k : HoldsAt(j, k, h)'
      BY <2>1, NextStoresAt
    <3>3. CASE HoldsAt(j, k, h)
      BY <1>9, <3>3, HoldsStores, KnownGrows DEF OwnerInv, HandlesKnown
    <3> QED
      BY <1>10, <1>11, <3>2, <3>3
  <2>2. /\ \A f, h : FrameHas(f, h)' => Known(h)'
        /\ \A h \in host' : Known(h)'
    BY <1>1, <1>9, ProvenanceKnown DEF OwnerInv
  <2> QED
    BY <2>1, <2>2 DEF HandlesKnown
<1>13. ASSUME NEW j, NEW k, NEW h, HoldsAt(j, k, h), current(h)'
       PROVE  current(h) /\ h.id \notin M
  BY <1>8, <1>9, <1>13, HeldBefore DEF OwnerInv
<1>14. StoredOnce'
  <2>1. ASSUME NEW j, NEW k, NEW m, NEW g, NEW h, HoldsAt(j, k, g)', HoldsAt(j, m, h)',
               g.id = h.id, current(g)', current(h)'
        PROVE  k = m
    <3>1. CASE HoldsAt(j, k, g) /\ HoldsAt(j, m, h)
      BY <1>13, <2>1, <3>1 DEF OwnerInv, StoredOnce
    <3>2. CASE ~ HoldsAt(j, k, g)
      BY <1>10, <1>11, <1>13, <2>1, <3>2
    <3>3. CASE ~ HoldsAt(j, m, h)
      BY <1>10, <1>11, <1>13, <2>1, <3>3
    <3> QED
      BY <3>1, <3>2, <3>3
  <2> QED
    BY <2>1 DEF StoredOnce
<1>15. ASSUME NEW j, NEW i, FieldOwns(j, i)'
       PROVE  (FieldOwns(j, i) /\ i \notin M) \/ (j = c /\ i \in M)
  <2>1. PICK k, h : HoldsAt(j, k, h)' /\ records'[j].status = "alive" /\ h.id = i /\ current(h)'
    BY <1>15, NextOwnsAt
  <2>2. CASE HoldsAt(j, k, h)
    <3>1. current(h) /\ i \notin M /\ records[j].status = "alive"
      BY <1>8, <1>13, <2>1, <2>2 DEF HoldsAt
    <3> QED
      BY <2>1, <2>2, <3>1, FieldOwnsAt
  <2> QED
    BY <1>10, <1>11, <2>1, <2>2
<1>16. ASSUME NEW i \in Alive', NEW p, NEW q, Owns(p, i)', Owns(q, i)' PROVE p = q
  <2>1. i \in Alive
    BY <1>6, <1>8 DEF Alive
  <2>2. CASE i \in M
    <3>1. i \in DOMAIN records /\ records'[i].generation # records[i].generation
      BY <1>8, <2>1, <2>2 DEF Alive
    <3>2. (\A f : ~ FrameOwns(f, i)') /\ ~ HostOwns(i)'
      BY <1>1, <1>9, <3>1, FrameOwnsBefore, HostOwnsBefore DEF OwnerInv
    <3>3. \A j : FieldOwns(j, i)' => j = c
      BY <1>15, <2>2
    <3> QED
      BY <1>16, <3>2, <3>3, OwnerStored
  <2>3. CASE i \notin M
    BY <1>1, <1>9, <1>15, <1>16, <2>1, <2>3, OwnerKept DEF OwnerInv
  <2> QED
    BY <2>2, <2>3
<1> QED
  BY <1>12, <1>14, <1>16 DEF OwnerInv, OneOwner

-----------------------------------------------------------------------------
(***************************************************************************)
(* Every step is one of the six.                                           *)
(***************************************************************************)

\* A handle the running frame may be given by an operation.
Given(h, new, dest) ==
    \/ FrameHas(Top, h)
    \/ Known(h) /\ h.role = "observer" /\ Viewed(h)
    \/ dest = Top /\ h \in new

\* An instruction that rewrites values of the running frame.
LEMMA FrameProvenance ==
    ASSUME TypeOK, frames # <<>>, NEW g \in [Vals -> Value], vals' = [vals EXCEPT ![Top] = g],
           host' = host, NEW new, NEW dest,
           \A v \in Vals : \A h \in handles(g[v]) : Given(h, new, dest)
    PROVE  Provenance(new, dest)
<1>1. vals \in Seq([Vals -> Value]) /\ Top \in DOMAIN vals
  BY TopFrame DEF TypeOK
<1>2. ASSUME NEW f \in DOMAIN vals', NEW v \in Vals, NEW h \in handles(vals'[f][v])
      PROVE  \/ FrameHas(f, h)
             \/ Known(h) /\ h.role = "observer" /\ Viewed(h)
             \/ f = dest /\ h \in new
  <2>1. f \in DOMAIN vals
    BY <1>1
  <2>2. CASE f = Top
    BY <1>1, <1>2, <2>2 DEF Given
  <2>3. CASE f # Top
    BY <1>1, <1>2, <2>1, <2>3 DEF FrameHas
  <2> QED
    BY <2>2, <2>3
<1> QED
  BY <1>2 DEF Provenance

\* What the running frame holds already.
LEMMA TopHas ==
    ASSUME TypeOK, frames # <<>>, NEW v \in Vals, NEW h \in handles(V(v))
    PROVE  FrameHas(Top, h)
BY TopFrame DEF FrameHas, V

\* An instruction that writes one value.
LEMMA InsertProvenance ==
    ASSUME TypeOK, frames # <<>>, NEW v \in Vals, NEW s \in Value, Insert(v, s),
           host' = host, NEW new, NEW dest, \A h \in handles(s) : Given(h, new, dest)
    PROVE  Provenance(new, dest)
<1> DEFINE g == [vals[Top] EXCEPT ![v] = s]
<1>1. vals[Top] \in [Vals -> Value] /\ Top \in DOMAIN vals
  BY TopFrame
<1>2. g \in [Vals -> Value] /\ vals' = [vals EXCEPT ![Top] = g]
  BY <1>1 DEF Insert
<1>3. ASSUME NEW u \in Vals, NEW h \in handles(g[u]) PROVE Given(h, new, dest)
  <2>1. CASE u = v
    BY <1>1, <1>3, <2>1
  <2>2. CASE u # v
    <3>1. g[u] = V(u)
      BY <1>1, <2>2 DEF V
    <3> QED
      BY <1>3, <3>1, TopHas DEF Given
  <2> QED
    BY <2>1, <2>2
<1> HIDE DEF g
<1> QED
  BY <1>2, <1>3, FrameProvenance

\* A step that leaves every value where it is.
LEMMA StillProvenance ==
    ASSUME vals' = vals, host' = host, NEW new, NEW dest
    PROVE  Provenance(new, dest)
BY DEF Provenance, FrameHas

\* An instruction that returns Err.
LEMMA RefuseKind ==
    ASSUME Refuse PROVE Reads
BY StillProvenance DEF Refuse, Reads

\* The leaf at the end of a path of two or more steps is a field of a live
\* resource, and a stored handle.
LEMMA LeafStored ==
    ASSUME TypeOK, NEW s \in Value, NEW p \in Seq(Nat \ {0}), Len(p) > 1, leaf_at(s, p) # Absent
    PROVE  LET c == container(s, p) IN
           /\ is_handle(c) /\ observe(c) /\ c.id \in DOMAIN records
           /\ records[c.id].status = "alive"
           /\ Last(p) \in DOMAIN records[c.id].fields
           /\ leaf_at(s, p) = records[c.id].fields[Last(p)]
           /\ is_handle(leaf_at(s, p)) => HoldsAt(c.id, Last(p), leaf_at(s, p))
<1> DEFINE c == container(s, p)
<1>1. leaf_at(s, p) = hop(c, Last(p))
  BY DEF leaf_at
<1> HIDE DEF c
<1>2. is_handle(c) /\ observe(c) /\ Last(p) \in DOMAIN fields(c) /\ leaf_at(s, p) = fields(c)[Last(p)]
  BY <1>1 DEF hop
<1>3. c.id \in DOMAIN records /\ records[c.id].status = "alive"
  BY <1>2 DEF observe, record
<1> QED
  BY <1>2, <1>3 DEF c, fields, HoldsAt

\* A path is empty, has one step or more.
LEMMA PathLength ==
    ASSUME NEW S, NEW p \in Seq(S)
    PROVE  /\ p # <<>> => Len(p) = 1 \/ Len(p) > 1
           /\ Len(p) = 1 => p # <<>>
           /\ Len(p) > 1 => p # <<>> /\ Len(p) # 1
           /\ Len(p) \in Nat
<1>1. PICK n : n = Len(p) /\ n \in Nat
  OBVIOUS
<1>2. (n = 0 <=> p = <<>>) /\ (n # 0 => n = 1 \/ n > 1) /\ (n = 1 => n # 0)
      /\ (n > 1 => n # 0 /\ n # 1)
  BY <1>1
<1> QED
  BY <1>1, <1>2

\* What is seen at a place of the running frame is known.
LEMMA SeenKnown ==
    ASSUME TypeOK, HandlesKnown, frames # <<>>, NEW v \in Vals, NEW p \in Paths,
           place_exists(V(v), p), NEW h \in handles(observe_projections(V(v), p))
    PROVE  h.id \in DOMAIN records /\ h.generation <= records[h.id].generation
<1> DEFINE s == V(v)
           leaf == leaf_at(s, p)
<1>1. s \in Value /\ p \in Seq(Nat \ {0}) /\ Len(p) \in Nat
  BY TopFrame, BoundAssumption
<1>2. \A g \in handles(s) : g.id \in DOMAIN records /\ g.generation <= records[g.id].generation
  BY TopHas DEF HandlesKnown, Known
<1>3. CASE p = <<>>
  BY <1>2, <1>3 DEF observe_projections
<1>4. CASE p # <<>>
  <2>1. p[1] \in DOMAIN s /\ leaf # Absent /\ leaf \in Leaf
    BY <1>1, <1>4, LeafAtType DEF place_exists, TypeOK
  <2>2. CASE Len(p) = 1
    <3>1. leaf = s[p[1]] /\ observe_projections(s, p) = <<leaf>>
      BY <1>4, <2>1, <2>2 DEF leaf_at, observe_projections
    <3>2. h = leaf /\ is_handle(leaf)
      BY <2>1, <3>1, OneHandle
    <3>3. h \in handles(s)
      BY <1>1, <2>1, <3>1, <3>2, HandleAt
    <3> QED
      BY <1>2, <3>3
  <2>3. CASE Len(p) # 1
    <3> DEFINE seen == seen_through(s[p[1]], leaf)
    <3>0. p \in Seq(Nat \ {0}) /\ p # <<>>
      BY <1>1, <1>4
    <3>1. Len(p) > 1
      BY <2>3, <3>0, PathLength
    <3>2. observe_projections(s, p) = <<seen>>
      BY <1>4, <2>3 DEF observe_projections
    <3>3. h = seen /\ is_handle(seen)
      BY <3>2 DEF handles
    <3>4. is_handle(leaf)
      BY <3>3 DEF seen_through
    <3>5. HoldsAt(container(s, p).id, Last(p), leaf)
      BY <1>1, <2>1, <3>1, <3>4, LeafStored
    <3>6. Known(leaf)
      BY <3>5, HoldsStores DEF HandlesKnown
    <3>7. leaf \in Handle
      BY <2>1, <3>4, HandleLeaf
    <3>8. seen.id = leaf.id /\ seen.generation = leaf.generation
      BY <3>7 DEF seen_through, Handle
    <3> QED
      BY <3>3, <3>6, <3>8 DEF Known
  <2> QED
    BY <2>2, <2>3
<1> QED
  BY <1>3, <1>4

\* An observable handle of the running frame shows what its lease sees.
LEMMA ShownViewed ==
    ASSUME NEW h, FrameHas(Top, h), observe(h)
    PROVE  Viewed(h)
BY DEF Viewed, observe, record, Alive, current

\* So does what can be observed at a place of the running frame.
LEMMA SeenViewed ==
    ASSUME TypeOK, HandlesKnown, frames # <<>>, NEW v \in Vals, NEW p \in Paths,
           place_exists(V(v), p), NEW h \in handles(observe_projections(V(v), p)), observe(h)
    PROVE  Viewed(h)
<1> DEFINE s == V(v)
           leaf == leaf_at(s, p)
<1>1. s \in Value /\ p \in Seq(Nat \ {0}) /\ Len(p) \in Nat
  BY TopFrame, BoundAssumption
<1>2. \A g \in handles(s) : FrameHas(Top, g) /\ g \in Handle
  BY <1>1, TopHas, HandleAt
<1>3. CASE p = <<>>
  BY <1>2, <1>3, ShownViewed DEF observe_projections
<1>4. CASE p # <<>>
  <2>1. p[1] \in DOMAIN s /\ leaf # Absent /\ leaf \in Leaf
    BY <1>1, <1>4, LeafAtType DEF place_exists, TypeOK
  <2>2. CASE Len(p) = 1
    <3>1. leaf = s[p[1]] /\ observe_projections(s, p) = <<leaf>>
      BY <1>4, <2>1, <2>2 DEF leaf_at, observe_projections
    <3>2. h = leaf /\ is_handle(leaf)
      BY <2>1, <3>1, OneHandle
    <3>3. h \in handles(s)
      BY <1>1, <2>1, <3>1, <3>2, HandleAt
    <3> QED
      BY <1>2, <3>3, ShownViewed
  <2>3. CASE Len(p) # 1
    <3> DEFINE root == s[p[1]]
               seen == seen_through(root, leaf)
               c == container(s, p)
    <3>1. Len(p) > 1
      BY <1>1, <1>4, <2>3, PathLength
    <3>2. h = seen /\ is_handle(seen)
      BY <1>4, <2>3 DEF observe_projections, handles
    <3>3. is_handle(leaf) /\ leaf \in Handle
      BY <2>1, <3>2, HandleLeaf DEF seen_through
    <3>4. HoldsAt(c.id, Last(p), leaf) /\ is_handle(c)
      BY <1>1, <2>1, <3>1, <3>3, LeafStored
    <3>5. leaf.lease = 0
      BY <3>4, HoldsStores DEF HandlesKnown, Known
    <3>6. h.id = leaf.id
      BY <3>2, <3>3 DEF seen_through, Handle
    <3>7. SUFFICES ASSUME h.lease # 0 PROVE Viewed(h)
      BY DEF Viewed
    <3>8. is_handle(root) /\ h.lease = root.lease
      BY <3>2, <3>3, <3>5, <3>7 DEF seen_through, Handle
    <3>9. root \in handles(s)
      BY <1>1, <2>1, <3>8, HandleAt
    <3>10. ASSUME NEW closed, Closed(closed), root.id \in closed PROVE h.id \in closed
      <4> DEFINE G == {g \in Handle : g.id \in closed}
      <4>1. ASSUME NEW g \in G, observe(g) PROVE children(g) \subseteq G
        <5>1. g.id \in DOMAIN records /\ g.id \in closed
          BY <3>10 DEF Closed
        <5>2. records[g.id].fields \in Value
          BY <5>1, RecordType
        <5>3. \A x \in handles(records[g.id].fields) : x \in Handle /\ x.id \in closed
          BY <3>10, <5>1, <5>2, HandleAt DEF Closed
        <5> QED
          BY <5>3 DEF children, fields
      <4>2. root \in G
        BY <1>2, <3>9, <3>10
      <4>3. c \in G
        <5> HIDE DEF G, s
        <5> QED
          BY <1>1, <3>1, <3>4, <4>1, <4>2, WalkStays
      <4>4. c.id \in closed
        BY <4>3
      <4> HIDE DEF c, leaf
      <4>5. /\ Last(p) \in DOMAIN records[c.id].fields
            /\ records[c.id].fields[Last(p)] = leaf /\ is_handle(leaf)
        BY <3>4 DEF HoldsAt
      <4>6. leaf.id \in closed
        BY <3>10, <4>4, <4>5 DEF Closed
      <4> QED
        BY <3>6, <4>6
    <3> HIDE DEF root
    <3>11. FrameHas(Top, root)
      BY <1>2, <3>9
    <3>12. h.id \in Alive /\ current(h)
      BY DEF observe, record, Alive, current
    <3> QED
      BY <3>8, <3>10, <3>11, <3>12 DEF Viewed
  <2> QED
    BY <2>2, <2>3
<1> QED
  BY <1>3, <1>4

\* An observing view of what its leases see.
LEMMA ViewGiven ==
    ASSUME NEW s \in Value, NEW new, NEW dest, NEW h \in handles(to_observing_view(s)),
           \A g \in handles(s) : /\ g.id \in DOMAIN records /\ Viewed(g)
                                 /\ g.generation <= records[g.id].generation
    PROVE  Known(h) /\ h.role = "observer" /\ Viewed(h) /\ Given(h, new, dest)
<1>1. h \in Handle /\ h.role = "observer"
  BY ViewHandles
<1>2. PICK g \in handles(s) : h.id = g.id /\ h.generation = g.generation /\ h.lease = g.lease
  BY ViewLease
<1>3. Viewed(h)
  BY <1>2 DEF Viewed, current
<1> QED
  BY <1>1, <1>2, <1>3 DEF Given, Known

\* One of the six.
Kind == Reads \/ Transfers \/ Creates \/ Drops \/ Takes \/ Refills

\* A transfer into a value of the running frame.
LEMMA TransferKind ==
    ASSUME TypeOK, frames # <<>>, NEW v \in Vals, NEW s \in Value, plan_transfer(s),
           \A h \in handles(s) : FrameHas(Top, h),
           records' = commit_transfer(s), Insert(v, rebuilt(s)), OnlyTable
    PROVE  Transfers
<1>1. rebuilt(s) \in Value /\ Top \in Nat
  BY RebuiltType DEF TypeOK, Top
<1>2. host' = host
  BY DEF OnlyTable
<1>3. Provenance(handles(rebuilt(s)), Top)
  BY <1>1, <1>2, InsertProvenance DEF Given
<1> QED
  BY <1>1, <1>3 DEF Transfers

\* What a construction is given is in the running frame.
LEMMA ConcatHas ==
    ASSUME TypeOK, frames # <<>>, NEW args \in Args(2), NEW h \in handles(Concat(args))
    PROVE  FrameHas(Top, h)
<1>1. PICK k \in 0..2 : args \in [1..k -> Vals]
  BY DEF Args
<1>2. /\ args \in Seq(Vals) /\ Len(args) = k
      /\ \A i \in 1..k : args[i] \in Vals /\ V(args[i]) \in Value
  <2>1. \A v \in Vals : V(v) \in Value
    BY TopFrame
  <2>2. args \in Seq(Vals) /\ Len(args) = k
    BY <1>1
  <2> QED
    BY <1>1, <2>1, <2>2
<1>3. CASE k = 0
  BY <1>2, <1>3 DEF Concat, handles
<1>4. CASE k = 1
  BY <1>2, <1>4, TopHas DEF Concat
<1>5. CASE k = 2
  <2>1. Concat(args) = V(args[1]) \o V(args[2])
    BY <1>2, <1>5 DEF Concat
  <2>2. args[1] \in Vals /\ args[2] \in Vals /\ V(args[1]) \in Value /\ V(args[2]) \in Value
    BY <1>2, <1>5
  <2>3. h \in handles(V(args[1])) \cup handles(V(args[2]))
    BY <2>1, <2>2, JoinedHandles
  <2> QED
    BY <2>2, <2>3, TopHas
<1> QED
  BY <1>3, <1>4, <1>5

\* RecordCreate of a resource.
LEMMA ResourceCreateKind ==
    ASSUME TypeOK, frames # <<>>, NEW v \in Vals, NEW args \in Args(2), ResourceCreate(v, args)
    PROVE  Kind
<1> DEFINE s == Concat(args)
<1>1. s \in Value
  BY ConcatType
<1>2. CASE Refuse
  BY <1>2, RefuseKind DEF Kind
<1>3. CASE /\ plan_transfer(s) /\ records' = Append(commit_transfer(s), new_record(s))
           /\ Insert(v, <<new_handle>>) /\ OnlyTable
  <2>1. new_handle \in Leaf
    BY DEF TypeOK, new_handle, Handle, Leaf
  <2>2. <<new_handle>> \in Value /\ \A h \in handles(<<new_handle>>) : h = new_handle
    BY <2>1, OneHandle
  <2>3. host' = host
    BY <1>3 DEF OnlyTable
  <2>4. Provenance({new_handle}, Top)
    BY <1>3, <2>2, <2>3, InsertProvenance DEF Given
  <2>5. \A h \in handles(s) : FrameHas(Top, h)
    BY ConcatHas
  <2> HIDE DEF s
  <2> QED
    BY <1>1, <1>3, <2>4, <2>5 DEF Creates, Kind
<1> QED
  BY <1>2, <1>3 DEF ResourceCreate, Attempt, new_record, new_handle

\* An observing read.
LEMMA ReadViewKind ==
    ASSUME TypeOK, HandlesKnown, frames # <<>>, NEW v \in Vals, NEW u \in Vals, NEW p \in Paths,
           read_view(v, V(u), p)
    PROVE  Kind
<1> DEFINE seen == observe_projections(V(u), p)
<1>1. CASE Refuse
  BY <1>1, RefuseKind DEF Kind
<1>2. CASE /\ place_exists(V(u), p) /\ \A h \in handles(seen) : observe(h)
           /\ Insert(v, to_observing_view(seen)) /\ OnlyVals
  <2>1. V(u) \in Value /\ records \in Seq(ResourceRecord)
    BY TopFrame DEF TypeOK
  <2>2. seen \in Value
    BY <1>2, <2>1, ObserveProjectionsType, BoundAssumption
  <2>3. to_observing_view(seen) \in Value
    BY <2>2, RebuiltType
  <2>4. \A h \in handles(seen) : /\ h.id \in DOMAIN records /\ Viewed(h)
                                 /\ h.generation <= records[h.id].generation
    BY <1>2, SeenKnown, SeenViewed
  <2>5. \A h \in handles(to_observing_view(seen)) : Given(h, {}, 0)
    <3> HIDE DEF seen
    <3> QED
      BY <2>2, <2>4, ViewGiven
  <2>6. host' = host /\ records' = records
    BY <1>2 DEF OnlyVals
  <2> HIDE DEF seen
  <2> QED
    BY <1>2, <2>3, <2>5, <2>6, InsertProvenance DEF Reads, Kind
<1> QED
  BY <1>1, <1>2 DEF read_view, Attempt

\* A path through owners of the running frame leads to nothing that is sealed
\* from it.
LEMMA OutOfReach ==
    ASSUME TypeOK, HandlesKnown, frames # <<>>, NEW r \in Vals, NEW p \in Seq(Nat \ {0}), Len(p) > 1,
           owning_path(V(r), p), NEW P, Sealed(Top, P)
    PROVE  container(V(r), p).id \notin P
<1> DEFINE s == V(r)
           c == container(s, p)
           G == {h \in Handle : observe(h) => h.id \notin P}
<1>1. s \in Value /\ Top \in Nat /\ Len(p) \in Nat
  BY TopFrame DEF TypeOK, Top
<1>2. ASSUME NEW h \in G, observe(h) PROVE children(h) \subseteq G
  <2>1. h.id \in DOMAIN records /\ records[h.id].status = "alive" /\ h.id \notin P
    BY <1>2 DEF observe, record
  <2>2. records[h.id].fields \in Value
    BY <2>1, RecordType
  <2>3. ASSUME NEW g \in handles(records[h.id].fields), observe(g), g.id \in P PROVE FALSE
    <3>1. FieldOwns(h.id, g.id)
      BY <2>1, <2>3 DEF FieldOwns, Stores, observe, record, current
    <3> QED
      BY <2>1, <2>3, <3>1 DEF Sealed
  <2> QED
    BY <2>2, <2>3, HandleAt DEF children, fields
<1>3. ASSUME p[1] \in DOMAIN s, is_handle(s[p[1]]) PROVE s[p[1]] \in G
  <2>1. PICK h : h = s[p[1]]
    OBVIOUS
  <2>2. h \in handles(s) /\ h \in Handle
    BY <1>1, <1>3, <2>1, HandleAt
  <2>3. h.role = "owner"
    <3>1. SubSeq(p, 1, 1) \in Seq(Nat \ {0}) /\ Len(SubSeq(p, 1, 1)) = 1 /\ SubSeq(p, 1, 1)[1] = p[1]
      BY <1>1
    <3>2. leaf_at(s, SubSeq(p, 1, 1)) = h
      BY <1>3, <2>1, <3>1 DEF leaf_at
    <3>3. 1 \in 1..(Len(p) - 1)
      BY <1>1
    <3> QED
      BY <3>2, <3>3 DEF owning_path
  <2>4. FrameHas(Top, h)
    BY <2>2, TopHas
  <2>5. observe(h) => FrameOwns(Top, h.id)
    BY <2>3, <2>4 DEF FrameOwns, observe, record, current
  <2> QED
    BY <1>1, <2>1, <2>2, <2>5 DEF Sealed
<1>4. is_handle(c) /\ observe(c)
  BY DEF owning_path
<1>5. c \in G
  <2> HIDE DEF G, s
  <2> QED
    BY <1>1, <1>2, <1>3, <1>4, WalkStays
<1> QED
  BY <1>4, <1>5

\* PlaceRead with OwnershipMode::Transfer: out of a value or out of a field.
LEMMA PlaceReadTransferKind ==
    ASSUME TypeOK, HandlesKnown, frames # <<>>, NEW v \in Vals, NEW root \in Vals, NEW p \in Paths,
           PlaceReadTransfer(v, root, p)
    PROVE  Kind
<1> DEFINE r == canonical_root(root)
           s == V(r)
           leaf == leaf_at(s, p)
           c == container(s, p)
<1>1. /\ r \in Vals /\ s \in Value /\ records \in Seq(ResourceRecord)
      /\ p \in Seq(Nat \ {0}) /\ Len(p) \in Nat
  BY TopFrame, BoundAssumption DEF TypeOK
<1>0. (Len(p) = 1 => p # <<>>) /\ (Len(p) > 1 => p # <<>> /\ Len(p) # 1)
  BY <1>1, PathLength
<1>2. CASE Refuse
  BY <1>2, RefuseKind DEF Kind
<1>3. CASE p = <<>> /\ Insert(v, s) /\ UNCHANGED records /\ OnlyTable
  <2>1. host' = host
    BY <1>3 DEF OnlyTable
  <2>2. \A h \in handles(s) : Given(h, {}, 0)
    BY <1>1, TopHas DEF Given
  <2>3. Provenance({}, 0)
    BY <1>1, <1>3, <2>1, <2>2, InsertProvenance
  <2> QED
    BY <1>3, <2>3 DEF Reads, Kind
<1>4. CASE /\ Len(p) = 1 /\ place_exists(s, p)
           /\ vals' = [vals EXCEPT ![Top][r][p[1]] = tombstone(leaf), ![Top][v] = <<leaf>>]
           /\ UNCHANGED records /\ OnlyTable
  <2> DEFINE s2 == [s EXCEPT ![p[1]] = tombstone(leaf)]
             f2 == [vals[Top] EXCEPT ![r] = s2]
             f3 == [f2 EXCEPT ![v] = <<leaf>>]
  <2>0. p # <<>>
    BY <1>0, <1>4
  <2>1. p[1] \in DOMAIN s /\ leaf = s[p[1]] /\ leaf \in Leaf
    BY <1>1, <1>4, <2>0 DEF place_exists, leaf_at, Value
  <2>2. tombstone(leaf) \in Leaf /\ ~ is_handle(tombstone(leaf))
    BY TombstoneLeaf
  <2>3. s2 \in Value /\ <<leaf>> \in Value
    BY <1>1, <2>1, <2>2, SetLeafType, OneHandle
  <2>4. \A h \in handles(s2) \cup handles(<<leaf>>) : h \in handles(s)
    <3>1. \A h \in handles(<<tombstone(leaf)>>) : FALSE
      BY <2>2, OneHandle
    <3>2. \A h \in handles(<<leaf>>) : h \in handles(s)
      BY <1>1, <2>1, OneHandle, HandleAt
    <3> HIDE DEF leaf, s
    <3> QED
      BY <1>1, <2>1, <2>2, <3>1, <3>2, EditedHandles
  <2>5. vals[Top] \in [Vals -> Value] /\ Top \in DOMAIN vals
    BY TopFrame
  <2>6. f3 \in [Vals -> Value] /\ vals' = [vals EXCEPT ![Top] = f3]
    BY <1>1, <1>4, <2>1, <2>3, <2>5 DEF V
  <2>7. ASSUME NEW u \in Vals, NEW h \in handles(f3[u]) PROVE Given(h, {}, 0)
    <3>1. f3[u] \in {s2, <<leaf>>, V(u)}
      BY <1>1, <2>5 DEF V
    <3> HIDE DEF f3, s2, leaf, s
    <3>2. \E w \in Vals : h \in handles(V(w))
      BY <1>1, <2>4, <2>7, <3>1 DEF s
    <3> QED
      BY <3>2, TopHas DEF Given
  <2>8. host' = host
    BY <1>4 DEF OnlyTable
  <2> HIDE DEF f3
  <2>9. Provenance({}, 0)
    BY <2>6, <2>7, <2>8, FrameProvenance
  <2> QED
    BY <1>4, <2>9 DEF Reads, Kind
<1>5. CASE /\ Len(p) > 1 /\ owning_path(s, p) /\ place_exists(s, p) /\ verified_take(r, p)
           /\ reject_leased(observe_projections(s, p)) /\ ~ is_tombstone(leaf)
           /\ records' = with_field(records, c.id, Last(p), tombstone(leaf))
           /\ Insert(v, <<leaf>>) \/ UNCHANGED vals
           /\ host' = host
  <2> DEFINE seen == seen_through(s[p[1]], leaf)
  <2>0. p # <<>> /\ Len(p) # 1
    BY <1>0, <1>5
  <2>1. /\ p[1] \in DOMAIN s /\ leaf # Absent /\ leaf \in Leaf
        /\ is_handle(leaf) => observe(leaf)
    BY <1>1, <1>5, <2>0, LeafAtType DEF place_exists
  <2>2. /\ c.id \in DOMAIN records /\ records[c.id].status = "alive"
        /\ Last(p) \in DOMAIN records[c.id].fields
        /\ leaf = records[c.id].fields[Last(p)]
    BY <1>1, <1>5, <2>1, LeafStored
  <2>3. observe_projections(s, p) = <<seen>>
    BY <2>0 DEF observe_projections
  <2>4. ASSUME is_handle(leaf) PROVE leaf.id \notin leased
    <3>1. leaf \in Handle
      BY <2>1, <2>4, HandleLeaf
    <3>2. seen.id = leaf.id
      BY <3>1 DEF seen_through, Handle
    <3>3. is_handle(seen)
      <4>1. s[p[1]] \in Leaf
        BY <1>1, <2>1 DEF Value
      <4>2. is_handle(s[p[1]]) => s[p[1]] \in Handle
        BY <4>1, HandleLeaf
      <4>3. seen \in Handle
        BY <3>1, <4>2 DEF seen_through, Handle
      <4> QED
        BY <4>3, HandleLeaf DEF Leaf
    <3> HIDE DEF seen
    <3>4. seen \in handles(<<seen>>)
      BY <3>3 DEF handles
    <3>5. seen.id \in identities(<<seen>>)
      BY <3>4 DEF identities, ids, collect_reachable
    <3> QED
      BY <1>5, <2>3, <3>2, <3>5 DEF reject_leased
  <2>5. Verified => leaf # Scalar
    <3>1. ASSUME leaf = Scalar PROVE seen = Scalar
      BY <3>1 DEF seen_through, is_handle
    <3> QED
      BY <1>5, <2>0, <2>3, <3>1 DEF verified_take
  <2>6. leaf = Scalar \/ (is_handle(leaf) /\ observe(leaf) /\ leaf.id \notin leased)
    BY <1>5, <2>1, <2>4 DEF is_tombstone, is_handle
  <2>7. <<leaf>> \in Value
    BY <2>1, OneHandle
  <2>8. ASSUME Insert(v, <<leaf>>) PROVE Provenance(handles(<<leaf>>), Top)
    BY <1>5, <2>7, <2>8, InsertProvenance DEF Given
  <2>9. Provenance(handles(<<leaf>>), Top)
    BY <1>5, <2>8, StillProvenance
  <2>11. ASSUME NEW P, Sealed(Top, P) PROVE c.id \notin P
    BY <1>1, <1>5, <2>11, OutOfReach
  <2> HIDE DEF c
  <2>10. Takes
    <3>1. PICK i, k : i = c.id /\ k = Last(p)
      OBVIOUS
    <3>2. i \in DOMAIN records /\ k \in DOMAIN records[i].fields /\ records[i].fields[k] = leaf
      BY <2>2, <3>1
    <3> HIDE DEF leaf
    <3> QED
      BY <1>5, <2>2, <2>5, <2>6, <2>9, <2>11, <3>1, <3>2 DEF Takes
  <2> QED
    BY <2>10 DEF Kind
<1>6. CASE /\ Len(p) = 1 /\ place_exists(s, p) /\ take_refused(r, p)
  <2> DEFINE s2 == [s EXCEPT ![p[1]] = tombstone(leaf)]
  <2>1. p # <<>> /\ ~ (Len(p) > 1)
    BY <1>0, <1>6
  <2>2. p[1] \in DOMAIN s /\ leaf = s[p[1]] /\ leaf \in Leaf
    BY <1>1, <1>6, <2>1 DEF place_exists, leaf_at, Value
  <2>3. tombstone(leaf) \in Leaf /\ ~ is_handle(tombstone(leaf))
    BY TombstoneLeaf
  <2>4. s2 \in Value
    BY <1>1, <2>2, <2>3, SetLeafType
  <2>5. \A h \in handles(s2) : h \in handles(s)
    <3>1. \A h \in handles(<<tombstone(leaf)>>) : FALSE
      BY <2>3, OneHandle
    <3> HIDE DEF leaf, s
    <3> QED
      BY <1>1, <2>2, <2>3, <3>1, EditedHandles
  <2>6. Insert(r, s2) /\ records' = records /\ host' = host
    BY <1>6, <2>1 DEF take_refused, Insert
  <2>7. \A h \in handles(s2) : Given(h, {}, 0)
    BY <1>1, <2>5, TopHas DEF Given
  <2> HIDE DEF s2
  <2>8. Provenance({}, 0)
    BY <1>1, <2>4, <2>6, <2>7, InsertProvenance
  <2> QED
    BY <2>6, <2>8 DEF Reads, Kind
<1>7. CASE /\ place_exists(s, p) /\ verified_take(r, p)
           /\ reject_leased(observe_projections(s, p))
           /\ p # <<>> => owning_path(s, p) /\ ~ is_tombstone(leaf)
           /\ take_projections(v, r, p) \/ take_refused(r, p)
  <2>1. CASE p = <<>>
    BY <1>0, <1>3, <1>7, <2>1 DEF take_projections, take_refused
  <2>2. CASE Len(p) = 1
    BY <1>0, <1>4, <1>6, <1>7, <2>2 DEF take_projections
  <2>3. CASE Len(p) > 1
    BY <1>0, <1>5, <1>7, <2>3 DEF take_projections, take_refused, OnlyTable
  <2> QED
    BY <1>7, <2>1, <2>2, <2>3 DEF take_projections, take_refused
<1> QED
  BY <1>1, <1>2, <1>7 DEF PlaceReadTransfer, Attempt

\* DecomposeVariant leaves tombstones and gives nothing.
LEMMA DecomposeKind ==
    ASSUME TypeOK, frames # <<>>, NEW base \in Vals, NEW taken, DecomposeVariant(base, taken)
    PROVE  Kind
<1> DEFINE r == canonical_root(base)
           s == V(r)
           s2 == [i \in DOMAIN s |->
                    IF \E t \in taken : t[1] = i THEN tombstone(s[i]) ELSE s[i]]
<1>1. r \in Vals /\ s \in Value
  BY TopFrame
<1>2. s2 \in Value /\ \A h \in handles(s2) : h \in handles(s)
  <2>1. Len(s) \in Nat /\ DOMAIN s = 1..Len(s) /\ \A i \in DOMAIN s : s[i] \in Leaf
    BY <1>1 DEF Value
  <2>2. \A i \in DOMAIN s : tombstone(s[i]) \in Leaf /\ ~ is_handle(tombstone(s[i]))
    BY TombstoneLeaf
  <2>3. s2 \in [1..Len(s) -> Leaf]
    BY <2>1, <2>2
  <2>4. s2 \in Value
    BY <2>1, <2>3 DEF Value
  <2>5. ASSUME NEW h \in handles(s2) PROVE h \in handles(s)
    <3>1. PICK i \in DOMAIN s2 : s2[i] = h /\ is_handle(h)
      BY <2>4, <2>5, HandleAt
    <3>2. i \in DOMAIN s /\ h = s[i]
      BY <2>2, <3>1
    <3> QED
      BY <1>1, <3>1, <3>2, HandleAt
  <2> QED
    BY <2>4, <2>5
<1>3. CASE Refuse
  BY <1>3, RefuseKind DEF Kind
<1>4. CASE Insert(r, s2) /\ OnlyVals
  <2>1. host' = host /\ records' = records
    BY <1>4 DEF OnlyVals
  <2>2. \A h \in handles(s2) : Given(h, {}, 0)
    BY <1>1, <1>2, TopHas DEF Given
  <2> HIDE DEF s2
  <2>3. Provenance({}, 0)
    BY <1>1, <1>2, <1>4, <2>1, <2>2, InsertProvenance
  <2> QED
    BY <2>1, <2>3 DEF Reads, Kind
<1> QED
  BY <1>3, <1>4 DEF DecomposeVariant, Attempt

\* Drop destroys and gives nothing.
LEMMA DropKind ==
    ASSUME TypeOK, frames # <<>>, NEW v \in Vals, Drop(v)
    PROVE  Kind
<1> DEFINE s == V(v)
<1>1. CASE Refuse
  BY <1>1, RefuseKind DEF Kind
<1>2. CASE /\ reject_leased(s) /\ plan_drop(s)
           /\ records' = [i \in DOMAIN records |->
                             IF i \in identities(s)
                             THEN [records[i] EXCEPT !.status = "dropped"]
                             ELSE records[i]]
           /\ Insert(v, <<Absent>>) /\ OnlyTable
  <2>1. s \in Value
    BY TopFrame
  <2>2. Absent \in Leaf /\ ~ is_handle(Absent)
    BY DEF Leaf, is_handle
  <2>3. <<Absent>> \in Value /\ \A h \in handles(<<Absent>>) : FALSE
    BY <2>2, OneHandle
  <2>4. host' = host
    BY <1>2 DEF OnlyTable
  <2>5. Provenance({}, 0)
    BY <1>2, <2>3, <2>4, InsertProvenance
  <2>6. \A h \in handles(s) : FrameHas(Top, h)
    BY TopHas
  <2> HIDE DEF s
  <2> QED
    BY <1>2, <2>1, <2>5, <2>6 DEF Drops, Kind
<1> QED
  BY <1>1, <1>2 DEF Drop, Attempt

\* StorePlace: into a value it is a transfer, into a field it refills.
LEMMA StorePlaceKind ==
    ASSUME TypeOK, frames # <<>>, NEW root \in Vals, NEW src \in Vals, NEW p \in Paths,
           StorePlace(root, p, src)
    PROVE  Kind
<1> DEFINE r == canonical_root(root)
           q == canonical_root(src)
           s == V(src)
           d == V(r)
           leaf == rebuilt(s)[1]
           c == container(d, p)
           f1 == [vals[Top] EXCEPT ![r] = [d EXCEPT ![p[1]] = leaf]]
           Empty(f) == [[f EXCEPT ![src] = <<Moved>>] EXCEPT ![q] = <<Moved>>]
<1>1. /\ r \in Vals /\ q \in Vals /\ s \in Value /\ d \in Value
      /\ records \in Seq(ResourceRecord) /\ vals \in Seq([Vals -> Value])
      /\ Top \in DOMAIN vals /\ vals[Top] \in [Vals -> Value] /\ Top \in Nat
      /\ p \in Seq(Nat \ {0}) /\ Len(p) \in Nat
  BY TopFrame, BoundAssumption DEF TypeOK, Top
<1>2. Len(s) = 1 /\ p # <<>> /\ (s[1] = Scalar <=> leaf_at(d, p) \in {Hole, Scalar})
      /\ verified_store(r, src)
  BY DEF StorePlace
<1>3. /\ leaf \in Leaf /\ rebuilt(s) \in Value
      /\ is_handle(leaf) => leaf \in handles(rebuilt(s))
  <2>1. rebuilt(s) \in Value /\ DOMAIN rebuilt(s) = DOMAIN s
    BY <1>1, RebuiltType
  <2>2. 1 \in DOMAIN s
    BY <1>1, <1>2 DEF Value
  <2> QED
    BY <2>1, <2>2, HandleAt DEF Value
<1>4. <<Moved>> \in Value /\ \A h \in handles(<<Moved>>) : FALSE
  <2>1. Moved \in Leaf /\ ~ is_handle(Moved)
    BY DEF Leaf, is_handle
  <2> QED
    BY <2>1, OneHandle
<1>5. ASSUME NEW f \in [Vals -> Value], vals' = [vals EXCEPT ![Top] = Empty(f)], host' = host,
             NEW new, NEW dest, \A u \in Vals : \A h \in handles(f[u]) : Given(h, new, dest)
      PROVE  Provenance(new, dest)
  <2>1. Empty(f) \in [Vals -> Value] /\ \A u \in Vals : Empty(f)[u] \in {<<Moved>>, f[u]}
    BY <1>1, <1>4, <1>5
  <2> HIDE DEF Empty
  <2>2. \A u \in Vals : \A h \in handles(Empty(f)[u]) : Given(h, new, dest)
    BY <1>4, <1>5, <2>1
  <2> QED
    BY <1>5, <2>1, <2>2, FrameProvenance
<1>9. \A h \in handles(s) : FrameHas(Top, h)
  BY TopHas
<1>6. CASE Refuse
  BY <1>6, RefuseKind DEF Kind
<1>7. CASE /\ is_tombstone(leaf_at(d, p)) /\ Len(p) = 1 /\ plan_transfer(s)
           /\ records' = commit_transfer(s)
           /\ vals' = [vals EXCEPT ![Top][r][p[1]] = leaf, ![Top][src] = <<Moved>>,
                                   ![Top][q] = <<Moved>>]
           /\ OnlyTable
  <2>1. p[1] \in DOMAIN d
    BY <1>7, LeafAssumption DEF is_tombstone, leaf_at
  <2>2. [d EXCEPT ![p[1]] = leaf] \in Value
    BY <1>1, <1>3, <2>1, SetLeafType
  <2>3. f1 \in [Vals -> Value] /\ \A u \in Vals : f1[u] \in {[d EXCEPT ![p[1]] = leaf], V(u)}
    BY <1>1, <2>2 DEF V
  <2>4. vals' = [vals EXCEPT ![Top] = Empty(f1)] /\ host' = host
    BY <1>1, <1>7 DEF V, OnlyTable
  <2>5. ASSUME NEW u \in Vals, NEW h \in handles(f1[u])
        PROVE  Given(h, handles(rebuilt(s)), Top)
    <3>1. CASE f1[u] = V(u)
      BY <2>5, <3>1, TopHas DEF Given
    <3>2. CASE f1[u] = [d EXCEPT ![p[1]] = leaf]
      <4>1. h \in handles(d) \cup handles(<<leaf>>)
        <5> HIDE DEF f1, leaf, d
        <5> QED
          BY <1>1, <1>3, <2>1, <2>5, <3>2, EditedHandles
      <4>2. CASE h \in handles(d)
        BY <1>1, <4>2, TopHas DEF Given
      <4>3. CASE h \in handles(<<leaf>>)
        <5> HIDE DEF leaf
        <5> QED
          BY <1>3, <4>3, OneHandle DEF Given
      <4> QED
        BY <4>1, <4>2, <4>3
    <3> QED
      BY <2>3, <3>1, <3>2
  <2> HIDE DEF f1, Empty
  <2>6. Provenance(handles(rebuilt(s)), Top)
    BY <1>5, <2>3, <2>4, <2>5
  <2> HIDE DEF s
  <2> QED
    BY <1>1, <1>7, <1>9, <2>6 DEF Transfers, Kind
<1>8. CASE /\ is_tombstone(leaf_at(d, p)) /\ owning_path(d, p) /\ Len(p) > 1 /\ plan_transfer(s)
           /\ graphs_disjoint(s, d)
           /\ records' = with_field(commit_transfer(s), c.id, Last(p), leaf)
           /\ vals' = [vals EXCEPT ![Top][src] = <<Moved>>, ![Top][q] = <<Moved>>]
           /\ OnlyTable
  <2>1. leaf_at(d, p) # Absent
    BY <1>8, LeafAssumption DEF is_tombstone
  <2>2. /\ c.id \in DOMAIN records /\ records[c.id].status = "alive"
        /\ Last(p) \in DOMAIN records[c.id].fields
        /\ leaf_at(d, p) = records[c.id].fields[Last(p)]
    BY <1>1, <1>8, <2>1, LeafStored
  <2>3. s[1] = Scalar <=> leaf_at(d, p) = Hole
    BY <1>2, <1>8, LeafAssumption DEF is_tombstone
  <2>4. Verified => s[1] # Scalar
    <3>1. s # <<Scalar>> => s[1] # Scalar
      BY <1>1, <1>2 DEF Value
    <3> QED
      BY <1>2, <3>1 DEF verified_store
  <2>5. vals' = [vals EXCEPT ![Top] = Empty(vals[Top])] /\ host' = host
    BY <1>1, <1>8 DEF OnlyTable
  <2>6. \A u \in Vals : \A h \in handles(vals[Top][u]) : Given(h, {}, 0)
    BY TopHas DEF Given, V
  <2> HIDE DEF Empty
  <2>7. Provenance({}, 0)
    BY <1>1, <1>5, <2>5, <2>6
  <2>8. PICK i, k : i = c.id /\ k = Last(p)
    OBVIOUS
  <2> HIDE DEF c, s
  <2>10. i \notin identities(s)
    <3>1. c \in collect_reachable(d)
      <4>1. is_handle(container(d, p))
        BY <1>8 DEF owning_path
      <4>2. p[1] \in DOMAIN d /\ is_handle(d[p[1]]) => d[p[1]] \in collect_reachable(d)
        BY <1>1, HandleAt DEF collect_reachable
      <4>3. \A h \in collect_reachable(d) : children(h) \subseteq collect_reachable(d)
        BY BelowClosed DEF collect_reachable
      <4> HIDE DEF d
      <4> QED
        BY <1>1, <1>8, <4>1, <4>2, <4>3, WalkStays DEF c
    <3>2. c.id \in identities(d)
      BY <3>1 DEF identities, ids
    <3> QED
      BY <1>8, <2>8, <3>2 DEF graphs_disjoint
  <2>9. Refills
    BY <1>1, <1>2, <1>8, <1>9, <2>2, <2>3, <2>4, <2>7, <2>8, <2>10 DEF Refills
  <2> QED
    BY <2>9 DEF Kind
<1> QED
  BY <1>6, <1>7, <1>8 DEF StorePlace, validate_store_target, Attempt

\* Opening an observation gives a leased view.
LEMMA BeginObserveKind ==
    ASSUME TypeOK, HandlesKnown, frames # <<>>, NEW v \in Vals, NEW o \in Observations,
           NEW root \in Vals, NEW p \in Paths, begin_observe(v, o, root, p)
    PROVE  Kind
<1> DEFINE r == canonical_root(root)
           seen == observe_projections(V(r), p)
           reserved == Len(leases) + 1
<1>1. CASE Refuse
  BY <1>1, RefuseKind DEF Kind
<1>2. CASE /\ place_exists(V(r), p)
           /\ \A h \in collect_reachable(seen) : observe(h)
           /\ \E parent : leases' = Append(leases, [status |-> "active", parent |-> parent,
                                                    observed |-> identities(seen)])
           /\ Insert(v, to_leased_view(seen, reserved))
           /\ UNCHANGED <<records, host>>
  <2>1. V(r) \in Value /\ r \in Vals /\ records \in Seq(ResourceRecord) /\ reserved \in Nat
    BY TopFrame DEF TypeOK
  <2>2. seen \in Value
    BY <1>2, <2>1, ObserveProjectionsType, BoundAssumption
  <2>3. to_leased_view(seen, reserved) \in Value
    BY <2>1, <2>2, RebuiltType
  <2>4. \A h \in handles(seen) : h.id \in DOMAIN records /\ h.generation <= records[h.id].generation
    BY <1>2, <2>1, SeenKnown
  <2>7. \A h \in handles(seen) : observe(h) /\ h.id \in identities(seen)
    BY <1>2 DEF collect_reachable, identities, ids
  <2>8. /\ reserved \notin DOMAIN leases /\ reserved \in DOMAIN leases'
        /\ leases'[reserved].observed = identities(seen)
    <3>1. PICK r2 : leases' = Append(leases, r2) /\ r2.observed = identities(seen)
      BY <1>2
    <3>2. leases \in Seq(LeaseRecord) /\ Len(leases) \in Nat /\ DOMAIN leases = 1..Len(leases)
      BY DEF TypeOK
    <3> HIDE DEF seen
    <3> QED
      BY <3>1, <3>2
  <2> HIDE DEF seen, reserved
  <2>5. ASSUME NEW h \in handles(to_leased_view(seen, reserved)) PROVE Given(h, {}, 0)
    <3>1. h \in Handle /\ h.role = "observer" /\ h.lease = reserved
      BY <2>1, <2>2, ViewHandles, LeasedView
    <3>2. PICK g \in handles(seen) : h.id = g.id /\ h.generation = g.generation
      BY <2>1, <2>2, ViewHandles
    <3>3. h.id \in Alive /\ current(h) /\ h.id \in identities(seen)
      BY <2>7, <3>2 DEF observe, record, Alive, current
    <3>4. Viewed(h)
      BY <2>8, <3>1, <3>3 DEF Viewed
    <3> QED
      BY <2>4, <3>1, <3>2, <3>4 DEF Given, Known
  <2>6. Provenance({}, 0)
    BY <1>2, <2>3, <2>5, InsertProvenance
  <2> QED
    BY <1>2, <2>6 DEF Reads, Kind
<1> QED
  BY <1>1, <1>2 DEF begin_observe, Attempt

\* The arguments of a call: what crosses is what the `take' arguments hold.
LEMMA ArgumentsShape ==
    ASSUME TypeOK, frames # <<>>, NEW args \in Arguments
    PROVE  /\ taken_args(args) \in Value
           /\ \A i \in DOMAIN args :
                 /\ args[i].value \in Vals /\ V(args[i].value) \in Value
                 /\ args[i].take => handles(V(args[i].value)) \subseteq handles(taken_args(args))
           /\ DOMAIN args \subseteq DOMAIN ParamList
           /\ \A h \in handles(taken_args(args)) :
                 \E i \in DOMAIN args : args[i].take /\ h \in handles(V(args[i].value))
<1> DEFINE Arg == [value : Vals, take : BOOLEAN]
<1>1. \A v \in Vals : V(v) \in Value
  BY TopFrame
<1>2. PICK k \in 0..Len(ParamList) : args \in [1..k -> Arg]
  BY DEF Arguments
<1>3. k \in Nat /\ k <= 2 /\ k <= Len(ParamList) /\ Len(ParamList) \in Nat
  BY <1>2, BoundAssumption
<1>4. args \in Seq(Arg) /\ Len(args) = k /\ DOMAIN args = 1..k
  <2> HIDE DEF Arg
  <2> QED
    BY <1>2, <1>3
<1>5. ASSUME NEW i \in DOMAIN args PROVE args[i] \in Arg /\ args[i].value \in Vals
  <2>1. args[i] \in Arg
    <3> HIDE DEF Arg
    <3> QED
      BY <1>2, <1>4
  <2> QED
    BY <2>1
<1>6. <<>> \in Value /\ handles(<<>>) = {}
  BY DEF Value, handles
<1>7. ASSUME NEW i \in DOMAIN args
      PROVE  /\ handed(args[i]) \in Value
             /\ args[i].take => handed(args[i]) = V(args[i].value)
             /\ ~ args[i].take => handles(handed(args[i])) = {}
  BY <1>1, <1>5, <1>6 DEF handed
<1>8. /\ taken_args(args) \in Value
      /\ handles(taken_args(args)) = UNION {handles(handed(args[i])) : i \in DOMAIN args}
  <2>1. CASE k = 0
    BY <2>1, <1>4, <1>6 DEF taken_args
  <2>2. CASE k = 1
    <3>1. taken_args(args) = handed(args[1]) /\ DOMAIN args = {1}
      BY <2>2, <1>4 DEF taken_args
    <3> QED
      BY <1>7, <3>1
  <2>3. CASE k = 2
    <3>1. /\ taken_args(args) = handed(args[1]) \o handed(args[2]) /\ DOMAIN args = {1, 2}
          /\ handed(args[1]) \in Value /\ handed(args[2]) \in Value
      BY <2>3, <1>4, <1>7 DEF taken_args
    <3>2. /\ taken_args(args) \in Value
          /\ handles(taken_args(args)) = handles(handed(args[1])) \cup handles(handed(args[2]))
      BY <3>1, JoinedHandles
    <3> QED
      BY <3>1, <3>2
  <2> QED
    BY <2>1, <2>2, <2>3, <1>3
<1>9. DOMAIN args \subseteq DOMAIN ParamList
  BY <1>3, <1>4, BoundAssumption
<1>10. \A i \in DOMAIN args :
         args[i].take => handles(V(args[i].value)) \subseteq handles(taken_args(args))
  BY <1>7, <1>8
<1>11. ASSUME NEW h \in handles(taken_args(args))
       PROVE  \E i \in DOMAIN args : args[i].take /\ h \in handles(V(args[i].value))
  BY <1>7, <1>8, <1>11
<1> QED
  BY <1>1, <1>5, <1>8, <1>9, <1>10, <1>11

\* What a transfer hands over for part of what crosses.
LEMMA RebuiltPart ==
    ASSUME NEW s \in Value, NEW t \in Value, handles(s) \subseteq handles(t)
    PROVE  handles(rebuilt(s)) \subseteq handles(rebuilt(t))
<1>1. ASSUME NEW h \in handles(rebuilt(s)) PROVE h \in handles(rebuilt(t))
  <2>1. PICK g \in handles(s) :
          h = [id |-> g.id, generation |-> g.generation + 1, role |-> "owner", lease |-> 0]
    BY <1>1, RebuiltHandles
  <2> QED
    BY <2>1, RebuiltHolds
<1> QED
  BY <1>1

\* A parameter of an entered frame: what was taken, or a view.
LEMMA BindingShape ==
    ASSUME TypeOK, frames # <<>>, NEW args \in Arguments, NEW v \in Vals
    PROVE  /\ bindings(args) \in [Vals -> Value]
           /\ IF \E i \in DOMAIN args : ParamList[i] = v
              THEN \E i \in DOMAIN args :
                      /\ ParamList[i] = v
                      /\ bindings(args)[v] = IF args[i].take THEN rebuilt(V(args[i].value))
                                             ELSE to_observing_view(V(args[i].value))
              ELSE bindings(args)[v] = <<Absent>>
<1>1. \A i \in DOMAIN args : /\ rebuilt(V(args[i].value)) \in Value
                             /\ to_observing_view(V(args[i].value)) \in Value
  BY ArgumentsShape, RebuiltType
<1>2. <<Absent>> \in Value
  BY DEF Value, Leaf
<1>3. ASSUME NEW u, \E i \in DOMAIN args : ParamList[i] = u
      PROVE  /\ (CHOOSE i \in DOMAIN args : ParamList[i] = u) \in DOMAIN args
             /\ ParamList[CHOOSE i \in DOMAIN args : ParamList[i] = u] = u
  BY <1>3
<1>4. bindings(args) \in [Vals -> Value]
  BY <1>1, <1>2, <1>3 DEF bindings
<1> QED
  BY <1>3, <1>4 DEF bindings

\* Entering a function.
LEMMA CallKind ==
    ASSUME TypeOK, HandlesKnown, frames # <<>>, NEW args \in Arguments, NEW ok, NEW err,
           may_call(args), call_function(args, ok, err)
    PROVE  Transfers
<1> DEFINE s == taken_args(args)
           b == bindings(args)
<1>1. s \in Value /\ plan_transfer(s) /\ records' = commit_transfer(s) /\ host' = host
  BY ArgumentsShape DEF may_call, call_function
<1>2. /\ vals' = Append(vals, b) /\ vals \in Seq([Vals -> Value]) /\ Len(vals) = Top
      /\ Top \in Nat
  BY DEF call_function, EnterFrame, TypeOK, Top
<1>3. ASSUME NEW v \in Vals, NEW h \in handles(b[v])
      PROVE  h \in handles(rebuilt(s)) \/ (Known(h) /\ h.role = "observer" /\ Viewed(h))
  <2>1. b[v] # <<Absent>>
    <3>1. Absent \in Leaf /\ ~ is_handle(Absent)
      BY DEF Leaf, is_handle
    <3>2. handles(<<Absent>>) = {}
      BY <3>1, OneHandle
    <3> QED
      BY <1>3, <3>2
  <2>2. PICK i \in DOMAIN args :
          b[v] = IF args[i].take THEN rebuilt(V(args[i].value))
                 ELSE to_observing_view(V(args[i].value))
    BY <2>1, BindingShape
  <2> DEFINE t == V(args[i].value)
  <2>3. t \in Value /\ args[i].value \in Vals /\ (args[i].take => handles(t) \subseteq handles(s))
    BY ArgumentsShape
  <2>4. CASE args[i].take
    <3> HIDE DEF s, t, b
    <3>1. handles(rebuilt(t)) \subseteq handles(rebuilt(s))
      BY <1>1, <2>3, <2>4, RebuiltPart
    <3> QED
      BY <1>3, <2>2, <2>4, <3>1 DEF t
  <2>5. CASE ~ args[i].take
    <3>1. h \in handles(to_observing_view(t))
      BY <1>3, <2>2, <2>5
    <3>2. \A g \in handles(t) : Known(g) /\ observe(g) /\ FrameHas(Top, g)
      BY <2>3, <2>5, TopHas DEF HandlesKnown, may_call
    <3> HIDE DEF t
    <3> QED
      BY <2>3, <3>1, <3>2, ViewGiven, ShownViewed DEF Known
  <2> QED
    BY <2>4, <2>5
<1> HIDE DEF b, s
<1>4. /\ DOMAIN vals' = DOMAIN vals \cup {Top + 1} /\ vals'[Top + 1] = b
      /\ \A f \in DOMAIN vals : vals'[f] = vals[f]
  BY <1>2
<1>5. Provenance(handles(rebuilt(s)), Top + 1)
  BY <1>1, <1>3, <1>4 DEF Provenance, FrameHas
<1>6. Top + 1 \in Nat
  BY <1>2
<1>7. \A h \in handles(s) : FrameHas(Top, h)
  BY ArgumentsShape, TopHas DEF s
<1> QED
  BY <1>1, <1>5, <1>6, <1>7 DEF Transfers

\* Leaving a frame without a value.
LEMMA PopProvenance ==
    ASSUME TypeOK, frames # <<>>, vals' = Front(vals), host' = host, NEW new, NEW dest
    PROVE  Provenance(new, dest)
<1>1. vals \in Seq([Vals -> Value]) /\ vals # <<>>
  BY DEF TypeOK
<1>2. \A f \in DOMAIN vals' : f \in DOMAIN vals /\ vals'[f] = vals[f]
  <2>1. /\ Front(vals) \in Seq([Vals -> Value]) /\ Len(Front(vals)) = Len(vals) - 1
        /\ \A i \in 1..(Len(vals) - 1) : Front(vals)[i] = vals[i]
    BY <1>1, FrontType
  <2>2. DOMAIN vals' = 1..(Len(vals) - 1) /\ DOMAIN vals = 1..Len(vals) /\ Len(vals) \in Nat
    BY <1>1, <2>1
  <2> QED
    BY <2>1, <2>2
<1> QED
  BY <1>2 DEF Provenance, FrameHas

\* Leaving a frame with a value: the caller's frame, or the host, is given it.
LEMMA LeaveFrameProvenance ==
    ASSUME TypeOK, frames # <<>>, NEW dest, NEW s \in Value, LeaveFrame(dest, s)
    PROVE  Provenance(handles(s), Top - 1) /\ Top - 1 \in Nat
<1>1. Top \in Nat \ {0}
  BY PopType DEF Top
<1>2. CASE Top = 1
  BY <1>2 DEF LeaveFrame, Provenance
<1>3. CASE Top # 1
  <2> DEFINE F == Front(vals)
             g == [F[Top - 1] EXCEPT ![dest] = s]
  <2>1. F \in Seq([Vals -> Value]) /\ Len(F) = Top - 1
    BY PopType DEF Top
  <2>2. \A f \in DOMAIN F : f \in DOMAIN vals /\ F[f] = vals[f]
    <3>1. vals \in Seq([Vals -> Value]) /\ vals # <<>> /\ Len(vals) = Top
      BY DEF TypeOK, Top
    <3>2. \A i \in 1..(Len(vals) - 1) : F[i] = vals[i]
      BY <3>1, FrontType
    <3> HIDE DEF F
    <3>3. DOMAIN F = 1..(Top - 1) /\ DOMAIN vals = 1..Top
      BY <1>1, <2>1, <3>1
    <3> QED
      BY <1>1, <3>1, <3>2, <3>3
  <2> HIDE DEF F
  <2>3. Top - 1 \in DOMAIN F /\ F[Top - 1] \in [Vals -> Value]
    BY <1>1, <1>3, <2>1
  <2>4. vals' = [F EXCEPT ![Top - 1] = g] /\ host' = host
    BY <1>3 DEF LeaveFrame, F
  <2>5. \A v \in Vals : g[v] \in {s, F[Top - 1][v]}
    BY <2>3
  <2> HIDE DEF g
  <2>6. DOMAIN vals' = DOMAIN F /\ vals'[Top - 1] = g
        /\ \A f \in DOMAIN F : f # Top - 1 => vals'[f] = F[f]
    BY <2>1, <2>3, <2>4
  <2>7. ASSUME NEW f \in DOMAIN vals', NEW v \in Vals, NEW h \in handles(vals'[f][v])
        PROVE  FrameHas(f, h) \/ (f = Top - 1 /\ h \in handles(s))
    <3>1. CASE f = Top - 1
      BY <2>2, <2>3, <2>5, <2>6, <2>7, <3>1 DEF FrameHas
    <3>2. CASE f # Top - 1
      BY <2>2, <2>6, <2>7, <3>2 DEF FrameHas
    <3> QED
      BY <3>1, <3>2
  <2> QED
    BY <1>1, <2>4, <2>7 DEF Provenance
<1> QED
  BY <1>1, <1>2, <1>3

\* Return and Raise transfer what they hand to the caller, or lose it.
LEMMA ReturnKind ==
    ASSUME TypeOK, frames # <<>>, NEW s \in Value, \A h \in handles(s) : FrameHas(Top, h),
           Return(s)
    PROVE  Kind
<1>1. CASE Refuse
  BY <1>1, RefuseKind DEF Kind
<1>2. CASE plan_transfer(s) /\ records' = commit_transfer(s) /\ LeaveFrame(frames[Top].ok, rebuilt(s))
  <2>1. rebuilt(s) \in Value
    BY RebuiltType
  <2>2. Provenance(handles(rebuilt(s)), Top - 1) /\ Top - 1 \in Nat
    BY <1>2, <2>1, LeaveFrameProvenance
  <2> QED
    BY <1>2, <2>2 DEF Transfers, Kind
<1> QED
  BY <1>1, <1>2 DEF Return, Attempt

\* A raise the caller handles is a return; one it does not handle is lost.
LEMMA RaiseKind ==
    ASSUME TypeOK, frames # <<>>, NEW s \in Value, \A h \in handles(s) : FrameHas(Top, h),
           NEW handled, Raise(s, handled)
    PROVE  Kind
<1>1. CASE Refuse
  BY <1>1, RefuseKind DEF Kind
<1>2. CASE plan_transfer(s) /\ records' = commit_transfer(s) /\ LeaveFrame(frames[Top].err, rebuilt(s))
  <2>1. rebuilt(s) \in Value
    BY RebuiltType
  <2>2. Provenance(handles(rebuilt(s)), Top - 1) /\ Top - 1 \in Nat
    BY <1>2, <2>1, LeaveFrameProvenance
  <2> QED
    BY <1>2, <2>2 DEF Transfers, Kind
<1>3. CASE /\ plan_transfer(s) /\ records' = commit_transfer(s)
           /\ vals' = Front(vals) /\ host' = host
  <2>1. Provenance(handles(rebuilt(s)), 0)
    BY <1>3, PopProvenance
  <2> QED
    BY <1>3, <2>1 DEF Transfers, Kind
<1> QED
  BY <1>1, <1>2, <1>3 DEF Raise, Attempt

\* The instructions that move values into their result.
LEMMA TransferInstructionKind ==
    ASSUME TypeOK, HandlesKnown, frames # <<>>, NEW v \in Vals, TransferInstruction(v)
    PROVE  Kind
<1>1. \A u \in Vals : V(u) \in Value
  BY TopFrame
<1>2. CASE \E src \in Vals : Move(v, src)
  <2>1. PICK src \in Vals : Move(v, src)
    BY <1>2
  <2>2. CASE /\ plan_transfer(V(src)) /\ records' = commit_transfer(V(src))
             /\ Insert(v, rebuilt(V(src))) /\ OnlyTable
    BY <1>1, <2>1, <2>2, TopHas, TransferKind DEF Kind
  <2> QED
    BY <2>1, <2>2, RefuseKind DEF Move, Attempt, Kind
<1>3. CASE \E args \in Args(2) : AggregateCreate(v, args)
  <2>1. PICK args \in Args(2) : AggregateCreate(v, args)
    BY <1>3
  <2>2. Concat(args) \in Value
    BY ConcatType
  <2>3. CASE /\ plan_transfer(Concat(args)) /\ records' = commit_transfer(Concat(args))
             /\ Insert(v, rebuilt(Concat(args))) /\ OnlyTable
    BY <2>2, <2>3, ConcatHas, TransferKind DEF Kind
  <2> QED
    BY <2>1, <2>3, RefuseKind DEF AggregateCreate, Attempt, Kind
<1>4. CASE \E args \in Args(2) : ResourceCreate(v, args)
  BY <1>4, ResourceCreateKind
<1>5. CASE \E args \in Arguments : Call(v, args)
  <2>1. PICK args \in Arguments : Call(v, args)
    BY <1>5
  <2>2. CASE may_call(args) /\ call_function(args, v, Absent)
    BY <2>2, CallKind DEF Kind
  <2> QED
    BY <2>1, <2>2, RefuseKind DEF Call, Attempt, Kind
<1> QED
  BY <1>2, <1>3, <1>4, <1>5 DEF TransferInstruction

\* The other instructions that define a result.
LEMMA ValueInstructionKind ==
    ASSUME TypeOK, HandlesKnown, frames # <<>>, NEW v \in Vals, ValueInstruction(v)
    PROVE  Kind
<1>1. \A u \in Vals : V(u) \in Value
  BY TopFrame
<1>2. CASE Const(v)
  <2>1. PICK c \in Constants : Insert(v, <<c>>) /\ OnlyVals
    BY <1>2 DEF Const
  <2>2. c \in Leaf /\ ~ is_handle(c)
    BY BoundAssumption DEF is_handle, Leaf
  <2>3. <<c>> \in Value /\ \A h \in handles(<<c>>) : FALSE
    BY <2>2, OneHandle
  <2>4. host' = host /\ records' = records
    BY <2>1 DEF OnlyVals
  <2>5. Provenance({}, 0)
    BY <2>1, <2>3, <2>4, InsertProvenance
  <2> QED
    BY <2>4, <2>5 DEF Reads, Kind
<1>3. CASE \E root \in Vals, p \in Paths : PlaceReadObserve(v, root, p) \/ RecordField(v, root, p)
  <2>1. PICK root \in Vals, p \in Paths : PlaceReadObserve(v, root, p) \/ RecordField(v, root, p)
    BY <1>3
  <2>2. canonical_root(root) \in Vals
    BY TopFrame
  <2> QED
    BY <2>1, <2>2, ReadViewKind DEF PlaceReadObserve, RecordField
<1>4. CASE \E root \in Vals, p \in Paths : PlaceReadTransfer(v, root, p)
  BY <1>4, PlaceReadTransferKind
<1>5. CASE \E root \in Vals, p \in Paths, o \in Observations : begin_observe(v, o, root, p)
  BY <1>5, BeginObserveKind
<1>6. CASE \E base \in Vals, i \in 1..MaxLeaves : VariantPayload(v, base, i)
  <2>1. PICK base \in Vals, i \in 1..MaxLeaves : VariantPayload(v, base, i)
    BY <1>6
  <2>2. CASE i \in DOMAIN V(base) /\ Insert(v, <<V(base)[i]>>) /\ OnlyVals
    <3>1. V(base)[i] \in Leaf
      BY <1>1, <2>2 DEF Value
    <3>2. /\ <<V(base)[i]>> \in Value
          /\ \A h \in handles(<<V(base)[i]>>) : h = V(base)[i] /\ is_handle(V(base)[i])
      BY <3>1, OneHandle
    <3>3. \A h \in handles(<<V(base)[i]>>) : h \in handles(V(base))
      BY <1>1, <2>2, <3>2, HandleAt
    <3>4. \A h \in handles(<<V(base)[i]>>) : Given(h, {}, 0)
      BY <3>3, TopHas DEF Given
    <3>5. host' = host /\ records' = records
      BY <2>2 DEF OnlyVals
    <3>6. Provenance({}, 0)
      BY <2>2, <3>2, <3>4, <3>5, InsertProvenance
    <3> QED
      BY <3>5, <3>6 DEF Reads, Kind
  <2> QED
    BY <2>1, <2>2, RefuseKind DEF VariantPayload, Attempt, Kind
<1> QED
  BY <1>2, <1>3, <1>4, <1>5, <1>6 DEF ValueInstruction

\* Every instruction.
LEMMA InstructionKind ==
    ASSUME TypeOK, HandlesKnown, frames # <<>>, Instruction
    PROVE  Kind
<1>1. \A u \in Vals : V(u) \in Value
  BY TopFrame
<1>2. Temps \subseteq Vals /\ Slots \subseteq Vals /\ Loads \subseteq Vals
      /\ \A y \in Loads : LoadOrigin[y] \in Vals
  BY BoundAssumption DEF Vals
<1>3. CASE \E v \in Temps : ValueInstruction(v)
  BY <1>2, <1>3, ValueInstructionKind
<1>4. CASE \E y \in Loads : Load(y)
  <2>1. PICK y \in Loads : Load(y)
    BY <1>4
  <2>2. CASE Insert(y, V(LoadOrigin[y])) /\ OnlyVals
    <3>1. host' = host /\ records' = records
      BY <2>2 DEF OnlyVals
    <3>2. \A h \in handles(V(LoadOrigin[y])) : Given(h, {}, 0)
      BY <1>2, TopHas DEF Given
    <3>3. Provenance({}, 0)
      BY <1>1, <1>2, <2>2, <3>1, <3>2, InsertProvenance
    <3> QED
      BY <3>1, <3>3 DEF Reads, Kind
  <2> QED
    BY <2>1, <2>2, RefuseKind DEF Load, Attempt, Kind
<1>5. CASE ArithmeticFailure
  BY <1>5, RefuseKind DEF ArithmeticFailure, Kind
<1>6. CASE \E base \in Vals : \E t, u \in (1..MaxLeaves) \X Temps : DecomposeVariant(base, {t, u})
  BY <1>6, DecomposeKind
<1>7. CASE \E slot \in Slots, v \in Vals : StoreTransfer(slot, v)
  <2>1. PICK slot \in Slots, v \in Vals : StoreTransfer(slot, v)
    BY <1>7
  <2>2. CASE /\ plan_transfer(V(v)) /\ records' = commit_transfer(V(v))
             /\ Insert(slot, rebuilt(V(v))) /\ OnlyTable
    BY <1>1, <1>2, <2>1, <2>2, TopHas, TransferKind DEF Kind
  <2> QED
    BY <2>1, <2>2, RefuseKind DEF StoreTransfer, Attempt, Kind
<1>8. CASE \E slot \in Slots, v \in Vals : StoreObserve(slot, v)
  <2>1. PICK slot \in Slots, v \in Vals : StoreObserve(slot, v)
    BY <1>8
  <2>2. CASE /\ \A h \in handles(V(v)) : observe(h)
             /\ Insert(slot, to_observing_view(V(v))) /\ OnlyVals
    <3>1. to_observing_view(V(v)) \in Value
      BY <1>1, RebuiltType
    <3>2. \A h \in handles(V(v)) : /\ h.id \in DOMAIN records /\ Viewed(h)
                                   /\ h.generation <= records[h.id].generation
      BY <2>2, TopHas, ShownViewed DEF HandlesKnown, Known
    <3>3. \A h \in handles(to_observing_view(V(v))) : Given(h, {}, 0)
      BY <1>1, <3>2, ViewGiven
    <3>4. host' = host /\ records' = records
      BY <2>2 DEF OnlyVals
    <3>5. Provenance({}, 0)
      BY <1>2, <2>2, <3>1, <3>3, <3>4, InsertProvenance
    <3> QED
      BY <3>4, <3>5 DEF Reads, Kind
  <2> QED
    BY <2>1, <2>2, RefuseKind DEF StoreObserve, Attempt, Kind
<1>9. CASE \E v \in Vals : Drop(v)
  BY <1>9, DropKind
<1>10. CASE \E root, src \in Vals, p \in Paths : StorePlace(root, p, src)
  BY <1>10, StorePlaceKind
<1>11. CASE \E o \in Observations : end_observe(o)
  <2>1. PICK o \in Observations : end_observe(o)
    BY <1>11
  <2>2. CASE UNCHANGED <<records, vals, host>>
    BY <2>2, StillProvenance DEF Reads, Kind
  <2> QED
    BY <2>1, <2>2, RefuseKind DEF end_observe, Attempt, Kind
<1>12. CASE \E v \in Temps : TransferInstruction(v)
  BY <1>2, <1>12, TransferInstructionKind
<1> QED
  BY <1>3, <1>4, <1>5, <1>6, <1>7, <1>8, <1>9, <1>10, <1>11, <1>12 DEF Instruction

\* Every terminator.
LEMMA TerminatorKind ==
    ASSUME TypeOK, HandlesKnown, frames # <<>>, Terminator
    PROVE  Kind
<1>1. \A u \in Vals : V(u) \in Value
  BY TopFrame
<1>2. <<Scalar>> \in Value
  BY DEF Value, Leaf
<1>3. CASE \E args \in Arguments, ok, err \in Slots : Invoke(args, ok, err)
  <2>1. PICK args \in Arguments, ok \in Slots, err \in Slots : Invoke(args, ok, err)
    BY <1>3
  <2>2. CASE may_call(args) /\ call_function(args, ok, err)
    BY <2>2, CallKind DEF Kind
  <2> QED
    BY <2>1, <2>2, RefuseKind DEF Invoke, Attempt, Kind
<1>4. CASE \E s \in {V(v) : v \in Vals} \cup {<<Scalar>>} : Return(s)
  <2>1. PICK s : s \in {V(v) : v \in Vals} \cup {<<Scalar>>} /\ Return(s)
    BY <1>4
  <2>2. s \in Value /\ \A h \in handles(s) : FrameHas(Top, h)
    <3>1. ~ is_handle(Scalar) /\ Scalar \in Leaf
      BY DEF is_handle, Leaf
    <3> QED
      BY <1>1, <1>2, <2>1, <3>1, TopHas, OneHandle
  <2> QED
    BY <2>1, <2>2, ReturnKind
<1>5. CASE \E v \in Vals, handled \in BOOLEAN : Raise(V(v), handled)
  BY <1>1, <1>5, TopHas, RaiseKind
<1> QED
  BY <1>3, <1>4, <1>5 DEF Terminator

\* Every step of the interpreter.
LEMMA StepKind ==
    ASSUME TypeOK, HandlesKnown, [Next]_vars
    PROVE  Kind
<1>1. CASE HostCall
  <2>1. vals' = Append(vals, no_values) /\ vals \in Seq([Vals -> Value]) /\ vals = <<>>
        /\ records' = records /\ host' = host
    BY <1>1 DEF HostCall, EnterFrame, TypeOK
  <2>2. vals' = <<no_values>>
    BY <2>1
  <2>3. ASSUME NEW v \in Vals PROVE handles(no_values[v]) = {}
    <3>1. Absent \in Leaf /\ ~ is_handle(Absent)
      BY DEF Leaf, is_handle
    <3> QED
      BY <3>1, OneHandle DEF no_values
  <2> QED
    BY <2>1, <2>2, <2>3 DEF Provenance, Reads, Kind
<1>2. CASE Running /\ Instruction
  BY <1>2, InstructionKind DEF Running
<1>3. CASE Running /\ Terminator
  BY <1>3, TerminatorKind DEF Running
<1>4. CASE Unwind
  BY <1>4, PopProvenance DEF Unwind, Reads, Kind
<1>5. CASE UNCHANGED vars
  BY <1>5, StillProvenance DEF vars, Reads, Kind
<1> QED
  BY <1>1, <1>2, <1>3, <1>4, <1>5 DEF Next

\* The invariant holds for every NIR module, verified or not.
LEMMA OwnerInvariant == Spec => []OwnerInv
<1>1. Init => OwnerInv
  BY DEF Init, OwnerInv, HandlesKnown, StoredOnce, OneOwner, FrameHas, Stores, HoldsAt, Alive
<1>2. ASSUME TypeOK, TypeOK', OwnerInv, [Next]_vars PROVE OwnerInv'
  <2>1. Kind
    BY <1>2, StepKind DEF OwnerInv
  <2> QED
    BY <1>2, <2>1, ReadsOwner, TransfersOwner, CreatesOwner, DropsOwner, TakesOwner, RefillsOwner
       DEF Kind
<1> QED
  BY <1>1, <1>2, TypeCorrect, PTL DEF Spec

\* The places Holders lists are the ones that own.
LEMMA HoldersOwn ==
    ASSUME TypeOK, HandlesKnown, NEW i \in DOMAIN records, NEW p
    PROVE  p \in Holders(i) <=> Owns(p, i)
<1>1. ASSUME NEW h, Known(h), h.role = "owner", h.id = i
      PROVE  current_owner(h, i) <=> current(h)
  BY <1>1 DEF Known, current_owner, record, current
<1>2. ASSUME NEW f PROVE (f \in DOMAIN vals /\ \E v \in Vals : \E h \in handles(vals[f][v]) : current_owner(h, i))
                         <=> FrameOwns(f, i)
  <2>1. ASSUME NEW v \in Vals, f \in DOMAIN vals, NEW h \in handles(vals[f][v])
        PROVE  FrameHas(f, h) /\ Known(h)
    BY <2>1 DEF FrameHas, HandlesKnown
  <2> QED
    BY <1>1, <2>1 DEF FrameOwns, FrameHas, current_owner
<1>3. ASSUME NEW j PROVE (/\ j \in DOMAIN records /\ records[j].status = "alive"
                          /\ \E h \in handles(records[j].fields) : current_owner(h, i))
                         <=> FieldOwns(j, i)
  <2>1. ASSUME NEW h, Stores(j, h) PROVE Known(h) /\ h.role = "owner"
    BY <2>1 DEF HandlesKnown
  <2> QED
    BY <1>1, <2>1 DEF FieldOwns, Stores, current_owner
<1>4. (\E h \in host : current_owner(h, i)) <=> HostOwns(i)
  <2>1. \A h \in host : Known(h)
    BY DEF HandlesKnown
  <2> QED
    BY <1>1, <2>1 DEF HostOwns, current_owner
<1>5. p \in Holders(i) <=>
        \/ \E f : p = <<"frame", f>> /\ f \in DOMAIN vals
                  /\ \E v \in Vals : \E h \in handles(vals[f][v]) : current_owner(h, i)
        \/ \E j : p = <<"field", j>> /\ j \in DOMAIN records /\ records[j].status = "alive"
                  /\ \E h \in handles(records[j].fields) : current_owner(h, i)
        \/ p = <<"host">> /\ \E h \in host : current_owner(h, i)
  BY DEF Holders
<1> QED
  BY <1>2, <1>3, <1>4, <1>5 DEF Owns

\* No two frames, no frame and a field, no two containers and no host besides
\* ever hold current owner handles of one live resource, whatever NIR the
\* interpreter is given: the generation a transfer writes (commit_transfer,
\* construct, take_projections, store_place_transfer) leaves one owner.
THEOREM OneOwnerAtMost == Spec => []SoleOwner
<1>1. ASSUME TypeOK, OwnerInv PROVE SoleOwner
  <2>1. ASSUME NEW i \in Alive PROVE Cardinality(Holders(i)) <= 1
    <3>1. i \in DOMAIN records
      BY DEF Alive
    <3>2. \A p, q \in Holders(i) : p = q
      BY <1>1, <3>1, HoldersOwn DEF OwnerInv, OneOwner
    <3>3. CASE Holders(i) = {}
      BY <3>3, FS_EmptySet
    <3>4. CASE Holders(i) # {}
      <4>1. PICK p : p \in Holders(i)
        BY <3>4
      <4>2. Holders(i) = {p}
        BY <3>2, <4>1
      <4>3. Cardinality({p}) = 1
        BY FS_Singleton
      <4> QED
        BY <4>2, <4>3
    <3> QED
      BY <3>3, <3>4
  <2> QED
    BY <2>1 DEF SoleOwner
<1> QED
  BY <1>1, TypeCorrect, OwnerInvariant, PTL

-----------------------------------------------------------------------------
(***************************************************************************)
(* No resource is stored inside itself.                                    *)
(***************************************************************************)

\* S holds everything stored in i or in a member of S, however deep.
Under(S, i) ==
    /\ S \subseteq DOMAIN records
    /\ \A j \in S \cup {i} : \A h : Stores(j, h) => h.id \in S

\* Some such set does not hold i.
Acyclic == \A i \in DOMAIN records : \E S : Under(S, i) /\ i \notin S

\* A step that stores nothing.
LEMMA AcyclicKept ==
    ASSUME Acyclic, DOMAIN records' = DOMAIN records,
           \A j, h : Stores(j, h)' => Stores(j, h)
    PROVE  Acyclic'
<1>1. ASSUME NEW i \in DOMAIN records PROVE \E S : Under(S, i)' /\ i \notin S
  <2>1. PICK S : Under(S, i) /\ i \notin S
    BY DEF Acyclic
  <2>2. Under(S, i)'
    BY <2>1 DEF Under
  <2> QED
    BY <2>1, <2>2
<1> QED
  BY <1>1 DEF Acyclic

\* A new resource is in nothing.
LEMMA AcyclicCreates ==
    ASSUME TypeOK, TypeOK', HandlesKnown, HandlesKnown', Acyclic, Creates
    PROVE  Acyclic'
<1>1. PICK s \in Value : plan_transfer(s) /\ records' = Append(commit_transfer(s), new_record(s))
  BY DEF Creates
<1>2. PICK recs, r, n : recs = commit_transfer(s) /\ r = new_record(s) /\ n = Len(records) + 1
  OBVIOUS
<1>3. /\ recs \in Seq(ResourceRecord) /\ Len(recs) = Len(records) /\ DOMAIN recs = DOMAIN records
      /\ \A i \in DOMAIN records : recs[i].fields = records[i].fields
      /\ records \in Seq(ResourceRecord)
  BY <1>2, CommitType, CommitTable DEF TypeOK
<1>4. /\ DOMAIN records' = DOMAIN records \cup {n} /\ n \notin DOMAIN records
      /\ \A i \in DOMAIN records : records'[i] = recs[i]
      /\ records'[n] = r
  BY <1>1, <1>2, CreateTable
<1>5. r.fields = rebuilt(s)
  BY <1>2 DEF new_record
<1>6. \A j \in DOMAIN records : \A h : Stores(j, h)' => Stores(j, h)
  BY <1>3, <1>4 DEF Stores
<1>7. ASSUME NEW j \in DOMAIN records', NEW h, Stores(j, h)' PROVE h.id \in DOMAIN records
  <2>1. CASE j = n
    <3>1. h \in handles(rebuilt(s))
      BY <1>4, <1>5, <1>7, <2>1 DEF Stores
    <3>2. PICK g \in handles(s) : h.id = g.id
      BY <3>1, RebuiltHandles
    <3> QED
      BY <1>1, <3>2, PlannedHandles
  <2>2. CASE j # n
    BY <1>4, <1>6, <1>7, <2>2 DEF HandlesKnown, Known
  <2> QED
    BY <2>1, <2>2
<1>8. ASSUME NEW i \in DOMAIN records' PROVE \E S : Under(S, i)' /\ i \notin S
  <2>1. CASE i = n
    <3>1. PICK D : D = DOMAIN records
      OBVIOUS
    <3>2. Under(D, i)'
      BY <1>4, <1>7, <1>8, <3>1 DEF Under
    <3> QED
      BY <1>4, <2>1, <3>1, <3>2
  <2>2. CASE i # n
    <3>1. PICK S : Under(S, i) /\ i \notin S
      BY <1>4, <2>2 DEF Acyclic
    <3>2. Under(S, i)'
      BY <1>4, <1>6, <2>2, <3>1 DEF Under
    <3> QED
      BY <3>1, <3>2
  <2> QED
    BY <2>1, <2>2
<1> QED
  BY <1>8 DEF Acyclic

\* What is put into a resource does not hold it (graphs_disjoint), so what was
\* below either is below both or below the source alone.
LEMMA AcyclicRefills ==
    ASSUME TypeOK, HandlesKnown, Acyclic, Refills
    PROVE  Acyclic'
<1>1. PICK s \in Value, c \in DOMAIN records : \E k \in DOMAIN records[c].fields :
        /\ plan_transfer(s) /\ Len(s) = 1 /\ c \notin identities(s)
        /\ records' = with_field(commit_transfer(s), c, k, rebuilt(s)[1])
  BY DEF Refills
<1>2. PICK at, leaf, recs :
        /\ at \in DOMAIN records[c].fields /\ leaf = rebuilt(s)[1] /\ recs = commit_transfer(s)
        /\ records' = with_field(recs, c, at, leaf)
  BY <1>1
<1>3. /\ recs \in Seq(ResourceRecord) /\ DOMAIN recs = DOMAIN records
      /\ \A i \in DOMAIN records : recs[i].fields = records[i].fields
  BY <1>2, CommitType, CommitTable DEF TypeOK
<1>4. /\ leaf \in Leaf /\ rebuilt(s) \in Value
      /\ is_handle(leaf) => leaf \in handles(rebuilt(s))
  <2>1. rebuilt(s) \in Value /\ DOMAIN rebuilt(s) = DOMAIN s
    BY RebuiltType
  <2>2. 1 \in DOMAIN s
    BY <1>1 DEF Value
  <2> QED
    BY <1>2, <2>1, <2>2, HandleAt DEF Value
<1>5. /\ DOMAIN records' = DOMAIN records
      /\ \A j \in DOMAIN records : j # c => records'[j] = recs[j]
      /\ records'[c].fields = [records[c].fields EXCEPT ![at] = leaf]
  BY <1>2, <1>3, <1>4, WithFieldTable
<1> DEFINE M == identities(s)
<1>6. ASSUME is_handle(leaf) PROVE leaf.id \in M
  <2>1. PICK g \in handles(s) : leaf.id = g.id
    BY <1>4, <1>6, RebuiltHandles
  <2> QED
    BY <2>1 DEF identities, ids, collect_reachable
<1>7. ASSUME NEW j, NEW h, Stores(j, h)'
      PROVE  Stores(j, h) \/ (j = c /\ h.id \in M)
  <2>1. CASE j # c
    BY <1>3, <1>5, <1>7, <2>1 DEF Stores
  <2>2. CASE j = c
    <3>1. PICK f : f = records[c].fields
      OBVIOUS
    <3>2. f \in Value /\ at \in DOMAIN f
      BY <1>2, <3>1, RecordType
    <3>3. h \in handles([f EXCEPT ![at] = leaf])
      BY <1>5, <1>7, <2>2, <3>1 DEF Stores
    <3>4. h \in handles(f) \cup handles(<<leaf>>)
      BY <1>4, <3>2, <3>3, EditedHandles
    <3>5. \A x \in handles(<<leaf>>) : x = leaf /\ is_handle(leaf)
      BY <1>4, OneHandle
    <3> QED
      BY <1>6, <2>2, <3>1, <3>4, <3>5 DEF Stores
  <2> QED
    BY <2>1, <2>2
<1>8. ASSUME NEW j \in M, NEW h, Stores(j, h) PROVE h.id \in M
  <2>1. PICK g \in collect_reachable(s) : g.id = j
    BY <1>8 DEF identities, ids
  <2>2. record(g)
    BY <1>1, <2>1 DEF plan_transfer, collect_owned_identities
  <2>3. h \in children(g)
    BY <1>8, <2>1, <2>2 DEF children, fields, Stores
  <2>4. h \in collect_reachable(s)
    BY <2>1, <2>3, BelowClosed DEF collect_reachable
  <2> QED
    BY <2>4 DEF identities, ids
<1>9. M \subseteq DOMAIN records
  <2>1. ASSUME NEW g \in collect_reachable(s) PROVE g.id \in DOMAIN records
    BY <1>1, <2>1 DEF plan_transfer, collect_owned_identities, record
  <2> QED
    BY <2>1 DEF identities, ids
<1> HIDE DEF M
<1>10. ASSUME NEW i \in DOMAIN records PROVE \E S : Under(S, i)' /\ i \notin S
  <2>1. PICK S : Under(S, i) /\ i \notin S
    BY DEF Acyclic
  <2>2. PICK m : m = M
    OBVIOUS
  <2>3. CASE i \in m
    <3>1. c \notin (S \cap m) \cup {i}
      BY <1>1, <2>2, <2>3 DEF M
    <3>2. Under(S \cap m, i)'
      BY <1>5, <1>7, <1>8, <2>1, <2>2, <2>3, <3>1 DEF Under
    <3> QED
      BY <2>1, <3>2
  <2>4. CASE i \notin m
    <3>1. Under(S \cup m, i)'
      BY <1>5, <1>7, <1>8, <1>9, <2>1, <2>2 DEF Under
    <3> QED
      BY <2>1, <2>4, <3>1
  <2> QED
    BY <2>3, <2>4
<1> QED
  BY <1>5, <1>10 DEF Acyclic


\* Every step.
LEMMA AcyclicStep ==
    ASSUME TypeOK, TypeOK', OwnerInv, OwnerInv', Acyclic, Kind
    PROVE  Acyclic'
<1>1. CASE Reads
  BY <1>1, AcyclicKept DEF Reads, Stores
<1>2. CASE Transfers
  <2>1. PICK s \in Value : plan_transfer(s) /\ records' = commit_transfer(s)
    BY <1>2 DEF Transfers
  <2>2. PICK recs : recs = commit_transfer(s)
    OBVIOUS
  <2>3. /\ DOMAIN recs = DOMAIN records
        /\ \A i \in DOMAIN records : recs[i].fields = records[i].fields
    BY <2>2, CommitType, CommitTable DEF TypeOK
  <2> QED
    BY <2>1, <2>2, <2>3, AcyclicKept DEF Stores
<1>3. CASE Creates
  BY <1>3, AcyclicCreates DEF OwnerInv
<1>4. CASE Drops
  <2>1. PICK s \in Value :
          records' = [i \in DOMAIN records |->
                         IF i \in identities(s)
                         THEN [records[i] EXCEPT !.status = "dropped"]
                         ELSE records[i]]
    BY <1>4 DEF Drops
  <2>2. /\ DOMAIN records' = DOMAIN records
        /\ \A i \in DOMAIN records : records'[i].fields = records[i].fields
    BY <2>1, DropTable
  <2> QED
    BY <2>2, AcyclicKept DEF Stores
<1>5. CASE Takes
  <2>1. PICK c \in DOMAIN records : \E k \in DOMAIN records[c].fields :
          records' = with_field(records, c, k, tombstone(records[c].fields[k]))
    BY <1>5 DEF Takes
  <2>2. PICK at, leaf, f :
          /\ f = records[c].fields /\ at \in DOMAIN f /\ leaf = tombstone(f[at])
          /\ records' = with_field(records, c, at, leaf)
    BY <2>1
  <2>3. records \in Seq(ResourceRecord) /\ f \in Value /\ leaf \in Leaf /\ ~ is_handle(leaf)
    BY <2>2, RecordType, TombstoneLeaf DEF TypeOK
  <2>4. /\ DOMAIN records' = DOMAIN records
        /\ \A j \in DOMAIN records : j # c => records'[j] = records[j]
        /\ records'[c].fields = [f EXCEPT ![at] = leaf]
    BY <2>2, <2>3, WithFieldTable
  <2>5. ASSUME NEW j, NEW h, Stores(j, h)' PROVE Stores(j, h)
    <3>1. CASE j # c
      BY <2>4, <2>5, <3>1 DEF Stores
    <3>2. CASE j = c
      <4>1. h \in handles([f EXCEPT ![at] = leaf])
        BY <2>4, <2>5, <3>2 DEF Stores
      <4>2. h \in handles(f) \cup handles(<<leaf>>)
        BY <2>2, <2>3, <4>1, EditedHandles
      <4>3. handles(<<leaf>>) = {}
        BY <2>3, OneHandle
      <4> QED
        BY <2>2, <3>2, <4>2, <4>3 DEF Stores
    <3> QED
      BY <3>1, <3>2
  <2> QED
    BY <2>4, <2>5, AcyclicKept
<1>6. CASE Refills
  BY <1>6, AcyclicRefills DEF OwnerInv
<1> QED
  BY <1>1, <1>2, <1>3, <1>4, <1>5, <1>6 DEF Kind

\* For every NIR module, verified or not, no chain of containers comes back to
\* where it starts: the runtime's recursive walks of an ownership graph
\* (collect_owned_identities, drop_resource) end.
THEOREM NoOwnershipCycle == Spec => []OwnershipAcyclic
<1>1. Init => Acyclic
  BY DEF Init, Acyclic
<1>2. ASSUME TypeOK, TypeOK', OwnerInv, OwnerInv', Acyclic, [Next]_vars PROVE Acyclic'
  BY <1>2, StepKind, AcyclicStep DEF OwnerInv
<1>3. ASSUME Acyclic PROVE OwnershipAcyclic
  <2>1. ASSUME NEW i \in Alive, NEW r, r.id = i,
               i \in ids(below({r}))
        PROVE  FALSE
    <3>1. PICK S : Under(S, i) /\ i \notin S
      BY <1>3 DEF Acyclic, Alive
    <3>2. PICK g \in below({r}) : g.id = i
      BY <2>1 DEF ids
    <3> DEFINE T == {h \in stored_handles : h.id \in S}
    <3>3. ASSUME NEW h \in {r} \cup T PROVE children(h) \subseteq T
      <4>1. ASSUME NEW x \in children(h) PROVE x \in T
        <5>1. Stores(h.id, x)
          BY <4>1 DEF children, fields, record, Stores
        <5>2. h.id \in S \cup {i}
          BY <2>1, <3>3
        <5>3. x.id \in S /\ x \in stored_handles
          BY <3>1, <5>1, <5>2 DEF Under, Stores, stored_handles
        <5> QED
          BY <5>3
      <4> QED
        BY <4>1
    <3>4. T \in SUBSET stored_handles
      OBVIOUS
    <3> HIDE DEF T
    <3>5. g \in T
      BY <3>2, <3>3, <3>4 DEF below
    <3> QED
      BY <3>1, <3>2, <3>5 DEF T
  <2> QED
    BY <2>1 DEF OwnershipAcyclic
<1> QED
  BY <1>1, <1>2, <1>3, TypeCorrect, OwnerInvariant, PTL DEF Spec

=============================================================================
