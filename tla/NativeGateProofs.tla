-------------------------- MODULE NativeGateProofs --------------------------
(***************************************************************************)
(* Theorems about the gate of NativeCapability, for every program.         *)
(***************************************************************************)
EXTENDS NativeCode, TLAPS, FiniteSetTheorems, SequenceTheorems, WellFoundedInduction

-----------------------------------------------------------------------------
(* Sets of ids and their order. *)

\* A nonempty set of ids has a least one.
LEMMA LeastId ==
    ASSUME NEW S \in SUBSET Nat, S # {}
    PROVE  Least(S) \in S /\ \A y \in S : Least(S) <= y
<1> DEFINE less == {p \in Nat \X Nat : p[1] < p[2]}
<1>1. IsWellFoundedOn(less, Nat)
  BY NatLessThanWellFounded DEF OpToRel
<1>2. PICK x \in S : \A y \in S : <<y, x>> \notin less
  BY <1>1, WFMin
<1>3. \A y \in S : x <= y
  <2> SUFFICES ASSUME NEW y \in S PROVE x <= y
    OBVIOUS
  <2>1. x \in Nat /\ y \in Nat /\ ~(y < x)
    BY <1>2
  <2> QED
    BY <2>1
<1> QED
  BY <1>3 DEF Least

\* In a finite set, each member has a place: the number of members with a
\* smaller key.  Members with different keys have different places, so that
\* every place is taken.
LEMMA PlaceFacts ==
    ASSUME NEW S, IsFiniteSet(S), NEW key \in [S -> Nat]
    PROVE  /\ \A x \in S : Place(S, key, x) \in Nat /\ Place(S, key, x) < Cardinality(S)
           /\ \A x, y \in S : key[x] < key[y] => Place(S, key, x) < Place(S, key, y)
<1> DEFINE Below(x) == {y \in S : key[y] < key[x]}
<1>1. Cardinality(S) \in Nat
  BY FS_CardinalityType
<1>2. ASSUME NEW x \in S
      PROVE  IsFiniteSet(Below(x)) /\ Place(S, key, x) \in Nat /\ Place(S, key, x) < Cardinality(S)
  <2>1. Below(x) \subseteq S /\ x \notin Below(x)
    OBVIOUS
  <2> HIDE DEF Below
  <2>2. /\ IsFiniteSet(Below(x)) /\ Cardinality(Below(x)) <= Cardinality(S)
        /\ Cardinality(Below(x)) = Cardinality(S) <=> Below(x) = S
    BY <2>1, FS_Subset
  <2>3. Cardinality(Below(x)) \in Nat
    BY <2>2, FS_CardinalityType
  <2>4. Place(S, key, x) = Cardinality(Below(x))
    BY DEF Place, Below
  <2> QED
    BY <1>1, <2>1, <2>2, <2>3, <2>4
<1>3. ASSUME NEW x \in S, NEW y \in S, key[x] < key[y]
      PROVE  Place(S, key, x) < Place(S, key, y)
  <2>1. Below(x) \subseteq Below(y) /\ x \in Below(y) /\ x \notin Below(x)
    BY <1>3
  <2>2. IsFiniteSet(Below(y))
    BY <1>2
  <2>3. Place(S, key, x) = Cardinality(Below(x)) /\ Place(S, key, y) = Cardinality(Below(y))
    BY DEF Place
  <2> HIDE DEF Below
  <2>4. /\ Cardinality(Below(x)) <= Cardinality(Below(y))
        /\ Cardinality(Below(x)) = Cardinality(Below(y)) <=> Below(x) = Below(y)
    BY <2>1, <2>2, FS_Subset
  <2>5. Place(S, key, x) \in Nat /\ Place(S, key, y) \in Nat
    BY <1>2
  <2> QED
    BY <2>1, <2>3, <2>4, <2>5
<1> QED
  BY <1>2, <1>3

LEMMA EveryPlaceIsTaken ==
    ASSUME NEW S, IsFiniteSet(S), NEW key \in [S -> Nat],
           \A x, y \in S : key[x] = key[y] => x = y
    PROVE  /\ \A x, y \in S : Place(S, key, x) = Place(S, key, y) => x = y
           /\ \A i \in 1 .. Cardinality(S) : \E x \in S : Place(S, key, x) = i - 1
<1> DEFINE n == Cardinality(S)
           place == [x \in S |-> Place(S, key, x)]
<1>1. n \in Nat
  BY FS_CardinalityType
<1>2. ASSUME NEW x \in S, NEW y \in S, Place(S, key, x) = Place(S, key, y)
      PROVE  x = y
  <2>1. ~(key[x] < key[y]) /\ ~(key[y] < key[x])
    BY <1>2, PlaceFacts
  <2> QED
    BY <2>1
<1>3. place \in Injection(S, 0 .. n - 1)
  <2>1. ASSUME NEW x \in S
        PROVE  Place(S, key, x) \in 0 .. n - 1
    BY <1>1, PlaceFacts
  <2> QED
    BY <1>2, <2>1 DEF Injection, IsInjective
<1>4. IsFiniteSet(0 .. n - 1) /\ Cardinality(0 .. n - 1) = n
  BY <1>1, FS_Interval
<1>5. place \in Surjection(S, 0 .. n - 1)
  BY <1>3, <1>4, FS_Injection
<1>6. ASSUME NEW i \in 1 .. n
      PROVE  \E x \in S : Place(S, key, x) = i - 1
  <2>1. i - 1 \in 0 .. n - 1
    BY <1>1
  <2>2. PICK x \in S : place[x] = i - 1
    BY <1>5, <2>1 DEF Surjection
  <2> QED
    BY <2>2
<1> QED
  BY <1>2, <1>6

\* What sorting promises: every member once, in ascending order of the keys.
LEMMA SortedByFacts ==
    ASSUME NEW S, IsFiniteSet(S), NEW key \in [S -> Nat],
           \A x, y \in S : key[x] = key[y] => x = y
    PROVE  /\ SortedBy(S, key) \in Seq(S)
           /\ Len(SortedBy(S, key)) = Cardinality(S)
           /\ DOMAIN SortedBy(S, key) = 1 .. Cardinality(S)
           /\ Range(SortedBy(S, key)) = S
           /\ \A i, j \in DOMAIN SortedBy(S, key) :
                i < j => key[SortedBy(S, key)[i]] < key[SortedBy(S, key)[j]]
<1> DEFINE n == Cardinality(S)
           s == SortedBy(S, key)
<1>1. n \in Nat
  BY FS_CardinalityType
<1>2. ASSUME NEW i \in 1 .. n
      PROVE  s[i] \in S /\ Place(S, key, s[i]) = i - 1
  <2>1. \E x \in S : Place(S, key, x) = i - 1
    BY EveryPlaceIsTaken
  <2>2. s[i] = CHOOSE x \in S : Place(S, key, x) = i - 1
    BY DEF SortedBy
  <2> QED
    BY <2>1, <2>2
<1>3. s \in [1 .. n -> S] /\ DOMAIN s = 1 .. n
  <2>1. s = [i \in 1 .. n |-> s[i]]
    BY DEF SortedBy
  <2> QED
    BY <1>2, <2>1
<1> HIDE DEF s
<1>4. s \in Seq(S) /\ Len(s) = n
  BY <1>1, <1>3
<1>5. ASSUME NEW x \in S
      PROVE  x \in Range(s)
  <2> DEFINE at == Place(S, key, x) + 1
  <2>1. Place(S, key, x) \in Nat /\ Place(S, key, x) < n
    BY PlaceFacts
  <2>2. at \in 1 .. n /\ at - 1 = Place(S, key, x)
    BY <1>1, <2>1
  <2>3. s[at] \in S /\ Place(S, key, s[at]) = Place(S, key, x)
    BY <1>2, <2>2
  <2>4. s[at] = x
    BY <2>3, EveryPlaceIsTaken
  <2> QED
    BY <1>3, <2>2, <2>4 DEF Range
<1>6. ASSUME NEW i \in 1 .. n, NEW j \in 1 .. n, i < j
      PROVE  key[s[i]] < key[s[j]]
  <2>1. s[i] \in S /\ s[j] \in S /\ Place(S, key, s[i]) = i - 1 /\ Place(S, key, s[j]) = j - 1
    BY <1>2
  <2>2. Place(S, key, s[i]) < Place(S, key, s[j])
    BY <1>1, <1>6, <2>1
  <2>3. ~(key[s[j]] < key[s[i]]) /\ s[i] # s[j]
    BY <2>1, <2>2, PlaceFacts
  <2>4. key[s[i]] # key[s[j]]
    BY <2>1, <2>3
  <2> QED
    BY <2>1, <2>3, <2>4
<1> QED
  BY <1>3, <1>4, <1>5, <1>6 DEF Range, s

\* Ids in ascending order.
LEMMA AscendingFacts ==
    ASSUME NEW S \in SUBSET Nat, IsFiniteSet(S)
    PROVE  /\ Ascending(S) \in Seq(S)
           /\ Len(Ascending(S)) = Cardinality(S)
           /\ DOMAIN Ascending(S) = 1 .. Cardinality(S)
           /\ Range(Ascending(S)) = S
           /\ \A i, j \in DOMAIN Ascending(S) : i < j => Ascending(S)[i] < Ascending(S)[j]
<1> DEFINE key == [x \in S |-> x]
<1>1. key \in [S -> Nat] /\ \A x, y \in S : key[x] = key[y] => x = y
  OBVIOUS
<1>2. Ascending(S) = SortedBy(S, key)
  BY DEF Ascending
<1> HIDE DEF key
<1>3. /\ Ascending(S) \in Seq(S)
      /\ Len(Ascending(S)) = Cardinality(S)
      /\ DOMAIN Ascending(S) = 1 .. Cardinality(S)
      /\ Range(Ascending(S)) = S
      /\ \A i, j \in DOMAIN Ascending(S) :
           i < j => key[Ascending(S)[i]] < key[Ascending(S)[j]]
  BY <1>1, <1>2, SortedByFacts
<1>4. \A i \in DOMAIN Ascending(S) : Ascending(S)[i] \in S
  BY <1>3
<1> QED
  BY <1>3, <1>4 DEF key

-----------------------------------------------------------------------------
(* The call graph. *)

LEMMA CallsReachFacts ==
    /\ \A f : CallsReach(f, f)
    /\ \A f \in reached : \A g \in Callees(f) : CallsReach(f, g)
    /\ \A f, g, h : CallsReach(f, g) /\ CallsReach(g, h) => CallsReach(f, h)
    /\ \A S \in SUBSET reached : \A f \in S : \A g :
         (\A h \in S : Callees(h) \subseteq S) /\ CallsReach(f, g) => g \in S
  BY DEF CallsReach

\* The members of a cycle have one cycle.
LEMMA CycleIsShared ==
    ASSUME NEW f, NEW g \in CycleOf(f)
    PROVE  CycleOf(g) = CycleOf(f)
<1>1. CallsReach(f, g) /\ CallsReach(g, f)
  BY DEF CycleOf
<1>2. \A h \in reached : (CallsReach(g, h) /\ CallsReach(h, g)) <=> (CallsReach(f, h) /\ CallsReach(h, f))
  BY <1>1, CallsReachFacts
<1> QED
  BY <1>2 DEF CycleOf

\* A function that another one of its cycle reaches goes back to itself
\* through one of its callees.
LEMMA CycleHasCall ==
    ASSUME NEW f \in reached, NEW g \in CycleOf(f), g # f
    PROVE  OnCycle(f)
<1> DEFINE S == {f} \cup {h \in reached : \E c \in Callees(f) : CallsReach(c, h)}
<1>1. S \in SUBSET reached /\ f \in S
  OBVIOUS
<1>2. ASSUME NEW h \in S, NEW k \in Callees(h)
      PROVE  k \in S
  <2>1. k \in reached
    BY DEF Callees
  <2>2. CASE h = f
    BY <2>1, <2>2, CallsReachFacts
  <2>3. CASE h # f
    <3>1. PICK c \in Callees(f) : CallsReach(c, h)
      BY <2>3
    <3>2. h \in reached
      BY <2>3
    <3>3. CallsReach(c, k)
      BY <3>1, <3>2, CallsReachFacts
    <3> QED
      BY <2>1, <3>3
  <2> QED
    BY <2>2, <2>3
<1>3. CallsReach(f, g) /\ CallsReach(g, f)
  BY DEF CycleOf
<1>4. g \in S
  BY <1>1, <1>2, <1>3, CallsReachFacts
<1>5. PICK c \in Callees(f) : CallsReach(c, g)
  BY <1>4
<1>6. CallsReach(c, f)
  BY <1>3, <1>5, CallsReachFacts
<1> QED
  BY <1>6 DEF OnCycle

-----------------------------------------------------------------------------
(* Tarjan's search, away from the sequences it is written with.  K is the  *)
(* set of functions on the stack, G those of them still being visited, and *)
(* seen[g] the callees of g that have been looked at.  A function with an  *)
(* index that is not on the stack belongs to a component already found.    *)

Coloured(index, low, K, G, seen) ==
    /\ DOMAIN index \in SUBSET reached
    /\ index \in [DOMAIN index -> Nat] /\ low \in [DOMAIN index -> Nat]
    /\ K \subseteq DOMAIN index /\ G \subseteq K
    /\ seen \in [G -> SUBSET reached]
    /\ \A x, y \in K : index[x] = index[y] => x = y

\* No call is overlooked: what is found calls only what is found, what is done
\* calls only what has an index.
CallsFollowed(index, K, G, seen) ==
    /\ \A x \in DOMAIN index \ K : Callees(x) \subseteq DOMAIN index \ K
    /\ \A x \in K \ G : Callees(x) \subseteq DOMAIN index
    /\ \A g \in G : seen[g] \subseteq Callees(g) \cap DOMAIN index

\* A function being visited reaches everything above it, and everything on
\* the stack reaches one being visited at or below it.
StackConnected(index, K, G) ==
    /\ \A g \in G, y \in K : index[g] <= index[y] => CallsReach(g, y)
    /\ \A y \in K : \E g \in G : index[g] <= index[y] /\ CallsReach(y, g)

\* A lowlink is the index of something on the stack that is reached.
LowIsReached(index, low, K, G) ==
    \A g \in G : /\ low[g] <= index[g]
                 /\ \E z \in K : index[z] = low[g] /\ CallsReach(g, z)

\* g is the function being visited that y is above of.
Above(index, G, g, y) ==
    index[g] <= index[y] /\ \A h \in G : index[h] <= index[y] => index[h] <= index[g]

\* A lowlink is at most the index of whatever is called, on the stack, from
\* the function or from what is above it.
LowIsLeast(index, low, K, G, seen) ==
    /\ \A y \in K \ G : \A z \in Callees(y) \cap K : \A g \in G :
         Above(index, G, g, y) => low[g] <= index[z]
    /\ \A g \in G : \A z \in seen[g] \cap K : low[g] <= index[z]

Search(index, low, K, G, seen) ==
    /\ Coloured(index, low, K, G, seen)
    /\ CallsFollowed(index, K, G, seen)
    /\ StackConnected(index, K, G)
    /\ LowIsReached(index, low, K, G)
    /\ LowIsLeast(index, low, K, G, seen)

\* x is the function visited last.
Newest(index, G, x) == x \in G /\ \A g \in G : index[g] <= index[x]

\* A callee, or a root, is entered.
LEMMA EnterSearch ==
    ASSUME NEW index, NEW low, NEW K, NEW G, NEW seen, Search(index, low, K, G, seen),
           NEW x \in reached \ DOMAIN index, NEW n \in Nat, \A y \in DOMAIN index : index[y] < n,
           G = {} \/ \E p \in G : Newest(index, G, p) /\ x \in Callees(p)
    PROVE  /\ Search(Insert(index, x, n), Insert(low, x, n), K \cup {x}, G \cup {x}, Insert(seen, x, {}))
           /\ Newest(Insert(index, x, n), G \cup {x}, x)
<1> DEFINE index2 == Insert(index, x, n)
           low2 == Insert(low, x, n)
           K2 == K \cup {x}
           G2 == G \cup {x}
           seen2 == Insert(seen, x, {})
<1>1. /\ DOMAIN index2 = DOMAIN index \cup {x} /\ index2[x] = n
      /\ \A y \in DOMAIN index : index2[y] = index[y]
      /\ index2 \in [DOMAIN index \cup {x} -> Nat]
  BY DEF Insert, Search, Coloured
<1>2. /\ low2[x] = n /\ low2 \in [DOMAIN index \cup {x} -> Nat]
      /\ \A y \in DOMAIN index : low2[y] = low[y]
  BY DEF Insert, Search, Coloured
<1>3. /\ seen2[x] = {} /\ seen2 \in [G \cup {x} -> SUBSET reached]
      /\ \A g \in G : seen2[g] = seen[g]
  BY DEF Insert, Search, Coloured
<1> HIDE DEF index2, low2, seen2
<1>4. /\ DOMAIN index \subseteq reached /\ K \subseteq DOMAIN index /\ G \subseteq K
      /\ index \in [DOMAIN index -> Nat] /\ low \in [DOMAIN index -> Nat] /\ x \notin K /\ x \notin G
  BY DEF Search, Coloured
<1>5. Coloured(index2, low2, K2, G2, seen2)
  <2>1. \A y, z \in K2 : index2[y] = index2[z] => y = z
    BY <1>1, <1>4 DEF Search, Coloured
  <2> QED
    BY <1>1, <1>2, <1>3, <1>4, <2>1 DEF Coloured
<1>6. CallsFollowed(index2, K2, G2, seen2)
  BY <1>1, <1>3, <1>4 DEF Search, CallsFollowed
<1>7. \A g \in G : CallsReach(g, x)
  <2> SUFFICES ASSUME NEW g \in G PROVE CallsReach(g, x)
    OBVIOUS
  <2>1. PICK p \in G : Newest(index, G, p) /\ x \in Callees(p)
    OBVIOUS
  <2>2. CallsReach(g, p)
    BY <1>4, <2>1 DEF Search, StackConnected, Newest
  <2>3. CallsReach(p, x)
    BY <1>4, <2>1, CallsReachFacts
  <2> QED
    BY <2>2, <2>3, CallsReachFacts
<1>8. StackConnected(index2, K2, G2)
  <2>1. ASSUME NEW g \in G2, NEW y \in K2, index2[g] <= index2[y]
        PROVE  CallsReach(g, y)
    <3>1. CASE g \in G /\ y \in K
      BY <1>1, <1>4, <2>1, <3>1 DEF Search, StackConnected
    <3>2. CASE y = x
      BY <1>7, <3>2, CallsReachFacts
    <3>3. CASE g = x /\ y \in K
      BY <1>1, <1>4, <2>1, <3>3
    <3> QED
      BY <3>1, <3>2, <3>3
  <2>2. ASSUME NEW y \in K2
        PROVE  \E g \in G2 : index2[g] <= index2[y] /\ CallsReach(y, g)
    <3>1. CASE y \in K
      BY <1>1, <1>4, <3>1 DEF Search, StackConnected
    <3>2. CASE y = x
      BY <1>1, <3>2, CallsReachFacts
    <3> QED
      BY <3>1, <3>2
  <2> QED
    BY <2>1, <2>2 DEF StackConnected
<1>9. LowIsReached(index2, low2, K2, G2)
  <2>1. ASSUME NEW g \in G
        PROVE  /\ low2[g] <= index2[g]
               /\ \E z \in K2 : index2[z] = low2[g] /\ CallsReach(g, z)
    BY <1>1, <1>2, <1>4 DEF Search, LowIsReached
  <2>2. /\ low2[x] <= index2[x]
        /\ \E z \in K2 : index2[z] = low2[x] /\ CallsReach(x, z)
    BY <1>1, <1>2, CallsReachFacts
  <2> QED
    BY <2>1, <2>2 DEF LowIsReached
<1>10. LowIsLeast(index2, low2, K2, G2, seen2)
  <2>1. ASSUME NEW y \in K2 \ G2, NEW z \in Callees(y) \cap K2, NEW g \in G2,
               Above(index2, G2, g, y)
        PROVE  low2[g] <= index2[z]
    <3>1. y \in K \ G /\ y \in DOMAIN index
      BY <1>4, <2>1
    <3>2. z \in K
      BY <3>1 DEF Search, CallsFollowed
    <3>3. g \in G
      BY <1>1, <2>1, <3>1 DEF Above
    <3>4. Above(index, G, g, y)
      BY <1>1, <1>4, <2>1, <3>1, <3>3 DEF Above
    <3> QED
      BY <1>1, <1>2, <1>4, <3>1, <3>2, <3>3, <3>4 DEF Search, LowIsLeast
  <2>2. ASSUME NEW g \in G2, NEW z \in seen2[g] \cap K2
        PROVE  low2[g] <= index2[z]
    <3>1. g \in G /\ z \in seen[g] /\ z # x
      BY <1>3, <1>4 DEF Search, CallsFollowed
    <3> QED
      BY <1>1, <1>2, <1>4, <3>1 DEF Search, LowIsLeast
  <2> QED
    BY <2>1, <2>2 DEF LowIsLeast
<1>11. Newest(index2, G2, x)
  BY <1>1, <1>4 DEF Newest
<1> QED
  BY <1>5, <1>6, <1>8, <1>9, <1>10, <1>11 DEF Search, index2, low2, seen2

\* Callees that have an index are looked at.
LEMMA ScanSearch ==
    ASSUME NEW index, NEW low, NEW K, NEW G, NEW seen, Search(index, low, K, G, seen),
           NEW x \in G, NEW new \in SUBSET (Callees(x) \cap DOMAIN index), NEW l \in Nat,
           l <= low[x], \A z \in new \cap K : l <= index[z],
           l = low[x] \/ \E z \in new \cap K : l = index[z]
    PROVE  Search(index, [low EXCEPT ![x] = l], K, G, [seen EXCEPT ![x] = @ \cup new])
<1> DEFINE low2 == [low EXCEPT ![x] = l]
           seen2 == [seen EXCEPT ![x] = @ \cup new]
<1>1. /\ DOMAIN index \subseteq reached /\ K \subseteq DOMAIN index /\ G \subseteq K
      /\ index \in [DOMAIN index -> Nat] /\ low \in [DOMAIN index -> Nat]
      /\ seen \in [G -> SUBSET reached]
  BY DEF Search, Coloured
<1>2. /\ low2 \in [DOMAIN index -> Nat] /\ low2[x] = l
      /\ \A g \in G : g # x => low2[g] = low[g]
      /\ \A g \in G : low2[g] <= low[g]
  BY <1>1
<1>3. /\ seen2 \in [G -> SUBSET reached] /\ seen2[x] = seen[x] \cup new
      /\ \A g \in G : g # x => seen2[g] = seen[g]
  BY <1>1
<1> HIDE DEF low2, seen2
<1>4. Coloured(index, low2, K, G, seen2)
  BY <1>2, <1>3 DEF Search, Coloured
<1>5. CallsFollowed(index, K, G, seen2)
  BY <1>3 DEF Search, CallsFollowed
<1>6. LowIsReached(index, low2, K, G)
  <2> SUFFICES ASSUME NEW g \in G
               PROVE  low2[g] <= index[g] /\ \E z \in K : index[z] = low2[g] /\ CallsReach(g, z)
    BY DEF LowIsReached
  <2>1. low[g] <= index[g] /\ \E z \in K : index[z] = low[g] /\ CallsReach(g, z)
    BY DEF Search, LowIsReached
  <2>2. low2[g] <= index[g]
    BY <1>1, <1>2, <2>1
  <2>3. CASE low2[g] = low[g]
    BY <2>1, <2>2, <2>3
  <2>4. CASE g = x /\ l # low[x]
    <3>1. PICK z \in new \cap K : l = index[z]
      BY <2>4
    <3>2. CallsReach(x, z)
      BY <1>1, <3>1, CallsReachFacts
    <3> QED
      BY <1>2, <2>2, <2>4, <3>1, <3>2
  <2> QED
    BY <1>2, <2>3, <2>4
<1>7. LowIsLeast(index, low2, K, G, seen2)
  <2>1. ASSUME NEW y \in K \ G, NEW z \in Callees(y) \cap K, NEW g \in G, Above(index, G, g, y)
        PROVE  low2[g] <= index[z]
    <3>1. low[g] <= index[z]
      BY <2>1 DEF Search, LowIsLeast
    <3> QED
      BY <1>1, <1>2, <3>1
  <2>2. ASSUME NEW g \in G, NEW z \in seen2[g] \cap K
        PROVE  low2[g] <= index[z]
    <3>1. CASE g = x /\ z \in new
      BY <1>2, <3>1
    <3>2. CASE z \in seen[g]
      <4>1. low[g] <= index[z]
        BY <3>2 DEF Search, LowIsLeast
      <4> QED
        BY <1>1, <1>2, <4>1
    <3> QED
      BY <1>3, <3>1, <3>2
  <2> QED
    BY <2>1, <2>2 DEF LowIsLeast
<1> QED
  BY <1>4, <1>5, <1>6, <1>7 DEF Search, low2, seen2

\* The newest function reaches something below it: it is done, and stays on
\* the stack.  Its caller takes its lowlink.
LEMMA DoneSearch ==
    ASSUME NEW index, NEW low, NEW K, NEW G, NEW seen, Search(index, low, K, G, seen),
           NEW x, Newest(index, G, x), seen[x] = Callees(x), low[x] < index[x],
           NEW p, Newest(index, G \ {x}, p), x \in Callees(p),
           NEW low2, low2 = [low EXCEPT ![p] = MinOf(low[p], low[x])],
           NEW seen2, seen2 = [g \in G \ {x} |-> IF g = p THEN seen[g] \cup {x} ELSE seen[g]]
    PROVE  Search(index, low2, K, G \ {x}, seen2)
<1> DEFINE l == MinOf(low[p], low[x])
           G2 == G \ {x}
<1>1. /\ DOMAIN index \subseteq reached /\ K \subseteq DOMAIN index /\ G \subseteq K
      /\ index \in [DOMAIN index -> Nat] /\ low \in [DOMAIN index -> Nat]
      /\ seen \in [G -> SUBSET reached]
      /\ \A y, z \in K : index[y] = index[z] => y = z
  BY DEF Search, Coloured
<1>2. x \in G /\ x \in K /\ x \in reached /\ p \in G2 /\ p \in K /\ p \in G /\ p # x
  BY <1>1 DEF Newest
<1>3. \A g \in G : index[g] \in Nat /\ low[g] \in Nat
  BY <1>1
<1>4. l \in Nat /\ l <= low[p] /\ l <= low[x] /\ (l = low[p] \/ l = low[x])
  BY <1>2, <1>3 DEF MinOf
<1>0. low2 = [low EXCEPT ![p] = l]
  OBVIOUS
<1> HIDE DEF l
<1>5. /\ low2 \in [DOMAIN index -> Nat] /\ low2[p] = l
      /\ \A g \in G : g # p => low2[g] = low[g]
      /\ \A g \in G : low2[g] <= low[g] /\ low2[g] \in Nat
  BY <1>0, <1>1, <1>2, <1>4
<1>6. /\ seen2 \in [G2 -> SUBSET reached] /\ seen2[p] = seen[p] \cup {x}
      /\ \A g \in G2 : g # p => seen2[g] = seen[g]
  BY <1>1, <1>2
<1>7. Coloured(index, low2, K, G2, seen2)
  BY <1>1, <1>5, <1>6 DEF Coloured
<1>8. CallsFollowed(index, K, G2, seen2)
  <2>1. \A y \in K \ G2 : Callees(y) \subseteq DOMAIN index
    BY <1>2 DEF Search, CallsFollowed
  <2>2. \A g \in G2 : seen2[g] \subseteq Callees(g) \cap DOMAIN index
    BY <1>1, <1>2, <1>6 DEF Search, CallsFollowed
  <2> QED
    BY <2>1, <2>2 DEF Search, CallsFollowed
<1>9. PICK z0 \in K : index[z0] = low[x] /\ CallsReach(x, z0)
  BY <1>2 DEF Search, LowIsReached
<1>10. PICK g0 \in G2 : index[g0] <= index[x] /\ CallsReach(x, g0)
  <2>1. PICK g \in G : index[g] <= index[z0] /\ CallsReach(z0, g)
    BY DEF Search, StackConnected
  <2>2. index[g] < index[x]
    BY <1>1, <1>2, <1>9, <2>1
  <2>3. g # x
    BY <1>1, <1>2, <2>2
  <2>4. CallsReach(x, g)
    BY <1>9, <2>1, CallsReachFacts
  <2>5. index[g] <= index[x]
    BY <1>1, <1>2, <2>2
  <2> QED
    BY <2>3, <2>4, <2>5
<1>11. StackConnected(index, K, G2)
  <2>1. ASSUME NEW y \in K
        PROVE  \E g \in G2 : index[g] <= index[y] /\ CallsReach(y, g)
    <3>1. PICK g \in G : index[g] <= index[y] /\ CallsReach(y, g)
      BY DEF Search, StackConnected
    <3>2. CASE g # x
      BY <3>1, <3>2
    <3>3. CASE g = x
      <4>1. index[g0] <= index[y]
        BY <1>1, <1>2, <1>10, <3>1, <3>3
      <4>2. CallsReach(y, g0)
        BY <1>10, <3>1, <3>3, CallsReachFacts
      <4> QED
        BY <4>1, <4>2
    <3> QED
      BY <3>2, <3>3
  <2> QED
    BY <2>1 DEF Search, StackConnected
<1>12. LowIsReached(index, low2, K, G2)
  <2> SUFFICES ASSUME NEW g \in G2
               PROVE  low2[g] <= index[g] /\ \E z \in K : index[z] = low2[g] /\ CallsReach(g, z)
    BY DEF LowIsReached
  <2>1. low[g] <= index[g] /\ \E z \in K : index[z] = low[g] /\ CallsReach(g, z)
    BY DEF Search, LowIsReached
  <2>2. low2[g] <= index[g]
    BY <1>3, <1>5, <2>1
  <2>3. CASE low2[g] = low[g]
    BY <2>1, <2>2, <2>3
  <2>4. CASE g = p /\ l = low[x]
    <3>1. index[p] <= index[x]
      BY <1>2 DEF Newest
    <3>2. CallsReach(p, x)
      BY <1>2, <3>1 DEF Search, StackConnected
    <3>3. CallsReach(p, z0)
      BY <1>9, <3>2, CallsReachFacts
    <3> QED
      BY <1>5, <1>9, <2>2, <2>4, <3>3
  <2> QED
    BY <1>4, <1>5, <2>3, <2>4
<1>13. LowIsLeast(index, low2, K, G2, seen2)
  <2>1. ASSUME NEW y \in K \ G2, NEW z \in Callees(y) \cap K, NEW g \in G2, Above(index, G2, g, y)
        PROVE  low2[g] <= index[z]
    <3>1. index[y] \in Nat /\ index[x] \in Nat /\ index[z] \in Nat /\ index[g] \in Nat
      BY <1>1, <1>2
    <3>2. CASE index[x] <= index[y]
      <4>1. low[x] <= index[z]
        <5>1. CASE y = x
          BY <1>2, <5>1 DEF Search, LowIsLeast
        <5>2. CASE y # x
          <6>1. y \in K \ G
            BY <2>1, <5>2
          <6>2. Above(index, G, x, y)
            BY <3>2 DEF Above, Newest
          <6> QED
            BY <1>2, <6>1, <6>2 DEF Search, LowIsLeast
        <5> QED
          BY <5>1, <5>2
      <4>2. index[p] <= index[y] /\ index[g] <= index[p]
        BY <1>1, <1>2, <3>1, <3>2 DEF Newest
      <4>3. index[p] <= index[g]
        BY <1>2, <2>1, <4>2 DEF Above
      <4>4. g = p
        BY <1>1, <1>2, <4>2, <4>3
      <4> QED
        BY <1>3, <1>2, <1>4, <1>5, <3>1, <4>1, <4>4
    <3>3. CASE ~(index[x] <= index[y])
      <4>1. y \in K \ G
        BY <1>2, <2>1, <3>1, <3>3
      <4>2. Above(index, G, g, y)
        BY <2>1, <3>3 DEF Above
      <4>3. low[g] <= index[z]
        BY <4>1, <4>2 DEF Search, LowIsLeast
      <4> QED
        BY <1>3, <1>5, <3>1, <4>3
    <3> QED
      BY <3>2, <3>3
  <2>2. ASSUME NEW g \in G2, NEW z \in seen2[g] \cap K
        PROVE  low2[g] <= index[z]
    <3>1. index[z] \in Nat /\ index[x] \in Nat
      BY <1>1, <1>2
    <3>2. CASE g = p /\ z = x
      BY <1>2, <1>3, <1>4, <1>5, <3>1, <3>2
    <3>3. CASE z \in seen[g]
      <4>1. low[g] <= index[z]
        BY <3>3 DEF Search, LowIsLeast
      <4> QED
        BY <1>3, <1>5, <3>1, <4>1
    <3> QED
      BY <1>6, <3>2, <3>3
  <2> QED
    BY <2>1, <2>2 DEF LowIsLeast
<1> QED
  BY <1>7, <1>8, <1>11, <1>12, <1>13 DEF Search

\* If the newest function reaches something below it, it has a caller.
LEMMA DoneHasCaller ==
    ASSUME NEW index, NEW low, NEW K, NEW G, NEW seen, Search(index, low, K, G, seen),
           NEW x \in G, low[x] < index[x]
    PROVE  G \ {x} # {}
<1>1. /\ K \subseteq DOMAIN index /\ G \subseteq K /\ index \in [DOMAIN index -> Nat]
  BY DEF Search, Coloured
<1>2. PICK z \in K : index[z] = low[x]
  BY DEF Search, LowIsReached
<1>3. PICK g \in G : index[g] <= index[z]
  BY DEF Search, StackConnected
<1>4. index[g] < index[x]
  BY <1>1, <1>2, <1>3
<1> QED
  BY <1>1, <1>4

\* What is on the stack below x, and from x up; what may have been looked at
\* once x is done.
Beneath(index, K, x) == {y \in K : index[y] < index[x]}
Upwards(index, K, x) == {y \in K : index[x] <= index[y]}
HandedOn(G, x, seen, seen2) ==
    /\ seen2 \in [G \ {x} -> SUBSET reached]
    /\ \A g \in G \ {x} : seen2[g] \subseteq Callees(g) \cap (seen[g] \cup {x})

\* The newest function reaches nothing below it: what is on the stack from it
\* up is its cycle, and is taken off.
LEMMA RootSearch ==
    ASSUME NEW index, NEW low, NEW K, NEW G, NEW seen, Search(index, low, K, G, seen),
           NEW x, Newest(index, G, x), seen[x] = Callees(x), low[x] = index[x],
           NEW seen2, HandedOn(G, x, seen, seen2)
    PROVE  /\ Upwards(index, K, x) = CycleOf(x)
           /\ Search(index, low, Beneath(index, K, x), G \ {x}, seen2)
<1> DEFINE K2 == {y \in K : index[y] < index[x]}
           C == {y \in K : index[x] <= index[y]}
           G2 == G \ {x}
           Found == DOMAIN index \ K
<1>1. /\ DOMAIN index \subseteq reached /\ K \subseteq DOMAIN index /\ G \subseteq K
      /\ index \in [DOMAIN index -> Nat] /\ low \in [DOMAIN index -> Nat]
      /\ seen \in [G -> SUBSET reached]
      /\ \A y, z \in K : index[y] = index[z] => y = z
  BY DEF Search, Coloured
<1>0. /\ seen2 \in [G \ {x} -> SUBSET reached]
      /\ \A g \in G \ {x} : seen2[g] \subseteq Callees(g) \cap (seen[g] \cup {x})
  BY DEF HandedOn
<1>2. x \in G /\ x \in K /\ x \in reached /\ x \in DOMAIN index
  BY <1>1 DEF Newest
<1>3. /\ \A y \in K : index[y] \in Nat /\ (y \in K2 <=> y \notin C)
      /\ C \subseteq K /\ K2 \subseteq K /\ x \in C /\ DOMAIN index \ K2 = Found \cup C
  BY <1>1, <1>2
<1>4. \A y \in C : y # x => y \notin G
  <2> SUFFICES ASSUME NEW y \in C, y \in G PROVE y = x
    OBVIOUS
  <2>1. index[y] <= index[x] /\ index[x] <= index[y] /\ y \in K
    BY DEF Newest
  <2> QED
    BY <1>1, <1>2, <1>3, <2>1
<1>5. \A y \in C : Callees(y) \subseteq Found \cup C
  <2> SUFFICES ASSUME NEW y \in C, NEW z \in Callees(y), z \in K
               PROVE  z \in C
    <3>1. \A y \in C : Callees(y) \subseteq DOMAIN index
      BY <1>2, <1>4 DEF Search, CallsFollowed
    <3> QED
      BY <3>1
  <2>1. CASE y = x
    <3>1. low[x] <= index[z]
      BY <1>2, <2>1 DEF Search, LowIsLeast
    <3> QED
      BY <3>1
  <2>2. CASE y # x
    <3>1. y \in K \ G /\ Above(index, G, x, y)
      BY <1>4, <2>2 DEF Above, Newest
    <3>2. low[x] <= index[z]
      BY <1>2, <3>1 DEF Search, LowIsLeast
    <3> QED
      BY <3>2
  <2> QED
    BY <2>1, <2>2
<1>6. \A y \in Found : Callees(y) \subseteq Found
  BY DEF Search, CallsFollowed
<1>7. C = CycleOf(x)
  <2>1. ASSUME NEW y \in C
        PROVE  y \in CycleOf(x)
    <3>1. CallsReach(x, y)
      BY <1>2 DEF Search, StackConnected
    <3>2. PICK g \in G : CallsReach(y, g)
      BY DEF Search, StackConnected
    <3>3. CallsReach(g, x)
      BY <1>2 DEF Search, StackConnected, Newest
    <3>4. CallsReach(y, x)
      BY <3>2, <3>3, CallsReachFacts
    <3> QED
      BY <1>1, <1>3, <3>1, <3>4 DEF CycleOf
  <2>2. ASSUME NEW y \in CycleOf(x)
        PROVE  y \in C
    <3>1. y \in reached /\ CallsReach(x, y) /\ CallsReach(y, x)
      BY DEF CycleOf
    <3>2. Found \cup C \in SUBSET reached /\ Found \in SUBSET reached
      BY <1>1, <1>3
    <3> HIDE DEF C, Found
    <3>3. y \in Found \cup C
      <4> DEFINE S == Found \cup C
      <4>1. S \in SUBSET reached /\ x \in S /\ \A h \in S : Callees(h) \subseteq S
        BY <1>3, <1>5, <1>6, <3>2
      <4> HIDE DEF S
      <4>2. y \in S
        BY <3>1, <4>1, CallsReachFacts
      <4> QED
        BY <4>2 DEF S
    <3>4. y \notin Found
      <4> SUFFICES ASSUME y \in Found PROVE FALSE
        OBVIOUS
      <4>1. x \in Found
        BY <1>6, <3>1, <3>2, CallsReachFacts
      <4> QED
        BY <1>2, <4>1 DEF Found
    <3> QED
      BY <3>3, <3>4
  <2> QED
    BY <2>1, <2>2 DEF CycleOf
<1>8. \A g \in G2 : g \in K2
  <2> SUFFICES ASSUME NEW g \in G2 PROVE g \in K2
    OBVIOUS
  <2>1. g \in K /\ g \notin C
    BY <1>1, <1>4
  <2> QED
    BY <1>3, <2>1
<1>9. Coloured(index, low, K2, G2, seen2)
  BY <1>0, <1>1, <1>3, <1>8 DEF Coloured
<1>10. CallsFollowed(index, K2, G2, seen2)
  <2>1. \A y \in DOMAIN index \ K2 : Callees(y) \subseteq DOMAIN index \ K2
    BY <1>3, <1>5, <1>6
  <2>2. \A y \in K2 \ G2 : Callees(y) \subseteq DOMAIN index
    BY <1>3 DEF Search, CallsFollowed
  <2>3. \A g \in G2 : seen2[g] \subseteq Callees(g) \cap DOMAIN index
    BY <1>0, <1>2 DEF Search, CallsFollowed
  <2> QED
    BY <2>1, <2>2, <2>3 DEF CallsFollowed
<1>11. StackConnected(index, K2, G2)
  <2>1. ASSUME NEW y \in K2
        PROVE  \E g \in G2 : index[g] <= index[y] /\ CallsReach(y, g)
    <3>1. PICK g \in G : index[g] <= index[y] /\ CallsReach(y, g)
      BY DEF Search, StackConnected
    <3>2. g # x
      BY <1>1, <1>2, <1>3, <3>1
    <3> QED
      BY <3>1, <3>2
  <2> QED
    BY <1>3, <2>1 DEF Search, StackConnected
<1>12. LowIsReached(index, low, K2, G2)
  <2> SUFFICES ASSUME NEW g \in G2
               PROVE  low[g] <= index[g] /\ \E z \in K2 : index[z] = low[g] /\ CallsReach(g, z)
    BY DEF LowIsReached
  <2>1. low[g] <= index[g] /\ \E z \in K : index[z] = low[g] /\ CallsReach(g, z)
    BY DEF Search, LowIsReached
  <2>2. PICK z \in K : index[z] = low[g] /\ CallsReach(g, z)
    BY <2>1
  <2>3. index[z] < index[x]
    BY <1>1, <1>2, <1>3, <1>8, <2>1, <2>2
  <2> QED
    BY <2>1, <2>2, <2>3
<1>13. LowIsLeast(index, low, K2, G2, seen2)
  <2>1. ASSUME NEW y \in K2 \ G2, NEW z \in Callees(y) \cap K2, NEW g \in G2, Above(index, G2, g, y)
        PROVE  low[g] <= index[z]
    <3>1. y \in K \ G
      BY <1>2, <1>3
    <3>2. ~(index[x] <= index[y])
      BY <1>2, <1>3
    <3>3. Above(index, G, g, y)
      BY <2>1, <3>2 DEF Above
    <3> QED
      BY <1>3, <3>1, <3>3 DEF Search, LowIsLeast
  <2>2. ASSUME NEW g \in G2, NEW z \in seen2[g] \cap K2
        PROVE  low[g] <= index[z]
    <3>1. z \in seen[g]
      BY <1>0, <1>3
    <3> QED
      BY <1>3, <3>1 DEF Search, LowIsLeast
  <2> QED
    BY <2>1, <2>2 DEF LowIsLeast
<1> QED
  BY <1>7, <1>9, <1>10, <1>11, <1>12, <1>13 DEF Search, Upwards, Beneath

-----------------------------------------------------------------------------
(* The search as strongly_connected_components keeps it. *)

ReachedIds == reached \in SUBSET Nat /\ IsFiniteSet(reached)

\* What direct_callees collects is what the function names.
LEMMA NamesAreCallees ==
    ASSUME NEW f, NEW g
    PROVE  Names(f, g) <=> g \in direct_callees(f)
<1>1. ASSUME NEW b \in reachable_blocks(f), NEW i \in DOMAIN Instructions(f, b),
             Instructions(f, b)[i].op = "call", Instructions(f, b)[i].callee = g
      PROVE  g \in direct_callees(f)
  <2>1. <<b, i>> \in Sites(f) /\ <<b, i>>[1] = b /\ <<b, i>>[2] = i
    BY DEF Sites
  <2> QED
    BY <1>1, <2>1 DEF direct_callees
<1>2. ASSUME NEW b \in reachable_blocks(f), Funcs[f].blocks[b].term.op = "invoke",
             Funcs[f].blocks[b].term.callee = g
      PROVE  g \in direct_callees(f)
  BY <1>2 DEF direct_callees
<1>3. ASSUME NEW s \in Sites(f)
      PROVE  s[1] \in reachable_blocks(f) /\ s[2] \in DOMAIN Instructions(f, s[1])
  BY DEF Sites
<1>4. g \in direct_callees(f) => Names(f, g)
  BY <1>3 DEF direct_callees, Names
<1> QED
  BY <1>1, <1>2, <1>4 DEF Names

LEMMA CalleesAre ==
    ASSUME NEW f
    PROVE  Callees(f) = direct_callees(f) \cap reached
  BY NamesAreCallees DEF Callees

LEMMA EdgesFacts ==
    ASSUME ReachedIds, NEW f
    PROVE  /\ Edges(f) \in Seq(reached) /\ DOMAIN Edges(f) \in SUBSET (Nat \ {0})
           /\ DOMAIN Edges(f) = 1 .. Len(Edges(f))
           /\ Range(Edges(f)) = Callees(f)
           /\ \A i \in DOMAIN Edges(f) : Edges(f)[i] \in Callees(f) /\ Edges(f)[i] \in reached
<1> DEFINE S == direct_callees(f) \cap reached
<1>1. S \in SUBSET Nat /\ IsFiniteSet(S)
  BY FS_Subset DEF ReachedIds
<1>2. Edges(f) = Ascending(S) /\ Callees(f) = S /\ S \subseteq reached
  BY CalleesAre DEF Edges
<1> HIDE DEF S
<1>3. Cardinality(S) \in Nat
  BY <1>1, FS_CardinalityType
<1>4. /\ Ascending(S) \in Seq(S) /\ Len(Ascending(S)) = Cardinality(S)
      /\ DOMAIN Ascending(S) = 1 .. Cardinality(S) /\ Range(Ascending(S)) = S
  BY <1>1, AscendingFacts
<1>5. /\ Edges(f) \in Seq(reached) /\ DOMAIN Edges(f) = 1 .. Len(Edges(f))
      /\ Range(Edges(f)) = Callees(f) /\ Len(Edges(f)) \in Nat
  BY <1>2, <1>3, <1>4
<1> QED
  BY <1>5 DEF Range

\* The table of indices and the lowlinks, over the functions entered.
Tables == UNION {[D -> Nat] : D \in SUBSET reached}

SccRecord == [roots : Seq(reached), work : Seq([node : reached, next : Nat]),
              index : Tables, low : Tables, stack : Seq(reached), components : Seq(Seq(reached))]

\* The functions with an item on the work stack that has been entered.
Visiting(s) == {s.work[i].node : i \in {j \in DOMAIN s.work : s.work[j].next # 0}}

\* Every item but the last waits for the callee above it.
WorkIsPath(s) ==
    /\ \A i \in DOMAIN s.work : i < Len(s.work) =>
         /\ s.work[i].next \in DOMAIN Edges(s.work[i].node)
         /\ Edges(s.work[i].node)[s.work[i].next] = s.work[i + 1].node
    /\ \A i, j \in DOMAIN s.work :
         i < j /\ s.work[j].next # 0 => s.index[s.work[i].node] < s.index[s.work[j].node]
    /\ s.work # <<>> =>
         IF s.work[Len(s.work)].next = 0
         THEN s.work[Len(s.work)].node \notin Indexed(s)
         ELSE /\ s.work[Len(s.work)].next \in DOMAIN Edges(s.work[Len(s.work)].node)
              /\ Edges(s.work[Len(s.work)].node)[s.work[Len(s.work)].next] \in Indexed(s)

\* The stack is in the order of the indices, which are the first numbers.
StackInOrder(s) ==
    /\ DOMAIN s.low = Indexed(s)
    /\ \A x \in Indexed(s) : s.index[x] < Cardinality(Indexed(s))
    /\ \A i \in DOMAIN s.stack : s.stack[i] \in Indexed(s)
    /\ \A i, j \in DOMAIN s.stack : i < j => s.index[s.stack[i]] < s.index[s.stack[j]]

Unstacked(s) == Indexed(s) \ Range(s.stack)

\* The components found are the cycles of what is off the stack.
FoundAreCycles(s) ==
    /\ \A c \in Range(s.components) : \E x \in Unstacked(s) : c = Ascending(CycleOf(x))
    /\ \A x \in Unstacked(s) : Ascending(CycleOf(x)) \in Range(s.components)

\* Every function has an index or will be a root.
RootsCover(s) ==
    reached \subseteq Indexed(s) \cup Range(s.roots) \cup (IF s.work = <<>> THEN {} ELSE {s.work[1].node})

\* The callees an item has looked at; the last item's own callee is done too.
LookedAt(s, i) ==
    {Edges(s.work[i].node)[j] :
        j \in {k \in DOMAIN Edges(s.work[i].node) :
                 k < s.work[i].next \/ (i = Len(s.work) /\ k = s.work[i].next)}}

SccInv(s) ==
    /\ s \in SccRecord
    /\ WorkIsPath(s) /\ StackInOrder(s) /\ FoundAreCycles(s) /\ RootsCover(s)
    /\ \E seen : /\ Search(s.index, s.low, Range(s.stack), Visiting(s), seen)
                 /\ \A i \in DOMAIN s.work : s.work[i].next # 0 => LookedAt(s, i) \subseteq seen[s.work[i].node]

\* What the top of the work stack has become once its node is entered and its
\* callees are looked at up to the first one without an index.
LEMMA EnteredFields ==
    ASSUME scc \in SccRecord, scc.work # <<>>
    PROVE  /\ Item \in [node : reached, next : Nat] /\ Item = scc.work[Len(scc.work)]
           /\ Entered.work = SubSeq(scc.work, 1, Len(scc.work) - 1)
           /\ Entered.roots = scc.roots /\ Entered.components = scc.components
           /\ DOMAIN Entered = {"roots", "work", "index", "low", "stack", "components"}
           /\ Item.next # 0 => /\ Entered.index = scc.index /\ Entered.low = scc.low
                               /\ Entered.stack = scc.stack
           /\ Item.next = 0 =>
                /\ Entered.index = Insert(scc.index, Item.node, Cardinality(Indexed(scc)))
                /\ Entered.low = Insert(scc.low, Item.node, Cardinality(Indexed(scc)))
                /\ Entered.stack = Append(scc.stack, Item.node)
<1> DEFINE popped == [scc EXCEPT !.work = Front(@)]
<1>1. /\ scc.work \in Seq([node : reached, next : Nat]) /\ Len(scc.work) \in Nat \ {0}
      /\ Item = scc.work[Len(scc.work)] /\ Item \in [node : reached, next : Nat]
  <2> DEFINE T == [node : reached, next : Nat]
  <2>1. scc.work \in Seq(T)
    BY DEF SccRecord
  <2>2. Item = scc.work[Len(scc.work)]
    BY DEF Item, Last
  <2> HIDE DEF T
  <2>3. Len(scc.work) \in Nat \ {0} /\ scc.work[Len(scc.work)] \in T
    BY <2>1
  <2> QED
    BY <2>1, <2>2, <2>3 DEF T
<1>2. /\ popped.work = SubSeq(scc.work, 1, Len(scc.work) - 1)
      /\ popped.roots = scc.roots /\ popped.components = scc.components
      /\ popped.index = scc.index /\ popped.low = scc.low /\ popped.stack = scc.stack
      /\ DOMAIN popped = {"roots", "work", "index", "low", "stack", "components"}
  BY DEF SccRecord, Front
<1>3. Indexed(popped) = Indexed(scc)
  BY <1>2 DEF Indexed
<1>4. Entered = Enter(popped, Item.node, Item.next)
  BY DEF Entered
<1> HIDE DEF popped
<1>5. CASE Item.next # 0
  <2>1. Entered = popped
    BY <1>4, <1>5 DEF Enter
  <2> QED
    BY <1>1, <1>2, <1>5, <2>1
<1>6. CASE Item.next = 0
  <2> DEFINE n == Cardinality(Indexed(popped))
  <2>1. Entered = [popped EXCEPT !.index = Insert(@, Item.node, n), !.low = Insert(@, Item.node, n),
                                 !.stack = Append(@, Item.node)]
    BY <1>4, <1>6 DEF Enter
  <2> HIDE DEF n
  <2>2. /\ Entered.work = popped.work /\ Entered.roots = popped.roots
        /\ Entered.components = popped.components
        /\ DOMAIN Entered = {"roots", "work", "index", "low", "stack", "components"}
        /\ Entered.index = Insert(popped.index, Item.node, n)
        /\ Entered.low = Insert(popped.low, Item.node, n)
        /\ Entered.stack = Append(popped.stack, Item.node)
    BY <1>2, <2>1
  <2>3. n = Cardinality(Indexed(scc))
    BY <1>3 DEF n
  <2> QED
    BY <1>1, <1>2, <1>6, <2>2, <2>3
<1> QED
  BY <1>5, <1>6

\* Sequences and what they hold.
LEMMA RangeOfAppend ==
    ASSUME NEW T, NEW s \in Seq(T), NEW x \in T
    PROVE  /\ Append(s, x) \in Seq(T) /\ DOMAIN Append(s, x) = 1 .. Len(s) + 1
           /\ Append(s, x)[Len(s) + 1] = x
           /\ \A i \in 1 .. Len(s) : Append(s, x)[i] = s[i]
           /\ Range(Append(s, x)) = Range(s) \cup {x}
<1>1. /\ Append(s, x) \in Seq(T) /\ Len(s) \in Nat /\ DOMAIN Append(s, x) = 1 .. Len(s) + 1
      /\ Append(s, x)[Len(s) + 1] = x /\ DOMAIN s = 1 .. Len(s)
      /\ \A i \in 1 .. Len(s) : Append(s, x)[i] = s[i]
  OBVIOUS
<1> DEFINE a == Append(s, x)
<1> HIDE DEF a
<1>2. DOMAIN a = DOMAIN s \cup {Len(s) + 1}
  BY <1>1 DEF a
<1>3. a[Len(s) + 1] = x /\ \A i \in DOMAIN s : a[i] = s[i]
  BY <1>1 DEF a
<1>4. Range(a) = Range(s) \cup {x}
  BY <1>2, <1>3 DEF Range
<1> QED
  BY <1>1, <1>4 DEF a

\* The functions whose items wait below the one at the top of the work stack.
Waiting == {scc.work[i].node : i \in 1 .. Len(scc.work) - 1}

\* The search while the top item is taken off: it has looked at the callees at
\* the positions of D.
ItemState(s, seen, D) ==
    /\ s \in SccRecord /\ s.work = SubSeq(scc.work, 1, Len(scc.work) - 1)
    /\ s.roots = scc.roots /\ s.components = scc.components
    /\ Indexed(s) = Indexed(scc) \cup {Item.node}
    /\ \A y \in Indexed(scc) : s.index[y] = scc.index[y]
    /\ StackInOrder(s) /\ Unstacked(s) = Unstacked(scc)
    /\ Search(s.index, s.low, Range(s.stack), Waiting \cup {Item.node}, seen)
    /\ Newest(s.index, Waiting \cup {Item.node}, Item.node)
    /\ \A i \in 1 .. Len(scc.work) - 1 : LookedAt(scc, i) \subseteq seen[scc.work[i].node]
    /\ \A k \in D : Edges(Item.node)[k] \in seen[Item.node]

\* Every waiting item has been entered, before those above it.
LEMMA WaitingFacts ==
    ASSUME ReachedIds, SccInv(scc), scc.work # <<>>
    PROVE  /\ Len(scc.work) \in Nat \ {0} /\ DOMAIN scc.work = 1 .. Len(scc.work)
           /\ Item = scc.work[Len(scc.work)] /\ Item.node \in reached /\ Item.next \in Nat
           /\ \A i \in 1 .. Len(scc.work) : scc.work[i] \in [node : reached, next : Nat]
           /\ \A i \in 1 .. Len(scc.work) - 1 :
                /\ scc.work[i].next \in DOMAIN Edges(scc.work[i].node) /\ scc.work[i].next # 0
                /\ Edges(scc.work[i].node)[scc.work[i].next] = scc.work[i + 1].node
                /\ scc.work[i + 1].node \in Callees(scc.work[i].node)
                /\ scc.work[i].node \in Visiting(scc)
           /\ Waiting \subseteq Visiting(scc) /\ Visiting(scc) \subseteq Indexed(scc)
           /\ Item.next # 0 => Visiting(scc) = Waiting \cup {Item.node}
           /\ Item.next = 0 => Visiting(scc) = Waiting /\ Item.node \notin Indexed(scc)
<1> DEFINE W == scc.work
           n == Len(scc.work)
           T == [node : reached, next : Nat]
<1>1. scc \in SccRecord /\ WorkIsPath(scc)
  BY DEF SccInv
<1>2. W \in Seq(T)
  BY <1>1 DEF SccRecord
<1>3. Item = W[n] /\ Item \in T
  BY <1>1, EnteredFields
<1> HIDE DEF T
<1>4. n \in Nat \ {0} /\ DOMAIN W = 1 .. n /\ \A i \in 1 .. n : W[i] \in T
  BY <1>2
<1>5. \A i \in 1 .. n : W[i].node \in reached /\ W[i].next \in Nat
  BY <1>4 DEF T
<1>6. ASSUME NEW i \in 1 .. n - 1
      PROVE  /\ W[i].next \in DOMAIN Edges(W[i].node) /\ W[i].next # 0
             /\ Edges(W[i].node)[W[i].next] = W[i + 1].node
             /\ W[i + 1].node \in Callees(W[i].node)
             /\ W[i].node \in Visiting(scc)
  <2>1. i \in 1 .. n /\ i < n
    BY <1>4
  <2>2. /\ W[i].next \in DOMAIN Edges(W[i].node)
        /\ Edges(W[i].node)[W[i].next] = W[i + 1].node
    BY <1>1, <1>4, <2>1 DEF WorkIsPath
  <2>3. W[i].next # 0 /\ W[i + 1].node \in Callees(W[i].node)
    BY <2>2, EdgesFacts
  <2>4. W[i].node \in Visiting(scc)
    BY <1>4, <2>1, <2>3 DEF Visiting
  <2> QED
    BY <2>2, <2>3, <2>4
<1>7. Waiting \subseteq Visiting(scc)
  BY <1>6 DEF Waiting
<1>8. Visiting(scc) \subseteq Indexed(scc)
  BY DEF SccInv, Search, Coloured, Indexed
<1>9. Visiting(scc) \subseteq Waiting \cup {Item.node}
  <2> SUFFICES ASSUME NEW j \in DOMAIN W, W[j].next # 0
               PROVE  W[j].node \in Waiting \cup {Item.node}
    BY DEF Visiting
  <2>1. j \in 1 .. n - 1 \/ j = n
    BY <1>4
  <2> QED
    BY <1>3, <2>1 DEF Waiting
<1>10. Item.next # 0 => Item.node \in Visiting(scc)
  BY <1>3, <1>4 DEF Visiting
<1>11. Item.next = 0 => Item.node \notin Indexed(scc)
  BY <1>1, <1>3 DEF WorkIsPath
<1> QED
  BY <1>3, <1>4, <1>5, <1>6, <1>7, <1>8, <1>9, <1>10, <1>11 DEF T

LEMMA SccRecordOf ==
    ASSUME NEW roots \in Seq(reached), NEW work \in Seq([node : reached, next : Nat]),
           NEW index \in Tables, NEW low \in Tables, NEW stack \in Seq(reached),
           NEW components \in Seq(Seq(reached))
    PROVE  [roots |-> roots, work |-> work, index |-> index, low |-> low, stack |-> stack,
            components |-> components] \in SccRecord
  BY DEF SccRecord

\* The item at the top goes on where it stopped, or enters its function.
LEMMA ResumedState ==
    ASSUME ReachedIds, SccInv(scc), scc.work # <<>>, Item.next # 0
    PROVE  \E seen : ItemState(Entered, seen, {k \in DOMAIN Edges(Item.node) : k <= Item.next})
<1> DEFINE W == scc.work
           n == Len(scc.work)
<1>1. /\ scc \in SccRecord /\ WorkIsPath(scc) /\ StackInOrder(scc)
      /\ \E seen : /\ Search(scc.index, scc.low, Range(scc.stack), Visiting(scc), seen)
                   /\ \A i \in DOMAIN W : W[i].next # 0 => LookedAt(scc, i) \subseteq seen[W[i].node]
  BY DEF SccInv
<1>2. PICK seen : /\ Search(scc.index, scc.low, Range(scc.stack), Visiting(scc), seen)
                  /\ \A i \in DOMAIN W : W[i].next # 0 => LookedAt(scc, i) \subseteq seen[W[i].node]
  BY <1>1
<1>3. /\ n \in Nat \ {0} /\ DOMAIN W = 1 .. n /\ Item = W[n]
      /\ \A i \in 1 .. n - 1 : W[i].next # 0
      /\ Visiting(scc) = Waiting \cup {Item.node} /\ Visiting(scc) \subseteq Indexed(scc)
  BY WaitingFacts
<1>4. /\ Entered.work = SubSeq(W, 1, n - 1) /\ Entered.roots = scc.roots
      /\ Entered.components = scc.components /\ Entered.index = scc.index
      /\ Entered.low = scc.low /\ Entered.stack = scc.stack
  BY <1>1, EnteredFields
<1>5. Entered \in SccRecord
  <2> DEFINE T == [node : reached, next : Nat]
  <2>1. W \in Seq(T)
    BY <1>1 DEF SccRecord
  <2> HIDE DEF T
  <2>2. SubSeq(W, 1, n - 1) \in Seq(T)
    BY <1>3, <2>1
  <2>3. Entered = [roots |-> scc.roots, work |-> SubSeq(W, 1, n - 1), index |-> scc.index,
                   low |-> scc.low, stack |-> scc.stack, components |-> scc.components]
    BY <1>1 DEF SccRecord, Entered, Enter, Front
  <2> QED
    BY <1>1, <2>2, <2>3 DEF SccRecord, T
<1>6. StackInOrder(Entered) /\ Unstacked(Entered) = Unstacked(scc) /\ Indexed(Entered) = Indexed(scc)
  BY <1>1, <1>4 DEF StackInOrder, Unstacked, Indexed
<1>7. Newest(scc.index, Visiting(scc), Item.node)
  <2>1. Item.node \in Visiting(scc)
    BY <1>3
  <2>2. scc.index \in [Indexed(scc) -> Nat]
    BY <1>2 DEF Search, Coloured, Indexed
  <2>3. ASSUME NEW g \in Visiting(scc)
        PROVE  scc.index[g] <= scc.index[Item.node]
    <3>1. CASE g = Item.node
      BY <1>3, <2>2, <3>1
    <3>2. CASE g \in Waiting
      <4>1. PICK i \in 1 .. n - 1 : g = W[i].node
        BY <3>2 DEF Waiting
      <4>2. i \in DOMAIN W /\ n \in DOMAIN W /\ i < n
        BY <1>3
      <4>3. scc.index[g] < scc.index[Item.node]
        BY <1>1, <1>3, <4>1, <4>2 DEF WorkIsPath
      <4> QED
        BY <1>3, <2>2, <4>3
    <3> QED
      BY <1>3, <3>1, <3>2
  <2> QED
    BY <2>1, <2>3 DEF Newest
<1>8. \A i \in 1 .. n - 1 : LookedAt(scc, i) \subseteq seen[W[i].node]
  BY <1>2, <1>3
<1>9. \A k \in DOMAIN Edges(Item.node) : k <= Item.next => Edges(Item.node)[k] \in seen[Item.node]
  <2>1. LookedAt(scc, n) \subseteq seen[Item.node]
    BY <1>2, <1>3
  <2>2. \A k \in DOMAIN Edges(Item.node) : k <= Item.next => Edges(Item.node)[k] \in LookedAt(scc, n)
    <3> SUFFICES ASSUME NEW k \in DOMAIN Edges(Item.node), k <= Item.next
                 PROVE  k < Item.next \/ k = Item.next
      BY <1>3 DEF LookedAt
    <3> QED
      BY EdgesFacts, WaitingFacts
  <2> QED
    BY <2>1, <2>2
<1> QED
  BY <1>2, <1>3, <1>4, <1>5, <1>6, <1>7, <1>8, <1>9 DEF ItemState

LEMMA NewState ==
    ASSUME ReachedIds, SccInv(scc), scc.work # <<>>, Item.next = 0
    PROVE  \E seen : ItemState(Entered, seen, {k \in DOMAIN Edges(Item.node) : k <= Item.next})
<1> DEFINE W == scc.work
           n == Len(scc.work)
           x == Item.node
           c == Cardinality(Indexed(scc))
<1>1. /\ scc \in SccRecord /\ WorkIsPath(scc) /\ StackInOrder(scc)
      /\ \E seen : /\ Search(scc.index, scc.low, Range(scc.stack), Visiting(scc), seen)
                   /\ \A i \in DOMAIN W : W[i].next # 0 => LookedAt(scc, i) \subseteq seen[W[i].node]
  BY DEF SccInv
<1>2. PICK seen : /\ Search(scc.index, scc.low, Range(scc.stack), Visiting(scc), seen)
                  /\ \A i \in DOMAIN W : W[i].next # 0 => LookedAt(scc, i) \subseteq seen[W[i].node]
  BY <1>1
<1>3. /\ n \in Nat \ {0} /\ DOMAIN W = 1 .. n /\ Item = W[n] /\ x \in reached
      /\ \A i \in 1 .. n - 1 : W[i].next # 0 /\ W[i].node \in Visiting(scc)
                               /\ W[i + 1].node \in Callees(W[i].node)
      /\ Visiting(scc) = Waiting /\ Visiting(scc) \subseteq Indexed(scc) /\ x \notin Indexed(scc)
  BY WaitingFacts
<1>4. /\ Entered.work = SubSeq(W, 1, n - 1) /\ Entered.roots = scc.roots
      /\ Entered.components = scc.components /\ Entered.index = Insert(scc.index, x, c)
      /\ Entered.low = Insert(scc.low, x, c) /\ Entered.stack = Append(scc.stack, x)
      /\ DOMAIN Entered = {"roots", "work", "index", "low", "stack", "components"}
  BY <1>1, EnteredFields
<1>5. /\ scc.index \in [Indexed(scc) -> Nat] /\ scc.low \in [Indexed(scc) -> Nat]
      /\ Indexed(scc) \subseteq reached /\ Range(scc.stack) \subseteq Indexed(scc)
      /\ seen \in [Visiting(scc) -> SUBSET reached]
  BY <1>2 DEF Search, Coloured, Indexed
<1>6. IsFiniteSet(Indexed(scc)) /\ c \in Nat /\ Cardinality(Indexed(scc) \cup {x}) = c + 1
  <2>1. IsFiniteSet(Indexed(scc))
    BY <1>5, FS_Subset DEF ReachedIds
  <2>2. Cardinality(Indexed(scc)) \in Nat
    BY <2>1, FS_CardinalityType
  <2>3. Cardinality(Indexed(scc) \cup {x}) = Cardinality(Indexed(scc)) + 1
    BY <1>3, <2>1, FS_AddElement
  <2> QED
    BY <2>1, <2>2, <2>3
<1>7. \A y \in Indexed(scc) : scc.index[y] < c
  BY <1>1 DEF StackInOrder
<1> HIDE DEF c
<1>8. /\ Indexed(Entered) = Indexed(scc) \cup {x} /\ Entered.index[x] = c
      /\ \A y \in Indexed(scc) : Entered.index[y] = scc.index[y]
      /\ Entered.index \in [Indexed(scc) \cup {x} -> Nat]
      /\ Entered.low \in [Indexed(scc) \cup {x} -> Nat]
  BY <1>3, <1>4, <1>5, <1>6 DEF Indexed, Insert
<1>9. /\ Entered.stack \in Seq(reached) /\ DOMAIN Entered.stack = 1 .. Len(scc.stack) + 1
      /\ Entered.stack[Len(scc.stack) + 1] = x
      /\ \A i \in 1 .. Len(scc.stack) : Entered.stack[i] = scc.stack[i]
      /\ Range(Entered.stack) = Range(scc.stack) \cup {x}
  <2>1. scc.stack \in Seq(reached)
    BY <1>1 DEF SccRecord
  <2> QED
    BY <1>3, <1>4, <2>1, RangeOfAppend
<1>10. Entered \in SccRecord
  <2> DEFINE T == [node : reached, next : Nat]
  <2>1. W \in Seq(T)
    BY <1>1 DEF SccRecord
  <2> HIDE DEF T
  <2>2. SubSeq(W, 1, n - 1) \in Seq(T)
    BY <1>3, <2>1
  <2>3. Entered = [roots |-> scc.roots, work |-> SubSeq(W, 1, n - 1), index |-> Entered.index,
                   low |-> Entered.low, stack |-> Entered.stack, components |-> scc.components]
    <3>1. Entered = [i \in {"roots", "work", "index", "low", "stack", "components"} |-> Entered[i]]
      BY <1>1, <1>4 DEF SccRecord, Entered, Enter
    <3> QED
      BY <1>4, <3>1
  <2>4. Entered.index \in Tables /\ Entered.low \in Tables
    <3>1. Indexed(scc) \cup {x} \in SUBSET reached
      BY <1>3, <1>5
    <3> QED
      BY <1>8, <3>1 DEF Tables
  <2>5. scc.roots \in Seq(reached) /\ scc.components \in Seq(Seq(reached))
    BY <1>1 DEF SccRecord
  <2>6. [roots |-> scc.roots, work |-> SubSeq(W, 1, n - 1), index |-> Entered.index,
         low |-> Entered.low, stack |-> Entered.stack, components |-> scc.components] \in SccRecord
    BY <1>9, <2>2, <2>4, <2>5, SccRecordOf DEF T
  <2> QED
    BY <2>3, <2>6
<1>11. StackInOrder(Entered)
  <2>1. DOMAIN Entered.low = Indexed(Entered) /\ \A y \in Indexed(Entered) : Entered.index[y] < Cardinality(Indexed(Entered))
    BY <1>5, <1>6, <1>7, <1>8
  <2>2. DOMAIN scc.stack = 1 .. Len(scc.stack) /\ Len(scc.stack) \in Nat
    BY <1>1 DEF SccRecord
  <2>3. \A i \in DOMAIN scc.stack : scc.stack[i] \in Indexed(scc)
    BY <1>1 DEF StackInOrder
  <2>4. ASSUME NEW i \in DOMAIN Entered.stack
        PROVE  Entered.stack[i] \in Indexed(Entered)
    BY <1>8, <1>9, <2>2, <2>3
  <2>5. ASSUME NEW i \in DOMAIN Entered.stack, NEW j \in DOMAIN Entered.stack, i < j
        PROVE  Entered.index[Entered.stack[i]] < Entered.index[Entered.stack[j]]
    <3>1. i \in DOMAIN scc.stack /\ Entered.stack[i] = scc.stack[i] /\ scc.stack[i] \in Indexed(scc)
      BY <1>9, <2>2, <2>3, <2>5
    <3>2. CASE j = Len(scc.stack) + 1
      BY <1>7, <1>8, <1>9, <3>1, <3>2
    <3>3. CASE j # Len(scc.stack) + 1
      <4>1. j \in DOMAIN scc.stack /\ Entered.stack[j] = scc.stack[j] /\ scc.stack[j] \in Indexed(scc)
        BY <1>9, <2>2, <2>3, <3>3
      <4>2. scc.index[scc.stack[i]] < scc.index[scc.stack[j]]
        BY <1>1, <2>5, <3>1, <4>1 DEF StackInOrder
      <4> QED
        BY <1>8, <3>1, <4>1, <4>2
    <3> QED
      BY <3>2, <3>3
  <2> QED
    BY <2>1, <2>4, <2>5 DEF StackInOrder
<1>12. Unstacked(Entered) = Unstacked(scc)
  BY <1>3, <1>5, <1>8, <1>9 DEF Unstacked
<1>13. Visiting(scc) = {} \/ \E p \in Visiting(scc) : Newest(scc.index, Visiting(scc), p) /\ x \in Callees(p)
  <2>1. CASE n = 1
    BY <1>3, <2>1 DEF Waiting
  <2>2. CASE n # 1
    <3> DEFINE p == W[n - 1].node
    <3>1. n - 1 \in 1 .. n - 1 /\ (n - 1) + 1 = n
      <4> HIDE DEF n
      <4>1. n \in Nat /\ n # 0
        BY <1>3
      <4> QED
        BY <2>2, <4>1
    <3>2. p \in Visiting(scc) /\ x \in Callees(p)
      <4>1. W[n - 1].node \in Visiting(scc) /\ W[(n - 1) + 1].node \in Callees(W[n - 1].node)
        BY <1>3, <3>1
      <4> QED
        BY <1>3, <3>1, <4>1
    <3>3. ASSUME NEW g \in Visiting(scc)
          PROVE  scc.index[g] <= scc.index[p]
      <4>1. PICK i \in 1 .. n - 1 : g = W[i].node
        BY <1>3 DEF Waiting
      <4>2. CASE i = n - 1
        BY <1>3, <1>5, <3>2, <4>1, <4>2
      <4>3. CASE i # n - 1
        <5>1. i \in DOMAIN W /\ n - 1 \in DOMAIN W /\ i < n - 1 /\ W[n - 1].next # 0
          BY <1>3, <3>1, <4>3
        <5>2. scc.index[g] < scc.index[p]
          BY <1>1, <4>1, <5>1 DEF WorkIsPath
        <5> QED
          BY <1>3, <1>5, <3>2, <5>2
      <4> QED
        BY <4>2, <4>3
    <3> QED
      BY <3>2, <3>3 DEF Newest
  <2> QED
    BY <2>1, <2>2
<1> DEFINE seen2 == Insert(seen, x, {})
<1>14. /\ Search(Entered.index, Entered.low, Range(Entered.stack), Waiting \cup {x}, seen2)
       /\ Newest(Entered.index, Waiting \cup {x}, x)
  <2>1. x \in reached \ DOMAIN scc.index /\ \A y \in DOMAIN scc.index : scc.index[y] < c
    BY <1>3, <1>7 DEF Indexed
  <2>2. /\ Search(Insert(scc.index, x, c), Insert(scc.low, x, c), Range(scc.stack) \cup {x},
                   Visiting(scc) \cup {x}, Insert(seen, x, {}))
        /\ Newest(Insert(scc.index, x, c), Visiting(scc) \cup {x}, x)
    BY <1>2, <1>6, <1>13, <2>1, EnterSearch
  <2> QED
    BY <1>3, <1>4, <1>9, <2>2
<1>15. \A g \in Visiting(scc) : seen2[g] = seen[g]
  BY <1>3, <1>5 DEF Insert
<1> HIDE DEF seen2
<1>16. \A i \in 1 .. n - 1 : LookedAt(scc, i) \subseteq seen2[W[i].node]
  BY <1>2, <1>3, <1>15
<1>17. {k \in DOMAIN Edges(x) : k <= Item.next} = {}
  BY EdgesFacts
<1>18. ItemState(Entered, seen2, {k \in DOMAIN Edges(x) : k <= Item.next})
  BY <1>4, <1>8, <1>10, <1>11, <1>12, <1>14, <1>16, <1>17 DEF ItemState
<1> QED
  BY <1>18

\* The callees from there on are looked at, up to the first without an index.
LEMMA FreshFacts ==
    ASSUME ReachedIds, SccInv(scc), scc.work # <<>>
    PROVE  /\ Fresh \in SUBSET DOMAIN Edges(Item.node)
           /\ Fresh # {} => /\ Least(Fresh) \in DOMAIN Edges(Item.node) /\ Least(Fresh) \in Nat \ {0}
                            /\ Edges(Item.node)[Least(Fresh)] \in Callees(Item.node) \ Indexed(Entered)
           /\ Looked \subseteq Callees(Item.node) \cap Indexed(Entered)
           /\ \A k \in DOMAIN Edges(Item.node) :
                (Fresh = {} \/ k < Least(Fresh)) => k <= Item.next \/ Edges(Item.node)[k] \in Looked
<1> DEFINE x == Item.node
           E == Edges(Item.node)
<1>1. /\ DOMAIN E \in SUBSET (Nat \ {0}) /\ \A i \in DOMAIN E : E[i] \in Callees(x)
  BY EdgesFacts
<1>2. Item.next \in Nat
  BY WaitingFacts
<1>3. Fresh = {i \in DOMAIN E : i > Item.next /\ E[i] \notin Indexed(Entered)}
  BY DEF Fresh
<1>4. Looked = {E[i] : i \in {j \in DOMAIN E : j > Item.next /\ (Fresh = {} \/ j < Least(Fresh))}}
  BY DEF Looked
<1> HIDE DEF E
<1>5. Fresh \in SUBSET DOMAIN E /\ Fresh \in SUBSET Nat
  BY <1>1, <1>3
<1>6. Fresh # {} => Least(Fresh) \in Fresh /\ \A y \in Fresh : Least(Fresh) <= y
  BY <1>5, LeastId
<1>7. ASSUME NEW j \in DOMAIN E, j > Item.next, Fresh = {} \/ j < Least(Fresh)
      PROVE  E[j] \in Callees(x) \cap Indexed(Entered)
  <2>1. j \notin Fresh
    <3> SUFFICES ASSUME j \in Fresh PROVE FALSE
      OBVIOUS
    <3>1. Least(Fresh) <= j /\ j < Least(Fresh) /\ j \in Nat /\ Least(Fresh) \in Nat
      BY <1>5, <1>6, <1>7
    <3> QED
      BY <3>1
  <2> QED
    BY <1>1, <1>3, <1>7, <2>1
<1>8. Looked \subseteq Callees(x) \cap Indexed(Entered)
  BY <1>4, <1>7
<1>9. ASSUME NEW k \in DOMAIN E, Fresh = {} \/ k < Least(Fresh)
      PROVE  k <= Item.next \/ E[k] \in Looked
  <2>1. k \in Nat
    BY <1>1
  <2> QED
    BY <1>2, <1>4, <1>9, <2>1
<1>10. Fresh # {} => /\ Least(Fresh) \in DOMAIN E /\ Least(Fresh) \in Nat \ {0}
                     /\ E[Least(Fresh)] \in Callees(x) \ Indexed(Entered)
  BY <1>1, <1>3, <1>5, <1>6
<1> QED
  BY <1>5, <1>8, <1>9, <1>10 DEF E

LEMMA ScannedState ==
    ASSUME ReachedIds, SccInv(scc), scc.work # <<>>
    PROVE  \E seen : ItemState(Scanned, seen,
                               {k \in DOMAIN Edges(Item.node) : Fresh = {} \/ k < Least(Fresh)})
<1> DEFINE x == Item.node
           K == Range(Entered.stack)
           G == Waiting \cup {x}
           D0 == {k \in DOMAIN Edges(x) : k <= Item.next}
           D == {k \in DOMAIN Edges(x) : Fresh = {} \/ k < Least(Fresh)}
<1>1. PICK seen : ItemState(Entered, seen, D0)
  BY ResumedState, NewState
<1>2. /\ Entered \in SccRecord /\ Entered.work = SubSeq(scc.work, 1, Len(scc.work) - 1)
      /\ Entered.roots = scc.roots /\ Entered.components = scc.components
      /\ Indexed(Entered) = Indexed(scc) \cup {x}
      /\ \A y \in Indexed(scc) : Entered.index[y] = scc.index[y]
      /\ StackInOrder(Entered) /\ Unstacked(Entered) = Unstacked(scc)
      /\ Search(Entered.index, Entered.low, K, G, seen) /\ Newest(Entered.index, G, x)
      /\ \A i \in 1 .. Len(scc.work) - 1 : LookedAt(scc, i) \subseteq seen[scc.work[i].node]
      /\ \A k \in D0 : Edges(x)[k] \in seen[x]
  BY <1>1 DEF ItemState
<1>3. /\ Entered.index \in [Indexed(Entered) -> Nat] /\ Entered.low \in [Indexed(Entered) -> Nat]
      /\ K \subseteq Indexed(Entered) /\ x \in G /\ x \in Indexed(Entered) /\ G \subseteq K
      /\ seen \in [G -> SUBSET reached] /\ Indexed(Entered) \in SUBSET reached
  BY <1>2 DEF Search, Coloured, Indexed
<1>4. Looked \in SUBSET (Callees(x) \cap DOMAIN Entered.index)
  BY FreshFacts DEF Indexed
<1>5. Back \in SUBSET Nat /\ Back = {Entered.index[c] : c \in Looked \cap K}
  BY <1>3, <1>4 DEF Back
<1> DEFINE l == IF Back = {} THEN Entered.low[x] ELSE MinOf(Entered.low[x], Least(Back))
           low2 == [Entered.low EXCEPT ![x] = l]
           seen2 == [seen EXCEPT ![x] = @ \cup Looked]
<1>6. /\ l \in Nat /\ l <= Entered.low[x] /\ \A z \in Looked \cap K : l <= Entered.index[z]
      /\ l = Entered.low[x] \/ \E z \in Looked \cap K : l = Entered.index[z]
  <2>1. Entered.low[x] \in Nat
    BY <1>3
  <2>2. CASE Back = {}
    <3>1. l = Entered.low[x]
      BY <2>2
    <3>2. Looked \cap K = {}
      BY <1>5, <2>2
    <3> HIDE DEF l, K
    <3> QED
      BY <2>1, <3>1, <3>2
  <2>3. CASE Back # {}
    <3>1. Least(Back) \in Back /\ \A y \in Back : Least(Back) <= y
      BY <1>5, <2>3, LeastId
    <3>2. Least(Back) \in Nat /\ l = MinOf(Entered.low[x], Least(Back))
      BY <1>5, <2>3, <3>1
    <3>3. l \in Nat /\ l <= Entered.low[x] /\ l <= Least(Back) /\ (l = Entered.low[x] \/ l = Least(Back))
      BY <2>1, <3>2 DEF MinOf
    <3> HIDE DEF l
    <3>4. ASSUME NEW z \in Looked \cap K
          PROVE  l <= Entered.index[z]
      <4>1. Entered.index[z] \in Back /\ Entered.index[z] \in Nat
        BY <1>5
      <4> QED
        BY <3>1, <3>2, <3>3, <4>1
    <3>5. l = Least(Back) => \E z \in Looked \cap K : l = Entered.index[z]
      BY <1>5, <3>1
    <3> QED
      BY <3>3, <3>4, <3>5
  <2> QED
    BY <2>2, <2>3
<1>7. Search(Entered.index, low2, K, G, seen2)
  <2> HIDE DEF l, K, G
  <2> QED
    BY <1>2, <1>3, <1>4, <1>6, ScanSearch
<1>8. /\ Scanned = [Entered EXCEPT !.low = low2] /\ DOMAIN Entered = {"roots", "work", "index", "low", "stack", "components"}
  <2>1. DOMAIN Entered = {"roots", "work", "index", "low", "stack", "components"}
    BY <1>2 DEF SccRecord
  <2>2. CASE Back = {}
    <3>1. low2 = Entered.low
      BY <1>3, <2>2
    <3>2. Scanned = Entered
      BY <2>2 DEF Scanned
    <3>3. [Entered EXCEPT !.low = Entered.low] = Entered
      BY <1>2 DEF SccRecord
    <3> QED
      BY <2>1, <3>1, <3>2, <3>3
  <2>3. CASE Back # {}
    <3>1. Scanned = [Entered EXCEPT !.low[x] = MinOf(@, Least(Back))]
      BY <2>3 DEF Scanned, Lowered
    <3> QED
      BY <1>3, <2>1, <2>3, <3>1
  <2> QED
    BY <2>2, <2>3
<1>9. low2 \in [Indexed(Entered) -> Nat]
  BY <1>3, <1>6
<1>10. seen2 \in [G -> SUBSET reached] /\ seen2[x] = seen[x] \cup Looked
       /\ \A g \in G : seen[g] \subseteq seen2[g]
  <2>1. Looked \subseteq reached
    BY <1>4 DEF Callees
  <2> QED
    BY <1>3, <2>1
<1> HIDE DEF low2, seen2, l
<1>11. /\ Scanned.roots = Entered.roots /\ Scanned.work = Entered.work
       /\ Scanned.index = Entered.index /\ Scanned.low = low2
       /\ Scanned.stack = Entered.stack /\ Scanned.components = Entered.components
  BY <1>8
<1>12. Scanned \in SccRecord
  <2>1. low2 \in Tables
    BY <1>3, <1>9 DEF Tables
  <2> QED
    BY <1>2, <1>8, <2>1 DEF SccRecord
<1>13. StackInOrder(Scanned) /\ Unstacked(Scanned) = Unstacked(scc)
       /\ Indexed(Scanned) = Indexed(scc) \cup {x}
  BY <1>2, <1>9, <1>11 DEF StackInOrder, Unstacked, Indexed
<1>14. \A i \in 1 .. Len(scc.work) - 1 : LookedAt(scc, i) \subseteq seen2[scc.work[i].node]
  <2>1. \A i \in 1 .. Len(scc.work) - 1 : scc.work[i].node \in G
    BY DEF Waiting
  <2> QED
    BY <1>2, <1>10, <2>1
<1>15. \A k \in D : Edges(x)[k] \in seen2[x]
  BY <1>2, <1>10, FreshFacts
<1>16. ItemState(Scanned, seen2, D)
  BY <1>2, <1>7, <1>11, <1>12, <1>13, <1>14, <1>15 DEF ItemState
<1> QED
  BY <1>16

LEMMA ItemFacts ==
    ASSUME ReachedIds, SccInv(scc), scc.work # <<>>,
           NEW s, NEW seen, NEW D, ItemState(s, seen, D)
    PROVE  /\ s.index \in [Indexed(s) -> Nat] /\ s.low \in [Indexed(s) -> Nat]
           /\ Indexed(s) \in SUBSET reached /\ Range(s.stack) \subseteq Indexed(s)
           /\ seen \in [Waiting \cup {Item.node} -> SUBSET reached]
           /\ Item.node \in Range(s.stack) /\ Waiting \subseteq Range(s.stack) /\ Item.node \notin Waiting
           /\ \A i \in 1 .. Len(scc.work) - 1 :
                /\ scc.work[i].node \in Indexed(s) /\ scc.work[i].node \in Waiting
                /\ s.index[scc.work[i].node] < s.index[Item.node]
                /\ \A j \in 1 .. Len(scc.work) - 1 :
                     i < j => s.index[scc.work[i].node] < s.index[scc.work[j].node]
<1> DEFINE W == scc.work
           n == Len(scc.work)
           x == Item.node
<1>1. /\ s.index \in [Indexed(s) -> Nat] /\ s.low \in [Indexed(s) -> Nat]
      /\ Indexed(s) \in SUBSET reached /\ Range(s.stack) \subseteq Indexed(s)
      /\ seen \in [Waiting \cup {x} -> SUBSET reached]
      /\ x \in Range(s.stack) /\ Waiting \subseteq Range(s.stack)
      /\ \A y, z \in Range(s.stack) : s.index[y] = s.index[z] => y = z
  BY DEF ItemState, Search, Coloured, Indexed
<1>2. /\ Newest(s.index, Waiting \cup {x}, x) /\ Indexed(s) = Indexed(scc) \cup {x}
      /\ \A y \in Indexed(scc) : s.index[y] = scc.index[y]
  BY DEF ItemState
<1>3. /\ n \in Nat \ {0} /\ DOMAIN W = 1 .. n /\ Item = W[n]
      /\ \A i \in 1 .. n - 1 : W[i].next # 0 /\ W[i].node \in Visiting(scc)
      /\ Visiting(scc) \subseteq Indexed(scc) /\ Waiting \subseteq Visiting(scc)
      /\ Item.next = 0 => x \notin Indexed(scc)
  BY WaitingFacts
<1>4. WorkIsPath(scc) /\ scc.index \in [Indexed(scc) -> Nat]
  BY DEF SccInv, Search, Coloured, Indexed
<1>5. ASSUME NEW i \in 1 .. n - 1
      PROVE  /\ W[i].node \in Indexed(s) /\ W[i].node \in Waiting /\ W[i].node # x
             /\ s.index[W[i].node] < s.index[x]
  <2>1. W[i].node \in Indexed(scc) /\ W[i].node \in Waiting
    BY <1>3 DEF Waiting
  <2>2. W[i].node # x
    <3>1. CASE Item.next = 0
      BY <1>3, <2>1, <3>1
    <3>2. CASE Item.next # 0
      <4>1. i \in DOMAIN W /\ n \in DOMAIN W /\ i < n
        BY <1>3
      <4>2. scc.index[W[i].node] < scc.index[x]
        BY <1>3, <1>4, <3>2, <4>1 DEF WorkIsPath
      <4>3. scc.index[W[i].node] \in Nat
        BY <1>4, <2>1
      <4> QED
        BY <4>2, <4>3
    <3> QED
      BY <3>1, <3>2
  <2>3. s.index[W[i].node] <= s.index[x]
    BY <1>2, <2>1 DEF Newest
  <2>4. s.index[W[i].node] # s.index[x]
    BY <1>1, <2>1, <2>2
  <2>5. s.index[W[i].node] \in Nat /\ s.index[x] \in Nat /\ W[i].node \in Indexed(s)
    BY <1>1, <1>2, <2>1
  <2> QED
    BY <2>1, <2>2, <2>3, <2>4, <2>5
<1>6. ASSUME NEW i \in 1 .. n - 1, NEW j \in 1 .. n - 1, i < j
      PROVE  s.index[W[i].node] < s.index[W[j].node]
  <2>1. i \in DOMAIN W /\ j \in DOMAIN W /\ W[j].next # 0
    BY <1>3
  <2>2. scc.index[W[i].node] < scc.index[W[j].node]
    BY <1>4, <1>6, <2>1 DEF WorkIsPath
  <2> QED
    BY <1>2, <1>3, <2>2
<1>7. x \notin Waiting
  BY <1>5 DEF Waiting
<1> QED
  BY <1>1, <1>5, <1>6, <1>7

\* What two items put on top of the waiting ones make of the work stack.
LEMMA TwoOnTop ==
    ASSUME NEW T, NEW s \in Seq(T), NEW a \in T, NEW b \in T, NEW n \in Nat \ {0}, Len(s) = n - 1
    PROVE  /\ s \o <<a, b>> \in Seq(T) /\ Len(s \o <<a, b>>) = n + 1
           /\ DOMAIN (s \o <<a, b>>) = 1 .. n + 1
           /\ (s \o <<a, b>>)[n] = a /\ (s \o <<a, b>>)[n + 1] = b
           /\ \A i \in 1 .. n - 1 : (s \o <<a, b>>)[i] = s[i]
<1>1. <<a, b>> \in Seq(T) /\ Len(<<a, b>>) = 2 /\ <<a, b>>[1] = a /\ <<a, b>>[2] = b
  OBVIOUS
<1> DEFINE t == <<a, b>>
<1> HIDE DEF t
<1>2. t \in Seq(T) /\ Len(t) = 2 /\ t[1] = a /\ t[2] = b
  BY <1>1 DEF t
<1>3. s \o t \in Seq(T) /\ Len(s \o t) = n + 1 /\ DOMAIN (s \o t) = 1 .. n + 1
  <2>1. s \o t \in Seq(T) /\ Len(s \o t) = Len(s) + Len(t)
    BY <1>2, ConcatProperties
  <2>2. Len(s) + Len(t) = n + 1
    BY <1>2
  <2>3. Len(s \o t) = n + 1
    BY <2>1, <2>2
  <2> QED
    BY <2>1, <2>3
<1>4. \A i \in 1 .. n - 1 : (s \o t)[i] = s[i]
  BY <1>2
<1>5. (s \o t)[n] = t[1] /\ (s \o t)[n + 1] = t[2]
  <2>1. \A i \in 1 .. Len(s) + Len(t) : (s \o t)[i] = IF i <= Len(s) THEN s[i] ELSE t[i - Len(s)]
    BY <1>2, ConcatProperties
  <2>2. /\ n \in 1 .. Len(s) + Len(t) /\ n + 1 \in 1 .. Len(s) + Len(t)
        /\ ~(n <= Len(s)) /\ ~(n + 1 <= Len(s)) /\ n - Len(s) = 1 /\ (n + 1) - Len(s) = 2
    BY <1>2
  <2> QED
    BY <2>1, <2>2
<1> QED
  BY <1>2, <1>3, <1>4, <1>5 DEF t

Descended ==
    [Scanned EXCEPT !.work = @ \o
        <<[node |-> Item.node, next |-> Least(Fresh)],
          [node |-> Edges(Item.node)[Least(Fresh)], next |-> 0]>>]

LEMMA DescendKeeps ==
    ASSUME ReachedIds, SccInv(scc), scc.work # <<>>, Fresh # {}
    PROVE  SccInv(Descended)
<1> DEFINE W == scc.work
           n == Len(scc.work)
           x == Item.node
           m == Least(Fresh)
           y == Edges(Item.node)[Least(Fresh)]
           T == [node : reached, next : Nat]
           D == {k \in DOMAIN Edges(x) : Fresh = {} \/ k < Least(Fresh)}
           a == [node |-> x, next |-> m]
           b == [node |-> y, next |-> 0]
           V == Descended.work
<1>1. PICK seen : ItemState(Scanned, seen, D)
  BY ScannedState
<1>2. /\ Scanned \in SccRecord /\ Scanned.work = SubSeq(W, 1, n - 1)
      /\ Scanned.roots = scc.roots /\ Scanned.components = scc.components
      /\ Indexed(Scanned) = Indexed(scc) \cup {x}
      /\ StackInOrder(Scanned) /\ Unstacked(Scanned) = Unstacked(scc)
      /\ Search(Scanned.index, Scanned.low, Range(Scanned.stack), Waiting \cup {x}, seen)
      /\ \A i \in 1 .. n - 1 : LookedAt(scc, i) \subseteq seen[W[i].node]
      /\ \A k \in D : Edges(x)[k] \in seen[x]
  BY <1>1 DEF ItemState
<1>3. /\ n \in Nat \ {0} /\ DOMAIN W = 1 .. n /\ Item = W[n] /\ x \in reached
      /\ \A i \in 1 .. n : W[i] \in T
      /\ \A i \in 1 .. n - 1 :
           /\ W[i].next \in DOMAIN Edges(W[i].node) /\ W[i].next # 0
           /\ Edges(W[i].node)[W[i].next] = W[i + 1].node
  BY WaitingFacts
<1>4. Indexed(Entered) = Indexed(scc) \cup {x}
  BY ResumedState, NewState DEF ItemState
<1>5. /\ m \in DOMAIN Edges(x) /\ m \in Nat \ {0} /\ y \in reached /\ y \notin Indexed(Scanned)
  BY <1>2, <1>4, FreshFacts DEF Callees
<1>6. /\ a \in T /\ b \in T
  BY <1>3, <1>5
<1>7. Scanned.work \in Seq(T) /\ Len(Scanned.work) = n - 1
      /\ \A i \in 1 .. n - 1 : Scanned.work[i] = W[i]
  <2>1. W \in Seq(T)
    BY DEF SccInv, SccRecord
  <2> HIDE DEF T
  <2> QED
    BY <1>2, <1>3, <2>1
<1>8. /\ Descended.work = Scanned.work \o <<a, b>> /\ Descended.roots = scc.roots
      /\ Descended.components = scc.components /\ Descended.index = Scanned.index
      /\ Descended.low = Scanned.low /\ Descended.stack = Scanned.stack
      /\ Descended = [roots |-> scc.roots, work |-> Scanned.work \o <<a, b>>, index |-> Scanned.index,
                      low |-> Scanned.low, stack |-> Scanned.stack, components |-> scc.components]
  <2> DEFINE v == Scanned.work \o <<a, b>>
  <2>1. Descended = [Scanned EXCEPT !.work = v]
    BY DEF Descended
  <2> HIDE DEF v
  <2>2. Descended.work = v /\ Descended = [roots |-> Scanned.roots, work |-> v, index |-> Scanned.index,
              low |-> Scanned.low, stack |-> Scanned.stack, components |-> Scanned.components]
    BY <1>2, <2>1 DEF SccRecord
  <2> QED
    BY <1>2, <2>2 DEF v
<1>9. /\ V \in Seq(T) /\ Len(V) = n + 1 /\ DOMAIN V = 1 .. n + 1
      /\ V[n] = a /\ V[n + 1] = b /\ \A i \in 1 .. n - 1 : V[i] = W[i]
  <2> HIDE DEF a, b, T, n
  <2>1. n \in Nat \ {0}
    BY <1>3
  <2> DEFINE u == Scanned.work
  <2>2. u \in Seq(T) /\ Len(u) = n - 1 /\ V = u \o <<a, b>> /\ \A i \in 1 .. n - 1 : u[i] = W[i]
    BY <1>7, <1>8
  <2> HIDE DEF u, V
  <2>3. /\ u \o <<a, b>> \in Seq(T) /\ Len(u \o <<a, b>>) = n + 1
        /\ DOMAIN (u \o <<a, b>>) = 1 .. n + 1
        /\ (u \o <<a, b>>)[n] = a /\ (u \o <<a, b>>)[n + 1] = b
        /\ \A i \in 1 .. n - 1 : (u \o <<a, b>>)[i] = u[i]
    BY <1>6, <2>1, <2>2, TwoOnTop
  <2> QED
    BY <2>2, <2>3
<1>10. V[n].node = x /\ V[n].next = m /\ V[n + 1].node = y /\ V[n + 1].next = 0
  BY <1>9
<1> HIDE DEF V, a, b, m, y
<1>11. Descended \in SccRecord
  <2>1. /\ Scanned.index \in Tables /\ Scanned.low \in Tables /\ Scanned.stack \in Seq(reached)
        /\ scc.roots \in Seq(reached) /\ scc.components \in Seq(Seq(reached))
    BY <1>2 DEF SccRecord
  <2>2. Scanned.work \o <<a, b>> \in Seq(T)
    BY <1>8, <1>9 DEF V
  <2> QED
    BY <1>8, <2>1, <2>2, SccRecordOf
<1>12. /\ \A i \in 1 .. n - 1 :
            /\ W[i].node \in Indexed(Scanned) /\ W[i].node \in Waiting
            /\ Scanned.index[W[i].node] < Scanned.index[x]
            /\ \A j \in 1 .. n - 1 : i < j => Scanned.index[W[i].node] < Scanned.index[W[j].node]
  BY <1>1, ItemFacts
<1>. HIDE DEF n
<1>n. n \in Nat /\ n # 0
  BY <1>3
<1>13. WorkIsPath(Descended)
  <2>1. ASSUME NEW i \in DOMAIN V, i < Len(V)
        PROVE  /\ V[i].next \in DOMAIN Edges(V[i].node)
               /\ Edges(V[i].node)[V[i].next] = V[i + 1].node
    <3>1. CASE i = n
      BY <1>5, <1>10, <3>1 DEF y, m
    <3>2. CASE i # n
      <4>1. i \in 1 .. n - 1
        BY <1>3, <1>9, <2>1, <3>2
      <4>2. V[i] = W[i] /\ V[i + 1].node = W[i + 1].node
        <5>1. CASE i + 1 = n
          BY <1>3, <1>9, <1>10, <4>1, <5>1
        <5>2. CASE i + 1 # n
          <6>1. i + 1 \in 1 .. n - 1
            BY <1>3, <4>1, <5>2
          <6> QED
            BY <1>9, <4>1, <6>1
        <5> QED
          BY <5>1, <5>2
      <4> QED
        BY <1>3, <4>1, <4>2
    <3> QED
      BY <3>1, <3>2
  <2>2. ASSUME NEW i \in DOMAIN V, NEW j \in DOMAIN V, i < j, V[j].next # 0
        PROVE  Descended.index[V[i].node] < Descended.index[V[j].node]
    <3>1. j # n + 1
      BY <1>10, <2>2
    <3>2. i \in 1 .. n - 1 /\ V[i] = W[i]
      <4>1. i \in 1 .. n - 1
        BY <1>n, <1>9, <2>2, <3>1
      <4> QED
        BY <1>9, <4>1
    <3>3. CASE j = n
      BY <1>8, <1>10, <1>12, <3>2, <3>3
    <3>4. CASE j # n
      <4>1. j \in 1 .. n - 1 /\ V[j] = W[j]
        <5>1. j \in 1 .. n - 1
          BY <1>n, <1>9, <3>1, <3>4
        <5> QED
          BY <1>9, <5>1
      <4> QED
        BY <1>8, <1>12, <2>2, <3>2, <4>1
    <3> QED
      BY <3>3, <3>4
  <2>3. V[Len(V)].next = 0 /\ V[Len(V)].node \notin Indexed(Descended)
    BY <1>5, <1>8, <1>9, <1>10 DEF Indexed
  <2> QED
    BY <2>1, <2>2, <2>3 DEF WorkIsPath, V
<1>14. StackInOrder(Descended) /\ Unstacked(Descended) = Unstacked(scc)
  BY <1>2, <1>8 DEF StackInOrder, Unstacked, Indexed
<1>15. FoundAreCycles(Descended)
  BY <1>8, <1>14 DEF SccInv, FoundAreCycles
<1>16. RootsCover(Descended)
  <2>1. V # <<>> /\ 1 \in DOMAIN V
    BY <1>3, <1>9
  <2>2. V[1].node = W[1].node
    <3>1. CASE n = 1
      BY <1>3, <1>10, <3>1
    <3>2. CASE n # 1
      <4>1. 1 \in 1 .. n - 1
        BY <1>n, <3>2
      <4> QED
        BY <1>9, <4>1
    <3> QED
      BY <3>1, <3>2
  <2>3. Indexed(scc) \subseteq Indexed(Descended) /\ Descended.roots = scc.roots
    BY <1>2, <1>8 DEF Indexed
  <2>4. reached \subseteq Indexed(scc) \cup Range(scc.roots) \cup {W[1].node}
    BY DEF SccInv, RootsCover
  <2> QED
    BY <2>1, <2>2, <2>3, <2>4 DEF RootsCover, V
<1>17. Visiting(Descended) = Waiting \cup {x}
  <2>1. ASSUME NEW i \in DOMAIN V, V[i].next # 0
        PROVE  V[i].node \in Waiting \cup {x}
    <3>1. i # n + 1
      BY <1>10, <2>1
    <3>2. i = n \/ i \in 1 .. n - 1
      BY <1>3, <1>9, <3>1
    <3> QED
      BY <1>9, <1>10, <1>12, <3>2
  <2>2. ASSUME NEW i \in 1 .. n - 1
        PROVE  W[i].node \in Visiting(Descended)
    <3>1. i \in DOMAIN V /\ V[i].next # 0 /\ V[i] = W[i]
      BY <1>3, <1>9
    <3> QED
      BY <3>1 DEF Visiting, V
  <2>3. x \in Visiting(Descended)
    <3>1. n \in DOMAIN V /\ V[n].next # 0 /\ V[n].node = x
      BY <1>3, <1>5, <1>9, <1>10
    <3> QED
      BY <3>1 DEF Visiting, V
  <2> QED
    BY <2>1, <2>2, <2>3 DEF Visiting, Waiting, V, n
<1>18. ASSUME NEW i \in DOMAIN V, V[i].next # 0
       PROVE  LookedAt(Descended, i) \subseteq seen[V[i].node]
  <2>1. i # n + 1
    BY <1>10, <1>18
  <2>2. i # Len(V)
    BY <1>9, <2>1
  <2>3. LookedAt(Descended, i) = {Edges(V[i].node)[j] : j \in {k \in DOMAIN Edges(V[i].node) : k < V[i].next}}
    BY <2>2 DEF LookedAt, V
  <2>4. CASE i = n
    BY <1>2, <1>10, <2>3, <2>4 DEF m
  <2>5. CASE i # n
    <3>1. i \in 1 .. n - 1 /\ V[i] = W[i]
      BY <1>3, <1>9, <2>1, <2>5
    <3>2. {Edges(W[i].node)[j] : j \in {k \in DOMAIN Edges(W[i].node) : k < W[i].next}} \subseteq LookedAt(scc, i)
      BY DEF LookedAt
    <3> QED
      BY <1>2, <2>3, <3>1, <3>2
  <2> QED
    BY <2>4, <2>5
<1>19. Search(Descended.index, Descended.low, Range(Descended.stack), Visiting(Descended), seen)
  BY <1>2, <1>8, <1>17
<1> QED
  BY <1>11, <1>13, <1>14, <1>15, <1>16, <1>18, <1>19 DEF SccInv, V

\* What an item hands to its caller's when it is done.
Caller == scc.work[Len(scc.work) - 1].node
Handed(seen) == [g \in Waiting |-> IF g = Caller THEN seen[g] \cup {Item.node} ELSE seen[g]]

\* The work stack without its top item: the caller has its callee behind it.
LEMMA LeftState ==
    ASSUME ReachedIds, SccInv(scc), scc.work # <<>>, NEW seen, NEW D, ItemState(Scanned, seen, D),
           NEW s \in SccRecord, s.work = SubSeq(scc.work, 1, Len(scc.work) - 1),
           s.roots = scc.roots, s.index = Scanned.index, StackInOrder(s), FoundAreCycles(s),
           Search(s.index, s.low, Range(s.stack), Waiting, Handed(seen))
    PROVE  SccInv(s)
<1> DEFINE W == scc.work
           n == Len(scc.work)
           x == Item.node
           V == s.work
<1>1. /\ n \in Nat \ {0} /\ DOMAIN W = 1 .. n /\ Item = W[n]
      /\ \A i \in 1 .. n - 1 :
           /\ W[i].next \in DOMAIN Edges(W[i].node) /\ W[i].next # 0
           /\ Edges(W[i].node)[W[i].next] = W[i + 1].node
  BY WaitingFacts
<1>2. /\ Indexed(s) = Indexed(scc) \cup {x}
      /\ \A i \in 1 .. n - 1 : LookedAt(scc, i) \subseteq seen[W[i].node]
  BY DEF ItemState, Indexed
<1>3. \A i \in 1 .. n - 1 :
        /\ W[i].node \in Waiting
        /\ \A j \in 1 .. n - 1 : i < j => s.index[W[i].node] < s.index[W[j].node]
  BY ItemFacts
<1>4. Len(V) = n - 1 /\ DOMAIN V = 1 .. n - 1 /\ \A i \in 1 .. n - 1 : V[i] = W[i]
  <2> DEFINE T == [node : reached, next : Nat]
  <2>1. W \in Seq(T)
    BY DEF SccInv, SccRecord
  <2> HIDE DEF T
  <2> QED
    BY <1>1, <2>1
<1>5. n \in Nat /\ n # 0
  BY <1>1
<1>6. Caller = W[n - 1].node
  BY DEF Caller
<1> HIDE DEF n, V
<1>7. n # 1 => n - 1 \in 1 .. n - 1 /\ W[(n - 1) + 1] = Item
  <2>1. n # 1 => n - 1 \in 1 .. n - 1 /\ (n - 1) + 1 = n
    BY <1>5
  <2> QED
    BY <1>1, <2>1
<1>8. ASSUME NEW i \in 1 .. n - 1, i # n - 1
      PROVE  i + 1 \in 1 .. n - 1
  BY <1>5, <1>8
<1>9. V # <<>> => n # 1
  BY <1>4
<1>10. WorkIsPath(s)
  <2>1. ASSUME NEW i \in DOMAIN V, i < Len(V)
        PROVE  /\ V[i].next \in DOMAIN Edges(V[i].node)
               /\ Edges(V[i].node)[V[i].next] = V[i + 1].node
    <3>1. i \in 1 .. n - 1 /\ i # n - 1
      BY <1>4, <1>5, <2>1
    <3>2. i + 1 \in 1 .. n - 1
      BY <1>8, <3>1
    <3> QED
      BY <1>1, <1>4, <3>1, <3>2
  <2>2. ASSUME NEW i \in DOMAIN V, NEW j \in DOMAIN V, i < j
        PROVE  s.index[V[i].node] < s.index[V[j].node]
    BY <1>3, <1>4, <2>2
  <2>3. ASSUME V # <<>>
        PROVE  /\ V[Len(V)].next # 0 /\ V[Len(V)].next \in DOMAIN Edges(V[Len(V)].node)
               /\ Edges(V[Len(V)].node)[V[Len(V)].next] \in Indexed(s)
    <3>1. n - 1 \in 1 .. n - 1 /\ W[(n - 1) + 1] = Item
      BY <1>7, <1>9, <2>3
    <3>2. V[Len(V)] = W[n - 1]
      BY <1>4, <3>1
    <3>3. Edges(W[n - 1].node)[W[n - 1].next] = x
      BY <1>1, <3>1
    <3> QED
      BY <1>1, <1>2, <3>1, <3>2, <3>3
  <2> QED
    BY <2>1, <2>2, <2>3 DEF WorkIsPath, V
<1>11. RootsCover(s)
  <2>1. reached \subseteq Indexed(scc) \cup Range(scc.roots) \cup {W[1].node}
    BY DEF SccInv, RootsCover
  <2>2. CASE V = <<>>
    <3>1. n = 1
      BY <1>4, <1>5, <2>2
    <3> QED
      BY <1>1, <1>2, <2>1, <2>2, <3>1 DEF RootsCover, V
  <2>3. CASE V # <<>>
    <3>1. 1 \in 1 .. n - 1
      BY <1>5, <1>9, <2>3
    <3>2. V[1] = W[1]
      BY <1>4, <3>1
    <3> QED
      BY <1>2, <2>1, <2>3, <3>2 DEF RootsCover, V
  <2> QED
    BY <2>2, <2>3
<1>12. Visiting(s) = Waiting
  <2>1. Visiting(s) = {V[i].node : i \in {j \in DOMAIN V : V[j].next # 0}}
    BY DEF Visiting, V
  <2>2. Waiting = {W[i].node : i \in 1 .. n - 1}
    BY DEF Waiting, n
  <2>3. {j \in DOMAIN V : V[j].next # 0} = 1 .. n - 1
    BY <1>1, <1>4
  <2> QED
    BY <1>4, <2>1, <2>2, <2>3
<1>13. ASSUME NEW i \in DOMAIN V
       PROVE  LookedAt(s, i) \subseteq Handed(seen)[V[i].node]
  <2>1. i \in 1 .. n - 1 /\ V[i] = W[i] /\ W[i].node \in Waiting
    BY <1>3, <1>4
  <2>2. SUFFICES ASSUME NEW k \in DOMAIN Edges(W[i].node),
                        k < W[i].next \/ (i = n - 1 /\ k = W[i].next)
                 PROVE  Edges(W[i].node)[k] \in Handed(seen)[W[i].node]
    BY <1>4, <2>1 DEF LookedAt, V
  <2>3. CASE k < W[i].next
    <3>1. Edges(W[i].node)[k] \in LookedAt(scc, i)
      BY <2>3 DEF LookedAt
    <3>2. Edges(W[i].node)[k] \in seen[W[i].node]
      BY <1>2, <2>1, <3>1
    <3> QED
      BY <2>1, <3>2 DEF Handed
  <2>4. CASE i = n - 1 /\ k = W[i].next
    <3>1. n # 1
      BY <1>5, <2>1, <2>4
    <3>2. Edges(W[i].node)[k] = x
      BY <1>1, <1>7, <2>1, <2>4, <3>1
    <3> QED
      BY <1>6, <2>1, <2>4, <3>2 DEF Handed
  <2> QED
    BY <2>2, <2>3, <2>4
<1>14. \A i \in DOMAIN s.work : s.work[i].next # 0 => LookedAt(s, i) \subseteq Handed(seen)[s.work[i].node]
  BY <1>13 DEF V
<1> QED
  BY <1>10, <1>11, <1>12, <1>14 DEF SccInv

\* The caller is the newest of those that wait.
LEMMA CallerFacts ==
    ASSUME ReachedIds, SccInv(scc), scc.work # <<>>, NEW seen, NEW D, ItemState(Scanned, seen, D),
           Len(scc.work) # 1
    PROVE  /\ Newest(Scanned.index, Waiting, Caller) /\ Item.node \in Callees(Caller)
           /\ Scanned.work # <<>> /\ Last(Scanned.work).node = Caller
           /\ Scanned.index[Caller] < Scanned.index[Item.node]
<1> DEFINE W == scc.work
           n == Len(scc.work)
<1>1. /\ n \in Nat \ {0} /\ Item = W[n]
      /\ \A i \in 1 .. n - 1 : W[i + 1].node \in Callees(W[i].node)
  BY WaitingFacts
<1>2. /\ Scanned.index \in [Indexed(Scanned) -> Nat]
      /\ \A i \in 1 .. n - 1 :
           /\ W[i].node \in Waiting /\ W[i].node \in Indexed(Scanned)
           /\ Scanned.index[W[i].node] < Scanned.index[Item.node]
           /\ \A j \in 1 .. n - 1 : i < j => Scanned.index[W[i].node] < Scanned.index[W[j].node]
  BY ItemFacts
<1>3. n \in Nat /\ n # 0 /\ n # 1
  BY <1>1
<1>4. Caller = W[n - 1].node /\ Scanned.work = SubSeq(W, 1, n - 1)
  BY DEF Caller, ItemState
<1>5. W \in Seq([node : reached, next : Nat])
  BY DEF SccInv, SccRecord
<1>6. Waiting = {W[i].node : i \in 1 .. n - 1}
  BY DEF Waiting
<1>7. Scanned.work # <<>> /\ Last(Scanned.work) = W[n - 1]
  <2> DEFINE T == [node : reached, next : Nat]
  <2> HIDE DEF T
  <2>1. W \in Seq(T)
    BY <1>5 DEF T
  <2> DEFINE u == SubSeq(W, 1, n - 1)
  <2>a. u \in Seq(T) /\ Len(u) = n - 1 /\ \A i \in 1 .. n - 1 : u[i] = W[i]
    BY <1>1, <2>1
  <2> HIDE DEF u, n
  <2>b. Scanned.work = u
    BY <1>4 DEF u, n
  <2>c. n - 1 \in 1 .. n - 1 /\ n - 1 # 0
    BY <1>3
  <2>2. Len(Scanned.work) = n - 1 /\ Scanned.work[n - 1] = W[n - 1]
    BY <2>a, <2>b, <2>c
  <2>3. Scanned.work # <<>>
    BY <2>a, <2>b, <2>c
  <2> QED
    BY <2>2, <2>3 DEF Last
<1> HIDE DEF n
<1>8. n - 1 \in 1 .. n - 1 /\ (n - 1) + 1 = n
  BY <1>3
<1>9. Item.node \in Callees(Caller) /\ Caller \in Waiting
  BY <1>1, <1>2, <1>4, <1>8
<1>10. ASSUME NEW g \in Waiting
       PROVE  Scanned.index[g] <= Scanned.index[Caller]
  <2>1. PICK i \in 1 .. n - 1 : g = W[i].node
    BY <1>6
  <2>2. Scanned.index[g] \in Nat /\ Scanned.index[Caller] \in Nat
    BY <1>2, <1>4, <1>8, <2>1
  <2>3. i = n - 1 \/ i < n - 1
    BY <1>3
  <2> QED
    BY <1>2, <1>4, <1>8, <2>1, <2>2, <2>3
<1> QED
  BY <1>2, <1>4, <1>7, <1>8, <1>9, <1>10 DEF Newest

\* A stack in the order of the indices, cut at one of its members.
LEMMA StackSplit ==
    ASSUME NEW T, NEW stack \in Seq(T), NEW index \in [T -> Nat], NEW at \in DOMAIN stack,
           \A i, j \in DOMAIN stack : i < j => index[stack[i]] < index[stack[j]]
    PROVE  /\ SubSeq(stack, 1, at - 1) \in Seq(T) /\ DOMAIN SubSeq(stack, 1, at - 1) = 1 .. at - 1
           /\ \A i \in 1 .. at - 1 : i \in DOMAIN stack /\ SubSeq(stack, 1, at - 1)[i] = stack[i]
           /\ \A y : y \in Range(SubSeq(stack, 1, at - 1)) <=>
                      y \in Range(stack) /\ index[y] < index[stack[at]]
           /\ \A y : y \in Range(SubSeq(stack, at, Len(stack))) <=>
                      y \in Range(stack) /\ index[stack[at]] <= index[y]
<1> DEFINE n == Len(stack)
           lower == SubSeq(stack, 1, at - 1)
           upper == SubSeq(stack, at, n)
<1>1. n \in Nat /\ DOMAIN stack = 1 .. n /\ at \in Nat /\ 1 <= at /\ at <= n
      /\ \A i \in 1 .. n : stack[i] \in T /\ index[stack[i]] \in Nat
  OBVIOUS
<1>2. lower \in Seq(T) /\ Len(lower) = at - 1 /\ \A i \in 1 .. at - 1 : lower[i] = stack[i]
  BY <1>1
<1>3. upper \in Seq(T) /\ Len(upper) = n - at + 1 /\ \A i \in 1 .. n - at + 1 : upper[i] = stack[at + i - 1]
  <2>1. at \in Int /\ n \in Int /\ at <= n /\ \A i \in at .. n : stack[i] \in T
    BY <1>1
  <2> HIDE DEF n
  <2> QED
    BY <2>1, SubSeqProperties
<1> HIDE DEF n, lower, upper
<1>4. DOMAIN lower = 1 .. at - 1 /\ DOMAIN upper = 1 .. n - at + 1
  BY <1>2, <1>3
<1>5. \A i \in 1 .. n : (i < at <=> index[stack[i]] < index[stack[at]])
                        /\ (at <= i <=> index[stack[at]] <= index[stack[i]])
  <2> SUFFICES ASSUME NEW i \in 1 .. n
               PROVE  /\ i < at <=> index[stack[i]] < index[stack[at]]
                      /\ at <= i <=> index[stack[at]] <= index[stack[i]]
    OBVIOUS
  <2>1. i < at => index[stack[i]] < index[stack[at]]
    BY <1>1
  <2>2. at < i => index[stack[at]] < index[stack[i]]
    BY <1>1
  <2>3. i \in Nat /\ index[stack[i]] \in Nat /\ index[stack[at]] \in Nat
    BY <1>1
  <2> QED
    BY <1>1, <2>1, <2>2, <2>3
<1>6. Range(stack) = {stack[i] : i \in 1 .. n}
  BY <1>1 DEF Range
<1>7. Range(lower) = {y \in Range(stack) : index[y] < index[stack[at]]}
  <2>1. ASSUME NEW i \in 1 .. at - 1
        PROVE  lower[i] \in Range(stack) /\ index[lower[i]] < index[stack[at]]
    <3>1. i \in 1 .. n /\ i < at
      BY <1>1
    <3> QED
      BY <1>2, <1>5, <1>6, <3>1
  <2>2. ASSUME NEW i \in 1 .. n, index[stack[i]] < index[stack[at]]
        PROVE  stack[i] \in Range(lower)
    <3>1. i < at
      BY <1>5, <2>2
    <3>2. i \in 1 .. at - 1
      BY <1>1, <3>1
    <3> QED
      BY <1>2, <1>4, <3>2 DEF Range
  <2>3. Range(lower) = {lower[i] : i \in 1 .. at - 1}
    BY <1>4 DEF Range
  <2>4. \A y \in Range(lower) : y \in Range(stack) /\ index[y] < index[stack[at]]
    BY <2>1, <2>3
  <2>5. \A y \in Range(stack) : index[y] < index[stack[at]] => y \in Range(lower)
    BY <1>6, <2>2
  <2> QED
    BY <2>4, <2>5
<1>8. Range(upper) = {y \in Range(stack) : index[stack[at]] <= index[y]}
  <2>1. ASSUME NEW i \in 1 .. n - at + 1
        PROVE  upper[i] \in Range(stack) /\ index[stack[at]] <= index[upper[i]]
    <3>1. at + i - 1 \in 1 .. n /\ at <= at + i - 1
      BY <1>1
    <3> QED
      BY <1>3, <1>5, <1>6, <3>1
  <2>2. ASSUME NEW i \in 1 .. n, index[stack[at]] <= index[stack[i]]
        PROVE  stack[i] \in Range(upper)
    <3>1. at <= i
      BY <1>5, <2>2
    <3>2. i - at + 1 \in 1 .. n - at + 1 /\ at + (i - at + 1) - 1 = i
      BY <1>1, <3>1
    <3>3. upper[i - at + 1] = stack[i]
      BY <1>3, <3>2
    <3> QED
      BY <1>4, <3>2, <3>3 DEF Range
  <2>3. Range(upper) = {upper[i] : i \in 1 .. n - at + 1}
    BY <1>4 DEF Range
  <2>4. \A y \in Range(upper) : y \in Range(stack) /\ index[stack[at]] <= index[y]
    BY <2>1, <2>3
  <2>5. \A y \in Range(stack) : index[stack[at]] <= index[y] => y \in Range(upper)
    BY <1>6, <2>2
  <2> QED
    BY <2>4, <2>5
<1>9. \A i \in 1 .. at - 1 : i \in DOMAIN stack
  BY <1>1
<1> QED
  BY <1>2, <1>4, <1>7, <1>8, <1>9 DEF lower, upper, n

Left ==
    LET finished == Pop(Scanned, Item.node)
    IN  IF finished.work = <<>> THEN finished
        ELSE Lowered(finished, Last(finished.work).node, finished.low[Item.node])

\* The item's function has a lower one to go back to: it stays on the stack.
LEMMA LeaveBelow ==
    ASSUME ReachedIds, SccInv(scc), scc.work # <<>>, Fresh = {},
           Scanned.index[Item.node] # Scanned.low[Item.node]
    PROVE  SccInv(Left)
<1> DEFINE x == Item.node
           K == Range(Scanned.stack)
           G == Waiting \cup {x}
           D == {k \in DOMAIN Edges(x) : Fresh = {} \/ k < Least(Fresh)}
<1>1. PICK seen : ItemState(Scanned, seen, D)
  BY ScannedState
<1>2. /\ Scanned \in SccRecord /\ Scanned.roots = scc.roots /\ Scanned.components = scc.components
      /\ Scanned.work = SubSeq(scc.work, 1, Len(scc.work) - 1)
      /\ StackInOrder(Scanned) /\ Unstacked(Scanned) = Unstacked(scc)
      /\ Search(Scanned.index, Scanned.low, K, G, seen) /\ Newest(Scanned.index, G, x)
      /\ \A k \in DOMAIN Edges(x) : Edges(x)[k] \in seen[x]
  BY <1>1 DEF ItemState
<1>3. /\ Scanned.index \in [Indexed(Scanned) -> Nat] /\ Scanned.low \in [Indexed(Scanned) -> Nat]
      /\ Indexed(Scanned) \in SUBSET reached /\ K \subseteq Indexed(Scanned)
      /\ x \in K /\ Waiting \subseteq K /\ x \notin Waiting
  BY <1>1, ItemFacts
<1>4. seen[x] = Callees(x)
  <2>1. Callees(x) = Range(Edges(x))
    BY EdgesFacts
  <2>2. seen[x] \subseteq Callees(x)
    BY <1>2 DEF Search, CallsFollowed
  <2> QED
    BY <1>2, <2>1, <2>2 DEF Range
<1>5. G \ {x} = Waiting
  BY <1>3
<1>6. Scanned.low[x] < Scanned.index[x]
  <2>1. Scanned.low[x] <= Scanned.index[x]
    BY <1>2 DEF Search, LowIsReached
  <2>2. Scanned.low[x] \in Nat /\ Scanned.index[x] \in Nat
    BY <1>3
  <2> QED
    BY <2>1, <2>2
<1>7. Len(scc.work) # 1
  <2> SUFFICES ASSUME Len(scc.work) = 1 PROVE FALSE
    OBVIOUS
  <2>1. Waiting # {}
    <3>1. G \ {x} # {}
      <4> HIDE DEF K, G
      <4>1. x \in G
        BY DEF G
      <4> QED
        BY <1>2, <1>6, <4>1, DoneHasCaller
    <3> QED
      BY <1>5, <3>1
  <2> QED
    BY <2>1 DEF Waiting
<1>8. /\ Newest(Scanned.index, Waiting, Caller) /\ x \in Callees(Caller)
      /\ Scanned.work # <<>> /\ Last(Scanned.work).node = Caller
  BY <1>1, <1>7, CallerFacts
<1> DEFINE low2 == [Scanned.low EXCEPT ![Caller] = MinOf(Scanned.low[Caller], Scanned.low[x])]
<1>9. Search(Scanned.index, low2, K, Waiting, Handed(seen))
  <2>1. Search(Scanned.index, low2, K, G \ {x}, Handed(seen))
    <3>1. Newest(Scanned.index, G \ {x}, Caller)
      BY <1>5, <1>8
    <3>2. /\ Search(Scanned.index, Scanned.low, K, G, seen) /\ Newest(Scanned.index, G, x)
          /\ x \in Callees(Caller)
      BY <1>2, <1>8
    <3>3. Handed(seen) = [g \in G \ {x} |-> IF g = Caller THEN seen[g] \cup {x} ELSE seen[g]]
      BY <1>5 DEF Handed
    <3>4. low2 = [Scanned.low EXCEPT ![Caller] = MinOf(Scanned.low[Caller], Scanned.low[x])]
      OBVIOUS
    <3> HIDE DEF K, G, x, low2
    <3> QED
      BY <1>4, <1>6, <3>1, <3>2, <3>3, <3>4, DoneSearch
  <2> QED
    BY <1>5, <2>1
<1>10. Left = [Scanned EXCEPT !.low = low2]
  <2>1. Pop(Scanned, x) = Scanned
    BY DEF Pop
  <2>2. Left = Lowered(Scanned, Caller, Scanned.low[x])
    BY <1>8, <2>1 DEF Left
  <2> QED
    BY <1>2, <2>2 DEF Lowered, SccRecord
<1>11. low2 \in [Indexed(Scanned) -> Nat]
  <2>1. Caller \in Indexed(Scanned)
    BY <1>3, <1>8 DEF Newest
  <2>2. MinOf(Scanned.low[Caller], Scanned.low[x]) \in Nat
    BY <1>3, <2>1 DEF MinOf
  <2> QED
    BY <1>3, <2>1, <2>2
<1> HIDE DEF low2
<1>12. /\ Left.work = Scanned.work /\ Left.roots = Scanned.roots /\ Left.index = Scanned.index
       /\ Left.low = low2 /\ Left.stack = Scanned.stack /\ Left.components = Scanned.components
       /\ Left \in SccRecord
  <2>1. low2 \in Tables
    BY <1>3, <1>11 DEF Tables
  <2> QED
    BY <1>2, <1>10, <2>1 DEF SccRecord
<1>13. StackInOrder(Left) /\ Unstacked(Left) = Unstacked(scc)
  BY <1>2, <1>11, <1>12 DEF StackInOrder, Unstacked, Indexed
<1>14. FoundAreCycles(Left)
  BY <1>2, <1>12, <1>13 DEF SccInv, FoundAreCycles
<1> QED
  BY <1>1, <1>2, <1>9, <1>12, <1>13, <1>14, LeftState

\* It has none: its cycle leaves the stack and becomes a component.
LEMMA LeaveRoot ==
    ASSUME ReachedIds, SccInv(scc), scc.work # <<>>, Fresh = {},
           Scanned.index[Item.node] = Scanned.low[Item.node]
    PROVE  SccInv(Left)
<1> DEFINE x == Item.node
           K == Range(Scanned.stack)
           G == Waiting \cup {x}
           D == {k \in DOMAIN Edges(x) : Fresh = {} \/ k < Least(Fresh)}
           at == CHOOSE i \in DOMAIN Scanned.stack : Scanned.stack[i] = x
           lower == SubSeq(Scanned.stack, 1, at - 1)
           upper == SubSeq(Scanned.stack, at, Len(Scanned.stack))
           found == Append(scc.components, Ascending(Range(upper)))
<1>1. PICK seen : ItemState(Scanned, seen, D)
  BY ScannedState
<1>2. /\ Scanned \in SccRecord /\ Scanned.roots = scc.roots /\ Scanned.components = scc.components
      /\ Scanned.work = SubSeq(scc.work, 1, Len(scc.work) - 1)
      /\ StackInOrder(Scanned) /\ Unstacked(Scanned) = Unstacked(scc)
      /\ Search(Scanned.index, Scanned.low, K, G, seen) /\ Newest(Scanned.index, G, x)
      /\ \A k \in DOMAIN Edges(x) : Edges(x)[k] \in seen[x]
  BY <1>1 DEF ItemState
<1>3. /\ Scanned.index \in [Indexed(Scanned) -> Nat] /\ Scanned.low \in [Indexed(Scanned) -> Nat]
      /\ Indexed(Scanned) \in SUBSET reached /\ K \subseteq Indexed(Scanned)
      /\ x \in K /\ Waiting \subseteq K /\ x \notin Waiting
      /\ seen \in [G -> SUBSET reached]
  BY <1>1, ItemFacts
<1>4. seen[x] = Callees(x)
  <2>1. Callees(x) = Range(Edges(x))
    BY EdgesFacts
  <2>2. seen[x] \subseteq Callees(x)
    BY <1>2 DEF Search, CallsFollowed
  <2> QED
    BY <1>2, <2>1, <2>2 DEF Range
<1>5. G \ {x} = Waiting
  BY <1>3
<1>6. Len(scc.work) # 1 =>
        /\ x \in Callees(Caller) /\ Caller \in Waiting
        /\ Scanned.work # <<>> /\ Last(Scanned.work).node = Caller
        /\ Scanned.index[Caller] < Scanned.index[x]
  BY <1>1, CallerFacts DEF Newest
<1>7. HandedOn(G, x, seen, Handed(seen))
  <2>1. Handed(seen) \in [G \ {x} -> SUBSET reached]
    BY <1>3, <1>5 DEF Handed
  <2>2. ASSUME NEW g \in Waiting
        PROVE  Handed(seen)[g] \subseteq Callees(g) \cap (seen[g] \cup {x})
    <3>1. seen[g] \subseteq Callees(g)
      BY <1>2 DEF Search, CallsFollowed
    <3>2. Len(scc.work) # 1
      <4> SUFFICES ASSUME Len(scc.work) = 1 PROVE FALSE
        OBVIOUS
      <4>1. 1 .. Len(scc.work) - 1 = {}
        OBVIOUS
      <4> QED
        BY <4>1 DEF Waiting
    <3> QED
      BY <1>6, <3>1, <3>2 DEF Handed
  <2> QED
    BY <1>5, <2>1, <2>2 DEF HandedOn
<1>8. /\ Upwards(Scanned.index, K, x) = CycleOf(x)
      /\ Search(Scanned.index, Scanned.low, Beneath(Scanned.index, K, x), Waiting, Handed(seen))
  <2> HIDE DEF K, G, x
  <2> DEFINE index == Scanned.index
             low == Scanned.low
  <2>1. /\ Upwards(index, K, x) = CycleOf(x)
        /\ Search(index, low, Beneath(index, K, x), G \ {x}, Handed(seen))
    <3>1. low[x] = index[x]
      BY DEF x
    <3>2. Search(index, low, K, G, seen) /\ Newest(index, G, x)
      BY <1>2
    <3> HIDE DEF index, low
    <3> QED
      BY <1>4, <1>7, <3>1, <3>2, RootSearch
  <2> QED
    BY <1>5, <2>1
<1>9. at \in DOMAIN Scanned.stack /\ Scanned.stack[at] = x
  BY <1>3 DEF Range
<1>10. /\ lower \in Seq(Indexed(Scanned)) /\ DOMAIN lower = 1 .. at - 1
       /\ \A i \in 1 .. at - 1 : i \in DOMAIN Scanned.stack /\ lower[i] = Scanned.stack[i]
       /\ Range(lower) = Beneath(Scanned.index, K, x)
       /\ Range(upper) = Upwards(Scanned.index, K, x)
  <2>1. Scanned.stack \in Seq(Indexed(Scanned))
    <3>1. Scanned.stack \in Seq(reached) /\ \A i \in DOMAIN Scanned.stack : Scanned.stack[i] \in Indexed(Scanned)
      BY <1>2 DEF SccRecord, StackInOrder
    <3> QED
      BY <3>1
  <2>2. \A i, j \in DOMAIN Scanned.stack :
          i < j => Scanned.index[Scanned.stack[i]] < Scanned.index[Scanned.stack[j]]
    BY <1>2 DEF StackInOrder
  <2> HIDE DEF at
  <2>3. /\ lower \in Seq(Indexed(Scanned)) /\ DOMAIN lower = 1 .. at - 1
        /\ \A i \in 1 .. at - 1 : i \in DOMAIN Scanned.stack /\ lower[i] = Scanned.stack[i]
        /\ \A y : y \in Range(lower) <=> y \in K /\ Scanned.index[y] < Scanned.index[Scanned.stack[at]]
        /\ \A y : y \in Range(upper) <=> y \in K /\ Scanned.index[Scanned.stack[at]] <= Scanned.index[y]
    BY <1>3, <1>9, <2>1, <2>2, StackSplit
  <2> QED
    BY <1>9, <2>3 DEF Beneath, Upwards
<1>11. Range(upper) = CycleOf(x)
  BY <1>8, <1>10
<1>12. found = Append(scc.components, Ascending(CycleOf(x)))
  BY <1>11
<1> HIDE DEF at, lower, upper, found
<1>13. Pop(Scanned, x) = [Scanned EXCEPT !.stack = lower, !.components = found]
  BY <1>2 DEF Pop, at, lower, upper, found
<1>14. Left = [Scanned EXCEPT !.stack = lower, !.components = found]
  <2> DEFINE popped == [Scanned EXCEPT !.stack = lower, !.components = found]
  <2>1. /\ popped.work = Scanned.work /\ popped.low = Scanned.low
    BY <1>2 DEF SccRecord
  <2>2. CASE Scanned.work = <<>>
    BY <1>13, <2>1, <2>2 DEF Left
  <2>3. CASE Scanned.work # <<>>
    <3>1. Len(scc.work) # 1
      <4> SUFFICES ASSUME Len(scc.work) = 1 PROVE FALSE
        OBVIOUS
      <4>1. SubSeq(scc.work, 1, 0) = <<>> /\ Len(scc.work) - 1 = 0
        BY SubSeqEmpty
      <4> QED
        BY <1>2, <2>3, <4>1
    <3>2. Left = Lowered(popped, Caller, Scanned.low[x])
      BY <1>6, <1>13, <2>1, <2>3, <3>1 DEF Left
    <3>3. MinOf(Scanned.low[Caller], Scanned.low[x]) = Scanned.low[Caller]
      <4>1. Caller \in G /\ Caller \in Indexed(Scanned)
        BY <1>3, <1>6, <3>1
      <4>2. Scanned.low[Caller] <= Scanned.index[Caller]
        BY <1>2, <4>1 DEF Search, LowIsReached
      <4>3. /\ Scanned.low[Caller] \in Nat /\ Scanned.index[Caller] \in Nat /\ Scanned.low[x] \in Nat
            /\ Scanned.index[x] = Scanned.low[x]
        BY <1>3, <4>1
      <4>4. Scanned.index[Caller] < Scanned.index[x]
        BY <1>6, <3>1
      <4> QED
        BY <4>2, <4>3, <4>4 DEF MinOf
    <3>4. [Scanned.low EXCEPT ![Caller] = Scanned.low[Caller]] = Scanned.low
      BY <1>3
    <3>5. Lowered(popped, Caller, Scanned.low[x])
            = [popped EXCEPT !.low = [Scanned.low EXCEPT ![Caller] = MinOf(Scanned.low[Caller], Scanned.low[x])]]
      BY <1>2, <2>1 DEF Lowered, SccRecord
    <3>6. [popped EXCEPT !.low = Scanned.low] = popped
      BY <1>2 DEF SccRecord
    <3> QED
      BY <3>2, <3>3, <3>4, <3>5, <3>6
  <2> QED
    BY <2>2, <2>3
<1>15. CycleOf(x) \subseteq reached /\ x \in CycleOf(x)
  BY <1>3, CallsReachFacts DEF CycleOf
<1>16. Ascending(CycleOf(x)) \in Seq(reached)
  <2>1. CycleOf(x) \in SUBSET Nat /\ IsFiniteSet(CycleOf(x))
    BY <1>15, FS_Subset DEF ReachedIds
  <2>2. Ascending(CycleOf(x)) \in Seq(CycleOf(x))
    BY <2>1, AscendingFacts
  <2> QED
    BY <1>15, <2>2
<1>17. /\ found \in Seq(Seq(reached)) /\ Range(found) = Range(scc.components) \cup {Ascending(CycleOf(x))}
  <2>1. scc.components \in Seq(Seq(reached))
    BY <1>2 DEF SccRecord
  <2> QED
    BY <1>12, <1>16, <2>1, RangeOfAppend
<1>18. /\ Left.work = Scanned.work /\ Left.roots = Scanned.roots /\ Left.index = Scanned.index
       /\ Left.low = Scanned.low /\ Left.stack = lower /\ Left.components = found
       /\ Left \in SccRecord
  <2>1. lower \in Seq(reached)
    BY <1>3, <1>10
  <2> QED
    BY <1>2, <1>14, <1>17, <2>1 DEF SccRecord
<1>19. StackInOrder(Left)
  <2>1. DOMAIN Left.low = Indexed(Left) /\ Indexed(Left) = Indexed(Scanned)
        /\ \A y \in Indexed(Left) : Left.index[y] < Cardinality(Indexed(Left))
    BY <1>2, <1>18 DEF StackInOrder, Indexed
  <2>2. \A i \in DOMAIN lower : i \in DOMAIN Scanned.stack /\ lower[i] = Scanned.stack[i]
    BY <1>10
  <2>3. \A i \in DOMAIN lower : lower[i] \in Indexed(Left)
    BY <1>2, <2>1, <2>2 DEF StackInOrder
  <2>4. \A i, j \in DOMAIN lower : i < j => Left.index[lower[i]] < Left.index[lower[j]]
    BY <1>2, <1>18, <2>2 DEF StackInOrder
  <2> QED
    BY <1>18, <2>1, <2>3, <2>4 DEF StackInOrder
<1>20. Unstacked(Left) = Unstacked(scc) \cup CycleOf(x)
  <2>1. Range(Left.stack) = {y \in K : Scanned.index[y] < Scanned.index[x]}
    BY <1>10, <1>18 DEF Beneath
  <2>2. CycleOf(x) = {y \in K : Scanned.index[x] <= Scanned.index[y]}
    BY <1>8 DEF Upwards
  <2>3. \A y \in K : Scanned.index[y] \in Nat
    BY <1>3
  <2>4. Scanned.index[x] \in Nat
    BY <1>3
  <2>5. K = Range(Left.stack) \cup CycleOf(x) /\ Range(Left.stack) \cap CycleOf(x) = {}
    BY <2>1, <2>2, <2>3, <2>4
  <2>6. Indexed(Left) = Indexed(Scanned) /\ Unstacked(Scanned) = Indexed(Scanned) \ K
    BY <1>18 DEF Indexed, Unstacked
  <2> QED
    BY <1>2, <1>3, <2>5, <2>6 DEF Unstacked
<1>21. FoundAreCycles(Left)
  <2>1. \A y \in CycleOf(x) : CycleOf(y) = CycleOf(x)
    BY CycleIsShared
  <2>2. FoundAreCycles(scc)
    BY DEF SccInv
  <2>3. \A c \in Range(Left.components) : \E y \in Unstacked(Left) : c = Ascending(CycleOf(y))
    BY <1>15, <1>17, <1>18, <1>20, <2>2 DEF FoundAreCycles
  <2>4. ASSUME NEW y \in Unstacked(Left)
        PROVE  Ascending(CycleOf(y)) \in Range(Left.components)
    <3>1. CASE y \in CycleOf(x)
      <4>1. CycleOf(y) = CycleOf(x)
        BY <2>1, <3>1
      <4> QED
        BY <1>17, <1>18, <4>1
    <3>2. CASE y \in Unstacked(scc)
      BY <1>17, <1>18, <2>2, <3>2 DEF FoundAreCycles
    <3> QED
      BY <1>20, <3>1, <3>2
  <2> QED
    BY <2>3, <2>4 DEF FoundAreCycles
<1>22. Search(Left.index, Left.low, Range(Left.stack), Waiting, Handed(seen))
  BY <1>8, <1>10, <1>18
<1> QED
  BY <1>1, <1>2, <1>18, <1>19, <1>21, <1>22, LeftState

\* The root loop takes the next function, and starts with all of them.
Rooted ==
    [scc EXCEPT !.roots = Tail(@),
                !.work = IF Head(scc.roots) \in Indexed(scc) THEN <<>>
                         ELSE <<[node |-> Head(scc.roots), next |-> 0]>>]

LEMMA NextRootKeeps ==
    ASSUME ReachedIds, SccInv(scc), scc.work = <<>>, scc.roots # <<>>
    PROVE  SccInv(Rooted)
<1> DEFINE h == Head(scc.roots)
           V == Rooted.work
           T == [node : reached, next : Nat]
<1>1. /\ scc \in SccRecord /\ StackInOrder(scc) /\ FoundAreCycles(scc)
      /\ reached \subseteq Indexed(scc) \cup Range(scc.roots)
  BY DEF SccInv, RootsCover
<1>2. /\ scc.roots \in Seq(reached) /\ h \in reached /\ Tail(scc.roots) \in Seq(reached)
      /\ Range(scc.roots) = {h} \cup Range(Tail(scc.roots))
  <2>1. scc.roots \in Seq(reached)
    BY <1>1 DEF SccRecord
  <2>2. /\ h \in reached /\ Tail(scc.roots) \in Seq(reached) /\ Len(Tail(scc.roots)) = Len(scc.roots) - 1
        /\ \A i \in 1 .. Len(scc.roots) - 1 : Tail(scc.roots)[i] = scc.roots[i + 1]
        /\ h = scc.roots[1] /\ Len(scc.roots) \in Nat \ {0} /\ DOMAIN scc.roots = 1 .. Len(scc.roots)
    BY <2>1, HeadTailProperties
  <2> DEFINE n == Len(scc.roots)
             t == Tail(scc.roots)
  <2>3. DOMAIN t = 1 .. n - 1
    BY <2>2
  <2> HIDE DEF n, t, h
  <2>4. n \in Nat /\ n # 0 /\ DOMAIN scc.roots = 1 .. n /\ h = scc.roots[1]
        /\ \A i \in 1 .. n - 1 : t[i] = scc.roots[i + 1]
    BY <2>2 DEF n, t
  <2>5. ASSUME NEW i \in 1 .. n
        PROVE  scc.roots[i] \in {h} \cup Range(t)
    <3>1. CASE i = 1
      BY <2>4, <3>1
    <3>2. CASE i # 1
      <4>1. i - 1 \in 1 .. n - 1 /\ (i - 1) + 1 = i
        BY <2>4, <3>2
      <4>2. t[i - 1] = scc.roots[i]
        BY <2>4, <4>1
      <4> QED
        BY <2>3, <4>1, <4>2 DEF Range
    <3> QED
      BY <3>1, <3>2
  <2>6. \A i \in 1 .. n - 1 : i + 1 \in 1 .. n
    BY <2>4
  <2>7. 1 \in 1 .. n
    BY <2>4
  <2>8. Range(scc.roots) = {h} \cup Range(t)
    BY <2>3, <2>4, <2>5, <2>6, <2>7 DEF Range
  <2> QED
    BY <2>1, <2>2, <2>8 DEF t, h
<1>3. /\ Rooted.roots = Tail(scc.roots) /\ Rooted.index = scc.index /\ Rooted.low = scc.low
      /\ Rooted.stack = scc.stack /\ Rooted.components = scc.components
      /\ V = IF h \in Indexed(scc) THEN <<>> ELSE <<[node |-> h, next |-> 0]>>
      /\ Rooted = [roots |-> Tail(scc.roots), work |-> V, index |-> scc.index, low |-> scc.low,
                   stack |-> scc.stack, components |-> scc.components]
  <2> DEFINE r == Tail(scc.roots)
             w == IF h \in Indexed(scc) THEN <<>> ELSE <<[node |-> h, next |-> 0]>>
  <2>1. Rooted = [scc EXCEPT !.roots = r, !.work = w]
    BY DEF Rooted
  <2> HIDE DEF r, w
  <2>2. /\ Rooted.work = w
        /\ Rooted = [roots |-> r, work |-> w, index |-> scc.index, low |-> scc.low,
                     stack |-> scc.stack, components |-> scc.components]
    BY <1>1, <2>1 DEF SccRecord
  <2> QED
    BY <2>2 DEF r, w
<1>4. /\ V \in Seq(T) /\ DOMAIN V \subseteq {1} /\ (V # <<>> => V[1] = [node |-> h, next |-> 0] /\ h \notin Indexed(scc) /\ Len(V) = 1)
      /\ (V = <<>> => h \in Indexed(scc) /\ DOMAIN V = {})
  <2>1. [node |-> h, next |-> 0] \in T
    BY <1>2
  <2> DEFINE a == [node |-> h, next |-> 0]
  <2> HIDE DEF a, T
  <2>2. CASE h \in Indexed(scc)
    <3>1. V = <<>>
      BY <1>3, <2>2
    <3> QED
      BY <2>2, <3>1
  <2>3. CASE h \notin Indexed(scc)
    <3>1. V = <<a>>
      BY <1>3, <2>3 DEF a
    <3>2. <<a>> \in Seq(T) /\ Len(<<a>>) = 1 /\ DOMAIN <<a>> = {1} /\ <<a>>[1] = a /\ <<a>> # <<>>
      BY <2>1 DEF a
    <3> QED
      BY <2>3, <3>1, <3>2 DEF a
  <2> QED
    BY <2>2, <2>3
<1> HIDE DEF V
<1>5. Rooted \in SccRecord
  <2>1. /\ scc.index \in Tables /\ scc.low \in Tables /\ scc.stack \in Seq(reached)
        /\ scc.components \in Seq(Seq(reached))
    BY <1>1 DEF SccRecord
  <2> QED
    BY <1>2, <1>3, <1>4, <2>1, SccRecordOf
<1>6. \A i \in DOMAIN V : V[i].next = 0 /\ i = 1
  <2> SUFFICES ASSUME NEW i \in DOMAIN V PROVE V[i].next = 0 /\ i = 1
    OBVIOUS
  <2>1. i = 1 /\ V # <<>>
    BY <1>4
  <2> QED
    BY <1>4, <2>1
<1>7. WorkIsPath(Rooted)
  <2>1. ASSUME NEW i \in DOMAIN V, i < Len(V)
        PROVE  FALSE
    <3>1. i = 1 /\ V # <<>>
      BY <1>4
    <3>2. Len(V) = 1
      BY <1>4, <3>1
    <3> QED
      BY <2>1, <3>1, <3>2
  <2>2. V # <<>> => V[Len(V)].next = 0 /\ V[Len(V)].node \notin Indexed(Rooted)
    BY <1>3, <1>4 DEF Indexed
  <2> QED
    BY <1>6, <2>1, <2>2 DEF WorkIsPath, V
<1>8. StackInOrder(Rooted) /\ FoundAreCycles(Rooted)
  BY <1>1, <1>3 DEF StackInOrder, FoundAreCycles, Unstacked, Indexed
<1>9. RootsCover(Rooted)
  <2>1. V # <<>> => V[1].node = h
    BY <1>4
  <2> QED
    BY <1>1, <1>2, <1>3, <1>4, <2>1 DEF RootsCover, V, Indexed
<1>10. Visiting(scc) = {} /\ Visiting(Rooted) = {}
  <2>1. Visiting(Rooted) = {}
    BY <1>6 DEF Visiting, V
  <2>2. DOMAIN scc.work = {}
    OBVIOUS
  <2> QED
    BY <2>1, <2>2 DEF Visiting
<1>11. PICK seen : Search(scc.index, scc.low, Range(scc.stack), Visiting(scc), seen)
  BY DEF SccInv
<1>12. Search(Rooted.index, Rooted.low, Range(Rooted.stack), Visiting(Rooted), seen)
  BY <1>3, <1>10, <1>11
<1> QED
  BY <1>5, <1>6, <1>7, <1>8, <1>9, <1>12 DEF SccInv, V

LEMMA FirstScc ==
    ASSUME ReachedIds
    PROVE  SccInv([NoScc EXCEPT !.roots = Ascending(reached)])
<1> DEFINE s == [NoScc EXCEPT !.roots = Ascending(reached)]
<1>1. /\ s.roots = Ascending(reached) /\ s.work = <<>> /\ s.index = <<>> /\ s.low = <<>>
      /\ s.stack = <<>> /\ s.components = <<>>
      /\ s = [roots |-> Ascending(reached), work |-> <<>>, index |-> <<>>, low |-> <<>>,
              stack |-> <<>>, components |-> <<>>]
  BY DEF NoScc
<1> HIDE DEF s
<1>2. Ascending(reached) \in Seq(reached) /\ Range(Ascending(reached)) = reached
  BY AscendingFacts DEF ReachedIds
<1>3. DOMAIN <<>> = {} /\ Range(<<>>) = {}
  BY DEF Range
<1>4. <<>> \in [{} -> Nat] /\ <<>> \in Tables
  BY <1>3 DEF Tables
<1>5. s \in SccRecord
  <2>1. <<>> \in Seq([node : reached, next : Nat]) /\ <<>> \in Seq(reached) /\ <<>> \in Seq(Seq(reached))
    OBVIOUS
  <2> QED
    BY <1>1, <1>2, <1>4, <2>1, SccRecordOf
<1>6. Indexed(s) = {} /\ Visiting(s) = {} /\ Range(s.stack) = {} /\ Range(s.components) = {} /\ DOMAIN s.stack = {}
      /\ DOMAIN s.work = {} /\ DOMAIN s.low = {}
  BY <1>1, <1>3 DEF Indexed, Visiting
<1>7. WorkIsPath(s) /\ StackInOrder(s) /\ FoundAreCycles(s) /\ RootsCover(s)
  BY <1>1, <1>2, <1>6 DEF WorkIsPath, StackInOrder, FoundAreCycles, RootsCover, Unstacked
<1> DEFINE none == [g \in {} |-> {}]
<1>8. none \in [{} -> SUBSET reached]
  OBVIOUS
<1> HIDE DEF none
<1>9. Search(<<>>, <<>>, {}, {}, none)
  BY <1>3, <1>4, <1>8 DEF Search, Coloured, CallsFollowed, StackConnected, LowIsReached, LowIsLeast
<1>10. Search(s.index, s.low, Range(s.stack), Visiting(s), none)
  BY <1>1, <1>6, <1>9
<1>11. \A i \in DOMAIN s.work : s.work[i].next # 0 => LookedAt(s, i) \subseteq none[s.work[i].node]
  BY <1>6
<1> QED
  BY <1>5, <1>7, <1>10, <1>11 DEF SccInv, s

\* When the search is over, the components are the cycles of all functions.
LEMMA FinalComponents ==
    ASSUME ReachedIds, SccInv(scc), scc.work = <<>>, scc.roots = <<>>
    PROVE  Range(scc.components) = {Ascending(CycleOf(x)) : x \in reached}
<1>1. Range(scc.roots) = {} /\ Visiting(scc) = {}
  <2>1. DOMAIN scc.roots = {} /\ DOMAIN scc.work = {}
    OBVIOUS
  <2> QED
    BY <2>1 DEF Range, Visiting
<1>2. reached \subseteq Indexed(scc)
  BY <1>1 DEF SccInv, RootsCover
<1>3. Indexed(scc) \subseteq reached
  BY DEF SccInv, Search, Coloured, Indexed
<1>4. Range(scc.stack) = {}
  BY <1>1 DEF SccInv, Search, StackConnected
<1>5. Unstacked(scc) = reached
  BY <1>2, <1>3, <1>4 DEF Unstacked
<1> QED
  BY <1>5 DEF SccInv, FoundAreCycles

-----------------------------------------------------------------------------
(* The report. *)

LEMMA SeqOfMore ==
    ASSUME NEW S, NEW T, S \subseteq T, NEW s \in Seq(S)
    PROVE  s \in Seq(T)
  OBVIOUS

LEMMA CycleFacts ==
    ASSUME ReachedIds, NEW x \in reached
    PROVE  /\ Ascending(CycleOf(x)) \in Seq(Nat) /\ Ascending(CycleOf(x)) # <<>>
           /\ Range(Ascending(CycleOf(x))) = CycleOf(x)
           /\ Ascending(CycleOf(x))[1] \in CycleOf(x)
           /\ IsCycle(Ascending(CycleOf(x))) <=> OnCycle(x)
<1> DEFINE C == CycleOf(x)
           c == Ascending(CycleOf(x))
<1>1. C \in SUBSET Nat /\ C \subseteq reached /\ IsFiniteSet(C) /\ x \in C
  BY FS_Subset, CallsReachFacts DEF ReachedIds, CycleOf
<1>2. c \in Seq(C) /\ Len(c) = Cardinality(C) /\ DOMAIN c = 1 .. Cardinality(C) /\ Range(c) = C
  BY <1>1, AscendingFacts
<1>3. Cardinality(C) \in Nat /\ Cardinality(C) # 0
  BY <1>1, FS_CardinalityType, FS_EmptySet
<1>4. c # <<>> /\ c[1] \in C /\ c \in Seq(Nat)
  <2>1. 1 \in DOMAIN c
    BY <1>2, <1>3
  <2>2. C \subseteq Nat /\ c \in Seq(C) /\ Len(c) # 0
    BY <1>1, <1>2, <1>3
  <2> HIDE DEF C, c
  <2>3. c[1] \in C /\ c # <<>>
    BY <2>1, <2>2
  <2>4. c \in Seq(Nat)
    BY <2>2, SeqOfMore
  <2> QED
    BY <2>3, <2>4
<1>5. Cardinality(C) = 1 => C = {x}
  <2> SUFFICES ASSUME Cardinality(C) = 1 PROVE C = {x}
    OBVIOUS
  <2>1. \E y : C = {y}
    BY <1>1, FS_Singleton
  <2> QED
    BY <1>1, <2>1
<1>6. Cardinality(C) > 1 => \E g \in C : g # x
  <2> SUFFICES ASSUME Cardinality(C) > 1, \A g \in C : g = x PROVE FALSE
    OBVIOUS
  <2>1. C = {x}
    BY <1>1
  <2>2. Cardinality({x}) = 1
    BY FS_Singleton
  <2> QED
    BY <2>1, <2>2
<1>7. IsCycle(c) => OnCycle(x)
  <2>1. CASE Len(c) > 1
    <3>1. PICK g \in C : g # x
      BY <1>2, <1>6, <2>1
    <3> QED
      BY <3>1, CycleHasCall
  <2>2. CASE c[1] \in direct_callees(c[1])
    <3>1. CASE c[1] = x
      BY <2>2, <3>1, CallsReachFacts, CalleesAre DEF OnCycle
    <3>2. CASE c[1] # x
      BY <1>4, <3>2, CycleHasCall
    <3> QED
      BY <3>1, <3>2
  <2> QED
    BY <2>1, <2>2 DEF IsCycle
<1>8. OnCycle(x) => IsCycle(c)
  <2> SUFFICES ASSUME NEW g \in Callees(x), CallsReach(g, x), ~(Len(c) > 1)
               PROVE  c[1] \in direct_callees(c[1])
    BY DEF OnCycle, IsCycle
  <2>1. g \in C
    BY CallsReachFacts DEF CycleOf, Callees
  <2>2. C = {x}
    BY <1>2, <1>3, <1>5
  <2>3. g = x /\ c[1] = x
    BY <1>4, <2>1, <2>2
  <2> QED
    BY <2>3, CalleesAre
<1> QED
  BY <1>2, <1>4, <1>7, <1>8

Cycles == {c \in Range(scc.components) : IsCycle(c)}
CyclesInOrder == SortedBy(Cycles, [c \in Cycles |-> c[1]])

LEMMA CyclesInOrderFacts ==
    ASSUME ReachedIds, SccInv(scc), scc.work = <<>>, scc.roots = <<>>
    PROVE  /\ CyclesInOrder \in Seq(Seq(Nat))
           /\ {Range(c) : c \in Range(CyclesInOrder)} = {CycleOf(f) : f \in {g \in reached : OnCycle(g)}}
           /\ \A i, j \in DOMAIN CyclesInOrder : i < j => CyclesInOrder[i][1] < CyclesInOrder[j][1]
<1> DEFINE key == [c \in Cycles |-> c[1]]
           Of == {Ascending(CycleOf(x)) : x \in reached}
<1>1. Range(scc.components) = Of
  BY FinalComponents
<1>2. \A c \in Cycles : \E x \in reached : c = Ascending(CycleOf(x)) /\ OnCycle(x)
  BY <1>1, CycleFacts DEF Cycles
<1>3. \A x \in reached : OnCycle(x) => Ascending(CycleOf(x)) \in Cycles
  BY <1>1, CycleFacts DEF Cycles
<1>4. IsFiniteSet(Cycles)
  <2>1. IsFiniteSet(Of)
    <3> DEFINE of == [x \in reached |-> Ascending(CycleOf(x))]
    <3>1. of \in Surjection(reached, Of)
      BY DEF Surjection
    <3> QED
      BY <3>1, FS_Surjection DEF ReachedIds
  <2>2. Cycles \subseteq Of
    BY <1>1 DEF Cycles
  <2> QED
    BY <2>1, <2>2, FS_Subset
<1>5. key \in [Cycles -> Nat]
  <2>1. \A c \in Cycles : c[1] \in Nat
    BY <1>2, CycleFacts DEF ReachedIds, CycleOf
  <2> QED
    BY <2>1
<1>6. ASSUME NEW c \in Cycles, NEW d \in Cycles, key[c] = key[d]
      PROVE  c = d
  <2>1. PICK x \in reached : c = Ascending(CycleOf(x))
    BY <1>2
  <2>2. PICK y \in reached : d = Ascending(CycleOf(y))
    BY <1>2
  <2>3. c[1] \in CycleOf(x) /\ c[1] \in CycleOf(y)
    BY <1>6, <2>1, <2>2, CycleFacts
  <2>4. CycleOf(x) = CycleOf(y)
    BY <2>3, CycleIsShared
  <2> QED
    BY <2>1, <2>2, <2>4
<1>7. CyclesInOrder = SortedBy(Cycles, key)
  BY DEF CyclesInOrder
<1>8. \A c \in Cycles : key[c] = c[1]
  OBVIOUS
<1> HIDE DEF key
<1>9. /\ CyclesInOrder \in Seq(Cycles) /\ Range(CyclesInOrder) = Cycles
      /\ \A i, j \in DOMAIN CyclesInOrder : i < j => key[CyclesInOrder[i]] < key[CyclesInOrder[j]]
  BY <1>4, <1>5, <1>6, <1>7, SortedByFacts
<1>10. \A i \in DOMAIN CyclesInOrder : CyclesInOrder[i] \in Cycles
  BY <1>9
<1>11. \A c \in Cycles : c \in Seq(Nat)
  BY <1>2, CycleFacts
<1>12. CyclesInOrder \in Seq(Seq(Nat))
  BY <1>9, <1>11
<1>13. {Range(c) : c \in Cycles} = {CycleOf(f) : f \in {g \in reached : OnCycle(g)}}
  BY <1>2, <1>3, CycleFacts
<1> QED
  BY <1>8, <1>9, <1>10, <1>12, <1>13

ReportedOnce(d) ==
    LET cycles == {i \in DOMAIN d : d[i].code = "RECURSIVE_CALL_GRAPH"}
    IN  /\ {Range(d[i].functions) : i \in cycles} = {CycleOf(f) : f \in {g \in reached : OnCycle(g)}}
        /\ \A i, j \in cycles : i < j => d[i].functions[1] < d[j].functions[1]

-----------------------------------------------------------------------------
(* What the gate answers.                                                   *)

UseCodes ==
    {"MULTI_MODULE_BUILD", "GENERIC_CODE", "CAPABILITY_DISPATCH", "FALLIBLE_FUNCTION",
     "ENTRY_PARAMETERS", "ENTRY_RETURN_TYPE", "UNSUPPORTED_INSTRUCTION", "UNSUPPORTED_TYPE",
     "UNSUPPORTED_OPERATOR", "UNSUPPORTED_TERMINATOR", "UNVERIFIED_NIR", "SLOT_USED_AS_VALUE",
     "UNKNOWN_CALLEE", "CALL_SIGNATURE_MISMATCH"}
UseAnswers == UseCodes \cup {"ok"}
FunctionCodes == UseCodes \cup {"UNINITIALIZED_SLOT_LOAD"}
Codes == FunctionCodes \cup {"RECURSIVE_CALL_GRAPH"}
Reports == [code : Codes, functions : Seq(Nat)]

LEMMA FirstAnswer ==
    ASSUME NEW answers, DOMAIN answers \subseteq Nat, \A i \in DOMAIN answers : answers[i] \in UseAnswers
    PROVE  First(answers) \in UseAnswers
<1> DEFINE S == {i \in DOMAIN answers : answers[i] # "ok"}
<1>1. CASE \A i \in DOMAIN answers : answers[i] = "ok"
  BY <1>1 DEF First, UseAnswers
<1>2. CASE \E i \in DOMAIN answers : answers[i] # "ok"
  <2>1. S \in SUBSET Nat /\ S # {}
    BY <1>2
  <2>2. First(answers) = answers[Least(S)]
    BY <1>2 DEF First
  <2> HIDE DEF S
  <2>3. Least(S) \in S
    BY <2>1, LeastId
  <2> QED
    BY <2>2, <2>3 DEF S
<1> QED
  BY <1>1, <1>2

\* The answers for each part of something, then one for the whole.
LEMMA FirstOfEach ==
    ASSUME NEW n \in Nat, NEW answers \in [1 .. n -> UseAnswers], NEW x \in UseAnswers
    PROVE  First(answers \o <<x>>) \in UseAnswers
<1>1. answers \in Seq(UseAnswers) /\ <<x>> \in Seq(UseAnswers)
  OBVIOUS
<1>2. answers \o <<x>> \in Seq(UseAnswers)
  BY <1>1, ConcatProperties
<1> DEFINE s == answers \o <<x>>
<1> HIDE DEF s
<1>3. DOMAIN s \subseteq Nat /\ \A i \in DOMAIN s : s[i] \in UseAnswers
  BY <1>2 DEF s
<1> QED
  BY <1>3, FirstAnswer DEF s

LEMMA FirstOfTwo ==
    ASSUME NEW x \in UseAnswers, NEW y \in UseAnswers
    PROVE  First(<<x, y>>) \in UseAnswers
  BY FirstAnswer

LEMMA RequireAnswers ==
    ASSUME NEW p, NEW code \in UseAnswers
    PROVE  Require(p, code) \in UseAnswers
  BY DEF Require, UseAnswers

LEMMA OperandAnswers ==
    ASSUME NEW f, NEW v, NEW live
    PROVE  operand(f, v, live) \in UseAnswers
  BY DEF operand, UseAnswers, UseCodes

LEMMA OperandsAnswers ==
    ASSUME NEW f, NEW args, IsVec(args), NEW live
    PROVE  Operands(f, args, live) \in UseAnswers
<1> DEFINE answers == [i \in DOMAIN args |-> operand(f, args[i], live)]
<1>1. DOMAIN answers \subseteq Nat /\ \A i \in DOMAIN answers : answers[i] \in UseAnswers
  BY OperandAnswers DEF IsVec
<1>2. Operands(f, args, live) = First(answers)
  BY DEF Operands
<1> HIDE DEF answers
<1> QED
  BY <1>1, <1>2, FirstAnswer

LEMMA OperatorAnswers ==
    ASSUME NEW f, NEW ins, IsVec(ins.args), NEW live, NEW typed
    PROVE  Operator(f, ins, live, typed) \in UseAnswers
<1>1. Operands(f, ins.args, live) \in UseAnswers
  BY OperandsAnswers
<1>2. (IF Operands(f, ins.args, live) = "ok" THEN Require(typed, "UNVERIFIED_NIR") ELSE "ok") \in UseAnswers
  BY RequireAnswers DEF UseAnswers, UseCodes
<1> QED
  BY <1>1, <1>2, FirstOfTwo DEF Operator

\* What is read of a program.
ProgramOK == program \in Programs /\ reached \in SUBSET DOMAIN Funcs

LEMMA ProgramFacts ==
    ASSUME ProgramOK
    PROVE  /\ Main \in DOMAIN Funcs /\ IsFiniteSet(DOMAIN Funcs) /\ DOMAIN Funcs \subseteq Nat
           /\ ReachedIds
           /\ \A f \in DOMAIN Funcs :
                /\ IsVec(Funcs[f].params)
                /\ IsFiniteSet(DOMAIN Funcs[f].blocks) /\ DOMAIN Funcs[f].blocks \subseteq Nat
                /\ \A b \in DOMAIN Funcs[f].blocks :
                     /\ IsVec(Instructions(f, b))
                     /\ \A i \in DOMAIN Instructions(f, b) : IsVec(Instructions(f, b)[i].args)
<1>1. /\ Main \in DOMAIN Funcs /\ IsFiniteSet(DOMAIN Funcs) /\ DOMAIN Funcs \subseteq Nat
      /\ \A f \in DOMAIN Funcs :
                /\ IsVec(Funcs[f].params)
                /\ IsFiniteSet(DOMAIN Funcs[f].blocks) /\ DOMAIN Funcs[f].blocks \subseteq Nat
                /\ \A b \in DOMAIN Funcs[f].blocks :
                     /\ IsVec(Instructions(f, b))
                     /\ \A i \in DOMAIN Instructions(f, b) : IsVec(Instructions(f, b)[i].args)
  BY ProgramsAssumption DEF ProgramOK, Funcs, Instructions
<1>2. reached \in SUBSET Nat /\ IsFiniteSet(reached)
  BY <1>1, FS_Subset DEF ProgramOK
<1> QED
  BY <1>1, <1>2 DEF ReachedIds

LEMMA CallAnswers ==
    ASSUME ProgramOK, NEW f, NEW ins, NEW live
    PROVE  check_call(f, ins, live) \in UseAnswers
<1>1. CASE ins.type_args # <<>> \/ ins.evidence # <<>> \/ ins.callee \notin DOMAIN Funcs
  BY <1>1 DEF check_call, UseAnswers, UseCodes
<1>2. CASE ins.type_args = <<>> /\ ins.evidence = <<>> /\ ins.callee \in DOMAIN Funcs
  <2> DEFINE params == Funcs[ins.callee].params
             last == Require(Funcs[ins.callee].ret = ins.ty, "CALL_SIGNATURE_MISMATCH")
             each == [i \in DOMAIN params |->
                        IF operand(f, ins.args[i], live) # "ok"
                        THEN operand(f, ins.args[i], live)
                        ELSE Require(ArgTy(f, ins, i) = params[i].ty, "CALL_SIGNATURE_MISMATCH")]
  <2>1. Len(params) \in Nat /\ DOMAIN params = 1 .. Len(params)
    BY <1>2, ProgramFacts DEF IsVec
  <2>2. "CALL_SIGNATURE_MISMATCH" \in UseAnswers
    BY DEF UseAnswers, UseCodes
  <2>3. last \in UseAnswers
    BY <2>2, RequireAnswers
  <2>4. \A i \in DOMAIN params : each[i] \in UseAnswers
    BY <2>2, OperandAnswers, RequireAnswers
  <2>5. each \in [1 .. Len(params) -> UseAnswers]
    BY <2>1, <2>4
  <2>6. check_call(f, ins, live) = IF Len(ins.args) # Len(params) THEN "CALL_SIGNATURE_MISMATCH"
                                   ELSE First(each \o <<last>>)
    BY <1>2 DEF check_call
  <2> HIDE DEF each, last, params
  <2>7. First(each \o <<last>>) \in UseAnswers
    BY <2>1, <2>3, <2>5, FirstOfEach
  <2> QED
    BY <2>2, <2>6, <2>7
<1> QED
  BY <1>1, <1>2

LEMMA ValueAnswers ==
    ASSUME ProgramOK, NEW f, NEW ins, IsVec(ins.args), NEW live
    PROVE  check_value(f, ins, live) \in UseAnswers
<1>1. \A typed : Operator(f, ins, live, typed) \in UseAnswers
  BY OperatorAnswers
<1>2. check_call(f, ins, live) \in UseAnswers
  BY CallAnswers
<1>3. {"ok", "UNSUPPORTED_TYPE", "UNVERIFIED_NIR", "UNSUPPORTED_OPERATOR", "UNSUPPORTED_INSTRUCTION"} \subseteq UseAnswers
  BY DEF UseAnswers, UseCodes
<1>4. \A p : Require(p, "UNVERIFIED_NIR") \in UseAnswers /\ Require(p, "UNSUPPORTED_OPERATOR") \in UseAnswers
  BY <1>3, RequireAnswers
<1> DEFINE both == Operator(f, ins, live, /\ ArgTy(f, ins, 1) = "i64"
                                          /\ ArgTy(f, ins, 2) = "i64" /\ ins.ty = "i64")
           one == Operator(f, ins, live, ArgTy(f, ins, 1) = "i64" /\ ins.ty = "i64")
           same == Operator(f, ins, live, ArgTy(f, ins, 1) = ins.ty /\ ins.ty # "unit")
           equal == Operator(f, ins, live, ArgTy(f, ins, 1) = ArgTy(f, ins, 2) /\ ins.ty = "bool")
           const == Require(ins.const.kind = ins.ty, "UNVERIFIED_NIR")
           load == Require(SlotOf(f, ins.args[1], ins.ty), "UNVERIFIED_NIR")
           ordered == Require(ArgTy(f, ins, 1) # "unit", "UNSUPPORTED_OPERATOR")
<1>5. /\ both \in UseAnswers /\ one \in UseAnswers /\ same \in UseAnswers /\ equal \in UseAnswers
      /\ const \in UseAnswers /\ load \in UseAnswers /\ ordered \in UseAnswers
  BY <1>1, <1>4
<1>6. check_value(f, ins, live) =
        IF ~IsScalar(ins.ty) THEN "UNSUPPORTED_TYPE" ELSE
        CASE ins.op = "alloc" -> "ok"
          [] ins.op = "const" -> const
          [] ins.op = "load" -> load
          [] ins.op \in {"add", "sub", "mul", "and", "or", "xor"} -> both
          [] ins.op \in {"div", "rem", "shl", "shr"} -> "UNSUPPORTED_OPERATOR"
          [] ins.op = "neg" -> one
          [] ins.op = "not" -> same
          [] ins.op \in {"eq", "ne"} -> equal
          [] ins.op \in {"lt", "le", "gt", "ge"} -> (IF equal = "ok" THEN ordered ELSE equal)
          [] ins.op = "call" -> check_call(f, ins, live)
          [] OTHER -> "UNSUPPORTED_INSTRUCTION"
  BY DEF check_value
<1> HIDE DEF both, one, same, equal, const, load, ordered
<1> QED
  BY <1>2, <1>3, <1>5, <1>6

LEMMA InstructionAnswers ==
    ASSUME ProgramOK, NEW f, NEW ins, IsVec(ins.args), NEW live
    PROVE  check_instruction(f, ins, live) \in UseAnswers
<1>1. check_value(f, ins, live) \in UseAnswers
  BY ValueAnswers
<1>2. {"UNVERIFIED_NIR", "UNSUPPORTED_INSTRUCTION", "ok"} \subseteq UseAnswers
  BY DEF UseAnswers, UseCodes
<1> DEFINE x == operand(f, ins.args[2], live)
           y == IF operand(f, ins.args[2], live) = "ok"
                THEN Require(ArgTy(f, ins, 1) = ArgTy(f, ins, 2), "UNVERIFIED_NIR") ELSE "ok"
<1>3. x \in UseAnswers /\ y \in UseAnswers
  BY <1>2, OperandAnswers, RequireAnswers
<1>4. check_instruction(f, ins, live) = IF ins.op # "store" THEN check_value(f, ins, live)
         ELSE IF ins.mode # "observe" THEN "UNSUPPORTED_INSTRUCTION"
         ELSE IF ins.args[1] \notin alloc_slots(f) THEN "UNVERIFIED_NIR" ELSE First(<<x, y>>)
  BY DEF check_instruction
<1> HIDE DEF x, y
<1>5. First(<<x, y>>) \in UseAnswers
  BY <1>3, FirstOfTwo
<1> QED
  BY <1>1, <1>2, <1>4, <1>5

LEMMA TerminatorAnswers ==
    ASSUME NEW f, NEW b, NEW live
    PROVE  check_terminator(f, b, live) \in UseAnswers
<1>1. "UNVERIFIED_NIR" \in UseAnswers /\ "ok" \in UseAnswers /\ "UNSUPPORTED_TERMINATOR" \in UseAnswers
  BY DEF UseAnswers, UseCodes
<1>2. \A p : Require(p, "UNVERIFIED_NIR") \in UseAnswers
  BY <1>1, RequireAnswers
<1>3. \A v : operand(f, v, live) \in UseAnswers
  BY OperandAnswers
<1> QED
  BY <1>1, <1>2, <1>3 DEF check_terminator

LEMMA SignatureAnswers ==
    ASSUME NEW f
    PROVE  check_signature(f) \in UseAnswers
  BY DEF check_signature, UseAnswers, UseCodes

LEMMA BlocksAreDeclared ==
    ASSUME ProgramOK, NEW f \in DOMAIN Funcs
    PROVE  /\ reachable_blocks(f) \subseteq DOMAIN Funcs[f].blocks
           /\ reachable_blocks(f) \in SUBSET Nat /\ IsFiniteSet(reachable_blocks(f))
<1>1. reachable_blocks(f) \subseteq DOMAIN Funcs[f].blocks
  BY DEF reachable_blocks
<1>2. DOMAIN Funcs[f].blocks \subseteq Nat /\ IsFiniteSet(DOMAIN Funcs[f].blocks)
  BY ProgramFacts
<1> QED
  BY <1>1, <1>2, FS_Subset

LEMMA BlockAnswers ==
    ASSUME ProgramOK, NEW f \in DOMAIN Funcs, NEW b \in reachable_blocks(f)
    PROVE  check_block(f, b) \in UseAnswers
<1> DEFINE each == [i \in DOMAIN Instructions(f, b) |->
                      check_instruction(f, Instructions(f, b)[i], LiveAt(f, b, i))]
           last == check_terminator(f, b, LiveAt(f, b, Len(Instructions(f, b)) + 1))
           n == Len(Instructions(f, b))
<1>1. /\ n \in Nat /\ DOMAIN Instructions(f, b) = 1 .. n
      /\ \A i \in DOMAIN Instructions(f, b) : IsVec(Instructions(f, b)[i].args)
  BY ProgramFacts, BlocksAreDeclared DEF IsVec
<1>2. each \in [1 .. n -> UseAnswers]
  BY <1>1, InstructionAnswers
<1>3. last \in UseAnswers
  BY TerminatorAnswers
<1>4. check_block(f, b) = First(each \o <<last>>)
  BY DEF check_block
<1> HIDE DEF each, last, n
<1> QED
  BY <1>1, <1>2, <1>3, <1>4, FirstOfEach

\* A body is refused for a load exactly when every block of it is accepted
\* and the stores before some load are missing.
LEMMA BodyAnswers ==
    ASSUME ProgramOK, NEW f \in DOMAIN Funcs
    PROVE  /\ check_body(f) \in FunctionCodes \cup {"ok"}
           /\ check_body(f) = "UNINITIALIZED_SLOT_LOAD" => check_slot_initialization(f) # "ok"
           /\ check_body(f) = "ok" => check_slot_initialization(f) = "ok"
<1> DEFINE order == Ascending(reachable_blocks(f))
           each == [i \in DOMAIN order |-> check_block(f, order[i])]
           blocks == First(each)
<1>1. order \in Seq(reachable_blocks(f))
  BY BlocksAreDeclared, AscendingFacts
<1>2. DOMAIN order \subseteq Nat /\ \A i \in DOMAIN order : order[i] \in reachable_blocks(f)
  BY <1>1
<1>3. DOMAIN each \subseteq Nat /\ \A i \in DOMAIN each : each[i] \in UseAnswers
  BY <1>2, BlockAnswers
<1>4. check_body(f) = IF blocks # "ok" THEN blocks ELSE check_slot_initialization(f)
  BY DEF check_body
<1> HIDE DEF each
<1>5. blocks \in UseAnswers
  BY <1>3, FirstAnswer
<1> HIDE DEF blocks
<1>6. check_slot_initialization(f) \in {"ok", "UNINITIALIZED_SLOT_LOAD"}
  BY DEF check_slot_initialization
<1> QED
  BY <1>4, <1>5, <1>6 DEF UseAnswers, FunctionCodes, UseCodes

-----------------------------------------------------------------------------
(* What depends on the program and the reached functions alone.            *)

LEMMA KeyedIsKept ==
    ASSUME program' = program
    PROVE  \A f : blocks_by_id(f)' <=> blocks_by_id(f)
  BY DEF blocks_by_id, Funcs

LEMMA GraphIsKept ==
    ASSUME program' = program, reached' = reached
    PROVE  /\ \A f : direct_callees(f)' = direct_callees(f) /\ Callees(f)' = Callees(f)
           /\ \A f : Edges(f)' = Edges(f)
           /\ \A f, g : CallsReach(f, g)' <=> CallsReach(f, g)
           /\ \A f : CycleOf(f)' = CycleOf(f) /\ (OnCycle(f)' <=> OnCycle(f))
<1>1. ASSUME NEW f
      PROVE  direct_callees(f)' = direct_callees(f)
  BY DEF direct_callees, Instructions, Funcs, Sites, reachable_blocks, FollowsEdges, blocks_by_id,
         terminator_targets
<1>2. \A f : Callees(f)' = Callees(f) /\ Edges(f)' = Edges(f)
  <2>1. \A f, g : Names(f, g)' <=> Names(f, g)
    BY DEF Names, Instructions, Funcs, reachable_blocks, FollowsEdges, blocks_by_id, terminator_targets
  <2> QED
    BY <1>1, <2>1 DEF Callees, Edges
<1>3. \A f, g : CallsReach(f, g)' <=> CallsReach(f, g)
  BY <1>2 DEF CallsReach
<1>4. \A f : CycleOf(f)' = CycleOf(f) /\ (OnCycle(f)' <=> OnCycle(f))
  BY <1>2, <1>3 DEF CycleOf, OnCycle
<1> QED
  BY <1>1, <1>2, <1>3, <1>4

LEMMA SccIsKept ==
    ASSUME program' = program, reached' = reached, SccInv(scc')
    PROVE  SccInv(scc)'
<1>1. /\ \A f : Callees(f)' = Callees(f) /\ Edges(f)' = Edges(f) /\ CycleOf(f)' = CycleOf(f)
      /\ \A f, g : CallsReach(f, g)' <=> CallsReach(f, g)
  BY GraphIsKept
<1>2. SccRecord' = SccRecord
  BY DEF SccRecord, Tables
<1>3. WorkIsPath(scc') => WorkIsPath(scc)'
  BY <1>1 DEF WorkIsPath, Indexed
<1>4. StackInOrder(scc') => StackInOrder(scc)'
  BY DEF StackInOrder, Indexed
<1>5. FoundAreCycles(scc') => FoundAreCycles(scc)'
  BY <1>1 DEF FoundAreCycles, Unstacked, Indexed
<1>6. RootsCover(scc') => RootsCover(scc)'
  BY DEF RootsCover, Indexed
<1>7. Visiting(scc)' = Visiting(scc')
  BY DEF Visiting
<1>8. ASSUME NEW i
      PROVE  LookedAt(scc, i)' = LookedAt(scc', i)
  BY <1>1 DEF LookedAt
<1>9. ASSUME NEW K, NEW G, NEW seen, Search(scc'.index, scc'.low, K, G, seen)
      PROVE  Search(scc.index, scc.low, K, G, seen)'
  BY <1>1, <1>9 DEF Search, Coloured, CallsFollowed, StackConnected, LowIsReached, LowIsLeast, Above
<1>10. PICK seen : /\ Search(scc'.index, scc'.low, Range(scc'.stack), Visiting(scc'), seen)
                   /\ \A i \in DOMAIN scc'.work :
                        scc'.work[i].next # 0 => LookedAt(scc', i) \subseteq seen[scc'.work[i].node]
  BY DEF SccInv
<1>11. \E s2 : /\ Search(scc.index, scc.low, Range(scc.stack), Visiting(scc), s2)'
               /\ (\A i \in DOMAIN scc.work :
                     scc.work[i].next # 0 => LookedAt(scc, i) \subseteq s2[scc.work[i].node])'
  BY <1>7, <1>8, <1>9, <1>10
<1> QED
  BY <1>2, <1>3, <1>4, <1>5, <1>6, <1>11 DEF SccInv

-----------------------------------------------------------------------------
(* Every cycle is reported once.                                           *)

LEMMA ReportMakes ==
    ASSUME ReachedIds, SccInv(scc), scc.work = <<>>, scc.roots = <<>>,
           NEW d \in Seq(Reports), \A i \in DOMAIN d : d[i].code # "RECURSIVE_CALL_GRAPH",
           NEW r, r = [i \in DOMAIN CyclesInOrder |-> Report("RECURSIVE_CALL_GRAPH", CyclesInOrder[i])]
    PROVE  d \o r \in Seq(Reports) /\ ReportedOnce(d \o r)
<1> DEFINE n == Len(d)
           m == Len(CyclesInOrder)
           e == d \o r
           cycles == {i \in DOMAIN e : e[i].code = "RECURSIVE_CALL_GRAPH"}
<1>1. /\ CyclesInOrder \in Seq(Seq(Nat)) /\ m \in Nat /\ DOMAIN CyclesInOrder = 1 .. m
      /\ \A i \in 1 .. m : CyclesInOrder[i] \in Seq(Nat)
      /\ {Range(c) : c \in Range(CyclesInOrder)} = {CycleOf(f) : f \in {g \in reached : OnCycle(g)}}
      /\ \A i, j \in 1 .. m : i < j => CyclesInOrder[i][1] < CyclesInOrder[j][1]
  <2>1. /\ CyclesInOrder \in Seq(Seq(Nat))
        /\ {Range(c) : c \in Range(CyclesInOrder)} = {CycleOf(f) : f \in {g \in reached : OnCycle(g)}}
        /\ \A i, j \in DOMAIN CyclesInOrder : i < j => CyclesInOrder[i][1] < CyclesInOrder[j][1]
    BY CyclesInOrderFacts
  <2>2. m \in Nat /\ DOMAIN CyclesInOrder = 1 .. m /\ \A i \in 1 .. m : CyclesInOrder[i] \in Seq(Nat)
    BY <2>1
  <2> QED
    BY <2>1, <2>2
<1>2. \A i \in 1 .. m : /\ r[i].code = "RECURSIVE_CALL_GRAPH" /\ r[i].functions = CyclesInOrder[i]
                        /\ r[i] \in Reports
  BY <1>1 DEF Report, Reports, Codes
<1>3. r \in Seq(Reports) /\ Len(r) = m
  <2>1. r \in [1 .. m -> Reports]
    BY <1>1, <1>2
  <2> QED
    BY <1>1, <2>1
<1>4. n \in Nat /\ DOMAIN d = 1 .. n
  OBVIOUS
<1>5. e \in Seq(Reports) /\ Len(e) = n + m
      /\ \A i \in 1 .. n + m : e[i] = IF i <= n THEN d[i] ELSE r[i - n]
  <2>1. r \in Seq(Reports) /\ Len(r) = m /\ n = Len(d)
    BY <1>3
  <2>2. /\ d \o r \in Seq(Reports) /\ Len(d \o r) = Len(d) + Len(r)
        /\ \A i \in 1 .. Len(d) + Len(r) : (d \o r)[i] = IF i <= Len(d) THEN d[i] ELSE r[i - Len(d)]
    BY <2>1, ConcatProperties
  <2> HIDE DEF n, m
  <2> QED
    BY <2>1, <2>2
<1>6. DOMAIN e = 1 .. n + m
  BY <1>5
<1> HIDE DEF e, n, m
<1>7. ASSUME NEW i \in cycles
      PROVE  i - n \in 1 .. m /\ e[i].functions = CyclesInOrder[i - n]
  <2>1. ~(i <= n)
    <3> SUFFICES ASSUME i <= n PROVE FALSE
      OBVIOUS
    <3>1. i \in 1 .. n /\ i \in 1 .. n + m
      BY <1>1, <1>4, <1>6
    <3>2. e[i] = d[i]
      BY <1>5, <3>1
    <3> QED
      BY <1>4, <3>1, <3>2
  <2>2. i \in 1 .. n + m /\ i - n \in 1 .. m
    BY <1>1, <1>4, <1>6, <2>1
  <2>3. e[i] = r[i - n]
    BY <1>5, <2>1, <2>2
  <2> QED
    BY <1>2, <2>2, <2>3
<1>8. ASSUME NEW k \in 1 .. m
      PROVE  n + k \in cycles /\ e[n + k].functions = CyclesInOrder[k]
  <2>1. n + k \in 1 .. n + m /\ ~(n + k <= n) /\ (n + k) - n = k
    BY <1>1, <1>4
  <2>2. e[n + k] = r[k]
    BY <1>5, <2>1
  <2> QED
    BY <1>2, <1>6, <2>1, <2>2
<1>9. {Range(e[i].functions) : i \in cycles} = {Range(c) : c \in Range(CyclesInOrder)}
  <2>1. Range(CyclesInOrder) = {CyclesInOrder[k] : k \in 1 .. m}
    BY <1>1 DEF Range
  <2>2. \A i \in cycles : \E k \in 1 .. m : e[i].functions = CyclesInOrder[k]
    BY <1>7
  <2>3. \A k \in 1 .. m : \E i \in cycles : e[i].functions = CyclesInOrder[k]
    BY <1>8
  <2> HIDE DEF cycles
  <2> QED
    BY <2>1, <2>2, <2>3
<1>10. ASSUME NEW i \in cycles, NEW j \in cycles, i < j
       PROVE  e[i].functions[1] < e[j].functions[1]
  <2>1. /\ i - n \in 1 .. m /\ e[i].functions = CyclesInOrder[i - n]
        /\ j - n \in 1 .. m /\ e[j].functions = CyclesInOrder[j - n]
    BY <1>7
  <2>2. i - n < j - n
    <3>1. i \in Nat /\ j \in Nat
      BY <1>6
    <3> QED
      BY <1>4, <1>10, <3>1
  <2> QED
    BY <1>1, <2>1, <2>2
<1> QED
  BY <1>1, <1>5, <1>9, <1>10 DEF ReportedOnce, e

\* What holds of the gate at every step: it has reached functions the program
\* declares, and has reported no cycle before it looks for them.
Undecided == {"walk", "bodies", "cycles"}

GateOK ==
    /\ ProgramOK
    /\ stage \in Undecided =>
         /\ unchecked \in SUBSET reached /\ diagnostics \in Seq(Reports)
         /\ \A i \in DOMAIN diagnostics : diagnostics[i].code # "RECURSIVE_CALL_GRAPH"
    /\ stage = "walk" => queue \in Seq(reached)
    /\ stage = "walk" \/ (stage = "bodies" /\ unchecked = {}) => flow = NoFlow
    /\ stage = "cycles" => SccInv(scc)

CyclesOnce == Decided => EachCycleOnce
CyclesInv == GateOK /\ CyclesOnce

LEMMA CyclesInit ==
    Init => CyclesInv
<1> SUFFICES ASSUME Init PROVE CyclesInv
  OBVIOUS
<1>1. program \in Programs /\ reached = {Main} /\ queue = <<Main>> /\ stage = "walk" /\ unchecked = {} /\ flow = NoFlow
      /\ diagnostics = IF program.imports THEN <<Report("MULTI_MODULE_BUILD", <<>>)>> ELSE <<>>
  BY DEF Init, GateInit
<1>2. ProgramOK
  BY <1>1, ProgramsAssumption DEF ProgramOK, Funcs
<1>3. /\ diagnostics \in Seq(Reports)
      /\ \A i \in DOMAIN diagnostics : diagnostics[i].code # "RECURSIVE_CALL_GRAPH"
  <2> DEFINE r == Report("MULTI_MODULE_BUILD", <<>>)
  <2>1. r \in Reports /\ r.code # "RECURSIVE_CALL_GRAPH"
    <3>1. <<>> \in Seq(Nat) /\ "MULTI_MODULE_BUILD" \in Codes
      BY DEF Codes, FunctionCodes, UseCodes
    <3> QED
      BY <3>1 DEF Report, Reports
  <2> HIDE DEF r
  <2>2. <<r>> \in Seq(Reports) /\ \A i \in DOMAIN <<r>> : <<r>>[i].code # "RECURSIVE_CALL_GRAPH"
    BY <2>1
  <2>3. <<>> \in Seq(Reports) /\ DOMAIN <<>> = {}
    OBVIOUS
  <2>4. diagnostics = <<r>> \/ diagnostics = <<>>
    BY <1>1 DEF r
  <2> QED
    BY <2>2, <2>3, <2>4
<1>4. queue \in Seq(reached)
  BY <1>1
<1> QED
  BY <1>1, <1>2, <1>3, <1>4 DEF CyclesInv, GateOK, CyclesOnce, Decided

\* A queue with its first member taken and others put behind it.
LEMMA QueueTurns ==
    ASSUME NEW T, NEW q \in Seq(T), q # <<>>, NEW a \in Seq(T)
    PROVE  /\ Tail(q) \o a \in Seq(T) /\ Range(Tail(q) \o a) = Range(Tail(q)) \cup Range(a)
           /\ Range(q) = {Head(q)} \cup Range(Tail(q))
<1>1. /\ Tail(q) \in Seq(T) /\ Len(Tail(q)) = Len(q) - 1 /\ Len(q) \in Nat /\ Len(q) >= 1 /\ Head(q) = q[1]
      /\ DOMAIN q = 1 .. Len(q) /\ DOMAIN Tail(q) = 1 .. Len(q) - 1
      /\ \A i \in 1 .. Len(q) - 1 : Tail(q)[i] = q[i + 1]
  OBVIOUS
<1> DEFINE t == Tail(q)
           c == t \o a
<1>2. Range(q) = {Head(q)} \cup Range(t)
  <2>1. ASSUME NEW i \in DOMAIN q
        PROVE  q[i] = Head(q) \/ \E j \in DOMAIN t : t[j] = q[i]
    <3>1. i = 1 \/ (i - 1 \in 1 .. Len(q) - 1 /\ t[i - 1] = q[i])
      BY <1>1
    <3> QED
      BY <1>1, <3>1
  <2>2. \A j \in DOMAIN t : j + 1 \in DOMAIN q /\ t[j] = q[j + 1]
    BY <1>1
  <2>3. 1 \in DOMAIN q
    BY <1>1
  <2> HIDE DEF t
  <2> QED
    BY <1>1, <2>1, <2>2, <2>3 DEF Range
<1>3. t \in Seq(T) /\ a \in Seq(T)
  BY <1>1
<1> HIDE DEF t
<1>4. /\ c \in Seq(T) /\ Len(t) \in Nat /\ Len(a) \in Nat
      /\ DOMAIN t = 1 .. Len(t) /\ DOMAIN a = 1 .. Len(a) /\ DOMAIN c = 1 .. Len(t) + Len(a)
      /\ \A i \in 1 .. Len(t) : c[i] = t[i]
      /\ \A i \in 1 .. Len(a) : c[Len(t) + i] = a[i]
  BY <1>3
<1> HIDE DEF c
<1>5. Range(c) = Range(t) \cup Range(a)
  <2>1. ASSUME NEW i \in DOMAIN c
        PROVE  (\E j \in DOMAIN t : c[i] = t[j]) \/ (\E j \in DOMAIN a : c[i] = a[j])
    <3>1. i \in 1 .. Len(t) \/ (i - Len(t) \in 1 .. Len(a) /\ i = Len(t) + (i - Len(t)))
      BY <1>4
    <3>2. CASE i \in 1 .. Len(t)
      BY <1>4, <3>2
    <3>3. CASE i - Len(t) \in 1 .. Len(a) /\ i = Len(t) + (i - Len(t))
      BY <1>4, <3>3
    <3> QED
      BY <3>1, <3>2, <3>3
  <2>2. /\ \A j \in DOMAIN t : j \in DOMAIN c /\ c[j] = t[j]
        /\ \A j \in DOMAIN a : Len(t) + j \in DOMAIN c /\ c[Len(t) + j] = a[j]
    BY <1>4
  <2> QED
    BY <2>1, <2>2 DEF Range
<1> QED
  BY <1>2, <1>4, <1>5 DEF t, c

\* A report added to the others.
LEMMA OneMoreReport ==
    ASSUME NEW d \in Seq(Reports), NEW r \in Reports
    PROVE  /\ Append(d, r) \in Seq(Reports) /\ Append(d, r) # <<>>
           /\ \A i \in DOMAIN Append(d, r) :
                (i \in DOMAIN d /\ Append(d, r)[i] = d[i]) \/ Append(d, r)[i] = r
<1>1. /\ Append(d, r) \in Seq(Reports) /\ DOMAIN Append(d, r) = 1 .. Len(d) + 1
      /\ Append(d, r)[Len(d) + 1] = r
      /\ \A i \in 1 .. Len(d) : Append(d, r)[i] = d[i]
  BY RangeOfAppend
<1> QED
  BY <1>1

\* One function of the walk: it leaves the queue, what it names is behind it,
\* and it is reported when its blocks cannot be keyed.
LEMMA WalkReports ==
    ASSUME GateOK, Walk
    PROVE  /\ UNCHANGED <<program, stage, unchecked, flow>> /\ stage = "walk" /\ reached \subseteq reached'
           /\ reached' \in SUBSET DOMAIN Funcs /\ queue' \in Seq(reached')
           /\ Head(queue) \in reached /\ Range(queue) \subseteq {Head(queue)} \cup Range(queue')
           /\ reached' \ reached \subseteq Range(queue')
           /\ diagnostics' \in Seq(Reports)
           /\ \A i \in DOMAIN diagnostics' : diagnostics'[i].code # "RECURSIVE_CALL_GRAPH"
           /\ blocks_by_id(Head(queue)) => diagnostics' = diagnostics
           /\ ~blocks_by_id(Head(queue)) => diagnostics' # <<>>
           /\ \A i \in DOMAIN diagnostics' :
                \/ i \in DOMAIN diagnostics /\ diagnostics'[i] = diagnostics[i]
                \/ /\ ~blocks_by_id(Head(queue))
                   /\ diagnostics'[i] = Report("UNVERIFIED_NIR", <<Head(queue)>>)
<1> DEFINE new == (direct_callees(Head(queue)) \cap DOMAIN Funcs) \ reached
           r == Report("UNVERIFIED_NIR", <<Head(queue)>>)
<1>1. /\ UNCHANGED <<program, stage, unchecked, flow>> /\ stage = "walk" /\ queue # <<>>
      /\ reached' = reached \cup new /\ queue' = Tail(queue) \o Ascending(new)
      /\ diagnostics' = IF blocks_by_id(Head(queue)) THEN diagnostics ELSE Append(diagnostics, r)
  BY DEF Walk
<1>2. /\ queue \in Seq(reached) /\ diagnostics \in Seq(Reports) /\ ProgramOK
      /\ \A i \in DOMAIN diagnostics : diagnostics[i].code # "RECURSIVE_CALL_GRAPH"
  BY <1>1 DEF GateOK, Undecided
<1>3. /\ reached \in SUBSET DOMAIN Funcs /\ DOMAIN Funcs \subseteq Nat /\ IsFiniteSet(DOMAIN Funcs)
  BY <1>2, ProgramFacts DEF ProgramOK
<1>4. new \in SUBSET Nat /\ IsFiniteSet(new) /\ new \subseteq DOMAIN Funcs
  BY <1>3, FS_Subset
<1> HIDE DEF new
<1>5. Ascending(new) \in Seq(new) /\ Range(Ascending(new)) = new
  BY <1>4, AscendingFacts
<1>6. Head(queue) \in reached /\ Tail(queue) \in Seq(reached)
  BY <1>1, <1>2
<1>7. /\ queue' \in Seq(reached') /\ Range(Tail(queue)) \cup new = Range(queue')
      /\ Range(queue) = {Head(queue)} \cup Range(Tail(queue))
  <2> DEFINE T == reached \cup new
             a == Ascending(new)
  <2>1. /\ Tail(queue) \o Ascending(new) \in Seq(reached \cup new)
        /\ Range(Tail(queue) \o Ascending(new)) = Range(Tail(queue)) \cup Range(Ascending(new))
        /\ Range(queue) = {Head(queue)} \cup Range(Tail(queue))
    <3>1. queue \in Seq(T) /\ queue # <<>> /\ a \in Seq(T)
      BY <1>1, <1>2, <1>5
    <3> HIDE DEF T, a
    <3>2. /\ Tail(queue) \o a \in Seq(T) /\ Range(Tail(queue) \o a) = Range(Tail(queue)) \cup Range(a)
          /\ Range(queue) = {Head(queue)} \cup Range(Tail(queue))
      BY <3>1, QueueTurns
    <3> QED
      BY <3>2 DEF T, a
  <2> QED
    BY <1>1, <1>5, <2>1
<1>8. r \in Reports /\ r.code # "RECURSIVE_CALL_GRAPH"
  <2>1. <<Head(queue)>> \in Seq(Nat) /\ "UNVERIFIED_NIR" \in Codes
    BY <1>3, <1>6 DEF Codes, FunctionCodes, UseCodes
  <2> QED
    BY <2>1 DEF Report, Reports
<1> HIDE DEF r
<1>9. /\ diagnostics' \in Seq(Reports)
      /\ ~blocks_by_id(Head(queue)) => diagnostics' # <<>>
      /\ \A i \in DOMAIN diagnostics' :
            \/ i \in DOMAIN diagnostics /\ diagnostics'[i] = diagnostics[i]
            \/ ~blocks_by_id(Head(queue)) /\ diagnostics'[i] = r
  BY <1>1, <1>2, <1>8, OneMoreReport
<1> QED
  BY <1>1, <1>2, <1>3, <1>4, <1>6, <1>7, <1>8, <1>9 DEF r

\* One function's answer is added to the report.
LEMMA SettleReports ==
    ASSUME GateOK, stage \in Undecided, unchecked # {},
           NEW answer \in FunctionCodes \cup {"ok"}, Settle(answer)
    PROVE  /\ unchecked' \in SUBSET reached /\ diagnostics' \in Seq(Reports)
           /\ \A i \in DOMAIN diagnostics' : diagnostics'[i].code # "RECURSIVE_CALL_GRAPH"
<1>1. unchecked \in SUBSET reached /\ reached \in SUBSET Nat
  BY ProgramFacts DEF GateOK, ReachedIds
<1>2. Checking \in Nat
  BY <1>1, LeastId DEF Checking
<1>3. unchecked' \in SUBSET reached
  BY <1>1 DEF Settle
<1>4. CASE answer = "ok"
  BY <1>3, <1>4 DEF Settle, GateOK
<1>5. CASE answer # "ok"
  <2> DEFINE r == Report(answer, <<Checking>>)
  <2>1. answer \in Codes /\ answer # "RECURSIVE_CALL_GRAPH"
    BY <1>5 DEF Codes, FunctionCodes, UseCodes
  <2>2. r \in Reports /\ r.code = answer
    BY <1>2, <2>1 DEF Report, Reports
  <2>3. diagnostics' = Append(diagnostics, r)
    BY <1>5 DEF Settle
  <2> HIDE DEF r
  <2>4. diagnostics \in Seq(Reports) /\ \A i \in DOMAIN diagnostics : diagnostics[i].code # "RECURSIVE_CALL_GRAPH"
    BY DEF GateOK
  <2>5. /\ Append(diagnostics, r) \in Seq(Reports) /\ DOMAIN Append(diagnostics, r) = 1 .. Len(diagnostics) + 1
        /\ Append(diagnostics, r)[Len(diagnostics) + 1] = r
        /\ \A i \in 1 .. Len(diagnostics) : Append(diagnostics, r)[i] = diagnostics[i]
    BY <2>2, <2>4, RangeOfAppend
  <2>6. ASSUME NEW i \in DOMAIN diagnostics'
        PROVE  diagnostics'[i].code # "RECURSIVE_CALL_GRAPH"
    <3>1. i = Len(diagnostics) + 1 \/ i \in 1 .. Len(diagnostics)
      BY <2>3, <2>4, <2>5
    <3>2. CASE i = Len(diagnostics) + 1
      BY <2>1, <2>2, <2>3, <2>5, <3>2
    <3>3. CASE i \in 1 .. Len(diagnostics)
      BY <2>3, <2>4, <2>5, <3>3
    <3> QED
      BY <3>1, <3>2, <3>3
  <2> QED
    BY <1>3, <2>3, <2>5, <2>6
<1> QED
  BY <1>4, <1>5

LEMMA ReportedIsKept ==
    ASSUME program' = program, reached' = reached, ReportedOnce(diagnostics')
    PROVE  CyclesOnce'
<1>1. \A f : CycleOf(f)' = CycleOf(f) /\ (OnCycle(f)' <=> OnCycle(f))
  BY GraphIsKept
<1> QED
  BY <1>1 DEF ReportedOnce, CyclesOnce, EachCycleOnce, Decided

\* The steps before the cycles.
LEMMA EarlyKeeps ==
    ASSUME GateOK,
           Walk \/ WalkDone \/ ValidateFunction \/ AvailableBlock \/ StoredBlock \/ TurnEnds \/ CheckBody
           \/ BodiesDone
    PROVE  GateOK' /\ stage' \in Undecided
<1>1. ProgramOK /\ program' = program
  BY DEF GateOK, Walk, WalkDone, ValidateFunction, AvailableBlock, StoredBlock, TurnEnds, CheckBody,
         BodiesDone
<1>2. Funcs' = Funcs
  BY <1>1 DEF Funcs
<1>3. CASE Walk
  <2>1. /\ UNCHANGED <<stage, unchecked, flow>> /\ stage = "walk" /\ reached \subseteq reached'
        /\ reached' \in SUBSET DOMAIN Funcs /\ queue' \in Seq(reached')
        /\ diagnostics' \in Seq(Reports)
        /\ \A i \in DOMAIN diagnostics' : diagnostics'[i].code # "RECURSIVE_CALL_GRAPH"
    BY <1>3, WalkReports
  <2>2. ProgramOK'
    BY <1>1, <1>2, <2>1 DEF ProgramOK
  <2> QED
    BY <2>1, <2>2 DEF GateOK, Undecided
<1>4. CASE WalkDone
  BY <1>1, <1>2, <1>4 DEF WalkDone, GateOK, ProgramOK, Undecided
<1>5. CASE ValidateFunction
  <2>1. UNCHANGED <<stage, reached>> /\ stage = "bodies" /\ unchecked # {}
    BY <1>5 DEF ValidateFunction
  <2>2. ProgramOK'
    BY <1>1, <1>2, <2>1 DEF ProgramOK
  <2>3. /\ unchecked' \in SUBSET reached /\ diagnostics' \in Seq(Reports)
        /\ \A i \in DOMAIN diagnostics' : diagnostics'[i].code # "RECURSIVE_CALL_GRAPH"
    <3>1. \/ Settle(check_signature(Checking)) \/ Settle("UNVERIFIED_NIR")
          \/ UNCHANGED <<unchecked, diagnostics>>
      BY <1>5 DEF ValidateFunction
    <3>2. check_signature(Checking) \in FunctionCodes \cup {"ok"}
      BY SignatureAnswers DEF UseAnswers, FunctionCodes
    <3>3. "UNVERIFIED_NIR" \in FunctionCodes \cup {"ok"}
      BY DEF FunctionCodes, UseCodes
    <3>4. stage \in Undecided
      BY <2>1 DEF Undecided
    <3>5. CASE Settle(check_signature(Checking))
      BY <2>1, <3>2, <3>4, <3>5, SettleReports
    <3>6. CASE Settle("UNVERIFIED_NIR")
      BY <2>1, <3>3, <3>4, <3>6, SettleReports
    <3>7. CASE UNCHANGED <<unchecked, diagnostics>>
      BY <3>4, <3>7 DEF GateOK
    <3> QED
      BY <3>1, <3>5, <3>6, <3>7
  <2>4. unchecked' = {} => flow' = NoFlow
    BY <1>5, <2>1 DEF ValidateFunction, Settle
  <2> QED
    BY <2>1, <2>2, <2>3, <2>4 DEF GateOK, Undecided
<1>6. CASE AvailableBlock \/ StoredBlock \/ TurnEnds
  <2>1. UNCHANGED <<stage, reached, unchecked, diagnostics>> /\ stage = "bodies"
    BY <1>6 DEF AvailableBlock, StoredBlock, TurnEnds
  <2>2. ProgramOK'
    BY <1>1, <1>2, <2>1 DEF ProgramOK
  <2>3. unchecked # {}
    BY <1>6, <2>1 DEF GateOK, AvailableBlock, StoredBlock, TurnEnds, NoFlow
  <2> QED
    BY <2>1, <2>2, <2>3 DEF GateOK, Undecided
<1>7. CASE CheckBody
  <2>1. UNCHANGED <<stage, reached>> /\ stage = "bodies" /\ Settle(check_body(Checking))
    BY <1>7 DEF CheckBody
  <2>2. ProgramOK'
    BY <1>1, <1>2, <2>1 DEF ProgramOK
  <2>3. /\ unchecked' \in SUBSET reached /\ diagnostics' \in Seq(Reports)
        /\ \A i \in DOMAIN diagnostics' : diagnostics'[i].code # "RECURSIVE_CALL_GRAPH"
    <3>0. unchecked # {}
      BY <1>7, <2>1 DEF GateOK, CheckBody, NoFlow
    <3>1. unchecked \in SUBSET reached /\ reached \in SUBSET DOMAIN Funcs /\ reached \in SUBSET Nat
      BY <1>1, <2>1, ProgramFacts DEF GateOK, ProgramOK, ReachedIds, Undecided
    <3>2. Checking \in DOMAIN Funcs
      BY <3>0, <3>1, LeastId DEF Checking
    <3>3. check_body(Checking) \in FunctionCodes \cup {"ok"}
      BY <1>1, <3>2, BodyAnswers
    <3>4. stage \in Undecided
      BY <2>1 DEF Undecided
    <3> QED
      BY <2>1, <3>0, <3>3, <3>4, SettleReports
  <2>4. flow' = NoFlow
    BY <2>1 DEF Settle
  <2> QED
    BY <2>1, <2>2, <2>3, <2>4 DEF GateOK, Undecided
<1>8. CASE BodiesDone
  <2>1. /\ UNCHANGED <<reached, unchecked, diagnostics>> /\ stage = "bodies" /\ stage' = "cycles"
        /\ scc' = [NoScc EXCEPT !.roots = Ascending(reached)]
    BY <1>8 DEF BodiesDone
  <2>2. ProgramOK'
    BY <1>1, <1>2, <2>1 DEF ProgramOK
  <2>3. SccInv(scc')
    BY <1>1, <2>1, ProgramFacts, FirstScc
  <2>4. SccInv(scc)'
    BY <1>1, <2>1, <2>3, SccIsKept
  <2> QED
    BY <2>1, <2>2, <2>4 DEF GateOK, Undecided
<1> QED
  BY <1>3, <1>4, <1>5, <1>6, <1>7, <1>8

\* The steps of the search for cycles.
LEMMA SearchKeeps ==
    ASSUME GateOK, NextRoot \/ Descend \/ Leave
    PROVE  GateOK' /\ stage' \in Undecided
<1> SUFFICES SccInv(scc')
  <2>1. /\ stage = "cycles" /\ UNCHANGED <<program, stage, reached, unchecked, flow, diagnostics>>
        /\ ProgramOK
    BY DEF GateOK, NextRoot, Descend, Leave
  <2>2. SccInv(scc)'
    BY <2>1, SccIsKept
  <2>3. ProgramOK'
    BY <2>1 DEF ProgramOK, Funcs
  <2> QED
    BY <2>1, <2>2, <2>3 DEF GateOK, Undecided
<1>1. /\ stage = "cycles" /\ UNCHANGED <<program, stage, reached, unchecked, flow, diagnostics>>
      /\ ProgramOK /\ SccInv(scc)
  BY DEF GateOK, NextRoot, Descend, Leave
<1>2. ReachedIds
  BY <1>1, ProgramFacts
<1>3. CASE NextRoot
  <2>1. scc' = Rooted /\ scc.work = <<>> /\ scc.roots # <<>>
    BY <1>3 DEF NextRoot, Rooted
  <2> QED
    BY <1>1, <1>2, <2>1, NextRootKeeps
<1>4. CASE Descend
  <2>1. scc' = Descended /\ scc.work # <<>> /\ Fresh # {}
    BY <1>4 DEF Descend, Descended
  <2> QED
    BY <1>1, <1>2, <2>1, DescendKeeps
<1>5. CASE Leave
  <2>1. scc' = Left /\ scc.work # <<>> /\ Fresh = {}
    BY <1>5 DEF Leave, Left
  <2> QED
    BY <1>1, <1>2, <2>1, LeaveBelow, LeaveRoot
<1> QED
  BY <1>3, <1>4, <1>5

\* The last step of the gate.
LEMMA ReportKeeps ==
    ASSUME GateOK, ReportCycles
    PROVE  CyclesInv'
<1>1. /\ stage = "cycles" /\ scc.work = <<>> /\ scc.roots = <<>>
      /\ UNCHANGED <<program, reached>> /\ stage' \in {"planned", "refused"}
  BY DEF ReportCycles
<1> DEFINE r == [i \in DOMAIN CyclesInOrder |-> Report("RECURSIVE_CALL_GRAPH", CyclesInOrder[i])]
<1>2. diagnostics' = diagnostics \o r
  BY DEF ReportCycles, CyclesInOrder, Cycles
<1>3. /\ ProgramOK /\ SccInv(scc) /\ diagnostics \in Seq(Reports)
      /\ \A i \in DOMAIN diagnostics : diagnostics[i].code # "RECURSIVE_CALL_GRAPH"
  BY <1>1 DEF GateOK, Undecided
<1>4. ReportedOnce(diagnostics \o r)
  BY <1>1, <1>3, ProgramFacts, ReportMakes
<1>5. CyclesOnce'
  BY <1>1, <1>2, <1>4, ReportedIsKept
<1>6. ProgramOK'
  BY <1>1, <1>3 DEF ProgramOK, Funcs
<1> QED
  BY <1>1, <1>5, <1>6 DEF CyclesInv, GateOK, Undecided

\* Whatever is not a step of the gate comes after its decision, and leaves it.
LEMMA AfterTheGate ==
    ASSUME [Next]_vars
    PROVE  \/ GateNext
           \/ /\ UNCHANGED <<program, queue, reached, unchecked, flow, diagnostics, scc>>
              /\ stage' = stage \/ (Decided /\ Decided')
<1>1. CASE Gate
  BY <1>1 DEF Gate
<1>2. CASE BeginBody \/ VisitBlock \/ FinishBlock \/ EmitFunction \/ Launch
  BY <1>2 DEF BeginBody, VisitBlock, FinishBlock, EmitFunction, Launch, Decided, gateVars
<1>3. CASE Alloc \/ Store \/ Compute \/ CheckedOperation \/ Continue
  BY <1>3 DEF Alloc, Store, Compute, CheckedOperation, Continue, KeepGate, gateVars
<1>4. CASE WriteFailure \/ ExitFailure \/ Call \/ Branch \/ Return
  BY <1>4 DEF WriteFailure, ExitFailure, Call, Branch, Return, KeepGate, gateVars
<1>5. CASE Interpret
  <2>1. Tool!Next => program' = program
    BY DEF Tool!Next, Tool!Unread, Tool!ValueInstruction, Tool!Aggregate, Tool!Store, Tool!Call,
           Tool!Branch, Tool!Return, Tool!Fail
  <2> QED
    BY <1>5, <2>1 DEF Interpret
<1>6. CASE Ended \/ UNCHANGED vars
  BY <1>6 DEF Ended, vars, gateVars
<1> QED
  BY <1>1, <1>2, <1>3, <1>4, <1>5, <1>6 DEF Next

LEMMA RestKeeps ==
    ASSUME GateOK, UNCHANGED <<program, queue, reached, unchecked, flow, diagnostics, scc>>,
           stage' = stage \/ (Decided /\ Decided')
    PROVE  GateOK'
<1>1. ProgramOK'
  BY DEF GateOK, ProgramOK, Funcs
<1>2. SccInv(scc) => SccInv(scc)'
  BY SccIsKept
<1> QED
  BY <1>1, <1>2 DEF GateOK, Decided, Undecided

LEMMA CyclesStep ==
    CyclesInv /\ [Next]_vars => CyclesInv'
<1> SUFFICES ASSUME CyclesInv, [Next]_vars PROVE CyclesInv'
  OBVIOUS
<1>1. GateOK /\ CyclesOnce
  BY DEF CyclesInv
<1>2. CASE Walk \/ WalkDone \/ ValidateFunction \/ AvailableBlock \/ StoredBlock \/ TurnEnds \/ CheckBody
           \/ BodiesDone
  BY <1>1, <1>2, EarlyKeeps DEF CyclesInv, CyclesOnce, Decided, Undecided
<1>3. CASE NextRoot \/ Descend \/ Leave
  BY <1>1, <1>3, SearchKeeps DEF CyclesInv, CyclesOnce, Decided, Undecided
<1>4. CASE ReportCycles
  BY <1>1, <1>4, ReportKeeps
<1>5. CASE /\ UNCHANGED <<program, queue, reached, unchecked, flow, diagnostics, scc>>
           /\ stage' = stage \/ (Decided /\ Decided')
  <2>3. GateOK'
    BY <1>1, <1>5, RestKeeps
  <2>4. Decided' => CyclesOnce'
    <3> SUFFICES ASSUME Decided' PROVE CyclesOnce'
      OBVIOUS
    <3>1. Decided
      BY <1>5 DEF Decided
    <3>2. ReportedOnce(diagnostics)
      BY <1>1, <3>1 DEF CyclesOnce, ReportedOnce, EachCycleOnce
    <3> QED
      BY <1>5, <3>2, ReportedIsKept
  <2>5. CyclesOnce'
    BY <2>4 DEF CyclesOnce
  <2> QED
    BY <2>3, <2>5 DEF CyclesInv
<1> QED
  BY <1>2, <1>3, <1>4, <1>5, AfterTheGate DEF GateNext

(* What is reached is what main calls: it holds main and, but for what is  *)
(* still queued, what its members call; and nothing else joins it.         *)

ReachOK ==
    /\ Main \in reached /\ \A f \in reached : Called(f)
    /\ \A f \in reached : \/ stage = "walk" /\ f \in Range(queue)
                         \/ direct_callees(f) \cap DOMAIN Funcs \subseteq reached

LEMMA CalledCalls ==
    ASSUME NEW f, Called(f), NEW g \in direct_callees(f) \cap DOMAIN Funcs
    PROVE  Called(g)
<1>1. Names(f, g)
  BY NamesAreCallees
<1> QED
  BY <1>1 DEF Called

LEMMA CalledIsKept ==
    ASSUME program' = program
    PROVE  /\ Funcs' = Funcs /\ \A f : direct_callees(f)' = direct_callees(f)
           /\ \A f : Called(f)' <=> Called(f)
<1>1. Funcs' = Funcs
  BY DEF Funcs
<1>2. \A f : direct_callees(f)' = direct_callees(f)
  BY DEF direct_callees, Instructions, Funcs, Sites, reachable_blocks, FollowsEdges, blocks_by_id,
         terminator_targets
<1>3. \A f, g : Names(f, g)' <=> Names(f, g)
  BY DEF Names, Instructions, Funcs, reachable_blocks, FollowsEdges, blocks_by_id, terminator_targets
<1> QED
  BY <1>1, <1>2, <1>3 DEF Called

LEMMA ReachInit ==
    Init => ReachOK
<1> SUFFICES ASSUME Init PROVE ReachOK
  OBVIOUS
<1>1. reached = {Main} /\ queue = <<Main>> /\ stage = "walk"
  BY DEF Init, GateInit
<1>2. Main \in Range(queue)
  BY <1>1 DEF Range
<1>3. Called(Main)
  BY DEF Called
<1> QED
  BY <1>1, <1>2, <1>3 DEF ReachOK

LEMMA WalkReaches ==
    ASSUME GateOK, ReachOK, Walk
    PROVE  ReachOK'
<1> DEFINE q == Head(queue)
           new == (direct_callees(q) \cap DOMAIN Funcs) \ reached
<1>1. /\ program' = program /\ stage' = "walk" /\ q \in reached
      /\ reached \subseteq reached' /\ reached' \ reached \subseteq Range(queue')
      /\ Range(queue) \subseteq {q} \cup Range(queue')
  BY WalkReports
<1>2. reached' = reached \cup new
  BY DEF Walk
<1>3. /\ Funcs' = Funcs /\ \A f : direct_callees(f)' = direct_callees(f)
      /\ \A f : Called(f)' <=> Called(f)
  BY <1>1, CalledIsKept
<1> HIDE DEF q
<1>4. ASSUME NEW f \in reached'
      PROVE  Called(f)
  <2>1. CASE f \in reached
    BY <2>1 DEF ReachOK
  <2>2. CASE f \in new
    <3>1. Called(q)
      BY <1>1 DEF ReachOK
    <3> QED
      BY <2>2, <3>1, CalledCalls
  <2> QED
    BY <1>2, <1>4, <2>1, <2>2
<1>5. ASSUME NEW f \in reached', f \notin Range(queue')
      PROVE  direct_callees(f) \cap DOMAIN Funcs \subseteq reached'
  <2>1. f \in reached
    BY <1>1, <1>5
  <2>2. CASE f = q
    BY <1>2, <2>2
  <2>3. CASE f # q
    <3>1. f \notin Range(queue)
      BY <1>1, <1>5, <2>3
    <3> QED
      BY <1>1, <2>1, <3>1 DEF ReachOK
  <2> QED
    BY <2>2, <2>3
<1> HIDE DEF new
<1>6. Main \in reached'
  BY <1>1 DEF ReachOK
<1> QED
  BY <1>1, <1>3, <1>4, <1>5, <1>6 DEF ReachOK

LEMMA ReachStep ==
    GateOK /\ ReachOK /\ [Next]_vars => ReachOK'
<1> SUFFICES ASSUME GateOK, ReachOK, [Next]_vars PROVE ReachOK'
  OBVIOUS
<1>1. CASE Walk
  BY <1>1, WalkReaches
<1>2. ASSUME UNCHANGED <<program, queue, reached>>, stage' = stage \/ (stage = "walk" => queue = <<>>)
      PROVE  ReachOK'
  <2>1. /\ Funcs' = Funcs /\ \A f : direct_callees(f)' = direct_callees(f)
        /\ \A f : Called(f)' <=> Called(f)
    BY <1>2, CalledIsKept
  <2>2. queue = <<>> => Range(queue) = {}
    BY DEF Range
  <2> QED
    BY <1>2, <2>1, <2>2 DEF ReachOK
<1>3. CASE WalkDone
  BY <1>2, <1>3 DEF WalkDone
<1>4. CASE ValidateFunction \/ AvailableBlock \/ StoredBlock \/ TurnEnds \/ CheckBody \/ BodiesDone
  BY <1>2, <1>4 DEF ValidateFunction, AvailableBlock, StoredBlock, TurnEnds, CheckBody, BodiesDone
<1>5. CASE NextRoot \/ Descend \/ Leave \/ ReportCycles
  BY <1>2, <1>5 DEF NextRoot, Descend, Leave, ReportCycles
<1>6. CASE /\ UNCHANGED <<program, queue, reached, unchecked, flow, diagnostics, scc>>
           /\ stage' = stage \/ (Decided /\ Decided')
  BY <1>2, <1>6 DEF Decided
<1> QED
  BY <1>1, <1>3, <1>4, <1>5, <1>6, AfterTheGate DEF GateNext

\* After the walk the reached functions are closed under calls.
LEMMA ReachedIsCalled ==
    ASSUME GateOK, ReachOK, Decided
    PROVE  reached = {f \in DOMAIN Funcs : Called(f)}
<1>1. reached \in SUBSET DOMAIN Funcs /\ Main \in reached /\ \A f \in reached : Called(f)
  BY DEF GateOK, ProgramOK, ReachOK
<1>2. \A h \in reached : direct_callees(h) \cap DOMAIN Funcs \subseteq reached
  BY DEF ReachOK, Decided
<1>3. \A h \in reached : {g \in DOMAIN Funcs : Names(h, g)} \subseteq reached
  BY <1>2, NamesAreCallees
<1>4. ASSUME NEW f, Called(f)
      PROVE  f \in reached
  BY <1>1, <1>3, <1>4 DEF Called
<1> QED
  BY <1>1, <1>4

(***************************************************************************)
(* However the calls of a program are laid out, the walk of validate       *)
(* (native/capability.rs) reaches exactly what main calls, through calls   *)
(* and invokes, and report_cycles names every cycle of that graph exactly  *)
(* once, with exactly its members, and the cycles in the order of their    *)
(* least members: the work stack of strongly_connected_components computes *)
(* what the recursive search it replaces would.                            *)
(***************************************************************************)
THEOREM CyclesAreReportedOnce ==
    Spec => []CyclesReportedOnce
<1> DEFINE Inv == CyclesInv /\ ReachOK
<1>1. Init => Inv
  BY CyclesInit, ReachInit
<1>2. Inv /\ [Next]_vars => Inv'
  BY CyclesStep, ReachStep DEF CyclesInv
<1>3. Inv => CyclesReportedOnce
  BY ReachedIsCalled DEF CyclesInv, CyclesOnce, CyclesReportedOnce
<1> QED
  BY <1>1, <1>2, <1>3, PTL DEF Spec

-----------------------------------------------------------------------------
(* The loads the gate refuses.                                              *)

LEMMA FirstIsOk ==
    ASSUME NEW answers, DOMAIN answers \subseteq Nat, First(answers) = "ok"
    PROVE  \A i \in DOMAIN answers : answers[i] = "ok"
<1> SUFFICES ASSUME ~(\A i \in DOMAIN answers : answers[i] = "ok") PROVE FALSE
  OBVIOUS
<1> DEFINE S == {i \in DOMAIN answers : answers[i] # "ok"}
<1>1. S \in SUBSET Nat /\ S # {}
  OBVIOUS
<1>2. First(answers) = answers[Least(S)]
  BY DEF First
<1> HIDE DEF S
<1>3. Least(S) \in S
  BY <1>1, LeastId
<1> QED
  BY <1>2, <1>3 DEF S

\* Every part of an accepted block is accepted.
LEMMA AcceptedBlock ==
    ASSUME ProgramOK, NEW f \in DOMAIN Funcs, NEW b \in reachable_blocks(f), check_block(f, b) = "ok"
    PROVE  /\ \A k \in DOMAIN Instructions(f, b) :
                check_instruction(f, Instructions(f, b)[k], LiveAt(f, b, k)) = "ok"
           /\ check_terminator(f, b, LiveAt(f, b, Len(Instructions(f, b)) + 1)) = "ok"
<1> DEFINE each == [i \in DOMAIN Instructions(f, b) |->
                      check_instruction(f, Instructions(f, b)[i], LiveAt(f, b, i))]
           last == check_terminator(f, b, LiveAt(f, b, Len(Instructions(f, b)) + 1))
           n == Len(Instructions(f, b))
<1>1. /\ n \in Nat /\ DOMAIN Instructions(f, b) = 1 .. n
      /\ \A i \in DOMAIN Instructions(f, b) : IsVec(Instructions(f, b)[i].args)
  BY ProgramFacts, BlocksAreDeclared DEF IsVec
<1>2. each \in [1 .. n -> UseAnswers]
  BY <1>1, InstructionAnswers
<1>3. last \in UseAnswers
  BY TerminatorAnswers
<1>4. First(each \o <<last>>) = "ok"
  BY DEF check_block
<1>5. \A k \in 1 .. n : each[k] = check_instruction(f, Instructions(f, b)[k], LiveAt(f, b, k))
  BY <1>1
<1> HIDE DEF each, n
<1>6. each \in Seq(UseAnswers) /\ <<last>> \in Seq(UseAnswers) /\ Len(each) = n /\ Len(<<last>>) = 1
  BY <1>1, <1>2, <1>3
<1>7. /\ each \o <<last>> \in Seq(UseAnswers) /\ Len(each \o <<last>>) = n + 1
      /\ \A i \in 1 .. n + 1 : (each \o <<last>>)[i] = IF i <= n THEN each[i] ELSE <<last>>[i - n]
  BY <1>6, ConcatProperties
<1> DEFINE s == each \o <<last>>
<1> HIDE DEF s
<1>8. DOMAIN s = 1 .. n + 1 /\ First(s) = "ok"
  BY <1>1, <1>4, <1>7 DEF s
<1>9. \A i \in 1 .. n + 1 : s[i] = "ok"
  BY <1>1, <1>8, FirstIsOk
<1>10. \A k \in 1 .. n : s[k] = each[k]
  BY <1>1, <1>7 DEF s
<1>11. s[n + 1] = last
  <2> HIDE DEF last
  <2>1. n + 1 \in 1 .. n + 1 /\ ~(n + 1 <= n) /\ (n + 1) - n = 1
    BY <1>1
  <2>2. s[n + 1] = <<last>>[1]
    BY <1>7, <2>1 DEF s
  <2> QED
    BY <2>2
<1>12. \A k \in 1 .. n : each[k] = "ok"
  BY <1>1, <1>9, <1>10
<1>13. last = "ok"
  BY <1>1, <1>9, <1>11
<1> QED
  BY <1>1, <1>5, <1>12, <1>13

\* So is every block of a body that is not refused for what its blocks use.
LEMMA AcceptedBlocks ==
    ASSUME ProgramOK, NEW f \in DOMAIN Funcs, check_body(f) \in {"ok", "UNINITIALIZED_SLOT_LOAD"},
           NEW b \in reachable_blocks(f)
    PROVE  check_block(f, b) = "ok"
<1> DEFINE order == Ascending(reachable_blocks(f))
           each == [i \in DOMAIN order |-> check_block(f, order[i])]
           blocks == First(each)
<1>1. order \in Seq(reachable_blocks(f)) /\ Range(order) = reachable_blocks(f)
  BY BlocksAreDeclared, AscendingFacts
<1>2. DOMAIN order \subseteq Nat /\ \A i \in DOMAIN order : order[i] \in reachable_blocks(f)
  BY <1>1
<1>3. DOMAIN each \subseteq Nat /\ \A i \in DOMAIN each : each[i] \in UseAnswers
  BY <1>2, BlockAnswers
<1>4. check_body(f) = IF blocks # "ok" THEN blocks ELSE check_slot_initialization(f)
  BY DEF check_body
<1>5. DOMAIN each = DOMAIN order /\ \A i \in DOMAIN order : each[i] = check_block(f, order[i])
  OBVIOUS
<1> HIDE DEF each
<1>6. blocks \in UseAnswers
  BY <1>3, FirstAnswer
<1>7. blocks = "ok"
  BY <1>4, <1>6 DEF UseAnswers, UseCodes, blocks
<1>8. \A i \in DOMAIN order : check_block(f, order[i]) = "ok"
  BY <1>3, <1>5, <1>7, FirstIsOk
<1> HIDE DEF order
<1>9. PICK i \in DOMAIN order : order[i] = b
  BY <1>1 DEF Range
<1> QED
  BY <1>8, <1>9

\* Its loads read slots only.
LEMMA AcceptedBody ==
    ASSUME ProgramOK, NEW f \in DOMAIN Funcs, check_body(f) \in {"ok", "UNINITIALIZED_SLOT_LOAD"},
           NEW s \in Sites(f), Instructions(f, s[1])[s[2]].op = "load"
    PROVE  Instructions(f, s[1])[s[2]].args[1] \in alloc_slots(f)
<1> DEFINE b == s[1]
           k == s[2]
<1>1. b \in reachable_blocks(f) /\ k \in DOMAIN Instructions(f, b)
  BY DEF Sites
<1>2. check_instruction(f, Instructions(f, b)[k], LiveAt(f, b, k)) = "ok"
  BY <1>1, AcceptedBlock, AcceptedBlocks
<1>3. check_value(f, Instructions(f, b)[k], LiveAt(f, b, k)) = "ok"
  BY <1>2 DEF check_instruction
<1>4. Require(SlotOf(f, Instructions(f, b)[k].args[1], Instructions(f, b)[k].ty), "UNVERIFIED_NIR") = "ok"
  BY <1>3 DEF check_value
<1> QED
  BY <1>4 DEF Require, SlotOf

\* A set that follows the edges of a body, stopping at the stores of a slot.
Follows(f, S, v) ==
    /\ blocks_by_id(f) => 0 \in S
    /\ \A b \in S : StoresTo(f, b, v) \/ terminator_targets(f, b) \cap DOMAIN Funcs[f].blocks \subseteq S

\* A path reaches the block without a store to the slot.
Missing(f, b, v) == \A S \in SUBSET DOMAIN Funcs[f].blocks : Follows(f, S, v) => b \in S

LEMMA MissesStoreIs ==
    ASSUME NEW f, NEW b, NEW i, NEW v
    PROVE  MissesStore(f, b, i, v) <=>
              /\ Missing(f, b, v)
              /\ \A j \in 1 .. i - 1 :
                    ~(Instructions(f, b)[j].op = "store" /\ Instructions(f, b)[j].args[1] = v)
  BY DEF MissesStore, Missing, Follows, FollowsEdges

\* The reachable blocks hold bb0 and follow the edges; no smaller set does.
LEMMA ReachableFollows ==
    ASSUME NEW f
    PROVE  /\ blocks_by_id(f) => 0 \in reachable_blocks(f)
           /\ \A b \in reachable_blocks(f) :
                terminator_targets(f, b) \cap DOMAIN Funcs[f].blocks \subseteq reachable_blocks(f)
  BY DEF reachable_blocks, FollowsEdges, blocks_by_id

\* Blocks that cannot be keyed have none that is reached: the empty set
\* follows their edges.
LEMMA ReachedIsKeyed ==
    ASSUME NEW f, NEW b \in reachable_blocks(f)
    PROVE  blocks_by_id(f)
<1> SUFFICES ASSUME ~blocks_by_id(f) PROVE FALSE
  OBVIOUS
<1>1. FollowsEdges(f, {}, LAMBDA c : FALSE)
  BY DEF FollowsEdges
<1> QED
  BY <1>1 DEF reachable_blocks

LEMMA ReachableHasPredecessor ==
    ASSUME NEW f, NEW b \in reachable_blocks(f), b # 0
    PROVE  Predecessors(f, b) # {}
<1> SUFFICES ASSUME Predecessors(f, b) = {} PROVE FALSE
  OBVIOUS
<1> DEFINE S == reachable_blocks(f) \ {b}
<1>1. S \in SUBSET DOMAIN Funcs[f].blocks
  BY DEF reachable_blocks
<1>2. blocks_by_id(f) => 0 \in S
  BY ReachableFollows
<1>3. \A c \in S : terminator_targets(f, c) \cap DOMAIN Funcs[f].blocks \subseteq S
  BY ReachableFollows DEF Predecessors
<1>4. FollowsEdges(f, S, LAMBDA c : FALSE)
  BY <1>2, <1>3 DEF FollowsEdges
<1>5. b \in S
  BY <1>1, <1>4 DEF reachable_blocks
<1> QED
  BY <1>5

LEMMA IncomingStores ==
    ASSUME NEW f, NEW b, NEW s, NEW v
    PROVE  v \in Incoming(f, b, s, stores_after) <=>
              /\ Predecessors(f, b) # {}
              /\ \A p \in Predecessors(f, b) : v \in s[p] \/ StoresTo(f, p, v)
<1> DEFINE Out(p) == stores_after(f, p, s[p])
           out == {Out(p) : p \in Predecessors(f, b)}
<1>1. \A p : v \in Out(p) <=> v \in s[p] \/ StoresTo(f, p, v)
  BY DEF stores_after, StoresTo
<1>2. Incoming(f, b, s, stores_after) = {w \in UNION out : \A o \in out : w \in o}
  BY DEF Incoming
<1> HIDE DEF Out
<1>3. v \in Incoming(f, b, s, stores_after) <=>
        Predecessors(f, b) # {} /\ \A p \in Predecessors(f, b) : v \in Out(p)
  BY <1>2
<1> QED
  BY <1>1, <1>3

\* What the analysis of the stores keeps: a slot that is not in a block's set
\* misses its store on some path to the block, and a block visited in a turn
\* without a change has what its predecessors leave behind.
Wide(f, s) ==
    \A b \in reachable_blocks(f), v \in alloc_slots(f) : v \notin s[b] => Missing(f, b, v)
Exact(f, s, visited) ==
    \A b \in visited : b # 0 => s[b] = Incoming(f, b, s, stores_after)
Narrowing(f, s) ==
    /\ DOMAIN s = reachable_blocks(f)
    /\ 0 \in reachable_blocks(f) => s[0] = {}
    /\ Wide(f, s)

\* Every block but bb0 starts with every slot.
LEMMA OptimisticNarrows ==
    ASSUME NEW f
    PROVE  Narrowing(f, Optimistic(f, alloc_slots(f), {}))
<1> DEFINE s == Optimistic(f, alloc_slots(f), {})
<1>1. /\ DOMAIN s = reachable_blocks(f)
      /\ \A b \in reachable_blocks(f) : s[b] = IF b = 0 THEN {} ELSE alloc_slots(f)
  BY DEF Optimistic
<1> HIDE DEF s
<1>2. ASSUME NEW b \in reachable_blocks(f), NEW v \in alloc_slots(f), v \notin s[b]
      PROVE  Missing(f, b, v)
  <2>1. b = 0 /\ blocks_by_id(f)
    BY <1>1, <1>2, ReachedIsKeyed
  <2> QED
    BY <2>1 DEF Missing, Follows
<1> QED
  BY <1>1, <1>2 DEF Narrowing, Wide, s

\* A slot that some predecessor neither has nor stores is missed there too.
LEMMA NarrowingKeeps ==
    ASSUME NEW f, NEW s, Narrowing(f, s), NEW c \in reachable_blocks(f), c # 0
    PROVE  Narrowing(f, [s EXCEPT ![c] = Incoming(f, c, s, stores_after)])
<1> DEFINE n == Incoming(f, c, s, stores_after)
           t == [s EXCEPT ![c] = n]
<1>1. DOMAIN s = reachable_blocks(f) /\ (0 \in reachable_blocks(f) => s[0] = {}) /\ Wide(f, s)
  BY DEF Narrowing
<1>2. DOMAIN t = reachable_blocks(f) /\ t[c] = n /\ \A b \in reachable_blocks(f) : b # c => t[b] = s[b]
  BY <1>1
<1>3. ASSUME NEW v \in alloc_slots(f), v \notin n
      PROVE  Missing(f, c, v)
  <2>1. PICK p \in Predecessors(f, c) : v \notin s[p] /\ ~StoresTo(f, p, v)
    BY <1>3, IncomingStores, ReachableHasPredecessor
  <2>2. p \in reachable_blocks(f) /\ c \in terminator_targets(f, p) /\ c \in DOMAIN Funcs[f].blocks
    BY DEF Predecessors, reachable_blocks
  <2>3. Missing(f, p, v)
    BY <1>1, <2>1, <2>2 DEF Wide
  <2>4. ASSUME NEW S \in SUBSET DOMAIN Funcs[f].blocks, Follows(f, S, v)
        PROVE  c \in S
    <3>1. p \in S
      BY <2>3, <2>4 DEF Missing
    <3> QED
      BY <2>1, <2>2, <2>4, <3>1 DEF Follows
  <2> QED
    BY <2>4 DEF Missing
<1> HIDE DEF t, n
<1>4. ASSUME NEW b \in reachable_blocks(f), NEW v \in alloc_slots(f), v \notin t[b]
      PROVE  Missing(f, b, v)
  BY <1>1, <1>2, <1>3, <1>4 DEF Wide
<1>5. Narrowing(f, t)
  BY <1>1, <1>2, <1>4 DEF Narrowing, Wide
<1> QED
  BY <1>5 DEF t, n

\* Once nothing changes, a slot in a block's set has a store on every path:
\* the blocks without it hold bb0 and follow the edges.
LEMMA SettledIsExact ==
    ASSUME NEW f, NEW s, Narrowing(f, s), Exact(f, s, reachable_blocks(f)),
           NEW b \in reachable_blocks(f), NEW v, v \in s[b]
    PROVE  ~Missing(f, b, v)
<1> DEFINE S == {c \in reachable_blocks(f) : v \notin s[c]}
<1>1. S \in SUBSET DOMAIN Funcs[f].blocks
  BY DEF reachable_blocks
<1>2. blocks_by_id(f) => 0 \in S
  BY ReachableFollows DEF Narrowing
<1>3. ASSUME NEW c \in S, ~StoresTo(f, c, v), NEW d \in terminator_targets(f, c) \cap DOMAIN Funcs[f].blocks
      PROVE  d \in S
  <2>1. d \in reachable_blocks(f)
    BY ReachableFollows
  <2>2. CASE d = 0
    BY <2>1, <2>2 DEF Narrowing
  <2>3. CASE d # 0
    <3>1. c \in Predecessors(f, d) /\ v \notin s[c]
      BY DEF Predecessors
    <3>2. v \notin Incoming(f, d, s, stores_after)
      BY <1>3, <3>1, IncomingStores
    <3>3. s[d] = Incoming(f, d, s, stores_after)
      BY <2>1, <2>3 DEF Exact
    <3> QED
      BY <2>1, <3>2, <3>3
  <2> QED
    BY <2>2, <2>3
<1>4. Follows(f, S, v)
  BY <1>2, <1>3 DEF Follows
<1>5. b \notin S
  OBVIOUS
<1> QED
  BY <1>1, <1>4, <1>5 DEF Missing

-----------------------------------------------------------------------------
(* The analyses of one body, step by step.                                  *)

FlowShape ==
    \E p, a, s, q, c :
        flow = [phase |-> p, available |-> a, stored |-> s, pending |-> q, changed |-> c]

FlowOf(f) ==
    /\ FlowShape /\ flow.pending \in SUBSET reachable_blocks(f) /\ flow.changed \in BOOLEAN
    /\ Narrowing(f, flow.stored)
    /\ flow.phase = "stored" /\ ~flow.changed => Exact(f, flow.stored, reachable_blocks(f) \ flow.pending)
    /\ flow.phase = "settled" => Exact(f, flow.stored, reachable_blocks(f))

\* What is read of the body does not change.
LEMMA BodyIsKept ==
    ASSUME program' = program
    PROVE  /\ Funcs' = Funcs
           /\ \A f : /\ reachable_blocks(f)' = reachable_blocks(f) /\ Sites(f)' = Sites(f)
                     /\ alloc_slots(f)' = alloc_slots(f)
           /\ \A f : MissedLoad(f)' <=> MissedLoad(f)
<1>1. Funcs' = Funcs
  BY DEF Funcs
<1>2. ASSUME NEW f
      PROVE  reachable_blocks(f)' = reachable_blocks(f)
  BY <1>1 DEF reachable_blocks, FollowsEdges, blocks_by_id, terminator_targets
<1>3. \A f, b : Instructions(f, b)' = Instructions(f, b)
  BY <1>1 DEF Instructions
<1>4. \A f : Sites(f)' = Sites(f)
  BY <1>2, <1>3 DEF Sites
<1>5. \A f : alloc_slots(f)' = alloc_slots(f)
  BY <1>3, <1>4 DEF alloc_slots
<1>6. ASSUME NEW f, NEW b, NEW i, NEW v
      PROVE  MissesStore(f, b, i, v)' <=> MissesStore(f, b, i, v)
  BY <1>1 DEF MissesStore, FollowsEdges, blocks_by_id, terminator_targets, StoresTo, Instructions
<1>7. \A f : MissedLoad(f)' <=> MissedLoad(f)
  BY <1>3, <1>4, <1>6 DEF MissedLoad
<1> QED
  BY <1>1, <1>2, <1>4, <1>5, <1>7

LEMMA FlowIsKept ==
    ASSUME program' = program, NEW f, NEW g, flow' = g,
           \E p, a, s, q, c : g = [phase |-> p, available |-> a, stored |-> s, pending |-> q, changed |-> c],
           g.pending \in SUBSET reachable_blocks(f), g.changed \in BOOLEAN, Narrowing(f, g.stored),
           g.phase = "stored" /\ ~g.changed => Exact(f, g.stored, reachable_blocks(f) \ g.pending),
           g.phase = "settled" => Exact(f, g.stored, reachable_blocks(f))
    PROVE  FlowOf(f)'
<1>1. Funcs' = Funcs /\ reachable_blocks(f)' = reachable_blocks(f) /\ alloc_slots(f)' = alloc_slots(f)
  BY BodyIsKept
<1>2. \A b, v : Missing(f, b, v)' <=> Missing(f, b, v)
  BY <1>1 DEF Missing, Follows, blocks_by_id, terminator_targets, StoresTo, Instructions
<1>3. Narrowing(f, flow.stored)'
  BY <1>1, <1>2 DEF Narrowing, Wide
<1>4. ASSUME NEW b
      PROVE  Incoming(f, b, flow.stored, stores_after)' = Incoming(f, b, g.stored, stores_after)
  BY <1>1 DEF Incoming, Predecessors, terminator_targets, stores_after, Instructions
<1>5. (flow.phase = "stored" /\ ~flow.changed => Exact(f, flow.stored, reachable_blocks(f) \ flow.pending))'
  BY <1>1, <1>4 DEF Exact
<1>6. (flow.phase = "settled" => Exact(f, flow.stored, reachable_blocks(f)))'
  BY <1>1, <1>4 DEF Exact
<1>7. FlowShape'
  BY DEF FlowShape
<1> QED
  BY <1>1, <1>3, <1>5, <1>6, <1>7 DEF FlowOf

LEMMA FlowStarts ==
    ASSUME program' = program, NEW f,
           flow' = [phase |-> "available",
                    available |-> Optimistic(f, Defined(f), Params(f)),
                    stored |-> Optimistic(f, alloc_slots(f), {}),
                    pending |-> reachable_blocks(f), changed |-> FALSE]
    PROVE  FlowOf(f)'
<1> DEFINE g == [phase |-> "available",
                 available |-> Optimistic(f, Defined(f), Params(f)),
                 stored |-> Optimistic(f, alloc_slots(f), {}),
                 pending |-> reachable_blocks(f), changed |-> FALSE]
<1>1. /\ \E p, a, s, q, c : g = [phase |-> p, available |-> a, stored |-> s, pending |-> q, changed |-> c]
      /\ g.pending \in SUBSET reachable_blocks(f) /\ g.changed \in BOOLEAN /\ g.phase = "available"
      /\ g.stored = Optimistic(f, alloc_slots(f), {})
  OBVIOUS
<1> HIDE DEF g
<1>2. flow' = g
  BY DEF g
<1>3. Narrowing(f, g.stored)
  BY <1>1, OptimisticNarrows
<1> QED
  BY <1>1, <1>2, <1>3, FlowIsKept

\* A block of the first analysis leaves the stores alone.
LEMMA AvailableKeeps ==
    ASSUME AvailableBlock, NEW f, FlowOf(f)
    PROVE  FlowOf(f)'
<1>1. PICK p, a, s, q, c :
        flow = [phase |-> p, available |-> a, stored |-> s, pending |-> q, changed |-> c]
  BY DEF FlowOf, FlowShape
<1> DEFINE a2 == Narrowed(flow.available, defines_after)
           c2 == flow.changed \/ a2 # flow.available
           q2 == flow.pending \ {Least(flow.pending)}
           g == [phase |-> p, available |-> a2, stored |-> s, pending |-> q2, changed |-> c2]
<1>2. flow' = g /\ program' = program /\ p = "available"
  BY <1>1 DEF AvailableBlock
<1>3. q \in SUBSET reachable_blocks(f) /\ Narrowing(f, s) /\ flow.pending = q
  BY <1>1 DEF FlowOf
<1>4. /\ g.pending \in SUBSET reachable_blocks(f) /\ g.changed \in BOOLEAN /\ g.phase = "available" /\ g.stored = s
      /\ \E p3, a3, s3, q3, c3 :
            g = [phase |-> p3, available |-> a3, stored |-> s3, pending |-> q3, changed |-> c3]
  BY <1>2, <1>3
<1> HIDE DEF g
<1> QED
  BY <1>2, <1>3, <1>4, FlowIsKept

\* A block of the second is narrowed to what its predecessors leave behind.
LEMMA StoredKeeps ==
    ASSUME ProgramOK, StoredBlock, NEW f \in DOMAIN Funcs, f = Checking, FlowOf(f)
    PROVE  FlowOf(f)'
<1>1. PICK p, a, s, q, c :
        flow = [phase |-> p, available |-> a, stored |-> s, pending |-> q, changed |-> c]
  BY DEF FlowOf, FlowShape
<1> DEFINE b == Least(flow.pending)
           s2 == Narrowed(flow.stored, stores_after)
           c2 == flow.changed \/ s2 # flow.stored
           q2 == flow.pending \ {b}
           g == [phase |-> p, available |-> a, stored |-> s2, pending |-> q2, changed |-> c2]
<1>2. flow' = g /\ program' = program /\ p = "stored" /\ flow.pending # {}
  BY <1>1 DEF StoredBlock
<1>3. /\ q \in SUBSET reachable_blocks(f) /\ Narrowing(f, s) /\ flow.pending = q /\ flow.stored = s
      /\ flow.changed = c /\ c \in BOOLEAN /\ (~c => Exact(f, s, reachable_blocks(f) \ q))
  BY <1>1, <1>2 DEF FlowOf
<1>4. b \in q /\ b \in reachable_blocks(f)
  <2>1. q \in SUBSET Nat
    BY <1>3, BlocksAreDeclared
  <2> QED
    BY <1>2, <1>3, <2>1, LeastId
<1>5. s2 = IF b = 0 THEN s ELSE [s EXCEPT ![b] = Incoming(f, b, s, stores_after)]
  BY <1>3 DEF Narrowed
<1> HIDE DEF b, s2
<1>6. Narrowing(f, s2)
  BY <1>3, <1>4, <1>5, NarrowingKeeps
<1>7. ~c2 => Exact(f, s2, reachable_blocks(f) \ q2)
  <2> SUFFICES ASSUME ~c2 PROVE Exact(f, s2, reachable_blocks(f) \ q2)
    OBVIOUS
  <2>1. s2 = s /\ ~c
    BY <1>3
  <2>2. b # 0 => s[b] = Incoming(f, b, s, stores_after)
    <3> DEFINE n == Incoming(f, b, s, stores_after)
    <3> HIDE DEF n
    <3>1. b # 0 => s = [s EXCEPT ![b] = n]
      BY <1>5, <2>1 DEF n
    <3>2. b \in DOMAIN s
      BY <1>3, <1>4 DEF Narrowing
    <3>3. b # 0 => s[b] = n
      BY <3>1, <3>2
    <3> QED
      BY <3>3 DEF n
  <2>3. Exact(f, s, reachable_blocks(f) \ q)
    BY <1>3, <2>1
  <2> QED
    BY <1>3, <2>1, <2>2, <2>3 DEF Exact
<1>8. /\ g.pending = q2 /\ g.changed = c2 /\ g.phase = "stored" /\ g.stored = s2
      /\ \E p3, a3, s3, q3, c3 :
            g = [phase |-> p3, available |-> a3, stored |-> s3, pending |-> q3, changed |-> c3]
  BY <1>2
<1>9. q2 \in SUBSET reachable_blocks(f) /\ c2 \in BOOLEAN
  BY <1>3
<1> HIDE DEF g, q2, c2
<1> QED
  BY <1>2, <1>6, <1>7, <1>8, <1>9, FlowIsKept

\* The end of a turn: after one without a change, every block is exact.
LEMMA TurnKeeps ==
    ASSUME TurnEnds, NEW f, f = Checking, FlowOf(f)
    PROVE  FlowOf(f)'
<1>1. PICK p, a, s, q, c :
        flow = [phase |-> p, available |-> a, stored |-> s, pending |-> q, changed |-> c]
  BY DEF FlowOf, FlowShape
<1> DEFINE p2 == IF flow.changed THEN flow.phase ELSE IF flow.phase = "available" THEN "stored" ELSE "settled"
           g == [phase |-> p2, available |-> a, stored |-> s, pending |-> reachable_blocks(f), changed |-> FALSE]
<1>2. flow' = g /\ program' = program /\ p \in {"available", "stored"} /\ q = {}
  BY <1>1 DEF TurnEnds
<1>3. Narrowing(f, s) /\ flow.changed = c /\ c \in BOOLEAN /\ flow.phase = p
      /\ (p = "stored" /\ ~c => Exact(f, s, reachable_blocks(f) \ q))
  BY <1>1 DEF FlowOf
<1>4. /\ g.pending = reachable_blocks(f) /\ g.changed = FALSE /\ g.phase = p2 /\ g.stored = s
      /\ \E p3, a3, s3, q3, c3 :
            g = [phase |-> p3, available |-> a3, stored |-> s3, pending |-> q3, changed |-> c3]
  OBVIOUS
<1>5. p2 = "settled" => Exact(f, s, reachable_blocks(f))
  <2> SUFFICES ASSUME p2 = "settled" PROVE Exact(f, s, reachable_blocks(f))
    OBVIOUS
  <2>1. p = "stored" /\ ~c
    BY <1>2, <1>3
  <2>2. reachable_blocks(f) \ q = reachable_blocks(f)
    BY <1>2
  <2> QED
    BY <1>3, <2>1, <2>2
<1>6. Exact(f, s, reachable_blocks(f) \ reachable_blocks(f))
  BY DEF Exact
<1> HIDE DEF g, p2
<1> QED
  BY <1>2, <1>3, <1>4, <1>5, <1>6, FlowIsKept

\* Once both analyses have settled, the answer on the slots is the paths'.
LEMMA BodyDecides ==
    ASSUME ProgramOK, NEW f \in DOMAIN Funcs, FlowOf(f), flow.phase = "settled"
    PROVE  /\ check_body(f) = "UNINITIALIZED_SLOT_LOAD" => MissedLoad(f)
           /\ check_body(f) = "ok" => ~MissedLoad(f)
<1> DEFINE s == flow.stored
           Ins(t) == Instructions(f, t[1])[t[2]]
           slot(t) == Instructions(f, t[1])[t[2]].args[1]
           Before(t) == \E j \in 1 .. t[2] - 1 : /\ Instructions(f, t[1])[j].op = "store"
                                                /\ Instructions(f, t[1])[j].args[1] = slot(t)
<1>1. Narrowing(f, s) /\ Exact(f, s, reachable_blocks(f))
  BY DEF FlowOf
<1>2. \A t \in Sites(f) : t[1] \in reachable_blocks(f)
  BY DEF Sites
<1>3. \A t : slot(t) \in StoredAt(f, t[1], t[2]) <=> slot(t) \in s[t[1]] \/ Before(t)
  BY DEF StoredAt
<1>4. check_slot_initialization(f) # "ok" <=>
        \E t \in Sites(f) : Ins(t).op = "load" /\ slot(t) \notin StoredAt(f, t[1], t[2])
  BY DEF check_slot_initialization
<1>5. \A t : MissesStore(f, t[1], t[2], slot(t)) <=> Missing(f, t[1], slot(t)) /\ ~Before(t)
  BY MissesStoreIs
<1>6. MissedLoad(f) <=> \E t \in Sites(f) : Ins(t).op = "load" /\ MissesStore(f, t[1], t[2], slot(t))
  BY DEF MissedLoad
<1>7. check_body(f) \in {"ok", "UNINITIALIZED_SLOT_LOAD"} =>
        \A t \in Sites(f) : Ins(t).op = "load" => slot(t) \in alloc_slots(f)
  BY AcceptedBody
<1> HIDE DEF Ins, slot, Before, s
<1>8. ASSUME check_body(f) = "UNINITIALIZED_SLOT_LOAD"
      PROVE  MissedLoad(f)
  <2>1. check_slot_initialization(f) # "ok"
    BY <1>8, BodyAnswers
  <2>2. PICK t \in Sites(f) : Ins(t).op = "load" /\ slot(t) \notin s[t[1]] /\ ~Before(t)
    BY <1>3, <1>4, <2>1
  <2>3. slot(t) \in alloc_slots(f)
    BY <1>7, <1>8, <2>2
  <2>4. Missing(f, t[1], slot(t))
    BY <1>1, <1>2, <2>2, <2>3 DEF Narrowing, Wide
  <2> QED
    BY <1>5, <1>6, <2>2, <2>4
<1>9. ASSUME check_body(f) = "ok", MissedLoad(f)
      PROVE  FALSE
  <2>1. check_slot_initialization(f) = "ok"
    BY <1>9, BodyAnswers
  <2>2. PICK t \in Sites(f) : Ins(t).op = "load" /\ Missing(f, t[1], slot(t)) /\ ~Before(t)
    BY <1>5, <1>6, <1>9
  <2>3. slot(t) \in s[t[1]]
    BY <1>3, <1>4, <2>1, <2>2
  <2> QED
    BY <1>1, <1>2, <2>2, <2>3, SettledIsExact
<1> QED
  BY <1>8, <1>9

-----------------------------------------------------------------------------
(* A load is refused when a path to it misses the store.                   *)

\* What the report d says of the body of f is right; nothing is said of it.
SaidRight(f, d) ==
    /\ (\E i \in DOMAIN d : d[i].functions = <<f>> /\ d[i].code = "UNINITIALIZED_SLOT_LOAD") => MissedLoad(f)
    /\ (\A i \in DOMAIN d : d[i].functions = <<f>> => d[i].code = "RECURSIVE_CALL_GRAPH") => ~MissedLoad(f)
Unsaid(f, d) == \A i \in DOMAIN d : d[i].functions # <<f>>

\* What the walk reports: the imports, or a function it could not key.
SaidOnTheWalk(r) ==
    \/ r.functions = <<>>
    \/ r.code = "UNVERIFIED_NIR" /\ \E g \in reached : r.functions = <<g>> /\ ~blocks_by_id(g)

LoadsOK ==
    /\ stage = "bodies" /\ flow # NoFlow => \A f \in reached : f = Checking => FlowOf(f)
    /\ stage = "walk" => \A i \in DOMAIN diagnostics : SaidOnTheWalk(diagnostics[i])
    /\ stage = "bodies" => \A f \in unchecked : Unsaid(f, diagnostics)
    /\ stage \in {"bodies", "cycles"} => \A f \in reached \ unchecked : SaidRight(f, diagnostics)
    /\ stage = "cycles" => unchecked = {}
    /\ Decided => \A f \in reached : SaidRight(f, diagnostics)

LoadsInv == GateOK /\ LoadsOK

LEMMA SaidIsKept ==
    ASSUME program' = program, NEW f, SaidRight(f, diagnostics')
    PROVE  SaidRight(f, diagnostics)'
<1>1. MissedLoad(f)' <=> MissedLoad(f)
  BY BodyIsKept
<1> QED
  BY <1>1 DEF SaidRight

\* What the property says, read off the reports.
LEMMA SaidMeans ==
    LoadsInv => LoadsDecidedByPaths
<1> SUFFICES ASSUME LoadsInv, Decided, NEW f \in reached
             PROVE  LET said == {diagnostics[i].code : i \in {j \in DOMAIN diagnostics :
                                                               diagnostics[j].functions = <<f>>}}
                                \ {"RECURSIVE_CALL_GRAPH"}
                    IN  /\ "UNINITIALIZED_SLOT_LOAD" \in said => MissedLoad(f)
                        /\ said = {} => ~MissedLoad(f)
  BY DEF LoadsDecidedByPaths
<1> DEFINE said == {diagnostics[i].code : i \in {j \in DOMAIN diagnostics :
                                                  diagnostics[j].functions = <<f>>}}
                   \ {"RECURSIVE_CALL_GRAPH"}
<1>1. SaidRight(f, diagnostics)
  BY DEF LoadsInv, LoadsOK
<1>2. "UNINITIALIZED_SLOT_LOAD" \in said => MissedLoad(f)
  BY <1>1 DEF SaidRight
<1>3. said = {} => ~MissedLoad(f)
  BY <1>1 DEF SaidRight
<1> QED
  BY <1>2, <1>3

LEMMA LoadsInit ==
    Init => LoadsInv
<1> SUFFICES ASSUME Init PROVE LoadsInv
  OBVIOUS
<1>1. GateOK
  BY CyclesInit DEF CyclesInv
<1>2. stage = "walk" /\ diagnostics = IF program.imports THEN <<Report("MULTI_MODULE_BUILD", <<>>)>> ELSE <<>>
  BY DEF Init, GateInit
<1>3. \A i \in DOMAIN diagnostics : diagnostics[i].functions = <<>>
  BY <1>2 DEF Report
<1> QED
  BY <1>1, <1>2, <1>3 DEF LoadsInv, LoadsOK, Decided, SaidOnTheWalk

\* One function's answer: right for it, and nothing new of another.
LEMMA SettleSays ==
    ASSUME LoadsInv, stage = "bodies", unchecked # {}, program' = program, UNCHANGED <<stage, reached>>,
           NEW answer \in FunctionCodes \cup {"ok"}, Settle(answer),
           answer = "UNINITIALIZED_SLOT_LOAD" => MissedLoad(Checking),
           answer = "ok" => ~MissedLoad(Checking)
    PROVE  LoadsOK'
<1> DEFINE c == Checking
           d == diagnostics
           e == diagnostics'
           r == Report(answer, <<Checking>>)
<1>1. /\ unchecked \in SUBSET reached /\ reached \in SUBSET Nat /\ d \in Seq(Reports)
      /\ (\A f \in unchecked : Unsaid(f, d)) /\ (\A f \in reached \ unchecked : SaidRight(f, d))
  BY ProgramFacts DEF LoadsInv, LoadsOK, GateOK, ReachedIds, Undecided
<1>2. c \in unchecked /\ c \in Nat
  BY <1>1, LeastId DEF Checking
<1>3. unchecked' = unchecked \ {c} /\ flow' = NoFlow
  BY DEF Settle
<1>4. answer # "RECURSIVE_CALL_GRAPH" /\ answer \in Codes \cup {"ok"}
  BY DEF FunctionCodes, UseCodes, Codes
<1>5. e = IF answer = "ok" THEN d ELSE Append(d, r)
  BY DEF Settle
<1>6. r.code = answer /\ r.functions = <<c>> /\ (answer # "ok" => r \in Reports)
  BY <1>2, <1>4 DEF Report, Reports
<1> HIDE DEF r, c
<1>7. \/ e = d /\ answer = "ok"
      \/ /\ DOMAIN e = 1 .. Len(d) + 1 /\ e[Len(d) + 1] = r /\ answer # "ok"
         /\ \A i \in 1 .. Len(d) : e[i] = d[i]
  BY <1>1, <1>5, <1>6, RangeOfAppend
<1>8. DOMAIN d = 1 .. Len(d) /\ Len(d) \in Nat
  BY <1>1
<1>9. \A i \in DOMAIN e : (i \in DOMAIN d /\ e[i] = d[i]) \/ (i = Len(d) + 1 /\ e[i] = r /\ answer # "ok")
  BY <1>7, <1>8
<1>10. \A i \in DOMAIN d : i \in DOMAIN e /\ e[i] = d[i]
  BY <1>7, <1>8
<1>11. answer # "ok" => Len(d) + 1 \in DOMAIN e /\ e[Len(d) + 1] = r
  BY <1>7, <1>8
<1> HIDE DEF d, e
<1>12. ASSUME NEW f, f # c
       PROVE  <<c>> # <<f>>
  BY <1>12
<1>13. ASSUME NEW f \in unchecked, f # c
       PROVE  Unsaid(f, e)
  BY <1>1, <1>6, <1>9, <1>12, <1>13 DEF Unsaid
<1>14. ASSUME NEW f \in reached \ unchecked
       PROVE  SaidRight(f, e)
  <2>1. f # c /\ <<c>> # <<f>> /\ SaidRight(f, d)
    BY <1>1, <1>2, <1>12, <1>14
  <2> QED
    BY <1>6, <1>9, <1>10, <2>1 DEF SaidRight
<1>15. SaidRight(c, e)
  <2>1. Unsaid(c, d)
    BY <1>1, <1>2
  <2>2. (\E i \in DOMAIN e : e[i].functions = <<c>> /\ e[i].code = "UNINITIALIZED_SLOT_LOAD") => MissedLoad(c)
    BY <1>6, <1>9, <2>1 DEF Unsaid, c
  <2>3. (\A i \in DOMAIN e : e[i].functions = <<c>> => e[i].code = "RECURSIVE_CALL_GRAPH") => ~MissedLoad(c)
    BY <1>4, <1>6, <1>11 DEF c
  <2> QED
    BY <2>2, <2>3 DEF SaidRight
<1>16. \A f \in reached' \ unchecked' : SaidRight(f, diagnostics')
  BY <1>3, <1>14, <1>15 DEF e
<1>17. \A f \in reached' \ unchecked' : SaidRight(f, diagnostics)'
  BY <1>16, SaidIsKept
<1>18. (\A f \in unchecked : Unsaid(f, diagnostics))'
  BY <1>3, <1>13 DEF e, Unsaid
<1> QED
  BY <1>3, <1>17, <1>18 DEF LoadsOK, Decided

\* A step of an analysis.
LEMMA FlowSteps ==
    ASSUME LoadsInv, AvailableBlock \/ StoredBlock \/ TurnEnds
    PROVE  LoadsOK'
<1>1. /\ stage = "bodies" /\ UNCHANGED <<program, stage, reached, unchecked, diagnostics>>
      /\ flow # NoFlow /\ ProgramOK
  BY DEF AvailableBlock, StoredBlock, TurnEnds, NoFlow, LoadsInv, GateOK
<1>2. ASSUME NEW f \in reached, f = Checking
      PROVE  FlowOf(f)'
  <2>1. FlowOf(f) /\ f \in DOMAIN Funcs
    BY <1>1, <1>2 DEF LoadsInv, LoadsOK, ProgramOK
  <2> QED
    BY <1>1, <1>2, <2>1, AvailableKeeps, StoredKeeps, TurnKeeps
<1>3. Checking' = Checking
  BY <1>1 DEF Checking
<1>4. \A f \in reached \ unchecked : SaidRight(f, diagnostics)'
  BY <1>1, SaidIsKept DEF LoadsInv, LoadsOK
<1>5. (\A f \in unchecked : Unsaid(f, diagnostics))'
  BY <1>1 DEF LoadsInv, LoadsOK, Unsaid
<1> QED
  BY <1>1, <1>2, <1>3, <1>4, <1>5 DEF LoadsOK, Decided

LEMMA ValidateSays ==
    ASSUME LoadsInv, ValidateFunction
    PROVE  LoadsOK'
<1>1. /\ stage = "bodies" /\ unchecked # {} /\ UNCHANGED <<program, stage, reached>> /\ stage \in Undecided
  BY DEF ValidateFunction, Undecided
<1>2. \/ check_signature(Checking) # "ok" /\ Settle(check_signature(Checking))
      \/ Settle("UNVERIFIED_NIR")
      \/ /\ flow' = [phase |-> "available",
                     available |-> Optimistic(Checking, Defined(Checking), Params(Checking)),
                     stored |-> Optimistic(Checking, alloc_slots(Checking), {}),
                     pending |-> reachable_blocks(Checking), changed |-> FALSE]
         /\ UNCHANGED <<unchecked, diagnostics>>
  BY DEF ValidateFunction
<1>3. CASE check_signature(Checking) # "ok" /\ Settle(check_signature(Checking))
  <2>1. check_signature(Checking) \in FunctionCodes \cup {"ok"}
    BY SignatureAnswers DEF UseAnswers, FunctionCodes
  <2>2. check_signature(Checking) # "UNINITIALIZED_SLOT_LOAD"
    BY SignatureAnswers DEF UseAnswers, UseCodes
  <2> QED
    BY <1>1, <1>3, <2>1, <2>2, SettleSays
<1>4. CASE Settle("UNVERIFIED_NIR")
  <2>1. "UNVERIFIED_NIR" \in FunctionCodes \cup {"ok"}
    BY DEF FunctionCodes, UseCodes
  <2> QED
    BY <1>1, <1>4, <2>1, SettleSays
<1>5. CASE /\ flow' = [phase |-> "available",
                       available |-> Optimistic(Checking, Defined(Checking), Params(Checking)),
                       stored |-> Optimistic(Checking, alloc_slots(Checking), {}),
                       pending |-> reachable_blocks(Checking), changed |-> FALSE]
           /\ UNCHANGED <<unchecked, diagnostics>>
  <2>1. ASSUME NEW f \in reached, f = Checking
        PROVE  FlowOf(f)'
    BY <1>1, <1>5, <2>1, FlowStarts
  <2>2. Checking' = Checking
    BY <1>5 DEF Checking
  <2>3. \A f \in reached \ unchecked : SaidRight(f, diagnostics)'
    BY <1>1, <1>5, SaidIsKept DEF LoadsInv, LoadsOK
  <2>4. (\A f \in unchecked : Unsaid(f, diagnostics))'
    BY <1>1, <1>5 DEF LoadsInv, LoadsOK, Unsaid
  <2> QED
    BY <1>1, <1>5, <2>1, <2>2, <2>3, <2>4 DEF LoadsOK, Decided
<1> QED
  BY <1>2, <1>3, <1>4, <1>5

LEMMA CheckSays ==
    ASSUME LoadsInv, CheckBody
    PROVE  LoadsOK'
<1>1. /\ stage = "bodies" /\ UNCHANGED <<program, stage, reached>> /\ flow.phase = "settled" /\ flow # NoFlow
      /\ Settle(check_body(Checking))
  BY DEF CheckBody, NoFlow
<1>2. ProgramOK /\ unchecked # {} /\ unchecked \in SUBSET reached
  BY <1>1 DEF LoadsInv, GateOK, Undecided
<1>3. Checking \in reached /\ Checking \in DOMAIN Funcs
  <2>1. reached \in SUBSET Nat
    BY <1>2, ProgramFacts DEF ReachedIds
  <2> QED
    BY <1>2, <2>1, LeastId DEF Checking, ProgramOK
<1>4. FlowOf(Checking)
  BY <1>1, <1>3 DEF LoadsInv, LoadsOK
<1>5. /\ check_body(Checking) \in FunctionCodes \cup {"ok"}
      /\ check_body(Checking) = "UNINITIALIZED_SLOT_LOAD" => MissedLoad(Checking)
      /\ check_body(Checking) = "ok" => ~MissedLoad(Checking)
  BY <1>1, <1>2, <1>3, <1>4, BodyAnswers, BodyDecides
<1> QED
  BY <1>1, <1>2, <1>5, SettleSays

\* The cycles are reported after the bodies, under a code of their own.
LEMMA ReportSays ==
    ASSUME LoadsInv, ReportCycles
    PROVE  LoadsOK'
<1>1. /\ stage = "cycles" /\ scc.work = <<>> /\ scc.roots = <<>>
      /\ UNCHANGED <<program, reached>> /\ stage' \in {"planned", "refused"}
  BY DEF ReportCycles
<1> DEFINE d == diagnostics
           r == [i \in DOMAIN CyclesInOrder |-> Report("RECURSIVE_CALL_GRAPH", CyclesInOrder[i])]
<1>2. diagnostics' = d \o r
  BY DEF ReportCycles, CyclesInOrder, Cycles
<1>3. /\ ProgramOK /\ SccInv(scc) /\ d \in Seq(Reports) /\ unchecked = {}
      /\ \A f \in reached : SaidRight(f, d)
  BY <1>1 DEF LoadsInv, LoadsOK, GateOK, Undecided
<1>4. r \in Seq(Reports) /\ \A i \in DOMAIN r : r[i].code = "RECURSIVE_CALL_GRAPH"
  <2>1. CyclesInOrder \in Seq(Seq(Nat))
    BY <1>1, <1>3, ProgramFacts, CyclesInOrderFacts
  <2>2. Len(CyclesInOrder) \in Nat /\ DOMAIN CyclesInOrder = 1 .. Len(CyclesInOrder)
        /\ \A i \in DOMAIN CyclesInOrder : CyclesInOrder[i] \in Seq(Nat)
    BY <2>1
  <2>3. \A i \in DOMAIN r : r[i].code = "RECURSIVE_CALL_GRAPH" /\ r[i] \in Reports
    BY <2>2 DEF Report, Reports, Codes
  <2>4. r \in [1 .. Len(CyclesInOrder) -> Reports]
    BY <2>2, <2>3
  <2> QED
    BY <2>2, <2>3, <2>4
<1> HIDE DEF r
<1>5. /\ d \o r \in Seq(Reports) /\ Len(d \o r) = Len(d) + Len(r)
      /\ \A i \in 1 .. Len(d) + Len(r) : (d \o r)[i] = IF i <= Len(d) THEN d[i] ELSE r[i - Len(d)]
  BY <1>3, <1>4, ConcatProperties
<1> DEFINE e == d \o r
<1>6. /\ DOMAIN d = 1 .. Len(d) /\ DOMAIN r = 1 .. Len(r) /\ Len(d) \in Nat /\ Len(r) \in Nat
      /\ DOMAIN e = 1 .. Len(d) + Len(r)
  BY <1>3, <1>4, <1>5
<1> HIDE DEF e, d
<1>7. /\ \A i \in DOMAIN e : (i \in DOMAIN d /\ e[i] = d[i]) \/ e[i].code = "RECURSIVE_CALL_GRAPH"
      /\ \A i \in DOMAIN d : i \in DOMAIN e /\ e[i] = d[i]
  BY <1>4, <1>5, <1>6 DEF e
<1>8. ASSUME NEW f \in reached
      PROVE  SaidRight(f, e)
  <2>1. SaidRight(f, d)
    BY <1>3
  <2> QED
    BY <1>7, <2>1 DEF SaidRight
<1>9. \A f \in reached : SaidRight(f, diagnostics)'
  BY <1>1, <1>2, <1>8, SaidIsKept DEF e
<1> QED
  BY <1>1, <1>9 DEF LoadsOK, Decided

\* The walk reports nothing of a function whose body will be checked.
LEMMA WalkSays ==
    ASSUME GateOK, LoadsOK, Walk
    PROVE  LoadsOK'
<1>1. /\ UNCHANGED <<program, stage, unchecked, flow>> /\ stage = "walk" /\ reached \subseteq reached'
      /\ Head(queue) \in reached
      /\ \A i \in DOMAIN diagnostics' :
            \/ i \in DOMAIN diagnostics /\ diagnostics'[i] = diagnostics[i]
            \/ ~blocks_by_id(Head(queue)) /\ diagnostics'[i] = Report("UNVERIFIED_NIR", <<Head(queue)>>)
  BY WalkReports
<1>2. \A f : blocks_by_id(f)' <=> blocks_by_id(f)
  BY <1>1 DEF blocks_by_id, Funcs
<1>3. ASSUME NEW i \in DOMAIN diagnostics'
      PROVE  SaidOnTheWalk(diagnostics[i])'
  <2>1. CASE i \in DOMAIN diagnostics /\ diagnostics'[i] = diagnostics[i]
    <3>1. SaidOnTheWalk(diagnostics[i])
      BY <1>1, <2>1 DEF LoadsOK
    <3> QED
      BY <1>1, <1>2, <2>1, <3>1 DEF SaidOnTheWalk
  <2>2. CASE ~blocks_by_id(Head(queue)) /\ diagnostics'[i] = Report("UNVERIFIED_NIR", <<Head(queue)>>)
    <3> DEFINE g == Head(queue)
    <3>1. /\ g \in reached' /\ ~blocks_by_id(g)
          /\ diagnostics'[i].code = "UNVERIFIED_NIR" /\ diagnostics'[i].functions = <<g>>
      BY <1>1, <2>2 DEF Report
    <3> HIDE DEF g
    <3> QED
      BY <1>2, <3>1 DEF SaidOnTheWalk
  <2> QED
    BY <1>1, <1>3, <2>1, <2>2
<1> QED
  BY <1>1, <1>3 DEF LoadsOK, Decided

LEMMA WalkDoneSays ==
    ASSUME GateOK, LoadsOK, WalkDone
    PROVE  LoadsOK'
<1>1. /\ UNCHANGED <<program, reached, diagnostics>> /\ stage = "walk" /\ stage' = "bodies"
      /\ unchecked' = {f \in reached : blocks_by_id(f)} /\ flow' = NoFlow
  BY DEF WalkDone, GateOK
<1>2. \A i \in DOMAIN diagnostics : SaidOnTheWalk(diagnostics[i])
  BY <1>1 DEF LoadsOK
<1>3. \A f, g : <<f>> # <<>> /\ (<<f>> = <<g>> => f = g)
  OBVIOUS
<1>4. ASSUME NEW f \in unchecked'
      PROVE  Unsaid(f, diagnostics)
  BY <1>1, <1>2, <1>3, <1>4 DEF Unsaid, SaidOnTheWalk
<1>5. ASSUME NEW f \in reached \ unchecked'
      PROVE  SaidRight(f, diagnostics)'
  <2>1. ~blocks_by_id(f)
    BY <1>1, <1>5
  <2>2. reachable_blocks(f) = {}
    BY <2>1, ReachedIsKeyed
  <2>3. ~MissedLoad(f)
    BY <2>2 DEF MissedLoad, Sites
  <2>4. \A i \in DOMAIN diagnostics : diagnostics[i].functions = <<f>> => diagnostics[i].code = "UNVERIFIED_NIR"
    BY <1>2, <1>3 DEF SaidOnTheWalk
  <2>5. SaidRight(f, diagnostics)
    <3>1. ~\E i \in DOMAIN diagnostics : diagnostics[i].functions = <<f>> /\ diagnostics[i].code = "UNINITIALIZED_SLOT_LOAD"
      BY <2>4
    <3> QED
      BY <2>3, <3>1 DEF SaidRight
  <2> QED
    BY <1>1, <2>5, SaidIsKept
<1> QED
  BY <1>1, <1>4, <1>5 DEF LoadsOK, Decided

LEMMA LoadsStep ==
    LoadsInv /\ [Next]_vars => LoadsInv'
<1> SUFFICES ASSUME LoadsInv, [Next]_vars PROVE LoadsInv'
  OBVIOUS
<1>1. GateOK /\ LoadsOK
  BY DEF LoadsInv
<1>2. GateOK'
  BY <1>1, EarlyKeeps, SearchKeeps, ReportKeeps, AfterTheGate, RestKeeps DEF GateNext, CyclesInv
<1> SUFFICES LoadsOK'
  BY <1>2 DEF LoadsInv
<1>3. CASE Walk
  BY <1>1, <1>3, WalkSays
<1>4. CASE WalkDone
  BY <1>1, <1>4, WalkDoneSays
<1>5. CASE ValidateFunction
  BY <1>5, ValidateSays
<1>6. CASE AvailableBlock \/ StoredBlock \/ TurnEnds
  BY <1>6, FlowSteps
<1>7. CASE CheckBody
  BY <1>7, CheckSays
<1>8. CASE BodiesDone \/ NextRoot \/ Descend \/ Leave
  <2>1. /\ UNCHANGED <<program, reached, unchecked, diagnostics>> /\ stage \in {"bodies", "cycles"}
        /\ stage' = "cycles" /\ unchecked = {}
    BY <1>1, <1>8 DEF BodiesDone, NextRoot, Descend, Leave, LoadsOK
  <2>2. \A f \in reached \ unchecked : SaidRight(f, diagnostics)'
    BY <1>1, <2>1, SaidIsKept DEF LoadsOK
  <2> QED
    BY <2>1, <2>2 DEF LoadsOK, Decided
<1>9. CASE ReportCycles
  BY <1>9, ReportSays
<1>10. CASE /\ UNCHANGED <<program, queue, reached, unchecked, flow, diagnostics, scc>>
            /\ stage' = stage \/ (Decided /\ Decided')
  <2>1. \A f : SaidRight(f, diagnostics) => SaidRight(f, diagnostics)'
    BY <1>10, SaidIsKept
  <2>2. CASE Decided /\ Decided'
    BY <1>1, <1>10, <2>1, <2>2 DEF LoadsOK, Decided
  <2>3. CASE stage' = stage
    <3>1. \A f : FlowOf(f) => FlowOf(f)'
      <4> SUFFICES ASSUME NEW f, FlowOf(f) PROVE FlowOf(f)'
        OBVIOUS
      <4> QED
        BY <1>10, FlowIsKept DEF FlowOf, FlowShape
    <3>2. Checking' = Checking
      BY <1>10 DEF Checking
    <3> QED
      BY <1>1, <1>10, <2>1, <2>3, <3>1, <3>2, KeyedIsKept DEF LoadsOK, Decided, Unsaid, SaidOnTheWalk
  <2> QED
    BY <1>10, <2>2, <2>3
<1> QED
  BY <1>3, <1>4, <1>5, <1>6, <1>7, <1>8, <1>9, <1>10, AfterTheGate DEF GateNext

(***************************************************************************)
(* The gate's passes decide by paths: check_slot_initialization            *)
(* (native/capability.rs) refuses a body for a load exactly when the loop  *)
(* of must_reach has left a slot out that some path from bb0 does not      *)
(* store, whatever the blocks, their order and their edges.  A function    *)
(* the gate says nothing about has no load before its store on any path.   *)
(***************************************************************************)
THEOREM LoadsAreDecidedByPaths ==
    Spec => []LoadsDecidedByPaths
<1>1. Init => LoadsInv
  BY LoadsInit
<1>2. LoadsInv /\ [Next]_vars => LoadsInv'
  BY LoadsStep
<1>3. LoadsInv => LoadsDecidedByPaths
  BY SaidMeans
<1> QED
  BY <1>1, <1>2, <1>3, PTL DEF Spec

-----------------------------------------------------------------------------
(* What the gate plans can be emitted.  First: what an accepted body says   *)
(* of the values it uses, without the analyses that decided it.             *)

DefinesIn(f, b, v) ==
    \E j \in DOMAIN Instructions(f, b) : Defines(Instructions(f, b)[j]) /\ Instructions(f, b)[j].result = v

DefinedBefore(f, b, i, v) ==
    \E j \in 1 .. i - 1 : Defines(Instructions(f, b)[j]) /\ Instructions(f, b)[j].result = v

\* Every path from bb0 to the block defines the value before it is there.
Guarded(f, b, v) ==
    \E S \in SUBSET DOMAIN Funcs[f].blocks :
        /\ 0 \in S /\ b \notin S
        /\ \A c \in S : \/ DefinesIn(f, c, v)
                       \/ terminator_targets(f, c) \cap DOMAIN Funcs[f].blocks \subseteq S

UseOK(f, b, i, v) == v \in Params(f) \/ DefinedBefore(f, b, i, v) \/ Guarded(f, b, v)

Accepted(f) ==
    /\ blocks_by_id(f)
    /\ \A b \in reachable_blocks(f) :
         /\ \A i \in DOMAIN Uses(f, b) : \A v \in Uses(f, b)[i] : UseOK(f, b, i, v)
         /\ Funcs[f].blocks[b].term.op \in {"br", "cbr"} =>
               terminator_targets(f, b) \subseteq DOMAIN Funcs[f].blocks

LEMMA OperandIsLive ==
    ASSUME NEW f, NEW v, NEW live, operand(f, v, live) = "ok"
    PROVE  v \in live
  BY DEF operand

LEMMA OperandsAreLive ==
    ASSUME NEW f, NEW args, IsVec(args), NEW live, Operands(f, args, live) = "ok"
    PROVE  Range(args) \subseteq live
<1> DEFINE answers == [i \in DOMAIN args |-> operand(f, args[i], live)]
<1>1. DOMAIN answers = DOMAIN args /\ DOMAIN args \subseteq Nat /\ First(answers) = "ok"
  BY DEF IsVec, Operands
<1>2. \A i \in DOMAIN args : answers[i] = operand(f, args[i], live)
  OBVIOUS
<1> HIDE DEF answers
<1>3. \A i \in DOMAIN args : operand(f, args[i], live) = "ok"
  BY <1>1, <1>2, FirstIsOk
<1> QED
  BY <1>3, OperandIsLive DEF Range

LEMMA FirstOfTwoIsOk ==
    ASSUME NEW x, NEW y, First(<<x, y>>) = "ok"
    PROVE  x = "ok" /\ y = "ok"
<1>1. DOMAIN <<x, y>> = 1 .. 2 /\ <<x, y>>[1] = x /\ <<x, y>>[2] = y
  OBVIOUS
<1>2. \A i \in 1 .. 2 : <<x, y>>[i] = "ok"
  BY <1>1, FirstIsOk
<1> QED
  BY <1>1, <1>2

LEMMA OperatorIsLive ==
    ASSUME NEW f, NEW ins, IsVec(ins.args), NEW live, NEW typed, Operator(f, ins, live, typed) = "ok"
    PROVE  Range(ins.args) \subseteq live
<1>1. Operands(f, ins.args, live) = "ok"
  BY FirstOfTwoIsOk DEF Operator
<1> QED
  BY <1>1, OperandsAreLive

LEMMA CallIsLive ==
    ASSUME ProgramOK, NEW f, NEW ins, IsVec(ins.args), NEW live, check_call(f, ins, live) = "ok"
    PROVE  Range(ins.args) \subseteq live
<1> DEFINE params == Funcs[ins.callee].params
           last == Require(Funcs[ins.callee].ret = ins.ty, "CALL_SIGNATURE_MISMATCH")
           each == [i \in DOMAIN params |->
                      IF operand(f, ins.args[i], live) # "ok"
                      THEN operand(f, ins.args[i], live)
                      ELSE Require(ArgTy(f, ins, i) = params[i].ty, "CALL_SIGNATURE_MISMATCH")]
           n == Len(params)
<1>1. ins.callee \in DOMAIN Funcs
  BY DEF check_call
<1>2. n \in Nat /\ DOMAIN params = 1 .. n
  BY <1>1, ProgramFacts DEF IsVec
<1>3. "CALL_SIGNATURE_MISMATCH" \in UseAnswers
  BY DEF UseAnswers, UseCodes
<1>4. last \in UseAnswers /\ each \in [1 .. n -> UseAnswers]
  <2>1. \A i \in DOMAIN params : each[i] \in UseAnswers
    BY <1>3, OperandAnswers, RequireAnswers
  <2> QED
    BY <1>2, <1>3, <2>1, RequireAnswers
<1>5. Len(ins.args) = n /\ First(each \o <<last>>) = "ok"
  BY <1>1 DEF check_call
<1>6. \A i \in 1 .. n : each[i] = IF operand(f, ins.args[i], live) # "ok"
                                  THEN operand(f, ins.args[i], live)
                                  ELSE Require(ArgTy(f, ins, i) = params[i].ty, "CALL_SIGNATURE_MISMATCH")
  BY <1>2
<1> HIDE DEF each, last, n, params
<1>7. each \in Seq(UseAnswers) /\ <<last>> \in Seq(UseAnswers) /\ Len(each) = n /\ Len(<<last>>) = 1
  BY <1>2, <1>4
<1>8. /\ each \o <<last>> \in Seq(UseAnswers) /\ Len(each \o <<last>>) = n + 1
      /\ \A i \in 1 .. n + 1 : (each \o <<last>>)[i] = IF i <= n THEN each[i] ELSE <<last>>[i - n]
  BY <1>7, ConcatProperties
<1> DEFINE s == each \o <<last>>
<1> HIDE DEF s
<1>9. DOMAIN s = 1 .. n + 1 /\ First(s) = "ok" /\ \A i \in 1 .. n : i \in DOMAIN s /\ s[i] = each[i]
  BY <1>2, <1>5, <1>8 DEF s
<1>10. \A i \in 1 .. n : each[i] = "ok"
  BY <1>2, <1>9, FirstIsOk
<1>11. \A i \in 1 .. n : operand(f, ins.args[i], live) = "ok"
  BY <1>6, <1>10
<1>12. DOMAIN ins.args = 1 .. n
  BY <1>5 DEF IsVec
<1> QED
  BY <1>11, <1>12, OperandIsLive DEF Range

\* What an accepted instruction names is live, but for the slot of a load or
\* a store.
LEMMA InstructionIsLive ==
    ASSUME ProgramOK, NEW f, NEW ins, IsVec(ins.args), NEW live, check_instruction(f, ins, live) = "ok",
           NEW v \in Operates(ins)
    PROVE  v \in live \/ (ins.op \in {"load", "store"} /\ v = ins.args[1])
<1>1. CASE ins.op = "store"
  <2>1. v = ins.args[1] \/ v = ins.args[2]
    BY <1>1 DEF Operates
  <2>2. operand(f, ins.args[2], live) = "ok"
    BY <1>1, FirstOfTwoIsOk DEF check_instruction
  <2> QED
    BY <1>1, <2>1, <2>2, OperandIsLive
<1>2. CASE ins.op \in {"alloc", "const"}
  BY <1>2 DEF Operates
<1>3. CASE ins.op = "load"
  BY <1>3 DEF Operates
<1>4. CASE ins.op \notin {"store", "alloc", "const", "load"}
  <2>1. v \in Range(ins.args)
    BY <1>4 DEF Operates
  <2>2. check_value(f, ins, live) = "ok" /\ IsScalar(ins.ty)
    BY <1>4 DEF check_instruction, check_value
  <2> DEFINE both == Operator(f, ins, live, /\ ArgTy(f, ins, 1) = "i64"
                                            /\ ArgTy(f, ins, 2) = "i64" /\ ins.ty = "i64")
             one == Operator(f, ins, live, ArgTy(f, ins, 1) = "i64" /\ ins.ty = "i64")
             same == Operator(f, ins, live, ArgTy(f, ins, 1) = ins.ty /\ ins.ty # "unit")
             equal == Operator(f, ins, live, ArgTy(f, ins, 1) = ArgTy(f, ins, 2) /\ ins.ty = "bool")
             ordered == Require(ArgTy(f, ins, 1) # "unit", "UNSUPPORTED_OPERATOR")
  <2>3. (both = "ok" \/ one = "ok" \/ same = "ok" \/ equal = "ok") => Range(ins.args) \subseteq live
    BY OperatorIsLive
  <2>4. check_value(f, ins, live) =
          IF ~IsScalar(ins.ty) THEN "UNSUPPORTED_TYPE" ELSE
          CASE ins.op = "alloc" -> "ok"
            [] ins.op = "const" -> Require(ins.const.kind = ins.ty, "UNVERIFIED_NIR")
            [] ins.op = "load" -> Require(SlotOf(f, ins.args[1], ins.ty), "UNVERIFIED_NIR")
            [] ins.op \in {"add", "sub", "mul", "and", "or", "xor"} -> both
            [] ins.op \in {"div", "rem", "shl", "shr"} -> "UNSUPPORTED_OPERATOR"
            [] ins.op = "neg" -> one
            [] ins.op = "not" -> same
            [] ins.op \in {"eq", "ne"} -> equal
            [] ins.op \in {"lt", "le", "gt", "ge"} -> (IF equal = "ok" THEN ordered ELSE equal)
            [] ins.op = "call" -> check_call(f, ins, live)
            [] OTHER -> "UNSUPPORTED_INSTRUCTION"
    BY DEF check_value
  <2>5. check_call(f, ins, live) = "ok" => Range(ins.args) \subseteq live
    BY CallIsLive
  <2> HIDE DEF both, one, same, equal, ordered
  <2>6. both = "ok" \/ one = "ok" \/ same = "ok" \/ equal = "ok" \/ check_call(f, ins, live) = "ok"
    BY <1>4, <2>2, <2>4
  <2> QED
    BY <2>1, <2>3, <2>5, <2>6
<1> QED
  BY <1>1, <1>2, <1>3, <1>4

LEMMA TerminatorIsLive ==
    ASSUME NEW f, NEW b, NEW live, check_terminator(f, b, live) = "ok"
    PROVE  LET term == Funcs[f].blocks[b].term IN
           /\ term.op = "cbr" \/ (term.op = "ret" /\ ~term.void) => term.value \in live
           /\ term.op \in {"br", "cbr"} => terminator_targets(f, b) \subseteq DOMAIN Funcs[f].blocks
<1> DEFINE term == Funcs[f].blocks[b].term
<1>1. term.op = "cbr" \/ (term.op = "ret" /\ ~term.void) => operand(f, term.value, live) = "ok"
  BY DEF check_terminator
<1>2. term.op \in {"br", "cbr"} =>
        Require(Range(term.targets) \subseteq DOMAIN Funcs[f].blocks, "UNVERIFIED_NIR") = "ok"
  BY DEF check_terminator
<1> QED
  BY <1>1, <1>2, OperandIsLive DEF Require, terminator_targets

\* A slot is there by what the verifier checked.
LEMMA SlotIsGuarded ==
    ASSUME ProgramOK, NEW f \in DOMAIN Funcs, NEW b \in DOMAIN Funcs[f].blocks,
           NEW i \in DOMAIN Instructions(f, b), Instructions(f, b)[i].op \in {"load", "store"}
    PROVE  UseOK(f, b, i, Instructions(f, b)[i].args[1])
<1> DEFINE fn == Funcs[f]
           v == Instructions(f, b)[i].args[1]
<1>1. SlotIsAllocated(fn, b, i, v)
  BY VerifiedAssumption DEF ProgramOK, Funcs, Instructions
<1> HIDE DEF v
<1>2. CASE \E j \in 1 .. i - 1 : fn.blocks[b].ins[j].op = "alloc" /\ fn.blocks[b].ins[j].result = v
  BY <1>2 DEF UseOK, DefinedBefore, Defines, Instructions, v
<1>3. CASE \E S \in SUBSET DOMAIN fn.blocks :
             /\ 0 \in S /\ b \notin S
             /\ \A c \in S : \/ AllocatesSlot(fn, c, v)
                            \/ Range(fn.blocks[c].term.targets) \cap DOMAIN fn.blocks \subseteq S
  <2>1. PICK S \in SUBSET DOMAIN fn.blocks :
             /\ 0 \in S /\ b \notin S
             /\ \A c \in S : \/ AllocatesSlot(fn, c, v)
                            \/ Range(fn.blocks[c].term.targets) \cap DOMAIN fn.blocks \subseteq S
    BY <1>3
  <2>2. \A c \in S : AllocatesSlot(fn, c, v) => DefinesIn(f, c, v)
    BY DEF AllocatesSlot, DefinesIn, Defines, Instructions
  <2>3. \A c \in S : \/ DefinesIn(f, c, v)
                     \/ terminator_targets(f, c) \cap DOMAIN Funcs[f].blocks \subseteq S
    BY <2>1, <2>2 DEF terminator_targets
  <2>4. Guarded(f, b, v)
    BY <2>1, <2>3 DEF Guarded
  <2> QED
    BY <2>4 DEF UseOK, v
<1> QED
  BY <1>1, <1>2, <1>3 DEF SlotIsAllocated

-----------------------------------------------------------------------------
(* The values the first analysis leaves to a block.                         *)

LEMMA IncomingDefines ==
    ASSUME NEW f, NEW b, NEW s, NEW v
    PROVE  v \in Incoming(f, b, s, defines_after) <=>
              /\ Predecessors(f, b) # {}
              /\ \A p \in Predecessors(f, b) : v \in s[p] \/ DefinesIn(f, p, v)
<1> DEFINE Out(p) == defines_after(f, p, s[p])
           out == {Out(p) : p \in Predecessors(f, b)}
<1>1. \A p : v \in Out(p) <=> v \in s[p] \/ DefinesIn(f, p, v)
  BY DEF defines_after, DefinesIn
<1>2. Incoming(f, b, s, defines_after) = {w \in UNION out : \A o \in out : w \in o}
  BY DEF Incoming
<1> HIDE DEF Out
<1>3. v \in Incoming(f, b, s, defines_after) <=>
        Predecessors(f, b) # {} /\ \A p \in Predecessors(f, b) : v \in Out(p)
  BY <1>2
<1> QED
  BY <1>1, <1>3

Starts(f, s) == DOMAIN s = reachable_blocks(f) /\ (0 \in reachable_blocks(f) => s[0] = Params(f))
Carried(f, s, visited) ==
    \A b \in visited : b # 0 => s[b] = Incoming(f, b, s, defines_after)

\* Once nothing changes, a value in a block's set is defined on every path:
\* the blocks without it hold bb0 and follow the edges.
LEMMA CarriedIsGuarded ==
    ASSUME ProgramOK, NEW f \in DOMAIN Funcs, NEW s, Starts(f, s), Carried(f, s, reachable_blocks(f)),
           NEW b \in reachable_blocks(f), NEW v, v \in s[b], v \notin Params(f)
    PROVE  Guarded(f, b, v)
<1> DEFINE S == {c \in reachable_blocks(f) : v \notin s[c]}
<1>1. S \in SUBSET DOMAIN Funcs[f].blocks
  BY DEF reachable_blocks
<1>2. 0 \in S
  BY ReachedIsKeyed, ReachableFollows DEF Starts
<1>3. ASSUME NEW c \in S, ~DefinesIn(f, c, v), NEW d \in terminator_targets(f, c) \cap DOMAIN Funcs[f].blocks
      PROVE  d \in S
  <2>1. d \in reachable_blocks(f)
    BY ReachableFollows
  <2>2. CASE d = 0
    BY <1>2, <2>2
  <2>3. CASE d # 0
    <3>1. c \in Predecessors(f, d) /\ v \notin s[c]
      BY DEF Predecessors
    <3>2. v \notin Incoming(f, d, s, defines_after)
      BY <1>3, <3>1, IncomingDefines
    <3>3. s[d] = Incoming(f, d, s, defines_after)
      BY <2>1, <2>3 DEF Carried
    <3> QED
      BY <2>1, <3>2, <3>3
  <2> QED
    BY <2>2, <2>3
<1>4. b \notin S
  OBVIOUS
<1>5. \A c \in S : DefinesIn(f, c, v) \/ terminator_targets(f, c) \cap DOMAIN Funcs[f].blocks \subseteq S
  BY <1>3
<1> QED
  BY <1>1, <1>2, <1>4, <1>5 DEF Guarded

AvailOf(f) ==
    /\ FlowShape /\ flow.pending \in SUBSET reachable_blocks(f) /\ flow.changed \in BOOLEAN
    /\ Starts(f, flow.available)
    /\ flow.phase = "available" /\ ~flow.changed => Carried(f, flow.available, reachable_blocks(f) \ flow.pending)
    /\ flow.phase \in {"stored", "settled"} => Carried(f, flow.available, reachable_blocks(f))

\* What is live where a value is used.
LEMMA LiveIsOK ==
    ASSUME ProgramOK, NEW f \in DOMAIN Funcs, AvailOf(f), flow.phase = "settled",
           NEW b \in reachable_blocks(f), NEW i, NEW v \in LiveAt(f, b, i)
    PROVE  UseOK(f, b, i, v)
<1>1. v \in flow.available[b] \/ v \in Params(f) \/ DefinedBefore(f, b, i, v)
  BY DEF LiveAt, DefinedBefore
<1>2. Starts(f, flow.available) /\ Carried(f, flow.available, reachable_blocks(f))
  BY DEF AvailOf
<1> QED
  BY <1>1, <1>2, CarriedIsGuarded DEF UseOK

LEMMA BodyAccepted ==
    ASSUME ProgramOK, NEW f \in DOMAIN Funcs, AvailOf(f), flow.phase = "settled", check_body(f) = "ok",
           blocks_by_id(f)
    PROVE  Accepted(f)
<1> SUFFICES ASSUME NEW b \in reachable_blocks(f)
             PROVE  /\ \A i \in DOMAIN Uses(f, b) : \A v \in Uses(f, b)[i] : UseOK(f, b, i, v)
                    /\ Funcs[f].blocks[b].term.op \in {"br", "cbr"} =>
                          terminator_targets(f, b) \subseteq DOMAIN Funcs[f].blocks
  BY DEF Accepted
<1> DEFINE n == Len(Instructions(f, b))
           term == Funcs[f].blocks[b].term
<1>1. check_block(f, b) = "ok"
  BY AcceptedBlocks
<1>2. /\ \A k \in DOMAIN Instructions(f, b) :
            check_instruction(f, Instructions(f, b)[k], LiveAt(f, b, k)) = "ok"
      /\ check_terminator(f, b, LiveAt(f, b, n + 1)) = "ok"
  BY <1>1, AcceptedBlock
<1>3. /\ n \in Nat /\ DOMAIN Instructions(f, b) = 1 .. n /\ b \in DOMAIN Funcs[f].blocks
      /\ \A k \in 1 .. n : IsVec(Instructions(f, b)[k].args)
  BY ProgramFacts, BlocksAreDeclared DEF IsVec
<1>4. /\ DOMAIN Uses(f, b) = 1 .. n + 1
      /\ \A i \in 1 .. n : Uses(f, b)[i] = Operates(Instructions(f, b)[i])
      /\ Uses(f, b)[n + 1] = IF term.op = "cbr" \/ (term.op = "ret" /\ ~term.void) THEN {term.value} ELSE {}
  BY <1>3 DEF Uses
<1>5. /\ term.op = "cbr" \/ (term.op = "ret" /\ ~term.void) => term.value \in LiveAt(f, b, n + 1)
      /\ term.op \in {"br", "cbr"} => terminator_targets(f, b) \subseteq DOMAIN Funcs[f].blocks
  BY <1>2, TerminatorIsLive
<1> HIDE DEF n, term
<1>6. ASSUME NEW i \in 1 .. n, NEW v \in Uses(f, b)[i]
      PROVE  UseOK(f, b, i, v)
  <2> DEFINE ins == Instructions(f, b)[i]
  <2>1. v \in Operates(ins) /\ check_instruction(f, ins, LiveAt(f, b, i)) = "ok" /\ IsVec(ins.args)
    BY <1>2, <1>3, <1>4, <1>6
  <2>2. v \in LiveAt(f, b, i) \/ (ins.op \in {"load", "store"} /\ v = ins.args[1])
    <3> HIDE DEF ins
    <3> QED
      BY <2>1, InstructionIsLive
  <2>3. CASE v \in LiveAt(f, b, i)
    BY <2>3, LiveIsOK
  <2>4. CASE ins.op \in {"load", "store"} /\ v = ins.args[1]
    BY <1>3, <2>4, SlotIsGuarded
  <2> QED
    BY <2>2, <2>3, <2>4
<1>7. ASSUME NEW v \in Uses(f, b)[n + 1]
      PROVE  UseOK(f, b, n + 1, v)
  <2>1. v \in LiveAt(f, b, n + 1)
    BY <1>4, <1>5, <1>7
  <2> QED
    BY <2>1, LiveIsOK
<1>8. \A i \in 1 .. n + 1 : i \in 1 .. n \/ i = n + 1
  BY <1>3
<1>9. \A i \in 1 .. n + 1 : \A v \in Uses(f, b)[i] : UseOK(f, b, i, v)
  BY <1>6, <1>7, <1>8
<1> QED
  BY <1>4, <1>5, <1>9 DEF term

\* Acceptance depends on the program alone.
LEMMA AcceptedIsKept ==
    ASSUME program' = program, NEW f
    PROVE  Accepted(f)' <=> Accepted(f)
<1>1. Funcs' = Funcs /\ reachable_blocks(f)' = reachable_blocks(f)
  BY BodyIsKept
<1>2. \A b : Instructions(f, b)' = Instructions(f, b)
  BY <1>1 DEF Instructions
<1>3. Params(f)' = Params(f)
  BY <1>1 DEF Params
<1>4. ASSUME NEW b, NEW v
      PROVE  Guarded(f, b, v)' <=> Guarded(f, b, v)
  <2>1. \A c : DefinesIn(f, c, v)' <=> DefinesIn(f, c, v)
    BY <1>2 DEF DefinesIn, Defines
  <2> QED
    BY <1>1, <2>1 DEF Guarded, terminator_targets
<1>5. \A b, i, v : UseOK(f, b, i, v)' <=> UseOK(f, b, i, v)
  BY <1>2, <1>3, <1>4 DEF UseOK, DefinedBefore, Defines
<1>6. ASSUME NEW b
      PROVE  Uses(f, b)' = Uses(f, b)
  BY <1>1 DEF Uses, Operates, Instructions
<1> QED
  BY <1>1, <1>5, <1>6, KeyedIsKept DEF Accepted, terminator_targets

LEMMA AvailIsKept ==
    ASSUME program' = program, NEW f, NEW g, flow' = g,
           \E p, a, s, q, c : g = [phase |-> p, available |-> a, stored |-> s, pending |-> q, changed |-> c],
           g.pending \in SUBSET reachable_blocks(f), g.changed \in BOOLEAN, Starts(f, g.available),
           g.phase = "available" /\ ~g.changed => Carried(f, g.available, reachable_blocks(f) \ g.pending),
           g.phase \in {"stored", "settled"} => Carried(f, g.available, reachable_blocks(f))
    PROVE  AvailOf(f)'
<1>1. Funcs' = Funcs /\ reachable_blocks(f)' = reachable_blocks(f)
  BY BodyIsKept
<1>2. Params(f)' = Params(f)
  BY <1>1 DEF Params
<1>3. Starts(f, flow.available)'
  BY <1>1, <1>2 DEF Starts
<1>4. ASSUME NEW b
      PROVE  Incoming(f, b, flow.available, defines_after)' = Incoming(f, b, g.available, defines_after)
  BY <1>1 DEF Incoming, Predecessors, terminator_targets, defines_after, Defines, Instructions
<1>5. (flow.phase = "available" /\ ~flow.changed =>
         Carried(f, flow.available, reachable_blocks(f) \ flow.pending))'
  BY <1>1, <1>4 DEF Carried
<1>6. (flow.phase \in {"stored", "settled"} => Carried(f, flow.available, reachable_blocks(f)))'
  BY <1>1, <1>4 DEF Carried
<1>7. FlowShape'
  BY DEF FlowShape
<1> QED
  BY <1>1, <1>3, <1>5, <1>6, <1>7 DEF AvailOf

LEMMA AvailStarts ==
    ASSUME program' = program, NEW f,
           flow' = [phase |-> "available",
                    available |-> Optimistic(f, Defined(f), Params(f)),
                    stored |-> Optimistic(f, alloc_slots(f), {}),
                    pending |-> reachable_blocks(f), changed |-> FALSE]
    PROVE  AvailOf(f)'
<1> DEFINE g == [phase |-> "available",
                 available |-> Optimistic(f, Defined(f), Params(f)),
                 stored |-> Optimistic(f, alloc_slots(f), {}),
                 pending |-> reachable_blocks(f), changed |-> FALSE]
<1>1. /\ \E p, a, s, q, c : g = [phase |-> p, available |-> a, stored |-> s, pending |-> q, changed |-> c]
      /\ g.pending = reachable_blocks(f) /\ g.changed = FALSE /\ g.phase = "available"
      /\ g.available = Optimistic(f, Defined(f), Params(f))
  OBVIOUS
<1> HIDE DEF g
<1>2. flow' = g
  BY DEF g
<1>3. Starts(f, g.available)
  BY <1>1 DEF Starts, Optimistic
<1>4. Carried(f, g.available, reachable_blocks(f) \ reachable_blocks(f))
  BY DEF Carried
<1> QED
  BY <1>1, <1>2, <1>3, <1>4, AvailIsKept

LEMMA AvailableCarries ==
    ASSUME ProgramOK, AvailableBlock, NEW f \in DOMAIN Funcs, f = Checking, AvailOf(f)
    PROVE  AvailOf(f)'
<1>1. PICK p, a, s, q, c :
        flow = [phase |-> p, available |-> a, stored |-> s, pending |-> q, changed |-> c]
  BY DEF AvailOf, FlowShape
<1> DEFINE b == Least(flow.pending)
           a2 == Narrowed(flow.available, defines_after)
           c2 == flow.changed \/ a2 # flow.available
           q2 == flow.pending \ {b}
           g == [phase |-> p, available |-> a2, stored |-> s, pending |-> q2, changed |-> c2]
<1>2. flow' = g /\ program' = program /\ p = "available" /\ flow.pending # {}
  BY <1>1 DEF AvailableBlock
<1>3. /\ q \in SUBSET reachable_blocks(f) /\ Starts(f, a) /\ flow.pending = q /\ flow.available = a
      /\ flow.changed = c /\ c \in BOOLEAN /\ (~c => Carried(f, a, reachable_blocks(f) \ q))
  BY <1>1, <1>2 DEF AvailOf
<1>4. b \in q /\ b \in reachable_blocks(f)
  <2>1. q \in SUBSET Nat
    BY <1>3, BlocksAreDeclared
  <2> QED
    BY <1>2, <1>3, <2>1, LeastId
<1>5. a2 = IF b = 0 THEN a ELSE [a EXCEPT ![b] = Incoming(f, b, a, defines_after)]
  BY <1>3 DEF Narrowed
<1> HIDE DEF b, a2
<1>6. Starts(f, a2)
  <2> DEFINE n == Incoming(f, b, a, defines_after)
  <2> HIDE DEF n
  <2>1. a2 = IF b = 0 THEN a ELSE [a EXCEPT ![b] = n]
    BY <1>5 DEF n
  <2> QED
    BY <1>3, <2>1 DEF Starts
<1>7. ~c2 => Carried(f, a2, reachable_blocks(f) \ q2)
  <2> SUFFICES ASSUME ~c2 PROVE Carried(f, a2, reachable_blocks(f) \ q2)
    OBVIOUS
  <2>1. a2 = a /\ ~c
    BY <1>3
  <2>2. b # 0 => a[b] = Incoming(f, b, a, defines_after)
    <3> DEFINE n == Incoming(f, b, a, defines_after)
    <3> HIDE DEF n
    <3>1. b # 0 => a = [a EXCEPT ![b] = n]
      BY <1>5, <2>1 DEF n
    <3>2. b \in DOMAIN a
      BY <1>3, <1>4 DEF Starts
    <3>3. b # 0 => a[b] = n
      BY <3>1, <3>2
    <3> QED
      BY <3>3 DEF n
  <2>3. Carried(f, a, reachable_blocks(f) \ q)
    BY <1>3, <2>1
  <2> QED
    BY <1>3, <2>1, <2>2, <2>3 DEF Carried
<1>8. /\ g.pending = q2 /\ g.changed = c2 /\ g.phase = "available" /\ g.available = a2
      /\ \E p3, a3, s3, q3, c3 :
            g = [phase |-> p3, available |-> a3, stored |-> s3, pending |-> q3, changed |-> c3]
  BY <1>2
<1>9. q2 \in SUBSET reachable_blocks(f) /\ c2 \in BOOLEAN
  BY <1>3
<1> HIDE DEF g, q2, c2
<1> QED
  BY <1>2, <1>6, <1>7, <1>8, <1>9, AvailIsKept

LEMMA StoredCarries ==
    ASSUME StoredBlock, NEW f, AvailOf(f)
    PROVE  AvailOf(f)'
<1>1. PICK p, a, s, q, c :
        flow = [phase |-> p, available |-> a, stored |-> s, pending |-> q, changed |-> c]
  BY DEF AvailOf, FlowShape
<1> DEFINE s2 == Narrowed(flow.stored, stores_after)
           c2 == flow.changed \/ s2 # flow.stored
           q2 == flow.pending \ {Least(flow.pending)}
           g == [phase |-> p, available |-> a, stored |-> s2, pending |-> q2, changed |-> c2]
<1>2. flow' = g /\ program' = program /\ p = "stored"
  BY <1>1 DEF StoredBlock
<1>3. q \in SUBSET reachable_blocks(f) /\ Starts(f, a) /\ flow.pending = q /\ Carried(f, a, reachable_blocks(f))
  BY <1>1, <1>2 DEF AvailOf
<1>4. /\ g.pending \in SUBSET reachable_blocks(f) /\ g.changed \in BOOLEAN /\ g.phase = "stored" /\ g.available = a
      /\ \E p3, a3, s3, q3, c3 :
            g = [phase |-> p3, available |-> a3, stored |-> s3, pending |-> q3, changed |-> c3]
  BY <1>2, <1>3
<1> HIDE DEF g
<1> QED
  BY <1>2, <1>3, <1>4, AvailIsKept

LEMMA TurnCarries ==
    ASSUME TurnEnds, NEW f, f = Checking, AvailOf(f)
    PROVE  AvailOf(f)'
<1>1. PICK p, a, s, q, c :
        flow = [phase |-> p, available |-> a, stored |-> s, pending |-> q, changed |-> c]
  BY DEF AvailOf, FlowShape
<1> DEFINE p2 == IF flow.changed THEN flow.phase ELSE IF flow.phase = "available" THEN "stored" ELSE "settled"
           g == [phase |-> p2, available |-> a, stored |-> s, pending |-> reachable_blocks(f), changed |-> FALSE]
<1>2. flow' = g /\ program' = program /\ p \in {"available", "stored"} /\ q = {}
  BY <1>1 DEF TurnEnds
<1>3. /\ Starts(f, a) /\ flow.changed = c /\ c \in BOOLEAN /\ flow.phase = p
      /\ (p = "available" /\ ~c => Carried(f, a, reachable_blocks(f) \ q))
      /\ (p = "stored" => Carried(f, a, reachable_blocks(f)))
  BY <1>1 DEF AvailOf
<1>4. /\ g.pending = reachable_blocks(f) /\ g.changed = FALSE /\ g.phase = p2 /\ g.available = a
      /\ \E p3, a3, s3, q3, c3 :
            g = [phase |-> p3, available |-> a3, stored |-> s3, pending |-> q3, changed |-> c3]
  OBVIOUS
<1>5. p2 \in {"stored", "settled"} => Carried(f, a, reachable_blocks(f))
  <2> SUFFICES ASSUME p2 \in {"stored", "settled"} PROVE Carried(f, a, reachable_blocks(f))
    OBVIOUS
  <2>1. p = "stored" \/ (p = "available" /\ ~c)
    BY <1>2, <1>3
  <2>2. reachable_blocks(f) \ q = reachable_blocks(f)
    BY <1>2
  <2> QED
    BY <1>3, <2>1, <2>2
<1>6. Carried(f, a, reachable_blocks(f) \ reachable_blocks(f))
  BY DEF Carried
<1> HIDE DEF g, p2
<1> QED
  BY <1>2, <1>3, <1>4, <1>5, <1>6, AvailIsKept

-----------------------------------------------------------------------------
(* The walk over the blocks of a function.  What guards a block is below it *)
(* on the work stack when it is entered, and so is finished after it.       *)

Visits(w) == {w.work[i].block : i \in DOMAIN w.work} \cup Range(w.post)

WalkShape(f, w) ==
    /\ \E o, k, v, p : w = [on |-> o, work |-> k, visited |-> v, post |-> p]
    /\ w.on = TRUE /\ w.work \in Seq([block : reachable_blocks(f), next : Nat]) /\ w.post \in Seq(reachable_blocks(f))
    /\ w.visited = Visits(w) /\ 0 \in w.visited

GuardsBelow(f, w) ==
    \A m \in DOMAIN w.work : \A v : Guarded(f, w.work[m].block, v) =>
        \E i \in 1 .. m - 1 : DefinesIn(f, w.work[i].block, v)

GuardsAfter(f, w) ==
    \A p \in DOMAIN w.post : \A v : Guarded(f, w.post[p], v) =>
        \/ \E q \in DOMAIN w.post : q > p /\ DefinesIn(f, w.post[q], v)
        \/ \E i \in DOMAIN w.work : DefinesIn(f, w.work[i].block, v)

Targets(f, b) == terminator_targets(f, b) \cap reachable_blocks(f)

TargetsVisited(f, w) ==
    /\ \A p \in DOMAIN w.post : Targets(f, w.post[p]) \subseteq w.visited
    /\ \A m \in DOMAIN w.work : \A i \in DOMAIN Successors(f, w.work[m].block) :
          i <= w.work[m].next => Successors(f, w.work[m].block)[i] \in w.visited

WalkInv(f, w) == WalkShape(f, w) /\ GuardsBelow(f, w) /\ GuardsAfter(f, w) /\ TargetsVisited(f, w)

LEMMA SuccessorFacts ==
    ASSUME ProgramOK, NEW f \in DOMAIN Funcs, NEW b
    PROVE  /\ DOMAIN Successors(f, b) \subseteq Nat \ {0} /\ Range(Successors(f, b)) = Targets(f, b)
           /\ \A i \in DOMAIN Successors(f, b) : Successors(f, b)[i] \in Targets(f, b)
<1>1. Targets(f, b) \in SUBSET Nat /\ IsFiniteSet(Targets(f, b))
  <2>1. Targets(f, b) \subseteq reachable_blocks(f)
    BY DEF Targets
  <2> QED
    BY <2>1, BlocksAreDeclared, FS_Subset
<1>2. Successors(f, b) = Ascending(Targets(f, b))
  BY DEF Successors, Targets
<1>3. Successors(f, b) \in Seq(Targets(f, b)) /\ Range(Successors(f, b)) = Targets(f, b)
  BY <1>1, <1>2, AscendingFacts
<1> QED
  BY <1>3

\* All but the last item of a stack.
LEMMA FrontFacts ==
    ASSUME NEW T, NEW s \in Seq(T), s # <<>>
    PROVE  /\ Len(s) \in Nat \ {0} /\ DOMAIN s = 1 .. Len(s) /\ Last(s) = s[Len(s)] /\ Last(s) \in T
           /\ Front(s) \in Seq(T) /\ Len(Front(s)) = Len(s) - 1 /\ DOMAIN Front(s) = 1 .. Len(s) - 1
           /\ \A i \in 1 .. Len(s) - 1 : Front(s)[i] = s[i]
<1>1. Len(s) \in Nat \ {0} /\ DOMAIN s = 1 .. Len(s) /\ \A i \in 1 .. Len(s) : s[i] \in T
  OBVIOUS
<1>2. Last(s) = s[Len(s)] /\ Last(s) \in T
  BY <1>1 DEF Last
<1> DEFINE t == Front(s)
<1>3. t \in Seq(T) /\ Len(t) = Len(s) - 1 /\ \A i \in 1 .. Len(s) - 1 : t[i] = s[i]
  BY <1>1 DEF Front
<1> HIDE DEF t
<1>4. DOMAIN t = 1 .. Len(s) - 1
  BY <1>3
<1> QED
  BY <1>1, <1>2, <1>3, <1>4 DEF t

\* A value that guards the target of an edge is defined in its source, or
\* guards its source.
LEMMA GuardsAlongEdge ==
    ASSUME NEW f, NEW b, NEW t \in Targets(f, b), NEW v, Guarded(f, t, v)
    PROVE  DefinesIn(f, b, v) \/ Guarded(f, b, v)
<1>1. t \in terminator_targets(f, b) \cap DOMAIN Funcs[f].blocks
  BY DEF Targets, reachable_blocks
<1> QED
  BY <1>1 DEF Guarded

\* reverse_postorder begins with bb0.
LEMMA WalkBegins ==
    ASSUME ProgramOK, NEW f \in DOMAIN Funcs, blocks_by_id(f), NEW w,
           w = [on |-> TRUE, visited |-> {0} \cap reachable_blocks(f), post |-> <<>>,
                work |-> IF {0} \cap reachable_blocks(f) = {} THEN <<>> ELSE <<[block |-> 0, next |-> 0]>>]
    PROVE  WalkInv(f, w)
<1>1. 0 \in reachable_blocks(f)
  BY ReachableFollows
<1> DEFINE k == <<[block |-> 0, next |-> 0]>>
<1>2. w = [on |-> TRUE, work |-> k, visited |-> {0}, post |-> <<>>]
  <2>1. {0} \cap reachable_blocks(f) = {0}
    BY <1>1
  <2> QED
    BY <2>1
<1>3. /\ k \in Seq([block : reachable_blocks(f), next : Nat]) /\ DOMAIN k = {1}
      /\ k[1].block = 0 /\ k[1].next = 0
  <2>1. [block |-> 0, next |-> 0] \in [block : reachable_blocks(f), next : Nat]
    BY <1>1
  <2> QED
    BY <2>1
<1> HIDE DEF k
<1>4. w.on = TRUE /\ w.work = k /\ w.visited = {0} /\ w.post = <<>>
  BY <1>2
<1>5. <<>> \in Seq(reachable_blocks(f)) /\ DOMAIN <<>> = {} /\ Range(<<>>) = {}
  BY DEF Range
<1>6. Visits(w) = {0}
  BY <1>3, <1>4, <1>5 DEF Visits
<1>7. WalkShape(f, w)
  BY <1>2, <1>3, <1>4, <1>5, <1>6 DEF WalkShape
<1>8. \A v : ~Guarded(f, 0, v)
  BY DEF Guarded
<1>9. GuardsBelow(f, w) /\ GuardsAfter(f, w)
  BY <1>3, <1>4, <1>5, <1>8 DEF GuardsBelow, GuardsAfter
<1>10. \A i \in DOMAIN Successors(f, 0) : ~(i <= 0)
  BY SuccessorFacts
<1>11. TargetsVisited(f, w)
  BY <1>3, <1>4, <1>5, <1>10 DEF TargetsVisited
<1> QED
  BY <1>7, <1>9, <1>11 DEF WalkInv

\* It enters a successor the walk has not visited.
LEMMA WalkEnters ==
    ASSUME ProgramOK, NEW f \in DOMAIN Funcs, NEW w, WalkInv(f, w), w.work # <<>>,
           NEW b, NEW x, b = Last(w.work).block, x = Last(w.work).next,
           NEW u \in DOMAIN Successors(f, b), NEW t, t = Successors(f, b)[u],
           \A i \in DOMAIN Successors(f, b) : i > x /\ i < u => Successors(f, b)[i] \in w.visited,
           NEW w2,
           w2 = [w EXCEPT !.visited = @ \cup {t},
                          !.work = Front(@) \o <<[block |-> b, next |-> u], [block |-> t, next |-> 0]>>]
    PROVE  WalkInv(f, w2)
<1> DEFINE T == [block : reachable_blocks(f), next : Nat]
           n == Len(w.work)
           k == Front(w.work) \o <<[block |-> b, next |-> u], [block |-> t, next |-> 0]>>
           e == w.visited \cup {t}
<1>1. /\ w.on = TRUE /\ w.work \in Seq(T) /\ w.post \in Seq(reachable_blocks(f))
      /\ w.visited = Visits(w) /\ 0 \in w.visited
  BY DEF WalkInv, WalkShape
<1>2. w2 = [on |-> TRUE, work |-> k, visited |-> e, post |-> w.post]
  <2>1. PICK o, k1, v1, p1 : w = [on |-> o, work |-> k1, visited |-> v1, post |-> p1]
    BY DEF WalkInv, WalkShape
  <2> QED
    BY <1>1, <2>1
<1>3. /\ n \in Nat \ {0} /\ Front(w.work) \in Seq(T) /\ Len(Front(w.work)) = n - 1
      /\ Last(w.work) = w.work[n] /\ DOMAIN w.work = 1 .. n
      /\ \A i \in 1 .. n - 1 : Front(w.work)[i] = w.work[i]
  BY <1>1, FrontFacts
<1>4. /\ u \in Nat \ {0} /\ t \in Targets(f, b) /\ t \in reachable_blocks(f)
      /\ b \in reachable_blocks(f) /\ x \in Nat
      /\ w.work[n].block = b /\ w.work[n].next = x
  <2>1. Last(w.work) \in T
    BY <1>1, FrontFacts
  <2>2. w.work[n].block = b /\ w.work[n].next = x /\ b \in reachable_blocks(f) /\ x \in Nat
    BY <1>3, <2>1
  <2> QED
    BY <2>2, SuccessorFacts DEF Targets
<1>5. /\ k \in Seq(T) /\ DOMAIN k = 1 .. n + 1
      /\ k[n].block = b /\ k[n].next = u /\ k[n + 1].block = t /\ k[n + 1].next = 0
      /\ \A i \in 1 .. n - 1 : k[i] = w.work[i]
  <2> DEFINE c == [block |-> b, next |-> u]
             d == [block |-> t, next |-> 0]
             s == Front(w.work)
  <2>1. c \in T /\ d \in T
    BY <1>4
  <2>2. c.block = b /\ c.next = u /\ d.block = t /\ d.next = 0
    OBVIOUS
  <2>3. k = s \o <<c, d>>
    OBVIOUS
  <2> HIDE DEF T, n, c, d, s, k
  <2>4. s \in Seq(T) /\ Len(s) = n - 1 /\ n \in Nat \ {0}
    BY <1>3 DEF s
  <2>5. /\ s \o <<c, d>> \in Seq(T) /\ DOMAIN (s \o <<c, d>>) = 1 .. n + 1
        /\ (s \o <<c, d>>)[n] = c /\ (s \o <<c, d>>)[n + 1] = d
        /\ \A i \in 1 .. n - 1 : (s \o <<c, d>>)[i] = s[i]
    BY <2>1, <2>4, TwoOnTop
  <2>6. \A i \in 1 .. n - 1 : s[i] = w.work[i]
    BY <1>3 DEF s
  <2> QED
    BY <2>2, <2>3, <2>5, <2>6
<1> HIDE DEF k, e, n, T
<1>6. \A i \in 1 .. n : k[i].block = w.work[i].block
  <2>1. \A i \in 1 .. n : i \in 1 .. n - 1 \/ i = n
    BY <1>3
  <2> QED
    BY <1>4, <1>5, <2>1
<1>7. w2.on = TRUE /\ w2.work = k /\ w2.visited = e /\ w2.post = w.post
  <2>1. \A a1, b1, c1, d1 : LET z == [on |-> a1, work |-> b1, visited |-> c1, post |-> d1]
                           IN  z.on = a1 /\ z.work = b1 /\ z.visited = c1 /\ z.post = d1
    OBVIOUS
  <2> QED
    BY ONLY <1>2, <2>1
<1>8. 1 .. n + 1 = (1 .. n) \cup {n + 1}
  BY <1>3
<1>9. Visits(w2) = e
  <2>1. {k[i].block : i \in DOMAIN k} = {w.work[i].block : i \in DOMAIN w.work} \cup {t}
    <3>1. {k[i].block : i \in 1 .. n + 1} = {k[i].block : i \in 1 .. n} \cup {k[n + 1].block}
      BY <1>8
    <3>2. {k[i].block : i \in 1 .. n} = {w.work[i].block : i \in 1 .. n}
      BY <1>6
    <3> QED
      BY <1>3, <1>5, <3>1, <3>2
  <2>2. Visits(w2) = {k[i].block : i \in DOMAIN k} \cup Range(w.post)
    BY <1>7 DEF Visits
  <2>3. w.visited = {w.work[i].block : i \in DOMAIN w.work} \cup Range(w.post)
    BY <1>1 DEF Visits
  <2> QED
    BY <2>1, <2>2, <2>3 DEF e
<1>10. WalkShape(f, w2)
  BY <1>1, <1>2, <1>5, <1>7, <1>9 DEF WalkShape, T, e
<1>11. ASSUME NEW m \in DOMAIN w2.work, NEW v, Guarded(f, w2.work[m].block, v)
       PROVE  \E i \in 1 .. m - 1 : DefinesIn(f, w2.work[i].block, v)
  <2>1. CASE m \in 1 .. n
    <3>1. Guarded(f, w.work[m].block, v)
      BY <1>6, <1>7, <1>11, <2>1
    <3>2. PICK i \in 1 .. m - 1 : DefinesIn(f, w.work[i].block, v)
      BY <1>3, <2>1, <3>1 DEF WalkInv, GuardsBelow
    <3>3. i \in 1 .. n
      BY <1>3, <2>1
    <3> QED
      BY <1>6, <1>7, <3>2, <3>3
  <2>2. CASE m = n + 1
    <3>1. DefinesIn(f, b, v) \/ Guarded(f, b, v)
      BY <1>4, <1>5, <1>7, <1>11, <2>2, GuardsAlongEdge
    <3>2. n \in 1 .. m - 1 /\ n \in 1 .. n
      BY <1>3, <2>2
    <3>3. CASE DefinesIn(f, b, v)
      BY <1>5, <1>7, <3>2, <3>3
    <3>4. CASE Guarded(f, b, v)
      <4>1. PICK i \in 1 .. n - 1 : DefinesIn(f, w.work[i].block, v)
        BY <1>3, <1>4, <3>2, <3>4 DEF WalkInv, GuardsBelow
      <4>2. i \in 1 .. m - 1 /\ i \in 1 .. n
        BY <1>3, <2>2
      <4> QED
        BY <1>6, <1>7, <4>1, <4>2
    <3> QED
      BY <3>1, <3>3, <3>4
  <2> QED
    BY <1>5, <1>7, <1>8, <2>1, <2>2
<1>12. ASSUME NEW p \in DOMAIN w2.post, NEW v, Guarded(f, w2.post[p], v)
       PROVE  \/ \E q \in DOMAIN w2.post : q > p /\ DefinesIn(f, w2.post[q], v)
              \/ \E i \in DOMAIN w2.work : DefinesIn(f, w2.work[i].block, v)
  <2>1. \/ \E q \in DOMAIN w.post : q > p /\ DefinesIn(f, w.post[q], v)
        \/ \E i \in DOMAIN w.work : DefinesIn(f, w.work[i].block, v)
    BY <1>7, <1>12 DEF WalkInv, GuardsAfter
  <2> QED
    BY <1>3, <1>5, <1>6, <1>7, <1>8, <2>1
<1>13. ASSUME NEW m \in DOMAIN w2.work, NEW i \in DOMAIN Successors(f, w2.work[m].block), i <= w2.work[m].next
       PROVE  Successors(f, w2.work[m].block)[i] \in w2.visited
  <2>1. CASE m \in 1 .. n - 1
    <3>1. k[m] = w.work[m] /\ m \in DOMAIN w.work
      BY <1>3, <1>5, <2>1
    <3>2. Successors(f, w.work[m].block)[i] \in w.visited
      BY <1>7, <1>13, <3>1 DEF WalkInv, TargetsVisited
    <3> QED
      BY <1>7, <3>1, <3>2 DEF e
  <2>2. CASE m = n
    <3>1. i \in DOMAIN Successors(f, b) /\ i <= u
      BY <1>5, <1>7, <1>13, <2>2
    <3>2. i \in Nat
      BY <3>1, SuccessorFacts
    <3>3. i <= x \/ (i > x /\ i < u) \/ i = u
      BY <1>4, <3>1, <3>2
    <3>4. i <= x => Successors(f, b)[i] \in w.visited
      <4>1. n \in DOMAIN w.work
        BY <1>3
      <4>2. \A j \in DOMAIN Successors(f, w.work[n].block) :
               j <= w.work[n].next => Successors(f, w.work[n].block)[j] \in w.visited
        BY <4>1 DEF WalkInv, TargetsVisited
      <4> QED
        BY <1>4, <3>1, <4>2
    <3> QED
      BY <1>5, <1>7, <2>2, <3>1, <3>3, <3>4 DEF e
  <2>3. CASE m = n + 1
    BY <1>5, <1>7, <1>13, <2>3, SuccessorFacts
  <2>4. m \in 1 .. n - 1 \/ m = n \/ m = n + 1
    <3>1. m \in 1 .. n + 1
      BY <1>5, <1>7
    <3> QED
      BY <1>3, <3>1
  <2> QED
    BY <2>1, <2>2, <2>3, <2>4
<1>14. \A p \in DOMAIN w2.post : Targets(f, w2.post[p]) \subseteq w2.visited
  BY <1>7 DEF WalkInv, TargetsVisited, e
<1> QED
  BY <1>10, <1>11, <1>12, <1>13, <1>14 DEF WalkInv, GuardsBelow, GuardsAfter, TargetsVisited

\* It finishes a block whose successors are all visited.
LEMMA WalkFinishes ==
    ASSUME ProgramOK, NEW f \in DOMAIN Funcs, NEW w, WalkInv(f, w), w.work # <<>>,
           NEW b, NEW x, b = Last(w.work).block, x = Last(w.work).next,
           \A i \in DOMAIN Successors(f, b) : i > x => Successors(f, b)[i] \in w.visited,
           NEW w2, w2 = [w EXCEPT !.work = Front(@), !.post = Append(@, b)]
    PROVE  WalkInv(f, w2)
<1> DEFINE T == [block : reachable_blocks(f), next : Nat]
           n == Len(w.work)
           k == Front(w.work)
           l == Len(w.post)
           q == Append(w.post, b)
<1>1. /\ w.on = TRUE /\ w.work \in Seq(T) /\ w.post \in Seq(reachable_blocks(f))
      /\ w.visited = Visits(w) /\ 0 \in w.visited
  BY DEF WalkInv, WalkShape
<1>2. w2 = [on |-> TRUE, work |-> k, visited |-> w.visited, post |-> q]
  <2>1. PICK o, k1, v1, p1 : w = [on |-> o, work |-> k1, visited |-> v1, post |-> p1]
    BY DEF WalkInv, WalkShape
  <2> QED
    BY <1>1, <2>1
<1>3. /\ n \in Nat \ {0} /\ k \in Seq(T) /\ DOMAIN k = 1 .. n - 1
      /\ Last(w.work) = w.work[n] /\ Last(w.work) \in T /\ DOMAIN w.work = 1 .. n
      /\ \A i \in 1 .. n - 1 : k[i] = w.work[i]
  BY <1>1, FrontFacts
<1>4. w.work[n].block = b /\ w.work[n].next = x /\ b \in reachable_blocks(f) /\ x \in Nat
  BY <1>3
<1>5. /\ q \in Seq(reachable_blocks(f)) /\ DOMAIN q = 1 .. l + 1 /\ q[l + 1] = b
      /\ (\A i \in 1 .. l : q[i] = w.post[i]) /\ Range(q) = Range(w.post) \cup {b}
  BY <1>1, <1>4, RangeOfAppend
<1>6. l \in Nat /\ DOMAIN w.post = 1 .. l
  BY <1>1
<1> HIDE DEF k, n, T, l, q
<1>7. w2.on = TRUE /\ w2.work = k /\ w2.visited = w.visited /\ w2.post = q
  <2>1. \A a1, b1, c1, d1 : LET z == [on |-> a1, work |-> b1, visited |-> c1, post |-> d1]
                           IN  z.on = a1 /\ z.work = b1 /\ z.visited = c1 /\ z.post = d1
    OBVIOUS
  <2> QED
    BY ONLY <1>2, <2>1
<1>8. 1 .. n = (1 .. n - 1) \cup {n} /\ 1 .. l + 1 = (1 .. l) \cup {l + 1}
  BY <1>3, <1>6
<1>9. Visits(w2) = w.visited
  <2>1. {w.work[i].block : i \in DOMAIN w.work} = {k[i].block : i \in DOMAIN k} \cup {b}
    <3>1. {w.work[i].block : i \in 1 .. n} = {w.work[i].block : i \in 1 .. n - 1} \cup {w.work[n].block}
      BY <1>8
    <3>2. {k[i].block : i \in 1 .. n - 1} = {w.work[i].block : i \in 1 .. n - 1}
      BY <1>3
    <3> QED
      BY <1>3, <1>4, <3>1, <3>2
  <2>2. Visits(w2) = {k[i].block : i \in DOMAIN k} \cup Range(q)
    BY <1>7 DEF Visits
  <2>3. w.visited = {w.work[i].block : i \in DOMAIN w.work} \cup Range(w.post)
    BY <1>1 DEF Visits
  <2> QED
    BY <1>5, <2>1, <2>2, <2>3
<1>10. WalkShape(f, w2)
  BY <1>1, <1>2, <1>3, <1>5, <1>7, <1>9 DEF WalkShape, T
<1>11. ASSUME NEW m \in DOMAIN w2.work, NEW v, Guarded(f, w2.work[m].block, v)
       PROVE  \E i \in 1 .. m - 1 : DefinesIn(f, w2.work[i].block, v)
  <2>1. m \in 1 .. n - 1 /\ m \in DOMAIN w.work /\ Guarded(f, w.work[m].block, v)
    BY <1>3, <1>7, <1>8, <1>11
  <2>2. PICK i \in 1 .. m - 1 : DefinesIn(f, w.work[i].block, v)
    BY <2>1 DEF WalkInv, GuardsBelow
  <2>3. i \in 1 .. n - 1
    BY <1>3, <2>1
  <2> QED
    BY <1>3, <1>7, <2>2, <2>3
<1>12. ASSUME NEW v, NEW i \in DOMAIN w.work, DefinesIn(f, w.work[i].block, v)
       PROVE  \/ DefinesIn(f, q[l + 1], v)
              \/ \E j \in DOMAIN w2.work : DefinesIn(f, w2.work[j].block, v)
  <2>1. CASE i = n
    BY <1>4, <1>5, <1>12, <2>1
  <2>2. CASE i \in 1 .. n - 1
    <3>1. i \in DOMAIN w2.work /\ w2.work[i] = w.work[i]
      BY <1>3, <1>7, <2>2
    <3> QED
      BY <1>12, <3>1
  <2>3. i = n \/ i \in 1 .. n - 1
    BY <1>3, <1>8
  <2> QED
    BY <2>1, <2>2, <2>3
<1>13. ASSUME NEW p \in DOMAIN w2.post, NEW v, Guarded(f, w2.post[p], v)
       PROVE  \/ \E j \in DOMAIN w2.post : j > p /\ DefinesIn(f, w2.post[j], v)
              \/ \E i \in DOMAIN w2.work : DefinesIn(f, w2.work[i].block, v)
  <2>1. CASE p \in 1 .. l
    <3>1. Guarded(f, w.post[p], v) /\ l + 1 > p /\ l + 1 \in DOMAIN w2.post
      BY <1>5, <1>6, <1>7, <1>13, <2>1
    <3>2. \/ \E j \in DOMAIN w.post : j > p /\ DefinesIn(f, w.post[j], v)
          \/ \E i \in DOMAIN w.work : DefinesIn(f, w.work[i].block, v)
      BY <1>6, <2>1, <3>1 DEF WalkInv, GuardsAfter
    <3>3. CASE \E j \in DOMAIN w.post : j > p /\ DefinesIn(f, w.post[j], v)
      BY <1>5, <1>6, <1>7, <1>8, <3>3
    <3>4. CASE \E i \in DOMAIN w.work : DefinesIn(f, w.work[i].block, v)
      BY <1>7, <1>12, <3>1, <3>4
    <3> QED
      BY <3>2, <3>3, <3>4
  <2>2. CASE p = l + 1
    <3>1. Guarded(f, b, v)
      BY <1>5, <1>7, <1>13, <2>2
    <3>2. n \in DOMAIN w.work
      BY <1>3
    <3>3. PICK i \in 1 .. n - 1 : DefinesIn(f, w.work[i].block, v)
      BY <1>4, <3>1, <3>2 DEF WalkInv, GuardsBelow
    <3> QED
      BY <1>3, <1>7, <3>3
  <2> QED
    BY <1>5, <1>7, <1>8, <2>1, <2>2
<1>14. ASSUME NEW m \in DOMAIN w2.work, NEW i \in DOMAIN Successors(f, w2.work[m].block), i <= w2.work[m].next
       PROVE  Successors(f, w2.work[m].block)[i] \in w2.visited
  <2>1. w2.work[m] = w.work[m] /\ m \in DOMAIN w.work
    BY <1>3, <1>7, <1>8
  <2> QED
    BY <1>7, <1>14, <2>1 DEF WalkInv, TargetsVisited
<1>15. Targets(f, b) \subseteq w.visited
  <2>1. ASSUME NEW i \in DOMAIN Successors(f, b)
        PROVE  Successors(f, b)[i] \in w.visited
    <3>1. i \in Nat
      BY SuccessorFacts
    <3>2. i <= x \/ i > x
      BY <1>4, <3>1
    <3>3. n \in DOMAIN w.work
      BY <1>3
    <3>4. \A j \in DOMAIN Successors(f, w.work[n].block) :
             j <= w.work[n].next => Successors(f, w.work[n].block)[j] \in w.visited
      BY <3>3 DEF WalkInv, TargetsVisited
    <3> QED
      BY <1>4, <3>2, <3>4
  <2>2. Range(Successors(f, b)) = Targets(f, b)
    BY SuccessorFacts
  <2> QED
    BY <2>1, <2>2 DEF Range
<1>16. \A p \in DOMAIN w2.post : Targets(f, w2.post[p]) \subseteq w2.visited
  <2>1. \A p \in 1 .. l : Targets(f, w.post[p]) \subseteq w.visited
    BY <1>6 DEF WalkInv, TargetsVisited
  <2> QED
    BY <1>5, <1>7, <1>8, <1>15, <2>1
<1> QED
  BY <1>10, <1>11, <1>13, <1>14, <1>16 DEF WalkInv, GuardsBelow, GuardsAfter, TargetsVisited

\* A value defined above its use in the same block.
LEMMA LoweredHere ==
    ASSUME NEW f, NEW order, NEW k, NEW i, NEW v, DefinedBefore(f, order[k], i, v)
    PROVE  v \in LoweredBefore(f, order, k, i)
<1> DEFINE U == UNION {defines_after(f, order[j], {}) : j \in 1 .. k - 1}
           J == {n \in 1 .. i - 1 : Defines(Instructions(f, order[k])[n])}
           R == {Instructions(f, order[k])[j].result : j \in J}
<1>1. LoweredBefore(f, order, k, i) = Params(f) \cup U \cup R
  BY Zenon DEF LoweredBefore
<1>2. v \in R
  BY DEF DefinedBefore
<1> HIDE DEF U, R
<1> QED
  BY <1>1, <1>2

\* When the work is done, every value has been lowered before the code that
\* uses it, and every block branched to is there.
LEMMA WalkLowers ==
    ASSUME ProgramOK, NEW f \in DOMAIN Funcs, NEW w, WalkInv(f, w), w.work = <<>>, Accepted(f)
    PROVE  BodyLowers(f, Reverse(w.post))
<1> DEFINE n == Len(w.post)
           order == Reverse(w.post)
<1>1. w.post \in Seq(reachable_blocks(f)) /\ w.visited = Visits(w) /\ 0 \in w.visited
  BY DEF WalkInv, WalkShape
<1>2. n \in Nat /\ DOMAIN w.post = 1 .. n /\ \A p \in 1 .. n : w.post[p] \in reachable_blocks(f)
  BY <1>1
<1>3. DOMAIN order = 1 .. n /\ \A k \in 1 .. n : order[k] = w.post[(n - k) + 1]
  BY DEF Reverse
<1> HIDE DEF n, order
<1>4. \A k \in 1 .. n : (n - k) + 1 \in 1 .. n
  BY <1>2
<1>5. ASSUME NEW p \in 1 .. n
      PROVE  (n - p) + 1 \in 1 .. n /\ order[(n - p) + 1] = w.post[p]
  <2>1. (n - p) + 1 \in 1 .. n /\ (n - ((n - p) + 1)) + 1 = p
    BY <1>2
  <2> QED
    BY <1>3, <2>1
<1>6. Range(order) = Range(w.post)
  <2>1. ASSUME NEW k \in 1 .. n
        PROVE  order[k] \in Range(w.post)
    BY <1>2, <1>3, <1>4 DEF Range
  <2>2. ASSUME NEW p \in 1 .. n
        PROVE  w.post[p] \in Range(order)
    BY <1>3, <1>5 DEF Range
  <2>3. Range(order) = {order[k] : k \in 1 .. n} /\ Range(w.post) = {w.post[p] : p \in 1 .. n}
    BY <1>2, <1>3 DEF Range
  <2> QED
    BY <2>1, <2>2, <2>3
<1>7. w.visited = Range(order)
  BY <1>1, <1>6 DEF Visits
<1>8. ASSUME NEW k \in DOMAIN order, NEW i \in DOMAIN Uses(f, order[k]), NEW v \in Uses(f, order[k])[i]
      PROVE  v \in LoweredBefore(f, order, k, i)
  <2>1. order[k] \in reachable_blocks(f) /\ k \in 1 .. n
    BY <1>2, <1>3, <1>4
  <2>2. UseOK(f, order[k], i, v)
    BY <2>1 DEF Accepted
  <2>3. CASE v \in Params(f)
    BY <2>3 DEF LoweredBefore
  <2>4. CASE DefinedBefore(f, order[k], i, v)
    BY <2>4, LoweredHere
  <2>5. CASE Guarded(f, order[k], v)
    <3> DEFINE p == (n - k) + 1
    <3>1. p \in 1 .. n /\ order[k] = w.post[p]
      BY <1>3, <1>4, <2>1
    <3>2. PICK q \in DOMAIN w.post : q > p /\ DefinesIn(f, w.post[q], v)
      BY <1>2, <2>5, <3>1 DEF WalkInv, GuardsAfter
    <3>3. (n - q) + 1 \in 1 .. k - 1 /\ q \in 1 .. n
      BY <1>2, <2>1, <3>2
    <3>4. DefinesIn(f, order[(n - q) + 1], v)
      BY <1>5, <3>2, <3>3
    <3>5. v \in defines_after(f, order[(n - q) + 1], {})
      BY <3>4 DEF DefinesIn, defines_after
    <3> QED
      BY <3>3, <3>5 DEF LoweredBefore
  <2> QED
    BY <2>2, <2>3, <2>4, <2>5 DEF UseOK
<1>9. ASSUME NEW k \in DOMAIN order, Funcs[f].blocks[order[k]].term.op \in {"br", "cbr"}
      PROVE  terminator_targets(f, order[k]) \subseteq Range(order)
  <2>1. order[k] \in reachable_blocks(f) /\ k \in 1 .. n
    BY <1>2, <1>3, <1>4
  <2>2. terminator_targets(f, order[k]) \subseteq DOMAIN Funcs[f].blocks
    BY <1>9, <2>1 DEF Accepted
  <2>3. terminator_targets(f, order[k]) = Targets(f, order[k])
    BY <2>1, <2>2, ReachableFollows DEF Targets
  <2>4. Targets(f, order[k]) \subseteq w.visited
    BY <1>2, <1>3, <1>4, <2>1 DEF WalkInv, TargetsVisited
  <2> QED
    BY <1>7, <2>3, <2>4
<1> QED
  BY <1>1, <1>7, <1>8, <1>9 DEF BodyLowers, order

-----------------------------------------------------------------------------
(* From the gate to the last body emitted.                                  *)

\* The walk depends on the program alone.
LEMMA WalkIsKept ==
    ASSUME program' = program, NEW f, WalkInv(f, postorder')
    PROVE  WalkInv(f, postorder)'
<1>1. Funcs' = Funcs /\ reachable_blocks(f)' = reachable_blocks(f)
  BY BodyIsKept
<1>2. \A c, v : DefinesIn(f, c, v)' <=> DefinesIn(f, c, v)
  BY <1>1 DEF DefinesIn, Defines, Instructions
<1>3. \A b, v : Guarded(f, b, v)' <=> Guarded(f, b, v)
  BY <1>1, <1>2 DEF Guarded, terminator_targets
<1>4. \A b : Targets(f, b)' = Targets(f, b)
  BY <1>1 DEF Targets, terminator_targets
<1>5. \A b : Successors(f, b)' = Successors(f, b)
  BY <1>1 DEF Successors, terminator_targets
<1>6. WalkShape(f, postorder)'
  BY <1>1 DEF WalkInv, WalkShape, Visits
<1>7. GuardsBelow(f, postorder)' /\ GuardsAfter(f, postorder)'
  BY <1>2, <1>3 DEF WalkInv, GuardsBelow, GuardsAfter
<1>8. TargetsVisited(f, postorder)'
  BY <1>4, <1>5 DEF WalkInv, TargetsVisited
<1> QED
  BY <1>6, <1>7, <1>8 DEF WalkInv

\* What holds of the functions decided so far: each was accepted, unless
\* something was reported, and what is reported stays.
PlanOK ==
    /\ stage = "walk" => \A f \in reached : blocks_by_id(f) \/ f \in Range(queue) \/ diagnostics # <<>>
    /\ stage = "bodies" => \A f \in unchecked : blocks_by_id(f)
    /\ stage = "bodies" /\ flow # NoFlow => \A f \in reached : f = Checking => AvailOf(f)
    /\ stage \in {"bodies", "cycles"} => \A f \in reached \ unchecked : Accepted(f) \/ diagnostics # <<>>
    /\ stage = "cycles" => unchecked = {}
    /\ stage = "planned" => \A f \in reached : Accepted(f)

EmitOK ==
    /\ stage # "codegen_failed"
    /\ stage \in Undecided => ~postorder.on
    /\ stage = "planned" => unemitted \in SUBSET reached
    /\ stage = "planned" /\ postorder.on => \A f \in reached : f = Emitting => WalkInv(f, postorder)

PlanInv == GateOK /\ PlanOK /\ EmitOK

LEMMA PlanInit ==
    Init => PlanInv
<1> SUFFICES ASSUME Init PROVE PlanInv
  OBVIOUS
<1>1. GateOK
  BY CyclesInit DEF CyclesInv
<1>2. stage = "walk" /\ postorder = NoWalk /\ reached = {Main} /\ Main \in Range(queue)
  BY DEF Init, GateInit, Range
<1> QED
  BY <1>1, <1>2 DEF PlanInv, PlanOK, EmitOK, NoWalk

\* One function's answer.
LEMMA SettlePlans ==
    ASSUME GateOK, PlanOK, stage = "bodies", unchecked # {}, UNCHANGED <<program, stage, reached>>,
           NEW answer, Settle(answer), answer = "ok" => Accepted(Checking)
    PROVE  PlanOK'
<1>1. unchecked \in SUBSET reached /\ reached \in SUBSET Nat /\ diagnostics \in Seq(Reports)
  BY ProgramFacts DEF GateOK, Undecided, ReachedIds
<1>2. unchecked' = unchecked \ {Checking} /\ flow' = NoFlow
  BY DEF Settle
<1>3. answer = "ok" => diagnostics' = diagnostics
  BY DEF Settle
<1>4. answer # "ok" => diagnostics' # <<>>
  BY <1>1 DEF Settle
<1>5. \A f \in reached \ unchecked' : Accepted(f) \/ diagnostics' # <<>>
  BY <1>2, <1>3, <1>4 DEF PlanOK
<1>6. \A f : Accepted(f)' <=> Accepted(f)
  BY AcceptedIsKept
<1> QED
  BY <1>2, <1>5, <1>6, KeyedIsKept DEF PlanOK

\* The signature refuses a function, or the analyses begin.
LEMMA ValidatePlans ==
    ASSUME GateOK, PlanOK, ValidateFunction
    PROVE  PlanOK'
<1>1. stage = "bodies" /\ unchecked # {} /\ UNCHANGED <<program, stage, reached>> /\ ProgramOK
  BY DEF ValidateFunction, GateOK
<1>2. \/ check_signature(Checking) # "ok" /\ Settle(check_signature(Checking))
      \/ Settle("UNVERIFIED_NIR")
      \/ /\ flow' = [phase |-> "available",
                     available |-> Optimistic(Checking, Defined(Checking), Params(Checking)),
                     stored |-> Optimistic(Checking, alloc_slots(Checking), {}),
                     pending |-> reachable_blocks(Checking), changed |-> FALSE]
         /\ UNCHANGED <<unchecked, diagnostics>>
  BY DEF ValidateFunction
<1>3. CASE check_signature(Checking) # "ok" /\ Settle(check_signature(Checking))
  BY <1>1, <1>3, SettlePlans
<1>4. CASE Settle("UNVERIFIED_NIR")
  BY <1>1, <1>4, SettlePlans
<1>5. CASE /\ flow' = [phase |-> "available",
                       available |-> Optimistic(Checking, Defined(Checking), Params(Checking)),
                       stored |-> Optimistic(Checking, alloc_slots(Checking), {}),
                       pending |-> reachable_blocks(Checking), changed |-> FALSE]
           /\ UNCHANGED <<unchecked, diagnostics>>
  <2>1. ASSUME NEW f \in reached, f = Checking
        PROVE  AvailOf(f)'
    BY <1>1, <1>5, <2>1, AvailStarts
  <2>2. Checking' = Checking
    BY <1>5 DEF Checking
  <2>3. \A f : Accepted(f)' <=> Accepted(f)
    BY <1>1, AcceptedIsKept
  <2> QED
    BY <1>1, <1>5, <2>1, <2>2, <2>3, KeyedIsKept DEF PlanOK
<1> QED
  BY <1>2, <1>3, <1>4, <1>5

LEMMA FlowPlans ==
    ASSUME GateOK, PlanOK, AvailableBlock \/ StoredBlock \/ TurnEnds
    PROVE  PlanOK'
<1>1. /\ stage = "bodies" /\ UNCHANGED <<program, stage, reached, unchecked, diagnostics>>
      /\ flow # NoFlow /\ ProgramOK
  BY DEF AvailableBlock, StoredBlock, TurnEnds, NoFlow, GateOK
<1>2. ASSUME NEW f \in reached, f = Checking
      PROVE  AvailOf(f)'
  <2>1. AvailOf(f) /\ f \in DOMAIN Funcs
    BY <1>1, <1>2 DEF PlanOK, ProgramOK
  <2> QED
    BY <1>1, <1>2, <2>1, AvailableCarries, StoredCarries, TurnCarries
<1>3. Checking' = Checking
  BY <1>1 DEF Checking
<1>4. \A f : Accepted(f)' <=> Accepted(f)
  BY <1>1, AcceptedIsKept
<1> QED
  BY <1>1, <1>2, <1>3, <1>4, KeyedIsKept DEF PlanOK

LEMMA CheckPlans ==
    ASSUME GateOK, PlanOK, CheckBody
    PROVE  PlanOK'
<1>1. /\ stage = "bodies" /\ UNCHANGED <<program, stage, reached>> /\ flow.phase = "settled" /\ flow # NoFlow
      /\ Settle(check_body(Checking))
  BY DEF CheckBody, NoFlow
<1>2. ProgramOK /\ unchecked # {} /\ unchecked \in SUBSET reached
  BY <1>1 DEF GateOK, Undecided
<1>3. Checking \in reached /\ Checking \in DOMAIN Funcs /\ blocks_by_id(Checking)
  <2>1. reached \in SUBSET Nat
    BY <1>2, ProgramFacts DEF ReachedIds
  <2>2. Checking \in unchecked
    BY <1>2, <2>1, LeastId DEF Checking
  <2> QED
    BY <1>1, <1>2, <2>2 DEF ProgramOK, PlanOK
<1>4. check_body(Checking) = "ok" => Accepted(Checking)
  BY <1>1, <1>2, <1>3, BodyAccepted DEF PlanOK
<1> QED
  BY <1>1, <1>2, <1>4, SettlePlans

\* The cycles are reported last: a plan is made when nothing was.
LEMMA ReportPlans ==
    ASSUME GateOK, PlanOK, ReportCycles
    PROVE  PlanOK'
<1>1. stage = "cycles" /\ UNCHANGED <<program, reached, unchecked>> /\ stage' \in {"planned", "refused"}
      /\ (stage' = "planned" => diagnostics' = <<>>)
  BY DEF ReportCycles
<1>2. diagnostics \in Seq(Reports) /\ ProgramOK
  BY <1>1 DEF GateOK, Undecided
<1>3. stage' = "planned" => diagnostics = <<>>
  <2> DEFINE s == [i \in DOMAIN CyclesInOrder |-> Report("RECURSIVE_CALL_GRAPH", CyclesInOrder[i])]
  <2>1. diagnostics' = diagnostics \o s
    BY DEF ReportCycles, CyclesInOrder, Cycles
  <2>2. s \in Seq(Reports)
    <3>1. CyclesInOrder \in Seq(Seq(Nat))
      BY <1>1, <1>2, ProgramFacts, CyclesInOrderFacts DEF GateOK, ReportCycles
    <3>2. \A c \in Seq(Nat) : Report("RECURSIVE_CALL_GRAPH", c) \in Reports
      BY DEF Report, Reports, Codes
    <3>3. Len(CyclesInOrder) \in Nat /\ DOMAIN CyclesInOrder = 1 .. Len(CyclesInOrder)
          /\ \A i \in DOMAIN CyclesInOrder : CyclesInOrder[i] \in Seq(Nat)
      BY <3>1
    <3>4. s \in [1 .. Len(CyclesInOrder) -> Reports]
      BY <3>2, <3>3
    <3> HIDE DEF s
    <3> QED
      BY <3>3, <3>4
  <2> HIDE DEF s
  <2>3. Len(diagnostics \o s) = Len(diagnostics) + Len(s) /\ Len(s) \in Nat /\ Len(diagnostics) \in Nat
    BY <1>2, <2>2, ConcatProperties
  <2>4. diagnostics' = <<>> => Len(diagnostics) = 0
    <3>1. diagnostics' = <<>> => Len(diagnostics \o s) = 0
      BY <2>1
    <3> QED
      BY <2>3, <3>1
  <2>5. diagnostics' = <<>> => diagnostics = <<>>
    BY <1>2, <2>4
  <2> QED
    BY <1>1, <2>5
<1>4. stage' = "planned" => \A f \in reached : Accepted(f)
  BY <1>1, <1>3 DEF PlanOK
<1>5. \A f : Accepted(f)' <=> Accepted(f)
  BY <1>1, AcceptedIsKept
<1> QED
  BY <1>1, <1>4, <1>5 DEF PlanOK

\* The emission of the bodies.
LEMMA EmitKeeps ==
    ASSUME GateOK, PlanOK, EmitOK, BeginBody \/ VisitBlock \/ FinishBlock \/ EmitFunction
    PROVE  EmitOK'
<1>1. /\ stage = "planned" /\ UNCHANGED <<program, reached>> /\ unemitted \in SUBSET reached /\ ProgramOK
      /\ reached \in SUBSET DOMAIN Funcs /\ reached \in SUBSET Nat
  BY ProgramFacts DEF BeginBody, VisitBlock, FinishBlock, EmitFunction, gateVars, EmitOK, GateOK, ProgramOK, ReachedIds
<1>2. ASSUME UNCHANGED <<stage, unemitted>>, \A f \in reached : f = Emitting => WalkInv(f, postorder')
      PROVE  EmitOK'
  <2>1. \A f \in reached : f = Emitting => WalkInv(f, postorder)'
    <3> SUFFICES ASSUME NEW f \in reached, f = Emitting PROVE WalkInv(f, postorder)'
      OBVIOUS
    <3>1. WalkInv(f, postorder')
      BY <1>2
    <3> QED
      BY <1>1, <3>1, WalkIsKept
  <2>2. Emitting' = Emitting
    BY <1>2 DEF Emitting
  <2> QED
    BY <1>1, <1>2, <2>1, <2>2 DEF EmitOK, Undecided
<1>3. CASE BeginBody
  <2>1. UNCHANGED <<stage, unemitted>>
    BY <1>3 DEF BeginBody, gateVars
  <2>2. ASSUME NEW f \in reached, f = Emitting
        PROVE  WalkInv(f, postorder')
    <3>1. f \in DOMAIN Funcs /\ blocks_by_id(f)
      BY <1>1, <2>2 DEF PlanOK, Accepted
    <3>2. postorder' = [on |-> TRUE, visited |-> {0} \cap reachable_blocks(f), post |-> <<>>,
             work |-> IF {0} \cap reachable_blocks(f) = {} THEN <<>> ELSE <<[block |-> 0, next |-> 0]>>]
      BY <1>3, <2>2 DEF BeginBody
    <3> QED
      BY <1>1, <3>1, <3>2, WalkBegins
  <2> QED
    BY <1>2, <2>1, <2>2
<1>4. CASE VisitBlock
  <2>1. UNCHANGED <<stage, unemitted>> /\ postorder.on /\ postorder.work # <<>> /\ Unvisited # {}
    BY <1>4 DEF VisitBlock, gateVars
  <2>2. ASSUME NEW f \in reached, f = Emitting
        PROVE  WalkInv(f, postorder')
    <3> DEFINE b == Last(postorder.work).block
               x == Last(postorder.work).next
               u == Least(Unvisited)
               t == Successors(f, b)[u]
    <3>1. f \in DOMAIN Funcs /\ WalkInv(f, postorder)
      BY <1>1, <2>1, <2>2 DEF EmitOK
    <3>2. Unvisited = {i \in DOMAIN Successors(f, b) : i > x /\ Successors(f, b)[i] \notin postorder.visited}
      BY <2>2 DEF Unvisited, Turn
    <3>3. DOMAIN Successors(f, b) \subseteq Nat
      BY <1>1, <3>1, SuccessorFacts
    <3>4. u \in Unvisited /\ \A y \in Unvisited : u <= y
      <4>1. Unvisited \in SUBSET Nat
        BY <3>2, <3>3
      <4> QED
        BY <2>1, <4>1, LeastId
    <3>5. postorder' = [postorder EXCEPT
             !.visited = @ \cup {t},
             !.work = Front(@) \o <<[block |-> b, next |-> u], [block |-> t, next |-> 0]>>]
      BY <1>4, <2>2 DEF VisitBlock, Turn
    <3> HIDE DEF b, x, u, t
    <3>6. u \in DOMAIN Successors(f, b) /\ u \in Nat
      BY <3>2, <3>3, <3>4
    <3>7. \A i \in DOMAIN Successors(f, b) : i > x /\ i < u => Successors(f, b)[i] \in postorder.visited
      <4> SUFFICES ASSUME NEW i \in DOMAIN Successors(f, b), i > x, i < u,
                          Successors(f, b)[i] \notin postorder.visited
                   PROVE  FALSE
        OBVIOUS
      <4>1. u <= i /\ i \in Nat
        BY <3>2, <3>3, <3>4
      <4> QED
        BY <3>6, <4>1
    <3> QED
      BY <1>1, <2>1, <3>1, <3>5, <3>6, <3>7, WalkEnters DEF b, x, t
  <2> QED
    BY <1>2, <2>1, <2>2
<1>5. CASE FinishBlock
  <2>1. UNCHANGED <<stage, unemitted>> /\ postorder.on /\ postorder.work # <<>> /\ Unvisited = {}
    BY <1>5 DEF FinishBlock, gateVars
  <2>2. ASSUME NEW f \in reached, f = Emitting
        PROVE  WalkInv(f, postorder')
    <3> DEFINE b == Last(postorder.work).block
               x == Last(postorder.work).next
    <3>1. f \in DOMAIN Funcs /\ WalkInv(f, postorder)
      BY <1>1, <2>1, <2>2 DEF EmitOK
    <3>2. \A i \in DOMAIN Successors(f, b) : i > x => Successors(f, b)[i] \in postorder.visited
      BY <2>1, <2>2 DEF Unvisited, Turn
    <3>3. postorder' = [postorder EXCEPT !.work = Front(@), !.post = Append(@, b)]
      BY <1>5 DEF FinishBlock, Turn
    <3> HIDE DEF b, x
    <3> QED
      BY <1>1, <2>1, <3>1, <3>2, <3>3, WalkFinishes DEF b, x
  <2> QED
    BY <1>2, <2>1, <2>2
<1>6. CASE EmitFunction
  <2>1. unemitted # {} /\ postorder.on /\ postorder.work = <<>> /\ postorder' = NoWalk
    BY <1>6 DEF EmitFunction
  <2>2. Emitting \in reached /\ Emitting \in DOMAIN Funcs
    <3>1. unemitted \in SUBSET Nat
      BY <1>1
    <3> QED
      BY <1>1, <2>1, <3>1, LeastId DEF Emitting
  <2>3. WalkInv(Emitting, postorder) /\ Accepted(Emitting)
    BY <1>1, <2>1, <2>2 DEF EmitOK, PlanOK
  <2>4. BodyLowers(Emitting, reverse_postorder)
    BY <1>1, <2>1, <2>2, <2>3, WalkLowers DEF reverse_postorder
  <2>5. unemitted' = unemitted \ {Emitting} /\ stage' = stage
    BY <1>6, <2>4 DEF EmitFunction
  <2> QED
    BY <1>1, <2>1, <2>5 DEF EmitOK, NoWalk, Undecided
<1> QED
  BY <1>3, <1>4, <1>5, <1>6

LEMMA GateStep ==
    ASSUME GateOK, [Next]_vars
    PROVE  GateOK'
<1>1. CASE Walk \/ WalkDone \/ ValidateFunction \/ AvailableBlock \/ StoredBlock \/ TurnEnds \/ CheckBody
           \/ BodiesDone
  BY <1>1, EarlyKeeps
<1>2. CASE NextRoot \/ Descend \/ Leave
  BY <1>2, SearchKeeps
<1>3. CASE ReportCycles
  BY <1>3, ReportKeeps DEF CyclesInv
<1>4. CASE /\ UNCHANGED <<program, queue, reached, unchecked, flow, diagnostics, scc>>
           /\ stage' = stage \/ (Decided /\ Decided')
  BY <1>4, RestKeeps
<1> QED
  BY <1>1, <1>2, <1>3, <1>4, AfterTheGate DEF GateNext

\* The steps before the bodies, and the search for cycles after them.
LEMMA WalkPlans ==
    ASSUME GateOK, PlanOK, Walk \/ WalkDone
    PROVE  PlanOK'
<1>1. CASE Walk
  <2>1. /\ UNCHANGED <<program, stage>> /\ stage = "walk" /\ reached' \ reached \subseteq Range(queue')
        /\ Range(queue) \subseteq {Head(queue)} \cup Range(queue')
        /\ blocks_by_id(Head(queue)) => diagnostics' = diagnostics
        /\ ~blocks_by_id(Head(queue)) => diagnostics' # <<>>
    BY <1>1, WalkReports
  <2>2. \A f : blocks_by_id(f)' <=> blocks_by_id(f)
    BY <2>1 DEF blocks_by_id, Funcs
  <2>3. ASSUME NEW f \in reached'
        PROVE  blocks_by_id(f) \/ f \in Range(queue') \/ diagnostics' # <<>>
    BY <2>1, <2>3 DEF PlanOK
  <2> QED
    BY <2>1, <2>2, <2>3 DEF PlanOK
<1>2. CASE WalkDone
  <2>1. /\ UNCHANGED <<program, reached, diagnostics>> /\ stage = "walk" /\ stage' = "bodies"
        /\ queue = <<>> /\ unchecked' = {f \in reached : blocks_by_id(f)} /\ flow' = NoFlow
    BY <1>2 DEF WalkDone, GateOK
  <2>2. \A f : blocks_by_id(f)' <=> blocks_by_id(f)
    BY <2>1 DEF blocks_by_id, Funcs
  <2>3. Range(queue) = {}
    BY <2>1 DEF Range
  <2>4. \A f \in reached \ unchecked' : diagnostics # <<>>
    BY <2>1, <2>3 DEF PlanOK
  <2> QED
    BY <2>1, <2>2, <2>4 DEF PlanOK
<1> QED
  BY <1>1, <1>2

LEMMA SearchPlans ==
    ASSUME GateOK, PlanOK, BodiesDone \/ NextRoot \/ Descend \/ Leave
    PROVE  PlanOK'
<1>1. /\ UNCHANGED <<program, reached, unchecked, flow, diagnostics>> /\ stage' = "cycles"
      /\ stage = "cycles" \/ (stage = "bodies" /\ unchecked = {})
  BY DEF BodiesDone, NextRoot, Descend, Leave
<1>2. \A f : Accepted(f)' <=> Accepted(f)
  BY <1>1, AcceptedIsKept
<1>3. \A f \in reached \ unchecked : Accepted(f) \/ diagnostics # <<>>
  BY <1>1 DEF PlanOK
<1>4. unchecked = {}
  BY <1>1 DEF PlanOK
<1> QED
  BY <1>1, <1>2, <1>3, <1>4 DEF PlanOK

\* A step that is neither the gate's nor code generation's leaves the plan,
\* except that the launch of the executable ends it.
LEMMA AfterThePlan ==
    ASSUME [Next]_vars
    PROVE  \/ Gate
           \/ BeginBody \/ VisitBlock \/ FinishBlock \/ EmitFunction
           \/ /\ UNCHANGED <<program, queue, reached, unchecked, flow, diagnostics, unemitted, postorder>>
              /\ stage' = stage \/ (stage = "planned" /\ stage' = "running")
<1>1. CASE Launch
  BY <1>1 DEF Launch, runVars
<1>2. CASE Alloc \/ Store \/ Compute \/ CheckedOperation \/ Continue
  BY <1>2 DEF Alloc, Store, Compute, CheckedOperation, Continue, KeepGate, gateVars
<1>3. CASE WriteFailure \/ ExitFailure \/ Call \/ Branch \/ Return
  BY <1>3 DEF WriteFailure, ExitFailure, Call, Branch, Return, KeepGate, gateVars
<1>4. CASE Interpret
  <2>1. Tool!Next => program' = program
    BY DEF Tool!Next, Tool!Unread, Tool!ValueInstruction, Tool!Aggregate, Tool!Store, Tool!Call,
           Tool!Branch, Tool!Return, Tool!Fail
  <2> QED
    BY <1>4, <2>1 DEF Interpret
<1>5. CASE Ended \/ UNCHANGED vars
  BY <1>5 DEF Ended, vars, gateVars, runVars
<1> QED
  BY <1>1, <1>2, <1>3, <1>4, <1>5 DEF Next

\* Such a step, or one that only changes the walk.
LEMMA RestPlans ==
    ASSUME PlanOK, UNCHANGED <<program, queue, reached, unchecked, flow, diagnostics>>,
           stage' = stage \/ (stage = "planned" /\ stage' \in {"running", "codegen_failed"})
    PROVE  PlanOK'
<1>1. \A f : Accepted(f)' <=> Accepted(f)
  BY AcceptedIsKept
<1>2. Checking' = Checking
  BY DEF Checking
<1>3. \A f : AvailOf(f) => AvailOf(f)'
  <2> SUFFICES ASSUME NEW f, AvailOf(f) PROVE AvailOf(f)'
    OBVIOUS
  <2> QED
    BY AvailIsKept DEF AvailOf, FlowShape
<1> QED
  BY <1>1, <1>2, <1>3, KeyedIsKept DEF PlanOK

\* The gate hands all it reached to code generation.
LEMMA GateHandsOver ==
    ASSUME EmitOK, Gate
    PROVE  EmitOK'
<1>1. GateNext /\ unemitted' = (IF stage' = "planned" THEN reached ELSE {}) /\ postorder' = postorder
  BY DEF Gate
<1>2. /\ stage \in Undecided
      /\ stage' \in Undecided \/ (stage' \in {"planned", "refused"} /\ reached' = reached)
  BY <1>1 DEF GateNext, Walk, WalkDone, ValidateFunction, AvailableBlock, StoredBlock, TurnEnds, CheckBody,
              BodiesDone, NextRoot, Descend, Leave, ReportCycles, Undecided
<1>3. ~postorder.on
  BY <1>2 DEF EmitOK
<1> QED
  BY <1>1, <1>2, <1>3 DEF EmitOK, Undecided

LEMMA PlanStep ==
    PlanInv /\ [Next]_vars => PlanInv'
<1> SUFFICES ASSUME PlanInv, [Next]_vars PROVE PlanInv'
  OBVIOUS
<1>1. GateOK /\ PlanOK /\ EmitOK
  BY DEF PlanInv
<1>2. GateOK'
  BY <1>1, GateStep
<1>3. CASE Gate
  <2>1. PlanOK'
    <3>1. CASE Walk \/ WalkDone
      BY <1>1, <3>1, WalkPlans
    <3>2. CASE AvailableBlock \/ StoredBlock \/ TurnEnds
      BY <1>1, <3>2, FlowPlans
    <3>3. CASE BodiesDone \/ NextRoot \/ Descend \/ Leave
      BY <1>1, <3>3, SearchPlans
    <3> QED
      BY <1>1, <1>3, <3>1, <3>2, <3>3, ValidatePlans, CheckPlans, ReportPlans DEF Gate, GateNext
  <2> QED
    BY <1>1, <1>2, <1>3, <2>1, GateHandsOver DEF PlanInv
<1>4. CASE BeginBody \/ VisitBlock \/ FinishBlock \/ EmitFunction
  <2>1. /\ UNCHANGED <<program, queue, reached, unchecked, flow, diagnostics>> /\ stage = "planned"
        /\ stage' = stage \/ stage' = "codegen_failed"
    BY <1>4 DEF BeginBody, VisitBlock, FinishBlock, EmitFunction, gateVars
  <2>2. PlanOK'
    BY <1>1, <2>1, RestPlans
  <2> QED
    BY <1>1, <1>2, <1>4, <2>2, EmitKeeps DEF PlanInv
<1>5. CASE /\ UNCHANGED <<program, queue, reached, unchecked, flow, diagnostics, unemitted, postorder>>
           /\ stage' = stage \/ (stage = "planned" /\ stage' = "running")
  <2>1. PlanOK'
    BY <1>1, <1>5, RestPlans
  <2>2. \A f : WalkInv(f, postorder) => WalkInv(f, postorder)'
    BY <1>5, WalkIsKept
  <2>3. Emitting' = Emitting
    BY <1>5 DEF Emitting
  <2>4. EmitOK'
    BY <1>1, <1>5, <2>2, <2>3 DEF EmitOK, Undecided
  <2> QED
    BY <1>2, <2>1, <2>4 DEF PlanInv
<1> QED
  BY <1>3, <1>4, <1>5, AfterThePlan

(***************************************************************************)
(* "capability validation accepted this program, so this is a defect in    *)
(* the backend" (native/lower.rs): that defect is not there.  Whatever the *)
(* blocks and edges of a planned function, the order reverse_postorder     *)
(* gives them puts the definition of every value before its uses, holds    *)
(* bb0 and every block branched to, and define_body never meets a value    *)
(* that was not lowered.                                                   *)
(***************************************************************************)
THEOREM PlannedCanBeEmitted ==
    Spec => []PlannedIsEmitted
<1>1. Init => PlanInv
  BY PlanInit
<1>2. PlanInv /\ [Next]_vars => PlanInv'
  BY PlanStep
<1>3. PlanInv => PlannedIsEmitted
  BY DEF PlanInv, EmitOK, PlannedIsEmitted
<1> QED
  BY <1>1, <1>2, <1>3, PTL DEF Spec
=============================================================================
