---------------------------- MODULE LayoutCycles ----------------------------
(***************************************************************************)
(* The search for aggregates without a finite layout (typeck/cycles.rs): a *)
(* depth-first walk over the instances that the fields of the declared     *)
(* records and variants reach, one step of the loop per action.  An        *)
(* instance (GenericInstanceKey) is the type it stands for.                *)
(***************************************************************************)
EXTENDS Types, SequencesExt

CONSTANTS DeclarationSets,  \* the sets of declarations walked: per declaration
                            \* [params, fields]; a variant's payloads are fields
          DeclOrder,        \* every declaration, records before variants
          MaxLayoutDepth    \* bound: levels of nesting the reference follows

VARIABLE walk   \* [decls, order: what is walked; next: the declaration to start
                \*  from; path, edges, idx: the stacks of the walk; gray, black:
                \*  the colours; reported; cycles: the cycle each report names]

decl_ids(decls) == SelectSeq(DeclOrder, LAMBDA d : d \in DOMAIN decls)

symbolic_self(decls, d) == App(d, [i \in DOMAIN decls[d].params |-> Param(decls[d].params[i])])

\* The instances the fields of an instance hold directly, in field order.
substitute_edges(decls, instance) ==
    IF instance.n \notin DOMAIN decls THEN <<>>
    ELSE LET decl   == decls[instance.n]
             subst  == Pairing(decl.params, instance.args)
             fields == [i \in DOMAIN decl.fields |-> substitute(decl.fields[i], subst)]
         IN SelectSeq(fields, LAMBDA t : t.k = "app")

NoWalk == [decls |-> <<>>, next |-> 1, path |-> <<>>, edges |-> <<>>, idx |-> <<>>,
           gray |-> {}, black |-> {}, reported |-> {}, cycles |-> {}]

CyclesInit == \E decls \in DeclarationSets : walk = [NoWalk EXCEPT !.decls = decls]

Finished == walk.path = <<>> /\ walk.next > Len(decl_ids(walk.decls))

\* The outer loop: the symbolic instance of the next declaration, unless the
\* walk has met it.
StartDecl ==
    /\ walk.path = <<>>
    /\ ~Finished
    /\ LET start == symbolic_self(walk.decls, decl_ids(walk.decls)[walk.next])
       IN walk' = IF start \in walk.gray \cup walk.black THEN [walk EXCEPT !.next = @ + 1]
                  ELSE [walk EXCEPT !.next  = @ + 1,
                                    !.gray  = @ \cup {start},
                                    !.path  = <<start>>,
                                    !.edges = <<substitute_edges(walk.decls, start)>>,
                                    !.idx   = <<1>>]

\* The innermost instance has no edge left.
LeaveInstance ==
    /\ walk.path # <<>>
    /\ Last(walk.idx) > Len(Last(walk.edges))
    /\ walk' = [walk EXCEPT !.gray  = @ \ {Last(walk.path)},
                            !.black = @ \cup {Last(walk.path)},
                            !.path  = Front(@), !.edges = Front(@), !.idx = Front(@)]

\* The cycle of a report starts at its least declaration.
Position(d) == CHOOSE i \in 1..Len(DeclOrder) : DeclOrder[i] = d
canonical_cycle(path, d) ==
    LET start == CHOOSE i \in DOMAIN path :
                    path[i].n = d /\ \A j \in 1..(i - 1) : path[j].n # d
        slice == SubSeq(path, start, Len(path))
        least == CHOOSE i \in DOMAIN slice :
                    \A j \in DOMAIN slice :
                        \/ Position(slice[i].n) < Position(slice[j].n)
                        \/ Position(slice[i].n) = Position(slice[j].n) /\ i <= j
    IN SubSeq(slice, least, Len(slice)) \o SubSeq(slice, 1, least - 1)

\* Mutant of RecursOn: a recurrence is an instance met again, so that a
\* declaration that grows its own argument is followed for ever.
RecursOnInstance(path, target) == target \in ToSet(path)

\* A declaration on the path again, whatever its arguments.
RecursOn(path, target) == \E i \in DOMAIN path : path[i].n = target.n

FollowEdge ==
    /\ walk.path # <<>>
    /\ Last(walk.idx) <= Len(Last(walk.edges))
    /\ LET target   == Last(walk.edges)[Last(walk.idx)]
           advanced == [walk EXCEPT !.idx[Len(walk.idx)] = @ + 1]
       IN walk' =
            IF RecursOn(walk.path, target) THEN
                   IF target.n \in walk.reported THEN advanced
                   ELSE [advanced EXCEPT !.reported = @ \cup {target.n},
                                         !.cycles = @ \cup {canonical_cycle(walk.path, target.n)}]
            ELSE IF target \in walk.gray \cup walk.black THEN advanced
            ELSE [advanced EXCEPT !.gray  = @ \cup {target},
                                  !.edges = Append(@, substitute_edges(walk.decls, target)),
                                  !.idx   = Append(@, 1),
                                  !.path  = Append(@, target)]

CyclesNext == StartDecl \/ LeaveInstance \/ FollowEdge

(***************************************************************************)
(* The reference: a layout is finite when following its fields ends.       *)
(***************************************************************************)
RECURSIVE HasLayout(_, _, _)
HasLayout(decls, t, depth) ==
    /\ depth > 0
    /\ \A i \in DOMAIN substitute_edges(decls, t) :
          HasLayout(decls, substitute_edges(decls, t)[i], depth - 1)

Unlayoutable(decls) ==
    {d \in DOMAIN decls : ~HasLayout(decls, symbolic_self(decls, d), MaxLayoutDepth)}

\* The walk always ends with a verdict, and when it reports nothing every
\* declared aggregate has a finite layout, also where only an argument closes
\* the cycle (record Node { next: Box[Node] }) or keeps growing (record
\* Wrap[T] { inner: Wrap[Box[T]] }); a cycle is reported once per declaration.
EveryLayoutIsFinite ==
    /\ Len(walk.path) <= Len(DeclOrder)
    /\ Cardinality(walk.cycles) <= Cardinality(walk.reported)
    /\ Finished /\ walk.reported = {} => Unlayoutable(walk.decls) = {}
=============================================================================
