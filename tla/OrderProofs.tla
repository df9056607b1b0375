----------------------------- MODULE OrderProofs -----------------------------
(***************************************************************************)
(* The turns of the reorder loop and the swaps of pages leave the graph    *)
(* the one the call began with, up to the names; the orders by sequence    *)
(* and by nodes have a place of its own for each record, and the loop      *)
(* visits every slot.                                                      *)
(***************************************************************************)
EXTENDS SwapProofs

------------------------------------------------------------------------------
(* The graph a call began with *)

\* No record of the graph b leads out of it.
Closed(b) ==
    /\ NoId \notin b.rels
    /\ \A n \in b.nodes : b.first[n] \in b.rels \cup {NoId}
    /\ \A r \in b.rels : LET rel == b.relationship[r] IN
          /\ rel.source \in b.nodes /\ rel.target \in b.nodes
          /\ rel.prev_source \in b.rels /\ rel.next_source \in b.rels
          /\ rel.prev_target \in b.rels /\ rel.next_target \in b.rels

\* The nodes ns, relationships rs and records first and f are the graph b, where N
\* names the nodes and R the relationships.
IsCopy(b, N, R, ns, rs, first, f) ==
    /\ DOMAIN N = b.nodes /\ DOMAIN R = b.rels
    /\ ns = {N[n] : n \in b.nodes}
    /\ rs = {R[r] : r \in b.rels}
    /\ \A n \in b.nodes : first[N[n]] = Applied(R, b.first[n])
    /\ \A r \in b.rels : f[R[r]] = RecordWith(b.relationship[r], N, R)

LEMMA GraphClosed == GraphInv => Closed(Graph)
<1> SUFFICES ASSUME GraphInv PROVE Closed(Graph)
  BY Zenon
<1>1. /\ Graph.nodes = nodes /\ Graph.rels = rels
      /\ Graph.first = first_relationship /\ Graph.relationship = relationship
  BY Zenon DEF Graph
<1>2. NoId \notin rels
  BY NoIdApart, Zenon DEF GraphInv
<1>3. \A n \in nodes : first_relationship[n] \in rels \cup {NoId}
  BY FirstIncident, Zenon
<1>4. ASSUME NEW r \in rels
      PROVE  LET rel == relationship[r] IN
             /\ rel.source \in nodes /\ rel.target \in nodes
             /\ rel.prev_source \in rels /\ rel.next_source \in rels
             /\ rel.prev_target \in rels /\ rel.next_target \in rels
  BY OwnLinks, Zenon
<1> HIDE DEF Graph
<1> QED BY <1>1, <1>2, <1>3, <1>4, Zenon DEF Closed

LEMMA CopyOfItself ==
    ASSUME GraphInv
    PROVE  IsCopy(Graph, Identity(nodes), Identity(rels), nodes, rels, first_relationship, relationship)
<1>1. /\ Graph.nodes = nodes /\ Graph.rels = rels
      /\ Graph.first = first_relationship /\ Graph.relationship = relationship
  BY Zenon DEF Graph
<1> HIDE DEF Graph
<1>2. DOMAIN Identity(nodes) = nodes /\ DOMAIN Identity(rels) = rels
  BY Zenon DEF Identity
<1>3. (\A n \in nodes : Identity(nodes)[n] = n) /\ (\A r \in rels : Identity(rels)[r] = r)
  BY Zenon DEF Identity
<1>4. nodes = {Identity(nodes)[n] : n \in nodes} /\ rels = {Identity(rels)[r] : r \in rels}
  BY <1>3, Zenon
<1>5. \A x : Applied(Identity(rels), x) = x
  BY IdentityRight, Zenon
<1>6. ASSUME NEW r \in rels
      PROVE  relationship[r] = RecordWith(relationship[r], Identity(nodes), Identity(rels))
  <2>1. PICK rel : rel = relationship[r]
    BY Zenon
  <2>2. /\ rel.source \in nodes /\ rel.target \in nodes
        /\ rel.prev_source \in rels /\ rel.next_source \in rels
        /\ rel.prev_target \in rels /\ rel.next_target \in rels
    BY <2>1, OwnLinks, Zenon
  <2>3. rel \in Records
    BY <2>1, Zenon DEF GraphInv
  <2>4. rel = [source |-> rel.source, target |-> rel.target,
               prev_source |-> rel.prev_source, next_source |-> rel.next_source,
               prev_target |-> rel.prev_target, next_target |-> rel.next_target]
    BY <2>3, Zenon DEF Records
  <2>5. RecordWith(rel, Identity(nodes), Identity(rels))
        = [source |-> rel.source, target |-> rel.target,
           prev_source |-> rel.prev_source, next_source |-> rel.next_source,
           prev_target |-> rel.prev_target, next_target |-> rel.next_target]
    BY <2>2, <1>3, Zenon DEF RecordWith
  <2> QED BY <2>1, <2>4, <2>5, Zenon
<1>7. (\A n \in nodes : first_relationship[Identity(nodes)[n]] = Applied(Identity(rels), first_relationship[n]))
  BY <1>3, <1>5, Zenon
<1>8. \A r \in rels : relationship[Identity(rels)[r]] = RecordWith(relationship[r], Identity(nodes), Identity(rels))
  BY <1>3, <1>6, Zenon
<1> QED BY <1>1, <1>2, <1>4, <1>7, <1>8, Zenon DEF IsCopy

Then(f, g) == [x \in DOMAIN f |-> g[f[x]]]

\* A copy that is renamed is a copy.
LEMMA CopyRenamed ==
    ASSUME NEW b, Closed(b), NEW N, NEW R, NoId \notin rels,
           IsCopy(b, N, R, nodes, rels, first_relationship, relationship),
           NEW M, NEW Q, DOMAIN Q = rels, Renamed(M, Q)
    PROVE  IsCopy(b, Then(N, M), Then(R, Q), nodes', rels', first_relationship', relationship')
<1> DEFINE N2 == Then(N, M)
           R2 == Then(R, Q)
<1>1. /\ DOMAIN N = b.nodes /\ DOMAIN R = b.rels
      /\ nodes = {N[n] : n \in b.nodes} /\ rels = {R[r] : r \in b.rels}
      /\ \A n \in b.nodes : first_relationship[N[n]] = Applied(R, b.first[n])
      /\ \A r \in b.rels : relationship[R[r]] = RecordWith(b.relationship[r], N, R)
  BY Zenon DEF IsCopy
<1>2. /\ DOMAIN N2 = b.nodes /\ DOMAIN R2 = b.rels
      /\ \A n \in b.nodes : N2[n] = M[N[n]] /\ N[n] \in nodes
      /\ \A r \in b.rels : R2[r] = Q[R[r]] /\ R[r] \in rels
  BY <1>1, Zenon DEF Then
<1> HIDE DEF N2, R2
<1>3. /\ nodes' = {M[n] : n \in nodes} /\ rels' = {Q[r] : r \in rels}
      /\ \A n \in nodes : first_relationship'[M[n]] = Applied(Q, first_relationship[n])
      /\ \A r \in rels : relationship'[Q[r]] = RecordWith(relationship[r], M, Q)
  BY Zenon DEF Renamed
<1>4. nodes' = {N2[n] : n \in b.nodes}
  BY <1>1, <1>2, <1>3
<1>5. rels' = {R2[r] : r \in b.rels}
  BY <1>1, <1>2, <1>3
<1>6. ASSUME NEW n \in b.nodes PROVE first_relationship'[N2[n]] = Applied(R2, b.first[n])
  <2>1. first_relationship'[N2[n]] = Applied(Q, Applied(R, b.first[n]))
    BY <1>1, <1>2, <1>3
  <2>2. b.first[n] \in b.rels \/ (b.first[n] = NoId /\ NoId \notin b.rels)
    BY Zenon DEF Closed
  <2>3. CASE b.first[n] \in b.rels
    BY <2>1, <2>3, <1>1, <1>2, Zenon DEF Applied
  <2>4. CASE b.first[n] = NoId /\ NoId \notin b.rels
    BY <2>1, <2>4, <1>1, <1>2, Zenon DEF Applied
  <2> QED BY <2>2, <2>3, <2>4, Zenon
<1>7. ASSUME NEW r \in b.rels PROVE relationship'[R2[r]] = RecordWith(b.relationship[r], N2, R2)
  <2>1. PICK rel : rel = b.relationship[r]
    BY Zenon
  <2>2. /\ rel.source \in b.nodes /\ rel.target \in b.nodes
        /\ rel.prev_source \in b.rels /\ rel.next_source \in b.rels
        /\ rel.prev_target \in b.rels /\ rel.next_target \in b.rels
    BY <2>1, Zenon DEF Closed
  <2>3. relationship'[R2[r]] = RecordWith(RecordWith(rel, N, R), M, Q)
    BY <2>1, <1>1, <1>2, <1>3, Zenon
  <2>4. RecordWith(RecordWith(rel, N, R), M, Q)
        = [source |-> M[N[rel.source]], target |-> M[N[rel.target]],
           prev_source |-> Q[R[rel.prev_source]], next_source |-> Q[R[rel.next_source]],
           prev_target |-> Q[R[rel.prev_target]], next_target |-> Q[R[rel.next_target]]]
    BY Zenon DEF RecordWith
  <2>5. RecordWith(rel, N2, R2)
        = [source |-> M[N[rel.source]], target |-> M[N[rel.target]],
           prev_source |-> Q[R[rel.prev_source]], next_source |-> Q[R[rel.next_source]],
           prev_target |-> Q[R[rel.prev_target]], next_target |-> Q[R[rel.next_target]]]
    BY <2>2, <1>2, Zenon DEF RecordWith
  <2> QED BY <2>1, <2>3, <2>4, <2>5, Zenon
<1>8. IsCopy(b, N2, R2, nodes', rels', first_relationship', relationship')
  BY <1>2, <1>4, <1>5, <1>6, <1>7, Zenon DEF IsCopy
<1> QED BY <1>8, Zenon DEF N2, R2

\* Where the records of the graph before the call have come to.
OwnIds(c)  == IF c.ft = "node" THEN c.before.nodes ELSE c.before.rels
NodeMap(c) == IF c.ft = "node" THEN c.moved ELSE Identity(c.before.nodes)
RelMap(c)  == IF c.ft = "rel" THEN c.moved ELSE Identity(c.before.rels)

RenameInv ==
    Running =>
        /\ call.ft \in {"node", "rel"}
        /\ Closed(call.before)
        /\ DOMAIN call.moved = OwnIds(call)
        /\ IsCopy(call.before, NodeMap(call), RelMap(call), nodes, rels, first_relationship, relationship)

\* What is still to move is there, and goes to a slot of the file; a node goes to
\* where a node is, so that swap_nodes rewrites the relationships of both.
PlaceInv ==
    Running =>
        /\ DOMAIN call.ids \subseteq Ids(call.ft)
        /\ Values(call.ids) \subseteq PlaceIds(call.ft)
        /\ call.ft = "node" => Values(call.ids) \subseteq nodes

LEMMA CopyIsRenaming ==
    ASSUME RenameInv
    PROVE  OnlyRenamed
<1> SUFFICES ASSUME Running PROVE OnlyRenamed
  BY Zenon DEF OnlyRenamed, Running
<1> DEFINE b == call.before
           N(x) == IF call.ft = "node" THEN Applied(call.moved, x) ELSE x
           R(x) == IF call.ft = "rel" THEN Applied(call.moved, x) ELSE x
<1>1. /\ call.ft \in {"node", "rel"} /\ Closed(b) /\ DOMAIN call.moved = OwnIds(call)
      /\ IsCopy(b, NodeMap(call), RelMap(call), nodes, rels, first_relationship, relationship)
  BY Zenon DEF RenameInv
<1>2. /\ \A n \in b.nodes : NodeMap(call)[n] = N(n)
      /\ \A r \in b.rels : RelMap(call)[r] = R(r)
      /\ \A x : Applied(RelMap(call), x) = R(x)
  <2>1. CASE call.ft = "node"
    BY <2>1, <1>1, IdentityRight, Zenon DEF NodeMap, RelMap, OwnIds, Applied, Identity
  <2>2. CASE call.ft = "rel"
    BY <2>2, <1>1, IdentityRight, Zenon DEF NodeMap, RelMap, OwnIds, Applied, Identity
  <2> QED BY <1>1, <2>1, <2>2, Zenon
<1> HIDE DEF N, R, b
<1>3. /\ nodes = {NodeMap(call)[n] : n \in b.nodes} /\ rels = {RelMap(call)[r] : r \in b.rels}
      /\ \A n \in b.nodes : first_relationship[NodeMap(call)[n]] = Applied(RelMap(call), b.first[n])
      /\ \A r \in b.rels : relationship[RelMap(call)[r]] = RecordWith(b.relationship[r], NodeMap(call), RelMap(call))
  BY <1>1, Zenon DEF IsCopy
<1>4. nodes = {N(n) : n \in b.nodes} /\ rels = {R(r) : r \in b.rels}
  BY <1>2, <1>3
<1>5. \A n \in b.nodes : first_relationship[N(n)] = R(b.first[n])
  BY <1>2, <1>3, Zenon
<1>6. ASSUME NEW r \in b.rels
      PROVE  LET rel == b.relationship[r] IN
             relationship[R(r)] =
                [source |-> N(rel.source), target |-> N(rel.target),
                 prev_source |-> R(rel.prev_source), next_source |-> R(rel.next_source),
                 prev_target |-> R(rel.prev_target), next_target |-> R(rel.next_target)]
  <2>1. PICK rel : rel = b.relationship[r]
    BY Zenon
  <2>2. /\ rel.source \in b.nodes /\ rel.target \in b.nodes
        /\ rel.prev_source \in b.rels /\ rel.next_source \in b.rels
        /\ rel.prev_target \in b.rels /\ rel.next_target \in b.rels
    BY <2>1, <1>1, Zenon DEF Closed
  <2>3. relationship[R(r)] = RecordWith(rel, NodeMap(call), RelMap(call))
    BY <2>1, <1>2, <1>3, Zenon
  <2>4. RecordWith(rel, NodeMap(call), RelMap(call))
        = [source |-> N(rel.source), target |-> N(rel.target),
           prev_source |-> R(rel.prev_source), next_source |-> R(rel.next_source),
           prev_target |-> R(rel.prev_target), next_target |-> R(rel.next_target)]
    BY <2>2, <1>2, Zenon DEF RecordWith
  <2> QED BY <2>1, <2>3, <2>4, Zenon
<1> QED BY <1>4, <1>5, <1>6, Zenon DEF OnlyRenamed, N, R, b

LEMMA IdsPlaced ==
    ASSUME GraphInv, BoundsInv, NEW ft \in {"node", "rel"}
    PROVE  Ids(ft) \subseteq PlaceIds(ft)
<1>1. CASE ft = "node"
  <2>1. ASSUME NEW i \in nodes PROVE i \in 0 .. node_pages * SlotsPerPage - 1 /\ i % 1 = 0
    <3>1. i \in Nat /\ i < node_pages * SlotsPerPage
      BY SlotAssumption DEF GraphInv, BoundsInv, NodeIds
    <3>2. node_pages * SlotsPerPage \in Int
      BY SlotAssumption DEF BoundsInv
    <3> QED BY <3>1, <3>2
  <2> QED BY <1>1, <2>1, Zenon DEF Ids, PlaceIds, Pages, Slots
<1>2. CASE ft = "rel"
  <2>1. ASSUME NEW i \in rels PROVE i \in 0 .. rel_pages * SlotsPerPage - 1 /\ i % SlotsPerRel = 0
    <3>1. i \in Nat /\ i < rel_pages * SlotsPerPage /\ i % SlotsPerRel = 0
      BY SlotAssumption DEF GraphInv, BoundsInv, RelIds
    <3>2. rel_pages * SlotsPerPage \in Int
      BY SlotAssumption DEF BoundsInv
    <3> QED BY <3>1, <3>2
  <2> QED BY <1>2, <2>1, Zenon DEF Ids, PlaceIds, Pages, Slots
<1> QED BY <1>1, <1>2, Zenon

LEMMA IdsRenamed ==
    ASSUME NEW ft \in {"node", "rel"}, NEW a, NEW b, Renamed(NodeNames(ft, a, b), RelNames(ft, a, b))
    PROVE  Ids(ft)' = {Exchange(x, a, b) : x \in Ids(ft)}
<1>1. CASE ft = "node"
  BY <1>1, Zenon DEF Renamed, NodeNames, Ids
<1>2. CASE ft = "rel"
  BY <1>2, Zenon DEF Renamed, RelNames, Ids
<1> QED BY <1>1, <1>2, Zenon

\* The two places of a turn may change their records.
LEMMA TurnSafe ==
    ASSUME GraphInv, BoundsInv, LoopInv, RenameInv, PlaceInv, call.op = "reorder",
           call.at \in DOMAIN call.inverse
    PROVE  LET new == call.at
               old == call.inverse[new]
           IN  /\ old \in PlaceIds(call.ft) /\ new \in PlaceIds(call.ft)
               /\ call.ft = "node" => SafeSwap(old, new)
<1>1. call.ft \in {"node", "rel"}
  BY Zenon DEF RenameInv, Running
<1>2. PICK old : old = call.inverse[call.at]
  BY Zenon
<1>3. old \in DOMAIN call.ids /\ call.ids[old] = call.at
  BY <1>2, TurnEntry, Zenon
<1>4. /\ DOMAIN call.ids \subseteq Ids(call.ft) /\ Values(call.ids) \subseteq PlaceIds(call.ft)
      /\ call.ft = "node" => Values(call.ids) \subseteq nodes
  BY Zenon DEF PlaceInv, Running
<1>5. call.at \in Values(call.ids)
  BY <1>3, Zenon DEF Values
<1> QED BY <1>1, <1>2, <1>3, <1>4, <1>5, IdsPlaced, Zenon DEF SafeSwap

LEMMA MapsFollow ==
    ASSUME NEW c, NEW d, c.ft \in {"node", "rel"}, d.ft = c.ft, d.before = c.before, NEW a, NEW b,
           d.moved = [x \in DOMAIN c.moved |-> Exchange(c.moved[x], a, b)],
           DOMAIN c.moved = OwnIds(c),
           nodes = {NodeMap(c)[n] : n \in c.before.nodes}, rels = {RelMap(c)[r] : r \in c.before.rels}
    PROVE  /\ NodeMap(d) = Then(NodeMap(c), NodeNames(c.ft, a, b))
           /\ RelMap(d) = Then(RelMap(c), RelNames(c.ft, a, b))
<1>1. /\ \A x \in c.before.nodes : Identity(c.before.nodes)[x] = x
      /\ \A x \in c.before.rels : Identity(c.before.rels)[x] = x
      /\ \A x \in nodes : Identity(nodes)[x] = x
      /\ \A x \in rels : Identity(rels)[x] = x
  BY Zenon DEF Identity
<1>2. CASE c.ft = "node"
  <2>1. NodeMap(c) = c.moved /\ DOMAIN c.moved = c.before.nodes /\ NodeMap(d) = d.moved
    BY <1>2, Zenon DEF NodeMap, OwnIds
  <2>2. \A x \in DOMAIN c.moved : c.moved[x] \in nodes
    BY <2>1, Zenon
  <2>3. NodeNames(c.ft, a, b) = [n \in nodes |-> Exchange(n, a, b)]
    BY <1>2, Zenon DEF NodeNames
  <2>4. \A x \in DOMAIN c.moved : NodeNames(c.ft, a, b)[c.moved[x]] = Exchange(c.moved[x], a, b)
    BY <2>2, <2>3, Zenon
  <2>5. NodeMap(d) = Then(NodeMap(c), NodeNames(c.ft, a, b))
    BY <2>1, <2>4 DEF Then
  <2>6. /\ RelMap(c) = Identity(c.before.rels) /\ RelMap(d) = Identity(c.before.rels)
        /\ RelNames(c.ft, a, b) = Identity(rels) /\ DOMAIN RelMap(c) = c.before.rels
    BY <1>2, Zenon DEF RelMap, RelNames, Identity
  <2>7. \A x \in c.before.rels : RelNames(c.ft, a, b)[RelMap(c)[x]] = x
    BY <1>1, <2>6
  <2>8. RelMap(d) = Then(RelMap(c), RelNames(c.ft, a, b))
    BY <2>6, <2>7, Zenon DEF Then, Identity
  <2> QED BY <2>5, <2>8, Zenon
<1>3. CASE c.ft = "rel"
  <2>1. RelMap(c) = c.moved /\ DOMAIN c.moved = c.before.rels /\ RelMap(d) = d.moved
    BY <1>3, Zenon DEF RelMap, OwnIds
  <2>2. \A x \in DOMAIN c.moved : c.moved[x] \in rels
    BY <2>1, Zenon
  <2>3. RelNames(c.ft, a, b) = [n \in rels |-> Exchange(n, a, b)]
    BY <1>3, Zenon DEF RelNames
  <2>4. \A x \in DOMAIN c.moved : RelNames(c.ft, a, b)[c.moved[x]] = Exchange(c.moved[x], a, b)
    BY <2>2, <2>3, Zenon
  <2>5. RelMap(d) = Then(RelMap(c), RelNames(c.ft, a, b))
    BY <2>1, <2>4 DEF Then
  <2>6. /\ NodeMap(c) = Identity(c.before.nodes) /\ NodeMap(d) = Identity(c.before.nodes)
        /\ NodeNames(c.ft, a, b) = Identity(nodes) /\ DOMAIN NodeMap(c) = c.before.nodes
    BY <1>3, Zenon DEF NodeMap, NodeNames, Identity
  <2>7. \A x \in c.before.nodes : NodeNames(c.ft, a, b)[NodeMap(c)[x]] = x
    BY <1>1, <2>6
  <2>8. NodeMap(d) = Then(NodeMap(c), NodeNames(c.ft, a, b))
    BY <2>6, <2>7, Zenon DEF Then, Identity
  <2> QED BY <2>5, <2>8, Zenon
<1> QED BY <1>2, <1>3, Zenon

\* What is left to move after a turn is where the turn has put it.
LEMMA PlacesFollow ==
    ASSUME NEW I, NEW ids, DOMAIN ids \subseteq I, Injective(ids), NEW old \in DOMAIN ids, NEW new,
           ids[old] = new, old = new \/ new \in DOMAIN ids
    PROVE  LET J == {Exchange(x, old, new) : x \in I} IN
           /\ DOMAIN NewIdsAfter(ids, old, new) \subseteq J
           /\ Values(ids) \subseteq I => Values(NewIdsAfter(ids, old, new)) \subseteq J
<1> DEFINE J == {Exchange(x, old, new) : x \in I}
<1>1. ASSUME NEW x \in I, x # new PROVE x \in J
  <2>1. CASE x = old
    <3>1. new \in I /\ Exchange(new, old, new) = old
      BY <1>1, <2>1, Zenon DEF Exchange
    <3> QED BY <3>1, <2>1, Zenon
  <2>2. CASE x # old
    BY <1>1, <2>2, Zenon DEF Exchange
  <2> QED BY <2>1, <2>2, Zenon
<1>2. DOMAIN NewIdsAfter(ids, old, new) = DOMAIN ids \ {new}
  BY Zenon DEF NewIdsAfter
<1>3. Values(NewIdsAfter(ids, old, new)) = Values(ids) \ {new}
  BY NewIdsRight, Zenon
<1> HIDE DEF J
<1>4. /\ DOMAIN NewIdsAfter(ids, old, new) \subseteq J
      /\ Values(ids) \subseteq I => Values(NewIdsAfter(ids, old, new)) \subseteq J
  BY <1>1, <1>2, <1>3, Zenon
<1> QED BY <1>4, Zenon DEF J

LEMMA TurnSwapGraph ==
    ASSUME GraphInv, BoundsInv, LoopInv, RenameInv, PlaceInv, TurnSwap
    PROVE  GraphInv' /\ BoundsInv' /\ RenameInv' /\ PlaceInv'
<1>1. PICK ft : ft = call.ft
  BY Zenon
<1>2. PICK new : new = call.at
  BY Zenon
<1>3. PICK old : old = call.inverse[new]
  BY Zenon
<1>4. call.op = "reorder" /\ call.at \in DOMAIN call.inverse /\ Swap(ft, old, new) /\ UNCHANGED fileVars
  BY <1>1, <1>2, <1>3, Zenon DEF TurnSwap
<1>5. /\ ft \in {"node", "rel"} /\ Closed(call.before) /\ DOMAIN call.moved = OwnIds(call)
      /\ IsCopy(call.before, NodeMap(call), RelMap(call), nodes, rels, first_relationship, relationship)
  BY <1>1, <1>4, Zenon DEF RenameInv, Running
<1>6. /\ old \in PlaceIds(ft) /\ new \in PlaceIds(ft) /\ (ft = "node" => SafeSwap(old, new))
  BY <1>1, <1>2, <1>3, <1>4, TurnSafe, Zenon
<1>7. GraphInv' /\ BoundsInv' /\ Renamed(NodeNames(ft, old, new), RelNames(ft, old, new))
  BY <1>4, <1>5, <1>6, SwapRight, Zenon
<1>8. PICK c : c = Turned(call, old, new)
  BY Zenon
<1>9. /\ AdvancedTo(c, call')
      /\ old \in DOMAIN call.ids /\ call.ids[old] = new /\ (old = new \/ new \in DOMAIN call.ids)
  BY <1>2, <1>3, <1>8, TurnSwapRight, Zenon
<1>10. /\ call'.ft = ft /\ call'.before = call.before /\ call'.ids = NewIdsAfter(call.ids, old, new)
       /\ call'.moved = [x \in DOMAIN call.moved |-> Exchange(call.moved[x], old, new)]
       /\ call'.op \in {"reorder", "done"}
  BY <1>1, <1>4, <1>8, <1>9, Zenon DEF AdvancedTo, Turned
<1>11. RenameInv'
  <2>1. nodes = {NodeMap(call)[n] : n \in call.before.nodes} /\ rels = {RelMap(call)[r] : r \in call.before.rels}
    BY <1>5, Zenon DEF IsCopy
  <2>2. PICK d : d = call'
    BY Zenon
  <2>3. /\ NodeMap(d) = Then(NodeMap(call), NodeNames(ft, old, new))
        /\ RelMap(d) = Then(RelMap(call), RelNames(ft, old, new))
    BY <1>1, <1>5, <1>10, <2>1, <2>2, MapsFollow
  <2>4. DOMAIN RelNames(ft, old, new) = rels
    BY Zenon DEF RelNames, Identity
  <2>5. NoId \notin rels
    BY NoIdApart, Zenon DEF GraphInv
  <2>6. IsCopy(call.before, NodeMap(d), RelMap(d), nodes', rels', first_relationship', relationship')
    BY <1>5, <1>7, <2>3, <2>4, <2>5, CopyRenamed, Zenon
  <2>7. DOMAIN d.moved = OwnIds(d)
    BY <1>1, <1>5, <1>10, <2>2, Zenon DEF OwnIds
  <2> QED BY <1>5, <1>10, <2>2, <2>6, <2>7, Zenon DEF RenameInv
<1>12. PlaceInv'
  <2>1. /\ DOMAIN call.ids \subseteq Ids(ft) /\ Values(call.ids) \subseteq PlaceIds(ft)
        /\ ft = "node" => Values(call.ids) \subseteq nodes
    BY <1>1, <1>4, Zenon DEF PlaceInv, Running
  <2>2. Injective(call.ids)
    BY <1>4, Zenon DEF LoopInv, Running, Entries
  <2>3. PICK J : J = {Exchange(x, old, new) : x \in Ids(ft)}
    BY Zenon
  <2>4. Ids(ft)' = J
    BY <1>5, <1>7, <2>3, IdsRenamed
  <2>5. DOMAIN call'.ids \subseteq J /\ (Values(call.ids) \subseteq Ids(ft) => Values(call'.ids) \subseteq J)
    <3>1. PICK I, ids : I = Ids(ft) /\ ids = call.ids
      BY Zenon
    <3>2. /\ DOMAIN NewIdsAfter(ids, old, new) \subseteq J
          /\ Values(ids) \subseteq I => Values(NewIdsAfter(ids, old, new)) \subseteq J
      BY <1>9, <2>1, <2>2, <2>3, <3>1, PlacesFollow
    <3> QED BY <3>1, <3>2, <1>10, Zenon
  <2>6. Values(call'.ids) \subseteq Values(call.ids)
    BY <1>9, <1>10, <2>2, NewIdsRight
  <2>7. PlaceIds(ft)' = PlaceIds(ft)
    BY <1>4, Zenon DEF PlaceIds, Pages, Slots, fileVars
  <2>8. ft = "node" => Ids(ft) = nodes /\ J = nodes'
    BY <2>4, Zenon DEF Ids
  <2> QED BY <1>10, <2>1, <2>4, <2>5, <2>6, <2>7, <2>8, Zenon DEF PlaceInv
<1> QED BY <1>7, <1>11, <1>12, Zenon

------------------------------------------------------------------------------
(* swap_record_pages *)

LEMMA MultiplesAdd ==
    ASSUME NEW a \in Nat, NEW b \in Nat, NEW c \in Nat \ {0}, a % c = 0, b % c = 0
    PROVE  (a + b) % c = 0
<1>1. PICK x, y : x = a \div c /\ y = b \div c
  BY Zenon
<1>2. x \in Nat /\ y \in Nat /\ a = c * x /\ b = c * y
  BY <1>1
<1>3. a + b = c * (x + y) /\ x + y \in Nat
  BY <1>2
<1>4. \A k \in Nat : (c * k) % c = 0
  OBVIOUS
<1> QED BY <1>3, <1>4, Zenon

\* Two places are the same only if page and slot are.
LEMMA PageSlots ==
    ASSUME NEW p \in Nat, NEW q \in Nat, NEW i \in 0 .. SlotsPerPage - 1, NEW j \in 0 .. SlotsPerPage - 1,
           p * SlotsPerPage + i = q * SlotsPerPage + j
    PROVE  p = q /\ i = j
<1>1. SlotsPerPage \in Nat \ {0}
  BY SlotAssumption, Zenon
<1>2. ASSUME NEW x \in Nat, NEW y \in Nat, NEW a \in 0 .. SlotsPerPage - 1, NEW b \in 0 .. SlotsPerPage - 1, x < y
      PROVE  x * SlotsPerPage + a # y * SlotsPerPage + b
  <2>1. (x + 1) * SlotsPerPage <= y * SlotsPerPage
    BY <1>2, PagesMonotone
  <2>2. PICK u, v : u = x * SlotsPerPage /\ v = y * SlotsPerPage
    BY Zenon
  <2>3. u \in Nat /\ v \in Nat /\ u + SlotsPerPage <= v
    BY <2>1, <2>2, <1>1
  <2> QED BY <2>2, <2>3, <1>1
<1>3. p = q
  BY <1>2
<1>4. PICK u : u = p * SlotsPerPage
  BY Zenon
<1>5. u \in Nat /\ u + i = u + j
  BY <1>1, <1>3, <1>4
<1> QED BY <1>3, <1>5

LEMMA SlotPlaced ==
    ASSUME BoundsInv, NEW ft \in {"node", "rel"}, NEW p \in 0 .. Pages(ft) - 1,
           NEW i \in 0 .. SlotsPerPage - 1, i % Slots(ft) = 0
    PROVE  p * SlotsPerPage + i \in PlaceIds(ft)
<1>1. PICK P, u, v : P = Pages(ft) /\ u = p * SlotsPerPage /\ v = P * SlotsPerPage
  BY Zenon
<1>2. P \in Nat /\ SlotsPerPage \in Nat \ {0} /\ p \in Nat /\ p + 1 <= P
  BY <1>1, SlotAssumption DEF BoundsInv, Pages
<1>3. (p + 1) * SlotsPerPage <= P * SlotsPerPage
  BY <1>2, PagesMonotone
<1>4. u \in Nat /\ v \in Nat /\ u + SlotsPerPage <= v
  BY <1>1, <1>2, <1>3
<1>5. u + i \in 0 .. v - 1
  BY <1>2, <1>4
<1>6. (u + i) % Slots(ft) = 0
  <2>1. u % Slots(ft) = 0
    <3>1. CASE ft = "node"
      BY <3>1, <1>4 DEF Slots
    <3>2. CASE ft = "rel"
      BY <3>2, <1>1, <1>2, PageMultiple, Zenon DEF Slots
    <3> QED BY <3>1, <3>2, Zenon
  <2>2. i \in Nat
    OBVIOUS
  <2> QED BY <2>1, <2>2, <1>4, SlotsType, MultiplesAdd, Zenon
<1> QED BY <1>1, <1>5, <1>6, Zenon DEF PlaceIds

\* The slots of the two pages that are still to swap may be swapped.
PagesSafe ==
    call.op = "pages" =>
        /\ call.ft \in {"node", "rel"}
        /\ call.fst \in 0 .. Pages(call.ft) - 1 /\ call.snd \in 0 .. Pages(call.ft) - 1
        /\ call.fst # call.snd
        /\ call.i \in 0 .. SlotsPerPage - 1 /\ call.i % Slots(call.ft) = 0
        /\ call.ft = "node" => \A j \in call.i .. SlotsPerPage - 1 :
              SafeSwap(call.fst * SlotsPerPage + j, call.snd * SlotsPerPage + j)

LEMMA SwapSlotGraph ==
    ASSUME GraphInv, BoundsInv, PagesInv, PagesSafe, SwapSlot
    PROVE  GraphInv' /\ BoundsInv' /\ PagesSafe'
<1>1. PICK ft, fst, snd : ft = call.ft /\ fst = call.fst /\ snd = call.snd
  BY Zenon
<1>2. PICK i : i = call.i
  BY Zenon
<1>3. PICK a, b : a = fst * SlotsPerPage + i /\ b = snd * SlotsPerPage + i
  BY Zenon
<1>4. /\ call.op = "pages" /\ Swap(ft, a, b) /\ UNCHANGED fileVars
      /\ call' = IF i + Slots(ft) < SlotsPerPage THEN [call EXCEPT !.i = i + Slots(ft)] ELSE NoCall
  BY <1>1, <1>2, <1>3, Zenon DEF SwapSlot
<1>5. /\ ft \in {"node", "rel"} /\ fst \in 0 .. Pages(ft) - 1 /\ snd \in 0 .. Pages(ft) - 1 /\ fst # snd
      /\ i \in 0 .. SlotsPerPage - 1 /\ i % Slots(ft) = 0
      /\ ft = "node" => \A j \in i .. SlotsPerPage - 1 : SafeSwap(fst * SlotsPerPage + j, snd * SlotsPerPage + j)
  BY <1>1, <1>2, <1>4, Zenon DEF PagesSafe
<1>6. a \in PlaceIds(ft) /\ b \in PlaceIds(ft)
  BY <1>3, <1>5, SlotPlaced, Zenon
<1>7. SlotsPerPage \in Nat /\ fst \in Nat /\ snd \in Nat /\ i \in Nat /\ Slots(ft) \in Nat \ {0}
  BY <1>5, SlotAssumption, SlotsType
<1>8. ft = "node" => SafeSwap(a, b)
  <2>1. i \in i .. SlotsPerPage - 1
    BY <1>5, <1>7
  <2> QED BY <2>1, <1>3, <1>5, Zenon
<1>9. GraphInv' /\ BoundsInv' /\ Renamed(NodeNames(ft, a, b), RelNames(ft, a, b))
  BY <1>4, <1>5, <1>6, <1>8, SwapRight, Zenon
<1>10. CASE i + Slots(ft) < SlotsPerPage
  <2>1. PICK k : k = i + Slots(ft)
    BY Zenon
  <2>2. call' = [op |-> "pages", ft |-> ft, fst |-> fst, snd |-> snd, i |-> k]
    BY <1>1, <1>4, <1>10, <2>1, Zenon DEF PagesInv
  <2>3. k \in 0 .. SlotsPerPage - 1 /\ i < k
    BY <1>7, <1>10, <2>1
  <2>4. k % Slots(ft) = 0
    <3>1. Slots(ft) % Slots(ft) = 0
      BY <1>7
    <3> QED BY <3>1, <1>5, <1>7, <2>1, MultiplesAdd, Zenon
  <2>5. Pages(ft)' = Pages(ft) /\ Slots(ft)' = Slots(ft)
    BY <1>4, Zenon DEF Pages, Slots, fileVars
  <2>6. ASSUME ft = "node", NEW j \in k .. SlotsPerPage - 1
        PROVE  SafeSwap(fst * SlotsPerPage + j, snd * SlotsPerPage + j)'
    <3>1. PICK x, y : x = fst * SlotsPerPage + j /\ y = snd * SlotsPerPage + j
      BY Zenon
    <3>2. j \in 0 .. SlotsPerPage - 1 /\ j # i /\ j \in i .. SlotsPerPage - 1
      BY <2>3, <1>7
    <3>3. x # a /\ x # b /\ y # a /\ y # b
      BY <3>1, <3>2, <1>3, <1>5, <1>7, PageSlots
    <3>4. nodes' = {Exchange(n, a, b) : n \in nodes}
      BY <1>9, <2>6, Zenon DEF Renamed, NodeNames
    <3>5. (x \in nodes' <=> x \in nodes) /\ (y \in nodes' <=> y \in nodes)
      BY <3>3, <3>4, Zenon DEF Exchange
    <3>6. SafeSwap(x, y)
      BY <3>1, <3>2, <1>5, <2>6, Zenon
    <3>7. SafeSwap(x, y)'
      BY <3>5, <3>6, Zenon DEF SafeSwap
    <3> QED BY <3>1, <3>7, Zenon DEF SafeSwap
  <2>7. /\ call'.ft = ft /\ call'.fst = fst /\ call'.snd = snd /\ call'.i = k
    BY <2>2, Zenon
  <2>8. PagesSafe'
    BY <2>3, <2>4, <2>5, <2>6, <2>7, <1>5, Zenon DEF PagesSafe
  <2> QED BY <1>9, <2>8, Zenon
<1>11. CASE ~(i + Slots(ft) < SlotsPerPage)
  <2>1. call'.op = "none"
    BY <1>4, <1>11, Zenon DEF NoCall
  <2> QED BY <1>9, <2>1, Zenon DEF PagesSafe
<1> QED BY <1>10, <1>11, Zenon

------------------------------------------------------------------------------
(* reorder_relationships_by_sequence, reorder_relationships_by_nodes *)

\* The relationships in use fit on the pages one behind the other.
LEMMA CountFits ==
    ASSUME GraphInv, BoundsInv
    PROVE  n_rels \in Nat /\ n_rels * SlotsPerRel <= rel_pages * SlotsPerPage
<1>1. SlotsPerRel \in Nat \ {0} /\ SlotsPerPage \in Nat /\ rel_pages \in Nat
  BY SlotAssumption DEF BoundsInv
<1>2. PICK u, K : u = rel_pages * SlotsPerPage /\ K = u \div SlotsPerRel
  BY Zenon
<1>3. u \in Nat /\ u % SlotsPerRel = 0
  BY <1>1, <1>2, PageMultiple, Zenon
<1>4. K \in Nat /\ u = SlotsPerRel * K
  BY <1>1, <1>2, <1>3
<1> DEFINE f == [x \in rels |-> x \div SlotsPerRel]
<1>5. ASSUME NEW x \in rels PROVE f[x] \in 0 .. K - 1 /\ x = SlotsPerRel * f[x]
  <2>1. x \in Nat /\ x % SlotsPerRel = 0 /\ x < u
    BY <1>2, SlotAssumption DEF GraphInv, BoundsInv, RelIds
  <2>2. PICK y : y = f[x]
    BY Zenon
  <2>3. y \in Nat /\ x = SlotsPerRel * y
    BY <1>1, <2>1, <2>2
  <2>4. y < K
    <3>1. SUFFICES ASSUME K <= y PROVE FALSE
      BY <2>3, <1>4
    <3>2. SlotsPerRel * K <= SlotsPerRel * y
      BY <1>1, <1>4, <2>3, <3>1
    <3> QED BY <3>2, <1>3, <1>4, <2>1, <2>3
  <2> QED BY <2>2, <2>3, <2>4, <1>4
<1> DEFINE T == {f[x] : x \in rels}
<1>6. IsFiniteSet(rels) /\ n_rels = Cardinality(rels) /\ n_rels \in Nat
  BY FS_CardinalityType, Zenon DEF BoundsInv
<1>7. Cardinality(T) = n_rels
  <2>1. DOMAIN f = rels /\ f = [x \in rels |-> f[x]]
    BY Zenon
  <2> HIDE DEF f
  <2>2. \A x, y \in rels : f[x] = f[y] => x = y
    BY <1>5, Zenon
  <2>3. (\A x \in rels : f[x] \in T) /\ \A y \in T : \E x \in rels : f[x] = y
    BY Zenon
  <2> HIDE DEF T
  <2> QED BY <1>6, <2>1, <2>2, <2>3, ImageSize
<1>8. T \subseteq 0 .. K - 1
  BY <1>5, Zenon
<1>9. IsFiniteSet(0 .. K - 1) /\ Cardinality(0 .. K - 1) = K
  <2>1. 0 \in Int /\ K - 1 \in Int /\ (0 > K - 1 => K = 0) /\ K - 1 - 0 + 1 = K
    BY <1>4
  <2> QED BY <2>1, FS_Interval, Zenon
<1> HIDE DEF T
<1>10. n_rels <= K
  <2>1. Cardinality(T) <= Cardinality(0 .. K - 1)
    BY <1>8, <1>9, FS_Subset, Zenon
  <2> QED BY <2>1, <1>7, <1>9, Zenon
<1>11. SlotsPerRel * n_rels <= SlotsPerRel * K
  BY <1>1, <1>4, <1>6, <1>10
<1> QED BY <1>1, <1>2, <1>4, <1>6, <1>11

LEMMA SequencePlaced ==
    ASSUME GraphInv, BoundsInv, NEW k \in 0 .. n_rels - 1
    PROVE  k * SlotsPerRel \in PlaceIds("rel")
<1>1. SlotsPerRel \in Nat \ {0} /\ n_rels \in Nat /\ n_rels * SlotsPerRel <= rel_pages * SlotsPerPage
  BY CountFits, SlotAssumption, Zenon
<1>2. PICK a, u, v : a = k * SlotsPerRel /\ u = n_rels * SlotsPerRel /\ v = rel_pages * SlotsPerPage
  BY Zenon
<1>3. v \in Nat
  BY <1>2, SlotAssumption DEF BoundsInv
<1>4. (k + 1) * SlotsPerRel <= n_rels * SlotsPerRel
  BY <1>1
<1>5. a \in Nat /\ u \in Nat /\ a + SlotsPerRel <= u
  BY <1>1, <1>2, <1>4
<1>6. a \in 0 .. v - 1
  BY <1>1, <1>2, <1>3, <1>5
<1>7. a % SlotsPerRel = 0
  <2>1. \A j \in Nat : (SlotsPerRel * j) % SlotsPerRel = 0
    BY <1>1
  <2>2. a = SlotsPerRel * k /\ k \in Nat
    BY <1>1, <1>2
  <2> QED BY <2>1, <2>2, Zenon
<1> QED BY <1>2, <1>6, <1>7, Zenon DEF PlaceIds, Pages, Slots

SourceOf(r) == relationship[r].source
FromNode(n) == {r \in rels : SourceOf(r) = n}
FromBelow(n) == {r \in rels : SourceOf(r) < n}

\* The place of r among the relationships that leave its source.
PlaceAt(r) == CHOOSE i \in DOMAIN Expand(SourceOf(r), "OUTGOING") : Expand(SourceOf(r), "OUTGOING")[i] = r

LEMMA OutgoingRight ==
    ASSUME GraphInv, BoundsInv, NEW n \in nodes
    PROVE  /\ IsFiniteSet(FromNode(n)) /\ Cardinality(FromNode(n)) \in 0 .. n_rels
           /\ DOMAIN Expand(n, "OUTGOING") = 0 .. Cardinality(FromNode(n)) - 1
           /\ \A i, j \in DOMAIN Expand(n, "OUTGOING") :
                 Expand(n, "OUTGOING")[i] = Expand(n, "OUTGOING")[j] => i = j
           /\ {Expand(n, "OUTGOING")[i] : i \in DOMAIN Expand(n, "OUTGOING")} = FromNode(n)
<1>1. Matching(n, "OUTGOING") = FromNode(n)
  BY Zenon DEF Matching, Matches, FromNode, SourceOf
<1>2. IsFiniteSet(rels) /\ n_rels = Cardinality(rels) /\ n_rels \in Nat
  BY FS_CardinalityType, Zenon DEF BoundsInv
<1>3. FromNode(n) \subseteq rels
  BY Zenon DEF FromNode
<1>4. Cardinality(FromNode(n)) <= n_rels
  BY <1>2, <1>3, FS_Subset, Zenon
<1>5. IsFiniteSet(FromNode(n)) /\ Cardinality(FromNode(n)) \in Nat
  BY <1>2, <1>3, FS_Subset, FS_CardinalityType, Zenon
<1>6. Cardinality(FromNode(n)) \in 0 .. n_rels
  BY <1>2, <1>4, <1>5
<1>7. /\ DOMAIN Expand(n, "OUTGOING") = 0 .. Cardinality(Matching(n, "OUTGOING")) - 1
      /\ \A i, j \in DOMAIN Expand(n, "OUTGOING") :
            Expand(n, "OUTGOING")[i] = Expand(n, "OUTGOING")[j] => i = j
      /\ {Expand(n, "OUTGOING")[i] : i \in DOMAIN Expand(n, "OUTGOING")} = Matching(n, "OUTGOING")
  BY ExpandExact, Zenon
<1> QED BY <1>1, <1>5, <1>6, <1>7, Zenon

LEMMA PlaceAtRight ==
    ASSUME GraphInv, BoundsInv, NEW r \in rels
    PROVE  LET n == SourceOf(r) IN
           /\ n \in nodes /\ r \in FromNode(n)
           /\ PlaceAt(r) \in DOMAIN Expand(n, "OUTGOING") /\ Expand(n, "OUTGOING")[PlaceAt(r)] = r
           /\ PlaceAt(r) \in 0 .. Cardinality(FromNode(n)) - 1
<1>1. PICK n : n = SourceOf(r)
  BY Zenon
<1>2. n \in nodes /\ r \in FromNode(n)
  BY <1>1, Zenon DEF GraphInv, SourceOf, FromNode
<1>3. PICK e : e = Expand(n, "OUTGOING")
  BY Zenon
<1>4. {e[i] : i \in DOMAIN e} = FromNode(n) /\ DOMAIN e = 0 .. Cardinality(FromNode(n)) - 1
  BY <1>2, <1>3, OutgoingRight, Zenon
<1>5. \E i \in DOMAIN e : e[i] = r
  BY <1>2, <1>4, Zenon
<1>6. PlaceAt(r) = CHOOSE i \in DOMAIN e : e[i] = r
  BY <1>1, <1>3, Zenon DEF PlaceAt
<1>7. PlaceAt(r) \in DOMAIN e /\ e[PlaceAt(r)] = r
  BY <1>5, <1>6, Zenon
<1> QED BY <1>1, <1>2, <1>3, <1>4, <1>7, Zenon

\* What RankByNodes counts: the places of the relationships of smaller nodes.
PlacesBelow(n) ==
    {p \in nodes \X (0 .. n_rels) : p[1] < n /\ p[2] \in DOMAIN Expand(p[1], "OUTGOING")}

\* There are as many as relationships that leave smaller nodes.
LEMMA PlacesCounted ==
    ASSUME GraphInv, BoundsInv, NEW n \in nodes
    PROVE  /\ IsFiniteSet(FromBelow(n))
           /\ Cardinality(PlacesBelow(n)) = Cardinality(FromBelow(n))
<1> DEFINE f == [r \in FromBelow(n) |-> <<SourceOf(r), PlaceAt(r)>>]
<1>1. IsFiniteSet(FromBelow(n)) /\ FromBelow(n) \subseteq rels
  <2>1. FromBelow(n) \subseteq rels
    BY Zenon DEF FromBelow
  <2> QED BY <2>1, FS_Subset, Zenon DEF BoundsInv
<1>2. DOMAIN f = FromBelow(n) /\ f = [r \in FromBelow(n) |-> f[r]]
  BY Zenon
<1>3. \A r \in FromBelow(n) : f[r] = <<SourceOf(r), PlaceAt(r)>>
  BY Zenon
<1> HIDE DEF f
<1>4. ASSUME NEW r \in FromBelow(n) PROVE f[r] \in PlacesBelow(n)
  <2>1. PICK m, i : m = SourceOf(r) /\ i = PlaceAt(r)
    BY Zenon
  <2>2. m \in nodes /\ i \in DOMAIN Expand(m, "OUTGOING") /\ i \in 0 .. Cardinality(FromNode(m)) - 1
    BY <1>1, <2>1, PlaceAtRight, Zenon
  <2>3. Cardinality(FromNode(m)) \in 0 .. n_rels
    BY <2>2, OutgoingRight, Zenon
  <2>4. n_rels \in Nat
    BY CountFits, Zenon
  <2>5. i \in 0 .. n_rels
    BY <2>2, <2>3, <2>4
  <2>6. m < n
    BY <2>1, Zenon DEF FromBelow
  <2>7. f[r] = <<m, i>>
    BY <1>3, <2>1, Zenon
  <2> QED BY <2>2, <2>5, <2>6, <2>7 DEF PlacesBelow
<1>5. ASSUME NEW p \in PlacesBelow(n) PROVE \E r \in FromBelow(n) : f[r] = p
  <2>1. PICK m \in nodes : \E i \in 0 .. n_rels : p = <<m, i>>
    BY DEF PlacesBelow
  <2>2. PICK i \in 0 .. n_rels : p = <<m, i>>
    BY <2>1, Zenon
  <2>3. m < n /\ i \in DOMAIN Expand(m, "OUTGOING")
    BY <2>2, Zenon DEF PlacesBelow
  <2>4. PICK e : e = Expand(m, "OUTGOING")
    BY Zenon
  <2>5. {e[j] : j \in DOMAIN e} = FromNode(m) /\ \A j, k \in DOMAIN e : e[j] = e[k] => j = k
    BY <2>4, OutgoingRight
  <2>6. PICK r : r = e[i]
    BY Zenon
  <2>7. r \in rels /\ SourceOf(r) = m
    BY <2>3, <2>4, <2>5, <2>6, Zenon DEF FromNode
  <2>8. PlaceAt(r) \in DOMAIN e /\ e[PlaceAt(r)] = r
    BY <2>4, <2>7, PlaceAtRight, Zenon
  <2>9. PlaceAt(r) = i
    BY <2>3, <2>4, <2>5, <2>6, <2>8, Zenon
  <2>10. r \in FromBelow(n)
    BY <2>3, <2>7, Zenon DEF FromBelow
  <2>11. f[r] = p
    BY <1>3, <2>2, <2>7, <2>9, <2>10, Zenon
  <2> QED BY <2>10, <2>11, Zenon
<1>6. ASSUME NEW r \in FromBelow(n), NEW s \in FromBelow(n), f[r] = f[s] PROVE r = s
  <2>1. SourceOf(r) = SourceOf(s) /\ PlaceAt(r) = PlaceAt(s)
    BY <1>3, <1>6
  <2>2. /\ Expand(SourceOf(r), "OUTGOING")[PlaceAt(r)] = r
        /\ Expand(SourceOf(s), "OUTGOING")[PlaceAt(s)] = s
    BY <1>1, PlaceAtRight, Zenon
  <2> QED BY <2>1, <2>2, Zenon
<1>7. IsFiniteSet(PlacesBelow(n)) /\ Cardinality(PlacesBelow(n)) = Cardinality(FromBelow(n))
  BY <1>1, <1>2, <1>4, <1>5, <1>6, ImageSize
<1> QED BY <1>1, <1>7, Zenon

\* The relationships that leave a node come behind those that leave smaller ones
\* and before those that leave greater ones.
LEMMA RankBetween ==
    ASSUME GraphInv, BoundsInv, NEW r \in rels
    PROVE  LET n == SourceOf(r) IN
           /\ RankByNodes(r) = Cardinality(FromBelow(n)) + PlaceAt(r)
           /\ RankByNodes(r) \in Nat /\ Cardinality(FromBelow(n)) \in Nat
           /\ Cardinality(FromBelow(n)) <= RankByNodes(r)
           /\ IsFiniteSet(FromBelow(n) \cup FromNode(n))
           /\ RankByNodes(r) < Cardinality(FromBelow(n) \cup FromNode(n))
<1>1. RankByNodes(r) = Cardinality(PlacesBelow(SourceOf(r))) + PlaceAt(r)
  BY Zenon DEF RankByNodes, PlacesBelow, PlaceAt, SourceOf
<1>2. PICK n : n = SourceOf(r)
  BY Zenon
<1>3. n \in nodes /\ PlaceAt(r) \in 0 .. Cardinality(FromNode(n)) - 1
  BY <1>2, PlaceAtRight, Zenon
<1>4. IsFiniteSet(FromBelow(n)) /\ Cardinality(PlacesBelow(n)) = Cardinality(FromBelow(n))
  BY <1>3, PlacesCounted, Zenon
<1>5. IsFiniteSet(FromNode(n)) /\ Cardinality(FromNode(n)) \in Nat /\ Cardinality(FromBelow(n)) \in Nat
  BY <1>3, <1>4, OutgoingRight, FS_CardinalityType, Zenon
<1>6. FromBelow(n) \cap FromNode(n) = {}
  <2>1. n \in Nat
    BY <1>3, SlotAssumption DEF GraphInv, NodeIds
  <2> QED BY <2>1 DEF FromBelow, FromNode
<1>7. /\ IsFiniteSet(FromBelow(n) \cup FromNode(n))
      /\ Cardinality(FromBelow(n) \cup FromNode(n)) = Cardinality(FromBelow(n)) + Cardinality(FromNode(n))
  <2>1. Cardinality(FromBelow(n) \cap FromNode(n)) = 0
    BY <1>6, FS_EmptySet, Zenon
  <2>2. /\ IsFiniteSet(FromBelow(n) \cup FromNode(n))
        /\ Cardinality(FromBelow(n) \cup FromNode(n))
           = Cardinality(FromBelow(n)) + Cardinality(FromNode(n)) - Cardinality(FromBelow(n) \cap FromNode(n))
    BY <1>4, <1>5, FS_Union, Zenon
  <2> QED BY <2>1, <2>2, <1>5
<1>8. PICK a, b, p : a = Cardinality(FromBelow(n)) /\ b = Cardinality(FromNode(n)) /\ p = PlaceAt(r)
  BY Zenon
<1>9. a \in Nat /\ b \in Nat /\ p \in 0 .. b - 1 /\ RankByNodes(r) = a + p
  BY <1>1, <1>2, <1>3, <1>4, <1>5, <1>8, Zenon
<1>10. a + p \in Nat /\ a <= a + p /\ a + p < a + b
  BY <1>9
<1> QED BY <1>2, <1>7, <1>8, <1>9, <1>10, Zenon

LEMMA RankByNodesRight ==
    ASSUME GraphInv, BoundsInv
    PROVE  /\ \A r \in rels : RankByNodes(r) \in 0 .. n_rels - 1
           /\ \A r, s \in rels : RankByNodes(r) = RankByNodes(s) => r = s
           /\ \A r, s \in rels : RankByNodes(r) < RankByNodes(s) => SourceOf(r) <= SourceOf(s)
<1>1. IsFiniteSet(rels) /\ n_rels = Cardinality(rels) /\ n_rels \in Nat
  BY FS_CardinalityType, Zenon DEF BoundsInv
<1>2. \A r \in rels : SourceOf(r) \in Nat
  <2>1. \A r \in rels : SourceOf(r) \in nodes
    BY PlaceAtRight, Zenon
  <2>2. \A n \in nodes : n \in Nat
    BY SlotAssumption DEF GraphInv, NodeIds
  <2> QED BY <2>1, <2>2, Zenon
<1>3. ASSUME NEW r \in rels PROVE RankByNodes(r) \in 0 .. n_rels - 1
  <2>1. PICK S : S = FromBelow(SourceOf(r)) \cup FromNode(SourceOf(r))
    BY Zenon
  <2>2. S \subseteq rels
    BY <2>1, Zenon DEF FromBelow, FromNode
  <2>3. Cardinality(S) <= n_rels /\ Cardinality(S) \in Nat
    BY <1>1, <2>2, FS_Subset, FS_CardinalityType, Zenon
  <2>4. RankByNodes(r) \in Nat /\ RankByNodes(r) < Cardinality(S)
    BY <2>1, RankBetween, Zenon
  <2> QED BY <1>1, <2>3, <2>4
<1>4. ASSUME NEW r \in rels, NEW s \in rels, SourceOf(r) < SourceOf(s)
      PROVE  RankByNodes(r) < RankByNodes(s)
  <2>1. PICK S, T : S = FromBelow(SourceOf(r)) \cup FromNode(SourceOf(r)) /\ T = FromBelow(SourceOf(s))
    BY Zenon
  <2>2. S \subseteq T
    BY <1>2, <1>4, <2>1 DEF FromBelow, FromNode
  <2>3. RankByNodes(r) \in Nat /\ RankByNodes(r) < Cardinality(S)
    BY <2>1, RankBetween, Zenon
  <2>4. RankByNodes(s) \in Nat /\ Cardinality(T) \in Nat /\ Cardinality(T) <= RankByNodes(s)
    BY <2>1, RankBetween, Zenon
  <2>5. IsFiniteSet(T)
    <3>1. SourceOf(s) \in nodes
      BY PlaceAtRight, Zenon
    <3> QED BY <2>1, <3>1, PlacesCounted, Zenon
  <2>6. Cardinality(S) <= Cardinality(T) /\ Cardinality(S) \in Nat
    BY <2>2, <2>5, FS_Subset, FS_CardinalityType, Zenon
  <2> QED BY <2>3, <2>4, <2>6
<1>5. ASSUME NEW r \in rels, NEW s \in rels, RankByNodes(r) = RankByNodes(s) PROVE r = s
  <2>1. RankByNodes(r) \in Nat /\ RankByNodes(s) \in Nat
    BY RankBetween, Zenon
  <2>2. SourceOf(r) = SourceOf(s)
    BY <1>2, <1>4, <1>5, <2>1
  <2>3. PICK a : a = Cardinality(FromBelow(SourceOf(r)))
    BY Zenon
  <2>4. a \in Nat /\ RankByNodes(r) = a + PlaceAt(r) /\ RankByNodes(s) = a + PlaceAt(s)
    BY <2>2, <2>3, RankBetween, Zenon
  <2>5. PlaceAt(r) \in Int /\ PlaceAt(s) \in Int
    BY PlaceAtRight
  <2>8. PICK p, q : p = PlaceAt(r) /\ q = PlaceAt(s)
    BY Zenon
  <2>9. a + p = a + q /\ p \in Int /\ q \in Int
    BY <1>5, <2>4, <2>5, <2>8, Zenon
  <2>10. p = q
    BY <2>4, <2>9
  <2>6. PlaceAt(r) = PlaceAt(s)
    BY <2>8, <2>10, Zenon
  <2>7. /\ Expand(SourceOf(r), "OUTGOING")[PlaceAt(r)] = r
        /\ Expand(SourceOf(s), "OUTGOING")[PlaceAt(s)] = s
    BY PlaceAtRight, Zenon
  <2> QED BY <2>2, <2>6, <2>7, Zenon
<1>6. ASSUME NEW r \in rels, NEW s \in rels, RankByNodes(r) < RankByNodes(s)
      PROVE  SourceOf(r) <= SourceOf(s)
  <2>1. RankByNodes(r) \in Nat /\ RankByNodes(s) \in Nat
    BY RankBetween, Zenon
  <2> QED BY <1>2, <1>4, <1>6, <2>1
<1> QED BY <1>3, <1>5, <1>6, Zenon

------------------------------------------------------------------------------
(* The beginning of a call *)

LEMMA FileFollows ==
    ASSUME GraphInv, BoundsInv
    PROVE  FileInv
<1>1. nodes \in SUBSET Nat /\ rels \in SUBSET Nat
  BY IdTypes, Zenon DEF GraphInv
<1>2. n_nodes \in Nat /\ n_rels \in Nat /\ IsFiniteSet(nodes) /\ IsFiniteSet(rels)
  BY FS_CardinalityType, Zenon DEF BoundsInv
<1> QED BY <1>1, <1>2 DEF FileInv

\* Every record is to go to a slot of its own, and a node to where a node is.
Askable(ft, new_ids) ==
    /\ ft \in {"node", "rel"}
    /\ DOMAIN new_ids = Ids(ft) /\ IsFunction(new_ids) /\ Injective(new_ids)
    /\ Values(new_ids) \subseteq PlaceIds(ft)
    /\ ft = "node" => Values(new_ids) \subseteq nodes

LEMMA RandomAskable ==
    ASSUME GraphInv, BoundsInv, NEW ft \in {"node", "rel"}, NEW new_ids \in RandomOrders(Ids(ft))
    PROVE  Askable(ft, new_ids)
<1>1. Ids(ft) \in SUBSET Nat /\ IsFiniteSet(Ids(ft))
  BY FileFollows, Zenon DEF FileInv, Ids
<1>2. new_ids \in [Ids(ft) -> Ids(ft)] /\ Injective(new_ids)
  BY <1>1, RandomOrdersApart, Zenon
<1>3. DOMAIN new_ids = Ids(ft) /\ IsFunction(new_ids) /\ Values(new_ids) \subseteq Ids(ft)
  BY <1>2, Zenon DEF IsFunction, Values
<1>4. Ids(ft) \subseteq PlaceIds(ft)
  BY IdsPlaced, Zenon
<1>5. ft = "node" => Ids(ft) = nodes
  BY Zenon DEF Ids
<1> QED BY <1>2, <1>3, <1>4, <1>5, Zenon DEF Askable

LEMMA SequenceAskable ==
    ASSUME GraphInv, BoundsInv, NEW ft \in {"node", "rel"}, NEW rank \in Ranks(ft),
           ft = "node" => Dense(ft)
    PROVE  Askable(ft, [x \in Ids(ft) |-> rank[x] * Slots(ft)])
<1> DEFINE new_ids == [x \in Ids(ft) |-> rank[x] * Slots(ft)]
<1>1. Injective(new_ids)
  BY FileFollows, RanksApart, Zenon
<1>2. DOMAIN new_ids = Ids(ft) /\ IsFunction(new_ids)
  BY Zenon DEF IsFunction
<1>3. ASSUME NEW x \in Ids(ft)
      PROVE  new_ids[x] \in PlaceIds(ft) /\ (ft = "node" => new_ids[x] \in nodes)
  <2>1. PICK k : k = rank[x]
    BY Zenon
  <2>2. k \in 0 .. Count(ft) - 1 /\ new_ids[x] = k * Slots(ft)
    BY <2>1, Zenon DEF Ranks
  <2> HIDE DEF new_ids
  <2>3. CASE ft = "rel"
    <3>1. k \in 0 .. n_rels - 1 /\ new_ids[x] = k * SlotsPerRel
      BY <2>2, <2>3, Zenon DEF Count, Slots
    <3>2. k * SlotsPerRel \in PlaceIds("rel")
      BY <3>1, SequencePlaced, Zenon
    <3> QED BY <2>3, <3>1, <3>2, Zenon
  <2>4. CASE ft = "node"
    <3>1. nodes = DenseIds("node")
      BY <2>4, Zenon DEF Dense, Ids
    <3>2. k * Slots("node") \in DenseIds("node")
      BY <2>2, <2>4, Zenon DEF DenseIds
    <3>3. new_ids[x] \in nodes
      BY <2>2, <2>4, <3>1, <3>2, Zenon
    <3>4. nodes \subseteq PlaceIds(ft)
      BY <2>4, IdsPlaced, Zenon DEF Ids
    <3> QED BY <3>3, <3>4, Zenon
  <2> QED BY <2>3, <2>4, Zenon
<1>4. Values(new_ids) = {new_ids[x] : x \in Ids(ft)}
  BY <1>2, Zenon DEF Values
<1> HIDE DEF new_ids
<1>5. Askable(ft, new_ids)
  BY <1>1, <1>2, <1>3, <1>4, Zenon DEF Askable
<1> QED BY <1>5, Zenon DEF new_ids

LEMMA NodesRanked ==
    ASSUME GraphInv, BoundsInv
    PROVE  [r \in rels |-> RankByNodes(r)] \in Ranks("rel")
<1> DEFINE rank == [r \in rels |-> RankByNodes(r)]
<1>1. DOMAIN rank = rels /\ rank = [r \in rels |-> rank[r]]
  BY Zenon
<1>2. \A r \in rels : rank[r] = RankByNodes(r)
  BY Zenon
<1> HIDE DEF rank
<1>3. \A r \in rels : rank[r] \in 0 .. n_rels - 1
  BY <1>2, RankByNodesRight, Zenon
<1>4. \A r, s \in rels : rank[r] = rank[s] => r = s
  BY <1>2, RankByNodesRight, Zenon
<1>5. rank \in [rels -> 0 .. n_rels - 1]
  BY <1>1, <1>3, Zenon
<1>6. rank \in Ranks("rel")
  BY <1>4, <1>5, Zenon DEF Ranks, Ids, Count
<1> QED BY <1>6, Zenon DEF rank

\* moved and want are functions, so that they are equal if their values are.
MapsInv == Running => IsFunction(call.moved) /\ IsFunction(call.want)

LEMMA BeginGraph ==
    ASSUME GraphInv, BoundsInv, NEW ft, NEW new_ids, NEW grouped, Askable(ft, new_ids),
           BeginReorder(ft, new_ids, grouped)
    PROVE  LoopInv' /\ PagesInv' /\ RenameInv' /\ PlaceInv' /\ MapsInv'
<1>1. PICK c : c = call'
  BY Zenon
<1>2. /\ c.ft = ft /\ c.ids = new_ids /\ c.moved = Identity(DOMAIN new_ids) /\ c.want = new_ids
      /\ c.before = Graph /\ c.op \in {"reorder", "done"}
  BY <1>1, Zenon DEF BeginReorder, Reorder
<1>3. /\ nodes' = nodes /\ rels' = rels /\ relationship' = relationship
      /\ first_relationship' = first_relationship /\ node_pages' = node_pages /\ rel_pages' = rel_pages
  BY Zenon DEF BeginReorder, vars, nodeVars, relVars
<1>4. /\ ft \in {"node", "rel"} /\ DOMAIN new_ids = Ids(ft) /\ IsFunction(new_ids) /\ Injective(new_ids)
      /\ Values(new_ids) \subseteq PlaceIds(ft) /\ (ft = "node" => Values(new_ids) \subseteq nodes)
  BY Zenon DEF Askable
<1>5. LoopInv' /\ PagesInv'
  <2>1. Ids(ft) \subseteq Nat
    BY FileFollows, Zenon DEF FileInv, Ids
  <2> QED BY <2>1, <1>4, BeginKeeps, Zenon
<1>6. Graph.nodes = nodes /\ Graph.rels = rels
  BY Zenon DEF Graph
<1>7. RenameInv'
  <2>1. DOMAIN c.moved = OwnIds(c)
    BY <1>2, <1>4, <1>6, Zenon DEF OwnIds, Identity, Ids
  <2>2. NodeMap(c) = Identity(nodes) /\ RelMap(c) = Identity(rels)
    BY <1>2, <1>4, <1>6, Zenon DEF NodeMap, RelMap, Ids
  <2>3. Closed(c.before)
    BY <1>2, GraphClosed, Zenon
  <2>4. IsCopy(c.before, NodeMap(c), RelMap(c), nodes', rels', first_relationship', relationship')
    BY <1>2, <1>3, <2>2, CopyOfItself, Zenon
  <2> QED BY <1>1, <1>2, <1>4, <2>1, <2>3, <2>4, Zenon DEF RenameInv
<1>8. PlaceInv'
  <2>1. Ids(ft)' = Ids(ft) /\ PlaceIds(ft)' = PlaceIds(ft)
    BY <1>3, Zenon DEF Ids, PlaceIds, Pages, Slots
  <2> QED BY <1>1, <1>2, <1>3, <1>4, <2>1, Zenon DEF PlaceInv
<1>9. MapsInv'
  <2>1. IsFunction(Identity(DOMAIN new_ids))
    BY Zenon DEF IsFunction, Identity
  <2> QED BY <1>1, <1>2, <1>4, <2>1, Zenon DEF MapsInv
<1> QED BY <1>5, <1>7, <1>8, <1>9, Zenon

------------------------------------------------------------------------------
(* The slots the loop visits *)

LEMMA DivisionLaw ==
    ASSUME NEW x \in Int, NEW S \in Nat \ {0}
    PROVE  /\ x \div S \in Int /\ x % S \in 0 .. S - 1
           /\ x = S * (x \div S) + (x % S)
OBVIOUS

LEMMA Division ==
    ASSUME NEW x \in Nat, NEW S \in Nat \ {0}
    PROVE  \E q \in Nat, a \in 0 .. S - 1 :
              q = x \div S /\ a = x % S /\ x = S * q + a
<1>1. x \in Int
  OBVIOUS
<1>2. PICK q, a : q = x \div S /\ a = x % S
  BY Zenon
<1>3. q \in Nat
  BY <1>2
<1>4. a \in 0 .. S - 1 /\ x = S * q + a
  BY <1>1, <1>2, DivisionLaw, Zenon
<1> QED BY <1>2, <1>3, <1>4, Zenon

LEMMA Multiple ==
    ASSUME NEW x \in Nat, NEW S \in Nat \ {0}, x % S = 0
    PROVE  \E q \in Nat : x = S * q
<1>1. PICK q \in Nat, a \in 0 .. S - 1 : q = x \div S /\ a = x % S /\ x = S * q + a
  BY Division, Zenon
<1>2. S * q \in Nat /\ a = 0
  BY <1>1
<1>3. x = S * q
  BY <1>1, <1>2
<1> QED BY <1>3, Zenon

LEMMA RemainderIs ==
    ASSUME NEW q \in Nat, NEW S \in Nat \ {0}, NEW b \in 0 .. S - 1, NEW x \in Nat, x = S * q + b
    PROVE  x % S = b
<1>1. PICK p \in Nat, a \in 0 .. S - 1 : a = x % S /\ x = S * p + a
  BY Division
<1>2. S * (p - q) = b - a
  BY <1>1
<1>3. CASE p - q >= 1
  <2>1. S * (p - q) >= S
    BY <1>3
  <2> QED BY <1>2, <2>1
<1>4. CASE p - q <= -1
  <2>1. S * (q - p) >= S
    BY <1>4
  <2>2. S * (q - p) = a - b
    BY <1>2
  <2> QED BY <2>1, <2>2
<1>5. CASE p = q
  BY <1>1, <1>5
<1> QED BY <1>1, <1>3, <1>4, <1>5

\* reorder_nodes never looks at the last slot of a page.
Skipped(ft, v) == ft = "node" /\ v % SlotsPerPage = SlotsPerPage - 1

\* The slots between two turns, of which there are none but those skipped.
NextIsNext(ft, at, next) ==
    /\ next \in Nat /\ next % Slots(ft) = 0 /\ next >= at + Slots(ft)
    /\ \A v \in Nat : v % Slots(ft) = 0 /\ v > at => Skipped(ft, v) \/ v >= next

LEMMA NextNode ==
    ASSUME NEW at \in Nat
    PROVE  NextIsNext("node", at, NextPosition(at, 1))
<1>1. PICK S : S = SlotsPerPage
  BY Zenon
<1>2. S \in Nat \ {0}
  BY <1>1, SlotAssumption, Zenon
<1>3. PICK q \in Nat, a \in 0 .. S - 1 : q = at \div S /\ a = at % S /\ at = S * q + a
  BY <1>2, Division, Zenon
<1>4. PICK next : next = NextPosition(at, 1)
  BY Zenon
<1>5. next = IF a + 1 >= S - 1 THEN (q + 1) * S ELSE at + 1
  BY <1>1, <1>3, <1>4, Zenon DEF NextPosition
<1>6. PICK u \in Nat : u = S * q /\ (q + 1) * S = u + S
  BY <1>2
<1>7. next \in Nat /\ next >= at + 1
  BY <1>2, <1>3, <1>5, <1>6
<1>8. ASSUME NEW v \in Nat, v > at, v < next PROVE v % S = S - 1
  <2>1. next = u + S /\ a + 1 >= S - 1
    <3>1. CASE a + 1 >= S - 1
      BY <1>5, <1>6, <3>1, Zenon
    <3>2. CASE ~(a + 1 >= S - 1)
      <4>1. next = at + 1
        BY <1>5, <3>2, Zenon
      <4> QED BY <1>8, <4>1
    <3> QED BY <3>1, <3>2, Zenon
  <2>2. v = u + (S - 1)
    BY <1>2, <1>3, <1>6, <1>8, <2>1
  <2>3. S - 1 \in 0 .. S - 1
    BY <1>2
  <2> QED BY <1>2, <1>6, <2>2, <2>3, RemainderIs
<1>9. next % 1 = 0
  BY <1>7
<1>10. \A v \in Nat : v > at => v % S = S - 1 \/ v >= next
  BY <1>7, <1>8
<1> QED BY <1>1, <1>4, <1>7, <1>9, <1>10, Zenon DEF NextIsNext, Slots, Skipped

\* A page holds whole relationships, so that the last one on it ends with it.
LEMMA NextRel ==
    ASSUME SlotsPerRel > 1, NEW at \in Nat, at % SlotsPerRel = 0
    PROVE  NextIsNext("rel", at, NextPosition(at, SlotsPerRel))
<1>1. PICK S, R : S = SlotsPerPage /\ R = SlotsPerRel
  BY Zenon
<1>2. S \in Nat \ {0} /\ R \in Nat \ {0} /\ R >= 2 /\ S % R = 0 /\ at % R = 0
  BY <1>1, SlotAssumption
<1>3. PICK q \in Nat, a \in 0 .. S - 1 : q = at \div S /\ a = at % S /\ at = S * q + a
  BY <1>2, Division, Zenon
<1>4. PICK m \in Nat : S = R * m
  BY <1>2, Multiple, Zenon
<1>5. PICK t \in Nat : at = R * t
  BY <1>2, Multiple, Zenon
<1>6. PICK j : j = t - m * q
  BY Zenon
<1>7. j \in Int /\ a = R * j
  <2>1. m * q \in Nat /\ S * q = R * (m * q)
    BY <1>2, <1>4
  <2>2. R * t = R * (m * q) + a
    BY <1>3, <1>5, <2>1, Zenon
  <2>3. R * (t - m * q) = R * t - R * (m * q)
    BY <1>2, <2>1
  <2> QED BY <1>2, <1>3, <1>6, <2>1, <2>2, <2>3
<1>8. j < m
  <2>1. SUFFICES ASSUME m <= j PROVE FALSE
    BY <1>7
  <2>2. R * m <= R * j
    BY <1>2, <1>7, <2>1
  <2> QED BY <1>3, <1>4, <1>7, <2>2
<1>9. a + R = R * (j + 1)
  BY <1>2, <1>7
<1>10. a + R >= S - 1 => a + R = S
  <2>1. CASE j + 1 = m
    BY <1>4, <1>9, <2>1, Zenon
  <2>2. CASE j + 2 <= m
    <3>1. R * (j + 2) <= R * m
      BY <1>2, <1>7, <2>2
    <3>2. R * (j + 2) = R * (j + 1) + R
      BY <1>2, <1>7
    <3> QED BY <1>2, <1>4, <1>9, <3>1, <3>2
  <2> QED BY <1>7, <1>8, <2>1, <2>2
<1>11. PICK next : next = NextPosition(at, SlotsPerRel)
  BY Zenon
<1>12. next = IF a + R >= S - 1 THEN (q + 1) * S ELSE at + R
  BY <1>1, <1>3, <1>11, Zenon DEF NextPosition
<1>13. PICK u \in Nat : u = S * q /\ (q + 1) * S = u + S
  BY <1>2
<1>14. next = at + R
  BY <1>2, <1>3, <1>10, <1>12, <1>13
<1>15. next \in Nat /\ next % R = 0
  <2>1. PICK k : k = t + 1
    BY Zenon
  <2>2. k \in Nat /\ next = R * k + 0 /\ next \in Nat /\ 0 \in 0 .. R - 1
    BY <1>2, <1>5, <1>14, <2>1
  <2> QED BY <1>2, <2>2, RemainderIs
<1>16. ASSUME NEW v \in Nat, v % R = 0, v > at PROVE v >= next
  <2>1. PICK w \in Nat : v = R * w
    BY <1>2, <1>16, Multiple, Zenon
  <2>2. w >= t + 1
    <3>1. SUFFICES ASSUME w <= t PROVE FALSE
      OBVIOUS
    <3>2. R * w <= R * t
      BY <1>2, <3>1
    <3> QED BY <1>5, <1>16, <2>1, <3>2
  <2>3. R * w >= R * (t + 1)
    BY <1>2, <2>2
  <2>4. R * (t + 1) = at + R
    BY <1>2, <1>5
  <2> QED BY <2>1, <2>3, <2>4, <1>14, Zenon
<1>17. next >= at + R
  BY <1>2, <1>14
<1>18. Slots("rel") = R
  BY <1>1, Zenon DEF Slots
<1> QED BY <1>11, <1>15, <1>16, <1>17, <1>18, Zenon DEF NextIsNext

==============================================================================
