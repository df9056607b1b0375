---------------------------- MODULE ReorderProofs ----------------------------
(***************************************************************************)
(* Reordering, for files of any size and any order the caller asks for:    *)
(* only the ids change, a chain that was sorted turns back once, and a     *)
(* reordering that ends has put every record where it was asked to go.     *)
(***************************************************************************)
EXTENDS OrderProofs

------------------------------------------------------------------------------
(* The records in their places *)

\* How far the loop has come in a file without gaps: what is left to move goes to
\* slots that are still to be visited, or that never are.
Placing(c, n) ==
    /\ DOMAIN c.ids = Values(c.ids)
    /\ \A v \in Values(c.ids) : \E k \in 0 .. n - 1 : v = k * Slots(c.ft)
    /\ c.i \in Nat /\ c.at \in Nat /\ c.at % Slots(c.ft) = 0 /\ c.i * Slots(c.ft) <= c.at
    /\ c.op = "reorder" => c.i < n /\ \A v \in Values(c.ids) : Skipped(c.ft, v) \/ v >= c.at
    /\ c.op = "done" => \A v \in Values(c.ids) : Skipped(c.ft, v)

PlacedInv == Running /\ AskedDense => Placing(call, Count(call.ft))

LEMMA AdvancedPlacing ==
    ASSUME SlotsPerRel > 1, NEW c, NEW d, NEW n \in Nat, c.ft \in {"node", "rel"}, n = Count(c.ft),
           Placing(c, n), c.op = "reorder", c.at \notin Values(c.ids), AdvancedTo(c, d)
    PROVE  Placing(d, n)
<1>1. PICK ft, s, V : ft = c.ft /\ s = Slots(ft) /\ V = Values(c.ids)
  BY Zenon
<1>2. PICK i, at : i = c.i /\ at = c.at
  BY Zenon
<1>3. s \in Nat \ {0} /\ ft \in {"node", "rel"}
  BY <1>1, SlotsType, Zenon
<1>4. /\ DOMAIN c.ids = V /\ (\A v \in V : \E k \in 0 .. n - 1 : v = k * s)
      /\ i \in Nat /\ at \in Nat /\ at % s = 0 /\ i * s <= at /\ i < n
      /\ \A v \in V : Skipped(ft, v) \/ v >= at
  BY <1>1, <1>2, Zenon DEF Placing
<1>5. ASSUME NEW v \in V PROVE v \in Nat /\ v % s = 0 /\ v <= (n - 1) * s
  <2>1. PICK k \in 0 .. n - 1 : v = k * s
    BY <1>4, Zenon
  <2>2. k \in Nat /\ v = s * k + 0 /\ v \in Nat /\ 0 \in 0 .. s - 1
    BY <1>3, <2>1
  <2>3. v % s = 0
    BY <1>3, <2>2, RemainderIs
  <2>4. k * s <= (n - 1) * s
    BY <1>3
  <2> QED BY <2>1, <2>2, <2>3, <2>4, Zenon
<1>6. \A v \in V : Skipped(ft, v) \/ v > at
  BY <1>1, <1>2, <1>4, <1>5
<1>7. d.ft = ft /\ d.ids = c.ids
  BY <1>1, Zenon DEF AdvancedTo
<1>8. CASE d.op = "done" /\ d.i = i /\ d.at = at /\ (DOMAIN c.ids = {} \/ i + 1 = n)
  <2>1. ASSUME NEW v \in V PROVE Skipped(ft, v)
    <3>1. i + 1 = n
      BY <1>4, <1>8, Zenon
    <3>2. (n - 1) * s <= at
      BY <1>4, <3>1
    <3>3. (n - 1) * s \in Int /\ v \in Int
      BY <1>3, <1>5
    <3>4. ~(v > at)
      BY <1>4, <1>5, <3>2, <3>3
    <3> QED BY <1>6, <3>4, Zenon
  <2> QED BY <1>1, <1>4, <1>7, <1>8, <2>1, SMTT(30) DEF Placing
<1>9. CASE d.op = "reorder" /\ d.i = i + 1 /\ d.at = NextPosition(at, s) /\ i + 1 # n
  <2>1. NextIsNext(ft, at, d.at)
    <3>1. CASE ft = "node"
      <4>1. s = 1
        BY <1>1, <3>1, Zenon DEF Slots
      <4> QED BY <1>4, <1>9, <3>1, <4>1, NextNode, Zenon
    <3>2. CASE ft = "rel"
      <4>1. s = SlotsPerRel
        BY <1>1, <3>2, Zenon DEF Slots
      <4> QED BY <1>4, <1>9, <3>2, <4>1, NextRel, Zenon
    <3> QED BY <1>3, <3>1, <3>2, Zenon
  <2>2. PICK next : next = d.at
    BY Zenon
  <2>3. /\ next \in Nat /\ next % s = 0 /\ next >= at + s
        /\ \A v \in Nat : v % s = 0 /\ v > at => Skipped(ft, v) \/ v >= next
    BY <1>1, <2>1, <2>2, Zenon DEF NextIsNext
  <2>4. \A v \in V : Skipped(ft, v) \/ v >= next
    BY <1>5, <1>6, <2>3, Zenon
  <2>5. (i + 1) * s <= next
    <3>1. (i + 1) * s = i * s + s /\ i * s \in Nat
      BY <1>3, <1>4
    <3> QED BY <1>3, <1>4, <2>3, <3>1
  <2>6. i + 1 \in Nat /\ i + 1 < n
    BY <1>4, <1>9
  <2> QED BY <1>1, <1>4, <1>7, <1>9, <2>2, <2>3, <2>4, <2>5, <2>6, SMTT(30) DEF Placing
<1> QED BY <1>1, <1>2, <1>8, <1>9, Zenon DEF AdvancedTo

LEMMA AskedSame ==
    ASSUME call'.want = call.want, call'.ft = call.ft, UNCHANGED fileVars
    PROVE  (AskedDense' => AskedDense) /\ Count(call.ft)' = Count(call.ft)
<1>1. n_nodes' = n_nodes /\ n_rels' = n_rels
  BY Zenon DEF fileVars
<1>2. Count(call.ft)' = Count(call.ft)
  BY <1>1, Zenon DEF Count
<1>3. DenseIds(call.ft)' = DenseIds(call.ft)
  BY <1>1, Zenon DEF DenseIds, Count, Slots
<1> QED BY <1>2, <1>3, Zenon DEF AskedDense

LEMMA TurnsPlaced ==
    ASSUME SlotsPerRel > 1, GraphInv, BoundsInv, LoopInv, RenameInv, PlacedInv, TurnPast \/ TurnSwap
    PROVE  PlacedInv'
<1> SUFFICES ASSUME AskedDense' PROVE Placing(call, Count(call.ft))'
  BY Zenon DEF PlacedInv
<1>1. call.op = "reorder" /\ UNCHANGED fileVars
  BY Zenon DEF TurnPast, TurnSwap, vars, nodeVars, relVars, fileVars
<1>2. PICK n : n = Count(call.ft)
  BY Zenon
<1>3. n \in Nat /\ call.ft \in {"node", "rel"}
  <2>1. n_nodes \in Nat /\ n_rels \in Nat
    BY FS_CardinalityType, Zenon DEF BoundsInv
  <2> QED BY <1>1, <1>2, <2>1, Zenon DEF Count, RenameInv, Running
<1>4. Injective(call.ids) /\ call.inverse = InverseOf(call.ids)
  BY <1>1, Zenon DEF LoopInv, Running, Entries
<1>5. DOMAIN call.inverse = Values(call.ids)
  BY <1>4, InverseRight, Zenon
<1>6. CASE TurnPast
  <2>1. AdvancedTo(call, call') /\ call.at \notin Values(call.ids)
    BY <1>5, <1>6, TurnPastRight, Zenon DEF TurnPast
  <2>2. call'.want = call.want /\ call'.ft = call.ft
    BY <2>1, Zenon DEF AdvancedTo
  <2>3. AskedDense /\ Count(call.ft)' = n
    BY <1>1, <1>2, <2>2, AskedSame, Zenon
  <2>4. Placing(call, n)
    BY <1>1, <1>2, <2>3, Zenon DEF PlacedInv, Running
  <2>5. Placing(call', n)
    BY <1>1, <1>2, <1>3, <2>1, <2>4, AdvancedPlacing, Zenon
  <2> QED BY <2>3, <2>5, Zenon
<1>7. CASE TurnSwap
  <2>1. PICK old, new : new = call.at /\ old = call.inverse[new]
    BY Zenon
  <2>2. PICK c : c = Turned(call, old, new)
    BY Zenon
  <2>3. /\ AdvancedTo(c, call')
        /\ old \in DOMAIN call.ids /\ call.ids[old] = new /\ (old = new \/ new \in DOMAIN call.ids)
    BY <1>7, <2>1, <2>2, TurnSwapRight, Zenon
  <2>4. /\ c.op = "reorder" /\ c.ft = call.ft /\ c.ids = NewIdsAfter(call.ids, old, new)
        /\ c.i = call.i /\ c.at = call.at /\ c.want = call.want
    BY <1>1, <2>2, Zenon DEF Turned
  <2>5. call'.want = call.want /\ call'.ft = call.ft
    BY <2>3, <2>4, Zenon DEF AdvancedTo
  <2>6. AskedDense /\ Count(call.ft)' = n
    BY <1>1, <1>2, <2>5, AskedSame, Zenon
  <2>7. Placing(call, n)
    BY <1>1, <1>2, <2>6, Zenon DEF PlacedInv, Running
  <2>8. Values(c.ids) = Values(call.ids) \ {new}
    BY <1>4, <2>3, <2>4, NewIdsRight
  <2>9. DOMAIN c.ids = DOMAIN call.ids \ {new}
    BY <2>4, Zenon DEF NewIdsAfter
  <2>10. Placing(c, n)
    BY <1>1, <2>4, <2>7, <2>8, <2>9 DEF Placing
  <2>11. c.at \notin Values(c.ids)
    BY <2>1, <2>4, <2>8, Zenon
  <2>12. Placing(call', n)
    BY <1>2, <1>3, <2>3, <2>4, <2>10, <2>11, AdvancedPlacing, Zenon
  <2> QED BY <2>6, <2>12, Zenon
<1> QED BY <1>6, <1>7, Zenon

LEMMA BeginPlaced ==
    ASSUME GraphInv, BoundsInv, NEW ft, NEW new_ids, NEW grouped, Askable(ft, new_ids),
           BeginReorder(ft, new_ids, grouped)
    PROVE  PlacedInv'
<1> SUFFICES ASSUME AskedDense' PROVE Placing(call, Count(call.ft))'
  BY Zenon DEF PlacedInv
<1>1. PICK c, n, s : c = call' /\ n = Count(ft) /\ s = Slots(ft)
  BY Zenon
<1>2. /\ c.ft = ft /\ c.ids = new_ids /\ c.want = new_ids /\ c.i = 0 /\ c.at = 0
      /\ c.op = IF n = 0 THEN "done" ELSE "reorder"
  BY <1>1, Zenon DEF BeginReorder, Reorder
<1>3. n_nodes' = n_nodes /\ n_rels' = n_rels
  BY Zenon DEF BeginReorder, vars, nodeVars, relVars
<1>4. n \in Nat /\ s \in Nat \ {0}
  <2>1. n_nodes \in Nat /\ n_rels \in Nat
    BY FS_CardinalityType, Zenon DEF BoundsInv
  <2> QED BY <1>1, <2>1, SlotsType, Zenon DEF Count
<1>5. DenseIds(ft)' = DenseIds(ft) /\ Count(ft)' = n
  BY <1>1, <1>3, Zenon DEF DenseIds, Count, Slots
<1>6. DenseIds(ft) = {k * s : k \in 0 .. n - 1}
  BY <1>1, Zenon DEF DenseIds
<1>7. DOMAIN new_ids = DenseIds(ft) /\ Values(new_ids) = DenseIds(ft)
  BY <1>1, <1>2, <1>5, Zenon DEF AskedDense, Values
<1>8. ASSUME NEW v \in Values(new_ids) PROVE (\E k \in 0 .. n - 1 : v = k * s) /\ v >= 0 /\ n # 0
  <2>1. PICK k \in 0 .. n - 1 : v = k * s
    BY <1>6, <1>7, Zenon
  <2> QED BY <1>4, <2>1
<1>9. 0 % s = 0 /\ 0 * s <= 0
  BY <1>4
<1>10. Placing(c, n)
  BY <1>1, <1>2, <1>4, <1>7, <1>8, <1>9 DEF Placing
<1> QED BY <1>1, <1>2, <1>5, <1>10, Zenon

LEMMA OnlyOneThere ==
    ASSUME NEW S, IsFiniteSet(S), Cardinality(S) <= 1, NEW x \in S, NEW y \in S
    PROVE  x = y
<1> SUFFICES ASSUME x # y PROVE FALSE
  BY Zenon
<1>1. IsFiniteSet({x}) /\ Cardinality({x}) = 1
  BY FS_Singleton, Zenon
<1>2. IsFiniteSet({x} \cup {y}) /\ Cardinality({x} \cup {y}) = 2
  <2>1. y \notin {x}
    BY Zenon
  <2>2. PICK T : T = {x}
    BY Zenon
  <2>3. IsFiniteSet(T \cup {y}) /\ Cardinality(T \cup {y}) = Cardinality(T) + 1
    BY <1>1, <2>1, <2>2, FS_AddElement, Zenon
  <2> QED BY <1>1, <2>2, <2>3
<1>3. Cardinality({x} \cup {y}) <= Cardinality(S) /\ Cardinality(S) \in Nat
  BY FS_Subset, FS_CardinalityType, Zenon
<1> QED BY <1>2, <1>3

LEMMA PlacedRight ==
    ASSUME BoundsInv, LoopInv, RenameInv, PlaceInv, MapsInv, PlacedInv
    PROVE  PlacedUnlessSkipped
<1> DEFINE S == {x \in nodes : x % SlotsPerPage = SlotsPerPage - 1}
<1> SUFFICES ASSUME call.op = "done", AskedDense, call.ft = "node" => Cardinality(S) <= 1
             PROVE  call.moved = call.want
  BY Zenon DEF PlacedUnlessSkipped
<1>1. PICK ft, ids : ft = call.ft /\ ids = call.ids
  BY Zenon
<1>2. /\ ft \in {"node", "rel"} /\ DOMAIN call.moved = DOMAIN call.want
      /\ IsFunction(call.moved) /\ IsFunction(call.want)
      /\ \A x \in DOMAIN call.want : EntryOf(ids, call.moved, call.want, x)
  BY <1>1, Zenon DEF RenameInv, MapsInv, LoopInv, Running, Entries
<1>3. DOMAIN ids = Values(ids) /\ \A v \in Values(ids) : Skipped(ft, v)
  BY <1>1, Zenon DEF PlacedInv, Running, Placing
<1>4. ft = "node" => Values(ids) \subseteq nodes
  BY <1>1, Zenon DEF PlaceInv, Running
<1>5. IsFiniteSet(S)
  BY FS_Subset, Zenon DEF BoundsInv
<1>6. ASSUME NEW y \in DOMAIN ids PROVE ids[y] = y
  <2>1. Skipped(ft, y) /\ Skipped(ft, ids[y]) /\ y \in Values(ids) /\ ids[y] \in Values(ids)
    BY <1>3, Zenon DEF Values
  <2>2. ft = "node" /\ y \in S /\ ids[y] \in S
    BY <1>4, <2>1, Zenon DEF Skipped
  <2> HIDE DEF S
  <2> QED BY <1>1, <1>5, <2>2, OnlyOneThere, Zenon
<1> HIDE DEF S
<1>7. ASSUME NEW x \in DOMAIN call.want PROVE call.moved[x] = call.want[x]
  BY <1>2, <1>6, Zenon DEF EntryOf
<1> QED BY <1>2, <1>7, Zenon DEF IsFunction

\* The order of the nodes is kept in what was asked.
GroupedInv ==
    Running /\ call.grouped =>
        /\ call.ft = "rel"
        /\ \A r, s \in DOMAIN call.want : call.want[r] < call.want[s] =>
              call.before.relationship[r].source <= call.before.relationship[s].source

LEMMA GroupedRight ==
    ASSUME RenameInv, GroupedInv, PlacedUnlessSkipped
    PROVE  GroupedBySource
<1> SUFFICES ASSUME call.op = "done", call.grouped, AskedDense, NEW r \in rels, NEW s \in rels, r < s
             PROVE  relationship[r].source <= relationship[s].source
  BY Zenon DEF GroupedBySource
<1>1. call.ft = "rel"
  BY Zenon DEF GroupedInv, Running
<1>2. call.moved = call.want
  BY <1>1, Zenon DEF PlacedUnlessSkipped
<1>3. PICK b : b = call.before
  BY Zenon
<1>4. /\ Closed(b) /\ DOMAIN call.moved = b.rels
      /\ IsCopy(b, NodeMap(call), RelMap(call), nodes, rels, first_relationship, relationship)
  BY <1>1, <1>3, Zenon DEF RenameInv, Running, OwnIds
<1>5. NodeMap(call) = Identity(b.nodes) /\ RelMap(call) = call.want
  BY <1>1, <1>2, <1>3, Zenon DEF NodeMap, RelMap
<1>6. ASSUME NEW t \in rels
      PROVE  \E x \in b.rels : t = call.want[x] /\ relationship[t].source = b.relationship[x].source
  <2>1. rels = {call.want[x] : x \in b.rels}
    <3>1. rels = {RelMap(call)[x] : x \in b.rels}
      BY <1>4, Zenon DEF IsCopy
    <3> QED BY <1>5, <3>1, Zenon
  <2>2. PICK x \in b.rels : t = call.want[x]
    BY <2>1, Zenon
  <2>3. relationship[t] = RecordWith(b.relationship[x], Identity(b.nodes), call.want)
    BY <1>4, <1>5, <2>2, Zenon DEF IsCopy
  <2>4. b.relationship[x].source \in b.nodes
    BY <1>4, Zenon DEF Closed
  <2>5. relationship[t].source = Identity(b.nodes)[b.relationship[x].source]
    BY <2>3, SMTT(30) DEF RecordWith
  <2>6. relationship[t].source = b.relationship[x].source
    BY <2>4, <2>5, Zenon DEF Identity
  <2> QED BY <2>2, <2>6, Zenon
<1>7. PICK x \in b.rels : r = call.want[x] /\ relationship[r].source = b.relationship[x].source
  BY <1>6, Zenon
<1>8. PICK y \in b.rels : s = call.want[y] /\ relationship[s].source = b.relationship[y].source
  BY <1>6, Zenon
<1>9. b.relationship[x].source <= b.relationship[y].source
  BY <1>2, <1>3, <1>4, <1>7, <1>8, Zenon DEF GroupedInv, Running
<1> QED BY <1>7, <1>8, <1>9, Zenon

\* What reorder_relationships_by_nodes asks for.
LEMMA NodesGrouped ==
    ASSUME GraphInv, BoundsInv, ByNodes
    PROVE  GroupedInv' /\ Askable("rel", [r \in rels |-> RankByNodes(r) * SlotsPerRel])
           /\ BeginReorder("rel", [r \in rels |-> RankByNodes(r) * SlotsPerRel], TRUE)
<1> DEFINE rank == [r \in rels |-> RankByNodes(r)]
           new_ids == [r \in rels |-> RankByNodes(r) * SlotsPerRel]
<1>1. rank \in Ranks("rel")
  BY NodesRanked, Zenon
<1>2. \A r \in rels : rank[r] = RankByNodes(r)
  BY Zenon
<1>3. BySequence("rel", rank, TRUE)
  BY Zenon DEF ByNodes
<1> HIDE DEF rank
<1>4. new_ids = [x \in Ids("rel") |-> rank[x] * Slots("rel")]
  BY <1>2, Zenon DEF Ids, Slots
<1>5. BeginReorder("rel", new_ids, TRUE)
  BY <1>3, <1>4, Zenon DEF BySequence
<1>6. Askable("rel", new_ids)
  BY <1>1, <1>4, SequenceAskable, Zenon
<1>7. DOMAIN new_ids = rels /\ \A r \in rels : new_ids[r] = RankByNodes(r) * SlotsPerRel
  BY Zenon
<1> HIDE DEF new_ids
<1>8. ASSUME NEW r \in rels, NEW s \in rels, new_ids[r] < new_ids[s]
      PROVE  relationship[r].source <= relationship[s].source
  <2>1. PICK a, b : a = RankByNodes(r) /\ b = RankByNodes(s)
    BY Zenon
  <2>2. n_rels \in Nat
    BY CountFits, Zenon
  <2>3. a \in Nat /\ b \in Nat /\ SlotsPerRel \in Nat
    BY <2>1, <2>2, RankByNodesRight, SlotAssumption
  <2>4. a * SlotsPerRel < b * SlotsPerRel
    BY <1>7, <1>8, <2>1, Zenon
  <2>5. a < b
    <3>1. SUFFICES ASSUME b <= a PROVE FALSE
      BY <2>3
    <3>2. b * SlotsPerRel <= a * SlotsPerRel
      BY <2>3, <3>1
    <3> QED BY <2>3, <2>4, <3>2
  <2>6. SourceOf(r) <= SourceOf(s)
    BY <2>1, <2>5, RankByNodesRight, Zenon
  <2> QED BY <2>6, Zenon DEF SourceOf
<1>9. /\ call'.ft = "rel" /\ call'.want = new_ids /\ call'.before.relationship = relationship
  BY <1>5, Zenon DEF BeginReorder, Reorder, Graph
<1>10. GroupedInv'
  BY <1>7, <1>8, <1>9, Zenon DEF GroupedInv
<1> QED BY <1>5, <1>6, <1>10, Zenon DEF new_ids

------------------------------------------------------------------------------
(* The invariant of the graph and of the calls *)

\* A node is deleted between two calls and not during one.
CallsInv ==
    /\ call.op \in {"none", "reorder", "done", "pages", "sort"}
    /\ call.op # "none" => deleting = Idle

FileGraphInv == GraphInv /\ BoundsInv /\ DeletingInv /\ NeverDangling
LoopsInv     == LoopInv /\ RenameInv /\ PlaceInv /\ MapsInv /\ GroupedInv
OthersInv    == PagesInv /\ PagesSafe /\ SortInv /\ SortedSoFar
ReorderInv   == FileGraphInv /\ CallsInv /\ LoopsInv /\ OthersInv

LEMMA LoopsOver ==
    ASSUME ~Running'
    PROVE  LoopsInv'
BY Zenon DEF LoopsInv, LoopInv, RenameInv, PlaceInv, MapsInv, GroupedInv

LEMMA OthersOver ==
    ASSUME call'.op \notin {"pages", "sort"}
    PROVE  OthersInv'
BY Zenon DEF OthersInv, PagesInv, PagesSafe, SortInv, SortedSoFar

LEMMA CallOver ==
    ASSUME FileGraphInv', call' = NoCall
    PROVE  ReorderInv'
<1>1. call'.op = "none"
  BY Zenon DEF NoCall
<1>2. ~Running'
  BY <1>1, Zenon DEF Running
<1>3. LoopsInv' /\ OthersInv'
  BY <1>1, <1>2, LoopsOver, OthersOver, Zenon
<1> QED BY <1>1, <1>3, Zenon DEF ReorderInv, CallsInv

\* While no node is being deleted, only the graph and the pages matter.
LEMMA IdleKeeps ==
    ASSUME FileGraphInv, deleting = Idle, deleting' = Idle, status' # "dangling", GraphInv', BoundsInv'
    PROVE  FileGraphInv'
BY Zenon DEF FileGraphInv, DeletingInv, NeverDangling

LEMMA FileSame ==
    ASSUME FileGraphInv, status' # "dangling",
           UNCHANGED <<nodeVars, relVars, first_relationship, deleting>>
    PROVE  FileGraphInv'
<1>1. /\ nodes' = nodes /\ rels' = rels /\ relationship' = relationship
      /\ first_relationship' = first_relationship /\ deleting' = deleting
  BY Zenon DEF nodeVars, relVars
<1>2. GraphInv'
  BY <1>1, SameGraphInv, Zenon DEF FileGraphInv
<1>3. BoundsInv'
  BY Zenon DEF FileGraphInv, BoundsInv, nodeVars, relVars
<1>4. DeletingInv'
  BY <1>1, Zenon DEF FileGraphInv, DeletingInv, Prev
<1> QED BY <1>2, <1>3, <1>4, Zenon DEF FileGraphInv, NeverDangling

\* create_node, create_relationship, delete_relationship and delete_node between
\* the calls.
LEMMA BuildKeeps ==
    ASSUME Deletions # "any", FileGraphInv, Build \/ Remove
    PROVE  FileGraphInv'
<1>1. GraphInv /\ BoundsInv /\ DeletingInv /\ NeverDangling
  BY Zenon DEF FileGraphInv
<1>2. FreeNode \notin nodes /\ FreeRel \notin rels
  BY <1>1, FreeSlotsFound, Zenon
<1>3. Next
  BY Zenon DEF Build, Remove, Next
<1>4. GraphInv' /\ DeletingInv' /\ NeverDangling'
  BY <1>1, <1>2, <1>3, GraphStep, Zenon
<1>5. BoundsInv'
  <2>1. CASE CreateNode
    BY <1>1, <2>1, CreateNodeBounds, Zenon
  <2>2. ASSUME NEW from, NEW to, CreateRelationship(from, to) PROVE BoundsInv'
    BY <1>1, <2>2, CreateRelationshipBounds, Zenon
  <2>3. CASE DeleteNext
    <3>1. PICK r : r = deleting.prev
      BY Zenon
    <3>2. r \in rels /\ Delete(r)
      BY <2>3, <3>1, Zenon DEF DeleteNext
    <3> QED BY <1>1, <3>2, DeleteBounds, Zenon
  <2>4. CASE DeleteLast
    BY <1>1, <2>4, DeleteLastBounds, Zenon
  <2>5. ASSUME NEW r, DeleteRelationship(r) PROVE BoundsInv'
    <3>1. r \in rels /\ Delete(r)
      BY <2>5, Zenon DEF DeleteRelationship
    <3> QED BY <1>1, <3>1, DeleteBounds, Zenon
  <2>6. ASSUME NEW n, DeleteNode(n) PROVE BoundsInv'
    BY <1>1, <2>6, Zenon DEF DeleteNode, BoundsInv, nodeVars, relVars
  <2> QED BY <2>1, <2>2, <2>3, <2>4, <2>5, <2>6, Zenon DEF Build, Remove
<1> QED BY <1>4, <1>5, Zenon DEF FileGraphInv

\* A call of reorder_nodes or reorder_relationships that may be asked for.
LEMMA BeginKeepsAll ==
    ASSUME ReorderInv, NEW ft, NEW new_ids, NEW grouped, Askable(ft, new_ids),
           BeginReorder(ft, new_ids, grouped), GroupedInv'
    PROVE  ReorderInv'
<1>1. GraphInv /\ BoundsInv /\ FileGraphInv /\ status # "dangling"
  BY Zenon DEF ReorderInv, FileGraphInv, NeverDangling
<1>2. LoopInv' /\ RenameInv' /\ PlaceInv' /\ MapsInv'
  BY <1>1, BeginGraph, Zenon
<1>3. deleting = Idle /\ UNCHANGED vars /\ call'.op \in {"reorder", "done"}
  BY Zenon DEF BeginReorder, MayCall, Ready, Reorder
<1>4. FileGraphInv'
  BY <1>1, <1>3, FileSame, Zenon DEF vars
<1>5. deleting' = Idle
  BY <1>3, Zenon DEF vars
<1>6. OthersInv'
  BY <1>3, OthersOver, Zenon
<1> QED BY <1>2, <1>3, <1>4, <1>5, <1>6, Zenon DEF ReorderInv, CallsInv, LoopsInv

LEMMA SwapRecordsKeeps ==
    ASSUME Callers # "any", ReorderInv, NEW ft \in {"node", "rel"}, NEW fst, NEW snd,
           SwapRecords(ft, fst, snd)
    PROVE  ReorderInv'
<1>1. GraphInv /\ BoundsInv /\ FileGraphInv /\ status # "dangling"
  BY Zenon DEF ReorderInv, FileGraphInv, NeverDangling
<1>2. /\ fst \in PlaceIds(ft) /\ snd \in PlaceIds(ft) /\ (ft = "node" => SafeSwap(fst, snd))
      /\ Swap(ft, fst, snd) /\ UNCHANGED fileVars /\ status' = status
      /\ deleting = Idle /\ call = NoCall /\ call' = call
  BY Zenon DEF SwapRecords, PlaceIds, CanSwap, MayCall, Ready
<1>3. GraphInv' /\ BoundsInv'
  BY <1>1, <1>2, SwapRight, Zenon
<1>4. deleting' = Idle
  BY <1>2, Zenon DEF fileVars
<1>5. FileGraphInv'
  BY <1>1, <1>2, <1>3, <1>4, IdleKeeps, Zenon
<1> QED BY <1>2, <1>5, CallOver, Zenon

LEMMA SwapRecordPagesKeeps ==
    ASSUME Callers # "any", ReorderInv, NEW ft \in {"node", "rel"}, NEW fst, NEW snd,
           SwapRecordPages(ft, fst, snd)
    PROVE  ReorderInv'
<1>1. FileGraphInv /\ status # "dangling"
  BY Zenon DEF ReorderInv, FileGraphInv, NeverDangling
<1>2. /\ call' = [op |-> "pages", ft |-> ft, fst |-> fst, snd |-> snd, i |-> 0]
      /\ fst \in 0 .. Pages(ft) - 1 /\ snd \in 0 .. Pages(ft) - 1 /\ fst # snd
      /\ \A i \in 0 .. SlotsPerPage - 1 : i % Slots(ft) = 0 =>
            CanSwap(ft, fst * SlotsPerPage + i, snd * SlotsPerPage + i)
      /\ UNCHANGED vars /\ deleting = Idle
  BY Zenon DEF SwapRecordPages, MayCall, Ready
<1>3. FileGraphInv' /\ deleting' = Idle
  BY <1>1, <1>2, FileSame, Zenon DEF vars
<1>4. nodes' = nodes /\ node_pages' = node_pages /\ rel_pages' = rel_pages
  BY <1>2, Zenon DEF vars, nodeVars, relVars
<1>5. PagesInv'
  BY <1>2 DEF PagesInv
<1>6. ft = "node" => \A j \in 0 .. SlotsPerPage - 1 : SafeSwap(fst * SlotsPerPage + j, snd * SlotsPerPage + j)
  <2>1. \A j \in 0 .. SlotsPerPage - 1 : j % 1 = 0
    OBVIOUS
  <2> QED BY <1>2, <2>1, Zenon DEF CanSwap, Slots
<1>7. PagesSafe'
  <2>1. Pages(ft)' = Pages(ft)
    BY <1>4, Zenon DEF Pages
  <2>2. 0 \in 0 .. SlotsPerPage - 1 /\ 0 % Slots(ft) = 0
    BY SlotAssumption, SlotsType
  <2>3. ft = "node" => \A j \in 0 .. SlotsPerPage - 1 :
           SafeSwap(fst * SlotsPerPage + j, snd * SlotsPerPage + j)'
    BY <1>4, <1>6, Zenon DEF SafeSwap
  <2> QED BY <1>2, <2>1, <2>2, <2>3, Zenon DEF PagesSafe
<1>8. LoopsInv'
  BY <1>2, LoopsOver, Zenon DEF Running
<1>9. SortInv' /\ SortedSoFar'
  BY <1>2, Zenon DEF SortInv, SortedSoFar
<1>10. CallsInv'
  BY <1>2, <1>3, Zenon DEF CallsInv
<1> QED BY <1>3, <1>5, <1>7, <1>8, <1>9, <1>10, Zenon DEF ReorderInv, OthersInv

LEMMA SwapSlotKeeps ==
    ASSUME ReorderInv, SwapSlot
    PROVE  ReorderInv'
<1>1. /\ GraphInv /\ BoundsInv /\ FileGraphInv /\ status # "dangling"
      /\ LoopInv /\ PagesInv /\ PagesSafe /\ CallsInv
  BY Zenon DEF ReorderInv, FileGraphInv, NeverDangling, LoopsInv, OthersInv
<1>2. GraphInv' /\ BoundsInv' /\ PagesSafe'
  BY <1>1, SwapSlotGraph, Zenon
<1>3. call.op = "pages" /\ UNCHANGED fileVars /\ status' = status
  BY Zenon DEF SwapSlot
<1>4. deleting = Idle /\ deleting' = Idle
  BY <1>1, <1>3, Zenon DEF CallsInv, fileVars
<1>5. FileGraphInv'
  BY <1>1, <1>2, <1>3, <1>4, IdleKeeps, Zenon
<1>6. call' = NoCall \/ call' = [call EXCEPT !.i = call.i + Slots(call.ft)]
  BY Zenon DEF SwapSlot
<1>7. CASE call' = NoCall
  BY <1>5, <1>7, CallOver, Zenon
<1>8. CASE call' = [call EXCEPT !.i = call.i + Slots(call.ft)]
  <2>1. call'.op = "pages"
    BY <1>1, <1>3, <1>8, Zenon DEF PagesInv
  <2>2. ~Running'
    BY <2>1, Zenon DEF Running
  <2>3. PagesInv'
    <3>1. NodesOrderApart'
      BY <2>2, Zenon DEF NodesOrderApart
    <3>2. ReorderNext
      BY Zenon DEF ReorderNext
    <3> QED BY <1>1, <3>1, <3>2, FileFollows, CallInvStep, Zenon
  <2>4. LoopsInv'
    BY <2>2, LoopsOver, Zenon
  <2>5. SortInv' /\ SortedSoFar'
    BY <2>1, Zenon DEF SortInv, SortedSoFar
  <2>6. CallsInv'
    BY <1>4, <2>1, Zenon DEF CallsInv
  <2> QED BY <1>2, <1>5, <2>3, <2>4, <2>5, <2>6, Zenon DEF ReorderInv, OthersInv
<1> QED BY <1>6, <1>7, <1>8, Zenon

\* A turn leaves what was asked, and of which graph, as it was.
LEMMA TurnKeepsAsked ==
    ASSUME MapsInv, GroupedInv, Running, IsFunction(call'.moved), call'.want = call.want,
           call'.ft = call.ft, call'.grouped = call.grouped, call'.before = call.before
    PROVE  MapsInv' /\ GroupedInv'
BY Zenon DEF MapsInv, GroupedInv

LEMMA TurnPastKeeps ==
    ASSUME ReorderInv, TurnPast
    PROVE  ReorderInv'
<1>1. /\ FileGraphInv /\ status # "dangling" /\ CallsInv
      /\ LoopInv /\ RenameInv /\ PlaceInv /\ MapsInv /\ GroupedInv
  BY Zenon DEF ReorderInv, FileGraphInv, NeverDangling, LoopsInv
<1>2. call.op = "reorder" /\ UNCHANGED vars
  BY Zenon DEF TurnPast
<1>3. Running
  BY <1>2, Zenon DEF Running
<1>4. AdvancedTo(call, call')
  BY <1>1, TurnPastRight, Zenon
<1>5. /\ call'.op \in {"reorder", "done"} /\ call'.ft = call.ft /\ call'.grouped = call.grouped
      /\ call'.ids = call.ids /\ call'.want = call.want /\ call'.moved = call.moved
      /\ call'.before = call.before
  BY <1>2, <1>4, Zenon DEF AdvancedTo
<1>6. /\ nodes' = nodes /\ rels' = rels /\ relationship' = relationship /\ deleting' = deleting
      /\ first_relationship' = first_relationship /\ node_pages' = node_pages /\ rel_pages' = rel_pages
  BY <1>2, Zenon DEF vars, nodeVars, relVars
<1>7. LoopInv'
  BY <1>1, <1>3, <1>4, AdvancedKeeps, Zenon DEF LoopInv
<1>8. RenameInv'
  BY <1>1, <1>3, <1>5, <1>6, Zenon DEF RenameInv, NodeMap, RelMap, OwnIds
<1>9. PlaceInv'
  <2>1. Ids(call.ft)' = Ids(call'.ft) /\ PlaceIds(call.ft)' = PlaceIds(call'.ft)
    BY <1>6, Zenon DEF Ids, PlaceIds, Pages, Slots
  <2> QED BY <1>1, <1>3, <1>5, <1>6, <2>1, Zenon DEF PlaceInv
<1>10. MapsInv' /\ GroupedInv'
  BY <1>1, <1>3, <1>5, TurnKeepsAsked, Zenon DEF MapsInv
<1>11. FileGraphInv'
  BY <1>1, <1>2, FileSame, Zenon DEF vars
<1>12. CallsInv'
  BY <1>1, <1>2, <1>5, <1>6, Zenon DEF CallsInv
<1>13. OthersInv'
  BY <1>5, OthersOver, Zenon
<1> QED BY <1>7, <1>8, <1>9, <1>10, <1>11, <1>12, <1>13, Zenon DEF ReorderInv, LoopsInv

LEMMA TurnSwapKeepsAll ==
    ASSUME ReorderInv, TurnSwap
    PROVE  ReorderInv'
<1>1. /\ GraphInv /\ BoundsInv /\ FileGraphInv /\ status # "dangling" /\ CallsInv
      /\ LoopInv /\ RenameInv /\ PlaceInv /\ MapsInv /\ GroupedInv
  BY Zenon DEF ReorderInv, FileGraphInv, NeverDangling, LoopsInv
<1>2. call.op = "reorder" /\ UNCHANGED fileVars /\ status' = status
  BY Zenon DEF TurnSwap
<1>3. GraphInv' /\ BoundsInv' /\ RenameInv' /\ PlaceInv'
  BY <1>1, TurnSwapGraph, Zenon
<1>4. LoopInv'
  BY <1>1, TurnSwapKeeps, Zenon
<1>5. PICK old, new : AdvancedTo(Turned(call, old, new), call')
  BY <1>1, TurnSwapRight, Zenon
<1>6. PICK c : c = Turned(call, old, new)
  BY Zenon
<1>7. /\ c.op = "reorder" /\ c.ft = call.ft /\ c.grouped = call.grouped /\ c.want = call.want
      /\ c.before = call.before /\ IsFunction(c.moved)
  BY <1>2, <1>6, Zenon DEF Turned, IsFunction
<1>8. /\ call'.op \in {"reorder", "done"} /\ call'.ft = call.ft /\ call'.grouped = call.grouped
      /\ call'.want = call.want /\ call'.before = call.before /\ IsFunction(call'.moved)
  BY <1>5, <1>6, <1>7, Zenon DEF AdvancedTo
<1>9. MapsInv' /\ GroupedInv'
  BY <1>1, <1>2, <1>8, TurnKeepsAsked, Zenon DEF Running
<1>10. deleting = Idle /\ deleting' = Idle
  BY <1>1, <1>2, Zenon DEF CallsInv, fileVars
<1>11. FileGraphInv'
  BY <1>1, <1>2, <1>3, <1>10, IdleKeeps, Zenon
<1>12. CallsInv' /\ OthersInv'
  BY <1>8, <1>10, OthersOver, Zenon DEF CallsInv
<1> QED BY <1>3, <1>4, <1>9, <1>11, <1>12, Zenon DEF ReorderInv, LoopsInv

LEMMA TurnFailsKeeps ==
    ASSUME ReorderInv, TurnFails
    PROVE  ReorderInv'
<1>1. /\ GraphInv /\ BoundsInv /\ FileGraphInv /\ CallsInv
      /\ LoopInv /\ RenameInv /\ PlaceInv
  BY Zenon DEF ReorderInv, FileGraphInv, LoopsInv
<1>2. PICK ft, old, new : ft = call.ft /\ new = call.at /\ old = call.inverse[new]
  BY Zenon
<1>3. /\ call.op = "reorder" /\ call.at \in DOMAIN call.inverse /\ Swap(ft, old, new)
      /\ status' = "bad call" /\ call' = NoCall /\ UNCHANGED fileVars
  BY <1>2, Zenon DEF TurnFails
<1>4. ft \in {"node", "rel"}
  BY <1>1, <1>2, <1>3, Zenon DEF RenameInv, Running
<1>5. old \in PlaceIds(ft) /\ new \in PlaceIds(ft) /\ (ft = "node" => SafeSwap(old, new))
  BY <1>1, <1>2, <1>3, TurnSafe, Zenon
<1>6. GraphInv' /\ BoundsInv'
  BY <1>1, <1>3, <1>4, <1>5, SwapRight, Zenon
<1>7. deleting = Idle /\ deleting' = Idle
  BY <1>1, <1>3, Zenon DEF CallsInv, fileVars
<1>8. FileGraphInv'
  BY <1>1, <1>3, <1>6, <1>7, IdleKeeps, Zenon
<1> QED BY <1>3, <1>8, CallOver, Zenon

LEMMA SortKeeps ==
    ASSUME Callers # "any", ReorderInv, SortIncidenceList \/ SortChain
    PROVE  ReorderInv'
<1>1. /\ GraphInv /\ BoundsInv /\ FileGraphInv /\ status # "dangling" /\ CallsInv
      /\ SortInv /\ SortedSoFar
  BY Zenon DEF ReorderInv, FileGraphInv, NeverDangling, OthersInv
<1>2. CASE SortIncidenceList
  <2>1. /\ call' = [op |-> "sort", todo |-> nodes] /\ UNCHANGED vars /\ deleting = Idle /\ NoLoops
    BY <1>2, Zenon DEF SortIncidenceList, MayCall, Ready, SafeSort, NoLoops
  <2>2. nodes' = nodes /\ rels' = rels /\ relationship' = relationship /\ deleting' = Idle
    BY <2>1, Zenon DEF vars, nodeVars, relVars
  <2>3. FileGraphInv'
    BY <1>1, <2>1, FileSame, Zenon DEF vars
  <2>4. call'.op = "sort" /\ call'.todo = nodes
    BY <2>1, Zenon
  <2>5. NoLoops'
    BY <2>1, <2>2, Zenon DEF NoLoops
  <2>6. SortInv' /\ SortedSoFar'
    BY <2>1, <2>2, <2>4, <2>5, Zenon DEF SortInv, SortedSoFar
  <2>7. PagesInv' /\ PagesSafe'
    BY <2>4, Zenon DEF PagesInv, PagesSafe
  <2>8. LoopsInv'
    BY <2>4, LoopsOver, Zenon DEF Running
  <2>9. CallsInv'
    BY <2>2, <2>4, Zenon DEF CallsInv
  <2> QED BY <2>3, <2>6, <2>7, <2>8, <2>9, Zenon DEF ReorderInv, OthersInv
<1>3. CASE SortChain
  <2>1. GraphInv' /\ SortInv' /\ SortedSoFar'
    BY <1>1, <1>3, SortChainKeeps, Zenon
  <2>2. call.op = "sort" /\ nodes' = nodes /\ rels' = rels /\ UNCHANGED fileVars /\ status' = status
    BY <1>3, Zenon DEF SortChain
  <2>3. call'.op = "sort"
    <3>1. \E n : call' = [call EXCEPT !.todo = @ \ {n}]
      BY <1>3, Zenon DEF SortChain
    <3> QED BY <1>1, <2>2, <3>1, Zenon DEF SortInv
  <2>4. BoundsInv'
    BY <1>1, <2>2, Zenon DEF BoundsInv, fileVars
  <2>5. deleting = Idle /\ deleting' = Idle
    BY <1>1, <2>2, Zenon DEF CallsInv, fileVars
  <2>6. FileGraphInv'
    BY <1>1, <2>1, <2>2, <2>4, <2>5, IdleKeeps, Zenon
  <2>7. PagesInv' /\ PagesSafe'
    BY <2>3, Zenon DEF PagesInv, PagesSafe
  <2>8. LoopsInv'
    BY <2>3, LoopsOver, Zenon DEF Running
  <2>9. CallsInv'
    BY <2>3, <2>5, Zenon DEF CallsInv
  <2> QED BY <2>1, <2>6, <2>7, <2>8, <2>9, Zenon DEF ReorderInv, OthersInv
<1> QED BY <1>2, <1>3, Zenon

LEMMA NothingKeeps ==
    ASSUME ReorderInv, UNCHANGED reorderVars
    PROVE  ReorderInv'
<1>1. UNCHANGED vars /\ call' = call
  BY Zenon DEF reorderVars
<1>2. /\ nodes' = nodes /\ rels' = rels /\ relationship' = relationship /\ deleting' = deleting
      /\ first_relationship' = first_relationship /\ node_pages' = node_pages /\ rel_pages' = rel_pages
  BY <1>1, Zenon DEF vars, nodeVars, relVars
<1>3. FileGraphInv'
  BY <1>1, FileSame, Zenon DEF vars, ReorderInv, FileGraphInv, NeverDangling
<1>4. CallsInv'
  BY <1>1, <1>2, Zenon DEF ReorderInv, CallsInv
<1>5. LoopInv' /\ MapsInv' /\ GroupedInv' /\ PagesInv'
  BY <1>1, Zenon DEF ReorderInv, LoopsInv, OthersInv, LoopInv, MapsInv, GroupedInv, PagesInv, Running
<1>6. RenameInv'
  BY <1>1, <1>2, Zenon DEF ReorderInv, LoopsInv, RenameInv, Running
<1>7. PlaceInv'
  BY <1>1, <1>2, Zenon DEF ReorderInv, LoopsInv, PlaceInv, Running, Ids, PlaceIds, Pages, Slots
<1>8. PagesSafe'
  BY <1>1, <1>2, Zenon DEF ReorderInv, OthersInv, PagesSafe, Pages, Slots, SafeSwap
<1>9. SortInv'
  BY <1>1, <1>2, Zenon DEF ReorderInv, OthersInv, SortInv, NoLoops
<1>10. SortedSoFar'
  BY <1>1, <1>2, Zenon DEF ReorderInv, OthersInv, SortedSoFar, IncidentRels, Incident, Next_
<1> QED BY <1>3, <1>4, <1>5, <1>6, <1>7, <1>8, <1>9, <1>10, Zenon DEF ReorderInv, LoopsInv, OthersInv

\* The calls of reorder_nodes and reorder_relationships.
LEMMA AskKeeps ==
    ASSUME Callers # "any", ReorderInv,
           \/ \E ft \in {"node", "rel"} :
                 \/ ReorderRandomly(ft)
                 \/ \E rank \in Ranks(ft) : BySequence(ft, rank, FALSE)
           \/ ByNodes
    PROVE  ReorderInv'
<1>1. GraphInv /\ BoundsInv
  BY Zenon DEF ReorderInv, FileGraphInv
<1>2. ASSUME NEW ft, NEW new_ids, BeginReorder(ft, new_ids, FALSE) PROVE GroupedInv'
  <2>1. call'.grouped = FALSE
    BY <1>2, Zenon DEF BeginReorder, Reorder
  <2> QED BY <2>1, Zenon DEF GroupedInv
<1>3. ASSUME NEW ft \in {"node", "rel"}, ReorderRandomly(ft) PROVE ReorderInv'
  <2>1. PICK new_ids \in RandomOrders(Ids(ft)) : BeginReorder(ft, new_ids, FALSE)
    BY <1>3, Zenon DEF ReorderRandomly
  <2>2. Askable(ft, new_ids)
    BY <1>1, <2>1, RandomAskable, Zenon
  <2> QED BY <1>2, <2>1, <2>2, BeginKeepsAll, Zenon
<1>4. ASSUME NEW ft \in {"node", "rel"}, NEW rank \in Ranks(ft), BySequence(ft, rank, FALSE)
      PROVE  ReorderInv'
  <2>1. PICK new_ids : new_ids = [x \in Ids(ft) |-> rank[x] * Slots(ft)]
    BY Zenon
  <2>2. BeginReorder(ft, new_ids, FALSE) /\ SafeSequence(ft)
    BY <1>4, <2>1, Zenon DEF BySequence
  <2>3. ft = "node" => Dense(ft)
    BY <2>2, Zenon DEF SafeSequence
  <2>4. Askable(ft, new_ids)
    BY <1>1, <2>1, <2>3, SequenceAskable, Zenon
  <2> QED BY <1>2, <2>2, <2>4, BeginKeepsAll, Zenon
<1>5. CASE ByNodes
  BY <1>1, <1>5, NodesGrouped, BeginKeepsAll, Zenon
<1> QED BY <1>3, <1>4, <1>5, Zenon

LEMMA ReorderInvInitial == ReorderInit => ReorderInv
<1> SUFFICES ASSUME ReorderInit PROVE ReorderInv
  BY Zenon
<1>1. Init /\ call = NoCall /\ call.op = "none"
  BY Zenon DEF ReorderInit, NoCall
<1>2. GraphInv /\ DeletingInv /\ NeverDangling
  BY <1>1, ChainInvInitial, Zenon DEF ChainInv
<1>3. BoundsInv
  BY <1>1, FS_EmptySet, SlotAssumption DEF Init, BoundsInv
<1>4. LoopsInv
  BY <1>1, Zenon DEF LoopsInv, LoopInv, RenameInv, PlaceInv, MapsInv, GroupedInv, Running
<1>5. OthersInv
  BY <1>1, Zenon DEF OthersInv, PagesInv, PagesSafe, SortInv, SortedSoFar
<1> QED BY <1>1, <1>2, <1>3, <1>4, <1>5, Zenon DEF ReorderInv, FileGraphInv, CallsInv

LEMMA ReorderInvStep ==
    ASSUME Callers # "any", Deletions # "any", ReorderInv, [ReorderNext]_reorderVars
    PROVE  ReorderInv'
<1>1. FileGraphInv /\ status # "dangling"
  BY Zenon DEF ReorderInv, FileGraphInv, NeverDangling
<1>2. CASE Build \/ Remove
  <2>1. call' = NoCall
    BY <1>2, Zenon DEF Build, Remove, MayCall
  <2> QED BY <1>1, <1>2, <2>1, BuildKeeps, CallOver, Zenon
<1>3. ASSUME NEW ft \in {"node", "rel"}, NEW fst, NEW snd,
             SwapRecords(ft, fst, snd) \/ SwapRecordPages(ft, fst, snd)
      PROVE  ReorderInv'
  BY <1>3, SwapRecordsKeeps, SwapRecordPagesKeeps, Zenon
<1>4. CASE BySequenceFails
  <2>1. /\ status' # "dangling" /\ call' = NoCall
        /\ UNCHANGED <<nodeVars, relVars, first_relationship, deleting>>
    BY <1>4, Zenon DEF BySequenceFails, MayCall, Exit
  <2> QED BY <1>1, <2>1, FileSame, CallOver, Zenon
<1>5. CASE Return \/ SortReturns
  <2>1. call' = NoCall /\ UNCHANGED vars
    BY <1>5, Zenon DEF Return, SortReturns
  <2>2. FileGraphInv'
    BY <1>1, <2>1, FileSame, Zenon DEF vars
  <2> QED BY <2>1, <2>2, CallOver, Zenon
<1>6. CASE SwapSlot \/ TurnPast \/ TurnSwap \/ TurnFails
  BY <1>6, SwapSlotKeeps, TurnPastKeeps, TurnSwapKeepsAll, TurnFailsKeeps, Zenon
<1>7. CASE SortIncidenceList \/ SortChain
  BY <1>7, SortKeeps, Zenon
<1>8. CASE UNCHANGED reorderVars
  BY <1>8, NothingKeeps, Zenon
<1>9. ASSUME \/ \E ft \in {"node", "rel"} :
                   \/ ReorderRandomly(ft)
                   \/ \E rank \in Ranks(ft) : BySequence(ft, rank, FALSE)
             \/ ByNodes
      PROVE  ReorderInv'
  BY <1>9, AskKeeps, Zenon
<1> QED BY <1>2, <1>3, <1>4, <1>5, <1>6, <1>7, <1>8, <1>9, Zenon DEF ReorderNext

LEMMA PlacedInvStep ==
    ASSUME SlotsPerRel > 1, Callers # "any", ReorderInv, PlacedInv, [ReorderNext]_reorderVars
    PROVE  PlacedInv'
<1>1. GraphInv /\ BoundsInv /\ LoopInv /\ RenameInv
  BY Zenon DEF ReorderInv, FileGraphInv, LoopsInv
<1>2. CASE ~Running'
  BY <1>2, Zenon DEF PlacedInv
<1>3. CASE UNCHANGED reorderVars
  <2>1. call' = call /\ n_nodes' = n_nodes /\ n_rels' = n_rels
    BY <1>3, Zenon DEF reorderVars, vars, nodeVars, relVars
  <2>2. UNCHANGED fileVars
    BY <1>3, Zenon DEF reorderVars, vars, nodeVars, relVars, fileVars
  <2>3. (AskedDense' => AskedDense) /\ Count(call.ft)' = Count(call.ft)
    BY <2>1, <2>2, AskedSame, Zenon
  <2>4. Running' => Running
    BY <2>1, Zenon DEF Running
  <2> QED BY <2>1, <2>3, <2>4, Zenon DEF PlacedInv
<1>4. CASE call' = NoCall \/ SwapSlot \/ SortIncidenceList \/ SortChain
  <2>1. CASE call' = NoCall
    BY <1>2, <2>1, Zenon DEF NoCall, Running
  <2>2. CASE SwapSlot
    <3>1. call.op = "pages" /\ (call' = NoCall \/ \E i : call' = [call EXCEPT !.i = i])
      BY <2>2, Zenon DEF SwapSlot
    <3>2. call'.op # "reorder" /\ call'.op # "done"
      BY <3>1 DEF NoCall, ReorderInv, OthersInv, PagesInv
    <3> QED BY <1>2, <3>2, Zenon DEF Running
  <2>3. CASE SortIncidenceList
    BY <1>2, <2>3, Zenon DEF SortIncidenceList, Running
  <2>4. CASE SortChain
    <3>1. call.op = "sort" /\ \E n : call' = [call EXCEPT !.todo = @ \ {n}]
      BY <2>4, Zenon DEF SortChain
    <3>2. call'.op = "sort"
      BY <3>1, Zenon DEF ReorderInv, OthersInv, SortInv
    <3> QED BY <1>2, <3>2, Zenon DEF Running
  <2> QED BY <1>4, <2>1, <2>2, <2>3, <2>4, Zenon
<1>5. CASE Build \/ Remove \/ BySequenceFails \/ Return \/ SortReturns \/ TurnFails
  <2>1. call' = NoCall
    BY <1>5, Zenon DEF Build, Remove, MayCall, BySequenceFails, Return, SortReturns, TurnFails
  <2> QED BY <1>4, <2>1, Zenon
<1>6. ASSUME NEW ft, NEW fst, NEW snd, SwapRecords(ft, fst, snd) \/ SwapRecordPages(ft, fst, snd)
      PROVE  PlacedInv'
  <2>1. call' = NoCall \/ call'.op = "pages"
    BY <1>6 DEF SwapRecords, SwapRecordPages, MayCall
  <2> QED BY <1>2, <1>4, <2>1, Zenon DEF Running
<1>7. CASE TurnPast \/ TurnSwap
  BY <1>1, <1>7, TurnsPlaced, Zenon
<1>8. ASSUME NEW ft \in {"node", "rel"}, ReorderRandomly(ft) PROVE PlacedInv'
  <2>1. PICK new_ids \in RandomOrders(Ids(ft)) : BeginReorder(ft, new_ids, FALSE)
    BY <1>8, Zenon DEF ReorderRandomly
  <2> QED BY <1>1, <2>1, RandomAskable, BeginPlaced, Zenon
<1>9. ASSUME NEW ft \in {"node", "rel"}, NEW rank \in Ranks(ft), BySequence(ft, rank, FALSE)
      PROVE  PlacedInv'
  <2>1. PICK new_ids : new_ids = [x \in Ids(ft) |-> rank[x] * Slots(ft)]
    BY Zenon
  <2>2. BeginReorder(ft, new_ids, FALSE) /\ SafeSequence(ft)
    BY <1>9, <2>1, Zenon DEF BySequence
  <2>3. ft = "node" => Dense(ft)
    BY <2>2, Zenon DEF SafeSequence
  <2>4. Askable(ft, new_ids)
    BY <1>1, <2>1, <2>3, SequenceAskable, Zenon
  <2> QED BY <1>1, <2>2, <2>4, BeginPlaced, Zenon
<1>10. CASE ByNodes
  BY <1>1, <1>10, NodesGrouped, BeginPlaced, Zenon
<1> QED BY <1>3, <1>4, <1>5, <1>6, <1>7, <1>8, <1>9, <1>10, Zenon DEF ReorderNext

------------------------------------------------------------------------------
(* The theorems *)

LEMMA ReorderInvAlways ==
    ASSUME Callers # "any", Deletions # "any"
    PROVE  ReorderSpec => []ReorderInv
<1>1. ReorderInv /\ [ReorderNext]_reorderVars => ReorderInv'
  BY ReorderInvStep, Zenon
<1> QED BY <1>1, ReorderInvInitial, PTL DEF ReorderSpec

\* What reorder_records.c does leaves a graph, whatever was created and deleted
\* before and in between: after every swap of two records, every slot of two pages,
\* every turn of a reordering and every sorted chain, each chain is one ring through
\* the relationships of its node and expand returns each of them once.
THEOREM ReorderedGraphIsSound ==
    ASSUME Callers # "any", Deletions # "any"
    PROVE  ReorderSpec => []GraphSound
<1>1. ReorderInv => GraphSound
  BY RingsIntact, RingsExpand, Zenon DEF ReorderInv, FileGraphInv, GraphSound
<1> QED BY <1>1, ReorderInvAlways, PTL

\* reorder_nodes and reorder_relationships only rename: at every turn the graph is
\* the one the call began with, where the ids that moved are replaced wherever they
\* occur, for graphs, orders and pages of any size.
THEOREM ReorderingOnlyRenames ==
    ASSUME Callers # "any", Deletions # "any"
    PROVE  ReorderSpec => []OnlyRenamed
<1>1. ReorderInv => OnlyRenamed
  BY CopyIsRenaming, Zenon DEF ReorderInv, LoopsInv
<1> QED BY <1>1, ReorderInvAlways, PTL

\* The entries of the two dictionaries are true at every turn, for the order of the
\* nodes too: every relationship is in the chain of its source, and once.
THEOREM EntriesStayTrue ==
    ASSUME Callers # "any", Deletions # "any"
    PROVE  ReorderSpec => []EntriesTrue
<1>1. ReorderInv => EntriesTrue
  BY Zenon DEF ReorderInv, LoopsInv, LoopInv, Running, Entries, EntriesTrue, EntryOf
<1> QED BY <1>1, ReorderInvAlways, PTL

\* sort_incidence_list: a chain that was sorted ascends, and stays so while the
\* chains of the other nodes, which share its relationships, are sorted.
THEOREM ChainsGetSorted ==
    ASSUME Callers # "any", Deletions # "any"
    PROVE  ReorderSpec => []SortedSoFar
<1>1. ReorderInv => SortedSoFar
  BY Zenon DEF ReorderInv, OthersInv
<1> QED BY <1>1, ReorderInvAlways, PTL

LEMMA PlacedInvAlways ==
    ASSUME SlotsPerRel > 1, Callers # "any", Deletions # "any"
    PROVE  ReorderSpec => [](ReorderInv /\ PlacedInv)
<1>1. ReorderInit => PlacedInv
  BY DEF ReorderInit, NoCall, PlacedInv, Running
<1>2. ReorderInv /\ PlacedInv /\ [ReorderNext]_reorderVars => PlacedInv'
  BY PlacedInvStep, Zenon
<1> QED BY <1>1, <1>2, ReorderInvAlways, PTL DEF ReorderSpec

\* When the loop of reorder_nodes or reorder_relationships ends, every record is
\* where it was asked to be, however the slots were visited, unless two nodes are in
\* slots that the loop never visits.  A relationship takes more than one slot, as
\* NUM_SLOTS_PER_REL says.
THEOREM RecordsArePlaced ==
    ASSUME SlotsPerRel > 1, Callers # "any", Deletions # "any"
    PROVE  ReorderSpec => []PlacedUnlessSkipped
<1>1. ReorderInv /\ PlacedInv => PlacedUnlessSkipped
  BY PlacedRight, Zenon DEF ReorderInv, FileGraphInv, LoopsInv
<1> QED BY <1>1, PlacedInvAlways, PTL

\* reorder_relationships_by_nodes leaves the relationships in the order of their
\* sources.
THEOREM RelationshipsAreGrouped ==
    ASSUME SlotsPerRel > 1, Callers # "any", Deletions # "any"
    PROVE  ReorderSpec => []GroupedBySource
<1>1. ReorderInv /\ PlacedInv => GroupedBySource
  BY PlacedRight, GroupedRight, Zenon DEF ReorderInv, FileGraphInv, LoopsInv
<1> QED BY <1>1, PlacedInvAlways, PTL

==============================================================================
