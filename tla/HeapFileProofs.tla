--------------------------- MODULE HeapFileProofs ----------------------------
(***************************************************************************)
(* Slots are never lost: for pages and records of any size and any number  *)
(* of pages, whatever is created, deleted and reopened.                    *)
(*                                                                         *)
(* The incidence chains: for files of any size, every sequence of          *)
(* creations and of deletions that repair both chains leaves the chain of  *)
(* every node one ring through all its relationships, and expand returns   *)
(* the relationships of a node in the order of the ring.                   *)
(***************************************************************************)
EXTENDS HeapFile, FiniteSetTheorems, WellFoundedInduction, TLAPS

------------------------------------------------------------------------------
(* Arithmetic of slots *)

\* Two multiples of c are at least c apart.
LEMMA MultiplesApart ==
    ASSUME NEW a \in Nat, NEW b \in Nat, NEW c \in Nat \ {0},
           a % c = 0, b % c = 0, a < b
    PROVE  a + c <= b
<1> DEFINE x == a \div c
           y == b \div c
<1>1. x \in Nat /\ y \in Nat
  OBVIOUS
<1>2. a = c * x /\ b = c * y
  OBVIOUS
<1>3. x < y
  <2>1. SUFFICES ASSUME y <= x PROVE FALSE
    BY <1>1
  <2>2. c * y <= c * x
    BY <1>1, <2>1
  <2> QED BY <2>2, <1>2
<1>4. c * (x + 1) <= c * y
  BY <1>1, <1>3
<1> QED BY <1>1, <1>2, <1>4

\* A number of pages has a number of slots that whole records fill.
LEMMA PageMultiple ==
    ASSUME NEW p \in Nat
    PROVE  /\ p * SlotsPerPage \in Nat
           /\ (p * SlotsPerPage) % SlotsPerRel = 0
<1> USE SlotAssumption
<1> DEFINE q == SlotsPerPage \div SlotsPerRel
<1>1. q \in Nat /\ SlotsPerPage = SlotsPerRel * q
  OBVIOUS
<1>2. p * SlotsPerPage = SlotsPerRel * (p * q)
  BY <1>1
<1>3. p * q \in Nat
  BY <1>1
<1> HIDE DEF q
<1>4. \A k \in Nat : (SlotsPerRel * k) % SlotsPerRel = 0
  OBVIOUS
<1> QED BY <1>2, <1>3, <1>4

LEMMA PagesMonotone ==
    ASSUME NEW p \in Nat, NEW q \in Nat, p <= q
    PROVE  p * SlotsPerPage <= q * SlotsPerPage
BY SlotAssumption

LEMMA LeastElement ==
    ASSUME NEW T \in SUBSET Nat, T # {}
    PROVE  \E x \in T : \A y \in T : x <= y
<1>1. PICK x \in T : \A y \in T : ~(<<y, x>> \in OpToRel(<, Nat))
  BY WFMin, NatLessThanWellFounded
<1>2. ASSUME NEW y \in T PROVE x <= y
  <2>1. ~(<<y, x>> \in OpToRel(<, Nat))
    BY <1>1
  <2>2. y \in Nat /\ x \in Nat
    OBVIOUS
  <2>3. ~(y < x)
    BY <2>1, <2>2 DEF OpToRel
  <2> QED BY <2>2, <2>3
<1> QED BY <1>2

\* next_free_slots: the slot it finds is free and lies on the pages there are when
\* it returns, and all slots before it are in use if those before the last are.
LEMMA FreeSlotRight ==
    ASSUME NEW last \in Nat, NEW ids \in SUBSET Nat, NEW used, NEW pages \in Nat,
           \A i \in used : i < pages * SlotsPerPage
    PROVE  LET id == FreeSlot(last, ids, used, pages) IN
           /\ id \in Nat
           /\ id \notin used
           /\ (\A i \in ids : i < last => i \in used) => \A i \in ids : i < id => i \in used
           /\ PagesFor(id, pages) \in Nat
           /\ id < PagesFor(id, pages) * SlotsPerPage
           /\ pages * SlotsPerPage <= PagesFor(id, pages) * SlotsPerPage
<1> DEFINE end  == pages * SlotsPerPage
           free == {i \in ids \ used : last <= i /\ i < end}
           id   == FreeSlot(last, ids, used, pages)
<1>1. end \in Nat
  BY PageMultiple
<1>2. (pages + 1) * SlotsPerPage = end + SlotsPerPage /\ SlotsPerPage > 0
  BY SlotAssumption
<1>3. CASE free = {}
  <2>1. id = end
    BY <1>3 DEF FreeSlot
  <2>2. (\A i \in ids : i < last => i \in used) => \A i \in ids : i < end => i \in used
    BY <1>3, <1>1
  <2>3. PagesFor(id, pages) = pages + 1
    BY <2>1, <1>1 DEF PagesFor
  <2> HIDE DEF id, free
  <2>4. id \notin used
    <3> SUFFICES ASSUME id \in used PROVE FALSE
      OBVIOUS
    <3>1. end < end
      BY <2>1
    <3> QED BY <3>1, <1>1
  <2> HIDE DEF end
  <2>5. end <= (pages + 1) * SlotsPerPage /\ end < (pages + 1) * SlotsPerPage
    BY <1>1, <1>2, SlotAssumption
  <2>6. pages + 1 \in Nat
    OBVIOUS
  <2> QED BY <2>1, <2>2, <2>3, <2>4, <2>5, <2>6, <1>1 DEF end, id
<1>4. CASE free # {}
  <2>1. id = CHOOSE i \in free : \A j \in free : i <= j
    BY <1>4 DEF FreeSlot
  <2>2. free \in SUBSET Nat
    OBVIOUS
  <2> HIDE DEF id, free
  <2>3. id \in free /\ \A j \in free : id <= j
    BY <2>1, <2>2, <1>4, LeastElement
  <2>4. id \in Nat /\ id \notin used /\ id < end
    BY <2>3 DEF free
  <2>5. PagesFor(id, pages) = pages
    BY <2>4 DEF PagesFor
  <2>6. ASSUME \A i \in ids : i < last => i \in used, NEW i \in ids, i < id PROVE i \in used
    <3> SUFFICES ASSUME i \notin used PROVE FALSE
      OBVIOUS
    <3>1. last <= i /\ i < end
      BY <2>4, <2>6, <1>1
    <3>2. id <= i
      BY <3>1, <2>3 DEF free
    <3> QED BY <3>2, <2>4, <2>6
  <2> QED BY <2>4, <2>5, <2>6, <1>1 DEF id
<1> QED BY <1>3, <1>4

------------------------------------------------------------------------------
(* The invariant *)

\* What SlotsAccounted needs: the types of the allocation state, and that the
\* node whose deletion is in progress is there until its last step.
SlotInv ==
    /\ nodes \subseteq NodeIds /\ rels \subseteq RelIds
    /\ last_alloc_node_id \in Nat /\ last_alloc_rel_id \in Nat
    /\ node_pages \in Nat /\ rel_pages \in Nat
    /\ deleting = [node |-> deleting.node, prev |-> deleting.prev, last |-> deleting.last]
    /\ deleting # Idle => deleting.node \in nodes
    /\ SlotsAccounted

LEMMA IdTypes ==
    /\ NodeIds \subseteq Nat /\ IsFiniteSet(NodeIds)
    /\ RelIds \subseteq Nat /\ IsFiniteSet(RelIds)
    /\ \A i \in RelIds : i % SlotsPerRel = 0
<1>1. NodePages * SlotsPerPage \in Nat /\ RelPages * SlotsPerPage \in Nat
  BY SlotAssumption
<1>2. IsFiniteSet(NodeIds)
  BY <1>1, FS_Interval DEF NodeIds
<1>3. IsFiniteSet(0 .. RelPages * SlotsPerPage - 1)
  BY <1>1, FS_Interval
<1>4. RelIds \subseteq 0 .. RelPages * SlotsPerPage - 1
  BY DEF RelIds
<1>5. IsFiniteSet(RelIds)
  BY <1>3, <1>4, FS_Subset
<1> QED BY <1>1, <1>2, <1>5 DEF NodeIds, RelIds

LEMMA FiniteCounts ==
    ASSUME SlotInv
    PROVE  /\ IsFiniteSet(nodes) /\ IsFiniteSet(rels)
           /\ n_nodes \in Nat /\ n_rels \in Nat
<1>1. IsFiniteSet(nodes) /\ IsFiniteSet(rels)
  BY IdTypes, FS_Subset DEF SlotInv
<1>2. Cardinality(nodes) \in Nat /\ Cardinality(rels) \in Nat
  BY <1>1, FS_CardinalityType
<1> QED BY <1>1, <1>2 DEF SlotInv, SlotsAccounted

\* A slot given back lowers the place where the search for free slots begins.
LEMMA MinimumRight ==
    ASSUME NEW a \in Nat, NEW b \in Nat
    PROVE  Minimum(a, b) \in Nat /\ Minimum(a, b) <= a /\ Minimum(a, b) <= b
BY DEF Minimum

\* Every relationship record ends on a page that exists.
LEMMA RecordsFit ==
    ASSUME SlotInv
    PROVE  \A i \in rels : i < rel_pages * SlotsPerPage
<1> SUFFICES ASSUME NEW i \in rels PROVE i < rel_pages * SlotsPerPage
  OBVIOUS
<1>1. i \in Nat /\ i + SlotsPerRel <= rel_pages * SlotsPerPage
  BY IdTypes DEF SlotInv, SlotsAccounted
<1>2. rel_pages * SlotsPerPage \in Nat
  BY PageMultiple DEF SlotInv
<1> QED BY <1>1, <1>2, SlotAssumption

LEMMA CreateNodeKeeps ==
    ASSUME SlotInv, CreateNode
    PROVE  SlotInv'
<1> DEFINE id == FreeNode
<1> USE DEF SlotInv
<1>1. /\ id \in Nat /\ id \notin nodes
      /\ \A i \in NodeIds : i < id => i \in nodes
      /\ PagesFor(id, node_pages) \in Nat
      /\ id < PagesFor(id, node_pages) * SlotsPerPage
      /\ node_pages * SlotsPerPage <= PagesFor(id, node_pages) * SlotsPerPage
  BY FreeSlotRight, IdTypes DEF FreeNode, SlotsAccounted
<1>2. /\ id \in NodeIds /\ nodes' = nodes \cup {id} /\ last_alloc_node_id' = id
      /\ n_nodes' = n_nodes + 1 /\ node_pages' = PagesFor(id, node_pages)
      /\ deleting = Idle /\ deleting' = deleting
      /\ UNCHANGED relVars
  BY DEF CreateNode, Ready
<1> HIDE DEF id
<1>3. Cardinality(nodes \cup {id}) = Cardinality(nodes) + 1
  BY <1>1, FiniteCounts, FS_AddElement
<1>4. \A i \in nodes' : i < node_pages' * SlotsPerPage
  <2> SUFFICES ASSUME NEW i \in nodes' PROVE i < node_pages' * SlotsPerPage
    OBVIOUS
  <2>1. CASE i = id
    BY <2>1, <1>1, <1>2
  <2>2. CASE i \in nodes
    <3>1. i < node_pages * SlotsPerPage /\ i \in Nat
      BY <2>2, IdTypes DEF SlotsAccounted
    <3>2. node_pages * SlotsPerPage \in Nat /\ node_pages' * SlotsPerPage \in Nat
      BY <1>1, <1>2, PageMultiple
    <3> QED BY <3>1, <3>2, <1>1, <1>2
  <2> QED BY <2>1, <2>2, <1>2
<1>5. SlotsAccounted'
  BY <1>1, <1>2, <1>3, <1>4 DEF SlotsAccounted, relVars
<1> QED BY <1>1, <1>2, <1>5 DEF relVars

LEMMA CreateRelationshipKeeps ==
    ASSUME SlotInv, NEW from, NEW to, CreateRelationship(from, to)
    PROVE  SlotInv'
<1> DEFINE id == FreeRel
<1> USE DEF SlotInv
<1>1. /\ id \in Nat /\ id \notin rels
      /\ \A i \in RelIds : i < id => i \in rels
      /\ PagesFor(id, rel_pages) \in Nat
      /\ id < PagesFor(id, rel_pages) * SlotsPerPage
      /\ rel_pages * SlotsPerPage <= PagesFor(id, rel_pages) * SlotsPerPage
  BY FreeSlotRight, IdTypes, RecordsFit DEF FreeRel, SlotsAccounted
<1>2. /\ id \in RelIds /\ rels' = rels \cup {id} /\ last_alloc_rel_id' = id
      /\ n_rels' = n_rels + 1 /\ rel_pages' = PagesFor(id, rel_pages)
      /\ deleting = Idle /\ deleting' = deleting
      /\ UNCHANGED nodeVars
  BY DEF CreateRelationship, Ready
<1> HIDE DEF id
<1>3. Cardinality(rels \cup {id}) = Cardinality(rels) + 1
  BY <1>1, FiniteCounts, FS_AddElement
<1>4. rel_pages * SlotsPerPage \in Nat /\ rel_pages' * SlotsPerPage \in Nat
  BY <1>1, <1>2, PageMultiple
<1>5. \A i \in rels' : i + SlotsPerRel <= rel_pages' * SlotsPerPage
  <2> SUFFICES ASSUME NEW i \in rels' PROVE i + SlotsPerRel <= rel_pages' * SlotsPerPage
    OBVIOUS
  <2>1. CASE i = id
    <3>1. (rel_pages' * SlotsPerPage) % SlotsPerRel = 0 /\ id % SlotsPerRel = 0
      BY <1>1, <1>2, PageMultiple, IdTypes
    <3>2. id < rel_pages' * SlotsPerPage
      BY <1>1, <1>2
    <3> QED BY <2>1, <3>1, <3>2, <1>1, <1>4, MultiplesApart, SlotAssumption
  <2>2. CASE i \in rels
    <3>1. i + SlotsPerRel <= rel_pages * SlotsPerPage /\ i \in Nat
      BY <2>2, IdTypes DEF SlotsAccounted
    <3> QED BY <3>1, <1>1, <1>2, <1>4, SlotAssumption
  <2> QED BY <2>1, <2>2, <1>2
<1>6. SlotsAccounted'
  BY <1>1, <1>2, <1>3, <1>5 DEF SlotsAccounted, nodeVars
<1> QED BY <1>1, <1>2, <1>6 DEF nodeVars

\* Both callers of Delete leave the node under deletion as it is.
LEMMA DeleteKeeps ==
    ASSUME SlotInv, NEW r \in rels, Delete(r),
           deleting' = [node |-> deleting'.node, prev |-> deleting'.prev,
                        last |-> deleting'.last],
           deleting' # Idle => deleting'.node \in nodes
    PROVE  SlotInv'
<1> USE DEF SlotInv
<1> DEFINE m == Minimum(r, last_alloc_rel_id)
<1>1. r \in RelIds /\ r \in Nat
  BY IdTypes
<1>2. m \in Nat /\ m <= r /\ m <= last_alloc_rel_id
  BY <1>1, MinimumRight
<1>3. /\ rels' = rels \ {r} /\ last_alloc_rel_id' = m /\ n_rels' = n_rels - 1
      /\ rel_pages' = rel_pages /\ UNCHANGED nodeVars
  BY DEF Delete
<1> HIDE DEF m
<1>4. Cardinality(rels \ {r}) = Cardinality(rels) - 1
  BY FiniteCounts, FS_RemoveElement
<1>5. \A i \in RelIds : i < m => i \in rels \ {r}
  <2> SUFFICES ASSUME NEW i \in RelIds, i < m PROVE i \in rels /\ i # r
    OBVIOUS
  <2>1. i \in Nat
    BY IdTypes
  <2>2. i < last_alloc_rel_id /\ i # r
    BY <2>1, <1>1, <1>2
  <2> QED BY <2>2 DEF SlotsAccounted
<1>6. SlotsAccounted'
  BY <1>3, <1>4, <1>5 DEF SlotsAccounted, nodeVars
<1> QED BY <1>2, <1>3, <1>6 DEF nodeVars

LEMMA DeleteLastKeeps ==
    ASSUME SlotInv, DeleteLast
    PROVE  SlotInv'
<1> USE DEF SlotInv
<1> DEFINE n == deleting.node
           m == Minimum(n, last_alloc_node_id)
<1>1. n \in nodes /\ n \in Nat
  BY IdTypes DEF DeleteLast
<1>2. m \in Nat /\ m <= n /\ m <= last_alloc_node_id
  BY <1>1, MinimumRight
<1>3. /\ nodes' = nodes \ {n} /\ last_alloc_node_id' = m /\ n_nodes' = n_nodes - 1
      /\ node_pages' = node_pages /\ UNCHANGED relVars /\ deleting' = Idle
  BY DEF DeleteLast
<1> HIDE DEF m, n
<1>4. Cardinality(nodes \ {n}) = Cardinality(nodes) - 1
  BY <1>1, FiniteCounts, FS_RemoveElement
<1>5. \A i \in NodeIds : i < m => i \in nodes \ {n}
  <2> SUFFICES ASSUME NEW i \in NodeIds, i < m PROVE i \in nodes /\ i # n
    OBVIOUS
  <2>1. i \in Nat
    BY IdTypes
  <2>2. i < last_alloc_node_id /\ i # n
    BY <2>1, <1>1, <1>2
  <2> QED BY <2>2 DEF SlotsAccounted
<1>6. SlotsAccounted'
  BY <1>3, <1>4, <1>5 DEF SlotsAccounted, relVars
<1>7. deleting' = [node |-> deleting'.node, prev |-> deleting'.prev, last |-> deleting'.last]
  BY <1>3 DEF Idle
<1> QED BY <1>2, <1>3, <1>6, <1>7 DEF relVars

LEMMA ReopenKeeps ==
    ASSUME SlotInv, Reopen
    PROVE  SlotInv'
<1>1. \A i \in NodeIds \cup RelIds : ~(i < 0)
  BY IdTypes
<1>2. GetNodes = nodes
  BY DEF SlotInv, SlotsAccounted, GetNodes
<1>3. GetRelationships = rels
  BY RecordsFit DEF SlotInv, GetRelationships
<1>4. SlotsAccounted'
  BY <1>1, <1>2, <1>3 DEF SlotInv, SlotsAccounted, Reopen
<1> QED BY <1>4 DEF SlotInv, Reopen

\* Steps that touch neither slots nor counts.
LEMMA SameSlotsKeep ==
    ASSUME SlotInv, UNCHANGED <<nodeVars, relVars>>,
           deleting' = [node |-> deleting'.node, prev |-> deleting'.prev,
                        last |-> deleting'.last],
           deleting' # Idle => deleting'.node \in nodes
    PROVE  SlotInv'
BY DEF SlotInv, SlotsAccounted, nodeVars, relVars

LEMMA SlotInvInductive == SlotInv /\ [Next]_vars => SlotInv'
<1> SUFFICES ASSUME SlotInv, [Next]_vars PROVE SlotInv'
  OBVIOUS
<1>1. CASE CreateNode
  BY <1>1, CreateNodeKeeps
<1>2. ASSUME NEW from \in NodeIds, NEW to \in NodeIds, CreateRelationship(from, to)
      PROVE  SlotInv'
  BY <1>2, CreateRelationshipKeeps
<1>3. ASSUME NEW reason, Exit(reason) PROVE SlotInv'
  BY <1>3, SameSlotsKeep DEF SlotInv, Exit
<1>4. ASSUME NEW r \in RelIds, DeleteRelationship(r) PROVE SlotInv'
  BY <1>4, DeleteKeeps DEF DeleteRelationship, SlotInv
<1>5. ASSUME NEW n \in NodeIds, DeleteNode(n) PROVE SlotInv'
  <2>1. /\ UNCHANGED <<nodeVars, relVars>>
        /\ deleting' = [node |-> deleting'.node, prev |-> deleting'.prev,
                        last |-> deleting'.last]
        /\ deleting'.node \in nodes
    BY <1>5 DEF DeleteNode
  <2> QED BY <2>1, SameSlotsKeep
<1>6. CASE DeleteNext
  <2>1. deleting.prev \in rels /\ Delete(deleting.prev) /\ deleting # Idle
    BY <1>6 DEF DeleteNext
  <2>2. deleting' = [node |-> deleting.node, last |-> deleting.prev,
                     prev |-> Prev(deleting.node, deleting.prev)]
    BY <1>6 DEF DeleteNext, SlotInv
  <2>3. deleting'.node = deleting.node
    BY <2>2
  <2> QED BY <2>1, <2>2, <2>3, DeleteKeeps DEF SlotInv
<1>7. CASE DeleteLast
  BY <1>7, DeleteLastKeeps
<1>8. CASE Reopen
  BY <1>8, ReopenKeeps
<1>9. CASE UNCHANGED vars
  BY <1>9, SameSlotsKeep DEF vars, SlotInv
<1> QED
  BY <1>1, <1>2, <1>3, <1>4, <1>5, <1>6, <1>7, <1>8, <1>9
  DEF Next, CreateRelationshipFails, DeleteRelationshipFails, DeleteNodeFails,
      DeleteNextFails, BadCall

LEMMA SlotInvInitial == Init => SlotInv
<1> SUFFICES ASSUME Init PROVE SlotInv
  OBVIOUS
<1>1. Cardinality({}) = 0
  BY FS_EmptySet
<1>2. \A i \in NodeIds \cup RelIds : ~(i < 0)
  BY IdTypes
<1>3. SlotsAccounted
  BY <1>1, <1>2 DEF Init, SlotsAccounted
<1> QED BY <1>3 DEF Init, SlotInv, Idle

\* next_free_slots never looks below the last allocated id, and never misses a
\* free slot by it; every record lies on a page that exists; n_nodes and n_rels
\* count the header bits: for every page and record size, every number of pages
\* and whatever callers delete.
THEOREM SlotsNeverLost == Spec => []SlotsAccounted
<1>1. SlotInv => SlotsAccounted
  BY DEF SlotInv
<1> QED BY <1>1, SlotInvInitial, SlotInvInductive, PTL DEF Spec

------------------------------------------------------------------------------
(* The links of a relationship in the chain of one of its nodes *)

NextOf(f, n, r) == IF f[r].source = n THEN f[r].next_source ELSE f[r].next_target
PrevOf(f, n, r) == IF f[r].source = n THEN f[r].prev_source ELSE f[r].prev_target
EndOf(f, n, r)  == f[r].source = n \/ f[r].target = n

\* A self loop has the same links on both sides.
LoopsEven(f, r) ==
    f[r].source = f[r].target =>
        f[r].next_source = f[r].next_target /\ f[r].prev_source = f[r].prev_target

SameEnds(f, g) == \A s \in RelIds : g[s].source = f[s].source /\ g[s].target = f[s].target

LEMMA SetNextRight ==
    ASSUME NEW f \in [RelIds -> Records], NEW r \in RelIds, NEW n, NEW v \in Links
    PROVE  LET g == SetNext(f, r, n, v) IN
           /\ g \in [RelIds -> Records] /\ SameEnds(f, g)
           /\ \A s \in RelIds : LoopsEven(f, s) => LoopsEven(g, s)
           /\ \A s \in RelIds : \A p : EndOf(f, p, s) =>
                 /\ NextOf(g, p, s) = IF s = r /\ p = n THEN v ELSE NextOf(f, p, s)
                 /\ PrevOf(g, p, s) = PrevOf(f, p, s)
<1> DEFINE a  == IF f[r].source = n THEN v ELSE f[r].next_source
           b  == IF f[r].target = n THEN v ELSE f[r].next_target
           g  == [[f EXCEPT ![r].next_source = a] EXCEPT ![r].next_target = b]
<1>1. SetNext(f, r, n, v) = g
  BY Zenon DEF SetNext, Records
<1>2. f[r] \in Records /\ a \in Links /\ b \in Links
  BY Zenon DEF Records
<1>3. /\ f[r].source = n => a = v
      /\ f[r].source # n => a = f[r].next_source
      /\ f[r].target = n => b = v
      /\ f[r].target # n => b = f[r].next_target
  BY Zenon
<1> HIDE DEF a, b
<1>4. /\ g[r] \in Records /\ g[r].source = f[r].source /\ g[r].target = f[r].target
      /\ g[r].next_source = a /\ g[r].next_target = b
      /\ g[r].prev_source = f[r].prev_source /\ g[r].prev_target = f[r].prev_target
  BY <1>2, Zenon DEF Records
<1>5. DOMAIN g = RelIds /\ \A s \in RelIds \ {r} : g[s] = f[s]
  BY Zenon
<1>6. g = [s \in RelIds |-> g[s]]
  BY Zenon
<1> HIDE DEF g
<1>7. \A s \in RelIds : g[s] \in Records
  BY <1>4, <1>5, Zenon
<1>8. g \in [RelIds -> Records] /\ SameEnds(f, g)
  BY <1>4, <1>5, <1>6, <1>7, Zenon DEF SameEnds
<1>9. ASSUME NEW s \in RelIds, LoopsEven(f, s) PROVE LoopsEven(g, s)
  BY <1>3, <1>4, <1>5, <1>9, Zenon DEF LoopsEven
<1>10. ASSUME NEW s \in RelIds, NEW p, EndOf(f, p, s)
       PROVE  /\ NextOf(g, p, s) = IF s = r /\ p = n THEN v ELSE NextOf(f, p, s)
              /\ PrevOf(g, p, s) = PrevOf(f, p, s)
  BY <1>3, <1>4, <1>5, <1>10, Zenon DEF EndOf, NextOf, PrevOf
<1> QED BY <1>1, <1>8, <1>9, <1>10, Zenon

LEMMA SetPrevRight ==
    ASSUME NEW f \in [RelIds -> Records], NEW r \in RelIds, NEW n, NEW v \in Links
    PROVE  LET g == SetPrev(f, r, n, v) IN
           /\ g \in [RelIds -> Records] /\ SameEnds(f, g)
           /\ \A s \in RelIds : LoopsEven(f, s) => LoopsEven(g, s)
           /\ \A s \in RelIds : \A p : EndOf(f, p, s) =>
                 /\ PrevOf(g, p, s) = IF s = r /\ p = n THEN v ELSE PrevOf(f, p, s)
                 /\ NextOf(g, p, s) = NextOf(f, p, s)
<1> DEFINE a  == IF f[r].source = n THEN v ELSE f[r].prev_source
           b  == IF f[r].target = n THEN v ELSE f[r].prev_target
           g  == [[f EXCEPT ![r].prev_source = a] EXCEPT ![r].prev_target = b]
<1>1. SetPrev(f, r, n, v) = g
  BY Zenon DEF SetPrev, Records
<1>2. f[r] \in Records /\ a \in Links /\ b \in Links
  BY Zenon DEF Records
<1>3. /\ f[r].source = n => a = v
      /\ f[r].source # n => a = f[r].prev_source
      /\ f[r].target = n => b = v
      /\ f[r].target # n => b = f[r].prev_target
  BY Zenon
<1> HIDE DEF a, b
<1>4. /\ g[r] \in Records /\ g[r].source = f[r].source /\ g[r].target = f[r].target
      /\ g[r].prev_source = a /\ g[r].prev_target = b
      /\ g[r].next_source = f[r].next_source /\ g[r].next_target = f[r].next_target
  BY <1>2, Zenon DEF Records
<1>5. DOMAIN g = RelIds /\ \A s \in RelIds \ {r} : g[s] = f[s]
  BY Zenon
<1>6. g = [s \in RelIds |-> g[s]]
  BY Zenon
<1> HIDE DEF g
<1>7. \A s \in RelIds : g[s] \in Records
  BY <1>4, <1>5, Zenon
<1>8. g \in [RelIds -> Records] /\ SameEnds(f, g)
  BY <1>4, <1>5, <1>6, <1>7, Zenon DEF SameEnds
<1>9. ASSUME NEW s \in RelIds, LoopsEven(f, s) PROVE LoopsEven(g, s)
  BY <1>3, <1>4, <1>5, <1>9, Zenon DEF LoopsEven
<1>10. ASSUME NEW s \in RelIds, NEW p, EndOf(f, p, s)
       PROVE  /\ PrevOf(g, p, s) = IF s = r /\ p = n THEN v ELSE PrevOf(f, p, s)
              /\ NextOf(g, p, s) = NextOf(f, p, s)
  BY <1>3, <1>4, <1>5, <1>10, Zenon DEF EndOf, NextOf, PrevOf
<1> QED BY <1>1, <1>8, <1>9, <1>10, Zenon

------------------------------------------------------------------------------
(* Rings *)

\* The relationships c[1], ..., c[m] of rs are the chain of n, first is where it
\* begins.
IsRing(f, rs, first, n, m, c) ==
    /\ c \in [1 .. m -> rs]
    /\ \A i, j \in 1 .. m : c[i] = c[j] => i = j
    /\ \A s \in rs : EndOf(f, n, s) <=> \E i \in 1 .. m : c[i] = s
    /\ first = IF m = 0 THEN NoId ELSE c[1]
    /\ \A i \in 1 .. m : NextOf(f, n, c[i]) = IF i = m THEN c[1] ELSE c[i + 1]
    /\ \A i \in 1 .. m : PrevOf(f, n, c[i]) = IF i = 1 THEN c[m] ELSE c[i - 1]

HasRing(f, rs, first, n) == \E m \in Nat : \E c : IsRing(f, rs, first, n, m, c)

\* A step that touches no relationship of the node.
LEMMA RingKept ==
    ASSUME NEW f, NEW g, NEW rs, NEW ts, NEW first, NEW n, HasRing(f, rs, first, n),
           \A s : (s \in rs /\ EndOf(f, n, s)) <=> (s \in ts /\ EndOf(g, n, s)),
           \A s \in rs : EndOf(f, n, s) =>
                NextOf(g, n, s) = NextOf(f, n, s) /\ PrevOf(g, n, s) = PrevOf(f, n, s)
    PROVE  HasRing(g, ts, first, n)
<1>0. PICK m \in Nat : \E c : IsRing(f, rs, first, n, m, c)
  BY Zenon DEF HasRing
<1>1. PICK c : IsRing(f, rs, first, n, m, c)
  BY <1>0, Zenon
<1>2. c \in [1 .. m -> rs]
  BY <1>1, Zenon DEF IsRing
<1>3. \A i \in 1 .. m : EndOf(f, n, c[i]) /\ c[i] \in rs
  BY <1>1, <1>2, Zenon DEF IsRing
<1>4. \A i \in 1 .. m : c[i] \in ts /\ EndOf(g, n, c[i])
  BY <1>3, Zenon
<1>5. c \in [1 .. m -> ts]
  BY <1>2, <1>4, Zenon
<1>6. \A s \in ts : EndOf(g, n, s) <=> \E i \in 1 .. m : c[i] = s
  <2> SUFFICES ASSUME NEW s \in ts PROVE EndOf(g, n, s) <=> \E i \in 1 .. m : c[i] = s
    BY Zenon
  <2>1. ASSUME EndOf(g, n, s) PROVE \E i \in 1 .. m : c[i] = s
    BY <2>1, <1>1, Zenon DEF IsRing
  <2> QED BY <2>1, <1>4, Zenon
<1>7. \A i \in 1 .. m : /\ NextOf(g, n, c[i]) = NextOf(f, n, c[i])
                        /\ PrevOf(g, n, c[i]) = PrevOf(f, n, c[i])
  BY <1>3, Zenon
<1>8. IsRing(g, ts, first, n, m, c)
  BY <1>1, <1>5, <1>6, <1>7, Zenon DEF IsRing
<1> QED BY <1>8, Zenon DEF HasRing

\* The links of the chain of n in g are those of f with r between L and F.
LinkedAt(f, g, rs, r, n, F, L) ==
    \A s \in rs \cup {r} : EndOf(g, n, s) =>
        /\ NextOf(g, n, s) = IF s = L THEN r ELSE IF s = r THEN F ELSE NextOf(f, n, s)
        /\ PrevOf(g, n, s) = IF s = F THEN r ELSE IF s = r THEN L ELSE PrevOf(f, n, s)

\* The links of the chain of n in g are those of f without r.
UnlinkedAt(f, g, rs, r, n) ==
    \A s \in rs \ {r} : EndOf(f, n, s) =>
        /\ NextOf(g, n, s) = IF s = PrevOf(f, n, r) THEN NextOf(f, n, r) ELSE NextOf(f, n, s)
        /\ PrevOf(g, n, s) = IF s = NextOf(f, n, r) THEN PrevOf(f, n, r) ELSE PrevOf(f, n, s)

SameEndsAt(f, g, rs, n) == \A s \in rs : EndOf(g, n, s) <=> EndOf(f, n, s)

\* A relationship is linked in at the end of the chain.
LEMMA RingAppended ==
    ASSUME NEW f, NEW g, NEW rs, NEW r, r \notin rs, r # NoId, NEW n, NEW m \in Nat, NEW c, NEW first,
           IsRing(f, rs, first, n, m, c),
           EndOf(g, n, r), SameEndsAt(f, g, rs, n),
           NEW F, NEW L, F = (IF m = 0 THEN r ELSE c[1]), L = (IF m = 0 THEN r ELSE c[m]),
           LinkedAt(f, g, rs, r, n, F, L)
    PROVE  HasRing(g, rs \cup {r}, F, n)
<1> USE DEF LinkedAt, SameEndsAt
<1> DEFINE d == [i \in 1 .. m + 1 |-> IF i = m + 1 THEN r ELSE c[i]]
<1>1. /\ c \in [1 .. m -> rs]
      /\ \A i, j \in 1 .. m : c[i] = c[j] => i = j
      /\ \A s \in rs : EndOf(f, n, s) <=> \E i \in 1 .. m : c[i] = s
      /\ \A i \in 1 .. m : NextOf(f, n, c[i]) = IF i = m THEN c[1] ELSE c[i + 1]
      /\ \A i \in 1 .. m : PrevOf(f, n, c[i]) = IF i = 1 THEN c[m] ELSE c[i - 1]
  BY Zenon DEF IsRing
<1>2. /\ d \in [1 .. m + 1 -> rs \cup {r}]
      /\ d[m + 1] = r
      /\ \A i \in 1 .. m : d[i] = c[i] /\ c[i] \in rs /\ c[i] # r
      /\ \A i \in 1 .. m + 1 : i \in 1 .. m \/ i = m + 1
  BY <1>1
<1> HIDE DEF d
<1>3. \A i, j \in 1 .. m + 1 : d[i] = d[j] => i = j
  BY <1>1, <1>2
<1>4. ASSUME NEW s \in rs \cup {r} PROVE EndOf(g, n, s) <=> \E i \in 1 .. m + 1 : d[i] = s
  <2>1. CASE s = r
    BY <2>1, <1>2
  <2>2. CASE s \in rs
    <3>1. EndOf(g, n, s) <=> \E i \in 1 .. m : c[i] = s
      BY <2>2, <1>1, Zenon
    <3>2. s # r
      BY <2>2, Zenon
    <3>3. ASSUME NEW i \in 1 .. m, c[i] = s PROVE \E j \in 1 .. m + 1 : d[j] = s
      <4>1. i \in 1 .. m + 1 /\ d[i] = s
        BY <3>3, <1>2
      <4> QED BY <4>1, Zenon
    <3>4. ASSUME NEW i \in 1 .. m + 1, d[i] = s PROVE i \in 1 .. m /\ c[i] = s
      BY <3>4, <3>2, <1>2, Zenon
    <3> QED BY <3>1, <3>3, <3>4, Zenon
  <2> QED BY <2>1, <2>2, Zenon
<1>5. F = d[1] /\ F \in rs \cup {r} /\ L \in rs \cup {r}
  <2>1. CASE m = 0
    BY <2>1, <1>2
  <2>2. CASE m # 0
    BY <2>2, <1>2
  <2> QED BY <2>1, <2>2, Zenon
<1>6. \A i \in 1 .. m + 1 : EndOf(g, n, d[i]) /\ d[i] \in rs \cup {r}
  BY <1>2, <1>4, Zenon
<1>7. ASSUME NEW i \in 1 .. m + 1
      PROVE  /\ NextOf(g, n, d[i]) = IF i = m + 1 THEN d[1] ELSE d[i + 1]
             /\ PrevOf(g, n, d[i]) = IF i = 1 THEN d[m + 1] ELSE d[i - 1]
  <2>1. /\ NextOf(g, n, d[i]) = IF d[i] = L THEN r ELSE IF d[i] = r THEN F ELSE NextOf(f, n, d[i])
        /\ PrevOf(g, n, d[i]) = IF d[i] = F THEN r ELSE IF d[i] = r THEN L ELSE PrevOf(f, n, d[i])
    BY <1>6, Zenon
  <2>2. CASE m = 0
    BY <2>1, <2>2, <1>2
  <2>3. CASE m # 0
    <3>1. F = c[1] /\ L = c[m] /\ 1 \in 1 .. m /\ m \in 1 .. m
      BY <2>3
    <3>2. CASE i = m + 1
      BY <2>1, <3>1, <3>2, <1>2, <1>5
    <3>3. CASE i \in 1 .. m
      <4>1. d[i] = c[i] /\ c[i] # r
        BY <3>3, <1>2, Zenon
      <4>2. c[i] = L <=> i = m
        BY <3>1, <3>3, <1>1
      <4>3. c[i] = F <=> i = 1
        BY <3>1, <3>3, <1>1
      <4>4. NextOf(g, n, d[i]) = d[i + 1]
        <5>1. CASE i = m
          BY <5>1, <2>1, <4>1, <4>2, <1>2, Zenon
        <5>2. CASE i # m
          <6>1. i + 1 \in 1 .. m
            BY <5>2, <3>3
          <6> QED BY <5>2, <6>1, <2>1, <4>1, <4>2, <3>3, <1>1, <1>2, Zenon
        <5> QED BY <5>1, <5>2, Zenon
      <4>5. PrevOf(g, n, d[i]) = IF i = 1 THEN d[m + 1] ELSE d[i - 1]
        <5>1. CASE i = 1
          BY <5>1, <2>1, <4>1, <4>3, <1>2, Zenon
        <5>2. CASE i # 1
          <6>1. i - 1 \in 1 .. m
            BY <5>2, <3>3
          <6> QED BY <5>2, <6>1, <2>1, <4>1, <4>3, <3>3, <1>1, <1>2, Zenon
        <5> QED BY <5>1, <5>2, Zenon
      <4> QED BY <4>4, <4>5, <3>3
    <3> QED BY <3>2, <3>3, <1>2, Zenon
  <2> QED BY <2>2, <2>3, Zenon
<1>8. IsRing(g, rs \cup {r}, F, n, m + 1, d)
  BY <1>2, <1>3, <1>4, <1>5, <1>7 DEF IsRing
<1> QED BY <1>8 DEF HasRing

\* A relationship is taken out of the chain.
LEMMA RingDropped ==
    ASSUME NEW f, NEW g, NEW rs, NEW r \in rs, NoId \notin rs, NEW n, NEW first,
           HasRing(f, rs, first, n), EndOf(f, n, r),
           SameEndsAt(f, g, rs \ {r}, n), UnlinkedAt(f, g, rs, r, n)
    PROVE  HasRing(g, rs \ {r}, FirstWithout(first, r, NextOf(f, n, r)), n)
<1> USE DEF UnlinkedAt, SameEndsAt
<1>0. PICK m \in Nat : \E c : IsRing(f, rs, first, n, m, c)
  BY Zenon DEF HasRing
<1>1. PICK c : IsRing(f, rs, first, n, m, c)
  BY <1>0, Zenon
<1>2. /\ c \in [1 .. m -> rs]
      /\ \A i, j \in 1 .. m : c[i] = c[j] => i = j
      /\ \A s \in rs : EndOf(f, n, s) <=> \E i \in 1 .. m : c[i] = s
      /\ first = IF m = 0 THEN NoId ELSE c[1]
      /\ \A i \in 1 .. m : NextOf(f, n, c[i]) = IF i = m THEN c[1] ELSE c[i + 1]
      /\ \A i \in 1 .. m : PrevOf(f, n, c[i]) = IF i = 1 THEN c[m] ELSE c[i - 1]
  BY <1>1, Zenon DEF IsRing
<1>3. PICK k \in 1 .. m : c[k] = r
  BY <1>2, Zenon
<1> DEFINE up(i) == IF i < k THEN i ELSE i + 1
           d     == [i \in 1 .. m - 1 |-> c[up(i)]]
<1>4. \A i \in 1 .. m - 1 : up(i) \in 1 .. m /\ up(i) # k /\ d[i] = c[up(i)]
  BY <1>3
<1>5. \A i, j \in 1 .. m - 1 : up(i) = up(j) => i = j
  OBVIOUS
<1>6. \A i \in 1 .. m : i # k => \E j \in 1 .. m - 1 : up(j) = i
  <2> SUFFICES ASSUME NEW i \in 1 .. m, i # k PROVE \E j \in 1 .. m - 1 : up(j) = i
    BY Zenon
  <2>1. CASE i < k
    <3>1. i \in 1 .. m - 1 /\ up(i) = i
      BY <2>1, <1>3
    <3> QED BY <3>1, Zenon
  <2>2. CASE i > k
    <3>1. i - 1 \in 1 .. m - 1 /\ up(i - 1) = i
      BY <2>2, <1>3
    <3> QED BY <3>1, Zenon
  <2> QED BY <2>1, <2>2, <1>3
<1>7. \A i \in 1 .. m - 1 : d[i] \in rs \ {r} /\ EndOf(f, n, d[i])
  BY <1>2, <1>3, <1>4, Zenon
<1>8. d \in [1 .. m - 1 -> rs \ {r}]
  BY <1>7, Zenon
<1>9. \A i, j \in 1 .. m - 1 : d[i] = d[j] => i = j
  BY <1>2, <1>4, <1>5, Zenon
<1>10. ASSUME NEW s \in rs \ {r} PROVE EndOf(g, n, s) <=> \E i \in 1 .. m - 1 : d[i] = s
  <2>1. ASSUME EndOf(g, n, s) PROVE \E i \in 1 .. m - 1 : d[i] = s
    <3>1. PICK i \in 1 .. m : c[i] = s
      BY <2>1, <1>2, Zenon
    <3>2. i # k
      BY <3>1, <1>3, Zenon
    <3>3. PICK j \in 1 .. m - 1 : up(j) = i
      BY <3>2, <1>6, Zenon
    <3> QED BY <3>1, <3>3, <1>4, Zenon
  <2> QED BY <2>1, <1>7, Zenon
<1>11. FirstWithout(first, r, NextOf(f, n, r)) = IF m - 1 = 0 THEN NoId ELSE d[1]
  <2>1. first = c[1] /\ (c[1] = r <=> k = 1) /\ 1 \in 1 .. m
    BY <1>2, <1>3
  <2>2. CASE k # 1
    <3>1. 1 \in 1 .. m - 1 /\ up(1) = 1
      BY <2>2, <1>3
    <3> QED BY <2>1, <2>2, <3>1, <1>4 DEF FirstWithout
  <2>3. CASE k = 1 /\ m = 1
    BY <2>1, <2>3, <1>2, <1>3 DEF FirstWithout
  <2>4. CASE k = 1 /\ m # 1
    <3>1. 1 \in 1 .. m - 1 /\ up(1) = 2 /\ 2 \in 1 .. m /\ m # 1
      BY <2>4, <1>3
    <3>2. NextOf(f, n, r) = c[2] /\ c[2] # r
      BY <2>4, <3>1, <1>2, <1>3
    <3> QED BY <2>1, <2>4, <3>1, <3>2, <1>4 DEF FirstWithout
  <2> QED BY <2>2, <2>3, <2>4, Zenon
<1>12. ASSUME NEW i \in 1 .. m - 1
       PROVE  NextOf(g, n, d[i]) = IF i = m - 1 THEN d[1] ELSE d[i + 1]
  <2>1. /\ NextOf(g, n, d[i]) = IF d[i] = PrevOf(f, n, r) THEN NextOf(f, n, r) ELSE NextOf(f, n, d[i])
        /\ d[i] = c[up(i)] /\ up(i) \in 1 .. m /\ up(i) # k
    BY <1>4, <1>7, Zenon
  <2>2. PrevOf(f, n, r) = (IF k = 1 THEN c[m] ELSE c[k - 1])
    BY <1>2, <1>3, Zenon
  <2>3. NextOf(f, n, r) = (IF k = m THEN c[1] ELSE c[k + 1])
    BY <1>2, <1>3, Zenon
  <2>4. NextOf(f, n, d[i]) = (IF up(i) = m THEN c[1] ELSE c[up(i) + 1])
    BY <2>1, <1>2, Zenon
  <2>5. d[i] = PrevOf(f, n, r) <=> up(i) = (IF k = 1 THEN m ELSE k - 1)
    <3>1. (IF k = 1 THEN m ELSE k - 1) \in 1 .. m
      BY <1>3
    <3> QED BY <2>1, <2>2, <3>1, <1>2
  <2>6. CASE i = m - 1
    <3>1. d[1] = c[up(1)]
      BY <1>4
    <3> QED BY <2>1, <2>2, <2>3, <2>4, <2>5, <2>6, <3>1, <1>3
  <2>7. CASE i # m - 1
    <3>1. d[i + 1] = c[up(i + 1)]
      BY <2>7, <1>4
    <3> QED BY <2>1, <2>2, <2>3, <2>4, <2>5, <2>7, <3>1, <1>3
  <2> QED BY <2>6, <2>7, Zenon
<1>13. ASSUME NEW i \in 1 .. m - 1
       PROVE  PrevOf(g, n, d[i]) = IF i = 1 THEN d[m - 1] ELSE d[i - 1]
  <2>1. /\ PrevOf(g, n, d[i]) = IF d[i] = NextOf(f, n, r) THEN PrevOf(f, n, r) ELSE PrevOf(f, n, d[i])
        /\ d[i] = c[up(i)] /\ up(i) \in 1 .. m /\ up(i) # k
    BY <1>4, <1>7, Zenon
  <2>2. PrevOf(f, n, r) = (IF k = 1 THEN c[m] ELSE c[k - 1])
    BY <1>2, <1>3, Zenon
  <2>3. NextOf(f, n, r) = (IF k = m THEN c[1] ELSE c[k + 1])
    BY <1>2, <1>3, Zenon
  <2>4. PrevOf(f, n, d[i]) = (IF up(i) = 1 THEN c[m] ELSE c[up(i) - 1])
    BY <2>1, <1>2, Zenon
  <2>5. d[i] = NextOf(f, n, r) <=> up(i) = (IF k = m THEN 1 ELSE k + 1)
    <3>1. (IF k = m THEN 1 ELSE k + 1) \in 1 .. m
      BY <1>3
    <3> QED BY <2>1, <2>3, <3>1, <1>2
  <2>6. CASE i = 1
    <3>1. d[m - 1] = c[up(m - 1)]
      BY <1>4
    <3> QED BY <2>1, <2>2, <2>3, <2>4, <2>5, <2>6, <3>1, <1>3
  <2>7. CASE i # 1
    <3>1. d[i - 1] = c[up(i - 1)]
      BY <2>7, <1>4
    <3> QED BY <2>1, <2>2, <2>3, <2>4, <2>5, <2>7, <3>1, <1>3
  <2> QED BY <2>6, <2>7, Zenon
<1>14. m - 1 \in Nat
  BY <1>3
<1> HIDE DEF d, up
<1>15. IsRing(g, rs \ {r}, FirstWithout(first, r, NextOf(f, n, r)), n, m - 1, d)
  BY <1>8, <1>9, <1>10, <1>11, <1>12, <1>13, Zenon DEF IsRing
<1> QED BY <1>14, <1>15, Zenon DEF HasRing

------------------------------------------------------------------------------
(* The invariant of the records *)

GraphInv ==
    /\ nodes \subseteq NodeIds /\ rels \subseteq RelIds
    /\ relationship \in [RelIds -> Records]
    /\ first_relationship \in [NodeIds -> Links]
    /\ \A r \in rels : relationship[r].source \in nodes /\ relationship[r].target \in nodes
    /\ \A r \in rels : LoopsEven(relationship, r)
    /\ \A n \in nodes : HasRing(relationship, rels, first_relationship[n], n)

LEMMA NoIdApart == NoId \notin RelIds /\ NoId \notin NodeIds /\ NoId \in Links /\ RelIds \subseteq Links
BY IdTypes DEF NoId, Links

\* What the ring of a node says of the relationships read when its ends are
\* looked up, and of the neighbours of a relationship.
LEMMA RingLinks ==
    ASSUME NEW f, NEW rs, NoId \notin rs, NEW first, NEW n, HasRing(f, rs, first, n)
    PROVE  /\ first = NoId \/ (first \in rs /\ EndOf(f, n, first))
           /\ first = NoId => \A s \in rs : ~EndOf(f, n, s)
           /\ \A s \in rs : EndOf(f, n, s) =>
                 /\ NextOf(f, n, s) \in rs /\ EndOf(f, n, NextOf(f, n, s))
                 /\ PrevOf(f, n, s) \in rs /\ EndOf(f, n, PrevOf(f, n, s))
                 /\ PrevOf(f, n, NextOf(f, n, s)) = s
                 /\ NextOf(f, n, PrevOf(f, n, s)) = s
<1>0. PICK m \in Nat : \E c : IsRing(f, rs, first, n, m, c)
  BY Zenon DEF HasRing
<1>1. PICK c : IsRing(f, rs, first, n, m, c)
  BY <1>0, Zenon
<1>2. /\ c \in [1 .. m -> rs]
      /\ \A s \in rs : EndOf(f, n, s) <=> \E i \in 1 .. m : c[i] = s
      /\ first = IF m = 0 THEN NoId ELSE c[1]
      /\ \A i \in 1 .. m : NextOf(f, n, c[i]) = IF i = m THEN c[1] ELSE c[i + 1]
      /\ \A i \in 1 .. m : PrevOf(f, n, c[i]) = IF i = 1 THEN c[m] ELSE c[i - 1]
  BY <1>1, Zenon DEF IsRing
<1>3. \A i \in 1 .. m : c[i] \in rs /\ EndOf(f, n, c[i])
  BY <1>2, Zenon
<1>4. CASE m = 0
  BY <1>2, <1>4
<1>5. CASE m # 0
  <2>1. 1 \in 1 .. m /\ m \in 1 .. m
    BY <1>5
  <2>2. first \in rs /\ EndOf(f, n, first)
    BY <1>2, <1>3, <1>5, <2>1, Zenon
  <2>3. ASSUME NEW s \in rs, EndOf(f, n, s)
        PROVE  /\ NextOf(f, n, s) \in rs /\ EndOf(f, n, NextOf(f, n, s))
               /\ PrevOf(f, n, s) \in rs /\ EndOf(f, n, PrevOf(f, n, s))
               /\ PrevOf(f, n, NextOf(f, n, s)) = s
               /\ NextOf(f, n, PrevOf(f, n, s)) = s
    <3>1. PICK i \in 1 .. m : c[i] = s
      BY <2>3, <1>2, Zenon
    <3> DEFINE j == IF i = m THEN 1 ELSE i + 1
               k == IF i = 1 THEN m ELSE i - 1
    <3>2. j \in 1 .. m /\ k \in 1 .. m
      BY <2>1
    <3>3. NextOf(f, n, s) = c[j] /\ PrevOf(f, n, s) = c[k]
      BY <3>1, <1>2, Zenon
    <3>4. (IF j = 1 THEN m ELSE j - 1) = i /\ (IF k = m THEN 1 ELSE k + 1) = i
      BY <2>1
    <3> HIDE DEF j, k
    <3>5. PrevOf(f, n, c[j]) = s /\ NextOf(f, n, c[k]) = s
      BY <3>1, <3>2, <3>4, <1>2, Zenon
    <3> QED BY <3>2, <3>3, <3>5, <1>3, Zenon
  <2> QED BY <2>2, <2>3, <1>2, <1>5, Zenon
<1> QED BY <1>4, <1>5, Zenon

LEMMA ChainEnds ==
    ASSUME GraphInv, NEW n \in nodes, NEW r \in RelIds
    PROVE  /\ EndsExist(n)
           /\ FirstRel(n, r) \in RelIds /\ LastRel(n, r) \in RelIds
<1>1. HasRing(relationship, rels, first_relationship[n], n) /\ NoId \notin rels
  BY NoIdApart, Zenon DEF GraphInv
<1>2. CASE first_relationship[n] = NoId
  BY <1>2, Zenon DEF EndsExist, FirstRel, LastRel
<1>3. CASE first_relationship[n] # NoId
  <2>1. /\ first_relationship[n] \in rels
        /\ PrevOf(relationship, n, first_relationship[n]) \in rels
    BY <1>1, <1>3, RingLinks, Zenon
  <2>2. PrevOf(relationship, n, first_relationship[n]) = Prev(n, first_relationship[n])
    BY Zenon DEF PrevOf, Prev
  <2> QED BY <1>3, <2>1, <2>2, Zenon DEF EndsExist, FirstRel, LastRel, GraphInv
<1> QED BY <1>2, <1>3, Zenon

------------------------------------------------------------------------------
(* create_relationship *)

LEMMA LinkedRight ==
    ASSUME GraphInv, NEW r \in RelIds, r \notin rels, NEW from \in nodes, NEW to \in nodes
    PROVE  LET g == Linked(r, from, to) IN
           /\ g \in [RelIds -> Records]
           /\ g[r].source = from /\ g[r].target = to
           /\ \A s \in RelIds \ {r} : /\ g[s].source = relationship[s].source
                                      /\ g[s].target = relationship[s].target
           /\ \A s \in rels \cup {r} : LoopsEven(g, s)
           /\ \A s \in rels \cup {r} : \A n : EndOf(g, n, s) =>
                 /\ NextOf(g, n, s) = IF n \in {from, to} /\ s = LastRel(n, r) THEN r
                                      ELSE IF s = r THEN FirstRel(n, r)
                                      ELSE NextOf(relationship, n, s)
                 /\ PrevOf(g, n, s) = IF n \in {from, to} /\ s = FirstRel(n, r) THEN r
                                      ELSE IF s = r THEN LastRel(n, r)
                                      ELSE PrevOf(relationship, n, s)
<1> DEFINE new == [source |-> from, target |-> to,
                   prev_source |-> LastRel(from, r), next_source |-> FirstRel(from, r),
                   prev_target |-> LastRel(to, r), next_target |-> FirstRel(to, r)]
           f0  == [relationship EXCEPT ![r] = new]
           f1  == SetNext(f0, LastRel(from, r), from, r)
           f2  == SetNext(f1, LastRel(to, r), to, r)
           f3  == SetPrev(f2, FirstRel(from, r), from, r)
           f4  == SetPrev(f3, FirstRel(to, r), to, r)
<1>1. /\ FirstRel(from, r) \in RelIds /\ LastRel(from, r) \in RelIds
      /\ FirstRel(to, r) \in RelIds /\ LastRel(to, r) \in RelIds
      /\ r \in Links /\ RelIds \subseteq Links
  BY ChainEnds, NoIdApart, Zenon
<1>2. new \in Records
  BY <1>1, Zenon DEF Records, GraphInv
<1>3. /\ new.source = from /\ new.target = to
      /\ new.prev_source = LastRel(from, r) /\ new.next_source = FirstRel(from, r)
      /\ new.prev_target = LastRel(to, r) /\ new.next_target = FirstRel(to, r)
  BY Zenon
<1>4. Linked(r, from, to) = f4
  BY Zenon DEF Linked
<1> HIDE DEF new
<1>5. /\ f0 \in [RelIds -> Records] /\ f0[r] = new
      /\ \A s \in RelIds \ {r} : f0[s] = relationship[s]
  BY <1>2, Zenon DEF GraphInv
<1> HIDE DEF f0
<1>6. /\ f1 \in [RelIds -> Records] /\ SameEnds(f0, f1)
      /\ \A s \in RelIds : LoopsEven(f0, s) => LoopsEven(f1, s)
      /\ \A s \in RelIds : \A p : EndOf(f0, p, s) =>
            /\ NextOf(f1, p, s) = IF s = LastRel(from, r) /\ p = from THEN r ELSE NextOf(f0, p, s)
            /\ PrevOf(f1, p, s) = PrevOf(f0, p, s)
  BY <1>1, <1>5, SetNextRight
<1> HIDE DEF f1
<1>7. /\ f2 \in [RelIds -> Records] /\ SameEnds(f1, f2)
      /\ \A s \in RelIds : LoopsEven(f1, s) => LoopsEven(f2, s)
      /\ \A s \in RelIds : \A p : EndOf(f1, p, s) =>
            /\ NextOf(f2, p, s) = IF s = LastRel(to, r) /\ p = to THEN r ELSE NextOf(f1, p, s)
            /\ PrevOf(f2, p, s) = PrevOf(f1, p, s)
  BY <1>1, <1>6, SetNextRight
<1> HIDE DEF f2
<1>8. /\ f3 \in [RelIds -> Records] /\ SameEnds(f2, f3)
      /\ \A s \in RelIds : LoopsEven(f2, s) => LoopsEven(f3, s)
      /\ \A s \in RelIds : \A p : EndOf(f2, p, s) =>
            /\ PrevOf(f3, p, s) = IF s = FirstRel(from, r) /\ p = from THEN r ELSE PrevOf(f2, p, s)
            /\ NextOf(f3, p, s) = NextOf(f2, p, s)
  BY <1>1, <1>7, SetPrevRight
<1> HIDE DEF f3
<1>9. /\ f4 \in [RelIds -> Records] /\ SameEnds(f3, f4)
      /\ \A s \in RelIds : LoopsEven(f3, s) => LoopsEven(f4, s)
      /\ \A s \in RelIds : \A p : EndOf(f3, p, s) =>
            /\ PrevOf(f4, p, s) = IF s = FirstRel(to, r) /\ p = to THEN r ELSE PrevOf(f3, p, s)
            /\ NextOf(f4, p, s) = NextOf(f3, p, s)
  BY <1>1, <1>8, SetPrevRight
<1> HIDE DEF f4
<1>10. SameEnds(f0, f1) /\ SameEnds(f0, f2) /\ SameEnds(f0, f3) /\ SameEnds(f0, f4)
  BY <1>6, <1>7, <1>8, <1>9 DEF SameEnds
<1>11. /\ f4[r].source = from /\ f4[r].target = to
       /\ \A s \in RelIds \ {r} : /\ f4[s].source = relationship[s].source
                                  /\ f4[s].target = relationship[s].target
  BY <1>3, <1>5, <1>10, Zenon DEF SameEnds
<1>12. ASSUME NEW s \in rels \cup {r} PROVE s \in RelIds /\ LoopsEven(f4, s)
  <2>1. s \in RelIds
    BY Zenon DEF GraphInv
  <2>2. LoopsEven(f0, s)
    BY <2>1, <1>3, <1>5, Zenon DEF LoopsEven, GraphInv
  <2> QED BY <2>1, <2>2, <1>6, <1>7, <1>8, <1>9, Zenon
<1>13. ASSUME NEW s \in rels \cup {r}, NEW n, EndOf(f4, n, s)
       PROVE  /\ NextOf(f4, n, s) = IF n \in {from, to} /\ s = LastRel(n, r) THEN r
                                    ELSE IF s = r THEN FirstRel(n, r)
                                    ELSE NextOf(relationship, n, s)
              /\ PrevOf(f4, n, s) = IF n \in {from, to} /\ s = FirstRel(n, r) THEN r
                                    ELSE IF s = r THEN LastRel(n, r)
                                    ELSE PrevOf(relationship, n, s)
  <2>1. s \in RelIds
    BY <1>12, Zenon
  <2>2. EndOf(f0, n, s) /\ EndOf(f1, n, s) /\ EndOf(f2, n, s) /\ EndOf(f3, n, s)
    BY <2>1, <1>13, <1>10, Zenon DEF SameEnds, EndOf
  <2>3. /\ NextOf(f4, n, s) = IF n \in {from, to} /\ s = LastRel(n, r) THEN r ELSE NextOf(f0, n, s)
        /\ PrevOf(f4, n, s) = IF n \in {from, to} /\ s = FirstRel(n, r) THEN r ELSE PrevOf(f0, n, s)
    BY <2>1, <2>2, <1>6, <1>7, <1>8, <1>9
  <2>4. CASE s = r
    <3>1. n = from \/ n = to
      BY <2>2, <2>4, <1>3, <1>5, Zenon DEF EndOf
    <3>2. NextOf(f0, n, r) = FirstRel(n, r) /\ PrevOf(f0, n, r) = LastRel(n, r)
      BY <3>1, <1>3, <1>5, Zenon DEF NextOf, PrevOf
    <3> QED BY <2>3, <2>4, <3>2, Zenon
  <2>5. CASE s # r
    <3>1. NextOf(f0, n, s) = NextOf(relationship, n, s) /\ PrevOf(f0, n, s) = PrevOf(relationship, n, s)
      BY <2>1, <2>5, <1>5 DEF NextOf, PrevOf
    <3> QED BY <2>3, <2>5, <3>1, Zenon
  <2> QED BY <2>4, <2>5, Zenon
<1> QED BY <1>4, <1>9, <1>11, <1>12, <1>13, Zenon

LEMMA CreateNodeRings ==
    ASSUME GraphInv, CreateNode, FreeNode \notin nodes
    PROVE  GraphInv'
<1> DEFINE id == FreeNode
<1>1. /\ id \in NodeIds /\ id \notin nodes /\ nodes' = nodes \cup {id}
      /\ first_relationship' = [first_relationship EXCEPT ![id] = NoId]
      /\ rels' = rels /\ relationship' = relationship
  BY Zenon DEF CreateNode, relVars
<1> HIDE DEF id
<1>2. first_relationship' \in [NodeIds -> Links]
  BY <1>1, NoIdApart, Zenon DEF GraphInv
<1>3. \A n \in nodes : first_relationship'[n] = first_relationship[n]
  BY <1>1, Zenon DEF GraphInv
<1>4. first_relationship'[id] = NoId
  BY <1>1, Zenon DEF GraphInv
<1>5. HasRing(relationship, rels, NoId, id)
  <2>1. \A s \in rels : ~EndOf(relationship, id, s)
    BY <1>1, Zenon DEF GraphInv, EndOf
  <2> DEFINE c == [i \in 1 .. 0 |-> NoId]
  <2>2. c \in [1 .. 0 -> rels] /\ \A i \in 1 .. 0 : FALSE
    OBVIOUS
  <2> HIDE DEF c
  <2>3. IsRing(relationship, rels, NoId, id, 0, c)
    BY <2>1, <2>2, Zenon DEF IsRing
  <2> QED BY <2>3, Zenon DEF HasRing
<1>6. \A n \in nodes \cup {id} : HasRing(relationship, rels, first_relationship'[n], n)
  BY <1>3, <1>4, <1>5, Zenon DEF GraphInv
<1> QED BY <1>1, <1>2, <1>6, Zenon DEF GraphInv

LEMMA CreateRelationshipRings ==
    ASSUME GraphInv, NEW from, NEW to, CreateRelationship(from, to), FreeRel \notin rels
    PROVE  GraphInv'
<1> DEFINE r == FreeRel
<1>1. /\ r \in RelIds /\ r \notin rels /\ from \in nodes /\ to \in nodes
      /\ rels' = rels \cup {r} /\ nodes' = nodes
      /\ relationship' = Linked(r, from, to)
      /\ first_relationship' =
            [n \in NodeIds |-> IF n \in {from, to} THEN FirstRel(n, r) ELSE first_relationship[n]]
  BY Zenon DEF CreateRelationship, nodeVars
<1> HIDE DEF r
<1>2. PICK g : g = Linked(r, from, to)
  BY Zenon
<1>3. /\ g \in [RelIds -> Records]
      /\ g[r].source = from /\ g[r].target = to
      /\ \A s \in RelIds \ {r} : /\ g[s].source = relationship[s].source
                                 /\ g[s].target = relationship[s].target
      /\ \A s \in rels \cup {r} : LoopsEven(g, s)
      /\ \A s \in rels \cup {r} : \A n : EndOf(g, n, s) =>
            /\ NextOf(g, n, s) = IF n \in {from, to} /\ s = LastRel(n, r) THEN r
                                 ELSE IF s = r THEN FirstRel(n, r)
                                 ELSE NextOf(relationship, n, s)
            /\ PrevOf(g, n, s) = IF n \in {from, to} /\ s = FirstRel(n, r) THEN r
                                 ELSE IF s = r THEN LastRel(n, r)
                                 ELSE PrevOf(relationship, n, s)
  BY <1>1, <1>2, LinkedRight
<1>4. first_relationship' \in [NodeIds -> Links]
  BY <1>1, ChainEnds, NoIdApart, Zenon DEF GraphInv
<1>5. ASSUME NEW s \in rels \cup {r} PROVE g[s].source \in nodes /\ g[s].target \in nodes
  BY <1>1, <1>3, Zenon DEF GraphInv
<1>6. /\ rels \subseteq RelIds /\ nodes \subseteq NodeIds /\ NoId \notin rels /\ r # NoId
      /\ \A n \in nodes : HasRing(relationship, rels, first_relationship[n], n)
  BY <1>1, NoIdApart, Zenon DEF GraphInv
<1>7. ASSUME NEW n \in nodes PROVE HasRing(g, rels \cup {r}, first_relationship'[n], n)
  <2>1. \A s \in rels : EndOf(g, n, s) <=> EndOf(relationship, n, s)
    BY <1>1, <1>3, <1>6, Zenon DEF EndOf
  <2>2. CASE n \in {from, to}
    <3>0. PICK m \in Nat : \E c : IsRing(relationship, rels, first_relationship[n], n, m, c)
      BY <1>6, Zenon DEF HasRing
    <3>1. PICK c : IsRing(relationship, rels, first_relationship[n], n, m, c)
      BY <3>0, Zenon
    <3>2. /\ c \in [1 .. m -> rels]
          /\ first_relationship[n] = IF m = 0 THEN NoId ELSE c[1]
          /\ \A i \in 1 .. m : PrevOf(relationship, n, c[i]) = IF i = 1 THEN c[m] ELSE c[i - 1]
      BY <3>1, Zenon DEF IsRing
    <3>3. first_relationship[n] = NoId <=> m = 0
      BY <3>2, <1>6
    <3>4. FirstRel(n, r) = (IF m = 0 THEN r ELSE c[1])
      BY <3>2, <3>3, Zenon DEF FirstRel
    <3>5. LastRel(n, r) = (IF m = 0 THEN r ELSE c[m])
      <4>1. CASE m = 0
        BY <4>1, <3>3, Zenon DEF LastRel
      <4>2. CASE m # 0
        <5>1. LastRel(n, r) = PrevOf(relationship, n, c[1])
          BY <4>2, <3>2, <3>3, Zenon DEF LastRel, Prev, PrevOf
        <5> QED BY <5>1, <4>2, <3>2
      <4> QED BY <4>1, <4>2, Zenon
    <3>6. EndOf(g, n, r)
      BY <2>2, <1>3, Zenon DEF EndOf
    <3>7. first_relationship'[n] = FirstRel(n, r)
      BY <2>2, <1>1, <1>6, Zenon
    <3>8. \A s \in rels \cup {r} : EndOf(g, n, s) =>
            /\ NextOf(g, n, s) = IF s = LastRel(n, r) THEN r
                                 ELSE IF s = r THEN FirstRel(n, r)
                                 ELSE NextOf(relationship, n, s)
            /\ PrevOf(g, n, s) = IF s = FirstRel(n, r) THEN r
                                 ELSE IF s = r THEN LastRel(n, r)
                                 ELSE PrevOf(relationship, n, s)
      BY <2>2, <1>3, Zenon
    <3>9. HasRing(g, rels \cup {r}, FirstRel(n, r), n)
      <4> DEFINE F == FirstRel(n, r)
                 L == LastRel(n, r)
      <4>1. F = (IF m = 0 THEN r ELSE c[1]) /\ L = (IF m = 0 THEN r ELSE c[m])
        BY <3>4, <3>5, Zenon
      <4>2. LinkedAt(relationship, g, rels, r, n, F, L) /\ SameEndsAt(relationship, g, rels, n)
        BY <2>1, <3>8, Zenon DEF LinkedAt, SameEndsAt
      <4> HIDE DEF F, L
      <4>3. HasRing(g, rels \cup {r}, F, n)
        BY <3>1, <3>6, <4>1, <4>2, <1>1, <1>6, RingAppended, Zenon
      <4> QED BY <4>3, Zenon DEF F
    <3> QED BY <3>7, <3>9, Zenon
  <2>3. CASE n \notin {from, to}
    <3>1. ~EndOf(g, n, r)
      BY <2>3, <1>3, Zenon DEF EndOf
    <3>2. first_relationship'[n] = first_relationship[n]
      BY <2>3, <1>1, <1>6, Zenon
    <3>3. \A s \in rels : EndOf(relationship, n, s) =>
            NextOf(g, n, s) = NextOf(relationship, n, s) /\ PrevOf(g, n, s) = PrevOf(relationship, n, s)
      BY <2>1, <2>3, <1>1, <1>3, Zenon
    <3>4. \A s : (s \in rels /\ EndOf(relationship, n, s)) <=> (s \in rels \cup {r} /\ EndOf(g, n, s))
      BY <2>1, <3>1, Zenon
    <3>5. HasRing(g, rels \cup {r}, first_relationship[n], n)
      BY <3>3, <3>4, <1>6, RingKept, Zenon
    <3> QED BY <3>2, <3>5, Zenon
  <2> QED BY <2>2, <2>3, Zenon
<1>8. relationship' = g
  BY <1>1, <1>2, Zenon
<1>9. /\ nodes' \subseteq NodeIds /\ rels' \subseteq RelIds
      /\ relationship' \in [RelIds -> Records]
  BY <1>1, <1>3, <1>6, <1>8, Zenon
<1>10. \A s \in rels' : relationship'[s].source \in nodes' /\ relationship'[s].target \in nodes'
  BY <1>1, <1>5, <1>8, Zenon
<1>11. \A s \in rels' : LoopsEven(g, s)
  BY <1>1, <1>3, Zenon
<1>12. \A n \in nodes' : HasRing(g, rels', first_relationship'[n], n)
  BY <1>1, <1>7, Zenon
<1>13. /\ \A s \in rels' : LoopsEven(relationship', s)
       /\ \A n \in nodes' : HasRing(relationship', rels', first_relationship'[n], n)
  BY <1>8, <1>11, <1>12, Zenon
<1> QED BY <1>4, <1>9, <1>10, <1>13, Zenon DEF GraphInv

------------------------------------------------------------------------------
(* delete_relationship *)

\* The links of r itself.
LEMMA OwnLinks ==
    ASSUME GraphInv, NEW r \in rels
    PROVE  LET old == relationship[r]
               a   == old.source
               b   == old.target
           IN
           /\ a \in nodes /\ b \in nodes
           /\ \A n : EndOf(relationship, n, r) <=> (n = a \/ n = b)
           /\ NextOf(relationship, a, r) = old.next_source /\ PrevOf(relationship, a, r) = old.prev_source
           /\ NextOf(relationship, b, r) = old.next_target /\ PrevOf(relationship, b, r) = old.prev_target
           /\ {old.next_source, old.prev_source, old.next_target, old.prev_target} \subseteq rels
<1> DEFINE old == relationship[r]
           a   == old.source
           b   == old.target
<1>1. a \in nodes /\ b \in nodes /\ LoopsEven(relationship, r) /\ NoId \notin rels
  BY NoIdApart, Zenon DEF GraphInv
<1>2. \A n : EndOf(relationship, n, r) <=> (n = a \/ n = b)
  BY Zenon DEF EndOf
<1>3. NextOf(relationship, a, r) = old.next_source /\ PrevOf(relationship, a, r) = old.prev_source
  BY Zenon DEF NextOf, PrevOf
<1>4. NextOf(relationship, b, r) = old.next_target /\ PrevOf(relationship, b, r) = old.prev_target
  BY <1>1, Zenon DEF NextOf, PrevOf, LoopsEven
<1>5. /\ HasRing(relationship, rels, first_relationship[a], a)
      /\ HasRing(relationship, rels, first_relationship[b], b)
  BY <1>1, Zenon DEF GraphInv
<1>6. NextOf(relationship, a, r) \in rels /\ PrevOf(relationship, a, r) \in rels
  BY <1>1, <1>2, <1>5, RingLinks
<1>7. NextOf(relationship, b, r) \in rels /\ PrevOf(relationship, b, r) \in rels
  BY <1>1, <1>2, <1>5, RingLinks
<1> QED BY <1>1, <1>2, <1>3, <1>4, <1>6, <1>7, Zenon

LEMMA UnlinkedRight ==
    ASSUME GraphInv, NEW r \in rels, Repaired(r)
    PROVE  LET g == Unlinked(r) IN
           /\ g \in [RelIds -> Records] /\ SameEnds(relationship, g)
           /\ \A s \in rels : LoopsEven(g, s)
           /\ \A s \in rels \ {r} : \A n : EndOf(relationship, n, s) =>
                /\ NextOf(g, n, s) =
                      IF EndOf(relationship, n, r) /\ s = PrevOf(relationship, n, r)
                      THEN NextOf(relationship, n, r) ELSE NextOf(relationship, n, s)
                /\ PrevOf(g, n, s) =
                      IF EndOf(relationship, n, r) /\ s = NextOf(relationship, n, r)
                      THEN PrevOf(relationship, n, r) ELSE PrevOf(relationship, n, s)
<1> DEFINE old == relationship[r]
           a   == old.source
           b   == old.target
           f0  == relationship
           f1  == SetNext(f0, old.prev_source, a, old.next_source)
           f2  == SetPrev(f1, old.next_source, a, old.prev_source)
           f3  == SetNext(f2, old.prev_target, b, old.next_target)
           f4  == SetPrev(f3, old.next_target, b, old.prev_target)
           g   == Unlinked(r)
<1>1. /\ a \in nodes /\ b \in nodes
      /\ \A n : EndOf(relationship, n, r) <=> (n = a \/ n = b)
      /\ NextOf(relationship, a, r) = old.next_source /\ PrevOf(relationship, a, r) = old.prev_source
      /\ NextOf(relationship, b, r) = old.next_target /\ PrevOf(relationship, b, r) = old.prev_target
      /\ {old.next_source, old.prev_source, old.next_target, old.prev_target} \subseteq rels
  BY OwnLinks, Zenon
<1>2. /\ {old.next_source, old.prev_source, old.next_target, old.prev_target} \subseteq RelIds
      /\ RelIds \subseteq Links /\ rels \subseteq RelIds
      /\ f0 \in [RelIds -> Records] /\ \A s \in rels : LoopsEven(f0, s)
  BY <1>1, NoIdApart, Zenon DEF GraphInv
<1>3. g = IF r = old.prev_source THEN relationship ELSE f4
  BY Zenon DEF Unlinked
<1>4. CASE r = old.prev_source
  <2>1. g = relationship /\ r = old.prev_target
    BY <1>3, <1>4, Zenon DEF Repaired
  <2>2. \A n : EndOf(relationship, n, r) => PrevOf(relationship, n, r) = r
    BY <1>1, <1>4, <2>1, Zenon
  <2>3. \A n : EndOf(relationship, n, r) => NextOf(relationship, n, r) = r
    <3> SUFFICES ASSUME NEW n, EndOf(relationship, n, r) PROVE NextOf(relationship, n, r) = r
      BY Zenon
    <3>1. HasRing(relationship, rels, first_relationship[n], n) /\ NoId \notin rels
      BY <1>1, NoIdApart, Zenon DEF GraphInv
    <3>2. NextOf(relationship, n, PrevOf(relationship, n, r)) = r
      BY <3>1, RingLinks
    <3> QED BY <3>2, <2>2, Zenon
  <2> HIDE DEF g, old
  <2>4. SameEnds(relationship, relationship)
    BY Zenon DEF SameEnds
  <2> QED BY <1>2, <2>1, <2>2, <2>3, <2>4, Zenon DEF g
<1>5. CASE r # old.prev_source
  <2>1. g = f4
    BY <1>3, <1>5, Zenon
  <2>2. /\ f1 \in [RelIds -> Records] /\ SameEnds(f0, f1)
        /\ \A s \in RelIds : LoopsEven(f0, s) => LoopsEven(f1, s)
        /\ \A s \in RelIds : \A p : EndOf(f0, p, s) =>
              /\ NextOf(f1, p, s) = IF s = old.prev_source /\ p = a THEN old.next_source ELSE NextOf(f0, p, s)
              /\ PrevOf(f1, p, s) = PrevOf(f0, p, s)
    BY <1>2, SetNextRight
  <2> HIDE DEF f1, old
  <2>3. /\ f2 \in [RelIds -> Records] /\ SameEnds(f1, f2)
        /\ \A s \in RelIds : LoopsEven(f1, s) => LoopsEven(f2, s)
        /\ \A s \in RelIds : \A p : EndOf(f1, p, s) =>
              /\ PrevOf(f2, p, s) = IF s = old.next_source /\ p = a THEN old.prev_source ELSE PrevOf(f1, p, s)
              /\ NextOf(f2, p, s) = NextOf(f1, p, s)
    BY <1>2, <2>2, SetPrevRight, Zenon
  <2> HIDE DEF f2
  <2>4. /\ f3 \in [RelIds -> Records] /\ SameEnds(f2, f3)
        /\ \A s \in RelIds : LoopsEven(f2, s) => LoopsEven(f3, s)
        /\ \A s \in RelIds : \A p : EndOf(f2, p, s) =>
              /\ NextOf(f3, p, s) = IF s = old.prev_target /\ p = b THEN old.next_target ELSE NextOf(f2, p, s)
              /\ PrevOf(f3, p, s) = PrevOf(f2, p, s)
    BY <1>2, <2>3, SetNextRight
  <2> HIDE DEF f3
  <2>5. /\ f4 \in [RelIds -> Records] /\ SameEnds(f3, f4)
        /\ \A s \in RelIds : LoopsEven(f3, s) => LoopsEven(f4, s)
        /\ \A s \in RelIds : \A p : EndOf(f3, p, s) =>
              /\ PrevOf(f4, p, s) = IF s = old.next_target /\ p = b THEN old.prev_target ELSE PrevOf(f3, p, s)
              /\ NextOf(f4, p, s) = NextOf(f3, p, s)
    BY <1>2, <2>4, SetPrevRight
  <2> HIDE DEF f4, f0, a, b
  <2>6. SameEnds(f0, f1) /\ SameEnds(f0, f2) /\ SameEnds(f0, f3) /\ SameEnds(f0, f4)
    BY <2>2, <2>3, <2>4, <2>5 DEF SameEnds
  <2>7. ASSUME NEW s \in rels PROVE LoopsEven(f4, s)
    BY <1>2, <2>2, <2>3, <2>4, <2>5, Zenon
  <2>8. ASSUME NEW s \in rels \ {r}, NEW n, EndOf(f0, n, s)
        PROVE  /\ NextOf(f4, n, s) = IF EndOf(f0, n, r) /\ s = PrevOf(f0, n, r)
                                     THEN NextOf(f0, n, r) ELSE NextOf(f0, n, s)
               /\ PrevOf(f4, n, s) = IF EndOf(f0, n, r) /\ s = NextOf(f0, n, r)
                                     THEN PrevOf(f0, n, r) ELSE PrevOf(f0, n, s)
    <3>1. s \in RelIds
      BY <1>2, Zenon
    <3>2. EndOf(f1, n, s) /\ EndOf(f2, n, s) /\ EndOf(f3, n, s)
      BY <3>1, <2>6, <2>8, Zenon DEF SameEnds, EndOf
    <3>3. /\ NextOf(f4, n, s) = IF s = old.prev_target /\ n = b THEN old.next_target
                                ELSE IF s = old.prev_source /\ n = a THEN old.next_source
                                ELSE NextOf(f0, n, s)
          /\ PrevOf(f4, n, s) = IF s = old.next_target /\ n = b THEN old.prev_target
                                ELSE IF s = old.next_source /\ n = a THEN old.prev_source
                                ELSE PrevOf(f0, n, s)
      BY <3>1, <3>2, <2>2, <2>3, <2>4, <2>5, <2>8
    <3>4. /\ EndOf(f0, n, r) <=> (n = a \/ n = b)
          /\ n = a => NextOf(f0, n, r) = old.next_source /\ PrevOf(f0, n, r) = old.prev_source
          /\ n = b => NextOf(f0, n, r) = old.next_target /\ PrevOf(f0, n, r) = old.prev_target
      BY <1>1, Zenon DEF f0, a, b
    <3> QED BY <3>3, <3>4, Zenon
  <2> QED BY <2>1, <2>5, <2>6, <2>7, <2>8, Zenon DEF f0
<1> QED BY <1>4, <1>5, Zenon

LEMMA DeleteEffect ==
    ASSUME GraphInv, NEW r \in rels, Repaired(r), Delete(r)
    PROVE  /\ rels' = rels \ {r} /\ nodes' = nodes
           /\ relationship' \in [RelIds -> Records]
           /\ first_relationship' \in [NodeIds -> Links]
           /\ \A n \in nodes :
                 first_relationship'[n] =
                    IF EndOf(relationship, n, r)
                    THEN FirstWithout(first_relationship[n], r, NextOf(relationship, n, r))
                    ELSE first_relationship[n]
           /\ \A s \in rels \ {r} :
                 /\ relationship'[s].source = relationship[s].source
                 /\ relationship'[s].target = relationship[s].target
                 /\ LoopsEven(relationship', s)
           /\ \A s \in rels \ {r} : \A n : EndOf(relationship, n, s) =>
                 /\ NextOf(relationship', n, s) =
                       IF EndOf(relationship, n, r) /\ s = PrevOf(relationship, n, r)
                       THEN NextOf(relationship, n, r) ELSE NextOf(relationship, n, s)
                 /\ PrevOf(relationship', n, s) =
                       IF EndOf(relationship, n, r) /\ s = NextOf(relationship, n, r)
                       THEN PrevOf(relationship, n, r) ELSE PrevOf(relationship, n, s)
<1> DEFINE old == relationship[r]
           a   == old.source
           b   == old.target
           h   == [first_relationship EXCEPT ![a] = FirstWithout(@, r, old.next_source)]
<1>1. /\ a \in nodes /\ b \in nodes
      /\ \A n : EndOf(relationship, n, r) <=> (n = a \/ n = b)
      /\ NextOf(relationship, a, r) = old.next_source /\ PrevOf(relationship, a, r) = old.prev_source
      /\ NextOf(relationship, b, r) = old.next_target /\ PrevOf(relationship, b, r) = old.prev_target
      /\ {old.next_source, old.prev_source, old.next_target, old.prev_target} \subseteq rels
  BY OwnLinks, Zenon
<1>2. PICK u : u = Unlinked(r)
  BY Zenon
<1>3. /\ u \in [RelIds -> Records] /\ SameEnds(relationship, u)
      /\ \A s \in rels : LoopsEven(u, s)
      /\ \A s \in rels \ {r} : \A n : EndOf(relationship, n, s) =>
           /\ NextOf(u, n, s) =
                 IF EndOf(relationship, n, r) /\ s = PrevOf(relationship, n, r)
                 THEN NextOf(relationship, n, r) ELSE NextOf(relationship, n, s)
           /\ PrevOf(u, n, s) =
                 IF EndOf(relationship, n, r) /\ s = NextOf(relationship, n, r)
                 THEN PrevOf(relationship, n, r) ELSE PrevOf(relationship, n, s)
  BY <1>2, UnlinkedRight
<1>4. /\ relationship' = [u EXCEPT ![r] = NoRel]
      /\ first_relationship' = [h EXCEPT ![b] = FirstWithout(@, r, old.next_target)]
      /\ rels' = rels \ {r} /\ nodes' = nodes
  BY <1>2, Zenon DEF Delete, nodeVars
<1>5. PICK g : g = [u EXCEPT ![r] = NoRel]
  BY Zenon
<1>6. /\ nodes \subseteq NodeIds /\ rels \subseteq RelIds /\ NoId \notin rels
      /\ first_relationship \in [NodeIds -> Links] /\ RelIds \subseteq Links /\ NoId \in Links
      /\ \A n \in nodes : HasRing(relationship, rels, first_relationship[n], n)
      /\ \A s \in rels : relationship[s].source \in nodes /\ relationship[s].target \in nodes
  BY NoIdApart, Zenon DEF GraphInv
<1>7. NoRel \in Records
  BY NoIdApart, Zenon DEF NoRel, Records
<1>8. g \in [RelIds -> Records] /\ \A s \in rels \ {r} : g[s] = u[s]
  BY <1>3, <1>5, <1>6, <1>7, Zenon
<1> HIDE DEF old
<1>9. /\ first_relationship' \in [NodeIds -> Links]
      /\ \A n \in nodes :
            first_relationship'[n] =
               IF EndOf(relationship, n, r)
               THEN FirstWithout(first_relationship[n], r, NextOf(relationship, n, r))
               ELSE first_relationship[n]
  <2>1. a \in NodeIds /\ b \in NodeIds
    BY <1>1, <1>6, Zenon
  <2>2. \A x \in Links, y \in rels : FirstWithout(x, r, y) \in Links
    BY <1>6, Zenon DEF FirstWithout
  <2>3. h \in [NodeIds -> Links]
    BY <2>1, <2>2, <1>1, <1>6, Zenon
  <2>4. /\ h[a] = FirstWithout(first_relationship[a], r, old.next_source)
        /\ \A n \in NodeIds : n # a => h[n] = first_relationship[n]
    BY <2>1, <1>6, Zenon
  <2> HIDE DEF h, a, b
  <2>5. first_relationship' \in [NodeIds -> Links]
    BY <2>1, <2>2, <2>3, <1>1, <1>4, Zenon
  <2>6. /\ first_relationship'[b] = FirstWithout(h[b], r, old.next_target)
        /\ \A n \in NodeIds : n # b => first_relationship'[n] = h[n]
    BY <2>1, <2>3, <1>4, Zenon
  <2>7. ASSUME NEW n \in nodes
        PROVE  first_relationship'[n] =
                 IF EndOf(relationship, n, r)
                 THEN FirstWithout(first_relationship[n], r, NextOf(relationship, n, r))
                 ELSE first_relationship[n]
    <3>1. n \in NodeIds
      BY <1>6, Zenon
    <3>2. CASE n # b
      BY <3>1, <3>2, <2>4, <2>6, <1>1, Zenon
    <3>3. CASE n = b /\ a # b
      BY <3>1, <3>3, <2>4, <2>6, <1>1, Zenon
    <3>4. CASE n = b /\ a = b
      <4>1. old.next_source = old.next_target
        BY <3>4, <1>1, Zenon
      <4>2. \A x, y : FirstWithout(FirstWithout(x, r, y), r, y) = FirstWithout(x, r, y)
        BY <1>6, Zenon DEF FirstWithout
      <4> QED BY <3>4, <4>1, <4>2, <2>4, <2>6, <1>1
    <3> QED BY <3>2, <3>3, <3>4, Zenon
  <2> QED BY <2>5, <2>7, Zenon
<1> HIDE DEF a, b, h
<1>10. ASSUME NEW s \in rels \ {r}
       PROVE  /\ g[s].source = relationship[s].source /\ g[s].target = relationship[s].target
              /\ LoopsEven(g, s)
  BY <1>3, <1>6, <1>8, Zenon DEF SameEnds, LoopsEven
<1>11. \A s \in rels \ {r} : \A n : NextOf(g, n, s) = NextOf(u, n, s) /\ PrevOf(g, n, s) = PrevOf(u, n, s)
  BY <1>8, Zenon DEF NextOf, PrevOf
<1>12. \A s \in rels \ {r} : \A n : EndOf(relationship, n, s) =>
         /\ NextOf(g, n, s) =
               IF EndOf(relationship, n, r) /\ s = PrevOf(relationship, n, r)
               THEN NextOf(relationship, n, r) ELSE NextOf(relationship, n, s)
         /\ PrevOf(g, n, s) =
               IF EndOf(relationship, n, r) /\ s = NextOf(relationship, n, r)
               THEN PrevOf(relationship, n, r) ELSE PrevOf(relationship, n, s)
  BY <1>3, <1>11
<1>13. relationship' = g
  BY <1>4, <1>5, Zenon
<1> QED BY <1>4, <1>8, <1>9, <1>10, <1>12, <1>13, Zenon

LEMMA DeleteRings ==
    ASSUME GraphInv, NEW r \in rels, Repaired(r), Delete(r)
    PROVE  GraphInv'
<1>1. PICK g, h : g = relationship' /\ h = first_relationship'
  BY Zenon
<1>2. /\ rels' = rels \ {r} /\ nodes' = nodes
      /\ g \in [RelIds -> Records] /\ h \in [NodeIds -> Links]
  BY <1>1, DeleteEffect, Zenon
<1>3. \A n \in nodes :
         h[n] = IF EndOf(relationship, n, r)
                THEN FirstWithout(first_relationship[n], r, NextOf(relationship, n, r))
                ELSE first_relationship[n]
  BY <1>1, DeleteEffect, Zenon
<1>4. \A s \in rels \ {r} :
         /\ g[s].source = relationship[s].source /\ g[s].target = relationship[s].target
         /\ LoopsEven(g, s)
  BY <1>1, DeleteEffect, Zenon
<1>5. \A s \in rels \ {r} : \A n : EndOf(relationship, n, s) =>
         /\ NextOf(g, n, s) =
               IF EndOf(relationship, n, r) /\ s = PrevOf(relationship, n, r)
               THEN NextOf(relationship, n, r) ELSE NextOf(relationship, n, s)
         /\ PrevOf(g, n, s) =
               IF EndOf(relationship, n, r) /\ s = NextOf(relationship, n, r)
               THEN PrevOf(relationship, n, r) ELSE PrevOf(relationship, n, s)
  BY <1>1, DeleteEffect
<1>6. /\ nodes \subseteq NodeIds /\ rels \subseteq RelIds /\ NoId \notin rels
      /\ \A n \in nodes : HasRing(relationship, rels, first_relationship[n], n)
      /\ \A s \in rels : relationship[s].source \in nodes /\ relationship[s].target \in nodes
  BY NoIdApart, Zenon DEF GraphInv
<1>7. ASSUME NEW n \in nodes PROVE HasRing(g, rels \ {r}, h[n], n)
  <2>1. SameEndsAt(relationship, g, rels \ {r}, n)
    BY <1>4, Zenon DEF SameEndsAt, EndOf
  <2>2. HasRing(relationship, rels, first_relationship[n], n)
    BY <1>6, Zenon
  <2>3. CASE EndOf(relationship, n, r)
    <3>1. UnlinkedAt(relationship, g, rels, r, n)
      BY <2>3, <1>5, Zenon DEF UnlinkedAt
    <3>2. HasRing(g, rels \ {r}, FirstWithout(first_relationship[n], r, NextOf(relationship, n, r)), n)
      BY <2>1, <2>2, <2>3, <3>1, <1>6, RingDropped, Zenon
    <3> QED BY <2>3, <3>2, <1>3, Zenon
  <2>4. CASE ~EndOf(relationship, n, r)
    <3>1. \A s : (s \in rels /\ EndOf(relationship, n, s)) <=> (s \in rels \ {r} /\ EndOf(g, n, s))
      BY <2>1, <2>4, Zenon DEF SameEndsAt
    <3>2. \A s \in rels : EndOf(relationship, n, s) =>
            NextOf(g, n, s) = NextOf(relationship, n, s) /\ PrevOf(g, n, s) = PrevOf(relationship, n, s)
      BY <2>4, <1>5, Zenon
    <3>3. HasRing(g, rels \ {r}, first_relationship[n], n)
      BY <2>2, <3>1, <3>2, RingKept, Zenon
    <3> QED BY <2>4, <3>3, <1>3, Zenon
  <2> QED BY <2>3, <2>4, Zenon
<1>8. /\ nodes' \subseteq NodeIds /\ rels' \subseteq RelIds
      /\ \A s \in rels \ {r} : g[s].source \in nodes' /\ g[s].target \in nodes'
  BY <1>2, <1>4, <1>6, Zenon
<1>9. /\ \A s \in rels' : relationship'[s].source \in nodes' /\ relationship'[s].target \in nodes'
      /\ \A s \in rels' : LoopsEven(relationship', s)
      /\ \A n \in nodes' : HasRing(relationship', rels', first_relationship'[n], n)
  BY <1>1, <1>2, <1>4, <1>7, <1>8, Zenon
<1> QED BY <1>1, <1>2, <1>8, <1>9, Zenon DEF GraphInv

------------------------------------------------------------------------------
(* delete_node *)

\* The loop has come from the first relationship backwards: what it reads next is
\* the end of what is left of the chain, or nothing is left.
DeletingInv ==
    /\ deleting = [node |-> deleting.node, prev |-> deleting.prev, last |-> deleting.last]
    /\ deleting # Idle =>
          LET first == first_relationship[deleting.node] IN
          /\ deleting.node \in nodes
          /\ IF first = NoId THEN deleting.prev = deleting.last
             ELSE deleting.prev = Prev(deleting.node, first) /\ deleting.last \notin rels

ChainInv == SlotInv /\ GraphInv /\ DeletingInv /\ NeverDangling

\* The relationship that delete_node takes next is there.
LEMMA DeletingNext ==
    ASSUME GraphInv, DeletingInv, deleting # Idle, deleting.prev # deleting.last
    PROVE  LET n == deleting.node
               r == deleting.prev
               first == first_relationship[n]
           IN
           /\ n \in nodes /\ first \in rels /\ EndOf(relationship, n, first)
           /\ r \in rels /\ EndOf(relationship, n, r)
           /\ r = PrevOf(relationship, n, first) /\ NextOf(relationship, n, r) = first
<1> DEFINE n == deleting.node
           r == deleting.prev
           first == first_relationship[n]
<1>1. n \in nodes /\ first # NoId /\ r = Prev(n, first)
  BY Zenon DEF DeletingInv
<1>2. HasRing(relationship, rels, first, n) /\ NoId \notin rels
  BY <1>1, NoIdApart, Zenon DEF GraphInv
<1>3. r = PrevOf(relationship, n, first)
  BY <1>1, Zenon DEF Prev, PrevOf
<1> HIDE DEF n, r, first
<1>4. first \in rels /\ EndOf(relationship, n, first)
  BY <1>1, <1>2, RingLinks, Zenon
<1>5. \A s \in rels : EndOf(relationship, n, s) =>
         /\ NextOf(relationship, n, s) \in rels /\ EndOf(relationship, n, NextOf(relationship, n, s))
         /\ PrevOf(relationship, n, s) \in rels /\ EndOf(relationship, n, PrevOf(relationship, n, s))
         /\ PrevOf(relationship, n, NextOf(relationship, n, s)) = s
         /\ NextOf(relationship, n, PrevOf(relationship, n, s)) = s
  BY <1>2, RingLinks
<1> QED BY <1>1, <1>3, <1>4, <1>5, Zenon DEF n, r, first

LEMMA NeighboursAlwaysExist ==
    ASSUME GraphInv, NEW r \in rels
    PROVE  NeighboursExist(r)
BY OwnLinks, Zenon DEF NeighboursExist

LEMMA DeleteNextKeeps ==
    ASSUME GraphInv, DeletingInv, DeleteNext, Repaired(deleting.prev)
    PROVE  GraphInv' /\ DeletingInv'
<1>1. PICK n, r, first :
         n = deleting.node /\ r = deleting.prev /\ first = first_relationship[n]
  BY Zenon
<1>2. Delete(r) /\ r # deleting.last /\ deleting # Idle /\ Repaired(r)
  BY <1>1, Zenon DEF DeleteNext
<1>3. /\ n \in nodes /\ first \in rels /\ EndOf(relationship, n, first)
      /\ r \in rels /\ EndOf(relationship, n, r)
      /\ r = PrevOf(relationship, n, first) /\ NextOf(relationship, n, r) = first
  BY <1>1, <1>2, DeletingNext, Zenon
<1>4. deleting' = [node |-> n, prev |-> Prev(n, r), last |-> r]
  BY <1>1, Zenon DEF DeleteNext, DeletingInv
<1>5. GraphInv'
  BY <1>2, <1>3, DeleteRings, Zenon
<1>6. /\ rels' = rels \ {r}
      /\ first_relationship'[n] = FirstWithout(first, r, first)
      /\ first # r => PrevOf(relationship', n, first) = PrevOf(relationship, n, r)
  BY <1>1, <1>2, <1>3, DeleteEffect
<1>7. Prev(n, r) = PrevOf(relationship, n, r) /\ Prev(n, first)' = PrevOf(relationship', n, first)
  BY Zenon DEF Prev, PrevOf
<1>8. NoId \notin rels
  BY NoIdApart, Zenon DEF GraphInv
<1>11. n \in nodes'
  BY <1>2, <1>3, Zenon DEF Delete, nodeVars
<1>9. CASE first = r
  <2>1. first_relationship'[n] = NoId
    BY <1>6, <1>9, Zenon DEF FirstWithout
  <2>2. Prev(n, r) = r
    BY <1>3, <1>7, <1>9, Zenon
  <2> QED BY <1>4, <1>5, <1>11, <2>1, <2>2, Zenon DEF DeletingInv
<1>10. CASE first # r
  <2>1. first_relationship'[n] = first /\ first # NoId
    BY <1>3, <1>6, <1>8, <1>10, Zenon DEF FirstWithout
  <2>2. deleting'.prev = Prev(n, first)' /\ deleting'.node = n /\ deleting'.last = r
    BY <1>4, <1>6, <1>7, <1>10, Zenon
  <2>3. Prev(deleting.node, first_relationship[deleting.node])' = Prev(n, first)'
    BY <2>1, <2>2, Zenon DEF Prev
  <2>4. deleting'.last \notin rels'
    BY <1>6, <2>2, Zenon
  <2> QED BY <1>4, <1>5, <1>11, <2>1, <2>2, <2>3, <2>4, Zenon DEF DeletingInv
<1> QED BY <1>9, <1>10, Zenon

LEMMA DeleteLastRings ==
    ASSUME GraphInv, DeletingInv, DeleteLast
    PROVE  GraphInv' /\ DeletingInv'
<1>1. PICK n : n = deleting.node
  BY Zenon
<1>2. /\ nodes' = nodes \ {n} /\ n \in nodes /\ deleting' = Idle
      /\ rels' = rels /\ relationship' = relationship /\ first_relationship' = first_relationship
  BY <1>1, Zenon DEF DeleteLast, relVars, DeletingInv
<1>3. first_relationship[n] = NoId
  <2> SUFFICES ASSUME first_relationship[n] # NoId PROVE FALSE
    BY Zenon
  <2>1. deleting.prev = Prev(n, first_relationship[n]) /\ deleting.prev \notin rels
    BY <1>1, Zenon DEF DeleteLast, DeletingInv
  <2>2. HasRing(relationship, rels, first_relationship[n], n) /\ NoId \notin rels
    BY <1>2, NoIdApart, Zenon DEF GraphInv
  <2>3. PrevOf(relationship, n, first_relationship[n]) \in rels
    BY <2>2, RingLinks, Zenon
  <2> QED BY <2>1, <2>3, Zenon DEF Prev, PrevOf
<1>4. \A s \in rels : ~EndOf(relationship, n, s)
  <2>1. HasRing(relationship, rels, first_relationship[n], n) /\ NoId \notin rels
    BY <1>2, NoIdApart, Zenon DEF GraphInv
  <2> QED BY <1>3, <2>1, RingLinks, Zenon
<1>5. \A s \in rels : relationship[s].source \in nodes \ {n} /\ relationship[s].target \in nodes \ {n}
  BY <1>4, Zenon DEF GraphInv, EndOf
<1>6. GraphInv'
  BY <1>2, <1>5, Zenon DEF GraphInv
<1> QED BY <1>2, <1>6, Zenon DEF DeletingInv, Idle

------------------------------------------------------------------------------
(* Every step *)

\* Steps that change no record.
LEMMA SameGraphInv ==
    ASSUME GraphInv, UNCHANGED <<nodes, rels, relationship, first_relationship>>
    PROVE  GraphInv'
BY Zenon DEF GraphInv

LEMMA SlotsAreFree ==
    ASSUME SlotInv
    PROVE  FreeNode \notin nodes /\ FreeRel \notin rels
<1>1. FreeNode \notin nodes
  BY FreeSlotRight, IdTypes, Zenon DEF SlotInv, FreeNode, SlotsAccounted
<1>2. FreeRel \notin rels
  BY FreeSlotRight, IdTypes, RecordsFit, Zenon DEF SlotInv, FreeRel, SlotsAccounted
<1> QED BY <1>1, <1>2, Zenon

\* What the steps need of the slots is that a free one is found.
LEMMA GraphStep ==
    ASSUME Deletions # "any", FreeNode \notin nodes, FreeRel \notin rels,
           GraphInv, DeletingInv, NeverDangling, [Next]_vars
    PROVE  GraphInv' /\ DeletingInv' /\ NeverDangling'
<1>2. \A r : Deletable(r) => Repaired(r)
  BY Zenon DEF Deletable
<1>3. CASE CreateNode
  <2>1. GraphInv'
    BY <1>3, CreateNodeRings, Zenon
  <2> QED BY <1>3, <2>1, Zenon DEF CreateNode, Ready, DeletingInv, NeverDangling
<1>4. ASSUME NEW from \in NodeIds, NEW to \in NodeIds, CreateRelationship(from, to)
      PROVE  GraphInv' /\ DeletingInv' /\ NeverDangling'
  <2>1. GraphInv'
    BY <1>4, CreateRelationshipRings, Zenon
  <2> QED BY <1>4, <2>1, Zenon DEF CreateRelationship, Ready, DeletingInv, NeverDangling
<1>5. ASSUME NEW from \in NodeIds, NEW to \in NodeIds, CreateRelationshipFails(from, to)
      PROVE  FALSE
  <2>1. RelIds # {} => EndsExist(from) /\ EndsExist(to)
    BY <1>5, ChainEnds, Zenon DEF CreateRelationshipFails
  <2>2. RelIds = {} => EndsExist(from) /\ EndsExist(to)
    <3>1. first_relationship \in [NodeIds -> RelIds \cup {NoId}]
      BY Zenon DEF GraphInv, Links
    <3> QED BY <3>1, Zenon DEF EndsExist
  <2> QED BY <1>5, <2>1, <2>2, Zenon DEF CreateRelationshipFails
<1>6. ASSUME NEW r \in RelIds, DeleteRelationship(r)
      PROVE  GraphInv' /\ DeletingInv' /\ NeverDangling'
  <2>1. r \in rels /\ Repaired(r) /\ Delete(r)
    BY <1>2, <1>6, Zenon DEF DeleteRelationship
  <2>2. GraphInv'
    BY <2>1, DeleteRings, Zenon
  <2> QED BY <1>6, <2>2, Zenon DEF DeleteRelationship, Delete, Ready, DeletingInv, NeverDangling
<1>7. ASSUME NEW r \in RelIds, DeleteRelationshipFails(r) PROVE FALSE
  BY <1>7, NeighboursAlwaysExist, Zenon DEF DeleteRelationshipFails
<1>8. ASSUME NEW n \in NodeIds, DeleteNode(n)
      PROVE  GraphInv' /\ DeletingInv' /\ NeverDangling'
  <2>1. /\ UNCHANGED <<nodes, rels, relationship, first_relationship, status>>
        /\ deleting' = [node |-> n, last |-> NoId,
                        prev |-> IF first_relationship[n] = NoId THEN NoId
                                 ELSE Prev(n, first_relationship[n])]
    BY <1>8, Zenon DEF DeleteNode, nodeVars, relVars
  <2>2. GraphInv'
    BY <2>1, SameGraphInv, Zenon
  <2>3. deleting'.node = n /\ deleting'.last = NoId /\ first_relationship'[n] = first_relationship[n]
    BY <2>1, Zenon
  <2>4. NoId \notin rels
    BY NoIdApart, Zenon DEF GraphInv
  <2>5. Prev(deleting.node, first_relationship[deleting.node])' = Prev(n, first_relationship[n])
    BY <2>1, <2>3, Zenon DEF Prev
  <2>6. deleting'.prev = IF first_relationship[n] = NoId THEN NoId ELSE Prev(n, first_relationship[n])
    BY <2>1, Zenon
  <2>7. deleting' = [node |-> deleting'.node, prev |-> deleting'.prev, last |-> deleting'.last]
    BY <2>1
  <2>8. n \in nodes' /\ rels' = rels
    BY <1>8, <2>1, Zenon DEF DeleteNode
  <2>9. DeletingInv'
    BY <2>3, <2>4, <2>5, <2>6, <2>7, <2>8, Zenon DEF DeletingInv
  <2> QED BY <2>1, <2>2, <2>9, Zenon DEF NeverDangling
<1>9. ASSUME NEW n \in NodeIds, DeleteNodeFails(n) PROVE FALSE
  <2>1. HasRing(relationship, rels, first_relationship[n], n) /\ NoId \notin rels
    BY <1>9, NoIdApart, Zenon DEF DeleteNodeFails, GraphInv
  <2>2. first_relationship[n] \in rels \cup {NoId}
    BY <2>1, RingLinks, Zenon
  <2> QED BY <1>9, <2>2, Zenon DEF DeleteNodeFails
<1>10. CASE DeleteNext
  <2>1. GraphInv' /\ DeletingInv'
    BY <1>2, <1>10, DeleteNextKeeps, Zenon DEF DeleteNext
  <2> QED BY <1>10, <2>1, Zenon DEF DeleteNext, Delete, NeverDangling
<1>11. CASE DeleteNextFails
  <2>1. deleting.prev \in rels /\ EndOf(relationship, deleting.node, deleting.prev)
    BY <1>11, DeletingNext, Zenon DEF DeleteNextFails
  <2>2. NeighboursExist(deleting.prev)
    BY <2>1, NeighboursAlwaysExist, Zenon
  <2> QED BY <1>11, <2>1, <2>2, Zenon DEF DeleteNextFails, Incident, EndOf
<1>12. CASE DeleteLast
  <2>1. GraphInv' /\ DeletingInv'
    BY <1>12, DeleteLastRings, Zenon
  <2> QED BY <1>12, <2>1, Zenon DEF DeleteLast, NeverDangling
<1>13. ASSUME UNCHANGED <<nodes, rels, relationship, first_relationship, deleting>>,
              status' # "dangling"
       PROVE  GraphInv' /\ DeletingInv' /\ NeverDangling'
  BY <1>13, SameGraphInv, Zenon DEF DeletingInv, NeverDangling, Prev
<1>14. CASE BadCall
  BY <1>13, <1>14, Zenon DEF BadCall, Exit, nodeVars, relVars
<1>15. CASE Reopen
  BY <1>13, <1>15, Zenon DEF Reopen, NeverDangling
<1>16. CASE UNCHANGED vars
  BY <1>13, <1>16, Zenon DEF vars, nodeVars, relVars, NeverDangling
<1> QED
  BY <1>3, <1>4, <1>5, <1>6, <1>7, <1>8, <1>9, <1>10, <1>11, <1>12, <1>14, <1>15, <1>16, Zenon DEF Next

LEMMA ChainInvStep ==
    ASSUME Deletions # "any", ChainInv, [Next]_vars
    PROVE  ChainInv'
BY GraphStep, SlotInvInductive, SlotsAreFree, Zenon DEF ChainInv

LEMMA ChainInvInitial == Init => ChainInv
<1> SUFFICES ASSUME Init PROVE ChainInv
  BY Zenon
<1>1. NoRel \in Records
  BY NoIdApart, Zenon DEF NoRel, Records
<1>2. GraphInv
  BY <1>1, NoIdApart, Zenon DEF Init, GraphInv
<1> QED BY <1>2, SlotInvInitial, Zenon DEF Init, Idle, ChainInv, DeletingInv, NeverDangling

------------------------------------------------------------------------------
(* Following a function *)

\* g is the sequence of the values of f, applied up to steps times to x.
IsIteration(g, f, x, steps) == g = [k \in 0 .. steps |-> IF k = 0 THEN x ELSE f[g[k - 1]]]

\* There is such a sequence, so that Iterated is one.
LEMMA IterationExists ==
    ASSUME NEW f, NEW x, NEW steps \in Nat
    PROVE  \E g : IsIteration(g, f, x, steps)
<1> DEFINE Good(m) == \E g : IsIteration(g, f, x, m)
           T == {m \in Nat : ~Good(m)}
<1>1. SUFFICES ASSUME T # {} PROVE FALSE
  BY Zenon
<1>2. PICK m \in T : \A y \in T : m <= y
  BY <1>1, LeastElement, Zenon
<1>3. Good(0)
  <2> DEFINE g == [k \in 0 .. 0 |-> x]
  <2>1. g = [k \in 0 .. 0 |-> IF k = 0 THEN x ELSE f[g[k - 1]]]
    OBVIOUS
  <2> QED BY <2>1, Zenon DEF IsIteration
<1> HIDE DEF Good
<1>4. m \in Nat /\ m # 0 /\ ~Good(m)
  BY <1>2, <1>3, Zenon
<1>5. m - 1 \in Nat /\ Good(m - 1)
  <2>1. m - 1 \in Nat /\ ~(m <= m - 1)
    BY <1>4
  <2>2. m - 1 \notin T
    BY <1>2, <2>1, Zenon
  <2> QED BY <2>1, <2>2, Zenon
<1>6. PICK g : g = [k \in 0 .. m - 1 |-> IF k = 0 THEN x ELSE f[g[k - 1]]]
  BY <1>5, Zenon DEF Good, IsIteration
<1> DEFINE h == [k \in 0 .. m |-> IF k = m THEN f[g[m - 1]] ELSE g[k]]
<1>7. ASSUME NEW k \in 0 .. m PROVE h[k] = IF k = 0 THEN x ELSE f[h[k - 1]]
  <2>1. CASE k = m
    BY <2>1, <1>4, <1>5
  <2>2. CASE k # m
    <3>1. k \in 0 .. m - 1
      BY <2>2, <1>4
    <3>2. h[k] = g[k] /\ g[k] = IF k = 0 THEN x ELSE f[g[k - 1]]
      BY <3>1, <2>2, <1>6, Zenon
    <3>3. k # 0 => h[k - 1] = g[k - 1]
      BY <3>1, <1>4
    <3> QED BY <3>2, <3>3, Zenon
  <2> QED BY <2>1, <2>2, Zenon
<1>8. h = [k \in 0 .. m |-> IF k = 0 THEN x ELSE f[h[k - 1]]]
  BY <1>7, Zenon
<1> QED BY <1>4, <1>8, Zenon DEF Good, IsIteration

LEMMA IteratedRight ==
    ASSUME NEW f, NEW x, NEW steps \in Nat
    PROVE  LET it == Iterated(f, x, steps) IN
           /\ DOMAIN it = 0 .. steps
           /\ it[0] = x
           /\ \A k \in 1 .. steps : it[k] = f[it[k - 1]]
<1> DEFINE it == Iterated(f, x, steps)
<1>1. it = [k \in 0 .. steps |-> IF k = 0 THEN x ELSE f[it[k - 1]]]
  <2>1. it = CHOOSE g : IsIteration(g, f, x, steps)
    BY Zenon DEF Iterated, IsIteration
  <2> HIDE DEF it
  <2>2. IsIteration(it, f, x, steps)
    BY <2>1, IterationExists, Zenon
  <2> QED BY <2>2, Zenon DEF IsIteration
<1> HIDE DEF it
<1>2. DOMAIN it = 0 .. steps
  BY <1>1, Zenon
<1>3. \A k \in 0 .. steps : it[k] = IF k = 0 THEN x ELSE f[it[k - 1]]
  BY <1>1, Zenon
<1> QED BY <1>2, <1>3 DEF it

------------------------------------------------------------------------------
(* How many elements of a set come before another one *)

LEMMA ImageSize ==
    ASSUME NEW S, IsFiniteSet(S), NEW f, DOMAIN f = S, f = [x \in S |-> f[x]], NEW T,
           \A x \in S : f[x] \in T, \A y \in T : \E x \in S : f[x] = y,
           \A x, y \in S : f[x] = f[y] => x = y
    PROVE  IsFiniteSet(T) /\ Cardinality(T) = Cardinality(S)
<1>1. f \in [S -> T]
  BY Zenon
<1>2. f \in Injection(S, T) /\ f \in Surjection(S, T)
  BY <1>1, Zenon DEF Injection, IsInjective, Surjection
<1> QED BY <1>2, FS_Surjection, Zenon

Rank(ids, x) == Cardinality({y \in ids : y < x})

\* A finite set of naturals has a k-th element, for every k below its size.
LEMMA RankExists ==
    ASSUME NEW ids \in SUBSET Nat, IsFiniteSet(ids), NEW k \in Nat, k < Cardinality(ids)
    PROVE  \E x \in ids : Rank(ids, x) = k
<1> DEFINE below(x) == {y \in ids : y < x}
           Has(j)   == \E x \in ids : Cardinality(below(x)) = j
           T        == {j \in Nat : j < Cardinality(ids) /\ ~Has(j)}
<1>0. Cardinality(ids) \in Nat
  BY FS_CardinalityType, Zenon
<1>1. T = {}
  <2> SUFFICES ASSUME T # {} PROVE FALSE
    BY Zenon
  <2>1. T \in SUBSET Nat
    BY Zenon
  <2>2. PICK m \in T : \A j \in T : m <= j
    BY <2>1, LeastElement, Zenon
  <2>3. m \in Nat /\ m < Cardinality(ids) /\ ~Has(m)
    BY <2>2, Zenon
  <2>4. CASE m = 0
    <3>1. ids # {}
      BY <2>3, <2>4, FS_EmptySet
    <3>2. PICK x \in ids : \A y \in ids : x <= y
      BY <3>1, LeastElement, Zenon
    <3>3. below(x) = {}
      <4>1. ASSUME NEW y \in ids PROVE ~(y < x)
        <5>1. x <= y /\ x \in Nat /\ y \in Nat
          BY <3>2, Zenon
        <5> QED BY <5>1
      <4> QED BY <4>1, Zenon
    <3> QED BY <2>3, <2>4, <3>3, FS_EmptySet, Zenon
  <2>5. CASE m # 0
    <3>1. m - 1 \in Nat /\ m - 1 < Cardinality(ids) /\ ~(m <= m - 1)
      BY <2>3, <2>5, <1>0
    <3> HIDE DEF Has
    <3>2. Has(m - 1)
      BY <2>2, <3>1, Zenon
    <3>3. PICK x \in ids : Cardinality(below(x)) = m - 1
      BY <3>2, Zenon DEF Has
    <3> DEFINE upto == below(x) \cup {x}
               rest == ids \ upto
    <3>4. IsFiniteSet(below(x)) /\ x \notin below(x)
      BY FS_Subset
    <3>5. Cardinality(upto) = m
      <4> DEFINE b == below(x)
      <4>1. IsFiniteSet(b) /\ x \notin b /\ Cardinality(b) = m - 1 /\ upto = b \cup {x}
        BY <3>3, <3>4, Zenon
      <4> HIDE DEF b, upto
      <4>2. Cardinality(b \cup {x}) = Cardinality(b) + 1
        BY <4>1, FS_AddElement, Zenon
      <4>3. Cardinality(upto) = Cardinality(b) + 1
        BY <4>1, <4>2, Zenon
      <4> QED BY <4>1, <4>3, <2>3
    <3>6. rest # {}
      <4> SUFFICES ASSUME rest = {} PROVE FALSE
        BY Zenon
      <4>1. upto = ids
        BY Zenon
      <4> QED BY <4>1, <3>5, <2>3, <1>0
    <3>7. PICK z \in rest : \A y \in rest : z <= y
      BY <3>6, LeastElement, Zenon
    <3>8. below(z) = upto
      <4>1. ASSUME NEW y \in ids PROVE y < z <=> y \in upto
        BY <3>7
      <4> QED BY <4>1, Zenon
    <3> QED BY <2>3, <3>5, <3>7, <3>8, Zenon DEF Has
  <2> QED BY <2>4, <2>5, Zenon
<1>2. \E x \in ids : Cardinality({y \in ids : y < x}) = k
  BY <1>1, Zenon
<1> QED BY <1>2, Zenon DEF Rank

LEMMA RankRight ==
    ASSUME NEW ids \in SUBSET Nat, IsFiniteSet(ids), NEW x \in ids
    PROVE  /\ Rank(ids, x) \in Nat /\ Rank(ids, x) < Cardinality(ids)
           /\ \A y \in ids : x < y => Rank(ids, x) < Rank(ids, y)
           /\ \A y \in ids : x < y /\ (\A z \in ids : z <= x \/ y <= z) => Rank(ids, y) = Rank(ids, x) + 1
           /\ (\A z \in ids : z <= x) => Rank(ids, x) = Cardinality(ids) - 1
           /\ (\A z \in ids : x <= z) => Rank(ids, x) = 0
<1> DEFINE b == {y \in ids : y < x}
<1>1. IsFiniteSet(b) /\ x \notin b /\ b \in SUBSET ids
  BY FS_Subset
<1>2. PICK u : u = b \cup {x}
  BY Zenon
<1>3. Rank(ids, x) = Cardinality(b) /\ Cardinality(b) \in Nat /\ Cardinality(ids) \in Nat
  BY <1>1, FS_CardinalityType, Zenon DEF Rank
<1>4. u \in SUBSET ids /\ \A z \in ids : z \in u <=> z <= x
  BY <1>2
<1> HIDE DEF b
<1>5. IsFiniteSet(u) /\ Cardinality(u) = Cardinality(b) + 1
  BY <1>1, <1>2, FS_AddElement, Zenon
<1>6. Cardinality(u) <= Cardinality(ids)
  BY <1>4, FS_Subset, Zenon
<1>7. ASSUME NEW y \in ids, x < y PROVE Rank(ids, x) < Rank(ids, y)
  <2> DEFINE a == {z \in ids : z < y}
  <2>1. IsFiniteSet(a) /\ Rank(ids, y) = Cardinality(a) /\ u \in SUBSET a
    BY <1>4, <1>7, FS_Subset DEF Rank
  <2> HIDE DEF a
  <2>2. Cardinality(u) <= Cardinality(a) /\ Cardinality(a) \in Nat
    BY <2>1, FS_Subset, FS_CardinalityType, Zenon
  <2> QED BY <2>1, <2>2, <1>3, <1>5
<1>8. ASSUME NEW y \in ids, x < y, \A z \in ids : z <= x \/ y <= z
      PROVE  Rank(ids, y) = Rank(ids, x) + 1
  <2>1. {z \in ids : z < y} = u
    <3>1. \A z \in ids : z < y <=> z <= x
      BY <1>8
    <3> QED BY <3>1, <1>4, Zenon
  <2> QED BY <2>1, <1>3, <1>5, Zenon DEF Rank
<1>9. ASSUME \A z \in ids : z <= x PROVE Rank(ids, x) = Cardinality(ids) - 1
  <2>1. u = ids
    BY <1>4, <1>9, Zenon
  <2> QED BY <2>1, <1>3, <1>5
<1>10. ASSUME \A z \in ids : x <= z PROVE Rank(ids, x) = 0
  <2>1. \A z \in ids : ~(z < x)
    BY <1>10
  <2>2. b = {}
    BY <2>1, Zenon DEF b
  <2> QED BY <2>2, <1>3, FS_EmptySet, Zenon
<1>11. Rank(ids, x) < Cardinality(ids)
  BY <1>3, <1>5, <1>6
<1> QED BY <1>3, <1>7, <1>8, <1>9, <1>10, <1>11, Zenon

------------------------------------------------------------------------------
(* Walk, next_relationship_id and expand along a ring *)

\* The place i of a ring of m, counted on past the end.
Place(m, i) == IF i <= m THEN i ELSE i - m

LEMMA RingFits ==
    ASSUME GraphInv, NEW n, NEW m \in Nat, NEW c, NEW first, IsRing(relationship, rels, first, n, m, c)
    PROVE  /\ IsFiniteSet(rels) /\ Cardinality(rels) \in Nat /\ m <= Cardinality(rels)
           /\ Cardinality(IncidentRels(n)) = m /\ IncidentRels(n) = {c[i] : i \in 1 .. m}
<1>1. IsFiniteSet(rels) /\ Cardinality(rels) \in Nat
  BY IdTypes, FS_Subset, FS_CardinalityType, Zenon DEF GraphInv
<1>2. /\ c \in [1 .. m -> rels]
      /\ \A i, j \in 1 .. m : c[i] = c[j] => i = j
      /\ \A s \in rels : EndOf(relationship, n, s) <=> \E i \in 1 .. m : c[i] = s
  BY Zenon DEF IsRing
<1>3. IncidentRels(n) \in SUBSET rels /\ IsFiniteSet(IncidentRels(n))
  BY <1>1, FS_Subset, Zenon DEF IncidentRels
<1>4. \A s \in rels : s \in IncidentRels(n) <=> EndOf(relationship, n, s)
  BY Zenon DEF IncidentRels, Incident, EndOf
<1>5. \A s : s \in IncidentRels(n) <=> \E i \in 1 .. m : c[i] = s
  BY <1>2, <1>3, <1>4, Zenon
<1>6. c \in Injection(1 .. m, IncidentRels(n)) /\ c \in Surjection(1 .. m, IncidentRels(n))
  <2>1. c \in [1 .. m -> IncidentRels(n)]
    BY <1>2, <1>5, Zenon
  <2> QED BY <2>1, <1>2, <1>5, Zenon DEF Injection, IsInjective, Surjection
<1>7. IsFiniteSet(1 .. m) /\ Cardinality(1 .. m) = m
  BY FS_Interval
<1>8. Cardinality(IncidentRels(n)) = m
  BY <1>3, <1>6, <1>7, FS_Surjection, Zenon
<1>9. Cardinality(IncidentRels(n)) <= Cardinality(rels)
  BY <1>1, <1>3, FS_Subset, Zenon
<1> QED BY <1>1, <1>5, <1>8, <1>9, Zenon

LEMMA WalkRight ==
    ASSUME GraphInv, NEW n, NEW m \in Nat, NEW c, NEW first,
           IsRing(relationship, rels, first, n, m, c), NEW i \in 1 .. m
    PROVE  LET w == Walk(n, c[i]) IN
           /\ \A k \in 0 .. m : w[k] = c[Place(m, i + k)]
           /\ \A k \in 0 .. Cardinality(rels) : w[k] \in rels
<1> DEFINE next == [x \in Links |-> IF x \in rels THEN Next_(n, x) ELSE NoId]
           N    == Cardinality(rels)
           w    == Iterated(next, c[i], N)
<1>1. N \in Nat /\ m <= N
  BY RingFits, Zenon
<1>2. /\ c \in [1 .. m -> rels]
      /\ \A j \in 1 .. m : NextOf(relationship, n, c[j]) = IF j = m THEN c[1] ELSE c[j + 1]
      /\ rels \subseteq Links
  BY NoIdApart, Zenon DEF IsRing, GraphInv
<1>3. \A j \in 1 .. m : next[c[j]] = IF j = m THEN c[1] ELSE c[j + 1]
  BY <1>2, Zenon DEF Next_, NextOf
<1> HIDE DEF next, N
<1>4. DOMAIN w = 0 .. N /\ w[0] = c[i] /\ \A k \in 1 .. N : w[k] = next[w[k - 1]]
  BY <1>1, IteratedRight
<1>5. Walk(n, c[i]) = w
  BY Zenon DEF Walk, next, N
<1> HIDE DEF w
<1>6. ASSUME NEW k \in 0 .. m PROVE w[k] = c[Place(m, i + k)]
  <2> DEFINE T == {j \in 0 .. m : w[j] # c[Place(m, i + j)]}
  <2>1. SUFFICES ASSUME T # {} PROVE FALSE
    BY Zenon
  <2>2. T \in SUBSET Nat
    OBVIOUS
  <2>3. PICK j \in T : \A y \in T : j <= y
    BY <2>1, <2>2, LeastElement, Zenon
  <2>4. j \in 1 .. m /\ j - 1 \in 0 .. m /\ ~(j <= j - 1)
    BY <2>3, <1>4 DEF Place
  <2>5. w[j - 1] = c[Place(m, i + j - 1)]
    BY <2>3, <2>4, Zenon
  <2>6. Place(m, i + j - 1) \in 1 .. m
    BY <2>4 DEF Place
  <2>7. Place(m, i + j) = IF Place(m, i + j - 1) = m THEN 1 ELSE Place(m, i + j - 1) + 1
    BY <2>4 DEF Place
  <2>8. w[j] = next[w[j - 1]]
    <3>1. j \in 1 .. N
      BY <2>4, <1>1
    <3> QED BY <3>1, <1>4, Zenon
  <2>9. w[j] = c[Place(m, i + j)]
    BY <2>5, <2>6, <2>7, <2>8, <1>3, Zenon
  <2> QED BY <2>3, <2>9, Zenon
<1>7. ASSUME NEW k \in 0 .. N PROVE \E j \in 1 .. m : w[k] = c[j]
  <2> DEFINE T == {j \in 0 .. N : ~\E p \in 1 .. m : w[j] = c[p]}
  <2>1. SUFFICES ASSUME T # {} PROVE FALSE
    BY Zenon
  <2>2. T \in SUBSET Nat
    BY <1>1
  <2>3. PICK j \in T : \A y \in T : j <= y
    BY <2>1, <2>2, LeastElement, Zenon
  <2>4. j \in 1 .. N /\ j - 1 \in 0 .. N /\ ~(j <= j - 1)
    BY <2>3, <1>1, <1>4
  <2>5. PICK p \in 1 .. m : w[j - 1] = c[p]
    BY <2>3, <2>4, Zenon
  <2>6. w[j] = IF p = m THEN c[1] ELSE c[p + 1]
    BY <2>4, <2>5, <1>3, <1>4, Zenon
  <2>7. \E q \in 1 .. m : w[j] = c[q]
    BY <2>6
  <2> QED BY <2>3, <2>7, Zenon
<1> QED BY <1>2, <1>5, <1>6, <1>7, Zenon DEF N

\* next_relationship_id: the next one along the ring that matches, or none if no
\* other does.
LEMMA NextIdRight ==
    ASSUME GraphInv, NEW n, NEW m \in Nat, NEW c, NEW first, NEW d,
           IsRing(relationship, rels, first, n, m, c), NEW i \in 1 .. m
    PROVE  LET x == NextRelationshipId(n, c[i], d) IN
           \/ /\ x = NoId
              /\ \A p \in 1 .. m : p # i => ~Matches(n, c[p], d)
           \/ \E k \in 1 .. m - 1 :
                 /\ x = c[Place(m, i + k)] /\ Matches(n, x, d)
                 /\ \A j \in 1 .. k - 1 : ~Matches(n, c[Place(m, i + j)], d)
<1> DEFINE w    == Walk(n, c[i])
           r    == c[i]
           N    == Cardinality(rels)
           hits == {k \in 1 .. N :
                       /\ w[k] \in rels \ {r} /\ Matches(n, w[k], d)
                       /\ \A j \in 1 .. k - 1 : w[j] # r /\ ~Matches(n, w[j], d)}
           x    == NextRelationshipId(n, c[i], d)
<1>1. x = IF hits = {} THEN NoId ELSE w[CHOOSE k \in hits : TRUE]
  BY Zenon DEF NextRelationshipId
<1>2. \A k \in 0 .. m : w[k] = c[Place(m, i + k)]
  BY WalkRight
<1>3. N \in Nat /\ m <= N
  BY RingFits, Zenon
<1>4. /\ c \in [1 .. m -> rels]
      /\ \A p, q \in 1 .. m : c[p] = c[q] => p = q
  BY Zenon DEF IsRing
<1>5. \A k \in 1 .. m - 1 : Place(m, i + k) \in 1 .. m /\ Place(m, i + k) # i
  BY DEF Place
<1>6. Place(m, i + m) = i
  BY DEF Place
<1> HIDE DEF w, N
<1>7. \A k \in 1 .. m - 1 : w[k] \in rels \ {r}
  BY <1>2, <1>4, <1>5
<1>8. w[m] = r
  BY <1>2, <1>6
<1>9. CASE hits # {}
  <2> DEFINE k == CHOOSE k \in hits : TRUE
  <2>1. k \in hits /\ x = w[k]
    BY <1>1, <1>9, Zenon
  <2> HIDE DEF k, x
  <2>2. k \in 1 .. N /\ Matches(n, w[k], d) /\ \A j \in 1 .. k - 1 : w[j] # r /\ ~Matches(n, w[j], d)
    BY <2>1, Zenon
  <2>3. k <= m - 1
    <3> SUFFICES ASSUME ~(k <= m - 1) PROVE FALSE
      BY Zenon
    <3>1. k # m
      BY <2>1, <1>8, Zenon
    <3>2. m \in 1 .. k - 1
      BY <2>2, <3>1, <1>3
    <3> QED BY <2>2, <3>2, <1>8, Zenon
  <2>4. k \in 1 .. m - 1
    BY <2>2, <2>3, <1>3
  <2>5. x = c[Place(m, i + k)] /\ Matches(n, x, d)
    BY <2>1, <2>2, <2>4, <1>2
  <2>6. \A j \in 1 .. k - 1 : ~Matches(n, c[Place(m, i + j)], d)
    BY <2>2, <2>4, <1>2
  <2> QED BY <2>4, <2>5, <2>6, Zenon DEF x
<1>10. CASE hits = {}
  <2>1. x = NoId
    BY <1>1, <1>10, Zenon
  <2>2. ASSUME NEW k \in 1 .. m - 1, Matches(n, w[k], d) PROVE FALSE
    <3> DEFINE T == {j \in 1 .. m - 1 : Matches(n, w[j], d)}
    <3>1. T \in SUBSET Nat /\ T # {}
      BY <2>2
    <3>2. PICK j \in T : \A y \in T : j <= y
      BY <3>1, LeastElement, Zenon
    <3>3. \A y \in 1 .. j - 1 : w[y] # r /\ ~Matches(n, w[y], d)
      <4> SUFFICES ASSUME NEW y \in 1 .. j - 1 PROVE w[y] # r /\ ~Matches(n, w[y], d)
        BY Zenon
      <4>1. y \in 1 .. m - 1 /\ ~(j <= y)
        BY <3>2
      <4> QED BY <4>1, <3>2, <1>7, Zenon
    <3>4. j \in hits
      BY <3>2, <3>3, <1>3, <1>7
    <3> QED BY <3>4, <1>10, Zenon
  <2>3. ASSUME NEW p \in 1 .. m, p # i PROVE ~Matches(n, c[p], d)
    <3> DEFINE k == IF p > i THEN p - i ELSE p + m - i
    <3>1. k \in 1 .. m - 1 /\ Place(m, i + k) = p
      BY <2>3 DEF Place
    <3>2. w[k] = c[p]
      BY <3>1, <1>2
    <3> QED BY <3>1, <3>2, <2>2, Zenon
  <2> QED BY <2>1, <2>3, Zenon
<1> QED BY <1>9, <1>10, Zenon

\* The places of the relationships that match.
Positions(n, m, c, d) == {p \in 1 .. m : Matches(n, c[p], d)}

\* x is what comes behind the place i, of the places M, along the ring c.
NextMatch(x, c, M, i) ==
    /\ M \subseteq {i} => x = NoId
    /\ \A p \in M : i < p /\ (\A z \in M : z <= i \/ p <= z) => x = c[p]
    /\ \A p \in M : p < i /\ (\A z \in M : p <= z /\ z <= i) => x = c[p]

LEMMA NextAlong ==
    ASSUME GraphInv, NEW n, NEW m \in Nat, NEW c, NEW first, NEW d,
           IsRing(relationship, rels, first, n, m, c), NEW i \in 1 .. m,
           NEW M, M = Positions(n, m, c, d)
    PROVE  NextMatch(NextRelationshipId(n, c[i], d), c, M, i)
<1> USE DEF Positions
<1>1. PICK x : x = NextRelationshipId(n, c[i], d)
  BY Zenon
<1>2. \/ /\ x = NoId
         /\ \A p \in 1 .. m : p # i => p \notin M
      \/ \E k \in 1 .. m - 1 :
            /\ x = c[Place(m, i + k)] /\ Place(m, i + k) \in M
            /\ \A j \in 1 .. k - 1 : Place(m, i + j) \notin M
  <2>1. \A k \in 1 .. m - 1 : Place(m, i + k) \in 1 .. m
    BY DEF Place
  <2>2. \/ /\ x = NoId
           /\ \A p \in 1 .. m : p # i => ~Matches(n, c[p], d)
        \/ \E k \in 1 .. m - 1 :
              /\ x = c[Place(m, i + k)] /\ Matches(n, x, d)
              /\ \A j \in 1 .. k - 1 : ~Matches(n, c[Place(m, i + j)], d)
    BY <1>1, NextIdRight, Zenon
  <2> QED BY <2>1, <2>2, Zenon
<1>3. M \subseteq 1 .. m
  BY Zenon
<1>4. \A k \in 1 .. m - 1 : Place(m, i + k) # i
  BY DEF Place
<1>5. ASSUME M \subseteq {i} PROVE x = NoId
  BY <1>2, <1>4, <1>5, Zenon
<1>6. ASSUME NEW p \in M, i < p, \A z \in M : z <= i \/ p <= z PROVE x = c[p]
  <2>1. PICK k \in 1 .. m - 1 :
            /\ x = c[Place(m, i + k)] /\ Place(m, i + k) \in M
            /\ \A j \in 1 .. k - 1 : Place(m, i + j) \notin M
    BY <1>2, <1>3, <1>6
  <2>2. p - i \in 1 .. m - 1 /\ Place(m, i + (p - i)) = p
    BY <1>3, <1>6 DEF Place
  <2>3. ~(k > p - i)
    BY <2>1, <2>2, <1>6
  <2>4. ~(k < p - i)
    BY <2>1, <2>2, <1>3, <1>6 DEF Place
  <2>5. k = p - i
    BY <2>2, <2>3, <2>4
  <2> QED BY <2>1, <2>2, <2>5, Zenon
<1>7. ASSUME NEW p \in M, p < i, \A z \in M : p <= z /\ z <= i PROVE x = c[p]
  <2>1. PICK k \in 1 .. m - 1 :
            /\ x = c[Place(m, i + k)] /\ Place(m, i + k) \in M
            /\ \A j \in 1 .. k - 1 : Place(m, i + j) \notin M
    BY <1>2, <1>3, <1>7
  <2>2. p + m - i \in 1 .. m - 1 /\ Place(m, i + (p + m - i)) = p
    BY <1>3, <1>7 DEF Place
  <2>3. ~(k > p + m - i)
    BY <2>1, <2>2, <1>7
  <2>4. ~(k < p + m - i)
    BY <2>1, <2>2, <1>3, <1>7 DEF Place
  <2>5. k = p + m - i
    BY <2>2, <2>3, <2>4
  <2> QED BY <2>1, <2>2, <2>5, Zenon
<1> QED BY <1>1, <1>5, <1>6, <1>7, Zenon DEF NextMatch

\* expand: the relationships that match, in the order of the ring.
LEMMA ExpandSequence ==
    ASSUME GraphInv, NEW n \in nodes, NEW m \in Nat, NEW c, NEW d,
           IsRing(relationship, rels, first_relationship[n], n, m, c),
           NEW M, M = Positions(n, m, c, d)
    PROVE  /\ IsFiniteSet(M) /\ Cardinality(M) \in Nat
           /\ DOMAIN Expand(n, d) = 0 .. Cardinality(M) - 1
           /\ \A p \in M : Rank(M, p) \in DOMAIN Expand(n, d) /\ Expand(n, d)[Rank(M, p)] = c[p]
<1> DEFINE next    == [r \in Links |-> IF r \in rels THEN NextRelationshipId(n, r, d) ELSE NoId]
           first   == first_relationship[n]
           start   == IF first = NoId \/ Matches(n, first, d) THEN first ELSE next[first]
           N       == Cardinality(rels)
           e       == Iterated(next, start, N)
           over(i) == e[i] = NoId \/ (i > 0 /\ e[i] = start)
           q       == Cardinality(M)
<1>1. Expand(n, d) = [i \in {k \in DOMAIN e : \A j \in 0 .. k : ~over(j)} |-> e[i]]
  BY Zenon DEF Expand
<1>2. /\ c \in [1 .. m -> rels]
      /\ \A i, j \in 1 .. m : c[i] = c[j] => i = j
      /\ first = IF m = 0 THEN NoId ELSE c[1]
  BY Zenon DEF IsRing
<1>3. NoId \notin rels /\ rels \subseteq Links
  BY NoIdApart, Zenon DEF GraphInv
<1>4. N \in Nat /\ m <= N
  BY RingFits, Zenon
<1>5. M \in SUBSET (1 .. m) /\ M \in SUBSET Nat
  BY DEF Positions
<1>6. IsFiniteSet(M) /\ q \in Nat /\ q <= m
  <2>1. IsFiniteSet(1 .. m) /\ Cardinality(1 .. m) = m
    BY FS_Interval
  <2> QED BY <2>1, <1>5, FS_Subset, FS_CardinalityType, Zenon
<1>7. \A i \in 1 .. m : next[c[i]] = NextRelationshipId(n, c[i], d)
  BY <1>2, <1>3, Zenon
<1> HIDE DEF next
<1>8. ASSUME NEW i \in 1 .. m
      PROVE  /\ M \subseteq {i} => next[c[i]] = NoId
             /\ \A p \in M : i < p /\ (\A z \in M : z <= i \/ p <= z) => next[c[i]] = c[p]
             /\ \A p \in M : p < i /\ (\A z \in M : p <= z /\ z <= i) => next[c[i]] = c[p]
  <2>1. NextMatch(NextRelationshipId(n, c[i], d), c, M, i)
    BY NextAlong, Zenon
  <2>2. NextMatch(next[c[i]], c, M, i)
    BY <2>1, <1>7, Zenon
  <2> QED BY <2>2, Zenon DEF NextMatch
<1> USE DEF Positions
<1>9. M = {} => start = NoId
  <2> SUFFICES ASSUME M = {} PROVE start = NoId
    BY Zenon
  <2>1. CASE m = 0
    BY <2>1, <1>2, Zenon
  <2>2. CASE m # 0
    <3>1. 1 \in 1 .. m /\ first = c[1] /\ 1 \notin M /\ M \subseteq {1}
      BY <2>2, <1>2
    <3>2. ~Matches(n, first, d) /\ first # NoId
      BY <3>1, <1>2, <1>3
    <3> QED BY <3>1, <3>2, <1>8, Zenon
  <2> QED BY <2>1, <2>2, Zenon
<1>10. ASSUME NEW l \in M, \A z \in M : l <= z PROVE start = c[l]
  <2>1. 1 \in 1 .. m /\ first = c[1] /\ first # NoId
    BY <1>2, <1>3, <1>5
  <2>2. CASE l = 1
    BY <2>1, <2>2, Zenon
  <2>3. CASE l # 1
    <3>1. 1 \notin M /\ 1 < l /\ \A z \in M : z <= 1 \/ l <= z
      BY <2>3, <1>5, <1>10
    <3>2. ~Matches(n, first, d)
      BY <2>1, <3>1, Zenon
    <3> QED BY <2>1, <3>1, <3>2, <1>8
  <2> QED BY <2>2, <2>3, Zenon
<1> HIDE DEF start
<1>11. DOMAIN e = 0 .. N /\ e[0] = start /\ \A k \in 1 .. N : e[k] = next[e[k - 1]]
  BY <1>4, IteratedRight
<1> HIDE DEF N, e, q
<1>12. DOMAIN Expand(n, d) = {k \in 0 .. N : \A j \in 0 .. k : ~over(j)}
  BY <1>1, <1>11, Zenon
<1>13. \A k \in DOMAIN Expand(n, d) : Expand(n, d)[k] = e[k]
  BY <1>1, Zenon
<1>14. CASE M = {}
  <2>1. over(0) /\ q = 0
    BY <1>9, <1>11, <1>14, FS_EmptySet, Zenon DEF q
  <2>2. DOMAIN Expand(n, d) = {}
    BY <2>1, <1>4, <1>12
  <2>3. 0 .. q - 1 = {}
    BY <2>1
  <2> QED BY <2>2, <2>3, <1>6, <1>14, Zenon DEF q
<1>15. CASE M # {}
  <2>1. PICK l \in M : \A z \in M : l <= z
    BY <1>5, <1>15, LeastElement, Zenon
  <2>2. start = c[l] /\ l \in 1 .. m
    BY <2>1, <1>5, <1>10, Zenon
  <2>3. /\ \A x \in M : Rank(M, x) \in Nat /\ Rank(M, x) < q
        /\ \A x, y \in M : x < y => Rank(M, x) < Rank(M, y)
        /\ Rank(M, l) = 0
    BY <2>1, <1>5, <1>6, RankRight, Zenon DEF q
  <2>4. \A k \in Nat : k < q => \E x \in M : Rank(M, x) = k
    BY <1>5, <1>6, RankExists, Zenon DEF q
  <2>5. ASSUME NEW p \in M PROVE e[Rank(M, p)] = c[p]
    <3> DEFINE T == {x \in M : e[Rank(M, x)] # c[x]}
    <3>1. SUFFICES ASSUME T # {} PROVE FALSE
      BY Zenon
    <3>2. T \in SUBSET Nat
      BY <1>5, Zenon
    <3>3. PICK x \in T : \A y \in T : x <= y
      BY <3>1, <3>2, LeastElement, Zenon
    <3>4. x \in M /\ x # l /\ x \in Nat
      BY <3>2, <3>3, <2>2, <2>3, <1>11, Zenon
    <3>5. l < x /\ Rank(M, x) \in Nat /\ Rank(M, x) # 0
      BY <3>4, <2>1, <2>3, <1>5
    <3>6. PICK y \in M : Rank(M, y) = Rank(M, x) - 1
      <4> DEFINE k == Rank(M, x) - 1
      <4>1. k \in Nat /\ k < q
        BY <3>4, <3>5, <2>3, <1>6
      <4> HIDE DEF k
      <4>2. \E y \in M : Rank(M, y) = k
        BY <4>1, <2>4, Zenon
      <4> QED BY <4>2, Zenon DEF k
    <3>7. y \in Nat /\ y < x
      BY <3>4, <3>5, <3>6, <2>3, <1>5
    <3>8. \A z \in M : z <= y \/ x <= z
      BY <3>4, <3>5, <3>6, <3>7, <2>3, <1>5
    <3>9. e[Rank(M, y)] = c[y]
      BY <3>3, <3>7
    <3>10. next[c[y]] = c[x]
      BY <3>4, <3>7, <3>8, <1>5, <1>8, Zenon
    <3>11. Rank(M, x) \in 1 .. N
      BY <3>4, <3>5, <2>3, <1>4, <1>6
    <3>12. e[Rank(M, x)] = c[x]
      BY <3>6, <3>9, <3>10, <3>11, <1>11, Zenon
    <3> QED BY <3>3, <3>12, Zenon
  <2>6. ASSUME NEW j \in Nat, j < q PROVE ~over(j)
    <3>1. PICK p \in M : Rank(M, p) = j
      BY <2>4, <2>6, Zenon
    <3>2. e[j] = c[p] /\ p \in 1 .. m
      BY <3>1, <2>5, <1>5, Zenon
    <3>3. e[j] # NoId
      BY <3>2, <1>2, <1>3
    <3>4. j > 0 => p # l
      BY <3>1, <2>3
    <3> QED BY <3>2, <3>3, <3>4, <2>2, <1>2, Zenon
  <2>7. q \in 1 .. N
    BY <2>3, <1>4, <1>6, <1>15
  <2>8. over(q)
    <3>1. PICK p \in M : Rank(M, p) = q - 1
      BY <2>4, <2>7
    <3>2. \A z \in M : z <= p
      BY <3>1, <2>3, <2>7, <1>5
    <3>3. e[q] = next[c[p]] /\ p \in 1 .. m
      BY <3>1, <2>5, <2>7, <1>5, <1>11
    <3>4. CASE p = l
      <4>1. M \subseteq {p}
        BY <3>2, <3>4, <2>1, <1>5
      <4> QED BY <3>3, <4>1, <1>8, Zenon
    <3>5. CASE p # l
      <4>1. l < p /\ \A z \in M : l <= z /\ z <= p
        BY <3>2, <3>5, <2>1, <1>5
      <4>2. next[c[p]] = c[l]
        BY <3>3, <4>1, <1>8, Zenon
      <4> QED BY <3>3, <4>2, <2>2, <2>7
    <3> QED BY <3>4, <3>5, Zenon
  <2> HIDE DEF over
  <2>9. DOMAIN Expand(n, d) = 0 .. q - 1
    <3>1. ASSUME NEW k \in 0 .. N, \A j \in 0 .. k : ~over(j) PROVE k \in 0 .. q - 1
      BY <3>1, <2>7, <2>8, <1>4
    <3>2. ASSUME NEW k \in 0 .. q - 1 PROVE k \in 0 .. N /\ \A j \in 0 .. k : ~over(j)
      BY <2>6, <2>7, <1>4
    <3> QED BY <3>1, <3>2, <1>12, Zenon
  <2>10. \A p \in M : Rank(M, p) \in 0 .. q - 1
    BY <2>3, <2>7
  <2> QED BY <2>5, <2>9, <2>10, <1>6, <1>13, Zenon DEF q
<1> QED BY <1>14, <1>15, Zenon

\* The relationships of n in the direction d.
Matching(n, d) == {r \in rels : Matches(n, r, d)}

\* expand returns the relationships that match, each once.
LEMMA ExpandExact ==
    ASSUME GraphInv, NEW n \in nodes, NEW d
    PROVE  /\ IsFiniteSet(Matching(n, d)) /\ Cardinality(Matching(n, d)) \in Nat
           /\ DOMAIN Expand(n, d) = 0 .. Cardinality(Matching(n, d)) - 1
           /\ \A i, j \in DOMAIN Expand(n, d) : Expand(n, d)[i] = Expand(n, d)[j] => i = j
           /\ {Expand(n, d)[i] : i \in DOMAIN Expand(n, d)} = Matching(n, d)
<1>0. PICK m \in Nat : \E c : IsRing(relationship, rels, first_relationship[n], n, m, c)
  BY Zenon DEF GraphInv, HasRing
<1>1. PICK c : IsRing(relationship, rels, first_relationship[n], n, m, c)
  BY <1>0, Zenon
<1>2. PICK M : M = Positions(n, m, c, d)
  BY Zenon
<1>3. PICK e : e = Expand(n, d)
  BY Zenon
<1>4. /\ IsFiniteSet(M) /\ Cardinality(M) \in Nat
      /\ DOMAIN e = 0 .. Cardinality(M) - 1
      /\ \A p \in M : Rank(M, p) \in DOMAIN e /\ e[Rank(M, p)] = c[p]
  BY <1>1, <1>2, <1>3, ExpandSequence
<1> USE DEF Positions
<1>5. /\ c \in [1 .. m -> rels]
      /\ \A i, j \in 1 .. m : c[i] = c[j] => i = j
      /\ \A s \in rels : EndOf(relationship, n, s) <=> \E i \in 1 .. m : c[i] = s
  BY <1>1, Zenon DEF IsRing
<1>6. \A k \in DOMAIN e : \E p \in M : Rank(M, p) = k /\ e[k] = c[p]
  <2> SUFFICES ASSUME NEW k \in DOMAIN e PROVE \E p \in M : Rank(M, p) = k /\ e[k] = c[p]
    BY Zenon
  <2>1. k \in Nat /\ k < Cardinality(M) /\ M \in SUBSET Nat
    BY <1>2, <1>4
  <2>2. PICK p \in M : Rank(M, p) = k
    BY <2>1, <1>4, RankExists, Zenon
  <2> QED BY <2>2, <1>4, Zenon
<1>7. \A r \in rels : Matches(n, r, d) => EndOf(relationship, n, r)
  BY Zenon DEF Matches, EndOf
<1>8. \A r : r \in Matching(n, d) <=> \E p \in M : c[p] = r
  <2>1. ASSUME NEW r \in Matching(n, d) PROVE \E p \in M : c[p] = r
    <3>1. r \in rels /\ Matches(n, r, d)
      BY Zenon DEF Matching
    <3>2. PICK p \in 1 .. m : c[p] = r
      BY <3>1, <1>5, <1>7, Zenon
    <3> QED BY <3>1, <3>2, <1>2, Zenon
  <2>2. ASSUME NEW p \in M PROVE c[p] \in Matching(n, d)
    BY <1>2, <1>5, Zenon DEF Matching
  <2> QED BY <2>1, <2>2, Zenon
<1>9. {e[i] : i \in DOMAIN e} = Matching(n, d)
  <2>1. \A i \in DOMAIN e : e[i] \in Matching(n, d)
    BY <1>6, <1>8, Zenon
  <2>2. \A r \in Matching(n, d) : \E i \in DOMAIN e : e[i] = r
    BY <1>4, <1>8, Zenon
  <2> QED BY <2>1, <2>2, Zenon
<1>10. ASSUME NEW i \in DOMAIN e, NEW j \in DOMAIN e, e[i] = e[j] PROVE i = j
  <2>1. PICK p \in M : Rank(M, p) = i /\ e[i] = c[p]
    BY <1>6, Zenon
  <2>2. PICK z \in M : Rank(M, z) = j /\ e[j] = c[z]
    BY <1>6, Zenon
  <2>3. p = z
    BY <2>1, <2>2, <1>2, <1>5, <1>10, Zenon
  <2> QED BY <2>1, <2>2, <2>3, Zenon
<1>11. Cardinality(Matching(n, d)) = Cardinality(M) /\ IsFiniteSet(Matching(n, d))
  <2> DEFINE f == [p \in M |-> c[p]]
  <2>1. f \in [M -> Matching(n, d)] /\ \A p, z \in M : f[p] = f[z] => p = z
    BY <1>2, <1>5, <1>8, Zenon
  <2>2. \A r \in Matching(n, d) : \E p \in M : f[p] = r
    BY <1>8, Zenon
  <2> HIDE DEF f
  <2>3. f \in Surjection(M, Matching(n, d)) /\ f \in Injection(M, Matching(n, d))
    BY <2>1, <2>2, Zenon DEF Surjection, Injection, IsInjective
  <2> QED BY <2>3, <1>4, FS_Surjection, Zenon
<1> QED BY <1>3, <1>4, <1>9, <1>10, <1>11

------------------------------------------------------------------------------
(* The properties *)

LEMMA RingWalk ==
    ASSUME GraphInv, NEW n, NEW m \in Nat, NEW c, NEW first,
           IsRing(relationship, rels, first, n, m, c), 1 \in 1 .. m
    PROVE  LET w == Walk(n, c[1]) IN
           \A k \in 0 .. m - 1 : w[k] = c[k + 1]
<1>1. ASSUME NEW i \in 1 .. m
      PROVE  /\ \A k \in 0 .. m : Walk(n, c[i])[k] = c[Place(m, i + k)]
             /\ \A k \in 0 .. Cardinality(rels) : Walk(n, c[i])[k] \in rels
  BY WalkRight, Zenon
<1>2. ASSUME NEW k \in 0 .. m - 1 PROVE k \in 0 .. m /\ Place(m, 1 + k) = k + 1
  BY DEF Place
<1> QED BY <1>1, <1>2, Zenon

LEMMA RingsIntact == GraphInv => ChainsIntact
<1> SUFFICES ASSUME GraphInv PROVE ChainsIntact
  BY Zenon
<1>1. \A r \in rels : {relationship[r].source, relationship[r].target} \subseteq nodes
  BY Zenon DEF GraphInv
<1>2. ASSUME NEW n \in nodes
      PROVE  /\ first_relationship[n] = NoId <=> IncidentRels(n) = {}
             /\ IncidentRels(n) # {} =>
                   {Walk(n, first_relationship[n])[k] : k \in 0 .. Cardinality(IncidentRels(n)) - 1}
                       = IncidentRels(n)
             /\ \A r \in IncidentRels(n) : Next_(n, r) \in IncidentRels(n) /\ Prev(n, Next_(n, r)) = r
  <2>1. HasRing(relationship, rels, first_relationship[n], n) /\ NoId \notin rels
    BY NoIdApart, Zenon DEF GraphInv
  <2>0. PICK m \in Nat : \E c : IsRing(relationship, rels, first_relationship[n], n, m, c)
    BY <2>1, Zenon DEF HasRing
  <2>2. PICK c : IsRing(relationship, rels, first_relationship[n], n, m, c)
    BY <2>0, Zenon
  <2>3. Cardinality(IncidentRels(n)) = m /\ IncidentRels(n) = {c[i] : i \in 1 .. m}
    BY <2>2, RingFits
  <2>4. c \in [1 .. m -> rels] /\ first_relationship[n] = IF m = 0 THEN NoId ELSE c[1]
    BY <2>2, Zenon DEF IsRing
  <2>5. first_relationship[n] = NoId <=> IncidentRels(n) = {}
    <3>1. CASE m = 0
      BY <3>1, <2>3, <2>4
    <3>2. CASE m # 0
      <4>1. 1 \in 1 .. m
        BY <3>2
      <4> QED BY <3>2, <4>1, <2>1, <2>3, <2>4, Zenon
    <3> QED BY <3>1, <3>2, Zenon
  <2>6. ASSUME IncidentRels(n) # {}
        PROVE  {Walk(n, first_relationship[n])[k] : k \in 0 .. Cardinality(IncidentRels(n)) - 1}
                   = IncidentRels(n)
    <3>1. 1 \in 1 .. m /\ first_relationship[n] = c[1]
      BY <2>3, <2>4, <2>6
    <3>2. PICK w : w = Walk(n, c[1])
      BY Zenon
    <3>3. PICK first : IsRing(relationship, rels, first, n, m, c)
      BY <2>2, Zenon
    <3>4. \A k \in 0 .. m - 1 : k + 1 \in 1 .. m /\ w[k] = c[k + 1]
      BY <3>1, <3>2, <3>3, RingWalk
    <3>5. \A j \in 1 .. m : j - 1 \in 0 .. m - 1 /\ w[j - 1] = c[j]
      BY <3>4
    <3>6. {w[k] : k \in 0 .. m - 1} = {c[j] : j \in 1 .. m}
      <4>1. \A k \in 0 .. m - 1 : w[k] \in {c[j] : j \in 1 .. m}
        BY <3>4, Zenon
      <4>2. \A j \in 1 .. m : c[j] \in {w[k] : k \in 0 .. m - 1}
        BY <3>5, Zenon
      <4> QED BY <4>1, <4>2, Zenon
    <3> QED BY <3>1, <3>2, <3>6, <2>3, Zenon
  <2>7. ASSUME NEW r \in IncidentRels(n)
        PROVE  Next_(n, r) \in IncidentRels(n) /\ Prev(n, Next_(n, r)) = r
    <3>1. \A s : s \in IncidentRels(n) <=> (s \in rels /\ EndOf(relationship, n, s))
      BY Zenon DEF IncidentRels, Incident, EndOf
    <3>2. /\ NextOf(relationship, n, r) \in rels /\ EndOf(relationship, n, NextOf(relationship, n, r))
          /\ PrevOf(relationship, n, NextOf(relationship, n, r)) = r
      BY <2>1, <3>1, RingLinks
    <3>3. Next_(n, r) = NextOf(relationship, n, r)
      BY Zenon DEF Next_, NextOf
    <3>4. Prev(n, Next_(n, r)) = PrevOf(relationship, n, Next_(n, r))
      BY Zenon DEF Prev, PrevOf
    <3> QED BY <3>1, <3>2, <3>3, <3>4, Zenon
  <2> QED BY <2>5, <2>6, <2>7, Zenon
<1> QED BY <1>1, <1>2, Zenon DEF ChainsIntact

LEMMA RingsExpand == GraphInv => ExpandComplete
<1> SUFFICES ASSUME GraphInv, NEW n \in nodes, NEW d \in Directions
             PROVE  LET e == Expand(n, d) IN
                    /\ {e[i] : i \in DOMAIN e} = {r \in rels : Matches(n, r, d)}
                    /\ Cardinality(DOMAIN e) = Cardinality({r \in rels : Matches(n, r, d)})
  BY Zenon DEF ExpandComplete
<1>1. PICK e, all : e = Expand(n, d) /\ all = Matching(n, d)
  BY Zenon
<1>2. /\ Cardinality(all) \in Nat /\ DOMAIN e = 0 .. Cardinality(all) - 1
      /\ {e[i] : i \in DOMAIN e} = all
  BY <1>1, ExpandExact, Zenon
<1>3. Cardinality(DOMAIN e) = Cardinality(all)
  <2>1. Cardinality(0 .. Cardinality(all) - 1) = Cardinality(all)
    BY <1>2, FS_Interval
  <2> QED BY <2>1, <1>2, Zenon
<1> QED BY <1>1, <1>2, <1>3, Zenon DEF Matching

\* create_node, create_relationship, delete_relationship and delete_node: in
\* files of any size, as long as every deletion repairs both chains, no operation
\* follows a chain to a record that is gone, every chain is one ring through the
\* relationships of its node, and expand returns each of them once.
THEOREM GraphStaysSound ==
    ASSUME Deletions # "any"
    PROVE  Spec => []GraphSound
<1>1. ChainInv /\ [Next]_vars => ChainInv'
  BY ChainInvStep, Zenon
<1>2. ChainInv => GraphSound
  BY RingsIntact, RingsExpand, Zenon DEF ChainInv, GraphSound
<1> QED BY <1>1, <1>2, ChainInvInitial, PTL DEF Spec

==============================================================================
