----------------------------- MODULE SwapProofs ------------------------------
(***************************************************************************)
(* The dictionaries of reorder_nodes and reorder_relationships, and the    *)
(* swaps: for files of any size and any order the caller asks for, the     *)
(* entries of the dictionaries are true, and swap_nodes and                *)
(* swap_relationships exchange two ids in every record and nothing else.   *)
(* sort_incidence_list leaves every chain a ring through the same          *)
(* relationships.                                                          *)
(***************************************************************************)
EXTENDS Reorder, HeapFileProofs

------------------------------------------------------------------------------
(* One turn of the loop, on the dictionaries alone *)

IsFunction(f) == f = [x \in DOMAIN f |-> f[x]]
Values(f)     == {f[x] : x \in DOMAIN f}

LEMMA InverseRight ==
    ASSUME NEW f, Injective(f)
    PROVE  /\ DOMAIN InverseOf(f) = Values(f)
           /\ IsFunction(InverseOf(f))
           /\ \A x \in DOMAIN f : InverseOf(f)[f[x]] = x
<1>1. ASSUME NEW x \in DOMAIN f
      PROVE  (CHOOSE z \in DOMAIN f : f[z] = f[x]) = x
  BY Zenon DEF Injective
<1> QED BY <1>1, Zenon DEF InverseOf, IsFunction, Values

\* What the entries say of the record that was at x when the call began.
EntryOf(ids, moved, want, x) ==
    IF moved[x] \in DOMAIN ids THEN ids[moved[x]] = want[x] ELSE moved[x] = want[x]

LEMMA NewIdsRight ==
    ASSUME NEW ids, Injective(ids), NEW old \in DOMAIN ids, NEW new,
           ids[old] = new, old = new \/ new \in DOMAIN ids
    PROVE  /\ Injective(NewIdsAfter(ids, old, new))
           /\ Values(NewIdsAfter(ids, old, new)) = Values(ids) \ {new}
<1> DEFINE after == NewIdsAfter(ids, old, new)
<1>1. DOMAIN after = DOMAIN ids \ {new}
  BY Zenon DEF NewIdsAfter
<1>2. \A x \in DOMAIN after : after[x] = IF x = old THEN ids[new] ELSE ids[x]
  BY Zenon DEF NewIdsAfter
<1> HIDE DEF after
<1>3. CASE old = new
  <2>1. \A x \in DOMAIN after : after[x] = ids[x] /\ ids[x] # new
    BY <1>1, <1>2, <1>3, Zenon DEF Injective
  <2>2. Injective(after)
    BY <1>1, <2>1, Zenon DEF Injective
  <2>3. Values(after) = Values(ids) \ {new}
    BY <1>1, <2>1, <1>3, Zenon DEF Values
  <2> QED BY <2>2, <2>3, Zenon DEF after
<1>4. CASE old # new /\ new \in DOMAIN ids
  <2>1. Injective(after)
    BY <1>1, <1>2, <1>4, Zenon DEF Injective
  <2>2. ASSUME NEW x \in DOMAIN after
        PROVE  after[x] \in {ids[z] : z \in DOMAIN ids} /\ after[x] # new
    BY <1>1, <1>2, <1>4, Zenon DEF Injective
  <2>3. ASSUME NEW z \in DOMAIN ids, ids[z] # new
        PROVE  \E x \in DOMAIN after : after[x] = ids[z]
    <3>1. CASE z = new
      BY <3>1, <1>1, <1>2, <1>4, Zenon
    <3>2. CASE z # new
      BY <3>2, <2>3, <1>1, <1>2, <1>4, Zenon
    <3> QED BY <3>1, <3>2, Zenon
  <2>4. Values(after) = Values(ids) \ {new}
    BY <2>2, <2>3 DEF Values
  <2> QED BY <2>1, <2>4, Zenon DEF after
<1> QED BY <1>3, <1>4, Zenon

\* The dictionary that is kept beside new_ids stays its inverse.
LEMMA InverseKept ==
    ASSUME NEW ids, Injective(ids), NEW old \in DOMAIN ids, NEW new,
           ids[old] = new, old = new \/ new \in DOMAIN ids
    PROVE  InverseAfter(InverseOf(ids), ids, old, new) = InverseOf(NewIdsAfter(ids, old, new))
<1> DEFINE after == NewIdsAfter(ids, old, new)
           inv   == InverseOf(ids)
           kept  == InverseAfter(inv, ids, old, new)
<1>1. Injective(after) /\ Values(after) = Values(ids) \ {new}
  BY NewIdsRight, Zenon
<1>2. /\ DOMAIN after = DOMAIN ids \ {new}
      /\ \A x \in DOMAIN after : after[x] = IF x = old THEN ids[new] ELSE ids[x]
  BY Zenon DEF NewIdsAfter
<1>3. /\ DOMAIN inv = Values(ids)
      /\ \A x \in DOMAIN ids : inv[ids[x]] = x
  BY InverseRight, Zenon
<1>4. /\ DOMAIN InverseOf(after) = Values(after)
      /\ IsFunction(InverseOf(after))
      /\ \A x \in DOMAIN after : InverseOf(after)[after[x]] = x
  BY <1>1, InverseRight, Zenon
<1>5. /\ DOMAIN kept = DOMAIN inv \ {new} /\ IsFunction(kept)
      /\ \A y \in DOMAIN kept : kept[y] = IF old # new /\ y = ids[new] THEN old ELSE inv[y]
  BY Zenon DEF InverseAfter, IsFunction
<1> HIDE DEF after, inv, kept
<1>6. DOMAIN kept = DOMAIN InverseOf(after)
  BY <1>1, <1>3, <1>4, <1>5, Zenon
<1>7. ASSUME NEW x \in DOMAIN after PROVE kept[after[x]] = x
  <2>1. after[x] \in DOMAIN kept
    BY <1>4, <1>6, Zenon DEF Values
  <2>2. CASE x = old
    <3>1. old # new /\ after[x] = ids[new]
      BY <2>2, <1>2, Zenon
    <3> QED BY <3>1, <2>1, <2>2, <1>5, Zenon
  <2>3. CASE x # old
    <3>1. x \in DOMAIN ids /\ x # new /\ after[x] = ids[x]
      BY <2>3, <1>2, Zenon
    <3>2. ~(old # new /\ after[x] = ids[new])
      BY <3>1, Zenon DEF Injective
    <3> QED BY <3>1, <3>2, <2>1, <1>3, <1>5, Zenon
  <2> QED BY <2>2, <2>3, Zenon
<1>8. \A y \in DOMAIN kept : kept[y] = InverseOf(after)[y]
  BY <1>4, <1>6, <1>7 DEF Values
<1>9. kept = InverseOf(after)
  BY <1>4, <1>5, <1>6, <1>8, Zenon DEF IsFunction
<1> QED BY <1>9, Zenon DEF kept, inv, after

\* The record that comes to its place loses its entry, the one that had to give
\* way keeps its own under its new place.
LEMMA EntryKept ==
    ASSUME NEW ids, Injective(ids), NEW old \in DOMAIN ids, NEW new,
           ids[old] = new, old = new \/ new \in DOMAIN ids,
           NEW moved, NEW want, NEW x \in DOMAIN moved, EntryOf(ids, moved, want, x)
    PROVE  EntryOf(NewIdsAfter(ids, old, new), [z \in DOMAIN moved |-> Exchange(moved[z], old, new)],
                   want, x)
<1> DEFINE after == NewIdsAfter(ids, old, new)
           there == [z \in DOMAIN moved |-> Exchange(moved[z], old, new)]
<1>1. DOMAIN after = DOMAIN ids \ {new}
  BY Zenon DEF NewIdsAfter
<1>2. \A z \in DOMAIN after : after[z] = IF z = old THEN ids[new] ELSE ids[z]
  BY Zenon DEF NewIdsAfter
<1>3. there[x] = Exchange(moved[x], old, new)
  BY Zenon
<1> HIDE DEF after, there
<1>4. EntryOf(after, there, want, x)
  <2>1. CASE moved[x] = old
    BY <2>1, <1>1, <1>3, Zenon DEF EntryOf, Exchange
  <2>2. CASE moved[x] = new /\ old # new
    BY <2>2, <1>1, <1>2, <1>3, Zenon DEF EntryOf, Exchange
  <2>3. CASE moved[x] \notin {old, new}
    BY <2>3, <1>1, <1>2, <1>3, Zenon DEF EntryOf, Exchange
  <2> QED BY <2>1, <2>2, <2>3, Zenon
<1> QED BY <1>4, Zenon DEF after, there

------------------------------------------------------------------------------
(* random_node_order, random_relationship_order *)

LEMMA NthExists ==
    ASSUME NEW ids \in SUBSET Nat, IsFiniteSet(ids), NEW k \in Nat, k < Cardinality(ids)
    PROVE  Nth(ids, k) \in ids
<1>1. \E x \in ids : Rank(ids, x) = k
  BY RankExists, Zenon
<1> QED BY <1>1, Zenon DEF Nth, Rank

LEMMA ExchangedRight ==
    ASSUME NEW ids, NEW f \in [ids -> ids], Injective(f), NEW x \in ids, NEW y \in ids
    PROVE  Exchanged(f, x, y) \in [ids -> ids] /\ Injective(Exchanged(f, x, y))
<1> DEFINE g == Exchanged(f, x, y)
<1>1. /\ g \in [ids -> ids]
      /\ \A z \in ids : g[z] = IF z = y THEN f[x] ELSE IF z = x THEN f[y] ELSE f[z]
  BY Zenon DEF Exchanged
<1> HIDE DEF g
<1>2. Injective(g)
  BY <1>1, Zenon DEF Injective
<1> QED BY <1>1, <1>2, Zenon DEF g

\* The orders after one more turn, the k-th, of the loop.
OneMore(orders, ids, k) == {Exchanged(f, Nth(ids, k - 1), y) : f \in orders, y \in ids}

AreOrders(g, ids, n) ==
    g = [k \in 0 .. n |-> IF k = 0 THEN {Identity(ids)} ELSE OneMore(g[k - 1], ids, k)]

LEMMA OrdersExist ==
    ASSUME NEW ids, NEW n \in Nat
    PROVE  \E g : AreOrders(g, ids, n)
<1> DEFINE Good(m) == \E g : AreOrders(g, ids, m)
           T == {m \in Nat : ~Good(m)}
<1>1. SUFFICES ASSUME T # {} PROVE FALSE
  BY Zenon
<1>2. PICK m \in T : \A y \in T : m <= y
  BY <1>1, LeastElement, Zenon
<1>3. Good(0)
  <2> DEFINE g == [k \in 0 .. 0 |-> {Identity(ids)}]
  <2>1. g = [k \in 0 .. 0 |-> IF k = 0 THEN {Identity(ids)} ELSE OneMore(g[k - 1], ids, k)]
    OBVIOUS
  <2> QED BY <2>1, Zenon DEF AreOrders
<1> HIDE DEF Good
<1>4. m \in Nat /\ m # 0 /\ ~Good(m)
  BY <1>2, <1>3, Zenon
<1>5. m - 1 \in Nat /\ Good(m - 1)
  <2>1. m - 1 \in Nat /\ ~(m <= m - 1)
    BY <1>4
  <2>2. m - 1 \notin T
    BY <1>2, <2>1, Zenon
  <2> QED BY <2>1, <2>2, Zenon
<1>6. PICK g : g = [k \in 0 .. m - 1 |-> IF k = 0 THEN {Identity(ids)} ELSE OneMore(g[k - 1], ids, k)]
  BY <1>5, Zenon DEF Good, AreOrders
<1> DEFINE h == [k \in 0 .. m |-> IF k = m THEN OneMore(g[m - 1], ids, m) ELSE g[k]]
<1>7. ASSUME NEW k \in 0 .. m
      PROVE  h[k] = IF k = 0 THEN {Identity(ids)} ELSE OneMore(h[k - 1], ids, k)
  <2>1. CASE k = m
    BY <2>1, <1>4, <1>5
  <2>2. CASE k # m
    <3>1. k \in 0 .. m - 1
      BY <2>2, <1>4
    <3>2. h[k] = g[k] /\ g[k] = IF k = 0 THEN {Identity(ids)} ELSE OneMore(g[k - 1], ids, k)
      BY <3>1, <2>2, <1>6, Zenon
    <3>3. k # 0 => h[k - 1] = g[k - 1]
      BY <3>1, <1>4
    <3> QED BY <3>2, <3>3, Zenon
  <2> QED BY <2>1, <2>2, Zenon
<1>8. h = [k \in 0 .. m |-> IF k = 0 THEN {Identity(ids)} ELSE OneMore(h[k - 1], ids, k)]
  BY <1>7, Zenon
<1> QED BY <1>4, <1>8, Zenon DEF Good, AreOrders

\* random_order.c: whatever rand() returns, the dictionary is a permutation of
\* the ids.
LEMMA RandomOrdersApart ==
    ASSUME NEW ids \in SUBSET Nat, IsFiniteSet(ids), NEW order \in RandomOrders(ids)
    PROVE  order \in [ids -> ids] /\ Injective(order)
<1> DEFINE n == Cardinality(ids)
           orders == CHOOSE g : AreOrders(g, ids, n)
<1>1. n \in Nat
  BY FS_CardinalityType, Zenon
<1>2. RandomOrders(ids) = orders[n]
  BY DEF RandomOrders, AreOrders, OneMore
<1>3. AreOrders(orders, ids, n)
  BY <1>1, OrdersExist, Zenon
<1> HIDE DEF orders
<1>4. \A k \in 0 .. n : orders[k] = IF k = 0 THEN {Identity(ids)} ELSE OneMore(orders[k - 1], ids, k)
  BY <1>3, Zenon DEF AreOrders
<1> DEFINE Good(k) == \A f \in orders[k] : f \in [ids -> ids] /\ Injective(f)
           T == {k \in 0 .. n : ~Good(k)}
<1>5. Good(0)
  <2>1. orders[0] = {Identity(ids)}
    BY <1>1, <1>4
  <2>2. Identity(ids) \in [ids -> ids] /\ Injective(Identity(ids))
    BY Zenon DEF Identity, Injective
  <2> QED BY <2>1, <2>2, Zenon
<1>6. ASSUME NEW k \in 1 .. n, Good(k - 1) PROVE Good(k)
  <2>1. orders[k] = OneMore(orders[k - 1], ids, k)
    BY <1>1, <1>4
  <2>2. Nth(ids, k - 1) \in ids
    <3>1. k - 1 \in Nat /\ k - 1 < n
      BY <1>1
    <3> QED BY <3>1, NthExists, Zenon
  <2>3. ASSUME NEW f \in OneMore(orders[k - 1], ids, k)
        PROVE  f \in [ids -> ids] /\ Injective(f)
    <3>1. PICK e \in orders[k - 1], y \in ids : f = Exchanged(e, Nth(ids, k - 1), y)
      BY DEF OneMore
    <3> QED BY <3>1, <2>2, <1>6, ExchangedRight, Zenon
  <2> QED BY <2>1, <2>3, Zenon
<1> HIDE DEF Good, n
<1>7. T = {}
  <2> SUFFICES ASSUME T # {} PROVE FALSE
    BY Zenon
  <2>1. T \in SUBSET Nat
    BY <1>1
  <2>2. PICK k \in T : \A j \in T : k <= j
    BY <2>1, LeastElement, Zenon
  <2>3. k # 0 /\ k \in 1 .. n /\ k - 1 \in 0 .. n /\ ~(k <= k - 1)
    BY <2>2, <1>1, <1>5
  <2>4. Good(k - 1)
    BY <2>2, <2>3, Zenon
  <2> QED BY <2>2, <2>3, <2>4, <1>6, Zenon
<1>8. Good(n)
  BY <1>1, <1>7
<1> QED BY <1>2, <1>8, Zenon DEF Good

------------------------------------------------------------------------------
(* The ids of the records *)

\* What the orders need of the files: there are finitely many records.
FileInv ==
    /\ nodes \in SUBSET Nat /\ IsFiniteSet(nodes)
    /\ rels \in SUBSET Nat /\ IsFiniteSet(rels)
    /\ n_nodes \in Int /\ n_rels \in Int

LEMMA ExchangeKeeps ==
    ASSUME NEW S \in SUBSET Nat, IsFiniteSet(S), NEW a \in Nat, NEW b \in Nat
    PROVE  /\ {Exchange(x, a, b) : x \in S} \in SUBSET Nat
           /\ IsFiniteSet({Exchange(x, a, b) : x \in S})
<1>1. IsFiniteSet((S \cup {a}) \cup {b})
  BY FS_AddElement, Zenon
<1>2. {Exchange(x, a, b) : x \in S} \subseteq (S \cup {a}) \cup {b}
  BY Zenon DEF Exchange
<1> QED BY <1>1, <1>2, FS_Subset, Zenon

LEMMA SwapKeeps ==
    ASSUME FileInv, NEW ft, NEW fst \in Nat, NEW snd \in Nat,
           Swap(ft, fst, snd), UNCHANGED fileVars
    PROVE  FileInv'
<1>1. n_nodes' = n_nodes /\ n_rels' = n_rels
  BY Zenon DEF fileVars
<1>2. /\ nodes' = nodes \/ nodes' = {Exchange(x, fst, snd) : x \in nodes}
      /\ rels' = rels \/ rels' = {Exchange(x, fst, snd) : x \in rels}
  BY Zenon DEF Swap, SwapNodes, SwapRelationships, graphVars
<1>3. nodes' \in SUBSET Nat /\ IsFiniteSet(nodes')
  BY <1>2, ExchangeKeeps, Zenon DEF FileInv
<1>4. rels' \in SUBSET Nat /\ IsFiniteSet(rels')
  BY <1>2, ExchangeKeeps, Zenon DEF FileInv
<1> QED BY <1>1, <1>3, <1>4, Zenon DEF FileInv

LEMMA DeleteKeepsFile ==
    ASSUME FileInv, NEW r, Delete(r)
    PROVE  FileInv'
<1>1. rels' = rels \ {r} /\ n_rels' = n_rels - 1 /\ nodes' = nodes /\ n_nodes' = n_nodes
  BY Zenon DEF Delete, nodeVars
<1>2. IsFiniteSet(rels \ {r})
  BY FS_RemoveElement, Zenon DEF FileInv
<1>3. IsFiniteSet(rels')
  BY <1>1, <1>2, Zenon
<1>4. rels' \subseteq rels
  BY <1>1, Zenon
<1>5. n_rels \in Int /\ n_rels' = n_rels - 1
  BY <1>1, Zenon DEF FileInv
<1>6. n_rels' \in Int
  BY <1>5
<1> QED BY <1>1, <1>3, <1>4, <1>6, Zenon DEF FileInv

LEMMA CreateKeepsFile ==
    ASSUME FileInv, CreateNode \/ \E from, to \in NodeIds : CreateRelationship(from, to)
    PROVE  FileInv'
<1>1. NodeIds \in SUBSET Nat /\ RelIds \in SUBSET Nat
  BY SlotAssumption DEF NodeIds, RelIds
<1>2. CASE CreateNode
  <2>1. FreeNode \in Nat /\ nodes' = nodes \cup {FreeNode} /\ n_nodes' = n_nodes + 1
    BY <1>1, <1>2, Zenon DEF CreateNode
  <2>2. rels' = rels /\ n_rels' = n_rels
    BY <1>2, Zenon DEF CreateNode, relVars
  <2> QED BY <2>1, <2>2, FS_AddElement DEF FileInv
<1>3. ASSUME NEW from, NEW to, CreateRelationship(from, to) PROVE FileInv'
  <2>1. FreeRel \in Nat /\ rels' = rels \cup {FreeRel} /\ n_rels' = n_rels + 1
    BY <1>1, <1>3, Zenon DEF CreateRelationship
  <2>2. nodes' = nodes /\ n_nodes' = n_nodes
    BY <1>3, Zenon DEF CreateRelationship, nodeVars
  <2> QED BY <2>1, <2>2, FS_AddElement DEF FileInv
<1> QED BY <1>2, <1>3, Zenon

LEMMA RemovalKeepsFile ==
    ASSUME FileInv, \/ DeleteNext \/ DeleteLast
                    \/ \E r \in RelIds : DeleteRelationship(r)
                    \/ \E n \in NodeIds : DeleteNode(n)
    PROVE  FileInv'
<1>1. CASE DeleteNext
  BY <1>1, DeleteKeepsFile, Zenon DEF DeleteNext
<1>2. CASE DeleteLast
  <2>1. /\ nodes' = nodes \ {deleting.node} /\ n_nodes' = n_nodes - 1
        /\ rels' = rels /\ n_rels' = n_rels
    BY <1>2, Zenon DEF DeleteLast, relVars
  <2>2. IsFiniteSet(nodes \ {deleting.node})
    BY FS_RemoveElement, Zenon DEF FileInv
  <2>3. IsFiniteSet(nodes')
    BY <2>1, <2>2, Zenon
  <2>4. nodes' \subseteq nodes
    BY <2>1, Zenon
  <2>5. n_nodes \in Int /\ n_nodes' = n_nodes - 1
    BY <2>1, Zenon DEF FileInv
  <2>6. n_nodes' \in Int
    BY <2>5
  <2> QED BY <2>1, <2>3, <2>4, <2>6, Zenon DEF FileInv
<1>3. ASSUME NEW r, DeleteRelationship(r) PROVE FileInv'
  BY <1>3, DeleteKeepsFile, Zenon DEF DeleteRelationship
<1>4. ASSUME NEW n, DeleteNode(n) PROVE FileInv'
  BY <1>4, Zenon DEF DeleteNode, FileInv, nodeVars, relVars
<1> QED BY <1>1, <1>2, <1>3, <1>4, Zenon

LEMMA SlotsType == \A ft : Slots(ft) \in Nat \ {0}
BY SlotAssumption DEF Slots

LEMMA NextPositionType ==
    ASSUME NEW at \in Nat, NEW slots \in Nat
    PROVE  NextPosition(at, slots) \in Nat
<1>1. at \div SlotsPerPage \in Nat /\ SlotsPerPage \in Nat
  BY SlotAssumption
<1>2. (at \div SlotsPerPage + 1) * SlotsPerPage \in Nat
  BY <1>1
<1> QED BY <1>2 DEF NextPosition

\* An order by a sequence: the places of two records are as different as their
\* ranks are.
LEMMA RanksApart ==
    ASSUME FileInv, NEW ft, NEW rank \in Ranks(ft)
    PROVE  Injective([x \in Ids(ft) |-> rank[x] * Slots(ft)])
<1>1. \A x \in Ids(ft) : rank[x] \in Int
  BY DEF Ranks, FileInv, Count
<1>2. \A x, y \in Ids(ft) : rank[x] = rank[y] => x = y
  BY Zenon DEF Ranks
<1>3. ASSUME NEW a \in Int, NEW b \in Int, NEW c \in Nat \ {0}, a * c = b * c PROVE a = b
  <2>1. (a - b) * c = 0
    BY <1>3
  <2> QED BY <2>1
<1>4. \A x, y \in Ids(ft) : rank[x] * Slots(ft) = rank[y] * Slots(ft) => x = y
  BY <1>1, <1>2, <1>3, SlotsType, Zenon
<1> QED BY <1>4, Zenon DEF Injective

------------------------------------------------------------------------------
(* The invariant *)

\* The loop is in progress, or over and not yet left.
Running == call.op \in {"reorder", "done"}

\* reorder_relationships_by_nodes asks no two relationships to go to the same
\* slot: every relationship is in the chain of its source, and once.
NodesOrderApart == Running /\ call.grouped => Injective(call.want)

CallShape(c) ==
    c = [op |-> c.op, ft |-> c.ft, grouped |-> c.grouped, ids |-> c.ids, inverse |-> c.inverse,
         i |-> c.i, at |-> c.at, want |-> c.want, moved |-> c.moved, before |-> c.before]

Entries(c) ==
    /\ Injective(c.ids) /\ DOMAIN c.ids \subseteq Nat /\ c.at \in Nat
    /\ c.inverse = InverseOf(c.ids)
    /\ DOMAIN c.moved = DOMAIN c.want
    /\ \A x \in DOMAIN c.want : EntryOf(c.ids, c.moved, c.want, x)

\* What EntriesTrue needs: no two entries of new_ids have the same value, so that
\* its inverse is one.
LoopInv == Running => CallShape(call) /\ Entries(call)

PagesInv ==
    call.op = "pages" =>
        /\ call = [op |-> "pages", ft |-> call.ft, fst |-> call.fst, snd |-> call.snd, i |-> call.i]
        /\ call.fst \in Nat /\ call.snd \in Nat /\ call.i \in Nat

\* What the end of a turn makes of the call c.
AdvancedTo(c, d) ==
    /\ CallShape(d)
    /\ d.ft = c.ft /\ d.grouped = c.grouped /\ d.ids = c.ids /\ d.inverse = c.inverse
    /\ d.want = c.want /\ d.moved = c.moved /\ d.before = c.before
    /\ \/ d.op = "done" /\ d.i = c.i /\ d.at = c.at /\ (DOMAIN c.ids = {} \/ c.i + 1 = Count(c.ft))
       \/ d.op = c.op /\ d.i = c.i + 1 /\ d.at = NextPosition(c.at, Slots(c.ft)) /\ c.i + 1 # Count(c.ft)

LEMMA AdvancedRight ==
    ASSUME NEW c, CallShape(c)
    PROVE  AdvancedTo(c, Advanced(c))
<1>1. CASE DOMAIN c.ids = {} \/ c.i + 1 = Count(c.ft)
  <2>1. Advanced(c) = [op |-> "done", ft |-> c.ft, grouped |-> c.grouped, ids |-> c.ids,
                       inverse |-> c.inverse, i |-> c.i, at |-> c.at, want |-> c.want,
                       moved |-> c.moved, before |-> c.before]
    BY <1>1, Zenon DEF Advanced, CallShape
  <2> QED BY <1>1, <2>1 DEF AdvancedTo, CallShape
<1>2. CASE ~(DOMAIN c.ids = {} \/ c.i + 1 = Count(c.ft))
  <2>1. Advanced(c) = [op |-> c.op, ft |-> c.ft, grouped |-> c.grouped, ids |-> c.ids,
                       inverse |-> c.inverse, i |-> c.i + 1, at |-> NextPosition(c.at, Slots(c.ft)),
                       want |-> c.want, moved |-> c.moved, before |-> c.before]
    BY <1>2, Zenon DEF Advanced, CallShape
  <2> QED BY <1>2, <2>1 DEF AdvancedTo, CallShape
<1> QED BY <1>1, <1>2, Zenon

LEMMA AdvancedKeeps ==
    ASSUME NEW c, NEW d, Entries(c), AdvancedTo(c, d)
    PROVE  CallShape(d) /\ Entries(d)
<1>1. d.at = c.at \/ d.at = NextPosition(c.at, Slots(c.ft))
  BY Zenon DEF AdvancedTo
<1>2. d.at \in Nat
  BY <1>1, NextPositionType, SlotsType, Zenon DEF Entries
<1> QED BY <1>2, Zenon DEF Entries, AdvancedTo

\* The call after the record at old has come to new, its place, and before the
\* turn ends.
Turned(c, old, new) ==
    [op |-> c.op, ft |-> c.ft, grouped |-> c.grouped, ids |-> NewIdsAfter(c.ids, old, new),
     inverse |-> InverseAfter(c.inverse, c.ids, old, new), i |-> c.i, at |-> c.at, want |-> c.want,
     moved |-> [x \in DOMAIN c.moved |-> Exchange(c.moved[x], old, new)], before |-> c.before]

\* A record that is in the dictionaries changes places with what is at its new
\* place.
LEMMA TurnEntry ==
    ASSUME LoopInv, call.op = "reorder", call.at \in DOMAIN call.inverse
    PROVE  LET old == call.inverse[call.at] IN old \in DOMAIN call.ids /\ call.ids[old] = call.at
<1>1. Injective(call.ids) /\ call.inverse = InverseOf(call.ids)
  BY Zenon DEF LoopInv, Running, Entries
<1>2. call.at \in Values(call.ids)
  BY <1>1, InverseRight, Zenon
<1>3. PICK x \in DOMAIN call.ids : call.at = call.ids[x]
  BY <1>2, Zenon DEF Values
<1> QED BY <1>1, <1>3, InverseRight, Zenon

LEMMA TurnSwapRight ==
    ASSUME LoopInv, TurnSwap
    PROVE  LET new == call.at
               old == call.inverse[new]
               c   == Turned(call, old, new)
           IN  /\ CallShape(c) /\ Entries(c) /\ AdvancedTo(c, call')
               /\ old \in DOMAIN call.ids /\ call.ids[old] = new /\ (old = new \/ new \in DOMAIN call.ids)
<1> DEFINE new == call.at
           old == call.inverse[new]
           e == [call EXCEPT !.ids = NewIdsAfter(@, old, new),
                             !.inverse = InverseAfter(@, call.ids, old, new),
                             !.moved = [x \in DOMAIN @ |-> Exchange(@[x], old, new)]]
           c == Turned(call, old, new)
<1>1. CallShape(call) /\ Entries(call) /\ call.op = "reorder"
  BY Zenon DEF LoopInv, Running, TurnSwap
<1>2. new \in DOMAIN call.inverse /\ (old = new \/ new \in DOMAIN call.ids) /\ call' = Advanced(e)
  BY Zenon DEF TurnSwap
<1>3. old \in DOMAIN call.ids /\ call.ids[old] = new
  BY <1>1, <1>2, TurnEntry, Zenon
<1> HIDE DEF new, old
<1>4. e = c
  <2> DEFINE v1 == NewIdsAfter(call.ids, old, new)
             v2 == InverseAfter(call.inverse, call.ids, old, new)
             v3 == [x \in DOMAIN call.moved |-> Exchange(call.moved[x], old, new)]
             c1 == [call EXCEPT !.ids = v1]
             c2 == [c1 EXCEPT !.inverse = v2]
             c3 == [c2 EXCEPT !.moved = v3]
  <2>1. e = c3
    BY Zenon
  <2> HIDE DEF v1, v2, v3, e
  <2>2. c1 = [op |-> call.op, ft |-> call.ft, grouped |-> call.grouped, ids |-> v1,
              inverse |-> call.inverse, i |-> call.i, at |-> call.at, want |-> call.want,
              moved |-> call.moved, before |-> call.before]
    BY <1>1 DEF CallShape
  <2> HIDE DEF c1
  <2>3. c2 = [op |-> call.op, ft |-> call.ft, grouped |-> call.grouped, ids |-> v1,
              inverse |-> v2, i |-> call.i, at |-> call.at, want |-> call.want,
              moved |-> call.moved, before |-> call.before]
    BY <2>2
  <2> HIDE DEF c2
  <2>4. c3 = [op |-> call.op, ft |-> call.ft, grouped |-> call.grouped, ids |-> v1,
              inverse |-> v2, i |-> call.i, at |-> call.at, want |-> call.want,
              moved |-> v3, before |-> call.before]
    BY <2>3
  <2> HIDE DEF c3
  <2> QED BY <2>1, <2>4, Zenon DEF Turned, v1, v2, v3
<1> HIDE DEF e, c
<1>5. /\ CallShape(c) /\ c.ids = NewIdsAfter(call.ids, old, new)
      /\ c.inverse = InverseAfter(call.inverse, call.ids, old, new)
      /\ c.want = call.want /\ c.at = call.at
      /\ c.moved = [x \in DOMAIN call.moved |-> Exchange(call.moved[x], old, new)]
  BY Zenon DEF c, Turned, CallShape
<1>6. Injective(c.ids) /\ DOMAIN c.ids \subseteq Nat /\ c.at \in Nat
  <2>1. Injective(c.ids)
    BY <1>1, <1>2, <1>3, <1>5, NewIdsRight DEF Entries
  <2>2. DOMAIN c.ids \subseteq DOMAIN call.ids
    BY <1>5, Zenon DEF NewIdsAfter
  <2> QED BY <2>1, <2>2, <1>1, <1>5, Zenon DEF Entries
<1>7. c.inverse = InverseOf(c.ids)
  BY <1>1, <1>2, <1>3, <1>5, InverseKept DEF Entries
<1>8. DOMAIN c.moved = DOMAIN c.want
  BY <1>1, <1>5, Zenon DEF Entries
<1>9. ASSUME NEW x \in DOMAIN c.want PROVE EntryOf(c.ids, c.moved, c.want, x)
  <2>1. x \in DOMAIN call.moved /\ EntryOf(call.ids, call.moved, call.want, x) /\ Injective(call.ids)
    BY <1>1, <1>5, Zenon DEF Entries
  <2> QED BY <2>1, <1>2, <1>3, <1>5, EntryKept
<1>10. Entries(c)
  BY <1>6, <1>7, <1>8, <1>9, Zenon DEF Entries
<1>11. AdvancedTo(c, call')
  BY <1>2, <1>4, <1>5, AdvancedRight, Zenon
<1> QED BY <1>2, <1>3, <1>5, <1>10, <1>11, Zenon DEF c, old, new

LEMMA TurnSwapKeeps ==
    ASSUME LoopInv, TurnSwap
    PROVE  LoopInv' /\ PagesInv'
<1>1. PICK c : Entries(c) /\ AdvancedTo(c, call') /\ c.op = call.op
  BY TurnSwapRight DEF Turned
<1>2. call.op = "reorder"
  BY Zenon DEF TurnSwap
<1>3. CallShape(call') /\ Entries(call')
  BY <1>1, AdvancedKeeps, Zenon
<1>4. call'.op \in {"reorder", "done"}
  BY <1>1, <1>2, Zenon DEF AdvancedTo
<1> QED BY <1>3, <1>4, Zenon DEF LoopInv, PagesInv, Running

LEMMA TurnPastRight ==
    ASSUME LoopInv, TurnPast
    PROVE  AdvancedTo(call, call')
BY AdvancedRight, Zenon DEF LoopInv, Running, TurnPast

\* The places of a turn are those of records.
LEMMA TurnPlaces ==
    ASSUME LoopInv, call.op = "reorder", call.at \in DOMAIN call.inverse
    PROVE  call.at \in Nat /\ call.inverse[call.at] \in Nat
<1>1. DOMAIN call.ids \subseteq Nat /\ call.at \in Nat
  BY Zenon DEF LoopInv, Running, Entries
<1> QED BY <1>1, TurnEntry, Zenon

\* A call begins with what was asked, and nothing moved.
LEMMA BeginKeeps ==
    ASSUME NEW ft, NEW new_ids, NEW grouped, BeginReorder(ft, new_ids, grouped),
           Injective(new_ids), DOMAIN new_ids \subseteq Nat
    PROVE  LoopInv' /\ PagesInv'
<1>1. call' = Reorder(ft, new_ids, grouped)
  BY Zenon DEF BeginReorder
<1>2. /\ CallShape(call') /\ call'.ids = new_ids /\ call'.inverse = InverseOf(new_ids)
      /\ call'.want = new_ids /\ call'.moved = Identity(DOMAIN new_ids) /\ call'.at = 0
      /\ call'.op # "pages"
  BY <1>1, Zenon DEF Reorder, CallShape
<1>3. \A x \in DOMAIN new_ids : EntryOf(new_ids, Identity(DOMAIN new_ids), new_ids, x)
  BY Zenon DEF EntryOf, Identity
<1>4. DOMAIN Identity(DOMAIN new_ids) = DOMAIN new_ids
  BY Zenon DEF Identity
<1>5. Entries(call')
  BY <1>2, <1>3, <1>4 DEF Entries
<1> QED BY <1>2, <1>5, Zenon DEF LoopInv, PagesInv

LEMMA CallInvStep ==
    ASSUME FileInv, LoopInv, PagesInv, NodesOrderApart', [ReorderNext]_reorderVars
    PROVE  LoopInv' /\ PagesInv'
<1>1. CASE UNCHANGED call
  BY <1>1, Zenon DEF LoopInv, PagesInv, Running
<1>2. CASE call'.op \notin {"reorder", "done", "pages"}
  BY <1>2, Zenon DEF LoopInv, PagesInv, Running
<1>3. ASSUME NEW ft, ReorderRandomly(ft) PROVE LoopInv' /\ PagesInv'
  <2>1. PICK new_ids \in RandomOrders(Ids(ft)) : BeginReorder(ft, new_ids, FALSE)
    BY <1>3, Zenon DEF ReorderRandomly
  <2>2. Ids(ft) \in SUBSET Nat /\ IsFiniteSet(Ids(ft))
    BY Zenon DEF FileInv, Ids
  <2>3. new_ids \in [Ids(ft) -> Ids(ft)] /\ Injective(new_ids)
    BY <2>2, RandomOrdersApart, Zenon
  <2> QED BY <2>1, <2>2, <2>3, BeginKeeps, Zenon
<1>4. ASSUME NEW ft, NEW rank \in Ranks(ft), BySequence(ft, rank, FALSE) PROVE LoopInv' /\ PagesInv'
  <2> DEFINE new_ids == [x \in Ids(ft) |-> rank[x] * Slots(ft)]
  <2>1. BeginReorder(ft, new_ids, FALSE)
    BY <1>4, Zenon DEF BySequence
  <2>2. DOMAIN new_ids \subseteq Nat
    BY Zenon DEF FileInv, Ids
  <2>3. Injective(new_ids)
    BY RanksApart, Zenon
  <2> QED BY <2>1, <2>2, <2>3, BeginKeeps, Zenon
<1>5. CASE ByNodes
  <2> DEFINE rank    == [r \in rels |-> RankByNodes(r)]
             new_ids == [x \in Ids("rel") |-> rank[x] * Slots("rel")]
  <2>1. BeginReorder("rel", new_ids, TRUE) /\ DOMAIN new_ids = rels
    <3>1. BySequence("rel", rank, TRUE)
      BY <1>5, Zenon DEF ByNodes
    <3> HIDE DEF rank
    <3> QED BY <3>1, Zenon DEF BySequence, Ids
  <2> HIDE DEF rank, new_ids
  <2>2. call'.grouped = TRUE /\ call'.want = new_ids /\ call'.op \in {"reorder", "done"}
    BY <2>1, Zenon DEF BeginReorder, Reorder
  <2>3. Injective(new_ids)
    BY <2>2, Zenon DEF NodesOrderApart, Running
  <2> QED BY <2>1, <2>3, BeginKeeps, Zenon DEF FileInv
<1>6. CASE TurnPast
  <2>1. Entries(call) /\ AdvancedTo(call, call') /\ call.op = "reorder"
    BY <1>6, TurnPastRight, Zenon DEF LoopInv, Running, TurnPast
  <2>2. call'.op \in {"reorder", "done"}
    BY <2>1, Zenon DEF AdvancedTo
  <2> QED BY <2>1, <2>2, AdvancedKeeps, Zenon DEF LoopInv, PagesInv, Running
<1>7. CASE TurnSwap
  BY <1>7, TurnSwapKeeps, Zenon
<1>8. CASE SwapSlot
  <2>1. call.op = "pages" /\ (call' = NoCall \/ call' = [call EXCEPT !.i = @ + Slots(call.ft)])
    BY <1>8, Zenon DEF SwapSlot
  <2>2. CASE call' = NoCall
    BY <1>2, <2>2, Zenon DEF NoCall
  <2>3. CASE call' = [call EXCEPT !.i = @ + Slots(call.ft)]
    <3>1. call' = [op |-> "pages", ft |-> call.ft, fst |-> call.fst, snd |-> call.snd,
                   i |-> call.i + Slots(call.ft)]
      BY <2>1, <2>3, Zenon DEF PagesInv
    <3>2. call.i + Slots(call.ft) \in Nat
      BY <2>1, SlotsType DEF PagesInv
    <3> QED BY <2>1, <3>1, <3>2, Zenon DEF LoopInv, PagesInv, Running
  <2> QED BY <2>1, <2>2, <2>3, Zenon
<1>9. CASE SortChain
  BY <1>2, <1>9 DEF SortChain
<1>10. CASE TurnFails \/ Return \/ SortReturns \/ SortIncidenceList
  <2>1. call' = NoCall \/ call' = [op |-> "sort", todo |-> nodes]
    BY <1>10, Zenon DEF TurnFails, Return, SortReturns, SortIncidenceList
  <2> QED BY <1>2, <2>1 DEF NoCall
<1>11. ASSUME NEW ft, NEW fst, NEW snd, SwapRecordPages(ft, fst, snd) PROVE LoopInv' /\ PagesInv'
  <2>1. /\ call' = [op |-> "pages", ft |-> ft, fst |-> fst, snd |-> snd, i |-> 0]
        /\ fst \in 0 .. Pages(ft) - 1 /\ snd \in 0 .. Pages(ft) - 1
    BY <1>11, Zenon DEF SwapRecordPages
  <2> QED BY <2>1 DEF LoopInv, PagesInv, Running
<1>12. CASE Build \/ Remove \/ BySequenceFails
  BY <1>1, <1>12, Zenon DEF Build, Remove, BySequenceFails
<1>13. ASSUME NEW ft, NEW fst, NEW snd, SwapRecords(ft, fst, snd) PROVE LoopInv' /\ PagesInv'
  BY <1>1, <1>13, Zenon DEF SwapRecords
<1>14. CASE UNCHANGED reorderVars
  BY <1>1, <1>14, Zenon DEF reorderVars
<1> QED
  BY <1>3, <1>4, <1>5, <1>6, <1>7, <1>8, <1>9, <1>10, <1>11, <1>12, <1>13, <1>14, Zenon
  DEF ReorderNext

LEMMA FileInvStep ==
    ASSUME FileInv, LoopInv, PagesInv, [ReorderNext]_reorderVars
    PROVE  FileInv'
<1>1. CASE UNCHANGED <<nodes, rels, n_nodes, n_rels>>
  BY <1>1, Zenon DEF FileInv
<1>2. CASE Build
  BY <1>2, CreateKeepsFile, RemovalKeepsFile, Zenon DEF Build
<1>3. CASE Remove
  BY <1>3, RemovalKeepsFile, Zenon DEF Remove
<1>4. ASSUME NEW ft, NEW fst, NEW snd, SwapRecords(ft, fst, snd) PROVE FileInv'
  <2>1. fst \in Nat /\ snd \in Nat /\ Swap(ft, fst, snd) /\ UNCHANGED fileVars
    BY <1>4 DEF SwapRecords
  <2> QED BY <2>1, SwapKeeps, Zenon
<1>5. CASE SwapSlot
  <2>1. /\ call.op = "pages" /\ UNCHANGED fileVars
        /\ Swap(call.ft, call.fst * SlotsPerPage + call.i, call.snd * SlotsPerPage + call.i)
    BY <1>5, Zenon DEF SwapSlot
  <2>2. call.fst * SlotsPerPage + call.i \in Nat /\ call.snd * SlotsPerPage + call.i \in Nat
    BY <2>1, SlotAssumption DEF PagesInv
  <2> QED BY <2>1, <2>2, SwapKeeps, Zenon
<1>6. CASE TurnSwap \/ TurnFails
  <2>1. /\ call.op = "reorder" /\ call.at \in DOMAIN call.inverse /\ UNCHANGED fileVars
        /\ Swap(call.ft, call.inverse[call.at], call.at)
    BY <1>6, Zenon DEF TurnSwap, TurnFails
  <2> QED BY <2>1, TurnPlaces, SwapKeeps, Zenon
<1>7. CASE SortChain
  BY <1>1, <1>7, Zenon DEF SortChain, fileVars
<1>8. CASE BySequenceFails
  BY <1>1, <1>8, Zenon DEF BySequenceFails, Exit, nodeVars, relVars
<1>9. CASE UNCHANGED vars
  BY <1>1, <1>9, Zenon DEF vars, nodeVars, relVars
<1>10. ASSUME NEW ft, \/ \E fst, snd \in 0 .. NodePages + RelPages : SwapRecordPages(ft, fst, snd)
                      \/ ReorderRandomly(ft)
                      \/ \E rank \in Ranks(ft) : BySequence(ft, rank, FALSE)
       PROVE  FileInv'
  BY <1>9, <1>10, Zenon DEF SwapRecordPages, ReorderRandomly, BySequence, BeginReorder
<1>11. CASE ByNodes \/ TurnPast \/ Return \/ SortIncidenceList \/ SortReturns
  BY <1>9, <1>11, Zenon DEF ByNodes, BySequence, BeginReorder, TurnPast, Return, SortIncidenceList, SortReturns
<1>12. CASE UNCHANGED reorderVars
  BY <1>9, <1>12, Zenon DEF reorderVars
<1> QED
  BY <1>2, <1>3, <1>4, <1>5, <1>6, <1>7, <1>8, <1>10, <1>11, <1>12, Zenon DEF ReorderNext

\* reorder_nodes and reorder_relationships with a random order, with that of a
\* sequence or with that of the nodes: at every turn of the loop no two records are
\* to go to the same slot, the two dictionaries are inverse to each other, as the
\* assertion on their sizes has it, and the entries say where each record is still
\* to go, for files of any size and whatever was swapped before.  That the order of
\* the nodes has no slot twice is assumed: it is a fact about the chains.
THEOREM DictionariesRight == ReorderSpec /\ []NodesOrderApart => []EntriesTrue
<1> DEFINE Inv == FileInv /\ LoopInv /\ PagesInv
<1>1. ReorderInit => Inv
  BY FS_EmptySet DEF ReorderInit, Init, FileInv, LoopInv, PagesInv, Running, NoCall
<1>2. Inv => EntriesTrue
  BY Zenon DEF LoopInv, Running, Entries, EntriesTrue, EntryOf
<1>3. Inv /\ NodesOrderApart' /\ [ReorderNext]_reorderVars => Inv'
  BY CallInvStep, FileInvStep, Zenon
<1> HIDE DEF Inv
<1> QED BY <1>1, <1>2, <1>3, PTL DEF ReorderSpec

------------------------------------------------------------------------------
(* A graph with other ids *)

\* The record rel where N names the nodes and R the relationships.
RecordWith(rel, N, R) ==
    [source |-> N[rel.source], target |-> N[rel.target],
     prev_source |-> R[rel.prev_source], next_source |-> R[rel.next_source],
     prev_target |-> R[rel.prev_target], next_target |-> R[rel.next_target]]

\* The next graph is this one, where N names the nodes and R the relationships.
Renamed(N, R) ==
    /\ nodes' = {N[n] : n \in nodes}
    /\ rels' = {R[r] : r \in rels}
    /\ \A n \in nodes : first_relationship'[N[n]] = Applied(R, first_relationship[n])
    /\ \A r \in rels : relationship'[R[r]] = RecordWith(relationship[r], N, R)

\* A chain is a ring whatever the names are.
LEMMA RenamedRing ==
    ASSUME GraphInv, NEW N \in [nodes -> NodeIds], Injective(N),
           NEW R \in [rels -> RelIds], Injective(R), Renamed(N, R), NEW n \in nodes
    PROVE  HasRing(relationship', rels', first_relationship'[N[n]], N[n])
<1>1. \A s \in rels : relationship[s].source \in nodes /\ relationship[s].target \in nodes
  BY Zenon DEF GraphInv
<1>2. ASSUME NEW s \in rels
      PROVE  /\ EndOf(relationship', N[n], R[s]) <=> EndOf(relationship, n, s)
             /\ NextOf(relationship', N[n], R[s]) = R[NextOf(relationship, n, s)]
             /\ PrevOf(relationship', N[n], R[s]) = R[PrevOf(relationship, n, s)]
  <2>1. relationship'[R[s]] = RecordWith(relationship[s], N, R)
    BY Zenon DEF Renamed
  <2>2. /\ relationship'[R[s]].source = N[relationship[s].source]
        /\ relationship'[R[s]].target = N[relationship[s].target]
        /\ relationship'[R[s]].next_source = R[relationship[s].next_source]
        /\ relationship'[R[s]].next_target = R[relationship[s].next_target]
        /\ relationship'[R[s]].prev_source = R[relationship[s].prev_source]
        /\ relationship'[R[s]].prev_target = R[relationship[s].prev_target]
    BY <2>1 DEF RecordWith
  <2>3. /\ N[relationship[s].source] = N[n] <=> relationship[s].source = n
        /\ N[relationship[s].target] = N[n] <=> relationship[s].target = n
    BY <1>1, Zenon DEF Injective
  <2> QED BY <2>2, <2>3, Zenon DEF EndOf, NextOf, PrevOf
<1>3. PICK m \in Nat : \E c : IsRing(relationship, rels, first_relationship[n], n, m, c)
  BY Zenon DEF GraphInv, HasRing
<1>4. PICK c : IsRing(relationship, rels, first_relationship[n], n, m, c)
  BY <1>3, Zenon
<1>5. /\ c \in [1 .. m -> rels]
      /\ \A i, j \in 1 .. m : c[i] = c[j] => i = j
      /\ \A s \in rels : EndOf(relationship, n, s) <=> \E i \in 1 .. m : c[i] = s
      /\ first_relationship[n] = IF m = 0 THEN NoId ELSE c[1]
      /\ \A i \in 1 .. m : NextOf(relationship, n, c[i]) = IF i = m THEN c[1] ELSE c[i + 1]
      /\ \A i \in 1 .. m : PrevOf(relationship, n, c[i]) = IF i = 1 THEN c[m] ELSE c[i - 1]
  BY <1>4, Zenon DEF IsRing
<1> DEFINE d == [i \in 1 .. m |-> R[c[i]]]
<1>6. rels' = {R[r] : r \in rels}
  BY Zenon DEF Renamed
<1>7. d \in [1 .. m -> rels']
  BY <1>5, <1>6, Zenon
<1>8. \A i, j \in 1 .. m : d[i] = d[j] => i = j
  BY <1>5 DEF Injective
<1>9. ASSUME NEW t \in rels' PROVE EndOf(relationship', N[n], t) <=> \E i \in 1 .. m : d[i] = t
  <2>1. PICK s \in rels : t = R[s]
    BY <1>6, Zenon
  <2>2. ASSUME NEW i \in 1 .. m PROVE d[i] = t <=> c[i] = s
    BY <2>1, <1>5, Zenon DEF Injective
  <2> QED BY <2>1, <2>2, <1>2, <1>5, Zenon
<1>10. first_relationship'[N[n]] = IF m = 0 THEN NoId ELSE d[1]
  <2>1. first_relationship'[N[n]] = Applied(R, first_relationship[n])
    BY Zenon DEF Renamed
  <2>2. CASE m = 0
    <3>1. first_relationship[n] = NoId /\ NoId \notin rels
      BY <2>2, <1>5, NoIdApart, Zenon DEF GraphInv
    <3> QED BY <3>1, <2>1, <2>2, Zenon DEF Applied
  <2>3. CASE m # 0
    <3>1. 1 \in 1 .. m /\ first_relationship[n] = c[1] /\ c[1] \in rels
      BY <2>3, <1>5
    <3> QED BY <3>1, <2>1, <2>3, Zenon DEF Applied
  <2> QED BY <2>2, <2>3, Zenon
<1>11. ASSUME NEW i \in 1 .. m
       PROVE  /\ NextOf(relationship', N[n], d[i]) = IF i = m THEN d[1] ELSE d[i + 1]
              /\ PrevOf(relationship', N[n], d[i]) = IF i = 1 THEN d[m] ELSE d[i - 1]
  <2>1. c[i] \in rels /\ d[i] = R[c[i]]
    BY <1>5, Zenon
  <2>2. /\ NextOf(relationship', N[n], d[i]) = R[NextOf(relationship, n, c[i])]
        /\ PrevOf(relationship', N[n], d[i]) = R[PrevOf(relationship, n, c[i])]
    BY <2>1, <1>2, Zenon
  <2>3. 1 \in 1 .. m /\ m \in 1 .. m /\ (i # m => i + 1 \in 1 .. m) /\ (i # 1 => i - 1 \in 1 .. m)
    OBVIOUS
  <2>4. \A j \in 1 .. m : d[j] = R[c[j]]
    BY Zenon
  <2> HIDE DEF d
  <2> QED BY <2>2, <2>3, <2>4, <1>5
<1> HIDE DEF d
<1>12. IsRing(relationship', rels', first_relationship'[N[n]], N[n], m, d)
  BY <1>7, <1>8, <1>9, <1>10, <1>11, Zenon DEF IsRing
<1> QED BY <1>12, Zenon DEF HasRing

LEMMA RenamedGraph ==
    ASSUME GraphInv, NEW N \in [nodes -> NodeIds], Injective(N),
           NEW R \in [rels -> RelIds], Injective(R), Renamed(N, R),
           relationship' \in [RelIds -> Records], first_relationship' \in [NodeIds -> Links]
    PROVE  GraphInv'
<1>1. nodes' = {N[n] : n \in nodes} /\ rels' = {R[r] : r \in rels}
  BY Zenon DEF Renamed
<1>2. nodes' \subseteq NodeIds /\ rels' \subseteq RelIds
  BY <1>1, Zenon
<1>3. ASSUME NEW t \in rels'
      PROVE  /\ relationship'[t].source \in nodes' /\ relationship'[t].target \in nodes'
             /\ LoopsEven(relationship', t)
  <2>1. PICK s \in rels : t = R[s]
    BY <1>1, Zenon
  <2>2. relationship'[t] = RecordWith(relationship[s], N, R)
    BY <2>1, Zenon DEF Renamed
  <2>3. /\ relationship[s].source \in nodes /\ relationship[s].target \in nodes
        /\ LoopsEven(relationship, s)
    BY Zenon DEF GraphInv
  <2>4. /\ relationship'[t].source = N[relationship[s].source]
        /\ relationship'[t].target = N[relationship[s].target]
        /\ relationship'[t].next_source = R[relationship[s].next_source]
        /\ relationship'[t].next_target = R[relationship[s].next_target]
        /\ relationship'[t].prev_source = R[relationship[s].prev_source]
        /\ relationship'[t].prev_target = R[relationship[s].prev_target]
    BY <2>2 DEF RecordWith
  <2>5. LoopsEven(relationship', t)
    BY <2>3, <2>4, Zenon DEF LoopsEven, Injective
  <2> QED BY <2>3, <2>4, <2>5, <1>1, Zenon
<1>4. ASSUME NEW k \in nodes' PROVE HasRing(relationship', rels', first_relationship'[k], k)
  <2>1. PICK n \in nodes : k = N[n]
    BY <1>1, Zenon
  <2> QED BY <2>1, RenamedRing, Zenon
<1> QED BY <1>2, <1>3, <1>4, Zenon DEF GraphInv

------------------------------------------------------------------------------
(* swap_relationships *)

LEMMA ExchangeApart ==
    ASSUME NEW a, NEW b
    PROVE  /\ \A x : Exchange(Exchange(x, a, b), a, b) = x
           /\ \A x, y : Exchange(x, a, b) = Exchange(y, a, b) => x = y
           /\ \A S : Injective([x \in S |-> Exchange(x, a, b)])
<1>1. \A x, y : Exchange(x, a, b) = Exchange(y, a, b) => x = y
  BY Zenon DEF Exchange
<1> QED BY <1>1, Zenon DEF Exchange, Injective

LEMMA IdentityRight ==
    ASSUME NEW S
    PROVE  Identity(S) \in [S -> S] /\ Injective(Identity(S)) /\ \A x : Applied(Identity(S), x) = x
BY Zenon DEF Identity, Injective, Applied

\* Two relationships are neighbours of each other.
LEMMA NeighboursMutual ==
    ASSUME GraphInv, NEW r \in rels, NEW s \in LinksOf(r)
    PROVE  s \in rels /\ r \in LinksOf(s)
<1> DEFINE a == relationship[r].source
           b == relationship[r].target
<1>1. /\ a \in nodes /\ b \in nodes /\ EndOf(relationship, a, r) /\ EndOf(relationship, b, r)
      /\ NextOf(relationship, a, r) = relationship[r].next_source
      /\ PrevOf(relationship, a, r) = relationship[r].prev_source
      /\ NextOf(relationship, b, r) = relationship[r].next_target
      /\ PrevOf(relationship, b, r) = relationship[r].prev_target
  BY OwnLinks, Zenon
<1>2. /\ HasRing(relationship, rels, first_relationship[a], a)
      /\ HasRing(relationship, rels, first_relationship[b], b)
      /\ NoId \notin rels
  BY <1>1, NoIdApart, Zenon DEF GraphInv
<1>3. PICK n \in {a, b} : NextOf(relationship, n, r) = s \/ PrevOf(relationship, n, r) = s
  BY <1>1, Zenon DEF LinksOf
<1> HIDE DEF a, b
<1>4. /\ s \in rels
      /\ PrevOf(relationship, n, s) = r \/ NextOf(relationship, n, s) = r
  BY <1>1, <1>2, <1>3, RingLinks
<1> QED BY <1>4, Zenon DEF LinksOf, NextOf, PrevOf

LEMMA FirstIncident ==
    ASSUME GraphInv, NEW n \in nodes
    PROVE  first_relationship[n] = NoId
           \/ (first_relationship[n] \in rels /\ n \in NodesOf(first_relationship[n]))
<1>1. HasRing(relationship, rels, first_relationship[n], n) /\ NoId \notin rels
  BY NoIdApart, Zenon DEF GraphInv
<1>2. first_relationship[n] = NoId
      \/ (first_relationship[n] \in rels /\ EndOf(relationship, n, first_relationship[n]))
  BY <1>1, RingLinks, Zenon
<1> QED BY <1>2, Zenon DEF EndOf, NodesOf

\* The record with the links exchanged.
LinksExchanged(rel, a, b) ==
    [source |-> rel.source, target |-> rel.target,
     prev_source |-> Exchange(rel.prev_source, a, b), next_source |-> Exchange(rel.next_source, a, b),
     prev_target |-> Exchange(rel.prev_target, a, b), next_target |-> Exchange(rel.next_target, a, b)]

LEMMA LinksExchangedRight ==
    ASSUME NEW rel \in Records, NEW a \in RelIds, NEW b \in RelIds
    PROVE  /\ [rel EXCEPT !.prev_source = Exchange(@, a, b), !.next_source = Exchange(@, a, b),
                          !.prev_target = Exchange(@, a, b), !.next_target = Exchange(@, a, b)]
              = LinksExchanged(rel, a, b)
           /\ LinksExchanged(rel, a, b) \in Records
<1>1. \A x \in Links : Exchange(x, a, b) \in Links
  BY NoIdApart, Zenon DEF Exchange
<1> DEFINE p == Exchange(rel.prev_source, a, b)
           q == Exchange(rel.next_source, a, b)
           u == Exchange(rel.prev_target, a, b)
           v == Exchange(rel.next_target, a, b)
<1>2. p \in Links /\ q \in Links /\ u \in Links /\ v \in Links
  BY <1>1, Zenon DEF Records
<1> DEFINE r1 == [rel EXCEPT !.prev_source = p]
           r2 == [r1 EXCEPT !.next_source = q]
           r3 == [r2 EXCEPT !.prev_target = u]
           r4 == [r3 EXCEPT !.next_target = v]
<1>3. [rel EXCEPT !.prev_source = Exchange(@, a, b), !.next_source = Exchange(@, a, b),
                  !.prev_target = Exchange(@, a, b), !.next_target = Exchange(@, a, b)] = r4
  BY Zenon DEF Records
<1> HIDE DEF p, q, u, v
<1>4. r4 = [source |-> rel.source, target |-> rel.target, prev_source |-> p, next_source |-> q,
            prev_target |-> u, next_target |-> v]
  <2>1. r1 = [source |-> rel.source, target |-> rel.target, prev_source |-> p,
              next_source |-> rel.next_source, prev_target |-> rel.prev_target,
              next_target |-> rel.next_target]
    BY DEF Records
  <2> HIDE DEF r1
  <2>2. r2 = [source |-> rel.source, target |-> rel.target, prev_source |-> p,
              next_source |-> q, prev_target |-> rel.prev_target, next_target |-> rel.next_target]
    BY <2>1
  <2> HIDE DEF r2
  <2>3. r3 = [source |-> rel.source, target |-> rel.target, prev_source |-> p,
              next_source |-> q, prev_target |-> u, next_target |-> rel.next_target]
    BY <2>2
  <2> HIDE DEF r3
  <2> QED BY <2>3
<1> HIDE DEF r4
<1>5. r4 = LinksExchanged(rel, a, b)
  BY <1>4, Zenon DEF LinksExchanged, p, q, u, v
<1>6. r4 \in Records
  BY <1>2, <1>4, Zenon DEF Records
<1> QED BY <1>3, <1>5, <1>6, Zenon

LEMMA RelinkedRight ==
    ASSUME GraphInv, NEW fst \in RelIds, NEW snd \in RelIds
    PROVE  /\ \A s \in RelIds : Relinked(fst, snd)[s] \in Records
           /\ \A s \in rels : Relinked(fst, snd)[s] = LinksExchanged(relationship[s], fst, snd)
<1> DEFINE touched == UNION {LinksOf(r) : r \in {fst, snd} \cap rels}
<1>1. \A s \in RelIds : relationship[s] \in Records
  BY Zenon DEF GraphInv
<1>2. ASSUME NEW s \in RelIds
      PROVE  Relinked(fst, snd)[s] = IF s \in touched THEN LinksExchanged(relationship[s], fst, snd)
                                                      ELSE relationship[s]
  <2>1. relationship[s] \in Records
    BY <1>1, Zenon
  <2>2. [relationship[s] EXCEPT !.prev_source = Exchange(@, fst, snd),
                                !.next_source = Exchange(@, fst, snd),
                                !.prev_target = Exchange(@, fst, snd),
                                !.next_target = Exchange(@, fst, snd)]
        = LinksExchanged(relationship[s], fst, snd)
    BY <2>1, LinksExchangedRight, Zenon
  <2> QED BY <2>2, Zenon DEF Relinked
<1>3. ASSUME NEW s \in rels, s \notin touched
      PROVE  relationship[s] = LinksExchanged(relationship[s], fst, snd)
  <2>1. ASSUME NEW t \in LinksOf(s) PROVE Exchange(t, fst, snd) = t
    <3>1. t \in rels /\ s \in LinksOf(t)
      BY NeighboursMutual, Zenon
    <3>2. t # fst /\ t # snd
      BY <3>1, <1>3, Zenon
    <3> QED BY <3>2, Zenon DEF Exchange
  <2>2. relationship[s] \in Records
    BY <1>1, Zenon DEF GraphInv
  <2> QED BY <2>1, <2>2, Zenon DEF LinksOf, LinksExchanged, Records
<1> HIDE DEF touched
<1>4. rels \subseteq RelIds
  BY Zenon DEF GraphInv
<1>5. \A s \in RelIds : LinksExchanged(relationship[s], fst, snd) \in Records
  BY <1>1, LinksExchangedRight, Zenon
<1>6. \A s \in RelIds : Relinked(fst, snd)[s] \in Records
  BY <1>1, <1>2, <1>5, Zenon
<1>7. \A s \in rels : Relinked(fst, snd)[s] = LinksExchanged(relationship[s], fst, snd)
  BY <1>2, <1>3, <1>4, Zenon
<1> QED BY <1>6, <1>7, Zenon

\* Where the names of the relationships are exchanged, a record is the one with
\* the links exchanged.
LEMMA RecordExchanged ==
    ASSUME GraphInv, NEW a, NEW b, NEW s \in rels
    PROVE  RecordWith(relationship[s], Identity(nodes), [r \in rels |-> Exchange(r, a, b)])
           = LinksExchanged(relationship[s], a, b)
<1>1. /\ relationship[s].source \in nodes /\ relationship[s].target \in nodes
      /\ {relationship[s].next_source, relationship[s].prev_source,
          relationship[s].next_target, relationship[s].prev_target} \subseteq rels
  BY OwnLinks, Zenon
<1> QED BY <1>1, Zenon DEF RecordWith, LinksExchanged, Identity

LEMMA SwapRelationshipsRight ==
    ASSUME GraphInv, NEW fst \in RelIds, NEW snd \in RelIds, SwapRelationships(fst, snd)
    PROVE  /\ Renamed(Identity(nodes), [r \in rels |-> Exchange(r, fst, snd)])
           /\ relationship' \in [RelIds -> Records] /\ first_relationship' \in [NodeIds -> Links]
<1> DEFINE R == [r \in rels |-> Exchange(r, fst, snd)]
           N == Identity(nodes)
<1>1. \A n \in nodes : N[n] = n
  BY Zenon DEF Identity
<1>2. /\ rels \subseteq RelIds /\ nodes \subseteq NodeIds /\ NoId \notin rels
      /\ relationship \in [RelIds -> Records] /\ first_relationship \in [NodeIds -> Links]
  BY NoIdApart, Zenon DEF GraphInv
<1>3. NoId # fst /\ NoId # snd
  BY NoIdApart, Zenon
<1>4. CASE fst = snd \/ {fst, snd} \cap rels = {}
  <2>1. UNCHANGED graphVars
    BY <1>4, Zenon DEF SwapRelationships
  <2>2. \A r \in rels : R[r] = r
    BY <1>4, Zenon DEF Exchange
  <2>3. nodes' = {N[n] : n \in nodes} /\ rels' = {R[r] : r \in rels}
    BY <2>1, <2>2, <1>1, Zenon DEF graphVars
  <2>4. \A x : Applied(R, x) = x
    BY <2>2, Zenon DEF Applied
  <2>5. ASSUME NEW s \in rels PROVE RecordWith(relationship[s], N, R) = relationship[s]
    <3>1. relationship[s] \in Records
      BY <1>2, Zenon
    <3>2. /\ relationship[s].source \in nodes /\ relationship[s].target \in nodes
          /\ {relationship[s].next_source, relationship[s].prev_source,
              relationship[s].next_target, relationship[s].prev_target} \subseteq rels
      BY OwnLinks, Zenon
    <3> HIDE DEF R, N
    <3> QED BY <3>1, <3>2, <2>2, <1>1, Zenon DEF RecordWith, Records
  <2> HIDE DEF R, N
  <2>6. Renamed(N, R)
    BY <2>1, <2>2, <2>3, <2>4, <2>5, <1>1, Zenon DEF Renamed, graphVars
  <2> QED BY <2>1, <2>6, <1>2, Zenon DEF graphVars, R, N
<1>5. CASE ~(fst = snd \/ {fst, snd} \cap rels = {})
  <2> DEFINE relinked == Relinked(fst, snd)
             touched  == UNION {NodesOf(r) : r \in {fst, snd} \cap rels}
  <2>1. /\ rels' = {Exchange(r, fst, snd) : r \in rels} /\ nodes' = nodes
        /\ relationship' =
              [r \in RelIds |-> IF r \notin {fst, snd} \/ Exchange(r, fst, snd) \in rels
                                THEN relinked[Exchange(r, fst, snd)] ELSE NoRel]
        /\ first_relationship' =
              [n \in NodeIds |-> IF n \in touched THEN Exchange(first_relationship[n], fst, snd)
                                                  ELSE first_relationship[n]]
    BY <1>5, Zenon DEF SwapRelationships
  <2>2. /\ \A s \in RelIds : relinked[s] \in Records
        /\ \A s \in rels : relinked[s] = LinksExchanged(relationship[s], fst, snd)
    BY RelinkedRight, Zenon
  <2> HIDE DEF relinked, touched
  <2>3. \A s \in RelIds : Exchange(s, fst, snd) \in RelIds
    BY Zenon DEF Exchange
  <2>4. relationship' \in [RelIds -> Records]
    <3>1. NoRel \in Records
      BY NoIdApart, Zenon DEF NoRel, Records
    <3> QED BY <3>1, <2>1, <2>2, <2>3, Zenon
  <2>5. first_relationship' \in [NodeIds -> Links]
    <3>1. \A x \in Links : Exchange(x, fst, snd) \in Links
      BY NoIdApart, Zenon DEF Exchange
    <3> QED BY <3>1, <2>1, <1>2, Zenon
  <2>6. ASSUME NEW s \in rels PROVE relationship'[R[s]] = RecordWith(relationship[s], N, R)
    <3>1. R[s] = Exchange(s, fst, snd) /\ R[s] \in RelIds
      BY <2>3, <1>2, Zenon
    <3>2. Exchange(Exchange(s, fst, snd), fst, snd) = s
      BY ExchangeApart
    <3> HIDE DEF R
    <3>3. relationship'[R[s]] = relinked[s]
      BY <3>1, <3>2, <2>1, Zenon
    <3> QED BY <3>3, <2>2, RecordExchanged, Zenon DEF R
  <2>7. ASSUME NEW n \in nodes PROVE first_relationship'[N[n]] = Applied(R, first_relationship[n])
    <3>1. N[n] = n /\ n \in NodeIds
      BY <1>1, <1>2, Zenon
    <3>2. CASE first_relationship[n] = NoId
      BY <3>1, <3>2, <2>1, <1>2, <1>3, Zenon DEF Applied, Exchange
    <3>3. CASE first_relationship[n] \in rels /\ n \in NodesOf(first_relationship[n])
      <4>1. Applied(R, first_relationship[n]) = Exchange(first_relationship[n], fst, snd)
        BY <3>3, Zenon DEF Applied
      <4>2. CASE n \in touched
        BY <3>1, <4>1, <4>2, <2>1, Zenon
      <4>3. CASE n \notin touched
        <5>1. first_relationship[n] # fst /\ first_relationship[n] # snd
          BY <3>3, <4>3, Zenon DEF touched
        <5> QED BY <3>1, <4>1, <4>3, <5>1, <2>1, Zenon DEF Exchange
      <4> QED BY <4>2, <4>3, Zenon
    <3> QED BY <3>2, <3>3, FirstIncident, Zenon
  <2>8. nodes' = {N[n] : n \in nodes} /\ rels' = {R[r] : r \in rels}
    BY <2>1, <1>1, Zenon
  <2> HIDE DEF R, N
  <2>9. Renamed(N, R)
    BY <2>6, <2>7, <2>8, Zenon DEF Renamed
  <2> QED BY <2>4, <2>5, <2>9, Zenon DEF R, N
<1> QED BY <1>4, <1>5, Zenon

------------------------------------------------------------------------------
(* swap_nodes *)

LEMMA ExpandSetRight ==
    ASSUME GraphInv, NEW n \in nodes
    PROVE  ExpandSet(n, "BOTH") = IncidentRels(n)
<1>1. ExpandSet(n, "BOTH") = Matching(n, "BOTH")
  BY ExpandExact, Zenon DEF ExpandSet
<1> QED BY <1>1, Zenon DEF Matching, Matches, IncidentRels, Incident

EndsExchanged(rel, a, b) ==
    [source |-> Exchange(rel.source, a, b), target |-> Exchange(rel.target, a, b),
     prev_source |-> rel.prev_source, next_source |-> rel.next_source,
     prev_target |-> rel.prev_target, next_target |-> rel.next_target]

LEMMA EndsExchangedRight ==
    ASSUME NEW rel \in Records, NEW a \in NodeIds, NEW b \in NodeIds
    PROVE  /\ [rel EXCEPT !.source = Exchange(@, a, b), !.target = Exchange(@, a, b)]
              = EndsExchanged(rel, a, b)
           /\ EndsExchanged(rel, a, b) \in Records
<1>1. \A x \in NodeIds \cup {NoId} : Exchange(x, a, b) \in NodeIds \cup {NoId}
  BY Zenon DEF Exchange
<1> DEFINE p == Exchange(rel.source, a, b)
           q == Exchange(rel.target, a, b)
<1>2. p \in NodeIds \cup {NoId} /\ q \in NodeIds \cup {NoId}
  BY <1>1, Zenon DEF Records
<1>3. [rel EXCEPT !.source = Exchange(@, a, b), !.target = Exchange(@, a, b)]
      = [[rel EXCEPT !.source = p] EXCEPT !.target = q]
  BY Zenon DEF Records
<1> HIDE DEF p, q
<1>4. [[rel EXCEPT !.source = p] EXCEPT !.target = q]
      = [source |-> p, target |-> q, prev_source |-> rel.prev_source, next_source |-> rel.next_source,
         prev_target |-> rel.prev_target, next_target |-> rel.next_target]
  <2> DEFINE r1 == [rel EXCEPT !.source = p]
  <2>1. r1 = [source |-> p, target |-> rel.target, prev_source |-> rel.prev_source,
              next_source |-> rel.next_source, prev_target |-> rel.prev_target,
              next_target |-> rel.next_target]
    BY DEF Records
  <2> HIDE DEF r1
  <2>2. [r1 EXCEPT !.target = q]
        = [source |-> p, target |-> q, prev_source |-> rel.prev_source, next_source |-> rel.next_source,
           prev_target |-> rel.prev_target, next_target |-> rel.next_target]
    BY <2>1
  <2> QED BY <2>2, Zenon DEF r1
<1>5. [source |-> p, target |-> q, prev_source |-> rel.prev_source, next_source |-> rel.next_source,
         prev_target |-> rel.prev_target, next_target |-> rel.next_target] \in Records
  BY <1>2, Zenon DEF Records
<1> QED BY <1>3, <1>4, <1>5, Zenon DEF EndsExchanged, p, q

LEMMA SwapNodesRight ==
    ASSUME GraphInv, NEW fst \in NodeIds, NEW snd \in NodeIds, SafeSwap(fst, snd), SwapNodes(fst, snd)
    PROVE  /\ Renamed([n \in nodes |-> Exchange(n, fst, snd)], Identity(rels))
           /\ relationship' \in [RelIds -> Records] /\ first_relationship' \in [NodeIds -> Links]
<1> DEFINE N == [n \in nodes |-> Exchange(n, fst, snd)]
           R == Identity(rels)
<1>1. (\A r \in rels : R[r] = r) /\ (\A x : Applied(R, x) = x)
  BY Zenon DEF Identity, Applied
<1>2. /\ rels \subseteq RelIds /\ nodes \subseteq NodeIds
      /\ relationship \in [RelIds -> Records] /\ first_relationship \in [NodeIds -> Links]
      /\ \A r \in rels : relationship[r].source \in nodes /\ relationship[r].target \in nodes
  BY Zenon DEF GraphInv
<1>3. ASSUME NEW s \in rels PROVE RecordWith(relationship[s], N, R) = EndsExchanged(relationship[s], fst, snd)
  <2>1. /\ relationship[s].source \in nodes /\ relationship[s].target \in nodes
        /\ {relationship[s].next_source, relationship[s].prev_source,
            relationship[s].next_target, relationship[s].prev_target} \subseteq rels
    BY OwnLinks, Zenon
  <2> QED BY <2>1, <1>1, Zenon DEF RecordWith, EndsExchanged
<1>4. ASSUME NEW s \in rels, relationship[s].source \notin {fst, snd}, relationship[s].target \notin {fst, snd}
      PROVE  EndsExchanged(relationship[s], fst, snd) = relationship[s]
  <2>1. relationship[s] \in Records
    BY <1>2, Zenon
  <2> QED BY <2>1, <1>4, Zenon DEF EndsExchanged, Exchange, Records
<1>5. CASE fst = snd \/ {fst, snd} \cap nodes = {}
  <2>1. UNCHANGED graphVars
    BY <1>5, Zenon DEF SwapNodes
  <2>2. \A n \in nodes : N[n] = n
    BY <1>5, Zenon DEF Exchange
  <2>3. nodes' = {N[n] : n \in nodes} /\ rels' = {R[r] : r \in rels}
    BY <2>1, <2>2, <1>1, Zenon DEF graphVars
  <2>4. ASSUME NEW s \in rels PROVE RecordWith(relationship[s], N, R) = relationship[s]
    <3>1. CASE fst = snd
      <4>1. relationship[s] \in Records
        BY <1>2, Zenon
      <4>2. EndsExchanged(relationship[s], fst, snd) = relationship[s]
        BY <3>1, <4>1, Zenon DEF EndsExchanged, Exchange, Records
      <4> QED BY <4>2, <1>3, Zenon
    <3>2. CASE {fst, snd} \cap nodes = {}
      BY <3>2, <1>2, <1>3, <1>4, Zenon
    <3> QED BY <3>1, <3>2, <1>5, Zenon
  <2> HIDE DEF R, N
  <2>5. Renamed(N, R)
    BY <2>1, <2>2, <2>3, <2>4, <1>1, Zenon DEF Renamed, graphVars
  <2> QED BY <2>1, <2>5, <1>2, Zenon DEF graphVars, R, N
<1>6. CASE ~(fst = snd \/ {fst, snd} \cap nodes = {})
  <2> DEFINE rewritten == Rewritten(fst, snd)
  <2>1. /\ nodes' = {Exchange(n, fst, snd) : n \in nodes} /\ rels' = rels
        /\ first_relationship' =
              [n \in NodeIds |-> IF n \in {fst, snd} /\ Exchange(n, fst, snd) \in nodes
                                 THEN first_relationship[Exchange(n, fst, snd)]
                                 ELSE first_relationship[n]]
        /\ relationship' =
              [r \in RelIds |-> IF r \in rewritten
                                THEN [relationship[r] EXCEPT !.source = Exchange(@, fst, snd),
                                                             !.target = Exchange(@, fst, snd)]
                                ELSE relationship[r]]
    BY <1>6, Zenon DEF SwapNodes
  <2>2. snd \in nodes
    BY <1>6, Zenon DEF SafeSwap
  <2>3. ASSUME NEW s \in rels, s \notin rewritten
        PROVE  relationship[s].source \notin {fst, snd} /\ relationship[s].target \notin {fst, snd}
    <3>1. s \notin IncidentRels(snd) /\ (fst \in nodes => s \notin IncidentRels(fst))
      BY <2>2, <2>3, ExpandSetRight, Zenon DEF Rewritten
    <3> QED BY <3>1, <1>2, Zenon DEF IncidentRels, Incident
  <2> HIDE DEF rewritten
  <2>4. \A s \in RelIds : relationship'[s] = IF s \in rewritten THEN EndsExchanged(relationship[s], fst, snd)
                                                               ELSE relationship[s]
    BY <2>1, <1>2, EndsExchangedRight, Zenon
  <2>5. relationship' \in [RelIds -> Records]
    <3>1. ASSUME NEW s \in RelIds PROVE relationship'[s] \in Records
      <4>1. relationship[s] \in Records
        BY <1>2, Zenon
      <4>2. EndsExchanged(relationship[s], fst, snd) \in Records
        BY <4>1, EndsExchangedRight, Zenon
      <4> QED BY <4>1, <4>2, <2>4, Zenon
    <3> QED BY <3>1, <2>1, Zenon
  <2>6. first_relationship' \in [NodeIds -> Links]
    <3>1. \A n \in NodeIds : Exchange(n, fst, snd) \in NodeIds
      BY Zenon DEF Exchange
    <3> QED BY <3>1, <2>1, <1>2, Zenon
  <2>7. ASSUME NEW s \in rels PROVE relationship'[R[s]] = RecordWith(relationship[s], N, R)
    BY <1>1, <1>2, <1>3, <1>4, <2>3, <2>4, Zenon
  <2>8. ASSUME NEW n \in nodes PROVE first_relationship'[N[n]] = Applied(R, first_relationship[n])
    <3>1. N[n] = Exchange(n, fst, snd) /\ N[n] \in NodeIds /\ Exchange(N[n], fst, snd) = n
      BY <1>2, ExchangeApart, Zenon DEF Exchange
    <3>2. CASE N[n] \in {fst, snd}
      BY <3>1, <3>2, <2>1, <1>1, Zenon
    <3>3. CASE N[n] \notin {fst, snd}
      <4>1. N[n] = n
        BY <3>1, <3>3, Zenon DEF Exchange
      <4> QED BY <3>1, <3>3, <4>1, <2>1, <1>1, Zenon
    <3> QED BY <3>2, <3>3, Zenon
  <2>9. nodes' = {N[n] : n \in nodes} /\ rels' = {R[r] : r \in rels}
    BY <2>1, <1>1, Zenon
  <2> HIDE DEF R, N
  <2>10. Renamed(N, R)
    BY <2>7, <2>8, <2>9, Zenon DEF Renamed
  <2> QED BY <2>5, <2>6, <2>10, Zenon DEF R, N
<1> QED BY <1>5, <1>6, Zenon

------------------------------------------------------------------------------
(* The slots and the counts *)

\* What is left of SlotInv when records are swapped with free slots: the records
\* are on the pages there are, and are counted.
BoundsInv ==
    /\ last_alloc_node_id \in Nat /\ last_alloc_rel_id \in Nat
    /\ node_pages \in 0 .. NodePages /\ rel_pages \in 0 .. RelPages
    /\ \A i \in nodes : i < node_pages * SlotsPerPage
    /\ \A i \in rels : i < rel_pages * SlotsPerPage
    /\ IsFiniteSet(nodes) /\ n_nodes = Cardinality(nodes)
    /\ IsFiniteSet(rels) /\ n_rels = Cardinality(rels)

LEMMA FreeSlotsFound ==
    ASSUME GraphInv, BoundsInv
    PROVE  FreeNode \notin nodes /\ FreeRel \notin rels
<1>1. node_pages \in Nat /\ rel_pages \in Nat
  BY SlotAssumption DEF BoundsInv
<1>2. FreeNode \notin nodes
  BY <1>1, FreeSlotRight, IdTypes, Zenon DEF BoundsInv, FreeNode
<1>3. FreeRel \notin rels
  BY <1>1, FreeSlotRight, IdTypes, Zenon DEF BoundsInv, FreeRel
<1> QED BY <1>2, <1>3, Zenon

LEMMA PagesForBound ==
    ASSUME NEW P \in Nat, NEW pages \in 0 .. P, NEW id \in Nat, id < P * SlotsPerPage
    PROVE  PagesFor(id, pages) \in 0 .. P
<1>1. PICK a \in Nat, b \in Nat : a = P * SlotsPerPage /\ b = pages * SlotsPerPage
  BY PageMultiple
<1>2. CASE id < pages * SlotsPerPage
  BY <1>2, Zenon DEF PagesFor
<1>3. CASE ~(id < pages * SlotsPerPage)
  <2>1. b < a
    BY <1>1, <1>3
  <2>2. pages # P
    BY <1>1, <2>1
  <2> QED BY <1>3, <2>2 DEF PagesFor
<1> QED BY <1>2, <1>3, Zenon

LEMMA CreateNodeBounds ==
    ASSUME GraphInv, BoundsInv, CreateNode
    PROVE  BoundsInv'
<1> DEFINE id == FreeNode
<1>1. /\ id \in NodeIds /\ nodes' = nodes \cup {id} /\ n_nodes' = n_nodes + 1
      /\ last_alloc_node_id' = id /\ node_pages' = PagesFor(id, node_pages)
      /\ rels' = rels /\ n_rels' = n_rels /\ rel_pages' = rel_pages
      /\ last_alloc_rel_id' = last_alloc_rel_id
  BY Zenon DEF CreateNode, relVars
<1>2. node_pages \in Nat /\ NodePages \in Nat
  BY SlotAssumption DEF BoundsInv
<1>3. /\ id \in Nat /\ id \notin nodes /\ id < PagesFor(id, node_pages) * SlotsPerPage
      /\ node_pages * SlotsPerPage <= PagesFor(id, node_pages) * SlotsPerPage
  BY <1>2, FreeSlotRight, IdTypes, Zenon DEF BoundsInv, FreeNode
<1>4. id < NodePages * SlotsPerPage
  BY <1>1, SlotAssumption DEF NodeIds
<1> HIDE DEF id
<1>5. node_pages' \in 0 .. NodePages
  BY <1>1, <1>2, <1>3, <1>4, PagesForBound, Zenon DEF BoundsInv
<1>6. PICK a \in Nat, b \in Nat : a = node_pages * SlotsPerPage /\ b = node_pages' * SlotsPerPage
  BY <1>2, <1>5, PageMultiple
<1>7. \A i \in nodes' : i < node_pages' * SlotsPerPage
  <2>1. a <= b /\ id < b
    BY <1>1, <1>3, <1>6, Zenon
  <2>2. \A i \in nodes : i \in Nat /\ i < a
    BY <1>6, IdTypes, Zenon DEF GraphInv, BoundsInv
  <2>3. \A i \in nodes \cup {id} : i < b
    BY <1>3, <2>1, <2>2
  <2> QED BY <1>1, <1>6, <2>3, Zenon
<1>8. IsFiniteSet(nodes') /\ Cardinality(nodes') = Cardinality(nodes) + 1
  BY <1>1, <1>3, FS_AddElement, Zenon DEF BoundsInv
<1> QED BY <1>1, <1>3, <1>5, <1>7, <1>8, Zenon DEF BoundsInv

LEMMA CreateRelationshipBounds ==
    ASSUME GraphInv, BoundsInv, NEW from, NEW to, CreateRelationship(from, to)
    PROVE  BoundsInv'
<1> DEFINE id == FreeRel
<1>1. /\ id \in RelIds /\ rels' = rels \cup {id} /\ n_rels' = n_rels + 1
      /\ last_alloc_rel_id' = id /\ rel_pages' = PagesFor(id, rel_pages)
      /\ nodes' = nodes /\ n_nodes' = n_nodes /\ node_pages' = node_pages
      /\ last_alloc_node_id' = last_alloc_node_id
  BY Zenon DEF CreateRelationship, nodeVars
<1>2. rel_pages \in Nat /\ RelPages \in Nat
  BY SlotAssumption DEF BoundsInv
<1>3. /\ id \in Nat /\ id \notin rels /\ id < PagesFor(id, rel_pages) * SlotsPerPage
      /\ rel_pages * SlotsPerPage <= PagesFor(id, rel_pages) * SlotsPerPage
  BY <1>2, FreeSlotRight, IdTypes, Zenon DEF BoundsInv, FreeRel
<1>4. id < RelPages * SlotsPerPage
  BY <1>1, SlotAssumption DEF RelIds
<1> HIDE DEF id
<1>5. rel_pages' \in 0 .. RelPages
  BY <1>1, <1>2, <1>3, <1>4, PagesForBound, Zenon DEF BoundsInv
<1>6. PICK a \in Nat, b \in Nat : a = rel_pages * SlotsPerPage /\ b = rel_pages' * SlotsPerPage
  BY <1>2, <1>5, PageMultiple
<1>7. \A i \in rels' : i < rel_pages' * SlotsPerPage
  <2>1. a <= b /\ id < b
    BY <1>1, <1>3, <1>6, Zenon
  <2>2. \A i \in rels : i \in Nat /\ i < a
    BY <1>6, IdTypes, Zenon DEF GraphInv, BoundsInv
  <2>3. \A i \in rels \cup {id} : i < b
    BY <1>3, <2>1, <2>2
  <2> QED BY <1>1, <1>6, <2>3, Zenon
<1>8. IsFiniteSet(rels') /\ Cardinality(rels') = Cardinality(rels) + 1
  BY <1>1, <1>3, FS_AddElement, Zenon DEF BoundsInv
<1> QED BY <1>1, <1>3, <1>5, <1>7, <1>8, Zenon DEF BoundsInv

LEMMA DeleteBounds ==
    ASSUME GraphInv, BoundsInv, NEW r \in rels, Delete(r)
    PROVE  BoundsInv'
<1>1. /\ rels' = rels \ {r} /\ n_rels' = n_rels - 1 /\ rel_pages' = rel_pages
      /\ last_alloc_rel_id' = Minimum(r, last_alloc_rel_id)
      /\ nodes' = nodes /\ n_nodes' = n_nodes /\ node_pages' = node_pages
      /\ last_alloc_node_id' = last_alloc_node_id
  BY Zenon DEF Delete, nodeVars
<1>2. r \in Nat
  BY IdTypes, Zenon DEF GraphInv
<1>3. last_alloc_rel_id' \in Nat
  BY <1>1, <1>2, MinimumRight, Zenon DEF BoundsInv
<1>4. IsFiniteSet(rels') /\ Cardinality(rels') = Cardinality(rels) - 1
  BY <1>1, FS_RemoveElement, Zenon DEF BoundsInv
<1> QED BY <1>1, <1>3, <1>4, Zenon DEF BoundsInv

LEMMA DeleteLastBounds ==
    ASSUME GraphInv, BoundsInv, DeletingInv, DeleteLast
    PROVE  BoundsInv'
<1>1. PICK n : n = deleting.node
  BY Zenon
<1>2. /\ n \in nodes /\ nodes' = nodes \ {n} /\ n_nodes' = n_nodes - 1 /\ node_pages' = node_pages
      /\ last_alloc_node_id' = Minimum(n, last_alloc_node_id)
      /\ rels' = rels /\ n_rels' = n_rels /\ rel_pages' = rel_pages
      /\ last_alloc_rel_id' = last_alloc_rel_id
  BY <1>1, Zenon DEF DeleteLast, relVars, DeletingInv
<1>3. n \in Nat
  BY <1>2, IdTypes, Zenon DEF GraphInv
<1>4. last_alloc_node_id' \in Nat
  BY <1>2, <1>3, MinimumRight, Zenon DEF BoundsInv
<1>5. IsFiniteSet(nodes') /\ Cardinality(nodes') = Cardinality(nodes) - 1
  BY <1>2, FS_RemoveElement, Zenon DEF BoundsInv
<1> QED BY <1>2, <1>4, <1>5, Zenon DEF BoundsInv

\* Another name for every record is another set of as many ids.
LEMMA ExchangeSize ==
    ASSUME NEW S, IsFiniteSet(S), NEW a, NEW b
    PROVE  LET T == {Exchange(x, a, b) : x \in S} IN
           IsFiniteSet(T) /\ Cardinality(T) = Cardinality(S)
<1> DEFINE T == {Exchange(x, a, b) : x \in S}
           f == [x \in S |-> Exchange(x, a, b)]
<1>1. /\ DOMAIN f = S /\ f = [x \in S |-> f[x]]
      /\ \A x \in S : f[x] \in T
      /\ \A y \in T : \E x \in S : f[x] = y
  BY Zenon
<1>2. \A x, y \in S : f[x] = f[y] => x = y
  BY ExchangeApart
<1> HIDE DEF f, T
<1>3. IsFiniteSet(T) /\ Cardinality(T) = Cardinality(S)
  BY <1>1, <1>2, ImageSize
<1> QED BY <1>3, Zenon DEF T

\* The slots of a file.
PlaceIds(ft) == {i \in 0 .. Pages(ft) * SlotsPerPage - 1 : i % Slots(ft) = 0}

LEMMA PlacesRight ==
    ASSUME BoundsInv, NEW ft \in {"node", "rel"}
    PROVE  /\ PlaceIds(ft) \subseteq IF ft = "node" THEN NodeIds ELSE RelIds
           /\ \A i \in PlaceIds(ft) : i \in Nat /\ i < Pages(ft) * SlotsPerPage
<1>1. node_pages \in Nat /\ rel_pages \in Nat /\ NodePages \in Nat /\ RelPages \in Nat
  BY SlotAssumption DEF BoundsInv
<1>2. PICK a \in Nat, b \in Nat : a = node_pages * SlotsPerPage /\ b = rel_pages * SlotsPerPage
  BY <1>1, PageMultiple, Zenon
<1>3. PICK c \in Nat, d \in Nat : c = NodePages * SlotsPerPage /\ d = RelPages * SlotsPerPage
  BY <1>1, PageMultiple, Zenon
<1>4. a <= c /\ b <= d
  BY <1>1, <1>2, <1>3, PagesMonotone DEF BoundsInv
<1>5. CASE ft = "node"
  <2>1. PlaceIds(ft) = {i \in 0 .. a - 1 : i % 1 = 0} /\ Pages(ft) * SlotsPerPage = a
    BY <1>2, <1>5, Zenon DEF PlaceIds, Pages, Slots
  <2>2. NodeIds = 0 .. c - 1
    BY <1>3, Zenon DEF NodeIds
  <2> QED BY <1>4, <1>5, <2>1, <2>2
<1>6. CASE ft = "rel"
  <2>1. PlaceIds(ft) = {i \in 0 .. b - 1 : i % SlotsPerRel = 0} /\ Pages(ft) * SlotsPerPage = b
    BY <1>2, <1>6, Zenon DEF PlaceIds, Pages, Slots
  <2>2. RelIds = {i \in 0 .. d - 1 : i % SlotsPerRel = 0}
    BY <1>3, Zenon DEF RelIds
  <2> QED BY <1>4, <1>6, <2>1, <2>2
<1> QED BY <1>5, <1>6, Zenon

------------------------------------------------------------------------------
(* A swap of two records *)

NodeNames(ft, a, b) == IF ft = "node" THEN [n \in nodes |-> Exchange(n, a, b)] ELSE Identity(nodes)
RelNames(ft, a, b)  == IF ft = "rel" THEN [r \in rels |-> Exchange(r, a, b)] ELSE Identity(rels)

\* Both swaps give every record its other name, wherever it occurs, and leave the
\* graph sound.
LEMMA SwapRight ==
    ASSUME GraphInv, BoundsInv, NEW ft \in {"node", "rel"},
           NEW fst \in PlaceIds(ft), NEW snd \in PlaceIds(ft), ft = "node" => SafeSwap(fst, snd),
           Swap(ft, fst, snd), UNCHANGED fileVars
    PROVE  /\ GraphInv' /\ BoundsInv'
           /\ Renamed(NodeNames(ft, fst, snd), RelNames(ft, fst, snd))
<1> DEFINE N == NodeNames(ft, fst, snd)
           R == RelNames(ft, fst, snd)
<1>1. /\ Renamed(N, R)
      /\ relationship' \in [RelIds -> Records] /\ first_relationship' \in [NodeIds -> Links]
  <2>1. CASE ft = "node"
    <3>1. fst \in NodeIds /\ snd \in NodeIds
      BY <2>1, PlacesRight, Zenon
    <3>2. SafeSwap(fst, snd) /\ SwapNodes(fst, snd)
      BY <2>1, Zenon DEF Swap
    <3>3. N = [n \in nodes |-> Exchange(n, fst, snd)] /\ R = Identity(rels)
      BY <2>1, Zenon DEF NodeNames, RelNames
    <3> HIDE DEF N, R
    <3> QED BY <3>1, <3>2, <3>3, SwapNodesRight, Zenon
  <2>2. CASE ft = "rel"
    <3>1. fst \in RelIds /\ snd \in RelIds
      BY <2>2, PlacesRight, Zenon
    <3>2. SwapRelationships(fst, snd)
      BY <2>2, Zenon DEF Swap
    <3>3. R = [r \in rels |-> Exchange(r, fst, snd)] /\ N = Identity(nodes)
      BY <2>2, Zenon DEF NodeNames, RelNames
    <3> HIDE DEF N, R
    <3> QED BY <3>1, <3>2, <3>3, SwapRelationshipsRight, Zenon
  <2> QED BY <2>1, <2>2, Zenon
<1>2. nodes \subseteq NodeIds /\ rels \subseteq RelIds
  BY Zenon DEF GraphInv
<1>3. N \in [nodes -> NodeIds] /\ Injective(N) /\ R \in [rels -> RelIds] /\ Injective(R)
  <2>1. CASE ft = "node"
    <3>1. \A n \in nodes : Exchange(n, fst, snd) \in NodeIds
      BY <2>1, <1>2, PlacesRight, Zenon DEF Exchange
    <3> QED BY <2>1, <3>1, <1>2, ExchangeApart, IdentityRight DEF NodeNames, RelNames
  <2>2. CASE ft = "rel"
    <3>1. \A r \in rels : Exchange(r, fst, snd) \in RelIds
      BY <2>2, <1>2, PlacesRight, Zenon DEF Exchange
    <3> QED BY <2>2, <3>1, <1>2, ExchangeApart, IdentityRight DEF NodeNames, RelNames
  <2> QED BY <2>1, <2>2, Zenon
<1> HIDE DEF N, R
<1>4. GraphInv'
  BY <1>1, <1>3, RenamedGraph, Zenon
<1>5. nodes' = {N[n] : n \in nodes} /\ rels' = {R[r] : r \in rels}
  BY <1>1, Zenon DEF Renamed
<1>6. /\ nodes' = IF ft = "node" THEN {Exchange(n, fst, snd) : n \in nodes} ELSE nodes
      /\ rels' = IF ft = "rel" THEN {Exchange(r, fst, snd) : r \in rels} ELSE rels
  BY <1>5, Zenon DEF N, R, NodeNames, RelNames, Identity
<1>7. /\ IsFiniteSet(nodes') /\ Cardinality(nodes') = Cardinality(nodes)
      /\ IsFiniteSet(rels') /\ Cardinality(rels') = Cardinality(rels)
  BY <1>6, ExchangeSize DEF BoundsInv
<1>8. fst < Pages(ft) * SlotsPerPage /\ snd < Pages(ft) * SlotsPerPage
  BY PlacesRight, Zenon
<1>9. \A i \in nodes' : i < node_pages * SlotsPerPage
  BY <1>6, <1>8, Zenon DEF Exchange, Pages, BoundsInv
<1>10. \A i \in rels' : i < rel_pages * SlotsPerPage
  BY <1>6, <1>8, Zenon DEF Exchange, Pages, BoundsInv
<1>11. BoundsInv'
  BY <1>7, <1>9, <1>10, Zenon DEF BoundsInv, fileVars
<1> QED BY <1>1, <1>4, <1>11, Zenon DEF N, R

------------------------------------------------------------------------------
(* sort_incidence_list *)

LEMMA NthRight ==
    ASSUME NEW ids \in SUBSET Nat, IsFiniteSet(ids), NEW k \in 0 .. Cardinality(ids) - 1
    PROVE  Nth(ids, k) \in ids /\ Rank(ids, Nth(ids, k)) = k
<1>1. k \in Nat /\ k < Cardinality(ids)
  BY FS_CardinalityType
<1>2. \E x \in ids : Rank(ids, x) = k
  BY <1>1, RankExists, Zenon
<1> QED BY <1>2, Zenon DEF Nth, Rank

LEMMA RankApart ==
    ASSUME NEW ids \in SUBSET Nat, IsFiniteSet(ids), NEW x \in ids, NEW y \in ids
    PROVE  /\ Rank(ids, x) \in 0 .. Cardinality(ids) - 1
           /\ Rank(ids, x) = Rank(ids, y) => x = y
           /\ Rank(ids, x) < Rank(ids, y) => x < y
           /\ Nth(ids, Rank(ids, x)) = x
<1>1. Cardinality(ids) \in Nat
  BY FS_CardinalityType, Zenon
<1>2. Rank(ids, x) \in 0 .. Cardinality(ids) - 1 /\ Rank(ids, y) \in 0 .. Cardinality(ids) - 1
  BY <1>1, RankRight
<1>3. x < y => Rank(ids, x) < Rank(ids, y)
  BY RankRight, Zenon
<1>4. y < x => Rank(ids, y) < Rank(ids, x)
  BY RankRight, Zenon
<1>5. x \in Nat /\ y \in Nat
  BY Zenon
<1>6. ASSUME NEW z \in ids, Rank(ids, z) = Rank(ids, x) PROVE z = x
  <2>1. x < z => Rank(ids, x) < Rank(ids, z)
    BY RankRight, Zenon
  <2>2. z < x => Rank(ids, z) < Rank(ids, x)
    BY RankRight, Zenon
  <2>3. Rank(ids, z) \in 0 .. Cardinality(ids) - 1 /\ z \in Nat
    BY <1>1, RankRight
  <2> QED BY <2>1, <2>2, <2>3, <1>2, <1>5, <1>6
<1>7. Nth(ids, Rank(ids, x)) \in ids /\ Rank(ids, Nth(ids, Rank(ids, x))) = Rank(ids, x)
  BY <1>2, NthRight, Zenon
<1>8. Rank(ids, x) = Rank(ids, y) => x = y
  BY <1>6, Zenon
<1>9. Rank(ids, x) < Rank(ids, y) => x < y
  BY <1>2, <1>4, <1>5, <1>8
<1>10. Nth(ids, Rank(ids, x)) = x
  BY <1>6, <1>7, Zenon
<1> QED BY <1>2, <1>8, <1>9, <1>10, Zenon

\* The place before and the place behind k in a ring of m places 0, ..., m - 1.
LEMMA CycleRight ==
    ASSUME NEW m \in Nat \ {0}, NEW k \in 0 .. m - 1
    PROVE  /\ (k + 1) % m = IF k = m - 1 THEN 0 ELSE k + 1
           /\ (k - 1) % m = IF k = 0 THEN m - 1 ELSE k - 1
<1>1. \A j \in 0 .. m - 1 : j % m = j
  OBVIOUS
<1>2. m % m = 0
  OBVIOUS
<1>3. (-1) % m = m - 1
  OBVIOUS
<1> QED BY <1>1, <1>2, <1>3

NextUp(ids, r) ==
    LET k == Rank(ids, r) IN Nth(ids, IF k = Cardinality(ids) - 1 THEN 0 ELSE k + 1)
NextDown(ids, r) ==
    LET k == Rank(ids, r) IN Nth(ids, IF k = 0 THEN Cardinality(ids) - 1 ELSE k - 1)

\* A chain in ascending order is a ring that may begin anywhere.
LEMMA AscendingRing ==
    ASSUME NEW g, NEW rs, NEW n, NEW ids \in SUBSET Nat, IsFiniteSet(ids), ids \subseteq rs,
           \A s \in rs : EndOf(g, n, s) <=> s \in ids, NEW first \in ids,
           \A r \in ids : NextOf(g, n, r) = NextUp(ids, r) /\ PrevOf(g, n, r) = NextDown(ids, r)
    PROVE  HasRing(g, rs, first, n)
<1>1. PICK m : m = Cardinality(ids)
  BY Zenon
<1>2. m \in Nat
  BY <1>1, FS_CardinalityType, Zenon
<1>3. PICK a : a = Rank(ids, first)
  BY Zenon
<1>4. a \in 0 .. m - 1
  BY <1>1, <1>3, RankApart, Zenon
<1> DEFINE up(i) == IF a + i - 1 < m THEN a + i - 1 ELSE a + i - 1 - m
           c == [i \in 1 .. m |-> Nth(ids, up(i))]
<1>5. ASSUME NEW i \in 1 .. m PROVE up(i) \in 0 .. m - 1
  BY <1>2, <1>4
<1>6. ASSUME NEW i \in 1 .. m PROVE c[i] \in ids /\ Rank(ids, c[i]) = up(i)
  BY <1>1, <1>5, NthRight, Zenon
<1>7. c \in [1 .. m -> rs]
  BY <1>6, Zenon
<1>8. ASSUME NEW i \in 1 .. m, NEW j \in 1 .. m, c[i] = c[j] PROVE i = j
  <2>1. up(i) = up(j)
    BY <1>6, <1>8, Zenon
  <2> QED BY <2>1, <1>2, <1>4
<1>9. ASSUME NEW s \in ids PROVE \E i \in 1 .. m : c[i] = s
  <2>1. PICK k : k = Rank(ids, s)
    BY Zenon
  <2>2. k \in 0 .. m - 1 /\ Nth(ids, k) = s
    BY <1>1, <2>1, RankApart, Zenon
  <2> DEFINE i == IF k < a THEN k - a + 1 + m ELSE k - a + 1
  <2>3. i \in 1 .. m /\ up(i) = k
    BY <1>2, <1>4, <2>2
  <2> QED BY <2>2, <2>3, Zenon
<1>10. \A s \in rs : EndOf(g, n, s) <=> \E i \in 1 .. m : c[i] = s
  BY <1>6, <1>9, Zenon
<1>11. first = IF m = 0 THEN NoId ELSE c[1]
  <2>1. 1 \in 1 .. m /\ up(1) = a /\ m # 0
    BY <1>2, <1>4
  <2>2. c[1] = Nth(ids, a)
    BY <2>1, Zenon
  <2> QED BY <2>1, <2>2, <1>3, RankApart, Zenon
<1>12. ASSUME NEW i \in 1 .. m
       PROVE  /\ NextOf(g, n, c[i]) = IF i = m THEN c[1] ELSE c[i + 1]
              /\ PrevOf(g, n, c[i]) = IF i = 1 THEN c[m] ELSE c[i - 1]
  <2>1. PICK u : u = up(i)
    BY Zenon
  <2>2. c[i] \in ids /\ Rank(ids, c[i]) = u
    BY <1>6, <2>1, Zenon
  <2>3. /\ NextOf(g, n, c[i]) = Nth(ids, IF u = m - 1 THEN 0 ELSE u + 1)
        /\ PrevOf(g, n, c[i]) = Nth(ids, IF u = 0 THEN m - 1 ELSE u - 1)
    BY <1>1, <2>2, Zenon DEF NextUp, NextDown
  <2>4. /\ (IF u = m - 1 THEN 0 ELSE u + 1) = IF i = m THEN up(1) ELSE up(i + 1)
        /\ (IF u = 0 THEN m - 1 ELSE u - 1) = IF i = 1 THEN up(m) ELSE up(i - 1)
    BY <2>1, <1>2, <1>4
  <2>5. \A j \in 1 .. m : c[j] = Nth(ids, up(j))
    BY Zenon
  <2>6. 1 \in 1 .. m /\ m \in 1 .. m /\ (i # m => i + 1 \in 1 .. m) /\ (i # 1 => i - 1 \in 1 .. m)
    BY <1>2
  <2> HIDE DEF c, up
  <2> QED BY <2>3, <2>4, <2>5, <2>6
<1> HIDE DEF c, up
<1>13. IsRing(g, rs, first, n, m, c)
  BY <1>7, <1>8, <1>10, <1>11, <1>12, Zenon DEF IsRing
<1> QED BY <1>2, <1>13, Zenon DEF HasRing

\* The record rel with p before it and q behind it in the chain of n.
LinkedTo(rel, n, p, q) ==
    IF rel.source = n THEN [rel EXCEPT !.prev_source = p, !.next_source = q]
                      ELSE [rel EXCEPT !.prev_target = p, !.next_target = q]

LEMMA SortedRight ==
    ASSUME NEW n, NEW ids \in SUBSET Nat, IsFiniteSet(ids), NEW r \in ids
    PROVE  /\ Sorted(r, n, ids) = LinkedTo(relationship[r], n, NextDown(ids, r), NextUp(ids, r))
           /\ NextUp(ids, r) \in ids /\ NextDown(ids, r) \in ids
<1>1. PICK m, k : m = Cardinality(ids) /\ k = Rank(ids, r)
  BY Zenon
<1>2. k \in 0 .. m - 1 /\ Nth(ids, k) = r
  BY <1>1, RankApart, Zenon
<1>3. m \in Nat \ {0}
  BY <1>1, <1>2, FS_CardinalityType
<1>4. ASSUME NEW i \in 0 .. m - 1, Nth(ids, i) = r PROVE i = k
  BY <1>1, <1>4, NthRight, Zenon
<1>5. (CHOOSE i \in 0 .. m - 1 : Nth(ids, i) = r) = k
  BY <1>2, <1>4, Zenon
<1>6. /\ NextUp(ids, r) = Nth(ids, (k + 1) % m)
      /\ NextDown(ids, r) = Nth(ids, (k - 1) % m)
  BY <1>1, <1>2, <1>3, CycleRight, Zenon DEF NextUp, NextDown
<1>7. (k + 1) % m \in 0 .. m - 1 /\ (k - 1) % m \in 0 .. m - 1
  BY <1>2, <1>3, CycleRight
<1>8. NextUp(ids, r) \in ids /\ NextDown(ids, r) \in ids
  BY <1>1, <1>6, <1>7, NthRight, Zenon
<1> DEFINE place == CHOOSE i \in 0 .. Cardinality(ids) - 1 : Nth(ids, i) = r
<1>9. Sorted(r, n, ids) = LinkedTo(relationship[r], n, Nth(ids, (place - 1) % Cardinality(ids)),
                                                      Nth(ids, (place + 1) % Cardinality(ids)))
  BY Zenon DEF Sorted, LinkedTo
<1>10. place = k
  BY <1>1, <1>5, Zenon
<1> HIDE DEF place
<1> QED BY <1>1, <1>6, <1>8, <1>9, <1>10, Zenon

NoLoops == \A r \in rels : relationship[r].source # relationship[r].target

\* The links of the chain of n are set to the order of the ids, no others.
LEMMA SortRings ==
    ASSUME GraphInv, NEW n \in nodes, NoLoops, NEW ids, ids = IncidentRels(n), Cardinality(ids) >= 3,
           relationship' = [r \in RelIds |-> IF r \in ids THEN Sorted(r, n, ids) ELSE relationship[r]],
           UNCHANGED <<nodes, rels, first_relationship>>
    PROVE  /\ GraphInv' /\ NoLoops'
           /\ \A p \in nodes, s \in rels : EndOf(relationship', p, s) <=> EndOf(relationship, p, s)
           /\ \A s \in ids : NextOf(relationship', n, s) = NextUp(ids, s)
           /\ \A p \in nodes \ {n}, s \in rels :
                 EndOf(relationship, p, s) => NextOf(relationship', p, s) = NextOf(relationship, p, s)
<1>1. PICK f, g : f = relationship /\ g = relationship'
  BY Zenon
<1>2. /\ f \in [RelIds -> Records] /\ rels \subseteq RelIds /\ ids \subseteq rels /\ ids \in SUBSET Nat
      /\ \A s \in rels : f[s].source # f[s].target
      /\ \A s \in rels : s \in ids <=> EndOf(f, n, s)
  BY <1>1, IdTypes, Zenon DEF GraphInv, NoLoops, IncidentRels, Incident, EndOf
<1>3. IsFiniteSet(ids)
  BY <1>2, IdTypes, FS_Subset, Zenon
<1>4. ASSUME NEW s \in ids
      PROVE  /\ g[s] \in Records /\ g[s].source = f[s].source /\ g[s].target = f[s].target
             /\ f[s].source = n => /\ g[s].next_source = NextUp(ids, s) /\ g[s].prev_source = NextDown(ids, s)
                                   /\ g[s].next_target = f[s].next_target /\ g[s].prev_target = f[s].prev_target
             /\ f[s].source # n => /\ g[s].next_target = NextUp(ids, s) /\ g[s].prev_target = NextDown(ids, s)
                                   /\ g[s].next_source = f[s].next_source /\ g[s].prev_source = f[s].prev_source
  <2>1. PICK x, y : x = NextUp(ids, s) /\ y = NextDown(ids, s)
    BY Zenon
  <2>2. x \in Links /\ y \in Links
    BY <1>2, <1>3, <2>1, SortedRight, NoIdApart, Zenon
  <2>3. g[s] = IF f[s].source = n THEN [f[s] EXCEPT !.prev_source = y, !.next_source = x]
                                  ELSE [f[s] EXCEPT !.prev_target = y, !.next_target = x]
    <3>1. g[s] = Sorted(s, n, ids)
      BY <1>1, <1>2, Zenon
    <3>2. Sorted(s, n, ids) = LinkedTo(relationship[s], n, NextDown(ids, s), NextUp(ids, s))
      BY <1>2, <1>3, SortedRight, Zenon
    <3>3. g[s] = LinkedTo(f[s], n, y, x)
      BY <1>1, <2>1, <3>1, <3>2, Zenon
    <3> QED BY <3>3, Zenon DEF LinkedTo
  <2>4. f[s] \in Records
    BY <1>2, Zenon
  <2>5. CASE f[s].source = n
    BY <2>1, <2>2, <2>3, <2>4, <2>5, Zenon DEF Records
  <2>6. CASE f[s].source # n
    BY <2>1, <2>2, <2>3, <2>4, <2>6, Zenon DEF Records
  <2> QED BY <2>5, <2>6, Zenon
<1>5. \A s \in RelIds \ ids : g[s] = f[s]
  BY <1>1, Zenon
<1>6. g \in [RelIds -> Records]
  <2>1. \A s \in RelIds : g[s] \in Records
    BY <1>2, <1>4, <1>5, Zenon
  <2>2. g = [s \in RelIds |-> g[s]]
    BY <1>1, Zenon
  <2> QED BY <2>1, <2>2, Zenon
<1>7. \A s \in rels : g[s].source = f[s].source /\ g[s].target = f[s].target
  BY <1>2, <1>4, <1>5, Zenon
<1>8. \A p, s : s \in rels => (EndOf(g, p, s) <=> EndOf(f, p, s))
  BY <1>7, Zenon DEF EndOf
<1>9. \A s \in ids : NextOf(g, n, s) = NextUp(ids, s) /\ PrevOf(g, n, s) = NextDown(ids, s)
  BY <1>4, Zenon DEF NextOf, PrevOf
<1>10. ASSUME NEW p \in nodes \ {n}, NEW s \in rels, EndOf(f, p, s)
       PROVE  NextOf(g, p, s) = NextOf(f, p, s) /\ PrevOf(g, p, s) = PrevOf(f, p, s)
  <2>1. CASE s \in ids
    BY <2>1, <1>2, <1>4, <1>10 DEF EndOf, NextOf, PrevOf
  <2>2. CASE s \notin ids
    BY <2>2, <1>2, <1>5, Zenon DEF NextOf, PrevOf
  <2> QED BY <2>1, <2>2, Zenon
<1>11. ASSUME NEW p \in nodes \ {n} PROVE HasRing(g, rels, first_relationship[p], p)
  <2>1. HasRing(f, rels, first_relationship[p], p)
    BY <1>1, Zenon DEF GraphInv
  <2> QED BY <2>1, <1>8, <1>10, RingKept, Zenon
<1>12. HasRing(g, rels, first_relationship[n], n)
  <2>1. first_relationship[n] \in ids
    <3>1. HasRing(f, rels, first_relationship[n], n) /\ NoId \notin rels
      BY <1>1, NoIdApart, Zenon DEF GraphInv
    <3>2. ids # {}
      BY FS_EmptySet
    <3>3. PICK first : first = first_relationship[n]
      BY Zenon
    <3>4. /\ first = NoId \/ (first \in rels /\ EndOf(f, n, first))
          /\ first = NoId => \A s \in rels : ~EndOf(f, n, s)
      BY <3>1, <3>3, RingLinks, Zenon
    <3> QED BY <3>2, <3>3, <3>4, <1>2, Zenon
  <2> QED BY <2>1, <1>2, <1>3, <1>8, <1>9, AscendingRing, Zenon
<1>13. \A s \in rels : LoopsEven(g, s)
  BY <1>2, <1>7, Zenon DEF LoopsEven
<1>14. GraphInv'
  <2>1. \A p \in nodes : HasRing(g, rels, first_relationship[p], p)
    BY <1>11, <1>12, Zenon
  <2>2. \A s \in rels : g[s].source \in nodes /\ g[s].target \in nodes
    BY <1>1, <1>7, Zenon DEF GraphInv
  <2> QED BY <1>1, <1>6, <1>13, <2>1, <2>2, Zenon DEF GraphInv
<1> QED BY <1>1, <1>2, <1>7, <1>8, <1>9, <1>10, <1>14 DEF NoLoops

LEMMA SizeAtMostOne ==
    ASSUME NEW S, \A x, y \in S : x = y
    PROVE  Cardinality(S) <= 1
<1>1. CASE S = {}
  BY <1>1, FS_EmptySet
<1>2. CASE S # {}
  <2>1. PICK x : x \in S
    BY <1>2, Zenon
  <2>2. S = {x}
    BY <2>1, Zenon
  <2> QED BY <2>2, FS_Singleton
<1> QED BY <1>1, <1>2, Zenon

\* The relationships that are followed in the chain of n by one that is not greater.
TurningBack(n) == {r \in IncidentRels(n) : Next_(n, r) <= r}

\* Two relationships are in order whichever comes first.
LEMMA ShortChain ==
    ASSUME GraphInv, NEW n \in nodes, ~(Cardinality(IncidentRels(n)) >= 3)
    PROVE  Cardinality(TurningBack(n)) <= 1
<1>1. PICK m \in Nat : \E c : IsRing(relationship, rels, first_relationship[n], n, m, c)
  BY Zenon DEF GraphInv, HasRing
<1>2. PICK c : IsRing(relationship, rels, first_relationship[n], n, m, c)
  BY <1>1, Zenon
<1>3. Cardinality(IncidentRels(n)) = m /\ IncidentRels(n) = {c[i] : i \in 1 .. m}
  BY <1>2, RingFits, Zenon
<1>4. m \in 0 .. 2
  BY <1>3
<1>5. /\ c \in [1 .. m -> rels]
      /\ \A i, j \in 1 .. m : c[i] = c[j] => i = j
      /\ \A i \in 1 .. m : NextOf(relationship, n, c[i]) = IF i = m THEN c[1] ELSE c[i + 1]
  BY <1>2, Zenon DEF IsRing
<1>6. \A i \in 1 .. m : c[i] \in Nat
  <2>1. rels \subseteq Nat
    BY SlotAssumption DEF GraphInv, RelIds
  <2> QED BY <1>5, <2>1, Zenon
<1>7. ASSUME NEW i \in 1 .. m, NEW j \in 1 .. m, i # j
      PROVE  NextOf(relationship, n, c[i]) = c[j] /\ NextOf(relationship, n, c[j]) = c[i] /\ c[i] # c[j]
  <2>1. (i = 1 /\ j = 2 /\ m = 2) \/ (i = 2 /\ j = 1 /\ m = 2)
    BY <1>4, <1>7
  <2> QED BY <2>1, <1>5
<1>8. ASSUME NEW x \in TurningBack(n), NEW y \in TurningBack(n) PROVE x = y
  <2>1. PICK i \in 1 .. m : x = c[i]
    BY <1>3, Zenon DEF TurningBack
  <2>2. PICK j \in 1 .. m : y = c[j]
    BY <1>3, Zenon DEF TurningBack
  <2>3. NextOf(relationship, n, x) <= x /\ NextOf(relationship, n, y) <= y
    BY Zenon DEF TurningBack, Next_, NextOf
  <2> QED BY <2>1, <2>2, <2>3, <1>6, <1>7
<1> QED BY <1>8, SizeAtMostOne, Zenon

\* Only the greatest is followed by a smaller one.
LEMMA AscendingOnce ==
    ASSUME NEW ids \in SUBSET Nat, IsFiniteSet(ids), NEW x \in ids, NextUp(ids, x) <= x
    PROVE  Rank(ids, x) = Cardinality(ids) - 1
<1>1. PICK m, k : m = Cardinality(ids) /\ k = Rank(ids, x)
  BY Zenon
<1>2. k \in 0 .. m - 1 /\ m \in Nat
  BY <1>1, RankApart, FS_CardinalityType, Zenon
<1>3. SUFFICES ASSUME k # m - 1 PROVE FALSE
  BY <1>1, Zenon
<1>4. k + 1 \in 0 .. m - 1
  BY <1>2, <1>3
<1>5. PICK y : y = Nth(ids, k + 1)
  BY Zenon
<1>6. y \in ids /\ Rank(ids, y) = k + 1
  BY <1>1, <1>4, <1>5, NthRight, Zenon
<1>7. NextUp(ids, x) = y
  BY <1>1, <1>3, <1>5, Zenon DEF NextUp
<1>8. x < y
  BY <1>1, <1>2, <1>6, RankApart
<1> QED BY <1>6, <1>7, <1>8

SortInv ==
    call.op = "sort" => /\ call = [op |-> "sort", todo |-> call.todo]
                        /\ call.todo \subseteq nodes
                        /\ NoLoops

\* One node after the other gets its chain sorted, the others keep theirs.
LEMMA SortChainKeeps ==
    ASSUME GraphInv, SortInv, SortedSoFar, SortChain
    PROVE  GraphInv' /\ SortInv' /\ SortedSoFar'
<1>1. PICK n : n = CHOOSE x \in call.todo : \A y \in call.todo : x <= y
  BY Zenon
<1>2. PICK ids : ids = ExpandSet(n, "BOTH")
  BY Zenon
<1>3. /\ call.op = "sort" /\ call.todo # {}
      /\ relationship' = [r \in RelIds |-> IF r \in ids /\ Cardinality(ids) >= 3 THEN Sorted(r, n, ids)
                                                                              ELSE relationship[r]]
      /\ call' = [call EXCEPT !.todo = @ \ {n}]
      /\ UNCHANGED <<nodes, rels, first_relationship>>
  <2> DEFINE m == CHOOSE x \in call.todo : \A y \in call.todo : x <= y
             all == ExpandSet(m, "BOTH")
  <2>1. /\ call.op = "sort" /\ call.todo # {}
        /\ relationship' = [r \in RelIds |-> IF r \in all /\ Cardinality(all) >= 3 THEN Sorted(r, m, all)
                                                                                ELSE relationship[r]]
        /\ call' = [call EXCEPT !.todo = @ \ {m}]
        /\ UNCHANGED <<nodes, rels, first_relationship>>
    BY Zenon DEF SortChain
  <2>2. m = n /\ all = ids
    BY <1>1, <1>2, Zenon
  <2> HIDE DEF m, all
  <2> QED BY <2>1, <2>2, Zenon
<1>4. call = [op |-> "sort", todo |-> call.todo] /\ call.todo \subseteq nodes /\ NoLoops
  BY <1>3, Zenon DEF SortInv
<1>5. call' = [op |-> "sort", todo |-> call.todo \ {n}]
  BY <1>3, <1>4, Zenon
<1>6. n \in call.todo /\ n \in nodes
  <2>1. call.todo \in SUBSET Nat
    BY <1>4, SlotAssumption DEF GraphInv, NodeIds
  <2>2. \E x \in call.todo : \A y \in call.todo : x <= y
    BY <2>1, <1>3, LeastElement, Zenon
  <2> QED BY <2>2, <1>1, <1>4, Zenon
<1>7. ids = IncidentRels(n)
  BY <1>2, <1>6, ExpandSetRight, Zenon
<1>8. call'.op = "sort" /\ call'.todo = call.todo \ {n}
  BY <1>5, Zenon
<1>9. call'.todo \subseteq nodes' /\ call' = [op |-> "sort", todo |-> call'.todo]
  BY <1>3, <1>4, <1>5, Zenon
<1>10. \A p \in nodes \ call.todo : Cardinality(TurningBack(p)) <= 1
  BY <1>3, Zenon DEF SortedSoFar, TurningBack
<1>11. CASE Cardinality(ids) >= 3
  <2>1. relationship' = [r \in RelIds |-> IF r \in ids THEN Sorted(r, n, ids) ELSE relationship[r]]
    BY <1>3, <1>11, Zenon
  <2>2. /\ GraphInv' /\ NoLoops'
        /\ \A p \in nodes, s \in rels : EndOf(relationship', p, s) <=> EndOf(relationship, p, s)
        /\ \A s \in ids : NextOf(relationship', n, s) = NextUp(ids, s)
        /\ \A p \in nodes \ {n}, s \in rels :
              EndOf(relationship, p, s) => NextOf(relationship', p, s) = NextOf(relationship, p, s)
    BY <2>1, <1>3, <1>4, <1>6, <1>7, <1>11, SortRings
  <2>3. ASSUME NEW p \in nodes
        PROVE  TurningBack(p)' = {r \in IncidentRels(p) : NextOf(relationship', p, r) <= r}
    <3>1. TurningBack(p)' = {r \in rels : EndOf(relationship', p, r) /\ NextOf(relationship', p, r) <= r}
      BY <1>3, Zenon DEF TurningBack, IncidentRels, Incident, EndOf, Next_, NextOf
    <3>2. IncidentRels(p) = {r \in rels : EndOf(relationship, p, r)}
      BY Zenon DEF IncidentRels, Incident, EndOf
    <3> QED BY <3>1, <3>2, <2>2, Zenon
  <2>4. Cardinality(TurningBack(n)') <= 1
    <3>1. TurningBack(n)' = {r \in ids : NextUp(ids, r) <= r}
      <4>1. TurningBack(n)' = {r \in ids : NextOf(relationship', n, r) <= r}
        BY <2>3, <1>6, <1>7, Zenon
      <4>2. \A r \in ids : NextOf(relationship', n, r) = NextUp(ids, r)
        BY <2>2, Zenon
      <4> QED BY <4>1, <4>2, Zenon
    <3>2. ids \in SUBSET Nat /\ IsFiniteSet(ids)
      <4>1. PICK m \in Nat : \E c : IsRing(relationship, rels, first_relationship[n], n, m, c)
        BY <1>6, Zenon DEF GraphInv, HasRing
      <4>2. IsFiniteSet(rels)
        BY <4>1, RingFits, Zenon
      <4>3. ids \subseteq rels
        BY <1>7, Zenon DEF IncidentRels
      <4>4. ids \subseteq Nat
        BY <4>3, SlotAssumption DEF GraphInv, RelIds
      <4> QED BY <4>2, <4>3, <4>4, FS_Subset, Zenon
    <3>3. ASSUME NEW x \in TurningBack(n)', NEW y \in TurningBack(n)' PROVE x = y
      <4>1. /\ x \in ids /\ Rank(ids, x) = Cardinality(ids) - 1
            /\ y \in ids /\ Rank(ids, y) = Cardinality(ids) - 1
        BY <3>1, <3>2, AscendingOnce, Zenon
      <4> QED BY <3>2, <4>1, RankApart, Zenon
    <3> QED BY <3>3, SizeAtMostOne, Zenon
  <2>5. ASSUME NEW p \in nodes \ call.todo, p # n PROVE TurningBack(p)' = TurningBack(p)
    <3>1. TurningBack(p) = {r \in IncidentRels(p) : NextOf(relationship, p, r) <= r}
      BY Zenon DEF TurningBack, Next_, NextOf
    <3>2. \A r \in IncidentRels(p) : NextOf(relationship', p, r) = NextOf(relationship, p, r)
      BY <2>2, <2>5, Zenon DEF IncidentRels, Incident, EndOf
    <3> QED BY <3>1, <3>2, <2>3, Zenon
  <2>6. \A p \in nodes' \ call'.todo : Cardinality(TurningBack(p)') <= 1
    <3>1. \A p \in nodes \ call.todo : p # n => Cardinality(TurningBack(p)') <= 1
      BY <1>10, <2>5, Zenon
    <3>2. nodes' \ call'.todo \subseteq (nodes \ call.todo) \cup {n}
      BY <1>3, <1>8, Zenon
    <3> QED BY <2>4, <3>1, <3>2, Zenon
  <2>7. SortedSoFar'
    BY <2>6, Zenon DEF SortedSoFar, TurningBack
  <2> QED BY <1>8, <1>9, <2>2, <2>7, Zenon DEF SortInv
<1>12. CASE ~(Cardinality(ids) >= 3)
  <2>1. relationship' = relationship
    BY <1>3, <1>12, Zenon DEF GraphInv
  <2>2. GraphInv' /\ NoLoops'
    BY <1>3, <1>4, <2>1, SameGraphInv, Zenon DEF NoLoops
  <2>3. \A p : TurningBack(p)' = TurningBack(p)
    BY <1>3, <2>1, Zenon DEF TurningBack, IncidentRels, Incident, Next_
  <2>4. Cardinality(TurningBack(n)) <= 1
    BY <1>6, <1>7, <1>12, ShortChain, Zenon
  <2>5. \A p \in nodes' \ call'.todo : Cardinality(TurningBack(p)') <= 1
    BY <1>3, <1>8, <1>10, <2>3, <2>4, Zenon
  <2>6. SortedSoFar'
    BY <2>5, Zenon DEF SortedSoFar, TurningBack
  <2> QED BY <1>8, <1>9, <2>2, <2>6, Zenon DEF SortInv
<1> QED BY <1>11, <1>12, Zenon

==============================================================================
