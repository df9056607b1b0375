--------------------------------- MODULE Reorder ---------------------------------
(***************************************************************************)
(* src/order/reorder_records.c and src/order/random_order.c on the graph   *)
(* of HeapFile: records change their slots, and with them their ids, and   *)
(* incidence chains are sorted.  swap_nodes and swap_relationships are one *)
(* step each; reorder_nodes, reorder_relationships, swap_record_pages and  *)
(* sort_incidence_list are loops, one turn a step, in the variable call.   *)
(***************************************************************************)
EXTENDS HeapFile

CONSTANTS
    MaxNodes, MaxRecords,  \* bounds: nodes, and records of both kinds, in the file
    MaxChanges,            \* bound: deletions and calls of this module
    Callers                \* what is asked of this module: "any", or "safe", see
                           \* SafeSwap, SafeSequence and SafeSort

VARIABLES
    call,     \* the call in progress
    changes   \* ghost: how many calls there were

reorderVars == <<vars, call, changes>>
graphVars   == <<nodes, rels, first_relationship, relationship>>
fileVars    == <<last_alloc_node_id, last_alloc_rel_id, n_nodes, n_rels, node_pages, rel_pages, deleting>>

NoCall == [op |-> "none"]

Exchange(x, a, b) == IF x = a THEN b ELSE IF x = b THEN a ELSE x

ExpandSet(n, d) == LET e == Expand(n, d) IN {e[i] : i \in DOMAIN e}

------------------------------------------------------------------------------
(* swap_nodes *)

\* Mutant: the relationships of the second node are forgotten.
RewrittenFirstOnly(fst, snd) ==
    IF fst \in nodes THEN ExpandSet(fst, "BOTH") ELSE {}

\* The relationships whose ends are rewritten: none if the second slot is free.
Rewritten(fst, snd) ==
    IF snd \notin nodes THEN {}
    ELSE ExpandSet(snd, "BOTH") \cup (IF fst \in nodes THEN ExpandSet(fst, "BOTH") ELSE {})

\* The header bits and the records change places.
SwapNodes(fst, snd) ==
    LET rewritten == Rewritten(fst, snd) IN
    IF fst = snd \/ {fst, snd} \cap nodes = {} THEN UNCHANGED graphVars
    ELSE
    /\ nodes' = {Exchange(n, fst, snd) : n \in nodes}
    /\ first_relationship' =
          [n \in NodeIds |-> IF n \in {fst, snd} /\ Exchange(n, fst, snd) \in nodes
                             THEN first_relationship[Exchange(n, fst, snd)]
                             ELSE first_relationship[n]]
    /\ relationship' =
          [r \in RelIds |-> IF r \in rewritten
                            THEN [relationship[r] EXCEPT !.source = Exchange(@, fst, snd),
                                                         !.target = Exchange(@, fst, snd)]
                            ELSE relationship[r]]
    /\ UNCHANGED rels

\* Unless the first node is moved to a free slot, its relationships follow.
SafeSwap(fst, snd) == fst \in nodes => snd \in nodes

------------------------------------------------------------------------------
(* swap_relationships *)

LinksOf(r)   == {relationship[r].prev_source, relationship[r].next_source,
                 relationship[r].prev_target, relationship[r].next_target}
NodesOf(r)   == {relationship[r].source, relationship[r].target}

\* Mutant: the neighbours in the chain of the target are forgotten.
RelinkedOfSource(fst, snd) ==
    LET touched == UNION {{relationship[r].prev_source, relationship[r].next_source} :
                             r \in {fst, snd} \cap rels} IN
    [r \in RelIds |->
        IF r \in touched
        THEN [relationship[r] EXCEPT !.prev_source = Exchange(@, fst, snd),
                                     !.next_source = Exchange(@, fst, snd),
                                     !.prev_target = Exchange(@, fst, snd),
                                     !.next_target = Exchange(@, fst, snd)]
        ELSE relationship[r]]

\* The records after the neighbours of both were rewritten.
Relinked(fst, snd) ==
    LET touched == UNION {LinksOf(r) : r \in {fst, snd} \cap rels} IN
    [r \in RelIds |->
        IF r \in touched
        THEN [relationship[r] EXCEPT !.prev_source = Exchange(@, fst, snd),
                                     !.next_source = Exchange(@, fst, snd),
                                     !.prev_target = Exchange(@, fst, snd),
                                     !.next_target = Exchange(@, fst, snd)]
        ELSE relationship[r]]

\* Both are read again, then their bits and records change places.
SwapRelationships(fst, snd) ==
    LET relinked == Relinked(fst, snd) IN
    IF fst = snd \/ {fst, snd} \cap rels = {} THEN UNCHANGED graphVars
    ELSE
    /\ rels' = {Exchange(r, fst, snd) : r \in rels}
    /\ relationship' =
          [r \in RelIds |->
              LET from == Exchange(r, fst, snd) IN
              IF r \notin {fst, snd} \/ from \in rels THEN relinked[from] ELSE NoRel]
    /\ first_relationship' =
          [n \in NodeIds |-> IF n \in UNION {NodesOf(r) : r \in {fst, snd} \cap rels}
                             THEN Exchange(first_relationship[n], fst, snd)
                             ELSE first_relationship[n]]
    /\ UNCHANGED nodes

------------------------------------------------------------------------------
(* A file type, "node" or "rel" *)

Ids(ft)   == IF ft = "node" THEN nodes ELSE rels
Slots(ft) == IF ft = "node" THEN 1 ELSE SlotsPerRel
Count(ft) == IF ft = "node" THEN n_nodes ELSE n_rels
Pages(ft) == IF ft = "node" THEN node_pages ELSE rel_pages

Swap(ft, fst, snd) == IF ft = "node" THEN SwapNodes(fst, snd) ELSE SwapRelationships(fst, snd)

CanSwap(ft, fst, snd) == Callers = "any" \/ ft = "rel" \/ SafeSwap(fst, snd)

\* A call starts when none is in progress; the bound ends the series of calls.
MayCall == Ready /\ call = NoCall /\ changes < MaxChanges

SwapRecords(ft, fst, snd) ==
    /\ MayCall
    /\ {fst, snd} \subseteq {i \in 0 .. Pages(ft) * SlotsPerPage - 1 : i % Slots(ft) = 0}
    /\ CanSwap(ft, fst, snd)
    /\ Swap(ft, fst, snd)
    /\ changes' = changes + 1
    /\ UNCHANGED <<fileVars, status, call>>

\* swap_record_pages.
SwapRecordPages(ft, fst, snd) ==
    /\ MayCall
    /\ {fst, snd} \subseteq 0 .. Pages(ft) - 1 /\ fst # snd
    /\ \A i \in 0 .. SlotsPerPage - 1 : i % Slots(ft) = 0 =>
          CanSwap(ft, fst * SlotsPerPage + i, snd * SlotsPerPage + i)
    /\ call' = [op |-> "pages", ft |-> ft, fst |-> fst, snd |-> snd, i |-> 0]
    /\ changes' = changes + 1
    /\ UNCHANGED vars

SwapSlot ==
    LET next == call.i + Slots(call.ft) IN
    /\ call.op = "pages"
    /\ Swap(call.ft, call.fst * SlotsPerPage + call.i, call.snd * SlotsPerPage + call.i)
    /\ call' = IF next < SlotsPerPage THEN [call EXCEPT !.i = next] ELSE NoCall
    /\ UNCHANGED <<fileVars, status, changes>>

------------------------------------------------------------------------------
(* identity_node_order, random_node_order and those for relationships *)

Nth(ids, k) == CHOOSE x \in ids : Cardinality({y \in ids : y < x}) = k

Identity(ids) == [x \in ids |-> x]

Exchanged(f, x, y) == [f EXCEPT ![x] = f[y], ![y] = f[x]]

\* The dictionaries the loop can produce, whatever rand() returns.
RandomOrders(ids) ==
    LET n == Cardinality(ids)
        orders[k \in 0 .. n] ==
            IF k = 0 THEN {Identity(ids)}
            ELSE {Exchanged(f, Nth(ids, k - 1), y) : f \in orders[k - 1], y \in ids}
    IN  orders[n]

------------------------------------------------------------------------------
(* reorder_nodes, reorder_relationships *)

InverseOf(f) == [y \in {f[x] : x \in DOMAIN f} |-> CHOOSE x \in DOMAIN f : f[x] = y]

\* Mutant: the record that had the slot keeps its entry.
NewIdsStale(ids, old, new) == [x \in DOMAIN ids \ {old} |-> ids[x]]

\* new_ids and inverse_new_ids when the record at old has changed places with the
\* one at new: new is done, and what was at new is now at old.
NewIdsAfter(ids, old, new) ==
    [x \in DOMAIN ids \ {new} |-> IF x = old THEN ids[new] ELSE ids[x]]

InverseAfter(inverse, ids, old, new) ==
    [y \in DOMAIN inverse \ {new} |-> IF old # new /\ y = ids[new] THEN old ELSE inverse[y]]

\* Mutant: the slots start again but the page is not turned.
PositionOnPage(at, slots) ==
    IF (at % SlotsPerPage) + slots >= SlotsPerPage - 1 THEN (at \div SlotsPerPage) * SlotsPerPage
    ELSE at + slots

\* The page is turned when cur_slot + slots >= UCHAR_MAX, the last slot of a page.
NextPosition(at, slots) ==
    IF (at % SlotsPerPage) + slots >= SlotsPerPage - 1 THEN (at \div SlotsPerPage + 1) * SlotsPerPage
    ELSE at + slots

Graph == [nodes |-> nodes, rels |-> rels, first |-> first_relationship, relationship |-> relationship]

\* want and before, what was asked and of which graph, and moved, where each
\* record has come to, are ghosts; grouped says that the order is that of the nodes.
Reorder(ft, new_ids, grouped) ==
    [op |-> IF Count(ft) = 0 THEN "done" ELSE "reorder", ft |-> ft, grouped |-> grouped,
     ids |-> new_ids, inverse |-> InverseOf(new_ids), i |-> 0, at |-> 0,
     want |-> new_ids, moved |-> Identity(DOMAIN new_ids), before |-> Graph]

\* The loop ends when no entry is left or as many slots as records were visited.
Advanced(c) ==
    IF DOMAIN c.ids = {} \/ c.i + 1 = Count(c.ft) THEN [c EXCEPT !.op = "done"]
    ELSE [c EXCEPT !.i = @ + 1, !.at = NextPosition(@, Slots(c.ft))]

TurnPast ==
    /\ status = "up" /\ call.op = "reorder"
    /\ call.at \notin DOMAIN call.inverse
    /\ call' = Advanced(call)
    /\ UNCHANGED <<vars, changes>>

\* Mutant: the record is taken from where it was when the loop began.
TurnSwapOriginal ==
    LET new == call.at
        old == call.inverse[new]
    IN
    /\ status = "up" /\ call.op = "reorder"
    /\ new \in DOMAIN call.inverse
    /\ old = new \/ new \in DOMAIN call.ids
    /\ Swap(call.ft, InverseOf(call.want)[new], new)
    /\ call' = Advanced([call EXCEPT !.ids = NewIdsAfter(@, old, new),
                                     !.inverse = InverseAfter(@, call.ids, old, new),
                                     !.moved = [x \in DOMAIN @ |-> Exchange(@[x], old, new)]])
    /\ UNCHANGED <<fileVars, status, changes>>

TurnSwap ==
    LET new == call.at
        old == call.inverse[new]
    IN
    /\ status = "up" /\ call.op = "reorder"
    /\ new \in DOMAIN call.inverse
    /\ old = new \/ new \in DOMAIN call.ids
    /\ Swap(call.ft, old, new)
    /\ call' = Advanced([call EXCEPT !.ids = NewIdsAfter(@, old, new),
                                     !.inverse = InverseAfter(@, call.ids, old, new),
                                     !.moved = [x \in DOMAIN @ |-> Exchange(@[x], old, new)]])
    /\ UNCHANGED <<fileVars, status, changes>>

\* dict_ul_ul_get_direct ends the process: no record was to leave the slot.
TurnFails ==
    LET new == call.at IN
    /\ status = "up" /\ call.op = "reorder"
    /\ new \in DOMAIN call.inverse
    /\ call.inverse[new] # new /\ new \notin DOMAIN call.ids
    /\ Swap(call.ft, call.inverse[new], new)
    /\ status' = "bad call"
    /\ call' = NoCall
    /\ UNCHANGED <<fileVars, changes>>

Return ==
    /\ call.op = "done"
    /\ call' = NoCall
    /\ UNCHANGED <<vars, changes>>

BeginReorder(ft, new_ids, grouped) ==
    /\ MayCall
    /\ call' = Reorder(ft, new_ids, grouped)
    /\ changes' = changes + 1
    /\ UNCHANGED vars

ReorderRandomly(ft) == \E new_ids \in RandomOrders(Ids(ft)) : BeginReorder(ft, new_ids, FALSE)

------------------------------------------------------------------------------
(* reorder_nodes_by_sequence and those for relationships *)

\* The ids a temporary heap file hands out one after the other.
DenseIds(ft) == {k * Slots(ft) : k \in 0 .. Count(ft) - 1}
Dense(ft)    == Ids(ft) = DenseIds(ft)

\* A node goes to a free slot, without its relationships, if there is a gap.
SafeSequence(ft) == Callers = "any" \/ ft = "rel" \/ Dense(ft)

\* The number of records before each one in a sequence of all of them.
Ranks(ft) == {f \in [Ids(ft) -> 0 .. Count(ft) - 1] : \A x, y \in Ids(ft) : f[x] = f[y] => x = y}

BySequence(ft, rank, grouped) ==
    /\ SafeSequence(ft)
    /\ n_rels > 0
    /\ BeginReorder(ft, [x \in Ids(ft) |-> rank[x] * Slots(ft)], grouped)

\* Without a relationship the cache of the temporary file has no frame: pin_page
\* ends the process.
BySequenceFails ==
    /\ MayCall
    /\ n_rels = 0
    /\ Exit("bad call")
    /\ changes' = changes + 1
    /\ UNCHANGED call

\* Mutant: the relationships of a node are those that lead to it.
RankByTarget(r) ==
    LET out(n) == Expand(n, "INCOMING") IN
    Cardinality({p \in nodes \X (0 .. n_rels) : p[1] < relationship[r].target /\ p[2] \in DOMAIN out(p[1])})
    + CHOOSE i \in DOMAIN out(relationship[r].target) : out(relationship[r].target)[i] = r

\* The outgoing relationships of one node after the other.
RankByNodes(r) ==
    LET out(n) == Expand(n, "OUTGOING") IN
    Cardinality({p \in nodes \X (0 .. n_rels) : p[1] < relationship[r].source /\ p[2] \in DOMAIN out(p[1])})
    + CHOOSE i \in DOMAIN out(relationship[r].source) : out(relationship[r].source)[i] = r

ByNodes == BySequence("rel", [r \in rels |-> RankByNodes(r)], TRUE)

------------------------------------------------------------------------------
(* sort_incidence_list *)

SafeSort == Callers = "any" \/ \A r \in rels : relationship[r].source # relationship[r].target

SortIncidenceList ==
    /\ MayCall
    /\ SafeSort
    /\ call' = [op |-> "sort", todo |-> nodes]
    /\ changes' = changes + 1
    /\ UNCHANGED vars

\* Mutant: the side is chosen by the target.
SortedSideByTarget(r, n, ids) ==
    LET k    == CHOOSE i \in 0 .. Cardinality(ids) - 1 : Nth(ids, i) = r
        prev == Nth(ids, (k - 1) % Cardinality(ids))
        next == Nth(ids, (k + 1) % Cardinality(ids))
    IN  IF relationship[r].source # n
        THEN [relationship[r] EXCEPT !.prev_source = prev, !.next_source = next]
        ELSE [relationship[r] EXCEPT !.prev_target = prev, !.next_target = next]

\* A self loop has only the links of its source side set.
Sorted(r, n, ids) ==
    LET k    == CHOOSE i \in 0 .. Cardinality(ids) - 1 : Nth(ids, i) = r
        prev == Nth(ids, (k - 1) % Cardinality(ids))
        next == Nth(ids, (k + 1) % Cardinality(ids))
    IN  IF relationship[r].source = n
        THEN [relationship[r] EXCEPT !.prev_source = prev, !.next_source = next]
        ELSE [relationship[r] EXCEPT !.prev_target = prev, !.next_target = next]

\* The first relationship of the node stays what it was.
SortChain ==
    LET n   == CHOOSE x \in call.todo : \A y \in call.todo : x <= y
        ids == ExpandSet(n, "BOTH")
    IN
    /\ call.op = "sort" /\ call.todo # {}
    /\ relationship' =
          [r \in RelIds |-> IF r \in ids /\ Cardinality(ids) >= 3 THEN Sorted(r, n, ids)
                                                                  ELSE relationship[r]]
    /\ call' = [call EXCEPT !.todo = @ \ {n}]
    /\ UNCHANGED <<nodes, rels, first_relationship, fileVars, status, changes>>

SortReturns ==
    /\ call = [op |-> "sort", todo |-> {}]
    /\ call' = NoCall
    /\ UNCHANGED <<vars, changes>>

------------------------------------------------------------------------------
Build ==
    /\ call = NoCall
    /\ \/ n_nodes < MaxNodes /\ n_nodes + n_rels < MaxRecords /\ CreateNode
       \/ n_nodes + n_rels < MaxRecords /\ \E from, to \in NodeIds : CreateRelationship(from, to)
       \/ DeleteNext
       \/ DeleteLast
    /\ UNCHANGED <<call, changes>>

Remove ==
    /\ MayCall
    /\ \/ \E r \in RelIds : DeleteRelationship(r)
       \/ \E n \in NodeIds : DeleteNode(n)
    /\ changes' = changes + 1
    /\ UNCHANGED call

ReorderInit == Init /\ call = NoCall /\ changes = 0

ReorderNext ==
    \/ Build
    \/ Remove
    \/ \E ft \in {"node", "rel"} :
          \/ \E fst, snd \in NodeIds \cup RelIds : SwapRecords(ft, fst, snd)
          \/ \E fst, snd \in 0 .. NodePages + RelPages : SwapRecordPages(ft, fst, snd)
          \/ ReorderRandomly(ft)
          \/ \E rank \in Ranks(ft) : BySequence(ft, rank, FALSE)
    \/ ByNodes
    \/ BySequenceFails
    \/ SwapSlot
    \/ TurnPast \/ TurnSwap \/ TurnFails \/ Return
    \/ SortIncidenceList \/ SortChain \/ SortReturns

ReorderSpec == ReorderInit /\ [][ReorderNext]_reorderVars

------------------------------------------------------------------------------
(* Properties *)

Applied(m, x) == IF x \in DOMAIN m THEN m[x] ELSE x

\* Reordering only renames records: at every turn of the loop the graph is the
\* one the call began with, with the ids that were moved so far replaced wherever
\* they occur, in the chains of other records too.
OnlyRenamed ==
    call.op \in {"reorder", "done"} =>
        LET b    == call.before
            N(x) == IF call.ft = "node" THEN Applied(call.moved, x) ELSE x
            R(x) == IF call.ft = "rel" THEN Applied(call.moved, x) ELSE x
        IN
        /\ nodes = {N(n) : n \in b.nodes}
        /\ rels = {R(r) : r \in b.rels}
        /\ \A n \in b.nodes : first_relationship[N(n)] = R(b.first[n])
        /\ \A r \in b.rels : LET rel == b.relationship[r] IN
              relationship[R(r)] =
                 [source |-> N(rel.source), target |-> N(rel.target),
                  prev_source |-> R(rel.prev_source), next_source |-> R(rel.next_source),
                  prev_target |-> R(rel.prev_target), next_target |-> R(rel.next_target)]

Injective(f) == \A x, y \in DOMAIN f : f[x] = f[y] => x = y

\* No two records are to go to the same slot.  The two dictionaries of the loop
\* stay inverse to each other, as the assertion on their sizes in
\* reorder_relationships has it, and an entry says of the record that is at its
\* key where it was asked to go, wherever it came from.
EntriesTrue ==
    call.op = "reorder" =>
        /\ Injective(call.ids) /\ call.inverse = InverseOf(call.ids)
        /\ \A x \in DOMAIN call.want :
              IF call.moved[x] \in DOMAIN call.ids THEN call.ids[call.moved[x]] = call.want[x]
                                                   ELSE call.moved[x] = call.want[x]

\* The ids asked for are those of a file without gaps.
AskedDense ==
    /\ DOMAIN call.want = DenseIds(call.ft)
    /\ {call.want[x] : x \in DOMAIN call.want} = DenseIds(call.ft)

\* reorganize_records_test.c compares every record with the one at its new place:
\* when the loop is done every record is where the caller asked it to be.
PlacedAsAsked == call.op = "done" /\ AskedDense => call.moved = call.want

\* The same as long as at most one of the nodes is in the last slot of a page,
\* which the loop over the nodes never visits.
PlacedUnlessSkipped ==
    /\ call.op = "done" /\ AskedDense
    /\ call.ft = "node" => Cardinality({x \in nodes : x % SlotsPerPage = SlotsPerPage - 1}) <= 1
    => call.moved = call.want

\* After reorder_relationships_by_nodes the file holds the relationships in the
\* order of their sources.
GroupedBySource ==
    call.op = "done" /\ call.grouped /\ AskedDense =>
        \A r, s \in rels : r < s => relationship[r].source <= relationship[s].source

\* README.md says of sort_incidence_list that "the relationship with the lowest id
\* appears first and so on", and reorganize_records_test.c compares the ids that
\* expand returns after it: they ascend.
SortedAsExpanded ==
    call = [op |-> "sort", todo |-> {}] => \A n \in nodes :
        LET out == Expand(n, "BOTH") IN \A i, j \in DOMAIN out : i < j => out[i] < out[j]

\* The part of this that sort_incidence_list does bring about: the chain of a node it
\* is done with ascends once around the ring, from the lowest id.  Where expand enters
\* the ring is left as it was, see SortedAsExpanded.
SortedSoFar ==
    call.op = "sort" => \A n \in nodes \ call.todo :
        Cardinality({r \in IncidentRels(n) : Next_(n, r) <= r}) <= 1
==============================================================================
