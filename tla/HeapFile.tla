-------------------------------- MODULE HeapFile --------------------------------
(***************************************************************************)
(* The graph of src/access/heap_file.c: node and relationship records in   *)
(* numbered slots, the header bits that say which slots are in use, and    *)
(* the incidence chains.  A chain is a ring through all relationships of a *)
(* node; every relationship is in the chain of its source and in that of   *)
(* its target and has a prev and a next for each.                          *)
(*                                                                         *)
(* A record is reached through the page cache, whose work is PageCache's   *)
(* subject.  Labels, weights and the counters of reads and updates are     *)
(* left out.                                                               *)
(***************************************************************************)
EXTENDS Integers, Sequences, FiniteSets

CONSTANTS
    SlotsPerPage,  \* SLOTS_PER_PAGE
    SlotsPerRel,   \* NUM_SLOTS_PER_REL; a node takes one slot
    NodePages,     \* bound: pages of node records
    RelPages,      \* bound: pages of relationship records
    Deletions      \* what callers delete: "none", "repaired", see Repaired, "any"

ASSUME SlotAssumption ==
    /\ SlotsPerPage \in Nat \ {0}
    /\ SlotsPerRel \in Nat \ {0}
    /\ SlotsPerPage % SlotsPerRel = 0
    /\ NodePages \in Nat
    /\ RelPages \in Nat
    /\ Deletions \in {"none", "repaired", "any"}

NoId    == -1  \* UNINITIALIZED_LONG
NodeIds == 0 .. NodePages * SlotsPerPage - 1
RelIds  == {i \in 0 .. RelPages * SlotsPerPage - 1 : i % SlotsPerRel = 0}

VARIABLES
    nodes, rels,                            \* the ids whose header bits are set
    first_relationship,                     \* of every node record
    relationship,                           \* the relationship records
    last_alloc_node_id, last_alloc_rel_id,
    n_nodes, n_rels,
    node_pages, rel_pages,                  \* num_pages of the record files
    deleting,                               \* the delete_node in progress
    status                                  \* "up", or how the process ended

nodeVars == <<nodes, last_alloc_node_id, n_nodes, node_pages>>
relVars  == <<rels, relationship, last_alloc_rel_id, n_rels, rel_pages>>
vars     == <<nodeVars, relVars, first_relationship, deleting, status>>

Links   == RelIds \cup {NoId}
Records == [source : NodeIds \cup {NoId}, target : NodeIds \cup {NoId},
            prev_source : Links, next_source : Links,
            prev_target : Links, next_target : Links]
NoRel   == [source |-> NoId, target |-> NoId, prev_source |-> NoId,
            next_source |-> NoId, prev_target |-> NoId, next_target |-> NoId]
Idle    == [node |-> NoId, prev |-> NoId, last |-> NoId]

TypeOK ==
    /\ nodes \subseteq NodeIds
    /\ rels \subseteq RelIds
    /\ first_relationship \in [NodeIds -> Links]
    /\ relationship \in [RelIds -> Records]
    /\ last_alloc_node_id \in NodeIds \cup {0}
    /\ last_alloc_rel_id \in RelIds \cup {0}
    /\ n_nodes \in Nat
    /\ n_rels \in Nat
    /\ node_pages \in 0 .. NodePages
    /\ rel_pages \in 0 .. RelPages
    /\ deleting \in [node : NodeIds \cup {NoId}, prev : Links, last : Links]
    /\ status \in {"up", "bad call", "dangling"}

------------------------------------------------------------------------------
(* next_free_slots *)

\* Mutant: the search begins behind the last allocated slot.
FreeSlotBehind(last, ids, used, pages) ==
    LET free == {i \in ids \ used : last < i /\ i < pages * SlotsPerPage} IN
    IF free = {} THEN pages * SlotsPerPage
    ELSE CHOOSE i \in free : \A j \in free : i <= j

\* The first free slot from the last allocated one on, or the first slot of a
\* new page.
FreeSlot(last, ids, used, pages) ==
    LET free == {i \in ids \ used : last <= i /\ i < pages * SlotsPerPage} IN
    IF free = {} THEN pages * SlotsPerPage
    ELSE CHOOSE i \in free : \A j \in free : i <= j

FreeNode == FreeSlot(last_alloc_node_id, NodeIds, nodes, node_pages)
FreeRel  == FreeSlot(last_alloc_rel_id, RelIds, rels, rel_pages)

\* Mutant: a page is added whether there is a free slot or not.
PagesAlwaysGrow(id, pages) == pages + 1

PagesFor(id, pages) == IF id < pages * SlotsPerPage THEN pages ELSE pages + 1

\* Mutant: a deleted slot below the last allocated one is forgotten.
MinimumForgotten(a, b) == b

Minimum(a, b) == IF a < b THEN a ELSE b

Ready == status = "up" /\ deleting = Idle

\* exit(EXIT_FAILURE).
Exit(reason) ==
    /\ status' = reason
    /\ UNCHANGED <<nodeVars, relVars, first_relationship, deleting>>

CreateNode ==
    /\ Ready
    /\ FreeNode \in NodeIds
    /\ nodes' = nodes \cup {FreeNode}
    /\ first_relationship' = [first_relationship EXCEPT ![FreeNode] = NoId]
    /\ last_alloc_node_id' = FreeNode
    /\ n_nodes' = n_nodes + 1
    /\ node_pages' = PagesFor(FreeNode, node_pages)
    /\ UNCHANGED <<relVars, deleting, status>>

------------------------------------------------------------------------------
(* Chains *)

Prev(n, r) == IF relationship[r].source = n THEN relationship[r].prev_source
                                            ELSE relationship[r].prev_target
Next_(n, r) == IF relationship[r].source = n THEN relationship[r].next_source
                                             ELSE relationship[r].next_target

\* The records f, where the next (prev) of r in the chain of n becomes v.
SetNext(f, r, n, v) ==
    [f EXCEPT ![r].next_source = IF f[r].source = n THEN v ELSE @,
              ![r].next_target = IF f[r].target = n THEN v ELSE @]

SetPrev(f, r, n, v) ==
    [f EXCEPT ![r].prev_source = IF f[r].source = n THEN v ELSE @,
              ![r].prev_target = IF f[r].target = n THEN v ELSE @]

\* The ends of the chain of n, which are r itself if r is the first.
FirstRel(n, r) == IF first_relationship[n] = NoId THEN r ELSE first_relationship[n]
LastRel(n, r)  == IF first_relationship[n] = NoId THEN r ELSE Prev(n, first_relationship[n])

\* The records after r = (from, to) was linked in at the end of both chains.
Linked(r, from, to) ==
    LET new == [source |-> from, target |-> to,
                prev_source |-> LastRel(from, r), next_source |-> FirstRel(from, r),
                prev_target |-> LastRel(to, r), next_target |-> FirstRel(to, r)]
        f1  == SetNext([relationship EXCEPT ![r] = new], LastRel(from, r), from, r)
        f2  == SetNext(f1, LastRel(to, r), to, r)
        f3  == SetPrev(f2, FirstRel(from, r), from, r)
    IN  SetPrev(f3, FirstRel(to, r), to, r)

\* The records read when the ends of the chain of n are looked up exist.
EndsExist(n) ==
    first_relationship[n] # NoId =>
        /\ first_relationship[n] \in rels
        /\ Prev(n, first_relationship[n]) \in rels

CreateRelationship(from, to) ==
    LET r == FreeRel IN
    /\ Ready
    /\ {from, to} \subseteq nodes
    /\ EndsExist(from) /\ EndsExist(to)
    /\ r \in RelIds
    /\ rels' = rels \cup {r}
    /\ relationship' = Linked(r, from, to)
    /\ first_relationship' =
          [n \in NodeIds |-> IF n \in {from, to} THEN FirstRel(n, r) ELSE first_relationship[n]]
    /\ last_alloc_rel_id' = r
    /\ n_rels' = n_rels + 1
    /\ rel_pages' = PagesFor(r, rel_pages)
    /\ UNCHANGED <<nodeVars, deleting, status>>

\* A chain leads to a relationship that was deleted.  What becomes of the graph
\* if its slot was handed out again meanwhile is not followed.
CreateRelationshipFails(from, to) ==
    /\ Ready
    /\ {from, to} \subseteq nodes
    /\ ~(EndsExist(from) /\ EndsExist(to))
    /\ Exit("dangling")

\* create_relationship, delete_node, delete_relationship or expand of a record
\* that does not exist.
BadCall == Ready /\ Exit("bad call")

------------------------------------------------------------------------------
(* delete_relationship, delete_node *)

\* Mutant: r is taken out of the chain of its source only.
UnlinkedFromSource(r) ==
    LET old == relationship[r]
        f1  == SetNext(relationship, old.prev_source, old.source, old.next_source)
    IN  IF r = old.prev_source THEN relationship
        ELSE SetPrev(f1, old.next_source, old.source, old.prev_source)

\* The records after r was taken out of both chains.  Nothing is done when r is
\* alone in the chain of its source, whatever the chain of its target is.
Unlinked(r) ==
    LET old == relationship[r]
        f1  == SetNext(relationship, old.prev_source, old.source, old.next_source)
        f2  == SetPrev(f1, old.next_source, old.source, old.prev_source)
        f3  == SetNext(f2, old.prev_target, old.target, old.next_target)
    IN  IF r = old.prev_source THEN relationship
        ELSE SetPrev(f3, old.next_target, old.target, old.prev_target)

\* Mutant: whether r was the first relationship is not asked.
FirstBehind(first, r, next) == IF next = r THEN NoId ELSE next

\* What a node has for a first relationship when r, followed by next, goes.
FirstWithout(first, r, next) ==
    IF first # r THEN first ELSE IF next = r THEN NoId ELSE next

NeighboursExist(r) ==
    LET old == relationship[r] IN
    /\ r # old.prev_source => {old.prev_source, old.next_source,
                               old.prev_target, old.next_target} \subseteq rels
    /\ {old.source, old.target} \subseteq nodes

\* delete_relationship.  A record whose bits are cleared is never read again.
Delete(r) ==
    LET old == relationship[r]
        f1  == [first_relationship EXCEPT ![old.source] = FirstWithout(@, r, old.next_source)]
    IN
    /\ relationship' = [Unlinked(r) EXCEPT ![r] = NoRel]
    /\ first_relationship' = [f1 EXCEPT ![old.target] = FirstWithout(@, r, old.next_target)]
    /\ rels' = rels \ {r}
    /\ last_alloc_rel_id' = Minimum(r, last_alloc_rel_id)
    /\ n_rels' = n_rels - 1
    /\ UNCHANGED <<nodeVars, rel_pages, status>>

\* Both chains are repaired when r is deleted: it is not alone in the chain of
\* its source, or alone in that of its target as well.
Repaired(r) == r = relationship[r].prev_source => r = relationship[r].prev_target

Deletable(r) == Deletions = "any" \/ (Deletions = "repaired" /\ Repaired(r))

DeleteRelationship(r) ==
    /\ Ready
    /\ r \in rels
    /\ Deletable(r)
    /\ NeighboursExist(r)
    /\ Delete(r)
    /\ UNCHANGED deleting

DeleteRelationshipFails(r) ==
    /\ Ready
    /\ r \in rels
    /\ Deletable(r)
    /\ ~NeighboursExist(r)
    /\ Exit("dangling")

\* delete_node begins behind the first relationship and goes backwards.
DeleteNode(n) ==
    LET first == first_relationship[n] IN
    /\ Ready
    /\ n \in nodes
    /\ Deletions # "none"
    /\ first \in rels \cup {NoId}
    /\ deleting' = [node |-> n, last |-> NoId,
                    prev |-> IF first = NoId THEN NoId ELSE Prev(n, first)]
    /\ UNCHANGED <<nodeVars, relVars, first_relationship, status>>

DeleteNodeFails(n) ==
    /\ Ready
    /\ n \in nodes
    /\ Deletions # "none"
    /\ first_relationship[n] \notin rels \cup {NoId}
    /\ Exit("dangling")

Incident(n, r) == n \in {relationship[r].source, relationship[r].target}

DeleteNext ==
    LET r == deleting.prev IN
    /\ status = "up"
    /\ deleting # Idle /\ r # deleting.last
    /\ r \in rels /\ Incident(deleting.node, r) /\ NeighboursExist(r)
    /\ Deletable(r)
    /\ Delete(r)
    /\ deleting' = [deleting EXCEPT !.last = r, !.prev = Prev(deleting.node, r)]

\* Mutant: the loop does not end at the relationship it deleted last.
DeleteNextAgain ==
    LET r == deleting.prev IN
    /\ status = "up"
    /\ deleting # Idle
    /\ ~(r \in rels /\ Incident(deleting.node, r) /\ NeighboursExist(r))
    /\ Exit("dangling")

DeleteNextFails ==
    LET r == deleting.prev IN
    /\ status = "up"
    /\ deleting # Idle /\ r # deleting.last
    /\ ~(r \in rels /\ Incident(deleting.node, r) /\ NeighboursExist(r))
    /\ Exit("dangling")

DeleteLast ==
    /\ status = "up"
    /\ deleting # Idle /\ deleting.prev = deleting.last
    /\ nodes' = nodes \ {deleting.node}
    /\ last_alloc_node_id' = Minimum(deleting.node, last_alloc_node_id)
    /\ n_nodes' = n_nodes - 1
    /\ deleting' = Idle
    /\ UNCHANGED <<node_pages, relVars, first_relationship, status>>

------------------------------------------------------------------------------
\* get_nodes, get_relationships: the slots are scanned page by page; the first
\* one is looked at even if there is no page.
GetNodes         == {i \in NodeIds : i \in nodes /\ (i = 0 \/ i < node_pages * SlotsPerPage)}
GetRelationships == {i \in RelIds : i \in rels /\ (i = 0 \/ i < rel_pages * SlotsPerPage)}

\* heap_file_create on the files a heap_file_destroy left: the records are
\* counted by reading them all.
Reopen ==
    /\ Ready
    /\ last_alloc_node_id' = 0
    /\ last_alloc_rel_id' = 0
    /\ n_nodes' = Cardinality(GetNodes)
    /\ n_rels' = Cardinality(GetRelationships)
    /\ UNCHANGED <<nodes, node_pages, rels, relationship, rel_pages,
                   first_relationship, deleting, status>>

Init ==
    /\ nodes = {} /\ rels = {}
    /\ first_relationship = [n \in NodeIds |-> NoId]
    /\ relationship = [r \in RelIds |-> NoRel]
    /\ last_alloc_node_id = 0 /\ last_alloc_rel_id = 0
    /\ n_nodes = 0 /\ n_rels = 0
    /\ node_pages = 0 /\ rel_pages = 0
    /\ deleting = Idle
    /\ status = "up"

Next ==
    \/ CreateNode
    \/ \E from, to \in NodeIds :
          CreateRelationship(from, to) \/ CreateRelationshipFails(from, to)
    \/ \E r \in RelIds : DeleteRelationship(r) \/ DeleteRelationshipFails(r)
    \/ \E n \in NodeIds : DeleteNode(n) \/ DeleteNodeFails(n)
    \/ DeleteNext \/ DeleteNextFails \/ DeleteLast
    \/ BadCall
    \/ Reopen

Spec == Init /\ [][Next]_vars

------------------------------------------------------------------------------
(* next_relationship_id, expand *)

Directions == {"OUTGOING", "INCOMING", "BOTH"}

Matches(n, r, d) ==
    \/ relationship[r].source = n /\ d # "INCOMING"
    \/ relationship[r].target = n /\ d # "OUTGOING"

\* x, f[x], f[f[x]] and so on: the loops that follow a chain.
Iterated(f, x, steps) ==
    LET it[k \in 0 .. steps] == IF k = 0 THEN x ELSE f[it[k - 1]] IN it

\* The relationship k steps behind r in the chain of n.
Walk(n, r) ==
    Iterated([x \in Links |-> IF x \in rels THEN Next_(n, x) ELSE NoId], r, Cardinality(rels))

\* Mutant: only the relationship right behind r is looked at.
AdjacentRelationshipId(n, r, d) ==
    LET next == Walk(n, r)[1] IN
    IF next \in rels \ {r} /\ Matches(n, next, d) THEN next ELSE NoId

\* The next relationship of n behind r that matches, before r comes again.
NextRelationshipId(n, r, d) ==
    LET w    == Walk(n, r)
        hits == {k \in 1 .. Cardinality(rels) :
                    /\ w[k] \in rels \ {r} /\ Matches(n, w[k], d)
                    /\ \A j \in 1 .. k - 1 : w[j] # r /\ ~Matches(n, w[j], d)}
    IN  IF hits = {} THEN NoId ELSE w[CHOOSE k \in hits : TRUE]

\* The relationships expand appends: it starts at the first that matches and
\* ends where next_relationship_id finds no other, or the start again.  A link to
\* a record that is gone, which would end the process, ends the walk here: the
\* result is then short of what ExpandComplete asks for.
Expand(n, d) ==
    LET next  == [r \in Links |-> IF r \in rels THEN NextRelationshipId(n, r, d) ELSE NoId]
        first == first_relationship[n]
        start == IF first = NoId \/ Matches(n, first, d) THEN first ELSE next[first]
        e     == Iterated(next, start, Cardinality(rels))
        over(i) == e[i] = NoId \/ (i > 0 /\ e[i] = start)
    IN  [i \in {k \in DOMAIN e : \A j \in 0 .. k : ~over(j)} |-> e[i]]

------------------------------------------------------------------------------
(* Properties *)

IncidentRels(n) == {r \in rels : Incident(n, r)}

\* Every relationship joins two nodes that exist, and the chain of every node is
\* one ring through all its relationships, self loops included: following next
\* from the first one meets each of them, and prev leads back.
ChainsIntact ==
    /\ \A r \in rels : {relationship[r].source, relationship[r].target} \subseteq nodes
    /\ \A n \in nodes :
          /\ first_relationship[n] = NoId <=> IncidentRels(n) = {}
          /\ IncidentRels(n) # {} =>
                LET w == Walk(n, first_relationship[n]) IN
                {w[k] : k \in 0 .. Cardinality(IncidentRels(n)) - 1} = IncidentRels(n)
          /\ \A r \in IncidentRels(n) : Next_(n, r) \in IncidentRels(n) /\ Prev(n, Next_(n, r)) = r

\* README.md of expand: it "Returns [...] all rels that contain the node as source
\* or as target node or any of the two options", and each of them once.
ExpandComplete ==
    Ready => \A n \in nodes, d \in Directions :
        LET e == Expand(n, d) IN
        /\ {e[i] : i \in DOMAIN e} = {r \in rels : Matches(n, r, d)}
        /\ Cardinality(DOMAIN e) = Cardinality({r \in rels : Matches(n, r, d)})

\* No operation on records that exist follows a chain to one that does not.
NeverDangling == status # "dangling"

\* The records are a graph whatever was created and deleted: no operation follows
\* a chain to a record that is gone, every chain is one ring, and expand returns
\* each relationship of a node once.
GraphSound == NeverDangling /\ ChainsIntact /\ ExpandComplete

\* No free slot is lost: every slot below the last allocated one, where
\* next_free_slots never looks, is in use; and the counts are those of the
\* header bits, for whatever sequence of calls and reopenings.
SlotsAccounted ==
    /\ \A i \in NodeIds : i < last_alloc_node_id => i \in nodes
    /\ \A i \in RelIds : i < last_alloc_rel_id => i \in rels
    /\ \A i \in nodes : i < node_pages * SlotsPerPage
    /\ \A i \in rels : i + SlotsPerRel <= rel_pages * SlotsPerPage
    /\ n_nodes = Cardinality(nodes) /\ n_rels = Cardinality(rels)

Chain(n) == [i \in 1 .. Cardinality(IncidentRels(n)) |-> Walk(n, first_relationship[n])[i - 1]]

\* The order of a chain is the order in which expand returns relationships, and
\* what sort_incidence_list arranges: creating and deleting others never change
\* the order of those that stay.
OrderStep ==
    \A n \in nodes \cap nodes' :
        SelectSeq(Chain(n), LAMBDA r : r \in rels') = SelectSeq(Chain(n)', LAMBDA r : r \in rels)

\* Every step keeps the order of the chains, see OrderStep.
OrderKept == [][OrderStep]_vars
==============================================================================
