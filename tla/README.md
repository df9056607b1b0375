# A TLA+ model of the Graph Order Evaluation Database

goedb stores a graph in fixed size records on disk pages and measures how the
order of the records influences the I/O of graph queries. This directory holds
TLA+ modules that model its storage layers, data structures, reordering, import
and queries, TLC configurations that check them on small instances, and TLAPS
proofs for instances of every size. Paths in this
file are relative to the root of the repository; `PROJECT.json` names the lines
each definition models, with `src/` in front of the path.

## 1. The system

goedb is one process with one thread. What makes it hard is long sequences of
legal calls that share mutable state (frames, chains, counters), the many places
where it ends with `exit(EXIT_FAILURE)`, and what a killed process leaves behind.

| part | code | state | operations | modelled by |
|---|---|---|---|---|
| disk files | `src/io/disk_file.c` | size of the file, the stream's buffer | create, open, grow, read, write, close, delete (shrink and sync have no caller) | PhysicalDatabase, PageCache |
| physical database | `src/io/physical_database.c` | catalogue, two headers, two record files, `remaining_header_bits` | create, open, validate, allocate, close, delete | PhysicalDatabase |
| page cache | `src/cache/page_cache.c`, `page.c` | frames, dictionaries, free list, eviction queue, bulk mode | pin, unpin, new page, evict, bulk evict, flush, resize, destroy | PageCache, PageStore |
| heap file | `src/access/heap_file.c` | header bits, records, last allocated ids, counts | create, read, delete, expand, contains, get all (find by label is left out) | HeapFile, RelationshipSearch |
| records | `src/access/node.c`, `relationship.c` | fields and links | read, write, copy, compare | fields in HeapFile |
| header bits | `src/access/header_page.c` | bytes of a header page | compare_bits, write_bits, shifts (read_bits has no caller) | HeaderBits |
| linked list, queue, stack | `include/data-struct/linked_list.h` | nodes and pointers | append, insert, remove, take, pop, get, index of, move_back, destroy | LinkedList, ListSeq |
| array list | `include/data-struct/array_list.h` | a block of memory | append, insert, remove, take, get, index of, destroy | ArrayList, ListSeq |
| hash table, set | `include/data-struct/htable.h`, `set.h` | buckets and chains | insert, remove, get, clear, resize, iterate | HashTable, HashSet, Dictionary |
| Fibonacci heap | `include/data-struct/fibonacci_heap.h` | trees of nodes | insert, extract_min, decrease_key, delete, destroy (union has no caller) | FibonacciHeap |
| in-memory graph | `src/access/in_memory_graph.c` | dictionaries of records | as the heap file, without deletion | InMemoryGraph |
| importer | `src/query/snap_importer.c` | bulk mode, the graph it builds | import, import in memory | Importer; its effect on PageCache |
| reordering, random order | `src/order/` | the records of a heap file | swap, reorder, sort incidence lists | Reorder |
| queries | `src/query/` | local to a call | bfs, dfs, dijkstra, a_star, alt, random walk, degrees, paths | Queries |
| main | `src/main.c` | none | a fixed scenario | not modelled |

How they interact: the heap file pins pages of headers and records through the
cache; the cache reads and writes them through the disk files of the physical
database and lets the physical database grow them; the cache keeps its eviction
order in a `queue_ul` and its free frames in an `llist_ul`. Reordering and the
queries work on the records of the heap file; the queries use queue, stack, hash
table and Fibonacci heap.

What should hold, and where it is hard to test:

- a client of the cache sees its last write to a page through any sequence of
  evictions, flushes and resizes, and no frame is lost or used twice;
- catalogue, headers and record files agree whenever a database is open, and a
  database left in order can be opened again; a kill may come at any time;
- the two chains each relationship is part of stay rings through all
  relationships of their nodes, and no free slot is forgotten;
- loops over chains end;
- list, table and heap operations keep their pointers consistent through any
  sequence of calls, and are to their callers sequences, functions and bags;
- reordering renames records and changes nothing else, wherever their ids occur;
- an import is the file, in the heap file and in memory alike;
- traversals number what is reachable, path queries return shortest paths.

`PROJECT.json` lists the hazards line by line.

## 2. The modules

**PageCache** has one variable per field of `page_cache`, plus the disk and the
way the process ended. `holds`, `pin_count`, `dirty`, `data` are functions on
frames; the dictionaries are one function `page_map`. Each call is one action, a
call that ends the process is an action of its own (`PinEvictFails`,
`FlushAllFails`, ...), which keeps the pages written before it ended. A page's
content is one value. The queue is a sequence with a flag `linked` that says
whether its two ends still point at each other: `move_back` behaves differently
when they do not. The run `Foundations` checks the rule by which that flag changes.
The code never pins the catalogue, so its dictionary is left out.

**PageStore** is what the cache promises: every page has a current and a durable
content, writing changes the first, closing makes all of them durable, failing
keeps what was written back. `PageCache` implements it with a page's current
content taken from its frame if it has one and from the disk otherwise.

**PhysicalDatabase** models the five files with the buffers of their streams.
Creating, opening, validating, allocating and closing take one step per file, so
a kill can come between any two. A kill loses what is in the buffers and
keeps what had left them; `exit` flushes them. `SizeMod` is the range of `size_t`.

**LinkedList** models nodes as memory cells with `prev` and `next`, which `free`
returns and later calls hand out again; a link that leads to freed memory inside
the list ends the behaviour as `undefined`. **ListSeq** says what each operation
does to a sequence, and **MCLinkedList** adds symmetry. The kind of a list (list,
queue, stack) is the set of operations it has, chosen in the initial state.

**HeapFile** has the slots in use, the records with their four links, the last
allocated ids and the counts. `FreeSlot` is the search of `next_free_slots`,
`CreateRelationship` sets all links the code sets, `DeleteNext` is one turn of
the loop of `delete_node`. `Reopen` is a new process on the same files: it counts
records with a scan, as `heap_file_create` does. `Deletions` selects the calls of
interest: `none`, `any`, or `repaired`, which are those for which
`delete_relationship` enters the branch that relinks both chains.

**RelationshipSearch** adds the loop of `contains_relationship_from_to`, one turn
per step.

**Reorder** adds the calls of `src/order/`. `swap_nodes` and `swap_relationships`
are one step; `swap_record_pages`, `reorder_nodes`, `reorder_relationships` and
`sort_incidence_list` are loops, one turn a step, with the two dictionaries of the
code. Three ghosts record what was asked, of which graph, and where each record
has come to. `Callers = "safe"` leaves out three kinds of calls that damage the graph
(see the consequences in section 3). **Records** puts HeapFile and Reorder
together for TLC.

**InMemoryGraph** has the records of `in_memory_graph_t` and the code's own
linking, expand and search. **Importer** reads one file into the heap file and
into the in-memory graph field by field: a label becomes the id of a node, which
may have to be created. With weights the loop goes on to a third field behind the
array `from_to`, which is an arbitrary label in the model.

**Queries** runs one query at a time on the imported graph: a step takes a node
from the queue, the stack or the heap, or looks at one of its relationships.
Queue and stack are the sequences of ListSeq, dictionaries the functions of
Dictionary; the heap is the set of its entries, of which any with the least key may
come next. `Distances`, which looks at all walks, is the reference the answers
are compared with.

**ArrayList** has the block of memory with what was never written in it, and
implements ListSeq as LinkedList does. **HashTable** and **HashSet** have the
array of buckets, each a chain, with the hash function `fnv_hash_ul`, doubling,
and the iterator; **Dictionary** is what they promise.
**FibonacciHeap** has the nodes with their four pointers, degrees and marks; a
call is a chain of steps, one per turn of the loops of extract_min, consolidate,
cascading_cut and destroy. **HeaderBits** has the bytes of a header file with the shifts
and masks of `header_page.c`, and the search of `next_free_slots` on them.
**Foundations** puts these, the physical database and a page cache without bulk
mode side by side for TLC, one of them in use in a behaviour.

Limits of the models:

- a dangling link is not followed: the behaviour ends as `dangling`, also where
  the code would read a slot that was handed out again. `Expand`, which is a value
  and no step, ends where it meets such a link, and the code exits: either way the
  result is not what ExpandComplete asks for;
- with weights the importer also stores an id behind the array `from_to`; only the
  value it reads there is modelled, as an arbitrary label;
- the distances alt takes from dijkstra are those of `Distances`, which DijkstraRight
  shows dijkstra to return;
- the tree of eight that FibonacciHeap starts from is what nine inserts and an
  extract_min leave;
- deleted records are blanked, as nothing reads them;
- some instances have one record per page, which puts a page boundary after each;
- labels, logs and the bytes of records are left out, weights are natural numbers
  in the queries, and `DBL_MAX` is a number above every distance;
- a step of Reorder or Queries works on records, not on pages; the page cache
  below it is the subject of PageCache.

## 3. The runs

State counts are distinct states.

| run | instance | checks | states |
|---|---|---|---|
| PageCache | 2 frames, 1 header and 2 record pages, 2 pins, 2 values, bulk mode on or off | TypeOK, MapMatchesFrames, FreeListExact, CleanMeansSaved, PinnedFrameStays, DiskChangesByWriteBack, ImplementsPageStore | 800,640 |
| Foundations | database: pages of 2 slots, at most 5 pages a file, one kill; cache: 3 frames, 1 header and 3 record pages, 2 evictions per call, no bulk mode; lists of up to 3 nodes; blocks of 1 to 16 elements; tables of 2 to 8 buckets; a heap of up to 5 nodes as the queries use it, and one that starts as a tree of 8 for decrease_key and delete; bytes of 4 bits | TypeOK, BookkeepingExact, RefusedOnlyAfterKill, SlotsCounted, HeaderGrowthFits; EvictionQueueExact, GivesUpWhenPinned; ListsIntact, OpensAtTheEnds, ListsImplementListSeq; TablesImplementDictionary; HeapSound; BitsSound, TakesLeastFree | 845,924 |
| Records | chains: 3 nodes, 3 relationships, repaired deletions; slots: 2 pages of 2 nodes, 2 pages of 1 relationship, any deletion; reordering: at most 3 nodes and 5 records, 2 calls | ChainsSound, ChainOrderKept; SlotsSound; OnlyRenamed, EntriesTrue, PlacedUnlessSkipped, GroupedBySource, SortedSoFar | 831,663 |
| Queries | files of at most 3 lines and 3 labels, or 1 weighted line; weights 0 and 1; every direction, but a_star and alt outgoing only | SlotsAccounted, ImportSound, ImportExact, InMemoryAgrees, AnswerRight, DegreesAddUp, LoopsSound, NumbersRight, DijkstraRight, PathRight, LoopsEnd | 149,328 |

Why the bounds are enough to be interesting: more pages than frames, so eviction
is forced; two pins in PageCache, so a page is pinned twice; a queue of three, the shortest
in which `move_back` has all its cases; growth that fits into the
header and growth that needs a new header page, and the limit of pages within reach; three relationships, so that the new
one, its neighbours and the ends of the chain coincide in every way, self loops
and parallel edges included; nodes on two pages in the reordering, so that its
loop turns a page; keys that share a bucket before and after the table grows;
five entries in a heap, so that consolidation links trees of degree 2, and a tree of
eight, whose root has degree 3, so that cuts cascade. a_star and alt run in the
outgoing direction for every assignment of weights, alt with every landmark its
choice allows; the other two directions only change what expand returns, which
ImportSound has for all three.

Deadlock is checked for the physical database. In the other modules the bounds on
memory and pages, or an exit of the process, end a behaviour.

Fairness is weak fairness of the turns of a loop, of `contains_relationship_from_to`
in RelationshipSearch and Queries and of the queries in Queries. One thread runs
these loops and nothing blocks it. Nothing is assumed of what callers do, of the
import or of the operations of other modules.

### Where the code and its documentation disagree

Each is a run whose one property TLC violates.

| run | what happens |
|---|---|
| PageCacheBulkPinned | pages unpinned in bulk mode are not queued, so `evict` later reports that all pages are pinned when none is |
| PhysicalDatabaseHeader | after a kill a header with fewer bits than slots is accepted |
| HeapFileDelete | deleting a relationship that is alone in its source's chain leaves it in its target's chain |
| RelationshipSearchEnds | `contains_relationship_from_to` goes around for ever if its first relationship has the other direction and two others match |
| LinkedListMoveBack | `move_back` of the last element makes the first one the last |
| ReorderSkipsSlot | `reorder_nodes` never visits the last slot of a page, so with two pages of nodes some are not moved |
| ReorderSortStart | with two relationships 0 and 2 between two nodes, `swap_relationships` exchanges them and makes 2 the first of both; `sort_incidence_list` passes over chains of two, and `expand` returns 2 before 0. A longer chain is relinked in order, but `first_relationship` is never written: after a swap of the first and the last of three, `expand` returns 4, 0, 2. Without a swap the first relationship is the one with the lowest id, and the order is right |
| AltNotShortest | in a triangle with weights 1, 1 and 3, searched in both directions with the target as landmark, `alt` returns the relationship of weight 3: `a_star` adds the heuristic of each node on the way into the distance, so the way over the third node, of length 2, comes to 5 as the direct one does, which was found first |

Some consequences follow from the same models without a run of their own.
`bulk_evict` leaves the frames it frees in the eviction queue, so QueueExact
does not hold with bulk mode. `evict` does not take the least recently unpinned
page, because of `move_back`. A removal at an end of a queue followed by
`move_back` of the last element puts a freed node into the list; in LinkedList
such a behaviour ends as `undefined`, and its properties are about the others.
`delete_node` exits at a relationship that an unrepaired deletion left in the
chain. After a kill, an open that finds an empty header next to a count in the
catalogue succeeds and leaves a database the next open refuses.

With `Callers = "any"` Reorder has three kinds of calls after which ChainsIntact
fails: `swap_nodes` of a node and a free slot, which leaves the relationships of
the node on its old id; `reorder_nodes_by_sequence` of a file with gaps, which
does the same or ends half-way; and `sort_incidence_list` with self loops, which
leaves the target side of the loop as it was. `set_ul_remove` of a chained
element keeps the count, so the size of a set is only bounded from below. SortedSoFar is the part
of the order that `sort_incidence_list` does bring about, a ring that ascends once
around; ReorderSortStart is about where expand enters it. PathRight asks for
a shortest path only if the heuristic is zero, and of every other path that it is one
and has the sum of its weights. `a_star` from a node to itself ends the process.

## 4. The proofs

For every value of the constants that satisfies the assumptions named in the
modules (sizes are positive, a page is a whole number of slots and of records).

**PageCacheProofs.** The inductive invariant `IInv` joins TypeOK,
MapMatchesFrames, FreeListExact, CleanMeansSaved and that no frame is queued
twice, which need each other: a
frame taken from the free list must hold no page, or loading it would leave a
stale dictionary entry. From it follow the four invariants, that only a write
back changes the disk, and that a pinned frame keeps its page. With
`BulkModes = {FALSE}` a second invariant about the queue shows that the queue has
exactly the candidates it should have, and that `evict` gives up only when all
pages are pinned (QueueExact and AllPinnedIsTrue of PageCache, which Foundations checks
for its cache as EvictionQueueExact and GivesUpWhenPinned); PageCacheBulkPinned shows why the assumption
is needed.

The same module shows that the cache implements PageStore: under `IInv` each step
of the cache is a step of PageStore or leaves it unchanged, because eviction and
loading do not change what a client sees when a clean frame equals its page.

**PhysicalDatabaseProofs.** TypeOK and SlotsCounted hold for any number of kills.
SlotsCounted rests on validation, which refuses a record file whose slots differ
from the count. Until the first kill, the invariant `BInv` follows the three
counts through the steps of an allocation, a close and a reopening, and gives
BookkeepingExact, RefusedOnlyAfterKill and HeaderGrowthFits; `UnkilledInv` says
that it holds while `kills = 0`. A kill breaks `BInv`, as PhysicalDatabaseHeader
shows. HeaderGrowthFits also holds in the run after a kill, which is not proved.

**HeapFileProofs.** `SlotInv` is SlotsAccounted with the types of the allocation
state and the fact that a node being deleted exists. Deleting a record lowers the
last allocated id to it, so nothing free is below; `FreeSlotRight` shows that the
search returns the least free slot from there on.

Its second half is about the chains. Creating and deleting keep the graph sound
(`GraphSound`: chains are rings, expand is complete, nothing dangles) unless
`Deletions = "any"`, for which HeapFileDelete is the counterexample. The inductive
invariant `ChainInv` says what ChainsIntact says of a walk without a walk:
`GraphInv` gives every node a numbering of its relationships (`IsRing`) in which
next adds one and prev takes one away, and `DeletingInv` says where in the ring
the loop of `delete_node` is. A creation adds a number at the end, a deletion
closes the gap; self loops have the same links on both sides (`LoopsEven`).
`RingsIntact` and `RingsExpand` derive what `Walk` and `Expand` compute, by a least
counterexample over the steps.

**SwapProofs, OrderProofs, ReorderProofs** build on each other. The inductive
invariant of reordering is `ReorderInv`, for calls the code carries out right
(`Callers` and `Deletions` other than `"any"`, as section 3 explains):

- `FileGraphInv` has the rings of the heap file, the counts and the bounds of the
  ids. A swap is a renaming of the graph by an exchange of two ids (`Renamed`;
  `SwapNodesRight`, `SwapRelationshipsRight`), and a renamed ring is a ring. So
  GraphSound holds after every swap, turn and sorted chain.
- `LoopsInv` is about the loop in progress: the two dictionaries are inverse to
  each other and true (EntriesTrue), and the graph is a copy (`IsCopy`) of the one
  the call began with, where `moved` gives the names (OnlyRenamed). The order by
  nodes names no slot twice because each relationship is once in the chain of its
  source (`PlacesCounted`, `RankByNodesRight`). DictionariesRight, in SwapProofs, is
  the part of this that holds for all callers, if the order by nodes names no slot
  twice.
- `OthersInv` is about swap_record_pages and sort_incidence_list. A sorted chain
  gets a numbering by the ids (`SortRings`). Sorting the chain of a node writes into
  records that are in other chains too; SortedSoFar stays true of those because,
  without self loops, only the links of the node's own side change.

`PlacedInv` adds where the loop is: the dictionaries have no entry left for a slot it
has passed, but for those it skips (`TurnsPlaced`). At the end at most one record is
left, and only its own place is (`PlacedRight`); this gives PlacedUnlessSkipped and
GroupedBySource. It needs `SlotsPerRel > 1`, as in the code: with one slot a
relationship, the loop over the relationships would skip slots like that over the nodes.

**WalkProofs** is about the loops of the queries, on a graph of which it assumes only
that expand returns exactly the relationships of a node (`GraphReady`). LoopsSound
says what the loops leave behind: `TraversalInv` has that a node is done or waits in
the queue or stack, `DijkstraInv` that what is not in the heap is relaxed. This is
then compared with all walks. `AllWalks` is the least set of nodes with lengths that
has the source and is closed under going on along a relationship. A walk that is
shortest, and has the fewest relationships among those, has fewer relationships than
the graph has nodes (`ShortestFound`), so that `Distances`, which looks at walks of
that many, has the least lengths of all walks (`DistancesRight`). `NumberInv` and
`DistanceInv` say that every number given so far is the length of a walk; for bfs
`BfsInv` adds that the numbers in the queue ascend and differ by at most one. A set of
nodes that nothing leads out of has every walk from the source in it: that gives
NumbersRight and DijkstraRight. The sums must stay below `DBL_MAX`: the number of
nodes for bfs, the number of nodes times the largest weight for dijkstra
(`WeightsFit`).

**QueriesProofs.** `ImportInv` joins the invariants of the heap file with what
the labels and lines read so far have become, and gives ImportExact and
ImportSound for files of any length. What an import leaves is a graph that the loops
can run on (`ImportReady`), so `QueryInv` joins `ImportInv` with the invariants of
WalkProofs and of the search. The ring of a node gives AnswerRight: the relationships
looked at so far are the first ones of the ring, and none of them has the direction
asked for. Counting the ends of relationships node by node gives DegreesAddUp.

Only model-checked: that the in-memory graph
agrees with the heap file; PathRight, which is about recursive reconstruction
of a path; that creating and deleting keep the order of a chain (ChainOrderKept); the containers, whose modules use
recursive operators and bit operations; and liveness. Recursive operators, bit
operations and fairness are out of reach of the provers used, and so is induction over what
a recursive definition computes for every input, but where a least counterexample
can be named. ChainsSound and SlotsSound are GraphSound and SlotsAccounted in two
instances that TLC explores side by side.

## 5. Not modelled

- Download and decompression of data sets, printing, logs, stack traces, `main`:
  input and output without state the other parts rely on.
- Code without a caller: `disk_file_shrink`, `disk_file_sync`, `read_bits` and
  `concat_bit_arrays`, `union` of Fibonacci heaps; and `split_bit_array`, which
  only a write across the end of a header page needs.
- `find_node`, `find_relationships` and the labels they look for: a scan that
  compares strings.
- The heap file on top of the page cache. What a client of the cache sees is its
  last write (ImplementsPageStore), so while the process runs records behave as
  HeapFile has them. After a kill header and record pages are from different
  times, and no code repairs or detects that: there is nothing the program
  promises about such files.
- The temporary database that `reorder_nodes_by_sequence` creates to learn which
  ids a file without gaps has: Reorder has the ids.
- The rounding of doubles and floats.
