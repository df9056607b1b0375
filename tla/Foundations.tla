------------------------------ MODULE Foundations ------------------------------
(***************************************************************************)
(* What the record files stand on, for TLC and side by side: the physical  *)
(* database, the eviction queue of a page cache of three frames that is    *)
(* never in bulk mode, the data structures of include/data-struct/ and the *)
(* header bits.  In a behaviour one of them is used, the others stay as    *)
(* they are.                                                               *)
(***************************************************************************)
EXTENDS PhysicalDatabase, Bitwise

CONSTANTS
    Zero, NoPage,
    Cells, Elements, NULL, Kinds, InitialAlloc, MaxArrayLen,
    TableKeys, SetKeys, TableValues, None, Seeds, BucketStart, TooManyBuckets,
    MaxHeapNodes, MaxInserted, MaxLowerings, HeapKeys, Usages,
    HeaderCharBit, RecordPages, SlotCounts, MaxDeletes

VARIABLES
    active,                                                      \* what is in use
    n_frames, holds, pin_count, dirty, frame_data, page_map, free_frames,
    recently_referenced, linked, bulk_import, num_pins, num_unpins,
    file_pages, disk, cstatus,                                           \* PageCache
    operations, node, allocated, head, tail, len, result, status,        \* LinkedList
    elements, alloced, alen, aresult, astatus,                           \* ArrayList
    buckets, num_buckets, num_used, seed, it, answer, tstatus,           \* HashTable
    sbuckets, snum_buckets, snum_used, sseed, sit, sanswer, sstatus, unlinked,  \* HashSet
    hnode, min, num_nodes, op, usage, lowerings,                         \* FibonacciHeap
    n_slots, data, last_alloc, num_pages, used, deletes                  \* HeaderBits

\* & and | of C on the bytes of a header.
Bytes   == 0 .. 2 ^ HeaderCharBit - 1
ByteAnd == [x, y \in Bytes |-> x & y]
ByteOr  == [x, y \in Bytes |-> x | y]

Cache == INSTANCE PageCache WITH
             FileTypes <- {node_ft}, HeaderPages <- 1, RecordPages <- 3, MaxFrames <- 3, MaxPins <- 1,
             EvictLruK <- 2, BulkModes <- {FALSE}, CounterMod <- 1, Values <- {Zero},
             data <- frame_data, num_pages <- file_pages, status <- cstatus
List  == INSTANCE LinkedList
Array == INSTANCE ArrayList WITH len <- alen, result <- aresult, status <- astatus
Table == INSTANCE HashTable WITH Keys <- TableKeys, Values <- TableValues, status <- tstatus
Set   == INSTANCE HashSet WITH
             Keys <- SetKeys, BucketStartS <- BucketStart, TooManyBucketsS <- TooManyBuckets,
             buckets <- sbuckets, num_buckets <- snum_buckets, num_used <- snum_used, seed <- sseed,
             it <- sit, answer <- sanswer, status <- sstatus
Heap  == INSTANCE FibonacciHeap WITH Keys <- HeapKeys, node <- hnode
Bits  == INSTANCE HeaderBits WITH CharBit <- HeaderCharBit, BitAnd <- ByteAnd, BitOr <- ByteOr

cacheVars == <<n_frames, holds, pin_count, dirty, frame_data, page_map, free_frames,
               recently_referenced, linked, bulk_import, num_pins, num_unpins, file_pages, disk, cstatus>>
listVars  == <<operations, node, allocated, head, tail, len, result, status>>
arrayVars == <<elements, alloced, alen, aresult, astatus>>
tableVars == <<buckets, num_buckets, num_used, seed, it, answer, tstatus>>
setVars   == <<sbuckets, snum_buckets, snum_used, sseed, sit, sanswer, sstatus, unlinked>>
heapVars  == <<hnode, min, num_nodes, op, usage, lowerings>>
bitVars   == <<n_slots, data, last_alloc, num_pages, used, deletes>>
foundationVars ==
    <<active, vars, cacheVars, listVars, arrayVars, tableVars, setVars, heapVars, bitVars>>

\* What is not in use starts in one state only.
FoundationsInit ==
    /\ active \in {"database", "cache", "list", "array", "table", "set", "heap", "bits"}
    /\ Init /\ Cache!Init
    /\ List!Init /\ Array!Init /\ Table!Init /\ Set!Init /\ Heap!Init /\ Bits!Init
    /\ active # "cache" => n_frames = 1
    /\ active # "list" => operations = CHOOSE k \in Kinds : TRUE
    /\ active # "table" => seed = CHOOSE s \in Seeds : TRUE
    /\ active # "set" => sseed = CHOOSE s \in Seeds : TRUE
    /\ active # "heap" => usage = "query"
    /\ active # "bits" => n_slots = 1

\* The database can always go on; the others may come to rest.
Rest == active # "database" /\ UNCHANGED foundationVars

FoundationsNext ==
    \/ /\ active = "database" /\ Next
       /\ UNCHANGED <<active, cacheVars, listVars, arrayVars, tableVars, setVars, heapVars, bitVars>>
    \/ /\ active = "cache" /\ Cache!Next
       /\ UNCHANGED <<active, vars, listVars, arrayVars, tableVars, setVars, heapVars, bitVars>>
    \/ /\ active = "list" /\ List!Next
       /\ UNCHANGED <<active, vars, cacheVars, arrayVars, tableVars, setVars, heapVars, bitVars>>
    \/ /\ active = "array" /\ Array!Next
       /\ UNCHANGED <<active, vars, cacheVars, listVars, tableVars, setVars, heapVars, bitVars>>
    \/ /\ active = "table" /\ Table!Next
       /\ UNCHANGED <<active, vars, cacheVars, listVars, arrayVars, setVars, heapVars, bitVars>>
    \/ /\ active = "set" /\ Set!Next
       /\ UNCHANGED <<active, vars, cacheVars, listVars, arrayVars, tableVars, heapVars, bitVars>>
    \/ /\ active = "heap" /\ Heap!Next
       /\ UNCHANGED <<active, vars, cacheVars, listVars, arrayVars, tableVars, setVars, bitVars>>
    \/ /\ active = "bits" /\ Bits!Next
       /\ UNCHANGED <<active, vars, cacheVars, listVars, arrayVars, tableVars, setVars, heapVars>>
    \/ Rest

FoundationsSpec == FoundationsInit /\ [][FoundationsNext]_foundationVars

------------------------------------------------------------------------------
(* The properties of the modules *)

\* Without bulk mode every unpinned page is a candidate of evict, and no free frame
\* is one, see QueueExact of PageCache.
EvictionQueueExact == active = "cache" => Cache!QueueExact

\* Without bulk mode evict gives up with "all pages are pinned" only when they are,
\* see AllPinnedIsTrue of PageCache.
GivesUpWhenPinned == active = "cache" => Cache!AllPinnedIsTrue

\* The nodes of a list, queue or stack are linked in both directions, none leaks,
\* and one of the two links that close the ring is right, see LinkedList.
ListsIntact == active = "list" => List!RingIntact /\ List!OneEndLinked

\* When the ring of a queue is open, the rule PageCache relies on, see LinkedList.
OpensAtTheEnds == [][active = "list" => List!OpeningStep]_foundationVars

\* A linked list and an array list are the sequence of ListSeq, see LinkedList and
\* ArrayList.
ListsImplementListSeq ==
    /\ List!Seq_!Init /\ Array!Seq_!Init
    /\ [][/\ active = "list" => List!Seq_!Next
          /\ active = "array" => Array!Seq_!Next]_foundationVars

\* A hash table is the function of Dictionary, and a set such a function with one
\* value; num_used is the number of entries, for a set no less than that, see
\* HashTable and HashSet.
TablesImplementDictionary ==
    /\ Table!Dict!Init /\ Set!Dict!Init
    /\ [][/\ active = "table" => Table!Dict!Next
          /\ active = "set" => Set!Dict!Next]_foundationVars
    /\ [](active = "table" => Table!SizeExact)
    /\ [](active = "set" => Set!SizeSufficient)

\* The pointers of the Fibonacci heap between two calls; extract_min returns a
\* node of the least key, its table is large enough for the path queries, and
\* destroy frees every node once, see FibonacciHeap.
HeapSound == active = "heap" => Heap!HeapIntact /\ Heap!MinIsLeast /\ Heap!DegreesFit /\ Heap!AllFreed

\* The header bits are those of the records there are, and compare_bits tells, also
\* where a byte ends, see HeaderBits.
BitsSound == active = "bits" => Bits!BitsExact /\ Bits!ComparesRight

\* next_free_slots takes the least free slot, see HeaderBits.
TakesLeastFree == [][active = "bits" => Bits!TakingStep]_foundationVars
==============================================================================
