------------------------------ MODULE PageCache ------------------------------
(***************************************************************************)
(* The page cache of src/cache/page_cache.c over the disk files of the     *)
(* physical database: frames, the page_no -> frame_no dictionaries, the    *)
(* list of free frames, the queue of recently unpinned frames and the two  *)
(* eviction strategies.  The program is single threaded, so every call is  *)
(* one step; what varies is the order in which the layers above call.      *)
(*                                                                         *)
(* write_page and read_page of a disk file are exact here: exit() flushes  *)
(* the C streams, and what a killed process loses is PhysicalDatabase's    *)
(* subject.                                                                *)
(***************************************************************************)
EXTENDS Integers, Sequences, Functions

CONSTANTS
    FileTypes,   \* file_type: node_ft, relationship_ft
    HeaderPages, \* bound: pages of a header file
    RecordPages, \* bound: pages of a record file
    MaxFrames,   \* bound: the largest n_frames the cache is given
    MaxPins,     \* bound: pin_count of one frame
    EvictLruK,   \* EVICT_LRU_K: frames one call of evict frees at most
    BulkModes,   \* the values pc->bulk_import takes in this use of the cache
    CounterMod,  \* width of num_pins and num_unpins (size_t wraps around)
    Values,      \* contents of a page
    Zero,        \* the content of a page of zeros
    NoPage       \* (invalid, invalid_ft, ULONG_MAX): the frame holds no page

ASSUME BoundsAssumption ==
    /\ HeaderPages \in Nat \ {0}
    /\ RecordPages \in Nat \ {0}
    /\ MaxFrames \in Nat \ {0}
    /\ MaxPins \in Nat \ {0}
    /\ EvictLruK \in Nat \ {0}
    /\ CounterMod \in Nat \ {0}

ASSUME ModesAssumption == FALSE \in BulkModes /\ BulkModes \subseteq BOOLEAN

ASSUME ZeroAssumption == Zero \in Values

Frames  == 0 .. MaxFrames - 1
NoFrame == -1
Headers == {"header"} \X FileTypes
Records == {"records"} \X FileTypes
Files   == Headers \cup Records
Pages   == (Headers \X (0 .. HeaderPages - 1))
              \cup (Records \X (0 .. RecordPages - 1))

ASSUME NoPageAssumption == NoPage \notin Pages

VARIABLES
    n_frames,             \* pc->n_frames
    holds,                \* frames[f]->fk, ft, page_no
    pin_count,            \* frames[f]->pin_count
    dirty,                \* frames[f]->dirty
    data,                 \* frames[f]->data
    page_map,             \* pc->page_map, NoFrame where there is no entry
    free_frames,          \* pc->free_frames
    recently_referenced,  \* pc->recently_referenced
    linked,               \* no end of the queue's ring points to a freed node
    bulk_import,          \* pc->bulk_import
    num_pins,             \* pc->num_pins
    num_unpins,           \* pc->num_unpins
    num_pages,            \* num_pages of every disk file
    disk,                 \* contents of the disk files
    status                \* "up", "closed", or how the process ended

frameVars == <<holds, pin_count, dirty, data, page_map>>
queueVars == <<recently_referenced, linked>>
countVars == <<num_pins, num_unpins>>
vars == <<n_frames, frameVars, free_frames, queueVars, bulk_import, countVars,
          num_pages, disk, status>>

Failures == {"bounds", "bad unpin", "bad access", "pinned", "all pinned",
             "not queued", "undefined", "elsewhere"}

TypeOK ==
    /\ n_frames \in 1 .. MaxFrames
    /\ holds \in [Frames -> Pages \cup {NoPage}]
    /\ pin_count \in [Frames -> 0 .. MaxPins]
    /\ dirty \in [Frames -> BOOLEAN]
    /\ data \in [Frames -> Values]
    /\ page_map \in [Pages -> Frames \cup {NoFrame}]
    /\ free_frames \in Seq(Frames)
    /\ recently_referenced \in Seq(Frames)
    /\ linked \in BOOLEAN
    /\ bulk_import \in BulkModes
    /\ num_pins \in 0 .. CounterMod - 1
    /\ num_unpins \in 0 .. CounterMod - 1
    /\ num_pages \in [Files -> Nat]
    /\ disk \in [Pages -> Values]
    /\ status \in {"up", "closed"} \cup Failures

------------------------------------------------------------------------------
(* Sequences of distinct frames, and the sublists the eviction loops build. *)

DistinctFrames ==
    UNION {Injection(1 .. n, Frames) : n \in 0 .. MaxFrames}

\* The elements of q that are in S, in the order they have in q.
Keeping(q, S) ==
    {r \in DistinctFrames :
        /\ Range(r) = Range(q) \cap S
        /\ \A i, j \in DOMAIN r : i < j =>
              \E a, b \in DOMAIN q : a < b /\ q[a] = r[i] /\ q[b] = r[j]}

\* The frames of S in index order.
Ascending(S) ==
    {r \in DistinctFrames :
        Range(r) = S /\ \A i, j \in DOMAIN r : i < j => r[i] < r[j]}

\* At most the first k elements.
UpTo(k, q) == SubSeq(q, 1, IF k < Len(q) THEN k ELSE Len(q))

MoveBackKnown(q, f) == q

\* queue_ul_move_back.  The search runs from the tail, i counting from 0, but
\* the cases are those of a search from the head: the element at the tail
\* (i = 0) makes the head the new tail, the one at the head (i = len - 1) stays.
MoveBack(q, f) ==
    IF f \notin Range(q) THEN Append(q, f)
    ELSE IF Head(q) = f THEN q
    ELSE IF q[Len(q)] = f THEN Append(Tail(q), Head(q))
    ELSE LET k == CHOOSE i \in 1 .. Len(q) : q[i] = f
         IN  Append(SubSeq(q, 1, k - 1) \o SubSeq(q, k + 1, Len(q)), f)

\* move_back turned the ring: the head became the tail.
Rotates(q, f) == Len(q) > 1 /\ q[Len(q)] = f

------------------------------------------------------------------------------
Exists(p)    == p[2] < num_pages[p[1]]
InUse        == 0 .. n_frames - 1
Unpinned     == {f \in InUse : pin_count[f] = 0}

Increment(n) == (n + 1) % CounterMod

FlushedDiskUnwritten(S) == disk

\* flush_page of every frame in S: the dirty ones are written to their page.
FlushedDisk(S) ==
    [p \in Pages |->
        IF \E f \in S : dirty[f] /\ holds[f] = p
        THEN data[CHOOSE f \in S : dirty[f] /\ holds[f] = p]
        ELSE disk[p]]

FlushedDirty(S) == [f \in Frames |-> dirty[f] /\ f \notin S]

Flush(S) ==
    /\ disk' = FlushedDisk(S)
    /\ dirty' = FlushedDirty(S)

EvictedDataKept(V) == data
EvictedMapKept(V)  == page_map

\* What evict and bulk_evict make of the frames in V.
EvictedHolds(V) == [f \in Frames |-> IF f \in V THEN NoPage ELSE holds[f]]
EvictedData(V)  == [f \in Frames |-> IF f \in V THEN Zero ELSE data[f]]
EvictedMap(V)   == [p \in Pages |-> IF \E f \in V : holds[f] = p
                                    THEN NoFrame ELSE page_map[p]]

\* page_cache_create and page_cache_change_n_frames: n empty frames, all free.
Fresh(n) ==
    /\ n_frames' = n
    /\ holds' = [f \in Frames |-> NoPage]
    /\ pin_count' = [f \in Frames |-> 0]
    /\ data' = [f \in Frames |-> Zero]
    /\ page_map' = [p \in Pages |-> NoFrame]
    /\ free_frames' = [i \in 1 .. n |-> i - 1]
    /\ recently_referenced' = <<>>
    /\ linked' = TRUE

\* exit(EXIT_FAILURE): the memory of the process is gone, the disk is not.
Exit(reason) ==
    /\ status' = reason
    /\ UNCHANGED <<n_frames, frameVars, free_frames, queueVars, bulk_import,
                   countVars, disk>>

------------------------------------------------------------------------------
(* pin_page *)

PinHit(p) ==
    LET f == page_map[p] IN
    /\ f # NoFrame
    /\ pin_count[f] < MaxPins
    /\ pin_count' = [pin_count EXCEPT ![f] = @ + 1]
    /\ num_pins' = Increment(num_pins)
    /\ UNCHANGED <<n_frames, holds, dirty, data, page_map, free_frames,
                   queueVars, bulk_import, num_unpins, disk, status>>

\* The frames of the sequence v are evicted, then p goes to the first free
\* frame.
Load(p, v) ==
    LET V    == Range(v)
        free == free_frames \o v
        f    == Head(free)
    IN
    /\ disk' = FlushedDisk(V)
    /\ holds' = [EvictedHolds(V) EXCEPT ![f] = p]
    /\ pin_count' = [pin_count EXCEPT ![f] = 1]
    /\ dirty' = [FlushedDirty(V) EXCEPT ![f] = FALSE]
    /\ data' = [EvictedData(V) EXCEPT ![f] = FlushedDisk(V)[p]]
    /\ page_map' = [EvictedMap(V) EXCEPT ![p] = f]
    /\ free_frames' = Tail(free)
    /\ num_pins' = Increment(num_pins)
    /\ UNCHANGED <<n_frames, bulk_import, num_unpins, status>>

\* evict: the first EVICT_LRU_K unpinned frames of the queue.
LruVictims ==
    {UpTo(EvictLruK, c) : c \in Keeping(recently_referenced, Unpinned)}

DequeuedNot(V) == UNCHANGED queueVars

\* The queue without the frames in V.  remove_internal at the head leaves
\* tail->next, at the tail it leaves head->prev, on the freed node.
Dequeued(V) ==
    /\ recently_referenced' \in Keeping(recently_referenced, Frames \ V)
    /\ linked' = \/ Range(recently_referenced) \subseteq V
                 \/ /\ linked
                    /\ Head(recently_referenced) \notin V
                    /\ recently_referenced[Len(recently_referenced)] \notin V

PinFree(p) ==
    /\ page_map[p] = NoFrame
    /\ free_frames # <<>>
    /\ Load(p, <<>>)
    /\ UNCHANGED queueVars

PinEvict(p) ==
    /\ page_map[p] = NoFrame
    /\ free_frames = <<>>
    /\ ~bulk_import
    /\ \E v \in LruVictims :
          /\ v # <<>>
          /\ Load(p, v)
          /\ Dequeued(Range(v))

PinEvictFailsAtHead(p) ==
    /\ page_map[p] = NoFrame
    /\ free_frames = <<>>
    /\ ~bulk_import
    /\ recently_referenced # <<>> => Head(recently_referenced) \notin Unpinned
    /\ Exit("all pinned")

\* evict found nothing in the queue.
PinEvictFails(p) ==
    /\ page_map[p] = NoFrame
    /\ free_frames = <<>>
    /\ ~bulk_import
    /\ Range(recently_referenced) \cap Unpinned = {}
    /\ Exit("all pinned")

\* bulk_evict: all unpinned frames; the queue is not touched.
PinBulkEvict(p) ==
    /\ page_map[p] = NoFrame
    /\ free_frames = <<>>
    /\ bulk_import
    /\ \E v \in Ascending(Unpinned) : v # <<>> /\ Load(p, v)
    /\ UNCHANGED queueVars

PinBulkEvictFails(p) ==
    /\ page_map[p] = NoFrame
    /\ free_frames = <<>>
    /\ bulk_import
    /\ Unpinned = {}
    /\ Exit("all pinned")

Fetch(p) ==
    \/ PinHit(p)
    \/ PinFree(p)
    \/ PinEvict(p)
    \/ PinEvictFails(p)
    \/ PinBulkEvict(p)
    \/ PinBulkEvictFails(p)

PinPage(p) ==
    /\ status = "up"
    /\ Exists(p)
    /\ Fetch(p)
    /\ UNCHANGED num_pages

PinOutOfBounds(p) ==
    /\ status = "up"
    /\ ~Exists(p)
    /\ Exit("bounds")
    /\ UNCHANGED num_pages

\* allocate_pages by one record page; whether the header file grows with it is
\* PhysicalDatabase's decision.  The new pages are zeros.
AllocatePages(ft) ==
    \E h \in {0, 1} :
        /\ num_pages[<<"records", ft>>] < RecordPages
        /\ num_pages[<<"header", ft>>] + h <= HeaderPages
        /\ num_pages' = [num_pages EXCEPT ![<<"records", ft>>] = @ + 1,
                                          ![<<"header", ft>>] = @ + h]

Allocate(ft) ==
    /\ status = "up"
    /\ AllocatePages(ft)
    /\ UNCHANGED <<n_frames, frameVars, free_frames, queueVars, bulk_import,
                   countVars, disk, status>>

\* new_page pins the page it allocated.
NewPage(ft) ==
    /\ status = "up"
    /\ AllocatePages(ft)
    /\ Fetch(<<<<"records", ft>>, num_pages[<<"records", ft>>]>>)

------------------------------------------------------------------------------
(* unpin_page, and access to a pinned page *)

UnpinsUnpinned(p) == page_map[p] # NoFrame

CanUnpin(p) == page_map[p] # NoFrame /\ pin_count[page_map[p]] > 0

UnpinPage(p) ==
    LET f == page_map[p]
        q == recently_referenced
    IN
    /\ status = "up"
    /\ CanUnpin(p)
    /\ pin_count' = [pin_count EXCEPT ![f] = @ - 1]
    /\ num_unpins' = Increment(num_unpins)
    /\ IF bulk_import
       THEN UNCHANGED <<queueVars, status>>
       ELSE /\ recently_referenced' = MoveBack(q, f)
            /\ linked' = (linked \/ recently_referenced' # q)
            \* The ring is turned over a link to a freed node: from here on
            \* walking the queue reads freed memory.
            /\ status' = IF Rotates(q, f) /\ ~linked THEN "undefined" ELSE status
    /\ UNCHANGED <<n_frames, holds, dirty, data, page_map, free_frames,
                   bulk_import, num_pins, num_pages, disk>>

UnpinFails(p) ==
    /\ status = "up"
    /\ ~CanUnpin(p)
    /\ Exit("bad unpin")
    /\ UNCHANGED num_pages

\* write_ulong, write_uchar, write_double, write_string.
WriteData(f, v) ==
    /\ status = "up"
    /\ f \in InUse
    /\ pin_count[f] >= 1
    /\ data' = [data EXCEPT ![f] = v]
    /\ dirty' = [dirty EXCEPT ![f] = TRUE]
    /\ UNCHANGED <<n_frames, holds, pin_count, page_map, free_frames, queueVars,
                   bulk_import, countVars, num_pages, disk, status>>

\* Reading or writing through a page that is not pinned.
AccessFails(f) ==
    /\ status = "up"
    /\ f \in Unpinned
    /\ Exit("bad access")
    /\ UNCHANGED num_pages

------------------------------------------------------------------------------
(* flush_page, flush_all_pages, evict called by itself *)

FlushPagePinned(f) ==
    /\ status = "up"
    /\ f \in InUse
    /\ Flush({f})
    /\ UNCHANGED <<n_frames, holds, pin_count, data, page_map, free_frames,
                   queueVars, bulk_import, countVars, num_pages, status>>

FlushPage(f) ==
    /\ status = "up"
    /\ f \in Unpinned
    /\ Flush({f})
    /\ UNCHANGED <<n_frames, holds, pin_count, data, page_map, free_frames,
                   queueVars, bulk_import, countVars, num_pages, status>>

FlushPageFails(f) ==
    /\ status = "up"
    /\ f \in InUse \ Unpinned
    /\ Exit("pinned")
    /\ UNCHANGED num_pages

FlushAllPages ==
    /\ status = "up"
    /\ Unpinned = InUse
    /\ Flush(InUse)
    /\ UNCHANGED <<n_frames, holds, pin_count, data, page_map, free_frames,
                   queueVars, bulk_import, countVars, num_pages, status>>

\* flush_all_pages, also as the first thing page_cache_destroy and
\* page_cache_change_n_frames do: it exits at the first pinned frame, the
\* frames before that one are written.
FlushAllFails ==
    /\ status = "up"
    /\ Unpinned # InUse
    /\ Flush({f \in InUse : 0 .. f \subseteq Unpinned})
    /\ status' = "pinned"
    /\ UNCHANGED <<n_frames, holds, pin_count, data, page_map, free_frames,
                   queueVars, bulk_import, countVars, num_pages>>

\* evict is exported; a call while a freed frame is still queued would index
\* page_map[invalid], so callers outside pin_page must not have left bulk mode.
Evict ==
    /\ status = "up"
    /\ \A f \in Range(recently_referenced) : holds[f] # NoPage
    /\ \E v \in LruVictims :
          /\ v # <<>>
          /\ Flush(Range(v))
          /\ holds' = EvictedHolds(Range(v))
          /\ data' = EvictedData(Range(v))
          /\ page_map' = EvictedMap(Range(v))
          /\ free_frames' = free_frames \o v
          /\ Dequeued(Range(v))
    /\ UNCHANGED <<n_frames, pin_count, bulk_import, countVars, num_pages,
                   status>>

\* Called by itself, evict also gives up when nothing is cached.
EvictFails ==
    /\ status = "up"
    /\ Range(recently_referenced) \cap Unpinned = {}
    /\ Exit("not queued")
    /\ UNCHANGED num_pages

------------------------------------------------------------------------------
(* page_cache_change_n_frames, page_cache_destroy, page_cache_create *)

ChangeNFramesPinned(n) ==
    /\ status = "up"
    /\ Flush(InUse)
    /\ Fresh(n)
    /\ UNCHANGED <<bulk_import, countVars, num_pages, status>>

ChangeNFrames(n) ==
    /\ status = "up"
    /\ Unpinned = InUse
    /\ Flush(InUse)
    /\ Fresh(n)
    /\ UNCHANGED <<bulk_import, countVars, num_pages, status>>

DestroyUnflushed ==
    /\ status = "up"
    /\ status' = "closed"
    /\ UNCHANGED <<n_frames, frameVars, free_frames, queueVars, bulk_import,
                   countVars, num_pages, disk>>

Destroy ==
    /\ status = "up"
    /\ Unpinned = InUse
    /\ Flush(InUse)
    /\ status' = "closed"
    /\ UNCHANGED <<n_frames, holds, pin_count, data, page_map, free_frames,
                   queueVars, bulk_import, countVars, num_pages>>

\* A process that opens the same files; nothing is assumed of one that ran
\* into undefined behaviour.
Create(n) ==
    /\ status \notin {"up", "undefined"}
    /\ Fresh(n)
    /\ dirty' = [f \in Frames |-> FALSE]
    /\ bulk_import' = FALSE
    /\ num_pins' = 0
    /\ num_unpins' = 0
    /\ status' = "up"
    /\ UNCHANGED <<num_pages, disk>>

\* import_from_txt turns bulk mode on and, at its end, off.
SetBulkImport(b) ==
    /\ status = "up"
    /\ bulk_import' = b
    /\ UNCHANGED <<n_frames, frameVars, free_frames, queueVars, countVars,
                   num_pages, disk, status>>

\* exit(EXIT_FAILURE) in a layer above.
ExitElsewhere ==
    /\ status = "up"
    /\ Exit("elsewhere")
    /\ UNCHANGED num_pages

Init ==
    /\ n_frames \in 1 .. MaxFrames
    /\ holds = [f \in Frames |-> NoPage]
    /\ pin_count = [f \in Frames |-> 0]
    /\ dirty = [f \in Frames |-> FALSE]
    /\ data = [f \in Frames |-> Zero]
    /\ page_map = [p \in Pages |-> NoFrame]
    /\ free_frames = [i \in 1 .. n_frames |-> i - 1]
    /\ recently_referenced = <<>>
    /\ linked = TRUE
    /\ bulk_import = FALSE
    /\ num_pins = 0
    /\ num_unpins = 0
    /\ num_pages = [file \in Files |-> IF file[1] = "header" THEN 1 ELSE 0]
    /\ disk = [p \in Pages |-> Zero]
    /\ status = "up"

Next ==
    \/ \E p \in Pages :
          PinPage(p) \/ PinOutOfBounds(p) \/ UnpinPage(p) \/ UnpinFails(p)
    \/ \E ft \in FileTypes : Allocate(ft) \/ NewPage(ft)
    \/ \E f \in Frames :
          AccessFails(f) \/ FlushPage(f) \/ FlushPageFails(f)
    \/ \E f \in Frames, v \in Values : WriteData(f, v)
    \/ FlushAllPages
    \/ FlushAllFails
    \/ Evict
    \/ EvictFails
    \/ \E n \in 1 .. MaxFrames : ChangeNFrames(n) \/ Create(n)
    \/ Destroy
    \/ \E b \in BulkModes : SetBulkImport(b)
    \/ ExitElsewhere

Spec == Init /\ [][Next]_vars

------------------------------------------------------------------------------
(* Properties *)

\* The dictionaries and the frames describe the same placement: pin_page finds
\* page p in frame f exactly when frame f holds p.  In particular no page is in
\* two frames, where two clients could write different copies of it.
MapMatchesFrames ==
    \A p \in Pages, f \in Frames : page_map[p] = f <=> holds[f] = p

\* Every frame in use is either free or holds a page, no frame is free twice,
\* and a free frame is clean and unpinned: whatever order pin, evict, bulk
\* evict and resize come in, no frame leaks and none is handed out twice.
FreeListExact ==
    /\ IsInjective(free_frames)
    /\ Range(free_frames) = {f \in InUse : holds[f] = NoPage}
    /\ \A f \in Frames : holds[f] = NoPage =>
          pin_count[f] = 0 /\ ~dirty[f] /\ data[f] = Zero
    /\ \A f \in Frames \ InUse : holds[f] = NoPage

\* A frame that is not dirty is a copy of its page on disk: evicting it without
\* writing it back, as flush_page does, loses nothing.
CleanMeansSaved ==
    \A f \in Frames : holds[f] # NoPage /\ ~dirty[f] => data[f] = disk[holds[f]]

\* evict and, as page_cache.h says of it too, bulk_evict remove the frames they
\* free from the queue.
NoFreeFrameQueued ==
    Range(recently_referenced) \cap Range(free_frames) = {}

UnpinnedQueued ==
    \A f \in InUse :
        holds[f] # NoPage /\ pin_count[f] = 0 => f \in Range(recently_referenced)

\* Every unpinned page is a candidate of evict, and no free frame is one.
QueueExact == UnpinnedQueued /\ NoFreeFrameQueued

\* evict gives up with "all pages are pinned" only when they are.
AllPinnedIsTrue ==
    status = "all pinned" => \A f \in InUse : pin_count[f] > 0

\* The pointer pin_page returned stays valid until the matching unpin_page: no
\* call replaces the page of a pinned frame or takes the frame away.
PinnedFrameStays ==
    [][\A f \in Frames : status = "up" /\ pin_count[f] > 0 /\ status' = "up" =>
          holds'[f] = holds[f] /\ f < n_frames']_vars

\* A page on disk changes only by writing back the dirty, unpinned frame that
\* holds it, and then to that frame's content.
DiskChangesByWriteBack ==
    [][\A p \in Pages : disk'[p] # disk[p] =>
          \E f \in Frames : /\ holds[f] = p
                            /\ dirty[f]
                            /\ pin_count[f] = 0
                            /\ disk'[p] = data[f]]_vars

\* The content a client sees: the frame if there is one, the disk otherwise.
Content(p) ==
    IF status = "up" /\ page_map[p] # NoFrame THEN data[page_map[p]] ELSE disk[p]

StoreState == IF status \in Failures THEN "failed" ELSE status

Store == INSTANCE PageStore WITH content <- [p \in Pages |-> Content(p)],
                                 durable <- disk,
                                 state <- StoreState

\* The cache implements PageStore: clients see their last write through every
\* eviction, flush and resize, page_cache_destroy saves everything, and an
\* exit loses exactly the pages not written back.
ImplementsPageStore == Store!Spec
==============================================================================
