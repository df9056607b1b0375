--------------------------- MODULE PageCacheProofs ---------------------------
(***************************************************************************)
(* Proofs about PageCache for every number of frames, pages and values:    *)
(* the placement of pages in frames is consistent, clean frames agree with *)
(* the disk, pinned frames stay, the disk changes only by write-back,      *)
(* without bulk mode a pin fails only when every frame is pinned, and the  *)
(* cache implements PageStore: every step of it is a step of PageStore or  *)
(* one its clients cannot see.                                             *)
(***************************************************************************)
EXTENDS PageCache, SequenceTheorems, TLAPS

------------------------------------------------------------------------------
(* Sequences of distinct frames *)

\* A sequence without repetitions over the frames.
IsDistinct(s) == s \in Seq(Frames) /\ IsInjective(s)

\* The members of DistinctFrames are the sequences the eviction loops build.
LEMMA DistinctFramesAreDistinct ==
    ASSUME NEW r \in DistinctFrames
    PROVE  IsDistinct(r)
  <1>1. PICK n \in 0 .. MaxFrames : r \in Injection(1 .. n, Frames)
    BY DEF DistinctFrames
  <1>2. r \in [1 .. n -> Frames] /\ IsInjective(r)
    BY <1>1 DEF Injection
  <1>3. n \in Nat
    BY BoundsAssumption
  <1> QED
    BY <1>2, <1>3, IsASeq DEF IsDistinct

\* The empty list.
LEMMA EmptyDistinct == IsDistinct(<<>>) /\ Range(<<>>) = {}
  BY DEF IsDistinct, IsInjective, Range

\* Keeping selects elements and repeats none.
LEMMA KeepingProperties ==
    ASSUME NEW q, NEW S, NEW r \in Keeping(q, S)
    PROVE  IsDistinct(r) /\ Range(r) = Range(q) \cap S
  BY DistinctFramesAreDistinct DEF Keeping

\* So does Ascending.
LEMMA AscendingProperties ==
    ASSUME NEW S, NEW r \in Ascending(S)
    PROVE  IsDistinct(r) /\ Range(r) = S
  BY DistinctFramesAreDistinct DEF Ascending

\* The first EVICT_LRU_K candidates: at least one when there is a candidate.
LEMMA UpToProperties ==
    ASSUME NEW k \in Nat \ {0}, NEW c, IsDistinct(c)
    PROVE  /\ IsDistinct(UpTo(k, c))
           /\ Range(UpTo(k, c)) \subseteq Range(c)
           /\ c # <<>> => UpTo(k, c) # <<>>
  <1> DEFINE m == IF k < Len(c) THEN k ELSE Len(c)
  <1>1. c \in Seq(Frames) /\ IsInjective(c) /\ Len(c) \in Nat
    BY LenProperties DEF IsDistinct
  <1>2. m \in 0 .. Len(c) /\ (c # <<>> => m > 0)
    BY <1>1, EmptySeq
  <1>3. /\ UpTo(k, c) \in Seq(Frames)
        /\ Len(UpTo(k, c)) = m
        /\ \A i \in 1 .. m : UpTo(k, c)[i] = c[i]
    <2>1. SubSeq(c, 1, m) = [i \in 1 .. m |-> c[i]]
      BY <1>1, <1>2
    <2>2. UpTo(k, c) = SubSeq(c, 1, m)
      BY DEF UpTo
    <2> QED
      BY <1>1, <1>2, <2>1, <2>2
  <1>4. DOMAIN UpTo(k, c) = 1 .. m /\ DOMAIN c = 1 .. Len(c)
    BY <1>1, <1>3
  <1>5. IsInjective(UpTo(k, c))
    BY <1>1, <1>2, <1>3, <1>4 DEF IsInjective
  <1>6. Range(UpTo(k, c)) \subseteq Range(c)
    BY <1>2, <1>3, <1>4 DEF Range
  <1>7. c # <<>> => UpTo(k, c) # <<>>
    BY <1>2, <1>3
  <1> QED
    BY <1>3, <1>5, <1>6, <1>7 DEF IsDistinct

\* Appending a list of further frames.
LEMMA ConcatDistinct ==
    ASSUME NEW a, NEW b, IsDistinct(a), IsDistinct(b), Range(a) \cap Range(b) = {}
    PROVE  IsDistinct(a \o b) /\ Range(a \o b) = Range(a) \cup Range(b)
  <1>1. a \in Seq(Frames) /\ b \in Seq(Frames) /\ IsInjective(a) /\ IsInjective(b)
    BY DEF IsDistinct
  <1>2. a \o b \in Seq(Frames) /\ Range(a \o b) = Range(a) \cup Range(b)
    BY <1>1, RangeConcatenation
  <1>3. IsInjective(a \o b)
    <2> SUFFICES ASSUME NEW i \in DOMAIN (a \o b), NEW j \in DOMAIN (a \o b),
                        (a \o b)[i] = (a \o b)[j]
                 PROVE  i = j
      BY DEF IsInjective
    <2>1. /\ i \in 1 .. Len(a) + Len(b)
          /\ j \in 1 .. Len(a) + Len(b)
          /\ DOMAIN a = 1 .. Len(a) /\ DOMAIN b = 1 .. Len(b)
          /\ Len(a) \in Nat /\ Len(b) \in Nat
      BY <1>1
    <2>2. \A k \in 1 .. Len(a) + Len(b) :
            (a \o b)[k] = IF k <= Len(a) THEN a[k] ELSE b[k - Len(a)]
      BY <1>1
    <2>3. CASE i <= Len(a) /\ j <= Len(a)
      BY <1>1, <2>1, <2>2, <2>3 DEF IsInjective
    <2>4. CASE i > Len(a) /\ j > Len(a)
      <3>1. i - Len(a) \in DOMAIN b /\ j - Len(a) \in DOMAIN b
        BY <2>1, <2>4
      <3>2. b[i - Len(a)] = b[j - Len(a)]
        BY <2>1, <2>2, <2>4
      <3> QED
        BY <1>1, <2>1, <3>1, <3>2 DEF IsInjective
    <2>5. CASE i <= Len(a) /\ j > Len(a)
      <3>1. a[i] \in Range(a) /\ b[j - Len(a)] \in Range(b)
        BY <2>1, <2>5 DEF Range
      <3> QED
        BY <2>1, <2>2, <2>5, <3>1
    <2>6. CASE i > Len(a) /\ j <= Len(a)
      <3>1. a[j] \in Range(a) /\ b[i - Len(a)] \in Range(b)
        BY <2>1, <2>6 DEF Range
      <3> QED
        BY <2>1, <2>2, <2>6, <3>1
    <2> QED
      BY <2>1, <2>3, <2>4, <2>5, <2>6
  <1> QED
    BY <1>2, <1>3 DEF IsDistinct

\* llist_ul_take at index 0.
LEMMA TailDistinct ==
    ASSUME NEW s, IsDistinct(s), s # <<>>
    PROVE  /\ Head(s) \in Range(s)
           /\ IsDistinct(Tail(s))
           /\ Range(Tail(s)) = Range(s) \ {Head(s)}
  <1>1. /\ s \in Seq(Frames) /\ IsInjective(s)
        /\ Len(s) \in Nat /\ Len(s) > 0 /\ DOMAIN s = 1 .. Len(s)
        /\ Head(s) = s[1]
    BY DEF IsDistinct
  <1>2. /\ Tail(s) \in Seq(Frames) /\ DOMAIN Tail(s) = 1 .. Len(s) - 1
        /\ \A i \in 1 .. Len(s) - 1 : Tail(s)[i] = s[i + 1]
    BY <1>1
  <1>3. IsInjective(Tail(s))
    BY <1>1, <1>2 DEF IsInjective
  <1>4. Range(Tail(s)) = Range(s) \ {Head(s)}
    <2>1. ASSUME NEW x \in Range(Tail(s)) PROVE x \in Range(s) \ {Head(s)}
      <3>1. PICK i \in 1 .. Len(s) - 1 : x = s[i + 1]
        BY <1>2, <2>1 DEF Range
      <3>2. i + 1 \in 1 .. Len(s) /\ i + 1 # 1 /\ 1 \in 1 .. Len(s)
        BY <1>1, <3>1
      <3> QED
        BY <1>1, <3>1, <3>2 DEF Range, IsInjective
    <2>2. ASSUME NEW x \in Range(s), x # Head(s) PROVE x \in Range(Tail(s))
      <3>1. PICK i \in 1 .. Len(s) : x = s[i]
        BY <1>1, <2>2 DEF Range
      <3>2. i - 1 \in 1 .. Len(s) - 1 /\ (i - 1) + 1 = i
        BY <1>1, <2>2, <3>1
      <3>3. x = Tail(s)[i - 1]
        BY <1>2, <3>1, <3>2
      <3> QED
        BY <1>2, <3>2, <3>3 DEF Range
    <2> QED
      BY <2>1, <2>2
  <1>5. Head(s) \in Range(s)
    BY <1>1 DEF Range
  <1> QED
    BY <1>2, <1>3, <1>4, <1>5 DEF IsDistinct

\* queue_ul_move_back: whatever it does to the order, the queue gains at most
\* the frame it was called with and repeats none.
LEMMA MoveBackDistinct ==
    ASSUME NEW q, IsDistinct(q), NEW f \in Frames
    PROVE  IsDistinct(MoveBack(q, f)) /\ Range(MoveBack(q, f)) = Range(q) \cup {f}
  <1>0. q \in Seq(Frames) /\ IsInjective(q) /\ Len(q) \in Nat
        /\ DOMAIN q = 1 .. Len(q)
    BY DEF IsDistinct
  <1>s. ASSUME NEW x \in Frames
        PROVE  IsDistinct(<<x>>) /\ Range(<<x>>) = {x}
    <2>1. <<x>> \in Seq(Frames) /\ DOMAIN <<x>> = {1} /\ <<x>>[1] = x
      OBVIOUS
    <2> QED
      BY <2>1 DEF IsDistinct, IsInjective, Range
  <1>a. ASSUME NEW s, IsDistinct(s), NEW x \in Frames, x \notin Range(s)
        PROVE  IsDistinct(Append(s, x)) /\ Range(Append(s, x)) = Range(s) \cup {x}
    <2>1. Append(s, x) = s \o <<x>>
      BY <1>a, AppendIsConcat DEF IsDistinct
    <2>2. IsDistinct(<<x>>) /\ Range(<<x>>) = {x}
      BY <1>s
    <2>3. Range(s) \cap Range(<<x>>) = {}
      BY <1>a, <2>2
    <2> QED
      BY <1>a, <2>1, <2>2, <2>3, ConcatDistinct
  <1>1. CASE f \notin Range(q)
    BY <1>1, <1>a DEF MoveBack
  <1>2. CASE f \in Range(q) /\ Head(q) = f
    BY <1>2 DEF MoveBack
  <1>3. CASE f \in Range(q) /\ Head(q) # f /\ q[Len(q)] = f
    <2>1. q # <<>> /\ MoveBack(q, f) = Append(Tail(q), Head(q))
      BY <1>0, <1>3 DEF MoveBack, Range
    <2>2. /\ Head(q) \in Range(q) /\ IsDistinct(Tail(q))
          /\ Range(Tail(q)) = Range(q) \ {Head(q)}
      BY <2>1, TailDistinct
    <2>3. Head(q) \in Frames
      BY <1>0, <2>1
    <2> QED
      BY <1>3, <1>a, <2>1, <2>2, <2>3
  <1>4. CASE f \in Range(q) /\ Head(q) # f /\ q[Len(q)] # f
    <2> DEFINE k == CHOOSE i \in 1 .. Len(q) : q[i] = f
               a == SubSeq(q, 1, k - 1)
               b == SubSeq(q, k + 1, Len(q))
    <2>1. k \in 1 .. Len(q) /\ q[k] = f
      BY <1>0, <1>4 DEF Range
    <2> HIDE DEF k
    <2>2. /\ a \in Seq(Frames) /\ DOMAIN a = 1 .. k - 1
          /\ \A i \in 1 .. k - 1 : a[i] = q[i]
      BY <1>0, <2>1
    <2>3. /\ b \in Seq(Frames) /\ DOMAIN b = 1 .. Len(q) - k
          /\ \A i \in 1 .. Len(q) - k : b[i] = q[i + k]
      <3>1. b = [i \in 1 .. Len(q) - k |-> q[i + k]]
        BY <1>0, <2>1
      <3> QED
        BY <1>0, <2>1, <3>1, IsASeq
    <2> HIDE DEF a, b
    <2>i. /\ \A i \in 1 .. k - 1 : i \in 1 .. Len(q) /\ i # k
          /\ \A i \in 1 .. Len(q) - k : i + k \in 1 .. Len(q) /\ i + k # k
          /\ \A i \in 1 .. k - 1, j \in 1 .. Len(q) - k : i # j + k
          /\ \A i, j \in 1 .. Len(q) - k : i + k = j + k => i = j
      BY <1>0, <2>1
    <2>j. \A i, j \in 1 .. Len(q) : q[i] = q[j] => i = j
      BY <1>0 DEF IsInjective
    <2>4. IsDistinct(a) /\ IsDistinct(b)
      <3>1. IsInjective(a)
        BY <2>2, <2>i, <2>j DEF IsInjective
      <3>2. IsInjective(b)
        <4>1. ASSUME NEW i \in 1 .. Len(q) - k, NEW j \in 1 .. Len(q) - k,
                     b[i] = b[j]
              PROVE  i = j
          <5>1. q[i + k] = q[j + k]
            BY <2>3, <4>1
          <5> QED
            BY <2>i, <2>j, <5>1
        <4> QED
          BY <2>3, <4>1 DEF IsInjective
      <3> QED
        BY <2>2, <2>3, <3>1, <3>2 DEF IsDistinct
    <2>5. Range(a) \cap Range(b) = {} /\ f \notin Range(a) \cup Range(b)
      <3>1. ASSUME NEW i \in 1 .. k - 1
            PROVE  a[i] # f
        BY <2>1, <2>2, <2>i, <2>j
      <3>2. ASSUME NEW j \in 1 .. Len(q) - k
            PROVE  b[j] # f
        <4>1. b[j] = q[j + k]
          BY <2>3
        <4> QED
          BY <2>1, <2>i, <2>j, <4>1
      <3>3. ASSUME NEW i \in 1 .. k - 1, NEW j \in 1 .. Len(q) - k
            PROVE  a[i] # b[j]
        <4>1. b[j] = q[j + k] /\ a[i] = q[i]
          BY <2>2, <2>3
        <4> QED
          BY <2>i, <2>j, <4>1
      <3> QED
        BY <2>2, <2>3, <3>1, <3>2, <3>3 DEF Range
    <2>6. Range(q) = Range(a) \cup Range(b) \cup {f}
      <3>1. ASSUME NEW i \in 1 .. Len(q)
            PROVE  q[i] \in Range(a) \cup Range(b) \cup {f}
        <4>1. CASE i < k
          BY <2>1, <2>2, <4>1 DEF Range
        <4>2. CASE i = k
          BY <2>1, <4>2
        <4>3. CASE i > k
          <5>1. i - k \in 1 .. Len(q) - k /\ (i - k) + k = i
            BY <1>0, <2>1, <4>3
          <5>2. b[i - k] = q[i]
            BY <2>3, <5>1
          <5> QED
            BY <2>3, <5>1, <5>2 DEF Range
        <4> QED
          BY <2>1, <4>1, <4>2, <4>3
      <3>2. ASSUME NEW i \in 1 .. k - 1 PROVE a[i] \in Range(q)
        BY <1>0, <2>2, <2>i DEF Range
      <3>3. ASSUME NEW j \in 1 .. Len(q) - k PROVE b[j] \in Range(q)
        <4>1. b[j] = q[j + k] /\ j + k \in DOMAIN q
          BY <1>0, <2>3, <2>i
        <4> QED
          BY <4>1 DEF Range
      <3>4. Range(a) \subseteq Range(q) /\ Range(b) \subseteq Range(q)
        BY <2>2, <2>3, <3>2, <3>3 DEF Range
      <3>5. Range(q) \subseteq Range(a) \cup Range(b) \cup {f}
        BY <1>0, <3>1 DEF Range
      <3> QED
        BY <1>4, <3>4, <3>5
    <2>7. MoveBack(q, f) = Append(a \o b, f)
      BY <1>4 DEF MoveBack, a, b, k
    <2>8. IsDistinct(a \o b) /\ Range(a \o b) = Range(a) \cup Range(b)
      BY <2>4, <2>5, ConcatDistinct
    <2> QED
      BY <1>a, <2>5, <2>6, <2>7, <2>8
  <1> QED
    BY <1>1, <1>2, <1>3, <1>4

\* The free list page_cache_create and page_cache_change_n_frames build.
LEMMA FreshFreeList ==
    ASSUME NEW n \in 1 .. MaxFrames
    PROVE  LET s == [i \in 1 .. n |-> i - 1]
           IN  IsDistinct(s) /\ Range(s) = 0 .. n - 1
  <1> DEFINE s == [i \in 1 .. n |-> i - 1]
  <1>1. n \in Nat /\ \A i \in 1 .. n : i - 1 \in Frames
    BY BoundsAssumption DEF Frames
  <1>2. s \in [1 .. n -> Frames]
    BY <1>1
  <1>3. s \in Seq(Frames)
    BY <1>1, <1>2, IsASeq
  <1>4. IsInjective(s)
    BY <1>1 DEF IsInjective
  <1>5. Range(s) = 0 .. n - 1
    <2>1. ASSUME NEW x \in 0 .. n - 1 PROVE x \in Range(s)
      <3>1. x + 1 \in 1 .. n /\ s[x + 1] = x
        BY <1>1
      <3> QED
        BY <3>1 DEF Range
    <2>2. Range(s) \subseteq 0 .. n - 1
      BY <1>1 DEF Range
    <2> QED
      BY <2>1, <2>2
  <1> QED
    BY <1>3, <1>4, <1>5 DEF IsDistinct

------------------------------------------------------------------------------
(* The inductive invariant *)

\* The four invariants of the placement support each other: a page is evicted
\* through the dictionaries (MapMatchesFrames), to a frame the free list must
\* not already have (FreeListExact), and reading it back gives what was written
\* because what was not dirty was saved (CleanMeansSaved).  The queue may hold
\* free frames after bulk mode; only that it repeats none is needed.
IInv ==
    /\ TypeOK
    /\ MapMatchesFrames
    /\ FreeListExact
    /\ CleanMeansSaved
    /\ IsInjective(recently_referenced)

\* No frame number is NoFrame.
LEMMA FramesAreNat == Frames \subseteq Nat /\ NoFrame \notin Frames
  BY BoundsAssumption DEF Frames, NoFrame

\* flush_page of the frames in S writes each dirty one to its page and leaves
\* every other page of the disk files alone.
LEMMA FlushedDiskProperties ==
    ASSUME TypeOK, MapMatchesFrames, NEW S \in SUBSET Frames
    PROVE  /\ FlushedDisk(S) \in [Pages -> Values]
           /\ \A f \in S : holds[f] # NoPage /\ dirty[f] =>
                 FlushedDisk(S)[holds[f]] = data[f]
           /\ \A p \in Pages : (\A f \in S : holds[f] = p => ~dirty[f]) =>
                 FlushedDisk(S)[p] = disk[p]
  <1>1. ASSUME NEW p \in Pages, NEW f \in S, dirty[f], holds[f] = p
        PROVE  FlushedDisk(S)[p] = data[f]
    <2> DEFINE g == CHOOSE x \in S : dirty[x] /\ holds[x] = p
    <2>1. g \in S /\ dirty[g] /\ holds[g] = p
      BY <1>1
    <2>2. page_map[p] = f /\ page_map[p] = g
      BY <1>1, <2>1 DEF MapMatchesFrames
    <2>3. FlushedDisk(S)[p] = data[g]
      BY <1>1 DEF FlushedDisk
    <2> QED
      BY <2>2, <2>3
  <1>2. ASSUME NEW p \in Pages, \A f \in S : holds[f] = p => ~dirty[f]
        PROVE  FlushedDisk(S)[p] = disk[p]
    BY <1>2 DEF FlushedDisk
  <1>3. \A f \in S : holds[f] # NoPage => holds[f] \in Pages
    BY DEF TypeOK
  <1>4. ASSUME NEW p \in Pages
        PROVE  FlushedDisk(S)[p] \in Values
    <2>1. CASE \E f \in S : dirty[f] /\ holds[f] = p
      BY <1>1, <2>1 DEF TypeOK
    <2>2. CASE ~ \E f \in S : dirty[f] /\ holds[f] = p
      <3>1. FlushedDisk(S)[p] = disk[p]
        BY <1>2, <2>2
      <3> QED
        BY <3>1 DEF TypeOK
    <2> QED
      BY <2>1, <2>2
  <1>5. FlushedDisk(S) \in [Pages -> Values]
    <2>1. FlushedDisk(S) = [p \in Pages |-> FlushedDisk(S)[p]]
      BY DEF FlushedDisk
    <2> QED
      BY <1>4, <2>1
  <1> QED
    BY <1>1, <1>2, <1>3, <1>5

\* evict and bulk_evict of a set of unpinned frames: the frames they leave
\* behind are placed consistently, and clean ones still agree with the disk.
LEMMA EvictionProperties ==
    ASSUME IInv, NEW V \in SUBSET Unpinned
    PROVE  /\ EvictedHolds(V) \in [Frames -> Pages \cup {NoPage}]
           /\ FlushedDirty(V) \in [Frames -> BOOLEAN]
           /\ EvictedData(V) \in [Frames -> Values]
           /\ EvictedMap(V) \in [Pages -> Frames \cup {NoFrame}]
           /\ FlushedDisk(V) \in [Pages -> Values]
           /\ \A p \in Pages, f \in Frames :
                 EvictedMap(V)[p] = f <=> EvictedHolds(V)[f] = p
           /\ \A f \in Frames : EvictedHolds(V)[f] = NoPage =>
                 /\ pin_count[f] = 0
                 /\ ~FlushedDirty(V)[f]
                 /\ EvictedData(V)[f] = Zero
           /\ \A f \in Frames :
                 EvictedHolds(V)[f] = NoPage <=> holds[f] = NoPage \/ f \in V
           /\ \A f \in Frames :
                 EvictedHolds(V)[f] # NoPage /\ ~FlushedDirty(V)[f] =>
                    EvictedData(V)[f] = FlushedDisk(V)[EvictedHolds(V)[f]]
  <1>1. V \subseteq Frames /\ \A f \in V : pin_count[f] = 0
    BY BoundsAssumption DEF IInv, TypeOK, Unpinned, InUse, Frames
  <1>2. /\ FlushedDisk(V) \in [Pages -> Values]
        /\ \A p \in Pages : (\A f \in V : holds[f] = p => ~dirty[f]) =>
              FlushedDisk(V)[p] = disk[p]
    BY <1>1, FlushedDiskProperties DEF IInv
  <1>3. /\ EvictedHolds(V) \in [Frames -> Pages \cup {NoPage}]
        /\ FlushedDirty(V) \in [Frames -> BOOLEAN]
        /\ EvictedData(V) \in [Frames -> Values]
        /\ EvictedMap(V) \in [Pages -> Frames \cup {NoFrame}]
    BY ZeroAssumption
       DEF IInv, TypeOK, EvictedHolds, FlushedDirty, EvictedData, EvictedMap
  <1>4. ASSUME NEW p \in Pages, NEW f \in Frames
        PROVE  EvictedMap(V)[p] = f <=> EvictedHolds(V)[f] = p
    <2>1. page_map[p] = f <=> holds[f] = p
      BY DEF IInv, MapMatchesFrames
    <2>2. \A g \in V : holds[g] = p => page_map[p] = g
      BY <1>1 DEF IInv, MapMatchesFrames
    <2> QED
      BY <2>1, <2>2, NoPageAssumption, FramesAreNat DEF EvictedMap, EvictedHolds
  <1>5. ASSUME NEW f \in Frames, EvictedHolds(V)[f] = NoPage
        PROVE  pin_count[f] = 0 /\ ~FlushedDirty(V)[f] /\ EvictedData(V)[f] = Zero
    BY <1>1, <1>5 DEF IInv, FreeListExact, EvictedHolds, FlushedDirty, EvictedData
  <1>6. ASSUME NEW f \in Frames
        PROVE  EvictedHolds(V)[f] = NoPage <=> holds[f] = NoPage \/ f \in V
    BY DEF EvictedHolds
  <1>7. ASSUME NEW f \in Frames, EvictedHolds(V)[f] # NoPage, ~FlushedDirty(V)[f]
        PROVE  EvictedData(V)[f] = FlushedDisk(V)[EvictedHolds(V)[f]]
    <2>1. f \notin V /\ ~dirty[f] /\ holds[f] # NoPage
      BY <1>6, <1>7 DEF FlushedDirty
    <2>2. holds[f] \in Pages /\ data[f] = disk[holds[f]]
      BY <2>1 DEF IInv, TypeOK, CleanMeansSaved
    <2>3. \A g \in V : holds[g] = holds[f] => g = f
      BY <1>1, <2>2 DEF IInv, MapMatchesFrames
    <2>4. FlushedDisk(V)[holds[f]] = disk[holds[f]]
      BY <1>2, <2>1, <2>2, <2>3
    <2> QED
      BY <2>1, <2>2, <2>4 DEF EvictedData, EvictedHolds
  <1> QED
    BY <1>2, <1>3, <1>4, <1>5, <1>6, <1>7

\* pin_page loads p into frame f once the frames of v are evicted.
LoadsInto(p, v, f) ==
    /\ f \in Range(free_frames) \cup Range(v)
    /\ EvictedHolds(Range(v))[f] = NoPage
    /\ IsDistinct(free_frames')
    /\ Range(free_frames') = (Range(free_frames) \cup Range(v)) \ {f}
    /\ holds' = [EvictedHolds(Range(v)) EXCEPT ![f] = p]
    /\ pin_count' = [pin_count EXCEPT ![f] = 1]
    /\ dirty' = [FlushedDirty(Range(v)) EXCEPT ![f] = FALSE]
    /\ data' = [EvictedData(Range(v)) EXCEPT ![f] = FlushedDisk(Range(v))[p]]
    /\ page_map' = [EvictedMap(Range(v)) EXCEPT ![p] = f]

\* The frame pin_page loads the page into is empty by then: it is the head of
\* the free list.
LEMMA LoadTarget ==
    ASSUME IInv, NEW p \in Pages, page_map[p] = NoFrame,
           NEW v, IsDistinct(v), Range(v) \subseteq Unpinned,
           Range(v) \cap Range(free_frames) = {},
           free_frames # <<>> \/ v # <<>>,
           Load(p, v)
    PROVE  \E f \in Frames : LoadsInto(p, v, f)
  <1> DEFINE free == free_frames \o v
             f == Head(free)
  <1>1. IsDistinct(free) /\ Range(free) = Range(free_frames) \cup Range(v)
    <2>1. IsDistinct(free_frames)
      BY DEF IInv, TypeOK, FreeListExact, IsDistinct
    <2> QED
      BY <2>1, ConcatDistinct
  <1>2. free # <<>>
    <2>1. free_frames \in Seq(Frames) /\ v \in Seq(Frames)
      BY DEF IInv, TypeOK, IsDistinct
    <2> QED
      BY <2>1
  <1>3. /\ f \in Range(free) /\ f \in Frames
        /\ IsDistinct(Tail(free)) /\ Range(Tail(free)) = Range(free) \ {f}
    <2>1. free \in Seq(Frames)
      BY <1>1 DEF IsDistinct
    <2> HIDE DEF free
    <2>2. f \in Frames
      BY <1>2, <2>1
    <2> QED
      BY <1>1, <1>2, <2>2, TailDistinct
  <1> HIDE DEF f, free
  <1>4. EvictedHolds(Range(v))[f] = NoPage
    BY <1>1, <1>3, EvictionProperties DEF IInv, FreeListExact
  <1>5. /\ holds' = [EvictedHolds(Range(v)) EXCEPT ![f] = p]
        /\ pin_count' = [pin_count EXCEPT ![f] = 1]
        /\ dirty' = [FlushedDirty(Range(v)) EXCEPT ![f] = FALSE]
        /\ data' = [EvictedData(Range(v)) EXCEPT ![f] = FlushedDisk(Range(v))[p]]
        /\ page_map' = [EvictedMap(Range(v)) EXCEPT ![p] = f]
        /\ free_frames' = Tail(free)
    BY DEF Load, f, free
  <1>6. LoadsInto(p, v, f)
    BY <1>1, <1>3, <1>4, <1>5 DEF LoadsInto
  <1> QED
    BY <1>3, <1>6

\* The four parts of the invariant that speak of frames and disk, after Load.
LEMMA LoadKeepsPlacement ==
    ASSUME IInv, NEW p \in Pages, page_map[p] = NoFrame,
           NEW v, IsDistinct(v), Range(v) \subseteq Unpinned,
           Range(v) \cap Range(free_frames) = {},
           free_frames # <<>> \/ v # <<>>,
           Load(p, v)
    PROVE  /\ n_frames' \in 1 .. MaxFrames
           /\ holds' \in [Frames -> Pages \cup {NoPage}]
           /\ pin_count' \in [Frames -> 0 .. MaxPins]
           /\ dirty' \in [Frames -> BOOLEAN]
           /\ data' \in [Frames -> Values]
           /\ page_map' \in [Pages -> Frames \cup {NoFrame}]
           /\ free_frames' \in Seq(Frames)
           /\ bulk_import' \in BulkModes
           /\ num_pins' \in 0 .. CounterMod - 1
           /\ num_unpins' \in 0 .. CounterMod - 1
           /\ disk' \in [Pages -> Values]
           /\ status' \in {"up", "closed"} \cup Failures
           /\ MapMatchesFrames'
           /\ FreeListExact'
           /\ CleanMeansSaved'
  <1> DEFINE V == Range(v)
  <1>1. V \in SUBSET Unpinned
    OBVIOUS
  <1>4. PICK f \in Frames :
           /\ f \in Range(free_frames) \cup V
           /\ EvictedHolds(V)[f] = NoPage
           /\ IsDistinct(free_frames')
           /\ Range(free_frames') = (Range(free_frames) \cup V) \ {f}
           /\ holds' = [EvictedHolds(V) EXCEPT ![f] = p]
           /\ pin_count' = [pin_count EXCEPT ![f] = 1]
           /\ dirty' = [FlushedDirty(V) EXCEPT ![f] = FALSE]
           /\ data' = [EvictedData(V) EXCEPT ![f] = FlushedDisk(V)[p]]
           /\ page_map' = [EvictedMap(V) EXCEPT ![p] = f]
    <2>1. \E f \in Frames : LoadsInto(p, v, f)
      BY LoadTarget
    <2> QED
      BY <2>1 DEF LoadsInto
  <1>5. /\ disk' = FlushedDisk(V)
        /\ num_pins' = Increment(num_pins)
        /\ UNCHANGED <<n_frames, bulk_import, num_unpins, status>>
    BY DEF Load
  <1> HIDE DEF V
  <1>7. \A g \in Frames : EvictedHolds(V)[g] # p
    <2>1. EvictedMap(V)[p] = NoFrame
      BY DEF EvictedMap
    <2> QED
      BY <1>1, <2>1, EvictionProperties, FramesAreNat
  <1>8. pin_count' \in [Frames -> 0 .. MaxPins]
    <2>1. 1 \in 0 .. MaxPins /\ pin_count \in [Frames -> 0 .. MaxPins]
      BY BoundsAssumption DEF IInv, TypeOK
    <2> QED
      BY <1>4, <2>1
  <1>9. num_pins' \in 0 .. CounterMod - 1
    BY <1>5, BoundsAssumption DEF IInv, TypeOK, Increment
  <1>10. MapMatchesFrames'
    <2>1. ASSUME NEW q \in Pages, NEW g \in Frames
          PROVE  page_map'[q] = g <=> holds'[g] = q
      <3>1. EvictedMap(V)[q] = g <=> EvictedHolds(V)[g] = q
        BY <1>1, EvictionProperties
      <3>2. /\ page_map'[q] = IF q = p THEN f ELSE EvictedMap(V)[q]
            /\ holds'[g] = IF g = f THEN p ELSE EvictedHolds(V)[g]
        BY <1>1, <1>4, <1>5, EvictionProperties
      <3> QED
        BY <1>4, <1>7, <3>1, <3>2, NoPageAssumption
    <2> QED
      BY <2>1 DEF MapMatchesFrames
  <1>t. /\ holds' \in [Frames -> Pages \cup {NoPage}]
        /\ data' \in [Frames -> Values]
        /\ page_map' \in [Pages -> Frames \cup {NoFrame}]
        /\ disk' \in [Pages -> Values]
    <2>1. /\ EvictedHolds(V) \in [Frames -> Pages \cup {NoPage}]
          /\ EvictedData(V) \in [Frames -> Values]
          /\ EvictedMap(V) \in [Pages -> Frames \cup {NoFrame}]
          /\ FlushedDisk(V) \in [Pages -> Values]
      BY <1>1, EvictionProperties
    <2> QED
      BY <1>4, <1>5, <2>1
  <1>d. dirty' \in [Frames -> BOOLEAN]
    <2>1. FlushedDirty(V) \in [Frames -> BOOLEAN]
      BY <1>1, EvictionProperties
    <2> QED
      BY <1>4, <2>1
  <1>11. ASSUME NEW g \in Frames
         PROVE  /\ holds'[g] = IF g = f THEN p ELSE EvictedHolds(V)[g]
                /\ data'[g] = IF g = f THEN FlushedDisk(V)[p] ELSE EvictedData(V)[g]
                /\ pin_count'[g] = IF g = f THEN 1 ELSE pin_count[g]
                /\ g # f => dirty'[g] = FlushedDirty(V)[g]
    <2>1. /\ EvictedHolds(V) \in [Frames -> Pages \cup {NoPage}]
          /\ EvictedData(V) \in [Frames -> Values]
          /\ pin_count \in [Frames -> 0 .. MaxPins]
          /\ FlushedDirty(V) \in [Frames -> BOOLEAN]
      BY <1>1, EvictionProperties DEF IInv, TypeOK
    <2>2. holds'[g] = IF g = f THEN p ELSE EvictedHolds(V)[g]
      BY <1>4, <2>1
    <2>3. data'[g] = IF g = f THEN FlushedDisk(V)[p] ELSE EvictedData(V)[g]
      BY <1>4, <2>1
    <2>4. pin_count'[g] = IF g = f THEN 1 ELSE pin_count[g]
      BY <1>4, <2>1
    <2>5. g # f => dirty'[g] = FlushedDirty(V)[g]
      BY <1>4, <2>1
    <2> QED
      BY <2>2, <2>3, <2>4, <2>5
  <1>12. FreeListExact'
    <2>1. IsInjective(free_frames')
      BY <1>4 DEF IsDistinct
    <2>2. \A g \in Frames : holds'[g] = NoPage <=>
             g # f /\ (holds[g] = NoPage \/ g \in V)
      <3>1. ASSUME NEW g \in Frames
            PROVE  holds'[g] = NoPage <=> g # f /\ (holds[g] = NoPage \/ g \in V)
        <4>1. EvictedHolds(V)[g] = NoPage <=> holds[g] = NoPage \/ g \in V
          BY <1>1, EvictionProperties
        <4> QED
          BY <1>11, <4>1, NoPageAssumption
      <3> QED
        BY <3>1
    <2>3. InUse' = InUse /\ InUse \subseteq Frames /\ V \subseteq InUse
      BY <1>1, <1>5, BoundsAssumption DEF InUse, Frames, Unpinned, IInv, TypeOK
    <2>4. Range(free_frames) = {g \in InUse : holds[g] = NoPage}
      BY DEF IInv, FreeListExact
    <2>5. Range(free_frames') = {g \in InUse' : holds'[g] = NoPage}
      BY <1>4, <2>2, <2>3, <2>4
    <2>6. \A g \in Frames : holds'[g] = NoPage =>
             pin_count'[g] = 0 /\ ~dirty'[g] /\ data'[g] = Zero
      <3>1. ASSUME NEW g \in Frames, holds'[g] = NoPage
            PROVE  pin_count'[g] = 0 /\ ~dirty'[g] /\ data'[g] = Zero
        <4>1. g # f /\ EvictedHolds(V)[g] = NoPage
          BY <1>11, <2>2, <3>1
        <4>2. /\ pin_count[g] = 0 /\ ~FlushedDirty(V)[g]
              /\ EvictedData(V)[g] = Zero
          <5>1. \A h \in Frames : EvictedHolds(V)[h] = NoPage =>
                   /\ pin_count[h] = 0
                   /\ ~FlushedDirty(V)[h]
                   /\ EvictedData(V)[h] = Zero
            BY <1>1, EvictionProperties, Zenon
          <5> QED
            BY <4>1, <5>1
        <4> QED
          BY <1>11, <4>1, <4>2
      <3> QED
        BY <3>1
    <2>7. \A g \in Frames \ InUse' : holds'[g] = NoPage
      <3>1. f \in InUse
        BY <1>4, <2>3, <2>4
      <3> QED
        BY <2>2, <2>3, <3>1 DEF IInv, FreeListExact
    <2> QED
      BY <2>1, <2>5, <2>6, <2>7 DEF FreeListExact
  <1>13. CleanMeansSaved'
    <2>1. ASSUME NEW g \in Frames, holds'[g] # NoPage, ~dirty'[g]
          PROVE  data'[g] = disk'[holds'[g]]
      <3>1. CASE g = f
        <4>1. data'[g] = FlushedDisk(V)[p] /\ holds'[g] = p
          BY <1>11, <3>1
        <4> QED
          BY <1>5, <4>1
      <3>2. CASE g # f
        <4>1. EvictedHolds(V)[g] # NoPage /\ ~FlushedDirty(V)[g]
          BY <1>11, <2>1, <3>2
        <4>2. EvictedData(V)[g] = FlushedDisk(V)[EvictedHolds(V)[g]]
          <5>1. \A h \in Frames : EvictedHolds(V)[h] # NoPage /\ ~FlushedDirty(V)[h] =>
                   EvictedData(V)[h] = FlushedDisk(V)[EvictedHolds(V)[h]]
            BY <1>1, EvictionProperties, Zenon
          <5> QED
            BY <4>1, <5>1, Zenon
        <4> QED
          BY <1>5, <1>11, <3>2, <4>2
      <3> QED
        BY <3>1, <3>2
    <2> QED
      BY <2>1 DEF CleanMeansSaved
  <1>14. free_frames' \in Seq(Frames)
    BY <1>4 DEF IsDistinct
  <1>15. /\ n_frames' \in 1 .. MaxFrames /\ bulk_import' \in BulkModes
         /\ num_unpins' \in 0 .. CounterMod - 1
         /\ status' \in {"up", "closed"} \cup Failures
    BY <1>5 DEF IInv, TypeOK
  <1> QED
    BY <1>8, <1>9, <1>10, <1>t, <1>d, <1>12, <1>13, <1>14, <1>15

------------------------------------------------------------------------------
(* Every step preserves the invariant *)

\* The victims of evict, as pin_page calls it, satisfy what Load asks of them.
LEMMA EvictVictims ==
    ASSUME IInv, NEW v \in LruVictims
    PROVE  /\ IsDistinct(v)
           /\ Range(v) \subseteq Unpinned
           /\ Range(v) \subseteq Range(recently_referenced)
  <1>1. PICK c \in Keeping(recently_referenced, Unpinned) : v = UpTo(EvictLruK, c)
    BY DEF LruVictims
  <1>2. IsDistinct(c) /\ Range(c) = Range(recently_referenced) \cap Unpinned
    BY <1>1, KeepingProperties
  <1> QED
    BY <1>1, <1>2, UpToProperties, BoundsAssumption

\* The ways pin_page gets a frame for a page that is in none.
LEMMA FetchCases ==
    ASSUME IInv, NEW p \in Pages, Fetch(p)
    PROVE  \/ PinHit(p)
           \/ Exit("all pinned")
           \/ /\ page_map[p] = NoFrame
              /\ \E v : /\ IsDistinct(v)
                        /\ Range(v) \subseteq Unpinned
                        /\ Range(v) \cap Range(free_frames) = {}
                        /\ free_frames # <<>> \/ v # <<>>
                        /\ Load(p, v)
                        /\ \/ UNCHANGED queueVars
                           \/ Dequeued(Range(v))
  <1>e. free_frames = <<>> => Range(free_frames) = {}
    BY EmptyDistinct
  <1>1. CASE PinFree(p)
    BY <1>1, EmptyDistinct DEF PinFree
  <1>2. CASE PinEvict(p)
    BY <1>2, <1>e, EvictVictims DEF PinEvict
  <1>3. CASE PinBulkEvict(p)
    <2>1. PICK v \in Ascending(Unpinned) : v # <<>> /\ Load(p, v)
      BY <1>3 DEF PinBulkEvict
    <2>2. IsDistinct(v) /\ Range(v) = Unpinned
      BY <2>1, AscendingProperties
    <2> QED
      BY <1>3, <1>e, <2>1, <2>2 DEF PinBulkEvict
  <1> QED
    BY <1>1, <1>2, <1>3 DEF Fetch, PinEvictFails, PinBulkEvictFails

\* exit(EXIT_FAILURE) changes nothing the invariant speaks of.
LEMMA ExitKeeps ==
    ASSUME IInv, NEW reason \in Failures, Exit(reason),
           num_pages' \in [Files -> Nat]
    PROVE  IInv'
  <1> USE DEF IInv, Exit, frameVars, queueVars, countVars
  <1>1. TypeOK'
    BY DEF TypeOK
  <1>2. MapMatchesFrames' /\ CleanMeansSaved'
    BY DEF MapMatchesFrames, CleanMeansSaved
  <1>3. FreeListExact'
    BY DEF FreeListExact, InUse
  <1> QED
    BY <1>1, <1>2, <1>3

\* allocate_pages keeps num_pages a table of page counts.
LEMMA AllocatePagesKeeps ==
    ASSUME TypeOK, NEW ft \in FileTypes, AllocatePages(ft)
    PROVE  /\ num_pages' \in [Files -> Nat]
           /\ <<<<"records", ft>>, num_pages[<<"records", ft>>]>> \in Pages
  <1>1. <<"records", ft>> \in Files /\ <<"header", ft>> \in Files
    BY DEF Files, Records, Headers
  <1>2. num_pages \in [Files -> Nat]
    BY DEF TypeOK
  <1>3. PICK h \in {0, 1} :
           num_pages' = [num_pages EXCEPT ![<<"records", ft>>] = @ + 1,
                                          ![<<"header", ft>>] = @ + h]
    BY DEF AllocatePages
  <1>4. num_pages[<<"records", ft>>] \in 0 .. RecordPages - 1
    BY <1>1, <1>2, BoundsAssumption DEF AllocatePages
  <1> QED
    BY <1>1, <1>2, <1>3, <1>4 DEF Pages, Records

\* pin_page, whichever way it gets its frame.
LEMMA FetchKeeps ==
    ASSUME IInv, NEW p \in Pages, Fetch(p), num_pages' \in [Files -> Nat]
    PROVE  IInv'
  <1>l. ASSUME page_map[p] = NoFrame,
               NEW v, IsDistinct(v), Range(v) \subseteq Unpinned,
               Range(v) \cap Range(free_frames) = {},
               free_frames # <<>> \/ v # <<>>,
               Load(p, v),
               IsDistinct(recently_referenced'), linked' \in BOOLEAN
        PROVE  IInv'
    <2>1. /\ n_frames' \in 1 .. MaxFrames
          /\ holds' \in [Frames -> Pages \cup {NoPage}]
          /\ pin_count' \in [Frames -> 0 .. MaxPins]
          /\ dirty' \in [Frames -> BOOLEAN]
          /\ data' \in [Frames -> Values]
          /\ page_map' \in [Pages -> Frames \cup {NoFrame}]
          /\ free_frames' \in Seq(Frames)
          /\ bulk_import' \in BulkModes
          /\ num_pins' \in 0 .. CounterMod - 1
          /\ num_unpins' \in 0 .. CounterMod - 1
          /\ disk' \in [Pages -> Values]
          /\ status' \in {"up", "closed"} \cup Failures
          /\ MapMatchesFrames' /\ FreeListExact' /\ CleanMeansSaved'
      BY <1>l, LoadKeepsPlacement
    <2>2. TypeOK'
      BY <1>l, <2>1 DEF TypeOK, IsDistinct
    <2> QED
      BY <1>l, <2>1, <2>2 DEF IInv, IsDistinct
  <1>1. CASE PinHit(p)
    <2> DEFINE f == page_map[p]
    <2>1. f \in Frames /\ holds[f] = p /\ pin_count[f] + 1 \in 0 .. MaxPins
      BY <1>1, BoundsAssumption DEF PinHit, IInv, TypeOK, MapMatchesFrames
    <2>2. holds[f] # NoPage
      BY <2>1, NoPageAssumption
    <2> HIDE DEF f
    <2>3. pin_count' = [pin_count EXCEPT ![f] = pin_count[f] + 1]
      BY <1>1 DEF PinHit, f
    <2>4. /\ num_pins' = Increment(num_pins)
          /\ UNCHANGED <<n_frames, holds, dirty, data, page_map, free_frames,
                         recently_referenced, linked, bulk_import, num_unpins,
                         disk, status>>
      BY <1>1 DEF PinHit, queueVars
    <2>5. num_pins' \in 0 .. CounterMod - 1
      BY <2>4, BoundsAssumption DEF Increment, IInv, TypeOK
    <2>6. pin_count' \in [Frames -> 0 .. MaxPins]
      BY <2>1, <2>3 DEF IInv, TypeOK
    <2>7. TypeOK'
      BY <2>4, <2>5, <2>6 DEF IInv, TypeOK
    <2>8. MapMatchesFrames' /\ CleanMeansSaved' /\ IsInjective(recently_referenced')
      BY <2>4 DEF IInv, MapMatchesFrames, CleanMeansSaved
    <2>9. \A g \in Frames : g # f => pin_count'[g] = pin_count[g]
      BY <2>1, <2>3 DEF IInv, TypeOK
    <2>10. FreeListExact'
      BY <2>2, <2>4, <2>9 DEF IInv, FreeListExact, InUse
    <2> QED
      BY <2>7, <2>8, <2>10 DEF IInv
  <1>2. CASE Exit("all pinned")
    BY <1>2, ExitKeeps DEF Failures
  <1>3. CASE /\ page_map[p] = NoFrame
             /\ \E v : /\ IsDistinct(v)
                       /\ Range(v) \subseteq Unpinned
                       /\ Range(v) \cap Range(free_frames) = {}
                       /\ free_frames # <<>> \/ v # <<>>
                       /\ Load(p, v)
                       /\ UNCHANGED queueVars \/ Dequeued(Range(v))
    <2>1. IsDistinct(recently_referenced) /\ linked \in BOOLEAN
      BY DEF IInv, TypeOK, IsDistinct
    <2>2. ASSUME NEW v, UNCHANGED queueVars \/ Dequeued(Range(v))
          PROVE  IsDistinct(recently_referenced') /\ linked' \in BOOLEAN
      BY <2>1, <2>2, KeepingProperties DEF queueVars, Dequeued
    <2> QED
      BY <1>3, <1>l, <2>2
  <1> QED
    BY <1>1, <1>2, <1>3, FetchCases

\* unpin_page; the order move_back leaves the queue in does not matter here.
LEMMA UnpinKeeps ==
    ASSUME IInv, NEW p \in Pages, UnpinPage(p)
    PROVE  IInv'
  <1> DEFINE f == page_map[p]
  <1>1. f \in Frames /\ pin_count[f] - 1 \in 0 .. MaxPins
    BY BoundsAssumption DEF UnpinPage, CanUnpin, IInv, TypeOK
  <1>2. /\ pin_count' = [pin_count EXCEPT ![f] = pin_count[f] - 1]
        /\ num_unpins' = Increment(num_unpins)
        /\ UNCHANGED <<n_frames, holds, dirty, data, page_map, free_frames,
                       bulk_import, num_pins, num_pages, disk>>
    BY DEF UnpinPage, CanUnpin
  <1>3. /\ IsDistinct(recently_referenced') /\ linked' \in BOOLEAN
        /\ status' \in {"up", "closed"} \cup Failures
    <2>1. IsDistinct(recently_referenced)
      BY DEF IInv, TypeOK, IsDistinct
    <2>2. CASE bulk_import
      BY <2>1, <2>2 DEF UnpinPage, CanUnpin, queueVars, IInv, TypeOK
    <2>3. CASE ~bulk_import
      BY <1>1, <2>1, <2>3, MoveBackDistinct DEF UnpinPage, CanUnpin, IInv, TypeOK, Failures
    <2> QED
      BY <2>2, <2>3
  <1> HIDE DEF f
  <1>4. num_unpins' \in 0 .. CounterMod - 1
    BY <1>2, BoundsAssumption DEF Increment, IInv, TypeOK
  <1>5. pin_count' \in [Frames -> 0 .. MaxPins]
    BY <1>1, <1>2 DEF IInv, TypeOK
  <1>6. TypeOK'
    BY <1>2, <1>3, <1>4, <1>5 DEF IInv, TypeOK, IsDistinct
  <1>7. MapMatchesFrames' /\ CleanMeansSaved' /\ IsInjective(recently_referenced')
    BY <1>2, <1>3 DEF IInv, MapMatchesFrames, CleanMeansSaved, IsDistinct
  <1>8. FreeListExact'
    <2>1. pin_count[f] # 0
      BY <1>1 DEF IInv, TypeOK
    <2>2. \A g \in Frames : pin_count[g] = 0 => pin_count'[g] = 0
      BY <1>1, <1>2, <2>1 DEF IInv, TypeOK
    <2> QED
      BY <1>2, <2>2 DEF IInv, FreeListExact, InUse
  <1> QED
    BY <1>6, <1>7, <1>8 DEF IInv

\* A write through a pinned page: its frame holds a page and becomes dirty.
LEMMA WriteKeeps ==
    ASSUME IInv, NEW f \in Frames, NEW v \in Values, WriteData(f, v)
    PROVE  IInv'
  <1>1. /\ data' = [data EXCEPT ![f] = v]
        /\ dirty' = [dirty EXCEPT ![f] = TRUE]
        /\ UNCHANGED <<n_frames, holds, pin_count, page_map, free_frames,
                       recently_referenced, linked, bulk_import, num_pins,
                       num_unpins, num_pages, disk, status>>
    BY DEF WriteData, queueVars, countVars
  <1>2. data' \in [Frames -> Values]
    BY <1>1 DEF IInv, TypeOK
  <1>3. dirty' \in [Frames -> BOOLEAN]
    BY <1>1 DEF IInv, TypeOK
  <1>4. TypeOK'
    BY <1>1, <1>2, <1>3 DEF IInv, TypeOK
  <1>5. holds[f] # NoPage
    BY DEF WriteData, IInv, FreeListExact, TypeOK
  <1>6. /\ \A g \in Frames : g # f => data'[g] = data[g]
        /\ \A g \in Frames : g # f => dirty'[g] = dirty[g]
    BY <1>1 DEF IInv, TypeOK
  <1>d. dirty'[f]
    BY <1>1 DEF IInv, TypeOK
  <1>7. MapMatchesFrames' /\ IsInjective(recently_referenced')
    BY <1>1 DEF IInv, MapMatchesFrames
  <1>8. CleanMeansSaved'
    BY <1>1, <1>6, <1>d DEF IInv, CleanMeansSaved
  <1>9. FreeListExact'
    BY <1>1, <1>5, <1>6 DEF IInv, FreeListExact, InUse
  <1> QED
    BY <1>4, <1>7, <1>8, <1>9 DEF IInv

\* Only page_map and the frames' pages matter to MapMatchesFrames.
LEMMA SamePlacement ==
    ASSUME MapMatchesFrames, page_map' = page_map, holds' = holds
    PROVE  MapMatchesFrames'
  <1>1. ASSUME NEW p \in Pages, NEW f \in Frames
        PROVE  page_map'[p] = f <=> holds'[f] = p
    <2>1. page_map[p] = f <=> holds[f] = p
      BY DEF MapMatchesFrames
    <2> QED
      BY <2>1
  <1> QED
    BY <1>1 DEF MapMatchesFrames

\* flush_page and flush_all_pages, also when the latter exits half way.
LEMMA FlushKeeps ==
    ASSUME IInv, NEW S \in SUBSET Frames, Flush(S),
           status' \in {"up", "closed"} \cup Failures,
           UNCHANGED <<n_frames, holds, pin_count, data, page_map, free_frames,
                       queueVars, bulk_import, countVars, num_pages>>
    PROVE  IInv'
  <1>1. /\ disk' = FlushedDisk(S)
        /\ dirty' = FlushedDirty(S)
        /\ UNCHANGED <<n_frames, holds, pin_count, data, page_map, free_frames,
                       recently_referenced, linked, bulk_import, num_pins,
                       num_unpins, num_pages>>
    BY DEF Flush, queueVars, countVars
  <1>2. /\ disk' \in [Pages -> Values]
        /\ \A f \in S : holds[f] # NoPage /\ dirty[f] => disk'[holds[f]] = data[f]
        /\ \A p \in Pages : (\A f \in S : holds[f] = p => ~dirty[f]) =>
              disk'[p] = disk[p]
    BY <1>1, FlushedDiskProperties DEF IInv
  <1>3. /\ dirty' \in [Frames -> BOOLEAN]
        /\ \A f \in Frames : dirty'[f] <=> dirty[f] /\ f \notin S
    BY <1>1 DEF FlushedDirty, IInv, TypeOK
  <1>4. TypeOK'
    BY <1>1, <1>2, <1>3 DEF IInv, TypeOK
  <1>5. MapMatchesFrames' /\ IsInjective(recently_referenced')
    <2>1. MapMatchesFrames /\ IsInjective(recently_referenced)
      BY DEF IInv
    <2>2. /\ page_map' = page_map /\ holds' = holds
          /\ recently_referenced' = recently_referenced
      BY <1>1
    <2>3. MapMatchesFrames'
      BY <2>1, <2>2, SamePlacement
    <2> QED
      BY <2>1, <2>2, <2>3
  <1>6. FreeListExact'
    <2>1. FreeListExact
      BY DEF IInv
    <2> QED
      BY <1>1, <1>3, <2>1 DEF FreeListExact, InUse
  <1>7. CleanMeansSaved'
    <2>1. ASSUME NEW f \in Frames, holds[f] # NoPage, ~dirty'[f]
          PROVE  data[f] = disk'[holds[f]]
      <3>1. holds[f] \in Pages
        BY <2>1 DEF IInv, TypeOK
      <3>2. CASE dirty[f]
        BY <1>2, <1>3, <2>1, <3>2
      <3>3. CASE ~dirty[f]
        <4>1. \A g \in S : holds[g] = holds[f] => g = f
          BY <3>1 DEF IInv, MapMatchesFrames
        <4>2. disk'[holds[f]] = disk[holds[f]]
          BY <1>2, <3>1, <3>3, <4>1
        <4> QED
          BY <2>1, <3>3, <4>2 DEF IInv, CleanMeansSaved
      <3> QED
        BY <3>2, <3>3
    <2> QED
      BY <1>1, <2>1 DEF CleanMeansSaved
  <1> QED
    BY <1>4, <1>5, <1>6, <1>7 DEF IInv

\* evict called by itself.
LEMMA EvictKeeps ==
    ASSUME IInv, Evict
    PROVE  IInv'
  <1>1. PICK v \in LruVictims :
           /\ v # <<>>
           /\ Flush(Range(v))
           /\ holds' = EvictedHolds(Range(v))
           /\ data' = EvictedData(Range(v))
           /\ page_map' = EvictedMap(Range(v))
           /\ free_frames' = free_frames \o v
           /\ Dequeued(Range(v))
    BY DEF Evict
  <1>4. IsDistinct(v) /\ Range(v) \subseteq Range(recently_referenced) \cap Unpinned
    BY <1>1, EvictVictims
  <1>5. \A f \in Range(v) : holds[f] # NoPage
    BY <1>4 DEF Evict
  <1>6. IsDistinct(recently_referenced') /\ linked' \in BOOLEAN
    BY <1>1, KeepingProperties DEF Dequeued
  <1> DEFINE V == Range(v)
  <1>7. V \in SUBSET Unpinned
    BY <1>4
  <1>8. /\ disk' = FlushedDisk(V) /\ dirty' = FlushedDirty(V)
        /\ UNCHANGED <<n_frames, pin_count, bulk_import, num_pins, num_unpins,
                       num_pages, status>>
    BY <1>1 DEF Flush, Evict, countVars
  <1>9. IsDistinct(free_frames')
        /\ Range(free_frames') = Range(free_frames) \cup V
    <2>1. IsDistinct(free_frames) /\ Range(free_frames) \cap Range(v) = {}
      BY <1>5 DEF IInv, TypeOK, FreeListExact, IsDistinct
    <2> QED
      BY <1>1, <1>4, <2>1, ConcatDistinct
  <1> HIDE DEF V
  <1>10. /\ holds' = EvictedHolds(V) /\ data' = EvictedData(V)
         /\ page_map' = EvictedMap(V)
    BY <1>1 DEF V
  <1>11. /\ holds' \in [Frames -> Pages \cup {NoPage}]
         /\ dirty' \in [Frames -> BOOLEAN]
         /\ data' \in [Frames -> Values]
         /\ page_map' \in [Pages -> Frames \cup {NoFrame}]
         /\ disk' \in [Pages -> Values]
    BY <1>7, <1>8, <1>10, EvictionProperties
  <1>12. TypeOK'
    BY <1>6, <1>8, <1>9, <1>11 DEF IInv, TypeOK, IsDistinct
  <1>e. /\ \A p \in Pages, f \in Frames :
              EvictedMap(V)[p] = f <=> EvictedHolds(V)[f] = p
        /\ \A f \in Frames : EvictedHolds(V)[f] = NoPage =>
              /\ pin_count[f] = 0
              /\ ~FlushedDirty(V)[f]
              /\ EvictedData(V)[f] = Zero
        /\ \A f \in Frames :
              EvictedHolds(V)[f] = NoPage <=> holds[f] = NoPage \/ f \in V
        /\ \A f \in Frames :
              EvictedHolds(V)[f] # NoPage /\ ~FlushedDirty(V)[f] =>
                 EvictedData(V)[f] = FlushedDisk(V)[EvictedHolds(V)[f]]
    BY <1>7, EvictionProperties, Zenon
  <1>13. MapMatchesFrames' /\ CleanMeansSaved'
    <2>1. MapMatchesFrames'
      BY <1>10, <1>e DEF MapMatchesFrames
    <2>2. CleanMeansSaved'
      BY <1>8, <1>10, <1>e DEF CleanMeansSaved
    <2> QED
      BY <2>1, <2>2
  <1>14. FreeListExact'
    <2>1. \A f \in Frames : holds'[f] = NoPage <=> holds[f] = NoPage \/ f \in V
      BY <1>10, <1>e
    <2>2. \A f \in Frames : holds'[f] = NoPage =>
             pin_count'[f] = 0 /\ ~dirty'[f] /\ data'[f] = Zero
      BY <1>8, <1>10, <1>e
    <2>3. InUse' = InUse /\ V \subseteq InUse /\ InUse \subseteq Frames
      BY <1>7, <1>8, BoundsAssumption DEF Unpinned, InUse, Frames, IInv, TypeOK
    <2> QED
      BY <1>9, <2>1, <2>2, <2>3 DEF IInv, FreeListExact, IsDistinct
  <1> QED
    BY <1>6, <1>12, <1>13, <1>14 DEF IInv, IsDistinct

\* A cache with n empty frames: page_cache_create, page_cache_change_n_frames.
LEMMA FreshKeeps ==
    ASSUME NEW n \in 1 .. MaxFrames, Fresh(n),
           dirty' = [f \in Frames |-> FALSE],
           bulk_import' \in BulkModes,
           num_pins' \in 0 .. CounterMod - 1,
           num_unpins' \in 0 .. CounterMod - 1,
           num_pages' \in [Files -> Nat],
           disk' \in [Pages -> Values],
           status' \in {"up", "closed"} \cup Failures
    PROVE  IInv'
  <1>1. IsDistinct(free_frames') /\ Range(free_frames') = 0 .. n - 1
    BY FreshFreeList DEF Fresh
  <1>2. recently_referenced' \in Seq(Frames) /\ IsInjective(recently_referenced')
    BY DEF Fresh, IsInjective
  <1>3. pin_count' \in [Frames -> 0 .. MaxPins]
    BY BoundsAssumption DEF Fresh
  <1>4. TypeOK'
    BY <1>1, <1>2, <1>3, ZeroAssumption DEF Fresh, TypeOK, IsDistinct
  <1>5. MapMatchesFrames'
    BY FramesAreNat, NoPageAssumption DEF Fresh, MapMatchesFrames
  <1>6. CleanMeansSaved'
    BY DEF Fresh, CleanMeansSaved
  <1>7. FreeListExact'
    <2>1. InUse' = 0 .. n - 1 /\ InUse' \subseteq Frames
      BY BoundsAssumption DEF Fresh, InUse, Frames
    <2> QED
      BY <1>1, <2>1 DEF Fresh, FreeListExact, IsDistinct
  <1> QED
    BY <1>2, <1>4, <1>5, <1>6, <1>7 DEF IInv

\* A flush of all frames leaves every frame clean.
LEMMA FlushAllCleans ==
    ASSUME IInv, Flush(InUse)
    PROVE  dirty' = [f \in Frames |-> FALSE] /\ disk' \in [Pages -> Values]
  <1>1. InUse \subseteq Frames
    BY BoundsAssumption DEF InUse, Frames, IInv, TypeOK
  <1>2. \A f \in Frames \ InUse : ~dirty[f]
    BY DEF IInv, FreeListExact
  <1>3. dirty' = [f \in Frames |-> FALSE]
    BY <1>2 DEF Flush, FlushedDirty
  <1> QED
    BY <1>1, <1>3, FlushedDiskProperties DEF Flush, IInv

\* page_cache_create's first state satisfies the invariant.
LEMMA InitIInv == Init => IInv
  <1> SUFFICES ASSUME Init PROVE IInv
    OBVIOUS
  <1>1. IsDistinct(free_frames) /\ Range(free_frames) = InUse
    BY FreshFreeList DEF Init, InUse
  <1>2. recently_referenced \in Seq(Frames) /\ IsInjective(recently_referenced)
    BY DEF Init, IsInjective
  <1>3. pin_count \in [Frames -> 0 .. MaxPins] /\ num_pages \in [Files -> Nat]
        /\ num_pins \in 0 .. CounterMod - 1 /\ num_unpins \in 0 .. CounterMod - 1
    BY BoundsAssumption DEF Init
  <1>4. TypeOK
    BY <1>1, <1>2, <1>3, ZeroAssumption, ModesAssumption DEF Init, TypeOK, IsDistinct
  <1>5. MapMatchesFrames
    BY FramesAreNat, NoPageAssumption DEF Init, MapMatchesFrames
  <1>6. CleanMeansSaved
    BY DEF Init, CleanMeansSaved
  <1>7. FreeListExact
    <2>1. InUse \subseteq Frames
      BY BoundsAssumption DEF Init, InUse, Frames
    <2> QED
      BY <1>1, <2>1 DEF Init, FreeListExact, IsDistinct
  <1> QED
    BY <1>2, <1>4, <1>5, <1>6, <1>7 DEF IInv

\* Every call keeps it, one step per action of Next.
LEMMA NextIInv == IInv /\ [Next]_vars => IInv'
  <1> SUFFICES ASSUME IInv, [Next]_vars PROVE IInv'
    OBVIOUS
  <1>n. num_pages \in [Files -> Nat]
    BY DEF IInv, TypeOK
  <1>r. \A r \in {"bounds", "bad unpin", "bad access", "pinned", "not queued",
                 "elsewhere"} :
           r \in Failures
    BY DEF Failures
  <1>u. Unpinned \subseteq InUse /\ InUse \subseteq Frames
    BY BoundsAssumption DEF Unpinned, InUse, Frames, IInv, TypeOK
  <1>s. status \in {"up", "closed"} \cup Failures
    BY DEF IInv, TypeOK
  <1>1. ASSUME NEW p \in Pages, PinPage(p) PROVE IInv'
    BY <1>1, <1>n, FetchKeeps DEF PinPage
  <1>2. ASSUME NEW p \in Pages, PinOutOfBounds(p) PROVE IInv'
    BY <1>2, <1>n, <1>r, ExitKeeps DEF PinOutOfBounds
  <1>3. ASSUME NEW p \in Pages, UnpinPage(p) PROVE IInv'
    BY <1>3, UnpinKeeps
  <1>4. ASSUME NEW p \in Pages, UnpinFails(p) PROVE IInv'
    BY <1>4, <1>n, <1>r, ExitKeeps DEF UnpinFails, CanUnpin
  <1>5. ASSUME NEW ft \in FileTypes, Allocate(ft) PROVE IInv'
    <2>1. num_pages' \in [Files -> Nat]
      BY <1>5, AllocatePagesKeeps DEF Allocate, IInv
    <2>2. UNCHANGED <<n_frames, holds, pin_count, dirty, data, page_map,
                      free_frames, recently_referenced, linked, bulk_import,
                      num_pins, num_unpins, disk, status>>
      BY <1>5 DEF Allocate, frameVars, queueVars, countVars
    <2>3. TypeOK'
      BY <2>1, <2>2 DEF IInv, TypeOK
    <2> QED
      BY <2>2, <2>3
         DEF IInv, MapMatchesFrames, FreeListExact, CleanMeansSaved, InUse
  <1>6. ASSUME NEW ft \in FileTypes, NewPage(ft) PROVE IInv'
    <2>1. /\ num_pages' \in [Files -> Nat]
          /\ <<<<"records", ft>>, num_pages[<<"records", ft>>]>> \in Pages
      BY <1>6, AllocatePagesKeeps DEF NewPage, IInv
    <2> QED
      BY <1>6, <2>1, FetchKeeps DEF NewPage
  <1>7. ASSUME NEW f \in Frames, AccessFails(f) PROVE IInv'
    BY <1>7, <1>n, <1>r, ExitKeeps DEF AccessFails
  <1>8. ASSUME NEW f \in Frames, FlushPage(f) PROVE IInv'
    BY <1>8, <1>s, FlushKeeps DEF FlushPage
  <1>9. ASSUME NEW f \in Frames, FlushPageFails(f) PROVE IInv'
    BY <1>9, <1>n, <1>r, ExitKeeps DEF FlushPageFails
  <1>10. ASSUME NEW f \in Frames, NEW v \in Values, WriteData(f, v) PROVE IInv'
    BY <1>10, WriteKeeps
  <1>11. CASE FlushAllPages
    BY <1>11, <1>s, <1>u, FlushKeeps DEF FlushAllPages
  <1>12. CASE FlushAllFails
    <2>1. {f \in InUse : 0 .. f \subseteq Unpinned} \in SUBSET Frames
      BY <1>u
    <2> QED
      BY <1>12, <1>r, <2>1, FlushKeeps DEF FlushAllFails
  <1>13. CASE Evict
    BY <1>13, EvictKeeps
  <1>14. ASSUME NEW n \in 1 .. MaxFrames, ChangeNFrames(n) PROVE IInv'
    <2>1. dirty' = [f \in Frames |-> FALSE] /\ disk' \in [Pages -> Values]
      BY <1>14, FlushAllCleans DEF ChangeNFrames
    <2>2. /\ bulk_import' \in BulkModes
          /\ num_pins' \in 0 .. CounterMod - 1 /\ num_unpins' \in 0 .. CounterMod - 1
          /\ num_pages' \in [Files -> Nat]
          /\ status' \in {"up", "closed"} \cup Failures
      BY <1>14 DEF ChangeNFrames, countVars, IInv, TypeOK
    <2> QED
      BY <1>14, <2>1, <2>2, FreshKeeps DEF ChangeNFrames
  <1>15. ASSUME NEW n \in 1 .. MaxFrames, Create(n) PROVE IInv'
    <2>1. 0 \in 0 .. CounterMod - 1
      BY BoundsAssumption
    <2>2. /\ num_pages' \in [Files -> Nat] /\ disk' \in [Pages -> Values]
          /\ bulk_import' \in BulkModes
      BY <1>15, ModesAssumption DEF Create, IInv, TypeOK
    <2> QED
      BY <1>15, <2>1, <2>2, FreshKeeps DEF Create
  <1>16. CASE Destroy
    BY <1>16, <1>u, FlushKeeps DEF Destroy
  <1>17. ASSUME NEW b \in BulkModes, SetBulkImport(b) PROVE IInv'
    <2>1. /\ UNCHANGED <<n_frames, holds, pin_count, dirty, data, page_map,
                         free_frames, recently_referenced, linked,
                         num_pins, num_unpins, num_pages, disk, status>>
          /\ bulk_import' = b
      BY <1>17 DEF SetBulkImport, frameVars, queueVars, countVars
    <2>2. TypeOK'
      BY <2>1 DEF IInv, TypeOK
    <2> QED
      BY <2>1, <2>2
         DEF IInv, MapMatchesFrames, FreeListExact, CleanMeansSaved, InUse
  <1>18. CASE ExitElsewhere \/ EvictFails
    BY <1>18, <1>n, <1>r, ExitKeeps DEF ExitElsewhere, EvictFails
  <1>19. CASE UNCHANGED vars
    <2>1. UNCHANGED <<n_frames, holds, pin_count, dirty, data, page_map,
                      free_frames, recently_referenced, linked, bulk_import,
                      num_pins, num_unpins, num_pages, disk, status>>
      BY <1>19 DEF vars, frameVars, queueVars, countVars
    <2>2. TypeOK'
      BY <2>1 DEF IInv, TypeOK
    <2> QED
      BY <2>1, <2>2
         DEF IInv, MapMatchesFrames, FreeListExact, CleanMeansSaved, InUse
  <1> QED
    BY <1>1, <1>2, <1>3, <1>4, <1>5, <1>6, <1>7, <1>8, <1>9, <1>10, <1>11, <1>12,
       <1>13, <1>14, <1>15, <1>16, <1>17, <1>18, <1>19 DEF Next

\* The inductive invariant holds throughout every use of the cache.
THEOREM Invariance == Spec => []IInv
  BY InitIInv, NextIInv, PTL DEF Spec

\* The variables of the cache keep their types.
THEOREM TypeCorrect == Spec => []TypeOK
  <1>1. IInv => TypeOK
    BY DEF IInv
  <1> QED
    BY <1>1, Invariance, PTL

\* The dictionaries and the frames describe the same placement of pages: no
\* page is ever in two frames.
THEOREM PlacementConsistent == Spec => []MapMatchesFrames
  <1>1. IInv => MapMatchesFrames
    BY DEF IInv
  <1> QED
    BY <1>1, Invariance, PTL

\* The free list is exactly the set of empty frames: none leaks, none is handed
\* out twice.
THEOREM FreeListCorrect == Spec => []FreeListExact
  <1>1. IInv => FreeListExact
    BY DEF IInv
  <1> QED
    BY <1>1, Invariance, PTL

\* A clean frame equals its page on disk, so dropping it loses nothing.
THEOREM CleanFramesSaved == Spec => []CleanMeansSaved
  <1>1. IInv => CleanMeansSaved
    BY DEF IInv
  <1> QED
    BY <1>1, Invariance, PTL

------------------------------------------------------------------------------
(* Action properties *)

\* Every step moves the disk from disk to FlushedDisk(S) for some unpinned
\* frames S: nothing is written past the write-back path.
LEMMA DiskStep ==
    ASSUME IInv, [Next]_vars
    PROVE  \E S \in SUBSET Unpinned : disk' = FlushedDisk(S)
  <1>e. disk = FlushedDisk({})
    BY DEF IInv, TypeOK, FlushedDisk
  <1>q. ASSUME disk' = disk PROVE \E S \in SUBSET Unpinned : disk' = FlushedDisk(S)
    BY <1>e, <1>q
  <1>f. ASSUME NEW p \in Pages, Fetch(p)
        PROVE  \E S \in SUBSET Unpinned : disk' = FlushedDisk(S)
    BY <1>f, <1>q, FetchCases DEF PinHit, Exit, Load
  <1>1. ASSUME NEW p \in Pages, PinPage(p)
        PROVE  \E S \in SUBSET Unpinned : disk' = FlushedDisk(S)
    BY <1>1, <1>f DEF PinPage
  <1>2. ASSUME NEW ft \in FileTypes, NewPage(ft)
        PROVE  \E S \in SUBSET Unpinned : disk' = FlushedDisk(S)
    BY <1>2, <1>f, AllocatePagesKeeps DEF NewPage, IInv
  <1>3. ASSUME NEW f \in Frames, FlushPage(f)
        PROVE  \E S \in SUBSET Unpinned : disk' = FlushedDisk(S)
    BY <1>3 DEF FlushPage, Flush
  <1>4. ASSUME FlushAllPages \/ Destroy \/ \E n \in 1 .. MaxFrames : ChangeNFrames(n)
        PROVE  \E S \in SUBSET Unpinned : disk' = FlushedDisk(S)
    BY <1>4 DEF FlushAllPages, Destroy, ChangeNFrames, Flush
  <1>5. CASE FlushAllFails
    <2>1. \A f \in InUse : f \in 0 .. f
      BY DEF InUse, IInv, TypeOK
    <2>2. {f \in InUse : 0 .. f \subseteq Unpinned} \subseteq Unpinned
      BY <2>1
    <2> QED
      BY <1>5, <2>2 DEF FlushAllFails, Flush
  <1>6. CASE Evict
    <2>1. PICK v \in LruVictims : Flush(Range(v))
      BY <1>6 DEF Evict
    <2> QED
      BY <2>1, EvictVictims DEF Flush
  <1>7. ASSUME NEW p \in Pages, PinOutOfBounds(p) \/ UnpinPage(p) \/ UnpinFails(p)
        PROVE  disk' = disk
    BY <1>7 DEF PinOutOfBounds, UnpinPage, CanUnpin, UnpinFails, Exit
  <1>8. ASSUME NEW f \in Frames, AccessFails(f) \/ FlushPageFails(f)
        PROVE  disk' = disk
    BY <1>8 DEF AccessFails, FlushPageFails, Exit
  <1>9. ASSUME NEW f \in Frames, NEW v \in Values, WriteData(f, v)
        PROVE  disk' = disk
    BY <1>9 DEF WriteData
  <1>10. ASSUME \/ \E ft \in FileTypes : Allocate(ft)
                \/ \E n \in 1 .. MaxFrames : Create(n)
                \/ \E b \in BulkModes : SetBulkImport(b)
                \/ ExitElsewhere \/ EvictFails
                \/ UNCHANGED vars
         PROVE  disk' = disk
    BY <1>10 DEF Allocate, Create, SetBulkImport, ExitElsewhere, EvictFails, Exit, vars
  <1> QED
    BY <1>q, <1>1, <1>2, <1>3, <1>4, <1>5, <1>6, <1>7, <1>8, <1>9, <1>10 DEF Next

\* A page on disk changes only when the dirty, unpinned frame that holds it is
\* written back, and then to the content of that frame.
THEOREM OnlyWriteBackChangesDisk == Spec => DiskChangesByWriteBack
  <1> DEFINE A == \A p \in Pages : disk'[p] # disk[p] =>
                     \E f \in Frames : /\ holds[f] = p
                                       /\ dirty[f]
                                       /\ pin_count[f] = 0
                                       /\ disk'[p] = data[f]
  <1>1. ASSUME IInv, [Next]_vars PROVE A
    <2>1. PICK S \in SUBSET Unpinned : disk' = FlushedDisk(S)
      BY <1>1, DiskStep
    <2>2. S \subseteq Frames /\ \A f \in S : pin_count[f] = 0
      BY <1>1, BoundsAssumption DEF Unpinned, InUse, Frames, IInv, TypeOK
    <2>3. ASSUME NEW p \in Pages, disk'[p] # disk[p]
          PROVE  \E f \in Frames : holds[f] = p /\ dirty[f] /\ pin_count[f] = 0
                                     /\ disk'[p] = data[f]
      <3>1. /\ \A f \in S : holds[f] # NoPage /\ dirty[f] => disk'[holds[f]] = data[f]
            /\ (\A f \in S : holds[f] = p => ~dirty[f]) => disk'[p] = disk[p]
        BY <1>1, <2>1, <2>2, FlushedDiskProperties DEF IInv
      <3>2. PICK f \in S : holds[f] = p /\ dirty[f]
        BY <2>3, <3>1
      <3> QED
        BY <2>2, <3>1, <3>2, NoPageAssumption
    <2> QED
      BY <2>3
  <1>2. IInv /\ [Next]_vars => [A]_vars
    BY <1>1
  <1> QED
    BY <1>2, Invariance, PTL DEF Spec, DiskChangesByWriteBack

\* A pinned frame holds a page and is one of the n_frames frames.
LEMMA PinnedInUse ==
    ASSUME IInv, NEW f \in Frames, pin_count[f] > 0
    PROVE  holds[f] # NoPage /\ f \in InUse /\ f \notin Unpinned
           /\ f \notin Range(free_frames) /\ f < n_frames
  <1>1. pin_count[f] # 0
    BY DEF IInv, TypeOK
  <1>2. holds[f] # NoPage /\ f \in InUse
    BY <1>1 DEF IInv, FreeListExact
  <1> QED
    BY <1>1, <1>2 DEF IInv, TypeOK, FreeListExact, InUse, Unpinned

\* Load takes an unpinned frame, so the pinned ones keep their pages.
LEMMA LoadSparesPinned ==
    ASSUME IInv, NEW p \in Pages, page_map[p] = NoFrame,
           NEW v, IsDistinct(v), Range(v) \subseteq Unpinned,
           Range(v) \cap Range(free_frames) = {},
           free_frames # <<>> \/ v # <<>>,
           Load(p, v),
           NEW f \in Frames, pin_count[f] > 0
    PROVE  holds'[f] = holds[f] /\ n_frames' = n_frames
  <1>1. PICK g \in Frames : /\ g \in Range(free_frames) \cup Range(v)
                            /\ holds' = [EvictedHolds(Range(v)) EXCEPT ![g] = p]
    <2>1. \E g \in Frames : LoadsInto(p, v, g)
      BY LoadTarget
    <2> QED
      BY <2>1 DEF LoadsInto
  <1>2. f # g /\ f \notin Range(v)
    BY <1>1, PinnedInUse
  <1>3. holds'[f] = EvictedHolds(Range(v))[f]
    <2>1. EvictedHolds(Range(v)) \in [Frames -> Pages \cup {NoPage}]
      BY EvictionProperties
    <2> QED
      BY <1>1, <1>2, <2>1
  <1> QED
    BY <1>2, <1>3 DEF EvictedHolds, Load

\* A page pointer obtained from pin_page stays valid until it is unpinned: no
\* call evicts, replaces or resizes away a pinned frame.
THEOREM PinnedFramesStay == Spec => PinnedFrameStays
  <1> DEFINE A == \A f \in Frames :
                     status = "up" /\ pin_count[f] > 0 /\ status' = "up" =>
                        holds'[f] = holds[f] /\ f < n_frames'
  <1>1. ASSUME IInv, Next, NEW f \in Frames,
               status = "up", pin_count[f] > 0, status' = "up"
        PROVE  holds'[f] = holds[f] /\ f < n_frames'
    <2>1. f \in InUse /\ f \notin Unpinned /\ f < n_frames
      BY <1>1, PinnedInUse
    <2>q. ASSUME UNCHANGED <<n_frames, holds>>
          PROVE  holds'[f] = holds[f] /\ f < n_frames'
      BY <2>1, <2>q
    <2>f. ASSUME NEW p \in Pages, Fetch(p)
          PROVE  holds'[f] = holds[f] /\ n_frames' = n_frames
      <3>1. CASE PinHit(p)
        BY <3>1 DEF PinHit
      <3>2. CASE Exit("all pinned")
        BY <3>2 DEF Exit, frameVars
      <3> QED
        BY <1>1, <2>f, <3>1, <3>2, FetchCases, LoadSparesPinned
    <2>2. ASSUME NEW p \in Pages, PinPage(p)
          PROVE  holds'[f] = holds[f] /\ n_frames' = n_frames
      BY <2>2, <2>f DEF PinPage
    <2>3. ASSUME NEW ft \in FileTypes, NewPage(ft)
          PROVE  holds'[f] = holds[f] /\ n_frames' = n_frames
      BY <1>1, <2>3, <2>f, AllocatePagesKeeps DEF NewPage, IInv
    <2>4. CASE Evict
      <3>1. PICK v \in LruVictims : holds' = EvictedHolds(Range(v))
        BY <2>4 DEF Evict
      <3>2. f \notin Range(v)
        BY <1>1, <2>1, EvictVictims
      <3> QED
        BY <2>1, <2>4, <3>1, <3>2 DEF EvictedHolds, Evict
    <2>5. ASSUME NEW n \in 1 .. MaxFrames, ChangeNFrames(n) \/ Create(n)
          PROVE  FALSE
      BY <1>1, <2>1, <2>5 DEF ChangeNFrames, Create
    <2>6. ASSUME NEW p \in Pages, PinOutOfBounds(p) \/ UnpinPage(p) \/ UnpinFails(p)
          PROVE  UNCHANGED <<n_frames, holds>>
      BY <2>6 DEF PinOutOfBounds, UnpinPage, CanUnpin, UnpinFails, Exit, frameVars
    <2>7. ASSUME NEW g \in Frames, AccessFails(g) \/ FlushPageFails(g) \/ FlushPage(g)
          PROVE  UNCHANGED <<n_frames, holds>>
      BY <2>7 DEF AccessFails, FlushPageFails, FlushPage, Exit, frameVars
    <2>8. ASSUME NEW g \in Frames, NEW v \in Values, WriteData(g, v)
          PROVE  UNCHANGED <<n_frames, holds>>
      BY <2>8 DEF WriteData
    <2>9. ASSUME \/ \E ft \in FileTypes : Allocate(ft)
                 \/ \E b \in BulkModes : SetBulkImport(b)
                 \/ FlushAllPages \/ FlushAllFails \/ Destroy \/ ExitElsewhere \/ EvictFails
          PROVE  UNCHANGED <<n_frames, holds>>
      BY <2>9 DEF Allocate, SetBulkImport, FlushAllPages, FlushAllFails, Destroy,
                  ExitElsewhere, EvictFails, Exit, frameVars
    <2> QED
      BY <1>1, <2>1, <2>q, <2>2, <2>3, <2>4, <2>5, <2>6, <2>7, <2>8, <2>9 DEF Next
  <1>2. IInv /\ [Next]_vars => [A]_vars
    BY <1>1
  <1> QED
    BY <1>2, Invariance, PTL DEF Spec, PinnedFrameStays

------------------------------------------------------------------------------
(* Without bulk mode, evict's verdict is right *)

\* A frame that is queued holds a page.
QueuedHold == \A f \in Range(recently_referenced) : holds[f] # NoPage

\* What makes the verdict right: the queue has every unpinned page.
QInv ==
    /\ IInv
    /\ QueuedHold
    /\ UnpinnedQueued
    /\ AllPinnedIsTrue
    /\ bulk_import = FALSE

\* A step after which the queue still has the frames that hold a page unpinned.
LEMMA NormalModeStep ==
    ASSUME BulkModes = {FALSE}, QInv, [Next]_vars
    PROVE  UnpinnedQueued' /\ AllPinnedIsTrue'
  <1>i. IInv /\ IInv'
    BY NextIInv DEF QInv
  <1>u. Unpinned \subseteq InUse /\ InUse \subseteq Frames
        /\ Range(recently_referenced) \subseteq Frames
    <2>1. recently_referenced \in Seq(Frames)
      BY <1>i DEF IInv, TypeOK
    <2>2. Range(recently_referenced) \subseteq Frames
      BY <2>1 DEF Range
    <2>3. n_frames \in 1 .. MaxFrames
      BY <1>i DEF IInv, TypeOK
    <2>4. Unpinned \subseteq InUse
      BY DEF Unpinned
    <2>5. InUse \subseteq Frames
      BY <2>3, BoundsAssumption DEF InUse, Frames
    <2> QED
      BY <2>2, <2>4, <2>5
  <1>t. /\ holds \in [Frames -> Pages \cup {NoPage}]
        /\ pin_count \in [Frames -> 0 .. MaxPins]
        /\ page_map \in [Pages -> Frames \cup {NoFrame}]
    BY <1>i DEF IInv, TypeOK
  <1>w. /\ \A f \in InUse : holds[f] # NoPage /\ pin_count[f] = 0 =>
              f \in Range(recently_referenced)
        /\ bulk_import = FALSE
    BY DEF QInv, UnpinnedQueued
  <1>q. ASSUME UNCHANGED <<n_frames, holds, pin_count, recently_referenced>>
        PROVE  UnpinnedQueued'
    BY <1>q DEF QInv, UnpinnedQueued, InUse
  <1>n. ASSUME status' # "all pinned" PROVE AllPinnedIsTrue'
    BY <1>n DEF AllPinnedIsTrue
  <1>v. ASSUME NEW v, Dequeued(Range(v)),
               NEW f \in Range(recently_referenced), f \notin Range(v)
        PROVE  f \in Range(recently_referenced')
    BY <1>u, <1>v, KeepingProperties DEF Dequeued
  <1>f. ASSUME status = "up", NEW p \in Pages, Fetch(p)
        PROVE  UnpinnedQueued' /\ AllPinnedIsTrue'
    <2>1. CASE PinHit(p)
      <3>0. /\ page_map[p] # NoFrame
            /\ pin_count' = [pin_count EXCEPT ![page_map[p]] = @ + 1]
            /\ UNCHANGED <<n_frames, holds, recently_referenced>>
        BY <2>1 DEF PinHit, queueVars
      <3>1. page_map[p] \in Frames /\ pin_count[page_map[p]] + 1 # 0
        BY <1>t, <3>0, BoundsAssumption
      <3>2. \A f \in Frames : pin_count'[f] = 0 => pin_count[f] = 0
        BY <1>t, <3>0, <3>1
      <3>3. UnpinnedQueued'
        <4>1. InUse' = InUse
          BY <3>0 DEF InUse
        <4>2. \A f \in InUse : holds'[f] # NoPage /\ pin_count'[f] = 0 =>
                 f \in Range(recently_referenced')
          BY <1>u, <1>w, <3>0, <3>2
        <4> QED
          BY <4>1, <4>2 DEF UnpinnedQueued
      <3> QED
        BY <1>f, <1>n, <2>1, <3>3 DEF PinHit
    <2>2. CASE PinFree(p)
      <3>1. page_map[p] = NoFrame /\ free_frames # <<>> /\ Load(p, <<>>)
        BY <2>2 DEF PinFree
      <3>2. PICK f \in Frames :
               /\ holds' = [EvictedHolds(Range(<<>>)) EXCEPT ![f] = p]
               /\ pin_count' = [pin_count EXCEPT ![f] = 1]
        <4>1. /\ IsDistinct(<<>>) /\ Range(<<>>) \subseteq Unpinned
              /\ Range(<<>>) \cap Range(free_frames) = {}
          BY EmptyDistinct
        <4>2. \E f \in Frames : LoadsInto(p, <<>>, f)
          BY <1>i, <3>1, <4>1, LoadTarget
        <4> QED
          BY <4>2 DEF LoadsInto
      <3>3. \A g \in Frames : g # f => holds'[g] = holds[g] /\ pin_count'[g] = pin_count[g]
        <4>1. Range(<<>>) = {}
          BY EmptyDistinct
        <4> QED
          BY <1>t, <3>2, <4>1 DEF EvictedHolds
      <3>4. pin_count'[f] = 1
        BY <1>t, <3>2
      <3>5. UNCHANGED <<n_frames, recently_referenced, status>>
        BY <2>2, <3>1 DEF PinFree, Load, queueVars
      <3>6. UnpinnedQueued'
        <4>1. ASSUME NEW g \in InUse, holds'[g] # NoPage, pin_count'[g] = 0
              PROVE  g \in Range(recently_referenced')
          <5>1. g \in Frames /\ g # f
            <6>1. g \in Frames
              BY <1>u
            <6>2. pin_count'[g] # pin_count'[f]
              BY <3>4, <4>1
            <6> QED
              BY <6>1, <6>2
          <5>2. holds[g] # NoPage /\ pin_count[g] = 0
            BY <3>3, <4>1, <5>1
          <5> QED
            BY <1>w, <3>5, <4>1, <5>2
        <4>2. InUse' = InUse
          BY <3>5 DEF InUse
        <4> QED
          BY <4>1, <4>2 DEF UnpinnedQueued
      <3> QED
        BY <1>f, <1>n, <3>5, <3>6
    <2>3. CASE PinEvict(p)
      <3>1. PICK v \in LruVictims : v # <<>> /\ Load(p, v) /\ Dequeued(Range(v))
        BY <2>3 DEF PinEvict
      <3>2. /\ IsDistinct(v) /\ Range(v) \subseteq Unpinned
            /\ Range(v) \cap Range(free_frames) = {}
        <4>1. IsDistinct(v) /\ Range(v) \subseteq Unpinned
          BY <1>i, <3>1, EvictVictims
        <4>2. free_frames = <<>>
          BY <2>3 DEF PinEvict
        <4>3. Range(free_frames) = {}
          BY <4>2, EmptyDistinct
        <4> QED
          BY <4>1, <4>3
      <3>3. PICK f \in Frames :
               /\ holds' = [EvictedHolds(Range(v)) EXCEPT ![f] = p]
               /\ pin_count' = [pin_count EXCEPT ![f] = 1]
        <4>1. page_map[p] = NoFrame
          BY <2>3 DEF PinEvict
        <4>2. \E f \in Frames : LoadsInto(p, v, f)
          BY <1>i, <3>1, <3>2, <4>1, LoadTarget
        <4> QED
          BY <4>2 DEF LoadsInto
      <3>4. \A g \in Frames : g # f =>
               /\ holds'[g] = IF g \in Range(v) THEN NoPage ELSE holds[g]
               /\ pin_count'[g] = pin_count[g]
        BY <1>t, <3>3 DEF EvictedHolds
      <3>5. pin_count'[f] = 1
        BY <1>t, <3>3
      <3>6. UNCHANGED <<n_frames, status>>
        BY <3>1 DEF Load
      <3>7. UnpinnedQueued'
        <4>1. ASSUME NEW g \in InUse, holds'[g] # NoPage, pin_count'[g] = 0
              PROVE  g \in Range(recently_referenced')
          <5>1. g \in Frames /\ g # f
            <6>1. g \in Frames
              BY <1>u
            <6>2. pin_count'[g] # pin_count'[f]
              BY <3>5, <4>1
            <6> QED
              BY <6>1, <6>2
          <5>2. g \notin Range(v) /\ holds[g] # NoPage /\ pin_count[g] = 0
            BY <3>4, <4>1, <5>1
          <5>3. g \in Range(recently_referenced)
            BY <1>w, <4>1, <5>2
          <5> QED
            BY <1>v, <3>1, <5>2, <5>3
        <4> QED
          BY <3>6, <4>1 DEF UnpinnedQueued, InUse
      <3> QED
        BY <1>f, <1>n, <3>6, <3>7
    <2>4. CASE PinEvictFails(p)
      <3>1. UNCHANGED <<n_frames, holds, pin_count, recently_referenced>>
        BY <2>4 DEF PinEvictFails, Exit, frameVars, queueVars
      <3>2. \A f \in InUse : holds[f] # NoPage
        <4>1. Range(free_frames) = {}
          BY <2>4, EmptyDistinct DEF PinEvictFails
        <4> QED
          BY <1>i, <4>1 DEF IInv, FreeListExact
      <3>3. \A f \in InUse : f \notin Unpinned
        BY <1>w, <2>4, <3>2 DEF PinEvictFails, Unpinned
      <3>4. \A f \in InUse : pin_count[f] > 0
        BY <1>t, <1>u, <3>3, BoundsAssumption DEF Unpinned
      <3> QED
        BY <1>q, <3>1, <3>4 DEF AllPinnedIsTrue, InUse
    <2>5. CASE PinBulkEvict(p) \/ PinBulkEvictFails(p)
      BY <2>5 DEF PinBulkEvict, PinBulkEvictFails, QInv
    <2> QED
      BY <1>f, <2>1, <2>2, <2>3, <2>4, <2>5 DEF Fetch
  <1>1. ASSUME NEW p \in Pages, PinPage(p) PROVE UnpinnedQueued' /\ AllPinnedIsTrue'
    BY <1>1, <1>f DEF PinPage
  <1>2. ASSUME NEW ft \in FileTypes, NewPage(ft)
        PROVE  UnpinnedQueued' /\ AllPinnedIsTrue'
    BY <1>2, <1>f, <1>i, AllocatePagesKeeps DEF NewPage, IInv
  <1>3. ASSUME NEW p \in Pages, UnpinPage(p)
        PROVE  UnpinnedQueued' /\ AllPinnedIsTrue'
    <2>1. /\ page_map[p] \in Frames
          /\ pin_count' = [pin_count EXCEPT ![page_map[p]] = @ - 1]
          /\ recently_referenced' = MoveBack(recently_referenced, page_map[p])
          /\ UNCHANGED <<n_frames, holds>>
          /\ status' # "all pinned"
      BY <1>3, <1>i DEF UnpinPage, CanUnpin, QInv, IInv, TypeOK
    <2>2. Range(recently_referenced') = Range(recently_referenced) \cup {page_map[p]}
      BY <1>i, <2>1, MoveBackDistinct DEF IInv, TypeOK, IsDistinct
    <2>3. \A f \in Frames : f # page_map[p] => pin_count'[f] = pin_count[f]
      BY <1>i, <2>1 DEF IInv, TypeOK
    <2>4. UnpinnedQueued'
      BY <1>u, <2>1, <2>2, <2>3 DEF QInv, UnpinnedQueued, InUse
    <2> QED
      BY <1>n, <2>1, <2>4
  <1>4. CASE Evict
    <2>1. PICK v \in LruVictims :
             holds' = EvictedHolds(Range(v)) /\ Dequeued(Range(v))
      BY <1>4 DEF Evict
    <2>2. UNCHANGED <<n_frames, pin_count, status>> /\ status = "up"
      BY <1>4 DEF Evict
    <2>3. UnpinnedQueued'
      <3>1. ASSUME NEW g \in InUse, holds'[g] # NoPage, pin_count[g] = 0
            PROVE  g \in Range(recently_referenced')
        <4>1. g \notin Range(v) /\ holds[g] # NoPage
          BY <1>u, <2>1, <3>1 DEF EvictedHolds
        <4>2. g \in Range(recently_referenced)
          BY <3>1, <4>1 DEF QInv, UnpinnedQueued
        <4> QED
          BY <1>v, <2>1, <4>1, <4>2
      <3> QED
        BY <2>2, <3>1 DEF UnpinnedQueued, InUse
    <2> QED
      BY <1>n, <2>2, <2>3
  <1>5. ASSUME NEW n \in 1 .. MaxFrames, ChangeNFrames(n) \/ Create(n)
        PROVE  UnpinnedQueued' /\ AllPinnedIsTrue'
    <2>1. \A f \in Frames : holds'[f] = NoPage
      BY <1>5 DEF ChangeNFrames, Create, Fresh
    <2>2. InUse' \subseteq Frames /\ status' = "up"
      <3>1. n_frames' = n /\ status' = "up"
        BY <1>5 DEF ChangeNFrames, Create, Fresh
      <3> QED
        BY <1>5, <3>1, BoundsAssumption DEF InUse, Frames
    <2> QED
      BY <1>n, <2>1, <2>2 DEF UnpinnedQueued
  <1>6. ASSUME NEW p \in Pages, PinOutOfBounds(p) \/ UnpinFails(p)
        PROVE  /\ UNCHANGED <<n_frames, holds, pin_count, recently_referenced>>
               /\ status' # "all pinned"
    BY <1>6 DEF PinOutOfBounds, UnpinFails, CanUnpin, Exit, frameVars, queueVars
  <1>7. ASSUME NEW f \in Frames, AccessFails(f) \/ FlushPageFails(f) \/ FlushPage(f)
        PROVE  /\ UNCHANGED <<n_frames, holds, pin_count, recently_referenced>>
               /\ status' # "all pinned"
    BY <1>7 DEF AccessFails, FlushPageFails, FlushPage, Exit, frameVars, queueVars
  <1>8. ASSUME NEW f \in Frames, NEW v \in Values, WriteData(f, v)
        PROVE  /\ UNCHANGED <<n_frames, holds, pin_count, recently_referenced>>
               /\ status' # "all pinned"
    BY <1>8 DEF WriteData, queueVars
  <1>9. ASSUME \/ \E ft \in FileTypes : Allocate(ft)
               \/ \E b \in BulkModes : SetBulkImport(b)
               \/ FlushAllPages \/ FlushAllFails \/ Destroy \/ ExitElsewhere \/ EvictFails
        PROVE  /\ UNCHANGED <<n_frames, holds, pin_count, recently_referenced>>
               /\ status' # "all pinned"
    BY <1>9 DEF Allocate, SetBulkImport, FlushAllPages, FlushAllFails, Destroy,
                ExitElsewhere, EvictFails, Exit, frameVars, queueVars
  <1>10. CASE UNCHANGED vars
    BY <1>10 DEF vars, frameVars, queueVars, QInv, UnpinnedQueued, AllPinnedIsTrue,
                 InUse
  <1> QED
    BY <1>n, <1>q, <1>1, <1>2, <1>3, <1>4, <1>5, <1>6, <1>7, <1>8, <1>9, <1>10
       DEF Next

\* A step after which the queue still has no frame without a page.
LEMMA QueuedHoldStep ==
    ASSUME QInv, [Next]_vars
    PROVE  QueuedHold'
  <1>i. IInv /\ IInv' /\ bulk_import = FALSE
    BY NextIInv DEF QInv
  <1>t. /\ holds \in [Frames -> Pages \cup {NoPage}]
        /\ page_map \in [Pages -> Frames \cup {NoFrame}]
        /\ Range(recently_referenced) \subseteq Frames
    <2>1. /\ holds \in [Frames -> Pages \cup {NoPage}]
          /\ page_map \in [Pages -> Frames \cup {NoFrame}]
          /\ recently_referenced \in Seq(Frames)
      BY <1>i DEF IInv, TypeOK
    <2>2. Range(recently_referenced) \subseteq Frames
      BY <2>1 DEF Range
    <2> QED
      BY <2>1, <2>2
  <1>w. \A g \in Range(recently_referenced) : holds[g] # NoPage
    BY DEF QInv, QueuedHold
  <1>q. ASSUME UNCHANGED <<holds, recently_referenced>>
        PROVE  QueuedHold'
    BY <1>q, <1>w DEF QueuedHold
  <1>v. ASSUME NEW v, Dequeued(Range(v))
        PROVE  \A g \in Range(recently_referenced') :
                  g \in Range(recently_referenced) /\ g \notin Range(v)
    BY <1>v, KeepingProperties DEF Dequeued
  <1>l. ASSUME NEW p \in Pages, NEW v, NEW f \in Frames,
               holds' = [EvictedHolds(Range(v)) EXCEPT ![f] = p],
               \A g \in Range(recently_referenced') :
                  g \in Range(recently_referenced) /\ g \notin Range(v)
        PROVE  QueuedHold'
    <2> SUFFICES ASSUME NEW g \in Range(recently_referenced') PROVE holds'[g] # NoPage
      BY DEF QueuedHold
    <2>1. g \in Range(recently_referenced) /\ g \notin Range(v) /\ g \in Frames
      BY <1>l, <1>t
    <2>2. holds'[g] \in {p, holds[g]}
      BY <1>l, <2>1 DEF EvictedHolds
    <2>3. p # NoPage
      BY NoPageAssumption
    <2> QED
      BY <1>w, <2>1, <2>2, <2>3
  <1>f. ASSUME NEW p \in Pages, Fetch(p) PROVE QueuedHold'
    <2>1. CASE PinHit(p) \/ PinEvictFails(p)
      BY <1>q, <2>1 DEF PinHit, PinEvictFails, Exit, frameVars, queueVars
    <2>2. CASE PinFree(p)
      <3>1. /\ IsDistinct(<<>>) /\ Range(<<>>) \subseteq Unpinned
            /\ Range(<<>>) \cap Range(free_frames) = {} /\ Range(<<>>) = {}
        BY EmptyDistinct
      <3>2. \E f \in Frames : LoadsInto(p, <<>>, f)
        BY <1>i, <2>2, <3>1, LoadTarget DEF PinFree
      <3>3. PICK f \in Frames : holds' = [EvictedHolds(Range(<<>>)) EXCEPT ![f] = p]
        BY <3>2 DEF LoadsInto
      <3>4. recently_referenced' = recently_referenced
        BY <2>2 DEF PinFree, queueVars
      <3> QED
        BY <1>l, <3>1, <3>3, <3>4
    <2>3. CASE PinEvict(p)
      <3>1. PICK v \in LruVictims : v # <<>> /\ Load(p, v) /\ Dequeued(Range(v))
        BY <2>3 DEF PinEvict
      <3>2. /\ IsDistinct(v) /\ Range(v) \subseteq Unpinned
            /\ Range(v) \cap Range(free_frames) = {}
        <4>1. IsDistinct(v) /\ Range(v) \subseteq Unpinned
          BY <1>i, <3>1, EvictVictims
        <4>2. Range(free_frames) = {}
          BY <2>3, EmptyDistinct DEF PinEvict
        <4> QED
          BY <4>1, <4>2
      <3>3. PICK f \in Frames : holds' = [EvictedHolds(Range(v)) EXCEPT ![f] = p]
        <4>1. \E f \in Frames : LoadsInto(p, v, f)
          BY <1>i, <2>3, <3>1, <3>2, LoadTarget DEF PinEvict
        <4> QED
          BY <4>1 DEF LoadsInto
      <3> QED
        BY <1>l, <1>v, <3>1, <3>3
    <2>4. CASE PinBulkEvict(p) \/ PinBulkEvictFails(p)
      BY <1>i, <2>4 DEF PinBulkEvict, PinBulkEvictFails
    <2> QED
      BY <1>f, <2>1, <2>2, <2>3, <2>4 DEF Fetch
  <1>1. ASSUME NEW p \in Pages, PinPage(p) PROVE QueuedHold'
    BY <1>1, <1>f DEF PinPage
  <1>2. ASSUME NEW ft \in FileTypes, NewPage(ft) PROVE QueuedHold'
    BY <1>2, <1>f, <1>i, AllocatePagesKeeps DEF NewPage, IInv
  <1>3. ASSUME NEW p \in Pages, UnpinPage(p) PROVE QueuedHold'
    <2>1. /\ page_map[p] \in Frames /\ holds' = holds
          /\ recently_referenced' = MoveBack(recently_referenced, page_map[p])
      BY <1>3, <1>i DEF UnpinPage, CanUnpin, IInv, TypeOK
    <2>2. Range(recently_referenced') = Range(recently_referenced) \cup {page_map[p]}
      BY <1>i, <2>1, MoveBackDistinct DEF IInv, TypeOK, IsDistinct
    <2>3. holds[page_map[p]] = p
      BY <1>i, <2>1 DEF IInv, MapMatchesFrames
    <2> QED
      BY <1>w, <2>1, <2>2, <2>3, NoPageAssumption DEF QueuedHold
  <1>4. CASE Evict
    <2>1. PICK v \in LruVictims : holds' = EvictedHolds(Range(v)) /\ Dequeued(Range(v))
      BY <1>4 DEF Evict
    <2>2. \A g \in Range(recently_referenced') :
             g \in Range(recently_referenced) /\ g \notin Range(v)
      BY <1>v, <2>1
    <2> QED
      BY <1>t, <1>w, <2>1, <2>2 DEF QueuedHold, EvictedHolds
  <1>5. ASSUME NEW n \in 1 .. MaxFrames, ChangeNFrames(n) \/ Create(n)
        PROVE  QueuedHold'
    <2>1. recently_referenced' = <<>>
      BY <1>5 DEF ChangeNFrames, Create, Fresh
    <2> QED
      BY <2>1, EmptyDistinct DEF QueuedHold
  <1>6. ASSUME \/ \E p \in Pages : PinOutOfBounds(p) \/ UnpinFails(p)
               \/ \E f \in Frames : AccessFails(f) \/ FlushPageFails(f) \/ FlushPage(f)
               \/ \E f \in Frames, v \in Values : WriteData(f, v)
               \/ \E ft \in FileTypes : Allocate(ft)
               \/ \E b \in BulkModes : SetBulkImport(b)
               \/ FlushAllPages \/ FlushAllFails \/ Destroy \/ ExitElsewhere \/ EvictFails
               \/ UNCHANGED vars
        PROVE  UNCHANGED <<holds, recently_referenced>>
    BY <1>6 DEF PinOutOfBounds, UnpinFails, CanUnpin, AccessFails, FlushPageFails, FlushPage,
                WriteData, Allocate, SetBulkImport, FlushAllPages, FlushAllFails, Destroy,
                ExitElsewhere, EvictFails, Exit, vars, frameVars, queueVars
  <1> QED
    BY <1>q, <1>1, <1>2, <1>3, <1>4, <1>5, <1>6 DEF Next

LEMMA NormalModeInvariance ==
    ASSUME BulkModes = {FALSE}
    PROVE  Spec => []QInv
  <1>1. Init => QInv
    <2>1. Init => UnpinnedQueued
      <3> SUFFICES ASSUME Init PROVE UnpinnedQueued
        OBVIOUS
      <3>1. InUse \subseteq Frames
        BY BoundsAssumption DEF Init, InUse, Frames
      <3> QED
        BY <3>1 DEF Init, UnpinnedQueued
    <2>2. Init => QueuedHold
      BY EmptyDistinct DEF Init, QueuedHold
    <2> QED
      BY <2>1, <2>2, InitIInv DEF Init, QInv, AllPinnedIsTrue
  <1>2. QInv /\ [Next]_vars => QInv'
    <2> SUFFICES ASSUME QInv, [Next]_vars PROVE QInv'
      OBVIOUS
    <2>1. IInv'
      BY NextIInv DEF QInv
    <2>2. bulk_import' = FALSE
      BY <2>1 DEF IInv, TypeOK
    <2> QED
      BY <2>1, <2>2, NormalModeStep, QueuedHoldStep DEF QInv
  <1> QED
    BY <1>1, <1>2, PTL DEF Spec

\* As long as nothing sets bulk_import, evict reports "all pages are pinned"
\* only when they are: a pin fails for want of a frame only if every frame in
\* use is pinned.
THEOREM EvictVerdictRight ==
    ASSUME BulkModes = {FALSE}
    PROVE  Spec => []AllPinnedIsTrue
  <1>1. QInv => AllPinnedIsTrue
    BY DEF QInv
  <1> QED
    BY <1>1, NormalModeInvariance, PTL

\* As long as nothing sets bulk_import, the eviction queue has every unpinned page
\* and no free frame, for caches and files of any size.
THEOREM QueueCorrect ==
    ASSUME BulkModes = {FALSE}
    PROVE  Spec => []QueueExact
  <1>1. QInv => QueueExact
    <2> SUFFICES ASSUME QInv PROVE NoFreeFrameQueued
      BY DEF QInv, QueueExact
    <2>1. \A f \in Range(free_frames) : holds[f] = NoPage
      BY DEF QInv, IInv, FreeListExact
    <2> QED
      BY <2>1 DEF QInv, QueuedHold, NoFreeFrameQueued
  <1> QED
    BY <1>1, NormalModeInvariance, PTL

------------------------------------------------------------------------------
(* The page cache implements PageStore *)

\* What a client sees of page p through a dictionary m, frames d and disk k.
Visible(m, d, k, p) == IF m[p] # NoFrame THEN d[m[p]] ELSE k[p]

LEMMA PageFrame ==
    ASSUME IInv, NEW p \in Pages
    PROVE  /\ page_map[p] = NoFrame => \A f \in Frames : holds[f] # p
           /\ page_map[p] # NoFrame => /\ page_map[p] \in Frames /\ holds[page_map[p]] = p
                                       /\ holds[page_map[p]] # NoPage
                                       /\ \A f \in Frames : holds[f] = p => f = page_map[p]
  <1>1. page_map[p] \in Frames \cup {NoFrame} /\ p # NoPage
    BY NoPageAssumption, Zenon DEF IInv, TypeOK
  <1>2. \A f \in Frames : f # NoFrame /\ (page_map[p] = f <=> holds[f] = p)
    BY FramesAreNat, Zenon DEF IInv, MapMatchesFrames
  <1> QED
    BY <1>1, <1>2, Zenon

\* What the disk has of a page once the frames in S are written back.
LEMMA FlushedAt ==
    ASSUME IInv, NEW S \in SUBSET Frames, NEW p \in Pages
    PROVE  /\ (\A f \in S : holds[f] # p) => FlushedDisk(S)[p] = disk[p]
           /\ \A f \in S : holds[f] = p => FlushedDisk(S)[p] = data[f]
  <1>1. TypeOK /\ MapMatchesFrames /\ CleanMeansSaved
    BY Zenon DEF IInv
  <1>2. /\ \A f \in S : holds[f] # NoPage /\ dirty[f] => FlushedDisk(S)[holds[f]] = data[f]
        /\ (\A f \in S : holds[f] = p => ~dirty[f]) => FlushedDisk(S)[p] = disk[p]
    BY <1>1, FlushedDiskProperties, Zenon
  <1>3. ASSUME NEW f \in S, holds[f] = p PROVE FlushedDisk(S)[p] = data[f]
    <2>1. f \in Frames /\ p # NoPage
      BY NoPageAssumption, Zenon
    <2>2. CASE dirty[f]
      BY <1>2, <1>3, <2>1, <2>2, Zenon
    <2>3. CASE ~dirty[f]
      <3>1. \A g \in S : holds[g] = p => g = f
        <4>1. \A g \in Frames : holds[g] = p => page_map[p] = g
          BY <1>1, Zenon DEF MapMatchesFrames
        <4>2. page_map[p] = f
          BY <1>3, <2>1, <4>1, Zenon
        <4> QED
          BY <4>1, <4>2, Zenon
      <3>2. FlushedDisk(S)[p] = disk[p]
        BY <1>2, <2>3, <3>1, Zenon
      <3>3. data[f] = disk[holds[f]]
        <4>1. holds[f] # NoPage
          BY <1>3, <2>1, Zenon
        <4> QED
          BY <1>1, <2>1, <2>3, <4>1, Zenon DEF CleanMeansSaved
      <3> QED
        BY <1>3, <3>2, <3>3, Zenon
    <2> QED
      BY <2>2, <2>3, Zenon
  <1> QED
    BY <1>2, <1>3, Zenon

\* Writing frames back makes the durable copies of their pages current, and
\* touches no other durable copy.
LEMMA FlushIsWriteBack ==
    ASSUME IInv, NEW S \in SUBSET Frames
    PROVE  \E P \in SUBSET Pages :
              FlushedDisk(S) = [p \in Pages |-> IF p \in P
                                                THEN Visible(page_map, data, disk, p)
                                                ELSE disk[p]]
  <1> DEFINE P == {p \in Pages : \E f \in S : holds[f] = p /\ dirty[f]}
  <1>1. ASSUME NEW p \in P
        PROVE  FlushedDisk(S)[p] = Visible(page_map, data, disk, p)
    <2>1. PICK f \in S : holds[f] = p /\ dirty[f]
      OBVIOUS
    <2>2. page_map[p] = f /\ f # NoFrame
      BY <2>1, FramesAreNat DEF IInv, MapMatchesFrames
    <2>3. FlushedDisk(S)[p] = data[f]
      BY <2>1, FlushedDiskProperties, NoPageAssumption DEF IInv
    <2> QED
      BY <2>2, <2>3 DEF Visible
  <1>2. ASSUME NEW p \in Pages \ P
        PROVE  FlushedDisk(S)[p] = disk[p]
    BY FlushedDiskProperties DEF IInv
  <1>3. FlushedDisk(S) \in [Pages -> Values]
    BY FlushedDiskProperties DEF IInv
  <1>4. P \in SUBSET Pages
    OBVIOUS
  <1>5. FlushedDisk(S) = [p \in Pages |-> IF p \in P
                                          THEN Visible(page_map, data, disk, p)
                                          ELSE disk[p]]
    BY <1>1, <1>2, <1>3
  <1> QED
    BY <1>4, <1>5

\* Flushing every frame in use makes every durable copy current.
LEMMA FlushAllIsWriteBack ==
    ASSUME IInv
    PROVE  FlushedDisk(InUse) = [p \in Pages |-> Visible(page_map, data, disk, p)]
  <1>1. InUse \subseteq Frames
    BY BoundsAssumption DEF InUse, Frames, IInv, TypeOK
  <1>2. ASSUME NEW p \in Pages
        PROVE  FlushedDisk(InUse)[p] = Visible(page_map, data, disk, p)
    <2>1. CASE page_map[p] = NoFrame
      <3>1. \A f \in InUse : holds[f] # p
        BY <1>1, <2>1, PageFrame, Zenon
      <3> QED
        BY <1>1, <2>1, <3>1, FlushedAt, Zenon DEF Visible
    <2>2. CASE page_map[p] # NoFrame
      <3>1. page_map[p] \in Frames /\ holds[page_map[p]] = p /\ holds[page_map[p]] # NoPage
        BY <2>2, PageFrame, Zenon
      <3>2. page_map[p] \in InUse
        BY <3>1, Zenon DEF IInv, FreeListExact
      <3>3. FlushedDisk(InUse)[p] = data[page_map[p]]
        BY <1>1, <3>1, <3>2, FlushedAt, Zenon
      <3> QED
        BY <2>2, <3>3, Zenon DEF Visible
    <2> QED
      BY <2>1, <2>2, Zenon
  <1>3. FlushedDisk(InUse) \in [Pages -> Values]
    BY <1>1, FlushedDiskProperties, Zenon DEF IInv
  <1> QED
    BY <1>2, <1>3

\* Evicting unpinned frames is invisible to the client.
LEMMA EvictionInvisible ==
    ASSUME IInv, NEW V \in SUBSET Unpinned, NEW p \in Pages
    PROVE  Visible(EvictedMap(V), EvictedData(V), FlushedDisk(V), p)
              = Visible(page_map, data, disk, p)
  <1>1. V \subseteq Frames
    BY BoundsAssumption DEF Unpinned, InUse, Frames, IInv, TypeOK
  <1>2. CASE page_map[p] = NoFrame
    <2>1. \A f \in V : holds[f] # p
      BY <1>1, <1>2, PageFrame, Zenon
    <2>2. EvictedMap(V)[p] = NoFrame
      BY <1>2, Zenon DEF EvictedMap
    <2> QED
      BY <1>1, <1>2, <2>1, <2>2, FlushedAt, Zenon DEF Visible
  <1>3. CASE page_map[p] # NoFrame
    <2>1. PICK f \in Frames : /\ f = page_map[p] /\ holds[f] = p /\ holds[f] # NoPage
                              /\ \A g \in Frames : holds[g] = p => g = f
      BY <1>3, PageFrame, Zenon
    <2>2. CASE f \in V
      <3>1. EvictedMap(V)[p] = NoFrame
        BY <2>1, <2>2, Zenon DEF EvictedMap
      <3>2. FlushedDisk(V)[p] = data[f]
        BY <1>1, <2>1, <2>2, FlushedAt, Zenon
      <3> QED
        BY <1>3, <2>1, <3>1, <3>2, Zenon DEF Visible
    <2>3. CASE f \notin V
      <3>1. EvictedMap(V)[p] = f
        BY <1>1, <2>1, <2>3, Zenon DEF EvictedMap
      <3>2. EvictedData(V)[f] = data[f]
        BY <2>1, <2>3, Zenon DEF EvictedData
      <3> QED
        BY <1>3, <2>1, <3>1, <3>2, Zenon DEF Visible
    <2> QED
      BY <2>2, <2>3, Zenon
  <1> QED
    BY <1>2, <1>3, Zenon

\* A running cache: the client sees the frames first.
LEMMA ContentWhenUp ==
    ASSUME status = "up"
    PROVE  /\ \A p \in Pages : Content(p) = Visible(page_map, data, disk, p)
           /\ StoreState = "up"
  BY DEF Content, Visible, StoreState, Failures

\* Pin, unpin, evict, flush and resize are write-backs the client cannot see.
LEMMA QuietStep ==
    ASSUME IInv, status = "up", status' = "up",
           NEW S \in SUBSET Frames, disk' = FlushedDisk(S),
           \A p \in Pages : Visible(page_map', data', disk', p)
                              = Visible(page_map, data, disk, p)
    PROVE  Store!WriteBack
  <1>1. /\ \A p \in Pages : Content(p) = Visible(page_map, data, disk, p)
        /\ StoreState = "up"
    BY ContentWhenUp
  <1>2. /\ \A p \in Pages : Content(p)' = Visible(page_map', data', disk', p)
        /\ StoreState' = "up"
    BY DEF Content, Visible, StoreState, Failures
  <1>3. PICK P \in SUBSET Pages :
           disk' = [p \in Pages |-> IF p \in P THEN Visible(page_map, data, disk, p)
                                               ELSE disk[p]]
    BY FlushIsWriteBack
  <1>4. disk' = [p \in Pages |-> IF p \in P THEN [q \in Pages |-> Content(q)][p]
                                            ELSE disk[p]]
    BY <1>1, <1>3
  <1>5. [p \in Pages |-> Content(p)]' = [p \in Pages |-> Content(p)]
    BY <1>1, <1>2
  <1> QED
    BY <1>1, <1>2, <1>4, <1>5 DEF Store!WriteBack, Store!WrittenBack

\* exit(EXIT_FAILURE), also from the middle of flush_all_pages, leaves what had
\* been written back.
LEMMA FailStep ==
    ASSUME IInv, status = "up", status' \in Failures,
           NEW S \in SUBSET Frames, disk' = FlushedDisk(S)
    PROVE  Store!Fail
  <1>1. /\ \A p \in Pages : Content(p) = Visible(page_map, data, disk, p)
        /\ StoreState = "up"
    BY ContentWhenUp
  <1>2. StoreState' = "failed" /\ status' # "up"
    BY DEF StoreState, Failures
  <1>3. PICK P \in SUBSET Pages :
           disk' = [p \in Pages |-> IF p \in P THEN Visible(page_map, data, disk, p)
                                               ELSE disk[p]]
    BY FlushIsWriteBack
  <1>4. disk' = [p \in Pages |-> IF p \in P THEN [q \in Pages |-> Content(q)][p]
                                            ELSE disk[p]]
    BY <1>1, <1>3
  <1>5. [p \in Pages |-> Content(p)]' = disk'
    <2>1. \A p \in Pages : Content(p)' = disk'[p]
      BY <1>2 DEF Content
    <2> QED
      BY <1>4, <2>1
  <1> QED
    BY <1>1, <1>2, <1>4, <1>5 DEF Store!Fail, Store!WrittenBack

\* Loading a page shows the client what the disk had for it.
LEMMA LoadInvisible ==
    ASSUME IInv, NEW p \in Pages, page_map[p] = NoFrame,
           NEW v, IsDistinct(v), Range(v) \subseteq Unpinned,
           Range(v) \cap Range(free_frames) = {},
           free_frames # <<>> \/ v # <<>>,
           Load(p, v),
           NEW q \in Pages
    PROVE  Visible(page_map', data', disk', q) = Visible(page_map, data, disk, q)
  <1> DEFINE V == Range(v)
  <1>1. PICK f \in Frames :
           /\ EvictedHolds(V)[f] = NoPage
           /\ data' = [EvictedData(V) EXCEPT ![f] = FlushedDisk(V)[p]]
           /\ page_map' = [EvictedMap(V) EXCEPT ![p] = f]
    <2>1. \E f \in Frames : LoadsInto(p, v, f)
      BY LoadTarget, Zenon
    <2> QED
      BY <2>1, Zenon DEF LoadsInto
  <1>2. disk' = FlushedDisk(V)
    BY DEF Load
  <1>3. V \in SUBSET Unpinned
    OBVIOUS
  <1>4. EvictedMap(V) \in [Pages -> Frames \cup {NoFrame}]
        /\ EvictedData(V) \in [Frames -> Values]
    BY <1>3, EvictionProperties
  <1>5. Visible(EvictedMap(V), EvictedData(V), FlushedDisk(V), q)
           = Visible(page_map, data, disk, q)
    BY <1>3, EvictionInvisible
  <1>6. Visible(page_map', data', disk', q)
           = Visible(EvictedMap(V), EvictedData(V), FlushedDisk(V), q)
    <2>1. CASE q = p
      <3>1. EvictedMap(V)[p] = NoFrame
        BY DEF EvictedMap
      <3>2. page_map'[p] = f /\ data'[f] = FlushedDisk(V)[p] /\ f # NoFrame
        BY <1>1, <1>4, FramesAreNat
      <3> QED
        BY <2>1, <3>1, <3>2 DEF Visible
    <2>2. CASE q # p
      <3>1. page_map'[q] = EvictedMap(V)[q]
        BY <1>1, <1>4, <2>2
      <3>2. EvictedMap(V)[q] # f
        <4>1. EvictedMap(V)[q] = f <=> EvictedHolds(V)[f] = q
          <5> HIDE DEF V
          <5>1. \A r \in Pages, g \in Frames : EvictedMap(V)[r] = g <=> EvictedHolds(V)[g] = r
            BY <1>3, EvictionProperties, Zenon
          <5> QED
            BY <5>1, Zenon
        <4> QED
          BY <1>1, <4>1, NoPageAssumption, Zenon
      <3>3. \A g \in Frames : g # f => data'[g] = EvictedData(V)[g]
        BY <1>1, <1>4
      <3> QED
        BY <1>2, <1>4, <3>1, <3>2, <3>3 DEF Visible
    <2> QED
      BY <2>1, <2>2
  <1> QED
    BY <1>5, <1>6

\* Every step of the cache is a step of PageStore or invisible to it.
LEMMA StepSimulation ==
    ASSUME IInv, [Next]_vars
    PROVE  [Store!Next]_(Store!vars)
  <1>u. Unpinned \subseteq Frames /\ InUse \subseteq Frames
    BY BoundsAssumption DEF Unpinned, InUse, Frames, IInv, TypeOK
  <1>d. PICK S \in SUBSET Frames : disk' = FlushedDisk(S)
    BY <1>u, DiskStep
  <1>q. ASSUME status = "up", status' = "up",
               \A p \in Pages : Visible(page_map', data', disk', p)
                                  = Visible(page_map, data, disk, p)
        PROVE  [Store!Next]_(Store!vars)
    BY <1>d, <1>q, QuietStep DEF Store!Next
  <1>s. ASSUME status = "up", status' = "up", UNCHANGED <<page_map, data, disk>>
        PROVE  [Store!Next]_(Store!vars)
    BY <1>q, <1>s
  <1>x. ASSUME status = "up", status' \in Failures
        PROVE  [Store!Next]_(Store!vars)
    BY <1>d, <1>x, FailStep DEF Store!Next
  <1>f. ASSUME status = "up", NEW p \in Pages, Fetch(p)
        PROVE  [Store!Next]_(Store!vars)
    <2>1. CASE PinHit(p)
      BY <1>f, <1>s, <2>1 DEF PinHit
    <2>2. CASE Exit("all pinned")
      BY <1>f, <1>x, <2>2 DEF Exit, Failures
    <2>3. CASE /\ page_map[p] = NoFrame
               /\ \E v : /\ IsDistinct(v)
                         /\ Range(v) \subseteq Unpinned
                         /\ Range(v) \cap Range(free_frames) = {}
                         /\ free_frames # <<>> \/ v # <<>>
                         /\ Load(p, v)
      <3>1. status' = "up"
        BY <1>f, <2>3 DEF Load
      <3>2. \A q \in Pages : Visible(page_map', data', disk', q)
                               = Visible(page_map, data, disk, q)
        BY <2>3, LoadInvisible
      <3> QED
        BY <1>f, <1>q, <3>1, <3>2
    <2> QED
      BY <1>f, <2>1, <2>2, <2>3, FetchCases
  <1>g. ASSUME status = "up", status' = "up", NEW T \in SUBSET Unpinned, Flush(T),
               UNCHANGED <<page_map, data>>
        PROVE  [Store!Next]_(Store!vars)
    <2>1. ASSUME NEW p \in Pages
          PROVE  Visible(page_map', data', disk', p) = Visible(page_map, data, disk, p)
      <3>1. CASE page_map[p] = NoFrame
        <4>1. T \in SUBSET Frames /\ \A f \in T : holds[f] # p
          BY <1>u, <3>1, PageFrame, Zenon
        <4>2. disk'[p] = disk[p]
          BY <1>g, <4>1, FlushedAt, Zenon DEF Flush
        <4> QED
          BY <1>g, <3>1, <4>2 DEF Visible
      <3>2. CASE page_map[p] # NoFrame
        BY <1>g, <3>2 DEF Visible
      <3> QED
        BY <3>1, <3>2
    <2> QED
      BY <1>g, <1>q, <2>1
  <1>1. ASSUME NEW p \in Pages, PinPage(p) PROVE [Store!Next]_(Store!vars)
    BY <1>1, <1>f DEF PinPage
  <1>2. ASSUME NEW p \in Pages, PinOutOfBounds(p) \/ UnpinFails(p)
        PROVE  [Store!Next]_(Store!vars)
    BY <1>2, <1>x DEF PinOutOfBounds, UnpinFails, CanUnpin, Exit, Failures
  <1>3. ASSUME NEW p \in Pages, UnpinPage(p) PROVE [Store!Next]_(Store!vars)
    <2>1. status = "up" /\ UNCHANGED <<page_map, data, disk>>
      BY <1>3 DEF UnpinPage, CanUnpin
    <2>2. status' = "up" \/ status' \in Failures
      BY <1>3 DEF UnpinPage, CanUnpin, Failures
    <2> QED
      BY <1>s, <1>x, <2>1, <2>2
  <1>4. ASSUME NEW ft \in FileTypes, Allocate(ft) PROVE [Store!Next]_(Store!vars)
    BY <1>4, <1>s DEF Allocate, frameVars
  <1>5. ASSUME NEW ft \in FileTypes, NewPage(ft) PROVE [Store!Next]_(Store!vars)
    BY <1>5, <1>f, AllocatePagesKeeps DEF NewPage, IInv
  <1>6. ASSUME NEW f \in Frames, AccessFails(f) \/ FlushPageFails(f)
        PROVE  [Store!Next]_(Store!vars)
    BY <1>6, <1>x DEF AccessFails, FlushPageFails, Exit, Failures
  <1>7. ASSUME NEW f \in Frames, FlushPage(f) PROVE [Store!Next]_(Store!vars)
    BY <1>7, <1>g DEF FlushPage
  <1>8. ASSUME NEW f \in Frames, NEW v \in Values, WriteData(f, v)
        PROVE  [Store!Next]_(Store!vars)
    <2> DEFINE p == holds[f]
    <2>1. p \in Pages /\ page_map[p] = f /\ f # NoFrame
      <3>1. pin_count[f] # 0
        BY <1>8 DEF WriteData
      <3>2. holds[f] # NoPage
        BY <3>1, Zenon DEF IInv, FreeListExact
      <3>3. holds[f] \in Pages \cup {NoPage}
        BY Zenon DEF IInv, TypeOK
      <3> QED
        BY <3>2, <3>3, FramesAreNat, Zenon DEF IInv, MapMatchesFrames
    <2>2. /\ status = "up" /\ status' = "up"
          /\ data' = [data EXCEPT ![f] = v]
          /\ UNCHANGED <<page_map, disk>>
      BY <1>8 DEF WriteData
    <2>3. ASSUME NEW q \in Pages, q # p
          PROVE  page_map[q] # f
      BY <2>3 DEF IInv, MapMatchesFrames
    <2>4. ASSUME NEW q \in Pages
          PROVE  Content(q)' = IF q = p THEN v ELSE Content(q)
      <3>1. CASE q = p
        BY <2>1, <2>2, <3>1 DEF Content, IInv, TypeOK
      <3>2. CASE q # p /\ page_map[q] = NoFrame
        BY <2>2, <3>2 DEF Content
      <3>3. CASE q # p /\ page_map[q] # NoFrame
        <4>1. page_map[q] \in Frames /\ page_map[q] # f
          BY <2>3, <3>3 DEF IInv, TypeOK
        <4>2. data'[page_map[q]] = data[page_map[q]]
          BY <2>2, <4>1 DEF IInv, TypeOK
        <4> QED
          BY <2>2, <3>3, <4>2 DEF Content
      <3> QED
        BY <3>1, <3>2, <3>3
    <2>5. StoreState = "up" /\ StoreState' = "up"
      BY <2>2 DEF StoreState, Failures
    <2> HIDE DEF p
    <2>6. [q \in Pages |-> Content(q)]' = [[q \in Pages |-> Content(q)] EXCEPT ![p] = v]
      BY <2>1, <2>4
    <2> QED
      BY <2>1, <2>2, <2>5, <2>6 DEF Store!Next, Store!Write
  <1>9. CASE FlushAllPages
    BY <1>9, <1>g DEF FlushAllPages
  <1>10. CASE FlushAllFails
    BY <1>10, <1>x DEF FlushAllFails, Failures
  <1>11. CASE Evict
    <2>1. PICK v \in LruVictims :
             /\ Flush(Range(v))
             /\ data' = EvictedData(Range(v))
             /\ page_map' = EvictedMap(Range(v))
      BY <1>11 DEF Evict
    <2>2. Range(v) \in SUBSET Unpinned
      BY <2>1, EvictVictims
    <2>3. disk' = FlushedDisk(Range(v)) /\ status = "up" /\ status' = "up"
      BY <1>11, <2>1 DEF Flush, Evict
    <2> QED
      BY <1>q, <2>1, <2>2, <2>3, EvictionInvisible
  <1>12. ASSUME NEW n \in 1 .. MaxFrames, ChangeNFrames(n)
         PROVE  [Store!Next]_(Store!vars)
    <2>1. /\ disk' = FlushedDisk(InUse) /\ page_map' = [p \in Pages |-> NoFrame]
          /\ status = "up" /\ status' = "up"
      BY <1>12 DEF ChangeNFrames, Flush, Fresh
    <2>2. ASSUME NEW p \in Pages
          PROVE  Visible(page_map', data', disk', p) = Visible(page_map, data, disk, p)
      BY <2>1, FlushAllIsWriteBack DEF Visible
    <2> QED
      BY <1>q, <2>1, <2>2
  <1>13. ASSUME NEW n \in 1 .. MaxFrames, Create(n)
         PROVE  [Store!Next]_(Store!vars)
    <2>1. /\ status # "up" /\ status' = "up" /\ disk' = disk
          /\ page_map' = [p \in Pages |-> NoFrame]
      BY <1>13 DEF Create, Fresh
    <2>2. \A p \in Pages : Content(p)' = Content(p)
      BY <2>1 DEF Content
    <2>3. StoreState # "up" /\ StoreState' = "up"
      BY <2>1 DEF StoreState, Failures
    <2> QED
      BY <2>1, <2>2, <2>3 DEF Store!Next, Store!Open
  <1>14. CASE Destroy
    <2>1. disk' = FlushedDisk(InUse) /\ status = "up" /\ status' = "closed"
      BY <1>14 DEF Destroy, Flush
    <2>2. \A p \in Pages : Content(p) = Visible(page_map, data, disk, p)
      BY <2>1, ContentWhenUp
    <2>3. disk' = [p \in Pages |-> Content(p)]
      BY <2>1, <2>2, FlushAllIsWriteBack
    <2>4. \A p \in Pages : Content(p)' = Content(p)
      BY <2>1, <2>3 DEF Content
    <2>5. StoreState = "up" /\ StoreState' = "closed"
      BY <2>1 DEF StoreState, Failures
    <2>6. disk' = [p \in Pages |-> IF p \in Pages THEN [q \in Pages |-> Content(q)][p]
                                                  ELSE disk[p]]
      BY <2>3
    <2> QED
      BY <2>4, <2>5, <2>6 DEF Store!Next, Store!Close, Store!WrittenBack
  <1>15. ASSUME NEW b \in BulkModes, SetBulkImport(b) PROVE [Store!Next]_(Store!vars)
    BY <1>15, <1>s DEF SetBulkImport, frameVars
  <1>16. CASE ExitElsewhere \/ EvictFails
    BY <1>16, <1>x DEF ExitElsewhere, EvictFails, Exit, Failures
  <1>17. CASE UNCHANGED vars
    <2>1. UNCHANGED <<page_map, data, disk, status>>
      BY <1>17 DEF vars, frameVars
    <2> QED
      BY <2>1 DEF Store!vars, Content, StoreState
  <1> QED
    BY <1>1, <1>2, <1>3, <1>4, <1>5, <1>6, <1>7, <1>8, <1>9, <1>10, <1>11, <1>12,
       <1>13, <1>14, <1>15, <1>16, <1>17 DEF Next

\* The cache implements PageStore: clients see their last write through every
\* eviction, flush and resize, page_cache_destroy saves everything, and an exit
\* loses exactly the pages not written back.
THEOREM Refinement == Spec => ImplementsPageStore
  <1>1. Init => Store!Init
    BY DEF Init, Store!Init, Content, StoreState, Failures
  <1>2. IInv /\ [Next]_vars => [Store!Next]_(Store!vars)
    BY StepSimulation
  <1> QED
    BY <1>1, <1>2, Invariance, PTL DEF Spec, ImplementsPageStore, Store!Spec

==============================================================================
