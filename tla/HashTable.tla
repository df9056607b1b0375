------------------------------- MODULE HashTable -------------------------------
(***************************************************************************)
(* dict_ul_ul and the other tables of include/data-struct/htable.h: a      *)
(* bucket is the chain of entries that hash to its index, and insert       *)
(* doubles the number of buckets first when they are filled too far.       *)
(***************************************************************************)
EXTENDS Integers, Sequences, SequencesExt, FiniteSets, Bitwise

CONSTANTS
    Keys, Values, None,
    Seeds,          \* what rand() may return
    BucketStart,    \* BUCKET_START, a power of two
    TooManyBuckets  \* 1 << TOO_MANY_BUCKETS_BITS

VARIABLES
    buckets, num_buckets, num_used, seed,
    it,             \* the iterator: the chain behind cur, and idx
    answer,         \* of the last get or iterator_next
    status

table == <<buckets, num_buckets, num_used, seed>>
vars  == <<table, it, answer, status>>

NoIterator == [on |-> FALSE, cur |-> <<>>, idx |-> 0]
Ready      == status = "up" /\ ~it.on

\* fnv_hash_ul.  The number of buckets divides 2^64, so that the remainder is that
\* of the product before it wraps around.
FnvHash == [h \in Seeds, in \in Keys |-> (h ^^ in) * 16633783]

BucketIdx(key, n) == FnvHash[seed, key] % n

\* Where the walk along a chain stops at an entry of the key.
EntryOf(chain, key) == {j \in DOMAIN chain : chain[j].key = key}

\* add_to_bucket.
Added(b, key, value) ==
    LET i  == BucketIdx(key, Cardinality(DOMAIN b))
        at == EntryOf(b[i], key)
    IN  [b EXCEPT ![i] = IF at = {} THEN Append(@, [key |-> key, value |-> value])
                         ELSE [j \in DOMAIN @ |-> IF j \in at THEN [@[j] EXCEPT !.value = value] ELSE @[j]]]

Empty(n) == [i \in 0 .. n - 1 |-> <<>>]

\* The entries in the order in which rehash, destroy and an iterator meet them.
EntriesFrom(b, i) ==
    LET n == Cardinality(DOMAIN b) IN
    FlattenSeq([k \in 1 .. (IF i < n THEN n - i ELSE 0) |-> b[i + k - 1]])

\* REHASH_FILLING_RATIO is 0.6.
Refilled == /\ num_used + 1 >= (num_buckets * 6) \div 10
            /\ num_buckets < TooManyBuckets

Rehashed ==
    IF ~Refilled THEN buckets
    ELSE FoldLeft(LAMBDA b, e : Added(b, e.key, e.value), Empty(2 * num_buckets), EntriesFrom(buckets, 0))

TableInsert(key, value) ==
    LET old == Rehashed
        new == Added(old, key, value)
        i   == BucketIdx(key, Cardinality(DOMAIN old))
    IN
    /\ Ready
    /\ buckets' = new
    /\ num_buckets' = Cardinality(DOMAIN old)
    /\ num_used' = IF Len(new[i]) > Len(old[i]) THEN num_used + 1 ELSE num_used
    /\ answer' = None
    /\ UNCHANGED <<seed, it, status>>

\* Mutant: the entry is not counted out.
TableRemoveUncounted(key) ==
    LET i == BucketIdx(key, num_buckets) IN
    /\ Ready
    /\ \E j \in EntryOf(buckets[i], key) : buckets' = [buckets EXCEPT ![i] = RemoveAt(@, j)]
    /\ answer' = None
    /\ UNCHANGED <<num_buckets, num_used, seed, it, status>>

\* A first entry is overwritten by the one behind it, another one is unlinked.
TableRemove(key) ==
    LET i == BucketIdx(key, num_buckets) IN
    /\ Ready
    /\ \E j \in EntryOf(buckets[i], key) : buckets' = [buckets EXCEPT ![i] = RemoveAt(@, j)]
    /\ num_used' = num_used - 1
    /\ answer' = None
    /\ UNCHANGED <<num_buckets, seed, it, status>>

\* remove or get_direct of a key that is not there: exit(EXIT_FAILURE).
Fails(key) ==
    /\ Ready
    /\ EntryOf(buckets[BucketIdx(key, num_buckets)], key) = {}
    /\ status' = "failed"
    /\ UNCHANGED <<table, it, answer>>

\* get, get_direct, contains.
TableGet(key) ==
    LET chain == buckets[BucketIdx(key, num_buckets)] IN
    /\ Ready
    /\ \/ \E j \in EntryOf(chain, key) : answer' = <<key, chain[j].value>>
       \/ EntryOf(chain, key) = {} /\ answer' = <<key, None>>
    /\ UNCHANGED <<table, it, status>>

\* iterator_create.
IteratorCreate ==
    /\ Ready
    /\ it' = [NoIterator EXCEPT !.on = TRUE]
    /\ answer' = None
    /\ UNCHANGED <<table, status>>

\* The first bucket in use from idx on.
NextUsed == {i \in it.idx .. num_buckets - 1 :
                buckets[i] # <<>> /\ \A j \in it.idx .. i - 1 : buckets[j] = <<>>}

\* Mutant: what is left of a chain is skipped.
IteratorNextHeads ==
    /\ status = "up" /\ it.on
    /\ \E i \in NextUsed : /\ answer' = <<Head(buckets[i]).key, Head(buckets[i]).value>>
                           /\ it' = [it EXCEPT !.idx = i + 1]
    /\ UNCHANGED <<table, status>>

IteratorNext ==
    /\ status = "up" /\ it.on
    /\ \E chain \in IF it.cur # <<>> THEN {it.cur} ELSE {buckets[i] : i \in NextUsed} :
          /\ answer' = <<Head(chain).key, Head(chain).value>>
          /\ it' = [it EXCEPT !.cur = Tail(chain),
                              !.idx = IF it.cur # <<>> THEN @ ELSE 1 + CHOOSE i \in NextUsed : TRUE]
    /\ UNCHANGED <<table, status>>

\* iterator_next returns -1, iterator_destroy.
IteratorDestroy ==
    /\ status = "up" /\ it.on
    /\ it.cur = <<>> /\ NextUsed = {}
    /\ it' = NoIterator
    /\ answer' = None
    /\ UNCHANGED <<table, status>>

\* destroy, and create of the next table.
Destroy ==
    /\ Ready
    /\ buckets' = Empty(BucketStart)
    /\ num_buckets' = BucketStart
    /\ num_used' = 0
    /\ seed' \in Seeds
    /\ answer' = None
    /\ UNCHANGED <<it, status>>

Init ==
    /\ buckets = Empty(BucketStart)
    /\ num_buckets = BucketStart
    /\ num_used = 0
    /\ seed \in Seeds
    /\ it = NoIterator
    /\ answer = None
    /\ status = "up"

Next ==
    \/ \E key \in Keys : \/ \E value \in Values : TableInsert(key, value)
                         \/ TableRemove(key) \/ TableGet(key) \/ Fails(key)
    \/ IteratorCreate \/ IteratorNext \/ IteratorDestroy
    \/ Destroy

Spec == Init /\ [][Next]_vars

------------------------------------------------------------------------------
(* Properties *)

KeysOf(chain) == {chain[j].key : j \in DOMAIN chain}

\* The keys in the buckets from i on.
KeysFrom(i) == UNION {KeysOf(buckets[k]) : k \in i .. num_buckets - 1}

Contents ==
    LET all == UNION {ToSet(buckets[i]) : i \in DOMAIN buckets} IN
    [k \in KeysFrom(0) |-> (CHOOSE e \in all : e.key = k).value]

Dict == INSTANCE Dictionary
            WITH dict <- Contents, reading <- it.on,
                 unread <- IF it.on THEN KeysOf(it.cur) \cup KeysFrom(it.idx) ELSE {}

\* Through every collision, removal from a chain and doubling of the buckets the
\* table is the function that Dictionary says: get finds what was last inserted,
\* and an iteration hands out every entry.
TableImplementsDictionary == Dict!Spec

\* num_used, by which rehash decides and which dict_ul_ul_size returns, is the
\* number of entries: replacing a value counts nothing, and neither does a rehash.
SizeExact == num_used = Len(EntriesFrom(buckets, 0))
==============================================================================
