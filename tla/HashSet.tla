-------------------------------- MODULE HashSet --------------------------------
(***************************************************************************)
(* set_ul of include/data-struct/set.h, a hash table of elements without   *)
(* values.                                                                 *)
(***************************************************************************)
EXTENDS Integers, Sequences, SequencesExt, FiniteSets, Bitwise

CONSTANTS
    Keys, None,
    Seeds,           \* what rand() may return
    BucketStartS,    \* BUCKET_START_S, a power of two
    TooManyBucketsS  \* 1 << TOO_MANY_BUCKETS_BITS_S

VARIABLES
    buckets, num_buckets, num_used, seed,
    it,              \* the iterator: the chain behind cur, and idx
    answer,          \* of the last contains or iterator_next
    status,
    unlinked         \* ghost: an element was removed from the midst of a chain

table == <<buckets, num_buckets, num_used, seed>>
vars  == <<table, it, answer, status, unlinked>>

NoIterator == [on |-> FALSE, cur |-> <<>>, idx |-> 0]
Ready      == status = "up" /\ ~it.on

\* fnv_hash_ul, see HashTable.
FnvHash == [h \in Seeds, in \in Keys |-> (h ^^ in) * 16633783]

BucketIdx(elem, n) == FnvHash[seed, elem] % n

\* Mutant: the chain is not searched for the element.
SetAddedTwice(b, elem) == [b EXCEPT ![BucketIdx(elem, Cardinality(DOMAIN b))] = Append(@, elem)]

\* add_to_bucket.
SetAdded(b, elem) ==
    [b EXCEPT ![BucketIdx(elem, Cardinality(DOMAIN b))] =
        IF Contains(@, elem) THEN @ ELSE Append(@, elem)]

Empty(n) == [i \in 0 .. n - 1 |-> <<>>]

\* REHASH_FILLING_RATIO_S is 0.8.
SetRefilled == /\ num_used + 1 >= (num_buckets * 8) \div 10
               /\ num_buckets < TooManyBucketsS

SetRehashed ==
    IF ~SetRefilled THEN buckets
    ELSE FoldLeft(SetAdded, Empty(2 * num_buckets),
                  FlattenSeq([i \in 1 .. num_buckets |-> buckets[i - 1]]))

SetInsert(elem) ==
    LET old == SetRehashed
        new == SetAdded(old, elem)
    IN
    /\ Ready
    /\ buckets' = new
    /\ num_buckets' = Cardinality(DOMAIN old)
    /\ num_used' = IF new = old THEN num_used ELSE num_used + 1
    /\ answer' = None
    /\ UNCHANGED <<seed, it, status, unlinked>>

\* The first element of a chain is overwritten by the next one; another one is
\* unlinked and num_used stays as it is.
SetRemove(elem) ==
    LET i     == BucketIdx(elem, num_buckets)
        first == Head(buckets[i]) = elem
    IN
    /\ Ready
    /\ Contains(buckets[i], elem)
    /\ buckets' = [buckets EXCEPT ![i] = Remove(@, elem)]
    /\ num_used' = IF first THEN num_used - 1 ELSE num_used
    /\ unlinked' = (unlinked \/ ~first)
    /\ answer' = None
    /\ UNCHANGED <<num_buckets, seed, it, status>>

\* remove of an element that is not there: exit(EXIT_FAILURE).
SetFails(elem) ==
    /\ Ready
    /\ ~Contains(buckets[BucketIdx(elem, num_buckets)], elem)
    /\ status' = "failed"
    /\ UNCHANGED <<table, it, answer, unlinked>>

\* Mutant: only the first element of a chain is compared.
SetContainsHead(elem) ==
    LET chain == buckets[BucketIdx(elem, num_buckets)] IN
    /\ Ready
    /\ answer' = <<elem, IF chain # <<>> /\ Head(chain) = elem THEN TRUE ELSE None>>
    /\ UNCHANGED <<table, it, status, unlinked>>

SetContains(elem) ==
    /\ Ready
    /\ answer' = <<elem, IF Contains(buckets[BucketIdx(elem, num_buckets)], elem) THEN TRUE ELSE None>>
    /\ UNCHANGED <<table, it, status, unlinked>>

SetIteratorCreate ==
    /\ Ready
    /\ it' = [NoIterator EXCEPT !.on = TRUE]
    /\ answer' = None
    /\ UNCHANGED <<table, status, unlinked>>

\* The first bucket in use from idx on.
NextUsed == {i \in it.idx .. num_buckets - 1 :
                buckets[i] # <<>> /\ \A j \in it.idx .. i - 1 : buckets[j] = <<>>}

SetIteratorNext ==
    /\ status = "up" /\ it.on
    /\ \E chain \in IF it.cur # <<>> THEN {it.cur} ELSE {buckets[i] : i \in NextUsed} :
          /\ answer' = <<Head(chain), TRUE>>
          /\ it' = [it EXCEPT !.cur = Tail(chain),
                              !.idx = IF it.cur # <<>> THEN @ ELSE 1 + CHOOSE i \in NextUsed : TRUE]
    /\ UNCHANGED <<table, status, unlinked>>

\* iterator_next returns -1, iterator_destroy.
SetIteratorDestroy ==
    /\ status = "up" /\ it.on
    /\ it.cur = <<>> /\ NextUsed = {}
    /\ it' = NoIterator
    /\ answer' = None
    /\ UNCHANGED <<table, status, unlinked>>

\* destroy, and create of the next set.
SetDestroy ==
    /\ Ready
    /\ buckets' = Empty(BucketStartS)
    /\ num_buckets' = BucketStartS
    /\ num_used' = 0
    /\ seed' \in Seeds
    /\ answer' = None
    /\ unlinked' = FALSE
    /\ UNCHANGED <<it, status>>

Init ==
    /\ buckets = Empty(BucketStartS)
    /\ num_buckets = BucketStartS
    /\ num_used = 0
    /\ seed \in Seeds
    /\ it = NoIterator
    /\ answer = None
    /\ status = "up"
    /\ unlinked = FALSE

\* num_used grows with every removal from the midst of a chain; MaxUsed bounds it.
MaxUsed == Cardinality(Keys) + 1

Next ==
    \/ \E elem \in Keys : \/ num_used < MaxUsed /\ SetInsert(elem)
                          \/ SetRemove(elem) \/ SetContains(elem) \/ SetFails(elem)
    \/ SetIteratorCreate \/ SetIteratorNext \/ SetIteratorDestroy
    \/ SetDestroy

Spec == Init /\ [][Next]_vars

------------------------------------------------------------------------------
(* Properties *)

ElementsFrom(i) == UNION {ToSet(buckets[k]) : k \in i .. num_buckets - 1}

Dict == INSTANCE Dictionary
            WITH Values <- {TRUE}, dict <- [e \in ElementsFrom(0) |-> TRUE], reading <- it.on,
                 unread <- IF it.on THEN ToSet(it.cur) \cup ElementsFrom(it.idx) ELSE {}

\* contains answers, and an iteration hands out, exactly the elements inserted and
\* not removed since, each once.
SetImplementsDictionary == Dict!Spec

\* sort_incidence_list allocates set_ul_size elements and fills in one for every
\* element an iteration hands out: the size is never less than that, and no more
\* either as long as nothing was removed from the midst of a chain.
SizeSufficient ==
    /\ num_used >= Cardinality(ElementsFrom(0))
    /\ num_used > Cardinality(ElementsFrom(0)) => unlinked
==============================================================================
