------------------------------- MODULE ArrayList -------------------------------
(***************************************************************************)
(* array_list_ul and the other array lists of include/data-struct/         *)
(* array_list.h: elements in one block of memory that grows and that       *)
(* insert, remove and take shift by memmove.                               *)
(***************************************************************************)
EXTENDS Integers, Sequences

CONSTANTS
    Elements,      \* the elements of a list
    NULL,
    InitialAlloc,  \* initial_alloc; 128 in the code
    MaxArrayLen    \* bound: the length of a list

VARIABLES
    elements,      \* the block; what was never written is NULL
    alloced,
    len,
    result,        \* what the last operation returned
    status         \* "up", or how the process ended

block == <<elements, alloced, len>>
vars  == <<block, result, status>>

Returns(r) == result' = r /\ UNCHANGED status

\* memmove of the n elements at from to the place to, which may overlap.
Moved(b, to, from, n) ==
    [i \in DOMAIN b |-> IF i \in to .. to + n - 1 THEN b[i - to + from] ELSE b[i]]

\* A full block grows by alloced <<= 2.
Grown == IF len = alloced THEN alloced * 4 ELSE alloced

Insert(v, idx) ==
    LET b == [i \in 0 .. Grown - 1 |-> IF i < alloced THEN elements[i] ELSE NULL] IN
    /\ idx \in 0 .. len
    /\ len < MaxArrayLen
    /\ alloced' = Grown
    /\ elements' = [Moved(b, idx + 1, idx, len - idx) EXCEPT ![idx] = v]
    /\ len' = len + 1
    /\ Returns(NULL)

ListAppend(v) == Insert(v, len)

\* Mutant: the last element is not moved.
RemoveInternalTooFew(idx) ==
    /\ elements' = Moved(elements, idx, idx + 1, len - 2 - idx)
    /\ len' = len - 1
    /\ UNCHANGED alloced

RemoveInternal(idx) ==
    /\ elements' = Moved(elements, idx, idx + 1, len - 1 - idx)
    /\ len' = len - 1
    /\ UNCHANGED alloced

Remove(idx) == idx \in 0 .. len - 1 /\ RemoveInternal(idx) /\ Returns(NULL)

\* index_of: the first element that equals v.
Found(v) == {i \in 0 .. len - 1 : elements[i] = v /\ \A j \in 0 .. i - 1 : elements[j] # v}

RemoveElem(v) == \E i \in Found(v) : RemoveInternal(i) /\ Returns(NULL)

\* index_of, contains.
IndexOf(v) ==
    /\ UNCHANGED block
    /\ \/ \E i \in Found(v) : Returns(i)
       \/ Found(v) = {} /\ Returns(-1)

Get(idx) == idx \in 0 .. len - 1 /\ UNCHANGED block /\ Returns(elements[idx])

Take(idx) == idx \in 0 .. len - 1 /\ RemoveInternal(idx) /\ Returns(elements[idx])

\* An index that is not there, or an element remove_elem does not find:
\* exit(EXIT_FAILURE).
Fails == status' = "failed" /\ UNCHANGED <<block, result>>

Created == [i \in 0 .. InitialAlloc - 1 |-> NULL]

\* destroy, and create of the next list.
Destroy ==
    /\ elements' = Created
    /\ alloced' = InitialAlloc
    /\ len' = 0
    /\ Returns(NULL)

Init ==
    /\ elements = Created
    /\ alloced = InitialAlloc
    /\ len = 0
    /\ result = NULL
    /\ status = "up"

Next ==
    /\ status = "up"
    /\ \/ \E v \in Elements : ListAppend(v) \/ RemoveElem(v) \/ IndexOf(v)
       \/ \E idx \in 0 .. MaxArrayLen :
             \/ Remove(idx) \/ Get(idx) \/ Take(idx)
             \/ \E v \in Elements : Insert(v, idx)
       \/ Fails \/ Destroy

Spec == Init /\ [][Next]_vars

------------------------------------------------------------------------------
(* Properties *)

Seq_ == INSTANCE ListSeq WITH elems <- [i \in 1 .. len |-> elements[i - 1]],
                              operations <- {"insert", "take"}

\* However the block is shifted, and grown in the midst of an insert, the list is
\* the sequence that ListSeq says, and returns what it says; the linked list
\* implements the same.
ArrayImplementsListSeq == Seq_!Spec
==============================================================================
