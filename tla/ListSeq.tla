-------------------------------- MODULE ListSeq --------------------------------
(***************************************************************************)
(* What the list, the queue and the stack of include/data-struct/          *)
(* linked_list.h are to their callers: a sequence.  Indices count from 0,  *)
(* as in the code.  move_back is what the code does, not what its name     *)
(* says, see MoveBack.                                                     *)
(***************************************************************************)
EXTENDS Integers, Sequences, SequencesExt

CONSTANTS
    Elements,   \* the elements of a list
    NULL        \* result of an operation that returns nothing

VARIABLES
    operations, \* the operations this kind of list has, see LinkedList
    elems,      \* the list
    result,     \* what the last operation returned
    status      \* "up", or how the process ended

vars == <<operations, elems, result, status>>

Indices == 0 .. Len(elems) - 1

\* Where the first, the last occurrence of e is.
FirstIndex(e) == CHOOSE i \in Indices : /\ elems[i + 1] = e
                                        /\ \A j \in 0 .. i - 1 : elems[j + 1] # e
LastIndex(e)  == CHOOSE i \in Indices : /\ elems[i + 1] = e
                                        /\ \A j \in Indices : elems[j + 1] = e => j <= i

Becomes(s, r) == result' = r /\ elems' = s /\ UNCHANGED status

Appends(e) == Becomes(Append(elems, e), NULL)

Inserts(e, i) ==
    /\ i \in Indices \/ (i = 0 /\ elems = <<>>)
    /\ Becomes(InsertAt(elems, i + 1, e), NULL)

Removes(i) == i \in Indices /\ Becomes(RemoveAt(elems, i + 1), NULL)

RemovesElem(e) == e \in Range(elems) /\ Becomes(RemoveAt(elems, FirstIndex(e) + 1), NULL)

Gets(i) == i \in Indices /\ Becomes(elems, elems[i + 1])

Takes(i) == i \in Indices /\ Becomes(RemoveAt(elems, i + 1), elems[i + 1])

IndexOfIs(e) == Becomes(elems, IF e \in Range(elems) THEN FirstIndex(e) ELSE -1)

\* The last occurrence of e: at the end, the whole list is turned by one; at
\* the front, it stays; in between, it goes to the end.
MovesBack(e) ==
    LET n == Len(elems) IN
    \/ e \notin Range(elems) /\ Becomes(Append(elems, e), NULL)
    \/ /\ e \in Range(elems)
       /\ LET k == LastIndex(e) + 1 IN
          Becomes(IF k = 1 THEN elems
                  ELSE IF k = n THEN Append(Tail(elems), Head(elems))
                  ELSE Append(RemoveAt(elems, k), e), NULL)

Clears == Becomes(<<>>, NULL)

\* Only move_back may make the list unusable.
Breaks == "move_back" \in operations /\ status' = "undefined"

Ends == status' \in {"failed", "crash"} /\ UNCHANGED <<elems, result>>

Init == elems = <<>> /\ result = NULL /\ status = "up"

Next ==
    /\ UNCHANGED operations
    /\ \/ /\ status = "up"
          /\ \/ \E e \in Elements :
                   \/ Appends(e) \/ RemovesElem(e) \/ IndexOfIs(e)
                   \/ "move_back" \in operations /\ MovesBack(e)
             \/ \E i \in 0 .. Len(elems) :
                   \/ Removes(i) \/ Gets(i)
                   \/ "take" \in operations /\ Takes(i)
                   \/ "pop first" \in operations /\ i = 0 /\ Takes(i)
                   \/ "pop last" \in operations /\ i = Len(elems) - 1 /\ Takes(i)
                   \/ \E e \in Elements : "insert" \in operations /\ Inserts(e, i)
             \/ Clears \/ Breaks \/ Ends
       \/ status = "undefined" /\ status' = "undefined"

Spec == Init /\ [][Next]_vars
==============================================================================
