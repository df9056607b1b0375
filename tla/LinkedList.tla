------------------------------- MODULE LinkedList -------------------------------
(***************************************************************************)
(* The ring of nodes behind llist_ul, queue_ul and stack_ul, after         *)
(* include/data-struct/linked_list.h, pointer by pointer.  A cell is the   *)
(* memory of one node; a cell that was freed may be handed out again.      *)
(***************************************************************************)
EXTENDS Integers, Sequences, FiniteSets, Functions

CONSTANTS
    Cells,      \* bound: the memory there is for nodes
    Elements,   \* the elements of a list
    NULL,
    Kinds       \* the kinds of list: a kind is the set of operations it has
                \* besides the common ones, out of "insert", "take",
                \* "pop first", "pop last", "move_back"

VARIABLES
    operations, \* the kind of this list
    node,       \* the contents of every cell
    allocated,  \* the cells that are not free
    head,       \* ll->head
    tail,       \* ll->tail
    len,        \* ll->len
    result,     \* what the last operation returned
    status      \* "up", how the process ended, or "undefined": a link inside
                \* the ring leads to memory that was freed

ring == <<node, allocated, head, tail, len>>
vars == <<operations, ring, result, status>>

Pointers == Cells \cup {NULL}
Nodes    == [element : Elements \cup {NULL}, prev : Pointers, next : Pointers]
MaxLen   == Cardinality(Cells)

TypeOK ==
    /\ operations \in Kinds
    /\ node \in [Cells -> Nodes]
    /\ allocated \subseteq Cells
    /\ head \in Pointers /\ tail \in Pointers
    /\ len \in 0 .. MaxLen
    /\ result \in Elements \cup {NULL} \cup -1 .. MaxLen
    /\ status \in {"up", "failed", "crash", "undefined"}

------------------------------------------------------------------------------
(* Walks *)

\* The cells i links away from head and from tail.
Forward[i \in Nat]  == IF i = 0 THEN head ELSE node[Forward[i - 1]].next
Backward[i \in Nat] == IF i = 0 THEN tail ELSE node[Backward[i - 1]].prev

Indices == 0 .. len - 1

\* Where a walk that compares every element with e stops.
Found(walk, e) ==
    {i \in Indices : /\ node[walk[i]].element = e
                     /\ \A j \in 0 .. i - 1 : node[walk[j]].element # e}

Closed == len = 0 \/ (node[tail].next = head /\ node[head].prev = tail)

------------------------------------------------------------------------------
Node(e, p, n) == [element |-> e, prev |-> p, next |-> n]
Blank         == Node(NULL, NULL, NULL)

\* The nodes are n, the cells in a are allocated; nothing is known of the others.
Ring(n, a, h, t) ==
    /\ node' = [c \in Cells |-> IF c \in a THEN n[c] ELSE Blank]
    /\ allocated' = a
    /\ head' = h
    /\ tail' = t

Returns(r) == result' = r /\ UNCHANGED status

\* exit(EXIT_FAILURE), or a NULL pointer.
End(how) == status' = how /\ UNCHANGED <<ring, result>>

\* Mutant: head->prev is not set.
AppendHalfLinked(e) ==
    /\ \E c \in Cells \ allocated :
          IF tail = NULL
          THEN Ring([node EXCEPT ![c] = Node(e, c, c)], allocated \cup {c}, c, c)
          ELSE Ring([node EXCEPT ![c] = Node(e, tail, head), ![tail].next = c],
                    allocated \cup {c}, head, c)
    /\ len' = len + 1
    /\ Returns(NULL)

\* append, push.
AppendTo(e) ==
    /\ \E c \in Cells \ allocated :
          IF tail = NULL
          THEN Ring([node EXCEPT ![c] = Node(e, c, c)], allocated \cup {c}, c, c)
          ELSE Ring([node EXCEPT ![c] = Node(e, tail, head),
                                 ![tail].next = c, ![head].prev = c],
                    allocated \cup {c}, head, c)
    /\ len' = len + 1
    /\ Returns(NULL)

Insert(e, i) ==
    /\ "insert" \in operations
    /\ i < len \/ i = 0
    /\ \E c \in Cells \ allocated :
          \/ /\ len = 0
             /\ Ring([node EXCEPT ![c] = Node(e, c, c)], allocated \cup {c}, c, c)
          \/ /\ len > 0 /\ i = 0
             /\ Ring([node EXCEPT ![c] = Node(e, tail, head),
                                  ![head].prev = c, ![tail].next = c],
                     allocated \cup {c}, c, tail)
          \/ /\ i > 0
             /\ Ring([node EXCEPT ![c] = Node(e, Forward[i - 1], Forward[i]),
                                  ![Forward[i - 1]].next = c, ![Forward[i]].prev = c],
                     allocated \cup {c}, head, tail)
    /\ len' = len + 1
    /\ Returns(NULL)

\* Mutant: head->prev is not set when the first node goes.
RemoveHalfLinked(i) ==
    /\ i = 0 /\ len > 1
    /\ Ring(node, allocated \ {head}, node[head].next, tail)
    /\ len' = len - 1

\* Mutant: a node goes from the middle and prev still leads to it.
RemoveOneWay(i) ==
    /\ i \in 1 .. len - 2
    /\ Ring([node EXCEPT ![Forward[i - 1]].next = Forward[i + 1]],
            allocated \ {Forward[i]}, head, tail)
    /\ len' = len - 1

\* remove_internal.  The first node goes without tail->next, the last without
\* head->prev being set.
RemoveInternal(i) ==
    /\ \/ /\ len = 1
          /\ Ring(node, allocated \ {head}, NULL, NULL)
       \/ /\ len > 1 /\ i = 0
          /\ Ring([node EXCEPT ![node[head].next].prev = tail],
                  allocated \ {head}, node[head].next, tail)
       \/ /\ len > 1 /\ i = len - 1
          /\ Ring([node EXCEPT ![node[tail].prev].next = head],
                  allocated \ {tail}, head, node[tail].prev)
       \/ /\ i \in 1 .. len - 2
          /\ Ring([node EXCEPT ![Forward[i - 1]].next = Forward[i + 1],
                               ![Forward[i + 1]].prev = Forward[i - 1]],
                  allocated \ {Forward[i]}, head, tail)
    /\ len' = len - 1

\* Mutant: an empty list is not refused.
RemoveUnchecked(i) ==
    /\ i = 0 /\ len = 0
    /\ Ring(node, allocated, NULL, NULL)
    /\ len' = len - 1
    /\ Returns(NULL)

Remove(i) == i < len /\ RemoveInternal(i) /\ Returns(NULL)

RemoveElem(e) == \E i \in Found(Forward, e) : RemoveInternal(i) /\ Returns(NULL)

Take(i) ==
    /\ "take" \in operations
    /\ i < len
    /\ RemoveInternal(i)
    /\ Returns(node[Forward[i]].element)

\* pop of the queue (first) and of the stack (last).
Pop(which, c, i) ==
    /\ which \in operations
    /\ len > 0
    /\ RemoveInternal(i)
    /\ Returns(node[c].element)

PopFirst == Pop("pop first", head, 0)
PopLast  == Pop("pop last", tail, len - 1)

Get(i) == i < len /\ UNCHANGED ring /\ Returns(node[Forward[i]].element)

\* Mutant: the index counts from 1.
IndexFromOne(e) ==
    /\ UNCHANGED ring
    /\ \/ \E i \in Found(Forward, e) : Returns(i + 1)
       \/ Found(Forward, e) = {} /\ Returns(-1)

\* index_of, contains.
IndexOf(e) ==
    /\ UNCHANGED ring
    /\ \/ \E i \in Found(Forward, e) : Returns(i)
       \/ Found(Forward, e) = {} /\ Returns(-1)

\* An index that is not there, or an element remove_elem does not find.
Fails == End("failed")

\* pop reads head->element or tail->element of an empty list.
PopEmpty ==
    /\ {"pop first", "pop last"} \cap operations # {}
    /\ len = 0
    /\ End("crash")

\* queue_ul_move_back of the element that is i nodes from the tail.
MoveFound(i) ==
    LET cur == Backward[i] IN
    \/ i = len - 1 /\ UNCHANGED <<ring, status>>
    \/ /\ i = 0 /\ len > 1
       /\ Ring(node, allocated, node[head].next, head)
       /\ status' = IF Closed THEN status ELSE "undefined"
       /\ UNCHANGED len
    \/ /\ i \in 1 .. len - 2
       /\ Ring([node EXCEPT ![node[cur].next].prev = node[cur].prev,
                            ![node[cur].prev].next = node[cur].next,
                            ![cur] = Node(@.element, tail, head),
                            ![tail].next = cur, ![head].prev = cur],
               allocated, head, cur)
       /\ UNCHANGED <<len, status>>

MoveBack(e) ==
    /\ "move_back" \in operations
    /\ \/ \E i \in Found(Backward, e) : MoveFound(i) /\ result' = NULL
       \/ Found(Backward, e) = {} /\ AppendTo(e)

\* destroy, and create of the next list.
Destroy ==
    /\ Ring(node, allocated \ {Forward[i] : i \in Indices}, NULL, NULL)
    /\ len' = 0
    /\ Returns(NULL)

Init ==
    /\ operations \in Kinds
    /\ node = [c \in Cells |-> Blank]
    /\ allocated = {}
    /\ head = NULL /\ tail = NULL
    /\ len = 0
    /\ result = NULL
    /\ status = "up"

Next ==
    /\ status = "up"
    /\ UNCHANGED operations
    /\ \/ \E e \in Elements : AppendTo(e) \/ RemoveElem(e) \/ IndexOf(e) \/ MoveBack(e)
       \/ \E i \in 0 .. MaxLen :
             \/ Remove(i) \/ Get(i) \/ Take(i)
             \/ \E e \in Elements : Insert(e, i)
       \/ PopFirst \/ PopLast \/ PopEmpty \/ Fails \/ Destroy

Spec == Init /\ [][Next]_vars

------------------------------------------------------------------------------
(* Properties *)

\* Whatever insert, remove, pop and move_back do to the links, the nodes from
\* head to tail are exactly the ones that are allocated, each once, and prev
\* undoes next between them: no node leaks, none is used after free.
RingIntact ==
    status # "undefined" =>
        /\ allocated = {Forward[i] : i \in Indices}
        /\ Cardinality(allocated) = len
        /\ len > 0 => tail = Forward[len - 1]
        /\ \A i \in 1 .. len - 1 : node[Forward[i]].prev = Forward[i - 1]

\* tail->next and head->prev, which remove_internal leaves on the node it freed,
\* are never both wrong: the end that was not removed still leads to the other.
OneEndLinked == status # "undefined" /\ len > 0 => node[tail].next = head \/ node[head].prev = tail

\* The ring of a queue opens when remove_internal takes its first or its last node
\* and leaves others, and every append and every move_back that changes the order
\* closes it: the rule by which PageCache keeps track of the links of
\* recently_referenced.
OpeningStep ==
    "move_back" \in operations /\ status' # "undefined" =>
        Closed' = IF len' < len
                  THEN len' = 0 \/ (Closed /\ head' = head /\ tail' = tail)
                  ELSE Closed \/ ring' # ring

OpensAtTheEnds == [][OpeningStep]_vars

elems == [i \in 1 .. len |-> node[Forward[i - 1]].element]

Seq_ == INSTANCE ListSeq WITH elems <- IF status = "undefined" THEN <<>> ELSE elems

\* Every operation does to the ring what ListSeq says of the sequence, and
\* returns what it says.
ImplementsListSeq == Seq_!Spec

\* README.md of move_back: "seeks through the list for the specified element and
\* moves it to the back".
MovesToTheBack ==
    [][\A e \in Elements :
          MoveBack(e) /\ status' = "up" => node'[tail'].element = e]_vars
==============================================================================
