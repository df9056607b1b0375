----------------------------- MODULE FibonacciHeap -----------------------------
(***************************************************************************)
(* fib_heap_ul of include/data-struct/fibonacci_heap.h, pointer by         *)
(* pointer: a ring of trees, each node in the ring of its siblings.  A     *)
(* call is a chain of steps in the variable op: one per child that         *)
(* extract_min moves to the roots, per comparison of consolidate, per root *)
(* put back, per cascading cut, and per node that destroy frees.           *)
(***************************************************************************)
EXTENDS Integers, FiniteSets, Sequences

CONSTANTS
    MaxHeapNodes,  \* bound: nodes in memory; at least 9 and at most 45
    MaxInserted,   \* bound: nodes in the heap that insert leaves
    Keys,          \* the priorities, positive; 2 is one
    MaxLowerings,  \* bound: calls of decrease_key and delete
    Usages         \* how the heap is used: "query", as dijkstra and a_star do,
                   \* by insert and extract_min only, and "cuts", by
                   \* extract_min, decrease_key and delete, from a tree of
                   \* eight nodes on

NIL       == 0
HeapNodes == 1 .. MaxHeapNodes
Lowest    == 0   \* -DBL_MAX, the key of a node that delete takes out

VARIABLES
    node,        \* the nodes in memory
    min,         \* fh->min
    num_nodes,
    op,          \* the call in progress
    usage,
    lowerings    \* ghost: the number of those calls

usageVars == <<usage, lowerings>>
heapVars  == <<node, min, num_nodes, op, usageVars>>

Freed == [key |-> NIL, parent |-> NIL, child |-> NIL, left |-> NIL, right |-> NIL,
          degree |-> 0, mark |-> FALSE]
Idle  == [pc |-> "idle"]
Undefined == [pc |-> "undefined"]

Allocated == {c \in HeapNodes : node[c] # Freed}

------------------------------------------------------------------------------
(* Rings *)

\* c goes to the right of m.
PutRight(f, m, c) ==
    [f EXCEPT ![c].right = f[m].right, ![f[m].right].left = c, ![c].left = m, ![m].right = c]

Unlinked(f, c) ==
    [f EXCEPT ![f[c].left].right = f[c].right, ![f[c].right].left = f[c].left]

Alone(f, c) == [f EXCEPT ![c].left = c, ![c].right = c]

\* c becomes a root, the only one if there is none.
Rooted(f, c) == IF min = NIL THEN Alone(f, c) ELSE PutRight(f, min, c)

\* Mutant: the first root stays the minimum.
MinWithFirst(c, key) == IF min = NIL THEN c ELSE min

\* The new minimum when c becomes a root.
MinWith(c, key) == IF min = NIL \/ key < node[min].key THEN c ELSE min

Insert(key) ==
    LET c == CHOOSE c \in HeapNodes \ Allocated : \A d \in HeapNodes \ Allocated : c <= d IN
    /\ op = Idle
    /\ num_nodes < MaxInserted /\ Allocated # HeapNodes /\ usage = "query"
    /\ node' = Rooted([node EXCEPT ![c] = [Freed EXCEPT !.key = key]], c)
    /\ min' = MinWith(c, key)
    /\ num_nodes' = num_nodes + 1
    /\ UNCHANGED <<op, usageVars>>

------------------------------------------------------------------------------
(* extract_min *)

Extracting(z, next) == [pc |-> "children", z |-> z, next |-> next]

BeginExtractMin ==
    /\ op = Idle
    /\ min # NIL
    /\ op' = Extracting(min, node[min].child)
    /\ UNCHANGED <<node, min, num_nodes, usageVars>>

\* A child of the minimum becomes a root.
MoveChild ==
    LET c == op.next IN
    /\ op.pc = "children" /\ c # NIL
    /\ node' = PutRight(Unlinked([node EXCEPT ![c].parent = NIL], c), op.z, c)
    /\ op' = [op EXCEPT !.next = IF node[c].right # c THEN node[c].right ELSE NIL]
    /\ UNCHANGED <<min, num_nodes, usageVars>>

\* The last node is taken out.
ExtractLast ==
    /\ op.pc = "children" /\ op.next = NIL
    /\ node[op.z].right = op.z
    /\ node' = [node EXCEPT ![op.z] = Freed]
    /\ min' = NIL
    /\ num_nodes' = num_nodes - 1
    /\ op' = Idle
    /\ UNCHANGED usageVars

\* Mutant: the table is one entry too short.
MaxDegreeTooSmall(n) == Cardinality({t \in {3, 5, 7, 11, 18, 29} : t <= n})

\* floor(2.1 * ln(n)): the least n for 1, 2, 3, ...
MaxDegree(n) == Cardinality({t \in {2, 3, 5, 7, 11, 18, 29} : t <= n})

\* consolidate is entered with the roots without the minimum, and with the number
\* of nodes still counting it.
BeginConsolidate ==
    LET first == node[op.z].right IN
    /\ op.pc = "children" /\ op.next = NIL
    /\ first # op.z
    /\ node' = Unlinked(node, op.z)
    /\ op' = [pc |-> "consolidate", z |-> op.z, x |-> first, first |-> first,
              d |-> node[first].degree,
              table |-> [i \in 0 .. MaxDegree(num_nodes) - 1 |-> NIL]]
    /\ UNCHANGED <<min, num_nodes, usageVars>>

------------------------------------------------------------------------------
(* consolidate *)

MadeChild(x, y) ==
    LET f == [Unlinked(node, y) EXCEPT ![y].parent = x, ![y].mark = FALSE, ![x].degree = @ + 1]
        c == node[x].child
    IN  IF c = NIL THEN [Alone(f, y) EXCEPT ![x].child = y] ELSE PutRight(f, c, y)

\* The root x meets another one of its degree: the one with the larger key
\* becomes a child.
Merge ==
    LET y    == op.table[op.d]
        up   == IF node[y].key < node[op.x].key THEN y ELSE op.x
        down == IF up = y THEN op.x ELSE y
    IN
    /\ op.pc = "consolidate"
    /\ op.d \in DOMAIN op.table
    /\ y \notin {NIL, op.x}
    /\ node' = MadeChild(up, down)
    /\ op' = [op EXCEPT !.x = up, !.d = @ + 1, !.table[op.d] = NIL,
                        !.first = IF @ = down THEN up ELSE @]
    /\ UNCHANGED <<min, num_nodes, usageVars>>

\* Mutant: the last root ends the loop before it is entered in the table.
NextRootLost ==
    LET next == node[op.x].right
        done == [pc |-> "rebuild", z |-> op.z, i |-> 0, table |-> op.table]
        table == [op.table EXCEPT ![op.d] = op.x]
    IN
    /\ op.pc = "consolidate"
    /\ op.d \in DOMAIN op.table
    /\ op.table[op.d] \in {NIL, op.x}
    /\ op' = IF next = op.first THEN done
             ELSE [op EXCEPT !.x = next, !.d = node[next].degree, !.table = table]
    /\ min' = IF next = op.first THEN NIL ELSE min
    /\ UNCHANGED <<node, num_nodes, usageVars>>

NextRoot ==
    LET next  == node[op.x].right
        table == [op.table EXCEPT ![op.d] = op.x]
    IN
    /\ op.pc = "consolidate"
    /\ op.d \in DOMAIN op.table
    /\ op.table[op.d] \in {NIL, op.x}
    /\ op' = IF next = op.first THEN [pc |-> "rebuild", z |-> op.z, i |-> 0, table |-> table]
             ELSE [op EXCEPT !.x = next, !.d = node[next].degree, !.table = table]
    /\ min' = IF next = op.first THEN NIL ELSE min
    /\ UNCHANGED <<node, num_nodes, usageVars>>

\* A degree for which calloc left no room: whatever is read or written there.
TooHigh ==
    /\ op.pc = "consolidate"
    /\ op.d \notin DOMAIN op.table
    /\ op' = Undefined
    /\ UNCHANGED <<node, min, num_nodes, usageVars>>

\* The roots are linked anew in the order of their degrees.
Rebuild ==
    LET x == op.table[op.i] IN
    /\ op.pc = "rebuild" /\ op.i \in DOMAIN op.table
    /\ node' = IF x = NIL THEN node ELSE Rooted(node, x)
    /\ min' = IF x = NIL THEN min ELSE MinWith(x, node[x].key)
    /\ op' = [op EXCEPT !.i = @ + 1]
    /\ UNCHANGED <<num_nodes, usageVars>>

ReturnMin ==
    /\ op.pc = "rebuild" /\ op.i \notin DOMAIN op.table
    /\ node' = [node EXCEPT ![op.z] = Freed]
    /\ num_nodes' = num_nodes - 1
    /\ op' = Idle
    /\ UNCHANGED <<min, usageVars>>

------------------------------------------------------------------------------
(* decrease_key, delete *)

\* Mutant: the child the parent points to is not replaced.
CutChildKept(f, c, parent) ==
    LET f1 == IF f[parent].degree = 1 THEN [f EXCEPT ![parent].child = NIL] ELSE Unlinked(f, c)
        f2 == [f1 EXCEPT ![parent].degree = @ - 1, ![c].parent = NIL, ![c].mark = FALSE]
    IN  PutRight(f2, min, c)

\* c is cut from its parent and becomes a root.
Cut(f, c, parent) ==
    LET f1 == IF f[parent].degree = 1 THEN [f EXCEPT ![parent].child = NIL]
              ELSE [Unlinked(f, c) EXCEPT ![parent].child = IF @ = c THEN f[c].right ELSE @]
        f2 == [f1 EXCEPT ![parent].degree = @ - 1, ![c].parent = NIL, ![c].mark = FALSE]
    IN  PutRight(f2, min, c)

\* What is left of a call that lowered the key of c: cuts up from the node at,
\* the comparison with the minimum, and extract_min if it was delete.
Lowering(c, at, delete) == [pc |-> "cascade", c |-> c, at |-> at, delete |-> delete]

DecreaseKeyInternal(c, key, delete) ==
    LET parent == node[c].parent
        f      == [node EXCEPT ![c].key = key]
        cut    == parent # NIL /\ key < node[parent].key
    IN
    /\ op = Idle /\ usage = "cuts" /\ lowerings < MaxLowerings
    /\ c \in Allocated /\ key <= node[c].key
    /\ node' = IF cut THEN Cut(f, c, parent) ELSE f
    /\ op' = Lowering(c, IF cut THEN parent ELSE NIL, delete)
    /\ lowerings' = lowerings + 1
    /\ UNCHANGED <<min, num_nodes, usage>>

DecreaseKey(c, key) == DecreaseKeyInternal(c, key, FALSE)

Delete(c) == DecreaseKeyInternal(c, Lowest, TRUE)

CascadingCut ==
    LET at     == op.at
        parent == node[at].parent
    IN
    /\ op.pc = "cascade"
    /\ at # NIL /\ parent # NIL
    /\ node' = IF node[at].mark THEN Cut(node, at, parent) ELSE [node EXCEPT ![at].mark = TRUE]
    /\ op' = [op EXCEPT !.at = IF node[at].mark THEN parent ELSE NIL]
    /\ UNCHANGED <<min, num_nodes, usageVars>>

Lowered ==
    LET least == IF node[op.c].key < node[min].key THEN op.c ELSE min IN
    /\ op.pc = "cascade"
    /\ IF op.at = NIL THEN TRUE ELSE node[op.at].parent = NIL
    /\ min' = least
    /\ op' = IF op.delete THEN Extracting(least, node[least].child) ELSE Idle
    /\ UNCHANGED <<node, num_nodes, usageVars>>

------------------------------------------------------------------------------
(* destroy *)

\* The leaf reached by the child pointers; NIL if they lead to a freed node.
LeafBelow(c) ==
    LET leaf[i \in 0 .. MaxHeapNodes] ==
            LET at == IF i = 0 THEN c ELSE leaf[i - 1] IN
            IF at \notin Allocated THEN NIL
            ELSE IF i = 0 \/ node[at].degree = 0 THEN at ELSE node[at].child
    IN  leaf[MaxHeapNodes]

BeginDestroy ==
    /\ op = Idle
    /\ min # NIL
    /\ op' = [pc |-> "destroy", next |-> node[min].right, i |-> 0]
    /\ UNCHANGED <<node, min, num_nodes, usageVars>>

\* Mutant: the degree of the parent is not decremented.
FreedLeafOnly(c) == [Unlinked(node, c) EXCEPT ![c] = Freed]

\* A leaf is taken out of the ring of its siblings and its parent has one child
\* less; the child pointer of the parent may be left behind.
FreedLeaf(c) ==
    LET parent == node[c].parent
        f      == [Unlinked(node, c) EXCEPT ![c] = Freed]
    IN  IF parent = NIL THEN f ELSE [f EXCEPT ![parent].degree = @ - 1]

DestroyNext ==
    LET c == LeafBelow(op.next) IN
    /\ op.pc = "destroy" /\ op.i < num_nodes
    /\ c # NIL
    /\ node' = FreedLeaf(c)
    /\ op' = [op EXCEPT !.i = IF node[c].right = c /\ node[c].parent = NIL THEN num_nodes ELSE @ + 1,
                        !.next = IF node[c].right # c THEN node[c].right ELSE node[c].parent]
    /\ UNCHANGED <<min, num_nodes, usageVars>>

\* free(fh), and fib_heap_ul_create.
DestroyEnds ==
    /\ op.pc = "destroy" /\ op.i >= num_nodes
    /\ min' = NIL
    /\ num_nodes' = 0
    /\ op' = Idle
    /\ UNCHANGED <<node, usageVars>>

------------------------------------------------------------------------------
\* What nine inserts of the key 2 and one extract_min leave: the parent, child,
\* siblings and degree of the nodes 2 to 9.
TreeOfEight ==
    LET row == << <<0, 3, 2, 2, 3>>, <<2, 0, 4, 6, 0>>, <<2, 5, 6, 3, 1>>, <<4, 0, 5, 5, 0>>,
                  <<2, 7, 3, 4, 2>>, <<6, 0, 8, 8, 0>>, <<6, 9, 7, 7, 1>>, <<8, 0, 9, 9, 0>> >>
    IN  [c \in HeapNodes |->
            IF c - 1 \notin DOMAIN row THEN Freed
            ELSE [key |-> 2, parent |-> row[c - 1][1], child |-> row[c - 1][2], left |-> row[c - 1][3],
                  right |-> row[c - 1][4], degree |-> row[c - 1][5], mark |-> FALSE]]

Init ==
    /\ usage \in Usages /\ lowerings = 0
    /\ op = Idle
    /\ IF usage = "query"
       THEN node = [c \in HeapNodes |-> Freed] /\ min = NIL /\ num_nodes = 0
       ELSE node = TreeOfEight /\ min = 2 /\ num_nodes = 8

Next ==
    \/ \E key \in Keys : Insert(key)
    \/ BeginExtractMin \/ MoveChild \/ ExtractLast
    \/ BeginConsolidate \/ Merge \/ NextRoot \/ TooHigh \/ Rebuild \/ ReturnMin
    \/ \E c \in HeapNodes, key \in Keys : DecreaseKey(c, key)
    \/ \E c \in HeapNodes : Delete(c)
    \/ CascadingCut \/ Lowered
    \/ BeginDestroy \/ DestroyNext \/ DestroyEnds

Spec == Init /\ [][Next]_heapVars

------------------------------------------------------------------------------
(* Properties *)

TypeOK ==
    /\ \A c \in HeapNodes : /\ node[c].key \in Keys \cup {NIL, Lowest}
                        /\ {node[c].parent, node[c].child, node[c].left, node[c].right}
                              \subseteq HeapNodes \cup {NIL}
                        /\ node[c].degree \in 0 .. MaxHeapNodes
                        /\ node[c].mark \in BOOLEAN
    /\ min \in HeapNodes \cup {NIL}
    /\ num_nodes \in 0 .. MaxHeapNodes
    /\ usage \in Usages /\ lowerings \in 0 .. MaxLowerings

Children(p) == {c \in Allocated : node[c].parent = p}

\* The nodes to the right of c, c included.
Ring(c) ==
    LET at[i \in 0 .. MaxHeapNodes] == IF i = 0 THEN c ELSE node[at[i - 1]].right
    IN  {at[i] : i \in 0 .. MaxHeapNodes}

\* Between two calls every allocated node hangs in the heap exactly once: the
\* roots are one ring that min is part of, the children of a node are one ring of
\* as many nodes as its degree, left undoes right, no node is smaller than its
\* parent, and num_nodes counts them all.
HeapIntact ==
    op = Idle =>
        /\ num_nodes = Cardinality(Allocated)
        /\ min = NIL <=> Allocated = {}
        /\ min # NIL => Ring(min) = Children(NIL)
        /\ \A c \in Allocated :
              /\ node[node[c].right].left = c
              /\ node[c].degree = Cardinality(Children(c))
              /\ IF node[c].child = NIL THEN Children(c) = {} ELSE Ring(node[c].child) = Children(c)
              /\ node[c].parent # NIL => /\ node[c].parent \in Allocated
                                          /\ node[node[c].parent].key <= node[c].key

\* What extract_min returns next is the least key of all, however the trees were
\* cut and merged.
MinIsLeast == op = Idle /\ min # NIL => \A c \in Allocated : node[min].key <= node[c].key

\* As dijkstra and a_star use the heap, no root has a degree for which
\* consolidate's table of floor(2.1 ln n) entries has no room.
DegreesFit == usage = "query" => op # Undefined

\* destroy frees every node, and none after it was freed.
AllFreed == /\ op.pc = "destroy" /\ op.i < num_nodes => LeafBelow(op.next) # NIL
            /\ op.pc = "destroy" /\ op.i >= num_nodes => Allocated = {}
==============================================================================
