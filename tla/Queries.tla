--------------------------------- MODULE Queries ---------------------------------
(***************************************************************************)
(* src/query/ on the graphs that Importer reads: bfs, dfs, dijkstra,       *)
(* a_star, alt, random_walk, the degrees, and the paths of result_types.c. *)
(* A query is a loop; its steps are one node taken from the queue, the     *)
(* stack or the heap, and one of its relationships.                        *)
(*                                                                         *)
(* The queue and the stack are the sequences of ListSeq, dictionaries the  *)
(* functions of Dictionary, and the Fibonacci heap is the set of its       *)
(* entries, of which extract_min returns any with the least key.           *)
(***************************************************************************)
EXTENDS Importer, RelationshipSearch

CONSTANTS
    Weights,         \* the weights of relationships
    DblMax,          \* DBL_MAX, above every distance there is
    PathDirections,  \* the directions a_star and alt are called with
    MaxLandmarks,    \* bound: num_landmarks of alt
    MaxSteps         \* bound: num_steps of random_walk

ASSUME QueryAssumption ==
    /\ Weights \subseteq Nat /\ DblMax \in Nat
    /\ PathDirections \subseteq Directions
    /\ MaxLandmarks \in Nat /\ MaxSteps \in Nat

VARIABLE query   \* the call in progress

graphOnly == <<vars, importVars, search>>
queryVars == <<graphOnly, query>>

NoQuery   == [kind |-> "none"]
Unreached == -1   \* ULONG_MAX
NoParents == [n \in {} |-> NoId]

Other(n, r) == IF relationship[r].source = n THEN relationship[r].target ELSE relationship[r].source

------------------------------------------------------------------------------
(* degree.c *)

Degree(n, d)     == Cardinality(DOMAIN Expand(n, d))
TotalDegree(d)   ==
    LET sum[k \in 0 .. n_nodes] ==
            IF k = 0 THEN 0
            ELSE sum[k - 1] + Degree(CHOOSE n \in GetNodes : Cardinality({m \in GetNodes : m < n}) = k - 1, d)
    IN  sum[n_nodes]

\* Mutant: the comparison is that of get_max_degree.
MinDegreeSwapped(d) ==
    CHOOSE x \in {Degree(n, d) : n \in GetNodes} : \A n \in GetNodes : x >= Degree(n, d)

\* get_min_degree, get_max_degree.
MinDegree(d) == CHOOSE x \in {Degree(n, d) : n \in GetNodes} : \A n \in GetNodes : x <= Degree(n, d)
MaxDegree(d) == CHOOSE x \in {Degree(n, d) : n \in GetNodes} : \A n \in GetNodes : x >= Degree(n, d)

------------------------------------------------------------------------------
(* bfs, dfs *)

MayQuery == Ready /\ import = "after" /\ query = NoQuery /\ search = NoSearch

\* The loop over the relationships of the node has ended.
Expanded == query.i \notin DOMAIN query.rels

\* What a call of expand sets.
Expanding(q, n) == [q EXCEPT !.at = n, !.rels = Expand(n, q.dir), !.i = 0]

BeginTraversal(kind, source, d) ==
    /\ source \in nodes
    /\ query' = [kind |-> kind, source |-> source, dir |-> d, at |-> NoId, rels |-> <<>>, i |-> 0,
                 number |-> [n \in GetNodes |-> IF n = source THEN 0 ELSE Unreached],
                 parents |-> NoParents, work |-> <<source>>]
    /\ UNCHANGED graphOnly

\* Mutant: the node is read but stays in the queue.
VisitNextPeeks ==
    LET work == query.work
        n    == IF query.kind = "bfs" THEN Head(work) ELSE work[Len(work)]
    IN
    /\ query.kind \in {"bfs", "dfs"}
    /\ Expanded /\ work # <<>>
    /\ query' = Expanding(query, n)
    /\ UNCHANGED graphOnly

\* The next node from the queue, or from the stack.
VisitNext ==
    LET work == query.work
        bfs  == query.kind = "bfs"
        n    == IF bfs THEN Head(work) ELSE work[Len(work)]
    IN
    /\ query.kind \in {"bfs", "dfs"}
    /\ Expanded /\ work # <<>>
    /\ query' = [Expanding(query, n) EXCEPT
                    !.work = IF bfs THEN Tail(work) ELSE SubSeq(work, 1, Len(work) - 1)]
    /\ UNCHANGED graphOnly

\* Mutant: the number is that of the node it was reached from.
LookAtUnnumbered ==
    LET r    == query.rels[query.i]
        temp == Other(query.at, r)
        q    == [query EXCEPT !.i = @ + 1]
    IN
    /\ query.kind \in {"bfs", "dfs"}
    /\ ~Expanded
    /\ query' = IF query.number[temp] # Unreached THEN q
                ELSE [q EXCEPT !.number = Put(@, temp, query.number[query.at]),
                               !.parents = Put(@, temp, r),
                               !.work = Append(@, temp)]
    /\ UNCHANGED graphOnly

\* Mutant: the node is not put in the queue.
LookAtUnqueued ==
    LET r    == query.rels[query.i]
        temp == Other(query.at, r)
        q    == [query EXCEPT !.i = @ + 1]
    IN
    /\ query.kind \in {"bfs", "dfs"}
    /\ ~Expanded
    /\ query' = IF query.number[temp] # Unreached THEN q
                ELSE [q EXCEPT !.number = Put(@, temp, query.number[query.at] + 1),
                               !.parents = Put(@, temp, r)]
    /\ UNCHANGED graphOnly

LookAt ==
    LET r    == query.rels[query.i]
        temp == Other(query.at, r)
        q    == [query EXCEPT !.i = @ + 1]
    IN
    /\ query.kind \in {"bfs", "dfs"}
    /\ ~Expanded
    /\ query' = IF query.number[temp] # Unreached THEN q
                ELSE [q EXCEPT !.number = Put(@, temp, query.number[query.at] + 1),
                               !.parents = Put(@, temp, r),
                               !.work = Append(@, temp)]
    /\ UNCHANGED graphOnly

TraversalDone == query.kind \in {"bfs", "dfs"} /\ Expanded /\ query.work = <<>>

------------------------------------------------------------------------------
(* dijkstra *)

\* The weights the relationships may have.
WeightFunctions == [rels -> Weights]

BeginDijkstra(source, d, weight) ==
    /\ source \in nodes
    /\ query' = [kind |-> "dijkstra", source |-> source, dir |-> d, at |-> NoId, rels |-> <<>>, i |-> 0,
                 weight |-> weight,
                 distance |-> [n \in GetNodes |-> IF n = source THEN 0 ELSE DblMax],
                 parents |-> NoParents, heap |-> {[key |-> DblMax, value |-> source]}]
    /\ UNCHANGED graphOnly

\* fib_heap_ul_extract_min.
Least(heap) == {e \in heap : \A f \in heap : e.key <= f.key}

ExtractMin ==
    /\ query.kind = "dijkstra"
    /\ Expanded
    /\ \E entry \in Least(query.heap) :
          query' = [Expanding(query, entry.value) EXCEPT !.heap = @ \ {entry}]
    /\ UNCHANGED graphOnly

\* Mutant: a distance is set once.
RelaxFirstOnly ==
    LET r        == query.rels[query.i]
        temp     == Other(query.at, r)
        new_dist == query.distance[query.at] + query.weight[r]
        q        == [query EXCEPT !.i = @ + 1]
    IN
    /\ query.kind = "dijkstra"
    /\ ~Expanded
    /\ query' = IF query.distance[temp] # DblMax THEN q
                ELSE [q EXCEPT !.distance = Put(@, temp, new_dist),
                               !.parents = Put(@, temp, r),
                               !.heap = @ \cup {[key |-> new_dist, value |-> temp]}]
    /\ UNCHANGED graphOnly

\* Mutant: a parent is set once.
RelaxParentOnce ==
    LET r        == query.rels[query.i]
        temp     == Other(query.at, r)
        new_dist == query.distance[query.at] + query.weight[r]
        q        == [query EXCEPT !.i = @ + 1]
    IN
    /\ query.kind = "dijkstra"
    /\ ~Expanded
    /\ query' = IF query.distance[temp] <= new_dist THEN q
                ELSE [q EXCEPT !.distance = Put(@, temp, new_dist),
                               !.parents = IF temp \in DOMAIN @ THEN @ ELSE Put(@, temp, r),
                               !.heap = @ \cup {[key |-> new_dist, value |-> temp]}]
    /\ UNCHANGED graphOnly

Relax ==
    LET r        == query.rels[query.i]
        temp     == Other(query.at, r)
        new_dist == query.distance[query.at] + query.weight[r]
        q        == [query EXCEPT !.i = @ + 1]
    IN
    /\ query.kind = "dijkstra"
    /\ ~Expanded
    /\ query' = IF query.distance[temp] <= new_dist THEN q
                ELSE [q EXCEPT !.distance = Put(@, temp, new_dist),
                               !.parents = Put(@, temp, r),
                               !.heap = @ \cup {[key |-> new_dist, value |-> temp]}]
    /\ UNCHANGED graphOnly

DijkstraDone == query.kind = "dijkstra" /\ Expanded /\ query.heap = {}

------------------------------------------------------------------------------
(* result_types.c *)

Path(source, target, distance, edges) ==
    [source |-> source, target |-> target, distance |-> distance, edges |-> edges]

SumOf(weight, edges) ==
    LET sum[k \in 0 .. Len(edges)] == IF k = 0 THEN 0 ELSE sum[k - 1] + weight[edges[k]]
    IN  sum[Len(edges)]

\* Mutant: the edges are not turned round.
ConstructPathBackwards(source, target, parents, weight) ==
    LET node[k \in 0 .. Cardinality(DOMAIN parents)] ==
            IF k = 0 THEN target
            ELSE LET n   == node[k - 1]
                     rel == relationship[parents[n]]
                 IN  IF rel.target = n THEN rel.source ELSE rel.target
        length == CHOOSE k \in 1 .. Cardinality(DOMAIN parents) :
                     node[k] = source /\ \A j \in 1 .. k - 1 : node[j] # source
        edges  == [j \in 1 .. length |-> parents[node[j - 1]]]
    IN  Path(source, target, SumOf(weight, edges), edges)

\* The edges from the target back to the source by the parents, turned round.
ConstructPath(source, target, parents, weight) ==
    LET node[k \in 0 .. Cardinality(DOMAIN parents)] ==
            IF k = 0 THEN target
            ELSE LET n   == node[k - 1]
                     rel == relationship[parents[n]]
                 IN  IF rel.target = n THEN rel.source ELSE rel.target
        length == CHOOSE k \in 1 .. Cardinality(DOMAIN parents) :
                     node[k] = source /\ \A j \in 1 .. k - 1 : node[j] # source
        edges  == [j \in 1 .. length |-> parents[node[length - j]]]
    IN  Path(source, target, SumOf(weight, edges), edges)

\* The nodes along a path.
PathExtractVertices(p) ==
    LET along[k \in 0 .. Len(p.edges)] ==
            IF k = 0 THEN <<p.source>>
            ELSE LET before == along[k - 1]
                     prev   == before[Len(before)]
                     rel    == relationship[p.edges[k]]
                 IN  IF rel.source = prev THEN Append(before, rel.target)
                     ELSE IF rel.target = prev THEN Append(before, rel.source)
                     ELSE before
    IN  along[Len(p.edges)]

------------------------------------------------------------------------------
(* a_star *)

\* DBL_MAX absorbs what is added to it, except itself: the sum is infinite.
Infinite == 2 * DblMax

Plus(a, b) ==
    IF a + b >= Infinite THEN Infinite
    ELSE IF DblMax \in {a, b} THEN DblMax ELSE a + b

BeginAStar(source, target, d, weight, heuristic) ==
    /\ {source, target} \subseteq nodes
    /\ query' = [kind |-> "a_star", source |-> source, target |-> target, dir |-> d,
                 at |-> NoId, rels |-> <<>>, i |-> 0, weight |-> weight, heuristic |-> heuristic,
                 distance |-> [n \in {source} |-> 0],
                 parents |-> NoParents, heap |-> {[key |-> DblMax, value |-> source]}]
    /\ UNCHANGED graphOnly

AStarNext ==
    /\ query.kind = "a_star"
    /\ Expanded
    /\ \E entry \in Least(query.heap) :
          /\ entry.value # query.target
          /\ query' = [Expanding(query, entry.value) EXCEPT !.heap = @ \ {entry}]
    /\ UNCHANGED graphOnly

AStarRelax ==
    LET r        == query.rels[query.i]
        temp     == Other(query.at, r)
        new_dist == Plus(Plus(query.distance[query.at], query.weight[r]), query.heuristic[query.at])
        q        == [query EXCEPT !.i = @ + 1]
    IN
    /\ query.kind = "a_star"
    /\ ~Expanded
    /\ query' = IF temp \in DOMAIN query.distance /\ query.distance[temp] <= new_dist THEN q
                ELSE [q EXCEPT !.distance = Put(@, temp, new_dist),
                               !.parents = Put(@, temp, r),
                               !.heap = @ \cup {[key |-> new_dist, value |-> temp]}]
    /\ UNCHANGED graphOnly

\* The result of a query that returns a path.
Found(p) == [kind |-> "path", dir |-> query.dir, weight |-> query.weight, path |-> p,
             exact |-> \A n \in DOMAIN query.heuristic : query.heuristic[n] = 0]

AStarFound ==
    /\ query.kind = "a_star"
    /\ Expanded
    /\ \E entry \in Least(query.heap) : entry.value = query.target
    /\ query.target # query.source
    /\ query' = Found(ConstructPath(query.source, query.target, query.parents, query.weight))
    /\ UNCHANGED graphOnly

\* The source has no parent: dict_ul_ul_get_direct ends the process.
AStarFails ==
    /\ query.kind = "a_star"
    /\ Expanded /\ query.target = query.source
    /\ query' = NoQuery
    /\ Exit("bad call")
    /\ UNCHANGED <<importVars, search>>

AStarNotFound ==
    /\ query.kind = "a_star"
    /\ Expanded /\ query.heap = {}
    /\ query' = Found(Path(query.source, query.target, DblMax, <<>>))
    /\ UNCHANGED graphOnly

------------------------------------------------------------------------------
(* alt *)

\* The nodes to which walks of at most as many relationships as there are nodes
\* lead, with the lengths of the walks.
Walks(source, d, weight) ==
    LET by[k \in 0 .. Cardinality(nodes)] ==
            IF k = 0 THEN {<<source, 0>>}
            ELSE LET before == by[k - 1] IN
                 before \cup UNION {{<<Other(w[1], r), w[2] + weight[r]>> :
                                        r \in {s \in rels : Matches(w[1], s, d)}} : w \in before}
    IN  by[Cardinality(nodes)]

\* The lengths of the shortest of them: what dijkstra is to return, see
\* DijkstraRight, and here stands for the calls of it that alt_preprocess makes.
Distances(source, d, weight) ==
    LET walks == Walks(source, d, weight) IN
    [n \in nodes |-> LET lengths == {w[2] : w \in {v \in walks : v[1] = n}} IN
                     IF lengths = {} THEN DblMax ELSE CHOOSE x \in lengths : \A y \in lengths : x <= y]

\* A random node is taken until its degree is not below the average.
Landmarks(d) == {n \in GetNodes : Degree(n, d) * n_nodes >= TotalDegree(d)}

AbsDifference(a, b) ==
    IF a = b THEN 0
    ELSE IF DblMax \in {a, b} THEN DblMax
    ELSE IF a < b THEN b - a ELSE a - b

\* The least difference of the distances from a landmark, which dijkstra computes.
Heuristic(landmarks, target, d, weight) ==
    LET landmark_dists == {Distances(l, d, weight) : l \in landmarks} IN
    [n \in GetNodes |->
        LET options == {AbsDifference(dist[n], dist[target]) : dist \in landmark_dists} IN
        CHOOSE x \in options : \A y \in options : x <= y]

BeginAlt(source, target, d, weight) ==
    \E landmarks \in SUBSET Landmarks(d) :
        /\ Cardinality(landmarks) \in 1 .. MaxLandmarks
        /\ BeginAStar(source, target, d, weight, Heuristic(landmarks, target, d, weight))

------------------------------------------------------------------------------
(* random_walk *)

BeginWalk(source, d, num_steps, weight) ==
    /\ source \in nodes
    /\ query' = [kind |-> "walk", dir |-> d, weight |-> weight, i |-> 0, num_steps |-> num_steps,
                 path |-> Path(source, source, 0, <<>>)]
    /\ UNCHANGED graphOnly

WalkOn ==
    LET at  == query.path.target
        out == Expand(at, query.dir)
    IN
    /\ query.kind = "walk" /\ query.i < query.num_steps
    /\ \E j \in DOMAIN out :
          query' = [query EXCEPT
              !.i = @ + 1,
              !.path = Path(@.source, Other(at, out[j]), @.distance + query.weight[out[j]],
                            Append(@.edges, out[j]))]
    /\ UNCHANGED graphOnly

WalkEnds ==
    /\ query.kind = "walk"
    /\ query.i = query.num_steps \/ DOMAIN Expand(query.path.target, query.dir) = {}
    /\ query' = [kind |-> "path", dir |-> query.dir, weight |-> query.weight, path |-> query.path,
                 exact |-> FALSE]
    /\ UNCHANGED graphOnly

------------------------------------------------------------------------------
Return ==
    /\ TraversalDone \/ DijkstraDone \/ query.kind = "path"
    /\ query' = NoQuery
    /\ UNCHANGED graphOnly

\* A query from a node that does not exist.
QueryFails ==
    /\ MayQuery
    /\ BadCall
    /\ UNCHANGED <<importVars, search, query>>

BeginSearch(from, to, d) ==
    /\ Begin(from, to, d)
    /\ UNCHANGED <<importVars, query>>

SearchStep ==
    /\ Step
    /\ UNCHANGED <<importVars, query>>

SearchReturns ==
    /\ search.state \in {"found", "not found"}
    /\ search' = NoSearch
    /\ UNCHANGED <<vars, importVars, query>>

QueryStep ==
    \/ VisitNext \/ LookAt
    \/ ExtractMin \/ Relax
    \/ AStarNext \/ AStarRelax \/ AStarFound \/ AStarFails \/ AStarNotFound
    \/ WalkOn \/ WalkEnds
    \/ Return

\* A walk is of one weighting, which tells the relationships apart.
WalkWeight == [r \in rels |-> r + 1]

BeginQuery ==
    /\ MayQuery
    /\ \/ \E source \in nodes, d \in Directions :
             \/ \E kind \in {"bfs", "dfs"} : BeginTraversal(kind, source, d)
             \/ \E weight \in WeightFunctions : BeginDijkstra(source, d, weight)
             \/ \E num_steps \in 0 .. MaxSteps : BeginWalk(source, d, num_steps, WalkWeight)
             \/ \E target \in nodes : BeginSearch(source, target, d)
       \/ \E source, target \in nodes, d \in PathDirections, weight \in WeightFunctions :
             \/ BeginAStar(source, target, d, weight, [n \in nodes |-> 0])
             \/ BeginAlt(source, target, d, weight)

QueryInit == ImportInit /\ search = NoSearch /\ query = NoQuery

QueryNext ==
    \/ ImportNext /\ UNCHANGED <<search, query>>
    \/ BeginQuery \/ QueryFails
    \/ QueryStep
    \/ SearchStep \/ SearchReturns

\* The loops run on by themselves.
QuerySpec ==
    /\ QueryInit /\ [][QueryNext]_queryVars
    /\ WF_queryVars(QueryStep) /\ WF_queryVars(SearchStep)

------------------------------------------------------------------------------
(* Properties *)

\* The degrees of all nodes add up: every relationship leads out of one node and
\* into one, and a self loop counts once where both directions are asked for.
DegreesAddUp ==
    MayQuery =>
        /\ TotalDegree("OUTGOING") = n_rels
        /\ TotalDegree("INCOMING") = n_rels
        /\ TotalDegree("BOTH") =
              2 * n_rels - Cardinality({r \in rels : relationship[r].source = relationship[r].target})
        /\ n_nodes > 0 => \A d \in Directions : /\ Landmarks(d) # {}
                                                /\ MinDegree(d) * n_nodes <= TotalDegree(d)
                                                /\ MaxDegree(d) * n_nodes >= TotalDegree(d)

IsTraversal == query.kind \in {"bfs", "dfs"}
Reached     == {n \in nodes : query.number[n] # Unreached}

\* Every node a traversal has reached was reached by a relationship of the
\* direction asked for, from a node whose number is one less.
TraversalTree ==
    IsTraversal =>
        /\ query.number[query.source] = 0
        /\ \A n \in Reached \ {query.source} :
              \E m \in Reached : /\ IsFromTo(query.parents[n], m, n, query.dir)
                                 /\ query.number[n] = query.number[m] + 1

\* When the queue or the stack is empty, no relationship leads out of what was
\* reached.
TraversalClosed ==
    TraversalDone =>
        \A n \in Reached : LET out == Expand(n, query.dir) IN
            \A j \in DOMAIN out : Other(n, out[j]) \in Reached

\* bfs numbers the nodes by their distance from the source, dfs those that are
\* reachable, and both no others.
NumbersRight ==
    TraversalDone =>
        LET dist == Distances(query.source, query.dir, [r \in rels |-> 1]) IN
        /\ Reached = {n \in nodes : dist[n] # DblMax}
        /\ query.kind = "bfs" => \A n \in Reached : query.number[n] = dist[n]

\* When the heap is empty no relationship can shorten a distance.
DijkstraRelaxed ==
    DijkstraDone =>
        \A n \in nodes : LET out == Expand(n, query.dir) IN
            query.distance[n] # DblMax =>
                \A j \in DOMAIN out :
                    query.distance[Other(n, out[j])] <= query.distance[n] + query.weight[out[j]]

\* The distances are those of shortest paths, whatever order the heap has, and the
\* parents lead along such paths.
DijkstraRight ==
    DijkstraDone =>
        /\ query.distance = Distances(query.source, query.dir, query.weight)
        /\ \A n \in nodes \ {query.source} :
              IF query.distance[n] = DblMax THEN n \notin DOMAIN query.parents
              ELSE \E m \in nodes :
                      /\ IsFromTo(query.parents[n], m, n, query.dir)
                      /\ query.distance[n] = query.distance[m] + query.weight[query.parents[n]]

\* A path leads from its source to its target along relationships of the direction
\* asked for, and its distance is the sum of their weights; a_star finds one if
\* there is one, and the shortest one if the heuristic is zero.  With the heuristic
\* of alt, which is added once for every node of a path, it need not be.
PathRight ==
    query.kind = "path" =>
        LET p    == query.path
            at   == PathExtractVertices(p)
            dist == Distances(p.source, query.dir, query.weight)
        IN
        IF p.distance = DblMax THEN dist[p.target] = DblMax /\ p.edges = <<>>
        ELSE
        /\ Len(at) = Len(p.edges) + 1
        /\ at[1] = p.source /\ at[Len(at)] = p.target
        /\ \A k \in DOMAIN p.edges : IsFromTo(p.edges[k], at[k], at[k + 1], query.dir)
        /\ p.distance = SumOf(query.weight, p.edges)
        /\ p.distance >= dist[p.target]
        /\ query.exact => p.distance = dist[p.target]

\* The specification asks for "the ALT algorithm for the shortest path problem", as it
\* does for A*, and alt_test.c for the length of the shortest path: what a_star returns
\* when it comes to the target is a shortest path, with any heuristic of alt.
ShortestByAlt ==
    [][AStarFound => query'.path.distance = Distances(query.source, query.dir, query.weight)[query.target]]_queryVars

\* What the loops of bfs, dfs and dijkstra bring about, see TraversalTree,
\* TraversalClosed and DijkstraRelaxed.
LoopsSound == TraversalTree /\ TraversalClosed /\ DijkstraRelaxed

QueryEnds == query.kind # "none" ~> query.kind = "none"

\* Every query comes to its end, whatever graph it runs on, and a search that
\* starts at a relationship of its direction does.
LoopsEnd == QueryEnds /\ MatchingSearchEnds
==============================================================================
