----------------------------- MODULE WalkProofs ------------------------------
(***************************************************************************)
(* The loops of the queries on a graph whose chains are in order: what     *)
(* bfs, dfs and dijkstra reach, that the numbers they return are lengths   *)
(* of walks from the source, and those of bfs and dijkstra the least       *)
(* ones, because a shortest walk has fewer relationships than the graph    *)
(* has nodes.                                                              *)
(***************************************************************************)
EXTENDS Queries, FiniteSetTheorems, WellFoundedInduction, TLAPS

------------------------------------------------------------------------------
(* The graph a query runs on *)

\* What the queries need to know of the graph: the file returns every node, the
\* ends of every relationship are there, and expand returns exactly the
\* relationships of a node, numbered from 0.
GraphReady ==
    /\ nodes \subseteq NodeIds
    /\ GetNodes = nodes
    /\ \A r \in rels : relationship[r].source \in nodes /\ relationship[r].target \in nodes
    /\ \A n \in nodes : \A d :
          LET out == Expand(n, d) IN
          /\ DOMAIN out \subseteq Nat
          /\ \A j \in DOMAIN out : \A i \in Nat : i <= j => i \in DOMAIN out
          /\ \A j \in DOMAIN out : out[j] \in rels /\ Matches(n, out[j], d)
          /\ \A r \in rels : Matches(n, r, d) => \E j \in DOMAIN out : out[j] = r

LEMMA LeastNumber ==
    ASSUME NEW T \in SUBSET Nat, T # {}
    PROVE  \E x \in T : \A y \in T : x <= y
<1>1. PICK x \in T : \A y \in T : ~(<<y, x>> \in OpToRel(<, Nat))
  BY WFMin, NatLessThanWellFounded
<1>2. ASSUME NEW y \in T PROVE x <= y
  <2>1. ~(<<y, x>> \in OpToRel(<, Nat))
    BY <1>1
  <2>2. y \in Nat /\ x \in Nat
    OBVIOUS
  <2>3. ~(y < x)
    BY <2>1, <2>2 DEF OpToRel
  <2> QED BY <2>2, <2>3
<1> QED BY <1>2

LEMMA IdsAreFinite == NodeIds \subseteq Nat /\ IsFiniteSet(NodeIds)
<1>1. NodePages * SlotsPerPage \in Nat
  BY SlotAssumption
<1>2. IsFiniteSet(NodeIds)
  BY <1>1, FS_Interval DEF NodeIds
<1> QED BY <1>2 DEF NodeIds

\* A query sees all nodes.
LEMMA GetNodesAll == GraphReady => GetNodes = nodes
BY Zenon DEF GraphReady

LEMMA NodeIsId == GraphReady => NoId \notin nodes /\ nodes \subseteq Nat
BY IdsAreFinite DEF GraphReady, NoId

\* The node at the other end of a relationship of a node exists, and the
\* relationship leads there.
LEMMA OtherRight ==
    ASSUME GraphReady, NEW n \in nodes, NEW d, NEW r \in rels, Matches(n, r, d)
    PROVE  Other(n, r) \in nodes /\ IsFromTo(r, n, Other(n, r), d)
<1>1. relationship[r].source \in nodes /\ relationship[r].target \in nodes
  BY Zenon DEF GraphReady
<1> QED BY <1>1, Zenon DEF Matches, Other, IsFromTo

LEMMA ExpandAll ==
    ASSUME GraphReady, NEW n \in nodes, NEW d
    PROVE  /\ \A r \in rels : Matches(n, r, d) => \E j \in DOMAIN Expand(n, d) : Expand(n, d)[j] = r
           /\ \A j \in DOMAIN Expand(n, d) : Expand(n, d)[j] \in rels /\ Matches(n, Expand(n, d)[j], d)
<1>1. \A j \in DOMAIN Expand(n, d) : Expand(n, d)[j] \in rels /\ Matches(n, Expand(n, d)[j], d)
  BY Zenon DEF GraphReady
<1>2. \A r \in rels : Matches(n, r, d) => \E j \in DOMAIN Expand(n, d) : Expand(n, d)[j] = r
  BY Zenon DEF GraphReady
<1> QED BY <1>1, <1>2, Zenon

LEMMA ExpandRight ==
    ASSUME GraphReady, NEW n \in nodes, NEW d
    PROVE  LET out == Expand(n, d) IN
           /\ DOMAIN out \subseteq Nat
           /\ \A j \in DOMAIN out : \A i \in Nat : i <= j => i \in DOMAIN out
           /\ \A j \in DOMAIN out : /\ out[j] \in rels
                                    /\ Other(n, out[j]) \in nodes
                                    /\ IsFromTo(out[j], n, Other(n, out[j]), d)
<1> DEFINE out == Expand(n, d)
<1>1. /\ DOMAIN out \subseteq Nat
      /\ \A j \in DOMAIN out : \A i \in Nat : i <= j => i \in DOMAIN out
      /\ \A j \in DOMAIN out : out[j] \in rels /\ Matches(n, out[j], d)
  BY Zenon DEF GraphReady
<1> HIDE DEF out
<1>2. \A j \in DOMAIN out : Other(n, out[j]) \in nodes /\ IsFromTo(out[j], n, Other(n, out[j]), d)
  BY <1>1, OtherRight, Zenon
<1> QED BY <1>1, <1>2, Zenon DEF out

\* expand returns the same as long as the records do not change.
LEMMA ExpandSame ==
    ASSUME UNCHANGED <<rels, relationship, first_relationship>>
    PROVE  \A n, d : Expand(n, d)' = Expand(n, d)
<1> SUFFICES ASSUME NEW n, NEW d PROVE Expand(n, d)' = Expand(n, d)
  BY Zenon
<1>1. \A r : Matches(n, r, d)' = Matches(n, r, d)
  BY Zenon DEF Matches
<1>2. \A r : Walk(n, r)' = Walk(n, r)
  BY Zenon DEF Walk, Next_
<1>3. \A r : NextRelationshipId(n, r, d)' = NextRelationshipId(n, r, d)
  BY <1>1, <1>2 DEF NextRelationshipId
<1>4. [r \in Links |-> IF r \in rels THEN NextRelationshipId(n, r, d) ELSE NoId]' =
         [r \in Links |-> IF r \in rels THEN NextRelationshipId(n, r, d) ELSE NoId]
  BY <1>3, Zenon DEF Links
<1>5. Matches(n, first_relationship[n], d)' = Matches(n, first_relationship[n], d)
  BY Zenon DEF Matches
<1>6. Cardinality(rels)' = Cardinality(rels)
  BY Zenon
<1> QED BY <1>4, <1>5, <1>6, SMTT(30) DEF Expand

------------------------------------------------------------------------------
(* The loops of bfs and dfs *)

\* The relationships of n all lead to nodes that were reached.
Closed(n) ==
    \A j \in DOMAIN Expand(n, query.dir) : Other(n, Expand(n, query.dir)[j]) \in Reached

ClosedSoFar(n) ==
    /\ n = query.at
    /\ \A j \in DOMAIN query.rels : j < query.i => Other(n, query.rels[j]) \in Reached

Waiting(n) == \E k \in DOMAIN query.work : query.work[k] = n

\* A node that was reached waits in the queue or on the stack, or is the one whose
\* relationships are looked at, or they all lead to nodes that were reached.
TraversalInv ==
    /\ query = [kind |-> query.kind, source |-> query.source, dir |-> query.dir, at |-> query.at,
                rels |-> query.rels, i |-> query.i, number |-> query.number,
                parents |-> query.parents, work |-> query.work]
    /\ query.source \in nodes
    /\ query.number \in [nodes -> Nat \cup {Unreached}]
    /\ query.number[query.source] = 0
    /\ query.work \in Seq(Reached)
    /\ query.i \in Nat
    /\ query.at = NoId => DOMAIN query.rels = {}
    /\ query.at # NoId => query.at \in Reached /\ query.rels = Expand(query.at, query.dir)
    /\ Reached \ {query.source} \subseteq DOMAIN query.parents
    /\ \A n \in Reached \ {query.source} :
          \E m \in Reached : /\ IsFromTo(query.parents[n], m, n, query.dir)
                             /\ query.number[n] = query.number[m] + 1
    /\ \A n \in Reached : Waiting(n) \/ ClosedSoFar(n) \/ Closed(n)

LEMMA BeginTraversalRight ==
    ASSUME GraphReady, NEW kind \in {"bfs", "dfs"}, NEW source \in nodes, NEW d,
           BeginTraversal(kind, source, d)
    PROVE  TraversalInv'
<1> DEFINE number == [n \in nodes |-> IF n = source THEN 0 ELSE Unreached]
           q == [kind |-> kind, source |-> source, dir |-> d, at |-> NoId, rels |-> <<>>, i |-> 0,
                 number |-> number, parents |-> NoParents, work |-> <<source>>]
<1>1. query' = q /\ nodes' = nodes
  BY GetNodesAll, Zenon DEF BeginTraversal, graphOnly, vars, nodeVars
<1>2. number \in [nodes -> Nat \cup {Unreached}] /\ number[source] = 0
  BY Zenon DEF Unreached
<1>3. Reached' = {source}
  BY <1>1 DEF Reached, Unreached
<1>4. query'.work = <<source>> /\ query'.work \in Seq({source}) /\ query'.work[1] = source
  BY <1>1
<1>5. Waiting(source)'
  BY <1>4 DEF Waiting
<1>6. DOMAIN query'.rels = {}
  BY <1>1
<1> QED BY <1>1, <1>2, <1>3, <1>4, <1>5, <1>6, Zenon DEF TraversalInv

\* When the loop over the relationships has ended, all of them have been looked at.
LEMMA ExpandedCloses ==
    ASSUME GraphReady, TraversalInv, Expanded, NEW n \in Reached, ClosedSoFar(n)
    PROVE  Closed(n)
<1>1. n \in nodes /\ n = query.at /\ query.at # NoId /\ query.rels = Expand(n, query.dir)
  BY NodeIsId, Zenon DEF Reached, ClosedSoFar, TraversalInv
<1>2. \A j \in DOMAIN query.rels : j < query.i
  BY <1>1, ExpandRight DEF Expanded, TraversalInv
<1> QED BY <1>1, <1>2, Zenon DEF Closed, ClosedSoFar

\* What is left when a node is taken from the queue, or from the stack.
LEMMA TakenFirst ==
    ASSUME NEW S, NEW work \in Seq(S), work # <<>>
    PROVE  /\ Head(work) \in S /\ Tail(work) \in Seq(S)
           /\ \A k \in DOMAIN work :
                 work[k] = Head(work) \/ \E j \in DOMAIN Tail(work) : Tail(work)[j] = work[k]
<1>1. Len(work) \in Nat \ {0} /\ DOMAIN work = 1 .. Len(work)
  OBVIOUS
<1>2. Head(work) = work[1] /\ Head(work) \in S /\ Tail(work) \in Seq(S)
  BY <1>1
<1>3. /\ DOMAIN Tail(work) = 1 .. Len(work) - 1
      /\ \A j \in 1 .. Len(work) - 1 : Tail(work)[j] = work[j + 1]
  BY <1>1
<1>4. ASSUME NEW k \in DOMAIN work, k # 1
      PROVE  k - 1 \in 1 .. Len(work) - 1 /\ Tail(work)[k - 1] = work[k]
  BY <1>1, <1>3, <1>4
<1> QED BY <1>1, <1>2, <1>3, <1>4, Zenon

LEMMA TakenLast ==
    ASSUME NEW S, NEW work \in Seq(S), work # <<>>
    PROVE  LET rest == SubSeq(work, 1, Len(work) - 1) IN
           /\ work[Len(work)] \in S /\ rest \in Seq(S)
           /\ \A k \in DOMAIN work :
                 work[k] = work[Len(work)] \/ \E j \in DOMAIN rest : rest[j] = work[k]
<1> DEFINE rest == SubSeq(work, 1, Len(work) - 1)
<1>1. Len(work) \in Nat \ {0} /\ DOMAIN work = 1 .. Len(work)
  OBVIOUS
<1>2. /\ rest \in Seq(S) /\ DOMAIN rest = 1 .. Len(work) - 1
      /\ \A j \in 1 .. Len(work) - 1 : rest[j] = work[j]
  BY <1>1
<1>3. work[Len(work)] \in S
  BY <1>1
<1> HIDE DEF rest
<1>4. \A k \in DOMAIN work : k = Len(work) \/ k \in 1 .. Len(work) - 1
  BY <1>1
<1> QED BY <1>2, <1>3, <1>4, Zenon DEF rest

LEMMA VisitNextKeeps ==
    ASSUME GraphReady, TraversalInv, VisitNext
    PROVE  TraversalInv'
<1>1. Expanded /\ query.work # <<>> /\ query.work \in Seq(Reached) /\ UNCHANGED graphOnly
  BY Zenon DEF VisitNext, TraversalInv
<1>2. PICK n \in Reached, rest \in Seq(Reached) :
         /\ query' = [Expanding(query, n) EXCEPT !.work = rest]
         /\ \A k \in DOMAIN query.work :
               query.work[k] = n \/ \E j \in DOMAIN rest : rest[j] = query.work[k]
  <2>1. CASE query.kind = "bfs"
    <3>1. query' = [Expanding(query, Head(query.work)) EXCEPT !.work = Tail(query.work)]
      BY <2>1, Zenon DEF VisitNext
    <3> DEFINE first == Head(query.work)
               left  == Tail(query.work)
    <3>2. /\ first \in Reached /\ left \in Seq(Reached)
          /\ \A k \in DOMAIN query.work :
                query.work[k] = first \/ \E j \in DOMAIN left : left[j] = query.work[k]
      BY <1>1, TakenFirst, Zenon
    <3> QED BY <3>1, <3>2, Zenon
  <2>2. CASE query.kind # "bfs"
    <3>1. query' = [Expanding(query, query.work[Len(query.work)]) EXCEPT
                       !.work = SubSeq(query.work, 1, Len(query.work) - 1)]
      BY <2>2, Zenon DEF VisitNext
    <3> DEFINE last == query.work[Len(query.work)]
               left == SubSeq(query.work, 1, Len(query.work) - 1)
    <3>2. /\ last \in Reached /\ left \in Seq(Reached)
          /\ \A k \in DOMAIN query.work :
                query.work[k] = last \/ \E j \in DOMAIN left : left[j] = query.work[k]
      BY <1>1, TakenLast, Zenon
    <3> QED BY <3>1, <3>2, Zenon
  <2> QED BY <2>1, <2>2, Zenon
<1>3. query' = [kind |-> query.kind, source |-> query.source, dir |-> query.dir, at |-> n,
                rels |-> Expand(n, query.dir), i |-> 0, number |-> query.number,
                parents |-> query.parents, work |-> rest]
  BY <1>2, Zenon DEF TraversalInv, Expanding
<1>4. /\ query'.kind = query.kind /\ query'.source = query.source /\ query'.dir = query.dir
      /\ query'.at = n /\ query'.rels = Expand(n, query.dir) /\ query'.i = 0
      /\ query'.number = query.number /\ query'.parents = query.parents /\ query'.work = rest
  BY <1>3, Zenon
<1>5. nodes' = nodes /\ UNCHANGED <<rels, relationship, first_relationship>>
  BY <1>1, Zenon DEF graphOnly, vars, nodeVars, relVars
<1>6. Reached' = Reached
  BY <1>4, <1>5, Zenon DEF Reached
<1>7. \A m, d : Expand(m, d)' = Expand(m, d)
  BY <1>5, ExpandSame, Zenon
<1>8. \A m : Closed(m)' = Closed(m)
  BY <1>4, <1>5, <1>6, <1>7, Zenon DEF Closed, Other
<1>9. ASSUME NEW m \in Reached PROVE Waiting(m)' \/ ClosedSoFar(m)' \/ Closed(m)'
  <2>1. CASE m = n
    <3>1. DOMAIN query'.rels \subseteq Nat
      BY <1>2, <1>4, ExpandRight, Zenon DEF Reached
    <3>2. \A j \in DOMAIN query'.rels : ~(j < query'.i)
      BY <3>1, <1>4
    <3> QED BY <2>1, <3>2, <1>4, Zenon DEF ClosedSoFar
  <2>2. CASE Waiting(m) /\ m # n
    BY <2>2, <1>2, <1>4 DEF Waiting
  <2>3. CASE ClosedSoFar(m)
    BY <2>3, <1>1, <1>8, ExpandedCloses, Zenon
  <2>4. CASE Closed(m)
    BY <2>4, <1>8, Zenon
  <2> QED BY <2>1, <2>2, <2>3, <2>4, Zenon DEF TraversalInv
<1>10. n # NoId
  BY <1>2, NodeIsId, Zenon DEF Reached
<1>11. \A s, l, m, d : IsFromTo(s, l, m, d)' = IsFromTo(s, l, m, d)
  BY <1>5 DEF IsFromTo
<1>12. query' = [kind |-> query'.kind, source |-> query'.source, dir |-> query'.dir,
                 at |-> query'.at, rels |-> query'.rels, i |-> query'.i,
                 number |-> query'.number, parents |-> query'.parents, work |-> query'.work]
  BY <1>3, <1>4, Zenon
<1>13. /\ query'.source \in nodes' /\ query'.number \in [nodes' -> Nat \cup {Unreached}]
       /\ query'.number[query'.source] = 0 /\ query'.work \in Seq(Reached') /\ query'.i \in Nat
       /\ Reached' \ {query'.source} \subseteq DOMAIN query'.parents
  BY <1>2, <1>4, <1>5, <1>6 DEF TraversalInv
<1>14. query'.at # NoId /\ query'.at \in Reached' /\ query'.rels = Expand(query.at, query.dir)'
  BY <1>2, <1>4, <1>6, <1>7, <1>10
<1>15. \A l \in Reached' \ {query'.source} :
          \E m \in Reached' : /\ IsFromTo(query.parents[l], m, l, query.dir)'
                              /\ query'.number[l] = query'.number[m] + 1
  BY <1>4, <1>6, <1>11, Zenon DEF TraversalInv
<1>16. \A m \in Reached' : Waiting(m)' \/ ClosedSoFar(m)' \/ Closed(m)'
  BY <1>6, <1>9, Zenon
<1> QED BY <1>12, <1>13, <1>14, <1>15, <1>16, Zenon DEF TraversalInv

LEMMA LookAtKeeps ==
    ASSUME GraphReady, TraversalInv, LookAt
    PROVE  TraversalInv'
<1> DEFINE r    == query.rels[query.i]
           at   == query.at
           temp == Other(at, r)
           new  == query.number[temp] = Unreached
           num  == IF new THEN Put(query.number, temp, query.number[at] + 1) ELSE query.number
           par  == IF new THEN Put(query.parents, temp, r) ELSE query.parents
           wrk  == IF new THEN Append(query.work, temp) ELSE query.work
<1>1. ~Expanded /\ UNCHANGED graphOnly /\ query.i \in DOMAIN query.rels
  BY Zenon DEF LookAt, Expanded
<1>2. query' = [kind |-> query.kind, source |-> query.source, dir |-> query.dir, at |-> at,
                rels |-> query.rels, i |-> query.i + 1, number |-> num,
                parents |-> par, work |-> wrk]
  BY Zenon DEF LookAt, TraversalInv
<1>3. /\ query'.kind = query.kind /\ query'.source = query.source /\ query'.dir = query.dir
      /\ query'.at = at /\ query'.rels = query.rels /\ query'.i = query.i + 1
      /\ query'.number = num /\ query'.parents = par /\ query'.work = wrk
  BY <1>2, Zenon
<1>4. at \in Reached /\ at \in nodes /\ at # NoId /\ query.rels = Expand(at, query.dir)
  BY <1>1, Zenon DEF TraversalInv, Reached
<1>5. temp \in nodes /\ IsFromTo(r, at, temp, query.dir)
  BY <1>1, <1>4, ExpandRight, Zenon
<1>6. nodes' = nodes /\ UNCHANGED <<rels, relationship, first_relationship>>
  BY <1>1, Zenon DEF graphOnly, vars, nodeVars, relVars
<1>7. /\ query.number \in [nodes -> Nat \cup {Unreached}] /\ query.number[at] \in Nat
      /\ query.number[query.source] = 0
  BY <1>4, Zenon DEF TraversalInv, Reached
<1> HIDE DEF r, temp, at
<1>8. /\ num \in [nodes -> Nat \cup {Unreached}]
      /\ \A m \in nodes : num[m] = IF m = temp /\ new THEN query.number[at] + 1 ELSE query.number[m]
  BY <1>5, <1>7 DEF Put
<1>9. new => temp \notin Reached /\ temp # query.source
  BY <1>7 DEF Reached, Unreached
<1>10. Reached' = Reached \cup {temp}
  <2>1. \A m \in nodes : num[m] # Unreached <=> m \in Reached \/ m = temp
    BY <1>7, <1>8 DEF Reached, Unreached
  <2> QED BY <2>1, <1>3, <1>5, <1>6, Zenon DEF Reached
<1>11. \A m \in Reached : num[m] = query.number[m]
  BY <1>8, <1>9, Zenon DEF Reached
<1>12. Reached' \ {query.source} \subseteq DOMAIN par
  <2>1. CASE new
    <3>1. DOMAIN par = DOMAIN query.parents \cup {temp}
      BY <2>1, Zenon DEF Put
    <3> QED BY <3>1, <1>10, Zenon DEF TraversalInv
  <2>2. CASE ~new
    <3>1. temp \in Reached
      BY <2>2, <1>5, Zenon DEF Reached
    <3> QED BY <2>2, <3>1, <1>10, Zenon DEF TraversalInv
  <2> QED BY <2>1, <2>2, Zenon
<1>13. \A m \in Reached \ {query.source} : par[m] = query.parents[m]
  BY <1>9, Zenon DEF Put, TraversalInv
<1>14. wrk \in Seq(Reached') /\ \A k \in DOMAIN query.work : k \in DOMAIN wrk /\ wrk[k] = query.work[k]
  <2>1. query.work \in Seq(Reached')
    BY <1>10 DEF TraversalInv
  <2> QED BY <2>1, <1>10
<1>15. new => \E k \in DOMAIN wrk : wrk[k] = temp
  <2> SUFFICES ASSUME new PROVE \E k \in DOMAIN wrk : wrk[k] = temp
    BY Zenon
  <2>1. Len(query.work) + 1 \in DOMAIN wrk /\ wrk[Len(query.work) + 1] = temp
    BY DEF TraversalInv
  <2> QED BY <2>1, Zenon
<1>16. new => par[temp] = r /\ num[temp] = num[at] + 1
  BY <1>4, <1>5, <1>8, <1>11, Zenon DEF Put
<1> HIDE DEF num, par, wrk
<1>17. ASSUME NEW n \in Reached' \ {query.source}
       PROVE  \E m \in Reached' : IsFromTo(par[n], m, n, query.dir) /\ num[n] = num[m] + 1
  <2>1. CASE n \in Reached
    <3>1. PICK m \in Reached : /\ IsFromTo(query.parents[n], m, n, query.dir)
                               /\ query.number[n] = query.number[m] + 1
      BY <2>1, Zenon DEF TraversalInv
    <3> QED BY <2>1, <3>1, <1>10, <1>11, <1>13, Zenon
  <2>2. CASE n \notin Reached
    <3>1. n = temp /\ new
      BY <2>2, <1>5, <1>10, Zenon DEF Reached
    <3> QED BY <3>1, <1>4, <1>5, <1>10, <1>16, Zenon
  <2> QED BY <2>1, <2>2, Zenon
<1>18. \A m, d : Expand(m, d)' = Expand(m, d)
  BY <1>6, ExpandSame, Zenon
<1>19. \A m, s : Other(m, s)' = Other(m, s)
  BY <1>6, Zenon DEF Other
<1>20. ASSUME NEW n \in Reached' PROVE Waiting(n)' \/ ClosedSoFar(n)' \/ Closed(n)'
  <2>1. CASE n \notin Reached
    <3>1. n = temp /\ new
      BY <2>1, <1>5, <1>10, Zenon DEF Reached
    <3> QED BY <3>1, <1>3, <1>15, Zenon DEF Waiting
  <2>2. CASE n \in Reached /\ Waiting(n)
    BY <2>2, <1>3, <1>14, Zenon DEF Waiting
  <2>3. CASE n \in Reached /\ ClosedSoFar(n)
    <3>1. n = at
      BY <2>3, Zenon DEF ClosedSoFar, at
    <3>2. ASSUME NEW j \in DOMAIN query.rels, j < query.i + 1 PROVE Other(n, query.rels[j]) \in Reached'
      <4>1. j \in Nat /\ query.i \in Nat
        BY <1>4, ExpandRight, Zenon DEF TraversalInv
      <4>2. CASE j < query.i
        BY <4>2, <2>3, <1>10, Zenon DEF ClosedSoFar
      <4>3. CASE j = query.i
        BY <4>3, <3>1, <1>10, Zenon DEF temp, r
      <4> QED BY <4>1, <4>2, <4>3, <3>2
    <3> QED BY <3>1, <3>2, <1>3, <1>19, Zenon DEF ClosedSoFar
  <2>4. CASE n \in Reached /\ Closed(n)
    BY <2>4, <1>3, <1>10, <1>18, <1>19, Zenon DEF Closed
  <2> QED BY <2>1, <2>2, <2>3, <2>4, Zenon DEF TraversalInv
<1>21. \A s, m, n, d : IsFromTo(s, m, n, d)' = IsFromTo(s, m, n, d)
  BY <1>6 DEF IsFromTo
<1>22. num[query.source] = 0
  BY <1>7, <1>8, <1>9, Zenon DEF TraversalInv
<1>23. query.i + 1 \in Nat /\ query.source \in nodes
  BY DEF TraversalInv
<1>24. query' = [kind |-> query'.kind, source |-> query'.source, dir |-> query'.dir, at |-> query'.at,
                 rels |-> query'.rels, i |-> query'.i, number |-> query'.number,
                 parents |-> query'.parents, work |-> query'.work]
  BY <1>2, <1>3, Zenon
<1>25. /\ query'.source \in nodes' /\ query'.number \in [nodes' -> Nat \cup {Unreached}]
       /\ query'.number[query'.source] = 0 /\ query'.i \in Nat
  BY <1>3, <1>6, <1>8, <1>22, <1>23
<1>26. query'.work \in Seq(Reached')
  BY <1>3, <1>14
<1>27. query'.at # NoId /\ query'.at \in Reached' /\ (query.rels = Expand(query.at, query.dir))'
  BY <1>3, <1>4, <1>10, <1>18
<1>28. Reached' \ {query'.source} \subseteq DOMAIN query'.parents
  BY <1>3, <1>12
<1>29. ASSUME NEW n \in Reached' \ {query'.source}
       PROVE  \E m \in Reached' : (/\ IsFromTo(query.parents[n], m, n, query.dir)
                                  /\ query.number[n] = query.number[m] + 1)'
  BY <1>3, <1>17, <1>21
<1> QED BY <1>20, <1>24, <1>25, <1>26, <1>27, <1>28, <1>29, Zenon DEF TraversalInv

------------------------------------------------------------------------------
(* The loop of dijkstra *)

\* The relationship r does not shorten a distance.
Relaxed(n, r) == query.distance[Other(n, r)] <= query.distance[n] + query.weight[r]

AllRelaxed(n) == \A j \in DOMAIN Expand(n, query.dir) : Relaxed(n, Expand(n, query.dir)[j])

RelaxedSoFar(n) ==
    /\ n = query.at
    /\ \A j \in DOMAIN query.rels : j < query.i => Relaxed(n, query.rels[j])

InHeap(n) == \E entry \in query.heap : entry.value = n

\* A node whose distance is known is in the heap, or is the one whose
\* relationships are looked at, or none of them shortens a distance.
DijkstraInv ==
    /\ query = [kind |-> query.kind, source |-> query.source, dir |-> query.dir, at |-> query.at,
                rels |-> query.rels, i |-> query.i, weight |-> query.weight,
                distance |-> query.distance, parents |-> query.parents, heap |-> query.heap]
    /\ query.weight \in [rels -> Nat]
    /\ query.distance \in [nodes -> Nat]
    /\ \A entry \in query.heap : entry.value \in nodes
    /\ query.i \in Nat
    /\ query.at = NoId => DOMAIN query.rels = {}
    /\ query.at # NoId => query.at \in nodes /\ query.rels = Expand(query.at, query.dir)
    /\ \A n \in nodes : query.distance[n] # DblMax => InHeap(n) \/ RelaxedSoFar(n) \/ AllRelaxed(n)

LEMMA BeginDijkstraRight ==
    ASSUME GraphReady, NEW source \in nodes, NEW d, NEW weight \in WeightFunctions,
           BeginDijkstra(source, d, weight)
    PROVE  DijkstraInv'
<1> DEFINE distance == [n \in nodes |-> IF n = source THEN 0 ELSE DblMax]
           heap == {[key |-> DblMax, value |-> source]}
           q == [kind |-> "dijkstra", source |-> source, dir |-> d, at |-> NoId, rels |-> <<>>, i |-> 0,
                 weight |-> weight, distance |-> distance, parents |-> NoParents, heap |-> heap]
<1>1. query' = q /\ nodes' = nodes /\ rels' = rels
  BY GetNodesAll, Zenon DEF BeginDijkstra, graphOnly, vars, nodeVars, relVars
<1>2. distance \in [nodes -> Nat] /\ weight \in [rels -> Nat]
  BY QueryAssumption, Zenon DEF WeightFunctions
<1>3. \A entry \in heap : entry.value = source
  OBVIOUS
<1>4. InHeap(source)'
  BY <1>1, Zenon DEF InHeap
<1>5. \A n \in nodes : distance[n] # DblMax => n = source
  BY Zenon
<1>6. DOMAIN query'.rels = {}
  BY <1>1
<1> QED BY <1>1, <1>2, <1>3, <1>4, <1>5, <1>6, Zenon DEF DijkstraInv

LEMMA ExpandedRelaxes ==
    ASSUME GraphReady, DijkstraInv, Expanded, NEW n \in nodes, RelaxedSoFar(n)
    PROVE  AllRelaxed(n)
<1>1. n = query.at /\ query.at # NoId /\ query.rels = Expand(n, query.dir)
  BY NodeIsId, Zenon DEF RelaxedSoFar, DijkstraInv
<1>2. \A j \in DOMAIN query.rels : j < query.i
  BY <1>1, ExpandRight DEF Expanded, DijkstraInv
<1> QED BY <1>1, <1>2, Zenon DEF AllRelaxed, RelaxedSoFar

LEMMA ExtractMinKeeps ==
    ASSUME GraphReady, DijkstraInv, ExtractMin
    PROVE  DijkstraInv'
<1>1. PICK entry \in Least(query.heap) :
         query' = [Expanding(query, entry.value) EXCEPT !.heap = @ \ {entry}]
  BY Zenon DEF ExtractMin
<1> DEFINE n == entry.value
<1>2. n \in nodes /\ n # NoId /\ entry \in query.heap
  BY NodeIsId, Zenon DEF Least, DijkstraInv
<1>3. query' = [kind |-> query.kind, source |-> query.source, dir |-> query.dir, at |-> n,
                rels |-> Expand(n, query.dir), i |-> 0, weight |-> query.weight,
                distance |-> query.distance, parents |-> query.parents,
                heap |-> query.heap \ {entry}]
  BY <1>1, Zenon DEF DijkstraInv, Expanding
<1>4. /\ query'.kind = query.kind /\ query'.source = query.source /\ query'.dir = query.dir
      /\ query'.at = n /\ query'.rels = Expand(n, query.dir) /\ query'.i = 0
      /\ query'.weight = query.weight /\ query'.distance = query.distance
      /\ query'.heap = query.heap \ {entry}
  BY <1>3, Zenon
<1>5. Expanded /\ nodes' = nodes /\ rels' = rels /\ UNCHANGED <<rels, relationship, first_relationship>>
  BY Zenon DEF ExtractMin, graphOnly, vars, nodeVars, relVars
<1>6. \A m, d : Expand(m, d)' = Expand(m, d)
  BY <1>5, ExpandSame, Zenon
<1>7. \A m : AllRelaxed(m)' = AllRelaxed(m)
  BY <1>4, <1>5, <1>6, Zenon DEF AllRelaxed, Relaxed, Other
<1>8. ASSUME NEW m \in nodes, query.distance[m] # DblMax
      PROVE  InHeap(m)' \/ RelaxedSoFar(m)' \/ AllRelaxed(m)'
  <2>1. CASE m = n
    <3>1. \A j \in DOMAIN query'.rels : ~(j < query'.i)
      BY <1>2, <1>4, ExpandRight
    <3> QED BY <2>1, <3>1, <1>4, Zenon DEF RelaxedSoFar
  <2>2. CASE InHeap(m) /\ m # n
    BY <2>2, <1>4, Zenon DEF InHeap
  <2>3. CASE RelaxedSoFar(m)
    BY <2>3, <1>5, <1>7, ExpandedRelaxes, Zenon
  <2>4. CASE AllRelaxed(m)
    BY <2>4, <1>7, Zenon
  <2> QED BY <1>8, <2>1, <2>2, <2>3, <2>4, Zenon DEF DijkstraInv
<1> HIDE DEF n
<1> QED BY <1>2, <1>3, <1>4, <1>5, <1>6, <1>8, Zenon DEF DijkstraInv

\* A distance that becomes shorter is never that of the node whose relationships
\* are looked at: weights are not negative.
LEMMA RelaxKeeps ==
    ASSUME GraphReady, DijkstraInv, Relax
    PROVE  DijkstraInv'
<1> DEFINE r        == query.rels[query.i]
           at       == query.at
           temp     == Other(at, r)
           new_dist == query.distance[at] + query.weight[r]
           shorter  == ~(query.distance[temp] <= new_dist)
           dist == IF shorter THEN Put(query.distance, temp, new_dist) ELSE query.distance
           par  == IF shorter THEN Put(query.parents, temp, r) ELSE query.parents
           heap == IF shorter THEN query.heap \cup {[key |-> new_dist, value |-> temp]} ELSE query.heap
<1>1. ~Expanded /\ UNCHANGED graphOnly /\ query.i \in DOMAIN query.rels
  BY Zenon DEF Relax, Expanded
<1>2. query' = [kind |-> query.kind, source |-> query.source, dir |-> query.dir, at |-> at,
                rels |-> query.rels, i |-> query.i + 1, weight |-> query.weight,
                distance |-> dist, parents |-> par, heap |-> heap]
  BY Zenon DEF Relax, DijkstraInv
<1>3. /\ query'.kind = query.kind /\ query'.source = query.source /\ query'.dir = query.dir
      /\ query'.at = at /\ query'.rels = query.rels /\ query'.i = query.i + 1
      /\ query'.weight = query.weight /\ query'.distance = dist /\ query'.heap = heap
  BY <1>2, Zenon
<1>4. at \in nodes /\ at # NoId /\ query.rels = Expand(at, query.dir)
  BY <1>1, Zenon DEF DijkstraInv
<1>5. temp \in nodes /\ r \in rels
  BY <1>1, <1>4, ExpandRight, Zenon
<1>6. nodes' = nodes /\ UNCHANGED <<rels, relationship, first_relationship>>
  BY <1>1, Zenon DEF graphOnly, vars, nodeVars, relVars
<1>7. /\ query.distance \in [nodes -> Nat] /\ query.distance[at] \in Nat /\ query.distance[temp] \in Nat
      /\ query.weight[r] \in Nat /\ new_dist \in Nat
  BY <1>4, <1>5 DEF DijkstraInv
<1> HIDE DEF r, temp, at
<1>8. shorter => temp # at
  BY <1>7
<1>9. /\ dist \in [nodes -> Nat]
      /\ \A m \in nodes : dist[m] = IF m = temp /\ shorter THEN new_dist ELSE query.distance[m]
  BY <1>5, <1>7, Zenon DEF Put
<1>10. dist[at] = query.distance[at] /\ dist[temp] <= new_dist /\ \A m \in nodes : dist[m] <= query.distance[m]
  <2>1. dist[at] = query.distance[at]
    BY <1>4, <1>8, <1>9, Zenon
  <2>2. CASE shorter
    <3>1. new_dist <= query.distance[temp]
      BY <2>2, <1>7
    <3>2. \A m \in nodes : query.distance[m] <= query.distance[m] /\ new_dist <= new_dist
      BY <1>7
    <3> QED BY <1>5, <1>9, <2>1, <2>2, <3>1, <3>2, Zenon
  <2>3. CASE ~shorter
    <3>1. \A m \in nodes : query.distance[m] <= query.distance[m]
      BY <1>7
    <3> QED BY <1>5, <1>9, <2>1, <2>3, <3>1, Zenon
  <2> QED BY <2>2, <2>3, Zenon
<1>11. /\ \A entry \in heap : entry.value \in nodes
       /\ query.heap \subseteq heap
       /\ shorter => \E entry \in heap : entry.value = temp
  <2> HIDE DEF shorter, new_dist, dist, par
  <2>1. CASE shorter
    <3> DEFINE entry == [key |-> new_dist, value |-> temp]
    <3>1. entry.value = temp
      BY Zenon
    <3> HIDE DEF entry
    <3>2. heap = query.heap \cup {entry}
      BY <2>1, Zenon DEF entry
    <3> QED BY <3>1, <3>2, <1>5, Zenon DEF DijkstraInv
  <2>2. CASE ~shorter
    BY <2>2, Zenon DEF DijkstraInv
  <2> QED BY <2>1, <2>2, Zenon
<1> HIDE DEF dist, par, heap, shorter, new_dist
<1>12. \A m, d : Expand(m, d)' = Expand(m, d)
  BY <1>6, ExpandSame, Zenon
<1>13. \A m, s : Other(m, s)' = Other(m, s)
  BY <1>6, Zenon DEF Other
<1>14. ASSUME NEW n \in nodes, NEW s \in rels, Other(n, s) \in nodes, Relaxed(n, s), dist[n] = query.distance[n]
       PROVE  dist[Other(n, s)] <= dist[n] + query.weight[s]
  <2>1. /\ query.distance[n] \in Nat /\ query.weight[s] \in Nat
        /\ query.distance[Other(n, s)] \in Nat /\ dist[Other(n, s)] \in Nat
    BY <1>7, <1>9, <1>14, Zenon DEF DijkstraInv
  <2> QED BY <2>1, <1>10, <1>14 DEF Relaxed
<1>15. ASSUME NEW n \in nodes, dist[n] # DblMax PROVE InHeap(n)' \/ RelaxedSoFar(n)' \/ AllRelaxed(n)'
  <2>1. CASE shorter /\ n = temp
    BY <2>1, <1>3, <1>11, Zenon DEF InHeap
  <2>2. CASE ~(shorter /\ n = temp)
    <3>1. dist[n] = query.distance[n]
      BY <2>2, <1>9, Zenon
    <3>2. CASE InHeap(n)
      BY <3>2, <1>3, <1>11, Zenon DEF InHeap
    <3>3. CASE RelaxedSoFar(n)
      <4>1. n = at
        BY <3>3, Zenon DEF RelaxedSoFar, at
      <4>2. ASSUME NEW j \in DOMAIN query.rels, j < query.i + 1
            PROVE  dist[Other(n, query.rels[j])] <= dist[n] + query.weight[query.rels[j]]
        <5>1. /\ j \in Nat /\ query.i \in Nat /\ query.rels[j] \in rels
              /\ Other(n, query.rels[j]) \in nodes
          BY <4>1, <1>4, ExpandRight, Zenon DEF DijkstraInv
        <5>2. CASE j < query.i
          <6>1. Relaxed(n, query.rels[j])
            BY <5>2, <3>3, Zenon DEF RelaxedSoFar
          <6> QED BY <6>1, <5>1, <3>1, <1>14, Zenon
        <5>3. CASE j = query.i
          BY <5>3, <4>1, <3>1, <1>10, Zenon DEF new_dist, temp, r
        <5> QED BY <5>1, <5>2, <5>3, <4>2
      <4> QED BY <4>1, <4>2, <1>3, <1>6, Zenon DEF RelaxedSoFar, Relaxed, Other
    <3>4. CASE AllRelaxed(n)
      <4> DEFINE out == Expand(n, query.dir)
      <4>1. \A j \in DOMAIN out : out[j] \in rels /\ Other(n, out[j]) \in nodes
        BY ExpandRight, Zenon
      <4>2. \A j \in DOMAIN out : dist[Other(n, out[j])] <= dist[n] + query.weight[out[j]]
        BY <3>1, <3>4, <4>1, <1>14, Zenon DEF AllRelaxed
      <4>3. Expand(n, query.dir)' = out
        BY <1>3, <1>12, Zenon
      <4> QED BY <4>2, <4>3, <1>3, <1>6, Zenon DEF AllRelaxed, Relaxed, Other
    <3> QED BY <1>15, <3>1, <3>2, <3>3, <3>4, Zenon DEF DijkstraInv
  <2> QED BY <2>1, <2>2, Zenon
<1>16. query.i + 1 \in Nat /\ query.weight \in [rels -> Nat]
  BY DEF DijkstraInv
<1> QED BY <1>2, <1>3, <1>4, <1>6, <1>9, <1>11, <1>12, <1>15, <1>16, Zenon DEF DijkstraInv

------------------------------------------------------------------------------
(* Walks and distances *)

\* A walk from the source that is in the set stays in it.
KeepsWalks(S, source, d, weight) ==
    /\ <<source, 0>> \in S
    /\ \A n \in nodes, x \in Nat, r \in rels :
          <<n, x>> \in S /\ Matches(n, r, d) => <<Other(n, r), x + weight[r]>> \in S

\* The nodes that walks of any number of relationships lead to, with the lengths of
\* the walks: the least such set.
AllWalks(source, d, weight) ==
    {w \in nodes \X Nat : \A S \in SUBSET (nodes \X Nat) : KeepsWalks(S, source, d, weight) => w \in S}

LEMMA AllWalksKept ==
    ASSUME GraphReady, NEW source \in nodes, NEW d, NEW weight \in [rels -> Nat]
    PROVE  KeepsWalks(AllWalks(source, d, weight), source, d, weight)
<1> DEFINE W == AllWalks(source, d, weight)
<1>1. <<source, 0>> \in W
  <2>1. <<source, 0>> \in nodes \X Nat
    OBVIOUS
  <2> QED BY <2>1, Zenon DEF AllWalks, KeepsWalks
<1>2. ASSUME NEW n \in nodes, NEW x \in Nat, NEW r \in rels, <<n, x>> \in W, Matches(n, r, d)
      PROVE  <<Other(n, r), x + weight[r]>> \in W
  <2>1. r \in rels /\ Matches(n, r, d)
    BY <1>2, Zenon
  <2>2. Other(n, r) \in nodes
    BY <2>1, OtherRight, Zenon
  <2>3. x + weight[r] \in Nat
    OBVIOUS
  <2>4. <<Other(n, r), x + weight[r]>> \in nodes \X Nat
    BY <2>2, <2>3, Zenon
  <2> QED BY <1>2, <2>4, Zenon DEF AllWalks, KeepsWalks
<1> QED BY <1>1, <1>2, Zenon DEF KeepsWalks

\* What the first step of a walk has and every further step keeps, all walks have.
LEMMA WalkInduction ==
    ASSUME NEW source, NEW d, NEW weight, NEW S \in SUBSET (nodes \X Nat),
           KeepsWalks(S, source, d, weight), NEW w \in AllWalks(source, d, weight)
    PROVE  w \in S
BY Zenon DEF AllWalks

\* The walks with one more relationship.
Longer(S, d, weight) ==
    S \cup UNION {{<<Other(w[1], r), w[2] + weight[r]>> :
                      r \in {s \in rels : Matches(w[1], s, d)}} : w \in S}

\* The function that Walks defines.
IsWalks(f, m, source, d, weight) ==
    f = [k \in 0 .. m |-> IF k = 0 THEN {<<source, 0>>} ELSE Longer(f[k - 1], d, weight)]

LEMMA WalksDefined ==
    ASSUME NEW source, NEW d, NEW weight, NEW m \in Nat
    PROVE  \E f : IsWalks(f, m, source, d, weight)
<1> DEFINE T == {k \in Nat : ~\E f : IsWalks(f, k, source, d, weight)}
<1> SUFFICES ASSUME T # {} PROVE FALSE
  BY Zenon
<1>1. PICK k \in T : \A y \in T : k <= y
  BY LeastNumber, Zenon
<1>2. k \in Nat /\ ~\E f : IsWalks(f, k, source, d, weight)
  BY Zenon
<1>3. k # 0
  <2>1. SUFFICES ASSUME k = 0 PROVE FALSE
    BY Zenon
  <2> DEFINE g == [j \in 0 .. k |-> {<<source, 0>>}]
  <2>2. \A j \in 0 .. k : j = 0
    BY <2>1
  <2>3. g = [j \in 0 .. k |-> IF j = 0 THEN {<<source, 0>>} ELSE Longer(g[j - 1], d, weight)]
    BY <2>2, Zenon
  <2> QED BY <1>2, <2>3, Zenon DEF IsWalks
<1>4. k - 1 \in Nat /\ k - 1 \notin T
  BY <1>1, <1>2, <1>3
<1>5. PICK f : IsWalks(f, k - 1, source, d, weight)
  BY <1>4, Zenon
<1>6. \A j \in 0 .. k - 1 : f[j] = IF j = 0 THEN {<<source, 0>>} ELSE Longer(f[j - 1], d, weight)
  BY <1>5, Zenon DEF IsWalks
<1> DEFINE g == [j \in 0 .. k |-> IF j = k THEN Longer(f[k - 1], d, weight) ELSE f[j]]
<1>7. ASSUME NEW j \in 0 .. k
      PROVE  g[j] = IF j = 0 THEN {<<source, 0>>} ELSE Longer(g[j - 1], d, weight)
  <2>1. CASE j = k
    <3>1. k - 1 \in 0 .. k /\ k - 1 # k
      BY <1>2, <1>3
    <3> QED BY <2>1, <3>1, <1>3, Zenon
  <2>2. CASE j # k
    <3>1. j \in 0 .. k - 1 /\ (j # 0 => j - 1 \in 0 .. k /\ j - 1 # k)
      BY <1>2, <2>2
    <3> QED BY <2>2, <3>1, <1>6, Zenon
  <2> QED BY <2>1, <2>2, Zenon
<1>8. g = [j \in 0 .. k |-> g[j]]
  BY Zenon
<1> HIDE DEF g
<1>9. IsWalks(g, k, source, d, weight)
  BY <1>7, <1>8, Zenon DEF IsWalks
<1> QED BY <1>2, <1>9, Zenon

WalksBy(f, m, source, d, weight) ==
    f[0] = {<<source, 0>>} /\ \A k \in 1 .. m : f[k] = Longer(f[k - 1], d, weight)

LEMMA WalksRight ==
    ASSUME NEW source, NEW d, NEW weight, NEW N \in Nat, N = Cardinality(nodes)
    PROVE  \E f : WalksBy(f, N, source, d, weight) /\ Walks(source, d, weight) = f[N]
<1> DEFINE f == CHOOSE g : IsWalks(g, N, source, d, weight)
<1>1. IsWalks(f, N, source, d, weight)
  BY WalksDefined, Zenon
<1>2. Walks(source, d, weight) = f[N]
  BY Zenon DEF Walks, IsWalks, Longer
<1> HIDE DEF f
<1>3. 0 \in 0 .. N /\ \A k \in 1 .. N : k \in 0 .. N /\ k # 0
  OBVIOUS
<1>4. WalksBy(f, N, source, d, weight)
  BY <1>1, <1>3, Zenon DEF IsWalks, WalksBy
<1> QED BY <1>2, <1>4, Zenon

Prolongs(v, S, d, weight) ==
    \E n \in nodes, x \in Nat, r \in rels :
        <<n, x>> \in S /\ Matches(n, r, d) /\ v = <<Other(n, r), x + weight[r]>>

LEMMA LongerRight ==
    ASSUME NEW S \in SUBSET (nodes \X Nat), NEW d, NEW weight
    PROVE  /\ S \subseteq Longer(S, d, weight)
           /\ \A n \in nodes, x \in Nat, r \in rels :
                 <<n, x>> \in S /\ Matches(n, r, d) => <<Other(n, r), x + weight[r]>> \in Longer(S, d, weight)
           /\ \A v \in Longer(S, d, weight) : v \in S \/ Prolongs(v, S, d, weight)
<1> DEFINE L == Longer(S, d, weight)
           Out(w) == {<<Other(w[1], r), w[2] + weight[r]>> : r \in {s \in rels : Matches(w[1], s, d)}}
<1>1. L = S \cup UNION {Out(w) : w \in S}
  BY Zenon DEF Longer
<1>2. ASSUME NEW n \in nodes, NEW x \in Nat, NEW r \in rels, <<n, x>> \in S, Matches(n, r, d)
      PROVE  <<Other(n, r), x + weight[r]>> \in L
  <2>1. PICK w \in S : w = <<n, x>>
    BY <1>2, Zenon
  <2>2. w[1] = n /\ w[2] = x
    BY <2>1, Zenon
  <2>3. <<Other(n, r), x + weight[r]>> \in Out(w)
    BY <1>2, <2>2, Zenon
  <2> HIDE DEF Out, L
  <2> QED BY <1>1, <2>3, Zenon
<1>3. ASSUME NEW v \in L, v \notin S
      PROVE  Prolongs(v, S, d, weight)
  <2>1. PICK w \in S : v \in Out(w)
    <3> HIDE DEF Out, L
    <3> QED BY <1>1, <1>3, Zenon
  <2>2. w = <<w[1], w[2]>> /\ w[1] \in nodes /\ w[2] \in Nat
    OBVIOUS
  <2>3. PICK r \in rels : Matches(w[1], r, d) /\ v = <<Other(w[1], r), w[2] + weight[r]>>
    BY <2>1, Zenon
  <2> QED BY <2>2, <2>3, Zenon DEF Prolongs
<1>4. S \subseteq L
  <2> HIDE DEF Out, L
  <2> QED BY <1>1, Zenon
<1> QED BY <1>2, <1>3, <1>4, Zenon

\* The walks of Walks are walks, and no longer than their number of relationships
\* allows.
LEMMA WalksAreWalks ==
    ASSUME GraphReady, NEW source \in nodes, NEW d, NEW weight \in [rels -> Nat],
           NEW M \in Nat, \A r \in rels : weight[r] <= M,
           NEW N \in Nat, NEW f, WalksBy(f, N, source, d, weight)
    PROVE  \A k \in 0 .. N : /\ f[k] \subseteq AllWalks(source, d, weight)
                             /\ \A n, x : <<n, x>> \in f[k] => x <= k * M
<1> DEFINE W == AllWalks(source, d, weight)
           Good(k) == f[k] \subseteq W /\ \A n, x : <<n, x>> \in f[k] => x <= k * M
           T == {k \in 0 .. N : ~Good(k)}
<1> SUFFICES ASSUME T # {} PROVE FALSE
  BY Zenon
<1>1. KeepsWalks(W, source, d, weight) /\ W \in SUBSET (nodes \X Nat)
  BY AllWalksKept, Zenon DEF AllWalks
<1>2. T \in SUBSET Nat
  OBVIOUS
<1>3. PICK k \in T : \A y \in T : k <= y
  BY <1>2, LeastNumber, Zenon
<1>4. k \in 0 .. N /\ ~Good(k)
  BY Zenon
<1> HIDE DEF W
<1>5. k # 0
  <2>1. Good(0)
    BY <1>1 DEF KeepsWalks, WalksBy
  <2> QED BY <2>1, <1>4, Zenon
<1>6. k - 1 \in 0 .. N /\ k \in 1 .. N /\ Good(k - 1)
  BY <1>2, <1>3, <1>4, <1>5
<1>7. PICK S : S = f[k - 1]
  BY Zenon
<1>8. S \in SUBSET (nodes \X Nat) /\ S \subseteq W /\ f[k] = Longer(S, d, weight)
  BY <1>1, <1>6, <1>7, Zenon DEF WalksBy
<1>12. \A v \in f[k] : v \in S \/ Prolongs(v, S, d, weight)
  BY <1>8, LongerRight, Zenon
<1>9. (k - 1) * M \in Nat /\ k * M = (k - 1) * M + M
  BY <1>6
<1>10. ASSUME NEW n, NEW x, <<n, x>> \in f[k] PROVE <<n, x>> \in W /\ x <= k * M
  <2>1. CASE <<n, x>> \in S
    <3>1. <<n, x>> \in W /\ x <= (k - 1) * M /\ x \in Nat
      BY <2>1, <1>6, <1>7, <1>8, Zenon
    <3> QED BY <3>1, <1>9
  <2>2. CASE <<n, x>> \notin S
    <3>1. PICK m \in nodes, y \in Nat, r \in rels :
             <<m, y>> \in S /\ Matches(m, r, d) /\ <<n, x>> = <<Other(m, r), y + weight[r]>>
      BY <2>2, <1>10, <1>12, Zenon DEF Prolongs
    <3>2. <<m, y>> \in W /\ y <= (k - 1) * M /\ x = y + weight[r]
      BY <3>1, <1>6, <1>7, <1>8, Zenon
    <3>3. <<n, x>> \in W
      BY <3>1, <3>2, <1>1, Zenon DEF KeepsWalks
    <3>4. weight[r] \in Nat /\ weight[r] <= M
      BY Zenon
    <3> QED BY <3>2, <3>3, <3>4, <1>9
  <2> QED BY <2>1, <2>2, Zenon
<1>11. ASSUME NEW v \in f[k] PROVE v \in W
  <2>1. CASE v \in S
    BY <2>1, <1>8, Zenon
  <2>2. CASE v \notin S
    <3>1. PICK n, x : v = <<n, x>>
      BY <2>2, <1>12, Zenon DEF Prolongs
    <3>2. <<n, x>> \in W
      BY <3>1, <1>10, Zenon
    <3> QED BY <3>1, <3>2, Zenon
  <2> QED BY <2>1, <2>2, Zenon
<1> QED BY <1>4, <1>10, <1>11, Zenon

\* n is at the end of a walk of the length x and of none that is shorter.
Shortest(n, x, source, d, weight) ==
    /\ x \in Nat /\ <<n, x>> \in AllWalks(source, d, weight)
    /\ \A y \in Nat : <<n, y>> \in AllWalks(source, d, weight) => x <= y

\* A shortest walk is a shortest walk to every node along it: if one more
\* relationship leads to the end of no further shortest walk, there is none.
LEMMA ShortestGrow ==
    ASSUME GraphReady, NEW source \in nodes, NEW d, NEW weight \in [rels -> Nat],
           NEW S \in SUBSET (nodes \X Nat), <<source, 0>> \in S,
           \A n \in nodes, x \in Nat : /\ <<n, x>> \in Longer(S, d, weight)
                                       /\ Shortest(n, x, source, d, weight)
                                       => <<n, x>> \in S
    PROVE  \A n \in nodes, x \in Nat : Shortest(n, x, source, d, weight) => <<n, x>> \in S
<1> DEFINE W == AllWalks(source, d, weight)
           Short(n, x) == Shortest(n, x, source, d, weight)
           U == {w \in W : Short(w[1], w[2]) => w \in S}
<1>1. KeepsWalks(W, source, d, weight) /\ W \in SUBSET (nodes \X Nat)
  BY AllWalksKept, Zenon DEF AllWalks
<1> HIDE DEF W
<1>2. <<source, 0>> \in U
  BY <1>1, Zenon DEF KeepsWalks
<1>3. ASSUME NEW n \in nodes, NEW x \in Nat, NEW r \in rels, <<n, x>> \in U, Matches(n, r, d)
      PROVE  <<Other(n, r), x + weight[r]>> \in U
  <2>1. PICK m, y : m = Other(n, r) /\ y = x + weight[r]
    BY Zenon
  <2>2. <<n, x>> \in W /\ (Short(n, x) => <<n, x>> \in S)
    BY <1>3, Zenon
  <2>3. <<m, y>> \in W /\ m \in nodes /\ y \in Nat
    <3>1. <<m, y>> \in W
      BY <1>1, <1>3, <2>1, <2>2, Zenon DEF KeepsWalks
    <3> QED BY <3>1, <1>1
  <2>4. ASSUME Short(m, y) PROVE <<m, y>> \in S
    <3>1. ASSUME NEW z \in Nat, <<n, z>> \in W PROVE x <= z
      <4>1. <<m, z + weight[r]>> \in W
        BY <1>1, <1>3, <2>1, <3>1, Zenon DEF KeepsWalks
      <4>2. weight[r] \in Nat /\ z + weight[r] \in Nat
        OBVIOUS
      <4>3. y <= z + weight[r]
        BY <2>4, <4>1, <4>2, Zenon DEF Shortest, W
      <4> QED BY <2>1, <4>2, <4>3
    <3>2. <<n, x>> \in S
      BY <2>2, <3>1, Zenon DEF Shortest, W
    <3>3. <<m, y>> \in Longer(S, d, weight)
      BY <1>3, <2>1, <3>2, LongerRight, Zenon
    <3> QED BY <2>3, <2>4, <3>3, Zenon
  <2>5. <<m, y>>[1] = m /\ <<m, y>>[2] = y
    BY Zenon
  <2>6. <<m, y>> \in U
    BY <2>3, <2>4, <2>5, Zenon
  <2> QED BY <2>1, <2>6, Zenon
<1>4. U \in SUBSET (nodes \X Nat) /\ KeepsWalks(U, source, d, weight)
  <2>1. U \in SUBSET (nodes \X Nat)
    BY <1>1, Zenon
  <2> HIDE DEF U
  <2> QED BY <1>2, <1>3, <2>1, Zenon DEF KeepsWalks
<1>5. ASSUME NEW n \in nodes, NEW x \in Nat, Short(n, x) PROVE <<n, x>> \in S
  <2>1. <<n, x>> \in W
    BY <1>5, Zenon DEF Shortest, W
  <2>2. <<n, x>> \in U
    <3> HIDE DEF U
    <3> QED BY <1>4, <2>1, WalkInduction, Zenon DEF W
  <2> QED BY <1>5, <2>2, Zenon
<1> QED BY <1>5, Zenon

\* There is a shortest walk to every node that a walk leads to.
LEMMA ShortestExists ==
    ASSUME NEW source, NEW d, NEW weight, NEW n, NEW x \in Nat, <<n, x>> \in AllWalks(source, d, weight)
    PROVE  \E y \in Nat : y <= x /\ Shortest(n, y, source, d, weight)
<1> DEFINE T == {y \in Nat : <<n, y>> \in AllWalks(source, d, weight)}
<1>1. PICK y \in T : \A z \in T : y <= z
  BY LeastNumber, Zenon
<1> QED BY <1>1, Zenon DEF Shortest

LEMMA ShortestOne ==
    ASSUME NEW source, NEW d, NEW weight, NEW n, NEW x, NEW y,
           Shortest(n, x, source, d, weight), Shortest(n, y, source, d, weight)
    PROVE  x = y
<1>1. x \in Nat /\ y \in Nat /\ x <= y /\ y <= x
  BY Zenon DEF Shortest
<1> QED BY <1>1

\* A shortest walk has fewer relationships than there are nodes.
LEMMA ShortestFound ==
    ASSUME GraphReady, IsFiniteSet(nodes), NEW source \in nodes, NEW d, NEW weight \in [rels -> Nat],
           NEW N \in Nat, N = Cardinality(nodes), NEW f, WalksBy(f, N, source, d, weight),
           \A k \in 0 .. N : f[k] \in SUBSET (nodes \X Nat)
    PROVE  /\ N - 1 \in 0 .. N /\ f[N - 1] \subseteq f[N]
           /\ \A n \in nodes, x \in Nat : Shortest(n, x, source, d, weight) => <<n, x>> \in f[N - 1]
<1> DEFINE Short(n, x) == Shortest(n, x, source, d, weight)
           A(k) == {n \in nodes : \E x \in Nat : Short(n, x) /\ <<n, x>> \in f[k]}
           All(k) == \A n \in nodes, x \in Nat : Short(n, x) => <<n, x>> \in f[k]
           Good(k) == <<source, 0>> \in f[k] /\ (All(k) \/ Cardinality(A(k)) >= k + 1)
           T == {k \in 0 .. N : ~Good(k)}
<1>1. N \in Nat /\ N # 0
  BY FS_CardinalityType, FS_EmptySet, Zenon
<1>2. \A k : IsFiniteSet(A(k)) /\ Cardinality(A(k)) \in Nat /\ Cardinality(A(k)) <= N
  <2> SUFFICES ASSUME NEW k PROVE IsFiniteSet(A(k)) /\ Cardinality(A(k)) \in Nat /\ Cardinality(A(k)) <= N
    BY Zenon
  <2>1. PICK B : B = A(k)
    BY Zenon
  <2>2. B \in SUBSET nodes
    BY <2>1, Zenon
  <2>3. IsFiniteSet(B) /\ Cardinality(B) \in Nat /\ Cardinality(B) <= N
    BY <2>2, FS_Subset, FS_CardinalityType, Zenon
  <2> QED BY <2>1, <2>3, Zenon
<1>3. <<source, 0>> \in AllWalks(source, d, weight) /\ Short(source, 0)
  <2>1. <<source, 0>> \in AllWalks(source, d, weight)
    BY AllWalksKept, Zenon DEF KeepsWalks
  <2>2. 0 \in Nat /\ \A y \in Nat : 0 <= y
    OBVIOUS
  <2> QED BY <2>1, <2>2, Zenon DEF Shortest
<1>4. Good(0)
  <2>1. source \in A(0) /\ <<source, 0>> \in f[0]
    BY <1>3 DEF WalksBy
  <2>2. A(0) # {} /\ IsFiniteSet(A(0)) /\ Cardinality(A(0)) \in Nat
    BY <2>1, <1>2, Zenon
  <2> HIDE DEF A
  <2>3. Cardinality(A(0)) # 0
    BY <2>2, FS_EmptySet, Zenon
  <2>4. Cardinality(A(0)) >= 0 + 1
    BY <2>2, <2>3
  <2> QED BY <2>1, <2>4, Zenon
<1>5. ASSUME NEW k \in 1 .. N, Good(k - 1) PROVE Good(k) /\ f[k - 1] \subseteq f[k]
  <2>1. k - 1 \in 0 .. N /\ k \in Nat
    BY <1>1
  <2>2. PICK S : S = f[k - 1]
    BY Zenon
  <2>3. S \in SUBSET (nodes \X Nat) /\ f[k] = Longer(S, d, weight) /\ <<source, 0>> \in S
    BY <1>5, <2>1, <2>2, Zenon DEF WalksBy
  <2>4. S \subseteq f[k]
    <3>1. S \subseteq Longer(S, d, weight)
      BY <2>3, LongerRight, Zenon
    <3> QED BY <2>3, <3>1, Zenon
  <2>5. A(k - 1) \subseteq A(k) /\ <<source, 0>> \in f[k]
    BY <2>2, <2>3, <2>4, Zenon
  <2>6. CASE All(k - 1)
    BY <2>2, <2>4, <2>5, <2>6, Zenon
  <2>7. CASE ~All(k - 1)
    <3>1. A(k - 1) # A(k)
      <4> SUFFICES ASSUME A(k - 1) = A(k) PROVE FALSE
        BY Zenon
      <4>1. ASSUME NEW n \in nodes, NEW x \in Nat, <<n, x>> \in Longer(S, d, weight), Short(n, x)
            PROVE  <<n, x>> \in S
        <5>1. n \in A(k)
          BY <4>1, <2>3, Zenon
        <5>2. PICK y \in Nat : Short(n, y) /\ <<n, y>> \in f[k - 1]
          BY <5>1, Zenon
        <5>3. x = y
          BY <4>1, <5>2, ShortestOne, Zenon
        <5> QED BY <5>2, <5>3, <2>2, Zenon
      <4>2. \A n \in nodes, x \in Nat : Short(n, x) => <<n, x>> \in S
        BY <4>1, <2>3, ShortestGrow, Zenon
      <4> QED BY <4>2, <2>2, <2>7, Zenon
    <3>2. PICK B, C : B = A(k - 1) /\ C = A(k)
      BY Zenon
    <3>3. /\ IsFiniteSet(C) /\ B \in SUBSET C /\ B # C
          /\ Cardinality(B) \in Nat /\ Cardinality(C) \in Nat /\ Cardinality(B) >= k - 1 + 1
      BY <3>1, <3>2, <2>5, <2>7, <1>2, <1>5, Zenon
    <3>4. Cardinality(B) <= Cardinality(C) /\ Cardinality(B) # Cardinality(C)
      BY <3>3, FS_Subset, Zenon
    <3>5. Cardinality(C) >= k + 1
      BY <3>3, <3>4, <2>1
    <3> QED BY <3>2, <3>5, <2>5, <2>2, <2>4, Zenon
  <2> QED BY <2>6, <2>7, Zenon
<1> HIDE DEF Good
<1>6. \A k \in 0 .. N : Good(k)
  <2> SUFFICES ASSUME T # {} PROVE FALSE
    BY Zenon
  <2>1. T \in SUBSET Nat
    BY <1>1
  <2>2. PICK k \in T : \A y \in T : k <= y
    BY <2>1, LeastNumber, Zenon
  <2>3. k \in 0 .. N /\ k # 0 /\ ~Good(k)
    BY <1>4, Zenon
  <2>4. k \in 1 .. N /\ k - 1 \in 0 .. N /\ ~(k <= k - 1)
    BY <2>3, <1>1
  <2>5. Good(k - 1)
    BY <2>2, <2>4, Zenon
  <2> QED BY <2>3, <2>4, <2>5, <1>5, Zenon
<1>7. N - 1 \in 0 .. N /\ N \in 1 .. N /\ N - 1 + 1 = N
  BY <1>1
<1>8. f[N - 1] \subseteq f[N]
  BY <1>5, <1>6, <1>7, Zenon
<1>9. All(N - 1)
  <2>1. CASE Cardinality(A(N - 1)) >= N - 1 + 1
    <3>1. PICK B : B = A(N - 1)
      BY Zenon
    <3>2. B \in SUBSET nodes /\ Cardinality(B) \in Nat /\ Cardinality(B) <= N /\ Cardinality(B) >= N
      BY <2>1, <3>1, <1>2, <1>7, Zenon
    <3>3. Cardinality(nodes) = Cardinality(B)
      BY <3>2, <1>1
    <3>4. B = nodes
      BY <3>2, <3>3, FS_Subset, Zenon
    <3>5. ASSUME NEW n \in nodes, NEW x \in Nat, Short(n, x) PROVE <<n, x>> \in f[N - 1]
      <4>1. PICK y \in Nat : Short(n, y) /\ <<n, y>> \in f[N - 1]
        BY <3>1, <3>4, Zenon
      <4>2. x = y
        BY <3>5, <4>1, ShortestOne, Zenon
      <4> QED BY <4>1, <4>2, Zenon
    <3> QED BY <3>5, Zenon
  <2> QED BY <2>1, <1>6, <1>7, Zenon DEF Good
<1> QED BY <1>7, <1>8, <1>9, Zenon

\* Distances, which looks at walks with up to as many relationships as there are
\* nodes, gives the lengths of the shortest walks of all.
LEMMA DistancesRight ==
    ASSUME GraphReady, IsFiniteSet(nodes), NEW source \in nodes, NEW d, NEW weight \in [rels -> Nat],
           NEW M \in Nat, \A r \in rels : weight[r] <= M, NEW n \in nodes
    PROVE  LET x == Distances(source, d, weight)[n]
               There == \E y \in Nat : <<n, y>> \in AllWalks(source, d, weight)
           IN
           /\ There => /\ Shortest(n, x, source, d, weight)
                       /\ x <= (Cardinality(nodes) - 1) * M
           /\ ~There => x = DblMax
<1>1. PICK N : N = Cardinality(nodes) /\ N \in Nat
  BY FS_CardinalityType, Zenon
<1>0. \E f : WalksBy(f, N, source, d, weight) /\ Walks(source, d, weight) = f[N]
  BY <1>1, WalksRight, SMT
<1>2. PICK f : WalksBy(f, N, source, d, weight) /\ Walks(source, d, weight) = f[N]
  BY <1>0, Zenon
<1>3. PICK W : W = AllWalks(source, d, weight)
  BY Zenon
<1>4. \A k \in 0 .. N : f[k] \subseteq W /\ \A m, x : <<m, x>> \in f[k] => x <= k * M
  BY <1>1, <1>2, <1>3, WalksAreWalks, Zenon
<1>5. \A k \in 0 .. N : f[k] \in SUBSET (nodes \X Nat)
  BY <1>3, <1>4, Zenon DEF AllWalks
<1>6. /\ N - 1 \in 0 .. N /\ f[N - 1] \subseteq f[N]
      /\ \A m \in nodes, x \in Nat : Shortest(m, x, source, d, weight) => <<m, x>> \in f[N - 1]
  BY <1>1, <1>2, <1>5, ShortestFound, Zenon
<1>7. N \in 0 .. N
  BY <1>1
<1>8. PICK walks : walks = Walks(source, d, weight)
  BY Zenon
<1>9. walks \subseteq W /\ walks \in SUBSET (nodes \X Nat) /\ walks = f[N]
  BY <1>2, <1>4, <1>5, <1>7, <1>8, Zenon
<1> DEFINE lengths == {w[2] : w \in {v \in walks : v[1] = n}}
           x == Distances(source, d, weight)[n]
           least == CHOOSE y \in lengths : \A z \in lengths : y <= z
<1>10. x = IF lengths = {} THEN DblMax ELSE least
  <2> DEFINE L == {w[2] : w \in {v \in Walks(source, d, weight) : v[1] = n}}
  <2>1. x = IF L = {} THEN DblMax ELSE CHOOSE y \in L : \A z \in L : y <= z
    BY Zenon DEF Distances
  <2>2. L = lengths
    BY <1>8, Zenon
  <2> QED BY <2>1, <2>2, Zenon
<1>11. \A y : y \in lengths <=> y \in Nat /\ <<n, y>> \in walks
  <2>1. ASSUME NEW y \in lengths PROVE y \in Nat /\ <<n, y>> \in walks
    <3>1. PICK w \in walks : w[1] = n /\ y = w[2]
      BY Zenon
    <3>2. w \in nodes \X Nat
      BY <1>9, Zenon
    <3>3. w = <<n, y>> /\ y \in Nat
      BY <3>1, <3>2
    <3> QED BY <3>1, <3>3, Zenon
  <2>2. ASSUME NEW y \in Nat, <<n, y>> \in walks PROVE y \in lengths
    <3>1. PICK w \in walks : w = <<n, y>>
      BY <2>2, Zenon
    <3>2. w[1] = n /\ w[2] = y
      BY <3>1, Zenon
    <3> QED BY <3>2, Zenon
  <2> QED BY <2>1, <2>2, Zenon
<1> HIDE DEF lengths, x
<1>12. ASSUME NEW y \in Nat, <<n, y>> \in W
       PROVE  Shortest(n, x, source, d, weight) /\ x <= (N - 1) * M
  <2>1. PICK z \in Nat : Shortest(n, z, source, d, weight)
    BY <1>3, <1>12, ShortestExists, Zenon
  <2>2. <<n, z>> \in f[N - 1] /\ z <= (N - 1) * M
    BY <2>1, <1>4, <1>6, Zenon
  <2>3. z \in lengths
    BY <2>2, <1>6, <1>9, <1>11, Zenon
  <2>4. \A v \in lengths : z <= v
    BY <2>1, <1>3, <1>9, <1>11, Zenon DEF Shortest
  <2>5. least \in lengths /\ \A v \in lengths : least <= v
    BY <2>3, <2>4, Zenon
  <2>6. least \in Nat /\ least <= z /\ z <= least
    BY <2>3, <2>4, <2>5, <1>11, Zenon
  <2>7. least = z
    BY <2>6
  <2>8. x = z
    BY <2>3, <2>7, <1>10, Zenon
  <2> QED BY <2>1, <2>2, <2>8, Zenon
<1>13. ASSUME ~\E y \in Nat : <<n, y>> \in W PROVE x = DblMax
  BY <1>9, <1>10, <1>11, <1>13, Zenon
<1> QED BY <1>1, <1>3, <1>12, <1>13, Zenon DEF x

\* The relationships that expand returns are all there are.
LEMMA ExpandFinds ==
    ASSUME GraphReady, NEW n \in nodes, NEW d, NEW r \in rels, Matches(n, r, d)
    PROVE  \E j \in DOMAIN Expand(n, d) : Expand(n, d)[j] = r
<1>1. \A s \in rels : Matches(n, s, d) => \E j \in DOMAIN Expand(n, d) : Expand(n, d)[j] = s
  BY Zenon DEF GraphReady
<1> QED BY <1>1, Zenon

LEMMA FromToOther ==
    ASSUME NEW r, NEW m, NEW n, NEW d, IsFromTo(r, m, n, d)
    PROVE  Matches(m, r, d) /\ Other(m, r) = n
BY Zenon DEF IsFromTo, Matches, Other

\* The walks are the same as long as the graph is.
LEMMA AllWalksSame ==
    ASSUME UNCHANGED <<nodes, rels, relationship>>, NEW source, NEW d, NEW weight
    PROVE  AllWalks(source, d, weight)' = AllWalks(source, d, weight)
<1>1. \A n, r : Matches(n, r, d)' = Matches(n, r, d) /\ Other(n, r)' = Other(n, r)
  BY Zenon DEF Matches, Other
<1>2. \A S : KeepsWalks(S, source, d, weight)' = KeepsWalks(S, source, d, weight)
  BY <1>1, Zenon DEF KeepsWalks
<1> QED BY <1>2, Zenon DEF AllWalks

------------------------------------------------------------------------------
(* The numbers of bfs and dfs *)

\* The queue holds nodes of at most two numbers, in their order, of which the node
\* whose relationships are looked at has the lower one, so that no relationship
\* leads over more than one number.
BfsInv ==
    /\ \A j, k \in DOMAIN query.work :
          j <= k => query.number[query.work[j]] <= query.number[query.work[k]]
    /\ query.at = NoId => \A n \in Reached : query.number[n] = 0
    /\ query.at # NoId => /\ \A k \in DOMAIN query.work :
                                query.number[query.at] <= query.number[query.work[k]]
                          /\ \A n \in Reached : query.number[n] <= query.number[query.at] + 1
    /\ \A n \in Reached, r \in rels :
          Matches(n, r, query.dir) /\ Other(n, r) \in Reached =>
              query.number[Other(n, r)] <= query.number[n] + 1

\* bfs and dfs count relationships.
UnitWeight == [r \in rels |-> 1]

Numbered ==
    \A n \in Reached : <<n, query.number[n]>> \in AllWalks(query.source, query.dir, UnitWeight)

NumberInv == Numbered /\ (query.kind = "bfs" => BfsInv)

LEMMA BeginTraversalNumbers ==
    ASSUME GraphReady, NEW kind \in {"bfs", "dfs"}, NEW source \in nodes, NEW d,
           BeginTraversal(kind, source, d)
    PROVE  NumberInv'
<1>1. /\ query' = [kind |-> kind, source |-> source, dir |-> d, at |-> NoId, rels |-> <<>>, i |-> 0,
                   number |-> [n \in nodes |-> IF n = source THEN 0 ELSE Unreached],
                   parents |-> NoParents, work |-> <<source>>]
      /\ UNCHANGED <<nodes, rels, relationship>>
  BY GetNodesAll, Zenon DEF BeginTraversal, graphOnly, vars, nodeVars, relVars
<1>2. query'.source = source /\ query'.dir = d /\ query'.at = NoId
  BY <1>1, Zenon
<1>3. query'.number = [n \in nodes |-> IF n = source THEN 0 ELSE Unreached]
  BY <1>1, Zenon
<1>4. Reached' = {source} /\ query'.number[source] = 0
  BY <1>1, <1>3 DEF Reached, Unreached
<1>5. DOMAIN query'.work = {1} /\ query'.work[1] = source
  BY <1>1
<1>6. GraphReady /\ UnitWeight \in [rels -> Nat] /\ UnitWeight' = UnitWeight
  BY <1>1 DEF GraphReady, UnitWeight
<1>7. <<source, 0>> \in AllWalks(source, d, UnitWeight)
  BY <1>6, AllWalksKept, Zenon DEF KeepsWalks
<1>8. Numbered'
  BY <1>1, <1>2, <1>4, <1>6, <1>7, AllWalksSame, Zenon DEF Numbered
<1>9. 0 <= 0 /\ 0 <= 0 + 1
  OBVIOUS
<1>10. BfsInv'
  BY <1>2, <1>4, <1>5, <1>9, Zenon DEF BfsInv
<1> QED BY <1>8, <1>10, Zenon DEF NumberInv

LEMMA VisitNextNumbers ==
    ASSUME GraphReady, TraversalInv, NumberInv, VisitNext
    PROVE  NumberInv'
<1>1. UNCHANGED <<nodes, rels, relationship>> /\ query.work # <<>> /\ query.work \in Seq(Reached)
  BY Zenon DEF VisitNext, graphOnly, vars, nodeVars, relVars, TraversalInv
<1>2. /\ query'.kind = query.kind /\ query'.source = query.source /\ query'.dir = query.dir
      /\ query'.number = query.number
      /\ query.kind = "bfs" => query'.at = Head(query.work) /\ query'.work = Tail(query.work)
  BY Zenon DEF VisitNext, Expanding, TraversalInv
<1>3. Reached' = Reached /\ UnitWeight' = UnitWeight
  BY <1>1, <1>2, Zenon DEF Reached, UnitWeight
<1>5. Numbered'
  BY <1>1, <1>2, <1>3, AllWalksSame, Zenon DEF Numbered, NumberInv
<1>6. ASSUME query.kind = "bfs" PROVE BfsInv'
  <2>0. PICK num : num = query.number
    BY Zenon
  <2>1. PICK work \in Seq(Reached) : work = query.work /\ num = query.number
    BY <1>1, <2>0, Zenon
  <2>2. PICK first, left : first = Head(work) /\ left = Tail(work)
    BY Zenon
  <2>3. \A n \in Reached : num[n] \in Nat
    BY <2>1 DEF Reached, TraversalInv
  <2>4. BfsInv
    BY <1>6, Zenon DEF NumberInv
  <2>5. /\ 1 \in DOMAIN work /\ work[1] = first /\ first \in Reached
        /\ \A k \in DOMAIN left : k + 1 \in DOMAIN work /\ left[k] = work[k + 1] /\ k \in Nat
        /\ \A k \in DOMAIN left : left[k] \in Reached
    BY <1>1, <2>1, <2>2
  <2>6. \A j, k \in DOMAIN left : j <= k => num[left[j]] <= num[left[k]]
    <3> SUFFICES ASSUME NEW j \in DOMAIN left, NEW k \in DOMAIN left, j <= k
                 PROVE  num[left[j]] <= num[left[k]]
      BY Zenon
    <3>1. j + 1 <= k + 1
      BY <2>5
    <3> QED BY <2>1, <2>4, <2>5, <3>1, Zenon DEF BfsInv
  <2>7. \A k \in DOMAIN left : num[first] <= num[left[k]]
    <3> SUFFICES ASSUME NEW k \in DOMAIN left PROVE num[first] <= num[left[k]]
      BY Zenon
    <3>1. 1 <= k + 1
      BY <2>5
    <3> QED BY <2>1, <2>4, <2>5, <3>1, Zenon DEF BfsInv
  <2>8. ASSUME NEW n \in Reached PROVE num[n] <= num[first] + 1
    <3>1. num[n] \in Nat /\ num[first] \in Nat
      BY <2>3, <2>5, Zenon
    <3>2. CASE query.at = NoId
      <4>1. num[n] = 0
        BY <3>2, <2>1, <2>4, Zenon DEF BfsInv
      <4> QED BY <3>1, <4>1
    <3>3. CASE query.at # NoId
      <4>1. num[query.at] \in Nat
        BY <3>3, <2>3, Zenon DEF TraversalInv
      <4>2. num[query.at] <= num[first] /\ num[n] <= num[query.at] + 1
        BY <3>3, <2>1, <2>4, <2>5, Zenon DEF BfsInv
      <4> QED BY <3>1, <4>1, <4>2
    <3> QED BY <3>2, <3>3, Zenon
  <2>9. first # NoId
    BY <2>5, NodeIsId, Zenon DEF Reached
  <2>10. query'.at = first /\ query'.work = left /\ query'.number = num
    BY <1>2, <1>6, <2>1, <2>2, Zenon
  <2>11. \A n \in Reached', r \in rels' :
            Matches(n, r, query.dir)' /\ Other(n, r)' \in Reached' =>
                query'.number[Other(n, r)'] <= query'.number[n] + 1
    <3>1. \A n, r : /\ Matches(n, r, query.dir)' <=> Matches(n, r, query.dir)
                    /\ Other(n, r)' = Other(n, r)
      BY <1>1, <1>2, Zenon DEF Matches, Other
    <3> QED BY <1>1, <1>2, <1>3, <2>4, <3>1, Zenon DEF BfsInv
  <2> QED BY <1>3, <2>6, <2>7, <2>8, <2>9, <2>10, <2>11, Zenon DEF BfsInv
<1> QED BY <1>2, <1>5, <1>6, Zenon DEF NumberInv

\* What a turn of the loop over the relationships does.
LEMMA LookAtDoes ==
    ASSUME GraphReady, TraversalInv, LookAt
    PROVE  \E r \in rels, temp \in nodes :
              /\ query.at \in Reached /\ query.at # NoId
              /\ Matches(query.at, r, query.dir) /\ temp = Other(query.at, r)
              /\ query'.kind = query.kind /\ query'.source = query.source /\ query'.dir = query.dir
              /\ query'.at = query.at
              /\ UNCHANGED <<nodes, rels, relationship>>
              /\ \/ temp \in Reached /\ query'.number = query.number /\ query'.work = query.work
                 \/ /\ temp \notin Reached
                    /\ query'.number = Put(query.number, temp, query.number[query.at] + 1)
                    /\ query'.work = Append(query.work, temp)
<1> DEFINE r    == query.rels[query.i]
           temp == Other(query.at, r)
<1>1. query.i \in DOMAIN query.rels /\ UNCHANGED <<nodes, rels, relationship>>
  BY Zenon DEF LookAt, Expanded, graphOnly, vars, nodeVars, relVars
<1>2. query.at \in Reached /\ query.at # NoId /\ query.rels = Expand(query.at, query.dir)
  BY <1>1, Zenon DEF TraversalInv
<1>3. r \in rels /\ Matches(query.at, r, query.dir) /\ temp \in nodes
  BY <1>1, <1>2, ExpandAll, ExpandRight, Zenon DEF Reached
<1>4. /\ query'.kind = query.kind /\ query'.source = query.source /\ query'.dir = query.dir
      /\ query'.at = query.at
      /\ \/ /\ query.number[temp] # Unreached
            /\ query'.number = query.number /\ query'.work = query.work
         \/ /\ query.number[temp] = Unreached
            /\ query'.number = Put(query.number, temp, query.number[query.at] + 1)
            /\ query'.work = Append(query.work, temp)
  BY Zenon DEF LookAt, TraversalInv
<1>5. temp \in Reached <=> query.number[temp] # Unreached
  BY <1>3, Zenon DEF Reached
<1> QED BY <1>1, <1>2, <1>3, <1>4, <1>5, Zenon

LEMMA LookAtNumbers ==
    ASSUME GraphReady, TraversalInv, NumberInv, LookAt
    PROVE  NumberInv'
<1>1. PICK r \in rels, temp \in nodes :
              /\ query.at \in Reached /\ query.at # NoId
              /\ Matches(query.at, r, query.dir) /\ temp = Other(query.at, r)
              /\ query'.kind = query.kind /\ query'.source = query.source /\ query'.dir = query.dir
              /\ query'.at = query.at
              /\ UNCHANGED <<nodes, rels, relationship>>
              /\ \/ temp \in Reached /\ query'.number = query.number /\ query'.work = query.work
                 \/ /\ temp \notin Reached
                    /\ query'.number = Put(query.number, temp, query.number[query.at] + 1)
                    /\ query'.work = Append(query.work, temp)
  BY LookAtDoes, Zenon
<1>2. PICK W : W = AllWalks(query.source, query.dir, UnitWeight)
  BY Zenon
<1>3. W = AllWalks(query.source, query.dir, UnitWeight)'
  <2>1. UnitWeight' = UnitWeight
    BY <1>1, Zenon DEF UnitWeight
  <2> QED BY <1>1, <1>2, <2>1, AllWalksSame, Zenon
<1>4. \A n, s : /\ Matches(n, s, query.dir)' <=> Matches(n, s, query.dir)
                /\ Other(n, s)' = Other(n, s)
  BY <1>1, Zenon DEF Matches, Other
<1>5. CASE temp \in Reached
  <2>1. query'.number = query.number /\ query'.work = query.work
    BY <1>1, <1>5, Zenon
  <2>2. Reached' = Reached
    BY <1>1, <2>1, Zenon DEF Reached
  <2>3. Numbered'
    BY <1>2, <1>3, <2>1, <2>2, Zenon DEF Numbered, NumberInv
  <2>4. BfsInv => BfsInv'
    BY <1>1, <1>4, <2>1, <2>2, Zenon DEF BfsInv
  <2> QED BY <1>1, <2>3, <2>4, Zenon DEF NumberInv
<1>6. CASE temp \notin Reached
  <2>1. PICK num, here : num = query.number /\ here = num[query.at]
    BY Zenon
  <2>2. /\ num \in [nodes -> Nat \cup {Unreached}] /\ here \in Nat
        /\ \A n \in Reached : num[n] \in Nat /\ n \in nodes
    BY <1>1, <2>1, Zenon DEF TraversalInv, Reached
  <2>3. PICK new : new = Put(num, temp, here + 1)
    BY Zenon
  <2>4. query'.number = new /\ query'.work = Append(query.work, temp)
    BY <1>1, <1>6, <2>1, <2>3, Zenon
  <2>5. new[temp] = here + 1 /\ \A n \in nodes : n # temp => new[n] = num[n]
    BY <2>2, <2>3, Zenon DEF Put
  <2>6. here + 1 # Unreached
    BY <2>2 DEF Unreached
  <2>7. Reached' = Reached \cup {temp} /\ \A n \in Reached : new[n] = num[n]
    BY <1>1, <1>6, <2>1, <2>2, <2>4, <2>5, <2>6, Zenon DEF Reached
  <2>8. Numbered'
    <3>1. GraphReady /\ UnitWeight \in [rels -> Nat] /\ UnitWeight[r] = 1 /\ query.source \in nodes
      BY Zenon DEF GraphReady, UnitWeight, TraversalInv
    <3>2. <<query.at, here>> \in W
      BY <1>1, <1>2, <2>1, Zenon DEF Numbered, NumberInv
    <3>3. KeepsWalks(W, query.source, query.dir, UnitWeight)
      BY <1>2, <3>1, AllWalksKept, Zenon
    <3>4. <<temp, here + 1>> \in W
      BY <1>1, <2>2, <3>1, <3>2, <3>3, Zenon DEF KeepsWalks
    <3>5. \A n \in Reached : <<n, num[n]>> \in W
      BY <1>2, <2>1, Zenon DEF Numbered, NumberInv
    <3> QED BY <1>3, <2>4, <2>5, <2>7, <3>4, <3>5, Zenon DEF Numbered
  <2>9. ASSUME query.kind = "bfs" PROVE BfsInv'
    <3>1. BfsInv
      BY <2>9, Zenon DEF NumberInv
    <3>0. PICK work \in Seq(Reached) : work = query.work
      BY Zenon DEF TraversalInv
    <3>2. PICK long : work = query.work /\ long = Append(work, temp)
      BY <3>0, Zenon
    <3>3. \A k \in DOMAIN long : \/ k \in DOMAIN work /\ long[k] = work[k] /\ work[k] \in Reached
                                 \/ k = Len(work) + 1 /\ long[k] = temp
      BY <3>2
    <3>4. Len(work) \in Nat /\ \A k \in DOMAIN work : k \in Nat /\ k < Len(work) + 1
      BY <3>2
    <3>5. \A k \in DOMAIN work : here <= num[work[k]]
      BY <1>1, <2>1, <3>1, <3>2, Zenon DEF BfsInv
    <3>6. \A n \in Reached : num[n] <= here + 1
      BY <1>1, <2>1, <3>1, Zenon DEF BfsInv
    <3>7. \A n \in Reached \cup {temp} : new[n] \in Nat /\ new[n] <= here + 1
      BY <2>2, <2>5, <2>7, <3>6
    <3>8. \A k \in DOMAIN long : here <= new[long[k]]
      BY <2>2, <2>5, <2>7, <3>3, <3>5
    <3>9. \A j, k \in DOMAIN long : j <= k => new[long[j]] <= new[long[k]]
      <4> SUFFICES ASSUME NEW j \in DOMAIN long, NEW k \in DOMAIN long, j <= k
                   PROVE  new[long[j]] <= new[long[k]]
        BY Zenon
      <4>1. CASE long[k] = temp
        <5>1. long[j] \in Reached \cup {temp}
          BY <3>3, Zenon
        <5> QED BY <4>1, <5>1, <2>5, <3>7, Zenon
      <4>2. CASE long[k] # temp
        <5>1. k \in DOMAIN work /\ long[k] = work[k] /\ work[k] \in Reached
          BY <4>2, <3>3, Zenon
        <5>2. j \in DOMAIN work /\ long[j] = work[j] /\ work[j] \in Reached
          <6>1. j # Len(work) + 1
            BY <5>1, <3>4
          <6> QED BY <6>1, <3>3, Zenon
        <5>3. num[work[j]] <= num[work[k]]
          BY <5>1, <5>2, <2>1, <3>1, <3>2, Zenon DEF BfsInv
        <5>4. new[work[j]] = num[work[j]] /\ new[work[k]] = num[work[k]]
          BY <5>1, <5>2, <2>7, Zenon
        <5> QED BY <5>1, <5>2, <5>3, <5>4, Zenon
      <4> QED BY <4>1, <4>2, Zenon
    <3>10. ASSUME NEW n \in Reached \cup {temp}, NEW s \in rels, Matches(n, s, query.dir),
                  Other(n, s) \in Reached \cup {temp}
           PROVE  new[Other(n, s)] <= new[n] + 1
      <4>1. PICK m : m = Other(n, s)
        BY Zenon
      <4>2. new[n] \in Nat /\ new[m] \in Nat /\ new[m] <= here + 1
        BY <3>7, <3>10, <4>1, Zenon
      <4>3. CASE here <= new[n]
        BY <4>1, <4>2, <4>3, <2>2
      <4>4. CASE n \in Reached /\ m \in Reached
        <5>1. num[m] <= num[n] + 1
          BY <4>1, <4>4, <3>1, <3>10, <2>1, Zenon DEF BfsInv
        <5> QED BY <4>1, <4>4, <5>1, <2>7, Zenon
      <4>5. CASE n = temp
        BY <4>3, <4>5, <2>2, <2>5
      <4>6. CASE n \in Reached /\ m \notin Reached
        <5>1. m = temp /\ n \in nodes
          BY <4>1, <4>6, <3>10, Zenon DEF Reached
        <5>2. CASE Waiting(n)
          BY <4>3, <4>6, <5>2, <2>7, <3>2, <3>5, Zenon DEF Waiting
        <5>3. CASE n = query.at
          <6>1. new[n] = here /\ here <= here
            BY <5>3, <4>6, <2>1, <2>2, <2>7
          <6> QED BY <6>1, <4>3, Zenon
        <5>4. CASE Closed(n)
          <6>1. PICK j \in DOMAIN Expand(n, query.dir) : Expand(n, query.dir)[j] = s
            BY <5>1, <3>10, ExpandFinds
          <6> QED BY <6>1, <5>4, <4>1, <4>6, Zenon DEF Closed
        <5> QED BY <4>6, <5>2, <5>3, <5>4, Zenon DEF TraversalInv, ClosedSoFar
      <4> QED BY <4>4, <4>5, <4>6, Zenon
    <3>11. query'.work = long /\ query'.at # NoId /\ query'.number[query'.at] = here
      BY <1>1, <2>1, <2>4, <2>7, <3>2, Zenon
    <3>12. \A n \in Reached', s \in rels' :
              Matches(n, s, query.dir)' /\ Other(n, s)' \in Reached' =>
                  query'.number[Other(n, s)'] <= query'.number[n] + 1
      BY <1>1, <1>4, <2>4, <2>7, <3>10, Zenon
    <3> QED BY <1>1, <2>4, <2>7, <3>7, <3>8, <3>9, <3>11, <3>12, Zenon DEF BfsInv
  <2> QED BY <1>1, <2>8, <2>9, Zenon DEF NumberInv
<1> QED BY <1>5, <1>6, Zenon

LEMMA NumbersRightAtEnd ==
    ASSUME GraphReady, TraversalInv, NumberInv, Cardinality(NodeIds) <= DblMax
    PROVE  NumbersRight
<1> SUFFICES ASSUME TraversalDone
             PROVE  LET dist == Distances(query.source, query.dir, UnitWeight) IN
                    /\ Reached = {n \in nodes : dist[n] # DblMax}
                    /\ query.kind = "bfs" => \A n \in Reached : query.number[n] = dist[n]
  BY Zenon DEF NumbersRight, UnitWeight
<1> DEFINE dist == Distances(query.source, query.dir, UnitWeight)
           bfs == query.kind = "bfs"
<1>1. PICK num, source, d, W :
         /\ num = query.number /\ source = query.source /\ d = query.dir
         /\ W = AllWalks(source, d, UnitWeight)
  BY Zenon
<1>2. GraphReady /\ UnitWeight \in [rels -> Nat] /\ source \in nodes /\ \A r \in rels : UnitWeight[r] = 1
  BY <1>1, Zenon DEF GraphReady, UnitWeight, TraversalInv
<1>3. \A n \in Reached : num[n] \in Nat /\ n \in nodes /\ <<n, num[n]>> \in W
  BY <1>1, Zenon DEF Reached, TraversalInv, NumberInv, Numbered
<1>4. source \in Reached /\ num[source] = 0
  BY <1>1, <1>2 DEF TraversalInv, Reached, Unreached
<1>5. ASSUME NEW n \in Reached, NEW r \in rels, Matches(n, r, d) PROVE Other(n, r) \in Reached
  <2>1. Closed(n)
    <3>1. DOMAIN query.work = {} /\ Expanded
      BY DEF TraversalDone
    <3> QED BY <3>1, ExpandedCloses, Zenon DEF TraversalInv, Waiting
  <2>2. PICK j \in DOMAIN Expand(n, query.dir) : Expand(n, query.dir)[j] = r
    <3>1. Matches(n, r, query.dir) /\ n \in nodes
      BY <1>1, <1>3, <1>5, Zenon
    <3> QED BY <3>1, ExpandFinds
  <2> QED BY <2>1, <2>2, Zenon DEF Closed
<1> DEFINE S == {w \in nodes \X Nat : w[1] \in Reached /\ (bfs => num[w[1]] <= w[2])}
<1>6. \A n \in nodes, x \in Nat : <<n, x>> \in S <=> n \in Reached /\ (bfs => num[n] <= x)
  <2> SUFFICES ASSUME NEW n \in nodes, NEW x \in Nat
               PROVE  <<n, x>> \in S <=> n \in Reached /\ (bfs => num[n] <= x)
    BY Zenon
  <2>1. <<n, x>>[1] = n /\ <<n, x>>[2] = x /\ <<n, x>> \in nodes \X Nat
    OBVIOUS
  <2> QED BY <2>1, Zenon
<1>7. KeepsWalks(S, source, d, UnitWeight) /\ S \in SUBSET (nodes \X Nat)
  <2>1. S \in SUBSET (nodes \X Nat)
    BY Zenon
  <2> HIDE DEF S
  <2>2. <<source, 0>> \in S
    <3>1. num[source] <= 0 /\ 0 \in Nat
      BY <1>4
    <3> QED BY <1>2, <1>4, <1>6, <3>1, Zenon
  <2>3. ASSUME NEW n \in nodes, NEW x \in Nat, NEW r \in rels, <<n, x>> \in S, Matches(n, r, d)
        PROVE  <<Other(n, r), x + UnitWeight[r]>> \in S
    <3>1. n \in Reached /\ (bfs => num[n] <= x)
      BY <1>6, <2>3, Zenon
    <3>2. PICK m : m = Other(n, r)
      BY Zenon
    <3>3. m \in Reached /\ m \in nodes /\ num[m] \in Nat /\ num[n] \in Nat
      BY <1>3, <1>5, <2>3, <3>1, <3>2, Zenon
    <3>4. ASSUME bfs PROVE num[m] <= x + 1
      <4>1. num[m] <= num[n] + 1
        BY <1>1, <2>3, <3>1, <3>2, <3>3, <3>4, Zenon DEF NumberInv, BfsInv
      <4>2. num[n] <= x
        BY <3>1, <3>4, Zenon
      <4> QED BY <3>3, <4>1, <4>2
    <3>5. x + 1 \in Nat /\ UnitWeight[r] = 1
      BY <1>2
    <3>6. <<m, x + 1>> \in S
      BY <1>6, <3>3, <3>4, <3>5, Zenon
    <3> QED BY <3>2, <3>5, <3>6, Zenon
  <2> QED BY <2>1, <2>2, <2>3, Zenon DEF KeepsWalks
<1> HIDE DEF S
<1>8. ASSUME NEW n \in nodes, NEW x \in Nat, <<n, x>> \in W PROVE n \in Reached /\ (bfs => num[n] <= x)
  <2>1. <<n, x>> \in S
    BY <1>1, <1>7, <1>8, WalkInduction, Zenon
  <2> QED BY <1>6, <2>1, Zenon
<1>9. PICK N : N = Cardinality(nodes) /\ N \in Nat /\ N <= DblMax /\ IsFiniteSet(nodes)
  <2>1. nodes \in SUBSET NodeIds
    BY Zenon DEF GraphReady
  <2>2. IsFiniteSet(nodes) /\ Cardinality(nodes) <= Cardinality(NodeIds)
    BY <2>1, IdsAreFinite, FS_Subset, Zenon
  <2>3. Cardinality(nodes) \in Nat /\ Cardinality(NodeIds) \in Nat
    BY <2>2, IdsAreFinite, FS_CardinalityType, Zenon
  <2>4. Cardinality(nodes) <= DblMax
    BY <2>2, <2>3, QueryAssumption
  <2> QED BY <2>2, <2>3, <2>4, Zenon
<1>10. ASSUME NEW n \in nodes
       PROVE  /\ n \in Reached => /\ Shortest(n, dist[n], source, d, UnitWeight)
                                  /\ dist[n] <= (N - 1) * 1
              /\ n \notin Reached => dist[n] = DblMax
  <2>1. n \in Reached <=> \E y \in Nat : <<n, y>> \in W
    BY <1>3, <1>8, Zenon
  <2>2. 1 \in Nat /\ \A r \in rels : UnitWeight[r] <= 1
    BY <1>2
  <2>3. /\ (\E y \in Nat : <<n, y>> \in W) => /\ Shortest(n, dist[n], source, d, UnitWeight)
                                              /\ dist[n] <= (N - 1) * 1
        /\ ~(\E y \in Nat : <<n, y>> \in W) => dist[n] = DblMax
    <3> DEFINE D == Distances(source, d, UnitWeight)
    <3>1. /\ (\E y \in Nat : <<n, y>> \in AllWalks(source, d, UnitWeight)) =>
                 /\ Shortest(n, D[n], source, d, UnitWeight)
                 /\ D[n] <= (Cardinality(nodes) - 1) * 1
          /\ ~(\E y \in Nat : <<n, y>> \in AllWalks(source, d, UnitWeight)) => D[n] = DblMax
      BY <1>2, <1>9, <2>2, DistancesRight
    <3>2. D = dist
      BY <1>1, Zenon
    <3> HIDE DEF D, dist
    <3> QED BY <3>1, <3>2, <1>1, <1>9, Zenon
  <2> QED BY <2>1, <2>3, Zenon
<1> HIDE DEF dist
<1>11. \A n \in Reached : dist[n] \in Nat /\ dist[n] <= N - 1
  <2> SUFFICES ASSUME NEW n \in Reached PROVE dist[n] \in Nat /\ dist[n] <= N - 1
    BY Zenon
  <2>1. dist[n] \in Nat /\ dist[n] <= (N - 1) * 1
    BY <1>3, <1>10, Zenon DEF Shortest
  <2> QED BY <2>1, <1>9
<1>12. \A n \in Reached : dist[n] # DblMax
  BY <1>9, <1>11, QueryAssumption
<1>13. Reached = {n \in nodes : dist[n] # DblMax}
  BY <1>3, <1>10, <1>12, Zenon
<1>14. ASSUME bfs, NEW n \in Reached PROVE num[n] = dist[n]
  <2>1. num[n] \in Nat /\ dist[n] \in Nat
    BY <1>3, <1>11, Zenon
  <2>2. dist[n] <= num[n]
    BY <1>1, <1>3, <1>10, Zenon DEF Shortest
  <2>3. num[n] <= dist[n]
    BY <1>1, <1>3, <1>8, <1>10, <1>14, Zenon DEF Shortest
  <2> QED BY <2>1, <2>2, <2>3
<1> QED BY <1>1, <1>13, <1>14, Zenon DEF dist

------------------------------------------------------------------------------
(* The distances of dijkstra *)

\* The relationship by which n has its distance.
ParentRight(n) ==
    IF query.distance[n] = DblMax THEN n \notin DOMAIN query.parents
    ELSE \E m \in nodes :
            /\ n \in DOMAIN query.parents /\ query.parents[n] \in rels
            /\ IsFromTo(query.parents[n], m, n, query.dir)
            /\ query.distance[m] + query.weight[query.parents[n]] <= query.distance[n]

\* A distance is always the length of a walk, and only nodes that have one are in
\* the heap or looked at; the distance of a parent may have become shorter since.
DistanceInv ==
    /\ query.source \in nodes /\ query.distance[query.source] = 0
    /\ query.weight \in WeightFunctions
    /\ \A n \in nodes : query.distance[n] <= DblMax
    /\ \A n \in nodes : query.distance[n] # DblMax =>
          <<n, query.distance[n]>> \in AllWalks(query.source, query.dir, query.weight)
    /\ query.at # NoId => query.distance[query.at] # DblMax
    /\ \A entry \in query.heap : query.distance[entry.value] # DblMax
    /\ \A n \in nodes \ {query.source} : ParentRight(n)

LEMMA BeginDijkstraDistances ==
    ASSUME GraphReady, NEW source \in nodes, NEW d, NEW weight \in WeightFunctions,
           BeginDijkstra(source, d, weight), DblMax # 0
    PROVE  DistanceInv'
<1>1. /\ query' = [kind |-> "dijkstra", source |-> source, dir |-> d, at |-> NoId, rels |-> <<>>, i |-> 0,
                   weight |-> weight, distance |-> [n \in nodes |-> IF n = source THEN 0 ELSE DblMax],
                   parents |-> NoParents, heap |-> {[key |-> DblMax, value |-> source]}]
      /\ UNCHANGED <<nodes, rels, relationship>>
  BY GetNodesAll, Zenon DEF BeginDijkstra, graphOnly, vars, nodeVars, relVars
<1>2. /\ query'.source = source /\ query'.dir = d /\ query'.at = NoId /\ query'.weight = weight
      /\ query'.parents = NoParents
  BY <1>1, Zenon
<1>3. query'.distance = [n \in nodes |-> IF n = source THEN 0 ELSE DblMax]
  BY <1>1, Zenon
<1>4. \A n \in nodes : query'.distance[n] = IF n = source THEN 0 ELSE DblMax
  BY <1>3, Zenon
<1>5. \A entry \in query'.heap : entry.value = source
  <2>1. query'.heap = {[key |-> DblMax, value |-> source]}
    BY <1>1, Zenon
  <2> QED BY <2>1
<1>6. GraphReady /\ weight \in [rels -> Nat] /\ WeightFunctions' = WeightFunctions
  BY <1>1, QueryAssumption, Zenon DEF GraphReady, WeightFunctions
<1>7. <<source, 0>> \in AllWalks(source, d, weight)
  BY <1>6, AllWalksKept, Zenon DEF KeepsWalks
<1>8. 0 <= DblMax /\ DblMax <= DblMax
  BY QueryAssumption
<1>9. DOMAIN NoParents = {}
  BY Zenon DEF NoParents
<1>10. \A n \in nodes \ {source} : ParentRight(n)'
  BY <1>2, <1>4, <1>9, Zenon DEF ParentRight
<1>11. AllWalks(source, d, weight)' = AllWalks(source, d, weight)
  BY <1>1, AllWalksSame, Zenon
<1>12. \A n \in nodes : query'.distance[n] # DblMax =>
          <<n, query'.distance[n]>> \in AllWalks(query.source, query.dir, query.weight)'
  BY <1>2, <1>4, <1>7, <1>11, Zenon
<1> QED BY <1>1, <1>2, <1>4, <1>5, <1>6, <1>8, <1>10, <1>12, Zenon DEF DistanceInv

LEMMA ExtractMinDistances ==
    ASSUME GraphReady, DijkstraInv, DistanceInv, ExtractMin
    PROVE  DistanceInv'
<1>1. PICK entry \in query.heap :
         query' = [Expanding(query, entry.value) EXCEPT !.heap = @ \ {entry}]
  BY Zenon DEF ExtractMin, Least
<1>2. /\ query'.source = query.source /\ query'.dir = query.dir /\ query'.at = entry.value
      /\ query'.weight = query.weight /\ query'.distance = query.distance
      /\ query'.parents = query.parents /\ query'.heap = query.heap \ {entry}
  BY <1>1, Zenon DEF DijkstraInv, Expanding
<1>3. UNCHANGED <<nodes, rels, relationship>>
  BY Zenon DEF ExtractMin, graphOnly, vars, nodeVars, relVars
<1>4. AllWalks(query.source, query.dir, query.weight)' = AllWalks(query.source, query.dir, query.weight)
  <2>1. \A source, d, weight : AllWalks(source, d, weight)' = AllWalks(source, d, weight)
    BY <1>3, AllWalksSame, Zenon
  <2> QED BY <1>2, <2>1, Zenon
<1>5. WeightFunctions' = WeightFunctions /\ \A n : ParentRight(n)' <=> ParentRight(n)
  BY <1>2, <1>3, Zenon DEF WeightFunctions, ParentRight, IsFromTo
<1> QED BY <1>2, <1>3, <1>4, <1>5, Zenon DEF DistanceInv

\* What a turn of the loop over the relationships does.
LEMMA RelaxDoes ==
    ASSUME GraphReady, DijkstraInv, Relax
    PROVE  \E r \in rels, temp \in nodes, new_dist \in Nat :
              /\ query.at \in nodes /\ query.at # NoId
              /\ Matches(query.at, r, query.dir) /\ temp = Other(query.at, r)
              /\ IsFromTo(r, query.at, temp, query.dir)
              /\ new_dist = query.distance[query.at] + query.weight[r]
              /\ query'.source = query.source /\ query'.dir = query.dir /\ query'.weight = query.weight
              /\ query'.at = query.at
              /\ UNCHANGED <<nodes, rels, relationship>>
              /\ \/ /\ query'.distance = query.distance /\ query'.parents = query.parents
                    /\ query'.heap = query.heap
                 \/ /\ ~(query.distance[temp] <= new_dist)
                    /\ query'.distance = Put(query.distance, temp, new_dist)
                    /\ query'.parents = Put(query.parents, temp, r)
                    /\ query'.heap = query.heap \cup {[key |-> new_dist, value |-> temp]}
<1> DEFINE r    == query.rels[query.i]
           temp == Other(query.at, r)
           new_dist == query.distance[query.at] + query.weight[r]
<1>1. query.i \in DOMAIN query.rels /\ UNCHANGED <<nodes, rels, relationship>>
  BY Zenon DEF Relax, Expanded, graphOnly, vars, nodeVars, relVars
<1>2. query.at \in nodes /\ query.at # NoId /\ query.rels = Expand(query.at, query.dir)
  BY <1>1, Zenon DEF DijkstraInv
<1>3. r \in rels /\ temp \in nodes /\ IsFromTo(r, query.at, temp, query.dir)
  BY <1>1, <1>2, ExpandRight, Zenon
<1>4. Matches(query.at, r, query.dir)
  BY <1>3, FromToOther, Zenon
<1>5. new_dist \in Nat
  <2>1. query.distance[query.at] \in Nat /\ query.weight[r] \in Nat
    BY <1>2, <1>3, Zenon DEF DijkstraInv
  <2> QED BY <2>1
<1>6. /\ query'.source = query.source /\ query'.dir = query.dir /\ query'.weight = query.weight
      /\ query'.at = query.at
      /\ \/ /\ query'.distance = query.distance /\ query'.parents = query.parents
            /\ query'.heap = query.heap
         \/ /\ ~(query.distance[temp] <= new_dist)
            /\ query'.distance = Put(query.distance, temp, new_dist)
            /\ query'.parents = Put(query.parents, temp, r)
            /\ query'.heap = query.heap \cup {[key |-> new_dist, value |-> temp]}
  BY Zenon DEF Relax, DijkstraInv
<1> HIDE DEF r, temp, new_dist
<1>7. temp = Other(query.at, r) /\ new_dist = query.distance[query.at] + query.weight[r]
  BY Zenon DEF temp, new_dist
<1> QED BY <1>1, <1>2, <1>3, <1>4, <1>5, <1>6, <1>7, Zenon

LEMMA RelaxDistances ==
    ASSUME GraphReady, DijkstraInv, DistanceInv, Relax
    PROVE  DistanceInv'
<1>1. PICK r \in rels, temp \in nodes, new_dist \in Nat :
              /\ query.at \in nodes /\ query.at # NoId
              /\ Matches(query.at, r, query.dir) /\ temp = Other(query.at, r)
              /\ IsFromTo(r, query.at, temp, query.dir)
              /\ new_dist = query.distance[query.at] + query.weight[r]
              /\ query'.source = query.source /\ query'.dir = query.dir /\ query'.weight = query.weight
              /\ query'.at = query.at
              /\ UNCHANGED <<nodes, rels, relationship>>
              /\ \/ /\ query'.distance = query.distance /\ query'.parents = query.parents
                    /\ query'.heap = query.heap
                 \/ /\ ~(query.distance[temp] <= new_dist)
                    /\ query'.distance = Put(query.distance, temp, new_dist)
                    /\ query'.parents = Put(query.parents, temp, r)
                    /\ query'.heap = query.heap \cup {[key |-> new_dist, value |-> temp]}
  BY RelaxDoes, Zenon
<1>2. AllWalks(query.source, query.dir, query.weight)' = AllWalks(query.source, query.dir, query.weight)
  <2>1. /\ UNCHANGED <<nodes, rels, relationship>>
        /\ query'.source = query.source /\ query'.dir = query.dir /\ query'.weight = query.weight
    BY <1>1, Zenon
  <2> QED BY <2>1, AllWalksSame, Zenon
<1>3. WeightFunctions' = WeightFunctions
  BY <1>1, Zenon DEF WeightFunctions
<1>4. \A s, m, n : IsFromTo(s, m, n, query.dir)' <=> IsFromTo(s, m, n, query.dir)
  BY <1>1, Zenon DEF IsFromTo
<1>5. CASE /\ query'.distance = query.distance /\ query'.parents = query.parents
           /\ query'.heap = query.heap
  <2>1. \A n : ParentRight(n)' <=> ParentRight(n)
    BY <1>1, <1>4, <1>5, Zenon DEF ParentRight
  <2> QED BY <1>1, <1>2, <1>3, <1>5, <2>1, Zenon DEF DistanceInv
<1>6. CASE /\ ~(query.distance[temp] <= new_dist)
           /\ query'.distance = Put(query.distance, temp, new_dist)
           /\ query'.parents = Put(query.parents, temp, r)
           /\ query'.heap = query.heap \cup {[key |-> new_dist, value |-> temp]}
  <2>1. PICK old, new, at, weight, par :
           /\ old = query.distance /\ new = query'.distance /\ at = query.at /\ weight = query.weight
           /\ par = query.parents
    BY Zenon
  <2>2. /\ old \in [nodes -> Nat] /\ weight \in [rels -> Nat] /\ at \in nodes
        /\ new_dist = old[at] + weight[r] /\ ~(old[temp] <= new_dist)
    BY <1>1, <1>6, <2>1, Zenon DEF DijkstraInv
  <2>3. /\ \A n \in nodes : old[n] \in Nat /\ old[n] <= DblMax
        /\ weight[r] \in Nat /\ DblMax \in Nat /\ old[query.source] = 0 /\ query.source \in nodes
        /\ old[at] # DblMax
    BY <1>1, <2>1, <2>2, QueryAssumption, Zenon DEF DistanceInv
  <2>4. new[temp] = new_dist /\ \A n \in nodes : n # temp => new[n] = old[n]
    BY <1>6, <2>1, <2>2, Zenon DEF Put
  <2>5. temp # at /\ temp # query.source /\ new_dist # DblMax /\ new_dist <= DblMax /\ new_dist < old[temp]
    BY <2>2, <2>3
  <2>6. \A n \in nodes : /\ new[n] \in Nat /\ new[n] <= old[n] /\ new[n] <= DblMax
                         /\ old[n] # DblMax => new[n] # DblMax
    BY <2>2, <2>3, <2>4, <2>5
  <2>7. <<temp, new_dist>> \in AllWalks(query.source, query.dir, query.weight)
    <3>1. GraphReady /\ weight \in [rels -> Nat] /\ query.source \in nodes
      BY <2>2, <2>3, Zenon DEF GraphReady
    <3>2. <<at, old[at]>> \in AllWalks(query.source, query.dir, query.weight)
      BY <2>1, <2>2, <2>3, Zenon DEF DistanceInv
    <3>3. KeepsWalks(AllWalks(query.source, query.dir, query.weight), query.source, query.dir, query.weight)
      BY <2>1, <3>1, AllWalksKept, Zenon
    <3> QED BY <1>1, <2>1, <2>2, <2>3, <3>2, <3>3, Zenon DEF KeepsWalks
  <2>8. \A n \in nodes : new[n] # DblMax =>
           <<n, new[n]>> \in AllWalks(query.source, query.dir, query.weight)
    BY <2>1, <2>4, <2>7, Zenon DEF DistanceInv
  <2>9. \A entry \in query'.heap : new[entry.value] # DblMax
    <3> DEFINE e == [key |-> new_dist, value |-> temp]
    <3>1. e.value = temp
      BY Zenon
    <3> HIDE DEF e
    <3>2. query'.heap = query.heap \cup {e}
      BY <1>6, Zenon DEF e
    <3>3. \A entry \in query.heap : entry.value \in nodes /\ old[entry.value] # DblMax
      BY <2>1, Zenon DEF DijkstraInv, DistanceInv
    <3> QED BY <2>4, <2>5, <2>6, <3>1, <3>2, <3>3, Zenon
  <2>10. /\ temp \in DOMAIN query'.parents /\ query'.parents[temp] = r
         /\ \A n : n # temp => /\ n \in DOMAIN query'.parents <=> n \in DOMAIN par
                               /\ n \in DOMAIN par => query'.parents[n] = par[n]
    BY <1>6, <2>1, Zenon DEF Put
  <2>11. ASSUME NEW n \in nodes \ {query.source} PROVE ParentRight(n)'
    <3>1. CASE n = temp
      <4>1. new[at] = old[at] /\ new[at] + weight[r] <= new[temp]
        BY <2>2, <2>3, <2>4, <2>5
      <4> QED BY <1>1, <1>4, <2>1, <2>2, <2>4, <2>5, <2>10, <3>1, <4>1, Zenon DEF ParentRight
    <3>2. CASE n # temp /\ old[n] = DblMax
      BY <2>1, <2>4, <2>10, <3>2, Zenon DEF ParentRight, DistanceInv
    <3>3. CASE n # temp /\ old[n] # DblMax
      <4>1. PICK m \in nodes : /\ n \in DOMAIN par /\ par[n] \in rels
                               /\ IsFromTo(par[n], m, n, query.dir)
                               /\ old[m] + weight[par[n]] <= old[n]
        BY <2>1, <3>3, Zenon DEF ParentRight, DistanceInv
      <4>2. query'.parents[n] = par[n] /\ n \in DOMAIN query'.parents
        BY <2>10, <3>3, <4>1, Zenon
      <4>3. new[m] + weight[par[n]] <= new[n]
        <5>1. weight[par[n]] \in Nat /\ new[n] = old[n]
          BY <2>2, <2>4, <3>3, <4>1, Zenon
        <5> QED BY <2>3, <2>6, <4>1, <5>1
      <4> QED BY <1>1, <1>4, <2>1, <2>4, <3>3, <4>1, <4>2, <4>3, Zenon DEF ParentRight
    <3> QED BY <3>1, <3>2, <3>3, Zenon
  <2>12. new[query.source] = 0 /\ new[at] # DblMax
    BY <2>2, <2>3, <2>4, <2>5, Zenon
  <2> QED BY <1>1, <1>2, <1>3, <2>1, <2>3, <2>6, <2>8, <2>9, <2>11, <2>12, Zenon DEF DistanceInv
<1> QED BY <1>1, <1>5, <1>6, Zenon

\* No distance comes near DBL_MAX: the sum of weights along a walk that meets no
\* node twice is below it.
WeightsFit(M) ==
    /\ M \in Nat /\ \A w \in Weights : w <= M
    /\ M * Cardinality(NodeIds) < DblMax

LEMMA ShortWalksFit ==
    ASSUME GraphReady, NEW M, WeightsFit(M), nodes # {}
    PROVE  IsFiniteSet(nodes) /\ (Cardinality(nodes) - 1) * M < DblMax
<1>1. nodes \in SUBSET NodeIds
  BY Zenon DEF GraphReady
<1>2. IsFiniteSet(nodes) /\ Cardinality(nodes) <= Cardinality(NodeIds) /\ Cardinality(nodes) # 0
  BY <1>1, IdsAreFinite, FS_Subset, FS_EmptySet, Zenon
<1>3. Cardinality(nodes) \in Nat /\ Cardinality(NodeIds) \in Nat
  BY <1>2, IdsAreFinite, FS_CardinalityType, Zenon
<1>4. PICK a, b, c : /\ a = Cardinality(nodes) - 1 /\ c = Cardinality(NodeIds)
                     /\ a \in Nat /\ b \in Nat /\ c = a + b
  <2> DEFINE b0 == Cardinality(NodeIds) - (Cardinality(nodes) - 1)
  <2>1. /\ Cardinality(nodes) - 1 \in Nat /\ b0 \in Nat
        /\ Cardinality(NodeIds) = (Cardinality(nodes) - 1) + b0
    BY <1>2, <1>3
  <2> QED BY <2>1, Zenon
<1>5. M \in Nat /\ M * c < DblMax
  BY <1>4, Zenon DEF WeightsFit
<1>6. a * M \in Nat /\ M * b \in Nat /\ M * c = a * M + M * b
  BY <1>4, <1>5
<1>7. a * M < DblMax
  BY <1>5, <1>6, QueryAssumption
<1> QED BY <1>2, <1>4, <1>7, Zenon

LEMMA DijkstraRightAtEnd ==
    ASSUME GraphReady, DijkstraInv, DistanceInv, NEW M, WeightsFit(M)
    PROVE  DijkstraRight
<1> SUFFICES ASSUME DijkstraDone PROVE DijkstraRight
  BY Zenon DEF DijkstraRight
<1>1. PICK f, source, d, weight, W :
         /\ f = query.distance /\ source = query.source /\ d = query.dir /\ weight = query.weight
         /\ W = AllWalks(source, d, weight)
  BY Zenon
<1>2. /\ GraphReady /\ weight \in [rels -> Nat] /\ source \in nodes /\ f \in [nodes -> Nat] /\ f[source] = 0
      /\ M \in Nat /\ \A r \in rels : weight[r] <= M
  BY <1>1, Zenon DEF GraphReady, DijkstraInv, DistanceInv, WeightFunctions, WeightsFit
<1>3. \A n \in nodes : /\ f[n] \in Nat /\ f[n] <= DblMax
                       /\ f[n] # DblMax => <<n, f[n]>> \in W
  BY <1>1, <1>2, Zenon DEF DistanceInv
<1>4. ASSUME NEW n \in nodes, NEW r \in rels, Matches(n, r, d), f[n] # DblMax
      PROVE  f[Other(n, r)] <= f[n] + weight[r]
  <2>1. AllRelaxed(n)
    BY <1>1, <1>4, ExpandedRelaxes, Zenon DEF DijkstraDone, DijkstraInv, InHeap
  <2>2. Matches(n, r, query.dir)
    BY <1>1, <1>4, Zenon
  <2>3. PICK j \in DOMAIN Expand(n, query.dir) : Expand(n, query.dir)[j] = r
    BY <2>2, ExpandFinds
  <2> QED BY <1>1, <2>1, <2>3, Zenon DEF AllRelaxed, Relaxed
<1> DEFINE S == {w \in nodes \X Nat : f[w[1]] <= w[2]}
<1>5. \A n \in nodes, x \in Nat : <<n, x>> \in S <=> f[n] <= x
  <2> SUFFICES ASSUME NEW n \in nodes, NEW x \in Nat PROVE <<n, x>> \in S <=> f[n] <= x
    BY Zenon
  <2>1. <<n, x>>[1] = n /\ <<n, x>>[2] = x /\ <<n, x>> \in nodes \X Nat
    OBVIOUS
  <2> QED BY <2>1, Zenon
<1>6. KeepsWalks(S, source, d, weight) /\ S \in SUBSET (nodes \X Nat)
  <2>1. S \in SUBSET (nodes \X Nat)
    BY Zenon
  <2> HIDE DEF S
  <2>2. <<source, 0>> \in S
    <3>1. f[source] <= 0 /\ 0 \in Nat
      BY <1>2
    <3> QED BY <1>2, <1>5, <3>1, Zenon
  <2>3. ASSUME NEW n \in nodes, NEW x \in Nat, NEW r \in rels, <<n, x>> \in S, Matches(n, r, d)
        PROVE  <<Other(n, r), x + weight[r]>> \in S
    <3>1. f[n] <= x /\ f[n] \in Nat
      BY <1>3, <1>5, <2>3, Zenon
    <3>2. PICK m : m = Other(n, r)
      BY Zenon
    <3>3. m \in nodes
      <4>1. r \in rels /\ Matches(n, r, d)
        BY <2>3, Zenon
      <4> QED BY <1>2, <3>2, <4>1, OtherRight, Zenon
    <3>4. weight[r] \in Nat /\ f[m] \in Nat /\ f[m] <= DblMax /\ x + weight[r] \in Nat
      <4>1. weight[r] \in Nat /\ f[m] \in Nat /\ f[m] <= DblMax
        BY <1>2, <1>3, <3>3, Zenon
      <4> QED BY <4>1
    <3>5. f[n] # DblMax => f[m] <= f[n] + weight[r]
      BY <1>4, <2>3, <3>2, Zenon
    <3>6. f[m] <= x + weight[r]
      BY <3>1, <3>4, <3>5, QueryAssumption
    <3>7. <<m, x + weight[r]>> \in S
      BY <1>5, <3>3, <3>4, <3>6, Zenon
    <3> QED BY <3>2, <3>7, Zenon
  <2> QED BY <2>1, <2>2, <2>3, Zenon DEF KeepsWalks
<1> HIDE DEF S
<1>7. ASSUME NEW n \in nodes, NEW x \in Nat, <<n, x>> \in W PROVE f[n] <= x
  <2>1. <<n, x>> \in S
    BY <1>1, <1>6, <1>7, WalkInduction, Zenon
  <2> QED BY <1>5, <2>1, Zenon
<1>8. IsFiniteSet(nodes) /\ (Cardinality(nodes) - 1) * M < DblMax
  BY <1>2, ShortWalksFit, Zenon
<1>9. PICK D : D = Distances(source, d, weight)
  BY Zenon
<1>10. ASSUME NEW n \in nodes PROVE D[n] = f[n]
  <2> DEFINE E == Distances(source, d, weight)
             There == \E y \in Nat : <<n, y>> \in AllWalks(source, d, weight)
  <2>1. /\ There => Shortest(n, E[n], source, d, weight) /\ E[n] <= (Cardinality(nodes) - 1) * M
        /\ ~There => E[n] = DblMax
    BY <1>2, <1>8, DistancesRight
  <2>2. PICK there, bound : there = There /\ bound = (Cardinality(nodes) - 1) * M
    BY Zenon
  <2> HIDE DEF E
  <2>3. /\ There => Shortest(n, D[n], source, d, weight) /\ D[n] <= bound
        /\ ~There => D[n] = DblMax
    BY <1>9, <2>1, <2>2, Zenon DEF E
  <2>4. CASE f[n] # DblMax
    <3>1. There
      BY <1>1, <1>3, <2>4, Zenon
    <3>2. D[n] \in Nat /\ D[n] <= f[n]
      BY <1>1, <1>3, <2>3, <2>4, <3>1, Zenon DEF Shortest
    <3>3. f[n] <= D[n]
      BY <1>1, <1>7, <2>3, <3>1, Zenon DEF Shortest
    <3>4. f[n] \in Nat
      BY <1>3, Zenon
    <3> QED BY <3>2, <3>3, <3>4
  <2>5. CASE f[n] = DblMax
    <3>1. ASSUME There PROVE FALSE
      <4>1. D[n] \in Nat /\ D[n] <= bound /\ DblMax <= D[n]
        BY <1>1, <1>7, <2>3, <2>5, <3>1, Zenon DEF Shortest
      <4>2. bound < DblMax
        BY <1>8, <2>2, Zenon
      <4>3. bound \in Int
        BY <1>2, <1>8, <2>2, FS_CardinalityType
      <4> QED BY <4>1, <4>2, <4>3, QueryAssumption
    <3> QED BY <2>3, <2>5, <3>1, Zenon
  <2> QED BY <2>4, <2>5, Zenon
<1>11. D = f
  <2>1. D = [n \in nodes |-> D[n]]
    <3> DEFINE Of(n) == LET lengths == {w[2] : w \in {v \in Walks(source, d, weight) : v[1] = n}} IN
                        IF lengths = {} THEN DblMax ELSE CHOOSE x \in lengths : \A y \in lengths : x <= y
    <3>1. D = [n \in nodes |-> Of(n)]
      BY <1>9, Zenon DEF Distances
    <3> HIDE DEF Of
    <3> QED BY <3>1, Zenon
  <2> QED BY <1>2, <1>10, <2>1, Zenon
<1>12. ASSUME NEW n \in nodes \ {source}, f[n] # DblMax
       PROVE  \E m \in nodes : /\ IsFromTo(query.parents[n], m, n, d)
                               /\ f[n] = f[m] + weight[query.parents[n]]
  <2>1. PICK m \in nodes : /\ query.parents[n] \in rels
                           /\ IsFromTo(query.parents[n], m, n, d)
                           /\ f[m] + weight[query.parents[n]] <= f[n]
    <3>1. ParentRight(n)
      BY <1>1, <1>12, Zenon DEF DistanceInv
    <3> QED BY <1>1, <1>12, <3>1, Zenon DEF ParentRight
  <2>2. PICK r : r = query.parents[n]
    BY Zenon
  <2>3. r \in rels /\ Matches(m, r, d) /\ Other(m, r) = n /\ f[m] + weight[r] <= f[n]
    BY <2>1, <2>2, FromToOther, Zenon
  <2>4. f[m] \in Nat /\ f[n] \in Nat /\ f[n] <= DblMax /\ weight[r] \in Nat
    BY <1>2, <1>3, <2>3, Zenon
  <2>5. f[m] # DblMax
    BY <1>12, <2>3, <2>4, QueryAssumption
  <2>6. f[n] <= f[m] + weight[r]
    BY <1>4, <2>3, <2>5, Zenon
  <2>7. f[n] = f[m] + weight[r]
    BY <2>3, <2>4, <2>6
  <2> QED BY <2>1, <2>2, <2>7, Zenon
<1>13. \A n \in nodes \ {source} : f[n] = DblMax => n \notin DOMAIN query.parents
  BY <1>1, Zenon DEF DistanceInv, ParentRight
<1> QED BY <1>1, <1>9, <1>11, <1>12, <1>13, Zenon DEF DijkstraRight


------------------------------------------------------------------------------
(* All calls *)

\* A query begins when the import is over, and each loop keeps its invariant.
LoopsInv ==
    /\ "kind" \in DOMAIN query
    /\ query.kind # "none" => import = "after"
    /\ IsTraversal => TraversalInv /\ NumberInv
    /\ query.kind = "dijkstra" => DijkstraInv /\ (DblMax # 0 => DistanceInv)

LEMMA LoopsBegin ==
    ASSUME GraphReady, BeginQuery
    PROVE  LoopsInv'
<1>1. import = "after" /\ query = NoQuery
  BY Zenon DEF BeginQuery, MayQuery
<1>2. ASSUME import' = import, "kind" \in DOMAIN query', query'.kind \notin {"bfs", "dfs", "dijkstra"}
      PROVE  LoopsInv'
  BY <1>1, <1>2, Zenon DEF LoopsInv, IsTraversal
<1>3. UNCHANGED graphOnly => import' = import
  BY Zenon DEF graphOnly, importVars
<1>4. ASSUME NEW source \in nodes, NEW d, NEW kind \in {"bfs", "dfs"}, BeginTraversal(kind, source, d)
      PROVE  LoopsInv'
  <2>1. TraversalInv' /\ NumberInv'
    BY <1>4, BeginTraversalRight, BeginTraversalNumbers, Zenon
  <2>2. query'.kind = kind /\ "kind" \in DOMAIN query' /\ UNCHANGED graphOnly
    BY <1>4, Zenon DEF BeginTraversal
  <2> QED BY <1>1, <1>3, <2>1, <2>2, Zenon DEF LoopsInv
<1>5. ASSUME NEW source \in nodes, NEW d, NEW weight \in WeightFunctions, BeginDijkstra(source, d, weight)
      PROVE  LoopsInv'
  <2>1. DijkstraInv' /\ (DblMax # 0 => DistanceInv')
    BY <1>5, BeginDijkstraRight, BeginDijkstraDistances, Zenon
  <2>2. query'.kind = "dijkstra" /\ "kind" \in DOMAIN query' /\ UNCHANGED graphOnly
    BY <1>5, Zenon DEF BeginDijkstra
  <2> QED BY <1>1, <1>3, <2>1, <2>2, Zenon DEF LoopsInv, IsTraversal
<1>6. ASSUME NEW source, NEW d, NEW num_steps, NEW weight, BeginWalk(source, d, num_steps, weight)
      PROVE  LoopsInv'
  BY <1>2, <1>3, <1>6, Zenon DEF BeginWalk
<1>7. ASSUME NEW source, NEW target, NEW d, NEW weight, NEW heuristic,
             BeginAStar(source, target, d, weight, heuristic)
      PROVE  LoopsInv'
  BY <1>2, <1>3, <1>7, Zenon DEF BeginAStar
<1>8. ASSUME NEW from, NEW to, NEW d, BeginSearch(from, to, d) PROVE LoopsInv'
  <2>1. query' = NoQuery /\ import' = import
    BY <1>1, <1>8, Zenon DEF BeginSearch, importVars
  <2> QED BY <1>2, <2>1, Zenon DEF NoQuery
<1> QED BY <1>4, <1>5, <1>6, <1>7, <1>8, Zenon DEF BeginQuery, BeginAlt

LEMMA LoopsStep ==
    ASSUME GraphReady, LoopsInv, QueryStep
    PROVE  LoopsInv'
<1>1. query.kind # "none" => import = "after"
  BY Zenon DEF LoopsInv
<1>2. ASSUME import' = import, query.kind # "none", "kind" \in DOMAIN query',
             query'.kind \notin {"bfs", "dfs", "dijkstra"}
      PROVE  LoopsInv'
  BY <1>1, <1>2, Zenon DEF LoopsInv, IsTraversal
<1>3. UNCHANGED graphOnly => import' = import
  BY Zenon DEF graphOnly, importVars
<1>4. CASE VisitNext \/ LookAt
  <2>1. TraversalInv /\ NumberInv /\ query.kind \in {"bfs", "dfs"} /\ UNCHANGED graphOnly
    BY <1>4, Zenon DEF VisitNext, LookAt, LoopsInv, IsTraversal
  <2>2. TraversalInv' /\ NumberInv'
    BY <1>4, <2>1, VisitNextKeeps, LookAtKeeps, VisitNextNumbers, LookAtNumbers, Zenon
  <2>3. query'.kind = query.kind /\ "kind" \in DOMAIN query'
    BY <1>4, <2>1, Zenon DEF VisitNext, LookAt, Expanding, TraversalInv
  <2> QED BY <1>1, <1>3, <2>1, <2>2, <2>3, Zenon DEF LoopsInv
<1>5. CASE ExtractMin \/ Relax
  <2>1. DijkstraInv /\ (DblMax # 0 => DistanceInv) /\ query.kind = "dijkstra" /\ UNCHANGED graphOnly
    BY <1>5, Zenon DEF ExtractMin, Relax, LoopsInv
  <2>2. DijkstraInv' /\ (DblMax # 0 => DistanceInv')
    BY <1>5, <2>1, ExtractMinKeeps, RelaxKeeps, ExtractMinDistances, RelaxDistances, Zenon
  <2>3. query'.kind = query.kind /\ "kind" \in DOMAIN query'
    BY <1>5, <2>1, Zenon DEF ExtractMin, Relax, Expanding, DijkstraInv
  <2> QED BY <1>1, <1>3, <2>1, <2>2, <2>3, Zenon DEF LoopsInv, IsTraversal
<1>6. CASE AStarNext \/ AStarRelax \/ WalkOn
  <2>1. query'.kind = query.kind /\ "kind" \in DOMAIN query' /\ query.kind \in {"a_star", "walk"}
    BY <1>6, Zenon DEF AStarNext, AStarRelax, WalkOn, Expanding, LoopsInv
  <2>2. UNCHANGED graphOnly
    BY <1>6, Zenon DEF AStarNext, AStarRelax, WalkOn
  <2> QED BY <1>2, <1>3, <2>1, <2>2, Zenon
<1>7. CASE AStarFound \/ AStarNotFound \/ WalkEnds
  <2>1. query'.kind = "path" /\ "kind" \in DOMAIN query'
    <3>1. CASE AStarFound
      BY <3>1, Zenon DEF AStarFound, Found
    <3>2. CASE AStarNotFound
      BY <3>2, Zenon DEF AStarNotFound, Found
    <3>3. CASE WalkEnds
      BY <3>3, Zenon DEF WalkEnds
    <3> QED BY <1>7, <3>1, <3>2, <3>3, Zenon
  <2>2. UNCHANGED graphOnly /\ query.kind # "none"
    BY <1>7, Zenon DEF AStarFound, AStarNotFound, WalkEnds
  <2> QED BY <1>2, <1>3, <2>1, <2>2, Zenon
<1>8. CASE AStarFails \/ Return
  <2>1. query' = NoQuery /\ query.kind # "none"
    BY <1>8, Zenon DEF AStarFails, Return, TraversalDone, DijkstraDone
  <2>2. import' = import
    BY <1>8, Zenon DEF AStarFails, Return, graphOnly, importVars
  <2> QED BY <1>2, <2>1, <2>2, Zenon DEF NoQuery
<1> QED BY <1>4, <1>5, <1>6, <1>7, <1>8, Zenon DEF QueryStep

\* The invariants of the loops say nothing of what a search changes.
LEMMA LoopsSame ==
    ASSUME LoopsInv, UNCHANGED <<nodes, rels, relationship, first_relationship, import, query>>
    PROVE  LoopsInv'
<1>1. \A m, d : Expand(m, d)' = Expand(m, d)
  BY ExpandSame, Zenon
<1>2. \A n, r, d : Matches(n, r, d)' = Matches(n, r, d) /\ Other(n, r)' = Other(n, r)
  BY Zenon DEF Matches, Other
<1>3. /\ Reached' = Reached /\ UnitWeight' = UnitWeight /\ WeightFunctions' = WeightFunctions
      /\ IsTraversal' = IsTraversal
  BY Zenon DEF Reached, UnitWeight, WeightFunctions, IsTraversal
<1>4. \A m : Closed(m)' = Closed(m) /\ ClosedSoFar(m)' = ClosedSoFar(m) /\ Waiting(m)' = Waiting(m)
  BY <1>1, <1>2, <1>3, Zenon DEF Closed, ClosedSoFar, Waiting
<1>5. TraversalInv' = TraversalInv
  <2>1. \A r, m, n, d : IsFromTo(r, m, n, d)' = IsFromTo(r, m, n, d)
    BY DEF IsFromTo
  <2> QED BY <1>1, <1>3, <1>4, <2>1, Zenon DEF TraversalInv
<1>6. \A m, s : Relaxed(m, s)' = Relaxed(m, s)
  BY <1>2, Zenon DEF Relaxed
<1>7. \A m : AllRelaxed(m)' = AllRelaxed(m) /\ RelaxedSoFar(m)' = RelaxedSoFar(m) /\ InHeap(m)' = InHeap(m)
  BY <1>1, <1>6, Zenon DEF AllRelaxed, RelaxedSoFar, InHeap
<1>8. DijkstraInv => DijkstraInv'
  BY <1>1, <1>7, Zenon DEF DijkstraInv
<1>9. \A source, d, weight : AllWalks(source, d, weight)' = AllWalks(source, d, weight)
  BY AllWalksSame, Zenon
<1>10. Numbered' = Numbered
  BY <1>3, <1>9, Zenon DEF Numbered
<1>11. BfsInv' = BfsInv
  BY <1>2, <1>3, Zenon DEF BfsInv
<1>12. \A n : ParentRight(n)' = ParentRight(n)
  BY Zenon DEF ParentRight, IsFromTo
<1>13. DistanceInv' = DistanceInv
  BY <1>3, <1>9, <1>12, Zenon DEF DistanceInv
<1>14. NumberInv' = NumberInv
  BY <1>10, <1>11, Zenon DEF NumberInv
<1> QED BY <1>3, <1>5, <1>8, <1>13, <1>14, Zenon DEF LoopsInv

LEMMA LoopsInvStep ==
    ASSUME GraphReady, LoopsInv, [QueryNext]_queryVars
    PROVE  LoopsInv'
<1>1. CASE ImportNext /\ UNCHANGED <<search, query>>
  <2>1. import # "after"
    BY <1>1, Zenon DEF ImportNext, BeginImport, ReadLine, ImportField, ImportRelationship, ReadLineFails, EndImport
  <2>2. query.kind = "none" /\ "kind" \in DOMAIN query
    BY <2>1, Zenon DEF LoopsInv
  <2> QED BY <1>1, <2>2, Zenon DEF LoopsInv, IsTraversal
<1>2. CASE BeginQuery
  BY <1>2, LoopsBegin, Zenon
<1>3. CASE QueryFails
  <2>1. query' = query /\ query = NoQuery
    BY <1>3, Zenon DEF QueryFails, MayQuery
  <2> QED BY <2>1, Zenon DEF LoopsInv, IsTraversal, NoQuery
<1>4. CASE QueryStep
  BY <1>4, LoopsStep, Zenon
<1>5. CASE SearchStep \/ SearchReturns \/ UNCHANGED queryVars
  <2>1. UNCHANGED <<nodes, rels, relationship, first_relationship, import, query>>
    BY <1>5, Zenon DEF SearchStep, Step, SearchReturns, queryVars, graphOnly, vars, nodeVars, relVars, importVars
  <2> QED BY <2>1, LoopsSame, Zenon
<1> QED BY <1>1, <1>2, <1>3, <1>4, <1>5, Zenon DEF QueryNext

LEMMA LoopsInvInitial == QueryInit => LoopsInv
<1> SUFFICES ASSUME QueryInit PROVE LoopsInv
  BY Zenon
<1>1. query.kind = "none" /\ "kind" \in DOMAIN query
  BY Zenon DEF QueryInit, NoQuery
<1> QED BY <1>1, Zenon DEF LoopsInv, IsTraversal

\* What the invariants say of the results.
LEMMA LoopsInvSound == GraphReady /\ LoopsInv => LoopsSound
<1> SUFFICES ASSUME GraphReady, LoopsInv PROVE LoopsSound
  BY Zenon
<1>1. TraversalTree
  BY Zenon DEF LoopsInv, TraversalTree, TraversalInv
<1>2. TraversalClosed
  <2> SUFFICES ASSUME TraversalDone, NEW n \in Reached PROVE Closed(n)
    BY Zenon DEF TraversalClosed, Closed
  <2>1. TraversalInv /\ Expanded /\ DOMAIN query.work = {}
    BY DEF TraversalDone, LoopsInv, IsTraversal
  <2> QED BY <2>1, ExpandedCloses, Zenon DEF TraversalInv, Waiting
<1>3. DijkstraRelaxed
  <2> SUFFICES ASSUME DijkstraDone, NEW n \in nodes, query.distance[n] # DblMax PROVE AllRelaxed(n)
    BY Zenon DEF DijkstraRelaxed, AllRelaxed, Relaxed
  <2>1. DijkstraInv /\ Expanded /\ query.heap = {}
    BY Zenon DEF DijkstraDone, LoopsInv
  <2> QED BY <2>1, ExpandedRelaxes, Zenon DEF DijkstraInv, InHeap
<1> QED BY <1>1, <1>2, <1>3, Zenon DEF LoopsSound

LEMMA LoopsInvNumbers ==
    ASSUME Cardinality(NodeIds) < DblMax
    PROVE  GraphReady /\ LoopsInv => NumbersRight
<1>1. Cardinality(NodeIds) <= DblMax
  <2>1. Cardinality(NodeIds) \in Nat
    BY IdsAreFinite, FS_CardinalityType, Zenon
  <2> QED BY <2>1, QueryAssumption
<1> SUFFICES ASSUME GraphReady, LoopsInv, TraversalDone PROVE NumbersRight
  BY Zenon DEF NumbersRight
<1>2. TraversalInv /\ NumberInv
  BY Zenon DEF LoopsInv, TraversalDone, IsTraversal
<1> QED BY <1>1, <1>2, NumbersRightAtEnd, Zenon

LEMMA LoopsInvDistances ==
    ASSUME NEW M, WeightsFit(M)
    PROVE  GraphReady /\ LoopsInv => DijkstraRight
<1>1. DblMax # 0
  <2>1. M \in Nat /\ Cardinality(NodeIds) \in Nat /\ M * Cardinality(NodeIds) < DblMax
    BY IdsAreFinite, FS_CardinalityType, Zenon DEF WeightsFit
  <2>2. M * Cardinality(NodeIds) \in Nat
    BY <2>1
  <2> QED BY <2>1, <2>2, QueryAssumption
<1> SUFFICES ASSUME GraphReady, LoopsInv, DijkstraDone PROVE DijkstraRight
  BY Zenon DEF DijkstraRight
<1>2. DijkstraInv /\ DistanceInv
  BY <1>1, Zenon DEF LoopsInv, DijkstraDone
<1> QED BY <1>2, DijkstraRightAtEnd, Zenon

==============================================================================
