----------------------------- MODULE InMemoryGraph -----------------------------
(***************************************************************************)
(* src/access/in_memory_graph.c: the graph without files.  Nodes and       *)
(* relationships are in two dictionaries under consecutive ids; the chains *)
(* are those of the heap file, kept by code of their own.                  *)
(***************************************************************************)
EXTENDS Integers, FiniteSets

VARIABLES
    cache_nodes,             \* first_relationship by the id of the node
    cache_rels,              \* the relationships by their ids
    mem_n_nodes, mem_n_rels  \* n_nodes, n_rels of the graph

memoryVars == <<cache_nodes, cache_rels, mem_n_nodes, mem_n_rels>>

Unset   == -1   \* UNINITIALIZED_LONG
Endless == -2   \* the outcome of a loop that does not end

\* dict_ul_node_insert, dict_ul_rel_insert.
Put(f, x, v) == [y \in DOMAIN f \cup {x} |-> IF y = x THEN v ELSE f[y]]

InMemoryGraphCreate ==
    /\ cache_nodes = [n \in {} |-> Unset] /\ cache_rels = [r \in {} |-> Unset]
    /\ mem_n_nodes = 0 /\ mem_n_rels = 0

InMemoryCreateNode ==
    /\ cache_nodes' = Put(cache_nodes, mem_n_nodes, Unset)
    /\ mem_n_nodes' = mem_n_nodes + 1
    /\ UNCHANGED <<cache_rels, mem_n_rels>>

------------------------------------------------------------------------------
(* in_memory_create_relationship_weighted *)

\* The first and the last relationship of n, r itself if there is none.
FirstIn(n, r) == IF cache_nodes[n] = Unset THEN r ELSE cache_nodes[n]
LastIn(n, r)  ==
    IF cache_nodes[n] = Unset THEN r
    ELSE LET first == cache_rels[cache_nodes[n]] IN
         IF first.source = n THEN first.prev_source ELSE first.prev_target

\* f, where r gets v for its next (prev) on each side on which it has n.
NextSet(f, r, n, v) ==
    [f EXCEPT ![r].next_source = IF f[r].source = n THEN v ELSE @,
              ![r].next_target = IF f[r].target = n THEN v ELSE @]

PrevSet(f, r, n, v) ==
    [f EXCEPT ![r].prev_source = IF f[r].source = n THEN v ELSE @,
              ![r].prev_target = IF f[r].target = n THEN v ELSE @]

\* Mutant: the first relationship does not learn that it has a new predecessor.
LinkedInForward(r, from, to) ==
    LET rel == [source |-> from, target |-> to,
                prev_source |-> LastIn(from, r), next_source |-> FirstIn(from, r),
                prev_target |-> LastIn(to, r), next_target |-> FirstIn(to, r)]
        f1  == NextSet(Put(cache_rels, r, rel), LastIn(from, r), from, r)
    IN  NextSet(f1, LastIn(to, r), to, r)

LinkedIn(r, from, to) ==
    LET rel == [source |-> from, target |-> to,
                prev_source |-> LastIn(from, r), next_source |-> FirstIn(from, r),
                prev_target |-> LastIn(to, r), next_target |-> FirstIn(to, r)]
        f1  == NextSet(Put(cache_rels, r, rel), LastIn(from, r), from, r)
        f2  == NextSet(f1, LastIn(to, r), to, r)
        f3  == PrevSet(f2, FirstIn(from, r), from, r)
    IN  PrevSet(f3, FirstIn(to, r), to, r)

InMemoryCreateRelationship(from, to) ==
    /\ {from, to} \subseteq DOMAIN cache_nodes
    /\ cache_rels' = LinkedIn(mem_n_rels, from, to)
    /\ cache_nodes' = [n \in DOMAIN cache_nodes |->
                          IF n \in {from, to} THEN FirstIn(n, mem_n_rels) ELSE cache_nodes[n]]
    /\ mem_n_rels' = mem_n_rels + 1
    /\ UNCHANGED mem_n_nodes

------------------------------------------------------------------------------
(* in_memory_next_relationship_id, in_memory_expand,
   in_memory_contains_relationship_from_to *)

MatchesIn(n, r, d) ==
    \/ cache_rels[r].source = n /\ d # "INCOMING"
    \/ cache_rels[r].target = n /\ d # "OUTGOING"

Behind(n, r) == IF cache_rels[r].source = n THEN cache_rels[r].next_source
                                            ELSE cache_rels[r].next_target

\* The loop ends at a relationship that matches or where it began.
InMemoryNextRelationshipId(n, r, d) ==
    LET at[k \in 0 .. mem_n_rels] == IF k = 0 THEN Behind(n, r) ELSE Behind(n, at[k - 1])
        stops == {k \in DOMAIN at : at[k] = r \/ MatchesIn(n, at[k], d)}
        stop  == at[CHOOSE k \in stops : \A j \in stops : k <= j]
    IN  IF stop = r THEN Unset ELSE stop

\* What the loops of expand and contains_relationship_from_to come to from the
\* relationship r on: the start again and Unset end them.
Following(n, r, d) ==
    LET at[k \in 0 .. mem_n_rels] ==
            IF k = 0 THEN r
            ELSE LET before == at[k - 1] IN
                 IF before = Unset THEN Unset ELSE InMemoryNextRelationshipId(n, before, d)
        over(k) == at[k] = Unset \/ (k > 0 /\ at[k] = r)
    IN  [i \in {k \in DOMAIN at : \A j \in 0 .. k : ~over(j)} |-> at[i]]

InMemoryExpand(n, d) ==
    LET first == cache_nodes[n] IN
    Following(n, IF first = Unset \/ MatchesIn(n, first, d) THEN first
                 ELSE InMemoryNextRelationshipId(n, first, d), d)

\* The first of the relationships the search looks at that is asked for.  The
\* search ends without one only if it meets Unset or its start.
InMemoryContainsRelationshipFromTo(from, to, d) ==
    LET seen    == Following(from, cache_nodes[from], d)
        hit(r)  == \/ d # "INCOMING" /\ cache_rels[r].source = from /\ cache_rels[r].target = to
                   \/ d # "OUTGOING" /\ cache_rels[r].source = to /\ cache_rels[r].target = from
        hits    == {k \in DOMAIN seen : hit(seen[k])}
    IN  IF Unset \in {cache_nodes[from], cache_nodes[to]} THEN Unset
        ELSE IF hits # {} THEN seen[CHOOSE k \in hits : \A j \in hits : k <= j]
        ELSE IF mem_n_rels \in DOMAIN seen THEN Endless ELSE Unset

\* in_memory_get_nodes, in_memory_get_relationships.
InMemoryGetNodes         == DOMAIN cache_nodes
InMemoryGetRelationships == DOMAIN cache_rels
==============================================================================
