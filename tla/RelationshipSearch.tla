--------------------------- MODULE RelationshipSearch ---------------------------
(***************************************************************************)
(* contains_relationship_from_to of src/access/heap_file.c: a loop along   *)
(* the chain of a node, one relationship at a time, on the graphs that     *)
(* HeapFile builds.                                                        *)
(***************************************************************************)
EXTENDS HeapFile

VARIABLE search

searchVars == <<vars, search>>

\* from, to, direction; the relationship the loop started at, the one it is at;
\* the answer, a relationship or NULL.
NoSearch == [state |-> "none", from |-> NoId, to |-> NoId, dir |-> "BOTH",
             start |-> NoId, at |-> NoId]

IsFromTo(r, from, to, d) ==
    \/ /\ d # "INCOMING"
       /\ relationship[r].source = from /\ relationship[r].target = to
    \/ /\ d # "OUTGOING"
       /\ relationship[r].source = to /\ relationship[r].target = from

\* A node that does not exist or has no relationship: NULL at once.
Begin(from, to, d) ==
    LET s == [NoSearch EXCEPT !.from = from, !.to = to, !.dir = d] IN
    /\ Ready /\ search.state # "running"
    /\ search' =
          IF {from, to} \subseteq nodes /\ NoId \notin {first_relationship[from], first_relationship[to]}
          THEN [s EXCEPT !.state = "running", !.start = first_relationship[from],
                         !.at = first_relationship[from]]
          ELSE [s EXCEPT !.state = "not found"]
    /\ UNCHANGED vars

\* Mutant: the direction of the relationship is not compared.
StepUndirected ==
    LET r    == search.at
        next == NextRelationshipId(search.from, r, search.dir)
    IN
    /\ search.state = "running"
    /\ \/ /\ IsFromTo(r, search.from, search.to, "BOTH")
          /\ search' = [search EXCEPT !.state = "found"]
       \/ /\ ~IsFromTo(r, search.from, search.to, "BOTH")
          /\ search' = IF next \in {search.start, NoId}
                       THEN [search EXCEPT !.state = "not found", !.at = NoId]
                       ELSE [search EXCEPT !.at = next]
    /\ UNCHANGED vars

\* Mutant: the start of the chain does not end the loop.
StepPastStart ==
    LET r    == search.at
        next == NextRelationshipId(search.from, r, search.dir)
    IN
    /\ search.state = "running"
    /\ \/ /\ IsFromTo(r, search.from, search.to, search.dir)
          /\ search' = [search EXCEPT !.state = "found"]
       \/ /\ ~IsFromTo(r, search.from, search.to, search.dir)
          /\ search' = IF next = NoId
                       THEN [search EXCEPT !.state = "not found", !.at = NoId]
                       ELSE [search EXCEPT !.at = next]
    /\ UNCHANGED vars

\* One turn of the loop.
Step ==
    LET r    == search.at
        next == NextRelationshipId(search.from, r, search.dir)
    IN
    /\ search.state = "running"
    /\ \/ /\ IsFromTo(r, search.from, search.to, search.dir)
          /\ search' = [search EXCEPT !.state = "found"]
       \/ /\ ~IsFromTo(r, search.from, search.to, search.dir)
          /\ next \in {search.start, NoId}
          /\ search' = [search EXCEPT !.state = "not found", !.at = NoId]
       \/ /\ ~IsFromTo(r, search.from, search.to, search.dir)
          /\ next \notin {search.start, NoId}
          /\ search' = [search EXCEPT !.at = next]
    /\ UNCHANGED vars

SearchInit == Init /\ search = NoSearch

SearchNext ==
    \/ search.state # "running" /\ Next /\ search' = NoSearch
    \/ \E from, to \in NodeIds, d \in Directions : Begin(from, to, d)
    \/ Step

\* The loop runs on by itself.
SearchSpec == SearchInit /\ [][SearchNext]_searchVars /\ WF_searchVars(Step)

\* An answer is right: the relationship leads from one node to the other in the
\* direction asked for, and NULL means that there is none, though the loop looks
\* only at the relationships next_relationship_id lets it see.
AnswerRight ==
    /\ search.state = "found" => /\ search.at \in rels
                                 /\ IsFromTo(search.at, search.from, search.to, search.dir)
    /\ search.state = "not found" =>
          ~\E r \in rels : IsFromTo(r, search.from, search.to, search.dir)

\* A search that starts at a relationship of the direction asked for ends: the
\* loop comes back to it.
MatchingSearchEnds ==
    search.state = "running" /\ Matches(search.from, search.start, search.dir)
        ~> search.state # "running"

\* test_heap_file.c has the search for a relationship that is not there answer
\* NULL, so it comes to an end.
SearchEnds == search.state = "running" ~> search.state # "running"
==============================================================================
