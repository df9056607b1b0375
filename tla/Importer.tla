-------------------------------- MODULE Importer --------------------------------
(***************************************************************************)
(* import_from_txt and in_memory_import_from_txt of                        *)
(* src/query/snap_importer.c: one file is read into the heap file and into *)
(* the in-memory graph, field by field, side by side.  Labels are the node *)
(* ids of the file; a line with a comment changes nothing.                 *)
(***************************************************************************)
EXTENDS HeapFile, InMemoryGraph

CONSTANTS
    Weightings,    \* whether the lines have weights: a set of Booleans
    DatasetNodes,  \* get_no_nodes of the data set
    DatasetRels,   \* get_no_rels
    MaxLabels,     \* bound: labels in the file, including what from_to[2] holds
    MaxLines,      \* bound: lines without weights
    MaxWeighted    \* bound: lines with weights

ASSUME ImportAssumption ==
    /\ Weightings \subseteq BOOLEAN
    /\ DatasetNodes \in Nat /\ DatasetRels \in Nat

VARIABLES
    import,        \* "before", "reading", "line": within a line, "after"
    weighted,
    lines,         \* the lines read so far, <<from, to>>
    todo,          \* the fields of the line that are labels yet
    from_to,       \* those that are ids of nodes of the heap file,
    mem_from_to,   \* and of the in-memory graph
    txt_to_db_id_n, txt_to_db_id_r,  \* the dictionaries import_from_txt returns
    txt_to_mem_n, txt_to_mem_r       \* those of in_memory_import_from_txt

lineVars   == <<lines, todo, from_to, mem_from_to>>
mapVars    == <<txt_to_db_id_n, txt_to_db_id_r, txt_to_mem_n, txt_to_mem_r>>
importVars == <<memoryVars, import, weighted, lineVars, mapVars>>

Labels == {2 * MaxLabels - k : k \in 0 .. MaxLabels - 1}
Known  == DOMAIN txt_to_db_id_n

\* The numbers a file gives its nodes do not matter: they descend in the order in
\* which they first occur.
InOrder(labels) ==
    \A i \in DOMAIN labels :
        LET before == Known \cup {labels[j] : j \in 1 .. i - 1} IN
        labels[i] \in before \cup {2 * MaxLabels - Cardinality(before)}

PagesOf(records, slots) ==
    ((records * slots) \div SlotsPerPage) + (IF (records * slots) % SlotsPerPage = 0 THEN 0 ELSE 1)

\* allocate_pages makes room for the whole data set.
BeginImport ==
    /\ Ready /\ import = "before"
    /\ import' = "reading"
    /\ weighted' \in Weightings
    /\ node_pages' = node_pages + PagesOf(DatasetNodes, 1)
    /\ rel_pages' = rel_pages + PagesOf(DatasetRels, SlotsPerRel)
    /\ UNCHANGED <<nodes, last_alloc_node_id, n_nodes, rels, relationship, last_alloc_rel_id, n_rels,
                   first_relationship, deleting, status, memoryVars, lineVars, mapVars>>

\* A line has two labels.  With weights the loop over from_to goes on to
\* from_to[2], behind the array, whatever is there.  That the id of the node is
\* then stored there as well is left out: it is never read as from_to[2] again, and
\* which other variable it hits is up to the compiler.
ReadLine(from, to, behind) ==
    LET read == IF weighted THEN <<from, to, behind>> ELSE <<from, to>> IN
    /\ status = "up" /\ import = "reading"
    /\ Len(lines) < (IF weighted THEN MaxWeighted ELSE MaxLines)
    /\ InOrder(read)
    /\ import' = "line"
    /\ lines' = Append(lines, <<from, to>>)
    /\ todo' = read
    /\ UNCHANGED <<vars, memoryVars, weighted, from_to, mem_from_to, mapVars>>

\* Mutant: a node is created for every field.
ImportFieldAgain ==
    LET label == Head(todo) IN
    /\ import = "line" /\ todo # <<>>
    /\ CreateNode
    /\ InMemoryCreateNode
    /\ txt_to_db_id_n' = Put(txt_to_db_id_n, label, FreeNode)
    /\ txt_to_mem_n' = Put(txt_to_mem_n, label, mem_n_nodes)
    /\ todo' = Tail(todo)
    /\ from_to' = Append(from_to, FreeNode)
    /\ mem_from_to' = Append(mem_from_to, mem_n_nodes)
    /\ UNCHANGED <<import, weighted, lines, txt_to_db_id_r, txt_to_mem_r>>

\* A label becomes the id of its node, which may have to be created.
ImportField ==
    LET label  == Head(todo)
        id     == IF label \in Known THEN txt_to_db_id_n[label] ELSE FreeNode
        mem_id == IF label \in DOMAIN txt_to_mem_n THEN txt_to_mem_n[label] ELSE mem_n_nodes
    IN
    /\ import = "line" /\ todo # <<>>
    /\ IF label \in Known THEN UNCHANGED vars ELSE CreateNode
    /\ IF label \in DOMAIN txt_to_mem_n THEN UNCHANGED memoryVars ELSE InMemoryCreateNode
    /\ txt_to_db_id_n' = Put(txt_to_db_id_n, label, id)
    /\ txt_to_mem_n' = Put(txt_to_mem_n, label, mem_id)
    /\ todo' = Tail(todo)
    /\ from_to' = Append(from_to, id)
    /\ mem_from_to' = Append(mem_from_to, mem_id)
    /\ UNCHANGED <<import, weighted, lines, txt_to_db_id_r, txt_to_mem_r>>

ImportRelationship ==
    /\ import = "line" /\ todo = <<>>
    /\ CreateRelationship(from_to[1], from_to[2])
    /\ InMemoryCreateRelationship(mem_from_to[1], mem_from_to[2])
    /\ txt_to_db_id_r' = Append(txt_to_db_id_r, FreeRel)
    /\ txt_to_mem_r' = Append(txt_to_mem_r, mem_n_rels)
    /\ import' = "reading"
    /\ from_to' = <<>> /\ mem_from_to' = <<>>
    /\ UNCHANGED <<weighted, lines, todo, txt_to_db_id_n, txt_to_mem_n>>

\* A line without the fields asked for ends the process.
ReadLineFails ==
    /\ import = "reading"
    /\ BadCall
    /\ UNCHANGED importVars

EndImport ==
    /\ status = "up" /\ import = "reading"
    /\ import' = "after"
    /\ UNCHANGED <<vars, memoryVars, weighted, lineVars, mapVars>>

ImportInit ==
    /\ Init /\ InMemoryGraphCreate
    /\ import = "before" /\ weighted = FALSE
    /\ lines = <<>> /\ todo = <<>> /\ from_to = <<>> /\ mem_from_to = <<>>
    /\ txt_to_db_id_n = [x \in {} |-> NoId] /\ txt_to_db_id_r = <<>>
    /\ txt_to_mem_n = [x \in {} |-> Unset] /\ txt_to_mem_r = <<>>

ImportNext ==
    \/ BeginImport
    \/ \E from, to, behind \in Labels :
          (weighted \/ behind = from) /\ ReadLine(from, to, behind)
    \/ ImportField
    \/ ImportRelationship
    \/ ReadLineFails
    \/ EndImport

ImportSpec == ImportInit /\ [][ImportNext]_<<vars, importVars>>

------------------------------------------------------------------------------
(* Properties *)

\* The labels of the lines that were imported.
LabelsRead == UNION {{lines[k][1], lines[k][2]} : k \in DOMAIN txt_to_db_id_r}

\* What is imported is the file: no two labels share a node, the k-th line is one
\* relationship and that of no other line, between the nodes of its labels, and
\* without weights there is no node that no line names.  With weights there may
\* be: from_to[2].
ImportExact ==
    /\ \A x, y \in Known : txt_to_db_id_n[x] = txt_to_db_id_n[y] => x = y
    /\ nodes = {txt_to_db_id_n[x] : x \in Known}
    /\ rels = {txt_to_db_id_r[k] : k \in DOMAIN txt_to_db_id_r}
    /\ \A j, k \in DOMAIN txt_to_db_id_r : txt_to_db_id_r[j] = txt_to_db_id_r[k] => j = k
    /\ \A k \in DOMAIN txt_to_db_id_r :
          /\ {lines[k][1], lines[k][2]} \subseteq Known
          /\ relationship[txt_to_db_id_r[k]].source = txt_to_db_id_n[lines[k][1]]
          /\ relationship[txt_to_db_id_r[k]].target = txt_to_db_id_n[lines[k][2]]
    /\ ~weighted /\ import # "line" => Known = LabelsRead

\* After every line the records are a graph that can be queried, see HeapFile.
ImportSound == import = "reading" => GraphSound

\* The line numbers of the relationships f.
Lines(txt_to_r, f) == [i \in DOMAIN f |-> CHOOSE k \in DOMAIN txt_to_r : txt_to_r[k] = f[i]]

\* The in-memory graph is the heap file's: for every label and direction expand
\* and in_memory_expand return the relationships of the same lines, in the same
\* order, and a search in memory finds a relationship if there is one.
InMemoryAgrees ==
    import = "reading" =>
        /\ Known = DOMAIN txt_to_mem_n
        /\ InMemoryGetNodes = {txt_to_mem_n[x] : x \in Known}
        /\ InMemoryGetRelationships = {txt_to_mem_r[k] : k \in DOMAIN txt_to_mem_r}
        /\ \A x \in Known, d \in Directions :
              Lines(txt_to_db_id_r, Expand(txt_to_db_id_n[x], d))
                  = Lines(txt_to_mem_r, InMemoryExpand(txt_to_mem_n[x], d))
        /\ \A x, y \in Known, d \in Directions :
              LET a == txt_to_mem_n[x]
                  b == txt_to_mem_n[y]
                  r == InMemoryContainsRelationshipFromTo(a, b, d)
                  between(s) == \/ d # "INCOMING" /\ cache_rels[s].source = a /\ cache_rels[s].target = b
                                \/ d # "OUTGOING" /\ cache_rels[s].source = b /\ cache_rels[s].target = a
              IN  IF r \in {Unset, Endless} THEN ~\E s \in DOMAIN cache_rels : between(s) ELSE between(r)
==============================================================================
